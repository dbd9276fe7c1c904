------------------------ MODULE MissionHandoffProofs ------------------------
(***************************************************************************)
(* What the rover starts by itself was asked for, and on a fresh answer:   *)
(* OnlyWhatWasAsked and MovesOnFreshAnswer, for any number of missions,    *)
(* yards and reads.                                                        *)
(***************************************************************************)
EXTENDS MissionHandoff, TLAPS

MissionOrNone == Missions \cup {NoMission}
Handoffs == [mission : MissionOrNone, yard : Yards]
ReadRecords ==
  [handoff : Handoffs, send : BOOLEAN, gone : BOOLEAN, met : BOOLEAN,
   outcome : Outcomes \cup {"asked"}]
Departures == [handoff : Handoffs, checked : BOOLEAN, met : BOOLEAN]
Code == [of : MissionOrNone, pasted : BOOLEAN]
Stations ==
  [handoff : Handoffs, requested : BOOLEAN, started : BOOLEAN, ok : BOOLEAN,
   poll : {Nothing, "asked", "ready", "notReady"},
   run : {"idle", "starting", "leadIn", "sent", "failed"}, name : MissionOrNone,
   code : Code, sending : Code, met : BOOLEAN]

Types ==
  /\ camera \in BOOLEAN /\ rover \in BOOLEAN
  /\ permission \in {"granted", "prompt", "denied", "blocks", "unknown"}
  /\ yard \in Yards /\ mission \in MissionOrNone
  /\ reads \in [Reads -> {NoRead} \cup ReadRecords]
  /\ leaving \subseteq Departures
  /\ station \in {NoStation} \cup Stations

(* A read made to send is for something pressed for, has met a ready rover *)
(* if there is one now, and was told "ready" only by a rover it met.       *)
ReadSound(read) ==
  /\ read.send => read.handoff \in pressed
  /\ rover => read.met
  /\ read.outcome = "ready" => read.met

ReadsSound == \A r \in Reads : reads[r] # NoRead => ReadSound(reads[r])

LeavingSound == \A h \in leaving : h.handoff \in pressed /\ (h.checked => h.met)

(* A station that runs by itself was asked to, for this yard; its code is  *)
(* the handoff's until something is pasted over it; and past the start of  *)
(* its recording it has met a ready camera.                                *)
Held(s, c) == c.of = s.handoff.mission \/ c.pasted
StationSound(s) ==
  /\ s.handoff \in pressed
  /\ s.requested => s.handoff.yard = Here /\ Held(s, s.code)
  /\ s.run # "idle" => s.requested /\ Held(s, s.sending)
  /\ camera => s.met
  /\ s.run \in {"leadIn", "sent"} => s.met

IInv ==
  /\ Types
  /\ ReadsSound
  /\ LeavingSound
  /\ AtDesk \/ StationSound(station)

(* Initially nothing is under way. *)
LEMMA Begins == Init => IInv
  BY HandoffAssumption
  DEF HandoffAssumption, Init, IInv, Types, ReadsSound, LeavingSound, AtDesk, MissionOrNone

(* The invariant holds what the properties say. *)
LEMMA Suffices == IInv => OnlyWhatWasAsked /\ MovesOnFreshAnswer
  BY DEF IInv, LeavingSound, StationSound, Held, OnlyWhatWasAsked, MovesOnFreshAnswer, AutoRun, AtDesk

(* A satellite that says "ready" has a rover that is. *)
LEMMA ReadyMeansRover ==
  ASSUME NEW outcome, Types, Reached(outcome), outcome = "ready"
  PROVE  rover
  BY DEF Types, Reached, StatusSays

(* Starting by itself keeps a station sound: it takes what the page holds. *)
LEMMA AutoRunSound ==
  ASSUME NEW s \in Stations, StationSound(s)
  PROVE  MaybeAutoRun(s) \in Stations /\ StationSound(MaybeAutoRun(s))
  BY DEF Stations, StationSound, MaybeAutoRun, Held

-----------------------------------------------------------------------------
(* What the yard does. *)
LEMMA YardSteps ==
  ASSUME IInv, RoverChanges \/ CameraChanges \/ Probe
  PROVE  IInv'
<1>. USE DEF IInv, ReadsSound, LeavingSound, AtDesk
<1>1. CASE RoverChanges
  <2>. USE <1>1 DEF RoverChanges
  <2>1. \A r \in Reads : /\ reads'[r] \in {NoRead} \cup ReadRecords
                        /\ (reads[r] # NoRead => ReadSound(reads[r]))'
    BY DEF Types, ReadRecords, ReadSound
  <2>2. Types'
    BY <2>1 DEF Types, stationVars
  <2>. QED
    BY <2>1, <2>2 DEF StationSound, Held, stationVars
<1>2. CASE CameraChanges
  <2>. USE <1>2 DEF CameraChanges, deskVars
  <2>1. station' \in {NoStation} \cup Stations
    BY DEF Types, Stations
  <2>2. Types' /\ ReadsSound' /\ LeavingSound'
    BY <2>1 DEF Types, ReadSound
  <2>3. AtDesk' \/ StationSound(station)'
    BY <2>2 DEF Types, Stations, StationSound, Held
  <2>. QED
    BY <2>2, <2>3
<1>3. CASE Probe
  BY <1>3 DEF Probe, Types, ReadSound, StationSound, Held, yardVars, deskVars, stationVars
<1>. QED
  BY <1>1, <1>2, <1>3

(* The desk: what is opened, closed and read in the background.  No read   *)
(* is begun and none is made to say more.                                  *)
LEMMA QuietDeskSteps ==
  ASSUME IInv,
         \/ \E p \in {"granted", "denied"} : Permit(p)
         \/ \E m \in Missions : OpenMission(m)
         \/ ClosePanel \/ \E y \in Yards : SignIn(y)
         \/ RefreshAsked \/ RefreshServed \/ RefreshSeen \/ Dismiss
  PROVE  IInv'
<1>. USE DEF IInv, ReadsSound, LeavingSound, AtDesk
<1>1. CASE ClosePanel
  <2>. USE <1>1 DEF ClosePanel, yardVars, stationVars
  <2>1. \A r \in Reads : /\ reads'[r] \in {NoRead} \cup ReadRecords
                        /\ (reads[r] # NoRead => ReadSound(reads[r]))'
    BY DEF Types, ReadRecords, ReadSound
  <2>2. Types'
    BY <2>1 DEF Types, MissionOrNone
  <2>. QED
    BY <2>1, <2>2
<1>2. CASE \E y \in Yards : SignIn(y)
  <2>1. PICK y \in Yards : SignIn(y)
    BY <1>2
  <2>. QED
    BY <2>1 DEF SignIn, PageGone, Types, MissionOrNone, yardVars, stationVars
<1>3. CASE \/ \E p \in {"granted", "denied"} : Permit(p)
           \/ \E m \in Missions : OpenMission(m)
  BY <1>3
  DEF Permit, OpenMission, Types, MissionOrNone, ReadSound, yardVars, stationVars
<1>4. CASE RefreshAsked \/ RefreshServed \/ RefreshSeen \/ Dismiss
  BY <1>4
  DEF RefreshAsked, RefreshServed, RefreshSeen, Dismiss, Types, ReadSound, StationSound, Held, yardVars,
      stationVars
<1>. QED
  BY <1>1, <1>2, <1>3, <1>4

(* Pressing a button: a read begins, made to send only what is pressed     *)
(* for; what was pressed for before is forgotten only if nothing comes of  *)
(* it.                                                                     *)
LEMMA PressSteps ==
  ASSUME IInv, PressCheck \/ PressSend
  PROVE  IInv'
<1>. USE DEF IInv, ReadsSound, LeavingSound, AtDesk
<1>1. Handoff(mission, yard) \in Handoffs
  BY DEF Types, Handoff, Handoffs
<1>2. ASSUME NEW send \in BOOLEAN, BeginRead(send), rover' = rover,
             send => Handoff(mission, yard) \in pressed',
             \A r \in Reads : reads[r] # NoRead /\ reads[r].send /\ reads[r].handoff \in pressed
                             => reads[r].handoff \in pressed'
      PROVE  reads' \in [Reads -> {NoRead} \cup ReadRecords] /\ ReadsSound'
  <2>1. PICK q \in Reads :
          reads' = [reads EXCEPT ![q] = [handoff |-> Handoff(mission, yard), send |-> send,
                                         gone |-> FALSE, met |-> rover, outcome |-> "asked"]]
    BY <1>2 DEF BeginRead
  <2>. DEFINE new == [handoff |-> Handoff(mission, yard), send |-> send,
                      gone |-> FALSE, met |-> rover, outcome |-> "asked"]
  <2>2. new \in ReadRecords
    BY <1>1, <1>2 DEF ReadRecords, Types
  <2>3. reads' = [reads EXCEPT ![q] = new]
    BY <2>1
  <2>4. reads' \in [Reads -> {NoRead} \cup ReadRecords]
    BY <2>2, <2>3 DEF Types
  <2>5. ReadSound(reads[q])'
    BY <1>2, <2>1 DEF ReadSound, Types
  <2>6. ASSUME NEW r \in Reads, r # q, reads[r] # NoRead PROVE ReadSound(reads[r])'
    BY <1>2, <2>1, <2>6 DEF ReadSound, Types
  <2>. QED
    BY <2>1, <2>4, <2>5, <2>6 DEF Types
<1>3. CASE PressCheck
  <2>1. reads' \in [Reads -> {NoRead} \cup ReadRecords] /\ ReadsSound'
    BY <1>2, <1>3 DEF PressCheck, yardVars
  <2>. QED
    BY <1>3, <2>1 DEF PressCheck, Types, yardVars, stationVars
<1>4. CASE PressSend
  <2>. USE <1>4 DEF PressSend, yardVars, stationVars
  <2>1. Handoff(mission, yard) \in pressed'
    OBVIOUS
  <2>2. \A h \in leaving : h.handoff \in pressed'
    BY DEF OnTheirWay
  <2>3. \A r \in Reads : reads[r] # NoRead /\ reads[r].send /\ reads[r].handoff \in pressed
                        => reads[r].handoff \in pressed'
    BY DEF OnTheirWay
  <2>4. CASE Leave(Handoff(mission, yard), FALSE, FALSE) /\ UNCHANGED reads
    <3>. DEFINE departure == [handoff |-> Handoff(mission, yard), checked |-> FALSE, met |-> FALSE]
    <3>1. departure \in Departures /\ leaving' = leaving \cup {departure}
      BY <1>1, <2>4 DEF Leave, Departures
    <3>2. departure.handoff = Handoff(mission, yard) /\ departure.checked = FALSE
      OBVIOUS
    <3>. HIDE DEF departure
    <3>3. \A h \in leaving' : h.handoff \in pressed' /\ (h.checked => h.met)
      BY <2>1, <2>2, <3>1, <3>2
    <3>4. leaving' \subseteq Departures
      BY <3>1 DEF Types
    <3>5. ReadsSound'
      BY <2>3, <2>4 DEF ReadSound
    <3>. QED
      BY <2>4, <3>3, <3>4, <3>5 DEF Types
  <2>5. CASE BeginRead(TRUE) /\ UNCHANGED leaving
    <3>1. reads' \in [Reads -> {NoRead} \cup ReadRecords] /\ ReadsSound'
      BY <1>2, <2>1, <2>3, <2>5
    <3>. QED
      BY <2>2, <2>5, <3>1 DEF Types
  <2>. QED
    BY <2>4, <2>5
<1>. QED
  BY <1>3, <1>4

(* An answer: "ready" comes only from a rover the read has met, and what   *)
(* is handed over then is what the read was begun for.                     *)
LEMMA ReadSteps ==
  ASSUME IInv, NEW r \in Reads, ReadServed(r) \/ ReadSeen(r)
  PROVE  IInv'
<1>. USE DEF IInv, ReadsSound, LeavingSound, AtDesk
<1>1. CASE ReadServed(r)
  <2>. USE <1>1 DEF ReadServed, yardVars, stationVars
  <2>1. PICK outcome \in Outcomes :
          Reached(outcome) /\ reads' = [reads EXCEPT ![r].outcome = outcome]
    OBVIOUS
  <2>2. outcome = "ready" => rover
    BY <2>1, ReadyMeansRover
  <2>3. reads[r] \in ReadRecords
    BY DEF Types
  <2>4. reads'[r] \in ReadRecords /\ ReadSound(reads[r])'
    BY <2>1, <2>2, <2>3 DEF ReadRecords, ReadSound, Types
  <2>5. ASSUME NEW q \in Reads, q # r, reads[q] # NoRead PROVE ReadSound(reads[q])'
    BY <2>1, <2>5 DEF ReadSound, Types
  <2>6. reads' \in [Reads -> {NoRead} \cup ReadRecords]
    BY <2>1, <2>4 DEF Types
  <2>7. ReadsSound'
    BY <2>1, <2>4, <2>5 DEF Types
  <2>. QED
    BY <2>6, <2>7 DEF Types, StationSound, Held
<1>2. CASE ReadSeen(r)
  <2>. USE <1>2 DEF ReadSeen, yardVars, stationVars
  <2>1. reads[r] \in ReadRecords /\ ReadSound(reads[r])
    BY DEF Types
  <2>2. reads' \in [Reads -> {NoRead} \cup ReadRecords] /\ ReadsSound'
    BY DEF Types, ReadSound
  <2>3. leaving' \subseteq Departures /\ LeavingSound'
    <3>1. CASE reads[r].send /\ reads[r].outcome = "ready"
      <4>. DEFINE departure == [handoff |-> reads[r].handoff, checked |-> TRUE,
                                met |-> reads[r].met]
      <4>1. departure \in Departures /\ leaving' = leaving \cup {departure}
        BY <2>1, <3>1 DEF Leave, HandedOver, Departures, ReadRecords
      <4>2. departure.handoff \in pressed /\ departure.met
        BY <2>1, <3>1 DEF ReadSound
      <4>. HIDE DEF departure
      <4>. QED
        BY <4>1, <4>2 DEF Types
    <3>2. CASE ~(reads[r].send /\ reads[r].outcome = "ready")
      BY <3>2 DEF Types
    <3>. QED
      BY <3>1, <3>2
  <2>. QED
    BY <2>2, <2>3 DEF Types, StationSound, Held
<1>. QED
  BY <1>1, <1>2

(* A run station loaded with a handoff that was pressed for is sound.      *)
LEMMA LoadedSound ==
  ASSUME Types, NEW handoff \in Handoffs, NEW kept, handoff \in pressed',
         LoadStation(handoff, kept), camera' = camera
  PROVE  station' \in Stations /\ StationSound(station)'
<1>. DEFINE given == IF Takes(handoff) THEN handoff.mission ELSE NoMission
            fresh == [handoff |-> handoff, requested |-> Takes(handoff), started |-> FALSE,
                      ok |-> TRUE \in kept, poll |-> Nothing, run |-> "idle", name |-> given,
                      code |-> [of |-> given, pasted |-> FALSE],
                      sending |-> [of |-> NoMission, pasted |-> FALSE], met |-> camera]
<1>1. given \in MissionOrNone
  BY DEF Handoffs, MissionOrNone
<1>2. fresh \in Stations
  BY <1>1 DEF Stations, Code, MissionOrNone, Types, Takes
<1>3. station' = MaybeAutoRun(fresh)
  BY DEF LoadStation
<1>4. /\ fresh.handoff = handoff /\ fresh.run = "idle" /\ fresh.met = camera
      /\ fresh.requested => handoff.yard = Here /\ fresh.code.of = handoff.mission
  BY DEF Takes
<1>. HIDE DEF fresh
<1>5. MaybeAutoRun(fresh) \in Stations
  BY <1>2 DEF Stations, MaybeAutoRun
<1>6. LET s == MaybeAutoRun(fresh) IN
      /\ s.handoff = handoff /\ s.requested = fresh.requested /\ s.code = fresh.code
      /\ s.met = fresh.met /\ s.run \in {"idle", "starting"}
      /\ s.run # "idle" => s.requested /\ s.sending = fresh.code
  BY <1>2, <1>4 DEF Stations, MaybeAutoRun
<1>. QED
  BY <1>3, <1>4, <1>5, <1>6 DEF StationSound, Held

LEMMA LoadSteps ==
  ASSUME IInv, Navigate \/ Reload
  PROVE  IInv'
<1>. USE DEF IInv, ReadsSound, LeavingSound, AtDesk
<1>1. CASE Navigate
  <2>1. PICK h \in leaving, kept \in {{}, {TRUE}, {FALSE}} :
          LoadStation(h.handoff, kept) /\ pressed' = pressed \cap {h.handoff}
    BY <1>1 DEF Navigate
  <2>2. h.handoff \in Handoffs
    BY <2>1 DEF Types, Departures
  <2>3. station' \in Stations /\ StationSound(station)'
    BY <1>1, <2>1, <2>2, LoadedSound DEF Navigate, yardVars
  <2>. QED
    BY <1>1, <2>3 DEF Navigate, PageGone, Types, MissionOrNone, yardVars
<1>2. CASE Reload
  <2>1. station.handoff \in Handoffs
    BY <1>2 DEF Reload, Types, Stations
  <2>2. station' \in Stations /\ StationSound(station)'
    BY <1>2, <2>1, LoadedSound DEF Reload, StationSound, yardVars, deskVars
  <2>. QED
    BY <1>2, <2>2 DEF Reload, Types, ReadSound, yardVars, deskVars
<1>. QED
  BY <1>1, <1>2

(* At the run station: the camera is asked when the recording starts, and  *)
(* nothing but a start by itself changes what is sent.                     *)
LEMMA StationSteps ==
  ASSUME IInv, \/ \E m \in Missions, named \in BOOLEAN : Import(m, named)
               \/ PollAsked \/ PollAnswered \/ PollFails \/ PollSeen
               \/ RecordingStarts \/ AutoRunFails \/ PostRun
  PROVE  IInv'
<1>. USE DEF AtStation, yardVars, deskVars
<1>1. station' \in Stations /\ StationSound(station)'
  <2>. USE DEF IInv, Types, AtDesk
  <2>1. CASE \E m \in Missions, named \in BOOLEAN : Import(m, named)
    <3>1. PICK m \in Missions, named \in BOOLEAN : Import(m, named)
      BY <2>1
    <3>2. station \in Stations /\ StationSound(station)
      BY <3>1 DEF Import
    <3>3. [of |-> m, pasted |-> TRUE] \in Code /\ [of |-> m, pasted |-> TRUE].pasted
      BY DEF Code, MissionOrNone
    <3>4. PICK c \in Code, n \in MissionOrNone :
            c.pasted /\ station' = [station EXCEPT !.code = c, !.name = n]
      BY <3>1, <3>2, <3>3 DEF Import, Stations, MissionOrNone
    <3>5. station' \in Stations
      BY <3>2, <3>4 DEF Stations
    <3>. QED
      BY <3>1, <3>2, <3>4, <3>5 DEF Import, Stations, StationSound, Held
  <2>2. CASE PollAsked \/ PollAnswered \/ PollFails
    <3>1. station \in Stations /\ StationSound(station)
      BY <2>2 DEF PollAsked, PollAnswered, PollFails
    <3>2. CASE PollAsked
      BY <3>1, <3>2 DEF PollAsked, Stations, StationSound, Held
    <3>3. CASE PollAnswered
      <4>1. PICK p \in {"ready", "notReady"} : station' = [station EXCEPT !.poll = p]
        BY <3>3 DEF PollAnswered
      <4>2. station' \in Stations
        BY <3>1, <4>1 DEF Stations
      <4>. QED
        BY <3>1, <3>3, <4>1, <4>2 DEF PollAnswered, Stations, StationSound, Held
    <3>4. CASE PollFails
      BY <3>1, <3>4 DEF PollFails, Stations, StationSound, Held
    <3>. QED
      BY <2>2, <3>2, <3>3, <3>4
  <2>3. CASE PollSeen
    <3>. DEFINE told == [station EXCEPT !.poll = Nothing, !.ok = station.poll = "ready"]
    <3>1. told \in Stations /\ StationSound(told)
      BY <2>3 DEF PollSeen, Stations, StationSound, Held
    <3>2. station' = MaybeAutoRun(told)
      BY <2>3 DEF PollSeen
    <3>. HIDE DEF told
    <3>. QED
      BY <2>3, <3>1, <3>2, AutoRunSound DEF PollSeen, StationSound, Held
  <2>4. CASE RecordingStarts \/ AutoRunFails \/ PostRun
    BY <2>4
    DEF RecordingStarts, AutoRunFails, PostRun, CameraFilms, Stations, StationSound, Held
  <2>. QED
    BY <2>1, <2>2, <2>3, <2>4
<1>2. UNCHANGED <<yardVars, deskVars>>
  BY DEF Import, PollAsked, PollAnswered, PollFails, PollSeen, RecordingStarts, AutoRunFails, PostRun
<1>. QED
  BY <1>1, <1>2 DEF IInv, Types, ReadsSound, ReadSound, LeavingSound

-----------------------------------------------------------------------------
LEMMA Inductive == IInv /\ [Next]_vars => IInv'
<1>. SUFFICES ASSUME IInv, [Next]_vars PROVE IInv'
  OBVIOUS
<1>1. CASE RoverChanges \/ CameraChanges \/ Probe
  BY <1>1, YardSteps
<1>2. CASE Desk
  BY <1>2, QuietDeskSteps, PressSteps, ReadSteps, LoadSteps DEF Desk
<1>3. CASE Station
  BY <1>3, LoadSteps, StationSteps DEF Station
<1>4. CASE UNCHANGED vars
  BY <1>4
  DEF vars, yardVars, deskVars, stationVars, IInv, Types, ReadsSound, ReadSound, LeavingSound,
      AtDesk, StationSound, Held
<1>. QED
  BY <1>1, <1>2, <1>3, <1>4 DEF Next

LEMMA Invariant == Spec => []IInv
  BY Begins, Inductive, PTL DEF Spec

(* What the rover starts by itself is what Send was pressed for, at this   *)
(* yard, or what was pasted over it: no later opening, closing or reading  *)
(* on the desk changes what a press hands over.                            *)
THEOREM AskedFor == Spec => []OnlyWhatWasAsked
  BY Invariant, Suffices, PTL

(* A checked handoff rests on a rover found ready since the press, and a   *)
(* run on a camera found ready since the station opened, however old the   *)
(* snapshots they started from.                                            *)
THEOREM FreshAnswer == Spec => []MovesOnFreshAnswer
  BY Invariant, Suffices, PTL
-----------------------------------------------------------------------------
(* The types of the panel, of what the satellite keeps and of the loads.   *)
Panels ==
  [live : BOOLEAN, checks : {"waiting", "noAnswer", "ready", "notReady"}, checking : BOOLEAN,
   dialog : BOOLEAN, success : BOOLEAN, unreachable : Unreached \cup {"no"}]

PanelTypes == panel \in Panels /\ refresh \in Outcomes \cup {Nothing, "asked"}
KeptTypes == snapshot \in SUBSET BOOLEAN /\ stored \in SUBSET BOOLEAN /\ loads \in 0..MaxLoads

(* A panel begins, and is told and answered, as one of the panels there are. *)
LEMMA NewPanelTyped == ASSUME NEW p PROVE NewPanel(p) \in Panels
  BY DEF NewPanel, Panels, Unreached

LEMMA ToldTyped ==
  ASSUME NEW p \in Panels, NEW outcome \in Outcomes
  PROVE  Told(p, outcome) \in Panels
<1>1. CASE outcome \in {"ready", "notReady"}
  BY <1>1 DEF Told, Panels, Unreached
<1>2. CASE outcome = "offline"
  BY <1>2 DEF Told, Panels, Unreached
<1>3. CASE outcome \in {"denied", "cannot"}
  BY <1>3 DEF Told, Panels, Unreached
<1>4. CASE outcome = "broken"
  BY <1>4 DEF Told
<1>. QED
  BY <1>1, <1>2, <1>3, <1>4 DEF Outcomes

LEMMA AnsweredTyped ==
  ASSUME NEW p \in Panels, NEW outcome \in Outcomes, NEW send \in BOOLEAN
  PROVE  Answered(p, outcome, send) \in Panels
<1>1. CASE outcome = "ready"
  BY <1>1 DEF Answered, Panels
<1>2. CASE outcome = "notReady"
  BY <1>2 DEF Answered, Panels
<1>3. CASE outcome = "broken"
  BY <1>3 DEF Answered, Panels
<1>4. CASE outcome = "offline"
  BY <1>4 DEF Answered, Panels, Unreached
<1>5. CASE outcome \in {"denied", "cannot"}
  BY <1>5 DEF Answered, Panels, Unreached
<1>. QED
  BY <1>1, <1>2, <1>3, <1>4, <1>5 DEF Outcomes

LEMMA PanelTyped == IInv /\ PanelTypes /\ [Next]_vars => PanelTypes'
<1>. SUFFICES ASSUME IInv, PanelTypes, [Next]_vars PROVE PanelTypes'
  OBVIOUS
<1>. USE DEF PanelTypes
<1>1. CASE UNCHANGED <<panel, refresh>>
  BY <1>1
<1>2. CASE UNCHANGED deskVars
  BY <1>1, <1>2 DEF deskVars
<1>3. CASE RoverChanges \/ CameraChanges \/ Probe
  BY <1>1, <1>3 DEF RoverChanges, CameraChanges, Probe, deskVars
<1>4. ASSUME NEW m, OpenMission(m) PROVE PanelTypes'
  BY <1>4, NewPanelTyped DEF OpenMission
<1>5. CASE ClosePanel \/ PageGone
  BY <1>5, NewPanelTyped DEF ClosePanel, PageGone
<1>6. CASE RefreshAsked \/ RefreshServed
  BY <1>6 DEF RefreshAsked, RefreshServed
<1>7. CASE RefreshSeen
  BY <1>7, ToldTyped DEF RefreshSeen
<1>8. ASSUME NEW send, BeginRead(send), refresh' = refresh PROVE PanelTypes'
  BY <1>8 DEF BeginRead, Panels
<1>9. CASE PressCheck \/ PressSend \/ Dismiss
  <2>1. CASE PressCheck
    BY <1>8, <2>1 DEF PressCheck
  <2>2. CASE PressSend
    <3>1. refresh' = refresh
          /\ (panel' = [panel EXCEPT !.success = TRUE] \/ BeginRead(TRUE))
      BY <2>2 DEF PressSend
    <3>. QED
      BY <1>8, <3>1 DEF Panels
  <2>3. CASE Dismiss
    BY <2>3 DEF Dismiss, Panels
  <2>. QED
    BY <1>9, <2>1, <2>2, <2>3
<1>10. ASSUME NEW r \in Reads, ReadServed(r) PROVE PanelTypes'
  BY <1>1, <1>10 DEF ReadServed
<1>11. ASSUME NEW r \in Reads, ReadSeen(r) PROVE PanelTypes'
  <2>1. reads[r].outcome \in Outcomes /\ reads[r].send \in BOOLEAN
    BY <1>11 DEF ReadSeen, IInv, Types, ReadRecords
  <2>2. panel' = panel \/ panel' = Answered(panel, reads[r].outcome, reads[r].send)
    BY <1>11 DEF ReadSeen
  <2>3. refresh' \in {refresh, Nothing}
    BY <1>11 DEF ReadSeen
  <2>. QED
    BY <2>1, <2>2, <2>3, AnsweredTyped
<1>12. CASE Desk
  <2>1. ASSUME NEW p, Permit(p) PROVE UNCHANGED <<panel, refresh>>
    BY <2>1 DEF Permit
  <2>2. ASSUME Navigate \/ \E y \in Yards : SignIn(y) PROVE PageGone
    BY <2>2 DEF Navigate, SignIn
  <2>. QED
    BY <1>1, <1>4, <1>5, <1>6, <1>7, <1>9, <1>10, <1>11, <1>12, <2>1, <2>2 DEF Desk
<1>13. CASE Station
  BY <1>2, <1>13
  DEF Station, Reload, Import, PollAsked, PollAnswered, PollFails, PollSeen, RecordingStarts,
      AutoRunFails, PostRun, AtStation
<1>14. CASE UNCHANGED vars
  BY <1>2, <1>14 DEF vars
<1>. QED
  BY <1>3, <1>12, <1>13, <1>14 DEF Next

LEMMA KeptTyped == IInv /\ KeptTypes /\ [Next]_vars => KeptTypes'
<1>. SUFFICES ASSUME IInv, KeptTypes, [Next]_vars PROVE KeptTypes'
  OBVIOUS
<1>. USE HandoffAssumption DEF HandoffAssumption, KeptTypes
<1>1. ASSUME NEW ready, StatusSays(ready) PROVE snapshot' \in SUBSET BOOLEAN
  BY <1>1 DEF StatusSays, IInv, Types
<1>2. ASSUME NEW outcome, Reached(outcome) PROVE snapshot' \in SUBSET BOOLEAN
  BY <1>1, <1>2 DEF Reached
<1>3. CASE UNCHANGED <<stored, loads>> /\ snapshot' \in SUBSET BOOLEAN
  BY <1>3
<1>4. CASE RoverChanges \/ CameraChanges \/ Probe
  BY <1>3, <1>4 DEF RoverChanges, CameraChanges, Probe, stationVars, IInv, Types
<1>5. ASSUME NEW handoff, NEW kept \in SUBSET BOOLEAN, LoadStation(handoff, kept), snapshot' = snapshot
      PROVE  KeptTypes'
  BY <1>5 DEF LoadStation
<1>6. CASE Navigate
  <2>1. PICK h \in leaving, kept \in {{}, {TRUE}, {FALSE}} : LoadStation(h.handoff, kept)
    BY <1>6 DEF Navigate
  <2>2. kept \in SUBSET BOOLEAN
    OBVIOUS
  <2>3. snapshot' = snapshot
    BY <1>6 DEF Navigate
  <2>. QED
    BY <1>5, <2>1, <2>2, <2>3
<1>7. CASE Reload
  <2>1. \E handoff : LoadStation(handoff, stored) /\ snapshot' = snapshot
    BY <1>7 DEF Reload
  <2>. QED
    BY <1>5, <2>1
<1>8. CASE RefreshServed \/ \E r \in Reads : ReadServed(r)
  <2>1. \E outcome : Reached(outcome)
    BY <1>8 DEF RefreshServed, ReadServed
  <2>2. UNCHANGED <<stored, loads>>
    BY <1>8 DEF RefreshServed, ReadServed, stationVars
  <2>. QED
    BY <1>2, <2>1, <2>2
<1>9. ASSUME NEW r, ReadSeen(r) PROVE KeptTypes'
  BY <1>9 DEF ReadSeen, stationVars
<1>10. CASE Desk
  <2>1. ASSUME NEW p, Permit(p) PROVE KeptTypes'
    BY <2>1 DEF Permit, stationVars
  <2>2. ASSUME NEW m, OpenMission(m) \/ SignIn(m) PROVE KeptTypes'
    BY <2>2 DEF OpenMission, SignIn, stationVars
  <2>3. CASE ClosePanel \/ RefreshAsked \/ RefreshSeen \/ PressCheck \/ PressSend \/ Dismiss
    BY <2>3 DEF ClosePanel, RefreshAsked, RefreshSeen, PressCheck, PressSend, Dismiss, stationVars
  <2>. QED
    BY <1>6, <1>8, <1>9, <1>10, <2>1, <2>2, <2>3 DEF Desk
<1>11. CASE Station
  <2>1. ASSUME NEW m, NEW named, Import(m, named) PROVE KeptTypes'
    BY <2>1 DEF Import, AtStation
  <2>2. CASE PollAsked \/ PollFails \/ RecordingStarts \/ AutoRunFails \/ PostRun
    BY <2>2 DEF PollAsked, PollFails, RecordingStarts, AutoRunFails, PostRun, AtStation
  <2>3. CASE PollAnswered
    <3>1. \E ready : StatusSays(ready)
      BY <2>3 DEF PollAnswered
    <3>. QED
      BY <1>1, <2>3, <3>1 DEF PollAnswered, AtStation
  <2>4. CASE PollSeen
    BY <2>4 DEF PollSeen, AtStation
  <2>. QED
    BY <1>7, <1>11, <2>1, <2>2, <2>3, <2>4 DEF Station
<1>12. CASE UNCHANGED vars
  BY <1>12 DEF vars, stationVars
<1>. QED
  BY <1>4, <1>10, <1>11, <1>12 DEF Next

(* Whatever answers come late, the panel, the satellite's snapshot and the *)
(* reads are what the code says they can be (AutomaticDispatch, nav.js).   *)
THEOREM HandoffTypeCorrect == Spec => []TypeOK
<1>1. Init => PanelTypes /\ KeptTypes
  BY HandoffAssumption, NewPanelTyped DEF HandoffAssumption, Init, PanelTypes, KeptTypes
<1>2. IInv /\ PanelTypes /\ KeptTypes => TypeOK
  BY DEF IInv, Types, PanelTypes, KeptTypes, Panels, ReadRecords, MissionOrNone, TypeOK
<1>. QED
  BY <1>1, <1>2, Begins, Inductive, PanelTyped, KeptTyped, PTL DEF Spec
=============================================================================
