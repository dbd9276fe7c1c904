--------------------------- MODULE MissionHandoff ---------------------------
(***************************************************************************)
(* Sending a mission to the rover.  On Mission Control's desk a panel      *)
(* beside the open mission (AutomaticDispatch.tsx) reads the satellite's   *)
(* status, in the background and when a button is pressed, and with Send   *)
(* to Rover goes to the satellite's run station 1.5 seconds later.  The    *)
(* run station (static/pages/run.js) takes the mission from its own        *)
(* address and starts it by itself once its status polls, or the snapshot  *)
(* kept from an earlier visit (static/pages/nav.js), say the yard is       *)
(* ready.                                                                  *)
(*                                                                         *)
(* The panel outlives the mission it was opened for: opening another only  *)
(* changes its prop.  A read belongs to the panel that began it, which may *)
(* be gone by the time it is answered.  Left out: the third check, that the *)
(* satellite can record at all, and what else an operator does at the run  *)
(* station (Recording).                                                    *)
(***************************************************************************)
EXTENDS Naturals, FiniteSets

CONSTANTS
  Missions,      \* missions with code
  NoMission,     \* stands for no mission
  Yards,         \* the yards an operator may be signed in at
  Here,          \* the yard whose satellite this browser reaches
  Browsers,      \* what the browser may say of local network access at first
  Reads,         \* bound: button reads under way
  MaxLeaving,    \* bound: handoffs on their way at once
  MaxLoads       \* bound: times a run station is loaded in a behaviour

ASSUME HandoffAssumption ==
  /\ NoMission \notin Missions
  /\ Here \in Yards
  /\ Browsers \subseteq {"granted", "prompt", "denied", "blocks", "unknown"}
  /\ MaxLeaving \in Nat /\ MaxLoads \in Nat

VARIABLES
  camera, rover, \* whether each is ready now: frames within is_ready's three seconds; /health answers ok
  snapshot,      \* camera_state: the camera's answer kept by the satellite, if any
  permission,    \* local network access; "blocks": there is none and the page may not
  yard, mission, \* where the operator is signed in, and the open mission
  panel,         \* the state of the panel
  refresh,       \* the background read under way: what it was answered, if it was
  reads,         \* the button reads under way
  leaving,       \* the handoffs whose 1.5 seconds are running
  station,       \* the run station that is open in place of the desk
  stored,        \* localStorage of the satellite: its last answer, if any
  loads,         \* how many times it was loaded
  pressed        \* the missions Send was pressed for, with the yard

yardVars == <<camera, rover>>
deskVars == <<permission, yard, mission, panel, refresh, reads, leaving, pressed>>
stationVars == <<station, stored, loads>>
vars == <<yardVars, snapshot, deskVars, stationVars>>

Nothing == "nothing"
NoRead == [outcome |-> "none"]
NoStation == [run |-> "none"]
AtDesk == station = NoStation

NewPanel(p) ==
  [live |-> p = "granted", checks |-> "waiting", checking |-> FALSE, dialog |-> FALSE,
   success |-> FALSE,
   unreachable |-> IF p = "blocks" THEN "cannot" ELSE IF p = "denied" THEN "denied" ELSE "no"]

Init ==
  /\ camera \in BOOLEAN /\ rover \in BOOLEAN
  /\ snapshot = {}
  /\ permission \in Browsers
  /\ yard \in Yards
  /\ mission = NoMission
  /\ panel = NewPanel(permission)
  /\ refresh = Nothing
  /\ reads = [r \in Reads |-> NoRead]
  /\ leaving = {}
  /\ pressed = {}
  /\ station = NoStation
  /\ stored = {}
  /\ loads = 0

-----------------------------------------------------------------------------
(* The yard.  Reads and stations remember whether the rover, or the        *)
(* camera, has been ready since they began: only the properties look.      *)
RoverChanges ==
  /\ rover' = ~rover
  /\ reads' = [r \in Reads |-> IF reads[r] # NoRead /\ rover' THEN [reads[r] EXCEPT !.met = TRUE]
                                                            ELSE reads[r]]
  /\ UNCHANGED <<camera, snapshot, permission, yard, mission, panel, refresh, leaving, pressed,
                 stationVars>>

(* Starting and stopping the camera forgets the snapshot; a camera that    *)
(* fails does not.                                                         *)
CameraChanges ==
  /\ camera' = ~camera
  /\ snapshot' \in {snapshot, {}}
  /\ station' = IF ~AtDesk /\ camera' THEN [station EXCEPT !.met = TRUE] ELSE station
  /\ UNCHANGED <<rover, deskVars, stored, loads>>

(* Some page's status request probes the camera.                           *)
Probe ==
  /\ snapshot # {camera}
  /\ snapshot' = {camera}
  /\ UNCHANGED <<yardVars, deskVars, stationVars>>

(* /api/status: the rover is asked now; the camera's answer is the one     *)
(* kept, within its four seconds or while another page probes, or new.     *)
StatusSays(ready) ==
  \E c \in {camera} \cup snapshot : snapshot' = {c} /\ ready = (rover /\ c)

(* reachYard: the answer, a broken one, or why there is none.              *)
Reached(outcome) ==
  \/ /\ permission \in {"granted", "unknown"}
     /\ \/ \E ready \in BOOLEAN : StatusSays(ready) /\ outcome = IF ready THEN "ready" ELSE "notReady"
        \/ outcome \in {"broken", "offline"} /\ UNCHANGED snapshot
  \/ /\ permission \notin {"granted", "unknown"}
     /\ outcome = CASE permission = "prompt" -> "offline"
                    [] permission = "denied" -> "denied"
                    [] permission = "blocks" -> "cannot"
     /\ UNCHANGED snapshot

Outcomes == {"ready", "notReady", "broken", "offline", "denied", "cannot"}
Unreached == {"offline", "denied", "cannot"}

(* The operator answers the browser's prompt, or sets Local network access *)
(* to Allow.                                                               *)
Permit(p) ==
  /\ AtDesk
  /\ permission = "prompt" \/ (permission = "denied" /\ p = "granted")
  /\ permission' = p
  /\ UNCHANGED <<yardVars, snapshot, yard, mission, panel, refresh, reads, leaving, pressed, stationVars>>

-----------------------------------------------------------------------------
(* Opening a mission mounts a panel only where there was none.             *)
OpenMission(m) ==
  /\ AtDesk
  /\ mission # m
  /\ mission' = m
  /\ panel' = IF mission = NoMission THEN NewPanel(permission) ELSE panel
  /\ UNCHANGED <<yardVars, snapshot, permission, yard, refresh, reads, leaving, pressed, stationVars>>

(* Closing it takes the panel away: what its background read finds is      *)
(* dropped, and so is what it was checked for; a Send goes on.             *)
ClosePanel ==
  /\ AtDesk
  /\ mission # NoMission
  /\ mission' = NoMission
  /\ panel' = NewPanel(permission)
  /\ refresh' = Nothing
  /\ reads' = [r \in Reads |-> IF reads[r] = NoRead \/ ~reads[r].send THEN NoRead
                                ELSE [reads[r] EXCEPT !.gone = TRUE]]
  /\ UNCHANGED <<yardVars, snapshot, permission, yard, leaving, pressed, stationVars>>

(* The page goes away, and everything it was about to do.                  *)
PageGone ==
  /\ mission' = NoMission
  /\ panel' = NewPanel(permission)
  /\ refresh' = Nothing
  /\ reads' = [r \in Reads |-> NoRead]
  /\ leaving' = {}

(* Signing out and in, which is the only way to another yard, loads the    *)
(* page anew.                                                              *)
SignIn(y) ==
  /\ AtDesk
  /\ PageGone
  /\ yard' = y
  /\ pressed' = {}
  /\ UNCHANGED <<yardVars, snapshot, permission, stationVars>>

(* refresh(): only of a browser that has shown it can reach the yard.      *)
RefreshAsked ==
  /\ AtDesk /\ mission # NoMission
  /\ panel.live /\ ~panel.checking
  /\ refresh = Nothing
  /\ refresh' = "asked"
  /\ UNCHANGED <<yardVars, snapshot, permission, yard, mission, panel, reads, leaving, pressed, stationVars>>

RefreshServed ==
  /\ refresh = "asked"
  /\ \E outcome \in Outcomes : Reached(outcome) /\ refresh' = outcome
  /\ UNCHANGED <<yardVars, permission, yard, mission, panel, reads, leaving, pressed, stationVars>>

Told(p, outcome) ==
  CASE outcome \in {"ready", "notReady"} -> [p EXCEPT !.unreachable = "no", !.checks = outcome]
    [] outcome = "offline" -> [p EXCEPT !.unreachable = "offline", !.checks = "noAnswer"]
    [] outcome \in {"denied", "cannot"} ->
         [p EXCEPT !.unreachable = outcome, !.checks = "waiting", !.live = FALSE]
    [] outcome = "broken" -> p

(* A button's own read is not overwritten by a background one halfway.     *)
RefreshSeen ==
  /\ refresh \in Outcomes
  /\ panel' = IF panel.checking THEN panel ELSE Told(panel, refresh)
  /\ refresh' = Nothing
  /\ UNCHANGED <<yardVars, snapshot, permission, yard, mission, reads, leaving, pressed, stationVars>>

-----------------------------------------------------------------------------
(* What a press hands over is the mission that was open when it was made.  *)
Handoff(m, y) == [mission |-> m, yard |-> y]

(* The presses that may still come to something, which is what pressed     *)
(* remembers of them.                                                      *)
OnTheirWay == {h.handoff : h \in leaving} \cup
              {reads[r].handoff : r \in {q \in Reads : reads[q] # NoRead /\ reads[q].send}}

Leave(handoff, checked, met) ==
  leaving' = leaving \cup {[handoff |-> handoff, checked |-> checked, met |-> met]}

(* readYard: the panel forgets what it knew, then asks.                    *)
BeginRead(send) ==
  /\ panel' = [panel EXCEPT !.checking = TRUE, !.checks = "waiting", !.dialog = FALSE,
                            !.success = FALSE, !.unreachable = "no"]
  /\ \E r \in Reads :
       /\ reads[r] = NoRead
       /\ reads' = [reads EXCEPT ![r] = [handoff |-> Handoff(mission, yard), send |-> send,
                                         gone |-> FALSE, met |-> rover, outcome |-> "asked"]]

(* Check yard, Try again and Retry.                                        *)
PressCheck ==
  /\ AtDesk /\ mission # NoMission
  /\ ~panel.checking
  /\ \/ ~panel.live /\ panel.unreachable = "no"
     \/ panel.unreachable \in {"offline", "denied"}
     \/ panel.dialog
  /\ BeginRead(FALSE)
  /\ UNCHANGED <<yardVars, snapshot, permission, yard, mission, refresh, leaving, pressed, stationVars>>

(* Send to Rover: where the browser cannot read the yard, the run station  *)
(* opens without a read.                                                   *)
PressSend ==
  /\ AtDesk /\ mission # NoMission
  /\ Cardinality(leaving) < MaxLeaving
  /\ pressed' = (pressed \cap OnTheirWay) \cup {Handoff(mission, yard)}
  /\ \/ /\ panel.unreachable = "cannot" /\ ~panel.success
        /\ panel' = [panel EXCEPT !.success = TRUE]
        /\ Leave(Handoff(mission, yard), FALSE, FALSE)
        /\ UNCHANGED reads
     \/ /\ panel.unreachable # "cannot" /\ ~panel.checking /\ panel.checks = "ready"
        /\ BeginRead(TRUE)
        /\ UNCHANGED leaving
  /\ UNCHANGED <<yardVars, snapshot, permission, yard, mission, refresh, stationVars>>

Dismiss ==
  /\ AtDesk /\ mission # NoMission
  /\ panel.dialog
  /\ panel' = [panel EXCEPT !.dialog = FALSE]
  /\ UNCHANGED <<yardVars, snapshot, permission, yard, mission, refresh, reads, leaving, pressed, stationVars>>

ReadServed(r) ==
  /\ reads[r] # NoRead /\ reads[r].outcome = "asked"
  /\ \E outcome \in Outcomes : Reached(outcome) /\ reads' = [reads EXCEPT ![r].outcome = outcome]
  /\ UNCHANGED <<yardVars, permission, yard, mission, panel, refresh, leaving, pressed, stationVars>>

Answered(p, outcome, send) ==
  LET q == [p EXCEPT !.checking = FALSE] IN
  CASE outcome = "ready"    -> [q EXCEPT !.live = TRUE, !.checks = outcome, !.success = send]
    [] outcome = "notReady" -> [q EXCEPT !.live = TRUE, !.checks = outcome, !.dialog = send]
    [] outcome = "broken"   -> [q EXCEPT !.live = TRUE, !.dialog = TRUE]
    [] outcome = "offline"  -> [q EXCEPT !.unreachable = outcome]
    [] outcome \in {"denied", "cannot"} -> [q EXCEPT !.unreachable = outcome, !.live = FALSE]

(* Slip: the mission open by now is handed over. *)
NowOpen(read) == Handoff(mission, yard)

(* goToRunStation belongs to the panel as it was when Send was pressed.    *)
HandedOver(read) == read.handoff

(* The answer goes to the panel, if it is still there; the handoff is made *)
(* whether it is or not.                                                   *)
ReadSeen(r) ==
  LET read == reads[r] IN
  /\ read # NoRead /\ read.outcome \in Outcomes
  /\ reads' = [reads EXCEPT ![r] = NoRead]
  /\ panel' = IF read.gone THEN panel ELSE Answered(panel, read.outcome, read.send)
  /\ refresh' = IF ~read.gone /\ read.outcome \in {"denied", "cannot"} THEN Nothing ELSE refresh
  /\ IF read.send /\ read.outcome = "ready" THEN Leave(HandedOver(read), TRUE, read.met)
                                            ELSE UNCHANGED leaving
  /\ UNCHANGED <<yardVars, snapshot, permission, yard, mission, pressed, stationVars>>

-----------------------------------------------------------------------------
(* maybeAutoRun: one press of the station's own Send for each page, which  *)
(* takes the code there is in the page now.                                *)
MaybeAutoRun(s) ==
  IF s.requested /\ ~s.started /\ s.ok
  THEN [s EXCEPT !.started = TRUE, !.run = "starting", !.sending = s.code]
  ELSE s

(* The yard the mission was sent for is looked at again here.              *)
Takes(handoff) == handoff.yard = Here

LoadStation(handoff, kept) ==
  LET given == IF Takes(handoff) THEN handoff.mission ELSE NoMission IN
  /\ loads < MaxLoads
  /\ loads' = loads + 1
  /\ stored' = kept
  /\ station' = MaybeAutoRun(
       [handoff |-> handoff, requested |-> Takes(handoff), started |-> FALSE,
        ok |-> TRUE \in kept, poll |-> Nothing, run |-> "idle", name |-> given,
        code |-> [of |-> given, pasted |-> FALSE], sending |-> [of |-> NoMission, pasted |-> FALSE],
        met |-> camera])

(* The 1.5 seconds of a handoff are over: the desk's page goes away.  The  *)
(* storage holds what the last visit to the satellite's pages left there.  *)
Navigate ==
  /\ AtDesk
  /\ \E h \in leaving, kept \in {{}, {TRUE}, {FALSE}} :
       /\ LoadStation(h.handoff, kept)
       /\ pressed' = pressed \cap {h.handoff}
  /\ PageGone
  /\ UNCHANGED <<yardVars, snapshot, permission, yard>>

(* The address still holds the handoff.                                    *)
Reload ==
  /\ ~AtDesk
  /\ LoadStation(station.handoff, stored)
  /\ UNCHANGED <<yardVars, snapshot, deskVars>>

AtStation == UNCHANGED <<yardVars, deskVars, loads>>

(* A mission is pasted.  Its name is taken only if it has one.             *)
Import(m, named) ==
  /\ ~AtDesk
  /\ station' = [station EXCEPT !.code = [of |-> m, pasted |-> TRUE], !.name = IF named THEN m ELSE @]
  /\ AtStation /\ UNCHANGED <<snapshot, stored>>

PollAsked ==
  /\ ~AtDesk /\ station.poll = Nothing
  /\ station' = [station EXCEPT !.poll = "asked"]
  /\ AtStation /\ UNCHANGED <<snapshot, stored>>

PollAnswered ==
  /\ ~AtDesk /\ station.poll = "asked"
  /\ \E ready \in BOOLEAN :
       StatusSays(ready) /\ station' = [station EXCEPT !.poll = IF ready THEN "ready" ELSE "notReady"]
  /\ AtStation /\ UNCHANGED stored

PollFails ==
  /\ ~AtDesk /\ station.poll = "asked"
  /\ station' = [station EXCEPT !.poll = Nothing, !.ok = FALSE]
  /\ AtStation /\ UNCHANGED <<snapshot, stored>>

(* Slip: a page that did not start on loading does not look again. *)
PollPainted ==
  /\ ~AtDesk /\ station.poll \in {"ready", "notReady"}
  /\ stored' = {station.poll = "ready"}
  /\ station' = [station EXCEPT !.poll = Nothing, !.ok = station.poll = "ready"]
  /\ AtStation /\ UNCHANGED snapshot

PollSeen ==
  /\ ~AtDesk /\ station.poll \in {"ready", "notReady"}
  /\ stored' = {station.poll = "ready"}
  /\ station' = MaybeAutoRun([station EXCEPT !.poll = Nothing, !.ok = station.poll = "ready"])
  /\ AtStation /\ UNCHANGED snapshot

(* Slip: a recording starts on the snapshot. *)
SnapshotFilms == TRUE \in snapshot

(* /api/recording/start asks the camera itself.                            *)
CameraFilms == camera

(* The press records first.                                                *)
RecordingStarts ==
  /\ ~AtDesk /\ station.run = "starting"
  /\ CameraFilms
  /\ station' = [station EXCEPT !.run = "leadIn"]
  /\ AtStation /\ UNCHANGED <<snapshot, stored>>

(* The camera is not ready, or the satellite or the rover does not answer. *)
AutoRunFails ==
  /\ ~AtDesk /\ station.run \in {"starting", "leadIn"}
  /\ station' = [station EXCEPT !.run = "failed"]
  /\ AtStation /\ UNCHANGED <<snapshot, stored>>

(* After the lead-in, the code of the press and the name there is by now.  *)
PostRun ==
  /\ ~AtDesk /\ station.run = "leadIn"
  /\ rover
  /\ station' = [station EXCEPT !.run = "sent"]
  /\ AtStation /\ UNCHANGED <<snapshot, stored>>

-----------------------------------------------------------------------------
Desk ==
  \/ \E p \in {"granted", "denied"} : Permit(p)
  \/ \E m \in Missions : OpenMission(m)
  \/ ClosePanel \/ \E y \in Yards : SignIn(y)
  \/ RefreshAsked \/ RefreshServed \/ RefreshSeen
  \/ PressCheck \/ PressSend \/ Dismiss
  \/ \E r \in Reads : ReadServed(r) \/ ReadSeen(r)
  \/ Navigate

Station ==
  \/ Reload
  \/ \E m \in Missions, named \in BOOLEAN : Import(m, named)
  \/ PollAsked \/ PollAnswered \/ PollFails \/ PollSeen
  \/ RecordingStarts \/ AutoRunFails \/ PostRun

Next == RoverChanges \/ CameraChanges \/ Probe \/ Desk \/ Station

Spec == Init /\ [][Next]_vars

(***************************************************************************)
(* The station's page polls every five seconds; its requests fail now and  *)
(* then but get through again and again; and the satellite's snapshot of   *)
(* the camera, kept for four seconds, is renewed.  Nobody has to press.    *)
(***************************************************************************)
FairSpec ==
  /\ Spec
  /\ WF_vars(PollAsked) /\ SF_vars(PollAnswered) /\ WF_vars(PollSeen)
  /\ WF_vars(Probe)

-----------------------------------------------------------------------------
TypeOK ==
  /\ snapshot \in SUBSET BOOLEAN /\ stored \in SUBSET BOOLEAN
  /\ permission \in {"granted", "prompt", "denied", "blocks", "unknown"}
  /\ yard \in Yards /\ mission \in Missions \cup {NoMission}
  /\ panel.checks \in {"waiting", "noAnswer", "ready", "notReady"}
  /\ panel.unreachable \in Unreached \cup {"no"}
  /\ refresh \in Outcomes \cup {Nothing, "asked"}
  /\ \A r \in Reads : reads[r] # NoRead => reads[r].outcome \in Outcomes \cup {"asked"}
  /\ loads \in 0..MaxLoads

AutoRun == ~AtDesk /\ station.run = "sent"

(* What the rover starts by itself is a mission that somebody pressed Send *)
(* for, at this yard, or one that was pasted over it at the run station:   *)
(* whatever was opened, closed or selected while the read was out.         *)
OnlyWhatWasAsked ==
  AutoRun => /\ station.handoff \in pressed /\ station.handoff.yard = Here
             /\ station.sending.of = station.handoff.mission \/ station.sending.pasted

(* "A check from seconds ago is not a reason to move a robot"              *)
(* (AutomaticDispatch): a handoff that was checked found the rover in a    *)
(* read begun after its press, and a run is sent only if the camera has    *)
(* been ready since the run station opened, whatever snapshot and storage  *)
(* had kept from before.                                                   *)
MovesOnFreshAnswer ==
  /\ \A h \in leaving : h.checked => h.met
  /\ AutoRun => station.met

(* "The run station, which starts it once the yard is ready": a handoff    *)
(* that waits at a run station while the yard becomes ready and stays so   *)
(* is tried.                                                               *)
Waiting == ~AtDesk /\ station.requested /\ ~station.started
HandoffIsTried == <>[](camera /\ rover) => [](Waiting => <>~Waiting)

(* "The mission has NOT been sent to the rover" (AutomaticDispatch): no    *)
(* handoff is on its way then.                                             *)
NotSentMeansNotSent == ~(mission # NoMission /\ panel.dialog /\ leaving # {})

(* "A fallback import is read before it is sent" (run.js): what is sent by *)
(* itself was never pasted.                                                *)
ImportsAreRead == AutoRun => ~station.sending.pasted

(* A run carries the name of its own mission or none (applyImport: "rather *)
(* than leaving a stale one from a previous run").                         *)
RunsGoByTheirName ==
  [][station' # station /\ ~AtDesk /\ station'.run = "sent" => station.name = station.sending.of]_vars

(* "Starts the mission once both are ready" (AutomaticDispatch): not only  *)
(* tried once, perhaps on a snapshot of an earlier visit.                  *)
HandoffStarts ==
  <>[](camera /\ rover) => [](~AtDesk /\ station.requested => <>AutoRun)
=============================================================================
