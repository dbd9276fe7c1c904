--------------------------- MODULE RecordingProofs ---------------------------
(***************************************************************************)
(* What holds of Recording for any names, any number of recordings and     *)
(* runs, any buttons and any number of presses under way at a time.        *)
(***************************************************************************)
EXTENDS Recording, TLAPS

USE RecordingAssumption DEF None, Recs, Runs

-----------------------------------------------------------------------------
(* Type correctness, one part for each party.                              *)

TableTypes ==
  /\ rec \in [Names -> 0..MaxRec]
  /\ own \in [Recs -> SUBSET Runs]
  /\ fate \in [Recs -> {"unmade", "open", "kept", "replaced"}]
  /\ titled \in [Recs -> Names \cup {NoMission}]
  /\ made \in 0..MaxRec
  /\ filmed \subseteq Recs
  /\ consumer \in {"off", "connecting", "receiving", "wrote", "leaving"}
  /\ \A q \in Recs : q <= made => titled[q] \in Names
  /\ \A n \in Names : rec[n] <= made

RoverTypes ==
  /\ run \in [Runs -> {"unsent", "sent", "accepted", "cleared", "over"}]
  /\ mission \in [Runs -> Missions \cup {NoMission}]
  /\ sent \in 0..MaxRuns
  /\ endedIn \in [Recs -> SUBSET Runs]
  /\ \A r \in Runs : r > sent => run[r] = "unsent"

At == {"idle", "starting", "started", "leadIn", "posted", "stopping", "stopped"}
PressRecords == [of : Buttons \cup {"none"}, at : At, about : Names \cup Nat]

Fits(w, m, s) ==
  /\ w.at \in {"starting", "stopping"} => w.about \in Names
  /\ w.at = "started" => w.about \in 1..m
  /\ w.at = "posted" => w.about \in 1..s

PageTypes ==
  /\ shown \in 0..made
  /\ press \in [Presses -> PressRecords]
  /\ \A p \in Presses : Fits(press[p], made, sent)
  /\ locked \in BOOLEAN
  /\ poll \in [at : {"idle", "asked", "answered"}, since : 0..made, active : SUBSET Names]
  /\ announced \subseteq 1..made

Snapshots == UNION {[S -> 0..made] : S \in SUBSET Names}
Entries == UNION {[S -> Entry] : S \in SUBSET Names}

(* Within a pass, the names left to visit are those of the snapshot, and   *)
(* each entry is about the recording that the snapshot has.                *)
PassInv ==
  /\ wPc = "stamping" => todo \subseteq DOMAIN filming
  /\ wPc \in {"asking", "deciding"} => DOMAIN filming \subseteq DOMAIN watched
  /\ wPc \in {"asking", "deciding", "stopping"} =>
       /\ todo \subseteq DOMAIN filming /\ todo \subseteq DOMAIN watched
       /\ \A n \in DOMAIN filming : n \in DOMAIN watched => watched[n].started = filming[n]

WatcherTypes ==
  /\ wPc \in {"resting", "stamping", "asking", "deciding", "stopping", "rested", "overdue"}
  /\ todo \subseteq Names
  /\ filming \in Snapshots
  /\ watched \in Entries
  /\ \A n \in DOMAIN watched : watched[n].started <= made
  /\ answer \subseteq Runs
  /\ notes \subseteq [run : Runs, recording : 0..MaxRec]
  /\ PassInv

TypeInv == TableTypes /\ RoverTypes /\ PageTypes /\ WatcherTypes

LEMMA TypeParts == TypeInv => TypeOK
  <1>1. ASSUME TypeInv, NEW p \in Presses
        PROVE  press[p].of \in Buttons \cup {"none"} /\ press[p].at \in At
    BY <1>1 DEF TypeInv, PageTypes, PressRecords
  <1>2. ASSUME TypeInv
        PROVE  announced \subseteq Recs /\ shown \in 0..MaxRec /\ poll.at \in {"idle", "asked", "answered"}
    BY <1>2 DEF TypeInv, PageTypes, TableTypes
  <1>3. ASSUME TypeInv
        PROVE  /\ DOMAIN filming \subseteq Names /\ DOMAIN watched \subseteq Names
               /\ \A n \in DOMAIN watched : watched[n] \in Entry
    BY <1>3 DEF TypeInv, WatcherTypes, Snapshots, Entries
  <1>4. ASSUME TypeInv
        PROVE  TypeOK
    BY <1>1, <1>2, <1>3, <1>4 DEF TypeInv, TableTypes, RoverTypes, PageTypes, WatcherTypes, At, TypeOK
  <1> QED
    BY <1>4

LEMMA TypeStart == Init => TypeInv
  <1> SUFFICES ASSUME Init PROVE TypeInv
    OBVIOUS
  <1>1. TableTypes /\ RoverTypes
    BY DEF Init, TableTypes, RoverTypes
  <1>a. NoPress \in PressRecords /\ NoPress.at = "idle"
    BY DEF PressRecords, NoPress, At
  <1>b. shown = 0 /\ made = 0 /\ announced = {}
    BY DEF Init
  <1>c. press \in [Presses -> PressRecords] /\ \A p \in Presses : press[p].at = "idle"
    BY <1>a DEF Init
  <1>d. poll \in [at : {"idle", "asked", "answered"}, since : 0..made, active : SUBSET Names]
    BY <1>b DEF Init
  <1>2. PageTypes
    <2>1. shown \in 0..made /\ announced \subseteq 1..made
      BY <1>b
    <2>3. locked \in BOOLEAN
      BY DEF Init
    <2>2. \A p \in Presses : press[p].at \notin {"starting", "stopping", "started", "posted"}
      BY <1>c
    <2> QED
      BY <1>c, <1>d, <2>1, <2>2, <2>3 DEF PageTypes, Fits
  <1>3. <<>> \in [{} -> 0..made] /\ <<>> \in [{} -> Entry]
    OBVIOUS
  <1>4. WatcherTypes
    BY <1>3 DEF Init, WatcherTypes, Snapshots, Entries, PassInv
  <1> QED
    BY <1>1, <1>2, <1>4 DEF TypeInv

-----------------------------------------------------------------------------
(* The parts only look at each other's counters, which only grow.          *)

LEMMA PageKept ==
  ASSUME TypeInv, TableTypes', RoverTypes', UNCHANGED pageVars, made' >= made, sent' >= sent
  PROVE  PageTypes'
  <1>1. /\ shown' \in 0..made' /\ announced' \subseteq 1..made' /\ locked' \in BOOLEAN
        /\ press' \in [Presses -> PressRecords]
    BY DEF TypeInv, TableTypes, PageTypes, pageVars
  <1>2. poll' \in [at : {"idle", "asked", "answered"}, since : 0..made', active : SUBSET Names]
    BY DEF TypeInv, TableTypes, PageTypes, pageVars
  <1>3. ASSUME NEW p \in Presses
        PROVE  Fits(press'[p], made', sent')
    BY DEF TypeInv, TableTypes, RoverTypes, PageTypes, pageVars, Fits
  <1> QED
    BY <1>1, <1>2, <1>3 DEF PageTypes

LEMMA WatcherKept ==
  ASSUME TypeInv, TableTypes', UNCHANGED watcherVars, made' >= made
  PROVE  WatcherTypes'
  <1>1. filming \in Snapshots'
    BY DEF TypeInv, TableTypes, WatcherTypes, Snapshots
  <1>2. \A n \in DOMAIN watched : watched[n].started <= made'
    BY DEF TypeInv, TableTypes, WatcherTypes, Entries, Entry
  <1> QED
    BY <1>1, <1>2 DEF TypeInv, WatcherTypes, watcherVars, PassInv

(* A press that moves on leaves the others as they were. *)
LEMMA PressMoves ==
  ASSUME TypeInv, TableTypes', RoverTypes', made' >= made, sent' >= sent,
         NEW p \in Presses, NEW w \in PressRecords, Fits(w, made', sent'),
         press' = [press EXCEPT ![p] = w]
  PROVE  press' \in [Presses -> PressRecords] /\ \A o \in Presses : Fits(press'[o], made', sent')
  <1>1. press' \in [Presses -> PressRecords]
    BY DEF TypeInv, PageTypes
  <1>2. ASSUME NEW o \in Presses, o # p
        PROVE  Fits(press'[o], made', sent')
    <2>1. press'[o] = press[o]
      BY <1>2 DEF TypeInv, PageTypes
    <2> QED
      BY <2>1 DEF TypeInv, TableTypes, RoverTypes, PageTypes, Fits
  <1>3. Fits(press'[p], made', sent')
    BY DEF TypeInv, PageTypes, Fits
  <1> QED
    BY <1>1, <1>2, <1>3

LEMMA HandlerMoves ==
  ASSUME TypeInv, NEW p \in Presses, NEW from, NEW to \in At, NEW about \in Names \cup Nat,
         Handler(p, from, to, about)
  PROVE  LET w == [of |-> press[p].of, at |-> to, about |-> about] IN
         w \in PressRecords /\ press' = [press EXCEPT ![p] = w]
  <1>1. press \in [Presses -> PressRecords]
    BY DEF TypeInv, PageTypes
  <1>2. \A v \in PressRecords :
          /\ [v EXCEPT !.at = to] \in PressRecords
          /\ [v EXCEPT !.at = to].of = v.of /\ [v EXCEPT !.at = to].at = to
          /\ [v EXCEPT !.about = about] = [of |-> v.of, at |-> v.at, about |-> about]
    BY DEF PressRecords
  <1> DEFINE f == [press EXCEPT ![p].at = to]
             w == [of |-> press[p].of, at |-> to, about |-> about]
  <1>3. press[p] \in PressRecords /\ w \in PressRecords
    BY <1>1 DEF PressRecords
  <1>4. f \in [Presses -> PressRecords] /\ f[p] = [press[p] EXCEPT !.at = to]
        /\ \A o \in Presses \ {p} : f[o] = press[o]
    BY <1>1, <1>2, <1>3
  <1>5. press' = [f EXCEPT ![p].about = about]
    BY DEF Handler
  <1> HIDE DEF f
  <1>6. press' = [f EXCEPT ![p] = [f[p] EXCEPT !.about = about]]
    BY <1>5
  <1>7. [f[p] EXCEPT !.about = about] = w
    BY <1>2, <1>3, <1>4
  <1>8. press' = [o \in Presses |-> IF o = p THEN w ELSE press[o]]
    BY <1>4, <1>6, <1>7
  <1> QED
    BY <1>1, <1>3, <1>8

LEMMA HandlerGone ==
  ASSUME TypeInv, NEW p \in Presses, NEW from, HandlerEnds(p, from)
  PROVE  NoPress \in PressRecords /\ Fits(NoPress, made', sent') /\ press' = [press EXCEPT ![p] = NoPress]
  BY DEF HandlerEnds, NoPress, PressRecords, At, Fits

-----------------------------------------------------------------------------
(* The calls on the table.                                                 *)

LEMMA TypeStopRecording ==
  ASSUME TypeInv, NEW n \in Names, StopRecording(n), UNCHANGED consumer
  PROVE  TableTypes' /\ made' = made
  BY DEF TypeInv, TableTypes, StopRecording

LEMMA TypeStartRecording ==
  ASSUME TypeInv, NEW n \in Names, StartRecording(n)
  PROVE  TableTypes' /\ made' = made + 1
  BY DEF TypeInv, TableTypes, StartRecording

LEMMA TypeNoteDispatch ==
  ASSUME TypeInv, NEW m \in Missions \cup {NoMission}, NEW r \in Runs, NoteDispatch(m, r), UNCHANGED consumer
  PROVE  TableTypes' /\ made' = made
  BY DEF TypeInv, TableTypes, NoteDispatch, OpenNames

LEMMA TypeConsume ==
  ASSUME TypeInv, Consume
  PROVE  TypeInv'
  <1>1. /\ made' = made /\ UNCHANGED <<rec, own, fate, titled, roverVars, pageVars, watcherVars>>
        /\ consumer' \in {"off", "connecting", "receiving", "wrote", "leaving"}
        /\ filmed' = filmed \/ filmed' = filmed \cup {rec[n] : n \in OpenNames}
    BY DEF TypeInv, TableTypes, Consume, Connect, LoseCamera, WriteFrame, LookForWork, ConsumerEnds,
           ConsumerMoves, tableVars
  <1>a. {rec[n] : n \in OpenNames} \subseteq Recs
    BY DEF TypeInv, TableTypes, OpenNames
  <1>b. TableTypes'
    BY <1>1, <1>a DEF TypeInv, TableTypes
  <1>2. RoverTypes' /\ sent' = sent
    BY <1>1 DEF TypeInv, RoverTypes, roverVars
  <1> QED
    BY <1>1, <1>b, <1>2, PageKept, WatcherKept DEF TypeInv, TableTypes, RoverTypes

(* What a handler's step leaves: its press, and perhaps what is shown.     *)
CountersGrow == TableTypes' /\ RoverTypes' /\ made' >= made /\ sent' >= sent

RestOfPage == locked' \in BOOLEAN /\ shown' \in 0..made' /\ UNCHANGED <<poll, announced>>

LEMMA PageMoves ==
  ASSUME TypeInv, CountersGrow, RestOfPage,
         NEW p \in Presses, NEW w \in PressRecords, Fits(w, made', sent'), press' = [press EXCEPT ![p] = w]
  PROVE  PageTypes'
  <1>1. press' \in [Presses -> PressRecords] /\ \A o \in Presses : Fits(press'[o], made', sent')
    BY PressMoves DEF CountersGrow
  <1>2. announced' \subseteq 1..made'
    BY DEF TypeInv, TableTypes, PageTypes, CountersGrow, RestOfPage
  <1>3. poll' \in [at : {"idle", "asked", "answered"}, since : 0..made', active : SUBSET Names]
    BY DEF TypeInv, TableTypes, PageTypes, CountersGrow, RestOfPage
  <1> QED
    BY <1>1, <1>2, <1>3 DEF PageTypes, RestOfPage

(* A press moved on: what is left to show of such a step.                  *)
LEMMA PressStep ==
  ASSUME TypeInv, CountersGrow, RestOfPage, UNCHANGED watcherVars, NEW p \in Presses,
         \E w \in PressRecords : Fits(w, made', sent') /\ press' = [press EXCEPT ![p] = w]
  PROVE  TypeInv'
  <1>1. PageTypes'
    BY PageMoves
  <1>2. WatcherTypes'
    BY WatcherKept DEF CountersGrow
  <1> QED
    BY <1>1, <1>2 DEF TypeInv, CountersGrow

LEMMA TypeServe ==
  ASSUME TypeInv, NEW p \in Presses,
         \/ StartServed(p) \/ CameraNotReady(p) \/ StartSeen(p)
         \/ StopServed(p) \/ StopSeen(p)
         \/ PostServed(p) \/ PostFails(p)
  PROVE  TypeInv'
  <1>1. /\ press[p] \in PressRecords /\ Fits(press[p], made, sent) /\ shown \in 0..made
        /\ made \in 0..MaxRec /\ sent \in 0..MaxRuns
    BY DEF TypeInv, TableTypes, RoverTypes, PageTypes
  <1>2. locked \in BOOLEAN
    BY DEF TypeInv, PageTypes
  <1> DEFINE Moves == \E w \in PressRecords : Fits(w, made', sent') /\ press' = [press EXCEPT ![p] = w]
  <1>3. ASSUME NEW from, HandlerEnds(p, from)
        PROVE  Moves
    BY <1>3, HandlerGone
  <1>4. CASE StartServed(p)
    <2>1. press[p].about \in Names /\ StartRecording(press[p].about)
          /\ Handler(p, "starting", "started", made + 1) /\ made + 1 \in Nat
      BY <1>1, <1>4 DEF StartServed, Handler, Fits
    <2>2. TableTypes' /\ made' = made + 1
      BY <2>1, TypeStartRecording
    <2>3. RoverTypes' /\ sent' = sent
      BY <1>4 DEF StartServed, TypeInv, RoverTypes, roverVars
    <2> DEFINE w == [of |-> press[p].of, at |-> "started", about |-> made + 1]
    <2>4. w \in PressRecords /\ press' = [press EXCEPT ![p] = w]
      BY <2>1, HandlerMoves DEF At
    <2>5. Fits(w, made', sent')
      BY <1>1, <2>2 DEF Fits
    <2>6. Moves
      BY <2>4, <2>5
    <2>7. RestOfPage
      BY <1>1, <1>2, <1>4, <2>2 DEF StartServed, RestOfPage
    <2>8. CountersGrow
      BY <1>1, <2>2, <2>3 DEF CountersGrow
    <2> QED
      BY <1>4, <2>6, <2>7, <2>8, PressStep DEF StartServed
  <1>5. CASE CameraNotReady(p)
    <2>a. UNCHANGED <<tableVars, consumer, roverVars>>
      BY <1>5 DEF CameraNotReady
    <2>1. CountersGrow
      BY <1>1, <2>a DEF CountersGrow, TypeInv, TableTypes, RoverTypes, tableVars, roverVars
    <2>2. locked' \in BOOLEAN
      BY <1>5 DEF CameraNotReady
    <2>3. RestOfPage
      BY <1>1, <1>5, <2>2 DEF CameraNotReady, RestOfPage, tableVars
    <2> QED
      BY <1>3, <1>5, <2>1, <2>3, PressStep DEF CameraNotReady
  <1>6. CASE StartSeen(p)
    <2>a. UNCHANGED <<tableVars, consumer, roverVars>>
      BY <1>6 DEF StartSeen
    <2>1. CountersGrow /\ made' = made
      BY <1>1, <2>a DEF CountersGrow, TypeInv, TableTypes, RoverTypes, tableVars, roverVars
    <2>2. ASSUME Handler(p, "started", "leadIn", None)
          PROVE  Moves
      <3> DEFINE w == [of |-> press[p].of, at |-> "leadIn", about |-> 0]
      <3>1. w \in PressRecords /\ press' = [press EXCEPT ![p] = w]
        BY <2>2, HandlerMoves DEF At
      <3>2. Fits(w, made', sent')
        BY DEF Fits
      <3> QED
        BY <3>1, <3>2
    <2>3. Moves
      BY <1>3, <1>6, <2>2 DEF StartSeen
    <2>4. press[p].at = "started"
      BY <1>6 DEF StartSeen, Handler, HandlerEnds
    <2>5. shown' \in 0..made'
      BY <1>1, <1>6, <2>1, <2>4 DEF StartSeen, Fits
    <2>6. RestOfPage
      BY <1>6, <2>5 DEF StartSeen, RestOfPage
    <2> QED
      BY <1>6, <2>1, <2>3, <2>6, PressStep DEF StartSeen
  <1>7. CASE StopServed(p)
    <2>1. press[p].about \in Names /\ StopRecording(press[p].about) /\ UNCHANGED consumer
          /\ Handler(p, "stopping", "stopped", 0)
      BY <1>1, <1>7 DEF StopServed, Handler, Fits
    <2>2. TableTypes' /\ made' = made
      BY <2>1, TypeStopRecording
    <2>3. RoverTypes' /\ sent' = sent
      BY <1>7 DEF StopServed, TypeInv, RoverTypes, roverVars
    <2> DEFINE w == [of |-> press[p].of, at |-> "stopped", about |-> 0]
    <2>4. w \in PressRecords /\ press' = [press EXCEPT ![p] = w]
      BY <2>1, HandlerMoves DEF At
    <2>5. Fits(w, made', sent')
      BY DEF Fits
    <2>6. Moves
      BY <2>4, <2>5
    <2>7. RestOfPage
      BY <1>1, <1>2, <1>7, <2>2 DEF StopServed, RestOfPage
    <2>8. CountersGrow
      BY <1>1, <2>2, <2>3 DEF CountersGrow
    <2> QED
      BY <1>7, <2>6, <2>7, <2>8, PressStep DEF StopServed
  <1>8. CASE StopSeen(p) \/ PostFails(p)
    <2>a. UNCHANGED <<tableVars, consumer, roverVars>>
      BY <1>8 DEF StopSeen, PostFails
    <2>1. CountersGrow /\ made' = made
      BY <1>1, <2>a DEF CountersGrow, TypeInv, TableTypes, RoverTypes, tableVars, roverVars
    <2>2. shown' \in 0..made'
      BY <1>1, <1>8, <2>1 DEF StopSeen, PostFails
    <2>3. RestOfPage
      BY <1>8, <2>2 DEF StopSeen, PostFails, RestOfPage
    <2> QED
      BY <1>3, <1>8, <2>1, <2>3, PressStep DEF StopSeen, PostFails
  <1>9. CASE PostServed(p)
    <2>1. press[p].about \in Runs
      BY <1>1, <1>9 DEF PostServed, HandlerEnds, Fits
    <2>2. mission[press[p].about] \in Missions \cup {NoMission}
      BY <2>1 DEF TypeInv, RoverTypes
    <2>3. TableTypes' /\ made' = made
      BY <1>9, <2>1, <2>2, TypeNoteDispatch DEF PostServed
    <2>4. RoverTypes' /\ sent' = sent
      BY <1>9 DEF PostServed, TypeInv, RoverTypes, roverVars
    <2>5. shown' \in 0..made'
      BY <1>1, <1>9, <2>3 DEF PostServed
    <2>6. RestOfPage
      BY <1>9, <2>5 DEF PostServed, RestOfPage
    <2>7. CountersGrow
      BY <1>1, <2>3, <2>4 DEF CountersGrow
    <2> QED
      BY <1>3, <1>9, <2>6, <2>7, PressStep DEF PostServed
  <1> QED
    BY <1>4, <1>5, <1>6, <1>7, <1>8, <1>9

(* What the operator does on the page leaves the table as it is.           *)
LEMMA ClickLeaves ==
  ASSUME Click
  PROVE  UNCHANGED <<tableVars, consumer, endedIn, shown, poll, announced, watcherVars>>
  <1>1. ASSUME NEW p \in Presses, NEW n \in Names, AskToStart(p, n)
        PROVE  UNCHANGED <<tableVars, consumer, endedIn, shown, poll, announced, watcherVars>>
    BY <1>1 DEF AskToStart, roverVars
  <1>2. ASSUME NEW p \in Presses, SendAgain(p) \/ AskToStop(p)
        PROVE  UNCHANGED <<tableVars, consumer, endedIn, shown, poll, announced, watcherVars>>
    BY <1>2 DEF SendAgain, AskToStop, roverVars
  <1>3. ASSUME NEW p \in Presses, PressStop(p) \/ \E m \in Missions \cup {NoMission} : PostRun(p, m)
        PROVE  UNCHANGED <<tableVars, consumer, endedIn, shown, poll, announced, watcherVars>>
    BY <1>3 DEF PressStop, PostRun
  <1> QED
    BY <1>1, <1>2, <1>3 DEF Click

LEMMA PressFits ==
  ASSUME TypeInv, NEW p \in Presses, NEW b, NEW to \in At, NEW about \in Names \cup Nat,
         Press(p, b, to, about), Fits([of |-> b, at |-> to, about |-> about], made', sent')
  PROVE  /\ \E w \in PressRecords : Fits(w, made', sent') /\ press' = [press EXCEPT ![p] = w]
         /\ locked' \in BOOLEAN
  <1>1. [of |-> b, at |-> to, about |-> about] \in PressRecords
    BY DEF Press, PressRecords
  <1>2. locked \in BOOLEAN
    BY DEF TypeInv, PageTypes
  <1>3. locked' \in BOOLEAN
    BY <1>2 DEF Press
  <1> QED
    BY <1>1, <1>3 DEF Press

LEMMA TypeClick ==
  ASSUME TypeInv, Click
  PROVE  TypeInv'
  <1>1. /\ UNCHANGED <<tableVars, consumer, endedIn, shown, poll, announced, watcherVars>>
        /\ made' = made /\ TableTypes'
    BY ClickLeaves DEF tableVars, TypeInv, TableTypes
  <1>2. made \in 0..MaxRec /\ sent \in 0..MaxRuns /\ shown \in 0..made /\ locked \in BOOLEAN
    BY DEF TypeInv, TableTypes, RoverTypes, PageTypes
  <1>3. ASSUME RoverTypes', sent' >= sent, locked' \in BOOLEAN, NEW p \in Presses,
               \E w \in PressRecords : Fits(w, made', sent') /\ press' = [press EXCEPT ![p] = w]
        PROVE  TypeInv'
    <2>1. CountersGrow
      BY <1>1, <1>2, <1>3 DEF CountersGrow
    <2>2. RestOfPage
      BY <1>1, <1>2, <1>3 DEF RestOfPage
    <2> QED
      BY <1>1, <1>3, <2>1, <2>2, PressStep
  <1>4. UNCHANGED roverVars => RoverTypes' /\ sent' >= sent
    BY <1>2 DEF roverVars, TypeInv, RoverTypes
  <1>5. ASSUME NEW p \in Presses, NEW n \in Names, AskToStart(p, n)
        PROVE  TypeInv'
    <2>1. PICK b \in {"send", "record"} : Press(p, b, "starting", n)
      BY <1>5 DEF AskToStart
    <2>2. Fits([of |-> b, at |-> "starting", about |-> n], made', sent')
      BY DEF Fits
    <2>3. /\ \E w \in PressRecords : Fits(w, made', sent') /\ press' = [press EXCEPT ![p] = w]
          /\ locked' \in BOOLEAN
      BY <2>1, <2>2, PressFits DEF At
    <2> QED
      BY <1>3, <1>4, <1>5, <2>3 DEF AskToStart
  <1>6. ASSUME NEW p \in Presses, SendAgain(p)
        PROVE  TypeInv'
    <2>1. Press(p, "send", "leadIn", 0)
      BY <1>6 DEF SendAgain
    <2>2. Fits([of |-> "send", at |-> "leadIn", about |-> 0], made', sent')
      BY DEF Fits
    <2>3. /\ \E w \in PressRecords : Fits(w, made', sent') /\ press' = [press EXCEPT ![p] = w]
          /\ locked' \in BOOLEAN
      BY <2>1, <2>2, PressFits DEF At
    <2> QED
      BY <1>3, <1>4, <1>6, <2>3 DEF SendAgain
  <1>7. ASSUME NEW p \in Presses, NEW m \in Missions \cup {NoMission}, PostRun(p, m)
        PROVE  TypeInv'
    <2>1. /\ sent' = sent + 1 /\ sent < MaxRuns /\ Handler(p, "leadIn", "posted", sent + 1)
          /\ locked' = locked
      BY <1>7 DEF PostRun
    <2>2. RoverTypes'
      BY <1>1, <1>2, <1>7 DEF PostRun, TypeInv, RoverTypes
    <2> DEFINE w == [of |-> press[p].of, at |-> "posted", about |-> sent + 1]
    <2>3. w \in PressRecords /\ press' = [press EXCEPT ![p] = w]
      BY <1>2, <2>1, HandlerMoves DEF At
    <2>4. Fits(w, made', sent')
      BY <1>2, <2>1 DEF Fits
    <2> HIDE DEF w
    <2>5. \E v \in PressRecords : Fits(v, made', sent') /\ press' = [press EXCEPT ![p] = v]
      BY <2>3, <2>4
    <2>6. sent' >= sent /\ locked' \in BOOLEAN
      BY <1>2, <2>1
    <2> QED
      BY <1>3, <2>2, <2>5, <2>6
  <1>8. ASSUME NEW p \in Presses, NEW b, shown # None, Press(p, b, "stopping", titled[shown]),
               RoverTypes', sent' >= sent
        PROVE  TypeInv'
    <2>1. titled[shown] \in Names
      BY <1>2, <1>8 DEF TypeInv, TableTypes
    <2>2. Fits([of |-> b, at |-> "stopping", about |-> titled[shown]], made', sent')
      BY <2>1 DEF Fits
    <2>3. /\ \E w \in PressRecords : Fits(w, made', sent') /\ press' = [press EXCEPT ![p] = w]
          /\ locked' \in BOOLEAN
      BY <1>8, <2>1, <2>2, PressFits DEF At
    <2> QED
      BY <1>3, <1>8, <2>3
  <1>9. ASSUME NEW p \in Presses, AskToStop(p)
        PROVE  TypeInv'
    BY <1>4, <1>8, <1>9 DEF AskToStop
  <1>10. ASSUME NEW p \in Presses, PressStop(p)
         PROVE  TypeInv'
    <2>1. RoverTypes' /\ sent' = sent
      BY <1>10 DEF PressStop, TypeInv, RoverTypes
    <2>2. CASE UNCHANGED <<press, locked>>
      <3>1. UNCHANGED pageVars
        BY <1>1, <2>2 DEF pageVars
      <3>2. made' >= made /\ sent' >= sent
        BY <1>1, <1>2, <2>1
      <3>3. PageTypes'
        BY <1>1, <2>1, <3>1, <3>2, PageKept
      <3> QED
        BY <1>1, <2>1, <3>2, <3>3, WatcherKept DEF TypeInv
    <2>3. CASE shown # None /\ Press(p, "stop", "stopping", titled[shown])
      BY <1>2, <1>8, <2>1, <2>3
    <2> QED
      BY <1>10, <2>2, <2>3 DEF PressStop
  <1> QED
    BY <1>5, <1>6, <1>7, <1>9, <1>10 DEF Click

LEMMA TypePoll ==
  ASSUME TypeInv, Poll
  PROVE  TypeInv'
  <1>1. /\ UNCHANGED <<tableVars, consumer, roverVars, press, watcherVars>>
        /\ locked' = locked \/ locked' = FALSE
    BY DEF Poll, PollAsked, PollServed, PollSeen
  <1>2. TableTypes' /\ RoverTypes' /\ made' = made /\ sent' = sent /\ made \in 0..MaxRec
    BY <1>1 DEF TypeInv, TableTypes, RoverTypes, tableVars, roverVars
  <1>3. locked' \in BOOLEAN
    BY <1>1 DEF TypeInv, PageTypes
  <1>4. /\ poll \in [at : {"idle", "asked", "answered"}, since : 0..made, active : SUBSET Names]
        /\ shown \in 0..made /\ announced \subseteq 1..made /\ 0 \in 0..made /\ OpenNames \subseteq Names
    BY DEF TypeInv, TableTypes, PageTypes, OpenNames
  <1>5. /\ poll' \in [at : {"idle", "asked", "answered"}, since : 0..made, active : SUBSET Names]
        /\ shown' \in 0..made /\ announced' \subseteq 1..made
    <2>1. CASE PollAsked
      BY <1>4, <2>1 DEF PollAsked
    <2>2. CASE PollServed
      BY <1>4, <2>2 DEF PollServed
    <2>3. CASE PollSeen
      <3>1. poll' = [at |-> "idle", since |-> 0, active |-> {}]
        BY <2>3 DEF PollSeen
      <3>a. AskedSinceStart => shown # 0
        BY DEF AskedSinceStart
      <3>2. shown' \in {shown, 0} /\ (announced' = announced \/ (shown # 0 /\ announced' = announced \cup {shown}))
        <4> DEFINE ended == AskedSinceStart /\ titled[shown] \notin poll.active
        <4>1. /\ shown' = IF ended THEN 0 ELSE shown
              /\ announced' = IF ended THEN announced \cup {shown} ELSE announced
          BY <2>3 DEF PollSeen
        <4>2. ended => shown # 0
          BY <3>a
        <4> HIDE DEF ended
        <4> QED
          BY <4>1, <4>2
      <3>3. shown # 0 => shown \in 1..made
        BY <1>4
      <3>4. announced' \subseteq 1..made
        BY <1>4, <3>2, <3>3
      <3>5. shown' \in 0..made
        BY <1>4, <3>2
      <3> QED
        BY <1>4, <3>1, <3>4, <3>5
    <2> QED
      BY <2>1, <2>2, <2>3 DEF Poll
  <1>6. \A p \in Presses : Fits(press'[p], made', sent')
    BY <1>1, <1>2 DEF TypeInv, PageTypes
  <1>7. PageTypes'
    BY <1>1, <1>2, <1>3, <1>5, <1>6 DEF TypeInv, PageTypes
  <1> QED
    BY <1>1, <1>2, <1>7, WatcherKept DEF TypeInv

-----------------------------------------------------------------------------
(* The watcher's pass.                                                     *)

LEMMA WatchLeaves ==
  ASSUME Watch
  PROVE  UNCHANGED <<roverVars, pageVars>>
  <1>1. CASE WatchList \/ WatchForget \/ WatchAnswered \/ WatchUnanswered \/ WatchOverdue \/ WatchRest
    BY <1>1 DEF WatchList, WatchForget, WatchAnswered, WatchUnanswered, WatchOverdue, WatchRest, Watcher
  <1>2. ASSUME NEW n \in Names,
               \/ WatchStamp(n) \/ WatchDecide(n) \/ WatchSkip(n) \/ WatchStop(n) \/ WatchStopOverdue(n)
        PROVE  UNCHANGED <<roverVars, pageVars>>
    BY <1>2 DEF WatchStamp, WatchDecide, WatchSkip, WatchStop, WatchStopOverdue, Watcher
  <1> QED
    BY <1>1, <1>2 DEF Watch

(* What a step of the watcher makes of the table: a recording is stopped,  *)
(* or nothing happens to it.                                               *)
LEMMA WatchOnTable ==
  ASSUME TypeInv, Watch
  PROVE  TableTypes' /\ made' = made
  <1>1. CASE UNCHANGED <<tableVars, consumer>>
    BY <1>1 DEF TypeInv, TableTypes, tableVars
  <1>2. CASE \E n \in Names : StopRecording(n) /\ UNCHANGED consumer
    BY <1>2, TypeStopRecording
  <1>3. CASE WatchList \/ WatchForget \/ WatchAnswered \/ WatchUnanswered \/ WatchOverdue \/ WatchRest
    BY <1>1, <1>3 DEF WatchList, WatchForget, WatchAnswered, WatchUnanswered, WatchOverdue, WatchRest
  <1>4. ASSUME NEW n \in Names, WatchStamp(n) \/ WatchDecide(n) \/ WatchSkip(n)
        PROVE  UNCHANGED <<tableVars, consumer>>
    BY <1>4 DEF WatchStamp, WatchDecide, WatchSkip
  <1>5. ASSUME NEW n \in Names, WatchStop(n) \/ WatchStopOverdue(n)
        PROVE  StopRecording(n) /\ UNCHANGED consumer
    BY <1>5 DEF WatchStop, WatchStopOverdue
  <1> QED
    BY <1>1, <1>2, <1>3, <1>4, <1>5 DEF Watch

LEMMA Changes ==
  ASSUME NEW D, NEW f \in UNION {[S -> D] : S \in SUBSET Names}, NEW n, NEW v,
         n \in DOMAIN f => v \in D
  PROVE  /\ [f EXCEPT ![n] = v] \in UNION {[S -> D] : S \in SUBSET Names}
         /\ DOMAIN [f EXCEPT ![n] = v] = DOMAIN f
         /\ n \in DOMAIN f => [f EXCEPT ![n] = v][n] = v
         /\ \A m \in DOMAIN f \ {n} : [f EXCEPT ![n] = v][m] = f[m]
  <1>1. PICK S \in SUBSET Names : f \in [S -> D]
    OBVIOUS
  <1>2. [f EXCEPT ![n] = v] \in [S -> D]
    BY <1>1
  <1> QED
    BY <1>1, <1>2

(* The entries after a step, in the terms that the proofs need: each is an *)
(* earlier one, a new one, one that has been decided on or one whose tail  *)
(* has run.                                                                *)
NewEntry(e, n) ==
  e = [started |-> filming[n], before |-> {}, answered |-> FALSE, stop |-> "no", finished |-> {}]

Decided(e, n) == LET seen == watched[n]
                     mine == IF rec[n] = None THEN {} ELSE own[rec[n]]
                     before == IF seen.answered THEN seen.before ELSE answer
                     finished == IF mine # {} THEN answer \cap mine ELSE FinishedSince(n, before)
                 IN e = [started |-> seen.started, before |-> before, answered |-> TRUE,
                         stop |-> IF finished # {} THEN "tail" ELSE "no",
                         finished |-> IF mine # {} THEN finished ELSE {}]

(* A pass begins with an entry for each name of its snapshot; what else it *)
(* keeps it had before.                                                    *)
LEMMA Forgets ==
  ASSUME WatchForget
  PROVE  /\ DOMAIN filming \subseteq DOMAIN watched'
         /\ watched' = [n \in DOMAIN watched' |-> watched'[n]]
         /\ \A n \in DOMAIN watched' :
              \/ n \in DOMAIN watched /\ watched'[n] = watched[n] /\ Remembers(n)
              \/ n \in DOMAIN filming /\ NewEntry(watched'[n], n)
         /\ todo' \subseteq DOMAIN filming
         /\ wPc' \in {"rested", "stopping", "asking"}
         /\ UNCHANGED <<filming, answer, notes>>
  <1> DEFINE kept == {n \in DOMAIN watched : Remembers(n)}
             w == [n \in DOMAIN filming \cup kept |->
                     IF n \in kept THEN watched[n]
                     ELSE [started |-> filming[n], before |-> {}, answered |-> FALSE,
                           stop |-> "no", finished |-> {}]]
  <1>1. watched' = w
    BY DEF WatchForget
  <1>2. todo' \subseteq DOMAIN filming /\ wPc' \in {"rested", "stopping", "asking"}
        /\ UNCHANGED <<filming, answer, notes>>
    BY DEF WatchForget, Watcher, Undecided
  <1> QED
    BY <1>1, <1>2 DEF NewEntry

(* A pass keeps to its snapshot.                                           *)
LEMMA PassStep ==
  ASSUME TypeInv, Watch
  PROVE  PassInv'
  <1>1. /\ PassInv /\ DOMAIN filming \subseteq Names /\ watched \in Entries /\ filming \in Snapshots
        /\ \A n \in Names : rec[n] \in 0..made
    BY DEF TypeInv, WatcherTypes, TableTypes, Snapshots
  <1>2. CASE WatchList
    BY <1>2 DEF WatchList, Watcher, PassInv
  <1>3. ASSUME NEW n \in Names, WatchStamp(n)
        PROVE  PassInv'
    <2>1. DOMAIN filming' = DOMAIN filming
      BY <1>1, <1>3, Changes DEF WatchStamp, Snapshots
    <2> QED
      BY <1>1, <1>3, <2>1 DEF WatchStamp, Watcher, PassInv
  <1>4. CASE WatchForget
    <2>1. /\ DOMAIN filming \subseteq DOMAIN watched' /\ todo' \subseteq DOMAIN filming
          /\ wPc' \in {"rested", "stopping", "asking"} /\ filming' = filming
      BY <1>4, Forgets
    <2>2. ASSUME NEW n \in DOMAIN filming
          PROVE  watched'[n].started = filming[n]
      <3>1. \/ Remembers(n) /\ watched'[n] = watched[n]
            \/ NewEntry(watched'[n], n)
        BY <1>4, <2>1, Forgets
      <3> QED
        BY <3>1 DEF Remembers, NewEntry
    <2> QED
      BY <2>1, <2>2 DEF PassInv
  <1>5. CASE WatchAnswered \/ WatchUnanswered
    BY <1>1, <1>5 DEF WatchAnswered, WatchUnanswered, Watcher, PassInv
  <1>6. CASE WatchOverdue \/ WatchRest
    BY <1>6 DEF WatchOverdue, WatchRest, Watcher, PassInv
  <1>7. ASSUME NEW n \in Names, WatchDecide(n)
        PROVE  PassInv'
    <2>1. PICK e : Decided(e, n) /\ watched' = [watched EXCEPT ![n] = e]
      BY <1>7 DEF WatchDecide, Decided
    <2>2. n \in todo /\ wPc = "deciding" /\ wPc' \in {"deciding", "stopping"} /\ filming' = filming
          /\ (todo' \subseteq todo \/ todo' = DOMAIN filming)
      BY <1>7 DEF WatchDecide, Watcher
    <2>3. /\ n \in DOMAIN watched /\ DOMAIN filming \subseteq DOMAIN watched /\ todo \subseteq DOMAIN filming
          /\ \A m \in DOMAIN filming : watched[m].started = filming[m]
      BY <1>1, <2>2 DEF PassInv
    <2>4. PICK S \in SUBSET Names : watched \in [S -> Entry]
      BY <1>1 DEF Entries
    <2>5. /\ DOMAIN watched' = DOMAIN watched /\ watched'[n] = e
          /\ \A m \in DOMAIN watched \ {n} : watched'[m] = watched[m]
      BY <2>1, <2>3, <2>4
    <2>6. e.started = watched[n].started
      BY <2>1 DEF Decided
    <2> QED
      BY <2>2, <2>3, <2>5, <2>6 DEF PassInv
  <1>8. ASSUME NEW n \in Names, WatchSkip(n)
        PROVE  PassInv'
    BY <1>1, <1>8 DEF WatchSkip, Watcher, PassInv
  <1>9. ASSUME NEW n \in Names, WatchStop(n)
        PROVE  PassInv'
    <2>1. /\ watched' = [m \in DOMAIN watched \ {n} |-> watched[m]] /\ todo' = todo \ {n}
          /\ \/ wPc' = "rested"
             \/ wPc' = "stopping" /\ wPc = "stopping" /\ filming' = filming
      BY <1>9 DEF WatchStop, Watcher
    <2> QED
      BY <1>1, <2>1 DEF PassInv
  <1>10. ASSUME NEW n \in Names, WatchStopOverdue(n)
         PROVE  PassInv'
    BY <1>10 DEF WatchStopOverdue, Watcher, PassInv
  <1> QED
    BY <1>2, <1>3, <1>4, <1>5, <1>6, <1>7, <1>8, <1>9, <1>10 DEF Watch

LEMMA TypeWatch ==
  ASSUME TypeInv, Watch
  PROVE  TypeInv'
  <1>1. UNCHANGED <<roverVars, pageVars>> /\ TableTypes' /\ made' = made /\ made \in 0..MaxRec
    BY WatchLeaves, WatchOnTable DEF TypeInv, TableTypes
  <1>2. RoverTypes' /\ sent' = sent /\ sent \in 0..MaxRuns
    BY <1>1 DEF TypeInv, RoverTypes, roverVars
  <1>3. PageTypes'
    <2>1. made' >= made /\ sent' >= sent
      BY <1>1, <1>2
    <2> QED
      BY <1>1, <1>2, <2>1, PageKept
  <1>4. /\ wPc \in {"resting", "stamping", "asking", "deciding", "stopping", "rested", "overdue"}
        /\ todo \subseteq Names /\ filming \in Snapshots /\ watched \in Entries
        /\ \A n \in DOMAIN watched : watched[n] \in Entry /\ watched[n].started <= made
        /\ answer \subseteq Runs /\ notes \subseteq [run : Runs, recording : 0..MaxRec]
        /\ DOMAIN filming \subseteq Names /\ DOMAIN watched \subseteq Names
        /\ \A n \in DOMAIN filming : filming[n] \in 0..made
        /\ OpenNames \subseteq Names /\ \A n \in Names : rec[n] \in 0..made
    BY DEF TypeInv, WatcherTypes, TableTypes, Snapshots, Entries, OpenNames
  <1>5. <<>> \in Snapshots
    <2>1. <<>> \in [{} -> 0..made]
      OBVIOUS
    <2> QED
      BY <2>1 DEF Snapshots
  <1>6. ASSUME wPc' \in {"resting", "stamping", "asking", "deciding", "stopping", "rested", "overdue"},
               todo' \subseteq Names, filming' \in Snapshots, watched' \in Entries,
               \A n \in DOMAIN watched' : watched'[n].started <= made, answer' \subseteq Runs,
               notes' \subseteq [run : Runs, recording : 0..MaxRec]
        PROVE  TypeInv'
    <2>1. Snapshots' = Snapshots /\ Entries' = Entries
      BY <1>1 DEF Snapshots, Entries, Entry
    <2>2. WatcherTypes'
      BY <1>1, <1>6, <2>1, PassStep DEF WatcherTypes
    <2> QED
      BY <1>1, <1>2, <1>3, <2>2 DEF TypeInv
  <1>7. CASE WatchList
    <2>1. filming' \in [OpenNames -> 0..made]
      BY <1>1, <1>7 DEF WatchList
    <2>2. filming' \in Snapshots
      BY <1>4, <2>1 DEF Snapshots
    <2> QED
      BY <1>4, <1>6, <1>7, <2>2 DEF WatchList, Watcher
  <1>8. ASSUME NEW n \in Names, WatchStamp(n)
        PROVE  TypeInv'
    <2>1. filming' = [filming EXCEPT ![n] = rec[n]] /\ rec[n] \in 0..made
      BY <1>4, <1>8 DEF WatchStamp
    <2>2. filming' \in Snapshots
      BY <1>4, <2>1, Changes DEF Snapshots
    <2> QED
      BY <1>4, <1>6, <1>8, <2>2 DEF WatchStamp, Watcher
  <1>9. CASE WatchForget
    <2>1. ASSUME NEW n \in DOMAIN watched'
          PROVE  watched'[n] \in Entry /\ watched'[n].started <= made
      <3>1. \/ n \in DOMAIN watched /\ watched'[n] = watched[n]
            \/ n \in DOMAIN filming /\ NewEntry(watched'[n], n)
        BY <1>9, Forgets
      <3>2. CASE n \in DOMAIN filming /\ NewEntry(watched'[n], n)
        BY <1>1, <1>4, <3>2 DEF NewEntry, Entry, Stops
      <3> QED
        BY <1>4, <3>1, <3>2
    <2>2. /\ DOMAIN watched' \subseteq Names /\ watched' = [n \in DOMAIN watched' |-> watched'[n]]
          /\ todo' \subseteq DOMAIN filming /\ wPc' \in {"rested", "stopping", "asking"}
          /\ UNCHANGED <<filming, answer, notes>>
      BY <1>4, <1>9, Forgets
    <2>3. watched' \in [DOMAIN watched' -> Entry]
      BY <2>1, <2>2
    <2>4. watched' \in Entries
      BY <2>2, <2>3 DEF Entries
    <2> QED
      BY <1>4, <1>6, <2>1, <2>2, <2>4
  <1>10. CASE WatchAnswered \/ WatchUnanswered \/ WatchOverdue \/ WatchRest
    <2>1. Overdue \subseteq Names /\ Over \subseteq Runs
      BY <1>4 DEF Overdue, Over
    <2> QED
      BY <1>4, <1>6, <1>10, <2>1
         DEF WatchAnswered, WatchUnanswered, WatchOverdue, WatchRest, Watcher
  <1>11. ASSUME NEW n \in Names, WatchDecide(n)
         PROVE  TypeInv'
    <2>1. PICK e : Decided(e, n) /\ watched' = [watched EXCEPT ![n] = e]
      BY <1>11 DEF WatchDecide, Decided
    <2>2. n \in DOMAIN watched => e \in Entry /\ e.started <= made
      BY <1>4, <2>1 DEF Decided, Entry, Stops, FinishedSince
    <2>3. /\ watched' \in Entries /\ DOMAIN watched' = DOMAIN watched
          /\ n \in DOMAIN watched => watched'[n] = e
          /\ \A m \in DOMAIN watched \ {n} : watched'[m] = watched[m]
      BY <1>4, <2>1, <2>2, Changes DEF Entries
    <2>4. \A m \in DOMAIN watched' : watched'[m].started <= made
      BY <1>4, <2>2, <2>3
    <2> QED
      BY <1>4, <1>6, <1>11, <2>3, <2>4 DEF WatchDecide, Watcher
  <1>12. ASSUME NEW n \in Names, WatchSkip(n)
         PROVE  TypeInv'
    BY <1>4, <1>5, <1>6, <1>12 DEF WatchSkip, Watcher
  <1>13. ASSUME NEW n \in Names, WatchStop(n)
         PROVE  TypeInv'
    <2>1. watched' = [m \in DOMAIN watched \ {n} |-> watched[m]]
      BY <1>13 DEF WatchStop
    <2>2. watched' \in [DOMAIN watched \ {n} -> Entry]
      BY <1>4, <2>1
    <2>3. watched' \in Entries
      BY <1>4, <2>2 DEF Entries
    <2>4. \A m \in DOMAIN watched' : watched'[m].started <= made
      BY <1>4, <2>1
    <2>5. n \in DOMAIN watched /\ watched[n].finished \subseteq Runs
      BY <1>4, <1>13 DEF WatchStop, Watcher, TypeInv, WatcherTypes, PassInv, Entry
    <2>6. notes' \subseteq [run : Runs, recording : 0..MaxRec]
      <3>1. rec[n] \in 0..MaxRec
        BY <1>1, <1>4
      <3>2. notes' = notes \/ \E r \in Runs : notes' = notes \cup {[run |-> r, recording |-> rec[n]]}
        BY <1>13, <2>5 DEF WatchStop
      <3> QED
        BY <1>4, <3>1, <3>2
    <2> QED
      BY <1>4, <1>5, <1>6, <1>13, <2>3, <2>4, <2>6 DEF WatchStop, Watcher
  <1>14. ASSUME NEW n \in Names, WatchStopOverdue(n)
         PROVE  TypeInv'
    BY <1>4, <1>6, <1>14 DEF WatchStopOverdue, Watcher
  <1> QED
    BY <1>7, <1>8, <1>9, <1>10, <1>11, <1>12, <1>13, <1>14 DEF Watch

LEMMA TypeRest ==
  ASSUME TypeInv,
         \/ \E r \in Runs : RoverAccepts(r) \/ RunEnds(r)
         \/ \E n \in Names : TailElapses(n)
         \/ \E q \in Recs : TenMinutesPass(q)
         \/ UNCHANGED vars
  PROVE  TypeInv'
  <1>1. made \in 0..MaxRec /\ sent \in 0..MaxRuns
    BY DEF TypeInv, TableTypes, RoverTypes
  <1>2. ASSUME TableTypes', RoverTypes', made' = made, sent' = sent, UNCHANGED pageVars, UNCHANGED watcherVars
        PROVE  TypeInv'
    <2>1. made' >= made /\ sent' >= sent
      BY <1>1, <1>2
    <2>2. PageTypes' /\ WatcherTypes'
      BY <1>2, <2>1, PageKept, WatcherKept
    <2> QED
      BY <1>2, <2>2 DEF TypeInv
  <1>3. ASSUME NEW r \in Runs, RoverAccepts(r) \/ RunEnds(r)
        PROVE  TypeInv'
    <2>a. UNCHANGED <<tableVars, consumer>>
      BY <1>3 DEF RoverAccepts, RunEnds
    <2>1. TableTypes' /\ made' = made
      BY <2>a DEF TypeInv, TableTypes, tableVars
    <2>2. RoverTypes' /\ sent' = sent
      BY <1>3 DEF TypeInv, RoverTypes, RoverAccepts, RunEnds
    <2> QED
      BY <1>2, <1>3, <2>1, <2>2 DEF RoverAccepts, RunEnds
  <1>4. ASSUME NEW n \in Names, TailElapses(n)
        PROVE  TypeInv'
    <2>a. UNCHANGED <<tableVars, consumer, roverVars, pageVars>>
      BY <1>4 DEF TailElapses
    <2>1. TableTypes' /\ made' = made /\ RoverTypes' /\ sent' = sent /\ UNCHANGED pageVars
      BY <2>a DEF TypeInv, TableTypes, RoverTypes, tableVars, roverVars
    <2>2. PageTypes'
      BY <1>1, <2>1, PageKept
    <2>3. PICK S \in SUBSET Names : watched \in [S -> Entry]
      BY DEF TypeInv, WatcherTypes, Entries
    <2>4. \A e \in Entry : /\ [e EXCEPT !.stop = "due"] \in Entry
                           /\ [e EXCEPT !.stop = "due"].started = e.started
      BY DEF Entry, Stops
    <2>5. watched' = [watched EXCEPT ![n] = [watched[n] EXCEPT !.stop = "due"]] /\ n \in DOMAIN watched
      BY <1>4, <2>3 DEF TailElapses
    <2>6. /\ watched' \in [S -> Entry]
          /\ \A m \in S : watched'[m].started = watched[m].started
      BY <2>3, <2>4, <2>5
    <2>7. Snapshots' = Snapshots /\ Entries' = Entries
      BY <2>1 DEF Snapshots, Entries, Entry
    <2>8. PassInv'
      BY <1>4, <2>3, <2>6 DEF TypeInv, WatcherTypes, PassInv, TailElapses
    <2>9. watched' \in Entries
      BY <2>6 DEF Entries
    <2>10. \A m \in DOMAIN watched' : watched'[m].started <= made
      BY <2>3, <2>6 DEF TypeInv, WatcherTypes
    <2>11. WatcherTypes'
      BY <1>4, <2>1, <2>7, <2>8, <2>9, <2>10 DEF TypeInv, WatcherTypes, TailElapses
    <2> QED
      BY <2>1, <2>2, <2>11 DEF TypeInv
  <1>5. ASSUME NEW q \in Recs, TenMinutesPass(q)
        PROVE  TypeInv'
    BY <1>2, <1>5 DEF TenMinutesPass, TypeInv, TableTypes, RoverTypes, roverVars
  <1>6. CASE UNCHANGED vars
    BY <1>2, <1>6 DEF vars, TypeInv, TableTypes, RoverTypes, tableVars, roverVars
  <1> QED
    BY <1>3, <1>4, <1>5, <1>6

LEMMA TypeStep == TypeInv /\ [Next]_vars => TypeInv'
  BY TypeConsume, TypeServe, TypeClick, TypePoll, TypeWatch, TypeRest DEF Next, Serve

LEMMA TypeInvariant == Spec => []TypeInv
  BY TypeStart, TypeStep, PTL DEF Spec

(* Every variable stays in the set it was declared for. *)
THEOREM RecordingTypeCorrect == Spec => []TypeOK
  BY TypeInvariant, TypeParts, PTL

-----------------------------------------------------------------------------
(* What a step can do to each part, whoever takes it.                      *)

TableEffect ==
  \/ UNCHANGED <<rec, own, fate, titled, made>>
  \/ \E n \in Names : StartRecording(n)
  \/ \E n \in Names : StopRecording(n)
  \/ \E p \in Presses : PostServed(p)

RoverEffect ==
  \/ UNCHANGED roverVars
  \/ \E p \in Presses, m \in Missions \cup {NoMission} : PostRun(p, m)
  \/ \E p \in Presses : PressStop(p)
  \/ \E r \in Runs : RoverAccepts(r) \/ RunEnds(r)

(* A press is waiting for the rover's answer because it was already, or    *)
(* because it has just sent the run.                                       *)
PressEffect ==
  \A p \in Presses : press'[p].at = "posted" =>
    \/ press'[p] = press[p]
    \/ \E m \in Missions \cup {NoMission} : PostRun(p, m)

WatcherEffect ==
  \/ UNCHANGED watcherVars
  \/ Watch
  \/ \E n \in Names : TailElapses(n)

OtherEffect ==
  /\ UNCHANGED <<poll, announced>> \/ Poll
  /\ filmed' = filmed \/ WriteFrame

LEMMA PressKept ==
  ASSUME TypeInv, NEW p \in Presses, NEW w, w.at # "posted",
         press' = press \/ press' = [press EXCEPT ![p] = w]
  PROVE  PressEffect
  BY DEF PressEffect, TypeInv, PageTypes

LEMMA ServeEffects ==
  ASSUME TypeInv, NEW p \in Presses,
         \/ StartServed(p) \/ CameraNotReady(p) \/ StartSeen(p)
         \/ StopServed(p) \/ StopSeen(p)
         \/ PostServed(p) \/ PostFails(p)
  PROVE  TableEffect /\ RoverEffect /\ PressEffect /\ WatcherEffect /\ OtherEffect
  <1>1. press[p] \in PressRecords /\ Fits(press[p], made, sent) /\ made \in Nat
    BY DEF TypeInv, TableTypes, PageTypes
  <1>2. UNCHANGED <<roverVars, poll, announced, filmed, watcherVars>>
    BY DEF StartServed, CameraNotReady, StartSeen, StopServed, StopSeen, PostServed, PostFails,
           StartRecording, StopRecording, NoteDispatch, tableVars
  <1>3. RoverEffect /\ WatcherEffect /\ OtherEffect
    BY <1>2 DEF RoverEffect, WatcherEffect, OtherEffect
  <1>4. ASSUME NEW from, HandlerEnds(p, from)
        PROVE  PressEffect
    <2>1. NoPress.at # "posted"
      BY DEF NoPress
    <2>2. press' = [press EXCEPT ![p] = NoPress]
      BY <1>4 DEF HandlerEnds
    <2> QED
      BY <2>1, <2>2, PressKept
  <1>5. ASSUME NEW from, NEW to \in At, to # "posted", NEW about \in Names \cup Nat,
               Handler(p, from, to, about)
        PROVE  PressEffect
    <2> DEFINE w == [of |-> press[p].of, at |-> to, about |-> about]
    <2>1. press' = [press EXCEPT ![p] = w] /\ w.at # "posted"
      BY <1>5, HandlerMoves
    <2> HIDE DEF w
    <2> QED
      BY <2>1, PressKept
  <1>6. CASE StartServed(p)
    <2>1. press[p].about \in Names /\ StartRecording(press[p].about)
          /\ Handler(p, "starting", "started", made + 1) /\ made + 1 \in Nat
      BY <1>1, <1>6 DEF StartServed, Handler, Fits
    <2>2. PressEffect
      BY <1>5, <2>1 DEF At
    <2>3. TableEffect
      BY <2>1 DEF TableEffect
    <2> QED
      BY <1>3, <2>2, <2>3
  <1>7. CASE StopServed(p)
    BY <1>1, <1>3, <1>5, <1>7 DEF StopServed, Handler, Fits, TableEffect, At
  <1>8. CASE StartSeen(p)
    BY <1>3, <1>4, <1>5, <1>8 DEF StartSeen, TableEffect, tableVars, At
  <1>9. CASE CameraNotReady(p) \/ StopSeen(p) \/ PostFails(p)
    BY <1>3, <1>4, <1>9 DEF CameraNotReady, StopSeen, PostFails, TableEffect, tableVars
  <1>10. CASE PostServed(p)
    BY <1>3, <1>4, <1>10 DEF PostServed, TableEffect
  <1> QED
    BY <1>6, <1>7, <1>8, <1>9, <1>10

LEMMA ClickEffects ==
  ASSUME TypeInv, Click
  PROVE  TableEffect /\ RoverEffect /\ PressEffect /\ WatcherEffect /\ OtherEffect
  <1>1. TableEffect /\ WatcherEffect /\ OtherEffect
    BY ClickLeaves DEF TableEffect, WatcherEffect, OtherEffect, tableVars
  <1>2. ASSUME NEW p \in Presses, NEW b, NEW to, NEW about, Press(p, b, to, about), to # "posted"
        PROVE  PressEffect
    <2> DEFINE w == [of |-> b, at |-> to, about |-> about]
    <2>1. press' = [press EXCEPT ![p] = w] /\ w.at # "posted"
      BY <1>2 DEF Press
    <2> HIDE DEF w
    <2> QED
      BY <2>1, PressKept
  <1>3. ASSUME NEW p \in Presses, NEW n \in Names, AskToStart(p, n)
        PROVE  RoverEffect /\ PressEffect
    BY <1>2, <1>3 DEF AskToStart, RoverEffect
  <1>4. ASSUME NEW p \in Presses, SendAgain(p) \/ AskToStop(p)
        PROVE  RoverEffect /\ PressEffect
    BY <1>2, <1>4 DEF SendAgain, AskToStop, RoverEffect
  <1>5. ASSUME NEW p \in Presses, NEW m \in Missions \cup {NoMission}, PostRun(p, m)
        PROVE  RoverEffect /\ PressEffect
    <2>1. \A o \in Presses \ {p} : press'[o] = press[o]
      BY <1>5 DEF PostRun, Handler, TypeInv, PageTypes
    <2> QED
      BY <1>5, <2>1 DEF RoverEffect, PressEffect
  <1>6. ASSUME NEW p \in Presses, PressStop(p)
        PROVE  RoverEffect /\ PressEffect
    <2>1. press' = press => PressEffect
      BY DEF PressEffect
    <2> QED
      BY <1>2, <1>6, <2>1 DEF PressStop, RoverEffect
  <1> QED
    BY <1>1, <1>3, <1>4, <1>5, <1>6 DEF Click

LEMMA Effects ==
  ASSUME TypeInv, [Next]_vars
  PROVE  TableEffect /\ RoverEffect /\ PressEffect /\ WatcherEffect /\ OtherEffect
  <1>1. press' = press => PressEffect
    BY DEF PressEffect
  <1>2. CASE Consume
    BY <1>1, <1>2 DEF Consume, Connect, LoseCamera, WriteFrame, LookForWork, ConsumerEnds, ConsumerMoves,
       TableEffect, RoverEffect, WatcherEffect, OtherEffect, tableVars, pageVars
  <1>3. CASE Poll
    <2>1. UNCHANGED <<tableVars, roverVars, press, watcherVars>>
      BY <1>3 DEF Poll, PollAsked, PollServed, PollSeen
    <2> QED
      BY <1>1, <1>3, <2>1 DEF TableEffect, RoverEffect, WatcherEffect, OtherEffect, tableVars
  <1>4. CASE Watch
    <2>1. RoverEffect /\ WatcherEffect /\ press' = press /\ UNCHANGED <<poll, announced>>
      BY <1>4, WatchLeaves DEF RoverEffect, WatcherEffect, pageVars
    <2>2. CASE WatchList \/ WatchForget \/ WatchAnswered \/ WatchUnanswered \/ WatchOverdue \/ WatchRest
      BY <1>1, <2>1, <2>2 DEF WatchList, WatchForget, WatchAnswered, WatchUnanswered, WatchOverdue,
         WatchRest, TableEffect, OtherEffect, tableVars
    <2>3. ASSUME NEW n \in Names, WatchStamp(n) \/ WatchDecide(n) \/ WatchSkip(n)
          PROVE  TableEffect /\ OtherEffect
      BY <2>1, <2>3 DEF WatchStamp, WatchDecide, WatchSkip, TableEffect, OtherEffect, tableVars
    <2>4. ASSUME NEW n \in Names, WatchStop(n) \/ WatchStopOverdue(n)
          PROVE  TableEffect /\ OtherEffect
      BY <2>1, <2>4 DEF WatchStop, WatchStopOverdue, StopRecording, TableEffect, OtherEffect
    <2> QED
      BY <1>1, <1>4, <2>1, <2>2, <2>3, <2>4 DEF Watch
  <1>5. ASSUME NEW r \in Runs, RoverAccepts(r) \/ RunEnds(r)
        PROVE  TableEffect /\ RoverEffect /\ PressEffect /\ WatcherEffect /\ OtherEffect
    BY <1>1, <1>5 DEF RoverAccepts, RunEnds, TableEffect, RoverEffect, WatcherEffect, OtherEffect,
       tableVars, pageVars
  <1>6. CASE (\E n \in Names : TailElapses(n)) \/ (\E q \in Recs : TenMinutesPass(q)) \/ UNCHANGED vars
    BY <1>1, <1>6 DEF TailElapses, TenMinutesPass, vars, TableEffect, RoverEffect, WatcherEffect,
       OtherEffect, tableVars, pageVars
  <1> QED
    BY <1>2, <1>3, <1>4, <1>5, <1>6, ServeEffects, ClickEffects DEF Next, Serve

-----------------------------------------------------------------------------
(* The table and what became of each recording agree: the recording under  *)
(* a name is open and has that name, an open one is in the table, and one  *)
(* that was not started yet has no runs.                                   *)

TableInv ==
  /\ \A n \in Names : rec[n] # None => titled[rec[n]] = n /\ fate[rec[n]] = "open"
  /\ \A q \in Recs : /\ q > made => fate[q] = "unmade" /\ own[q] = {}
                     /\ fate[q] = "open" => rec[titled[q]] = q

LEMMA TableStep == TypeInv /\ TableInv /\ [Next]_vars => TableInv'
  <1> SUFFICES ASSUME TypeInv, TableInv, [Next]_vars
               PROVE  TableInv'
    OBVIOUS
  <1>1. /\ rec \in [Names -> 0..MaxRec] /\ own \in [Recs -> SUBSET Runs]
        /\ fate \in [Recs -> {"unmade", "open", "kept", "replaced"}]
        /\ titled \in [Recs -> Names \cup {NoMission}]
        /\ made \in 0..MaxRec /\ \A n \in Names : rec[n] \in 0..made
        /\ \A q \in Recs : q <= made => titled[q] \in Names
    BY DEF TypeInv, TableTypes
  <1>2. CASE UNCHANGED <<rec, own, fate, titled, made>>
    BY <1>2 DEF TableInv
  <1>3. ASSUME NEW n \in Names, StartRecording(n)
        PROVE  TableInv'
    <2> DEFINE q == made + 1
    <2>1. /\ made' = q /\ own' = own /\ q \in Recs
          /\ rec' = [rec EXCEPT ![n] = q] /\ titled' = [titled EXCEPT ![q] = n]
          /\ \A p \in Recs : fate'[p] = IF p = q THEN "open" ELSE IF p = rec[n] THEN "replaced" ELSE fate[p]
      BY <1>1, <1>3 DEF StartRecording
    <2>2. ASSUME NEW m \in Names, rec'[m] # None
          PROVE  titled'[rec'[m]] = m /\ fate'[rec'[m]] = "open"
      <3>1. CASE m = n
        BY <1>1, <2>1, <3>1
      <3>2. CASE m # n
        <4>1. rec'[m] = rec[m] /\ rec[m] \in Recs /\ rec[m] # q /\ titled[rec[m]] = m /\ fate[rec[m]] = "open"
          BY <1>1, <2>1, <2>2, <3>2 DEF TableInv
        <4>2. rec[m] # rec[n]
          BY <3>2, <4>1 DEF TableInv
        <4> QED
          BY <1>1, <2>1, <4>1, <4>2
      <3> QED
        BY <3>1, <3>2
    <2>3. ASSUME NEW p \in Recs, p > made'
          PROVE  fate'[p] = "unmade" /\ own'[p] = {}
      BY <1>1, <2>1, <2>3 DEF TableInv
    <2>4. ASSUME NEW p \in Recs, fate'[p] = "open"
          PROVE  rec'[titled'[p]] = p
      <3>1. CASE p = q
        BY <1>1, <2>1, <3>1
      <3>2. CASE p # q
        <4>1. fate[p] = "open" /\ p # rec[n] /\ titled'[p] = titled[p]
          BY <1>1, <2>1, <2>4, <3>2
        <4>2. rec[titled[p]] = p /\ p <= made
          BY <1>1, <4>1 DEF TableInv
        <4> QED
          BY <1>1, <2>1, <4>1, <4>2
      <3> QED
        BY <3>1, <3>2
    <2> QED
      BY <2>2, <2>3, <2>4 DEF TableInv
  <1>4. ASSUME NEW n \in Names, StopRecording(n)
        PROVE  TableInv'
    <2>1. /\ UNCHANGED <<made, own, titled>> /\ rec' = [rec EXCEPT ![n] = None]
          /\ \A p \in Recs : fate'[p] = IF p = rec[n] THEN "kept" ELSE fate[p]
      BY <1>4 DEF StopRecording
    <2>2. ASSUME NEW m \in Names, rec'[m] # None
          PROVE  titled'[rec'[m]] = m /\ fate'[rec'[m]] = "open"
      <3>1. m # n /\ rec'[m] = rec[m] /\ rec[m] \in Recs
        BY <1>1, <2>1, <2>2
      <3>2. rec[m] # rec[n]
        BY <2>2, <3>1 DEF TableInv
      <3> QED
        BY <2>1, <2>2, <3>1, <3>2 DEF TableInv
    <2>3. ASSUME NEW p \in Recs
          PROVE  /\ p > made' => fate'[p] = "unmade" /\ own'[p] = {}
                 /\ fate'[p] = "open" => rec'[titled'[p]] = p
      <3>1. p > made => p # rec[n]
        BY <1>1
      <3>2. fate[p] = "open" => p <= made
        BY <1>1 DEF TableInv
      <3> QED
        BY <1>1, <2>1, <3>1, <3>2 DEF TableInv
    <2> QED
      BY <2>2, <2>3 DEF TableInv
  <1>5. ASSUME NEW p \in Presses, PostServed(p)
        PROVE  TableInv'
    <2>1. UNCHANGED <<rec, fate, titled, made>>
      BY <1>5 DEF PostServed, NoteDispatch
    <2>2. \A q \in Recs : q > made => own'[q] = own[q]
      BY <1>1, <1>5 DEF PostServed, NoteDispatch, OpenNames
    <2> QED
      BY <2>1, <2>2 DEF TableInv
  <1> QED
    BY <1>2, <1>3, <1>4, <1>5, Effects DEF TableEffect

LEMMA TableInvariant == Spec => []TableInv
  <1>1. Init => TableInv
    BY DEF Init, TableInv
  <1> QED
    BY <1>1, TypeInvariant, TableStep, PTL DEF Spec

(* A frame is written only to a recording that is open: no writer is used  *)
(* after stop_recording has let go of it (_write_frame_to_all).            *)
THEOREM FramesAreForOpen == Spec => FramesOnlyWhileOpen
  <1>1. TypeInv /\ TableInv /\ [Next]_vars => [\A q \in filmed' \ filmed : fate[q] = "open"]_vars
    BY Effects DEF OtherEffect, WriteFrame, TableInv, OpenNames
  <1> QED
    BY <1>1, TypeInvariant, TableInvariant, PTL DEF Spec, FramesOnlyWhileOpen

-----------------------------------------------------------------------------
(* What no step takes back.                                                *)

Onward ==
  /\ made' >= made /\ sent' >= sent
  /\ \A q \in Recs : /\ own[q] \subseteq own'[q] /\ endedIn[q] \subseteq endedIn'[q]
                     /\ q <= made => /\ titled'[q] = titled[q]
                                     /\ fate[q] # "open" => fate'[q] # "open"
  /\ \A r \in Runs : /\ r <= sent => mission'[r] = mission[r]
                     /\ run[r] = "over" => run'[r] = "over"
                     /\ run[r] # "over" /\ run'[r] = "over" =>
                          \A q \in Recs : fate[q] = "open" => r \in endedIn'[q]
  /\ \A n \in Names : rec'[n] \in {rec[n], None, made + 1}

LEMMA GoesOn ==
  ASSUME TypeInv, [Next]_vars
  PROVE  Onward
  <1>1. /\ rec \in [Names -> 0..MaxRec] /\ own \in [Recs -> SUBSET Runs]
        /\ fate \in [Recs -> {"unmade", "open", "kept", "replaced"}]
        /\ titled \in [Recs -> Names \cup {NoMission}]
        /\ made \in 0..MaxRec /\ sent \in 0..MaxRuns
        /\ endedIn \in [Recs -> SUBSET Runs] /\ mission \in [Runs -> Missions \cup {NoMission}]
        /\ run \in [Runs -> {"unsent", "sent", "accepted", "cleared", "over"}]
        /\ \A r \in Runs : r > sent => run[r] = "unsent"
    BY DEF TypeInv, TableTypes, RoverTypes
  <1> DEFINE TablePart ==
        /\ made' >= made /\ \A n \in Names : rec'[n] \in {rec[n], None, made + 1}
        /\ \A q \in Recs : /\ own[q] \subseteq own'[q]
                           /\ q <= made => /\ titled'[q] = titled[q]
                                           /\ fate[q] # "open" => fate'[q] # "open"
      RoverPart ==
        /\ sent' >= sent
        /\ \A q \in Recs : endedIn[q] \subseteq endedIn'[q]
        /\ \A r \in Runs : /\ r <= sent => mission'[r] = mission[r]
                           /\ run[r] = "over" => run'[r] = "over"
                           /\ run[r] # "over" /\ run'[r] = "over" =>
                                \A q \in Recs : fate[q] = "open" => r \in endedIn'[q]
  <1>2. TablePart
    <2>1. CASE UNCHANGED <<rec, own, fate, titled, made>>
      BY <1>1, <2>1
    <2>2. ASSUME NEW n \in Names, StartRecording(n)
          PROVE  TablePart
      BY <1>1, <2>2 DEF StartRecording
    <2>3. ASSUME NEW n \in Names, StopRecording(n)
          PROVE  TablePart
      BY <1>1, <2>3 DEF StopRecording
    <2>4. ASSUME NEW p \in Presses, PostServed(p)
          PROVE  TablePart
      BY <1>1, <2>4 DEF PostServed, NoteDispatch
    <2> HIDE DEF TablePart
    <2> QED
      BY <2>1, <2>2, <2>3, <2>4, Effects DEF TableEffect
  <1>3. RoverPart
    <2>1. CASE UNCHANGED roverVars
      BY <1>1, <2>1 DEF roverVars
    <2>2. ASSUME NEW p \in Presses, NEW m \in Missions \cup {NoMission}, PostRun(p, m)
          PROVE  RoverPart
      BY <1>1, <2>2 DEF PostRun
    <2>3. ASSUME NEW p \in Presses, PressStop(p)
          PROVE  RoverPart
      BY <1>1, <2>3 DEF PressStop
    <2>4. ASSUME NEW r \in Runs, RoverAccepts(r)
          PROVE  RoverPart
      BY <1>1, <2>4 DEF RoverAccepts
    <2>5. ASSUME NEW r \in Runs, RunEnds(r)
          PROVE  RoverPart
      <3>1. sent' = sent /\ mission' = mission /\ run' = [run EXCEPT ![r] = "over"]
        BY <2>5 DEF RunEnds
      <3>2. \A q \in Recs : /\ endedIn[q] \subseteq endedIn'[q]
                            /\ fate[q] = "open" => r \in endedIn'[q]
        BY <1>1, <2>5 DEF RunEnds
      <3>3. \A x \in Runs \ {r} : run'[x] = run[x]
        BY <1>1, <3>1
      <3>4. run'[r] = "over"
        BY <1>1, <3>1
      <3> QED
        BY <1>1, <3>1, <3>2, <3>3, <3>4
    <2> HIDE DEF RoverPart
    <2> QED
      BY <2>1, <2>2, <2>3, <2>4, <2>5, Effects DEF RoverEffect
  <1> QED
    BY <1>2, <1>3 DEF Onward

-----------------------------------------------------------------------------
(* What the page announces.  Whatever it was told is not listed is closed, *)
(* and stays closed while the answer is on its way.                        *)

AnnounceInv ==
  /\ AnnouncesOnlyEnded
  /\ poll.at = "answered" /\ poll.since # None /\ titled[poll.since] \notin poll.active =>
       fate[poll.since] # "open"

LEMMA AnnounceStep == TypeInv /\ TableInv /\ AnnounceInv /\ [Next]_vars => AnnounceInv'
  <1> SUFFICES ASSUME TypeInv, TableInv, AnnounceInv, [Next]_vars
               PROVE  AnnounceInv'
    OBVIOUS
  <1>1. /\ announced \subseteq 1..made /\ poll.since \in 0..made /\ shown \in 0..made
        /\ made \in 0..MaxRec /\ \A q \in Recs : q <= made => titled[q] \in Names
        /\ poll \in [at : {"idle", "asked", "answered"}, since : 0..made, active : SUBSET Names]
    BY DEF TypeInv, TableTypes, PageTypes
  <1>2. \A q \in 1..made : titled'[q] = titled[q] /\ (fate[q] # "open" => fate'[q] # "open")
    BY <1>1, GoesOn DEF Onward
  <1>3. CASE UNCHANGED <<poll, announced>>
    BY <1>1, <1>2, <1>3 DEF AnnounceInv, AnnouncesOnlyEnded
  <1>4. CASE PollAsked
    BY <1>1, <1>2, <1>4 DEF AnnounceInv, AnnouncesOnlyEnded, PollAsked
  <1>5. CASE PollServed
    <2>1. poll'.since = poll.since /\ poll'.active = OpenNames /\ announced' = announced
          /\ UNCHANGED <<rec, fate, titled>>
      BY <1>1, <1>5 DEF PollServed, tableVars
    <2>2. \A q \in 1..made : titled[q] \notin OpenNames => fate[q] # "open"
      BY <1>1 DEF TableInv, OpenNames
    <2> QED
      BY <1>1, <2>1, <2>2 DEF AnnounceInv, AnnouncesOnlyEnded
  <1>6. CASE PollSeen
    <2>1. poll'.at = "idle" /\ UNCHANGED fate /\ poll.at = "answered"
      BY <1>6 DEF PollSeen, tableVars
    <2>2. ASSUME NEW q \in announced'
          PROVE  fate[q] # "open"
      <3>1. CASE q \in announced
        BY <3>1 DEF AnnounceInv, AnnouncesOnlyEnded
      <3>2. CASE q \notin announced
        <4> DEFINE ended == AskedSinceStart /\ titled[shown] \notin poll.active
        <4>1. announced' = IF ended THEN announced \cup {shown} ELSE announced
          BY <1>6 DEF PollSeen
        <4>2. q = shown /\ ended
          BY <3>2, <4>1
        <4> QED
          BY <2>1, <4>2 DEF AskedSinceStart, AnnounceInv
      <3> QED
        BY <3>1, <3>2
    <2> QED
      BY <2>1, <2>2 DEF AnnounceInv, AnnouncesOnlyEnded
  <1> QED
    BY <1>3, <1>4, <1>5, <1>6, Effects DEF OtherEffect, Poll

(* What the page says is finished is: only the answer to a question asked  *)
(* since it began to show the recording counts (refreshStatus).            *)
THEOREM AnnouncedIsOver == Spec => []AnnouncesOnlyEnded
  <1>1. Init => AnnounceInv
    BY DEF Init, AnnounceInv, AnnouncesOnlyEnded
  <1>2. AnnounceInv => AnnouncesOnlyEnded
    BY DEF AnnounceInv
  <1> QED
    BY <1>1, <1>2, TypeInvariant, TableInvariant, AnnounceStep, PTL DEF Spec

-----------------------------------------------------------------------------
(* The runs noted for a recording carry its name, and a run is noted once: *)
(* for the recording open when its one answer comes back.                  *)

Posted(p) == press[p].at = "posted"

OwnInv ==
  /\ \A q \in Recs : \A r \in own[q] : r <= sent /\ mission[r] = titled[q]
  /\ \A q1, q2 \in Recs : \A r \in own[q1] : r \in own[q2] => q1 = q2
  /\ \A p \in Presses, q \in Recs : Posted(p) => press[p].about \notin own[q]
  /\ \A p1, p2 \in Presses : Posted(p1) /\ Posted(p2) /\ press[p1].about = press[p2].about => p1 = p2

(* A run is added to one recording at most, by the press it was sent by.   *)
NotedFor(p, q) ==
  /\ Posted(p) /\ ~Posted(p)' /\ UNCHANGED <<titled, mission, sent>>
  /\ titled[q] = mission[press[p].about]
  /\ own' = [own EXCEPT ![q] = @ \cup {press[p].about}]

LEMMA OwnEffect ==
  ASSUME TypeInv, TableInv, [Next]_vars
  PROVE  own' = own \/ \E p \in Presses, q \in 1..made : NotedFor(p, q)
  <1>1. ASSUME NEW p \in Presses, PostServed(p), own' # own
        PROVE  \E q \in 1..made : NotedFor(p, q)
    <2> DEFINE r == press[p].about
               q == rec[mission[r]]
    <2>1. /\ mission[r] \in OpenNames /\ own' = [own EXCEPT ![q] = @ \cup {r}]
          /\ UNCHANGED <<titled, mission, sent>>
      BY <1>1 DEF PostServed, NoteDispatch, roverVars
    <2>2. q \in 1..made /\ titled[q] = mission[r]
      BY <2>1 DEF TypeInv, TableTypes, TableInv, OpenNames
    <2>3. Posted(p) /\ ~Posted(p)'
      BY <1>1 DEF PostServed, HandlerEnds, NoPress, Posted, TypeInv, PageTypes
    <2> QED
      BY <2>1, <2>2, <2>3 DEF NotedFor
  <1>2. \A n \in Names : StartRecording(n) \/ StopRecording(n) => own' = own
    BY DEF StartRecording, StopRecording
  <1> QED
    BY <1>1, <1>2, Effects DEF TableEffect

LEMMA OwnStep == TypeInv /\ TableInv /\ OwnInv /\ [Next]_vars => OwnInv'
  <1> SUFFICES ASSUME TypeInv, TableInv, OwnInv, [Next]_vars
               PROVE  OwnInv'
    OBVIOUS
  <1>1. /\ made \in 0..MaxRec /\ sent \in 0..MaxRuns /\ own \in [Recs -> SUBSET Runs]
        /\ made' >= made /\ sent' >= sent /\ sent' \in 0..MaxRuns
        /\ \A q \in Recs : q <= made => titled'[q] = titled[q]
        /\ \A r \in Runs : r <= sent => mission'[r] = mission[r]
        /\ \A q \in Recs : q > made => own[q] = {}
    BY GoesOn, TypeStep DEF TypeInv, TableTypes, RoverTypes, Onward, TableInv
  <1>2. \A p \in Presses : Posted(p) => press[p].about \in 1..sent
    BY DEF TypeInv, PageTypes, Fits, Posted
  <1>3. ASSUME NEW p \in Presses, Posted(p)'
        PROVE  \/ Posted(p) /\ press'[p].about = press[p].about
               \/ /\ press'[p].about = sent + 1 /\ own' = own /\ ~Posted(p)
                  /\ \A o \in Presses \ {p} : press'[o] = press[o]
    <2>1. ASSUME NEW m \in Missions \cup {NoMission}, PostRun(p, m)
          PROVE  /\ press'[p].about = sent + 1 /\ own' = own /\ ~Posted(p)
                 /\ \A o \in Presses \ {p} : press'[o] = press[o]
      <3>1. /\ Handler(p, "leadIn", "posted", sent + 1) /\ UNCHANGED tableVars
            /\ sent + 1 \in Names \cup Nat
        BY <1>1, <2>1 DEF PostRun
      <3> DEFINE w == [of |-> press[p].of, at |-> "posted", about |-> sent + 1]
      <3>2. press' = [press EXCEPT ![p] = w] /\ w.about = sent + 1
        BY <3>1, HandlerMoves DEF At
      <3> HIDE DEF w
      <3>3. press \in [Presses -> PressRecords]
        BY DEF TypeInv, PageTypes
      <3>4. press'[p].about = sent + 1 /\ \A o \in Presses \ {p} : press'[o] = press[o]
        BY <3>2, <3>3
      <3> QED
        BY <3>1, <3>4 DEF Handler, tableVars, Posted
    <2> QED
      BY <1>3, <2>1, Effects DEF PressEffect, Posted
  <1>4. CASE own' = own
    <2>1. \A q \in Recs : \A r \in own'[q] : r <= sent' /\ mission'[r] = titled'[q]
      BY <1>1, <1>4 DEF OwnInv
    <2>2. \A p \in Presses, q \in Recs : Posted(p)' => press'[p].about \notin own'[q]
      BY <1>1, <1>3, <1>4 DEF OwnInv
    <2>3. ASSUME NEW p1 \in Presses, NEW p2 \in Presses, Posted(p1)', Posted(p2)',
                 press'[p1].about = press'[p2].about, p1 # p2
          PROVE  FALSE
      <3>1. CASE Posted(p1) /\ press'[p1].about = press[p1].about
        <4>1. press'[p2].about # sent + 1
          BY <1>1, <1>2, <2>3, <3>1
        <4>2. Posted(p2) /\ press'[p2].about = press[p2].about
          BY <1>3, <2>3, <4>1
        <4> QED
          BY <2>3, <3>1, <4>2 DEF OwnInv
      <3>2. CASE press'[p1].about = sent + 1 /\ ~Posted(p1) /\ \A o \in Presses \ {p1} : press'[o] = press[o]
        <4>1. Posted(p2) /\ press[p2].about = sent + 1
          BY <2>3, <3>2 DEF Posted
        <4> QED
          BY <1>1, <1>2, <4>1
      <3> QED
        BY <1>3, <2>3, <3>1, <3>2
    <2> QED
      BY <1>4, <2>1, <2>2, <2>3 DEF OwnInv
  <1>5. ASSUME NEW p \in Presses, NEW q \in 1..made, NotedFor(p, q)
        PROVE  OwnInv'
    <2> DEFINE r == press[p].about
    <2>1. /\ q \in Recs /\ own'[q] = own[q] \cup {r} /\ \A x \in Recs \ {q} : own'[x] = own[x]
          /\ r \in 1..sent /\ UNCHANGED <<titled, mission, sent>>
          /\ mission[r] = titled[q] /\ Posted(p) /\ ~Posted(p)'
      BY <1>1, <1>2, <1>5 DEF NotedFor
    <2>2. \A x \in Recs : r \notin own[x]
      BY <2>1 DEF OwnInv
    <2>3. own' # own
      BY <2>1, <2>2
    <2>4. \A o \in Presses : Posted(o)' => o # p /\ Posted(o) /\ press'[o].about = press[o].about
      BY <1>3, <2>1, <2>3
    <2> HIDE DEF r
    <2>5. \A x \in Recs : \A y \in own'[x] : y <= sent' /\ mission'[y] = titled'[x]
      BY <2>1 DEF OwnInv
    <2>6. \A x1, x2 \in Recs : \A y \in own'[x1] : y \in own'[x2] => x1 = x2
      BY <2>1, <2>2 DEF OwnInv
    <2>7. \A o \in Presses : Posted(o) /\ o # p => press[o].about # r
      BY <2>1 DEF OwnInv, r
    <2>8. \A o \in Presses, x \in Recs : Posted(o)' => press'[o].about \notin own'[x]
      BY <2>1, <2>4, <2>7 DEF OwnInv
    <2>9. \A p1, p2 \in Presses : Posted(p1)' /\ Posted(p2)' /\ press'[p1].about = press'[p2].about => p1 = p2
      BY <2>4 DEF OwnInv
    <2> QED
      BY <2>5, <2>6, <2>8, <2>9 DEF OwnInv
  <1> QED
    BY <1>4, <1>5, OwnEffect

LEMMA OwnInvariant == Spec => []OwnInv
  <1>1. Init => OwnInv
    BY DEF Init, OwnInv, Posted, NoPress
  <1> QED
    BY <1>1, TypeInvariant, TableInvariant, OwnStep, PTL DEF Spec

-----------------------------------------------------------------------------
(* A run that the watcher has decided on was sent while a recording of     *)
(* that name was open, and is not queued yet: what was queued is closed,   *)
(* so no later recording can have the run.                                 *)

OfName(r, n) == \E q \in Recs : r \in own[q] /\ titled[q] = n
OfClosed(r) == \E q \in Recs : r \in own[q] /\ fate[q] # "open"

NotesInv ==
  /\ UploadedOnce
  /\ \A a \in notes : /\ OfClosed(a.run) /\ a.recording <= made
                      /\ a.recording # None => fate[a.recording] # "open"
  /\ \A n \in DOMAIN watched : \A r \in watched[n].finished :
       OfName(r, n) /\ \A a \in notes : a.run # r

(* None of this is ever taken back. *)
LEMMA NotesHold ==
  ASSUME TypeInv, TableInv, NotesInv, [Next]_vars
  PROVE  /\ \A r \in Runs, n \in Names : OfName(r, n) => OfName(r, n)'
         /\ \A r \in Runs : OfClosed(r) => OfClosed(r)'
         /\ \A a \in notes : /\ OfClosed(a.run)' /\ a.recording <= made'
                             /\ a.recording # None => fate'[a.recording] # "open"
  <1>1. /\ made \in 0..MaxRec /\ \A q \in Recs : q > made => own[q] = {}
        /\ notes \subseteq [run : Runs, recording : 0..MaxRec] /\ made' \in 0..MaxRec
    BY TypeStep DEF TypeInv, TableTypes, WatcherTypes, TableInv
  <1>2. /\ \A r \in Runs, n \in Names : OfName(r, n) => OfName(r, n)'
        /\ \A r \in Runs : OfClosed(r) => OfClosed(r)'
    BY <1>1, GoesOn DEF Onward, OfName, OfClosed
  <1>3. ASSUME NEW a \in notes
        PROVE  /\ OfClosed(a.run)' /\ a.recording <= made'
               /\ a.recording # None => fate'[a.recording] # "open"
    <2>1. a.run \in Runs /\ a.recording \in 0..made /\ OfClosed(a.run)
          /\ (a.recording # None => fate[a.recording] # "open")
      BY <1>1 DEF NotesInv
    <2> QED
      BY <1>1, <1>2, <2>1, GoesOn DEF Onward
  <1> QED
    BY <1>2, <1>3

LEMMA NotesStep == TypeInv /\ TableInv /\ OwnInv /\ NotesInv /\ [Next]_vars => NotesInv'
  <1> SUFFICES ASSUME TypeInv, TableInv, OwnInv, NotesInv, [Next]_vars
               PROVE  NotesInv'
    OBVIOUS
  <1>1. /\ made \in 0..MaxRec /\ \A n \in Names : rec[n] \in 0..made
        /\ notes \subseteq [run : Runs, recording : 0..MaxRec]
        /\ watched \in Entries /\ DOMAIN watched \subseteq Names
        /\ \A n \in DOMAIN watched : watched[n] \in Entry /\ watched[n].finished \subseteq Runs
    BY DEF TypeInv, TableTypes, WatcherTypes, Entries, Entry
  <1>2. ASSUME notes' = notes, DOMAIN watched' \subseteq Names,
               \A n \in DOMAIN watched' : \/ n \in DOMAIN watched /\ watched'[n].finished = watched[n].finished
                                          \/ watched'[n].finished = {}
        PROVE  NotesInv'
    <2>1. UploadedOnce'
      BY <1>2 DEF NotesInv, UploadedOnce
    <2>2. \A n \in DOMAIN watched' : \A r \in watched'[n].finished :
             OfName(r, n)' /\ \A a \in notes' : a.run # r
      BY <1>1, <1>2, NotesHold DEF NotesInv
    <2> QED
      BY <1>2, <2>1, <2>2, NotesHold DEF NotesInv
  <1>3. CASE UNCHANGED <<notes, watched>>
    BY <1>1, <1>2, <1>3
  <1>4. ASSUME NEW n \in Names, TailElapses(n)
        PROVE  NotesInv'
    <2>1. PICK S \in SUBSET Names : watched \in [S -> Entry]
      BY <1>1 DEF Entries
    <2>2. \A e \in Entry : [e EXCEPT !.stop = "due"].finished = e.finished
      BY DEF Entry
    <2>3. watched' = [watched EXCEPT ![n] = [watched[n] EXCEPT !.stop = "due"]] /\ notes' = notes
      BY <1>4, <2>1 DEF TailElapses
    <2>4. DOMAIN watched' = DOMAIN watched
          /\ \A m \in DOMAIN watched : watched'[m].finished = watched[m].finished
      BY <2>1, <2>2, <2>3
    <2> QED
      BY <1>1, <1>2, <2>3, <2>4
  <1>5. CASE WatchForget
    <2>1. /\ notes' = notes
          /\ \A n \in DOMAIN watched' :
               \/ n \in DOMAIN watched /\ watched'[n] = watched[n]
               \/ n \in DOMAIN filming /\ NewEntry(watched'[n], n)
      BY <1>5, Forgets
    <2>2. DOMAIN filming \subseteq Names
      BY DEF TypeInv, WatcherTypes, Snapshots
    <2>3. DOMAIN watched' \subseteq Names
      BY <1>1, <2>1, <2>2
    <2>4. ASSUME NEW n \in DOMAIN watched'
          PROVE  \/ n \in DOMAIN watched /\ watched'[n].finished = watched[n].finished
                 \/ watched'[n].finished = {}
      BY <2>1 DEF NewEntry
    <2> QED
      BY <1>2, <2>1, <2>3, <2>4
  <1>6. ASSUME NEW n \in Names, WatchDecide(n)
        PROVE  NotesInv'
    <2>1. PICK e : Decided(e, n) /\ watched' = [watched EXCEPT ![n] = e]
      BY <1>6 DEF WatchDecide, Decided
    <2>2. PICK S \in SUBSET Names : watched \in [S -> Entry]
      BY <1>1 DEF Entries
    <2>3. /\ DOMAIN watched' = DOMAIN watched /\ notes' = notes
          /\ n \in DOMAIN watched => watched'[n] = e
          /\ \A m \in DOMAIN watched \ {n} : watched'[m] = watched[m]
      BY <1>6, <2>1, <2>2 DEF WatchDecide
    <2>4. e.finished = {} \/ (rec[n] # None /\ e.finished \subseteq own[rec[n]])
      BY <2>1 DEF Decided
    <2>5. ASSUME NEW r \in e.finished
          PROVE  r \in Runs /\ OfName(r, n) /\ \A a \in notes : a.run # r
      <3>1. rec[n] \in Recs /\ r \in own[rec[n]] /\ titled[rec[n]] = n /\ fate[rec[n]] = "open"
        BY <1>1, <2>4, <2>5 DEF TableInv
      <3>2. r \in Runs /\ OfName(r, n)
        BY <3>1 DEF OfName, TypeInv, TableTypes
      <3>3. ~OfClosed(r)
        BY <3>1 DEF OfClosed, OwnInv
      <3> QED
        BY <3>2, <3>3 DEF NotesInv
    <2>6. UploadedOnce'
      BY <2>3 DEF NotesInv, UploadedOnce
    <2>7. \A m \in DOMAIN watched' : \A r \in watched'[m].finished :
             OfName(r, m)' /\ \A a \in notes' : a.run # r
      BY <1>1, <2>3, <2>5, NotesHold DEF NotesInv
    <2> QED
      BY <2>3, <2>6, <2>7, NotesHold DEF NotesInv
  <1>7. ASSUME NEW n \in Names, WatchStop(n)
        PROVE  NotesInv'
    <2>1. /\ watched' = [m \in DOMAIN watched \ {n} |-> watched[m]]
          /\ StopRecording(n) /\ n \in DOMAIN watched
      BY <1>7 DEF WatchStop, Watcher, TypeInv, WatcherTypes, PassInv
    <2>2. CASE notes' = notes
      BY <1>1, <1>2, <2>1, <2>2
    <2>3. ASSUME NEW r \in watched[n].finished, notes' = notes \cup {[run |-> r, recording |-> rec[n]]}
          PROVE  NotesInv'
      <3> DEFINE b == [run |-> r, recording |-> rec[n]]
      <3>1. r \in Runs /\ OfName(r, n) /\ \A a \in notes : a.run # r
        BY <1>1, <2>1 DEF NotesInv
      <3>2. PICK q \in Recs : r \in own[q] /\ titled[q] = n
        BY <3>1 DEF OfName
      <3>3. fate'[q] # "open" /\ own' = own
        BY <2>1, <3>2 DEF StopRecording, TableInv, TypeInv, TableTypes
      <3>4. OfClosed(r)'
        BY <3>2, <3>3 DEF OfClosed
      <3>5. /\ rec[n] <= made' /\ (rec[n] # None => fate'[rec[n]] # "open")
            /\ rec[n] # None => fate[rec[n]] = "open"
        <4>1. rec[n] \in 0..made /\ (rec[n] # None => fate[rec[n]] = "open") /\ made' = made
          BY <1>1, <2>1 DEF StopRecording, TableInv
        <4>2. \A p \in Recs : fate'[p] = IF p = rec[n] THEN "kept" ELSE fate[p]
          BY <2>1 DEF StopRecording
        <4> QED
          BY <1>1, <4>1, <4>2
      <3>6. \A a \in notes : /\ a.run # b.run
                             /\ a.recording # None => a.recording # b.recording
        BY <3>1, <3>5 DEF NotesInv
      <3>7. UploadedOnce'
        BY <2>3, <3>6 DEF NotesInv, UploadedOnce
      <3>8. ASSUME NEW m \in DOMAIN watched', NEW x \in watched'[m].finished
            PROVE  OfName(x, m)' /\ \A a \in notes' : a.run # x
        <4>1. m \in DOMAIN watched /\ m # n /\ watched'[m] = watched[m]
          BY <2>1
        <4>2. x \in Runs /\ OfName(x, m) /\ \A a \in notes : a.run # x
          BY <1>1, <3>8, <4>1 DEF NotesInv
        <4>3. x # r
          BY <3>2, <4>1, <4>2 DEF OfName, OwnInv
        <4> QED
          BY <1>1, <2>3, <4>1, <4>2, <4>3, NotesHold
      <3>9. ASSUME NEW a \in notes'
            PROVE  /\ OfClosed(a.run)' /\ a.recording <= made'
                   /\ a.recording # None => fate'[a.recording] # "open"
        <4>1. CASE a \in notes
          BY <4>1, NotesHold
        <4>2. CASE a.run = r /\ a.recording = rec[n]
          <5>1. OfClosed(a.run)'
            BY <3>4, <4>2 DEF OfClosed
          <5>2. a.recording <= made' /\ (a.recording # None => fate'[a.recording] # "open")
            BY <3>5, <4>2
          <5> QED
            BY <5>1, <5>2
        <4> QED
          BY <2>3, <4>1, <4>2
      <3> QED
        BY <3>7, <3>8, <3>9 DEF NotesInv
    <2> QED
      BY <1>7, <2>1, <2>2, <2>3 DEF WatchStop
  <1>8. CASE Watch
    <2>1. CASE WatchList \/ WatchAnswered \/ WatchUnanswered \/ WatchOverdue \/ WatchRest
      BY <1>3, <2>1 DEF WatchList, WatchAnswered, WatchUnanswered, WatchOverdue, WatchRest
    <2>2. ASSUME NEW n \in Names, WatchStamp(n) \/ WatchSkip(n) \/ WatchStopOverdue(n)
          PROVE  NotesInv'
      BY <1>3, <2>2 DEF WatchStamp, WatchSkip, WatchStopOverdue
    <2> QED
      BY <1>5, <1>6, <1>7, <1>8, <2>1, <2>2 DEF Watch
  <1> QED
    BY <1>3, <1>4, <1>8, Effects DEF WatcherEffect, watcherVars

(* No two uploads are queued for one run or for one recording, however     *)
(* Stop, a re-run under the same name and the watcher's passes fall.       *)
THEOREM UploadsOnce == Spec => []UploadedOnce
  <1>1. Init => NotesInv
    BY DEF Init, NotesInv, UploadedOnce
  <1>2. NotesInv => UploadedOnce
    BY DEF NotesInv
  <1> QED
    BY <1>1, <1>2, TypeInvariant, TableInvariant, OwnInvariant, NotesStep, PTL DEF Spec

-----------------------------------------------------------------------------
(* Why a recording is stopped.  While the recording an entry began with is *)
(* still open, a run that is over and that its first answer did not have   *)
(* ended while it was filmed; so does a run that an answer does not have   *)
(* yet.                                                                    *)

Seen(S, ended, over, names) == \A r \in over : names[r] \in Missions => r \in S \/ r \in ended

Cause(n, mine, ended, over, names) ==
  \E r \in over : r \in mine \/ (r \in ended /\ names[r] = n)

EntryInv(n) == LET w == watched[n]  q == rec[n] IN
  q # None /\ q = w.started =>
    /\ w.stop # "no" => Cause(n, own[q], endedIn[q], Over, mission)
    /\ w.answered => Seen(w.before, endedIn[q], Over, mission)
    /\ wPc = "deciding" => Seen(answer, endedIn[q], Over, mission)

CauseInv ==
  /\ answer \subseteq Over
  /\ \A n \in DOMAIN watched : EntryInv(n)

(* What was seen of a recording that stays open goes on being so.          *)
LEMMA CauseHolds ==
  ASSUME TypeInv, TableInv, [Next]_vars, NEW n \in Names, rec'[n] # None, rec'[n] # made + 1
  PROVE  /\ rec'[n] = rec[n] /\ rec[n] \in Recs
         /\ Cause(n, own[rec[n]], endedIn[rec[n]], Over, mission)
              => Cause(n, own'[rec[n]], endedIn'[rec[n]], Over', mission')
         /\ \A S : Seen(S, endedIn[rec[n]], Over, mission)
                     => Seen(S, endedIn'[rec[n]], Over', mission')
  <1>1. rec'[n] = rec[n] /\ rec[n] \in Recs /\ fate[rec[n]] = "open"
    BY GoesOn DEF Onward, TypeInv, TableTypes, TableInv
  <1>2. /\ Over \subseteq Over' /\ \A r \in Over : mission'[r] = mission[r]
        /\ \A r \in Over' \ Over : r \in endedIn'[rec[n]]
        /\ own[rec[n]] \subseteq own'[rec[n]] /\ endedIn[rec[n]] \subseteq endedIn'[rec[n]]
    <2>1. \A r \in Over : r \in Runs /\ r <= sent
      BY DEF Over, TypeInv, RoverTypes
    <2> QED
      BY <1>1, <2>1, GoesOn DEF Onward, Over
  <1> QED
    BY <1>1, <1>2 DEF Cause, Seen

LEMMA CauseStep == TypeInv /\ TableInv /\ CauseInv /\ [Next]_vars => CauseInv'
  <1> SUFFICES ASSUME TypeInv, TableInv, CauseInv, [Next]_vars
               PROVE  CauseInv'
    OBVIOUS
  <1>1. /\ made \in 0..MaxRec /\ \A n \in Names : rec[n] \in 0..made
        /\ DOMAIN watched \subseteq Names /\ watched \in Entries
        /\ \A n \in DOMAIN watched : watched[n].started <= made /\ watched[n].started \in 0..MaxRec
        /\ DOMAIN filming \subseteq Names /\ \A n \in DOMAIN filming : filming[n] \in 0..made
    BY DEF TypeInv, TableTypes, WatcherTypes, Entries, Entry, Snapshots
  <1>2. Over \subseteq Over'
    BY GoesOn DEF Onward, Over
  (* An entry that a step leaves as it is. *)
  <1>3. ASSUME NEW n \in DOMAIN watched, n \in DOMAIN watched',
               watched'[n].started = watched[n].started, watched'[n].answered = watched[n].answered,
               watched'[n].before = watched[n].before,
               watched'[n].stop # "no" => watched[n].stop # "no",
               wPc' = "deciding" => wPc = "deciding" /\ answer' = answer
        PROVE  EntryInv(n)'
    <2>1. SUFFICES ASSUME rec'[n] # None, rec'[n] = watched[n].started
                   PROVE  /\ watched[n].stop # "no" =>
                               Cause(n, own'[rec[n]], endedIn'[rec[n]], Over', mission')
                          /\ watched[n].answered =>
                               Seen(watched[n].before, endedIn'[rec[n]], Over', mission')
                          /\ wPc = "deciding" => Seen(answer, endedIn'[rec[n]], Over', mission')
                          /\ rec'[n] = rec[n]
      BY <1>3 DEF EntryInv
    <2>2. n \in Names /\ rec'[n] # made + 1
      BY <1>1, <2>1
    <2>3. rec'[n] = rec[n]
      BY <2>1, <2>2, CauseHolds
    <2> QED
      BY <1>3, <2>1, <2>2, <2>3, CauseHolds DEF CauseInv, EntryInv
  <1>4. ASSUME answer' = answer, \A n \in DOMAIN watched' : n \in DOMAIN watched /\ watched'[n] = watched[n],
               wPc' = "deciding" => wPc = "deciding"
        PROVE  CauseInv'
    BY <1>2, <1>3, <1>4 DEF CauseInv
  <1>5. CASE UNCHANGED watcherVars
    BY <1>4, <1>5 DEF watcherVars
  <1>6. ASSUME NEW n \in Names, TailElapses(n)
        PROVE  CauseInv'
    <2>1. PICK S \in SUBSET Names : watched \in [S -> Entry]
      BY <1>1 DEF Entries
    <2>2. \A e \in Entry : LET f == [e EXCEPT !.stop = "due"] IN
            /\ f.started = e.started /\ f.answered = e.answered /\ f.before = e.before /\ f.stop = "due"
      BY DEF Entry
    <2>3. /\ watched' = [watched EXCEPT ![n] = [watched[n] EXCEPT !.stop = "due"]] /\ watched[n].stop = "tail"
          /\ UNCHANGED <<wPc, answer>>
      BY <1>6, <2>1 DEF TailElapses
    <2>4. ASSUME NEW m \in DOMAIN watched'
          PROVE  EntryInv(m)'
      <3>1. m \in DOMAIN watched
        BY <2>1, <2>3
      <3>2. CASE m = n
        <4>1. watched'[n] = [watched[n] EXCEPT !.stop = "due"] /\ watched[n] \in Entry
          BY <2>1, <2>3, <3>1, <3>2
        <4> QED
          BY <1>3, <2>2, <2>3, <3>1, <3>2, <4>1
      <3>3. CASE m # n
        BY <1>3, <2>1, <2>3, <3>1, <3>3
      <3> QED
        BY <3>2, <3>3
    <2> QED
      BY <1>2, <2>3, <2>4 DEF CauseInv
  <1>7. CASE WatchForget
    <2>1. /\ answer' = answer /\ wPc' # "deciding"
          /\ \A n \in DOMAIN watched' :
               (n \in DOMAIN watched /\ watched'[n] = watched[n]) \/ NewEntry(watched'[n], n)
      BY <1>7, Forgets
    <2>2. ASSUME NEW n \in DOMAIN watched', NewEntry(watched'[n], n)
          PROVE  EntryInv(n)'
      BY <2>1, <2>2 DEF EntryInv, NewEntry
    <2> QED
      BY <1>2, <1>3, <2>1, <2>2 DEF CauseInv
  <1>8. CASE WatchAnswered
    <2>1. /\ answer' = {r \in Over : mission[r] \in Missions} /\ watched' = watched
          /\ UNCHANGED <<rec, run, mission, endedIn, own>>
      BY <1>8 DEF WatchAnswered, Watcher, roverVars, tableVars
    <2>2. Over' = Over
      BY <2>1 DEF Over
    <2>3. \A n \in Names : Seen(answer', endedIn'[rec'[n]], Over', mission')
      BY <2>1, <2>2 DEF Seen
    <2>4. ASSUME NEW n \in DOMAIN watched
          PROVE  EntryInv(n)'
      BY <1>1, <2>1, <2>2, <2>3 DEF CauseInv, EntryInv
    <2> QED
      BY <2>1, <2>2, <2>4 DEF CauseInv
  <1>9. ASSUME NEW n \in Names, WatchDecide(n)
        PROVE  CauseInv'
    <2>1. PICK e : Decided(e, n) /\ watched' = [watched EXCEPT ![n] = e]
      BY <1>9 DEF WatchDecide, Decided
    <2>2. PICK S \in SUBSET Names : watched \in [S -> Entry]
      BY <1>1 DEF Entries
    <2>3. /\ DOMAIN watched' = DOMAIN watched /\ answer' \in {answer, {}} /\ wPc = "deciding"
          /\ wPc' = "deciding" => answer' = answer
          /\ n \in DOMAIN watched => watched'[n] = e
          /\ \A m \in DOMAIN watched \ {n} : watched'[m] = watched[m]
          /\ UNCHANGED <<rec, own, run, mission, endedIn>>
      BY <1>9, <2>1, <2>2 DEF WatchDecide, Watcher, tableVars, roverVars
    <2>4. Over' = Over
      BY <2>3 DEF Over
    <2>5. ASSUME n \in DOMAIN watched
          PROVE  EntryInv(n)'
      <3> DEFINE w == watched[n]
                 q == rec[n]
      <3>1. SUFFICES ASSUME q # None, q = w.started
                     PROVE  /\ e.stop # "no" => Cause(n, own[q], endedIn[q], Over, mission)
                            /\ e.answered => Seen(e.before, endedIn[q], Over, mission)
                            /\ Seen(answer, endedIn[q], Over, mission)
        <4>1. e.started = w.started
          BY <2>1 DEF Decided
        <4> QED
          BY <2>3, <2>4, <2>5, <4>1 DEF EntryInv
      <3>2. /\ w.answered => Seen(w.before, endedIn[q], Over, mission)
            /\ Seen(answer, endedIn[q], Over, mission) /\ answer \subseteq Over
        BY <2>3, <2>5, <3>1 DEF CauseInv, EntryInv
      <3>3. e.before = (IF w.answered THEN w.before ELSE answer)
        BY <2>1 DEF Decided
      <3>4. Seen(e.before, endedIn[q], Over, mission)
        BY <3>2, <3>3
      <3>5. ASSUME e.stop # "no"
            PROVE  Cause(n, own[q], endedIn[q], Over, mission)
        <4>1. \/ answer \cap own[q] # {}
              \/ FinishedSince(n, e.before) # {}
          BY <2>1, <3>1, <3>5 DEF Decided
        <4>2. CASE answer \cap own[q] # {}
          BY <3>2, <4>2 DEF Cause
        <4>3. CASE FinishedSince(n, e.before) # {}
          <5>1. PICK r \in answer \ e.before : mission[r] = n
            BY <4>3 DEF FinishedSince
          <5>2. r \in Over /\ mission[r] \in Missions
            BY <3>2, <5>1 DEF Over, TypeInv, RoverTypes
          <5> QED
            BY <3>4, <5>1, <5>2 DEF Cause, Seen
        <4> QED
          BY <4>1, <4>2, <4>3
      <3> QED
        BY <3>2, <3>4, <3>5
    <2>6. \A m \in DOMAIN watched' : EntryInv(m)'
      BY <1>3, <2>3, <2>5
    <2> QED
      BY <2>3, <2>4, <2>6 DEF CauseInv
  <1>10. ASSUME NEW n \in Names, WatchStop(n)
         PROVE  CauseInv'
    BY <1>4, <1>10 DEF WatchStop, Watcher
  <1>11. CASE WatchList \/ WatchUnanswered \/ WatchOverdue \/ WatchRest
    BY <1>4, <1>11 DEF WatchList, WatchUnanswered, WatchOverdue, WatchRest, Watcher
  <1>12. ASSUME NEW n \in Names, WatchStamp(n) \/ WatchSkip(n) \/ WatchStopOverdue(n)
         PROVE  CauseInv'
    BY <1>4, <1>12 DEF WatchStamp, WatchSkip, WatchStopOverdue, Watcher
  <1> QED
    BY <1>5, <1>6, <1>7, <1>8, <1>9, <1>10, <1>11, <1>12, Effects DEF WatcherEffect, Watch

LEMMA CauseInvariant == Spec => []CauseInv
  <1>1. Init => CauseInv
    BY DEF Init, CauseInv
  <1> QED
    BY <1>1, TypeInvariant, TableInvariant, CauseStep, PTL DEF Spec

(* A recording that a pass of the watcher stops is over for a reason: a    *)
(* run sent while it was open, or a run of its mission that ended while it *)
(* was, is over.  An earlier attempt at the mission is never the reason    *)
(* (finished_since).                                                       *)
THEOREM StopsHaveCause == Spec => StopHasCause
  <1>1. ASSUME TypeInv, TableInv, CauseInv, [Next]_vars, NEW n \in Names,
               wPc = "stopping", todo' # todo, rec[n] # None, rec'[n] = None, filming[n] = rec[n]
        PROVE  \E r \in Over : r \in own[rec[n]] \/ (r \in endedIn[rec[n]] /\ mission[r] = n)
    <2>1. Watch
      BY <1>1, Effects DEF WatcherEffect, watcherVars, TailElapses
    <2>2. \A m \in Names : ~WatchStamp(m) /\ ~WatchDecide(m) /\ ~WatchStopOverdue(m)
      BY <1>1 DEF WatchStamp, WatchDecide, WatchStopOverdue, Watcher
    <2>3. ~WatchList /\ ~WatchForget /\ ~WatchAnswered /\ ~WatchUnanswered /\ ~WatchOverdue /\ ~WatchRest
      BY <1>1 DEF WatchList, WatchForget, WatchAnswered, WatchUnanswered, WatchOverdue, WatchRest, Watcher
    <2>4. \A m \in Names : ~WatchSkip(m)
      BY <1>1 DEF WatchSkip, tableVars
    <2>5. PICK m \in Names : WatchStop(m)
      BY <2>1, <2>2, <2>3, <2>4 DEF Watch
    <2>6. m = n
      BY <1>1, <2>5 DEF WatchStop, StopRecording, TypeInv, TableTypes
    <2>7. /\ n \in DOMAIN watched /\ n \in DOMAIN filming /\ watched[n].started = filming[n]
          /\ watched[n].stop = "due"
      BY <1>1, <2>5, <2>6 DEF WatchStop, TypeInv, WatcherTypes, PassInv
    <2> QED
      BY <1>1, <2>7 DEF CauseInv, EntryInv, Cause
  <1>2. TypeInv /\ TableInv /\ CauseInv /\ [Next]_vars =>
          [\A n \in Names :
             /\ wPc = "stopping" /\ todo' # todo
             /\ rec[n] # None /\ rec'[n] = None /\ filming[n] = rec[n]
             => \E r \in Over : r \in own[rec[n]] \/ (r \in endedIn[rec[n]] /\ mission[r] = n)]_vars
    BY <1>1
  <1> QED
    BY <1>2, TypeInvariant, TableInvariant, CauseInvariant, PTL DEF Spec, StopHasCause
=============================================================================
