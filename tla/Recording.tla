------------------------------ MODULE Recording ------------------------------
(***************************************************************************)
(* Filming a run.  Four parties share the table of open recordings of the  *)
(* satellite (yard/satellite/recording_control.py): the run station page   *)
(* with its three buttons (static/pages/run.js), the queue proxy that      *)
(* notes which instruction was sent while a recording ran                  *)
(* (routes/rover.py), the consumer thread that writes the camera's frames, *)
(* and the mission watcher that polls the rover and stops filming what is  *)
(* over (mission_watcher.py).                                              *)
(*                                                                         *)
(* The table is keyed by the name of the recording, and its lock covers    *)
(* one call at a time; each call that takes the lock is an action here.    *)
(* Recordings are numbered as they start: the number is what the code      *)
(* tells apart by the start time and the file name.  Runs are numbered as  *)
(* they are sent; the number is the id the rover gives the instruction.    *)
(***************************************************************************)
EXTENDS Naturals, FiniteSets, Functions, TLC

CONSTANTS
  Names,         \* what a recording can be called
  Missions,      \* the names that are mission ids
  NoMission,     \* stands for the mission id a run was sent without
  MaxRec,        \* bound: recordings started in a behaviour
  MaxRuns,       \* bound: runs sent to the rover in a behaviour
  Camera,        \* what the camera may do: send frames, break off or be missing
  Buttons,       \* the buttons of the page the operator uses
  Presses        \* bound: the presses whose handlers may be under way at a time

ASSUME RecordingAssumption ==
  /\ Missions \subseteq Names
  /\ NoMission \notin Names
  /\ MaxRec \in Nat
  /\ MaxRuns \in Nat
  /\ Camera \subseteq {"sends", "fails"}
  /\ Buttons \subseteq {"send", "record", "stop"}

VARIABLES
  rec,        \* _paths, _started: the recording open under each name
  own,        \* _dispatches: the runs noted for each recording
  fate,       \* what became of each recording's file
  titled,     \* the name each recording was started under
  made,       \* how many recordings were started
  filmed,     \* recordings with a writer: they hold at least one frame
  old,        \* open recordings that have run for over ten minutes
  consumer,   \* where the consumer thread is
  run,        \* where each run is
  mission,    \* the mission id a run carries
  sent,       \* how many runs were sent
  endedIn,    \* the runs that ended while each recording was open
  shown,      \* recordingName: the recording the page believes in
  press,      \* the button each press is of, where its handler is, and what
              \* its request is about
  locked,     \* runBtn.disabled, by a press of Send
  poll,       \* the page's status request
  announced,  \* recordings the page has announced as finished
  wPc,        \* where the watcher thread is
  todo,       \* the names its loop has still to visit
  filming,    \* its snapshot: listed names and the recording under each
  watched,    \* _watched
  answer,     \* what the rover said is over
  notes       \* the uploads the watcher queued

tableVars == <<rec, own, fate, titled, made, filmed, old>>
roverVars == <<run, mission, sent, endedIn>>
pageVars == <<shown, press, locked, poll, announced>>
watcherVars == <<wPc, todo, filming, watched, answer, notes>>
vars == <<tableVars, consumer, roverVars, pageVars, watcherVars>>

None == 0
NoPress == [of |-> "none", at |-> "idle", about |-> None]
Recs == 1..MaxRec
Runs == 1..MaxRuns

OpenNames == {n \in Names : rec[n] # None}
Over == {r \in Runs : run[r] = "over"}

Init ==
  /\ rec = [n \in Names |-> None]
  /\ own = [q \in Recs |-> {}]
  /\ fate = [q \in Recs |-> "unmade"]
  /\ titled = [q \in Recs |-> NoMission]
  /\ made = 0
  /\ filmed = {}
  /\ consumer = "off"
  /\ run = [r \in Runs |-> "unsent"]
  /\ mission = [r \in Runs |-> NoMission]
  /\ sent = 0
  /\ endedIn = [q \in Recs |-> {}]
  /\ shown = None
  /\ press = [p \in Presses |-> NoPress]
  /\ locked = FALSE
  /\ poll = [at |-> "idle", since |-> None, active |-> {}]
  /\ announced = {}
  /\ wPc = "resting"
  /\ todo = {}
  /\ filming = <<>>
  /\ watched = <<>>
  /\ answer = {}
  /\ old = {}
  /\ notes = {}

-----------------------------------------------------------------------------
(* Slip: the runs noted for a name outlive its recording. *)
StartKeepsDispatches(n) ==
  LET q == made + 1 IN
  /\ made < MaxRec
  /\ made' = q
  /\ rec' = [rec EXCEPT ![n] = q]
  /\ titled' = [titled EXCEPT ![q] = n]
  /\ fate' = [p \in Recs |-> IF p = q THEN "open"
                             ELSE IF p = rec[n] THEN "replaced" ELSE fate[p]]
  /\ consumer' = IF consumer = "off" THEN "connecting" ELSE consumer
  /\ own' = [own EXCEPT ![q] = UNION {own[p] : p \in {x \in Recs : titled[x] = n}}]
  /\ old' = old \ {rec[n]}
  /\ UNCHANGED filmed

(* The table.  Starting under a name that is open replaces its entry: the  *)
(* old writer loses its last reference, which closes the file.             *)
StartRecording(n) ==
  LET q == made + 1 IN
  /\ made < MaxRec
  /\ made' = q
  /\ rec' = [rec EXCEPT ![n] = q]
  /\ titled' = [titled EXCEPT ![q] = n]
  /\ fate' = [p \in Recs |-> IF p = q THEN "open"
                             ELSE IF p = rec[n] THEN "replaced" ELSE fate[p]]
  /\ consumer' = IF consumer = "off" THEN "connecting" ELSE consumer
  /\ old' = old \ {rec[n]}
  /\ UNCHANGED <<own, filmed>>

(* stop_recording(keep=True): every caller in the yard keeps the file.     *)
StopRecording(n) ==
  /\ rec' = [rec EXCEPT ![n] = None]
  /\ fate' = [p \in Recs |-> IF p = rec[n] THEN "kept" ELSE fate[p]]
  /\ old' = old \ {rec[n]}
  /\ UNCHANGED <<own, titled, made, filmed>>

(* note_dispatch: ignored when nothing records under that name. *)
NoteDispatch(m, r) ==
  /\ own' = IF m \in OpenNames THEN [own EXCEPT ![rec[m]] = @ \cup {r}] ELSE own
  /\ UNCHANGED <<rec, fate, titled, made, filmed, old>>

-----------------------------------------------------------------------------
(* The consumer thread.  It looks for work only after a frame, decides to  *)
(* leave under the lock, closes its connection without it, and only then   *)
(* takes itself off as the consumer.                                       *)
ConsumerMoves(to) ==
  /\ consumer' = to
  /\ UNCHANGED <<tableVars, roverVars, pageVars, watcherVars>>

Connect ==
  /\ "sends" \in Camera
  /\ consumer = "connecting"
  /\ ConsumerMoves("receiving")

LoseCamera ==
  /\ "fails" \in Camera
  /\ consumer \in {"connecting", "receiving"}
  /\ ConsumerMoves("leaving")

(* Slip: the writers of recordings that have just been stopped are used    *)
(* again, as they were when the lock covered only the copy of the table.   *)
WriteFrameToStopped ==
  /\ consumer = "receiving"
  /\ consumer' = "wrote"
  /\ filmed' = filmed \cup {q \in Recs : fate[q] \in {"open", "kept"}}
  /\ UNCHANGED <<rec, own, fate, titled, made, old, roverVars, pageVars, watcherVars>>

(* _write_frame_to_all: a frame for every open recording, under the lock.  *)
WriteFrame ==
  /\ consumer = "receiving"
  /\ consumer' = "wrote"
  /\ filmed' = filmed \cup {rec[n] : n \in OpenNames}
  /\ UNCHANGED <<rec, own, fate, titled, made, old, roverVars, pageVars, watcherVars>>

(* Slip: the consumer never looks whether a recording is left. *)
LookAway ==
  /\ consumer = "wrote"
  /\ ConsumerMoves("receiving")

LookForWork ==
  /\ consumer = "wrote"
  /\ ConsumerMoves(IF OpenNames = {} THEN "leaving" ELSE "receiving")

ConsumerEnds ==
  /\ consumer = "leaving"
  /\ ConsumerMoves("off")

-----------------------------------------------------------------------------
(* The run station.  Each press has its own handler; they interleave at    *)
(* each await, and share recordingName.  Send and the record button are    *)
(* disabled while their handler runs, Stop never is; and every paintGate   *)
(* enables Send again, that of a status answer and of startRecording too.  *)
Press(p, b, to, about) ==
  /\ b \in Buttons
  /\ press[p] = NoPress
  /\ press' = [press EXCEPT ![p] = [of |-> b, at |-> to, about |-> about]]
  /\ \/ b = "send" /\ ~locked /\ locked' = TRUE
     \/ b = "record" /\ (\A o \in Presses : press[o].of # "record") /\ UNCHANGED locked
     \/ b = "stop" /\ UNCHANGED locked

Handler(p, from, to, about) ==
  /\ press[p].at = from
  /\ press' = [press EXCEPT ![p].at = to, ![p].about = about]

(* The end of a handler: its finally enables its button.                   *)
HandlerEnds(p, from) ==
  /\ press[p].at = from
  /\ press' = [press EXCEPT ![p] = NoPress]

(* Send, or the record button: startRecording when no recording is shown.  *)
AskToStart(p, n) ==
  /\ shown = None
  /\ made < MaxRec
  /\ \E b \in {"send", "record"} : Press(p, b, "starting", n)
  /\ UNCHANGED <<tableVars, consumer, roverVars, shown, poll, announced, watcherVars>>

(* /api/recording/start: the camera is probed first. *)
CameraNotReady(p) ==
  /\ "fails" \in Camera
  /\ HandlerEnds(p, "starting")
  /\ locked' = (locked /\ press[p].of # "send")
  /\ UNCHANGED <<tableVars, consumer, roverVars, shown, poll, announced, watcherVars>>

StartServed(p) ==
  /\ Handler(p, "starting", "started", made + 1)
  /\ StartRecording(press[p].about)
  /\ UNCHANGED <<roverVars, shown, locked, poll, announced, watcherVars>>

(* The answer arrives; Send goes on to its lead-in second.                 *)
StartSeen(p) ==
  /\ IF press[p].of = "send" THEN Handler(p, "started", "leadIn", None)
                             ELSE HandlerEnds(p, "started")
  /\ shown' = press[p].about
  /\ locked' = FALSE
  /\ UNCHANGED <<tableVars, consumer, roverVars, poll, announced, watcherVars>>

(* Send with a recording already shown goes straight to the rover.         *)
SendAgain(p) ==
  /\ shown # None
  /\ Press(p, "send", "leadIn", None)
  /\ UNCHANGED <<tableVars, consumer, roverVars, shown, poll, announced, watcherVars>>

(* /api/queue/add leaves the page, with the mission id typed in by now.    *)
PostRun(p, m) ==
  LET r == sent + 1 IN
  /\ sent < MaxRuns
  /\ Handler(p, "leadIn", "posted", r)
  /\ sent' = r
  /\ run' = [run EXCEPT ![r] = "sent"]
  /\ mission' = [mission EXCEPT ![r] = m]
  /\ UNCHANGED <<tableVars, consumer, endedIn, shown, locked, poll, announced,
                 watcherVars>>

(* The rover's answer passes through the proxy, which notes the dispatch.  *)
PostServed(p) ==
  LET r == press[p].about IN
  /\ HandlerEnds(p, "posted")
  /\ run[r] \notin {"unsent", "sent"}
  /\ locked' = FALSE
  /\ NoteDispatch(mission[r], r)
  /\ UNCHANGED <<consumer, roverVars, shown, poll, announced, watcherVars>>

(* A timeout: the page is told 503 or 504, the rover may have the run.     *)
PostFails(p) ==
  /\ HandlerEnds(p, "posted")
  /\ locked' = FALSE
  /\ UNCHANGED <<tableVars, consumer, roverVars, shown, poll, announced, watcherVars>>

AskToStop(p) ==
  /\ shown # None
  /\ Press(p, "record", "stopping", titled[shown])
  /\ UNCHANGED <<tableVars, consumer, roverVars, shown, poll, announced, watcherVars>>

(* The Stop button clears the rover's queue, then ends the recording that  *)
(* is shown by then.  The run under way ends a moment later (RunEnds).     *)
PressStop(p) ==
  /\ "stop" \in Buttons
  /\ \E S \in SUBSET {r \in Runs : run[r] = "accepted"} :
       run' = [r \in Runs |-> IF r \in S THEN "cleared" ELSE run[r]]
  /\ IF shown = None THEN UNCHANGED <<press, locked>>
                     ELSE Press(p, "stop", "stopping", titled[shown])
  /\ UNCHANGED <<tableVars, consumer, mission, sent, endedIn, shown, poll, announced,
                 watcherVars>>

StopServed(p) ==
  /\ Handler(p, "stopping", "stopped", None)
  /\ StopRecording(press[p].about)
  /\ UNCHANGED <<consumer, roverVars, shown, locked, poll, announced, watcherVars>>

StopSeen(p) ==
  /\ HandlerEnds(p, "stopped")
  /\ shown' = None
  /\ locked' = FALSE
  /\ UNCHANGED <<tableVars, consumer, roverVars, poll, announced, watcherVars>>

(* The page polls /api/status.                                             *)
PollAsked ==
  /\ poll.at = "idle"
  /\ poll' = [at |-> "asked", since |-> shown, active |-> {}]
  /\ UNCHANGED <<tableVars, consumer, roverVars, shown, press, locked, announced,
                 watcherVars>>

PollServed ==
  /\ poll.at = "asked"
  /\ poll' = [poll EXCEPT !.at = "answered", !.active = OpenNames]
  /\ UNCHANGED <<tableVars, consumer, roverVars, shown, press, locked, announced,
                 watcherVars>>

(* Slip: every answer counts, one asked before the recording started too.  *)
AnyAnswer == shown # None

(* Slip: the comparison turned round. *)
AskedBeforeStart == shown # None /\ poll.since # shown

(* Only an answer to a request sent after the recording started counts.    *)
AskedSinceStart == shown # None /\ poll.since = shown

PollSeen ==
  /\ poll.at = "answered"
  /\ poll' = [at |-> "idle", since |-> None, active |-> {}]
  /\ LET ended == AskedSinceStart /\ titled[shown] \notin poll.active IN
     /\ shown' = IF ended THEN None ELSE shown
     /\ announced' = IF ended THEN announced \cup {shown} ELSE announced
  /\ locked' = FALSE
  /\ UNCHANGED <<tableVars, consumer, roverVars, press, watcherVars>>

-----------------------------------------------------------------------------
(* The rover, as the satellite sees it.                                    *)
RoverAccepts(r) ==
  /\ run[r] = "sent"
  /\ run' = [run EXCEPT ![r] = "accepted"]
  /\ UNCHANGED <<tableVars, consumer, mission, sent, endedIn, pageVars, watcherVars>>

RunEnds(r) ==
  /\ run[r] = "accepted"
  /\ run' = [run EXCEPT ![r] = "over"]
  /\ endedIn' = [q \in Recs |-> IF fate[q] = "open" THEN endedIn[q] \cup {r}
                                                    ELSE endedIn[q]]
  /\ UNCHANGED <<tableVars, consumer, mission, sent, pageVars, watcherVars>>

-----------------------------------------------------------------------------
(* A pass of the watcher: stop_finished_recordings.                        *)
Watcher(from, to) ==
  /\ wPc = from
  /\ wPc' = to
  /\ UNCHANGED <<roverVars, pageVars>>

WatchList ==
  /\ Watcher("resting", "stamping")
  /\ filming' = [n \in OpenNames |-> None]
  /\ todo' = OpenNames
  /\ UNCHANGED <<tableVars, consumer, watched, answer, notes>>

(* started_at, one lock per name: None if it has been stopped by now.      *)
WatchStamp(n) ==
  /\ n \in todo
  /\ Watcher("stamping", "stamping")
  /\ filming' = [filming EXCEPT ![n] = rec[n]]
  /\ todo' = todo \ {n}
  /\ UNCHANGED <<tableVars, consumer, watched, answer, notes>>

Undecided(w) == {n \in DOMAIN filming : w[n].stop = "no"}

Remembers(n) ==
  watched[n].started = IF n \in DOMAIN filming THEN filming[n] ELSE None

(* Entries of recordings that are gone or replaced are forgotten, but not  *)
(* one made for a recording that stopped before it was stamped; new ones   *)
(* begin; the rover is asked only if some recording is undecided.          *)
WatchForget ==
  LET kept == {n \in DOMAIN watched : Remembers(n)}
      w == [n \in DOMAIN filming \cup kept |->
              IF n \in kept THEN watched[n]
              ELSE [started |-> filming[n], before |-> {}, answered |-> FALSE,
                    stop |-> "no", finished |-> {}]]
  IN
  /\ todo = {}
  /\ Watcher("stamping", IF filming = <<>> THEN "rested"
                         ELSE IF Undecided(w) = {} THEN "stopping" ELSE "asking")
  /\ watched' = w
  /\ todo' = IF Undecided(w) = {} THEN DOMAIN filming ELSE Undecided(w)
  /\ UNCHANGED <<tableVars, consumer, filming, answer, notes>>

(* finished_runs: the rover's history of runs that carry a mission id.     *)
WatchAnswered ==
  /\ Watcher("asking", "deciding")
  /\ answer' = {r \in Over : mission[r] \in Missions}
  /\ UNCHANGED <<tableVars, consumer, todo, filming, watched, notes>>

WatchUnanswered ==
  /\ Watcher("asking", "stopping")
  /\ todo' = DOMAIN filming
  /\ UNCHANGED <<tableVars, consumer, filming, watched, answer, notes>>

(* Slip: the history from before the recording counts as well.             *)
FinishedEver(n, before) == {r \in answer : mission[r] = n}

FinishedSince(n, before) == {r \in answer \ before : mission[r] = n}

(* dispatches_for is read here, by name, after the rover has answered.     *)
WatchDecide(n) ==
  LET seen == watched[n]
      before == IF seen.answered THEN seen.before ELSE answer
      mine == IF rec[n] = None THEN {} ELSE own[rec[n]]
      finished == IF mine # {} THEN answer \cap mine ELSE FinishedSince(n, before)
  IN
  /\ n \in todo
  /\ Watcher("deciding", IF todo = {n} THEN "stopping" ELSE "deciding")
  /\ watched' = [watched EXCEPT ![n] =
       [started |-> seen.started, before |-> before, answered |-> TRUE,
        stop |-> IF finished # {} THEN "tail" ELSE "no",
        finished |-> IF mine # {} THEN finished ELSE {}]]
  /\ todo' = IF todo = {n} THEN DOMAIN filming ELSE todo \ {n}
  /\ answer' = IF todo = {n} THEN {} ELSE answer
  /\ UNCHANGED <<tableVars, consumer, filming, notes>>

(* The tail (recordingTail, zero allowed) has run.                         *)
TailElapses(n) ==
  /\ n \in DOMAIN watched
  /\ watched[n].stop = "tail"
  /\ watched' = [watched EXCEPT ![n].stop = "due"]
  /\ UNCHANGED <<tableVars, consumer, roverVars, pageVars, wPc, todo, filming, answer,
                 notes>>

WatchSkip(n) ==
  /\ n \in todo
  /\ Watcher("stopping", IF todo = {n} THEN "rested" ELSE "stopping")
  /\ watched[n].stop # "due"
  /\ todo' = todo \ {n}
  /\ filming' = IF todo = {n} THEN <<>> ELSE filming
  /\ UNCHANGED <<tableVars, consumer, watched, answer, notes>>

(* stop_recording takes the name, and returns the path that was open under *)
(* it, or None, which goes on as the path 'not recording'; the upload is   *)
(* queued for a run that was decided on.                                   *)
WatchStop(n) ==
  /\ n \in todo
  /\ Watcher("stopping", IF todo = {n} THEN "rested" ELSE "stopping")
  /\ watched[n].stop = "due"
  /\ StopRecording(n)
  /\ watched' = [m \in DOMAIN watched \ {n} |-> watched[m]]
  /\ todo' = todo \ {n}
  /\ \/ watched[n].finished = {} /\ UNCHANGED notes
     \/ \E r \in watched[n].finished :
          notes' = notes \cup {[run |-> r, recording |-> rec[n]]}
  /\ filming' = IF todo = {n} THEN <<>> ELSE filming
  /\ UNCHANGED <<consumer, answer>>

(* Slip: a recording the pass above knows of is left to it. *)
OverdueUnwatched == {n \in OpenNames \ DOMAIN watched : rec[n] \in old}

Overdue == {n \in OpenNames : rec[n] \in old}

(* stop_overdue_recordings, on the housekeeping timer or not at all.       *)
WatchOverdue ==
  /\ Watcher("rested", "overdue")
  /\ todo' = Overdue
  /\ UNCHANGED <<tableVars, consumer, filming, watched, answer, notes>>

WatchStopOverdue(n) ==
  /\ n \in todo
  /\ Watcher("overdue", "overdue")
  /\ StopRecording(n)
  /\ todo' = todo \ {n}
  /\ UNCHANGED <<consumer, filming, watched, answer, notes>>

WatchRest ==
  /\ wPc = "rested" \/ (wPc = "overdue" /\ todo = {})
  /\ wPc' = "resting"
  /\ UNCHANGED <<tableVars, consumer, roverVars, pageVars, todo, filming, watched,
                 answer, notes>>

TenMinutesPass(q) ==
  /\ fate[q] = "open"
  /\ old' = old \cup {q}
  /\ UNCHANGED <<rec, own, fate, titled, made, filmed, consumer, roverVars, pageVars, watcherVars>>

-----------------------------------------------------------------------------
Consume == Connect \/ LoseCamera \/ WriteFrame \/ LookForWork \/ ConsumerEnds

Serve == \E p \in Presses :
  \/ StartServed(p) \/ CameraNotReady(p) \/ StartSeen(p)
  \/ StopServed(p) \/ StopSeen(p)
  \/ PostServed(p) \/ PostFails(p)

Click == \E p \in Presses :
  \/ \E n \in Names : AskToStart(p, n)
  \/ SendAgain(p)
  \/ \E m \in Missions \cup {NoMission} : PostRun(p, m)
  \/ AskToStop(p)
  \/ PressStop(p)

Poll == PollAsked \/ PollServed \/ PollSeen

Watch ==
  \/ WatchList \/ WatchForget \/ WatchAnswered \/ WatchUnanswered
  \/ \E n \in Names : WatchStamp(n) \/ WatchDecide(n) \/ WatchSkip(n) \/ WatchStop(n)
                      \/ WatchStopOverdue(n)
  \/ WatchOverdue \/ WatchRest

Next ==
  \/ Consume \/ Serve \/ Click \/ Poll \/ Watch
  \/ \E r \in Runs : RoverAccepts(r) \/ RunEnds(r)
  \/ \E n \in Names : TailElapses(n)
  \/ \E q \in Recs : TenMinutesPass(q)

Spec == Init /\ [][Next]_vars
(***************************************************************************)
(* Threads keep running, requests that were made are answered and time     *)
(* passes.  A pass may skip its housekeeping, but not for ever.  Nothing   *)
(* obliges an operator to click, or a rover to take a run or to end it.    *)
(***************************************************************************)
Fairness ==
  /\ WF_vars(Consume)
  /\ WF_vars(Serve)
  /\ WF_vars(PollAsked) /\ WF_vars(PollServed) /\ WF_vars(PollSeen)
  /\ WF_vars(Watch)
  /\ SF_vars(WatchOverdue)
  /\ \A n \in Names : WF_vars(TailElapses(n))
  /\ \A q \in Recs : WF_vars(TenMinutesPass(q))

FairSpec == Spec /\ Fairness

-----------------------------------------------------------------------------
Stops == {"no", "tail", "due"}
Entry == [started : 0..MaxRec, before : SUBSET Runs, answered : BOOLEAN,
          stop : Stops, finished : SUBSET Runs]

TypeOK ==
  /\ rec \in [Names -> 0..MaxRec]
  /\ own \in [Recs -> SUBSET Runs]
  /\ fate \in [Recs -> {"unmade", "open", "kept", "replaced"}]
  /\ titled \in [Recs -> Names \cup {NoMission}]
  /\ made \in 0..MaxRec
  /\ filmed \subseteq Recs
  /\ consumer \in {"off", "connecting", "receiving", "wrote", "leaving"}
  /\ run \in [Runs -> {"unsent", "sent", "accepted", "cleared", "over"}]
  /\ mission \in [Runs -> Missions \cup {NoMission}]
  /\ sent \in 0..MaxRuns
  /\ endedIn \in [Recs -> SUBSET Runs]
  /\ shown \in 0..MaxRec
  /\ \A p \in Presses :
       /\ press[p].of \in Buttons \cup {"none"}
       /\ press[p].at \in {"idle", "starting", "started", "leadIn", "posted",
                           "stopping", "stopped"}
  /\ locked \in BOOLEAN
  /\ poll.at \in {"idle", "asked", "answered"}
  /\ announced \subseteq Recs
  /\ wPc \in {"resting", "stamping", "asking", "deciding", "stopping", "rested", "overdue"}
  /\ todo \subseteq Names
  /\ DOMAIN filming \subseteq Names
  /\ DOMAIN watched \subseteq Names
  /\ \A n \in DOMAIN watched : watched[n] \in Entry
  /\ answer \subseteq Runs
  /\ notes \subseteq [run : Runs, recording : 0..MaxRec]

(* A video goes up at most once, and for one run: no two uploads are       *)
(* queued for a run or for a recording, however Stop, a re-run and the     *)
(* watcher's passes fall.                                                  *)
UploadedOnce ==
  \A a, b \in notes :
    a.run = b.run \/ (a.recording = b.recording /\ a.recording # None) => a = b

(* The recording an upload is queued with is the one that filmed the run:  *)
(* "a recording stops when one of its own dispatches finishes", and        *)
(* "the upload names the run" (mission_watcher.py).                        *)
UploadsFilmTheirRun ==
  \A a \in notes : a.recording # None => a.run \in own[a.recording]

(* A recording that the watcher saw when its pass began is stopped only    *)
(* for a run sent while it was open, or a run of its mission that ended    *)
(* while it was: never for an earlier attempt at the mission, which the    *)
(* rover's history still shows as completed.                               *)
StopHasCause ==
  [][\A n \in Names :
       /\ wPc = "stopping" /\ todo' # todo
       /\ rec[n] # None /\ rec'[n] = None /\ filming[n] = rec[n]
       => \E r \in Over : r \in own[rec[n]] \/ (r \in endedIn[rec[n]] /\ mission[r] = n)]_vars

(* The page tells the operator that a recording is finished only when it   *)
(* is: an answer from before it started cannot be taken for its end.       *)
AnnouncesOnlyEnded == \A q \in announced : fate[q] # "open"

(* No recording is left open, whatever becomes of the rover, the camera    *)
(* and the page: a file that is never closed cannot be played.             *)
EveryRecordingEnds == \A q \in Recs : fate[q] = "open" ~> fate[q] # "open"

(* The page does not go on claiming to film for ever.                      *)
PageLetsGo == \A q \in Recs : shown = q ~> shown # q

(* A frame is only written to a file that is open: a writer that was       *)
(* released is never used again ("a segmentation fault in libavcodec that  *)
(* kills the whole satellite process").                                    *)
FramesOnlyWhileOpen == [][\A q \in filmed' \ filmed : fate[q] = "open"]_vars

(* The consumer thread ends once nothing is recorded, unless a recording   *)
(* starts again, or the camera falls silent without breaking off.          *)
ConsumerLeaves ==
  (consumer # "off" /\ OpenNames = {}) ~> (consumer = "off" \/ OpenNames # {})

(* With a camera that never fails, an open recording has a thread that     *)
(* writes frames to it.                                                    *)
OpenMeansConsumed == OpenNames # {} => consumer # "off"

(* A run is sent to the rover only while something is being recorded:      *)
(* "Record first, always ... If the recording could not start we do not    *)
(* send" (run.js).                                                         *)
RunsAreFilmed == [][sent' # sent => OpenNames # {}]_vars

(* The presses are alike: for the runs that check no liveness.             *)
PressSymmetry == Permutations(Presses)
=============================================================================
