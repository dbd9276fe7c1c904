# Verification of the rover yard and Mission Control

This directory holds TLA+ models of the parts of this repository where several
threads, pages, people and services share state: the rover's instruction queue,
the filming of a run on the satellite, the delivery of its video, and, in Mission
Control, missions and their runs, the operators' access, the console they watch,
what learners submit, what the rover reports, and the handoff from the desk to the
yard. TLC checks each model on small instances; TLAPS proves the properties that
matter most for every value of the constants. `PROJECT.json` maps every definition
to the lines it was translated from.

## 1. The system

A learner writes a program and submits it as a mission. An operator opens it in the
console, hands it over to the yard's run station and sends it to the rover, which
carries it out; the satellite films the run, notices that it is over, closes the
file and delivers it to Mission Control, which uploads it to YouTube and attaches
it to the run. The console, or the operator, marks the mission complete.

| Component | State | Operations | What is hard |
|---|---|---|---|
| Rover queue (`yard/rover/service.py`, `python_runner.py`, `drivers.py`, `vendor/rover.py`) | queue, history, current instruction, stop flag, motors | add, clear (Stop), status; the processor thread | Stop is a flag seen only where the processor polls, and is up for 0.1 s; some calls poll nothing for longer; the learner program is arbitrary and may catch its interruption; the driver may raise |
| Recording control (`yard/satellite/recording_control.py`) | tables of open recordings, their dispatches and writers; the consumer thread | start, stop, note a dispatch, write a frame | a thread that ends while a recording starts; encoders freed under a writer |
| Mission watcher (`mission_watcher.py`) | `_watched`: what each recording waits for | one pass: list, ask the rover, decide, stop; overdue check; delivery tick | decides on a recording, asks over the network, and acts by name |
| Run station (`static/pages/run.js`) | the recording it believes in; the mission it was handed | Record, Send, Stop, status polls; the automatic run | answers older than the state they are compared with; presses that overlap; a page that reloads |
| Queue proxy and recording routes (`routes/`) | none of their own | start, stop, add, status | the rover may have run before the dispatch is noted |
| Upload outbox (`youtube_upload.py`) | a note beside each recording, the connection seen last | queue, kick, deliver, probe, wake | two threads write one note; power cuts; lost answers |
| Upload ledger and ingest route (Mission Control) | one document a recording: status, attempts, lease, holder, video | claim, finish, record a failure, link | overlapping requests, lease expiry, a lost answer of YouTube, a commit whose answer is lost |
| Missions, operator commands, video linker (`Mission.ts`, `OperatorMissionCommands.ts`, `VideoLinker.ts`) | a mission's document and its runs | dispatch, complete, cancel, review, attach, delete | read, decide, write without one transaction; three kinds of writer |
| Operator team, sessions, invites (`OperatorTeamService.ts`, `FirebaseOperatorDirectory.ts`, `operatorInvites.ts`, `dal.ts`) | role claims, ledger, invites, cookies | grant, revoke, sign in, check, sign out | a role lives in three places no transaction joins; the last admin |
| Rover-reported completions (`useRoverReportedCompletions.ts`, `roverReports.ts`) | ids acted on, in memory and in localStorage | poll the rover, pick, post | a stale queue cut to a window, several consoles, tabs that share one key, a write the browser refuses, lost answers, old reports of a mission reopened |
| Operator console (`MissionQueue.tsx`, `operatorQueueService.ts`) | what four listeners delivered, the open mission | open, filter, load more, retry | late and failed listeners; a mission that changes lists under the operator |
| Mission submission, names, address (`MissionService.ts`, `FirestoreMissionNameRegistry.ts`, `LearnerContext.tsx`, `MissionNotificationService.ts`) | names taken, the counter, the learner's record | submit, save an address, notify | claims that race; tabs that know an older address |
| Automatic dispatch (`AutomaticDispatch.tsx`) | the panel's answers, permission, the handoff | read, Send, permission | a panel that outlives its mission; a handoff 1.5 s after an answer |
| Camera state (`camera_state.py`) | one cached probe | probe, invalidate | an answer kept past the camera's failing |
| Cleanup, identity and tunables, discovery, power | files, one configuration file | sweep, save, scan | unlocked read-modify-write |
| Rate limiter, access requests, link schedule | counters, requests, the poll's clock | allow, ask, due | windows |
| Safety checks, simulator, pages, infrastructure | — | pure functions, drawing, deployment | — |

What makes each modelled component correct:

- **Queue**: what is accepted runs in order and is not lost; Stop, once answered,
  has cancelled what waited, and has ended what it could reach; no failure leaves
  the rover driving; the processor survives, and everything settles unless a learner
  program keeps it.
- **Recording**: a recording is stopped for its own run and no other; frames never
  reach a closed file; a recording always ends and the page always learns of it; a
  run is uploaded as itself, once.
- **Upload**: one uploader at a time; every video accounted for; what the note and
  the ledger say is true; giving up only when it is over; every note settles.
- **Missions**: the mission shows what one of its runs says; a settled outcome
  changes only by what names it; one video is linked to one run.
- **Access**: somebody stays admin; a person who has no role has no session; the
  three places agree when nobody interfered; an invite is used up only once applied.
- **Reports**: who was answered does not post again; a clean finish a console can see
  is recorded.
- **Console**: while its lists are connected, the pane shows, and keeps, the mission
  that was opened; nothing that waits is left out of the queue on the screen without a
  note that says so.
- **Submission**: no two missions have one name; mail goes only to the address its
  mission was sent with.
- **Handoff**: what starts by itself was asked for, on a fresh answer; a handoff
  that waits is tried.

## 2. Modules

`RoverPromise` (abstract) ← `RoverQueue` ← `MCRoverQueue`, `RoverQueueProofs`.
`Recording` ← `RecordingProofs`.
`RunVideo` (abstract) ← `UploadLedger` ← `UploadDelivery` (composition) ←
`UploadProofs`, about the last two.
`MissionBookkeeping` ← `MCMissions`, `MissionBookkeepingProofs`.
`MissionSubmission` ← `MCSubmission`, `MissionSubmissionProofs`.
`MissionHandoff` ← `MissionHandoffProofs`. `OperatorAccess` ← `MCAccess`,
`OperatorAccessProofs`. `ReportedCompletions` ← `MCReports`.
`OperatorConsole` ← `OperatorConsoleProofs`, which also
extends `ReportedCompletions`: both describe one open console. The names of the
latter's specification begin with `Reports`, so that the two can be extended together.

The `MC` modules add constants or the symmetry TLC uses. A definition whose comment
begins with "Slip:" is not part of the model: it is a plausible mistake, defined
before the definition it would replace, and shows that a property notices it (the
`mutants` of `PROJECT.json`).

**RoverQueue.** `pc` is the place of the processor thread. *Polling* places look
at the stop flag, *Quick* places lie between two looks, *Ending* places come
after the outcome is decided. Each critical section, each look at the flag and
each driver call is an action (`Pop`, `Begin`, `StartMotion`, `WaitPolls`,
`ProgramLine`, ...). One press of Stop is one HTTP thread with five places
(`PressStop`, `ClearStopDriver`, `ClearEmptyQueue`, `ClearLowerFlag`, or
`ClearAborted` when the driver raises). A learner program is any sequence of
lines that drive, halt, sleep, take a photo, block, return or raise. `motors` is the
instruction that set the motors going. Speeds, steering, LEDs and the program's
output are left out.

Three things escape Stop, and all three are in the model. (1) *Slow* places poll
nothing and may outlast the 0.1 s the flag is up: `take_photo`; the brake and 0.2 s
of sleep before the vendored library drives the other way (`Brake`,
`DriveAfterBrake`; `vendor/rover.py:235-237, 250-252, 265-267, 285-287`); and
`BlockedCall`, a step call of the library that waits for the wheels to turn (362-402;
`LearnerRover` hands every call but the four motions on unchanged), or a builtin on a
large argument. (2) The first of two overlapping presses to end takes the
flag down for both. (3) `StudentCodeInterrupted` is an exception the program may catch,
and Python drops a trace function that raised: from then on no line looks at flag or
deadline (`InterruptionCaught`, `UntracedLine`; `escaped` holds such programs).
`deaf` is the set of presses that met (1) or (2), `heard` of those during which the
processor has polled. Timing is one guard, `PolledInTime`: with `Prompt`, a press
that is not deaf lowers its flag only once the processor has left its quick places
and has polled, if it is where it polls, unless its program escaped. This is what
`_interruptible_wait`'s 50 ms and a traced line's microseconds give. The one wait in a
quick place, the join in `_stop_spin_animation` (`drivers.py:436-441`), finds a thread
only where a spin is being stopped: in the processor after a motion's wait, when
the outcome is decided, and in the request itself before its 0.1 s begin.

`FaultyDriver` lets any call of the driver raise: an I2C error, or the two threads
that stop one spin at once, where the second finds `animation_thread` gone between its
test and its join.

**RoverPromise.** What the rover promises to whoever sends instructions and presses
Stop, without queue, threads or flag: instructions are begun in the order they were
sent, once each and one at a time; Stop cancels all that wait, sparing at most the
oldest; only an instruction being carried out sets the rover going. It allows what the code allows and no more: an instruction that cannot be
read is lost, and the rover may drive on after an instruction that ended (a learner
program that leaves the motors running). `Shown` is the mapping: the status of each
instruction, and "lost" for a malformed one once popped, whose status stays pending.

**Recording.** The table (`rec`, `own`), the consumer thread, the page (`shown`,
`press`, `locked`, `poll`), the proxy and the rover (`run`, `endedIn`) and the
watcher (`wPc`, `todo`, `filming`, `watched`, `answer`). Each call that takes the
table's lock is one action; each request of the page is asked, served and seen in
three. Two presses may be under way: a handler disables its button, but every
status the page paints enables Send again. Recordings and runs are numbered as they
start; the number stands for the start time, the file and the uuid. The watcher's
pass is a loop of its own with the names still to visit, so that everything else
may happen between its snapshot, its question to the rover, its decision and each
stop. `old` stands for the ten minutes after which a recording is overdue.

**UploadLedger.** The ledger document of one recording, and the requests the
route serves at a time. A Firestore transaction is one action. `Publish` and
`PublishFails` are the call to YouTube; a failed call may have published.
`FinishThrows` is a transaction that throws before or after its commit. `Killed`
is the container going away at any place. `LeaseEnds` ends the lease: never while
its holder is at work, unless `Outlives`. In the code the call to YouTube is
limited to 180 s and the lease to 15 minutes, but the token refresh before it has
no timeout, so a request *can* outlive its lease: the safety of the ledger alone
is checked with `Outlives`, and the properties that need the bound name it.

**RunVideo.** What the ledger promises, without requests, leases and holders:
bounded tries, the video of the latest try, final once recorded.

**UploadDelivery.** Extends `UploadLedger` with the satellite's outbox: the note
of one recording, the delivery pass (which keeps the note it read while its
request is out), the watcher's probe and wake-up (which keeps the note *it* read
between its read and its write), backoff, deletion of the recording, and a
restart. A request whose sender is gone is served all the same (`Unheard`). The
write of a note is atomic here; the shared `.tmp` path below it is not modelled.

**MissionBookkeeping.** One mission's document and its runs, and requests that each
read, decide and write in steps of their own: an operator's command, a link (from
the scheduled poll or from an automatic upload) and the two deletions. A request is
chosen where it shows, in its write, among all that its snapshot allows; `overtaken`
says whether another request wrote in between, which is what the properties excuse.

**OperatorAccess.** `account` (the claim that decides), `ledger` and `invite` are
the three places of a role, `cookie` the session with the role its token had. A
change is a sequence of writes, one action each (`work`); `overtaken` and `torn`
remember who interleaved and who was killed half way.

**ReportedCompletions.** Every console's poll captures its queue, awaits the browser's
permission (`Ask`: without it the poll ends and says nothing) and the rover's history,
and posts what it picks, one await at a time. The queue is what a listener delivered
last, late and cut to the newest `WindowSize` open missions; a listener that failed
delivers nothing until the console is opened again. A browser has one permission and
one key in its storage (`stored`), which each of its consoles reads once, on opening,
and overwrites with its own memory; `Save` may be refused, and nobody is told. A
console may be left with its poll still out (`Unmount`), which hears its answer and
saves it, or closed (`Leave`). `answered` and `kept` are not in the code: what a
console knows is recorded, because it was told or because its browser kept it, the
latter only where no other console of the browser was in use. Requests, answers,
writes, permissions and pages may be lost (`MaxFaults`). The history keeps the latest
`HistorySize`; that a browser keeps the last 100 ids is left out, as the rover tells
of ten.

**OperatorConsole.** The two windows, the watched mission and its runs are four
listeners that deliver what the server holds at some moment after they attach, or
fail. `view` is which list fills the rows: the queue, the settled missions, or both
during a search. The review and processing chips narrow the queue's rows further and
are left out. `Screen` is the early returns of the component, and `Shown` the
mission it computes past them: what an operator sees is `PaneMission`, which is
`Shown` where `Screen` is "panes" and nothing elsewhere, and `NoteShown`.

**MissionSubmission.** A submission is the chain of requests the route makes: claim
a name at random or from the counter, create the document, look up and mail. A save
of an address is another chain. A name is a number; `NameForNumber` is the code's
stride, one-to-one by `NamesAssumption`.

**MissionHandoff.** The panel (`panel`, `reads`, `refresh`), the handoffs in their
1.5 seconds (`leaving`) and the run station (`station`) of one browser. `Desk` is
everything before, `Station` everything after the page changes. `camera` and
`rover` are what is true now, and every answer is a copy taken earlier.
`pressed` keeps what Send was pressed for, pruned to what may still arrive.

## 3. Runs

| Run | Checks | Shows |
|---|---|---|
| `rover_queue` | `NothingLost`, `StopHolds`, `OnlyCompletedProgramsDriveOn`, `NothingMovesAfterStop`, `EverythingSettles` | two presses of Stop against two instructions of every kind, with slow calls and programs that catch their interruption |
| `rover_faults` | `InOrder`, `KeepsRoverPromise`, `ProcessorSurvives` | two presses, a driver that raises anywhere, calls that block, polls that may be late; refinement of `RoverPromise` |
| `recording` | `UploadedOnce`, `AnnouncesOnlyEnded`, `StopHasCause` | page, proxy, rover and watcher over two recordings of one mission and one run, presses overlapping |
| `recording_camera` | `FramesOnlyWhileOpen`, `ConsumerLeaves`, `EveryRecordingEnds`, `PageLetsGo` | the consumer thread, a camera that fails, the overdue check |
| `upload_ledger` | `VideosAccountedFor`, `ImplementsPromise` | three overlapping requests that may outlive their leases; refinement of `RunVideo` |
| `upload_delivery` | `OneUploader`, `OneVideoOffered`, `UploadedNoteIsTrue`, `GivesUpOnlyWhenOver`, `EveryNoteSettles` | outbox and ledger with every fault |
| `mission_bookkeeping` | `MissionMirrorsARun`, `SettledStaysSettled`, `UndisturbedLinkIsTheOnlyOne` | commands, links and deletions overtaking each other on one mission |
| `operator_access` | `SomebodyIsAdmin`, `LedgerAgrees`, `NoRoleNoSession`, `InviteUsedOnlyOnceApplied` | two admins, an invited person and their sign-ins, write by write, any killed |
| `reported_completions` | `AnsweredReportIsSpent`, `ReportsGetRecorded` | a console over two missions and a window of one, with permission, listener, storage and answers that fail, and operators who close and reopen by hand |
| `operator_console` | `PaneShowsTheOpenMission`, `HiddenIsSaid`, `OpenMissionStays`, `OpenMissionIsFound` | listeners that deliver late, fail and attach again, under filters and searches |
| `mission_submission` | `NamesNeverRepeat`, `MailMeetsTheHash` | two tabs submit, save and reload, requests killed anywhere |
| `mission_handoff` | `OnlyWhatWasAsked`, `MovesOnFreshAnswer`, `HandoffIsTried` | desk, handoff and run station over a yard that changes |

The largest are `recording` (2.2 million states, about 75 s), `rover_faults` (1.6
million, 2.5 minutes, with liveness), `rover_queue` (0.86 million, 2 minutes, with
liveness), `reported_completions` (0.28 million, a minute), `operator_console` (0.23
million, 1.5 minutes) and `mission_handoff` (0.2 million, 24 s).

`reports_tabs.cfg` (`MCReports`) is run by hand and passes: two tabs of one browser,
two faults, and the invariants of the reports.

**Bounds.** Each is the least at which the cases the properties are about happen.
`rover_queue`: two instructions, which is one in hand and one that waits or comes
after the press, every call a program has, two presses, the least to overlap, and a
history of one so that it overflows. `rover_faults`: the same with a history of two. `recording`: one name, two
recordings and one run: a recording and its re-run is what the watcher, the page and
the proxy confuse; two presses; the frames do not matter to it (`Camera` is empty).
`recording_camera`: one recording, two presses, and the camera's behaviours.
`upload_ledger`: the code's limit of three attempts and as many requests.
`upload_delivery`: two requests (one heard, one that is not any more) and two
attempts, so that the limit is reached. `mission_bookkeeping`: two yards (a home and
another), three runs (one before, one filmed, one after), the filmed video and
another, two requests to overtake each other, three writes. `operator_access`: two
founders who may remove each other and one invited person, two requests, three
things begun. `reported_completions`: two missions and a window of one, so that a newer
one pushes the other out; two attempts, two instructions (a report of each attempt)
and a history of one, so that a report leaves it; one console, one fault. What several
consoles do to each other's memory is `reports_tabs`. `operator_console`: two missions and windows of one, so that one is always
over the edge; three pages, one failure. `mission_submission`: two tabs, two
addresses, four names of which one is retired, three things begun: both ways to a
name run into what is taken. `mission_handoff`: two missions, two yards (this and
another), browsers that ask or block, one read by a button besides the one in the
background, two handoffs on their way, two loads of the station; its invariants were
also run with two such reads (2.0 million states). The counters are bounded in the
guards by the `Max...` constants and by nothing else.

Deadlock is checked in `mission_handoff` and `operator_console`, whose systems always
go on; the others may come to rest when nobody does anything more.

**Fairness.** Nobody ever has to press, add, sign in or come back.
`RoverQueue`: the processor thread, a request that started, and time
(the program's deadline); none for a blocked call, which need not return, and nothing
says that a program that caught its interruption ends. `Stuck` names these two, and
`EverythingSettles` and `ProcessorSurvives` set aside a rover that is stuck for ever. `Recording`: threads, requests and polls that were made,
and time; *strong* fairness only for the overdue check, which the watcher's pass may
skip (it runs once in `HOUSEKEEPING_SECONDS`) but not for ever; none for the rover
or a run's end. `UploadDelivery`: the delivery pass, the tick, the wake-up, time,
and requests that arrived; and the assumption, written in the specification as
`<>[][~Fault]_vars`, that restarts, failed connections, failed transactions and
killed instances stop some day. YouTube may fail for ever: the attempts are bounded
by the ledger. `ReportedCompletions`: the interval fires in a page that is in view,
a listener that has not failed delivers, the browser says whether it has the
permission, requests are served; nobody has to grant it. A fault is bounded, not unfair,
and `ReportsGetRecorded` is about a console in view, with permission and a live
listener, and a mission in its window.
`OperatorConsole`: Firestore delivers to a live listener what it has not seen.
`MissionHandoff`: a run station in a visible tab polls each five seconds (a hidden one
pauses, `yard-cache.js:109-113`), a poll gets through
again and again (strong: any one may fail), and the satellite renews its snapshot.

## 4. Proofs

| Theorem | Says |
|---|---|
| `RoverQueueProofs!TypeCorrect` | the type invariant |
| `RoverQueueProofs!RunsInOrder` | `InOrder`, for every choice of commands, calls, presses and faults |
| `RoverQueueProofs!AnsweredStopHolds`, `NothingMoves` | `StopHolds` and `NothingMovesAfterStop` under `StopAssumption`, for any number of presses and any programs |
| `RoverQueueProofs!RoverKeepsPromise` | `KeepsRoverPromise`: the queue implements `RoverPromise`, whatever the driver raises and however many presses overlap |
| `RoverQueueProofs!FlagComesDown` | `FlagReleased`: the flag is up only during a press or after an aborted one, for any number of presses |
| `RoverQueueProofs!NothingIsLost`, `OnlyProgramsDriveOn` | `NothingLost` and `OnlyCompletedProgramsDriveOn` under `FaultlessDriver` |
| `RecordingProofs!RecordingTypeCorrect` | the type invariant |
| `RecordingProofs!UploadsOnce`, `AnnouncedIsOver` | `UploadedOnce` and `AnnouncesOnlyEnded`, for any number of names, recordings, runs and presses |
| `RecordingProofs!StopsHaveCause`, `FramesAreForOpen` | the action properties `StopHasCause` and `FramesOnlyWhileOpen` |
| `UploadProofs!LedgerTypeCorrect`, `VideosAccounted` | type, and every video belongs to a counted attempt |
| `UploadProofs!UploaderAlone`, `VideoOfferedOnce` | one uploader, one video offered |
| `UploadProofs!LedgerKeepsPromise` | the ledger implements `RunVideo` |
| `UploadProofs!DeliveryUsesLedger` | the composition implements the ledger, so the four above hold of it |
| `UploadProofs!DeliveryTypeCorrect` | the type invariant of outbox and ledger together |
| `UploadProofs!UploadedNoteTrue`, `GivesUpInTime` | what the satellite concludes is true |
| `MissionBookkeepingProofs!TypeCorrect`, `YardsKept` | type, and no write moves a run to another yard (`RunKeepsItsYard`) |
| `MissionBookkeepingProofs!Mirrors`, `SettledHolds`, `LinksOnce` | `MissionMirrorsARun`, `SettledStaysSettled`, `UndisturbedLinkIsTheOnlyOne` |
| `OperatorAccessProofs!AccessTypeCorrect` | the type invariant |
| `OperatorAccessProofs!AdminRemains`, `LedgerFollowsClaim`, `RemovalEndsSessions` | `SomebodyIsAdmin`, `LedgerAgrees`, `NoRoleNoSession`, for any number of people and requests |
| `OperatorAccessProofs!InviteNotWasted` | the action property `InviteUsedOnlyOnceApplied` |
| `OperatorConsoleProofs!ConsoleTypeCorrect`, `ReportsTypeCorrect` | the type invariants `ConsoleTypeOK` and `ReportsTypeOK` |
| `OperatorConsoleProofs!PaneIsTheOpenMission`, `OpenMissionStaysOpen`, `NothingHidesSilently` | `PaneShowsTheOpenMission`; `OpenMissionStays`, while the two lists are connected; `HiddenIsSaid`, of the queue on the screen; for any number of missions and any size of the windows |
| `OperatorConsoleProofs!AnsweredIsSpent`, `CleanFinishCompletes` | `AnsweredReportIsSpent` and `OnlyACleanFinishCompletes` of `ReportedCompletions`, for any number of consoles, browsers and faults |
| `MissionSubmissionProofs!TypeCorrect`, `NamesUnique`, `MailsMeetHashes` | type, `NamesNeverRepeat`, `MailMeetsTheHash`, for any number of tabs, names and submissions |
| `MissionHandoffProofs!HandoffTypeCorrect` | the type invariant |
| `MissionHandoffProofs!AskedFor`, `FreshAnswer` | `OnlyWhatWasAsked` and `MovesOnFreshAnswer`, for any number of missions, yards, reads and loads |

*Assumptions.* The named assumptions of the modules (`RoverQueueAssumption`,
`RecordingAssumption`, `LedgerAssumption`, `BookkeepingAssumption`,
`AccessAssumption`, `ConsoleAssumption`, `ReportsAssumption`, `NamesAssumption`, `HandoffAssumption`),
which TLC evaluates on every run of their module, and for the two Stop theorems
`StopAssumption`: the processor is prompt, and the driver does not raise. It limits
neither presses nor programs. What the code does not promise is instead in the
statements: `StopHolds` says of every answered press that nothing of before waits
(this needs no timing), and of a press that is not `deaf` that nothing of before is
under way but a program that escaped. `RoverStopped` is the promise without these
exceptions, and section 5 shows it broken in each of the three ways. `FaultlessDriver`
is the part of it that `NothingIsLost` and `OnlyProgramsDriveOn` need and no more:
any number of presses, late polls and slow calls. A driver that raises again while the
processor handles its first failure drops the instruction in hand, and may leave the
motors running (`service.py`, `Fail` then `Recover`); both properties are therefore
claims about a driver that works. `NamesAssumption`
says that the stride is one-to-one, which `missionNameGenerator.ts` gets from a stride with
no factor in common with the number of names.

*Arguments.* `InOrder` is nearly inductive: it needs that every identifier in the
queue, the history and in hand is at most `accepted` (`OrderInv`), and lemmas on
appending a batch and on a bounded history. `StopHolds` is not inductive: whether
an old instruction can survive the answer depends on what the processor has polled
while the flag was up. `StopInv` says, for each press that is not deaf, what may still be under way
at each of its places: its flag is up and the processor in no slow call while it is in
progress (`FlagIsUp`), whoever polled then has decided to end or has escaped
(`PollEndsInstruction`), and after the answer an old instruction is ending
(`OldJobIsEnding`) and old motors belong to one about to halt them
(`OldMotorsAreEnding`, which needs `MotorsAreOlder`: the motors belong to nothing that
waits). `QueueIsNew`, of every press: from `holding` on the queue holds nothing of
before. That the queue implements `RoverPromise` is read off the status fields, which by
themselves say too little: `PhaseInv` ties them to the places, namely what is new lies
beyond `accepted`, what reads executing is in hand and being carried out, and what is
pending and can be read is in the queue, or popped and not begun. With it and
`OrderInv` every action of the queue is one step of the promise or a stutter: the
instruction popped before a press empties the queue is the one that `Cancel` spares,
and it is the oldest because the queue is in order. Neither `StopAssumption` nor
`FaultlessDriver` is used. For the ledger, `Bookkeeping` (attempts are counted, recorded videos exist,
the holder made the latest claim) carries the type and the refinement, and
`Exclusive` (only the holder of a living lease is at work, every video offered is
the recorded one) the rest. The composition maps every step to a step of the
ledger or a stutter; `UploadedNoteIsTrue` and `GivesUpOnlyWhenOver` follow from
the stability of "has a video" and "out of attempts with nobody at work", and from
every answer being true when it is given (`AnswersTrue`).

The properties of missions are about steps, and a step writes what an older snapshot
allowed: `BookkeepingInv` says what a snapshot may still be trusted for, namely the
yards of the runs in it always (`YardsStand`) and everything in it as long as nobody
overtook (`SeenUnlessOvertaken`). A name is unique because a claim holds it before
any mission has it: `NamesHeld` says that of names in hand as well as of names
given, and that no two hands hold one. `MailMeetsTheHash` needs to know of every
chain of requests what it has read so far (`HashesHeld`). For the handoff,
`ReadsSound`, `LeavingSound` and `StationSound` say the same thing at three places
along its way: what travels was pressed for, and, where it says that it was checked,
the thing it checked was met since the press.

`NothingLost` needs to know, for each accepted instruction by itself, in which of its
places it is (`Kept`) and that a status and a place agree (`StatusInv`); that the
history drops only its oldest is the lemma on bounded appends. `DriveInv` follows the
motors through the places of the processor between a driver call and its end.

For `Recording`, two lemmas carry the rest: `Effects` lists, action by action, what a
step can do to each part of the state, and `GoesOn` says what no step takes back
(`Onward`: a recording that ended stays ended, a run that is over stays over, a run
noted for a recording stays noted). On them stand `TableInv` (what is open is in the
table, under its own name), `AnnounceInv` (a recording missing from an answer on its
way was closed when the answer was given), `OwnInv` (a run is noted for one recording,
of its own mission, and by the one press that sent it), `NotesInv` (a run queued for
upload was noted for a recording that is closed, and what the watcher still holds as
finished is not queued: this is why `UploadedOnce` holds although page and watcher
both queue) and `CauseInv` (what the watcher holds about a recording between its
question, its decision and the stop is still a cause when it stops it). The watcher's
pass is the hard part: between two of its steps everything else may happen, so every
fact it relies on is one that `GoesOn` keeps.

For `OperatorAccess`, a change is a sequence of writes, and the invariants say of each
place in the sequence what is still to come: where ledger and claim differ, the write
that makes them agree (`LedgerInv`); where somebody without a role still has tokens
that are not void, in a cookie or in a sign-in under way, the revocation that ends
them (`SessionInv`); while a claim that takes admin away is still to be written,
another admin (`AdminInv`). `SignInInv` says what a sign-in nobody overtook knows of
the account and the invite. The excuses are those of the properties, `torn` and
`overtaken`, and no others.

For the console, `HiddenIsSaid` rests on the lemma that a page which is not full has
everything: one document past the page is asked for, and a set that has an element
outside its newest n + 1 has more than n of them (`HasNewest`, `ShortPageIsAll`,
`FewAreNewest`, from the well-foundedness of finite sets). The pane needs only that a
delivered document is kept with the id it was asked for. For the reports,
`SpentInv` says that a poll's list never has what its console remembers, that a
console remembers what it was told, and that a console in use knows what its browser
kept: the last is why an overwritten key loses nothing of `kept`, and it needs that a
step puts no console in use but by opening it (`UsedBefore`). `PostedInv` that a request whose page is still there is the only one of that page,
which waits for it and has it on its list. Types are not inductive alone there: that
a posted report is the oldest of a list that is not empty (`HeadInv`), and that memory
and storage hold only reports of instructions there were (`KnownInv`), is needed on
top of that invariant for `ReportsTypeCorrect`. The type of the console is inductive by itself; those of the handoff and of the
delivery stand on the invariants above.

The strengthenings were model-checked on the instances of section 3, or on larger
ones, before they were proved.

*Model-checked only.* Everything temporal: liveness under fairness
(`EverythingSettles`, `ProcessorSurvives`, `ConsumerLeaves`, `EveryRecordingEnds`,
`PageLetsGo`, `EveryNoteSettles`, `ReportsGetRecorded`, `OpenMissionIsFound`,
`HandoffIsTried`) is out of the prover's reach, and so is what rests on `ENABLED`.
Every other
property of the runs has a theorem (the invariants, the action properties and the two
refinements), and so has the type invariant of every module.

## 5. Known divergences

Where a comment or a document of the repository promises more than the code keeps,
the promise is a definition of its own, and a configuration shows it violated.
They are run by hand: TLC prints the behaviour.

| Configuration (module) | Property | The promise, and what happens |
|---|---|---|
| `rover_stop_photo` (`MCRoverQueue`) | `RoverStopped` | `service.py:254`, "Queue cleared and rover stopped", and `MANUAL.md:63-64`, "It halts the rover immediately ... and breaks out of running code": the flag comes down after 0.1 s (248); a program in `take_photo` misses it and drives on |
| `rover_stop_turning` (`MCRoverQueue`) | `RoverStopped` | the same promise: Stop falls in the 0.2 s sleep after the brake, and the library then sets the motors (`vendor/rover.py:235-237`) |
| `rover_stop_twice` (`MCRoverQueue`) | `RoverStopped` | the same promise: one press takes down the flag of another |
| `rover_swallowed` (`MCRoverQueue`) | `ProgramsEnd` | `MANUAL.md:65`, 98, "longer than 2 minutes is stopped automatically", and `python_runner.py:74-76`, the trace lets Stop and the deadline "break out of loops": a program with a bare `except` catches the one interruption and loops on, untraced |
| `recording_unconsumed` (`Recording`) | `OpenMeansConsumed` | `recording_control.py:372`: an open recording without a consumer thread |
| `recording_restarted` (`Recording`) | `UploadsFilmTheirRun` | `mission_watcher.py:199`: a re-run's recording is closed and uploaded for the run before it |
| `recording_unfilmed` (`Recording`) | `RunsAreFilmed` | `run.js:450`: Stop during the second before Send dispatches: the run is sent with nothing recording |
| `upload_settled` (`UploadDelivery`) | `SettledStays` | `youtube_upload.py:197`: a settled note is overwritten by the watcher's older copy |
| `mission_pending` (`MCMissions`) | `OnlyEndedRunsHaveVideos` | `Mission.ts:233`, "a video on an unfinished run is one the learner watches while it reads Pending": an operator of a yard with no run attaches a video to a mission completed elsewhere, and the run made for it reads queued |
| `access_removal` (`MCAccess`) | `RemovedIsGone` | `OperatorTeamService.ts:109-112`, `dal.ts:72-75`: a removal killed after its first write is repeated, finds the role gone and answers "unchanged": the ledger entry and the session stay |
| `console_nothing` (`OperatorConsole`) | `NothingMeansNothing` | `MissionQueue.tsx:718` against the early return at 467: the screen says nothing is waiting, and the note about older missions is not reached |
| `reports_replayed` (`MCReports`) | `NotReplayed` | `roverReports.ts:62-64` and `useRoverReportedCompletions.ts:37-39` against 112-117: a poll that began before the mission was closed and reopened completes the new attempt with the old report |
| `handoff_not_sent` (`MissionHandoff`) | `NotSentMeansNotSent` | `AutomaticDispatch.tsx:665` says a mission was not sent while a handoff of it, checked by an earlier press, is on its way |
| `handoff_imported` (`MissionHandoff`) | `ImportsAreRead` | `run.js:69-71`, "a fallback import is read before it is sent": a waiting handoff runs what was pasted |
| `handoff_named` (`MissionHandoff`) | `RunsGoByTheirName` | `run.js:77-79`: a paste under a waiting handoff runs by the name of the mission before |
| `handoff_cached` (`MissionHandoff`) | `HandoffStarts` | `AutomaticDispatch.tsx:156`, "starts the mission once both are ready": the one try is spent on a snapshot or a first failure |

Seen while modelling, and stated at most as a definition: submitting and a later save
can both mail one queued mission (`MissionSubmission!QueuedMailOnce` is false); a
press of Send that `paintGate` enabled again sends the program twice (`run.js:271`,
403); granting the role somebody has rotates nothing, though
`OperatorAccount.ts:82-83` says a change of role does; two taps of an access request
are not one (`route.ts:12-13` of access requests); a background read of the panel
begun before a button's read may overwrite its answer (`AutomaticDispatch.tsx:238-241`).

## 6. Not modelled

- *Out of TLC's reach*: the simulator's floating-point physics, Blockly, rendering,
  infrastructure, scripts and `legacy/`; the camera's processes and devices, power.
- *Data rather than behaviour*: the text of mails, feedback and reasons; the wording
  of the desk's checks; the text searched for, counts and sorting of the console; the
  forms.
- *Left for later*: the rover's snapshots and event streams, the sweep's rules, the
  satellite's configuration file, discovery, the rate limiter, access requests, when
  the linking poll is due, the public feed, the duration rule of the two validators,
  the two steps of `camera_state`'s probing flag.
- *Within the modelled parts*: starting and stopping the rover's processor,
  `keep=False` of a recording, unreadable notes and their shared `.tmp` path,
  a power cut between `stop_recording` and `queue_upload`, entering the upload
  secret, a camera that stays connected and silent is allowed but not forced, the
  one-second stamp of file names (each recording has a file of its own), the
  third check of the handoff, that the satellite can record at all, and mails asked for
  by anything but the app's own pages: `MailMeetsTheHash` does not cover a bare POST to
  the notify route for a mission that carries no hash.

## 7. Plan

1. Done: the rover, the filming and the delivery of a run (`RoverQueue`,
   `Recording`, `RunVideo`, `UploadLedger`, `UploadDelivery`).
2. Done: Mission Control's missions, people, console and learners, and the handoff
   that joins it to the yard (`MissionBookkeeping`, `OperatorAccess`,
   `ReportedCompletions`, `OperatorConsole`, `MissionSubmission`, `MissionHandoff`).
3. Done: every type invariant, invariant, action property and refinement the runs
   check has a theorem; `RoverQueue` implements `RoverPromise`.
4. Left, modules: `RoverFeed` (what a watcher can miss in a window of ten), `Cleanup`
   (never a file being written), the configuration file, `RateLimiter`, and the
   duration rule as a function against a reference definition.

## 8. Running it

    tlc -workers 2 -config rover_queue.cfg MCRoverQueue
    tlc -workers 2 -config mission_handoff.cfg MissionHandoff
    tlc -workers 2 -config handoff_named.cfg MissionHandoff
    tlapm RoverQueueProofs.tla
    tlapm RecordingProofs.tla
