----------------------------- MODULE RoverQueue -----------------------------
(***************************************************************************)
(* The rover's instruction queue: one processor thread that pops and       *)
(* carries out instructions, and the HTTP threads that add instructions    *)
(* and press Stop (yard/rover/service.py), together with the supervised    *)
(* learner program (yard/rover/python_runner.py).                          *)
(*                                                                         *)
(* Stop is not a command to the processor.  It is a flag that is up for    *)
(* 0.1 s, which the processor sees only where it polls: each 50 ms inside  *)
(* a wait, and at each traced line of a learner program.  Every poll, and  *)
(* every step between two polls, is an action of its own.  Some calls poll *)
(* nothing and last longer than the flag is up, and a learner program that *)
(* catches its interruption is no longer traced: both are modelled, and    *)
(* what Stop promises is stated for the presses and programs it reaches.   *)
(*                                                                         *)
(* Instructions are numbered in the order the queue accepted them; the     *)
(* number stands for the uuid of the code.                                 *)
(***************************************************************************)
EXTENDS Naturals, Sequences

CONSTANTS
  MaxInstr,       \* bound: instructions the clients send in a behaviour
  Batches,        \* bound: the batches a /queue/add request may carry
  HistorySize,    \* maxlen of the history
  Calls,          \* what a line of a learner program may do
  Clears,         \* the presses of Stop, each one HTTP request
  Prompt,         \* outside a slow call, the processor polls in any 0.1 s
  FaultyDriver    \* a driver call may raise: an I2C error, or two threads
                  \* in _stop_spin_animation at once (drivers.py)

(* What an instruction asks for.  "rejected" is a run_python the validator *)
(* refuses, "malformed" one whose params is no object.                     *)
Commands == {"motion", "stop", "wait", "run_python", "rejected", "unknown",
             "malformed"}
AllCalls == {"drive", "halt", "sleep", "photo", "blocked"}

ASSUME RoverQueueAssumption ==
  /\ MaxInstr \in Nat
  /\ HistorySize \in Nat \ {0}
  /\ Batches \subseteq Seq(Commands) \ {<<>>}
  /\ Calls \subseteq AllCalls
  /\ Prompt \in BOOLEAN
  /\ FaultyDriver \in BOOLEAN

VARIABLES
  queue,          \* _queue: pending instructions
  history,        \* _history: finished instructions, oldest first
  current,        \* _current: what get_status reports as running
  cmd,            \* the command of each instruction
  status,         \* the status field of each instruction
  accepted,       \* how many instructions were accepted so far
  stopRequested,  \* the _stop_requested event
  pc,             \* where the processor thread is
  job,            \* the instruction the processor has in hand
  expired,        \* the deadline of the learner program has passed
  escaped,        \* programs that caught an interruption: untraced since
  motors,         \* the instruction that set the motors going, None if still
  clearPc,        \* where each press of Stop is
  (* Not in the code: what each press of Stop met. *)
  pressedAt,      \* how many instructions were accepted when Stop was pressed
  heard,          \* presses during which the processor has polled
  deaf            \* presses the processor need not have polled under

serviceVars == <<queue, history, current, cmd, status, accepted>>
processorVars == <<pc, job, expired, escaped>>
clearVars == <<clearPc, pressedAt, heard, deaf>>
vars == <<serviceVars, stopRequested, processorVars, motors, clearVars>>

None == 0
Ids == 1..MaxInstr

(***************************************************************************)
(* Where the processor thread can be.  At the Polling places it looks at   *)
(* the stop flag at least each 50 ms; the Quick places lie between two of  *)
(* those.  A Slow call polls nothing and may outlast the flag: take_photo, *)
(* the 0.2 s brake before the library drives the other way, and "blocked", *)
(* a call of the library that waits for the wheels, or a long builtin.     *)
(* UnderWay is everywhere else in an instruction until it is decided that  *)
(* the instruction ends.                                                   *)
(***************************************************************************)
Waiting == {"motion", "wait", "sleep"}
Polling == Waiting \cup {"python"}
Quick == {"popped", "begun", "drive", "halt"}
UnderWay == Polling \cup Quick
Slow == {"photo", "braking", "blocked"}
Ending == {"halting", "failed", "finishing", "recording", "recorded", "crashed"}
Places == UnderWay \cup Slow \cup Ending \cup {"poll"}

Statuses == {"new", "pending", "executing", "completed", "error", "cleared"}
Settled == {"completed", "error", "cleared"}

ClearPlaces == {"idle", "stopping", "emptying", "holding", "answered", "aborted"}
InProgress(c) == clearPc[c] \in {"stopping", "emptying", "holding"}

Elements(s) == {s[i] : i \in DOMAIN s}

(* Slip: a full history refuses the newest instruction. *)
PushUnlessFull(h, x) == IF Len(h) < HistorySize THEN Append(h, x) ELSE h

(* deque(maxlen=HistorySize).append *)
Push(h, x) ==
  IF Len(h) < HistorySize THEN Append(h, x) ELSE Append(Tail(h), x)

Init ==
  /\ queue = <<>>
  /\ history = <<>>
  /\ current = None
  /\ cmd = [i \in Ids |-> "unknown"]
  /\ status = [i \in Ids |-> "new"]
  /\ accepted = 0
  /\ stopRequested = FALSE
  /\ pc = "poll"
  /\ job = None
  /\ expired = FALSE
  /\ escaped = {}
  /\ motors = None
  /\ clearPc = [c \in Clears |-> "idle"]
  /\ pressedAt = [c \in Clears |-> 0]
  /\ heard = {}
  /\ deaf = {}

-----------------------------------------------------------------------------
(* Slip: appendleft for append, so a new batch overtakes the queue. *)
AddInFront(batch) ==
  /\ accepted + Len(batch) <= MaxInstr
  /\ queue' = [k \in 1..Len(batch) |-> accepted + k] \o queue
  /\ cmd' = [i \in Ids |-> IF i > accepted /\ i - accepted <= Len(batch)
                            THEN batch[i - accepted] ELSE cmd[i]]
  /\ status' = [i \in Ids |-> IF i > accepted /\ i - accepted <= Len(batch)
                               THEN "pending" ELSE status[i]]
  /\ accepted' = accepted + Len(batch)
  /\ UNCHANGED <<history, current, stopRequested, processorVars, motors,
                 clearVars>>

(* POST /queue/add: the whole batch is validated before any of it is       *)
(* queued; a batch holding a program the validator refuses adds nothing.   *)
AddInstructions(batch) ==
  LET new == (accepted + 1)..(accepted + Len(batch)) IN
  /\ accepted + Len(batch) <= MaxInstr
  /\ \A k \in DOMAIN batch : batch[k] # "rejected"
  /\ queue' = queue \o [k \in 1..Len(batch) |-> accepted + k]
  /\ cmd' = [i \in Ids |-> IF i \in new THEN batch[i - accepted] ELSE cmd[i]]
  /\ status' = [i \in Ids |-> IF i \in new THEN "pending" ELSE status[i]]
  /\ accepted' = accepted + Len(batch)
  /\ UNCHANGED <<history, current, stopRequested, processorVars, motors,
                 clearVars>>

(* POST /queue/clear, in the order clear_queue does it: flag up, motors    *)
(* off, queue emptied, 0.1 s, flag down.                                   *)
PressStop(c) ==
  /\ clearPc[c] = "idle"
  /\ stopRequested' = TRUE
  /\ clearPc' = [clearPc EXCEPT ![c] = "stopping"]
  /\ pressedAt' = [pressedAt EXCEPT ![c] = accepted]
  /\ deaf' = IF pc \in Slow THEN deaf \cup {c} ELSE deaf
  /\ UNCHANGED <<serviceVars, processorVars, motors, heard>>

ClearStopDriver(c) ==
  /\ clearPc[c] = "stopping"
  /\ motors' = None
  /\ clearPc' = [clearPc EXCEPT ![c] = "emptying"]
  /\ UNCHANGED <<serviceVars, stopRequested, processorVars, pressedAt, heard, deaf>>

(* driver.stop raises: the request ends in a 500 with the flag still up.   *)
ClearAborted(c) ==
  /\ FaultyDriver
  /\ clearPc[c] = "stopping"
  /\ clearPc' = [clearPc EXCEPT ![c] = "aborted"]
  /\ UNCHANGED <<serviceVars, stopRequested, processorVars, motors, pressedAt,
                 heard, deaf>>

(* Slip: clear_queue goes by the status instead of by what it took out. *)
ClearByStatus(c) ==
  /\ clearPc[c] = "emptying"
  /\ queue' = <<>>
  /\ status' = [i \in Ids |-> IF status[i] = "pending" THEN "cleared" ELSE status[i]]
  /\ clearPc' = [clearPc EXCEPT ![c] = "holding"]
  /\ UNCHANGED <<history, current, cmd, accepted, stopRequested, processorVars,
                 motors, pressedAt, heard, deaf>>

ClearEmptyQueue(c) ==
  /\ clearPc[c] = "emptying"
  /\ queue' = <<>>
  /\ status' = [i \in Ids |->
                  IF i \in Elements(queue) THEN "cleared" ELSE status[i]]
  /\ clearPc' = [clearPc EXCEPT ![c] = "holding"]
  /\ UNCHANGED <<history, current, cmd, accepted, stopRequested, processorVars,
                 motors, pressedAt, heard, deaf>>

(* What 0.1 s is enough for: a prompt processor has left a quick place, and *)
(* one that polls has polled.  Nothing of the kind is said of a press that  *)
(* met a slow call or whose flag another press took down, nor of a program  *)
(* that is no longer traced.                                                *)
PolledInTime(c) ==
  Prompt /\ c \notin deaf =>
    /\ pc \notin Quick
    /\ pc \in Polling => c \in heard \/ job \in escaped

(* The 0.1 s is over: the flag goes down and the request is answered.      *)
ClearLowerFlag(c) ==
  /\ clearPc[c] = "holding"
  /\ PolledInTime(c)
  /\ stopRequested' = FALSE
  /\ clearPc' = [clearPc EXCEPT ![c] = "answered"]
  /\ deaf' = deaf \cup {d \in Clears \ {c} : InProgress(d)}
  /\ UNCHANGED <<serviceVars, processorVars, motors, pressedAt, heard>>

-----------------------------------------------------------------------------
(* The processor goes on to place to.  The presses in progress when it     *)
(* enters a slow call may go by before it polls again.                     *)
GoTo(to) ==
  /\ pc' = to
  /\ deaf' = IF to \in Slow THEN deaf \cup {c \in Clears : InProgress(c)} ELSE deaf
  /\ UNCHANGED <<serviceVars, stopRequested, job, expired, clearPc, pressedAt>>

Hear == heard' = heard \cup {c \in Clears : InProgress(c)}

(* The processor looks at the flag and goes on to place to.                *)
Poll(to) ==
  /\ Hear
  /\ GoTo(to)
  /\ UNCHANGED <<escaped, motors>>

(* The processor goes from one place to another, doing nothing else to the *)
(* state.                                                                  *)
Move(to) ==
  /\ GoTo(to)
  /\ UNCHANGED <<escaped, motors, heard>>

SetMotors(owner, to) ==
  /\ motors' = owner
  /\ GoTo(to)
  /\ UNCHANGED <<escaped, heard>>

(* _process_queue: popleft under the lock, only while the flag is down. *)
Pop ==
  /\ pc = "poll"
  /\ ~stopRequested
  /\ queue # <<>>
  /\ job' = Head(queue)
  /\ queue' = Tail(queue)
  /\ pc' = "popped"
  /\ UNCHANGED <<history, current, cmd, status, accepted, stopRequested,
                 expired, escaped, motors, clearVars>>

Begin ==
  /\ pc = "popped"
  /\ cmd[job] # "malformed"
  /\ status' = [status EXCEPT ![job] = "executing"]
  /\ current' = job
  /\ expired' = FALSE
  /\ pc' = "begun"
  /\ UNCHANGED <<queue, history, cmd, accepted, stopRequested, job, escaped,
                 motors, clearVars>>

(* params.get raises before the instruction is marked executing: it leaves *)
(* _execute_instruction as it came, pending, and is nowhere any more.      *)
BeginMalformed ==
  /\ pc = "popped"
  /\ cmd[job] = "malformed"
  /\ Move("crashed")

(* A motion command starts the motors, and the wait raises at once if its  *)
(* seconds are no number; or it is refused for its speed.                  *)
StartMotion ==
  /\ pc = "begun"
  /\ cmd[job] = "motion"
  /\ \/ SetMotors(job, "motion")
     \/ SetMotors(job, "failed")
     \/ Move("failed")

(* Told to drive the other way, the library brakes first, and sleeps 0.2 s *)
(* before it sets the motors.                                              *)
Brake ==
  /\ pc = "drive" \/ (pc = "begun" /\ cmd[job] = "motion")
  /\ motors # None
  /\ SetMotors(None, "braking")

DriveAfterBrake ==
  /\ pc = "braking"
  /\ IF cmd[job] = "motion"
       THEN SetMotors(job, "motion") \/ SetMotors(job, "failed")
       ELSE SetMotors(job, "python")

StopCommand ==
  /\ pc = "begun"
  /\ cmd[job] = "stop"
  /\ \/ SetMotors(None, "finishing")
     \/ FaultyDriver /\ Move("failed")

StartWait ==
  /\ pc = "begun"
  /\ cmd[job] = "wait"
  /\ Move("wait") \/ Move("failed")

(* A command no branch knows falls through the chain and completes; one    *)
(* that cannot be looked up in the table, a list say, raises there.        *)
UnknownCommand ==
  /\ pc = "begun"
  /\ cmd[job] = "unknown"
  /\ Move("finishing") \/ Move("failed")

(* The program is compiled, which may raise, and started under the hook.   *)
StartProgram ==
  /\ pc = "begun"
  /\ cmd[job] = "run_python"
  /\ Move("python") \/ Move("failed")

(* What follows a wait, whether its time is up or the flag ended it.       *)
AfterWait ==
  CASE pc = "motion" -> "halting"
    [] pc = "wait" -> "finishing"
    [] pc = "sleep" -> "python"

WaitElapses ==
  /\ pc \in Waiting
  /\ Move(AfterWait)

(* _interruptible_wait polls each 50 ms and returns early when it sees the *)
(* flag.  The sleep of a learner program returns to the trace hook, which  *)
(* polls again at once: that is the poll that counts.                      *)
WaitPolls ==
  /\ pc \in Waiting
  /\ IF stopRequested
       THEN IF pc = "sleep" THEN Move("python") ELSE Poll(AfterWait)
       ELSE Poll(pc)

HaltAfterMotion ==
  /\ pc = "halting"
  /\ \/ SetMotors(None, "finishing")
     \/ FaultyDriver /\ Move("failed")

(* Slips: the trace hook looks at one of its two reasons only. *)
StopOnly == stopRequested
DeadlineOnly == expired

(* What the trace hook asks before each line of a learner program. *)
MustEnd == stopRequested \/ expired

(* A line of the learner program, the one after the last included: the    *)
(* trace hook looks at the flag and the deadline before it runs.           *)
ProgramLine ==
  /\ pc = "python"
  /\ job \notin escaped
  /\ ~MustEnd
  /\ \/ \E call \in Calls : Poll(call)
     \/ Poll("python")
     \/ Poll("failed")
     \/ Poll("finishing")

(* The hook raises StudentCodeInterrupted into the program, and it leaves  *)
(* the program.                                                            *)
ProgramInterrupted ==
  /\ pc = "python"
  /\ job \notin escaped
  /\ MustEnd
  /\ Poll("failed")

(* Or the program has a bare except and carries on.  The interpreter unset *)
(* the hook when it raised, so from here on no line looks at anything.     *)
InterruptionCaught ==
  /\ pc = "python"
  /\ job \notin escaped
  /\ MustEnd
  /\ escaped' = escaped \cup {job}
  /\ Hear
  /\ UNCHANGED <<serviceVars, stopRequested, pc, job, expired, motors, clearPc,
                 pressedAt, deaf>>

UntracedLine ==
  /\ pc = "python"
  /\ job \in escaped
  /\ \E to \in Calls \cup {"failed", "finishing"} : Move(to)

(* What raises inside a program, its except may catch as well: the program *)
(* goes on, traced as before.                                              *)
ProgramDrives ==
  /\ pc = "drive"
  /\ \/ SetMotors(job, "python")
     \/ Move("python")
     \/ Move("failed")

ProgramHalts ==
  /\ pc = "halt"
  /\ \/ SetMotors(None, "python")
     \/ FaultyDriver /\ (Move("python") \/ Move("failed"))

(* take_photo blocks for up to 20 s, then returns or raises. *)
PhotoReturns ==
  /\ pc = "photo"
  /\ \/ Move("python")
     \/ Move("failed")

(* The calls that step the wheels drive, and then wait for the wheels to   *)
(* have turned, which a rover that stands still never sees.  A builtin on  *)
(* a large argument takes its time, too.  Nothing makes them return.       *)
BlockedCall ==
  /\ pc = "blocked"
  /\ \/ SetMotors(job, "blocked")
     \/ \E to \in {"python", "failed"} : Move(to) \/ SetMotors(None, to)

(* The 120 s of a learner program are over. *)
DeadlinePasses ==
  /\ pc \in {"python", "drive", "halt", "sleep"} \cup Slow
  /\ cmd[job] = "run_python"
  /\ ~expired
  /\ expired' = TRUE
  /\ UNCHANGED <<serviceVars, stopRequested, pc, job, escaped, motors, clearVars>>

Settle(outcome, owner, to) ==
  /\ status' = [status EXCEPT ![job] = outcome]
  /\ motors' = owner
  /\ pc' = to
  /\ UNCHANGED <<queue, history, current, cmd, accepted, stopRequested, job,
                 expired, escaped, clearVars>>

Complete ==
  /\ pc = "finishing"
  /\ Settle("completed", motors, "recording")

(* Slip: the except branch forgets driver.stop(). *)
FailWithoutStop ==
  /\ pc = "failed"
  /\ Settle("error", motors, "recording")

(* The except branch: mark the error, then stop the motors.  When that     *)
(* raises too, the exception leaves _execute_instruction.                  *)
Fail ==
  /\ pc = "failed"
  /\ \/ Settle("error", None, "recording")
     \/ FaultyDriver /\ Settle("error", motors, "crashed")

RecordHistory ==
  /\ pc = "recording"
  /\ history' = Push(history, job)
  /\ pc' = "recorded"
  /\ UNCHANGED <<queue, current, cmd, status, accepted, stopRequested, job,
                 expired, escaped, motors, clearVars>>

ClearCurrent ==
  /\ pc = "recorded"
  /\ current' = None
  /\ job' = None
  /\ pc' = "poll"
  /\ UNCHANGED <<queue, history, cmd, status, accepted, stopRequested, expired,
                 escaped, motors, clearVars>>

(* Slip: no handler in _process_queue, and the thread ends. *)
ThreadDies ==
  /\ pc = "crashed"
  /\ FALSE
  /\ UNCHANGED vars

(* The handler of _process_queue: one more try at stopping the motors, and *)
(* back to the loop.  _current and the history are left as they are.       *)
Recover ==
  /\ pc = "crashed"
  /\ motors' \in {None, motors}
  /\ job' = None
  /\ pc' = "poll"
  /\ UNCHANGED <<serviceVars, stopRequested, expired, escaped, clearVars>>

Execute ==
  \/ Begin \/ BeginMalformed
  \/ StartMotion \/ StopCommand \/ StartWait \/ UnknownCommand \/ StartProgram
  \/ Brake \/ DriveAfterBrake
  \/ WaitElapses \/ WaitPolls \/ HaltAfterMotion
  \/ ProgramLine \/ ProgramInterrupted \/ InterruptionCaught \/ UntracedLine
  \/ ProgramDrives \/ ProgramHalts \/ PhotoReturns
  \/ Complete \/ Fail \/ RecordHistory \/ ClearCurrent \/ Recover

Clear(c) ==
  \/ ClearStopDriver(c) \/ ClearAborted(c) \/ ClearEmptyQueue(c)
  \/ ClearLowerFlag(c)

Next ==
  \/ \E batch \in Batches : AddInstructions(batch)
  \/ \E c \in Clears : PressStop(c) \/ Clear(c)
  \/ Pop
  \/ Execute
  \/ BlockedCall
  \/ DeadlinePasses

Spec == Init /\ [][Next]_vars

(***************************************************************************)
(* The processor thread and the requests that started keep running, and    *)
(* time passes; nobody has to send an instruction or press Stop, and a     *)
(* blocked call need not return.                                           *)
(***************************************************************************)
Fairness ==
  /\ WF_vars(Pop)
  /\ WF_vars(Execute)
  /\ WF_vars(DeadlinePasses)
  /\ \A c \in Clears : WF_vars(Clear(c))

FairSpec == Spec /\ Fairness

-----------------------------------------------------------------------------
TypeOK ==
  /\ queue \in Seq(Ids)
  /\ history \in Seq(Ids)
  /\ current \in Ids \cup {None}
  /\ cmd \in [Ids -> Commands]
  /\ status \in [Ids -> Statuses]
  /\ accepted \in 0..MaxInstr
  /\ stopRequested \in BOOLEAN
  /\ pc \in Places
  /\ job \in Ids \cup {None}
  /\ expired \in BOOLEAN
  /\ motors \in Ids \cup {None}
  /\ clearPc \in [Clears -> ClearPlaces]
  /\ pressedAt \in [Clears -> 0..MaxInstr]
  /\ escaped \in SUBSET Ids
  /\ heard \in SUBSET Clears
  /\ deaf \in SUBSET Clears

Increasing(s) == \A i, j \in DOMAIN s : i < j => s[i] < s[j]

InHand == pc \notin {"poll", "recorded"}

(* Instructions run one at a time, each at most once, in the order they    *)
(* were accepted: the history, the instruction in hand and the queue are   *)
(* one increasing line.  (popleft, append and the history's append meet    *)
(* under _queue_lock only, each in a critical section of its own.)         *)
InOrder ==
  /\ Increasing(history)
  /\ Increasing(queue)
  /\ \A h \in Elements(history), q \in Elements(queue) : h < q
  /\ InHand => /\ \A h \in Elements(history) : h < job
               /\ \A q \in Elements(queue) : job < q

(* No instruction is lost between those critical sections: one accepted    *)
(* and not settled is in the queue or in hand, and one that ran is in the  *)
(* history, until newer ones push it out.  Two are lost without a trace:   *)
(* one whose params is no object (BeginMalformed), and one whose failure   *)
(* meets a driver that raises as well (Fail, then Recover).                *)
NothingLost ==
  \A i \in 1..accepted : cmd[i] # "malformed" =>
    \/ status[i] = "pending" /\ i \in Elements(queue) \cup {job}
    \/ status[i] = "executing" /\ i = job /\ current = i
    \/ status[i] = "cleared"
    \/ /\ status[i] \in {"completed", "error"}
       /\ \/ i = job
          \/ i \in Elements(history)
          \/ Len(history) = HistorySize /\ i < history[1]

(* What the answer of a press of Stop can speak for: what was accepted     *)
(* before it, but for programs that caught an interruption.                *)
Before(c) == (1..pressedAt[c]) \ escaped

(* Once a press of Stop has answered "Queue cleared and rover stopped",    *)
(* nothing that was accepted before it was pressed still waits.  And when  *)
(* no slow call was under way during the press, and no other press took    *)
(* its flag down, nothing of before is under way, and if it still has the  *)
(* motors on, the next thing the processor does is to stop them.           *)
StopHolds ==
  \A c \in Clears : clearPc[c] = "answered" =>
    /\ 1..pressedAt[c] \cap Elements(queue) = {}
    /\ c \notin deaf =>
         /\ job \in Before(c) => pc \notin UnderWay \cup Slow
         /\ motors \in Before(c) => pc \in {"halting", "failed"} /\ job = motors

(* The same promise as an action property: after such an answer, nothing   *)
(* accepted before the press sets the motors going.                        *)
NothingMovesAfterStop ==
  [][\A c \in Clears \ deaf : clearPc[c] = "answered" /\ motors' # motors
                                 => motors' \notin Before(c)]_vars

(* What the answer says, and the code does not keep: whatever the calls    *)
(* and the presses, nothing of before moves after "rover stopped".         *)
RoverStopped ==
  [][\A c \in Clears : clearPc[c] = "answered" /\ motors' # motors
                          => motors' \notin Before(c)]_vars

(* The flag goes back down: it is up only while a press is being handled,  *)
(* so that the queue is never left unserved (an aborted press aside).      *)
FlagReleased ==
  stopRequested => \E c \in Clears : InProgress(c) \/ clearPc[c] = "aborted"

(* Motors that run belong to the instruction in hand, or to a learner      *)
(* program that ended without stopping them: no other command, and no      *)
(* error, timeout or interruption leaves the rover driving.                *)
OnlyCompletedProgramsDriveOn ==
  motors # None =>
    \/ motors = job /\ pc \notin {"recorded", "poll"}
    \/ cmd[motors] = "run_python" /\ status[motors] = "completed"

(* What has become of each instruction.  A malformed one is lost from       *)
(* where it is popped, though its status stays pending for ever.           *)
Shown ==
  [i \in Ids |-> IF status[i] = "pending" /\ cmd[i] = "malformed" /\ i \notin Elements(queue)
                 THEN "lost" ELSE status[i]]

Promise == INSTANCE RoverPromise WITH state <- Shown

(* The queue, its threads and its flag do what RoverPromise says: whatever *)
(* raises and whichever presses overlap, instructions are begun one at a   *)
(* time, once each and in the order they were sent, a press cancels all    *)
(* that wait but the one popped before it, and nothing but an instruction  *)
(* being carried out sets the motors going.                                *)
KeepsRoverPromise == Promise!Spec

(* A learner program can keep the processor: in a call that never returns, *)
(* or for ever once it has caught its interruption.                        *)
Stuck == pc = "blocked" \/ job \in escaped

(* Every accepted instruction, the malformed ones aside, is settled in the *)
(* end, whatever Stop does and however long a learner program would loop,  *)
(* unless one keeps the processor in one of those two ways.                *)
EverythingSettles ==
  \/ <>[]Stuck
  \/ \A i \in Ids : i <= accepted /\ cmd[i] # "malformed" ~> status[i] \in Settled

(* The processor comes back for the next instruction, whatever the driver  *)
(* raises and wherever Stop meets it, unless a program keeps it.           *)
ProcessorSurvives == <>[]Stuck \/ ((pc # "poll") ~> (pc = "poll"))

(* What the manual says of a program that loops for ever, and the code     *)
(* does not keep: it stops after two minutes at the latest.                *)
ProgramsEnd ==
  \A i \in Ids : cmd[i] = "run_python" /\ status[i] = "executing"
                    ~> status[i] \in Settled
=============================================================================
