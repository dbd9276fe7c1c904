-------------------------- MODULE RoverQueueProofs --------------------------
(***************************************************************************)
(* What holds of RoverQueue for any number of instructions, any batches,   *)
(* any history size and any presses of Stop.                               *)
(***************************************************************************)
EXTENDS RoverQueue, TLAPS

USE RoverQueueAssumption DEF GoTo, Hear

-----------------------------------------------------------------------------
(* The deque operations, as facts about sequences of instructions.         *)

LEMMA PushType ==
  ASSUME NEW S, NEW h \in Seq(S), NEW x \in S
  PROVE  Push(h, x) \in Seq(S)
  <1>1. CASE Len(h) < HistorySize
    BY <1>1 DEF Push
  <1>2. CASE ~(Len(h) < HistorySize)
    <2>1. h # <<>>
      BY <1>2
    <2>2. Append(Tail(h), x) \in Seq(S)
      BY <2>1
    <2> QED
      BY <1>2, <2>2 DEF Push
  <1> QED
    BY <1>1, <1>2

(* Pushing something greater than all keeps the history increasing, and    *)
(* adds nothing else to it.                                                *)
LEMMA PushIncreasing ==
  ASSUME NEW h \in Seq(Nat), NEW x \in Nat,
         Increasing(h), \A y \in Elements(h) : y < x
  PROVE  /\ Increasing(Push(h, x))
         /\ Elements(Push(h, x)) \subseteq Elements(h) \cup {x}
  <1>1. CASE Len(h) < HistorySize
    BY <1>1 DEF Push, Increasing, Elements
  <1>2. CASE ~(Len(h) < HistorySize)
    <2>1. h # <<>>
      BY <1>2
    <2> DEFINE t == Append(Tail(h), x)
    <2>2. t \in Seq(Nat) /\ Len(t) = Len(h)
      BY <2>1
    <2>3. \A i \in 1..Len(h) : t[i] = IF i < Len(h) THEN h[i + 1] ELSE x
      BY <2>1
    <2>4. \A k \in 1..Len(h) : h[k] \in Nat /\ h[k] \in Elements(h)
      BY DEF Elements
    <2> HIDE DEF t
    <2>5. ASSUME NEW i \in 1..Len(h), NEW j \in 1..Len(h), i < j
          PROVE  t[i] < t[j]
      <3>1. /\ i \in Nat /\ j \in Nat /\ i < Len(h)
            /\ i + 1 \in 1..Len(h) /\ t[i] = h[i + 1]
        BY <2>3, <2>5
      <3>2. CASE j < Len(h)
        <4>1. j + 1 \in 1..Len(h) /\ t[j] = h[j + 1] /\ i + 1 < j + 1
          BY <2>3, <2>5, <3>1, <3>2
        <4> QED
          BY <3>1, <4>1 DEF Increasing
      <3>3. CASE ~(j < Len(h))
        <4>1. t[j] = x
          BY <2>3, <3>3
        <4> QED
          BY <2>4, <3>1, <4>1
      <3> QED
        BY <3>2, <3>3
    <2>6. DOMAIN t = 1..Len(h)
      BY <2>2
    <2>7. Increasing(t)
      BY <2>5, <2>6 DEF Increasing
    <2>8. Elements(t) \subseteq Elements(h) \cup {x}
      <3>1. ASSUME NEW i \in 1..Len(h)
            PROVE  t[i] \in Elements(h) \cup {x}
        BY <2>3, <3>1 DEF Elements
      <3> QED
        BY <2>6, <3>1 DEF Elements
    <2> QED
      BY <1>2, <2>7, <2>8 DEF Push, t
  <1> QED
    BY <1>1, <1>2

LEMMA TailIncreasing ==
  ASSUME NEW S, NEW q \in Seq(S), q # <<>>, S \subseteq Nat, Increasing(q)
  PROVE  /\ Tail(q) \in Seq(S)
         /\ Head(q) \in Elements(q)
         /\ Elements(q) \subseteq S
         /\ Increasing(Tail(q))
         /\ Elements(Tail(q)) \subseteq Elements(q)
         /\ \A y \in Elements(Tail(q)) : Head(q) < y
  <1> DEFINE t == Tail(q)
  <1>1. /\ t \in Seq(S)
        /\ Len(t) = Len(q) - 1
        /\ \A i \in 1..Len(t) : t[i] = q[i + 1]
        /\ Head(q) = q[1]
        /\ Len(q) \in Nat \ {0}
    OBVIOUS
  <1>2. DOMAIN t = 1..Len(t) /\ DOMAIN q = 1..Len(q)
    BY <1>1
  <1> HIDE DEF t
  <1>3. Increasing(t)
    <2> SUFFICES ASSUME NEW i \in 1..Len(t), NEW j \in 1..Len(t), i < j
                 PROVE  t[i] < t[j]
      BY <1>2 DEF Increasing
    <2>1. i + 1 \in DOMAIN q /\ j + 1 \in DOMAIN q /\ i + 1 < j + 1
      BY <1>1, <1>2
    <2>2. q[i + 1] < q[j + 1]
      BY <2>1 DEF Increasing
    <2> QED
      BY <1>1, <2>2
  <1>4. Elements(t) \subseteq Elements(q)
    BY <1>1, <1>2 DEF Elements
  <1>5. ASSUME NEW y \in Elements(t)
        PROVE  Head(q) < y
    <2>1. PICK i \in 1..Len(t) : y = t[i]
      BY <1>2, <1>5 DEF Elements
    <2> QED
      BY <1>1, <1>2, <2>1 DEF Increasing
  <1>6. Head(q) \in Elements(q) /\ Elements(q) \subseteq S
    BY <1>1, <1>2 DEF Elements
  <1> QED
    BY <1>1, <1>3, <1>4, <1>5, <1>6 DEF t

(* Appending the batch numbered a+1, ..., a+n to a queue numbered up to a. *)
LEMMA BatchIncreasing ==
  ASSUME NEW q \in Seq(Nat), NEW a \in Nat, NEW n \in Nat,
         Increasing(q), \A y \in Elements(q) : y <= a
  PROVE  LET t == q \o [k \in 1..n |-> a + k] IN
         /\ Increasing(t)
         /\ Elements(t) = Elements(q) \cup (a + 1)..(a + n)
  <1> DEFINE b == [k \in 1..n |-> a + k]
             t == q \o b
  <1>1. b \in Seq(Nat) /\ Len(b) = n
    OBVIOUS
  <1>2. /\ t \in Seq(Nat)
        /\ Len(t) = Len(q) + n
        /\ \A i \in 1..(Len(q) + n) : t[i] = IF i <= Len(q) THEN q[i] ELSE b[i - Len(q)]
    BY <1>1
  <1>3. \A i \in 1..(Len(q) + n) :
          t[i] = IF i <= Len(q) THEN q[i] ELSE a + (i - Len(q))
    <2> SUFFICES ASSUME NEW i \in 1..(Len(q) + n), i > Len(q)
                 PROVE  b[i - Len(q)] = a + (i - Len(q))
      BY <1>2
    <2>1. i - Len(q) \in 1..n
      OBVIOUS
    <2> QED
      BY <2>1
  <1>4. DOMAIN t = 1..(Len(q) + n) /\ DOMAIN q = 1..Len(q)
    BY <1>2
  <1> HIDE DEF t
  <1>5. \A i \in 1..Len(q) : q[i] \in Nat /\ q[i] \in Elements(q) /\ q[i] <= a
    <2> SUFFICES ASSUME NEW i \in 1..Len(q)
                 PROVE  q[i] \in Nat /\ q[i] \in Elements(q) /\ q[i] <= a
      OBVIOUS
    <2>1. q[i] \in Elements(q)
      BY <1>4 DEF Elements
    <2> QED
      BY <2>1
  <1>6. Increasing(t)
    <2> SUFFICES ASSUME NEW i \in 1..(Len(q) + n), NEW j \in 1..(Len(q) + n), i < j
                 PROVE  t[i] < t[j]
      BY <1>4 DEF Increasing
    <2>1. CASE j <= Len(q)
      BY <1>3, <1>4, <2>1 DEF Increasing
    <2>2. CASE i <= Len(q) /\ j > Len(q)
      BY <1>3, <1>5, <2>2
    <2>3. CASE i > Len(q)
      BY <1>3, <2>3
    <2> QED
      BY <2>1, <2>2, <2>3
  <1>7. ASSUME NEW x \in Elements(t)
        PROVE  x \in Elements(q) \cup (a + 1)..(a + n)
    <2>1. PICK i \in 1..(Len(q) + n) : x = t[i]
      BY <1>4, <1>7 DEF Elements
    <2> QED
      BY <1>3, <1>5, <2>1
  <1>8. ASSUME NEW x \in Elements(q)
        PROVE  x \in Elements(t)
    <2>1. PICK i \in 1..Len(q) : x = q[i]
      BY <1>4, <1>8 DEF Elements
    <2>2. i \in 1..(Len(q) + n) /\ t[i] = x
      BY <1>3, <2>1
    <2> QED
      BY <1>4, <2>2 DEF Elements
  <1>9. ASSUME NEW x \in (a + 1)..(a + n)
        PROVE  x \in Elements(t)
    <2>1. (x - a) + Len(q) \in 1..(Len(q) + n) /\ t[(x - a) + Len(q)] = x
      BY <1>3
    <2> QED
      BY <1>4, <2>1 DEF Elements
  <1> QED
    BY <1>6, <1>7, <1>8, <1>9 DEF t

-----------------------------------------------------------------------------
(* Type correctness.  The processor holds a real instruction whenever it   *)
(* acts on one.                                                            *)
TypeInv ==
  /\ TypeOK
  /\ InHand => job \in Ids

LEMMA BatchType ==
  ASSUME NEW batch \in Batches, TypeOK, accepted + Len(batch) <= MaxInstr
  PROVE  /\ Len(batch) \in Nat \ {0}
         /\ \A k \in 1..Len(batch) : batch[k] \in Commands
         /\ queue \o [k \in 1..Len(batch) |-> accepted + k] \in Seq(Ids)
  <1>1. batch \in Seq(Commands) \ {<<>>}
    OBVIOUS
  <1>2. Len(batch) \in Nat \ {0} /\ \A k \in 1..Len(batch) : batch[k] \in Commands
    BY <1>1
  <1>3. [k \in 1..Len(batch) |-> accepted + k] \in Seq(Ids)
    BY <1>2 DEF TypeOK, Ids
  <1> QED
    BY <1>2, <1>3 DEF TypeOK

LEMMA TypeStep == TypeInv /\ [Next]_vars => TypeInv'
  <1> SUFFICES ASSUME TypeInv, [Next]_vars
               PROVE  TypeInv'
    OBVIOUS
  <1> USE DEF TypeInv, TypeOK, InHand, None, Places, UnderWay, Polling, Quick, Slow, Waiting,
              Ending, Statuses, ClearPlaces, serviceVars, processorVars, clearVars
  <1>1. ASSUME NEW batch \in Batches, AddInstructions(batch)
        PROVE  TypeInv'
    <2>1. accepted + Len(batch) <= MaxInstr
      BY <1>1 DEF AddInstructions
    <2>2. /\ Len(batch) \in Nat \ {0}
          /\ \A k \in 1..Len(batch) : batch[k] \in Commands
          /\ queue' \in Seq(Ids)
      BY <1>1, <2>1, BatchType DEF AddInstructions
    <2>3. accepted' \in 0..MaxInstr
      BY <1>1, <2>1, <2>2 DEF AddInstructions
    <2>4. cmd' \in [Ids -> Commands] /\ status' \in [Ids -> Statuses]
      <3>1. \A i \in Ids : i \in (accepted + 1)..(accepted + Len(batch))
                             => i - accepted \in 1..Len(batch)
        BY <2>2 DEF Ids
      <3> QED
        BY <1>1, <2>2, <3>1 DEF AddInstructions
    <2> QED
      BY <1>1, <2>2, <2>3, <2>4 DEF AddInstructions
  <1>2. ASSUME NEW c \in Clears, PressStop(c)
        PROVE  TypeInv'
    BY <1>2 DEF PressStop
  <1>3. ASSUME NEW c \in Clears, Clear(c)
        PROVE  TypeInv'
    <2>1. CASE ClearStopDriver(c)
      BY <2>1 DEF ClearStopDriver
    <2>2. CASE ClearAborted(c)
      BY <2>2 DEF ClearAborted
    <2>3. CASE ClearEmptyQueue(c)
      BY <2>3 DEF ClearEmptyQueue
    <2>4. CASE ClearLowerFlag(c)
      BY <2>4 DEF ClearLowerFlag
    <2> QED
      BY <1>3, <2>1, <2>2, <2>3, <2>4 DEF Clear
  <1>4. CASE Pop
    <2>1. Head(queue) \in Ids /\ Tail(queue) \in Seq(Ids)
      BY <1>4 DEF Pop
    <2> QED
      BY <1>4, <2>1 DEF Pop
  <1>5. CASE Execute
    <2>1. CASE Begin \/ BeginMalformed
      BY <2>1 DEF Begin, BeginMalformed, Move
    <2>2. CASE StartMotion \/ StopCommand \/ StartWait \/ UnknownCommand \/ StartProgram
      BY <2>2 DEF StartMotion, StopCommand, StartWait, UnknownCommand, StartProgram,
                  SetMotors, Move
    <2>3. CASE WaitElapses \/ WaitPolls
      BY <2>3 DEF WaitElapses, WaitPolls, AfterWait, Move, Poll
    <2>4. CASE HaltAfterMotion \/ ProgramDrives \/ ProgramHalts \/ PhotoReturns
               \/ Brake \/ DriveAfterBrake
      BY <2>4 DEF HaltAfterMotion, ProgramDrives, ProgramHalts, PhotoReturns, Brake,
                  DriveAfterBrake, SetMotors, Move
    <2>5. CASE ProgramLine \/ ProgramInterrupted \/ InterruptionCaught \/ UntracedLine
      BY <2>5 DEF ProgramLine, ProgramInterrupted, InterruptionCaught, UntracedLine, AllCalls,
                  Poll, Move
    <2>6. CASE Complete \/ Fail
      BY <2>6 DEF Complete, Fail, Settle
    <2>7. CASE RecordHistory
      <3>1. Push(history, job) \in Seq(Ids)
        BY <2>7, PushType DEF RecordHistory
      <3> QED
        BY <2>7, <3>1 DEF RecordHistory
    <2>8. CASE ClearCurrent \/ Recover
      BY <2>8 DEF ClearCurrent, Recover
    <2> QED
      BY <1>5, <2>1, <2>2, <2>3, <2>4, <2>5, <2>6, <2>7, <2>8 DEF Execute
  <1>6. CASE BlockedCall \/ DeadlinePasses
    BY <1>6 DEF BlockedCall, DeadlinePasses, SetMotors, Move
  <1>7. CASE UNCHANGED vars
    BY <1>7 DEF vars
  <1> QED
    BY <1>1, <1>2, <1>3, <1>4, <1>5, <1>6, <1>7 DEF Next

LEMMA TypeInit == Init => TypeInv
  <1> SUFFICES ASSUME Init
               PROVE  TypeInv
    OBVIOUS
  <1>1. queue \in Seq(Ids) /\ history \in Seq(Ids)
    BY DEF Init
  <1>2. accepted \in 0..MaxInstr /\ pressedAt \in [Clears -> 0..MaxInstr]
    BY DEF Init
  <1>3. cmd \in [Ids -> Commands] /\ status \in [Ids -> Statuses]
    BY DEF Init, Commands, Statuses
  <1> QED
    BY <1>1, <1>2, <1>3 DEF Init, TypeInv, TypeOK, InHand, None, Places, UnderWay, Polling,
       Quick, Slow, Waiting, Ending, ClearPlaces

LEMMA TypeInvariant == Spec => []TypeInv
  BY TypeInit, TypeStep, PTL DEF Spec

(* The fields of the queue service, and the places of its threads, keep    *)
(* their types (service.py, RoverQueueService.__init__).                   *)
THEOREM TypeCorrect == Spec => []TypeOK
  <1>1. TypeInv => TypeOK
    BY DEF TypeInv
  <1> QED
    BY <1>1, TypeInvariant, PTL

-----------------------------------------------------------------------------
(* Order.  InOrder is not inductive: a batch goes behind everything only   *)
(* because nothing in the queue or in hand is numbered beyond accepted,    *)
(* and the history takes the instruction in hand while it still is job.    *)
OrderInv ==
  /\ TypeInv
  /\ InOrder
  /\ Elements(queue) \subseteq 1..accepted
  /\ pc # "poll" => job \in 1..accepted
  /\ pc = "recorded" => /\ \A h \in Elements(history) : h <= job
                        /\ \A q \in Elements(queue) : job < q
  /\ Elements(history) \subseteq 1..accepted

LEMMA SeqOfIds == ASSUME NEW s \in Seq(Ids)
                  PROVE  s \in Seq(Nat) /\ Elements(s) \subseteq Ids
  BY DEF Ids, Elements

(* The steps that leave the queue, the history and the instruction in hand *)
(* where they are.                                                         *)
LEMMA OrderKept ==
  ASSUME OrderInv, TypeInv', UNCHANGED <<queue, history, accepted, job>>,
         pc' \notin {"poll", "recorded"}, pc \notin {"poll", "recorded"} \/ pc' = pc
  PROVE  OrderInv'
  BY DEF OrderInv, InOrder, InHand, Elements, Increasing

LEMMA OrderStep == OrderInv /\ TypeInv' /\ [Next]_vars => OrderInv'
  <1> SUFFICES ASSUME OrderInv, TypeInv', [Next]_vars
               PROVE  OrderInv'
    OBVIOUS
  <1> USE DEF serviceVars, processorVars, clearVars, InHand
  <1>0. /\ queue \in Seq(Ids) /\ history \in Seq(Ids) /\ accepted \in Nat
        /\ queue \in Seq(Nat) /\ history \in Seq(Nat)
        /\ job \in Nat
    BY SeqOfIds DEF OrderInv, TypeInv, TypeOK, Ids, None
  <1>1. ASSUME NEW batch \in Batches, AddInstructions(batch)
        PROVE  OrderInv'
    <2>1. accepted + Len(batch) <= MaxInstr
      BY <1>1 DEF AddInstructions
    <2>2. Len(batch) \in Nat
      BY <2>1, BatchType DEF OrderInv, TypeInv
    <2>3. /\ Increasing(queue')
          /\ Elements(queue') = Elements(queue) \cup (accepted + 1)..(accepted + Len(batch))
      <3>1. \A y \in Elements(queue) : y <= accepted
        BY DEF OrderInv
      <3> QED
        BY <1>0, <1>1, <2>2, <3>1, BatchIncreasing DEF AddInstructions, OrderInv, InOrder
    <2>4. /\ accepted' = accepted + Len(batch)
          /\ UNCHANGED <<history, job, pc>>
      BY <1>1 DEF AddInstructions
    <2> HIDE DEF InHand
    <2>5. Elements(history) = Elements(history)' /\ InHand' = InHand
      BY <2>4 DEF Elements, InHand
    <2> QED
      BY <1>0, <2>2, <2>3, <2>4, <2>5 DEF OrderInv, InOrder, Increasing, InHand
  <1>2. ASSUME NEW c \in Clears, PressStop(c) \/ ClearStopDriver(c) \/ ClearAborted(c)
                                 \/ ClearLowerFlag(c)
        PROVE  OrderInv'
    BY <1>2 DEF PressStop, ClearStopDriver, ClearAborted, ClearLowerFlag, OrderInv, InOrder,
                Elements, Increasing
  <1>3. ASSUME NEW c \in Clears, ClearEmptyQueue(c)
        PROVE  OrderInv'
    <2>1. queue' = <<>> /\ UNCHANGED <<history, accepted, job, pc>>
      BY <1>3 DEF ClearEmptyQueue
    <2>2. Increasing(<<>>) /\ Elements(<<>>) = {}
      BY DEF Increasing, Elements
    <2> QED
      BY <2>1, <2>2 DEF OrderInv, InOrder, Elements, Increasing
  <1>4. CASE Pop
    <2> DEFINE h == Head(queue)
    <2>1. /\ queue' = Tail(queue) /\ job' = h /\ pc' = "popped" /\ queue # <<>> /\ pc = "poll"
          /\ UNCHANGED <<history, accepted>>
      BY <1>4 DEF Pop
    <2>2. /\ h \in Elements(queue)
          /\ Increasing(queue')
          /\ Elements(queue') \subseteq Elements(queue)
          /\ \A y \in Elements(queue') : h < y
      BY <1>0, <2>1, TailIncreasing DEF OrderInv, InOrder
    <2>3. Elements(history') = Elements(history)
      BY <2>1 DEF Elements
    <2> HIDE DEF h
    <2> QED
      BY <1>0, <2>1, <2>2, <2>3 DEF OrderInv, InOrder
  <1>5. CASE RecordHistory
    <2>1. /\ history' = Push(history, job) /\ pc = "recording" /\ pc' = "recorded"
          /\ UNCHANGED <<queue, accepted, job>>
      BY <1>5 DEF RecordHistory
    <2>2. /\ Increasing(history) /\ job \in 1..accepted
          /\ \A h \in Elements(history) : h < job
          /\ \A q \in Elements(queue) : job < q
      BY <2>1 DEF OrderInv, InOrder
    <2>3. /\ Increasing(history')
          /\ Elements(history') \subseteq Elements(history) \cup {job}
      BY <1>0, <2>1, <2>2, PushIncreasing
    <2>4. \A h \in Elements(history) : h \in Nat
      BY <1>0, SeqOfIds DEF Ids
    <2>5. Elements(queue') = Elements(queue) /\ Increasing(queue')
      BY <2>1 DEF Elements, OrderInv, InOrder
    <2> QED
      BY <1>0, <2>1, <2>2, <2>3, <2>4, <2>5 DEF OrderInv, InOrder
  <1>6. CASE ClearCurrent \/ Recover
    <2>1. /\ pc' = "poll" /\ UNCHANGED <<queue, history, accepted>>
      BY <1>6 DEF ClearCurrent, Recover
    <2> QED
      BY <2>1 DEF OrderInv, InOrder, Elements, Increasing
  <1>7. CASE \/ Begin \/ BeginMalformed \/ WaitElapses \/ WaitPolls
             \/ HaltAfterMotion \/ PhotoReturns
             \/ BlockedCall \/ Brake \/ DriveAfterBrake
             \/ StartMotion \/ StopCommand \/ StartWait \/ UnknownCommand \/ StartProgram
             \/ ProgramLine \/ ProgramInterrupted \/ InterruptionCaught \/ UntracedLine
             \/ ProgramDrives \/ ProgramHalts
             \/ Complete \/ Fail \/ DeadlinePasses
    <2>1. UNCHANGED <<queue, history, accepted, job>>
      BY <1>7 DEF Begin, BeginMalformed, WaitElapses, WaitPolls, HaltAfterMotion,
         PhotoReturns, BlockedCall, Brake, DriveAfterBrake, StartMotion,
         StopCommand, StartWait, UnknownCommand, StartProgram, ProgramLine,
         ProgramInterrupted, InterruptionCaught, UntracedLine,
         ProgramDrives, ProgramHalts, Complete, Fail, DeadlinePasses, Move, SetMotors, Poll,
         Settle
    <2>2. pc \notin {"poll", "recorded"}
      BY <1>7 DEF Begin, BeginMalformed, WaitElapses, WaitPolls, HaltAfterMotion,
         PhotoReturns, BlockedCall, Brake, DriveAfterBrake, StartMotion,
         StopCommand, StartWait, UnknownCommand, StartProgram, ProgramLine,
         ProgramInterrupted, InterruptionCaught, UntracedLine,
         ProgramDrives, ProgramHalts, Complete, Fail, DeadlinePasses, Waiting, Slow
    <2>3. pc' \notin {"poll", "recorded"}
      BY <1>7 DEF Begin, BeginMalformed, WaitElapses, WaitPolls, HaltAfterMotion,
         PhotoReturns, BlockedCall, Brake, DriveAfterBrake, StartMotion,
         StopCommand, StartWait, UnknownCommand, StartProgram, ProgramLine,
         ProgramInterrupted, InterruptionCaught, UntracedLine,
         ProgramDrives, ProgramHalts, Complete, Fail, DeadlinePasses, Move, SetMotors, Poll,
         Settle, AfterWait, Waiting, Slow, AllCalls
    <2> QED
      BY <2>1, <2>2, <2>3, OrderKept
  <1>8. CASE UNCHANGED vars
    BY <1>8 DEF vars, OrderInv, InOrder, Elements, Increasing
  <1> QED
    BY <1>1, <1>2, <1>3, <1>4, <1>5, <1>6, <1>7, <1>8 DEF Next, Execute, Clear

LEMMA OrderInit == Init => OrderInv
  <1> SUFFICES ASSUME Init
               PROVE  OrderInv
    OBVIOUS
  <1>1. Increasing(<<>>) /\ Elements(<<>>) = {}
    BY DEF Increasing, Elements
  <1> QED
    BY <1>1, TypeInit DEF Init, OrderInv, InOrder, InHand

LEMMA OrderInvariant == Spec => []OrderInv
  BY OrderInit, OrderStep, TypeInvariant, PTL DEF Spec

(* Every instruction the queue accepted runs at most once, and they run in *)
(* the order they were accepted in, however the requests, the presses of   *)
(* Stop and the faults of the driver fall (the three critical sections of  *)
(* service.py on _queue_lock).                                             *)
THEOREM RunsInOrder == Spec => []InOrder
  <1>1. OrderInv => InOrder
    BY DEF OrderInv
  <1> QED
    BY <1>1, OrderInvariant, PTL

-----------------------------------------------------------------------------
(* Stop.  What clear_queue promises rests on a processor that polls within *)
(* the 0.1 s wherever it polls at all, and on a driver that does not raise *)
(* out of the request or out of the except branch.  There is no limit on   *)
(* the calls, the presses or the programs: a slow call, an overlap and a   *)
(* caught interruption are named in what is promised.                      *)
StopAssumption == Prompt /\ ~FaultyDriver

(* Where an instruction with the motors on can be while the flag is up.    *)
Driving == {"motion", "python", "sleep", "drive", "halt", "halting", "failed"}

(* While a press is in progress its flag is up, unless another one took it *)
(* down; and the processor is in no slow call, unless it is one that was   *)
(* under way during the press.                                             *)
FlagIsUp ==
  \A c \in Clears \ deaf : InProgress(c) => stopRequested /\ pc \notin Slow

(* Who polled under a flag that stays up has decided to end.               *)
PollEndsInstruction ==
  \A c \in heard \ deaf :
    InProgress(c) => pc \notin UnderWay \/ job \in escaped

NotBeforePressed ==
  \A c \in heard \cup deaf : clearPc[c] # "idle"

QueueIsNew ==
  \A c \in Clears :
    /\ pressedAt[c] <= accepted
    /\ clearPc[c] \in {"holding", "answered"}
         => \A q \in Elements(queue) : pressedAt[c] < q

OldJobIsEnding ==
  \A c \in Clears \ deaf :
    clearPc[c] = "answered" /\ job \in Before(c) => pc \notin UnderWay \cup Slow

OldMotorsAreEnding ==
  \A c \in Clears \ deaf : motors \in Before(c) =>
    /\ clearPc[c] \in {"emptying", "holding"} => motors = job /\ pc \in Driving
    /\ clearPc[c] = "answered" => motors = job /\ pc \in {"halting", "failed"}

MotorsAreOlder ==
  /\ motors <= accepted
  /\ \A q \in Elements(queue) : motors < q
  /\ pc \in {"popped", "begun", "wait"} => motors # job

StopInv ==
  /\ FlagIsUp
  /\ PollEndsInstruction
  /\ NotBeforePressed
  /\ QueueIsNew
  /\ OldJobIsEnding
  /\ OldMotorsAreEnding
  /\ MotorsAreOlder

LEMMA StopStepRequests ==
  ASSUME StopAssumption, OrderInv, OrderInv', StopInv,
         \/ \E batch \in Batches : AddInstructions(batch)
         \/ \E c \in Clears : PressStop(c) \/ Clear(c)
  PROVE  StopInv'
  <1> USE DEF serviceVars, processorVars, clearVars, InProgress, Before
  <1>0. /\ accepted \in Nat /\ motors \in Nat /\ job \in Nat
        /\ clearPc \in [Clears -> ClearPlaces] /\ pressedAt \in [Clears -> Nat]
        /\ heard \subseteq Clears /\ deaf \subseteq Clears /\ Elements(queue) \subseteq Nat
    BY DEF OrderInv, TypeInv, TypeOK, Ids, None
  <1>1. ASSUME NEW batch \in Batches, AddInstructions(batch)
        PROVE  StopInv'
    <2>1. /\ accepted + Len(batch) <= MaxInstr /\ accepted' = accepted + Len(batch)
          /\ UNCHANGED <<pc, job, escaped, motors, stopRequested, clearPc, pressedAt, heard, deaf>>
      BY <1>1 DEF AddInstructions
    <2>2. Len(batch) \in Nat
      BY <2>1, BatchType DEF OrderInv, TypeInv
    <2>3. Elements(queue') = Elements(queue) \cup (accepted + 1)..(accepted + Len(batch))
      <3>1. /\ \A y \in Elements(queue) : y <= accepted
            /\ Increasing(queue) /\ queue \in Seq(Nat)
        BY SeqOfIds DEF OrderInv, InOrder, TypeInv, TypeOK
      <3> QED
        BY <1>0, <1>1, <2>2, <3>1, BatchIncreasing DEF AddInstructions
    <2>4. QueueIsNew' /\ MotorsAreOlder'
      BY <1>0, <2>1, <2>2, <2>3 DEF StopInv, QueueIsNew, MotorsAreOlder
    <2> QED
      BY <2>1, <2>4 DEF StopInv, FlagIsUp, PollEndsInstruction, NotBeforePressed,
         OldJobIsEnding, OldMotorsAreEnding
  <1>2. ASSUME NEW c \in Clears, PressStop(c)
        PROVE  StopInv'
    <2>1. /\ clearPc[c] = "idle" /\ stopRequested' /\ clearPc' = [clearPc EXCEPT ![c] = "stopping"]
          /\ pressedAt' = [pressedAt EXCEPT ![c] = accepted]
          /\ deaf' = IF pc \in Slow THEN deaf \cup {c} ELSE deaf
          /\ UNCHANGED <<queue, accepted, pc, job, escaped, motors, heard>>
      BY <1>2 DEF PressStop
    <2>2. c \notin heard
      BY <2>1 DEF StopInv, NotBeforePressed
    <2>3. Elements(queue') = Elements(queue)
      BY <2>1
    <2>4. \A d \in Clears : d # c => clearPc'[d] = clearPc[d] /\ pressedAt'[d] = pressedAt[d]
      BY <1>0, <2>1
    <2>5. clearPc'[c] = "stopping" /\ pressedAt'[c] = accepted
      BY <1>0, <2>1
    <2>6. FlagIsUp' /\ PollEndsInstruction' /\ NotBeforePressed'
      BY <2>1, <2>2, <2>4, <2>5 DEF StopInv, FlagIsUp, PollEndsInstruction, NotBeforePressed
    <2>7. QueueIsNew' /\ MotorsAreOlder'
      BY <1>0, <2>1, <2>3, <2>4, <2>5 DEF StopInv, QueueIsNew, MotorsAreOlder
    <2>8. OldJobIsEnding' /\ OldMotorsAreEnding'
      BY <2>1, <2>4, <2>5 DEF StopInv, OldJobIsEnding, OldMotorsAreEnding
    <2> QED
      BY <2>6, <2>7, <2>8 DEF StopInv
  <1>3. ASSUME NEW c \in Clears, ClearStopDriver(c)
        PROVE  StopInv'
    <2>1. /\ clearPc[c] = "stopping" /\ motors' = None
          /\ clearPc' = [clearPc EXCEPT ![c] = "emptying"]
          /\ UNCHANGED <<queue, accepted, stopRequested, pc, job, escaped, pressedAt, heard, deaf>>
      BY <1>3 DEF ClearStopDriver
    <2>2. /\ Elements(queue') = Elements(queue)
          /\ \A q \in Elements(queue) : 0 < q
          /\ pc \in {"popped", "begun", "wait"} => job # None
      BY <2>1 DEF OrderInv, None
    <2> QED
      BY <1>0, <2>1, <2>2 DEF StopInv, FlagIsUp, PollEndsInstruction, NotBeforePressed,
         QueueIsNew, OldJobIsEnding, OldMotorsAreEnding, MotorsAreOlder, None
  <1>4. ASSUME NEW c \in Clears, ClearEmptyQueue(c)
        PROVE  StopInv'
    <2>1. /\ clearPc[c] = "emptying" /\ queue' = <<>>
          /\ clearPc' = [clearPc EXCEPT ![c] = "holding"]
          /\ UNCHANGED <<accepted, stopRequested, pc, job, escaped, motors, pressedAt, heard, deaf>>
      BY <1>4 DEF ClearEmptyQueue
    <2>2. Elements(queue') = {}
      BY <2>1 DEF Elements
    <2> QED
      BY <1>0, <2>1, <2>2 DEF StopInv, FlagIsUp, PollEndsInstruction, NotBeforePressed,
         QueueIsNew, OldJobIsEnding, OldMotorsAreEnding, MotorsAreOlder
  <1>5. ASSUME NEW c \in Clears, ClearLowerFlag(c)
        PROVE  StopInv'
    <2>1. /\ clearPc[c] = "holding" /\ stopRequested' = FALSE
          /\ clearPc' = [clearPc EXCEPT ![c] = "answered"]
          /\ deaf' = deaf \cup {d \in Clears \ {c} : InProgress(d)}
          /\ PolledInTime(c)
          /\ UNCHANGED <<queue, accepted, pc, job, escaped, motors, pressedAt, heard>>
      BY <1>5 DEF ClearLowerFlag
    <2>2. c \notin deaf => pc \notin Slow /\ (pc \in UnderWay => job \in escaped)
      BY <2>1 DEF PolledInTime, StopAssumption, UnderWay, StopInv, FlagIsUp,
                  PollEndsInstruction
    <2>3. Elements(queue') = Elements(queue)
      BY <2>1
    <2>4. pc \in Driving => pc \in {"halting", "failed"} \/ pc \in UnderWay
      BY DEF Driving, UnderWay, Polling, Waiting, Quick
    <2>5. \A d \in Clears : d # c => clearPc'[d] = clearPc[d]
      BY <1>0, <2>1
    <2>6. clearPc'[c] = "answered"
      BY <1>0, <2>1
    <2>7. FlagIsUp' /\ PollEndsInstruction' /\ NotBeforePressed'
      BY <2>1, <2>5, <2>6 DEF StopInv, FlagIsUp, PollEndsInstruction, NotBeforePressed
    <2>8. QueueIsNew' /\ MotorsAreOlder'
      BY <1>0, <2>1, <2>3, <2>5, <2>6 DEF StopInv, QueueIsNew, MotorsAreOlder
    <2>9. OldJobIsEnding'
      BY <2>1, <2>2, <2>5, <2>6 DEF StopInv, OldJobIsEnding
    <2>10. OldMotorsAreEnding'
      BY <2>1, <2>2, <2>4, <2>5, <2>6 DEF StopInv, OldMotorsAreEnding
    <2> QED
      BY <2>7, <2>8, <2>9, <2>10 DEF StopInv
  <1> QED
    BY <1>1, <1>2, <1>3, <1>4, <1>5 DEF Clear, ClearAborted, StopAssumption

(* What a step of the processor needs to leave StopInv alone: it polls     *)
(* with the flag up only to end the instruction or to escape, it enters a  *)
(* slow call only where every press in progress is deaf to it, it stops    *)
(* the motors of an instruction that is ending, and it starts motors only  *)
(* while an instruction is carried out.                                    *)
LEMMA StopKept ==
  ASSUME StopAssumption, OrderInv, StopInv,
         UNCHANGED <<queue, accepted, stopRequested, job, clearPc, pressedAt>>,
         escaped \subseteq escaped',
         deaf \subseteq deaf', deaf' \subseteq deaf \cup {c \in Clears : InProgress(c)},
         heard' \subseteq heard \cup {c \in Clears : InProgress(c)},
         pc' \in Slow => \/ pc' = pc
                         \/ pc \in UnderWay /\ {c \in Clears : InProgress(c)} \subseteq deaf',
         pc' \in UnderWay => /\ pc \in UnderWay \cup Slow
                             /\ heard' = heard \/ ~stopRequested \/ job \in escaped',
         pc \in {"halting", "failed"} => motors' = None,
         stopRequested /\ pc \in Driving =>
           pc' \in Driving \/ motors' = None \/ job \in escaped,
         \/ motors' \in {None, motors}
         \/ motors' = job /\ pc \in UnderWay \cup Slow /\ pc' \in Driving \cup Slow,
         pc \in UnderWay /\ pc' \in Slow => motors' \in {None, motors},
         pc' \in {"popped", "begun", "wait"} =>
           motors' = motors /\ pc \in {"popped", "begun", "wait"}
  PROVE  StopInv'
  <1> USE DEF InProgress, Before
  <1>0. /\ accepted \in Nat /\ motors \in Nat /\ job \in Nat
        /\ clearPc \in [Clears -> ClearPlaces] /\ pressedAt \in [Clears -> Nat]
        /\ heard \subseteq Clears /\ deaf \subseteq Clears /\ Elements(queue) \subseteq Nat
        /\ Elements(queue) \subseteq 1..accepted
    BY DEF OrderInv, TypeInv, TypeOK, Ids, None
  <1>1. Elements(queue') = Elements(queue)
    OBVIOUS
  <1>2. FlagIsUp' /\ NotBeforePressed'
    BY <1>0 DEF StopInv, FlagIsUp, NotBeforePressed
  <1>3. PollEndsInstruction'
    <2> SUFFICES ASSUME NEW c \in heard' \ deaf', InProgress(c), pc' \in UnderWay
                 PROVE  job \in escaped'
      BY DEF PollEndsInstruction
    <2>1. c \in Clears \ deaf /\ stopRequested /\ pc \in UnderWay
      BY <1>0 DEF StopInv, FlagIsUp
    <2>2. CASE heard' = heard
      BY <2>1, <2>2 DEF StopInv, PollEndsInstruction
    <2> QED
      BY <2>1, <2>2
  <1>4. QueueIsNew' /\ OldJobIsEnding'
    BY <1>0, <1>1 DEF StopInv, QueueIsNew, OldJobIsEnding
  <1>5. OldMotorsAreEnding'
    <2> SUFFICES ASSUME NEW c \in Clears \ deaf', motors' \in Before(c)'
                 PROVE  /\ clearPc[c] \in {"emptying", "holding"} =>
                             motors' = job /\ pc' \in Driving
                        /\ clearPc[c] = "answered" =>
                             motors' = job /\ pc' \in {"halting", "failed"}
      BY DEF OldMotorsAreEnding
    <2>1. motors' # None /\ motors' \in Before(c) /\ c \notin deaf
      BY DEF None
    <2>2. CASE motors' = motors
      BY <1>0, <2>1, <2>2 DEF StopInv, FlagIsUp, OldMotorsAreEnding
    <2>3. CASE motors' = job /\ pc \in UnderWay \cup Slow /\ pc' \in Driving \cup Slow
      BY <1>0, <2>1, <2>2, <2>3 DEF StopInv, OldJobIsEnding, FlagIsUp
    <2> QED
      BY <2>1, <2>2, <2>3
  <1>6. MotorsAreOlder'
    <2>1. pc \in UnderWay \cup Slow => job \in 1..accepted /\ \A q \in Elements(queue) : job < q
      BY <1>0 DEF OrderInv, InOrder, InHand, UnderWay, Polling, Waiting, Quick, Slow
    <2>2. \A q \in Elements(queue) : 0 < q
      BY <1>0
    <2>3. motors' <= accepted /\ \A q \in Elements(queue) : motors' < q
      BY <1>0, <2>1, <2>2 DEF StopInv, MotorsAreOlder, None
    <2> QED
      BY <1>0, <1>1, <2>3 DEF StopInv, MotorsAreOlder
  <1> QED
    BY <1>2, <1>3, <1>4, <1>5, <1>6 DEF StopInv

LEMMA StopStepProcessor ==
  ASSUME StopAssumption, OrderInv, StopInv, Pop \/ Execute \/ BlockedCall \/ DeadlinePasses
  PROVE  StopInv'
  <1> USE DEF serviceVars, processorVars, clearVars
  <1>0. /\ accepted \in Nat /\ motors \in Nat /\ job \in Nat
        /\ clearPc \in [Clears -> ClearPlaces] /\ pressedAt \in [Clears -> Nat]
        /\ heard \subseteq Clears /\ deaf \subseteq Clears
        /\ queue \in Seq(Nat) /\ Elements(queue) \subseteq 1..accepted
    BY SeqOfIds DEF OrderInv, TypeInv, TypeOK, Ids, None
  <1> USE DEF UnderWay, Polling, Waiting, Quick, Slow, Driving
  <1>1. CASE Pop
    <2> DEFINE h == Head(queue)
    <2>1. /\ queue' = Tail(queue) /\ job' = h /\ pc' = "popped" /\ queue # <<>> /\ pc = "poll"
          /\ ~stopRequested
          /\ UNCHANGED <<accepted, stopRequested, escaped, motors, clearPc, pressedAt, heard,
                         deaf>>
      BY <1>1 DEF Pop
    <2>2. /\ h \in Elements(queue)
          /\ Elements(queue') \subseteq Elements(queue)
      BY <1>0, <2>1, TailIncreasing DEF OrderInv, InOrder
    <2>3. \A c \in Clears \ deaf : ~InProgress(c)
      BY <2>1 DEF StopInv, FlagIsUp
    <2> HIDE DEF h
    <2>4. FlagIsUp' /\ PollEndsInstruction' /\ NotBeforePressed'
      BY <1>0, <2>1, <2>3 DEF StopInv, FlagIsUp, PollEndsInstruction, NotBeforePressed,
         InProgress
    <2>5. QueueIsNew' /\ OldJobIsEnding'
      BY <1>0, <2>1, <2>2 DEF StopInv, QueueIsNew, OldJobIsEnding, Before
    <2>6. OldMotorsAreEnding' /\ MotorsAreOlder'
      BY <1>0, <2>1, <2>2, <2>3 DEF StopInv, OldMotorsAreEnding, MotorsAreOlder, InProgress,
         Before
    <2> QED
      BY <2>1, <2>4, <2>5, <2>6 DEF StopInv
  <1>2. CASE ClearCurrent \/ Recover
    <2>1. /\ pc \in {"recorded", "crashed"} /\ pc' = "poll" /\ job' = None
          /\ motors' \in {None, motors}
          /\ UNCHANGED <<queue, accepted, stopRequested, escaped, clearPc, pressedAt, heard,
                         deaf>>
      BY <1>2 DEF ClearCurrent, Recover
    <2>2. Elements(queue') = Elements(queue)
      BY <2>1
    <2> QED
      BY <1>0, <2>1, <2>2 DEF StopInv, FlagIsUp, PollEndsInstruction, NotBeforePressed,
         QueueIsNew, OldJobIsEnding, OldMotorsAreEnding, MotorsAreOlder, InProgress, None, Before
  <1>3. CASE Begin \/ BeginMalformed \/ RecordHistory \/ Complete \/ DeadlinePasses
    BY <1>3, StopKept DEF Begin, BeginMalformed, Move, RecordHistory, Complete, Settle,
       DeadlinePasses
  <1>4. CASE StartMotion \/ StopCommand \/ StartWait \/ UnknownCommand \/ StartProgram
    BY <1>4, StopKept DEF StartMotion, StopCommand, StartWait, UnknownCommand,
       StartProgram, Move, SetMotors
  <1>5. CASE WaitElapses
    BY <1>5, StopKept DEF WaitElapses, Move, AfterWait
  <1>6. CASE WaitPolls
    BY <1>6, StopKept DEF WaitPolls, Poll, Move, AfterWait
  <1>7. CASE HaltAfterMotion \/ Fail
    BY <1>7, StopKept DEF HaltAfterMotion, Fail, Settle, SetMotors, StopAssumption
  <1>8. CASE ProgramLine \/ ProgramInterrupted
    BY <1>8, StopKept, RoverQueueAssumption DEF ProgramLine, ProgramInterrupted, Poll,
       MustEnd, AllCalls
  <1>9. CASE InterruptionCaught \/ UntracedLine
    BY <1>9, StopKept, RoverQueueAssumption DEF InterruptionCaught, UntracedLine, Move,
       AllCalls
  <1>10. CASE ProgramDrives \/ ProgramHalts \/ PhotoReturns
    BY <1>10, StopKept DEF ProgramDrives, ProgramHalts, PhotoReturns, Move, SetMotors
  <1>11. CASE Brake \/ DriveAfterBrake
    BY <1>11, StopKept DEF Brake, DriveAfterBrake, SetMotors
  <1>12. CASE BlockedCall
    BY <1>12, StopKept DEF BlockedCall, Move, SetMotors
  <1> QED
    BY <1>1, <1>2, <1>3, <1>4, <1>5, <1>6, <1>7, <1>8, <1>9, <1>10, <1>11, <1>12 DEF Execute

LEMMA StopStep ==
  ASSUME StopAssumption, OrderInv, OrderInv', StopInv, [Next]_vars
  PROVE  StopInv'
  <1>1. CASE UNCHANGED vars
    BY <1>1 DEF vars, serviceVars, processorVars, clearVars, StopInv, FlagIsUp,
       PollEndsInstruction, NotBeforePressed, QueueIsNew, OldJobIsEnding, OldMotorsAreEnding,
       MotorsAreOlder, InProgress, Elements, Before
  <1> QED
    BY <1>1, StopStepRequests, StopStepProcessor DEF Next

LEMMA StopInit == OrderInv /\ Init => StopInv
  <1> SUFFICES ASSUME OrderInv, Init
               PROVE  StopInv
    OBVIOUS
  <1>1. Elements(<<>>) = {}
    BY DEF Elements
  <1> QED
    BY <1>1 DEF Init, StopInv, FlagIsUp, PollEndsInstruction, NotBeforePressed, QueueIsNew,
       InProgress, OldJobIsEnding, OldMotorsAreEnding, MotorsAreOlder, None, Before

LEMMA StopInvariant == StopAssumption => (Spec => []StopInv)
  <1> SUFFICES ASSUME StopAssumption
               PROVE  Spec => []StopInv
    OBVIOUS
  <1>1. OrderInv /\ OrderInv' /\ StopInv /\ [Next]_vars => StopInv'
    BY StopStep
  <1> QED
    BY <1>1, StopInit, OrderInvariant, PTL DEF Spec

(* Stop keeps the promise of its answer, 'Queue cleared and rover          *)
(* stopped', however many presses overlap and whatever the learners'       *)
(* programs call and catch: what was accepted before is gone from the      *)
(* queue; and unless a slow call was under way during the press or another *)
(* press took its flag down, nothing of before is under way or moves the   *)
(* rover any more, a program that caught an interruption aside             *)
(* (clear_queue against _process_queue, _interruptible_wait, the trace     *)
(* hook and the library's brake).                                          *)
THEOREM AnsweredStopHolds == StopAssumption => (Spec => []StopHolds)
  <1> SUFFICES ASSUME StopAssumption
               PROVE  Spec => []StopHolds
    OBVIOUS
  <1>1. ASSUME OrderInv, StopInv
        PROVE  StopHolds
    <2>1. /\ pressedAt \in [Clears -> Nat] /\ Elements(queue) \subseteq Nat
      BY <1>1 DEF OrderInv, TypeInv, TypeOK, Ids
    <2> QED
      BY <1>1, <2>1 DEF StopHolds, StopInv, QueueIsNew, OldJobIsEnding, OldMotorsAreEnding
  <1> QED
    BY <1>1, OrderInvariant, StopInvariant, PTL

(* After that answer, no instruction of before the press sets the motors   *)
(* going again.  What it leaves out is needed: with a slow call, with a    *)
(* second press and with a caught interruption the model checker finds an  *)
(* instruction that does.                                                  *)
THEOREM NothingMoves == StopAssumption => (Spec => NothingMovesAfterStop)
  <1> SUFFICES ASSUME StopAssumption
               PROVE  Spec => NothingMovesAfterStop
    OBVIOUS
  <1>1. ASSUME OrderInv, StopInv, [Next]_vars
        PROVE  [\A c \in Clears \ deaf : clearPc[c] = "answered" /\ motors' # motors
                                           => motors' \notin Before(c)]_vars
    <2> SUFFICES ASSUME NEW c \in Clears \ deaf, clearPc[c] = "answered", motors' # motors
                 PROVE  motors' \notin Before(c)
      OBVIOUS
    <2> USE DEF serviceVars, processorVars, clearVars
    <2>1. motors' = None \/ (motors' = job /\ pc \in UnderWay \cup Slow)
      BY <1>1 DEF vars, Next, Execute, Clear, AddInstructions, PressStop, ClearStopDriver,
         ClearAborted, ClearEmptyQueue, ClearLowerFlag, Pop, Begin, BeginMalformed,
         StartMotion, StopCommand, StartWait, UnknownCommand, StartProgram, Brake,
         DriveAfterBrake, WaitElapses, WaitPolls, HaltAfterMotion, ProgramLine,
         ProgramInterrupted, InterruptionCaught, UntracedLine, ProgramDrives, ProgramHalts,
         PhotoReturns, BlockedCall, DeadlinePasses, Complete, Fail, RecordHistory,
         ClearCurrent, Recover, Move, SetMotors, Poll, Settle, UnderWay, Quick, Slow
    <2>2. pressedAt[c] \in Nat
      BY <1>1 DEF OrderInv, TypeInv, TypeOK
    <2> QED
      BY <1>1, <2>1, <2>2 DEF StopInv, OldJobIsEnding, None, Before
  <1> QED
    BY <1>1, OrderInvariant, StopInvariant, PTL DEF Spec, NothingMovesAfterStop

(* The flag is never left up behind the requests that raised it, except by *)
(* one whose driver.stop raised: however many presses overlap, and with a  *)
(* driver that fails (clear_queue has no finally).                         *)
THEOREM FlagComesDown == Spec => []FlagReleased
  <1>1. Init => FlagReleased
    BY DEF Init, FlagReleased
  <1>2. ASSUME TypeInv, FlagReleased, [Next]_vars
        PROVE  FlagReleased'
    <2> USE DEF serviceVars, processorVars, clearVars, FlagReleased, InProgress
    <2>1. clearPc \in [Clears -> ClearPlaces]
      BY <1>2 DEF TypeInv, TypeOK
    <2>2. ASSUME NEW c \in Clears, PressStop(c) \/ Clear(c)
          PROVE  FlagReleased'
      BY <1>2, <2>1, <2>2 DEF PressStop, Clear, ClearStopDriver, ClearAborted,
         ClearEmptyQueue, ClearLowerFlag
    <2>3. CASE ~(\E c \in Clears : PressStop(c) \/ Clear(c))
      <3>1. UNCHANGED <<stopRequested, clearPc>>
        BY <1>2, <2>3 DEF vars, Next, Execute, AddInstructions, Pop, Begin, BeginMalformed,
           StartMotion,
           StopCommand, StartWait, UnknownCommand, StartProgram, WaitElapses, WaitPolls,
           HaltAfterMotion, ProgramLine, ProgramInterrupted, InterruptionCaught,
           UntracedLine, ProgramDrives, ProgramHalts,
           PhotoReturns, BlockedCall, Brake, DriveAfterBrake, DeadlinePasses,
           Complete, Fail, RecordHistory, ClearCurrent, Recover,
           Move, SetMotors, Poll, Settle
      <3> QED
        BY <1>2, <3>1
    <2> QED
      BY <2>2, <2>3
  <1> QED
    BY <1>1, <1>2, TypeInvariant, PTL DEF Spec

-----------------------------------------------------------------------------
(* What the bounded history keeps.  Pushing on a full one drops its first  *)
(* and smallest, and moves the others up.                                  *)
LEMMA PushEntries ==
  ASSUME NEW h \in Seq(Nat), NEW x \in Nat, Len(h) <= HistorySize
  PROVE  LET t == Push(h, x) IN
         /\ t \in Seq(Nat)
         /\ Len(h) < HistorySize =>
              /\ Len(t) = Len(h) + 1
              /\ \A i \in 1..Len(t) : t[i] = IF i <= Len(h) THEN h[i] ELSE x
         /\ Len(h) = HistorySize =>
              /\ Len(t) = HistorySize
              /\ \A i \in 1..Len(t) : t[i] = IF i < Len(h) THEN h[i + 1] ELSE x
  <1>1. CASE Len(h) < HistorySize
    BY <1>1 DEF Push
  <1>2. CASE Len(h) = HistorySize
    <2>1. h # <<>>
      BY <1>2
    <2> QED
      BY <1>2, <2>1 DEF Push
  <1> QED
    BY <1>1, <1>2

(* So whatever it held, or had pushed out before, is still in it or        *)
(* smaller than all of it.                                                 *)
LEMMA PushKeeps ==
  ASSUME NEW h \in Seq(Nat), NEW x \in Nat, Len(h) <= HistorySize,
         Increasing(h), \A z \in Elements(h) : z < x,
         NEW y \in Nat,
         y \in Elements(h) \cup {x} \/ (Len(h) = HistorySize /\ y < h[1])
  PROVE  \/ y \in Elements(Push(h, x))
         \/ Len(Push(h, x)) = HistorySize /\ y < Push(h, x)[1]
  <1> DEFINE t == Push(h, x)
  <1>1. t \in Seq(Nat) /\ DOMAIN t = 1..Len(t) /\ DOMAIN h = 1..Len(h)
    BY PushEntries
  <1>2. \A i \in 1..Len(h) : h[i] \in Elements(h)
    BY DEF Elements
  <1>3. CASE Len(h) < HistorySize
    <2>1. /\ Len(t) = Len(h) + 1
          /\ \A i \in 1..Len(t) : t[i] = IF i <= Len(h) THEN h[i] ELSE x
      BY <1>3, PushEntries
    <2> HIDE DEF t
    <2>2. Len(t) \in 1..Len(t) /\ t[Len(t)] = x
      BY <2>1
    <2>3. \A i \in 1..Len(h) : i \in 1..Len(t) /\ t[i] = h[i]
      BY <2>1
    <2>4. y \in Elements(h) \cup {x}
      BY <1>3
    <2>5. y \in Elements(t)
      BY <1>1, <2>2, <2>3, <2>4 DEF Elements
    <2> QED
      BY <2>5 DEF t
  <1>4. CASE Len(h) = HistorySize
    <2>1. /\ Len(t) = HistorySize
          /\ \A i \in 1..Len(t) : t[i] = IF i < Len(h) THEN h[i + 1] ELSE x
      BY <1>4, PushEntries
    <2> HIDE DEF t
    <2>2. HistorySize \in Nat \ {0}
      OBVIOUS
    <2>3. h[1] < t[1]
      <3>1. CASE HistorySize = 1
        BY <1>2, <1>4, <2>1, <3>1
      <3>2. CASE HistorySize > 1
        <4>1. t[1] = h[2] /\ 1 \in 1..Len(h) /\ 2 \in 1..Len(h)
          BY <1>4, <2>1, <3>2
        <4>2. h[1] < h[2]
          <5>1. \A i, j \in 1..Len(h) : i < j => h[i] < h[j]
            BY <1>1 DEF Increasing
          <5> QED
            BY <4>1, <5>1
        <4> QED
          BY <4>1, <4>2
      <3> QED
        BY <2>2, <3>1, <3>2
    <2>4. CASE y = x
      <3>1. HistorySize \in 1..Len(t) /\ t[HistorySize] = x
        BY <1>4, <2>1, <2>2
      <3>2. y \in Elements(t)
        BY <1>1, <2>4, <3>1 DEF Elements
      <3> QED
        BY <3>2 DEF t
    <2>5. CASE y \in Elements(h)
      <3>1. PICK i \in 1..Len(h) : y = h[i]
        BY <1>1, <2>5 DEF Elements
      <3>2. CASE i = 1
        BY <2>1, <2>3, <3>1, <3>2 DEF t
      <3>3. CASE i > 1
        <4>1. i - 1 \in 1..Len(t) /\ i - 1 < Len(h) /\ (i - 1) + 1 = i
          BY <1>4, <2>1, <3>1, <3>3
        <4>2. t[i - 1] = y
          BY <2>1, <3>1, <4>1
        <4>3. y \in Elements(t)
          BY <1>1, <4>1, <4>2 DEF Elements
        <4> QED
          BY <4>3 DEF t
      <3> QED
        BY <3>1, <3>2, <3>3
    <2>6. CASE y < h[1]
      <3>1. h[1] \in Nat /\ t[1] \in Nat
        BY <1>1, <1>4, <2>1, <2>2
      <3> QED
        BY <2>1, <2>3, <2>6, <3>1 DEF t
    <2> QED
      BY <2>4, <2>5, <2>6
  <1> QED
    BY <1>3, <1>4

LEMMA HeadAndTail ==
  ASSUME NEW q \in Seq(Nat), q # <<>>
  PROVE  Elements(q) = {Head(q)} \cup Elements(Tail(q))
  <1> DEFINE t == Tail(q)
  <1>1. /\ t \in Seq(Nat)
        /\ Len(t) = Len(q) - 1
        /\ \A i \in 1..Len(t) : t[i] = q[i + 1]
        /\ Head(q) = q[1]
        /\ Len(q) \in Nat \ {0}
        /\ DOMAIN t = 1..Len(t) /\ DOMAIN q = 1..Len(q)
    OBVIOUS
  <1> HIDE DEF t
  <1>2. ASSUME NEW y \in Elements(q)
        PROVE  y \in {Head(q)} \cup Elements(t)
    <2>1. PICK i \in 1..Len(q) : y = q[i]
      BY <1>1, <1>2 DEF Elements
    <2>2. CASE i = 1
      BY <1>1, <2>1, <2>2
    <2>3. CASE i > 1
      <3>1. i - 1 \in 1..Len(t) /\ (i - 1) + 1 = i
        BY <1>1, <2>1, <2>3
      <3>2. t[i - 1] = y
        BY <1>1, <2>1, <3>1
      <3> QED
        BY <1>1, <3>1, <3>2 DEF Elements
    <2> QED
      BY <2>1, <2>2, <2>3
  <1>3. ASSUME NEW y \in {Head(q)} \cup Elements(t)
        PROVE  y \in Elements(q)
    <2>1. CASE y = Head(q)
      <3>1. 1 \in 1..Len(q) /\ q[1] = y
        BY <1>1, <2>1
      <3> QED
        BY <1>1, <3>1 DEF Elements
    <2>2. CASE y \in Elements(t)
      <3>1. PICK i \in 1..Len(t) : y = t[i]
        BY <1>1, <2>2 DEF Elements
      <3>2. i + 1 \in 1..Len(q) /\ q[i + 1] = y
        BY <1>1, <3>1
      <3> QED
        BY <1>1, <3>2 DEF Elements
    <2> QED
      BY <1>3, <2>1, <2>2
  <1> QED
    BY <1>2, <1>3 DEF t

-----------------------------------------------------------------------------
(* Nothing is lost, when no driver call raises.  NothingLost is not         *)
(* inductive: it accepts whatever is called job, wherever the processor is  *)
(* with it.  Kept says where, and what is crashed is malformed.             *)

(* Between the marking as executing and the settling. *)
CarryingOut == (UnderWay \ {"popped"}) \cup Slow \cup {"halting", "failed", "finishing"}

Kept(i) ==
  \/ status[i] = "pending" /\ (i \in Elements(queue) \/ (i = job /\ pc = "popped"))
  \/ status[i] = "executing" /\ i = job /\ current = i /\ pc \in CarryingOut
  \/ status[i] = "cleared"
  \/ /\ status[i] \in {"completed", "error"}
     /\ \/ i = job /\ pc = "recording"
        \/ i \in Elements(history)
        \/ Len(history) = HistorySize /\ i < history[1]

CrashIsMalformed == pc = "crashed" => cmd[job] = "malformed"

(* The status of an instruction says how far it has come. *)
StatusInv ==
  /\ \A i \in Ids : i > accepted => status[i] = "new"
  /\ \A i \in Elements(queue) : status[i] = "pending"
  /\ pc = "popped" => status[job] = "pending"
  /\ pc \in CarryingOut => status[job] = "executing"

LossInv ==
  /\ Len(history) <= HistorySize
  /\ CrashIsMalformed
  /\ StatusInv
  /\ \A i \in 1..accepted : cmd[i] # "malformed" => Kept(i)

FaultlessDriver == ~FaultyDriver

(* The steps within the carrying out of an instruction, and those of the   *)
(* requests that leave the queue alone.                                    *)
LEMMA LossKept ==
  ASSUME LossInv, UNCHANGED serviceVars, job' = job,
         \/ pc' = pc
         \/ pc \in CarryingOut /\ pc' \in CarryingOut
  PROVE  LossInv'
  <1>1. pc = "crashed" => "crashed" \notin CarryingOut
    BY DEF CarryingOut, UnderWay, Polling, Waiting, Quick, Slow
  <1>2. Elements(queue') = Elements(queue) /\ Elements(history') = Elements(history)
    BY DEF serviceVars
  <1>3. {"popped", "recording", "crashed"} \cap CarryingOut = {}
    BY DEF CarryingOut, UnderWay, Polling, Waiting, Quick, Slow
  <1> QED
    BY <1>2, <1>3 DEF LossInv, CrashIsMalformed, StatusInv, Kept, serviceVars

LEMMA LossStepQueue ==
  ASSUME OrderInv, LossInv, NEW batch \in Batches, AddInstructions(batch)
  PROVE  LossInv'
  <1>1. accepted + Len(batch) <= MaxInstr
    BY DEF AddInstructions
  <1>2. /\ accepted \in Nat /\ queue \in Seq(Nat) /\ Len(batch) \in Nat
        /\ status \in [Ids -> Statuses] /\ cmd \in [Ids -> Commands]
        /\ Elements(queue) \subseteq 1..accepted
        /\ pc # "poll" => job \in 1..accepted
    BY <1>1, SeqOfIds, BatchType DEF OrderInv, TypeInv, TypeOK
  <1>3. Elements(queue') = Elements(queue) \cup (accepted + 1)..(accepted + Len(batch))
    <2>1. \A y \in Elements(queue) : y <= accepted
      BY <1>2
    <2> QED
      BY <1>2, <2>1, BatchIncreasing DEF AddInstructions, OrderInv, InOrder
  <1>4. /\ accepted' = accepted + Len(batch)
        /\ UNCHANGED <<history, current, pc, job>>
        /\ \A i \in Ids : i \notin (accepted + 1)..(accepted + Len(batch))
                            => status'[i] = status[i] /\ cmd'[i] = cmd[i]
        /\ \A i \in Ids : i \in (accepted + 1)..(accepted + Len(batch))
                            => status'[i] = "pending"
    BY <1>2 DEF AddInstructions, processorVars
  <1>5. 1..accepted \subseteq Ids /\ 1..accepted' \subseteq Ids
    BY <1>1, <1>2, <1>4 DEF Ids
  <1>6. \A i \in 1..accepted : status'[i] = status[i] /\ cmd'[i] = cmd[i]
    BY <1>2, <1>4, <1>5
  <1>7. Elements(history') = Elements(history)
    BY <1>4
  <1>8. ASSUME NEW i \in 1..accepted', cmd'[i] # "malformed"
        PROVE  Kept(i)'
    <2>1. CASE i <= accepted
      BY <1>2, <1>3, <1>4, <1>6, <1>7, <1>8, <2>1 DEF LossInv, Kept
    <2>2. CASE i > accepted
      BY <1>2, <1>3, <1>4, <1>5, <1>8, <2>2 DEF Kept
    <2> QED
      BY <1>2, <1>4, <1>8, <2>1, <2>2
  <1>9. StatusInv'
    <2>1. \A i \in Ids : i > accepted' => status'[i] = "new"
      BY <1>2, <1>4 DEF LossInv, StatusInv, Ids
    <2>2. \A i \in Elements(queue') : status'[i] = "pending"
      BY <1>2, <1>3, <1>4, <1>5, <1>6 DEF LossInv, StatusInv
    <2>3. CarryingOut' = CarryingOut /\ "poll" \notin CarryingOut
      BY DEF CarryingOut, UnderWay, Polling, Waiting, Quick, Slow
    <2> QED
      BY <1>2, <1>4, <1>6, <2>1, <2>2, <2>3 DEF LossInv, StatusInv
  <1>10. CrashIsMalformed'
    BY <1>2, <1>4, <1>6 DEF LossInv, CrashIsMalformed
  <1> QED
    BY <1>4, <1>8, <1>9, <1>10 DEF LossInv

LEMMA LossStepClear ==
  ASSUME OrderInv, LossInv, NEW c \in Clears, ClearEmptyQueue(c)
  PROVE  LossInv'
  <1>1. /\ queue' = <<>> /\ UNCHANGED <<history, current, cmd, accepted, pc, job>>
        /\ status' = [i \in Ids |-> IF i \in Elements(queue) THEN "cleared" ELSE status[i]]
    BY DEF ClearEmptyQueue, processorVars
  <1>2. /\ accepted \in 0..MaxInstr /\ Elements(queue) \subseteq 1..accepted
        /\ InHand => job \in Ids /\ \A q \in Elements(queue) : job < q
    BY DEF OrderInv, TypeInv, TypeOK, InOrder, InHand
  <1>3. Elements(queue') = {} /\ Elements(history') = Elements(history)
    BY <1>1 DEF Elements
  <1>4. InHand => job \notin Elements(queue)
    BY <1>2 DEF Ids
  <1>5. "popped" \notin {"poll", "recorded"} /\ CarryingOut \cap {"poll", "recorded"} = {}
    BY DEF CarryingOut, UnderWay, Polling, Waiting, Quick, Slow
  <1>6. StatusInv'
    <2>1. \A i \in Ids : i > accepted => i \notin Elements(queue)
      BY <1>2 DEF Ids
    <2>2. CarryingOut' = CarryingOut
      BY DEF CarryingOut, UnderWay, Polling, Waiting, Quick, Slow
    <2> QED
      BY <1>1, <1>2, <1>3, <1>4, <1>5, <2>1, <2>2 DEF LossInv, StatusInv, InHand
  <1>7. ASSUME NEW i \in 1..accepted, cmd[i] # "malformed"
        PROVE  Kept(i)'
    <2>1. i \in Ids /\ Kept(i)
      BY <1>2, <1>7 DEF LossInv, Ids
    <2>2. CASE i \in Elements(queue)
      BY <1>1, <2>1, <2>2 DEF Kept
    <2>3. CASE i \notin Elements(queue)
      <3>1. status'[i] = status[i]
        BY <1>1, <2>1, <2>3
      <3>2. CarryingOut' = CarryingOut
        BY DEF CarryingOut, UnderWay, Polling, Waiting, Quick, Slow
      <3> QED
        BY <1>1, <1>3, <2>1, <2>3, <3>1, <3>2 DEF Kept
    <2> QED
      BY <2>2, <2>3
  <1> QED
    BY <1>1, <1>6, <1>7 DEF LossInv, CrashIsMalformed

LEMMA LossStepPop ==
  ASSUME OrderInv, LossInv, Pop
  PROVE  LossInv'
  <1>1. /\ queue # <<>> /\ queue' = Tail(queue) /\ job' = Head(queue)
        /\ pc = "poll" /\ pc' = "popped"
        /\ UNCHANGED <<history, current, cmd, status, accepted>>
    BY DEF Pop
  <1>2. queue \in Seq(Nat)
    BY SeqOfIds DEF OrderInv, TypeInv, TypeOK
  <1>3. /\ Elements(queue) = {job'} \cup Elements(queue')
        /\ Elements(history') = Elements(history)
    BY <1>1, <1>2, HeadAndTail
  <1>4. CarryingOut' = CarryingOut /\ CarryingOut \cap {"poll", "popped"} = {}
    BY DEF CarryingOut, UnderWay, Polling, Waiting, Quick, Slow
  <1>5. StatusInv'
    BY <1>1, <1>3, <1>4 DEF LossInv, StatusInv
  <1>6. ASSUME NEW i \in 1..accepted, cmd[i] # "malformed"
        PROVE  Kept(i)'
    <2>1. Kept(i)
      BY <1>6 DEF LossInv
    <2> QED
      BY <1>1, <1>3, <1>4, <2>1 DEF Kept
  <1> QED
    BY <1>1, <1>5, <1>6 DEF LossInv, CrashIsMalformed

(* The processor marks the instruction in hand: executing, completed or    *)
(* error.                                                                  *)
LEMMA LossStepMark ==
  ASSUME OrderInv, LossInv, Begin \/ Complete \/ Fail, FaultlessDriver
  PROVE  LossInv'
  <1>0. CarryingOut' = CarryingOut /\ CarryingOut \cap {"popped", "recording", "crashed"} = {}
    BY DEF CarryingOut, UnderWay, Polling, Waiting, Quick, Slow
  <1>1. /\ UNCHANGED <<queue, history, cmd, accepted, job>>
        /\ pc \notin {"poll", "recorded"}
        /\ status' = [status EXCEPT ![job] = status'[job]]
        /\ \/ /\ pc = "popped" /\ pc' = "begun" /\ status'[job] = "executing"
              /\ current' = job
           \/ /\ pc \in CarryingOut /\ pc' = "recording"
              /\ status'[job] \in {"completed", "error"} /\ current' = current
    <2>1. status \in [Ids -> Statuses] /\ (pc \notin {"poll", "recorded"} => job \in Ids)
      BY DEF OrderInv, TypeInv, TypeOK, InHand
    <2>2. {"finishing", "failed"} \subseteq CarryingOut
      BY DEF CarryingOut
    <2> QED
      BY <2>1, <2>2 DEF Begin, Complete, Fail, Settle, FaultlessDriver
  <1>2. /\ status \in [Ids -> Statuses] /\ job \in Ids
        /\ accepted \in 0..MaxInstr /\ Elements(queue) \subseteq 1..accepted
        /\ job \in 1..accepted
        /\ job \notin Elements(queue)
    BY <1>1 DEF OrderInv, TypeInv, TypeOK, InHand, InOrder, Ids
  <1>3. Elements(queue') = Elements(queue) /\ Elements(history') = Elements(history)
    BY <1>1
  <1>4. \A i \in Ids : i # job => status'[i] = status[i]
    BY <1>1, <1>2
  <1>5. "begun" \in CarryingOut
    BY DEF CarryingOut, UnderWay, Quick
  <1>6. StatusInv'
    <2>1. \A i \in Ids : i > accepted => i # job
      BY <1>2
    <2>2. \A i \in Elements(queue) : i \in Ids /\ i # job
      BY <1>2 DEF Ids
    <2> QED
      BY <1>0, <1>1, <1>3, <1>4, <2>1, <2>2 DEF LossInv, StatusInv
  <1>7. ASSUME NEW i \in 1..accepted, cmd[i] # "malformed"
        PROVE  Kept(i)'
    <2>1. i \in Ids /\ Kept(i)
      BY <1>2, <1>7 DEF LossInv, Ids
    <2>2. CASE i = job
      BY <1>1, <1>5, <2>2 DEF Kept, CarryingOut
    <2>3. CASE i # job
      <3>1. status'[i] = status[i]
        BY <1>4, <2>1, <2>3
      <3> QED
        BY <1>1, <1>3, <2>1, <2>3, <3>1 DEF Kept
    <2> QED
      BY <2>2, <2>3
  <1>8. CrashIsMalformed'
    BY <1>1 DEF CrashIsMalformed
  <1> QED
    BY <1>1, <1>6, <1>7, <1>8 DEF LossInv

LEMMA LossStepRecord ==
  ASSUME OrderInv, LossInv, RecordHistory
  PROVE  LossInv'
  <1> DEFINE t == Push(history, job)
  <1>1. /\ history' = t /\ pc = "recording" /\ pc' = "recorded"
        /\ UNCHANGED <<queue, current, cmd, status, accepted, job>>
    BY DEF RecordHistory
  <1>2. /\ history \in Seq(Nat) /\ job \in Nat /\ accepted \in Nat
        /\ Increasing(history) /\ \A z \in Elements(history) : z < job
        /\ Len(history) <= HistorySize
    BY <1>1, SeqOfIds DEF OrderInv, TypeInv, TypeOK, InOrder, InHand, LossInv, Ids
  <1>3. Len(t) <= HistorySize
    <2>1. Len(history) < HistorySize \/ Len(history) = HistorySize
      BY <1>2
    <2> QED
      BY <1>2, <2>1, PushEntries
  <1>4. Elements(queue') = Elements(queue)
    BY <1>1
  <1>5. CarryingOut' = CarryingOut /\ CarryingOut \cap {"recording", "recorded"} = {}
    BY DEF CarryingOut, UnderWay, Polling, Waiting, Quick, Slow
  <1>6. ASSUME NEW i \in 1..accepted, cmd[i] # "malformed"
        PROVE  Kept(i)'
    <2>1. Kept(i) /\ i \in Nat
      BY <1>6 DEF LossInv
    <2>2. CASE status[i] \in {"completed", "error"}
      <3>1. i \in Elements(history) \cup {job} \/ (Len(history) = HistorySize /\ i < history[1])
        BY <2>1, <2>2 DEF Kept
      <3>2. i \in Elements(t) \/ (Len(t) = HistorySize /\ i < t[1])
        BY <1>2, <2>1, <3>1, PushKeeps
      <3> HIDE DEF t
      <3> QED
        BY <1>1, <2>2, <3>2 DEF Kept
    <2>3. CASE status[i] \notin {"completed", "error"}
      BY <1>1, <1>4, <1>5, <2>1, <2>3 DEF Kept
    <2> QED
      BY <2>2, <2>3
  <1> HIDE DEF t
  <1>7. StatusInv'
    BY <1>1, <1>4, <1>5 DEF LossInv, StatusInv
  <1> QED
    BY <1>1, <1>3, <1>6, <1>7 DEF LossInv, CrashIsMalformed

(* The processor lets go of the instruction: recorded, or malformed.       *)
LEMMA LossStepRelease ==
  ASSUME LossInv, BeginMalformed \/ ClearCurrent \/ Recover
  PROVE  LossInv'
  <1>1. /\ UNCHANGED <<queue, history, cmd, status, accepted>>
        /\ \/ pc = "popped" /\ pc' = "crashed" /\ job' = job /\ cmd[job] = "malformed"
              /\ current' = current
           \/ pc \in {"recorded", "crashed"} /\ pc' = "poll"
    BY DEF BeginMalformed, ClearCurrent, Recover, Move, serviceVars
  <1>2. Elements(queue') = Elements(queue) /\ Elements(history') = Elements(history)
    BY <1>1
  <1>3. /\ CarryingOut' = CarryingOut
        /\ CarryingOut \cap {"popped", "recorded", "crashed", "poll", "recording"} = {}
    BY DEF CarryingOut, UnderWay, Polling, Waiting, Quick, Slow
  <1>4. StatusInv'
    BY <1>1, <1>2, <1>3 DEF LossInv, StatusInv
  <1>5. ASSUME NEW i \in 1..accepted, cmd[i] # "malformed"
        PROVE  Kept(i)'
    <2>1. Kept(i)
      BY <1>5 DEF LossInv
    <2>2. i = job => pc # "popped" \/ pc' # "crashed"
      BY <1>1, <1>5
    <2> QED
      BY <1>1, <1>2, <1>3, <1>5, <2>1 DEF Kept
  <1> QED
    BY <1>1, <1>4, <1>5 DEF LossInv, CrashIsMalformed

LEMMA LossStep ==
  ASSUME OrderInv, LossInv, FaultlessDriver, [Next]_vars
  PROVE  LossInv'
  <1> USE DEF processorVars, clearVars
  <1>0. /\ CarryingOut = {"begun", "motion", "wait", "sleep", "python", "drive", "halt",
                          "photo", "braking", "blocked", "halting", "failed", "finishing"}
    BY DEF CarryingOut, UnderWay, Polling, Waiting, Quick, Slow
  <1>1. ASSUME NEW c \in Clears, PressStop(c) \/ Clear(c)
        PROVE  LossInv'
    <2>1. CASE ClearEmptyQueue(c)
      BY <2>1, LossStepClear
    <2>2. CASE PressStop(c) \/ ClearStopDriver(c) \/ ClearAborted(c) \/ ClearLowerFlag(c)
      BY <2>2, LossKept DEF PressStop, ClearStopDriver, ClearAborted, ClearLowerFlag
    <2> QED
      BY <1>1, <2>1, <2>2 DEF Clear
  <1>2. CASE Begin \/ Complete \/ Fail
    BY <1>2, LossStepMark
  <1>3. CASE BeginMalformed \/ ClearCurrent \/ Recover
    BY <1>3, LossStepRelease
  <1>4. CASE RecordHistory
    BY <1>4, LossStepRecord
  <1>5. CASE StartMotion \/ StopCommand \/ StartWait \/ UnknownCommand \/ StartProgram
    BY <1>0, <1>5, LossKept DEF StartMotion, StopCommand, StartWait, UnknownCommand,
       StartProgram, SetMotors, Move
  <1>6. CASE WaitElapses \/ WaitPolls
    BY <1>0, <1>6, LossKept DEF WaitElapses, WaitPolls, AfterWait, Waiting, Move, Poll
  <1>7. CASE HaltAfterMotion \/ ProgramDrives \/ ProgramHalts \/ PhotoReturns
             \/ BlockedCall \/ Brake \/ DriveAfterBrake
    BY <1>0, <1>7, LossKept DEF HaltAfterMotion, ProgramDrives, ProgramHalts, PhotoReturns,
       BlockedCall, Brake,
         DriveAfterBrake,
       SetMotors, Move
  <1>8. CASE ProgramLine \/ ProgramInterrupted \/ InterruptionCaught \/ UntracedLine
    BY <1>0, <1>8, LossKept DEF ProgramLine, ProgramInterrupted, InterruptionCaught,
       UntracedLine, AllCalls, Poll, Move
  <1>9. CASE DeadlinePasses \/ UNCHANGED vars
    BY <1>9, LossKept DEF DeadlinePasses, vars
  <1> QED
    BY <1>1, <1>2, <1>3, <1>4, <1>5, <1>6, <1>7, <1>8, <1>9, LossStepQueue, LossStepPop
       DEF Next, Execute

LEMMA LossInvariant == FaultlessDriver => (Spec => []LossInv)
  <1> SUFFICES ASSUME FaultlessDriver
               PROVE  Spec => []LossInv
    OBVIOUS
  <1>1. ASSUME Init
        PROVE  LossInv
    <2>1. Elements(<<>>) = {} /\ Len(<<>>) = 0
      BY DEF Elements
    <2>2. "poll" \notin CarryingOut
      BY DEF CarryingOut, UnderWay, Polling, Waiting, Quick, Slow
    <2> QED
      BY <1>1, <2>1, <2>2 DEF Init, LossInv, CrashIsMalformed, StatusInv, Ids
  <1>2. OrderInv /\ LossInv /\ [Next]_vars => LossInv'
    BY LossStep
  <1> QED
    BY <1>1, <1>2, OrderInvariant, PTL DEF Spec

(* An accepted instruction is always somewhere, a malformed one aside: in  *)
(* the queue, in hand, cleared by Stop, or finished and then in the        *)
(* history until HistorySize newer ones push it out (service.py,           *)
(* add_instructions, _process_queue, clear_queue and the finally of        *)
(* _execute_instruction).  The driver must not raise: the except branch    *)
(* stops the motors outside any handler of its own.                        *)
THEOREM NothingIsLost == FaultlessDriver => (Spec => []NothingLost)
  <1> SUFFICES ASSUME FaultlessDriver
               PROVE  Spec => []NothingLost
    OBVIOUS
  <1>1. LossInv => NothingLost
    BY DEF LossInv, NothingLost, Kept
  <1> QED
    BY <1>1, LossInvariant, PTL

-----------------------------------------------------------------------------
(* Who has the motors on.  Whoever it is will still stop them, or is a     *)
(* learner program, which need not: the place of the processor says which. *)
InProgram == {"python", "drive", "halt", "sleep", "photo", "blocked"}

HasMotors ==
  \/ motors = job /\ pc \in {"motion", "halting", "failed"}
  \/ motors = job /\ cmd[job] = "run_python" /\ pc \in InProgram \cup {"finishing"}
  \/ cmd[motors] = "run_python" /\ status[motors] = "completed"

DriveInv ==
  /\ pc \in InProgram => cmd[job] = "run_python"
  /\ pc = "braking" => cmd[job] \in {"motion", "run_python"}
  /\ motors # None => HasMotors

(* What completed stays so, and no step changes what it was.               *)
LEMMA CompletedStays ==
  ASSUME OrderInv, LossInv, FaultlessDriver, [Next]_vars,
         NEW i \in Ids, status[i] = "completed"
  PROVE  status'[i] = "completed" /\ cmd'[i] = cmd[i]
  <1> USE DEF serviceVars, processorVars, clearVars
  <1>1. /\ status \in [Ids -> Statuses] /\ cmd \in [Ids -> Commands] /\ accepted \in Nat
    BY DEF OrderInv, TypeInv, TypeOK
  <1>2. i <= accepted /\ i \notin Elements(queue)
    BY <1>1 DEF LossInv, StatusInv, Ids
  <1>3. pc \in CarryingOut \cup {"popped"} => i # job
    BY <1>2 DEF LossInv, StatusInv
  <1>4. {"finishing", "failed"} \subseteq CarryingOut
    BY DEF CarryingOut
  <1>5. ASSUME NEW batch \in Batches, AddInstructions(batch)
        PROVE  status'[i] = "completed" /\ cmd'[i] = cmd[i]
    <2>1. i \notin (accepted + 1)..(accepted + Len(batch))
      BY <1>1, <1>2
    <2> QED
      BY <1>5, <2>1 DEF AddInstructions
  <1>6. ASSUME NEW c \in Clears, PressStop(c) \/ Clear(c)
        PROVE  status'[i] = "completed" /\ cmd'[i] = cmd[i]
    BY <1>2, <1>6 DEF PressStop, Clear, ClearStopDriver, ClearAborted, ClearEmptyQueue,
       ClearLowerFlag
  <1>7. CASE Begin \/ Complete \/ Fail
    BY <1>1, <1>3, <1>4, <1>7 DEF Begin, Complete, Fail, Settle
  <1>8. CASE Pop \/ DeadlinePasses \/ UNCHANGED vars
    BY <1>8 DEF Pop, DeadlinePasses, vars
  <1>9. CASE BlockedCall \/ (Execute /\ ~(Begin \/ Complete \/ Fail))
    BY <1>9 DEF Execute, BeginMalformed, StartMotion, StopCommand, StartWait, UnknownCommand,
       StartProgram, WaitElapses, WaitPolls, HaltAfterMotion, ProgramLine,
       ProgramInterrupted, InterruptionCaught, UntracedLine, ProgramDrives, ProgramHalts,
       PhotoReturns, BlockedCall, Brake, DriveAfterBrake, RecordHistory,
       ClearCurrent, Recover, Move, SetMotors, Poll
  <1> QED
    BY <1>5, <1>6, <1>7, <1>8, <1>9 DEF Next

(* The steps that neither touch the motors nor end an instruction.         *)
LEMMA DriveKept ==
  ASSUME DriveInv, TypeInv,
         \A i \in Ids : status[i] = "completed" =>
           status'[i] = "completed" /\ cmd'[i] = cmd[i],
         pc' \in {"poll", "popped", "recorded", "crashed", "begun"} \/
           (/\ pc' = pc /\ job' = job
            /\ pc \in InProgram \cup {"braking", "finishing"} => cmd'[job] = cmd[job]),
         pc' # pc => pc \in {"poll", "popped", "recorded", "crashed", "recording"},
         motors' \in {None, motors}
  PROVE  DriveInv'
  <1>1. motors \in Ids \cup {None}
    BY DEF TypeInv, TypeOK
  <1>2. InProgram \cap {"poll", "popped", "recorded", "crashed", "begun"} = {}
    BY DEF InProgram
  <1>3. motors' # None => motors' = motors /\ motors \in Ids
    BY <1>1
  <1>4. /\ pc' \in InProgram => cmd'[job'] = "run_python"
        /\ pc' = "braking" => cmd'[job'] \in {"motion", "run_python"}
    BY <1>2 DEF DriveInv
  <1>5. ASSUME motors' # None
        PROVE  HasMotors'
    <2>1. HasMotors /\ motors' = motors /\ motors \in Ids
      BY <1>3, <1>5 DEF DriveInv
    <2>2. CASE cmd[motors] = "run_python" /\ status[motors] = "completed"
      BY <2>1, <2>2 DEF HasMotors
    <2>3. CASE pc' = pc
      BY <1>2, <2>1, <2>2, <2>3 DEF HasMotors
    <2>4. CASE pc' # pc
      BY <1>2, <2>1, <2>2, <2>4 DEF HasMotors, InProgram
    <2> QED
      BY <2>2, <2>3, <2>4
  <1> QED
    BY <1>4, <1>5 DEF DriveInv

LEMMA DriveStep ==
  ASSUME OrderInv, LossInv, FaultlessDriver, DriveInv, [Next]_vars
  PROVE  DriveInv'
  <1> USE DEF processorVars, clearVars, serviceVars
  <1>0. /\ TypeInv /\ motors \in Ids \cup {None}
        /\ status \in [Ids -> Statuses] /\ cmd \in [Ids -> Commands]
        /\ accepted \in Nat
    BY DEF OrderInv, TypeInv, TypeOK
  <1>c. \A i \in Ids : status[i] = "completed" =>
           status'[i] = "completed" /\ cmd'[i] = cmd[i]
    BY CompletedStays
  <1>1. ASSUME NEW batch \in Batches, AddInstructions(batch)
        PROVE  DriveInv'
    <2>1. pc \in InProgram \cup {"braking", "finishing"} => cmd'[job] = cmd[job]
      <3>1. pc \in InProgram \cup {"braking", "finishing"} => job \in 1..accepted /\ job \in Ids
        BY DEF OrderInv, TypeInv, InProgram, InHand
      <3> QED
        BY <1>0, <1>1, <3>1 DEF AddInstructions
    <2> QED
      BY <1>0, <1>1, <1>c, <2>1, DriveKept DEF AddInstructions
  <1>2. ASSUME NEW c \in Clears, PressStop(c) \/ Clear(c)
        PROVE  DriveInv'
    BY <1>0, <1>2, <1>c, DriveKept DEF PressStop, Clear, ClearStopDriver, ClearAborted,
       ClearEmptyQueue, ClearLowerFlag
  <1>3. CASE Pop \/ Begin \/ BeginMalformed \/ RecordHistory \/ ClearCurrent \/ Recover
    BY <1>0, <1>3, <1>c, DriveKept DEF Pop, Begin, BeginMalformed, RecordHistory,
       ClearCurrent, Recover, Move
  <1>4. CASE DeadlinePasses \/ UNCHANGED vars
    BY <1>0, <1>4, <1>c, DriveKept DEF DeadlinePasses, vars
  <1>5. CASE StartMotion \/ StopCommand \/ StartWait \/ UnknownCommand \/ StartProgram
    BY <1>5 DEF StartMotion, StopCommand, StartWait, UnknownCommand, StartProgram, SetMotors,
       Move, DriveInv, HasMotors, InProgram
  <1>6. CASE WaitElapses \/ WaitPolls
    BY <1>6 DEF WaitElapses, WaitPolls, AfterWait, Waiting, Move, Poll, DriveInv, HasMotors,
       InProgram
  <1>7. CASE HaltAfterMotion \/ ProgramDrives \/ ProgramHalts \/ PhotoReturns
             \/ BlockedCall \/ Brake \/ DriveAfterBrake
    BY <1>7 DEF HaltAfterMotion, ProgramDrives, ProgramHalts, PhotoReturns, BlockedCall,
       Brake, DriveAfterBrake, SetMotors, Move,
       DriveInv, HasMotors, InProgram, FaultlessDriver
  <1>8. CASE ProgramLine \/ ProgramInterrupted \/ InterruptionCaught \/ UntracedLine
    BY <1>8 DEF ProgramLine, ProgramInterrupted, InterruptionCaught, UntracedLine, AllCalls,
       Poll, Move, DriveInv, HasMotors, InProgram
  <1>9. CASE Complete \/ Fail
    <2>1. pc \in {"finishing", "failed"} /\ pc' = "recording" /\ job' = job /\ cmd' = cmd
          /\ \/ motors' = None
             \/ pc = "finishing" /\ motors' = motors
                /\ status' = [status EXCEPT ![job] = "completed"]
      BY <1>9 DEF Complete, Fail, Settle, FaultlessDriver
    <2>2. job \in Ids
      BY <2>1 DEF OrderInv, TypeInv, InHand
    <2>3. ASSUME motors' # None
          PROVE  cmd'[motors'] = "run_python" /\ status'[motors'] = "completed"
      <3>1. /\ pc = "finishing" /\ motors' = motors /\ HasMotors /\ motors \in Ids
            /\ status' = [status EXCEPT ![job] = "completed"]
        BY <1>0, <2>1, <2>3 DEF DriveInv
      <3> QED
        BY <1>0, <1>c, <2>1, <2>2, <3>1 DEF HasMotors
    <2> QED
      BY <2>1, <2>3 DEF DriveInv, HasMotors, InProgram
  <1> QED
    BY <1>1, <1>2, <1>3, <1>4, <1>5, <1>6, <1>7, <1>8, <1>9 DEF Next, Execute

(* A rover that moves is moved by the instruction in hand, or by a learner *)
(* program that ended without stopping it (rover.forward with no seconds): *)
(* no motion command, no error, timeout or interruption leaves the motors  *)
(* on (_execute_instruction: the driver.stop after the wait of a motion    *)
(* command, and that of the except branch).  With a driver that raises     *)
(* there it need not be so.                                                *)
THEOREM OnlyProgramsDriveOn == FaultlessDriver => (Spec => []OnlyCompletedProgramsDriveOn)
  <1> SUFFICES ASSUME FaultlessDriver
               PROVE  Spec => []OnlyCompletedProgramsDriveOn
    OBVIOUS
  <1>1. Init => DriveInv
    BY DEF Init, DriveInv, InProgram
  <1>2. OrderInv /\ LossInv /\ DriveInv /\ [Next]_vars => DriveInv'
    BY DriveStep
  <1>3. DriveInv => OnlyCompletedProgramsDriveOn
    BY DEF DriveInv, HasMotors, InProgram, OnlyCompletedProgramsDriveOn
  <1> QED
    BY <1>1, <1>2, <1>3, OrderInvariant, LossInvariant, PTL DEF Spec
-----------------------------------------------------------------------------
(* The queue keeps what RoverPromise says, whatever the driver raises.  A  *)
(* step is read off what the status fields say, and they say it only in    *)
(* the places of PhaseInv: what is new lies beyond accepted, what executes *)
(* is in hand and being carried out, and what is pending and can be read   *)
(* is in the queue, or popped and not begun.                               *)
PhaseInv ==
  /\ StatusInv
  /\ \A i \in Ids : status[i] = "new" => i > accepted
  /\ \A i \in Ids : status[i] = "executing" => i = job /\ pc \in CarryingOut
  /\ \A i \in Ids : status[i] = "pending" /\ cmd[i] # "malformed" =>
       i \in Elements(queue) \/ (i = job /\ pc = "popped")

LEMMA Phases ==
  CarryingOut = {"begun", "motion", "wait", "sleep", "python", "drive", "halt",
                 "photo", "braking", "blocked", "halting", "failed", "finishing"}
  BY DEF CarryingOut, UnderWay, Polling, Waiting, Quick, Slow

LEMMA PhaseKept ==
  ASSUME PhaseInv, UNCHANGED <<queue, cmd, status, accepted>>, job' = job,
         pc' = pc \/ (pc \in CarryingOut /\ pc' \in CarryingOut)
  PROVE  PhaseInv'
  <1>1. Elements(queue') = Elements(queue)
    OBVIOUS
  <1> QED
    BY <1>1, Phases DEF PhaseInv, StatusInv

(* What a batch does to the elements of the queue, and to the fields.      *)
LEMMA AddedBatch ==
  ASSUME OrderInv, NEW batch \in Batches, AddInstructions(batch)
  PROVE  LET new == (accepted + 1)..(accepted + Len(batch)) IN
         /\ accepted' = accepted + Len(batch) /\ Len(batch) \in Nat /\ new \subseteq Ids
         /\ Elements(queue') = Elements(queue) \cup new
         /\ Elements(queue) \subseteq 1..accepted
         /\ \A i \in Ids : i \notin new => status'[i] = status[i] /\ cmd'[i] = cmd[i]
         /\ \A i \in new : status'[i] = "pending"
         /\ UNCHANGED <<pc, job, motors>>
  <1> DEFINE new == (accepted + 1)..(accepted + Len(batch))
  <1>1. accepted + Len(batch) <= MaxInstr
    BY DEF AddInstructions
  <1>2. /\ accepted \in Nat /\ queue \in Seq(Nat) /\ Len(batch) \in Nat
        /\ Elements(queue) \subseteq 1..accepted
    BY <1>1, SeqOfIds, BatchType DEF OrderInv, TypeInv, TypeOK
  <1>3. Elements(queue') = Elements(queue) \cup new
    <2>1. \A y \in Elements(queue) : y <= accepted
      BY <1>2
    <2> QED
      BY <1>2, <2>1, BatchIncreasing DEF AddInstructions, OrderInv, InOrder
  <1>4. new \subseteq Ids
    BY <1>1, <1>2 DEF Ids
  <1>5. /\ accepted' = accepted + Len(batch) /\ UNCHANGED <<pc, job, motors>>
        /\ \A i \in Ids : i \notin new => status'[i] = status[i] /\ cmd'[i] = cmd[i]
        /\ \A i \in Ids : i \in new => status'[i] = "pending"
    BY DEF AddInstructions, processorVars
  <1> HIDE DEF new
  <1>6. \A i \in new : status'[i] = "pending"
    BY <1>4, <1>5
  <1> QED
    BY <1>2, <1>3, <1>4, <1>5, <1>6 DEF new

LEMMA PhaseStepQueue ==
  ASSUME OrderInv, PhaseInv, NEW batch \in Batches, AddInstructions(batch)
  PROVE  PhaseInv'
  <1> DEFINE new == (accepted + 1)..(accepted + Len(batch))
  <1>1. /\ accepted' = accepted + Len(batch) /\ Len(batch) \in Nat /\ new \subseteq Ids
        /\ Elements(queue') = Elements(queue) \cup new
        /\ \A i \in Ids : i \notin new => status'[i] = status[i] /\ cmd'[i] = cmd[i]
        /\ \A i \in new : status'[i] = "pending"
        /\ UNCHANGED <<pc, job>>
    BY AddedBatch
  <1>2. /\ accepted \in Nat /\ \A i \in Ids : i \in Nat
        /\ Elements(queue) \subseteq 1..accepted
        /\ pc # "poll" => job \in 1..accepted /\ job \in Ids
    BY DEF OrderInv, TypeInv, TypeOK, Ids
  <1>3. \A i \in Ids : i \in new => i > accepted /\ i <= accepted'
    BY <1>1, <1>2
  <1>4. \A i \in Ids : i > accepted => i \in new \/ i > accepted'
    BY <1>1, <1>2
  <1>5. \A i \in Elements(queue) : i \in Ids /\ i \notin new
    BY <1>2 DEF OrderInv, TypeInv, TypeOK, Elements
  <1>6. pc # "poll" => job \notin new
    BY <1>2, <1>3
  <1>7. accepted' >= accepted
    BY <1>1, <1>2
  <1> HIDE DEF new
  <1>8. \A i \in Ids : i > accepted' => i > accepted /\ i \notin new
    BY <1>1, <1>2, <1>3, <1>7
  <1>9. StatusInv'
    <2>1. \A i \in Ids : i > accepted' => status'[i] = "new"
      BY <1>1, <1>8 DEF PhaseInv, StatusInv
    <2>2. \A i \in Elements(queue') : status'[i] = "pending"
      BY <1>1, <1>5 DEF PhaseInv, StatusInv
    <2>3. (pc = "popped" => status'[job] = "pending") /\ (pc \in CarryingOut => status'[job] = "executing")
      BY <1>1, <1>2, <1>6, Phases DEF PhaseInv, StatusInv
    <2> QED
      BY <1>1, <2>1, <2>2, <2>3, Phases DEF StatusInv
  <1>10. \A i \in Ids : status'[i] = "new" => i > accepted'
    BY <1>1, <1>4 DEF PhaseInv
  <1>11. \A i \in Ids : status'[i] = "executing" => i = job' /\ pc' \in CarryingOut
    BY <1>1 DEF PhaseInv
  <1>12. \A i \in Ids : status'[i] = "pending" /\ cmd'[i] # "malformed" =>
           i \in Elements(queue') \/ (i = job' /\ pc' = "popped")
    BY <1>1 DEF PhaseInv
  <1> QED
    BY <1>9, <1>10, <1>11, <1>12, Phases DEF PhaseInv

LEMMA PhaseStepClear ==
  ASSUME OrderInv, PhaseInv, NEW c \in Clears, ClearEmptyQueue(c)
  PROVE  PhaseInv'
  <1>1. /\ queue' = <<>> /\ UNCHANGED <<cmd, accepted, pc, job>>
        /\ status' = [i \in Ids |-> IF i \in Elements(queue) THEN "cleared" ELSE status[i]]
    BY DEF ClearEmptyQueue, processorVars
  <1>2. /\ accepted \in 0..MaxInstr /\ Elements(queue) \subseteq 1..accepted
        /\ InHand => job \in Ids /\ job \notin Elements(queue)
    BY DEF OrderInv, TypeInv, TypeOK, InOrder, InHand, Ids
  <1>3. Elements(queue') = {}
    BY <1>1 DEF Elements
  <1>4. \A i \in Ids : i > accepted => i \notin Elements(queue)
    BY <1>2 DEF Ids
  <1>5. (pc = "popped" \/ pc \in CarryingOut) => InHand
    BY Phases DEF InHand
  <1> QED
    BY <1>1, <1>2, <1>3, <1>4, <1>5, Phases DEF PhaseInv, StatusInv

(* What is popped was the oldest of the queue.                             *)
LEMMA PoppedOldest ==
  ASSUME OrderInv, Pop
  PROVE  /\ Elements(queue) = {job'} \cup Elements(queue') /\ job' \notin Elements(queue')
         /\ \A q \in Elements(queue) : job' <= q
         /\ job' \in Ids
  <1>1. queue # <<>> /\ queue' = Tail(queue) /\ job' = Head(queue) /\ queue \in Seq(Nat) /\ queue \in Seq(Ids)
    BY SeqOfIds DEF Pop, OrderInv, TypeInv, TypeOK
  <1>2. Elements(queue) = {job'} \cup Elements(queue')
    BY <1>1, HeadAndTail
  <1>3. \A q \in Elements(queue') : job' < q
    BY <1>1, TailIncreasing DEF OrderInv, InOrder
  <1>4. job' \in Ids /\ job' \in Nat
    BY <1>1 DEF Ids
  <1>5. Elements(queue') \subseteq Nat
    BY <1>1, <1>2, SeqOfIds DEF Ids
  <1> QED
    BY <1>2, <1>3, <1>4, <1>5

LEMMA PhaseStepPop ==
  ASSUME OrderInv, PhaseInv, Pop
  PROVE  PhaseInv'
  <1>1. /\ pc = "poll" /\ pc' = "popped" /\ UNCHANGED <<cmd, status, accepted>>
        /\ Elements(queue) = {job'} \cup Elements(queue')
    BY PoppedOldest DEF Pop
  <1> QED
    BY <1>1, Phases DEF PhaseInv, StatusInv

(* The processor marks the instruction in hand, lets go of it, or records  *)
(* it.                                                                     *)
LEMMA PhaseStepMark ==
  ASSUME OrderInv, PhaseInv, Begin \/ Complete \/ Fail
  PROVE  PhaseInv'
  <1>1. /\ UNCHANGED <<queue, cmd, accepted, job>>
        /\ status' = [status EXCEPT ![job] = status'[job]]
        /\ \/ pc = "popped" /\ pc' = "begun" /\ status'[job] = "executing"
           \/ /\ pc \in {"finishing", "failed"} /\ pc' \in {"recording", "crashed"}
              /\ status'[job] \in {"completed", "error"}
    <2>1. status \in [Ids -> Statuses] /\ (pc \notin {"poll", "recorded"} => job \in Ids)
      BY DEF OrderInv, TypeInv, TypeOK, InHand
    <2> QED
      BY <2>1 DEF Begin, Complete, Fail, Settle
  <1>2. /\ status \in [Ids -> Statuses] /\ job \in Ids
        /\ job \in 1..accepted /\ accepted \in Nat
        /\ job \notin Elements(queue) /\ Elements(queue) \subseteq Ids
    BY <1>1, SeqOfIds DEF OrderInv, TypeInv, TypeOK, InHand, InOrder, Ids
  <1>3. Elements(queue') = Elements(queue)
    BY <1>1
  <1>4. \A i \in Ids : i # job => status'[i] = status[i]
    BY <1>1, <1>2
  <1>5. ~(job > accepted)
    BY <1>2
  <1>6. StatusInv'
    BY <1>1, <1>2, <1>3, <1>4, <1>5, Phases DEF PhaseInv, StatusInv
  <1>7. \A i \in Ids : /\ status'[i] = "new" => i > accepted'
                       /\ status'[i] = "executing" => i = job' /\ pc' \in CarryingOut
    BY <1>1, <1>2, <1>4, Phases DEF PhaseInv
  <1>8. \A i \in Ids : status'[i] = "pending" /\ cmd'[i] # "malformed" =>
          i \in Elements(queue') \/ (i = job' /\ pc' = "popped")
    BY <1>1, <1>2, <1>3, <1>4 DEF PhaseInv
  <1> QED
    BY <1>6, <1>7, <1>8, Phases DEF PhaseInv

LEMMA PhaseStepRelease ==
  ASSUME PhaseInv, BeginMalformed \/ RecordHistory \/ ClearCurrent \/ Recover
  PROVE  PhaseInv'
  <1>1. /\ UNCHANGED <<queue, cmd, status, accepted>>
        /\ \/ pc = "popped" /\ pc' = "crashed" /\ job' = job /\ cmd[job] = "malformed"
           \/ pc \in {"recording", "recorded", "crashed"} /\ pc' \in {"recorded", "poll"}
    BY DEF BeginMalformed, RecordHistory, ClearCurrent, Recover, Move, serviceVars
  <1>2. Elements(queue') = Elements(queue)
    BY <1>1
  <1> QED
    BY <1>1, <1>2, Phases DEF PhaseInv, StatusInv

(* The steps inside an instruction: they change neither the queue nor any  *)
(* status, and the motors only in the name of the instruction in hand.     *)
Inside ==
  \/ StartMotion \/ StopCommand \/ StartWait \/ UnknownCommand \/ StartProgram
  \/ WaitElapses \/ WaitPolls \/ HaltAfterMotion
  \/ ProgramLine \/ ProgramInterrupted \/ InterruptionCaught \/ UntracedLine
  \/ ProgramDrives \/ ProgramHalts
  \/ PhotoReturns \/ BlockedCall \/ Brake \/ DriveAfterBrake

LEMMA InsideStep ==
  ASSUME TypeInv, Inside
  PROVE  /\ UNCHANGED <<queue, cmd, status, accepted, job>>
         /\ pc \in CarryingOut /\ pc' \in CarryingOut
         /\ motors' \in {motors, None, job}
  <1> USE Phases
  <1>1. CASE StartMotion \/ StopCommand \/ StartWait \/ UnknownCommand \/ StartProgram
    BY <1>1 DEF StartMotion, StopCommand, StartWait, UnknownCommand, StartProgram, SetMotors,
       Move, serviceVars
  <1>2. CASE WaitElapses \/ WaitPolls
    BY <1>2 DEF WaitElapses, WaitPolls, AfterWait, Waiting, Move, Poll, serviceVars
  <1>3. CASE HaltAfterMotion \/ ProgramDrives \/ ProgramHalts \/ PhotoReturns
             \/ BlockedCall \/ Brake \/ DriveAfterBrake
    BY <1>3 DEF HaltAfterMotion, ProgramDrives, ProgramHalts, PhotoReturns, BlockedCall,
       Brake, DriveAfterBrake, SetMotors, Move,
       serviceVars
  <1>4. CASE ProgramLine \/ ProgramInterrupted \/ InterruptionCaught \/ UntracedLine
    BY <1>4, RoverQueueAssumption DEF RoverQueueAssumption, ProgramLine, ProgramInterrupted,
       InterruptionCaught, UntracedLine,
       AllCalls, Poll, Move, serviceVars
  <1> QED
    BY <1>1, <1>2, <1>3, <1>4 DEF Inside

(* A request that neither accepts nor empties, and time.                   *)
LEMMA AsideStep ==
  ASSUME NEW c, PressStop(c) \/ ClearStopDriver(c) \/ ClearAborted(c) \/ ClearLowerFlag(c)
                \/ DeadlinePasses \/ UNCHANGED vars
  PROVE  UNCHANGED <<queue, cmd, status, accepted, job, pc>> /\ motors' \in {motors, None}
  BY DEF PressStop, ClearStopDriver, ClearAborted, ClearLowerFlag, DeadlinePasses, vars,
     serviceVars, processorVars

LEMMA PhaseStep == OrderInv /\ PhaseInv /\ [Next]_vars => PhaseInv'
  <1> SUFFICES ASSUME OrderInv, PhaseInv, [Next]_vars
               PROVE  PhaseInv'
    OBVIOUS
  <1>1. CASE Inside
    BY <1>1, InsideStep, PhaseKept DEF OrderInv
  <1>2. ASSUME NEW c \in Clears, PressStop(c) \/ Clear(c)
        PROVE  PhaseInv'
    BY <1>2, AsideStep, PhaseKept, PhaseStepClear DEF Clear
  <1>3. CASE DeadlinePasses \/ UNCHANGED vars
    BY <1>3, AsideStep, PhaseKept
  <1>4. CASE Execute
    BY <1>1, <1>4, PhaseStepMark, PhaseStepRelease DEF Execute, Inside
  <1> QED
    BY <1>1, <1>2, <1>3, <1>4, PhaseStepQueue, PhaseStepPop DEF Next, Inside

LEMMA PhaseInit == Init => PhaseInv
  <1> SUFFICES ASSUME Init
               PROVE  PhaseInv
    OBVIOUS
  <1>1. Elements(queue) = {} /\ "poll" \notin CarryingOut
    BY Phases DEF Init, Elements
  <1> QED
    BY <1>1 DEF Init, PhaseInv, StatusInv, Ids

-----------------------------------------------------------------------------
(* Each step of the queue is a step of the promise, or none.               *)
LEMMA ShownOf ==
  /\ Shown = [i \in Ids |-> Shown[i]]
  /\ \A i \in Ids :
       Shown[i] = IF status[i] = "pending" /\ cmd[i] = "malformed" /\ i \notin Elements(queue)
                  THEN "lost" ELSE status[i]
  BY DEF Shown

LEMMA ShownNext ==
  /\ Shown' = [i \in Ids |-> Shown'[i]]
  /\ \A i \in Ids :
       Shown'[i] = IF status'[i] = "pending" /\ cmd'[i] = "malformed" /\ i \notin Elements(queue')
                   THEN "lost" ELSE status'[i]
  BY DEF Shown

LEMMA ShownKept ==
  ASSUME UNCHANGED <<queue, cmd, status>>
  PROVE  Shown' = Shown
  BY DEF Shown, Elements

LEMMA PromiseAccepts ==
  ASSUME OrderInv, PhaseInv, NEW batch \in Batches, AddInstructions(batch)
  PROVE  Promise!Accept
  <1> DEFINE new == (accepted + 1)..(accepted + Len(batch))
  <1>1. /\ accepted' = accepted + Len(batch) /\ Len(batch) \in Nat /\ new \subseteq Ids
        /\ Elements(queue') = Elements(queue) \cup new
        /\ Elements(queue) \subseteq 1..accepted
        /\ \A i \in Ids : i \notin new => status'[i] = status[i] /\ cmd'[i] = cmd[i]
        /\ \A i \in new : status'[i] = "pending"
        /\ motors' = motors
    BY AddedBatch
  <1>2. accepted \in Nat /\ \A i \in Ids : i \in Nat
    BY DEF OrderInv, TypeInv, TypeOK, Ids
  <1>3. \A i \in new : Shown[i] = "new"
    <2>1. \A i \in new : i > accepted /\ i \in Ids
      BY <1>1, <1>2
    <2> QED
      BY <2>1, ShownOf DEF PhaseInv, StatusInv
  <1>4. \A i \in new, j \in Ids \ new : Shown[j] = "new" => i < j
    <2>1. \A j \in Ids : Shown[j] = "new" => j > accepted
      BY ShownOf DEF PhaseInv
    <2> QED
      BY <1>1, <1>2, <2>1
  <1> HIDE DEF new
  <1>5. Shown' = [i \in Ids |-> IF i \in new THEN "pending" ELSE Shown[i]]
    <2>1. \A i \in Ids : Shown'[i] = IF i \in new THEN "pending" ELSE Shown[i]
      BY <1>1, ShownOf, ShownNext
    <2> QED
      BY <2>1, ShownNext
  <1>6. new \in SUBSET Promise!In("new")
    BY <1>1, <1>3 DEF Promise!In
  <1>7. \A i \in new, j \in Promise!In("new") \ new : i < j
    BY <1>4 DEF Promise!In
  <1> QED
    BY <1>1, <1>5, <1>6, <1>7 DEF Promise!Accept, Promise!Become

LEMMA PromiseCancels ==
  ASSUME OrderInv, PhaseInv, NEW c \in Clears, ClearEmptyQueue(c)
  PROVE  Promise!Cancel
  <1> DEFINE spared == {i \in Promise!In("pending") : i \notin Elements(queue)}
  <1>1. /\ queue' = <<>> /\ UNCHANGED <<cmd, motors>>
        /\ status' = [i \in Ids |-> IF i \in Elements(queue) THEN "cleared" ELSE status[i]]
    BY DEF ClearEmptyQueue
  <1>2. /\ Elements(queue) \subseteq Ids /\ Elements(queue') = {}
        /\ \A i \in Ids : i \in Nat
        /\ pc = "popped" => \A q \in Elements(queue) : job < q
    BY <1>1, SeqOfIds DEF OrderInv, TypeInv, TypeOK, InOrder, InHand, Ids, Elements
  <1>3. \A i \in Elements(queue) : Shown[i] = "pending"
    BY <1>2, ShownOf DEF PhaseInv, StatusInv
  <1>4. \A i \in spared : i \in Ids /\ i = job /\ pc = "popped"
    BY ShownOf DEF PhaseInv, Promise!In
  <1>5. \A i \in spared, j \in Promise!In("pending") : i <= j
    <2> SUFFICES ASSUME NEW i \in spared, NEW j \in Promise!In("pending")
                 PROVE  i <= j
      OBVIOUS
    <2>1. j \in Ids /\ i \in Ids /\ i = job /\ pc = "popped"
      BY <1>4 DEF Promise!In
    <2>2. CASE j \in Elements(queue)
      BY <1>2, <2>1, <2>2
    <2>3. CASE j \notin Elements(queue)
      <3>1. j = job
        BY <1>4, <2>3
      <3> QED
        BY <1>2, <2>1, <3>1
    <2> QED
      BY <2>2, <2>3
  <1>6. Promise!In("pending") \ spared = Elements(queue)
    BY <1>2, <1>3 DEF Promise!In
  <1>7. Shown' = [i \in Ids |-> IF i \in Elements(queue) THEN "cleared" ELSE Shown[i]]
    <2>1. \A i \in Ids : Shown'[i] = IF i \in Elements(queue) THEN "cleared" ELSE Shown[i]
      BY <1>1, <1>2, ShownOf, ShownNext
    <2> QED
      BY <2>1, ShownNext
  <1>8. spared \in SUBSET Promise!In("pending")
    OBVIOUS
  <1> HIDE DEF spared
  <1> QED
    BY <1>1, <1>5, <1>6, <1>7, <1>8 DEF Promise!Cancel, Promise!Become

(* Older than what leaves the queue, or what is popped, nothing is left.   *)
LEMMA NothingOlder ==
  ASSUME OrderInv, PhaseInv, NEW i \in Ids, pc \in {"poll", "popped"}, i <= accepted,
         \A q \in Elements(queue) : i <= q, pc = "popped" => i <= job
  PROVE  Promise!OldestLeft(i)
  <1>1. \A j \in Ids : j \in Nat
    BY DEF Ids
  <1>2. ASSUME NEW j \in Ids, j < i
        PROVE  Shown[j] \in {"completed", "error", "cleared", "lost"}
    <2>1. j \notin Elements(queue) /\ (pc = "popped" => j # job) /\ ~(j > accepted)
      BY <1>1, <1>2 DEF OrderInv, TypeInv, TypeOK
    <2>2. status[j] \notin {"new", "executing"}
      BY <2>1, Phases DEF PhaseInv
    <2>3. status[j] = "pending" => cmd[j] = "malformed"
      BY <2>1 DEF PhaseInv
    <2>4. status[j] \in Statuses
      BY DEF OrderInv, TypeInv, TypeOK
    <2> QED
      BY <2>1, <2>2, <2>3, <2>4, ShownOf DEF Statuses
  <1> QED
    BY <1>2 DEF Promise!OldestLeft, Promise!Over

LEMMA PromisePops ==
  ASSUME OrderInv, PhaseInv, Pop
  PROVE  Promise!Lose(job') \/ UNCHANGED <<Shown, motors>>
  <1>1. /\ Elements(queue) = {job'} \cup Elements(queue') /\ job' \notin Elements(queue')
        /\ \A q \in Elements(queue) : job' <= q
        /\ job' \in Ids
    BY PoppedOldest
  <1>2. pc = "poll" /\ UNCHANGED <<cmd, status, motors>>
    BY DEF Pop
  <1>3. status[job'] = "pending"
    BY <1>1 DEF PhaseInv, StatusInv
  <1>4. \A i \in Ids : Shown'[i] = IF i = job' /\ cmd[i] = "malformed" THEN "lost" ELSE Shown[i]
    BY <1>1, <1>2, <1>3, ShownOf, ShownNext
  <1>5. CASE cmd[job'] # "malformed"
    <2>1. \A i \in Ids : Shown'[i] = Shown[i]
      BY <1>4, <1>5
    <2>2. Shown' = Shown
      BY <2>1, ShownOf, ShownNext
    <2> QED
      BY <1>2, <2>2
  <1>6. CASE cmd[job'] = "malformed"
    <2>1. \A i \in Ids : Shown'[i] = IF i \in {job'} THEN "lost" ELSE Shown[i]
      BY <1>4, <1>6
    <2>2. Shown' = [i \in Ids |-> IF i \in {job'} THEN "lost" ELSE Shown[i]]
      BY <2>1, ShownNext
    <2>3. Shown[job'] = "pending"
      BY <1>1, <1>3, ShownOf
    <2>4. job' <= accepted
      BY <1>1 DEF OrderInv, TypeInv, TypeOK
    <2>5. Promise!OldestLeft(job')
      BY <1>1, <1>2, <2>4, NothingOlder
    <2> QED
      BY <1>2, <2>2, <2>3, <2>5 DEF Promise!Lose, Promise!Become
  <1> QED
    BY <1>5, <1>6

LEMMA PromiseBegins ==
  ASSUME OrderInv, PhaseInv, Begin
  PROVE  Promise!Start(job)
  <1>1. /\ pc = "popped" /\ cmd[job] # "malformed" /\ UNCHANGED <<queue, cmd, motors>>
        /\ status' = [status EXCEPT ![job] = "executing"]
    BY DEF Begin
  <1>2. /\ job \in Ids /\ job <= accepted /\ accepted \in Nat /\ job \in Nat
        /\ \A q \in Elements(queue) : job < q /\ q \in Nat
        /\ status \in [Ids -> Statuses]
    BY <1>1, SeqOfIds DEF OrderInv, TypeInv, TypeOK, InHand, InOrder, Ids
  <1>3. status[job] = "pending" /\ Shown[job] = "pending"
    BY <1>1, <1>2, ShownOf DEF PhaseInv, StatusInv
  <1>4. Promise!OldestLeft(job)
    BY <1>1, <1>2, NothingOlder
  <1>5. Promise!In("executing") = {}
    BY <1>1, ShownOf, Phases DEF Promise!In, PhaseInv
  <1>6. \A i \in Ids : Shown'[i] = IF i \in {job} THEN "executing" ELSE Shown[i]
    BY <1>1, <1>2, ShownOf, ShownNext
  <1>7. Shown' = [i \in Ids |-> IF i \in {job} THEN "executing" ELSE Shown[i]]
    BY <1>6, ShownNext
  <1> QED
    BY <1>1, <1>3, <1>4, <1>5, <1>7 DEF Promise!Start, Promise!Become

LEMMA PromiseEnds ==
  ASSUME OrderInv, PhaseInv, Complete \/ Fail
  PROVE  Promise!End(job)
  <1>1. /\ pc \in {"finishing", "failed"} /\ UNCHANGED <<queue, cmd>> /\ motors' \in {motors, None}
    BY DEF Complete, Fail, Settle
  <1>2. job \in Ids /\ status \in [Ids -> Statuses] /\ status[job] = "executing"
    BY <1>1, Phases DEF OrderInv, TypeInv, TypeOK, InHand, PhaseInv, StatusInv
  <1>3. PICK outcome \in {"completed", "error"} : status' = [status EXCEPT ![job] = outcome]
    BY DEF Complete, Fail, Settle
  <1>4. \A i \in Ids : Shown'[i] = IF i \in {job} THEN outcome ELSE Shown[i]
    BY <1>1, <1>2, <1>3, ShownOf, ShownNext
  <1>5. Shown' = [i \in Ids |-> IF i \in {job} THEN outcome ELSE Shown[i]]
    BY <1>4, ShownNext
  <1>6. Shown[job] = "executing"
    BY <1>2, ShownOf
  <1> QED
    BY <1>1, <1>5, <1>6 DEF Promise!End, Promise!Become

LEMMA PromiseDrives ==
  ASSUME OrderInv, PhaseInv, Inside
  PROVE  Promise!Drive(job) \/ Promise!Halt \/ UNCHANGED <<Shown, motors>>
  <1>1. /\ UNCHANGED <<queue, cmd, status>> /\ pc \in CarryingOut
        /\ motors' \in {motors, None, job}
    BY InsideStep DEF OrderInv
  <1>2. Shown' = Shown
    BY <1>1, ShownKept
  <1>3. Shown[job] = "executing"
    <2>1. job \in Ids
      BY <1>1, Phases DEF OrderInv, TypeInv, InHand
    <2> QED
      BY <1>1, <2>1, ShownOf DEF PhaseInv, StatusInv
  <1> QED
    BY <1>1, <1>2, <1>3 DEF Promise!Drive, Promise!Halt

LEMMA StepOfPromise ==
  ASSUME OrderInv, PhaseInv, [Next]_vars
  PROVE  Promise!Next \/ UNCHANGED <<Shown, motors>>
  <1>1. ASSUME UNCHANGED <<queue, cmd, status>>, motors' \in {motors, None}
        PROVE  Promise!Halt \/ UNCHANGED <<Shown, motors>>
    BY <1>1, ShownKept DEF Promise!Halt
  <1>2. pc \notin {"poll", "recorded"} => job \in Ids
    BY DEF OrderInv, TypeInv, InHand
  <1>3. CASE Begin
    BY <1>2, <1>3, PromiseBegins DEF Begin, Promise!Next
  <1>4. CASE Complete \/ Fail
    BY <1>2, <1>4, PromiseEnds DEF Complete, Fail, Promise!Next
  <1>5. CASE Inside
    <2>1. job \in Ids
      BY <1>2, <1>5, InsideStep, Phases DEF OrderInv
    <2> QED
      BY <1>5, <2>1, PromiseDrives DEF Promise!Next
  <1>6. CASE Pop
    <2>1. job' \in Ids
      BY <1>6, PoppedOldest
    <2> QED
      BY <1>6, <2>1, PromisePops DEF Promise!Next
  <1>7. CASE BeginMalformed \/ RecordHistory \/ ClearCurrent \/ Recover
    BY <1>1, <1>7 DEF BeginMalformed, RecordHistory, ClearCurrent, Recover, Move, serviceVars,
       Promise!Next
  <1>8. ASSUME NEW c \in Clears, PressStop(c) \/ Clear(c)
        PROVE  Promise!Next \/ UNCHANGED <<Shown, motors>>
    BY <1>1, <1>8, AsideStep, PromiseCancels DEF Clear, Promise!Next
  <1>9. CASE DeadlinePasses \/ UNCHANGED vars
    BY <1>1, <1>9, AsideStep DEF Promise!Next
  <1>10. ASSUME NEW batch \in Batches, AddInstructions(batch)
         PROVE  Promise!Next
    BY <1>10, PromiseAccepts DEF Promise!Next
  <1> QED
    BY <1>3, <1>4, <1>5, <1>6, <1>7, <1>8, <1>9, <1>10 DEF Next, Execute, Inside

(* The queue, the processor, the requests and the flag implement           *)
(* RoverPromise, for any number of instructions and presses, with a driver *)
(* that may raise anywhere and a processor that need not poll in time      *)
(* (service.py).                                                           *)
THEOREM RoverKeepsPromise == Spec => KeepsRoverPromise
  <1>1. Init => Promise!Init
    BY DEF Init, Promise!Init, Shown
  <1>2. OrderInv /\ PhaseInv /\ [Next]_vars => [Promise!Next]_(Promise!promised)
    BY StepOfPromise DEF Promise!promised
  <1> QED
    BY <1>1, <1>2, OrderInvariant, PhaseInit, PhaseStep, PTL DEF Spec, Promise!Spec,
       KeepsRoverPromise
=============================================================================
