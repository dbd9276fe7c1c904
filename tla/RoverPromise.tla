---------------------------- MODULE RoverPromise ----------------------------
(***************************************************************************)
(* What the rover promises to whoever sends it instructions and presses    *)
(* Stop, and nothing about how: there is no queue, no thread and no flag   *)
(* here, only what has become of each instruction and whose motion the     *)
(* rover is in.  Instructions are carried out one at a time, each at most  *)
(* once, in the order they were sent; Stop cancels all that wait, but for  *)
(* one that may be about to begin; and only an instruction that is being   *)
(* carried out sets the rover going.  RoverQueue implements this, whatever *)
(* the driver raises and however many presses of Stop overlap.             *)
(***************************************************************************)
EXTENDS Naturals

CONSTANTS
  Ids,     \* the instructions, numbered in the order they are sent
  None     \* stands for no instruction

VARIABLES
  state,   \* what has become of each instruction
  motors   \* the instruction that set the rover going, None if it stands still

promised == <<state, motors>>

(* Nothing more becomes of these.  A lost instruction is one that cannot be *)
(* read: it is passed over, and nobody is told.                            *)
Over == {"completed", "error", "cleared", "lost"}

In(s) == {i \in Ids : state[i] = s}

Become(S, s) == state' = [i \in Ids |-> IF i \in S THEN s ELSE state[i]]

OldestLeft(i) == \A j \in Ids : j < i => state[j] \in Over

Init ==
  /\ state = [i \in Ids |-> "new"]
  /\ motors = None

Accept ==
  /\ \E batch \in SUBSET In("new") :
       /\ \A i \in batch, j \in In("new") \ batch : i < j
       /\ Become(batch, "pending")
  /\ UNCHANGED motors

Start(i) ==
  /\ state[i] = "pending" /\ OldestLeft(i)
  /\ In("executing") = {}
  /\ Become({i}, "executing")
  /\ UNCHANGED motors

Lose(i) ==
  /\ state[i] = "pending" /\ OldestLeft(i)
  /\ Become({i}, "lost")
  /\ UNCHANGED motors

End(i) ==
  /\ state[i] = "executing"
  /\ Become({i}, "completed") \/ Become({i}, "error")
  /\ motors' \in {motors, None}

(* Stop spares at most the oldest of those that wait.                      *)
Cancel ==
  /\ \E spared \in SUBSET In("pending") :
       /\ \A i \in spared, j \in In("pending") : i <= j
       /\ Become(In("pending") \ spared, "cleared")
  /\ UNCHANGED motors

Drive(i) ==
  /\ state[i] = "executing"
  /\ motors' = i
  /\ UNCHANGED state

Halt ==
  /\ motors' = None
  /\ UNCHANGED state

Next ==
  \/ Accept \/ Cancel \/ Halt
  \/ \E i \in Ids : Start(i) \/ Lose(i) \/ End(i) \/ Drive(i)

Spec == Init /\ [][Next]_promised
=============================================================================
