------------------------------ MODULE RunVideo -------------------------------
(***************************************************************************)
(* What Mission Control promises about the automatic upload of one run's   *)
(* recording, and nothing about how: it is tried a bounded number of       *)
(* times, one try after the other, a video is only ever recorded as the    *)
(* outcome of the latest try, and once it is recorded that is final.       *)
(* UploadLedger implements this.                                           *)
(***************************************************************************)
EXTENDS Naturals

CONSTANT MaxAttempts

VARIABLES
  state,    \* what the operator is shown of the upload
  tries,    \* how often it has been tried
  video     \* the try whose video is the run's, NoVideo before there is one

vars == <<state, tries, video>>

NoVideo == 0

Init ==
  /\ state = "none"
  /\ tries = 0
  /\ video = NoVideo

(* A new try, after a failed one or one that was never heard of again. *)
Try ==
  /\ state # "uploaded"
  /\ tries < MaxAttempts
  /\ state' = "uploading"
  /\ tries' = tries + 1
  /\ UNCHANGED video

Succeed ==
  /\ state = "uploading"
  /\ state' = "uploaded"
  /\ video' = tries
  /\ UNCHANGED tries

(* A try fails, or there is nothing to try with: the file is too large. *)
Fail ==
  /\ state # "uploaded"
  /\ state' = "failed"
  /\ UNCHANGED <<tries, video>>

Next == Try \/ Succeed \/ Fail

Spec == Init /\ [][Next]_vars
=============================================================================
