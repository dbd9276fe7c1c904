---------------------------- MODULE UploadDelivery ---------------------------
(***************************************************************************)
(* The delivery of one recording, end to end: the outbox of the satellite  *)
(* (yard/satellite/youtube_upload.py) over the ledger of Mission Control   *)
(* (UploadLedger).  The note beside the recording says what is still to be *)
(* done.  Two threads write it: the delivery pass, which keeps the note it *)
(* read while its request is out, and the watcher, which wakes what waits  *)
(* when a probe finds the connection is back.  The satellite may lose its  *)
(* power, requests and answers may be lost, and a request whose sender is  *)
(* gone is served all the same.                                            *)
(***************************************************************************)
EXTENDS UploadLedger

VARIABLES
  note,      \* state of the note; "unqueued" and "gone": there is no note
  nextTry,   \* nextTryAt: at once (zero), or a time ahead or past
  kept,      \* the recording is still on the card
  pass,      \* where the delivery pass is, "off" while _delivering is free
  mine,      \* the request the pass is waiting for
  verdict,   \* what came of it
  waker,     \* the watcher has read the note and is about to write it
  offline    \* _connection: the last request out found no connection

outboxVars == <<note, nextTry, kept, pass, mine, verdict, waker, offline>>
vars == <<ledgerVars, outboxVars>>

Settled == {"uploaded", "manual"}

Init ==
  /\ LedgerInit
  /\ note = "unqueued"
  /\ nextTry = "zero"
  /\ kept = TRUE
  /\ pass = "off"
  /\ mine = Nobody
  /\ verdict = "none"
  /\ waker = "off"
  /\ offline = FALSE

Due == note = "waiting" /\ nextTry \in {"zero", "past"}

(* queue_upload, called by the watcher: the note, and a kick. *)
QueueUpload ==
  /\ note = "unqueued"
  /\ waker = "off"
  /\ note' = "waiting"
  /\ nextTry' = "zero"
  /\ pass' = IF pass = "off" THEN "looking" ELSE pass
  /\ UNCHANGED <<ledgerVars, kept, mine, verdict, waker, offline>>

(* kick: at most one pass at a time.  Saving the secret on the Settings    *)
(* page kicks as well, whatever is due.                                    *)
Kick ==
  /\ pass = "off"
  /\ note \notin {"unqueued", "gone"}
  /\ pass' = "looking"
  /\ UNCHANGED <<ledgerVars, note, nextTry, kept, mine, verdict, waker, offline>>

(* tick: the watcher kicks while something is due. *)
Tick == waker = "off" /\ Due /\ Kick

(* deliver_due: a note without its recording is dropped, one that is not   *)
(* due is passed over.                                                     *)
PassOver ==
  /\ pass = "looking"
  /\ ~kept \/ ~Due
  /\ note' = IF kept THEN note ELSE "gone"
  /\ pass' = "off"
  /\ UNCHANGED <<ledgerVars, nextTry, kept, mine, verdict, waker, offline>>

Send(s) ==
  /\ pass = "looking"
  /\ kept /\ Due
  /\ Arrive(s)
  /\ pass' = "sending"
  /\ mine' = s
  /\ UNCHANGED <<note, nextTry, kept, verdict, waker, offline>>

(* No way out, or the file went between the check and the send.            *)
SendFails ==
  /\ pass = "looking"
  /\ Due
  /\ pass' = "writing"
  /\ verdict' = "again"
  /\ offline' = TRUE
  /\ UNCHANGED <<ledgerVars, note, nextTry, kept, mine, waker>>

(* _saw, on the way back from an answer: the pass is one of those that     *)
(* wake the notes.  It settles this one itself a moment later.             *)
Answer ==
  /\ pass = "sending"
  /\ at[mine] \in Answers
  /\ Answered(mine)
  /\ verdict' = at[mine]
  /\ offline' = FALSE
  /\ nextTry' = IF offline /\ note = "waiting" THEN "zero" ELSE nextTry
  /\ pass' = "writing"
  /\ mine' = Nobody
  /\ UNCHANGED <<note, kept, waker>>

(* The connection breaks, or 180 s go by.  The request may still be served.*)
AnswerLost ==
  /\ pass = "sending"
  /\ verdict' = "again"
  /\ offline' = TRUE
  /\ pass' = "writing"
  /\ mine' = Nobody
  /\ UNCHANGED <<ledgerVars, note, nextTry, kept, waker>>

(* Slip: what the ledger allows no more is asked for again. *)
NoteForRetried(v) == CASE v = "done" -> "uploaded"
                       [] v = "refused" -> "manual"
                       [] v \in {"again", "exhausted"} -> "waiting"

NoteFor(v) == CASE v = "done" -> "uploaded"
                [] v \in {"refused", "exhausted"} -> "manual"
                [] v = "again" -> "waiting"

(* The note as the pass read it, with what came of the request.            *)
WriteNote ==
  /\ pass = "writing"
  /\ note' = NoteFor(verdict)
  /\ nextTry' = IF verdict = "again" THEN "future" ELSE nextTry
  /\ pass' = "off"
  /\ verdict' = "none"
  /\ UNCHANGED <<ledgerVars, kept, mine, waker, offline>>

(* A sender that is gone takes no answer. *)
Unheard(s) ==
  /\ s # mine
  /\ Answered(s)
  /\ UNCHANGED outboxVars

(* check_connection, on the watcher's thread, while something waits.       *)
ProbeFails ==
  /\ waker = "off"
  /\ note = "waiting"
  /\ offline' = TRUE
  /\ UNCHANGED <<ledgerVars, note, nextTry, kept, pass, mine, verdict, waker>>

ProbeAnswers ==
  /\ waker = "off"
  /\ note = "waiting"
  /\ offline' = FALSE
  /\ waker' = IF offline /\ nextTry # "zero" THEN "holding" ELSE "off"
  /\ UNCHANGED <<ledgerVars, note, nextTry, kept, pass, mine, verdict>>

(* The note as the watcher read it, to be tried at once.                   *)
Wake ==
  /\ waker = "holding"
  /\ note' = "waiting"
  /\ nextTry' = "zero"
  /\ waker' = "off"
  /\ UNCHANGED <<ledgerVars, kept, pass, mine, verdict, offline>>

BackoffEnds ==
  /\ nextTry = "future"
  /\ nextTry' = "past"
  /\ UNCHANGED <<ledgerVars, note, kept, pass, mine, verdict, waker, offline>>

(* On the Settings page, or by the sweep.  The note stays behind.          *)
DeleteRecording ==
  /\ note # "unqueued"
  /\ kept' = FALSE
  /\ UNCHANGED <<ledgerVars, note, nextTry, pass, mine, verdict, waker, offline>>

(* The satellite's power goes: what is on the card stays.                  *)
Restart ==
  /\ pass' = "off"
  /\ mine' = Nobody
  /\ verdict' = "none"
  /\ waker' = "off"
  /\ offline' = FALSE
  /\ UNCHANGED <<ledgerVars, note, nextTry, kept>>

Ledger ==
  /\ (\E s \in Requests : Serve(s)) \/ LeaseEnds
  /\ UNCHANGED outboxVars

Pass == PassOver \/ (\E s \in Requests : Send(s)) \/ SendFails \/ Answer \/ AnswerLost
        \/ WriteNote

Watcher == QueueUpload \/ Kick \/ ProbeFails \/ ProbeAnswers \/ Wake

Next ==
  \/ Pass \/ Watcher \/ Ledger
  \/ \E s \in Requests : Unheard(s)
  \/ BackoffEnds \/ DeleteRecording \/ Restart

Spec == Init /\ [][Next]_vars

(* What goes wrong on the way, other than at YouTube.  A step the code may *)
(* take without a fault, to the same effect, is none.                      *)
Fault ==
  /\ \/ Restart \/ SendFails \/ AnswerLost \/ ProbeFails
     \/ \E s \in Requests : /\ Killed(s) \/ Unrecorded(s) \/ FinishThrows(s) \/ LinkFails(s)
                           /\ UNCHANGED outboxVars
  /\ ~WriteNote /\ ~PassOver
  /\ \A s \in Requests : ~FindUnderway(s) /\ ~FinishFailed(s)

(***************************************************************************)
(* The watcher and the requests that arrived keep running and time passes. *)
(* The satellite finds a lasting connection some day: however much goes    *)
(* wrong, the last fault lies behind it.  YouTube may fail for ever.       *)
(***************************************************************************)
Fairness ==
  /\ WF_vars(Pass) /\ WF_vars(Tick) /\ WF_vars(Wake) /\ WF_vars(BackoffEnds)
  /\ WF_vars(LeaseEnds /\ UNCHANGED outboxVars)
  /\ \A s \in Requests : WF_vars(Unheard(s)) /\ WF_vars(Serve(s) /\ UNCHANGED outboxVars)
  /\ <>[][~Fault]_vars

FairSpec == Spec /\ Fairness

-----------------------------------------------------------------------------
TypeOK ==
  /\ LedgerTypeOK
  /\ note \in {"unqueued", "waiting", "gone"} \cup Settled
  /\ nextTry \in {"zero", "future", "past"}
  /\ kept \in BOOLEAN
  /\ pass \in {"off", "looking", "sending", "writing"}
  /\ mine \in Requests \cup {Nobody}
  /\ verdict \in Answers \cup {"none"}
  /\ waker \in {"off", "holding"}
  /\ offline \in BOOLEAN

(* What the Settings page shows as uploaded, Mission Control has: the      *)
(* ledger holds the video and, unless the rover reported an error, the     *)
(* linker has been given it.                                               *)
UploadedNoteIsTrue ==
  ~Outlives /\ note = "uploaded" => status = "uploaded" /\ (errored \/ offered = {videoId})

(* The satellite gives up for want of attempts only when nothing can come  *)
(* of the ones that were made: no earlier request, heard of or not, is     *)
(* still at work on the upload, and none has succeeded.                    *)
GivesUpOnlyWhenOver ==
  ~Outlives /\ verdict = "exhausted" =>
    /\ status # "uploaded"
    /\ \A s \in Requests : at[s] \notin Holding

(* A recording that was queued is delivered, or given up on, or deleted:   *)
(* however often the connection, the power or Mission Control fail.        *)
EveryNoteSettles == (note = "waiting") ~> (note # "waiting")

(* "A note outlives its delivery ... the note stays with what happened"    *)
(* (youtube_upload.py): a note that is settled is not waiting again.       *)
SettledStays == [][(note \in Settled) => (note' \in Settled \cup {"gone"})]_vars
=============================================================================
