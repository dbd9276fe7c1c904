----------------------------- MODULE UploadLedger ----------------------------
(***************************************************************************)
(* The upload of one run's recording as Mission Control carries it out:    *)
(* the ingest route (app/api/youtube-upload/recording/route.ts) serves the *)
(* requests of the satellite, several of them at once when it asks again   *)
(* before it was answered, and the ledger document of the run              *)
(* (youtubeUploadLedger.ts) decides which of them may go to YouTube.       *)
(*                                                                         *)
(* A transaction on the document is one action.  Between two of them, or   *)
(* between one and the call to YouTube, other requests take steps, the     *)
(* lease runs out, or the instance serving the request is killed.  Videos  *)
(* are numbered by the attempt that made them.                             *)
(***************************************************************************)
EXTENDS Naturals, FiniteSets

CONSTANTS
  Requests,      \* the requests Mission Control serves at a time
  Nobody,        \* stands for no attemptId
  MaxAttempts,   \* MAX_ATTEMPTS
  Outlives       \* a request may still be running when its lease is over

ASSUME LedgerAssumption ==
  /\ Nobody \notin Requests
  /\ MaxAttempts \in Nat \ {0}
  /\ Outlives \in BOOLEAN

VARIABLES
  status,      \* status of the document, "none" before there is one
  attempts,    \* its count of attempts
  holder,      \* its attemptId: the request that made the last claim
  leased,      \* leaseUntil lies in the future
  videoId,     \* its videoId
  at,          \* where each request is
  attempt,     \* the attempt each request claimed last
  large,       \* the recording exceeds MAX_RECORDING_BYTES
  published,   \* the videos YouTube holds of the run
  offered,     \* the videos the linker has taken, to attach or to skip
  errored      \* the rover reported an error for the run

document == <<status, attempts, holder, leased, videoId>>
rover == <<large, errored>>
ledgerVars == <<document, at, attempt, rover, published, offered>>

NoVideo == 0

(* claimed: at work on the YouTube upload.  made, unmade: on its way to    *)
(* record the outcome.  linking: about to attach the video.                *)
Holding == {"claimed", "made", "unmade"}
Answers == {"done", "again", "refused", "exhausted"}
Places == {"idle", "arrived", "linking"} \cup Holding \cup Answers

LedgerInit ==
  /\ status = "none"
  /\ attempts = 0
  /\ holder = Nobody
  /\ leased = FALSE
  /\ videoId = NoVideo
  /\ at = [s \in Requests |-> "idle"]
  /\ attempt = [s \in Requests |-> 0]
  /\ large \in BOOLEAN
  /\ published = {}
  /\ offered = {}
  /\ errored \in BOOLEAN

Go(s, from, to) ==
  /\ at[s] = from
  /\ at' = [at EXCEPT ![s] = to]

(* A request reaches the route. *)
Arrive(s) ==
  /\ Go(s, "idle", "arrived")
  /\ UNCHANGED <<document, attempt, rover, published, offered>>

(* Uploads are not configured, or the secret or the metadata is refused.   *)
Refuse(s) ==
  /\ Go(s, "arrived", "refused")
  /\ UNCHANGED <<document, attempt, rover, published, offered>>

(* failureCode too-large: only the failure is recorded, over nothing that  *)
(* is uploaded or under way.                                               *)
RecordTooLarge(s) ==
  /\ large
  /\ Go(s, "arrived", "refused")
  /\ status' = IF status \in {"uploaded", "uploading"} THEN status ELSE "failed"
  /\ UNCHANGED <<attempts, holder, leased, videoId, attempt, rover, published, offered>>

(* Slip: the lease is compared the wrong way round. *)
UnderwayReversed == status = "uploading" /\ ~leased

Underway == status = "uploading" /\ leased

Exhausted == attempts >= MaxAttempts

(* Slip: the new count is not written. *)
ClaimUncounted(s) ==
  /\ ~large
  /\ status # "uploaded" /\ ~Underway /\ ~Exhausted
  /\ Go(s, "arrived", "claimed")
  /\ status' = "uploading"
  /\ holder' = s
  /\ leased' = TRUE
  /\ attempt' = [attempt EXCEPT ![s] = attempts + 1]
  /\ UNCHANGED <<attempts, videoId, rover, published, offered>>

(* claimAutomaticUpload, in the order it asks: uploaded, under way, out of *)
(* attempts, or this request's to try.                                     *)
Claim(s) ==
  /\ ~large
  /\ status # "uploaded" /\ ~Underway /\ ~Exhausted
  /\ Go(s, "arrived", "claimed")
  /\ status' = "uploading"
  /\ attempts' = attempts + 1
  /\ holder' = s
  /\ leased' = TRUE
  /\ attempt' = [attempt EXCEPT ![s] = attempts + 1]
  /\ UNCHANGED <<videoId, rover, published, offered>>

FindUploaded(s) ==
  /\ ~large
  /\ status = "uploaded"
  /\ Go(s, "arrived", "linking")
  /\ attempt' = [attempt EXCEPT ![s] = videoId]
  /\ UNCHANGED <<document, rover, published, offered>>

FindUnderway(s) ==
  /\ ~large
  /\ Underway
  /\ Go(s, "arrived", "again")
  /\ UNCHANGED <<document, attempt, rover, published, offered>>

(* Slip: the limit is looked at before the attempt that is under way. *)
FindExhaustedFirst(s) ==
  /\ ~large
  /\ status # "uploaded" /\ Exhausted
  /\ Go(s, "arrived", "exhausted")
  /\ UNCHANGED <<document, attempt, rover, published, offered>>

FindExhausted(s) ==
  /\ ~large
  /\ status # "uploaded" /\ ~Underway /\ Exhausted
  /\ Go(s, "arrived", "exhausted")
  /\ UNCHANGED <<document, attempt, rover, published, offered>>

(* The call to YouTube.  An error does not say that nothing was published: *)
(* the answer may be lost, or be over the 180 s it is waited for.          *)
Publish(s) ==
  /\ Go(s, "claimed", "made")
  /\ published' = published \cup {attempt[s]}
  /\ UNCHANGED <<document, attempt, rover, offered>>

PublishFails(s) ==
  /\ Go(s, "claimed", "unmade")
  /\ published' \in {published, published \cup {attempt[s]}}
  /\ UNCHANGED <<document, attempt, rover, offered>>

(* Slip: only the status is asked for, not whose attempt it is. *)
MayFinishAnyHolder(s) == status = "uploading"

(* finishAutomaticUpload changes the document for the attempt it names.    *)
MayFinish(s) == holder = s /\ status = "uploading"

(* The request goes on the same way when the document is not its own.      *)
FinishUploaded(s) ==
  /\ Go(s, "made", "linking")
  /\ status' = IF MayFinish(s) THEN "uploaded" ELSE status
  /\ videoId' = IF MayFinish(s) THEN attempt[s] ELSE videoId
  /\ leased' = (leased /\ ~MayFinish(s))
  /\ UNCHANGED <<attempts, holder, attempt, rover, published, offered>>

(* The transaction throws, before or after its commit, and the catch       *)
(* records a failed attempt instead.                                       *)
FinishThrows(s) ==
  /\ Go(s, "made", "unmade")
  /\ \/ UNCHANGED document
     \/ /\ MayFinish(s)
        /\ status' = "uploaded"
        /\ videoId' = attempt[s]
        /\ leased' = FALSE
        /\ UNCHANGED <<attempts, holder>>
  /\ UNCHANGED <<attempt, rover, published, offered>>

FinishFailed(s) ==
  /\ Go(s, "unmade", "again")
  /\ status' = IF MayFinish(s) THEN "failed" ELSE status
  /\ leased' = (leased /\ ~MayFinish(s))
  /\ UNCHANGED <<attempts, holder, videoId, attempt, rover, published, offered>>

(* That one throws too, or the claim did: 503, and the document as it was. *)
Unrecorded(s) ==
  /\ \E from \in {"arrived", "unmade"} : Go(s, from, "again")
  /\ UNCHANGED <<document, attempt, rover, published, offered>>

(* Slip: the answer is given first and the video attached at leisure. *)
AnswerUnlinked(s) ==
  /\ Go(s, "linking", "done")
  /\ UNCHANGED <<document, attempt, rover, published, offered>>

(* linkUpload: the video goes to the linker, unless the rover reported an  *)
(* error.  What the linker makes of it is not modelled here.               *)
Link(s) ==
  /\ Go(s, "linking", "done")
  /\ offered' = IF errored THEN offered ELSE offered \cup {attempt[s]}
  /\ UNCHANGED <<document, attempt, rover, published>>

(* The linker throws: 503, so that the satellite asks again. *)
LinkFails(s) ==
  /\ Go(s, "linking", "again")
  /\ UNCHANGED <<document, attempt, rover, published, offered>>

(* The satellite has the answer, or is no longer there to take it.         *)
Answered(s) ==
  /\ at[s] \in Answers
  /\ at' = [at EXCEPT ![s] = "idle"]
  /\ UNCHANGED <<document, attempt, rover, published, offered>>

(* The instance is killed.  YouTube may finish what it was sent.           *)
Killed(s) ==
  /\ at[s] \notin {"idle"} \cup Answers
  /\ at' = [at EXCEPT ![s] = "again"]
  /\ published' \in {published} \cup
       (IF at[s] = "claimed" THEN {published \cup {attempt[s]}} ELSE {})
  /\ UNCHANGED <<document, attempt, rover, offered>>

(* Fifteen minutes: longer than a request lives, unless Outlives.          *)
LeaseEnds ==
  /\ leased
  /\ Outlives \/ at[holder] \notin Holding
  /\ leased' = FALSE
  /\ UNCHANGED <<status, attempts, holder, videoId, at, attempt, rover, published, offered>>

Serve(s) ==
  \/ Refuse(s) \/ RecordTooLarge(s)
  \/ Claim(s) \/ FindUploaded(s) \/ FindUnderway(s) \/ FindExhausted(s)
  \/ Publish(s) \/ PublishFails(s)
  \/ FinishUploaded(s) \/ FinishThrows(s) \/ FinishFailed(s) \/ Unrecorded(s)
  \/ Link(s) \/ LinkFails(s)
  \/ Killed(s)

LedgerNext ==
  \/ \E s \in Requests : Arrive(s) \/ Serve(s) \/ Answered(s)
  \/ LeaseEnds

LedgerSpec == LedgerInit /\ [][LedgerNext]_ledgerVars

-----------------------------------------------------------------------------
LedgerTypeOK ==
  /\ status \in {"none", "uploading", "uploaded", "failed"}
  /\ attempts \in 0..MaxAttempts
  /\ holder \in Requests \cup {Nobody}
  /\ leased \in BOOLEAN
  /\ videoId \in 0..MaxAttempts
  /\ at \in [Requests -> Places]
  /\ attempt \in [Requests -> 0..MaxAttempts]
  /\ large \in BOOLEAN
  /\ published \subseteq 1..MaxAttempts
  /\ offered \subseteq 1..MaxAttempts
  /\ errored \in BOOLEAN

(* The document says what became of the upload: the requests between them  *)
(* do nothing that one request after the other would not have done.        *)
Promise == INSTANCE RunVideo WITH state <- status, tries <- attempts, video <- videoId

ImplementsPromise == Promise!Spec

(* YouTube never holds more videos of a run than there were attempts, and  *)
(* the video the document names is one that YouTube holds.  (It may hold   *)
(* more than one: an upload whose answer was lost is made again.)          *)
VideosAccountedFor ==
  /\ published \subseteq 1..attempts
  /\ status = "uploaded" => videoId \in published

(* One request at a time is at work on the upload, the one the document    *)
(* names, unless a request lives longer than its lease.                    *)
OneUploader ==
  ~Outlives => \A s \in Requests : at[s] \in Holding => holder = s /\ (leased \/ status = "uploaded")

(* One video of the run goes to the linker, the one in the document, how-  *)
(* ever often the satellite delivered and YouTube published.               *)
OneVideoOffered == ~Outlives => offered \subseteq {videoId}
=============================================================================
