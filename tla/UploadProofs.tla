---------------------------- MODULE UploadProofs ----------------------------
(***************************************************************************)
(* What uploading a recording guarantees, for any number of requests and   *)
(* attempts: first what the ledger does by itself (UploadLedger), then     *)
(* end to end, from the satellite's outbox (UploadDelivery).  The ledger's *)
(* theorems carry over, for the satellite takes part in every step as one  *)
(* of the ledger's requests or not at all; on them rest the two promises   *)
(* about what the satellite shows.                                         *)
(***************************************************************************)
EXTENDS UploadDelivery, TLAPS


(***************************************************************************)
(* The inductive invariant.  Where a request is says which attempt it      *)
(* speaks for: a claim is never ahead of the count, a request about to     *)
(* record or to link a video has one that YouTube holds, and the request   *)
(* the document names speaks for the latest attempt.                       *)
(***************************************************************************)
AttemptsCounted ==
  /\ published \subseteq 1..attempts
  /\ \A s \in Requests : at[s] \in Holding => attempt[s] \in 1..attempts
  /\ leased => status = "uploading"

VideosExist ==
  /\ status = "uploaded" => videoId \in published
  /\ \A s \in Requests : at[s] \in {"made", "linking"} => attempt[s] \in published

HolderIsLatest ==
  \A s \in Requests :
    holder = s /\ at[s] \in Holding /\ status = "uploading" => attempt[s] = attempts

Bookkeeping == AttemptsCounted /\ VideosExist /\ HolderIsLatest

(* With requests that do not outlive their lease, one of them at a time is *)
(* between its claim and its finish.                                       *)
OneClaim ==
  \A s \in Requests :
    /\ at[s] \in Holding => holder = s
    /\ at[s] \in {"claimed", "made"} => leased
    /\ at[s] = "unmade" => leased \/ status = "uploaded"

OneVideo ==
  /\ \A s \in Requests : at[s] = "linking" => status = "uploaded" /\ attempt[s] = videoId
  /\ offered # {} => status = "uploaded"
  /\ offered \subseteq {videoId}

Exclusive == OneClaim /\ OneVideo

-----------------------------------------------------------------------------
LEMMA LedgerInitTyped == LedgerInit => LedgerTypeOK
<1> SUFFICES ASSUME LedgerInit PROVE LedgerTypeOK
  OBVIOUS
<1>1. 0 \in 0..MaxAttempts
  BY LedgerAssumption
<1>2. at \in [Requests -> Places]
  BY DEF LedgerInit, Places
<1>3. attempt \in [Requests -> 0..MaxAttempts]
  BY <1>1 DEF LedgerInit
<1>4. published \subseteq 1..MaxAttempts /\ offered \subseteq 1..MaxAttempts
  BY DEF LedgerInit
<1>. QED
  BY <1>1, <1>2, <1>3, <1>4 DEF LedgerInit, LedgerTypeOK, NoVideo

LEMMA LedgerStepTyped ==
  LedgerTypeOK /\ Bookkeeping /\ [LedgerNext]_ledgerVars => LedgerTypeOK'
<1> SUFFICES ASSUME LedgerTypeOK, Bookkeeping, [LedgerNext]_ledgerVars PROVE LedgerTypeOK'
  OBVIOUS
<1> USE LedgerAssumption
    DEF LedgerTypeOK, Places, Holding, Answers, document, rover, Go, MayFinish
<1>1. CASE \E s \in Requests : Arrive(s) \/ Serve(s) \/ Answered(s)
  <2> PICK s \in Requests : Arrive(s) \/ Serve(s) \/ Answered(s)
    BY <1>1
  <2>1. CASE Arrive(s) BY <2>1 DEF Arrive
  <2>2. CASE Refuse(s) BY <2>2 DEF Refuse
  <2>3. CASE RecordTooLarge(s) BY <2>3 DEF RecordTooLarge
  <2>4. CASE Claim(s) BY <2>4 DEF Claim, Exhausted
  <2>5. CASE FindUploaded(s) BY <2>5 DEF FindUploaded
  <2>6. CASE FindUnderway(s) BY <2>6 DEF FindUnderway
  <2>7. CASE FindExhausted(s) BY <2>7 DEF FindExhausted
  <2>8. CASE Publish(s)
    <3>1. attempt[s] \in 1..MaxAttempts
      BY <2>8 DEF Publish, Bookkeeping, AttemptsCounted
    <3>. QED BY <2>8, <3>1 DEF Publish
  <2>9. CASE PublishFails(s) BY <2>9 DEF PublishFails, Bookkeeping, AttemptsCounted
  <2>10. CASE FinishUploaded(s) BY <2>10 DEF FinishUploaded
  <2>11. CASE FinishThrows(s) BY <2>11 DEF FinishThrows
  <2>12. CASE FinishFailed(s) BY <2>12 DEF FinishFailed
  <2>13. CASE Unrecorded(s) BY <2>13 DEF Unrecorded
  <2>14. CASE Link(s) BY <2>14 DEF Link, Bookkeeping, VideosExist
  <2>15. CASE LinkFails(s) BY <2>15 DEF LinkFails
  <2>16. CASE Killed(s) BY <2>16 DEF Killed, Bookkeeping, AttemptsCounted
  <2>17. CASE Answered(s) BY <2>17 DEF Answered
  <2>. QED
    BY <2>1, <2>2, <2>3, <2>4, <2>5, <2>6, <2>7, <2>8, <2>9, <2>10, <2>11, <2>12, <2>13,
       <2>14, <2>15, <2>16, <2>17 DEF Serve
<1>2. CASE LeaseEnds BY <1>2 DEF LeaseEnds
<1>3. CASE UNCHANGED ledgerVars BY <1>3 DEF ledgerVars
<1>. QED BY <1>1, <1>2, <1>3 DEF LedgerNext

(* The count keeps up with the claims, which are the only ones to raise it. *)
LEMMA CountStep ==
  LedgerTypeOK /\ Bookkeeping /\ [LedgerNext]_ledgerVars => AttemptsCounted'
<1> SUFFICES ASSUME LedgerTypeOK, Bookkeeping, [LedgerNext]_ledgerVars PROVE AttemptsCounted'
  OBVIOUS
<1> USE LedgerAssumption
    DEF LedgerTypeOK, Places, Holding, Answers, document, rover, Go, MayFinish,
        Bookkeeping, AttemptsCounted, VideosExist
<1>1. CASE \E s \in Requests : Arrive(s) \/ Serve(s) \/ Answered(s)
  <2> PICK s \in Requests : Arrive(s) \/ Serve(s) \/ Answered(s)
    BY <1>1
  <2>1. CASE Arrive(s) BY <2>1 DEF Arrive
  <2>2. CASE Refuse(s) BY <2>2 DEF Refuse
  <2>3. CASE RecordTooLarge(s) BY <2>3 DEF RecordTooLarge
  <2>4. CASE Claim(s) BY <2>4 DEF Claim, Underway
  <2>5. CASE FindUploaded(s) BY <2>5 DEF FindUploaded
  <2>6. CASE FindUnderway(s) BY <2>6 DEF FindUnderway
  <2>7. CASE FindExhausted(s) BY <2>7 DEF FindExhausted
  <2>8. CASE Publish(s) BY <2>8 DEF Publish
  <2>9. CASE PublishFails(s) BY <2>9 DEF PublishFails
  <2>10. CASE FinishUploaded(s) BY <2>10 DEF FinishUploaded
  <2>11. CASE FinishThrows(s) BY <2>11 DEF FinishThrows
  <2>12. CASE FinishFailed(s) BY <2>12 DEF FinishFailed
  <2>13. CASE Unrecorded(s) BY <2>13 DEF Unrecorded
  <2>14. CASE Link(s) BY <2>14 DEF Link
  <2>15. CASE LinkFails(s) BY <2>15 DEF LinkFails
  <2>16. CASE Killed(s) BY <2>16 DEF Killed
  <2>17. CASE Answered(s) BY <2>17 DEF Answered
  <2>. QED
    BY <2>1, <2>2, <2>3, <2>4, <2>5, <2>6, <2>7, <2>8, <2>9, <2>10, <2>11, <2>12, <2>13,
       <2>14, <2>15, <2>16, <2>17 DEF Serve
<1>2. CASE LeaseEnds BY <1>2 DEF LeaseEnds
<1>3. CASE UNCHANGED ledgerVars BY <1>3 DEF ledgerVars
<1>. QED BY <1>1, <1>2, <1>3 DEF LedgerNext

LEMMA VideoStep ==
  LedgerTypeOK /\ Bookkeeping /\ [LedgerNext]_ledgerVars => VideosExist'
<1> SUFFICES ASSUME LedgerTypeOK, Bookkeeping, [LedgerNext]_ledgerVars PROVE VideosExist'
  OBVIOUS
<1> USE LedgerAssumption
    DEF LedgerTypeOK, Places, Holding, Answers, document, rover, Go, MayFinish,
        Bookkeeping, AttemptsCounted, VideosExist
<1>1. CASE \E s \in Requests : Arrive(s) \/ Serve(s) \/ Answered(s)
  <2> PICK s \in Requests : Arrive(s) \/ Serve(s) \/ Answered(s)
    BY <1>1
  <2>1. CASE Arrive(s) BY <2>1 DEF Arrive
  <2>2. CASE Refuse(s) BY <2>2 DEF Refuse
  <2>3. CASE RecordTooLarge(s) BY <2>3 DEF RecordTooLarge
  <2>4. CASE Claim(s) BY <2>4 DEF Claim, Underway
  <2>5. CASE FindUploaded(s) BY <2>5 DEF FindUploaded
  <2>6. CASE FindUnderway(s) BY <2>6 DEF FindUnderway
  <2>7. CASE FindExhausted(s) BY <2>7 DEF FindExhausted
  <2>8. CASE Publish(s) BY <2>8 DEF Publish
  <2>9. CASE PublishFails(s) BY <2>9 DEF PublishFails
  <2>10. CASE FinishUploaded(s) BY <2>10 DEF FinishUploaded
  <2>11. CASE FinishThrows(s) BY <2>11 DEF FinishThrows
  <2>12. CASE FinishFailed(s) BY <2>12 DEF FinishFailed
  <2>13. CASE Unrecorded(s) BY <2>13 DEF Unrecorded
  <2>14. CASE Link(s) BY <2>14 DEF Link
  <2>15. CASE LinkFails(s) BY <2>15 DEF LinkFails
  <2>16. CASE Killed(s) BY <2>16 DEF Killed
  <2>17. CASE Answered(s) BY <2>17 DEF Answered
  <2>. QED
    BY <2>1, <2>2, <2>3, <2>4, <2>5, <2>6, <2>7, <2>8, <2>9, <2>10, <2>11, <2>12, <2>13,
       <2>14, <2>15, <2>16, <2>17 DEF Serve
<1>2. CASE LeaseEnds BY <1>2 DEF LeaseEnds
<1>3. CASE UNCHANGED ledgerVars BY <1>3 DEF ledgerVars
<1>. QED BY <1>1, <1>2, <1>3 DEF LedgerNext

(* A claim makes its request the holder and its attempt the latest at once. *)
LEMMA HolderStep ==
  LedgerTypeOK /\ Bookkeeping /\ [LedgerNext]_ledgerVars => HolderIsLatest'
<1> SUFFICES ASSUME LedgerTypeOK, Bookkeeping, [LedgerNext]_ledgerVars PROVE HolderIsLatest'
  OBVIOUS
<1> USE LedgerAssumption
    DEF LedgerTypeOK, Places, Holding, Answers, document, rover, Go, MayFinish,
        Bookkeeping, HolderIsLatest
<1>1. CASE \E s \in Requests : Arrive(s) \/ Serve(s) \/ Answered(s)
  <2> PICK s \in Requests : Arrive(s) \/ Serve(s) \/ Answered(s)
    BY <1>1
  <2>1. CASE Arrive(s) BY <2>1 DEF Arrive
  <2>2. CASE Refuse(s) BY <2>2 DEF Refuse
  <2>3. CASE RecordTooLarge(s) BY <2>3 DEF RecordTooLarge
  <2>4. CASE Claim(s) BY <2>4 DEF Claim, Underway
  <2>5. CASE FindUploaded(s) BY <2>5 DEF FindUploaded
  <2>6. CASE FindUnderway(s) BY <2>6 DEF FindUnderway
  <2>7. CASE FindExhausted(s) BY <2>7 DEF FindExhausted
  <2>8. CASE Publish(s) BY <2>8 DEF Publish
  <2>9. CASE PublishFails(s) BY <2>9 DEF PublishFails
  <2>10. CASE FinishUploaded(s) BY <2>10 DEF FinishUploaded
  <2>11. CASE FinishThrows(s) BY <2>11 DEF FinishThrows
  <2>12. CASE FinishFailed(s) BY <2>12 DEF FinishFailed
  <2>13. CASE Unrecorded(s) BY <2>13 DEF Unrecorded
  <2>14. CASE Link(s) BY <2>14 DEF Link
  <2>15. CASE LinkFails(s) BY <2>15 DEF LinkFails
  <2>16. CASE Killed(s) BY <2>16 DEF Killed
  <2>17. CASE Answered(s) BY <2>17 DEF Answered
  <2>. QED
    BY <2>1, <2>2, <2>3, <2>4, <2>5, <2>6, <2>7, <2>8, <2>9, <2>10, <2>11, <2>12, <2>13,
       <2>14, <2>15, <2>16, <2>17 DEF Serve
<1>2. CASE LeaseEnds BY <1>2 DEF LeaseEnds
<1>3. CASE UNCHANGED ledgerVars BY <1>3 DEF ledgerVars
<1>. QED BY <1>1, <1>2, <1>3 DEF LedgerNext

LEMMA BookkeepingInit == LedgerInit => Bookkeeping
  BY DEF LedgerInit, Bookkeeping, AttemptsCounted, VideosExist, HolderIsLatest, Holding

(* A claim is only made while no request holds one: the holder has the     *)
(* lease until it has recorded what became of its attempt.                 *)
LEMMA OneClaimStep ==
  ASSUME ~Outlives
  PROVE  LedgerTypeOK /\ AttemptsCounted /\ Exclusive /\ [LedgerNext]_ledgerVars => OneClaim'
<1> SUFFICES ASSUME LedgerTypeOK, AttemptsCounted, Exclusive, [LedgerNext]_ledgerVars PROVE OneClaim'
  OBVIOUS
<1> USE LedgerAssumption
    DEF LedgerTypeOK, Places, Holding, Answers, document, rover, Go, MayFinish,
        AttemptsCounted, Exclusive, OneClaim
<1>1. CASE \E s \in Requests : Arrive(s) \/ Serve(s) \/ Answered(s)
  <2> PICK s \in Requests : Arrive(s) \/ Serve(s) \/ Answered(s)
    BY <1>1
  <2>1. CASE Arrive(s) BY <2>1 DEF Arrive
  <2>2. CASE Refuse(s) BY <2>2 DEF Refuse
  <2>3. CASE RecordTooLarge(s) BY <2>3 DEF RecordTooLarge
  <2>4. CASE Claim(s) BY <2>4 DEF Claim, Underway
  <2>5. CASE FindUploaded(s) BY <2>5 DEF FindUploaded
  <2>6. CASE FindUnderway(s) BY <2>6 DEF FindUnderway
  <2>7. CASE FindExhausted(s) BY <2>7 DEF FindExhausted
  <2>8. CASE Publish(s) BY <2>8 DEF Publish
  <2>9. CASE PublishFails(s) BY <2>9 DEF PublishFails
  <2>10. CASE FinishUploaded(s) BY <2>10 DEF FinishUploaded
  <2>11. CASE FinishThrows(s) BY <2>11 DEF FinishThrows
  <2>12. CASE FinishFailed(s) BY <2>12 DEF FinishFailed
  <2>13. CASE Unrecorded(s) BY <2>13 DEF Unrecorded
  <2>14. CASE Link(s) BY <2>14 DEF Link
  <2>15. CASE LinkFails(s) BY <2>15 DEF LinkFails
  <2>16. CASE Killed(s) BY <2>16 DEF Killed
  <2>17. CASE Answered(s) BY <2>17 DEF Answered
  <2>. QED
    BY <2>1, <2>2, <2>3, <2>4, <2>5, <2>6, <2>7, <2>8, <2>9, <2>10, <2>11, <2>12, <2>13,
       <2>14, <2>15, <2>16, <2>17 DEF Serve
<1>2. CASE LeaseEnds BY <1>2 DEF LeaseEnds
<1>3. CASE UNCHANGED ledgerVars BY <1>3 DEF ledgerVars
<1>. QED BY <1>1, <1>2, <1>3 DEF LedgerNext

(* The holder that records a video changes the document; from then on it   *)
(* is not changed, and every request that links has read it.               *)
LEMMA OneVideoStep ==
  ASSUME ~Outlives
  PROVE  LedgerTypeOK /\ AttemptsCounted /\ Exclusive /\ [LedgerNext]_ledgerVars => OneVideo'
<1> SUFFICES ASSUME LedgerTypeOK, AttemptsCounted, Exclusive, [LedgerNext]_ledgerVars PROVE OneVideo'
  OBVIOUS
<1> USE LedgerAssumption
    DEF LedgerTypeOK, Places, Holding, Answers, document, rover, Go, MayFinish,
        AttemptsCounted, Exclusive, OneClaim, OneVideo
<1>1. CASE \E s \in Requests : Arrive(s) \/ Serve(s) \/ Answered(s)
  <2> PICK s \in Requests : Arrive(s) \/ Serve(s) \/ Answered(s)
    BY <1>1
  <2>1. CASE Arrive(s) BY <2>1 DEF Arrive
  <2>2. CASE Refuse(s) BY <2>2 DEF Refuse
  <2>3. CASE RecordTooLarge(s) BY <2>3 DEF RecordTooLarge
  <2>4. CASE Claim(s) BY <2>4 DEF Claim, Underway
  <2>5. CASE FindUploaded(s) BY <2>5 DEF FindUploaded
  <2>6. CASE FindUnderway(s) BY <2>6 DEF FindUnderway
  <2>7. CASE FindExhausted(s) BY <2>7 DEF FindExhausted
  <2>8. CASE Publish(s) BY <2>8 DEF Publish
  <2>9. CASE PublishFails(s) BY <2>9 DEF PublishFails
  <2>10. CASE FinishUploaded(s) BY <2>10 DEF FinishUploaded
  <2>11. CASE FinishThrows(s) BY <2>11 DEF FinishThrows
  <2>12. CASE FinishFailed(s) BY <2>12 DEF FinishFailed
  <2>13. CASE Unrecorded(s) BY <2>13 DEF Unrecorded
  <2>14. CASE Link(s) BY <2>14 DEF Link
  <2>15. CASE LinkFails(s) BY <2>15 DEF LinkFails
  <2>16. CASE Killed(s) BY <2>16 DEF Killed
  <2>17. CASE Answered(s) BY <2>17 DEF Answered
  <2>. QED
    BY <2>1, <2>2, <2>3, <2>4, <2>5, <2>6, <2>7, <2>8, <2>9, <2>10, <2>11, <2>12, <2>13,
       <2>14, <2>15, <2>16, <2>17 DEF Serve
<1>2. CASE LeaseEnds BY <1>2 DEF LeaseEnds
<1>3. CASE UNCHANGED ledgerVars BY <1>3 DEF ledgerVars
<1>. QED BY <1>1, <1>2, <1>3 DEF LedgerNext

LEMMA BookkeepingHolds == LedgerSpec => [](LedgerTypeOK /\ Bookkeeping)
<1>1. LedgerTypeOK /\ Bookkeeping /\ [LedgerNext]_ledgerVars => (LedgerTypeOK /\ Bookkeeping)'
  BY LedgerStepTyped, CountStep, VideoStep, HolderStep DEF Bookkeeping
<1>. QED
  BY LedgerInitTyped, BookkeepingInit, <1>1, PTL DEF LedgerSpec

(* The document and the requests keep their types. *)
THEOREM LedgerTypeCorrect == LedgerSpec => []LedgerTypeOK
  BY BookkeepingHolds, PTL

(* YouTube is never sent more videos of a run than the ledger counted      *)
(* attempts, and the video the ledger names exists.                        *)
THEOREM VideosAccounted == LedgerSpec => []VideosAccountedFor
<1>1. LedgerTypeOK /\ Bookkeeping => VideosAccountedFor
  BY DEF Bookkeeping, AttemptsCounted, VideosExist, VideosAccountedFor
<1>. QED
  BY BookkeepingHolds, <1>1, PTL

LEMMA ExclusiveHolds ==
  ASSUME ~Outlives
  PROVE  LedgerSpec => []Exclusive
<1>1. LedgerInit => Exclusive
  BY DEF LedgerInit, Exclusive, OneClaim, OneVideo, Holding
<1>2. LedgerTypeOK /\ Bookkeeping /\ Exclusive /\ [LedgerNext]_ledgerVars => Exclusive'
  BY OneClaimStep, OneVideoStep DEF Exclusive, Bookkeeping
<1>. QED
  BY BookkeepingHolds, <1>1, <1>2, PTL DEF LedgerSpec

(* One request at a time is at work on the upload. *)
THEOREM UploaderAlone == LedgerSpec => []OneUploader
<1>1. CASE Outlives
  <2>1. OneUploader BY <1>1 DEF OneUploader
  <2>. QED BY <2>1, PTL
<1>2. CASE ~Outlives
  <2>1. Exclusive => OneUploader
    BY DEF Exclusive, OneClaim, OneUploader, Holding
  <2>. QED BY <1>2, <2>1, ExclusiveHolds, PTL
<1>. QED BY <1>1, <1>2

(* One video of the run goes to the linker, the one the ledger names. *)
THEOREM VideoOfferedOnce == LedgerSpec => []OneVideoOffered
<1>1. CASE Outlives
  <2>1. OneVideoOffered BY <1>1 DEF OneVideoOffered
  <2>. QED BY <2>1, PTL
<1>2. CASE ~Outlives
  <2>1. Exclusive => OneVideoOffered
    BY DEF Exclusive, OneVideo, OneVideoOffered
  <2>. QED BY <1>2, <2>1, ExclusiveHolds, PTL
<1>. QED BY <1>1, <1>2

-----------------------------------------------------------------------------
(* Every step of the ledger is a step of the promise or changes nothing    *)
(* that the promise speaks of.                                             *)
LEMMA StepKeepsPromise ==
  LedgerTypeOK /\ Bookkeeping /\ [LedgerNext]_ledgerVars => [Promise!Next]_Promise!vars
<1> SUFFICES ASSUME LedgerTypeOK, Bookkeeping, [LedgerNext]_ledgerVars
             PROVE  [Promise!Next]_Promise!vars
  OBVIOUS
<1> DEFINE Unseen == UNCHANGED <<status, attempts, videoId>>
<1>1. Unseen => [Promise!Next]_Promise!vars
  BY DEF Promise!vars
<1>2. CASE \E s \in Requests : Arrive(s) \/ Serve(s) \/ Answered(s)
  <2> PICK s \in Requests : Arrive(s) \/ Serve(s) \/ Answered(s)
    BY <1>2
  <2>1. CASE \/ Arrive(s) \/ Answered(s) \/ Refuse(s)
             \/ FindUploaded(s) \/ FindUnderway(s) \/ FindExhausted(s)
             \/ Publish(s) \/ PublishFails(s) \/ Unrecorded(s)
             \/ Link(s) \/ LinkFails(s) \/ Killed(s)
    <3>1. Unseen
      BY <2>1 DEF Arrive, Answered, Refuse, FindUploaded, FindUnderway, FindExhausted,
                  Publish, PublishFails, Unrecorded, Link, LinkFails, Killed, document
    <3>. QED BY <1>1, <3>1
  <2>2. CASE RecordTooLarge(s)
    <3>1. Unseen \/ Promise!Fail
      BY <2>2 DEF RecordTooLarge, Promise!Fail
    <3>. QED BY <1>1, <3>1 DEF Promise!Next
  <2>3. CASE Claim(s)
    <3>1. Promise!Try
      BY <2>3, LedgerAssumption DEF Claim, Exhausted, LedgerTypeOK, Promise!Try
    <3>. QED BY <3>1 DEF Promise!Next
  <2>4. CASE FinishUploaded(s) \/ FinishThrows(s)
    <3>1. at[s] \in Holding /\ at[s] = "made"
      BY <2>4 DEF FinishUploaded, FinishThrows, Go, Holding
    <3>2. Unseen \/ (MayFinish(s) /\ status' = "uploaded" /\ videoId' = attempt[s]
                      /\ attempts' = attempts)
      BY <2>4 DEF FinishUploaded, FinishThrows, document
    <3>3. MayFinish(s) => attempt[s] = attempts
      BY <3>1 DEF MayFinish, Bookkeeping, HolderIsLatest
    <3>4. Unseen \/ Promise!Succeed
      BY <3>2, <3>3 DEF Promise!Succeed, MayFinish
    <3>. QED BY <1>1, <3>4 DEF Promise!Next
  <2>5. CASE FinishFailed(s)
    <3>1. Unseen \/ Promise!Fail
      BY <2>5 DEF FinishFailed, MayFinish, Promise!Fail
    <3>. QED BY <1>1, <3>1 DEF Promise!Next
  <2>. QED
    BY <2>1, <2>2, <2>3, <2>4, <2>5 DEF Serve
<1>3. CASE LeaseEnds
  BY <1>1, <1>3 DEF LeaseEnds
<1>4. CASE UNCHANGED ledgerVars
  BY <1>1, <1>4 DEF ledgerVars, document
<1>. QED
  BY <1>2, <1>3, <1>4 DEF LedgerNext

(* The requests, however they interleave and wherever they are killed,     *)
(* keep the promise of RunVideo: a bounded number of tries, the video of   *)
(* the latest, and that for good.                                          *)
THEOREM LedgerKeepsPromise == LedgerSpec => ImplementsPromise
<1>1. LedgerInit => Promise!Init
  BY DEF LedgerInit, Promise!Init, NoVideo, Promise!NoVideo
<1>. QED
  BY <1>1, BookkeepingHolds, StepKeepsPromise, PTL DEF ImplementsPromise, Promise!Spec, LedgerSpec
-----------------------------------------------------------------------------
(* The satellite's outbox on top of it.                                    *)


(* A pass that waits for an answer has a request out, and a verdict is one *)
(* the route can give.                                                     *)
OutboxTyped ==
  /\ pass = "sending" => mine \in Requests
  /\ pass = "writing" => verdict \in Answers

LEMMA OutboxStep == OutboxTyped /\ [Next]_vars => OutboxTyped'
<1> SUFFICES ASSUME OutboxTyped, [Next]_vars PROVE OutboxTyped'
  OBVIOUS
<1> USE DEF OutboxTyped, Answers
<1>1. CASE PassOver BY <1>1 DEF PassOver
<1>2. CASE \E s \in Requests : Send(s) BY <1>2 DEF Send
<1>3. CASE SendFails BY <1>3 DEF SendFails
<1>4. CASE Answer BY <1>4 DEF Answer
<1>5. CASE AnswerLost BY <1>5 DEF AnswerLost
<1>6. CASE WriteNote BY <1>6 DEF WriteNote
<1>7. CASE QueueUpload BY <1>7 DEF QueueUpload
<1>8. CASE Tick \/ Kick BY <1>8 DEF Tick, Kick
<1>9. CASE ProbeFails \/ ProbeAnswers \/ Wake BY <1>9 DEF ProbeFails, ProbeAnswers, Wake
<1>10. CASE Ledger BY <1>10 DEF Ledger, outboxVars
<1>11. CASE \E s \in Requests : Unheard(s) BY <1>11 DEF Unheard, outboxVars
<1>12. CASE BackoffEnds \/ DeleteRecording \/ Restart
  BY <1>12 DEF BackoffEnds, DeleteRecording, Restart
<1>13. CASE UNCHANGED vars BY <1>13 DEF vars, outboxVars
<1>. QED
  BY <1>1, <1>2, <1>3, <1>4, <1>5, <1>6, <1>7, <1>8, <1>9, <1>10, <1>11, <1>12, <1>13
  DEF Next, Pass, Watcher

LEMMA OutboxHolds == Spec => []OutboxTyped
<1>1. Init => OutboxTyped
  BY DEF Init, OutboxTyped
<1>. QED
  BY <1>1, OutboxStep, PTL DEF Spec

(* Every step of the delivery is a step of the ledger, or leaves it alone. *)
LEMMA StepOfLedger == OutboxTyped /\ [Next]_vars => [LedgerNext]_ledgerVars
<1> SUFFICES ASSUME OutboxTyped, [Next]_vars PROVE [LedgerNext]_ledgerVars
  OBVIOUS
<1>1. CASE PassOver \/ SendFails \/ AnswerLost \/ WriteNote
  BY <1>1 DEF PassOver, SendFails, AnswerLost, WriteNote
<1>2. CASE \E s \in Requests : Send(s)
  BY <1>2 DEF Send, LedgerNext
<1>3. CASE Answer
  BY <1>3 DEF Answer, OutboxTyped, LedgerNext
<1>4. CASE Watcher
  BY <1>4 DEF Watcher, QueueUpload, Kick, ProbeFails, ProbeAnswers, Wake
<1>5. CASE Ledger
  BY <1>5 DEF Ledger, LedgerNext
<1>6. CASE \E s \in Requests : Unheard(s)
  BY <1>6 DEF Unheard, LedgerNext
<1>7. CASE BackoffEnds \/ DeleteRecording \/ Restart
  BY <1>7 DEF BackoffEnds, DeleteRecording, Restart
<1>8. CASE UNCHANGED vars
  BY <1>8 DEF vars
<1>. QED
  BY <1>1, <1>2, <1>3, <1>4, <1>5, <1>6, <1>7, <1>8 DEF Next, Pass

(* The satellite is one more client of the ledger. *)
THEOREM DeliveryUsesLedger == Spec => LedgerSpec
<1>1. Init => LedgerInit
  BY DEF Init
<1>. QED
  BY <1>1, OutboxHolds, StepOfLedger, PTL DEF Spec, LedgerSpec

(* One request at a time is at work on the upload, however often the       *)
(* satellite loses its connection or its power and asks again.             *)
COROLLARY DeliveryUploaderAlone == Spec => []OneUploader
  BY DeliveryUsesLedger, UploaderAlone

(* One video of the run goes to the linker. *)
COROLLARY DeliveryOffersOnce == Spec => []OneVideoOffered
  BY DeliveryUsesLedger, VideoOfferedOnce

-----------------------------------------------------------------------------
(* Two conditions of the ledger that, once true, stay true: Mission        *)
(* Control has the video, or nothing can come of the upload any more.      *)
HasVideo == status = "uploaded" /\ (errored \/ offered = {videoId})

OutOfAttempts ==
  /\ status # "uploaded"
  /\ attempts >= MaxAttempts
  /\ \A s \in Requests : at[s] \notin Holding

(* The answers given say so. *)
AnswersTrue ==
  \A s \in Requests :
    /\ at[s] = "done" => HasVideo
    /\ at[s] = "exhausted" => OutOfAttempts

LedgerFacts == LedgerTypeOK /\ AttemptsCounted /\ Exclusive

LEMMA HasVideoStays ==
  ASSUME LedgerFacts, HasVideo, [LedgerNext]_ledgerVars
  PROVE  HasVideo'
<1> USE DEF LedgerFacts, Exclusive, OneVideo, HasVideo, document, rover
<1>1. ASSUME NEW s \in Requests, Link(s) PROVE HasVideo'
  BY <1>1 DEF Link, Go, LedgerTypeOK
<1>2. ASSUME NEW s \in Requests, Arrive(s) \/ Answered(s) \/ (Serve(s) /\ ~Link(s))
      PROVE  UNCHANGED <<status, videoId, offered, errored>>
  BY <1>2 DEF Serve, Arrive, Answered, Refuse, RecordTooLarge, Claim, FindUploaded,
              FindUnderway, FindExhausted, Publish, PublishFails, FinishUploaded,
              FinishThrows, FinishFailed, Unrecorded, LinkFails, Killed, MayFinish
<1>3. CASE LeaseEnds
  BY <1>3 DEF LeaseEnds
<1>4. CASE UNCHANGED ledgerVars
  BY <1>4 DEF ledgerVars
<1>. QED
  BY <1>1, <1>2, <1>3, <1>4 DEF LedgerNext

LEMMA OutOfAttemptsStays ==
  ASSUME LedgerFacts, OutOfAttempts, [LedgerNext]_ledgerVars
  PROVE  OutOfAttempts'
<1> USE DEF LedgerFacts, LedgerTypeOK, OutOfAttempts, document, Go, Holding, Answers
<1>1. ASSUME NEW s \in Requests, Arrive(s) \/ Serve(s) \/ Answered(s)
      PROVE  OutOfAttempts'
  <2>1. ~Claim(s)
    BY DEF Claim, Exhausted
  <2>2. ~Publish(s) /\ ~PublishFails(s) /\ ~FinishUploaded(s) /\ ~FinishThrows(s)
        /\ ~FinishFailed(s)
    BY DEF Publish, PublishFails, FinishUploaded, FinishThrows, FinishFailed
  <2>. QED
    BY <1>1, <2>1, <2>2
    DEF Serve, Arrive, Answered, Refuse, RecordTooLarge, FindUploaded, FindUnderway,
        FindExhausted, Unrecorded, Link, LinkFails, Killed
<1>2. CASE LeaseEnds
  BY <1>2 DEF LeaseEnds
<1>3. CASE UNCHANGED ledgerVars
  BY <1>3 DEF ledgerVars
<1>. QED
  BY <1>1, <1>2, <1>3 DEF LedgerNext

(* An answer is true when it is given. *)
LEMMA AnswersTrueStep ==
  ASSUME LedgerFacts, AnswersTrue, [LedgerNext]_ledgerVars
  PROVE  AnswersTrue'
<1> SUFFICES ASSUME NEW t \in Requests
             PROVE  /\ at'[t] = "done" => HasVideo'
                    /\ at'[t] = "exhausted" => OutOfAttempts'
  BY DEF AnswersTrue
<1>1. at[t] = "done" => HasVideo'
  BY HasVideoStays DEF AnswersTrue, HasVideo
<1>2. at[t] = "exhausted" => OutOfAttempts'
  BY OutOfAttemptsStays DEF AnswersTrue
<1>3. ASSUME at'[t] = "done", at[t] # "done"
      PROVE  HasVideo'
  <2>1. Link(t)
    BY <1>3 DEF LedgerNext, LeaseEnds, ledgerVars, LedgerFacts, LedgerTypeOK, Go,
       Serve, Arrive, Answered, Refuse, RecordTooLarge, Claim, FindUploaded, FindUnderway,
       FindExhausted, Publish, PublishFails, FinishUploaded, FinishThrows, FinishFailed,
       Unrecorded, Link, LinkFails, Killed
  <2>. QED
    BY <2>1 DEF Link, Go, LedgerFacts, Exclusive, OneVideo, HasVideo, document, rover
<1>4. ASSUME at'[t] = "exhausted", at[t] # "exhausted"
      PROVE  OutOfAttempts'
  <2>1. FindExhausted(t)
    BY <1>4 DEF LedgerNext, LeaseEnds, ledgerVars, LedgerFacts, LedgerTypeOK, Go,
       Serve, Arrive, Answered, Refuse, RecordTooLarge, Claim, FindUploaded, FindUnderway,
       FindExhausted, Publish, PublishFails, FinishUploaded, FinishThrows, FinishFailed,
       Unrecorded, Link, LinkFails, Killed
  <2>2. OutOfAttempts
    BY <2>1 DEF FindExhausted, Exhausted, Underway, OutOfAttempts, LedgerFacts, LedgerTypeOK,
                AttemptsCounted, Exclusive, OneClaim, Holding
  <2>. QED
    BY <2>2, OutOfAttemptsStays
<1>. QED
  BY <1>1, <1>2, <1>3, <1>4

-----------------------------------------------------------------------------
(* From the answer to the verdict to the note.                             *)
OutboxTrue ==
  /\ pass = "writing" /\ verdict = "done" => HasVideo
  /\ verdict = "exhausted" => OutOfAttempts
  /\ note = "uploaded" => HasVideo

LEMMA OutboxTrueStep ==
  ASSUME LedgerFacts, OutboxTyped, AnswersTrue, OutboxTrue, [Next]_vars
  PROVE  OutboxTrue'
<1>1. [LedgerNext]_ledgerVars
  BY StepOfLedger
<1>2. /\ HasVideo => HasVideo'
      /\ OutOfAttempts => OutOfAttempts'
  BY <1>1, HasVideoStays, OutOfAttemptsStays
<1> USE <1>2 DEF OutboxTrue
<1>3. CASE PassOver BY <1>3 DEF PassOver
<1>4. CASE \E s \in Requests : Send(s) BY <1>4 DEF Send
<1>5. CASE SendFails BY <1>5 DEF SendFails
<1>6. CASE Answer
  <2>1. mine \in Requests
    BY <1>6 DEF Answer, OutboxTyped
  <2>. QED BY <1>6, <2>1 DEF Answer, AnswersTrue
<1>7. CASE AnswerLost BY <1>7 DEF AnswerLost
<1>8. CASE WriteNote
  <2>1. verdict \in Answers
    BY <1>8 DEF WriteNote, OutboxTyped
  <2>2. note' = "uploaded" => verdict = "done"
    BY <1>8, <2>1 DEF WriteNote, NoteFor, Answers
  <2>. QED BY <1>8, <2>2 DEF WriteNote
<1>9. CASE QueueUpload BY <1>9 DEF QueueUpload
<1>10. CASE Kick BY <1>10 DEF Kick
<1>11. CASE ProbeFails \/ ProbeAnswers \/ Wake BY <1>11 DEF ProbeFails, ProbeAnswers, Wake
<1>12. CASE Ledger BY <1>12 DEF Ledger, outboxVars
<1>13. CASE \E s \in Requests : Unheard(s) BY <1>13 DEF Unheard, outboxVars
<1>14. CASE BackoffEnds \/ DeleteRecording \/ Restart
  BY <1>14 DEF BackoffEnds, DeleteRecording, Restart
<1>15. CASE UNCHANGED vars BY <1>15 DEF vars, outboxVars
<1>. QED
  BY <1>3, <1>4, <1>5, <1>6, <1>7, <1>8, <1>9, <1>10, <1>11, <1>12, <1>13, <1>14, <1>15
  DEF Next, Pass, Watcher, Tick

LEMMA OutboxTrueHolds ==
  ASSUME ~Outlives
  PROVE  Spec => []OutboxTrue
<1>1. Init => AnswersTrue /\ OutboxTrue
  BY DEF Init, LedgerInit, AnswersTrue, OutboxTrue
<1>2. LedgerFacts /\ OutboxTyped /\ AnswersTrue /\ OutboxTrue /\ [Next]_vars
        => (AnswersTrue /\ OutboxTrue)'
  BY StepOfLedger, AnswersTrueStep, OutboxTrueStep
<1>3. LedgerTypeOK /\ Bookkeeping /\ Exclusive => LedgerFacts
  BY DEF Bookkeeping, LedgerFacts
<1>4. LedgerSpec => []LedgerFacts
  BY <1>3, BookkeepingHolds, ExclusiveHolds, PTL
<1>. QED
  BY <1>1, <1>2, <1>4, DeliveryUsesLedger, OutboxHolds, PTL DEF Spec

(* A note that says uploaded is true, however many deliveries and answers  *)
(* were lost before it was written.                                        *)
THEOREM UploadedNoteTrue == Spec => []UploadedNoteIsTrue
<1>1. CASE Outlives
  <2>1. UploadedNoteIsTrue BY <1>1 DEF UploadedNoteIsTrue
  <2>. QED BY <2>1, PTL
<1>2. CASE ~Outlives
  <2>1. OutboxTrue => UploadedNoteIsTrue
    BY DEF OutboxTrue, HasVideo, UploadedNoteIsTrue
  <2>. QED BY <1>2, <2>1, OutboxTrueHolds, PTL
<1>. QED BY <1>1, <1>2

(* The satellite gives a recording up to the operator for want of attempts *)
(* only when no attempt can succeed any more.                              *)
THEOREM GivesUpInTime == Spec => []GivesUpOnlyWhenOver
<1>1. CASE Outlives
  <2>1. GivesUpOnlyWhenOver BY <1>1 DEF GivesUpOnlyWhenOver
  <2>. QED BY <2>1, PTL
<1>2. CASE ~Outlives
  <2>1. OutboxTrue => GivesUpOnlyWhenOver
    BY DEF OutboxTrue, OutOfAttempts, GivesUpOnlyWhenOver
  <2>. QED BY <1>2, <2>1, OutboxTrueHolds, PTL
<1>. QED BY <1>1, <1>2
-----------------------------------------------------------------------------
(* The types of the outbox.                                                *)
OutboxTypes ==
  /\ note \in {"unqueued", "waiting", "gone"} \cup Settled
  /\ nextTry \in {"zero", "future", "past"}
  /\ kept \in BOOLEAN
  /\ pass \in {"off", "looking", "sending", "writing"}
  /\ mine \in Requests \cup {Nobody}
  /\ verdict \in Answers \cup {"none"}
  /\ waker \in {"off", "holding"}
  /\ offline \in BOOLEAN

LEMMA OutboxTypesStep == OutboxTyped /\ OutboxTypes /\ [Next]_vars => OutboxTypes'
<1> SUFFICES ASSUME OutboxTyped, OutboxTypes, [Next]_vars PROVE OutboxTypes'
  OBVIOUS
<1> USE DEF OutboxTypes, Settled
<1>1. CASE PassOver BY <1>1 DEF PassOver
<1>2. CASE \E s \in Requests : Send(s) BY <1>2 DEF Send
<1>3. CASE SendFails \/ AnswerLost BY <1>3 DEF SendFails, AnswerLost, Answers
<1>4. CASE Answer BY <1>4 DEF Answer
<1>5. CASE WriteNote
  <2>1. NoteFor(verdict) \in {"uploaded", "manual", "waiting"}
    BY <1>5 DEF WriteNote, OutboxTyped, Answers, NoteFor
  <2>. QED BY <1>5, <2>1 DEF WriteNote
<1>6. CASE QueueUpload BY <1>6 DEF QueueUpload
<1>7. CASE Kick BY <1>7 DEF Kick
<1>8. CASE ProbeFails \/ ProbeAnswers \/ Wake BY <1>8 DEF ProbeFails, ProbeAnswers, Wake
<1>9. CASE Ledger \/ \E s \in Requests : Unheard(s) BY <1>9 DEF Ledger, Unheard, outboxVars
<1>10. CASE BackoffEnds \/ DeleteRecording \/ Restart
  BY <1>10 DEF BackoffEnds, DeleteRecording, Restart
<1>11. CASE UNCHANGED vars BY <1>11 DEF vars, outboxVars
<1>. QED
  BY <1>1, <1>2, <1>3, <1>4, <1>5, <1>6, <1>7, <1>8, <1>9, <1>10, <1>11
  DEF Next, Pass, Watcher, Tick

(* The note, the pass and the watcher's wake-up are always what the code   *)
(* says they can be, and so is the ledger under them (youtube_upload.py).  *)
THEOREM DeliveryTypeCorrect == Spec => []TypeOK
<1>1. Init => OutboxTypes
  BY DEF Init, OutboxTypes
<1>2. LedgerTypeOK /\ OutboxTypes => TypeOK
  BY DEF OutboxTypes, TypeOK
<1>. QED
  BY <1>1, <1>2, OutboxTypesStep, OutboxHolds, DeliveryUsesLedger, LedgerTypeCorrect, PTL DEF Spec
=============================================================================
