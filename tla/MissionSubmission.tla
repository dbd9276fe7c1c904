------------------------- MODULE MissionSubmission -------------------------
(***************************************************************************)
(* A learner sends missions: POST /api/missions (MissionService and        *)
(* FirestoreMissionNameRegistry give the mission a name nobody has), and   *)
(* the address the learner leaves afterwards (LearnerContext), which is    *)
(* saved, stamped on the latest mission as a hash, and brings the mail     *)
(* that submitting could not send (the notify route).                      *)
(*                                                                         *)
(* The tabs are one learner's, in one browser: they share its localStorage *)
(* and each holds the address it knew when it was loaded.  A tab has a     *)
(* submission and a save under way at a time, each a chain of requests; a  *)
(* request goes on when its tab is reloaded, and may be killed.            *)
(***************************************************************************)
EXTENDS Naturals, Sequences

CONSTANTS
  Tabs,
  Addresses,      \* the hash of an address is the address
  Combinations,   \* MISSION_NAME_COMBINATIONS: a name is a number below it
  Stride,
  RetiredBelow,   \* the names of only the original words
  MaxBegun        \* bound on submissions and saves, for model checking

None == "none"

(* missionNameForNumber. *)
NameForNumber(n) == (n * Stride) % Combinations

Names == 0 .. Combinations - 1

ASSUME NamesAssumption ==
  /\ Combinations \in Nat \ {0} /\ Stride \in Nat /\ RetiredBelow \in Nat /\ MaxBegun \in Nat
  /\ None \notin Addresses
  /\ \A n, k \in Names : NameForNumber(n) = NameForNumber(k) => n = k

VARIABLES
  taken,      \* missionNames/{name}: the names recorded
  counter,    \* counters/missionNames
  missions,   \* in the order they were created
  contact,    \* the learner's private record
  stored,     \* localStorage: the address
  latest,     \* localStorage: the latest mission, 0 for none
  address,    \* the address each tab holds
  submission, \* what each tab's submission is at
  saving,     \* what each tab's save is at
  mails,      \* the "queued" mails sent
  begun

registry == <<taken, counter>>
browser == <<stored, latest, address>>
vars == <<registry, missions, contact, browser, submission, saving, mails, begun>>

Idle == [at |-> "idle", heard |-> TRUE, address |-> None, name |-> 0, mission |-> 0]

Init ==
  /\ taken = {} /\ counter = 0
  /\ missions = <<>>
  /\ contact = None
  /\ stored = None /\ latest = 0
  /\ address = [t \in Tabs |-> None]
  /\ submission = [t \in Tabs |-> Idle]
  /\ saving = [t \in Tabs |-> Idle]
  /\ mails = {}
  /\ begun = 0

-----------------------------------------------------------------------------
(* The mail both routes send, and what keeps it from the wrong reader.     *)

(* Slip: what the mission carries is not compared. *)
MayReachUnchecked(carried) == contact # None

(* notifyStatusChange: the address of the record must be the one whose hash the mission carries. *)
MayReach(carried) == contact # None /\ carried \in {None, contact}

(* The provider may refuse. *)
Notify(mission, carried, by) ==
  mails' \in {mails} \cup
    IF MayReach(carried) THEN {mails \cup {[mission |-> mission, to |-> contact, by |-> by]}} ELSE {}

-----------------------------------------------------------------------------
(* Submitting.                                                             *)

SubmitsAt(t, step) == submission[t].at = step

(* handleSubmitToQueue: the tab's own address goes with the mission. *)
Submit(t, rolled) ==
  /\ SubmitsAt(t, "idle") /\ begun < MaxBegun
  /\ submission' = [submission EXCEPT ![t] = [Idle EXCEPT !.at = "claim", !.address = address[t], !.name = rolled]]
  /\ begun' = begun + 1
  /\ UNCHANGED <<registry, missions, contact, browser, saving, mails>>

(* Slip: a name is taken without looking whether it is. *)
FreeIfNew(name) == name >= RetiredBelow

(* isNewMissionName, and create() failing on a document that is there. *)
Free(name) == name >= RetiredBelow /\ name \notin taken

Claim(t) ==
  /\ SubmitsAt(t, "claim")
  /\ IF Free(submission[t].name)
       THEN /\ taken' = taken \cup {submission[t].name}
            /\ submission' = [submission EXCEPT ![t].at = "create"]
       ELSE /\ submission' = [submission EXCEPT ![t].at = "take"]
            /\ UNCHANGED taken
  /\ UNCHANGED <<counter, missions, contact, browser, saving, mails, begun>>

(* takeNext, one transaction; with every name used it throws. *)
TakeNext(t) ==
  /\ SubmitsAt(t, "take")
  /\ \/ \E n \in counter .. Combinations - 1 :
          /\ Free(NameForNumber(n)) /\ \A k \in counter .. n - 1 : ~Free(NameForNumber(k))
          /\ counter' = n + 1
          /\ taken' = taken \cup {NameForNumber(n)}
          /\ submission' = [submission EXCEPT ![t].at = "create", ![t].name = NameForNumber(n)]
     \/ /\ \A n \in counter .. Combinations - 1 : ~Free(NameForNumber(n))
        /\ submission' = [submission EXCEPT ![t] = Idle]
        /\ UNCHANGED registry
  /\ UNCHANGED <<missions, contact, browser, saving, mails, begun>>

Create(t) ==
  /\ SubmitsAt(t, "create")
  /\ missions' = Append(missions, [name |-> submission[t].name, status |-> "queued", hash |-> submission[t].address,
                                   asked |-> submission[t].address # None, notified |-> FALSE])
  /\ submission' = [submission EXCEPT ![t].at = "mail", ![t].mission = Len(missions')]
  /\ UNCHANGED <<registry, contact, browser, saving, mails, begun>>

(* The route mails what it created; it records nothing of it. *)
MailSubmitted(t) ==
  /\ SubmitsAt(t, "mail")
  /\ Notify(submission[t].mission, submission[t].address, "submit")
  /\ submission' = [submission EXCEPT ![t].at = "answer"]
  /\ UNCHANGED <<registry, missions, contact, browser, saving, begun>>

(* The page notes its latest mission, unless it has gone. *)
Answer(t) ==
  /\ SubmitsAt(t, "answer")
  /\ latest' = IF submission[t].heard THEN submission[t].mission ELSE latest
  /\ submission' = [submission EXCEPT ![t] = Idle]
  /\ UNCHANGED <<registry, missions, contact, stored, address, saving, mails, begun>>

-----------------------------------------------------------------------------
(* Leaving an address: setLearnerEmail and backfillLatestMissionEmail.     *)

SavesAt(t, step) == saving[t].at = step

SaveGoesTo(t, step) == saving' = [saving EXCEPT ![t].at = step]

SaveEnds(t) == saving' = [saving EXCEPT ![t] = Idle]

SetLearnerEmail(t, given) ==
  /\ SavesAt(t, "idle") /\ begun < MaxBegun
  /\ stored' = given
  /\ address' = [address EXCEPT ![t] = given]
  /\ saving' = [saving EXCEPT ![t] = [Idle EXCEPT !.at = "persist", !.address = given]]
  /\ begun' = begun + 1
  /\ UNCHANGED <<registry, missions, contact, latest, submission, mails>>

(* The email route; the page goes on whether or not it was saved. *)
Persist(t) ==
  /\ SavesAt(t, "persist")
  /\ contact' \in {contact, saving[t].address}
  /\ IF saving[t].address = None THEN SaveEnds(t) ELSE SaveGoesTo(t, "read")
  /\ UNCHANGED <<registry, missions, browser, submission, mails, begun>>

(* stampLearnerEmailHash reads the mission localStorage names. *)
ReadStamp(t) ==
  /\ SavesAt(t, "read")
  /\ IF saving[t].heard /\ latest # 0 /\ missions[latest].hash = None
       THEN saving' = [saving EXCEPT ![t].at = "stamp", ![t].mission = latest]
       ELSE SaveEnds(t)
  /\ UNCHANGED <<registry, missions, contact, browser, submission, mails, begun>>

(* The Firestore rules: the browser may only fill a blank. *)
MayFill(m) == missions[m].hash = None

WriteStamp(t) ==
  LET m == saving[t].mission IN
  /\ SavesAt(t, "stamp")
  /\ IF saving[t].heard /\ MayFill(m)
       THEN /\ missions' = [missions EXCEPT ![m].hash = saving[t].address]
            /\ SaveGoesTo(t, "notify")
       ELSE SaveEnds(t) /\ UNCHANGED missions
  /\ UNCHANGED <<registry, contact, browser, submission, mails, begun>>

(* The notify route reads the mission, which may be gone or settled by now. *)
NotifyReads(t) ==
  /\ SavesAt(t, "notify")
  /\ IF missions[saving[t].mission].status = "queued" THEN SaveGoesTo(t, "record") ELSE SaveEnds(t)
  /\ UNCHANGED <<registry, missions, contact, browser, submission, mails, begun>>

(* recordQueuedNotification, one transaction: the status of a deleted mission stays what it was. *)
Record(t) ==
  LET m == saving[t].mission IN
  /\ SavesAt(t, "record")
  /\ IF missions[m].status = "settled" \/ missions[m].notified
       THEN SaveEnds(t) /\ UNCHANGED missions
       ELSE missions' = [missions EXCEPT ![m].notified = TRUE] /\ SaveGoesTo(t, "send")
  /\ UNCHANGED <<registry, contact, browser, submission, mails, begun>>

Send(t) ==
  /\ SavesAt(t, "send")
  /\ Notify(saving[t].mission, missions[saving[t].mission].hash, "notify")
  /\ SaveEnds(t)
  /\ UNCHANGED <<registry, missions, contact, browser, submission, begun>>

-----------------------------------------------------------------------------
(* The tab is loaded again: what it asked for goes on, unheard. *)
Reload(t) ==
  /\ address' = [address EXCEPT ![t] = stored]
  /\ submission' = [submission EXCEPT ![t].heard = SubmitsAt(t, "idle")]
  /\ saving' = [saving EXCEPT ![t].heard = SavesAt(t, "idle")]
  /\ UNCHANGED <<registry, missions, contact, stored, latest, mails, begun>>

(* An instance is killed, or a request fails. *)
SubmissionDies(t) ==
  /\ submission[t].at \notin {"idle", "answer"}
  /\ submission' = [submission EXCEPT ![t] = Idle]
  /\ UNCHANGED <<registry, missions, contact, browser, saving, mails, begun>>

SaveDies(t) ==
  /\ ~SavesAt(t, "idle")
  /\ SaveEnds(t)
  /\ UNCHANGED <<registry, missions, contact, browser, submission, mails, begun>>

(* The operator settles the mission, opens it again, or deletes it. *)
Operates(m) ==
  /\ missions[m].status # "deleted"
  /\ \E status \in {"queued", "settled", "deleted"} \ {missions[m].status} :
       missions' = [missions EXCEPT ![m].status = status]
  /\ UNCHANGED <<registry, contact, browser, submission, saving, mails, begun>>

Next ==
  \/ \E t \in Tabs :
       \/ \E rolled \in Names : Submit(t, rolled)
       \/ Claim(t) \/ TakeNext(t) \/ Create(t) \/ MailSubmitted(t) \/ Answer(t)
       \/ \E given \in Addresses \cup {None} : SetLearnerEmail(t, given)
       \/ Persist(t) \/ ReadStamp(t) \/ WriteStamp(t)
       \/ NotifyReads(t) \/ Record(t) \/ Send(t)
       \/ Reload(t) \/ SubmissionDies(t) \/ SaveDies(t)
  \/ \E m \in DOMAIN missions : Operates(m)

Spec == Init /\ [][Next]_vars

-----------------------------------------------------------------------------
Steps == {"idle", "claim", "take", "create", "mail", "answer",
          "persist", "read", "stamp", "notify", "record", "send"}

Begun == [at : Steps, heard : BOOLEAN, address : Addresses \cup {None}, name : Names,
          mission : 0 .. Len(missions)]

(* What each variable is; a request holds a mission only once there is one. *)
SubmissionTypeOK ==
  /\ taken \subseteq Names /\ counter \in 0 .. Combinations
  /\ missions \in Seq([name : Names, status : {"queued", "settled", "deleted"},
                       hash : Addresses \cup {None}, asked : BOOLEAN, notified : BOOLEAN])
  /\ contact \in Addresses \cup {None} /\ stored \in Addresses \cup {None}
  /\ latest \in 0 .. Len(missions)
  /\ address \in [Tabs -> Addresses \cup {None}]
  /\ submission \in [Tabs -> Begun] /\ saving \in [Tabs -> Begun]
  /\ mails \subseteq [mission : DOMAIN missions, to : Addresses, by : {"submit", "notify"}]
  /\ begun \in 0 .. MaxBegun

(* No two missions have one name, whoever rolled it or was given it and     *)
(* whichever submissions died with a name in hand, and no mission has a     *)
(* name an older one may carry (IMissionNameRegistry).                      *)
NamesNeverRepeat ==
  \A i, k \in DOMAIN missions :
    missions[i].name >= RetiredBelow /\ (missions[i].name = missions[k].name => i = k)

(* A mission's mail went to the address whose hash the mission carries,     *)
(* although tabs hold addresses the learner has since changed; the mail of  *)
(* submitting a mission that carried none went to the one on record.        *)
MailMeetsTheHash ==
  \A mail \in mails :
    \/ mail.to = missions[mail.mission].hash
    \/ mail.by = "submit" /\ ~missions[mail.mission].asked

(* "This call won the right to send": a learner hears once that a mission   *)
(* is queued.  It does not hold: submitting mails a mission that carries no *)
(* address to the one on record without noting it, and a later save stamps  *)
(* and mails it again.                                                      *)
QueuedMailOnce ==
  \A one, two \in mails : one.mission = two.mission => one = two
=============================================================================
