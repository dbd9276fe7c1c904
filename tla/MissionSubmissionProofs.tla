----------------------- MODULE MissionSubmissionProofs -----------------------
(***************************************************************************)
(* What MissionSubmission guarantees for any number of tabs and addresses, *)
(* any vocabulary of names, and any number of submissions and saves.       *)
(***************************************************************************)
EXTENDS MissionSubmission, TLAPS

Mission == [name : Names, status : {"queued", "settled", "deleted"}, hash : Addresses \cup {None},
            asked : BOOLEAN, notified : BOOLEAN]

(***************************************************************************)
(* The inductive invariant for the names: the name of a mission, and one   *)
(* that a submission has in hand, is recorded, and nobody else has it.     *)
(***************************************************************************)
InHand(t) == submission[t].at = "create"

NamesHeld ==
  /\ \A i \in DOMAIN missions : missions[i].name \in taken /\ missions[i].name >= RetiredBelow
  /\ \A t \in Tabs : InHand(t) => submission[t].name \in taken /\ submission[t].name >= RetiredBelow
  /\ \A i, k \in DOMAIN missions : missions[i].name = missions[k].name => i = k
  /\ \A t \in Tabs, i \in DOMAIN missions : InHand(t) => missions[i].name # submission[t].name
  /\ \A t, u \in Tabs : InHand(t) /\ InHand(u) /\ submission[t].name = submission[u].name => t = u

(***************************************************************************)
(* And for the mails: what the submitting route holds of the hash is what  *)
(* the mission carries, and a mission is notified once it carries one.     *)
(***************************************************************************)
Mailing(t) ==
  submission[t].at = "mail" =>
    /\ submission[t].mission # 0
    /\ submission[t].address = None => ~missions[submission[t].mission].asked
    /\ submission[t].address # None => missions[submission[t].mission].hash = submission[t].address

Notifying == {"notify", "record", "send"}

Stamping(t) ==
  saving[t].at \in {"read", "stamp"} \cup Notifying =>
    /\ saving[t].address # None
    /\ saving[t].at # "read" => saving[t].mission # 0
    /\ saving[t].at \in Notifying => missions[saving[t].mission].hash # None

HashesHeld == \A t \in Tabs : Mailing(t) /\ Stamping(t)

SubmissionInv == SubmissionTypeOK /\ NamesHeld /\ HashesHeld /\ MailMeetsTheHash

-----------------------------------------------------------------------------
LEMMA NamesAreNames ==
  ASSUME NEW n \in Nat
  PROVE  NameForNumber(n) \in Names
<1>1. Combinations \in Nat /\ Combinations > 0 /\ Stride \in Nat
  BY NamesAssumption
<1>2. n * Stride \in Nat
  BY <1>1
<1>. DEFINE x == n * Stride
<1>3. x % Combinations \in 0 .. Combinations - 1
  <2>. HIDE DEF x
  <2>. QED BY <1>1, <1>2 DEF x
<1>. QED BY <1>3 DEF NameForNumber, Names

LEMMA InitTyped == Init => SubmissionTypeOK
<1>. SUFFICES ASSUME Init PROVE SubmissionTypeOK
  OBVIOUS
<1>1. Idle \in Begun
  BY NamesAssumption DEF Init, Idle, Begun, Steps, Names
<1>. QED
  BY <1>1, NamesAssumption DEF Init, SubmissionTypeOK

(* A request that goes on keeps its type. *)
LEMMA IdleTyped == SubmissionTypeOK => Idle \in Begun
BY NamesAssumption DEF SubmissionTypeOK, Idle, Begun, Steps, Names

LEMMA MailTyped ==
  ASSUME SubmissionTypeOK, NEW m \in DOMAIN missions, NEW carried, NEW by \in {"submit", "notify"},
         Notify(m, carried, by)
  PROVE  mails' \subseteq [mission : DOMAIN missions, to : Addresses, by : {"submit", "notify"}]
BY DEF SubmissionTypeOK, Notify, MayReach

(* What a step has to show when it makes no mission, or makes one.          *)
LEMMA TypedAfter ==
  ASSUME SubmissionTypeOK,
         missions' \in Seq(Mission), Len(missions') >= Len(missions),
         taken' \subseteq Names, counter' \in 0 .. Combinations,
         contact' \in Addresses \cup {None}, stored' \in Addresses \cup {None},
         latest' \in 0 .. Len(missions),
         address' \in [Tabs -> Addresses \cup {None}],
         submission' \in [Tabs -> Begun'], saving' \in [Tabs -> Begun],
         mails' \subseteq [mission : DOMAIN missions, to : Addresses, by : {"submit", "notify"}],
         begun' \in 0 .. MaxBegun
  PROVE  SubmissionTypeOK'
<1>1. missions \in Seq(Mission)
  BY DEF SubmissionTypeOK, Mission
<1>2. DOMAIN missions \subseteq DOMAIN missions' /\ 0 .. Len(missions) \subseteq 0 .. Len(missions')
  BY <1>1
<1>3. Begun \subseteq Begun'
  BY <1>2 DEF Begun
<1>4. [Tabs -> Begun] \subseteq [Tabs -> Begun']
  BY <1>3
<1>5. mails' \subseteq [mission : DOMAIN missions', to : Addresses, by : {"submit", "notify"}]
  BY <1>2
<1>6. latest' \in 0 .. Len(missions')
  BY <1>2
<1>. QED
  BY <1>4, <1>5, <1>6 DEF SubmissionTypeOK, Mission

LEMMA TypedNow ==
  SubmissionTypeOK =>
    /\ missions \in Seq(Mission) /\ Len(missions) \in Nat
    /\ taken \subseteq Names /\ counter \in 0 .. Combinations
    /\ contact \in Addresses \cup {None} /\ stored \in Addresses \cup {None}
    /\ latest \in 0 .. Len(missions)
    /\ address \in [Tabs -> Addresses \cup {None}]
    /\ submission \in [Tabs -> Begun] /\ saving \in [Tabs -> Begun]
    /\ mails \subseteq [mission : DOMAIN missions, to : Addresses, by : {"submit", "notify"}]
    /\ begun \in 0 .. MaxBegun
BY DEF SubmissionTypeOK, Mission

LEMMA SameBegun == ASSUME Len(missions') = Len(missions) PROVE Begun' = Begun
BY DEF Begun

LEMMA MissionChanged ==
  ASSUME missions \in Seq(Mission), NEW m \in DOMAIN missions, NEW new \in Mission,
         missions' = [missions EXCEPT ![m] = new]
  PROVE  missions' \in Seq(Mission) /\ Len(missions') = Len(missions) /\ DOMAIN missions' = DOMAIN missions
OBVIOUS

(* A request at its next step, of another name, or unheard, is still one.  *)
LEMMA GoesOn ==
  ASSUME NEW f \in [Tabs -> Begun], NEW t \in Tabs
  PROVE  /\ f[t] \in Begun
         /\ \A step \in Steps : [f EXCEPT ![t].at = step] \in [Tabs -> Begun]
         /\ \A step \in Steps, m \in 0 .. Len(missions) :
              [f EXCEPT ![t].at = step, ![t].mission = m] \in [Tabs -> Begun]
         /\ \A step \in Steps, n \in Names : [f EXCEPT ![t].at = step, ![t].name = n] \in [Tabs -> Begun]
         /\ \A b \in BOOLEAN : [f EXCEPT ![t].heard = b] \in [Tabs -> Begun]
<1>1. f[t] \in Begun
  OBVIOUS
<1>2. ASSUME NEW step \in Steps
      PROVE  [f[t] EXCEPT !.at = step] \in Begun
  BY <1>1 DEF Begun
<1>3. ASSUME NEW b \in BOOLEAN
      PROVE  [f[t] EXCEPT !.heard = b] \in Begun
  BY <1>1 DEF Begun
<1>4. ASSUME NEW step \in Steps, NEW m \in 0 .. Len(missions)
      PROVE  [f EXCEPT ![t].at = step, ![t].mission = m] \in [Tabs -> Begun]
  <2>1. [[f[t] EXCEPT !.at = step] EXCEPT !.mission = m] \in Begun
    BY <1>2 DEF Begun
  <2>. QED BY <2>1
<1>5. ASSUME NEW step \in Steps, NEW n \in Names
      PROVE  [f EXCEPT ![t].at = step, ![t].name = n] \in [Tabs -> Begun]
  <2>1. [[f[t] EXCEPT !.at = step] EXCEPT !.name = n] \in Begun
    BY <1>2 DEF Begun
  <2>. QED BY <2>1
<1>. QED BY <1>1, <1>2, <1>3, <1>4, <1>5

LEMMA MissionTyped ==
  ASSUME missions \in Seq(Mission), NEW m \in DOMAIN missions
  PROVE  /\ missions[m] \in Mission
         /\ \A a \in Addresses \cup {None} : [missions[m] EXCEPT !.hash = a] \in Mission
         /\ [missions[m] EXCEPT !.notified = TRUE] \in Mission
         /\ \A status \in {"queued", "settled", "deleted"} : [missions[m] EXCEPT !.status = status] \in Mission
<1>1. missions[m] \in Mission
  OBVIOUS
<1>. QED BY <1>1 DEF Mission

LEMMA StepTyped == SubmissionTypeOK /\ HashesHeld /\ [Next]_vars => SubmissionTypeOK'
<1>. SUFFICES ASSUME SubmissionTypeOK, HashesHeld, [Next]_vars PROVE SubmissionTypeOK'
  OBVIOUS
<1>0. Idle \in Begun
  BY IdleTyped
<1>1. ASSUME NEW t \in Tabs, NEW rolled \in Names, Submit(t, rolled) PROVE SubmissionTypeOK'
  <2>1. [Idle EXCEPT !.at = "claim", !.address = address[t], !.name = rolled] \in Begun
    BY <1>0, TypedNow DEF Begun, Steps
  <2>2. submission' \in [Tabs -> Begun]
    BY <1>1, <2>1, TypedNow DEF Submit
  <2>3. begun' \in 0 .. MaxBegun
    BY <1>1, TypedNow, NamesAssumption DEF Submit
  <2>. QED
    BY <1>1, <2>2, <2>3, TypedNow, TypedAfter, SameBegun DEF Submit, registry, browser
<1>2. ASSUME NEW t \in Tabs, Claim(t) PROVE SubmissionTypeOK'
  <2>1. submission' \in [Tabs -> Begun] /\ taken' \subseteq Names
    <3>1. submission[t].name \in Names /\ {"create", "take"} \subseteq Steps
      BY TypedNow DEF Begun, Steps
    <3>. QED BY <1>2, <3>1, TypedNow, GoesOn DEF Claim
  <2>. QED
    BY <1>2, <2>1, TypedNow, TypedAfter, SameBegun DEF Claim, browser
<1>3. ASSUME NEW t \in Tabs, TakeNext(t) PROVE SubmissionTypeOK'
  <2>1. submission' \in [Tabs -> Begun] /\ taken' \subseteq Names /\ counter' \in 0 .. Combinations
    <3>1. CASE submission' = [submission EXCEPT ![t] = Idle] /\ UNCHANGED registry
      BY <1>0, <3>1, TypedNow DEF registry
    <3>2. ASSUME NEW n \in counter .. Combinations - 1,
                 counter' = n + 1, taken' = taken \cup {NameForNumber(n)},
                 submission' = [submission EXCEPT ![t].at = "create", ![t].name = NameForNumber(n)]
          PROVE  submission' \in [Tabs -> Begun] /\ taken' \subseteq Names /\ counter' \in 0 .. Combinations
      <4>1. n \in Nat /\ n + 1 \in 0 .. Combinations
        BY TypedNow, NamesAssumption
      <4>2. NameForNumber(n) \in Names
        BY <4>1, NamesAreNames
      <4>3. submission' \in [Tabs -> Begun]
        <5>1. "create" \in Steps
          BY DEF Steps
        <5>. QED BY <3>2, <4>2, <5>1, TypedNow, GoesOn
      <4>. QED BY <3>2, <4>1, <4>2, <4>3, TypedNow
    <3>. QED BY <1>3, <3>1, <3>2 DEF TakeNext
  <2>. QED
    BY <1>3, <2>1, TypedNow, TypedAfter, SameBegun DEF TakeNext, browser
<1>4. ASSUME NEW t \in Tabs, Create(t) PROVE SubmissionTypeOK'
  <2>1. [name |-> submission[t].name, status |-> "queued", hash |-> submission[t].address,
         asked |-> submission[t].address # None, notified |-> FALSE] \in Mission
    BY TypedNow DEF Mission, Begun
  <2>2. missions' \in Seq(Mission) /\ Len(missions') = Len(missions) + 1
    BY <1>4, <2>1, TypedNow DEF Create
  <2>3. 0 .. Len(missions) \subseteq 0 .. Len(missions') /\ Len(missions') \in 0 .. Len(missions')
    BY <2>2, TypedNow
  <2>4. Begun \subseteq Begun'
    BY <2>3 DEF Begun
  <2>5. submission' \in [Tabs -> Begun']
    BY <1>4, <2>3, <2>4, TypedNow DEF Create, Begun, Steps
  <2>. QED
    BY <1>4, <2>2, <2>5, TypedNow, TypedAfter DEF Create, registry, browser
<1>5. ASSUME NEW t \in Tabs, MailSubmitted(t) PROVE SubmissionTypeOK'
  <2>1. submission[t] \in Begun /\ submission[t].mission # 0
    BY <1>5, TypedNow DEF MailSubmitted, SubmitsAt, HashesHeld, Mailing
  <2>2. submission[t].mission \in DOMAIN missions
    BY <2>1, TypedNow DEF Begun
  <2>3. mails' \subseteq [mission : DOMAIN missions, to : Addresses, by : {"submit", "notify"}]
    BY <1>5, <2>2, MailTyped DEF MailSubmitted
  <2>4. submission' \in [Tabs -> Begun]
    BY <1>5, TypedNow, GoesOn DEF MailSubmitted, Steps
  <2>. QED
    BY <1>5, <2>3, <2>4, TypedNow, TypedAfter, SameBegun DEF MailSubmitted, registry, browser
<1>6. ASSUME NEW t \in Tabs, Answer(t) PROVE SubmissionTypeOK'
  <2>1. submission' \in [Tabs -> Begun] /\ latest' \in 0 .. Len(missions)
    BY <1>0, <1>6, TypedNow DEF Answer, Begun
  <2>. QED
    BY <1>6, <2>1, TypedNow, TypedAfter, SameBegun DEF Answer, registry
<1>7. ASSUME NEW t \in Tabs, NEW given \in Addresses \cup {None}, SetLearnerEmail(t, given) PROVE SubmissionTypeOK'
  <2>1. [Idle EXCEPT !.at = "persist", !.address = given] \in Begun
    BY <1>0 DEF Begun, Steps
  <2>2. saving' \in [Tabs -> Begun] /\ address' \in [Tabs -> Addresses \cup {None}]
    BY <1>7, <2>1, TypedNow DEF SetLearnerEmail
  <2>3. begun' \in 0 .. MaxBegun
    BY <1>7, TypedNow, NamesAssumption DEF SetLearnerEmail
  <2>. QED
    BY <1>7, <2>2, <2>3, TypedNow, TypedAfter, SameBegun DEF SetLearnerEmail, registry
<1>8. ASSUME NEW t \in Tabs, Persist(t) PROVE SubmissionTypeOK'
  <2>1. saving' \in [Tabs -> Begun]
    BY <1>0, <1>8, TypedNow, GoesOn DEF Persist, SaveEnds, SaveGoesTo, Steps
  <2>2. contact' \in Addresses \cup {None}
    BY <1>8, TypedNow DEF Persist, Begun
  <2>. QED
    BY <1>8, <2>1, <2>2, TypedNow, TypedAfter, SameBegun DEF Persist, registry, browser
<1>9. ASSUME NEW t \in Tabs, ReadStamp(t) PROVE SubmissionTypeOK'
  <2>1. saving' \in [Tabs -> Begun]
    BY <1>0, <1>9, TypedNow, GoesOn DEF ReadStamp, SaveEnds, Steps
  <2>. QED
    BY <1>9, <2>1, TypedNow, TypedAfter, SameBegun DEF ReadStamp, registry, browser
<1>10. ASSUME NEW t \in Tabs, WriteStamp(t) PROVE SubmissionTypeOK'
  <2>1. saving[t] \in Begun /\ saving[t].mission \in DOMAIN missions
    BY <1>10, TypedNow DEF WriteStamp, SavesAt, HashesHeld, Stamping, Notifying, Begun
  <2>2. [missions[saving[t].mission] EXCEPT !.hash = saving[t].address] \in Mission
    BY <2>1, TypedNow, MissionTyped DEF Begun
  <2>3. missions' \in Seq(Mission) /\ Len(missions') = Len(missions)
    BY <1>10, <2>1, <2>2, TypedNow, MissionChanged DEF WriteStamp
  <2>4. saving' \in [Tabs -> Begun]
    <3>1. [saving EXCEPT ![t].at = "notify"] \in [Tabs -> Begun]
      BY TypedNow, GoesOn DEF Steps
    <3>2. [saving EXCEPT ![t] = Idle] \in [Tabs -> Begun]
      BY <1>0, TypedNow
    <3>. QED BY <1>10, <3>1, <3>2 DEF WriteStamp, SaveEnds, SaveGoesTo
  <2>. QED
    BY <1>10, <2>3, <2>4, TypedNow, TypedAfter, SameBegun DEF WriteStamp, registry, browser
<1>11. ASSUME NEW t \in Tabs, NotifyReads(t) PROVE SubmissionTypeOK'
  <2>1. saving' \in [Tabs -> Begun]
    BY <1>0, <1>11, TypedNow, GoesOn DEF NotifyReads, SaveEnds, SaveGoesTo, Steps
  <2>. QED
    BY <1>11, <2>1, TypedNow, TypedAfter, SameBegun DEF NotifyReads, registry, browser
<1>12. ASSUME NEW t \in Tabs, Record(t) PROVE SubmissionTypeOK'
  <2>1. saving[t] \in Begun /\ saving[t].mission \in DOMAIN missions
    BY <1>12, TypedNow DEF Record, SavesAt, HashesHeld, Stamping, Notifying, Begun
  <2>2. [missions[saving[t].mission] EXCEPT !.notified = TRUE] \in Mission
    BY <2>1, TypedNow, MissionTyped
  <2>3. missions' \in Seq(Mission) /\ Len(missions') = Len(missions)
    BY <1>12, <2>1, <2>2, TypedNow, MissionChanged DEF Record
  <2>4. saving' \in [Tabs -> Begun]
    <3>1. [saving EXCEPT ![t].at = "send"] \in [Tabs -> Begun]
      BY TypedNow, GoesOn DEF Steps
    <3>2. [saving EXCEPT ![t] = Idle] \in [Tabs -> Begun]
      BY <1>0, TypedNow
    <3>. QED BY <1>12, <3>1, <3>2 DEF Record, SaveEnds, SaveGoesTo
  <2>. QED
    BY <1>12, <2>3, <2>4, TypedNow, TypedAfter, SameBegun DEF Record, registry, browser
<1>13. ASSUME NEW t \in Tabs, Send(t) PROVE SubmissionTypeOK'
  <2>1. saving[t] \in Begun /\ saving[t].mission \in DOMAIN missions
    BY <1>13, TypedNow DEF Send, SavesAt, HashesHeld, Stamping, Notifying, Begun
  <2>2. mails' \subseteq [mission : DOMAIN missions, to : Addresses, by : {"submit", "notify"}]
    BY <1>13, <2>1, MailTyped DEF Send
  <2>3. saving' \in [Tabs -> Begun]
    BY <1>0, <1>13, TypedNow DEF Send, SaveEnds
  <2>. QED
    BY <1>13, <2>2, <2>3, TypedNow, TypedAfter, SameBegun DEF Send, registry, browser
<1>14. ASSUME NEW t \in Tabs, Reload(t) PROVE SubmissionTypeOK'
  <2>1. submission' \in [Tabs -> Begun] /\ saving' \in [Tabs -> Begun]
    BY <1>14, TypedNow, GoesOn DEF Reload, SubmitsAt, SavesAt
  <2>2. address' \in [Tabs -> Addresses \cup {None}]
    BY <1>14, TypedNow DEF Reload
  <2>. QED
    BY <1>14, <2>1, <2>2, TypedNow, TypedAfter, SameBegun DEF Reload, registry
<1>15. ASSUME NEW t \in Tabs, SubmissionDies(t) \/ SaveDies(t) PROVE SubmissionTypeOK'
  <2>1. submission' \in [Tabs -> Begun] /\ saving' \in [Tabs -> Begun]
    BY <1>0, <1>15, TypedNow DEF SubmissionDies, SaveDies, SaveEnds
  <2>. QED
    BY <1>15, <2>1, TypedNow, TypedAfter, SameBegun DEF SubmissionDies, SaveDies, registry, browser
<1>16. ASSUME NEW m \in DOMAIN missions, Operates(m) PROVE SubmissionTypeOK'
  <2>1. PICK status \in {"queued", "settled", "deleted"} : missions' = [missions EXCEPT ![m].status = status]
    BY <1>16 DEF Operates
  <2>2. [missions[m] EXCEPT !.status = status] \in Mission
    BY TypedNow, MissionTyped
  <2>3. missions' \in Seq(Mission) /\ Len(missions') = Len(missions)
    BY <2>1, <2>2, TypedNow, MissionChanged
  <2>. QED
    BY <1>16, <2>3, TypedNow, TypedAfter, SameBegun DEF Operates, registry, browser
<1>17. CASE UNCHANGED vars
  BY <1>17, TypedNow, TypedAfter, SameBegun DEF vars, registry, browser
<1>. QED
  BY <1>1, <1>2, <1>3, <1>4, <1>5, <1>6, <1>7, <1>8, <1>9, <1>10, <1>11, <1>12, <1>13, <1>14, <1>15, <1>16, <1>17
  DEF Next

-----------------------------------------------------------------------------
(* The names.                                                              *)

(* A step that neither makes a mission nor takes a name disturbs no name.  *)
LEMMA NamesKept ==
  ASSUME NamesHeld, DOMAIN missions' = DOMAIN missions, taken' = taken,
         \A i \in DOMAIN missions : missions'[i].name = missions[i].name,
         \A t \in Tabs : InHand(t)' => InHand(t) /\ submission'[t].name = submission[t].name
  PROVE  NamesHeld'
BY DEF NamesHeld

(* A step that takes a free name for a submission keeps it from the others. *)
LEMMA NameTaken ==
  ASSUME SubmissionTypeOK, NamesHeld, NEW t \in Tabs, NEW name \in Names, Free(name),
         ~InHand(t), missions' = missions, taken' = taken \cup {name},
         submission'[t].name = name,
         \A u \in Tabs \ {t} : submission'[u] = submission[u]
  PROVE  NamesHeld'
<1>1. \A i \in DOMAIN missions : missions[i].name # name
  BY DEF NamesHeld, Free
<1>2. \A u \in Tabs : InHand(u) => submission[u].name # name
  BY DEF NamesHeld, Free
<1>. QED
  BY <1>1, <1>2 DEF NamesHeld, InHand, Free

(* Writing one field of a mission leaves its name, and the other missions. *)
LEMMA OtherFields ==
  ASSUME missions \in Seq(Mission), NEW m, NEW v,
         \/ missions' = [missions EXCEPT ![m].hash = v]
         \/ missions' = [missions EXCEPT ![m].notified = v]
         \/ missions' = [missions EXCEPT ![m].status = v]
  PROVE  /\ DOMAIN missions' = DOMAIN missions
         /\ \A i \in DOMAIN missions :
              /\ missions'[i].name = missions[i].name
              /\ missions'[i].asked = missions[i].asked
              /\ i # m => missions'[i] = missions[i]
<1>1. \A i \in DOMAIN missions : missions[i] \in Mission
  OBVIOUS
<1>2. CASE missions' = [missions EXCEPT ![m].hash = v]
  BY <1>1, <1>2 DEF Mission
<1>3. CASE missions' = [missions EXCEPT ![m].notified = v]
  BY <1>1, <1>3 DEF Mission
<1>4. CASE missions' = [missions EXCEPT ![m].status = v]
  BY <1>1, <1>4 DEF Mission
<1>. QED BY <1>2, <1>3, <1>4

LEMMA StepNames == SubmissionInv /\ [Next]_vars => NamesHeld'
<1>. SUFFICES ASSUME SubmissionInv, [Next]_vars PROVE NamesHeld'
  OBVIOUS
<1>0. SubmissionTypeOK /\ NamesHeld /\ HashesHeld
  BY DEF SubmissionInv
<1>1. ASSUME NEW t \in Tabs, Claim(t) PROVE NamesHeld'
  <2>1. submission[t].name \in Names /\ ~InHand(t)
    BY <1>0, <1>1, TypedNow DEF Claim, SubmitsAt, InHand, Begun
  <2>2. CASE Free(submission[t].name)
    <3>1. submission'[t].name = submission[t].name /\ \A u \in Tabs \ {t} : submission'[u] = submission[u]
      BY <1>0, <1>1, <2>2, TypedNow DEF Claim, Begun
    <3>. QED BY <1>0, <1>1, <2>1, <2>2, <3>1, NameTaken DEF Claim
  <2>3. CASE ~Free(submission[t].name)
    <3>1. \A u \in Tabs : InHand(u)' => InHand(u) /\ submission'[u].name = submission[u].name
      BY <1>0, <1>1, <2>3, TypedNow DEF Claim, InHand, Begun
    <3>. QED BY <1>0, <1>1, <2>3, <3>1, NamesKept DEF Claim
  <2>. QED BY <2>2, <2>3
<1>2. ASSUME NEW t \in Tabs, TakeNext(t) PROVE NamesHeld'
  <2>1. ~InHand(t)
    BY <1>2 DEF TakeNext, SubmitsAt, InHand
  <2>2. ASSUME NEW n \in counter .. Combinations - 1, Free(NameForNumber(n)),
               taken' = taken \cup {NameForNumber(n)},
               submission' = [submission EXCEPT ![t].at = "create", ![t].name = NameForNumber(n)]
        PROVE  NamesHeld'
    <3>1. n \in Nat
      BY <1>0, TypedNow, NamesAssumption
    <3>2. NameForNumber(n) \in Names
      BY <3>1, NamesAreNames
    <3>3. submission'[t].name = NameForNumber(n) /\ \A u \in Tabs \ {t} : submission'[u] = submission[u]
      BY <1>0, <2>2, TypedNow DEF Begun
    <3>. QED BY <1>0, <1>2, <2>1, <2>2, <3>2, <3>3, NameTaken DEF TakeNext
  <2>3. CASE submission' = [submission EXCEPT ![t] = Idle] /\ UNCHANGED registry
    <3>1. \A u \in Tabs : InHand(u)' => InHand(u) /\ submission'[u].name = submission[u].name
      BY <1>0, <2>3, TypedNow DEF InHand, Idle
    <3>. QED BY <1>0, <1>2, <2>3, <3>1, NamesKept DEF TakeNext, registry
  <2>. QED BY <1>2, <2>2, <2>3 DEF TakeNext
<1>3. ASSUME NEW t \in Tabs, Create(t) PROVE NamesHeld'
  <2>1. /\ InHand(t) /\ Len(missions) \in Nat /\ missions \in Seq(Mission)
        /\ DOMAIN missions' = 1 .. Len(missions) + 1
        /\ \A i \in DOMAIN missions : missions'[i] = missions[i]
        /\ missions'[Len(missions) + 1].name = submission[t].name
    BY <1>0, <1>3, TypedNow DEF Create, SubmitsAt, InHand
  <2>2. \A u \in Tabs : InHand(u)' => u # t /\ submission'[u] = submission[u] /\ InHand(u)
    BY <1>0, <1>3, TypedNow DEF Create, InHand, Begun
  <2>3. DOMAIN missions = 1 .. Len(missions) /\ taken' = taken
    BY <1>3, <2>1 DEF Create, registry
  <2>4. \A i \in DOMAIN missions' : i \in DOMAIN missions \/ i = Len(missions) + 1
    BY <2>1, <2>3
  <2>. HIDE DEF InHand
  <2>. QED
    BY <1>0, <2>1, <2>2, <2>3, <2>4 DEF NamesHeld
<1>4. ASSUME NEW t \in Tabs, WriteStamp(t) \/ Record(t) PROVE NamesHeld'
  <2>1. missions \in Seq(Mission)
    BY <1>0, TypedNow
  <2>2. DOMAIN missions' = DOMAIN missions /\ \A i \in DOMAIN missions : missions'[i].name = missions[i].name
    <3>1. CASE missions' = missions
      BY <3>1
    <3>2. CASE missions' = [missions EXCEPT ![saving[t].mission].hash = saving[t].address]
      BY <2>1, <3>2, OtherFields
    <3>3. CASE missions' = [missions EXCEPT ![saving[t].mission].notified = TRUE]
      BY <2>1, <3>3, OtherFields
    <3>. QED BY <1>4, <3>1, <3>2, <3>3 DEF WriteStamp, Record
  <2>. QED BY <1>0, <1>4, <2>2, NamesKept DEF WriteStamp, Record, registry, InHand
<1>5. ASSUME NEW m \in DOMAIN missions, Operates(m) PROVE NamesHeld'
  <2>1. missions \in Seq(Mission)
    BY <1>0, TypedNow
  <2>2. DOMAIN missions' = DOMAIN missions /\ \A i \in DOMAIN missions : missions'[i].name = missions[i].name
    BY <1>5, <2>1, OtherFields DEF Operates
  <2>. QED BY <1>0, <1>5, <2>2, NamesKept DEF Operates, registry, InHand
<1>6. ASSUME NEW t \in Tabs, NEW rolled \in Names,
             Submit(t, rolled) \/ MailSubmitted(t) \/ Answer(t) \/ Reload(t) \/ SubmissionDies(t)
      PROVE  NamesHeld'
  <2>1. missions' = missions /\ taken' = taken
    BY <1>6 DEF Submit, MailSubmitted, Answer, Reload, SubmissionDies, registry
  <2>2. \A u \in Tabs : InHand(u)' => InHand(u) /\ submission'[u].name = submission[u].name
    <3>1. submission \in [Tabs -> Begun]
      BY <1>0, TypedNow
    <3>2. CASE Submit(t, rolled)
      BY <3>1, <3>2 DEF Submit, InHand, Idle
    <3>3. CASE MailSubmitted(t) \/ Reload(t)
      BY <3>1, <3>3 DEF MailSubmitted, Reload, InHand, Begun
    <3>4. CASE Answer(t) \/ SubmissionDies(t)
      BY <3>1, <3>4 DEF Answer, SubmissionDies, InHand, Idle
    <3>. QED BY <1>6, <3>2, <3>3, <3>4
  <2>. QED BY <1>0, <2>1, <2>2, NamesKept
<1>7. ASSUME NEW t \in Tabs, NEW given \in Addresses \cup {None},
             \/ SetLearnerEmail(t, given) \/ Persist(t) \/ ReadStamp(t)
             \/ NotifyReads(t) \/ Send(t) \/ SaveDies(t)
      PROVE  NamesHeld'
  <2>1. missions' = missions /\ taken' = taken /\ submission' = submission
    BY <1>7 DEF SetLearnerEmail, Persist, ReadStamp, NotifyReads, Send, SaveDies, registry
  <2>. QED BY <1>0, <2>1, NamesKept DEF InHand
<1>8. CASE UNCHANGED vars
  BY <1>0, <1>8, NamesKept DEF vars, registry, InHand
<1>9. None \in Addresses \cup {None} /\ 0 \in Names
  BY NamesAssumption DEF Names
<1>. QED
  BY <1>1, <1>2, <1>3, <1>4, <1>5, <1>6, <1>7, <1>8, <1>9 DEF Next

-----------------------------------------------------------------------------
(* The hashes and the mails.                                               *)

NoHashLost ==
  \A i \in DOMAIN missions :
    /\ i \in DOMAIN missions' /\ missions'[i].asked = missions[i].asked
    /\ missions[i].hash # None => missions'[i].hash = missions[i].hash

(* A hash is written only where there was none. *)
LEMMA HashesStay == SubmissionInv /\ [Next]_vars => NoHashLost
<1>. SUFFICES ASSUME SubmissionInv, [Next]_vars PROVE NoHashLost
  OBVIOUS
<1>0. SubmissionTypeOK /\ missions \in Seq(Mission)
  BY TypedNow DEF SubmissionInv
<1>1. CASE missions' = missions
  BY <1>1 DEF NoHashLost
<1>2. ASSUME NEW t \in Tabs, Create(t) PROVE NoHashLost
  BY <1>0, <1>2 DEF Create, NoHashLost
<1>3. ASSUME NEW t \in Tabs, WriteStamp(t) PROVE NoHashLost
  <2>1. CASE missions' = [missions EXCEPT ![saving[t].mission].hash = saving[t].address] /\ MayFill(saving[t].mission)
    BY <1>0, <2>1, OtherFields DEF MayFill, NoHashLost
  <2>. QED BY <1>1, <1>3, <2>1 DEF WriteStamp
<1>4. ASSUME NEW m, NEW v, \/ missions' = [missions EXCEPT ![m].notified = v]
                          \/ missions' = [missions EXCEPT ![m].status = v]
      PROVE  NoHashLost
  <2>1. \A i \in DOMAIN missions : missions[i] \in Mission
    BY <1>0
  <2>2. \A i \in DOMAIN missions : i \in DOMAIN missions' /\ missions'[i].hash = missions[i].hash
    BY <1>4, <2>1 DEF Mission
  <2>. QED BY <1>0, <1>4, <2>2, OtherFields DEF NoHashLost
<1>5. ASSUME NEW t \in Tabs, Record(t) PROVE NoHashLost
  BY <1>1, <1>4, <1>5 DEF Record
<1>6. ASSUME NEW m \in DOMAIN missions, Operates(m) PROVE NoHashLost
  BY <1>4, <1>6 DEF Operates
<1>. QED
  BY <1>1, <1>2, <1>3, <1>5, <1>6
  DEF Next, vars, Submit, Claim, TakeNext, MailSubmitted, Answer, SetLearnerEmail, Persist, ReadStamp,
      NotifyReads, Send, Reload, SubmissionDies, SaveDies

(* A tab that does not come to mail, or to stamp, by a step holds what it held. *)
LEMMA MailingKept ==
  ASSUME SubmissionTypeOK, HashesHeld, NoHashLost, NEW t \in Tabs,
         submission'[t].at = "mail" =>
           /\ submission[t].at = "mail"
           /\ submission'[t].mission = submission[t].mission
           /\ submission'[t].address = submission[t].address
  PROVE  Mailing(t)'
<1>. SUFFICES ASSUME submission'[t].at = "mail" PROVE Mailing(t)'
  BY DEF Mailing
<1>1. submission[t].at = "mail" /\ Mailing(t)
  BY DEF HashesHeld
<1>2. submission[t].mission \in DOMAIN missions
  BY <1>1, TypedNow DEF Begun, Mailing
<1>. QED BY <1>1, <1>2 DEF NoHashLost, Mailing

LEMMA StampingKept ==
  ASSUME SubmissionTypeOK, HashesHeld, NoHashLost, NEW t \in Tabs,
         saving'[t].at \in {"read", "stamp"} \cup Notifying =>
           /\ saving'[t].at = saving[t].at \/ saving[t].at \in Notifying
           /\ saving'[t].mission = saving[t].mission /\ saving'[t].address = saving[t].address
  PROVE  Stamping(t)'
<1>. SUFFICES ASSUME saving'[t].at \in {"read", "stamp"} \cup Notifying PROVE Stamping(t)'
  BY DEF Stamping
<1>1. saving[t].at \in {"read", "stamp"} \cup Notifying /\ Stamping(t)
  BY DEF HashesHeld
<1>2. CASE saving[t].at = "read"
  BY <1>1, <1>2 DEF Stamping, Notifying
<1>3. CASE saving[t].at # "read"
  <2>1. saving[t].mission \in DOMAIN missions
    BY <1>1, <1>3, TypedNow DEF Begun, Stamping
  <2>. QED BY <1>1, <1>3, <2>1 DEF NoHashLost, Stamping, Notifying
<1>. QED BY <1>2, <1>3

LEMMA StepHashes == SubmissionInv /\ [Next]_vars => HashesHeld'
<1>. SUFFICES ASSUME SubmissionInv, [Next]_vars PROVE HashesHeld'
  OBVIOUS
<1>0. /\ SubmissionTypeOK /\ HashesHeld /\ NoHashLost /\ None \notin Addresses
      /\ submission \in [Tabs -> Begun] /\ saving \in [Tabs -> Begun]
      /\ missions \in Seq(Mission) /\ Len(missions) \in Nat
  BY HashesStay, TypedNow, NamesAssumption DEF SubmissionInv
<1>1. ASSUME submission' = submission PROVE \A t \in Tabs : Mailing(t)'
  BY <1>0, <1>1, MailingKept
<1>2. ASSUME saving' = saving PROVE \A t \in Tabs : Stamping(t)'
  BY <1>0, <1>2, StampingKept
(* The submissions. *)
<1>3. ASSUME NEW t \in Tabs, NEW rolled \in Names,
             \/ Submit(t, rolled) \/ Claim(t) \/ TakeNext(t) \/ MailSubmitted(t)
             \/ Answer(t) \/ SubmissionDies(t)
      PROVE  HashesHeld'
  <2>1. saving' = saving
    BY <1>3 DEF Submit, Claim, TakeNext, MailSubmitted, Answer, SubmissionDies
  <2>2. /\ submission'[t].at # "mail"
        /\ \A u \in Tabs \ {t} : submission'[u] = submission[u]
    <3>1. CASE Submit(t, rolled)
      BY <1>0, <3>1 DEF Submit, Idle
    <3>2. CASE Claim(t)
      BY <1>0, <3>2 DEF Claim, Begun
    <3>3. CASE TakeNext(t)
      BY <1>0, <3>3 DEF TakeNext, Idle, Begun
    <3>4. CASE MailSubmitted(t)
      BY <1>0, <3>4 DEF MailSubmitted, Begun
    <3>5. CASE Answer(t) \/ SubmissionDies(t)
      BY <1>0, <3>5 DEF Answer, SubmissionDies, Idle
    <3>. QED BY <1>3, <3>1, <3>2, <3>3, <3>4, <3>5
  <2>3. \A u \in Tabs : Mailing(u)'
    BY <1>0, <2>2, MailingKept
  <2>. QED BY <1>2, <2>1, <2>3 DEF HashesHeld
<1>4. ASSUME NEW t \in Tabs, Create(t) PROVE HashesHeld'
  <2>1. saving' = saving /\ \A u \in Tabs \ {t} : submission'[u] = submission[u]
    BY <1>0, <1>4 DEF Create
  <2>2. \A u \in Tabs \ {t} : Mailing(u)'
    BY <1>0, <2>1, MailingKept
  <2>3. Mailing(t)'
    <3>1. /\ submission'[t].mission = Len(missions) + 1
          /\ submission'[t].address = submission[t].address
      BY <1>0, <1>4 DEF Create, Begun
    <3>2. /\ missions'[Len(missions) + 1].hash = submission[t].address
          /\ missions'[Len(missions) + 1].asked = (submission[t].address # None)
      BY <1>0, <1>4 DEF Create
    <3>3. Len(missions) + 1 # 0
      BY <1>0
    <3>. QED BY <3>1, <3>2, <3>3 DEF Mailing
  <2>. QED BY <1>2, <2>1, <2>2, <2>3 DEF HashesHeld
(* The saves. *)
<1>5. ASSUME NEW t \in Tabs, NEW given \in Addresses \cup {None},
             \/ SetLearnerEmail(t, given) \/ Persist(t) \/ NotifyReads(t) \/ Record(t)
             \/ Send(t) \/ SaveDies(t)
      PROVE  HashesHeld'
  <2>1. submission' = submission
    BY <1>5 DEF SetLearnerEmail, Persist, NotifyReads, Record, Send, SaveDies
  <2>2. \A u \in Tabs \ {t} : saving'[u] = saving[u]
    BY <1>0, <1>5 DEF SetLearnerEmail, Persist, NotifyReads, Record, Send, SaveDies, SaveEnds, SaveGoesTo
  <2>3. Stamping(t)'
    <3>1. CASE SetLearnerEmail(t, given)
      BY <1>0, <3>1 DEF SetLearnerEmail, Idle, Stamping, Notifying
    <3>2. CASE Persist(t)
      <4>1. CASE SaveEnds(t)
        BY <1>0, <4>1 DEF SaveEnds, Idle, Stamping, Notifying
      <4>2. CASE saving[t].address # None /\ SaveGoesTo(t, "read")
        BY <1>0, <4>2 DEF SaveGoesTo, Begun, Stamping, Notifying
      <4>. QED BY <3>2, <4>1, <4>2 DEF Persist
    <3>3. CASE NotifyReads(t) \/ Record(t)
      <4>1. CASE SaveEnds(t)
        BY <1>0, <4>1 DEF SaveEnds, Idle, Stamping, Notifying
      <4>2. CASE SaveGoesTo(t, "record") \/ SaveGoesTo(t, "send")
        <5>1. saving[t].at \in Notifying
          BY <3>3 DEF NotifyReads, Record, SavesAt, Notifying
        <5>2. saving'[t].mission = saving[t].mission /\ saving'[t].address = saving[t].address
          BY <1>0, <4>2 DEF SaveGoesTo, Begun
        <5>. QED BY <1>0, <5>1, <5>2, StampingKept
      <4>. QED BY <3>3, <4>1, <4>2 DEF NotifyReads, Record
    <3>4. CASE Send(t) \/ SaveDies(t)
      BY <1>0, <3>4 DEF Send, SaveDies, SaveEnds, Idle, Stamping, Notifying
    <3>. QED BY <1>5, <3>1, <3>2, <3>3, <3>4
  <2>4. \A u \in Tabs \ {t} : Stamping(u)'
    BY <1>0, <2>2, StampingKept
  <2>. QED BY <1>1, <2>1, <2>3, <2>4 DEF HashesHeld
<1>6. ASSUME NEW t \in Tabs, ReadStamp(t) PROVE HashesHeld'
  <2>1. submission' = submission /\ missions' = missions /\ \A u \in Tabs \ {t} : saving'[u] = saving[u]
    BY <1>0, <1>6 DEF ReadStamp, SaveEnds
  <2>2. \A u \in Tabs \ {t} : Stamping(u)'
    BY <1>0, <2>1, StampingKept
  <2>3. Stamping(t)'
    <3>0. saving[t].address # None
      BY <1>0, <1>6 DEF ReadStamp, SavesAt, HashesHeld, Stamping, Notifying
    <3>1. CASE saving' = [saving EXCEPT ![t].at = "stamp", ![t].mission = latest] /\ latest # 0
      BY <1>0, <3>0, <3>1 DEF Stamping, Begun, Notifying
    <3>2. CASE SaveEnds(t)
      BY <1>0, <3>2 DEF SaveEnds, Idle, Stamping, Notifying
    <3>. QED BY <1>6, <3>1, <3>2 DEF ReadStamp
  <2>. QED BY <1>1, <2>1, <2>2, <2>3 DEF HashesHeld
<1>7. ASSUME NEW t \in Tabs, WriteStamp(t) PROVE HashesHeld'
  <2>1. submission' = submission /\ \A u \in Tabs \ {t} : saving'[u] = saving[u]
    BY <1>0, <1>7 DEF WriteStamp, SaveEnds, SaveGoesTo
  <2>2. \A u \in Tabs \ {t} : Stamping(u)'
    BY <1>0, <2>1, StampingKept
  <2>3. Stamping(t)'
    <3>1. /\ saving[t].at = "stamp" /\ saving[t].mission # 0 /\ saving[t].address # None
          /\ saving[t].mission \in DOMAIN missions
      BY <1>0, <1>7 DEF WriteStamp, SavesAt, HashesHeld, Stamping, Notifying, Begun
    <3>2. CASE /\ missions' = [missions EXCEPT ![saving[t].mission].hash = saving[t].address]
               /\ SaveGoesTo(t, "notify")
      <4>1. saving'[t].mission = saving[t].mission /\ saving'[t].address = saving[t].address
        BY <1>0, <3>2 DEF SaveGoesTo, Begun
      <4>2. missions'[saving[t].mission].hash = saving[t].address
        <5>1. missions[saving[t].mission] \in Mission
          BY <1>0, <3>1
        <5>. QED BY <3>1, <3>2, <5>1 DEF Mission
      <4>. QED BY <3>1, <4>1, <4>2 DEF Stamping, Notifying
    <3>3. CASE SaveEnds(t)
      BY <1>0, <3>3 DEF SaveEnds, Idle, Stamping, Notifying
    <3>. QED BY <1>7, <3>2, <3>3 DEF WriteStamp
  <2>. QED BY <1>1, <2>1, <2>2, <2>3 DEF HashesHeld
<1>8. ASSUME NEW t \in Tabs, Reload(t) PROVE HashesHeld'
  <2>1. \A u \in Tabs : /\ submission'[u].at = submission[u].at /\ submission'[u].mission = submission[u].mission
                         /\ submission'[u].address = submission[u].address
    BY <1>0, <1>8 DEF Reload, Begun
  <2>2. \A u \in Tabs : /\ saving'[u].at = saving[u].at /\ saving'[u].mission = saving[u].mission
                         /\ saving'[u].address = saving[u].address
    BY <1>0, <1>8 DEF Reload, Begun
  <2>. QED BY <1>0, <2>1, <2>2, MailingKept, StampingKept DEF HashesHeld
<1>9. ASSUME NEW m \in DOMAIN missions, Operates(m) PROVE HashesHeld'
  BY <1>1, <1>2, <1>9 DEF Operates, HashesHeld
<1>10. CASE UNCHANGED vars
  BY <1>1, <1>2, <1>10 DEF vars, HashesHeld
<1>11. None \in Addresses \cup {None} /\ 0 \in Names
  BY NamesAssumption DEF Names
<1>. QED
  BY <1>3, <1>4, <1>5, <1>6, <1>7, <1>8, <1>9, <1>10, <1>11 DEF Next

(* A mail that may be sent meets what the mission carries; the others meet  *)
(* it still.                                                                *)
LEMMA StepMails == SubmissionInv /\ [Next]_vars => MailMeetsTheHash'
<1>. SUFFICES ASSUME SubmissionInv, [Next]_vars PROVE MailMeetsTheHash'
  OBVIOUS
<1>0. /\ SubmissionTypeOK /\ HashesHeld /\ NoHashLost /\ MailMeetsTheHash /\ None \notin Addresses
      /\ submission \in [Tabs -> Begun] /\ saving \in [Tabs -> Begun]
      /\ mails \subseteq [mission : DOMAIN missions, to : Addresses, by : {"submit", "notify"}]
  BY HashesStay, TypedNow, NamesAssumption DEF SubmissionInv
<1>1. \A mail \in mails :
        \/ mail.to = missions'[mail.mission].hash
        \/ mail.by = "submit" /\ ~missions'[mail.mission].asked
  <2>. TAKE mail \in mails
  <2>1. mail.mission \in DOMAIN missions /\ mail.to # None
    BY <1>0
  <2>. QED BY <1>0, <2>1 DEF MailMeetsTheHash, NoHashLost
<1>2. CASE mails' = mails
  BY <1>1, <1>2 DEF MailMeetsTheHash
<1>3. ASSUME NEW t \in Tabs, MailSubmitted(t) PROVE MailMeetsTheHash'
  <2>1. Mailing(t) /\ submission[t].at = "mail" /\ missions' = missions
    BY <1>0, <1>3 DEF MailSubmitted, SubmitsAt, HashesHeld
  <2>2. ASSUME NEW mail \in mails', mail \notin mails
        PROVE  \/ mail.to = missions'[mail.mission].hash
               \/ mail.by = "submit" /\ ~missions'[mail.mission].asked
    <3>1. /\ MayReach(submission[t].address)
          /\ mail = [mission |-> submission[t].mission, to |-> contact, by |-> "submit"]
      BY <1>3, <2>2 DEF MailSubmitted, Notify
    <3>. QED BY <2>1, <3>1 DEF MayReach, Mailing
  <2>. QED BY <1>1, <2>2 DEF MailMeetsTheHash
<1>4. ASSUME NEW t \in Tabs, Send(t) PROVE MailMeetsTheHash'
  <2>1. Stamping(t) /\ saving[t].at = "send" /\ missions' = missions
    BY <1>0, <1>4 DEF Send, SavesAt, HashesHeld
  <2>2. ASSUME NEW mail \in mails', mail \notin mails
        PROVE  mail.to = missions'[mail.mission].hash
    <3>1. /\ MayReach(missions[saving[t].mission].hash)
          /\ mail = [mission |-> saving[t].mission, to |-> contact, by |-> "notify"]
      BY <1>4, <2>2 DEF Send, Notify
    <3>. QED BY <2>1, <3>1 DEF MayReach, Stamping, Notifying
  <2>. QED BY <1>1, <2>2 DEF MailMeetsTheHash
<1>. QED
  BY <1>2, <1>3, <1>4
  DEF Next, vars, Submit, Claim, TakeNext, Create, Answer, SetLearnerEmail, Persist, ReadStamp, WriteStamp,
      NotifyReads, Record, Reload, SubmissionDies, SaveDies, Operates

-----------------------------------------------------------------------------
LEMMA Invariant == Spec => []SubmissionInv
<1>1. Init => SubmissionInv
  BY InitTyped DEF Init, SubmissionInv, NamesHeld, InHand, HashesHeld, Mailing, Stamping, Notifying, MailMeetsTheHash, Idle
<1>2. SubmissionInv /\ [Next]_vars => SubmissionInv'
  BY StepTyped, StepNames, StepHashes, StepMails DEF SubmissionInv
<1>. QED
  BY <1>1, <1>2, PTL DEF Spec

(* Whatever interleaves, is reloaded or killed, the registry, the missions, *)
(* the record, the browser and the requests stay what they are.             *)
THEOREM TypeCorrect == Spec => []SubmissionTypeOK
<1>1. SubmissionInv => SubmissionTypeOK
  BY DEF SubmissionInv
<1>. QED
  BY <1>1, Invariant, PTL

(* No two missions ever have one name, for any vocabulary in which the      *)
(* numbering gives different numbers different names.                       *)
THEOREM NamesUnique == Spec => []NamesNeverRepeat
<1>1. SubmissionInv => NamesNeverRepeat
  BY DEF SubmissionInv, NamesHeld, NamesNeverRepeat
<1>. QED
  BY <1>1, Invariant, PTL

(* No mail about a mission goes to an address other than the one it carries, *)
(* unless it carried none when it was submitted.                             *)
THEOREM MailsMeetHashes == Spec => []MailMeetsTheHash
<1>1. SubmissionInv => MailMeetsTheHash
  BY DEF SubmissionInv
<1>. QED
  BY <1>1, Invariant, PTL
=============================================================================
