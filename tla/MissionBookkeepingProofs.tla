---------------------- MODULE MissionBookkeepingProofs ----------------------
(***************************************************************************)
(* What MissionBookkeeping guarantees for any number of requests, yards    *)
(* and runs.                                                               *)
(***************************************************************************)
EXTENDS MissionBookkeeping, TLAPS

IsDecision(d) ==
  d.by \in Writers /\ d.status \in Statuses \cup {Unchanged} /\ d.video \in Videos \cup {NoVideo, Unchanged}

IsWrite(p) == IsDecision(p) /\ p.run \in {NewRun} \cup RunIds /\ p.yard \in Yards

Snapshot == [status : Statuses \cup {"unread", "absent"}, review : BOOLEAN, runs : [RunIds -> RunDoc]]

(***************************************************************************)
(* The inductive invariant: a document that exists keeps its yard, so what *)
(* a request read of it is still true; the dispatch's run is at the yard   *)
(* where it was filmed; and what a request read is what is there unless    *)
(* somebody wrote meanwhile.                                               *)
(***************************************************************************)
YardsStand ==
  /\ runs[Dispatch].made => runs[Dispatch].yard = FilmedAt
  /\ \A r \in Requests, i \in RunIds : seen[r].runs[i].made =>
       runs[i].made /\ seen[r].runs[i].yard = runs[i].yard

SeenUnlessOvertaken ==
  \A r \in Requests : at[r] \in {"deciding", "linking", "closing"} /\ ~overtaken[r] => seen[r].runs = runs

BookkeepingInv == BookkeepingTypeOK /\ YardsStand /\ SeenUnlessOvertaken

-----------------------------------------------------------------------------
(* What a decision may write. *)

LEMMA Words ==
  /\ "completed" \in Statuses /\ "cancelled" \in Statuses /\ "queued" \in Statuses
  /\ "operator" \in Writers /\ "reviewer" \in Writers /\ "named" \in Writers /\ "link" \in Writers
  /\ \A st : st \in Open => st \notin Settled
  /\ "completed" \in Settled /\ Unchanged \notin Statuses
BY DEF Statuses, Open, Settled, Writers, Unchanged

LEMMA DecisionsTyped ==
  ASSUME NEW st, NEW review, NEW d \in Decisions(st) \cup LatestDecisions(st, review)
  PROVE  /\ IsDecision(d)
         /\ d.by \in {"operator", "reviewer"}
         /\ d.by = "operator" /\ d.status # Unchanged => st \notin Settled
BY Words DEF Decision, IsDecision, Decisions, LatestDecisions

(* An operator writes on a run of the session's yard or on a new one, and  *)
(* changes the outcome of an ended run only by naming it or settling its   *)
(* review.                                                                 *)
LEMMA CommandPlans ==
  ASSUME NEW s, s.runs \in [RunIds -> RunDoc], NEW y \in Yards, NEW i \in Latest(s.runs, y),
         NEW p \in Allowed(s, y, i)
  PROVE  /\ IsWrite(p)
         /\ p.by \in {"operator", "named", "reviewer"}
         /\ p.run = NewRun \/ (p.run \in Live(s.runs) /\ s.runs[p.run].yard = p.yard)
         /\ p.by = "operator" /\ p.status # Unchanged =>
              p.run = NewRun \/ s.runs[p.run].status \notin Settled
<1>1. i = NoRun \/ (i \in Live(s.runs) /\ s.runs[i].yard = y)
  BY DEF Latest, First
<1>2. i \in {NewRun} \cup RunIds
  BY <1>1 DEF Live, NoRun, NewRun
<1>3. CASE p \in OnLatest(s, y, i)
  <2>1. PICK d \in Decisions(StatusOf(s, i)) \cup LatestDecisions(StatusOf(s, i), NeedsReview(s, i)) : p = At(d.by, d, i, y)
    BY <1>3 DEF OnLatest
  <2>2. /\ IsDecision(d)
        /\ d.by \in {"operator", "reviewer"}
        /\ d.by = "operator" /\ d.status # Unchanged => StatusOf(s, i) \notin Settled
    BY <2>1, DecisionsTyped
  <2>3. IsWrite(p) /\ p.by = d.by /\ p.run = i /\ p.yard = y /\ p.status = d.status
    BY <1>2, <2>1, <2>2 DEF At, IsDecision, IsWrite
  <2>. QED
    BY <1>1, <1>2, <2>2, <2>3 DEF NoRun, NewRun, StatusOf
<1>4. CASE p \in OnNamed(s, y, i, {j \in Live(s.runs) : s.runs[j].yard = y})
  <2>1. PICK d \in Decisions(StatusOf(s, i)), j \in {k \in Live(s.runs) : s.runs[k].yard = y} :
          p = At("named", d, j, y)
    BY <1>4 DEF OnNamed
  <2>2. IsDecision(d)
    BY <2>1, DecisionsTyped
  <2>. QED
    BY <2>1, <2>2, Words DEF At, IsDecision, IsWrite, Live
<1>5. CASE p \in AnotherRun(s, y, i, NewRun)
  <2>1. p = At("operator", Decision("operator", "completed", TRUE, Unchanged), NewRun, y)
    BY <1>5 DEF AnotherRun
  <2>. QED
    BY <2>1, Words DEF At, Decision, IsDecision, IsWrite
<1>. QED
  BY <1>3, <1>4, <1>5 DEF Allowed

(* The linker gives a video that no run has to a run that has none, ends   *)
(* only an open one, and makes a run only for a dispatch or with a new id. *)
LEMMA LinkPlans ==
  ASSUME NEW c \in Claims, NEW rs \in [RunIds -> RunDoc], NEW m,
         NEW p \in PlanVideoLink(c, rs, m) \ {NeedsMission}
  PROVE  /\ IsWrite(p)
         /\ p.by = "link" /\ p.video = c.video
         /\ ~Taken(c, rs)
         /\ \/ /\ p.run \in Live(rs) /\ p.yard = rs[p.run].yard /\ rs[p.run].video = NoVideo
               /\ p.status # Unchanged => rs[p.run].status \in Open
            \/ p.run = NewRun
            \/ p.run = Dispatch /\ p.run \notin Live(rs) /\ p.yard = FilmedAt
<1> DEFINE mine == {i \in Live(rs) : c.yard \in {AnyYard, rs[i].yard}}
           bare == {i \in mine : rs[i].video = NoVideo}
           finished == {i \in bare : rs[i].status = "completed"}
           open == {i \in bare : rs[i].status \in Open}
           named == rs[c.dispatch]
           lastYard == IF c.yard = AnyYard THEN HomeYard ELSE c.yard
<1>1. /\ c.video \in Videos /\ c.dispatch \in {NoRun, Dispatch} /\ c.yard \in Yards \cup {AnyYard}
      /\ c.dispatch = Dispatch => lastYard = FilmedAt
      /\ lastYard \in Yards
  BY BookkeepingAssumption DEF Claims, Upload, NoRun, RunIds
<1> HIDE DEF mine, bare, finished, open, named, lastYard
<1>2. ASSUME NEW run \in {NewRun} \cup RunIds, NEW y \in Yards, p \in Closing(c, m, run, y)
      PROVE  p = LinkTo(c, run, y, TRUE)
  BY <1>2 DEF Closing
<1>3. \A i \in Live(rs) : i \in RunIds /\ rs[i].yard \in Yards
  BY DEF Live, RunDoc
<1>4. ~Taken(c, rs)
  BY DEF PlanVideoLink
<1>5. CASE c.dispatch \in Live(rs)
  <2>1. /\ named.video = NoVideo
        /\ \/ p = LinkTo(c, c.dispatch, named.yard, FALSE)
           \/ named.status \in Open /\ p \in Closing(c, m, c.dispatch, named.yard)
    BY <1>4, <1>5 DEF PlanVideoLink, named
  <2>2. c.dispatch \in RunIds /\ named.yard \in Yards
    BY <1>3, <1>5 DEF named
  <2>3. CASE p = LinkTo(c, c.dispatch, named.yard, FALSE)
    BY <1>1, <1>4, <1>5, <2>1, <2>2, <2>3, Words DEF LinkTo, At, Decision, IsDecision, IsWrite, named
  <2>4. CASE named.status \in Open /\ p \in Closing(c, m, c.dispatch, named.yard)
    BY <1>1, <1>2, <1>4, <1>5, <2>1, <2>2, <2>4, Words DEF LinkTo, At, Decision, IsDecision, IsWrite, named
  <2>. QED
    BY <2>1, <2>3, <2>4
<1>6. CASE c.dispatch \notin Live(rs) /\ finished # {}
  <2>1. PICK i \in finished : p = LinkTo(c, i, rs[i].yard, FALSE)
    BY <1>4, <1>6 DEF PlanVideoLink, LastFinished, mine, bare, finished
  <2>2. i \in Live(rs) /\ rs[i].video = NoVideo
    BY DEF mine, bare, finished, open
  <2>. QED
    BY <1>1, <1>3, <1>4, <2>1, <2>2, Words DEF LinkTo, At, Decision, IsDecision, IsWrite
<1>7. CASE c.dispatch \notin Live(rs) /\ finished = {} /\ open # {}
  <2>1. PICK i \in open : p \in Closing(c, m, i, rs[i].yard)
    BY <1>4, <1>7 DEF PlanVideoLink, First, mine, bare, finished, open
  <2>2. i \in Live(rs) /\ rs[i].video = NoVideo /\ rs[i].status \in Open
    BY DEF mine, bare, finished, open
  <2>. QED
    BY <1>1, <1>2, <1>3, <1>4, <2>1, <2>2, Words DEF LinkTo, At, Decision, IsDecision, IsWrite
<1>8. CASE c.dispatch \notin Live(rs) /\ finished = {} /\ open = {}
  <2>1. p \in Closing(c, m, c.dispatch, lastYard)
    BY <1>4, <1>8 DEF PlanVideoLink, mine, bare, finished, open, lastYard
  <2>2. c.dispatch \in {NewRun} \cup RunIds
    BY <1>1, BookkeepingAssumption DEF NoRun, NewRun
  <2>. QED
    BY <1>1, <1>2, <1>4, <1>8, <2>1, <2>2, Words DEF LinkTo, At, Decision, IsDecision, IsWrite, NoRun, NewRun
<1>. QED
  BY <1>5, <1>6, <1>7, <1>8

-----------------------------------------------------------------------------
(* What a batch does to the documents. *)

LEMMA BatchWrites ==
  ASSUME BookkeepingTypeOK, NEW r \in Requests, NEW p, IsWrite(p), ApplyBookkeeping(r, p)
  PROVE  \E i \in RunIds :
           /\ p.run = NewRun => ~runs[i].made /\ i # Dispatch
           /\ p.run # NewRun => i = p.run
           /\ runs' \in [RunIds -> RunDoc]
           /\ \A j \in RunIds : j # i => runs'[j] = runs[j]
           /\ runs'[i].made /\ runs'[i].yard = p.yard /\ runs'[i].gone = runs[i].gone
           /\ runs'[i].status = IF p.status = Unchanged THEN runs[i].status ELSE p.status
           /\ runs'[i].stampedAt = IF p.status = Unchanged THEN runs[i].stampedAt ELSE clock'
           /\ runs'[i].video = IF p.video = Unchanged THEN runs[i].video ELSE p.video
<1>1. PICK i \in Target(p) : runs' = [runs EXCEPT ![i] = WrittenRun(runs[i], p, clock + 1)]
  BY DEF ApplyBookkeeping
<1>2. /\ i \in RunIds
      /\ p.run = NewRun => ~runs[i].made /\ i # Dispatch
      /\ p.run # NewRun => i = p.run
  BY DEF Target, IsWrite
<1>3. clock \in Nat /\ clock' = clock + 1 /\ runs \in [RunIds -> RunDoc]
  BY DEF ApplyBookkeeping, BookkeepingTypeOK
<1>4. runs[i] \in RunDoc /\ clock + 1 \in Nat
  BY <1>2, <1>3
<1>5. WrittenRun(runs[i], p, clock + 1) \in RunDoc
  BY <1>4 DEF WrittenRun, RunDoc, IsWrite, IsDecision
<1>6. runs' \in [RunIds -> RunDoc] /\ runs'[i] = WrittenRun(runs[i], p, clock')
  BY <1>1, <1>2, <1>3, <1>5
<1>7. /\ WrittenRun(runs[i], p, clock').made
      /\ WrittenRun(runs[i], p, clock').yard = p.yard
      /\ WrittenRun(runs[i], p, clock').gone = runs[i].gone
      /\ WrittenRun(runs[i], p, clock').status = IF p.status = Unchanged THEN runs[i].status ELSE p.status
      /\ WrittenRun(runs[i], p, clock').stampedAt = IF p.status = Unchanged THEN runs[i].stampedAt ELSE clock'
      /\ WrittenRun(runs[i], p, clock').video = IF p.video = Unchanged THEN runs[i].video ELSE p.video
  BY <1>4 DEF WrittenRun, RunDoc
<1>. QED
  BY <1>1, <1>2, <1>3, <1>6, <1>7

LEMMA BatchMirrors ==
  ASSUME BookkeepingTypeOK, NEW r \in Requests, NEW p, IsWrite(p), ApplyBookkeeping(r, p)
  PROVE  /\ mission' \in MissionDoc
         /\ mission'.status = IF p.status = Unchanged THEN mission.status ELSE p.status
         /\ mission'.stampedAt = IF p.status = Unchanged THEN mission.stampedAt ELSE clock'
         /\ mission'.video = IF p.video = Unchanged THEN mission.video ELSE p.video
<1>1. mission \in MissionDoc /\ clock \in Nat /\ clock' = clock + 1
  BY DEF ApplyBookkeeping, BookkeepingTypeOK
<1>2. mission' = WrittenMission(mission, p, clock + 1)
  BY DEF ApplyBookkeeping
<1>3. WrittenMission(mission, p, clock + 1) \in MissionDoc
  <2> DEFINE status == IF p.status = Unchanged THEN mission.status ELSE p.status
             stamp == IF p.status = Unchanged THEN mission.stampedAt ELSE clock + 1
             video == IF p.video = Unchanged THEN mission.video ELSE p.video
             review == mission.review /\ ~p.clears
  <2>1. status \in Statuses /\ stamp \in Nat /\ video \in Videos \cup {NoVideo}
    BY <1>1 DEF IsWrite, IsDecision, MissionDoc
  <2>2. review \in BOOLEAN
    OBVIOUS
  <2>3. WrittenMission(mission, p, clock + 1)
          = [mission EXCEPT !.status = status, !.stampedAt = stamp, !.video = video, !.review = review]
    BY DEF WrittenMission
  <2> HIDE DEF status, stamp, video, review
  <2>. QED
    BY <1>1, <2>1, <2>2, <2>3 DEF MissionDoc
<1>4. /\ WrittenMission(mission, p, clock').status = IF p.status = Unchanged THEN mission.status ELSE p.status
      /\ WrittenMission(mission, p, clock').stampedAt = IF p.status = Unchanged THEN mission.stampedAt ELSE clock'
      /\ WrittenMission(mission, p, clock').video = IF p.video = Unchanged THEN mission.video ELSE p.video
  BY <1>1 DEF WrittenMission, MissionDoc
<1>. QED
  BY <1>1, <1>2, <1>3, <1>4

(* A request that writes decided on its snapshot, which is what is there   *)
(* unless it was overtaken.                                                *)
LEMMA WritersRead ==
  ASSUME BookkeepingInv, NEW r \in Requests, Command(r) \/ DeleteRun(r) \/ Link(r)
  PROVE  ~overtaken[r] => seen[r].runs = runs
BY DEF BookkeepingInv, SeenUnlessOvertaken, Command, DeleteRun, Link

(* What any request may write, in terms of what it read. *)
LEMMA Plans ==
  ASSUME BookkeepingInv, NEW r \in Requests, Command(r) \/ Link(r)
  PROVE  \E p :
           /\ IsWrite(p) /\ ApplyBookkeeping(r, p)
           /\ \/ p.run = NewRun
              \/ p.run \in Live(seen[r].runs) /\ p.yard = seen[r].runs[p.run].yard
              \/ p.run = Dispatch /\ p.run \notin Live(seen[r].runs) /\ p.yard = FilmedAt
           /\ p.by \in {"operator", "link"} /\ p.status # Unchanged /\ p.run \in Live(seen[r].runs) =>
                seen[r].runs[p.run].status \notin Settled
           /\ p.by \in {"operator", "named", "reviewer", "link"}
           /\ p.by = "link" =>
                /\ p.video \in Videos
                /\ \A i \in Live(seen[r].runs) : seen[r].runs[i].video # p.video
                /\ p.run \in Live(seen[r].runs) => seen[r].runs[p.run].video = NoVideo
<1>1. seen[r].runs \in [RunIds -> RunDoc]
  BY DEF BookkeepingInv, BookkeepingTypeOK
<1>2. NewRun \notin Live(seen[r].runs)
  BY BookkeepingAssumption DEF Live, NewRun, RunIds
<1>3. CASE Command(r)
  <2>1. PICK y \in Yards : \E i \in Latest(seen[r].runs, y) : \E p \in Allowed(seen[r], y, i) : ApplyBookkeeping(r, p)
    BY <1>3 DEF Command
  <2>2. PICK i \in Latest(seen[r].runs, y) : \E p \in Allowed(seen[r], y, i) : ApplyBookkeeping(r, p)
    BY <2>1
  <2>3. PICK p \in Allowed(seen[r], y, i) : ApplyBookkeeping(r, p)
    BY <2>2
  <2>. QED
    BY <1>1, <1>2, <2>3, CommandPlans
<1>4. CASE Link(r)
  <2>1. PICK c \in Claims : \E p \in PlanVideoLink(c, seen[r].runs, seen[r].status) \ {NeedsMission} : ApplyBookkeeping(r, p)
    BY <1>4 DEF Link
  <2>2. PICK p \in PlanVideoLink(c, seen[r].runs, seen[r].status) \ {NeedsMission} : ApplyBookkeeping(r, p)
    BY <2>1
  <2>3. c.video \in Videos
    BY BookkeepingAssumption DEF Claims, Upload
  <2>. QED
    BY <1>1, <1>2, <2>2, <2>3, LinkPlans, Words DEF Taken
<1>. QED
  BY <1>3, <1>4
-----------------------------------------------------------------------------
(* The steps preserve the invariant. *)

LEMMA InitInv == Init => BookkeepingInv
<1> SUFFICES ASSUME Init
    PROVE  BookkeepingInv
  OBVIOUS
<1>1. Blank \in RunDoc /\ NoRuns \in [RunIds -> RunDoc] /\ \A i \in RunIds : ~NoRuns[i].made
  BY BookkeepingAssumption DEF Blank, NoRuns, RunDoc, Statuses, Open
<1>2. [Blank EXCEPT !.made = TRUE, !.status = "not_completed", !.review = "yes"] \in RunDoc
  BY <1>1 DEF RunDoc, Statuses, Settled
<1>3. runs \in [RunIds -> RunDoc] /\ \A i \in RunIds \ {1} : ~runs[i].made
  BY <1>1, <1>2 DEF Init, NoRuns
<1>4. FreshMission \in MissionDoc
      /\ [FreshMission EXCEPT !.status = "not_completed", !.review = TRUE] \in MissionDoc
  BY DEF FreshMission, MissionDoc, Statuses, Open, Settled
<1>5. seen \in [Requests -> Snapshot] /\ \A r \in Requests : seen[r] = NothingRead
  BY <1>1 DEF Init, NothingRead, Snapshot
<1>6. BookkeepingTypeOK
  BY <1>3, <1>4, <1>5 DEF Init, BookkeepingTypeOK, Snapshot, Places, Writers
<1>7. YardsStand
  BY <1>1, <1>3, <1>5, BookkeepingAssumption DEF YardsStand, NothingRead
<1>8. SeenUnlessOvertaken
  BY DEF SeenUnlessOvertaken, Init
<1>. QED
  BY <1>6, <1>7, <1>8 DEF BookkeepingInv

(* A request that leaves, whether or not it wrote. *)
LEMMA LeavesTyped ==
  ASSUME BookkeepingTypeOK, NEW r \in Requests, Leaves(r)
  PROVE  /\ at' \in [Requests -> Places] /\ at'[r] = "idle"
         /\ seen' \in [Requests -> Snapshot]
         /\ \A i \in RunIds : ~seen'[r].runs[i].made
         /\ \A q \in Requests : q # r => at'[q] = at[q] /\ seen'[q] = seen[q]
<1>1. NoRuns \in [RunIds -> RunDoc] /\ \A i \in RunIds : ~NoRuns[i].made
  BY BookkeepingAssumption DEF Blank, NoRuns, RunDoc, Statuses, Open
<1>2. NothingRead \in Snapshot /\ NothingRead.runs = NoRuns
  BY <1>1 DEF NothingRead, Snapshot
<1>. QED
  BY <1>1, <1>2 DEF Leaves, BookkeepingTypeOK, Snapshot, Places

LEMMA ReadInv ==
  ASSUME BookkeepingInv, NEW r \in Requests,
         FindMission(r) \/ FindRuns(r) \/ LinkFindRuns(r) \/ LinkFindMission(r)
  PROVE  BookkeepingInv'
<1>1. /\ UNCHANGED <<mission, runs, clock, overtaken, lastWrite>>
      /\ BookkeepingTypeOK
  BY DEF FindMission, FindRuns, LinkFindRuns, LinkFindMission, Reads, store, BookkeepingInv
<1>2. NoRuns \in [RunIds -> RunDoc] /\ \A i \in RunIds : ~NoRuns[i].made
  BY BookkeepingAssumption DEF Blank, NoRuns, RunDoc, Statuses, Open
<1>3. PICK to \in Places, s \in Snapshot :
        /\ at' = [at EXCEPT ![r] = to] /\ seen' = [seen EXCEPT ![r] = s]
        /\ \/ s.runs = runs
           \/ s.runs = NoRuns /\ to = "found"
           \/ at[r] = "linking" /\ to = "closing" /\ s.runs = seen[r].runs
  <2>1. CASE FindMission(r)
    <3>1. [NothingRead EXCEPT !.status = mission.status, !.review = mission.review] \in Snapshot
      BY <1>1, <1>2 DEF NothingRead, Snapshot, BookkeepingTypeOK, MissionDoc
    <3>. QED
      BY <2>1, <3>1 DEF FindMission, Reads, NothingRead, Places
  <2>2. CASE FindRuns(r)
    <3>1. seen[r] \in Snapshot /\ runs \in [RunIds -> RunDoc]
      BY <1>1 DEF BookkeepingTypeOK, Snapshot
    <3>2. [seen[r] EXCEPT !.runs = runs] \in Snapshot /\ [seen[r] EXCEPT !.runs = runs].runs = runs
      BY <3>1 DEF Snapshot
    <3>. QED
      BY <2>2, <3>2 DEF FindRuns, Reads, Places
  <2>3. CASE LinkFindRuns(r)
    <3>1. [NothingRead EXCEPT !.runs = runs] \in Snapshot /\ [NothingRead EXCEPT !.runs = runs].runs = runs
      BY <1>1, <1>2 DEF NothingRead, Snapshot, BookkeepingTypeOK
    <3>. QED
      BY <2>3, <3>1 DEF LinkFindRuns, Reads, Places
  <2>4. CASE LinkFindMission(r)
    <3> DEFINE word == IF mission.deleted THEN "absent" ELSE mission.status
    <3>1. seen[r] \in Snapshot /\ word \in Statuses \cup {"unread", "absent"}
      BY <1>1 DEF BookkeepingTypeOK, Snapshot, MissionDoc
    <3>2. at[r] = "linking" /\ at' = [at EXCEPT ![r] = "closing"] /\ seen' = [seen EXCEPT ![r] = [seen[r] EXCEPT !.status = word]]
      BY <2>4 DEF LinkFindMission, Reads
    <3> HIDE DEF word
    <3>3. [seen[r] EXCEPT !.status = word] \in Snapshot /\ [seen[r] EXCEPT !.status = word].runs = seen[r].runs
      BY <3>1 DEF Snapshot
    <3>. QED
      BY <3>2, <3>3 DEF Places
  <2>. QED
    BY <2>1, <2>2, <2>3, <2>4
<1>4. /\ at \in [Requests -> Places] /\ seen \in [Requests -> Snapshot]
      /\ at' \in [Requests -> Places] /\ seen' \in [Requests -> Snapshot]
      /\ at'[r] = to /\ seen'[r] = s
      /\ \A q \in Requests : q # r => at'[q] = at[q] /\ seen'[q] = seen[q]
  BY <1>1, <1>3 DEF BookkeepingTypeOK, Snapshot
<1>5. BookkeepingTypeOK'
  BY <1>1, <1>4 DEF BookkeepingTypeOK, Snapshot
<1>6. YardsStand'
  BY <1>1, <1>2, <1>3, <1>4 DEF YardsStand, BookkeepingInv
<1>7. SeenUnlessOvertaken'
  BY <1>1, <1>3, <1>4 DEF SeenUnlessOvertaken, BookkeepingInv
<1>. QED
  BY <1>5, <1>6, <1>7 DEF BookkeepingInv

(* Once a request wrote, the others are overtaken, and their snapshots     *)
(* stand as far as the documents that exist kept their yards.              *)
LEMMA WroteInv ==
  ASSUME BookkeepingInv, NEW r \in Requests, NEW by \in Writers, Wrote(r, by),
         mission' \in MissionDoc, runs' \in [RunIds -> RunDoc], clock' \in Nat,
         \A i \in RunIds : runs[i].made => runs'[i].made /\ runs'[i].yard = runs[i].yard,
         runs'[Dispatch].made => runs'[Dispatch].yard = FilmedAt
  PROVE  BookkeepingInv'
<1>1. /\ BookkeepingTypeOK
      /\ at \in [Requests -> Places] /\ overtaken \in [Requests -> BOOLEAN]
  BY DEF BookkeepingInv, BookkeepingTypeOK
<1>2. /\ at' \in [Requests -> Places] /\ at'[r] = "idle"
      /\ seen' \in [Requests -> Snapshot]
      /\ \A i \in RunIds : ~seen'[r].runs[i].made
      /\ \A q \in Requests : q # r => at'[q] = at[q] /\ seen'[q] = seen[q]
  BY <1>1, LeavesTyped DEF Wrote
<1>3. /\ overtaken' = [q \in Requests |-> q # r /\ (overtaken[q] \/ at[q] # "idle")]
      /\ lastWrite' = [by |-> by, overtaken |-> overtaken[r]]
  BY DEF Wrote
<1>4. BookkeepingTypeOK'
  BY <1>1, <1>2, <1>3 DEF BookkeepingTypeOK, Snapshot
<1>5. YardsStand'
  BY <1>2 DEF YardsStand, BookkeepingInv
<1>6. SeenUnlessOvertaken'
  BY <1>2, <1>3 DEF SeenUnlessOvertaken
<1>. QED
  BY <1>4, <1>5, <1>6 DEF BookkeepingInv

(* The run a batch writes keeps its yard if it had one. *)
LEMMA BatchKeepsYards ==
  ASSUME BookkeepingInv, NEW r \in Requests, Command(r) \/ Link(r)
  PROVE  /\ \A i \in RunIds : runs[i].made => runs'[i].made /\ runs'[i].yard = runs[i].yard
         /\ runs'[Dispatch].made => runs'[Dispatch].yard = FilmedAt
         /\ runs' \in [RunIds -> RunDoc] /\ mission' \in MissionDoc /\ clock' \in Nat
<1>1. PICK p :
        /\ IsWrite(p) /\ ApplyBookkeeping(r, p)
        /\ \/ p.run = NewRun
           \/ p.run \in Live(seen[r].runs) /\ p.yard = seen[r].runs[p.run].yard
           \/ p.run = Dispatch /\ p.run \notin Live(seen[r].runs) /\ p.yard = FilmedAt
  BY Plans
<1>2. BookkeepingTypeOK /\ YardsStand
  BY DEF BookkeepingInv
<1>3. PICK i \in RunIds :
        /\ p.run = NewRun => ~runs[i].made /\ i # Dispatch
        /\ p.run # NewRun => i = p.run
        /\ runs' \in [RunIds -> RunDoc]
        /\ \A j \in RunIds : j # i => runs'[j] = runs[j]
        /\ runs'[i].made /\ runs'[i].yard = p.yard
  BY <1>1, <1>2, BatchWrites
<1>4. p.run \in Live(seen[r].runs) => seen[r].runs[p.run].made /\ p.run \in RunIds
  BY DEF Live
<1>5. Dispatch \in RunIds /\ NewRun \notin RunIds
  BY BookkeepingAssumption DEF RunIds, NewRun
<1>6. mission' \in MissionDoc
  BY <1>1, <1>2, BatchMirrors
<1>7. clock' \in Nat
  BY <1>1, <1>2 DEF ApplyBookkeeping, BookkeepingTypeOK
<1>. QED
  BY <1>1, <1>2, <1>3, <1>4, <1>5, <1>6, <1>7 DEF YardsStand

LEMMA DeleteRunWrites ==
  ASSUME BookkeepingInv, NEW r \in Requests, DeleteRun(r)
  PROVE  /\ runs' \in [RunIds -> RunDoc]
         /\ \A i \in RunIds : /\ runs'[i].made = runs[i].made /\ runs'[i].yard = runs[i].yard
                              /\ runs'[i].status = runs[i].status /\ runs'[i].video = runs[i].video
                              /\ runs'[i].stampedAt = runs[i].stampedAt
<1>1. PICK i \in RunIds : runs' = [runs EXCEPT ![i].gone = TRUE]
  BY DEF DeleteRun, Live
<1>2. runs \in [RunIds -> RunDoc]
  BY DEF BookkeepingInv, BookkeepingTypeOK
<1>3. runs[i] \in RunDoc
  BY <1>1, <1>2
<1>4. [runs[i] EXCEPT !.gone = TRUE] \in RunDoc
  BY <1>3 DEF RunDoc
<1>5. runs'[i] = [runs[i] EXCEPT !.gone = TRUE] /\ \A j \in RunIds : j # i => runs'[j] = runs[j]
  BY <1>1, <1>2
<1>6. runs' \in [RunIds -> RunDoc]
  BY <1>1, <1>2, <1>4
<1>. QED
  BY <1>3, <1>5, <1>6 DEF RunDoc

LEMMA NextInv == BookkeepingInv /\ [Next]_vars => BookkeepingInv'
<1> SUFFICES ASSUME BookkeepingInv, [Next]_vars
    PROVE  BookkeepingInv'
  OBVIOUS
<1>1. CASE UNCHANGED vars
  BY <1>1 DEF vars, store, BookkeepingInv, BookkeepingTypeOK, YardsStand, SeenUnlessOvertaken
<1>2. ASSUME NEW r \in Requests, FindMission(r) \/ FindRuns(r) \/ LinkFindRuns(r) \/ LinkFindMission(r)
      PROVE  BookkeepingInv'
  BY <1>2, ReadInv
<1>3. ASSUME NEW r \in Requests, Command(r) \/ Link(r)
      PROVE  BookkeepingInv'
  <2>1. PICK p : IsWrite(p) /\ ApplyBookkeeping(r, p)
    BY <1>3, Plans
  <2>2. p.by \in Writers /\ Wrote(r, p.by)
    BY <2>1 DEF IsWrite, IsDecision, ApplyBookkeeping
  <2>. QED
    BY <1>3, <2>2, BatchKeepsYards, WroteInv
<1>4. ASSUME NEW r \in Requests, DeleteRun(r)
      PROVE  BookkeepingInv'
  <2>1. Wrote(r, "delete") /\ "delete" \in Writers /\ UNCHANGED <<mission, clock>>
    BY <1>4 DEF DeleteRun, Writers
  <2>2. mission \in MissionDoc /\ clock \in Nat /\ YardsStand /\ Dispatch \in RunIds
    BY BookkeepingAssumption DEF BookkeepingInv, BookkeepingTypeOK
  <2>. QED
    BY <1>4, <2>1, <2>2, DeleteRunWrites, WroteInv DEF YardsStand
<1>5. ASSUME NEW r \in Requests, DeleteMission(r)
      PROVE  BookkeepingInv'
  <2>1. /\ Wrote(r, "delete") /\ "delete" \in Writers /\ UNCHANGED <<runs, clock>>
        /\ mission' = [mission EXCEPT !.deleted = TRUE]
    BY <1>5 DEF DeleteMission, Writers
  <2>2. mission \in MissionDoc /\ runs \in [RunIds -> RunDoc] /\ clock \in Nat /\ YardsStand
    BY DEF BookkeepingInv, BookkeepingTypeOK
  <2>3. mission' \in MissionDoc
    BY <2>1, <2>2 DEF MissionDoc
  <2>. QED
    BY <2>1, <2>2, <2>3, WroteInv DEF YardsStand
<1>6. ASSUME NEW r \in Requests, Ends(r)
      PROVE  BookkeepingInv'
  <2>1. BookkeepingTypeOK /\ YardsStand /\ SeenUnlessOvertaken /\ Leaves(r)
        /\ overtaken' = [overtaken EXCEPT ![r] = FALSE] /\ UNCHANGED <<mission, runs, clock, lastWrite>>
    BY <1>6 DEF Ends, BookkeepingInv, store
  <2>2. overtaken' \in [Requests -> BOOLEAN] /\ \A q \in Requests : q # r => overtaken'[q] = overtaken[q]
    BY <2>1 DEF BookkeepingTypeOK
  <2>3. /\ at' \in [Requests -> Places] /\ at'[r] = "idle"
        /\ seen' \in [Requests -> Snapshot]
        /\ \A i \in RunIds : ~seen'[r].runs[i].made
        /\ \A q \in Requests : q # r => at'[q] = at[q] /\ seen'[q] = seen[q]
    BY <2>1, LeavesTyped
  <2>4. BookkeepingTypeOK'
    BY <2>1, <2>2, <2>3 DEF BookkeepingTypeOK, Snapshot
  <2>5. YardsStand'
    BY <2>1, <2>3 DEF YardsStand
  <2>6. SeenUnlessOvertaken'
    BY <2>1, <2>2, <2>3 DEF SeenUnlessOvertaken
  <2>. QED
    BY <2>4, <2>5, <2>6 DEF BookkeepingInv
<1>. QED
  BY <1>1, <1>2, <1>3, <1>4, <1>5, <1>6 DEF Next

LEMMA Invariant == Spec => []BookkeepingInv
BY InitInv, NextInv, PTL DEF Spec
-----------------------------------------------------------------------------
(* A step that changes a run or says who wrote is a batch or a deletion.   *)
LEMMA Steps ==
  ASSUME BookkeepingInv, [Next]_vars
  PROVE  \/ \E r \in Requests : Command(r) \/ Link(r)
         \/ \E r \in Requests : DeleteRun(r) \/ DeleteMission(r)
         \/ UNCHANGED <<mission, runs, lastWrite>>
BY DEF Next, vars, store, FindMission, FindRuns, LinkFindRuns, LinkFindMission, Reads, Ends

(* Every document holds what Firestore's converters read it as. *)
THEOREM TypeCorrect == Spec => []BookkeepingTypeOK
BY Invariant, PTL DEF BookkeepingInv

(* No write moves a run to another yard, whichever requests overlap: a     *)
(* command writes at the yard of the run it read, and a run's yard is as   *)
(* old as the run.                                                         *)
THEOREM YardsKept == Spec => RunKeepsItsYard
<1>1. BookkeepingInv /\ [Next]_vars =>
        [\A i \in RunIds : runs[i].made => runs'[i].made /\ runs'[i].yard = runs[i].yard]_vars
  <2> SUFFICES ASSUME BookkeepingInv, [Next]_vars
      PROVE  \A i \in RunIds : runs[i].made => runs'[i].made /\ runs'[i].yard = runs[i].yard
    OBVIOUS
  <2>1. CASE \E r \in Requests : Command(r) \/ Link(r)
    BY <2>1, BatchKeepsYards
  <2>2. CASE \E r \in Requests : DeleteRun(r)
    BY <2>2, DeleteRunWrites
  <2>3. CASE \E r \in Requests : DeleteMission(r)
    BY <2>3 DEF DeleteMission
  <2>4. CASE UNCHANGED <<mission, runs, lastWrite>>
    BY <2>4
  <2>. QED
    BY <2>1, <2>2, <2>3, <2>4, Steps
<1>. QED
  BY <1>1, Invariant, PTL DEF Spec, RunKeepsItsYard

(* What the mission shows, status and video both, is on one of its runs:   *)
(* the batch writes both, so nothing that overtakes a request or kills it  *)
(* comes between them.                                                     *)
THEOREM Mirrors == Spec => []MissionMirrorsARun
<1>1. Init => MissionMirrorsARun
  <2>1. /\ FreshMission.stampedAt = 0 /\ FreshMission.video = NoVideo
        /\ [FreshMission EXCEPT !.status = "not_completed", !.review = TRUE].stampedAt = 0
        /\ [FreshMission EXCEPT !.status = "not_completed", !.review = TRUE].video = NoVideo
    BY DEF FreshMission
  <2>2. Init => mission.stampedAt = 0 /\ mission.video = NoVideo
    BY <2>1 DEF Init
  <2>. QED
    BY <2>2 DEF MissionMirrorsARun
<1>2. BookkeepingInv /\ MissionMirrorsARun /\ [Next]_vars => MissionMirrorsARun'
  <2> SUFFICES ASSUME BookkeepingInv, MissionMirrorsARun, [Next]_vars
      PROVE  MissionMirrorsARun'
    OBVIOUS
  <2>1. ASSUME NEW r \in Requests, Command(r) \/ Link(r)
        PROVE  MissionMirrorsARun'
    <3>1. PICK p : IsWrite(p) /\ ApplyBookkeeping(r, p)
      BY <2>1, Plans
    <3>2. BookkeepingTypeOK /\ Unchanged # NoVideo
      BY BookkeepingAssumption DEF BookkeepingInv, Unchanged
    <3>3. PICK i \in RunIds :
            /\ \A j \in RunIds : j # i => runs'[j] = runs[j]
            /\ runs'[i].made
            /\ runs'[i].status = IF p.status = Unchanged THEN runs[i].status ELSE p.status
            /\ runs'[i].stampedAt = IF p.status = Unchanged THEN runs[i].stampedAt ELSE clock'
            /\ runs'[i].video = IF p.video = Unchanged THEN runs[i].video ELSE p.video
      BY <3>1, <3>2, BatchWrites
    <3>4. /\ mission'.status = IF p.status = Unchanged THEN mission.status ELSE p.status
          /\ mission'.stampedAt = IF p.status = Unchanged THEN mission.stampedAt ELSE clock'
          /\ mission'.video = IF p.video = Unchanged THEN mission.video ELSE p.video
      BY <3>1, <3>2, BatchMirrors
    <3>5. mission'.stampedAt > 0 =>
            \E j \in RunIds : runs'[j].made /\ runs'[j].stampedAt = mission'.stampedAt /\ runs'[j].status = mission'.status
      <4>1. CASE p.status = Unchanged
        BY <3>3, <3>4, <4>1 DEF MissionMirrorsARun
      <4>2. CASE p.status # Unchanged
        BY <3>3, <3>4, <4>2
      <4>. QED
        BY <4>1, <4>2
    <3>6. mission'.video # NoVideo => \E j \in RunIds : runs'[j].made /\ runs'[j].video = mission'.video
      <4>1. CASE p.video = Unchanged
        BY <3>3, <3>4, <4>1 DEF MissionMirrorsARun
      <4>2. CASE p.video # Unchanged
        BY <3>3, <3>4, <4>2
      <4>. QED
        BY <4>1, <4>2
    <3>. QED
      BY <3>5, <3>6 DEF MissionMirrorsARun
  <2>2. ASSUME NEW r \in Requests, DeleteRun(r)
        PROVE  MissionMirrorsARun'
    <3>1. mission' = mission
      BY <2>2 DEF DeleteRun
    <3>. QED
      BY <2>2, <3>1, DeleteRunWrites DEF MissionMirrorsARun
  <2>3. ASSUME NEW r \in Requests, DeleteMission(r)
        PROVE  MissionMirrorsARun'
    <3>1. runs' = runs /\ mission' = [mission EXCEPT !.deleted = TRUE] /\ mission \in MissionDoc
      BY <2>3 DEF DeleteMission, BookkeepingInv, BookkeepingTypeOK
    <3>2. mission'.status = mission.status /\ mission'.stampedAt = mission.stampedAt /\ mission'.video = mission.video
      BY <3>1 DEF MissionDoc
    <3>. QED
      BY <3>1, <3>2 DEF MissionMirrorsARun
  <2>4. CASE UNCHANGED <<mission, runs, lastWrite>>
    BY <2>4 DEF MissionMirrorsARun
  <2>. QED
    BY <2>1, <2>2, <2>3, <2>4, Steps
<1>. QED
  BY <1>1, <1>2, Invariant, PTL DEF Spec

(* A run that ended keeps its outcome unless an operator names it, settles *)
(* its review, or decided before somebody else's write.                    *)
THEOREM SettledHolds == Spec => SettledStaysSettled
<1>1. BookkeepingInv /\ [Next]_vars =>
        [\A i \in Live(runs) : runs[i].status \in Settled /\ runs'[i].status # runs[i].status =>
           lastWrite'.overtaken \/ lastWrite'.by \in {"named", "reviewer"}]_vars
  <2> SUFFICES ASSUME BookkeepingInv, [Next]_vars, NEW i \in Live(runs),
                      runs[i].status \in Settled, runs'[i].status # runs[i].status
      PROVE  lastWrite'.overtaken \/ lastWrite'.by \in {"named", "reviewer"}
    OBVIOUS
  <2>1. ASSUME NEW r \in Requests, Command(r) \/ Link(r)
        PROVE  lastWrite'.overtaken \/ lastWrite'.by \in {"named", "reviewer"}
    <3>1. PICK p :
            /\ IsWrite(p) /\ ApplyBookkeeping(r, p)
            /\ \/ p.run = NewRun
               \/ p.run \in Live(seen[r].runs)
               \/ p.run = Dispatch /\ p.run \notin Live(seen[r].runs)
            /\ p.by \in {"operator", "link"} /\ p.status # Unchanged /\ p.run \in Live(seen[r].runs) =>
                 seen[r].runs[p.run].status \notin Settled
            /\ p.by \in {"operator", "named", "reviewer", "link"}
      BY <2>1, Plans
    <3>2. lastWrite' = [by |-> p.by, overtaken |-> overtaken[r]]
      BY <3>1 DEF ApplyBookkeeping, Wrote
    <3>3. ~overtaken[r] => seen[r].runs = runs
      BY <2>1, WritersRead
    <3>4. BookkeepingTypeOK
      BY DEF BookkeepingInv
    <3>5. PICK j \in RunIds :
            /\ p.run = NewRun => ~runs[j].made
            /\ p.run # NewRun => j = p.run
            /\ \A k \in RunIds : k # j => runs'[k] = runs[k]
            /\ runs'[j].status = IF p.status = Unchanged THEN runs[j].status ELSE p.status
      BY <3>1, <3>4, BatchWrites
    <3>6. i \in RunIds /\ runs[i].made
      BY DEF Live
    <3>7. i = j /\ p.status # Unchanged /\ p.run = i
      BY <3>5, <3>6
    <3>. QED
      BY <3>1, <3>2, <3>3, <3>6, <3>7
  <2>2. ASSUME NEW r \in Requests, DeleteRun(r) \/ DeleteMission(r)
        PROVE  FALSE
    BY <2>2, DeleteRunWrites DEF DeleteMission, Live
  <2>. QED
    BY <2>1, <2>2, Steps
<1>. QED
  BY <1>1, Invariant, PTL DEF Spec, SettledStaysSettled

(* One video, one run: a linker nobody overtook gives a run that has none  *)
(* a video that no run of the mission has.                                 *)
THEOREM LinksOnce == Spec => UndisturbedLinkIsTheOnlyOne
<1>1. BookkeepingInv /\ [Next]_vars =>
        [lastWrite'.by = "link" /\ ~lastWrite'.overtaken =>
           \A i, j \in Live(runs) : runs'[i].video # runs[i].video =>
              runs[i].video = NoVideo /\ runs[j].video # runs'[i].video]_vars
  <2> SUFFICES ASSUME BookkeepingInv, [Next]_vars, lastWrite'.by = "link", ~lastWrite'.overtaken,
                      NEW i \in Live(runs), NEW j \in Live(runs), runs'[i].video # runs[i].video
      PROVE  runs[i].video = NoVideo /\ runs[j].video # runs'[i].video
    OBVIOUS
  <2>1. ASSUME NEW r \in Requests, Command(r) \/ Link(r)
        PROVE  runs[i].video = NoVideo /\ runs[j].video # runs'[i].video
    <3>1. PICK p :
            /\ IsWrite(p) /\ ApplyBookkeeping(r, p)
            /\ \/ p.run = NewRun
               \/ p.run \in Live(seen[r].runs)
               \/ p.run = Dispatch /\ p.run \notin Live(seen[r].runs)
            /\ p.by = "link" =>
                 /\ p.video \in Videos
                 /\ \A k \in Live(seen[r].runs) : seen[r].runs[k].video # p.video
                 /\ p.run \in Live(seen[r].runs) => seen[r].runs[p.run].video = NoVideo
      BY <2>1, Plans
    <3>2. lastWrite' = [by |-> p.by, overtaken |-> overtaken[r]]
      BY <3>1 DEF ApplyBookkeeping, Wrote
    <3>3. p.by = "link" /\ seen[r].runs = runs
      BY <2>1, <3>2, WritersRead
    <3>4. BookkeepingTypeOK /\ Unchanged \notin Videos
      BY BookkeepingAssumption DEF BookkeepingInv, Unchanged
    <3>5. PICK k \in RunIds :
            /\ p.run = NewRun => ~runs[k].made
            /\ p.run # NewRun => k = p.run
            /\ \A n \in RunIds : n # k => runs'[n] = runs[n]
            /\ runs'[k].video = IF p.video = Unchanged THEN runs[k].video ELSE p.video
      BY <3>1, <3>4, BatchWrites
    <3>6. i \in RunIds /\ runs[i].made
      BY DEF Live
    <3>7. i = k /\ p.run = i /\ runs'[i].video = p.video
      BY <3>1, <3>3, <3>4, <3>5, <3>6
    <3>. QED
      BY <3>1, <3>3, <3>7
  <2>2. ASSUME NEW r \in Requests, DeleteRun(r) \/ DeleteMission(r)
        PROVE  FALSE
    BY <2>2, DeleteRunWrites DEF DeleteMission, Live
  <2>. QED
    BY <2>1, <2>2, Steps
<1>. QED
  BY <1>1, Invariant, PTL DEF Spec, UndisturbedLinkIsTheOnlyOne
=============================================================================
