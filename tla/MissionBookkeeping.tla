------------------------- MODULE MissionBookkeeping -------------------------
(***************************************************************************)
(* One mission's documents in Firestore, its runs, and the requests of     *)
(* Mission Control that write them: an operator's command                  *)
(* (OperatorMissionCommands), a video being attached (VideoLinker, called  *)
(* by the scheduled poll and by an automatic upload) and the two           *)
(* deletions.  What the channel holds is up to its owner: each poll may    *)
(* find any videos that claim the mission.                                 *)
(*                                                                         *)
(* A read, a batch and a transaction are one action each.  Between the     *)
(* reads a request decides on and the write it makes, other requests       *)
(* write; any of them may fail or be killed at any point.  What a request  *)
(* asks for (the operator's command, the video's claim) shows only in its  *)
(* write, so it is chosen there, among all that the snapshot it read       *)
(* allows.                                                                 *)
(***************************************************************************)
EXTENDS Integers, FiniteSets

CONSTANTS
  Yards,         \* the yards operators sign in at
  HomeYard,      \* the yardId the learner sent the mission to
  MaxRuns,       \* run documents are numbered in the order Firestore lists them
  Dispatch,      \* the run id of the dispatch an automatic upload filmed
  FilmedAt,      \* the yard of that dispatch
  Film,          \* the video of that upload
  Videos,
  Requests,      \* the requests served at a time
  NoVideo,
  AnyYard,       \* a claim that names no yard
  MaxWrites      \* bound on the batches, for model checking: none is begun after

RunIds == 1..MaxRuns
NewRun == 0
NoRun == 0

ASSUME BookkeepingAssumption ==
  /\ HomeYard \in Yards /\ FilmedAt \in Yards /\ AnyYard \notin Yards
  /\ MaxRuns \in Nat /\ Dispatch \in RunIds \ {1}
  /\ Film \in Videos /\ NoVideo \notin Videos /\ "unchanged" \notin Videos \cup {NoVideo}
  /\ MaxWrites \in Nat

VARIABLES
  mission,    \* the mission document
  runs,       \* its runs subcollection
  clock,      \* decidedAt of the last write
  at,         \* where each request is
  seen,       \* the snapshot each request read
  overtaken,  \* somebody wrote since its first read
  lastWrite   \* who made the last write, and whether it was overtaken

store == <<mission, runs, clock>>
vars == <<store, at, seen, overtaken, lastWrite>>

-----------------------------------------------------------------------------
(* MissionState.ts and missionDocuments.ts.                                *)

Open == {"queued", "processing"}
Settled == {"completed", "failed", "not_completed", "cancelled"}
Statuses == Open \cup Settled
RanStatuses == {"completed", "failed", "not_completed"}
Unchanged == "unchanged"

Blank == [made |-> FALSE, gone |-> FALSE, yard |-> HomeYard, status |-> "queued",
          video |-> NoVideo, review |-> "unset",
          stampedAt |-> 0]

(* findRuns: a deleted run reads as absent. *)
Live(rs) == {i \in RunIds : rs[i].made /\ ~rs[i].gone}

First(ids) == {i \in ids : \A j \in ids : i <= j}

(* latestRunAt sorts by startedAt, which nothing under Mission Control      *)
(* writes, so the first document listed comes first.                       *)
Latest(rs, y) ==
  LET here == {i \in Live(rs) : rs[i].yard = y}
  IN  IF here = {} THEN {NoRun} ELSE First(here)

(* statusAt and needsReviewAt, where run i is the latest at the yard.      *)
StatusOf(s, i) == IF i = NoRun THEN s.status ELSE s.runs[i].status

NeedsReview(s, i) ==
  IF i # NoRun /\ s.runs[i].review # "unset" THEN s.runs[i].review = "yes" ELSE s.review

-----------------------------------------------------------------------------
FreshMission == [status |-> "queued", video |-> NoVideo, review |-> FALSE, stampedAt |-> 0,
                 deleted |-> FALSE]
NoRuns == [i \in RunIds |-> Blank]
NothingRead == [status |-> "unread", review |-> FALSE, runs |-> NoRuns]

(* A mission as the learner just sent it, or one a satellite of the time   *)
(* before flagged for review, with or without its backfilled run.          *)
Init ==
  /\ \/ mission = FreshMission /\ runs = NoRuns
     \/ /\ mission = [FreshMission EXCEPT !.status = "not_completed", !.review = TRUE]
        /\ \/ runs = NoRuns
           \/ runs = [NoRuns EXCEPT
                ![1] = [Blank EXCEPT !.made = TRUE, !.status = "not_completed", !.review = "yes"]]
  /\ clock = 0
  /\ at = [r \in Requests |-> "idle"]
  /\ seen = [r \in Requests |-> NothingRead]
  /\ overtaken = [r \in Requests |-> FALSE]
  /\ lastWrite = [by |-> "none", overtaken |-> FALSE]

(* A request that read part of what it goes by. *)
Reads(r, from, to, snapshot) ==
  /\ at[r] = from
  /\ at' = [at EXCEPT ![r] = to]
  /\ seen' = [seen EXCEPT ![r] = snapshot]
  /\ UNCHANGED <<store, overtaken, lastWrite>>

Leaves(r) ==
  /\ at' = [at EXCEPT ![r] = "idle"]
  /\ seen' = [seen EXCEPT ![r] = NothingRead]

(* A request writes, and whoever else has read goes by what is no longer   *)
(* so.                                                                     *)
Wrote(r, by) ==
  /\ Leaves(r)
  /\ lastWrite' = [by |-> by, overtaken |-> overtaken[r]]
  /\ overtaken' = [q \in Requests |-> q # r /\ (overtaken[q] \/ at[q] # "idle")]

(* Refused, skipped, thrown, or killed with the instance that serves it. *)
Ends(r) ==
  /\ at[r] # "idle"
  /\ Leaves(r)
  /\ overtaken' = [overtaken EXCEPT ![r] = FALSE]
  /\ UNCHANGED <<store, lastWrite>>

-----------------------------------------------------------------------------
(* An operator's command: what Mission.ts lets an operator of yard y do.   *)

Decision(by, status, clears, video) ==
  [by |-> by, status |-> status, clears |-> clears, video |-> video]

(* complete, cancel, attachVideo and removeVideo, which may name a run,    *)
(* go by the status st.                                                    *)
Decisions(st) ==
  (IF st \in Open THEN {Decision("operator", out, TRUE, Unchanged) : out \in {"completed", "cancelled"}} ELSE {})
  \cup (IF st = "completed" THEN {Decision("operator", Unchanged, FALSE, v) : v \in Videos} ELSE {})
  \cup (IF st \in Settled THEN {Decision("operator", Unchanged, FALSE, NoVideo)} ELSE {})

(* leaveFeedback, whose text is left out, and resolve: on the latest run.  *)
LatestDecisions(st, review) ==
  (IF st \in RanStatuses THEN {Decision("operator", Unchanged, FALSE, Unchanged)} ELSE {})
  \cup (IF review THEN {Decision("reviewer", out, TRUE, Unchanged) : out \in {"completed", "queued"}} ELSE {})

(* The decision d as a write on a run at yard y. *)
At(by, d, run, y) ==
  [by |-> by, run |-> run, yard |-> y, status |-> d.status, clears |-> d.clears, video |-> d.video]

OnLatest(s, y, i) ==
  {At(d.by, d, i, y) : d \in Decisions(StatusOf(s, i)) \cup LatestDecisions(StatusOf(s, i), NeedsReview(s, i))}

OnNamed(s, y, i, ids) == {At("named", d, j, y) : d \in Decisions(StatusOf(s, i)), j \in ids}

AnotherRun(s, y, i, run) ==
  IF StatusOf(s, i) \in Settled THEN {At("operator", Decision("operator", "completed", TRUE, Unchanged), run, y)} ELSE {}

(* Slip: another run is logged over the latest one. *)
AllowedOverLatest(s, y, i) ==
  OnLatest(s, y, i) \cup OnNamed(s, y, i, {j \in Live(s.runs) : s.runs[j].yard = y})
  \cup AnotherRun(s, y, i, i)

(* The writes a session bound to yard y, where run i is the latest, can    *)
(* bring about: on that run, on a run it names, which must be that yard's, *)
(* or on a new run.  The status a decision goes by is the latest run's,    *)
(* whichever it names.                                                     *)
Allowed(s, y, i) ==
  OnLatest(s, y, i) \cup OnNamed(s, y, i, {j \in Live(s.runs) : s.runs[j].yard = y})
  \cup AnotherRun(s, y, i, NewRun)

(* findById: a deleted mission is not found, and nothing is written.       *)
FindMission(r) ==
  /\ ~mission.deleted /\ clock < MaxWrites
  /\ Reads(r, "idle", "found", [NothingRead EXCEPT !.status = mission.status, !.review = mission.review])

FindRuns(r) == Reads(r, "found", "deciding", [seen[r] EXCEPT !.runs = runs])

(* deleteRun, by an operator of the run's yard. *)
DeleteRun(r) ==
  /\ at[r] = "deciding"
  /\ \E i \in Live(seen[r].runs) : runs' = [runs EXCEPT ![i].gone = TRUE]
  /\ Wrote(r, "delete")
  /\ UNCHANGED <<mission, clock>>

(* deleteMission goes by the mission alone. *)
DeleteMission(r) ==
  /\ at[r] = "found"
  /\ mission' = [mission EXCEPT !.deleted = TRUE]
  /\ Wrote(r, "delete")
  /\ UNCHANGED <<runs, clock>>

-----------------------------------------------------------------------------
(* applyBookkeeping.                                                       *)

WrittenRun(old, p, now) ==
  [old EXCEPT !.made = TRUE, !.yard = p.yard,
     !.status = IF p.status = Unchanged THEN @ ELSE p.status,
     !.stampedAt = IF p.status = Unchanged THEN @ ELSE now,
     !.video = IF p.video = Unchanged THEN @ ELSE p.video,
     !.review = IF p.clears THEN "no" ELSE @]

(* Slip: a video taken off the run stays on the mission. *)
WrittenMissionKeepsVideo(old, p, now) ==
  [old EXCEPT
     !.status = IF p.status = Unchanged THEN @ ELSE p.status,
     !.stampedAt = IF p.status = Unchanged THEN @ ELSE now,
     !.video = IF p.video \in {Unchanged, NoVideo} THEN @ ELSE p.video,
     !.review = @ /\ ~p.clears]

WrittenMission(old, p, now) ==
  [old EXCEPT
     !.status = IF p.status = Unchanged THEN @ ELSE p.status,
     !.stampedAt = IF p.status = Unchanged THEN @ ELSE now,
     !.video = IF p.video = Unchanged THEN @ ELSE p.video,
     !.review = @ /\ ~p.clears]

(* A new id is one that no document has. *)
Target(p) == IF p.run = NewRun THEN {i \in RunIds \ {Dispatch} : ~runs[i].made} ELSE {p.run}

(* The batch: the run, made if there is none, and its roll-up.  The        *)
(* learner's mail follows it, and changes nothing whether it is sent.      *)
ApplyBookkeeping(r, p) ==
  /\ clock < MaxWrites
  /\ clock' = clock + 1
  /\ \E i \in Target(p) : runs' = [runs EXCEPT ![i] = WrittenRun(@, p, clock + 1)]
  /\ mission' = WrittenMission(mission, p, clock + 1)
  /\ Wrote(r, p.by)

Command(r) ==
  /\ at[r] = "deciding"
  /\ \E y \in Yards : \E i \in Latest(seen[r].runs, y) :
       \E p \in Allowed(seen[r], y, i) : ApplyBookkeeping(r, p)

-----------------------------------------------------------------------------
(* VideoLinker.link and planVideoLink.                                     *)

NeedsMission == At("needs mission", Decision("none", Unchanged, FALSE, Unchanged), NewRun, HomeYard)
LinkTo(c, run, y, completes) ==
  At("link", Decision("link", IF completes THEN "completed" ELSE Unchanged, completes, c.video), run, y)

(* m: the status of the mission, "unread", or "absent" when it is deleted. *)
Closing(c, m, run, y) ==
  IF m = "unread" THEN {NeedsMission} ELSE IF m = "absent" THEN {} ELSE {LinkTo(c, run, y, TRUE)}

LastFinished(rs, ids) == {i \in ids : \A j \in ids : rs[j].stampedAt <= rs[i].stampedAt}

(* Slip: only the runs of the claimed yard are asked for the video. *)
TakenHere(c, rs) == \E i \in Live(rs) : rs[i].video = c.video /\ c.yard \in {AnyYard, rs[i].yard}

Taken(c, rs) == \E i \in Live(rs) : rs[i].video = c.video

(* The plan for a video, if it is not to be skipped. *)
PlanVideoLink(c, rs, m) ==
  LET mine == {i \in Live(rs) : c.yard \in {AnyYard, rs[i].yard}}
      bare == {i \in mine : rs[i].video = NoVideo}
      finished == {i \in bare : rs[i].status = "completed"}
      open == {i \in bare : rs[i].status \in Open}
      named == rs[c.dispatch]
  IN
  IF Taken(c, rs) THEN {}
  ELSE IF c.dispatch \in Live(rs)
    THEN IF named.video # NoVideo THEN {}
         ELSE IF named.status \notin Open THEN {LinkTo(c, c.dispatch, named.yard, FALSE)}
         ELSE Closing(c, m, c.dispatch, named.yard)
  ELSE IF finished # {} THEN {LinkTo(c, i, rs[i].yard, FALSE) : i \in LastFinished(rs, finished)}
  ELSE IF open # {} THEN UNION {Closing(c, m, i, rs[i].yard) : i \in First(open)}
  ELSE IF (mine # {} \/ m \in Settled) /\ c.dispatch = NoRun THEN {}
  ELSE Closing(c, m, c.dispatch, IF c.yard = AnyYard THEN HomeYard ELSE c.yard)

(* claimedMissions and linkUpload: what may claim the mission.  A video of *)
(* the channel names a yard or none; an automatic upload knows the run it  *)
(* filmed, and its description names the yard.                             *)
Upload == [video |-> Film, yard |-> FilmedAt, dispatch |-> Dispatch]
Claims ==
  {c \in [video : Videos, yard : Yards \cup {AnyYard}, dispatch : {NoRun}] : c.video = Film => c.yard = FilmedAt}
  \cup {Upload}

LinkFindRuns(r) ==
  /\ clock < MaxWrites
  /\ Reads(r, "idle", "linking", [NothingRead EXCEPT !.runs = runs])

(* The mission is read only where the plan needs it. *)
LinkFindMission(r) ==
  /\ \E c \in Claims : NeedsMission \in PlanVideoLink(c, seen[r].runs, "unread")
  /\ Reads(r, "linking", "closing", [seen[r] EXCEPT !.status = IF mission.deleted THEN "absent" ELSE mission.status])

Link(r) ==
  \E c \in Claims : \E p \in PlanVideoLink(c, seen[r].runs, seen[r].status) \ {NeedsMission} :
    /\ \/ at[r] = "linking"
       \/ at[r] = "closing" /\ NeedsMission \in PlanVideoLink(c, seen[r].runs, "unread")
    /\ ApplyBookkeeping(r, p)

-----------------------------------------------------------------------------
Next ==
  \E r \in Requests :
    \/ FindMission(r) \/ FindRuns(r) \/ Command(r) \/ DeleteRun(r) \/ DeleteMission(r)
    \/ LinkFindRuns(r) \/ LinkFindMission(r) \/ Link(r)
    \/ Ends(r)

Spec == Init /\ [][Next]_vars

-----------------------------------------------------------------------------
RunDoc == [made : BOOLEAN, gone : BOOLEAN, yard : Yards, status : Statuses,
           video : Videos \cup {NoVideo}, review : {"unset", "yes", "no"}, stampedAt : Nat]
MissionDoc == [status : Statuses, video : Videos \cup {NoVideo}, review : BOOLEAN, stampedAt : Nat,
               deleted : BOOLEAN]
Writers == {"none", "operator", "named", "reviewer", "link", "delete"}
Places == {"idle", "found", "deciding", "linking", "closing"}

BookkeepingTypeOK ==
  /\ mission \in MissionDoc
  /\ runs \in [RunIds -> RunDoc]
  /\ clock \in Nat
  /\ at \in [Requests -> Places]
  /\ seen \in [Requests -> [status : Statuses \cup {"unread", "absent"}, review : BOOLEAN, runs : [RunIds -> RunDoc]]]
  /\ overtaken \in [Requests -> BOOLEAN]
  /\ lastWrite \in [by : Writers, overtaken : BOOLEAN]

(* "A half-applied decision is worse than a failed one": what the mission  *)
(* shows is what the last decision wrote on one of its runs, status and    *)
(* video both, whoever overtakes whom and whatever dies in between.        *)
MissionMirrorsARun ==
  /\ mission.stampedAt > 0 =>
       \E i \in RunIds : runs[i].made /\ runs[i].stampedAt = mission.stampedAt /\ runs[i].status = mission.status
  /\ mission.video # NoVideo => \E i \in RunIds : runs[i].made /\ runs[i].video = mission.video

(* No write moves a run to another yard, under any overlap: not a command  *)
(* that names a run, nor a video given to the run of a dispatch.           *)
RunKeepsItsYard ==
  [][\A i \in RunIds : runs[i].made => runs'[i].made /\ runs'[i].yard = runs[i].yard]_vars

(* A run that ended keeps its outcome, unless an operator names it, settles *)
(* its review, or the write was decided before somebody else's.  A video    *)
(* and another run never change it.                                         *)
SettledStaysSettled ==
  [][\A i \in Live(runs) : runs[i].status \in Settled /\ runs'[i].status # runs[i].status =>
       lastWrite'.overtaken \/ lastWrite'.by \in {"named", "reviewer"}]_vars

(* One video, one run: unless somebody wrote meanwhile, the linker gives a  *)
(* video to a run that has none, and no other run of the mission has it.    *)
UndisturbedLinkIsTheOnlyOne ==
  [][lastWrite'.by = "link" /\ ~lastWrite'.overtaken =>
       \A i, j \in Live(runs) : runs'[i].video # runs[i].video =>
          runs[i].video = NoVideo /\ runs[j].video # runs'[i].video]_vars

(* "A video on an unfinished run is one the learner watches while it reads *)
(* Pending" (Mission.attachVideo).                                         *)
OnlyEndedRunsHaveVideos ==
  \A i \in Live(runs) : runs[i].video # NoVideo => runs[i].status \in Settled
=============================================================================
