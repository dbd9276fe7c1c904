------------------------ MODULE ReportedCompletions ------------------------
(***************************************************************************)
(* Marking a mission complete because the rover says it finished.           *)
(*                                                                         *)
(* The rover keeps a short history of the instructions it ended; only the    *)
(* yard network can read it, and only a signed-in browser can write to       *)
(* Mission Control.  So every open operator console polls the history        *)
(* (hooks/useRoverReportedCompletions.ts), picks what is new about a mission  *)
(* its queue still shows open (services/roverReports.ts), and posts the same  *)
(* `complete` a click would.  The ids acted on are kept in that browser, in one *)
(* key that all its consoles read when they open and overwrite when they save. *)
(*                                                                         *)
(* A mission is its current attempt: `complete` closes it, "log another run"  *)
(* opens the next (MissionBookkeeping models both in full).  What happens in  *)
(* between, at the yard, at the server, in the other consoles and in this     *)
(* one's own stale queue, is what this module interleaves.                   *)
(***************************************************************************)
EXTENDS Naturals, Sequences, FiniteSets

CONSTANTS
    YardMissions,     \* the yard's missions, numbered in the order submitted
    WindowSize,       \* open missions the queue's listener delivers at most
    Pages,            \* operator consoles: a place where one is opened, left and opened again
    Browsers,         \* a browser has one storage and one permission to reach the yard
    BrowserOf,        \* the browser each console is opened in
    MaxInstructions,  \* bound on the instructions sent to the rover
    HistorySize,      \* ended instructions /queue/status still tells about
    MaxAttempts,      \* bound on the attempts logged for a mission
    MaxFaults,        \* bound on requests and answers lost, writes refused, pages left
    Nobody            \* no report: an open attempt, or one closed by a person

ASSUME ReportsAssumption ==
    /\ YardMissions \subseteq Nat /\ WindowSize \in Nat
    /\ BrowserOf \in [Pages -> Browsers]
    /\ MaxInstructions \in Nat /\ HistorySize \in Nat
    /\ MaxAttempts \in Nat \ {0} /\ MaxFaults \in Nat

VARIABLES
    instructions,  \* in the order sent; an id is a place in this sequence
    attempt,       \* server: each mission's current attempt
    closed,        \* server: whether that attempt is settled
    closedBy,      \* server: the report that settled it, if one did
    posted,        \* completions on their way to the server: [page, id]
    page,          \* each console: "away", "hidden" or "shown"
    listening,     \* the consoles whose queue listener has not failed
    missionsRef,   \* the open missions that listener delivered last
    granted,       \* the browsers that let the console reach the yard
    pass,          \* the poll under way: see Passes
    snapshot,      \* the queue that poll captured before its first await
    toDo,          \* ids it has left to post
    reported,      \* ids acted on, in the memory of each console
    stored,        \* ids acted on, in the localStorage of each browser
    answered,      \* what a console knows is recorded: was told, or its browser kept
    kept,          \* ids each browser was told are recorded and could keep
    faults

yardVars == instructions
attemptVars == <<attempt, closed, closedBy>>
listenVars == <<listening, missionsRef>>
passVars == <<pass, snapshot, toDo>>
memoryVars == <<reported, stored, answered, kept>>
reportVars == <<yardVars, attemptVars, posted, page, listenVars, granted, passVars, memoryVars, faults>>

(* A poll waits for the browser to tell its permission, for the rover's        *)
(* history, then for the answer to each post.                                *)
Passes == {"idle", "asking", "reading", "next", "waiting", "ok", "refused", "failed"}
Ids == 1..MaxInstructions
Instruction == [mission : YardMissions, attempt : 1..MaxAttempts,
                result : {"waiting", "completed", "error"}]

Lost == faults < MaxFaults /\ faults' = faults + 1

ReportsInit ==
    /\ instructions = <<>>
    /\ attempt = [m \in YardMissions |-> 1]
    /\ closed = [m \in YardMissions |-> FALSE]
    /\ closedBy = [m \in YardMissions |-> Nobody]
    /\ posted = {}
    /\ page = [p \in Pages |-> "shown"]
    /\ listening = Pages
    /\ missionsRef = [p \in Pages |-> {}]
    /\ granted = {}
    /\ pass = [p \in Pages |-> "idle"]
    /\ snapshot = [p \in Pages |-> {}]
    /\ toDo = [p \in Pages |-> {}]
    /\ reported = [p \in Pages |-> {}]
    /\ stored = [b \in Browsers |-> {}]
    /\ answered = [p \in Pages |-> {}]
    /\ kept = [b \in Browsers |-> {}]
    /\ faults = 0

---------------------------------------------------------------------------
(* The yard.  The run station sends a mission with its id, the rover runs     *)
(* one instruction at a time and keeps the newest ended ones.                 *)

Send(m) ==
    /\ Len(instructions) < MaxInstructions
    /\ instructions' = Append(instructions,
           [mission |-> m, attempt |-> attempt[m], result |-> "waiting"])
    /\ UNCHANGED <<attemptVars, posted, page, listenVars, granted, passVars, memoryVars, faults>>

Ended == {i \in DOMAIN instructions : instructions[i].result # "waiting"}

End(result) ==
    \E i \in DOMAIN instructions \ Ended :
        /\ \A j \in 1..(i - 1) : j \in Ended
        /\ instructions' = [instructions EXCEPT ![i].result = result]
        /\ UNCHANGED <<attemptVars, posted, page, listenVars, granted, passVars, memoryVars, faults>>

History == {i \in Ended : Cardinality({j \in Ended : j > i}) < HistorySize}

---------------------------------------------------------------------------
(* The server.                                                              *)

(* The operator closes the attempt at the desk.                              *)
CloseByHand(m) ==
    /\ ~closed[m]
    /\ closed' = [closed EXCEPT ![m] = TRUE]
    /\ UNCHANGED <<yardVars, attempt, closedBy, posted, page, listenVars, granted, passVars, memoryVars, faults>>

LogAnotherRun(m) ==
    /\ closed[m]
    /\ attempt[m] < MaxAttempts
    /\ attempt' = [attempt EXCEPT ![m] = @ + 1]
    /\ closed' = [closed EXCEPT ![m] = FALSE]
    /\ closedBy' = [closedBy EXCEPT ![m] = Nobody]
    /\ UNCHANGED <<yardVars, posted, page, listenVars, granted, passVars, memoryVars, faults>>

(* One `complete` is served: it closes the mission's current attempt, which   *)
(* the request does not name, or is refused with 409.                        *)
Recorded(i) ==
    LET m == instructions[i].mission IN
    IF closed[m]
    THEN UNCHANGED attemptVars
    ELSE /\ closed' = [closed EXCEPT ![m] = TRUE]
         /\ closedBy' = [closedBy EXCEPT ![m] = i]
         /\ UNCHANGED attempt

Told(p, what) == pass' = [pass EXCEPT ![p] = what]

(* The page that posted may have been left since: then nobody is told.        *)
Serve ==
    \E request \in posted :
        /\ posted' = posted \ {request}
        /\ Recorded(request.id)
        /\ IF request.page = Nobody THEN UNCHANGED pass
           ELSE Told(request.page,
                     IF closed[instructions[request.id].mission] THEN "refused" ELSE "ok")
        /\ UNCHANGED <<yardVars, page, listenVars, granted, snapshot, toDo, memoryVars, faults>>

(* Any other answer: the route failed and nothing is written.                 *)
ServeFails ==
    \E request \in posted :
        /\ Lost
        /\ posted' = posted \ {request}
        /\ IF request.page = Nobody THEN UNCHANGED pass ELSE Told(request.page, "failed")
        /\ UNCHANGED <<yardVars, attemptVars, page, listenVars, granted, snapshot, toDo, memoryVars>>

---------------------------------------------------------------------------
(* One console.                                                             *)

(* The listener asks for the newest WindowSize open missions and no more.      *)
Opened == {m \in YardMissions : ~closed[m]}
InWindow(m) == m \in Opened /\ Cardinality({k \in Opened : k > m}) < WindowSize

Deliver(p) ==
    /\ page[p] # "away"
    /\ p \in listening
    /\ missionsRef' = [missionsRef EXCEPT ![p] = {m \in YardMissions : InWindow(m)}]
    /\ UNCHANGED <<yardVars, attemptVars, posted, page, listening, granted, passVars, memoryVars, faults>>

(* A listener that failed delivers nothing more, and `missions` is null again. *)
ListenerFails(p) ==
    /\ page[p] # "away"
    /\ p \in listening
    /\ Lost
    /\ listening' = listening \ {p}
    /\ missionsRef' = [missionsRef EXCEPT ![p] = {}]
    /\ UNCHANGED <<yardVars, attemptVars, posted, page, granted, passVars, memoryVars>>

(* The person at the browser allows the local network, or takes it back.       *)
Grant(b) ==
    /\ granted' = granted \cup {b}
    /\ UNCHANGED <<yardVars, attemptVars, posted, page, listenVars, passVars, memoryVars, faults>>

Revoke(b) ==
    /\ b \in granted
    /\ Lost
    /\ granted' = granted \ {b}
    /\ UNCHANGED <<yardVars, attemptVars, posted, page, listenVars, passVars, memoryVars>>

(* Every 15 seconds, on opening and on coming back to the tab.  Only from a   *)
(* tab in view, never two at once, and only with something open to record.    *)
Poll(p) ==
    /\ page[p] = "shown"
    /\ pass[p] = "idle"
    /\ missionsRef[p] # {}
    /\ Told(p, "asking")
    /\ snapshot' = [snapshot EXCEPT ![p] = missionsRef[p]]
    /\ UNCHANGED <<yardVars, attemptVars, posted, page, listenVars, granted, toDo, memoryVars, faults>>

(* Slip: `inFlight` is left up. *)
OverInFlight(p) == Told(p, "waiting") /\ toDo' = [toDo EXCEPT ![p] = {}]
                                   /\ snapshot' = [snapshot EXCEPT ![p] = {}]

(* The poll's `finally`, whatever ended it.                                  *)
Over(p) == Told(p, "idle") /\ toDo' = [toDo EXCEPT ![p] = {}]
                           /\ snapshot' = [snapshot EXCEPT ![p] = {}]

(* A background poll never asks for the permission: without it, it ends here.  *)
Ask(p) ==
    /\ pass[p] = "asking"
    /\ IF BrowserOf[p] \in granted /\ page[p] # "away"
       THEN Told(p, "reading") /\ UNCHANGED <<snapshot, toDo>>
       ELSE Over(p)
    /\ UNCHANGED <<yardVars, attemptVars, posted, page, listenVars, granted, memoryVars, faults>>

(* What a report may be acted on for: a clean finish of a mission the poll     *)
(* saw open, by an id this console has not acted on before.                  *)
Fresh(p) == {i \in History : /\ instructions[i].result = "completed"
                             /\ instructions[i].mission \in snapshot[p]
                             /\ i \notin reported[p]}

(* One completion per mission per pass, the oldest report first.              *)
MissionsTheRoverFinished(p) ==
    {i \in Fresh(p) : \A j \in Fresh(p) : instructions[j].mission = instructions[i].mission => i <= j}

Read(p) ==
    /\ pass[p] = "reading"
    /\ toDo' = [toDo EXCEPT ![p] = MissionsTheRoverFinished(p)]
    /\ Told(p, "next")
    /\ UNCHANGED <<yardVars, attemptVars, posted, page, listenVars, granted, snapshot, memoryVars, faults>>

(* The yard does not answer, or a post's connection drops on the way there or   *)
(* back: the poll gives up until the next one.  What was posted may be served.  *)
Drop(p) ==
    /\ pass[p] \in {"reading", "waiting", "ok", "refused"}
    /\ Lost
    /\ Over(p)
    /\ \E reaches \in BOOLEAN :
           posted' = {r \in posted : r.page # p}
                     \cup (IF reaches THEN {[r EXCEPT !.page = Nobody] : r \in {q \in posted : q.page = p}}
                           ELSE {})
    /\ UNCHANGED <<yardVars, attemptVars, page, listenVars, granted, memoryVars>>

Post(p) ==
    /\ pass[p] = "next"
    /\ page[p] # "away"
    /\ \E i \in toDo[p] :
           /\ \A j \in toDo[p] : i <= j
           /\ posted' = posted \cup {[page |-> p, id |-> i]}
    /\ Told(p, "waiting")
    /\ UNCHANGED <<yardVars, attemptVars, page, listenVars, granted, snapshot, toDo, memoryVars, faults>>

(* All posted, or the console was left meanwhile (`cancelled`).               *)
PassEnds(p) ==
    /\ pass[p] = "next"
    /\ toDo[p] = {} \/ page[p] = "away"
    /\ Over(p)
    /\ UNCHANGED <<yardVars, attemptVars, posted, page, listenVars, granted, memoryVars, faults>>

(* Slip: only a 200 is remembered. *)
SpentIfOk(answer) == answer = "ok"

(* 409 is "already complete", which no longer needs acting on either.         *)
Spent(answer) == answer \in {"ok", "refused"}

(* A console in use: open, or left with its last poll still under way.         *)
InUse(p) == page[p] # "away" \/ pass[p] # "idle"
Alone(p) == \A q \in Pages \ {p} : BrowserOf[q] = BrowserOf[p] => ~InUse(q)

(* saveReported: the whole of this console's memory replaces the browser's     *)
(* key, or the browser refuses the write and nobody is told.                 *)
Save(p) ==
    \/ /\ stored' = [stored EXCEPT ![BrowserOf[p]] = reported'[p]]
       /\ UNCHANGED faults
    \/ Lost /\ UNCHANGED stored

(* The answer is heard also by a console that was left while it waited.        *)
Answer(p) ==
    LET i == CHOOSE i \in toDo[p] : \A j \in toDo[p] : i <= j IN
    /\ pass[p] \in {"ok", "refused", "failed"}
    /\ IF Spent(pass[p])
       THEN reported' = [reported EXCEPT ![p] = @ \cup {i}] /\ Save(p)
       ELSE UNCHANGED <<reported, stored, faults>>
    /\ IF pass[p] = "failed" THEN UNCHANGED <<answered, kept>>
       ELSE /\ answered' = [answered EXCEPT ![p] = @ \cup {i}]
            /\ kept' = IF i \in stored'[BrowserOf[p]] /\ Alone(p)
                       THEN [kept EXCEPT ![BrowserOf[p]] = @ \cup {i}] ELSE kept
    /\ toDo' = [toDo EXCEPT ![p] = @ \ {i}]
    /\ Told(p, "next")
    /\ UNCHANGED <<yardVars, attemptVars, posted, page, listenVars, granted, snapshot>>

(* The tab is closed or reloaded: the poll stops where it is, and a completion  *)
(* already posted is served all the same.                                    *)
Leave(p) ==
    /\ page[p] # "away"
    /\ Lost
    /\ page' = [page EXCEPT ![p] = "away"]
    /\ Over(p)
    /\ posted' = {IF r.page = p THEN [r EXCEPT !.page = Nobody] ELSE r : r \in posted}
    /\ missionsRef' = [missionsRef EXCEPT ![p] = {}]
    /\ UNCHANGED <<yardVars, attemptVars, listening, granted, memoryVars>>

(* The operator goes to another of the app's pages: the console is unmounted,   *)
(* which stops no request, only raises `cancelled`.                          *)
Unmount(p) ==
    /\ page[p] # "away"
    /\ Lost
    /\ page' = [page EXCEPT ![p] = "away"]
    /\ missionsRef' = [missionsRef EXCEPT ![p] = {}]
    /\ UNCHANGED <<yardVars, attemptVars, posted, listening, granted, passVars, memoryVars>>

(* Opening reads back what this browser stored, and listens anew.             *)
Return(p) ==
    /\ ~InUse(p)
    /\ page' = [page EXCEPT ![p] = "shown"]
    /\ listening' = listening \cup {p}
    /\ reported' = [reported EXCEPT ![p] = stored[BrowserOf[p]]]
    /\ answered' = [answered EXCEPT ![p] = kept[BrowserOf[p]]]
    /\ UNCHANGED <<yardVars, attemptVars, posted, missionsRef, granted, passVars, stored, kept, faults>>

(* A poll under way goes on in a hidden tab; only starting one needs the view.  *)
Hide(p) ==
    /\ page[p] = "shown"
    /\ Lost
    /\ page' = [page EXCEPT ![p] = "hidden"]
    /\ UNCHANGED <<yardVars, attemptVars, posted, listenVars, granted, passVars, memoryVars>>

Show(p) ==
    /\ page[p] = "hidden"
    /\ page' = [page EXCEPT ![p] = "shown"]
    /\ UNCHANGED <<yardVars, attemptVars, posted, listenVars, granted, passVars, memoryVars, faults>>

---------------------------------------------------------------------------
AtTheYard == (\E m \in YardMissions : Send(m)) \/ End("completed") \/ End("error")
AtTheDesk == \E m \in YardMissions : CloseByHand(m) \/ LogAnotherRun(m)
AtTheBrowser == \E b \in Browsers : Grant(b) \/ Revoke(b)
PageWorks(p) == Deliver(p) \/ Poll(p) \/ Ask(p) \/ Read(p) \/ Post(p) \/ PassEnds(p) \/ Answer(p)
PageFails(p) == ListenerFails(p) \/ Drop(p)
Operator(p) == Leave(p) \/ Unmount(p) \/ Return(p) \/ Hide(p) \/ Show(p)

ReportsNext ==
    \/ AtTheYard
    \/ AtTheDesk
    \/ AtTheBrowser
    \/ Serve
    \/ ServeFails
    \/ \E p \in Pages : PageWorks(p) \/ PageFails(p) \/ Operator(p)

ReportsSpec == ReportsInit /\ [][ReportsNext]_reportVars

(* A live listener delivers, the interval fires, the browser tells its         *)
(* permission, the server serves.  Nobody has to send a mission or to grant    *)
(* anything, and the operator may leave and never come back.                  *)
FairReportsSpec ==
    /\ ReportsSpec
    /\ WF_reportVars(Serve)
    /\ \A p \in Pages :
           /\ WF_reportVars(Deliver(p)) /\ WF_reportVars(Poll(p)) /\ WF_reportVars(Ask(p))
           /\ WF_reportVars(Read(p)) /\ WF_reportVars(Post(p)) /\ WF_reportVars(PassEnds(p)) /\ WF_reportVars(Answer(p))

---------------------------------------------------------------------------
(* Properties.                                                              *)

ReportsTypeOK ==
    /\ instructions \in Seq(Instruction) /\ Len(instructions) <= MaxInstructions
    /\ attempt \in [YardMissions -> 1..MaxAttempts]
    /\ closed \in [YardMissions -> BOOLEAN]
    /\ closedBy \in [YardMissions -> Ids \cup {Nobody}]
    /\ posted \subseteq [page : Pages \cup {Nobody}, id : DOMAIN instructions]
    /\ page \in [Pages -> {"away", "hidden", "shown"}]
    /\ missionsRef \in [Pages -> SUBSET YardMissions] /\ snapshot \in [Pages -> SUBSET YardMissions]
    /\ listening \subseteq Pages /\ granted \subseteq Browsers
    /\ pass \in [Pages -> Passes]
    /\ \A p \in Pages : /\ toDo[p] \cup reported[p] \cup answered[p] \subseteq DOMAIN instructions
                        /\ pass[p] \in {"waiting", "ok", "refused", "failed"} => toDo[p] # {}
    /\ \A b \in Browsers : kept[b] \subseteq stored[b] /\ stored[b] \subseteq DOMAIN instructions
    /\ faults \in 0..MaxFaults

(* A report a console was told is recorded, or was recorded by somebody else,   *)
(* is never posted from it again: not by a later poll, not against a later     *)
(* attempt at the mission.  Nor from any console opened later in that browser, *)
(* if the browser took the write and no other console of it was in use, one    *)
(* left with its last poll under way included.                               *)
AnsweredReportIsSpent ==
    \A request \in posted :
        request.page # Nobody => request.id \notin answered[request.page]

(* Only a clean finish completes a mission: whatever the history, the queue and  *)
(* the other consoles did meanwhile, an attempt closed by a report was closed   *)
(* by an instruction of that same mission that ended without an error.        *)
OnlyACleanFinishCompletes ==
    \A m \in YardMissions : closedBy[m] # Nobody =>
        /\ instructions[closedBy[m]].result = "completed"
        /\ instructions[closedBy[m]].mission = m

(* A clean finish of an open mission gets recorded by any console that stays in  *)
(* view, in a browser that lets it reach the yard, with a live listener, for as  *)
(* long as the mission is one of those the listener is cut to, unless the report *)
(* leaves the rover's history first or this console has acted on it before.     *)
Heard(p, i) == /\ page[p] = "shown" /\ p \in listening /\ BrowserOf[p] \in granted
               /\ i \in History \ reported[p]
               /\ instructions[i].result = "completed"
               /\ InWindow(instructions[i].mission)

ReportsGetRecorded == \A p \in Pages, i \in Ids : Heard(p, i) ~> ~Heard(p, i)

(* What roverReports.ts says of the stored ids, "a report the rover keeps in its *)
(* history is not replayed against a later run of the same mission": an attempt *)
(* closed by a report is the attempt that instruction was sent for.           *)
NotReplayed ==
    \A m \in YardMissions : closedBy[m] # Nobody => instructions[closedBy[m]].attempt = attempt[m]
=============================================================================
