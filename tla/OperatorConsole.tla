-------------------------- MODULE OperatorConsole --------------------------
(***************************************************************************)
(* What the operator's screen shows of the yard's missions.                 *)
(*                                                                         *)
(* The console (components/operator/MissionQueue.tsx) never reads missions    *)
(* whole.  It listens to two windows over them, the newest open ones and, on   *)
(* request, the newest settled ones, and to the document and the runs of the   *)
(* mission the operator opened (persistence/operatorQueueService.ts).  The     *)
(* listeners deliver when they like, one may fail and stay failed, and a       *)
(* mission changes windows under the operator's hands: completing it takes it  *)
(* out of the queue, a new submission pushes an old one over the edge, and a    *)
(* soft-deleted one is dropped only after the window was cut.                  *)
(*                                                                         *)
(* Missions are numbered in the order they were submitted.                   *)
(***************************************************************************)
EXTENDS Naturals, FiniteSets

CONSTANTS
    N,            \* missions ever submitted
    QueueLimit,   \* QUEUE_LIMIT: open missions the queue loads
    DoneLimit,    \* DONE_LIMIT: settled missions in one page of Done
    MaxPages,     \* bound on the pages of Done asked for
    MaxFailures,  \* bound on listeners that fail
    None

ASSUME ConsoleAssumption ==
    /\ N \in Nat /\ QueueLimit \in Nat \ {0} /\ DoneLimit \in Nat \ {0}
    /\ MaxPages \in Nat \ {0} /\ MaxFailures \in Nat

VARIABLES
    arrived,    \* missions 1..arrived exist
    settled,    \* the ones whose status is settled
    deleted,    \* the soft-deleted ones, whatever their status
    selected,   \* selectedId
    view,       \* what is listed: "queue", "done", or a "search" of both
    pages,      \* donePages
    queue,      \* missions: what the queue's listener delivered, or None
    olderHidden,
    done,       \* doneFor: what the settled list's listener delivered, or None
    error,      \* is the disconnected card up?
    watched,    \* the open mission's own document as last delivered, or None
    runsFor,    \* the mission whose runs were last delivered, or None
    down        \* listeners that failed and were not attached again

serverVars == <<arrived, settled, deleted>>
choiceVars == <<selected, view, pages>>
listVars == <<queue, olderHidden, done, error>>
paneVars == <<watched, runsFor>>
vars == <<serverVars, choiceVars, listVars, paneVars, down>>

Missions == 1..N
Listeners == {"queue", "done", "mission", "runs"}

Init ==
    /\ arrived \in 0..N
    /\ settled = {} /\ deleted = {}
    /\ selected = None /\ view = "queue" /\ pages = 1
    /\ queue = None /\ olderHidden = FALSE /\ done = None /\ error = FALSE
    /\ watched = None /\ runsFor = None
    /\ down = {}

---------------------------------------------------------------------------
(* The missions, changed by learners, operators, the linker and the rover's   *)
(* reports: MissionBookkeeping says how, here only what a query can see.      *)

Submit ==
    /\ arrived < N
    /\ arrived' = arrived + 1
    /\ UNCHANGED <<settled, deleted, choiceVars, listVars, paneVars, down>>

(* Complete and cancel settle a mission; requeue and another run reopen it.    *)
Move(m) ==
    /\ m <= arrived /\ m \notin deleted
    /\ settled' = IF m \in settled THEN settled \ {m} ELSE settled \cup {m}
    /\ UNCHANGED <<arrived, deleted, choiceVars, listVars, paneVars, down>>

SoftDelete(m) ==
    /\ m <= arrived /\ m \notin deleted
    /\ deleted' = deleted \cup {m}
    /\ UNCHANGED <<arrived, settled, choiceVars, listVars, paneVars, down>>

---------------------------------------------------------------------------
(* The two windows.                                                         *)

Newest(S, n) == {m \in S : Cardinality({k \in S : k > m}) < n}

(* Slip: exactly one page is asked for. *)
PageOnly(S, n) == [missions |-> Newest(S, n) \ deleted, more |-> Cardinality(Newest(S, n)) > n]

(* One document past the page is asked for, to know whether more exist; the     *)
(* soft-deleted are dropped from what is left of the page.                    *)
Page(S, n) == LET got == Newest(S, n + 1) IN
    [missions |-> Newest(got, n) \ deleted, more |-> Cardinality(got) > n]

Arrived == 1..arrived
QueuePage == Page(Arrived \ settled, QueueLimit)
DonePage == Page(Arrived \cap settled, pages * DoneLimit)

Views == {"queue", "done", "search"}
ListensToSettled == view \in {"done", "search"}

QueueDelivers ==
    /\ "queue" \notin down
    /\ queue' = QueuePage.missions
    /\ olderHidden' = QueuePage.more
    /\ error' = FALSE
    /\ UNCHANGED <<serverVars, choiceVars, done, paneVars, down>>

(* The settled list is kept with the page count it was read for.              *)
DoneDelivers ==
    /\ ListensToSettled /\ "done" \notin down
    /\ done' = [pages |-> pages, missions |-> DonePage.missions, more |-> DonePage.more]
    /\ error' = FALSE
    /\ UNCHANGED <<serverVars, choiceVars, queue, olderHidden, paneVars, down>>

Settled == IF ListensToSettled THEN done ELSE None
DoneMissions == IF Settled = None THEN {} ELSE Settled.missions

(* A listener that fails is over; only what it depends on attaches it again.   *)
Fails(l) ==
    /\ Cardinality(down) < MaxFailures
    /\ l \notin down
    /\ down' = down \cup {l}
    /\ CASE l = "queue" -> queue' = None /\ error' = TRUE /\ UNCHANGED <<olderHidden, done, paneVars>>
         [] l = "done" -> /\ ListensToSettled
                          /\ done' = None /\ error' = TRUE
                          /\ UNCHANGED <<queue, olderHidden, paneVars>>
         [] l = "mission" -> /\ selected # None
                             /\ watched' = None /\ UNCHANGED <<listVars, runsFor>>
         [] l = "runs" -> /\ selected # None
                          /\ runsFor' = selected /\ UNCHANGED <<listVars, watched>>
    /\ UNCHANGED <<serverVars, choiceVars>>

---------------------------------------------------------------------------
(* The open mission.  Its own document wins over the lists, which are there    *)
(* for the moment before the watch has delivered; what either watch delivered  *)
(* is used only under the id it was delivered for.                            *)

WatchDelivers ==
    /\ selected # None /\ "mission" \notin down
    /\ watched' = [id |-> selected, mission |-> IF selected \in deleted THEN None ELSE selected]
    /\ UNCHANGED <<serverVars, choiceVars, listVars, runsFor, down>>

RunsDelivered ==
    /\ selected # None /\ "runs" \notin down
    /\ runsFor' = selected
    /\ UNCHANGED <<serverVars, choiceVars, listVars, watched, down>>

Lists == (IF queue = None THEN {} ELSE queue) \cup DoneMissions

(* Slip: whatever was delivered last is taken for the open mission. *)
OwnUntagged == watched # None /\ watched.mission # None

Own == watched # None /\ watched.id = selected /\ watched.mission # None

(* Slip: the pane reads the lists alone. *)
ShownInLists == IF selected \in Lists THEN selected ELSE None

Shown == IF Own THEN watched.mission
         ELSE IF selected \in Lists THEN selected ELSE None

RunsShown == IF runsFor = selected THEN runsFor ELSE None

(* What fills the screen.                                                    *)
Screen ==
    CASE error -> "disconnected"
      [] ~error /\ queue = None -> "loading"
      [] ~error /\ queue = {} /\ selected = None /\ DoneMissions = {} -> "nothing waiting"
      [] OTHER -> "panes"

PaneMission == IF Screen = "panes" THEN Shown ELSE None

(* The line under the queue that says older missions wait unseen.             *)
NoteShown == Screen = "panes" /\ ~ListensToSettled /\ olderHidden

(* Both detail listeners are attached anew for another mission.               *)
Select(m) ==
    /\ Screen = "panes"
    /\ selected' = m
    /\ down' = IF m = selected THEN down ELSE down \ {"mission", "runs"}
    /\ UNCHANGED <<serverVars, view, pages, listVars, paneVars>>

Rows == CASE view = "queue" -> queue
          [] view = "done" -> DoneMissions
          [] view = "search" -> queue \cup DoneMissions
Open == Screen = "panes" /\ \E m \in Rows : Select(m)
Back == selected # None /\ Select(None)

(* A tab closes the open mission; the navbar's filters and search leave it      *)
(* open.  The settled list is attached anew only where nothing listened to it.  *)
Choose(v, closes) ==
    /\ closes => Screen = "panes"
    /\ view' = v
    /\ selected' = IF closes THEN None ELSE selected
    /\ down' = (IF ListensToSettled' = ListensToSettled THEN down ELSE down \ {"done"})
               \ (IF closes THEN {"mission", "runs"} ELSE {})
    /\ UNCHANGED <<serverVars, pages, listVars, paneVars>>

(* The listener is attached again with a wider window; the rows already read    *)
(* stay on screen until it delivers, and the button waits for that.           *)
ShowOlder ==
    /\ Screen = "panes" /\ view = "done"
    /\ Settled # None /\ Settled.more
    /\ Settled.pages = pages
    /\ pages < MaxPages
    /\ pages' = pages + 1
    /\ down' = down \ {"done"}
    /\ UNCHANGED <<serverVars, selected, view, listVars, paneVars>>

(* The page is opened again; coming back from the run station it opens the     *)
(* mission that was sent, named in the address.                              *)
Reload(m) ==
    /\ selected' = m /\ view' = "queue" /\ pages' = 1
    /\ queue' = None /\ olderHidden' = FALSE /\ done' = None /\ error' = FALSE
    /\ watched' = None /\ runsFor' = None
    /\ down' = {}
    /\ UNCHANGED serverVars

---------------------------------------------------------------------------
Next ==
    \/ Submit
    \/ \E m \in Missions : Move(m) \/ SoftDelete(m)
    \/ QueueDelivers \/ DoneDelivers \/ WatchDelivers \/ RunsDelivered
    \/ \E l \in Listeners : Fails(l)
    \/ Open \/ Back \/ ShowOlder
    \/ \E m \in Arrived \cup {None} : Reload(m)
    \/ \E v \in Views, closes \in BOOLEAN : Choose(v, closes)

Spec == Init /\ [][Next]_vars

(* Firestore delivers what a live listener has not seen.                      *)
FairSpec == Spec /\ WF_vars(QueueDelivers) /\ WF_vars(DoneDelivers)
                 /\ WF_vars(WatchDelivers) /\ WF_vars(RunsDelivered)
---------------------------------------------------------------------------
(* Properties.                                                              *)

ConsoleTypeOK ==
    /\ arrived \in 0..N /\ settled \cup deleted \subseteq Arrived
    /\ selected \in Arrived \cup {None} /\ view \in Views /\ pages \in 1..MaxPages
    /\ queue = None \/ queue \subseteq Arrived
    /\ done = None \/ (done.missions \subseteq Arrived /\ done.pages \in {pages, pages - 1})
    /\ watched = None \/ (watched.id \in Arrived /\ watched.mission \in {watched.id, None})
    /\ runsFor \in Arrived \cup {None}
    /\ error \in BOOLEAN /\ olderHidden \in BOOLEAN /\ down \subseteq Listeners

(* The pane never shows one mission, or one mission's runs, under another's     *)
(* name, whichever listener delivers late.                                   *)
PaneShowsTheOpenMission == Shown \in {None, selected} /\ RunsShown \in {None, selected}

(* Completing the open mission, a newer submission pushing it out of its window,  *)
(* or a closed Done list does not blank the pane: while the two lists are        *)
(* connected, once the mission's own document has been read only deleting it,   *)
(* losing that listener or opening another does.  (A failed queue or Done        *)
(* listener puts the disconnected card over everything, the open mission too.)  *)
OpenMissionStays ==
    [][(/\ selected # None /\ PaneMission = selected /\ Own
        /\ selected' = selected /\ selected \notin deleted'
        /\ watched' # None /\ ~error' /\ queue' # None) => PaneMission' = selected]_vars

(* A console that lists the queue and is up to date with its window shows every  *)
(* mission that waits in a row, or shows the note that older ones are hidden.    *)
UpToDate == queue = QueuePage.missions /\ olderHidden = QueuePage.more
Waiting == (Arrived \ settled) \ deleted

HiddenIsSaid ==
    Screen = "panes" /\ view = "queue" /\ UpToDate => \A m \in Waiting : m \in Rows \/ NoteShown

(* A mission opened from the address is found for the pane, though it may be     *)
(* settled, or too old for either window.                                   *)
Missing(m) == selected = m /\ m \notin deleted /\ "mission" \notin down /\ Shown = None

OpenMissionIsFound == \A m \in Missions : Missing(m) ~> ~Missing(m)

(* MissionQueue.tsx: "Never hide missions without a word".  The screen that says *)
(* nothing is waiting is shown only when nothing is.                         *)
NothingMeansNothing == UpToDate /\ Screen = "nothing waiting" => Waiting = {}
=============================================================================
