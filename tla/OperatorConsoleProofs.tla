------------------------ MODULE OperatorConsoleProofs ------------------------
(***************************************************************************)
(* What holds of the operator's console for every value of the constants:  *)
(* of what it shows (OperatorConsole), for any number of missions, any     *)
(* size of the two windows and any number of listeners that fail, and of   *)
(* what it does about the rover's reports meanwhile (ReportedCompletions), *)
(* for any number of consoles, missions and faults.                        *)
(***************************************************************************)
EXTENDS OperatorConsole, ReportedCompletions, FiniteSetTheorems, TLAPS

USE ConsoleAssumption

-----------------------------------------------------------------------------
(* The newest of a finite set of missions.                                 *)

(* A set of missions that is not empty has an oldest and a newest one; the *)
(* newest of T is the one with the fewest newer ones.                      *)
LEMMA HasNewest ==
  ASSUME NEW S \in SUBSET Nat, IsFiniteSet(S), NEW T \in SUBSET S, T # {}
  PROVE  \E m \in T : \A k \in T : k <= m
  <1> DEFINE Newer(m) == {k \in S : k > m}
             All == {Newer(m) : m \in T}
  <1>1. All \subseteq FiniteSubsetsOf(S) /\ All # {}
    <2>1. ASSUME NEW m \in T
          PROVE  Newer(m) \in FiniteSubsetsOf(S)
      <3>1. Newer(m) \in SUBSET S
        OBVIOUS
      <3>2. IsFiniteSet(Newer(m))
        BY <3>1, FS_Subset
      <3> QED
        BY <3>1, <3>2 DEF FiniteSubsetsOf
    <2>2. All # {}
      OBVIOUS
    <2> QED
      BY <2>1, <2>2
  <1>2. IsWellFoundedOn(StrictSubsetOrdering(S), FiniteSubsetsOf(S))
    BY FS_StrictSubsetOrderingWellFounded
  <1>3. PICK U \in All : \A V \in All : <<V, U>> \notin StrictSubsetOrdering(S)
    BY <1>1, <1>2, WFMin
  <1>4. PICK m \in T : U = Newer(m)
    BY <1>3
  <1>5. ASSUME NEW k \in T, k > m
        PROVE  FALSE
    <2>1. k \in S /\ m \in S /\ k \in Nat /\ m \in Nat
      OBVIOUS
    <2>2. \A i \in Nat : i > k => i > m
      BY <1>5, <2>1
    <2>3. Newer(k) \subseteq Newer(m)
      BY <2>2
    <2>4. k \in Newer(m) /\ k \notin Newer(k)
      BY <1>5, <2>1
    <2>5. <<Newer(k), Newer(m)>> \in StrictSubsetOrdering(S)
      BY <2>3, <2>4 DEF StrictSubsetOrdering
    <2> QED
      BY <1>3, <1>4, <2>5
  <1> QED
    BY <1>5

(* A page that is not full has everything.                                 *)
LEMMA ShortPageIsAll ==
  ASSUME NEW S \in SUBSET Nat, IsFiniteSet(S), NEW n \in Nat, Cardinality(Newest(S, n + 1)) <= n
  PROVE  Newest(S, n + 1) = S
  <1>1. SUFFICES ASSUME S \ Newest(S, n + 1) # {}
                 PROVE  FALSE
    BY DEF Newest
  <1>2. PICK m \in S \ Newest(S, n + 1) : \A k \in S \ Newest(S, n + 1) : k <= m
    BY <1>1, HasNewest
  <1> DEFINE newer == {k \in S : k > m}
  <1>3. ASSUME NEW k \in newer
        PROVE  k \in Newest(S, n + 1)
    <2>1. k \in S /\ k > m /\ k \in Nat /\ m \in Nat
      BY <1>2 DEF Newest
    <2> QED
      BY <1>2, <2>1
  <1>4. /\ IsFiniteSet(Newest(S, n + 1)) /\ Cardinality(Newest(S, n + 1)) \in Nat
        /\ IsFiniteSet(newer) /\ Cardinality(newer) \in Nat
    BY FS_Subset, FS_CardinalityType DEF Newest
  <1>5. Cardinality(newer) <= Cardinality(Newest(S, n + 1))
    BY <1>3, <1>4, FS_Subset
  <1>6. ~(Cardinality(newer) < n + 1)
    BY <1>2 DEF Newest
  <1> QED
    BY <1>4, <1>5, <1>6

(* What fits in a page is all in it.                                       *)
LEMMA FewAreNewest ==
  ASSUME NEW S \in SUBSET Nat, IsFiniteSet(S), NEW n \in Nat, Cardinality(S) <= n
  PROVE  Newest(S, n) = S
  <1>1. ASSUME NEW m \in S
        PROVE  Cardinality({k \in S : k > m}) < n
    <2> DEFINE newer == {k \in S : k > m}
    <2>1. newer \subseteq S \ {m} /\ m \in S
      OBVIOUS
    <2>2. IsFiniteSet(S \ {m}) /\ Cardinality(S \ {m}) = Cardinality(S) - 1
      BY FS_RemoveElement
    <2>3. IsFiniteSet(newer) /\ Cardinality(newer) <= Cardinality(S \ {m})
      BY <2>1, <2>2, FS_Subset
    <2>4. Cardinality(S) \in Nat /\ Cardinality(newer) \in Nat
      BY <2>3, FS_CardinalityType
    <2> QED
      BY <2>2, <2>3, <2>4
  <1> QED
    BY <1>1 DEF Newest

-----------------------------------------------------------------------------
(* What the pane shows.                                                    *)

(* A delivered document is kept with the id it was asked for.              *)
WatchedInv == watched # None => watched.mission \in {watched.id, None}

LEMMA WatchedStep == WatchedInv /\ [Next]_vars => WatchedInv'
  <1> SUFFICES ASSUME WatchedInv, [Next]_vars
               PROVE  WatchedInv'
    OBVIOUS
  <1>1. watched' \in {watched, None} => WatchedInv'
    BY DEF WatchedInv
  <1>2. CASE WatchDelivers
    BY <1>2 DEF WatchDelivers, WatchedInv
  <1>3. ASSUME NEW l \in Listeners, Fails(l)
        PROVE  WatchedInv'
    BY <1>1, <1>3 DEF Fails, Listeners, paneVars
  <1>4. ASSUME NEW m, Select(m)
        PROVE  WatchedInv'
    BY <1>1, <1>4 DEF Select, paneVars
  <1>5. CASE Submit \/ QueueDelivers \/ DoneDelivers \/ RunsDelivered \/ ShowOlder
    BY <1>1, <1>5 DEF Submit, QueueDelivers, DoneDelivers, RunsDelivered, ShowOlder, paneVars
  <1>6. ASSUME NEW m, Move(m) \/ SoftDelete(m) \/ Reload(m)
        PROVE  WatchedInv'
    BY <1>1, <1>6 DEF Move, SoftDelete, Reload, paneVars
  <1>7. ASSUME NEW v, NEW closes, Choose(v, closes)
        PROVE  WatchedInv'
    BY <1>1, <1>7 DEF Choose, paneVars
  <1>8. CASE UNCHANGED vars
    BY <1>1, <1>8 DEF vars, paneVars
  <1> QED
    BY <1>2, <1>3, <1>4, <1>5, <1>6, <1>7, <1>8 DEF Next, Open, Back

(* The pane shows the open mission and its runs or nothing, in whatever    *)
(* order the listeners deliver (MissionQueue's watched and runsFor).       *)
THEOREM PaneIsTheOpenMission == Spec => []PaneShowsTheOpenMission
  <1>1. Init => WatchedInv
    BY DEF Init, WatchedInv
  <1>2. WatchedInv => PaneShowsTheOpenMission
    BY DEF WatchedInv, PaneShowsTheOpenMission, Shown, Own, RunsShown
  <1> QED
    BY <1>1, <1>2, WatchedStep, PTL DEF Spec

(* While the two lists are connected, the open mission stays in the pane   *)
(* once its own document was read, until it is deleted, closed or no       *)
(* longer listened to (MissionQueue's early returns and its selected).     *)
THEOREM OpenMissionStaysOpen == Spec => OpenMissionStays
  <1>1. ASSUME [Next]_vars, Own, selected' = selected, selected \notin deleted', watched' # None,
               Shown = selected
        PROVE  Shown' = selected
    <2>1. CASE watched' = watched
      BY <1>1, <2>1 DEF Shown, Own
    <2>2. CASE WatchDelivers
      BY <1>1, <2>2 DEF WatchDelivers, Shown, Own, serverVars
    <2>3. ASSUME NEW l \in Listeners, Fails(l)
          PROVE  watched' \in {watched, None}
      BY <2>3 DEF Fails, Listeners, paneVars
    <2>4. ASSUME NEW m, Select(m) \/ Move(m) \/ SoftDelete(m) \/ Reload(m)
          PROVE  watched' \in {watched, None}
      BY <2>4 DEF Select, Move, SoftDelete, Reload, paneVars
    <2>5. ASSUME Submit \/ QueueDelivers \/ DoneDelivers \/ RunsDelivered \/ ShowOlder
          PROVE  watched' = watched
      BY <2>5 DEF Submit, QueueDelivers, DoneDelivers, RunsDelivered, ShowOlder, paneVars
    <2>6. ASSUME NEW v, NEW closes, Choose(v, closes)
          PROVE  watched' = watched
      BY <2>6 DEF Choose, paneVars
    <2>7. UNCHANGED vars => watched' = watched
      BY DEF vars, paneVars
    <2> QED
      BY <1>1, <2>1, <2>2, <2>3, <2>4, <2>5, <2>6, <2>7 DEF Next, Open, Back
  <1>2. ASSUME selected # None, PaneMission = selected
        PROVE  Shown = selected
    BY <1>2 DEF PaneMission
  <1>3. ASSUME selected # None, selected' = selected, ~error', queue' # None
        PROVE  PaneMission' = Shown'
    BY <1>3 DEF PaneMission, Screen
  <1>4. [Next]_vars =>
          [(/\ selected # None /\ PaneMission = selected /\ Own
            /\ selected' = selected /\ selected \notin deleted'
            /\ watched' # None /\ ~error' /\ queue' # None) => PaneMission' = selected]_vars
    BY <1>1, <1>2, <1>3
  <1> QED
    BY <1>4, PTL DEF Spec, OpenMissionStays

-----------------------------------------------------------------------------
(* What the queue hides.                                                   *)

ArrivedInv == arrived \in Nat

LEMMA ArrivedStep == ArrivedInv /\ [Next]_vars => ArrivedInv'
  <1> SUFFICES ASSUME ArrivedInv, [Next]_vars
               PROVE  ArrivedInv'
    OBVIOUS
  <1>1. arrived' \in {arrived, arrived + 1}
    <2>1. ASSUME NEW m, Select(m) \/ Move(m) \/ SoftDelete(m) \/ Reload(m)
          PROVE  arrived' = arrived
      BY <2>1 DEF Select, Move, SoftDelete, Reload, serverVars
    <2>2. ASSUME \/ QueueDelivers \/ DoneDelivers \/ WatchDelivers \/ RunsDelivered \/ ShowOlder
                 \/ \E l \in Listeners : Fails(l)
                 \/ \E v, closes : Choose(v, closes)
          PROVE  arrived' = arrived
      BY <2>2 DEF QueueDelivers, DoneDelivers, WatchDelivers, RunsDelivered, ShowOlder, Fails, Choose,
         serverVars
    <2>3. Submit => arrived' = arrived + 1
      BY DEF Submit
    <2>4. UNCHANGED vars => arrived' = arrived
      BY DEF vars, serverVars
    <2> QED
      BY <2>1, <2>2, <2>3, <2>4 DEF Next, Open, Back
  <1> QED
    BY <1>1 DEF ArrivedInv

(* A console that lists the queue and has caught up shows every mission    *)
(* that waits in a row, or the note that older ones are hidden: one        *)
(* document past the page is asked for, so a page that says there is no    *)
(* more had them all (operatorQueueService, and MissionQueue's note).      *)
THEOREM NothingHidesSilently == Spec => []HiddenIsSaid
  <1>1. ASSUME ArrivedInv, UpToDate, ~olderHidden, NEW m \in Waiting
        PROVE  m \in queue
    <2> DEFINE S == Arrived \ settled
               got == Newest(S, QueueLimit + 1)
    <2>1. S \in SUBSET Nat /\ IsFiniteSet(Arrived) /\ S \in SUBSET Arrived
      BY <1>1, FS_Interval DEF ArrivedInv, Arrived
    <2>2. IsFiniteSet(S)
      BY <2>1, FS_Subset
    <2>3. /\ queue = Newest(got, QueueLimit) \ deleted
          /\ ~(Cardinality(got) > QueueLimit)
      BY <1>1 DEF UpToDate, QueuePage, Page
    <2>4. got \in SUBSET S
      BY DEF Newest
    <2>5. IsFiniteSet(got) /\ Cardinality(got) \in Nat
      BY <2>2, <2>4, FS_Subset, FS_CardinalityType
    <2>6. got = S
      BY <2>1, <2>2, <2>3, <2>5, ShortPageIsAll
    <2>7. Newest(got, QueueLimit) = S
      <3>1. Cardinality(S) <= QueueLimit
        BY <2>3, <2>5, <2>6
      <3> QED
        BY <2>1, <2>2, <2>6, <3>1, FewAreNewest
    <2> QED
      BY <2>3, <2>7 DEF Waiting
  <1>2. ArrivedInv => HiddenIsSaid
    <2>1. ASSUME ArrivedInv, Screen = "panes", view = "queue", UpToDate, NEW m \in Waiting
          PROVE  m \in Rows \/ NoteShown
      <3>1. Rows = queue /\ ~ListensToSettled
        BY <2>1 DEF Rows, ListensToSettled
      <3>2. CASE olderHidden
        BY <2>1, <3>1, <3>2 DEF NoteShown
      <3>3. CASE ~olderHidden
        BY <1>1, <2>1, <3>1, <3>3
      <3> QED
        BY <3>2, <3>3
    <2> QED
      BY <2>1 DEF HiddenIsSaid
  <1>3. Init => ArrivedInv
    BY DEF Init, ArrivedInv
  <1> QED
    BY <1>2, <1>3, ArrivedStep, PTL DEF Spec

-----------------------------------------------------------------------------
(* The types of what the screen shows.                                     *)

ServerTypes == arrived \in 0..N /\ settled \cup deleted \subseteq Arrived

ChoiceTypes ==
  /\ selected \in Arrived \cup {None} /\ view \in Views /\ pages \in 1..MaxPages
  /\ error \in BOOLEAN /\ olderHidden \in BOOLEAN /\ down \subseteq Listeners

ListTypes ==
  /\ queue = None \/ queue \subseteq Arrived
  /\ done = None \/ (done.missions \subseteq Arrived /\ done.pages \in {pages, pages - 1})

PaneTypes ==
  /\ watched = None \/ (watched.id \in Arrived /\ watched.mission \in {watched.id, None})
  /\ runsFor \in Arrived \cup {None}

LEMMA ConsoleParts == ConsoleTypeOK <=> ServerTypes /\ ChoiceTypes /\ ListTypes /\ PaneTypes
  BY DEF ConsoleTypeOK, ServerTypes, ChoiceTypes, ListTypes, PaneTypes

(* A page holds missions of the window it was cut from.                    *)
LEMMA PageWithin ==
  ASSUME NEW S, NEW n
  PROVE  Page(S, n).missions \subseteq S /\ Page(S, n).more \in BOOLEAN
  BY DEF Page, Newest

(* Missions arrive and never go: what was one of them stays one.           *)
LEMMA ServerTyped == ConsoleTypeOK /\ [Next]_vars => ServerTypes' /\ Arrived \subseteq Arrived'
  <1> SUFFICES ASSUME ConsoleTypeOK, [Next]_vars
               PROVE  ServerTypes' /\ Arrived \subseteq Arrived'
    OBVIOUS
  <1>1. ServerTypes
    BY ConsoleParts
  <1>2. CASE UNCHANGED serverVars
    BY <1>1, <1>2 DEF serverVars, ServerTypes, Arrived
  <1>3. CASE Submit
    BY <1>1, <1>3 DEF Submit, ServerTypes, Arrived
  <1>4. ASSUME NEW m \in Missions, Move(m) \/ SoftDelete(m)
        PROVE  ServerTypes' /\ Arrived \subseteq Arrived'
    <2>1. m \in Arrived /\ arrived' = arrived
      BY <1>1, <1>4 DEF Move, SoftDelete, ServerTypes, Arrived, Missions
    <2>2. settled' \cup deleted' \subseteq settled \cup deleted \cup {m}
      BY <1>4 DEF Move, SoftDelete
    <2> QED
      BY <1>1, <2>1, <2>2 DEF ServerTypes, Arrived
  <1>5. ASSUME NEW m, Select(m) \/ Reload(m)
        PROVE  UNCHANGED serverVars
    BY <1>5 DEF Select, Reload
  <1>6. ASSUME NEW v, NEW closes, Choose(v, closes)
        PROVE  UNCHANGED serverVars
    BY <1>6 DEF Choose
  <1>7. ASSUME NEW l, Fails(l)
        PROVE  UNCHANGED serverVars
    BY <1>7 DEF Fails
  <1>8. CASE QueueDelivers \/ DoneDelivers \/ WatchDelivers \/ RunsDelivered \/ ShowOlder \/ UNCHANGED vars
    BY <1>2, <1>8 DEF QueueDelivers, DoneDelivers, WatchDelivers, RunsDelivered, ShowOlder, vars
  <1> QED
    BY <1>2, <1>3, <1>4, <1>5, <1>6, <1>7, <1>8 DEF Next, Open, Back

LEMMA ChoiceTyped == ConsoleTypeOK /\ [Next]_vars => ChoiceTypes'
  <1> SUFFICES ASSUME ConsoleTypeOK, [Next]_vars
               PROVE  ChoiceTypes'
    OBVIOUS
  <1>1. ChoiceTypes /\ ListTypes /\ Arrived \subseteq Arrived'
    BY ConsoleParts, ServerTyped
  <1> USE <1>1 DEF ChoiceTypes
  <1>2. CASE UNCHANGED <<choiceVars, error, olderHidden, down>>
    BY <1>2 DEF choiceVars
  <1>3. ASSUME NEW m, UNCHANGED serverVars, m \in Arrived \cup {None}, Select(m)
        PROVE  ChoiceTypes'
    BY <1>3 DEF Select, listVars
  <1>4. CASE Open
    <2>1. PICK m \in Rows : Screen = "panes" /\ Select(m)
      BY <1>4 DEF Open
    <2>2. queue # None
      BY <2>1 DEF Screen
    <2>3. m \in Arrived
      <3>1. DoneMissions \subseteq Arrived /\ queue \subseteq Arrived
        BY <2>2 DEF DoneMissions, Settled, ListTypes
      <3>2. Rows \in {queue, DoneMissions, queue \cup DoneMissions}
        BY DEF Rows, Views
      <3> QED
        BY <2>1, <3>1, <3>2
    <2> QED
      BY <1>3, <2>1, <2>3 DEF Select
  <1>5. CASE Back
    BY <1>3, <1>5 DEF Back, Select
  <1>6. CASE QueueDelivers
    BY <1>6, PageWithin DEF QueueDelivers, QueuePage, choiceVars
  <1>7. CASE DoneDelivers
    BY <1>7 DEF DoneDelivers, choiceVars
  <1>8. ASSUME NEW l \in Listeners, Fails(l)
        PROVE  ChoiceTypes'
    BY <1>8 DEF Fails, Listeners, choiceVars, listVars
  <1>9. CASE ShowOlder
    <2>1. pages' = pages + 1 /\ pages < MaxPages /\ UNCHANGED <<selected, view>>
      BY <1>9 DEF ShowOlder
    <2>2. pages' \in 1..MaxPages
      BY <2>1
    <2>3. down' \subseteq down /\ UNCHANGED listVars
      BY <1>9 DEF ShowOlder
    <2> QED
      BY <2>1, <2>2, <2>3 DEF listVars
  <1>10. ASSUME NEW m \in Arrived \cup {None}, Reload(m)
         PROVE  ChoiceTypes'
    <2>1. 1 \in 1..MaxPages
      OBVIOUS
    <2>2. /\ selected' = m /\ view' = "queue" /\ pages' = 1
          /\ olderHidden' = FALSE /\ error' = FALSE /\ down' = {}
      BY <1>10 DEF Reload
    <2> QED
      BY <2>1, <2>2 DEF Views
  <1>11. ASSUME NEW v \in Views, NEW closes \in BOOLEAN, Choose(v, closes)
         PROVE  ChoiceTypes'
    <2>1. down' \subseteq down /\ UNCHANGED <<pages, listVars>> /\ view' = v
      BY <1>11 DEF Choose
    <2>2. selected' \in {selected, None}
      BY <1>11 DEF Choose
    <2> QED
      BY <2>1, <2>2 DEF listVars
  <1>12. CASE Submit \/ (\E m \in Missions : Move(m) \/ SoftDelete(m)) \/ WatchDelivers \/ RunsDelivered
              \/ UNCHANGED vars
    BY <1>2, <1>12 DEF Submit, Move, SoftDelete, WatchDelivers, RunsDelivered, vars, listVars
  <1> QED
    BY <1>4, <1>5, <1>6, <1>7, <1>8, <1>9, <1>10, <1>11, <1>12 DEF Next

LEMMA ListTyped == ConsoleTypeOK /\ [Next]_vars => ListTypes'
  <1> SUFFICES ASSUME ConsoleTypeOK, [Next]_vars
               PROVE  ListTypes'
    OBVIOUS
  <1>1. ListTypes /\ ChoiceTypes /\ Arrived \subseteq Arrived'
    BY ConsoleParts, ServerTyped
  <1> USE <1>1 DEF ListTypes
  <1>2. ASSUME queue' \in {queue, None}, done' \in {done, None}, pages' = pages
        PROVE  ListTypes'
    BY <1>2
  <1>3. CASE QueueDelivers
    BY <1>3, PageWithin DEF QueueDelivers, QueuePage, choiceVars
  <1>4. CASE DoneDelivers
    <2>1. DonePage.missions \subseteq Arrived
      BY PageWithin DEF DonePage
    <2>2. done' = [pages |-> pages, missions |-> DonePage.missions, more |-> DonePage.more]
          /\ UNCHANGED <<queue, choiceVars>>
      BY <1>4 DEF DoneDelivers
    <2> QED
      BY <2>1, <2>2 DEF choiceVars
  <1>5. CASE ShowOlder
    <2>1. pages' = pages + 1 /\ done # None /\ done.pages = pages /\ UNCHANGED listVars
      BY <1>5 DEF ShowOlder, Settled
    <2>2. done.pages = pages' - 1
      BY <2>1 DEF ChoiceTypes
    <2> QED
      BY <2>1, <2>2 DEF listVars
  <1>6. ASSUME NEW l \in Listeners, Fails(l)
        PROVE  ListTypes'
    BY <1>2, <1>6 DEF Fails, Listeners, choiceVars, listVars
  <1>7. ASSUME NEW m, Reload(m)
        PROVE  ListTypes'
    BY <1>7 DEF Reload
  <1>8. ASSUME NEW m, Select(m) \/ Move(m) \/ SoftDelete(m)
        PROVE  ListTypes'
    BY <1>2, <1>8 DEF Select, Move, SoftDelete, listVars, choiceVars
  <1>9. ASSUME NEW v, NEW closes, Choose(v, closes)
        PROVE  ListTypes'
    BY <1>2, <1>9 DEF Choose, listVars
  <1>10. CASE Submit \/ WatchDelivers \/ RunsDelivered \/ UNCHANGED vars
    BY <1>2, <1>10 DEF Submit, WatchDelivers, RunsDelivered, vars, listVars, choiceVars
  <1> QED
    BY <1>3, <1>4, <1>5, <1>6, <1>7, <1>8, <1>9, <1>10 DEF Next, Open, Back

LEMMA PaneTyped == ConsoleTypeOK /\ [Next]_vars => PaneTypes'
  <1> SUFFICES ASSUME ConsoleTypeOK, [Next]_vars
               PROVE  PaneTypes'
    OBVIOUS
  <1>1. PaneTypes /\ ChoiceTypes /\ Arrived \subseteq Arrived'
    BY ConsoleParts, ServerTyped
  <1> USE <1>1 DEF PaneTypes
  <1>2. ASSUME watched' \in {watched, None}, runsFor' \in {runsFor, None, selected}
        PROVE  PaneTypes'
    BY <1>2 DEF ChoiceTypes
  <1>3. CASE WatchDelivers
    <2>1. watched' = [id |-> selected, mission |-> IF selected \in deleted THEN None ELSE selected]
          /\ runsFor' = runsFor /\ selected # None
      BY <1>3 DEF WatchDelivers
    <2>2. watched'.id = selected /\ watched'.mission \in {selected, None} /\ selected \in Arrived
      BY <2>1 DEF ChoiceTypes
    <2> QED
      BY <2>1, <2>2
  <1>4. CASE RunsDelivered
    BY <1>2, <1>4 DEF RunsDelivered
  <1>5. ASSUME NEW l \in Listeners, Fails(l)
        PROVE  PaneTypes'
    BY <1>2, <1>5 DEF Fails, Listeners, paneVars
  <1>6. ASSUME NEW m, Select(m) \/ Move(m) \/ SoftDelete(m) \/ Reload(m)
        PROVE  PaneTypes'
    BY <1>2, <1>6 DEF Select, Move, SoftDelete, Reload, paneVars
  <1>7. ASSUME NEW v, NEW closes, Choose(v, closes)
        PROVE  PaneTypes'
    BY <1>2, <1>7 DEF Choose, paneVars
  <1>8. CASE Submit \/ QueueDelivers \/ DoneDelivers \/ ShowOlder \/ UNCHANGED vars
    BY <1>2, <1>8 DEF Submit, QueueDelivers, DoneDelivers, ShowOlder, vars, paneVars
  <1> QED
    BY <1>3, <1>4, <1>5, <1>6, <1>7, <1>8 DEF Next, Open, Back

(* The lists, the choice and the pane are always about missions that       *)
(* exist, and the settled list on screen is at most one page behind the    *)
(* pages asked for (MissionQueue's donePages and doneFor).                 *)
THEOREM ConsoleTypeCorrect == Spec => []ConsoleTypeOK
  <1>1. Init => ConsoleTypeOK
    <2>1. 1 \in 1..MaxPages
      OBVIOUS
    <2> QED
      BY <2>1 DEF Init, ConsoleTypeOK, Arrived, Views
  <1>2. ConsoleTypeOK /\ [Next]_vars => ConsoleTypeOK'
    <2>1. (ConsoleTypeOK <=> ServerTypes /\ ChoiceTypes /\ ListTypes /\ PaneTypes)'
      BY DEF ConsoleTypeOK, ServerTypes, ChoiceTypes, ListTypes, PaneTypes
    <2> QED
      BY <2>1, ServerTyped, ChoiceTyped, ListTyped, PaneTyped
  <1> QED
    BY <1>1, <1>2, PTL DEF Spec

-----------------------------------------------------------------------------
(* The reports the consoles act on.                                        *)

(* The instructions that ended without an error.                           *)
Clean == {i \in DOMAIN instructions : instructions[i].result = "completed"}

Sent == [mission : YardMissions, attempt : Nat, result : {"waiting", "completed", "error"}]

ReportTypes ==
  /\ instructions \in Seq(Sent)
  /\ attempt \in [YardMissions -> Nat]
  /\ DOMAIN closedBy = YardMissions
  /\ DOMAIN pass = Pages /\ DOMAIN toDo = Pages
  /\ DOMAIN page = Pages /\ DOMAIN reported = Pages /\ DOMAIN answered = Pages
  /\ DOMAIN stored = Browsers /\ DOMAIN kept = Browsers
  /\ posted \subseteq [page : Pages \cup {Nobody}, id : Nat]

(* What a console knows is recorded is among what it acted on, and its     *)
(* poll's list has nothing of that; what a browser kept is in its storage, *)
(* and each of its consoles in use has read it.                            *)
SpentInv ==
  /\ \A p \in Pages : /\ answered[p] \subseteq reported[p]
                      /\ toDo[p] \cap reported[p] = {}
                      /\ pass[p] = "idle" => toDo[p] = {}
                      /\ InUse(p) => kept[BrowserOf[p]] \subseteq answered[p]
  /\ \A b \in Browsers : kept[b] \subseteq stored[b]

(* What is posted for a page that is still there is on its list, and the   *)
(* page waits for that one answer.                                         *)
PostedInv ==
  \A r \in posted : r.page # Nobody =>
    /\ pass[r.page] = "waiting"
    /\ r.id \in toDo[r.page]
    /\ \A q \in posted : q.page = r.page => q = r

(* Only clean finishes are on a list, posted or recorded.                  *)
CleanInv ==
  /\ \A p \in Pages : toDo[p] \subseteq Clean
  /\ \A r \in posted : r.id \in Clean
  /\ \A m \in YardMissions : closedBy[m] # Nobody =>
       closedBy[m] \in Clean /\ instructions[closedBy[m]].mission = m

ReportsInv == ReportTypes /\ SpentInv /\ PostedInv /\ CleanInv

LEMMA ReportsTyped == ReportsInv /\ [ReportsNext]_reportVars => ReportTypes'
  <1> SUFFICES ASSUME ReportsInv, [ReportsNext]_reportVars
               PROVE  ReportTypes'
    OBVIOUS
  <1> USE DEF ReportsInv, ReportTypes
  <1>1. ASSUME NEW m \in YardMissions, Send(m)
        PROVE  ReportTypes'
    <2>1. attempt[m] \in Nat
      OBVIOUS
    <2>2. instructions' \in Seq(Sent)
      BY <1>1, <2>1 DEF Send, Sent
    <2> QED
      BY <1>1, <2>2 DEF Send, attemptVars, passVars, memoryVars
  <1>2. ASSUME NEW result \in {"completed", "error"}, End(result)
        PROVE  ReportTypes'
    <2>1. instructions' \in Seq(Sent)
      <3>1. PICK i \in DOMAIN instructions :
              instructions' = [instructions EXCEPT ![i] = [instructions[i] EXCEPT !.result = result]]
        BY <1>2 DEF End
      <3>2. instructions[i] \in Sent
        OBVIOUS
      <3>3. [instructions[i] EXCEPT !.result = result] \in Sent
        BY <3>2 DEF Sent
      <3> QED
        BY <3>1, <3>3
    <2> QED
      BY <1>2, <2>1 DEF End, attemptVars, passVars, memoryVars
  <1>3. ASSUME NEW m \in YardMissions, CloseByHand(m) \/ LogAnotherRun(m)
        PROVE  ReportTypes'
    <2>1. CASE CloseByHand(m)
      BY <2>1 DEF CloseByHand, yardVars, passVars, memoryVars
    <2>2. CASE LogAnotherRun(m)
      BY <2>2 DEF LogAnotherRun, yardVars, passVars, memoryVars
    <2> QED
      BY <1>3, <2>1, <2>2
  <1>4. CASE Serve
    BY <1>4 DEF Serve, Recorded, Told, attemptVars, yardVars, memoryVars
  <1>5. CASE ServeFails
    BY <1>5 DEF ServeFails, Told, attemptVars, yardVars, memoryVars
  <1>6. ASSUME NEW p \in Pages, PageWorks(p)
        PROVE  ReportTypes'
    <2>1. CASE Post(p)
      BY <2>1 DEF Post, Told, yardVars, attemptVars, memoryVars, CleanInv, Clean
    <2>2. CASE Answer(p)
      BY <2>2 DEF Answer, Save, Told, yardVars, attemptVars
    <2>3. CASE Deliver(p) \/ Poll(p) \/ Ask(p) \/ Read(p) \/ PassEnds(p)
      BY <2>3 DEF Deliver, Poll, Ask, Read, PassEnds, Over, Told,
         yardVars, attemptVars, passVars, memoryVars
    <2> QED
      BY <1>6, <2>1, <2>2, <2>3 DEF PageWorks
  <1>7. ASSUME NEW p \in Pages, Drop(p)
        PROVE  ReportTypes'
    <2>1. ASSUME NEW r \in posted'
          PROVE  r \in [page : Pages \cup {Nobody}, id : Nat]
      <3>1. r \in posted \/ \E q \in posted : r = [q EXCEPT !.page = Nobody]
        BY <1>7, <2>1 DEF Drop
      <3> QED
        BY <3>1
    <2> QED
      BY <1>7, <2>1 DEF Drop, Over, Told, yardVars, attemptVars, memoryVars
  <1>8. ASSUME NEW p \in Pages, Operator(p)
        PROVE  ReportTypes'
    <2>1. ASSUME NEW r \in posted'
          PROVE  r \in [page : Pages \cup {Nobody}, id : Nat]
      <3>1. r \in posted \/ \E q \in posted : r = [q EXCEPT !.page = Nobody]
        <4>1. CASE Leave(p)
          <5>1. PICK q \in posted : r = IF q.page = p THEN [q EXCEPT !.page = Nobody] ELSE q
            BY <2>1, <4>1 DEF Leave
          <5> QED
            BY <5>1
        <4>2. CASE Unmount(p) \/ Return(p) \/ Hide(p) \/ Show(p)
          BY <2>1, <4>2 DEF Unmount, Return, Hide, Show
        <4> QED
          BY <1>8, <4>1, <4>2 DEF Operator
      <3> QED
        BY <3>1
    <2> QED
      BY <1>8, <2>1 DEF Operator, Leave, Unmount, Return, Hide, Show,
         Over, Told, yardVars, attemptVars, passVars, memoryVars
  <1>9. ASSUME AtTheBrowser \/ \E p \in Pages : ListenerFails(p)
        PROVE  ReportTypes'
    BY <1>9 DEF AtTheBrowser, Grant, Revoke, ListenerFails, yardVars, attemptVars, passVars, memoryVars
  <1>10. CASE UNCHANGED reportVars
    BY <1>10 DEF reportVars, yardVars, attemptVars, passVars, memoryVars
  <1> QED
    BY <1>1, <1>2, <1>3, <1>4, <1>5, <1>6, <1>7, <1>8, <1>9, <1>10
    DEF ReportsNext, AtTheYard, AtTheDesk, PageFails

(* An instruction that ended stays as it ended, and keeps its mission.     *)
LEMMA CleanStays ==
  ASSUME ReportsInv, [ReportsNext]_reportVars, NEW i \in Clean
  PROVE  i \in Clean' /\ instructions'[i].mission = instructions[i].mission
  <1> USE DEF Clean, ReportsInv, ReportTypes
  <1>1. CASE instructions' = instructions
    BY <1>1
  <1>2. ASSUME NEW m \in YardMissions, Send(m)
        PROVE  i \in Clean' /\ instructions'[i].mission = instructions[i].mission
    BY <1>2 DEF Send
  <1>3. ASSUME NEW result \in {"completed", "error"}, End(result)
        PROVE  i \in Clean' /\ instructions'[i].mission = instructions[i].mission
    BY <1>3 DEF End, Ended
  <1>4. ASSUME \/ \E m \in YardMissions : CloseByHand(m) \/ LogAnotherRun(m)
               \/ Serve \/ ServeFails \/ AtTheBrowser
               \/ \E p \in Pages : PageWorks(p) \/ PageFails(p) \/ Operator(p)
               \/ UNCHANGED reportVars
        PROVE  instructions' = instructions
    BY <1>4 DEF CloseByHand, LogAnotherRun, Serve, ServeFails, AtTheBrowser, Grant, Revoke,
       PageWorks, Deliver, Poll, Ask, Read, Post, PassEnds, Answer,
       PageFails, ListenerFails, Drop, Operator, Leave, Unmount, Return, Hide, Show,
       reportVars, yardVars
  <1> QED
    BY <1>1, <1>2, <1>3, <1>4 DEF ReportsNext, AtTheYard, AtTheDesk

(* A console comes into use only by opening.                               *)
LEMMA UsedBefore ==
  ASSUME ReportsInv, [ReportsNext]_reportVars, NEW p \in Pages, InUse(p)', ~Return(p)
  PROVE  InUse(p)
  <1> USE DEF ReportsInv, ReportTypes
  <1>1. CASE UNCHANGED <<page, pass>>
    BY <1>1 DEF InUse
  <1>2. ASSUME NEW q \in Pages, PageWorks(q) \/ Drop(q)
        PROVE  InUse(p)
    <2>1. page' = page
      BY <1>2 DEF PageWorks, Deliver, Poll, Ask, Read, Post, PassEnds, Answer, Drop
    <2>2. page[q] # "away" \/ pass[q] # "idle"
      BY <1>2 DEF PageWorks, Deliver, Poll, Ask, Read, Post, PassEnds, Answer, Drop
    <2>3. pass' = pass \/ \E what : pass' = [pass EXCEPT ![q] = what]
      BY <1>2 DEF PageWorks, Deliver, Poll, Ask, Read, Post, PassEnds, Answer, Drop, Over, Told, passVars
    <2> QED
      BY <2>1, <2>2, <2>3 DEF InUse
  <1>3. ASSUME NEW q \in Pages, Operator(q), q # p
        PROVE  InUse(p)
    <2>1. /\ pass' = pass \/ pass' = [pass EXCEPT ![q] = "idle"]
          /\ \E what : page' = [page EXCEPT ![q] = what]
      BY <1>3 DEF Operator, Leave, Unmount, Return, Hide, Show, Over, Told, passVars
    <2> QED
      BY <1>3, <2>1 DEF InUse
  <1>4. CASE Operator(p)
    BY <1>4 DEF Operator, Leave, Unmount, Hide, Show, InUse
  <1>5. CASE Serve \/ ServeFails
    <2>1. PICK request \in posted :
            pass' = pass \/ (request.page # Nobody /\ \E what : pass' = [pass EXCEPT ![request.page] = what])
      BY <1>5 DEF Serve, ServeFails, Told
    <2>2. request.page # Nobody => pass[request.page] = "waiting"
      BY DEF PostedInv
    <2>3. page' = page
      BY <1>5 DEF Serve, ServeFails
    <2> QED
      BY <2>1, <2>2, <2>3 DEF InUse
  <1>6. ASSUME AtTheYard \/ AtTheDesk \/ AtTheBrowser \/ (\E q \in Pages : ListenerFails(q))
               \/ UNCHANGED reportVars
        PROVE  InUse(p)
    BY <1>1, <1>6 DEF AtTheYard, Send, End, AtTheDesk, CloseByHand, LogAnotherRun, AtTheBrowser, Grant,
       Revoke, ListenerFails, passVars, reportVars
  <1> QED
    BY <1>2, <1>3, <1>4, <1>5, <1>6 DEF ReportsNext, PageFails

(* What a step does to the lists, the memories and the storage.            *)
LEMMA SpentStep == ReportsInv /\ [ReportsNext]_reportVars => SpentInv'
  <1> SUFFICES ASSUME ReportsInv, [ReportsNext]_reportVars
               PROVE  SpentInv'
    OBVIOUS
  <1> USE ReportsAssumption DEF ReportsInv, ReportTypes, SpentInv
  <1>1. ASSUME UNCHANGED memoryVars, \A p \in Pages : ~Return(p),
               \A p \in Pages : \/ toDo'[p] = {}
                                \/ toDo'[p] \cap reported[p] = {} /\ pass'[p] # "idle"
        PROVE  SpentInv'
    BY <1>1, UsedBefore DEF memoryVars
  <1>2. ASSUME UNCHANGED <<memoryVars, passVars>>, \A p \in Pages : ~Return(p)
        PROVE  SpentInv'
    BY <1>1, <1>2 DEF passVars
  <1>3. ASSUME NEW p \in Pages, UNCHANGED memoryVars, \A q \in Pages : ~Return(q),
               \A q \in Pages \ {p} : toDo'[q] = toDo[q] /\ pass'[q] = pass[q],
               toDo'[p] = {} \/ (toDo'[p] \cap reported[p] = {} /\ pass'[p] # "idle")
        PROVE  SpentInv'
    BY <1>1, <1>3
  <1>4. ASSUME NEW p \in Pages, Read(p)
        PROVE  SpentInv'
    <2>1. MissionsTheRoverFinished(p) \cap reported[p] = {}
      BY DEF MissionsTheRoverFinished, Fresh
    <2>2. /\ toDo' = [toDo EXCEPT ![p] = MissionsTheRoverFinished(p)]
          /\ pass' = [pass EXCEPT ![p] = "next"]
          /\ UNCHANGED <<memoryVars, page>>
      BY <1>4 DEF Read, Told
    <2>3. \A q \in Pages : ~Return(q)
      BY <1>4, <2>2 DEF Return, Read, InUse, passVars
    <2> QED
      BY <1>3, <2>1, <2>2, <2>3
  <1>5. ASSUME NEW p \in Pages, Answer(p)
        PROVE  SpentInv'
    <2>1. /\ pass[p] \in {"ok", "refused", "failed"} /\ page' = page
          /\ pass' = [pass EXCEPT ![p] = "next"]
          /\ InUse(p)
      BY <1>5 DEF Answer, Told, InUse
    <2>2. \A q \in Pages : ~Return(q)
      BY <2>1 DEF Return, passVars
    <2>3. \A q \in Pages : InUse(q)' => InUse(q)
      BY <2>2, UsedBefore
    <2>4. CASE pass[p] = "failed"
      <3>1. UNCHANGED <<reported, stored, answered, kept>> /\ \E i : toDo' = [toDo EXCEPT ![p] = @ \ {i}]
        BY <1>5, <2>4 DEF Answer, Spent
      <3> QED
        BY <2>1, <2>3, <3>1
    <2>5. CASE pass[p] \in {"ok", "refused"}
      <3> DEFINE b == BrowserOf[p]
      <3>1. PICK i : /\ reported' = [reported EXCEPT ![p] = @ \cup {i}]
                     /\ stored' = [stored EXCEPT ![b] = reported'[p]] \/ stored' = stored
                     /\ answered' = [answered EXCEPT ![p] = @ \cup {i}]
                     /\ \/ kept' = kept
                        \/ i \in stored'[b] /\ Alone(p) /\ kept' = [kept EXCEPT ![b] = @ \cup {i}]
                     /\ toDo' = [toDo EXCEPT ![p] = @ \ {i}]
        BY <1>5, <2>5 DEF Answer, Save, Spent
      <3>2. b \in Browsers /\ kept[b] \subseteq answered[p]
        BY <2>1
      <3>3. \A c \in Browsers : kept'[c] \subseteq stored'[c]
        BY <3>1, <3>2
      <3>4. ASSUME NEW q \in Pages
            PROVE  /\ answered'[q] \subseteq reported'[q]
                   /\ toDo'[q] \cap reported'[q] = {}
                   /\ pass'[q] = "idle" => toDo'[q] = {}
        BY <2>1, <3>1
      <3>5. ASSUME NEW q \in Pages, InUse(q)'
            PROVE  kept'[BrowserOf[q]] \subseteq answered'[q]
        <4>1. kept[BrowserOf[q]] \subseteq answered[q] /\ InUse(q)
          BY <2>3, <3>5
        <4>2. CASE q = p
          BY <3>1, <3>2, <4>1, <4>2
        <4>3. CASE q # p
          <5>1. answered'[q] = answered[q]
            BY <3>1, <4>3
          <5>2. kept'[BrowserOf[q]] = kept[BrowserOf[q]]
            BY <3>1, <4>1, <4>3 DEF Alone
          <5> QED
            BY <4>1, <5>1, <5>2
        <4> QED
          BY <4>2, <4>3
      <3> QED
        BY <3>3, <3>4, <3>5
    <2> QED
      BY <2>1, <2>4, <2>5
  <1>6. ASSUME NEW p \in Pages, Return(p)
        PROVE  SpentInv'
    <2>1. /\ pass[p] = "idle" /\ UNCHANGED <<pass, toDo, stored, kept>>
          /\ page' = [page EXCEPT ![p] = "shown"]
          /\ reported' = [reported EXCEPT ![p] = stored[BrowserOf[p]]]
          /\ answered' = [answered EXCEPT ![p] = kept[BrowserOf[p]]]
      BY <1>6 DEF Return, InUse, passVars
    <2>2. \A q \in Pages \ {p} : InUse(q)' => InUse(q)
      BY <2>1 DEF InUse
    <2>3. BrowserOf[p] \in Browsers
      OBVIOUS
    <2> QED
      BY <2>1, <2>2, <2>3
  <1>7. ASSUME NEW p \in Pages, Drop(p) \/ Leave(p) \/ PassEnds(p) \/ (Ask(p) /\ Over(p))
        PROVE  SpentInv'
    <2>1. /\ toDo' = [toDo EXCEPT ![p] = {}] /\ pass' = [pass EXCEPT ![p] = "idle"]
          /\ UNCHANGED memoryVars
      BY <1>7 DEF Drop, Leave, PassEnds, Ask, Over, Told
    <2>2. \A q \in Pages : ~Return(q)
      <3>1. CASE Leave(p)
        BY <3>1 DEF Leave, Return
      <3>2. CASE Drop(p) \/ PassEnds(p) \/ Ask(p)
        BY <2>1, <3>2 DEF Drop, PassEnds, Ask, Return, passVars
      <3> QED
        BY <1>7, <3>1, <3>2
    <2> QED
      BY <1>3, <2>1, <2>2
  <1>8. ASSUME NEW p \in Pages, Poll(p) \/ Post(p) \/ (Ask(p) /\ toDo' = toDo /\ Told(p, "reading"))
        PROVE  SpentInv'
    <2>1. /\ \E what \in {"asking", "waiting", "reading"} : pass' = [pass EXCEPT ![p] = what]
          /\ UNCHANGED <<memoryVars, toDo, page>>
      BY <1>8 DEF Poll, Post, Ask, Told
    <2>2. \A q \in Pages : ~Return(q)
      BY <2>1 DEF Return, InUse
    <2> QED
      BY <1>3, <2>1, <2>2
  <1>9. ASSUME NEW p \in Pages, Deliver(p) \/ ListenerFails(p) \/ Unmount(p) \/ Hide(p) \/ Show(p)
        PROVE  SpentInv'
    <2>1. UNCHANGED <<memoryVars, passVars>>
      BY <1>9 DEF Deliver, ListenerFails, Unmount, Hide, Show
    <2>2. ASSUME NEW q \in Pages, Return(q)
          PROVE  FALSE
      BY <1>9, <2>2 DEF Deliver, ListenerFails, Unmount, Hide, Show, Return, InUse
    <2> QED
      BY <1>2, <2>1, <2>2
  <1>10. CASE AtTheYard \/ AtTheDesk \/ AtTheBrowser \/ UNCHANGED reportVars
    <2>1. UNCHANGED <<memoryVars, passVars, page>>
      BY <1>10 DEF AtTheYard, Send, End, AtTheDesk, CloseByHand, LogAnotherRun, AtTheBrowser, Grant, Revoke,
         reportVars
    <2>2. \A q \in Pages : ~Return(q)
      BY <2>1 DEF Return, InUse
    <2> QED
      BY <1>2, <2>1, <2>2
  <1>11. CASE Serve \/ ServeFails
    <2>1. UNCHANGED <<memoryVars, toDo, page>>
      BY <1>11 DEF Serve, ServeFails
    <2>2. \A q \in Pages : ~Return(q)
      BY <2>1 DEF Return, InUse
    <2>3. PICK request \in posted :
            \/ pass' = pass
            \/ request.page # Nobody /\ \E what \in {"ok", "refused", "failed"} :
                                         pass' = [pass EXCEPT ![request.page] = what]
      BY <1>11 DEF Serve, ServeFails, Told
    <2> QED
      BY <1>1, <2>1, <2>2, <2>3
  <1>12. ASSUME NEW p \in Pages, Ask(p)
         PROVE  SpentInv'
    BY <1>7, <1>8, <1>12 DEF Ask
  <1> QED
    BY <1>4, <1>5, <1>6, <1>7, <1>8, <1>9, <1>10, <1>11, <1>12
    DEF ReportsNext, PageWorks, PageFails, Operator

(* A request stays answered for by its page, or its page has gone.         *)
LEMMA PostedStep == ReportsInv /\ [ReportsNext]_reportVars => PostedInv'
  <1> SUFFICES ASSUME ReportsInv, [ReportsNext]_reportVars
               PROVE  PostedInv'
    OBVIOUS
  <1> USE DEF ReportsInv, ReportTypes, PostedInv
  <1>1. CASE UNCHANGED <<posted, pass, toDo>>
    BY <1>1
  <1>2. ASSUME NEW p \in Pages, pass[p] # "waiting", posted' = posted,
               \A q \in Pages : q # p => pass'[q] = pass[q] /\ toDo'[q] = toDo[q]
        PROVE  PostedInv'
    <2>1. ASSUME NEW r \in posted, r.page # Nobody
          PROVE  r.page \in Pages /\ r.page # p
      BY <1>2, <2>1
    <2> QED
      BY <1>2, <2>1
  <1>3. ASSUME NEW p \in Pages,
               Poll(p) \/ Ask(p) \/ Read(p) \/ PassEnds(p) \/ Answer(p)
        PROVE  PostedInv'
    <2>1. pass[p] # "waiting" /\ posted' = posted
      BY <1>3 DEF Poll, Ask, Read, PassEnds, Answer
    <2>2. /\ \E what : pass' = [pass EXCEPT ![p] = what]
          /\ toDo' = toDo \/ \E ids : toDo' = [toDo EXCEPT ![p] = ids]
      BY <1>3 DEF Poll, Ask, Read, PassEnds, Answer, Over, Told
    <2> QED
      BY <1>2, <2>1, <2>2
  <1>4. ASSUME NEW p \in Pages, Post(p)
        PROVE  PostedInv'
    <2>1. PICK i \in toDo[p] : posted' = posted \cup {[page |-> p, id |-> i]}
      BY <1>4 DEF Post
    <2>2. pass[p] = "next" /\ pass' = [pass EXCEPT ![p] = "waiting"] /\ toDo' = toDo
      BY <1>4 DEF Post, Told
    <2>3. ASSUME NEW r \in posted, r.page # Nobody
          PROVE  r.page \in Pages /\ r.page # p
      BY <2>2, <2>3
    <2> QED
      BY <2>1, <2>2, <2>3
  <1>5. CASE Serve \/ ServeFails
    <2>1. PICK request \in posted :
            /\ posted' = posted \ {request}
            /\ IF request.page = Nobody THEN pass' = pass
               ELSE \E what : pass' = [pass EXCEPT ![request.page] = what]
      BY <1>5 DEF Serve, ServeFails, Told
    <2>2. toDo' = toDo
      BY <1>5 DEF Serve, ServeFails
    <2>3. ASSUME NEW r \in posted', r.page # Nobody
          PROVE  r \in posted /\ r.page \in Pages /\ pass'[r.page] = pass[r.page]
      <3>1. r \in posted /\ r # request /\ r.page \in Pages
        BY <2>1, <2>3
      <3>2. request.page # Nobody => r.page # request.page
        BY <2>3, <3>1
      <3> QED
        BY <2>1, <3>1, <3>2
    <2> QED
      BY <2>1, <2>2, <2>3
  <1>6. ASSUME NEW p \in Pages, Drop(p) \/ Leave(p)
        PROVE  PostedInv'
    <2>1. pass' = [pass EXCEPT ![p] = "idle"] /\ toDo' = [toDo EXCEPT ![p] = {}]
      BY <1>6 DEF Drop, Leave, Over, Told
    <2>2. ASSUME NEW r \in posted', r.page # Nobody
          PROVE  r \in posted /\ r.page # p
      <3>1. CASE Drop(p)
        <4>1. (r \in posted /\ r.page # p) \/ \E q \in posted : r = [q EXCEPT !.page = Nobody]
          BY <2>2, <3>1 DEF Drop
        <4> QED
          BY <2>2, <4>1
      <3>2. CASE Leave(p)
        <4>1. PICK q \in posted : r = IF q.page = p THEN [q EXCEPT !.page = Nobody] ELSE q
          BY <2>2, <3>2 DEF Leave
        <4> QED
          BY <2>2, <4>1
      <3> QED
        BY <1>6, <3>1, <3>2
    <2> QED
      BY <2>1, <2>2
  <1>7. ASSUME NEW p \in Pages,
               Deliver(p) \/ ListenerFails(p) \/ Unmount(p) \/ Return(p) \/ Hide(p) \/ Show(p)
        PROVE  PostedInv'
    BY <1>1, <1>7 DEF Deliver, ListenerFails, Unmount, Return, Hide, Show, passVars
  <1>8. CASE AtTheYard \/ AtTheDesk \/ AtTheBrowser
    BY <1>1, <1>8 DEF AtTheBrowser, Grant, Revoke, AtTheYard, Send, End, AtTheDesk, CloseByHand,
       LogAnotherRun, passVars
  <1>9. CASE UNCHANGED reportVars
    BY <1>1, <1>9 DEF reportVars, passVars
  <1> QED
    BY <1>3, <1>4, <1>5, <1>6, <1>7, <1>8, <1>9
    DEF ReportsNext, PageWorks, PageFails, Operator

(* What is new on a list, in a post or in a mission came from a clean one. *)
LEMMA CleanStep == ReportsInv /\ [ReportsNext]_reportVars => CleanInv'
  <1> SUFFICES ASSUME ReportsInv, [ReportsNext]_reportVars
               PROVE  CleanInv'
    OBVIOUS
  <1> USE DEF ReportsInv, ReportTypes, CleanInv
  <1>1. ASSUME \A p \in Pages : toDo'[p] \subseteq Clean, \A r \in posted' : r.id \in Clean,
               \A m \in YardMissions : closedBy'[m] # Nobody =>
                 closedBy'[m] \in Clean /\ instructions[closedBy'[m]].mission = m
        PROVE  CleanInv'
    BY <1>1, CleanStays
  <1>2. ASSUME NEW p \in Pages, toDo'[p] \subseteq Clean, \A q \in Pages : q # p => toDo'[q] = toDo[q],
               UNCHANGED closedBy, \A r \in posted' : \E q \in posted : r.id = q.id
        PROVE  CleanInv'
    BY <1>1, <1>2
  <1>3. ASSUME NEW p \in Pages, Read(p)
        PROVE  CleanInv'
    <2>1. MissionsTheRoverFinished(p) \subseteq Clean
      BY DEF MissionsTheRoverFinished, Fresh, History, Ended, Clean
    <2>2. toDo' = [toDo EXCEPT ![p] = MissionsTheRoverFinished(p)]
          /\ UNCHANGED <<closedBy, posted>>
      BY <1>3 DEF Read, attemptVars
    <2> QED
      BY <1>2, <2>1, <2>2
  <1>4. ASSUME NEW p \in Pages, Post(p)
        PROVE  CleanInv'
    <2>1. PICK i \in toDo[p] : posted' = posted \cup {[page |-> p, id |-> i]}
      BY <1>4 DEF Post
    <2>2. UNCHANGED <<closedBy, toDo>>
      BY <1>4 DEF Post, attemptVars
    <2> QED
      BY <1>1, <2>1, <2>2
  <1>5. ASSUME NEW p \in Pages, Answer(p)
        PROVE  CleanInv'
    <2>1. UNCHANGED <<closedBy, posted>> /\ \E i : toDo' = [toDo EXCEPT ![p] = @ \ {i}]
      BY <1>5 DEF Answer, attemptVars
    <2> QED
      BY <1>2, <2>1
  <1>6. ASSUME NEW p \in Pages, Drop(p) \/ Leave(p) \/ PassEnds(p)
        PROVE  CleanInv'
    <2>1. toDo' = [toDo EXCEPT ![p] = {}] /\ closedBy' = closedBy
      BY <1>6 DEF Drop, Leave, PassEnds, Over, attemptVars
    <2>2. ASSUME NEW r \in posted'
          PROVE  \E q \in posted : r.id = q.id
      <3>1. r \in posted \/ \E q \in posted : r = [q EXCEPT !.page = Nobody]
        <4>1. CASE Leave(p)
          <5>1. PICK q \in posted : r = IF q.page = p THEN [q EXCEPT !.page = Nobody] ELSE q
            BY <2>2, <4>1 DEF Leave
          <5> QED
            BY <5>1
        <4>2. CASE Drop(p) \/ PassEnds(p)
          BY <2>2, <4>2 DEF Drop, PassEnds
        <4> QED
          BY <1>6, <4>1, <4>2
      <3> QED
        BY <3>1
    <2> QED
      BY <1>2, <2>1, <2>2
  <1>7. CASE Serve
    <2>1. PICK request \in posted : posted' = posted \ {request} /\ Recorded(request.id)
      BY <1>7 DEF Serve
    <2>2. \/ closedBy' = closedBy
          \/ closedBy' = [closedBy EXCEPT ![instructions[request.id].mission] = request.id]
      BY <2>1 DEF Recorded, attemptVars
    <2>3. toDo' = toDo /\ request.id \in Clean
      BY <1>7, <2>1 DEF Serve
    <2> QED
      BY <1>1, <2>1, <2>2, <2>3
  <1>8. CASE ServeFails
    <2>1. posted' \subseteq posted /\ UNCHANGED <<closedBy, toDo>>
      BY <1>8 DEF ServeFails, attemptVars
    <2> QED
      BY <1>1, <2>1
  <1>9. ASSUME NEW m \in YardMissions, LogAnotherRun(m)
        PROVE  CleanInv'
    <2>1. closedBy' = [closedBy EXCEPT ![m] = Nobody] /\ UNCHANGED <<toDo, posted>>
      BY <1>9 DEF LogAnotherRun, passVars
    <2> QED
      BY <1>1, <2>1
  <1>10. CASE UNCHANGED <<toDo, posted, closedBy>>
    BY <1>1, <1>10
  <1>11. ASSUME NEW p \in Pages,
                Deliver(p) \/ ListenerFails(p) \/ Poll(p) \/ Unmount(p) \/ Return(p) \/ Hide(p) \/ Show(p)
         PROVE  CleanInv'
    BY <1>10, <1>11 DEF Deliver, ListenerFails, Poll, Unmount, Return, Hide, Show,
       passVars, attemptVars
  <1>12. ASSUME AtTheBrowser \/ AtTheYard \/ (\E m \in YardMissions : CloseByHand(m))
         PROVE  CleanInv'
    BY <1>10, <1>12 DEF AtTheBrowser, Grant, Revoke, AtTheYard, Send, End, CloseByHand,
       passVars, attemptVars
  <1>13. CASE UNCHANGED reportVars
    BY <1>10, <1>13 DEF reportVars, passVars, attemptVars
  <1>14. ASSUME NEW p \in Pages, Ask(p)
         PROVE  CleanInv'
    <2>1. UNCHANGED <<closedBy, posted>> /\ (toDo' = toDo \/ toDo' = [toDo EXCEPT ![p] = {}])
      BY <1>14 DEF Ask, Over, attemptVars
    <2> QED
      BY <1>2, <2>1
  <1> QED
    BY <1>3, <1>4, <1>5, <1>6, <1>7, <1>8, <1>9, <1>11, <1>12, <1>13, <1>14
    DEF ReportsNext, AtTheDesk, PageWorks, PageFails, Operator

LEMMA ReportsStart == ReportsInit => ReportsInv
  BY ReportsAssumption DEF ReportsInit, ReportsInv, ReportTypes, SpentInv, PostedInv, CleanInv, Clean

LEMMA ReportsStep == ReportsInv /\ [ReportsNext]_reportVars => ReportsInv'
  BY ReportsTyped, SpentStep, PostedStep, CleanStep DEF ReportsInv

LEMMA ReportsInvariant == ReportsSpec => []ReportsInv
  BY ReportsStart, ReportsStep, PTL DEF ReportsSpec

(* A report a console was told is recorded is not posted from it again,    *)
(* nor, once the browser kept it and no other console of that browser was  *)
(* in use to overwrite it, from any console opened there later             *)
(* (useRoverReportedCompletions, roverReports).                            *)
THEOREM AnsweredIsSpent == ReportsSpec => []AnsweredReportIsSpent
  <1>1. ReportsInv => AnsweredReportIsSpent
    BY DEF ReportsInv, ReportTypes, SpentInv, PostedInv, AnsweredReportIsSpent
  <1> QED
    BY <1>1, ReportsInvariant, PTL

(* An attempt the rover's report closed was closed by an instruction of    *)
(* that mission which ended without an error (missionsTheRoverFinished).   *)
THEOREM CleanFinishCompletes == ReportsSpec => []OnlyACleanFinishCompletes
  <1>1. ReportsInv => OnlyACleanFinishCompletes
    BY DEF ReportsInv, CleanInv, Clean, OnlyACleanFinishCompletes
  <1> QED
    BY <1>1, ReportsInvariant, PTL
-----------------------------------------------------------------------------
(* The types of all of it, the bounds included.                            *)

YardTypes ==
  /\ instructions \in Seq(Instruction) /\ Len(instructions) <= MaxInstructions
  /\ attempt \in [YardMissions -> 1..MaxAttempts]
  /\ closed \in [YardMissions -> BOOLEAN]
  /\ closedBy \in [YardMissions -> Ids \cup {Nobody}]
  /\ faults \in 0..MaxFaults

PageTypes ==
  /\ page \in [Pages -> {"away", "hidden", "shown"}]
  /\ missionsRef \in [Pages -> SUBSET YardMissions] /\ snapshot \in [Pages -> SUBSET YardMissions]
  /\ listening \subseteq Pages /\ granted \subseteq Browsers
  /\ pass \in [Pages -> Passes]

(* Once a completion is posted its report, the oldest of the list, stays   *)
(* on it until the answer has been dealt with.                             *)
HeadInv ==
  \A p \in Pages : pass[p] \in {"waiting", "ok", "refused", "failed"} =>
    \E i \in toDo[p] : \A j \in toDo[p] : i <= j

KnownInv ==
  /\ \A p \in Pages : reported[p] \subseteq DOMAIN instructions
  /\ \A b \in Browsers : stored[b] \subseteq DOMAIN instructions

ReportsBound == ReportsInv /\ YardTypes /\ PageTypes /\ HeadInv /\ KnownInv

LEMMA YardTyped == ReportsBound /\ [ReportsNext]_reportVars => YardTypes'
  <1> SUFFICES ASSUME ReportsBound, [ReportsNext]_reportVars
               PROVE  YardTypes'
    OBVIOUS
  <1> USE ReportsAssumption DEF ReportsBound, YardTypes
  <1>1. CASE UNCHANGED <<yardVars, attemptVars>> /\ faults' \in {faults, faults + 1}
             /\ (faults' = faults \/ faults < MaxFaults)
    BY <1>1 DEF yardVars, attemptVars
  <1>2. ASSUME NEW m \in YardMissions, Send(m)
        PROVE  YardTypes'
    <2>1. [mission |-> m, attempt |-> attempt[m], result |-> "waiting"] \in Instruction
      BY DEF Instruction
    <2>2. UNCHANGED attemptVars /\ faults' = faults /\ Len(instructions) < MaxInstructions
          /\ instructions' = Append(instructions,
               [mission |-> m, attempt |-> attempt[m], result |-> "waiting"])
      BY <1>2 DEF Send
    <2> QED
      BY <2>1, <2>2 DEF attemptVars
  <1>3. ASSUME NEW result \in {"completed", "error"}, End(result)
        PROVE  YardTypes'
    <2>1. PICK i \in DOMAIN instructions :
            instructions' = [instructions EXCEPT ![i] = [instructions[i] EXCEPT !.result = result]]
      BY <1>3 DEF End
    <2>2. instructions[i] \in Instruction
      OBVIOUS
    <2>3. [instructions[i] EXCEPT !.result = result] \in Instruction
      BY <2>2 DEF Instruction
    <2>4. UNCHANGED attemptVars /\ faults' = faults
      BY <1>3 DEF End
    <2> QED
      BY <2>1, <2>3, <2>4 DEF attemptVars
  <1>4. ASSUME NEW m \in YardMissions, CloseByHand(m) \/ LogAnotherRun(m)
        PROVE  YardTypes'
    <2>1. attempt[m] < MaxAttempts => attempt[m] + 1 \in 1..MaxAttempts
      OBVIOUS
    <2>2. UNCHANGED instructions /\ faults' = faults
      BY <1>4 DEF CloseByHand, LogAnotherRun, yardVars
    <2>3. CASE CloseByHand(m)
      BY <2>2, <2>3 DEF CloseByHand
    <2>4. CASE LogAnotherRun(m)
      BY <2>1, <2>2, <2>4 DEF LogAnotherRun
    <2> QED
      BY <1>4, <2>3, <2>4
  <1>5. CASE Serve
    <2>1. PICK request \in posted : Recorded(request.id)
      BY <1>5 DEF Serve
    <2>2. request.id \in Clean /\ Clean \subseteq Ids
      BY DEF ReportsInv, CleanInv, Clean, Ids
    <2>3. UNCHANGED yardVars /\ faults' = faults
      BY <1>5 DEF Serve
    <2> QED
      BY <2>1, <2>2, <2>3 DEF Recorded, attemptVars, yardVars
  <1>6. ASSUME NEW p \in Pages, PageWorks(p) \/ PageFails(p) \/ Operator(p)
        PROVE  YardTypes'
    BY <1>1, <1>6 DEF PageWorks, Deliver, Poll, Ask, Read, Post, PassEnds, Answer, Save,
       PageFails, ListenerFails, Drop, Lost, Operator, Leave, Unmount, Return, Hide, Show
  <1>7. CASE ServeFails \/ AtTheBrowser \/ UNCHANGED reportVars
    BY <1>1, <1>7 DEF ServeFails, AtTheBrowser, Grant, Revoke, Lost, reportVars
  <1> QED
    BY <1>2, <1>3, <1>4, <1>5, <1>6, <1>7 DEF ReportsNext, AtTheYard, AtTheDesk

LEMMA PageTyped == ReportsBound /\ [ReportsNext]_reportVars => PageTypes'
  <1> SUFFICES ASSUME ReportsBound, [ReportsNext]_reportVars
               PROVE  PageTypes'
    OBVIOUS
  <1> USE DEF ReportsBound, PageTypes, Passes
  <1>1. ASSUME NEW p \in Pages, PageWorks(p)
        PROVE  PageTypes'
    <2>1. CASE Deliver(p)
      <3>1. {m \in YardMissions : InWindow(m)} \subseteq YardMissions
        OBVIOUS
      <3> QED
        BY <2>1, <3>1 DEF Deliver, passVars
    <2>2. CASE Poll(p) \/ Ask(p) \/ Read(p)
      BY <2>2 DEF Poll, Ask, Read, Told, Over, listenVars
    <2>3. CASE Post(p) \/ PassEnds(p) \/ Answer(p)
      BY <2>3 DEF Post, PassEnds, Answer, Told, Over, listenVars
    <2> QED
      BY <1>1, <2>1, <2>2, <2>3 DEF PageWorks
  <1>2. ASSUME NEW p \in Pages, PageFails(p) \/ Operator(p)
        PROVE  PageTypes'
    BY <1>2 DEF PageFails, ListenerFails, Drop, Operator, Leave, Unmount, Return, Hide, Show, Told, Over,
       passVars, listenVars
  <1>3. CASE Serve \/ ServeFails
    <2>1. UNCHANGED <<page, listenVars, granted, snapshot>>
      BY <1>3 DEF Serve, ServeFails
    <2>2. PICK request \in posted :
            \/ pass' = pass
            \/ request.page # Nobody /\ pass' = [pass EXCEPT ![request.page] = "ok"]
            \/ request.page # Nobody /\ pass' = [pass EXCEPT ![request.page] = "refused"]
            \/ request.page # Nobody /\ pass' = [pass EXCEPT ![request.page] = "failed"]
      BY <1>3 DEF Serve, ServeFails, Told
    <2> QED
      BY <2>1, <2>2 DEF listenVars
  <1>4. CASE AtTheYard \/ AtTheDesk \/ AtTheBrowser
    BY <1>4 DEF AtTheYard, Send, End, AtTheDesk, CloseByHand, LogAnotherRun, AtTheBrowser, Grant, Revoke,
       passVars, listenVars
  <1>5. CASE UNCHANGED reportVars
    BY <1>5 DEF reportVars, passVars, listenVars
  <1> QED
    BY <1>1, <1>2, <1>3, <1>4, <1>5 DEF ReportsNext

LEMMA HeadStep == ReportsBound /\ [ReportsNext]_reportVars => HeadInv'
  <1> SUFFICES ASSUME ReportsBound, [ReportsNext]_reportVars
               PROVE  HeadInv'
    OBVIOUS
  <1> USE DEF ReportsBound, PageTypes, HeadInv
  <1>1. CASE UNCHANGED <<pass, toDo>>
    BY <1>1
  <1>2. ASSUME NEW p \in Pages, Read(p) \/ PassEnds(p) \/ Answer(p) \/ Drop(p) \/ Leave(p)
        PROVE  HeadInv'
    <2>1. \E what \in {"next", "idle"} : pass' = [pass EXCEPT ![p] = what]
      BY <1>2 DEF Read, PassEnds, Answer, Drop, Leave, Over, Told
    <2>2. \E ids : toDo' = [toDo EXCEPT ![p] = ids]
      BY <1>2 DEF Read, PassEnds, Answer, Drop, Leave, Over
    <2> QED
      BY <2>1, <2>2 DEF ReportsInv, ReportTypes
  <1>3. ASSUME NEW p \in Pages, Post(p)
        PROVE  HeadInv'
    BY <1>3 DEF Post, Told
  <1>4. ASSUME NEW p \in Pages, Poll(p)
        PROVE  HeadInv'
    BY <1>4 DEF Poll, Told
  <1>5. CASE Serve \/ ServeFails
    <2>1. PICK request \in posted :
            pass' = pass \/ (request.page # Nobody /\ \E what : pass' = [pass EXCEPT ![request.page] = what])
      BY <1>5 DEF Serve, ServeFails, Told
    <2>2. toDo' = toDo
      BY <1>5 DEF Serve, ServeFails
    <2>3. request.page # Nobody => pass[request.page] = "waiting"
      BY DEF ReportsInv, PostedInv
    <2> QED
      BY <2>1, <2>2, <2>3
  <1>6. ASSUME NEW p \in Pages, Deliver(p) \/ ListenerFails(p) \/ Unmount(p) \/ Return(p)
                             \/ Hide(p) \/ Show(p)
        PROVE  HeadInv'
    BY <1>1, <1>6 DEF Deliver, ListenerFails, Unmount, Return, Hide, Show, passVars
  <1>7. CASE AtTheYard \/ AtTheDesk \/ AtTheBrowser \/ UNCHANGED reportVars
    BY <1>1, <1>7 DEF AtTheBrowser, Grant, Revoke, AtTheYard, Send, End, AtTheDesk, CloseByHand, LogAnotherRun, passVars, reportVars
  <1>8. ASSUME NEW p \in Pages, Ask(p)
        PROVE  HeadInv'
    <2>1. CASE Over(p)
      BY <2>1 DEF Over, Told, ReportsInv, ReportTypes
    <2>2. CASE pass' = [pass EXCEPT ![p] = "reading"] /\ toDo' = toDo
      BY <2>2 DEF ReportsInv, ReportTypes
    <2> QED
      BY <1>8, <2>1, <2>2 DEF Ask, Told
  <1> QED
    BY <1>2, <1>3, <1>4, <1>5, <1>6, <1>7, <1>8 DEF ReportsNext, PageWorks, PageFails, Operator

LEMMA KnownStep == ReportsBound /\ [ReportsNext]_reportVars => KnownInv'
  <1> SUFFICES ASSUME ReportsBound, [ReportsNext]_reportVars
               PROVE  KnownInv'
    OBVIOUS
  <1> USE DEF ReportsBound, ReportsInv, ReportTypes, KnownInv
  <1>1. CASE UNCHANGED <<instructions, reported, stored>>
    BY <1>1
  <1>2. CASE AtTheYard
    <2>1. DOMAIN instructions \subseteq DOMAIN instructions'
      <3>1. ASSUME NEW result, End(result)
            PROVE  DOMAIN instructions' = DOMAIN instructions
        BY <3>1 DEF End
      <3>2. ASSUME NEW m \in YardMissions, Send(m)
            PROVE  DOMAIN instructions \subseteq DOMAIN instructions'
        BY <3>2 DEF Send
      <3> QED
        BY <1>2, <3>1, <3>2 DEF AtTheYard
    <2>2. UNCHANGED <<reported, stored>>
      BY <1>2 DEF AtTheYard, Send, End, memoryVars
    <2> QED
      BY <2>1, <2>2
  <1>3. ASSUME NEW p \in Pages, Answer(p)
        PROVE  KnownInv'
    <2>1. PICK i \in toDo[p] : \A j \in toDo[p] : i <= j
      BY <1>3 DEF HeadInv, Answer
    <2> DEFINE first == CHOOSE k \in toDo[p] : \A j \in toDo[p] : k <= j
    <2>2. first \in toDo[p]
      BY <2>1
    <2>3. first \in DOMAIN instructions
      BY <2>2 DEF CleanInv, Clean
    <2>4. /\ instructions' = instructions
          /\ reported' = reported \/ reported' = [reported EXCEPT ![p] = @ \cup {first}]
          /\ stored' = stored \/ stored' = [stored EXCEPT ![BrowserOf[p]] = reported'[p]]
      BY <1>3 DEF Answer, Save, yardVars
    <2> HIDE DEF first
    <2> QED
      BY <2>3, <2>4
  <1>4. ASSUME NEW p \in Pages, Return(p)
        PROVE  KnownInv'
    BY <1>4, ReportsAssumption DEF Return, yardVars
  <1>5. ASSUME NEW p \in Pages,
               Deliver(p) \/ Poll(p) \/ Ask(p) \/ Read(p) \/ Post(p) \/ PassEnds(p) \/ PageFails(p)
               \/ Leave(p) \/ Unmount(p) \/ Hide(p) \/ Show(p)
        PROVE  KnownInv'
    BY <1>1, <1>5 DEF Deliver, Poll, Ask, Read, Post, PassEnds, PageFails, ListenerFails, Drop, Leave, Unmount,
       Hide, Show, yardVars, memoryVars
  <1>6. CASE AtTheDesk \/ AtTheBrowser \/ Serve \/ ServeFails \/ UNCHANGED reportVars
    BY <1>1, <1>6 DEF AtTheDesk, CloseByHand, LogAnotherRun, AtTheBrowser, Grant, Revoke, Serve, ServeFails,
       yardVars, memoryVars, reportVars
  <1> QED
    BY <1>2, <1>3, <1>4, <1>5, <1>6 DEF ReportsNext, PageWorks, Operator

(* What a console knows of the rover's instructions, the server and its    *)
(* own posts is what the code says it is, and a poll that waits for an     *)
(* answer has a report to put it down to (useRoverReportedCompletions).    *)
THEOREM ReportsTypeCorrect == ReportsSpec => []ReportsTypeOK
  <1>1. ReportsInit => ReportsBound
    <2>1. ReportsInit => ReportsInv
      BY ReportsStart
    <2>2. ReportsInit => YardTypes
      BY ReportsAssumption DEF ReportsInit, YardTypes
    <2>3. ReportsInit => PageTypes /\ HeadInv /\ KnownInv
      BY DEF ReportsInit, PageTypes, Passes, HeadInv, KnownInv
    <2> QED
      BY <2>1, <2>2, <2>3 DEF ReportsBound
  <1>2. ReportsBound /\ [ReportsNext]_reportVars => ReportsBound'
    BY ReportsStep, YardTyped, PageTyped, HeadStep, KnownStep DEF ReportsBound
  <1>3. ReportsBound => ReportsTypeOK
    <2> SUFFICES ASSUME ReportsBound
                 PROVE  ReportsTypeOK
      OBVIOUS
    <2> USE DEF ReportsBound
    <2>1. posted \subseteq [page : Pages \cup {Nobody}, id : DOMAIN instructions]
      BY DEF ReportsInv, ReportTypes, CleanInv, Clean
    <2>2. \A p \in Pages : /\ toDo[p] \cup reported[p] \cup answered[p] \subseteq DOMAIN instructions
                           /\ pass[p] \in {"waiting", "ok", "refused", "failed"} => toDo[p] # {}
      BY DEF ReportsInv, SpentInv, CleanInv, Clean, HeadInv, KnownInv
    <2>3. \A b \in Browsers : kept[b] \subseteq stored[b] /\ stored[b] \subseteq DOMAIN instructions
      BY DEF ReportsInv, SpentInv, KnownInv
    <2> QED
      BY <2>1, <2>2, <2>3 DEF YardTypes, PageTypes, ReportsTypeOK
  <1> QED
    BY <1>1, <1>2, <1>3, PTL DEF ReportsSpec
=============================================================================
