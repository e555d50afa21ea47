----------------------------- MODULE DeskProofs -----------------------------
(***************************************************************************)
(* Proofs about the windows of the user: the tasks of a campaign           *)
(* (TaskBoard), the file editor (Editor), the terminals a window keeps     *)
(* (Viewers), the tabs of the terminal panes (Tabs) and the panel of a     *)
(* campaign (Board).  The five share no state; each has an invariant of    *)
(* its own.                                                                *)
(***************************************************************************)
EXTENDS TaskBoard, Editor, Viewers, Tabs, Board, SequenceTheorems, WellFoundedInduction, TLAPS

-----------------------------------------------------------------------------
(***************************************************************************)
(* Sets of naturals.                                                       *)
(***************************************************************************)

\* The least of a set of naturals is one of them.
LEMMA LeastOfNaturals ==
  ASSUME NEW S \in SUBSET Nat, S # {}
  PROVE  Min(S) \in S /\ \A n \in S : Min(S) <= n
<1>1. PICK m \in S : \A n \in S : ~(<<n, m>> \in OpToRel(<, Nat))
  BY NatLessThanWellFounded, WFMin
<1>2. \A n \in S : ~(n < m)
  BY <1>1 DEF OpToRel
<1>3. \E k \in S : \A n \in S : k <= n
  BY <1>2
<1> QED
  BY <1>3 DEF Min

-----------------------------------------------------------------------------
(***************************************************************************)
(* TaskBoard: for any steps and any number of tasks and PRs.               *)
(***************************************************************************)

(* What the two properties rest on: the id of the next task is new, and a      *)
(* click is one of three kinds.                                                *)
TaskIdsAreNew ==
  /\ nextTask \in Nat
  /\ \A t \in DOMAIN tasks : t \in Nat /\ t < nextTask

ClicksAreKnown == \A c \in clicks : c.kind \in {"retire", "edit", "delete"}

TaskInv == TaskIdsAreNew /\ ClicksAreKnown /\ PendingHasBothEnds

-----------------------------------------------------------------------------
(* Tables with a row more, and with some less. *)

\* The table with a row more.
LEMMA MoreHas ==
  ASSUME NEW f, NEW x, NEW v
  PROVE  /\ DOMAIN More(f, x, v) = DOMAIN f \cup {x}
         /\ \A y \in DOMAIN f : y # x => More(f, x, v)[y] = f[y]
  BY DEF More

\* The table with some less.
LEMMA LessHas ==
  ASSUME NEW f, NEW S
  PROVE  /\ DOMAIN Less(f, S) = DOMAIN f \ S
         /\ \A y \in DOMAIN f : y \notin S => Less(f, S)[y] = f[y]
  BY DEF Less

\* What one click makes of the tables, if its task is found in its step ...
LEMMA CarryDoes ==
  ASSUME NEW c, c.kind \in {"retire", "edit", "delete"}, Carry(c), c.task \in DOMAIN tasks
  PROVE  \/ DOMAIN tasks' = DOMAIN tasks /\ pending' = pending
         \/ DOMAIN tasks' = DOMAIN tasks \ {c.task} /\ pending' = {r \in pending : r.task # c.task}
<1>1. CASE c.kind = "retire"
  BY <1>1 DEF Carry
<1>2. CASE c.kind = "edit"
  BY <1>2 DEF Carry
<1>3. CASE c.kind = "delete"
  <2>1. tasks' = Less(tasks, {c.task}) /\ pending' = {r \in pending : r.task # c.task}
    BY <1>3 DEF Carry
  <2> QED
    BY <2>1, LessHas
<1> QED
  BY <1>1, <1>2, <1>3

\* ... and that it leaves every other task alone.
LEMMA CarrySpares ==
  ASSUME NEW c, c.kind \in {"retire", "edit", "delete"}, Carry(c), c.task \in DOMAIN tasks,
         NEW t \in DOMAIN tasks, t # c.task
  PROVE  t \in DOMAIN tasks' /\ tasks'[t] = tasks[t]
<1>1. CASE c.kind = "retire"
  BY <1>1 DEF Carry
<1>2. CASE c.kind = "edit"
  BY <1>2 DEF Carry
<1>3. CASE c.kind = "delete"
  <2>1. tasks' = Less(tasks, {c.task})
    BY <1>3 DEF Carry
  <2>2. Less(tasks, {c.task})[t] = tasks[t] /\ t \in DOMAIN Less(tasks, {c.task})
    BY DEF Less
  <2> QED
    BY <2>1, <2>2
<1> QED
  BY <1>1, <1>2, <1>3

-----------------------------------------------------------------------------
\* The initial state.
LEMMA TaskInitInv == BoardInit => TaskInv
  BY DEF BoardInit, TaskInv, TaskIdsAreNew, ClicksAreKnown, PendingHasBothEnds

\* Ids stay new and clicks known.
LEMMA TaskNamesStep ==
  ASSUME TaskInv, [BoardNext]_boardVars
  PROVE  TaskIdsAreNew' /\ ClicksAreKnown'
<1> USE DEF TaskInv, TaskIdsAreNew, ClicksAreKnown
<1>1. ASSUME NEW s \in Columns, CreateTask(s) PROVE TaskIdsAreNew' /\ ClicksAreKnown'
  <2>1. DOMAIN tasks' = DOMAIN tasks \cup {nextTask}
    BY <1>1, MoreHas DEF CreateTask
  <2> QED
    BY <1>1, <2>1 DEF CreateTask
<1>2. ASSUME NEW s \in Columns, DeleteStep(s) PROVE TaskIdsAreNew' /\ ClicksAreKnown'
  <2>1. DOMAIN tasks' = DOMAIN tasks \ TasksOf(s)
    BY <1>2, LessHas DEF DeleteStep
  <2> QED
    BY <1>2, <2>1 DEF DeleteStep
<1>3. ASSUME NEW c \in clicks, ClickArrives(c) PROVE TaskIdsAreNew' /\ ClicksAreKnown'
  <2>1. CASE Finds(c)
    <3>1. c.task \in DOMAIN tasks /\ Carry(c)
      BY <1>3, <2>1 DEF ClickArrives, Finds, TasksOf
    <3>2. c.kind \in {"retire", "edit", "delete"}
      OBVIOUS
    <3>3. \/ DOMAIN tasks' = DOMAIN tasks /\ pending' = pending
          \/ DOMAIN tasks' = DOMAIN tasks \ {c.task} /\ pending' = {r \in pending : r.task # c.task}
      BY <3>1, <3>2, CarryDoes, SMTT(40)
    <3> QED
      BY <3>3, <1>3 DEF ClickArrives
  <2>2. CASE ~Finds(c)
    BY <1>3, <2>2 DEF ClickArrives
  <2> QED
    BY <2>1, <2>2
<1>4. ASSUME NEW kind \in {"retire", "edit", "delete"}, NEW t \in panel, Click(kind, t)
      PROVE  TaskIdsAreNew' /\ ClicksAreKnown'
  BY <1>4 DEF Click
<1>5. ASSUME UNCHANGED <<tasks, nextTask, clicks>> PROVE TaskIdsAreNew' /\ ClicksAreKnown'
  BY <1>5
<1> QED
  BY <1>1, <1>2, <1>3, <1>4, <1>5 DEF BoardNext, boardVars, RegisterPr, SelectStep, DeletePr, MovePr,
     ClosePending, Reload, ShowTasks

\* No step leaves a pending row without its PR or its task.
LEMMA PendingStep ==
  ASSUME TaskInv, [BoardNext]_boardVars
  PROVE  PendingHasBothEnds'
<1> USE DEF TaskInv, PendingHasBothEnds
<1>1. ASSUME NEW s \in Columns, CreateTask(s) PROVE PendingHasBothEnds'
  <2>1. DOMAIN tasks' = DOMAIN tasks \cup {nextTask} /\ prs' = prs
    BY <1>1, MoreHas DEF CreateTask
  <2>2. PICK older \in {{}, PrsOf(s), PrsOf(s) \ {nextPr - 1}} :
          pending' = pending \cup {[pr |-> p, task |-> nextTask, closed |-> FALSE] : p \in older}
    BY <1>1 DEF CreateTask
  <2>3. older \subseteq DOMAIN prs
    BY DEF PrsOf
  <2> QED
    BY <2>1, <2>2, <2>3
<1>2. ASSUME NEW s \in Columns, RegisterPr(s) PROVE PendingHasBothEnds'
  <2>1. DOMAIN prs' = DOMAIN prs \cup {nextPr}
    BY <1>2, MoreHas DEF RegisterPr
  <2> QED
    BY <1>2, <2>1 DEF RegisterPr
<1>3. ASSUME NEW s \in Columns, DeleteStep(s) PROVE PendingHasBothEnds'
  \* Rows of the step's PRs and rows of its tasks both go.
  <2>1. DOMAIN prs' = DOMAIN prs \ PrsOf(s) /\ DOMAIN tasks' = DOMAIN tasks \ TasksOf(s)
    BY <1>3, LessHas DEF DeleteStep
  <2> QED
    BY <1>3, <2>1 DEF DeleteStep, GoneWith
<1>4. ASSUME NEW p \in DOMAIN prs, DeletePr(p) PROVE PendingHasBothEnds'
  <2>1. DOMAIN prs' = DOMAIN prs \ {p}
    BY <1>4, LessHas DEF DeletePr
  <2> QED
    BY <1>4, <2>1 DEF DeletePr
<1>5. ASSUME NEW p \in DOMAIN prs, NEW s \in Columns, MovePr(p, s) PROVE PendingHasBothEnds'
  BY <1>5 DEF MovePr
<1>6. ASSUME NEW p \in DOMAIN prs, NEW t \in TaskIds, ClosePending(p, t) PROVE PendingHasBothEnds'
  BY <1>6 DEF ClosePending
<1>7. ASSUME NEW c \in clicks, ClickArrives(c) PROVE PendingHasBothEnds'
  <2>1. CASE Finds(c)
    <3>1. c.task \in DOMAIN tasks /\ Carry(c) /\ prs' = prs
      BY <1>7, <2>1 DEF ClickArrives, Finds, TasksOf
    <3>2. \/ DOMAIN tasks' = DOMAIN tasks /\ pending' = pending
          \/ DOMAIN tasks' = DOMAIN tasks \ {c.task} /\ pending' = {r \in pending : r.task # c.task}
      BY <3>1, CarryDoes DEF ClicksAreKnown
    <3> QED
      BY <3>1, <3>2
  <2>2. CASE ~Finds(c)
    BY <1>7, <2>2 DEF ClickArrives
  <2> QED
    BY <2>1, <2>2
<1>8. ASSUME UNCHANGED <<tasks, prs, pending>> PROVE PendingHasBothEnds'
  BY <1>8
<1> QED
  BY <1>1, <1>2, <1>3, <1>4, <1>5, <1>6, <1>7, <1>8
  DEF BoardNext, boardVars, SelectStep, Reload, ShowTasks, Click

\* TaskInv holds throughout.
THEOREM TaskInvariant == BoardSpec => []TaskInv
<1>1. TaskInv /\ [BoardNext]_boardVars => TaskInv'
  BY TaskNamesStep, PendingStep DEF TaskInv
<1> QED
  BY <1>1, TaskInitInv, PTL DEF BoardSpec

\* Whatever is deleted, and whatever steps PRs moved to before, each pending row
\* has its PR and its task.
THEOREM PendingRowsAreWhole == BoardSpec => []PendingHasBothEnds
  BY TaskInvariant, PTL DEF TaskInv

\* Clicks change tasks of the step that was selected, however late lists arrive.
THEOREM ClicksStayInTheirStep == BoardSpec => ClicksHitSelectedStep
<1> DEFINE Hit(t) ==
      \/ t \in DOMAIN tasks' /\ tasks'[t] = tasks[t]
      \/ tasks[t].step \notin steps'
      \/ \E c \in clicks \ clicks' : c.task = t /\ c.step = tasks[t].step
<1>1. ASSUME TaskInv, BoardNext, NEW t \in DOMAIN tasks PROVE Hit(t)
  <2>1. ASSUME NEW s \in Columns, CreateTask(s) PROVE Hit(t)
    <3>1. tasks' = More(tasks, nextTask, [step |-> s, retired |-> FALSE, edited |-> FALSE])
      BY <2>1 DEF CreateTask
    <3>2. t # nextTask
      BY <1>1 DEF TaskInv, TaskIdsAreNew
    <3>3. t \in DOMAIN tasks' /\ tasks'[t] = tasks[t]
      <4>1. More(tasks, nextTask, [step |-> s, retired |-> FALSE, edited |-> FALSE])[t] = tasks[t]
        BY <1>1, <3>2 DEF More
      <4>2. tasks'[t] = tasks[t]
        BY <3>1, <4>1
      <4> QED
        <5>1. DOMAIN tasks' = DOMAIN tasks \cup {nextTask}
          BY <3>1, MoreHas
        <5> QED
          BY <1>1, <5>1, <4>2
    <3> QED
      BY <3>3
  <2>2. ASSUME NEW s \in Columns, DeleteStep(s) PROVE Hit(t)
    <3>1. tasks' = Less(tasks, TasksOf(s)) /\ steps' = steps \ {s}
      BY <2>2 DEF DeleteStep
    <3>2. CASE t \in TasksOf(s)
      BY <3>1, <3>2 DEF TasksOf
    <3>3. CASE t \notin TasksOf(s)
      <4>1. DOMAIN tasks' = DOMAIN tasks \ TasksOf(s)
        BY <3>1, LessHas
      <4>2. tasks'[t] = tasks[t]
        <5>1. Less(tasks, TasksOf(s))[t] = tasks[t]
          BY <1>1, <3>3 DEF Less
        <5> QED
          BY <3>1, <5>1
      <4> QED
        BY <1>1, <3>3, <4>1, <4>2
    <3> QED
      BY <3>2, <3>3
  <2>3. ASSUME NEW c \in clicks, ClickArrives(c) PROVE Hit(t)
    <3>1. CASE ~Finds(c)
      BY <2>3, <3>1 DEF ClickArrives
    <3>2. CASE Finds(c)
      <4>1. c.task \in DOMAIN tasks /\ tasks[c.task].step = c.step /\ Carry(c)
        BY <2>3, <3>2 DEF ClickArrives, Finds, TasksOf
      <4>3. c.kind \in {"retire", "edit", "delete"}
        BY <1>1 DEF TaskInv, ClicksAreKnown
      <4>2. ASSUME t # c.task PROVE t \in DOMAIN tasks' /\ tasks'[t] = tasks[t]
        BY <1>1, <4>1, <4>2, <4>3, CarrySpares
      <4> QED
        BY <2>3, <4>1, <4>2 DEF ClickArrives
    <3> QED
      BY <3>1, <3>2
  <2>4. ASSUME UNCHANGED tasks PROVE Hit(t)
    BY <2>4
  <2> QED
    BY <1>1, <2>1, <2>2, <2>3, <2>4 DEF BoardNext, RegisterPr, SelectStep, DeletePr, MovePr,
       ClosePending, Reload, ShowTasks, Click
<1>2. TaskInv /\ [BoardNext]_boardVars => [\A t \in DOMAIN tasks : Hit(t)]_boardVars
  BY <1>1
<1> QED
  BY <1>2, TaskInvariant, PTL DEF BoardSpec, ClicksHitSelectedStep

-----------------------------------------------------------------------------
\* The tables' types: rows of the table of tasks, and of the two tables on PRs.
TaskRecords == [step : Columns, retired : BOOLEAN, edited : BOOLEAN]
TasksOK == DOMAIN tasks \subseteq TaskIds /\ \A t \in DOMAIN tasks : tasks[t] \in TaskRecords
PrsOK ==
  /\ DOMAIN prs \subseteq PrIds /\ \A p \in DOMAIN prs : prs[p] \in Columns
  /\ nextTask \in 1..(MaxTasks + 1) /\ nextPr \in 1..(MaxPrs + 1) /\ steps \subseteq Columns
PendingOK == pending \subseteq [pr : PrIds, task : TaskIds, closed : BOOLEAN]
PanelOK ==
  /\ selected \in Columns /\ panel \subseteq TaskIds /\ reads \subseteq SUBSET TaskIds
  /\ clicks \subseteq [kind : {"retire", "edit", "delete"}, step : Columns, task : TaskIds]

\* The type invariant, one part per table.
LEMMA TypesAreTheirs == BoardTypeOK <=> TasksOK /\ PrsOK /\ PendingOK /\ PanelOK
  BY DEF BoardTypeOK, TasksOK, PrsOK, PendingOK, PanelOK, TaskRecords

\* A task stays one when a click changes it.
LEMMA TaskChanges ==
  ASSUME NEW t \in TaskRecords
  PROVE  [t EXCEPT !.retired = TRUE] \in TaskRecords /\ [t EXCEPT !.edited = TRUE] \in TaskRecords
  BY DEF TaskRecords

\* The types are kept by every step.
LEMMA TaskTypeStep == BoardTypeOK /\ [BoardNext]_boardVars => BoardTypeOK'
<1> SUFFICES ASSUME TasksOK, PrsOK, PendingOK, PanelOK, [BoardNext]_boardVars
             PROVE  TasksOK' /\ PrsOK' /\ PendingOK' /\ PanelOK'
  BY TypesAreTheirs DEF BoardTypeOK, TasksOK, PrsOK, PendingOK, PanelOK, TaskRecords
<1> DEFINE Kept == TasksOK' /\ PrsOK' /\ PendingOK' /\ PanelOK'
<1>1. ASSUME NEW s \in Columns, CreateTask(s) PROVE Kept
  <2>1. TasksOK'
    <3>1. [step |-> s, retired |-> FALSE, edited |-> FALSE] \in TaskRecords
      BY DEF TaskRecords
    <3> QED
      BY <1>1, <3>1 DEF CreateTask, More, TasksOK
  <2>2. PrsOK'
    BY <1>1, BoardBounds DEF CreateTask, PrsOK, TaskIds
  <2>3. PendingOK'
    <3>1. PICK older \in {{}, PrsOf(s), PrsOf(s) \ {nextPr - 1}} :
            pending' = pending \cup {[pr |-> p, task |-> nextTask, closed |-> FALSE] : p \in older}
      BY <1>1 DEF CreateTask
    <3>2. older \subseteq PrIds /\ nextTask \in TaskIds
      BY <1>1 DEF PrsOf, PrsOK, CreateTask
    <3>3. ASSUME NEW q \in older
          PROVE  [pr |-> q, task |-> nextTask, closed |-> FALSE] \in [pr : PrIds, task : TaskIds, closed : BOOLEAN]
      BY <3>2
    <3> QED
      BY <3>1, <3>3 DEF PendingOK
  <2> QED
    BY <1>1, <2>1, <2>2, <2>3 DEF CreateTask, PanelOK
<1>2. ASSUME NEW s \in Columns, RegisterPr(s) PROVE Kept
  <2>1. PrsOK'
    BY <1>2, BoardBounds DEF RegisterPr, PrsOK, PrIds, More
  <2> QED
    BY <1>2, <2>1 DEF RegisterPr, TasksOK, PendingOK, PanelOK
<1>3. ASSUME NEW s \in Columns, DeleteStep(s) PROVE Kept
  <2>1. TasksOK' /\ PrsOK'
    BY <1>3 DEF DeleteStep, TasksOK, PrsOK, Less
  <2> QED
    BY <1>3, <2>1 DEF DeleteStep, PendingOK, PanelOK
<1>4. ASSUME NEW s \in Columns, SelectStep(s) PROVE Kept
  BY <1>4 DEF SelectStep, TasksOK, PrsOK, PendingOK, PanelOK
<1>5. ASSUME NEW p \in DOMAIN prs, DeletePr(p) PROVE Kept
  <2>1. PrsOK'
    BY <1>5 DEF DeletePr, PrsOK, Less
  <2> QED
    BY <1>5, <2>1 DEF DeletePr, TasksOK, PendingOK, PanelOK
<1>6. ASSUME NEW p \in DOMAIN prs, NEW s \in Columns, MovePr(p, s) PROVE Kept
  BY <1>6 DEF MovePr, TasksOK, PrsOK, PendingOK, PanelOK
<1>7. ASSUME NEW p \in DOMAIN prs, NEW t \in TaskIds, ClosePending(p, t) PROVE Kept
  <2>1. [pr |-> p, task |-> t, closed |-> TRUE] \in [pr : PrIds, task : TaskIds, closed : BOOLEAN]
    BY DEF PrsOK
  <2>2. PendingOK'
    BY <1>7, <2>1 DEF ClosePending, PendingOK
  <2> QED
    BY <1>7, <2>2 DEF ClosePending, TasksOK, PrsOK, PanelOK
<1>8. ASSUME NEW c \in clicks, ClickArrives(c) PROVE Kept
  <2>1. TasksOK' /\ PendingOK'
    <3>1. CASE Finds(c)
      <4>1. c.task \in DOMAIN tasks /\ Carry(c) /\ tasks[c.task] \in TaskRecords
        BY <1>8, <3>1 DEF ClickArrives, Finds, TasksOf, TasksOK
      <4>2. CASE c.kind = "retire"
        BY <4>1, <4>2, TaskChanges DEF Carry, TasksOK, PendingOK
      <4>3. CASE c.kind = "edit"
        BY <4>1, <4>3, TaskChanges DEF Carry, TasksOK, PendingOK
      <4>4. CASE c.kind = "delete"
        BY <4>1, <4>4 DEF Carry, TasksOK, PendingOK, Less
      <4> QED
        BY <4>2, <4>3, <4>4 DEF PanelOK
    <3>2. CASE ~Finds(c)
      BY <1>8, <3>2 DEF ClickArrives, TasksOK, PendingOK
    <3> QED
      BY <3>1, <3>2
  <2> QED
    BY <1>8, <2>1 DEF ClickArrives, PrsOK, PanelOK
<1>9. CASE Reload
  BY <1>9 DEF Reload, TasksOf, TasksOK, PrsOK, PendingOK, PanelOK
<1>10. ASSUME NEW list \in reads, ShowTasks(list) PROVE Kept
  BY <1>10 DEF ShowTasks, TasksOK, PrsOK, PendingOK, PanelOK
<1>11. ASSUME NEW kind \in {"retire", "edit", "delete"}, NEW t \in panel, Click(kind, t) PROVE Kept
  BY <1>11 DEF Click, TasksOK, PrsOK, PendingOK, PanelOK
<1>12. CASE UNCHANGED boardVars
  BY <1>12 DEF boardVars, TasksOK, PrsOK, PendingOK, PanelOK
<1>13. CASE BoardNext
  BY <1>1, <1>2, <1>3, <1>4, <1>5, <1>6, <1>7, <1>8, <1>9, <1>10, <1>11, <1>13 DEF BoardNext
<1> QED
  BY <1>12, <1>13

\* For any number of steps, tasks and PRs, the tables and the panel have their types.
THEOREM TaskTypes == BoardSpec => []BoardTypeOK
<1>1. BoardInit => BoardTypeOK
  <2> SUFFICES ASSUME BoardInit PROVE BoardTypeOK
    OBVIOUS
  <2>1. selected \in Columns
    BY BoardBounds DEF BoardInit
  <2> QED
    BY <2>1, BoardBounds DEF BoardInit, BoardTypeOK
<1> QED
  BY <1>1, TaskTypeStep, PTL DEF BoardSpec

-----------------------------------------------------------------------------
(***************************************************************************)
(* Editor: for any files, versions and switches.                           *)
(***************************************************************************)

\* No agent's version v is on disk.
Gone(v) == v \notin foreign \/ \A g \in Files : disk[g] # v

\* Loads and saves that are under way.
LoadRecords == [file : Files, opening : 0..MaxSwitches, stat : Versions \cup {Unknown}]
SaveRecords == [file : Files, opening : 0..MaxSwitches, stage : {"sent", "checked", "written"},
                expected : Versions \cup {Unknown}, base : Versions \cup {Unknown},
                forced : BOOLEAN, raced : BOOLEAN, at : Versions \cup {Unknown}]

\* Version v was written, or there is none.
Made(v) == v = Unknown \/ v \in 0..writes

\* Every write makes a version of its own.
VersionsAreOwn ==
  /\ writes \in 0..MaxWrites /\ foreign \subseteq 1..writes /\ disk \in [Files -> 0..writes]
  /\ \A f, g \in Files : f # g /\ disk[f] = disk[g] => disk[f] = 0

\* What a load has read is on disk, or no agent's version is lost with it.
LoadOK(l) == Made(l.stat) /\ (l.stat # Unknown => l.stat = disk[l.file] \/ Gone(l.stat))

\* The text of the pane comes from the version it would save over, or what that
\* version replaced is not an agent's that is still there.
PaneOK ==
  /\ Made(base) /\ Made(mtimeRef)
  /\ ~raced /\ base # Unknown => mtimeRef # Unknown /\ (base = mtimeRef \/ Gone(mtimeRef))

\* The same for a save, from the version it expects; and what it has replaced.
SaveOK(s) ==
  /\ Made(s.base) /\ Made(s.expected) /\ Made(s.at)
  /\ ~s.forced /\ ~s.raced /\ s.base # Unknown =>
       /\ s.expected # Unknown /\ (s.base = s.expected \/ Gone(s.expected))
       /\ s.stage = "checked" => s.at = s.expected
  /\ s.stage = "written" => s.at # Unknown /\ s.at \notin foreign

\* The invariant: the losses depend on what loads, the pane and saves know.
EditorInv ==
  /\ EditorTypeOK /\ VersionsAreOwn
  /\ \A l \in loads : LoadOK(l)
  /\ PaneOK
  /\ \A s \in saves : SaveOK(s)
  /\ SavesNoticeEdits

-----------------------------------------------------------------------------
\* A version that is gone stays so, whoever writes.
LEMMA GoneStays ==
  ASSUME VersionsAreOwn, NEW f \in Files, WriteFile(f), foreign' \in {foreign, foreign \cup {writes + 1}},
         NEW v \in 0..writes, Gone(v)
  PROVE  Gone(v)'
  BY EditorBounds DEF VersionsAreOwn, WriteFile, Gone

\* What a write replaces is gone.
LEMMA ReplacedIsGone ==
  ASSUME VersionsAreOwn, NEW f \in Files, WriteFile(f), foreign' \in {foreign, foreign \cup {writes + 1}},
         NEW v, v = disk[f]
  PROVE  v \in 0..writes /\ (v \notin foreign' \/ \A g \in Files : disk'[g] # v)
  BY EditorBounds DEF VersionsAreOwn, WriteFile

\* A write makes a version of its own.
LEMMA WriteKeepsVersions ==
  ASSUME VersionsAreOwn, NEW f \in Files, WriteFile(f), foreign' \in {foreign, foreign \cup {writes + 1}}
  PROVE  VersionsAreOwn'
  BY EditorBounds DEF VersionsAreOwn, WriteFile

\* Loads, the pane and saves that a write leaves alone stay in order.
LEMMA WriteKeepsRest ==
  ASSUME VersionsAreOwn, NEW f \in Files, WriteFile(f), foreign' \in {foreign, foreign \cup {writes + 1}}
  PROVE  /\ \A l \in LoadRecords : LoadOK(l) => LoadOK(l)'
         /\ PaneOK /\ UNCHANGED <<base, mtimeRef, raced>> => PaneOK'
         /\ \A s \in SaveRecords : SaveOK(s) => SaveOK(s)'
<1>0. writes \in Nat /\ writes' = writes + 1 /\ \A v : Made(v) => Made(v)'
  BY EditorBounds DEF VersionsAreOwn, WriteFile, Made
<1>1. \A v \in 0..writes : Gone(v) => Gone(v)'
  BY GoneStays
<1>2. ASSUME NEW l \in LoadRecords, LoadOK(l) PROVE LoadOK(l)'
  <2>1. Made(l.stat) /\ (l.stat # Unknown => l.stat \in 0..writes)
    BY <1>2 DEF LoadOK, Made
  <2>2. CASE l.stat = Unknown
    BY <2>1, <2>2, <1>0 DEF LoadOK
  <2>3. CASE l.stat # Unknown /\ Gone(l.stat)
    BY <2>1, <2>3, <1>0, <1>1 DEF LoadOK
  <2>4. CASE l.stat = disk[l.file] /\ l.stat # Unknown
    <3>0. l.file \in Files
      BY DEF LoadRecords
    <3>1. CASE l.file = f
      BY <2>1, <2>4, <3>1, <1>0, ReplacedIsGone DEF LoadOK, Gone
    <3>2. CASE l.file # f
      BY <2>1, <2>4, <3>0, <3>2, <1>0 DEF LoadOK, WriteFile, VersionsAreOwn
    <3> QED
      BY <3>1, <3>2
  <2> QED
    BY <1>2, <2>2, <2>3, <2>4 DEF LoadOK
<1>3. PaneOK /\ UNCHANGED <<base, mtimeRef, raced>> => PaneOK'
  BY <1>0, <1>1 DEF PaneOK, Made
<1>4. ASSUME NEW s \in SaveRecords, SaveOK(s) PROVE SaveOK(s)'
  <2>1. Made(s.base)' /\ Made(s.expected)' /\ Made(s.at)'
    BY <1>0, <1>4 DEF SaveOK
  <2>2. Gone(s.expected) /\ s.expected # Unknown => Gone(s.expected)'
    BY <1>1, <1>4 DEF SaveOK, Made
  <2>3. s.stage = "written" => s.at \notin foreign'
    BY <1>0, <1>4 DEF SaveOK, Made
  <2> QED
    BY <1>4, <2>1, <2>2, <2>3 DEF SaveOK
<1> QED
  BY <1>2, <1>3, <1>4

\* The initial state: the first file is loading.
LEMMA EditorInitInv == EditorInit => EditorInv
<1> SUFFICES ASSUME EditorInit PROVE EditorInv
  OBVIOUS
<1> USE EditorBounds DEF EditorInit, Versions
<1>0. file \in Files
  OBVIOUS
<1>1. EditorTypeOK
  <2>1. Load(file, 0) \in LoadRecords
    BY <1>0 DEF Load, LoadRecords
  <2>2. disk \in [Files -> Versions] /\ 0 \in Versions /\ opening \in 0..MaxSwitches
    OBVIOUS
  <2> QED
    BY <1>0, <2>1, <2>2 DEF EditorTypeOK, LoadRecords
<1>2. VersionsAreOwn /\ PaneOK
  BY DEF VersionsAreOwn, PaneOK, Made
<1>3. \A l \in loads : LoadOK(l)
  BY DEF LoadOK, Made, Load
<1>4. SavesNoticeEdits
  BY DEF SavesNoticeEdits
<1> QED
  BY <1>1, <1>2, <1>3, <1>4 DEF EditorInv

\* Nothing is written and the rest of the disk's history stays.
LEMMA NoWriteKeeps ==
  ASSUME UNCHANGED <<disk, writes, foreign>>
  PROVE  /\ VersionsAreOwn => VersionsAreOwn'
         /\ \A v : (Made(v) <=> Made(v)') /\ (Gone(v) <=> Gone(v)')
         /\ \A l : LoadOK(l) <=> LoadOK(l)'
         /\ \A s : SaveOK(s) <=> SaveOK(s)'
         /\ PaneOK /\ UNCHANGED <<base, mtimeRef, raced>> => PaneOK'
  BY DEF VersionsAreOwn, Made, Gone, LoadOK, SaveOK, PaneOK

\* Every step keeps the invariant.
LEMMA EditorInductive == EditorInv /\ [EditorNext]_editorVars => EditorInv'
<1> SUFFICES ASSUME EditorInv, [EditorNext]_editorVars PROVE EditorInv'
  OBVIOUS
<1>0. /\ EditorTypeOK /\ VersionsAreOwn /\ PaneOK /\ SavesNoticeEdits
      /\ \A l \in loads : LoadOK(l) /\ l \in LoadRecords
      /\ \A s \in saves : SaveOK(s) /\ s \in SaveRecords
      /\ MaxWrites \in Nat /\ MaxSwitches \in Nat /\ Unknown \notin Versions
      /\ writes \in Nat /\ writes <= MaxWrites /\ 0..writes \subseteq Versions
      /\ disk \in [Files -> 0..writes] /\ foreign \subseteq 1..writes /\ opening \in 0..MaxSwitches
  BY EditorBounds DEF EditorInv, EditorTypeOK, LoadRecords, SaveRecords, Versions, VersionsAreOwn
<1>1. ASSUME NEW f \in Files, AgentWrites(f) PROVE EditorInv'
  <2>1. WriteFile(f) /\ foreign' = foreign \cup {writes + 1} /\ UNCHANGED <<loads, base, mtimeRef, raced, saves, losses>>
    BY <1>1 DEF AgentWrites
  <2>2. EditorTypeOK'
    BY <1>0, <1>1 DEF AgentWrites, WriteFile, EditorTypeOK, Versions
  <2> QED
    BY <1>0, <2>1, <2>2, WriteKeepsVersions, WriteKeepsRest DEF EditorInv, SavesNoticeEdits
<1>2. ASSUME NEW f \in Files, OpenFile(f) PROVE EditorInv'
  <2>1. UNCHANGED <<disk, writes, foreign, mtimeRef, raced, saves, losses>> /\ base' = Unknown
        /\ loads' = loads \cup {Load(f, opening + 1)}
    BY <1>2 DEF OpenFile
  <2>2. Load(f, opening + 1) \in LoadRecords /\ LoadOK(Load(f, opening + 1))
    BY <1>0, <1>2 DEF OpenFile, Load, LoadRecords, LoadOK, Made
  <2>3. EditorTypeOK'
    <3>1. opening' \in 0..MaxSwitches
      BY <1>0, <1>2 DEF OpenFile
    <3>2. loads' \subseteq LoadRecords
      BY <1>0, <2>1, <2>2
    <3> QED
      BY <1>0, <1>2, <3>1, <3>2 DEF OpenFile, EditorTypeOK, LoadRecords
  <2>4. PaneOK'
    BY <1>0, <2>1 DEF PaneOK, Made
  <2> QED
    BY <1>0, <2>1, <2>2, <2>3, <2>4, NoWriteKeeps DEF EditorInv, SavesNoticeEdits
<1>3. ASSUME NEW l \in loads, LoadStat(l) PROVE EditorInv'
  <2> DEFINE m == [l EXCEPT !.stat = disk[l.file]]
  <2>1. UNCHANGED <<disk, writes, foreign, mtimeRef, base, raced, saves, losses>>
        /\ loads' = (loads \ {l}) \cup {m}
    BY <1>3 DEF LoadStat
  <2>2. m \in LoadRecords /\ LoadOK(m)
    BY <1>0 DEF LoadRecords, LoadOK, Made
  <2>3. EditorTypeOK'
    BY <1>0, <1>3, <2>1, <2>2 DEF LoadStat, EditorTypeOK, LoadRecords
  <2> QED
    BY <1>0, <2>1, <2>2, <2>3, NoWriteKeeps DEF EditorInv, SavesNoticeEdits
<1>4. ASSUME NEW l \in loads, LoadEnds(l) PROVE EditorInv'
  <2>1. UNCHANGED <<disk, writes, foreign, file, opening, saves, conflict, losses>>
        /\ loads' \subseteq loads
    BY <1>4 DEF LoadEnds
  <2>2. /\ l.file \in Files /\ l.stat \in 0..writes
        /\ l.stat = disk[l.file] \/ Gone(l.stat)
    BY <1>0, <1>4 DEF LoadEnds, LoadRecords, LoadOK, Made
  <2>3. PaneOK' /\ base' \in Versions \cup {Unknown} /\ mtimeRef' \in Versions \cup {Unknown} /\ raced' \in BOOLEAN
    <3>1. CASE l.opening = opening
      <4>1. base' = disk[l.file] /\ mtimeRef' = l.stat /\ raced' = FALSE
        BY <1>4, <3>1 DEF LoadEnds, Opened
      <4> QED
        BY <1>0, <2>1, <2>2, <4>1, NoWriteKeeps DEF PaneOK, Made
    <3>2. CASE l.opening # opening
      BY <1>0, <1>4, <2>1, <3>2, NoWriteKeeps DEF LoadEnds, EditorTypeOK
    <3> QED
      BY <3>1, <3>2
  <2>4. EditorTypeOK'
    BY <1>0, <2>1, <2>3 DEF EditorTypeOK
  <2> QED
    BY <1>0, <2>1, <2>3, <2>4, NoWriteKeeps DEF EditorInv, SavesNoticeEdits
<1>5. ASSUME NEW force \in BOOLEAN, Save(force) PROVE EditorInv'
  <2> DEFINE s == [file |-> file, opening |-> opening, stage |-> "sent", base |-> base, forced |-> force,
                   expected |-> IF force THEN Unknown ELSE mtimeRef, raced |-> raced, at |-> Unknown]
  <2>1. UNCHANGED <<disk, writes, foreign, file, opening, loads, base, mtimeRef, raced, conflict, losses>>
        /\ saves' = saves \cup {s}
    BY <1>5 DEF Save
  <2>2. s \in SaveRecords
    BY <1>0 DEF EditorTypeOK, SaveRecords
  <2>3. SaveOK(s)
    <3>1. Made(s.base) /\ Made(s.expected) /\ Made(s.at)
      BY <1>0 DEF PaneOK, Made
    <3> QED
      BY <1>0, <3>1 DEF PaneOK, SaveOK
  <2> HIDE DEF s
  <2>4. EditorTypeOK'
    BY <1>0, <2>1, <2>2 DEF EditorTypeOK, SaveRecords
  <2> QED
    BY <1>0, <2>1, <2>3, <2>4, NoWriteKeeps DEF EditorInv, SavesNoticeEdits
<1>6. ASSUME NEW s \in saves, SaveChecks(s) PROVE EditorInv'
  <2>1. UNCHANGED <<disk, writes, foreign, file, opening, loads, base, mtimeRef, raced, losses>>
        /\ conflict' \in BOOLEAN
    BY <1>0, <1>6 DEF SaveChecks, EditorTypeOK
  <2>2. CASE Matches(s)
    <3> DEFINE m == [s EXCEPT !.stage = "checked", !.at = disk[s.file]]
    <3>1. saves' = (saves \ {s}) \cup {m} /\ s.stage = "sent"
      BY <1>6, <2>2 DEF SaveChecks
    <3>2. m \in SaveRecords /\ m.at \in 0..writes
      BY <1>0 DEF SaveRecords
    <3>3. /\ m.base = s.base /\ m.expected = s.expected /\ m.forced = s.forced /\ m.raced = s.raced
          /\ m.stage = "checked" /\ m.at = disk[s.file]
      BY <1>0 DEF SaveRecords
    <3>4. SaveOK(m)
      <4>1. s.expected \in {Unknown, m.at}
        BY <2>2, <3>3 DEF Matches
      <4>2. SaveOK(s)
        BY <1>0
      <4> HIDE DEF m
      <4> QED
        BY <3>2, <3>3, <4>1, <4>2 DEF SaveOK, Made
    <3> HIDE DEF m
    <3>5. EditorTypeOK'
      BY <1>0, <2>1, <3>1, <3>2 DEF EditorTypeOK, SaveRecords
    <3> QED
      BY <1>0, <2>1, <3>1, <3>4, <3>5, NoWriteKeeps DEF EditorInv, SavesNoticeEdits
  <2>3. CASE ~Matches(s)
    <3>1. saves' \subseteq saves
      BY <1>6, <2>3 DEF SaveChecks
    <3>2. EditorTypeOK'
      BY <1>0, <2>1, <3>1 DEF EditorTypeOK
    <3> QED
      BY <1>0, <2>1, <3>1, <3>2, NoWriteKeeps DEF EditorInv, SavesNoticeEdits
  <2> QED
    BY <2>2, <2>3
<1>7. ASSUME NEW s \in saves, SaveWrites(s) PROVE EditorInv'
  <2>0. PICK m : m = [s EXCEPT !.stage = "written", !.at = writes + 1]
    OBVIOUS
  <2>1. /\ WriteFile(s.file) /\ saves' = (saves \ {s}) \cup {m}
        /\ UNCHANGED <<foreign, file, opening, loads, base, mtimeRef, raced, conflict>>
        /\ losses' = IF disk[s.file] \in foreign \ {s.base} THEN losses \cup {Cause(s)} ELSE losses
        /\ s.stage = "checked" /\ writes < MaxWrites /\ writes' = writes + 1
    BY <1>7, <2>0 DEF SaveWrites, WriteFile
  <2>2. s.file \in Files /\ SaveOK(s) /\ s \in SaveRecords
    BY <1>0 DEF SaveRecords
  <2>3. ~(disk[s.file] \in foreign \ {s.base} /\ Cause(s) = "unnoticed")
    <3> SUFFICES ASSUME disk[s.file] \in foreign \ {s.base}, Cause(s) = "unnoticed" PROVE FALSE
      OBVIOUS
    <3>1. ~s.forced /\ s.base # Unknown /\ ~s.raced /\ disk[s.file] = s.at
      BY DEF Cause
    <3>2. s.at = s.expected /\ (s.base = s.expected \/ Gone(s.expected))
      BY <2>1, <2>2, <3>1 DEF SaveOK
    <3>3. ~Gone(disk[s.file])
      BY <2>2 DEF Gone
    <3> QED
      BY <3>1, <3>2, <3>3
  <2>4. SavesNoticeEdits'
    BY <1>0, <2>1, <2>3 DEF SavesNoticeEdits
  <2>5. Cause(s) \in {"forced", "unloaded", "raced", "unnoticed"}
    BY DEF Cause
  <2>6. /\ m \in SaveRecords /\ m.at = writes + 1 /\ m.base = s.base /\ m.expected = s.expected
        /\ m.forced = s.forced /\ m.raced = s.raced /\ m.stage = "written"
    <3>1. writes + 1 \in Versions
      BY <1>0, <2>1 DEF Versions
    <3> QED
      BY <2>0, <2>2, <3>1 DEF SaveRecords
  <2>7. EditorTypeOK'
    <3>1. disk' \in [Files -> Versions] /\ writes' \in Versions
      BY <1>0, <2>1, <2>2 DEF WriteFile, Versions
    <3>2. losses' \subseteq {"forced", "unloaded", "raced", "unnoticed"}
      BY <1>0, <2>1, <2>5 DEF EditorTypeOK
    <3>3. saves' \subseteq SaveRecords
      BY <1>0, <2>1, <2>6
    <3> QED
      BY <1>0, <2>1, <3>1, <3>2, <3>3 DEF EditorTypeOK, SaveRecords
  <2>8. \A t \in saves : SaveOK(t)'
    BY <1>0, <2>1, <2>2, WriteKeepsRest
  <2>9. SaveOK(m)'
    <3>1. SaveOK(s)'
      BY <2>8
    <3>2. Made(m.at)' /\ m.at # Unknown /\ m.at \notin foreign'
      <4>1. writes + 1 \in Versions /\ writes + 1 \notin foreign /\ writes + 1 \in 0..(writes + 1)
        BY <1>0, <2>1 DEF Versions
      <4> QED
        BY <1>0, <2>1, <2>6, <4>1 DEF Made
    <3> QED
      BY <3>1, <3>2, <2>6 DEF SaveOK
  <2>10. VersionsAreOwn' /\ PaneOK' /\ \A l \in loads : LoadOK(l)'
    BY <1>0, <2>1, <2>2, WriteKeepsRest, WriteKeepsVersions
  <2> QED
    BY <2>1, <2>4, <2>7, <2>8, <2>9, <2>10 DEF EditorInv
<1>8. ASSUME NEW s \in saves, SaveEnds(s) PROVE EditorInv'
  <2>1. /\ UNCHANGED <<disk, writes, foreign, file, opening, loads, losses>> /\ conflict' = FALSE
        /\ mtimeRef' = disk[s.file] /\ raced' = (disk[s.file] # s.at)
        /\ base' = (IF s.opening = opening THEN s.at ELSE base) /\ saves' \subseteq saves
    BY <1>8 DEF SaveEnds
  <2>2. s.file \in Files /\ s.at \in 0..writes /\ s.at \notin foreign
    BY <1>0, <1>8 DEF SaveEnds, SaveOK, SaveRecords, Made
  <2>3. disk[s.file] \in 0..writes
    BY <1>0, <2>2
  <2>4. PaneOK'
    BY <1>0, <2>1, <2>2, <2>3 DEF PaneOK, Made, Gone
  <2>5. EditorTypeOK'
    BY <1>0, <2>1, <2>2, <2>3 DEF EditorTypeOK
  <2> QED
    BY <1>0, <2>1, <2>4, <2>5, NoWriteKeeps DEF EditorInv, SavesNoticeEdits
<1>9. ASSUME NEW s \in saves, SaveFails(s) PROVE EditorInv'
  <2>1. /\ UNCHANGED <<disk, writes, foreign, file, opening, loads, base, mtimeRef, raced, losses>>
        /\ saves' \subseteq saves /\ conflict' = FALSE
    BY <1>9 DEF SaveFails
  <2>2. EditorTypeOK'
    BY <1>0, <2>1 DEF EditorTypeOK
  <2> QED
    BY <1>0, <2>1, <2>2, NoWriteKeeps DEF EditorInv, SavesNoticeEdits
<1>10. CASE UNCHANGED editorVars
  <2>1. UNCHANGED <<disk, writes, foreign, file, opening, loads, base, mtimeRef, raced, saves, conflict, losses>>
    BY <1>10 DEF editorVars
  <2>2. EditorTypeOK'
    BY <1>0, <2>1 DEF EditorTypeOK
  <2> QED
    BY <1>0, <2>1, <2>2, NoWriteKeeps DEF EditorInv, SavesNoticeEdits
<1> QED
  BY <1>1, <1>2, <1>3, <1>4, <1>5, <1>6, <1>7, <1>8, <1>9, <1>10 DEF EditorNext

\* For any files, writes and switches: what the pane and each save under way know
\* of the versions they come from.
THEOREM EditorInvariant == EditorSpec => []EditorInv
  BY EditorInitInv, EditorInductive, PTL DEF EditorSpec

\* files.ts:22-23: in every state of every instance, no save has replaced an
\* agent's version unnoticed.
THEOREM SavesAlwaysNotice == EditorSpec => []SavesNoticeEdits
<1>1. EditorInv => SavesNoticeEdits
  BY DEF EditorInv
<1> QED
  BY <1>1, EditorInvariant, PTL

-----------------------------------------------------------------------------
(***************************************************************************)
(* Viewers: for any windows, sessions and streams.                         *)
(***************************************************************************)

(* A connection of the bridge is an open stream of its session. *)

\* The connections of bridge b.
ConnsAreOpen(b) ==
  \A s \in DOMAIN b.conns :
    /\ b.conns[s] \in 1..Len(b.streams)
    /\ b.streams[b.conns[s]].session = s /\ b.streams[b.conns[s]].state = "open"

\* Window w gets the output of session s, or did until the daemon ended it.
Gets(b, w, s) ==
  \E k \in 1..Len(b.streams) :
    b.streams[k].session = s /\ w \in b.streams[k].subscribers /\ b.streams[k].state \in {"open", "dropped"}

\* What the steps of the bridge rely on.
BridgeOK(b) ==
  /\ DOMAIN b.conns \subseteq Viewed /\ b.conns \in [DOMAIN b.conns -> StreamIds]
  /\ b.streams \in Seq(StreamRecords) /\ Len(b.streams) <= MaxStreams
  /\ ConnsAreOpen(b)

\* The invariant.
ViewerInv == ViewerTypeOK /\ ConnsAreOpen(Bridge) /\ CacheIsKept

-----------------------------------------------------------------------------
(* unpark. *)

\* What is left of a queue without repetitions when one of it is taken out.
LEMMA TakenOut ==
  ASSUME NEW q \in Seq(Viewed), IsInjective(q), NEW s
  PROVE  /\ RemoveFirst(q, s) \in Seq(Viewed) /\ IsInjective(RemoveFirst(q, s))
         /\ Len(RemoveFirst(q, s)) <= Len(q)
         /\ ToSet(RemoveFirst(q, s)) = ToSet(q) \ {s}
<1>0. Len(q) \in Nat /\ DOMAIN q = 1..Len(q) /\ \A i \in 1..Len(q) : q[i] \in Viewed
  BY LenProperties, ElementOfSeq
<1>1. CASE ~\E i \in 1..Len(q) : q[i] = s
  <2>1. RemoveFirst(q, s) = q
    BY <1>1 DEF RemoveFirst
  <2> QED
    BY <1>0, <1>1, <2>1 DEF ToSet
<1>2. CASE \E i \in 1..Len(q) : q[i] = s
  <2>1. PICK m : m = SelectInSeq(q, LAMBDA v : v = s)
    OBVIOUS
  <2>2. m \in 1..Len(q) /\ q[m] = s
    <3>1. PICK I : I = {i \in 1..Len(q) : q[i] = s}
      OBVIOUS
    <3>2. I \in SUBSET Nat /\ I # {}
      BY <1>0, <1>2, <3>1
    <3>3. m = Min(I)
      BY <2>1, <3>1, <3>2 DEF SelectInSeq
    <3>4. m \in I
      BY <3>2, <3>3, LeastOfNaturals
    <3> QED
      BY <3>1, <3>4
  <2>3. PICK r : r = RemoveFirst(q, s)
    OBVIOUS
  <2>4. r = SubSeq(q, 1, m - 1) \o SubSeq(q, m + 1, Len(q))
    BY <1>2, <2>1, <2>3 DEF RemoveFirst, RemoveAt
  <2>5. PICK n \in Nat : n = Len(q)
    BY <1>0
  <2>6. /\ SubSeq(q, 1, m - 1) \in Seq(Viewed) /\ Len(SubSeq(q, 1, m - 1)) = m - 1
        /\ \A i \in 1..(m - 1) : SubSeq(q, 1, m - 1)[i] = q[i]
    <3>1. 1 \in Int /\ m - 1 \in Int /\ \A i \in 1..(m - 1) : q[i] \in Viewed
      BY <1>0, <2>2
    <3>2. (IF 1 <= m - 1 THEN m - 1 - 1 + 1 ELSE 0) = m - 1 /\ m - 1 - 1 + 1 = m - 1
          /\ \A i \in 1..(m - 1) : 1 + i - 1 = i
      BY <2>2, <2>5
    <3> QED
      BY <3>1, <3>2, SubSeqProperties
  <2>7. /\ SubSeq(q, m + 1, Len(q)) \in Seq(Viewed) /\ Len(SubSeq(q, m + 1, Len(q))) = n - m
        /\ \A i \in 1..(n - m) : SubSeq(q, m + 1, Len(q))[i] = q[m + i]
    <3>1. m + 1 \in Int /\ n \in Int /\ \A i \in (m + 1)..n : q[i] \in Viewed
      BY <1>0, <2>2, <2>5
    <3>2. (IF m + 1 <= n THEN n - (m + 1) + 1 ELSE 0) = n - m /\ n - (m + 1) + 1 = n - m
          /\ \A i \in 1..(n - m) : m + 1 + i - 1 = m + i
      BY <2>2, <2>5
    <3> QED
      BY <2>5, <3>1, <3>2, SubSeqProperties
  <2>8. r \in Seq(Viewed) /\ Len(r) = n - 1 /\ DOMAIN r = 1..(n - 1)
    <3>1. r \in Seq(Viewed) /\ Len(r) = m - 1 + (n - m)
      BY <2>4, <2>6, <2>7, ConcatProperties
    <3>2. m - 1 + (n - m) = n - 1
      BY <2>2, <2>5
    <3> QED
      BY <3>1, <3>2, LenProperties
  <2>9. \A i \in 1..(n - 1) : r[i] = IF i < m THEN q[i] ELSE q[i + 1]
    <3> SUFFICES ASSUME NEW i \in 1..(n - 1) PROVE r[i] = IF i < m THEN q[i] ELSE q[i + 1]
      OBVIOUS
    <3>1. i \in 1..(m - 1 + (n - m)) /\ (i <= m - 1 <=> i < m) /\ (i < m => i \in 1..(m - 1))
          /\ (~(i < m) => i - (m - 1) \in 1..(n - m) /\ m + (i - (m - 1)) = i + 1)
      BY <2>2, <2>5
    <3>2. r[i] = IF i <= m - 1 THEN SubSeq(q, 1, m - 1)[i] ELSE SubSeq(q, m + 1, Len(q))[i - (m - 1)]
      BY <2>4, <2>6, <2>7, <3>1, ConcatProperties
    <3>3. i < m => SubSeq(q, 1, m - 1)[i] = q[i]
      BY <2>6, <3>1
    <3>4. ~(i < m) => SubSeq(q, m + 1, Len(q))[i - (m - 1)] = q[m + (i - (m - 1))]
      BY <2>7, <3>1
    <3> QED
      BY <3>1, <3>2, <3>3, <3>4
  <2>10. PICK to : to = [i \in 1..(n - 1) |-> IF i < m THEN i ELSE i + 1]
    OBVIOUS
  <2>11. \A i \in 1..(n - 1) : to[i] \in 1..n /\ to[i] # m /\ r[i] = q[to[i]]
    BY <2>2, <2>5, <2>9, <2>10
  <2>12. \A i, j \in 1..(n - 1) : to[i] = to[j] => i = j
    BY <2>2, <2>5, <2>10
  <2>13. \A j \in 1..n : j # m => \E i \in 1..(n - 1) : to[i] = j
    <3> SUFFICES ASSUME NEW j \in 1..n, j # m PROVE \E i \in 1..(n - 1) : to[i] = j
      OBVIOUS
    <3>1. CASE j < m
      <4>1. j \in 1..(n - 1) /\ to[j] = j
        BY <2>2, <2>5, <2>10, <3>1
      <4> QED
        BY <4>1
    <3>2. CASE ~(j < m)
      <4>1. j - 1 \in 1..(n - 1) /\ ~(j - 1 < m) /\ j - 1 + 1 = j
        BY <2>2, <2>5, <3>2
      <4>2. to[j - 1] = j
        BY <2>10, <4>1
      <4> QED
        BY <4>1, <4>2
    <3> QED
      BY <3>1, <3>2
  <2>14. \A i, j \in 1..n : q[i] = q[j] => i = j
    BY <1>0, <2>5 DEF IsInjective
  <2>15. IsInjective(r)
    BY <2>8, <2>11, <2>12, <2>14 DEF IsInjective
  <2>16. ToSet(r) = ToSet(q) \ {s}
    <3>1. \A x : x \in ToSet(r) <=> \E i \in 1..(n - 1) : x = q[to[i]]
      BY <2>8, <2>11 DEF ToSet
    <3>2. \A x : x \in ToSet(q) <=> \E j \in 1..n : x = q[j]
      BY <1>0, <2>5 DEF ToSet
    <3>3. \A j \in 1..n : q[j] = s <=> j = m
      BY <2>2, <2>5, <2>14
    <3>4. \A x : x \in ToSet(r) => x \in ToSet(q) \ {s}
      BY <2>11, <3>1, <3>2, <3>3
    <3>5. \A x : x \in ToSet(q) \ {s} => x \in ToSet(r)
      BY <2>13, <3>1, <3>2, <3>3
    <3> QED
      BY <3>4, <3>5
  <2>17. n - 1 <= Len(q)
    BY <2>5
  <2> QED
    BY <2>3, <2>8, <2>15, <2>16, <2>17
<1> QED
  BY <1>1, <1>2
\* The first of a queue without repetitions are taken out, the others stay.
LEMMA FirstOut ==
  ASSUME NEW q \in Seq(Viewed), IsInjective(q), NEW m \in Nat, m <= Len(q)
  PROVE  /\ SubSeq(q, m + 1, Len(q)) \in Seq(Viewed) /\ IsInjective(SubSeq(q, m + 1, Len(q)))
         /\ Len(SubSeq(q, m + 1, Len(q))) = Len(q) - m
         /\ ToSet(SubSeq(q, m + 1, Len(q))) = ToSet(q) \ ToSet(SubSeq(q, 1, m))
<1>0. PICK n \in Nat : n = Len(q)
  BY LenProperties
<1>1. DOMAIN q = 1..n /\ m <= n /\ \A i \in 1..n : q[i] \in Viewed
  BY <1>0, LenProperties, ElementOfSeq
<1>2. PICK r : r = SubSeq(q, m + 1, Len(q))
  OBVIOUS
<1>3. PICK l : l = SubSeq(q, 1, m)
  OBVIOUS
<1>4. r \in Seq(Viewed) /\ Len(r) = n - m /\ \A i \in 1..(n - m) : r[i] = q[m + i]
  <2>1. m + 1 \in Int /\ n \in Int /\ \A i \in (m + 1)..n : q[i] \in Viewed
    BY <1>1
  <2>2. (IF m + 1 <= n THEN n - (m + 1) + 1 ELSE 0) = n - m /\ n - (m + 1) + 1 = n - m
        /\ \A i \in 1..(n - m) : m + 1 + i - 1 = m + i
    BY <1>1
  <2> QED
    BY <1>0, <1>2, <2>1, <2>2, SubSeqProperties
<1>5. l \in Seq(Viewed) /\ Len(l) = m /\ \A i \in 1..m : l[i] = q[i]
  <2>1. 1 \in Int /\ m \in Int /\ \A i \in 1..m : q[i] \in Viewed
    BY <1>1
  <2>2. (IF 1 <= m THEN m - 1 + 1 ELSE 0) = m /\ m - 1 + 1 = m /\ \A i \in 1..m : 1 + i - 1 = i
    OBVIOUS
  <2> QED
    BY <1>3, <2>1, <2>2, SubSeqProperties
<1>6. DOMAIN r = 1..(n - m) /\ DOMAIN l = 1..m
  BY <1>4, <1>5, LenProperties
<1>7. \A i, j \in 1..n : q[i] = q[j] => i = j
  BY <1>1 DEF IsInjective
<1>8. IsInjective(r)
  <2> SUFFICES ASSUME NEW i \in 1..(n - m), NEW j \in 1..(n - m), r[i] = r[j] PROVE i = j
    BY <1>6 DEF IsInjective
  <2>1. m + i \in 1..n /\ m + j \in 1..n /\ q[m + i] = q[m + j]
    BY <1>1, <1>4
  <2>2. m + i = m + j
    BY <1>7, <2>1
  <2> QED
    BY <2>2
<1>9. \A x : x \in ToSet(r) <=> \E i \in 1..(n - m) : x = q[m + i]
  BY <1>4, <1>6 DEF ToSet
<1>10. \A x : x \in ToSet(l) <=> \E i \in 1..m : x = q[i]
  BY <1>5, <1>6 DEF ToSet
<1>11. \A x : x \in ToSet(q) <=> \E i \in 1..n : x = q[i]
  BY <1>1 DEF ToSet
<1>12. ASSUME NEW x, x \in ToSet(r) PROVE x \in ToSet(q) \ ToSet(l)
  <2>1. PICK i \in 1..(n - m) : x = q[m + i]
    BY <1>9, <1>12
  <2>2. m + i \in 1..n /\ m + i \notin 1..m /\ \A j \in 1..m : j \in 1..n
    BY <1>1
  <2>3. ~\E j \in 1..m : x = q[j]
    BY <1>7, <2>1, <2>2
  <2> QED
    BY <1>10, <1>11, <2>1, <2>2, <2>3
<1>13. ASSUME NEW x, x \in ToSet(q) \ ToSet(l) PROVE x \in ToSet(r)
  <2>1. PICK j \in 1..n : x = q[j]
    BY <1>11, <1>13
  <2>2. j \notin 1..m
    BY <1>10, <1>13, <2>1
  <2>3. j - m \in 1..(n - m) /\ m + (j - m) = j
    BY <1>1, <2>2
  <2> QED
    BY <1>9, <2>1, <2>3
<1> QED
  BY <1>0, <1>2, <1>3, <1>4, <1>8, <1>12, <1>13

\* What is put behind a queue it is not in.
LEMMA PutBehind ==
  ASSUME NEW q \in Seq(Viewed), IsInjective(q), NEW s \in Viewed, s \notin ToSet(q)
  PROVE  /\ Append(q, s) \in Seq(Viewed) /\ IsInjective(Append(q, s))
         /\ Len(Append(q, s)) = Len(q) + 1 /\ ToSet(Append(q, s)) = ToSet(q) \cup {s}
<1>0. PICK n \in Nat : n = Len(q)
  BY LenProperties
<1>1. DOMAIN q = 1..n
  BY <1>0, LenProperties
<1>2. PICK r : r = Append(q, s)
  OBVIOUS
<1>3. r \in Seq(Viewed) /\ Len(r) = n + 1 /\ (\A i \in 1..n : r[i] = q[i]) /\ r[n + 1] = s
  BY <1>0, <1>2, AppendProperties
<1>4. DOMAIN r = 1..(n + 1) /\ \A i \in 1..(n + 1) : i \in 1..n \/ i = n + 1
  BY <1>3, LenProperties
<1>5. \A i \in 1..n : i \in 1..(n + 1) /\ q[i] # s /\ i # n + 1
  BY <1>1 DEF ToSet
<1>6. \A i, j \in 1..n : q[i] = q[j] => i = j
  BY <1>1 DEF IsInjective
<1>7. IsInjective(r)
  BY <1>3, <1>4, <1>5, <1>6 DEF IsInjective
<1>8. n + 1 \in 1..(n + 1)
  OBVIOUS
<1>9. ToSet(r) = ToSet(q) \cup {s}
  BY <1>1, <1>3, <1>4, <1>5, <1>8 DEF ToSet
<1> QED
  BY <1>0, <1>2, <1>3, <1>7, <1>9

-----------------------------------------------------------------------------
(* The bridge. *)

\* A window that leaves some sessions takes nothing from the others, and nothing
\* of the other sessions from itself.
LEMMA DetachKeeps ==
  ASSUME NEW c, NEW t, NEW b, b = [conns |-> c, streams |-> t], BridgeOK(b), NEW w \in Clients, NEW S
  PROVE  /\ BridgeOK(Detached(b, w, S))
         /\ \A v \in Clients, s \in Viewed :
              Gets(b, v, s) /\ (v # w \/ s \notin S) => Gets(Detached(b, w, S), v, s)
<1>0. PICK n \in Nat : n = Len(t)
  BY LenProperties DEF BridgeOK
<1>1. /\ DOMAIN c \subseteq Viewed /\ c \in [DOMAIN c -> StreamIds] /\ t \in Seq(StreamRecords) /\ n <= MaxStreams
      /\ b.conns = c /\ b.streams = t
  BY <1>0 DEF BridgeOK
<1>2. \A s \in DOMAIN c : c[s] \in 1..n /\ t[c[s]].session = s /\ t[c[s]].state = "open"
  BY <1>0, <1>1 DEF BridgeOK, ConnsAreOpen
<1>3. \A k \in 1..n : t[k] \in StreamRecords
  BY <1>0, <1>1, ElementOfSeq
<1>4. PICK mine : mine = {s \in S : s \in DOMAIN c}
  OBVIOUS
<1>5. PICK ends : ends = {s \in mine : t[c[s]].subscribers \subseteq {w}}
  OBVIOUS
<1>6. PICK touched : touched = {c[s] : s \in mine}
  OBVIOUS
<1>7. PICK f : f = [k \in 1..n |->
     IF k \notin touched THEN t[k]
     ELSE LET left == t[k].subscribers \ {w} IN
          [t[k] EXCEPT !.subscribers = left, !.state = IF left = {} THEN "closing" ELSE @]]
  OBVIOUS
<1>8. PICK g : g = [s \in DOMAIN c \ ends |-> c[s]]
  OBVIOUS
<1>9. PICK d : d = Detached(b, w, S)
  OBVIOUS
<1>10. d.conns = g /\ d.streams = f
  BY <1>0, <1>1, <1>4, <1>5, <1>6, <1>7, <1>8, <1>9 DEF Detached
<1>11. \A k \in 1..n :
         /\ f[k] \in StreamRecords /\ f[k].session = t[k].session
         /\ k \notin touched => f[k] = t[k]
         /\ k \in touched => /\ f[k].subscribers = t[k].subscribers \ {w}
                             /\ ~(t[k].subscribers \subseteq {w}) => f[k].state = t[k].state
  <2> SUFFICES ASSUME NEW k \in 1..n
               PROVE  /\ f[k] \in StreamRecords /\ f[k].session = t[k].session
                      /\ k \notin touched => f[k] = t[k]
                      /\ k \in touched => /\ f[k].subscribers = t[k].subscribers \ {w}
                                          /\ ~(t[k].subscribers \subseteq {w}) => f[k].state = t[k].state
    OBVIOUS
  <2>1. t[k] \in StreamRecords
    BY <1>3
  <2>2. CASE k \notin touched
    BY <1>7, <2>1, <2>2
  <2>3. CASE k \in touched
    <3>1. PICK left : left = t[k].subscribers \ {w}
      OBVIOUS
    <3>2. PICK st : st = IF left = {} THEN "closing" ELSE t[k].state
      OBVIOUS
    <3>3. f[k] = [t[k] EXCEPT !.subscribers = left, !.state = st]
      BY <1>7, <2>3, <3>1, <3>2
    <3>4. left \in SUBSET Clients /\ st \in {"open", "closing", "closed", "dropped"}
      BY <2>1, <3>1, <3>2 DEF StreamRecords
    <3>5. ~(t[k].subscribers \subseteq {w}) => left # {}
      BY <3>1
    <3>6. f[k] \in StreamRecords /\ f[k].session = t[k].session /\ f[k].subscribers = left /\ f[k].state = st
      BY <2>1, <3>3, <3>4 DEF StreamRecords
    <3> QED
      BY <2>3, <3>1, <3>2, <3>5, <3>6
  <2> QED
    BY <2>2, <2>3
<1>12. f \in Seq(StreamRecords) /\ Len(f) = n
  <2>1. f \in [1..n -> StreamRecords]
    BY <1>7, <1>11
  <2> QED
    BY <2>1
<1>13. DOMAIN g = DOMAIN c \ ends /\ \A s \in DOMAIN g : s \in DOMAIN c /\ s \notin ends /\ g[s] = c[s]
  BY <1>8
<1>14. ASSUME NEW s \in DOMAIN g PROVE g[s] \in 1..n /\ f[g[s]].session = s /\ f[g[s]].state = "open"
  <2>1. s \in DOMAIN c /\ s \notin ends /\ g[s] = c[s] /\ c[s] \in 1..n /\ t[c[s]].session = s /\ t[c[s]].state = "open"
    BY <1>2, <1>13
  <2>2. CASE c[s] \in touched
    <3>1. PICK u \in mine : c[s] = c[u]
      BY <1>6, <2>2
    <3>2. u = s
      BY <1>2, <1>4, <2>1, <3>1
    <3>3. ~(t[c[s]].subscribers \subseteq {w})
      BY <1>5, <2>1, <3>1, <3>2
    <3> QED
      BY <1>11, <2>1, <2>2, <3>3
  <2>3. CASE c[s] \notin touched
    BY <1>11, <2>1, <2>3
  <2> QED
    BY <2>2, <2>3
<1>15. BridgeOK(d)
  <2>1. DOMAIN g \subseteq Viewed /\ g \in [DOMAIN g -> StreamIds]
    BY <1>1, <1>8, <1>13
  <2> QED
    BY <1>1, <1>10, <1>12, <1>14, <2>1 DEF BridgeOK, ConnsAreOpen
<1>16. ASSUME NEW v \in Clients, NEW s \in Viewed, Gets(b, v, s), v # w \/ s \notin S
       PROVE  Gets(d, v, s)
  <2>1. PICK k \in 1..n : t[k].session = s /\ v \in t[k].subscribers /\ t[k].state \in {"open", "dropped"}
    BY <1>0, <1>1, <1>16 DEF Gets
  <2>2. CASE k \notin touched
    BY <1>10, <1>11, <1>12, <2>1, <2>2 DEF Gets
  <2>3. CASE k \in touched
    <3>1. PICK u \in mine : k = c[u]
      BY <1>6, <2>3
    <3>2. u = s /\ s \in S
      BY <1>2, <1>4, <2>1, <3>1
    <3>3. v # w /\ ~(t[k].subscribers \subseteq {w})
      BY <1>16, <2>1, <3>2
    <3>4. v \in f[k].subscribers /\ f[k].state = t[k].state /\ f[k].session = s
      BY <1>11, <2>1, <2>3, <3>3
    <3> QED
      BY <1>10, <1>12, <2>1, <3>4 DEF Gets
  <2> QED
    BY <2>2, <2>3
<1> QED
  BY <1>9, <1>15, <1>16

\* A window that comes to a session joins its open stream or opens one, and
\* nobody loses anything.
LEMMA AttachKeeps ==
  ASSUME NEW c, NEW t, NEW b, b = [conns |-> c, streams |-> t], BridgeOK(b),
         NEW w \in Clients, NEW s \in Viewed, Len(t) < MaxStreams
  PROVE  /\ BridgeOK(Attached(b, w, s)) /\ Gets(Attached(b, w, s), w, s)
         /\ \A v \in Clients, u \in Viewed : Gets(b, v, u) => Gets(Attached(b, w, s), v, u)
<1>0. PICK n \in Nat : n = Len(t)
  BY LenProperties DEF BridgeOK
<1>1. /\ DOMAIN c \subseteq Viewed /\ c \in [DOMAIN c -> StreamIds] /\ t \in Seq(StreamRecords)
      /\ n < MaxStreams /\ MaxStreams \in Nat /\ b.conns = c /\ b.streams = t
  BY <1>0, ViewerBounds DEF BridgeOK
<1>2. \A u \in DOMAIN c : c[u] \in 1..n /\ t[c[u]].session = u /\ t[c[u]].state = "open"
  BY <1>0, <1>1 DEF BridgeOK, ConnsAreOpen
<1>3. \A k \in 1..n : t[k] \in StreamRecords
  BY <1>0, <1>1, ElementOfSeq
<1>4. PICK d : d = Attached(b, w, s)
  OBVIOUS
<1>5. CASE s \in DOMAIN c
  <2>1. PICK k \in 1..n : k = c[s]
    BY <1>2, <1>5
  <2>2. t[k].session = s /\ t[k].state = "open" /\ t[k] \in StreamRecords
    BY <1>2, <1>3, <1>5, <2>1
  <2>3. PICK x : x = [t[k] EXCEPT !.subscribers = t[k].subscribers \cup {w}]
    OBVIOUS
  <2>4. /\ x \in StreamRecords /\ x.session = s /\ x.state = "open" /\ w \in x.subscribers
        /\ t[k].subscribers \subseteq x.subscribers
    BY <2>2, <2>3 DEF StreamRecords
  <2>5. PICK f : f = [t EXCEPT ![k] = x]
    OBVIOUS
  <2>6. d.conns = c /\ d.streams = f
    BY <1>1, <1>4, <1>5, <2>1, <2>3, <2>5 DEF Attached
  <2>7. /\ f \in Seq(StreamRecords) /\ Len(f) = n /\ f[k] = x
        /\ \A j \in 1..n : j # k => f[j] = t[j]
    BY <1>0, <1>1, <2>4, <2>5, ExceptSeq
  <2>8. \A u \in DOMAIN c : c[u] \in 1..n /\ f[c[u]].session = u /\ f[c[u]].state = "open"
    BY <1>2, <2>2, <2>4, <2>7
  <2>9. BridgeOK(d)
    BY <1>1, <2>6, <2>7, <2>8 DEF BridgeOK, ConnsAreOpen
  <2>10. Gets(d, w, s)
    BY <2>4, <2>6, <2>7 DEF Gets
  <2>11. ASSUME NEW v \in Clients, NEW u \in Viewed, Gets(b, v, u) PROVE Gets(d, v, u)
    <3>1. PICK j \in 1..n : t[j].session = u /\ v \in t[j].subscribers /\ t[j].state \in {"open", "dropped"}
      BY <1>0, <1>1, <2>11 DEF Gets
    <3>2. f[j].session = u /\ v \in f[j].subscribers /\ f[j].state \in {"open", "dropped"}
      BY <2>2, <2>4, <2>7, <3>1
    <3> QED
      BY <2>6, <2>7, <3>2 DEF Gets
  <2> QED
    BY <1>4, <2>9, <2>10, <2>11
<1>6. CASE s \notin DOMAIN c
  <2>1. PICK x : x = [session |-> s, state |-> "open", subscribers |-> {w}]
    OBVIOUS
  <2>2. x \in StreamRecords /\ x.session = s /\ x.state = "open" /\ w \in x.subscribers
    BY <2>1 DEF StreamRecords
  <2>3. PICK f : f = Append(t, x)
    OBVIOUS
  <2>4. PICK g : g = With(c, s, n + 1)
    OBVIOUS
  <2>5. d.conns = g /\ d.streams = f
    BY <1>0, <1>1, <1>4, <1>6, <2>1, <2>3, <2>4 DEF Attached
  <2>6. /\ f \in Seq(StreamRecords) /\ Len(f) = n + 1 /\ f[n + 1] = x
        /\ \A j \in 1..n : f[j] = t[j] /\ j \in 1..(n + 1)
    BY <1>0, <1>1, <2>2, <2>3, AppendProperties
  <2>7. DOMAIN g = DOMAIN c \cup {s} /\ g[s] = n + 1 /\ \A u \in DOMAIN c : g[u] = c[u]
    BY <1>6, <2>4 DEF With
  <2>8. n + 1 \in StreamIds /\ n + 1 \in 1..(n + 1) /\ n + 1 <= MaxStreams
    BY <1>1 DEF StreamIds
  <2>9. DOMAIN g \subseteq Viewed /\ g \in [DOMAIN g -> StreamIds]
    <3>1. \A u \in DOMAIN g : g[u] \in StreamIds
      BY <1>1, <2>7, <2>8
    <3>2. g = [u \in DOMAIN g |-> g[u]]
      BY <2>4, <2>7 DEF With
    <3> QED
      BY <1>1, <2>7, <3>1, <3>2
  <2>10. \A u \in DOMAIN g : g[u] \in 1..(n + 1) /\ f[g[u]].session = u /\ f[g[u]].state = "open"
    BY <1>2, <2>2, <2>6, <2>7, <2>8
  <2>11. BridgeOK(d)
    BY <2>5, <2>6, <2>8, <2>9, <2>10 DEF BridgeOK, ConnsAreOpen
  <2>12. Gets(d, w, s)
    BY <2>2, <2>5, <2>6, <2>8 DEF Gets
  <2>13. ASSUME NEW v \in Clients, NEW u \in Viewed, Gets(b, v, u) PROVE Gets(d, v, u)
    <3>1. PICK j \in 1..n : t[j].session = u /\ v \in t[j].subscribers /\ t[j].state \in {"open", "dropped"}
      BY <1>0, <1>1, <2>13 DEF Gets
    <3> QED
      BY <2>5, <2>6, <3>1 DEF Gets
  <2> QED
    BY <1>4, <2>11, <2>12, <2>13
<1> QED
  BY <1>5, <1>6

\* The bridge after the close of stream k.
Closed(b, k, st) ==
  [conns |-> Drop(b.conns, b.streams[k].session), streams |-> [b.streams EXCEPT ![k].state = st]]

\* The close of a stream takes nothing from a window but what it had left.
LEMMA CloseKeeps ==
  ASSUME NEW c, NEW t, NEW b, b = [conns |-> c, streams |-> t], BridgeOK(b),
         NEW k \in 1..Len(t), NEW st \in {"closed", "dropped"}, t[k].state = "open" => st = "dropped",
         t[k].state \in {"open", "closing"},
         NEW d, d = Closed(b, k, st)
  PROVE  BridgeOK(d) /\ \A v \in Clients, u \in Viewed : Gets(b, v, u) => Gets(d, v, u)
<1>0. PICK n \in Nat : n = Len(t)
  BY LenProperties DEF BridgeOK
<1>1. /\ DOMAIN c \subseteq Viewed /\ c \in [DOMAIN c -> StreamIds] /\ t \in Seq(StreamRecords) /\ n <= MaxStreams
      /\ b.conns = c /\ b.streams = t
  BY <1>0 DEF BridgeOK
<1>2. \A u \in DOMAIN c : c[u] \in 1..n /\ t[c[u]].session = u /\ t[c[u]].state = "open"
  BY <1>0, <1>1 DEF BridgeOK, ConnsAreOpen
<1>3. t[k] \in StreamRecords
  BY <1>1, ElementOfSeq
<1>4. PICK x : x = [t[k] EXCEPT !.state = st]
  OBVIOUS
<1>5. x \in StreamRecords /\ x.session = t[k].session /\ x.state = st /\ x.subscribers = t[k].subscribers
  BY <1>3, <1>4 DEF StreamRecords
<1>6. PICK f : f = [t EXCEPT ![k] = x]
  OBVIOUS
<1>7. f \in Seq(StreamRecords) /\ Len(f) = n /\ f[k] = x /\ \A j \in 1..n : j # k => f[j] = t[j]
  BY <1>0, <1>1, <1>5, <1>6, ExceptSeq
<1>8. PICK g : g = Drop(c, t[k].session)
  OBVIOUS
<1>9. d.conns = g /\ d.streams = f
  BY <1>1, <1>4, <1>6, <1>8 DEF Closed
<1>10. DOMAIN g = DOMAIN c \ {t[k].session} /\ (\A u \in DOMAIN g : g[u] = c[u]) /\ g \in [DOMAIN g -> StreamIds]
  BY <1>1, <1>8 DEF Drop
<1>11. \A u \in DOMAIN g : g[u] \in 1..n /\ f[g[u]].session = u /\ f[g[u]].state = "open"
  <2> SUFFICES ASSUME NEW u \in DOMAIN g PROVE g[u] \in 1..n /\ f[g[u]].session = u /\ f[g[u]].state = "open"
    OBVIOUS
  <2>1. u \in DOMAIN c /\ u # t[k].session /\ g[u] = c[u]
    BY <1>10
  <2>2. c[u] \in 1..n /\ t[c[u]].session = u /\ t[c[u]].state = "open" /\ c[u] # k
    BY <1>2, <2>1
  <2> QED
    BY <1>7, <2>1, <2>2
<1>12. BridgeOK(d)
  <2>1. DOMAIN d.conns \subseteq Viewed /\ d.conns \in [DOMAIN d.conns -> StreamIds]
    BY <1>1, <1>9, <1>10
  <2>2. d.streams \in Seq(StreamRecords) /\ Len(d.streams) <= MaxStreams
    BY <1>1, <1>7, <1>9
  <2>3. ConnsAreOpen(d)
    BY <1>7, <1>9, <1>11 DEF ConnsAreOpen
  <2> QED
    BY <2>1, <2>2, <2>3 DEF BridgeOK
<1>13. ASSUME NEW v \in Clients, NEW u \in Viewed, Gets(b, v, u) PROVE Gets(d, v, u)
  <2>1. PICK j \in 1..n : t[j].session = u /\ v \in t[j].subscribers /\ t[j].state \in {"open", "dropped"}
    BY <1>0, <1>1, <1>13 DEF Gets
  <2>2. f[j].session = u /\ v \in f[j].subscribers /\ f[j].state \in {"open", "dropped"}
    <3>1. CASE j = k
      BY <1>5, <1>7, <2>1, <3>1
    <3>2. CASE j # k
      BY <1>7, <2>1, <3>2
    <3> QED
      BY <3>1, <3>2
  <2> QED
    BY <1>7, <1>9, <2>2 DEF Gets
<1> QED
  BY <1>12, <1>13

-----------------------------------------------------------------------------
(* The windows. *)

\* What the invariant says of the bridge.
LEMMA InvGives ==
  ASSUME ViewerInv
  PROVE  /\ BridgeOK(Bridge) /\ CacheIsTight
         /\ \A w \in Clients, s \in Viewed : s \in cache[w] => Gets(Bridge, w, s)
<1>1. Bridge.conns = connections /\ Bridge.streams = streams
  BY DEF Bridge
<1>2. DOMAIN connections \subseteq Viewed /\ connections \in [DOMAIN connections -> StreamIds]
  BY DEF ViewerInv, ViewerTypeOK
<1>3. streams \in Seq(StreamRecords) /\ Len(streams) <= MaxStreams /\ DOMAIN streams = 1..Len(streams)
  BY LenProperties DEF ViewerInv, ViewerTypeOK
<1>4. BridgeOK(Bridge)
  BY <1>1, <1>2, <1>3 DEF BridgeOK, ViewerInv
<1>5. ASSUME NEW w \in Clients, NEW s \in Viewed, s \in cache[w] PROVE Gets(Bridge, w, s)
  BY <1>1, <1>3, <1>5 DEF ViewerInv, CacheIsKept, KeptStaysSubscribed, Gets
<1> QED
  BY <1>4, <1>5 DEF ViewerInv, CacheIsKept

\* What it needs of the bridge after a step.
LEMMA InvFrom ==
  ASSUME cache' \in [Clients -> SUBSET Viewed], views' \in [Clients -> SUBSET Viewed],
         parked' \in [Clients -> Seq(Viewed)], closed' \subseteq Clients,
         BridgeOK(Bridge)', CacheIsTight',
         \A w \in Clients, s \in Viewed : s \in cache'[w] => Gets(Bridge, w, s)'
  PROVE  ViewerInv'
<1>1. Bridge'.conns = connections' /\ Bridge'.streams = streams'
  BY DEF Bridge
<1>2. /\ DOMAIN connections' \subseteq Viewed /\ connections' \in [DOMAIN connections' -> StreamIds]
      /\ streams' \in Seq(StreamRecords) /\ Len(streams') <= MaxStreams
  BY <1>1 DEF BridgeOK
<1>3. DOMAIN streams' = 1..Len(streams')
  BY <1>2, LenProperties
<1>4. connections' \in UNION {[D -> StreamIds] : D \in SUBSET Viewed}
  BY <1>2
<1>5. ViewerTypeOK'
  BY <1>2, <1>4 DEF ViewerTypeOK
<1>6. ASSUME NEW w \in Clients, NEW s \in cache'[w]
      PROVE  \E k \in DOMAIN streams' : streams'[k].session = s /\ w \in streams'[k].subscribers
                                        /\ streams'[k].state \in {"open", "dropped"}
  <2>1. s \in Viewed
    OBVIOUS
  <2>2. Gets(Bridge, w, s)'
    BY <2>1
  <2> QED
    BY <1>1, <1>3, <2>2 DEF Gets
<1>7. KeptStaysSubscribed'
  BY <1>6 DEF KeptStaysSubscribed
<1> QED
  BY <1>5, <1>7 DEF ViewerInv, BridgeOK, CacheIsKept

\* One window's cache is tight.
Tight(w) == IsInjective(parked[w]) /\ Len(parked[w]) <= MaxParked /\ ToSet(parked[w]) = cache[w] \ views[w]

\* At first no window keeps anything.
LEMMA ViewerInitInv == ViewerInit => ViewerInv
<1> SUFFICES ASSUME ViewerInit PROVE ViewerInv
  OBVIOUS
<1>1. <<>> \in Seq(Viewed) /\ <<>> \in Seq(StreamRecords) /\ Len(<<>>) = 0 /\ MaxParked \in Nat /\ MaxStreams \in Nat
  BY EmptySeq, ViewerBounds
<1>2. DOMAIN <<>> = {} /\ <<>> \in [{} -> StreamIds] /\ ToSet(<<>>) = {} /\ IsInjective(<<>>)
  <2>1. DOMAIN <<>> = {}
    OBVIOUS
  <2>2. <<>> \in [{} -> StreamIds]
    OBVIOUS
  <2> QED
    BY <2>1, <2>2 DEF ToSet, IsInjective
<1>3. ViewerTypeOK
  <2>1. connections \in UNION {[D -> StreamIds] : D \in SUBSET Viewed}
    BY <1>2 DEF ViewerInit
  <2> QED
    BY <1>1, <2>1 DEF ViewerInit, ViewerTypeOK
<1>4. ConnsAreOpen(Bridge)
  BY <1>2 DEF ViewerInit, ConnsAreOpen, Bridge
<1>5. CacheIsTight
  BY <1>1, <1>2 DEF ViewerInit, CacheIsTight
<1>6. KeptStaysSubscribed
  BY DEF ViewerInit, KeptStaysSubscribed
<1> QED
  BY <1>3, <1>4, <1>5, <1>6 DEF ViewerInv, CacheIsKept

\* A view comes up: the instance is taken back from the parked ones, or made.
LEMMA MountStep ==
  ASSUME ViewerInv, NEW w \in Clients, NEW s \in Viewed, Mount(w, s)
  PROVE  ViewerInv'
<1>1. /\ BridgeOK(Bridge) /\ CacheIsTight
      /\ \A v \in Clients, u \in Viewed : u \in cache[v] => Gets(Bridge, v, u)
  BY InvGives
<1>2. /\ cache \in [Clients -> SUBSET Viewed] /\ views \in [Clients -> SUBSET Viewed]
      /\ parked \in [Clients -> Seq(Viewed)] /\ closed \subseteq Clients
  BY DEF ViewerInv, ViewerTypeOK
<1>3. PICK q : q = RemoveFirst(parked[w], s)
  OBVIOUS
<1>4. /\ views' = [views EXCEPT ![w] = views[w] \cup {s}] /\ parked' = [parked EXCEPT ![w] = q]
      /\ cache' = [cache EXCEPT ![w] = cache[w] \cup {s}] /\ closed' = closed /\ s \notin views[w]
  BY <1>2, <1>3 DEF Mount, Unparked
<1>5. parked[w] \in Seq(Viewed) /\ Tight(w)
  BY <1>1, <1>2 DEF CacheIsTight, Tight
<1>6. q \in Seq(Viewed) /\ IsInjective(q) /\ Len(q) <= Len(parked[w]) /\ ToSet(q) = ToSet(parked[w]) \ {s}
  BY <1>3, <1>5, TakenOut DEF Tight
<1>7. Len(q) <= MaxParked
  BY <1>5, <1>6, LenProperties, ViewerBounds DEF Tight
<1>8. ToSet(q) = (cache[w] \cup {s}) \ (views[w] \cup {s})
  BY <1>4, <1>5, <1>6 DEF Tight
<1>9. CacheIsTight'
  BY <1>1, <1>2, <1>4, <1>6, <1>7, <1>8 DEF CacheIsTight
<1>10. BridgeOK(Bridge)' /\ \A v \in Clients, u \in Viewed : u \in cache'[v] => Gets(Bridge, v, u)'
  <2>1. CASE s \in cache[w]
    <3>1. Bridge' = Bridge /\ cache' = cache
      BY <1>2, <1>4, <2>1 DEF Mount, bridgeVars, Bridge
    <3>2. \A v, u : Gets(Bridge, v, u)' <=> Gets(Bridge, v, u)
      BY <3>1 DEF Gets
    <3> QED
      BY <1>1, <3>1, <3>2 DEF BridgeOK, ConnsAreOpen
  <2>2. CASE s \notin cache[w]
    <3>1. Len(streams) < MaxStreams /\ Become(Attached(Bridge, w, s))
      BY <2>2 DEF Mount
    <3>2. PICK b : b = Bridge
      OBVIOUS
    <3>3. b = [conns |-> connections, streams |-> streams]
      BY <3>2 DEF Bridge
    <3>4. PICK d : d = Attached(b, w, s)
      OBVIOUS
    <3>5. /\ BridgeOK(d) /\ Gets(d, w, s)
          /\ \A v \in Clients, u \in Viewed : Gets(b, v, u) => Gets(d, v, u)
      BY <1>1, <3>1, <3>2, <3>3, <3>4, AttachKeeps
    <3>6. Bridge'.conns = d.conns /\ Bridge'.streams = d.streams
      BY <3>1, <3>2, <3>4 DEF Become, Bridge
    <3>7. BridgeOK(Bridge)' /\ \A v, u : Gets(d, v, u) => Gets(Bridge, v, u)'
      BY <3>5, <3>6 DEF BridgeOK, ConnsAreOpen, Gets
    <3>8. \A v \in Clients, u \in Viewed : u \in cache'[v] => u \in cache[v] \/ (v = w /\ u = s)
      BY <1>2, <1>4
    <3> QED
      BY <1>1, <3>2, <3>5, <3>7, <3>8
  <2> QED
    BY <2>1, <2>2
<1>11. /\ cache' \in [Clients -> SUBSET Viewed] /\ views' \in [Clients -> SUBSET Viewed]
       /\ parked' \in [Clients -> Seq(Viewed)] /\ closed' \subseteq Clients
  BY <1>2, <1>4, <1>6
<1> QED
  BY <1>9, <1>10, <1>11, InvFrom

\* What a window leaves is not in its cache any more.
LEMMA LeaveKeeps ==
  ASSUME ViewerInv, NEW w \in Clients, NEW S, Become(Detached(Bridge, w, S)),
         \A v \in Clients, u \in Viewed : u \in cache'[v] => u \in cache[v] /\ (v # w \/ u \notin S)
  PROVE  BridgeOK(Bridge)' /\ \A v \in Clients, u \in Viewed : u \in cache'[v] => Gets(Bridge, v, u)'
<1>1. BridgeOK(Bridge) /\ \A v \in Clients, u \in Viewed : u \in cache[v] => Gets(Bridge, v, u)
  BY InvGives
<1>2. PICK b : b = Bridge
  OBVIOUS
<1>3. b = [conns |-> connections, streams |-> streams]
  BY <1>2 DEF Bridge
<1>4. PICK d : d = Detached(b, w, S)
  OBVIOUS
<1>5. /\ BridgeOK(d)
      /\ \A v \in Clients, u \in Viewed : Gets(b, v, u) /\ (v # w \/ u \notin S) => Gets(d, v, u)
  BY <1>1, <1>2, <1>3, <1>4, DetachKeeps
<1>6. Bridge'.conns = d.conns /\ Bridge'.streams = d.streams
  BY <1>2, <1>4 DEF Become, Bridge
<1>7. BridgeOK(Bridge)' /\ \A v, u : Gets(d, v, u) => Gets(Bridge, v, u)'
  BY <1>5, <1>6 DEF BridgeOK, ConnsAreOpen, Gets
<1> QED
  BY <1>1, <1>2, <1>5, <1>7

\* A view goes away: its instance is parked and the oldest ones are evicted, or
\* it was torn down before.
LEMMA UnmountStep ==
  ASSUME ViewerInv, NEW w \in Clients, NEW s \in Viewed, Unmount(w, s)
  PROVE  ViewerInv'
<1>1. /\ BridgeOK(Bridge) /\ CacheIsTight
      /\ \A v \in Clients, u \in Viewed : u \in cache[v] => Gets(Bridge, v, u)
  BY InvGives
<1>2. /\ cache \in [Clients -> SUBSET Viewed] /\ views \in [Clients -> SUBSET Viewed]
      /\ parked \in [Clients -> Seq(Viewed)] /\ closed \subseteq Clients
  BY DEF ViewerInv, ViewerTypeOK
<1>3. parked[w] \in Seq(Viewed) /\ Tight(w)
  BY <1>1, <1>2 DEF CacheIsTight, Tight
<1>4. views' = [views EXCEPT ![w] = views[w] \ {s}] /\ closed' = closed /\ s \in views[w]
  BY <1>2 DEF Unmount
<1>5. CASE s \in cache[w]
  <2>1. PICK order : order = Append(parked[w], s)
    OBVIOUS
  <2>2. s \notin ToSet(parked[w])
    BY <1>3, <1>4 DEF Tight
  <2>3. /\ order \in Seq(Viewed) /\ IsInjective(order) /\ ToSet(order) = ToSet(parked[w]) \cup {s}
        /\ Len(order) \in Nat
    BY <1>3, <2>1, <2>2, PutBehind, LenProperties DEF Tight
  <2>4. PICK over : over = IF Len(order) > MaxParked THEN Len(order) - MaxParked ELSE 0
    OBVIOUS
  <2>5. over \in Nat /\ over <= Len(order) /\ Len(order) - over <= MaxParked
    BY <2>3, <2>4, ViewerBounds
  <2>6. PICK evicted : evicted = ToSet(SubSeq(order, 1, over))
    OBVIOUS
  <2>7. PICK q : q = SubSeq(order, over + 1, Len(order))
    OBVIOUS
  <2>8. q \in Seq(Viewed) /\ IsInjective(q) /\ Len(q) = Len(order) - over /\ ToSet(q) = ToSet(order) \ evicted
    BY <2>3, <2>5, <2>6, <2>7, FirstOut
  <2>9. /\ parked' = [parked EXCEPT ![w] = q] /\ cache' = [cache EXCEPT ![w] = cache[w] \ evicted]
        /\ Become(Detached(Bridge, w, evicted \cap cache[w]))
    BY <1>2, <1>5, <2>1, <2>4, <2>6, <2>7 DEF Unmount, StillCached
  <2>10. ToSet(q) = (cache[w] \ evicted) \ (views[w] \ {s})
    BY <1>3, <1>5, <2>3, <2>8 DEF Tight
  <2>11. CacheIsTight'
    BY <1>1, <1>2, <1>4, <2>5, <2>8, <2>9, <2>10 DEF CacheIsTight
  <2>12. \A v \in Clients, u \in Viewed : u \in cache'[v] => u \in cache[v] /\ (v # w \/ u \notin evicted \cap cache[w])
    BY <1>2, <2>9
  <2>13. BridgeOK(Bridge)' /\ \A v \in Clients, u \in Viewed : u \in cache'[v] => Gets(Bridge, v, u)'
    BY <2>9, <2>12, LeaveKeeps
  <2>14. /\ cache' \in [Clients -> SUBSET Viewed] /\ views' \in [Clients -> SUBSET Viewed]
         /\ parked' \in [Clients -> Seq(Viewed)] /\ closed' \subseteq Clients
    BY <1>2, <1>4, <2>8, <2>9
  <2> QED
    BY <2>11, <2>13, <2>14, InvFrom
<1>6. CASE s \notin cache[w]
  <2>1. UNCHANGED <<parked, cache, bridgeVars>>
    BY <1>6 DEF Unmount, StillCached
  <2>2. cache[w] \ (views[w] \ {s}) = cache[w] \ views[w]
    BY <1>6
  <2>3. CacheIsTight'
    BY <1>1, <1>2, <1>4, <2>1, <2>2 DEF CacheIsTight
  <2>4. Bridge' = Bridge /\ cache' = cache
    BY <2>1 DEF bridgeVars, Bridge
  <2>5. BridgeOK(Bridge)' /\ \A v, u : Gets(Bridge, v, u)' <=> Gets(Bridge, v, u)
    BY <1>1, <2>4 DEF BridgeOK, ConnsAreOpen, Gets
  <2>6. /\ cache' \in [Clients -> SUBSET Viewed] /\ views' \in [Clients -> SUBSET Viewed]
        /\ parked' \in [Clients -> Seq(Viewed)] /\ closed' \subseteq Clients
    BY <1>2, <1>4, <2>1
  <2> QED
    BY <1>1, <2>3, <2>4, <2>5, <2>6, InvFrom
<1> QED
  BY <1>5, <1>6

\* A pane is closed: its instance is torn down.
LEMMA DisposeStep ==
  ASSUME ViewerInv, NEW w \in Clients, NEW s \in Viewed, Dispose(w, s)
  PROVE  ViewerInv'
<1>1. CacheIsTight
  BY InvGives
<1>2. /\ cache \in [Clients -> SUBSET Viewed] /\ views \in [Clients -> SUBSET Viewed]
      /\ parked \in [Clients -> Seq(Viewed)] /\ closed \subseteq Clients
  BY DEF ViewerInv, ViewerTypeOK
<1>3. PICK q : q = RemoveFirst(parked[w], s)
  OBVIOUS
<1>4. /\ parked' = [parked EXCEPT ![w] = q] /\ cache' = [cache EXCEPT ![w] = cache[w] \ {s}]
      /\ views' = views /\ closed' = closed /\ Become(Detached(Bridge, w, {s}))
  BY <1>2, <1>3 DEF Dispose, Unparked
<1>5. parked[w] \in Seq(Viewed) /\ Tight(w)
  BY <1>1, <1>2 DEF CacheIsTight, Tight
<1>6. q \in Seq(Viewed) /\ IsInjective(q) /\ Len(q) <= Len(parked[w]) /\ ToSet(q) = ToSet(parked[w]) \ {s}
  BY <1>3, <1>5, TakenOut DEF Tight
<1>7. Len(q) <= MaxParked
  BY <1>5, <1>6, LenProperties, ViewerBounds DEF Tight
<1>8. ToSet(q) = (cache[w] \ {s}) \ views[w]
  BY <1>5, <1>6 DEF Tight
<1>9. CacheIsTight'
  BY <1>1, <1>2, <1>4, <1>6, <1>7, <1>8 DEF CacheIsTight
<1>10. \A v \in Clients, u \in Viewed : u \in cache'[v] => u \in cache[v] /\ (v # w \/ u \notin {s})
  BY <1>2, <1>4
<1>11. BridgeOK(Bridge)' /\ \A v \in Clients, u \in Viewed : u \in cache'[v] => Gets(Bridge, v, u)'
  BY <1>4, <1>10, LeaveKeeps
<1>12. /\ cache' \in [Clients -> SUBSET Viewed] /\ views' \in [Clients -> SUBSET Viewed]
       /\ parked' \in [Clients -> Seq(Viewed)] /\ closed' \subseteq Clients
  BY <1>2, <1>4, <1>6
<1> QED
  BY <1>9, <1>11, <1>12, InvFrom

\* A window is closed.
LEMMA CloseWindowStep ==
  ASSUME ViewerInv, NEW w \in Clients, CloseWindow(w)
  PROVE  ViewerInv'
<1>1. CacheIsTight
  BY InvGives
<1>2. /\ cache \in [Clients -> SUBSET Viewed] /\ views \in [Clients -> SUBSET Viewed]
      /\ parked \in [Clients -> Seq(Viewed)] /\ closed \subseteq Clients
  BY DEF ViewerInv, ViewerTypeOK
<1>3. /\ parked' = [parked EXCEPT ![w] = <<>>] /\ cache' = [cache EXCEPT ![w] = {}]
      /\ views' = [views EXCEPT ![w] = {}] /\ closed' = closed \cup {w}
      /\ Become(Detached(Bridge, w, DOMAIN Bridge.conns))
  BY DEF CloseWindow, DetachAll
<1>4. <<>> \in Seq(Viewed) /\ IsInjective(<<>>) /\ Len(<<>>) = 0 /\ ToSet(<<>>) = {} /\ 0 <= MaxParked
  <2>1. DOMAIN <<>> = {}
    OBVIOUS
  <2> QED
    BY <2>1, EmptySeq, ViewerBounds DEF ToSet, IsInjective
<1>5. CacheIsTight'
  BY <1>1, <1>2, <1>3, <1>4 DEF CacheIsTight
<1>6. \A v \in Clients, u \in Viewed : u \in cache'[v] => u \in cache[v] /\ (v # w \/ u \notin DOMAIN Bridge.conns)
  BY <1>2, <1>3
<1>7. BridgeOK(Bridge)' /\ \A v \in Clients, u \in Viewed : u \in cache'[v] => Gets(Bridge, v, u)'
  BY <1>3, <1>6, LeaveKeeps
<1>8. /\ cache' \in [Clients -> SUBSET Viewed] /\ views' \in [Clients -> SUBSET Viewed]
      /\ parked' \in [Clients -> Seq(Viewed)] /\ closed' \subseteq Clients
  BY <1>2, <1>3, <1>4
<1> QED
  BY <1>5, <1>7, <1>8, InvFrom

\* A stream closes.
LEMMA StreamClosesStep ==
  ASSUME ViewerInv, NEW k \in DOMAIN streams, StreamCloses(k)
  PROVE  ViewerInv'
<1>1. /\ BridgeOK(Bridge) /\ CacheIsTight
      /\ \A v \in Clients, u \in Viewed : u \in cache[v] => Gets(Bridge, v, u)
  BY InvGives
<1>2. /\ cache \in [Clients -> SUBSET Viewed] /\ views \in [Clients -> SUBSET Viewed]
      /\ parked \in [Clients -> Seq(Viewed)] /\ closed \subseteq Clients
      /\ k \in 1..Len(streams) /\ streams \in Seq(StreamRecords)
  BY LenProperties DEF ViewerInv, ViewerTypeOK
<1>3. UNCHANGED <<cache, parked, views, closed>> /\ streams[k].state \in {"open", "closing"}
  BY DEF StreamCloses, rendererVars
<1>4. PICK st : st = IF streams[k].state = "closing" THEN "closed" ELSE "dropped"
  OBVIOUS
<1>5. st \in {"closed", "dropped"} /\ (streams[k].state = "open" => st = "dropped")
  BY <1>4
<1>6. PICK b : b = Bridge
  OBVIOUS
<1>7. b = [conns |-> connections, streams |-> streams]
  BY <1>6 DEF Bridge
<1>8. PICK d : d = Closed(b, k, st)
  OBVIOUS
<1>9. BridgeOK(d) /\ \A v \in Clients, u \in Viewed : Gets(b, v, u) => Gets(d, v, u)
  BY <1>1, <1>2, <1>3, <1>5, <1>6, <1>7, <1>8, CloseKeeps
<1>10. streams[k] \in StreamRecords
  BY <1>2, ElementOfSeq
<1>11. connections' = d.conns /\ streams' = d.streams
  BY <1>2, <1>4, <1>7, <1>8, <1>10 DEF StreamCloses, Become, Closed
<1>12. Bridge'.conns = d.conns /\ Bridge'.streams = d.streams
  BY <1>11 DEF Bridge
<1>13. BridgeOK(Bridge)' /\ \A v, u : Gets(d, v, u) => Gets(Bridge, v, u)'
  BY <1>9, <1>12 DEF BridgeOK, ConnsAreOpen, Gets
<1>14. CacheIsTight'
  BY <1>1, <1>3 DEF CacheIsTight
<1>15. /\ cache' \in [Clients -> SUBSET Viewed] /\ views' \in [Clients -> SUBSET Viewed]
       /\ parked' \in [Clients -> Seq(Viewed)] /\ closed' \subseteq Clients
  BY <1>2, <1>3
<1>16. \A v \in Clients, u \in Viewed : u \in cache'[v] => Gets(Bridge, v, u)'
  BY <1>1, <1>3, <1>6, <1>9, <1>13
<1> QED
  BY <1>13, <1>14, <1>15, <1>16, InvFrom

\* Every step keeps it.
LEMMA ViewerInductive == ViewerInv /\ [ViewersNext]_viewerVars => ViewerInv'
<1> SUFFICES ASSUME ViewerInv, [ViewersNext]_viewerVars PROVE ViewerInv'
  OBVIOUS
<1>1. CASE ViewersNext
  BY <1>1, MountStep, UnmountStep, DisposeStep, CloseWindowStep, StreamClosesStep DEF ViewersNext
<1>2. CASE UNCHANGED viewerVars
  <2>1. UNCHANGED <<cache, parked, views, closed, connections, streams>>
    BY <1>2 DEF viewerVars
  <2> QED
    BY <2>1 DEF ViewerInv, ViewerTypeOK, ConnsAreOpen, Bridge, CacheIsKept, CacheIsTight, KeptStaysSubscribed
<1> QED
  BY <1>1, <1>2

\* For any number of windows, sessions, streams and parked terminals: the types,
\* a connection is an open stream of its session, and what a window keeps.
THEOREM ViewerInvariant == ViewersSpec => []ViewerInv
BY ViewerInitInv, ViewerInductive, PTL DEF ViewersSpec

\* Terminals.tsx, the cache: an instance is on screen or parked within the cap,
\* and stays subscribed to its session until it is torn down or the daemon ends
\* the stream, whatever other windows and late close events do.
THEOREM KeptTerminalsLive == ViewersSpec => []CacheIsKept
<1>1. ViewerInv => CacheIsKept
  BY DEF ViewerInv
<1> QED
  BY <1>1, ViewerInvariant, PTL

-----------------------------------------------------------------------------
(***************************************************************************)
(* Tabs: for any number of windows, tabs, panes and sessions.              *)
(***************************************************************************)

\* The tree of a tab: some panes, each with a session or empty.
LEMMA TreeFacts ==
  ASSUME NEW t
  PROVE  t \in Trees <=> /\ t = [p \in DOMAIN t |-> t[p]]
                         /\ DOMAIN t \subseteq Panes /\ DOMAIN t # {}
                         /\ \A p \in DOMAIN t : t[p] \in Sessions \cup {Empty}
<1>1. ASSUME t \in Trees
      PROVE  /\ t = [p \in DOMAIN t |-> t[p]]
             /\ DOMAIN t \subseteq Panes /\ DOMAIN t # {}
             /\ \A p \in DOMAIN t : t[p] \in Sessions \cup {Empty}
  <2>1. PICK P \in (SUBSET Panes) \ {{}} : t \in [P -> Sessions \cup {Empty}]
    BY <1>1 DEF Trees
  <2> QED
    BY <2>1
<1>2. ASSUME t = [p \in DOMAIN t |-> t[p]], DOMAIN t \subseteq Panes, DOMAIN t # {},
             \A p \in DOMAIN t : t[p] \in Sessions \cup {Empty}
      PROVE  t \in Trees
  <2>1. DOMAIN t \in (SUBSET Panes) \ {{}}
    BY <1>2
  <2>2. t \in [DOMAIN t -> Sessions \cup {Empty}]
    BY <1>2
  <2> QED
    BY <2>1, <2>2 DEF Trees
<1> QED
  BY <1>1, <1>2

\* A list of tabs: some tabs, each with its tree.
LEMMA ListFacts ==
  ASSUME NEW l
  PROVE  l \in Lists <=> /\ l = [k \in DOMAIN l |-> l[k]]
                         /\ DOMAIN l \subseteq TabIds /\ \A k \in DOMAIN l : l[k] \in Trees
<1>1. ASSUME l \in Lists
      PROVE  /\ l = [k \in DOMAIN l |-> l[k]]
             /\ DOMAIN l \subseteq TabIds /\ \A k \in DOMAIN l : l[k] \in Trees
  <2>1. PICK T \in SUBSET TabIds : l \in [T -> Trees]
    BY <1>1 DEF Lists
  <2> QED
    BY <2>1
<1>2. ASSUME l = [k \in DOMAIN l |-> l[k]], DOMAIN l \subseteq TabIds, \A k \in DOMAIN l : l[k] \in Trees
      PROVE  l \in Lists
  <2>1. l \in [DOMAIN l -> Trees]
    BY <1>2
  <2> QED
    BY <1>2, <2>1 DEF Lists
<1> QED
  BY <1>1, <1>2

\* What the operations on trees make are trees.
LEMMA TreeOps ==
  ASSUME NEW t \in Trees, NEW p \in Panes, NEW s \in Sessions \cup {Empty}
  PROVE  /\ Holding(t, p, s) \in Trees /\ EmptyTree(p) \in Trees
         /\ \A r : Remap(t, r, s) \in Trees
<1>0. /\ DOMAIN t \subseteq Panes /\ DOMAIN t # {}
      /\ \A q \in DOMAIN t : t[q] \in Sessions \cup {Empty}
  BY TreeFacts
<1>1. Holding(t, p, s) \in Trees
  BY <1>0, TreeFacts DEF Holding
<1>2. EmptyTree(p) \in Trees
  BY TreeFacts DEF EmptyTree
<1>3. ASSUME NEW r PROVE Remap(t, r, s) \in Trees
  BY <1>0, TreeFacts DEF Remap
<1> QED
  BY <1>1, <1>2, <1>3

\* A tree without a pane: where none would be left there is a fresh one.
LEMMA WithoutIsTree ==
  ASSUME TabTypeOK, NEW t \in Trees, NEW q, UsePaneFor(t, q)
  PROVE  /\ Without(t, q, nextIds.pane) \in Trees
         /\ nextIds' \in [pane : 1..(MaxPanes + 1), session : 1..(MaxSessions + 1), tab : 1..(MaxTabs + 1)]
<1>0. /\ nextIds \in [pane : 1..(MaxPanes + 1), session : 1..(MaxSessions + 1), tab : 1..(MaxTabs + 1)]
      /\ MaxPanes \in Nat
  BY TabBounds DEF TabTypeOK
<1>1. CASE DOMAIN t = {q}
  <2>1. nextIds.pane \in Panes /\ nextIds' = [nextIds EXCEPT !.pane = @ + 1]
    BY <1>1 DEF UsePaneFor, PaneIsFree, UsePane
  <2>2. nextIds.pane + 1 \in 1..(MaxPanes + 1)
    BY <1>0, <2>1 DEF Panes
  <2> QED
    BY <1>0, <1>1, <2>1, <2>2, TreeOps DEF Without
<1>2. CASE DOMAIN t # {q}
  <2>1. DOMAIN t \subseteq Panes /\ DOMAIN t # {} /\ \A p \in DOMAIN t : t[p] \in Sessions \cup {Empty}
    BY TreeFacts
  <2>2. DOMAIN t \ {q} # {}
    BY <1>2, <2>1
  <2>3. Without(t, q, nextIds.pane) \in Trees
    BY <1>2, <2>1, <2>2, TreeFacts DEF Without, Restrict
  <2> QED
    BY <1>0, <1>2, <2>3 DEF UsePaneFor
<1> QED
  BY <1>1, <1>2

\* The types, in the parts that most actions leave alone.
IdsOK == nextIds \in [pane : 1..(MaxPanes + 1), session : 1..(MaxSessions + 1), tab : 1..(MaxTabs + 1)]
StoreOK == saved \in Lists /\ live \subseteq Sessions
CallsOK ==
  /\ asked \subseteq Handlers
  /\ \A a \in answered : a.call \in Handlers /\ a.got \in GotFor(a.call)
WindowsOK ==
  /\ shown \in [Windows -> Lists] /\ patches \subseteq [tab : TabIds, tree : Trees]
PollsOK == poll \in [Windows -> Lists \cup {NoReply}]
HandsOK == editing \subseteq Windows /\ gripping \subseteq Windows /\ dragging \subseteq Windows
           /\ gestures \in 0..MaxGestures

\* The type invariant, one part per kind of state.
LEMMA TabParts == TabTypeOK <=> IdsOK /\ StoreOK /\ CallsOK /\ WindowsOK /\ PollsOK /\ HandsOK
  BY DEF TabTypeOK, IdsOK, StoreOK, CallsOK, WindowsOK, PollsOK, HandsOK

\* Trees that are written are shown and sent.
LEMMA PersistKeeps ==
  ASSUME WindowsOK, NEW w \in Windows, NEW ts, DOMAIN ts \subseteq TabIds,
         \A k \in DOMAIN ts : ts[k] \in Trees, Persist(w, ts)
  PROVE  WindowsOK'
<1>1. shown[w] \in Lists
  BY DEF WindowsOK
<1> DEFINE list == [k \in DOMAIN shown[w] |-> IF k \in DOMAIN ts THEN ts[k] ELSE shown[w][k]]
<1>2. DOMAIN shown[w] \subseteq TabIds /\ \A k \in DOMAIN shown[w] : shown[w][k] \in Trees
  BY <1>1, ListFacts
<1>3. list \in Lists
  BY <1>2, ListFacts
<1>4. shown' = [shown EXCEPT ![w] = list]
  BY DEF Persist, WindowsOK
<1>5. patches' \subseteq [tab : TabIds, tree : Trees]
  BY DEF Persist, WindowsOK
<1> HIDE DEF list
<1> QED
  BY <1>3, <1>4, <1>5 DEF WindowsOK

\* The same for one tab.
LEMMA WriteKeeps ==
  ASSUME WindowsOK, NEW w \in Windows, NEW k \in TabIds, NEW t \in Trees, Write(w, k, t)
  PROVE  WindowsOK'
<1> DEFINE ts == [j \in {k} |-> t]
<1>1. Persist(w, ts) /\ DOMAIN ts = {k} /\ ts[k] = t
  BY DEF Write
<1> HIDE DEF ts
<1> QED
  BY <1>1, PersistKeeps

\* The ids that are taken.
LEMMA IdsMove ==
  ASSUME IdsOK
  PROVE  /\ PaneIsFree /\ UsePane => IdsOK'
         /\ nextIds.session \in Sessions /\ nextIds' = [nextIds EXCEPT !.session = @ + 1] => IdsOK'
         /\ \A list : NewTab(list) => IdsOK'
<1>0. /\ MaxPanes \in Nat /\ MaxSessions \in Nat /\ MaxTabs \in Nat
      /\ nextIds.pane \in 1..(MaxPanes + 1) /\ nextIds.session \in 1..(MaxSessions + 1)
      /\ nextIds.tab \in 1..(MaxTabs + 1)
  BY TabBounds DEF IdsOK
<1>1. PaneIsFree => nextIds.pane + 1 \in 1..(MaxPanes + 1)
  BY <1>0 DEF PaneIsFree, Panes
<1>2. nextIds.session \in Sessions => nextIds.session + 1 \in 1..(MaxSessions + 1)
  BY <1>0 DEF Sessions
<1>3. nextIds.tab \in TabIds => nextIds.tab + 1 \in 1..(MaxTabs + 1)
  BY <1>0 DEF TabIds
<1> QED
  BY <1>0, <1>1, <1>2, <1>3 DEF IdsOK, UsePane, NewTab

-----------------------------------------------------------------------------
\* The user's gestures.
LEMMA GestureStep ==
  ASSUME TabTypeOK, NEW w \in Windows, UserActs(w)
  PROVE  TabTypeOK'
<1>0. IdsOK /\ StoreOK /\ CallsOK /\ WindowsOK /\ PollsOK /\ HandsOK
  BY TabParts
<1>1. shown[w] \in Lists /\ DOMAIN shown[w] \subseteq TabIds /\ \A k \in DOMAIN shown[w] : shown[w][k] \in Trees
  BY <1>0, ListFacts DEF WindowsOK
<1>2. \A k \in DOMAIN shown[w] : /\ DOMAIN shown[w][k] \subseteq Panes
                                 /\ \A p \in DOMAIN shown[w][k] : shown[w][k][p] \in Sessions \cup {Empty}
  BY <1>1, TreeFacts
<1>3. Gesture => gestures' \in 0..MaxGestures
  BY <1>0, TabBounds DEF Gesture, HandsOK
<1>4. EndDrag(w) => dragging' \subseteq Windows /\ gripping' \subseteq Windows
  BY <1>0 DEF EndDrag, HandsOK
<1> DEFINE Kept == IdsOK' /\ StoreOK' /\ CallsOK' /\ WindowsOK' /\ PollsOK' /\ HandsOK'
<1>5. ASSUME HandleNewTab(w) PROVE Kept
  <2>1. 1 \in TabIds
    BY TabBounds DEF TabIds
  <2>2. CallsOK'
    BY <1>0, <1>5, <2>1 DEF HandleNewTab, CallsOK, Handlers
  <2> QED
    BY <1>0, <1>3, <1>5, <2>2 DEF HandleNewTab, IdsOK, StoreOK, WindowsOK, PollsOK, HandsOK
<1>6. ASSUME LetGo(w) \/ ToggleEditing(w) PROVE Kept
  BY <1>0, <1>4, <1>6
  DEF LetGo, ToggleEditing, Toggled, IdsOK, StoreOK, CallsOK, WindowsOK, PollsOK, HandsOK
<1>7. ASSUME Grip(w) PROVE Kept
  BY <1>0, <1>3, <1>7 DEF Grip, IdsOK, StoreOK, CallsOK, WindowsOK, PollsOK, HandsOK
<1>8. ASSUME NEW k \in DOMAIN shown[w], HandleDeleteLayout(w, k) PROVE Kept
  <2>1. CallsOK'
    BY <1>0, <1>1, <1>8 DEF HandleDeleteLayout, CallsOK, Handlers
  <2> QED
    BY <1>0, <1>3, <1>8, <2>1 DEF HandleDeleteLayout, IdsOK, StoreOK, WindowsOK, PollsOK, HandsOK
<1>9. ASSUME NEW k \in DOMAIN shown[w], NEW j \in DOMAIN shown[w], NEW p \in DOMAIN shown[w][k],
             DropOnTab(w, k, j, p)
      PROVE  Kept
  <2> DEFINE from == Without(shown[w][k], p, nextIds.pane)
             to == Holding(shown[w][j], p, shown[w][k][p])
             ts == [i \in {k, j} |-> IF i = k THEN from ELSE to]
  <2>1. from \in Trees /\ IdsOK'
    BY <1>0, <1>1, <1>9, WithoutIsTree DEF DropOnTab, IdsOK
  <2>2. to \in Trees
    BY <1>1, <1>2, TreeOps
  <2>3. Persist(w, ts)
    BY <1>9 DEF DropOnTab
  <2> HIDE DEF from, to
  <2>4. DOMAIN ts = {k, j} /\ \A i \in DOMAIN ts : ts[i] \in Trees
    BY <2>1, <2>2
  <2>5. WindowsOK'
    <3> HIDE DEF ts
    <3> QED
      BY <1>0, <1>1, <2>3, <2>4, PersistKeeps
  <2> QED
    BY <1>0, <1>4, <1>9, <2>1, <2>5 DEF DropOnTab, StoreOK, CallsOK, PollsOK, HandsOK
<1>10. ASSUME NEW k \in DOMAIN shown[w], NEW p \in DOMAIN shown[w][k], HandleSplit(w, k, p) PROVE Kept
  <2>1. Holding(shown[w][k], nextIds.pane, Empty) \in Trees
    BY <1>1, <1>10, TreeOps DEF HandleSplit, PaneIsFree
  <2>2. WindowsOK'
    BY <1>0, <1>1, <1>10, <2>1, WriteKeeps DEF HandleSplit
  <2>3. IdsOK'
    BY <1>0, <1>10, IdsMove DEF HandleSplit
  <2> QED
    BY <1>0, <1>3, <1>10, <2>2, <2>3 DEF HandleSplit, StoreOK, CallsOK, PollsOK, HandsOK
<1>11. ASSUME NEW k \in DOMAIN shown[w], NEW p \in DOMAIN shown[w][k], HandleCloseEmpty(w, k, p) PROVE Kept
  <2>1. Without(shown[w][k], p, nextIds.pane) \in Trees /\ IdsOK'
    BY <1>1, <1>11, WithoutIsTree DEF HandleCloseEmpty, IdsOK
  <2>2. WindowsOK'
    BY <1>0, <1>1, <1>11, <2>1, WriteKeeps DEF HandleCloseEmpty
  <2> QED
    BY <1>0, <1>3, <1>11, <2>1, <2>2 DEF HandleCloseEmpty, StoreOK, CallsOK, PollsOK, HandsOK
<1>12. ASSUME NEW k \in DOMAIN shown[w], NEW p \in DOMAIN shown[w][k], NEW kind \in {"close", "launch"},
              Ask(w, k, p, kind)
       PROVE  Kept
  <2>1. CallsOK'
    BY <1>0, <1>1, <1>2, <1>12 DEF Ask, CallsOK, Handlers
  <2> QED
    BY <1>0, <1>3, <1>12, <2>1 DEF Ask, IdsOK, StoreOK, WindowsOK, PollsOK, HandsOK
<1>13. ASSUME NEW k \in TabIds, DropInTab(w, k) PROVE Kept
  <2>1. WindowsOK'
    <3>1. CASE k \in DOMAIN shown[w]
      BY <1>0, <1>1, <1>13, <3>1, WriteKeeps DEF DropInTab
    <3>2. CASE k \notin DOMAIN shown[w]
      BY <1>0, <1>13, <3>2 DEF DropInTab, WindowsOK
    <3> QED
      BY <3>1, <3>2
  <2> QED
    BY <1>0, <1>4, <1>13, <2>1 DEF DropInTab, IdsOK, StoreOK, CallsOK, PollsOK, HandsOK
<1>14. Kept
  BY <1>5, <1>6, <1>7, <1>8, <1>9, <1>10, <1>11, <1>12, <1>13 DEF UserActs
<1> QED
  BY <1>14 DEF TabTypeOK, IdsOK, StoreOK, CallsOK, WindowsOK, PollsOK, HandsOK

\* A call, by its kind.
LEMMA CallFacts ==
  ASSUME NEW c \in Handlers
  PROVE  /\ c.window \in Windows /\ c.tab \in TabIds
         /\ c.kind \in {"close", "launch", "newtab", "deltab"}
         /\ c.kind \in {"close", "launch"} => c.tree \in Trees /\ c.pane \in Panes
  BY DEF Handlers

\* The daemon's lists.
LEMMA ListOps ==
  ASSUME NEW list \in Lists
  PROVE  /\ \A S : Restrict(list, S \cap DOMAIN list) \in Lists
         /\ \A r : \A s \in Sessions \cup {Empty} : [k \in DOMAIN list |-> Remap(list[k], r, s)] \in Lists
         /\ \A k \in TabIds, t \in Trees : SaveTree(list, k, t) \in Lists
         /\ \A more \in Lists : AddTabs(list, more) \in Lists
<1>0. DOMAIN list \subseteq TabIds /\ \A k \in DOMAIN list : list[k] \in Trees
  BY ListFacts
<1>1. ASSUME NEW S PROVE Restrict(list, S \cap DOMAIN list) \in Lists
  BY <1>0, ListFacts DEF Restrict
<1>2. ASSUME NEW r, NEW s \in Sessions \cup {Empty}
      PROVE  [k \in DOMAIN list |-> Remap(list[k], r, s)] \in Lists
  <2> DEFINE new == [k \in DOMAIN list |-> Remap(list[k], r, s)]
  <2>1. ASSUME NEW k \in DOMAIN list PROVE Remap(list[k], r, s) \in Trees
    <3>1. PICK p : p \in Panes
      BY <1>0, TreeFacts
    <3> QED
      BY <1>0, <3>1, TreeOps
  <2>2. DOMAIN new = DOMAIN list /\ \A k \in DOMAIN new : new[k] \in Trees
    BY <2>1
  <2> QED
    BY <1>0, <2>2, ListFacts
<1>3. ASSUME NEW k \in TabIds, NEW t \in Trees PROVE SaveTree(list, k, t) \in Lists
  BY <1>0, ListFacts DEF SaveTree
<1>4. ASSUME NEW more \in Lists PROVE AddTabs(list, more) \in Lists
  <2>1. DOMAIN more \subseteq TabIds /\ \A k \in DOMAIN more : more[k] \in Trees
    BY ListFacts
  <2> QED
    BY <1>0, <2>1, ListFacts DEF AddTabs
<1> QED
  BY <1>1, <1>2, <1>3, <1>4

\* A new tab of one empty pane.
LEMMA NewTabIsList ==
  ASSUME IdsOK, NEW list \in Lists, NewTab(list)
  PROVE  saved' \in Lists /\ nextIds.tab \in TabIds \cap DOMAIN saved'
<1>1. DOMAIN list \subseteq TabIds /\ \A k \in DOMAIN list : list[k] \in Trees
  BY ListFacts
<1>2. nextIds.tab \in TabIds /\ EmptyTree(nextIds.pane) \in Trees
  <2>1. nextIds.pane \in Panes
    BY DEF NewTab, PaneIsFree
  <2> QED
    BY <2>1, TreeFacts DEF NewTab, EmptyTree
<1> DEFINE new == [k \in DOMAIN list \cup {nextIds.tab} |->
                     IF k = nextIds.tab THEN EmptyTree(nextIds.pane) ELSE list[k]]
<1>3. new \in Lists
  BY <1>1, <1>2, ListFacts
<1> QED
  BY <1>2, <1>3 DEF NewTab

\* The daemon serves a call.
LEMMA AnswerStep ==
  ASSUME TabTypeOK, NEW c \in asked, Answer(c)
  PROVE  TabTypeOK'
<1>0. IdsOK /\ StoreOK /\ CallsOK /\ WindowsOK /\ PollsOK /\ HandsOK
  BY TabParts
<1>1. c \in Handlers /\ saved \in Lists
  BY <1>0 DEF CallsOK, StoreOK
<1> DEFINE Kept == IdsOK' /\ StoreOK' /\ CallsOK' /\ WindowsOK' /\ PollsOK' /\ HandsOK'
<1>2. ASSUME NEW got, got \in GotFor(c), answered' = answered \cup {[call |-> c, got |-> got]}
      PROVE  CallsOK' /\ WindowsOK' /\ PollsOK' /\ HandsOK'
  BY <1>0, <1>1, <1>2 DEF Answer, CallsOK, WindowsOK, PollsOK, HandsOK
<1>3. ASSUME DeleteSession(c) PROVE Kept
  <2>1. NoReply \in GotFor(c) /\ IdsOK'
    BY <1>0, <1>3 DEF DeleteSession, GotFor, IdsOK
  <2>2. StoreOK'
    BY <1>0, <1>3, ListOps DEF DeleteSession, StoreOK
  <2> QED
    BY <1>2, <1>3, <2>1, <2>2 DEF DeleteSession
<1>4. ASSUME CreateSession(c) PROVE Kept
  <2>1. nextIds.session \in GotFor(c) /\ IdsOK'
    BY <1>0, <1>4, IdsMove DEF CreateSession, GotFor
  <2>2. StoreOK'
    BY <1>0, <1>4 DEF CreateSession, StoreOK
  <2> QED
    BY <1>2, <1>4, <2>1, <2>2 DEF CreateSession
<1>5. ASSUME CreateTab(c) PROVE Kept
  <2>1. StoreOK' /\ IdsOK' /\ nextIds.tab \in DOMAIN saved'
    BY <1>0, <1>1, <1>5, NewTabIsList, IdsMove DEF CreateTab, StoreOK
  <2>2. saved' \in Lists
    BY <2>1 DEF StoreOK
  <2>3. Restrict(saved', {nextIds.tab}) \in Lists
    <3>1. {nextIds.tab} \cap DOMAIN saved' = {nextIds.tab}
      BY <2>1
    <3>2. Restrict(saved', {nextIds.tab} \cap DOMAIN saved') \in Lists
      BY <2>2, ListOps
    <3> QED
      BY <3>1, <3>2
  <2>4. Restrict(saved', {nextIds.tab}) \in GotFor(c)
    BY <1>5, <2>3 DEF CreateTab, GotFor
  <2> QED
    BY <1>2, <1>5, <2>1, <2>4 DEF CreateTab
<1>6. ASSUME DeleteTab(c) PROVE Kept
  <2> DEFINE list == Restrict(saved, DOMAIN saved \ {c.tab})
  <2>1. list \in Lists
    <3>1. (DOMAIN saved \ {c.tab}) \cap DOMAIN saved = DOMAIN saved \ {c.tab}
      OBVIOUS
    <3>2. Restrict(saved, (DOMAIN saved \ {c.tab}) \cap DOMAIN saved) \in Lists
      BY <1>1, ListOps
    <3> QED
      BY <3>1, <3>2
  <2>2. NewTab(list) \/ (saved' = list /\ UNCHANGED nextIds)
    BY <1>6 DEF DeleteTab
  <2> HIDE DEF list
  <2>3. StoreOK' /\ IdsOK'
    <3>1. CASE NewTab(list)
      BY <1>0, <1>6, <2>1, <3>1, NewTabIsList, IdsMove DEF DeleteTab, StoreOK
    <3>2. CASE saved' = list /\ UNCHANGED nextIds
      BY <1>0, <1>6, <2>1, <3>2 DEF DeleteTab, StoreOK, IdsOK
    <3> QED
      BY <2>2, <3>1, <3>2
  <2>4. saved' \in GotFor(c)
    BY <1>6, <2>3 DEF DeleteTab, GotFor, StoreOK
  <2> QED
    BY <1>2, <1>6, <2>3, <2>4 DEF DeleteTab
<1>7. Kept
  BY <1>3, <1>4, <1>5, <1>6 DEF Answer
<1> QED
  BY <1>7 DEF TabTypeOK, IdsOK, StoreOK, CallsOK, WindowsOK, PollsOK, HandsOK

\* What else happens in the daemon.
LEMMA DaemonStep ==
  ASSUME TabTypeOK,
         \/ \E m \in patches : PatchArrives(m)
         \/ \E c \in asked : Refuse(c)
         \/ \E k \in DOMAIN saved : \E p \in DOMAIN saved[k] : PinNote(k, p)
         \/ \E s \in live : ResumeElsewhere(s)
  PROVE  TabTypeOK'
<1>0. IdsOK /\ StoreOK /\ CallsOK /\ WindowsOK /\ PollsOK /\ HandsOK
  BY TabParts
<1>1. Gesture => gestures' \in 0..MaxGestures
  BY <1>0, TabBounds DEF Gesture, HandsOK
<1>2. saved \in Lists
  BY <1>0 DEF StoreOK
<1> DEFINE Kept == IdsOK' /\ StoreOK' /\ CallsOK' /\ WindowsOK' /\ PollsOK' /\ HandsOK'
<1>3. ASSUME NEW m \in patches, PatchArrives(m) PROVE Kept
  <2>1. m.tab \in TabIds /\ m.tree \in Trees
    BY <1>0 DEF WindowsOK
  <2>2. StoreOK'
    BY <1>0, <1>2, <1>3, <2>1, ListOps DEF PatchArrives, StoreOK
  <2> QED
    BY <1>0, <1>3, <2>2 DEF PatchArrives, IdsOK, CallsOK, WindowsOK, PollsOK, HandsOK
<1>4. ASSUME NEW c \in asked, Refuse(c) PROVE Kept
  BY <1>0, <1>4 DEF Refuse, IdsOK, StoreOK, CallsOK, WindowsOK, PollsOK, HandsOK
<1>5. ASSUME NEW k \in DOMAIN saved, NEW p \in DOMAIN saved[k], PinNote(k, p) PROVE Kept
  <2>1. k \in TabIds /\ saved[k] \in Trees /\ nextIds.pane \in Panes
    BY <1>2, <1>5, ListFacts DEF PinNote, PaneIsFree
  <2> DEFINE new == Holding(saved[k], nextIds.pane, Empty)
  <2>2. new \in Trees /\ saved' = SaveTree(saved, k, new)
    BY <1>5, <2>1, TreeOps DEF PinNote, SaveTree
  <2> HIDE DEF new
  <2>3. StoreOK'
    BY <1>0, <1>2, <1>5, <2>1, <2>2, ListOps DEF PinNote, StoreOK
  <2>4. IdsOK'
    BY <1>0, <1>5, IdsMove DEF PinNote
  <2> QED
    BY <1>0, <1>1, <1>5, <2>3, <2>4 DEF PinNote, CallsOK, WindowsOK, PollsOK, HandsOK
<1>6. ASSUME NEW s \in live, ResumeElsewhere(s) PROVE Kept
  <2>1. nextIds.session \in Sessions /\ s \in Sessions
    BY <1>0, <1>6 DEF ResumeElsewhere, StoreOK
  <2>2. StoreOK'
    BY <1>0, <1>2, <1>6, <2>1, ListOps DEF ResumeElsewhere, StoreOK
  <2>3. IdsOK'
    BY <1>0, <1>6, IdsMove DEF ResumeElsewhere
  <2> QED
    BY <1>0, <1>1, <1>6, <2>2, <2>3 DEF ResumeElsewhere, CallsOK, WindowsOK, PollsOK, HandsOK
<1>7. Kept
  BY <1>3, <1>4, <1>5, <1>6
<1> QED
  BY <1>7 DEF TabTypeOK, IdsOK, StoreOK, CallsOK, WindowsOK, PollsOK, HandsOK

\* A window goes on, or polls.
LEMMA WindowStep ==
  ASSUME TabTypeOK,
         \/ \E a \in answered : GoOn(a)
         \/ \E w \in Windows : PollLayouts(w) \/ ShowPolled(w)
  PROVE  TabTypeOK'
<1>0. IdsOK /\ StoreOK /\ CallsOK /\ WindowsOK /\ PollsOK /\ HandsOK
  BY TabParts
<1> DEFINE Kept == IdsOK' /\ StoreOK' /\ CallsOK' /\ WindowsOK' /\ PollsOK' /\ HandsOK'
<1>1. ASSUME NEW a \in answered, GoOn(a) PROVE Kept
  <2>1. a.call \in Handlers /\ a.got \in GotFor(a.call)
    BY <1>0 DEF CallsOK
  <2>2. /\ a.call.window \in Windows /\ a.call.tab \in TabIds
        /\ a.call.kind \in {"close", "launch"} => a.call.tree \in Trees /\ a.call.pane \in Panes
    BY <2>1, CallFacts
  <2>3. shown[a.call.window] \in Lists
    BY <1>0, <2>2 DEF WindowsOK
  <2>4. WindowsOK' /\ IdsOK'
    <3>1. CASE PersistClosed(a.call)
      <4>1. Without(a.call.tree, a.call.pane, nextIds.pane) \in Trees /\ IdsOK'
        BY <2>2, <3>1, WithoutIsTree DEF PersistClosed, IdsOK
      <4> QED
        BY <1>0, <2>2, <3>1, <4>1, WriteKeeps DEF PersistClosed
    <3>2. CASE PersistLaunched(a.call, a.got)
      <4>1. a.got \in Sessions
        BY <2>1, <3>2 DEF PersistLaunched, GotFor
      <4>2. Holding(a.call.tree, a.call.pane, a.got) \in Trees
        BY <2>2, <3>2, <4>1, TreeOps DEF PersistLaunched
      <4> QED
        BY <1>0, <2>2, <3>2, <4>2, WriteKeeps DEF PersistLaunched, IdsOK
    <3>3. CASE ShowNewTab(a.call, a.got)
      <4>1. a.got \in Lists
        BY <2>1, <3>3 DEF ShowNewTab, GotFor
      <4>2. AddTabs(shown[a.call.window], a.got) \in Lists
        BY <2>3, <4>1, ListOps
      <4> QED
        BY <1>0, <2>2, <3>3, <4>2 DEF ShowNewTab, ShowList, WindowsOK, IdsOK
    <3>4. CASE ReloadLayouts(a.call, a.got)
      <4>1. a.got \in Lists
        BY <2>1, <3>4 DEF ReloadLayouts, GotFor
      <4> QED
        BY <1>0, <2>2, <3>4, <4>1 DEF ReloadLayouts, ShowList, WindowsOK, IdsOK
    <3> QED
      BY <1>1, <3>1, <3>2, <3>3, <3>4 DEF GoOn
  <2> QED
    BY <1>0, <1>1, <2>4 DEF GoOn, StoreOK, CallsOK, PollsOK, HandsOK
<1>2. ASSUME NEW w \in Windows, PollLayouts(w) PROVE Kept
  BY <1>0, <1>2 DEF PollLayouts, IdsOK, StoreOK, CallsOK, WindowsOK, PollsOK, HandsOK
<1>3. ASSUME NEW w \in Windows, ShowPolled(w) PROVE Kept
  <2>1. poll[w] \in Lists
    BY <1>0, <1>3 DEF ShowPolled, PollsOK
  <2> QED
    BY <1>0, <1>3, <2>1 DEF ShowPolled, IdsOK, StoreOK, CallsOK, WindowsOK, PollsOK, HandsOK
<1>4. Kept
  BY <1>1, <1>2, <1>3
<1> QED
  BY <1>4 DEF TabTypeOK, IdsOK, StoreOK, CallsOK, WindowsOK, PollsOK, HandsOK

\* The initial state: a tab of two sessions.
LEMMA TabInitTypes == TabInit => TabTypeOK
<1> SUFFICES ASSUME TabInit PROVE TabTypeOK
  OBVIOUS
<1>0. 1..2 \subseteq Panes /\ 1..2 \subseteq Sessions /\ 1 \in TabIds
  BY TabBounds DEF Panes, Sessions, TabIds
<1> DEFINE t == [p \in 1..2 |-> p]
           list == [k \in {1} |-> t]
<1>1. t \in Trees
  BY <1>0, TreeFacts
<1>2. list \in Lists
  <2> HIDE DEF t
  <2> QED
    BY <1>0, <1>1, ListFacts
<1>3. saved = list /\ shown = [w \in Windows |-> saved]
  BY DEF TabInit
<1>4. nextIds \in [pane : 1..(MaxPanes + 1), session : 1..(MaxSessions + 1), tab : 1..(MaxTabs + 1)]
  BY TabBounds DEF TabInit
<1> HIDE DEF list
<1> QED
  BY <1>0, <1>2, <1>3, <1>4, TabBounds DEF TabInit, TabTypeOK

\* routes/layouts.ts and Terminals.tsx: whatever the windows write over each
\* other, every tab saved, shown, polled or on its way is one of panes, each
\* with a session or empty, and none is without a pane.
THEOREM TabTypes == TabsSpec => []TabTypeOK
<1>1. TabTypeOK /\ [TabsNext]_tabVars => TabTypeOK'
  <2> SUFFICES ASSUME TabTypeOK, [TabsNext]_tabVars PROVE TabTypeOK'
    OBVIOUS
  <2>1. CASE TabsNext
    BY <2>1, GestureStep, AnswerStep, DaemonStep, WindowStep DEF TabsNext
  <2>2. CASE UNCHANGED tabVars
    BY <2>2 DEF tabVars, TabTypeOK
  <2> QED
    BY <2>1, <2>2
<1> QED
  BY <1>1, TabInitTypes, PTL DEF TabsSpec

-----------------------------------------------------------------------------
(***************************************************************************)
(* Board: for any number of campaigns, changes and clicks.                 *)
(***************************************************************************)

\* App.tsx:718-719 and the 60 s net: a spinner that turns was started by a click
\* whose request or pause goes on, or whose net is spread.
SpinnerIsNetted == mark # 0 => mark \in nets \cup {syncing}

\* The effect of PrBoard and its clean-up: rows on their way to the panel are
\* those of the campaign that is selected.
LoadsAreOfActive == \A l \in fetches : l.of = activeId

\* The invariant.
CampaignInv == CampaignTypeOK /\ SpinnerIsNetted /\ LoadsAreOfActive

\* The first of a set of campaigns is one of them.
LEMMA FirstIsIn ==
  ASSUME NEW ids \in SUBSET CampaignIds
  PROVE  First(ids) \in ids \cup {Nothing}
<1>1. CASE ids = {}
  BY <1>1 DEF First
<1>2. CASE ids # {}
  <2>1. ids \in SUBSET Nat
    BY BoardConstants DEF CampaignIds
  <2>2. PICK m \in ids : \A n \in ids : ~(<<n, m>> \in OpToRel(<, Nat))
    BY <1>2, <2>1, NatLessThanWellFounded, WFMin
  <2>3. \A n \in ids : ~(n < m)
    BY <2>1, <2>2 DEF OpToRel
  <2>4. \E k \in ids : \A n \in ids : k <= n
    BY <2>1, <2>3
  <2> QED
    BY <1>2, <2>4 DEF First
<1> QED
  BY <1>1, <1>2

\* The initial state.
LEMMA CampaignInitInv == CampaignInit => CampaignInv
<1> SUFFICES ASSUME CampaignInit PROVE CampaignInv
  OBVIOUS
<1>1. data \in [CampaignIds -> Data]
  BY BoardConstants DEF CampaignInit, Data, Never
<1>2. {1, 2} \subseteq CampaignIds /\ nextCampaign \in 1..(MaxCampaigns + 1) /\ MaxSyncClicks \in Nat
  BY BoardConstants DEF CampaignInit, CampaignIds
<1>3. CampaignTypeOK
  <2>1. /\ lists \subseteq [ids : SUBSET CampaignIds, select : CampaignIds \cup {Nothing}]
        /\ fetches \subseteq Rows
        /\ edits \subseteq [of : CampaignIds, row : {"pr", "pinned"}, to : BOOLEAN]
    BY DEF CampaignInit
  <2>2. open \in BOOLEAN /\ showArchived \in BOOLEAN
    BY DEF CampaignInit
  <2>3. /\ mark \in 0..MaxSyncClicks /\ syncing \in 0..MaxSyncClicks /\ clicked \in 0..MaxSyncClicks
        /\ picks \in Nat /\ changes \in Nat
    BY <1>2 DEF CampaignInit
  <2> QED
    BY <1>1, <1>2, <2>1, <2>2, <2>3 DEF CampaignInit, CampaignTypeOK
<1> QED
  BY <1>3 DEF CampaignInit, CampaignInv, SpinnerIsNetted, LoadsAreOfActive

\* A list that is asked for, and another selection.
LEMMA ListsKeepTypes ==
  ASSUME lists \subseteq [ids : SUBSET CampaignIds, select : CampaignIds \cup {Nothing}],
         NEW there \in SUBSET CampaignIds, NEW away, NEW all, NEW select \in CampaignIds \cup {Nothing},
         ReloadCampaigns(there, away, all, select)
  PROVE  lists' \subseteq [ids : SUBSET CampaignIds, select : CampaignIds \cup {Nothing}]
  BY DEF ReloadCampaigns

\* The switcher's actions.
LEMMA SwitcherStep ==
  ASSUME CampaignInv,
         \/ OpenWindow \/ ToggleArchived \/ CreateCampaign \/ ArchiveCampaign \/ DeleteActive
         \/ \E c \in CampaignIds : PickCampaign(c) \/ JumpTo(c)
         \/ \E l \in lists : ListArrives(l) \/ ListFails(l)
  PROVE  CampaignInv'
<1> USE DEF CampaignInv
<1>0. campaigns \subseteq CampaignIds /\ archived \subseteq campaigns
  BY DEF CampaignTypeOK
<1>1. CASE OpenWindow
  <2>1. lists' \subseteq [ids : SUBSET CampaignIds, select : CampaignIds \cup {Nothing}]
    BY <1>0, <1>1, ListsKeepTypes DEF OpenWindow, CampaignTypeOK
  <2> QED
    BY <1>1, <2>1 DEF OpenWindow, CampaignTypeOK, SpinnerIsNetted, LoadsAreOfActive, dbVars, panelVars, panelBounds
<1>2. CASE ToggleArchived
  <2>1. lists' \subseteq [ids : SUBSET CampaignIds, select : CampaignIds \cup {Nothing}]
    BY <1>0, <1>2, ListsKeepTypes DEF ToggleArchived, CampaignTypeOK
  <2> QED
    BY <1>2, <2>1, BoardConstants
    DEF ToggleArchived, CampaignTypeOK, SpinnerIsNetted, LoadsAreOfActive, dbVars, panelVars
<1>3. CASE CreateCampaign
  <2>1. campaigns' \subseteq CampaignIds /\ nextCampaign \in CampaignIds
    BY <1>0, <1>3 DEF CreateCampaign, MakeCampaign
  <2>2. lists' \subseteq [ids : SUBSET CampaignIds, select : CampaignIds \cup {Nothing}]
    BY <1>3, <2>1, ListsKeepTypes DEF CreateCampaign, CampaignTypeOK
  <2>3. nextCampaign' \in 1..(MaxCampaigns + 1) /\ archived' \subseteq campaigns'
    BY <1>0, <1>3, <2>1, BoardConstants DEF CreateCampaign, MakeCampaign, CampaignIds
  <2> QED
    BY <1>3, <2>1, <2>2, <2>3
    DEF CreateCampaign, Change, CampaignTypeOK, SpinnerIsNetted, LoadsAreOfActive, boxVars, panelVars
<1>4. CASE ArchiveCampaign
  <2>1. archived' \subseteq campaigns
    BY <1>0, <1>4 DEF ArchiveCampaign, Flip
  <2>2. lists' \subseteq [ids : SUBSET CampaignIds, select : CampaignIds \cup {Nothing}]
    BY <1>0, <1>4, ListsKeepTypes DEF ArchiveCampaign, CampaignTypeOK
  <2> QED
    BY <1>4, <2>1, <2>2
    DEF ArchiveCampaign, Change, CampaignTypeOK, SpinnerIsNetted, LoadsAreOfActive, boxVars, panelVars
<1>5. CASE DeleteActive
  <2>1. campaigns' \subseteq CampaignIds /\ archived' \subseteq campaigns'
    BY <1>0, <1>5 DEF DeleteActive, DropCampaign
  <2>2. lists' \subseteq [ids : SUBSET CampaignIds, select : CampaignIds \cup {Nothing}]
    BY <1>5, <2>1, ListsKeepTypes DEF DeleteActive, CampaignTypeOK
  <2> QED
    BY <1>5, <2>1, <2>2
    DEF DeleteActive, Change, CampaignTypeOK, SpinnerIsNetted, LoadsAreOfActive, boxVars, panelVars
<1>6. ASSUME NEW c \in CampaignIds, PickCampaign(c) \/ JumpTo(c) PROVE CampaignInv'
  BY <1>6, BoardConstants
  DEF PickCampaign, JumpTo, Select, CampaignTypeOK, SpinnerIsNetted, LoadsAreOfActive, dbVars
<1>7. ASSUME NEW l \in lists, ListArrives(l) PROVE CampaignInv'
  <2>1. l.ids \in SUBSET CampaignIds /\ l.select \in CampaignIds \cup {Nothing}
    BY DEF CampaignTypeOK
  <2>2. activeId' \in CampaignIds \cup {Nothing}
    BY <1>7, <2>1, FirstIsIn DEF ListArrives, Select
  <2>3. (fetches' = fetches /\ activeId' = activeId) \/ fetches' = {}
    BY <1>7 DEF ListArrives, Select
  <2> QED
    BY <1>7, <2>1, <2>2, <2>3
    DEF ListArrives, CampaignTypeOK, SpinnerIsNetted, LoadsAreOfActive, dbVars, panelBounds
<1>8. ASSUME NEW l \in lists, ListFails(l) PROVE CampaignInv'
  BY <1>8 DEF ListFails, CampaignTypeOK, SpinnerIsNetted, LoadsAreOfActive, dbVars, boxVars, panelVars, panelBounds
<1> QED
  BY <1>1, <1>2, <1>3, <1>4, <1>5, <1>6, <1>7, <1>8

\* Rows and marks that the panel shows.
LEMMA ShowKeeps ==
  ASSUME CampaignInv, NEW rows \in Rows \cup {Nothing}, NEW k \in 0..MaxSyncClicks, Show(rows, k)
  PROVE  /\ onBoard' \in Rows \cup {Nothing} /\ mark' \in 0..MaxSyncClicks
         /\ mark' \in {0, k}
  BY BoardConstants DEF Show

\* A row keeps its type when a field is set.
LEMMA DataChanges ==
  ASSUME NEW d \in Data, NEW b \in BOOLEAN, NEW k \in Never..MaxSyncClicks
  PROVE  /\ [d EXCEPT !.pr = b] \in Data /\ [d EXCEPT !.pinned = b] \in Data
         /\ [d EXCEPT !.synced = k] \in Data
         /\ [d EXCEPT !.pr = b, !.synced = k] \in Data
  BY DEF Data

\* What changes the rows of the database.
LEMMA RowsStep ==
  ASSUME CampaignInv,
         \/ \E c \in CampaignIds : ChangedElsewhere(c) \/ GithubAnswers(c)
         \/ UnpinRepo \/ DeleteShown
  PROVE  CampaignInv'
<1> USE DEF CampaignInv
<1>0. /\ campaigns \subseteq CampaignIds /\ archived \subseteq campaigns
      /\ data \in [CampaignIds -> Data] /\ Never \in Never..MaxSyncClicks
      /\ \A c \in CampaignIds : data[c] \in Data
  BY BoardConstants DEF CampaignTypeOK, Never
<1>1. ASSUME NEW c \in CampaignIds, ChangedElsewhere(c) PROVE CampaignInv'
  <2>1. campaigns' \subseteq CampaignIds /\ archived' \subseteq campaigns'
    BY <1>0, <1>1 DEF ChangedElsewhere, DropCampaign, Flip
  <2>2. data' \in [CampaignIds -> Data]
    <3>1. (~data[c].pr) \in BOOLEAN /\ (~data[c].pinned) \in BOOLEAN
      OBVIOUS
    <3>2. /\ [data[c] EXCEPT !.pr = ~@, !.synced = Never] \in Data
          /\ [data[c] EXCEPT !.pinned = ~@] \in Data
      BY <1>0, <3>1, DataChanges
    <3>3. \/ data' = data
          \/ data' = [data EXCEPT ![c] = [data[c] EXCEPT !.pr = ~@, !.synced = Never]]
          \/ data' = [data EXCEPT ![c] = [data[c] EXCEPT !.pinned = ~@]]
      BY <1>0, <1>1 DEF ChangedElsewhere
    <3> QED
      BY <1>0, <3>2, <3>3
  <2> QED
    BY <1>1, <2>1, <2>2
    DEF ChangedElsewhere, Change, CampaignTypeOK, SpinnerIsNetted, LoadsAreOfActive, boxVars, panelVars
<1>2. ASSUME NEW c \in CampaignIds, GithubAnswers(c) PROVE CampaignInv'
  <2>1. data' \in [CampaignIds -> Data]
    <3>1. clicked \in Never..MaxSyncClicks
      BY BoardConstants DEF CampaignTypeOK, Never
    <3>2. [data[c] EXCEPT !.synced = clicked] \in Data
      BY <1>0, <3>1 DEF Data
    <3> QED
      BY <1>0, <1>2, <3>2 DEF GithubAnswers
  <2> QED
    BY <1>2, <2>1
    DEF GithubAnswers, CampaignTypeOK, SpinnerIsNetted, LoadsAreOfActive, boxVars, panelVars, panelBounds
<1>3. CASE UnpinRepo
  <2>1. activeId \in CampaignIds
    BY <1>0, <1>3 DEF UnpinRepo
  <2>2. data' \in [CampaignIds -> Data]
    <3>1. [data[activeId] EXCEPT !.pinned = FALSE] \in Data
      BY <1>0, <2>1, DataChanges
    <3> QED
      BY <1>0, <1>3, <2>1, <3>1 DEF UnpinRepo
  <2>3. edits' \subseteq [of : CampaignIds, row : {"pr", "pinned"}, to : BOOLEAN]
    <3>1. [of |-> activeId, row |-> "pinned", to |-> FALSE] \in [of : CampaignIds, row : {"pr", "pinned"}, to : BOOLEAN]
      BY <2>1
    <3> QED
      BY <1>3, <3>1 DEF UnpinRepo, CampaignTypeOK
  <2> QED
    BY <1>3, <2>2, <2>3
    DEF UnpinRepo, Change, CampaignTypeOK, SpinnerIsNetted, LoadsAreOfActive, boxVars
<1>4. CASE DeleteShown
  <2>1. onBoard.of \in CampaignIds
    BY <1>0, <1>4 DEF DeleteShown
  <2>2. data' \in [CampaignIds -> Data]
    <3>1. [data[onBoard.of] EXCEPT !.pr = FALSE] \in Data
      BY <1>0, <2>1, DataChanges
    <3> QED
      BY <1>0, <1>4, <2>1, <3>1 DEF DeleteShown
  <2>3. edits' \subseteq [of : CampaignIds, row : {"pr", "pinned"}, to : BOOLEAN]
    <3>1. [of |-> onBoard.of, row |-> "pr", to |-> FALSE] \in [of : CampaignIds, row : {"pr", "pinned"}, to : BOOLEAN]
      BY <2>1
    <3> QED
      BY <1>4, <3>1 DEF DeleteShown, CampaignTypeOK
  <2> QED
    BY <1>4, <2>2, <2>3
    DEF DeleteShown, Change, CampaignTypeOK, SpinnerIsNetted, LoadsAreOfActive, boxVars
<1> QED
  BY <1>1, <1>2, <1>3, <1>4

\* What changes the panel.
LEMMA PanelStep ==
  ASSUME CampaignInv,
         \/ \E c \in CampaignIds : LoadRows(c)
         \/ \E l \in fetches : RowsArrive(l) \/ RowsFail(l)
         \/ \E e \in edits : EditArrives(e)
         \/ \E k \in nets : NetFires(k)
         \/ ClickSync \/ SyncAnswered \/ Remount
  PROVE  CampaignInv'
<1> USE DEF CampaignInv
<1>0. /\ onBoard \in Rows \cup {Nothing} /\ mark \in 0..MaxSyncClicks /\ syncing \in 0..MaxSyncClicks
      /\ fetches \subseteq Rows /\ data \in [CampaignIds -> Data]
  BY DEF CampaignTypeOK
<1>1. ASSUME NEW c \in CampaignIds, LoadRows(c) PROVE CampaignInv'
  <2>1. [of |-> c, is |-> data[c]] \in Rows
    BY <1>0 DEF Rows
  <2>2. c = activeId
    BY <1>1 DEF LoadRows, Polled
  <2> QED
    BY <1>1, <2>1, <2>2
    DEF LoadRows, CampaignTypeOK, SpinnerIsNetted, LoadsAreOfActive, dbVars, boxVars, panelBounds
<1>2. ASSUME NEW l \in fetches, RowsArrive(l) PROVE CampaignInv'
  <2>1. onBoard' \in Rows \cup {Nothing} /\ mark' \in 0..MaxSyncClicks /\ mark' \in {0, mark}
    BY <1>0, <1>2, ShowKeeps DEF RowsArrive
  <2> QED
    BY <1>2, <2>1
    DEF RowsArrive, CampaignTypeOK, SpinnerIsNetted, LoadsAreOfActive, dbVars, boxVars, panelBounds
<1>3. ASSUME NEW l \in fetches, RowsFail(l) PROVE CampaignInv'
  BY <1>3 DEF RowsFail, CampaignTypeOK, SpinnerIsNetted, LoadsAreOfActive, dbVars, boxVars, panelBounds
<1>4. ASSUME NEW e \in edits, EditArrives(e) PROVE CampaignInv'
  <2>1. onBoard' \in Rows \cup {Nothing} /\ mark' \in 0..MaxSyncClicks /\ mark' \in {0, mark}
    <3>1. CASE onBoard = Nothing \/ onBoard.of # e.of
      BY <1>0, <1>4, <3>1 DEF EditArrives
    <3>2. CASE onBoard # Nothing /\ onBoard.of = e.of
      <4>1. onBoard \in Rows
        BY <1>0, <3>2
      <4>2. onBoard.is \in Data /\ e.row \in {"pr", "pinned"} /\ e.to \in BOOLEAN
        BY <4>1 DEF Rows, CampaignTypeOK
      <4> DEFINE is == [onBoard.is EXCEPT ![e.row] = e.to]
      <4>3. is \in Data
        <5>1. CASE e.row = "pr"
          BY <4>2, <5>1, DataChanges DEF Data
        <5>2. CASE e.row = "pinned"
          BY <4>2, <5>2, DataChanges DEF Data
        <5> QED
          BY <4>2, <5>1, <5>2
      <4>4. Show([onBoard EXCEPT !.is = is], mark)
        BY <1>4, <3>2 DEF EditArrives
      <4>5. [onBoard EXCEPT !.is = is] \in Rows
        <5> HIDE DEF is
        <5> QED
          BY <4>1, <4>3 DEF Rows
      <4> HIDE DEF is
      <4> QED
        BY <1>0, <4>4, <4>5, ShowKeeps
    <3> QED
      BY <3>1, <3>2
  <2> QED
    BY <1>4, <2>1
    DEF EditArrives, CampaignTypeOK, SpinnerIsNetted, LoadsAreOfActive, dbVars, boxVars, panelBounds
<1>5. ASSUME NEW k \in nets, NetFires(k) PROVE CampaignInv'
  <2>1. CampaignTypeOK'
    BY <1>0, <1>5, BoardConstants DEF NetFires, CampaignTypeOK, dbVars, boxVars, panelBounds
  <2>2. SpinnerIsNetted'
    BY <1>5 DEF NetFires, SpinnerIsNetted
  <2> QED
    BY <1>5, <2>1, <2>2 DEF NetFires, LoadsAreOfActive, boxVars
<1>6. CASE ClickSync
  <2>1. clicked' \in 0..MaxSyncClicks
    BY <1>6, BoardConstants DEF ClickSync, CampaignTypeOK
  <2>2. onBoard' \in Rows \cup {Nothing} /\ mark' \in 0..MaxSyncClicks /\ mark' \in {0, clicked'}
    BY <1>0, <1>6, <2>1, ShowKeeps DEF ClickSync
  <2> QED
    BY <1>6, <2>1, <2>2 DEF ClickSync, CampaignTypeOK, SpinnerIsNetted, LoadsAreOfActive, dbVars, boxVars
<1>7. CASE SyncAnswered
  <2>1. nets' = nets \cup {syncing} /\ nets' \subseteq 1..MaxSyncClicks
    BY <1>7, BoardConstants DEF SyncAnswered, Netted, CampaignTypeOK
  <2> QED
    BY <1>7, <2>1, BoardConstants
    DEF SyncAnswered, CampaignTypeOK, SpinnerIsNetted, LoadsAreOfActive, dbVars, boxVars, panelBounds
<1>8. CASE Remount
  BY <1>8, BoardConstants DEF Remount, CampaignTypeOK, SpinnerIsNetted, LoadsAreOfActive, dbVars, boxVars
<1> QED
  BY <1>1, <1>2, <1>3, <1>4, <1>5, <1>6, <1>7, <1>8

\* Whatever is selected, changed, synced and answered, in any order: the types,
\* a net under every spinner, and loads of the selected campaign only.
THEOREM CampaignInvariant == CampaignSpec => []CampaignInv
<1>1. CampaignInv /\ [CampaignNext]_campaignVars => CampaignInv'
  <2> SUFFICES ASSUME CampaignInv, [CampaignNext]_campaignVars PROVE CampaignInv'
    OBVIOUS
  <2>1. CASE UNCHANGED campaignVars
    BY <2>1
    DEF CampaignInv, CampaignTypeOK, SpinnerIsNetted, LoadsAreOfActive, campaignVars, dbVars, boxVars,
        panelVars, panelBounds
  <2>2. CASE CampaignNext
    BY <2>2, SwitcherStep, RowsStep, PanelStep DEF CampaignNext
  <2> QED
    BY <2>1, <2>2
<1> QED
  BY <1>1, CampaignInitInv, PTL DEF CampaignSpec

=============================================================================
