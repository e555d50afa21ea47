------------------------------- MODULE TaskBoard -------------------------------
(***************************************************************************)
(* The tasks of a campaign's steps, the pending tasks they put on PRs, and *)
(* the panel that lists and edits them.                                    *)
(* Sources: packages/daemon/src/routes/tasks.ts, the pending-task routes   *)
(* of routes/prs.ts, the deletions of routes/campaigns.ts, and TasksPanel  *)
(* of packages/gui/src/renderer/src/App.tsx.                               *)
(*                                                                         *)
(* The daemon serves one request at a time.  A task's texts are a flag:    *)
(* edited or not.                                                          *)
(***************************************************************************)
EXTENDS Integers, FiniteSets

CONSTANTS
  Columns,    \* the campaign's steps
  MaxTasks,   \* bound: task_definitions rows ever
  MaxPrs,     \* bound: prs rows ever
  MaxClicks   \* bound: clicks and reads of the panel under way

ASSUME BoardBounds == Columns # {} /\ MaxTasks \in Nat /\ MaxPrs \in Nat /\ MaxClicks \in Nat

TaskIds == 1..MaxTasks
PrIds == 1..MaxPrs

VARIABLES
  steps,     \* campaign_steps
  tasks,     \* task_definitions, by id
  nextTask,  \* ids are never used again
  prs,       \* prs: the step of each
  nextPr,
  pending,   \* pr_pending_tasks
  selected,  \* selectedStepId
  panel,     \* the tasks the panel shows
  reads,     \* answers to the panel's reads under way
  clicks     \* retire, edit and delete requests under way

boardVars == <<steps, tasks, nextTask, prs, nextPr, pending, selected, panel, reads, clicks>>

BoardTypeOK ==
  /\ steps \subseteq Columns
  /\ DOMAIN tasks \subseteq TaskIds
  /\ \A t \in DOMAIN tasks : tasks[t] \in [step : Columns, retired : BOOLEAN, edited : BOOLEAN]
  /\ DOMAIN prs \subseteq PrIds /\ \A p \in DOMAIN prs : prs[p] \in Columns
  /\ nextTask \in 1..(MaxTasks + 1) /\ nextPr \in 1..(MaxPrs + 1)
  /\ pending \subseteq [pr : PrIds, task : TaskIds, closed : BOOLEAN]
  /\ selected \in Columns /\ panel \subseteq TaskIds
  /\ reads \subseteq SUBSET TaskIds
  /\ clicks \subseteq [kind : {"retire", "edit", "delete"}, step : Columns, task : TaskIds]

\* The panel opens with one of the steps selected.
BoardInit ==
  /\ steps = Columns
  /\ tasks = <<>> /\ nextTask = 1
  /\ prs = <<>> /\ nextPr = 1
  /\ pending = {}
  /\ selected = CHOOSE s \in Columns : TRUE
  /\ panel = {}
  /\ reads = {} /\ clicks = {}

-----------------------------------------------------------------------------
(* The daemon. *)

TasksOf(s) == {t \in DOMAIN tasks : tasks[t].step = s}
PrsOf(s) == {p \in DOMAIN prs : prs[p] = s}
Less(f, S) == [x \in DOMAIN f \ S |-> f[x]]
More(f, x, v) == [y \in DOMAIN f \cup {x} |-> IF y = x THEN v ELSE f[y]]

\* POST .../tasks: the task, and in a transaction of its own its pending rows
\* for the PRs of the step that are older.  A PR made in the same millisecond
\* is missed, and a crash between the two leaves the task without rows.
CreateTask(s) ==
  /\ s \in steps /\ nextTask \in TaskIds
  /\ tasks' = More(tasks, nextTask, [step |-> s, retired |-> FALSE, edited |-> FALSE])
  /\ nextTask' = nextTask + 1
  /\ \E older \in {{}, PrsOf(s), PrsOf(s) \ {nextPr - 1}} :
       pending' = pending \cup {[pr |-> p, task |-> nextTask, closed |-> FALSE] : p \in older}
  /\ UNCHANGED <<steps, prs, nextPr, selected, panel, reads, clicks>>

\* POST /prs of a PR that is new, and of one that has a row: it moves to the step.
RegisterPr(s) ==
  /\ s \in steps /\ nextPr \in PrIds
  /\ prs' = More(prs, nextPr, s) /\ nextPr' = nextPr + 1
  /\ UNCHANGED <<steps, tasks, nextTask, pending, selected, panel, reads, clicks>>

MovePr(p, s) ==
  /\ s \in steps /\ p \in DOMAIN prs
  /\ prs' = [prs EXCEPT ![p] = s]
  /\ UNCHANGED <<steps, tasks, nextTask, nextPr, pending, selected, panel, reads, clicks>>

ClosePending(p, t) ==
  /\ [pr |-> p, task |-> t, closed |-> FALSE] \in pending
  /\ pending' = (pending \ {[pr |-> p, task |-> t, closed |-> FALSE]})
                  \cup {[pr |-> p, task |-> t, closed |-> TRUE]}
  /\ UNCHANGED <<steps, tasks, nextTask, prs, nextPr, selected, panel, reads, clicks>>

DeletePr(p) ==
  /\ p \in DOMAIN prs
  /\ pending' = {r \in pending : r.pr # p}
  /\ prs' = Less(prs, {p})
  /\ UNCHANGED <<steps, tasks, nextTask, nextPr, selected, panel, reads, clicks>>

\* The pending rows that go with step s: those of its PRs and those of its tasks,
\* which PRs that moved away still have.  GoneWithBug leaves the latter.
GoneWithBug(s) == {r \in pending : r.pr \in PrsOf(s)}
GoneWith(s) == {r \in pending : r.pr \in PrsOf(s) \/ r.task \in TasksOf(s)}

DeleteStep(s) ==
  /\ s \in steps
  /\ pending' = pending \ GoneWith(s)
  /\ prs' = Less(prs, PrsOf(s)) /\ tasks' = Less(tasks, TasksOf(s))
  /\ steps' = steps \ {s}
  /\ UNCHANGED <<nextTask, nextPr, selected, panel, reads, clicks>>

\* A click reaches the daemon, which looks for the task in the step of the URL,
\* and answers 404 if it is not there.  FindsBug looks the task up by its id.
FindsBug(c) == c.task \in DOMAIN tasks
Finds(c) == c.task \in TasksOf(c.step) /\ c.step \in steps

Carry(c) ==
  CASE c.kind = "retire" -> tasks' = [tasks EXCEPT ![c.task].retired = TRUE] /\ UNCHANGED pending
    [] c.kind = "edit"   -> tasks' = [tasks EXCEPT ![c.task].edited = TRUE] /\ UNCHANGED pending
    [] c.kind = "delete" -> tasks' = Less(tasks, {c.task})
                              /\ pending' = {r \in pending : r.task # c.task}

ClickArrives(c) ==
  /\ c \in clicks /\ clicks' = clicks \ {c}
  /\ IF Finds(c) THEN Carry(c) ELSE UNCHANGED <<tasks, pending>>
  /\ UNCHANGED <<steps, nextTask, prs, nextPr, selected, panel, reads>>

-----------------------------------------------------------------------------
(* The panel. *)

\* The step's tasks are asked for when it is selected and after a click: reload.
SelectStep(s) ==
  /\ s # selected /\ selected' = s
  /\ UNCHANGED <<steps, tasks, nextTask, prs, nextPr, pending, panel, reads, clicks>>

Reload ==
  /\ Cardinality(reads) < MaxClicks
  /\ reads' = reads \cup {{t \in TasksOf(selected) : ~tasks[t].retired}}
  /\ UNCHANGED <<steps, tasks, nextTask, prs, nextPr, pending, selected, panel, clicks>>

\* An answer is shown whatever step is selected by then.
ShowTasks(list) ==
  /\ list \in reads /\ reads' = reads \ {list}
  /\ panel' = list
  /\ UNCHANGED <<steps, tasks, nextTask, prs, nextPr, pending, selected, clicks>>

\* retire, saveEdit or remove of a task on show, in the step that is selected.
Click(kind, t) ==
  /\ t \in panel /\ Cardinality(clicks) < MaxClicks
  /\ clicks' = clicks \cup {[kind |-> kind, step |-> selected, task |-> t]}
  /\ UNCHANGED <<steps, tasks, nextTask, prs, nextPr, pending, selected, panel, reads>>

BoardNext ==
  \/ \E s \in Columns : CreateTask(s) \/ RegisterPr(s) \/ DeleteStep(s) \/ SelectStep(s)
  \/ \E p \in DOMAIN prs :
       DeletePr(p) \/ (\E s \in Columns : MovePr(p, s)) \/ (\E t \in TaskIds : ClosePending(p, t))
  \/ \E c \in clicks : ClickArrives(c)
  \/ Reload
  \/ \E list \in reads : ShowTasks(list)
  \/ \E kind \in {"retire", "edit", "delete"}, t \in panel : Click(kind, t)

BoardSpec == BoardInit /\ [][BoardNext]_boardVars

-----------------------------------------------------------------------------
(* Properties. *)

\* TasksPanel: lists arrive late and out of order, so a task of another step may
\* be on show; a click never changes a task of a step other than the selected one.
ClicksHitSelectedStep ==
  [][\A t \in DOMAIN tasks :
       \/ t \in DOMAIN tasks' /\ tasks'[t] = tasks[t]
       \/ tasks[t].step \notin steps'
       \/ \E c \in clicks \ clicks' : c.task = t /\ c.step = tasks[t].step]_boardVars

\* campaigns.ts:294-297: no deletion, of a task, a PR or a step, leaves a pending
\* row without its PR or its task, though PRs move between steps with their rows.
PendingHasBothEnds ==
  \A r \in pending : r.pr \in DOMAIN prs /\ r.task \in DOMAIN tasks
=============================================================================
