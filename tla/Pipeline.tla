-------------------------------- MODULE Pipeline --------------------------------
(***************************************************************************)
(* How the tools of the agents' MCP servers build a campaign: each call    *)
(* resolves the repository and the step it names, makes them on the way,   *)
(* and then acts; register_pr does so for a list of PRs, some at a time.   *)
(* Meanwhile the user edits the pipeline in the GUI.                       *)
(* Sources: packages/daemon/src/mcp.ts, hooks/client.ts and the routes of  *)
(* steps and repositories in routes/campaigns.ts; POST and DELETE /prs in  *)
(* routes/prs.ts as far as a numbered PR goes (PrRegistry has the rest).   *)
(*                                                                         *)
(* The daemon serves one request at a time.  A request may be lost, or be  *)
(* served after its caller gave up (2 s, 10 s for POST /prs).              *)
(***************************************************************************)
EXTENDS Integers, FiniteSets

CONSTANTS
  Entries,         \* entries of the tool calls
  CallOf,          \* the call each belongs to
  Kinds,           \* assignments of a tool and its arguments to each entry
  StepNames, Lower,\* names of steps, in lower case
  NoStepName,      \* the entry names no step
  Concurrency,     \* REGISTER_PR_CONCURRENCY
  MaxTroubles      \* bound: requests lost or late, and requests of the GUI

ASSUME PipelineConstants ==
  /\ Lower \in [StepNames -> StepNames] /\ NoStepName \notin StepNames
  /\ Concurrency \in Nat \ {0} /\ MaxTroubles \in Nat

VARIABLES
  db,       \* campaign_steps, campaign_repos, prs; and the last id given out
  asked,    \* the tool and arguments of each entry
  doing,    \* of each entry: the request it waits for, and the ids it has found
  late,     \* requests whose caller gave up that are still to be served
  excused,  \* history: entries with a lost request, or undone by another call
  troubles  \* lost requests and requests of the GUI so far

pipeVars == <<db, asked, doing, late, excused, troubles>>

NotCalled == [at |-> "idle", repo |-> 0, step |-> 0, pr |-> 0]
Settled == {"ok", "failed"}
Active(e) == doing[e].at \notin {"idle", "queued"} \cup Settled

PipeInit ==
  /\ db = [steps |-> {}, repos |-> {}, prs |-> {}, last |-> 0]
  /\ asked \in Kinds
  /\ doing = [e \in Entries |-> NotCalled]
  /\ late = {} /\ excused = {}
  /\ troubles = 0

-----------------------------------------------------------------------------
(* The database, and what a request makes of it. *)

\* The id of the row that a lookup by name finds, 0 if it finds none.  Steps
\* are compared without regard to case, repositories as they are.
StepId(d, name) ==
  IF \E s \in d.steps : Lower[s.name] = Lower[name]
  THEN (CHOOSE s \in d.steps : Lower[s.name] = Lower[name]).id ELSE 0
RepoId(d, name) ==
  IF \E r \in d.repos : r.name = name THEN (CHOOSE r \in d.repos : r.name = name).id ELSE 0
PrId(d, repo, number) ==
  IF \E p \in d.prs : p.repo = repo /\ p.number = number
  THEN (CHOOSE p \in d.prs : p.repo = repo /\ p.number = number).id ELSE 0
Ids(rows) == {r.id : r \in rows}

\* The order of a new step, computed in the INSERT.  StepOrderBug counts the steps.
StepOrderBug(d) == Cardinality(d.steps)
StepOrder(d) == IF d.steps = {} THEN 0
            ELSE (CHOOSE s \in d.steps : \A t \in d.steps : t.order <= s.order).order + 1

\* POST /campaigns/:id/steps: nothing is made if the name or the order is taken.
WithStep(d, name) ==
  IF StepId(d, name) # 0 \/ \E s \in d.steps : s.order = StepOrder(d) THEN d
  ELSE [d EXCEPT !.steps = @ \cup {[id |-> d.last + 1, name |-> name, order |-> StepOrder(d)]},
                 !.last = @ + 1]
WithRepo(d, name) ==
  IF RepoId(d, name) # 0 THEN d
  ELSE [d EXCEPT !.repos = @ \cup {[id |-> d.last + 1, name |-> name, pinned |-> FALSE]}, !.last = @ + 1]

\* POST /prs: a PR is its repository and number, the step only a field of it.
WithPr(d, repo, step, number) ==
  IF repo \notin Ids(d.repos) \/ step \notin Ids(d.steps) \cup {0} THEN d
  ELSE IF PrId(d, repo, number) = 0
  THEN [d EXCEPT !.prs = @ \cup {[id |-> d.last + 1, repo |-> repo, step |-> step, number |-> number]},
                 !.last = @ + 1]
  ELSE [d EXCEPT !.prs = {IF p.repo = repo /\ p.number = number /\ step # 0
                          THEN [p EXCEPT !.step = step] ELSE p : p \in @}]
Pinned(d, id) == [d EXCEPT !.repos = {IF r.id = id THEN [r EXCEPT !.pinned = TRUE] ELSE r : r \in @}]
WithoutStep(d, id) == [d EXCEPT !.steps = {s \in @ : s.id # id}, !.prs = {p \in @ : p.step # id}]
WithoutPr(d, id) == [d EXCEPT !.prs = {p \in @ : p.id # id}]

\* The database after the request that w, of entry x, waits for.
Served(d, x, w) ==
  CASE w.at = "postRepo" -> WithRepo(d, x.repo)
    [] w.at = "postStep" -> WithStep(d, x.step)
    [] w.at = "act" /\ x.tool = "register_pr" -> WithPr(d, w.repo, w.step, x.number)
    [] w.at = "act" /\ x.tool = "pin_repo" -> Pinned(d, w.repo)
    [] w.at = "act" /\ x.tool = "delete_step" -> WithoutStep(d, w.step)
    [] w.at = "act" /\ x.tool = "unregister_pr" -> WithoutPr(d, w.pr)
    [] OTHER -> d

\* Whether what entry e has found and done is there.
Holds(d, e) ==
  LET x == asked[e]  w == doing[e] IN
  /\ w.repo # 0 => w.repo \in Ids(d.repos)
  /\ w.step # 0 => \E s \in d.steps : s.id = w.step /\ Lower[s.name] = Lower[x.step]
  /\ w.pr # 0 => w.pr \in Ids(d.prs)
Registered(d, e) ==
  \E p \in d.prs : /\ p.repo = doing[e].repo /\ p.number = asked[e].number
                   /\ asked[e].step # NoStepName => p.step = doing[e].step
Undone(d) ==
  {e \in Entries : \/ Holds(db, e) /\ ~Holds(d, e)
                   \/ Registered(db, e) /\ ~Registered(d, e)}

\* Others may find their work undone by a deletion, or their PR moved.
Excuses(x, w, d) ==
  CASE w.at = "act" /\ x.tool \in {"delete_step", "unregister_pr"} -> Undone(d)
    [] w.at = "act" /\ x.tool = "register_pr" ->
         {e \in Undone(d) : asked[e].repo = x.repo /\ asked[e].number = x.number}
    [] OTHER -> {}

-----------------------------------------------------------------------------
(* The tools. *)

\* register_pr's workers: each settles an entry, whether it failed or not, and
\* takes the next.  WorkerFreeBug loses a worker to each entry that fails.
WorkerFreeBug(c) ==
  Cardinality({e \in Entries : CallOf[e] = c /\ (Active(e) \/ doing[e].at = "failed")}) < Concurrency
WorkerFree(c) == Cardinality({e \in Entries : CallOf[e] = c /\ Active(e)}) < Concurrency

Call(c) ==
  /\ \A e \in Entries : CallOf[e] = c => doing[e].at = "idle"
  /\ doing' = [e \in Entries |-> IF CallOf[e] = c THEN [NotCalled EXCEPT !.at = "queued"] ELSE doing[e]]
  /\ UNCHANGED <<db, asked, late, excused, troubles>>

FirstRequest(x) ==
  IF x.tool \in {"create_step", "create_task", "delete_step"} THEN "getSteps" ELSE "getRepo"
AfterRepo(x) ==
  CASE x.tool = "unregister_pr" -> "getPrs"
    [] x.tool = "register_pr" /\ x.step # NoStepName -> "getSteps"
    [] OTHER -> "act"
AfterStep(x) == IF x.tool = "create_step" THEN "ok" ELSE "act"

\* A worker takes the next entry.
Take(e) ==
  /\ doing[e].at = "queued" /\ WorkerFree(CallOf[e])
  /\ \A o \in Entries : CallOf[o] = CallOf[e] /\ doing[o].at = "queued" => e <= o
  /\ doing' = [doing EXCEPT ![e].at = FirstRequest(asked[e])]
  /\ UNCHANGED <<db, asked, late, excused, troubles>>

\* resolveRepoId and resolveStepId: a lookup, and a POST if there is none; a
\* tool that only removes has nothing to do then.
GetRepo(e) ==
  /\ doing[e].at = "getRepo"
  /\ LET id == RepoId(db, asked[e].repo)  x == asked[e] IN
     doing' = [doing EXCEPT ![e].repo = id,
                 ![e].at = CASE id # 0 -> AfterRepo(x)
                             [] id = 0 /\ x.tool = "unregister_pr" -> "ok"
                             [] OTHER -> "postRepo"]
  /\ UNCHANGED <<db, asked, late, excused, troubles>>

GetSteps(e) ==
  /\ doing[e].at = "getSteps"
  /\ LET id == StepId(db, asked[e].step)  x == asked[e] IN
     doing' = [doing EXCEPT ![e].step = id,
                 ![e].at = CASE id # 0 -> AfterStep(x)
                             [] id = 0 /\ x.tool = "delete_step" -> "ok"
                             [] OTHER -> "postStep"]
  /\ UNCHANGED <<db, asked, late, excused, troubles>>

\* findPrId.
GetPrs(e) ==
  /\ doing[e].at = "getPrs"
  /\ LET id == PrId(db, doing[e].repo, asked[e].number) IN
     doing' = [doing EXCEPT ![e].pr = id, ![e].at = IF id # 0 THEN "act" ELSE "ok"]
  /\ UNCHANGED <<db, asked, late, excused, troubles>>

Post(e) ==
  /\ doing[e].at \in {"postRepo", "postStep"}
  /\ LET x == asked[e]  d == Served(db, x, doing[e])  step == StepId(d, x.step) IN
     /\ db' = d
     /\ \/ /\ doing[e].at = "postRepo"
           /\ doing' = [doing EXCEPT ![e].repo = RepoId(d, x.repo), ![e].at = AfterRepo(x)]
        \/ /\ doing[e].at = "postStep"
           /\ doing' = [doing EXCEPT ![e].step = step, ![e].at = IF step = 0 THEN "failed" ELSE AfterStep(x)]
  /\ UNCHANGED <<asked, late, excused, troubles>>

\* The last request answers 404 if what it acts on is gone.
Act(e) ==
  /\ doing[e].at = "act"
  /\ LET x == asked[e]  w == doing[e]  d == Served(db, x, w)
         there == /\ x.tool \in {"register_pr", "pin_repo"} => w.repo \in Ids(db.repos)
                  /\ w.step \in Ids(db.steps) \cup {0}
                  /\ x.tool = "unregister_pr" => w.pr \in Ids(db.prs) IN
     /\ db' = d
     /\ doing' = [doing EXCEPT ![e].at = IF there THEN "ok" ELSE "failed"]
     /\ excused' = excused \cup (Excuses(x, w, d) \ {e})
  /\ UNCHANGED <<asked, late, troubles>>

\* The caller gives up; the request may yet be served.
TimesOut(e) ==
  /\ Active(e) /\ troubles < MaxTroubles
  /\ troubles' = troubles + 1
  /\ late' \in {late, late \cup {[entry |-> e, request |-> doing[e]]}}
  /\ doing' = [doing EXCEPT ![e].at = "failed"]
  /\ excused' = excused \cup {e}
  /\ UNCHANGED <<db, asked>>

ServedLate(q) ==
  /\ late' = late \ {q}
  /\ db' = Served(db, asked[q.entry], q.request)
  /\ excused' = excused \cup Excuses(asked[q.entry], q.request, db')
  /\ UNCHANGED <<asked, doing, troubles>>

-----------------------------------------------------------------------------
(* The GUI: steps are renamed, made and deleted, repositories deleted. *)

Gui(d) ==
  /\ troubles < MaxTroubles /\ troubles' = troubles + 1
  /\ db' = d
  /\ excused' = excused \cup Undone(d)
  /\ UNCHANGED <<asked, doing, late>>

\* 409 if another step has the name.
RenameStep(s, name) ==
  /\ StepId(db, name) \in {0, s.id}
  /\ Gui([db EXCEPT !.steps = (@ \ {s}) \cup {[s EXCEPT !.name = name]}])
AddStep(name) == Gui(WithStep(db, name))
DeleteStep(s) == Gui(WithoutStep(db, s.id))
\* Refused while PRs refer to it: foreign keys are enforced.
DeleteRepo(r) ==
  /\ \A p \in db.prs : p.repo # r.id
  /\ Gui([db EXCEPT !.repos = @ \ {r}])

Request(e) == GetRepo(e) \/ GetSteps(e) \/ GetPrs(e) \/ Post(e) \/ Act(e) \/ TimesOut(e)

PipeNext ==
  \/ \E e \in Entries : Call(CallOf[e]) \/ Take(e) \/ Request(e)
  \/ \E q \in late : ServedLate(q)
  \/ \E s \in db.steps : DeleteStep(s) \/ \E name \in StepNames : RenameStep(s, name)
  \/ \E name \in StepNames : AddStep(name)
  \/ \E r \in db.repos : DeleteRepo(r)

\* Every request is answered or times out, and workers do not sleep.
PipeFairness == WF_pipeVars(\E e \in Entries : Take(e) \/ Request(e))

PipeSpec == PipeInit /\ [][PipeNext]_pipeVars /\ PipeFairness

-----------------------------------------------------------------------------
(* Properties. *)

PipeTypeOK ==
  /\ asked \in Kinds /\ troubles \in 0..MaxTroubles
  /\ \A q \in late : q.entry \in excused
  /\ \A e \in Entries : {doing[e].repo, doing[e].step, doing[e].pr} \subseteq 0..db.last

\* mcp.ts:77-85, 150-175 and campaigns.ts:222-262: entries that race each other
\* to make the same step or repository do not fail for it.  One fails only if a
\* request was lost or somebody took away what it had found; and what is
\* reported as registered is there, in the step that was named.
BatchesAreHonest ==
  \A e \in Entries \ excused :
    /\ doing[e].at # "failed"
    /\ doing[e].at = "ok" /\ asked[e].tool = "register_pr" => Holds(db, e) /\ Registered(db, e)

\* mcp.ts:155-175: a tool call that is made is answered, every entry of it,
\* although others of its entries fail.
ToolsAnswer ==
  <>[](\A e \in Entries : doing[e].at \in Settled \cup {"idle"})
=============================================================================
