----------------------------- MODULE PrRegistry -----------------------------
(***************************************************************************)
(* The PRs of one repository of a campaign and the claims on them: rows of *)
(* prs and pr_claims, the processes that claim (an agent's MCP server, or  *)
(* `besiege dispatch`), and the sync of PR state from GitHub.              *)
(* Sources: packages/daemon/src/{mcp,cli,github,index}.ts and              *)
(* routes/{prs,campaigns}.ts.                                              *)
(*                                                                         *)
(* The daemon serves one request at a time, so an action is one request    *)
(* and what its caller makes of the answer.  A tool call is one request to *)
(* resolve the PR and a second one to act on it; any request may be lost,  *)
(* and any answer may come after the caller's 2 s timeout.                 *)
(*                                                                         *)
(* There is no clock: a claim may expire once nobody who is up, and so     *)
(* heartbeats every 30 s, remembers its PR.  The daemon is assumed to be   *)
(* reachable for one of the ten heartbeats of any 5 minutes.               *)
(***************************************************************************)
EXTENDS Naturals, FiniteSets

CONSTANTS
  Agents,       \* processes that claim PRs; each lives once
  Steps,        \* steps of the campaign
  NoStep,       \* step_id NULL
  Numbers,      \* numbers of the repository's PRs on GitHub
  NoNumber,     \* github_pr_number NULL: the row only holds a (repo, step) slot
  Nobody,       \* no unreleased claim
  MaxRows,      \* bound: rows ever inserted into prs
  MaxSyncs      \* bound: answers of GitHub in flight at once

ASSUME NoStepIsNoStep == NoStep \notin Steps
ASSUME NoNumberIsNoNumber == NoNumber \notin Numbers
ASSUME NobodyIsNoAgent == Nobody \notin Agents
ASSUME PrBoundsAreNaturals == MaxRows \in Nat /\ MaxSyncs \in Nat

Rows == 1..MaxRows
Slots == Steps \union {NoStep}
Done == {"merged", "closed"}

VARIABLES
  (* prs and pr_claims, persisted *)
  row,          \* "fresh" before the INSERT, "there", "deleted"
  step,         \* step_id
  number,       \* github_pr_number
  node,         \* rows whose github_node_id is known
  lifecycle,
  holder,       \* the session of the row's unreleased claim
  claimed,      \* rows that pr_claims refers to, released claims included
  (* the rest of the campaign *)
  campaign,     \* "there", "deleted"
  terminals,    \* whether it has terminal sessions
  (* the processes that claim *)
  proc,         \* "up", "leaving" (shutdown began), "ended"
  remembers,    \* claimedPrIds
  call,         \* the second request of a tool call
  (* GitHub *)
  github,       \* state of each PR there, "none" before it is opened
  answers       \* <<row, state>> read there and not yet applied

prVars    == <<row, step, number, node, lifecycle>>
claimVars == <<holder, claimed>>
dirVars   == <<campaign, terminals>>
agentVars == <<proc, remembers, call>>
hubVars   == <<github, answers>>
vars      == <<prVars, claimVars, dirVars, agentVars, hubVars>>

NoCall == [tool |-> "none", slot |-> NoStep, pr |-> 0]
Call == [tool: {"claim_pr", "release_pr"}, slot: Slots, pr: Rows]

TypeOK ==
  /\ row \in [Rows -> {"fresh", "there", "deleted"}]
  /\ step \in [Rows -> Slots]
  /\ number \in [Rows -> Numbers \union {NoNumber}]
  /\ node \subseteq Rows
  /\ lifecycle \in [Rows -> {"not-started", "open"} \union Done]
  /\ holder \in [Rows -> Agents \union {Nobody}]
  /\ claimed \subseteq Rows
  /\ campaign \in {"there", "deleted"}
  /\ terminals \in BOOLEAN
  /\ proc \in [Agents -> {"up", "leaving", "ended"}]
  /\ remembers \in [Agents -> SUBSET Rows]
  /\ call \in [Agents -> Call \union {NoCall}]
  /\ github \in [Numbers -> {"none", "draft", "open"} \union Done]
  /\ answers \subseteq Rows \X ({"open"} \union Done)

Init ==
  /\ row = [p \in Rows |-> "fresh"]
  /\ step = [p \in Rows |-> NoStep]
  /\ number = [p \in Rows |-> NoNumber]
  /\ node = {}
  /\ lifecycle = [p \in Rows |-> "not-started"]
  /\ holder = [p \in Rows |-> Nobody]
  /\ claimed = {}
  /\ campaign = "there" /\ terminals = TRUE
  /\ proc = [a \in Agents |-> "up"]
  /\ remembers = [a \in Agents |-> {}]
  /\ call = [a \in Agents |-> NoCall]
  /\ github = [n \in Numbers |-> "none"]
  /\ answers = {}

-----------------------------------------------------------------------------
(* POST /prs: one transaction that selects the row, then updates or inserts. *)

There == {p \in Rows : row[p] = "there"}

WithNumber(n) == {p \in There : number[p] = n /\ n # NoNumber}

Placeholder(t) == {p \in There : step[p] = t /\ number[p] = NoNumber}

\* The PR of that number, else the placeholder of the step, if any.
\* ExistingBug looks for the placeholder first.
ExistingBug(t, n) == IF Placeholder(t) # {} THEN Placeholder(t) ELSE WithNumber(n)
Existing(t, n) == IF WithNumber(n) # {} THEN WithNumber(n) ELSE Placeholder(t)

NextRow == {p \in Rows : row[p] = "fresh" /\ \A q \in 1..(p - 1) : row[q] # "fresh"}

\* Row p after the request: COALESCE keeps what the caller leaves out.
\* UpsertedBug writes the step of a caller who names none.
UpsertedBug(p, t, n) ==
  /\ row' = [row EXCEPT ![p] = "there"]
  /\ step' = [step EXCEPT ![p] = t]
  /\ number' = [number EXCEPT ![p] = IF n = NoNumber THEN @ ELSE n]
  /\ lifecycle' = [lifecycle EXCEPT ![p] = IF n = NoNumber THEN @ ELSE "open"]
Upserted(p, t, n) ==
  /\ row' = [row EXCEPT ![p] = "there"]
  /\ step' = [step EXCEPT ![p] = IF t = NoStep THEN @ ELSE t]
  /\ number' = [number EXCEPT ![p] = IF n = NoNumber THEN @ ELSE n]
  /\ lifecycle' = [lifecycle EXCEPT ![p] = IF n = NoNumber THEN @ ELSE "open"]

\* The request on slot t, served for row p.
Upsert(p, t, n) ==
  /\ campaign = "there"
  /\ p \in IF Existing(t, n) # {} THEN Existing(t, n) ELSE NextRow
  /\ Upserted(p, t, n)

\* register_pr, for a PR that is on GitHub; the caller may know its node id.
RegisterPr(t, n) ==
  /\ github[n] # "none"
  /\ \E p \in Rows :
       /\ Upsert(p, t, n)
       /\ node' \in {node, node \union {p}}
  /\ UNCHANGED <<claimVars, dirVars, agentVars, hubVars>>

\* fetchPrNodeId, of that request or of a later syncCampaign, has answered.
ResolveNode(p) ==
  /\ p \in There \ node /\ number[p] # NoNumber
  /\ node' = node \union {p}
  /\ UNCHANGED <<row, step, number, lifecycle, claimVars, dirVars, agentVars, hubVars>>

-----------------------------------------------------------------------------
(* claim_pr and release_pr: resolvePrId on the slot, then the claim request. *)

StartTool(a, tool, t) ==
  /\ proc[a] = "up" /\ call[a] = NoCall
  /\ \E p \in Rows :
       /\ Upsert(p, t, NoNumber)
       /\ call' = [call EXCEPT ![a] = [tool |-> tool, slot |-> t, pr |-> p]]
  /\ UNCHANGED <<node, claimVars, dirVars, proc, remembers, hubVars>>

\* It did not reach the daemon.
LoseCall(a) ==
  /\ call[a] # NoCall
  /\ call' = [call EXCEPT ![a] = NoCall]
  /\ UNCHANGED <<prVars, claimVars, dirVars, proc, remembers, hubVars>>

\* POST /prs/:id/claim takes the claim from whoever has it.  The caller
\* remembers the PR if it hears of it.
ServeClaim(a) ==
  /\ call[a].tool = "claim_pr"
  /\ call' = [call EXCEPT ![a] = NoCall]
  /\ LET p == call[a].pr IN
     IF row[p] = "there"
     THEN /\ holder' = [holder EXCEPT ![p] = a]
          /\ claimed' = claimed \union {p}
          /\ \/ remembers' = [remembers EXCEPT ![a] = @ \union {p}]
             \/ UNCHANGED remembers
     ELSE UNCHANGED <<claimVars, remembers>>
  /\ UNCHANGED <<prVars, dirVars, proc, hubVars>>

\* DELETE /prs/:id/claim ends the row's claim, whoever has it: the request
\* does not say who asks.
Release(p) == holder' = [holder EXCEPT ![p] = Nobody]

\* The caller forgets the PR only if it hears that there was a claim.
ServeRelease(a) ==
  /\ call[a].tool = "release_pr"
  /\ call' = [call EXCEPT ![a] = NoCall]
  /\ LET p == call[a].pr IN
     /\ Release(p)
     /\ \/ holder[p] # Nobody /\ remembers' = [remembers EXCEPT ![a] = @ \ {p}]
        \/ UNCHANGED remembers
  /\ UNCHANGED <<prVars, claimed, dirVars, proc, hubVars>>

\* SIGTERM, or the session ends: releaseAllClaims, one request for each PR.
Leave(a) ==
  /\ proc[a] = "up"
  /\ proc' = [proc EXCEPT ![a] = "leaving"]
  /\ UNCHANGED <<prVars, claimVars, dirVars, remembers, call, hubVars>>

ReleaseOnExit(a, p) ==
  /\ proc[a] = "leaving" /\ p \in remembers[a]
  /\ remembers' = [remembers EXCEPT ![a] = @ \ {p}]
  /\ Release(p) \/ UNCHANGED holder
  /\ UNCHANGED <<prVars, claimed, dirVars, proc, call, hubVars>>

\* The process ends, or dies at any point.
End(a) ==
  /\ proc[a] # "ended"
  /\ proc' = [proc EXCEPT ![a] = "ended"]
  /\ remembers' = [remembers EXCEPT ![a] = {}]
  /\ call' = [call EXCEPT ![a] = NoCall]
  /\ UNCHANGED <<prVars, claimVars, dirVars, hubVars>>

-----------------------------------------------------------------------------
(* The daemon's minute timer: expireStaleClaims, and the sync with GitHub. *)

\* Heartbeats of every process that remembers the PR reach its claim: the
\* request does not say whose.
Heartbeated(p) == \E a \in Agents : proc[a] # "ended" /\ p \in remembers[a]

\* ExpireBug finds the claims through campaign_steps, as DeleteCampaign does.
ExpireBug(p) ==
  /\ holder[p] # Nobody /\ ~Heartbeated(p) /\ step[p] # NoStep
  /\ Release(p)
  /\ UNCHANGED <<prVars, claimed, dirVars, agentVars, hubVars>>
Expire(p) ==
  /\ holder[p] # Nobody /\ ~Heartbeated(p)
  /\ Release(p)
  /\ UNCHANGED <<prVars, claimed, dirVars, agentVars, hubVars>>

\* What syncAllActivePrs and syncCampaign ask GitHub about; syncPr, on demand,
\* about any row whose node is known.  UnfinishedBug only asks about PRs that
\* somebody works on.
UnfinishedBug == {p \in There \cap node : holder[p] # Nobody}
Unfinished == {p \in There \cap node : lifecycle[p] \notin Done}

\* mapState.
MapState(s) == IF s = "draft" THEN "open" ELSE s

\* GitHub answers for row p with the state of its PR now.
ReadGitHub(p) ==
  /\ p \in There \cap node
  /\ Cardinality(answers) < MaxSyncs
  /\ answers' = answers \union {<<p, MapState(github[number[p]])>>}
  /\ UNCHANGED <<prVars, claimVars, dirVars, agentVars, github>>

\* The answer is stored, whatever has been stored since it was read.
ApplyAnswer(r) ==
  /\ r \in answers
  /\ answers' = answers \ {r}
  /\ IF row[r[1]] = "there"
     THEN /\ lifecycle' = [lifecycle EXCEPT ![r[1]] = r[2]]
          /\ IF r[2] \in Done THEN Release(r[1]) ELSE UNCHANGED holder
     ELSE UNCHANGED <<lifecycle, holder>>
  /\ UNCHANGED <<row, step, number, node, claimed, dirVars, agentVars, github>>

-----------------------------------------------------------------------------
(* People: pull requests on GitHub, the desktop, deletions. *)

PrMoves(n) ==
  /\ \/ github[n] \in {"none", "draft", "closed"} /\ github' = [github EXCEPT ![n] = "open"]
     \/ github[n] \in {"none", "open"} /\ github' = [github EXCEPT ![n] = "draft"]
     \/ github[n] \in {"draft", "open"} /\ \E s \in Done : github' = [github EXCEPT ![n] = s]
  /\ UNCHANGED <<prVars, claimVars, dirVars, agentVars, answers>>

UserReleases(p) ==
  /\ holder[p] # Nobody
  /\ Release(p)
  /\ UNCHANGED <<prVars, claimed, dirVars, agentVars, hubVars>>

\* The rows of D and all their claims; of a deleted row only the id remains.
DeleteRows(D) ==
  /\ row' = [p \in Rows |-> IF p \in D THEN "deleted" ELSE row[p]]
  /\ step' = [p \in Rows |-> IF p \in D THEN NoStep ELSE step[p]]
  /\ number' = [p \in Rows |-> IF p \in D THEN NoNumber ELSE number[p]]
  /\ lifecycle' = [p \in Rows |-> IF p \in D THEN "not-started" ELSE lifecycle[p]]
  /\ holder' = [p \in Rows |-> IF p \in D THEN Nobody ELSE holder[p]]
  /\ claimed' = claimed \ D
  /\ node' = node \ D

\* unregister_pr, or the desktop's delete.
DeletePr(p) ==
  /\ p \in There
  /\ DeleteRows({p})
  /\ UNCHANGED <<dirVars, agentVars, hubVars>>

\* Every row under the step, numbered or not; the step may be named again.
DeleteStep(t) ==
  /\ \E p \in There : step[p] = t
  /\ DeleteRows({p \in There : step[p] = t})
  /\ UNCHANGED <<dirVars, agentVars, hubVars>>

\* Sessions first, one by one.  Then a transaction that deletes the claims of
\* the rows with a step, and every row: a foreign key makes all of it fail if
\* a row without a step was ever claimed.
DeleteCampaign ==
  /\ campaign = "there"
  /\ terminals' = FALSE
  /\ IF \E p \in There \cap claimed : step[p] = NoStep
     THEN UNCHANGED <<prVars, claimVars, campaign>>
     ELSE /\ DeleteRows(There)
          /\ campaign' = "deleted"
  /\ UNCHANGED <<agentVars, hubVars>>

-----------------------------------------------------------------------------
Registering ==
  \/ \E t \in Slots, n \in Numbers : RegisterPr(t, n)
  \/ \E p \in Rows : ResolveNode(p)

Claiming ==
  \E a \in Agents :
    \/ \E t \in Slots, tool \in {"claim_pr", "release_pr"} : StartTool(a, tool, t)
    \/ LoseCall(a) \/ ServeClaim(a) \/ ServeRelease(a) \/ Leave(a) \/ End(a)
    \/ \E p \in Rows : ReleaseOnExit(a, p)

Syncing ==
  \/ \E p \in Rows : Expire(p) \/ ReadGitHub(p)
  \/ \E r \in answers : ApplyAnswer(r)

People ==
  \/ \E n \in Numbers : PrMoves(n)
  \/ \E p \in Rows : UserReleases(p) \/ DeletePr(p)
  \/ \E t \in Steps : DeleteStep(t)
  \/ DeleteCampaign

Next == Registering \/ Claiming \/ Syncing \/ People

Spec == Init /\ [][Next]_vars

\* The minute timer expires claims and asks GitHub, which answers now and then,
\* about what is unfinished; answers are applied.  Nobody has to claim,
\* release, leave or die.
Fairness ==
  \A p \in Rows :
    /\ WF_vars(Expire(p))
    /\ SF_vars(p \in Unfinished /\ ReadGitHub(p))
    /\ \A s \in {"open"} \union Done : WF_vars(ApplyAnswer(<<p, s>>))

FairSpec == Spec /\ Fairness

-----------------------------------------------------------------------------
(* Properties. *)

\* routes/prs.ts:183-194: a GitHub number is one row of its repository, and a
\* slot without a number is one row too, however registrations, claims and
\* deletions follow each other.  The unique indexes of migration 0035 would
\* fail a request that broke this; there is no such request.
OneRowPerPr ==
  \A p, q \in There :
    p # q => /\ number[p] = number[q] => number[p] = NoNumber
             /\ number[p] = NoNumber /\ number[q] = NoNumber => step[p] # step[q]

\* OneRowPerPr made inductive: a row not in the table has no step, number or
\* node yet, and only a PR that is on GitHub has given its number and node.
UnusedRows ==
  \A p \in Rows \ There : number[p] = NoNumber /\ step[p] = NoStep /\ p \notin node

NumbersAreReal ==
  \A p \in There :
    /\ p \in node => number[p] # NoNumber
    /\ number[p] # NoNumber => github[number[p]] # "none"

IInv == TypeOK /\ OneRowPerPr /\ UnusedRows /\ NumbersAreReal

\* ... and stays that row, and keeps a step it was once registered under until
\* it is registered under another.
RowKeepsIdentity ==
  [][\A p \in There : row'[p] = "there" =>
       /\ number[p] # NoNumber => number'[p] = number[p]
       /\ step[p] # NoStep => step'[p] # NoStep]_vars

\* docs/besiege-spec.md:137: "the daemon clears a claim automatically after
\* missed heartbeats".  The claim of a session that is gone goes too, unless
\* another process that once had the PR heartbeats it.
DeadClaimsExpire ==
  \A p \in Rows, a \in Agents :
    (holder[p] = a /\ proc[a] = "ended") ~> (holder[p] # a \/ Heartbeated(p))

\* A PR that has merged is noticed to be done, though answers of GitHub may be
\* applied in another order than they were read.
MergesAreNoticed ==
  \A p \in Rows :
    (p \in There \cap node /\ number[p] # NoNumber /\ github[number[p]] = "merged") ~>
      (row[p] # "there" \/ lifecycle[p] \in Done)

\* mcp.ts:288, release_pr: "Release your claim on the PR for (repo, step), e.g.
\* once the work is handed off or done."
ReleaseEndsTheClaim ==
  [][\A a \in Agents : ServeRelease(a) =>
       \A p \in There : step[p] = call[a].slot => holder'[p] # a]_vars

\* routes/campaigns.ts:150-151: "Permanent, cascading delete — unlike archive,
\* this really does remove everything underneath the campaign."
DeletedCampaignsAreGone == [][DeleteCampaign => campaign' = "deleted"]_vars

=============================================================================
