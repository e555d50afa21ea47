---------------------------------- MODULE Sync ----------------------------------
(***************************************************************************)
(* How the state of PRs on GitHub gets to the board: the sync loop, the    *)
(* user's sync of a campaign or of one PR, and the one of a registration.  *)
(* Each reads PRs in batches, one after the other, and then writes what it *)
(* has read in one transaction; several may be under way.                  *)
(* Sources: packages/daemon/src/github.ts, index.ts, and routes/prs.ts     *)
(* (POST /prs and the two sync routes).                                    *)
(*                                                                         *)
(* A PR is not reopened.  There is no clock: synced_at has an age.         *)
(***************************************************************************)
EXTENDS Integers, FiniteSets

CONSTANTS
  Reviews,     \* reviewDecisions: some of APPROVED, CHANGES_REQUESTED, ...
  Rollups,     \* states of a PR's checks: some of SUCCESS, PENDING, ...
  PrIds,       \* prs: ids, in the order in which queries return them
  Costly,      \* PRs whose batch GitHub may refuse each time
  BatchSize,   \* BATCH_SIZE
  Syncs,       \* bound: syncs under way at once
  Loop,        \* the one that only the loop may be
  Changing,    \* bound: the PRs that change on GitHub or are registered
  MaxChanges   \* bound: how often, restarts of the daemon included

ASSUME SyncConstants ==
  /\ "REVIEW_REQUIRED" \in Reviews /\ "none" \in Rollups
  /\ PrIds \subseteq Nat /\ Costly \cup Changing \subseteq PrIds /\ Loop \in Syncs
  /\ BatchSize \in Nat \ {0} /\ MaxChanges \in Nat

VARIABLES
  github,    \* what is true there of each PR
  board,     \* lifecycle, review_state and ci_status
  node,      \* github_node_id is known
  age,       \* of synced_at: "never", "now", "2min", "30min"
  sync,      \* each sync: the PRs still to be read, and what it has read
  changes

syncVars == <<github, board, node, age, sync, changes>>

Terminal == {"merged", "closed"}

\* mapState, mapReview and mapCi.
MapState(state) == IF state = "draft" THEN "open" ELSE state
MapReview(review) ==
  CASE review = "APPROVED" -> "approved"
    [] review = "CHANGES_REQUESTED" -> "changes-requested"
    [] OTHER -> "missing"
MapCi(rollup) ==
  CASE rollup = "none" -> "unknown"
    [] rollup = "SUCCESS" -> "passing"
    [] rollup \in {"PENDING", "EXPECTED"} -> "running"
    [] OTHER -> "failing"
View(fact) == [lifecycle |-> MapState(fact.state), review |-> MapReview(fact.review), ci |-> MapCi(fact.rollup)]

NoSync == [left |-> {}, read |-> <<>>, on |-> FALSE]

SyncInit ==
  /\ github = [p \in PrIds |-> [state |-> "draft", review |-> "REVIEW_REQUIRED", rollup |-> "none"]]
  /\ board = [p \in PrIds |-> [lifecycle |-> "open", review |-> "missing", ci |-> "unknown"]]
  /\ node \in {PrIds, {}}
  /\ age = [p \in PrIds |-> "never"]
  /\ sync = [s \in Syncs |-> NoSync]
  /\ changes = 0

-----------------------------------------------------------------------------
(* What begins a sync. *)

Open == {p \in node : board[p].lifecycle \notin Terminal}

\* A PR that waits for nothing but the merge is read every 30 minutes, any
\* other every 2.
Safe(p) == board[p].ci = "passing" /\ board[p].review = "approved"
Due == {p \in Open : \/ age[p] = "never"
                     \/ age[p] = "30min"
                     \/ age[p] = "2min" /\ ~Safe(p)}

Begin(s, prs) ==
  /\ ~sync[s].on /\ prs # {}
  /\ sync' = [sync EXCEPT ![s] = [left |-> prs, read |-> <<>>, on |-> TRUE]]
  /\ UNCHANGED <<github, board, age, changes>>

\* The loop: at start and every minute.
SyncAllActivePrs(s) == Begin(s, Due) /\ UNCHANGED node

\* The user syncs the campaign: node ids that are missing are looked up first,
\* and some of the lookups fail.
SyncCampaign(s) ==
  s # Loop /\ \E found \in SUBSET {p \in PrIds \ node : board[p].lifecycle \notin Terminal} :
    /\ node' = node \cup found
    /\ Begin(s, Open \cup found)

\* The user, or a registration that has found the node id, syncs one PR.
SyncPr(s, p) == s # Loop /\ p \in node /\ Begin(s, {p}) /\ UNCHANGED node

\* POST /prs: the PR is open, whatever it was, and its node id is looked up if
\* the caller does not know it.
Register(p) ==
  /\ changes < MaxChanges /\ changes' = changes + 1
  /\ board' = [board EXCEPT ![p].lifecycle = "open"]
  /\ node' \in {node, node \cup {p}}
  /\ UNCHANGED <<github, age, sync>>

-----------------------------------------------------------------------------
(* graphqlBatch and the transaction after it. *)

Batch(s) == {p \in sync[s].left : Cardinality({q \in sync[s].left : q < p}) < BatchSize}

\* What the answer to a batch says; a PR that GitHub lacks a node of is left out.
\* SeenBug takes it for closed.
SeenBug(s, lacks) ==
  [p \in Batch(s) |-> IF p \in lacks THEN [View(github[p]) EXCEPT !.lifecycle = "closed"] ELSE View(github[p])]
Seen(s, lacks) == [p \in Batch(s) \ lacks |-> View(github[p])]

With(read, seen) ==
  [p \in DOMAIN read \cup DOMAIN seen |-> IF p \in DOMAIN read THEN read[p] ELSE seen[p]]
BatchRead(s) ==
  /\ sync[s].left # {}
  /\ \E lacks \in SUBSET (Batch(s) \cap Costly) :
       sync' = [sync EXCEPT ![s].left = @ \ Batch(s), ![s].read = With(@, Seen(s, lacks))]
  /\ UNCHANGED <<github, board, node, age, changes>>

\* A batch fails: the next one follows.  SkippedBug ends the whole sync.
SkippedBug(s) == [sync EXCEPT ![s] = NoSync]
Skipped(s) == [sync EXCEPT ![s].left = @ \ Batch(s)]
BatchFails(s) ==
  /\ sync[s].left # {}
  /\ sync' = Skipped(s)
  /\ UNCHANGED <<github, board, node, age, changes>>

WriteAnswers(s) ==
  /\ sync[s].on /\ sync[s].left = {}
  /\ board' = [p \in PrIds |-> IF p \in DOMAIN sync[s].read THEN sync[s].read[p] ELSE board[p]]
  /\ age' = [p \in PrIds |-> IF p \in DOMAIN sync[s].read THEN "now" ELSE age[p]]
  /\ sync' = [sync EXCEPT ![s] = NoSync]
  /\ UNCHANGED <<github, node, changes>>

-----------------------------------------------------------------------------
(* GitHub, time and the specification. *)

Change(p) ==
  /\ changes < MaxChanges /\ changes' = changes + 1
  /\ github[p].state \notin Terminal
  /\ \/ \E state \in {"open"} \cup Terminal : github' = [github EXCEPT ![p].state = state]
     \/ \E review \in Reviews : github' = [github EXCEPT ![p].review = review]
     \/ \E rollup \in Rollups : github' = [github EXCEPT ![p].rollup = rollup]
  /\ UNCHANGED <<board, node, age, sync>>

Age(p) ==
  /\ age[p] \in {"now", "2min"}
  /\ age' = [age EXCEPT ![p] = IF @ = "now" THEN "2min" ELSE "30min"]
  /\ UNCHANGED <<github, board, node, sync, changes>>

\* The daemon is restarted: what was under way is lost.
SyncRestart ==
  /\ sync # [s \in Syncs |-> NoSync]
  /\ changes < MaxChanges /\ changes' = changes + 1
  /\ sync' = [s \in Syncs |-> NoSync]
  /\ UNCHANGED <<github, board, node, age>>

Answer(s) == BatchRead(s) \/ BatchFails(s)

SyncNext ==
  \/ \E s \in Syncs : SyncAllActivePrs(s) \/ SyncCampaign(s) \/ Answer(s) \/ WriteAnswers(s)
  \/ \E s \in Syncs, p \in PrIds : SyncPr(s, p)
  \/ \E p \in Changing : Register(p) \/ Change(p)
  \/ \E p \in PrIds : Age(p)
  \/ SyncRestart

\* The loop goes on, its requests are answered or fail, the clock goes on, and
\* a batch of the loop without costly PRs is not refused each time.  A sync of
\* the user may hang.
SyncFairness ==
  /\ WF_syncVars(SyncAllActivePrs(Loop)) /\ WF_syncVars(Answer(Loop)) /\ WF_syncVars(WriteAnswers(Loop))
  /\ \A p \in PrIds : WF_syncVars(Age(p))
  /\ \A p \in PrIds \ Costly :
       SF_syncVars(p \in Batch(Loop) /\ Batch(Loop) \cap Costly = {} /\ BatchRead(Loop))

SyncSpec == SyncInit /\ [][SyncNext]_syncVars /\ SyncFairness

Facts == [state : {"draft", "open"} \cup Terminal, review : Reviews, rollup : Rollups]
Views == [lifecycle : {"open"} \cup Terminal, review : {"approved", "changes-requested", "missing"},
          ci : {"unknown", "passing", "running", "failing"}]

SyncTypeOK ==
  /\ github \in [PrIds -> Facts] /\ board \in [PrIds -> Views]
  /\ node \subseteq PrIds /\ changes \in 0..MaxChanges
  /\ age \in [PrIds -> {"never", "now", "2min", "30min"}]
  /\ \A s \in Syncs :
       /\ sync[s].left \subseteq PrIds /\ sync[s].on \in BOOLEAN /\ (sync[s].left # {} => sync[s].on)
       /\ DOMAIN sync[s].read \subseteq PrIds /\ \A p \in DOMAIN sync[s].read : sync[s].read[p] \in Views

\* github.ts:301, 355: the loop never reads a PR again that it wrote as merged or
\* closed, and its claims are released.  So that must be what it is on GitHub,
\* however late an answer is written and whatever the batches lacked.
FinishedIsTrue ==
  \A p \in PrIds : board[p].lifecycle \in Terminal => github[p].state = board[p].lifecycle

\* github.ts:98-109, 320-332: what becomes of a PR on GitHub is shown in the
\* end, though batches with other PRs are refused each time, syncs write what
\* they read before a later one did, and the daemon is restarted.
ChangesAreShown ==
  \A p \in PrIds \ Costly : <>[](p \in node => board[p] = View(github[p]))
=============================================================================
