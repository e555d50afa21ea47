-------------------------------- MODULE Upgrade --------------------------------
(***************************************************************************)
(* What happens to the data of an installation when today's daemon opens   *)
(* its database: openDb applies the migrations that are missing, each in a *)
(* transaction, and may be killed between any two of them.                 *)
(* Sources: packages/daemon/src/db.ts, migrations/index.ts and             *)
(* chainFromSessionIds of layout-tree.ts.                                  *)
(*                                                                         *)
(* Migrations that only add a table, a column or an index nothing else     *)
(* depends on are left out.  The databases start as earlier releases left  *)
(* them; they are varied in one part at a time, as no statement of a       *)
(* migration reads two parts.  The PRs are those of one repository, a      *)
(* pane's ratio is counted in quarters and its share of a split in 64ths.  *)
(***************************************************************************)
EXTENDS Integers, FiniteSets, SequencesExt

CONSTANTS
  Sections,   \* campaign steps that have PRs
  NoSection,  \* the step of a PR without one
  Number,     \* a GitHub PR number
  NoNumber,   \* a placeholder row has none
  MaxSaved    \* bound: panes of a saved layout

ASSUME UpgradeConstants ==
  /\ IsFiniteSet(Sections) /\ NoSection \notin Sections /\ Number # NoNumber
  /\ MaxSaved \in 1..4

\* The migrations that have a say in the data, in the order of the array.
Migrations == <<"0019", "0022", "0026", "0031", "0033", "0034", "0035", "0036", "0037", "0041", "0042">>
LastMigration == Len(Migrations)
Before(name) == (CHOOSE i \in 1..LastMigration : Migrations[i] = name) - 1

VARIABLES
  daemon,    \* "down", "opening" its database, "up"
  applied,   \* schema_migrations: how many
  layout,    \* a saved layout: its members before 0019, then its tree
  rows,      \* prs, claims and pending tasks of the repository
  forked,    \* campaign_steps has two rows of one name
  edicts,    \* the two seeded config_rules
  failed,    \* the migration that threw last, "none" before
  before     \* history: the data of the release before

upgradeVars == <<daemon, applied, layout, rows, forked, edicts, failed, before>>

-----------------------------------------------------------------------------
(* The data of earlier releases. *)

Leaf(s) == [type |-> "leaf", session |-> s]
Chain(dir, ratio, a, b) == [type |-> "legacy", dir |-> dir, ratio |-> ratio, a |-> a, b |-> b]
Members(n) == [type |-> "members", sessions |-> [i \in 1..n |-> i]]

\* The binary trees of 0019 to 0030 over the sessions from span[1] to span[2]: the
\* trees of one session less, with one more on the right or on the left.
Spans == {span \in (1..MaxSaved) \X (1..MaxSaved) : span[1] <= span[2]}
Grown(span, left, right) ==
  {Chain(dir, ratio, a, Leaf(span[2])) : dir \in {"row", "col"}, ratio \in {1, 2}, a \in left}
    \cup {Chain(dir, 3, Leaf(span[1]), b) : dir \in {"row", "col"}, b \in right}
LegacyTrees[span \in Spans] ==
  IF span[1] = span[2] THEN {Leaf(span[1])}
  ELSE Grown(span, LegacyTrees[<<span[1], span[2] - 1>>], LegacyTrees[<<span[1] + 1, span[2]>>])
LegacyNodes == UNION {LegacyTrees[span] : span \in Spans}

\* The rows of one repository before 0035: one to a step, and from 0034 on one
\* without a step.  A row's id follows the order in which they were made.
OldSlots == Sections \cup {NoSection}
LastRow == Cardinality(OldSlots)
OldRow == {r \in [number : {Number, NoNumber}, node : BOOLEAN, task : BOOLEAN, claim : BOOLEAN] :
             r.node => r.number = Number}
OldPrs(steps) ==
  LET order == SetToSeq(steps) IN
  {[prs |-> {[id |-> i, step |-> order[i], number |-> f[i].number, node |-> f[i].node] : i \in DOMAIN f},
    pending |-> {[pr |-> i, task |-> order[i]] : i \in {k \in DOMAIN f : f[k].task}},
    claims |-> {[of |-> i, pr |-> i, active |-> TRUE] : i \in {k \in DOMAIN f : f[k].claim}}] :
     f \in [1..Len(order) -> OldRow]}
NoRows == [prs |-> {}, pending |-> {}, claims |-> {}]

\* A seeded rule's text is that of the migration that wrote it last, edited or
\* deleted by the user, or not seeded yet.
NoEdicts == [orientation |-> "unseeded", report |-> "unseeded"]

UpgradeInit ==
  /\ daemon = "down" /\ failed = "none"
  /\ forked \in BOOLEAN
  /\ \/ /\ applied = Before("0019")
        /\ \E n \in 0..MaxSaved : layout = Members(n)
        /\ rows = NoRows /\ edicts = NoEdicts
     \/ /\ applied = Before("0031")
        /\ \E n \in 1..MaxSaved : layout \in LegacyTrees[<<1, n>>]
        /\ rows = NoRows /\ edicts = [NoEdicts EXCEPT !.orientation = "0026"]
     \/ /\ applied = Before("0034")
        /\ layout = Leaf(1) /\ rows \in OldPrs(Sections)
        /\ edicts = [NoEdicts EXCEPT !.orientation = "0026"]
     \/ /\ applied = Before("0035")
        /\ layout = Leaf(1) /\ rows \in OldPrs(OldSlots)
        /\ edicts = [NoEdicts EXCEPT !.orientation = "0026"]
     \/ /\ applied \in {Before("0026"), Before("0036"),
                        Before("0042")}
        /\ layout = Leaf(1) /\ rows = NoRows
        /\ edicts \in [orientation : {"edited", "deleted",
                                      CASE applied = Before("0026") -> "0022"
                                        [] applied = Before("0036") -> "0026"
                                        [] OTHER -> "0037"},
                       report : IF applied = Before("0042")
                                THEN {"0041", "edited", "deleted"} ELSE {"unseeded"}]
  /\ forked => applied <= Before("0033")
  /\ before = [layout |-> layout, rows |-> rows, edicts |-> edicts]

-----------------------------------------------------------------------------
(* 0019 and 0031: layouts become trees, and binary trees flat ones. *)

Whole == 64
Split(dir, children, sizes) ==
  [type |-> "split", dir |-> dir, children |-> children, sizes |-> sizes]

\* chainFromSessionIds, as it is today: it makes the flat trees of 0031.
ChainFromSessionIds(members) ==
  CASE Len(members) = 0 -> Leaf(0)
    [] Len(members) = 1 -> Leaf(members[1])
    [] OTHER -> Split("row", [i \in DOMAIN members |-> Leaf(members[i])],
                      [i \in DOMAIN members |-> Whole \div Len(members)])

\* convertLegacyPaneTree: a run of splits in one direction becomes one list of
\* children, each with its share of the split.  SharesBug forgets that a child's
\* share is one of its parent's.
SharesBug(ratio, weight) == <<(Whole * ratio) \div 4, (Whole * (4 - ratio)) \div 4>>
Shares(ratio, weight) == <<(weight * ratio) \div 4, (weight * (4 - ratio)) \div 4>>
SplitOf(dir, pieces) ==
  Split(dir, [i \in DOMAIN pieces |-> pieces[i].child], [i \in DOMAIN pieces |-> pieces[i].size])
Pieces[node \in LegacyNodes, dir \in {"row", "col"}, weight \in 0..Whole] ==
  IF node.type = "legacy" /\ node.dir = dir
  THEN LET shares == Shares(node.ratio, weight) IN
       Pieces[node.a, dir, shares[1]] \o Pieces[node.b, dir, shares[2]]
  ELSE <<[child |-> IF node.type = "leaf" THEN node
                    ELSE SplitOf(node.dir, Pieces[node, node.dir, Whole]),
          size |-> weight]>>
Converted(node) ==
  IF node.type = "leaf" THEN node ELSE SplitOf(node.dir, Pieces[node, node.dir, Whole])

-----------------------------------------------------------------------------
(* 0035: rows of one PR are merged. *)

\* The row that stays: the first with a node id, or else the last.
Keeper(group) ==
  LET synced == {r \in group : r.node} IN
  IF synced # {} THEN CHOOSE r \in synced : \A o \in synced : r.id <= o.id
  ELSE CHOOSE r \in group : \A o \in group : o.id <= r.id

\* One duplicate goes: its node id is kept, the tasks that the keeper has not
\* move, its claim is released and its claims move.  MergeIntoBug deletes the
\* duplicate's tasks before it moves them.
HasTasks(data, id) == {t.task : t \in {p \in data.pending : p.pr = id}}
MergeIntoBug(data, keep, dup) ==
  [prs |-> {IF r.id = keep THEN [r EXCEPT !.node = r.node \/ (\E d \in data.prs : d.id = dup /\ d.node)]
            ELSE r : r \in {q \in data.prs : q.id # dup}},
   pending |-> {t \in data.pending : t.pr # dup},
   claims |-> {IF c.pr = dup THEN [c EXCEPT !.pr = keep, !.active = FALSE] ELSE c : c \in data.claims}]
MergeInto(data, keep, dup) ==
  LET moved == {t \in data.pending : t.pr = dup /\ t.task \notin HasTasks(data, keep)} IN
  [prs |-> {IF r.id = keep THEN [r EXCEPT !.node = r.node \/ (\E d \in data.prs : d.id = dup /\ d.node)]
            ELSE r : r \in {q \in data.prs : q.id # dup}},
   pending |-> {t \in data.pending : t.pr # dup} \cup {[t EXCEPT !.pr = keep] : t \in moved},
   claims |-> {IF c.pr = dup THEN [c EXCEPT !.pr = keep, !.active = FALSE] ELSE c : c \in data.claims}]

\* The loop over the rows of the PR, by their ids.
Merged(data) ==
  LET group == {r \in data.prs : r.number = Number}
      keep == Keeper(group).id
      after[i \in 0..LastRow] ==
        IF i = 0 THEN data
        ELSE IF (\E r \in group : r.id = i) /\ i # keep THEN MergeInto(after[i - 1], keep, i)
        ELSE after[i - 1] IN
  after[LastRow]

\* What the new unique indexes and the one of pr_claims demand.
Unique(data) ==
  /\ \A r, o \in data.prs : r.number = o.number /\ r.number # NoNumber => r = o
  /\ \A r, o \in data.prs : r.number = NoNumber /\ o.number = NoNumber /\ r.step = o.step => r = o
  /\ \A c, o \in data.claims : c.active /\ o.active /\ c.pr = o.pr => c = o

-----------------------------------------------------------------------------
(* Opening the database. *)

\* A seed that is updated only if it still has the text of release old.  0041
\* seeds today's text, that of 0042.
Reseed(seed, old, new) == edicts' = IF edicts[seed] = old THEN [edicts EXCEPT ![seed] = new] ELSE edicts

\* The statements of migration m, if they do not throw.
Statements(m) ==
  CASE m = "0019" ->
         layout' = ChainFromSessionIds(layout.sessions) /\ UNCHANGED <<rows, forked, edicts>>
    [] m = "0022" ->
         edicts' = [edicts EXCEPT !.orientation = "0022"] /\ UNCHANGED <<layout, rows, forked>>
    [] m = "0026" ->
         Reseed("orientation", "0022", "0026") /\ UNCHANGED <<layout, rows, forked>>
    [] m = "0031" ->
         layout' = Converted(layout) /\ UNCHANGED <<rows, forked, edicts>>
    [] m = "0035" ->
         rows' = Merged(rows) /\ UNCHANGED <<layout, forked, edicts>>
    [] m = "0036" ->
         Reseed("orientation", "0026", "0036") /\ UNCHANGED <<layout, rows, forked>>
    [] m = "0037" ->
         Reseed("orientation", "0036", "0037") /\ UNCHANGED <<layout, rows, forked>>
    [] m = "0041" ->
         edicts' = [edicts EXCEPT !.report = "0042"] /\ UNCHANGED <<layout, rows, forked>>
    [] m = "0042" ->
         Reseed("report", "0041", "0042") /\ UNCHANGED <<layout, rows, forked>>
    [] OTHER -> UNCHANGED <<layout, rows, forked, edicts>>

\* A migration throws: 0031 on a split that has no children a and b, 0033 on
\* names that are there twice, 0035 on rows that no unique index can have.
Throws(m) ==
  \/ m = "0031" /\ layout.type = "split"
  \/ m = "0033" /\ forked
  \/ m = "0035" /\ ~Unique(Merged(rows))

OpenDb ==
  /\ daemon = "down" /\ daemon' = "opening"
  /\ UNCHANGED <<applied, layout, rows, forked, edicts, failed, before>>

Migrate ==
  /\ daemon = "opening" /\ applied < LastMigration /\ ~Throws(Migrations[applied + 1])
  /\ Statements(Migrations[applied + 1])
  /\ applied' = applied + 1
  /\ UNCHANGED <<daemon, failed, before>>

\* The transaction is rolled back and the daemon exits.
MigrationThrows ==
  /\ daemon = "opening" /\ applied < LastMigration /\ Throws(Migrations[applied + 1])
  /\ failed' = Migrations[applied + 1] /\ daemon' = "down"
  /\ UNCHANGED <<applied, layout, rows, forked, edicts, before>>

Opened ==
  /\ daemon = "opening" /\ applied = LastMigration /\ daemon' = "up"
  /\ UNCHANGED <<applied, layout, rows, forked, edicts, failed, before>>

\* The daemon is killed: SQLite rolls an open transaction back.
Killed ==
  /\ daemon # "down" /\ daemon' = "down"
  /\ UNCHANGED <<applied, layout, rows, forked, edicts, failed, before>>

UpgradeNext == OpenDb \/ Migrate \/ MigrationThrows \/ Opened \/ Killed
UpgradeSpec == UpgradeInit /\ [][UpgradeNext]_upgradeVars

-----------------------------------------------------------------------------
(* Properties. *)

UpgradeTypeOK ==
  /\ daemon \in {"down", "opening", "up"} /\ applied \in 0..LastMigration
  /\ failed \in {"none"} \cup ToSet(Migrations) /\ forked \in BOOLEAN
  /\ layout.type \in IF applied < 1 THEN {"members"}
                     ELSE IF applied < 4 THEN {"leaf", "legacy", "split"} ELSE {"leaf", "split"}

\* The panes of a tree, in order, with their share of the window.
Layouts ==
  LegacyNodes \cup {Members(n) : n \in 0..MaxSaved} \cup {Converted(node) : node \in LegacyNodes}
    \cup {ChainFromSessionIds(Members(n).sessions) : n \in 0..MaxSaved}
Areas[node \in Layouts, area \in Nat] ==
  CASE node.type = "members" -> IF node.sessions = <<>> THEN <<[session |-> 0, area |-> area]>>
                                ELSE [i \in DOMAIN node.sessions |->
                                        [session |-> node.sessions[i], area |-> area \div Len(node.sessions)]]
    [] node.type = "leaf" -> <<[session |-> node.session, area |-> area]>>
    [] node.type = "legacy" -> Areas[node.a, (area * node.ratio) \div 4]
                                 \o Areas[node.b, (area * (4 - node.ratio)) \div 4]
    [] node.type = "split" -> FlattenSeq([i \in DOMAIN node.children |->
                                 Areas[node.children[i], (area * node.sizes[i]) \div Whole]])

Alternates[node \in Layouts] ==
  node.type = "split" =>
    \A i \in DOMAIN node.children :
      (node.children[i].type = "split" => node.children[i].dir # node.dir) /\ Alternates[node.children[i]]

\* A tree keeps its panes, their order and their area, and alternates.
LayoutKept ==
  /\ Areas[layout, Whole ^ 3] = Areas[before.layout, Whole ^ 3]
  /\ Alternates[layout]

\* Every PR of before has a row, every task and claim is on the row of its PR,
\* and what was known of a PR is known of that row.
RowsKept ==
  LET now(r) == IF r.number = NoNumber THEN {o \in rows.prs : o.id = r.id}
                ELSE {o \in rows.prs : o.number = r.number} IN
  /\ Unique(rows)
  /\ \A r \in before.rows.prs : \E o \in now(r) :
       /\ r.node => o.node
       /\ \A t \in before.rows.pending : t.pr = r.id => [t EXCEPT !.pr = o.id] \in rows.pending
       /\ \A c \in before.rows.claims : c.pr = r.id =>
            \E d \in rows.claims : d.of = c.of /\ d.pr = o.id
  /\ \A t \in rows.pending : \E r \in rows.prs : r.id = t.pr
  /\ \A c \in rows.claims : \E r \in rows.prs : r.id = c.pr

\* A rule the user edited or deleted is left alone, another has today's text.
EdictsKept ==
  \A seed \in DOMAIN edicts :
    IF before.edicts[seed] \in {"edited", "deleted"} THEN edicts[seed] = before.edicts[seed]
    ELSE edicts[seed] = IF seed = "orientation" THEN "0037" ELSE "0042"

\* migrations/index.ts:580-645, 405-409: however often the daemon is killed on
\* the way, a database that opens has all it had before: each PR's tasks, claims
\* and node on its one row, and the user's own edicts.
UpgradeKeepsData ==
  /\ failed # "0035"
  /\ daemon = "up" => RowsKept /\ EdictsKept

\* migrations/index.ts:788-797: ... and its layouts with every pane in its place
\* and size.
UpgradeKeepsLayouts == daemon = "up" => LayoutKept

\* layout-tree.ts:62-65: "so existing saved layouts survive the move to
\* tree-shaped grids instead of coming back empty".
LayoutsSurvive == failed # "0031"
=============================================================================
