---------------------------- MODULE UpgradeProofs ----------------------------
(***************************************************************************)
(* What is proved of Upgrade, for any steps and any saved layout: a        *)
(* database that opens has the rows and the edicts of before, however      *)
(* often the daemon died on the way.  The loop of 0035 is brought into     *)
(* closed form (Folded); the invariant then says what the data is after    *)
(* each number of migrations.  That layouts keep their areas is left to    *)
(* the runs.                                                               *)
(***************************************************************************)
EXTENDS Upgrade, FiniteSetTheorems, WellFoundedInduction, TLAPS

\* A set of naturals that is not empty has a least element.
LEMMA LeastNatural ==
  ASSUME NEW S \in SUBSET Nat, S # {}
  PROVE  \E m \in S : \A n \in S : m <= n
<1>1. PICK m \in S : \A n \in S : ~(<<n, m>> \in OpToRel(<, Nat))
  BY NatLessThanWellFounded, WFMin
<1>2. \A n \in S : ~(n < m)
  BY <1>1 DEF OpToRel
<1> QED
  BY <1>2

\* ... and, if it is bounded, a greatest one.
LEMMA GreatestNatural ==
  ASSUME NEW b \in Nat, NEW S \in SUBSET (0..b), S # {}
  PROVE  \E m \in S : \A n \in S : n <= m
<1> DEFINE T == {b - n : n \in S}
<1>1. T \in SUBSET Nat /\ T # {}
  <2>1. \A n \in S : b - n \in Nat
    OBVIOUS
  <2> QED
    BY <2>1
<1>2. PICK x \in T : \A y \in T : x <= y
  BY <1>1, LeastNatural
<1>3. PICK m \in S : x = b - m
  BY <1>2
<1>4. ASSUME NEW n \in S PROVE n <= m
  <2>1. b - n \in T
    OBVIOUS
  <2>2. b - m <= b - n
    BY <1>2, <1>3, <2>1
  <2> QED
    BY <2>2
<1> QED
  BY <1>4

\* A set of naturals with 0 and the successor of each of its members has them all.
LEMMA Induction ==
  ASSUME NEW S \in SUBSET Nat, 0 \in S, \A n \in S : n + 1 \in S
  PROVE  S = Nat
<1> SUFFICES ASSUME Nat \ S # {} PROVE FALSE
  OBVIOUS
<1>1. PICK m \in Nat \ S : \A n \in Nat \ S : m <= n
  BY LeastNatural
<1>2. m - 1 \in Nat /\ m - 1 \notin Nat \ S
  BY <1>1
<1>3. (m - 1) + 1 \in S
  BY <1>2
<1> QED
  BY <1>1, <1>3

-----------------------------------------------------------------------------
\* The types of the rows of a repository's PRs, pending tasks and claims.
PrRecords == [id : Nat, step : OldSlots, number : {Number, NoNumber}, node : BOOLEAN]
PendingRecords == [pr : Nat, task : OldSlots]
ClaimRecords == [of : Nat, pr : Nat, active : BOOLEAN]
DataRecords ==
  [prs : SUBSET PrRecords, pending : SUBSET PendingRecords, claims : SUBSET ClaimRecords]

\* What migration 0035 finds: ids are keys, at most one placeholder to a step, one active
\* claim to a row, and no pending task or claim without its row.
Sound(data) ==
  /\ data \in DataRecords
  /\ \A r \in data.prs : r.id \in 1..LastRow
  /\ \A r, o \in data.prs : r.id = o.id => r = o
  /\ \A r, o \in data.prs : r.number = NoNumber /\ o.number = NoNumber /\ r.step = o.step => r = o
  /\ \A c, o \in data.claims : c.active /\ o.active /\ c.pr = o.pr => c = o
  /\ \A t \in data.pending : \E r \in data.prs : r.id = t.pr
  /\ \A c \in data.claims : \E r \in data.prs : r.id = c.pr

\* A row, a pending task and a claim after the rows gone were merged into row k ...
KeptRow(data, k, gone, r) ==
  IF r.id = k THEN [r EXCEPT !.node = r.node \/ \E q \in data.prs : q.id \in gone /\ q.node] ELSE r
MovedTask(k, gone, t) == IF t.pr \in gone THEN [t EXCEPT !.pr = k] ELSE t
MovedClaim(k, gone, c) ==
  IF c.pr \in gone THEN [c EXCEPT !.pr = k, !.active = FALSE] ELSE c

\* ... and all of the data then: the loop of 0035 in closed form.
Folded(data, k, gone) ==
  [prs |-> {KeptRow(data, k, gone, r) : r \in {q \in data.prs : q.id \notin gone}},
   pending |-> {MovedTask(k, gone, t) : t \in data.pending},
   claims |-> {MovedClaim(k, gone, c) : c \in data.claims}]

\* Merging no row changes nothing.
LEMMA FoldedNothing ==
  ASSUME NEW data \in DataRecords, NEW k
  PROVE  Folded(data, k, {}) = data
<1>1. \A r \in data.prs : KeptRow(data, k, {}, r) = r
  <2> SUFFICES ASSUME NEW r \in data.prs PROVE KeptRow(data, k, {}, r) = r
    OBVIOUS
  <2>1. r \in PrRecords
    BY DEF DataRecords
  <2>2. r.node \in BOOLEAN
    BY <2>1 DEF PrRecords
  <2>3. (r.node \/ \E q \in data.prs : q.id \in {} /\ q.node) = r.node
    BY <2>2
  <2>4. ASSUME NEW x, x = r.node PROVE [r EXCEPT !.node = x] = r
    BY <2>1, <2>4 DEF PrRecords
  <2> QED
    BY <2>1, <2>3, <2>4 DEF KeptRow
<1>2. \A t \in data.pending : MovedTask(k, {}, t) = t
  BY DEF MovedTask
<1>3. \A c \in data.claims : MovedClaim(k, {}, c) = c
  BY DEF MovedClaim
<1>4. {KeptRow(data, k, {}, r) : r \in {q \in data.prs : q.id \notin {}}} = data.prs
  BY <1>1
<1>5. {MovedTask(k, {}, t) : t \in data.pending} = data.pending
  BY <1>2
<1>6. {MovedClaim(k, {}, c) : c \in data.claims} = data.claims
  BY <1>3
<1> QED
  BY <1>4, <1>5, <1>6 DEF Folded, DataRecords

\* One round of the loop of 0035 adds one row to those that are gone.
LEMMA MergeStep ==
  ASSUME NEW data \in DataRecords, NEW k \in Nat, NEW gone \in SUBSET Nat, NEW d \in Nat,
         k \notin gone, d \notin gone, d # k
  PROVE  MergeInto(Folded(data, k, gone), k, d) = Folded(data, k, gone \cup {d})
<1> DEFINE F == Folded(data, k, gone)
           G == gone \cup {d}
           M == MergeInto(F, k, d)
<1>a. /\ \A r \in data.prs : r \in PrRecords
      /\ \A t \in data.pending : t \in PendingRecords
      /\ \A c \in data.claims : c \in ClaimRecords
  BY DEF DataRecords
<1>b. \A r \in data.prs : /\ r.id \in Nat /\ r.node \in BOOLEAN
                          /\ KeptRow(data, k, gone, r).id = r.id
  BY <1>a DEF PrRecords, KeptRow
<1>1. (\E q \in F.prs : q.id = d /\ q.node) <=> (\E q \in data.prs : q.id = d /\ q.node)
  <2>1. ASSUME NEW q \in data.prs, q.id = d PROVE KeptRow(data, k, gone, q) = q
    BY <2>1 DEF KeptRow
  <2> QED
    BY <1>b, <2>1 DEF Folded
<1>2. M.prs = Folded(data, k, G).prs
  <2>1. ASSUME NEW r \in data.prs, r.id \notin G
        PROVE  KeptRow(data, k, G, r) =
                 (LET q == KeptRow(data, k, gone, r) IN
                  IF q.id = k THEN [q EXCEPT !.node = q.node \/ (\E e \in F.prs : e.id = d /\ e.node)] ELSE q)
    <3>1. CASE r.id = k
      <4> DEFINE old == \E e \in data.prs : e.id \in gone /\ e.node
                 new == \E e \in data.prs : e.id \in G /\ e.node
                 one == \E e \in data.prs : e.id = d /\ e.node
      <4>1. new = (old \/ one)
        OBVIOUS
      <4>2. KeptRow(data, k, gone, r) = [r EXCEPT !.node = r.node \/ old]
        BY <3>1 DEF KeptRow
      <4>3. KeptRow(data, k, G, r) = [r EXCEPT !.node = r.node \/ new]
        BY <3>1 DEF KeptRow
      <4>4. (\E e \in F.prs : e.id = d /\ e.node) = one
        BY <1>1
      <4> HIDE DEF old, new, one, F, G
      <4>5. r \in PrRecords
        BY <1>a
      <4>6. KeptRow(data, k, gone, r).id = k /\ KeptRow(data, k, gone, r).node = (r.node \/ old)
        BY <4>2, <4>5, <3>1 DEF PrRecords
      <4>7. [[r EXCEPT !.node = r.node \/ old] EXCEPT !.node = (r.node \/ old) \/ one]
              = [r EXCEPT !.node = r.node \/ new]
        <5>1. ((r.node \/ old) \/ one) = (r.node \/ new)
          BY <4>1
        <5>2. \A x, y : [[r EXCEPT !.node = x] EXCEPT !.node = y] = [r EXCEPT !.node = y]
          BY <4>5 DEF PrRecords
        <5> QED
          BY <5>1, <5>2
      <4> QED
        BY <4>2, <4>3, <4>4, <4>6, <4>7
    <3>2. CASE r.id # k
      BY <3>2, <1>b DEF KeptRow
    <3> QED
      BY <3>1, <3>2
  <2>2. F.prs = {KeptRow(data, k, gone, r) : r \in {q \in data.prs : q.id \notin gone}}
    BY DEF Folded
  <2>3. M.prs = {IF q.id = k THEN [q EXCEPT !.node = q.node \/ (\E e \in F.prs : e.id = d /\ e.node)]
                 ELSE q : q \in {q \in F.prs : q.id # d}}
    BY DEF MergeInto
  <2>4. {q \in F.prs : q.id # d} = {KeptRow(data, k, gone, r) : r \in {q \in data.prs : q.id \notin G}}
    BY <2>2, <1>b
  <2>5. Folded(data, k, G).prs = {KeptRow(data, k, G, r) : r \in {q \in data.prs : q.id \notin G}}
    BY DEF Folded
  <2> HIDE DEF F, G, M
  <2> QED
    BY <2>1, <2>3, <2>4, <2>5
<1>3. M.pending = Folded(data, k, G).pending
  <2>0. F.pending = {MovedTask(k, gone, t) : t \in data.pending}
    BY DEF Folded
  <2>1. Folded(data, k, G).pending = {MovedTask(k, G, t) : t \in data.pending}
    BY DEF Folded
  <2>2. M.pending = {t \in F.pending : t.pr # d}
                      \cup {[t EXCEPT !.pr = k] : t \in {t \in F.pending : t.pr = d /\ t.task \notin HasTasks(F, k)}}
    BY DEF MergeInto
  <2>3. \A t \in data.pending : /\ t.pr \in Nat
                                /\ MovedTask(k, gone, t).task = t.task
                                /\ MovedTask(k, gone, t) \in PendingRecords
                                /\ MovedTask(k, gone, t).pr = (IF t.pr \in gone THEN k ELSE t.pr)
    BY <1>a DEF MovedTask, PendingRecords
  <2>4. \A t, u \in PendingRecords : t.pr = u.pr /\ t.task = u.task => t = u
    BY DEF PendingRecords
  <2>5. \A t \in PendingRecords : [t EXCEPT !.pr = k] \in PendingRecords /\ [t EXCEPT !.pr = k].pr = k
                                  /\ [t EXCEPT !.pr = k].task = t.task
    BY DEF PendingRecords
  <2>6. ASSUME NEW t \in data.pending PROVE MovedTask(k, G, t) \in M.pending
    <3> DEFINE u == MovedTask(k, gone, t)
    <3>1. u \in F.pending /\ u \in PendingRecords
      BY <2>0, <2>3
    <3>2. CASE t.pr # d
      <4>1. MovedTask(k, G, t) = u
        BY <3>2 DEF MovedTask
      <4>2. u.pr # d
        BY <3>2, <2>3
      <4> QED
        BY <4>1, <4>2, <3>1, <2>2
    <3>3. CASE t.pr = d
      <4>1. u = t /\ MovedTask(k, G, t) = [t EXCEPT !.pr = k]
        BY <3>3 DEF MovedTask
      <4>2. CASE t.task \notin HasTasks(F, k)
        BY <4>1, <4>2, <3>1, <3>3, <2>2
      <4>3. CASE t.task \in HasTasks(F, k)
        <5>1. PICK v \in F.pending : v.pr = k /\ v.task = t.task
          BY <4>3 DEF HasTasks
        <5>2. v \in PendingRecords
          BY <5>1, <2>0, <2>3
        <5>3. v = [t EXCEPT !.pr = k]
          <6>1. t \in PendingRecords
            BY <3>1, <4>1
          <6>2. [t EXCEPT !.pr = k] \in PendingRecords /\ [t EXCEPT !.pr = k].pr = k
                  /\ [t EXCEPT !.pr = k].task = t.task
            BY <6>1, <2>5
          <6> QED
            BY <6>2, <5>1, <5>2, <2>4
        <5> QED
          BY <5>1, <5>3, <4>1, <2>2
      <4> QED
        BY <4>2, <4>3
    <3> QED
      BY <3>2, <3>3
  <2>7. ASSUME NEW v \in M.pending PROVE \E t \in data.pending : v = MovedTask(k, G, t)
    <3>1. CASE v \in F.pending /\ v.pr # d
      <4>1. PICK t \in data.pending : v = MovedTask(k, gone, t)
        BY <3>1, <2>0
      <4>2. t.pr # d
        BY <4>1, <3>1, <2>3
      <4>3. MovedTask(k, G, t) = v
        BY <4>1, <4>2 DEF MovedTask
      <4> QED
        BY <4>3
    <3>2. CASE \E u \in F.pending : u.pr = d /\ v = [u EXCEPT !.pr = k]
      <4>1. PICK u \in F.pending : u.pr = d /\ v = [u EXCEPT !.pr = k]
        BY <3>2
      <4>2. PICK t \in data.pending : u = MovedTask(k, gone, t)
        BY <4>1, <2>0
      <4>3. t.pr = d /\ u = t
        BY <4>1, <4>2, <2>3 DEF MovedTask
      <4>4. MovedTask(k, G, t) = v
        BY <4>1, <4>3 DEF MovedTask
      <4> QED
        BY <4>4
    <3> QED
      BY <3>1, <3>2, <2>2
  <2> HIDE DEF F, G, M
  <2> QED
    BY <2>1, <2>6, <2>7
<1>4. M.claims = Folded(data, k, G).claims
  <2>0. F.claims = {MovedClaim(k, gone, c) : c \in data.claims}
    BY DEF Folded
  <2>1. Folded(data, k, G).claims = {MovedClaim(k, G, c) : c \in data.claims}
    BY DEF Folded
  <2>2. M.claims = {IF c.pr = d THEN [c EXCEPT !.pr = k, !.active = FALSE] ELSE c : c \in F.claims}
    BY DEF MergeInto
  <2>3. ASSUME NEW c \in data.claims
        PROVE  MovedClaim(k, G, c) =
                 IF MovedClaim(k, gone, c).pr = d
                 THEN [MovedClaim(k, gone, c) EXCEPT !.pr = k, !.active = FALSE]
                 ELSE MovedClaim(k, gone, c)
    <3>1. c \in ClaimRecords
      BY <1>a
    <3>2. CASE c.pr \in gone
      BY <3>1, <3>2 DEF MovedClaim, ClaimRecords
    <3>3. CASE c.pr \notin gone
      BY <3>3 DEF MovedClaim
    <3> QED
      BY <3>2, <3>3
  <2>4. M.claims = {IF MovedClaim(k, gone, c).pr = d
                    THEN [MovedClaim(k, gone, c) EXCEPT !.pr = k, !.active = FALSE]
                    ELSE MovedClaim(k, gone, c) : c \in data.claims}
    <3> HIDE DEF F, G, M
    <3> QED
      BY <2>0, <2>2
  <2> HIDE DEF F, G, M
  <2> QED
    BY <2>1, <2>3, <2>4
<1>5. M = [prs |-> M.prs, pending |-> M.pending, claims |-> M.claims]
  BY DEF MergeInto
<1>6. Folded(data, k, G) = [prs |-> Folded(data, k, G).prs, pending |-> Folded(data, k, G).pending,
                            claims |-> Folded(data, k, G).claims]
  BY DEF Folded
<1> HIDE DEF M, F, G
<1>7. M = Folded(data, k, G)
  BY <1>2, <1>3, <1>4, <1>5, <1>6
<1> QED
  BY <1>7 DEF M, F, G

-----------------------------------------------------------------------------
\* The rows of the PR, those of them that go, and those the loop has reached.
Group(data) == {r \in data.prs : r.number = Number}
Dups(data) == {r.id : r \in Group(data)} \ {Keeper(Group(data)).id}
DupsUpTo(data, i) == {d \in Dups(data) : d <= i}

\* There are finitely many rows.
LEMMA LastRowIsNat == LastRow \in Nat
<1>1. IsFiniteSet(OldSlots)
  BY UpgradeConstants, FS_AddElement DEF OldSlots
<1> QED
  BY <1>1, FS_CardinalityType DEF LastRow

\* If the PR has rows, one of them stays.
LEMMA KeeperIsIn ==
  ASSUME NEW data, Sound(data), Group(data) # {}
  PROVE  Keeper(Group(data)) \in Group(data)
<1> DEFINE G == Group(data)
           synced == {r \in G : r.node}
           ids(R) == {r.id : r \in R}
<1>1. \A r \in G : r.id \in 0..LastRow
  BY LastRowIsNat DEF Sound, Group
<1>2. CASE synced # {}
  <2>1. ids(synced) \in SUBSET Nat /\ ids(synced) # {}
    BY <1>1, <1>2, LastRowIsNat
  <2>2. PICK m \in ids(synced) : \A n \in ids(synced) : m <= n
    BY <2>1, LeastNatural
  <2>3. \E r \in synced : \A o \in synced : r.id <= o.id
    BY <2>2
  <2>4. Keeper(G) = CHOOSE r \in synced : \A o \in synced : r.id <= o.id
    BY <1>2 DEF Keeper
  <2> QED
    BY <2>3, <2>4
<1>3. CASE synced = {}
  <2>1. ids(G) \in SUBSET (0..LastRow) /\ ids(G) # {}
    BY <1>1
  <2>2. PICK m \in ids(G) : \A n \in ids(G) : n <= m
    BY <2>1, LastRowIsNat, GreatestNatural
  <2>3. \E r \in G : \A o \in G : o.id <= r.id
    BY <2>2
  <2>4. Keeper(G) = CHOOSE r \in G : \A o \in G : o.id <= r.id
    BY <1>3 DEF Keeper
  <2> QED
    BY <2>3, <2>4
<1> QED
  BY <1>2, <1>3

\* So the loop does what the closed form says.
LEMMA MergedIsFolded ==
  ASSUME NEW data, Sound(data)
  PROVE  Merged(data) = Folded(data, Keeper(Group(data)).id, Dups(data))
<1> DEFINE group == {r \in data.prs : r.number = Number}
           keep == Keeper(group).id
           after[i \in 0..LastRow] ==
             IF i = 0 THEN data
             ELSE IF (\E r \in group : r.id = i) /\ i # keep THEN MergeInto(after[i - 1], keep, i)
             ELSE after[i - 1]
           f == [i \in 0..LastRow |-> Folded(data, keep, DupsUpTo(data, i))]
<1>0. LastRow \in Nat /\ data \in DataRecords /\ \A r \in data.prs : r.id \in 1..LastRow
  BY LastRowIsNat DEF Sound
<1>1. Merged(data) = after[LastRow]
  BY DEF Merged
<1>2. group = Group(data)
  BY DEF Group
<1>3. /\ Dups(data) \subseteq 1..LastRow
      /\ \A i : i \in Dups(data) <=> (\E r \in group : r.id = i) /\ i # keep
  BY <1>0, <1>2 DEF Dups
<1>4. group # {} => keep \in Nat
  BY <1>0, <1>2, KeeperIsIn DEF Group
<1> HIDE DEF group, keep
<1>5. ASSUME NEW i \in 0..LastRow
      PROVE  f[i] = IF i = 0 THEN data
                    ELSE IF (\E r \in group : r.id = i) /\ i # keep THEN MergeInto(f[i - 1], keep, i)
                    ELSE f[i - 1]
  <2>1. CASE i = 0
    <3>1. DupsUpTo(data, 0) = {}
      BY <1>0, <1>3 DEF DupsUpTo
    <3> QED
      BY <2>1, <3>1, <1>0, FoldedNothing
  <2>2. CASE i # 0 /\ i \in Dups(data)
    <3>1. DupsUpTo(data, i) = DupsUpTo(data, i - 1) \cup {i}
      BY <2>2, <1>0, <1>3 DEF DupsUpTo
    <3>2. /\ DupsUpTo(data, i - 1) \in SUBSET Nat /\ keep \notin DupsUpTo(data, i - 1)
          /\ i \notin DupsUpTo(data, i - 1) /\ i # keep /\ i \in Nat /\ keep \in Nat
          /\ i - 1 \in 0..LastRow
      BY <2>2, <1>0, <1>3, <1>4 DEF DupsUpTo
    <3>3. f[i] = MergeInto(f[i - 1], keep, i)
      BY <3>1, <3>2, <1>0, MergeStep
    <3> QED
      BY <2>2, <1>3, <3>3
  <2>3. CASE i # 0 /\ i \notin Dups(data)
    <3>1. DupsUpTo(data, i) = DupsUpTo(data, i - 1) /\ i - 1 \in 0..LastRow
      BY <2>3, <1>0, <1>3 DEF DupsUpTo
    <3> QED
      BY <2>3, <3>1, <1>3
  <2> QED
    BY <2>1, <2>2, <2>3
<1>6. f = [i \in 0..LastRow |->
             IF i = 0 THEN data
             ELSE IF (\E r \in group : r.id = i) /\ i # keep THEN MergeInto(f[i - 1], keep, i)
             ELSE f[i - 1]]
  BY <1>5
<1>7. after = [i \in 0..LastRow |->
             IF i = 0 THEN data
             ELSE IF (\E r \in group : r.id = i) /\ i # keep THEN MergeInto(after[i - 1], keep, i)
             ELSE after[i - 1]]
  <2> HIDE DEF f
  <2> QED
    BY <1>6, Zenon
<1> HIDE DEF f, after
<1>8. ASSUME NEW i \in 0..LastRow
      PROVE  after[i] = IF i = 0 THEN data
                        ELSE IF (\E r \in group : r.id = i) /\ i # keep THEN MergeInto(after[i - 1], keep, i)
                        ELSE after[i - 1]
  BY <1>7, Zenon
<1>9. \A i \in Nat : i <= LastRow => after[i] = f[i]
  <2> DEFINE S == {i \in Nat : i <= LastRow => after[i] = f[i]}
  <2>1. 0 \in S
    <3>1. 0 \in 0..LastRow
      BY <1>0
    <3> QED
      BY <3>1, <1>5, <1>8
  <2>2. ASSUME NEW n \in S PROVE n + 1 \in S
    <3> SUFFICES ASSUME n + 1 <= LastRow PROVE after[n + 1] = f[n + 1]
      OBVIOUS
    <3>1. n + 1 \in 0..LastRow /\ n + 1 # 0 /\ (n + 1) - 1 = n /\ after[n] = f[n]
      BY <1>0
    <3> QED
      BY <3>1, <1>5, <1>8
  <2>3. S = Nat
    <3> HIDE DEF S
    <3>1. S \in SUBSET Nat
      BY DEF S
    <3> QED
      BY <2>1, <2>2, <3>1, Induction
  <2> QED
    BY <2>3
<1>10. DupsUpTo(data, LastRow) = Dups(data)
  BY <1>0, <1>3 DEF DupsUpTo
<1> QED
  BY <1>0, <1>1, <1>2, <1>9, <1>10 DEF f, keep

\* What is left of the rows: the row that stays is of the PR, and knows the node of each
\* one that went.
LEMMA FoldedRows ==
  ASSUME NEW data, Sound(data), NEW k, k = Keeper(Group(data)).id, NEW gone, gone = Dups(data)
  PROVE  /\ \A r \in data.prs :
              /\ KeptRow(data, k, gone, r) \in PrRecords
              /\ KeptRow(data, k, gone, r).id = r.id /\ KeptRow(data, k, gone, r).step = r.step
              /\ KeptRow(data, k, gone, r).number = r.number
              /\ r.node => KeptRow(data, k, gone, r).node
         /\ \A r \in data.prs : r.id \in gone <=> r.number = Number /\ r.id # k
         /\ \A r \in data.prs : r.number = Number =>
              \E o \in data.prs : o.id = k /\ o.number = Number
                                 /\ (r.node => KeptRow(data, k, gone, o).node)
<1>0. /\ data \in DataRecords /\ \A r \in data.prs : r \in PrRecords
      /\ \A r, o \in data.prs : r.id = o.id => r = o
  BY DEF Sound, DataRecords
<1>1. ASSUME NEW r \in data.prs
      PROVE  /\ KeptRow(data, k, gone, r) \in PrRecords
             /\ KeptRow(data, k, gone, r).id = r.id /\ KeptRow(data, k, gone, r).step = r.step
             /\ KeptRow(data, k, gone, r).number = r.number
             /\ KeptRow(data, k, gone, r).node =
                  IF r.id = k THEN r.node \/ \E q \in data.prs : q.id \in gone /\ q.node ELSE r.node
  <2> DEFINE other == \E q \in data.prs : q.id \in gone /\ q.node
  <2>1. (r.node \/ other) \in BOOLEAN
    OBVIOUS
  <2>2. KeptRow(data, k, gone, r) = IF r.id = k THEN [r EXCEPT !.node = r.node \/ other] ELSE r
    BY DEF KeptRow
  <2> HIDE DEF other
  <2>3. \A x \in BOOLEAN : /\ [r EXCEPT !.node = x] \in PrRecords /\ [r EXCEPT !.node = x].id = r.id
                           /\ [r EXCEPT !.node = x].step = r.step
                           /\ [r EXCEPT !.node = x].number = r.number
                           /\ [r EXCEPT !.node = x].node = x
    BY <1>0 DEF PrRecords
  <2>4. KeptRow(data, k, gone, r).node = IF r.id = k THEN r.node \/ other ELSE r.node
    BY <2>1, <2>2, <2>3
  <2>5. /\ KeptRow(data, k, gone, r) \in PrRecords
        /\ KeptRow(data, k, gone, r).id = r.id /\ KeptRow(data, k, gone, r).step = r.step
        /\ KeptRow(data, k, gone, r).number = r.number
    BY <2>1, <2>2, <2>3, <1>0
  <2> QED
    BY <2>4, <2>5 DEF other
<1>2. ASSUME NEW r \in data.prs PROVE r.id \in gone <=> r.number = Number /\ r.id # k
  BY <1>0 DEF Dups, Group
<1>3. ASSUME NEW r \in data.prs, r.number = Number
      PROVE  \E o \in data.prs : o.id = k /\ o.number = Number
                                 /\ (r.node => KeptRow(data, k, gone, o).node)
  <2>1. Keeper(Group(data)) \in Group(data)
    BY <1>3, KeeperIsIn DEF Group
  <2>2. PICK o \in data.prs : o.id = k /\ o.number = Number
    BY <2>1 DEF Group
  <2>3. r.node => KeptRow(data, k, gone, o).node
    <3>1. CASE r.id = k
      <4>1. o = r
        BY <3>1, <1>0, <2>2
      <4>2. KeptRow(data, k, gone, r).node = (r.node \/ \E q \in data.prs : q.id \in gone /\ q.node)
        BY <3>1, <1>1
      <4> QED
        BY <4>1, <4>2
    <3>2. CASE r.id # k
      BY <3>2, <1>1, <1>2, <1>3, <2>2
    <3> QED
      BY <3>1, <3>2
  <2> QED
    BY <2>2, <2>3
<1> QED
  BY <1>1, <1>2, <1>3

\* 0035 never throws: the rows it leaves are such as its unique indexes demand.
LEMMA MergedIsUnique ==
  ASSUME NEW data, Sound(data)
  PROVE  Unique(Merged(data))
<1> DEFINE k == Keeper(Group(data)).id
           gone == Dups(data)
           F == Folded(data, k, gone)
<1>0. Merged(data) = F
  BY MergedIsFolded
<1>1. /\ \A r \in F.prs : \E q \in data.prs : q.id \notin gone /\ r = KeptRow(data, k, gone, q)
      /\ \A c \in F.claims : \E d \in data.claims : c = MovedClaim(k, gone, d)
  BY DEF Folded
<1>2. /\ \A r \in data.prs : r \in PrRecords
      /\ \A c \in data.claims : c \in ClaimRecords
      /\ \A r, o \in data.prs : r.id = o.id => r = o
      /\ \A r, o \in data.prs : r.number = NoNumber /\ o.number = NoNumber /\ r.step = o.step => r = o
      /\ \A c, o \in data.claims : c.active /\ o.active /\ c.pr = o.pr => c = o
  BY DEF Sound, DataRecords
<1>3. \A r \in data.prs : /\ KeptRow(data, k, gone, r).id = r.id
                          /\ KeptRow(data, k, gone, r).step = r.step
                          /\ KeptRow(data, k, gone, r).number = r.number
                          /\ r.id \in gone <=> r.number = Number /\ r.id # k
  BY FoldedRows
<1>4. \A c \in data.claims : MovedClaim(k, gone, c).active => MovedClaim(k, gone, c) = c
  BY <1>2 DEF MovedClaim, ClaimRecords
<1> HIDE DEF F, k, gone
<1>5. ASSUME NEW r \in F.prs, NEW o \in F.prs, r.number = o.number, r.number # NoNumber
      PROVE  r = o
  <2>1. PICK q \in data.prs : q.id \notin gone /\ r = KeptRow(data, k, gone, q)
    BY <1>1
  <2>2. PICK p \in data.prs : p.id \notin gone /\ o = KeptRow(data, k, gone, p)
    BY <1>1
  <2>3. q.number = Number /\ p.number = Number
    BY <1>2, <1>3, <1>5, <2>1, <2>2 DEF PrRecords
  <2>4. q.id = k /\ p.id = k
    BY <1>3, <2>1, <2>2, <2>3
  <2>5. q = p
    BY <1>2, <2>4
  <2> QED
    BY <2>1, <2>2, <2>5
<1>6. ASSUME NEW r \in F.prs, NEW o \in F.prs, r.number = NoNumber, o.number = NoNumber, r.step = o.step
      PROVE  r = o
  <2>1. PICK q \in data.prs : r = KeptRow(data, k, gone, q)
    BY <1>1
  <2>2. PICK p \in data.prs : o = KeptRow(data, k, gone, p)
    BY <1>1
  <2>3. q = p
    BY <1>2, <1>3, <1>6, <2>1, <2>2
  <2> QED
    BY <2>1, <2>2, <2>3
<1>7. ASSUME NEW c \in F.claims, NEW o \in F.claims, c.active, o.active, c.pr = o.pr
      PROVE  c = o
  <2>1. PICK d \in data.claims : c = MovedClaim(k, gone, d)
    BY <1>1
  <2>2. PICK e \in data.claims : o = MovedClaim(k, gone, e)
    BY <1>1
  <2>3. c = d /\ o = e
    BY <1>4, <1>7, <2>1, <2>2
  <2> QED
    BY <1>2, <1>7, <2>3
<1> QED
  BY <1>0, <1>5, <1>6, <1>7 DEF Unique

\* 0035 keeps every PR, with its tasks, its claims and its node.
LEMMA MergedKeepsRows ==
  ASSUME Sound(before.rows), rows = Merged(before.rows)
  PROVE  RowsKept
<1> DEFINE data == before.rows
           k == Keeper(Group(data)).id
           gone == Dups(data)
           F == Folded(data, k, gone)
           now(r) == IF r.number = NoNumber THEN {o \in rows.prs : o.id = r.id}
                     ELSE {o \in rows.prs : o.number = r.number}
<1>0. rows = F /\ Unique(rows)
  BY MergedIsFolded, MergedIsUnique
<1>1. /\ rows.prs = {KeptRow(data, k, gone, r) : r \in {q \in data.prs : q.id \notin gone}}
      /\ rows.pending = {MovedTask(k, gone, t) : t \in data.pending}
      /\ rows.claims = {MovedClaim(k, gone, c) : c \in data.claims}
  BY <1>0 DEF Folded
<1>2. /\ \A r \in data.prs : r \in PrRecords
      /\ \A t \in data.pending : t \in PendingRecords
      /\ \A c \in data.claims : c \in ClaimRecords
      /\ \A r, o \in data.prs : r.id = o.id => r = o
      /\ \A t \in data.pending : \E r \in data.prs : r.id = t.pr
      /\ \A c \in data.claims : \E r \in data.prs : r.id = c.pr
  BY DEF Sound, DataRecords
<1>3. /\ \A r \in data.prs : /\ KeptRow(data, k, gone, r).id = r.id
                             /\ KeptRow(data, k, gone, r).number = r.number
                             /\ r.node => KeptRow(data, k, gone, r).node
      /\ \A r \in data.prs : r.id \in gone <=> r.number = Number /\ r.id # k
      /\ \A r \in data.prs : r.number = Number =>
           \E o \in data.prs : o.id = k /\ o.number = Number
                              /\ (r.node => KeptRow(data, k, gone, o).node)
  BY FoldedRows
<1>4. /\ \A t \in data.pending : MovedTask(k, gone, t) = [t EXCEPT !.pr = IF t.pr \in gone THEN k ELSE t.pr]
      /\ \A t \in data.pending : MovedTask(k, gone, t).pr = IF t.pr \in gone THEN k ELSE t.pr
      /\ \A c \in data.claims : /\ MovedClaim(k, gone, c).of = c.of
                                /\ MovedClaim(k, gone, c).pr = IF c.pr \in gone THEN k ELSE c.pr
  BY <1>2 DEF MovedTask, MovedClaim, PendingRecords, ClaimRecords
<1> HIDE DEF F, k, gone, data
<1>5. ASSUME NEW r \in data.prs
      PROVE  \E o \in now(r) : o.id = (IF r.id \in gone THEN k ELSE r.id) /\ (r.node => o.node)
  <2>1. CASE r.number = Number
    <3>1. PICK o \in data.prs : o.id = k /\ o.number = Number /\ (r.node => KeptRow(data, k, gone, o).node)
      BY <1>3, <2>1
    <3>2. o.id \notin gone
      BY <1>3, <3>1
    <3>3. KeptRow(data, k, gone, o) \in now(r)
      BY <1>1, <1>3, <2>1, <3>1, <3>2, UpgradeConstants
    <3>4. k = IF r.id \in gone THEN k ELSE r.id
      BY <1>3, <2>1
    <3> QED
      BY <1>3, <3>1, <3>3, <3>4
  <2>2. CASE r.number = NoNumber
    <3>1. r.id \notin gone
      BY <1>3, <2>2, UpgradeConstants
    <3>2. KeptRow(data, k, gone, r) \in now(r)
      BY <1>1, <1>3, <2>2, <3>1
    <3> QED
      BY <1>3, <3>1, <3>2
  <2> QED
    BY <1>2, <2>1, <2>2 DEF PrRecords
<1>6. ASSUME NEW r \in data.prs
      PROVE  \E o \in now(r) :
               /\ r.node => o.node
               /\ \A t \in data.pending : t.pr = r.id => [t EXCEPT !.pr = o.id] \in rows.pending
               /\ \A c \in data.claims : c.pr = r.id => \E d \in rows.claims : d.of = c.of /\ d.pr = o.id
  <2>1. PICK o \in now(r) : o.id = (IF r.id \in gone THEN k ELSE r.id) /\ (r.node => o.node)
    BY <1>5
  <2>2. ASSUME NEW t \in data.pending, t.pr = r.id PROVE [t EXCEPT !.pr = o.id] \in rows.pending
    <3>1. [t EXCEPT !.pr = o.id] = MovedTask(k, gone, t)
      BY <1>4, <2>1, <2>2
    <3> QED
      BY <1>1, <3>1
  <2>3. ASSUME NEW c \in data.claims, c.pr = r.id PROVE \E d \in rows.claims : d.of = c.of /\ d.pr = o.id
    BY <1>1, <1>4, <2>1, <2>3
  <2> QED
    BY <2>1, <2>2, <2>3
<1>7. ASSUME NEW i, \E r \in data.prs : r.id = i
      PROVE  \E r \in rows.prs : r.id = (IF i \in gone THEN k ELSE i)
  <2>1. PICK r \in data.prs : r.id = i
    BY <1>7
  <2>2. PICK o \in now(r) : o.id = (IF r.id \in gone THEN k ELSE r.id)
    BY <1>5
  <2>3. o \in rows.prs
    BY <2>2
  <2> QED
    BY <2>1, <2>2, <2>3
<1>8. \A t \in rows.pending : \E r \in rows.prs : r.id = t.pr
  BY <1>1, <1>2, <1>4, <1>7
<1>9. \A c \in rows.claims : \E r \in rows.prs : r.id = c.pr
  BY <1>1, <1>2, <1>4, <1>7
<1> QED
  BY <1>0, <1>6, <1>8, <1>9 DEF RowsKept, data

-----------------------------------------------------------------------------
\* SetToSeq lists a finite set, each element once.
LEMMA OrderOfSlots ==
  ASSUME NEW steps, IsFiniteSet(steps)
  PROVE  /\ Cardinality(steps) \in Nat
         /\ SetToSeq(steps) \in [1..Cardinality(steps) -> steps]
         /\ \A i, j \in 1..Cardinality(steps) : SetToSeq(steps)[i] = SetToSeq(steps)[j] => i = j
<1>1. PICK n \in Nat : \E f : f \in Bijection(1..n, steps)
  BY FS_NatBijection DEF ExistsBijection
<1>2. n = Cardinality(steps)
  BY <1>1, FS_CountingElements DEF ExistsBijection
<1>3. \E f \in [1..Cardinality(steps) -> steps] : IsInjective(f)
  BY <1>1, <1>2 DEF Bijection, Injection, IsInjective
<1> QED
  BY <1>1, <1>2, <1>3 DEF SetToSeq, IsInjective

\* The rows of earlier releases are what 0035 expects.
LEMMA OldPrsAreSound ==
  ASSUME NEW steps \in SUBSET OldSlots, NEW data \in OldPrs(steps)
  PROVE  Sound(data)
<1> DEFINE order == SetToSeq(steps)
           n == Cardinality(steps)
<1>1. IsFiniteSet(OldSlots)
  BY UpgradeConstants, FS_AddElement DEF OldSlots
<1>2. IsFiniteSet(steps) /\ n <= LastRow /\ n \in Nat /\ LastRow \in Nat
  BY <1>1, FS_Subset, FS_CardinalityType DEF LastRow
<1>3. order \in [1..n -> steps] /\ \A i, j \in 1..n : order[i] = order[j] => i = j
  BY <1>2, OrderOfSlots
<1> HIDE DEF order, n
<1>4. order \in Seq(steps) /\ Len(order) = n
  BY <1>2, <1>3
<1>5. PICK f \in [1..n -> OldRow] : data =
        [prs |-> {[id |-> i, step |-> order[i], number |-> f[i].number, node |-> f[i].node] : i \in DOMAIN f},
         pending |-> {[pr |-> i, task |-> order[i]] : i \in {k \in DOMAIN f : f[k].task}},
         claims |-> {[of |-> i, pr |-> i, active |-> TRUE] : i \in {k \in DOMAIN f : f[k].claim}}]
  BY <1>4 DEF OldPrs, order
<1>6. DOMAIN f = 1..n /\ \A i \in 1..n : /\ i \in 1..LastRow /\ i \in Nat /\ order[i] \in OldSlots
                                        /\ f[i].number \in {Number, NoNumber} /\ f[i].node \in BOOLEAN
  <2>1. \A r \in OldRow : r.number \in {Number, NoNumber} /\ r.node \in BOOLEAN
    BY DEF OldRow
  <2> QED
    BY <1>2, <1>3, <2>1
<1>7. /\ \A r \in data.prs : \E i \in 1..n :
            r = [id |-> i, step |-> order[i], number |-> f[i].number, node |-> f[i].node]
      /\ \A t \in data.pending : \E i \in 1..n : t = [pr |-> i, task |-> order[i]]
      /\ \A c \in data.claims : \E i \in 1..n : c = [of |-> i, pr |-> i, active |-> TRUE]
      /\ \A i \in 1..n : \E r \in data.prs : r.id = i
  <2>1. data.prs = {[id |-> i, step |-> order[i], number |-> f[i].number, node |-> f[i].node] : i \in 1..n}
    BY <1>5, <1>6
  <2>2. data.pending = {[pr |-> i, task |-> order[i]] : i \in {k \in 1..n : f[k].task}}
    BY <1>5, <1>6
  <2>3. data.claims = {[of |-> i, pr |-> i, active |-> TRUE] : i \in {k \in 1..n : f[k].claim}}
    BY <1>5, <1>6
  <2>4. \A r \in data.prs : \E i \in 1..n :
          r = [id |-> i, step |-> order[i], number |-> f[i].number, node |-> f[i].node]
    BY <2>1
  <2>5. \A t \in data.pending : \E i \in 1..n : t = [pr |-> i, task |-> order[i]]
    BY <2>2
  <2>6. \A c \in data.claims : \E i \in 1..n : c = [of |-> i, pr |-> i, active |-> TRUE]
    BY <2>3
  <2>7. \A i \in 1..n : \E r \in data.prs : r.id = i
    <3>1. \A i \in 1..n :
            [id |-> i, step |-> order[i], number |-> f[i].number, node |-> f[i].node] \in data.prs
      BY <2>1
    <3> QED
      BY <3>1
  <2> QED
    BY <2>4, <2>5, <2>6, <2>7
<1>8. data \in DataRecords
  <2>1. data.prs \subseteq PrRecords
    BY <1>6, <1>7 DEF PrRecords
  <2>2. data.pending \subseteq PendingRecords
    BY <1>6, <1>7 DEF PendingRecords
  <2>3. data.claims \subseteq ClaimRecords
    <3>1. \A i \in Nat : [of |-> i, pr |-> i, active |-> TRUE] \in ClaimRecords
      BY DEF ClaimRecords
    <3> QED
      BY <1>6, <1>7, <3>1
  <2> QED
    BY <1>5, <2>1, <2>2, <2>3 DEF DataRecords
<1>9. \A r, o \in data.prs : r.id = o.id \/ r.step = o.step => r = o
  BY <1>3, <1>7
<1>10. \A r \in data.prs : r.id \in 1..LastRow
  BY <1>6, <1>7
<1>11. \A c, o \in data.claims : c.active /\ o.active /\ c.pr = o.pr => c = o
  <2>1. \A c \in data.claims : c = [of |-> c.pr, pr |-> c.pr, active |-> TRUE]
    BY <1>7
  <2> QED
    BY <2>1
<1>12. \A t \in data.pending : \E r \in data.prs : r.id = t.pr
  BY <1>7
<1>13. \A c \in data.claims : \E r \in data.prs : r.id = c.pr
  BY <1>7
<1> QED
  BY <1>8, <1>9, <1>10, <1>11, <1>12, <1>13 DEF Sound

-----------------------------------------------------------------------------
(* The upgrade. *)

\* The seeds of earlier releases,
OldEdicts ==
  [orientation : {"unseeded", "0022", "0026", "0037", "edited", "deleted"},
   report : {"unseeded", "0041", "edited", "deleted"}]

\* the values that are the user's,
OwnEdicts == {"edited", "deleted"}

\* and the text of each seed after m migrations, if it was left alone.
OrientationAt(m) ==
  IF m < 2 THEN "unseeded" ELSE IF m = 2 THEN "0022" ELSE IF m < 8 THEN "0026"
  ELSE IF m = 8 THEN "0036" ELSE "0037"
ReportsAt(m) == IF m < 10 THEN {"unseeded"} ELSE IF m = 10 THEN {"0041", "0042"} ELSE {"0042"}

\* Until 0035 the rows are those of before, and then those it makes of them.
RowsSoFar ==
  /\ Sound(before.rows)
  /\ rows = IF applied < 7 THEN before.rows ELSE Merged(before.rows)

\* A rule of the user's is as it was, another has the text of the release reached. A seed
\* cannot be the user's before the migration that seeds it was applied.
EdictsSoFar ==
  /\ DOMAIN edicts = {"orientation", "report"}
  /\ IF before.edicts.orientation \in OwnEdicts
     THEN applied >= 2 /\ edicts.orientation = before.edicts.orientation
     ELSE edicts.orientation = OrientationAt(applied)
  /\ IF before.edicts.report \in OwnEdicts
     THEN applied >= 10 /\ edicts.report = before.edicts.report
     ELSE edicts.report \in ReportsAt(applied)

\* The inductive invariant: what the data is, after any number of migrations.
UpgradeInv ==
  /\ applied \in 0..11 /\ (daemon = "up" => applied = 11) /\ failed # "0035"
  /\ RowsSoFar /\ EdictsSoFar

\* The migrations by their number,
LEMMA Numbering ==
  /\ LastMigration = 11
  /\ Migrations[1] = "0019" /\ Migrations[2] = "0022" /\ Migrations[3] = "0026"
  /\ Migrations[4] = "0031" /\ Migrations[5] = "0033" /\ Migrations[6] = "0034"
  /\ Migrations[7] = "0035" /\ Migrations[8] = "0036" /\ Migrations[9] = "0037"
  /\ Migrations[10] = "0041" /\ Migrations[11] = "0042"
BY DEF LastMigration, Migrations

\* and the number of migrations a release had applied.
LEMMA Places ==
  /\ Before("0019") = 0 /\ Before("0026") = 2 /\ Before("0031") = 3 /\ Before("0034") = 5
  /\ Before("0035") = 6 /\ Before("0036") = 7 /\ Before("0042") = 10
<1>1. \A i \in 1..11 : i = 1 \/ i = 2 \/ i = 3 \/ i = 4 \/ i = 5 \/ i = 6 \/ i = 7 \/ i = 8 \/ i = 9
                      \/ i = 10 \/ i = 11
  OBVIOUS
<1>2. ASSUME NEW k \in 1..11 PROVE Before(Migrations[k]) = k - 1
  <2>1. \A i \in 1..11 : Migrations[i] = Migrations[k] => i = k
    BY <1>1, Numbering
  <2>2. (CHOOSE i \in 1..11 : Migrations[i] = Migrations[k]) = k
    BY <2>1
  <2> QED
    BY <2>2, Numbering DEF Before
<1> QED
  BY <1>2, Numbering

\* A repository without rows is sound.
LEMMA NoRowsIsSound == Sound(NoRows)
BY DEF Sound, NoRows, DataRecords

\* The databases of earlier releases satisfy the invariant.
LEMMA UpgradeInitInv == UpgradeInit => UpgradeInv
<1> SUFFICES ASSUME UpgradeInit PROVE UpgradeInv
  OBVIOUS
<1>1. before = [layout |-> layout, rows |-> rows, edicts |-> edicts] /\ daemon = "down" /\ failed = "none"
  BY DEF UpgradeInit
<1>2. Sound(NoRows) /\ Merged(NoRows) = NoRows
  <2>1. Sound(NoRows)
    BY NoRowsIsSound
  <2>2. Dups(NoRows) = {}
    BY DEF Dups, Group, NoRows
  <2>3. NoRows \in DataRecords
    BY <2>1 DEF Sound
  <2>4. \A k : Folded(NoRows, k, {}) = NoRows
    BY <2>3, FoldedNothing
  <2> QED
    BY <2>1, <2>2, <2>4, MergedIsFolded
<1>3. Sections \subseteq OldSlots
  BY DEF OldSlots
<1>4. ASSUME NEW o, NEW r, edicts = [orientation |-> o, report |-> r],
             applied \in 0..11,
             o \in OwnEdicts => applied >= 2, o \notin OwnEdicts => o = OrientationAt(applied),
             r \in OwnEdicts => applied >= 10, r \notin OwnEdicts => r \in ReportsAt(applied)
      PROVE  EdictsSoFar
  BY <1>1, <1>4 DEF EdictsSoFar
<1>5. CASE applied = Before("0019") /\ rows = NoRows /\ edicts = NoEdicts
  <2>1. EdictsSoFar
    BY <1>4, <1>5, Places DEF NoEdicts, OwnEdicts, OrientationAt, ReportsAt
  <2> QED
    BY <1>1, <1>2, <1>5, <2>1, Places DEF UpgradeInv, RowsSoFar
<1>6. CASE /\ applied \in {Before("0031"), Before("0034"), Before("0035")}
           /\ \/ rows = NoRows
              \/ applied < 7 /\ rows \in OldPrs(Sections) \cup OldPrs(OldSlots)
           /\ edicts = [NoEdicts EXCEPT !.orientation = "0026"]
  <2>1. edicts = [orientation |-> "0026", report |-> "unseeded"]
    BY <1>6 DEF NoEdicts
  <2>2. EdictsSoFar
    <3>1. applied \in 3..6
      BY <1>6, Places
    <3>2. "0026" \notin OwnEdicts /\ "unseeded" \notin OwnEdicts
      BY DEF OwnEdicts
    <3>3. OrientationAt(applied) = "0026" /\ "unseeded" \in ReportsAt(applied)
      BY <3>1 DEF OrientationAt, ReportsAt
    <3> QED
      BY <1>4, <2>1, <3>1, <3>2, <3>3
  <2>3. RowsSoFar
    BY <1>1, <1>2, <1>3, <1>6, OldPrsAreSound DEF RowsSoFar
  <2> QED
    BY <1>1, <1>6, <2>2, <2>3, Places DEF UpgradeInv
<1>7. CASE /\ applied \in {Before("0026"), Before("0036"), Before("0042")}
           /\ rows = NoRows
           /\ edicts \in [orientation : {"edited", "deleted",
                                         CASE applied = Before("0026") -> "0022"
                                           [] applied = Before("0036") -> "0026"
                                           [] OTHER -> "0037"},
                          report : IF applied = Before("0042")
                                   THEN {"0041", "edited", "deleted"} ELSE {"unseeded"}]
  <2>0. /\ applied \in {2, 7, 10} /\ edicts = [orientation |-> edicts.orientation, report |-> edicts.report]
        /\ edicts.orientation \in {"edited", "deleted", IF applied = 2 THEN "0022" ELSE IF applied = 7 THEN "0026" ELSE "0037"}
        /\ edicts.report \in (IF applied = 10 THEN {"0041", "edited", "deleted"} ELSE {"unseeded"})
    BY <1>7, Places
  <2>1. PICK o, r : edicts = [orientation |-> o, report |-> r]
                      /\ o \in OwnEdicts \cup {OrientationAt(applied)}
                      /\ (r \in ReportsAt(applied) \/ (r \in OwnEdicts /\ applied >= 10))
    <3>1. edicts.orientation \in OwnEdicts \cup {OrientationAt(applied)}
      BY <2>0 DEF OwnEdicts, OrientationAt
    <3>2. edicts.report \in ReportsAt(applied) \/ (edicts.report \in OwnEdicts /\ applied >= 10)
      BY <2>0 DEF OwnEdicts, ReportsAt
    <3> QED
      BY <2>0, <3>1, <3>2
  <2>2. EdictsSoFar
    <3>1. "unseeded" \notin OwnEdicts /\ "0022" \notin OwnEdicts /\ "0026" \notin OwnEdicts /\ "0037" \notin OwnEdicts
      BY DEF OwnEdicts
    <3>2. applied \in 0..11 /\ (o \in OwnEdicts => applied >= 2) /\ (r \in OwnEdicts => applied >= 10)
      BY <2>0, <2>1, <3>1 DEF ReportsAt, OwnEdicts
    <3> QED
      BY <1>4, <2>1, <3>2
  <2>3. RowsSoFar
    BY <1>1, <1>2, <1>7 DEF RowsSoFar
  <2> QED
    BY <1>1, <1>7, <2>2, <2>3, Places DEF UpgradeInv
<1>9. CASE /\ applied = Before("0031") /\ rows = NoRows
           /\ edicts = [NoEdicts EXCEPT !.orientation = "0026"]
  BY <1>6, <1>9
<1>10. CASE /\ applied = Before("0034") /\ rows \in OldPrs(Sections)
            /\ edicts = [NoEdicts EXCEPT !.orientation = "0026"]
  BY <1>6, <1>10, Places
<1>11. CASE /\ applied = Before("0035") /\ rows \in OldPrs(OldSlots)
            /\ edicts = [NoEdicts EXCEPT !.orientation = "0026"]
  BY <1>6, <1>11, Places
<1> QED
  BY <1>5, <1>7, <1>9, <1>10, <1>11 DEF UpgradeInit

\* Opening, each migration, one that throws, and the death of the daemon keep it.
LEMMA UpgradeStep == UpgradeInv /\ [UpgradeNext]_upgradeVars => UpgradeInv'
<1> SUFFICES ASSUME UpgradeInv, [UpgradeNext]_upgradeVars PROVE UpgradeInv'
  OBVIOUS
<1>0. applied \in 0..11 /\ RowsSoFar /\ EdictsSoFar /\ failed # "0035" /\ (daemon = "up" => applied = 11)
  BY DEF UpgradeInv
<1>1. CASE OpenDb \/ Killed \/ Opened \/ UNCHANGED upgradeVars
  BY <1>0, <1>1, Numbering
     DEF OpenDb, Killed, Opened, upgradeVars, UpgradeInv, RowsSoFar, EdictsSoFar
<1>2. CASE MigrationThrows
  <2>1. applied < 11 /\ Throws(Migrations[applied + 1]) /\ failed' = Migrations[applied + 1]
    BY <1>2, Numbering DEF MigrationThrows
  <2>2. applied # 6
    <3> SUFFICES ASSUME applied = 6 PROVE FALSE
      OBVIOUS
    <3>1. Migrations[applied + 1] = "0035" /\ rows = before.rows
      BY <1>0, Numbering DEF RowsSoFar
    <3>2. Unique(Merged(rows))
      BY <1>0, <3>1, MergedIsUnique DEF RowsSoFar
    <3> QED
      BY <2>1, <3>1, <3>2 DEF Throws
  <2>3. failed' # "0035"
    <3>1. applied \in {0, 1, 2, 3, 4, 5, 7, 8, 9, 10}
      BY <1>0, <2>1, <2>2
    <3> QED
      BY <2>1, <3>1, Numbering
  <2> QED
    BY <1>0, <1>2, <2>3 DEF MigrationThrows, UpgradeInv, RowsSoFar, EdictsSoFar
<1>3. CASE Migrate
  <2> DEFINE m == Migrations[applied + 1]
  <2>1. applied \in {0, 1, 2, 3, 4, 5, 6, 7, 8, 9, 10} /\ Statements(m) /\ applied' = applied + 1
          /\ UNCHANGED <<daemon, failed, before>> /\ daemon = "opening"
    BY <1>0, <1>3, Numbering DEF Migrate
  <2>2. RowsSoFar'
    <3>1. CASE applied = 6
      <4>1. m = "0035"
        BY <3>1, Numbering
      <4>2. rows' = Merged(rows)
        BY <2>1, <4>1 DEF Statements
      <4> QED
        BY <1>0, <2>1, <3>1, <4>2 DEF RowsSoFar
    <3>2. CASE applied # 6
      <4>1. m # "0035"
        BY <2>1, <3>2, Numbering
      <4>2. rows' = rows
        BY <2>1, <4>1 DEF Statements
      <4> QED
        BY <1>0, <2>1, <3>2, <4>2 DEF RowsSoFar
    <3> QED
      BY <3>1, <3>2
  <2>3. EdictsSoFar'
    <3>1. \A seed, old, new : Reseed(seed, old, new) =>
            edicts' = IF edicts[seed] = old THEN [edicts EXCEPT ![seed] = new] ELSE edicts
      BY DEF Reseed
    <3>2. CASE applied \in {0, 3, 4, 5, 6}
      <4>1. edicts' = edicts
        BY <2>1, <3>2, Numbering DEF Statements
      <4> QED
        BY <1>0, <2>1, <3>2, <4>1 DEF EdictsSoFar, OrientationAt, ReportsAt
    <3>3. CASE applied = 1
      <4>1. edicts' = [edicts EXCEPT !.orientation = "0022"]
        BY <2>1, <3>3, Numbering DEF Statements
      <4> QED
        BY <1>0, <2>1, <3>3, <4>1 DEF EdictsSoFar, OrientationAt, ReportsAt, OwnEdicts
    <3>4. CASE applied = 2
      <4>1. edicts' = IF edicts["orientation"] = "0022" THEN [edicts EXCEPT !["orientation"] = "0026"] ELSE edicts
        BY <2>1, <3>4, Numbering DEF Statements, Reseed
      <4> QED
        BY <1>0, <2>1, <3>4, <4>1 DEF EdictsSoFar, OrientationAt, ReportsAt, OwnEdicts
    <3>5. CASE applied = 7
      <4>1. edicts' = IF edicts["orientation"] = "0026" THEN [edicts EXCEPT !["orientation"] = "0036"] ELSE edicts
        BY <2>1, <3>5, Numbering DEF Statements, Reseed
      <4> QED
        BY <1>0, <2>1, <3>5, <4>1 DEF EdictsSoFar, OrientationAt, ReportsAt, OwnEdicts
    <3>6. CASE applied = 8
      <4>1. edicts' = IF edicts["orientation"] = "0036" THEN [edicts EXCEPT !["orientation"] = "0037"] ELSE edicts
        BY <2>1, <3>6, Numbering DEF Statements, Reseed
      <4> QED
        BY <1>0, <2>1, <3>6, <4>1 DEF EdictsSoFar, OrientationAt, ReportsAt, OwnEdicts
    <3>7. CASE applied = 9
      <4>1. edicts' = [edicts EXCEPT !.report = "0042"]
        BY <2>1, <3>7, Numbering DEF Statements
      <4> QED
        BY <1>0, <2>1, <3>7, <4>1 DEF EdictsSoFar, OrientationAt, ReportsAt, OwnEdicts
    <3>8. CASE applied = 10
      <4>1. edicts' = IF edicts["report"] = "0041" THEN [edicts EXCEPT !["report"] = "0042"] ELSE edicts
        BY <2>1, <3>8, Numbering DEF Statements, Reseed
      <4> QED
        BY <1>0, <2>1, <3>8, <4>1 DEF EdictsSoFar, OrientationAt, ReportsAt, OwnEdicts
    <3> QED
      BY <2>1, <3>2, <3>3, <3>4, <3>5, <3>6, <3>7, <3>8
  <2> QED
    BY <1>0, <2>1, <2>2, <2>3 DEF UpgradeInv
<1> QED
  BY <1>1, <1>2, <1>3 DEF UpgradeNext

\* For any steps of a campaign and any saved layout, however often the daemon dies: rows and
\* seeded rules are those that the migrations so far make of the ones before.
THEOREM UpgradeInvariant == UpgradeSpec => []UpgradeInv
<1> QED
  BY UpgradeInitInv, UpgradeStep, PTL DEF UpgradeSpec

\* migrations/index.ts:580-645, 405-409: 0035 never fails, and a database that opens has every
\* PR's tasks, claims and node on its one row, and the user's own edicts.
THEOREM UpgradesLoseNothing == UpgradeSpec => []UpgradeKeepsData
<1>1. UpgradeInv => UpgradeKeepsData
  <2> SUFFICES ASSUME UpgradeInv PROVE UpgradeKeepsData
    OBVIOUS
  <2>1. ASSUME daemon = "up" PROVE RowsKept /\ EdictsKept
    <3>1. applied = 11 /\ RowsSoFar /\ EdictsSoFar
      BY <2>1 DEF UpgradeInv
    <3>2. RowsKept
      BY <3>1, MergedKeepsRows DEF RowsSoFar
    <3>3. EdictsKept
      BY <3>1 DEF EdictsKept, EdictsSoFar, OwnEdicts, OrientationAt, ReportsAt
    <3> QED
      BY <3>2, <3>3
  <2> QED
    BY <2>1 DEF UpgradeInv, UpgradeKeepsData
<1> QED
  BY <1>1, UpgradeInvariant, PTL

-----------------------------------------------------------------------------
(* Types: which kind of layout each migration leaves. *)

\* The trees of 0019 to 0030, from those of fewer panes.
LegacyStep(f) ==
  [span \in Spans |->
    IF span[1] = span[2] THEN {Leaf(span[1])}
    ELSE Grown(span, f[<<span[1], span[2] - 1>>], f[<<span[1] + 1, span[2]>>])]

\* The spans of fewer than k panes.
Short(k) == {span \in Spans : span[2] - span[1] < k}

\* Two tables that agree on fewer than k + 1 panes give tables that agree on one more.
LEMMA LegacyAgrees ==
  ASSUME NEW f, NEW g, NEW k \in Nat, \A span \in Short(k) : f[span] = g[span]
  PROVE  \A span \in Short(k + 1) : LegacyStep(f)[span] = LegacyStep(g)[span]
<1> SUFFICES ASSUME NEW span \in Short(k + 1)
             PROVE  LegacyStep(f)[span] = LegacyStep(g)[span]
  OBVIOUS
<1>0. MaxSaved \in Nat
  BY UpgradeConstants
<1>1. span \in Spans /\ span[1] \in 1..MaxSaved /\ span[2] \in 1..MaxSaved
      /\ span[1] <= span[2] /\ span[2] - span[1] < k + 1
  BY DEF Short, Spans
<1>2. CASE span[1] = span[2]
  BY <1>1, <1>2 DEF LegacyStep
<1>3. CASE span[1] # span[2]
  <2>1. <<span[1], span[2] - 1>> \in Short(k) /\ <<span[1] + 1, span[2]>> \in Short(k)
    BY <1>0, <1>1, <1>3 DEF Short, Spans
  <2>2. /\ f[<<span[1], span[2] - 1>>] = g[<<span[1], span[2] - 1>>]
        /\ f[<<span[1] + 1, span[2]>>] = g[<<span[1] + 1, span[2]>>]
    BY <2>1
  <2> QED
    BY <1>1, <1>3, <2>2 DEF LegacyStep
<1> QED
  BY <1>2, <1>3

\* As there are at most four panes, the table is well defined.
LEMMA LegacyTreesAre == LegacyTrees = LegacyStep(LegacyTrees)
<1> DEFINE f1 == LegacyStep({})
           f2 == LegacyStep(f1)
           f3 == LegacyStep(f2)
           f4 == LegacyStep(f3)
           f5 == LegacyStep(f4)
<1>0. MaxSaved \in 1..4
  BY UpgradeConstants
<1>1. \A span \in Short(1) : f1[span] = f2[span]
  <2> HIDE DEF f1
  <2>1. \A span \in Short(0) : {}[span] = f1[span]
    BY <1>0 DEF Short, Spans
  <2>2. \A span \in Short(0 + 1) : LegacyStep({})[span] = LegacyStep(f1)[span]
    BY <2>1, LegacyAgrees
  <2> QED
    BY <2>2 DEF f1
<1>2. \A span \in Short(2) : f2[span] = f3[span]
  <2> HIDE DEF f1, f2
  <2>1. \A span \in Short(1 + 1) : LegacyStep(f1)[span] = LegacyStep(f2)[span]
    BY <1>1, LegacyAgrees
  <2> QED
    BY <2>1 DEF f2
<1>3. \A span \in Short(3) : f3[span] = f4[span]
  <2> HIDE DEF f1, f2, f3
  <2>1. \A span \in Short(2 + 1) : LegacyStep(f2)[span] = LegacyStep(f3)[span]
    BY <1>2, LegacyAgrees
  <2> QED
    BY <2>1 DEF f3
<1>4. \A span \in Short(4) : f4[span] = f5[span]
  <2> HIDE DEF f1, f2, f3, f4
  <2>1. \A span \in Short(3 + 1) : LegacyStep(f3)[span] = LegacyStep(f4)[span]
    BY <1>3, LegacyAgrees
  <2> QED
    BY <2>1 DEF f4
<1>5. f4 = f5
  <2>1. Spans = Short(4)
    BY <1>0 DEF Short, Spans
  <2>2. \A span \in Spans : f4[span] = f5[span]
    BY <1>4, <2>1
  <2>3. f4 = [span \in Spans |-> f4[span]] /\ f5 = [span \in Spans |-> f5[span]]
    <3>1. \A f : LegacyStep(f) = [span \in Spans |-> LegacyStep(f)[span]]
      BY DEF LegacyStep
    <3> HIDE DEF f3, f4
    <3>2. f5 = [span \in Spans |-> f5[span]]
      BY <3>1
    <3>3. f4 = [span \in Spans |-> f4[span]]
      BY <3>1 DEF f4
    <3> QED
      BY <3>2, <3>3
  <2> HIDE DEF f4, f5
  <2> QED
    BY <2>2, <2>3
<1> HIDE DEF f4
<1>6. \E f : f = LegacyStep(f)
  BY <1>5
<1> HIDE DEF f1, f2, f3, f5
<1>7. \E f : f = [span \in Spans |->
        IF span[1] = span[2] THEN {Leaf(span[1])}
        ELSE Grown(span, f[<<span[1], span[2] - 1>>], f[<<span[1] + 1, span[2]>>])]
  BY <1>6 DEF LegacyStep
<1>8. LegacyTrees = [span \in Spans |->
        IF span[1] = span[2] THEN {Leaf(span[1])}
        ELSE Grown(span, LegacyTrees[<<span[1], span[2] - 1>>], LegacyTrees[<<span[1] + 1, span[2]>>])]
  BY <1>7 DEF LegacyTrees
<1> QED
  BY <1>8 DEF LegacyStep

\* A saved tree of these releases is a leaf or a split of two.
LEMMA LegacyKinds ==
  ASSUME NEW n \in 1..MaxSaved, NEW t \in LegacyTrees[<<1, n>>]
  PROVE  t.type \in {"leaf", "legacy"}
<1>1. <<1, n>> \in Spans
  BY UpgradeConstants DEF Spans
<1>2. t \in LegacyStep(LegacyTrees)[<<1, n>>]
  BY LegacyTreesAre
<1>3. CASE 1 = n
  BY <1>1, <1>2, <1>3 DEF LegacyStep, Leaf
<1>4. CASE 1 # n
  <2>1. \E dir, ratio, a, b : t = Chain(dir, ratio, a, b)
    BY <1>1, <1>2, <1>4 DEF LegacyStep, Grown
  <2> QED
    BY <2>1 DEF Chain
<1> QED
  BY <1>3, <1>4

\* The data of earlier releases has its type,
LEMMA UpgradeInitTypes == UpgradeInit => UpgradeTypeOK
<1> SUFFICES ASSUME UpgradeInit PROVE UpgradeTypeOK
  OBVIOUS
<1>1. daemon = "down" /\ failed = "none" /\ forked \in BOOLEAN
  BY DEF UpgradeInit
<1>2. CASE applied = Before("0019") /\ \E n \in 0..MaxSaved : layout = Members(n)
  BY <1>1, <1>2, Places, Numbering DEF Members, UpgradeTypeOK
<1>3. CASE applied = Before("0031") /\ \E n \in 1..MaxSaved : layout \in LegacyTrees[<<1, n>>]
  BY <1>1, <1>3, Places, Numbering, LegacyKinds DEF UpgradeTypeOK
<1>4. CASE /\ layout = Leaf(1)
           /\ applied \in {Before("0026"), Before("0034"), Before("0035"), Before("0036"), Before("0042")}
  BY <1>1, <1>4, Places, Numbering DEF Leaf, UpgradeTypeOK
<1> QED
  BY <1>2, <1>3, <1>4 DEF UpgradeInit

\* and every migration keeps it.
LEMMA UpgradeTypeStep == UpgradeTypeOK /\ [UpgradeNext]_upgradeVars => UpgradeTypeOK'
<1> SUFFICES ASSUME UpgradeTypeOK, [UpgradeNext]_upgradeVars PROVE UpgradeTypeOK'
  OBVIOUS
<1>1. CASE OpenDb \/ Opened \/ Killed \/ UNCHANGED upgradeVars
  BY <1>1 DEF OpenDb, Opened, Killed, upgradeVars, UpgradeTypeOK
<1>2. CASE MigrationThrows
  <2>1. applied + 1 \in DOMAIN Migrations
    BY <1>2, Numbering DEF MigrationThrows, UpgradeTypeOK, Migrations
  <2>2. failed' \in ToSet(Migrations)
    BY <1>2, <2>1 DEF MigrationThrows, ToSet
  <2> QED
    BY <1>2, <2>2 DEF MigrationThrows, UpgradeTypeOK
<1>3. CASE Migrate
  <2>1. applied \in 0..10 /\ Statements(Migrations[applied + 1]) /\ applied' = applied + 1
        /\ UNCHANGED <<daemon, failed, before>>
    BY <1>3, Numbering DEF Migrate, UpgradeTypeOK
  <2>2. CASE applied = 0
    <3>1. layout' = ChainFromSessionIds(layout.sessions) /\ forked' = forked
      BY <2>1, <2>2, Numbering DEF Statements
    <3>2. layout'.type \in {"leaf", "split"}
      BY <3>1 DEF ChainFromSessionIds, Leaf, Split
    <3> QED
      BY <2>1, <2>2, <3>1, <3>2, Numbering DEF UpgradeTypeOK
  <2>3. CASE applied = 3
    <3>1. layout' = Converted(layout) /\ forked' = forked
      BY <2>1, <2>3, Numbering DEF Statements
    <3>2. \A dir, pieces : SplitOf(dir, pieces).type = "split"
      BY DEF SplitOf, Split
    <3>3. layout'.type \in {"leaf", "split"}
      BY <3>1, <3>2 DEF Converted
    <3> QED
      BY <2>1, <2>3, <3>1, <3>3, Numbering DEF UpgradeTypeOK
  <2>4. CASE applied \in {1, 2} \cup 4..10
    <3>1. Migrations[applied + 1] \notin {"0019", "0031"}
      BY <2>4, Numbering
    <3>2. layout' = layout /\ forked' = forked
      BY <2>1, <3>1 DEF Statements
    <3> QED
      BY <2>1, <2>4, <3>2, Numbering DEF UpgradeTypeOK
  <2> QED
    BY <2>1, <2>2, <2>3, <2>4
<1> QED
  BY <1>1, <1>2, <1>3 DEF UpgradeNext

\* The database has its type: after 0031, each layout is a leaf or a flat split.
THEOREM UpgradeTypes == UpgradeSpec => []UpgradeTypeOK
  BY UpgradeInitTypes, UpgradeTypeStep, PTL DEF UpgradeSpec

=============================================================================
