-------------------------- MODULE PrRegistryProofs --------------------------
(***************************************************************************)
(* The rows of prs keep one row to a PR, and a PR keeps its row, for any   *)
(* number of agents, steps, PRs and rows.  All but RegisterPr and          *)
(* StartTool only change what the invariant says little of; these two      *)
(* write through Upsert, and UpsertRows is the argument about it.          *)
(***************************************************************************)
EXTENDS PrRegistry, TLAPS

\* What Existing returns is in the table, and is the number's row or else
\* the slot's only placeholder.
LEMMA ExistingRow ==
  ASSUME NEW t, NEW n, NEW p \in Existing(t, n)
  PROVE  /\ p \in There
         /\ \/ number[p] = n /\ n # NoNumber
            \/ number[p] = NoNumber /\ step[p] = t /\ WithNumber(n) = {}
BY DEF Existing, WithNumber, Placeholder, There

\* An upsert writes one row, which is either the PR's own already or comes to
\* hold a number and a slot that no other row holds.
LEMMA UpsertRows ==
  ASSUME IInv, NEW t \in Slots, NEW n \in Numbers \union {NoNumber}, NEW p \in Rows,
         Upsert(p, t, n), n # NoNumber => github[n] # "none",
         node' \in {node, node \union {p}}, node' # node => n # NoNumber,
         UNCHANGED github
  PROVE  OneRowPerPr' /\ UnusedRows' /\ NumbersAreReal'
<1> DEFINE old == Existing(t, n)
<1>1. There' = There \union {p}
  BY DEF Upsert, Upserted, There, IInv, TypeOK
<1>2. \A q \in Rows \ {p} : step'[q] = step[q] /\ number'[q] = number[q]
  BY DEF Upsert, Upserted, IInv, TypeOK
<1>3. /\ number'[p] = IF n = NoNumber THEN number[p] ELSE n
      /\ step'[p] = IF t = NoStep THEN step[p] ELSE t
  BY DEF Upsert, Upserted, IInv, TypeOK
<1>4. CASE p \in old
  <2>1. /\ p \in There
        /\ \/ number[p] = n /\ n # NoNumber
           \/ number[p] = NoNumber /\ step[p] = t /\ WithNumber(n) = {}
    BY <1>4, ExistingRow
  <2>2. OneRowPerPr'
    BY <1>1, <1>2, <1>3, <2>1 DEF IInv, OneRowPerPr, WithNumber, There
  <2>3. UnusedRows'
    BY <1>1, <1>2, <2>1 DEF IInv, UnusedRows, There
  <2>4. NumbersAreReal'
    BY <1>1, <1>2, <1>3, <2>1 DEF IInv, NumbersAreReal, There
  <2> QED  BY <2>2, <2>3, <2>4
<1>5. CASE old = {} /\ p \in NextRow
  <2>1. p \notin There /\ number[p] = NoNumber /\ step[p] = NoStep /\ p \notin node
    BY <1>5 DEF NextRow, There, IInv, UnusedRows
  <2>2. WithNumber(n) = {} /\ Placeholder(t) = {}
    BY <1>5 DEF Existing
  <2>3. OneRowPerPr'
    BY <1>1, <1>2, <1>3, <2>1, <2>2 DEF IInv, OneRowPerPr, WithNumber, Placeholder, There
  <2>4. UnusedRows'
    BY <1>1, <1>2, <2>1 DEF IInv, UnusedRows, There
  <2>5. NumbersAreReal'
    BY <1>1, <1>2, <1>3, <2>1 DEF IInv, NumbersAreReal, There
  <2> QED  BY <2>3, <2>4, <2>5
<1> QED  BY <1>4, <1>5 DEF Upsert

\* Deleting rows leaves the others as they were.
LEMMA DeletedRows ==
  ASSUME IInv, NEW D \in SUBSET Rows, DeleteRows(D), UNCHANGED github
  PROVE  OneRowPerPr' /\ UnusedRows' /\ NumbersAreReal'
<1>1. There' = There \ D
  BY DEF DeleteRows, There, IInv, TypeOK
<1>2. \A q \in There' : step'[q] = step[q] /\ number'[q] = number[q] /\ (q \in node' => q \in node)
  BY <1>1 DEF DeleteRows, There
<1>3. OneRowPerPr' /\ NumbersAreReal'
  BY <1>1, <1>2 DEF IInv, OneRowPerPr, NumbersAreReal
<1>4. UnusedRows'
  BY <1>1 DEF DeleteRows, IInv, UnusedRows, There
<1> QED  BY <1>3, <1>4

-----------------------------------------------------------------------------
\* The initial state: no PR is registered.
LEMMA InitIInv == Init => IInv
BY NobodyIsNoAgent, NoNumberIsNoNumber
   DEF Init, IInv, TypeOK, OneRowPerPr, UnusedRows, NumbersAreReal, There, Slots, Done, NoCall

\* Every step keeps the types, given that only numbers of PRs on GitHub are
\* asked about.
LEMMA TypeStep == ASSUME IInv, [Next]_vars PROVE TypeOK'
<1> USE DEF IInv, TypeOK
<1>1. ASSUME Registering PROVE TypeOK'
  BY <1>1 DEF Registering, RegisterPr, ResolveNode, Upsert, Upserted, There, Slots,
     claimVars, dirVars, agentVars, hubVars
<1>2. ASSUME NEW a \in Agents, NEW t \in Slots, NEW tool \in {"claim_pr", "release_pr"}, StartTool(a, tool, t)
      PROVE  TypeOK'
  BY <1>2 DEF StartTool, Upsert, Upserted, There, Slots, Call, claimVars, dirVars, hubVars
<1>3. ASSUME NEW a \in Agents,
             LoseCall(a) \/ ServeClaim(a) \/ ServeRelease(a) \/ Leave(a) \/ End(a)
               \/ \E p \in Rows : ReleaseOnExit(a, p)
      PROVE  TypeOK'
  <2>1. call[a].tool # "none" => call[a] \in Call /\ call[a].pr \in Rows
    BY DEF Call, NoCall
  <2>2. CASE ServeClaim(a)
    BY <2>1, <2>2 DEF ServeClaim, prVars, claimVars, dirVars, hubVars
  <2>3. CASE ServeRelease(a)
    BY <2>1, <2>3 DEF ServeRelease, Release, prVars, dirVars, hubVars
  <2>4. CASE LoseCall(a) \/ Leave(a) \/ End(a)
    BY <2>4 DEF LoseCall, Leave, End, prVars, claimVars, dirVars, hubVars
  <2>5. CASE \E p \in Rows : ReleaseOnExit(a, p)
    BY <2>5 DEF ReleaseOnExit, Release, prVars, dirVars, hubVars
  <2> QED  BY <1>3, <2>2, <2>3, <2>4, <2>5
<1>4. ASSUME NEW p \in Rows, Expire(p) \/ ReadGitHub(p) PROVE TypeOK'
  <2>1. CASE Expire(p)
    BY <2>1 DEF Expire, Release, prVars, dirVars, agentVars, hubVars
  <2>2. CASE ReadGitHub(p)
    <3>1. number[p] \in Numbers /\ github[number[p]] # "none"
      BY <2>2 DEF ReadGitHub, NumbersAreReal, There
    <3>2. MapState(github[number[p]]) \in {"open"} \union Done
      BY <3>1 DEF MapState
    <3> QED  BY <2>2, <3>2 DEF ReadGitHub, prVars, claimVars, dirVars, agentVars
  <2> QED  BY <1>4, <2>1, <2>2
<1>5. ASSUME NEW r \in answers, ApplyAnswer(r) PROVE TypeOK'
  BY <1>5 DEF ApplyAnswer, Release, dirVars, agentVars
<1>6. CASE People
  <2>1. ASSUME NEW n \in Numbers, PrMoves(n) PROVE TypeOK'
    BY <2>1 DEF PrMoves, Done, prVars, claimVars, dirVars, agentVars
  <2>2. ASSUME NEW p \in Rows, UserReleases(p) PROVE TypeOK'
    BY <2>2 DEF UserReleases, Release, prVars, dirVars, agentVars, hubVars
  <2>3. ASSUME NEW D \in SUBSET Rows, DeleteRows(D), UNCHANGED <<agentVars, hubVars>>,
               campaign' \in {"there", "deleted"}, terminals' \in BOOLEAN
        PROVE  TypeOK'
    BY <2>3 DEF DeleteRows, Slots, Done, agentVars, hubVars
  <2>4. ASSUME NEW p \in Rows, DeletePr(p) PROVE TypeOK'
    BY <2>3, <2>4 DEF DeletePr, dirVars
  <2>5. ASSUME NEW t \in Steps, DeleteStep(t) PROVE TypeOK'
    BY <2>3, <2>5 DEF DeleteStep, There, dirVars
  <2>6. ASSUME DeleteCampaign PROVE TypeOK'
    <3>1. CASE UNCHANGED <<prVars, claimVars, campaign>>
      BY <2>6, <3>1 DEF DeleteCampaign, prVars, claimVars, agentVars, hubVars
    <3>2. CASE DeleteRows(There) /\ campaign' = "deleted"
      BY <2>3, <2>6, <3>2 DEF DeleteCampaign, There
    <3> QED  BY <2>6, <3>1, <3>2 DEF DeleteCampaign
  <2> QED  BY <1>6, <2>1, <2>2, <2>4, <2>5, <2>6 DEF People
<1>7. CASE UNCHANGED vars
  BY <1>7 DEF vars, prVars, claimVars, dirVars, agentVars, hubVars
<1> QED  BY <1>1, <1>2, <1>3, <1>4, <1>5, <1>6, <1>7 DEF Next, Claiming, Syncing

\* Every step keeps the rows apart: it is an upsert, a deletion, or writes
\* neither a number nor a step.
LEMMA RowsStep ==
  ASSUME IInv, [Next]_vars
  PROVE  OneRowPerPr' /\ UnusedRows' /\ NumbersAreReal'
<1> DEFINE Rest == OneRowPerPr' /\ UnusedRows' /\ NumbersAreReal'
<1>1. ASSUME NEW t \in Slots, NEW n \in Numbers, RegisterPr(t, n) PROVE Rest
  <2>1. PICK p \in Rows : Upsert(p, t, n) /\ node' \in {node, node \union {p}}
    BY <1>1 DEF RegisterPr
  <2> QED  BY <1>1, <2>1, UpsertRows, NoNumberIsNoNumber DEF RegisterPr, hubVars
<1>2. ASSUME NEW a \in Agents, NEW t \in Slots, NEW tool \in {"claim_pr", "release_pr"}, StartTool(a, tool, t)
      PROVE  Rest
  <2>1. PICK p \in Rows : Upsert(p, t, NoNumber)
    BY <1>2 DEF StartTool
  <2> QED  BY <1>2, <2>1, UpsertRows DEF StartTool, hubVars
<1>3. ASSUME NEW D \in SUBSET Rows, DeleteRows(D), UNCHANGED hubVars PROVE Rest
  BY <1>3, DeletedRows DEF hubVars
<1>4. ASSUME UNCHANGED <<row, step, number, node, github>> PROVE Rest
  BY <1>4 DEF IInv, OneRowPerPr, UnusedRows, NumbersAreReal, There
<1>5. ASSUME NEW p \in Rows, ResolveNode(p) PROVE Rest
  BY <1>5 DEF ResolveNode, hubVars, IInv, OneRowPerPr, UnusedRows, NumbersAreReal, There
<1>6. ASSUME NEW n \in Numbers, PrMoves(n) PROVE Rest
  <2>1. \A m \in Numbers : github[m] # "none" => github'[m] # "none"
    BY <1>6 DEF PrMoves, IInv, TypeOK, Done
  <2>2. UNCHANGED <<row, step, number, node>>
    BY <1>6 DEF PrMoves, prVars
  <2> QED  BY <2>1, <2>2 DEF IInv, TypeOK, OneRowPerPr, UnusedRows, NumbersAreReal, There
<1>7. ASSUME Claiming PROVE Rest
  <2>1. ASSUME NEW a \in Agents, LoseCall(a) \/ ServeClaim(a) \/ ServeRelease(a) \/ Leave(a) \/ End(a)
                                  \/ \E p \in Rows : ReleaseOnExit(a, p)
        PROVE  Rest
    BY <1>4, <2>1 DEF LoseCall, ServeClaim, ServeRelease, Leave, End, ReleaseOnExit, prVars, hubVars
  <2> QED  BY <1>2, <1>7, <2>1 DEF Claiming
<1>8. ASSUME Syncing PROVE Rest
  BY <1>4, <1>8 DEF Syncing, Expire, ReadGitHub, ApplyAnswer, prVars, hubVars
<1>9. ASSUME People PROVE Rest
  <2>1. ASSUME NEW p \in Rows, UserReleases(p) PROVE Rest
    BY <1>4, <2>1 DEF UserReleases, prVars, hubVars
  <2>2. ASSUME NEW p \in Rows, DeletePr(p) PROVE Rest
    BY <1>3, <2>2 DEF DeletePr, hubVars
  <2>3. ASSUME NEW t \in Steps, DeleteStep(t) PROVE Rest
    BY <1>3, <2>3 DEF DeleteStep, There, hubVars
  <2>4. ASSUME DeleteCampaign PROVE Rest
    BY <1>3, <1>4, <2>4 DEF DeleteCampaign, There, prVars, hubVars
  <2> QED  BY <1>6, <1>9, <2>1, <2>2, <2>3, <2>4 DEF People
<1>10. ASSUME UNCHANGED vars PROVE Rest
  BY <1>4, <1>10 DEF vars, prVars, hubVars
<1> QED  BY <1>1, <1>5, <1>7, <1>8, <1>9, <1>10 DEF Next, Registering

-----------------------------------------------------------------------------
\* The invariant holds in every state the daemon can reach.
THEOREM RowsInvariant == Spec => []IInv
<1>1. IInv /\ [Next]_vars => IInv'
  BY TypeStep, RowsStep DEF IInv
<1> QED  BY InitIInv, <1>1, PTL DEF Spec

\* Every variable keeps to its type: no answer of GitHub is about a PR that is
\* not there, and no claim is on a row that never was.
THEOREM TypeCorrectness == Spec => []TypeOK
<1>1. IInv => TypeOK
  BY DEF IInv
<1> QED  BY RowsInvariant, <1>1, PTL

\* Registrations, claims that create placeholders and deletions never leave two
\* rows for one number, or two placeholders for one slot.
THEOREM OneRowToAPr == Spec => []OneRowPerPr
<1>1. IInv => OneRowPerPr
  BY DEF IInv
<1> QED  BY RowsInvariant, <1>1, PTL

\* A row in the table keeps its number, and a step once it has one, until it is
\* deleted: only upserts write them, and these coalesce.
THEOREM RowsKeepTheirIdentity == Spec => RowKeepsIdentity
<1> DEFINE Keeps == \A p \in There : row'[p] = "there" =>
                      /\ number[p] # NoNumber => number'[p] = number[p]
                      /\ step[p] # NoStep => step'[p] # NoStep
<1>1. ASSUME IInv, [Next]_vars PROVE Keeps
  <2>1. ASSUME NEW t \in Slots, NEW n \in Numbers \union {NoNumber}, NEW p \in Rows, Upsert(p, t, n)
        PROVE  Keeps
    <3>1. p \in There => number[p] = NoNumber \/ number[p] = n
      BY <2>1, ExistingRow DEF Upsert, NextRow, There
    <3> QED  BY <2>1, <3>1 DEF Upsert, Upserted, IInv, TypeOK, There
  <2>2. ASSUME UNCHANGED <<row, step, number>> PROVE Keeps
    BY <2>2
  <2>3. ASSUME NEW D \in SUBSET Rows, DeleteRows(D) PROVE Keeps
    BY <2>3 DEF DeleteRows, There
  <2>4. ASSUME Registering PROVE Keeps
    BY <2>1, <2>2, <2>4 DEF Registering, RegisterPr, ResolveNode
  <2>5. ASSUME Claiming PROVE Keeps
    BY <2>1, <2>2, <2>5 DEF Claiming, StartTool, LoseCall, ServeClaim, ServeRelease, Leave, End, ReleaseOnExit, prVars
  <2>6. ASSUME Syncing PROVE Keeps
    BY <2>2, <2>6 DEF Syncing, Expire, ReadGitHub, ApplyAnswer, prVars
  <2>7. ASSUME People PROVE Keeps
    BY <2>2, <2>3, <2>7 DEF People, PrMoves, UserReleases, DeletePr, DeleteStep, DeleteCampaign, There, prVars
  <2>8. ASSUME UNCHANGED vars PROVE Keeps
    BY <2>2, <2>8 DEF vars, prVars
  <2> QED  BY <1>1, <2>4, <2>5, <2>6, <2>7, <2>8 DEF Next
<1>2. IInv /\ [Next]_vars => [Keeps]_vars
  BY <1>1
<1> QED  BY RowsInvariant, <1>2, PTL DEF Spec, RowKeepsIdentity
=============================================================================
