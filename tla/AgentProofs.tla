----------------------------- MODULE AgentProofs -----------------------------
(***************************************************************************)
(* Proofs about what agents do beside their terminals: the claims of       *)
(* dispatches (Leases), the conversations of sessions (Conversations),     *)
(* notifications (Inbox) and the tools that agents call (Pipeline).  The   *)
(* four share no state; each has an invariant of its own.                  *)
(***************************************************************************)
EXTENDS Leases, Conversations, Inbox, Pipeline, WellFoundedInduction, TLAPS

-----------------------------------------------------------------------------
(***************************************************************************)
(* Sets of naturals.                                                       *)
(***************************************************************************)

\* The least of a set of naturals is one of them.
LEMMA LeastOfNaturals ==
  ASSUME NEW S \in SUBSET Nat, S # {}
  PROVE  Min(S) \in S /\ \A n \in S : Min(S) <= n
<1>1. PICK m \in S : \A n \in S : ~(<<n, m>> \in OpToRel(<, Nat))
  BY NatLessThanWellFounded, WFMin
<1>2. \A n \in S : ~(n < m)
  BY <1>1 DEF OpToRel
<1>3. \E k \in S : \A n \in S : k <= n
  BY <1>2
<1> QED
  BY <1>3 DEF Min

\* The greatest of a set of numbers up to n is one of them.
LEMMA GreatestIsIn ==
  ASSUME NEW n \in Nat, NEW S \in SUBSET (1..n), S # {}
  PROVE  Max(S) \in S /\ \A y \in S : y <= Max(S)
<1> DEFINE T == {n - x : x \in S}
<1>1. T \in SUBSET Nat
  OBVIOUS
<1>2. T # {}
  OBVIOUS
<1>3. Min(T) \in T /\ \A k \in T : Min(T) <= k
  <2> HIDE DEF T
  <2> QED
    BY <1>1, <1>2, LeastOfNaturals
<1>5. PICK x \in S : Min(T) = n - x
  BY <1>3
<1>6. \A y \in S : x >= y
  <2> SUFFICES ASSUME NEW y \in S PROVE x >= y
    OBVIOUS
  <2>1. n - y \in T
    OBVIOUS
  <2>2. n - x <= n - y
    BY <1>3, <1>5, <2>1
  <2> QED
    BY <2>2
<1> QED
  BY <1>6 DEF Max

\* A set of naturals with a bound has a greatest element.
LEMMA GreatestOfBounded ==
  ASSUME NEW n \in Nat, NEW S \in SUBSET (0..n), S # {}
  PROVE  \E m \in S : \A k \in S : k <= m
<1>1. PICK T : T = {n - k : k \in S}
  OBVIOUS
<1>2. T \in SUBSET Nat /\ T # {}
  <2>1. \A k \in S : n - k \in Nat
    OBVIOUS
  <2>2. \E k \in S : n - k \in T
    BY <1>1
  <2> QED
    BY <1>1, <2>1, <2>2
<1>3. PICK l \in T : \A j \in T : ~(<<j, l>> \in OpToRel(<, Nat))
  BY <1>2, NatLessThanWellFounded, WFMin
<1>4. \A j \in T : ~(j < l)
  BY <1>2, <1>3 DEF OpToRel
<1>5. PICK m \in S : l = n - m
  BY <1>1
<1>6. ASSUME NEW k \in S PROVE k <= m
  <2>1. n - k \in T
    BY <1>1
  <2>2. ~(n - k < n - m)
    BY <1>4, <1>5, <2>1
  <2> QED
    BY <2>2
<1> QED
  BY <1>6

-----------------------------------------------------------------------------
(***************************************************************************)
(* Leases: for any dispatches and any periods of claims and sweeps.        *)
(***************************************************************************)

(* The claim of a running dispatch that the daemon has missed nothing of is    *)
(* fresh, or its next heartbeat comes before the next sweep.  The second is    *)
(* what a restart leaves: the silence of the claim may have any length then.   *)
Fresh(d) == silence <= 1 - beatIn[d]
BeatsFirst(d) == beatIn[d] < sweepIn

LeaseInv ==
  /\ LeaseTypeOK
  /\ \A d \in Dispatches \ missed :
       daemonUp /\ claimant = d /\ Running(d) => Fresh(d) \/ BeatsFirst(d)

\* The initial state: nothing is claimed.
LEMMA LeaseInitInv == LeaseInit => LeaseInv
  BY LeaseConstants DEF LeaseInit, LeaseInv, LeaseTypeOK, Running, Fresh, BeatsFirst

\* Types are kept by every step of dispatches, daemon and time.
LEMMA LeaseTypeStep == LeaseTypeOK /\ [LeaseNext]_leaseVars => LeaseTypeOK'
<1> SUFFICES ASSUME LeaseTypeOK, [LeaseNext]_leaseVars PROVE LeaseTypeOK'
  OBVIOUS
<1> USE LeaseConstants DEF LeaseTypeOK
<1>1. ASSUME NEW d \in Dispatches, RegisterRow(d) PROVE LeaseTypeOK'
  BY <1>1 DEF RegisterRow
<1>2. ASSUME NEW d \in Dispatches, CheckClaim(d) PROVE LeaseTypeOK'
  BY <1>2 DEF CheckClaim
<1>3. ASSUME NEW d \in Dispatches, ClaimRow(d) PROVE LeaseTypeOK'
  BY <1>3 DEF ClaimRow
<1>4. ASSUME NEW d \in Dispatches, Heartbeat(d) PROVE LeaseTypeOK'
  BY <1>4 DEF Heartbeat, Renew
<1>5. ASSUME NEW d \in Dispatches, ChildExits(d) PROVE LeaseTypeOK'
  BY <1>5 DEF ChildExits
<1>6. ASSUME NEW d \in Dispatches, ReleaseLease(d) PROVE LeaseTypeOK'
  BY <1>6 DEF ReleaseLease
<1>7. ASSUME NEW d \in Dispatches, KillDispatch(d) PROVE LeaseTypeOK'
  BY <1>7 DEF KillDispatch
<1>8. CASE SweepClaims \/ UserReleases
  BY <1>8 DEF SweepClaims, UserReleases
<1>12. CASE StopDaemon \/ StartDaemon
  <2>1. sweepIn' \in 0..SweepEvery
    BY <1>12 DEF StopDaemon, StartDaemon, FirstSweep
  <2>2. daemonUp' \in BOOLEAN
    BY <1>12, Zenon DEF StopDaemon, StartDaemon
  <2> QED
    BY <1>12, <2>1, <2>2, Zenon DEF StopDaemon, StartDaemon
<1>9. CASE Tick
  <2>1. \A d \in Dispatches : beatIn'[d] \in 0..1
    BY <1>9 DEF Tick, Running
  <2>2. sweepIn' \in 0..SweepEvery /\ silence' \in 0..(Stale + 1)
    BY <1>9 DEF Tick, Older
  <2> QED
    BY <1>9, <2>1, <2>2 DEF Tick
<1>10. CASE Sleep
  BY <1>10 DEF Sleep
<1>11. CASE UNCHANGED leaseVars
  BY <1>11 DEF leaseVars
<1> QED
  BY <1>1, <1>2, <1>3, <1>4, <1>5, <1>6, <1>7, <1>8, <1>9, <1>10, <1>11, <1>12
  DEF LeaseNext

\* One step, seen by the dispatch that has the claim after it.
LEMMA LeaseInvStep == LeaseInv /\ [LeaseNext]_leaseVars => LeaseInv'
<1> SUFFICES ASSUME LeaseInv, [LeaseNext]_leaseVars PROVE LeaseInv'
  OBVIOUS
<1>t. LeaseTypeOK /\ LeaseTypeOK'
  BY LeaseTypeStep DEF LeaseInv
<1> SUFFICES ASSUME NEW d \in Dispatches \ missed', daemonUp', claimant' = d, Running(d)'
             PROVE  (Fresh(d) \/ BeatsFirst(d))'
  BY <1>t DEF LeaseInv
<1> USE LeaseConstants DEF Fresh, BeatsFirst, Running
<1>i. d \notin missed /\ daemonUp /\ claimant = d /\ Running(d) => Fresh(d) \/ BeatsFirst(d)
  BY DEF LeaseInv
<1>b. beatIn[d] \in 0..1 /\ beatIn'[d] \in 0..1
  BY <1>t DEF LeaseTypeOK
<1>1. ASSUME NEW e \in Dispatches, ClaimRow(e) PROVE (Fresh(d) \/ BeatsFirst(d))'
  <2>1. CASE e = d
    BY <1>1, <1>b, <2>1, <1>i, <1>t DEF ClaimRow, LeaseTypeOK
  <2>2. CASE e # d
    BY <1>1, <1>b, <2>2, <1>i, <1>t DEF ClaimRow, LeaseTypeOK
  <2> QED
    BY <2>1, <2>2
<1>2. ASSUME NEW e \in Dispatches, Heartbeat(e) PROVE (Fresh(d) \/ BeatsFirst(d))'
  \* Served, it makes the claim fresh, whoever sent it.
  BY <1>2, <1>b, <1>i, <1>t DEF Heartbeat, Renew, LeaseTypeOK
<1>3. ASSUME NEW e \in Dispatches,
             RegisterRow(e) \/ CheckClaim(e) \/ ChildExits(e) \/ ReleaseLease(e) \/ KillDispatch(e)
      PROVE (Fresh(d) \/ BeatsFirst(d))'
  BY <1>3, <1>i, <1>t DEF RegisterRow, CheckClaim, ChildExits, ReleaseLease, KillDispatch, LeaseTypeOK
<1>4. CASE SweepClaims
  \* The next sweep is a whole period away.
  BY <1>4, <1>b DEF SweepClaims
<1>5. CASE StartDaemon
  BY <1>5, <1>b DEF StartDaemon, FirstSweep
<1>6. CASE Tick
  \* Both timers advance, and a fresh claim ages with its dispatch's.
  BY <1>6, <1>b, <1>i, <1>t DEF Tick, Older, LeaseTypeOK
<1>7. CASE StopDaemon \/ UserReleases \/ Sleep
  BY <1>7, <1>i, <1>t DEF StopDaemon, UserReleases, Sleep, LeaseTypeOK
<1>8. CASE UNCHANGED leaseVars
  BY <1>8, <1>i DEF leaseVars
<1> QED
  BY <1>1, <1>2, <1>3, <1>4, <1>5, <1>6, <1>7, <1>8 DEF LeaseNext

\* LeaseInv holds throughout.
THEOREM LeaseInvariant == LeaseSpec => []LeaseInv
  BY LeaseInitInv, LeaseInvStep, PTL DEF LeaseSpec

\* Sweeps spare every running dispatch whose heartbeats came through: a restart
\* of the daemon, however late, does not cost it the claim.
THEOREM LiveDispatchesKeepClaims == LeaseSpec => LiveDispatchKeepsClaim
<1>1. ASSUME LeaseInv, [LeaseNext]_leaseVars
      PROVE  [\A d \in Dispatches \ missed :
                SweepClaims /\ claimant = d /\ Running(d) => claimant' = d]_leaseVars
  <2> SUFFICES ASSUME NEW d \in Dispatches \ missed, SweepClaims, claimant = d, Running(d)
               PROVE  claimant' = d
    OBVIOUS
  <2>1. Fresh(d)
    BY <1>1 DEF SweepClaims, LeaseInv, LeaseTypeOK, BeatsFirst
  <2>2. ~IsStale
    BY <1>1, <2>1, LeaseConstants DEF LeaseInv, LeaseTypeOK, Fresh, IsStale
  <2> QED
    BY <2>2 DEF SweepClaims
<1> QED
  BY <1>1, LeaseInvariant, PTL DEF LeaseSpec, LiveDispatchKeepsClaim

-----------------------------------------------------------------------------
(***************************************************************************)
(* Conversations: for any sessions and any number of writings.             *)
(***************************************************************************)

\* A session that nothing else was written beside has found nothing else: what it
\* looks through are its own conversations, and the cache names the one before it
\* or its own.
ConvPrivate ==
  \A s \in Sessions \ shared :
    /\ s \in polling =>
         /\ since[s] \subseteq {own[s]}
         /\ source = "cache" => LastWritten \in {previous[s], own[s]}
    /\ state[s] = "new" => own[s] = None /\ s \notin polling /\ since[s] = {}

\* The invariant.
ConvInv == ConvTypeOK /\ ConvPrivate /\ ConversationsAreOwn

-----------------------------------------------------------------------------
\* The last of some conversations that were written is one of them.
LEMMA LastOfType ==
  ASSUME written \in Seq(Convs), NEW C
  PROVE  LastOf(C) = None \/ LastOf(C) \in Convs \cap C
<1> DEFINE writings == {i \in DOMAIN written : written[i] \in C}
<1>1. Len(written) \in Nat /\ DOMAIN written = 1..Len(written) /\ writings \in SUBSET (1..Len(written))
  OBVIOUS
<1>2. CASE writings = {}
  BY <1>2 DEF LastOf
<1>3. CASE writings # {}
  <2>1. Max(writings) \in writings
    <3> HIDE DEF writings
    <3> QED
      BY <1>1, <1>3, GreatestIsIn
  <2>2. LastOf(C) = written[Max(writings)]
    BY <1>3 DEF LastOf
  <2> QED
    BY <1>1, <2>1, <2>2
<1> QED
  BY <1>2, <1>3

\* There is a last one, once one was written.
LEMMA WrittenHasLast ==
  ASSUME written \in Seq(Convs), written # <<>>
  PROVE  LastWritten \in Convs
<1>1. /\ Len(written) \in Nat /\ Len(written) > 0 /\ DOMAIN written = 1..Len(written)
      /\ \A i \in DOMAIN written : written[i] \in Convs
  OBVIOUS
<1> DEFINE writings == {i \in DOMAIN written : written[i] \in Convs}
<1>2. writings # {} /\ writings \in SUBSET (1..Len(written))
  BY <1>1
<1>3. Max(writings) \in writings
  <2> HIDE DEF writings
  <2> QED
    BY <1>1, <1>2, GreatestIsIn
<1>4. LastWritten = written[Max(writings)]
  BY <1>2 DEF LastWritten, LastOf
<1> QED
  BY <1>3, <1>4

\* The last of all conversations is the one written just now.
LEMMA LastWrittenIsLast ==
  ASSUME written \in Seq(Convs), NEW c \in Convs, written' = Append(written, c)
  PROVE  LastWritten' = c
<1>1. Len(written) \in Nat /\ written' \in Seq(Convs) /\ Len(written') = Len(written) + 1
      /\ written'[Len(written) + 1] = c /\ DOMAIN written' = 1..(Len(written) + 1)
  OBVIOUS
<1> DEFINE writings == {i \in DOMAIN written' : written'[i] \in Convs}
<1>2. writings = 1..(Len(written) + 1)
  BY <1>1
<1>3. Max(writings) \in writings /\ \A y \in writings : y <= Max(writings)
  <2>1. writings \in SUBSET (1..(Len(written) + 1)) /\ writings # {} /\ Len(written) + 1 \in Nat
    BY <1>1, <1>2
  <2> HIDE DEF writings
  <2> QED
    BY <2>1, GreatestIsIn
<1>4. Max(writings) = Len(written) + 1
  <2> HIDE DEF writings
  <2> QED
    BY <1>1, <1>2, <1>3
<1>5. LastWritten' = written'[Max(writings)]
  <2>1. writings # {}
    BY <1>3
  <2> QED
    BY <2>1 DEF LastWritten, LastOf
<1> QED
  BY <1>1, <1>4, <1>5

\* The initial state: at most a conversation of an earlier program is there.
LEMMA ConvInitInv == ConvInit => ConvInv
<1> SUFFICES ASSUME ConvInit PROVE ConvInv
  OBVIOUS
<1>1. written \in Seq(Convs)
  <2>1. CASE written = <<>>
    BY <2>1
  <2>2. CASE written # <<>>
    <3>1. PICK c \in Foreign : written = <<c>>
      BY <2>2 DEF ConvInit
    <3> QED
      BY <3>1 DEF Convs
  <2> QED
    BY <2>1, <2>2
<1> QED
  BY <1>1 DEF ConvInit, ConvInv, ConvTypeOK, ConvPrivate, ConversationsAreOwn

\* A conversation is written: who looks for another's is told apart by `shared'.
LEMMA WrittenKeeps ==
  ASSUME ConvInv, NEW c \in Convs, NEW s \in Sessions \cup {None}, Written(c, s),
         s \in Sessions => state[s] = "live" /\ (own[s] = None \/ own[s] = c) /\ own' = [own EXCEPT ![s] = c],
         s \notin Sessions => own' = own,
         UNCHANGED <<source, state, previous, polling, record, row>>
  PROVE  ConvInv'
<1> USE DEF ConvInv
<1>1. written' \in Seq(Convs) /\ LastWritten' = c
  BY LastWrittenIsLast DEF Written, ConvTypeOK
<1>2. ConvTypeOK'
  BY <1>1 DEF ConvTypeOK, Written
<1>3. ASSUME NEW o \in Sessions \ shared'
      PROVE  /\ o \in Sessions \ shared /\ (o \in polling => o = s)
             /\ o # s => own'[o] = own[o] /\ since'[o] = since[o]
             /\ o = s => own'[o] = c /\ since'[o] \subseteq since[o] \cup {c} /\ state[o] = "live"
             /\ own[o] \in {None, own'[o]}
  BY <1>3 DEF Written, ConvTypeOK
<1>4. \A o \in Sessions : since[o] \subseteq Convs /\ None \notin Convs
  BY ConversationConstants DEF ConvTypeOK, Convs
<1>5. ConvPrivate'
  <2> SUFFICES ASSUME NEW o \in Sessions \ shared'
               PROVE  /\ o \in polling' => since'[o] \subseteq {own'[o]}
                                           /\ (source' = "cache" => LastWritten' \in {previous'[o], own'[o]})
                      /\ state'[o] = "new" => own'[o] = None /\ o \notin polling' /\ since'[o] = {}
    BY DEF ConvPrivate
  <2>1. CASE o = s
    BY <1>1, <1>3, <1>4, <2>1 DEF ConvPrivate
  <2>2. CASE o # s
    BY <1>3, <2>2 DEF ConvPrivate
  <2> QED
    BY <2>1, <2>2
<1>6. ConversationsAreOwn'
  BY <1>3 DEF ConversationsAreOwn
<1> QED
  BY <1>2, <1>5, <1>6

\* Every step keeps the invariant.
LEMMA ConvInductive == ConvInv /\ [ConvNext]_convVars => ConvInv'
<1> SUFFICES ASSUME ConvInv, [ConvNext]_convVars PROVE ConvInv'
  OBVIOUS
<1> USE DEF ConvInv
<1>0. None \notin Convs /\ Sessions \subseteq Convs /\ None \notin Sessions /\ written \in Seq(Convs)
  BY ConversationConstants DEF Convs, ConvTypeOK
<1>1. ASSUME NEW s \in Sessions, Launch(s) PROVE ConvInv'
  <2>1. LastWritten = None \/ LastWritten \in Convs
    BY <1>0, LastOfType DEF LastWritten
  <2>2. LastWritten' = LastWritten
    BY <1>1 DEF Launch, LastWritten, LastOf
  <2>3. written # <<>> => LastWritten \in Convs
    BY <1>0, WrittenHasLast
  <2>4. ConvTypeOK'
    BY <1>1, <2>1, <2>3 DEF Launch, ConvTypeOK
  <2>5. ConvPrivate'
    BY <1>1, <2>2 DEF Launch, ConvPrivate, ConvTypeOK
  <2>6. ConversationsAreOwn'
    BY <1>1 DEF Launch, ConversationsAreOwn
  <2> QED
    BY <2>4, <2>5, <2>6
<1>2. ASSUME NEW s \in Sessions, NEW prior \in Sessions, Resume(s, prior) PROVE ConvInv'
  <2>1. LastWritten' = LastWritten
    BY <1>2 DEF Resume, LastWritten, LastOf
  <2>2. ConvTypeOK'
    BY <1>2 DEF Resume, ConvTypeOK
  <2> QED
    BY <1>2, <2>1, <2>2 DEF Resume, ConvPrivate, ConversationsAreOwn, ConvTypeOK
<1>3. ASSUME NEW s \in Sessions, CliBegins(s) PROVE ConvInv'
  BY <1>0, <1>3, WrittenKeeps DEF CliBegins
<1>4. ASSUME NEW c \in Convs, NEW s \in Sessions \cup {None}, CliGoesOn(c, s) PROVE ConvInv'
  <2>1. CASE s \in Sessions
    <3>1. own' = [own EXCEPT ![s] = c]
      BY <1>0, <1>4, <2>1 DEF CliGoesOn, ConvTypeOK
    <3> QED
      BY <1>0, <1>4, <2>1, <3>1, WrittenKeeps DEF CliGoesOn
  <2>2. CASE s \notin Sessions
    BY <1>4, <2>2, WrittenKeeps DEF CliGoesOn
  <2> QED
    BY <2>1, <2>2
<1>5. ASSUME NEW s \in Sessions, Poll(s) PROVE ConvInv'
  <2>1. LastWritten' = LastWritten
    BY <1>5 DEF Poll, LastWritten, LastOf
  <2>2. Read(s) \in Convs
    BY <1>0, <1>5, LastOfType DEF Poll, News, Read, LastWritten
  <2>3. s \notin shared => Read(s) = own[s]
    <3>1. CASE source = "cache"
      BY <1>5, <3>1 DEF Poll, News, Read, ConvPrivate
    <3>2. CASE source # "cache"
      <4>1. Read(s) = LastOf(since[s])
        BY <3>2 DEF Read
      <4>2. Read(s) \in since[s]
        BY <1>0, <2>2, <4>1, LastOfType
      <4> QED
        BY <1>5, <4>2 DEF Poll, ConvPrivate
    <3> QED
      BY <3>1, <3>2
  <2>4. ConvTypeOK'
    BY <1>5, <2>2 DEF Poll, ConvTypeOK
  <2>5. ConvPrivate'
    BY <1>5, <2>1 DEF Poll, ConvPrivate
  <2>6. ConversationsAreOwn'
    BY <1>5, <2>3 DEF Poll, ConversationsAreOwn, ConvTypeOK
  <2> QED
    BY <2>4, <2>5, <2>6
<1>6. ASSUME NEW s \in Sessions, StopPolling(s) PROVE ConvInv'
  <2>1. LastWritten' = LastWritten
    BY <1>6 DEF StopPolling, LastWritten, LastOf
  <2> QED
    BY <1>6, <2>1 DEF StopPolling, ConvPrivate, ConversationsAreOwn, ConvTypeOK
<1>7. ASSUME NEW s \in Sessions, Report(s) PROVE ConvInv'
  <2>1. LastWritten' = LastWritten
    BY <1>7 DEF Report, LastWritten, LastOf
  <2> QED
    BY <1>7, <2>1 DEF Report, ConvPrivate, ConversationsAreOwn, ConvTypeOK
<1>8. ASSUME NEW s \in Sessions, SessionExits(s) PROVE ConvInv'
  <2>1. LastWritten' = LastWritten
    BY <1>8 DEF SessionExits, LastWritten, LastOf
  <2> QED
    BY <1>8, <2>1 DEF SessionExits, ConvPrivate, ConversationsAreOwn, ConvTypeOK
<1>9. CASE UNCHANGED convVars
  <2>1. LastWritten' = LastWritten
    BY <1>9 DEF convVars, LastWritten, LastOf
  <2> QED
    BY <1>9, <2>1 DEF convVars, ConvPrivate, ConversationsAreOwn, ConvTypeOK
<1> QED
  BY <1>1, <1>2, <1>3, <1>4, <1>5, <1>6, <1>7, <1>8, <1>9 DEF ConvNext

\* For any sessions and writings, and both sources of the id: what a session that
\* is alone in its directory looks through.
THEOREM ConvInvariant == ConvSpec => []ConvInv
  BY ConvInitInv, ConvInductive, PTL DEF ConvSpec

\* pty-host.ts:202-210: in every state of every instance, a session that was alone
\* in its directory has the id of its own conversation, or none.
THEOREM FoundIdsAreOwn == ConvSpec => []ConversationsAreOwn
<1>1. ConvInv => ConversationsAreOwn
  BY DEF ConvInv
<1> QED
  BY <1>1, ConvInvariant, PTL

-----------------------------------------------------------------------------
(***************************************************************************)
(* Inbox: for any number of notifications and terminals.                   *)
(***************************************************************************)

\* What the inbox was shown, and what it asked to acknowledge, was raised.
SeenIsRaised ==
  /\ seen \subseteq DOMAIN notifications
  /\ listed \subseteq seen /\ acks \subseteq seen
  /\ \A list \in replies : list \subseteq DOMAIN notifications

\* The invariant: with the types, what the acknowledgements rest on.
InboxInv == InboxTypeOK /\ SeenIsRaised /\ AckedWasSeen

\* Rows of the two tables.
NoteRecords == [session : Raisers, kind : {"notify", "hooks-missing"},
                acknowledged : BOOLEAN, superseded : BOOLEAN]
RowRecords == [session : Raisers, overdue : BOOLEAN, confirmed : BOOLEAN, warned : BOOLEAN]

\* The terminal of a session is a row of the table, or there is none.
LEMMA TerminalOfType ==
  ASSUME InboxTypeOK, NEW r PROVE TerminalOf(r) \in TerminalIds \cup {NoTerminal}
<1> DEFINE rows == {t \in DOMAIN terminals : terminals[t].session = r}
<1>1. CASE rows = {}
  BY <1>1 DEF TerminalOf
<1>2. CASE rows # {}
  <2>1. Len(terminals) \in Nat /\ rows \subseteq 1..Len(terminals)
    BY DEF InboxTypeOK
  <2>2. Max(rows) \in rows
    BY <1>2, <2>1, GreatestIsIn
  <2> QED
    BY <2>1, <2>2, <1>2, InboxBounds DEF InboxTypeOK, TerminalOf, TerminalIds
<1> QED
  BY <1>1, <1>2

\* A notification stays one when it is superseded or acknowledged.
LEMMA NoteChanges ==
  ASSUME NEW n \in NoteRecords
  PROVE  /\ [n EXCEPT !.superseded = TRUE] \in NoteRecords
         /\ [n EXCEPT !.superseded = TRUE].acknowledged = n.acknowledged
         /\ [n EXCEPT !.acknowledged = TRUE] \in NoteRecords
  BY DEF NoteRecords

\* A row of a terminal stays one when a mark of it is set.
LEMMA RowChanges ==
  ASSUME NEW t \in RowRecords
  PROVE  /\ [t EXCEPT !.confirmed = TRUE] \in RowRecords
         /\ [t EXCEPT !.warned = TRUE] \in RowRecords
         /\ [t EXCEPT !.overdue = TRUE] \in RowRecords
  BY DEF RowRecords

\* To supersede a session's notifications acknowledges none of them.
LEMMA SupersedeKeeps ==
  ASSUME NEW ns \in Seq(NoteRecords), NEW r
  PROVE  /\ Supersede(ns, r) \in Seq(NoteRecords) /\ Len(Supersede(ns, r)) = Len(ns)
         /\ \A i \in DOMAIN ns : Supersede(ns, r)[i].acknowledged = ns[i].acknowledged
<1>0. DOMAIN ns = 1..Len(ns) /\ Len(ns) \in Nat /\ \A i \in DOMAIN ns : ns[i] \in NoteRecords
  OBVIOUS
<1>1. ASSUME NEW i \in DOMAIN ns
      PROVE  /\ Supersede(ns, r)[i] \in NoteRecords
             /\ Supersede(ns, r)[i].acknowledged = ns[i].acknowledged
  <2>1. Supersede(ns, r)[i] \in {ns[i], [ns[i] EXCEPT !.superseded = TRUE]}
    BY DEF Supersede
  <2> QED
    BY <2>1, <1>0, NoteChanges
<1>2. DOMAIN Supersede(ns, r) = 1..Len(ns) /\ Supersede(ns, r) = [i \in DOMAIN ns |-> Supersede(ns, r)[i]]
  BY <1>0 DEF Supersede
<1>3. Supersede(ns, r) \in [1..Len(ns) -> NoteRecords]
  <2> HIDE DEF NoteRecords
  <2> QED
    BY <1>0, <1>1, <1>2
<1> QED
  BY <1>0, <1>1, <1>3

\* The initial state: nothing was raised.
LEMMA InboxInitInv == InboxInit => InboxInv
<1> SUFFICES ASSUME InboxInit PROVE InboxInv
  OBVIOUS
<1> USE InboxBounds DEF InboxInit
<1>1. InboxTypeOK
  BY DEF InboxTypeOK
<1>2. SeenIsRaised /\ AckedWasSeen
  BY DEF SeenIsRaised, AckedWasSeen
<1> QED
  BY <1>1, <1>2 DEF InboxInv

\* A notification more.
LEMMA MoreNotes ==
  ASSUME InboxInv, NEW ns \in Seq(NoteRecords), Len(ns) = Len(notifications), NEW n \in NoteRecords,
         \A i \in DOMAIN notifications : ns[i].acknowledged = notifications[i].acknowledged,
         ~n.acknowledged, Len(notifications) < MaxNotes, notifications' = Append(ns, n),
         terminals' \in Seq(RowRecords), Len(terminals') <= MaxTerminals,
         UNCHANGED <<listed, replies, acks, found, active, seen>>
  PROVE  InboxInv'
<1> USE DEF InboxInv
<1>1. notifications' \in Seq(NoteRecords) /\ Len(notifications') = Len(notifications) + 1
  BY DEF InboxTypeOK, NoteRecords
<1>2. InboxTypeOK'
  BY <1>1, InboxBounds DEF InboxTypeOK, NoteRecords, RowRecords
<1>3. DOMAIN notifications \subseteq DOMAIN notifications'
  BY <1>1 DEF InboxTypeOK
<1>4. SeenIsRaised'
  BY <1>3 DEF SeenIsRaised
<1>5. \A i \in DOMAIN notifications' :
        notifications'[i].acknowledged => i \in DOMAIN notifications /\ notifications[i].acknowledged
  BY <1>1 DEF InboxTypeOK
<1> QED
  BY <1>2, <1>4, <1>5 DEF AckedWasSeen

\* Every step keeps the invariant.
LEMMA InboxInductive == InboxInv /\ [InboxNext]_inboxVars => InboxInv'
<1> SUFFICES ASSUME InboxInv, [InboxNext]_inboxVars PROVE InboxInv'
  OBVIOUS
<1> USE DEF InboxInv
<1>0. /\ notifications \in Seq(NoteRecords) /\ terminals \in Seq(RowRecords)
      /\ Len(notifications) \in Nat /\ Len(terminals) \in Nat
      /\ MaxNotes \in Nat /\ MaxTerminals \in Nat
  BY InboxBounds DEF InboxTypeOK, NoteRecords, RowRecords
<1>1. ASSUME NEW r \in Raisers, Notify(r) PROVE InboxInv'
  <2>1. Note(r, "notify") \in NoteRecords /\ ~Note(r, "notify").acknowledged
    BY DEF Note, NoteRecords
  <2> QED
    BY <1>0, <1>1, <2>1, SupersedeKeeps, MoreNotes DEF Notify, Notified, InboxTypeOK
<1>2. ASSUME NEW r \in Raisers, LaunchAgent(r) PROVE InboxInv'
  BY <1>0, <1>2 DEF LaunchAgent, InboxTypeOK, SeenIsRaised, AckedWasSeen, RowRecords
<1>3. ASSUME NEW r \in Raisers, HookConfirm(r) PROVE InboxInv'
  <2>1. \A t \in 1..Len(terminals) : terminals[t] \in RowRecords
    BY <1>0
  <2>2. terminals' \in [1..Len(terminals) -> RowRecords]
    <3>1. DOMAIN terminals' = 1..Len(terminals)
          /\ terminals' = [t \in DOMAIN terminals |-> terminals'[t]]
      BY <1>0, <1>3 DEF HookConfirm
    <3>2. ASSUME NEW t \in 1..Len(terminals) PROVE terminals'[t] \in RowRecords
      <4>1. terminals'[t] \in {terminals[t], [terminals[t] EXCEPT !.confirmed = TRUE]}
        BY <1>0, <1>3 DEF HookConfirm
      <4> QED
        BY <2>1, <4>1, RowChanges
    <3> QED
      BY <3>1, <3>2, <1>0
  <2>3. terminals' \in Seq(RowRecords) /\ Len(terminals') = Len(terminals)
    BY <1>0, <2>2
  <2> QED
    BY <1>0, <1>3, <2>3 DEF HookConfirm, InboxTypeOK, SeenIsRaised, AckedWasSeen, RowRecords
<1>4. ASSUME NEW t \in DOMAIN terminals, GracePasses(t) PROVE InboxInv'
  <2>1. terminals' \in Seq(RowRecords) /\ Len(terminals') = Len(terminals)
    <3>1. terminals[t] \in RowRecords
      BY <1>0
    <3> DEFINE entry == [terminals[t] EXCEPT !.overdue = TRUE]
    <3>2. entry \in RowRecords /\ terminals' = [terminals EXCEPT ![t] = entry]
      BY <1>4, <3>1, RowChanges DEF GracePasses
    <3> HIDE DEF entry
    <3> QED
      BY <1>0, <3>2
  <2> QED
    BY <1>0, <1>4, <2>1 DEF GracePasses, InboxTypeOK, SeenIsRaised, AckedWasSeen, RowRecords
<1>5. CASE CheckHookHealth
  <2>0. \A t \in 1..Len(terminals) : terminals[t] \in RowRecords
    BY <1>0
  <2>1. terminals' \in [1..Len(terminals) -> RowRecords]
    <3>1. DOMAIN terminals' = 1..Len(terminals)
          /\ terminals' = [t \in DOMAIN terminals |-> terminals'[t]]
      BY <1>0, <1>5 DEF CheckHookHealth
    <3>2. ASSUME NEW t \in 1..Len(terminals) PROVE terminals'[t] \in RowRecords
      <4>1. terminals'[t] \in {terminals[t], [terminals[t] EXCEPT !.warned = TRUE]}
        BY <1>0, <1>5 DEF CheckHookHealth
      <4> QED
        BY <2>0, <4>1, RowChanges
    <3> QED
      BY <3>1, <3>2, <1>0
  <2>2. terminals' \in Seq(RowRecords) /\ Len(terminals') = Len(terminals)
    BY <1>0, <2>1
  <2>3. CASE AlreadyOpen
    BY <1>0, <1>5, <2>2, <2>3 DEF CheckHookHealth, InboxTypeOK, SeenIsRaised, AckedWasSeen, RowRecords
  <2>4. CASE ~AlreadyOpen
    <3>1. Min(Offenders) \in DOMAIN terminals
      <4>1. Offenders \in SUBSET Nat /\ Offenders # {} /\ Offenders \subseteq DOMAIN terminals
        BY <1>0, <1>5 DEF CheckHookHealth, Offenders
      <4> QED
        BY <4>1, LeastOfNaturals
    <3> DEFINE n == Note(terminals[Min(Offenders)].session, "hooks-missing")
    <3>2. n \in NoteRecords /\ ~n.acknowledged
      <4>1. terminals[Min(Offenders)] \in RowRecords
        BY <1>0, <3>1
      <4>2. terminals[Min(Offenders)].session \in Raisers
        BY <4>1 DEF RowRecords
      <4> QED
        BY <4>2 DEF Note, NoteRecords
    <3>3. notifications' = Append(notifications, n) /\ Len(notifications) < MaxNotes
      BY <1>5, <2>4 DEF CheckHookHealth
    <3> HIDE DEF n
    <3> QED
      BY <1>0, <1>5, <2>2, <3>2, <3>3, MoreNotes DEF CheckHookHealth, InboxTypeOK
  <2> QED
    BY <2>3, <2>4
<1>6. CASE ReadInbox
  <2>1. ActiveNotes \subseteq DOMAIN notifications /\ DOMAIN notifications \subseteq NoteIds
    BY <1>0 DEF ActiveNotes, NoteIds, InboxTypeOK
  <2>2. InboxTypeOK'
    BY <1>6, <2>1 DEF ReadInbox, InboxTypeOK
  <2> QED
    BY <1>6, <2>1, <2>2 DEF ReadInbox, SeenIsRaised, AckedWasSeen
<1>7. CASE Dwell
  <2>1. AutoAckIds \subseteq listed /\ AutoAckIds \subseteq 1..MaxNotes /\ AutoAckIds # {}
    BY <1>7 DEF Dwell, AutoAckIds, InboxTypeOK, NoteIds
  <2>2. Max(AutoAckIds) \in listed
    BY <1>0, <2>1, GreatestIsIn
  <2> QED
    BY <1>7, <2>2 DEF Dwell, Acknowledge, InboxTypeOK, SeenIsRaised, AckedWasSeen
<1>8. ASSUME NEW i \in acks, AckArrives(i) PROVE InboxInv'
  <2>1. i \in DOMAIN notifications /\ i \in seen
    BY DEF SeenIsRaised
  <2>2. /\ notifications' \in Seq(NoteRecords) /\ DOMAIN notifications' = DOMAIN notifications
        /\ Len(notifications') = Len(notifications)
        /\ \A j \in DOMAIN notifications :
             j # i => notifications'[j].acknowledged = notifications[j].acknowledged
    <3> DEFINE n == [notifications[i] EXCEPT !.acknowledged = TRUE]
    <3>1. notifications[i] \in NoteRecords
      BY <1>0, <2>1
    <3>2. n \in NoteRecords /\ notifications' \in {notifications, [notifications EXCEPT ![i] = n]}
      BY <1>8, <3>1, NoteChanges DEF AckArrives, Acknowledged
    <3> HIDE DEF n, NoteRecords
    <3> QED
      BY <1>0, <2>1, <3>2
  <2>3. InboxTypeOK'
    BY <1>8, <2>2 DEF AckArrives, InboxTypeOK, NoteRecords
  <2> QED
    BY <1>8, <2>1, <2>2, <2>3 DEF AckArrives, SeenIsRaised, AckedWasSeen
<1>9. ASSUME NEW list \in replies, ShowInbox(list) PROVE InboxInv'
  <2> DEFINE met == DOMAIN found \cup {notifications[i].session : i \in list}
  <2>1. met \subseteq Raisers
    <3>1. \A i \in list : i \in DOMAIN notifications
      BY DEF SeenIsRaised
    <3>2. \A i \in DOMAIN notifications : notifications[i].session \in Raisers
      <4>1. \A i \in DOMAIN notifications : notifications[i] \in NoteRecords
        BY <1>0
      <4> QED
        BY <4>1 DEF NoteRecords
    <3>3. DOMAIN found \subseteq Raisers
      BY DEF InboxTypeOK
    <3> QED
      BY <3>1, <3>2, <3>3
  <2>2. found' = [r \in met |-> IF r \in DOMAIN found THEN found[r] ELSE TerminalOf(r)]
    BY <1>9 DEF ShowInbox
  <2>3. \A r \in met : found'[r] \in TerminalIds \cup {NoTerminal}
    BY <2>2, TerminalOfType DEF InboxTypeOK
  <2>4. InboxTypeOK'
    BY <1>9, <2>1, <2>2, <2>3 DEF ShowInbox, InboxTypeOK
  <2> QED
    BY <1>9, <2>4 DEF ShowInbox, SeenIsRaised, AckedWasSeen
<1>10. ASSUME NEW t \in TerminalIds \cup {NoTerminal}, Focus(t) PROVE InboxInv'
  BY <1>10 DEF Focus, InboxTypeOK, SeenIsRaised, AckedWasSeen
<1>11. ASSUME NEW i \in listed, Acknowledge(i) PROVE InboxInv'
  BY <1>11 DEF Acknowledge, InboxTypeOK, SeenIsRaised, AckedWasSeen
<1>12. CASE UNCHANGED inboxVars
  BY <1>12 DEF inboxVars, InboxTypeOK, SeenIsRaised, AckedWasSeen
<1> QED
  BY <1>1, <1>2, <1>3, <1>4, <1>5, <1>6, <1>7, <1>8, <1>9, <1>10, <1>11, <1>12 DEF InboxNext

\* For any number of notifications, terminals and replies under way: the types,
\* and that nothing is shown, listed or acknowledged that was not raised.
THEOREM InboxInvariant == InboxSpec => []InboxInv
  BY InboxInitInv, InboxInductive, PTL DEF InboxSpec

\* App.tsx, ack and autoAckId: in every state of every instance, what is
\* acknowledged was in the inbox before.
THEOREM AcksAreOfTheSeen == InboxSpec => []AckedWasSeen
<1>1. InboxInv => AckedWasSeen
  BY DEF InboxInv
<1> QED
  BY <1>1, InboxInvariant, PTL

-----------------------------------------------------------------------------
(***************************************************************************)
(* Pipeline: for any calls, entries, names and number of workers.          *)
(***************************************************************************)

(* The invariant. *)

\* The states of a call.
Stages == {"idle", "queued", "getRepo", "getSteps", "getPrs", "postRepo", "postStep", "act"} \cup Settled
CallStates == [at : Stages, repo : Nat, step : Nat, pr : Nat]

\* Rows have ids that were given out, and orders below the last of these.
RowsOK(d) ==
  /\ d = [steps |-> d.steps, repos |-> d.repos, prs |-> d.prs, last |-> d.last] /\ d.last \in Nat
  /\ \A s \in d.steps : /\ s = [id |-> s.id, name |-> s.name, order |-> s.order]
                        /\ s.id \in 1..d.last /\ s.order \in Nat /\ s.order < d.last
  /\ \A r \in d.repos : r = [id |-> r.id, name |-> r.name, pinned |-> r.pinned] /\ r.id \in 1..d.last
  /\ \A r, q \in d.repos : r.id = q.id => r.name = q.name
  /\ \A p \in d.prs : /\ p = [id |-> p.id, repo |-> p.repo, step |-> p.step, number |-> p.number]
                      /\ p.id \in 1..d.last

\* The ids found were given out, and a repository found has the name asked for
\* as long as it is there.
FoundOK(d, x, w) ==
  /\ w.repo <= d.last /\ w.step <= d.last /\ w.pr <= d.last
  /\ \A r \in d.repos : r.id = w.repo => r.name = x.repo

\* What a request needs was found before.
StageOK(x, w) ==
  /\ w.at = "getPrs" => x.tool = "unregister_pr"
  /\ w.at = "act" /\ x.tool \in {"register_pr", "pin_repo"} => w.repo # 0
  /\ w.at = "act" /\ x.tool = "unregister_pr" => w.pr # 0
  /\ w.at \in {"getSteps", "postStep"} => x.tool \notin {"unregister_pr", "pin_repo"}
  /\ w.at \in {"getSteps", "postStep"} /\ x.tool = "register_pr" => w.repo # 0 /\ x.step # NoStepName
  /\ w.at = "act" /\ x.tool = "register_pr" /\ x.step # NoStepName => w.step # 0

\* Holds and Registered, of an entry x with state w.
HoldsIn(d, x, w) ==
  /\ w.repo # 0 => w.repo \in Ids(d.repos)
  /\ w.step # 0 => \E s \in d.steps : s.id = w.step /\ Lower[s.name] = Lower[x.step]
  /\ w.pr # 0 => w.pr \in Ids(d.prs)
RegisteredIn(d, x, w) ==
  \E p \in d.prs : /\ p.repo = w.repo /\ p.number = x.number
                   /\ x.step # NoStepName => p.step = w.step

\* What BatchesAreHonest says of an entry, and that what it found is there.
EntryOK(d, x, w) ==
  /\ w.at # "failed"
  /\ HoldsIn(d, x, w) \/ (w.at = "ok" /\ x.tool \in {"delete_step", "unregister_pr"})
  /\ w.at = "ok" /\ x.tool = "register_pr" => RegisteredIn(d, x, w)

\* The invariant.
PipeInv ==
  /\ doing \in [Entries -> CallStates] /\ RowsOK(db) /\ excused \subseteq Entries
  /\ \A e \in Entries : FoundOK(db, asked[e], doing[e]) /\ StageOK(asked[e], doing[e])
  /\ \A q \in late : /\ q.entry \in excused /\ q.request \in CallStates
                     /\ FoundOK(db, asked[q.entry], q.request)
  /\ \A e \in Entries \ excused : EntryOK(db, asked[e], doing[e])

-----------------------------------------------------------------------------
(* Lookups. *)

\* A lookup of a step finds one of that name, or there is none.
LEMMA StepIdIs ==
  ASSUME NEW d, RowsOK(d), NEW name
  PROVE  \/ /\ StepId(d, name) \in 1..d.last
            /\ \E s \in d.steps : s.id = StepId(d, name) /\ Lower[s.name] = Lower[name]
         \/ StepId(d, name) = 0 /\ ~\E s \in d.steps : Lower[s.name] = Lower[name]
  BY DEF RowsOK, StepId

\* The same for a repository.
LEMMA RepoIdIs ==
  ASSUME NEW d, RowsOK(d), NEW name
  PROVE  \/ RepoId(d, name) \in 1..d.last /\ \E r \in d.repos : r.id = RepoId(d, name) /\ r.name = name
         \/ RepoId(d, name) = 0 /\ ~\E r \in d.repos : r.name = name
  BY DEF RowsOK, RepoId

\* The same for a PR.
LEMMA PrIdIs ==
  ASSUME NEW d, RowsOK(d), NEW repo, NEW number
  PROVE  \/ /\ PrId(d, repo, number) \in 1..d.last
            /\ \E p \in d.prs : p.id = PrId(d, repo, number) /\ p.repo = repo /\ p.number = number
         \/ PrId(d, repo, number) = 0 /\ ~\E p \in d.prs : p.repo = repo /\ p.number = number
  BY DEF RowsOK, PrId

\* The order of a new step is one that no step has.
LEMMA StepOrderIsNew ==
  ASSUME NEW d, RowsOK(d)
  PROVE  StepOrder(d) \in Nat /\ StepOrder(d) <= d.last /\ \A s \in d.steps : s.order # StepOrder(d)
<1>1. CASE d.steps = {}
  BY <1>1 DEF StepOrder, RowsOK
<1>2. CASE d.steps # {}
  <2>1. PICK S : S = {s.order : s \in d.steps}
    OBVIOUS
  <2>2. d.last \in Nat /\ S \in SUBSET (0..d.last) /\ S # {}
    BY <1>2, <2>1 DEF RowsOK
  <2>3. PICK m \in S : \A k \in S : k <= m
    BY <2>2, GreatestOfBounded
  <2>4. \E s \in d.steps : \A t \in d.steps : t.order <= s.order
    BY <2>1, <2>3
  <2>5. PICK g : g = CHOOSE s \in d.steps : \A t \in d.steps : t.order <= s.order
    OBVIOUS
  <2>6. g \in d.steps /\ \A t \in d.steps : t.order <= g.order
    BY <2>4, <2>5
  <2>7. StepOrder(d) = g.order + 1
    BY <1>2, <2>5 DEF StepOrder
  <2>8. \A t \in d.steps : t.order \in Nat /\ t.order < d.last
    BY DEF RowsOK
  <2> QED
    BY <2>2, <2>6, <2>7, <2>8
<1> QED
  BY <1>1, <1>2

-----------------------------------------------------------------------------
(* What requests make of the database. *)

\* Ids are not used again, and repositories keep their names.
Evolves(d, n) ==
  /\ RowsOK(n) /\ d.last <= n.last
  /\ \A r \in n.repos : r.id <= d.last => \E o \in d.repos : o.id = r.id /\ o.name = r.name

\* POST /steps makes the step, or it is there.
LEMMA WithStepHas ==
  ASSUME NEW d, RowsOK(d), NEW name
  PROVE  /\ Evolves(d, WithStep(d, name))
         /\ WithStep(d, name).repos = d.repos /\ WithStep(d, name).prs = d.prs
         /\ d.steps \subseteq WithStep(d, name).steps
         /\ StepId(WithStep(d, name), name) # 0
<1>1. StepOrder(d) \in Nat /\ StepOrder(d) <= d.last /\ \A s \in d.steps : s.order # StepOrder(d)
  BY StepOrderIsNew
<1>2. CASE StepId(d, name) # 0
  <2>1. WithStep(d, name) = d
    BY <1>2 DEF WithStep
  <2> QED
    BY <1>2, <2>1 DEF Evolves, RowsOK
<1>3. CASE StepId(d, name) = 0
  <2>1. PICK fresh : fresh = [id |-> d.last + 1, name |-> name, order |-> StepOrder(d)]
    OBVIOUS
  <2>2. PICK n : n = WithStep(d, name)
    OBVIOUS
  <2>3. n = [d EXCEPT !.steps = d.steps \cup {fresh}, !.last = d.last + 1]
    BY <1>1, <1>3, <2>1, <2>2 DEF WithStep, RowsOK
  <2>4. /\ n = [steps |-> n.steps, repos |-> n.repos, prs |-> n.prs, last |-> n.last]
        /\ n.steps = d.steps \cup {fresh} /\ n.repos = d.repos /\ n.prs = d.prs /\ n.last = d.last + 1
    BY <2>3 DEF RowsOK
  <2>5. /\ fresh = [id |-> fresh.id, name |-> fresh.name, order |-> fresh.order] /\ fresh.name = name
        /\ fresh.id \in 1..n.last /\ fresh.order \in Nat /\ fresh.order < n.last
    BY <1>1, <2>1, <2>4 DEF RowsOK
  <2>6. d.last \in Nat /\ \A i \in 1..d.last : i \in 1..n.last
    BY <2>4 DEF RowsOK
  <2>7. \A s \in d.steps : s = [id |-> s.id, name |-> s.name, order |-> s.order] /\ s.id \in 1..n.last
                            /\ s.order \in Nat /\ s.order < n.last
    BY <2>4, <2>6 DEF RowsOK
  <2>8. RowsOK(n)
    BY <2>4, <2>5, <2>6, <2>7 DEF RowsOK
  <2>9. StepId(n, name) # 0
    <3>1. \E s \in n.steps : Lower[s.name] = Lower[name]
      BY <2>4, <2>5
    <3> QED
      BY <2>8, <3>1, StepIdIs
  <2>10. d.last <= n.last
    BY <2>4, <2>6
  <2> QED
    BY <2>2, <2>4, <2>8, <2>9, <2>10 DEF Evolves
<1> QED
  BY <1>2, <1>3

\* POST /repos makes the repository, or it is there.
LEMMA WithRepoHas ==
  ASSUME NEW d, RowsOK(d), NEW name
  PROVE  /\ Evolves(d, WithRepo(d, name))
         /\ WithRepo(d, name).steps = d.steps /\ WithRepo(d, name).prs = d.prs
         /\ d.repos \subseteq WithRepo(d, name).repos
         /\ RepoId(WithRepo(d, name), name) # 0
<1>2. CASE RepoId(d, name) # 0
  <2>1. WithRepo(d, name) = d
    BY <1>2 DEF WithRepo
  <2> QED
    BY <1>2, <2>1 DEF Evolves, RowsOK
<1>3. CASE RepoId(d, name) = 0
  <2>1. PICK fresh : fresh = [id |-> d.last + 1, name |-> name, pinned |-> FALSE]
    OBVIOUS
  <2>2. PICK n : n = WithRepo(d, name)
    OBVIOUS
  <2>3. n = [d EXCEPT !.repos = d.repos \cup {fresh}, !.last = d.last + 1]
    BY <1>3, <2>1, <2>2 DEF WithRepo, RowsOK
  <2>4. /\ n = [steps |-> n.steps, repos |-> n.repos, prs |-> n.prs, last |-> n.last]
        /\ n.repos = d.repos \cup {fresh} /\ n.steps = d.steps /\ n.prs = d.prs /\ n.last = d.last + 1
    BY <2>3 DEF RowsOK
  <2>5. /\ fresh = [id |-> fresh.id, name |-> fresh.name, pinned |-> fresh.pinned] /\ fresh.name = name
        /\ fresh.id = d.last + 1 /\ fresh.id \in 1..n.last
    BY <2>1, <2>4 DEF RowsOK
  <2>6. d.last \in Nat /\ d.last <= n.last /\ d.last < n.last /\ \A i \in 1..d.last : i \in 1..n.last /\ i # d.last + 1
    BY <2>4 DEF RowsOK
  <2>7. \A s \in d.steps : s = [id |-> s.id, name |-> s.name, order |-> s.order] /\ s.id \in 1..n.last
                            /\ s.order \in Nat /\ s.order < n.last
    BY <2>4, <2>6 DEF RowsOK
  <2>8. \A r \in d.repos : r = [id |-> r.id, name |-> r.name, pinned |-> r.pinned] /\ r.id \in 1..n.last /\ r.id # fresh.id
    BY <2>5, <2>6 DEF RowsOK
  <2>9. \A r, q \in n.repos : r.id = q.id => r.name = q.name
    BY <2>4, <2>8 DEF RowsOK
  <2>10. RowsOK(n)
    <3>1. \A p \in n.prs : /\ p = [id |-> p.id, repo |-> p.repo, step |-> p.step, number |-> p.number]
                           /\ p.id \in 1..n.last
      BY <2>4, <2>6 DEF RowsOK
    <3> QED
      BY <2>4, <2>5, <2>6, <2>7, <2>8, <2>9, <3>1 DEF RowsOK
  <2>11. RepoId(n, name) # 0
    <3>1. \E r \in n.repos : r.name = name
      BY <2>4, <2>5
    <3> QED
      BY <2>10, <3>1, RepoIdIs
  <2>12. \A r \in n.repos : r.id <= d.last => r \in d.repos
    BY <2>4, <2>5, <2>6
  <2> QED
    BY <2>2, <2>4, <2>6, <2>10, <2>11, <2>12 DEF Evolves
<1> QED
  BY <1>2, <1>3

\* Rows that go away, and nothing else.
LEMMA FewerRows ==
  ASSUME NEW d, RowsOK(d), NEW S \in SUBSET d.steps, NEW R \in SUBSET d.repos, NEW P \in SUBSET d.prs,
         NEW n, n = [steps |-> S, repos |-> R, prs |-> P, last |-> d.last]
  PROVE  Evolves(d, n)
  BY DEF Evolves, RowsOK

\* POST /prs: the PR is there then, in the step named; the others stay.
LEMMA WithPrHas ==
  ASSUME NEW d, RowsOK(d), NEW repo, NEW step, NEW number
  PROVE  /\ Evolves(d, WithPr(d, repo, step, number))
         /\ WithPr(d, repo, step, number).steps = d.steps /\ WithPr(d, repo, step, number).repos = d.repos
         /\ \A p \in d.prs : \E q \in WithPr(d, repo, step, number).prs :
              /\ q.id = p.id /\ q.repo = p.repo /\ q.number = p.number
              /\ ~(p.repo = repo /\ p.number = number) => q.step = p.step
         /\ repo \in Ids(d.repos) /\ step \in Ids(d.steps) \cup {0} =>
              \E q \in WithPr(d, repo, step, number).prs :
                q.repo = repo /\ q.number = number /\ (step # 0 => q.step = step)
<1>1. CASE repo \notin Ids(d.repos) \/ step \notin Ids(d.steps) \cup {0}
  <2>1. WithPr(d, repo, step, number) = d
    BY <1>1 DEF WithPr
  <2> QED
    BY <1>1, <2>1 DEF Evolves, RowsOK
<1>2. CASE /\ ~(repo \notin Ids(d.repos) \/ step \notin Ids(d.steps) \cup {0})
           /\ PrId(d, repo, number) = 0
  <2>1. PICK fresh : fresh = [id |-> d.last + 1, repo |-> repo, step |-> step, number |-> number]
    OBVIOUS
  <2>2. PICK n : n = WithPr(d, repo, step, number)
    OBVIOUS
  <2>3. n = [d EXCEPT !.prs = d.prs \cup {fresh}, !.last = d.last + 1]
    BY <1>2, <2>1, <2>2 DEF WithPr, RowsOK
  <2>4. /\ n = [steps |-> n.steps, repos |-> n.repos, prs |-> n.prs, last |-> n.last]
        /\ n.prs = d.prs \cup {fresh} /\ n.steps = d.steps /\ n.repos = d.repos /\ n.last = d.last + 1
    BY <2>3 DEF RowsOK
  <2>5. /\ fresh = [id |-> fresh.id, repo |-> fresh.repo, step |-> fresh.step, number |-> fresh.number]
        /\ fresh.id \in 1..n.last /\ fresh.repo = repo /\ fresh.step = step /\ fresh.number = number
    BY <2>1, <2>4 DEF RowsOK
  <2>6. d.last \in Nat /\ d.last <= n.last /\ \A i \in 1..d.last : i \in 1..n.last
    BY <2>4 DEF RowsOK
  <2>7. \A s \in d.steps : s = [id |-> s.id, name |-> s.name, order |-> s.order] /\ s.id \in 1..n.last
                            /\ s.order \in Nat /\ s.order < n.last
    BY <2>4, <2>6 DEF RowsOK
  <2>8. /\ \A r \in n.repos : r = [id |-> r.id, name |-> r.name, pinned |-> r.pinned] /\ r.id \in 1..n.last
        /\ \A r, q \in n.repos : r.id = q.id => r.name = q.name
    BY <2>4, <2>6 DEF RowsOK
  <2>9. \A p \in d.prs : /\ p = [id |-> p.id, repo |-> p.repo, step |-> p.step, number |-> p.number]
                         /\ p.id \in 1..n.last
    BY <2>6 DEF RowsOK
  <2>10. RowsOK(n)
    BY <2>4, <2>5, <2>6, <2>7, <2>8, <2>9 DEF RowsOK
  <2>11. Evolves(d, n)
    BY <2>4, <2>6, <2>10 DEF Evolves
  <2> QED
    BY <2>2, <2>4, <2>5, <2>11
<1>3. CASE /\ ~(repo \notin Ids(d.repos) \/ step \notin Ids(d.steps) \cup {0})
           /\ PrId(d, repo, number) # 0
  <2>1. PICK M : M = [p \in d.prs |-> IF p.repo = repo /\ p.number = number /\ step # 0
                                       THEN [p EXCEPT !.step = step] ELSE p]
    OBVIOUS
  <2>2. PICK n : n = WithPr(d, repo, step, number)
    OBVIOUS
  <2>3. n = [d EXCEPT !.prs = {M[p] : p \in d.prs}]
    BY <1>3, <2>1, <2>2 DEF WithPr, RowsOK
  <2>4. /\ n = [steps |-> n.steps, repos |-> n.repos, prs |-> n.prs, last |-> n.last]
        /\ n.prs = {M[p] : p \in d.prs} /\ n.steps = d.steps /\ n.repos = d.repos /\ n.last = d.last
    BY <2>3 DEF RowsOK
  <2>5. \A p \in d.prs :
          /\ M[p] = [id |-> M[p].id, repo |-> M[p].repo, step |-> M[p].step, number |-> M[p].number]
          /\ M[p].id = p.id /\ M[p].repo = p.repo /\ M[p].number = p.number
          /\ ~(p.repo = repo /\ p.number = number) => M[p].step = p.step
          /\ p.repo = repo /\ p.number = number /\ step # 0 => M[p].step = step
    <3> SUFFICES ASSUME NEW p \in d.prs
                 PROVE
          /\ M[p] = [id |-> M[p].id, repo |-> M[p].repo, step |-> M[p].step, number |-> M[p].number]
          /\ M[p].id = p.id /\ M[p].repo = p.repo /\ M[p].number = p.number
          /\ ~(p.repo = repo /\ p.number = number) => M[p].step = p.step
          /\ p.repo = repo /\ p.number = number /\ step # 0 => M[p].step = step
      OBVIOUS
    <3>1. p = [id |-> p.id, repo |-> p.repo, step |-> p.step, number |-> p.number]
      BY DEF RowsOK
    <3>2. CASE p.repo = repo /\ p.number = number /\ step # 0
      BY <2>1, <3>1, <3>2
    <3>3. CASE ~(p.repo = repo /\ p.number = number /\ step # 0)
      BY <2>1, <3>1, <3>3
    <3> QED
      BY <3>2, <3>3
  <2>6. RowsOK(n)
    <3>1. ASSUME NEW q \in n.prs
          PROVE  /\ q = [id |-> q.id, repo |-> q.repo, step |-> q.step, number |-> q.number]
                 /\ q.id \in 1..n.last
      <4>1. PICK p \in d.prs : q = M[p]
        BY <2>4
      <4>2. p.id \in 1..n.last
        BY <2>4 DEF RowsOK
      <4> QED
        BY <2>5, <4>1, <4>2
    <3> QED
      BY <2>4, <3>1 DEF RowsOK
  <2>7. Evolves(d, n)
    BY <2>4, <2>6 DEF Evolves, RowsOK
  <2>8. \E p \in d.prs : p.repo = repo /\ p.number = number
    BY <1>3, PrIdIs
  <2>9. \A p \in d.prs : M[p] \in n.prs
    BY <2>4
  <2>10. \A p \in d.prs : \E q \in n.prs :
           /\ q.id = p.id /\ q.repo = p.repo /\ q.number = p.number
           /\ ~(p.repo = repo /\ p.number = number) => q.step = p.step
    BY <2>5, <2>9
  <2>11. \E q \in n.prs : q.repo = repo /\ q.number = number /\ (step # 0 => q.step = step)
    <3>1. PICK p \in d.prs : p.repo = repo /\ p.number = number
      BY <2>8
    <3>2. M[p] \in n.prs /\ M[p].repo = repo /\ M[p].number = number /\ (step # 0 => M[p].step = step)
      BY <2>5, <2>9, <3>1
    <3> QED
      BY <3>2
  <2> QED
    BY <2>2, <2>4, <2>7, <2>10, <2>11
<1> QED
  BY <1>1, <1>2, <1>3

\* PATCH /repos: only the mark changes.
LEMMA PinnedHas ==
  ASSUME NEW d, RowsOK(d), NEW id
  PROVE  /\ Evolves(d, Pinned(d, id)) /\ Pinned(d, id).steps = d.steps /\ Pinned(d, id).prs = d.prs
         /\ Ids(Pinned(d, id).repos) = Ids(d.repos)
<1>1. PICK M : M = [r \in d.repos |-> IF r.id = id THEN [r EXCEPT !.pinned = TRUE] ELSE r]
  OBVIOUS
<1>2. PICK n : n = Pinned(d, id)
  OBVIOUS
<1>3. n = [d EXCEPT !.repos = {M[r] : r \in d.repos}]
  BY <1>1, <1>2 DEF Pinned, RowsOK
<1>4. /\ n = [steps |-> n.steps, repos |-> n.repos, prs |-> n.prs, last |-> n.last]
      /\ n.repos = {M[r] : r \in d.repos} /\ n.steps = d.steps /\ n.prs = d.prs /\ n.last = d.last
  BY <1>3 DEF RowsOK
<1>5. \A r \in d.repos : /\ M[r] = [id |-> M[r].id, name |-> M[r].name, pinned |-> M[r].pinned]
                         /\ M[r].id = r.id /\ M[r].name = r.name
  <2> SUFFICES ASSUME NEW r \in d.repos
               PROVE /\ M[r] = [id |-> M[r].id, name |-> M[r].name, pinned |-> M[r].pinned]
                     /\ M[r].id = r.id /\ M[r].name = r.name
    OBVIOUS
  <2>1. r = [id |-> r.id, name |-> r.name, pinned |-> r.pinned]
    BY DEF RowsOK
  <2> QED
    BY <1>1, <2>1
<1>6. \A r \in n.repos : \E o \in d.repos : o.id = r.id /\ o.name = r.name
  BY <1>4, <1>5
<1>7. RowsOK(n)
  <2>1. \A r, q \in n.repos : r.id = q.id => r.name = q.name
    BY <1>6 DEF RowsOK
  <2>2. ASSUME NEW r \in n.repos
        PROVE  r = [id |-> r.id, name |-> r.name, pinned |-> r.pinned] /\ r.id \in 1..n.last
    <3>1. PICK o \in d.repos : r = M[o]
      BY <1>4
    <3>2. o.id \in 1..n.last
      BY <1>4 DEF RowsOK
    <3> QED
      BY <1>5, <3>1, <3>2
  <2> QED
    BY <1>4, <2>1, <2>2 DEF RowsOK
<1>8. Ids(n.repos) = Ids(d.repos)
  <2>1. \A r \in d.repos : M[r] \in n.repos /\ M[r].id = r.id
    BY <1>4, <1>5
  <2>2. \A i : i \in Ids(d.repos) => i \in Ids(n.repos)
    BY <2>1 DEF Ids
  <2>3. \A i : i \in Ids(n.repos) => i \in Ids(d.repos)
    BY <1>6 DEF Ids
  <2> QED
    BY <2>2, <2>3 DEF Ids
<1> QED
  BY <1>2, <1>4, <1>6, <1>7, <1>8 DEF Evolves, RowsOK
\* DELETE /steps: its PRs go with it.
LEMMA WithoutStepIs ==
  ASSUME NEW d, RowsOK(d), NEW id
  PROVE  Evolves(d, WithoutStep(d, id))
<1>1. PICK n : n = WithoutStep(d, id)
  OBVIOUS
<1>2. PICK S : S = {s \in d.steps : s.id # id}
  OBVIOUS
<1>3. PICK P : P = {p \in d.prs : p.step # id}
  OBVIOUS
<1>4. n = [steps |-> S, repos |-> d.repos, prs |-> P, last |-> d.last]
  BY <1>1, <1>2, <1>3 DEF WithoutStep, RowsOK
<1>5. S \in SUBSET d.steps /\ P \in SUBSET d.prs /\ d.repos \in SUBSET d.repos
  BY <1>2, <1>3
<1> QED
  BY <1>1, <1>4, <1>5, FewerRows

\* DELETE /prs.
LEMMA WithoutPrIs ==
  ASSUME NEW d, RowsOK(d), NEW id
  PROVE  Evolves(d, WithoutPr(d, id))
<1>1. PICK n : n = WithoutPr(d, id)
  OBVIOUS
<1>3. PICK P : P = {p \in d.prs : p.id # id}
  OBVIOUS
<1>4. n = [steps |-> d.steps, repos |-> d.repos, prs |-> P, last |-> d.last]
  BY <1>1, <1>3 DEF WithoutPr, RowsOK
<1>5. P \in SUBSET d.prs /\ d.repos \in SUBSET d.repos /\ d.steps \in SUBSET d.steps
  BY <1>3
<1> QED
  BY <1>1, <1>4, <1>5, FewerRows

\* A request makes of the database what its stage and tool say, or nothing.
LEMMA ServedIs ==
  ASSUME NEW d, NEW x, NEW w
  PROVE  \/ w.at = "postRepo" /\ Served(d, x, w) = WithRepo(d, x.repo)
         \/ w.at = "postStep" /\ Served(d, x, w) = WithStep(d, x.step)
         \/ w.at = "act" /\ x.tool = "register_pr" /\ Served(d, x, w) = WithPr(d, w.repo, w.step, x.number)
         \/ w.at = "act" /\ x.tool = "pin_repo" /\ Served(d, x, w) = Pinned(d, w.repo)
         \/ w.at = "act" /\ x.tool = "delete_step" /\ Served(d, x, w) = WithoutStep(d, w.step)
         \/ w.at = "act" /\ x.tool = "unregister_pr" /\ Served(d, x, w) = WithoutPr(d, w.pr)
         \/ /\ w.at \notin {"postRepo", "postStep"} /\ Served(d, x, w) = d
            /\ ~(w.at = "act" /\ x.tool \in {"register_pr", "pin_repo", "delete_step", "unregister_pr"})
  BY DEF Served

\* No request uses an id again, or renames a repository.
LEMMA ServedEvolves ==
  ASSUME NEW d, RowsOK(d), NEW x, NEW w
  PROVE  Evolves(d, Served(d, x, w))
<1>1. CASE Served(d, x, w) = d
  BY <1>1 DEF Evolves, RowsOK
<1> QED
  BY <1>1, ServedIs, WithRepoHas, WithStepHas, WithPrHas, PinnedHas, WithoutStepIs, WithoutPrIs

\* PATCH /steps: the fresh keeps its id and its order.
LEMMA RenamedEvolves ==
  ASSUME NEW d, RowsOK(d), NEW s \in d.steps, NEW name
  PROVE  Evolves(d, [d EXCEPT !.steps = (@ \ {s}) \cup {[s EXCEPT !.name = name]}])
<1>1. PICK t : t = [s EXCEPT !.name = name]
  OBVIOUS
<1>2. PICK n : n = [d EXCEPT !.steps = (d.steps \ {s}) \cup {t}]
  OBVIOUS
<1>3. n = [d EXCEPT !.steps = (@ \ {s}) \cup {[s EXCEPT !.name = name]}]
  BY <1>1, <1>2 DEF RowsOK
<1>4. /\ n = [steps |-> n.steps, repos |-> n.repos, prs |-> n.prs, last |-> n.last]
      /\ n.steps = (d.steps \ {s}) \cup {t} /\ n.repos = d.repos /\ n.prs = d.prs /\ n.last = d.last
  BY <1>2 DEF RowsOK
<1>5. s = [id |-> s.id, name |-> s.name, order |-> s.order]
  BY DEF RowsOK
<1>6. t = [id |-> t.id, name |-> t.name, order |-> t.order] /\ t.id = s.id /\ t.order = s.order
  BY <1>1, <1>5
<1>7. RowsOK(n)
  BY <1>4, <1>6 DEF RowsOK
<1> QED
  BY <1>3, <1>4, <1>7 DEF Evolves, RowsOK

\* What a call has found stays what it was, whatever is made or removed.
LEMMA FoundStays ==
  ASSUME NEW d, RowsOK(d), NEW n, Evolves(d, n), NEW x, NEW w \in CallStates, FoundOK(d, x, w)
  PROVE  FoundOK(n, x, w)
<1>1. d.last \in Nat /\ n.last \in Nat /\ d.last <= n.last
  BY DEF Evolves, RowsOK
<1>2. w.repo \in Nat /\ w.step \in Nat /\ w.pr \in Nat
  BY DEF CallStates
<1>3. w.repo <= n.last /\ w.step <= n.last /\ w.pr <= n.last
  BY <1>1, <1>2 DEF FoundOK
<1>4. \A r \in n.repos : r.id = w.repo => r.name = x.repo
  BY DEF Evolves, FoundOK
<1> QED
  BY <1>3, <1>4 DEF FoundOK

-----------------------------------------------------------------------------
(* What requests leave to the other calls. *)

\* Nothing that is found goes away but by a deletion.
LEMMA HoldsStays ==
  ASSUME NEW d, RowsOK(d), NEW x0, NEW w0, NEW x, NEW w, HoldsIn(d, x, w),
         ~(w0.at = "act" /\ x0.tool \in {"delete_step", "unregister_pr"})
  PROVE  HoldsIn(Served(d, x0, w0), x, w)
<1>1. PICK n : n = Served(d, x0, w0)
  OBVIOUS
<1>2. /\ d.steps \subseteq n.steps /\ Ids(d.repos) \subseteq Ids(n.repos)
      /\ \A p \in d.prs : \E q \in n.prs : q.id = p.id
  <2>1. CASE n = WithRepo(d, x0.repo)
    BY <2>1, WithRepoHas DEF Ids
  <2>2. CASE n = WithStep(d, x0.step)
    BY <2>2, WithStepHas DEF Ids
  <2>3. CASE n = WithPr(d, w0.repo, w0.step, x0.number)
    BY <2>3, WithPrHas DEF Ids
  <2>4. CASE n = Pinned(d, w0.repo)
    BY <2>4, PinnedHas
  <2>5. CASE n = d
    BY <2>5
  <2> QED
    BY <1>1, <2>1, <2>2, <2>3, <2>4, <2>5, ServedIs
<1>3. Ids(d.prs) \subseteq Ids(n.prs)
  BY <1>2 DEF Ids
<1> QED
  BY <1>1, <1>2, <1>3 DEF HoldsIn

\* What Holds and Registered say of an entry.
LEMMA HoldsIs ==
  ASSUME NEW d, NEW e
  PROVE  /\ Holds(d, e) <=> HoldsIn(d, asked[e], doing[e])
         /\ Registered(d, e) <=> RegisteredIn(d, asked[e], doing[e])
  BY DEF Holds, HoldsIn, Registered, RegisteredIn

\* What is registered stays so, unless it is deleted, or registered in another
\* step by an entry that names the same PR.
LEMMA RegisteredStays ==
  ASSUME NEW d, RowsOK(d), NEW x0, NEW w0, FoundOK(d, x0, w0),
         NEW x, NEW w, FoundOK(d, x, w), RegisteredIn(d, x, w),
         ~(w0.at = "act" /\ x0.tool \in {"delete_step", "unregister_pr"}),
         ~(w0.at = "act" /\ x0.tool = "register_pr" /\ x.repo = x0.repo /\ x.number = x0.number)
  PROVE  RegisteredIn(Served(d, x0, w0), x, w)
<1>1. PICK n : n = Served(d, x0, w0)
  OBVIOUS
<1>2. PICK p \in d.prs : /\ p.repo = w.repo /\ p.number = x.number
                         /\ x.step # NoStepName => p.step = w.step
  BY DEF RegisteredIn
<1>3. CASE d.prs \subseteq n.prs
  BY <1>1, <1>2, <1>3 DEF RegisteredIn
<1>4. CASE /\ w0.at = "act" /\ x0.tool = "register_pr" /\ n = WithPr(d, w0.repo, w0.step, x0.number)
           /\ w0.repo \in Ids(d.repos)
  <2>1. PICK r \in d.repos : r.id = w0.repo
    BY <1>4 DEF Ids
  <2>2. r.name = x0.repo /\ (w.repo = w0.repo => r.name = x.repo)
    BY <2>1 DEF FoundOK
  <2>3. ~(p.repo = w0.repo /\ p.number = x0.number)
    BY <1>2, <1>4, <2>2
  <2>4. PICK q \in n.prs : q.repo = p.repo /\ q.number = p.number /\ q.step = p.step
    BY <1>4, <2>3, WithPrHas
  <2> QED
    BY <1>1, <1>2, <2>4 DEF RegisteredIn
<1>5. CASE n = WithPr(d, w0.repo, w0.step, x0.number) /\ w0.repo \notin Ids(d.repos)
  BY <1>3, <1>5 DEF WithPr
<1> QED
  BY <1>1, <1>3, <1>4, <1>5, ServedIs, WithRepoHas, WithStepHas, PinnedHas

\* A request leaves alone what the other entries say, but those that it excuses.
LEMMA OthersKeep ==
  ASSUME RowsOK(db), NEW x0, NEW w0, FoundOK(db, x0, w0),
         NEW e \in Entries, FoundOK(db, asked[e], doing[e]), EntryOK(db, asked[e], doing[e]),
         NEW d, d = Served(db, x0, w0), e \notin Excuses(x0, w0, d)
  PROVE  EntryOK(d, asked[e], doing[e])
<1>1. CASE e \notin Undone(d)
  <2>1. /\ HoldsIn(db, asked[e], doing[e]) => HoldsIn(d, asked[e], doing[e])
        /\ RegisteredIn(db, asked[e], doing[e]) => RegisteredIn(d, asked[e], doing[e])
    BY <1>1, HoldsIs DEF Undone
  <2> QED
    BY <2>1 DEF EntryOK
<1>2. CASE e \in Undone(d)
  <2>1. ~(w0.at = "act" /\ x0.tool \in {"delete_step", "unregister_pr"})
    BY <1>2 DEF Excuses
  <2>2. ~(w0.at = "act" /\ x0.tool = "register_pr" /\ asked[e].repo = x0.repo /\ asked[e].number = x0.number)
    BY <1>2 DEF Excuses
  <2>3. /\ HoldsIn(db, asked[e], doing[e]) => HoldsIn(d, asked[e], doing[e])
        /\ RegisteredIn(db, asked[e], doing[e]) => RegisteredIn(d, asked[e], doing[e])
    BY <2>1, <2>2, HoldsStays, RegisteredStays
  <2> QED
    BY <2>3 DEF EntryOK
<1> QED
  BY <1>1, <1>2

\* Only entries are excused.
LEMMA ExcusesAreEntries ==
  ASSUME NEW x0, NEW w0, NEW d
  PROVE  Excuses(x0, w0, d) \subseteq Entries
  BY DEF Excuses, Undone

\* A new state of one call, in the database that is or that a request makes.
LEMMA StepOfOne ==
  ASSUME PipeInv, NEW e \in Entries, NEW v \in CallStates, doing' = [doing EXCEPT ![e] = v],
         asked' = asked, late' = late, Evolves(db, db'),
         FoundOK(db', asked[e], v), StageOK(asked[e], v),
         excused \subseteq excused', excused' \subseteq Entries,
         e \notin excused' => EntryOK(db', asked[e], v),
         \A o \in Entries \ excused' : o # e => EntryOK(db', asked[o], doing[o])
  PROVE  PipeInv'
<1>1. doing' \in [Entries -> CallStates] /\ doing'[e] = v /\ \A o \in Entries : o # e => doing'[o] = doing[o]
  BY DEF PipeInv
<1>2. RowsOK(db') /\ excused' \subseteq Entries
  BY DEF Evolves
<1>3. \A o \in Entries : FoundOK(db', asked[o], doing'[o]) /\ StageOK(asked[o], doing'[o])
  <2> SUFFICES ASSUME NEW o \in Entries PROVE FoundOK(db', asked[o], doing'[o]) /\ StageOK(asked[o], doing'[o])
    OBVIOUS
  <2>1. CASE o = e
    BY <1>1, <2>1
  <2>2. CASE o # e
    <3>1. doing'[o] = doing[o] /\ doing[o] \in CallStates /\ RowsOK(db)
      BY <1>1, <2>2 DEF PipeInv
    <3>2. FoundOK(db, asked[o], doing[o]) /\ StageOK(asked[o], doing[o])
      BY DEF PipeInv
    <3> QED
      BY <3>1, <3>2, FoundStays
  <2> QED
    BY <2>1, <2>2
<1>4. \A q \in late : /\ q.entry \in excused' /\ q.request \in CallStates
                      /\ FoundOK(db', asked[q.entry], q.request)
  <2> SUFFICES ASSUME NEW q \in late
               PROVE /\ q.entry \in excused' /\ q.request \in CallStates
                     /\ FoundOK(db', asked[q.entry], q.request)
    OBVIOUS
  <2>1. RowsOK(db) /\ q.entry \in excused /\ q.request \in CallStates /\ FoundOK(db, asked[q.entry], q.request)
    BY DEF PipeInv
  <2> QED
    BY <2>1, FoundStays
<1>5. \A o \in Entries \ excused' : EntryOK(db', asked[o], doing'[o])
  BY <1>1
<1> QED
  BY <1>1, <1>2, <1>3, <1>4, <1>5 DEF PipeInv

\* A database that does not change.
LEMMA SameEvolves ==
  ASSUME NEW d, RowsOK(d)
  PROVE  Evolves(d, d)
  BY DEF Evolves, RowsOK

\* The stage that follows a repository that is known.
LEMMA AfterRepoIs ==
  ASSUME NEW x, NEW w, NEW a, a = AfterRepo(x), w.at = a, w.repo # 0
  PROVE  a \in {"getPrs", "getSteps", "act"} /\ StageOK(x, w)
<1>1. a \in {"getPrs", "getSteps", "act"}
  BY DEF AfterRepo
<1> QED
  BY <1>1 DEF StageOK, AfterRepo

\* The stage that follows a step that is known.
LEMMA AfterStepIs ==
  ASSUME NEW x, NEW w, NEW a, a = AfterStep(x), w.at = a, w.step # 0,
         x.tool \notin {"unregister_pr", "pin_repo"}, x.tool = "register_pr" => w.repo # 0
  PROVE  (a = "act" \/ (a = "ok" /\ x.tool = "create_step")) /\ StageOK(x, w)
<1>1. a = "act" \/ (a = "ok" /\ x.tool = "create_step")
  BY DEF AfterStep
<1> QED
  BY <1>1 DEF StageOK

\* A lookup that leaves the database as it is.
LEMMA LookupStep ==
  ASSUME PipeInv, NEW e \in Entries, NEW v \in CallStates, doing' = [doing EXCEPT ![e] = v],
         UNCHANGED <<db, asked, late, excused>>,
         FoundOK(db, asked[e], v), StageOK(asked[e], v), e \notin excused => EntryOK(db, asked[e], v)
  PROVE  PipeInv'
<1>1. RowsOK(db) /\ excused \subseteq Entries /\ \A o \in Entries \ excused : EntryOK(db, asked[o], doing[o])
  BY DEF PipeInv
<1>2. Evolves(db, db')
  BY <1>1, SameEvolves
<1> QED
  BY <1>1, <1>2, StepOfOne

\* A worker takes an entry: it has found nothing yet that could be gone.
LEMMA TakeStep ==
  ASSUME PipeInv, NEW e \in Entries, Take(e)
  PROVE  PipeInv'
<1>1. PICK w : w = doing[e]
  OBVIOUS
<1>2. PICK v : v = [w EXCEPT !.at = FirstRequest(asked[e])]
  OBVIOUS
<1>3. w \in CallStates /\ w.at = "queued" /\ FoundOK(db, asked[e], w)
  BY <1>1 DEF PipeInv, Take
<1>4. doing' = [doing EXCEPT ![e] = v]
  BY <1>1, <1>2 DEF Take
<1>5. v.at = FirstRequest(asked[e]) /\ v.repo = w.repo /\ v.step = w.step /\ v.pr = w.pr
  BY <1>2, <1>3 DEF CallStates
<1>6. v.at = "getRepo" \/ (v.at = "getSteps" /\ asked[e].tool \in {"create_step", "create_task", "delete_step"})
  BY <1>5 DEF FirstRequest
<1>7. v \in CallStates
  BY <1>2, <1>3, <1>5, <1>6 DEF CallStates, Stages
<1>8. FoundOK(db, asked[e], v)
  BY <1>3, <1>5 DEF FoundOK
<1>9. StageOK(asked[e], v)
  BY <1>6 DEF StageOK
<1>10. e \notin excused => EntryOK(db, asked[e], v)
  <2>1. HAVE e \notin excused
  <2>2. HoldsIn(db, asked[e], w)
    BY <1>1, <1>3, <2>1 DEF PipeInv, EntryOK
  <2> QED
    BY <1>5, <1>6, <2>2 DEF EntryOK, HoldsIn
<1> QED
  BY <1>4, <1>7, <1>8, <1>9, <1>10, LookupStep DEF Take

\* A repository is looked up.
LEMMA GetRepoStep ==
  ASSUME PipeInv, NEW e \in Entries, GetRepo(e)
  PROVE  PipeInv'
<1>1. PICK w : w = doing[e]
  OBVIOUS
<1>2. PICK x : x = asked[e]
  OBVIOUS
<1>3. PICK id : id = RepoId(db, x.repo)
  OBVIOUS
<1>4. PICK u : u = [w EXCEPT !.repo = id]
  OBVIOUS
<1>5. w \in CallStates /\ w.at = "getRepo" /\ FoundOK(db, x, w) /\ RowsOK(db)
  BY <1>1, <1>2 DEF PipeInv, GetRepo
<1>6. \/ id \in 1..db.last /\ id # 0 /\ \E r \in db.repos : r.id = id /\ r.name = x.repo
      \/ id = 0
  BY <1>3, <1>5, RepoIdIs DEF RowsOK
<1>7. id \in Nat /\ id <= db.last /\ db.last \in Nat
  BY <1>5, <1>6 DEF RowsOK
<1>8. /\ u \in CallStates /\ u.repo = id /\ u.step = w.step /\ u.pr = w.pr /\ u.at = "getRepo"
  BY <1>4, <1>5, <1>7 DEF CallStates
<1>9. \A r \in db.repos : r.id = id => r.name = x.repo
  <2>1. CASE id = 0
    BY <1>5, <2>1 DEF RowsOK
  <2> QED
    BY <1>5, <1>6, <2>1 DEF RowsOK
<1>10. e \notin excused => HoldsIn(db, x, w)
  BY <1>1, <1>2, <1>5 DEF PipeInv, EntryOK
<1>11. PICK a : a = CASE id # 0 -> AfterRepo(x)
                       [] id = 0 /\ x.tool = "unregister_pr" -> "ok"
                       [] OTHER -> "postRepo"
  OBVIOUS
<1>12. PICK v : v = [u EXCEPT !.at = a]
  OBVIOUS
<1>12a. doing' = [doing EXCEPT ![e] = v]
  <2>1. doing' = [doing EXCEPT ![e].repo = id, ![e].at = a]
    BY <1>2, <1>3, <1>11 DEF GetRepo
  <2> QED
    BY <1>1, <1>4, <1>12, <2>1
<1>13. v.at = a /\ v.repo = id /\ v.step = w.step /\ v.pr = w.pr
  BY <1>8, <1>12 DEF CallStates
<1>14. /\ StageOK(x, v)
       /\ a \in {"getPrs", "getSteps", "act", "postRepo"} \/ (a = "ok" /\ x.tool = "unregister_pr")
  <2>1. CASE id # 0
    <3>1. a = AfterRepo(x)
      BY <1>11, <2>1 DEF AfterRepo
    <3>2. a \in {"getPrs", "getSteps", "act"} /\ StageOK(x, v)
      BY <1>13, <2>1, <3>1, AfterRepoIs
    <3> QED
      BY <3>2
  <2>2. CASE id = 0 /\ x.tool = "unregister_pr"
    <3>1. a = "ok"
      BY <1>11, <2>2
    <3> QED
      BY <1>13, <2>2, <3>1 DEF StageOK
  <2>3. CASE id = 0 /\ x.tool # "unregister_pr"
    <3>1. a = "postRepo"
      BY <1>11, <2>3
    <3> QED
      BY <1>13, <3>1 DEF StageOK
  <2> QED
    BY <2>1, <2>2, <2>3
<1>15. v \in CallStates
  BY <1>8, <1>12, <1>14 DEF CallStates, Stages, Settled
<1>16. FoundOK(db, x, v)
  BY <1>5, <1>7, <1>8, <1>9, <1>13 DEF FoundOK
<1>17. e \notin excused => EntryOK(db, x, v)
  <2>1. HAVE e \notin excused
  <2>2. id # 0 => id \in Ids(db.repos)
    BY <1>6 DEF Ids
  <2>3. HoldsIn(db, x, v)
    BY <1>8, <1>10, <1>13, <2>1, <2>2 DEF HoldsIn
  <2> QED
    BY <1>13, <1>14, <2>3 DEF EntryOK
<1> QED
  BY <1>2, <1>12a, <1>14, <1>15, <1>16, <1>17, LookupStep DEF GetRepo

\* A step is looked up.
LEMMA GetStepsStep ==
  ASSUME PipeInv, NEW e \in Entries, GetSteps(e)
  PROVE  PipeInv'
<1>1. PICK w : w = doing[e]
  OBVIOUS
<1>2. PICK x : x = asked[e]
  OBVIOUS
<1>3. PICK id : id = StepId(db, x.step)
  OBVIOUS
<1>4. PICK u : u = [w EXCEPT !.step = id]
  OBVIOUS
<1>5. w \in CallStates /\ w.at = "getSteps" /\ FoundOK(db, x, w) /\ StageOK(x, w) /\ RowsOK(db)
  BY <1>1, <1>2 DEF PipeInv, GetSteps
<1>6. \/ id \in 1..db.last /\ id # 0 /\ \E s \in db.steps : s.id = id /\ Lower[s.name] = Lower[x.step]
      \/ id = 0
  BY <1>3, <1>5, StepIdIs DEF RowsOK
<1>7. id \in Nat /\ id <= db.last /\ db.last \in Nat
  BY <1>5, <1>6 DEF RowsOK
<1>8. /\ u \in CallStates /\ u.repo = w.repo /\ u.step = id /\ u.pr = w.pr /\ u.at = "getSteps"
  BY <1>4, <1>5, <1>7 DEF CallStates
<1>10. e \notin excused => HoldsIn(db, x, w)
  BY <1>1, <1>2, <1>5 DEF PipeInv, EntryOK
<1>11. PICK a : a = CASE id # 0 -> AfterStep(x)
                       [] id = 0 /\ x.tool = "delete_step" -> "ok"
                       [] OTHER -> "postStep"
  OBVIOUS
<1>12. PICK v : v = [u EXCEPT !.at = a]
  OBVIOUS
<1>12a. doing' = [doing EXCEPT ![e] = v]
  <2>1. doing' = [doing EXCEPT ![e].step = id, ![e].at = a]
    BY <1>2, <1>3, <1>11 DEF GetSteps
  <2> QED
    BY <1>1, <1>4, <1>12, <2>1
<1>13. v.at = a /\ v.repo = w.repo /\ v.step = id /\ v.pr = w.pr
  BY <1>8, <1>12 DEF CallStates
<1>13a. x.tool \notin {"unregister_pr", "pin_repo"} /\ (x.tool = "register_pr" => w.repo # 0)
        /\ (x.tool = "register_pr" => x.step # NoStepName)
  BY <1>5 DEF StageOK
<1>14. /\ StageOK(x, v)
       /\ a \in {"act", "postStep"} \/ (a = "ok" /\ x.tool \in {"create_step", "delete_step"})
  <2>1. CASE id # 0
    <3>1. a = AfterStep(x)
      BY <1>11, <2>1 DEF AfterStep
    <3>2. (a = "act" \/ (a = "ok" /\ x.tool = "create_step")) /\ StageOK(x, v)
      BY <1>13, <1>13a, <2>1, <3>1, AfterStepIs
    <3> QED
      BY <3>2
  <2>2. CASE id = 0 /\ x.tool = "delete_step"
    <3>1. a = "ok"
      BY <1>11, <2>2
    <3> QED
      BY <1>13, <2>2, <3>1 DEF StageOK
  <2>3. CASE id = 0 /\ x.tool # "delete_step"
    <3>1. a = "postStep"
      BY <1>11, <2>3
    <3> QED
      BY <1>13, <1>13a, <3>1 DEF StageOK
  <2> QED
    BY <2>1, <2>2, <2>3
<1>15. v \in CallStates
  BY <1>8, <1>12, <1>14 DEF CallStates, Stages, Settled
<1>16. FoundOK(db, x, v)
  BY <1>5, <1>7, <1>13 DEF FoundOK
<1>17. e \notin excused => EntryOK(db, x, v)
  <2>1. HAVE e \notin excused
  <2>2. id # 0 => \E s \in db.steps : s.id = id /\ Lower[s.name] = Lower[x.step]
    BY <1>6
  <2>3. HoldsIn(db, x, v)
    BY <1>10, <1>13, <2>1, <2>2 DEF HoldsIn
  <2> QED
    BY <1>13, <1>14, <2>3 DEF EntryOK
<1> QED
  BY <1>2, <1>12a, <1>14, <1>15, <1>16, <1>17, LookupStep DEF GetSteps

\* A PR is looked up.
LEMMA GetPrsStep ==
  ASSUME PipeInv, NEW e \in Entries, GetPrs(e)
  PROVE  PipeInv'
<1>1. PICK w : w = doing[e]
  OBVIOUS
<1>2. PICK x : x = asked[e]
  OBVIOUS
<1>3. PICK id : id = PrId(db, w.repo, x.number)
  OBVIOUS
<1>4. PICK a : a = IF id # 0 THEN "act" ELSE "ok"
  OBVIOUS
<1>5. w \in CallStates /\ w.at = "getPrs" /\ FoundOK(db, x, w) /\ x.tool = "unregister_pr" /\ RowsOK(db)
  BY <1>1, <1>2 DEF PipeInv, GetPrs, StageOK
<1>6. (id \in 1..db.last /\ id \in Ids(db.prs)) \/ id = 0
  BY <1>3, <1>5, PrIdIs DEF Ids
<1>7. id \in Nat /\ id <= db.last /\ db.last \in Nat
  BY <1>5, <1>6 DEF RowsOK
<1>8. PICK u : u = [w EXCEPT !.pr = id]
  OBVIOUS
<1>9. PICK v : v = [u EXCEPT !.at = a]
  OBVIOUS
<1>10. doing' = [doing EXCEPT ![e] = v]
  <2>1. doing' = [doing EXCEPT ![e].pr = id, ![e].at = a]
    BY <1>1, <1>2, <1>3, <1>4 DEF GetPrs
  <2> QED
    BY <1>1, <1>8, <1>9, <2>1
<1>11. /\ u \in CallStates /\ u.repo = w.repo /\ u.step = w.step /\ u.pr = id
  BY <1>5, <1>7, <1>8 DEF CallStates
<1>12. v.at = a /\ v.repo = w.repo /\ v.step = w.step /\ v.pr = id
  BY <1>9, <1>11 DEF CallStates
<1>13. v \in CallStates
  BY <1>4, <1>9, <1>11 DEF CallStates, Stages, Settled
<1>14. StageOK(x, v)
  BY <1>4, <1>5, <1>12 DEF StageOK
<1>15. FoundOK(db, x, v)
  BY <1>5, <1>7, <1>12 DEF FoundOK
<1>16. e \notin excused => EntryOK(db, x, v)
  <2>1. HAVE e \notin excused
  <2>2. HoldsIn(db, x, w)
    BY <1>1, <1>2, <1>5, <2>1 DEF PipeInv, EntryOK
  <2>3. HoldsIn(db, x, v)
    BY <1>6, <1>12, <2>2 DEF HoldsIn
  <2> QED
    BY <1>4, <1>5, <1>12, <2>3 DEF EntryOK
<1> QED
  BY <1>2, <1>10, <1>13, <1>14, <1>15, <1>16, LookupStep DEF GetPrs

\* A repository or a step is made, or was made by another call in between.
LEMMA PostStep ==
  ASSUME PipeInv, NEW e \in Entries, Post(e)
  PROVE  PipeInv'
<1>1. PICK w : w = doing[e]
  OBVIOUS
<1>2. PICK x : x = asked[e]
  OBVIOUS
<1>3. PICK d : d = Served(db, x, w)
  OBVIOUS
<1>4. /\ w \in CallStates /\ w.at \in {"postRepo", "postStep"} /\ FoundOK(db, x, w) /\ StageOK(x, w)
      /\ RowsOK(db) /\ excused \subseteq Entries /\ db' = d /\ UNCHANGED <<asked, late, excused>>
  BY <1>1, <1>2, <1>3 DEF PipeInv, Post
<1>5. Evolves(db, d) /\ RowsOK(d)
  BY <1>3, <1>4, ServedEvolves DEF Evolves
<1>6. FoundOK(d, x, w)
  BY <1>4, <1>5, FoundStays
<1>7. e \notin excused => HoldsIn(d, x, w)
  <2>1. HAVE e \notin excused
  <2>2. HoldsIn(db, x, w)
    BY <1>1, <1>2, <1>4, <2>1 DEF PipeInv, EntryOK
  <2>3. w.at # "act"
    BY <1>4
  <2> QED
    BY <1>3, <1>4, <2>2, <2>3, HoldsStays
<1>8. \A o \in Entries \ excused : o # e => EntryOK(d, asked[o], doing[o])
  <2> SUFFICES ASSUME NEW o \in Entries \ excused PROVE EntryOK(d, asked[o], doing[o])
    OBVIOUS
  <2>1. o \notin Excuses(x, w, d)
    BY <1>4 DEF Excuses
  <2>2. FoundOK(db, asked[o], doing[o]) /\ EntryOK(db, asked[o], doing[o])
    BY DEF PipeInv
  <2> QED
    BY <1>3, <1>4, <2>1, <2>2, OthersKeep
<1>9. CASE w.at = "postRepo"
  <2>1. PICK id : id = RepoId(d, x.repo)
    OBVIOUS
  <2>2. PICK a : a = AfterRepo(x)
    OBVIOUS
  <2>3. PICK u : u = [w EXCEPT !.repo = id]
    OBVIOUS
  <2>4. PICK v : v = [u EXCEPT !.at = a]
    OBVIOUS
  <2>5. doing' = [doing EXCEPT ![e] = v]
    <3>1. doing' = [doing EXCEPT ![e].repo = id, ![e].at = a]
      BY <1>1, <1>2, <1>3, <1>9, <2>1, <2>2 DEF Post
    <3> QED
      BY <1>1, <2>3, <2>4, <3>1
  <2>6. d = WithRepo(db, x.repo)
    BY <1>3, <1>9, ServedIs
  <2>7. id # 0
    BY <1>4, <2>1, <2>6, WithRepoHas
  <2>8. id \in 1..d.last /\ \E r \in d.repos : r.id = id /\ r.name = x.repo
    BY <1>5, <2>1, <2>7, RepoIdIs
  <2>9. id \in Nat /\ id <= d.last /\ id \in Ids(d.repos)
    BY <1>5, <2>8 DEF RowsOK, Ids
  <2>10. u \in CallStates /\ u.repo = id /\ u.step = w.step /\ u.pr = w.pr
    BY <1>4, <2>3, <2>9 DEF CallStates
  <2>11. v.at = a /\ v.repo = id /\ v.step = w.step /\ v.pr = w.pr
    BY <2>4, <2>10 DEF CallStates
  <2>12. a \in {"getPrs", "getSteps", "act"} /\ StageOK(x, v)
    BY <2>2, <2>7, <2>11, AfterRepoIs
  <2>13. v \in CallStates
    BY <2>4, <2>10, <2>12 DEF CallStates, Stages
  <2>14. FoundOK(d, x, v)
    <3>1. \A r \in d.repos : r.id = id => r.name = x.repo
      BY <1>5, <2>8 DEF RowsOK
    <3> QED
      BY <1>6, <2>9, <2>11, <3>1 DEF FoundOK
  <2>15. e \notin excused => EntryOK(d, x, v)
    <3>1. HAVE e \notin excused
    <3>2. HoldsIn(d, x, v)
      BY <1>7, <2>9, <2>11, <3>1 DEF HoldsIn
    <3> QED
      BY <2>11, <2>12, <3>2 DEF EntryOK
  <2> QED
    BY <1>2, <1>4, <1>5, <1>8, <2>5, <2>12, <2>13, <2>14, <2>15, StepOfOne
<1>10. CASE w.at = "postStep"
  <2>1. PICK id : id = StepId(d, x.step)
    OBVIOUS
  <2>6. d = WithStep(db, x.step)
    BY <1>3, <1>10, ServedIs
  <2>7. id # 0
    BY <1>4, <2>1, <2>6, WithStepHas
  <2>2. PICK a : a = AfterStep(x)
    OBVIOUS
  <2>3. PICK u : u = [w EXCEPT !.step = id]
    OBVIOUS
  <2>4. PICK v : v = [u EXCEPT !.at = a]
    OBVIOUS
  <2>5. doing' = [doing EXCEPT ![e] = v]
    <3>1. doing' = [doing EXCEPT ![e].step = id, ![e].at = a]
      BY <1>1, <1>2, <1>3, <1>10, <2>1, <2>2, <2>7 DEF Post
    <3> QED
      BY <1>1, <2>3, <2>4, <3>1
  <2>8. id \in 1..d.last /\ \E s \in d.steps : s.id = id /\ Lower[s.name] = Lower[x.step]
    BY <1>5, <2>1, <2>7, StepIdIs
  <2>9. id \in Nat /\ id <= d.last
    BY <1>5, <2>8 DEF RowsOK
  <2>10. u \in CallStates /\ u.repo = w.repo /\ u.step = id /\ u.pr = w.pr
    BY <1>4, <2>3, <2>9 DEF CallStates
  <2>11. v.at = a /\ v.repo = w.repo /\ v.step = id /\ v.pr = w.pr
    BY <2>4, <2>10 DEF CallStates
  <2>11a. x.tool \notin {"unregister_pr", "pin_repo"} /\ (x.tool = "register_pr" => w.repo # 0)
    BY <1>4, <1>10 DEF StageOK
  <2>12. (a = "act" \/ (a = "ok" /\ x.tool = "create_step")) /\ StageOK(x, v)
    BY <2>2, <2>7, <2>11, <2>11a, AfterStepIs
  <2>13. v \in CallStates
    BY <2>4, <2>10, <2>12 DEF CallStates, Stages, Settled
  <2>14. FoundOK(d, x, v)
    BY <1>6, <2>9, <2>11 DEF FoundOK
  <2>15. e \notin excused => EntryOK(d, x, v)
    <3>1. HAVE e \notin excused
    <3>2. HoldsIn(d, x, v)
      BY <1>7, <2>8, <2>11, <3>1 DEF HoldsIn
    <3> QED
      BY <2>11, <2>12, <3>2 DEF EntryOK
  <2> QED
    BY <1>2, <1>4, <1>5, <1>8, <2>5, <2>12, <2>13, <2>14, <2>15, StepOfOne
<1> QED
  BY <1>4, <1>9, <1>10

\* The last request: what it acts on is there, unless the entry is excused.
LEMMA ActStep ==
  ASSUME PipeInv, NEW e \in Entries, Act(e)
  PROVE  PipeInv'
<1>1. PICK w : w = doing[e]
  OBVIOUS
<1>2. PICK x : x = asked[e]
  OBVIOUS
<1>3. PICK d : d = Served(db, x, w)
  OBVIOUS
<1>4. PICK there : there = (/\ x.tool \in {"register_pr", "pin_repo"} => w.repo \in Ids(db.repos)
                            /\ w.step \in Ids(db.steps) \cup {0}
                            /\ x.tool = "unregister_pr" => w.pr \in Ids(db.prs))
  OBVIOUS
<1>5. PICK v : v = [w EXCEPT !.at = IF there THEN "ok" ELSE "failed"]
  OBVIOUS
<1>6. /\ w \in CallStates /\ w.at = "act" /\ FoundOK(db, x, w) /\ StageOK(x, w)
      /\ RowsOK(db) /\ excused \subseteq Entries
  BY <1>1, <1>2 DEF PipeInv, Act
<1>7. /\ db' = d /\ UNCHANGED <<asked, late>> /\ doing' = [doing EXCEPT ![e] = v]
      /\ excused' = excused \cup (Excuses(x, w, d) \ {e})
  BY <1>1, <1>2, <1>3, <1>4, <1>5 DEF Act
<1>8. Evolves(db, d) /\ FoundOK(d, x, w)
  BY <1>3, <1>6, ServedEvolves, FoundStays
<1>9. excused \subseteq excused' /\ excused' \subseteq Entries
  BY <1>6, <1>7, ExcusesAreEntries
<1>10. v.at \in {"ok", "failed"} /\ v.repo = w.repo /\ v.step = w.step /\ v.pr = w.pr
  BY <1>5, <1>6 DEF CallStates
<1>11. v \in CallStates
  BY <1>5, <1>6, <1>10 DEF CallStates, Stages, Settled
<1>12. FoundOK(d, x, v)
  BY <1>8, <1>10 DEF FoundOK
<1>13. StageOK(x, v)
  BY <1>10 DEF StageOK
<1>14. \A o \in Entries \ excused' : o # e => EntryOK(d, asked[o], doing[o])
  <2> SUFFICES ASSUME NEW o \in Entries \ excused', o # e PROVE EntryOK(d, asked[o], doing[o])
    OBVIOUS
  <2>1. o \notin Excuses(x, w, d) /\ o \in Entries \ excused
    BY <1>7
  <2>2. FoundOK(db, asked[o], doing[o]) /\ EntryOK(db, asked[o], doing[o])
    BY <2>1 DEF PipeInv
  <2> QED
    BY <1>3, <1>6, <2>1, <2>2, OthersKeep
<1>15. e \notin excused' => EntryOK(d, x, v)
  <2>1. HAVE e \notin excused'
  <2>2. HoldsIn(db, x, w)
    BY <1>1, <1>2, <1>6, <1>7, <2>1 DEF PipeInv, EntryOK
  <2>3. there
    <3>1. w.repo # 0 => w.repo \in Ids(db.repos)
      BY <2>2 DEF HoldsIn
    <3>2. w.step \in Ids(db.steps) \cup {0}
      BY <2>2 DEF HoldsIn, Ids
    <3>3. w.pr # 0 => w.pr \in Ids(db.prs)
      BY <2>2 DEF HoldsIn
    <3>4. (x.tool \in {"register_pr", "pin_repo"} => w.repo # 0) /\ (x.tool = "unregister_pr" => w.pr # 0)
      BY <1>6 DEF StageOK
    <3> QED
      BY <1>4, <3>1, <3>2, <3>3, <3>4
  <2>4. v.at = "ok"
    BY <1>5, <1>6, <2>3 DEF CallStates
  <2>5. CASE x.tool \in {"delete_step", "unregister_pr"}
    BY <2>4, <2>5 DEF EntryOK
  <2>6. CASE x.tool \notin {"delete_step", "unregister_pr"}
    <3>1. HoldsIn(d, x, w)
      BY <1>3, <1>6, <2>2, <2>6, HoldsStays
    <3>2. HoldsIn(d, x, v)
      BY <1>10, <3>1 DEF HoldsIn
    <3>3. x.tool = "register_pr" => RegisteredIn(d, x, v)
      <4>1. HAVE x.tool = "register_pr"
      <4>2. w.repo \in Ids(db.repos) /\ w.step \in Ids(db.steps) \cup {0}
        BY <1>4, <2>3, <4>1
      <4>3. d = WithPr(db, w.repo, w.step, x.number)
        BY <1>3, <1>6, <4>1, ServedIs
      <4>4. \E q \in d.prs : q.repo = w.repo /\ q.number = x.number /\ (w.step # 0 => q.step = w.step)
        BY <1>6, <4>2, <4>3, WithPrHas
      <4>5. x.step # NoStepName => w.step # 0
        BY <1>6, <4>1 DEF StageOK
      <4> QED
        BY <1>10, <4>4, <4>5 DEF RegisteredIn
    <3> QED
      BY <2>4, <3>2, <3>3 DEF EntryOK
  <2> QED
    BY <2>5, <2>6
<1> QED
  BY <1>2, <1>7, <1>8, <1>9, <1>11, <1>12, <1>13, <1>14, <1>15, StepOfOne

\* An entry whose request is lost or late is excused from then on.
LEMMA TimesOutStep ==
  ASSUME PipeInv, NEW e \in Entries, TimesOut(e)
  PROVE  PipeInv'
<1>1. PICK w : w = doing[e]
  OBVIOUS
<1>2. PICK v : v = [w EXCEPT !.at = "failed"]
  OBVIOUS
<1>3. /\ w \in CallStates /\ FoundOK(db, asked[e], w) /\ doing \in [Entries -> CallStates]
      /\ RowsOK(db) /\ excused \subseteq Entries
  BY <1>1 DEF PipeInv
<1>4. /\ late' \in {late, late \cup {[entry |-> e, request |-> w]}} /\ doing' = [doing EXCEPT ![e] = v]
      /\ excused' = excused \cup {e} /\ UNCHANGED <<db, asked>>
  BY <1>1, <1>2 DEF TimesOut
<1>5. v.at = "failed" /\ v.repo = w.repo /\ v.step = w.step /\ v.pr = w.pr
  BY <1>2, <1>3 DEF CallStates
<1>6. v \in CallStates
  BY <1>2, <1>3 DEF CallStates, Stages, Settled
<1>7. FoundOK(db, asked[e], v) /\ StageOK(asked[e], v)
  BY <1>3, <1>5 DEF FoundOK, StageOK
<1>8. doing' \in [Entries -> CallStates] /\ doing'[e] = v /\ \A o \in Entries : o # e => doing'[o] = doing[o]
  BY <1>3, <1>4, <1>6
<1>9. \A o \in Entries : FoundOK(db, asked[o], doing'[o]) /\ StageOK(asked[o], doing'[o])
  BY <1>7, <1>8 DEF PipeInv
<1>10. \A q \in late' : /\ q.entry \in excused' /\ q.request \in CallStates
                        /\ FoundOK(db, asked[q.entry], q.request)
  <2> SUFFICES ASSUME NEW q \in late'
               PROVE /\ q.entry \in excused' /\ q.request \in CallStates
                     /\ FoundOK(db, asked[q.entry], q.request)
    OBVIOUS
  <2>1. CASE q \in late
    BY <1>4, <2>1 DEF PipeInv
  <2>2. CASE q = [entry |-> e, request |-> w]
    <3>1. q.entry = e /\ q.request = w
      BY <2>2
    <3> QED
      BY <1>3, <1>4, <3>1
  <2> QED
    BY <1>4, <2>1, <2>2
<1>11. \A o \in Entries \ excused' : EntryOK(db, asked[o], doing'[o])
  BY <1>4, <1>8 DEF PipeInv
<1>12. excused' \subseteq Entries
  BY <1>3, <1>4
<1> QED
  BY <1>3, <1>4, <1>8, <1>9, <1>10, <1>11, <1>12 DEF PipeInv

\* The calls stay, in another database.
LEMMA StepOfNone ==
  ASSUME PipeInv, UNCHANGED <<doing, asked>>, late' \subseteq late, Evolves(db, db'),
         excused \subseteq excused', excused' \subseteq Entries,
         \A o \in Entries \ excused' : EntryOK(db', asked[o], doing[o])
  PROVE  PipeInv'
<1>1. doing \in [Entries -> CallStates] /\ RowsOK(db) /\ RowsOK(db')
  BY DEF PipeInv, Evolves
<1>2. \A o \in Entries : FoundOK(db', asked[o], doing[o]) /\ StageOK(asked[o], doing[o])
  <2> SUFFICES ASSUME NEW o \in Entries PROVE FoundOK(db', asked[o], doing[o]) /\ StageOK(asked[o], doing[o])
    OBVIOUS
  <2>1. doing[o] \in CallStates /\ FoundOK(db, asked[o], doing[o]) /\ StageOK(asked[o], doing[o])
    BY <1>1 DEF PipeInv
  <2> QED
    BY <1>1, <2>1, FoundStays
<1>3. \A q \in late' : /\ q.entry \in excused' /\ q.request \in CallStates
                       /\ FoundOK(db', asked[q.entry], q.request)
  <2> SUFFICES ASSUME NEW q \in late'
               PROVE /\ q.entry \in excused' /\ q.request \in CallStates
                     /\ FoundOK(db', asked[q.entry], q.request)
    OBVIOUS
  <2>1. q.entry \in excused /\ q.request \in CallStates /\ FoundOK(db, asked[q.entry], q.request)
    BY DEF PipeInv
  <2> QED
    BY <1>1, <2>1, FoundStays
<1> QED
  BY <1>1, <1>2, <1>3 DEF PipeInv

\* A request that its caller gave up is served after all.
LEMMA ServedLateStep ==
  ASSUME PipeInv, NEW q \in late, ServedLate(q)
  PROVE  PipeInv'
<1>1. PICK w : w = q.request
  OBVIOUS
<1>2. PICK x : x = asked[q.entry]
  OBVIOUS
<1>3. PICK d : d = Served(db, x, w)
  OBVIOUS
<1>4. /\ FoundOK(db, x, w) /\ RowsOK(db) /\ excused \subseteq Entries
  BY <1>1, <1>2 DEF PipeInv
<1>5. /\ db' = d /\ UNCHANGED <<asked, doing>> /\ late' \subseteq late /\ excused' = excused \cup Excuses(x, w, d)
  BY <1>1, <1>2, <1>3 DEF ServedLate
<1>6. Evolves(db, d)
  BY <1>3, <1>4, ServedEvolves
<1>7. excused \subseteq excused' /\ excused' \subseteq Entries
  BY <1>4, <1>5, ExcusesAreEntries
<1>8. \A o \in Entries \ excused' : EntryOK(d, asked[o], doing[o])
  <2> SUFFICES ASSUME NEW o \in Entries \ excused' PROVE EntryOK(d, asked[o], doing[o])
    OBVIOUS
  <2>1. o \notin Excuses(x, w, d) /\ o \in Entries \ excused
    BY <1>5
  <2>2. FoundOK(db, asked[o], doing[o]) /\ EntryOK(db, asked[o], doing[o])
    BY <2>1 DEF PipeInv
  <2> QED
    BY <1>3, <1>4, <2>1, <2>2, OthersKeep
<1> QED
  BY <1>5, <1>6, <1>7, <1>8, StepOfNone

\* What the user does in the GUI excuses the calls it undoes.
LEMMA GuiStep ==
  ASSUME PipeInv, NEW d, Gui(d), Evolves(db, d)
  PROVE  PipeInv'
<1>1. db' = d /\ excused' = excused \cup Undone(d) /\ UNCHANGED <<asked, doing, late>>
  BY DEF Gui
<1>2. excused \subseteq Entries /\ Undone(d) \subseteq Entries
  BY DEF PipeInv, Undone
<1>3. \A o \in Entries \ excused' : EntryOK(d, asked[o], doing[o])
  <2> SUFFICES ASSUME NEW o \in Entries \ excused' PROVE EntryOK(d, asked[o], doing[o])
    OBVIOUS
  <2>1. o \notin Undone(d) /\ o \in Entries \ excused
    BY <1>1
  <2>2. EntryOK(db, asked[o], doing[o])
    BY <2>1 DEF PipeInv
  <2>3. /\ HoldsIn(db, asked[o], doing[o]) => HoldsIn(d, asked[o], doing[o])
        /\ RegisteredIn(db, asked[o], doing[o]) => RegisteredIn(d, asked[o], doing[o])
    BY <2>1, HoldsIs DEF Undone
  <2> QED
    BY <2>2, <2>3 DEF EntryOK
<1> QED
  BY <1>1, <1>2, <1>3, StepOfNone

\* A call is made.
LEMMA CallStep ==
  ASSUME PipeInv, NEW c, Call(c)
  PROVE  PipeInv'
<1>1. PICK v : v = [NotCalled EXCEPT !.at = "queued"]
  OBVIOUS
<1>2. v.at = "queued" /\ v.repo = 0 /\ v.step = 0 /\ v.pr = 0 /\ v \in CallStates
  BY <1>1 DEF NotCalled, CallStates, Stages
<1>3. /\ doing' = [e \in Entries |-> IF CallOf[e] = c THEN v ELSE doing[e]]
      /\ UNCHANGED <<db, asked, late, excused>>
  BY <1>1 DEF Call
<1>4. RowsOK(db) /\ doing \in [Entries -> CallStates]
  BY DEF PipeInv
<1>5. \A e \in Entries : FoundOK(db, asked[e], v) /\ StageOK(asked[e], v) /\ EntryOK(db, asked[e], v)
  <2> SUFFICES ASSUME NEW e \in Entries
               PROVE FoundOK(db, asked[e], v) /\ StageOK(asked[e], v) /\ EntryOK(db, asked[e], v)
    OBVIOUS
  <2>1. FoundOK(db, asked[e], v)
    BY <1>2, <1>4 DEF FoundOK, RowsOK
  <2>2. StageOK(asked[e], v)
    BY <1>2 DEF StageOK
  <2>3. EntryOK(db, asked[e], v)
    BY <1>2 DEF EntryOK, HoldsIn
  <2> QED
    BY <2>1, <2>2, <2>3
<1>6. doing' \in [Entries -> CallStates] /\ \A e \in Entries : doing'[e] = v \/ doing'[e] = doing[e]
  BY <1>2, <1>3, <1>4
<1> QED
  BY <1>3, <1>5, <1>6 DEF PipeInv

\* The initial state: no call was made.
LEMMA PipeInitInv ==
  ASSUME PipeInit
  PROVE  PipeInv
<1>1. RowsOK(db)
  BY DEF PipeInit, RowsOK
<1>2. doing = [e \in Entries |-> NotCalled] /\ late = {} /\ excused = {}
  BY DEF PipeInit
<1>3. NotCalled.at = "idle" /\ NotCalled.repo = 0 /\ NotCalled.step = 0 /\ NotCalled.pr = 0
      /\ NotCalled \in CallStates
  BY DEF NotCalled, CallStates, Stages
<1>4. \A e \in Entries : FoundOK(db, asked[e], doing[e]) /\ StageOK(asked[e], doing[e])
  BY <1>1, <1>2, <1>3 DEF FoundOK, StageOK, RowsOK
<1>5. \A e \in Entries : EntryOK(db, asked[e], doing[e])
  BY <1>2, <1>3 DEF EntryOK, HoldsIn
<1> QED
  BY <1>1, <1>2, <1>3, <1>4, <1>5 DEF PipeInv

\* Every step keeps the invariant.
LEMMA PipeInductive ==
  ASSUME PipeInv, [PipeNext]_pipeVars
  PROVE  PipeInv'
<1>1. ASSUME NEW e \in Entries, Call(CallOf[e]) PROVE PipeInv'
  BY <1>1, CallStep
<1>2. ASSUME NEW e \in Entries, Take(e) PROVE PipeInv'
  BY <1>2, TakeStep
<1>3. ASSUME NEW e \in Entries, Request(e) PROVE PipeInv'
  BY <1>3, GetRepoStep, GetStepsStep, GetPrsStep, PostStep, ActStep, TimesOutStep DEF Request
<1>4. ASSUME NEW q \in late, ServedLate(q) PROVE PipeInv'
  BY <1>4, ServedLateStep
<1>5. RowsOK(db)
  BY DEF PipeInv
<1>6. ASSUME NEW s \in db.steps, DeleteStep(s) PROVE PipeInv'
  BY <1>5, <1>6, WithoutStepIs, GuiStep DEF DeleteStep
<1>7. ASSUME NEW s \in db.steps, NEW name \in StepNames, RenameStep(s, name) PROVE PipeInv'
  BY <1>5, <1>7, RenamedEvolves, GuiStep DEF RenameStep
<1>8. ASSUME NEW name \in StepNames, AddStep(name) PROVE PipeInv'
  BY <1>5, <1>8, WithStepHas, GuiStep DEF AddStep
<1>9. ASSUME NEW r \in db.repos, DeleteRepo(r) PROVE PipeInv'
  <2>1. PICK R : R = db.repos \ {r}
    OBVIOUS
  <2>2. PICK d : d = [db EXCEPT !.repos = R]
    OBVIOUS
  <2>3. d = [db EXCEPT !.repos = @ \ {r}]
    BY <1>5, <2>1, <2>2 DEF RowsOK
  <2>3a. d = [steps |-> db.steps, repos |-> R, prs |-> db.prs, last |-> db.last]
    BY <1>5, <2>2 DEF RowsOK
  <2>4. Evolves(db, d)
    <3>1. R \in SUBSET db.repos
      BY <2>1
    <3> QED
      BY <1>5, <2>3a, <3>1, FewerRows
  <2>5. Gui(d)
    BY <1>9, <2>3 DEF DeleteRepo
  <2> QED
    BY <2>4, <2>5, GuiStep
<1>10. CASE UNCHANGED pipeVars
  BY <1>10 DEF PipeInv, pipeVars
<1> QED
  BY <1>1, <1>2, <1>3, <1>4, <1>6, <1>7, <1>8, <1>9, <1>10 DEF PipeNext

\* The invariant implies what the property says of every entry.
LEMMA PipeInvImplies == PipeInv => BatchesAreHonest
<1> SUFFICES ASSUME PipeInv, NEW e \in Entries \ excused
             PROVE  /\ doing[e].at # "failed"
                    /\ doing[e].at = "ok" /\ asked[e].tool = "register_pr" => Holds(db, e) /\ Registered(db, e)
  BY DEF BatchesAreHonest
<1>1. EntryOK(db, asked[e], doing[e])
  BY DEF PipeInv
<1> QED
  BY <1>1, HoldsIs DEF EntryOK

\* What the calls of the agents' tools have found and done, in every state.
THEOREM PipeInvariant == PipeSpec => []PipeInv
  BY PipeInitInv, PipeInductive, PTL DEF PipeSpec

\* mcp.ts:77-85, 150-175: for any number of calls and entries, an entry fails
\* only if a request was lost or somebody took away what it had found, and what
\* it reports as registered is there, in the step it named.
THEOREM ToolsAreHonest == PipeSpec => []BatchesAreHonest
  BY PipeInvariant, PipeInvImplies, PTL

\* The entries and requests of calls have their types, and name ids that were given out.
THEOREM PipeTypes == PipeSpec => []PipeTypeOK
<1> DEFINE Asked == asked \in Kinds /\ troubles \in 0..MaxTroubles
<1>1. PipeInit => Asked
  BY PipelineConstants DEF PipeInit
<1>2. Asked /\ [PipeNext]_pipeVars => Asked'
  <2> SUFFICES ASSUME Asked, [PipeNext]_pipeVars
               PROVE  /\ asked' = asked
                      /\ troubles' = troubles \/ (troubles < MaxTroubles /\ troubles' = troubles + 1)
    BY PipelineConstants
  <2>1. \A d : Gui(d) => asked' = asked /\ troubles < MaxTroubles /\ troubles' = troubles + 1
    BY DEF Gui
  <2>2. ASSUME NEW e \in Entries, Call(CallOf[e]) \/ Take(e) PROVE UNCHANGED <<asked, troubles>>
    BY <2>2 DEF Call, Take
  <2>3. ASSUME NEW e \in Entries, Request(e), ~TimesOut(e) PROVE UNCHANGED <<asked, troubles>>
    BY <2>3 DEF Request, GetRepo, GetSteps, GetPrs, Post, Act
  <2>4. ASSUME NEW e \in Entries, TimesOut(e)
        PROVE  asked' = asked /\ troubles < MaxTroubles /\ troubles' = troubles + 1
    BY <2>4 DEF TimesOut
  <2>5. ASSUME NEW q \in late, ServedLate(q) PROVE UNCHANGED <<asked, troubles>>
    BY <2>5 DEF ServedLate
  <2>6. ASSUME NEW s \in db.steps, DeleteStep(s) \/ \E name \in StepNames : RenameStep(s, name)
        PROVE  asked' = asked /\ troubles < MaxTroubles /\ troubles' = troubles + 1
    BY <2>1, <2>6 DEF DeleteStep, RenameStep
  <2>7. ASSUME NEW name \in StepNames, AddStep(name)
        PROVE  asked' = asked /\ troubles < MaxTroubles /\ troubles' = troubles + 1
    BY <2>1, <2>7 DEF AddStep
  <2>8. ASSUME NEW r \in db.repos, DeleteRepo(r)
        PROVE  asked' = asked /\ troubles < MaxTroubles /\ troubles' = troubles + 1
    BY <2>1, <2>8 DEF DeleteRepo
  <2>9. CASE UNCHANGED pipeVars
    BY <2>9 DEF pipeVars
  <2> QED
    BY <2>2, <2>3, <2>4, <2>5, <2>6, <2>7, <2>8, <2>9 DEF PipeNext
<1>3. PipeInv /\ Asked => PipeTypeOK
  <2> SUFFICES ASSUME PipeInv, Asked, NEW e \in Entries
               PROVE  {doing[e].repo, doing[e].step, doing[e].pr} \subseteq 0..db.last
    BY DEF PipeInv, PipeTypeOK
  <2>1. doing[e] \in CallStates /\ RowsOK(db) /\ FoundOK(db, asked[e], doing[e])
    BY DEF PipeInv
  <2>2. doing[e].repo \in Nat /\ doing[e].step \in Nat /\ doing[e].pr \in Nat /\ db.last \in Nat
    BY <2>1 DEF CallStates, RowsOK
  <2> QED
    BY <2>1, <2>2 DEF FoundOK
<1> HIDE DEF Asked
<1> QED
  BY <1>1, <1>2, <1>3, PipeInvariant, PTL DEF PipeSpec

=============================================================================
