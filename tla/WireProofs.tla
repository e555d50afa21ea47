----------------------------- MODULE WireProofs -----------------------------
(***************************************************************************)
(* Proofs about what machines send each other: the shared services         *)
(* (Services), the relayed terminal streams (Streams) and the PRs read     *)
(* from GitHub (Sync).  The three share no state; each has an invariant of *)
(* its own.                                                                *)
(***************************************************************************)
EXTENDS Services, Streams, Sync, SequenceTheorems, TLAPS

-----------------------------------------------------------------------------
(***************************************************************************)
(* Services: for any machines, ports and services.                         *)
(***************************************************************************)

\* A message on its way is of one of two kinds.
WireTypes ==
  \A h \in Machines :
    /\ wire[h].kind = "up" => wire[h].statuses \in Statuses
    /\ wire[h].kind = "down" => wire[h].serves \subseteq Ports /\ wire[h].expose \subseteq ExposeSpec

\* The state of every machine.
SvcDomains ==
  /\ DOMAIN wire = Machines /\ DOMAIN running = Machines /\ DOMAIN relays = Machines
  /\ DOMAIN conflicts = Machines /\ DOMAIN served = Machines /\ DOMAIN conns = Machines
  /\ DOMAIN taken = Machines /\ DOMAIN starts = Machines

\* The invariant.
SvcInv == SvcTypeOK /\ SvcDomains /\ WireTypes /\ ConnectionsNeedTheirPort

\* The initial state: nothing runs.
LEMMA SvcInitInv == SvcInit => SvcInv
  BY ServiceConstants DEF SvcInit, SvcInv, SvcTypeOK, SvcDomains, WireTypes, ConnectionsNeedTheirPort, Idle, Statuses

\* What a machine is assigned: ports it serves and services it exposes.
LEMMA AssignmentsType ==
  ASSUME SvcTypeOK, NEW h, NEW known
  PROVE  Serves(h) \subseteq Ports /\ Exposes(h, known) \subseteq ExposeSpec
<1>1. \A i \in Enabled : i \in ServiceIds /\ services[i] \in Definitions
  BY DEF Enabled, SvcTypeOK
<1>2. \A i \in Enabled : services[i].source \in Machines /\ services[i].port \in Ports /\ services[i].local \in Ports
  BY <1>1, ServiceConstants
<1>4. ASSUME NEW i \in Enabled PROVE SpecFor(i, known) \in ExposeSpec
  <2>1. PICK url \in BOOLEAN : url = (services[i].source \in known)
    <3>1. CASE services[i].source \in known
      BY <3>1, Zenon
    <3>2. CASE services[i].source \notin known
      <4>1. (services[i].source \in known) = FALSE
        BY <3>2
      <4> QED
        BY <4>1
    <3> QED
      BY <3>1, <3>2
  <2>2. SpecFor(i, known) = [id |-> i, source |-> services[i].source, url |-> url,
                             port |-> services[i].port, local |-> services[i].local]
    BY <2>1 DEF SpecFor
  <2> QED
    BY <1>1, <1>2, <2>2 DEF ExposeSpec
<1>5. Serves(h) \subseteq Ports
  BY <1>2 DEF Serves
<1>6. Exposes(h, known) \subseteq ExposeSpec
  BY <1>4 DEF Exposes, ExposesOn
<1> QED
  BY <1>5, <1>6

\* A relay that is still wanted is there afterwards.
LEMMA AppliedType ==
  ASSUME NEW r \in RelayRecords \union {NoRelay}, NEW first \in SUBSET ExposeSpec
  PROVE  /\ first = {} => Applied(r, first) = NoRelay
         /\ first # {} => Applied(r, first) \in RelayRecords
<1>1. CASE first # {}
  <2> DEFINE s == CHOOSE s \in first : TRUE
  <2>1. s \in ExposeSpec
    BY <1>1
  <2> HIDE DEF s
  <2>2. Fresh(s) \in RelayRecords
    BY <2>1 DEF Fresh, RelayRecords, RelayStates
  <2>3. r # NoRelay => [r EXCEPT !.spec = s] \in RelayRecords
    BY <2>1 DEF RelayRecords
  <2>4. Applied(r, first) \in {Fresh(s), [r EXCEPT !.spec = s]} /\ (r = NoRelay => Applied(r, first) = Fresh(s))
    BY <1>1 DEF Applied, s
  <2> QED
    BY <1>1, <2>2, <2>3, <2>4
<1> QED
  BY <1>1 DEF Applied

\* What a machine reports of its relays.
LEMMA StatusesType ==
  ASSUME SvcTypeOK, NEW h \in Machines
  PROVE  RelayStatuses(h) \in Statuses
  BY DEF SvcTypeOK, RelayStatuses, Statuses, RelayRecords, ExposeSpec, RelayStates

\* Every step keeps the invariant.
LEMMA SvcInductive == SvcInv /\ [SvcNext]_svcVars => SvcInv'
<1> SUFFICES ASSUME SvcInv, [SvcNext]_svcVars PROVE SvcInv'
  OBVIOUS
<1>0. SvcTypeOK /\ SvcDomains /\ WireTypes /\ ConnectionsNeedTheirPort
  BY DEF SvcInv
<1> USE DEF SvcTypeOK, SvcDomains, WireTypes, ConnectionsNeedTheirPort, SvcInv
<1>1. ASSUME NEW i \in ServiceIds, NEW d \in Definitions \union {NoDefinition}, EditService(i, d)
      PROVE  SvcInv'
  BY <1>0, <1>1 DEF EditService, svcMachine
<1>2. ASSUME NEW h \in Machines, SendReport(h) PROVE SvcInv'
  BY <1>0, <1>2, StatusesType DEF SendReport, svcMachine
<1>3. ASSUME NEW h \in Machines, ReportArrives(h) PROVE SvcInv'
  BY <1>0, <1>3, AssignmentsType DEF ReportArrives, svcMachine
<1>4. ASSUME NEW h \in Machines, ReplyArrives(h) PROVE SvcInv'
  <2> DEFINE expose == wire[h].expose
  <2>1. expose \subseteq ExposeSpec /\ wire[h].serves \subseteq Ports
    BY <1>0, <1>4 DEF ReplyArrives
  <2>2. \A p \in Ports : FirstOn(expose, p) \in SUBSET ExposeSpec
    BY <2>1 DEF FirstOn
  <2>3. /\ relays' = [relays EXCEPT ![h] = [p \in Ports |-> Applied(relays[h][p], FirstOn(expose, p))]]
        /\ conns' = [conns EXCEPT ![h] = SocketsLeft(h, {p \in Ports : FirstOn(expose, p) = {}})]
        /\ served' = [served EXCEPT ![h] = wire[h].serves]
        /\ conflicts' = [conflicts EXCEPT ![h] = {s.id : s \in {t \in expose : t \notin FirstOn(expose, t.local)}}]
        /\ wire' = [wire EXCEPT ![h] = Idle]
        /\ UNCHANGED <<services, heard, reported, running, taken, edits, takes, starts>>
    BY <1>4 DEF ReplyArrives, ApplyAssignments
  <2>4. \A p \in Ports : relays[h][p] \in RelayRecords \union {NoRelay}
    BY <1>0
  <2>5. \A p \in Ports : /\ relays'[h][p] \in RelayRecords \union {NoRelay}
                         /\ FirstOn(expose, p) # {} => relays'[h][p] \in RelayRecords
    BY <1>0, <2>2, <2>3, <2>4, AppliedType
  <2>6. relays'[h] \in [Ports -> RelayRecords \union {NoRelay}]
    BY <1>0, <2>3, <2>5
  <2>7. conflicts'[h] \subseteq ServiceIds
    BY <1>0, <2>1, <2>3 DEF ExposeSpec
  <2>8. conns'[h] \subseteq conns[h] /\ \A c \in conns'[h] : relays'[h][c.at] # NoRelay
    BY <1>0, <2>3, <2>5, NoRelayIsNone DEF SocketsLeft
  <2>9. \A g \in Machines : g # h => relays'[g] = relays[g] /\ conns'[g] = conns[g] /\ conflicts'[g] = conflicts[g]
                                     /\ served'[g] = served[g] /\ wire'[g] = wire[g]
    BY <1>0, <2>3
  <2>10. ConnectionsNeedTheirPort'
    BY <1>0, <2>8, <2>9
  <2>11. SvcTypeOK'
    BY <1>0, <2>1, <2>3, <2>6, <2>7, <2>8, <2>9 DEF Idle
  <2> QED
    BY <1>0, <2>3, <2>9, <2>10, <2>11 DEF Idle
<1>5. ASSUME NEW h \in Machines, LoseCall(h) PROVE SvcInv'
  BY <1>0, <1>5 DEF LoseCall, svcMachine, Idle
<1>6. ASSUME NEW h \in Machines, StopMachine(h) PROVE SvcInv'
  BY <1>0, <1>6 DEF StopMachine, CloseRelays, Statuses
<1>7. ASSUME NEW h \in Machines, ExitMachine(h) PROVE SvcInv'
  BY <1>0, <1>7 DEF ExitMachine, CloseRelays, Idle
<1>8. ASSUME NEW h \in Machines, StartMachine(h) PROVE SvcInv'
  BY <1>0, <1>8 DEF StartMachine, Idle
<1>9. ASSUME NEW h \in Machines, NEW p \in Ports, Bind(h, p) PROVE SvcInv'
  <2>1. relays[h][p] \in RelayRecords
    BY <1>0, <1>9 DEF Bind
  <2>2. PICK st \in RelayStates : relays' = [relays EXCEPT ![h][p].state = st]
    BY <1>9 DEF Bind, RelayStates
  <2>3. PICK r : r = [relays[h][p] EXCEPT !.state = st]
    OBVIOUS
  <2>4. r \in RelayRecords
    BY <2>1, <2>3 DEF RelayRecords
  <2>5. relays' = [relays EXCEPT ![h] = [relays[h] EXCEPT ![p] = r]]
    BY <2>2, <2>3
  <2> QED
    BY <1>0, <1>9, <2>4, <2>5, NoRelayIsNone DEF Bind
<1>10. ASSUME NEW h \in Machines, NEW p \in Ports, TakePort(h, p) PROVE SvcInv'
  BY <1>0, <1>10 DEF TakePort, svcMachine
<1>11. ASSUME NEW h \in Machines, NEW p \in Ports, Connect(h, p) PROVE SvcInv'
  <2>1. relays[h][p] \in RelayRecords /\ relays[h][p] # NoRelay /\ relays[h][p].spec \in ExposeSpec
    BY <1>0, <1>11 DEF Connect, RelayRecords
  <2> QED
    BY <1>0, <1>11, <2>1 DEF Connect
<1>12. ASSUME NEW h \in Machines, NEW c \in conns[h], Disconnect(h, c) PROVE SvcInv'
  BY <1>0, <1>12 DEF Disconnect
<1>13. CASE UNCHANGED svcVars
  BY <1>0, <1>13 DEF svcVars, svcMachine
<1> QED
  BY <1>1, <1>2, <1>3, <1>4, <1>5, <1>6, <1>7, <1>8, <1>9, <1>10, <1>11, <1>12, <1>13 DEF SvcNext

\* For any machines, ports and services: the types of the state and of what is
\* on its way.
THEOREM ServiceInvariant == SvcSpec => []SvcInv
  BY SvcInitInv, SvcInductive, PTL DEF SvcSpec

\* In every state of every instance, no connection is open through a port that
\* its machine is no longer assigned.
THEOREM WithdrawnPortsAreClosed == SvcSpec => []ConnectionsNeedTheirPort
<1>1. SvcInv => ConnectionsNeedTheirPort
  BY DEF SvcInv
<1> QED
  BY <1>1, ServiceInvariant, PTL

-----------------------------------------------------------------------------
(***************************************************************************)
(* Streams: for any number of relays, keys, chunks and size of the buffer. *)
(***************************************************************************)

\* The relays are set up one after the other; the last one is the subscriber.
ChainInOrder ==
  /\ viewer = "new" => hop[1] = "absent"
  /\ \A k \in Relays : k < Hops /\ hop[k] \in {"absent", "early", "connecting"} => hop[k + 1] = "absent"
  /\ \A k \in Relays : hop[k] = "open" => held[k] = <<>>
  /\ attached => hop[Hops] = "open"
  /\ hop[Hops] \in {"absent", "early", "connecting"} => seen = <<>> /\ \A k \in 0..Hops : back[k] = <<>>

\* A piece of a stream: what comes after number a, up to number b.
Piece(a, b, s) == a <= b /\ s = Numbers(a + 1, b)

\* Where the typed keys are: relay k was given those up to p[k], and holds back
\* those up to q[k].  The PTY, behind the last relay, was given those up to
\* q[Hops + 1].
KeysAt(k, p, q) == Piece(p[k + 1], q[k], held[k]) /\ Piece(q[k], p[k], keys[k])

\* All relays that are left, and the PTY, at these positions.
KeysFrom(p, q) ==
  /\ p[1] = typed
  /\ \A k \in Relays : hop[k] # "gone" => KeysAt(k, p, q)
  /\ Piece(q[Hops + 1], p[Hops + 1], keys[Hops + 1])
  /\ exec = "live" => q[Hops + 1] = Len(got)

\* Positions in what was typed.
KeyPositions == [1..(Hops + 1) -> 0..typed]

\* Every key is at its place on the way, at some positions.
KeysAreSomewhere == \E p, q \in KeyPositions : KeysFrom(p, q)

\* Relay k, or the viewer if k is 0, still takes output.
Passes(k) == IF k = 0 THEN viewer # "closed" ELSE hop[k] # "gone"

\* Where the output is: the viewer got what follows o, up to e, and the rest up
\* to the last chunk made is in the pieces between the cuts.
OutputFrom(o, e, cut) ==
  /\ \A k \in 0..Hops : Passes(k) => Piece(cut[k], cut[k + 1], back[k])
  /\ Piece(o, e, seen)
  /\ viewer # "closed" => cut[0] = e
  /\ attached => cut[Hops + 1] = made /\ (made > 0 => o < made)

\* Positions in what was made.
Cuts == [0..(Hops + 1) -> 0..made]

\* Every chunk is at its place on the way, at some cuts.
OutputIsSomewhere == \E o, e \in 0..made, cut \in Cuts : OutputFrom(o, e, cut)

\* The buffer holds the last chunks, at least one.
RingHolds == \E r \in 0..made : Piece(r, made, ring) /\ (made > 0 => r < made)

\* The invariant.
StreamInv ==
  /\ StreamTypeOK /\ ChainInOrder /\ KeysInOrder /\ RingHolds
  /\ KeysAreSomewhere /\ OutputIsSomewhere

-----------------------------------------------------------------------------
\* The numbers from m to b.
LEMMA NumbersAre ==
  ASSUME NEW m \in Nat, NEW b \in Nat, m <= b + 1
  PROVE  /\ Numbers(m, b) \in Seq(Nat) /\ Len(Numbers(m, b)) = b + 1 - m /\ b + 1 - m \in Nat
         /\ \A i \in 1..(b + 1 - m) : Numbers(m, b)[i] = m + i - 1
         /\ Numbers(m, b) = <<>> <=> m = b + 1
<1>1. b + 1 - m \in Nat
  OBVIOUS
<1>2. Numbers(m, b) = [i \in 1..(b + 1 - m) |-> m + i - 1]
  BY DEF Numbers
<1>3. \A i \in 1..(b + 1 - m) : m + i - 1 \in Nat
  OBVIOUS
<1>4. Numbers(m, b) \in Seq(Nat) /\ Len(Numbers(m, b)) = b + 1 - m
  BY <1>1, <1>2, <1>3
<1>5. Numbers(m, b) = <<>> <=> m = b + 1
  BY <1>1, <1>4
<1> QED
  BY <1>1, <1>2, <1>4, <1>5

\* The first of them, and the rest.
LEMMA NumbersHead ==
  ASSUME NEW m \in Nat, NEW b \in Nat, m <= b
  PROVE  Head(Numbers(m, b)) = m /\ Tail(Numbers(m, b)) = Numbers(m + 1, b)
<1> DEFINE n == Numbers(m, b)
           l == Numbers(m + 1, b)
<1>1. n \in Seq(Nat) /\ Len(n) = b + 1 - m /\ \A i \in 1..(b + 1 - m) : n[i] = m + i - 1
  BY NumbersAre
<1>0. m + 1 \in Nat /\ m + 1 <= b + 1 /\ b + 1 - (m + 1) = b - m /\ b - m \in Nat
  OBVIOUS
<1>2. l \in Seq(Nat) /\ Len(l) = b - m /\ \A i \in 1..(b - m) : l[i] = m + 1 + i - 1
  <2>1. /\ l \in Seq(Nat) /\ Len(l) = b + 1 - (m + 1)
        /\ \A i \in 1..(b + 1 - (m + 1)) : l[i] = m + 1 + i - 1
    BY <1>0, NumbersAre
  <2> HIDE DEF l
  <2> QED
    BY <1>0, <2>1
<1> HIDE DEF n, l
<1>3. n # <<>> /\ Head(n) = n[1] /\ 1 \in 1..(b + 1 - m)
  BY <1>1
<1>4. Tail(n) \in Seq(Nat) /\ Len(Tail(n)) = b - m
  BY <1>1, <1>3
<1>5. \A i \in 1..(b - m) : Tail(n)[i] = l[i]
  BY <1>1, <1>2, <1>3
<1>6. Tail(n) = l
  BY <1>2, <1>4, <1>5, SeqEqual
<1>7. n[1] = m
  BY <1>1, <1>3
<1> QED
  BY <1>3, <1>6, <1>7 DEF n, l

\* One more at the end.
LEMMA NumbersAppend ==
  ASSUME NEW m \in Nat, NEW b \in Nat, m <= b + 1
  PROVE  Append(Numbers(m, b), b + 1) = Numbers(m, b + 1)
<1> DEFINE n == Numbers(m, b)
           l == Numbers(m, b + 1)
<1>0. b + 1 \in Nat /\ m <= b + 1 + 1
  OBVIOUS
<1>1. n \in Seq(Nat) /\ Len(n) = b + 1 - m /\ \A i \in 1..(b + 1 - m) : n[i] = m + i - 1
  BY NumbersAre
<1>2. l \in Seq(Nat) /\ Len(l) = b + 2 - m /\ \A i \in 1..(b + 2 - m) : l[i] = m + i - 1
  BY <1>0, NumbersAre
<1> HIDE DEF n, l
<1>3. Append(n, b + 1) \in Seq(Nat) /\ Len(Append(n, b + 1)) = b + 2 - m
  BY <1>1
<1>4. \A i \in 1..(b + 2 - m) : Append(n, b + 1)[i] = l[i]
  BY <1>1, <1>2
<1>5. Append(n, b + 1) = l
  BY <1>2, <1>3, <1>4, SeqEqual
<1> QED
  BY <1>5 DEF n, l

\* Two runs of numbers that follow each other.
LEMMA NumbersConcat ==
  ASSUME NEW m \in Nat, NEW b \in Nat, NEW c \in Nat, m <= b + 1, b <= c
  PROVE  Numbers(m, b) \o Numbers(b + 1, c) = Numbers(m, c)
<1> DEFINE n == Numbers(m, b)
           k == Numbers(b + 1, c)
           l == Numbers(m, c)
<1>0. b + 1 \in Nat /\ b + 1 <= c + 1 /\ c + 1 - (b + 1) = c - b /\ m <= c + 1
  OBVIOUS
<1>1. n \in Seq(Nat) /\ Len(n) = b + 1 - m /\ \A i \in 1..(b + 1 - m) : n[i] = m + i - 1
  BY NumbersAre
<1>2. k \in Seq(Nat) /\ Len(k) = c - b /\ \A i \in 1..(c - b) : k[i] = b + i
  <2>1. Len(k) = c - b /\ \A i \in 1..(c - b) : k[i] = b + 1 + i - 1
    <3>1. Len(k) = c + 1 - (b + 1) /\ \A i \in 1..(c + 1 - (b + 1)) : k[i] = b + 1 + i - 1
      BY <1>0, NumbersAre
    <3> HIDE DEF k
    <3> QED
      BY <1>0, <3>1
  <2>2. \A i \in 1..(c - b) : b + 1 + i - 1 = b + i
    OBVIOUS
  <2>3. k \in Seq(Nat)
    BY <1>0, NumbersAre
  <2> QED
    BY <2>1, <2>2, <2>3
<1>3. l \in Seq(Nat) /\ Len(l) = c + 1 - m /\ \A i \in 1..(c + 1 - m) : l[i] = m + i - 1
  BY <1>0, NumbersAre
<1> HIDE DEF n, k, l
<1>4. n \o k \in Seq(Nat) /\ Len(n \o k) = c + 1 - m
  <2>1. n \o k \in Seq(Nat) /\ Len(n \o k) = Len(n) + Len(k)
    BY <1>1, <1>2, ConcatProperties
  <2>2. b + 1 - m + (c - b) = c + 1 - m
    OBVIOUS
  <2> QED
    BY <1>1, <1>2, <2>1, <2>2
<1>5. ASSUME NEW i \in 1..(c + 1 - m) PROVE (n \o k)[i] = l[i]
  <2>1. (n \o k)[i] = IF i <= b + 1 - m THEN n[i] ELSE k[i - (b + 1 - m)]
    BY <1>1, <1>2, ConcatProperties
  <2>2. CASE i <= b + 1 - m
    BY <1>1, <1>3, <2>1, <2>2
  <2>3. CASE i > b + 1 - m
    <3>1. i - (b + 1 - m) \in 1..(c - b) /\ b + (i - (b + 1 - m)) = m + i - 1
      BY <2>3
    <3> QED
      BY <1>2, <1>3, <2>1, <2>3, <3>1
  <2>4. i <= b + 1 - m \/ i > b + 1 - m
    OBVIOUS
  <2> QED
    BY <2>2, <2>3, <2>4
<1>6. n \o k = l
  BY <1>3, <1>4, <1>5, SeqEqual
<1> QED
  BY <1>6 DEF n, k, l

\* The bounds of a piece move.
LEMMA BoundMoves ==
  ASSUME NEW I, NEW t \in Nat, NEW u \in Nat, t <= u, NEW f \in [I -> 0..t],
         NEW j \in I, NEW v \in 0..u
  PROVE  /\ f \in [I -> 0..u] /\ [f EXCEPT ![j] = v] \in [I -> 0..u]
         /\ [f EXCEPT ![j] = v][j] = v
         /\ \A i \in I : i # j => [f EXCEPT ![j] = v][i] = f[i]
  OBVIOUS

\* What a piece that is not empty gives away is its first number.
LEMMA PieceGives ==
  ASSUME NEW a \in Nat, NEW b \in Nat, NEW s, Piece(a, b, s), s # <<>>
  PROVE  a < b /\ Head(s) = a + 1 /\ Piece(a + 1, b, Tail(s))
<1>1. a + 1 \in Nat /\ a + 1 <= b + 1 /\ s = Numbers(a + 1, b)
  BY DEF Piece
<1>2. a + 1 # b + 1
  BY <1>1, NumbersAre
<1>3. a + 1 <= b
  BY <1>1, <1>2
<1> QED
  BY <1>1, <1>3, NumbersHead DEF Piece

\* A piece that gets the next number is a longer one.
LEMMA PieceGets ==
  ASSUME NEW a \in Nat, NEW b \in Nat, NEW s, Piece(a, b, s)
  PROVE  Piece(a, b + 1, Append(s, b + 1))
<1>1. a <= b /\ a + 1 \in Nat /\ a + 1 <= b + 1 /\ s = Numbers(a + 1, b)
  BY DEF Piece
<1>2. Append(Numbers(a + 1, b), b + 1) = Numbers(a + 1, b + 1)
  BY <1>1, NumbersAppend
<1>3. a <= b + 1
  BY <1>1
<1> QED
  BY <1>1, <1>2, <1>3 DEF Piece

\* The empty pieces.
LEMMA EmptyPiece ==
  ASSUME NEW a \in Nat, NEW b \in Nat
  PROVE  Piece(a, b, <<>>) <=> a = b
<1>1. CASE a <= b
  <2>1. a + 1 \in Nat /\ a + 1 <= b + 1 /\ (a + 1 = b + 1 <=> a = b)
    BY <1>1
  <2> QED
    BY <1>1, <2>1, NumbersAre DEF Piece
<1>2. CASE ~(a <= b)
  BY <1>2 DEF Piece
<1> QED
  BY <1>1, <1>2

\* A piece and the one behind it.
LEMMA PiecesJoin ==
  ASSUME NEW a \in Nat, NEW b \in Nat, NEW c \in Nat, NEW s, NEW t, Piece(a, b, s), Piece(b, c, t)
  PROVE  Piece(a, c, s \o t)
<1>1. a + 1 \in Nat /\ a + 1 <= b + 1 /\ a <= b /\ b <= c
  BY DEF Piece
<1>2. Numbers(a + 1, b) \o Numbers(b + 1, c) = Numbers(a + 1, c)
  BY <1>1, NumbersConcat
<1>3. a <= c /\ s = Numbers(a + 1, b) /\ t = Numbers(b + 1, c)
  BY <1>1 DEF Piece
<1> QED
  BY <1>2, <1>3 DEF Piece

-----------------------------------------------------------------------------
\* An element goes from one sequence to another.
LEMMA MovedType ==
  ASSUME NEW S, NEW I, NEW f \in [I -> Seq(S)], NEW j \in I, NEW k \in I, f[j] # <<>>
  PROVE  /\ Tail(f[j]) \in Seq(S) /\ Head(f[j]) \in S /\ Append(f[k], Head(f[j])) \in Seq(S)
         /\ Append(f[j], Head(f[j])) \in Seq(S)
<1>1. f[j] \in Seq(S) /\ f[k] \in Seq(S)
  OBVIOUS
<1> QED
  BY <1>1, HeadTailProperties

\* The types are kept.
LEMMA StreamTypeStep ==
  ASSUME StreamTypeOK, ChainInOrder, [StreamNext]_streamVars
  PROVE  StreamTypeOK'
<1> USE DEF StreamTypeOK
<1>0. /\ Hops \in Nat \ {0} /\ MaxKeys \in Nat /\ MaxChunks \in Nat /\ RingSize \in Nat \ {0}
      /\ \A k \in Relays : k \in 1..(Hops + 1) /\ k + 1 \in 1..(Hops + 1) /\ k \in 0..Hops /\ k - 1 \in 0..Hops
      /\ Hops \in 0..Hops /\ 0 \in 0..Hops /\ 1 \in Relays /\ 1 \in 1..(Hops + 1) /\ Hops + 1 \in 1..(Hops + 1)
  BY StreamConstants DEF Relays
<1>1. CASE ViewerConnects
  BY <1>0, <1>1 DEF ViewerConnects, keyVars, outVars
<1>2. CASE TypeKey
  <2>1. typed + 1 \in 1..MaxKeys /\ typed + 1 \in 0..MaxKeys
    BY <1>0, <1>2 DEF TypeKey
  <2>2. keys[1] \in Seq(1..MaxKeys)
    BY <1>0
  <2>3. Append(keys[1], typed + 1) \in Seq(1..MaxKeys)
    BY <2>1, <2>2
  <2> QED
    BY <1>0, <1>2, <2>1, <2>3 DEF TypeKey, outVars
<1>3. CASE WriteKey
  <2>1. Tail(keys[Hops + 1]) \in Seq(1..MaxKeys) /\ Head(keys[Hops + 1]) \in 1..MaxKeys
    <3>1. keys[Hops + 1] \in Seq(1..MaxKeys) /\ keys[Hops + 1] # <<>>
      BY <1>0, <1>3 DEF WriteKey
    <3> QED
      BY <3>1, HeadTailProperties
  <2>2. Append(got, Head(keys[Hops + 1])) \in Seq(1..MaxKeys)
    BY <2>1
  <2> QED
    BY <1>0, <1>3, <2>1, <2>2 DEF WriteKey, outVars
<1>4. CASE Output
  <2>1. made + 1 \in 1..MaxChunks /\ made + 1 \in 0..MaxChunks
    BY <1>0, <1>4 DEF Output
  <2>2. Append(ring, made + 1) \in Seq(1..MaxChunks) /\ Append(ring, made + 1) # <<>>
        /\ back[Hops] \in Seq(1..MaxChunks)
    BY <1>0, <2>1
  <2>3. Tail(Append(ring, made + 1)) \in Seq(1..MaxChunks) /\ Append(back[Hops], made + 1) \in Seq(1..MaxChunks)
    BY <2>1, <2>2, HeadTailProperties
  <2>4. ring' \in Seq(1..MaxChunks)
    BY <1>4, <2>2, <2>3 DEF Output
  <2>5. back' \in [0..Hops -> Seq(1..MaxChunks)]
    BY <1>0, <1>4, <2>3 DEF Output
  <2> QED
    BY <1>0, <1>4, <2>1, <2>4, <2>5 DEF Output, keyVars
<1>5. CASE Show
  <2>1. Tail(back[0]) \in Seq(1..MaxChunks) /\ Head(back[0]) \in 1..MaxChunks
    BY <1>0, <1>5, MovedType DEF Show
  <2>2. Append(seen, Head(back[0])) \in Seq(1..MaxChunks)
    BY <2>1
  <2> QED
    BY <1>0, <1>5, <2>1, <2>2 DEF Show, keyVars
<1>6. CASE ViewerCloses
  BY <1>0, <1>6, EmptySeq DEF ViewerCloses, keyVars
<1>7. CASE ExecExits
  BY <1>0, <1>7 DEF ExecExits, keyVars
<1>8. ASSUME NEW k \in Relays, Relay(k) PROVE StreamTypeOK'
  <2>1. /\ Tail(keys[k]) \in Seq(1..MaxKeys) /\ Head(keys[k]) \in 1..MaxKeys
        /\ Append(keys[k + 1], Head(keys[k])) \in Seq(1..MaxKeys) /\ held[k] \in Seq(1..MaxKeys)
    <3>1. /\ keys[k] \in Seq(1..MaxKeys) /\ keys[k] # <<>>
          /\ keys[k + 1] \in Seq(1..MaxKeys) /\ held[k] \in Seq(1..MaxKeys)
      BY <1>0, <1>8 DEF Relay
    <3>2. Tail(keys[k]) \in Seq(1..MaxKeys) /\ Head(keys[k]) \in 1..MaxKeys
      BY <3>1, HeadTailProperties
    <3> QED
      BY <3>1, <3>2, AppendProperties
  <2>2. Append(held[k], Head(keys[k])) \in Seq(1..MaxKeys)
    BY <2>1
  <2>3. keys' \in [1..(Hops + 1) -> Seq(1..MaxKeys)]
    <3>1. CASE hop[k] = "open"
      <4>1. keys' = [keys EXCEPT ![k] = Tail(keys[k]), ![k + 1] = Append(keys[k + 1], Head(keys[k]))]
        BY <1>0, <1>8, <3>1 DEF Relay
      <4> QED
        BY <1>0, <2>1, <4>1
    <3>2. CASE hop[k] # "open"
      BY <1>0, <1>8, <2>1, <3>2 DEF Relay
    <3> QED
      BY <3>1, <3>2
  <2>4. held' \in [Relays -> Seq(1..MaxKeys)]
    BY <1>0, <1>8, <2>2 DEF Relay
  <2> QED
    BY <1>0, <1>8, <2>3, <2>4 DEF Relay, outVars
<1>9. ASSUME NEW k \in Relays, RelayBack(k) PROVE StreamTypeOK'
  <2>1. Tail(back[k]) \in Seq(1..MaxChunks) /\ Append(back[k - 1], Head(back[k])) \in Seq(1..MaxChunks)
    BY <1>0, <1>9, MovedType DEF RelayBack
  <2>2. back' = [back EXCEPT ![k] = Tail(back[k]), ![k - 1] = Append(back[k - 1], Head(back[k]))]
    BY <1>0, <1>9 DEF RelayBack, Relays
  <2> QED
    BY <1>0, <1>9, <2>1, <2>2 DEF RelayBack, keyVars
<1>10. ASSUME NEW k \in Relays, Resolve(k) PROVE StreamTypeOK'
  <2>1. deaf' \in BOOLEAN
    BY <1>10 DEF Resolve
  <2> QED
    BY <1>0, <1>10, <2>1 DEF Resolve, outVars
<1>11. ASSUME NEW k \in Relays, Opens(k) PROVE StreamTypeOK'
  <2>1. keys[k + 1] \o held[k] \in Seq(1..MaxKeys)
    BY <1>0, ConcatProperties
  <2>2. keys' \in [1..(Hops + 1) -> Seq(1..MaxKeys)] /\ held' \in [Relays -> Seq(1..MaxKeys)]
    BY <1>0, <1>11, <2>1, EmptySeq DEF Opens
  <2>3. back' \in [0..Hops -> Seq(1..MaxChunks)] /\ attached' \in BOOLEAN
    BY <1>0, <1>11 DEF Opens, Attached
  <2>4. hop' \in [Relays -> {"absent", "early", "connecting", "open", "gone"}]
    BY <1>0, <1>11 DEF Opens
  <2> QED
    BY <1>0, <1>11, <2>2, <2>3, <2>4 DEF Opens
<1>12. ASSUME NEW k \in Relays, HangUp(k) PROVE StreamTypeOK'
  <2>1. attached' \in BOOLEAN
    BY <1>12 DEF HangUp
  <2> QED
    BY <1>0, <1>12, <2>1, EmptySeq DEF HangUp
<1>13. CASE UNCHANGED streamVars
  BY <1>13 DEF streamVars, keyVars, outVars
<1> QED
  BY <1>1, <1>2, <1>3, <1>4, <1>5, <1>6, <1>7, <1>8, <1>9, <1>10, <1>11, <1>12, <1>13 DEF StreamNext

-----------------------------------------------------------------------------
\* The order in which relays are set up is kept.
LEMMA ChainStep ==
  ASSUME StreamTypeOK, ChainInOrder, [StreamNext]_streamVars
  PROVE  ChainInOrder'
<1> USE DEF StreamTypeOK, ChainInOrder
<1>0. /\ Hops \in Nat /\ Hops > 0 /\ 1 \in Relays /\ Hops \in Relays /\ 0 \in 0..Hops /\ Hops \in 0..Hops
      /\ \A k \in Relays : k \in 1..Hops /\ k \in 0..Hops /\ k - 1 \in 0..Hops /\ (k < Hops => k + 1 \in Relays)
  BY StreamConstants DEF Relays
<1>1. CASE ViewerConnects
  <2>1. /\ hop[1] = "absent" /\ hop' = [hop EXCEPT ![1] = "early"] /\ viewer' = "open"
        /\ UNCHANGED <<held, attached, seen, back>>
    BY <1>0, <1>1 DEF ViewerConnects, keyVars, outVars
  <2>2. ASSUME NEW j \in Relays, j < Hops, hop'[j] \in {"absent", "early", "connecting"}
        PROVE  hop'[j + 1] = "absent"
    <3>1. j + 1 # 1 /\ j + 1 \in Relays
      BY <1>0, <2>2
    <3>2. hop[j] \in {"absent", "early", "connecting"}
      BY <1>0, <2>1, <2>2
    <3> QED
      BY <1>0, <2>1, <2>2, <3>1, <3>2
  <2> QED
    BY <1>0, <2>1, <2>2
<1>2. CASE TypeKey
  BY <1>0, <1>2 DEF TypeKey, outVars
<1>3. CASE WriteKey
  BY <1>0, <1>3 DEF WriteKey, outVars
<1>4. CASE Output
  BY <1>0, <1>4 DEF Output, keyVars
<1>5. CASE Show
  <2>1. hop[Hops] \notin {"absent", "early", "connecting"}
    BY <1>0, <1>5 DEF Show
  <2> QED
    BY <1>0, <1>5, <2>1 DEF Show, keyVars
<1>6. CASE ViewerCloses
  BY <1>0, <1>6 DEF ViewerCloses, keyVars
<1>7. CASE ExecExits
  BY <1>0, <1>7 DEF ExecExits, keyVars
<1>8. ASSUME NEW k \in Relays, Relay(k) PROVE ChainInOrder'
  BY <1>0, <1>8 DEF Relay, outVars
<1>9. ASSUME NEW k \in Relays, RelayBack(k) PROVE ChainInOrder'
  <2>1. hop[Hops] \notin {"absent", "early", "connecting"}
    BY <1>0, <1>9 DEF RelayBack
  <2> QED
    BY <1>0, <1>9, <2>1 DEF RelayBack, keyVars
<1>10. ASSUME NEW k \in Relays, Resolve(k) PROVE ChainInOrder'
  BY <1>0, <1>10 DEF Resolve, outVars
<1>11. ASSUME NEW k \in Relays, Opens(k) PROVE ChainInOrder'
  <2>0. /\ hop[k] = "connecting" /\ (k < Hops => hop[k + 1] = "absent")
        /\ viewer' = viewer /\ seen' = seen /\ held' = [held EXCEPT ![k] = <<>>]
        /\ hop' = [j \in Relays |-> IF j = k THEN "open" ELSE IF j = k + 1 THEN "early" ELSE hop[j]]
    BY <1>0, <1>11 DEF Opens
  <2>1. viewer' = "new" => hop'[1] = "absent"
    <3>1. 1 # k + 1
      BY <1>0
    <3> QED
      BY <1>0, <2>0, <3>1
  <2>2. ASSUME NEW j \in Relays, j < Hops, hop'[j] \in {"absent", "early", "connecting"}
        PROVE  hop'[j + 1] = "absent"
    <3>1. CASE j = k + 1
      BY <1>0, <2>0, <2>2, <3>1
    <3>2. CASE j # k + 1
      <4>1. j # k /\ hop[j] \in {"absent", "early", "connecting"} /\ hop[j + 1] = "absent"
        BY <1>0, <2>0, <2>2, <3>2
      <4>2. j + 1 # k /\ j + 1 # k + 1
        BY <2>0, <4>1, <1>0
      <4> QED
        BY <1>0, <2>0, <2>2, <4>1, <4>2
    <3> QED
      BY <3>1, <3>2
  <2>3. \A j \in Relays : hop'[j] = "open" => held'[j] = <<>>
    BY <2>0
  <2>4. /\ attached' => hop'[Hops] = "open"
        /\ hop'[Hops] \in {"absent", "early", "connecting"} => seen' = <<>> /\ \A j \in 0..Hops : back'[j] = <<>>
    <3>1. CASE k = Hops
      BY <1>0, <2>0, <3>1
    <3>2. CASE k # Hops
      <4>1. attached' = attached /\ back' = back
        BY <1>11, <3>2 DEF Opens
      <4>2. hop'[Hops] = "open" <=> hop[Hops] = "open"
        BY <1>0, <2>0, <3>2
      <4>3. hop'[Hops] \in {"absent", "early", "connecting"} => hop[Hops] \in {"absent", "early", "connecting"}
        BY <1>0, <2>0, <3>2
      <4> QED
        BY <2>0, <4>1, <4>2, <4>3
    <3> QED
      BY <3>1, <3>2
  <2> QED
    BY <2>1, <2>2, <2>3, <2>4
<1>12. ASSUME NEW k \in Relays, HangUp(k) PROVE ChainInOrder'
  <2>0. /\ hop[k] \in {"early", "connecting", "open"} /\ hop' = [hop EXCEPT ![k] = "gone"]
        /\ held' = [held EXCEPT ![k] = <<>>] /\ back' = [back EXCEPT ![k] = <<>>]
        /\ attached' = (attached /\ k # Hops) /\ seen' = seen
        /\ viewer' = IF k = 1 THEN "closed" ELSE viewer
    BY <1>12 DEF HangUp
  <2>1. viewer' = "new" => hop'[1] = "absent"
    BY <1>0, <2>0
  <2>2. ASSUME NEW j \in Relays, j < Hops, hop'[j] \in {"absent", "early", "connecting"}
        PROVE  hop'[j + 1] = "absent"
    BY <1>0, <2>0, <2>2
  <2>3. \A j \in Relays : hop'[j] = "open" => held'[j] = <<>>
    BY <1>0, <2>0
  <2>4. attached' => hop'[Hops] = "open"
    BY <1>0, <2>0
  <2>5. hop'[Hops] \in {"absent", "early", "connecting"} => seen' = <<>> /\ \A j \in 0..Hops : back'[j] = <<>>
    BY <1>0, <2>0
  <2> QED
    BY <2>1, <2>2, <2>3, <2>4, <2>5
<1>13. CASE UNCHANGED streamVars
  BY <1>13 DEF streamVars, keyVars, outVars
<1> QED
  BY <1>1, <1>2, <1>3, <1>4, <1>5, <1>6, <1>7, <1>8, <1>9, <1>10, <1>11, <1>12, <1>13 DEF StreamNext

\* RingHolds is kept.
LEMMA RingStep ==
  ASSUME StreamTypeOK, RingHolds, [StreamNext]_streamVars
  PROVE  RingHolds'
<1>1. CASE Output
  <2>1. PICK r \in 0..made : Piece(r, made, ring) /\ (made > 0 => r < made)
    BY DEF RingHolds
  <2>2. made \in Nat /\ made' = made + 1 /\ r \in Nat /\ r <= made /\ RingSize \in Nat \ {0}
    BY <1>1, <2>1, StreamConstants DEF Output, StreamTypeOK
  <2>3. Piece(r, made + 1, Append(ring, made + 1))
    BY <2>1, <2>2, PieceGets
  <2>4. Len(Append(ring, made + 1)) = made + 1 - r
    <3>1. r + 1 \in Nat /\ made + 1 \in Nat /\ r + 1 <= made + 1 + 1 /\ made + 1 + 1 - (r + 1) = made + 1 - r
      BY <2>2
    <3>2. Len(Numbers(r + 1, made + 1)) = made + 1 + 1 - (r + 1)
      BY <3>1, NumbersAre
    <3> QED
      BY <2>3, <3>1, <3>2 DEF Piece
  <2>5. CASE Len(Append(ring, made + 1)) > RingSize
    <3>1. r + 1 \in 0..made' /\ r + 1 < made'
      BY <2>2, <2>4, <2>5
    <3>2. Append(ring, made + 1) # <<>>
      BY <2>2, <2>4
    <3>3. Piece(r + 1, made + 1, Tail(Append(ring, made + 1)))
      <4>1. made + 1 \in Nat
        BY <2>2
      <4> QED
        BY <2>2, <2>3, <3>2, <4>1, PieceGives
    <3> QED
      BY <1>1, <2>2, <2>5, <3>1, <3>3 DEF RingHolds, Output
  <2>6. CASE ~(Len(Append(ring, made + 1)) > RingSize)
    <3>1. r \in 0..made' /\ r < made'
      BY <2>2
    <3> QED
      BY <1>1, <2>2, <2>3, <2>6, <3>1 DEF RingHolds, Output
  <2> QED
    BY <2>5, <2>6
<1>2. CASE UNCHANGED <<made, ring>>
  BY <1>2 DEF RingHolds, Piece
<1>3. [StreamNext]_streamVars => Output \/ UNCHANGED <<made, ring>>
  BY DEF StreamNext, streamVars, keyVars, outVars, ViewerConnects, TypeKey, WriteKey, Show, ViewerCloses,
         ExecExits, Relay, RelayBack, Resolve, Opens, HangUp
<1> QED
  BY <1>1, <1>2, <1>3

-----------------------------------------------------------------------------
(* The keys: where each action leaves them. *)

\* What the steps below use of the constants and of the positions.
LEMMA KeyFacts ==
  ASSUME StreamTypeOK, NEW p \in KeyPositions, NEW q \in KeyPositions
  PROVE  /\ Hops \in Nat /\ Hops > 0 /\ Hops + 1 \in 1..(Hops + 1) /\ 1 \in 1..(Hops + 1) /\ 1 # Hops + 1
         /\ typed \in Nat /\ DOMAIN keys = 1..(Hops + 1) /\ DOMAIN held = Relays /\ DOMAIN hop = Relays
         /\ \A k \in 1..(Hops + 1) : p[k] \in Nat /\ q[k] \in Nat /\ p[k] \in 0..typed /\ q[k] \in 0..typed
<1>1. Hops \in Nat /\ Hops > 0
  BY StreamConstants
<1>2. typed \in Nat /\ DOMAIN keys = 1..(Hops + 1) /\ DOMAIN held = Relays /\ DOMAIN hop = Relays
  BY DEF StreamTypeOK
<1>3. \A k \in 1..(Hops + 1) : p[k] \in 0..typed /\ q[k] \in 0..typed
  BY DEF KeyPositions
<1>4. \A n \in 0..typed : n \in Nat
  BY <1>2
<1>5. Hops + 1 \in 1..(Hops + 1) /\ 1 \in 1..(Hops + 1) /\ 1 # Hops + 1
  BY <1>1
<1> QED
  BY <1>1, <1>2, <1>3, <1>4, <1>5

\* The indices of a relay and of the piece ahead of it.
LEMMA RelayFacts ==
  ASSUME NEW k \in Relays
  PROVE  /\ k \in Nat /\ k \in 1..(Hops + 1) /\ k + 1 \in 1..(Hops + 1) /\ k # k + 1 /\ k + 1 # 1
         /\ k # Hops + 1 /\ k - 1 \in Nat /\ k - 1 + 1 = k /\ k - 1 # k
         /\ k \in 0..Hops /\ k - 1 \in 0..Hops /\ k \in 0..(Hops + 1) /\ k + 1 \in 0..(Hops + 1) /\ k - 1 \in 0..(Hops + 1)
BY StreamConstants DEF Relays

\* A typed key extends what relay 1 was sent.
LEMMA TypeKeyStep ==
  ASSUME StreamTypeOK, NEW p \in KeyPositions, NEW q \in KeyPositions, KeysFrom(p, q), TypeKey
  PROVE  KeysAreSomewhere'
<1>0. typed' = typed + 1 /\ keys' = [keys EXCEPT ![1] = Append(keys[1], typed + 1)]
      /\ UNCHANGED <<hop, held, got, exec>>
  BY KeyFacts DEF TypeKey, outVars
<1>1. PICK pp : pp = [p EXCEPT ![1] = typed + 1]
  OBVIOUS
<1>2. /\ pp \in KeyPositions' /\ q \in KeyPositions' /\ pp[1] = typed + 1
      /\ \A j \in 1..(Hops + 1) : j # 1 => pp[j] = p[j]
  <2>1. typed \in Nat /\ typed + 1 \in Nat /\ typed <= typed + 1 /\ typed + 1 \in 0..(typed + 1)
        /\ 1 \in 1..(Hops + 1)
    BY KeyFacts
  <2> QED
    BY <1>0, <1>1, <2>1, BoundMoves DEF KeyPositions
<1>3. p[1] = typed /\ 1 \in 1..(Hops + 1) /\ Hops + 1 \in 1..(Hops + 1) /\ Hops + 1 # 1
      /\ DOMAIN keys = 1..(Hops + 1)
  BY KeyFacts DEF KeysFrom
<1>4. keys'[1] = Append(keys[1], typed + 1) /\ \A j \in 1..(Hops + 1) : j # 1 => keys'[j] = keys[j]
  BY <1>0, <1>3
<1>5. ASSUME NEW k \in Relays, hop[k] # "gone" PROVE KeysAt(k, pp, q)'
  <2>1. Piece(p[k + 1], q[k], held[k]) /\ Piece(q[k], p[k], keys[k])
    BY <1>5 DEF KeysFrom, KeysAt
  <2>2. k \in 1..(Hops + 1) /\ k + 1 \in 1..(Hops + 1) /\ k + 1 # 1 /\ q[k] \in Nat /\ p[k] \in Nat
    BY RelayFacts, KeyFacts
  <2>3. Piece(q[k], pp[k], keys'[k])
    <3>1. CASE k = 1
      BY <1>2, <1>3, <1>4, <2>1, <2>2, <3>1, PieceGets
    <3>2. CASE k # 1
      BY <1>2, <1>4, <2>1, <2>2, <3>2
    <3> QED
      BY <3>1, <3>2
  <2> QED
    BY <1>0, <1>2, <2>1, <2>2, <2>3 DEF KeysAt, Piece
<1>6. Piece(q[Hops + 1], pp[Hops + 1], keys'[Hops + 1])
  BY <1>2, <1>3, <1>4 DEF KeysFrom
<1>7. KeysFrom(pp, q)'
  <2>1. exec' = "live" => q[Hops + 1] = Len(got')
    BY <1>0 DEF KeysFrom
  <2> QED
    BY <1>0, <1>2, <1>5, <1>6, <2>1 DEF KeysFrom, Piece
<1> QED
  BY <1>2, <1>7 DEF KeysAreSomewhere
\* The PTY takes the next key, and writes it if it lives.
LEMMA WriteKeyStep ==
  ASSUME StreamTypeOK, KeysInOrder, NEW p \in KeyPositions, NEW q \in KeyPositions, KeysFrom(p, q), WriteKey
  PROVE  KeysInOrder' /\ KeysAreSomewhere'
<1>0. /\ keys[Hops + 1] # <<>> /\ keys' = [keys EXCEPT ![Hops + 1] = Tail(keys[Hops + 1])]
      /\ UNCHANGED <<hop, held, typed, exec>>
      /\ got' = IF exec = "live" THEN Append(got, Head(keys[Hops + 1])) ELSE got
  BY KeyFacts DEF WriteKey, outVars
<1>1. PICK n : n = q[Hops + 1]
  OBVIOUS
<1>2. PICK qq : qq = [q EXCEPT ![Hops + 1] = n + 1]
  OBVIOUS
<1>3. /\ Hops + 1 \in 1..(Hops + 1) /\ DOMAIN keys = 1..(Hops + 1) /\ n \in Nat /\ p[Hops + 1] \in 0..typed
      /\ typed \in Nat
  BY <1>1, KeyFacts
<1>4. n < p[Hops + 1] /\ Head(keys[Hops + 1]) = n + 1 /\ Piece(n + 1, p[Hops + 1], Tail(keys[Hops + 1]))
  BY <1>0, <1>1, <1>3, PieceGives DEF KeysFrom
<1>5. /\ qq \in KeyPositions' /\ p \in KeyPositions' /\ qq[Hops + 1] = n + 1
      /\ \A j \in 1..(Hops + 1) : j # Hops + 1 => qq[j] = q[j]
  <2>1. n + 1 \in 0..typed
    BY <1>3, <1>4
  <2> QED
    BY <1>0, <1>2, <1>3, <2>1, BoundMoves DEF KeyPositions
<1>6. keys'[Hops + 1] = Tail(keys[Hops + 1]) /\ \A j \in 1..(Hops + 1) : j # Hops + 1 => keys'[j] = keys[j]
  BY <1>0, <1>3
<1>7. ASSUME NEW k \in Relays, hop[k] # "gone" PROVE KeysAt(k, p, qq)'
  <2>1. Piece(p[k + 1], q[k], held[k]) /\ Piece(q[k], p[k], keys[k])
    BY <1>7 DEF KeysFrom, KeysAt
  <2>2. k \in 1..(Hops + 1) /\ k # Hops + 1
    BY RelayFacts
  <2>3. qq[k] = q[k] /\ keys'[k] = keys[k] /\ held'[k] = held[k]
    BY <1>0, <1>5, <1>6, <2>2
  <2> QED
    BY <2>1, <2>3 DEF KeysAt, Piece
<1>8. KeysInOrder' /\ (exec' = "live" => n + 1 = Len(got'))
  <2>1. CASE exec = "live"
    <3>1. n = Len(got) /\ Len(got) \in Nat /\ got = Numbers(1, n)
      BY <1>1, <2>1 DEF KeysFrom, StreamTypeOK, KeysInOrder
    <3>2. got' = Append(got, n + 1)
      BY <1>0, <1>4, <2>1
    <3>3. 1 \in Nat /\ 1 <= n + 1
      BY <1>3
    <3>4. got' = Numbers(1, n + 1)
      BY <1>3, <3>1, <3>2, <3>3, NumbersAppend
    <3>5. Len(got') = n + 1
      BY <3>1, <3>2, AppendProperties DEF StreamTypeOK
    <3> QED
      BY <3>4, <3>5 DEF KeysInOrder, Numbers
  <2>2. CASE exec # "live"
    BY <1>0, <2>2 DEF KeysInOrder, Numbers
  <2> QED
    BY <2>1, <2>2
<1>9. KeysFrom(p, qq)'
  <2>1. p[1] = typed' /\ Piece(qq[Hops + 1], p[Hops + 1], keys'[Hops + 1])
    BY <1>0, <1>4, <1>5, <1>6 DEF KeysFrom
  <2> QED
    BY <1>0, <1>5, <1>7, <1>8, <2>1 DEF KeysFrom, Piece
<1> QED
  BY <1>5, <1>8, <1>9 DEF KeysAreSomewhere

\* A relay that is not connected keeps the key.
LEMMA HoldKeyStep ==
  ASSUME StreamTypeOK, NEW p \in KeyPositions, NEW q \in KeyPositions, KeysFrom(p, q),
         NEW k \in Relays, Relay(k), hop[k] # "open"
  PROVE  KeysAreSomewhere'
<1>0. /\ keys[k] # <<>> /\ hop[k] # "gone" /\ UNCHANGED <<hop, typed, got, exec>>
      /\ keys' = [keys EXCEPT ![k] = Tail(keys[k])] /\ held' = [held EXCEPT ![k] = Append(held[k], Head(keys[k]))]
  BY KeyFacts, RelayFacts DEF Relay, outVars
<1>1. PICK n : n = q[k]
  OBVIOUS
<1>2. PICK qq : qq = [q EXCEPT ![k] = n + 1]
  OBVIOUS
<1>3. /\ k \in 1..(Hops + 1) /\ DOMAIN keys = 1..(Hops + 1) /\ DOMAIN held = Relays
      /\ n \in Nat /\ p[k] \in 0..typed /\ p[k + 1] \in Nat /\ typed \in Nat /\ k # Hops + 1
  BY <1>1, KeyFacts, RelayFacts
<1>4. Piece(p[k + 1], n, held[k]) /\ Piece(n, p[k], keys[k])
  BY <1>0, <1>1 DEF KeysFrom, KeysAt
<1>5. n < p[k] /\ Head(keys[k]) = n + 1 /\ Piece(n + 1, p[k], Tail(keys[k]))
  BY <1>0, <1>3, <1>4, PieceGives
<1>6. Piece(p[k + 1], n + 1, Append(held[k], n + 1))
  BY <1>3, <1>4, PieceGets
<1>7. /\ qq \in KeyPositions' /\ p \in KeyPositions' /\ qq[k] = n + 1
      /\ \A j \in 1..(Hops + 1) : j # k => qq[j] = q[j]
  <2>1. n + 1 \in 0..typed
    BY <1>3, <1>5
  <2> QED
    BY <1>0, <1>2, <1>3, <2>1, BoundMoves DEF KeyPositions
<1>8. /\ keys'[k] = Tail(keys[k]) /\ held'[k] = Append(held[k], n + 1)
      /\ \A j \in 1..(Hops + 1) : j # k => keys'[j] = keys[j]
      /\ \A j \in Relays : j # k => held'[j] = held[j]
  BY <1>0, <1>3, <1>5
<1>9. ASSUME NEW j \in Relays, hop[j] # "gone" PROVE KeysAt(j, p, qq)'
  <2>1. CASE j = k
    BY <1>5, <1>6, <1>7, <1>8, <2>1 DEF KeysAt, Piece
  <2>2. CASE j # k
    <3>1. Piece(p[j + 1], q[j], held[j]) /\ Piece(q[j], p[j], keys[j])
      BY <1>9 DEF KeysFrom, KeysAt
    <3>2. qq[j] = q[j] /\ keys'[j] = keys[j] /\ held'[j] = held[j]
      BY <1>7, <1>8, <2>2, RelayFacts
    <3> QED
      BY <3>1, <3>2 DEF KeysAt, Piece
  <2> QED
    BY <2>1, <2>2
<1>10. KeysFrom(p, qq)'
  <2>1. qq[Hops + 1] = q[Hops + 1] /\ keys'[Hops + 1] = keys[Hops + 1]
    BY <1>3, <1>7, <1>8, KeyFacts
  <2> QED
    BY <1>0, <1>9, <2>1 DEF KeysFrom, Piece
<1> QED
  BY <1>7, <1>10 DEF KeysAreSomewhere

\* A connected relay passes it on.
LEMMA PassKeyStep ==
  ASSUME StreamTypeOK, ChainInOrder, NEW p \in KeyPositions, NEW q \in KeyPositions, KeysFrom(p, q),
         NEW k \in Relays, Relay(k), hop[k] = "open"
  PROVE  KeysAreSomewhere'
<1>0. /\ keys[k] # <<>> /\ UNCHANGED <<hop, held, typed, got, exec>>
      /\ keys' = [keys EXCEPT ![k] = Tail(keys[k]), ![k + 1] = Append(keys[k + 1], Head(keys[k]))]
  BY KeyFacts, RelayFacts DEF Relay, outVars
<1>1. PICK n : n = q[k]
  OBVIOUS
<1>2. PICK qq : qq = [q EXCEPT ![k] = n + 1]
  OBVIOUS
<1>3. PICK pp : pp = [p EXCEPT ![k + 1] = n + 1]
  OBVIOUS
<1>4. /\ k \in 1..(Hops + 1) /\ k + 1 \in 1..(Hops + 1) /\ k # k + 1 /\ k + 1 # 1 /\ 1 \in 1..(Hops + 1)
      /\ DOMAIN keys = 1..(Hops + 1) /\ n \in Nat /\ p[k] \in 0..typed /\ p[k + 1] \in Nat /\ typed \in Nat
      /\ q[k + 1] \in Nat
  BY <1>1, KeyFacts, RelayFacts
<1>5. Piece(p[k + 1], n, <<>>) /\ Piece(n, p[k], keys[k]) /\ held[k] = <<>>
  <2>1. held[k] = <<>>
    BY DEF ChainInOrder
  <2>2. KeysAt(k, p, q)
    BY DEF KeysFrom
  <2> QED
    BY <1>1, <2>1, <2>2 DEF KeysAt
<1>6. p[k + 1] = n
  BY <1>4, <1>5, EmptyPiece
<1>7. n < p[k] /\ Head(keys[k]) = n + 1 /\ Piece(n + 1, p[k], Tail(keys[k]))
  BY <1>0, <1>4, <1>5, PieceGives
<1>8. Piece(n + 1, n + 1, <<>>)
  <2>1. n + 1 \in Nat
    BY <1>4
  <2> QED
    BY <2>1, EmptyPiece
<1>9. /\ qq \in KeyPositions' /\ qq[k] = n + 1 /\ pp \in KeyPositions' /\ pp[k + 1] = n + 1
      /\ \A j \in 1..(Hops + 1) : j # k => qq[j] = q[j]
      /\ \A j \in 1..(Hops + 1) : j # k + 1 => pp[j] = p[j]
  <2>1. n + 1 \in 0..typed
    BY <1>4, <1>7
  <2> QED
    BY <1>0, <1>2, <1>3, <1>4, <2>1, BoundMoves DEF KeyPositions
<1>10. /\ keys'[k] = Tail(keys[k]) /\ keys'[k + 1] = Append(keys[k + 1], n + 1)
      /\ \A j \in 1..(Hops + 1) : j # k /\ j # k + 1 => keys'[j] = keys[j]
  BY <1>0, <1>4, <1>7
\* What holds of the piece ahead of k.
<1>11. ASSUME Piece(q[k + 1], p[k + 1], keys[k + 1]) PROVE Piece(qq[k + 1], pp[k + 1], keys'[k + 1])
  <2>1. Piece(q[k + 1], n + 1, Append(keys[k + 1], n + 1))
    BY <1>4, <1>6, <1>11, PieceGets
  <2> QED
    BY <1>4, <1>9, <1>10, <2>1
<1>12. ASSUME NEW j \in Relays, hop[j] # "gone" PROVE KeysAt(j, pp, qq)'
  <2>0. j \in 1..(Hops + 1) /\ j + 1 \in 1..(Hops + 1) /\ j \in Nat
    BY RelayFacts
  <2>1. Piece(p[j + 1], q[j], held[j]) /\ Piece(q[j], p[j], keys[j])
    BY <1>12 DEF KeysFrom, KeysAt
  <2>2. CASE j = k
    <3>1. pp[k] = p[k]
      BY <1>4, <1>9
    <3> QED
      BY <1>0, <1>5, <1>7, <1>8, <1>9, <1>10, <2>2, <3>1 DEF KeysAt, Piece
  <2>3. CASE j # k
    <3>1. j + 1 # k + 1
      BY <2>0, <2>3, RelayFacts
    <3>2. Piece(pp[j + 1], qq[j], held'[j])
      BY <1>0, <1>9, <2>0, <2>1, <2>3, <3>1
    <3>3. Piece(qq[j], pp[j], keys'[j])
      <4>1. CASE j = k + 1
        BY <1>11, <2>1, <4>1
      <4>2. CASE j # k + 1
        BY <1>9, <1>10, <2>0, <2>1, <2>3, <4>2
      <4> QED
        BY <4>1, <4>2
    <3> QED
      BY <3>2, <3>3 DEF KeysAt, Piece
  <2> QED
    BY <2>2, <2>3
<1>13. KeysFrom(pp, qq)'
  <2>0. Piece(q[Hops + 1], p[Hops + 1], keys[Hops + 1]) /\ Hops + 1 \in 1..(Hops + 1) /\ Hops + 1 # k
    BY KeyFacts, RelayFacts DEF KeysFrom
  <2>1. Piece(qq[Hops + 1], pp[Hops + 1], keys'[Hops + 1])
    <3>1. CASE Hops + 1 = k + 1
      BY <1>11, <2>0, <3>1
    <3>2. CASE Hops + 1 # k + 1
      BY <1>9, <1>10, <2>0, <3>2
    <3> QED
      BY <3>1, <3>2
  <2>2. qq[Hops + 1] = q[Hops + 1] /\ pp[1] = p[1]
    BY <1>4, <1>9, <2>0
  <2> QED
    BY <1>0, <1>12, <2>1, <2>2 DEF KeysFrom, Piece
<1> QED
  BY <1>9, <1>13 DEF KeysAreSomewhere
\* A relay that connects sends what it kept.
LEMMA SendHeldStep ==
  ASSUME StreamTypeOK, ChainInOrder, NEW p \in KeyPositions, NEW q \in KeyPositions, KeysFrom(p, q),
         NEW k \in Relays, Opens(k)
  PROVE  KeysAreSomewhere'
<1>0. /\ hop[k] = "connecting" /\ UNCHANGED <<typed, got, exec>>
      /\ keys' = [keys EXCEPT ![k + 1] = keys[k + 1] \o held[k]] /\ held' = [held EXCEPT ![k] = <<>>]
      /\ hop' = [j \in Relays |-> IF j = k THEN "open" ELSE IF j = k + 1 THEN "early" ELSE hop[j]]
  BY KeyFacts, RelayFacts DEF Opens
<1>1. k + 1 \in Relays => hop[k + 1] = "absent"
  BY <1>0, StreamConstants DEF ChainInOrder, Relays
<1>2. PICK n : n = q[k]
  OBVIOUS
<1>3. PICK pp : pp = [p EXCEPT ![k + 1] = n]
  OBVIOUS
<1>4. /\ k \in 1..(Hops + 1) /\ k + 1 \in 1..(Hops + 1) /\ k # k + 1 /\ k + 1 # 1 /\ 1 \in 1..(Hops + 1)
      /\ DOMAIN keys = 1..(Hops + 1) /\ DOMAIN held = Relays /\ n \in Nat /\ n \in 0..typed
      /\ p[k + 1] \in Nat /\ typed \in Nat /\ typed <= typed /\ q[k + 1] \in Nat
  BY <1>2, KeyFacts, RelayFacts
<1>5. Piece(p[k + 1], n, held[k]) /\ Piece(n, p[k], keys[k])
  <2>1. KeysAt(k, p, q)
    BY <1>0 DEF KeysFrom
  <2> QED
    BY <1>2, <2>1 DEF KeysAt
<1>6. /\ pp \in KeyPositions' /\ q \in KeyPositions' /\ pp[k + 1] = n
      /\ \A j \in 1..(Hops + 1) : j # k + 1 => pp[j] = p[j]
  BY <1>0, <1>3, <1>4, BoundMoves DEF KeyPositions
<1>7. /\ keys'[k + 1] = keys[k + 1] \o held[k] /\ held'[k] = <<>>
      /\ \A j \in 1..(Hops + 1) : j # k + 1 => keys'[j] = keys[j]
      /\ \A j \in Relays : j # k => held'[j] = held[j]
  BY <1>0, <1>4
\* What holds of the piece ahead of k.
<1>8. ASSUME Piece(q[k + 1], p[k + 1], keys[k + 1]) PROVE Piece(q[k + 1], pp[k + 1], keys'[k + 1])
  BY <1>4, <1>5, <1>6, <1>7, <1>8, PiecesJoin
<1>9. ASSUME NEW j \in Relays, hop'[j] # "gone" PROVE KeysAt(j, pp, q)'
  <2>0. j \in 1..(Hops + 1) /\ j + 1 \in 1..(Hops + 1) /\ j \in Nat
    BY RelayFacts
  <2>1. hop[j] # "gone"
    BY <1>0, <1>1, <1>9
  <2>2. Piece(p[j + 1], q[j], held[j]) /\ Piece(q[j], p[j], keys[j])
    BY <2>1 DEF KeysFrom, KeysAt
  <2>3. CASE j = k
    <3>1. Piece(n, n, <<>>)
      BY <1>4, EmptyPiece
    <3>2. pp[k] = p[k] /\ keys'[k] = keys[k]
      BY <1>4, <1>6, <1>7
    <3> QED
      BY <1>2, <1>5, <1>6, <1>7, <2>3, <3>1, <3>2 DEF KeysAt, Piece
  <2>4. CASE j # k
    <3>1. j + 1 # k + 1
      BY <2>0, <2>4, RelayFacts
    <3>2. Piece(pp[j + 1], q[j], held'[j])
      BY <1>6, <1>7, <2>0, <2>2, <2>4, <3>1
    <3>3. Piece(q[j], pp[j], keys'[j])
      <4>1. CASE j = k + 1
        BY <1>8, <2>2, <4>1
      <4>2. CASE j # k + 1
        BY <1>6, <1>7, <2>0, <2>2, <4>2
      <4> QED
        BY <4>1, <4>2
    <3> QED
      BY <3>2, <3>3 DEF KeysAt, Piece
  <2> QED
    BY <2>3, <2>4
<1>10. KeysFrom(pp, q)'
  <2>0. Piece(q[Hops + 1], p[Hops + 1], keys[Hops + 1]) /\ Hops + 1 \in 1..(Hops + 1)
    BY KeyFacts DEF KeysFrom
  <2>1. Piece(q[Hops + 1], pp[Hops + 1], keys'[Hops + 1])
    <3>1. CASE Hops + 1 = k + 1
      BY <1>8, <2>0, <3>1
    <3>2. CASE Hops + 1 # k + 1
      BY <1>6, <1>7, <2>0, <3>2
    <3> QED
      BY <3>1, <3>2
  <2>2. pp[1] = p[1]
    BY <1>4, <1>6
  <2> QED
    BY <1>0, <1>9, <2>1, <2>2 DEF KeysFrom, Piece
<1> QED
  BY <1>6, <1>10 DEF KeysAreSomewhere

\* What a relay that hangs up had is lost, and nothing behind it is passed on.
LEMMA DropKeysStep ==
  ASSUME StreamTypeOK, NEW p \in KeyPositions, NEW q \in KeyPositions, KeysFrom(p, q),
         NEW k \in Relays, HangUp(k)
  PROVE  KeysAreSomewhere'
<1>0. /\ hop' = [hop EXCEPT ![k] = "gone"] /\ UNCHANGED <<typed, got, exec>>
      /\ keys' = [keys EXCEPT ![k] = <<>>] /\ held' = [held EXCEPT ![k] = <<>>]
  BY DEF HangUp
<1>1. /\ DOMAIN keys = 1..(Hops + 1) /\ DOMAIN held = Relays /\ DOMAIN hop = Relays
      /\ k # Hops + 1 /\ Hops + 1 \in 1..(Hops + 1)
  BY KeyFacts, RelayFacts
<1>2. ASSUME NEW j \in Relays, hop'[j] # "gone" PROVE KeysAt(j, p, q)'
  <2>1. j # k /\ hop[j] # "gone" /\ j \in 1..(Hops + 1)
    BY <1>0, <1>1, <1>2, RelayFacts
  <2>2. KeysAt(j, p, q)
    BY <2>1 DEF KeysFrom
  <2>3. keys'[j] = keys[j] /\ held'[j] = held[j]
    BY <1>0, <1>1, <2>1
  <2> QED
    BY <2>2, <2>3 DEF KeysAt, Piece
<1>3. keys'[Hops + 1] = keys[Hops + 1]
  BY <1>0, <1>1
<1>4. KeysFrom(p, q)'
  BY <1>0, <1>2, <1>3 DEF KeysFrom, Piece
<1>5. p \in KeyPositions' /\ q \in KeyPositions'
  BY <1>0 DEF KeyPositions
<1> QED
  BY <1>4, <1>5 DEF KeysAreSomewhere

\* The keys stay in order, wherever they are.
LEMMA KeysStep ==
  ASSUME StreamTypeOK, ChainInOrder, KeysInOrder, KeysAreSomewhere, [StreamNext]_streamVars
  PROVE  KeysInOrder' /\ KeysAreSomewhere'
<1>1. PICK p \in KeyPositions, q \in KeyPositions : KeysFrom(p, q)
  BY DEF KeysAreSomewhere
<1>2. UNCHANGED got => KeysInOrder'
  BY DEF KeysInOrder, Numbers
<1>3. ASSUME UNCHANGED <<keys, held, typed, got>>, exec' = "live" => exec = "live",
             \A k \in Relays : hop'[k] # "gone" => hop[k] # "gone"
      PROVE  KeysAreSomewhere'
  <2>1. KeysFrom(p, q)'
    BY <1>1, <1>3 DEF KeysFrom, KeysAt, Piece, Numbers
  <2>2. p \in KeyPositions' /\ q \in KeyPositions'
    BY <1>3 DEF KeyPositions
  <2> QED
    BY <2>1, <2>2 DEF KeysAreSomewhere
<1>4. CASE ViewerConnects
  <2>1. hop[1] = "absent" /\ DOMAIN hop = Relays
    BY <1>4 DEF ViewerConnects, ChainInOrder, StreamTypeOK
  <2> QED
    BY <1>2, <1>3, <1>4, <2>1 DEF ViewerConnects, keyVars, outVars
<1>5. CASE TypeKey
  BY <1>1, <1>2, <1>5, TypeKeyStep DEF TypeKey
<1>6. CASE WriteKey
  BY <1>1, <1>6, WriteKeyStep
<1>7. CASE Output \/ Show \/ ViewerCloses \/ ExecExits \/ UNCHANGED streamVars
  BY <1>2, <1>3, <1>7 DEF Output, Show, ViewerCloses, ExecExits, streamVars, keyVars, outVars
<1>8. ASSUME NEW k \in Relays, Relay(k) PROVE KeysInOrder' /\ KeysAreSomewhere'
  <2>1. KeysInOrder'
    BY <1>2, <1>8 DEF Relay
  <2> QED
    BY <1>1, <1>8, <2>1, HoldKeyStep, PassKeyStep
<1>9. ASSUME NEW k \in Relays, RelayBack(k) PROVE KeysInOrder' /\ KeysAreSomewhere'
  BY <1>2, <1>3, <1>9 DEF RelayBack, keyVars
<1>10. ASSUME NEW k \in Relays, Resolve(k) PROVE KeysInOrder' /\ KeysAreSomewhere'
  BY <1>2, <1>3, <1>10 DEF Resolve, outVars
<1>11. ASSUME NEW k \in Relays, Opens(k) PROVE KeysInOrder' /\ KeysAreSomewhere'
  BY <1>1, <1>2, <1>11, SendHeldStep DEF Opens
<1>12. ASSUME NEW k \in Relays, HangUp(k) PROVE KeysInOrder' /\ KeysAreSomewhere'
  BY <1>1, <1>2, <1>12, DropKeysStep DEF HangUp
<1> QED
  BY <1>4, <1>5, <1>6, <1>7, <1>8, <1>9, <1>10, <1>11, <1>12 DEF StreamNext
-----------------------------------------------------------------------------
(* The output: where each action leaves it. *)

\* What the steps below use of the constants and of the cuts.
LEMMA CutFacts ==
  ASSUME StreamTypeOK, NEW o \in 0..made, NEW e \in 0..made, NEW cut \in Cuts
  PROVE  /\ made \in Nat /\ o \in Nat /\ e \in Nat /\ DOMAIN back = 0..Hops
         /\ Hops \in Relays /\ Hops \in Nat /\ Hops \in 0..Hops /\ Hops + 1 # 0
         /\ 0 \in 0..Hops /\ 0 \in 0..(Hops + 1) /\ 0 + 1 \in 0..(Hops + 1) /\ Hops + 1 \in 0..(Hops + 1)
         /\ \A k \in 0..(Hops + 1) : cut[k] \in Nat /\ cut[k] \in 0..made
BY StreamConstants DEF Relays, StreamTypeOK, Cuts

\* The indices of a piece and of the one behind it.
LEMMA PieceFacts ==
  ASSUME NEW k \in 0..Hops
  PROVE  k \in Nat /\ k \in 0..(Hops + 1) /\ k + 1 \in 0..(Hops + 1) /\ k # k + 1 /\ k + 1 # 0 /\ k # Hops + 1
BY StreamConstants

\* A relay passes a chunk back.
LEMMA PassChunkStep ==
  ASSUME StreamTypeOK, NEW o \in 0..made, NEW e \in 0..made, NEW cut \in Cuts, OutputFrom(o, e, cut),
         NEW k \in Relays, RelayBack(k)
  PROVE  OutputIsSomewhere'
<1>0. /\ back[k] # <<>> /\ hop[k] = "open" /\ UNCHANGED <<viewer, hop, made, attached, seen>>
      /\ back' = [back EXCEPT ![k] = Tail(back[k]), ![k - 1] = Append(back[k - 1], Head(back[k]))]
  BY CutFacts, RelayFacts DEF RelayBack
<1>1. PICK n : n = cut[k]
  OBVIOUS
<1>2. PICK cc : cc = [cut EXCEPT ![k] = n + 1]
  OBVIOUS
<1>3. /\ k \in 0..Hops /\ k - 1 \in 0..Hops /\ k - 1 # k /\ k - 1 + 1 = k /\ k \in 0..(Hops + 1)
      /\ k + 1 \in 0..(Hops + 1) /\ k - 1 \in 0..(Hops + 1) /\ k + 1 # k /\ k # 0 /\ k # Hops + 1
      /\ DOMAIN back = 0..Hops /\ n \in Nat /\ made \in Nat
      /\ cut[k + 1] \in 0..made /\ cut[k - 1] \in Nat
  <2>1. k # 0
    BY DEF Relays
  <2> QED
    BY <1>1, <2>1, CutFacts, RelayFacts
<1>4. Piece(n, cut[k + 1], back[k])
  BY <1>0, <1>1, <1>3 DEF OutputFrom, Passes
<1>5. n < cut[k + 1] /\ Head(back[k]) = n + 1 /\ Piece(n + 1, cut[k + 1], Tail(back[k]))
  BY <1>0, <1>3, <1>4, PieceGives
<1>6. /\ cc \in Cuts' /\ cc[k] = n + 1 /\ \A j \in 0..(Hops + 1) : j # k => cc[j] = cut[j]
  <2>1. n + 1 \in 0..made /\ made <= made
    BY <1>3, <1>5
  <2> QED
    BY <1>0, <1>2, <1>3, <2>1, BoundMoves DEF Cuts
<1>7. /\ back'[k] = Tail(back[k]) /\ back'[k - 1] = Append(back[k - 1], n + 1)
      /\ \A j \in 0..Hops : j # k /\ j # k - 1 => back'[j] = back[j]
  BY <1>0, <1>3, <1>5
<1>8. ASSUME NEW j \in 0..Hops, Passes(j) PROVE Piece(cc[j], cc[j + 1], back'[j])
  <2>0. j \in Nat /\ j \in 0..(Hops + 1) /\ j + 1 \in 0..(Hops + 1)
    BY PieceFacts
  <2>1. Piece(cut[j], cut[j + 1], back[j])
    BY <1>8 DEF OutputFrom
  <2>2. CASE j = k
    BY <1>3, <1>5, <1>6, <1>7, <2>2
  <2>3. CASE j = k - 1
    <3>1. Piece(cut[k - 1], n, back[k - 1])
      BY <1>1, <1>3, <2>1, <2>3
    <3>2. Piece(cut[k - 1], n + 1, Append(back[k - 1], n + 1))
      BY <1>3, <3>1, PieceGets
    <3> QED
      BY <1>3, <1>6, <1>7, <2>3, <3>2
  <2>4. CASE j # k /\ j # k - 1
    <3>1. j + 1 # k
      BY <2>0, <2>4, RelayFacts
    <3> QED
      BY <1>6, <1>7, <2>0, <2>1, <2>4, <3>1
  <2> QED
    BY <2>2, <2>3, <2>4
<1>9. cc[0] = cut[0] /\ cc[Hops + 1] = cut[Hops + 1]
  BY <1>3, <1>6, CutFacts
<1>10. OutputFrom(o, e, cc)'
  BY <1>0, <1>8, <1>9 DEF OutputFrom, Passes, Piece
<1> QED
  BY <1>0, <1>6, <1>10 DEF OutputIsSomewhere

\* The viewer gets a chunk.
LEMMA ShowStep ==
  ASSUME StreamTypeOK, NEW o \in 0..made, NEW e \in 0..made, NEW cut \in Cuts, OutputFrom(o, e, cut), Show
  PROVE  OutputIsSomewhere'
<1>0. /\ viewer = "open" /\ back[0] # <<>> /\ UNCHANGED <<viewer, hop, made, attached>>
      /\ back' = [back EXCEPT ![0] = Tail(back[0])] /\ seen' = Append(seen, Head(back[0]))
  BY CutFacts DEF Show
<1>1. PICK cc : cc = [cut EXCEPT ![0] = e + 1]
  OBVIOUS
<1>2. /\ 0 \in 0..Hops /\ 0 \in 0..(Hops + 1) /\ 0 + 1 \in 0..(Hops + 1) /\ 0 + 1 # 0 /\ Hops + 1 # 0
      /\ DOMAIN back = 0..Hops /\ e \in Nat /\ o \in Nat /\ made \in Nat /\ cut[0 + 1] \in 0..made
      /\ Hops + 1 \in 0..(Hops + 1)
  BY CutFacts
<1>3. Piece(e, cut[0 + 1], back[0]) /\ Piece(o, e, seen)
  BY <1>0, <1>2 DEF OutputFrom, Passes
<1>4. e < cut[0 + 1] /\ Head(back[0]) = e + 1 /\ Piece(e + 1, cut[0 + 1], Tail(back[0]))
  BY <1>0, <1>2, <1>3, PieceGives
<1>5. Piece(o, e + 1, Append(seen, e + 1))
  BY <1>2, <1>3, PieceGets
<1>6. e + 1 \in 0..made /\ made <= made
  BY <1>2, <1>4
<1>7. cc \in Cuts' /\ cc[0] = e + 1 /\ \A j \in 0..(Hops + 1) : j # 0 => cc[j] = cut[j]
  BY <1>0, <1>1, <1>2, <1>6, BoundMoves DEF Cuts
<1>8. back'[0] = Tail(back[0]) /\ \A j \in 0..Hops : j # 0 => back'[j] = back[j]
  BY <1>0, <1>2
<1>9. ASSUME NEW j \in 0..Hops, Passes(j) PROVE Piece(cc[j], cc[j + 1], back'[j])
  <2>0. j \in 0..(Hops + 1) /\ j + 1 \in 0..(Hops + 1) /\ j + 1 # 0
    BY PieceFacts
  <2>1. Piece(cut[j], cut[j + 1], back[j])
    BY <1>9 DEF OutputFrom
  <2>2. CASE j = 0
    BY <1>2, <1>4, <1>7, <1>8, <2>2
  <2>3. CASE j # 0
    BY <1>7, <1>8, <2>0, <2>1, <2>3
  <2> QED
    BY <2>2, <2>3
<1>10. cc[Hops + 1] = cut[Hops + 1]
  BY <1>2, <1>7
<1>11. Piece(o, e + 1, seen')
  BY <1>0, <1>4, <1>5
<1>12. OutputFrom(o, e + 1, cc)'
  BY <1>0, <1>7, <1>9, <1>10, <1>11 DEF OutputFrom, Passes, Piece
<1> QED
  BY <1>0, <1>6, <1>7, <1>12 DEF OutputIsSomewhere

\* The PTY puts out a chunk: it goes to the subscriber, or into the buffer only.
LEMMA MakeChunkStep ==
  ASSUME StreamTypeOK, ChainInOrder, NEW o \in 0..made, NEW e \in 0..made, NEW cut \in Cuts,
         OutputFrom(o, e, cut), Output
  PROVE  OutputIsSomewhere'
<1>0. /\ made' = made + 1 /\ UNCHANGED <<viewer, hop, attached, seen>>
      /\ back' = IF attached THEN [back EXCEPT ![Hops] = Append(back[Hops], made + 1)] ELSE back
  BY CutFacts DEF Output
<1>1. /\ Hops \in 0..Hops /\ Hops \in 0..(Hops + 1) /\ Hops + 1 \in 0..(Hops + 1) /\ Hops + 1 # 0 /\ Hops # Hops + 1
      /\ DOMAIN back = 0..Hops /\ e \in Nat /\ o \in Nat /\ made \in Nat /\ cut[Hops] \in Nat
      /\ o <= made /\ e <= made /\ 0 \in 0..(Hops + 1)
  BY CutFacts
<1>2. made <= made + 1 /\ made + 1 \in Nat /\ made + 1 \in 0..(made + 1)
      /\ o \in 0..(made + 1) /\ e \in 0..(made + 1) /\ o < made + 1
  BY <1>1
<1>3. CASE attached
  <2>1. PICK cc : cc = [cut EXCEPT ![Hops + 1] = made + 1]
    OBVIOUS
  <2>2. cut[Hops + 1] = made /\ hop[Hops] = "open"
    BY <1>3 DEF OutputFrom, ChainInOrder
  <2>3. /\ cc \in Cuts' /\ cc[Hops + 1] = made + 1 /\ \A j \in 0..(Hops + 1) : j # Hops + 1 => cc[j] = cut[j]
    BY <1>0, <1>1, <1>2, <2>1, BoundMoves DEF Cuts
  <2>4. Passes(Hops)
    BY <2>2, StreamConstants DEF Passes
  <2>5. Piece(cut[Hops], made + 1, Append(back[Hops], made + 1))
    BY <1>1, <2>2, <2>4, PieceGets DEF OutputFrom
  <2>6. back'[Hops] = Append(back[Hops], made + 1) /\ \A j \in 0..Hops : j # Hops => back'[j] = back[j]
    BY <1>0, <1>1, <1>3
  <2>7. ASSUME NEW j \in 0..Hops, Passes(j) PROVE Piece(cc[j], cc[j + 1], back'[j])
    <3>0. j \in 0..(Hops + 1) /\ j + 1 \in 0..(Hops + 1) /\ j # Hops + 1 /\ (j # Hops => j + 1 # Hops + 1)
      BY PieceFacts, <1>1
    <3>1. CASE j = Hops
      BY <1>1, <2>3, <2>5, <2>6, <3>1
    <3>2. CASE j # Hops
      BY <2>3, <2>6, <2>7, <3>0, <3>2 DEF OutputFrom
    <3> QED
      BY <3>1, <3>2
  <2>8. cc[0] = cut[0]
    BY <1>1, <2>3
  <2>9. OutputFrom(o, e, cc)'
    BY <1>0, <1>2, <2>3, <2>7, <2>8 DEF OutputFrom, Passes, Piece
  <2> QED
    BY <1>0, <1>2, <2>3, <2>9 DEF OutputIsSomewhere
<1>4. CASE ~attached
  <2>1. cut \in Cuts'
    BY <1>0, <1>1, <1>2, BoundMoves DEF Cuts
  <2>2. OutputFrom(o, e, cut)'
    BY <1>0, <1>4 DEF OutputFrom, Passes, Piece
  <2> QED
    BY <1>0, <1>2, <2>1, <2>2 DEF OutputIsSomewhere
<1> QED
  BY <1>3, <1>4

\* The last upstream opens: the buffer is on its way, and nothing else is.
LEMMA AttachStep ==
  ASSUME StreamTypeOK, ChainInOrder, RingHolds, Opens(Hops)
  PROVE  OutputIsSomewhere'
<1>1. PICK r \in 0..made : Piece(r, made, ring) /\ (made > 0 => r < made)
  BY DEF RingHolds
<1>2. /\ Hops \in 0..Hops /\ Hops + 1 \in 0..(Hops + 1) /\ made \in Nat /\ made \in 0..made /\ r \in Nat
      /\ DOMAIN back = 0..Hops /\ Hops + 1 # 0 /\ Hops # Hops + 1 /\ 0 \in 0..(Hops + 1) /\ Hops \in 0..(Hops + 1)
  BY <1>1, StreamConstants DEF StreamTypeOK
<1>3. hop[Hops] = "connecting" /\ seen' = seen /\ made' = made /\ back' = [back EXCEPT ![Hops] = ring]
  BY DEF Opens, Attached
<1>4. seen' = <<>> /\ back'[Hops] = ring /\ \A k \in 0..Hops : k # Hops => back'[k] = <<>>
  BY <1>2, <1>3 DEF ChainInOrder
<1>5. PICK cc : cc = [k \in 0..(Hops + 1) |-> IF k = Hops + 1 THEN made ELSE r]
  OBVIOUS
<1>6. /\ cc \in Cuts' /\ cc[Hops + 1] = made /\ \A k \in 0..(Hops + 1) : k # Hops + 1 => cc[k] = r
  BY <1>1, <1>2, <1>3, <1>5 DEF Cuts
<1>7. ASSUME NEW k \in 0..Hops PROVE Piece(cc[k], cc[k + 1], back'[k])
  <2>0. k \in 0..(Hops + 1) /\ k + 1 \in 0..(Hops + 1) /\ k # Hops + 1 /\ (k # Hops => k + 1 # Hops + 1)
    BY PieceFacts, <1>2
  <2>1. CASE k = Hops
    BY <1>1, <1>2, <1>4, <1>6, <2>1
  <2>2. CASE k # Hops
    <3>1. Piece(r, r, <<>>)
      BY <1>2, EmptyPiece
    <3> QED
      BY <1>4, <1>6, <2>0, <2>2, <3>1
  <2> QED
    BY <2>1, <2>2
<1>8. Piece(r, r, seen') /\ cc[0] = r
  BY <1>2, <1>4, <1>6, EmptyPiece
<1>9. OutputFrom(r, r, cc)'
  BY <1>1, <1>3, <1>6, <1>7, <1>8 DEF OutputFrom, Piece
<1> QED
  BY <1>1, <1>3, <1>6, <1>9 DEF OutputIsSomewhere

\* No chunk is lost, doubled or out of order on the way, in any step.
LEMMA OutputStep ==
  ASSUME StreamTypeOK, ChainInOrder, RingHolds, OutputIsSomewhere, [StreamNext]_streamVars
  PROVE  OutputIsSomewhere'
<1>1. PICK o \in 0..made, e \in 0..made, cut \in Cuts : OutputFrom(o, e, cut)
  BY DEF OutputIsSomewhere
\* Steps that only end the way of some output.
<1>2. ASSUME made' = made, seen' = seen, attached' => attached, viewer' # "closed" => viewer # "closed",
             \A k \in 0..Hops : Passes(k)' => Passes(k) /\ back'[k] = back[k]
      PROVE  OutputIsSomewhere'
  <2>1. OutputFrom(o, e, cut)'
    BY <1>1, <1>2 DEF OutputFrom, Piece, Numbers
  <2> QED
    BY <1>2, <2>1 DEF OutputIsSomewhere, Cuts
<1>3. 0 \in 0..Hops /\ DOMAIN hop = Relays /\ DOMAIN back = 0..Hops /\ \A k \in 0..Hops : k # 0 => k \in Relays
  BY StreamConstants DEF StreamTypeOK, Relays
<1>4. CASE ViewerConnects
  <2>1. hop[1] = "absent" /\ hop' = [hop EXCEPT ![1] = "early"] /\ viewer' = "open" /\ viewer = "new"
        /\ UNCHANGED outVars
    BY <1>4 DEF ViewerConnects, ChainInOrder
  <2>2. \A k \in 0..Hops : Passes(k)' => Passes(k)
    BY <1>3, <2>1 DEF Passes
  <2> QED
    BY <1>2, <2>1, <2>2 DEF outVars
<1>5. CASE TypeKey \/ WriteKey \/ UNCHANGED streamVars \/ \E k \in Relays : Relay(k)
  <2>1. UNCHANGED <<viewer, hop, outVars>>
    BY <1>5 DEF TypeKey, WriteKey, Relay, streamVars
  <2> QED
    BY <1>2, <2>1 DEF outVars, Passes
<1>6. CASE Output
  BY <1>1, <1>6, MakeChunkStep
<1>7. CASE Show
  BY <1>1, <1>7, ShowStep
<1>8. CASE ViewerCloses
  <2>1. viewer' = "closed" /\ hop' = hop /\ back' = [back EXCEPT ![0] = <<>>] /\ made' = made
        /\ seen' = seen /\ attached' = attached
    BY <1>8 DEF ViewerCloses
  <2> QED
    BY <1>2, <1>3, <2>1 DEF Passes
<1>9. CASE ExecExits
  BY <1>2, <1>9 DEF ExecExits, Passes
<1>10. ASSUME NEW k \in Relays, RelayBack(k) PROVE OutputIsSomewhere'
  BY <1>1, <1>10, PassChunkStep
<1>11. ASSUME NEW k \in Relays, Resolve(k) PROVE OutputIsSomewhere'
  <2>1. UNCHANGED <<viewer, outVars>> /\ \A j \in Relays : hop'[j] # "gone" => hop[j] # "gone"
    BY <1>3, <1>11 DEF Resolve
  <2> QED
    BY <1>2, <1>3, <2>1 DEF outVars, Passes
<1>12. ASSUME NEW k \in Relays, Opens(k) PROVE OutputIsSomewhere'
  <2>1. CASE k = Hops
    BY <1>12, <2>1, AttachStep
  <2>2. CASE k # Hops
    <3>1. UNCHANGED <<viewer, made, seen, attached, back>>
      BY <1>12, <2>2 DEF Opens
    <3>2. \A j \in Relays : j = k + 1 => hop[j] = "absent"
      BY <1>12, <2>2, StreamConstants DEF Opens, ChainInOrder, Relays
    <3>3. \A j \in Relays : hop'[j] # "gone" => hop[j] # "gone"
      BY <1>12, <3>2 DEF Opens
    <3> QED
      BY <1>2, <1>3, <3>1, <3>3 DEF Passes
  <2> QED
    BY <2>1, <2>2
<1>13. ASSUME NEW k \in Relays, HangUp(k) PROVE OutputIsSomewhere'
  <2>1. /\ hop' = [hop EXCEPT ![k] = "gone"] /\ back' = [back EXCEPT ![k] = <<>>] /\ made' = made /\ seen' = seen
        /\ (attached' => attached) /\ (viewer' # "closed" => viewer # "closed")
    BY <1>13 DEF HangUp
  <2>2. ASSUME NEW j \in 0..Hops, Passes(j)' PROVE Passes(j) /\ back'[j] = back[j]
    <3>1. j # k
      BY <1>3, <2>1, <2>2, RelayFacts DEF Passes, Relays
    <3> QED
      BY <1>3, <2>1, <2>2, <3>1 DEF Passes
  <2> QED
    BY <1>2, <2>1, <2>2
<1> QED
  BY <1>4, <1>5, <1>6, <1>7, <1>8, <1>9, <1>10, <1>11, <1>12, <1>13 DEF StreamNext
-----------------------------------------------------------------------------
\* At first nothing was typed and nothing was put out.
LEMMA StreamInitInv ==
  ASSUME StreamInit
  PROVE  StreamInv
<1>0. /\ Hops \in Nat /\ Hops > 0 /\ 1 \in Relays /\ MaxKeys \in Nat /\ MaxChunks \in Nat
      /\ \A k \in Relays : k \in 1..(Hops + 1) /\ k + 1 \in 1..(Hops + 1)
      /\ Hops + 1 \in 1..(Hops + 1) /\ 1 \in 1..(Hops + 1) /\ 0 \in 0..0 /\ 0 \in Nat
  BY StreamConstants DEF Relays
<1>1. StreamTypeOK
  <2>1. <<>> \in Seq(1..MaxKeys) /\ <<>> \in Seq(1..MaxChunks) /\ 0 \in 0..MaxKeys /\ 0 \in 0..MaxChunks
    BY <1>0, EmptySeq
  <2>2. /\ [k \in Relays |-> <<>>] \in [Relays -> Seq(1..MaxKeys)]
        /\ [k \in 1..(Hops + 1) |-> <<>>] \in [1..(Hops + 1) -> Seq(1..MaxKeys)]
        /\ [k \in 0..Hops |-> <<>>] \in [0..Hops -> Seq(1..MaxChunks)]
    BY <2>1
  <2>3. [k \in Relays |-> "absent"] \in [Relays -> {"absent", "early", "connecting", "open", "gone"}]
    OBVIOUS
  <2> QED
    BY <2>1, <2>2, <2>3 DEF StreamInit, StreamTypeOK
<1>2. ChainInOrder
  BY <1>0 DEF StreamInit, ChainInOrder, Relays
<1>3. Piece(0, 0, <<>>)
  BY <1>0, EmptyPiece
<1>4. KeysInOrder
  <2>1. 1 \in Nat /\ 1 <= 0 + 1 /\ 1 = 0 + 1 /\ Len(got) = 0 /\ got = <<>>
    BY DEF StreamInit
  <2>2. Numbers(1, 0) = <<>>
    BY <1>0, <2>1, NumbersAre
  <2> QED
    BY <2>1, <2>2 DEF KeysInOrder
<1>5. RingHolds
  BY <1>0, <1>3 DEF StreamInit, RingHolds
<1>6. KeysAreSomewhere
  <2>1. PICK p : p = [k \in 1..(Hops + 1) |-> 0]
    OBVIOUS
  <2>2. p \in KeyPositions /\ typed = 0 /\ Len(got) = 0 /\ \A k \in 1..(Hops + 1) : p[k] = 0 /\ keys[k] = <<>>
    BY <1>0, <2>1 DEF KeyPositions, StreamInit
  <2>3. \A k \in Relays : KeysAt(k, p, p)
    BY <1>0, <1>3, <2>2 DEF KeysAt, StreamInit
  <2>4. KeysFrom(p, p)
    BY <1>0, <1>3, <2>2, <2>3 DEF KeysFrom
  <2> QED
    BY <2>2, <2>4 DEF KeysAreSomewhere
<1>7. OutputIsSomewhere
  <2>1. PICK cut : cut = [k \in 0..(Hops + 1) |-> 0]
    OBVIOUS
  <2>2. cut \in Cuts /\ made = 0 /\ attached = FALSE /\ seen = <<>> /\ \A k \in 0..(Hops + 1) : cut[k] = 0
    BY <1>0, <2>1 DEF Cuts, StreamInit
  <2>3. \A k \in 0..Hops : Piece(cut[k], cut[k + 1], back[k])
    BY <1>3, <2>2, PieceFacts DEF StreamInit
  <2>4. 0 \in 0..(Hops + 1)
    BY <1>0
  <2>5. OutputFrom(0, 0, cut)
    BY <1>3, <2>2, <2>3, <2>4 DEF OutputFrom
  <2> QED
    BY <1>0, <2>2, <2>5 DEF OutputIsSomewhere
<1> QED
  BY <1>1, <1>2, <1>4, <1>5, <1>6, <1>7 DEF StreamInv

\* For every length of the chain and of the buffer: the relays are set up in
\* order, the keys and the chunks are all somewhere on their way, in pieces
\* that follow each other, and the buffer holds the last chunks.
THEOREM StreamInvariant == StreamSpec => []StreamInv
<1>1. StreamInit => StreamInv
  BY StreamInitInv
<1>2. StreamInv /\ [StreamNext]_streamVars => StreamInv'
  BY StreamTypeStep, ChainStep, RingStep, KeysStep, OutputStep DEF StreamInv
<1> QED
  BY <1>1, <1>2, PTL DEF StreamSpec

\* What that says of the frames at the two ends.
LEMMA FramesFollow ==
  ASSUME StreamInv
  PROVE  FramesInOrder
<1>1. PICK o \in 0..made, e \in 0..made, cut \in Cuts : OutputFrom(o, e, cut)
  BY DEF StreamInv, OutputIsSomewhere
<1>2. o \in Nat /\ e \in Nat /\ made \in Nat /\ o <= made /\ e <= made /\ Piece(o, e, seen)
  BY <1>1, CutFacts DEF OutputFrom, StreamInv
<1>3. seen = Numbers(o + 1, e) /\ o <= e /\ o + 1 \in Nat /\ o + 1 <= e + 1
  BY <1>2 DEF Piece
<1>4. ASSUME seen # <<>> PROVE seen = Numbers(seen[1], seen[Len(seen)])
  <2>1. o < e
    BY <1>2, <1>4, PieceGives
  <2>2. PICK n : n = e + 1 - (o + 1)
    OBVIOUS
  <2>3. Len(seen) = n /\ \A i \in 1..n : seen[i] = o + 1 + i - 1
    <3>1. /\ Len(Numbers(o + 1, e)) = e + 1 - (o + 1)
          /\ \A i \in 1..(e + 1 - (o + 1)) : Numbers(o + 1, e)[i] = o + 1 + i - 1
      BY <1>2, <1>3, NumbersAre
    <3> QED
      BY <1>3, <2>2, <3>1
  <2>4. n \in 1..n /\ 1 \in 1..n /\ o + 1 + n - 1 = e /\ o + 1 + 1 - 1 = o + 1
    BY <1>2, <2>1, <2>2
  <2>5. seen[1] = o + 1 /\ seen[Len(seen)] = e
    BY <2>3, <2>4
  <2> QED
    BY <1>3, <2>5
<1>5. ASSUME attached, viewer = "open", \A k \in Relays : hop[k] = "open"
      PROVE  \E first \in 1..(made + 1), cc \in [0..(Hops + 1) -> 0..made] :
               OnItsWay(first, cc) /\ (made > 0 => first <= made)
  <2>1. \A k \in 0..Hops : Passes(k)
    BY <1>5 DEF Passes, Relays
  <2>2. cut[Hops + 1] = made /\ cut[0] = e /\ (made > 0 => o < made)
    BY <1>1, <1>5 DEF OutputFrom
  <2>3. \A k \in 0..Hops : cut[k] <= cut[k + 1] /\ back[k] = Numbers(cut[k] + 1, cut[k + 1])
    BY <1>1, <2>1 DEF OutputFrom, Piece
  <2>4. o + 1 \in 1..(made + 1) /\ (made > 0 => o + 1 <= made)
    BY <1>2, <2>2
  <2>5. OnItsWay(o + 1, cut)
    BY <1>3, <2>2, <2>3 DEF OnItsWay
  <2>6. cut \in [0..(Hops + 1) -> 0..made]
    BY DEF Cuts
  <2> QED
    BY <2>4, <2>5, <2>6
<1>6. OutputIsGapless
  BY <1>4, <1>5 DEF OutputIsGapless
<1> QED
  BY <1>6 DEF StreamInv, FramesInOrder

\* dispatcher.ts:157-158, pty-host.ts:408-415: through any number of relays, no
\* key and no chunk is lost, doubled or overtaken, in a lookup, while a relay
\* connects, or between the buffer and the live output.
THEOREM FramesStayInOrder == StreamSpec => []FramesInOrder
BY StreamInvariant, FramesFollow, PTL

-----------------------------------------------------------------------------
(***************************************************************************)
(* Sync: for any PRs, batches and number of syncs under way.               *)
(***************************************************************************)

\* What a sync has read of PR p is a view, and says that the PR is merged or
\* closed only if it is.
IsRead(p, view) == view \in Views /\ (view.lifecycle \in Terminal => github[p].state = view.lifecycle)

OneSync(x) ==
  /\ x = [left |-> x.left, read |-> x.read, on |-> x.on]
  /\ x.left \subseteq PrIds /\ x.on \in BOOLEAN /\ (x.left # {} => x.on)
  /\ DOMAIN x.read \subseteq PrIds /\ \A p \in DOMAIN x.read : IsRead(p, x.read[p])

SyncsOK == sync = [s \in Syncs |-> sync[s]] /\ \A s \in Syncs : OneSync(sync[s])
BoardOK == board \in [PrIds -> Views] /\ \A p \in PrIds : IsRead(p, board[p])
GithubOK == github \in [PrIds -> Facts]
ClockOK ==
  /\ node \subseteq PrIds /\ changes \in 0..MaxChanges
  /\ age \in [PrIds -> {"never", "now", "2min", "30min"}]

\* The invariant: neither the answers read nor the board is ever ahead of GitHub.
SyncInv == GithubOK /\ BoardOK /\ ClockOK /\ SyncsOK

\* What GitHub says now can be read.
LEMMA ViewIsRead ==
  ASSUME NEW p, github[p] \in Facts PROVE IsRead(p, View(github[p]))
<1>1. MapReview(github[p].review) \in {"approved", "changes-requested", "missing"}
  BY DEF MapReview
<1>2. MapCi(github[p].rollup) \in {"unknown", "passing", "running", "failing"}
  BY DEF MapCi
<1>3. /\ MapState(github[p].state) \in {"open"} \cup Terminal
      /\ MapState(github[p].state) \in Terminal => github[p].state = MapState(github[p].state)
  BY DEF MapState, Facts, Terminal
<1> QED
  BY <1>1, <1>2, <1>3 DEF View, Views, IsRead

\* One sync changes.
LEMMA OneChanges ==
  ASSUME SyncsOK, NEW s \in Syncs, NEW x, OneSync(x), github' = github, sync' = [sync EXCEPT ![s] = x]
  PROVE  SyncsOK'
<1>1. \A q \in Syncs : sync'[q] = IF q = s THEN x ELSE sync[q]
  BY DEF SyncsOK
<1>2. sync' = [q \in Syncs |-> sync'[q]]
  BY DEF SyncsOK
<1>3. ASSUME NEW q \in Syncs PROVE OneSync(sync[q])'
  <2>1. OneSync(sync'[q])
    BY <1>1 DEF SyncsOK
  <2> QED
    BY <2>1 DEF OneSync, IsRead
<1> QED
  BY <1>2, <1>3 DEF SyncsOK

\* A sync that does nothing.
LEMMA NoSyncIsOne == OneSync(NoSync)
  BY DEF NoSync, OneSync

\* A sync begins with PRs of the table.
LEMMA BeginKeeps ==
  ASSUME SyncInv, NEW s \in Syncs, NEW prs \in SUBSET PrIds, Begin(s, prs)
  PROVE  SyncsOK' /\ GithubOK' /\ BoardOK' /\ UNCHANGED <<age, changes>>
<1> DEFINE x == [left |-> prs, read |-> <<>>, on |-> TRUE]
<1>1. OneSync(x)
  BY DEF OneSync
<1>2. sync' = [sync EXCEPT ![s] = x] /\ UNCHANGED <<github, board, age, changes>>
  BY DEF Begin
<1> HIDE DEF x
<1> QED
  BY <1>1, <1>2, OneChanges DEF SyncInv, GithubOK, BoardOK, IsRead

\* The batch of a sync is of the PRs it has left.
LEMMA BatchIsLeft == \A s \in Syncs : Batch(s) \subseteq sync[s].left
  BY DEF Batch

\* A batch is answered: what is read of its PRs is true now.
LEMMA BatchReadKeeps ==
  ASSUME SyncInv, NEW s \in Syncs, BatchRead(s)
  PROVE  SyncsOK'
<1>1. PICK lacks \in SUBSET (Batch(s) \cap Costly) :
        sync' = [sync EXCEPT ![s].left = @ \ Batch(s), ![s].read = With(@, Seen(s, lacks))]
  BY DEF BatchRead
<1>2. sync[s].left # {} /\ github' = github
  BY DEF BatchRead
<1>3. OneSync(sync[s]) /\ Batch(s) \subseteq PrIds
  BY BatchIsLeft DEF SyncInv, SyncsOK, OneSync
<1> DEFINE read == With(sync[s].read, Seen(s, lacks))
           x == [left |-> sync[s].left \ Batch(s), read |-> read, on |-> sync[s].on]
<1>4. DOMAIN read \subseteq PrIds /\ \A p \in DOMAIN read : IsRead(p, read[p])
  <2>1. DOMAIN Seen(s, lacks) \subseteq PrIds
        /\ \A p \in DOMAIN Seen(s, lacks) : IsRead(p, Seen(s, lacks)[p])
    <3>1. \A p \in Batch(s) : IsRead(p, View(github[p]))
      BY <1>3, ViewIsRead DEF SyncInv, GithubOK
    <3> QED
      BY <1>3, <3>1 DEF Seen
  <2> QED
    BY <1>3, <2>1 DEF With, OneSync
<1>5. sync' = [sync EXCEPT ![s] = x]
  <2>1. sync[s] = [left |-> sync[s].left, read |-> sync[s].read, on |-> sync[s].on]
    BY <1>3 DEF OneSync
  <2> DEFINE y == [sync[s] EXCEPT !.left = @ \ Batch(s)]
  <2>2. y = [left |-> sync[s].left \ Batch(s), read |-> sync[s].read, on |-> sync[s].on]
    BY <2>1
  <2>3. sync = [q \in Syncs |-> sync[q]]
    BY DEF SyncInv, SyncsOK
  <2>4. [y EXCEPT !.read = read] = x
    <3> HIDE DEF y, read
    <3> QED
      BY <2>2
  <2>5. sync' = [sync EXCEPT ![s] = [y EXCEPT !.read = With(y.read, Seen(s, lacks))]]
    BY <1>1, <2>3
  <2>6. y.read = sync[s].read
    <3> HIDE DEF y
    <3> QED
      BY <2>2
  <2> HIDE DEF x, y
  <2> QED
    BY <2>4, <2>5, <2>6
<1>6. OneSync(x)
  <2> HIDE DEF read
  <2> QED
    BY <1>2, <1>3, <1>4 DEF OneSync
<1> HIDE DEF x
<1> QED
  BY <1>2, <1>5, <1>6, OneChanges DEF SyncInv

\* A batch fails: its PRs are not read.
LEMMA BatchFailsKeeps ==
  ASSUME SyncInv, NEW s \in Syncs, BatchFails(s)
  PROVE  SyncsOK'
<1> DEFINE x == [sync[s] EXCEPT !.left = @ \ Batch(s)]
<1>1. OneSync(sync[s])
  BY DEF SyncInv, SyncsOK
<1>2. OneSync(x)
  BY <1>1 DEF OneSync, BatchFails
<1>3. sync' = [sync EXCEPT ![s] = x] /\ github' = github
  BY DEF BatchFails, Skipped
<1> HIDE DEF x
<1> QED
  BY <1>2, <1>3, OneChanges DEF SyncInv

\* The transaction: what was read is still true of GitHub.
LEMMA WriteAnswersKeeps ==
  ASSUME SyncInv, NEW s \in Syncs, WriteAnswers(s)
  PROVE  SyncInv'
<1>1. OneSync(sync[s])
  BY DEF SyncInv, SyncsOK
<1>2. SyncsOK'
  BY NoSyncIsOne, OneChanges DEF WriteAnswers, SyncInv
<1>3. ASSUME NEW p \in PrIds
      PROVE  IsRead(p, IF p \in DOMAIN sync[s].read THEN sync[s].read[p] ELSE board[p])
  BY <1>1 DEF OneSync, SyncInv, BoardOK
<1>4. BoardOK'
  <2>1. board' = [p \in PrIds |-> IF p \in DOMAIN sync[s].read THEN sync[s].read[p] ELSE board[p]]
        /\ github' = github
    BY DEF WriteAnswers
  <2>2. \A p \in PrIds : board'[p] = IF p \in DOMAIN sync[s].read THEN sync[s].read[p] ELSE board[p]
    BY <2>1
  <2>3. \A p \in PrIds : IsRead(p, board'[p])
    BY <1>3, <2>2
  <2> QED
    BY <2>1, <2>3 DEF BoardOK, IsRead
<1>5. ClockOK'
  BY DEF WriteAnswers, SyncInv, ClockOK
<1> QED
  BY <1>2, <1>4, <1>5 DEF WriteAnswers, SyncInv, GithubOK

\* A PR changes on GitHub: one that is merged or closed stays so.
LEMMA ChangeKeeps ==
  ASSUME SyncInv, NEW p \in PrIds, Change(p)
  PROVE  SyncInv'
<1>1. github[p] \in Facts /\ github[p].state \notin Terminal
  BY DEF Change, SyncInv, GithubOK
<1>2. PICK fact \in Facts : github' = [github EXCEPT ![p] = fact]
  <2>1. CASE \E state \in {"open"} \cup Terminal : github' = [github EXCEPT ![p].state = state]
    <3>1. PICK state \in {"open"} \cup Terminal : github' = [github EXCEPT ![p].state = state]
      BY <2>1
    <3>2. [github[p] EXCEPT !.state = state] \in Facts
      BY <1>1 DEF Facts
    <3>3. github' = [github EXCEPT ![p] = [github[p] EXCEPT !.state = state]]
      BY <3>1
    <3> QED
      BY <3>2, <3>3
  <2>2. CASE \E review \in Reviews : github' = [github EXCEPT ![p].review = review]
    <3>1. PICK review \in Reviews : github' = [github EXCEPT ![p].review = review]
      BY <2>2
    <3>2. [github[p] EXCEPT !.review = review] \in Facts
      BY <1>1 DEF Facts
    <3>3. github' = [github EXCEPT ![p] = [github[p] EXCEPT !.review = review]]
      BY <3>1
    <3> QED
      BY <3>2, <3>3
  <2>3. CASE \E rollup \in Rollups : github' = [github EXCEPT ![p].rollup = rollup]
    <3>1. PICK rollup \in Rollups : github' = [github EXCEPT ![p].rollup = rollup]
      BY <2>3
    <3>2. [github[p] EXCEPT !.rollup = rollup] \in Facts
      BY <1>1 DEF Facts
    <3>3. github' = [github EXCEPT ![p] = [github[p] EXCEPT !.rollup = rollup]]
      BY <3>1
    <3> QED
      BY <3>2, <3>3
  <2> QED
    BY <2>1, <2>2, <2>3 DEF Change
<1>3. GithubOK' /\ \A q \in PrIds : q # p => github'[q] = github[q]
  BY <1>2 DEF SyncInv, GithubOK
\* Whatever was read says that p is open.
<1>4. ASSUME NEW q \in PrIds, NEW view, IsRead(q, view) PROVE IsRead(q, view)'
  <2>1. view \in Views /\ (view.lifecycle \in Terminal => q # p /\ github[q].state = view.lifecycle)
    BY <1>1, <1>4 DEF IsRead
  <2> QED
    BY <1>3, <2>1 DEF IsRead
<1>5. BoardOK'
  <2>1. board' = board /\ board \in [PrIds -> Views] /\ \A q \in PrIds : IsRead(q, board[q])
    BY DEF Change, SyncInv, BoardOK
  <2>2. \A q \in PrIds : IsRead(q, board[q])'
    BY <1>4, <2>1
  <2> QED
    BY <2>1, <2>2 DEF BoardOK
<1>6. SyncsOK'
  <2>1. sync' = sync /\ SyncsOK
    BY DEF Change, SyncInv
  <2>2. ASSUME NEW s \in Syncs PROVE OneSync(sync[s])'
    <3>1. OneSync(sync[s])
      BY <2>1 DEF SyncsOK
    <3>2. \A q \in DOMAIN sync[s].read : IsRead(q, sync[s].read[q])'
      BY <1>4, <2>1, <3>1 DEF OneSync
    <3> QED
      BY <2>1, <3>1, <3>2 DEF OneSync
  <2> QED
    BY <2>1, <2>2 DEF SyncsOK
<1> QED
  BY <1>3, <1>5, <1>6, SyncConstants DEF Change, SyncInv, ClockOK

\* A PR is registered, and is open until it is read.
LEMMA RegisterKeeps ==
  ASSUME SyncInv, NEW p \in PrIds, Register(p)
  PROVE  SyncInv'
<1>1. board[p] \in Views
  BY DEF SyncInv, BoardOK
<1> DEFINE view == [board[p] EXCEPT !.lifecycle = "open"]
<1>2. view \in Views /\ view.lifecycle \notin Terminal
  BY <1>1 DEF Views, Terminal
<1>3. board' = [board EXCEPT ![p] = view] /\ UNCHANGED <<github, age, sync>>
  BY DEF Register
<1> HIDE DEF view
<1>4. BoardOK'
  BY <1>2, <1>3 DEF SyncInv, BoardOK, IsRead
<1>5. SyncsOK'
  BY <1>3 DEF SyncInv, SyncsOK, OneSync, IsRead
<1> QED
  BY <1>3, <1>4, <1>5, SyncConstants DEF Register, SyncInv, GithubOK, ClockOK

\* The initial state.
LEMMA SyncInitInv == SyncInit => SyncInv
<1> SUFFICES ASSUME SyncInit PROVE SyncInv
  OBVIOUS
<1>1. GithubOK
  BY SyncConstants DEF SyncInit, GithubOK, Facts
<1>2. BoardOK
  BY DEF SyncInit, BoardOK, IsRead, Views, Terminal
<1>3. SyncsOK
  <2>1. sync = [s \in Syncs |-> NoSync]
    BY DEF SyncInit
  <2> QED
    BY <2>1, NoSyncIsOne DEF SyncsOK
<1> QED
  BY <1>1, <1>2, <1>3, SyncConstants DEF SyncInit, SyncInv, ClockOK

\* Every step keeps the invariant.
LEMMA SyncInductive == SyncInv /\ [SyncNext]_syncVars => SyncInv'
<1> SUFFICES ASSUME SyncInv, [SyncNext]_syncVars PROVE SyncInv'
  OBVIOUS
<1>0. node \subseteq PrIds /\ Due \subseteq PrIds /\ Open \subseteq PrIds
  BY DEF SyncInv, ClockOK, Due, Open
<1>1. ASSUME NEW s \in Syncs, SyncAllActivePrs(s) PROVE SyncInv'
  BY <1>0, <1>1, BeginKeeps DEF SyncAllActivePrs, SyncInv, ClockOK
<1>2. ASSUME NEW s \in Syncs, SyncCampaign(s) PROVE SyncInv'
  <2>1. PICK found \in SUBSET (PrIds \ node) : node' = node \cup found /\ Begin(s, Open \cup found)
    BY <1>2 DEF SyncCampaign
  <2> QED
    BY <1>0, <2>1, BeginKeeps DEF SyncInv, ClockOK
<1>3. ASSUME NEW s \in Syncs, NEW p \in PrIds, SyncPr(s, p) PROVE SyncInv'
  BY <1>0, <1>3, BeginKeeps DEF SyncPr, SyncInv, ClockOK
<1>4. ASSUME NEW s \in Syncs, BatchRead(s) PROVE SyncInv'
  BY <1>4, BatchReadKeeps DEF BatchRead, SyncInv, GithubOK, BoardOK, ClockOK, IsRead
<1>5. ASSUME NEW s \in Syncs, BatchFails(s) PROVE SyncInv'
  BY <1>5, BatchFailsKeeps DEF BatchFails, SyncInv, GithubOK, BoardOK, ClockOK, IsRead
<1>6. ASSUME NEW s \in Syncs, WriteAnswers(s) PROVE SyncInv'
  BY <1>6, WriteAnswersKeeps
<1>7. ASSUME NEW p \in Changing, Register(p) \/ Change(p) PROVE SyncInv'
  BY <1>7, RegisterKeeps, ChangeKeeps, SyncConstants
<1>8. ASSUME NEW p \in PrIds, Age(p) PROVE SyncInv'
  <2>1. ClockOK'
    BY <1>8 DEF Age, SyncInv, ClockOK
  <2> QED
    BY <1>8, <2>1 DEF Age, SyncInv, GithubOK, BoardOK, SyncsOK, OneSync, IsRead
<1>9. CASE SyncRestart
  <2>1. SyncsOK'
    <3>1. sync' = [s \in Syncs |-> NoSync]
      BY <1>9 DEF SyncRestart
    <3>2. OneSync(NoSync)'
      BY DEF NoSync, OneSync
    <3> QED
      BY <3>1, <3>2 DEF SyncsOK
  <2> QED
    BY <1>9, <2>1, SyncConstants DEF SyncRestart, SyncInv, GithubOK, BoardOK, ClockOK, IsRead
<1>10. CASE UNCHANGED syncVars
  BY <1>10 DEF syncVars, SyncInv, GithubOK, BoardOK, ClockOK, SyncsOK, OneSync, IsRead
<1> QED
  BY <1>1, <1>2, <1>3, <1>4, <1>5, <1>6, <1>7, <1>8, <1>9, <1>10 DEF SyncNext, Answer

\* Whatever batches fail, lack PRs or are written late: the types, and that no
\* answer read and no row of the board is ahead of GitHub.
THEOREM SyncInvariant == SyncSpec => []SyncInv
  BY SyncInitInv, SyncInductive, PTL DEF SyncSpec

\* github.ts:301, 355: a PR that is not read any more, because the board has it
\* merged or closed, is merged or closed on GitHub.
THEOREM FinishedPrsAreFinished == SyncSpec => []FinishedIsTrue
<1>1. SyncInv => FinishedIsTrue
  BY DEF SyncInv, BoardOK, IsRead, FinishedIsTrue
<1> QED
  BY <1>1, SyncInvariant, PTL

\* Types of the tables and of syncs under way.
THEOREM SyncTypes == SyncSpec => []SyncTypeOK
<1>1. SyncInv => SyncTypeOK
  BY DEF SyncInv, GithubOK, BoardOK, ClockOK, SyncsOK, OneSync, IsRead, SyncTypeOK
<1> QED
  BY <1>1, SyncInvariant, PTL

=============================================================================
