---------------------------- MODULE PlacementProofs ----------------------------
(* Proofs about Placement: for any requests, hosts, slots and placement order. *)
EXTENDS Placement, FiniteSetTheorems, WellFoundedInduction, TLAPS

(* The last-resort sessions of a host, recorded or in flight.  Their number is *)
(* bounded by what Used counts, which is why Used has to count every launch in *)
(* flight: a launch may be recorded between two looks at it.                   *)
LastOn(h) ==
  {r \in Requests : at[r] = h /\ reason[r] = "last_resort" /\ phase[r] \in {"launching", "running"}}

SlotTypes ==
  /\ DOMAIN phase = Requests /\ DOMAIN at = Requests /\ DOMAIN reason = Requests
  /\ inFlight \in [FleetHosts -> Nat]

SlotInv == SlotTypes /\ SlotsHold

SlotVars == <<configured, phase, at, reason, inFlight>>

-----------------------------------------------------------------------------
\* Any requests are finitely many.
LEMMA RequestsAreFinite ==
  ASSUME NEW S \in SUBSET Requests
  PROVE  IsFiniteSet(S) /\ Cardinality(S) \in Nat
  BY PlacementConstants, FS_Subset, FS_CardinalityType

\* A host has a number of slots.
LEMMA SlotsAreNaturals == \A h \in FleetHosts : SlotsOf(h) \in Nat
  BY PlacementConstants DEF SlotsOf

\* Fewer last-resort sessions, and as many launches in flight as counted.
LEMMA SlotsStay ==
  ASSUME SlotInv, SlotTypes', UNCHANGED configured,
         NEW h \in FleetHosts, LastOn(h)' \subseteq LastOn(h),
         inFlight'[h] = Cardinality(On(h, "launching")')
  PROVE  /\ Cardinality(LastOn(h)') <= SlotsOf(h)'
         /\ inFlight'[h] = Cardinality(On(h, "launching")')
<1>1. LastOn(h) \in SUBSET Requests
  BY DEF LastOn
<1>2. IsFiniteSet(LastOn(h)) /\ Cardinality(LastOn(h)) \in Nat
  BY <1>1, RequestsAreFinite
<1>3. LastOn(h)' \in SUBSET Requests
  BY <1>1
<1>4. Cardinality(LastOn(h)') \in Nat
  BY <1>3, RequestsAreFinite
<1>5. Cardinality(LastOn(h)') <= Cardinality(LastOn(h))
  BY <1>2, FS_Subset
<1>6. Cardinality(LastOn(h)) <= SlotsOf(h)
  BY DEF SlotInv, SlotsHold, LastOn
<1>7. SlotsOf(h)' = SlotsOf(h)
  BY DEF SlotsOf
<1> QED
  BY <1>2, <1>4, <1>5, <1>6, <1>7, SlotsAreNaturals

\* What Used counts is no less than the last-resort sessions.
LEMMA UsedCountsLastResort ==
  ASSUME SlotInv, NEW h \in FleetHosts
  PROVE  Cardinality(LastOn(h)) <= Used(h) /\ Used(h) \in Nat
<1> DEFINE R == On(h, "running")
           L == On(h, "launching")
<1>1. R \in SUBSET Requests /\ L \in SUBSET Requests /\ LastOn(h) \in SUBSET Requests
  BY DEF On, LastOn
<1>2. /\ IsFiniteSet(R) /\ Cardinality(R) \in Nat
      /\ IsFiniteSet(L) /\ Cardinality(L) \in Nat
      /\ Cardinality(LastOn(h)) \in Nat
  BY <1>1, RequestsAreFinite
<1>3. R \cap L = {}
  BY DEF On
<1>4. IsFiniteSet(R \cup L) /\ Cardinality(R \cup L) = Cardinality(R) + Cardinality(L)
  <2>1. Cardinality(R \cap L) = 0
    BY <1>3, FS_EmptySet
  <2>2. IsFiniteSet(R \cup L) /\ Cardinality(R \cup L) = Cardinality(R) + Cardinality(L) - Cardinality(R \cap L)
    BY <1>2, FS_Union
  <2> QED
    BY <1>2, <2>1, <2>2
<1>5. LastOn(h) \in SUBSET (R \cup L)
  BY DEF On, LastOn
<1>6. Cardinality(LastOn(h)) <= Cardinality(R \cup L)
  BY <1>4, <1>5, FS_Subset
<1>7. inFlight[h] = Cardinality(L)
  BY DEF SlotInv, SlotsHold
<1> QED
  BY <1>2, <1>4, <1>6, <1>7 DEF Used

\* A placement takes a free slot, if it takes one.
LEMMA PlacedOn ==
  ASSUME SlotInv, NEW r \in Requests, phase[r] \notin {"launching", "running"}, NEW h, NEW why,
         PlaceOn(r, h, why), UNCHANGED configured,
         why = "last_resort" => h \in FleetHosts /\ Used(h) < SlotsOf(h)
  PROVE  SlotInv'
<1>1. SlotTypes'
  <2>1. inFlight \in [FleetHosts -> Nat] /\ inFlight' = [inFlight EXCEPT ![h] = @ + 1]
    BY DEF PlaceOn, SlotInv, SlotTypes
  <2>2. h \in FleetHosts => inFlight' \in [FleetHosts -> Nat]
    <3> SUFFICES ASSUME h \in FleetHosts PROVE inFlight' \in [FleetHosts -> Nat]
      OBVIOUS
    <3>1. inFlight[h] + 1 \in Nat
      BY <2>1
    <3> QED
      BY <2>1, <3>1
  <2>3. h \notin FleetHosts => inFlight' \in [FleetHosts -> Nat]
    BY <2>1
  <2>4. inFlight' \in [FleetHosts -> Nat]
    BY <2>2, <2>3
  <2>5. DOMAIN phase' = DOMAIN phase /\ DOMAIN at' = DOMAIN at /\ DOMAIN reason' = DOMAIN reason
    BY DEF PlaceOn
  <2> QED
    BY <2>4, <2>5 DEF SlotInv, SlotTypes, PlaceOn
<1>2. ASSUME NEW g \in FleetHosts, g # h
      PROVE  /\ Cardinality(LastOn(g)') <= SlotsOf(g)'
             /\ inFlight'[g] = Cardinality(On(g, "launching")')
  <2>1. LastOn(g)' \subseteq LastOn(g)
    BY <1>2 DEF LastOn, PlaceOn, SlotInv, SlotTypes
  <2>2. On(g, "launching")' = On(g, "launching")
    BY <1>2 DEF On, PlaceOn, SlotInv, SlotTypes
  <2>3. inFlight'[g] = inFlight[g]
    BY <1>2 DEF PlaceOn, SlotInv, SlotTypes
  <2> QED
    BY <1>1, <2>1, <2>2, <2>3, SlotsStay DEF SlotInv, SlotsHold
<1>3. ASSUME h \in FleetHosts
      PROVE  /\ Cardinality(LastOn(h)') <= SlotsOf(h)'
             /\ inFlight'[h] = Cardinality(On(h, "launching")')
  <2>1. On(h, "launching")' = On(h, "launching") \cup {r} /\ r \notin On(h, "launching")
    BY DEF On, PlaceOn, SlotInv, SlotTypes
  <2>2. inFlight'[h] = inFlight[h] + 1
    BY <1>3 DEF PlaceOn, SlotInv, SlotTypes
  <2>3. On(h, "launching") \in SUBSET Requests /\ LastOn(h) \in SUBSET Requests
    BY DEF On, LastOn
  <2>4. IsFiniteSet(On(h, "launching")) /\ IsFiniteSet(LastOn(h)) /\ Cardinality(LastOn(h)) \in Nat
    BY <2>3, RequestsAreFinite
  <2>5. Cardinality(On(h, "launching") \cup {r}) = Cardinality(On(h, "launching")) + 1
    BY <2>1, <2>4, FS_AddElement
  <2>6. inFlight'[h] = Cardinality(On(h, "launching")')
    BY <1>3, <2>1, <2>2, <2>5 DEF SlotInv, SlotsHold
  <2>7. CASE why # "last_resort"
    <3>1. LastOn(h)' \subseteq LastOn(h)
      BY <2>7 DEF LastOn, PlaceOn, SlotInv, SlotTypes
    <3> QED
      BY <1>1, <1>3, <2>6, <3>1, SlotsStay
  <2>8. CASE why = "last_resort"
    <3>1. LastOn(h)' = LastOn(h) \cup {r} /\ r \notin LastOn(h)
      BY <2>8 DEF LastOn, PlaceOn, SlotInv, SlotTypes
    <3>2. Cardinality(LastOn(h)') = Cardinality(LastOn(h)) + 1
      BY <2>4, <3>1, FS_AddElement
    <3>3. Cardinality(LastOn(h)) <= Used(h) /\ Used(h) \in Nat /\ SlotsOf(h) \in Nat
      BY <1>3, UsedCountsLastResort, SlotsAreNaturals
    <3>4. SlotsOf(h)' = SlotsOf(h)
      BY DEF SlotsOf
    <3> QED
      BY <2>4, <2>6, <2>8, <3>2, <3>3, <3>4
  <2> QED
    BY <2>7, <2>8
<1>4. SlotsHold'
  BY <1>2, <1>3 DEF SlotsHold, LastOn
<1> QED
  BY <1>1, <1>4 DEF SlotInv

\* A launch that is settled gives back what was counted for it.
LEMMA LaunchSettled ==
  ASSUME SlotInv, NEW r \in Requests, phase[r] = "launching", Settle(r), UNCHANGED configured,
         \/ phase' = [phase EXCEPT ![r] = "running"] /\ UNCHANGED <<at, reason>>
         \/ Over(r)
  PROVE  SlotInv'
<1>1. ASSUME NEW h \in FleetHosts
      PROVE  /\ LastOn(h)' \subseteq LastOn(h)
             /\ inFlight'[h] = Cardinality(On(h, "launching")')
             /\ inFlight'[h] \in Nat
  <2>1. LastOn(h)' \subseteq LastOn(h)
    BY DEF LastOn, Over, SlotInv, SlotTypes
  <2>2. On(h, "launching")' = On(h, "launching") \ {r}
    BY DEF On, Over, SlotInv, SlotTypes
  <2>3. On(h, "launching") \in SUBSET Requests
    BY DEF On
  <2>4. IsFiniteSet(On(h, "launching")) /\ Cardinality(On(h, "launching")) \in Nat
    BY <2>3, RequestsAreFinite
  <2>5. inFlight[h] = Cardinality(On(h, "launching"))
    BY DEF SlotInv, SlotsHold
  <2>6. inFlight'[h] = IF r \in On(h, "launching") THEN inFlight[h] - 1 ELSE inFlight[h]
    BY DEF Settle, On, SlotInv, SlotTypes
  <2>7. Cardinality(On(h, "launching") \ {r}) =
          IF r \in On(h, "launching") THEN Cardinality(On(h, "launching")) - 1
                                      ELSE Cardinality(On(h, "launching"))
    BY <2>4, FS_RemoveElement
  <2>8. On(h, "launching")' \in SUBSET Requests
    BY <2>2, <2>3
  <2>9. Cardinality(On(h, "launching")') \in Nat
    BY <2>8, RequestsAreFinite
  <2> QED
    BY <2>1, <2>2, <2>5, <2>6, <2>7, <2>9
<1>2. SlotTypes'
  BY <1>1 DEF Settle, Over, SlotInv, SlotTypes
<1> QED
  BY <1>1, <1>2, SlotsStay DEF SlotInv, SlotsHold, LastOn

\* A request that is neither in flight nor running before or after counts nowhere.
LEMMA OthersStay ==
  ASSUME SlotInv, NEW r \in Requests, phase[r] # "launching", UNCHANGED <<configured, inFlight>>,
         \/ Over(r)
         \/ phase' = [phase EXCEPT ![r] = "waking"] /\ UNCHANGED <<at, reason>>
  PROVE  SlotInv'
<1>1. ASSUME NEW h \in FleetHosts
      PROVE  LastOn(h)' \subseteq LastOn(h) /\ On(h, "launching")' = On(h, "launching")
  BY DEF LastOn, On, Over, SlotInv, SlotTypes
<1>2. SlotTypes'
  BY DEF Over, SlotInv, SlotTypes
<1> QED
  BY <1>1, <1>2, SlotsStay DEF SlotInv, SlotsHold, LastOn

\* The walk takes a last-resort slot only where one is free.
LEMMA WalkTakesFreeSlots ==
  ASSUME SlotInv, NEW r \in Requests, phase[r] \in {"new", "waking"}, NEW o, NEW i, WalkFrom(r, o, i),
         hosts \subseteq Followers, UNCHANGED configured
  PROVE  SlotInv'
<1> DEFINE left == {j \in i..Len(Order) : Offer(r, o, Order[j]) # {}}
           step == Order[Min(left)]
<1>1. CASE left = {}
  <2>1. Over(r) /\ UNCHANGED inFlight
    BY <1>1 DEF WalkFrom, schedVars
  <2> QED
    BY <2>1, OthersStay
<1>2. CASE left # {} /\ step = "wake"
  <2>1. phase' = [phase EXCEPT ![r] = "waking"] /\ UNCHANGED <<at, reason, inFlight>>
    BY <1>2 DEF WalkFrom, schedVars
  <2> QED
    BY <2>1, OthersStay
<1>3. CASE left # {} /\ step # "wake"
  <2>1. PICK h \in Offer(r, o, step) : PlaceOn(r, h, step)
    BY <1>3 DEF WalkFrom
  <2>2. step = "last_resort" => h \in FleetHosts /\ Used(h) < SlotsOf(h)
    BY <2>1 DEF Offer, LastResortOffer, KnownHosts, FleetHosts
  <2> QED
    BY <2>1, <2>2, PlacedOn
<1> QED
  BY <1>1, <1>2, <1>3

-----------------------------------------------------------------------------
SchedInv == SlotInv /\ hosts \subseteq Followers /\ fleetHosts \subseteq Followers

\* The initial state: no request was made.
LEMMA SchedInit == PlaceInit => SchedInv
<1> SUFFICES ASSUME PlaceInit PROVE SchedInv
  OBVIOUS
<1>1. \A h \in FleetHosts : LastOn(h) = {} /\ On(h, "launching") = {} /\ inFlight[h] = 0
  BY DEF PlaceInit, LastOn, On
<1>2. SlotsHold
  BY <1>1, FS_EmptySet, SlotsAreNaturals DEF SlotsHold, LastOn
<1> QED
  BY <1>2 DEF PlaceInit, SchedInv, SlotInv, SlotTypes

\* Every step keeps what is known of hosts: they are followers.
LEMMA HostsStep ==
  ASSUME SchedInv, [PlaceNext]_placeVars
  PROVE  hosts' \subseteq Followers /\ fleetHosts' \subseteq Followers
  BY DEF SchedInv, PlaceNext, placeVars, viewVars, reqVars, schedVars, WakeFails, Recorded, GivenUp,
     SessionEnds, ReservationEnds, Ask, AskFor, Woken, RecordHeartbeat, GoSilent, Restart, Hydrated,
     FleetHosts

\* Each step of the scheduler, of its launches and of its hosts.
LEMMA SlotStep ==
  ASSUME SchedInv, [PlaceNext]_placeVars
  PROVE  SlotInv'
<1> USE DEF SchedInv
<1>1. ASSUME NEW r \in Requests, NEW o \in FleetHosts \union {NoHost}, Ask(r, o) PROVE SlotInv'
  <2>1. phase[r] = "new" /\ UNCHANGED configured
    BY <1>1 DEF Ask
  <2>2. CASE Alone
    <3>1. PlaceOn(r, Self, "local")
      BY <1>1, <2>2 DEF Ask, Local
    <3> QED
      BY <2>1, <3>1, PlacedOn
  <2>3. CASE ~Alone
    <3>1. WalkFrom(r, o, 1)
      BY <1>1, <2>3 DEF Ask
    <3> QED
      BY <2>1, <3>1, WalkTakesFreeSlots
  <2> QED
    BY <2>2, <2>3
<1>2. ASSUME NEW r \in Requests, NEW h \in FleetHosts, AskFor(r, h) PROVE SlotInv'
  <2>1. phase[r] = "new" /\ UNCHANGED configured
    BY <1>2 DEF AskFor
  <2>2. \/ PlaceOn(r, Self, "local") \/ PlaceOn(r, h, "requested")
        \/ Over(r) /\ UNCHANGED inFlight
    BY <1>2 DEF AskFor, Local
  <2> QED
    BY <2>1, <2>2, PlacedOn, OthersStay
<1>3. ASSUME NEW r \in Requests, NEW h \in FleetHosts, Woken(r, h) PROVE SlotInv'
  <2>1. phase[r] = "waking" /\ UNCHANGED configured /\ PlaceOn(r, h, "wake")
    BY <1>3 DEF Woken
  <2> QED
    BY <2>1, PlacedOn
<1>4. ASSUME NEW r \in Requests, WakeFails(r) PROVE SlotInv'
  <2>1. phase[r] = "waking" /\ UNCHANGED configured /\ WalkFrom(r, origin[r], walk[r] + 1)
    BY <1>4 DEF WakeFails
  <2> QED
    BY <2>1, WalkTakesFreeSlots
<1>5. ASSUME NEW r \in Requests, Recorded(r) \/ GivenUp(r) PROVE SlotInv'
  <2>1. /\ phase[r] = "launching" /\ Settle(r) /\ UNCHANGED configured
        /\ \/ phase' = [phase EXCEPT ![r] = "running"] /\ UNCHANGED <<at, reason>>
           \/ Over(r)
    BY <1>5 DEF Recorded, GivenUp
  <2> QED
    BY <2>1, LaunchSettled
<1>6. ASSUME NEW r \in Requests, SessionEnds(r) PROVE SlotInv'
  <2>1. phase[r] = "running" /\ Over(r) /\ UNCHANGED <<configured, inFlight>>
    BY <1>6 DEF SessionEnds, schedVars
  <2> QED
    BY <2>1, OthersStay
<1>7. CASE Restart
  <2>1. ASSUME NEW h \in FleetHosts
        PROVE  /\ LastOn(h)' \subseteq LastOn(h)
               /\ inFlight'[h] = Cardinality(On(h, "launching")')
    <3>1. LastOn(h)' \subseteq LastOn(h)
      BY <1>7 DEF Restart, LastOn
    <3>2. On(h, "launching")' = {}
      BY <1>7 DEF Restart, On
    <3>3. inFlight'[h] = 0
      BY <1>7 DEF Restart
    <3> QED
      BY <3>1, <3>2, <3>3, FS_EmptySet
  <2>2. SlotTypes' /\ UNCHANGED configured
    BY <1>7 DEF Restart, SlotTypes
  <2> QED
    BY <2>1, <2>2, SlotsStay DEF SlotInv, SlotsHold, LastOn
<1>8. ASSUME UNCHANGED SlotVars PROVE SlotInv'
  <2>1. SlotTypes'
    BY <1>8 DEF SlotVars, SlotInv, SlotTypes
  <2>2. \A h \in FleetHosts : LastOn(h)' = LastOn(h) /\ On(h, "launching")' = On(h, "launching")
    BY <1>8 DEF SlotVars, LastOn, On
  <2> QED
    BY <1>8, <2>1, <2>2, SlotsStay DEF SlotVars, SlotInv, SlotsHold, LastOn
<1>9. CASE \/ \E r \in Requests : ReservationEnds(r)
           \/ \E h \in FleetHosts : RecordHeartbeat(h) \/ GoSilent(h)
           \/ UNCHANGED placeVars
  BY <1>8, <1>9 DEF ReservationEnds, RecordHeartbeat, GoSilent, placeVars, reqVars, schedVars, SlotVars
<1> QED
  BY <1>1, <1>2, <1>3, <1>4, <1>5, <1>6, <1>7, <1>9 DEF PlaceNext

\* The invariant of the scheduler.
THEOREM SchedInvariant == PlaceSpec => []SchedInv
<1>1. SchedInv /\ [PlaceNext]_placeVars => SchedInv'
  BY HostsStep, SlotStep DEF SchedInv
<1> QED
  BY <1>1, SchedInit, PTL DEF PlaceSpec

\* No host ever has more last-resort sessions than slots, and the launches counted
\* as in flight are those that are, whatever fails, ends or restarts.
THEOREM SlotsAlwaysHold == PlaceSpec => []SlotsHold
<1>1. SchedInv => SlotsHold
  BY DEF SchedInv, SlotInv
<1> QED
  BY <1>1, SchedInvariant, PTL

-----------------------------------------------------------------------------
(* NoPileUp.  Of the sessions placed by capacity on a host since the control *)
(* plane started, those its last report showed are in its stats, which may   *)
(* count sessions that ended since but never fewer than run; all others hold *)
(* a reservation.  Free looks at the sum of the two.                         *)

Capacity == {"origin", "pool", "wake"}
CapOn(h) ==
  {r \in Requests : at[r] = h /\ reason[r] \in Capacity /\ phase[r] \in {"launching", "running"}}
ReservedOn(h) == {r \in Requests : reservations[r] = h}
ShownOn(h) == shown \cap On(h, "running")

PileTypes ==
  /\ SlotTypes /\ DOMAIN reservations = Requests /\ stats \in [FleetHosts -> Nat]
  /\ walk \in [Requests -> Nat] /\ cpLives \in Nat \ {0}

\* What the last reports showed still runs: an exit takes it out.
ShownRun == \A r \in shown : r \in Requests /\ phase[r] = "running"

\* Host h's stats and reservations cover what was placed on it by capacity.
Fits(h) ==
  /\ Cardinality(ShownOn(h)) <= stats[h]
  /\ CapOn(h) \ shown \subseteq ReservedOn(h)
  /\ Cardinality(CapOn(h)) <= Limit[h]

\* The invariant.
PileInv ==
  /\ SchedInv /\ PileTypes /\ ShownRun
  /\ hosts = fleetHosts
  /\ cpLives = 1 => \A h \in FleetHosts : Fits(h)

\* The least of a set of naturals is one of them.
LEMMA LeastOfNaturals ==
  ASSUME NEW S \in SUBSET Nat, S # {}
  PROVE  Min(S) \in S
<1>1. PICK m \in S : \A n \in S : ~(<<n, m>> \in OpToRel(<, Nat))
  BY NatLessThanWellFounded, WFMin
<1>2. \A n \in S : ~(n < m)
  BY <1>1 DEF OpToRel
<1>3. \E k \in S : \A n \in S : k <= n
  BY <1>2
<1> QED
  BY <1>3 DEF Min

\* The walk waits in, or places by, a step of the order.
LEMMA WalkStopsInOrder ==
  ASSUME NEW i \in Nat, NEW r, NEW o,
         NEW left, left = {j \in i..Len(Order) : Offer(r, o, Order[j]) # {}}, left # {}, i > 0
  PROVE  Min(left) \in Nat /\ Min(left) \in left
         /\ Order[Min(left)] \in {"origin", "pool", "wake", "last_resort"}
<1>1. Len(Order) \in Nat /\ \A j \in 1..Len(Order) : Order[j] \in {"origin", "pool", "wake", "last_resort"}
  BY PlacementConstants
<1>2. left \in SUBSET Nat /\ \A j \in left : j \in 1..Len(Order)
  BY <1>1
<1>3. Min(left) \in left
  BY <1>2, LeastOfNaturals
<1> QED
  BY <1>1, <1>2, <1>3

\* What Free counts is no less than the sessions placed by capacity.
LEMMA TakenCountsCapacity ==
  ASSUME PileInv, cpLives = 1, NEW h \in FleetHosts
  PROVE  /\ Cardinality(CapOn(h)) \in Nat /\ IsFiniteSet(CapOn(h))
         /\ Cardinality(CapOn(h)) <= stats[h] + Cardinality(ReservedOn(h))
         /\ Cardinality(ReservedOn(h)) \in Nat /\ stats[h] \in Nat
<1>1. CapOn(h) \in SUBSET Requests /\ ReservedOn(h) \in SUBSET Requests /\ ShownOn(h) \in SUBSET Requests
  BY DEF CapOn, ReservedOn, ShownOn, On
<1>2. /\ IsFiniteSet(CapOn(h)) /\ Cardinality(CapOn(h)) \in Nat
      /\ IsFiniteSet(ReservedOn(h)) /\ Cardinality(ReservedOn(h)) \in Nat
      /\ IsFiniteSet(ShownOn(h)) /\ Cardinality(ShownOn(h)) \in Nat
  BY <1>1, RequestsAreFinite
<1>3. Fits(h)
  BY DEF PileInv
<1>4. CapOn(h) \in SUBSET (ShownOn(h) \cup ReservedOn(h))
  BY <1>3 DEF Fits, PileInv, ShownRun, CapOn, ShownOn, On
<1>5. /\ IsFiniteSet(ShownOn(h) \cup ReservedOn(h))
      /\ Cardinality(ShownOn(h) \cup ReservedOn(h)) =
           Cardinality(ShownOn(h)) + Cardinality(ReservedOn(h)) - Cardinality(ShownOn(h) \cap ReservedOn(h))
  BY <1>2, FS_Union
<1>6. Cardinality(ShownOn(h) \cap ReservedOn(h)) \in Nat
  BY <1>2, FS_Intersection, FS_CardinalityType
<1>7. Cardinality(CapOn(h)) <= Cardinality(ShownOn(h) \cup ReservedOn(h))
  BY <1>4, <1>5, FS_Subset
<1>8. stats[h] \in Nat
  BY DEF PileInv, PileTypes
<1> QED
  BY <1>2, <1>3, <1>5, <1>6, <1>7, <1>8 DEF Fits

\* Nothing is placed by capacity.
LEMMA FitsStays ==
  ASSUME PileInv, cpLives = 1, NEW h \in FleetHosts, CapOn(h)' \subseteq CapOn(h),
         ShownOn(h)' \subseteq ShownOn(h), stats'[h] = stats[h],
         CapOn(h)' \ shown' \subseteq ReservedOn(h)'
  PROVE  Fits(h)'
<1>1. Fits(h) /\ stats[h] \in Nat /\ Limit[h] \in Nat
  BY PlacementConstants DEF PileInv, PileTypes
<1>2. CapOn(h) \in SUBSET Requests /\ ShownOn(h) \in SUBSET Requests
  BY DEF CapOn, ShownOn, On
<1>3. CapOn(h)' \in SUBSET CapOn(h) /\ ShownOn(h)' \in SUBSET ShownOn(h)
  OBVIOUS
<1>4. /\ IsFiniteSet(CapOn(h)) /\ Cardinality(CapOn(h)) \in Nat
      /\ IsFiniteSet(ShownOn(h)) /\ Cardinality(ShownOn(h)) \in Nat
  BY <1>2, RequestsAreFinite
<1>5. Cardinality(CapOn(h)') <= Cardinality(CapOn(h)) /\ Cardinality(ShownOn(h)') <= Cardinality(ShownOn(h))
  BY <1>3, <1>4, FS_Subset
<1>6. Cardinality(CapOn(h)') \in Nat /\ Cardinality(ShownOn(h)') \in Nat
  BY <1>3, <1>4, FS_Subset, FS_CardinalityType
<1> QED
  BY <1>1, <1>4, <1>5, <1>6 DEF Fits

\* A request is placed, by capacity only where there is room for it.
LEMMA PlacedInRoom ==
  ASSUME PileInv, NEW r \in Requests, phase[r] \notin {"launching", "running"}, NEW h, NEW why,
         PlaceOn(r, h, why), UNCHANGED <<stats, shown, cpLives>>,
         \/ why \notin Capacity /\ UNCHANGED reservations
         \/ Reserve(r, h),
         why \in Capacity => (h \in FleetHosts => Free(h)) /\ Reserve(r, h),
         cpLives = 1, NEW g \in FleetHosts
  PROVE  Fits(g)'
<1> USE DEF PileInv, PileTypes, SlotTypes
<1>1. Fits(g)
  OBVIOUS
<1>2. r \notin shown
  BY DEF ShownRun
<1>3. ShownOn(g)' = ShownOn(g)
  BY <1>2 DEF ShownOn, On, PlaceOn
<1>4. CASE why \notin Capacity \/ g # h
  <2>1. CapOn(g)' \subseteq CapOn(g)
    BY <1>4 DEF CapOn, PlaceOn
  <2>2. CapOn(g)' \ shown' \subseteq ReservedOn(g)'
    BY <1>1, <1>4, <2>1 DEF Fits, ReservedOn, Reserve, CapOn, PlaceOn
  <2> QED
    BY <1>3, <2>1, <2>2, FitsStays
<1>5. CASE why \in Capacity /\ g = h
  <2>1. Free(g) /\ Reserve(r, h)
    BY <1>5
  <2>2. CapOn(g)' \subseteq CapOn(g) \cup {r}
    BY DEF CapOn, PlaceOn
  <2>3. CapOn(g)' \ shown' \subseteq ReservedOn(g)'
    BY <1>1, <1>5, <2>1, <2>2 DEF Fits, ReservedOn, Reserve, CapOn, PlaceOn
  <2>4. stats[g] + Cardinality(ReservedOn(g)) < Limit[g] /\ Limit[g] \in Nat
    BY <2>1, PlacementConstants DEF Free, ReservedOn
  <2>5. /\ IsFiniteSet(CapOn(g) \cup {r})
        /\ Cardinality(CapOn(g) \cup {r}) <= Cardinality(CapOn(g)) + 1
    <3>1. IsFiniteSet(CapOn(g)) /\ Cardinality(CapOn(g)) \in Nat
      BY TakenCountsCapacity
    <3>2. /\ IsFiniteSet(CapOn(g) \cup {r})
          /\ Cardinality(CapOn(g) \cup {r}) =
               IF r \in CapOn(g) THEN Cardinality(CapOn(g)) ELSE Cardinality(CapOn(g)) + 1
      BY <3>1, FS_AddElement
    <3> QED
      BY <3>1, <3>2
  <2>6. CapOn(g)' \in SUBSET (CapOn(g) \cup {r})
    BY <2>2
  <2>7. Cardinality(CapOn(g)') <= Cardinality(CapOn(g) \cup {r}) /\ Cardinality(CapOn(g)') \in Nat
        /\ Cardinality(CapOn(g) \cup {r}) \in Nat
    BY <2>5, <2>6, FS_Subset, FS_CardinalityType
  <2>8. Cardinality(CapOn(g)') <= Limit[g]
    BY <2>4, <2>5, <2>7, TakenCountsCapacity
  <2> QED
    BY <1>1, <1>3, <2>3, <2>8 DEF Fits
<1> QED
  BY <1>4, <1>5

\* A request ends.
LEMMA OverFits ==
  ASSUME PileInv, NEW r \in Requests, Over(r), shown' \in {shown, shown \ {r}},
         UNCHANGED <<stats, reservations, cpLives>>, cpLives = 1, NEW g \in FleetHosts
  PROVE  Fits(g)'
<1> USE DEF PileInv, PileTypes, SlotTypes
<1>1. CapOn(g)' \subseteq CapOn(g) /\ r \notin CapOn(g)'
  BY DEF CapOn, Over
<1>2. ShownOn(g)' \subseteq ShownOn(g)
  BY DEF ShownOn, On, Over
<1>3. CapOn(g)' \ shown' \subseteq ReservedOn(g)'
  BY <1>1 DEF Fits, ReservedOn
<1> QED
  BY <1>1, <1>2, <1>3, FitsStays

\* A walk places where there is room, waits, or gives up.
LEMMA WalkFits ==
  ASSUME PileInv, NEW r \in Requests, phase[r] \in {"new", "waking"}, NEW o, NEW i \in Nat, i > 0,
         WalkFrom(r, o, i), UNCHANGED <<configured, viewVars, cpLives>>
  PROVE  /\ walk' \in [Requests -> Nat] /\ DOMAIN reservations' = Requests
         /\ reason' # reason => reason'[r] # "local" /\ reason' = [reason EXCEPT ![r] = reason'[r]]
         /\ phase' = [phase EXCEPT ![r] = phase'[r]]
         /\ cpLives = 1 => \A g \in FleetHosts : Fits(g)'
<1> USE DEF PileInv, PileTypes, SlotTypes
<1> DEFINE left == {j \in i..Len(Order) : Offer(r, o, Order[j]) # {}}
           step == Order[Min(left)]
<1>1. CASE left = {}
  <2>1. Over(r) /\ StopWaking(r) /\ UNCHANGED schedVars
    BY <1>1 DEF WalkFrom
  <2>2. cpLives = 1 => \A g \in FleetHosts : Fits(g)'
    BY <2>1, OverFits DEF schedVars, viewVars
  <2> QED
    BY <2>1, <2>2 DEF Over, StopWaking, schedVars
<1>2. CASE left # {} /\ step = "wake"
  <2>1. /\ phase' = [phase EXCEPT ![r] = "waking"] /\ walk' = [walk EXCEPT ![r] = Min(left)]
        /\ UNCHANGED <<at, reason, schedVars, shown, stats, cpLives>>
    BY <1>2 DEF WalkFrom, viewVars
  <2>2. Min(left) \in Nat
    BY <1>2, WalkStopsInOrder
  <2>3. ASSUME NEW g \in FleetHosts
        PROVE  /\ CapOn(g)' \subseteq CapOn(g) /\ ShownOn(g)' \subseteq ShownOn(g)
               /\ ReservedOn(g)' = ReservedOn(g) /\ stats'[g] = stats[g] /\ shown' = shown
    BY <2>1 DEF CapOn, ShownOn, On, ReservedOn, schedVars
  <2>4. cpLives = 1 => \A g \in FleetHosts : Fits(g)'
    BY <2>3, FitsStays DEF Fits
  <2> QED
    BY <2>1, <2>2, <2>4 DEF schedVars
<1>3. CASE left # {} /\ step # "wake"
  <2>1. PICK h \in Offer(r, o, step) : PlaceOn(r, h, step) /\ Reserve(r, h)
    BY <1>3 DEF WalkFrom
  <2>2. StopWaking(r)
    BY <1>3 DEF WalkFrom
  <2>3. step \in {"origin", "pool", "last_resort"}
    <3>1. left # {} /\ step # "wake"
      BY <1>3
    <3>2. left # {} => step \in {"origin", "pool", "wake", "last_resort"}
      BY WalkStopsInOrder, Zenon
    <3> HIDE DEF left, step
    <3> QED
      BY <3>1, <3>2
  <2>4. step \in Capacity => Free(h)
    <3> HIDE DEF left, step
    <3>1. CASE step = "origin"
      <4>1. h \in OriginOffer(r, o)
        BY <2>1, <3>1 DEF Offer
      <4> QED
        BY <4>1 DEF OriginOffer
    <3>2. CASE step = "pool"
      <4>1. h \in PoolOffer(r, o)
        BY <2>1, <3>2 DEF Offer
      <4> QED
        BY <4>1 DEF PoolOffer, Roomiest
    <3>3. CASE step = "last_resort"
      BY <3>3 DEF Capacity
    <3> QED
      BY <2>3, <3>1, <3>2, <3>3
  <2>5. cpLives = 1 => \A g \in FleetHosts : Fits(g)'
    BY <2>1, <2>4, PlacedInRoom DEF viewVars
  <2> QED
    BY <2>1, <2>2, <2>3, <2>5 DEF PlaceOn, StopWaking, Reserve
<1> QED
  BY <1>1, <1>2, <1>3

\* A report of host h shows all of its sessions that were shown, and maybe more.
LEMMA ReportFits ==
  ASSUME PileInv, NEW h \in FleetHosts, RecordHeartbeat(h), cpLives = 1, NEW g \in FleetHosts
  PROVE  Fits(g)'
<1> USE DEF PileInv, PileTypes, SlotTypes
<1>1. PICK new \in SUBSET (On(h, "running") \ shown), other \in 0..MaxOther :
        /\ shown' = shown \cup new
        /\ stats' = [stats EXCEPT ![h] = Cardinality((shown \cap On(h, "running")) \cup new) + other]
  BY DEF RecordHeartbeat
<1>2. UNCHANGED <<phase, at, reason, reservations>>
  BY DEF RecordHeartbeat, reqVars, schedVars
<1>3. CapOn(g)' = CapOn(g) /\ ReservedOn(g)' = ReservedOn(g) /\ On(g, "running")' = On(g, "running")
  BY <1>2 DEF CapOn, ReservedOn, On
<1>4. Fits(g)
  OBVIOUS
<1>5. CapOn(g)' \ shown' \subseteq ReservedOn(g)' /\ Cardinality(CapOn(g)') <= Limit[g]
  BY <1>1, <1>3, <1>4 DEF Fits
<1>6. Cardinality(ShownOn(g)') <= stats'[g]
  <2>1. CASE g = h
    <3>1. ShownOn(g)' = (shown \cap On(g, "running")) \cup new
      BY <1>1, <1>3, <2>1 DEF ShownOn
    <3>2. (shown \cap On(g, "running")) \cup new \in SUBSET Requests
      BY <1>1, <2>1 DEF On
    <3>3. Cardinality((shown \cap On(g, "running")) \cup new) \in Nat
      BY <3>2, RequestsAreFinite
    <3>4. stats'[g] = Cardinality((shown \cap On(g, "running")) \cup new) + other
      BY <1>1, <2>1
    <3>5. other \in Nat
      BY PlacementConstants
    <3> QED
      BY <3>1, <3>3, <3>4, <3>5
  <2>2. CASE g # h
    <3>1. ShownOn(g)' = ShownOn(g) /\ stats'[g] = stats[g]
      BY <1>1, <1>3, <2>2 DEF ShownOn, On
    <3> QED
      BY <1>4, <3>1 DEF Fits
  <2> QED
    BY <2>1, <2>2
<1> QED
  BY <1>5, <1>6 DEF Fits

\* The initial state: nothing runs.
LEMMA PileInit == PlaceInit => PileInv
<1> SUFFICES ASSUME PlaceInit PROVE PileInv
  OBVIOUS
<1>1. SchedInv /\ PileTypes /\ ShownRun /\ hosts = fleetHosts
  BY SchedInit DEF PlaceInit, SchedInv, SlotInv, PileTypes, ShownRun
<1>2. ASSUME NEW h \in FleetHosts PROVE Fits(h)
  <2>1. CapOn(h) = {} /\ ShownOn(h) = {} /\ stats[h] = 0
    BY DEF PlaceInit, CapOn, ShownOn
  <2> QED
    BY <2>1, FS_EmptySet, PlacementConstants DEF Fits
<1> QED
  BY <1>1, <1>2 DEF PileInv

\* Hosts are known as long as they are stored, and the types of the rest.
LEMMA PileTypesStep ==
  ASSUME PileInv, [PlaceNext]_placeVars
  PROVE  PileTypes' /\ ShownRun' /\ (hosts = fleetHosts)'
<1> USE DEF PileInv, PileTypes, SlotTypes, ShownRun
<1>1. SlotTypes'
  BY SlotStep DEF SlotInv
<1>2. ASSUME NEW r \in Requests, NEW o \in FleetHosts \union {NoHost}, Ask(r, o)
      PROVE  PileTypes' /\ ShownRun' /\ (hosts = fleetHosts)'
  <2>1. CASE Alone
    BY <1>1, <1>2, <2>1 DEF Ask, Local, PlaceOn, viewVars
  <2>2. CASE ~Alone
    <3>1. WalkFrom(r, o, 1) /\ phase[r] = "new" /\ UNCHANGED <<configured, viewVars, cpLives>>
      BY <1>2, <2>2 DEF Ask
    <3>2. /\ walk' \in [Requests -> Nat] /\ DOMAIN reservations' = Requests
          /\ phase' = [phase EXCEPT ![r] = phase'[r]]
      BY <3>1, WalkFits
    <3> QED
      BY <1>1, <3>1, <3>2 DEF viewVars
  <2> QED
    BY <2>1, <2>2
<1>3. ASSUME NEW r \in Requests, WakeFails(r)
      PROVE  PileTypes' /\ ShownRun' /\ (hosts = fleetHosts)'
  <2>1. /\ WalkFrom(r, origin[r], walk[r] + 1) /\ phase[r] = "waking"
        /\ UNCHANGED <<configured, viewVars, cpLives>>
    BY <1>3 DEF WakeFails
  <2>2. walk[r] + 1 \in Nat /\ walk[r] + 1 > 0
    OBVIOUS
  <2>3. /\ walk' \in [Requests -> Nat] /\ DOMAIN reservations' = Requests
        /\ phase' = [phase EXCEPT ![r] = phase'[r]]
    BY <2>1, <2>2, WalkFits
  <2> QED
    BY <1>1, <2>1, <2>3 DEF viewVars
<1>4. ASSUME NEW r \in Requests, NEW h \in FleetHosts, AskFor(r, h) \/ Woken(r, h)
      PROVE  PileTypes' /\ ShownRun' /\ (hosts = fleetHosts)'
  BY <1>1, <1>4 DEF AskFor, Woken, Local, PlaceOn, Over, Reserve, StopWaking, viewVars
<1>5. ASSUME NEW r \in Requests,
             Recorded(r) \/ GivenUp(r) \/ SessionEnds(r) \/ ReservationEnds(r)
      PROVE  PileTypes' /\ ShownRun' /\ (hosts = fleetHosts)'
  BY <1>1, <1>5 DEF Recorded, GivenUp, SessionEnds, ReservationEnds, Over, Reserve, viewVars, reqVars,
     schedVars
<1>6. ASSUME NEW h \in FleetHosts, RecordHeartbeat(h)
      PROVE  PileTypes' /\ ShownRun' /\ (hosts = fleetHosts)'
  <2>1. PICK new \in SUBSET (On(h, "running") \ shown), other \in 0..MaxOther :
          /\ shown' = shown \cup new
          /\ stats' = [stats EXCEPT ![h] = Cardinality((shown \cap On(h, "running")) \cup new) + other]
    BY <1>6 DEF RecordHeartbeat
  <2>2. Cardinality((shown \cap On(h, "running")) \cup new) \in Nat
    <3>1. (shown \cap On(h, "running")) \cup new \in SUBSET Requests
      BY DEF On
    <3> QED
      BY <3>1, RequestsAreFinite
  <2>3. stats' \in [FleetHosts -> Nat]
    BY <2>1, <2>2, PlacementConstants
  <2>4. ShownRun'
    BY <1>6, <2>1 DEF On, RecordHeartbeat, reqVars
  <2>5. (hosts = fleetHosts)'
    BY <1>6 DEF RecordHeartbeat, FleetHosts
  <2> QED
    BY <1>1, <1>6, <2>3, <2>4, <2>5 DEF RecordHeartbeat, reqVars, schedVars
<1>7. CASE Restart
  <2>1. PICK other \in 0..MaxOther : stats' = [stats EXCEPT ![Self] = other]
    BY <1>7 DEF Restart
  <2>2. stats' \in [FleetHosts -> Nat]
    BY <2>1, PlacementConstants DEF FleetHosts
  <2>3. ShownRun'
    BY <1>7 DEF Restart
  <2> QED
    BY <1>1, <1>7, <2>2, <2>3 DEF Restart, Hydrated
<1>8. CASE (\E h \in FleetHosts : GoSilent(h)) \/ UNCHANGED placeVars
  BY <1>1, <1>8 DEF GoSilent, placeVars, viewVars, reqVars, schedVars
<1> QED
  BY <1>2, <1>3, <1>4, <1>5, <1>6, <1>7, <1>8 DEF PlaceNext

\* Each step leaves every host's sessions within its limit.
LEMMA PileStep ==
  ASSUME PileInv, [PlaceNext]_placeVars, cpLives' = 1, NEW g \in FleetHosts
  PROVE  Fits(g)'
<1> USE DEF PileInv, PileTypes, SlotTypes
<1>1. cpLives = 1 /\ ~Restart
  BY DEF PlaceNext, placeVars, viewVars, reqVars, schedVars, WakeFails, Recorded, GivenUp, SessionEnds,
     ReservationEnds, Ask, AskFor, Woken, RecordHeartbeat, GoSilent, Restart
<1>2. ASSUME NEW r \in Requests, NEW o \in FleetHosts \union {NoHost}, Ask(r, o) PROVE Fits(g)'
  <2>1. CASE Alone
    BY <1>1, <1>2, <2>1, PlacedInRoom DEF Ask, Local, Capacity, viewVars
  <2>2. CASE ~Alone
    BY <1>1, <1>2, <2>2, WalkFits DEF Ask
  <2> QED
    BY <2>1, <2>2
<1>3. ASSUME NEW r \in Requests, WakeFails(r) PROVE Fits(g)'
  <2>1. walk[r] + 1 \in Nat /\ walk[r] + 1 > 0
    OBVIOUS
  <2> QED
    BY <1>1, <1>3, <2>1, WalkFits DEF WakeFails
<1>4. ASSUME NEW r \in Requests, NEW h \in FleetHosts, AskFor(r, h) PROVE Fits(g)'
  <2>1. phase[r] = "new" /\ UNCHANGED <<stats, shown, cpLives, reservations>>
    BY <1>4 DEF AskFor, Local, viewVars
  <2>2. CASE PlaceOn(r, Self, "local") \/ PlaceOn(r, h, "requested")
    BY <1>1, <2>1, <2>2, PlacedInRoom DEF Capacity
  <2>3. CASE Over(r)
    BY <1>1, <2>1, <2>3, OverFits
  <2> QED
    BY <1>4, <2>2, <2>3 DEF AskFor, Local
<1>5. ASSUME NEW r \in Requests, NEW h \in FleetHosts, Woken(r, h) PROVE Fits(g)'
  BY <1>1, <1>5, PlacedInRoom DEF Woken, viewVars
<1>6. ASSUME NEW r \in Requests, Recorded(r) PROVE Fits(g)'
  <2>1. r \notin shown
    BY <1>6 DEF Recorded, ShownRun
  <2>2. /\ CapOn(g)' = CapOn(g) /\ ShownOn(g)' = ShownOn(g) /\ stats'[g] = stats[g]
        /\ ReservedOn(g)' = ReservedOn(g) /\ shown' = shown
    BY <1>6, <2>1 DEF Recorded, CapOn, ShownOn, On, ReservedOn, viewVars
  <2> QED
    BY <1>1, <2>2, FitsStays DEF Fits
<1>7. ASSUME NEW r \in Requests, GivenUp(r) \/ SessionEnds(r) PROVE Fits(g)'
  BY <1>1, <1>7, OverFits DEF GivenUp, SessionEnds, viewVars, schedVars
<1>8. ASSUME NEW r \in Requests, ReservationEnds(r) PROVE Fits(g)'
  <2>1. /\ CapOn(g)' = CapOn(g) /\ ShownOn(g)' = ShownOn(g) /\ stats'[g] = stats[g]
        /\ CapOn(g)' \ shown' \subseteq ReservedOn(g)'
    BY <1>1, <1>8 DEF ReservationEnds, Reserve, CapOn, ShownOn, On, ReservedOn, viewVars, reqVars, Fits
  <2> QED
    BY <1>1, <2>1, FitsStays
<1>9. ASSUME NEW h \in FleetHosts, RecordHeartbeat(h) PROVE Fits(g)'
  BY <1>1, <1>9, ReportFits
<1>10. CASE (\E h \in FleetHosts : GoSilent(h)) \/ UNCHANGED placeVars
  <2>1. /\ CapOn(g)' = CapOn(g) /\ ShownOn(g)' = ShownOn(g) /\ stats'[g] = stats[g]
        /\ ReservedOn(g)' = ReservedOn(g) /\ shown' = shown
    BY <1>10 DEF GoSilent, CapOn, ShownOn, On, ReservedOn, placeVars, viewVars, reqVars, schedVars
  <2> QED
    BY <1>1, <2>1, FitsStays DEF Fits
<1> QED
  BY <1>1, <1>2, <1>3, <1>4, <1>5, <1>6, <1>7, <1>8, <1>9, <1>10 DEF PlaceNext

\* Every step keeps it.
LEMMA PileInductive == PileInv /\ [PlaceNext]_placeVars => PileInv'
<1> SUFFICES ASSUME PileInv, [PlaceNext]_placeVars PROVE PileInv'
  OBVIOUS
<1>1. SchedInv'
  BY SlotStep, HostsStep DEF PileInv, SchedInv
<1>2. PileTypes' /\ ShownRun' /\ (hosts = fleetHosts)'
  BY PileTypesStep
<1>3. (cpLives = 1 => \A h \in FleetHosts : Fits(h))'
  BY PileStep
<1> QED
  BY <1>1, <1>2, <1>3 DEF PileInv

\* For any requests, hosts and limits: every host's stats cover the sessions they
\* show, reservations cover the others placed by capacity, and both fit the limit.
THEOREM PileInvariant == PlaceSpec => []PileInv
  BY PileInit, PileInductive, PTL DEF PlaceSpec

\* A burst of spawns stays within the capacity of each host, although a host's
\* stats show none of the recent sessions and wakes take minutes.
THEOREM BurstsDoNotPileUp == PlaceSpec => []NoPileUp
<1>1. PileInv => NoPileUp
  BY DEF PileInv, NoPileUp, Fits, CapOn, Capacity
<1> QED
  BY <1>1, PileInvariant, PTL

\* Only a control plane that has no hosts, after a restart none that it stored
\* either, places a session as "local".
LEMMA LocalStep ==
  ASSUME PileInv, [PlaceNext]_placeVars, NEW r \in Requests, reason[r] = "none", reason'[r] = "local"
  PROVE  fleetHosts = {}
<1> USE DEF PileInv, PileTypes, SlotTypes
<1>1. ASSUME NEW q \in Requests, NEW o \in FleetHosts \union {NoHost}, Ask(q, o) PROVE fleetHosts = {}
  <2>1. CASE Alone
    BY <2>1 DEF Alone
  <2>2. CASE ~Alone
    BY <1>1, <2>2, WalkFits DEF Ask
  <2> QED
    BY <2>1, <2>2
<1>2. ASSUME NEW q \in Requests, WakeFails(q) PROVE fleetHosts = {}
  <2>1. walk[q] + 1 \in Nat /\ walk[q] + 1 > 0
    OBVIOUS
  <2> QED
    BY <1>2, <2>1, WalkFits DEF WakeFails
<1>3. ASSUME NEW q \in Requests, NEW h \in FleetHosts, AskFor(q, h) PROVE fleetHosts = {}
  BY <1>3 DEF AskFor, Alone, PlaceOn, Over
<1>4. CASE ~\E q \in Requests : \/ \E o \in FleetHosts \union {NoHost} : Ask(q, o)
                               \/ WakeFails(q)
                               \/ \E h \in FleetHosts : AskFor(q, h)
  BY <1>4 DEF PlaceNext, placeVars, viewVars, reqVars, schedVars, Recorded, GivenUp, SessionEnds, Over,
     ReservationEnds, Woken, PlaceOn, RecordHeartbeat, GoSilent, Restart
<1> QED
  BY <1>1, <1>2, <1>3, <1>4

\* A daemon that a follower ever heartbeated to is never alone again.
THEOREM AloneOnlyAtFirst == PlaceSpec => AloneOnlyBeforeFleet
<1>1. PileInv /\ [PlaceNext]_placeVars =>
        [\A r \in Requests : reason[r] = "none" /\ reason'[r] = "local" => fleetHosts = {}]_placeVars
  BY LocalStep
<1> QED
  BY <1>1, PileInvariant, PTL DEF PlaceSpec, AloneOnlyBeforeFleet

-----------------------------------------------------------------------------
(* Types: where a request may be, and what is known of hosts. *)

Homes   == FleetHosts \union {NoHost}
Reasons == {"none", "local", "requested", "origin", "pool", "wake", "last_resort"}
RequestTypes ==
  /\ phase \in [Requests -> {"new", "waking", "launching", "running", "over"}]
  /\ origin \in [Requests -> Homes] /\ at \in [Requests -> Homes] /\ reason \in [Requests -> Reasons]
  /\ walk \in [Requests -> 0..Len(Order)] /\ sleepers \in [Requests -> SUBSET Followers]
  /\ reservations \in [Requests -> Homes]

\* A step of the order offers hosts of the fleet.
LEMMA OffersAreHosts ==
  ASSUME hosts \subseteq Followers, NEW r, NEW o \in Homes, NEW step
  PROVE  /\ step \in {"origin", "pool", "last_resort"} => Offer(r, o, step) \subseteq FleetHosts
         /\ Sleeping(r) \subseteq Followers
<1>1. KnownHosts \subseteq FleetHosts
  BY DEF KnownHosts, FleetHosts
<1>2. OriginOffer(r, o) \subseteq FleetHosts
  BY DEF OriginOffer, Homes
<1>3. PoolOffer(r, o) \subseteq FleetHosts
  BY <1>1 DEF PoolOffer, Roomiest
<1>4. LastResortOffer(r) \subseteq FleetHosts
  BY <1>1 DEF LastResortOffer
<1>5. Sleeping(r) \subseteq Followers
  BY PlacementConstants DEF Sleeping, CanWake
<1>6. ASSUME step \in {"origin", "pool", "last_resort"} PROVE Offer(r, o, step) \subseteq FleetHosts
  <2>1. CASE step = "origin"
    BY <1>2, <2>1 DEF Offer
  <2>2. CASE step = "pool"
    BY <1>3, <2>2 DEF Offer
  <2>3. CASE step = "last_resort"
    BY <1>4, <2>3 DEF Offer
  <2> QED
    BY <1>6, <2>1, <2>2, <2>3
<1> QED
  BY <1>5, <1>6

\* A request placed, over, or no longer waiting keeps the types.
LEMMA RequestMoves ==
  ASSUME RequestTypes, NEW r \in Requests
  PROVE  /\ \A h \in FleetHosts, why \in Reasons : PlaceOn(r, h, why) =>
              /\ phase' \in [Requests -> {"new", "waking", "launching", "running", "over"}]
              /\ at' \in [Requests -> Homes] /\ reason' \in [Requests -> Reasons]
         /\ Over(r) =>
              /\ phase' \in [Requests -> {"new", "waking", "launching", "running", "over"}]
              /\ at' \in [Requests -> Homes] /\ reason' \in [Requests -> Reasons]
         /\ StopWaking(r) =>
              /\ walk' \in [Requests -> 0..Len(Order)] /\ origin' \in [Requests -> Homes]
              /\ sleepers' \in [Requests -> SUBSET Followers]
         /\ \A h \in Homes : Reserve(r, h) => reservations' \in [Requests -> Homes]
<1>1. 0 \in 0..Len(Order) /\ NoHost \in Homes /\ FleetHosts \subseteq Homes /\ "none" \in Reasons
  BY PlacementConstants DEF Homes, Reasons
<1>2. \A h \in FleetHosts, why \in Reasons : PlaceOn(r, h, why) =>
        /\ phase' \in [Requests -> {"new", "waking", "launching", "running", "over"}]
        /\ at' \in [Requests -> Homes] /\ reason' \in [Requests -> Reasons]
  BY <1>1 DEF RequestTypes, PlaceOn
<1>3. Over(r) =>
        /\ phase' \in [Requests -> {"new", "waking", "launching", "running", "over"}]
        /\ at' \in [Requests -> Homes] /\ reason' \in [Requests -> Reasons]
  BY <1>1 DEF RequestTypes, Over
<1>4. StopWaking(r) =>
        /\ walk' \in [Requests -> 0..Len(Order)] /\ origin' \in [Requests -> Homes]
        /\ sleepers' \in [Requests -> SUBSET Followers]
  BY <1>1 DEF RequestTypes, StopWaking
<1>5. \A h \in Homes : Reserve(r, h) => reservations' \in [Requests -> Homes]
  BY DEF RequestTypes, Reserve
<1> QED
  BY <1>2, <1>3, <1>4, <1>5

\* So does the walk over the order.
LEMMA WalkTypes ==
  ASSUME RequestTypes, hosts \subseteq Followers, NEW r \in Requests, NEW o \in Homes,
         NEW i \in Nat, i > 0, WalkFrom(r, o, i)
  PROVE  RequestTypes'
<1> DEFINE left == {j \in i..Len(Order) : Offer(r, o, Order[j]) # {}}
           step == Order[Min(left)]
<1>0. left # {} => /\ Min(left) \in 0..Len(Order)
                   /\ step \in {"origin", "pool", "wake", "last_resort"}
  <2> SUFFICES ASSUME left # {} PROVE Min(left) \in left /\ step \in {"origin", "pool", "wake", "last_resort"}
    <3>1. Len(Order) \in Nat /\ \A j \in left : j \in 0..Len(Order)
      BY PlacementConstants
    <3> HIDE DEF left
    <3> QED
      BY <3>1
  <2> QED
    BY WalkStopsInOrder
<1>1. CASE left = {}
  <2>1. Over(r) /\ StopWaking(r) /\ UNCHANGED schedVars
    BY <1>1 DEF WalkFrom
  <2> QED
    BY <2>1, RequestMoves DEF schedVars, RequestTypes
<1>2. CASE left # {} /\ step = "wake"
  <2>1. /\ phase' = [phase EXCEPT ![r] = "waking"] /\ walk' = [walk EXCEPT ![r] = Min(left)]
        /\ origin' = [origin EXCEPT ![r] = o]
        /\ \E woken \in SUBSET Sleeping(r) : sleepers' = [sleepers EXCEPT ![r] = woken]
        /\ UNCHANGED <<at, reason, schedVars>>
    BY <1>2 DEF WalkFrom
  <2>2. Sleeping(r) \subseteq Followers
    BY OffersAreHosts
  <2> HIDE DEF left, step
  <2> QED
    BY <1>0, <1>2, <2>1, <2>2 DEF RequestTypes, schedVars
<1>3. CASE left # {} /\ step # "wake"
  <2>1. PICK h \in Offer(r, o, step) : PlaceOn(r, h, step) /\ Reserve(r, h)
    BY <1>3 DEF WalkFrom
  <2>2. StopWaking(r)
    BY <1>3 DEF WalkFrom
  <2> HIDE DEF left, step
  <2>3. h \in FleetHosts /\ step \in Reasons
    BY <1>0, <1>3, <2>1, OffersAreHosts DEF Reasons
  <2>4. h \in Homes
    BY <2>3 DEF Homes
  <2> QED
    BY <2>1, <2>2, <2>3, <2>4, RequestMoves DEF RequestTypes
<1> QED
  BY <1>1, <1>2, <1>3

\* So does every step.
LEMMA RequestTypesStep ==
  ASSUME PileInv, RequestTypes, [PlaceNext]_placeVars
  PROVE  RequestTypes'
<1>0. hosts \subseteq Followers
  BY DEF PileInv, SchedInv
<1>1. ASSUME NEW r \in Requests, Local(r) PROVE RequestTypes'
  <2>1. Self \in FleetHosts /\ "local" \in Reasons
    BY DEF FleetHosts, Reasons
  <2> QED
    BY <1>1, <2>1, RequestMoves DEF Local, RequestTypes
<1>2. ASSUME NEW r \in Requests, NEW o \in Homes, Ask(r, o) PROVE RequestTypes'
  <2>1. CASE Alone
    BY <1>1, <1>2, <2>1 DEF Ask
  <2>2. CASE ~Alone
    BY <1>0, <1>2, <2>2, WalkTypes DEF Ask
  <2> QED
    BY <2>1, <2>2
<1>3. ASSUME NEW r \in Requests, WakeFails(r) PROVE RequestTypes'
  <2>1. walk[r] + 1 \in Nat /\ walk[r] + 1 > 0 /\ origin[r] \in Homes
    BY DEF RequestTypes
  <2> QED
    BY <1>0, <1>3, <2>1, WalkTypes DEF WakeFails
<1>4. ASSUME NEW r \in Requests, NEW h \in FleetHosts, AskFor(r, h) PROVE RequestTypes'
  <2>1. CASE Alone /\ h = Self
    BY <1>1, <1>4, <2>1 DEF AskFor
  <2>2. CASE ~(Alone /\ h = Self)
    <3>1. /\ PlaceOn(r, h, "requested") \/ Over(r)
          /\ UNCHANGED <<reservations, origin, walk, sleepers>>
      BY <1>4, <2>2 DEF AskFor
    <3>2. "requested" \in Reasons
      BY DEF Reasons
    <3> QED
      BY <3>1, <3>2, RequestMoves DEF RequestTypes
  <2> QED
    BY <2>1, <2>2
<1>5. ASSUME NEW r \in Requests, NEW h \in FleetHosts, Woken(r, h) PROVE RequestTypes'
  <2>1. "wake" \in Reasons /\ h \in Homes
    BY DEF Reasons, Homes
  <2> QED
    BY <1>5, <2>1, RequestMoves DEF Woken, RequestTypes
<1>6. ASSUME NEW r \in Requests, Recorded(r) PROVE RequestTypes'
  BY <1>6 DEF Recorded, RequestTypes
<1>7. ASSUME NEW r \in Requests, GivenUp(r) \/ SessionEnds(r) PROVE RequestTypes'
  BY <1>7, RequestMoves DEF GivenUp, SessionEnds, schedVars, RequestTypes
<1>8. ASSUME NEW r \in Requests, ReservationEnds(r) PROVE RequestTypes'
  <2>1. NoHost \in Homes
    BY DEF Homes
  <2> QED
    BY <1>8, <2>1, RequestMoves DEF ReservationEnds, reqVars, RequestTypes
<1>9. ASSUME NEW h \in FleetHosts, RecordHeartbeat(h) \/ GoSilent(h) PROVE RequestTypes'
  BY <1>9 DEF RecordHeartbeat, GoSilent, reqVars, schedVars, RequestTypes
<1>10. CASE Restart
  <2>1. NoHost \in Homes /\ "none" \in Reasons /\ 0 \in 0..Len(Order)
    BY PlacementConstants DEF Homes, Reasons
  <2> QED
    BY <1>10, <2>1 DEF Restart, RequestTypes
<1>11. CASE UNCHANGED placeVars
  BY <1>11 DEF placeVars, reqVars, schedVars, RequestTypes
<1> QED
  BY <1>2, <1>3, <1>4, <1>5, <1>6, <1>7, <1>8, <1>9, <1>10, <1>11 DEF PlaceNext, Homes

\* Hosts are followers that were heard of, those online among them.
HostTypes == configured \in BOOLEAN /\ online \subseteq hosts
LEMMA HostTypesStep == HostTypes /\ [PlaceNext]_placeVars => HostTypes'
  BY DEF HostTypes, PlaceNext, placeVars, viewVars, reqVars, schedVars, WakeFails, Recorded, GivenUp,
     SessionEnds, ReservationEnds, Ask, AskFor, Woken, RecordHeartbeat, GoSilent, Restart, FleetHosts

\* The state of the scheduler has its type, for any requests, hosts and order.
THEOREM PlaceTypes == PlaceSpec => []PlaceTypeOK
<1>1. PlaceInit => RequestTypes /\ HostTypes
  <2>1. 0 \in 0..Len(Order)
    BY PlacementConstants
  <2> QED
    BY <2>1 DEF PlaceInit, RequestTypes, HostTypes, Homes, Reasons
<1>2. PileInv /\ RequestTypes /\ HostTypes /\ [PlaceNext]_placeVars => RequestTypes' /\ HostTypes'
  BY RequestTypesStep, HostTypesStep
<1>3. PileInv /\ RequestTypes /\ HostTypes => PlaceTypeOK
  BY DEF PileInv, PileTypes, SchedInv, SlotTypes, ShownRun, RequestTypes, HostTypes, PlaceTypeOK, Homes, Reasons
<1> QED
  BY <1>1, <1>2, <1>3, PileInvariant, PTL DEF PlaceSpec

=============================================================================
