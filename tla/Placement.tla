------------------------------ MODULE Placement ------------------------------
(***************************************************************************)
(* The placement scheduler of a control plane: choosePlacement walks       *)
(* origin, pool, wake and last_resort over the hosts that heartbeat to it  *)
(* and launches are in flight until they are recorded or given up.         *)
(* Sources: packages/daemon/src/{fleet,fleet-config,wake,terminals}.ts.    *)
(*                                                                         *)
(* Capacity is counted in sessions: estimateCost, the memory and cpu       *)
(* fractions of fit and their limits become "one unit per session, at most *)
(* Limit[h] units".  Everything choosePlacement does between two awaits is *)
(* one action.  Whom it prefers among hosts that suit equally is left open.*)
(***************************************************************************)
EXTENDS Naturals, Sequences, FiniteSetsExt

CONSTANTS
  Requests,     \* spawn requests, each made once
  Followers, Self, NoHost,
  Order,        \* placement.order of fleet.yaml
  PoolHosts,    \* hosts with pool: true
  Wakeable,     \* hosts with a wake method
  Capable,      \* hosts that have the tags a request requires, per request
  Limit,        \* capacity of each host
  Slots,        \* last_resort.slots of each host, 0 without last_resort
  MaxOther,     \* bound: use of a host by other programs
  MaxCpLives    \* bound: times the control plane starts

FleetHosts == Followers \union {Self}

ASSUME PlacementConstants ==
  /\ Self \notin Followers /\ NoHost \notin FleetHosts
  /\ IsFiniteSet(Requests) /\ IsFiniteSet(Followers)
  /\ Order \in Seq({"origin", "pool", "wake", "last_resort"})
  /\ PoolHosts \subseteq FleetHosts /\ Wakeable \subseteq Followers
  /\ Capable \in [Requests -> SUBSET FleetHosts]
  /\ Limit \in [FleetHosts -> Nat] /\ Slots \in [FleetHosts -> Nat]
  /\ MaxOther \in Nat /\ MaxCpLives \in Nat

VARIABLES
  configured,   \* fleet.yaml exists
  hosts,        \* followers in the hosts map, in memory
  fleetHosts,   \* followers with a fleet_hosts row
  online,       \* followers whose last heartbeat is recent enough
  stats,        \* use each host reported last
  shown,        \* sessions that were part of their host's last report
  phase,        \* of a request: "new", "waking", "launching", "running", "over"
  origin,       \* where a waking request came from
  at,           \* where a request was placed
  reason,       \* why there: "none" before, "local", "requested" or a step
  walk,         \* the step of Order a waking request waits in
  sleepers,     \* the hosts whose wake call worked
  reservations, \* the host on which capacity is reserved for a request
  inFlight,     \* launches in flight, per host
  cpLives

reqVars   == <<phase, origin, at, reason, walk, sleepers>>
schedVars == <<reservations, inFlight>>
viewVars  == <<hosts, fleetHosts, online, stats, shown>>
placeVars == <<configured, viewVars, reqVars, schedVars, cpLives>>

PlaceTypeOK ==
  /\ configured \in BOOLEAN
  /\ hosts \subseteq Followers /\ fleetHosts \subseteq Followers /\ online \subseteq hosts
  /\ stats \in [FleetHosts -> Nat] /\ shown \subseteq Requests
  /\ phase \in [Requests -> {"new", "waking", "launching", "running", "over"}]
  /\ origin \in [Requests -> FleetHosts \union {NoHost}]
  /\ at \in [Requests -> FleetHosts \union {NoHost}]
  /\ reason \in [Requests -> {"none", "local", "requested", "origin", "pool", "wake", "last_resort"}]
  /\ walk \in [Requests -> 0..Len(Order)]
  /\ sleepers \in [Requests -> SUBSET Followers]
  /\ reservations \in [Requests -> FleetHosts \union {NoHost}]
  /\ inFlight \in [FleetHosts -> Nat]
  /\ cpLives \in Nat

PlaceInit ==
  /\ configured \in BOOLEAN
  /\ hosts = {} /\ fleetHosts = {} /\ online = {}
  /\ stats = [h \in FleetHosts |-> 0] /\ shown = {}
  /\ phase = [r \in Requests |-> "new"]
  /\ origin = [r \in Requests |-> NoHost] /\ at = [r \in Requests |-> NoHost]
  /\ reason = [r \in Requests |-> "none"]
  /\ walk = [r \in Requests |-> 0] /\ sleepers = [r \in Requests |-> {}]
  /\ reservations = [r \in Requests |-> NoHost] /\ inFlight = [h \in FleetHosts |-> 0]
  /\ cpLives = 1

-----------------------------------------------------------------------------
(* hostConfig: without a fleet.yaml every host is a plain pool host. *)

InPool(h)  == ~configured \/ h \in PoolHosts
CanWake(h) == configured /\ h \in Wakeable
SlotsOf(h) == IF configured THEN Slots[h] ELSE 0

\* isOnline: this daemon always is.
Online(h) == h = Self \/ h \in online

\* explicitHostIds, this daemon and the hosts that have heartbeated.
KnownHosts == (IF configured THEN FleetHosts ELSE {Self}) \union hosts

On(h, ph) == {r \in Requests : at[r] = h /\ phase[r] = ph}

Free(h) == Limit[h] > stats[h] + Cardinality({r \in Requests : reservations[r] = h})

\* headroom, counted from the limit: what a session here would leave.
Taken(h) == stats[h] + Cardinality({r \in Requests : reservations[r] = h})
Roomiest(H) == {h \in H : \A g \in H : Limit[g] - Taken(g) <= Limit[h] - Taken(h)}

\* activeCount plus the launches in flight.  UsedBug counts only the rows.
UsedBug(h) == Cardinality(On(h, "running"))
Used(h) == Cardinality(On(h, "running")) + inFlight[h]

-----------------------------------------------------------------------------
(* What a step of the order offers request r from host o.  *)

OriginOffer(r, o) ==
  {h \in {o} \ {NoHost} : InPool(h) /\ h \in Capable[r] /\ Online(h) /\ Free(h)}

PoolOffer(r, o) ==
  Roomiest({h \in KnownHosts \ {o} :
              InPool(h) /\ h \in Capable[r] /\ Online(h) /\ Free(h)})

Sleeping(r) ==
  {h \in KnownHosts : InPool(h) /\ CanWake(h) /\ h \in Capable[r] /\ ~Online(h)}

LastResortOffer(r) ==
  {h \in KnownHosts : h \in Capable[r] /\ Online(h) /\ Used(h) < SlotsOf(h)}

Offer(r, o, step) ==
  CASE step = "origin" -> OriginOffer(r, o)
    [] step = "pool" -> PoolOffer(r, o)
    [] step = "wake" -> Sleeping(r)
    [] step = "last_resort" -> LastResortOffer(r)

\* placementOn: the launch is in flight until it is settled.
PlaceOn(r, h, why) ==
  /\ phase' = [phase EXCEPT ![r] = "launching"]
  /\ at' = [at EXCEPT ![r] = h]
  /\ reason' = [reason EXCEPT ![r] = why]
  /\ inFlight' = [inFlight EXCEPT ![h] = @ + 1]

\* Nothing is kept of a request that is over, but its reservation.
Over(r) ==
  /\ phase' = [phase EXCEPT ![r] = "over"]
  /\ at' = [at EXCEPT ![r] = NoHost]
  /\ reason' = [reason EXCEPT ![r] = "none"]

Reserve(r, h) == reservations' = [reservations EXCEPT ![r] = h]

StopWaking(r) ==
  /\ walk' = [walk EXCEPT ![r] = 0]
  /\ origin' = [origin EXCEPT ![r] = NoHost]
  /\ sleepers' = [sleepers EXCEPT ![r] = {}]

\* The loop over config.order from step i on: the first step that offers a
\* host takes it, and the wake step waits for the hosts it woke.  If there is
\* none, a PlacementError ends the request.
WalkFrom(r, o, i) ==
  LET left == {j \in i..Len(Order) : Offer(r, o, Order[j]) # {}} IN
  IF left = {}
  THEN Over(r) /\ StopWaking(r) /\ UNCHANGED schedVars
  ELSE LET j == Min(left) IN
       IF Order[j] = "wake"
       THEN /\ phase' = [phase EXCEPT ![r] = "waking"]
            /\ walk' = [walk EXCEPT ![r] = j]
            /\ origin' = [origin EXCEPT ![r] = o]
            /\ \E woken \in SUBSET Sleeping(r) : sleepers' = [sleepers EXCEPT ![r] = woken]
            /\ UNCHANGED <<at, reason, schedVars>>
       ELSE /\ \E h \in Offer(r, o, Order[j]) : PlaceOn(r, h, Order[j]) /\ Reserve(r, h)
            /\ StopWaking(r)

\* Nobody heartbeats here and there is no fleet.yaml: run it here, whatever
\* the load.
Alone == ~configured /\ hosts = {}
Local(r) ==
  /\ PlaceOn(r, Self, "local")
  /\ UNCHANGED <<reservations, origin, walk, sleepers>>

\* A request from host o, or from a device without compute (NoHost).
Ask(r, o) ==
  /\ phase[r] = "new"
  /\ IF Alone THEN Local(r) ELSE WalkFrom(r, o, 1)
  /\ UNCHANGED <<configured, viewVars, cpLives>>

\* A forced host, or the one a resume is pinned to: no capacity check, no
\* reservation, but it has to be online.
AskFor(r, h) ==
  /\ phase[r] = "new"
  /\ IF Alone /\ h = Self THEN Local(r)
     ELSE /\ IF Online(h) THEN PlaceOn(r, h, "requested") ELSE Over(r) /\ UNCHANGED inFlight
          /\ UNCHANGED <<reservations, origin, walk, sleepers>>
  /\ UNCHANGED <<configured, viewVars, cpLives>>

\* A woken host heartbeats in with capacity.  WokenBug does not reserve it.
WokenBug(r, h) ==
  /\ phase[r] = "waking" /\ h \in sleepers[r] /\ Online(h) /\ Free(h)
  /\ PlaceOn(r, h, "wake") /\ StopWaking(r)
  /\ UNCHANGED <<configured, viewVars, reservations, cpLives>>
Woken(r, h) ==
  /\ phase[r] = "waking" /\ h \in sleepers[r] /\ Online(h) /\ Free(h)
  /\ PlaceOn(r, h, "wake") /\ Reserve(r, h) /\ StopWaking(r)
  /\ UNCHANGED <<configured, viewVars, cpLives>>

\* No wake call worked, or wake_timeout passed.
WakeFails(r) ==
  /\ phase[r] = "waking"
  /\ WalkFrom(r, origin[r], walk[r] + 1)
  /\ UNCHANGED <<configured, viewVars, cpLives>>

\* settle, in the finally of placeAndLaunch: in the turn that records the row
\* as placed, and just as well when the launch failed or the row was closed.
Settle(r) == inFlight' = [inFlight EXCEPT ![at[r]] = @ - 1]

Recorded(r) ==
  /\ phase[r] = "launching"
  /\ phase' = [phase EXCEPT ![r] = "running"]
  /\ Settle(r)
  /\ UNCHANGED <<configured, viewVars, origin, at, reason, walk, sleepers, reservations, cpLives>>

GivenUp(r) ==
  /\ phase[r] = "launching"
  /\ Over(r)
  /\ Settle(r)
  /\ UNCHANGED <<configured, viewVars, origin, walk, sleepers, reservations, cpLives>>

\* The row stops being active.
SessionEnds(r) ==
  /\ phase[r] = "running"
  /\ Over(r)
  /\ shown' = shown \ {r}
  /\ UNCHANGED <<configured, hosts, fleetHosts, online, stats, origin, walk, sleepers,
                 schedVars, cpLives>>

-----------------------------------------------------------------------------
(* Heartbeats and time. *)

\* recordHeartbeat, also of this daemon's own.  A session shows in its host's
\* stats some time after it was launched, and then until it ends.
RecordHeartbeat(h) ==
  /\ h \in Followers =>
       hosts' = hosts \union {h} /\ fleetHosts' = fleetHosts \union {h} /\ online' = online \union {h}
  /\ h = Self => UNCHANGED <<hosts, fleetHosts, online>>
  /\ \E new \in SUBSET (On(h, "running") \ shown), other \in 0..MaxOther :
       /\ shown' = shown \union new
       /\ stats' = [stats EXCEPT
                      ![h] = Cardinality((shown \intersect On(h, "running")) \union new) + other]
  /\ UNCHANGED <<configured, reqVars, schedVars, cpLives>>

GoSilent(h) ==
  /\ h \in online
  /\ online' = online \ {h}
  /\ UNCHANGED <<configured, hosts, fleetHosts, stats, shown, reqVars, schedVars, cpLives>>

\* 30 s pass.  A launch call is given up after 15 s, and 30 s are taken to be
\* enough for a session to show in a heartbeat.
ReservationEnds(r) ==
  /\ reservations[r] # NoHost
  /\ r \in shown \/ phase[r] = "over"
  /\ Reserve(r, NoHost)
  /\ UNCHANGED <<configured, viewVars, reqVars, inFlight, cpLives>>

\* The control plane crashes and starts again: its map, its reservations and
\* its placements are gone, its own sessions too; hydrateHosts reads the hosts
\* back.  HydratedBug does not.
HydratedBug == {}
Hydrated == fleetHosts
Restart ==
  /\ cpLives < MaxCpLives
  /\ cpLives' = cpLives + 1
  /\ hosts' = Hydrated /\ online' = online \intersect Hydrated
  /\ LET lost == {r \in Requests : phase[r] \in {"waking", "launching"}
                                   \/ (phase[r] = "running" /\ at[r] = Self)} IN
     /\ phase' = [r \in Requests |-> IF r \in lost THEN "over" ELSE phase[r]]
     /\ at' = [r \in Requests |-> IF r \in lost THEN NoHost ELSE at[r]]
     /\ reason' = [r \in Requests |-> IF r \in lost THEN "none" ELSE reason[r]]
     /\ shown' = shown \ lost
  /\ walk' = [r \in Requests |-> 0]
  /\ origin' = [r \in Requests |-> NoHost]
  /\ sleepers' = [r \in Requests |-> {}]
  /\ \E other \in 0..MaxOther : stats' = [stats EXCEPT ![Self] = other]
  /\ reservations' = [r \in Requests |-> NoHost]
  /\ inFlight' = [h \in FleetHosts |-> 0]
  /\ UNCHANGED <<configured, fleetHosts>>

-----------------------------------------------------------------------------
PlaceNext ==
  \/ \E r \in Requests :
       \/ WakeFails(r) \/ Recorded(r) \/ GivenUp(r) \/ SessionEnds(r) \/ ReservationEnds(r)
       \/ \E o \in FleetHosts \union {NoHost} : Ask(r, o)
       \/ \E h \in FleetHosts : AskFor(r, h) \/ Woken(r, h)
  \/ \E h \in FleetHosts : RecordHeartbeat(h) \/ GoSilent(h)
  \/ Restart

PlaceSpec == PlaceInit /\ [][PlaceNext]_placeVars

-----------------------------------------------------------------------------
(* Properties. *)

\* fleet.ts:38-40: a host never has more last-resort sessions than slots,
\* counting the launches still in flight, and no slot leaks: the launches
\* counted are those that have neither been recorded nor given up.
SlotsHold ==
  \A h \in FleetHosts :
    /\ Cardinality({r \in Requests : at[r] = h /\ reason[r] = "last_resort"
                                     /\ phase[r] \in {"launching", "running"}}) <= SlotsOf(h)
    /\ inFlight[h] = Cardinality(On(h, "launching"))

\* fleet.ts:32-34: a burst of spawns does not pile onto one host: the sessions
\* that were placed by capacity since the control plane started fit the limit
\* together, although the host's stats show none of the recent ones.
NoPileUp ==
  cpLives = 1 =>
    \A h \in FleetHosts :
      Cardinality({r \in Requests : at[r] = h /\ reason[r] \in {"origin", "pool", "wake"}
                                    /\ phase[r] \in {"launching", "running"}}) <= Limit[h]

\* A daemon a follower ever heartbeated to is not alone again: after a restart
\* too, no placement skips the capacity check as "local".
AloneOnlyBeforeFleet ==
  [][\A r \in Requests : reason[r] = "none" /\ reason'[r] = "local" => fleetHosts = {}]_placeVars
=============================================================================
