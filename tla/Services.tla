------------------------------ MODULE Services ------------------------------
(***************************************************************************)
(* Shared services: a port of one machine's loopback that other machines   *)
(* reach on theirs.  The control plane keeps the definitions; each machine *)
(* learns what to serve and where to listen from the reply to its          *)
(* heartbeat, and reports what its listeners do in the next one.           *)
(* Sources: packages/daemon/src/services.ts, heartbeat.ts, index.ts,       *)
(* routes/{fleet,tunnel}.ts.                                               *)
(*                                                                         *)
(* A heartbeat is given up after 4 s and the next is sent after 5, so a    *)
(* machine has one call on the wire at most.                               *)
(***************************************************************************)
EXTENDS Naturals, FiniteSetsExt

CONSTANTS
  Machines,
  ServiceIds,   \* ids, in the order services were defined
  Ports,
  Definitions,  \* bound: the definitions a user gives
  NoDefinition, \* a service that is deleted, disabled or not yet there
  NoRelay,
  MaxEdits,     \* bound: edits of definitions
  MaxTaken,     \* bound: times another program takes or frees a port
  Restarting,   \* bound: machines whose daemon stops or crashes, and starts again, once
  MaxConns      \* bound: connections of a machine at once

ASSUME ServiceConstants ==
  /\ ServiceIds \subseteq Nat /\ NoDefinition \notin Definitions
  /\ Definitions \subseteq [source: Machines, port: Ports, local: Ports, on: SUBSET Machines]

VARIABLES
  services,   \* fleet_services: the definition of each service
  heard,      \* machines whose url the control plane knows
  reported,   \* what each machine said of its listeners, by service
  wire,       \* the heartbeat call of a machine: "up" or the reply, "down"
  running,    \* its daemon: "up", "stopping", "down"
  relays,     \* port -> listener, in memory
  conflicts,  \* services that lost their port to an earlier one
  served,     \* ports /tunnel/:port may dial
  conns,      \* connections through this machine's listeners
  taken,      \* ports other programs of the machine listen on
  edits, takes, starts

svcMachine == <<running, relays, conflicts, served, conns>>
svcVars == <<services, heard, reported, wire, svcMachine, taken, edits, takes, starts>>

ExposeSpec == [id: ServiceIds, source: Machines, url: BOOLEAN, port: Ports, local: Ports]
RelayStates == {"pending", "listening", "error"}
RelayRecords == [spec: ExposeSpec, state: RelayStates]
Statuses == SUBSET [id: ServiceIds, state: RelayStates]

ASSUME NoRelayIsNone == NoRelay \notin RelayRecords

SvcTypeOK ==
  /\ services \in [ServiceIds -> Definitions \union {NoDefinition}]
  /\ heard \subseteq Machines
  /\ reported \in [Machines -> Statuses]
  /\ \A h \in Machines :
       /\ wire[h].kind \in {"idle", "up", "down"}
       /\ running[h] \in {"up", "stopping", "down"}
       /\ relays[h] \in [Ports -> RelayRecords \union {NoRelay}]
       /\ conflicts[h] \subseteq ServiceIds /\ served[h] \subseteq Ports
       /\ \A c \in conns[h] : c.at \in Ports /\ c.spec \in ExposeSpec
       /\ taken[h] \subseteq Ports /\ starts[h] \in Nat
  /\ edits \in Nat /\ takes \in Nat

Idle == [kind |-> "idle"]

SvcInit ==
  /\ services = [i \in ServiceIds |-> NoDefinition]
  /\ heard = {}
  /\ reported = [h \in Machines |-> {}]
  /\ wire = [h \in Machines |-> Idle]
  /\ running = [h \in Machines |-> "down"]
  /\ relays = [h \in Machines |-> [p \in Ports |-> NoRelay]]
  /\ conflicts = [h \in Machines |-> {}]
  /\ served = [h \in Machines |-> {}]
  /\ conns = [h \in Machines |-> {}]
  /\ taken = [h \in Machines |-> {}]
  /\ edits = 0 /\ takes = 0
  /\ starts = [h \in Machines |-> 0]

-----------------------------------------------------------------------------
(* The control plane. *)

Enabled == {i \in ServiceIds : services[i] # NoDefinition}

\* POST, PATCH and DELETE /fleet/services.
EditService(i, d) ==
  /\ edits < MaxEdits /\ d # services[i]
  /\ services' = [services EXCEPT ![i] = d]
  /\ edits' = edits + 1
  /\ UNCHANGED <<heard, reported, wire, svcMachine, taken, takes, starts>>

ExposesOn(i, h) ==
  i \in Enabled /\ services[i].source # h /\ h \in services[i].on

\* assignmentsFor.
Serves(h) == {services[i].port : i \in {j \in Enabled : services[j].source = h}}
SpecFor(i, known) ==
  [id |-> i, source |-> services[i].source, url |-> services[i].source \in known,
   port |-> services[i].port, local |-> services[i].local]
Exposes(h, known) == {SpecFor(i, known) : i \in {j \in ServiceIds : ExposesOn(j, h)}}

-----------------------------------------------------------------------------
(* A machine's listeners. *)

\* The services a port goes to: to the first of those that want it.
FirstOn(expose, p) ==
  {s \in expose : s.local = p /\ \A t \in expose : t.local = p => s.id <= t.id}

Fresh(s) == [spec |-> s, state |-> "pending"]

\* What a relay becomes: closed, opened, or told where it leads now; one that
\* failed to bind tries again.  AppliedStuck never tries again.
AppliedStuck(r, first) ==
  IF first = {} THEN NoRelay
  ELSE LET s == CHOOSE s \in first : TRUE IN
       IF r = NoRelay THEN Fresh(s) ELSE [r EXCEPT !.spec = s]
Applied(r, first) ==
  IF first = {} THEN NoRelay
  ELSE LET s == CHOOSE s \in first : TRUE IN
       IF r = NoRelay \/ r.state = "error" THEN Fresh(s) ELSE [r EXCEPT !.spec = s]

\* closeRelay also destroys the sockets.  SocketsLeftBug only stops listening.
SocketsLeftBug(h, closed) == conns[h]
SocketsLeft(h, closed) == {c \in conns[h] : c.at \notin closed}

ApplyAssignments(h, serves, expose) ==
  /\ served' = [served EXCEPT ![h] = serves]
  /\ conflicts' = [conflicts EXCEPT
                     ![h] = {s.id : s \in {t \in expose : t \notin FirstOn(expose, t.local)}}]
  /\ relays' = [relays EXCEPT
                  ![h] = [p \in Ports |-> Applied(relays[h][p], FirstOn(expose, p))]]
  /\ conns' = [conns EXCEPT
                 ![h] = SocketsLeft(h, {p \in Ports : FirstOn(expose, p) = {}})]

RelayStatuses(h) ==
  {[id |-> relays[h][p].spec.id, state |-> relays[h][p].state] :
     p \in {q \in Ports : relays[h][q] # NoRelay}}
  \union {[id |-> i, state |-> "error"] : i \in conflicts[h]}

\* The bind fails if another program has the port.
Bind(h, p) ==
  /\ relays[h][p] # NoRelay /\ relays[h][p].state = "pending"
  /\ relays' = [relays EXCEPT
                  ![h][p].state = IF p \in taken[h] THEN "error" ELSE "listening"]
  /\ UNCHANGED <<services, heard, reported, wire, running, conflicts, served, conns, taken,
                 edits, takes, starts>>

\* Another program takes a free port, or frees it.
TakePort(h, p) ==
  /\ takes < MaxTaken
  /\ \/ p \in taken[h] /\ taken' = [taken EXCEPT ![h] = @ \ {p}]
     \/ /\ p \notin taken[h] /\ (relays[h][p] # NoRelay => relays[h][p].state # "listening")
        /\ taken' = [taken EXCEPT ![h] = @ \union {p}]
  /\ takes' = takes + 1
  /\ UNCHANGED <<services, heard, reported, wire, svcMachine, edits, starts>>

\* A program connects here: it gets through if the source daemon is up, known
\* and serves the port; otherwise its socket is destroyed.
Connect(h, p) ==
  /\ relays[h][p] # NoRelay /\ relays[h][p].state = "listening"
  /\ Cardinality(conns[h]) < MaxConns
  /\ LET s == relays[h][p].spec IN
     /\ s.url /\ running[s.source] # "down" /\ s.port \in served[s.source]
     /\ conns' = [conns EXCEPT ![h] = @ \union {[at |-> p, spec |-> s]}]
  /\ UNCHANGED <<services, heard, reported, wire, running, relays, conflicts, served, taken,
                 edits, takes, starts>>

Disconnect(h, c) ==
  /\ c \in conns[h]
  /\ conns' = [conns EXCEPT ![h] = @ \ {c}]
  /\ UNCHANGED <<services, heard, reported, wire, running, relays, conflicts, served, taken,
                 edits, takes, starts>>

-----------------------------------------------------------------------------
(* Heartbeats. *)

SendReport(h) ==
  /\ running[h] = "up" /\ wire[h] = Idle
  /\ wire' = [wire EXCEPT ![h] = [kind |-> "up", statuses |-> RelayStatuses(h)]]
  /\ UNCHANGED <<services, heard, reported, svcMachine, taken, edits, takes, starts>>

\* POST /fleet/heartbeat: the reply's assignments are those of this moment.
ReportArrives(h) ==
  /\ wire[h].kind = "up"
  /\ heard' = heard \union {h}
  /\ reported' = [reported EXCEPT ![h] = wire[h].statuses]
  /\ wire' = [wire EXCEPT ![h] = [kind |-> "down", serves |-> Serves(h),
                                  expose |-> Exposes(h, heard')]]
  /\ UNCHANGED <<services, svcMachine, taken, edits, takes, starts>>

ReplyArrives(h) ==
  /\ wire[h].kind = "down" /\ running[h] # "down"
  /\ ApplyAssignments(h, wire[h].serves, wire[h].expose)
  /\ wire' = [wire EXCEPT ![h] = Idle]
  /\ UNCHANGED <<services, heard, reported, running, taken, edits, takes, starts>>

LoseCall(h) ==
  /\ wire[h] # Idle
  /\ wire' = [wire EXCEPT ![h] = Idle]
  /\ UNCHANGED <<services, heard, reported, svcMachine, taken, edits, takes, starts>>

\* Every listener and socket of h is closed; tunnels that end there close too.
CloseRelays(h) ==
  /\ relays' = [relays EXCEPT ![h] = [p \in Ports |-> NoRelay]]
  /\ conflicts' = [conflicts EXCEPT ![h] = {}]
  /\ served' = [served EXCEPT ![h] = {}]

MayStop(h) == h \in Restarting /\ starts[h] = 1

\* shutdown: closeRelays, and then the final heartbeat, whose reply is applied
\* as any other.
StopMachine(h) ==
  /\ running[h] = "up" /\ MayStop(h)
  /\ running' = [running EXCEPT ![h] = "stopping"]
  /\ CloseRelays(h)
  /\ conns' = [conns EXCEPT ![h] = {}]
  /\ wire' = [wire EXCEPT ![h] = [kind |-> "up", statuses |-> {}]]
  /\ UNCHANGED <<services, heard, reported, taken, edits, takes, starts>>

\* The process ends, after a shutdown or in a crash.
ExitMachine(h) ==
  /\ running[h] # "down" /\ MayStop(h)
  /\ running' = [running EXCEPT ![h] = "down"]
  /\ CloseRelays(h)
  /\ conns' = [g \in Machines |-> IF g = h THEN {} ELSE {c \in conns[g] : c.spec.source # h}]
  /\ wire' = [wire EXCEPT ![h] = IF @.kind = "down" THEN Idle ELSE @]
  /\ UNCHANGED <<services, heard, reported, taken, edits, takes, starts>>

StartMachine(h) ==
  /\ running[h] = "down" /\ (starts[h] = 0 \/ MayStop(h))
  /\ running' = [running EXCEPT ![h] = "up"]
  /\ starts' = [starts EXCEPT ![h] = @ + 1]
  /\ wire' = [wire EXCEPT ![h] = Idle]
  /\ UNCHANGED <<services, heard, reported, relays, conflicts, served, conns, taken, edits, takes>>

-----------------------------------------------------------------------------
SvcNext ==
  \/ \E i \in ServiceIds, d \in Definitions \union {NoDefinition} : EditService(i, d)
  \/ \E h \in Machines :
       \/ SendReport(h) \/ ReportArrives(h) \/ ReplyArrives(h) \/ LoseCall(h)
       \/ StopMachine(h) \/ ExitMachine(h) \/ StartMachine(h)
       \/ \E p \in Ports : Bind(h, p) \/ TakePort(h, p) \/ Connect(h, p)
       \/ \E c \in conns[h] : Disconnect(h, c)

SvcSpec == SvcInit /\ [][SvcNext]_svcVars

\* Heartbeats go on, and not all of them are lost for ever; binds complete.
\* Nobody has to edit, connect, stop or free a port; a daemon that stops exits
\* and, as the bound has it, is started again.
SvcFairness ==
  \A h \in Machines :
    /\ WF_svcVars(SendReport(h)) /\ SF_svcVars(ReportArrives(h)) /\ SF_svcVars(ReplyArrives(h))
    /\ \A p \in Ports : WF_svcVars(Bind(h, p))
    /\ WF_svcVars((running[h] = "stopping" /\ ExitMachine(h)) \/ (starts[h] > 0 /\ StartMachine(h)))

-----------------------------------------------------------------------------
(* Properties. *)

\* A machine does what the definitions say: it serves its ports, each port it
\* should expose leads to the first service that wants it and is bound unless
\* another program has it, and the control plane has heard so of each service.
InSync(h) ==
  /\ served[h] = Serves(h)
  /\ \A p \in Ports :
       LET first == FirstOn(Exposes(h, heard), p) IN
       IF first = {} THEN relays[h][p] = NoRelay
       ELSE /\ relays[h][p] # NoRelay /\ relays[h][p].spec \in first
            /\ p \notin taken[h] => relays[h][p].state = "listening"
  /\ {s.id : s \in reported[h]} = {i \in ServiceIds : ExposesOn(i, h)}

\* services.ts:295-296: whatever was edited, lost, restarted or in use, once it
\* stops every machine that was started comes into sync with the definitions and stays there.
SharesConverge == \A h \in Machines : <>[](starts[h] > 0 => InSync(h))

\* A connection lives only as long as its machine is assigned the port it came
\* in through: a withdrawn service cannot be used through an old socket.
ConnectionsNeedTheirPort ==
  \A h \in Machines : \A c \in conns[h] : relays[h][c.at] # NoRelay
=============================================================================
