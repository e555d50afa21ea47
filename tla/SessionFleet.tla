---------------------------- MODULE SessionFleet ----------------------------
(***************************************************************************)
(* Terminal sessions of a besiege control plane and the PTYs behind them.  *)
(*                                                                         *)
(* The control plane (Self) keeps a terminal_sessions row per session,     *)
(* places each one on a host, launches it there (in process, or with an    *)
(* /exec/sessions call to a follower), and keeps the rows truthful from    *)
(* the snapshots the followers' heartbeats carry: exits, PTYs lost to a    *)
(* host restart (resumed on the same host), and PTYs nobody owns (killed). *)
(* Sources: packages/daemon/src/{terminals,pty-host,heartbeat,fleet,       *)
(* remote-exec,index}.ts and routes/{terminals,exec,fleet,layouts}.ts.     *)
(*                                                                         *)
(* Every handler runs on one Node thread over a synchronous database, so   *)
(* an action is what one handler does between two awaits.                  *)
(*                                                                         *)
(* A row launches at most one PTY, under an exec id no other launch gets:  *)
(* the PTY that session s launches is named s, and s has an exec_id in its *)
(* row exactly when its placement is "placed".                             *)
(*                                                                         *)
(* There is no clock.  The two 30 s grace periods are the sets aged and    *)
(* senior, entered only when the shorter timeouts of the code (4 s for a   *)
(* heartbeat, 15 s for a launch) have certainly run out.                   *)
(***************************************************************************)
EXTENDS Naturals, FiniteSets

CONSTANTS
  MaxRows,      \* bound: rows ever inserted
  Followers,    \* hosts that heartbeat to this control plane
  Self,         \* the control plane's own host id
  Foreign,      \* PTYs another control plane launched on our followers
  NoHost,       \* host_id NULL
  MaxSpawns,    \* bound: sessions the user starts
  MaxByHand,    \* bound: sessions the user resumes by hand
  MaxBoots,     \* bound: times a follower's daemon starts; the last one lasts
  MaxLives,     \* bound: times the control plane starts; the last one lasts
  MaxInFlight,  \* bound: heartbeats of one follower in flight at once
  MaxPanes      \* bound: panes that show a session

ASSUME SelfIsNoFollower == Self \notin Followers
ASSUME NoHostIsNoHost == NoHost \notin Followers \union {Self}
ASSUME ForeignAreNotOurs == Foreign \cap (1..MaxRows) = {}
ASSUME BoundsAreNaturals ==
  /\ MaxRows \in Nat /\ MaxSpawns \in Nat /\ MaxByHand \in Nat /\ MaxBoots \in Nat /\ MaxLives \in Nat
  /\ MaxInFlight \in Nat /\ MaxPanes \in Nat

\* Ids a row may get, in order: AUTOINCREMENT never reuses one.  0 is none.
Sessions == 1..MaxRows
NoSession == 0
Hosts == Followers \union {Self}
Execs == Sessions \union Foreign

VARIABLES
  (* terminal_sessions, persisted *)
  status,       \* "fresh" before the INSERT, "deleted" after the DELETE
  placement,    \* placement_status
  host,         \* host_id
  conv,         \* agent_session_id: the first session of the conversation, or
                \* NoSession for a plain shell, which has nothing to resume
  aged,         \* rows placed more than LOST_SESSION_GRACE_MS ago
  (* other tables, persisted *)
  known,        \* fleet_hosts.boot_id: the boot each follower was last seen with
  panes,        \* sessions some terminal_layouts pane shows
  reported,     \* lost sessions a fleet notification was posted for
  (* the control plane's memory *)
  cp,           \* "up", "stopping" (shutdown began), "down", "booting"
  stage,        \* where placeAndLaunch of a row is; "ok"/"failed" once it returned
  waiting,      \* rows whose POST has not been answered yet (the 3 s race)
  recoveries,   \* sweeps over lost rows under way: reconcileHost's, or the boot's
  (* the hosts *)
  daemon,       \* followers: "up", "stopping", "down"
  boot,         \* boot id, counted
  pty,          \* "none", "active", "exited", "gone" (forgotten by its host)
  target,       \* the host a PTY's launch is directed at
  senior,       \* PTYs older than the grace period
  (* the network *)
  wire,         \* the launch call of a session
  beats,        \* heartbeats in flight
  kills,        \* kill calls in flight
  (* bounds *)
  spawns, byHand, lives

rowVars  == <<status, placement, host, conv, aged>>
dbVars   == <<known, panes, reported>>
cpVars   == <<cp, stage, waiting, recoveries>>
hostVars == <<daemon, boot, pty, target, senior>>
netVars  == <<wire, beats, kills>>
bounds   == <<spawns, byHand, lives>>
vars     == <<rowVars, dbVars, cpVars, hostVars, netVars, bounds>>

Heartbeat == [from: Followers, boot: Nat, active: SUBSET Execs,
              exited: SUBSET Execs, senior: SUBSET Execs]

(* died: the rows of the sweep; todo: those still to resume; prior and via: *)
(* the row being resumed and the row inserted for it; resumed: those done   *)
(* and what they became.                                                    *)
Recovery == [on: Hosts, died: SUBSET Sessions, todo: SUBSET Sessions,
             prior: Sessions \union {NoSession}, via: Sessions \union {NoSession},
             resumed: SUBSET (Sessions \X Sessions)]

TypeOK ==
  /\ status \in [Sessions -> {"fresh", "active", "exited", "deleted"}]
  /\ placement \in [Sessions -> {"placing", "placed", "failed"}]
  /\ host \in [Sessions -> Hosts \union {NoHost}]
  /\ conv \in [Sessions -> Sessions \union {NoSession}]
  /\ aged \subseteq Sessions
  /\ known \in [Followers -> Nat]
  /\ panes \subseteq Sessions
  /\ reported \subseteq Sessions
  /\ cp \in {"up", "stopping", "down", "booting"}
  /\ stage \in [Sessions -> {"none", "choosing", "launching", "ok", "failed"}]
  /\ waiting \subseteq Sessions
  /\ recoveries \subseteq Recovery
  /\ daemon \in [Followers -> {"up", "stopping", "down"}]
  /\ boot \in [Followers -> Nat]
  /\ pty \in [Execs -> {"none", "active", "exited", "gone"}]
  /\ target \in [Execs -> Hosts \union {NoHost}]
  /\ senior \subseteq Execs
  /\ wire \in [Sessions -> {"none", "request", "launched", "rejected"}]
  /\ beats \subseteq Heartbeat
  /\ kills \subseteq Execs
  /\ spawns \in Nat /\ byHand \in Nat
  /\ lives \in Nat

Init ==
  /\ status = [s \in Sessions |-> "fresh"]
  /\ placement = [s \in Sessions |-> "placing"]
  /\ host = [s \in Sessions |-> NoHost]
  /\ conv = [s \in Sessions |-> NoSession]
  /\ aged = {}
  /\ known = [h \in Followers |-> 0]
  /\ panes = {}
  /\ reported = {}
  /\ cp = "up"
  /\ stage = [s \in Sessions |-> "none"]
  /\ waiting = {}
  /\ recoveries = {}
  /\ daemon = [h \in Followers |-> "up"]
  /\ boot = [h \in Followers |-> 1]
  /\ pty = [e \in Execs |-> "none"]
  /\ target = [e \in Execs |-> NoHost]
  /\ senior = {}
  /\ wire = [s \in Sessions |-> "none"]
  /\ beats = {}
  /\ kills = {}
  /\ spawns = 0 /\ byHand = 0
  /\ lives = 1

-----------------------------------------------------------------------------
(* Helpers over the rows. *)

\* The HTTP servers of the control plane answer until shutdown's last close.
Serving == cp \in {"up", "stopping"}

SessionHost(s) == IF host[s] = NoHost THEN Self ELSE host[s]

Running(s) == status[s] = "active" /\ placement[s] = "placed"

\* Rows a restart of this daemon makes stale.
\* LocalRowsBug drops the COALESCE(host_id, self) = self condition.
LocalRowsBug == {s \in Sessions : status[s] = "active"}
LocalRows == {s \in Sessions : status[s] = "active" /\ SessionHost(s) = Self}

Resumable(s) == conv[s] # NoSession

\* markExited on each row of S, guarded by status = 'active'.  placed_at is
\* only ever read on active rows, so a row that ends leaves aged.
MarkExited(S) ==
  /\ status' = [s \in Sessions |->
                  IF s \in S /\ status[s] = "active" THEN "exited" ELSE status[s]]
  /\ aged' = aged \ S

\* markFailed has no such guard, but finds no row once it is deleted.
\* MarkFailedBug only leaves a note.
MarkFailedBug(s) == UNCHANGED <<status, placement>>
MarkFailed(s) ==
  IF status[s] = "deleted"
  THEN UNCHANGED <<status, placement>>
  ELSE /\ status' = [status EXCEPT ![s] = "exited"]
       /\ placement' = [placement EXCEPT ![s] = "failed"]

\* NextIdBug reuses the id of a deleted row, as a table without AUTOINCREMENT would.
NextIdBug(s) ==
  status[s] \in {"fresh", "deleted"} /\ \A t \in (s + 1)..MaxRows : status[t] = "fresh"
NextId(s) == status[s] = "fresh" /\ \A t \in 1..(s - 1) : status[t] # "fresh"

InsertRow(s, c) ==
  /\ NextId(s)
  /\ status' = [status EXCEPT ![s] = "active"]
  /\ conv' = [conv EXCEPT ![s] = c]

\* recordPlaced updates a row only under this guard.
Recordable(s) == status[s] = "active" /\ placement[s] = "placing"

\* RecordPlacedBug forgets host_id.
RecordPlacedBug(s) ==
  /\ placement' = [placement EXCEPT ![s] = "placed"]
  /\ UNCHANGED host
RecordPlaced(s) ==
  /\ placement' = [placement EXCEPT ![s] = "placed"]
  /\ host' = [host EXCEPT ![s] = target[s]]

\* Kill calls that reach a daemon: none is accepted by a host that is down.
Callable(S) == {e \in S : target[e] \in Followers /\ daemon[target[e]] # "down"}

\* retire on each PTY of S.
Retire(S) ==
  /\ pty' = [e \in Execs |->
               IF e \in S /\ pty[e] = "active" THEN "exited" ELSE pty[e]]
  /\ senior' = senior \ S

\* DELETE FROM terminal_sessions: only its id, and the conversation a sweep
\* holding a copy of the row may still resume, mean anything from here on.
DeleteRow(s) ==
  /\ status' = [status EXCEPT ![s] = "deleted"]
  /\ placement' = [placement EXCEPT ![s] = "placing"]
  /\ host' = [host EXCEPT ![s] = NoHost]

\* placeAndLaunch of s returns to whoever still awaits it, if anybody does.
\* ReturnBug never settles a failed one for a sweep.
ReturnBug(s, outcome) ==
  stage' = [stage EXCEPT ![s] =
              IF s \in waiting \/ (outcome = "ok" /\ \E v \in recoveries : v.via = s)
              THEN outcome ELSE "none"]
Return(s, outcome) ==
  stage' = [stage EXCEPT ![s] =
              IF s \in waiting \/ \E v \in recoveries : v.via = s THEN outcome ELSE "none"]

-----------------------------------------------------------------------------
(* Placing and launching: spawnSession and placeAndLaunch. *)

\* POST /campaigns/:id/terminals for a new session, of an agent (its
\* conversation is its own) or of a plain shell.
Spawn(s) ==
  /\ Serving /\ spawns < MaxSpawns
  /\ \E c \in {s, NoSession} : InsertRow(s, c)
  /\ stage' = [stage EXCEPT ![s] = "choosing"]
  /\ waiting' = waiting \union {s}
  /\ spawns' = spawns + 1
  /\ UNCHANGED <<placement, host, aged, dbVars, cp, recoveries, hostVars, netVars,
                 byHand, lives>>

\* The same route with resumeFromTerminalId: any existing agent session of the
\* campaign may be resumed, whatever its status, on the host it ran on.
ResumeByHand(s, prior) ==
  /\ Serving /\ byHand < MaxByHand
  /\ status[prior] \in {"active", "exited"} /\ Resumable(prior)
  /\ InsertRow(s, conv[prior])
  /\ stage' = [stage EXCEPT ![s] = "choosing"]
  /\ target' = [target EXCEPT ![s] = SessionHost(prior)]
  /\ waiting' = waiting \union {s}
  /\ byHand' = byHand + 1
  /\ UNCHANGED <<placement, host, aged, dbVars, cp, recoveries, daemon, boot, pty,
                 senior, netVars, spawns, lives>>

\* choosePlacement settles on the host a resume is pinned to, or on this
\* daemon or any follower that has heartbeated.
Candidates(s) ==
  IF target[s] # NoHost THEN {target[s]}
  ELSE {Self} \union {h \in Followers : known[h] # 0}

\* It returned after the user closed the row: 409, the row as it was.
PlacedTooLate(s) ==
  /\ Serving /\ stage[s] = "choosing"
  /\ status[s] # "active"
  /\ Return(s, "failed")
  /\ UNCHANGED <<rowVars, dbVars, cp, waiting, recoveries, hostVars, netVars, bounds>>

\* It returned this daemon: launch and recordPlaced run in the same turn.
LaunchHere(s) ==
  /\ Serving /\ stage[s] = "choosing"
  /\ status[s] = "active" /\ Self \in Candidates(s)
  /\ target' = [target EXCEPT ![s] = Self]
  /\ pty' = [pty EXCEPT ![s] = "active"]
  /\ placement' = [placement EXCEPT ![s] = "placed"]
  /\ host' = [host EXCEPT ![s] = Self]
  /\ Return(s, "ok")
  /\ UNCHANGED <<status, conv, aged, dbVars, cp, waiting, recoveries, daemon, boot,
                 senior, netVars, bounds>>

\* It returned a follower: launchRemote sends the spec and waits.
CallHost(s, h) ==
  /\ Serving /\ stage[s] = "choosing"
  /\ status[s] = "active" /\ h \in Candidates(s)
  /\ target' = [target EXCEPT ![s] = h]
  /\ stage' = [stage EXCEPT ![s] = "launching"]
  /\ wire' = [wire EXCEPT ![s] = IF daemon[h] = "down" THEN "none" ELSE "request"]
  /\ UNCHANGED <<rowVars, dbVars, cp, waiting, recoveries, daemon, boot, pty, senior,
                 beats, kills, bounds>>

\* PlacementError, a LaunchError of this daemon, an error reply, a dead
\* connection, or 15 s without an answer.
LaunchFails(s) ==
  /\ Serving /\ stage[s] \in {"choosing", "launching"}
  /\ MarkFailed(s)
  /\ aged' = aged \ {s}
  /\ Return(s, "failed")
  /\ wire' = [wire EXCEPT ![s] = IF @ = "request" THEN @ ELSE "none"]
  /\ UNCHANGED <<host, conv, dbVars, cp, waiting, recoveries, hostVars, beats, kills,
                 bounds>>

\* The 201 arrives.  If the row can no longer take the PTY, kill it again.
LaunchReply(s) ==
  /\ Serving /\ stage[s] = "launching" /\ wire[s] = "launched"
  /\ wire' = [wire EXCEPT ![s] = "none"]
  /\ IF Recordable(s)
     THEN /\ RecordPlaced(s)
          /\ Return(s, "ok")
          /\ UNCHANGED kills
     ELSE /\ Return(s, "failed")
          /\ kills' = kills \union Callable({s})
          /\ UNCHANGED <<placement, host>>
  /\ UNCHANGED <<status, conv, aged, dbVars, cp, waiting, recoveries, hostVars, beats,
                 bounds>>

\* spawnSession answers.  A failure within the 3 s leaves no row behind.
AnswerSpawn(s) ==
  /\ Serving /\ s \in waiting /\ stage[s] \in {"ok", "failed"}
  /\ waiting' = waiting \ {s}
  /\ stage' = [stage EXCEPT ![s] = "none"]
  /\ IF stage[s] = "failed" THEN DeleteRow(s) ELSE UNCHANGED <<status, placement, host>>
  /\ UNCHANGED <<conv, aged, dbVars, cp, recoveries, hostVars, netVars, bounds>>

\* ... or the 3 s pass first and placing goes on in the background.
AnswerStillPlacing(s) ==
  /\ Serving /\ s \in waiting /\ stage[s] \in {"choosing", "launching"}
  /\ waiting' = waiting \ {s}
  /\ UNCHANGED <<rowVars, dbVars, cp, stage, recoveries, hostVars, netVars, bounds>>

-----------------------------------------------------------------------------
(* What the user does to a session. *)

\* killSession on the PTY of row s, if its exec_id is known: at once here, by
\* a kill call on a follower.  KillPtyBug leaves the PTYs here alone.
KillPtyBug(s) ==
  LET S == IF Running(s) THEN {s} ELSE {} IN
  /\ UNCHANGED <<pty, senior>>
  /\ kills' = kills \union Callable({e \in S : host[e] # Self})
KillPty(s) ==
  LET S == IF Running(s) THEN {s} ELSE {} IN
  /\ Retire({e \in S : host[e] = Self})
  /\ kills' = kills \union Callable({e \in S : host[e] # Self})

\* POST /terminals/:id/kill keeps the row for its scrollback.
Kill(s) ==
  /\ Serving /\ status[s] = "active"
  /\ MarkExited({s})
  /\ KillPty(s)
  /\ UNCHANGED <<placement, host, conv, dbVars, cpVars, daemon, boot, target, wire,
                 beats, bounds>>

\* DELETE /terminals/:id also takes it out of every layout.
Delete(s) ==
  /\ Serving /\ status[s] \in {"active", "exited"}
  /\ DeleteRow(s)
  /\ aged' = aged \ {s}
  /\ KillPty(s)
  /\ panes' = panes \ {s}
  /\ UNCHANGED <<conv, known, reported, cpVars, daemon, boot, target,
                 wire, beats, bounds>>

\* A client saves a layout in which a pane shows s.
ShowInPane(s) ==
  /\ Serving /\ status[s] \in {"active", "exited"} /\ s \notin panes
  /\ Cardinality(panes) < MaxPanes
  /\ panes' = panes \union {s}
  /\ UNCHANGED <<rowVars, known, reported, cpVars, hostVars, netVars, bounds>>

-----------------------------------------------------------------------------
(* A follower's daemon: routes/exec.ts, pty-host.ts, heartbeat.ts. *)

Alive(h) == daemon[h] # "down"

PtysOn(h, state) == {e \in Execs : target[e] = h /\ pty[e] = state}

\* POST /exec/sessions: the PTY starts, or the spec is refused.  Nobody reads
\* the answer to a call that was given up.
ServeLaunch(s) ==
  /\ wire[s] = "request" /\ Alive(target[s])
  /\ \/ /\ pty' = [pty EXCEPT ![s] = "active"]
        /\ wire' = [wire EXCEPT
                      ![s] = IF stage[s] = "launching" THEN "launched" ELSE "none"]
     \/ /\ wire' = [wire EXCEPT
                      ![s] = IF stage[s] = "launching" THEN "rejected" ELSE "none"]
        /\ UNCHANGED pty
  /\ UNCHANGED <<rowVars, dbVars, cpVars, daemon, boot, target, senior, beats, kills,
                 bounds>>

\* POST /exec/sessions/:id/kill, a 404 when the PTY is no longer live.
ServeKill(e) ==
  /\ e \in kills /\ Alive(target[e])
  /\ kills' = kills \ {e}
  /\ Retire({e})
  /\ UNCHANGED <<rowVars, dbVars, cpVars, daemon, boot, target, wire, beats, bounds>>

\* Another control plane launches a PTY of its own here.
ForeignLaunch(e, h) ==
  /\ Alive(h) /\ pty[e] = "none"
  /\ pty' = [pty EXCEPT ![e] = "active"]
  /\ target' = [target EXCEPT ![e] = h]
  /\ UNCHANGED <<rowVars, dbVars, cpVars, daemon, boot, senior, netVars, bounds>>

\* onExit: the process ends by itself.  On this daemon watchLocalExecs ends
\* the row in the same turn.
PtyExits(e) ==
  /\ pty[e] = "active"
  /\ Retire({e})
  /\ IF target[e] = Self THEN MarkExited({e} \cap Sessions)
                         ELSE UNCHANGED <<status, aged>>
  /\ UNCHANGED <<placement, host, conv, dbVars, cpVars, daemon, boot, target, netVars,
                 bounds>>

\* proxyToHost: the exit frame of the stream a viewer watches ends the row at
\* once, ahead of the heartbeat.
StreamShowsExit(s) ==
  /\ Serving /\ Running(s) /\ host[s] \in Followers /\ pty[s] = "exited"
  /\ MarkExited({s})
  /\ UNCHANGED <<placement, host, conv, dbVars, cpVars, hostVars, netVars, bounds>>

\* pruneExited forgets an exited PTY after EXITED_RETENTION_MS, an hour.
ForgetPty(e) ==
  /\ pty[e] = "exited" /\ target[e] \in Followers
  /\ pty' = [pty EXCEPT ![e] = "gone"]
  /\ UNCHANGED <<rowVars, dbVars, cpVars, daemon, boot, target, senior, netVars, bounds>>

Snapshot(h) ==
  [from |-> h, boot |-> boot[h], active |-> PtysOn(h, "active"),
   exited |-> PtysOn(h, "exited"), senior |-> PtysOn(h, "active") \cap senior]

BeatsFrom(h) == {m \in beats : m.from = h}

SendBeat(h) ==
  /\ daemon[h] = "up" /\ Cardinality(BeatsFrom(h)) < MaxInFlight
  /\ beats' = beats \union {Snapshot(h)}
  /\ UNCHANGED <<rowVars, dbVars, cpVars, hostVars, wire, kills, bounds>>

LoseBeat(m) ==
  /\ m \in beats
  /\ beats' = beats \ {m}
  /\ UNCHANGED <<rowVars, dbVars, cpVars, hostVars, wire, kills, bounds>>

StartDaemon(h) ==
  /\ daemon[h] = "down" /\ boot[h] < MaxBoots
  /\ daemon' = [daemon EXCEPT ![h] = "up"]
  /\ boot' = [boot EXCEPT ![h] = @ + 1]
  /\ UNCHANGED <<rowVars, dbVars, cpVars, pty, target, senior, netVars, bounds>>

\* SIGTERM: the heartbeat loop stops, every PTY is killed, and sendFinal says
\* so, once.  The listeners close only after that.
StopDaemon(h) ==
  /\ daemon[h] = "up" /\ boot[h] < MaxBoots
  /\ daemon' = [daemon EXCEPT ![h] = "stopping"]
  /\ Retire(PtysOn(h, "active"))
  /\ beats' = beats \union
       {[Snapshot(h) EXCEPT !.active = {}, !.senior = {},
                            !.exited = PtysOn(h, "active") \union PtysOn(h, "exited")]}
  /\ UNCHANGED <<rowVars, dbVars, cpVars, boot, target, wire, kills, bounds>>

\* A crash, or the end of a shutdown: no PTY outlives the process, nor does a
\* call it has not served.
ExitDaemon(h) ==
  /\ Alive(h) /\ boot[h] < MaxBoots
  /\ daemon' = [daemon EXCEPT ![h] = "down"]
  /\ pty' = [e \in Execs |->
               IF target[e] = h /\ pty[e] \in {"active", "exited"} THEN "gone" ELSE pty[e]]
  /\ senior' = {e \in senior : target[e] # h}
  /\ wire' = [s \in Sessions |->
                IF target[s] = h /\ wire[s] = "request" THEN "none" ELSE wire[s]]
  /\ kills' = {e \in kills : target[e] # h}
  /\ UNCHANGED <<rowVars, dbVars, cpVars, boot, target, beats, bounds>>

-----------------------------------------------------------------------------
(* Time.  A PTY is 30 s old only when the 15 s of its launch call are over. *)
(* A row was placed 30 s ago only when every heartbeat still in flight      *)
(* (for at most 4 s) was built after its PTY was launched.                  *)

PtyAges(e) ==
  /\ pty[e] = "active" /\ target[e] \in Followers /\ e \notin senior
  /\ e \in Sessions => stage[e] # "launching"
  /\ senior' = senior \union {e}
  /\ UNCHANGED <<rowVars, dbVars, cpVars, daemon, boot, pty, target, netVars, bounds>>

RowAges(s) ==
  /\ Running(s) /\ host[s] \in Followers /\ s \notin aged
  /\ \A m \in BeatsFrom(host[s]) : s \in m.active \union m.exited
  /\ aged' = aged \union {s}
  /\ UNCHANGED <<status, placement, host, conv, dbVars, cpVars, hostVars, netVars, bounds>>

-----------------------------------------------------------------------------
(* POST /fleet/heartbeat: recordHeartbeat, then reconcileHost up to its     *)
(* first await.                                                             *)

RowsOn(h) == {s \in Sessions : Running(s) /\ host[s] = h}

Restarted(m) == known[m.from] # 0 /\ known[m.from] # m.boot

Missing(m) == RowsOn(m.from) \ (m.active \union m.exited)

\* Rows a restart took down, to be resumed.
Died(m) == IF Restarted(m) THEN Missing(m) ELSE {}

\* Rows that end: the exits the host saw, what its restart killed, and what
\* it has not shown for the grace period.  EndedBug forgets the grace period,
\* EndedByHost what the host lost, EndedResumed to end what is resumed.
EndedBug(m) == (RowsOn(m.from) \cap m.exited) \union Missing(m)
EndedByHost(m) == (RowsOn(m.from) \cap m.exited) \union Died(m)
EndedResumed(m) == (RowsOn(m.from) \cap m.exited) \union (Missing(m) \cap aged)
Ended(m) == (RowsOn(m.from) \cap m.exited) \union Died(m) \union (Missing(m) \cap aged)

\* PTYs of ours past the grace period that no live row has, judged by the rows
\* as this heartbeat left them.  OrphansRaw forgets the owner,
\* OrphansNoRow the PTYs whose row is still there.
OrphansRaw(m) == {e \in m.active \cap m.senior :
                    e \in Sessions => ~(Running(e) /\ e \notin Ended(m))}
OrphansNoRow(m) == {e \in m.active \cap m.senior \cap Sessions : status[e] = "deleted"}
Orphans(m) == {e \in m.active \cap m.senior \cap Sessions :
                 ~(Running(e) /\ e \notin Ended(m))}

NewRecovery(h, D) ==
  [on |-> h, died |-> D, todo |-> {s \in D : Resumable(s)},
   prior |-> NoSession, via |-> NoSession, resumed |-> {}]

HeartbeatArrives(m) ==
  /\ Serving /\ m \in beats
  /\ beats' = beats \ {m}
  /\ known' = [known EXCEPT ![m.from] = m.boot]
  /\ MarkExited(Ended(m))
  /\ kills' = kills \union Callable(Orphans(m))
  /\ recoveries' = IF Died(m) = {} THEN recoveries
                   ELSE recoveries \union {NewRecovery(m.from, Died(m))}
  /\ UNCHANGED <<placement, host, conv, panes, reported, cp, stage, waiting, hostVars,
                 wire, bounds>>

-----------------------------------------------------------------------------
(* The rest of reconcileHost: resumeOnHost for one lost row after the       *)
(* other, then remapLayouts and the notification.  An await resumes on the  *)
(* microtask queue; letting other handlers in between only adds behaviours. *)

Replace(v, w) == recoveries' = (recoveries \ {v}) \union {w}

ResumeNext(v, p, s) ==
  /\ Serving /\ v \in recoveries
  /\ v.prior = NoSession /\ p \in v.todo
  /\ InsertRow(s, conv[p])
  /\ stage' = [stage EXCEPT ![s] = "choosing"]
  /\ target' = [target EXCEPT ![s] = v.on]
  /\ Replace(v, [v EXCEPT !.todo = @ \ {p}, !.prior = p, !.via = s])
  /\ UNCHANGED <<placement, host, aged, dbVars, cp, waiting, daemon, boot, pty, senior,
                 netVars, bounds>>

\* The host has gone silent meanwhile: PlacementError, and no row stays.
ResumeRefused(v, p) ==
  /\ Serving /\ v \in recoveries
  /\ v.prior = NoSession /\ p \in v.todo
  /\ Replace(v, [v EXCEPT !.todo = @ \ {p}])
  /\ UNCHANGED <<rowVars, dbVars, cp, stage, waiting, hostVars, netVars, bounds>>

ResumeSettled(v) ==
  /\ Serving /\ v \in recoveries
  /\ v.prior # NoSession /\ stage[v.via] \in {"ok", "failed"}
  /\ IF stage[v.via] = "ok"
     THEN /\ Replace(v, [v EXCEPT !.prior = NoSession, !.via = NoSession,
                                  !.resumed = @ \union {<<v.prior, v.via>>}])
          /\ UNCHANGED <<status, placement, host>>
     ELSE /\ Replace(v, [v EXCEPT !.prior = NoSession, !.via = NoSession])
          /\ DeleteRow(v.via)
  /\ stage' = [stage EXCEPT ![v.via] = "none"]
  /\ UNCHANGED <<conv, aged, dbVars, cp, waiting, hostVars, netVars, bounds>>

\* remapLayouts: a pane on a lost session shows what resumed it, or nothing.
Remapped(v) ==
  (panes \ v.died) \union {r[2] : r \in {q \in v.resumed : q[1] \in panes}}

\* The notification is about the first session resumed; if the user has
\* deleted that row meanwhile, reading it throws and nothing is posted.
FinishRecovery(v) ==
  /\ Serving /\ v \in recoveries
  /\ v.prior = NoSession /\ v.todo = {}
  /\ panes' = Remapped(v)
  /\ \/ /\ v.resumed = {} \/ \E r \in v.resumed : status[r[2]] # "deleted"
        /\ reported' = reported \union v.died
     \/ /\ \E r \in v.resumed : status[r[2]] = "deleted"
        /\ UNCHANGED reported
  /\ recoveries' = recoveries \ {v}
  /\ UNCHANGED <<rowVars, known, cp, stage, waiting, hostVars, netVars, bounds>>

-----------------------------------------------------------------------------
(* The control plane's own life: index.ts and resumeSessionsOnBoot. *)

\* SIGTERM: killAllLiveSessions ends the rows of this host.
StopControlPlane ==
  /\ cp = "up" /\ lives < MaxLives
  /\ cp' = "stopping"
  /\ Retire(PtysOn(Self, "active"))
  /\ MarkExited(LocalRows)
  /\ UNCHANGED <<placement, host, conv, dbVars, stage, waiting, recoveries, daemon, boot,
                 target, netVars, bounds>>

\* A crash at any point, or the end of a shutdown.  Everything in memory goes,
\* with the PTYs it held; answers to its calls find nobody.
ExitControlPlane ==
  /\ cp # "down" /\ lives < MaxLives
  /\ cp' = "down"
  /\ stage' = [s \in Sessions |-> "none"]
  /\ waiting' = {}
  /\ recoveries' = {}
  /\ pty' = [e \in Execs |->
               IF target[e] = Self /\ pty[e] \in {"active", "exited"} THEN "gone" ELSE pty[e]]
  /\ wire' = [s \in Sessions |-> IF wire[s] = "request" THEN "request" ELSE "none"]
  /\ UNCHANGED <<rowVars, dbVars, daemon, boot, target, senior, beats, kills, bounds>>

StartControlPlane ==
  /\ cp = "down" /\ lives < MaxLives
  /\ cp' = "booting"
  /\ lives' = lives + 1
  /\ recoveries' = {[NewRecovery(Self, LocalRows) EXCEPT !.todo = LocalRows]}
  /\ UNCHANGED <<rowVars, dbVars, stage, waiting, hostVars, netVars, spawns, byHand>>

\* One stale row of the boot's loop: ended, and relaunched here in the same
\* turn if it was placed and has a conversation.
EndStale(v, p) ==
  /\ cp = "booting" /\ v \in recoveries /\ p \in v.todo
  /\ MarkExited({p})
  /\ Replace(v, [v EXCEPT !.todo = @ \ {p}])
  /\ UNCHANGED <<placement, host, conv, dbVars, cp, stage, waiting, hostVars, netVars,
                 bounds>>

RelaunchStale(v, p, s) ==
  /\ cp = "booting" /\ v \in recoveries /\ p \in v.todo
  /\ placement[p] = "placed" /\ Resumable(p) /\ NextId(s)
  /\ status' = [status EXCEPT ![p] = "exited", ![s] = "active"]
  /\ conv' = [conv EXCEPT ![s] = conv[p]]
  /\ placement' = [placement EXCEPT ![s] = "placed"]
  /\ host' = [host EXCEPT ![s] = Self]
  /\ target' = [target EXCEPT ![s] = Self]
  /\ pty' = [pty EXCEPT ![s] = "active"]
  /\ Replace(v, [v EXCEPT !.todo = @ \ {p}, !.resumed = @ \union {<<p, s>>}])
  /\ UNCHANGED <<aged, dbVars, cp, stage, waiting, daemon, boot, senior, netVars, bounds>>

FinishBoot(v) ==
  /\ cp = "booting" /\ v \in recoveries /\ v.todo = {}
  /\ cp' = "up"
  /\ panes' = Remapped(v)
  /\ recoveries' = {}
  /\ UNCHANGED <<rowVars, known, reported, stage, waiting, hostVars, netVars, bounds>>

-----------------------------------------------------------------------------
Placing ==
  \E s \in Sessions :
    \/ Spawn(s) \/ PlacedTooLate(s) \/ LaunchHere(s) \/ LaunchFails(s) \/ LaunchReply(s)
    \/ AnswerSpawn(s) \/ AnswerStillPlacing(s)
    \/ \E prior \in Sessions : ResumeByHand(s, prior)
    \/ \E h \in Followers : CallHost(s, h)

User == \E s \in Sessions : Kill(s) \/ Delete(s) \/ ShowInPane(s)

Hosting ==
  \/ \E s \in Sessions : ServeLaunch(s) \/ RowAges(s) \/ StreamShowsExit(s)
  \/ \E e \in Execs : ServeKill(e) \/ PtyExits(e) \/ ForgetPty(e) \/ PtyAges(e)
  \/ \E h \in Followers : SendBeat(h) \/ StartDaemon(h) \/ StopDaemon(h) \/ ExitDaemon(h)
  \/ \E e \in Foreign, h \in Followers : ForeignLaunch(e, h)
  \/ \E m \in beats : LoseBeat(m) \/ HeartbeatArrives(m)

Recovering ==
  \E v \in recoveries :
    \/ ResumeSettled(v) \/ FinishRecovery(v) \/ FinishBoot(v)
    \/ \E p \in Sessions : ResumeRefused(v, p) \/ EndStale(v, p)
    \/ \E p, s \in Sessions : ResumeNext(v, p, s) \/ RelaunchStale(v, p, s)

Next ==
  \/ Placing \/ User \/ Hosting \/ Recovering
  \/ StopControlPlane \/ ExitControlPlane \/ StartControlPlane

Spec == Init /\ [][Next]_vars

\* What the code keeps doing by itself: calls end (in an answer, an error or a
\* timeout), awaiting handlers go on, heartbeats are sent every 5 s, a shutdown
\* ends, and time passes.  A heartbeat or a kill may be delayed or lost any number of times,
\* but not for ever.  No user, process exit, crash or restart is ever owed.
Fairness ==
  /\ \A s \in Sessions :
       /\ WF_vars(PlacedTooLate(s) \/ LaunchHere(s) \/ LaunchFails(s) \/ LaunchReply(s)
                  \/ \E h \in Followers : CallHost(s, h))
       /\ WF_vars(AnswerSpawn(s) \/ AnswerStillPlacing(s))
       /\ WF_vars(PtyAges(s)) /\ WF_vars(ServeKill(s))
  /\ SF_vars(\E s \in Sessions : RowAges(s))
  /\ \A h \in Followers :
       /\ WF_vars(SendBeat(h))
       /\ SF_vars(\E m \in BeatsFrom(h) : HeartbeatArrives(m))
       /\ WF_vars(daemon[h] = "stopping" /\ ExitDaemon(h))
  /\ WF_vars(Recovering)

FairSpec == Spec /\ Fairness

-----------------------------------------------------------------------------
(* Properties. *)

\* The control plane never orders the death of a PTY somebody may still want:
\* not that of a live row, not one whose launch may still be recorded (the
\* reaper's age test against the launch timeout), not another control plane's.
KillsOnlyUnwanted ==
  \A e \in kills : e \in Sessions /\ status[e] \in {"exited", "deleted"}

\* While the control plane serves, the PTYs on its own host and the rows placed
\* there match exactly, both ways: no heartbeat ever corrects these rows or
\* reaps these PTYs, so every handler has to keep them in step.
LocalRowsMatchPtys ==
  Serving => \A s \in Sessions :
    (pty[s] = "active" /\ target[s] = Self) <=> (Running(s) /\ host[s] = Self)

\* A session that ended stays ended, and the answer to a launch that comes
\* after the user closed its pane never makes it a placed one.
EndedStaysEnded ==
  [][\A s \in Sessions : status[s] \in {"exited", "deleted"} =>
       /\ status'[s] \in {"exited", "deleted"}
       /\ placement'[s] = "placed" => placement[s] = "placed"]_vars

\* A running session of a follower whose PTY lives is ended only by the user,
\* or by a heartbeat that reveals another boot of its host.
LivePtySpared ==
  [][\A s \in Sessions :
       Running(s) /\ host[s] \in Followers /\ pty[s] = "active" /\ status'[s] # "active"
         => Kill(s) \/ Delete(s) \/ known' # known]_vars

\* The control plane may stop, crash and boot again at any moment: the rows of
\* sessions on other hosts stay attached to them, and nobody kills their PTYs.
RemoteSessionsOutliveControlPlane ==
  [][cp' # cp \/ cp \in {"down", "booting"} =>
       \A s \in Sessions : Running(s) /\ host[s] \in Followers =>
         status'[s] = "active" /\ host'[s] = host[s] /\ placement'[s] = "placed"]_vars

\* A lost session belongs to one sweep however many restarts overlap, and its
\* row has ended before anything else takes over its conversation and its pane.
LostOnce ==
  \A v \in recoveries :
    /\ \A w \in recoveries : v # w => v.died \cap w.died = {}
    /\ \A s \in v.died \ v.todo : status[s] \in {"exited", "deleted"}

\* The whole model implements the promise of SessionLifecycle: the row and the
\* launch of a session tell its life, its PTY the process.
Life == [s \in Sessions |->
           CASE status[s] = "fresh" -> "new"
             [] status[s] = "active" -> IF placement[s] = "placed" THEN "running" ELSE "starting"
             [] status[s] = "exited" -> "ended"
             [] status[s] = "deleted" -> "removed"]
Process == [e \in Execs |->
              CASE pty[e] = "none" -> "unborn"
                [] pty[e] = "active" -> "alive"
                [] OTHER -> "dead"]
Lifecycle == INSTANCE SessionLifecycle
               WITH Processes <- Execs, life <- Life, process <- Process, condemned <- kills
ImplementsLifecycle == Lifecycle!Spec

\* terminals.ts:19-21 of every session it presumes lost: "A placed session
\* missing from its host's heartbeat is only presumed lost once it's older than
\* this".
PresumedLostOnlyAfterGrace ==
  [][\A s \in Sessions :
       Running(s) /\ host[s] \in Followers /\ pty[s] = "active" /\ status'[s] # "active"
         => Kill(s) \/ Delete(s) \/ s \in aged]_vars

\* A PTY of ours that no live row owns does not survive on a host that stays up.
OrphansAreReaped ==
  \A e \in Sessions :
    (pty[e] = "active" /\ target[e] \in Followers /\ status[e] \in {"exited", "deleted"}) ~>
      (pty[e] # "active" \/ cp = "down")

\* A row whose PTY ended does not stay active while its host heartbeats.
RowsCatchUp ==
  \A s \in Sessions :
    (Running(s) /\ host[s] \in Followers /\ pty[s] # "active") ~>
      (~Running(s) \/ cp = "down" \/ \E h \in Followers : host[s] = h /\ daemon[h] # "up")

\* No session stays in placing: not after a lost answer, a closed pane or a
\* dead host.
PlacingSettles ==
  \A s \in Sessions :
    (status[s] = "active" /\ placement[s] = "placing") ~>
      (status[s] # "active" \/ placement[s] # "placing" \/ cp = "down")

\* Every sweep over lost rows ends, however many more hosts restart under it.
SweepsEnd == (recoveries # {}) ~> (recoveries = {} \/ cp = "down")

=============================================================================
