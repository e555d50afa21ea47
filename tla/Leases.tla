-------------------------------- MODULE Leases --------------------------------
(***************************************************************************)
(* `besiege dispatch' and the lease it holds on a PR: claim, heartbeats    *)
(* while claude runs, release; and the daemon's sweep of stale claims.     *)
(* PrRegistry abstracts from time; here time is what matters.              *)
(* Sources: packages/daemon/src/cli.ts, the claim routes of routes/prs.ts, *)
(* expireStaleClaims of github.ts and its timer in index.ts.               *)
(*                                                                         *)
(* A tick is 30 s: the period of a dispatch's heartbeat.  Timers fire      *)
(* within the tick they are due.  A request is served or fails in less.    *)
(***************************************************************************)
EXTENDS Naturals

CONSTANTS
  Dispatches,   \* runs of `besiege dispatch' for one (step, repository)
  Unclaimed,
  Stale,        \* ticks without a heartbeat after which a claim is stale: 10
  SweepEvery    \* ticks between two sweeps: 2

ASSUME LeaseConstants ==
  Unclaimed \notin Dispatches /\ Stale \in Nat \ {0} /\ SweepEvery \in Nat \ {0, 1}

VARIABLES
  claimant,   \* the dispatch whose claim on the PR is not released
  silence,    \* ticks since that claim's heartbeat_at
  stage,      \* how far each dispatch is
  beatIn,     \* ticks to its next heartbeat
  daemonUp,
  sweepIn,    \* ticks to the daemon's next sweep
  missed     \* dispatches one of whose heartbeats a running daemon missed, or
              \* whose machine slept, since their last heartbeat

leaseVars == <<claimant, silence, stage, beatIn, daemonUp, sweepIn, missed>>

LeaseTypeOK ==
  /\ claimant \in Dispatches \union {Unclaimed}
  /\ silence \in 0..(Stale + 1)
  /\ stage \in [Dispatches -> {"new", "registered", "checked", "running", "leaving", "gone"}]
  /\ beatIn \in [Dispatches -> 0..1]
  /\ daemonUp \in BOOLEAN /\ sweepIn \in 0..SweepEvery
  /\ missed \subseteq Dispatches

LeaseInit ==
  /\ claimant = Unclaimed /\ silence = 0
  /\ stage = [d \in Dispatches |-> "new"]
  /\ beatIn = [d \in Dispatches |-> 1]
  /\ daemonUp = TRUE /\ sweepIn = SweepEvery
  /\ missed = {}

Running(d) == stage[d] = "running"

-----------------------------------------------------------------------------
(* The command. *)

\* The repository and the PR's row are looked up or made; a request that fails
\* ends the command.
RegisterRow(d) ==
  /\ stage[d] = "new"
  /\ \E s \in {"gone"} \union (IF daemonUp THEN {"registered"} ELSE {}) :
       stage' = [stage EXCEPT ![d] = s]
  /\ UNCHANGED <<claimant, silence, beatIn, daemonUp, sweepIn, missed>>

\* GET /prs/:id/claim: a claim that is there is only warned about.
CheckClaim(d) ==
  /\ stage[d] = "registered"
  /\ stage' = [stage EXCEPT ![d] = "checked"]
  /\ UNCHANGED <<claimant, silence, beatIn, daemonUp, sweepIn, missed>>

\* POST /prs/:id/claim takes the claim from whoever has it; claude is started
\* if the answer comes, and otherwise nothing releases what was claimed.
ClaimRow(d) ==
  /\ stage[d] = "checked"
  /\ \/ /\ daemonUp
        /\ claimant' = d /\ silence' = 0
        /\ \E s \in {"running", "gone"} : stage' = [stage EXCEPT ![d] = s]
     \/ stage' = [stage EXCEPT ![d] = "gone"] /\ UNCHANGED <<claimant, silence>>
  /\ beatIn' = [beatIn EXCEPT ![d] = 1]
  /\ missed' = missed \ {d}
  /\ UNCHANGED <<daemonUp, sweepIn>>

\* POST /prs/:id/claim/heartbeat renews the PR's claim, whoever has it.
Renew == silence' = 0

Heartbeat(d) ==
  /\ Running(d) /\ beatIn[d] = 0
  /\ beatIn' = [beatIn EXCEPT ![d] = 1]
  /\ \/ daemonUp /\ Renew /\ missed' = missed \ {d}
     \/ daemonUp /\ missed' = missed \union {d} /\ UNCHANGED silence
     \/ ~daemonUp /\ UNCHANGED <<silence, missed>>
  /\ UNCHANGED <<claimant, stage, daemonUp, sweepIn>>

\* claude exits, on a forwarded signal or by itself, or could not be started.
ChildExits(d) ==
  /\ Running(d)
  /\ stage' = [stage EXCEPT ![d] = "leaving"]
  /\ UNCHANGED <<claimant, silence, beatIn, daemonUp, sweepIn, missed>>

\* DELETE /prs/:id/claim, which says nothing of whose claim it ends.
ReleaseLease(d) ==
  /\ stage[d] = "leaving"
  /\ stage' = [stage EXCEPT ![d] = "gone"]
  /\ (daemonUp /\ claimant' = Unclaimed) \/ UNCHANGED claimant
  /\ UNCHANGED <<silence, beatIn, daemonUp, sweepIn, missed>>

\* The command dies without a release.
KillDispatch(d) ==
  /\ stage[d] # "gone"
  /\ stage' = [stage EXCEPT ![d] = "gone"]
  /\ UNCHANGED <<claimant, silence, beatIn, daemonUp, sweepIn, missed>>

-----------------------------------------------------------------------------
(* The daemon. *)

\* expireStaleClaims.
IsStale == claimant # Unclaimed /\ silence > Stale

SweepClaims ==
  /\ daemonUp /\ sweepIn = 0
  /\ sweepIn' = SweepEvery
  /\ claimant' = IF IsStale THEN Unclaimed ELSE claimant
  /\ UNCHANGED <<silence, stage, beatIn, daemonUp, missed>>

\* The timer of the sweep starts with the daemon and first fires a period
\* later.  FirstSweepBug also sweeps at once.
FirstSweepBug == 0
FirstSweep == SweepEvery

StopDaemon ==
  /\ daemonUp /\ daemonUp' = FALSE
  /\ UNCHANGED <<claimant, silence, stage, beatIn, sweepIn, missed>>

StartDaemon ==
  /\ ~daemonUp /\ daemonUp' = TRUE
  /\ sweepIn' = FirstSweep
  /\ UNCHANGED <<claimant, silence, stage, beatIn, missed>>

\* The user releases the claim in the Fleet panel.
UserReleases ==
  /\ daemonUp /\ claimant # Unclaimed
  /\ claimant' = Unclaimed
  /\ UNCHANGED <<silence, stage, beatIn, daemonUp, sweepIn, missed>>

-----------------------------------------------------------------------------
(* Time. *)

Older(n) == IF n <= Stale THEN n + 1 ELSE n

Tick ==
  /\ \A d \in Dispatches : Running(d) => beatIn[d] > 0
  /\ daemonUp => sweepIn > 0
  /\ silence' = Older(silence)
  /\ beatIn' = [d \in Dispatches |-> IF Running(d) THEN beatIn[d] - 1 ELSE beatIn[d]]
  /\ sweepIn' = IF daemonUp THEN sweepIn - 1 ELSE sweepIn
  /\ UNCHANGED <<claimant, stage, daemonUp, missed>>

\* A machine sleeps for long: the time of heartbeat_at goes on, timers do not.
Sleep ==
  /\ silence' = Stale + 1
  /\ missed' = Dispatches
  /\ UNCHANGED <<claimant, stage, beatIn, daemonUp, sweepIn>>

LeaseNext ==
  \/ \E d \in Dispatches :
       \/ RegisterRow(d) \/ CheckClaim(d) \/ ClaimRow(d) \/ Heartbeat(d)
       \/ ChildExits(d) \/ ReleaseLease(d) \/ KillDispatch(d)
  \/ SweepClaims \/ StopDaemon \/ StartDaemon \/ UserReleases
  \/ Tick \/ Sleep

LeaseSpec == LeaseInit /\ [][LeaseNext]_leaseVars

-----------------------------------------------------------------------------
(* Properties. *)

\* docs/besiege-spec.md:137, cli.ts:4-6: the claim of a dispatch whose claude
\* runs is not taken for a dead one's, however long the daemon was down: a
\* restarted daemon hears of every dispatch before its first sweep.
LiveDispatchKeepsClaim ==
  [][\A d \in Dispatches \ missed :
       SweepClaims /\ claimant = d /\ Running(d) => claimant' = d]_leaseVars
=============================================================================
