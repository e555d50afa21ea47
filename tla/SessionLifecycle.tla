-------------------------- MODULE SessionLifecycle --------------------------
(***************************************************************************)
(* What besiege promises of a terminal session, whatever hosts, networks   *)
(* and restarts do: a session id is used once; a session runs only after   *)
(* its process was launched, which happens at most once; one that ended    *)
(* never comes back; and a process is condemned only when its session is   *)
(* over.  SessionFleet implements it.                                      *)
(***************************************************************************)
CONSTANTS Sessions, Processes  \* the process of session s is s; others are foreign

VARIABLES
  life,      \* "new", "starting", "running", "ended", "removed"
  process,   \* "unborn", "alive", "dead"
  condemned  \* processes ordered to die

vars == <<life, process, condemned>>

Init ==
  /\ life = [s \in Sessions |-> "new"]
  /\ process = [e \in Processes |-> "unborn"]
  /\ condemned = {}

Opens(s)  == life[s] = "new" /\ life'[s] = "starting"
Runs(s)   == life[s] \in {"new", "starting"} /\ life'[s] = "running" /\ process'[s] # "unborn"
Ends(s)   == life[s] \in {"starting", "running"} /\ life'[s] = "ended"
Leaves(s) == life[s] \in {"starting", "running", "ended"} /\ life'[s] = "removed"

Launched(e) ==
  /\ process[e] = "unborn" /\ process'[e] = "alive"
  /\ e \in Sessions => life'[e] # "new"
Dies(e) == process[e] = "alive" /\ process'[e] = "dead"

\* One handler may move several sessions: a heartbeat, a boot, a shutdown.
Step ==
  /\ DOMAIN life' = Sessions /\ DOMAIN process' = Processes
  /\ \A s \in Sessions : life'[s] = life[s] \/ Opens(s) \/ Runs(s) \/ Ends(s) \/ Leaves(s)
  /\ \A e \in Processes : process'[e] = process[e] \/ Launched(e) \/ Dies(e)
  /\ \A e \in condemned' \ condemned : e \in Sessions /\ life'[e] \in {"ended", "removed"}

Spec == Init /\ [][Step]_vars
=============================================================================
