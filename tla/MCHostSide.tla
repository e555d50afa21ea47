------------------------------ MODULE MCHostSide ------------------------------
(* One run of the daemon's components that share no state with each other:   *)
(* placement, shared services, terminal streams, the tools that build a      *)
(* campaign, the sync with GitHub, agents' conversations, leases and the     *)
(* upgrade of the database.  What one of them does is nothing to the others, *)
(* so a behaviour is about one of them, `part', and the others stay as they  *)
(* are, in states in which fairness asks nothing of them.                    *)
EXTENDS Placement, Services, Streams, Pipeline, Sync, Conversations, Upgrade, Leases

CONSTANTS
  f1, self,         \* a follower and the control plane's host
  src, dst, p,      \* a machine with a service, one that uses it, a port
  build, BUILD, ship, repo  \* steps, two of which differ in case, a repository

MCOrder   == <<"origin", "pool", "wake", "last_resort">>
MCCapable == [r \in Requests |-> FleetHosts]
MCLimit   == [h \in FleetHosts |-> 1]
MCSlots   == [h \in FleetHosts |-> IF h = self THEN 1 ELSE 0]

MCDefinitions == {[source |-> src, port |-> p, local |-> p, on |-> {dst}]}

\* A batch of register_pr, two of whose entries name one step and two one PR,
\* and another tool's call.
Asks(tool, name, n) == [tool |-> tool, repo |-> repo, step |-> name, number |-> n]
MCCallOf == <<1, 1, 1, 2>>
MCLower == [n \in StepNames |-> IF n = BUILD THEN build ELSE n]
MCKinds ==
  {<<Asks("register_pr", build, 1), Asks("register_pr", BUILD, 2), Asks("register_pr", ship, 1), other>> :
     other \in {Asks("delete_step", BUILD, 1), Asks("pin_repo", NoStepName, 1),
                Asks("unregister_pr", NoStepName, 1)}}

VARIABLE part

Parts == {"placement", "services", "streams", "pipeline", "sync", "conversations", "upgrade",
          "leases"}

HostInit ==
  /\ part \in Parts
  /\ PlaceInit /\ (part # "placement" => configured)
  /\ SvcInit /\ StreamInit
  /\ PipeInit /\ (part # "pipeline" => asked = CHOOSE k \in Kinds : TRUE)
  /\ SyncInit /\ (part # "sync" => node = {})
  /\ ConvInit /\ (part # "conversations" => source = "cache" /\ written = <<>>)
  /\ UpgradeInit /\ (part # "upgrade" => layout = Members(0) /\ ~forked)
  /\ LeaseInit

HostNext ==
  /\ UNCHANGED part
  /\ \/ part = "placement" /\ PlaceNext
        /\ UNCHANGED <<svcVars, streamVars, pipeVars, syncVars, convVars, upgradeVars,
                       leaseVars>>
     \/ part = "services" /\ SvcNext
        /\ UNCHANGED <<placeVars, streamVars, pipeVars, syncVars, convVars, upgradeVars,
                       leaseVars>>
     \/ part = "streams" /\ StreamNext
        /\ UNCHANGED <<placeVars, svcVars, pipeVars, syncVars, convVars, upgradeVars,
                       leaseVars>>
     \/ part = "pipeline" /\ PipeNext
        /\ UNCHANGED <<placeVars, svcVars, streamVars, syncVars, convVars, upgradeVars,
                       leaseVars>>
     \/ part = "sync" /\ SyncNext
        /\ UNCHANGED <<placeVars, svcVars, streamVars, pipeVars, convVars, upgradeVars,
                       leaseVars>>
     \/ part = "conversations" /\ ConvNext
        /\ UNCHANGED <<placeVars, svcVars, streamVars, pipeVars, syncVars, upgradeVars,
                       leaseVars>>
     \/ part = "upgrade" /\ UpgradeNext
        /\ UNCHANGED <<placeVars, svcVars, streamVars, pipeVars, syncVars, convVars,
                       leaseVars>>
     \/ part = "leases" /\ LeaseNext
        /\ UNCHANGED <<placeVars, svcVars, streamVars, pipeVars, syncVars, convVars,
                       upgradeVars>>

HostSpec ==
  /\ HostInit
  /\ [][HostNext]_<<part, placeVars, svcVars, streamVars, pipeVars, syncVars, convVars, upgradeVars,
              leaseVars>>
  /\ SvcFairness /\ StreamFairness /\ PipeFairness /\ SyncFairness
=============================================================================
