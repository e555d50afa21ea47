--------------------------- MODULE SessionFleetInv ---------------------------
(***************************************************************************)
(* The inductive invariant of SessionFleet: what its safety properties     *)
(* rest on, said of every reachable state.                                 *)
(***************************************************************************)
EXTENDS SessionFleet

\* A sweep that awaits a resume knows the row it inserted for it.
SweepWaits == \A v \in recoveries : v.prior # NoSession => v.via \in Sessions

TypeInv == TypeOK /\ SweepWaits

-----------------------------------------------------------------------------
(* Launching.  The order choose, call, record is what makes a PTY that is   *)
(* past the grace period one whose launch is over.                          *)

\* Nothing exists of a session before its row.
FreshIsUntouched ==
  \A s \in Sessions : status[s] = "fresh" =>
    /\ stage[s] = "none" /\ wire[s] = "none" /\ pty[s] = "none"
    /\ placement[s] = "placing" /\ host[s] = NoHost

\* No PTY, and no call for one, before choosePlacement has returned.
ChoosingComesFirst ==
  \A s \in Sessions : stage[s] = "choosing" => wire[s] = "none" /\ pty[s] = "none"

\* Nobody else places the row of a placeAndLaunch under way.
LaunchingIsPlacing ==
  \A s \in Sessions :
    stage[s] \in {"choosing", "launching"} /\ status[s] = "active" => placement[s] = "placing"

\* A row in placing has a placeAndLaunch under way, as long as it can.
PlacingIsAwaited ==
  Serving => \A s \in Sessions :
    status[s] = "active" /\ placement[s] = "placing" => stage[s] \in {"choosing", "launching"}

\* After a restart it has none, but then the boot is going to end it.
PlacingIsStale ==
  cp = "booting" => \A s \in Sessions, v \in recoveries :
    status[s] = "active" /\ placement[s] = "placing" => s \in v.todo

\* ... because a row not yet placed counts as a row of this host.
PlacingHasNoHost ==
  \A s \in Sessions : status[s] = "active" /\ placement[s] = "placing" => host[s] = NoHost

\* A row whose placing failed is not left active.
FailedHasEnded ==
  \A s \in Sessions : placement[s] = "failed" \/ stage[s] = "failed" => status[s] # "active"

\* A PTY past the grace period, now or in a heartbeat built earlier, is not one
\* whose launch may still be recorded.
SeniorIsSettled ==
  \A s \in Sessions : (s \in senior \/ \E m \in beats : s \in m.senior) =>
    status[s] # "fresh" /\ stage[s] \notin {"choosing", "launching"}

\* Launch calls go to followers, which answer once the PTY is there.
CalledIsElsewhere ==
  \A s \in Sessions :
    /\ stage[s] = "launching" \/ wire[s] \in {"request", "launched"} => target[s] \in Followers
    /\ wire[s] = "request" => pty[s] = "none"
    /\ wire[s] = "launched" => pty[s] # "none"

\* A running row is on the host its PTY was launched on.
RunningWasLaunched ==
  \A s \in Sessions :
    Running(s) => host[s] = target[s] /\ pty[s] # "none" /\ wire[s] = "none"

\* Kill calls go to followers too: a PTY here is killed at once.
KillsAreCalls == \A e \in kills : target[e] \in Followers

LaunchInv ==
  /\ FreshIsUntouched /\ ChoosingComesFirst /\ LaunchingIsPlacing /\ PlacingIsAwaited
  /\ PlacingIsStale /\ PlacingHasNoHost /\ FailedHasEnded /\ SeniorIsSettled
  /\ CalledIsElsewhere /\ RunningWasLaunched /\ KillsAreCalls /\ KillsOnlyUnwanted

-----------------------------------------------------------------------------
(* Sweeps over lost rows. *)

\* The boot's sweep leaves rows of other hosts alone.
StaleIsLocal ==
  cp = "booting" => \A v \in recoveries : \A s \in v.todo :
    status[s] # "fresh" /\ host[s] \in {Self, NoHost}

\* While handlers run, the rows of every sweep have ended.
LostHasEnded ==
  \A v \in recoveries : \A s \in v.died :
    /\ status[s] # "fresh"
    /\ Serving => status[s] \in {"exited", "deleted"}

SweepInv == StaleIsLocal /\ LostHasEnded /\ LostOnce

-----------------------------------------------------------------------------
(* The PTYs of the control plane's own host. *)

HereActive(s) == pty[s] = "active" /\ target[s] = Self
HereRunning(s) == Running(s) /\ host[s] = Self

\* None survives the process, and a boot relaunches row after row.
LocalRowsFollow ==
  /\ cp = "down" => \A s \in Sessions : ~HereActive(s)
  /\ cp = "booting" => \A v \in recoveries, s \in Sessions :
       HereActive(s) <=> HereRunning(s) /\ s \notin v.todo

LocalInv == LocalRowsMatchPtys /\ LocalRowsFollow

-----------------------------------------------------------------------------
(* What a heartbeat says of a PTY, however late it arrives. *)

\* An exit it reports has happened.
ExitsAreFinal == \A m \in beats : \A e \in m.exited : pty[e] \in {"exited", "gone"}

\* A row past the grace period is in it, unless its PTY is gone.
AgedIsSeen ==
  \A s \in aged : Running(s) /\ pty[s] = "active" =>
    \A m \in BeatsFrom(host[s]) : s \in m.active \union m.exited

\* The grace period starts when a row is placed.
AgedWasPlaced ==
  \A s \in aged : status[s] # "fresh" /\ (status[s] = "active" => placement[s] = "placed")

BeatInv == ExitsAreFinal /\ AgedIsSeen /\ AgedWasPlaced

\* All of it: the safety properties of a session's life in one invariant that
\* every handler preserves.
IInv == TypeInv /\ LaunchInv /\ SweepInv /\ LocalInv /\ BeatInv

=============================================================================
