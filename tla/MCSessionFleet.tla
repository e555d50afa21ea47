--------------------------- MODULE MCSessionFleet ---------------------------
(* The runs of SessionFleet: one follower beside the control plane's host.  *)
(* Their .cfg files give the bounds.                                        *)
EXTENDS SessionFleetInv

\* Bounds that keep apart what does not interact: the user opens a pane or
\* resumes by hand, and another control plane uses the follower only in
\* behaviours with neither, in which this control plane stays up.
Apart ==
  /\ panes = {} \/ byHand = 0
  /\ (byHand = 0 /\ panes = {} /\ cp = "up") \/ \A e \in Foreign : pty[e] = "none"
=============================================================================
