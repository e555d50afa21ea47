------------------------- MODULE SessionFleetProofs -------------------------
(***************************************************************************)
(* What is proved of SessionFleet, for any set of followers and any value  *)
(* of the bounds: type correctness, the inductive invariant of             *)
(* SessionFleetInv, one part after the other, the properties that follow   *)
(* from it, and that SessionFleet implements SessionLifecycle.             *)
(***************************************************************************)
EXTENDS SessionFleetInv, TLAPS

(***************************************************************************)
(*                          TYPE CORRECTNESS                               *)
(***************************************************************************)
-----------------------------------------------------------------------------
(* Updates of one field of a sweep or of a heartbeat. *)

\* A sweep stays a sweep when a field gets a value of its type.
LEMMA SweepField ==
  ASSUME NEW v \in Recovery
  PROVE  /\ \A T \in SUBSET Sessions : [v EXCEPT !.todo = T] \in Recovery
         /\ \A s \in Sessions \union {NoSession} :
              [v EXCEPT !.prior = s] \in Recovery /\ [v EXCEPT !.via = s] \in Recovery
         /\ \A R \in SUBSET (Sessions \X Sessions) : [v EXCEPT !.resumed = R] \in Recovery
BY DEF Recovery

\* ... when resumeOnHost or the boot's loop takes a row from it.
LEMMA SweepTakesRow ==
  ASSUME NEW v \in Recovery, NEW p \in Sessions, NEW s \in Sessions
  PROVE  /\ [v EXCEPT !.todo = @ \ {p}] \in Recovery
         /\ [v EXCEPT !.todo = @ \ {p}, !.prior = p, !.via = s] \in Recovery
         /\ [v EXCEPT !.todo = @ \ {p}, !.resumed = @ \union {<<p, s>>}] \in Recovery
<1>1. [v EXCEPT !.todo = @ \ {p}] \in Recovery
  BY SweepField DEF Recovery
<1>2. [[v EXCEPT !.todo = @ \ {p}] EXCEPT !.prior = p] \in Recovery
  BY <1>1, SweepField
<1>3. [[[v EXCEPT !.todo = @ \ {p}] EXCEPT !.prior = p] EXCEPT !.via = s] \in Recovery
  BY <1>2, SweepField
<1>4. v.resumed \union {<<p, s>>} \in SUBSET (Sessions \X Sessions)
  BY DEF Recovery
<1>5. [v EXCEPT !.todo = @ \ {p}, !.resumed = @ \union {<<p, s>>}] \in Recovery
  BY <1>1, <1>4, SweepField
<1> QED BY <1>1, <1>3, <1>5

\* ... and when the resume it awaits has returned.
LEMMA SweepSettlesRow ==
  ASSUME NEW v \in Recovery, v.prior # NoSession, v.via \in Sessions
  PROVE  /\ [v EXCEPT !.prior = NoSession, !.via = NoSession] \in Recovery
         /\ [v EXCEPT !.prior = NoSession, !.via = NoSession,
                        !.resumed = @ \union {<<v.prior, v.via>>}] \in Recovery
<1>1. [[v EXCEPT !.prior = NoSession] EXCEPT !.via = NoSession] \in Recovery
  BY SweepField
<1>2. v.resumed \union {<<v.prior, v.via>>} \in SUBSET (Sessions \X Sessions)
  BY DEF Recovery
<1>3. [[[v EXCEPT !.prior = NoSession] EXCEPT !.via = NoSession]
          EXCEPT !.resumed = v.resumed \union {<<v.prior, v.via>>}] \in Recovery
  BY <1>1, <1>2, SweepField
<1> QED BY <1>1, <1>3

\* A new sweep is one, and awaits nothing.
LEMMA NewSweepType ==
  ASSUME NEW h \in Hosts, NEW D \in SUBSET Sessions
  PROVE  /\ NewRecovery(h, D) \in Recovery
         /\ [NewRecovery(h, D) EXCEPT !.todo = D] \in Recovery
         /\ NewRecovery(h, D).prior = NoSession
         /\ [NewRecovery(h, D) EXCEPT !.todo = D].prior = NoSession
<1>1. NewRecovery(h, D) \in Recovery
  BY DEF Recovery, NewRecovery
<1>2. [NewRecovery(h, D) EXCEPT !.todo = D] \in Recovery
  BY <1>1, SweepField
<1>3. NewRecovery(h, D).prior = NoSession
  BY DEF NewRecovery
<1>4. [NewRecovery(h, D) EXCEPT !.todo = D].prior = NewRecovery(h, D).prior
  BY <1>1 DEF Recovery
<1> QED BY <1>1, <1>2, <1>3, <1>4

\* Replacing a sweep by another keeps the sweeps typed.
LEMMA ReplaceSweep ==
  ASSUME TypeInv, NEW v, NEW w \in Recovery, Replace(v, w), w.prior # NoSession => w.via \in Sessions
  PROVE  recoveries' \subseteq Recovery /\ SweepWaits'
BY DEF Replace, TypeInv, TypeOK, SweepWaits

\* remapLayouts leaves session ids in the panes.
LEMMA RemappedType ==
  ASSUME TypeInv, NEW v \in recoveries
  PROVE  Remapped(v) \subseteq Sessions
BY DEF Remapped, TypeInv, TypeOK, Recovery

\* A heartbeat stays one when its snapshot is replaced by another.
LEMMA BeatField ==
  ASSUME NEW m \in Heartbeat, NEW X \in SUBSET Execs
  PROVE  /\ [m EXCEPT !.active = X] \in Heartbeat
         /\ [m EXCEPT !.exited = X] \in Heartbeat
         /\ [m EXCEPT !.senior = X] \in Heartbeat
BY DEF Heartbeat

-----------------------------------------------------------------------------
\* Every step of every handler, host and timer keeps the types.
LEMMA TypeInvStep ==
  ASSUME TypeInv, [Next]_vars
  PROVE  TypeInv'
<1> USE BoundsAreNaturals DEF TypeInv, SweepWaits, TypeOK, rowVars, dbVars, cpVars,
        hostVars, netVars, bounds, Execs, Hosts
<1>1. ASSUME NEW s \in Sessions, Spawn(s) PROVE TypeInv'
  BY <1>1 DEF Spawn, InsertRow, NextId
<1>2. ASSUME NEW s \in Sessions, NEW prior \in Sessions, ResumeByHand(s, prior)
      PROVE  TypeInv'
  BY <1>2 DEF ResumeByHand, InsertRow, NextId, SessionHost
<1>3. ASSUME NEW s \in Sessions, PlacedTooLate(s) PROVE TypeInv'
  BY <1>3 DEF PlacedTooLate, Return
<1>4. ASSUME NEW s \in Sessions, LaunchHere(s) PROVE TypeInv'
  BY <1>4 DEF LaunchHere, Return
<1>5. ASSUME NEW s \in Sessions, NEW h \in Followers, CallHost(s, h) PROVE TypeInv'
  BY <1>5 DEF CallHost
<1>6. ASSUME NEW s \in Sessions, LaunchFails(s) PROVE TypeInv'
  BY <1>6 DEF LaunchFails, MarkFailed, Return
<1>7. ASSUME NEW s \in Sessions, LaunchReply(s) PROVE TypeInv'
  <2>1. /\ placement' \in [Sessions -> {"placing", "placed", "failed"}]
        /\ host' \in [Sessions -> Hosts \union {NoHost}]
    BY <1>7 DEF LaunchReply, RecordPlaced
  <2>2. stage' \in [Sessions -> {"none", "choosing", "launching", "ok", "failed"}]
    BY <1>7 DEF LaunchReply, Return
  <2>3. kills' \subseteq Execs
    BY <1>7 DEF LaunchReply, Callable
  <2> QED
    BY <1>7, <2>1, <2>2, <2>3 DEF LaunchReply
<1>8. ASSUME NEW s \in Sessions, AnswerSpawn(s) PROVE TypeInv'
  BY <1>8 DEF AnswerSpawn, DeleteRow
<1>9. ASSUME NEW s \in Sessions, AnswerStillPlacing(s) PROVE TypeInv'
  BY <1>9 DEF AnswerStillPlacing
<1>10. ASSUME NEW s \in Sessions, Kill(s) PROVE TypeInv'
  BY <1>10 DEF Kill, MarkExited, KillPty, Retire, Callable
<1>11. ASSUME NEW s \in Sessions, Delete(s) PROVE TypeInv'
  BY <1>11 DEF Delete, DeleteRow, KillPty, Retire, Callable
<1>12. ASSUME NEW s \in Sessions, ShowInPane(s) PROVE TypeInv'
  BY <1>12 DEF ShowInPane
<1>13. ASSUME NEW s \in Sessions, ServeLaunch(s) PROVE TypeInv'
  <2>1. pty' \in [Execs -> {"none", "active", "exited", "gone"}]
    BY <1>13 DEF ServeLaunch
  <2>2. wire' \in [Sessions -> {"none", "request", "launched", "rejected"}]
    BY <1>13 DEF ServeLaunch
  <2> QED
    BY <1>13, <2>1, <2>2 DEF ServeLaunch
<1>14. ASSUME NEW e \in Execs, ServeKill(e) PROVE TypeInv'
  BY <1>14 DEF ServeKill, Retire
<1>15. ASSUME NEW e \in Foreign, NEW h \in Followers, ForeignLaunch(e, h) PROVE TypeInv'
  BY <1>15 DEF ForeignLaunch
<1>16. ASSUME NEW e \in Execs, PtyExits(e) PROVE TypeInv'
  <2>1. /\ status' \in [Sessions -> {"fresh", "active", "exited", "deleted"}]
        /\ aged' \subseteq Sessions
    BY <1>16 DEF PtyExits, MarkExited
  <2>2. /\ pty' \in [Execs -> {"none", "active", "exited", "gone"}]
        /\ senior' \subseteq Execs
    BY <1>16 DEF PtyExits, Retire
  <2> QED
    BY <1>16, <2>1, <2>2 DEF PtyExits
<1>17. ASSUME NEW e \in Execs, ForgetPty(e) PROVE TypeInv'
  BY <1>17 DEF ForgetPty
<1>18. ASSUME NEW h \in Followers, SendBeat(h) PROVE TypeInv'
  BY <1>18 DEF SendBeat, Snapshot, Heartbeat, PtysOn
<1>19. ASSUME NEW m \in beats, LoseBeat(m) PROVE TypeInv'
  BY <1>19 DEF LoseBeat
<1>20. ASSUME NEW h \in Followers, StartDaemon(h) PROVE TypeInv'
  BY <1>20 DEF StartDaemon
<1>21. ASSUME NEW h \in Followers, StopDaemon(h) PROVE TypeInv'
  <2>1. PtysOn(h, "active") \subseteq Execs /\ PtysOn(h, "exited") \subseteq Execs
    BY DEF PtysOn
  <2>2. Snapshot(h) \in Heartbeat
    BY <2>1 DEF Snapshot, Heartbeat
  <2> DEFINE m1 == [Snapshot(h) EXCEPT !.active = {}]
             m2 == [m1 EXCEPT !.senior = {}]
             m3 == [m2 EXCEPT !.exited = PtysOn(h, "active") \union PtysOn(h, "exited")]
  <2>3. m1 \in Heartbeat
    BY <2>2, BeatField
  <2>4. m2 \in Heartbeat
    BY <2>3, BeatField
  <2>5. m3 \in Heartbeat
    BY <2>1, <2>4, BeatField
  <2>6. beats' = beats \union {m3}
    BY <1>21 DEF StopDaemon
  <2>7. beats' \subseteq Heartbeat
    BY <2>5, <2>6
  <2>8. /\ pty' \in [Execs -> {"none", "active", "exited", "gone"}]
        /\ senior' \subseteq Execs
    BY <1>21 DEF StopDaemon, Retire
  <2> QED
    BY <1>21, <2>7, <2>8 DEF StopDaemon
<1>22. ASSUME NEW h \in Followers, ExitDaemon(h) PROVE TypeInv'
  BY <1>22 DEF ExitDaemon
<1>23. ASSUME NEW e \in Execs, PtyAges(e) PROVE TypeInv'
  BY <1>23 DEF PtyAges
<1>24. ASSUME NEW s \in Sessions, RowAges(s) PROVE TypeInv'
  BY <1>24 DEF RowAges
<1>25. ASSUME NEW m \in beats, HeartbeatArrives(m) PROVE TypeInv'
  <2>1. m.from \in Followers /\ m.boot \in Nat /\ m.from \in Hosts
    BY DEF Heartbeat
  <2>2. Died(m) \in SUBSET Sessions
    BY DEF Died, Missing, RowsOn
  <2>3. recoveries' \subseteq Recovery /\ SweepWaits'
    <3> DEFINE n == NewRecovery(m.from, Died(m))
    <3>1. n \in Recovery /\ n.prior = NoSession
      BY <2>1, <2>2, NewSweepType
    <3>2. recoveries' \subseteq recoveries \union {n}
      BY <1>25 DEF HeartbeatArrives
    <3> HIDE DEF n
    <3> QED
      BY <3>1, <3>2
  <2>4. /\ status' \in [Sessions -> {"fresh", "active", "exited", "deleted"}]
        /\ aged' \subseteq Sessions
    BY <1>25 DEF HeartbeatArrives, MarkExited
  <2>5. kills' \subseteq Execs
    BY <1>25 DEF HeartbeatArrives, Callable, Orphans
  <2>6. known' \in [Followers -> Nat]
    BY <1>25, <2>1 DEF HeartbeatArrives
  <2> QED
    BY <1>25, <2>3, <2>4, <2>5, <2>6 DEF HeartbeatArrives
<1>26. CASE StopControlPlane
  BY <1>26 DEF StopControlPlane, Retire, MarkExited
<1>27. CASE ExitControlPlane
  BY <1>27 DEF ExitControlPlane
<1>28. CASE StartControlPlane
  <2> DEFINE n == [NewRecovery(Self, LocalRows) EXCEPT !.todo = LocalRows]
  <2>1. n \in Recovery /\ n.prior = NoSession
    BY NewSweepType DEF LocalRows
  <2>2. recoveries' = {n}
    BY <1>28 DEF StartControlPlane
  <2> HIDE DEF n
  <2>3. recoveries' \subseteq Recovery /\ SweepWaits'
    BY <2>1, <2>2
  <2> QED
    BY <1>28, <2>3 DEF StartControlPlane
<1>29. ASSUME NEW v \in recoveries, NEW p \in Sessions, NEW s \in Sessions, ResumeNext(v, p, s)
      PROVE  TypeInv'
  <2> DEFINE w == [v EXCEPT !.todo = @ \ {p}, !.prior = p, !.via = s]
  <2>1. v \in Recovery /\ (v.prior # NoSession => v.via \in Sessions)
    OBVIOUS
  <2>2. w \in Recovery
    BY <2>1, SweepTakesRow
  <2>3. w.via = s /\ v.on \in Hosts
    BY <2>1 DEF Recovery
  <2>4. Replace(v, w)
    BY <1>29 DEF ResumeNext
  <2> HIDE DEF w
  <2>5. recoveries' \subseteq Recovery /\ SweepWaits'
    BY <2>1, <2>2, <2>3, <2>4, ReplaceSweep
  <2> QED
    BY <1>29, <2>3, <2>5 DEF ResumeNext, InsertRow
<1>30. ASSUME NEW v \in recoveries, NEW p \in Sessions, ResumeRefused(v, p) PROVE TypeInv'
  <2> DEFINE w == [v EXCEPT !.todo = @ \ {p}]
  <2>1. v \in Recovery /\ (v.prior # NoSession => v.via \in Sessions)
    OBVIOUS
  <2>2. w \in Recovery
    BY <2>1, SweepTakesRow
  <2>3. w.via = v.via /\ w.prior = v.prior
    BY <2>1 DEF Recovery
  <2>4. Replace(v, w)
    BY <1>30 DEF ResumeRefused
  <2> HIDE DEF w
  <2>5. recoveries' \subseteq Recovery /\ SweepWaits'
    BY <2>1, <2>2, <2>3, <2>4, ReplaceSweep
  <2> QED
    BY <1>30, <2>1, <2>5 DEF ResumeRefused
<1>31. ASSUME NEW v \in recoveries, ResumeSettled(v) PROVE TypeInv'
  <2> DEFINE w1 == [v EXCEPT !.prior = NoSession, !.via = NoSession,
                             !.resumed = @ \union {<<v.prior, v.via>>}]
             w2 == [v EXCEPT !.prior = NoSession, !.via = NoSession]
  <2>1. v \in Recovery /\ v.prior # NoSession /\ v.via \in Sessions
    BY <1>31 DEF ResumeSettled
  <2>2. w1 \in Recovery /\ w2 \in Recovery
    BY <2>1, SweepSettlesRow
  <2>3. w1.prior = NoSession /\ w2.prior = NoSession
    BY <2>1 DEF Recovery
  <2>4. Replace(v, w1) \/ Replace(v, w2)
    BY <1>31 DEF ResumeSettled
  <2> HIDE DEF w1, w2
  <2>5. recoveries' \subseteq Recovery /\ SweepWaits'
    BY <2>2, <2>3, <2>4, ReplaceSweep
  <2>6. /\ status' \in [Sessions -> {"fresh", "active", "exited", "deleted"}]
        /\ placement' \in [Sessions -> {"placing", "placed", "failed"}]
        /\ host' \in [Sessions -> Hosts \union {NoHost}]
    BY <1>31, <2>1 DEF ResumeSettled, DeleteRow
  <2> QED
    BY <1>31, <2>1, <2>5, <2>6 DEF ResumeSettled
<1>32. ASSUME NEW v \in recoveries, FinishRecovery(v) PROVE TypeInv'
  <2>1. panes' \subseteq Sessions
    BY <1>32, RemappedType DEF FinishRecovery
  <2>2. reported' \subseteq Sessions
    BY <1>32 DEF FinishRecovery, Recovery
  <2> QED
    BY <1>32, <2>1, <2>2 DEF FinishRecovery
<1>33. ASSUME NEW v \in recoveries, NEW p \in Sessions, EndStale(v, p) PROVE TypeInv'
  <2> DEFINE w == [v EXCEPT !.todo = @ \ {p}]
  <2>1. v \in Recovery /\ (v.prior # NoSession => v.via \in Sessions)
    OBVIOUS
  <2>2. w \in Recovery
    BY <2>1, SweepTakesRow
  <2>3. w.via = v.via /\ w.prior = v.prior
    BY <2>1 DEF Recovery
  <2>4. Replace(v, w)
    BY <1>33 DEF EndStale
  <2> HIDE DEF w
  <2>5. recoveries' \subseteq Recovery /\ SweepWaits'
    BY <2>1, <2>2, <2>3, <2>4, ReplaceSweep
  <2> QED
    BY <1>33, <2>1, <2>5 DEF EndStale, MarkExited
<1>34. ASSUME NEW v \in recoveries, NEW p \in Sessions, NEW s \in Sessions, RelaunchStale(v, p, s)
      PROVE  TypeInv'
  <2> DEFINE w == [v EXCEPT !.todo = @ \ {p}, !.resumed = @ \union {<<p, s>>}]
  <2>1. v \in Recovery /\ (v.prior # NoSession => v.via \in Sessions)
    OBVIOUS
  <2>2. w \in Recovery
    BY <2>1, SweepTakesRow
  <2>3. w.via = v.via /\ w.prior = v.prior
    BY <2>1 DEF Recovery
  <2>4. Replace(v, w)
    BY <1>34 DEF RelaunchStale
  <2> HIDE DEF w
  <2>5. recoveries' \subseteq Recovery /\ SweepWaits'
    BY <2>1, <2>2, <2>3, <2>4, ReplaceSweep
  <2> QED
    BY <1>34, <2>1, <2>5 DEF RelaunchStale
<1>35. ASSUME NEW v \in recoveries, FinishBoot(v) PROVE TypeInv'
  BY <1>35, RemappedType DEF FinishBoot
<1>37. ASSUME NEW s \in Sessions, StreamShowsExit(s) PROVE TypeInv'
  BY <1>37 DEF StreamShowsExit, MarkExited
<1>36. CASE UNCHANGED vars
  BY <1>36 DEF vars
<1> QED
  BY <1>1, <1>2, <1>3, <1>4, <1>5, <1>6, <1>7, <1>8, <1>9, <1>10, <1>11, <1>12, <1>13,
     <1>14, <1>15, <1>16, <1>17, <1>18, <1>19, <1>20, <1>21, <1>22, <1>23, <1>24, <1>25,
     <1>26, <1>27, <1>28, <1>29, <1>30, <1>31, <1>32, <1>33, <1>34, <1>35, <1>36, <1>37
     DEF Next, Placing, User, Hosting, Recovering

\* The initial state is typed.
LEMMA TypeInvInit == Init => TypeInv
BY SelfIsNoFollower, NoHostIsNoHost, BoundsAreNaturals
   DEF Init, TypeInv, SweepWaits, TypeOK, Sessions, Execs, Hosts, NoSession

\* Type correctness: the rows, the handlers' memory, the hosts' PTYs and the
\* messages of every reachable state have the values their declarations say,
\* and a sweep that awaits a resume names the row inserted for it.
THEOREM TypeCorrectness == Spec => []TypeOK
<1>1. TypeInv /\ [Next]_vars => TypeInv'
  BY TypeInvStep
<1>2. TypeInv => TypeOK
  BY DEF TypeInv
<1> QED
  BY TypeInvInit, <1>1, <1>2, PTL DEF Spec

(***************************************************************************)
(*                    SAFETY AND THE ACTION PROPERTIES                     *)
(***************************************************************************)
-----------------------------------------------------------------------------
(* Facts about the data. *)

\* The PTYs of other control planes are not sessions of this one.
LEMMA ForeignNotOurs == \A e \in Foreign : e \notin Sessions
BY ForeignAreNotOurs DEF Sessions

\* What an update of a sweep leaves of its lost rows and of its rows to do.
LEMMA SweepFields ==
  ASSUME NEW v \in Recovery, NEW p, NEW s, NEW r
  PROVE  /\ [v EXCEPT !.todo = @ \ {p}].died = v.died
         /\ [v EXCEPT !.todo = @ \ {p}].todo = v.todo \ {p}
         /\ [v EXCEPT !.todo = @ \ {p}, !.resumed = @ \union r].died = v.died
         /\ [v EXCEPT !.todo = @ \ {p}, !.resumed = @ \union r].todo = v.todo \ {p}
         /\ [v EXCEPT !.todo = @ \ {p}, !.prior = p, !.via = s].died = v.died
         /\ [v EXCEPT !.todo = @ \ {p}, !.prior = p, !.via = s].todo = v.todo \ {p}
         /\ [v EXCEPT !.prior = NoSession, !.via = NoSession].died = v.died
         /\ [v EXCEPT !.prior = NoSession, !.via = NoSession].todo = v.todo
         /\ [v EXCEPT !.prior = NoSession, !.via = NoSession,
                      !.resumed = @ \union r].died = v.died
         /\ [v EXCEPT !.prior = NoSession, !.via = NoSession,
                      !.resumed = @ \union r].todo = v.todo
BY DEF Recovery

\* The last heartbeat of a daemon that stops shows every PTY as exited.
LEMMA LastBeatField ==
  ASSUME NEW h \in Followers
  PROVE  LET m == [Snapshot(h) EXCEPT !.active = {}, !.senior = {},
                     !.exited = PtysOn(h, "active") \union PtysOn(h, "exited")]
         IN  /\ m.from = h /\ m.active = {} /\ m.senior = {}
             /\ m.exited = PtysOn(h, "active") \union PtysOn(h, "exited")
BY DEF Snapshot

-----------------------------------------------------------------------------
(* Launching, and the kills that follow from it. *)

\* Every step keeps the order choose, call, record, and what it says of the
\* PTYs a heartbeat may have killed.
LEMMA LaunchInvStep ==
  ASSUME TypeInv, TypeInv', LaunchInv, [Next]_vars
  PROVE  LaunchInv'
<1> USE SelfIsNoFollower, NoHostIsNoHost, ForeignNotOurs DEF TypeInv, SweepWaits, TypeOK,
        LaunchInv, FreshIsUntouched, ChoosingComesFirst, LaunchingIsPlacing,
        PlacingIsAwaited, PlacingIsStale, PlacingHasNoHost, FailedHasEnded,
        SeniorIsSettled, CalledIsElsewhere, RunningWasLaunched, KillsAreCalls,
        KillsOnlyUnwanted, Serving, Running, Alive, Execs, rowVars, dbVars, cpVars,
        hostVars, netVars, bounds
<1>1. ASSUME NEW s \in Sessions, Spawn(s) PROVE LaunchInv'
  BY <1>1 DEF Spawn, InsertRow, NextId
<1>2. ASSUME NEW s \in Sessions, NEW prior \in Sessions, ResumeByHand(s, prior)
      PROVE  LaunchInv'
  BY <1>2 DEF ResumeByHand, InsertRow, NextId
<1>3. ASSUME NEW s \in Sessions, PlacedTooLate(s) PROVE LaunchInv'
  BY <1>3 DEF PlacedTooLate, Return
<1>4. ASSUME NEW s \in Sessions, LaunchHere(s) PROVE LaunchInv'
  BY <1>4 DEF LaunchHere, Return
<1>5. ASSUME NEW s \in Sessions, NEW h \in Followers, CallHost(s, h) PROVE LaunchInv'
  BY <1>5 DEF CallHost, Candidates
<1>6. ASSUME NEW s \in Sessions, LaunchFails(s) PROVE LaunchInv'
  BY <1>6 DEF LaunchFails, MarkFailed, Return
<1>7. ASSUME NEW s \in Sessions, LaunchReply(s) PROVE LaunchInv'
  <2>1. CASE Recordable(s)
    <3>1. RunningWasLaunched'
      BY <1>7, <2>1 DEF LaunchReply, Recordable, RecordPlaced
    <3> QED
      BY <1>7, <2>1, <3>1 DEF LaunchReply, Recordable, RecordPlaced, Return
  <2>2. CASE ~Recordable(s)
    BY <1>7, <2>2 DEF LaunchReply, Recordable, Return, Callable
  <2> QED
    BY <2>1, <2>2
<1>8. ASSUME NEW s \in Sessions, AnswerSpawn(s) PROVE LaunchInv'
  BY <1>8 DEF AnswerSpawn, DeleteRow
<1>9. ASSUME NEW s \in Sessions, AnswerStillPlacing(s) PROVE LaunchInv'
  BY <1>9 DEF AnswerStillPlacing
<1>10. ASSUME NEW s \in Sessions, Kill(s) PROVE LaunchInv'
  BY <1>10 DEF Kill, MarkExited, KillPty, Retire, Callable
<1>11. ASSUME NEW s \in Sessions, Delete(s) PROVE LaunchInv'
  BY <1>11 DEF Delete, DeleteRow, KillPty, Retire, Callable
<1>12. ASSUME NEW s \in Sessions, ShowInPane(s) PROVE LaunchInv'
  BY <1>12 DEF ShowInPane
<1>13. ASSUME NEW s \in Sessions, ServeLaunch(s) PROVE LaunchInv'
  BY <1>13 DEF ServeLaunch
<1>14. ASSUME NEW e \in Execs, ServeKill(e) PROVE LaunchInv'
  BY <1>14 DEF ServeKill, Retire
<1>15. ASSUME NEW e \in Foreign, NEW h \in Followers, ForeignLaunch(e, h) PROVE LaunchInv'
  BY <1>15 DEF ForeignLaunch
<1>16. ASSUME NEW e \in Execs, PtyExits(e) PROVE LaunchInv'
  BY <1>16 DEF PtyExits, Retire, MarkExited
<1>17. ASSUME NEW e \in Execs, ForgetPty(e) PROVE LaunchInv'
  BY <1>17 DEF ForgetPty
<1>18. ASSUME NEW h \in Followers, SendBeat(h) PROVE LaunchInv'
  BY <1>18 DEF SendBeat, Snapshot, PtysOn
<1>19. ASSUME NEW m \in beats, LoseBeat(m) PROVE LaunchInv'
  BY <1>19 DEF LoseBeat
<1>20. ASSUME NEW h \in Followers, StartDaemon(h) PROVE LaunchInv'
  BY <1>20 DEF StartDaemon
<1>21. ASSUME NEW h \in Followers, StopDaemon(h) PROVE LaunchInv'
  <2>1. \A m \in beats' : m \in beats \/ m.senior = {}
    <3> DEFINE n == [Snapshot(h) EXCEPT !.active = {}, !.senior = {},
                          !.exited = PtysOn(h, "active") \union PtysOn(h, "exited")]
    <3>1. n.senior = {}
      BY LastBeatField
    <3> HIDE DEF n
    <3>2. beats' = beats \union {n}
      BY <1>21 DEF StopDaemon, n
    <3> QED BY <3>1, <3>2
  <2>2. SeniorIsSettled'
    BY <1>21, <2>1 DEF StopDaemon, Retire
  <2> QED
    BY <1>21, <2>2 DEF StopDaemon, Retire
<1>22. ASSUME NEW h \in Followers, ExitDaemon(h) PROVE LaunchInv'
  BY <1>22 DEF ExitDaemon
<1>23. ASSUME NEW e \in Execs, PtyAges(e) PROVE LaunchInv'
  BY <1>23 DEF PtyAges
<1>24. ASSUME NEW s \in Sessions, RowAges(s) PROVE LaunchInv'
  BY <1>24 DEF RowAges
<1>25. ASSUME NEW m \in beats, HeartbeatArrives(m) PROVE LaunchInv'
  BY <1>25 DEF HeartbeatArrives, MarkExited, Callable, Orphans
<1>26. CASE StopControlPlane
  BY <1>26 DEF StopControlPlane, Retire, MarkExited, PtysOn, LocalRows
<1>27. CASE ExitControlPlane
  BY <1>27 DEF ExitControlPlane
<1>28. CASE StartControlPlane
  BY <1>28 DEF StartControlPlane, LocalRows, SessionHost
<1>29. ASSUME NEW v \in recoveries, NEW p \in Sessions, NEW s \in Sessions, ResumeNext(v, p, s)
      PROVE  LaunchInv'
  BY <1>29 DEF ResumeNext, InsertRow, Replace, NextId
<1>30. ASSUME NEW v \in recoveries, NEW p \in Sessions, ResumeRefused(v, p) PROVE LaunchInv'
  BY <1>30 DEF ResumeRefused, Replace
<1>31. ASSUME NEW v \in recoveries, ResumeSettled(v) PROVE LaunchInv'
  BY <1>31 DEF ResumeSettled, Replace, DeleteRow
<1>32. ASSUME NEW v \in recoveries, FinishRecovery(v) PROVE LaunchInv'
  BY <1>32 DEF FinishRecovery, Replace
<1>33. ASSUME NEW v \in recoveries, NEW p \in Sessions, EndStale(v, p) PROVE LaunchInv'
  <2>1. \A x \in recoveries' : x \in recoveries \/ x.todo = v.todo \ {p}
    <3> DEFINE w == [v EXCEPT !.todo = @ \ {p}]
    <3>1. w.todo = v.todo \ {p}
      BY SweepFields
    <3> HIDE DEF w
    <3>2. recoveries' = (recoveries \ {v}) \union {w}
      BY <1>33 DEF EndStale, Replace, w
    <3> QED BY <3>1, <3>2
  <2>2. PlacingIsStale'
    BY <1>33, <2>1 DEF EndStale, MarkExited
  <2> QED
    BY <1>33, <2>2 DEF EndStale, MarkExited
<1>34. ASSUME NEW v \in recoveries, NEW p \in Sessions, NEW s \in Sessions, RelaunchStale(v, p, s)
      PROVE  LaunchInv'
  <2>1. \A x \in recoveries' : x \in recoveries \/ x.todo = v.todo \ {p}
    <3> DEFINE w == [v EXCEPT !.todo = @ \ {p}, !.resumed = @ \union {<<p, s>>}]
    <3>1. w.todo = v.todo \ {p}
      BY SweepFields
    <3> HIDE DEF w
    <3>2. recoveries' = (recoveries \ {v}) \union {w}
      BY <1>34 DEF RelaunchStale, Replace, w
    <3> QED BY <3>1, <3>2
  <2>2. PlacingIsStale'
    BY <1>34, <2>1 DEF RelaunchStale, NextId
  <2> QED
    BY <1>34, <2>2 DEF RelaunchStale, NextId
<1>35. ASSUME NEW v \in recoveries, FinishBoot(v) PROVE LaunchInv'
  BY <1>35 DEF FinishBoot
<1>37. ASSUME NEW s \in Sessions, StreamShowsExit(s) PROVE LaunchInv'
  BY <1>37 DEF StreamShowsExit, MarkExited
<1>36. CASE UNCHANGED vars
  BY <1>36 DEF vars
<1> QED
  BY <1>1, <1>2, <1>3, <1>4, <1>5, <1>6, <1>7, <1>8, <1>9, <1>10, <1>11, <1>12, <1>13,
     <1>14, <1>15, <1>16, <1>17, <1>18, <1>19, <1>20, <1>21, <1>22, <1>23, <1>24, <1>25,
     <1>26, <1>27, <1>28, <1>29, <1>30, <1>31, <1>32, <1>33, <1>34, <1>35, <1>36, <1>37
     DEF Next, Placing, User, Hosting, Recovering

-----------------------------------------------------------------------------
(* Rows and PTYs only move on. *)

RowsAdvance ==
  \A s \in Sessions :
    /\ status[s] # "fresh" => status'[s] # "fresh"
    /\ status[s] \in {"exited", "deleted"} =>
         /\ status'[s] \in {"exited", "deleted"}
         /\ placement'[s] = "placed" => placement[s] = "placed"

PtysAdvance ==
  \A e \in Execs : pty[e] \in {"exited", "gone"} => pty'[e] \in {"exited", "gone"}

\* No handler revives a row that ended, or places one.
LEMMA RowsMoveOn ==
  ASSUME TypeInv, LaunchInv, [Next]_vars
  PROVE  RowsAdvance
<1> USE DEF TypeInv, TypeOK, LaunchInv, FreshIsUntouched, RowsAdvance, rowVars, dbVars,
        cpVars, hostVars, netVars, bounds
<1>1. ASSUME NEW s \in Sessions, Spawn(s) PROVE RowsAdvance
  BY <1>1 DEF Spawn, InsertRow, NextId
<1>2. ASSUME NEW s \in Sessions, NEW prior \in Sessions, ResumeByHand(s, prior)
      PROVE  RowsAdvance
  BY <1>2 DEF ResumeByHand, InsertRow, NextId
<1>3. ASSUME NEW s \in Sessions, PlacedTooLate(s) PROVE RowsAdvance
  BY <1>3 DEF PlacedTooLate, Return
<1>4. ASSUME NEW s \in Sessions, LaunchHere(s) PROVE RowsAdvance
  BY <1>4 DEF LaunchHere, Return
<1>5. ASSUME NEW s \in Sessions, NEW h \in Followers, CallHost(s, h) PROVE RowsAdvance
  BY <1>5 DEF CallHost, Candidates
<1>6. ASSUME NEW s \in Sessions, LaunchFails(s) PROVE RowsAdvance
  BY <1>6 DEF LaunchFails, MarkFailed, Return
<1>7. ASSUME NEW s \in Sessions, LaunchReply(s) PROVE RowsAdvance
  BY <1>7 DEF LaunchReply, Recordable, RecordPlaced, Return, Callable
<1>8. ASSUME NEW s \in Sessions, AnswerSpawn(s) PROVE RowsAdvance
  BY <1>8 DEF AnswerSpawn, DeleteRow
<1>9. ASSUME NEW s \in Sessions, AnswerStillPlacing(s) PROVE RowsAdvance
  BY <1>9 DEF AnswerStillPlacing
<1>10. ASSUME NEW s \in Sessions, Kill(s) PROVE RowsAdvance
  BY <1>10 DEF Kill, MarkExited, KillPty, Retire, Callable
<1>11. ASSUME NEW s \in Sessions, Delete(s) PROVE RowsAdvance
  BY <1>11 DEF Delete, DeleteRow, KillPty, Retire, Callable
<1>12. ASSUME NEW s \in Sessions, ShowInPane(s) PROVE RowsAdvance
  BY <1>12 DEF ShowInPane
<1>13. ASSUME NEW s \in Sessions, ServeLaunch(s) PROVE RowsAdvance
  BY <1>13 DEF ServeLaunch
<1>14. ASSUME NEW e \in Execs, ServeKill(e) PROVE RowsAdvance
  BY <1>14 DEF ServeKill, Retire
<1>15. ASSUME NEW e \in Foreign, NEW h \in Followers, ForeignLaunch(e, h) PROVE RowsAdvance
  BY <1>15 DEF ForeignLaunch
<1>16. ASSUME NEW e \in Execs, PtyExits(e) PROVE RowsAdvance
  BY <1>16 DEF PtyExits, Retire, MarkExited
<1>17. ASSUME NEW e \in Execs, ForgetPty(e) PROVE RowsAdvance
  BY <1>17 DEF ForgetPty
<1>18. ASSUME NEW h \in Followers, SendBeat(h) PROVE RowsAdvance
  BY <1>18 DEF SendBeat, Snapshot, PtysOn
<1>19. ASSUME NEW m \in beats, LoseBeat(m) PROVE RowsAdvance
  BY <1>19 DEF LoseBeat
<1>20. ASSUME NEW h \in Followers, StartDaemon(h) PROVE RowsAdvance
  BY <1>20 DEF StartDaemon
<1>21. ASSUME NEW h \in Followers, StopDaemon(h) PROVE RowsAdvance
  BY <1>21 DEF StopDaemon, Retire, Snapshot, PtysOn
<1>22. ASSUME NEW h \in Followers, ExitDaemon(h) PROVE RowsAdvance
  BY <1>22 DEF ExitDaemon
<1>23. ASSUME NEW e \in Execs, PtyAges(e) PROVE RowsAdvance
  BY <1>23 DEF PtyAges
<1>24. ASSUME NEW s \in Sessions, RowAges(s) PROVE RowsAdvance
  BY <1>24 DEF RowAges
<1>25. ASSUME NEW m \in beats, HeartbeatArrives(m) PROVE RowsAdvance
  BY <1>25 DEF HeartbeatArrives, MarkExited, Callable, Orphans
<1>26. CASE StopControlPlane
  BY <1>26 DEF StopControlPlane, Retire, MarkExited, PtysOn, LocalRows
<1>27. CASE ExitControlPlane
  BY <1>27 DEF ExitControlPlane
<1>28. CASE StartControlPlane
  BY <1>28 DEF StartControlPlane, LocalRows, SessionHost
<1>29. ASSUME NEW v \in recoveries, NEW p \in Sessions, NEW s \in Sessions, ResumeNext(v, p, s)
      PROVE  RowsAdvance
  BY <1>29 DEF ResumeNext, InsertRow, Replace, NextId
<1>30. ASSUME NEW v \in recoveries, NEW p \in Sessions, ResumeRefused(v, p)
      PROVE  RowsAdvance
  BY <1>30 DEF ResumeRefused, Replace
<1>31. ASSUME NEW v \in recoveries, ResumeSettled(v) PROVE RowsAdvance
  BY <1>31 DEF ResumeSettled, Replace, DeleteRow
<1>32. ASSUME NEW v \in recoveries, FinishRecovery(v) PROVE RowsAdvance
  BY <1>32 DEF FinishRecovery, Replace
<1>33. ASSUME NEW v \in recoveries, NEW p \in Sessions, EndStale(v, p) PROVE RowsAdvance
  BY <1>33 DEF EndStale, Replace, MarkExited
<1>34. ASSUME NEW v \in recoveries, NEW p \in Sessions, NEW s \in Sessions, RelaunchStale(v, p, s)
      PROVE  RowsAdvance
  BY <1>34 DEF RelaunchStale, Replace, NextId
<1>35. ASSUME NEW v \in recoveries, FinishBoot(v) PROVE RowsAdvance
  BY <1>35 DEF FinishBoot
<1>37. ASSUME NEW s \in Sessions, StreamShowsExit(s) PROVE RowsAdvance
  BY <1>37 DEF StreamShowsExit, MarkExited
<1>36. CASE UNCHANGED vars
  BY <1>36 DEF vars
<1> QED
  BY <1>1, <1>2, <1>3, <1>4, <1>5, <1>6, <1>7, <1>8, <1>9, <1>10, <1>11, <1>12, <1>13,
     <1>14, <1>15, <1>16, <1>17, <1>18, <1>19, <1>20, <1>21, <1>22, <1>23, <1>24, <1>25,
     <1>26, <1>27, <1>28, <1>29, <1>30, <1>31, <1>32, <1>33, <1>34, <1>35, <1>36, <1>37
     DEF Next, Placing, User, Hosting, Recovering

\* No launch call revives a PTY.
LEMMA PtysMoveOn ==
  ASSUME TypeInv, LaunchInv, [Next]_vars
  PROVE  PtysAdvance
<1> USE DEF TypeInv, TypeOK, LaunchInv, FreshIsUntouched, ChoosingComesFirst,
        CalledIsElsewhere, PtysAdvance, Execs, rowVars, dbVars, cpVars, hostVars, netVars,
        bounds
<1>1. ASSUME NEW s \in Sessions, Spawn(s) PROVE PtysAdvance
  BY <1>1 DEF Spawn, InsertRow, NextId
<1>2. ASSUME NEW s \in Sessions, NEW prior \in Sessions, ResumeByHand(s, prior)
      PROVE  PtysAdvance
  BY <1>2 DEF ResumeByHand, InsertRow, NextId
<1>3. ASSUME NEW s \in Sessions, PlacedTooLate(s) PROVE PtysAdvance
  BY <1>3 DEF PlacedTooLate, Return
<1>4. ASSUME NEW s \in Sessions, LaunchHere(s) PROVE PtysAdvance
  BY <1>4 DEF LaunchHere, Return
<1>5. ASSUME NEW s \in Sessions, NEW h \in Followers, CallHost(s, h) PROVE PtysAdvance
  BY <1>5 DEF CallHost, Candidates
<1>6. ASSUME NEW s \in Sessions, LaunchFails(s) PROVE PtysAdvance
  BY <1>6 DEF LaunchFails, MarkFailed, Return
<1>7. ASSUME NEW s \in Sessions, LaunchReply(s) PROVE PtysAdvance
  BY <1>7 DEF LaunchReply, Recordable, RecordPlaced, Return, Callable
<1>8. ASSUME NEW s \in Sessions, AnswerSpawn(s) PROVE PtysAdvance
  BY <1>8 DEF AnswerSpawn, DeleteRow
<1>9. ASSUME NEW s \in Sessions, AnswerStillPlacing(s) PROVE PtysAdvance
  BY <1>9 DEF AnswerStillPlacing
<1>10. ASSUME NEW s \in Sessions, Kill(s) PROVE PtysAdvance
  BY <1>10 DEF Kill, MarkExited, KillPty, Retire, Callable
<1>11. ASSUME NEW s \in Sessions, Delete(s) PROVE PtysAdvance
  BY <1>11 DEF Delete, DeleteRow, KillPty, Retire, Callable
<1>12. ASSUME NEW s \in Sessions, ShowInPane(s) PROVE PtysAdvance
  BY <1>12 DEF ShowInPane
<1>13. ASSUME NEW s \in Sessions, ServeLaunch(s) PROVE PtysAdvance
  BY <1>13 DEF ServeLaunch
<1>14. ASSUME NEW e \in Execs, ServeKill(e) PROVE PtysAdvance
  BY <1>14 DEF ServeKill, Retire
<1>15. ASSUME NEW e \in Foreign, NEW h \in Followers, ForeignLaunch(e, h) PROVE PtysAdvance
  BY <1>15 DEF ForeignLaunch
<1>16. ASSUME NEW e \in Execs, PtyExits(e) PROVE PtysAdvance
  BY <1>16 DEF PtyExits, Retire, MarkExited
<1>17. ASSUME NEW e \in Execs, ForgetPty(e) PROVE PtysAdvance
  BY <1>17 DEF ForgetPty
<1>18. ASSUME NEW h \in Followers, SendBeat(h) PROVE PtysAdvance
  BY <1>18 DEF SendBeat, Snapshot, PtysOn
<1>19. ASSUME NEW m \in beats, LoseBeat(m) PROVE PtysAdvance
  BY <1>19 DEF LoseBeat
<1>20. ASSUME NEW h \in Followers, StartDaemon(h) PROVE PtysAdvance
  BY <1>20 DEF StartDaemon
<1>21. ASSUME NEW h \in Followers, StopDaemon(h) PROVE PtysAdvance
  BY <1>21 DEF StopDaemon, Retire, Snapshot, PtysOn
<1>22. ASSUME NEW h \in Followers, ExitDaemon(h) PROVE PtysAdvance
  BY <1>22 DEF ExitDaemon
<1>23. ASSUME NEW e \in Execs, PtyAges(e) PROVE PtysAdvance
  BY <1>23 DEF PtyAges
<1>24. ASSUME NEW s \in Sessions, RowAges(s) PROVE PtysAdvance
  BY <1>24 DEF RowAges
<1>25. ASSUME NEW m \in beats, HeartbeatArrives(m) PROVE PtysAdvance
  BY <1>25 DEF HeartbeatArrives, MarkExited, Callable, Orphans
<1>26. CASE StopControlPlane
  BY <1>26 DEF StopControlPlane, Retire, MarkExited, PtysOn, LocalRows
<1>27. CASE ExitControlPlane
  BY <1>27 DEF ExitControlPlane
<1>28. CASE StartControlPlane
  BY <1>28 DEF StartControlPlane, LocalRows, SessionHost
<1>29. ASSUME NEW v \in recoveries, NEW p \in Sessions, NEW s \in Sessions, ResumeNext(v, p, s)
      PROVE  PtysAdvance
  BY <1>29 DEF ResumeNext, InsertRow, Replace, NextId
<1>30. ASSUME NEW v \in recoveries, NEW p \in Sessions, ResumeRefused(v, p)
      PROVE  PtysAdvance
  BY <1>30 DEF ResumeRefused, Replace
<1>31. ASSUME NEW v \in recoveries, ResumeSettled(v) PROVE PtysAdvance
  BY <1>31 DEF ResumeSettled, Replace, DeleteRow
<1>32. ASSUME NEW v \in recoveries, FinishRecovery(v) PROVE PtysAdvance
  BY <1>32 DEF FinishRecovery, Replace
<1>33. ASSUME NEW v \in recoveries, NEW p \in Sessions, EndStale(v, p) PROVE PtysAdvance
  BY <1>33 DEF EndStale, Replace, MarkExited
<1>34. ASSUME NEW v \in recoveries, NEW p \in Sessions, NEW s \in Sessions, RelaunchStale(v, p, s)
      PROVE  PtysAdvance
  BY <1>34 DEF RelaunchStale, Replace, NextId
<1>35. ASSUME NEW v \in recoveries, FinishBoot(v) PROVE PtysAdvance
  BY <1>35 DEF FinishBoot
<1>37. ASSUME NEW s \in Sessions, StreamShowsExit(s) PROVE PtysAdvance
  BY <1>37 DEF StreamShowsExit, MarkExited
<1>36. CASE UNCHANGED vars
  BY <1>36 DEF vars
<1> QED
  BY <1>1, <1>2, <1>3, <1>4, <1>5, <1>6, <1>7, <1>8, <1>9, <1>10, <1>11, <1>12, <1>13,
     <1>14, <1>15, <1>16, <1>17, <1>18, <1>19, <1>20, <1>21, <1>22, <1>23, <1>24, <1>25,
     <1>26, <1>27, <1>28, <1>29, <1>30, <1>31, <1>32, <1>33, <1>34, <1>35, <1>36, <1>37
     DEF Next, Placing, User, Hosting, Recovering

-----------------------------------------------------------------------------
(* Sweeps over lost rows. *)

\* A step that starts no sweep, changes none and opens no server.
LEMMA SweepsStay ==
  ASSUME TypeInv, SweepInv, RowsAdvance, recoveries' \subseteq recoveries, Serving' => Serving,
         cp' = "booting" => cp = "booting" /\ UNCHANGED host
  PROVE  SweepInv'
BY DEF TypeInv, TypeOK, Recovery, SweepInv, StaleIsLocal, LostHasEnded, LostOnce, RowsAdvance

\* A step that changes one sweep: its rows that are no longer to do have ended.
LEMMA SweepReplaced ==
  ASSUME TypeInv, SweepInv, RowsAdvance, UNCHANGED cp,
         NEW v \in recoveries, NEW w, Replace(v, w), w.died = v.died, w.todo \subseteq v.todo,
         Serving \/ \A s \in v.todo \ w.todo : status'[s] \in {"exited", "deleted"},
         cp = "booting" => \A s \in Sessions : status[s] # "fresh" => host'[s] = host[s]
  PROVE  SweepInv'
<1> USE DEF TypeInv, TypeOK, Recovery, SweepInv, StaleIsLocal, LostHasEnded, LostOnce, RowsAdvance
<1>1. \A x \in recoveries' : (x \in recoveries /\ x # v) \/ x = w
  BY DEF Replace
<1>2. StaleIsLocal'
  BY <1>1
<1>3. LostHasEnded'
  BY <1>1 DEF Serving
<1>4. \A x \in recoveries' : \A s \in x.died \ x.todo : status'[s] \in {"exited", "deleted"}
  BY <1>1
<1>5. \A x \in recoveries', y \in recoveries' : x # y => x.died \cap y.died = {}
  BY <1>1
<1> QED
  BY <1>2, <1>3, <1>4, <1>5

\* Sweeps stay apart, and get only rows that have ended.
LEMMA SweepInvStep ==
  ASSUME TypeInv, TypeInv', LaunchInv, SweepInv, RowsAdvance, [Next]_vars
  PROVE  SweepInv'
<1> USE NoHostIsNoHost DEF TypeInv, TypeOK, Serving, rowVars, dbVars, cpVars, hostVars,
        netVars, bounds
<1>1. ASSUME NEW s \in Sessions, Spawn(s) PROVE SweepInv'
  BY <1>1, SweepsStay DEF Spawn
<1>2. ASSUME NEW s \in Sessions, NEW prior \in Sessions, ResumeByHand(s, prior)
      PROVE  SweepInv'
  BY <1>2, SweepsStay DEF ResumeByHand
<1>3. ASSUME NEW s \in Sessions, PlacedTooLate(s) PROVE SweepInv'
  BY <1>3, SweepsStay DEF PlacedTooLate
<1>4. ASSUME NEW s \in Sessions, LaunchHere(s) PROVE SweepInv'
  BY <1>4, SweepsStay DEF LaunchHere
<1>5. ASSUME NEW s \in Sessions, NEW h \in Followers, CallHost(s, h) PROVE SweepInv'
  BY <1>5, SweepsStay DEF CallHost
<1>6. ASSUME NEW s \in Sessions, LaunchFails(s) PROVE SweepInv'
  BY <1>6, SweepsStay DEF LaunchFails
<1>7. ASSUME NEW s \in Sessions, LaunchReply(s) PROVE SweepInv'
  BY <1>7, SweepsStay DEF LaunchReply
<1>8. ASSUME NEW s \in Sessions, AnswerSpawn(s) PROVE SweepInv'
  BY <1>8, SweepsStay DEF AnswerSpawn
<1>9. ASSUME NEW s \in Sessions, AnswerStillPlacing(s) PROVE SweepInv'
  BY <1>9, SweepsStay DEF AnswerStillPlacing
<1>10. ASSUME NEW s \in Sessions, Kill(s) PROVE SweepInv'
  BY <1>10, SweepsStay DEF Kill
<1>11. ASSUME NEW s \in Sessions, Delete(s) PROVE SweepInv'
  BY <1>11, SweepsStay DEF Delete
<1>12. ASSUME NEW s \in Sessions, ShowInPane(s) PROVE SweepInv'
  BY <1>12, SweepsStay DEF ShowInPane
<1>13. ASSUME NEW s \in Sessions, ServeLaunch(s) PROVE SweepInv'
  BY <1>13, SweepsStay DEF ServeLaunch
<1>14. ASSUME NEW e \in Execs, ServeKill(e) PROVE SweepInv'
  BY <1>14, SweepsStay DEF ServeKill
<1>15. ASSUME NEW e \in Foreign, NEW h \in Followers, ForeignLaunch(e, h) PROVE SweepInv'
  BY <1>15, SweepsStay DEF ForeignLaunch
<1>16. ASSUME NEW e \in Execs, PtyExits(e) PROVE SweepInv'
  BY <1>16, SweepsStay DEF PtyExits
<1>17. ASSUME NEW e \in Execs, ForgetPty(e) PROVE SweepInv'
  BY <1>17, SweepsStay DEF ForgetPty
<1>18. ASSUME NEW h \in Followers, SendBeat(h) PROVE SweepInv'
  BY <1>18, SweepsStay DEF SendBeat
<1>19. ASSUME NEW m \in beats, LoseBeat(m) PROVE SweepInv'
  BY <1>19, SweepsStay DEF LoseBeat
<1>20. ASSUME NEW h \in Followers, StartDaemon(h) PROVE SweepInv'
  BY <1>20, SweepsStay DEF StartDaemon
<1>21. ASSUME NEW h \in Followers, StopDaemon(h) PROVE SweepInv'
  BY <1>21, SweepsStay DEF StopDaemon
<1>22. ASSUME NEW h \in Followers, ExitDaemon(h) PROVE SweepInv'
  BY <1>22, SweepsStay DEF ExitDaemon
<1>23. ASSUME NEW e \in Execs, PtyAges(e) PROVE SweepInv'
  BY <1>23, SweepsStay DEF PtyAges
<1>24. ASSUME NEW s \in Sessions, RowAges(s) PROVE SweepInv'
  BY <1>24, SweepsStay DEF RowAges
<1>25. ASSUME NEW m \in beats, HeartbeatArrives(m) PROVE SweepInv'
  <2> DEFINE n == NewRecovery(m.from, Died(m))
  <2>1. n.died = Died(m) /\ \A x \in recoveries' : x \in recoveries \/ x = n
    BY <1>25 DEF HeartbeatArrives, NewRecovery
  <2> HIDE DEF n
  <2>2. \A s \in Died(m) : s \in Sessions /\ status[s] = "active" /\ s \in Ended(m)
    BY DEF Died, Missing, RowsOn, Running, Ended
  <2>3. \A s \in Died(m) : status'[s] = "exited"
    BY <1>25, <2>2 DEF HeartbeatArrives, MarkExited
  <2>4. \A x \in recoveries : x.died \subseteq Sessions /\ x.died \cap Died(m) = {}
    BY <1>25, <2>2 DEF HeartbeatArrives, SweepInv, LostHasEnded, Serving, Recovery
  <2>5. \A x \in recoveries' : \A s \in x.died : status'[s] \in {"exited", "deleted"}
    BY <1>25, <2>1, <2>3, <2>4 DEF HeartbeatArrives, SweepInv, LostHasEnded, RowsAdvance
  <2>6. \A x \in recoveries', y \in recoveries' : x # y => x.died \cap y.died = {}
    BY <2>1, <2>4 DEF SweepInv, LostOnce
  <2>7. cp' # "booting"
    BY <1>25 DEF HeartbeatArrives, Serving
  <2> QED
    BY <2>5, <2>6, <2>7 DEF SweepInv, StaleIsLocal, LostHasEnded, LostOnce
<1>26. CASE StopControlPlane
  BY <1>26, SweepsStay DEF StopControlPlane
<1>27. CASE ExitControlPlane
  BY <1>27, SweepsStay DEF ExitControlPlane
<1>28. CASE StartControlPlane
  <2> DEFINE n == [NewRecovery(Self, LocalRows) EXCEPT !.todo = LocalRows]
  <2>1. n.died = LocalRows /\ n.todo = LocalRows
    BY DEF NewRecovery
  <2>2. recoveries' = {n}
    BY <1>28 DEF StartControlPlane, n
  <2> HIDE DEF n
  <2>3. \A s \in LocalRows : s \in Sessions /\ status[s] = "active" /\ host[s] \in {Self, NoHost}
    BY DEF LocalRows, SessionHost
  <2> QED
    BY <1>28, <2>1, <2>2, <2>3
       DEF StartControlPlane, SweepInv, StaleIsLocal, LostHasEnded, LostOnce, Serving
<1>29. ASSUME NEW v \in recoveries, NEW p \in Sessions, NEW s \in Sessions, ResumeNext(v, p, s)
      PROVE  SweepInv'
  <2> DEFINE w == [v EXCEPT !.todo = @ \ {p}, !.prior = p, !.via = s]
  <2>1. w.died = v.died /\ w.todo \subseteq v.todo
    BY SweepFields
  <2>2. Replace(v, w)
    BY <1>29 DEF ResumeNext
  <2> HIDE DEF w
  <2> QED
    BY <1>29, <2>1, <2>2, SweepReplaced DEF ResumeNext
<1>30. ASSUME NEW v \in recoveries, NEW p \in Sessions, ResumeRefused(v, p) PROVE SweepInv'
  <2> DEFINE w == [v EXCEPT !.todo = @ \ {p}]
  <2>1. w.died = v.died /\ w.todo \subseteq v.todo
    BY SweepFields
  <2>2. Replace(v, w)
    BY <1>30 DEF ResumeRefused
  <2> HIDE DEF w
  <2> QED
    BY <1>30, <2>1, <2>2, SweepReplaced DEF ResumeRefused
<1>31. ASSUME NEW v \in recoveries, ResumeSettled(v) PROVE SweepInv'
  <2> DEFINE w1 == [v EXCEPT !.prior = NoSession, !.via = NoSession,
                             !.resumed = @ \union {<<v.prior, v.via>>}]
             w2 == [v EXCEPT !.prior = NoSession, !.via = NoSession]
  <2>1. w1.died = v.died /\ w1.todo = v.todo /\ w2.died = v.died /\ w2.todo = v.todo
    BY SweepFields
  <2>2. Replace(v, w1) \/ Replace(v, w2)
    BY <1>31 DEF ResumeSettled
  <2> HIDE DEF w1, w2
  <2> QED
    BY <1>31, <2>1, <2>2, SweepReplaced DEF ResumeSettled
<1>32. ASSUME NEW v \in recoveries, FinishRecovery(v) PROVE SweepInv'
  BY <1>32, SweepsStay DEF FinishRecovery
<1>33. ASSUME NEW v \in recoveries, NEW p \in Sessions, EndStale(v, p) PROVE SweepInv'
  <2> DEFINE w == [v EXCEPT !.todo = @ \ {p}]
  <2>1. w.died = v.died /\ w.todo = v.todo \ {p}
    BY SweepFields
  <2>2. Replace(v, w)
    BY <1>33 DEF EndStale
  <2> HIDE DEF w
  <2>3. status'[p] \in {"exited", "deleted"}
    BY <1>33 DEF EndStale, MarkExited, SweepInv, StaleIsLocal
  <2> QED
    BY <1>33, <2>1, <2>2, <2>3, SweepReplaced DEF EndStale
<1>34. ASSUME NEW v \in recoveries, NEW p \in Sessions, NEW s \in Sessions, RelaunchStale(v, p, s)
      PROVE  SweepInv'
  <2> DEFINE w == [v EXCEPT !.todo = @ \ {p}, !.resumed = @ \union {<<p, s>>}]
  <2>1. w.died = v.died /\ w.todo = v.todo \ {p}
    BY SweepFields
  <2>2. Replace(v, w)
    BY <1>34 DEF RelaunchStale
  <2> HIDE DEF w
  <2>3. p # s
    BY <1>34 DEF RelaunchStale, NextId, SweepInv, StaleIsLocal
  <2>4. status'[p] \in {"exited", "deleted"}
    BY <1>34, <2>3 DEF RelaunchStale
  <2>5. \A t \in Sessions : status[t] # "fresh" => host'[t] = host[t]
    BY <1>34 DEF RelaunchStale, NextId
  <2> QED
    BY <1>34, <2>1, <2>2, <2>4, <2>5, SweepReplaced DEF RelaunchStale
<1>35. ASSUME NEW v \in recoveries, FinishBoot(v) PROVE SweepInv'
  BY <1>35 DEF FinishBoot, SweepInv, StaleIsLocal, LostHasEnded, LostOnce
<1>37. ASSUME NEW s \in Sessions, StreamShowsExit(s) PROVE SweepInv'
  BY <1>37, SweepsStay DEF StreamShowsExit, MarkExited
<1>36. CASE UNCHANGED vars
  BY <1>36, SweepsStay DEF vars
<1> QED
  BY <1>1, <1>2, <1>3, <1>4, <1>5, <1>6, <1>7, <1>8, <1>9, <1>10, <1>11, <1>12, <1>13,
     <1>14, <1>15, <1>16, <1>17, <1>18, <1>19, <1>20, <1>21, <1>22, <1>23, <1>24, <1>25,
     <1>26, <1>27, <1>28, <1>29, <1>30, <1>31, <1>32, <1>33, <1>34, <1>35, <1>36, <1>37
     DEF Next, Placing, User, Hosting, Recovering

-----------------------------------------------------------------------------
(* The PTYs of the control plane's own host. *)

\* Every handler that touches a PTY here touches its row, and the other way
\* round.
LEMMA LocalInvStep ==
  ASSUME TypeInv, TypeInv', LaunchInv, LaunchInv', SweepInv, LocalInv, [Next]_vars
  PROVE  LocalInv'
<1> USE SelfIsNoFollower, NoHostIsNoHost, ForeignNotOurs DEF TypeInv, TypeOK, LaunchInv,
        FreshIsUntouched, ChoosingComesFirst, LaunchingIsPlacing, PlacingIsAwaited,
        FailedHasEnded, CalledIsElsewhere, RunningWasLaunched, KillsAreCalls, LocalInv,
        LocalRowsMatchPtys, LocalRowsFollow, HereActive, HereRunning, Serving, Running,
        Execs, rowVars, dbVars, cpVars, hostVars, netVars, bounds
<1>1. ASSUME NEW s \in Sessions, Spawn(s) PROVE LocalInv'
  BY <1>1 DEF Spawn, InsertRow, NextId
<1>2. ASSUME NEW s \in Sessions, NEW prior \in Sessions, ResumeByHand(s, prior)
      PROVE  LocalInv'
  BY <1>2 DEF ResumeByHand, InsertRow, NextId
<1>3. ASSUME NEW s \in Sessions, PlacedTooLate(s) PROVE LocalInv'
  BY <1>3 DEF PlacedTooLate, Return
<1>4. ASSUME NEW s \in Sessions, LaunchHere(s) PROVE LocalInv'
  BY <1>4 DEF LaunchHere, Return
<1>5. ASSUME NEW s \in Sessions, NEW h \in Followers, CallHost(s, h) PROVE LocalInv'
  BY <1>5 DEF CallHost, Candidates
<1>6. ASSUME NEW s \in Sessions, LaunchFails(s) PROVE LocalInv'
  BY <1>6 DEF LaunchFails, MarkFailed, Return
<1>7. ASSUME NEW s \in Sessions, LaunchReply(s) PROVE LocalInv'
  BY <1>7 DEF LaunchReply, Recordable, RecordPlaced, Return, Callable
<1>8. ASSUME NEW s \in Sessions, AnswerSpawn(s) PROVE LocalInv'
  BY <1>8 DEF AnswerSpawn, DeleteRow
<1>9. ASSUME NEW s \in Sessions, AnswerStillPlacing(s) PROVE LocalInv'
  BY <1>9 DEF AnswerStillPlacing
<1>10. ASSUME NEW s \in Sessions, Kill(s) PROVE LocalInv'
  BY <1>10 DEF Kill, MarkExited, KillPty, Retire, Callable
<1>11. ASSUME NEW s \in Sessions, Delete(s) PROVE LocalInv'
  BY <1>11 DEF Delete, DeleteRow, KillPty, Retire, Callable
<1>12. ASSUME NEW s \in Sessions, ShowInPane(s) PROVE LocalInv'
  BY <1>12 DEF ShowInPane
<1>13. ASSUME NEW s \in Sessions, ServeLaunch(s) PROVE LocalInv'
  BY <1>13 DEF ServeLaunch
<1>14. ASSUME NEW e \in Execs, ServeKill(e) PROVE LocalInv'
  BY <1>14 DEF ServeKill, Retire
<1>15. ASSUME NEW e \in Foreign, NEW h \in Followers, ForeignLaunch(e, h) PROVE LocalInv'
  BY <1>15 DEF ForeignLaunch
<1>16. ASSUME NEW e \in Execs, PtyExits(e) PROVE LocalInv'
  BY <1>16 DEF PtyExits, Retire, MarkExited
<1>17. ASSUME NEW e \in Execs, ForgetPty(e) PROVE LocalInv'
  BY <1>17 DEF ForgetPty
<1>18. ASSUME NEW h \in Followers, SendBeat(h) PROVE LocalInv'
  BY <1>18 DEF SendBeat, Snapshot, PtysOn
<1>19. ASSUME NEW m \in beats, LoseBeat(m) PROVE LocalInv'
  BY <1>19 DEF LoseBeat
<1>20. ASSUME NEW h \in Followers, StartDaemon(h) PROVE LocalInv'
  BY <1>20 DEF StartDaemon
<1>21. ASSUME NEW h \in Followers, StopDaemon(h) PROVE LocalInv'
  <2>1. ASSUME NEW s \in Sessions PROVE HereActive(s)' <=> HereActive(s)
    <3>1. h # Self
      OBVIOUS
    <3>2. target[s] = Self => pty'[s] = pty[s]
      BY <1>21, <3>1 DEF StopDaemon, Retire, PtysOn
    <3>3. pty'[s] = "active" => pty[s] = "active"
      BY <1>21 DEF StopDaemon, Retire
    <3>4. UNCHANGED target
      BY <1>21 DEF StopDaemon
    <3> QED
      BY <3>2, <3>3, <3>4
  <2>2. UNCHANGED <<rowVars, recoveries, cp>>
    BY <1>21 DEF StopDaemon
  <2> QED
    BY <2>1, <2>2
<1>22. ASSUME NEW h \in Followers, ExitDaemon(h) PROVE LocalInv'
  BY <1>22 DEF ExitDaemon
<1>23. ASSUME NEW e \in Execs, PtyAges(e) PROVE LocalInv'
  BY <1>23 DEF PtyAges
<1>24. ASSUME NEW s \in Sessions, RowAges(s) PROVE LocalInv'
  BY <1>24 DEF RowAges
<1>25. ASSUME NEW m \in beats, HeartbeatArrives(m) PROVE LocalInv'
  <2>1. m.from # Self
    BY DEF Heartbeat
  <2>2. \A s \in Ended(m) : host[s] = m.from
    BY DEF Ended, Died, Missing, RowsOn
  <2>3. \A s \in Sessions : Running(s) /\ host[s] = Self => status'[s] = "active"
    BY <1>25, <2>1, <2>2 DEF HeartbeatArrives, MarkExited
  <2>4. \A s \in Sessions : status'[s] = "active" => status[s] = "active"
    BY <1>25 DEF HeartbeatArrives, MarkExited
  <2> QED
    BY <1>25, <2>3, <2>4 DEF HeartbeatArrives
<1>26. CASE StopControlPlane
  <2>1. \A s \in Sessions : ~HereActive(s)'
    BY <1>26 DEF StopControlPlane, Retire, PtysOn
  <2>2. \A s \in Sessions : host[s] = Self => status'[s] # "active"
    BY <1>26 DEF StopControlPlane, MarkExited, LocalRows, SessionHost
  <2> QED
    BY <1>26, <2>1, <2>2 DEF StopControlPlane
<1>27. CASE ExitControlPlane
  BY <1>27 DEF ExitControlPlane
<1>28. CASE StartControlPlane
  BY <1>28 DEF StartControlPlane, LocalRows, SessionHost, NewRecovery
<1>29. ASSUME NEW v \in recoveries, NEW p \in Sessions, NEW s \in Sessions, ResumeNext(v, p, s)
      PROVE  LocalInv'
  BY <1>29 DEF ResumeNext, InsertRow, Replace, NextId
<1>30. ASSUME NEW v \in recoveries, NEW p \in Sessions, ResumeRefused(v, p) PROVE LocalInv'
  BY <1>30 DEF ResumeRefused, Replace
<1>31. ASSUME NEW v \in recoveries, ResumeSettled(v) PROVE LocalInv'
  BY <1>31 DEF ResumeSettled, Replace, DeleteRow
<1>32. ASSUME NEW v \in recoveries, FinishRecovery(v) PROVE LocalInv'
  BY <1>32 DEF FinishRecovery, Replace
<1>33. ASSUME NEW v \in recoveries, NEW p \in Sessions, EndStale(v, p) PROVE LocalInv'
  <2> DEFINE w == [v EXCEPT !.todo = @ \ {p}]
  <2>1. w.todo = v.todo \ {p}
    BY SweepFields
  <2>2. recoveries' = (recoveries \ {v}) \union {w}
    BY <1>33 DEF EndStale, Replace, w
  <2> HIDE DEF w
  <2>3. \A x \in recoveries' : x \in recoveries \/ x.todo = v.todo \ {p}
    BY <2>1, <2>2
  <2> QED
    BY <1>33, <2>3 DEF EndStale, MarkExited
<1>34. ASSUME NEW v \in recoveries, NEW p \in Sessions, NEW s \in Sessions, RelaunchStale(v, p, s)
      PROVE  LocalInv'
  <2> DEFINE w == [v EXCEPT !.todo = @ \ {p}, !.resumed = @ \union {<<p, s>>}]
  <2>1. w.todo = v.todo \ {p}
    BY SweepFields
  <2>2. recoveries' = (recoveries \ {v}) \union {w}
    BY <1>34 DEF RelaunchStale, Replace, w
  <2> HIDE DEF w
  <2>3. \A x \in recoveries' : x \in recoveries \/ x.todo = v.todo \ {p}
    BY <2>1, <2>2
  <2> QED
    BY <1>34, <2>3 DEF RelaunchStale, NextId, SweepInv, StaleIsLocal
<1>35. ASSUME NEW v \in recoveries, FinishBoot(v) PROVE LocalInv'
  BY <1>35 DEF FinishBoot
<1>37. ASSUME NEW s \in Sessions, StreamShowsExit(s) PROVE LocalInv'
  BY <1>37 DEF StreamShowsExit, MarkExited
<1>36. CASE UNCHANGED vars
  BY <1>36 DEF vars
<1> QED
  BY <1>1, <1>2, <1>3, <1>4, <1>5, <1>6, <1>7, <1>8, <1>9, <1>10, <1>11, <1>12, <1>13,
     <1>14, <1>15, <1>16, <1>17, <1>18, <1>19, <1>20, <1>21, <1>22, <1>23, <1>24, <1>25,
     <1>26, <1>27, <1>28, <1>29, <1>30, <1>31, <1>32, <1>33, <1>34, <1>35, <1>36, <1>37
     DEF Next, Placing, User, Hosting, Recovering

-----------------------------------------------------------------------------
(* Heartbeats. *)

\* A step that sends no heartbeat and places no row.
LEMMA OldBeats ==
  ASSUME TypeInv, BeatInv, PtysAdvance, RowsAdvance, beats' \subseteq beats, aged' \subseteq aged,
         \A s \in aged : status'[s] = "active" =>
           /\ placement'[s] = placement[s] /\ host'[s] = host[s]
           /\ pty'[s] = "active" => pty[s] = "active"
  PROVE  BeatInv'
<1> USE DEF TypeInv, TypeOK, BeatInv, PtysAdvance, RowsAdvance
<1>1. ExitsAreFinal'
  BY DEF Heartbeat, ExitsAreFinal
<1>2. AgedWasPlaced'
  BY DEF AgedWasPlaced
<1>3. AgedIsSeen'
  BY DEF AgedWasPlaced, AgedIsSeen, BeatsFrom, Running
<1> QED
  BY <1>1, <1>2, <1>3

\* No heartbeat, however late, reports an exit that has not happened or misses
\* a PTY whose row is past the grace period.
LEMMA BeatInvStep ==
  ASSUME TypeInv, LaunchInv, BeatInv, PtysAdvance, RowsAdvance, [Next]_vars
  PROVE  BeatInv'
<1> USE SelfIsNoFollower, ForeignNotOurs DEF TypeInv, TypeOK, LaunchInv, FreshIsUntouched,
        ChoosingComesFirst, LaunchingIsPlacing, BeatInv, AgedWasPlaced, CalledIsElsewhere,
        RunningWasLaunched, Running, Execs, rowVars, dbVars, cpVars, hostVars, netVars,
        bounds
<1>1. ASSUME NEW s \in Sessions, Spawn(s) PROVE BeatInv'
  BY <1>1, OldBeats DEF Spawn, InsertRow, NextId
<1>2. ASSUME NEW s \in Sessions, NEW prior \in Sessions, ResumeByHand(s, prior)
      PROVE  BeatInv'
  BY <1>2, OldBeats DEF ResumeByHand, InsertRow, NextId
<1>3. ASSUME NEW s \in Sessions, PlacedTooLate(s) PROVE BeatInv'
  BY <1>3, OldBeats DEF PlacedTooLate, Return
<1>4. ASSUME NEW s \in Sessions, LaunchHere(s) PROVE BeatInv'
  BY <1>4, OldBeats DEF LaunchHere, Return
<1>5. ASSUME NEW s \in Sessions, NEW h \in Followers, CallHost(s, h) PROVE BeatInv'
  BY <1>5, OldBeats DEF CallHost, Candidates
<1>6. ASSUME NEW s \in Sessions, LaunchFails(s) PROVE BeatInv'
  BY <1>6, OldBeats DEF LaunchFails, MarkFailed, Return
<1>7. ASSUME NEW s \in Sessions, LaunchReply(s) PROVE BeatInv'
  BY <1>7, OldBeats DEF LaunchReply, Recordable, RecordPlaced, Return, Callable
<1>8. ASSUME NEW s \in Sessions, AnswerSpawn(s) PROVE BeatInv'
  BY <1>8, OldBeats DEF AnswerSpawn, DeleteRow
<1>9. ASSUME NEW s \in Sessions, AnswerStillPlacing(s) PROVE BeatInv'
  BY <1>9, OldBeats DEF AnswerStillPlacing
<1>10. ASSUME NEW s \in Sessions, Kill(s) PROVE BeatInv'
  BY <1>10, OldBeats DEF Kill, MarkExited, KillPty, Retire, Callable
<1>11. ASSUME NEW s \in Sessions, Delete(s) PROVE BeatInv'
  BY <1>11, OldBeats DEF Delete, DeleteRow, KillPty, Retire, Callable
<1>12. ASSUME NEW s \in Sessions, ShowInPane(s) PROVE BeatInv'
  BY <1>12, OldBeats DEF ShowInPane
<1>13. ASSUME NEW s \in Sessions, ServeLaunch(s) PROVE BeatInv'
  BY <1>13, OldBeats DEF ServeLaunch
<1>14. ASSUME NEW e \in Execs, ServeKill(e) PROVE BeatInv'
  BY <1>14, OldBeats DEF ServeKill, Retire
<1>15. ASSUME NEW e \in Foreign, NEW h \in Followers, ForeignLaunch(e, h) PROVE BeatInv'
  BY <1>15, OldBeats DEF ForeignLaunch
<1>16. ASSUME NEW e \in Execs, PtyExits(e) PROVE BeatInv'
  BY <1>16, OldBeats DEF PtyExits, Retire, MarkExited
<1>17. ASSUME NEW e \in Execs, ForgetPty(e) PROVE BeatInv'
  BY <1>17, OldBeats DEF ForgetPty
<1>18. ASSUME NEW h \in Followers, SendBeat(h) PROVE BeatInv'
  <2>1. ASSUME NEW e \in PtysOn(h, "exited") PROVE pty[e] = "exited"
    BY DEF PtysOn
  <2>2. ASSUME NEW s \in Sessions, Running(s), pty[s] = "active", host[s] = h
        PROVE  s \in PtysOn(h, "active")
    BY <2>2 DEF PtysOn
  <2>3. \A m \in beats' : m \in beats \/
          (m.from = h /\ m.active = PtysOn(h, "active") /\ m.exited = PtysOn(h, "exited"))
    BY <1>18 DEF SendBeat, Snapshot
  <2>4. UNCHANGED <<pty, status, placement, host, aged>>
    BY <1>18 DEF SendBeat
  <2> QED
    BY <2>1, <2>2, <2>3, <2>4 DEF BeatInv, ExitsAreFinal, AgedIsSeen, AgedWasPlaced, BeatsFrom
<1>19. ASSUME NEW m \in beats, LoseBeat(m) PROVE BeatInv'
  BY <1>19, OldBeats DEF LoseBeat
<1>20. ASSUME NEW h \in Followers, StartDaemon(h) PROVE BeatInv'
  BY <1>20, OldBeats DEF StartDaemon
<1>21. ASSUME NEW h \in Followers, StopDaemon(h) PROVE BeatInv'
  <2> DEFINE n == [Snapshot(h) EXCEPT !.active = {}, !.senior = {},
                        !.exited = PtysOn(h, "active") \union PtysOn(h, "exited")]
  <2>1. n.from = h /\ n.exited = PtysOn(h, "active") \union PtysOn(h, "exited")
    BY LastBeatField
  <2>2. beats' = beats \union {n}
    BY <1>21 DEF StopDaemon, n
  <2> HIDE DEF n
  <2>3. \A e \in PtysOn(h, "active") \union PtysOn(h, "exited") : pty'[e] = "exited"
    BY <1>21 DEF StopDaemon, Retire, PtysOn
  <2>4. ASSUME NEW s \in Sessions, Running(s), pty[s] = "active", host[s] = h
        PROVE  s \in PtysOn(h, "active")
    BY <2>4 DEF PtysOn
  <2>5. ExitsAreFinal'
    BY <2>1, <2>2, <2>3 DEF BeatInv, ExitsAreFinal, PtysAdvance, Heartbeat
  <2>6. \A s \in Sessions : pty'[s] = "active" => pty[s] = "active"
    BY <1>21 DEF StopDaemon, Retire
  <2>7. UNCHANGED <<status, placement, host, aged>>
    BY <1>21 DEF StopDaemon
  <2>8. AgedIsSeen'
    BY <2>1, <2>2, <2>4, <2>6, <2>7 DEF BeatInv, AgedIsSeen, BeatsFrom
  <2> QED
    BY <2>5, <2>7, <2>8 DEF BeatInv, AgedWasPlaced
<1>22. ASSUME NEW h \in Followers, ExitDaemon(h) PROVE BeatInv'
  BY <1>22, OldBeats DEF ExitDaemon
<1>23. ASSUME NEW e \in Execs, PtyAges(e) PROVE BeatInv'
  BY <1>23, OldBeats DEF PtyAges
<1>24. ASSUME NEW s \in Sessions, RowAges(s) PROVE BeatInv'
  <2>1. UNCHANGED <<pty, status, placement, host, beats>> /\ aged' = aged \union {s}
    BY <1>24 DEF RowAges
  <2>2. Running(s) /\ \A m \in BeatsFrom(host[s]) : s \in m.active \union m.exited
    BY <1>24 DEF RowAges
  <2> QED
    BY <2>1, <2>2 DEF BeatInv, ExitsAreFinal, AgedIsSeen, AgedWasPlaced, BeatsFrom
<1>25. ASSUME NEW m \in beats, HeartbeatArrives(m) PROVE BeatInv'
  BY <1>25, OldBeats DEF HeartbeatArrives, MarkExited, Callable, Orphans
<1>26. CASE StopControlPlane
  BY <1>26, OldBeats DEF StopControlPlane, Retire, MarkExited, PtysOn, LocalRows
<1>27. CASE ExitControlPlane
  BY <1>27, OldBeats DEF ExitControlPlane
<1>28. CASE StartControlPlane
  BY <1>28, OldBeats DEF StartControlPlane, LocalRows, SessionHost
<1>29. ASSUME NEW v \in recoveries, NEW p \in Sessions, NEW s \in Sessions, ResumeNext(v, p, s)
      PROVE  BeatInv'
  BY <1>29, OldBeats DEF ResumeNext, InsertRow, Replace, NextId
<1>30. ASSUME NEW v \in recoveries, NEW p \in Sessions, ResumeRefused(v, p) PROVE BeatInv'
  BY <1>30, OldBeats DEF ResumeRefused, Replace
<1>31. ASSUME NEW v \in recoveries, ResumeSettled(v) PROVE BeatInv'
  BY <1>31, OldBeats DEF ResumeSettled, Replace, DeleteRow
<1>32. ASSUME NEW v \in recoveries, FinishRecovery(v) PROVE BeatInv'
  BY <1>32, OldBeats DEF FinishRecovery, Replace
<1>33. ASSUME NEW v \in recoveries, NEW p \in Sessions, EndStale(v, p) PROVE BeatInv'
  BY <1>33, OldBeats DEF EndStale, Replace, MarkExited
<1>34. ASSUME NEW v \in recoveries, NEW p \in Sessions, NEW s \in Sessions, RelaunchStale(v, p, s)
      PROVE  BeatInv'
  BY <1>34, OldBeats DEF RelaunchStale, Replace, NextId
<1>35. ASSUME NEW v \in recoveries, FinishBoot(v) PROVE BeatInv'
  BY <1>35, OldBeats DEF FinishBoot
<1>37. ASSUME NEW s \in Sessions, StreamShowsExit(s) PROVE BeatInv'
  BY <1>37, OldBeats DEF StreamShowsExit, MarkExited
<1>36. CASE UNCHANGED vars
  BY <1>36, OldBeats DEF vars
<1> QED
  BY <1>1, <1>2, <1>3, <1>4, <1>5, <1>6, <1>7, <1>8, <1>9, <1>10, <1>11, <1>12, <1>13,
     <1>14, <1>15, <1>16, <1>17, <1>18, <1>19, <1>20, <1>21, <1>22, <1>23, <1>24, <1>25,
     <1>26, <1>27, <1>28, <1>29, <1>30, <1>31, <1>32, <1>33, <1>34, <1>35, <1>36, <1>37
     DEF Next, Placing, User, Hosting, Recovering

-----------------------------------------------------------------------------
(* What a step may not do to a running session of a follower. *)

SparesLivePtys ==
  \A s \in Sessions :
    Running(s) /\ host[s] \in Followers /\ pty[s] = "active" /\ status'[s] # "active"
      => Kill(s) \/ Delete(s) \/ known' # known

SparesRemoteSessions ==
  cp' # cp \/ cp \in {"down", "booting"} =>
    \A s \in Sessions : Running(s) /\ host[s] \in Followers =>
      status'[s] = "active" /\ host'[s] = host[s] /\ placement'[s] = "placed"

\* A session whose PTY lives is ended by its user or by another boot of its
\* host.
LEMMA LivePtyStep ==
  ASSUME TypeInv, LaunchInv, SweepInv, BeatInv, [Next]_vars
  PROVE  SparesLivePtys
<1> USE SelfIsNoFollower, NoHostIsNoHost DEF TypeInv, TypeOK, LaunchInv, FreshIsUntouched,
        ChoosingComesFirst, LaunchingIsPlacing, FailedHasEnded, CalledIsElsewhere,
        RunningWasLaunched, Running, Serving, Execs, rowVars, dbVars, cpVars, hostVars,
        netVars, bounds, SparesLivePtys
<1>1. ASSUME NEW s \in Sessions, Spawn(s) PROVE SparesLivePtys
  BY <1>1 DEF Spawn, InsertRow, NextId
<1>2. ASSUME NEW s \in Sessions, NEW prior \in Sessions, ResumeByHand(s, prior)
      PROVE  SparesLivePtys
  BY <1>2 DEF ResumeByHand, InsertRow, NextId
<1>3. ASSUME NEW s \in Sessions, PlacedTooLate(s) PROVE SparesLivePtys
  BY <1>3 DEF PlacedTooLate, Return
<1>4. ASSUME NEW s \in Sessions, LaunchHere(s) PROVE SparesLivePtys
  BY <1>4 DEF LaunchHere, Return
<1>5. ASSUME NEW s \in Sessions, NEW h \in Followers, CallHost(s, h) PROVE SparesLivePtys
  BY <1>5 DEF CallHost, Candidates
<1>6. ASSUME NEW s \in Sessions, LaunchFails(s) PROVE SparesLivePtys
  BY <1>6 DEF LaunchFails, MarkFailed, Return
<1>7. ASSUME NEW s \in Sessions, LaunchReply(s) PROVE SparesLivePtys
  BY <1>7 DEF LaunchReply, Recordable, RecordPlaced, Return, Callable
<1>8. ASSUME NEW s \in Sessions, AnswerSpawn(s) PROVE SparesLivePtys
  BY <1>8 DEF AnswerSpawn, DeleteRow
<1>9. ASSUME NEW s \in Sessions, AnswerStillPlacing(s) PROVE SparesLivePtys
  BY <1>9 DEF AnswerStillPlacing
<1>10. ASSUME NEW s \in Sessions, Kill(s) PROVE SparesLivePtys
  BY <1>10 DEF Kill, MarkExited, KillPty, Retire, Callable
<1>11. ASSUME NEW s \in Sessions, Delete(s) PROVE SparesLivePtys
  <2>1. \A t \in Sessions \ {s} : status'[t] = status[t]
    BY <1>11 DEF Delete, DeleteRow
  <2> QED
    BY <1>11, <2>1 DEF SparesLivePtys
<1>12. ASSUME NEW s \in Sessions, ShowInPane(s) PROVE SparesLivePtys
  BY <1>12 DEF ShowInPane
<1>13. ASSUME NEW s \in Sessions, ServeLaunch(s) PROVE SparesLivePtys
  BY <1>13 DEF ServeLaunch
<1>14. ASSUME NEW e \in Execs, ServeKill(e) PROVE SparesLivePtys
  BY <1>14 DEF ServeKill, Retire
<1>15. ASSUME NEW e \in Foreign, NEW h \in Followers, ForeignLaunch(e, h)
      PROVE  SparesLivePtys
  BY <1>15 DEF ForeignLaunch
<1>16. ASSUME NEW e \in Execs, PtyExits(e) PROVE SparesLivePtys
  BY <1>16 DEF PtyExits, MarkExited
<1>17. ASSUME NEW e \in Execs, ForgetPty(e) PROVE SparesLivePtys
  BY <1>17 DEF ForgetPty
<1>18. ASSUME NEW h \in Followers, SendBeat(h) PROVE SparesLivePtys
  BY <1>18 DEF SendBeat, Snapshot, PtysOn
<1>19. ASSUME NEW m \in beats, LoseBeat(m) PROVE SparesLivePtys
  BY <1>19 DEF LoseBeat
<1>20. ASSUME NEW h \in Followers, StartDaemon(h) PROVE SparesLivePtys
  BY <1>20 DEF StartDaemon
<1>21. ASSUME NEW h \in Followers, StopDaemon(h) PROVE SparesLivePtys
  BY <1>21 DEF StopDaemon, Retire, Snapshot, PtysOn
<1>22. ASSUME NEW h \in Followers, ExitDaemon(h) PROVE SparesLivePtys
  BY <1>22 DEF ExitDaemon
<1>23. ASSUME NEW e \in Execs, PtyAges(e) PROVE SparesLivePtys
  BY <1>23 DEF PtyAges
<1>24. ASSUME NEW s \in Sessions, RowAges(s) PROVE SparesLivePtys
  BY <1>24 DEF RowAges
<1>25. ASSUME NEW m \in beats, HeartbeatArrives(m) PROVE SparesLivePtys
  <2>1. ASSUME NEW s \in Ended(m), pty[s] = "active", known' = known PROVE FALSE
    <3>1. Died(m) = {}
      BY <1>25, <2>1 DEF HeartbeatArrives, Died, Restarted, Heartbeat
    <3>2. s \notin m.exited
      BY <2>1 DEF BeatInv, ExitsAreFinal
    <3>3. Running(s) /\ host[s] = m.from /\ s \in aged /\ s \notin m.active \union m.exited
      BY <2>1, <3>1, <3>2 DEF Ended, Missing, RowsOn
    <3> QED
      BY <2>1, <3>3 DEF BeatInv, AgedIsSeen, BeatsFrom
  <2> QED
    BY <1>25, <2>1 DEF HeartbeatArrives, MarkExited, SparesLivePtys
<1>26. CASE StopControlPlane
  BY <1>26 DEF StopControlPlane, MarkExited, LocalRows, SessionHost
<1>27. CASE ExitControlPlane
  BY <1>27 DEF ExitControlPlane
<1>28. CASE StartControlPlane
  BY <1>28 DEF StartControlPlane, LocalRows, SessionHost
<1>29. ASSUME NEW v \in recoveries, NEW p \in Sessions, NEW s \in Sessions, ResumeNext(v, p, s)
      PROVE  SparesLivePtys
  BY <1>29 DEF ResumeNext, InsertRow, Replace, NextId
<1>30. ASSUME NEW v \in recoveries, NEW p \in Sessions, ResumeRefused(v, p)
      PROVE  SparesLivePtys
  BY <1>30 DEF ResumeRefused, Replace
<1>31. ASSUME NEW v \in recoveries, ResumeSettled(v) PROVE SparesLivePtys
  BY <1>31 DEF ResumeSettled, Replace, DeleteRow
<1>32. ASSUME NEW v \in recoveries, FinishRecovery(v) PROVE SparesLivePtys
  BY <1>32 DEF FinishRecovery, Replace
<1>33. ASSUME NEW v \in recoveries, NEW p \in Sessions, EndStale(v, p) PROVE SparesLivePtys
  BY <1>33 DEF EndStale, MarkExited, SweepInv, StaleIsLocal
<1>34. ASSUME NEW v \in recoveries, NEW p \in Sessions, NEW s \in Sessions, RelaunchStale(v, p, s)
      PROVE  SparesLivePtys
  BY <1>34 DEF RelaunchStale, NextId, SweepInv, StaleIsLocal
<1>35. ASSUME NEW v \in recoveries, FinishBoot(v) PROVE SparesLivePtys
  BY <1>35 DEF FinishBoot
<1>37. ASSUME NEW s \in Sessions, StreamShowsExit(s) PROVE SparesLivePtys
  BY <1>37 DEF StreamShowsExit, MarkExited
<1>36. CASE UNCHANGED vars
  BY <1>36 DEF vars
<1> QED
  BY <1>1, <1>2, <1>3, <1>4, <1>5, <1>6, <1>7, <1>8, <1>9, <1>10, <1>11, <1>12, <1>13,
     <1>14, <1>15, <1>16, <1>17, <1>18, <1>19, <1>20, <1>21, <1>22, <1>23, <1>24, <1>25,
     <1>26, <1>27, <1>28, <1>29, <1>30, <1>31, <1>32, <1>33, <1>34, <1>35, <1>36, <1>37
     DEF Next, Placing, User, Hosting, Recovering

\* The life of the control plane leaves the rows of other hosts alone.
LEMMA RemoteStep ==
  ASSUME TypeInv, LaunchInv, SweepInv, [Next]_vars
  PROVE  SparesRemoteSessions
<1> USE SelfIsNoFollower, NoHostIsNoHost DEF TypeInv, TypeOK, LaunchInv, FreshIsUntouched,
        ChoosingComesFirst, LaunchingIsPlacing, FailedHasEnded, CalledIsElsewhere,
        RunningWasLaunched, Running, Serving, Execs, rowVars, dbVars, cpVars, hostVars,
        netVars, bounds, SparesRemoteSessions
<1>1. ASSUME NEW s \in Sessions, Spawn(s) PROVE SparesRemoteSessions
  BY <1>1 DEF Spawn, InsertRow, NextId
<1>2. ASSUME NEW s \in Sessions, NEW prior \in Sessions, ResumeByHand(s, prior)
      PROVE  SparesRemoteSessions
  BY <1>2 DEF ResumeByHand, InsertRow, NextId
<1>3. ASSUME NEW s \in Sessions, PlacedTooLate(s) PROVE SparesRemoteSessions
  BY <1>3 DEF PlacedTooLate, Return
<1>4. ASSUME NEW s \in Sessions, LaunchHere(s) PROVE SparesRemoteSessions
  BY <1>4 DEF LaunchHere, Return
<1>5. ASSUME NEW s \in Sessions, NEW h \in Followers, CallHost(s, h)
      PROVE  SparesRemoteSessions
  BY <1>5 DEF CallHost, Candidates
<1>6. ASSUME NEW s \in Sessions, LaunchFails(s) PROVE SparesRemoteSessions
  BY <1>6 DEF LaunchFails, MarkFailed, Return
<1>7. ASSUME NEW s \in Sessions, LaunchReply(s) PROVE SparesRemoteSessions
  BY <1>7 DEF LaunchReply, Recordable, RecordPlaced, Return, Callable
<1>8. ASSUME NEW s \in Sessions, AnswerSpawn(s) PROVE SparesRemoteSessions
  BY <1>8 DEF AnswerSpawn, DeleteRow
<1>9. ASSUME NEW s \in Sessions, AnswerStillPlacing(s) PROVE SparesRemoteSessions
  BY <1>9 DEF AnswerStillPlacing
<1>10. ASSUME NEW s \in Sessions, Kill(s) PROVE SparesRemoteSessions
  BY <1>10 DEF Kill, MarkExited, KillPty, Retire, Callable
<1>11. ASSUME NEW s \in Sessions, Delete(s) PROVE SparesRemoteSessions
  BY <1>11 DEF Delete, DeleteRow, KillPty, Retire, Callable
<1>12. ASSUME NEW s \in Sessions, ShowInPane(s) PROVE SparesRemoteSessions
  BY <1>12 DEF ShowInPane
<1>13. ASSUME NEW s \in Sessions, ServeLaunch(s) PROVE SparesRemoteSessions
  BY <1>13 DEF ServeLaunch
<1>14. ASSUME NEW e \in Execs, ServeKill(e) PROVE SparesRemoteSessions
  BY <1>14 DEF ServeKill, Retire
<1>15. ASSUME NEW e \in Foreign, NEW h \in Followers, ForeignLaunch(e, h)
      PROVE  SparesRemoteSessions
  BY <1>15 DEF ForeignLaunch
<1>16. ASSUME NEW e \in Execs, PtyExits(e) PROVE SparesRemoteSessions
  BY <1>16 DEF PtyExits, MarkExited
<1>17. ASSUME NEW e \in Execs, ForgetPty(e) PROVE SparesRemoteSessions
  BY <1>17 DEF ForgetPty
<1>18. ASSUME NEW h \in Followers, SendBeat(h) PROVE SparesRemoteSessions
  BY <1>18 DEF SendBeat, Snapshot, PtysOn
<1>19. ASSUME NEW m \in beats, LoseBeat(m) PROVE SparesRemoteSessions
  BY <1>19 DEF LoseBeat
<1>20. ASSUME NEW h \in Followers, StartDaemon(h) PROVE SparesRemoteSessions
  BY <1>20 DEF StartDaemon
<1>21. ASSUME NEW h \in Followers, StopDaemon(h) PROVE SparesRemoteSessions
  BY <1>21 DEF StopDaemon, Retire, Snapshot, PtysOn
<1>22. ASSUME NEW h \in Followers, ExitDaemon(h) PROVE SparesRemoteSessions
  BY <1>22 DEF ExitDaemon
<1>23. ASSUME NEW e \in Execs, PtyAges(e) PROVE SparesRemoteSessions
  BY <1>23 DEF PtyAges
<1>24. ASSUME NEW s \in Sessions, RowAges(s) PROVE SparesRemoteSessions
  BY <1>24 DEF RowAges
<1>25. ASSUME NEW m \in beats, HeartbeatArrives(m) PROVE SparesRemoteSessions
  BY <1>25 DEF HeartbeatArrives, MarkExited, Callable, Orphans
<1>26. CASE StopControlPlane
  BY <1>26 DEF StopControlPlane, MarkExited, LocalRows, SessionHost
<1>27. CASE ExitControlPlane
  BY <1>27 DEF ExitControlPlane
<1>28. CASE StartControlPlane
  BY <1>28 DEF StartControlPlane, LocalRows, SessionHost
<1>29. ASSUME NEW v \in recoveries, NEW p \in Sessions, NEW s \in Sessions, ResumeNext(v, p, s)
      PROVE  SparesRemoteSessions
  BY <1>29 DEF ResumeNext, InsertRow, Replace, NextId
<1>30. ASSUME NEW v \in recoveries, NEW p \in Sessions, ResumeRefused(v, p)
      PROVE  SparesRemoteSessions
  BY <1>30 DEF ResumeRefused, Replace
<1>31. ASSUME NEW v \in recoveries, ResumeSettled(v) PROVE SparesRemoteSessions
  BY <1>31 DEF ResumeSettled, Replace, DeleteRow
<1>32. ASSUME NEW v \in recoveries, FinishRecovery(v) PROVE SparesRemoteSessions
  BY <1>32 DEF FinishRecovery, Replace
<1>33. ASSUME NEW v \in recoveries, NEW p \in Sessions, EndStale(v, p)
      PROVE  SparesRemoteSessions
  BY <1>33 DEF EndStale, MarkExited, SweepInv, StaleIsLocal
<1>34. ASSUME NEW v \in recoveries, NEW p \in Sessions, NEW s \in Sessions, RelaunchStale(v, p, s)
      PROVE  SparesRemoteSessions
  BY <1>34 DEF RelaunchStale, NextId, SweepInv, StaleIsLocal
<1>35. ASSUME NEW v \in recoveries, FinishBoot(v) PROVE SparesRemoteSessions
  BY <1>35 DEF FinishBoot
<1>37. ASSUME NEW s \in Sessions, StreamShowsExit(s) PROVE SparesRemoteSessions
  BY <1>37 DEF StreamShowsExit, MarkExited
<1>36. CASE UNCHANGED vars
  BY <1>36 DEF vars
<1> QED
  BY <1>1, <1>2, <1>3, <1>4, <1>5, <1>6, <1>7, <1>8, <1>9, <1>10, <1>11, <1>12, <1>13,
     <1>14, <1>15, <1>16, <1>17, <1>18, <1>19, <1>20, <1>21, <1>22, <1>23, <1>24, <1>25,
     <1>26, <1>27, <1>28, <1>29, <1>30, <1>31, <1>32, <1>33, <1>34, <1>35, <1>36, <1>37
     DEF Next, Placing, User, Hosting, Recovering

-----------------------------------------------------------------------------
(* The theorems. *)

\* Nothing has happened yet.
LEMMA IInvInit == Init => IInv
<1> SUFFICES ASSUME Init PROVE IInv
  OBVIOUS
<1>1. TypeInv
  BY TypeInvInit
<1>2. LaunchInv
  BY DEF Init, LaunchInv, FreshIsUntouched, ChoosingComesFirst, LaunchingIsPlacing,
         PlacingIsAwaited, PlacingIsStale, PlacingHasNoHost, FailedHasEnded, SeniorIsSettled,
         CalledIsElsewhere, RunningWasLaunched, KillsAreCalls, KillsOnlyUnwanted, Running,
         Execs
<1>3. SweepInv
  BY DEF Init, SweepInv, StaleIsLocal, LostHasEnded, LostOnce
<1>4. LocalInv
  BY DEF Init, LocalInv, LocalRowsMatchPtys, LocalRowsFollow, HereActive, HereRunning,
         Running, Execs
<1>5. BeatInv
  BY DEF Init, BeatInv, ExitsAreFinal, AgedIsSeen, AgedWasPlaced
<1> QED
  BY <1>1, <1>2, <1>3, <1>4, <1>5 DEF IInv

\* Every step preserves the whole invariant.
LEMMA IInvStep == IInv /\ [Next]_vars => IInv'
<1> SUFFICES ASSUME IInv, [Next]_vars PROVE IInv'
  OBVIOUS
<1>1. TypeInv /\ LaunchInv /\ SweepInv /\ LocalInv /\ BeatInv
  BY DEF IInv
<1>2. TypeInv'
  BY <1>1, TypeInvStep
<1>3. LaunchInv'
  BY <1>1, <1>2, LaunchInvStep
<1>4. RowsAdvance /\ PtysAdvance
  BY <1>1, RowsMoveOn, PtysMoveOn
<1>5. SweepInv'
  BY <1>1, <1>2, <1>4, SweepInvStep
<1>6. LocalInv'
  BY <1>1, <1>2, <1>3, LocalInvStep
<1>7. BeatInv'
  BY <1>1, <1>4, BeatInvStep
<1> QED
  BY <1>2, <1>3, <1>5, <1>6, <1>7 DEF IInv

\* The invariant holds in every reachable state, whatever the followers, the
\* crashes and the delays.
THEOREM Inductive == Spec => []IInv
<1> QED
  BY IInvInit, IInvStep, PTL DEF Spec

\* The reaper and the late answers to launches never order the death of a PTY
\* somebody may still want: its row has ended, and the PTYs of other control
\* planes are none of ours.
THEOREM KillsAreOnlyOfUnwanted == Spec => []KillsOnlyUnwanted
<1>1. IInv => KillsOnlyUnwanted
  BY DEF IInv, LaunchInv
<1> QED
  BY Inductive, <1>1, PTL

\* While the control plane serves, a PTY lives on its host exactly when a running
\* row says so, through its own crashes and boots.
THEOREM LocalRowsAlwaysMatch == Spec => []LocalRowsMatchPtys
<1>1. IInv => LocalRowsMatchPtys
  BY DEF IInv, LocalInv
<1> QED
  BY Inductive, <1>1, PTL

\* A lost row is swept once, however many restarts overlap.
THEOREM LostRowsAreSweptOnce == Spec => []LostOnce
<1>1. IInv => LostOnce
  BY DEF IInv, SweepInv
<1> QED
  BY Inductive, <1>1, PTL

\* A session that ended stays ended, and no late launch places it.
THEOREM EndedSessionsStayEnded == Spec => EndedStaysEnded
<1>1. IInv /\ [Next]_vars =>
        [\A s \in Sessions : status[s] \in {"exited", "deleted"} =>
           /\ status'[s] \in {"exited", "deleted"}
           /\ placement'[s] = "placed" => placement[s] = "placed"]_vars
  BY RowsMoveOn DEF IInv, RowsAdvance
<1> QED
  BY Inductive, <1>1, PTL DEF Spec, EndedStaysEnded

\* A running session of a follower whose PTY lives ends only by its user's hand
\* or with another boot of its host: no lost, late or reordered heartbeat does it.
THEOREM LiveSessionsAreSpared == Spec => LivePtySpared
<1>1. IInv /\ [Next]_vars =>
        [\A s \in Sessions :
           Running(s) /\ host[s] \in Followers /\ pty[s] = "active" /\ status'[s] # "active"
             => Kill(s) \/ Delete(s) \/ known' # known]_vars
  BY LivePtyStep DEF IInv, SparesLivePtys
<1> QED
  BY Inductive, <1>1, PTL DEF Spec, LivePtySpared

\* The control plane may stop, crash and boot: the rows of sessions on other hosts
\* stay attached to them.
THEOREM RemoteSessionsSurvive == Spec => RemoteSessionsOutliveControlPlane
<1>1. IInv /\ [Next]_vars =>
        [cp' # cp \/ cp \in {"down", "booting"} =>
           \A s \in Sessions : Running(s) /\ host[s] \in Followers =>
             status'[s] = "active" /\ host'[s] = host[s] /\ placement'[s] = "placed"]_vars
  BY RemoteStep DEF IInv, SparesRemoteSessions
<1> QED
  BY Inductive, <1>1, PTL DEF Spec, RemoteSessionsOutliveControlPlane

(***************************************************************************)
(*           THE REFINEMENT: SessionFleet IMPLEMENTS SessionLifecycle      *)
(***************************************************************************)
-----------------------------------------------------------------------------
(* What a step makes of the life of a session and of its PTY, beyond that  *)
(* they only move on.                                                      *)

\* Nothing is left of a deleted row: a boot finds none to relaunch.
DeletedIsUnplaced == \A s \in Sessions : status[s] = "deleted" => placement[s] # "placed"

LivesAdvance ==
  /\ \A s \in Sessions :
       /\ status[s] = "fresh" => status'[s] \in {"fresh", "active"}
       /\ status[s] = "deleted" => status'[s] = "deleted"
       /\ status[s] # "deleted" /\ status'[s] = "deleted" => placement'[s] = "placing"
       /\ Running(s) /\ status'[s] = "active" => placement'[s] = "placed"
  /\ \A e \in Execs :
       /\ pty[e] = "none" => pty'[e] \in {"none", "active"}
       /\ pty[e] = "active" => pty'[e] # "none"

\* No handler ends a session before it began, takes a placed row back to placing,
\* or ends a PTY before it began.
LEMMA LivesMoveOn ==
  ASSUME TypeInv, LaunchInv, DeletedIsUnplaced, [Next]_vars
  PROVE  LivesAdvance
<1> USE DEF TypeInv, TypeOK, LaunchInv, FreshIsUntouched, ChoosingComesFirst, LaunchingIsPlacing,
        CalledIsElsewhere, Running, LivesAdvance, Execs, rowVars, dbVars, cpVars, hostVars,
        netVars, bounds
<1>1. ASSUME NEW s \in Sessions, Spawn(s) PROVE LivesAdvance
  BY <1>1 DEF Spawn, InsertRow, NextId
<1>2. ASSUME NEW s \in Sessions, NEW prior \in Sessions, ResumeByHand(s, prior)
      PROVE  LivesAdvance
  BY <1>2 DEF ResumeByHand, InsertRow, NextId
<1>3. ASSUME NEW s \in Sessions, PlacedTooLate(s) PROVE LivesAdvance
  BY <1>3 DEF PlacedTooLate, Return
<1>4. ASSUME NEW s \in Sessions, LaunchHere(s) PROVE LivesAdvance
  BY <1>4 DEF LaunchHere, Return
<1>5. ASSUME NEW s \in Sessions, NEW h \in Followers, CallHost(s, h) PROVE LivesAdvance
  BY <1>5 DEF CallHost, Candidates
<1>6. ASSUME NEW s \in Sessions, LaunchFails(s) PROVE LivesAdvance
  BY <1>6 DEF LaunchFails, MarkFailed, Return
<1>7. ASSUME NEW s \in Sessions, LaunchReply(s) PROVE LivesAdvance
  BY <1>7 DEF LaunchReply, Recordable, RecordPlaced, Return, Callable
<1>8. ASSUME NEW s \in Sessions, AnswerSpawn(s) PROVE LivesAdvance
  BY <1>8 DEF AnswerSpawn, DeleteRow
<1>9. ASSUME NEW s \in Sessions, AnswerStillPlacing(s) PROVE LivesAdvance
  BY <1>9 DEF AnswerStillPlacing
<1>10. ASSUME NEW s \in Sessions, Kill(s) PROVE LivesAdvance
  BY <1>10 DEF Kill, MarkExited, KillPty, Retire, Callable
<1>11. ASSUME NEW s \in Sessions, Delete(s) PROVE LivesAdvance
  BY <1>11 DEF Delete, DeleteRow, KillPty, Retire, Callable
<1>12. ASSUME NEW s \in Sessions, ShowInPane(s) PROVE LivesAdvance
  BY <1>12 DEF ShowInPane
<1>13. ASSUME NEW s \in Sessions, ServeLaunch(s) PROVE LivesAdvance
  BY <1>13 DEF ServeLaunch
<1>14. ASSUME NEW e \in Execs, ServeKill(e) PROVE LivesAdvance
  BY <1>14 DEF ServeKill, Retire
<1>15. ASSUME NEW e \in Foreign, NEW h \in Followers, ForeignLaunch(e, h) PROVE LivesAdvance
  BY <1>15 DEF ForeignLaunch
<1>16. ASSUME NEW e \in Execs, PtyExits(e) PROVE LivesAdvance
  BY <1>16 DEF PtyExits, Retire, MarkExited
<1>17. ASSUME NEW e \in Execs, ForgetPty(e) PROVE LivesAdvance
  BY <1>17 DEF ForgetPty
<1>18. ASSUME NEW h \in Followers, SendBeat(h) PROVE LivesAdvance
  BY <1>18 DEF SendBeat, Snapshot, PtysOn
<1>19. ASSUME NEW m \in beats, LoseBeat(m) PROVE LivesAdvance
  BY <1>19 DEF LoseBeat
<1>20. ASSUME NEW h \in Followers, StartDaemon(h) PROVE LivesAdvance
  BY <1>20 DEF StartDaemon
<1>21. ASSUME NEW h \in Followers, StopDaemon(h) PROVE LivesAdvance
  BY <1>21 DEF StopDaemon, Retire, Snapshot, PtysOn
<1>22. ASSUME NEW h \in Followers, ExitDaemon(h) PROVE LivesAdvance
  BY <1>22 DEF ExitDaemon
<1>23. ASSUME NEW e \in Execs, PtyAges(e) PROVE LivesAdvance
  BY <1>23 DEF PtyAges
<1>24. ASSUME NEW s \in Sessions, RowAges(s) PROVE LivesAdvance
  BY <1>24 DEF RowAges
<1>25. ASSUME NEW m \in beats, HeartbeatArrives(m) PROVE LivesAdvance
  BY <1>25 DEF HeartbeatArrives, MarkExited, Callable, Orphans
<1>26. CASE StopControlPlane
  BY <1>26 DEF StopControlPlane, Retire, MarkExited, PtysOn, LocalRows
<1>27. CASE ExitControlPlane
  BY <1>27 DEF ExitControlPlane
<1>28. CASE StartControlPlane
  BY <1>28 DEF StartControlPlane, LocalRows, SessionHost
<1>29. ASSUME NEW v \in recoveries, NEW p \in Sessions, NEW s \in Sessions, ResumeNext(v, p, s)
      PROVE  LivesAdvance
  BY <1>29 DEF ResumeNext, InsertRow, Replace, NextId
<1>30. ASSUME NEW v \in recoveries, NEW p \in Sessions, ResumeRefused(v, p)
      PROVE  LivesAdvance
  BY <1>30 DEF ResumeRefused, Replace
<1>31. ASSUME NEW v \in recoveries, ResumeSettled(v) PROVE LivesAdvance
  BY <1>31 DEF ResumeSettled, Replace, DeleteRow
<1>32. ASSUME NEW v \in recoveries, FinishRecovery(v) PROVE LivesAdvance
  BY <1>32 DEF FinishRecovery, Replace
<1>33. ASSUME NEW v \in recoveries, NEW p \in Sessions, EndStale(v, p) PROVE LivesAdvance
  BY <1>33 DEF EndStale, Replace, MarkExited
<1>34. ASSUME NEW v \in recoveries, NEW p \in Sessions, NEW s \in Sessions, RelaunchStale(v, p, s)
      PROVE  LivesAdvance
  BY <1>34 DEF RelaunchStale, Replace, NextId, DeletedIsUnplaced
<1>35. ASSUME NEW v \in recoveries, FinishBoot(v) PROVE LivesAdvance
  BY <1>35 DEF FinishBoot
<1>37. ASSUME NEW s \in Sessions, StreamShowsExit(s) PROVE LivesAdvance
  BY <1>37 DEF StreamShowsExit, MarkExited
<1>36. CASE UNCHANGED vars
  BY <1>36 DEF vars
<1> QED
  BY <1>1, <1>2, <1>3, <1>4, <1>5, <1>6, <1>7, <1>8, <1>9, <1>10, <1>11, <1>12, <1>13,
     <1>14, <1>15, <1>16, <1>17, <1>18, <1>19, <1>20, <1>21, <1>22, <1>23, <1>24, <1>25,
     <1>26, <1>27, <1>28, <1>29, <1>30, <1>31, <1>32, <1>33, <1>34, <1>35, <1>36, <1>37
     DEF Next, Placing, User, Hosting, Recovering

-----------------------------------------------------------------------------
(* The refinement. *)

LifeInv == IInv /\ DeletedIsUnplaced

\* What the refinement rests on.
THEOREM LifeInvariant == Spec => []LifeInv
<1>1. Init => LifeInv
  BY IInvInit DEF LifeInv, Init, DeletedIsUnplaced
<1>2. ASSUME LifeInv, [Next]_vars PROVE LifeInv'
  <2>1. LivesAdvance /\ RowsAdvance
    BY <1>2, LivesMoveOn, RowsMoveOn DEF LifeInv, IInv
  <2>2. DeletedIsUnplaced'
    BY <1>2, <2>1 DEF LifeInv, DeletedIsUnplaced, LivesAdvance, RowsAdvance
  <2> QED
    BY <1>2, <2>2, IInvStep DEF LifeInv
<1> QED
  BY <1>1, <1>2, PTL DEF Spec

\* The initial states are initial states of the abstract session.
LEMMA LifecycleInit == Init => Lifecycle!Init
  BY DEF Init, Lifecycle!Init, Life, Process

\* A session's life takes a step of SessionLifecycle, or none.
LEMMA LifeStep ==
  ASSUME IInv, IInv', LivesAdvance, RowsAdvance, NEW s \in Sessions
  PROVE  \/ Life'[s] = Life[s] \/ Lifecycle!Opens(s) \/ Lifecycle!Runs(s)
         \/ Lifecycle!Ends(s) \/ Lifecycle!Leaves(s)
<1> USE DEF IInv, TypeInv, TypeOK, LaunchInv
<1>1. /\ status[s] \in {"fresh", "active", "exited", "deleted"}
      /\ status'[s] \in {"fresh", "active", "exited", "deleted"}
      /\ s \in Execs
  BY DEF Execs
<1>2. Running(s)' => Process'[s] # "unborn"
  BY <1>1 DEF RunningWasLaunched, Process
<1>3. /\ status'[s] = "fresh" => Life'[s] = "new"
      /\ status'[s] = "active" => Life'[s] = IF Running(s)' THEN "running" ELSE "starting"
      /\ status'[s] = "exited" => Life'[s] = "ended"
      /\ status'[s] = "deleted" => Life'[s] = "removed"
  BY DEF Life, Running
<1>4. CASE status[s] = "fresh"
  <2>1. Life[s] = "new"
    BY <1>4 DEF Life
  <2> QED
    BY <1>2, <1>3, <1>4, <2>1 DEF LivesAdvance, Lifecycle!Opens, Lifecycle!Runs
<1>5. CASE status[s] = "active"
  <2>1. Life[s] = IF Running(s) THEN "running" ELSE "starting"
    BY <1>5 DEF Life, Running
  <2>2. status'[s] # "fresh"
    BY <1>5 DEF RowsAdvance
  <2>3. Running(s) /\ status'[s] = "active" => Running(s)'
    BY DEF LivesAdvance, Running
  <2> QED
    BY <1>1, <1>2, <1>3, <2>1, <2>2, <2>3 DEF Lifecycle!Runs, Lifecycle!Ends, Lifecycle!Leaves
<1>6. CASE status[s] = "exited"
  <2>1. Life[s] = "ended" /\ status'[s] \in {"exited", "deleted"}
    BY <1>6 DEF Life, RowsAdvance
  <2> QED
    BY <1>3, <2>1 DEF Lifecycle!Leaves
<1>7. CASE status[s] = "deleted"
  <2>1. Life[s] = "removed" /\ status'[s] = "deleted"
    BY <1>7 DEF Life, LivesAdvance
  <2> QED
    BY <1>3, <2>1
<1> QED
  BY <1>1, <1>4, <1>5, <1>6, <1>7

\* So does a PTY.
LEMMA ProcessStep ==
  ASSUME IInv, IInv', LivesAdvance, PtysAdvance, NEW e \in Execs
  PROVE  Process'[e] = Process[e] \/ Lifecycle!Launched(e) \/ Lifecycle!Dies(e)
<1> USE DEF IInv, TypeInv, TypeOK, LaunchInv
<1>1. /\ pty[e] \in {"none", "active", "exited", "gone"}
      /\ pty'[e] \in {"none", "active", "exited", "gone"}
  OBVIOUS
<1>2. /\ pty'[e] = "none" => Process'[e] = "unborn"
      /\ pty'[e] = "active" => Process'[e] = "alive"
      /\ pty'[e] \in {"exited", "gone"} => Process'[e] = "dead"
  BY DEF Process
<1>3. CASE pty[e] = "none"
  <2>1. Process[e] = "unborn" /\ pty'[e] \in {"none", "active"}
    BY <1>3 DEF Process, LivesAdvance
  <2>2. ASSUME e \in Sessions, pty'[e] = "active" PROVE Life'[e] # "new"
    <3>1. status'[e] # "fresh"
      BY <2>2 DEF FreshIsUntouched
    <3> QED
      BY <2>2, <3>1 DEF Life
  <2> QED
    BY <1>2, <2>1, <2>2 DEF Lifecycle!Launched
<1>4. CASE pty[e] = "active"
  <2>1. Process[e] = "alive" /\ pty'[e] # "none"
    BY <1>4 DEF Process, LivesAdvance
  <2> QED
    BY <1>1, <1>2, <2>1 DEF Lifecycle!Dies
<1>5. CASE pty[e] \in {"exited", "gone"}
  <2>1. Process[e] = "dead" /\ pty'[e] \in {"exited", "gone"}
    BY <1>5 DEF Process, PtysAdvance
  <2> QED
    BY <1>2, <2>1
<1> QED
  BY <1>1, <1>3, <1>4, <1>5

\* Every step of the whole model is a step of the abstract life, or none.
LEMMA LifecycleStep ==
  ASSUME LifeInv, LifeInv', [Next]_vars
  PROVE  [Lifecycle!Step]_Lifecycle!vars
<1>1. LivesAdvance /\ RowsAdvance /\ PtysAdvance
  BY LivesMoveOn, RowsMoveOn, PtysMoveOn DEF LifeInv, IInv
<1>2. DOMAIN Life' = Sessions /\ DOMAIN Process' = Execs
  BY DEF Life, Process
<1>3. \A e \in kills' \ kills : e \in Sessions /\ Life'[e] \in {"ended", "removed"}
  <2> SUFFICES ASSUME NEW e \in kills' PROVE e \in Sessions /\ Life'[e] \in {"ended", "removed"}
    OBVIOUS
  <2>1. e \in Sessions /\ status'[e] \in {"exited", "deleted"}
    BY DEF LifeInv, IInv, LaunchInv, KillsOnlyUnwanted
  <2> QED
    BY <2>1 DEF Life
<1> QED
  BY <1>1, <1>2, <1>3, LifeStep, ProcessStep DEF LifeInv, Lifecycle!Step

\* SessionFleet implements SessionLifecycle: whatever hosts, networks, restarts
\* and users do, ids are used once, launches happen once, nothing that ended comes
\* back, and only processes of sessions that are over are ordered to die.
THEOREM FleetImplementsLifecycle == Spec => ImplementsLifecycle
<1>1. LifeInv /\ LifeInv' /\ [Next]_vars => [Lifecycle!Step]_Lifecycle!vars
  BY LifecycleStep
<1> QED
  BY LifeInvariant, LifecycleInit, <1>1, PTL DEF Spec, ImplementsLifecycle, Lifecycle!Spec

=============================================================================
