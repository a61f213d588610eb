----------------------------- MODULE OperatorProofs -----------------------------
(***************************************************************************)
(* Theorems about Operator, for any replicas, pods, answers, steps, limits *)
(* and timing: what the election and the lifecycle promise by themselves   *)
(* holds of the two in one process, and what they promise together.        *)
(***************************************************************************)
EXTENDS Operator, LifecycleProofs

P == INSTANCE LeaderElectionProofs

-------------------------------------------------------------------------------
(* A step of the operator, as the lifecycle sees it *)

\* The election may change who leads, and nothing else of it.
Led ==
  /\ leaders' \subseteq Replica
  /\ UNCHANGED <<h, status, cluster, dryRun, since, lapses, life>>

LEMMA OperatorStepCases ==
  ASSUME [OperatorNext]_operatorVars
  PROVE  [LifeNext]_lifeVars \/ Led
  <1>1. ASSUME NEW r \in Replica, Elects(r)
        PROVE  Led
    BY <1>1 DEF Elects, Led
  <1>2. ASSUME NEW r \in Replica, Handles(r) \/ Exits(r)
        PROVE  LifeNext
    BY <1>2 DEF Handles, Exits, LifeNext, Faultless, LifeFault
  <1>3. CASE Others \/ Clock
    BY <1>3 DEF Others, Clock, LifeNext, Faultless, Surroundings
  <1>4. CASE UNCHANGED operatorVars
    BY <1>4 DEF operatorVars
  <1>5. QED
    BY <1>1, <1>2, <1>3, <1>4 DEF OperatorNext

LEMMA LedKeeps ==
  ASSUME LifeIInv, Led
  PROVE  LifeIInv'
  <1>1. TypeOK'
    BY DEF Led, LifeIInv, IInv, TypeOK, cluster
  <1>2. (IdleRuns /\ HasPod /\ ScaleRead /\ PastIsolation /\ IsolatedFirst /\ OneHandler)'
    BY DEF Led, cluster, LifeIInv, IInv, IdleRuns, HasPod, ScaleRead, PastIsolation,
           IsolatedFirst, OneHandler
  <1>3. Accounted'
    BY DEF Led, cluster, LifeIInv, IInv, Accounted
  <1>4. LifeTypeOK' /\ DryRunIsClean' /\ CleanSoFar'
    BY DEF Led, cluster, life, LifeIInv, LifeTypeOK, DryRunIsClean, CleanSoFar, Cleaning
  <1>5. QED
    BY <1>1, <1>2, <1>3, <1>4 DEF IInv, LifeIInv

\* The invariant of the lifecycle needs nothing of the election.
LEMMA OperatorKeepsLife == OperatorSpec => []LifeIInv
  <1>1. LifeIInv /\ [OperatorNext]_operatorVars => LifeIInv'
    BY OperatorStepCases, LedKeeps, LifeStepKeeps
  <1>2. QED
    BY <1>1, LifeInitOK, PTL DEF OperatorSpec, OperatorInit

-------------------------------------------------------------------------------
(* What holds whatever the election does *)

\* Replicas that share a resource and lead by turns, none of them, or all at once
\* after a split brain, do not let a pod be ejected before it is isolated (on_timer).
THEOREM OperatorIsolatesFirst == OperatorSpec => []IsolatedFirst
  BY OperatorKeepsLife, PTL DEF LifeIInv, IInv

\* The clean-up needs no election either: what a deleted resource leaves behind has
\* escaped in one of the four ways, split brain or not (on_delete).
THEOREM OperatorCleansUp == OperatorSpec => []NothingLeft
  <1>1. LifeIInv => NothingLeft
    BY DEF LifeIInv, CleanSoFar, NothingLeft
  <1>2. QED
    BY <1>1, OperatorKeepsLife, PTL

\* maxReplicas is kept by every replica on its own (execute_remediation): no number
\* of leaders goes past it.
THEOREM OperatorKeepsCap == OperatorSpec => HardCap
  <1>1. LifeIInv /\ [OperatorNext]_operatorVars =>
          [\A r \in Replica :
             h[r].pc = "scale" /\ h'[r].pc # "scale" =>
               replicas' = replicas \/ replicas' <= MaxReplicas]_vars
    <2> SUFFICES ASSUME LifeIInv, [OperatorNext]_operatorVars, NEW r \in Replica,
                        h[r].pc = "scale", h'[r].pc # "scale"
                 PROVE  replicas' = replicas \/ replicas' <= MaxReplicas
      OBVIOUS
    <2>1. CASE Led
      BY <2>1 DEF Led
    <2>2. CASE [LifeNext]_lifeVars
      BY <2>2, LifeStepKeepsCap DEF LifeIInv
    <2>3. QED
      BY <2>1, <2>2, OperatorStepCases
  <1>2. QED
    BY <1>1, OperatorKeepsLife, PTL DEF OperatorSpec, HardCap

\* Changes of leader and clean-ups in the middle of a pipeline do not make it record
\* a part of itself: remediationHistory has whole pipelines only (on_timer).
THEOREM OperatorRecordsWhole == OperatorSpec => []AllOrNothing
  <1>1. LifeIInv /\ RunsAreWhole /\ [OperatorNext]_operatorVars => RunsAreWhole'
    <2> SUFFICES ASSUME LifeIInv, RunsAreWhole, [OperatorNext]_operatorVars
                 PROVE  RunsAreWhole'
      OBVIOUS
    <2>1. TypeOK
      BY DEF LifeIInv, IInv
    <2>2. CASE UNCHANGED h
      BY <2>2 DEF RunsAreWhole, WholeRun
    <2>3. CASE [Next]_vars
      BY <2>1, <2>3, StepKeepsWhole
    <2>4. QED
      BY <2>1, <2>2, <2>3, OperatorStepCases, LifeStepCases DEF Led, Aside
  <1>2. QED
    BY <1>1, InitIsWhole, WholeRunsRecordWhole, OperatorKeepsLife, PTL
    DEF OperatorSpec, OperatorInit, LifeInit

\* The cooldown gate stands over the whole operator: a split brain opens it early
\* only by two handlers that overlap (on_timer).
THEOREM OperatorImplementsGate == OperatorSpec => ImplementsGate
  <1>1. LifeIInv /\ LifeIInv' /\ [OperatorNext]_operatorVars => [Gate!Next]_(Gate!vars)
    <2> SUFFICES ASSUME LifeIInv, LifeIInv', [OperatorNext]_operatorVars
                 PROVE  [Gate!Next]_(Gate!vars)
      OBVIOUS
    <2>1. CASE Led
      BY <2>1 DEF Led, Gate!vars
    <2>2. CASE [LifeNext]_lifeVars
      BY <2>2, LifeStepIsGateStep DEF LifeIInv
    <2>3. QED
      BY <2>1, <2>2, OperatorStepCases
  <1>2. QED
    BY <1>1, InitIsGateInit, OperatorKeepsLife, PTL
    DEF OperatorSpec, OperatorInit, LifeInit, ImplementsGate, Gate!Spec

-------------------------------------------------------------------------------
(* A step of the operator, as the election sees it *)

\* The election of Operator is the one that LeaderElectionProofs is about.
LEMMA SameNext == Election!Next <=> P!Next
  BY DEF Election!Next, P!Next, Election!Heartbeat, P!Heartbeat, Election!ApiFault,
         P!ApiFault, Election!Shutdown, P!Shutdown, Election!Start, P!Start,
         Election!BeginHeartbeat, P!BeginHeartbeat, Election!ReadLease, P!ReadLease,
         Election!ReadRefused, P!ReadRefused, Election!ReadBreaks, P!ReadBreaks,
         Election!StandBy, P!StandBy, Election!Acquire, P!Acquire,
         Election!WriteRefused, P!WriteRefused, Election!WriteBreaks, P!WriteBreaks,
         Election!Stop, P!Stop, Election!EndStop, P!EndStop, Election!ReleaseRead,
         P!ReleaseRead, Election!ReleaseNotHolder, P!ReleaseNotHolder, Election!Release,
         P!Release, Election!ReleaseRefused, P!ReleaseRefused, Election!ReleaseBreaks,
         P!ReleaseBreaks, Election!Exit, P!Exit, Election!Tick, P!Tick, Election!Late,
         P!Late, Election!Older, P!Older, Election!Lead, P!Lead, Election!BreakAttempt,
         P!BreakAttempt, Election!EndAttempt, P!EndAttempt, Election!Forget, P!Forget,
         Election!Land, P!Land, Election!WantsLease, P!WantsLease, Election!NoWrite,
         P!NoWrite, Election!Write, P!Write, Election!Silent, P!Silent,
         Election!MaybeLive, P!MaybeLive, Election!MaybeExpired, P!MaybeExpired,
         Election!Calling, P!Calling, Election!lease, P!lease, Election!attempt,
         P!attempt

LEMMA SameInvariant == Election!IInv <=> P!IInv
  BY DEF Election!IInv, P!IInv, Election!TypeOK, P!TypeOK, Election!Snapshot,
         P!Snapshot, Election!Punctual, P!Punctual, Election!LeaderHolds, P!LeaderHolds,
         Election!Leaders, P!Leaders, Election!AgeBound, P!AgeBound, Election!Calling,
         P!Calling, Election!Phase, P!Phase, Election!Holder, P!Holder, Election!Age,
         P!Age, Election!Wait, P!Wait, Election!Blame, P!Blame

LEMMA OperatorStepElects ==
  ASSUME [OperatorNext]_operatorVars
  PROVE  [Election!Next]_(Election!vars)
  <1>1. ASSUME NEW r \in Replica, Elects(r) \/ Exits(r)
        PROVE  Election!Next
    BY <1>1 DEF Elects, Exits, Election!Next
  <1>2. ASSUME NEW r \in Replica, Handles(r)
        PROVE  UNCHANGED Election!vars
    BY <1>2 DEF Handles, election, Election!vars
  <1>3. CASE Others
    BY <1>3 DEF Others, election, Election!vars
  <1>4. CASE Clock
    BY <1>4 DEF Clock, Election!Next
  <1>5. CASE UNCHANGED operatorVars
    BY <1>5 DEF operatorVars, election, Election!vars
  <1>6. QED
    BY <1>1, <1>2, <1>3, <1>4, <1>5 DEF OperatorNext

\* Handlers, pipelines and clean-ups are no more to the election than time that
\* passes: the Lease protocol of the deployed operator is LeaderElection.tla's, with
\* all that is proved about it (LeaderElector).
THEOREM OperatorImplementsElection == OperatorSpec => Election!Spec
  BY OperatorStepElects, PTL DEF OperatorSpec, OperatorInit, Election!Spec

-------------------------------------------------------------------------------
(* What the two promise together *)

\* An action of replica r in the election is about its own leadership.
LEMMA OwnLeadership ==
  ASSUME NEW r \in Replica, Elects(r)
  PROVE  UNCHANGED isLeader \/ \E b \in BOOLEAN : isLeader' = [isLeader EXCEPT ![r] = b]
  BY DEF Elects, Election!Start, Election!Heartbeat, Election!BeginHeartbeat,
         Election!ReadLease, Election!StandBy, Election!Acquire, Election!Stop,
         Election!Shutdown, Election!ReleaseRead, Election!ReleaseNotHolder,
         Election!Release, Election!ApiFault, Election!ReadRefused, Election!ReadBreaks,
         Election!WriteRefused, Election!WriteBreaks, Election!BreakAttempt,
         Election!ReleaseRefused, Election!ReleaseBreaks, Election!Lead

\* The handlers leave the leaders alone.
LEMMA HandlersDoNotElect ==
  ASSUME NEW r \in Replica, Handles(r)
  PROVE  UNCHANGED leaders
  <1>1. CASE Creation(r) \/ Notice(r) \/ Deletion(r) \/ UnruleFails(r) \/ ReleaseFails(r)
             \/ \E p \in Pod : UnlabelFails(r, p) \/ UnlabelRaises(r, p)
    BY <1>1 DEF Creation, CreateOnStandby, CreateOnLeader, SeeHandled, Notice, Deletion,
                Skip, BeginCleanup, Unrule, Release, Unlabel, Unlabelled, UnruleFails,
                ReleaseFails, UnlabelFails, UnlabelRaises, vars
  <1>2. CASE Reconciles(r)
    BY <1>2 DEF Reconciles, OnTimer, Check, NothingToDo, CooldownActive, NoPodToRemediate,
                BeginPipeline, Found, Perform, ReadScale, AtCap, Ticket, Record
  <1>3. CASE ReconcileFails(r)
    BY <1>3 DEF ReconcileFails, CheckBreaks, StepFails, ScaleFails, TicketRefused, Raise,
                RecordFails
  <1>4. QED
    BY <1>1, <1>2, <1>3 DEF Handles

LEMMA StepAgrees ==
  ASSUME OperatorIInv, [OperatorNext]_operatorVars
  PROVE  leaders' = Election!Leaders'
  <1>1. isLeader \in [Replica -> BOOLEAN]
    BY DEF OperatorIInv, Election!IInv, Election!TypeOK
  <1>2. ASSUME NEW r \in Replica, Elects(r)
        PROVE  leaders' = Election!Leaders'
    BY <1>2 DEF Elects, Election!Leaders
  <1>3. ASSUME NEW r \in Replica, Handles(r)
        PROVE  UNCHANGED <<leaders, isLeader>>
    BY <1>3, HandlersDoNotElect DEF Handles, election
  <1>4. ASSUME NEW r \in Replica, Exits(r)
        PROVE  leaders' = Election!Leaders'
    <2>1. isLeader' = [isLeader EXCEPT ![r] = FALSE]
      BY <1>4 DEF Exits, Election!Exit, Election!Lead
    <2>2. leaders' = leaders \ {r}
      BY <1>4 DEF Exits, CrashAndRestart, Crash, vars
    <2>3. QED
      BY <1>1, <2>1, <2>2 DEF OperatorIInv, Election!Leaders
  <1>5. CASE Others \/ Clock \/ UNCHANGED operatorVars
    <2>1. UNCHANGED <<leaders, isLeader>>
      BY <1>5 DEF Others, Clock, Delete, Autoscale, Tick, Election!Tick, election, vars,
                  operatorVars, lifeVars
    <2>2. QED
      BY <2>1 DEF OperatorIInv, Election!Leaders
  <1>6. QED
    BY <1>2, <1>3, <1>4, <1>5 DEF OperatorNext, OperatorIInv, Election!Leaders

LEMMA OperatorKeepsIInv ==
  ASSUME ElectionAssumption
  PROVE  OperatorIInv /\ [OperatorNext]_operatorVars => OperatorIInv'
  <1> SUFFICES ASSUME OperatorIInv, [OperatorNext]_operatorVars PROVE OperatorIInv'
    OBVIOUS
  <1>1. LifeIInv'
    BY OperatorStepCases, LedKeeps, LifeStepKeeps DEF OperatorIInv
  <1>2. P!IdentityAssumption /\ P!TimingAssumption
    BY DEF ElectionAssumption, Election!IdentityAssumption, P!IdentityAssumption,
           Election!TimingAssumption, P!TimingAssumption
  <1>3. P!IInv /\ [P!Next]_(P!vars)
    BY OperatorStepElects, SameNext, SameInvariant DEF OperatorIInv, Election!vars, P!vars
  <1>4. P!IInv'
    BY <1>2, <1>3, P!NextIInv
  <1>5. Election!IInv'
    BY <1>4, SameInvariant, PTL
  <1>6. QED
    BY <1>1, <1>5, StepAgrees DEF OperatorIInv

LEMMA OperatorInitOK ==
  ASSUME ElectionAssumption
  PROVE  OperatorInit => OperatorIInv
  <1>1. P!IdentityAssumption /\ P!TimingAssumption
    BY DEF ElectionAssumption, Election!IdentityAssumption, P!IdentityAssumption,
           Election!TimingAssumption, P!TimingAssumption
  <1>2. Election!Init => P!Init
    BY DEF Election!Init, P!Init
  <1>3. Election!Init => Election!IInv
    BY <1>1, <1>2, P!InitIInv, SameInvariant
  <1>4. OperatorInit => leaders = Election!Leaders
    BY DEF OperatorInit, LifeInit, Init, Election!Init, Election!Leaders
  <1>5. QED
    BY <1>3, <1>4, LifeInitOK DEF OperatorInit, OperatorIInv

\* Election and handlers in one process keep their invariants, and is_leader() is
\* what the Lease protocol made of it, for any timing that the election allows.
THEOREM OperatorInductive ==
  ASSUME ElectionAssumption
  PROVE  OperatorSpec => []OperatorIInv
  BY OperatorInitOK, OperatorKeepsIInv, PTL DEF OperatorSpec

\* Only the leader's timer begins a run of on_timer.
LEMMA OnlyLeadersBegin ==
  ASSUME LifeIInv, [OperatorNext]_operatorVars, NEW r \in Replica,
         h[r].pc = "idle", h'[r].pc # "idle"
  PROVE  r \in leaders
  <1>1. ASSUME NEW q \in Replica, OnTimer(q) \/ Failure(q)
        PROVE  q = r /\ Check(q)
    <2>1. PICK x : h' = [h EXCEPT ![q] = x]
      BY <1>1, HandlerMoves DEF Move, Typed, LifeIInv
    <2>2. q = r
      BY <2>1 DEF LifeIInv, IInv, TypeOK
    <2>3. CASE OnTimer(q)
      BY <2>2, <2>3 DEF OnTimer, NothingToDo, CooldownActive, NoPodToRemediate,
                        BeginPipeline, Found, Perform, ReadScale, AtCap, Ticket, Record, Working
    <2>4. CASE Failure(q)
      <3>1. Idle.pc = "idle"
        BY DEF Idle
      <3>2. h'[q] = x
        BY <2>1, <2>2 DEF LifeIInv, IInv, TypeOK
      <3>3. h[q].pc # "idle" \/ x = Idle
        BY <2>2, <2>4, <3>2 DEF Failure, CheckBreaks, StepFails, ScaleFails, TicketRefused,
                                Raise, RecordFails, Crash, Vanish, LifeIInv, IInv, TypeOK
      <3>4. QED
        BY <2>2, <3>1, <3>2, <3>3
    <2>5. QED
      BY <1>1, <2>2, <2>3, <2>4
  <1>2. CASE UNCHANGED h
    BY <1>2
  <1>3. CASE Tick
    BY <1>3 DEF Tick
  <1>4. CASE \E q \in Replica : OnTimer(q) \/ Failure(q)
    BY <1>1, <1>4 DEF Check
  <1>5. [Next]_vars \/ Aside \/ Led
    BY OperatorStepCases, LifeStepCases DEF LifeIInv, IInv
  <1>6. QED
    BY <1>2, <1>3, <1>4, <1>5 DEF Next, Elect, Autoscale, vars, Aside, Led

\* Nobody leads beside a leader, and leaders hold Leases that have not expired.
LedByLease ==
  blame = {} => /\ \A r, s \in leaders : r = s
                /\ \A r \in leaders : holder = r /\ age < LeaseDuration

LEMMA OperatorIsLed ==
  ASSUME ElectionAssumption
  PROVE  OperatorIInv => LedByLease
  <1> SUFFICES ASSUME OperatorIInv PROVE LedByLease
    OBVIOUS
  <1>1. P!IdentityAssumption /\ P!TimingAssumption
    BY DEF ElectionAssumption, Election!IdentityAssumption, P!IdentityAssumption,
           Election!TimingAssumption, P!TimingAssumption
  <1>2. P!NoSplitBrain /\ P!LeaderHoldsLiveLease
    BY <1>1, SameInvariant, P!IInvImpliesNoSplitBrain, P!IInvImpliesHolds DEF OperatorIInv
  <1>3. P!Leaders = leaders
    BY DEF OperatorIInv, P!Leaders, Election!Leaders
  <1>4. QED
    BY <1>2, <1>3 DEF P!NoSplitBrain, P!LeaderHoldsLiveLease, LedByLease

\* A blame is never lifted.
LEMMA OperatorBlameGrows ==
  ASSUME ElectionAssumption, OperatorIInv, [OperatorNext]_operatorVars, blame' = {}
  PROVE  blame = {}
  <1>1. P!IdentityAssumption /\ P!TimingAssumption
    BY DEF ElectionAssumption, Election!IdentityAssumption, P!IdentityAssumption,
           Election!TimingAssumption, P!TimingAssumption
  <1>2. P!IInv /\ [P!Next]_(P!vars)
    BY OperatorStepElects, SameNext, SameInvariant DEF OperatorIInv, Election!vars, P!vars
  <1>3. QED
    BY <1>1, <1>2, P!BlameGrows DEF P!IInv

\* Until a fault is blamed, a step of the election is one of Reconcile.tla's Elect.
LEMMA ElectsIsLeaderChange ==
  ASSUME OperatorIInv, LedByLease', blame' = {}, NEW r \in Replica, Elects(r)
  PROVE  [LifeNext]_lifeVars
  <1>1. isLeader \in [Replica -> BOOLEAN] /\ leaders = {s \in Replica : isLeader[s]}
    BY DEF OperatorIInv, Election!IInv, Election!TypeOK, Election!Leaders
  <1>2. /\ leaders' = {s \in Replica : isLeader'[s]}
        /\ UNCHANGED <<h, status, cluster, dryRun, since, lapses, life>>
        /\ LoopIsFree(r)
    BY DEF Elects
  <1>3. CASE UNCHANGED leaders
    BY <1>2, <1>3 DEF lifeVars, vars
  <1>4. CASE leaders' # leaders
    <2>1. \/ leaders' = leaders \ {r} /\ r \in leaders
          \/ leaders' = leaders \cup {r} /\ r \notin leaders
      BY <1>1, <1>2, <1>4, OwnLeadership
    <2>2. r \notin leaders /\ leaders' = leaders \cup {r} => leaders = {} /\ leaders' = {r}
      BY DEF LedByLease
    <2>3. Elect(r)
      BY <1>2, <2>1, <2>2 DEF Elect, LoopIsFree
    <2>4. Meanwhile
      BY <1>2 DEF Meanwhile, life, cluster, OperatorIInv, LifeIInv, LifeTypeOK
    <2>5. QED
      BY <1>2, <2>3, <2>4 DEF LoopIsFree, LeaderChange, LifeNext, Faultless
  <1>5. QED
    BY <1>3, <1>4

\* Lifecycle.tla, with its election by turns, is what the handlers of the deployed
\* operator see until a fault of the election is blamed (LeaderElector, operator.py).
THEOREM OperatorImplementsLifecycle ==
  ASSUME ElectionAssumption
  PROVE  OperatorSpec => ImplementsLifecycle
  <1>1. OperatorIInv => LedByLease
    BY OperatorIsLed
  <1>2. OperatorIInv /\ LedByLease' /\ [OperatorNext]_operatorVars
          => [blame' = {} => [LifeNext]_lifeVars]_operatorVars
    <2> SUFFICES ASSUME OperatorIInv, LedByLease', [OperatorNext]_operatorVars, blame' = {}
                 PROVE  [LifeNext]_lifeVars
      OBVIOUS
    <2>1. ASSUME NEW r \in Replica, Elects(r)
          PROVE  [LifeNext]_lifeVars
      BY <2>1, ElectsIsLeaderChange
    <2>2. ASSUME \A r \in Replica : ~Elects(r)
          PROVE  [LifeNext]_lifeVars
      BY <2>2 DEF OperatorNext, Handles, Exits, Others, Clock, LifeNext, Faultless,
                  LifeFault, Surroundings, operatorVars
    <2>3. QED
      BY <2>1, <2>2
  <1>3. QED
    BY <1>1, <1>2, OperatorInductive, PTL DEF OperatorSpec, OperatorInit, ImplementsLifecycle

\* A step that leaves a leader's pipeline at work leaves it the leader.
LEMMA PipelineStaysLed ==
  ASSUME OperatorIInv, [OperatorNext]_operatorVars, NEW r \in leaders,
         h[r].pc \in Working, h'[r].pc \in Working
  PROVE  r \in leaders'
  <1>1. /\ isLeader \in [Replica -> BOOLEAN]
        /\ leaders = {s \in Replica : isLeader[s]}
        /\ r \in Replica
    BY DEF OperatorIInv, Election!IInv, Election!TypeOK, Election!Leaders
  <1>2. ASSUME NEW q \in Replica, Elects(q)
        PROVE  r \in leaders'
    <2>1. q # r
      BY <1>2 DEF Elects, LoopIsFree, Suspended, Working
    <2>2. QED
      BY <1>1, <1>2, <2>1, OwnLeadership DEF Elects
  <1>3. ASSUME NEW q \in Replica, Exits(q)
        PROVE  r \in leaders'
    <2>1. CASE q = r
      <3>1. h' = [h EXCEPT ![r] = Idle]
        BY <1>3, <2>1 DEF Exits, CrashAndRestart, Crash, Vanish
      <3>2. QED
        BY <1>1, <3>1 DEF OperatorIInv, LifeIInv, IInv, TypeOK, Idle, Working
    <2>2. CASE q # r
      BY <1>3, <2>2 DEF Exits, CrashAndRestart, Crash, vars
    <2>3. QED
      BY <2>1, <2>2
  <1>4. ASSUME (\E q \in Replica : Handles(q)) \/ Others \/ Clock \/ UNCHANGED operatorVars
        PROVE  r \in leaders'
    BY <1>4, HandlersDoNotElect
    DEF Others, Clock, Delete, Autoscale, Tick, vars, operatorVars, lifeVars
  <1>5. QED
    BY <1>2, <1>3, <1>4 DEF OperatorNext

\* Whoever comes to lead while a leader's pipeline blocks its heartbeat does so by a
\* fault that the election is blamed for: with the timing of LeaderElection.tla a
\* pipeline that began on the leader ends under a live Lease (_heartbeat_loop,
\* execute_remediation).
THEOREM PipelinesAreFenced ==
  ASSUME ElectionAssumption
  PROVE  OperatorSpec => PipelineHoldsLease
  <1>1. OperatorIInv => LedByLease
    BY OperatorIsLed
  <1>2. OperatorIInv /\ LedByLease' /\ [OperatorNext]_operatorVars
          => [blame' = {} =>
                \A r \in leaders :
                  h[r].pc \in Working /\ h'[r].pc \in Working =>
                    leaders' = {r} /\ holder' = r /\ age' < LeaseDuration]_operatorVars
    BY PipelineStaysLed DEF LedByLease
  <1>3. QED
    BY <1>1, <1>2, OperatorInductive, PTL DEF OperatorSpec, PipelineHoldsLease

\* Without a fault of the election a handler begins beside another only when that one
\* has outlived the leadership of its replica (on_timer, is_leader).
THEOREM OverlapNeedsDeposed ==
  ASSUME ElectionAssumption
  PROVE  OperatorSpec => OverlapIsWithDeposed
  <1>1. OperatorIInv => LedByLease
    BY OperatorIsLed
  <1>2. OperatorIInv /\ LedByLease /\ [OperatorNext]_operatorVars
          => [blame' = {} =>
                \A r, s \in Replica :
                  /\ r # s
                  /\ h[r].pc = "idle" /\ h'[r].pc # "idle"
                  /\ h[s].pc # "idle"
                  => s \notin leaders]_operatorVars
    BY OnlyLeadersBegin, OperatorBlameGrows DEF LedByLease, OperatorIInv
  <1>3. QED
    BY <1>1, <1>2, OperatorInductive, PTL DEF OperatorSpec, OverlapIsWithDeposed

===============================================================================
