---------------------------- MODULE LifecycleProofs ----------------------------
(***************************************************************************)
(* Theorems about Lifecycle, for any replicas, pods, answers, steps and    *)
(* limits that satisfy the assumptions: what Reconcile.tla promises is     *)
(* kept through creation and deletion, and a clean-up that nothing escaped *)
(* leaves nothing in the mesh.                                             *)
(***************************************************************************)
EXTENDS Lifecycle, ReconcileProofs

-------------------------------------------------------------------------------
(* A step of the lifecycle, as Reconcile.tla sees it *)

\* on_create and on_delete touch the status, the rule and the labels.
Aside ==
  /\ UNCHANGED <<leaders, h, isolated, replicas, dryRun, since, lapses>>
  /\ status' = status \/ status' = [status EXCEPT !.phase = "healthy", !.unhealthy = {},
                                                   !.incidents = 0]
  /\ rule' = rule \/ rule' = FALSE
  /\ ejected' \subseteq ejected

LEMMA AsideKeepsIInv ==
  ASSUME IInv, Aside
  PROVE  IInv'
  <1>1. status' \in Status /\ status'.last = status.last
    <2>1. status \in Status
      BY DEF IInv, TypeOK
    <2>2. CASE status' = status
      BY <2>1, <2>2
    <2>3. CASE status' = [status EXCEPT !.phase = "healthy", !.unhealthy = {}, !.incidents = 0]
      <3>1. 0 \in 0 .. MaxIncidents
        BY ReconcileAssumption
      <3>2. status' \in Status
        BY <2>1, <2>3, <3>1 DEF Status
      <3>3. QED
        BY <2>1, <2>3, <3>2 DEF Status
    <2>4. QED
      BY <2>2, <2>3 DEF Aside
  <1>2. TypeOK'
    BY <1>1 DEF Aside, IInv, TypeOK
  <1>3. (IdleRuns /\ HasPod /\ ScaleRead /\ PastIsolation /\ IsolatedFirst /\ OneHandler)'
    BY DEF Aside, IInv, IdleRuns, HasPod, ScaleRead, PastIsolation, IsolatedFirst, OneHandler
  <1>4. Accounted'
    BY <1>1 DEF Aside, IInv, Accounted
  <1>5. QED
    BY <1>2, <1>3, <1>4 DEF IInv

LEMMA LifeStepCases ==
  ASSUME TypeOK, [LifeNext]_lifeVars
  PROVE  [Next]_vars \/ Aside
  <1>1. CASE UNCHANGED lifeVars
    BY <1>1 DEF lifeVars
  <1>2. ASSUME NEW r \in Replica,
               \/ CreateOnStandby(r) \/ SeeHandled(r) \/ Notice(r) \/ Skip(r)
               \/ BeginCleanup(r) \/ Release(r) \/ ReleaseFails(r)
        PROVE  UNCHANGED vars
    BY <1>2 DEF CreateOnStandby, SeeHandled, Notice, Skip, BeginCleanup, Release, ReleaseFails
  <1>3. ASSUME NEW r \in Replica, CreateOnLeader(r)
        PROVE  Aside
    BY <1>3 DEF CreateOnLeader, Aside, cluster, TypeOK
  <1>4. ASSUME NEW r \in Replica, Unrule(r) \/ UnruleFails(r)
        PROVE  Aside
    BY <1>4 DEF Unrule, UnruleFails, Aside, TypeOK
  <1>5. ASSUME NEW r \in Replica, NEW p \in Pod,
               Unlabel(r, p) \/ UnlabelFails(r, p) \/ UnlabelRaises(r, p)
        PROVE  Aside
    BY <1>5 DEF Unlabel, UnlabelFails, UnlabelRaises, Unlabelled, Aside, TypeOK
  <1>6. ASSUME NEW r \in Replica,
               Reconciles(r) \/ ReconcileFails(r) \/ LeaderChange(r) \/ CrashAndRestart(r)
        PROVE  [Next]_vars
    BY <1>6 DEF Reconciles, ReconcileFails, LeaderChange, CrashAndRestart, Failure, Next
  <1>7. CASE Delete
    BY <1>7 DEF Delete
  <1>8. CASE Surroundings
    BY <1>8 DEF Surroundings, Next
  <1>9. QED
    BY <1>1, <1>2, <1>3, <1>4, <1>5, <1>6, <1>7, <1>8
    DEF LifeNext, Faultless, Creation, Deletion, LifeFault

LEMMA LifeKeepsIInv == IInv /\ [LifeNext]_lifeVars => IInv'
  BY LifeStepCases, AsideKeepsIInv, StepKeepsIInv DEF IInv

LEMMA LifeReconciles == LifeSpec => []IInv
  BY LifeKeepsIInv, InitIInv, PTL DEF LifeSpec, LifeInit

-------------------------------------------------------------------------------
(* What Reconcile promises *)

\* Isolation comes before ejection in every life of a resource, clean-ups that
\* run beside a pipeline included (on_timer and on_delete).
THEOREM LifeIsolatesFirst == LifeSpec => []IsolatedFirst
  BY LifeReconciles, PTL DEF IInv

LEMMA LifeStepIsGateStep ==
  ASSUME IInv, IInv', [LifeNext]_lifeVars
  PROVE  [Gate!Next]_(Gate!vars)
  <1>1. CASE Aside
    BY <1>1 DEF Aside, Gate!vars
  <1>2. CASE [Next]_vars
    BY <1>2, StepIsGateStep
  <1>3. QED
    BY <1>1, <1>2, LifeStepCases DEF IInv

\* The cooldown gate is kept through on_create, which resets part of the status,
\* and through a deletion that overtakes a pipeline (on_create, on_delete).
THEOREM LifeImplementsGate == LifeSpec => ImplementsGate
  BY LifeStepIsGateStep, InitIsGateInit, LifeReconciles, PTL
  DEF LifeSpec, LifeInit, ImplementsGate, Gate!Spec

LEMMA LifeStepKeepsCap ==
  ASSUME IInv, [LifeNext]_lifeVars
  PROVE  \A r \in Replica :
           h[r].pc = "scale" /\ h'[r].pc # "scale" =>
             replicas' = replicas \/ replicas' <= MaxReplicas
  <1>1. CASE Aside
    BY <1>1 DEF Aside
  <1>2. CASE [Next]_vars
    BY <1>2, StepKeepsCap
  <1>3. QED
    BY <1>1, <1>2, LifeStepCases DEF IInv

\* No scale-up goes past maxReplicas while the resource is created and deleted
\* around it (execute_remediation, on_create, on_delete).
THEOREM LifeCapIsHard == LifeSpec => HardCap
  <1>1. IInv /\ [LifeNext]_lifeVars =>
          [\A r \in Replica :
             h[r].pc = "scale" /\ h'[r].pc # "scale" =>
               replicas' = replicas \/ replicas' <= MaxReplicas]_vars
    BY LifeStepKeepsCap
  <1>2. QED
    BY <1>1, LifeReconciles, PTL DEF LifeSpec, HardCap

-------------------------------------------------------------------------------
(* The clean-up *)

LEMMA LifeInitOK == LifeInit => LifeIInv
  <1> SUFFICES ASSUME LifeInit PROVE LifeIInv
    OBVIOUS
  <1>1. IInv /\ ~rule /\ ejected = {}
    BY InitIInv DEF LifeInit, Init
  <1>2. LifeTypeOK
    BY DEF LifeInit, LifeTypeOK, Cleanup, NoCleanup
  <1>3. QED
    BY <1>1, <1>2 DEF LifeIInv, DryRunIsClean, CleanSoFar

\* A dry run changes nothing.
LEMMA DryRunTouchesNothing ==
  ASSUME dryRun, [Next]_vars
  PROVE  UNCHANGED <<rule, ejected>>
  <1>1. ASSUME NEW r \in Replica, OnTimer(r) \/ Failure(r)
        PROVE  UNCHANGED <<rule, ejected>>
    BY <1>1 DEF OnTimer, Failure, Check, NothingToDo, CooldownActive, NoPodToRemediate,
                BeginPipeline, Found, Perform, Effect, NoEffect, ReadScale, AtCap, Ticket,
                Record, CheckBreaks, StepFails, ScaleFails, TicketRefused, Raise,
                RecordFails, Crash, cluster
  <1>2. QED
    BY <1>1 DEF Next, Elect, Autoscale, Tick, vars, cluster

\* A step of Reconcile.tla keeps what the clean-ups have done, or escapes.
LEMMA MeanwhileKeeps ==
  ASSUME LifeIInv, [Next]_vars, Meanwhile
  PROVE  LifeTypeOK' /\ CleanSoFar'
  <1>1. LifeTypeOK'
    BY DEF LifeIInv, LifeTypeOK, Meanwhile, Escape
  <1>2. CASE UNCHANGED <<rule, ejected>>
    BY <1>1, <1>2 DEF LifeIInv, CleanSoFar, Meanwhile, Cleaning
  <1>3. CASE ~UNCHANGED <<rule, ejected>> /\ Begun
    <2>1. escapes' # {}
      BY <1>3 DEF Meanwhile
    <2>2. QED
      BY <1>1, <2>1 DEF CleanSoFar
  <1>4. CASE ~Begun
    BY <1>1, <1>4 DEF Begun, CleanSoFar, Cleaning, Meanwhile
  <1>5. QED
    BY <1>1, <1>2, <1>3, <1>4

LEMMA CrashKeeps ==
  ASSUME LifeIInv, NEW r \in Replica, CrashAndRestart(r)
  PROVE  LifeTypeOK' /\ CleanSoFar'
  <1>1. UNCHANGED <<rule, ejected, resource, escapes>>
    BY DEF CrashAndRestart, Crash, vars, cluster
  <1>2. PICK pc \in {"none", "aware", "done"} :
          cleanup' = [cleanup EXCEPT ![r] = [pc |-> pc, todo |-> {}]]
    BY DEF CrashAndRestart, LifeIInv, LifeTypeOK
  <1>3. LifeTypeOK'
    BY <1>1, <1>2 DEF CrashAndRestart, LifeIInv, LifeTypeOK, Cleanup
  <1>4. \A s \in Replica : s # r => cleanup'[s] = cleanup[s]
    BY <1>2 DEF LifeIInv, LifeTypeOK
  <1>5. cleanup'[r].pc \in {"none", "aware", "done"}
    BY <1>2 DEF LifeIInv, LifeTypeOK
  <1>6. CleanSoFar'
    BY <1>1, <1>4, <1>5 DEF LifeIInv, CleanSoFar, Cleaning
  <1>7. QED
    BY <1>3, <1>6

\* One replica's clean-up has come to x, the mesh being no worse.
Cleans(r, x) ==
  /\ cleanup' = [cleanup EXCEPT ![r] = x]
  /\ x \in Cleanup
  /\ ejected' \subseteq ejected
  /\ rule' = rule \/ rule' = FALSE
  /\ resource' = resource
  /\ fresh' = fresh
  /\ escapes \subseteq escapes'
  /\ escapes' \subseteq Escape

LEMMA CleansKeeps ==
  ASSUME LifeIInv, NEW r \in Replica, NEW x, Cleans(r, x),
         escapes' = {} /\ x.pc \in {"unrule", "unlabel"} => ejected' \subseteq x.todo,
         escapes' = {} /\ x.pc \in {"unlabel", "swept"} => ~rule',
         escapes' = {} /\ x.pc = "swept" => ejected' = {}
  PROVE  LifeTypeOK' /\ CleanSoFar'
  <1>1. /\ cleanup'[r] = x
        /\ \A s \in Replica : s # r => cleanup'[s] = cleanup[s]
    BY DEF Cleans, LifeIInv, LifeTypeOK
  <1>2. LifeTypeOK'
    BY DEF Cleans, LifeIInv, LifeTypeOK
  <1>3. ASSUME escapes' = {}, NEW s \in Replica
        PROVE  /\ Cleaning(s)' => ejected' \subseteq cleanup'[s].todo
               /\ cleanup'[s].pc \in {"unlabel", "swept"} => ~rule'
               /\ cleanup'[s].pc = "swept" => ejected' = {}
    <2>1. CASE s = r
      BY <1>1, <1>3, <2>1 DEF Cleaning
    <2>2. CASE s # r
      BY <1>1, <1>3, <2>2 DEF Cleaning, Cleans, LifeIInv, CleanSoFar
    <2>3. QED
      BY <2>1, <2>2
  <1>4. escapes' = {} /\ resource' = "none" => ~rule' /\ ejected' = {}
    BY DEF Cleans, LifeIInv, CleanSoFar
  <1>5. QED
    BY <1>2, <1>3, <1>4 DEF CleanSoFar

LEMMA NoticeKeeps ==
  ASSUME LifeIInv, NEW r \in Replica,
         Notice(r) \/ Skip(r) \/ ReleaseFails(r)
  PROVE  LifeTypeOK' /\ CleanSoFar'
  <1>1. PICK pc \in {"aware", "done", "skipped"} : CleanupAt(r, pc)
    BY DEF Notice, Skip, ReleaseFails
  <1>2. PICK x : /\ x = [cleanup[r] EXCEPT !.pc = pc]
                 /\ cleanup' = [cleanup EXCEPT ![r] = x]
    BY <1>1 DEF CleanupAt
  <1>3. x \in Cleanup /\ x.pc = pc
    BY <1>2 DEF LifeIInv, LifeTypeOK, Cleanup
  <1>4. Cleans(r, x)
    BY <1>2, <1>3 DEF Cleans, Notice, Skip, ReleaseFails, vars, cluster, LifeIInv, LifeTypeOK
  <1>5. QED
    BY <1>3, <1>4, CleansKeeps

LEMMA BeginCleanupKeeps ==
  ASSUME LifeIInv, NEW r \in Replica, BeginCleanup(r)
  PROVE  LifeTypeOK' /\ CleanSoFar'
  <1> DEFINE x == [pc |-> "unrule", todo |-> status.unhealthy]
  <1>1. x \in Cleanup
    BY DEF LifeIInv, IInv, TypeOK, Status, Cleanup
  <1>2. Cleans(r, x)
    BY <1>1 DEF Cleans, BeginCleanup, vars, cluster, LifeIInv, LifeTypeOK, Escape
  <1>3. escapes' = {} => ejected' \subseteq x.todo
    BY DEF BeginCleanup, vars, cluster
  <1>4. QED
    BY <1>2, <1>3, CleansKeeps

LEMMA UnruleKeeps ==
  ASSUME LifeIInv, NEW r \in Replica, Unrule(r) \/ UnruleFails(r)
  PROVE  LifeTypeOK' /\ CleanSoFar'
  <1>1. PICK pc \in {"swept", "unlabel", "aware"} :
          /\ CleanupAt(r, pc)
          /\ pc = "swept" => cleanup[r].todo = {}
          /\ pc # "aware" => rule' = (rule /\ dryRun)
    BY DEF Unrule, UnruleFails, AfterRule
  <1>2. PICK x : /\ x = [cleanup[r] EXCEPT !.pc = pc]
                 /\ cleanup' = [cleanup EXCEPT ![r] = x]
    BY <1>1 DEF CleanupAt
  <1>3. x \in Cleanup /\ x.pc = pc /\ x.todo = cleanup[r].todo
    BY <1>2 DEF LifeIInv, LifeTypeOK, Cleanup
  <1>4. rule' = rule \/ rule' = FALSE
    BY DEF Unrule, UnruleFails, LifeIInv, IInv, TypeOK
  <1>5. Cleans(r, x)
    BY <1>2, <1>3, <1>4 DEF Cleans, Unrule, UnruleFails, LifeIInv, LifeTypeOK
  <1>6. escapes' = {} => ejected' \subseteq cleanup[r].todo
    BY DEF Unrule, UnruleFails, LifeIInv, CleanSoFar, Cleaning
  <1>7. pc # "aware" => ~rule'
    BY <1>1 DEF LifeIInv, DryRunIsClean
  <1>8. QED
    BY <1>1, <1>3, <1>5, <1>6, <1>7, CleansKeeps

LEMMA UnlabelKeeps ==
  ASSUME LifeIInv, NEW r \in Replica, NEW p \in Pod,
         Unlabel(r, p) \/ UnlabelFails(r, p)
  PROVE  LifeTypeOK' /\ CleanSoFar'
  <1> DEFINE todo == cleanup[r].todo \ {p}
             x == [pc |-> AfterRule(todo), todo |-> todo]
  <1>1. /\ cleanup[r].pc = "unlabel"
        /\ cleanup' = [cleanup EXCEPT ![r] = x]
        /\ UNCHANGED <<rule, resource, fresh>>
    BY DEF Unlabel, UnlabelFails, Unlabelled, LifeIInv, LifeTypeOK
  <1>2. x \in Cleanup
    BY DEF AfterRule, LifeIInv, LifeTypeOK, Cleanup
  <1>3. ejected' \subseteq ejected /\ escapes \subseteq escapes' /\ escapes' \subseteq Escape
    BY DEF Unlabel, UnlabelFails, Unlabelled, LifeIInv, LifeTypeOK, Escape
  <1>4. Cleans(r, x)
    BY <1>1, <1>2, <1>3 DEF Cleans
  <1>5. escapes' = {} => ejected' \subseteq todo
    <2>1. escapes' = {} => ejected \subseteq cleanup[r].todo
      BY <1>1, <1>3 DEF LifeIInv, CleanSoFar, Cleaning
    <2>2. escapes' = {} => p \notin ejected'
      BY DEF Unlabel, UnlabelFails, Unlabelled, LifeIInv, DryRunIsClean
    <2>3. QED
      BY <1>3, <2>1, <2>2
  <1>6. escapes' = {} => ~rule'
    BY <1>1, <1>3 DEF LifeIInv, CleanSoFar
  <1>7. x.pc = "swept" => todo = {}
    BY DEF AfterRule
  <1>8. QED
    BY <1>4, <1>5, <1>6, <1>7, CleansKeeps

LEMMA UnlabelRaisesKeeps ==
  ASSUME LifeIInv, NEW r \in Replica, NEW p \in Pod, UnlabelRaises(r, p)
  PROVE  LifeTypeOK' /\ CleanSoFar'
  <1>1. PICK x : /\ x = [cleanup[r] EXCEPT !.pc = "aware"]
                 /\ cleanup' = [cleanup EXCEPT ![r] = x]
    BY DEF UnlabelRaises, CleanupAt
  <1>2. x \in Cleanup /\ x.pc = "aware"
    BY <1>1 DEF LifeIInv, LifeTypeOK, Cleanup
  <1>3. Cleans(r, x)
    BY <1>1, <1>2 DEF Cleans, UnlabelRaises, LifeIInv, LifeTypeOK
  <1>4. QED
    BY <1>2, <1>3, CleansKeeps

LEMMA ReleaseKeeps ==
  ASSUME LifeIInv, NEW r \in Replica, Release(r)
  PROVE  LifeTypeOK' /\ CleanSoFar'
  <1>1. PICK x : /\ x = [cleanup[r] EXCEPT !.pc = "done"]
                 /\ cleanup' = [cleanup EXCEPT ![r] = x]
    BY DEF Release, CleanupAt
  <1>2. x \in Cleanup /\ x.pc = "done"
    BY <1>1 DEF LifeIInv, LifeTypeOK, Cleanup
  <1>3. /\ cleanup'[r] = x
        /\ \A s \in Replica : s # r => cleanup'[s] = cleanup[s]
        /\ UNCHANGED <<rule, ejected, fresh>>
        /\ resource' = "none"
        /\ escapes \subseteq escapes'
    BY <1>1 DEF Release, vars, cluster, LifeIInv, LifeTypeOK
  <1>4. LifeTypeOK'
    BY <1>1, <1>2, <1>3 DEF Release, LifeIInv, LifeTypeOK, Escape
  <1>5. escapes' = {} => ~rule /\ ejected = {}
    <2>1. CASE resource # "none" /\ \A s \in Replica : cleanup[s].pc # "swept"
      BY <2>1 DEF Release
    <2>2. CASE \E s \in Replica : cleanup[s].pc = "swept"
      BY <1>3, <2>2 DEF LifeIInv, CleanSoFar
    <2>3. CASE resource = "none"
      BY <1>3, <2>3 DEF LifeIInv, CleanSoFar
    <2>4. QED
      BY <2>1, <2>2, <2>3
  <1>6. CleanSoFar'
    BY <1>3, <1>5 DEF CleanSoFar, Cleaning
  <1>7. QED
    BY <1>4, <1>6

LEMMA CreationKeeps ==
  ASSUME LifeIInv, (\E r \in Replica : Creation(r)) \/ Delete \/ Surroundings
  PROVE  LifeTypeOK' /\ CleanSoFar'
  <1>1. /\ UNCHANGED <<rule, ejected, cleanup, escapes>>
        /\ resource' = resource \/ resource' = "deleting"
        /\ fresh' \subseteq fresh
    BY DEF Creation, CreateOnStandby, CreateOnLeader, SeeHandled, Delete, Surroundings,
           Autoscale, Tick, vars, cluster, life
  <1>2. QED
    BY <1>1 DEF LifeIInv, LifeTypeOK, CleanSoFar, Cleaning

LEMMA LifeKeepsCleanups ==
  ASSUME LifeIInv, LifeNext
  PROVE  LifeTypeOK' /\ CleanSoFar'
  <1>1. ASSUME NEW r \in Replica, Reconciles(r) \/ ReconcileFails(r) \/ LeaderChange(r)
        PROVE  LifeTypeOK' /\ CleanSoFar'
    <2>1. Next /\ Meanwhile
      BY <1>1 DEF Reconciles, ReconcileFails, LeaderChange, Failure, Next
    <2>2. QED
      BY <2>1, MeanwhileKeeps
  <1>2. QED
    BY <1>1, CrashKeeps, NoticeKeeps, BeginCleanupKeeps, UnruleKeeps, UnlabelKeeps,
       UnlabelRaisesKeeps, ReleaseKeeps, CreationKeeps
    DEF LifeNext, Faultless, Deletion, LifeFault

LEMMA LifeKeepsDryRun ==
  ASSUME LifeIInv, [LifeNext]_lifeVars
  PROVE  DryRunIsClean'
  <1>1. dryRun' = dryRun
    <2>1. CASE [Next]_vars
      BY <2>1 DEF Next, OnTimer, Failure, Check, NothingToDo, CooldownActive,
                  NoPodToRemediate, BeginPipeline, Found, Perform, ReadScale, AtCap, Ticket,
                  Record, CheckBreaks, StepFails, ScaleFails, TicketRefused, Raise,
                  RecordFails, Crash, Elect, Autoscale, Tick, vars
    <2>2. CASE Aside
      BY <2>2 DEF Aside
    <2>3. QED
      BY <2>1, <2>2, LifeStepCases DEF LifeIInv, IInv
  <1>2. CASE [Next]_vars
    BY <1>1, <1>2, DryRunTouchesNothing DEF LifeIInv, DryRunIsClean
  <1>3. CASE Aside
    BY <1>1, <1>3 DEF Aside, LifeIInv, DryRunIsClean
  <1>4. QED
    BY <1>1, <1>2, <1>3, LifeStepCases DEF LifeIInv, IInv

LEMMA LifeStepKeeps == LifeIInv /\ [LifeNext]_lifeVars => LifeIInv'
  <1> SUFFICES ASSUME LifeIInv, [LifeNext]_lifeVars PROVE LifeIInv'
    OBVIOUS
  <1>1. IInv' /\ DryRunIsClean'
    BY LifeKeepsIInv, LifeKeepsDryRun DEF LifeIInv
  <1>2. LifeTypeOK' /\ CleanSoFar'
    <2>1. CASE LifeNext
      BY <2>1, LifeKeepsCleanups
    <2>2. CASE UNCHANGED lifeVars
      BY <2>2 DEF lifeVars, life, vars, cluster, LifeIInv, LifeTypeOK, CleanSoFar, Cleaning
    <2>3. QED
      BY <2>1, <2>2
  <1>3. QED
    BY <1>1, <1>2 DEF LifeIInv

\* The invariant behind the other theorems, types included: while nothing has
\* escaped, what a clean-up has removed stays removed.
THEOREM LifeInductive == LifeSpec => []LifeIInv
  BY LifeStepKeeps, LifeInitOK, PTL DEF LifeSpec

\* The life of a resource keeps its types: the clean-ups work on pods, through
\* every retry of kopf, crash and change of leader (on_create, on_delete).
THEOREM LifeTypes == LifeSpec => []LifeTypeOK
  BY LifeInductive, PTL DEF LifeIInv

\* What a deleted resource leaves in the mesh has escaped in one of four ways:
\* failed and repeated clean-ups, crashes, changes of leader and clean-ups of
\* several replicas at once add none (on_delete).
THEOREM CleanUpIsComplete == LifeSpec => []NothingLeft
  <1>1. LifeIInv => NothingLeft
    BY DEF LifeIInv, CleanSoFar, NothingLeft
  <1>2. QED
    BY <1>1, LifeInductive, PTL

===============================================================================
