-------------------------------- MODULE Operator --------------------------------
(***************************************************************************)
(* The operator as it is deployed: every replica runs the election of      *)
(* LeaderElection.tla and the handlers of Lifecycle.tla in one process and *)
(* one event loop (src/operator.py), and `_leader_elector.is_leader()`,    *)
(* which Reconcile.tla takes from Leadership.tla, is what the Lease        *)
(* protocol makes of it, after its faults as well.                         *)
(*                                                                         *)
(* The Kubernetes client blocks the event loop: a heartbeat waits for a    *)
(* pipeline or a clean-up in its replica, and is late if that takes long.  *)
(***************************************************************************)
EXTENDS Lifecycle

CONSTANTS NoLease, NoHolder, LeaseDuration, RenewInterval, MaxDelay, MaxCall

VARIABLES holder, age, phase, booted, isLeader, wait, stamp, seen, seenAge, stale, blame

Election == INSTANCE LeaderElection

election ==
  <<holder, age, phase, booted, isLeader, wait, stamp, seen, seenAge, stale, blame>>
operatorVars == <<lifeVars, election>>

\* What a duration and an interval must satisfy, see LeaderElection.
ElectionAssumption == Election!IdentityAssumption /\ Election!TimingAssumption

OperatorInit == LifeInit /\ Election!Init

\* kopf calls handlers: start() has returned, and no call of the election is in
\* flight.  stop() waits for the heartbeat task before its first call.
Serving(r) == phase[r] \in {"idle", "releasing", "stopped"}

\* The event loop can turn to the election.
LoopIsFree(r) == h[r].pc \in Suspended /\ ~Cleaning(r)

-------------------------------------------------------------------------------
\* on_startup, the heartbeat task, on_cleanup.
Elects(r) ==
  /\ LoopIsFree(r)
  /\ \/ Election!Start(r) \/ Election!Heartbeat(r) \/ Election!Stop(r)
     \/ Election!Shutdown(r) \/ Election!ApiFault(r)
  /\ leaders' = {s \in Replica : isLeader'[s]}
  /\ UNCHANGED <<h, status, cluster, dryRun, since, lapses, life>>

\* on_create, on_timer, on_delete.
Handles(r) ==
  /\ Serving(r)
  /\ \/ Creation(r) \/ Notice(r) \/ Deletion(r) \/ Reconciles(r)
     \/ UnruleFails(r) \/ ReleaseFails(r) \/ ReconcileFails(r)
     \/ \E p \in Pod : UnlabelFails(r, p) \/ UnlabelRaises(r, p)
  /\ UNCHANGED election

\* The process ends, whatever it is at, and its handlers with it.
Exits(r) == Election!Exit(r) /\ CrashAndRestart(r)

\* Users and autoscalers.
Others == (Delete \/ (Autoscale /\ UNCHANGED life)) /\ UNCHANGED election

\* One second passes, for Leases and cooldowns alike.
Clock == Tick /\ Election!Tick /\ UNCHANGED life

OperatorNext ==
  \/ \E r \in Replica : Elects(r) \/ Handles(r) \/ Exits(r)
  \/ Others
  \/ Clock

OperatorSpec == OperatorInit /\ [][OperatorNext]_operatorVars

-------------------------------------------------------------------------------
(* Properties *)

\* Lifecycle.tla is what the handlers see of it: until a fault of the election is
\* blamed, every step is one of its steps.
ImplementsLifecycle == LifeInit /\ [][blame' = {} => [LifeNext]_lifeVars]_operatorVars

\* While a pipeline of the leader is at work nobody else comes to lead, and its
\* Lease does not expire, unless the election has met a fault: a pipeline that
\* holds up the heartbeat for too long is one.
PipelineHoldsLease ==
  [][blame' = {} =>
       \A r \in leaders :
         h[r].pc \in Working /\ h'[r].pc \in Working =>
           leaders' = {r} /\ holder' = r /\ age' < LeaseDuration]_operatorVars

\* Two handlers at once, without a fault of the election, are the new leader's and
\* one that has outlived the leadership of its replica (on_timer asks for it once,
\* before it waits for Prometheus).
OverlapIsWithDeposed ==
  [][blame' = {} =>
       \A r, s \in Replica :
         /\ r # s
         /\ h[r].pc = "idle" /\ h'[r].pc # "idle"
         /\ h[s].pc # "idle"
         => s \notin leaders]_operatorVars

-------------------------------------------------------------------------------
(* Why they hold: the inductive invariant *)

OperatorIInv == LifeIInv /\ Election!IInv /\ leaders = Election!Leaders

===============================================================================
