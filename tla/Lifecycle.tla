------------------------------- MODULE Lifecycle -------------------------------
(***************************************************************************)
(* The life of an AppHealth resource around its reconciliation: on_create  *)
(* and on_delete of src/operator.py with the Istio clean-up of             *)
(* src/istio_adapter.py, run by every replica against Reconcile.tla.       *)
(*                                                                         *)
(* kopf is external: it runs the handlers of every replica, retries one    *)
(* that raised, stops a replica's timer once it has seen the deletion, and *)
(* takes the finalizer (one for all replicas) off when a replica's         *)
(* on_delete and on_timer have ended.  A resource lives once here.         *)
(***************************************************************************)
EXTENDS Reconcile

VARIABLES
  resource,   \* "live", then "deleting" until the finalizer is off
  fresh,      \* the replicas that have the creation to handle still
  cleanup,    \* each replica's run of on_delete, see Cleanup
  escapes     \* history: what may keep the clean-up from being complete

life == <<resource, fresh, cleanup, escapes>>
lifeVars == <<vars, life>>

ASSUME LifecycleAssumption == "eject" \in Steps

\* "none": the replica does not know of the deletion; "aware": its timer is
\* stopped and on_delete is to be run; "unrule" and "unlabel": at those calls;
\* "swept": on_delete is over, as leader; "skipped": as standby.
Cleanup == [
  pc : {"none", "aware", "unrule", "unlabel", "swept", "skipped", "done"},
  todo : SUBSET Pod]          \* unhealthyPods as read, those left

\* "standby":    only replicas that did no clean-up had ended theirs when the
\*               finalizer was taken off;
\* "overtaken":  a pipeline ejected a pod after a clean-up had begun;
\* "unlisted":   a pod ejected earlier is not in unhealthyPods any more;
\* "unlabelled": a label could not be removed, which is logged only.
Escape == {"standby", "overtaken", "unlisted", "unlabelled"}

LifeTypeOK ==
  /\ resource \in {"live", "deleting", "none"}
  /\ fresh \subseteq Replica
  /\ cleanup \in [Replica -> Cleanup]
  /\ escapes \subseteq Escape

NoCleanup == [pc |-> "none", todo |-> {}]

LifeInit ==
  /\ Init
  /\ resource = "live"
  /\ fresh = Replica
  /\ cleanup = [r \in Replica |-> NoCleanup]
  /\ escapes = {}

\* on_delete suspends nowhere: the event loop of its replica does nothing else.
Cleaning(r) == cleanup[r].pc \in {"unrule", "unlabel"}

\* A clean-up has begun, or is over.
Begun == resource = "none" \/ \E r \in Replica : Cleaning(r) \/ cleanup[r].pc = "swept"

CleanupAt(r, pc) == cleanup' = [cleanup EXCEPT ![r].pc = pc]

-------------------------------------------------------------------------------
(* on_create *)

\* A standby marks the creation as handled, for all replicas.
CreateOnStandby(r) ==
  /\ resource = "live"
  /\ r \in fresh
  /\ r \notin leaders
  /\ h[r].pc \in Suspended
  /\ fresh' = fresh \ {r}
  /\ UNCHANGED <<vars, resource, cleanup, escapes>>

\* Mutant: the status is emptied for good measure.
CreateClearsTimestamp(r) ==
  /\ resource = "live"
  /\ r \in fresh
  /\ r \in leaders
  /\ h[r].pc \in Suspended
  /\ status' = [phase |-> "healthy", unhealthy |-> {}, last |-> Cooldown,
                incidents |-> 0, history |-> 0]
  /\ UNCHANGED <<leaders, h, cluster, dryRun, since, lapses, life>>

\* _build_conditions has no check result to read and raises.  kopf patches what
\* was set until then, and calls on_create again.
CreateOnLeader(r) ==
  /\ resource = "live"
  /\ r \in fresh
  /\ r \in leaders
  /\ h[r].pc \in Suspended
  /\ status' = [status EXCEPT !.phase = "healthy", !.unhealthy = {}, !.incidents = 0]
  /\ UNCHANGED <<leaders, h, cluster, dryRun, since, lapses, life>>

\* kopf sees the mark that another replica has left.
SeeHandled(r) ==
  /\ fresh # Replica
  /\ fresh' = fresh \ {r}
  /\ UNCHANGED <<vars, resource, cleanup, escapes>>

-------------------------------------------------------------------------------
(* on_delete *)

Delete ==
  /\ resource = "live"
  /\ resource' = "deleting"
  /\ UNCHANGED <<vars, fresh, cleanup, escapes>>

\* kopf sees that the resource is deleted, or gone.
Notice(r) ==
  /\ resource # "live"
  /\ cleanup[r].pc \in {"none", "aware"}
  /\ CleanupAt(r, IF resource = "deleting" THEN "aware" ELSE "done")
  /\ UNCHANGED <<vars, resource, fresh, escapes>>

\* Mutant: a standby raises, for the leader to do the clean-up.
SkipByRaising(r) ==
  /\ resource # "live"
  /\ cleanup[r].pc \in {"none", "aware"}
  /\ h[r].pc \in Suspended
  /\ r \notin leaders
  /\ CleanupAt(r, "aware")
  /\ UNCHANGED <<vars, resource, fresh, escapes>>

\* A standby returns at once: to kopf, a success.
Skip(r) ==
  /\ resource # "live"
  /\ cleanup[r].pc \in {"none", "aware"}
  /\ h[r].pc \in Suspended
  /\ r \notin leaders
  /\ CleanupAt(r, "skipped")
  /\ UNCHANGED <<vars, resource, fresh, escapes>>

\* Mutant: the name that an empty unhealthyPods splits into is not skipped.
BeginWithEmptyName(r) ==
  /\ resource # "live"
  /\ cleanup[r].pc \in {"none", "aware"}
  /\ h[r].pc \in Suspended
  /\ r \in leaders
  /\ cleanup' = [cleanup EXCEPT ![r] =
       [pc |-> "unrule",
        todo |-> IF status.unhealthy = {} THEN {NoPod} ELSE status.unhealthy]]
  /\ escapes' = escapes \cup
                (IF ejected \subseteq status.unhealthy THEN {} ELSE {"unlisted"})
  /\ UNCHANGED <<vars, resource, fresh>>

BeginCleanup(r) ==
  /\ resource # "live"
  /\ cleanup[r].pc \in {"none", "aware"}
  /\ h[r].pc \in Suspended
  /\ r \in leaders
  /\ cleanup' = [cleanup EXCEPT ![r] = [pc |-> "unrule", todo |-> status.unhealthy]]
  /\ escapes' = escapes \cup
                (IF ejected \subseteq status.unhealthy THEN {} ELSE {"unlisted"})
  /\ UNCHANGED <<vars, resource, fresh>>

\* Mutant: the pods are left to the rule's removal.
NoLoop(todo) == "swept"

\* The loop over the pods is over with the last of them.
AfterRule(todo) == IF todo = {} THEN "swept" ELSE "unlabel"

\* remove_outlier_detection: no DestinationRule is as good as one removed.
Unrule(r) ==
  /\ cleanup[r].pc = "unrule"
  /\ rule' = (rule /\ dryRun)
  /\ CleanupAt(r, AfterRule(cleanup[r].todo))
  /\ UNCHANGED <<leaders, h, status, isolated, ejected, replicas, dryRun, since, lapses>>
  /\ UNCHANGED <<resource, fresh, escapes>>

\* Mutant: the failure is logged as it was meant to be, and the handler goes on.
UnruleFailsQuietly(r) ==
  /\ cleanup[r].pc = "unrule"
  /\ ~dryRun
  /\ rule' \in {rule, FALSE}
  /\ CleanupAt(r, AfterRule(cleanup[r].todo))
  /\ UNCHANGED <<leaders, h, status, isolated, ejected, replicas, dryRun, since, lapses>>
  /\ UNCHANGED <<resource, fresh, escapes>>

\* The call fails, or its answer is lost.  The handler of the failure logs
\* `deployment` twice, a TypeError: kopf will call on_delete again.
UnruleFails(r) ==
  /\ cleanup[r].pc = "unrule"
  /\ ~dryRun
  /\ rule' \in {rule, FALSE}
  /\ CleanupAt(r, "aware")
  /\ UNCHANGED <<leaders, h, status, isolated, ejected, replicas, dryRun, since, lapses>>
  /\ UNCHANGED <<resource, fresh, escapes>>

Unlabelled(r, p, pods) ==
  /\ cleanup[r].pc = "unlabel"
  /\ p \in cleanup[r].todo
  /\ ejected' = pods
  /\ cleanup' = [cleanup EXCEPT ![r] = [pc |-> AfterRule(@.todo \ {p}), todo |-> @.todo \ {p}]]
  /\ UNCHANGED <<leaders, h, status, isolated, rule, replicas, dryRun, since, lapses>>
  /\ UNCHANGED <<resource, fresh>>

\* remove_pod_ejection_label.
Unlabel(r, p) ==
  /\ Unlabelled(r, p, IF dryRun THEN ejected ELSE ejected \ {p})
  /\ UNCHANGED escapes

\* An ApiException is logged, and the loop goes on to the next pod.
UnlabelFails(r, p) ==
  /\ ~dryRun
  /\ Unlabelled(r, p, ejected)
  /\ escapes' = escapes \cup (IF p \in ejected THEN {"unlabelled"} ELSE {})

\* Any other exception, the label being removed or not.
UnlabelRaises(r, p) ==
  /\ cleanup[r].pc = "unlabel"
  /\ p \in cleanup[r].todo
  /\ ~dryRun
  /\ ejected' \in {ejected, ejected \ {p}}
  /\ CleanupAt(r, "aware")
  /\ UNCHANGED <<leaders, h, status, isolated, rule, replicas, dryRun, since, lapses>>
  /\ UNCHANGED <<resource, fresh, escapes>>

\* kopf takes the finalizer off.
Release(r) ==
  /\ cleanup[r].pc \in {"swept", "skipped"}
  /\ h[r].pc = "idle"
  /\ resource' = "none"
  /\ CleanupAt(r, "done")
  /\ escapes' = escapes \cup
                (IF resource # "none" /\ \A s \in Replica : cleanup[s].pc # "swept"
                 THEN {"standby"} ELSE {})
  /\ UNCHANGED <<vars, fresh>>

\* ... and fails to: on_delete is run again.
ReleaseFails(r) ==
  /\ cleanup[r].pc \in {"swept", "skipped"}
  /\ CleanupAt(r, "aware")
  /\ UNCHANGED <<vars, resource, fresh, escapes>>

-------------------------------------------------------------------------------
(* The reconciliation meanwhile *)

\* Reconcile.tla's steps, as the lifecycle sees them.
Meanwhile ==
  /\ escapes' = escapes \cup
                (IF Begun /\ (rule' # rule \/ ejected' # ejected) THEN {"overtaken"} ELSE {})
  /\ UNCHANGED <<resource, fresh, cleanup>>

\* No timer is started once the replica knows of the deletion, and a status
\* patch needs the resource.
Reconciles(r) ==
  /\ ~Cleaning(r)
  /\ h[r].pc = "idle" => cleanup[r].pc = "none"
  /\ h[r].pc = "record" => resource # "none"
  /\ OnTimer(r)
  /\ Meanwhile

ReconcileFails(r) ==
  /\ ~Cleaning(r)
  /\ \/ CheckBreaks(r) \/ StepFails(r) \/ ScaleFails(r) \/ TicketRefused(r)
     \/ Raise(r) \/ RecordFails(r)
  /\ Meanwhile

LeaderChange(r) ==
  /\ ~Cleaning(r)
  /\ Elect(r)
  /\ Meanwhile

\* A replica that restarts finds the resource as it is then.
CrashAndRestart(r) ==
  /\ Crash(r) \/ (r \notin leaders /\ h[r].pc = "idle" /\ UNCHANGED vars)
  /\ fresh' = IF fresh = Replica THEN fresh ELSE fresh \ {r}
  /\ cleanup' = [cleanup EXCEPT ![r] =
       [pc |-> CASE resource = "live" -> "none"
                 [] resource = "deleting" -> "aware"
                 [] resource = "none" -> "done",
        todo |-> {}]]
  /\ UNCHANGED <<resource, escapes>>

Surroundings == (Autoscale \/ Tick) /\ UNCHANGED life

-------------------------------------------------------------------------------
Creation(r) == CreateOnStandby(r) \/ CreateOnLeader(r) \/ SeeHandled(r)

Deletion(r) ==
  \/ Skip(r) \/ BeginCleanup(r) \/ Unrule(r) \/ Release(r)
  \/ \E p \in Pod : Unlabel(r, p)

LifeFault(r) ==
  \/ UnruleFails(r) \/ ReleaseFails(r) \/ ReconcileFails(r) \/ CrashAndRestart(r)
  \/ \E p \in Pod : UnlabelFails(r, p) \/ UnlabelRaises(r, p)

Faultless ==
  \/ \E r \in Replica :
       Creation(r) \/ Notice(r) \/ Deletion(r) \/ Reconciles(r) \/ LeaderChange(r)
  \/ Delete
  \/ Surroundings

LifeNext == Faultless \/ \E r \in Replica : LifeFault(r)

LifeSpec == LifeInit /\ [][LifeNext]_lifeVars

-------------------------------------------------------------------------------
(* Properties *)

\* "Removes the outlierDetection configuration and ejection labels"
\* (README.md): once the resource is gone, so is everything that it did to
\* the mesh.  Failed and repeated clean-ups, crashes, changes of leader in the
\* middle and several clean-ups at once keep it; the escapes do not.
NothingLeft == resource = "none" /\ escapes = {} => ~rule /\ ejected = {}

\* The same promise, of the code as it is.
NoOrphans == resource = "none" => ~rule /\ ejected = {}

-------------------------------------------------------------------------------
(* Why NothingLeft holds: the inductive invariant *)

\* A dry run has nothing to clean up.
DryRunIsClean == dryRun => ~rule /\ ejected = {}

\* What a clean-up has done so far stays done, whoever else cleans up.
CleanSoFar ==
  escapes = {} =>
    /\ \A r \in Replica :
         /\ Cleaning(r) => ejected \subseteq cleanup[r].todo
         /\ cleanup[r].pc \in {"unlabel", "swept"} => ~rule
         /\ cleanup[r].pc = "swept" => ejected = {}
    /\ resource = "none" => ~rule /\ ejected = {}

LifeIInv == IInv /\ LifeTypeOK /\ DryRunIsClean /\ CleanSoFar

===============================================================================
