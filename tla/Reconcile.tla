------------------------------- MODULE Reconcile -------------------------------
(***************************************************************************)
(* The reconciliation of one AppHealth resource: the on_timer handler of   *)
(* src/operator.py with the pipeline of src/remediation.py and the Istio   *)
(* ejection of src/istio_adapter.py, run by every replica of the operator. *)
(*                                                                         *)
(* The handler is one step per call that leaves the process: other         *)
(* replicas, autoscalers and crashes come between two calls.  It really    *)
(* suspends (and its replica may lose leadership) only while it waits for  *)
(* Prometheus, for the ticket webhook and for kopf's status patch; the     *)
(* Kubernetes client blocks.                                               *)
(***************************************************************************)
EXTENDS Integers, Sequences, FiniteSets

CONSTANTS
  Replica,        \* the operator's replicas
  Pod,            \* pods of the target Deployment
  NoPod,          \* an evaluation whose series has no pod label
  Answers,        \* what a check may find: sequences of violated evaluations
  Steps,          \* the steps enabled in spec.remediation and serviceMesh
  Cooldown,       \* cooldownSeconds
  ScaleUp,        \* scaleUpReplicas
  MaxReplicas,    \* maxReplicas
  HistoryLimit,   \* 50 in the code
  MaxScale,       \* bound: what an autoscaler may set
  MaxIncidents    \* bound: incidentCount stops growing there

\* The steps in the order of the code; "scale" follows its "readScale".
Rank == [isolate |-> 1, eject |-> 2, label |-> 3, dump |-> 4, readScale |-> 5,
         scale |-> 6, ticket |-> 7, record |-> 8]

Step == {"isolate", "eject", "label", "dump", "readScale", "ticket"}
Evaluation == [pod : Pod \cup {NoPod}, critical : BOOLEAN]

ASSUME ReconcileAssumption ==
  /\ NoPod \notin Pod
  /\ Answers \subseteq Seq(Evaluation)
  /\ Steps \subseteq Step
  /\ "label" \in Steps => "eject" \in Steps
  /\ Cooldown \in Nat \ {0}
  /\ ScaleUp \in Nat \ {0}
  /\ HistoryLimit \in Nat \ {0}
  /\ MaxScale \in Nat
  /\ MaxReplicas \in 0 .. MaxScale
  /\ MaxIncidents \in Nat

VARIABLES
  leaders,    \* the replicas whose is_leader() is TRUE, see Leadership
  h,          \* each replica's run of on_timer, see Handler
  status,     \* the status of the AppHealth resource
  isolated,   \* pods with the no-traffic label
  ejected,    \* pods with the istio-ejected label
  rule,       \* the DestinationRule exists
  replicas,   \* spec.replicas of the Deployment
  dryRun,     \* DRY_RUN, read when the operator is deployed
  \* history variables, read by no action
  since,      \* age of the last change a handler made to the cluster
  lapses      \* what the status could not account for, see Lapse

cluster == <<isolated, ejected, rule, replicas>>
vars == <<leaders, h, status, cluster, dryRun, since, lapses>>

\* An age is cut at Cooldown: the code asks only whether it reached it.  A
\* missing or unreadable lastRemediationTime lets a remediation through, as
\* an old one does.
Age == 0 .. Cooldown

Working == {"isolate", "eject", "label", "dump", "readScale", "scale"}
Suspended == {"idle", "checking", "ticket", "record"}

Handler == [
  pc : Working \cup Suspended,
  found : Answers \cup {<<>>},    \* violated_evals
  last : Age,                     \* lastRemediationTime, as read, then as written
  incidents : 0 .. MaxIncidents,  \* incident_count
  history : 0 .. HistoryLimit,    \* length of remediationHistory, as read
  acted : SUBSET Step,            \* the steps that have a result
  read : 0 .. MaxScale,           \* current_replicas
  touched : BOOLEAN]              \* history: it has changed the cluster

Status == [
  phase : {"healthy", "degrading", "remediating"},
  unhealthy : SUBSET Pod,
  last : Age,
  incidents : 0 .. MaxIncidents,
  history : 0 .. HistoryLimit]

\* "abandoned": a pipeline that had changed the cluster raised an OperatorError,
\*              and its results were dropped;
\* "unlogged":  a handler that had changed the cluster died, with no status
\*              patch, of the call that should have logged a failed step;
\* "refused":   ... of the call that should have logged a refused ticket;
\* "lost":      it died of anything else, with no status patch;
\* "overlap":   a handler began while another replica's was still running.
Lapse == {"abandoned", "unlogged", "refused", "lost", "overlap"}

TypeOK ==
  /\ leaders \subseteq Replica
  /\ h \in [Replica -> Handler]
  /\ status \in Status
  /\ isolated \subseteq Pod
  /\ ejected \subseteq Pod
  /\ rule \in BOOLEAN
  /\ replicas \in 0 .. MaxScale
  /\ dryRun \in BOOLEAN
  /\ since \in Age
  /\ lapses \subseteq Lapse

Idle == [pc |-> "idle", found |-> <<>>, last |-> 0, incidents |-> 0,
         history |-> 0, acted |-> {}, read |-> 0, touched |-> FALSE]

Init ==
  /\ leaders = {}
  /\ h = [r \in Replica |-> Idle]
  /\ status = [phase |-> "healthy", unhealthy |-> {}, last |-> Cooldown,
               incidents |-> 0, history |-> 0]
  /\ isolated = {}
  /\ ejected = {}
  /\ rule = FALSE
  /\ replicas \in 0 .. MaxReplicas
  /\ dryRun \in BOOLEAN
  /\ since = Cooldown
  /\ lapses = {}

-------------------------------------------------------------------------------
(* Helpers *)

Smaller(a, b) == IF a < b THEN a ELSE b

\* The pods named by a violated evaluation, and the phase a check leads to.
PodsOf(found) == {found[i].pod : i \in 1 .. Len(found)} \ {NoPod}
Critical(found) == \E i \in 1 .. Len(found) : found[i].critical
PhaseOf(found) ==
  IF found = <<>> THEN "healthy"
  ELSE IF Critical(found) THEN "remediating" ELSE "degrading"

\* The loop over the violated evaluations has only a `continue` in its body, so
\* what follows it runs once, for the last of them.
Target(found) == found[Len(found)].pod

\* Mutant: the step that was done is done again.
FollowingOrSame(n) ==
  CHOOSE s \in Steps \cup {"record"} :
    /\ Rank[s] >= n
    /\ \A t \in Steps \cup {"record"} : Rank[t] >= n => Rank[s] <= Rank[t]

\* The first enabled step of rank above n.
Following(n) ==
  CHOOSE s \in Steps \cup {"record"} :
    /\ Rank[s] > n
    /\ \A t \in Steps \cup {"record"} : Rank[t] > n => Rank[s] <= Rank[t]

\* Mutant: the time of the remediation is not recorded.
AtWithoutTimestamp(run, s) ==
  IF s # "record" THEN [run EXCEPT !.pc = s]
  ELSE [run EXCEPT !.pc = s, !.incidents = Smaller(@ + 1, MaxIncidents)]

\* The run has come to `s`.  Where the pipeline is over without an exception
\* the incident is counted, and the timestamp to write is taken if there is a
\* result.
At(run, s) ==
  IF s # "record" THEN [run EXCEPT !.pc = s]
  ELSE [run EXCEPT !.pc = s,
                   !.incidents = Smaller(@ + 1, MaxIncidents),
                   !.last = IF run.acted = {} THEN @ ELSE 0]

\* The step that the run is at is over, with a result.
Advance(r, touching) ==
  LET pc == h[r].pc
      run == [h[r] EXCEPT !.acted = @ \cup {IF pc = "scale" THEN "readScale" ELSE pc},
                          !.touched = @ \/ touching]
  IN  h' = [h EXCEPT ![r] = At(run, Following(Rank[pc]))]

\* Mutant: the results so far are kept.
AbandonWithResults(r, touching) ==
  /\ h' = [h EXCEPT ![r] = [h[r] EXCEPT !.pc = "record", !.touched = @ \/ touching]]
  /\ lapses' = lapses \cup
               (IF h[r].touched \/ touching THEN {"abandoned"} ELSE {})

\* The results of a pipeline that raised are gone with it: nothing to record
\* but the check.
Abandon(r, touching) ==
  /\ h' = [h EXCEPT ![r] = [h[r] EXCEPT !.pc = "record", !.acted = {},
                                     !.touched = @ \/ touching]]
  /\ lapses' = lapses \cup
               (IF h[r].touched \/ touching THEN {"abandoned"} ELSE {})

\* The run is over without a status patch.
Vanish(r, touching, lapse) ==
  /\ h' = [h EXCEPT ![r] = Idle]
  /\ lapses' = lapses \cup (IF h[r].touched \/ touching THEN {lapse} ELSE {})

\* The calls of the pipeline that change the cluster.
IsolatePod(r) ==
  /\ h[r].pc = "isolate"
  /\ isolated' = isolated \cup {Target(h[r].found)}
  /\ UNCHANGED <<ejected, rule, replicas>>

EjectByRule(r) ==
  /\ h[r].pc = "eject"
  /\ rule' = TRUE
  /\ UNCHANGED <<isolated, ejected, replicas>>

EjectByLabel(r) ==
  /\ h[r].pc = "label"
  /\ ejected' = ejected \cup {Target(h[r].found)}
  /\ UNCHANGED <<isolated, rule, replicas>>

ScaleDeployment(r) ==
  /\ h[r].pc = "scale"
  /\ replicas' = h[r].read + ScaleUp
  /\ UNCHANGED <<isolated, ejected, rule>>

\* The call that the run is at takes effect.
Effect(r) ==
  /\ ~dryRun
  /\ IsolatePod(r) \/ EjectByRule(r) \/ EjectByLabel(r) \/ ScaleDeployment(r)
  /\ since' = 0

NoEffect == UNCHANGED <<cluster, since>>

-------------------------------------------------------------------------------
(* on_timer up to the pipeline *)

\* The timer fires and the replica is leader; a standby returns at once.
Check(r) ==
  /\ h[r].pc = "idle"
  /\ r \in leaders
  /\ h' = [h EXCEPT ![r] = [Idle EXCEPT !.pc = "checking",
                                        !.last = status.last,
                                        !.incidents = status.incidents,
                                        !.history = status.history]]
  /\ lapses' = lapses \cup
               (IF \E s \in Replica \ {r} : h[s].pc # "idle" THEN {"overlap"} ELSE {})
  /\ UNCHANGED <<leaders, status, cluster, dryRun, since>>

\* Prometheus has answered.  An answer with an error status, or an error of
\* PromQL, counts as no violation.
Found(r, found, run) ==
  /\ h[r].pc = "checking"
  /\ h' = [h EXCEPT ![r] = run]
  /\ UNCHANGED <<leaders, status, cluster, dryRun, since, lapses>>

Remediable(found) == Critical(found) /\ PodsOf(found) # {}

NothingToDo(r, found) ==
  /\ ~Remediable(found)
  /\ Found(r, found, [h[r] EXCEPT !.found = found, !.pc = "record"])

CooldownActive(r, found) ==
  /\ Remediable(found)
  /\ h[r].last < Cooldown
  /\ Found(r, found, [h[r] EXCEPT !.found = found, !.pc = "record"])

\* execute_remediation returns no result for an evaluation without a pod, and
\* the handler goes on as after a pipeline.
NoPodToRemediate(r, found) ==
  /\ Remediable(found)
  /\ h[r].last >= Cooldown
  /\ Target(found) = NoPod
  /\ Found(r, found, At([h[r] EXCEPT !.found = found], Following(Rank["scale"])))

BeginPipeline(r, found) ==
  /\ Remediable(found)
  /\ h[r].last >= Cooldown
  /\ Target(found) # NoPod
  /\ Found(r, found, At([h[r] EXCEPT !.found = found], Following(0)))

\* The check raises: a query that times out or finds no connection does so in
\* its logging (`error` is passed twice), a body that is not JSON as it is.
CheckBreaks(r) ==
  /\ h[r].pc = "checking"
  /\ Vanish(r, FALSE, "lost")
  /\ UNCHANGED <<leaders, status, cluster, dryRun, since>>

-------------------------------------------------------------------------------
(* execute_remediation and create_ticket *)

\* A step succeeds.  A dry run makes no call; a log dump changes nothing here.
Perform(r) ==
  /\ h[r].pc \in Working
  /\ \/ Effect(r) /\ Advance(r, TRUE)
     \/ (dryRun \/ h[r].pc = "dump") /\ NoEffect /\ Advance(r, FALSE)
  /\ UNCHANGED <<leaders, status, dryRun, lapses>>

\* Mutant: the cap is compared with the present number of replicas.
CapOnPresent(r) ==
  /\ h[r].pc = "readScale"
  /\ ~dryRun
  /\ replicas <= MaxReplicas
  /\ h' = [h EXCEPT ![r] = [h[r] EXCEPT !.pc = "scale", !.read = replicas]]
  /\ UNCHANGED <<leaders, status, cluster, dryRun, since, lapses>>

ReadScale(r) ==
  /\ h[r].pc = "readScale"
  /\ ~dryRun
  /\ replicas + ScaleUp <= MaxReplicas
  /\ h' = [h EXCEPT ![r] = [h[r] EXCEPT !.pc = "scale", !.read = replicas]]
  /\ UNCHANGED <<leaders, status, cluster, dryRun, since, lapses>>

\* MaxReplicasError.
AtCap(r) ==
  /\ h[r].pc = "readScale"
  /\ ~dryRun
  /\ replicas + ScaleUp > MaxReplicas
  /\ Abandon(r, FALSE)
  /\ UNCHANGED <<leaders, status, cluster, dryRun, since>>

\* Mutant: a failed step is one more result, whatever the step.
FailureIsAResult(r) ==
  /\ h[r].pc \in {"isolate", "eject", "label", "dump"}
  /\ ~dryRun
  /\ \/ Effect(r) /\ Advance(r, TRUE)
     \/ NoEffect /\ Advance(r, FALSE)
  /\ UNCHANGED <<leaders, status, dryRun, lapses>>

\* An ApiException, the call being applied or not.  The handlers of these
\* failures log a keyword (`deployment`, `pod`) that the context of the
\* exception brings too: a TypeError, which nothing in on_timer catches.
StepFails(r) ==
  /\ h[r].pc \in {"isolate", "eject", "label", "dump"}
  /\ ~dryRun
  /\ \/ Effect(r) /\ Vanish(r, TRUE, "unlogged")
     \/ NoEffect /\ Vanish(r, FALSE, "unlogged")
  /\ UNCHANGED <<leaders, status, dryRun>>

\* ScalingError, which is logged: the pipeline ends, the handler goes on.
ScaleFails(r) ==
  /\ h[r].pc \in {"readScale", "scale"}
  /\ ~dryRun
  /\ \/ Effect(r) /\ Abandon(r, TRUE)
     \/ NoEffect /\ Abandon(r, FALSE)
  /\ UNCHANGED <<leaders, status, dryRun>>

\* The webhook answers with a status that is not retried: `error` is logged
\* twice, another TypeError.
TicketRefused(r) ==
  /\ h[r].pc = "ticket"
  /\ ~dryRun
  /\ Vanish(r, FALSE, "refused")
  /\ UNCHANGED <<leaders, status, cluster, dryRun, since>>

\* Any other exception (no connection, a full disk, the JSON list of a webhook)
\* leaves on_timer too, and kopf has no status to patch.
Raise(r) ==
  /\ h[r].pc \in Working \cup {"ticket"}
  /\ ~dryRun
  /\ \/ Effect(r) /\ Vanish(r, TRUE, "lost")
     \/ NoEffect /\ Vanish(r, FALSE, "lost")
  /\ UNCHANGED <<leaders, status, dryRun>>

\* The ticket was created, simulated or skipped, or every attempt met a
\* retryable error: there is a result.
Ticket(r) ==
  /\ h[r].pc = "ticket"
  /\ Advance(r, FALSE)
  /\ UNCHANGED <<leaders, status, cluster, dryRun, since, lapses>>

-------------------------------------------------------------------------------
(* The status patch, by kopf *)

\* Mutant: the history is not cut to its last entries.
RecordAll(r) ==
  LET run == h[r] IN
  /\ run.pc = "record"
  /\ status' = [phase |-> PhaseOf(run.found),
                unhealthy |-> PodsOf(run.found),
                last |-> IF run.acted = {} THEN status.last ELSE run.last,
                incidents |-> run.incidents,
                history |-> IF run.acted = {} THEN run.history ELSE run.history + 1]
  /\ h' = [h EXCEPT ![r] = Idle]
  /\ UNCHANGED <<leaders, cluster, dryRun, since, lapses>>

\* Mutant: every check is written down as a remediation.
RecordEveryCheck(r) ==
  LET run == h[r] IN
  /\ run.pc = "record"
  /\ status' = [phase |-> PhaseOf(run.found),
                unhealthy |-> PodsOf(run.found),
                last |-> 0,
                incidents |-> run.incidents,
                history |-> Smaller(run.history + 1, HistoryLimit)]
  /\ h' = [h EXCEPT ![r] = Idle]
  /\ UNCHANGED <<leaders, cluster, dryRun, since, lapses>>

Record(r) ==
  LET run == h[r] IN
  /\ run.pc = "record"
  /\ status' = [phase |-> PhaseOf(run.found),
                unhealthy |-> PodsOf(run.found),
                last |-> IF run.acted = {} THEN status.last ELSE run.last,
                incidents |-> run.incidents,
                history |-> IF run.acted = {} THEN run.history
                            ELSE Smaller(run.history + 1, HistoryLimit)]
  /\ h' = [h EXCEPT ![r] = Idle]
  /\ UNCHANGED <<leaders, cluster, dryRun, since, lapses>>

RecordFails(r) ==
  /\ h[r].pc = "record"
  /\ Vanish(r, FALSE, "lost")
  /\ UNCHANGED <<leaders, status, cluster, dryRun, since>>

-------------------------------------------------------------------------------
(* Around the handler *)

\* The election works: Gain and Lose of Leadership.tla, while it is sound.  A
\* replica's own heartbeat runs only while its handler is suspended.
Elect(r) ==
  /\ h[r].pc \in Suspended
  /\ \/ leaders = {} /\ leaders' = {r}
     \/ r \in leaders /\ leaders' = leaders \ {r}
  /\ UNCHANGED <<h, status, cluster, dryRun, since, lapses>>

Crash(r) ==
  /\ r \in leaders \/ h[r].pc # "idle"
  /\ leaders' = leaders \ {r}
  /\ Vanish(r, FALSE, "lost")
  /\ UNCHANGED <<status, cluster, dryRun, since>>

\* An autoscaler or a user changes the Deployment.
Autoscale ==
  /\ replicas' \in 0 .. MaxScale
  /\ UNCHANGED <<leaders, h, status, isolated, ejected, rule, dryRun, since, lapses>>

Older(a) == Smaller(a + 1, Cooldown)

Tick ==
  /\ status' = [status EXCEPT !.last = Older(@)]
  /\ h' = [r \in Replica |-> IF h[r].pc = "idle" THEN h[r]
                             ELSE [h[r] EXCEPT !.last = Older(@)]]
  /\ since' = Older(since)
  /\ UNCHANGED <<leaders, cluster, dryRun, lapses>>

-------------------------------------------------------------------------------
OnTimer(r) ==
  \/ Check(r)
  \/ \E found \in Answers \cup {<<>>} :
       \/ NothingToDo(r, found) \/ CooldownActive(r, found)
       \/ NoPodToRemediate(r, found) \/ BeginPipeline(r, found)
  \/ Perform(r) \/ ReadScale(r) \/ AtCap(r) \/ Ticket(r) \/ Record(r)

Failure(r) ==
  \/ CheckBreaks(r) \/ StepFails(r) \/ ScaleFails(r) \/ TicketRefused(r)
  \/ Raise(r) \/ RecordFails(r) \/ Crash(r)

Next ==
  \/ \E r \in Replica : OnTimer(r) \/ Failure(r) \/ Elect(r)
  \/ Autoscale
  \/ Tick

Spec == Init /\ [][Next]_vars

-------------------------------------------------------------------------------
(* Properties *)

\* The cooldown is what RemediationGate.tla promises, for as long as every
\* change of the cluster is accounted for in the status and handlers do not
\* overlap: status patches, failovers, restarts and dry runs keep it.
Gate == INSTANCE RemediationGate
          WITH busy <- \E r \in Replica : h[r].pc \in Working,
               sound <- lapses = {}

ImplementsGate == Gate!Spec

\* "Sequential: isolate -> Istio eject" (README.md): no pod is ejected from the
\* mesh that was not isolated first, with failures, crashes and several
\* replicas at work.
IsolatedFirst == "isolate" \in Steps => ejected \subseteq isolated

\* "Hard cap at maxReplicas" (README.md): whatever autoscalers do between the
\* read and the patch, a scale-up never sets more replicas than maxReplicas.
HardCap ==
  [][\A r \in Replica :
       h[r].pc = "scale" /\ h'[r].pc # "scale" =>
         replicas' = replicas \/ replicas' <= MaxReplicas]_vars

\* What the status calls a "full_remediation" (operator.py) is one: the entry has
\* a result of every enabled step, or, where the evaluation names no pod, of the
\* ticket alone.  No failure leaves a part of a pipeline to be recorded.
AllOrNothing ==
  \A r \in Replica :
    h[r].pc = "record" => h[r].acted \in {{}, Steps \cap {"ticket"}, Steps}

-------------------------------------------------------------------------------
(* What the documents promise and the code does not keep *)

\* A pipeline begins when nothing was changed for as long as the cooldown.
BeginsAfterCooldown ==
  \A r \in Replica :
    h[r].pc = "checking" /\ h'[r].pc \in Working => since >= Cooldown

\* "Minimum seconds between consecutive remediation actions" (deploy/crd.yaml),
\* whatever becomes of the run that acted last: one that ended early, that was not
\* recorded, or that another leader's handler overlaps (on_timer, _check_cooldown).
CooldownBetweenActions == [][BeginsAfterCooldown]_vars

-------------------------------------------------------------------------------
(* Why the properties hold: the inductive invariant *)

\* Nothing of a run outlives it.
IdleRuns == \A r \in Replica : h[r].pc = "idle" => h[r] = Idle

\* The pipeline works on a pod.
HasPod == \A r \in Replica : h[r].pc \in Working => Target(h[r].found) \in Pod

\* The number of replicas to patch was compared with the cap when it was read.
ScaleRead ==
  \A r \in Replica : h[r].pc = "scale" => h[r].read + ScaleUp <= MaxReplicas

\* Whoever is past the isolation has isolated its pod.
PastIsolation ==
  \A r \in Replica :
    "isolate" \in Steps /\ ~dryRun /\ h[r].pc \in {"eject", "label"} =>
      Target(h[r].found) \in isolated

OneHandler ==
  lapses = {} =>
    \A r, s \in Replica : h[r].pc # "idle" /\ h[s].pc # "idle" => r = s

\* What a handler knows, or writes, of the last remediation is no older than the
\* last change of the cluster, its own changes excepted.
Accounted ==
  lapses = {} =>
    /\ (\A r \in Replica : ~h[r].touched) => status.last <= since
    /\ \A r \in Replica :
         /\ h[r].pc # "idle" /\ ~h[r].touched => h[r].last <= since
         /\ h[r].pc = "checking" => ~h[r].touched
         /\ h[r].touched => h[r].acted # {}
         /\ h[r].pc = "record" /\ h[r].acted # {} => h[r].last <= since

\* The steps that a run at pc has behind it.
Current(pc) == IF pc = "scale" THEN "readScale" ELSE pc
Before(pc) == {s \in Steps : Rank[s] < Rank[Current(pc)]}

\* A run is at an enabled step, with the results of all those before it, unless
\* it does without the pipeline or has abandoned it; and a pipeline is for a
\* critical violation.
WholeRun(run) ==
  /\ run.pc \in Working => Remediable(run.found)
  /\ run.pc \in Working \cup {"ticket"} => Current(run.pc) \in Steps
  /\ run.pc \in {"idle", "checking"} => run.acted = {}
  /\ run.pc \in Working => run.acted = Before(run.pc)
  /\ run.pc = "ticket" => run.acted \in {{}, Before("ticket")}
  /\ run.pc = "record" => run.acted \in {{}, Steps \cap {"ticket"}, Steps}

RunsAreWhole == \A r \in Replica : WholeRun(h[r])

IInv ==
  /\ TypeOK /\ IdleRuns /\ HasPod /\ ScaleRead /\ PastIsolation
  /\ IsolatedFirst /\ OneHandler /\ Accounted

===============================================================================
