# Verification of the Self-Healing Kubernetes Operator

This directory holds TLA+ models of the operator in `src/`, the TLC
configurations that check them on small instances, and TLAPS proofs of what
matters most for every instance. Paths of the operator are given relative to
the repository's root (`src/operator.py` is its main module).

## 1. The system

The operator watches `AppHealth` resources. For each of them kopf runs a timer
handler that asks Prometheus whether metric rules are violated and, for a
critical violation, runs a remediation pipeline: isolate the pod, eject it from
the Istio mesh, dump its logs, scale the Deployment, open a ticket; the outcome
goes into the status of the resource. Several replicas of the operator may run;
a Lease object elects the one whose handlers act.

| Component | State | Operations | Interacts with |
|---|---|---|---|
| Leader election, `leader_election.py` | the Lease in the API server (holder, renewTime); `_is_leader` and the heartbeat task in each replica | `start`, heartbeat, `stop`; `try_acquire_lease`, `release_lease` | every other replica through the Lease; the handlers through `is_leader()`; the gauges through callbacks |
| Reconciliation, `operator.py: on_timer`, `remediation.py` | the status of the resource (phase, lastRemediationTime, incidentCount, history); the locals of a running handler | check, cooldown, pipeline, ticket, status patch | all adapters; kopf, which calls it and sends the patch |
| Istio adapter, `istio_adapter.py` | the DestinationRule, the `istio-ejected` labels | apply and remove outlier detection and label | pipeline, `on_delete` |
| Scaling, `remediation.py` | `spec.replicas` of the Deployment | read, then patch an absolute number | autoscalers, users |
| Metrics adapter, `metrics_adapter.py` | first violation times of the sustain window (lost with the adapter) | `query`, `check` | Prometheus |
| Ticket integration, `ticket_integration.py` | none | payload, POST with retries | the webhook |
| Lifecycle, `operator.py: on_create, on_resume, on_delete` | kopf's finalizer and its progress of each handler; the initial status | initialise, re-attach, clean up | Istio adapter; `on_timer` through the status and the mesh; gauges |
| Operator metrics, `metrics_server.py` | counters and gauges of the process | `inc`, `dec`, `set_gauge`, HTTP endpoints | every handler |
| Configuration, errors, command line | none | | |

What is hard: replicas interleave between any two API calls, and no write
carries a resourceVersion; leadership and the status are read before the
handler waits and used afterwards; every call may fail, be applied although its
answer is lost, or be the last one before a crash; the election depends on
time; and several failure handlers fail themselves. `PROJECT.json` lists these
hazards at their lines with the properties that cover them.

What makes each component correct:

- election: at most one leader; a leader holds a Lease that has not expired;
  after faults the replicas settle on one leader;
- reconciliation: the cooldown separates pipelines and only one is at work; a
  pod is isolated before it is ejected; maxReplicas is never exceeded; only the
  leader acts; the critical pod is the one that is remediated;
- lifecycle: deleting a resource leaves no Istio configuration behind, and it
  does go; creating it does not upset the cooldown;
- metrics adapter: a rule triggers once, and only once, it has been violated for
  forSeconds;
- tickets: a bounded number of attempts, no backoff above the cap, one incident_id
  for all attempts, a second ticket only where an answer was lost;
- operator metrics: the gauges agree with what they count.

## 2. Modules

| Module | What it is |
|---|---|
| `Leadership` | what the election promises to the handlers: a lock, and a flag that says whether the promise stands |
| `LeaderElection` | the Lease protocol of all replicas; its properties; its inductive invariant |
| `MCLeaderElection` | symmetry and constraint for TLC |
| `ElectionLiveness` | the election with a bounded number of faults and fairness |
| `LeaderElectionProofs` | the theorems about `LeaderElection` |
| `RemediationGate` | what the cooldown promises: a gate that opens only after a quiet period, for one pipeline |
| `Reconcile` | `on_timer` of all replicas for one resource, with the pipeline and the cluster objects it changes; its properties; its inductive invariant |
| `ReconcileProofs` | the theorems about `Reconcile` |
| `MCReconcile` | what a check may find, symmetry and constraint for TLC |
| `Lifecycle` | creation and deletion of the resource by all replicas, on top of `Reconcile`; its properties; its inductive invariant |
| `LifecycleLiveness` | the same with faults that stop, and fairness |
| `LifecycleProofs` | the theorems about `Lifecycle`, from those about `Reconcile` |
| `MCLifecycle`, `MCLifecycleLiveness` | the answer of a check, symmetry, constraints and view for TLC |
| `SustainWindow` | the window of forSeconds for one rule and pod; its invariant |
| `TicketRetry` | `create_ticket` with its retries against an unreliable webhook; its invariant |
| `Incident` | both in one `on_timer`, with the cooldown: from the samples to the ticket |
| `IncidentProofs` | the theorems about `SustainWindow`, `TicketRetry` and `Incident` |
| `MCIncident` | instantiates `Incident` for TLC |
| `Operator` | the whole process: the election of `LeaderElection` and the handlers of `Lifecycle` in one event loop per replica; its properties; its inductive invariant |
| `OperatorProofs` | the theorems about `Operator`, from those about its two parts |

`LeaderElection` implements `Leadership` (`ImplementsLeadership`, with
`leaders` the replicas whose `_is_leader` is set). `Reconcile` uses `Leadership`
as its election: its action `Elect` is `Gain` and `Lose` of that module while
the promise stands. That the two fit together is not left to the reader:
`Operator` composes them and `OperatorProofs` shows that each is what the other
takes it for.
`Reconcile` implements `RemediationGate` (`ImplementsGate`). `Lifecycle` extends
`Reconcile`: every step of `Reconcile` is one of its steps, restricted by what
kopf knows of the deletion, and it implements `RemediationGate` too. `Incident`
composes `SustainWindow` and `TicketRetry`.

### 2.1 LeaderElection

A replica is `"idle"` between heartbeats; `BeginHeartbeat` takes the timestamp
(`now`), `ReadLease` is the GET, and the action that ends the attempt is the
write or the decision not to write: `StandBy`, `Acquire`, or a failure. `Start`
is the first attempt, made by `start()`. `Stop`, `ReleaseRead` and `Release` are
`stop()` and `release_lease`. `Exit` is a crash at any moment or the end of the
process. Failures come in two kinds, as in the code: an `ApiException` becomes a
`LeaderElectionError`, which steps down (`ReadRefused`, `WriteRefused`,
`ReleaseRefused`); anything else goes through to the catch-all of the heartbeat
loop, which leaves `_is_leader` as it was (`ReadBreaks`, `WriteBreaks`,
`ReleaseBreaks`). A failed write may have been applied, before the failure is seen:
a write that is still on its way when its client dies or gives up, and lands on
the Lease later, is left out.

The Kubernetes client is synchronous: between a GET and its write nothing else
runs in that replica, while other replicas do as they please. That is why `stop()`
begins only in `"idle"`.

Time. One `Tick` is a boundary between seconds. A timestamp is its age, cut
one above the duration. renewTime has whole seconds and the clock a fraction,
so at an age of exactly `LeaseDuration` both answers of `_is_lease_expired` are
possible (`MaybeExpired`, `MaybeLive`). Clocks of the replicas agree.
`MaxDelay` and `MaxCall` bound how long a due heartbeat may wait and how long an
attempt may take before the replica is called late; being late is allowed, and
noted in `blame`.

The history variable `blame` collects the three faults the protocol does
not mask: `"race"` (a write landed on a Lease that another replica has written
since the GET), `"silent"` (a leader's heartbeat or release died of something
else than an `ApiException`) and `"late"`. Safety is stated for `blame = {}`; the
violated claims show that each of the first two alone breaks it. No action reads
`blame` or `stale`.

Not modelled: LEADER_ELECT=false; leaseTransitions; the conversion of
renewTime. The code parses it as a string, as its tests do. The Kubernetes
client for Python hands it over as a datetime, which `_is_lease_expired` cannot
parse and therefore calls expired; and outside UTC `mktime` shifts it by the
zone's offset twice. Both would make every standby take the Lease over; neither
can be seen from `src/` alone, and the model takes the string in UTC.

### 2.2 Reconcile

A handler's record `h[r]` holds its position and its locals. `Check` is the
beginning of `on_timer`: the leadership test and the read of the status. One of
`NothingToDo`, `CooldownActive`, `NoPodToRemediate`, `BeginPipeline` follows
when Prometheus answers; each step of the pipeline is then an action
(`Perform`, `ReadScale`, `AtCap`), then `Ticket` and `Record`, the status patch.
A handler really suspends only at Prometheus, at the webhook and at the patch;
its replica can lose leadership only there (`Elect`), other replicas and
autoscalers interleave everywhere.

How a failing call ends is taken from what the code does, not from the handlers
it seems to have. Four of them pass to the logger a keyword that the exception's
`context` contains too (`remediation.py:254`, `:274`, `operator.py:381`, `:406`,
and `metrics_adapter.py:198` for checks); Python raises a TypeError there, which leaves
`on_timer`. So a failed isolation, ejection, label or dump (`StepFails`) and a
refused ticket (`TicketRefused`) end the handler without a status patch, although
the code reads as if it went on; a `ScalingError` or `MaxReplicasError`
(`ScaleFails`, `AtCap`) is logged, the results are dropped and the handler goes
on to the patch; any other exception (`Raise`) leaves `on_timer`.

The pipeline runs for `Target`, the last violated evaluation: the loop that
precedes it (`operator.py:349`) has only a `continue` in its body.

The history variable `lapses` says why the status does not account for what
was done: results dropped (`"abandoned"`), a handler gone without a patch
(`"unlogged"`, `"refused"`, `"lost"`), two handlers at once (`"overlap"`).
`ImplementsGate` promises the cooldown up to the first lapse and so says nothing of
what a lapse does. `CooldownBetweenActions` is the same promise with no lapse
excused, as the documents make it, and the code breaks it.

`operator.py:23` imports a name `metrics_server` from `metrics_server.py` that
is not defined there. As it stands the module cannot be loaded; the models read
the import as the module itself, which is how the code uses the name.

Merged or left out: reading and writing the DestinationRule is one step (the rule
only comes to exist; whether it is created or patched makes no difference to
the properties); the status holds the fields that later runs read, and the phase;
`conditions` are left out; so is a resource without rules.

### 2.3 Lifecycle

The resource is `"live"`, `"deleting"` while its finalizer is on, then `"none"`.
kopf is external and modelled from how the handlers use it: it runs the handlers
of every replica, keeps one mark of the handled creation and one finalizer for
all of them on the resource, calls a handler that raised again, starts no timer
once a replica has seen the deletion (`Notice`), and takes the finalizer off when
that replica's `on_delete` has succeeded and its `on_timer` is over (`Release`).

`on_create` (`CreateOnStandby`, `CreateOnLeader`) returns at once on a standby,
which counts as handled for all replicas (`SeeHandled`). On a leader it never
succeeds: `_build_conditions("healthy")` reads `check_result.error` of a
`check_result` that is None (`operator.py:133`, called at `:198`) and raises after
five fields of the status have been set. The model takes kopf to patch what was
set and to call the handler again, so each run resets the phase, `unhealthyPods`
and `incidentCount`, but never `lastRemediationTime`. (That a count which
`deploy/crd.yaml:254` calls the total since creation goes back to zero is a
divergence that no property is about.)

`on_delete` suspends nowhere, since the Kubernetes client is synchronous:
`Cleaning(r)` keeps replica `r` from everything else, but other replicas go on
between its calls. `Skip` is the standby that returns at once, `BeginCleanup` the
leader that reads `unhealthyPods`, `Unrule` and `Unlabel` its calls. A failed
removal of the rule raises in its own log call, which passes `deployment` twice
(`operator.py:494`), so `on_delete` is repeated until the rule is gone
(`UnruleFails`); a refused removal of a label is logged and forgotten
(`UnlabelFails`); any other exception repeats `on_delete` (`UnlabelRaises`). A crash
can come at any moment (`CrashAndRestart`), also in the middle of a clean-up.

The README of the operator promises that nothing is left. The code does not keep
that (`NoOrphans`). The history variable `escapes` names the four ways out, and
`NothingLeft` says that there is no fifth: a finalizer taken off after standbys
only (`"standby"`); a pipeline, of the same replica or another, that ejects after the
clean-up has begun (`"overtaken"`); a pod ejected earlier that `unhealthyPods` does not list
any more (`"unlisted"`); a label whose removal was refused (`"unlabelled"`). `NoOrphans` excuses none of
them; the run that violates it shows the shortest, the standby's.

### 2.4 Incident

`SustainWindow` keeps, under one key of `_violation_start`, the age of the first
violation, and beside it the history `seen`: which samples were over the
threshold, under it or missing, by age. Time is counted in units of at most a
check interval; ages are cut at `ForSeconds`, where the code stops telling them
apart. `kept` says whether the adapter lives from check to check: the class and
its tests are written for one that does (TRUE), `on_timer` makes a new one for
every check (FALSE). Both are initial states, so that `WindowIsExact` is about the
class and `SustainedTriggers` shows what the way it is used makes of it.

`TicketRetry` is one call of `create_ticket` after another: `Begin` makes the
payload and its incident_id, `Answer` is what an attempt meets, `BackOff` what
follows, `Wake` the end of the sleep. The webhook may have opened a ticket although
the attempt timed out or was answered with a status to retry (`Unanswered`). A
redirection counts as created, whatever it leads to (`Redirected`). A status that is not retried is the
outcome `"refused"`, and a body that is not an object raises in `_extract_ticket_id`
(`"raised"`); neither reaches the status of the resource. Delays are whole units
and the jitter an integer part of them.

`Incident` is a leader's `on_timer` with nothing but these two: a check that
triggers after the cooldown begins a call, and the next check waits for its end.

The incident_id contains the second in which the payload was made: it is the same
for all attempts of a call (`OneIncident`) and a new one at the next check, so a
violation that outlasts its cooldown gets several tickets with several
incident_ids. `README.md:57` of the operator says only that identifiers
"prevent duplicates"; no property takes a side.

### 2.5 Operator

`Reconcile` and `Lifecycle` let leadership change as `Leadership` allows.
`Operator` puts the real election in its place: the variables of
`LeaderElection` beside those of `Lifecycle`, and `leaders`, which the handlers
read through `is_leader()`, set to what the election makes of `_is_leader` at each
of its steps (`Elects`). What ties the two is the process they share.

- One event loop: an election step needs a loop that is free (`LoopIsFree`). The
  Kubernetes client is synchronous, so a pipeline or a clean-up between two of its
  calls keeps the heartbeat from running, and handlers run only while no call of
  the election is in flight (`Serving`): `start()` is awaited before kopf calls
  handlers, and a heartbeat does not suspend between its GET and its write.
- One life: a crash (`Exits`) ends both, and a restart begins with `Start`.
- One clock: `Clock` ages the Lease and the cooldown together. A pipeline that
  takes too long makes its own replica's heartbeat late, which is blamed as any
  late heartbeat is; nothing excuses it.

`startup` and `cleanup` of `operator.py` are `Election!Start` and `Election!Stop`.
The metrics server that they start and stop, and the gauge that the leadership
callbacks set, are left out. Handlers that kopf still runs while `stop()` releases
the Lease are allowed: a conservative reading of kopf, which is not in the repository.

No run checks `Operator`: the product of a Lease with ages and positions and of
the lifecycle is out of TLC's reach at two replicas, and one replica shows nothing.
Its parts are model-checked, and its properties proved (section 5).

## 3. Runs

| Run | Instance | What it shows |
|---|---|---|
| `election` | 3 replicas, duration 6, interval 1, delays up to 1 | `NoSplitBrain`, `LeaderHoldsLiveLease`, the inductive invariant and the refinement, up to a blamed fault other than a race |
| `election_liveness` | 2 replicas, duration 3, any 3 faults | `EventuallyOneLeader` |
| `election_race` | 2 replicas | `RacesAreHarmless` is violated |
| `election_silent` | 2 replicas | `FailedRenewalEndsLeadership` is violated |
| `reconcile` | 2 replicas, 2 pods, all steps, cooldown 2 | `IsolatedFirst`, `HardCap`, `AllOrNothing`, `ImplementsGate`, and the inductive invariants `IInv` and `RunsAreWhole` |
| `reconcile_cooldown` | 2 replicas, 2 pods, all steps but the dump; failed calls have no effect | `CooldownBetweenActions` is violated |
| `lifecycle` | 2 replicas, 1 pod, eject and label | `NothingLeft`, `ImplementsGate`, and the inductive invariant `LifeIInv` |
| `lifecycle_liveness` | 2 replicas, 1 pod, eject; faults that stop | `EventuallyGone`, `EventuallyRemediated` |
| `lifecycle_orphans` | as `lifecycle` | `NoOrphans` is violated |
| `incident` | window 3, 4 attempts, delays 2, 3, 3 with jitter 1, cooldown 3 | `WindowIsExact`, `TicketIsForSustained`, `DuplicatesNeedLostAnswers`, `OneIncident`, `CallProgresses`, `CallEnds`, and the inductive invariant |
| `sustain_window` | window 3 | `SustainedTriggers` is violated |
| `backoff` | 7 attempts, base 1, cap 30, jitter one tenth, as in the code | `BackoffIsCapped` is violated |

Why the bounds are enough. In `election` a third replica can read a Lease while
two others write it; the duration 6 is the least that `TimingAssumption` allows
with delays of one tick, so that a leader that uses up all its delays comes
within one tick of expiry. Ages are cut where the code stops telling them apart.
Its constraint `OnlyRaces` stops at the first silent or late fault, after which
the properties promise nothing; `election_liveness` goes past it. In `reconcile` two
handlers can overlap, three answers cover a critical pod alone, before a warning
about another pod, and before an evaluation without a pod; `MaxScale` lets an
autoscaler go past maxReplicas; a history limit of 1 is reached by the second
remediation; the cooldown of 2 has a state before, at and after its end.
`NoneCutOff` lets handlers overlap but stops where one is cut off after it
changed the cluster: the cooldown is not promised from there on (`reconcile_cooldown`
looks past it), and the theorems of section 5 have no such limit.

In `lifecycle` two replicas are what it takes to share a finalizer, to be
overtaken and to be relieved in the middle of a clean-up. Its steps are those that
`on_delete` undoes; the one pod can be listed or not, ejected or not. `Whole`
stops behind the first escape and behind a run that was cut off, after which the
properties promise nothing; the theorems have no such limit. In
`lifecycle_liveness` the `VIEW` leaves out what no action reads to decide: history
variables, what the status only reports, who has a creation to handle after it is
over, and everything once the resource is gone, when both properties are settled.
`ForReal` leaves out the dry run, which makes no call that could fail. In
`incident` the first delay is below the cap and the second above it, the last
attempt is the fourth, a call takes longer than the window and than the cooldown,
so samples go missing while it lasts.

The six violated claims are quotations of the repository's documents, comments
and tests, at the lines given under `findings`. What the traces show:

- election: two standbys take over one expired Lease; a leader whose renewal fails of
  a connection error goes on leading.
- `reconcile_cooldown`: a pod is isolated, its ejection is refused, the log call of
  that failure raises a TypeError; nothing is recorded and the next check remediates
  again at once. This is the shortest of several ways: results dropped at the cap of
  replicas, a webhook that answers 401 or 404, a crash before the patch, and, with no
  failure at all, a change of leader while the handler waits for the webhook, since the
  patch with the timestamp comes after that wait. The constraint `FailuresAreClean`
  shows that no lost answer is needed.
- `lifecycle_orphans`: only standbys ran `on_delete`.
- `sustain_window`: the adapter that remembers the first violation is new at every
  check.
- `backoff`: the jitter is added to the capped delay. With the three attempts of the
  default configuration the cap is out of reach; `TICKET_RETRY_MAX_ATTEMPTS` above
  six reaches it. The test allows 35 seconds where its docstring says that
  the cap of 30 is never exceeded.

Other divergences are visible in the models without a run of their own:

- A Lease that was released has an empty holder and a fresh renewTime: the action
  `StandBy` covers it, and a heartbeat that finds it waits for the whole duration,
  where `leader_election.py:240` says that "another replica can acquire immediately".
- `on_timer` asks `is_leader()` once, before it waits for Prometheus, and runs its
  pipeline whatever became of its leadership (`BeginPipeline` does not ask), where
  `README.md:323` says that only the holder of the Lease runs handlers.
- The pipeline runs for the last violated evaluation (`Target`). A warning about
  another pod that comes after a critical violation is the one remediated, where
  `operator.py:312` announces "Execute remediation for critical violations".
- `unhealthyPods`, which a later check overwrites and a repeated `on_create` empties,
  is all that `on_delete` strips labels from (`BeginCleanup`); and an `on_timer` that
  waits for Prometheus meanwhile creates the rule again after the clean-up. Both are
  escapes of section 2.3, where `README.md:408` promises that the labels go.

## 4. Fairness

Safety needs none. `ElectionLiveness` assumes weak fairness of what the code and
its platform repeat: the heartbeat loop (`while not self._stop_event.is_set()`),
an answer to each call, the end of a stopping process, its restart by
Kubernetes, and time. Nothing is assumed of faults, crashes and shutdowns, which
may come at any moment, `MaxFaults` times. A create that meets a Lease made
meanwhile (409) is part of the regular protocol and costs no fault. That time
passes on time once faults are over is the assumption that replicas are late
only finitely often.

`LifecycleLiveness` has a variable `calm`: faults (failed calls and patches,
crashes) happen until it is set, leaders change as they like. It assumes that the
event loop of every replica comes round to its handlers and to the watch, that kopf
repeats what raised, and that time passes; nothing of users who create and delete,
of `on_create`, of leaders and of autoscalers. `EventuallyRemediated` adds what the
promise needs: a leader that stays, and an application that no check finds
healthy; what another replica does late may postpone the end of the cooldown, but
not for ever.

`Incident` assumes that an attempt ends (httpx has a time-out), that the event loop
wakes a sleeper, and that time passes. Checks need not be made.

## 5. Proofs

`LeaderElectionProofs` proves, for any set of replicas and any timing with
`RenewInterval + MaxDelay + 3 * MaxCall < LeaseDuration`:

- `TypeCorrect`: `TypeOK` is invariant;
- `LeadersHoldLiveLeases` and `SplitBrainNeedsBlame`;
- `ElectionImplementsLeadership`.

`NoSplitBrain` is not inductive: two leaders are impossible because each
holds the Lease, and a leader holds the Lease because nobody can have taken it
over, which depends on time. The invariant `IInv` adds three facts: a GET that no
write has overtaken still tells the truth (`Snapshot`), so a write that is not a
race finds the Lease as it was read; an attempt that is not late carries a
timestamp of age at most `MaxCall` (`Punctual`); and the Lease of a leader is no
older than what its position allows (`LeaderHolds`, `AgeBound`), which stays
below the duration. A standby that takes over has read an age of at least the
duration, so no leader holds the Lease it takes. A release in flight is the
longest way from one renewal to the end of leadership, hence the factor 3.
`IdentityAssumption` and `TimingAssumption` are the only assumptions; the second is what an operator
must respect when choosing the duration and interval (15 and 5 by default).

`ReconcileProofs` proves, for any replicas, pods, answers of Prometheus, enabled
steps and limits that satisfy `ReconcileAssumption`:

- `ReconcileTypes`: `TypeOK` is invariant;
- `IsolationComesFirst` and `CapIsHard`: `IsolatedFirst` and `HardCap`, with no
  condition on faults;
- `ReconcileImplementsGate`: every step of `Reconcile` is a step of
  `RemediationGate` or is not seen there;
- `AccountedCooldown`: what `CooldownBetweenActions` promises, up to the first lapse;
- `NothingByHalves`: `AllOrNothing`, with no condition on faults.

None of these is inductive. `IsolatedFirst` needs `PastIsolation`: whoever may
eject a pod has isolated it, because a handler leaves the isolation only when it
succeeded (a failure ends it); `HardCap` needs `ScaleRead`, what the handler knows
of the number it read. The gate needs `Accounted`: while there is no lapse, what
the status says, or what the one handler knows or is about to write, is no older
than the last change of the cluster, a handler's own changes excepted. `IInv`
joins them with `OneHandler` and two facts about positions.

The handlers' steps share one argument. `Move(r, x)` says that a step replaces
the run of `r` by `x`, keeps the types (`Typed`), leaves a run that fits the
cluster (`Fits`) and accounts for its changes (`Tells`). Such a step keeps `IInv`
(`MoveKeepsIInv`) and is a step of the gate (`MoveIsGateStep`); one lemma for each
action shows that it is a `Move`. The ways a call can end (`Advance`, `Abandon`,
`Vanish`) have lemmas of their own, which the actions share. The order of
the pipeline comes from `FollowingIsNext`: `Following(n)` is the enabled step of
least rank above `n`. The steps around the handlers (`Elect`, `Autoscale`, `Tick`)
have theirs; ageing keeps the order of ages (`OlderOrder`).

`AllOrNothing` has an invariant of its own, `RunsAreWhole`: a run at a step has the
results of exactly the enabled steps of lower rank. It holds because nothing is
enabled between a step and the one that follows it (`BeforeFollowing`), and
because no way to end a call early keeps its results (`AbandonIsWhole`,
`IdleIsWhole`). The entry that the status calls a "full_remediation" is one, but a
pipeline that failed half-way leaves no entry at all.

`LifecycleProofs` proves, for any replicas and pods:

- `LifeTypes`: `LifeTypeOK` is invariant;
- `LifeIsolatesFirst`, `LifeCapIsHard` and `LifeImplementsGate`: `IsolatedFirst`,
  `HardCap` and `ImplementsGate`, with the handlers of creation and deletion in
  between;
- `CleanUpIsComplete`: `NothingLeft`.

A step of `Lifecycle` either is a step of `Reconcile` or changes nothing that its
invariant is about (`on_create` and the clean-up write fields that the gate does
not look at), so the lemmas of `ReconcileProofs` (`StepKeepsIInv`, `StepIsGateStep`)
carry over. `NothingLeft` is not inductive: when the finalizer goes, it must be known
that the clean-up of some replica was complete and stayed so. `CleanSoFar` says, while
there is no escape, that all ejected pods are still on the list of every clean-up at
work, that the rule is gone after its call, and the labels after the last. Two
clean-ups at once keep it because each of them only removes. `DryRunIsClean` is
needed because a dry run skips the calls.

`IncidentProofs` proves, for any window, number of attempts, delays, jitter and
cooldown: `IncidentTypeCorrect`, `WindowTheorem` (`WindowIsExact`), `TicketTheorem`
(`TicketIsForSustained`), `DuplicatesTheorem`, `OneIncidentTheorem` and
`ProgressTheorem` (`CallProgresses`). The window needs `OldestStanding`: the remembered violation is a
sample over the threshold that no later sample contradicts, and, for an adapter that
is kept, the oldest such sample. When time passes the samples move by one age and are
merged at `ForSeconds`; `WindowTickKeeps` shows that the oldest moves with them. The
call needs `PerAttempt`: by its n-th attempt it has opened at most n tickets and slept
at most n of the longest backoffs.

`CallProgresses` is the safety half of `CallEnds`: `Left` counts what is left of a
call (a request, a waking and the longest backoff for each attempt, and the rest of
the present one), no step raises it, and every step of the call and every unit of
time that is slept lowers it. What remains for fairness is that a step is taken.

Three theorems say how far the finding about the sustain window reaches:
`KeptAdapterTriggers` (`SustainedTriggers` holds of an adapter that is kept),
`UnsustainedTriggers` (and of rules with a forSeconds of zero), and
`FreshAdapterNeverTriggers` (with any other forSeconds and the adapters that
`on_timer` makes, no rule triggers and no ticket is asked for, in any behaviour).

`OperatorProofs` is about the composition. Whatever the election does, with no
assumption on its timing and after a split brain too:

- `OperatorIsolatesFirst`, `OperatorKeepsCap`, `OperatorCleansUp`,
  `OperatorRecordsWhole` and `OperatorImplementsGate`: `IsolatedFirst`, `HardCap`,
  `NothingLeft`, `AllOrNothing` and `ImplementsGate` of the whole operator. A step of
  it either is a step of `Lifecycle` or changes nothing but who leads
  (`OperatorStepCases`), and the invariants of the handlers say nothing of
  `leaders`: the mutations are safe by themselves, and the cooldown depends on the
  election only through the lapse `"overlap"`.
- `OperatorImplementsElection`: handlers that hold up the event loop do not disturb
  the Lease protocol.

With the election's two assumptions (`ElectionAssumption`):

- `OperatorImplementsLifecycle`: until a fault is blamed, every step is one of
  `Lifecycle`. Here the abstract `Elect` is discharged: when an election step changes
  `leaders`, nobody led before or the leader left (`ElectsIsLeaderChange`), and its
  replica's handler is suspended;
- `PipelinesAreFenced` (`PipelineHoldsLease`): while the pipeline of a leader is at
  work nobody else comes to lead and its Lease does not expire, unless a fault is
  blamed. A pipeline that outlasts the Lease is such a fault: no guard of the code
  fences it;
- `OverlapNeedsDeposed` (`OverlapIsWithDeposed`): without a blamed fault two handlers
  overlap only when one of them has outlived the leadership of its replica, since
  `on_timer` asks `is_leader()` once, before its waits. So the promise of
  `README.md:323` fails for that reason only.

Their invariant (`OperatorInductive`) joins those of the two parts by
`leaders = Election!Leaders`: what the handlers see is what the election did
(`StepAgrees`), a crash included.

The invariants themselves are theorems too: `Inductive` in `LeaderElectionProofs` and
in `ReconcileProofs`, `RunsInductive`, `LifeInductive`, `IncidentInductive` and
`OperatorInductive`. The runs check each of them on a small instance, the last
excepted, whose parts they check. The assumptions are those that the
modules state on their constants: `TimingAssumption` is one an operator must respect,
`LifecycleAssumption` takes Istio as enabled, the others give types.

Only model-checked: `EventuallyOneLeader`, `EventuallyGone`, `EventuallyRemediated`
and `CallEnds` (liveness is out of the prover's reach). No module that is proved
about declares a RECURSIVE operator.

## 6. Not modelled, and what is left

- Operator metrics: counters and gauges that nothing reads to decide. The gauge
  of monitored resources goes wrong (it is raised by every repeated `on_create`);
  it is listed as a hazard.
- The conversion of renewTime (section 2.1), which depends on the zone of the host
  and on the client library.
- `on_resume`, which writes `observedGeneration` only; a resource that is created
  again under its name; a specification that disables Istio or names another
  Deployment before the deletion, where `on_delete` cleans up less.
- Two series of one pod under one rule, which share a sustain window.
- A run of `Operator`, the product of election and lifecycle: out of TLC's reach, so
  it is proved about only, and its liveness follows from nothing here: that a
  replica of the composed operator leads and remediates in the end is checked of the
  parts, each with the other abstracted.
- Configuration, errors, command line: no state. Payloads and signatures: data
  without control.

What could come next: the sustain window inside `Reconcile`, with several pods; the
leader gauge against `is_leader()`; liveness of the pipeline with autoscalers that
compete for `spec.replicas`.
