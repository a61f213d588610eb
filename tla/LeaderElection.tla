---------------------------- MODULE LeaderElection ----------------------------
(***************************************************************************)
(* The Lease-based leader election of src/leader_election.py, run by every *)
(* replica of the operator against one coordination.k8s.io/Lease object.   *)
(*                                                                         *)
(* A heartbeat is three steps, because other replicas interleave with it:  *)
(* it takes its timestamp, its GET is answered, and the write it decides   *)
(* on lands.  Within one replica the attempt is not interleaved: the       *)
(* Kubernetes client is synchronous and blocks the event loop.             *)
(*                                                                         *)
(* Time is counted in ticks, one per wall-clock second boundary.  A        *)
(* timestamp is kept as its age, which stops growing one past the lease    *)
(* duration: the code only ever asks whether an age exceeds the duration.  *)
(***************************************************************************)
EXTENDS Integers

CONSTANTS
  Replica,        \* the replicas' identities (HOSTNAME: kept across restarts)
  NoLease,        \* "the Lease object does not exist" (a 404)
  NoHolder,       \* holderIdentity = "": a released Lease
  LeaseDuration,  \* lease_duration_seconds
  RenewInterval,  \* renewal_interval_seconds
  MaxDelay,       \* ticks a due heartbeat may wait for the event loop ...
  MaxCall         \* ... and an attempt, or a call of a release, may take,
                  \* before the replica counts as late

ASSUME IdentityAssumption ==
  /\ NoLease \notin Replica
  /\ NoHolder \notin Replica
  /\ NoLease # NoHolder

\* The heartbeat of a replica that is not late completes before its Lease
\* expires (the defaults are 15 for the duration and 5 for the interval).
ASSUME TimingAssumption ==
  /\ LeaseDuration \in Nat
  /\ RenewInterval \in Nat
  /\ MaxDelay \in Nat
  /\ MaxCall \in Nat
  /\ RenewInterval + MaxDelay + 3 * MaxCall < LeaseDuration

VARIABLES
  \* the Lease object in the API server
  holder,     \* its holderIdentity, NoHolder or NoLease
  age,        \* the age of its renewTime
  \* each replica's process
  phase,      \* where its elector is, see Phase
  booted,     \* start() has returned: the heartbeat task runs
  isLeader,   \* _is_leader
  wait,       \* ticks since the last heartbeat ended
  stamp,      \* age of the timestamp the attempt (or release) will write
  seen,       \* the holder its GET returned ...
  seenAge,    \* ... and the age, by now, of the renewTime it returned
  \* history variables, read by no action
  stale,      \* the Lease was written by another replica since the GET
  blame       \* the faults that the protocol does not mask, so far

lease == <<holder, age>>
attempt == <<stamp, seen, seenAge>>
vars == <<holder, age, phase, booted, isLeader, wait, stamp, seen, seenAge,
          stale, blame>>

(***************************************************************************)
(*   "down"       no process                                               *)
(*   "idle"       waiting for the renewal interval to elapse               *)
(*   "reading"    timestamp taken, GET in flight                           *)
(*   "deciding"   GET answered, the write it leads to in flight            *)
(*   "releasing"  stop(): GET of release_lease in flight                   *)
(*   "clearing"   stop(): PATCH that empties holderIdentity in flight      *)
(*   "stopped"    stop() is over, the process is about to exit             *)
(***************************************************************************)
Calling == {"reading", "deciding", "releasing", "clearing"}
Phase == Calling \cup {"down", "idle", "stopped"}

\* "race":   a write landed on a Lease changed since the writer's GET;
\* "silent": a leader's heartbeat or release died of something else than an
\*           ApiException, which leaves _is_leader as it was;
\* "late":   a replica exceeded MaxDelay or MaxCall.
Blame == {"race", "silent", "late"}

Holder == Replica \cup {NoHolder, NoLease}
Age == 0 .. LeaseDuration + 1
Wait == 0 .. RenewInterval + MaxDelay

TypeOK ==
  /\ holder \in Holder
  /\ age \in Age
  /\ phase \in [Replica -> Phase]
  /\ booted \in [Replica -> BOOLEAN]
  /\ isLeader \in [Replica -> BOOLEAN]
  /\ wait \in [Replica -> Wait]
  /\ stamp \in [Replica -> Age]
  /\ seen \in [Replica -> Holder]
  /\ seenAge \in [Replica -> Age]
  /\ stale \in [Replica -> BOOLEAN]
  /\ blame \in SUBSET Blame

Init ==
  /\ holder = NoLease
  /\ age = 0
  /\ phase = [r \in Replica |-> "down"]
  /\ booted = [r \in Replica |-> FALSE]
  /\ isLeader = [r \in Replica |-> FALSE]
  /\ wait = [r \in Replica |-> 0]
  /\ stamp = [r \in Replica |-> 0]
  /\ seen = [r \in Replica |-> NoLease]
  /\ seenAge = [r \in Replica |-> 0]
  /\ stale = [r \in Replica |-> FALSE]
  /\ blame = {}

-------------------------------------------------------------------------------
(* Helpers *)

\* Mutant: expiry is judged by the renewal interval.
ExpiredAfterInterval(a) == a > RenewInterval

\* renewTime is cut to whole seconds and compared with a fractional clock:
\* at an age of exactly LeaseDuration ticks the answer depends on the
\* fraction, so both are possible.
MaybeExpired(a) == a >= LeaseDuration
MaybeLive(a) == a <= LeaseDuration

\* A failure that no handler of LeaderElectionError sees is "silent" when it
\* leaves a leader in place.
Silent(r) == IF isLeader[r] THEN {"silent"} ELSE {}

\* The API server applies a write of replica r.  The bodies carry no
\* resourceVersion, so a write lands whatever happened since the GET.
Write(r, h, a, faults) ==
  /\ holder' = h
  /\ age' = a
  /\ stale' = [s \in Replica |->
                 s # r /\ (stale[s] \/ phase[s] \in {"deciding", "clearing"})]
  /\ blame' = blame \cup faults \cup (IF stale[r] THEN {"race"} ELSE {})

NoWrite(r, faults) ==
  /\ stale' = [stale EXCEPT ![r] = FALSE]
  /\ blame' = blame \cup faults
  /\ UNCHANGED lease

\* Mutant: the Lease of another holder is never taken over.
RenewOrCreate(r) == seen[r] \in {NoLease, r}

\* The snapshot leads to a write: create, renewal or takeover.
WantsLease(r) ==
  \/ seen[r] \in {NoLease, r}
  \/ MaybeExpired(seenAge[r])

\* That write takes effect.  A create needs the Lease to be still absent; a
\* renewal patches renewTime only, whoever holds the Lease by now; a takeover
\* replaces the whole object.
Land(r, faults) ==
  /\ seen[r] = NoLease => holder = NoLease
  /\ Write(r, IF seen[r] = r THEN holder ELSE r, stamp[r], faults)

\* Mutant: the timestamp of the first attempt is kept for the later ones.
KeepTimestamp(r) ==
  /\ seen' = [seen EXCEPT ![r] = NoLease]
  /\ seenAge' = [seenAge EXCEPT ![r] = 0]
  /\ UNCHANGED stamp

\* Nothing of an attempt outlives it.
Forget(r) ==
  /\ stamp' = [stamp EXCEPT ![r] = 0]
  /\ seen' = [seen EXCEPT ![r] = NoLease]
  /\ seenAge' = [seenAge EXCEPT ![r] = 0]

\* The first heartbeat follows start() at once, every other one waits for the
\* renewal interval.
EndAttempt(r) ==
  /\ phase' = [phase EXCEPT ![r] = "idle"]
  /\ booted' = [booted EXCEPT ![r] = TRUE]
  /\ wait' = [wait EXCEPT ![r] = IF booted[r] THEN 0 ELSE RenewInterval]
  /\ Forget(r)

\* An exception that _try_acquire does not catch: the heartbeat loop logs it
\* and goes on, with _is_leader as it was; start() lets it through and the
\* process does not come up.
BreakAttempt(r) ==
  /\ \/ booted[r] /\ EndAttempt(r)
     \/ /\ ~booted[r]
        /\ phase' = [phase EXCEPT ![r] = "down"]
        /\ UNCHANGED <<booted, wait>>
        /\ Forget(r)
  /\ UNCHANGED isLeader

Lead(r, b) == isLeader' = [isLeader EXCEPT ![r] = b]

-------------------------------------------------------------------------------
(* start(), the heartbeat loop and try_acquire_lease *)

\* A fresh process: _try_acquire() of start() takes its timestamp.
Start(r) ==
  /\ phase[r] = "down"
  /\ phase' = [phase EXCEPT ![r] = "reading"]
  /\ UNCHANGED <<lease, booted, isLeader, wait, attempt, stale, blame>>

BeginHeartbeat(r) ==
  /\ phase[r] = "idle"
  /\ wait[r] >= RenewInterval
  /\ phase' = [phase EXCEPT ![r] = "reading"]
  /\ wait' = [wait EXCEPT ![r] = 0]
  /\ UNCHANGED <<lease, booted, isLeader, attempt, stale, blame>>

ReadLease(r) ==
  /\ phase[r] = "reading"
  /\ phase' = [phase EXCEPT ![r] = "deciding"]
  /\ seen' = [seen EXCEPT ![r] = holder]
  /\ seenAge' = [seenAge EXCEPT ![r] = age]
  /\ UNCHANGED <<lease, booted, isLeader, wait, stamp, stale, blame>>

\* Mutant: a failed GET does not step down.
LeadOnThroughFailedRead(r) ==
  /\ phase[r] = "reading"
  /\ NoWrite(r, {})
  /\ EndAttempt(r)
  /\ UNCHANGED isLeader

\* The GET fails with an ApiException other than 404: a leader steps down.
ReadRefused(r) ==
  /\ phase[r] = "reading"
  /\ Lead(r, FALSE)
  /\ NoWrite(r, {})
  /\ EndAttempt(r)

\* The GET fails with anything else (no connection, no credentials).
ReadBreaks(r) ==
  /\ phase[r] = "reading"
  /\ NoWrite(r, Silent(r))
  /\ BreakAttempt(r)

\* Somebody else's name, or the empty one, on a Lease that has not expired.
StandBy(r) ==
  /\ phase[r] = "deciding"
  /\ seen[r] \notin {NoLease, r}
  /\ MaybeLive(seenAge[r])
  /\ Lead(r, FALSE)
  /\ NoWrite(r, {})
  /\ EndAttempt(r)

Acquire(r) ==
  /\ phase[r] = "deciding"
  /\ WantsLease(r)
  /\ Land(r, {})
  /\ Lead(r, TRUE)
  /\ EndAttempt(r)

\* Mutant: a failed renewal does not step down.
LeadOnThroughFailedWrite(r) ==
  /\ phase[r] = "deciding"
  /\ WantsLease(r)
  /\ Land(r, {}) \/ NoWrite(r, {})
  /\ EndAttempt(r)
  /\ UNCHANGED isLeader

\* The write fails with an ApiException (a create meets a Lease created
\* meanwhile, the server is overloaded, ...).  It may have been applied all
\* the same, only its answer being lost.
WriteRefused(r) ==
  /\ phase[r] = "deciding"
  /\ WantsLease(r)
  /\ Land(r, {}) \/ NoWrite(r, {})
  /\ Lead(r, FALSE)
  /\ EndAttempt(r)

\* The write fails with anything else, applied or not.
WriteBreaks(r) ==
  /\ phase[r] = "deciding"
  /\ WantsLease(r)
  /\ Land(r, Silent(r)) \/ NoWrite(r, Silent(r))
  /\ BreakAttempt(r)

-------------------------------------------------------------------------------
(* stop() and release_lease *)

\* stop() runs between heartbeats (an attempt blocks the event loop), ends
\* the heartbeat task and releases the Lease if this replica leads.
Stop(r) ==
  /\ phase[r] = "idle"
  /\ phase' = [phase EXCEPT ![r] = IF isLeader[r] THEN "releasing"
                                                  ELSE "stopped"]
  /\ wait' = [wait EXCEPT ![r] = 0]
  /\ UNCHANGED <<lease, booted, isLeader, attempt, stale, blame>>

EndStop(r) ==
  /\ phase' = [phase EXCEPT ![r] = "stopped"]
  /\ Forget(r)
  /\ UNCHANGED <<booted, wait>>

\* Still the holder: the PATCH takes its timestamp now.
ReleaseRead(r) ==
  /\ phase[r] = "releasing"
  /\ holder = r
  /\ phase' = [phase EXCEPT ![r] = "clearing"]
  /\ stamp' = [stamp EXCEPT ![r] = 0]
  /\ UNCHANGED <<lease, booted, isLeader, wait, seen, seenAge, stale, blame>>

ReleaseNotHolder(r) ==
  /\ phase[r] = "releasing"
  /\ holder # r
  /\ Lead(r, FALSE)
  /\ NoWrite(r, {})
  /\ EndStop(r)

Release(r) ==
  /\ phase[r] = "clearing"
  /\ Write(r, NoHolder, stamp[r], {})
  /\ Lead(r, FALSE)
  /\ EndStop(r)

\* Either call fails with an ApiException: logged, leadership is given up.
ReleaseRefused(r) ==
  /\ \/ phase[r] \in {"releasing", "clearing"} /\ NoWrite(r, {})
     \/ phase[r] = "clearing" /\ Write(r, NoHolder, stamp[r], {})
  /\ Lead(r, FALSE)
  /\ EndStop(r)

\* Either call fails with anything else: stop() raises with _is_leader set.
ReleaseBreaks(r) ==
  /\ \/ phase[r] \in {"releasing", "clearing"} /\ NoWrite(r, Silent(r))
     \/ phase[r] = "clearing" /\ Write(r, NoHolder, stamp[r], Silent(r))
  /\ EndStop(r)
  /\ UNCHANGED isLeader

-------------------------------------------------------------------------------
(* The process ends: it crashes, or exits after stop() *)

Exit(r) ==
  /\ phase[r] # "down"
  /\ phase' = [phase EXCEPT ![r] = "down"]
  /\ booted' = [booted EXCEPT ![r] = FALSE]
  /\ wait' = [wait EXCEPT ![r] = 0]
  /\ Lead(r, FALSE)
  /\ NoWrite(r, {})
  /\ Forget(r)

-------------------------------------------------------------------------------
(* Time *)

\* Mutant: ages are not bounded.
Unbounded(a) == a + 1

Older(a) == IF a > LeaseDuration THEN a ELSE a + 1

\* A call that has lasted MaxCall ticks, or a leader whose heartbeat has been
\* due for MaxDelay ticks, is late if another tick passes.
Late(r) ==
  \/ phase[r] \in Calling /\ stamp[r] >= MaxCall
  \/ phase[r] = "idle" /\ isLeader[r] /\ wait[r] >= RenewInterval + MaxDelay

Tick ==
  /\ age' = IF holder = NoLease THEN age ELSE Older(age)
  /\ stamp' = [r \in Replica |->
                 IF phase[r] \in Calling THEN Older(stamp[r]) ELSE stamp[r]]
  /\ seenAge' = [r \in Replica |->
                   IF phase[r] = "deciding" /\ seen[r] # NoLease
                     THEN Older(seenAge[r]) ELSE seenAge[r]]
  /\ wait' = [r \in Replica |->
                IF phase[r] = "idle" /\ wait[r] < RenewInterval + MaxDelay
                  THEN wait[r] + 1 ELSE wait[r]]
  /\ blame' = blame \cup (IF \E r \in Replica : Late(r) THEN {"late"} ELSE {})
  /\ UNCHANGED <<holder, phase, booted, isLeader, seen, stale>>

-------------------------------------------------------------------------------
Heartbeat(r) ==
  \/ BeginHeartbeat(r) \/ ReadLease(r) \/ StandBy(r) \/ Acquire(r)

ApiFault(r) ==
  \/ ReadRefused(r) \/ ReadBreaks(r) \/ WriteRefused(r) \/ WriteBreaks(r)
  \/ ReleaseRefused(r) \/ ReleaseBreaks(r)

Shutdown(r) ==
  \/ ReleaseRead(r) \/ ReleaseNotHolder(r) \/ Release(r)

Next ==
  \/ \E r \in Replica : \/ Start(r)
                        \/ Heartbeat(r)
                        \/ Stop(r)
                        \/ Shutdown(r)
                        \/ ApiFault(r)
                        \/ Exit(r)
  \/ Tick

Spec == Init /\ [][Next]_vars

-------------------------------------------------------------------------------
(* Properties *)

Leaders == {r \in Replica : isLeader[r]}

\* "Safe multi-replica deployments without split-brain" (README.md) holds as
\* long as none of the three faults in Blame has happened: API errors, lost
\* answers, crashes, restarts under the same identity and shutdowns at any
\* moment do not make two replicas leaders.
NoSplitBrain ==
  blame = {} => \A r, s \in Leaders : r = s

\* Without those faults a replica that acts as leader is the holder of a Lease
\* that has not expired: it renews, or steps down, in time.  No standby can
\* therefore find the Lease expired while its holder still acts.
LeaderHoldsLiveLease ==
  blame = {} => \A r \in Leaders : holder = r /\ age < LeaseDuration

\* Leadership as the handlers see it is the lock of Leadership.tla: whoever
\* becomes leader becomes so when nobody is, and it is sound until one of the
\* three faults happens.
Promise == INSTANCE Leadership WITH leaders <- Leaders, sound <- blame = {}

ImplementsLeadership == Promise!Spec

-------------------------------------------------------------------------------
(* What the documents promise and the code does not keep *)

\* "Prevents split-brain in multi-replica deployments" (leader_election.py),
\* with writes racing and nothing else going wrong.
RacesAreHarmless ==
  blame \subseteq {"race"} => \A r, s \in Leaders : r = s

\* "If renewal fails, transition to standby" (leader_election.py), whatever the
\* renewal fails of: a replica cut off from the API server does not wait as
\* leader for its next heartbeat once its Lease has expired.
FailedRenewalEndsLeadership ==
  blame \subseteq {"silent"} =>
    \A r \in Leaders : phase[r] = "idle" => holder = r /\ age < LeaseDuration

-------------------------------------------------------------------------------
(* Why the properties hold: the inductive invariant *)

\* A GET that no write of another replica has overtaken still tells the truth.
Snapshot ==
  \A r \in Replica :
    ~stale[r] => /\ phase[r] = "deciding" => seen[r] = holder /\ seenAge[r] = age
                 /\ phase[r] = "clearing" => holder = r

\* An attempt begins with a fresh timestamp, and nothing has exceeded MaxCall.
Punctual ==
  \A r \in Replica :
    /\ phase[r] \notin Calling => stamp[r] = 0
    /\ phase[r] \in Calling /\ blame = {} => stamp[r] <= MaxCall

\* How old the Lease of a leader may be, by what the leader is doing.
AgeBound(r) ==
  CASE phase[r] = "idle" -> MaxCall + wait[r]
    [] phase[r] = "clearing" -> 2 * MaxCall + RenewInterval + MaxDelay + stamp[r]
    [] OTHER -> MaxCall + RenewInterval + MaxDelay + stamp[r]

LeaderHolds ==
  blame = {} => \A r \in Leaders : /\ phase[r] \in Calling \cup {"idle"}
                                   /\ holder = r
                                   /\ age <= AgeBound(r)

IInv == TypeOK /\ Snapshot /\ Punctual /\ LeaderHolds

===============================================================================
