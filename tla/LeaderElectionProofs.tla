------------------------- MODULE LeaderElectionProofs -------------------------
(***************************************************************************)
(* Proofs, for any set of replicas and any timing that satisfies           *)
(* TimingAssumption, that LeaderElection keeps its types, that split-brain *)
(* needs one of the faults in Blame, and that the protocol implements the  *)
(* lock of Leadership.tla.                                                 *)
(***************************************************************************)
EXTENDS LeaderElection, TLAPS

USE IdentityAssumption, TimingAssumption

-------------------------------------------------------------------------------
(* Types *)

LEMMA InitTypeOK == Init => TypeOK
  BY DEF Init, TypeOK, Holder, Age, Wait, Phase, Calling, Blame

\* Writing, and not writing, keep the types.
LEMMA WriteTypes ==
  ASSUME TypeOK, NEW r \in Replica, NEW h \in Holder, NEW a \in Age,
         NEW faults \in SUBSET Blame, Write(r, h, a, faults)
  PROVE  /\ holder' \in Holder
         /\ age' \in Age
         /\ stale' \in [Replica -> BOOLEAN]
         /\ blame' \in SUBSET Blame
  BY DEF TypeOK, Write, Blame

LEMMA NoWriteTypes ==
  ASSUME TypeOK, NEW r \in Replica, NEW faults \in SUBSET Blame,
         NoWrite(r, faults)
  PROVE  /\ holder' \in Holder
         /\ age' \in Age
         /\ stale' \in [Replica -> BOOLEAN]
         /\ blame' \in SUBSET Blame
  BY DEF TypeOK, NoWrite, lease

LEMMA LandTypes ==
  ASSUME TypeOK, NEW r \in Replica, NEW faults \in SUBSET Blame,
         Land(r, faults)
  PROVE  /\ holder' \in Holder
         /\ age' \in Age
         /\ stale' \in [Replica -> BOOLEAN]
         /\ blame' \in SUBSET Blame
  <1>1. (IF seen[r] = r THEN holder ELSE r) \in Holder /\ stamp[r] \in Age
    BY DEF TypeOK, Holder
  <1>2. QED
    BY <1>1, WriteTypes DEF Land

LEMMA ClearTypes ==
  ASSUME TypeOK, NEW r \in Replica, NEW faults \in SUBSET Blame,
         Write(r, NoHolder, stamp[r], faults)
  PROVE  /\ holder' \in Holder
         /\ age' \in Age
         /\ stale' \in [Replica -> BOOLEAN]
         /\ blame' \in SUBSET Blame
  <1>1. NoHolder \in Holder /\ stamp[r] \in Age
    BY DEF TypeOK, Holder
  <1>2. QED
    BY <1>1, WriteTypes

LEMMA SilentType == ASSUME NEW r \in Replica PROVE Silent(r) \in SUBSET Blame
  BY DEF Silent, Blame

\* The end of an attempt or of stop() keeps the types of the process state.
LEMMA EndAttemptTypes ==
  ASSUME TypeOK, NEW r \in Replica, EndAttempt(r)
  PROVE  /\ phase' \in [Replica -> Phase]
         /\ booted' \in [Replica -> BOOLEAN]
         /\ wait' \in [Replica -> Wait]
         /\ stamp' \in [Replica -> Age]
         /\ seen' \in [Replica -> Holder]
         /\ seenAge' \in [Replica -> Age]
  BY DEF TypeOK, EndAttempt, Forget, Phase, Calling, Wait, Age, Holder

LEMMA BreakAttemptTypes ==
  ASSUME TypeOK, NEW r \in Replica, BreakAttempt(r)
  PROVE  /\ phase' \in [Replica -> Phase]
         /\ booted' \in [Replica -> BOOLEAN]
         /\ isLeader' \in [Replica -> BOOLEAN]
         /\ wait' \in [Replica -> Wait]
         /\ stamp' \in [Replica -> Age]
         /\ seen' \in [Replica -> Holder]
         /\ seenAge' \in [Replica -> Age]
  <1>1. CASE EndAttempt(r)
    BY <1>1, EndAttemptTypes DEF TypeOK, BreakAttempt
  <1>2. CASE ~EndAttempt(r)
    BY <1>2 DEF TypeOK, BreakAttempt, Forget, Phase, Calling, Age, Holder
  <1>3. QED
    BY <1>1, <1>2

LEMMA EndStopTypes ==
  ASSUME TypeOK, NEW r \in Replica, EndStop(r)
  PROVE  /\ phase' \in [Replica -> Phase]
         /\ booted' \in [Replica -> BOOLEAN]
         /\ wait' \in [Replica -> Wait]
         /\ stamp' \in [Replica -> Age]
         /\ seen' \in [Replica -> Holder]
         /\ seenAge' \in [Replica -> Age]
  BY DEF TypeOK, EndStop, Forget, Phase, Calling, Age, Holder

LEMMA LeadTypes ==
  ASSUME TypeOK, NEW r \in Replica, NEW b \in BOOLEAN, Lead(r, b)
  PROVE  isLeader' \in [Replica -> BOOLEAN]
  BY DEF TypeOK, Lead

LEMMA OlderType == ASSUME NEW a \in Age PROVE Older(a) \in Age
  BY DEF Older, Age

LEMMA NextTypeOK == TypeOK /\ [Next]_vars => TypeOK'
  <1> SUFFICES ASSUME TypeOK, [Next]_vars PROVE TypeOK'
    OBVIOUS
  <1> {} \in SUBSET Blame
    OBVIOUS
  <1>1. ASSUME NEW r \in Replica, Start(r) PROVE TypeOK'
    BY <1>1 DEF Start, TypeOK, lease, attempt, Phase, Calling
  <1>2. ASSUME NEW r \in Replica, BeginHeartbeat(r) PROVE TypeOK'
    BY <1>2 DEF BeginHeartbeat, TypeOK, lease, attempt, Phase, Calling, Wait
  <1>3. ASSUME NEW r \in Replica, ReadLease(r) PROVE TypeOK'
    BY <1>3 DEF ReadLease, TypeOK, lease, Phase, Calling
  <1>4. ASSUME NEW r \in Replica, ReadRefused(r) PROVE TypeOK'
    BY <1>4, NoWriteTypes, LeadTypes, EndAttemptTypes DEF ReadRefused, TypeOK
  <1>5. ASSUME NEW r \in Replica, ReadBreaks(r) PROVE TypeOK'
    BY <1>5, SilentType, NoWriteTypes, BreakAttemptTypes DEF ReadBreaks, TypeOK
  <1>6. ASSUME NEW r \in Replica, StandBy(r) PROVE TypeOK'
    BY <1>6, NoWriteTypes, LeadTypes, EndAttemptTypes DEF StandBy, TypeOK
  <1>7. ASSUME NEW r \in Replica, Acquire(r) PROVE TypeOK'
    BY <1>7, LandTypes, LeadTypes, EndAttemptTypes DEF Acquire, TypeOK
  <1>8. ASSUME NEW r \in Replica, WriteRefused(r) PROVE TypeOK'
    BY <1>8, LandTypes, NoWriteTypes, LeadTypes, EndAttemptTypes
       DEF WriteRefused, TypeOK
  <1>9. ASSUME NEW r \in Replica, WriteBreaks(r) PROVE TypeOK'
    BY <1>9, SilentType, LandTypes, NoWriteTypes, BreakAttemptTypes
       DEF WriteBreaks, TypeOK
  <1>10. ASSUME NEW r \in Replica, Stop(r) PROVE TypeOK'
    BY <1>10 DEF Stop, TypeOK, lease, attempt, Phase, Calling, Wait
  <1>11. ASSUME NEW r \in Replica, ReleaseRead(r) PROVE TypeOK'
    BY <1>11 DEF ReleaseRead, TypeOK, lease, Phase, Calling, Age
  <1>12. ASSUME NEW r \in Replica, ReleaseNotHolder(r) PROVE TypeOK'
    BY <1>12, NoWriteTypes, LeadTypes, EndStopTypes
       DEF ReleaseNotHolder, TypeOK
  <1>13. ASSUME NEW r \in Replica, Release(r) PROVE TypeOK'
    BY <1>13, ClearTypes, LeadTypes, EndStopTypes DEF Release, TypeOK
  <1>14. ASSUME NEW r \in Replica, ReleaseRefused(r) PROVE TypeOK'
    BY <1>14, ClearTypes, NoWriteTypes, LeadTypes, EndStopTypes
       DEF ReleaseRefused, TypeOK
  <1>15. ASSUME NEW r \in Replica, ReleaseBreaks(r) PROVE TypeOK'
    BY <1>15, SilentType, ClearTypes, NoWriteTypes, EndStopTypes
       DEF ReleaseBreaks, TypeOK
  <1>16. ASSUME NEW r \in Replica, Exit(r) PROVE TypeOK'
    <2>1. isLeader' \in [Replica -> BOOLEAN]
      BY <1>16, LeadTypes DEF Exit
    <2>2. /\ holder' \in Holder
          /\ age' \in Age
          /\ stale' \in [Replica -> BOOLEAN]
          /\ blame' \in SUBSET Blame
      BY <1>16, NoWriteTypes DEF Exit
    <2>3. /\ phase' \in [Replica -> Phase]
          /\ booted' \in [Replica -> BOOLEAN]
          /\ wait' \in [Replica -> Wait]
          /\ stamp' \in [Replica -> Age]
          /\ seen' \in [Replica -> Holder]
          /\ seenAge' \in [Replica -> Age]
      BY <1>16 DEF Exit, TypeOK, Forget, Phase, Calling, Wait, Age, Holder
    <2>4. QED
      BY <2>1, <2>2, <2>3 DEF TypeOK
  <1>17. CASE Tick
    <2>1. age' \in Age
      BY <1>17, OlderType DEF Tick, TypeOK
    <2>2. stamp' \in [Replica -> Age] /\ seenAge' \in [Replica -> Age]
      BY <1>17, OlderType DEF Tick, TypeOK
    <2>3. wait' \in [Replica -> Wait]
      BY <1>17 DEF Tick, TypeOK, Wait
    <2>4. QED
      BY <1>17, <2>1, <2>2, <2>3 DEF Tick, TypeOK, Blame
  <1>18. CASE UNCHANGED vars
    BY <1>18 DEF vars, TypeOK
  <1>19. QED
    BY <1>1, <1>2, <1>3, <1>4, <1>5, <1>6, <1>7, <1>8, <1>9, <1>10, <1>11,
       <1>12, <1>13, <1>14, <1>15, <1>16, <1>17, <1>18
       DEF Next, Heartbeat, ApiFault, Shutdown

\* TypeOK holds in every reachable state, whatever the replicas and the timing.
THEOREM TypeCorrect == Spec => []TypeOK
  BY InitTypeOK, NextTypeOK, PTL DEF Spec

-------------------------------------------------------------------------------
(* The inductive invariant.  Most actions end something: the attempt, stop()  *)
(* or the process.                                                            *)

Ends(r) ==
  /\ \E p \in {"idle", "stopped", "down"} : phase' = [phase EXCEPT ![r] = p]
  /\ Forget(r)
  /\ \/ \E h \in Holder, a \in Age, f \in SUBSET Blame : Write(r, h, a, f)
     \/ \E f \in SUBSET Blame : NoWrite(r, f)

LEMMA LandIsWrite ==
  ASSUME TypeOK, NEW r \in Replica, NEW f \in SUBSET Blame, Land(r, f)
  PROVE  \E h \in Holder, a \in Age, g \in SUBSET Blame : Write(r, h, a, g)
  <1>1. (IF seen[r] = r THEN holder ELSE r) \in Holder /\ stamp[r] \in Age
    BY DEF TypeOK, Holder
  <1>2. QED
    BY <1>1 DEF Land

LEMMA BreakEnds ==
  ASSUME TypeOK, NEW r \in Replica, BreakAttempt(r)
  PROVE  /\ \E p \in {"idle", "stopped", "down"} :
              phase' = [phase EXCEPT ![r] = p]
         /\ Forget(r)
  BY DEF BreakAttempt, EndAttempt

LEMMA EndingActions ==
  ASSUME TypeOK, NEW r \in Replica,
         \/ ReadRefused(r) \/ ReadBreaks(r) \/ StandBy(r) \/ Acquire(r)
         \/ WriteRefused(r) \/ WriteBreaks(r) \/ ReleaseNotHolder(r)
         \/ Release(r) \/ ReleaseRefused(r) \/ ReleaseBreaks(r) \/ Exit(r)
  PROVE  Ends(r)
  <1>1. Silent(r) \in SUBSET Blame /\ {} \in SUBSET Blame
    BY SilentType
  <1>2. NoHolder \in Holder /\ stamp[r] \in Age
    BY DEF TypeOK, Holder
  <1>3. CASE ReadRefused(r) \/ StandBy(r)
    BY <1>1, <1>3 DEF ReadRefused, StandBy, EndAttempt, Ends
  <1>4. CASE ReadBreaks(r)
    BY <1>1, <1>4, BreakEnds DEF ReadBreaks, Ends
  <1>5. CASE Acquire(r)
    BY <1>1, <1>5, LandIsWrite DEF Acquire, EndAttempt, Ends
  <1>6. CASE WriteRefused(r)
    BY <1>1, <1>6, LandIsWrite DEF WriteRefused, EndAttempt, Ends
  <1>7. CASE WriteBreaks(r)
    BY <1>1, <1>7, LandIsWrite, BreakEnds DEF WriteBreaks, Ends
  <1>8. CASE ReleaseNotHolder(r)
    BY <1>1, <1>8 DEF ReleaseNotHolder, EndStop, Ends
  <1>9. CASE Release(r) \/ ReleaseRefused(r)
    BY <1>1, <1>2, <1>9 DEF Release, ReleaseRefused, EndStop, Ends
  <1>10. CASE ReleaseBreaks(r)
    BY <1>1, <1>2, <1>10 DEF ReleaseBreaks, EndStop, Ends
  <1>11. CASE Exit(r)
    BY <1>1, <1>11 DEF Exit, Ends
  <1>12. QED
    BY <1>3, <1>4, <1>5, <1>6, <1>7, <1>8, <1>9, <1>10, <1>11

\* Snapshot: a write marks every other snapshot stale.
LEMMA NextSnapshot ==
  ASSUME TypeOK, Snapshot, [Next]_vars
  PROVE  Snapshot'
  <1>1. ASSUME NEW r \in Replica, Ends(r) PROVE Snapshot'
    <2>1. PICK p \in {"idle", "stopped", "down"} : phase' = [phase EXCEPT ![r] = p]
      BY <1>1 DEF Ends
    <2>2. CASE \E h \in Holder, a \in Age, f \in SUBSET Blame : Write(r, h, a, f)
      BY <1>1, <2>1, <2>2 DEF Ends, Write, Forget, TypeOK, Snapshot
    <2>3. CASE \E f \in SUBSET Blame : NoWrite(r, f)
      BY <1>1, <2>1, <2>3 DEF Ends, NoWrite, lease, Forget, TypeOK, Snapshot
    <2>4. QED
      BY <1>1, <2>2, <2>3 DEF Ends
  <1>2. ASSUME NEW r \in Replica, Start(r) \/ BeginHeartbeat(r) \/ Stop(r)
        PROVE  Snapshot'
    BY <1>2 DEF Start, BeginHeartbeat, Stop, lease, attempt, TypeOK, Snapshot
  <1>3. ASSUME NEW r \in Replica, ReadLease(r) \/ ReleaseRead(r)
        PROVE  Snapshot'
    BY <1>3 DEF ReadLease, ReleaseRead, lease, TypeOK, Snapshot
  <1>4. CASE Tick
    BY <1>4 DEF Tick, TypeOK, Snapshot
  <1>5. CASE UNCHANGED vars
    BY <1>5 DEF vars, Snapshot
  <1>6. QED
    BY <1>1, <1>2, <1>3, <1>4, <1>5, EndingActions
       DEF Next, Heartbeat, ApiFault, Shutdown

LEMMA BlameGrows ==
  ASSUME TypeOK, [Next]_vars
  PROVE  blame' = {} => blame = {}
  <1>1. ASSUME NEW r \in Replica, Ends(r) PROVE blame' = {} => blame = {}
    BY <1>1 DEF Ends, Write, NoWrite
  <1>2. QED
    BY <1>1, EndingActions
       DEF Next, Heartbeat, ApiFault, Shutdown, Start, BeginHeartbeat,
           ReadLease, Stop, ReleaseRead, Tick, vars

\* Punctual: time passes a call that has lasted MaxCall only with blame.
LEMMA NextPunctual ==
  ASSUME TypeOK, Punctual, [Next]_vars
  PROVE  Punctual'
  <1>1. blame' = {} => blame = {}
    BY BlameGrows
  <1>2. ASSUME NEW r \in Replica, Ends(r) PROVE Punctual'
    BY <1>1, <1>2 DEF Ends, Forget, Calling, TypeOK, Punctual
  <1>3. ASSUME NEW r \in Replica, Start(r) \/ BeginHeartbeat(r) \/ Stop(r)
        PROVE  Punctual'
    BY <1>1, <1>3
       DEF Start, BeginHeartbeat, Stop, attempt, Calling, TypeOK, Punctual
  <1>4. ASSUME NEW r \in Replica, ReadLease(r) \/ ReleaseRead(r)
        PROVE  Punctual'
    BY <1>1, <1>4 DEF ReadLease, ReleaseRead, Calling, TypeOK, Punctual
  <1>5. CASE Tick
    BY <1>1, <1>5 DEF Tick, Late, Older, Age, TypeOK, Punctual
  <1>6. CASE UNCHANGED vars
    BY <1>6 DEF vars, Punctual
  <1>7. QED
    BY <1>2, <1>3, <1>4, <1>5, <1>6, EndingActions
       DEF Next, Heartbeat, ApiFault, Shutdown

\* Without blame a leader holds a Lease that is too young for anybody to take.
LEMMA LeaderIsHolder ==
  ASSUME IInv, blame = {}, NEW s \in Leaders
  PROVE  s \in Replica /\ holder = s /\ age < LeaseDuration
  <1>1. s \in Replica /\ phase[s] \in Calling \cup {"idle"} /\ holder = s
        /\ age <= AgeBound(s)
    BY DEF IInv, LeaderHolds, Leaders
  <1>2. age \in Int /\ wait[s] \in 0 .. RenewInterval + MaxDelay /\ stamp[s] \in Int
    BY <1>1 DEF IInv, TypeOK, Age, Wait
  <1>3. phase[s] \in Calling => stamp[s] <= MaxCall
    BY <1>1 DEF IInv, Punctual
  <1>4. CASE phase[s] = "idle"
    BY <1>1, <1>2, <1>4 DEF AgeBound
  <1>5. CASE phase[s] = "clearing"
    BY <1>1, <1>2, <1>3, <1>5 DEF AgeBound, Calling
  <1>6. CASE phase[s] \notin {"idle", "clearing"}
    BY <1>1, <1>2, <1>3, <1>6 DEF AgeBound
  <1>7. QED
    BY <1>1, <1>4, <1>5, <1>6

\* A write that leaves no blame does not touch the Lease of another leader.
LEMMA LandSpares ==
  ASSUME IInv, NEW r \in Replica, NEW s \in Leaders, s # r,
         NEW f \in SUBSET Blame,
         phase[r] = "deciding", WantsLease(r), Land(r, f)
  PROVE  blame' # {}
  <1> SUFFICES ASSUME blame' = {} PROVE FALSE
    OBVIOUS
  <1>1. blame = {} /\ ~stale[r]
    BY DEF Land, Write
  <1>2. s \in Replica /\ holder = s /\ age < LeaseDuration
    BY <1>1, LeaderIsHolder
  <1>3. seen[r] = holder /\ seenAge[r] = age
    BY <1>1 DEF IInv, Snapshot
  <1>4. age \in Int
    BY DEF IInv, TypeOK, Age
  <1>5. QED
    BY <1>2, <1>3, <1>4 DEF WantsLease, MaybeExpired

LEMMA ClearSpares ==
  ASSUME IInv, NEW r \in Replica, NEW s \in Leaders, s # r,
         NEW f \in SUBSET Blame,
         phase[r] = "clearing", Write(r, NoHolder, stamp[r], f)
  PROVE  blame' # {}
  <1> SUFFICES ASSUME blame' = {} PROVE FALSE
    OBVIOUS
  <1>1. blame = {} /\ ~stale[r]
    BY DEF Write
  <1>2. holder = s /\ holder = r
    BY <1>1, LeaderIsHolder DEF IInv, Snapshot
  <1>3. QED
    BY <1>2

LEMMA OthersUndisturbed ==
  ASSUME IInv, NEW r \in Replica, NEW s \in Leaders, s # r, blame' = {},
         \/ ReadRefused(r) \/ ReadBreaks(r) \/ StandBy(r) \/ Acquire(r)
         \/ WriteRefused(r) \/ WriteBreaks(r) \/ ReleaseNotHolder(r)
         \/ Release(r) \/ ReleaseRefused(r) \/ ReleaseBreaks(r) \/ Exit(r)
  PROVE  holder' = holder /\ age' = age
  <1>1. Silent(r) \in SUBSET Blame /\ {} \in SUBSET Blame
    BY SilentType
  <1>2. CASE Acquire(r) \/ WriteRefused(r) \/ WriteBreaks(r)
    <2>1. ASSUME NEW f \in {{}, Silent(r)}, Land(r, f) PROVE FALSE
      BY <1>1, <1>2, <2>1, LandSpares DEF Acquire, WriteRefused, WriteBreaks
    <2>2. QED
      BY <1>2, <2>1 DEF Acquire, WriteRefused, WriteBreaks, NoWrite, lease
  <1>3. CASE Release(r) \/ ReleaseRefused(r) \/ ReleaseBreaks(r)
    <2>1. ASSUME NEW f \in {{}, Silent(r)}, phase[r] = "clearing",
                 Write(r, NoHolder, stamp[r], f)
          PROVE  FALSE
      BY <1>1, <2>1, ClearSpares
    <2>2. QED
      BY <1>3, <2>1 DEF Release, ReleaseRefused, ReleaseBreaks, NoWrite, lease
  <1>4. QED
    BY <1>2, <1>3 DEF ReadRefused, ReadBreaks, StandBy, ReleaseNotHolder, Exit,
                      NoWrite, lease

\* The other replicas' part of LeaderHolds survives whatever ends at r.
LEMMA OthersHold ==
  ASSUME IInv, NEW r \in Replica, NEW s \in Leaders', s # r, blame' = {},
         \/ ReadRefused(r) \/ ReadBreaks(r) \/ StandBy(r) \/ Acquire(r)
         \/ WriteRefused(r) \/ WriteBreaks(r) \/ ReleaseNotHolder(r)
         \/ Release(r) \/ ReleaseRefused(r) \/ ReleaseBreaks(r) \/ Exit(r)
  PROVE  /\ phase'[s] \in Calling \cup {"idle"}
         /\ holder' = s
         /\ age' <= AgeBound(s)'
  <1>1. Ends(r)
    BY EndingActions DEF IInv
  <1>2. /\ s \in Leaders
        /\ wait'[s] = wait[s]
    <2>1. s \in Replica /\ isLeader'[s]
      BY DEF Leaders
    <2>2. isLeader'[s] = isLeader[s] /\ wait'[s] = wait[s]
      BY <2>1 DEF IInv, TypeOK, ReadRefused, ReadBreaks, StandBy, Acquire,
                  WriteRefused, WriteBreaks, ReleaseNotHolder, Release,
                  ReleaseRefused, ReleaseBreaks, Exit, Lead, EndAttempt,
                  BreakAttempt, EndStop
    <2>3. QED
      BY <2>1, <2>2 DEF Leaders
  <1>3. phase'[s] = phase[s] /\ stamp'[s] = stamp[s]
    BY <1>1, <1>2 DEF Ends, Forget, Leaders, IInv, TypeOK
  <1>4. blame = {}
    BY BlameGrows DEF Next, Heartbeat, ApiFault, Shutdown, IInv
  <1>5. holder' = holder /\ age' = age
    BY <1>2, OthersUndisturbed
  <1>6. /\ phase[s] \in Calling \cup {"idle"}
        /\ holder = s
        /\ age <= AgeBound(s)
    BY <1>2, <1>4 DEF IInv, LeaderHolds
  <1>7. AgeBound(s)' = AgeBound(s)
    BY <1>2, <1>3 DEF AgeBound
  <1>8. QED
    BY <1>3, <1>5, <1>6, <1>7

\* LeaderHolds: a leader's Lease is renewed or given up before it gets old.
LEMMA NextLeaderHolds ==
  ASSUME IInv, [Next]_vars
  PROVE  LeaderHolds'
  <1> SUFFICES ASSUME blame' = {}, NEW s \in Leaders'
               PROVE  /\ phase'[s] \in Calling \cup {"idle"}
                      /\ holder' = s
                      /\ age' <= AgeBound(s)'
    BY DEF LeaderHolds
  <1>1. blame = {}
    BY BlameGrows DEF IInv
  <1>2. s \in Replica /\ isLeader'[s]
    BY DEF Leaders
  <1>3. /\ age \in Nat /\ wait[s] \in 0 .. RenewInterval + MaxDelay
        /\ stamp[s] \in Nat
    BY <1>2 DEF IInv, TypeOK, Age, Wait
  <1>4. s \in Leaders => /\ phase[s] \in Calling \cup {"idle"}
                         /\ holder = s
                         /\ age <= AgeBound(s)
    BY <1>1 DEF IInv, LeaderHolds
  <1>5. phase[s] \in Calling => stamp[s] <= MaxCall
    BY <1>1, <1>2 DEF IInv, Punctual
  <1>6. phase[s] \notin Calling => stamp[s] = 0
    BY <1>2 DEF IInv, Punctual
  <1>7. ASSUME NEW r \in Replica,
               \/ ReadRefused(r) \/ ReadBreaks(r) \/ StandBy(r) \/ Acquire(r)
               \/ WriteRefused(r) \/ WriteBreaks(r) \/ ReleaseNotHolder(r)
               \/ Release(r) \/ ReleaseRefused(r) \/ ReleaseBreaks(r) \/ Exit(r)
        PROVE  /\ phase'[s] \in Calling \cup {"idle"}
               /\ holder' = s
               /\ age' <= AgeBound(s)'
    <2>1. CASE s # r
      BY <1>7, <2>1, OthersHold
    <2>2. CASE s = r
      <3>1. Acquire(r)
        <4>1. ~(ReadBreaks(r) \/ WriteBreaks(r) \/ ReleaseBreaks(r))
          <5>1. isLeader[s] => Silent(r) = {"silent"}
            BY <2>2 DEF Silent
          <5>2. QED
            BY <1>2, <2>2, <5>1
               DEF ReadBreaks, WriteBreaks, ReleaseBreaks, BreakAttempt, Land,
                   Write, NoWrite
        <4>2. ~Lead(r, FALSE)
          BY <1>2, <2>2 DEF Lead, IInv, TypeOK
        <4>3. QED
          BY <1>7, <4>1, <4>2
             DEF ReadRefused, StandBy, WriteRefused, ReleaseNotHolder, Release,
                 ReleaseRefused, Exit
      <3>2. ~stale[r]
        BY <3>1 DEF Acquire, Land, Write
      <3>3. seen[r] = holder
        BY <3>1, <3>2 DEF IInv, Snapshot, Acquire
      <3>4. holder' = s /\ age' = stamp[s]
        BY <2>2, <3>1, <3>3 DEF Acquire, Land, Write
      <3>5. phase'[s] = "idle" /\ wait'[s] \in Nat
        BY <1>3, <2>2, <3>1 DEF Acquire, EndAttempt, IInv, TypeOK
      <3>6. stamp[s] <= MaxCall
        BY <1>5, <2>2, <3>1 DEF Acquire, Calling
      <3>7. QED
        BY <1>3, <3>4, <3>5, <3>6 DEF AgeBound
    <2>3. QED
      BY <2>1, <2>2
  <1>8. ASSUME NEW r \in Replica, Start(r)
        PROVE  /\ phase'[s] \in Calling \cup {"idle"}
               /\ holder' = s
               /\ age' <= AgeBound(s)'
    <2>1. s \in Leaders
      BY <1>2, <1>8 DEF Start, Leaders
    <2>2. s # r
      BY <1>4, <1>8, <2>1 DEF Start, Calling
    <2>3. QED
      BY <1>2, <1>4, <1>8, <2>1, <2>2
         DEF Start, lease, attempt, AgeBound, IInv, TypeOK
  <1>9. ASSUME NEW r \in Replica, BeginHeartbeat(r) \/ Stop(r)
        PROVE  /\ phase'[s] \in Calling \cup {"idle"}
               /\ holder' = s
               /\ age' <= AgeBound(s)'
    <2>1. s \in Leaders /\ holder' = holder /\ age' = age /\ stamp'[s] = stamp[s]
      BY <1>2, <1>9 DEF BeginHeartbeat, Stop, Leaders, lease, attempt
    <2>2. CASE s # r
      BY <1>2, <1>4, <1>9, <2>1, <2>2
         DEF BeginHeartbeat, Stop, AgeBound, IInv, TypeOK
    <2>3. CASE s = r
      <3>1. phase[s] = "idle" /\ phase'[s] \in {"reading", "releasing"}
        BY <1>2, <1>9, <2>1, <2>3 DEF BeginHeartbeat, Stop, Leaders, IInv, TypeOK
      <3>2. AgeBound(s) = MaxCall + wait[s]
        BY <3>1 DEF AgeBound
      <3>3. AgeBound(s)' = MaxCall + RenewInterval + MaxDelay + stamp[s]
        BY <2>1, <3>1 DEF AgeBound
      <3>4. QED
        BY <1>3, <1>4, <2>1, <3>1, <3>2, <3>3 DEF Calling
    <2>4. QED
      BY <2>2, <2>3
  <1>10. ASSUME NEW r \in Replica, ReadLease(r) \/ ReleaseRead(r)
         PROVE  /\ phase'[s] \in Calling \cup {"idle"}
                /\ holder' = s
                /\ age' <= AgeBound(s)'
    <2>1. s \in Leaders /\ holder' = holder /\ age' = age /\ wait'[s] = wait[s]
      BY <1>2, <1>10 DEF ReadLease, ReleaseRead, Leaders, lease
    <2>2. CASE s # r
      BY <1>2, <1>4, <1>10, <2>1, <2>2
         DEF ReadLease, ReleaseRead, AgeBound, IInv, TypeOK
    <2>3. CASE s = r /\ ReadLease(r)
      BY <1>2, <1>4, <2>1, <2>3 DEF ReadLease, AgeBound, Calling, IInv, TypeOK
    <2>4. CASE s = r /\ ReleaseRead(r)
      <3>1. phase[s] = "releasing" /\ phase'[s] = "clearing" /\ stamp'[s] = 0
        BY <1>2, <2>4 DEF ReleaseRead, IInv, TypeOK
      <3>2. AgeBound(s) = MaxCall + RenewInterval + MaxDelay + stamp[s]
        BY <3>1 DEF AgeBound
      <3>3. AgeBound(s)' = 2 * MaxCall + RenewInterval + MaxDelay
        BY <3>1 DEF AgeBound
      <3>4. QED
        BY <1>3, <1>4, <1>5, <2>1, <3>1, <3>2, <3>3 DEF Calling
    <2>5. QED
      BY <1>10, <2>2, <2>3, <2>4
  <1>11. CASE Tick
    <2>1. s \in Leaders /\ holder' = holder /\ phase'[s] = phase[s]
      BY <1>2, <1>11 DEF Tick, Leaders
    <2>2. ~Late(s)
      BY <1>2, <1>11 DEF Tick
    <2>3. age' <= age + 1
      BY <1>3, <1>11 DEF Tick, Older
    <2>4. CASE phase[s] = "idle"
      <3>1. wait'[s] = wait[s] + 1
        BY <1>2, <1>3, <1>11, <2>1, <2>2, <2>4 DEF Tick, Late, Leaders
      <3>2. AgeBound(s) = MaxCall + wait[s] /\ AgeBound(s)' = MaxCall + wait'[s]
        BY <2>1, <2>4 DEF AgeBound
      <3>3. age' \in Nat
        BY <1>3, <1>11 DEF Tick, Older
      <3>4. QED
        BY <1>3, <1>4, <2>1, <2>3, <2>4, <3>1, <3>2, <3>3
    <2>5. CASE phase[s] \in Calling
      <3>1. stamp[s] < MaxCall
        BY <1>3, <2>2, <2>5 DEF Late
      <3>2. stamp'[s] = stamp[s] + 1
        BY <1>2, <1>3, <1>11, <2>5, <3>1 DEF Tick, Older
      <3>3. AgeBound(s)' = AgeBound(s) + 1 /\ AgeBound(s) \in Nat
        <4>1. CASE phase[s] = "clearing"
          BY <1>3, <2>1, <3>2, <4>1 DEF AgeBound
        <4>2. CASE phase[s] \notin {"clearing", "idle"}
          BY <1>3, <2>1, <3>2, <4>2 DEF AgeBound
        <4>3. QED
          BY <2>5, <4>1, <4>2 DEF Calling
      <3>4. age' \in Nat
        BY <1>3, <1>11 DEF Tick, Older
      <3>5. QED
        BY <1>3, <1>4, <2>1, <2>3, <2>5, <3>3, <3>4
    <2>6. QED
      BY <1>4, <2>1, <2>4, <2>5
  <1>12. CASE UNCHANGED vars
    BY <1>4, <1>12 DEF vars, Leaders, AgeBound
  <1>13. QED
    BY <1>7, <1>8, <1>9, <1>10, <1>11, <1>12
       DEF Next, Heartbeat, ApiFault, Shutdown


LEMMA InitIInv == Init => IInv
  BY InitTypeOK DEF Init, IInv, Snapshot, Punctual, LeaderHolds, Leaders, Calling

LEMMA NextIInv == IInv /\ [Next]_vars => IInv'
  BY NextTypeOK, NextSnapshot, NextPunctual, NextLeaderHolds DEF IInv

\* The invariant behind the other theorems: what a GET still tells, and how old
\* the Lease of a leader may be, at every step of every replica.
THEOREM Inductive == Spec => []IInv
  BY InitIInv, NextIInv, PTL DEF Spec

-------------------------------------------------------------------------------
(* The properties *)

LEMMA IInvImpliesHolds == IInv => LeaderHoldsLiveLease
  BY LeaderIsHolder DEF LeaderHoldsLiveLease

LEMMA IInvImpliesNoSplitBrain == IInv => NoSplitBrain
  BY LeaderIsHolder DEF NoSplitBrain

\* Without a blamed fault a leader is the holder of a Lease that no standby can
\* find expired: the operator renews it or steps down in time.
THEOREM LeadersHoldLiveLeases == Spec => []LeaderHoldsLiveLease
  BY Inductive, IInvImpliesHolds, PTL

\* Without a blamed fault no two replicas reconcile at once.
THEOREM SplitBrainNeedsBlame == Spec => []NoSplitBrain
  BY Inductive, IInvImpliesNoSplitBrain, PTL

\* What an action can do to the set of leaders.
LEMMA LeadersStep ==
  ASSUME TypeOK, Next
  PROVE  \/ UNCHANGED Leaders
         \/ \E r \in Leaders : Leaders' = Leaders \ {r}
         \/ \E r \in Replica \ Leaders : Leaders' = Leaders \cup {r}
  <1>1. ASSUME NEW r \in Replica, NEW b \in BOOLEAN, Lead(r, b)
        PROVE  \/ UNCHANGED Leaders
               \/ r \in Leaders /\ Leaders' = Leaders \ {r}
               \/ r \in Replica \ Leaders /\ Leaders' = Leaders \cup {r}
    <2>1. \A s \in Replica : isLeader'[s] = IF s = r THEN b ELSE isLeader[s]
      BY <1>1 DEF Lead, TypeOK
    <2>2. Leaders' = IF b THEN Leaders \cup {r} ELSE Leaders \ {r}
      BY <1>1, <2>1 DEF Leaders
    <2>3. QED
      BY <1>1, <2>2 DEF Leaders
  <1>2. (\E r \in Replica, b \in BOOLEAN : Lead(r, b)) \/ UNCHANGED isLeader
    BY DEF Next, Heartbeat, ApiFault, Shutdown, Start, BeginHeartbeat, ReadLease,
           ReadRefused, ReadBreaks, StandBy, Acquire, WriteRefused, WriteBreaks,
           Stop, ReleaseRead, ReleaseNotHolder, Release, ReleaseRefused,
           ReleaseBreaks, Exit, Tick, BreakAttempt
  <1>3. QED
    BY <1>1, <1>2 DEF Leaders

LEMMA NextImplements ==
  ASSUME TypeOK, NoSplitBrain, NoSplitBrain', [Next]_vars
  PROVE  [Promise!Next]_<<Leaders, blame = {}>>
  <1>1. blame' = {} => blame = {}
    BY BlameGrows
  <1>2. Leaders' \subseteq Replica
    BY DEF Leaders
  <1>3. CASE blame' # {}
    BY <1>2, <1>3 DEF Promise!Next, Promise!Fault
  <1>4. CASE blame' = {} /\ Next
    <2>1. CASE UNCHANGED Leaders
      BY <1>1, <1>4, <2>1
    <2>2. ASSUME NEW r \in Leaders, Leaders' = Leaders \ {r}
          PROVE  Promise!Lose(r)
      BY <1>1, <1>4, <2>2 DEF Promise!Lose
    <2>3. ASSUME NEW r \in Replica \ Leaders, Leaders' = Leaders \cup {r}
          PROVE  Promise!Gain(r)
      <3>1. Leaders = {}
        BY <1>4, <2>3 DEF NoSplitBrain
      <3>2. QED
        BY <1>1, <1>4, <2>3, <3>1 DEF Promise!Gain
    <2>4. Leaders \subseteq Replica
      BY DEF Leaders
    <2>5. QED
      BY <1>4, <2>1, <2>2, <2>3, <2>4, LeadersStep DEF Promise!Next
  <1>5. CASE UNCHANGED vars
    BY <1>5 DEF vars, Leaders
  <1>6. QED
    BY <1>3, <1>4, <1>5

\* The Lease protocol implements the lock that the handlers rely on: leadership
\* is gained only when nobody has it, until a fault is blamed.
THEOREM ElectionImplementsLeadership == Spec => ImplementsLeadership
  <1>1. Init => Promise!Init
    BY DEF Init, Promise!Init, Leaders
  <1>2. TypeOK /\ NoSplitBrain /\ NoSplitBrain' /\ [Next]_vars
        => [Promise!Next]_Promise!vars
    BY NextImplements DEF Promise!vars
  <1>3. QED
    BY <1>1, <1>2, TypeCorrect, SplitBrainNeedsBlame, PTL
       DEF Spec, ImplementsLeadership, Promise!Spec

===============================================================================
