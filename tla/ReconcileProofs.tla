---------------------------- MODULE ReconcileProofs ----------------------------
(***************************************************************************)
(* Theorems about Reconcile, for any replicas, pods, answers, steps and    *)
(* limits that satisfy its assumption: its types, the order of isolation   *)
(* and ejection, the cap on replicas, and the refinement of the cooldown   *)
(* gate of RemediationGate.                                                *)
(***************************************************************************)
EXTENDS Reconcile, TLAPS

USE DEF Working

-------------------------------------------------------------------------------
(* The order of the pipeline *)

LEMMA RankRange ==
  /\ \A s \in Step \cup {"scale", "record"} : Rank[s] \in 1 .. 8
  /\ Rank["record"] = 8
  /\ Rank["isolate"] = 1
  /\ \A s \in Step \cup {"scale"} : Rank[s] \in 0 .. 7
  /\ \A s \in Step : Rank[s] = 1 => s = "isolate"
  BY DEF Rank, Step

\* Following is the enabled step of least rank, or "record".
LEMMA FollowingIsNext ==
  ASSUME NEW n \in 0 .. 7
  PROVE  /\ Following(n) \in Steps \cup {"record"}
         /\ Rank[Following(n)] > n
         /\ \A t \in Steps \cup {"record"} : Rank[t] > n => Rank[Following(n)] <= Rank[t]
  <1> DEFINE C == {s \in Steps \cup {"record"} : Rank[s] > n}
  <1> DEFINE Least(k) == \E s \in C : Rank[s] = k /\ \A t \in C : k <= Rank[t]
  <1>1. \A s \in C : Rank[s] \in 1 .. 8
    BY RankRange, ReconcileAssumption
  <1>2. "record" \in C /\ Rank["record"] = 8
    BY RankRange
  <1>3. \E k \in 1 .. 8 : Least(k)
    <2> HIDE DEF C
    <2>1. CASE \E s \in C : Rank[s] = 1 BY <2>1, <1>1
    <2>2. CASE (\A s \in C : Rank[s] >= 2) /\ (\E s \in C : Rank[s] = 2) BY <2>2
    <2>3. CASE (\A s \in C : Rank[s] >= 3) /\ (\E s \in C : Rank[s] = 3) BY <2>3
    <2>4. CASE (\A s \in C : Rank[s] >= 4) /\ (\E s \in C : Rank[s] = 4) BY <2>4
    <2>5. CASE (\A s \in C : Rank[s] >= 5) /\ (\E s \in C : Rank[s] = 5) BY <2>5
    <2>6. CASE (\A s \in C : Rank[s] >= 6) /\ (\E s \in C : Rank[s] = 6) BY <2>6
    <2>7. CASE (\A s \in C : Rank[s] >= 7) /\ (\E s \in C : Rank[s] = 7) BY <2>7
    <2>8. CASE \A s \in C : Rank[s] >= 8 BY <2>8, <1>2
    <2>9. QED BY <1>1, <2>1, <2>2, <2>3, <2>4, <2>5, <2>6, <2>7, <2>8
  <1>4. PICK s \in C : \A t \in C : Rank[s] <= Rank[t]
    BY <1>3
  <1>5. \E r \in Steps \cup {"record"} :
          /\ Rank[r] > n
          /\ \A t \in Steps \cup {"record"} : Rank[t] > n => Rank[r] <= Rank[t]
    BY <1>4
  <1>6. QED BY <1>5 DEF Following

LEMMA FirstIsIsolation == "isolate" \in Steps => Following(0) = "isolate"
  <1> SUFFICES ASSUME "isolate" \in Steps PROVE Following(0) = "isolate"
    OBVIOUS
  <1>1. /\ Following(0) \in Steps \cup {"record"}
        /\ Rank[Following(0)] <= 1
    BY FollowingIsNext, RankRange
  <1>2. QED
    BY <1>1, RankRange, ReconcileAssumption

-------------------------------------------------------------------------------
(* Types *)

LEMMA IdleType == Idle \in Handler
  BY ReconcileAssumption DEF Idle, Handler, Suspended, Age

LEMMA InitTypeOK == Init => TypeOK
  <1> SUFFICES ASSUME Init PROVE TypeOK
    OBVIOUS
  <1>1. h \in [Replica -> Handler]
    BY IdleType DEF Init
  <1>2. status \in Status
    BY ReconcileAssumption DEF Init, Status, Age
  <1>3. replicas \in 0 .. MaxScale
    BY ReconcileAssumption DEF Init
  <1>4. since \in Age
    BY ReconcileAssumption DEF Init, Age
  <1>5. QED
    BY <1>1, <1>2, <1>3, <1>4 DEF Init, TypeOK

LEMMA SmallerType ==
  ASSUME NEW a \in Nat, NEW b \in Nat
  PROVE  Smaller(a, b) \in 0 .. b
  BY DEF Smaller

LEMMA OlderType == ASSUME NEW a \in Age PROVE Older(a) \in Age
  BY ReconcileAssumption DEF Older, Smaller, Age

LEMMA AtType ==
  ASSUME NEW run \in Handler, NEW s \in Steps \cup {"record"}
  PROVE  At(run, s) \in Handler
  <1>1. s \in Working \cup Suspended
    BY ReconcileAssumption DEF Step, Suspended
  <1>2. Smaller(run.incidents + 1, MaxIncidents) \in 0 .. MaxIncidents
    <2>1. run.incidents \in 0 .. MaxIncidents
      BY DEF Handler
    <2>2. run.incidents + 1 \in Nat /\ MaxIncidents \in Nat
      BY <2>1, ReconcileAssumption
    <2>3. QED
      BY <2>2, SmallerType
  <1>3. 0 \in Age
    BY ReconcileAssumption DEF Age
  <1>4. CASE s # "record"
    BY <1>1, <1>4 DEF At, Handler
  <1>5. CASE s = "record"
    BY <1>1, <1>2, <1>3, <1>5 DEF At, Handler
  <1>6. QED BY <1>4, <1>5

LEMMA AtFields ==
  ASSUME NEW run \in Handler, NEW s \in Steps \cup {"record"}
  PROVE  /\ At(run, s).pc = s
         /\ At(run, s).found = run.found
         /\ At(run, s).acted = run.acted
         /\ At(run, s).read = run.read
         /\ At(run, s).touched = run.touched
         /\ At(run, s).last = IF s = "record" /\ run.acted # {} THEN 0 ELSE run.last
  <1>1. CASE s # "record"
    BY <1>1 DEF At, Handler
  <1>2. CASE s = "record"
    BY <1>2 DEF At, Handler
  <1>3. QED BY <1>1, <1>2

\* The last violated evaluation names a pod or none.
LEMMA TargetType ==
  ASSUME NEW found \in Answers \cup {<<>>}, Remediable(found)
  PROVE  Target(found) \in Pod \cup {NoPod}
  <1>1. found \in Seq(Evaluation)
    BY ReconcileAssumption DEF Remediable, Critical
  <1>2. Len(found) \in Nat /\ 1 <= Len(found)
    BY <1>1 DEF Remediable, Critical
  <1>3. found[Len(found)] \in Evaluation
    BY <1>1, <1>2
  <1>4. QED
    BY <1>3 DEF Target, Evaluation

-------------------------------------------------------------------------------
(* What a step of one handler may do.  Such a step replaces the run of its
   replica by some x. *)

\* The step keeps the types of everything else ...
Typed(r, x) ==
  /\ x \in Handler
  /\ h' = [h EXCEPT ![r] = x]
  /\ leaders' \subseteq Replica
  /\ status' \in Status
  /\ isolated' \subseteq Pod
  /\ ejected' \subseteq Pod
  /\ rule' \in BOOLEAN
  /\ replicas' \in 0 .. MaxScale
  /\ dryRun' = dryRun
  /\ since' \in Age
  /\ lapses' \subseteq Lapse
  /\ lapses \subseteq lapses'

\* ... leaves a run that knows its pod, its cap and its isolation ...
Fits(x) ==
  /\ x.pc = "idle" => x = Idle
  /\ x.pc \in Working => Target(x.found) \in Pod
  /\ x.pc = "scale" => x.read + ScaleUp <= MaxReplicas
  /\ "isolate" \in Steps /\ ~dryRun /\ x.pc \in {"eject", "label"} =>
       Target(x.found) \in isolated'
  /\ isolated \subseteq isolated'
  /\ "isolate" \in Steps => ejected' \subseteq isolated'
  /\ replicas' = replicas \/ replicas' <= MaxReplicas

\* ... and accounts for what it changed, unless there is a lapse.
Tells(r, x) ==
  lapses' = {} =>
    /\ x.pc # "idle" /\ ~x.touched => x.last <= since'
    /\ x.pc = "checking" => ~x.touched
    /\ x.touched => x.acted # {}
    /\ x.pc = "record" /\ x.acted # {} => x.last <= since'
    /\ since' = since \/ (since' = 0 /\ h[r].pc \in Working /\ x.touched)
    /\ ~x.touched /\ (\A q \in Replica \ {r} : ~h[q].touched) =>
         status'.last <= since'
    /\ h[r].pc = "idle" /\ x.pc # "idle" =>
         \A q \in Replica \ {r} : h[q].pc = "idle"
    /\ x.pc \in Working /\ h[r].pc \notin Working => since = Cooldown

Move(r, x) == Typed(r, x) /\ Fits(x) /\ Tells(r, x)

\* A step with these bounds keeps the invariant.
LEMMA MoveKeepsIInv ==
  ASSUME IInv, NEW r \in Replica, NEW x, Move(r, x)
  PROVE  IInv'
  <1>1. /\ h' = [h EXCEPT ![r] = x]
        /\ h'[r] = x
        /\ \A q \in Replica \ {r} : h'[q] = h[q]
    BY DEF Move, Typed, IInv, TypeOK
  <1>2. TypeOK'
    BY DEF Move, Typed, IInv, TypeOK
  <1>3. IdleRuns'
    BY <1>1 DEF Move, Fits, IInv, IdleRuns
  <1>4. HasPod'
    BY <1>1 DEF Move, Fits, IInv, HasPod
  <1>5. ScaleRead'
    BY <1>1 DEF Move, Fits, IInv, ScaleRead
  <1>6. PastIsolation'
    BY <1>1 DEF Move, Fits, Typed, IInv, PastIsolation
  <1>7. IsolatedFirst'
    BY DEF Move, Fits, IsolatedFirst
  <1>8. lapses' = {} => lapses = {}
    BY DEF Move, Typed
  <1>9. OneHandler'
    <2> SUFFICES ASSUME lapses' = {}, NEW p \in Replica, NEW q \in Replica,
                        h'[p].pc # "idle", h'[q].pc # "idle"
                 PROVE  p = q
      BY DEF OneHandler
    <2>1. OneHandler /\ lapses = {}
      BY <1>8 DEF IInv
    <2>2. CASE h[r].pc = "idle" /\ x.pc # "idle"
      BY <1>1, <2>2 DEF Move, Tells
    <2>3. CASE h[r].pc # "idle" \/ x.pc = "idle"
      BY <1>1, <2>1, <2>3 DEF OneHandler
    <2>4. QED BY <2>2, <2>3
  <1>10. Accounted'
    <2> SUFFICES ASSUME lapses' = {}
                 PROVE  /\ (\A q \in Replica : ~h'[q].touched) => status'.last <= since'
                        /\ \A q \in Replica :
                             /\ h'[q].pc # "idle" /\ ~h'[q].touched => h'[q].last <= since'
                             /\ h'[q].pc = "checking" => ~h'[q].touched
                             /\ h'[q].touched => h'[q].acted # {}
                             /\ h'[q].pc = "record" /\ h'[q].acted # {} => h'[q].last <= since'
      BY DEF Accounted
    <2>1. OneHandler /\ Accounted /\ IdleRuns /\ lapses = {}
      BY <1>8 DEF IInv
    <2>2. (\A q \in Replica : ~h'[q].touched) => status'.last <= since'
      BY <1>1 DEF Move, Tells
    <2>3. ASSUME NEW q \in Replica, q # r
          PROVE  /\ h[q].pc # "idle" => since' = since
                 /\ h[q].pc = "idle" => h[q] = Idle
      BY <2>1, <2>3 DEF Move, Tells, OneHandler, IdleRuns
    <2>4. ASSUME NEW q \in Replica
          PROVE  /\ h'[q].pc # "idle" /\ ~h'[q].touched => h'[q].last <= since'
                 /\ h'[q].pc = "checking" => ~h'[q].touched
                 /\ h'[q].touched => h'[q].acted # {}
                 /\ h'[q].pc = "record" /\ h'[q].acted # {} => h'[q].last <= since'
      <3>1. CASE q = r
        BY <1>1, <3>1 DEF Move, Tells
      <3>2. CASE q # r /\ h[q].pc # "idle"
        BY <1>1, <2>1, <2>3, <3>2 DEF Accounted
      <3>3. CASE q # r /\ h[q].pc = "idle"
        BY <1>1, <2>3, <3>3 DEF Idle
      <3>4. QED BY <3>1, <3>2, <3>3
    <2>5. QED BY <2>2, <2>4
  <1>11. QED
    BY <1>2, <1>3, <1>4, <1>5, <1>6, <1>7, <1>9, <1>10 DEF IInv

-------------------------------------------------------------------------------
(* Calls, and the ways a run ends *)

\* A call has its effect on the cluster, or none.
Touches(r, touching) ==
  \/ touching = TRUE /\ Effect(r)
  \/ touching = FALSE /\ NoEffect

LEMMA TouchesCluster ==
  ASSUME IInv, NEW r \in Replica, NEW touching, Touches(r, touching)
  PROVE  /\ touching \in BOOLEAN
         /\ isolated' \subseteq Pod
         /\ ejected' \subseteq Pod
         /\ rule' \in BOOLEAN
         /\ replicas' \in 0 .. MaxScale
         /\ since' \in Age
         /\ isolated \subseteq isolated'
         /\ "isolate" \in Steps => ejected' \subseteq isolated'
         /\ touching = FALSE => since' = since
         /\ replicas' = replicas \/ replicas' <= MaxReplicas
         /\ touching = TRUE => since' = 0 /\ h[r].pc \in Working /\ ~dryRun
         /\ touching = TRUE /\ h[r].pc = "isolate" => Target(h[r].found) \in isolated'
  <1>1. CASE touching = FALSE /\ NoEffect
    BY <1>1 DEF NoEffect, cluster, IInv, TypeOK, IsolatedFirst
  <1>2. CASE touching = TRUE /\ Effect(r)
    <2> USE DEF Effect, IsolatePod, EjectByRule, EjectByLabel, ScaleDeployment
    <2>1. Target(h[r].found) \in Pod
      BY <1>2 DEF HasPod, IInv
    <2>2. /\ isolated' \subseteq Pod
          /\ ejected' \subseteq Pod
          /\ rule' \in BOOLEAN
      BY <1>2, <2>1 DEF IInv, TypeOK
    <2>3. /\ replicas' \in 0 .. MaxScale
          /\ replicas' = replicas \/ replicas' <= MaxReplicas
      <3>1. h[r].read \in 0 .. MaxScale
        BY DEF IInv, TypeOK, Handler
      <3>2. CASE h[r].pc = "scale"
        BY <1>2, <3>1, <3>2, ReconcileAssumption DEF IInv, ScaleRead
      <3>3. CASE h[r].pc # "scale"
        BY <1>2, <3>3 DEF IInv, TypeOK
      <3>4. QED BY <3>2, <3>3
    <2>4. since' \in Age /\ since' = 0
      BY <1>2, ReconcileAssumption DEF Age
    <2>5. isolated \subseteq isolated'
      BY <1>2
    <2>6. "isolate" \in Steps => ejected' \subseteq isolated'
      BY <1>2, <2>5 DEF IInv, IsolatedFirst, PastIsolation
    <2>7. h[r].pc \in Working /\ ~dryRun
      BY <1>2
    <2>8. h[r].pc = "isolate" => Target(h[r].found) \in isolated'
      BY <1>2
    <2>9. QED
      BY <1>2, <2>2, <2>3, <2>4, <2>5, <2>6, <2>7, <2>8
  <1>3. QED
    BY <1>1, <1>2 DEF Touches

\* A status that is not patched still accounts for what was done before.
LEMMA StatusAccounts ==
  ASSUME IInv, NEW r \in Replica, lapses = {}, ~h[r].touched,
         \A q \in Replica \ {r} : ~h[q].touched
  PROVE  status.last <= since
  BY DEF IInv, Accounted

LEMMA AdvanceMoves ==
  ASSUME IInv, NEW r \in Replica, NEW touching, Touches(r, touching),
         Advance(r, touching),
         h[r].pc \in Working \cup {"ticket"},
         h[r].pc = "isolate" => dryRun \/ touching = TRUE,
         UNCHANGED <<leaders, status, dryRun, lapses>>
  PROVE  \E x : Move(r, x)
  <1> DEFINE s == h[r].pc
             did == IF s = "scale" THEN "readScale" ELSE s
             run == [h[r] EXCEPT !.acted = @ \cup {did}, !.touched = @ \/ touching]
             x == At(run, Following(Rank[s]))
  <1>1. h[r] \in Handler /\ touching \in BOOLEAN
    BY TouchesCluster DEF IInv, TypeOK
  <1>2. s \in Step \cup {"scale"} /\ did \in Step
    BY DEF Step
  <1>3. /\ run \in Handler
        /\ run.found = h[r].found
        /\ run.last = h[r].last
        /\ run.touched = (h[r].touched \/ touching)
        /\ run.acted # {}
    BY <1>1, <1>2 DEF Handler
  <1>4. /\ Following(Rank[s]) \in Steps \cup {"record"}
        /\ Rank[Following(Rank[s])] > Rank[s]
    BY <1>2, RankRange, FollowingIsNext
  <1>5. h' = [h EXCEPT ![r] = x]
    BY DEF Advance
  <1> HIDE DEF run
  <1>6. /\ x \in Handler
        /\ x.pc \in Steps \cup {"record"}
        /\ Rank[x.pc] > Rank[s]
        /\ x.found = h[r].found
        /\ x.touched = (h[r].touched \/ touching)
        /\ x.acted # {}
        /\ x.last = IF x.pc = "record" THEN 0 ELSE h[r].last
    BY <1>3, <1>4, AtType, AtFields
  <1> HIDE DEF x
  <1>7. Typed(r, x)
    BY <1>5, <1>6, TouchesCluster DEF Typed, IInv, TypeOK
  <1>8. x.pc \in {"eject", "label"} => s \in {"isolate", "eject"}
    BY <1>2, <1>6 DEF Rank, Step
  <1>9. x.pc \in Step \cup {"record"}
    BY <1>6, ReconcileAssumption
  <1>10. x.pc \in Working => s \in Working
    BY <1>2, <1>6 DEF Rank, Step
  <1>11. x.pc \in Working => Target(x.found) \in Pod
    BY <1>6, <1>10 DEF IInv, HasPod
  <1>12. Fits(x)
    <2>1. "isolate" \in Steps /\ ~dryRun /\ x.pc \in {"eject", "label"} =>
            Target(x.found) \in isolated'
      BY <1>1, <1>6, <1>8, TouchesCluster DEF IInv, PastIsolation
    <2>2. x.pc # "idle" /\ x.pc # "scale"
      BY <1>9 DEF Step
    <2>3. QED
      BY <1>11, <2>1, <2>2, TouchesCluster DEF Fits
  <1>13. Tells(r, x)
    <2> SUFFICES ASSUME lapses' = {}
                 PROVE  Tells(r, x)
      BY DEF Tells
    <2>1. since' \in Nat /\ 0 <= since'
      <3>1. since' \in Age
        BY TouchesCluster
      <3>2. QED BY <3>1, ReconcileAssumption DEF Age
    <2>2. h[r].pc # "idle" /\ x.pc # "checking"
      BY <1>2, <1>9 DEF Step
    <2>3. lapses = {}
      OBVIOUS
    <2>4. ~x.touched => ~h[r].touched /\ since' = since
      BY <1>1, <1>6, TouchesCluster
    <2>5. x.pc # "idle" /\ ~x.touched => x.last <= since'
      BY <1>6, <2>1, <2>2, <2>3, <2>4 DEF IInv, Accounted
    <2>6. ~x.touched /\ (\A q \in Replica \ {r} : ~h[q].touched) =>
            status'.last <= since'
      BY <2>3, <2>4, StatusAccounts
    <2>7. x.pc = "record" => x.last <= since'
      BY <1>6, <2>1
    <2>8. since' = since \/ (since' = 0 /\ h[r].pc \in Working /\ x.touched)
      BY <1>1, <1>6, TouchesCluster
    <2>9. QED
      BY <1>6, <1>10, <2>2, <2>5, <2>6, <2>7, <2>8 DEF Tells
  <1>14. QED
    BY <1>7, <1>12, <1>13 DEF Move

LEMMA AbandonMoves ==
  ASSUME IInv, NEW r \in Replica, NEW touching, Touches(r, touching),
         Abandon(r, touching), h[r].pc # "idle",
         UNCHANGED <<leaders, status, dryRun>>
  PROVE  \E x : Move(r, x)
  <1> DEFINE x == [h[r] EXCEPT !.pc = "record", !.acted = {}, !.touched = @ \/ touching]
  <1>1. h[r] \in Handler /\ touching \in BOOLEAN
    BY TouchesCluster DEF IInv, TypeOK
  <1>2. /\ x \in Handler
        /\ x.pc = "record"
        /\ x.acted = {}
        /\ x.last = h[r].last
        /\ x.touched = (h[r].touched \/ touching)
    BY <1>1 DEF Handler, Suspended
  <1>3. h' = [h EXCEPT ![r] = x]
    BY DEF Abandon
  <1> HIDE DEF x
  <1>4. /\ lapses' \subseteq Lapse
        /\ lapses \subseteq lapses'
        /\ lapses' = {} => ~h[r].touched /\ touching = FALSE
    BY <1>1 DEF Abandon, Lapse, IInv, TypeOK
  <1>5. Typed(r, x)
    BY <1>2, <1>3, <1>4, TouchesCluster DEF Typed, IInv, TypeOK
  <1>6. Fits(x)
    BY <1>2, TouchesCluster DEF Fits
  <1>7. Tells(r, x)
    <2> SUFFICES ASSUME lapses' = {}
                 PROVE  Tells(r, x)
      BY DEF Tells
    <2>1. lapses = {} /\ ~h[r].touched /\ ~x.touched /\ since' = since
      BY <1>1, <1>2, <1>4, TouchesCluster
    <2>2. x.last <= since'
      BY <1>2, <2>1 DEF IInv, Accounted
    <2>3. (\A q \in Replica \ {r} : ~h[q].touched) => status'.last <= since'
      BY <2>1, StatusAccounts
    <2>4. QED
      BY <1>2, <2>1, <2>2, <2>3 DEF Tells
  <1>8. QED
    BY <1>5, <1>6, <1>7 DEF Move

LEMMA VanishMoves ==
  ASSUME IInv, NEW r \in Replica, NEW touching, Touches(r, touching),
         NEW lapse \in Lapse, Vanish(r, touching, lapse),
         leaders' \subseteq Replica,
         UNCHANGED <<status, dryRun>>
  PROVE  \E x : Move(r, x)
  <1>1. h[r] \in Handler /\ touching \in BOOLEAN
    BY TouchesCluster DEF IInv, TypeOK
  <1>2. Idle \in Handler /\ Idle.pc = "idle" /\ ~Idle.touched
    BY IdleType DEF Idle
  <1>3. /\ lapses' \subseteq Lapse
        /\ lapses \subseteq lapses'
        /\ lapses' = {} => ~h[r].touched /\ touching = FALSE
    BY <1>1 DEF Vanish, IInv, TypeOK
  <1>4. Typed(r, Idle)
    BY <1>2, <1>3, TouchesCluster DEF Typed, Vanish, IInv, TypeOK
  <1>5. Fits(Idle)
    BY <1>2, TouchesCluster DEF Fits
  <1>6. Tells(r, Idle)
    <2> SUFFICES ASSUME lapses' = {}
                 PROVE  Tells(r, Idle)
      BY DEF Tells
    <2>1. lapses = {} /\ ~h[r].touched /\ since' = since
      BY <1>1, <1>3, TouchesCluster
    <2>2. (\A q \in Replica \ {r} : ~h[q].touched) => status'.last <= since'
      BY <2>1, StatusAccounts
    <2>3. QED
      BY <1>2, <2>1, <2>2 DEF Tells
  <1>7. QED
    BY <1>4, <1>5, <1>6 DEF Move

-------------------------------------------------------------------------------
(* The actions *)

LEMMA CheckMoves ==
  ASSUME IInv, NEW r \in Replica, Check(r)
  PROVE  \E x : Move(r, x)
  <1> DEFINE x == [Idle EXCEPT !.pc = "checking", !.last = status.last,
                               !.incidents = status.incidents, !.history = status.history]
  <1>1. /\ x \in Handler
        /\ x.pc = "checking"
        /\ x.last = status.last
        /\ x.touched = FALSE
    BY IdleType DEF Idle, Handler, Suspended, IInv, TypeOK, Status
  <1>2. h' = [h EXCEPT ![r] = x]
    BY DEF Check
  <1> HIDE DEF x
  <1>3. lapses' \subseteq Lapse /\ lapses \subseteq lapses'
    BY DEF Check, Lapse, IInv, TypeOK
  <1>4. Typed(r, x)
    BY <1>1, <1>2, <1>3 DEF Check, cluster, Typed, IInv, TypeOK
  <1>5. Fits(x)
    BY <1>1 DEF Check, cluster, Fits, IInv, IsolatedFirst
  <1>6. Tells(r, x)
    <2> SUFFICES ASSUME lapses' = {}
                 PROVE  Tells(r, x)
      BY DEF Tells
    <2>1. lapses = {} /\ h[r].pc = "idle" /\ \A q \in Replica \ {r} : h[q].pc = "idle"
      BY DEF Check
    <2>2. \A q \in Replica : ~h[q].touched
      BY <2>1 DEF IInv, IdleRuns, Idle
    <2>3. status.last <= since /\ UNCHANGED <<status, since>>
      BY <2>1, <2>2, StatusAccounts DEF Check
    <2>4. QED
      BY <1>1, <2>1, <2>3 DEF Tells
  <1>7. QED
    BY <1>4, <1>5, <1>6 DEF Move

\* The answer of a check leaves an untouched run.
LEMMA FoundMoves ==
  ASSUME IInv, NEW r \in Replica, NEW found, NEW x \in Handler, Found(r, found, x),
         x.pc \in Steps \cup {"record"},
         x.pc \in Working => Target(x.found) \in Pod,
         "isolate" \in Steps => x.pc \notin {"eject", "label"},
         x.pc \in Working => h[r].last >= Cooldown,
         x.touched = h[r].touched,
         x.acted = h[r].acted,
         x.last = h[r].last \/ x.last = 0
  PROVE  Move(r, x)
  <1>1. Typed(r, x)
    BY DEF Found, cluster, Typed, IInv, TypeOK
  <1>2. x.pc \in Step \cup {"record"}
    BY ReconcileAssumption
  <1>3. Fits(x)
    BY <1>2 DEF Found, cluster, Fits, Step, IInv, IsolatedFirst
  <1>4. Tells(r, x)
    <2> SUFFICES ASSUME lapses' = {}
                 PROVE  Tells(r, x)
      BY DEF Tells
    <2>1. /\ lapses = {}
          /\ h[r].pc = "checking"
          /\ UNCHANGED <<status, since>>
      BY DEF Found
    <2>2. ~h[r].touched /\ h[r].last <= since
      BY <2>1 DEF IInv, Accounted
    <2>3. since \in Age /\ h[r].last \in Age
      BY DEF IInv, TypeOK, Handler
    <2>4. x.pc \in Working => since = Cooldown
      BY <2>2, <2>3, ReconcileAssumption DEF Age
    <2>5. x.last <= since'
      BY <2>1, <2>2, <2>3, ReconcileAssumption DEF Age
    <2>6. (\A q \in Replica \ {r} : ~h[q].touched) => status'.last <= since'
      BY <2>1, <2>2, StatusAccounts
    <2>7. QED
      BY <1>2, <2>1, <2>2, <2>4, <2>5, <2>6 DEF Tells, Step
  <1>5. QED
    BY <1>1, <1>3, <1>4 DEF Move

LEMMA AnswerMoves ==
  ASSUME IInv, NEW r \in Replica, NEW found \in Answers \cup {<<>>},
         \/ NothingToDo(r, found) \/ CooldownActive(r, found)
         \/ NoPodToRemediate(r, found) \/ BeginPipeline(r, found)
  PROVE  \E x : Move(r, x)
  <1>1. h[r] \in Handler
    BY DEF IInv, TypeOK
  <1>2. CASE NothingToDo(r, found) \/ CooldownActive(r, found)
    <2> DEFINE x == [h[r] EXCEPT !.found = found, !.pc = "record"]
    <2>1. /\ x \in Handler
          /\ x.pc = "record"
          /\ x.touched = h[r].touched
          /\ x.acted = h[r].acted
          /\ x.last = h[r].last
      BY <1>1 DEF Handler, Suspended
    <2>2. Found(r, found, x)
      BY <1>2 DEF NothingToDo, CooldownActive
    <2> HIDE DEF x
    <2>3. Move(r, x)
      BY <2>1, <2>2, FoundMoves
    <2>4. QED BY <2>3
  <1> DEFINE run == [h[r] EXCEPT !.found = found]
  <1>3. /\ run \in Handler
        /\ run.found = found
        /\ run.touched = h[r].touched
        /\ run.acted = h[r].acted
        /\ run.last = h[r].last
    BY <1>1 DEF Handler
  <1>4. CASE NoPodToRemediate(r, found)
    <2> DEFINE x == At(run, Following(Rank["scale"]))
    <2>1. /\ Following(Rank["scale"]) \in Steps \cup {"record"}
          /\ Rank[Following(Rank["scale"])] > 6
      BY FollowingIsNext, RankRange DEF Rank
    <2>2. Found(r, found, x)
      BY <1>4 DEF NoPodToRemediate
    <2> HIDE DEF run
    <2>3. /\ x \in Handler
          /\ x.pc \in Steps \cup {"record"}
          /\ Rank[x.pc] > 6
          /\ x.touched = h[r].touched
          /\ x.acted = h[r].acted
          /\ x.last = h[r].last \/ x.last = 0
      BY <1>3, <2>1, AtType, AtFields
    <2> HIDE DEF x
    <2>4. x.pc \notin Working
      BY <2>3 DEF Rank
    <2>5. Move(r, x)
      BY <2>2, <2>3, <2>4, FoundMoves
    <2>6. QED BY <2>5
  <1>5. CASE BeginPipeline(r, found)
    <2> DEFINE x == At(run, Following(0))
    <2>1. Following(0) \in Steps \cup {"record"}
      BY FollowingIsNext
    <2>2. Found(r, found, x)
      BY <1>5 DEF BeginPipeline
    <2>3. Target(found) \in Pod /\ h[r].last >= Cooldown
      BY <1>5, TargetType DEF BeginPipeline
    <2> HIDE DEF run
    <2>4. /\ x \in Handler
          /\ x.pc \in Steps \cup {"record"}
          /\ x.pc = Following(0)
          /\ x.found = found
          /\ x.touched = h[r].touched
          /\ x.acted = h[r].acted
          /\ x.last = h[r].last \/ x.last = 0
      BY <1>3, <2>1, AtType, AtFields
    <2> HIDE DEF x
    <2>5. Move(r, x)
      BY <2>2, <2>3, <2>4, FirstIsIsolation, FoundMoves
    <2>6. QED BY <2>5
  <1>6. QED
    BY <1>2, <1>4, <1>5

LEMMA PerformMoves ==
  ASSUME IInv, NEW r \in Replica, Perform(r)
  PROVE  \E x : Move(r, x)
  <1>1. CASE Effect(r) /\ Advance(r, TRUE)
    BY <1>1, AdvanceMoves DEF Touches, Perform
  <1>2. CASE (dryRun \/ h[r].pc = "dump") /\ NoEffect /\ Advance(r, FALSE)
    BY <1>2, AdvanceMoves DEF Touches, Perform
  <1>3. QED
    BY <1>1, <1>2 DEF Perform

LEMMA TicketMoves ==
  ASSUME IInv, NEW r \in Replica, Ticket(r)
  PROVE  \E x : Move(r, x)
  <1>1. Touches(r, FALSE)
    BY DEF Ticket, Touches, NoEffect
  <1>2. QED
    BY <1>1, AdvanceMoves DEF Ticket

LEMMA ReadScaleMoves ==
  ASSUME IInv, NEW r \in Replica, ReadScale(r)
  PROVE  \E x : Move(r, x)
  <1> DEFINE x == [h[r] EXCEPT !.pc = "scale", !.read = replicas]
  <1>1. h[r] \in Handler /\ replicas \in 0 .. MaxScale
    BY DEF IInv, TypeOK
  <1>2. /\ x \in Handler
        /\ x.pc = "scale"
        /\ x.read = replicas
        /\ x.found = h[r].found
        /\ x.acted = h[r].acted
        /\ x.last = h[r].last
        /\ x.touched = h[r].touched
    BY <1>1 DEF Handler
  <1>3. h' = [h EXCEPT ![r] = x]
    BY DEF ReadScale
  <1> HIDE DEF x
  <1>4. Typed(r, x)
    BY <1>2, <1>3 DEF ReadScale, cluster, Typed, IInv, TypeOK
  <1>5. Fits(x)
    BY <1>2 DEF ReadScale, cluster, Fits, IInv, HasPod, IsolatedFirst
  <1>6. Tells(r, x)
    <2> SUFFICES ASSUME lapses' = {}
                 PROVE  Tells(r, x)
      BY DEF Tells
    <2>1. lapses = {} /\ h[r].pc = "readScale" /\ UNCHANGED <<status, since>>
      BY DEF ReadScale
    <2>2. /\ ~x.touched => x.last <= since'
          /\ x.touched => x.acted # {}
      BY <1>2, <2>1 DEF IInv, Accounted
    <2>3. ~x.touched /\ (\A q \in Replica \ {r} : ~h[q].touched) =>
            status'.last <= since'
      BY <1>2, <2>1, StatusAccounts
    <2>4. QED
      BY <1>2, <2>1, <2>2, <2>3 DEF Tells
  <1>7. QED
    BY <1>4, <1>5, <1>6 DEF Move

LEMMA RecordMoves ==
  ASSUME IInv, NEW r \in Replica, Record(r)
  PROVE  \E x : Move(r, x)
  <1> DEFINE run == h[r]
  <1>1. run \in Handler /\ status \in Status
    BY DEF IInv, TypeOK
  <1>2. Idle \in Handler /\ Idle.pc = "idle" /\ ~Idle.touched
    BY IdleType DEF Idle
  <1>3. status' \in Status
    <2>1. PhaseOf(run.found) \in {"healthy", "degrading", "remediating"}
      BY DEF PhaseOf
    <2>2. PodsOf(run.found) \subseteq Pod
      <3>1. run.found \in Answers \cup {<<>>}
        BY <1>1 DEF Handler
      <3>2. run.found \in Answers => run.found \in Seq(Evaluation)
        BY ReconcileAssumption
      <3>3. \A i \in 1 .. Len(run.found) : run.found[i] \in Evaluation
        BY <3>1, <3>2
      <3>4. \A i \in 1 .. Len(run.found) : run.found[i].pod \in Pod \cup {NoPod}
        BY <3>3 DEF Evaluation
      <3>5. QED BY <3>4 DEF PodsOf
    <2>3. (IF run.acted = {} THEN status.last ELSE run.last) \in Age
      BY <1>1 DEF Handler, Status
    <2>4. run.incidents \in 0 .. MaxIncidents
      BY <1>1 DEF Handler
    <2>5. (IF run.acted = {} THEN run.history
           ELSE Smaller(run.history + 1, HistoryLimit)) \in 0 .. HistoryLimit
      <3>1. run.history \in 0 .. HistoryLimit
        BY <1>1 DEF Handler
      <3>2. run.history + 1 \in Nat /\ HistoryLimit \in Nat
        BY <3>1, ReconcileAssumption
      <3>3. QED BY <3>1, <3>2, SmallerType
    <2>6. QED
      BY <2>1, <2>2, <2>3, <2>4, <2>5 DEF Record, Status
  <1>4. Typed(r, Idle)
    BY <1>2, <1>3 DEF Record, cluster, Typed, IInv, TypeOK
  <1>5. Fits(Idle)
    BY <1>2 DEF Record, cluster, Fits, IInv, IsolatedFirst
  <1>6. Tells(r, Idle)
    <2> SUFFICES ASSUME lapses' = {}
                 PROVE  Tells(r, Idle)
      BY DEF Tells
    <2>1. lapses = {} /\ run.pc = "record" /\ UNCHANGED since
      BY DEF Record
    <2>2. status'.last = IF run.acted = {} THEN status.last ELSE run.last
      BY DEF Record
    <2>3. CASE run.acted # {}
      BY <1>2, <2>1, <2>2, <2>3 DEF Tells, IInv, Accounted
    <2>4. CASE run.acted = {}
      <3>1. ~h[r].touched
        BY <2>1, <2>4 DEF IInv, Accounted
      <3>2. QED
        BY <1>2, <2>1, <2>2, <2>4, <3>1, StatusAccounts DEF Tells
    <2>5. QED BY <2>3, <2>4
  <1>7. QED
    BY <1>4, <1>5, <1>6 DEF Move

LEMMA FailureMoves ==
  ASSUME IInv, NEW r \in Replica, Failure(r) \/ AtCap(r)
  PROVE  \E x : Move(r, x)
  <1>1. {"lost", "unlogged", "refused"} \subseteq Lapse
    BY DEF Lapse
  <1>2. leaders \subseteq Replica
    BY DEF IInv, TypeOK
  <1>3. CASE CheckBreaks(r) \/ TicketRefused(r) \/ RecordFails(r)
    <2>1. Touches(r, FALSE)
      BY <1>3 DEF CheckBreaks, TicketRefused, RecordFails, Touches, NoEffect
    <2>2. QED
      BY <1>1, <1>2, <1>3, <2>1, VanishMoves DEF CheckBreaks, TicketRefused, RecordFails
  <1>4. CASE Crash(r)
    <2>1. Touches(r, FALSE)
      BY <1>4 DEF Crash, Touches, NoEffect
    <2>2. QED
      BY <1>1, <1>2, <1>4, <2>1, VanishMoves DEF Crash
  <1>5. CASE StepFails(r)
    BY <1>1, <1>2, <1>5, VanishMoves DEF StepFails, Touches
  <1>6. CASE Raise(r)
    BY <1>1, <1>2, <1>6, VanishMoves DEF Raise, Touches
  <1>7. CASE ScaleFails(r)
    BY <1>7, AbandonMoves DEF ScaleFails, Touches
  <1>8. CASE AtCap(r)
    <2>1. Touches(r, FALSE)
      BY <1>8 DEF AtCap, Touches, NoEffect
    <2>2. QED
      BY <1>8, <2>1, AbandonMoves DEF AtCap
  <1>9. QED
    BY <1>3, <1>4, <1>5, <1>6, <1>7, <1>8 DEF Failure

LEMMA HandlerMoves ==
  ASSUME IInv, NEW r \in Replica, OnTimer(r) \/ Failure(r)
  PROVE  \E x : Move(r, x)
  BY CheckMoves, AnswerMoves, PerformMoves, ReadScaleMoves, TicketMoves, RecordMoves,
     FailureMoves DEF OnTimer

LEMMA AroundKeepsIInv ==
  ASSUME IInv, (\E r \in Replica : Elect(r)) \/ Autoscale
  PROVE  /\ IInv'
         /\ UNCHANGED <<h, since, lapses>>
  <1>1. /\ leaders' \subseteq Replica
        /\ replicas' \in 0 .. MaxScale
        /\ UNCHANGED <<h, status, isolated, ejected, rule, dryRun, since, lapses>>
    BY DEF Elect, Autoscale, cluster, IInv, TypeOK
  <1>2. QED
    BY <1>1 DEF IInv, TypeOK, IdleRuns, HasPod, ScaleRead, PastIsolation, IsolatedFirst,
                OneHandler, Accounted

\* Everything ages alike.
LEMMA OlderOrder ==
  ASSUME NEW a \in Age, NEW b \in Age, a <= b
  PROVE  Older(a) <= Older(b)
  BY ReconcileAssumption DEF Older, Smaller, Age

LEMMA TickKeepsIInv ==
  ASSUME IInv, Tick
  PROVE  IInv'
  <1>1. ASSUME NEW q \in Replica
        PROVE  /\ h'[q] \in Handler
               /\ h[q].pc = "idle" => h'[q] = h[q]
               /\ h'[q].pc = h[q].pc
               /\ h'[q].found = h[q].found
               /\ h'[q].read = h[q].read
               /\ h'[q].acted = h[q].acted
               /\ h'[q].touched = h[q].touched
               /\ h[q].pc # "idle" => h'[q].last = Older(h[q].last)
    <2>1. h[q] \in Handler
      BY DEF IInv, TypeOK
    <2>2. Older(h[q].last) \in Age
      BY <2>1, OlderType DEF Handler
    <2>3. h'[q] = IF h[q].pc = "idle" THEN h[q] ELSE [h[q] EXCEPT !.last = Older(@)]
      BY DEF Tick
    <2>4. QED
      BY <2>1, <2>2, <2>3 DEF Handler
  <1>2. /\ status' \in Status
        /\ status'.last = Older(status.last)
        /\ since' = Older(since)
        /\ UNCHANGED <<leaders, isolated, ejected, rule, replicas, dryRun, lapses>>
    <2>1. status \in Status /\ Older(status.last) \in Age
      BY OlderType DEF IInv, TypeOK, Status
    <2>2. QED
      BY <2>1 DEF Tick, cluster, Status
  <1>3. TypeOK'
    <2>1. h' \in [Replica -> Handler]
      BY <1>1 DEF Tick
    <2>2. since' \in Age
      BY <1>2, OlderType DEF IInv, TypeOK
    <2>3. QED
      BY <1>2, <2>1, <2>2 DEF IInv, TypeOK
  <1>4. /\ IdleRuns' /\ HasPod' /\ ScaleRead' /\ PastIsolation' /\ IsolatedFirst'
        /\ OneHandler'
    BY <1>1, <1>2 DEF IInv, IdleRuns, HasPod, ScaleRead, PastIsolation, IsolatedFirst,
                      OneHandler
  <1>5. Accounted'
    <2> SUFFICES ASSUME lapses' = {}
                 PROVE  /\ (\A q \in Replica : ~h'[q].touched) => status'.last <= since'
                        /\ \A q \in Replica :
                             /\ h'[q].pc # "idle" /\ ~h'[q].touched => h'[q].last <= since'
                             /\ h'[q].pc = "checking" => ~h'[q].touched
                             /\ h'[q].touched => h'[q].acted # {}
                             /\ h'[q].pc = "record" /\ h'[q].acted # {} => h'[q].last <= since'
      BY DEF Accounted
    <2>1. Accounted /\ lapses = {} /\ since \in Age /\ status.last \in Age
      BY <1>2 DEF IInv, TypeOK, Status
    <2>2. (\A q \in Replica : ~h'[q].touched) => status'.last <= since'
      BY <1>1, <1>2, <2>1, OlderOrder DEF Accounted
    <2>3. ASSUME NEW q \in Replica
          PROVE  /\ h'[q].pc # "idle" /\ ~h'[q].touched => h'[q].last <= since'
                 /\ h'[q].pc = "checking" => ~h'[q].touched
                 /\ h'[q].touched => h'[q].acted # {}
                 /\ h'[q].pc = "record" /\ h'[q].acted # {} => h'[q].last <= since'
      <3>1. h[q].last \in Age
        BY DEF IInv, TypeOK, Handler
      <3>2. h[q].pc # "idle" /\ h[q].last <= since => h'[q].last <= since'
        BY <1>1, <1>2, <2>1, <3>1, OlderOrder
      <3>3. QED
        BY <1>1, <2>1, <3>2 DEF Accounted
    <2>4. QED BY <2>2, <2>3
  <1>6. QED
    BY <1>3, <1>4, <1>5 DEF IInv

-------------------------------------------------------------------------------
(* The inductive invariant *)

LEMMA InitIInv == Init => IInv
  <1> SUFFICES ASSUME Init PROVE IInv
    OBVIOUS
  <1>1. \A q \in Replica : h[q] = Idle
    BY DEF Init
  <1>2. /\ Idle.pc = "idle" /\ ~Idle.touched
        /\ status.last = since
        /\ since \in Nat
        /\ ejected = {}
    BY ReconcileAssumption DEF Init, Idle
  <1>3. /\ IdleRuns /\ HasPod /\ ScaleRead /\ PastIsolation /\ IsolatedFirst /\ OneHandler
    BY <1>1, <1>2 DEF IdleRuns, HasPod, ScaleRead, PastIsolation, IsolatedFirst, OneHandler
  <1>4. Accounted
    BY <1>1, <1>2 DEF Accounted
  <1>5. QED
    BY <1>3, <1>4, InitTypeOK DEF IInv

\* What a step is: a move of one handler, or a step around the handlers.
LEMMA StepCases ==
  ASSUME IInv, [Next]_vars
  PROVE  \/ \E r \in Replica : \E x : Move(r, x)
         \/ IInv' /\ UNCHANGED <<h, since, lapses>>
         \/ Tick
  <1>1. ASSUME NEW r \in Replica, OnTimer(r) \/ Failure(r)
        PROVE  \E x : Move(r, x)
    BY <1>1, HandlerMoves
  <1>2. CASE UNCHANGED vars
    BY <1>2 DEF vars, cluster, IInv, TypeOK, IdleRuns, HasPod, ScaleRead, PastIsolation,
                IsolatedFirst, OneHandler, Accounted
  <1>3. QED
    BY <1>1, <1>2, AroundKeepsIInv DEF Next

LEMMA StepKeepsIInv == IInv /\ [Next]_vars => IInv'
  BY StepCases, MoveKeepsIInv, TickKeepsIInv

\* The invariant behind the other theorems: while nothing has lapsed, the status
\* or a handler accounts for the last change of the cluster.
THEOREM Inductive == Spec => []IInv
  BY StepKeepsIInv, InitIInv, PTL DEF Spec

-------------------------------------------------------------------------------
(* Theorems *)

\* Every state keeps its types; with them remediationHistory keeps its limit of
\* entries, whatever fails and whichever replica patches the status next.
THEOREM ReconcileTypes == Spec => []TypeOK
  BY Inductive, PTL DEF IInv

\* No pod is ejected from the mesh before it is isolated ("Sequential: isolate
\* -> Istio eject", README.md), for any number of replicas and order of faults.
THEOREM IsolationComesFirst == Spec => []IsolatedFirst
  BY Inductive, PTL DEF IInv

LEMMA StepKeepsCap ==
  ASSUME IInv, [Next]_vars
  PROVE  \A r \in Replica :
           h[r].pc = "scale" /\ h'[r].pc # "scale" =>
             replicas' = replicas \/ replicas' <= MaxReplicas
  <1>1. CASE \E r \in Replica : \E x : Move(r, x)
    BY <1>1 DEF Move, Fits
  <1>2. CASE UNCHANGED h
    BY <1>2
  <1>3. CASE Tick
    BY <1>3 DEF Tick, cluster
  <1>4. QED
    BY <1>1, <1>2, <1>3, StepCases

\* The scale-up of execute_remediation never sets more than maxReplicas,
\* whatever happens between its read and its patch.
THEOREM CapIsHard == Spec => HardCap
  BY StepKeepsCap, Inductive, PTL DEF Spec, HardCap

\* A move of a handler opens, changes or closes the gate, or is not seen there.
LEMMA MoveIsGateStep ==
  ASSUME IInv, IInv', NEW r \in Replica, NEW x, Move(r, x), lapses' = {}
  PROVE  [Gate!Next]_(Gate!vars)
  <1> DEFINE busy == \E q \in Replica : h[q].pc \in Working
  <1>1. /\ lapses = {}
        /\ h'[r] = x
        /\ \A q \in Replica \ {r} : h'[q] = h[q]
    BY DEF Move, Typed, IInv, TypeOK
  <1>2. /\ since' = since \/ (since' = 0 /\ h[r].pc \in Working)
        /\ x.pc \in Working /\ h[r].pc \notin Working => since = Cooldown
    BY DEF Move, Tells
  <1>3. CASE since' # since
    <2>1. Gate!Change
      BY <1>1, <1>2, <1>3 DEF Gate!Change
    <2>2. QED BY <2>1 DEF Gate!Next
  <1>4. CASE since' = since /\ ~busy /\ busy'
    <2>1. since = Cooldown
      BY <1>1, <1>2, <1>4
    <2>2. Gate!Open
      BY <1>1, <1>4, <2>1 DEF Gate!Open
    <2>3. QED BY <2>2 DEF Gate!Next
  <1>5. CASE since' = since /\ busy /\ ~busy'
    <2>1. Gate!Close
      BY <1>1, <1>5 DEF Gate!Close
    <2>2. QED BY <2>1 DEF Gate!Next
  <1>6. CASE since' = since /\ (busy <=> busy')
    BY <1>1, <1>6 DEF Gate!vars
  <1>7. QED
    BY <1>3, <1>4, <1>5, <1>6

LEMMA TickIsGateStep ==
  ASSUME IInv, Tick, lapses' = {}
  PROVE  [Gate!Next]_(Gate!vars)
  <1>1. \A q \in Replica : h'[q].pc = h[q].pc
    BY DEF Tick, IInv, TypeOK, Handler
  <1>2. since' = Older(since) /\ since \in Age /\ lapses = {}
    BY DEF Tick, IInv, TypeOK
  <1>3. CASE since = Cooldown
    <2>1. since' = since
      BY <1>2, <1>3, ReconcileAssumption DEF Older, Smaller
    <2>2. QED BY <1>1, <1>2, <2>1 DEF Gate!vars
  <1>4. CASE since # Cooldown
    <2>1. since < Cooldown /\ since' = since + 1
      BY <1>2, <1>4, ReconcileAssumption DEF Older, Smaller, Age
    <2>2. Gate!Tick
      BY <1>1, <1>2, <2>1 DEF Gate!Tick
    <2>3. QED BY <2>2 DEF Gate!Next
  <1>5. QED BY <1>3, <1>4

LEMMA InitIsGateInit == Init => Gate!Init
  <1> SUFFICES ASSUME Init PROVE Gate!Init
    OBVIOUS
  <1>1. \A q \in Replica : h[q].pc = "idle"
    BY DEF Init, Idle
  <1>2. QED
    BY <1>1 DEF Init, Gate!Init

LEMMA StepIsGateStep ==
  ASSUME IInv, IInv', [Next]_vars
  PROVE  [Gate!Next]_(Gate!vars)
  <1>1. CASE lapses' # {}
    <2>1. since' \in 0 .. Cooldown
      BY DEF IInv, TypeOK, Age
    <2>2. Gate!Fault
      BY <1>1, <2>1 DEF Gate!Fault
    <2>3. QED BY <2>2 DEF Gate!Next
  <1>2. CASE lapses' = {}
    <2>1. CASE UNCHANGED <<h, since, lapses>>
      BY <2>1 DEF Gate!vars
    <2>2. QED
      BY <1>2, <2>1, StepCases, MoveIsGateStep, TickIsGateStep
  <1>3. QED BY <1>1, <1>2

\* Reconciliation implements the cooldown gate: as long as no handler is lost
\* with changes it did not record and none overlaps another, a pipeline begins
\* only if the cluster was left alone for cooldownSeconds, across failovers,
\* restarts of the operator and any interleaving of status patches.
THEOREM ReconcileImplementsGate == Spec => ImplementsGate
  BY InitIsGateInit, StepIsGateStep, StepKeepsIInv, Inductive, PTL
  DEF Spec, ImplementsGate, Gate!Spec

-------------------------------------------------------------------------------
(* Runs are whole *)

LEMMA RankInjective ==
  \A s, t \in Step \cup {"scale", "record"} : Rank[s] = Rank[t] => s = t
  BY DEF Rank, Step

\* Between a step and the one that follows it no step is enabled.
LEMMA BeforeFollowing ==
  ASSUME NEW pc \in Step \cup {"scale"}, Current(pc) \in Steps
  PROVE  LET next == Following(Rank[pc]) IN
         /\ next \in Steps \cup {"record"} /\ next # "scale" /\ Rank[next] > Rank[pc]
         /\ {s \in Steps : Rank[s] < Rank[next]} = Before(pc) \cup {Current(pc)}
  <1> DEFINE next == Following(Rank[pc])
  <1>1. Rank[pc] \in 0 .. 7
    BY RankRange
  <1>2. /\ next \in Steps \cup {"record"} /\ Rank[next] > Rank[pc]
        /\ \A t \in Steps \cup {"record"} : Rank[t] > Rank[pc] => Rank[next] <= Rank[t]
    BY <1>1, FollowingIsNext
  <1> HIDE DEF next
  <1>3. next # "scale" /\ Steps \subseteq Step
    BY <1>2, ReconcileAssumption DEF Step
  <1>4. ASSUME NEW s \in Steps
        PROVE  Rank[s] < Rank[next] <=> Rank[s] <= Rank[Current(pc)]
    <2>1. /\ Rank[s] \in 1 .. 8 /\ Rank[next] \in 1 .. 8
          /\ Rank[s] < Rank[next] <=> Rank[s] <= Rank[pc]
      BY <1>1, <1>2, <1>3, RankRange
    <2>2. pc = "scale" => Rank[pc] = 6 /\ Rank[Current(pc)] = 5 /\ Rank[s] # 6
      BY <1>3 DEF Current, Rank, Step
    <2>3. pc # "scale" => Current(pc) = pc
      BY DEF Current
    <2>4. QED
      BY <2>1, <2>2, <2>3
  <1>5. ASSUME NEW s \in Steps
        PROVE  Rank[s] <= Rank[Current(pc)] <=> Rank[s] < Rank[Current(pc)] \/ s = Current(pc)
    <2>1. Rank[s] \in 1 .. 8 /\ Rank[Current(pc)] \in 1 .. 8
          /\ (Rank[s] = Rank[Current(pc)] => s = Current(pc))
      BY <1>3, RankRange, RankInjective
    <2>2. QED
      BY <2>1
  <1>6. QED
    BY <1>2, <1>3, <1>4, <1>5 DEF next, Before

\* A run with the results of the steps before `next` is whole when it comes there.
LEMMA AtIsWhole ==
  ASSUME NEW run \in Handler, NEW next \in Steps \cup {"record"},
         next \in Working => Remediable(run.found),
         \/ run.acted = {s \in Steps : Rank[s] < Rank[next]}
         \/ run.acted = {} /\ next \in {"ticket", "record"}
         \/ run.acted = Steps \cap {"ticket"} /\ next = "record"
  PROVE  WholeRun(At(run, next))
  <1>1. /\ At(run, next).pc = next /\ At(run, next).found = run.found
        /\ At(run, next).acted = run.acted
    BY AtFields
  <1>2. Steps \subseteq Step /\ next # "scale"
    BY ReconcileAssumption DEF Step
  <1>3. Current(next) = next /\ Before(next) = {s \in Steps : Rank[s] < Rank[next]}
    BY <1>2 DEF Current, Before
  <1>4. CASE next = "record"
    <2>1. \A s \in Steps : Rank[s] < 8
      BY <1>2, RankRange
    <2>2. run.acted = {} \/ run.acted = Steps \cap {"ticket"} \/ run.acted = Steps
      <3>1. {s \in Steps : Rank[s] < Rank[next]} = Steps
        BY <1>4, <2>1, RankRange
      <3>2. QED
        BY <3>1
    <2> DEFINE y == At(run, next)
    <2>3. y.pc = "record" /\ y.acted \in {{}, Steps \cap {"ticket"}, Steps}
      BY <1>1, <1>4, <2>2
    <2> HIDE DEF y
    <2>4. WholeRun(y)
      BY <2>3 DEF WholeRun
    <2>5. QED
      BY <2>4 DEF y
  <1>5. CASE next = "ticket"
    BY <1>1, <1>3, <1>5 DEF WholeRun
  <1>6. CASE next \in Steps \ {"ticket", "record"}
    <2>1. next \in Working
      BY <1>2, <1>6 DEF Step
    <2>2. QED
      BY <1>1, <1>3, <1>6, <2>1 DEF WholeRun
  <1>7. QED
    BY <1>4, <1>5, <1>6

LEMMA IdleIsWhole == WholeRun(Idle)
  BY DEF Idle, WholeRun

\* A step with its result leads to a whole run.
LEMMA AdvanceIsWhole ==
  ASSUME TypeOK, NEW r \in Replica, NEW touching \in BOOLEAN, WholeRun(h[r]),
         Advance(r, touching), h[r].pc \in Working \cup {"ticket"}
  PROVE  \E x : h' = [h EXCEPT ![r] = x] /\ WholeRun(x)
  <1> DEFINE pc == h[r].pc
             run == [h[r] EXCEPT !.acted = @ \cup {IF pc = "scale" THEN "readScale" ELSE pc},
                                 !.touched = @ \/ touching]
             next == Following(Rank[pc])
  <1>1. h[r] \in Handler /\ pc \in Step \cup {"scale"} /\ Current(pc) \in Steps
    BY DEF TypeOK, WholeRun, Step
  <1>2. /\ run.found = h[r].found
        /\ run.acted = h[r].acted \cup {Current(pc)}
    BY <1>1 DEF Handler, Current
  <1>3. run \in Handler
    <2>1. Current(pc) \in Step /\ Current(pc) = IF pc = "scale" THEN "readScale" ELSE pc
      BY <1>1, ReconcileAssumption DEF Current
    <2>2. (h[r].touched \/ touching) \in BOOLEAN
      OBVIOUS
    <2>3. QED
      BY <1>1, <2>1, <2>2 DEF Handler
  <1>4. /\ next \in Steps \cup {"record"} /\ Rank[next] > Rank[pc]
        /\ {s \in Steps : Rank[s] < Rank[next]} = Before(pc) \cup {Current(pc)}
    BY <1>1, BeforeFollowing
  <1>5. pc = "ticket" => next = "record"
    <2>1. \A s \in Step : ~(Rank[s] > 7)
      BY DEF Rank, Step
    <2>2. QED
      BY <1>4, <2>1, ReconcileAssumption DEF Rank
  <1>6. h' = [h EXCEPT ![r] = At(run, next)]
    BY DEF Advance
  <1> HIDE DEF run, next
  <1>7. CASE pc \in Working
    <2>1. run.acted = {s \in Steps : Rank[s] < Rank[next]}
      BY <1>2, <1>4, <1>7 DEF WholeRun
    <2>2. WholeRun(At(run, next))
      BY <1>2, <1>3, <1>4, <1>7, <2>1, AtIsWhole DEF WholeRun
    <2>3. QED
      BY <1>6, <2>2
  <1>8. CASE pc = "ticket"
    <2>1. \/ run.acted = {s \in Steps : Rank[s] < Rank[next]}
          \/ run.acted = Steps \cap {"ticket"}
      BY <1>1, <1>2, <1>4, <1>8 DEF WholeRun, Current
    <2>2. WholeRun(At(run, next))
      BY <1>3, <1>4, <1>5, <1>8, <2>1, AtIsWhole
    <2>3. QED
      BY <1>6, <2>2
  <1>9. QED
    BY <1>7, <1>8

\* So does the answer of a check, whether or not it begins a pipeline.
LEMMA AnswerIsWhole ==
  ASSUME TypeOK, NEW r \in Replica, NEW found \in Answers \cup {<<>>}, WholeRun(h[r]),
         \/ NothingToDo(r, found) \/ CooldownActive(r, found)
         \/ NoPodToRemediate(r, found) \/ BeginPipeline(r, found)
  PROVE  \E x : h' = [h EXCEPT ![r] = x] /\ WholeRun(x)
  <1> DEFINE run == [h[r] EXCEPT !.found = found]
  <1>1. h[r] \in Handler /\ h[r].pc = "checking" /\ h[r].acted = {}
    BY DEF TypeOK, WholeRun, NothingToDo, CooldownActive, NoPodToRemediate, BeginPipeline, Found
  <1>2. run \in Handler /\ run.found = found /\ run.acted = {}
    BY <1>1 DEF Handler
  <1>3. CASE NothingToDo(r, found) \/ CooldownActive(r, found)
    <2> DEFINE x == [h[r] EXCEPT !.found = found, !.pc = "record"]
    <2>1. WholeRun(x)
      BY <1>1 DEF Handler, WholeRun
    <2>2. QED
      BY <1>3, <2>1 DEF NothingToDo, CooldownActive, Found
  <1> HIDE DEF run
  <1>4. CASE NoPodToRemediate(r, found)
    <2> DEFINE next == Following(Rank["scale"])
    <2>1. next \in Steps \cup {"record"} /\ Rank[next] > 6
      BY FollowingIsNext, RankRange DEF Rank
    <2> HIDE DEF next
    <2>2. next \in {"ticket", "record"}
      <3>1. \A s \in Step : Rank[s] > 6 => s = "ticket"
        BY DEF Rank, Step
      <3>2. QED
        BY <2>1, <3>1, ReconcileAssumption
    <2>3. WholeRun(At(run, next))
      BY <1>2, <2>1, <2>2, AtIsWhole
    <2>4. QED
      BY <1>4, <2>3 DEF NoPodToRemediate, Found, run, next
  <1>5. CASE BeginPipeline(r, found)
    <2> DEFINE next == Following(0)
    <2>1. /\ next \in Steps \cup {"record"} /\ Rank[next] > 0
          /\ \A t \in Steps \cup {"record"} : Rank[t] > 0 => Rank[next] <= Rank[t]
      BY FollowingIsNext
    <2> HIDE DEF next
    <2>2. {s \in Steps : Rank[s] < Rank[next]} = {}
      BY <2>1, RankRange, ReconcileAssumption
    <2>3. Remediable(found)
      BY <1>5 DEF BeginPipeline
    <2>4. WholeRun(At(run, next))
      BY <1>2, <2>1, <2>2, <2>3, AtIsWhole
    <2>5. QED
      BY <1>5, <2>4 DEF BeginPipeline, Found, run, next
  <1>6. QED
    BY <1>3, <1>4, <1>5

LEMMA AbandonIsWhole ==
  ASSUME TypeOK, NEW r \in Replica, NEW touching, Abandon(r, touching)
  PROVE  \E x : h' = [h EXCEPT ![r] = x] /\ WholeRun(x)
  <1> DEFINE x == [h[r] EXCEPT !.pc = "record", !.acted = {}, !.touched = @ \/ touching]
  <1>1. h[r] \in Handler
    BY DEF TypeOK
  <1>2. x.pc = "record" /\ x.acted = {}
    BY <1>1 DEF Handler
  <1>3. WholeRun(x)
    BY <1>2 DEF WholeRun
  <1>4. QED
    BY <1>3 DEF Abandon

LEMMA RunIsWhole ==
  ASSUME TypeOK, NEW r \in Replica, WholeRun(h[r]), OnTimer(r) \/ Failure(r)
  PROVE  \E x : h' = [h EXCEPT ![r] = x] /\ WholeRun(x)
  <1>1. CASE Check(r)
    <2> DEFINE x == [Idle EXCEPT !.pc = "checking", !.last = status.last,
                                 !.incidents = status.incidents, !.history = status.history]
    <2>1. WholeRun(x)
      BY DEF Idle, WholeRun
    <2>2. QED
      BY <1>1, <2>1 DEF Check
  <1>2. CASE ReadScale(r)
    <2> DEFINE x == [h[r] EXCEPT !.pc = "scale", !.read = replicas]
    <2>1. h[r] \in Handler /\ h[r].pc = "readScale"
      BY <1>2 DEF TypeOK, ReadScale
    <2>2. x.pc = "scale" /\ x.found = h[r].found /\ x.acted = h[r].acted
      BY <2>1 DEF Handler
    <2>3. WholeRun(x)
      <3> HIDE DEF x
      <3>1. Current("scale") = "readScale" /\ Current("readScale") = "readScale"
        BY DEF Current
      <3>2. QED
        BY <2>1, <2>2, <3>1 DEF WholeRun, Before
    <2>4. QED
      BY <1>2, <2>3 DEF ReadScale
  <1>3. CASE Perform(r) \/ Ticket(r)
    BY <1>3, AdvanceIsWhole DEF Perform, Ticket
  <1>4. CASE AtCap(r) \/ ScaleFails(r)
    BY <1>4, AbandonIsWhole DEF AtCap, ScaleFails
  <1>5. CASE \/ Record(r) \/ CheckBreaks(r) \/ StepFails(r) \/ TicketRefused(r)
             \/ Raise(r) \/ RecordFails(r) \/ Crash(r)
    BY <1>5, IdleIsWhole
    DEF Record, CheckBreaks, StepFails, TicketRefused, Raise, RecordFails, Crash, Vanish
  <1>6. QED
    BY <1>1, <1>2, <1>3, <1>4, <1>5, AnswerIsWhole DEF OnTimer, Failure

LEMMA InitIsWhole == Init => RunsAreWhole
  BY IdleIsWhole DEF Init, RunsAreWhole

LEMMA StepKeepsWhole ==
  ASSUME TypeOK, RunsAreWhole, [Next]_vars
  PROVE  RunsAreWhole'
  <1>1. CASE \E r \in Replica : OnTimer(r) \/ Failure(r)
    <2>1. PICK r \in Replica : OnTimer(r) \/ Failure(r)
      BY <1>1
    <2>2. PICK x : h' = [h EXCEPT ![r] = x] /\ WholeRun(x)
      BY <2>1, RunIsWhole DEF RunsAreWhole
    <2>3. h'[r] = x /\ \A q \in Replica \ {r} : h'[q] = h[q]
      BY <2>2 DEF TypeOK
    <2>4. QED
      BY <2>2, <2>3 DEF RunsAreWhole, WholeRun
  <1>2. CASE UNCHANGED h
    BY <1>2 DEF RunsAreWhole, WholeRun
  <1>3. CASE Tick
    <2>1. \A r \in Replica : /\ h'[r].pc = h[r].pc /\ h'[r].found = h[r].found
                             /\ h'[r].acted = h[r].acted
      BY <1>3 DEF Tick, TypeOK, Handler
    <2>2. QED
      BY <2>1 DEF RunsAreWhole, WholeRun
  <1>4. QED
    BY <1>1, <1>2, <1>3 DEF Next, Elect, Autoscale, vars

\* The invariant: every run of on_timer has the results of the enabled steps before
\* the one it is at, and none of a pipeline that it does without.
THEOREM RunsInductive == Spec => []RunsAreWhole
  BY InitIsWhole, StepKeepsWhole, ReconcileTypes, PTL DEF Spec

LEMMA WholeRunsRecordWhole == RunsAreWhole => AllOrNothing
  BY DEF RunsAreWhole, WholeRun, AllOrNothing

\* remediationHistory has no part of a pipeline: an entry is every enabled step, or
\* the ticket of an evaluation that names no pod, whatever fails (on_timer).
THEOREM NothingByHalves == Spec => []AllOrNothing
  BY WholeRunsRecordWhole, RunsInductive, PTL

\* A pipeline begins with an answer, and with what the handler has read.
LEMMA PipelineBegins ==
  ASSUME TypeOK, [Next]_vars, NEW r \in Replica,
         h[r].pc = "checking", h'[r].pc \in Working
  PROVE  h[r].last >= Cooldown
  <1>1. h'[r].pc # h[r].pc /\ h[r] \in Handler
    BY DEF TypeOK
  <1>2. ASSUME NEW x, h' = [h EXCEPT ![r] = x] PROVE h'[r] = x
    BY <1>2 DEF TypeOK
  <1>3. OnTimer(r) \/ Failure(r)
    <2>1. ASSUME NEW q \in Replica, q # r, NEW x, h' = [h EXCEPT ![q] = x] PROVE FALSE
      BY <1>1, <2>1 DEF TypeOK
    <2>2. ~(\E q \in Replica \ {r} : OnTimer(q) \/ Failure(q))
      BY <2>1
      DEF OnTimer, Failure, Check, NothingToDo, CooldownActive, NoPodToRemediate,
          BeginPipeline, Found, Perform, ReadScale, AtCap, Ticket, Record, CheckBreaks,
          StepFails, ScaleFails, TicketRefused, Raise, RecordFails, Crash, Advance,
          Abandon, Vanish
    <2>3. ~Tick
      BY <1>1 DEF Tick, TypeOK, Handler
    <2>4. QED
      BY <1>1, <2>2, <2>3 DEF Next, Elect, Autoscale, vars
  <1>4. CASE Failure(r)
    <2>1. h'[r] = Idle
      BY <1>2, <1>4
      DEF Failure, CheckBreaks, StepFails, ScaleFails, TicketRefused, Raise, RecordFails,
          Crash, Vanish
    <2>2. QED
      BY <2>1 DEF Idle
  <1>5. ASSUME NEW found, NothingToDo(r, found) \/ CooldownActive(r, found) PROVE FALSE
    <2>1. h'[r] = [h[r] EXCEPT !.found = found, !.pc = "record"]
      BY <1>2, <1>5 DEF NothingToDo, CooldownActive, Found
    <2>2. QED
      BY <1>1, <2>1 DEF Handler
  <1>6. QED
    BY <1>3, <1>4, <1>5
    DEF OnTimer, Check, NoPodToRemediate, BeginPipeline, Perform, ReadScale, AtCap,
        Ticket, Record

\* CooldownBetweenActions, the promise of deploy/crd.yaml, holds for as long as the
\* status accounts for every change: with the lapses left out (on_timer,
\* _check_cooldown).
THEOREM AccountedCooldown ==
  Spec => [][lapses = {} => BeginsAfterCooldown]_vars
  <1>1. IInv /\ [Next]_vars => (lapses = {} => BeginsAfterCooldown)
    <2> SUFFICES ASSUME IInv, [Next]_vars, lapses = {}, NEW r \in Replica,
                        h[r].pc = "checking", h'[r].pc \in Working
                 PROVE  since >= Cooldown
      BY DEF BeginsAfterCooldown
    <2>1. TypeOK /\ Accounted
      BY DEF IInv
    <2>2. h[r].last >= Cooldown
      BY <2>1, PipelineBegins
    <2>3. h[r].last <= since
      BY <2>1 DEF Accounted
    <2>4. h[r].last \in Int /\ since \in Int /\ Cooldown \in Int
      BY <2>1, ReconcileAssumption DEF TypeOK, Handler, Age
    <2>5. QED
      BY <2>2, <2>3, <2>4
  <1>2. QED
    BY <1>1, Inductive, PTL DEF Spec

===============================================================================
