----------------------------- MODULE MCReconcile ------------------------------
(* Reconcile on small instances *)
EXTENDS Reconcile, TLC

CONSTANTS p1, p2

Symmetry == Permutations(Replica)

CriticalPod == [pod |-> p1, critical |-> TRUE]
Warning == [pod |-> p2, critical |-> FALSE]
WarningWithoutPod == [pod |-> NoPod, critical |-> FALSE]

\* A critical pod; then a warning about another pod after it; then one whose
\* series has no pod label.
SomeAnswers == {<<CriticalPod>>, <<CriticalPod, Warning>>, <<CriticalPod, WarningWithoutPod>>}

\* Handlers may overlap, but no run is cut off after it has changed the cluster:
\* what follows is then a fresh handler that finds labels and replicas as they
\* are, as every handler does.
NoneCutOff == lapses \subseteq {"overlap"}

\* A call that fails for good has changed nothing: the failures that need no lost
\* answer.
FailuresAreClean ==
  \A r \in Replica : h[r].pc \in Working /\ h'[r].pc = "idle" => UNCHANGED cluster

===============================================================================
