------------------------------ MODULE MCLifecycle ------------------------------
(* Lifecycle on small instances *)
EXTENDS Lifecycle, TLC

CONSTANT p1

CriticalAnswer == {<<[pod |-> p1, critical |-> TRUE]>>}

Symmetry == Permutations(Replica)

\* A clean-up that something has escaped promises nothing more; runs that were
\* cut off are Reconcile.tla's matter.
Whole == escapes = {} /\ lapses \subseteq {"overlap"}

===============================================================================
