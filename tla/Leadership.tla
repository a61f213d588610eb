------------------------------ MODULE Leadership ------------------------------
(***************************************************************************)
(* What leader election promises to the rest of the operator: the handlers *)
(* of src/operator.py run their mutations only behind                      *)
(* `_leader_elector.is_leader()`, and trust that at most one replica sees  *)
(* TRUE there.  This module is that promise, as a lock that replicas take  *)
(* and leave, together with the flag that says when the promise stands.    *)
(***************************************************************************)

CONSTANT Replica   \* the replicas of the operator's Deployment

VARIABLES
  leaders,   \* the replicas whose is_leader() returns TRUE
  sound      \* TRUE until a fault the Lease protocol does not mask happens

vars == <<leaders, sound>>

Init ==
  /\ leaders = {}
  /\ sound = TRUE

\* Leadership is taken only when nobody has it: there is no direct handover
\* and a challenger never joins a leader.
Gain(r) ==
  /\ sound
  /\ leaders = {}
  /\ leaders' = {r}
  /\ UNCHANGED sound

Lose(r) ==
  /\ sound
  /\ r \in leaders
  /\ leaders' = leaders \ {r}
  /\ UNCHANGED sound

\* After an unmasked fault nothing is promised.
Fault ==
  /\ sound' = FALSE
  /\ leaders' \in SUBSET Replica

Next ==
  \/ \E r \in Replica : Gain(r) \/ Lose(r)
  \/ Fault

Spec == Init /\ [][Next]_vars

===============================================================================
