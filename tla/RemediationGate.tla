---------------------------- MODULE RemediationGate ----------------------------
(***************************************************************************)
(* What the cooldown promises for one AppHealth resource: "minimum seconds *)
(* between consecutive remediation actions" (deploy/crd.yaml).  A pipeline *)
(* opens only when the cluster has been left alone for the cooldown, and   *)
(* only one is open at a time.                                             *)
(***************************************************************************)
EXTENDS Naturals

CONSTANT Cooldown   \* cooldownSeconds

VARIABLES
  busy,    \* a pipeline is at work on the cluster
  since,   \* age of its last change of the cluster, up to Cooldown
  sound    \* TRUE until a fault that the status cannot make up for

vars == <<busy, since, sound>>

Init ==
  /\ busy = FALSE
  /\ since = Cooldown
  /\ sound = TRUE

Open ==
  /\ sound
  /\ ~busy
  /\ since = Cooldown
  /\ busy' = TRUE
  /\ UNCHANGED <<since, sound>>

\* A change of the cluster; with it the pipeline may be over.
Change ==
  /\ sound
  /\ busy
  /\ since' = 0
  /\ busy' \in BOOLEAN
  /\ UNCHANGED sound

Close ==
  /\ sound
  /\ busy
  /\ busy' = FALSE
  /\ UNCHANGED <<since, sound>>

Tick ==
  /\ sound
  /\ since < Cooldown
  /\ since' = since + 1
  /\ UNCHANGED <<busy, sound>>

Fault ==
  /\ sound' = FALSE
  /\ busy' \in BOOLEAN
  /\ since' \in 0 .. Cooldown

Next == Open \/ Change \/ Close \/ Tick \/ Fault

Spec == Init /\ [][Next]_vars

===============================================================================
