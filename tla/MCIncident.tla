------------------------------- MODULE MCIncident ------------------------------
(* Incident on small instances *)
EXTENDS Incident

===============================================================================
