--------------------------- MODULE MCLeaderElection ---------------------------
(* LeaderElection on small instances *)
EXTENDS LeaderElection, TLC

Symmetry == Permutations(Replica)

\* The properties promise nothing once a fault has been blamed.  Races are
\* followed all the same, for what a replica does that has lost its Lease.
OnlyRaces == blame \subseteq {"race"}

===============================================================================
