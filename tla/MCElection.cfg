\* Three replicas, no blamed fault but races; a heartbeat may start one tick
\* late and a call may take one tick.
SPECIFICATION Spec
CONSTANTS
  Replica = {r1, r2, r3}
  NoLease = NoLease
  NoHolder = NoHolder
  LeaseDuration = 6
  RenewInterval = 1
  MaxDelay = 1
  MaxCall = 1
SYMMETRY Symmetry
CONSTRAINT OnlyRaces
INVARIANTS TypeOK IInv NoSplitBrain LeaderHoldsLiveLease
PROPERTY ImplementsLeadership
