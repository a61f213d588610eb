SPECIFICATION Spec
CONSTANTS
  Replica = {r1, r2}
  NoLease = NoLease
  NoHolder = NoHolder
  LeaseDuration = 3
  RenewInterval = 1
  MaxDelay = 1
  MaxCall = 0
INVARIANT RacesAreHarmless
