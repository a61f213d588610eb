\* Two replicas, three faults; a call does not outlast the tick it is made in
\* unless it is late.
SPECIFICATION LiveSpec
CONSTANTS
  Replica = {r1, r2}
  NoLease = NoLease
  NoHolder = NoHolder
  LeaseDuration = 3
  RenewInterval = 1
  MaxDelay = 1
  MaxCall = 0
  MaxFaults = 3
PROPERTY EventuallyOneLeader
