\* Two replicas, all steps enabled.
SPECIFICATION Spec
CONSTANTS
  Replica = {r1, r2}
  p1 = p1
  p2 = p2
  Pod = {p1, p2}
  NoPod = NoPod
  Answers <- SomeAnswers
  Steps = {"isolate", "eject", "label", "dump", "readScale", "ticket"}
  Cooldown = 2
  ScaleUp = 1
  MaxReplicas = 1
  HistoryLimit = 1
  MaxScale = 2
  MaxIncidents = 1
CONSTRAINT NoneCutOff
SYMMETRY Symmetry
INVARIANTS TypeOK IInv IsolatedFirst  AllOrNothing
PROPERTIES ImplementsGate HardCap
