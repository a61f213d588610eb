\* Two replicas; the steps that on_delete undoes.
SPECIFICATION LifeSpec
CONSTANTS
  Replica = {r1, r2}
  p1 = p1
  Pod = {p1}
  NoPod = NoPod
  Answers <- CriticalAnswer
  Steps = {"eject", "label"}
  Cooldown = 1
  ScaleUp = 1
  MaxReplicas = 0
  HistoryLimit = 1
  MaxScale = 0
  MaxIncidents = 0
INVARIANT NoOrphans
