\* Two replicas; ejection, which on_delete undoes.
SPECIFICATION LiveSpec
CONSTANTS
  Replica = {r1, r2}
  p1 = p1
  Pod = {p1}
  NoPod = NoPod
  Answers <- CriticalAnswer
  Steps = {"eject"}
  Cooldown = 1
  ScaleUp = 1
  MaxReplicas = 0
  HistoryLimit = 1
  MaxScale = 0
  MaxIncidents = 0
CONSTRAINT ForReal
VIEW Present
PROPERTIES EventuallyGone EventuallyRemediated
