\* Two replicas, all steps but the log dump; a call that fails has no effect.
SPECIFICATION Spec
CONSTANTS
  Replica = {r1, r2}
  p1 = p1
  p2 = p2
  Pod = {p1, p2}
  NoPod = NoPod
  Answers <- SomeAnswers
  Steps = {"isolate", "eject", "label", "readScale", "ticket"}
  Cooldown = 2
  ScaleUp = 1
  MaxReplicas = 2
  HistoryLimit = 1
  MaxScale = 2
  MaxIncidents = 1
ACTION_CONSTRAINT FailuresAreClean
PROPERTY CooldownBetweenActions
