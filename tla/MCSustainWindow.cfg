\* The window alone matters.
SPECIFICATION IncidentSpec
CONSTANTS
  ForSeconds = 3
  MaxAttempts = 1
  BaseDelay = 2
  MaxDelay = 3
  JitterPart = 2
  Cooldown = 3
PROPERTY SustainedTriggers
