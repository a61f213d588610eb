\* The delays and the jitter of the code; seven attempts reach the cap.
SPECIFICATION IncidentSpec
CONSTANTS
  ForSeconds = 0
  MaxAttempts = 7
  BaseDelay = 1
  MaxDelay = 30
  JitterPart = 10
  Cooldown = 1
INVARIANT BackoffIsCapped
