\* Four attempts, the second backoff at the cap, a jitter of one half.
SPECIFICATION FairIncidentSpec
CONSTANTS
  ForSeconds = 3
  MaxAttempts = 4
  BaseDelay = 2
  MaxDelay = 3
  JitterPart = 2
  Cooldown = 3
INVARIANTS IncidentTypeOK IncidentIInv DuplicatesNeedLostAnswers OneIncident
PROPERTIES WindowIsExact TicketIsForSustained CallProgresses CallEnds
