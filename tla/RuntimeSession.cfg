SPECIFICATION Spec
CONSTANTS
  Outages = {"sleep"}
  Studies <- OneStudy
  MaxInstant = 3
  MaxSessions = 3
  MaxCorrections = 1
  MaxMoves = 3
  MaxSettings = 1
  MaxAttempts = 2
  MaxFaults = 1
INVARIANTS
  TypeOK
  GapsHonest
PROPERTIES
  SessionProved
  ExpiryHolds
\* The clock, the events and the failures are bounded, so the system may stop.
CHECK_DEADLOCK FALSE
