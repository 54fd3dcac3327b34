SPECIFICATION LiveSpec
CONSTANTS
  Images <- MCImages
  NoImage = 0
  Lifetime = 1
  Quota = 2
  AcrossDays = FALSE
  MaxInstant = 3
  MaxFaults = 2
INVARIANTS
  TypeOK
  FilesAgree
  RecordsReplayable
PROPERTIES
  OnlyConfirmedUnlinked
  PendingSettles
\* The clock, the events and the failures are bounded, so the system may stop.
CHECK_DEADLOCK FALSE
