SPECIFICATION Spec
CONSTANTS
  Events = {1, 2, 3}
  BucketOf <- MCBucketOf
  Gaps = {2}
  Texts = {1, 3}
  Artifacts = {1, 2}
  Cites <- MCCites
  MaxRevisions = 3
  MaxRecords <- MCMaxRecords
  MaxAll = 6
  Filters <- MCFilters
  Grants <- MCGrants
  PageLimit = 1
  DayLength = 3
  MaxTime = 3
  Faults = {"rollback", "lag", "rebuild", "delete"}
  MaxFaults = 2
CONSTRAINTS StillReading OneKind Regrown
INVARIANTS
  TypeOK
  OneSnapshot
  DetailsOpen
  TimelineShowsReport
  WalkMissesNothing
\* The clock, the events and the failures are bounded, so the system may stop.
CHECK_DEADLOCK FALSE
