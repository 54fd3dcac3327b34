SPECIFICATION Spec
CONSTANTS
  obs = obs
  image = image
  shot = shot
  gap = gap
  startup = startup
  N = 2
  Due <- MCDue
  Events = {image, gap}
  Kind <- MCKind
  In <- MCIn
  Versions = {"v1", "v2"}
  First = "v1"
  NoVersion = "none"
  MaxTime = 3
  DayLength = 2
  BatchSize = 1
  Faults = {"crash", "busy", "upgrade"}
  MaxFaults = 3
INVARIANTS
  RevisedWhenStale
\* The clock and the events are bounded, so the system may stop.
CHECK_DEADLOCK FALSE
