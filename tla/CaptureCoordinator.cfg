SPECIFICATION Spec
CONSTANTS
  Notices <- EveryNotice
  Wishes <- EveryWish
  MaxNotices = 3
  MaxWishes = 1
  MaxFaults = 1
CONSTRAINT Budget
INVARIANTS
  TypeOK
  GapAfterEvidence
  NothingSeenRefused
  RunningIsArmed
\* The clock, the events and the failures are bounded, so the system may stop.
CHECK_DEADLOCK FALSE
