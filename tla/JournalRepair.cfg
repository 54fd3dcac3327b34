SPECIFICATION Spec
CONSTANTS
  r1 = r1
  r2 = r2
  r3 = r3
  Records = {r1, r2, r3}
  DateOf <- MCDateOf
  Before <- MCBefore
  Devices = {mine, other}
  NoShard = NoShard
  NoBytes = NoBytes
  NoDevice = NoDevice
  MaxDamages = 2
  MaxFaults = 2
INVARIANTS
  TypeOK
  RepairHonest
PROPERTIES
  Reopens
\* Records, damages and failures are bounded, so the system may stop.
CHECK_DEADLOCK FALSE
