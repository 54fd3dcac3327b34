SPECIFICATION Spec
CONSTANTS
  a = a
  b = b
  r1 = r1
  r2 = r2
  r3 = r3
  Procs = {a}
  Lazy = {}
  Scanners = {}
  Records <- MCRecords
  Ids <- MCIds
  IdOf <- MCIdOf
  Dates <- MCDates
  DateOf <- MCDateOf
  Images <- MCImages
  ImageOf <- MCImageOf
  NoImage = NoImage
  Fragment = Fragment
  NoProc = NoProc
  NoRecord = NoRecord
  NoShard = NoShard
  Faults = {"crash", "power", "torn", "create", "sync", "link", "manifest", "clear"}
  MaxFaults = 4
INVARIANTS
  TypeOK
  AckedDurable
  Restartable
