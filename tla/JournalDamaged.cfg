SPECIFICATION Spec
CONSTANTS
  a = a
  b = b
  r1 = r1
  r2 = r2
  r3 = r3
  Procs = {a, b}
  Lazy = {b}
  Scanners = {a}
  Records <- MCRecords
  Ids <- MCIds
  IdOf <- MCIdOf
  Dates <- MCDates
  DateOf <- MCDateOf
  Images <- MCImages
  ImageOf <- MCImageOf
  NoImage = NoImage
  Fragment = Fragment
  NoProc = NoProc
  NoRecord = NoRecord
  NoShard = NoShard
  Faults = {"torn", "crash", "create", "rewrite"}
  MaxFaults = 3
PROPERTIES
  CorruptUntouched
