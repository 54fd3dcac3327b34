SPECIFICATION Spec
CONSTANTS
  g1 = g1
  g2 = g2
  r1 = r1
  r2 = r2
  r3 = r3
  r4 = r4
  q1 = q1
  q2 = q2
  Grants = {g1, g2}
  Scope <- MCScope
  IssuedAt <- MCIssuedAt
  ExpiresAt <- MCExpiresAt
  Allowance <- MCAllowance
  MaxCursors = 1
  MaxReceipts = 2
  CursorLife = 1
  Revisions = {r1, r2, r3, r4}
  PriorOf <- MCPriorOf
  StatusOf <- MCStatusOf
  Evidence <- MCEvidence
  NoRevision = NoRevision
  Requests = {q1, q2}
  Writes <- MCWrites
  MaxTime = 2
  MaxWait = 1
  Faults = {"fail", "power", "index"}
  MaxFaults = 2
INVARIANTS
  TypeOK
  DisclosedIsCharged
  AnsweredIsKept
  OneChain
PROPERTIES
  SilencedIsSilent
\* The clock and the allowances are bounded, so the system may stop.
CHECK_DEADLOCK FALSE
