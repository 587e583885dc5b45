SPECIFICATION FairSpec
CONSTANTS
  s1 = s1
  s2 = s2
  c1 = c1
  c2 = c2
  e1 = e1
  e2 = e2
  b1 = b1
  b2 = b2
  hired = hired
  raised = raised
  Session <- TwoSessions
  Cycle <- OneCycle
  Employee <- TwoEmployees
  Base <- MCBase
  HiredBase = hired
  ProposedBase <- MCProposed
  Grant <- MCGrant
  Band <- MCBand
  Seeded <- NoBands
  Levels <- MCLevels
  Ops <- Audits
  Verdicts <- Exceptions
  MaxSeq = 4
INVARIANTS LogAgreesWithLedger DeadlockNeedsBatchOrBands
PROPERTIES UsesLedger RequestsEnd
CHECK_DEADLOCK FALSE
