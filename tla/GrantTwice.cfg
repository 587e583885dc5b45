SPECIFICATION Spec
CONSTANTS
  s1 = s1
  s2 = s2
  c1 = c1
  c2 = c2
  e1 = e1
  e2 = e2
  b1 = b1
  b2 = b2
  hired = hired
  raised = raised
  Session <- TwoSessions
  Cycle <- OneCycle
  Employee <- OneEmployee
  Base <- MCBase
  HiredBase = hired
  ProposedBase <- MCProposed
  Grant <- MCGrant
  Band <- MCBand
  Seeded <- MCBand
  Levels <- MCLevels
  Ops <- NoApprovals
  Verdicts <- Decisions
  MaxSeq = 3
INVARIANTS NoGrantTwice
CHECK_DEADLOCK FALSE
