SPECIFICATION Spec
CONSTANTS
  s1 = s1
  s2 = s2
  c1 = c1
  c2 = c2
  e1 = e1
  e2 = e2
  b1 = b1
  b2 = b2
  hired = hired
  raised = raised
  Session <- TwoSessions
  Cycle <- TwoCycles
  Employee <- OneEmployee
  Base <- MCBase
  HiredBase = hired
  ProposedBase <- MCProposed
  Grant <- MCGrant
  Band <- MCBand
  Seeded <- MCBand
  Levels <- MCLevels
  Ops <- AllOps
  Verdicts <- Decisions
  MaxSeq = 3
SYMMETRY Symmetric
INVARIANTS TypeOK LedgerTellsStatus NoPayWithoutApproval EquityAppliedOnce LedgerContinuous
PROPERTIES FinalizedIsTerminal LatecomersUnpaid
CHECK_DEADLOCK FALSE
