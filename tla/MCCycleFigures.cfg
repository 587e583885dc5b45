SPECIFICATION Spec
CONSTANTS
  c1 = c1
  c2 = c2
  e1 = e1
  e2 = e2
  d1 = d1
  d2 = d2
  Cycle <- MCCycle
  Employee <- MCEmployee
  Department <- MCDepartment
  DepartmentOf <- MCDepartmentOf
  Hired <- MCHired
  Packages <- MCPackages
  BandChoices <- MCBandChoices
  MeritBudgetPct = 4
INVARIANTS RollupsAddUp TriageAgreesWithAudit
PROPERTIES AutoRaiseWithinCap AutoKeepsLadder PayrollGrowthAnnounced
