--------------------------- MODULE MCPlanningCycle ---------------------------
(* Small instances of the merit cycle: two requests at once, over two cycles  *)
(* and one employee or one cycle and two employees.                           *)
EXTENDS PlanningCycle, TLC

CONSTANTS s1, s2, c1, c2, e1, e2, b1, b2, hired, raised

TwoSessions == {s1, s2}
OneCycle == {c1}
TwoCycles == {c1, c2}
OneEmployee == {e1}
TwoEmployees == {e1, e2}
MCBase == {hired, raised}
MCProposed == {raised}
MCGrant == {1}
MCBand == {b1, b2}
NoBands == {}

\* One employee of each level, proposed for the level of the other.
MCLevels == [e \in Employee |-> IF e = e1 THEN {<<b1, b2>>} ELSE {<<b2, b1>>}]

AllOps == {"create", "audit", "batch", "approve", "finalize"}
Audits == {"create", "audit", "batch"}
Decisions == {"AUTO_APPROVED", "VP_EXCEPTION_REQUIRED", "REJECTED"}
Exceptions == {"VP_EXCEPTION_REQUIRED"}
NoApprovals == {"create", "audit", "finalize"}

Symmetric == Permutations(Session) \cup Permutations(Cycle)
==============================================================================
