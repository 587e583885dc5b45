---------------------------- MODULE MCCycleFigures ----------------------------
(* Two cycles that overlap on one employee, a second employee in another        *)
(* department, raises, cuts, promotions and a rejected proposal; the band of    *)
(* the first level may be lowered and restored.                                 *)
EXTENDS CycleFigures

CONSTANTS c1, c2, e1, e2, d1, d2

MCCycle == {c1, c2}
MCEmployee == {e1, e2}
MCDepartment == {d1, d2}
MCDepartmentOf(e) == IF e = e1 THEN d1 ELSE d2

MCHired(e) == [ base |-> 1500, level |-> 1 ]

Package(level, base, rating) ==
  LET b == Zone1Benchmark[level] IN
    [ level |-> level, base |-> base, rating |-> rating,
      bonus |-> (base * b.bonus) \div 100, individual |-> 10, company |-> 10,
      rsus |-> (b.rsus * EquityMultiplier[rating][1]) \div 100 ]

Wide ==
  { Package(1, 1400, "RATING_2"), Package(1, 1650, "RATING_2"), Package(1, 1800, "RATING_3"),
    Package(1, 1900, "RATING_3"), Package(2, 1720, "RATING_3"), Package(3, 2200, "RATING_5"),
    Package(1, 1500, "RATING_1"), Package(1, 1600, "RATING_1") }

Few == { Package(1, 1600, "RATING_1"), Package(1, 1700, "RATING_2") }

MCPackages(c, e) == IF e = e1 THEN Wide ELSE IF c = c1 THEN Few ELSE {}

MCBandChoices(level) ==
  IF level = 1
  THEN { Zone1Benchmark[1], [ Zone1Benchmark[1] EXCEPT !.mid = 1550, !.max = 1700 ] }
  ELSE {}
==============================================================================
