------------------------------ MODULE AuditPolicy ------------------------------
(***************************************************************************)
(* The rules of tools/registry.py and the two agents that apply them       *)
(* (agent/orchestrator.py).  Money is counted in units of $100, of which    *)
(* every default figure is a multiple; multipliers in tenths; compa-ratios *)
(* in thousandths, as the code rounds them.  A finding is the name of a     *)
(* failed check: the agents look at nothing else of it, and treat failed   *)
(* warnings and failed critical checks alike.                              *)
(***************************************************************************)
EXTENDS Integers

Level == 1 .. 6
Zone == {"US_ZONE_1", "US_ZONE_2", "US_ZONE_3"}
Rating == {"RATING_1", "RATING_2", "RATING_3", "RATING_4", "RATING_5"}

\* DEFAULT_ZONE_1_BENCHMARKS, per level.
Zone1Benchmark ==
  << [ min |-> 1400, mid |-> 1650, max |-> 1900, rsus |-> 400,  bonus |-> 10 ],
     [ min |-> 1700, mid |-> 2000, max |-> 2300, rsus |-> 650,  bonus |-> 15 ],
     [ min |-> 2100, mid |-> 2500, max |-> 2900, rsus |-> 900,  bonus |-> 15 ],
     [ min |-> 2600, mid |-> 3100, max |-> 3600, rsus |-> 1400, bonus |-> 20 ],
     [ min |-> 3200, mid |-> 3800, max |-> 4400, rsus |-> 2200, bonus |-> 25 ],
     [ min |-> 4000, mid |-> 4800, max |-> 5600, rsus |-> 3500, bonus |-> 30 ] >>

\* GEO_FACTORS, in percent.
GeoFactor == [ US_ZONE_1 |-> 100, US_ZONE_2 |-> 90, US_ZONE_3 |-> 80 ]

\* EQUITY_PERFORMANCE_MULTIPLIERS, in percent.
EquityMultiplier ==
  [ RATING_1 |-> <<0, 0>>, RATING_2 |-> <<80, 120>>, RATING_3 |-> <<110, 145>>,
    RATING_4 |-> <<135, 180>>, RATING_5 |-> <<170, 230>> ]

\* n / d rounded half up, for n >= 0 and d > 0.
HalfUp(n, d) == (2 * n + d) \div (2 * d)

\* get_default_salary_band.
DefaultSalaryBand(level, zone) ==
  LET at(money) == HalfUp(money * GeoFactor[zone], 100)
      z1 == Zone1Benchmark[level]
  IN [ z1 EXCEPT !.min = at(@), !.mid = at(@), !.max = at(@) ]

\* calculate_compa_ratio.
CompaRatio(base, mid) == IF mid <= 0 THEN 1000 ELSE HalfUp(base * 1000, mid)

\* What follows are the failed checks of a proposal, as a set of names.
Failed(check, failed) == IF failed THEN {check} ELSE {}

\* verify_salary_band_compliance.
OutsideBand(base, band) == base < band.min \/ base > band.max

\* calculate_target_bonus_amount, times 10000: base * pct% * individual * company.
TargetBonus10000(base, pct, individual, company) == base * pct * individual * company

\* evaluate_bonus_compliance: more than 25% away from a target that is not zero.
BonusOffFormula(bonus, base, pct, individual, company) ==
  LET target == TargetBonus10000(base, pct, individual, company)
      paid == 10000 * bonus
      off == IF paid > target THEN paid - target ELSE target - paid
  IN target > 0 /\ 4 * off > target

\* Mutant of EquityOffGuideline: the upper limit is rounded up.
EquityOffGuidelineCeil(rsus, target, rating) ==
  \/ rsus < (target * EquityMultiplier[rating][1]) \div 100
  \/ rsus > (target * EquityMultiplier[rating][2]) \div 100 + 1

\* evaluate_equity_guidelines: the limits are truncated to whole units.
EquityOffGuideline(rsus, target, rating) ==
  \/ rsus < (target * EquityMultiplier[rating][1]) \div 100
  \/ rsus > (target * EquityMultiplier[rating][2]) \div 100

\* Mutant of IncreaseTooFast: the increase is measured against the new base.
IncreaseTooFastOfNew(current, base, rating) ==
  current > 0 /\ (\/ rating = "RATING_1" /\ base > current
                  \/ 5 * (base - current) > base)

\* evaluate_base_increase_velocity: any raise of the lowest rating, or over 20%.
IncreaseTooFast(current, base, rating) ==
  current > 0 /\ (\/ rating = "RATING_1" /\ base > current
                  \/ 5 * (base - current) > current)

\* evaluate_promotion_compliance: a demotion, a jump, or a base below the new band.
PromotionRefused(currentLevel, level, base, band) ==
  \/ level < currentLevel
  \/ level > currentLevel + 1
  \/ level > currentLevel /\ base < band.min

\* The figures of a proposal: [level, base, bonus, individual, company, rsus, rating].
\* The checks audit_review_proposal runs; promotion only when the level changes.
ReviewFindings(currentLevel, current, p, band) ==
       Failed("SALARY_BAND_COMPLIANCE", OutsideBand(p.base, band))
  \cup Failed("BONUS_FORMULA_COMPLIANCE",
         BonusOffFormula(p.bonus, p.base, band.bonus, p.individual, p.company))
  \cup Failed("EQUITY_GUIDELINE_COMPLIANCE", EquityOffGuideline(p.rsus, band.rsus, p.rating))
  \cup Failed("INCREASE_VELOCITY", IncreaseTooFast(current, p.base, p.rating))
  \cup Failed("PROMOTION_COMPLIANCE",
         currentLevel # p.level /\ PromotionRefused(currentLevel, p.level, p.base, band))

\* EmployeeCalibrationAgent.audit_review_proposal.
ReviewDecision(currentLevel, current, p, band) ==
  IF p.rating = "RATING_1" /\ p.base > current THEN "REJECTED"
  ELSE IF ReviewFindings(currentLevel, current, p, band) # {} THEN "VP_EXCEPTION_REQUIRED"
  ELSE "AUTO_APPROVED"

------------------------------------------------------------------------------
(* Candidate offers: [base, signon, rsus].                                 *)

SignOnCap == 500
CompaCap == 1200

\* evaluate_candidate_offer_compliance.
OfferFindings(o, band) ==
       Failed("SALARY_BAND_COMPLIANCE", OutsideBand(o.base, band))
  \cup Failed("SIGN_ON_BONUS_CAP", o.signon > SignOnCap)
  \cup Failed("NEW_HIRE_EQUITY_CAP", o.rsus > (band.rsus * 150) \div 100)

\* Mutant of OfferDecision: the compa-ratio is not looked at.
OfferDecisionByBand(o, band) ==
  IF OfferFindings(o, band) # {} THEN "VP_EXCEPTION_REQUIRED" ELSE "OFFER_APPROVED"

\* OfferApprovalAgent.audit_offer_package: a wide band does not lift the compa cap.
OfferDecision(o, band) ==
  IF CompaRatio(o.base, band.mid) > CompaCap \/ OfferFindings(o, band) # {}
  THEN "VP_EXCEPTION_REQUIRED" ELSE "OFFER_APPROVED"
==============================================================================
