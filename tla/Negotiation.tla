------------------------------ MODULE Negotiation ------------------------------
(***************************************************************************)
(* service/negotiation_service.py: how a candidate's competing offer        *)
(* compares with ours over four years, and the counter that is recommended. *)
(* A recruiter simulates, adopts the counter and simulates again; at any    *)
(* time the package can be put to the offer agent.  Money is in units of    *)
(* $10; bases are multiples of $1000, which keeps every percentage of them  *)
(* whole.  The win rate enters through its log-odds, at the threshold the   *)
(* recommendation looks at.                                                 *)
(***************************************************************************)
EXTENDS AuditPolicy

CONSTANTS
  OurOffers,    \* [base, signon, rsus, schedule]: what recruiters start from
  Rivals,       \* [base, signon, rsus, schedule, forfeited]: what candidates hold
  Bands         \* salary bands in force, in units of $100

VARIABLES
  our,          \* our_offer, as the recruiter has it
  rival,        \* competing_offer
  rounds,       \* counters adopted so far
  verdict       \* of the offer agent on our package, "NONE" until it is asked

deskVars == <<our, rival, rounds, verdict>>

\* Bound on the counters adopted.
MaxRounds == 2

\* VESTING_SCHEDULE_MAP, in percent per year.
VestingSchedule ==
  [ ENTERPRISE_FRONT_LOADED_35_30_20_15 |-> <<35, 30, 20, 15>>,
    STANDARD_FOUR_YEAR_EQUAL_25 |-> <<25, 25, 25, 25>>,
    BACK_LOADED_5_15_40_40 |-> <<5, 15, 40, 40>>,
    SEMI_ANNUAL_EQUAL |-> <<25, 25, 25, 25>> ]

\* domain/negotiation.py and domain/models.py: ge=0, and gt=0 on the figures of a band.
Package == [ base : Nat, signon : Nat, rsus : Nat, schedule : DOMAIN VestingSchedule ]
RivalPackage == [ base : Nat, signon : Nat, rsus : Nat, schedule : DOMAIN VestingSchedule,
                  forfeited : Nat ]

ASSUME DeskAssumption ==
  /\ OurOffers \subseteq Package /\ Rivals \subseteq RivalPackage
  /\ \A band \in Bands : /\ band.min \in Nat /\ band.mid \in Nat \ {0} /\ band.max \in Nat
                         /\ band.rsus \in Nat

\* The schemas' defaults, which the endpoint on stored offers always uses: bonus of
\* 15%, shares at $100.
BonusPct == 15
SharePrice == 10

\* Base and bonus of a year, the equity that vests in it, and their sum.
AnnualCash(o) == o.base + (o.base * BonusPct) \div 100
EquityValue(o, year) == (o.rsus * SharePrice * VestingSchedule[o.schedule][year]) \div 100
YearTDC(o, year) ==
  AnnualCash(o) + EquityValue(o, year) + (IF year = 1 THEN o.signon ELSE 0)
FourYearTDC(o) == YearTDC(o, 1) + YearTDC(o, 2) + YearTDC(o, 3) + YearTDC(o, 4)

Larger(a, b) == IF a > b THEN a ELSE b
Smaller(a, b) == IF a < b THEN a ELSE b

\* The share of the forfeited equity our sign-on and first vesting cover, in hundredths of a
\* percent as the code rounds it.
ForfeiturePct(o, c) ==
  IF c.forfeited = 0 THEN 10000
  ELSE Smaller(20000,
         HalfUp(10000 * (o.signon + Larger(0, EquityValue(o, 1) - EquityValue(c, 1))),
                c.forfeited))

\* a / b - 1 in thousandths.
Excess(a, b) == (1000 * (a - b)) \div b

\* The log-odds of _calculate_win_rate, in ten-thousandths.
LogOdds(o, c) ==
    55 * Excess(YearTDC(o, 1), YearTDC(c, 1))
  + 35 * Excess(FourYearTDC(o), FourYearTDC(c))
  + (3 * (Smaller(10000, ForfeiturePct(o, c)) - 10000)) \div 2
  + (IF /\ o.schedule = "ENTERPRISE_FRONT_LOADED_35_30_20_15"
        /\ c.schedule \in {"STANDARD_FOUR_YEAR_EQUAL_25", "BACK_LOADED_5_15_40_40"}
     THEN 3500 ELSE 0)

\* win_rate >= 80.0: a logistic of 0.7995 rounds up to it; 95 against an empty offer.
HighlyCompetitive(o, c) == YearTDC(c, 1) = 0 \/ FourYearTDC(c) = 0 \/ LogOdds(o, c) >= 13832

------------------------------------------------------------------------------
(* _generate_recommended_counter.                                          *)

Ceil(a, b) == (a + b - 1) \div b

FirstYearGap(o, c) == Larger(0, YearTDC(c, 1) - YearTDC(o, 1))
FourYearGap(o, c) == Larger(0, FourYearTDC(c) - FourYearTDC(o))

\* Mutant of BridgedSignOn: half of the gap is bridged.
BridgedSignOnHalf(o, c) == o.signon + FirstYearGap(o, c) \div 2

\* The sign-on that bridges a gap of the first year, and $10000 more.  What reads as
\* rounding to thousands, quantize of 1000.00, rounds to cents and changes nothing.
BridgedSignOn(o, c) ==
  IF FirstYearGap(o, c) = 0 THEN o.signon ELSE o.signon + FirstYearGap(o, c) + 1000

\* Shares for 115% of a four-year gap, rounded up to a multiple of 50.
TopUpShares(o, c) ==
  IF FourYearGap(o, c) = 0 THEN o.rsus
  ELSE o.rsus + 50 * Ceil(Ceil(FourYearGap(o, c) * 115, 100 * SharePrice), 50)

\* A base at most $25000 behind is matched.
MatchedBase(o, c) ==
  IF c.base > o.base /\ c.base - o.base <= 2500 THEN c.base ELSE o.base

RecommendedCounter(o, c) ==
  IF HighlyCompetitive(o, c) THEN o
  ELSE [ o EXCEPT !.base = MatchedBase(o, c), !.signon = BridgedSignOn(o, c),
                  !.rsus = TopUpShares(o, c) ]

------------------------------------------------------------------------------
(* The recruiter.                                                          *)

Nobody == [ base |-> 0 ]

DeskInit ==
  /\ our = Nobody
  /\ rival = Nobody
  /\ rounds = 0
  /\ verdict = "NONE"

\* Our offer and the candidate's other one are put to the simulator.
NewCandidate ==
  /\ rival = Nobody
  /\ our' \in OurOffers
  /\ rival' \in Rivals
  /\ rounds' = 0
  /\ verdict' = "NONE"

\* The recommended counter becomes our offer.
AdoptCounter ==
  /\ rival # Nobody
  /\ rounds < MaxRounds
  /\ our' = RecommendedCounter(our, rival)
  /\ rounds' = rounds + 1
  /\ verdict' = "NONE"
  /\ UNCHANGED rival

\* The package as an offer before the agent, in its units of $100; a sign-on between
\* two of them is over a cap exactly when the next one is.
AsOffer(o) == [ base |-> o.base \div 10, signon |-> Ceil(o.signon, 10), rsus |-> o.rsus ]

AuditPackage ==
  /\ rival # Nobody
  /\ verdict = "NONE"
  /\ \E band \in Bands : verdict' = OfferDecision(AsOffer(our), band)
  /\ UNCHANGED <<our, rival, rounds>>

\* The negotiation is over: nothing of it is kept.
Leave ==
  /\ rival # Nobody
  /\ our' = Nobody /\ rival' = Nobody
  /\ rounds' = 0
  /\ verdict' = "NONE"

DeskNext == Leave \/ NewCandidate \/ AdoptCounter \/ AuditPackage

DeskSpec == DeskInit /\ [][DeskNext]_deskVars

------------------------------------------------------------------------------
(* Properties.                                                             *)

\* Sign-on, shares and base are raised one without looking at the other
\* (negotiation_service.py:266-285), and yet simulating again after the counter was
\* adopted asks for nothing more: a recruiter who follows the advice is not led on.
CountersSettle == rounds > 0 => RecommendedCounter(our, rival) = our

\* An offer passes the agent without a VP only inside all caps: the band, $50000 of
\* sign-on, half more than the target grant, and 1.20 of the midpoint, which rounding
\* to thousandths (registry.py:112) raises by half of one at most.
ApprovedOfferWithinCaps ==
  [][ verdict' = "OFFER_APPROVED" /\ verdict = "NONE" =>
        LET o == AsOffer(our) IN
          /\ o.signon <= 500
          /\ \E band \in Bands :
               /\ o.base \in band.min .. band.max
               /\ 2000 * o.base < 2401 * band.mid
               /\ 2 * o.rsus <= 3 * band.rsus ]_deskVars
==============================================================================
