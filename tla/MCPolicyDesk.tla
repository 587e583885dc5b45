----------------------------- MODULE MCPolicyDesk -----------------------------
(* The in-memory engine and the negotiation desk, which share the policy and   *)
(* nothing else: one of the two is in use at a time.  Figures lie on and next  *)
(* to every limit of the default tables.                                       *)
EXTENDS WorkflowEngine, Negotiation

CONSTANTS r1

MCReview == {r1}

\* Current base at the midpoint, at the minimum, at nothing or below; proposed bases at
\* the limits of the band and of the velocity cap and one beyond; shares likewise.
BaseChoices(band, current) ==
  { band.min - 1, band.min, band.max, band.max + 1, current, current + 1,
    (current * 6) \div 5, (current * 6) \div 5 + 1 }

ShareChoices(band, rating) ==
  LET low == (band.rsus * EquityMultiplier[rating][1]) \div 100
      high == (band.rsus * EquityMultiplier[rating][2]) \div 100
  IN {low - 1, low, high, high + 1}

InputsAt(level, zone) ==
  LET band == DefaultSalaryBand(level, zone) IN
    UNION { { [ level |-> level, zone |-> zone, current |-> c, base |-> b,
                rsus |-> x, rating |-> g ] :
                b \in BaseChoices(band, c), x \in ShareChoices(band, g) } :
            c \in {band.mid, band.min, 0, -1}, g \in Rating }

MCInputs ==
  InputsAt(1, "US_ZONE_1") \cup InputsAt(4, "US_ZONE_2") \cup InputsAt(6, "US_ZONE_3")

Schedules == DOMAIN VestingSchedule

MCOurOffers ==
  [ base : {24000, 26200, 29000}, signon : {0, 4500}, rsus : {0, 900}, schedule : Schedules ]

MCRivals ==
  [ base : {0, 26200, 28700, 30000}, signon : {0, 3000}, rsus : {0, 1010, 4000},
    schedule : Schedules, forfeited : {0, 7000} ]

\* A default band, and one an administrator made wide.
MCBands == { DefaultSalaryBand(3, "US_ZONE_1"),
             [ min |-> 2000, mid |-> 2400, max |-> 3400, rsus |-> 900, bonus |-> 15 ] }

Init == EngineInit /\ DeskInit

Next ==
  \/ rival = Nobody /\ EngineNext /\ UNCHANGED deskVars
  \/ (\A r \in Review : ~ Registered(r)) /\ DeskNext /\ UNCHANGED engineVars

vars == <<engineVars, deskVars>>

Spec == Init /\ [][Next]_vars
==============================================================================
