----------------------------- MODULE PolicyProofs -----------------------------
(***************************************************************************)
(* Proofs about what the policy decides, where TLC tries the limits of a    *)
(* few bands: about WorkflowEngine, for any review ids and every amount;    *)
(* about Negotiation, for every offer, rival and band; and about            *)
(* CycleFigures, for every set of cycles and employees and every choice of  *)
(* proposals and bands.  The three share AuditPolicy and no state.          *)
(***************************************************************************)
EXTENDS WorkflowEngine, Negotiation, CycleFigures, FiniteSums

------------------------------------------------------------------------------
(* WorkflowEngine.                                                         *)

Verdicts == {"AUTO_APPROVED", "VP_EXCEPTION_REQUIRED", "REJECTED"}

\* A review's record: its verdict is the one its figures get, and its status follows
\* from the verdict and from whether a VP has approved.
Explained(p, r, approvals) ==
  p # NoProposal =>
    /\ p = [ status |-> p.status, figures |-> p.figures, audit |-> p.audit ]
    /\ p.figures \in Inputs
    /\ p.audit \in {"NONE", AuditVerdict(p.figures)}
    /\ \/ p.status = "DRAFT"
       \/ p.status \in Verdicts /\ p.audit = p.status
       \/ p.status = "VP_APPROVED" /\ p.audit = "VP_EXCEPTION_REQUIRED" /\ r \in approvals
       \/ p.status = "FINALIZED" /\ p.audit = "AUTO_APPROVED"
       \/ p.status = "FINALIZED" /\ p.audit = "VP_EXCEPTION_REQUIRED" /\ r \in approvals

EngineInv ==
  /\ proposals = [r \in Review |-> proposals[r]]
  /\ \A r \in Review : Explained(proposals[r], r, approvedByVP)

------------------------------------------------------------------------------
(* What a verdict says of the figures.                                     *)

\* The default bands are whole multiples of the published ones.
LEMMA BandExact ==
  ASSUME NEW level \in Level, NEW zone \in Zone
  PROVE  LET b == Zone1Benchmark[level]
             d == DefaultSalaryBand(level, zone)
         IN /\ 100 * d.min = b.min * GeoFactor[zone]
            /\ 100 * d.max = b.max * GeoFactor[zone]
            /\ d.rsus = b.rsus
            /\ b.rsus \in Nat
<1>1. ASSUME NEW money \in Nat, NEW g \in Nat, NEW n \in Nat, money * g = 100 * n
      PROVE  HalfUp(money * g, 100) = n
  BY <1>1 DEF HalfUp
<1>2. level \in {1, 2, 3, 4, 5, 6}
  BY DEF Level
<1>3. zone \in {"US_ZONE_1", "US_ZONE_2", "US_ZONE_3"}
  BY DEF Zone
<1>. QED
  BY <1>2, <1>3 DEF Zone1Benchmark, GeoFactor, DefaultSalaryBand, HalfUp

LEMMA BandLimits ==
  ASSUME NEW level \in Level, NEW zone \in Zone
  PROVE  /\ Zone1Benchmark[level].min * GeoFactor[zone] \in Nat
         /\ Zone1Benchmark[level].max * GeoFactor[zone] \in Nat
         /\ DefaultSalaryBand(level, zone).min \in Nat
         /\ DefaultSalaryBand(level, zone).max \in Nat
<1>1. level \in {1, 2, 3, 4, 5, 6}
  BY DEF Level
<1>2. zone \in {"US_ZONE_1", "US_ZONE_2", "US_ZONE_3"}
  BY DEF Zone
<1>. QED
  BY <1>1, <1>2 DEF Zone1Benchmark, GeoFactor, DefaultSalaryBand, HalfUp

LEMMA RangeOfRating ==
  ASSUME NEW rating \in Rating
  PROVE  EquityMultiplier[rating][1] \in Nat /\ EquityMultiplier[rating][2] \in Nat
BY DEF Rating, EquityMultiplier

\* registry.py:218: a range whose limits are truncated to whole units.
LEMMA Truncated ==
  ASSUME NEW low \in Nat, NEW high \in Nat, NEW rsus \in Int,
         rsus >= low \div 100, rsus <= high \div 100
  PROVE  low < 100 * (rsus + 1) /\ 100 * rsus <= high
OBVIOUS

LEMMA ApprovedFigures ==
  ASSUME NEW f \in Inputs, AuditVerdict(f) = "AUTO_APPROVED"
  PROVE  LET b == Zone1Benchmark[f.level]
             g == GeoFactor[f.zone]
             m == EquityMultiplier[f.rating]
         IN /\ 100 * f.base \in b.min * g .. b.max * g
            /\ f.current > 0 => 100 * f.base <= 120 * f.current
            /\ b.rsus * m[1] < 100 * (f.rsus + 1)
            /\ 100 * f.rsus <= b.rsus * m[2]
<1>. DEFINE band == DefaultSalaryBand(f.level, f.zone)
            p == AtFormula(f, band)
<1>1. /\ f.level \in Level /\ f.zone \in Zone /\ f.rating \in Rating
      /\ f.current \in Int /\ f.base \in Int /\ f.rsus \in Int
  BY InputsAssumption
<1>2. ReviewFindings(f.level, f.current, p, band) = {}
  BY DEF AuditVerdict, ReviewDecision
<1>3. p.base = f.base /\ p.rsus = f.rsus /\ p.rating = f.rating
  BY DEF AtFormula
<1>. HIDE DEF p, band
<1>4. /\ Failed("SALARY_BAND_COMPLIANCE", OutsideBand(p.base, band)) = {}
      /\ Failed("EQUITY_GUIDELINE_COMPLIANCE", EquityOffGuideline(p.rsus, band.rsus, p.rating)) = {}
      /\ Failed("INCREASE_VELOCITY", IncreaseTooFast(f.current, p.base, p.rating)) = {}
  BY <1>2, Zenon DEF ReviewFindings
<1>5. /\ ~ OutsideBand(f.base, band)
      /\ ~ EquityOffGuideline(f.rsus, band.rsus, f.rating)
      /\ ~ IncreaseTooFast(f.current, f.base, f.rating)
  BY <1>3, <1>4 DEF Failed
<1>6. /\ 100 * band.min = Zone1Benchmark[f.level].min * GeoFactor[f.zone]
      /\ 100 * band.max = Zone1Benchmark[f.level].max * GeoFactor[f.zone]
      /\ band.rsus = Zone1Benchmark[f.level].rsus
      /\ Zone1Benchmark[f.level].rsus \in Nat
  BY <1>1, BandExact DEF band
<1>7. f.current > 0 => 100 * f.base <= 120 * f.current
  BY <1>1, <1>5 DEF IncreaseTooFast
<1>8. 100 * f.base \in Zone1Benchmark[f.level].min * GeoFactor[f.zone] ..
                       Zone1Benchmark[f.level].max * GeoFactor[f.zone]
  BY <1>1, <1>5, <1>6, BandLimits DEF OutsideBand, band
<1>9. /\ Zone1Benchmark[f.level].rsus * EquityMultiplier[f.rating][1] < 100 * (f.rsus + 1)
      /\ 100 * f.rsus <= Zone1Benchmark[f.level].rsus * EquityMultiplier[f.rating][2]
  <2>. DEFINE low == Zone1Benchmark[f.level].rsus * EquityMultiplier[f.rating][1]
              high == Zone1Benchmark[f.level].rsus * EquityMultiplier[f.rating][2]
  <2>1. low \in Nat /\ high \in Nat
    BY <1>1, <1>6, RangeOfRating
  <2>2. ~ (f.rsus < low \div 100) /\ ~ (f.rsus > high \div 100)
    BY <1>5, <1>6 DEF EquityOffGuideline
  <2>. HIDE DEF low, high
  <2>3. f.rsus >= low \div 100 /\ f.rsus <= high \div 100
    BY <1>1, <2>1, <2>2
  <2>4. low < 100 * (f.rsus + 1) /\ 100 * f.rsus <= high
    BY <1>1, <2>1, <2>3, Truncated
  <2>. QED
    BY <2>4 DEF low, high
<1>. QED
  BY <1>7, <1>8, <1>9

------------------------------------------------------------------------------
(* Every step keeps the invariant.                                         *)

LEMMA VerdictOf == ASSUME NEW f PROVE AuditVerdict(f) \in Verdicts
BY DEF AuditVerdict, ReviewDecision, Verdicts

LEMMA RejectedRaise ==
  ASSUME NEW f \in Inputs, AuditVerdict(f) # "REJECTED", f.rating = "RATING_1"
  PROVE  f.base <= f.current
BY InputsAssumption DEF AuditVerdict, ReviewDecision, AtFormula

\* A proposal of one review replaced by another that explains its status.
LEMMA ReplaceKeeps ==
  ASSUME EngineInv, NEW r \in Review, NEW p, Explained(p, r, approvedByVP'),
         proposals' = [proposals EXCEPT ![r] = p],
         approvedByVP' \ {r} = approvedByVP \ {r}
  PROVE  EngineInv'
<1>1. /\ proposals' = [q \in Review |-> proposals'[q]]
      /\ proposals'[r] = p
      /\ \A q \in Review \ {r} : proposals'[q] = proposals[q]
  BY DEF EngineInv
<1>2. \A q \in Review \ {r} : q \in approvedByVP' <=> q \in approvedByVP
  OBVIOUS
<1>3. ASSUME NEW q \in Review \ {r}
      PROVE  Explained(proposals'[q], q, approvedByVP')
  BY <1>1, <1>2 DEF EngineInv, Explained
<1>. QED
  BY <1>1, <1>3 DEF EngineInv

LEMMA EngineInvInit == EngineInit => EngineInv
BY DEF EngineInit, EngineInv, Explained

LEMMA EngineInvStep == EngineInv /\ [EngineNext]_engineVars => EngineInv'
<1>. SUFFICES ASSUME EngineInv, [EngineNext]_engineVars PROVE EngineInv'
  OBVIOUS
<1>1. ASSUME NEW r \in Review, NEW input \in Inputs, RegisterNew(r, input)
      PROVE  EngineInv'
  <2>1. Explained(NewProposal(input), r, approvedByVP')
    BY DEF Explained, NewProposal
  <2>. QED
    BY <1>1, <2>1, ReplaceKeeps DEF RegisterNew
<1>2. ASSUME NEW r \in Review, RegisterAgain(r) PROVE EngineInv'
  <2>. DEFINE p == [proposals[r] EXCEPT !.status = "DRAFT"]
  <2>1. Explained(proposals[r], r, approvedByVP) /\ proposals[r] # NoProposal
    BY <1>2 DEF EngineInv, RegisterAgain, Registered
  <2>2. p = [ status |-> "DRAFT", figures |-> proposals[r].figures, audit |-> proposals[r].audit ]
    BY <2>1 DEF Explained
  <2>3. Explained(p, r, approvedByVP')
    BY <2>1, <2>2 DEF Explained
  <2>4. proposals' = [proposals EXCEPT ![r] = p]
    BY <1>2 DEF RegisterAgain
  <2>5. approvedByVP' = approvedByVP \ {r}
    BY <1>2 DEF RegisterAgain
  <2>. HIDE DEF p
  <2>. QED
    BY <2>3, <2>4, <2>5, ReplaceKeeps
<1>3. ASSUME NEW r \in Review, SubmitAndAudit(r) PROVE EngineInv'
  <2>. DEFINE f == proposals[r].figures
              p == [ status |-> AuditVerdict(f), figures |-> f, audit |-> AuditVerdict(f) ]
  <2>1. Explained(proposals[r], r, approvedByVP) /\ proposals[r] # NoProposal
    BY <1>3 DEF EngineInv, SubmitAndAudit, Registered
  <2>2. Explained(p, r, approvedByVP')
    BY <2>1, VerdictOf DEF Explained, Verdicts
  <2>3. proposals' = [proposals EXCEPT ![r] = p] /\ approvedByVP' = approvedByVP
    BY <1>3 DEF SubmitAndAudit
  <2>. HIDE DEF p
  <2>. QED
    BY <2>2, <2>3, ReplaceKeeps
<1>4. ASSUME NEW r \in Review, ApproveVPException(r) PROVE EngineInv'
  <2>. DEFINE p == [proposals[r] EXCEPT !.status = "VP_APPROVED"]
  <2>1. Explained(proposals[r], r, approvedByVP) /\ proposals[r] # NoProposal
    BY <1>4 DEF EngineInv, ApproveVPException, Registered
  <2>2. p = [ status |-> "VP_APPROVED", figures |-> proposals[r].figures, audit |-> proposals[r].audit ]
    BY <2>1 DEF Explained
  <2>3. proposals[r].status = "VP_EXCEPTION_REQUIRED"
    BY <1>4 DEF ApproveVPException, CanTransitionReview, ReviewTransitions
  <2>4. /\ proposals' = [proposals EXCEPT ![r] = p]
        /\ approvedByVP' = approvedByVP \cup {r}
    BY <1>4 DEF ApproveVPException
  <2>5. Explained(p, r, approvedByVP')
    BY <2>1, <2>2, <2>3, <2>4 DEF Explained, Verdicts
  <2>. HIDE DEF p
  <2>. QED
    BY <2>4, <2>5, ReplaceKeeps
<1>5. ASSUME NEW r \in Review, FinalizeReview(r) PROVE EngineInv'
  <2>. DEFINE p == [proposals[r] EXCEPT !.status = "FINALIZED"]
  <2>1. Explained(proposals[r], r, approvedByVP) /\ proposals[r] # NoProposal
    BY <1>5 DEF EngineInv, FinalizeReview, Registered
  <2>2. p = [ status |-> "FINALIZED", figures |-> proposals[r].figures, audit |-> proposals[r].audit ]
    BY <2>1 DEF Explained
  <2>3. proposals[r].status \in {"AUTO_APPROVED", "VP_APPROVED"}
    BY <1>5 DEF FinalizeReview, CanTransitionReview, ReviewTransitions
  <2>4. Explained(p, r, approvedByVP)
    BY <2>1, <2>2, <2>3 DEF Explained, Verdicts
  <2>5. proposals' = [proposals EXCEPT ![r] = p] /\ approvedByVP' = approvedByVP
    BY <1>5 DEF FinalizeReview
  <2>. HIDE DEF p
  <2>. QED
    BY <2>4, <2>5, ReplaceKeeps
<1>6. CASE UNCHANGED engineVars
  BY <1>6 DEF engineVars, EngineInv
<1>. QED
  BY <1>1, <1>2, <1>3, <1>4, <1>5, <1>6 DEF EngineNext

\* A review's verdict and approval explain its status, however often it is registered
\* again, audited and approved, for any reviews and any figures.
THEOREM VerdictsExplain == EngineSpec => []VerdictExplainsStatus
<1>1. EngineInv => VerdictExplainsStatus
  BY DEF EngineInv, Explained, VerdictExplainsStatus, Settled, Registered, Verdicts
<1>. QED
  BY <1>1, EngineInvInit, EngineInvStep, PTL DEF EngineSpec

\* What the engine finalizes without a VP is inside the published limits of all the
\* default bands, for every current and proposed base and grant, none of which anybody
\* checks before the agent; nobody of the lowest rating is raised.
THEOREM FinalizedAreWithinLimits == EngineSpec => []FinalizedWithinLimits
<1>1. ASSUME EngineInv PROVE FinalizedWithinLimits
  <2>. SUFFICES ASSUME NEW r \in Review, Registered(r), proposals[r].status = "FINALIZED"
                PROVE  LET f == proposals[r].figures
                           b == Zone1Benchmark[f.level]
                           g == GeoFactor[f.zone]
                           m == EquityMultiplier[f.rating]
                       IN /\ f.rating = "RATING_1" => f.base <= f.current
                          /\ r \notin approvedByVP =>
                               /\ 100 * f.base \in b.min * g .. b.max * g
                               /\ f.current > 0 => 100 * f.base <= 120 * f.current
                               /\ b.rsus * m[1] < 100 * (f.rsus + 1)
                               /\ 100 * f.rsus <= b.rsus * m[2]
    BY DEF FinalizedWithinLimits
  <2>. DEFINE f == proposals[r].figures
  <2>1. /\ f \in Inputs
        /\ AuditVerdict(f) \in {"AUTO_APPROVED", "VP_EXCEPTION_REQUIRED"}
        /\ r \notin approvedByVP => AuditVerdict(f) = "AUTO_APPROVED"
    <3>1. Explained(proposals[r], r, approvedByVP) /\ proposals[r] # NoProposal
      BY <1>1 DEF EngineInv, Registered
    <3>2. /\ f \in Inputs
          /\ proposals[r].audit \in {"NONE", AuditVerdict(f)}
          /\ \/ proposals[r].audit = "AUTO_APPROVED"
             \/ proposals[r].audit = "VP_EXCEPTION_REQUIRED" /\ r \in approvedByVP
      BY <3>1 DEF Explained, Verdicts
    <3>. QED
      BY <3>2
  <2>. HIDE DEF f
  <2>2. f.rating = "RATING_1" => f.base <= f.current
    BY <2>1, RejectedRaise
  <2>3. CASE r \in approvedByVP
    BY <2>2, <2>3 DEF f
  <2>4. CASE r \notin approvedByVP
    BY <2>1, <2>2, <2>4, ApprovedFigures DEF f
  <2>. QED
    BY <2>3, <2>4
<1>. QED
  BY <1>1, EngineInvInit, EngineInvStep, PTL DEF EngineSpec

------------------------------------------------------------------------------
(* The negotiation desk.                                                   *)

\* What vests over the years is the grant.
LEMMA VestingAddsUp ==
  ASSUME NEW s \in DOMAIN VestingSchedule
  PROVE  /\ VestingSchedule[s][1] \in 0 .. 100 /\ VestingSchedule[s][2] \in 0 .. 100
         /\ VestingSchedule[s][3] \in 0 .. 100 /\ VestingSchedule[s][4] \in 0 .. 100
         /\ VestingSchedule[s][1] + VestingSchedule[s][2] + VestingSchedule[s][3]
              + VestingSchedule[s][4] = 100
BY DEF VestingSchedule

\* A grant that grows by whole hundreds of units vests more, to the unit.
LEMMA MoreVests ==
  ASSUME NEW o \in Package, NEW p \in Package, NEW k \in Nat, NEW year \in 1 .. 4,
         p.schedule = o.schedule, p.rsus = o.rsus + 50 * k
  PROVE  /\ EquityValue(o, year) \in Nat
         /\ EquityValue(p, year) = EquityValue(o, year) + 5 * (k * VestingSchedule[o.schedule][year])
<1>1. PICK pct \in Nat : pct = VestingSchedule[o.schedule][year]
  BY VestingAddsUp DEF Package
<1>2. o.rsus \in Nat /\ p.rsus * SharePrice = o.rsus * SharePrice + 500 * k
  BY DEF Package, SharePrice
<1>3. PICK a \in Nat : a = o.rsus * SharePrice * pct
  <2>1. \A m, n \in Nat : m * n \in Nat
    OBVIOUS
  <2> QED BY <1>2, <2>1 DEF SharePrice
<1>4. PICK b \in Nat : b = k * pct
  <2>1. \A m, n \in Nat : m * n \in Nat
    OBVIOUS
  <2> QED BY <2>1
<1>5. p.rsus * SharePrice * pct = a + 500 * b
  <2>1. PICK x \in Nat : x = o.rsus * SharePrice
    BY <1>2 DEF SharePrice
  <2>2. (x + 500 * k) * pct = x * pct + 500 * (k * pct)
    OBVIOUS
  <2> QED BY <1>2, <1>3, <1>4, <2>1, <2>2
<1>6. (a + 500 * b) \div 100 = a \div 100 + 5 * b /\ a \div 100 \in Nat
  OBVIOUS
<1> QED BY <1>1, <1>3, <1>4, <1>5, <1>6 DEF EquityValue


\* What a year is worth, for any package.
LEMMA YearNat ==
  ASSUME NEW o, o.base \in Nat, o.signon \in Nat, o.rsus \in Nat,
         o.schedule \in DOMAIN VestingSchedule, NEW year \in 1 .. 4
  PROVE  AnnualCash(o) \in Nat /\ EquityValue(o, year) \in Nat /\ YearTDC(o, year) \in Nat
<1>1. AnnualCash(o) \in Nat
  BY DEF AnnualCash, BonusPct
<1>2. PICK pct \in Nat : pct = VestingSchedule[o.schedule][year]
  BY VestingAddsUp
<1>3. o.rsus * SharePrice * pct \in Nat
  <2>1. \A m, n \in Nat : m * n \in Nat
    OBVIOUS
  <2> QED BY <2>1 DEF SharePrice
<1>4. \A n \in Nat : n \div 100 \in Nat
  OBVIOUS
<1>5. EquityValue(o, year) \in Nat
  BY <1>2, <1>3, <1>4 DEF EquityValue
<1> QED BY <1>1, <1>5 DEF YearTDC

\* A package that raises base, sign-on and, by whole units, shares.
LEMMA Improved ==
  ASSUME NEW o \in Package, NEW p \in Package, NEW k \in Nat,
         p.base >= o.base, p.signon >= o.signon, p.rsus = o.rsus + 50 * k,
         p.schedule = o.schedule
  PROVE  /\ YearTDC(p, 1) >= YearTDC(o, 1) + (p.signon - o.signon)
         /\ FourYearTDC(p) >= FourYearTDC(o) + 500 * k
         /\ FourYearTDC(o) \in Nat /\ FourYearTDC(p) \in Nat
<1>1. AnnualCash(p) >= AnnualCash(o)
  BY DEF AnnualCash, BonusPct, Package
<1>2. /\ VestingSchedule[o.schedule][1] \in Nat /\ VestingSchedule[o.schedule][2] \in Nat
      /\ VestingSchedule[o.schedule][3] \in Nat /\ VestingSchedule[o.schedule][4] \in Nat
      /\ VestingSchedule[o.schedule][1] + VestingSchedule[o.schedule][2]
           + VestingSchedule[o.schedule][3] + VestingSchedule[o.schedule][4] = 100
  <2>1. o.schedule \in DOMAIN VestingSchedule
    BY DEF Package
  <2> QED BY <2>1, VestingAddsUp
<1>3. PICK v1 \in Nat : v1 = VestingSchedule[o.schedule][1]
  BY <1>2
<1>4. PICK v2 \in Nat : v2 = VestingSchedule[o.schedule][2]
  BY <1>2
<1>5. PICK v3 \in Nat : v3 = VestingSchedule[o.schedule][3]
  BY <1>2
<1>6. PICK v4 \in Nat : v4 = VestingSchedule[o.schedule][4]
  BY <1>2
<1>7. PICK e1 \in Nat, e2 \in Nat, e3 \in Nat, e4 \in Nat :
        /\ e1 = EquityValue(o, 1) /\ e2 = EquityValue(o, 2)
        /\ e3 = EquityValue(o, 3) /\ e4 = EquityValue(o, 4)
  <2>1. \A year \in 1 .. 4 : EquityValue(o, year) \in Nat
    BY YearNat DEF Package
  <2> QED BY <2>1
<1>8. /\ EquityValue(p, 1) = e1 + 5 * (k * v1) /\ EquityValue(p, 2) = e2 + 5 * (k * v2)
      /\ EquityValue(p, 3) = e3 + 5 * (k * v3) /\ EquityValue(p, 4) = e4 + 5 * (k * v4)
  BY <1>3, <1>4, <1>5, <1>6, <1>7, MoreVests
<1>9. k * v1 + k * v2 + k * v3 + k * v4 = 100 * k
  <2>1. \A a, b, c, d \in Nat : k * a + k * b + k * c + k * d = k * (a + b + c + d)
    OBVIOUS
  <2>2. v1 + v2 + v3 + v4 = 100
    BY <1>2, <1>3, <1>4, <1>5, <1>6
  <2>3. k * v1 + k * v2 + k * v3 + k * v4 = k * (v1 + v2 + v3 + v4)
    BY <2>1
  <2> QED BY <2>2, <2>3
<1>10. PICK m1 \in Nat, m2 \in Nat, m3 \in Nat, m4 \in Nat :
        m1 = k * v1 /\ m2 = k * v2 /\ m3 = k * v3 /\ m4 = k * v4
  <2>1. \A m, n \in Nat : m * n \in Nat
    OBVIOUS
  <2> QED BY <2>1
<1>11. PICK a \in Nat, b \in Nat : a = AnnualCash(o) /\ b = AnnualCash(p)
  BY YearNat DEF Package
<1>12. /\ YearTDC(o, 1) = a + e1 + o.signon /\ YearTDC(o, 2) = a + e2
       /\ YearTDC(o, 3) = a + e3 /\ YearTDC(o, 4) = a + e4
  BY <1>7, <1>11 DEF YearTDC
<1>13. /\ YearTDC(p, 1) = b + (e1 + 5 * m1) + p.signon /\ YearTDC(p, 2) = b + (e2 + 5 * m2)
       /\ YearTDC(p, 3) = b + (e3 + 5 * m3) /\ YearTDC(p, 4) = b + (e4 + 5 * m4)
  BY <1>8, <1>10, <1>11 DEF YearTDC
<1>14. o.signon \in Nat /\ p.signon \in Nat
  BY DEF Package
<1>15. m1 + m2 + m3 + m4 = 100 * k /\ b >= a
  BY <1>1, <1>9, <1>10, <1>11
<1> QED BY <1>12, <1>13, <1>14, <1>15 DEF FourYearTDC

\* The shares of the counter close the gap over four years.
LEMMA TopUpEnough ==
  ASSUME NEW gap \in Nat \ {0}
  PROVE  \E k \in Nat : /\ Ceil(Ceil(gap * 115, 100 * SharePrice), 50) = k
                        /\ 500 * k >= gap
<1>1. PICK n \in Nat : n = Ceil(gap * 115, 100 * SharePrice) /\ 1000 * n >= 115 * gap
  BY DEF Ceil, SharePrice
<1>2. PICK k \in Nat : k = Ceil(n, 50) /\ 50 * k >= n
  BY DEF Ceil
<1> QED BY <1>1, <1>2

\* The counter is a package, closes both gaps and leaves no base to match.
LEMMA CounterCloses ==
  ASSUME NEW o \in Package, NEW c \in RivalPackage, ~ HighlyCompetitive(o, c)
  PROVE  LET p == RecommendedCounter(o, c)
         IN /\ p \in Package
            /\ FirstYearGap(p, c) = 0 /\ FourYearGap(p, c) = 0
            /\ MatchedBase(p, c) = p.base
<1>1. PICK base \in Nat : base = MatchedBase(o, c)
  BY DEF MatchedBase, Package, RivalPackage
<1>2. base >= o.base /\ (c.base > base => ~ (c.base - base <= 2500))
  BY <1>1 DEF MatchedBase, Package, RivalPackage
<1>3. PICK y1 \in Nat, x1 \in Nat, x4 \in Nat, y4 \in Nat :
        /\ y1 = YearTDC(o, 1) /\ x1 = YearTDC(c, 1)
        /\ y4 = FourYearTDC(o) /\ x4 = FourYearTDC(c)
  <2>1. \A year \in 1 .. 4 : YearTDC(o, year) \in Nat
    BY YearNat DEF Package
  <2>2. \A year \in 1 .. 4 : YearTDC(c, year) \in Nat
    BY YearNat DEF RivalPackage
  <2>3. FourYearTDC(o) \in Nat /\ FourYearTDC(c) \in Nat
    BY <2>1, <2>2 DEF FourYearTDC
  <2> QED BY <2>1, <2>2, <2>3
<1>4. PICK signon \in Nat : /\ signon = BridgedSignOn(o, c)
                            /\ signon >= o.signon
                            /\ y1 + (signon - o.signon) >= x1
  BY <1>3 DEF BridgedSignOn, FirstYearGap, Larger, Package
<1>5. PICK k \in Nat : /\ TopUpShares(o, c) = o.rsus + 50 * k
                       /\ y4 + 500 * k >= x4
  <2>1. CASE FourYearGap(o, c) = 0
    <3>1. x4 <= y4
      BY <1>3, <2>1 DEF FourYearGap, Larger
    <3>2. PICK k \in Nat : k = 0
      OBVIOUS
    <3>3. o.rsus = o.rsus + 50 * k
      BY <3>2 DEF Package
    <3>4. y4 + 500 * k >= x4
      BY <3>1, <3>2
    <3> QED BY <2>1, <3>3, <3>4 DEF TopUpShares
  <2>2. CASE FourYearGap(o, c) # 0
    <3>1. FourYearGap(o, c) \in Nat \ {0} /\ y4 + FourYearGap(o, c) = x4
      BY <1>3, <2>2 DEF FourYearGap, Larger
    <3>2. PICK k \in Nat : /\ Ceil(Ceil(FourYearGap(o, c) * 115, 100 * SharePrice), 50) = k
                           /\ 500 * k >= FourYearGap(o, c)
      BY <3>1, TopUpEnough
    <3>3. y4 + 500 * k >= x4
      BY <3>1, <3>2
    <3> QED BY <2>2, <3>2, <3>3 DEF TopUpShares
  <2> QED BY <2>1, <2>2
<1>6. PICK rsus \in Nat : rsus = o.rsus + 50 * k
  BY DEF Package
<1>7. PICK p : p = RecommendedCounter(o, c)
  OBVIOUS
<1>8. TopUpShares(o, c) = rsus
  BY <1>5, <1>6
<1>9. /\ p \in Package
      /\ p.base = base /\ p.signon = signon /\ p.rsus = rsus /\ p.schedule = o.schedule
  <2>1. p = [ o EXCEPT !.base = base, !.signon = signon, !.rsus = rsus ]
    BY <1>1, <1>4, <1>7, <1>8 DEF RecommendedCounter
  <2> QED BY <2>1 DEF Package
<1>10. /\ YearTDC(p, 1) >= y1 + (signon - o.signon)
       /\ FourYearTDC(p) >= y4 + 500 * k
       /\ YearTDC(p, 1) \in Nat /\ FourYearTDC(p) \in Nat
  <2>1. p.base >= o.base /\ p.signon >= o.signon /\ p.rsus = o.rsus + 50 * k
    BY <1>2, <1>4, <1>6, <1>9
  <2>2. /\ YearTDC(p, 1) >= YearTDC(o, 1) + (p.signon - o.signon)
        /\ FourYearTDC(p) >= FourYearTDC(o) + 500 * k
        /\ FourYearTDC(p) \in Nat
    BY <1>9, <2>1, Improved
  <2>3. YearTDC(p, 1) \in Nat
    BY <1>9, YearNat DEF Package
  <2> QED BY <1>3, <1>9, <2>2, <2>3
<1>11. FirstYearGap(p, c) = 0 /\ FourYearGap(p, c) = 0
  <2>1. YearTDC(p, 1) >= x1 /\ FourYearTDC(p) >= x4
    <3>1. o.signon \in Nat
      BY DEF Package
    <3> QED BY <1>4, <1>5, <1>10, <3>1
  <2> QED BY <1>3, <1>10, <2>1 DEF FirstYearGap, FourYearGap, Larger
<1>12. MatchedBase(p, c) = p.base
  BY <1>2, <1>9 DEF MatchedBase
<1> QED BY <1>7, <1>9, <1>11, <1>12

\* To simulate again after the counter asks for nothing more.
LEMMA CounterSettles ==
  ASSUME NEW o \in Package, NEW c \in RivalPackage
  PROVE  /\ RecommendedCounter(o, c) \in Package
         /\ RecommendedCounter(RecommendedCounter(o, c), c) = RecommendedCounter(o, c)
<1>1. CASE HighlyCompetitive(o, c)
  BY <1>1 DEF RecommendedCounter
<1>2. CASE ~ HighlyCompetitive(o, c)
  <2>1. PICK p : p = RecommendedCounter(o, c)
    OBVIOUS
  <2>2. /\ p \in Package
        /\ FirstYearGap(p, c) = 0 /\ FourYearGap(p, c) = 0
        /\ MatchedBase(p, c) = p.base
    BY <1>2, <2>1, CounterCloses
  <2>3. BridgedSignOn(p, c) = p.signon /\ TopUpShares(p, c) = p.rsus
    BY <2>2 DEF BridgedSignOn, TopUpShares
  <2>4. p = [ base |-> p.base, signon |-> p.signon, rsus |-> p.rsus, schedule |-> p.schedule ]
    BY <2>2 DEF Package
  <2>5. [ p EXCEPT !.base = p.base, !.signon = p.signon, !.rsus = p.rsus ] = p
    BY <2>4
  <2>6. RecommendedCounter(p, c) = p
    BY <2>2, <2>3, <2>5 DEF RecommendedCounter
  <2> QED BY <2>1, <2>2, <2>6
<1> QED BY <1>1, <1>2

DeskInv ==
  /\ rival \in RivalPackage \cup {Nobody}
  /\ rival # Nobody => our \in Package
  /\ rival = Nobody => rounds = 0
  /\ rounds \in Nat
  /\ CountersSettle

LEMMA DeskInvInit == DeskInit => DeskInv
BY DEF DeskInit, DeskInv, CountersSettle

LEMMA DeskInvStep == DeskInv /\ [DeskNext]_deskVars => DeskInv'
<1> SUFFICES ASSUME DeskInv, [DeskNext]_deskVars PROVE DeskInv'
  OBVIOUS
<1>0. Nobody \notin RivalPackage
  <2> SUFFICES ASSUME Nobody \in RivalPackage PROVE FALSE
    OBVIOUS
  <2>1. "signon" \in DOMAIN Nobody
    BY DEF RivalPackage
  <2> QED BY <2>1 DEF Nobody
<1>1. CASE NewCandidate
  BY <1>0, <1>1, DeskAssumption DEF NewCandidate, DeskInv, CountersSettle
<1>2. CASE AdoptCounter
  <2>1. our \in Package /\ rival \in RivalPackage
    BY <1>2 DEF AdoptCounter, DeskInv
  <2>2. /\ RecommendedCounter(our, rival) \in Package
        /\ RecommendedCounter(RecommendedCounter(our, rival), rival) = RecommendedCounter(our, rival)
    BY <2>1, CounterSettles
  <2>3. CountersSettle'
    BY <1>2, <2>2 DEF AdoptCounter, CountersSettle
  <2> QED BY <1>2, <2>2, <2>3 DEF AdoptCounter, DeskInv
<1>3. CASE AuditPackage
  BY <1>3 DEF AuditPackage, DeskInv, CountersSettle
<1>4. CASE Leave
  BY <1>4 DEF Leave, DeskInv, CountersSettle
<1>5. CASE UNCHANGED deskVars
  BY <1>5 DEF deskVars, DeskInv, CountersSettle
<1> QED BY <1>1, <1>2, <1>3, <1>4, <1>5 DEF DeskNext

\* negotiation_service.py:239-300: for every package, rival and vesting schedule, a
\* counter that was adopted is the last one the simulator asks for.
THEOREM AdviceSettles == DeskSpec => []CountersSettle
<1>1. DeskInv => CountersSettle
  BY DEF DeskInv
<1> QED BY <1>1, DeskInvInit, DeskInvStep, PTL DEF DeskSpec


\* What rounding to a whole number hides: less than half of one.
LEMMA RoundedAtMost ==
  ASSUME NEW n \in Nat, NEW d \in Nat \ {0}, NEW k \in Nat, HalfUp(n, d) <= k
  PROVE  2 * n < (2 * k + 1) * d
<1>1. PICK m \in Nat : m = 2 * n + d
  OBVIOUS
<1>2. PICK e \in Nat \ {0} : e = 2 * d
  OBVIOUS
<1>3. m \div e <= k /\ m \div e \in Int
  BY <1>1, <1>2 DEF HalfUp
<1>4. m < e * (m \div e) + e
  BY <1>1, <1>2
<1>5. e * (m \div e) <= e * k
  BY <1>2, <1>3
<1>6. e * k = 2 * (d * k)
  BY <1>2
<1>7. d * k \in Nat /\ (2 * k + 1) * d = 2 * (d * k) + d
  OBVIOUS
<1>8. e * (m \div e) \in Int
  BY <1>2, <1>3
<1> QED BY <1>1, <1>2, <1>4, <1>5, <1>6, <1>7, <1>8

\* The agent's approval keeps an offer inside every cap (registry.py:345-440).
LEMMA ApprovedOffer ==
  ASSUME NEW o, o.base \in Nat, o.signon \in Int, o.rsus \in Nat, NEW band \in Bands,
         OfferDecision(o, band) = "OFFER_APPROVED"
  PROVE  /\ o.signon <= 500
         /\ o.base \in band.min .. band.max
         /\ 2000 * o.base < 2401 * band.mid
         /\ 2 * o.rsus <= 3 * band.rsus
<1>1. /\ ~ (CompaRatio(o.base, band.mid) > CompaCap)
      /\ OfferFindings(o, band) = {}
  BY DEF OfferDecision
<1>2. /\ band.min \in Nat /\ band.mid \in Nat \ {0} /\ band.max \in Nat /\ band.rsus \in Nat
  BY DeskAssumption
<1>3. /\ Failed("SALARY_BAND_COMPLIANCE", OutsideBand(o.base, band)) = {}
      /\ Failed("SIGN_ON_BONUS_CAP", o.signon > SignOnCap) = {}
      /\ Failed("NEW_HIRE_EQUITY_CAP", o.rsus > (band.rsus * 150) \div 100) = {}
  BY <1>1, Zenon DEF OfferFindings
<1>4. /\ ~ OutsideBand(o.base, band) /\ ~ (o.signon > SignOnCap)
      /\ ~ (o.rsus > (band.rsus * 150) \div 100)
  BY <1>3 DEF Failed
<1>5. o.base \in band.min .. band.max
  BY <1>2, <1>4 DEF OutsideBand
<1>6. 2 * o.rsus <= 3 * band.rsus
  BY <1>2, <1>4
<1>7. 2000 * o.base < 2401 * band.mid
  <2>1. PICK n \in Nat, mid \in Nat \ {0} : n = o.base * 1000 /\ mid = band.mid
    BY <1>2
  <2>2. HalfUp(n, mid) <= 1200
    <3>1. HalfUp(n, mid) \in Int
      BY <2>1 DEF HalfUp
    <3> QED BY <1>1, <2>1, <3>1 DEF CompaRatio, CompaCap
  <2>3. 2 * n < (2 * 1200 + 1) * mid
    BY <2>1, <2>2, RoundedAtMost
  <2> QED BY <2>1, <2>3
<1> QED BY <1>4, <1>5, <1>6, <1>7 DEF SignOnCap

\* orchestrator.py:155-200: for every package and every band, what the offer agent
\* passes without a VP is inside every cap, up to the rounding of the compa-ratio.
THEOREM ApprovalsWithinCaps == DeskSpec => ApprovedOfferWithinCaps
<1>1. ASSUME DeskInv, [DeskNext]_deskVars, verdict' = "OFFER_APPROVED", verdict = "NONE"
      PROVE  LET o == AsOffer(our) IN
               /\ o.signon <= 500
               /\ \E band \in Bands :
                    /\ o.base \in band.min .. band.max
                    /\ 2000 * o.base < 2401 * band.mid
                    /\ 2 * o.rsus <= 3 * band.rsus
  <2>1. AuditPackage
    BY <1>1 DEF DeskNext, Leave, NewCandidate, AdoptCounter, deskVars
  <2>2. PICK band \in Bands : OfferDecision(AsOffer(our), band) = "OFFER_APPROVED"
    BY <1>1, <2>1 DEF AuditPackage
  <2>3. our \in Package
    BY <1>1, <2>1 DEF AuditPackage, DeskInv
  <2>4. PICK o : o = AsOffer(our)
    OBVIOUS
  <2>5. o.base \in Nat /\ o.signon \in Int /\ o.rsus \in Nat
    BY <2>3, <2>4 DEF AsOffer, Package, Ceil
  <2>6. /\ o.signon <= 500
        /\ o.base \in band.min .. band.max
        /\ 2000 * o.base < 2401 * band.mid
        /\ 2 * o.rsus <= 3 * band.rsus
    BY <2>2, <2>4, <2>5, ApprovedOffer
  <2> QED BY <2>4, <2>6
<1>2. DeskInv /\ [DeskNext]_deskVars =>
        [ verdict' = "OFFER_APPROVED" /\ verdict = "NONE" =>
            LET o == AsOffer(our) IN
              /\ o.signon <= 500
              /\ \E band \in Bands :
                   /\ o.base \in band.min .. band.max
                   /\ 2000 * o.base < 2401 * band.mid
                   /\ 2 * o.rsus <= 3 * band.rsus ]_deskVars
  BY <1>1
<1> QED BY <1>2, DeskInvInit, DeskInvStep, PTL DEF DeskSpec, ApprovedOfferWithinCaps

------------------------------------------------------------------------------
(* CycleFigures: its invariant.                                            *)

\* An AUTO_APPROVED verdict on what the review keeps.
Justified(r) ==
  /\ r.seen.level \in Level
  /\ ReviewDecision(r.seen.level, r.current, r.figures, r.seen.band) = "AUTO_APPROVED"

ReviewOK(c, e, r) ==
  r # NoReview =>
    /\ r = [ status |-> r.status, figures |-> r.figures, current |-> r.current,
             compa |-> r.compa, seen |-> r.seen ]
    /\ r.figures \in Packages(c, e)
    /\ r.current \in Nat \ {0}
    /\ r.compa = CompaRatio(r.figures.base, r.seen.band.mid)
    /\ r.status = "AUTO_APPROVED" => Justified(r)

\* A cycle with its departments' merit budgets.
CycleOK(t) ==
  t # NoCycle =>
    t = [ status |-> t.status, merit |-> t.merit ] /\ t.merit \in [Department -> Nat]

EmployeesOK == employees \in [Employee -> [base : Nat \ {0}, level : Level]]

CyclesOK ==
  /\ cycles = [c \in Cycle |-> cycles[c]]
  /\ \A c \in Cycle : CycleOK(cycles[c])

ReviewsOK ==
  /\ reviews = [c \in Cycle |-> [e \in Employee |-> reviews[c][e]]]
  /\ \A c \in Cycle, e \in Employee : ReviewOK(c, e, reviews[c][e])

\* A review belongs to a cycle that has been created, and that is never undone.
ReviewsHaveCycle ==
  \A c \in Cycle, e \in Employee : reviews[c][e] # NoReview => cycles[c] # NoCycle

FInv == EmployeesOK /\ CyclesOK /\ ReviewsOK /\ ReviewsHaveCycle

------------------------------------------------------------------------------
\* What an approval by the agent alone says of the two bases (registry.py:256-293).
LEMMA ApprovedRaise ==
  ASSUME NEW lev, NEW current \in Nat \ {0}, NEW p, NEW band, p.base \in Nat,
         ReviewDecision(lev, current, p, band) = "AUTO_APPROVED"
  PROVE  /\ 5 * (p.base - current) <= current
         /\ p.rating = "RATING_1" => p.base <= current
<1>1. ReviewFindings(lev, current, p, band) = {}
  BY DEF ReviewDecision
<1>2. Failed("INCREASE_VELOCITY", IncreaseTooFast(current, p.base, p.rating)) = {}
  BY <1>1, Zenon DEF ReviewFindings
<1>3. ~ IncreaseTooFast(current, p.base, p.rating)
  BY <1>2 DEF Failed
<1> QED BY <1>3 DEF IncreaseTooFast

\* What it says of the two levels (registry.py:296-340).
LEMMA ApprovedStep ==
  ASSUME NEW lev \in Level, NEW current, NEW p, NEW band, p.level \in Level,
         ReviewDecision(lev, current, p, band) = "AUTO_APPROVED"
  PROVE  p.level - lev \in {0, 1}
<1>1. ReviewFindings(lev, current, p, band) = {}
  BY DEF ReviewDecision
<1>2. Failed("PROMOTION_COMPLIANCE",
             lev # p.level /\ PromotionRefused(lev, p.level, p.base, band)) = {}
  BY <1>1, Zenon DEF ReviewFindings
<1>3. ~ (lev # p.level /\ PromotionRefused(lev, p.level, p.base, band))
  BY <1>2 DEF Failed
<1> QED BY <1>3 DEF PromotionRefused, Level

------------------------------------------------------------------------------
LEMMA FInvInit == Init => FInv
<1> SUFFICES ASSUME Init PROVE FInv
  OBVIOUS
<1> USE DEF Init
<1>1. EmployeesOK
  <2> SUFFICES ASSUME NEW e \in Employee
               PROVE  Hired(e) \in [base : Nat \ {0}, level : Level]
    BY DEF EmployeesOK
  <2> QED BY FiguresAssumption
<1>2. CyclesOK
  BY DEF CyclesOK, CycleOK
<1>3. ReviewsOK
  BY DEF ReviewsOK, ReviewOK
<1>4. ReviewsHaveCycle
  BY DEF ReviewsHaveCycle
<1> QED BY <1>1, <1>2, <1>3, <1>4 DEF FInv

\* An operation on one review leaves every other as it is.
LEMMA ReviewUpdated ==
  ASSUME FInv, NEW c \in Cycle, NEW e \in Employee, NEW r, ReviewOK(c, e, r),
         reviews' = [reviews EXCEPT ![c][e] = r], UNCHANGED <<employees, cycles>>,
         cycles[c] # NoCycle
  PROVE  FInv'
<1>1. ASSUME NEW d \in Cycle, NEW f \in Employee
      PROVE  reviews'[d][f] = IF d = c /\ f = e THEN r ELSE reviews[d][f]
  BY DEF FInv, ReviewsOK
<1>2. ReviewsOK'
  <2>1. reviews' = [d \in Cycle |-> [f \in Employee |-> reviews'[d][f]]]
    BY DEF FInv, ReviewsOK
  <2>2. \A d \in Cycle, f \in Employee : ReviewOK(d, f, reviews'[d][f])
    BY <1>1 DEF FInv, ReviewsOK
  <2> QED BY <2>1, <2>2 DEF ReviewsOK
<1>3. ReviewsHaveCycle'
  BY <1>1 DEF FInv, ReviewsHaveCycle
<1>4. EmployeesOK' /\ CyclesOK'
  BY DEF FInv, EmployeesOK, CyclesOK
<1> QED BY <1>2, <1>3, <1>4 DEF FInv

\* The payroll of a department, for a table of employees.
PayrollOf(table, d) == LET base(e) == table[e].base IN MapThenSumSet(base, Staff(d))

LEMMA PayrollIsSum ==
  ASSUME NEW table, NEW d
  PROVE  /\ IsFiniteSet(Staff(d)) /\ Staff(d) \in SUBSET Employee
         /\ PayrollOf(table, d) = SumOf([e \in Staff(d) |-> table[e].base], Staff(d))
<1> DEFINE S == Staff(d)
           w == [e \in S |-> table[e].base]
           Loop(it) == it = [s \in SUBSET S |-> IF s = {} THEN 0
                                                ELSE table[Pick(s)].base + it[s \ {Pick(s)}]]
<1>1. IsFiniteSet(S) /\ S \in SUBSET Employee
  <2>1. S \in SUBSET Employee
    BY DEF Staff
  <2> QED BY <2>1, FS_Subset, FiguresAssumption
<1>2. PayrollOf(table, d) = (CHOOSE it : Loop(it))[S]
  BY DEF PayrollOf, MapThenSumSet, MapThenFoldSet, Pick
<1>3. (CHOOSE it : Loop(it)) = (CHOOSE it : Partial(w, S, it))
  <2>1. \A s \in SUBSET S : s # {} => w[Pick(s)] = table[Pick(s)].base
    BY DEF Pick
  <2> HIDE DEF w
  <2>2. \A it : Loop(it) <=> Partial(w, S, it)
    BY <2>1 DEF Partial
  <2> HIDE DEF Loop
  <2> QED BY <2>2
<1>4. SumOf(w, S) = (CHOOSE it : Partial(w, S, it))[S]
  BY SumIsPartial
<1> HIDE DEF w, S, Loop
<1>5. PayrollOf(table, d) = SumOf(w, S)
  BY <1>2, <1>3, <1>4
<1> QED BY <1>1, <1>5 DEF w, S

LEMMA PayrollNat ==
  ASSUME EmployeesOK, NEW d
  PROVE  Payroll(d) \in Nat
<1> DEFINE w == [e \in Staff(d) |-> employees[e].base]
<1>1. /\ IsFiniteSet(Staff(d)) /\ Staff(d) \in SUBSET Employee
      /\ PayrollOf(employees, d) = SumOf(w, Staff(d))
  BY PayrollIsSum
<1>2. Payroll(d) = PayrollOf(employees, d)
  BY DEF Payroll, PayrollOf
<1>3. \A e \in Staff(d) : w[e] \in Nat
  BY <1>1 DEF EmployeesOK
<1>4. SumOf(w, Staff(d)) \in Nat
  <2> HIDE DEF w
  <2> QED BY <1>1, <1>3, SumNat
<1> QED BY <1>1, <1>2, <1>4

LEMMA CreateKeeps ==
  ASSUME FInv, NEW c \in Cycle, CreateCycle(c)
  PROVE  FInv'
<1> DEFINE t == [ status |-> "ACTIVE",
                  merit |-> [d \in Department |-> HalfUp(MeritBudgetPct * Payroll(d), 100)] ]
<1>1. CycleOK(t) /\ t # NoCycle
  <2>1. ASSUME NEW d \in Department PROVE HalfUp(MeritBudgetPct * Payroll(d), 100) \in Nat
    <3>1. Payroll(d) \in Nat /\ MeritBudgetPct \in Nat
      BY PayrollNat, FiguresAssumption DEF FInv
    <3>2. \A m, n \in Nat : m * n \in Nat
      OBVIOUS
    <3>3. \A n \in Nat : HalfUp(n, 100) \in Nat
      BY DEF HalfUp
    <3> QED BY <3>1, <3>2, <3>3
  <2>2. PICK merit : merit = [d \in Department |-> HalfUp(MeritBudgetPct * Payroll(d), 100)]
    OBVIOUS
  <2>3. merit \in [Department -> Nat]
    BY <2>1, <2>2
  <2>4. t = [ status |-> "ACTIVE", merit |-> merit ]
    BY <2>2
  <2> HIDE DEF t
  <2> QED BY <2>3, <2>4 DEF CycleOK, NoCycle
<1>2. cycles' = [cycles EXCEPT ![c] = t] /\ UNCHANGED <<employees, reviews>>
  BY DEF CreateCycle
<1> HIDE DEF t
<1>3. CyclesOK'
  BY <1>1, <1>2 DEF FInv, CyclesOK
<1>4. ReviewsHaveCycle'
  BY <1>1, <1>2 DEF FInv, CyclesOK, ReviewsHaveCycle
<1>5. EmployeesOK' /\ ReviewsOK'
  BY <1>2 DEF FInv, EmployeesOK, ReviewsOK
<1> QED BY <1>3, <1>4, <1>5 DEF FInv

LEMMA AuditKeeps ==
  ASSUME FInv, NEW c \in Cycle, NEW e \in Employee, AuditProposal(c, e)
  PROVE  FInv'
<1> DEFINE q == reviews[c][e]
           p == q.figures
           r == [ status |-> Verdict(c, e), figures |-> p, current |-> q.current,
                  compa |-> CompaRatio(p.base, bands[p.level].mid),
                  seen |-> [ level |-> employees[e].level, band |-> bands[p.level] ] ]
<1>1. reviews' = [reviews EXCEPT ![c][e] = r] /\ UNCHANGED <<employees, cycles>>
  BY DEF AuditProposal
<1>2. /\ q = [ status |-> q.status, figures |-> p, current |-> q.current,
               compa |-> q.compa, seen |-> q.seen ]
      /\ p \in Packages(c, e)
      /\ q.current \in Nat \ {0}
      /\ cycles[c] # NoCycle
  BY DEF AuditProposal, Exists, FInv, ReviewsOK, ReviewOK, ReviewsHaveCycle
<1>3. employees[e].level \in Level
  BY DEF FInv, EmployeesOK
<1>4. ReviewOK(c, e, r)
  BY <1>2, <1>3 DEF ReviewOK, Justified, Verdict
<1> HIDE DEF r
<1> QED BY <1>1, <1>2, <1>4, ReviewUpdated

LEMMA FinalizeKeeps ==
  ASSUME FInv, NEW c \in Cycle, FinalizeCycle(c)
  PROVE  FInv'
<1>1. CyclesOK' /\ \A d \in Cycle : cycles[d] # NoCycle => cycles'[d] # NoCycle
  <2>1. cycles[c] # NoCycle
    BY DEF FinalizeCycle, NoCycle
  <2>2. PICK t : t = cycles[c]
    OBVIOUS
  <2>3. t = [ status |-> t.status, merit |-> t.merit ] /\ t.merit \in [Department -> Nat]
    BY <2>1, <2>2 DEF FInv, CyclesOK, CycleOK
  <2>4. PICK m : m = t.merit
    OBVIOUS
  <2>5. PICK u : u = [ status |-> "FINALIZED", merit |-> m ]
    OBVIOUS
  <2>6. [t EXCEPT !.status = "FINALIZED"] = u
    BY <2>3, <2>4, <2>5
  <2>7. CycleOK(u) /\ u # NoCycle
    BY <2>3, <2>4, <2>5 DEF CycleOK, NoCycle
  <2>8. cycles' = [cycles EXCEPT ![c] = u]
    BY <2>2, <2>6 DEF FinalizeCycle
  <2> QED BY <2>7, <2>8 DEF FInv, CyclesOK
<1>2. EmployeesOK'
  <2> SUFFICES ASSUME NEW e \in Approved(c)
               PROVE  [ base |-> reviews[c][e].figures.base, level |-> reviews[c][e].figures.level ]
                        \in [base : Nat \ {0}, level : Level]
    BY DEF FInv, FinalizeCycle, EmployeesOK
  <2>1. e \in Employee /\ reviews[c][e].figures \in Packages(c, e)
    BY DEF Approved, Proposals, Exists, FInv, ReviewsOK, ReviewOK
  <2> QED BY <2>1, FiguresAssumption
<1>3. reviews' = [d \in Cycle |-> [f \in Employee |-> reviews'[d][f]]]
  BY DEF FinalizeCycle, FInv, ReviewsOK
<1>4. ASSUME NEW d \in Cycle, NEW f \in Employee
      PROVE  /\ ReviewOK(d, f, reviews'[d][f])
             /\ reviews'[d][f] # NoReview => reviews[d][f] # NoReview
  <2>1. reviews'[d][f] = IF d = c /\ f \in Approved(c)
                         THEN [reviews[d][f] EXCEPT !.status = "FINALIZED"] ELSE reviews[d][f]
    BY DEF FinalizeCycle, FInv, ReviewsOK
  <2>2. ReviewOK(d, f, reviews[d][f])
    BY DEF FInv, ReviewsOK
  <2>3. CASE d = c /\ f \in Approved(c)
    <3>1. reviews[d][f] # NoReview
      BY <2>3 DEF Approved, Proposals, Exists
    <3> QED BY <2>1, <2>2, <2>3, <3>1 DEF ReviewOK
  <2> QED BY <2>1, <2>2, <2>3
<1>5. ReviewsOK'
  BY <1>3, <1>4 DEF ReviewsOK
<1>6. ReviewsHaveCycle'
  BY <1>1, <1>4 DEF FInv, ReviewsHaveCycle
<1> QED BY <1>1, <1>2, <1>5, <1>6 DEF FInv

LEMMA FInvNext == FInv /\ [Next]_vars => FInv'
<1> SUFFICES ASSUME FInv, [Next]_vars PROVE FInv'
  OBVIOUS
<1>1. ASSUME NEW c \in Cycle, CreateCycle(c) PROVE FInv'
  BY <1>1, CreateKeeps
<1>2. ASSUME NEW c \in Cycle, NEW e \in Employee, NEW p \in Packages(c, e), CreateProposal(c, e, p)
      PROVE  FInv'
  <2> DEFINE r == [ status |-> "DRAFT", figures |-> p, current |-> employees[e].base,
                    compa |-> CompaRatio(p.base, bands[p.level].mid),
                    seen |-> [ level |-> 0, band |-> bands[p.level] ] ]
  <2>1. employees[e].base \in Nat \ {0}
    BY DEF FInv, EmployeesOK
  <2>2. ReviewOK(c, e, r)
    BY <2>1 DEF ReviewOK
  <2>3. reviews' = [reviews EXCEPT ![c][e] = r] /\ UNCHANGED <<employees, cycles>>
    BY <1>2 DEF CreateProposal
  <2>4. cycles[c] # NoCycle
    BY <1>2 DEF CreateProposal, NoCycle
  <2> HIDE DEF r
  <2> QED BY <2>2, <2>3, <2>4, ReviewUpdated
<1>3. ASSUME NEW c \in Cycle, NEW e \in Employee, AuditProposal(c, e) PROVE FInv'
  BY <1>3, AuditKeeps
<1>4. ASSUME NEW c \in Cycle, NEW e \in Employee, ApproveException(c, e) PROVE FInv'
  <2> DEFINE q == reviews[c][e]
             r == [q EXCEPT !.status = "VP_APPROVED"]
  <2>1. reviews' = [reviews EXCEPT ![c][e] = r] /\ UNCHANGED <<employees, cycles>>
    BY <1>4 DEF ApproveException, FInv, ReviewsOK
  <2>2. q # NoReview /\ ReviewOK(c, e, q) /\ cycles[c] # NoCycle
    BY <1>4 DEF ApproveException, Exists, FInv, ReviewsOK, ReviewsHaveCycle
  <2>3. ReviewOK(c, e, r)
    BY <2>2 DEF ReviewOK
  <2> HIDE DEF r
  <2> QED BY <2>1, <2>2, <2>3, ReviewUpdated
<1>5. ASSUME NEW c \in Cycle, FinalizeCycle(c) PROVE FInv'
  BY <1>5, FinalizeKeeps
<1>6. ASSUME NEW level \in Level, NEW band \in BandChoices(level), UpsertBand(level, band)
      PROVE  FInv'
  BY <1>6 DEF UpsertBand, FInv, EmployeesOK, CyclesOK, ReviewsOK, ReviewsHaveCycle
<1>7. CASE UNCHANGED vars
  BY <1>7 DEF vars, FInv, EmployeesOK, CyclesOK, ReviewsOK, ReviewsHaveCycle
<1> QED BY <1>1, <1>2, <1>3, <1>4, <1>5, <1>6, <1>7 DEF Next

\* What an approval may later rest on is never lost (cycle_service.py:181-300).
THEOREM FiguresInvariant == Spec => []FInv
BY FInvInit, FInvNext, PTL DEF Spec

------------------------------------------------------------------------------
\* Only the finalization of its cycle pays for a proposal.
LEMMA PaysIsFinalize ==
  ASSUME FInv, [Next]_vars, NEW c \in Cycle, NEW e \in Employee, Pays(c, e)
  PROVE  FinalizeCycle(c)
<1> USE DEF Pays, FInv, CyclesOK
<1>1. ASSUME NEW d \in Cycle, CreateCycle(d) PROVE FALSE
  BY <1>1 DEF CreateCycle, NoCycle
<1>2. ASSUME NEW d \in Cycle, FinalizeCycle(d) PROVE d = c
  BY <1>2 DEF FinalizeCycle
<1>3. cycles' # cycles
  OBVIOUS
<1>4. PICK d \in Cycle : FinalizeCycle(d)
  BY <1>1, <1>3 DEF Next, vars, CreateProposal, AuditProposal, ApproveException, UpsertBand
<1> QED BY <1>2, <1>4

\* And it pays the proposal's figures.
LEMMA PaidByFinalize ==
  ASSUME FInv, [Next]_vars, NEW c \in Cycle, NEW e \in Employee, Pays(c, e)
  PROVE  /\ reviews[c][e].figures \in Packages(c, e)
         /\ reviews[c][e].current \in Nat \ {0}
         /\ reviews[c][e].status = "AUTO_APPROVED" => Justified(reviews[c][e])
         /\ employees'[e] = [ base |-> reviews[c][e].figures.base,
                              level |-> reviews[c][e].figures.level ]
         /\ employees[e].base \in Nat /\ employees[e].level \in Level
<1>1. FinalizeCycle(c)
  BY PaysIsFinalize
<1>2. reviews[c][e] # NoReview /\ ReviewOK(c, e, reviews[c][e])
  BY DEF Pays, Approved, Proposals, Exists, FInv, ReviewsOK
<1>3. employees'[e] = [ base |-> reviews[c][e].figures.base,
                        level |-> reviews[c][e].figures.level ]
  BY <1>1 DEF FinalizeCycle, Pays
<1>4. employees[e].base \in Nat /\ employees[e].level \in Level
  BY DEF FInv, EmployeesOK
<1> QED BY <1>2, <1>3, <1>4 DEF ReviewOK

\* registry.py:256-293 and cycle_service.py:181: whatever the cycles and the proposals,
\* what the agent alone approves raises nobody by more than a fifth of the base it
\* replaces, and the lowest rating not at all.
THEOREM RaisesCapped == Spec => AutoRaiseWithinCap
<1>1. ASSUME FInv, [Next]_vars, NEW c \in Cycle, NEW e \in Employee,
             Pays(c, e), reviews[c][e].status = "AUTO_APPROVED", NoCutSince(c, e)
      PROVE  /\ 5 * (employees'[e].base - employees[e].base) <= employees[e].base
             /\ reviews[c][e].figures.rating = "RATING_1" =>
                  employees'[e].base <= employees[e].base
  <2> DEFINE r == reviews[c][e]
  <2>1. /\ r.figures \in Packages(c, e)
        /\ r.current \in Nat \ {0}
        /\ r.status = "AUTO_APPROVED" => Justified(r)
        /\ employees'[e] = [ base |-> r.figures.base, level |-> r.figures.level ]
        /\ employees[e].base \in Nat /\ employees[e].level \in Level
    BY <1>1, PaidByFinalize, Zenon
  <2>2. r.figures.base \in Nat
    BY <2>1, FiguresAssumption
  <2>3. /\ 5 * (r.figures.base - r.current) <= r.current
        /\ r.figures.rating = "RATING_1" => r.figures.base <= r.current
    BY <1>1, <2>1, <2>2, ApprovedRaise DEF Justified
  <2>4. employees[e].base >= r.current
    BY <1>1 DEF NoCutSince
  <2> HIDE DEF r
  <2>5. 5 * (r.figures.base - employees[e].base) <= employees[e].base
    BY <2>1, <2>2, <2>3, <2>4
  <2>6. r.figures.rating = "RATING_1" => r.figures.base <= employees[e].base
    BY <2>1, <2>2, <2>3, <2>4
  <2> QED BY <2>1, <2>5, <2>6 DEF r
<1>2. FInv /\ [Next]_vars =>
        [ \A c \in Cycle, e \in Employee :
            Pays(c, e) /\ reviews[c][e].status = "AUTO_APPROVED" /\ NoCutSince(c, e) =>
              /\ 5 * (employees'[e].base - employees[e].base) <= employees[e].base
              /\ reviews[c][e].figures.rating = "RATING_1" =>
                   employees'[e].base <= employees[e].base ]_vars
  BY <1>1
<1> QED BY <1>2, FiguresInvariant, PTL DEF Spec, AutoRaiseWithinCap

\* registry.py:296-340 and cycle_service.py:233: without a VP a finalization moves
\* nobody down, or up by more than a level, from where the agent saw them.
THEOREM LadderKept == Spec => AutoKeepsLadder
<1>1. ASSUME FInv, [Next]_vars, NEW c \in Cycle, NEW e \in Employee,
             Pays(c, e), reviews[c][e].status = "AUTO_APPROVED",
             employees[e].level = reviews[c][e].seen.level
      PROVE  employees'[e].level - employees[e].level \in {0, 1}
  <2> DEFINE r == reviews[c][e]
  <2>1. /\ r.figures \in Packages(c, e)
        /\ r.current \in Nat \ {0}
        /\ r.status = "AUTO_APPROVED" => Justified(r)
        /\ employees'[e] = [ base |-> r.figures.base, level |-> r.figures.level ]
        /\ employees[e].base \in Nat /\ employees[e].level \in Level
    BY <1>1, PaidByFinalize, Zenon
  <2>2. r.figures.level \in Level
    BY <2>1, FiguresAssumption
  <2>3. r.figures.level - r.seen.level \in {0, 1}
    BY <1>1, <2>1, <2>2, ApprovedStep DEF Justified
  <2> QED BY <1>1, <2>1, <2>3
<1>2. FInv /\ [Next]_vars =>
        [ \A c \in Cycle, e \in Employee :
            /\ Pays(c, e) /\ reviews[c][e].status = "AUTO_APPROVED"
            /\ employees[e].level = reviews[c][e].seen.level
            => employees'[e].level - employees[e].level \in {0, 1} ]_vars
  BY <1>1
<1> QED BY <1>2, FiguresInvariant, PTL DEF Spec, AutoKeepsLadder

------------------------------------------------------------------------------
(* What the reports add up.                                                *)

\* The figures of a cycle's proposals that have not been rejected.
Kept(c) == { e \in Proposals(c) : reviews[c][e].status # "REJECTED" }

\* What a proposal costs, by field of the rollup.
Cost(c, e, field) ==
  CASE field = "merit" -> Increase(c, e)
    [] field = "bonus" -> reviews[c][e].figures.bonus
    [] field = "rsus" -> reviews[c][e].figures.rsus

Field == {"merit", "bonus", "rsus"}

LEMMA CostNat ==
  ASSUME ReviewsOK, NEW c \in Cycle, NEW e \in Proposals(c), NEW field \in Field
  PROVE  Cost(c, e, field) \in Nat
<1>1. /\ reviews[c][e].figures \in Packages(c, e)
      /\ reviews[c][e].current \in Nat
      /\ e \in Employee
  BY DEF ReviewsOK, ReviewOK, Proposals, Exists
<1>2. /\ reviews[c][e].figures.base \in Nat
      /\ reviews[c][e].figures.bonus \in Nat
      /\ reviews[c][e].figures.rsus \in Nat
  BY <1>1, FiguresAssumption
<1>3. Increase(c, e) \in Nat
  BY <1>1, <1>2 DEF Increase
<1> QED BY <1>2, <1>3 DEF Cost, Field

\* Each field of a report is the sum of what the proposals cost in it.
LEMMA SpendIsSum ==
  ASSUME NEW c, NEW S, NEW T \in SUBSET S, NEW field \in Field
  PROVE  Spend(c, T)[field] = SumOf([e \in S |-> Cost(c, e, field)], T)
<1> DEFINE w == [e \in S |-> Cost(c, e, field)]
<1>1. \A s \in SUBSET T : s # {} => w[Pick(s)] = Cost(c, Pick(s), field)
  BY DEF Pick
<1>2. SumOf(w, T) = (CHOOSE it : Partial(w, T, it))[T]
  BY SumIsPartial
<1>3. CASE field = "merit"
  <2> DEFINE Loop(it) == it = [s \in SUBSET T |->
               IF s = {} THEN 0 ELSE Increase(c, Pick(s)) + it[s \ {Pick(s)}]]
  <2>1. Spend(c, T)[field] = (CHOOSE it : Loop(it))[T]
    BY <1>3 DEF Spend, MapThenSumSet, MapThenFoldSet, Pick
  <2>2. \A s \in SUBSET T : s # {} => w[Pick(s)] = Increase(c, Pick(s))
    BY <1>1, <1>3 DEF Cost
  <2> HIDE DEF w
  <2>3. \A it : Loop(it) <=> Partial(w, T, it)
    BY <2>2 DEF Partial
  <2> HIDE DEF Loop
  <2>4. (CHOOSE it : Loop(it)) = (CHOOSE it : Partial(w, T, it))
    BY <2>3
  <2> QED BY <1>2, <2>1, <2>4 DEF w
<1>4. CASE field = "bonus"
  <2> DEFINE Loop(it) == it = [s \in SUBSET T |->
               IF s = {} THEN 0 ELSE reviews[c][Pick(s)].figures.bonus + it[s \ {Pick(s)}]]
  <2>1. Spend(c, T)[field] = (CHOOSE it : Loop(it))[T]
    BY <1>4 DEF Spend, MapThenSumSet, MapThenFoldSet, Pick
  <2>2. \A s \in SUBSET T : s # {} => w[Pick(s)] = reviews[c][Pick(s)].figures.bonus
    BY <1>1, <1>4 DEF Cost
  <2> HIDE DEF w
  <2>3. \A it : Loop(it) <=> Partial(w, T, it)
    BY <2>2 DEF Partial
  <2> HIDE DEF Loop
  <2>4. (CHOOSE it : Loop(it)) = (CHOOSE it : Partial(w, T, it))
    BY <2>3
  <2> QED BY <1>2, <2>1, <2>4 DEF w
<1>5. CASE field = "rsus"
  <2> DEFINE Loop(it) == it = [s \in SUBSET T |->
               IF s = {} THEN 0 ELSE reviews[c][Pick(s)].figures.rsus + it[s \ {Pick(s)}]]
  <2>1. Spend(c, T)[field] = (CHOOSE it : Loop(it))[T]
    BY <1>5 DEF Spend, MapThenSumSet, MapThenFoldSet, Pick
  <2>2. \A s \in SUBSET T : s # {} => w[Pick(s)] = reviews[c][Pick(s)].figures.rsus
    BY <1>1, <1>5 DEF Cost
  <2> HIDE DEF w
  <2>3. \A it : Loop(it) <=> Partial(w, T, it)
    BY <2>2 DEF Partial
  <2> HIDE DEF Loop
  <2>4. (CHOOSE it : Loop(it)) = (CHOOSE it : Partial(w, T, it))
    BY <2>3
  <2> QED BY <1>2, <2>1, <2>4 DEF w
<1> QED BY <1>3, <1>4, <1>5 DEF Field

\* analytics_service.py:80 counts what the departments' rollups count (cycle_service.py:495),
\* each proposal once.
LEMMA ReportsAddUp == FInv => RollupsAddUp
<1> SUFFICES ASSUME FInv, NEW c \in Cycle, NEW field \in Field
             PROVE  LET depleted(d) == Rollup(c, d)[field]
                    IN MapThenSumSet(depleted, Department) = Analytics(c)[field]
  BY DEF RollupsAddUp, Field
<1> DEFINE S == Kept(c)
           w == [e \in S |-> Cost(c, e, field)]
           class == [e \in S |-> DepartmentOf(e)]
           Part(d) == { e \in S : class[e] = d }
           v == [d \in Department |-> SumOf(w, Part(d))]
           Loop(it) == it = [s \in SUBSET Department |->
               IF s = {} THEN 0 ELSE Rollup(c, Pick(s))[field] + it[s \ {Pick(s)}]]
<1>1. IsFiniteSet(S) /\ S \subseteq Proposals(c) /\ S \subseteq Employee
  <2>1. S \in SUBSET Employee /\ S \subseteq Proposals(c)
    BY DEF Kept, Proposals
  <2> QED BY <2>1, FS_Subset, FiguresAssumption
<1>2. \A e \in S : w[e] \in Int /\ class[e] \in Department
  <2>1. \A e \in S : Cost(c, e, field) \in Nat
    BY <1>1, CostNat DEF FInv
  <2>2. \A e \in S : DepartmentOf(e) \in Department
    BY <1>1, FiguresAssumption
  <2> HIDE DEF S
  <2> QED BY <2>1, <2>2
<1>3. ASSUME NEW d \in Department PROVE Rollup(c, d)[field] = v[d]
  <2>1. Counted(c, d) = Part(d)
    BY DEF Counted, Kept, Proposals, Staff
  <2>2. Part(d) \in SUBSET S
    OBVIOUS
  <2>3. Spend(c, Part(d))[field] = SumOf(w, Part(d))
    <3> HIDE DEF Part, S
    <3> QED BY <2>2, SpendIsSum DEF w
  <2> HIDE DEF Part, S, w
  <2> QED BY <2>1, <2>3 DEF Rollup
<1>4. SumOf(v, Department) = SumOf(w, S)
  <2> HIDE DEF w, class, S
  <2> QED BY <1>1, <1>2, SumByClass, FiguresAssumption
<1>5. Analytics(c)[field] = SumOf(w, S)
  <2>1. Analytics(c) = Spend(c, S)
    BY DEF Analytics, Kept
  <2>2. S \in SUBSET S
    OBVIOUS
  <2>3. Spend(c, S)[field] = SumOf(w, S)
    <3> HIDE DEF S
    <3> QED BY <2>2, SpendIsSum DEF w
  <2> HIDE DEF S, w
  <2> QED BY <2>1, <2>3
<1>6. (LET depleted(d) == Rollup(c, d)[field] IN MapThenSumSet(depleted, Department))
        = (CHOOSE it : Loop(it))[Department]
  BY DEF MapThenSumSet, MapThenFoldSet, Pick
<1>7. (CHOOSE it : Loop(it)) = (CHOOSE it : Partial(v, Department, it))
  <2>1. \A s \in SUBSET Department : s # {} => Rollup(c, Pick(s))[field] = v[Pick(s)]
    BY <1>3 DEF Pick
  <2> HIDE DEF v
  <2>2. \A it : Loop(it) <=> Partial(v, Department, it)
    BY <2>1 DEF Partial
  <2> HIDE DEF Loop
  <2> QED BY <2>2
<1>8. SumOf(v, Department) = (CHOOSE it : Partial(v, Department, it))[Department]
  BY SumIsPartial
<1> HIDE DEF v, w, S, Loop
<1> QED BY <1>4, <1>5, <1>6, <1>7, <1>8


\* cycle_service.py:495 and analytics_service.py:80: whatever the departments, the cycles
\* and the proposals, the rollups of a cycle add up to its analytics.
THEOREM RollupsMatchAnalytics == Spec => []RollupsAddUp
BY FiguresInvariant, ReportsAddUp, PTL

LEMMA TriageAgrees == FInv => TriageAgreesWithAudit
<1> SUFFICES ASSUME FInv, NEW c \in Cycle, NEW e \in Employee, Exists(c, e),
                    reviews[c][e].seen.band = bands[reviews[c][e].figures.level]
             PROVE  /\ reviews[c][e].status = "AUTO_APPROVED" =>
                         RootCause(c, e) = "HEALTHY_AUTO_APPROVED"
                    /\ CompaBucket(reviews[c][e].compa) =
                         CompaBucket(CompaRatio(reviews[c][e].figures.base,
                                                bands[reviews[c][e].figures.level].mid))
  BY DEF TriageAgreesWithAudit
<1> DEFINE r == reviews[c][e]
           band == bands[r.figures.level]
<1>1. /\ r.compa = CompaRatio(r.figures.base, r.seen.band.mid)
      /\ r.status = "AUTO_APPROVED" => Justified(r)
      /\ cycles[c] # NoCycle
  BY DEF Exists, FInv, ReviewsOK, ReviewOK, ReviewsHaveCycle
<1>2. ASSUME r.status = "AUTO_APPROVED" PROVE RootCause(c, e) = "HEALTHY_AUTO_APPROVED"
  <2>1. ~ OutsideBand(r.figures.base, band)
    <3>1. ReviewFindings(r.seen.level, r.current, r.figures, band) = {}
      BY <1>1, <1>2 DEF Justified, ReviewDecision
    <3>2. Failed("SALARY_BAND_COMPLIANCE", OutsideBand(r.figures.base, band)) = {}
      BY <3>1, Zenon DEF ReviewFindings
    <3> QED BY <3>2 DEF Failed
  <2>2. ~ (cycles[c].merit[DepartmentOf(e)] - DepletedColumn(c, DepartmentOf(e)) < 0)
    <3>1. cycles[c].merit[DepartmentOf(e)] \in Nat
      BY <1>1, FiguresAssumption DEF FInv, CyclesOK, CycleOK
    <3> QED BY <3>1 DEF DepletedColumn
  <2> QED BY <1>2, <2>1, <2>2 DEF RootCause, OutsideBand
<1> QED BY <1>1, <1>2

\* tse_triage.py:194-230 and registry.py:31-60: a triage faults no review the agent
\* approved, and places it as the analytics do, for as long as the band it was shown
\* stands, whatever was raised, finalized or budgeted since.
THEOREM TriageMatchesAudit == Spec => []TriageAgreesWithAudit
BY FiguresInvariant, TriageAgrees, PTL

------------------------------------------------------------------------------
\* The growth of a department's payroll, employee by employee.
LEMMA GrowthAnnounced ==
  ASSUME FInv, [Next]_vars, NEW c \in Cycle, NEW d \in Department, NEW f \in Staff(d),
         Pays(c, f), \A e \in Staff(d) : Pays(c, e) => NoCutSince(c, e)
  PROVE  Payroll(d)' - Payroll(d) <= Rollup(c, d).merit
<1>1. PICK S : S = Staff(d)
  OBVIOUS
<1>2. IsFiniteSet(S) /\ S \in SUBSET Employee
  BY <1>1, PayrollIsSum
<1>3. FinalizeCycle(c)
  BY <1>1, <1>2, PaysIsFinalize
<1>4. PICK before : before = [e \in S |-> employees[e].base]
  OBVIOUS
<1>5. PICK after : after = [e \in S |-> employees'[e].base]
  OBVIOUS
<1>6. PICK R : R = Counted(c, d)
  OBVIOUS
<1>7. R \in SUBSET S /\ \A e \in R : e \in Proposals(c)
  BY <1>1, <1>2, <1>6 DEF Counted, Proposals
<1>8. PICK rise : rise = [e \in S |-> IF e \in R THEN Increase(c, e) ELSE 0]
  OBVIOUS
<1>9. \A e \in R : Increase(c, e) \in Nat
  <2>1. \A e \in R : Cost(c, e, "merit") \in Nat
    BY <1>7, CostNat DEF FInv, Field
  <2> QED BY <2>1 DEF Cost
<1>10. \A e \in S : before[e] \in Int /\ after[e] \in Int /\ rise[e] \in Int
  <2>1. EmployeesOK'
    BY FInvNext DEF FInv
  <2>2. \A e \in S : employees[e].base \in Int /\ employees'[e].base \in Int
    BY <1>2, <2>1 DEF FInv, EmployeesOK
  <2> QED BY <1>4, <1>5, <1>8, <1>9, <2>2
<1>11. ASSUME NEW e \in S
       PROVE  after[e] <= before[e] + (IF e \in R THEN rise[e] ELSE 0)
  <2>1. CASE e \in Approved(c)
    <3>1. /\ e \in R
          /\ employees'[e].base = reviews[c][e].figures.base
      BY <1>1, <1>2, <1>3, <1>6, <2>1 DEF Approved, Proposals, Counted, FinalizeCycle
    <3>2. reviews[c][e].current <= employees[e].base
      <4>1. Pays(c, e)
        BY <2>1 DEF Pays
      <4>2. NoCutSince(c, e)
        BY <1>1, <4>1
      <4> QED BY <4>2 DEF NoCutSince
    <3>3. /\ reviews[c][e].current \in Nat
          /\ reviews[c][e].figures \in Packages(c, e)
      BY <1>2, <2>1 DEF Approved, Proposals, Exists, FInv, ReviewsOK, ReviewOK
    <3>4. reviews[c][e].figures.base \in Nat
      BY <1>2, <3>3, FiguresAssumption
    <3>5. reviews[c][e].figures.base - reviews[c][e].current <= Increase(c, e)
      BY <3>3, <3>4 DEF Increase
    <3>6. rise[e] = Increase(c, e) /\ Increase(c, e) \in Nat
      BY <1>8, <1>9, <3>1
    <3>7. after[e] = reviews[c][e].figures.base /\ before[e] = employees[e].base
      BY <1>4, <1>5, <3>1
    <3>8. before[e] \in Int
      BY <1>10
    <3> QED BY <3>1, <3>2, <3>3, <3>4, <3>5, <3>6, <3>7, <3>8
  <2>2. CASE e \notin Approved(c)
    <3>1. employees'[e] = employees[e]
      BY <1>2, <1>3, <2>2 DEF FinalizeCycle
    <3>2. after[e] = before[e]
      BY <1>4, <1>5, <3>1
    <3>3. (IF e \in R THEN rise[e] ELSE 0) \in Nat
      BY <1>8, <1>9
    <3> QED BY <1>10, <3>2, <3>3
  <2> QED BY <2>1, <2>2
<1>12. SumOf(after, S) <= SumOf(before, S) + SumOf(rise, R)
  BY <1>2, <1>7, <1>10, <1>11, SumGrowth
<1>13. Payroll(d) = SumOf(before, S)
  <2>1. Payroll(d) = PayrollOf(employees, d)
    BY DEF Payroll, PayrollOf
  <2> QED BY <1>1, <1>4, <2>1, PayrollIsSum
<1>14. Payroll(d)' = SumOf(after, S)
  <2>1. PICK table : table = employees'
    OBVIOUS
  <2>2. Payroll(d)' = PayrollOf(table, d)
    BY <2>1 DEF Payroll, PayrollOf, MapThenSumSet, MapThenFoldSet, Staff
  <2>3. PayrollOf(table, d) = SumOf([e \in S |-> table[e].base], S)
    BY <1>1, PayrollIsSum
  <2> QED BY <1>5, <2>1, <2>2, <2>3
<1>15. Rollup(c, d).merit = SumOf(rise, R)
  <2>1. PICK w : w = [e \in R |-> Cost(c, e, "merit")]
    OBVIOUS
  <2>2. Spend(c, R)["merit"] = SumOf(w, R)
    BY <2>1, SpendIsSum DEF Field
  <2>3. IsFiniteSet(R)
    BY <1>2, <1>7, FS_Subset
  <2>4. \A e \in R : w[e] \in Int /\ rise[e] = w[e]
    BY <1>7, <1>8, <1>9, <2>1 DEF Cost
  <2>5. SumOf(w, R) = SumOf(rise, R)
    BY <2>3, <2>4, SumEqual
  <2> QED BY <1>6, <2>2, <2>5 DEF Rollup
<1>16. /\ SumOf(after, S) \in Int /\ SumOf(before, S) \in Int /\ SumOf(rise, R) \in Int
  <2>1. IsFiniteSet(R) /\ \A e \in R : rise[e] \in Int
    BY <1>2, <1>7, <1>10, FS_Subset
  <2> QED BY <1>2, <1>10, <2>1, SumInt
<1> QED BY <1>12, <1>13, <1>14, <1>15, <1>16

\* cycle_service.py:181-320 and :495: whatever the staff and the proposals, a finalization
\* adds no more to a department's payroll than the rollup had announced in raises, unless
\* another cycle cut the pay of somebody it raises.
THEOREM GrowthWasAnnounced == Spec => PayrollGrowthAnnounced
<1>1. FInv /\ [Next]_vars =>
        [ \A c \in Cycle, d \in Department :
            (\E e \in Staff(d) : Pays(c, e)) /\ (\A e \in Staff(d) : Pays(c, e) => NoCutSince(c, e))
            => Payroll(d)' - Payroll(d) <= Rollup(c, d).merit ]_vars
  BY GrowthAnnounced
<1> QED BY <1>1, FiguresInvariant, PTL DEF Spec, PayrollGrowthAnnounced
==============================================================================
