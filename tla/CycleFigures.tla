------------------------------ MODULE CycleFigures ------------------------------
(***************************************************************************)
(* The figures of a planning cycle: what cycle_service.py computes and     *)
(* stores, what finalization pays, and what the reports say of it, namely  *)
(* the budget rollup (cycle_service.py), the cycle analytics                *)
(* (analytics_service.py) and the incident triage (tse_triage.py).          *)
(* Requests are taken one at a time: PlanningCycle has their interleavings, *)
(* and leaves the amounts out.  Money is in units of $100.                  *)
(***************************************************************************)
EXTENDS AuditPolicy, StateMachines, FiniteSetsExt

CONSTANTS
  Cycle, Employee, Department,
  DepartmentOf(_),     \* per employee
  Hired(_),            \* per employee, base and level before the first cycle
  Packages(_, _),      \* per cycle and employee, what managers may propose
  BandChoices(_),      \* per level, the bands administrators may set
  MeritBudgetPct       \* global_merit_budget_pct

\* A company is finite and everybody is in a department.  A base is positive, bonus and
\* equity are not negative (domain/models.py: gt=0, ge=0), and a level and a rating are
\* of theirs; the budget percentage is one from 0 to 20.
ASSUME FiguresAssumption ==
  /\ IsFiniteSet(Employee) /\ IsFiniteSet(Department)
  /\ MeritBudgetPct \in 0 .. 20
  /\ \A e \in Employee :
       DepartmentOf(e) \in Department /\ Hired(e) \in [base : Nat \ {0}, level : Level]
  /\ \A c \in Cycle, e \in Employee : \A p \in Packages(c, e) :
       /\ p.base \in Nat \ {0} /\ p.bonus \in Nat /\ p.rsus \in Nat
       /\ p.level \in Level /\ p.rating \in Rating

VARIABLES
  employees,   \* current_base and job_level
  cycles,      \* status, and the merit budget allocated to each department
  reviews,     \* per cycle and employee: figures, current_base, status
  bands        \* salary_bands in the one family and zone, by level

vars == <<employees, cycles, reviews, bands>>

NoCycle == [ status |-> "NONE" ]
NoReview == [ status |-> "NONE" ]

Exists(c, e) == reviews[c][e] # NoReview

Proposals(c) == { e \in Employee : Exists(c, e) }

Staff(d) == { e \in Employee : DepartmentOf(e) = d }

Init ==
  /\ employees = [e \in Employee |-> Hired(e)]
  /\ cycles = [c \in Cycle |-> NoCycle]
  /\ reviews = [c \in Cycle |-> [e \in Employee |-> NoReview]]
  /\ bands = [l \in Level |-> DefaultSalaryBand(l, "US_ZONE_1")]

------------------------------------------------------------------------------
(* Operations.                                                             *)

\* base_payroll of a department.
Payroll(d) ==
  LET base(e) == employees[e].base IN MapThenSumSet(base, Staff(d))

\* create_cycle: a department's merit budget is a share of its payroll of today.
CreateCycle(c) ==
  /\ cycles[c] = NoCycle
  /\ cycles' = [cycles EXCEPT ![c] =
       [ status |-> "ACTIVE",
         merit |-> [d \in Department |-> HalfUp(MeritBudgetPct * Payroll(d), 100)] ]]
  /\ UNCHANGED <<employees, reviews, bands>>

\* create_proposal: the current base is copied into the proposal, and stays there.
CreateProposal(c, e, p) ==
  /\ cycles[c].status = "ACTIVE"
  /\ ~ Exists(c, e)
  /\ reviews' = [reviews EXCEPT ![c][e] =
       [ status |-> "DRAFT", figures |-> p, current |-> employees[e].base,
         compa |-> CompaRatio(p.base, bands[p.level].mid),
         seen |-> [ level |-> 0, band |-> bands[p.level] ] ]]
  /\ UNCHANGED <<employees, cycles, bands>>

\* Mutant of Verdict: the agent is given the proposed level as the current one.
VerdictOfProposed(c, e) ==
  LET r == reviews[c][e] IN
    ReviewDecision(r.figures.level, r.current, r.figures, bands[r.figures.level])

\* The verdict on a proposal: the employee's level is today's, the base the copy.
Verdict(c, e) ==
  LET r == reviews[c][e] IN
    ReviewDecision(employees[e].level, r.current, r.figures, bands[r.figures.level])

\* audit_proposal.  `seen' is history: what the agent was shown.
AuditProposal(c, e) ==
  /\ Exists(c, e)
  /\ CanTransitionReview(reviews[c][e].status, "SUBMITTED")
  /\ LET p == reviews[c][e].figures IN
       reviews' = [reviews EXCEPT ![c][e] =
         [ status |-> Verdict(c, e), figures |-> p, current |-> reviews[c][e].current,
           compa |-> CompaRatio(p.base, bands[p.level].mid),
           seen |-> [ level |-> employees[e].level, band |-> bands[p.level] ] ]]
  /\ UNCHANGED <<employees, cycles, bands>>

\* approve_vp_exception.
ApproveException(c, e) ==
  /\ Exists(c, e)
  /\ CanTransitionReview(reviews[c][e].status, "VP_APPROVED")
  /\ reviews' = [reviews EXCEPT ![c][e] = [@ EXCEPT !.status = "VP_APPROVED"]]
  /\ UNCHANGED <<employees, cycles, bands>>

Approved(c) == { e \in Proposals(c) : reviews[c][e].status \in {"AUTO_APPROVED", "VP_APPROVED"} }

\* finalize_cycle: every approved proposal replaces base and level of its employee.
FinalizeCycle(c) ==
  /\ cycles[c].status = "ACTIVE"
  /\ \A e \in Proposals(c) : reviews[c][e].status # "VP_EXCEPTION_REQUIRED"
  /\ cycles' = [cycles EXCEPT ![c].status = "FINALIZED"]
  /\ employees' = [e \in Employee |->
       IF e \in Approved(c)
       THEN [ base |-> reviews[c][e].figures.base, level |-> reviews[c][e].figures.level ]
       ELSE employees[e]]
  /\ reviews' = [reviews EXCEPT ![c] = [e \in Employee |->
       IF e \in Approved(c)
       THEN [reviews[c][e] EXCEPT !.status = "FINALIZED"] ELSE reviews[c][e]]]
  /\ UNCHANGED bands

\* BandService.upsert_band.
UpsertBand(level, band) ==
  /\ bands' = [bands EXCEPT ![level] = band]
  /\ UNCHANGED <<employees, cycles, reviews>>

Next ==
  \/ \E c \in Cycle :
       \/ CreateCycle(c)
       \/ FinalizeCycle(c)
       \/ \E e \in Employee :
            \/ \E p \in Packages(c, e) : CreateProposal(c, e, p)
            \/ AuditProposal(c, e)
            \/ ApproveException(c, e)
  \/ \E level \in Level : \E band \in BandChoices(level) : UpsertBand(level, band)

Spec == Init /\ [][Next]_vars

------------------------------------------------------------------------------
(* Reports.                                                                *)

Increase(c, e) ==
  LET raise == reviews[c][e].figures.base - reviews[c][e].current
  IN IF raise > 0 THEN raise ELSE 0

\* Mutant of Counted: rejected proposals are in the rollup.
CountedAll(c, d) == { e \in Staff(d) : Exists(c, e) }

\* Mutant of Counted: an exception's cost is forgotten once it is approved.
CountedStandard(c, d) ==
  { e \in Staff(d) : Exists(c, e) /\ reviews[c][e].status \notin {"REJECTED", "VP_APPROVED"} }

\* The proposals get_department_budget_rollup adds up; nobody is ever deactivated.
Counted(c, d) == { e \in Staff(d) : Exists(c, e) /\ reviews[c][e].status # "REJECTED" }

\* What a set of a cycle's proposals costs in raises, bonuses and equity.
Spend(c, staff) ==
  LET raise(e) == Increase(c, e)
      bonus(e) == reviews[c][e].figures.bonus
      rsus(e) == reviews[c][e].figures.rsus
  IN [ merit |-> MapThenSumSet(raise, staff), bonus |-> MapThenSumSet(bonus, staff),
       rsus |-> MapThenSumSet(rsus, staff) ]

\* depleted_merit_budget, depleted_bonus_pool and depleted_equity_pool of the rollup.
Rollup(c, d) == Spend(c, Counted(c, d))

\* get_cycle_analytics: total_merit_spend, total_bonus_spend, total_equity_rsus.
Analytics(c) == Spend(c, { e \in Proposals(c) : reviews[c][e].status # "REJECTED" })

\* compa_ratio_distribution: the bucket a proposal's stored ratio falls into.
CompaBucket(compa) ==
  IF compa < 850 THEN "<0.85" ELSE IF compa <= 950 THEN "0.85 - 0.95"
  ELSE IF compa <= 1050 THEN "0.95 - 1.05" ELSE IF compa <= 1150 THEN "1.05 - 1.15"
  ELSE ">1.15"

\* budget.depleted_merit_budget: set to zero by create_cycle, and by nobody else.
DepletedColumn(c, d) == 0

\* Mutant of RootCause: a base at the band's maximum is over it.
RootCauseStrict(c, e) ==
  IF reviews[c][e].figures.base >= bands[reviews[c][e].figures.level].max
  THEN "OUT_OF_BAND_COMPENSATION_CEILING"
  ELSE IF reviews[c][e].status = "AUTO_APPROVED" THEN "HEALTHY_AUTO_APPROVED"
  ELSE reviews[c][e].status

\* _diagnose_employee_review on an intact ledger.
RootCause(c, e) ==
  LET r == reviews[c][e]
      band == bands[r.figures.level]
      d == DepartmentOf(e)
      remaining == cycles[c].merit[d] - DepletedColumn(c, d)
  IN IF r.figures.base > band.max THEN "OUT_OF_BAND_COMPENSATION_CEILING"
     ELSE IF r.figures.base < band.min THEN "OUT_OF_BAND_COMPENSATION_FLOOR"
     ELSE IF Increase(c, e) > remaining /\ remaining < 0
          THEN "DEPARTMENT_MERIT_BUDGET_EXHAUSTED"
     ELSE IF r.status = "VP_EXCEPTION_REQUIRED" THEN "AWAITING_VP_EXCEPTION_APPROVAL"
     ELSE IF r.status = "AUTO_APPROVED" THEN "HEALTHY_AUTO_APPROVED"
     ELSE r.status

------------------------------------------------------------------------------
(* Properties.                                                             *)

\* The departments' rollups of a cycle add up to its analytics, whatever has been
\* rejected or finalized since: two queries in two services (cycle_service.py:495,
\* analytics_service.py:80).
RollupsAddUp ==
  \A c \in Cycle :
    \A field \in {"merit", "bonus", "rsus"} :
      LET depleted(d) == Rollup(c, d)[field] IN
        MapThenSumSet(depleted, Department) = Analytics(c)[field]

\* A triage never finds fault with an approved review, and a triage and the
\* analytics place it alike, unless the band was changed after the agent saw it.
TriageAgreesWithAudit ==
  \A c \in Cycle, e \in Employee :
    Exists(c, e) /\ reviews[c][e].seen.band = bands[reviews[c][e].figures.level] =>
      LET r == reviews[c][e] IN
        /\ r.status = "AUTO_APPROVED" => RootCause(c, e) = "HEALTHY_AUTO_APPROVED"
        /\ CompaBucket(r.compa) =
             CompaBucket(CompaRatio(r.figures.base, bands[r.figures.level].mid))

\* The step that finalizes a cycle, for an employee whose proposal it applies.
Pays(c, e) ==
  /\ cycles[c].status = "ACTIVE" /\ cycles'[c].status = "FINALIZED"
  /\ e \in Approved(c)

\* Nobody's pay was cut below the base a proposal was made on.
NoCutSince(c, e) == employees[e].base >= reviews[c][e].current

\* cycle_service.py:181: a proposal is audited against the base it was made on.  What
\* the agent lets pass alone still raises nobody over 20% of the base that is really
\* replaced, and nobody of the lowest rating at all, unless another cycle cut that
\* base in between.
AutoRaiseWithinCap ==
  [][ \A c \in Cycle, e \in Employee :
        Pays(c, e) /\ reviews[c][e].status = "AUTO_APPROVED" /\ NoCutSince(c, e) =>
          /\ 5 * (employees'[e].base - employees[e].base) <= employees[e].base
          /\ reviews[c][e].figures.rating = "RATING_1" =>
               employees'[e].base <= employees[e].base ]_vars

\* cycle_service.py:233: the level is checked at the audit and written at the
\* finalization.  Without a VP nobody is demoted or promoted past a level, unless
\* another cycle moved the employee in between.
AutoKeepsLadder ==
  [][ \A c \in Cycle, e \in Employee :
        /\ Pays(c, e) /\ reviews[c][e].status = "AUTO_APPROVED"
        /\ employees[e].level = reviews[c][e].seen.level
        => employees'[e].level - employees[e].level \in {0, 1} ]_vars

\* What a finalization adds to a department's payroll was announced by its rollup,
\* unless another cycle cut somebody's pay in between.
PayrollGrowthAnnounced ==
  [][ \A c \in Cycle, d \in Department :
        (\E e \in Staff(d) : Pays(c, e)) /\ (\A e \in Staff(d) : Pays(c, e) => NoCutSince(c, e))
        => Payroll(d)' - Payroll(d) <= Rollup(c, d).merit ]_vars
==============================================================================
