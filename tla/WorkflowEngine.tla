----------------------------- MODULE WorkflowEngine -----------------------------
(***************************************************************************)
(* service/workflow_engine.py: reviews held in a dictionary of the process *)
(* and driven by direct calls.  The engine keeps the caller's object, so    *)
(* registering the same one again resets its status and nothing else.      *)
(* Bonuses are computed at formula and the level never changes.            *)
(***************************************************************************)
EXTENDS AuditPolicy, StateMachines

CONSTANTS
  Review,         \* review ids
  Inputs          \* the proposals callers make: [level, zone, current, base, rsus, rating]

\* InMemProposal is a dataclass: the enums are enums and nothing checks the figures,
\* neither here nor in the agent.
ASSUME InputsAssumption ==
  Inputs \subseteq [ level : Level, zone : Zone, current : Int, base : Int,
                    rsus : Int, rating : Rating ]

VARIABLES
  proposals,      \* _proposals: per id the registered object, or NoProposal
  approvedByVP    \* history: reviews approved by a VP since they were registered

engineVars == <<proposals, approvedByVP>>

NoProposal == [ status |-> "NONE" ]

Registered(r) == proposals[r] # NoProposal

EngineInit ==
  /\ proposals = [r \in Review |-> NoProposal]
  /\ approvedByVP = {}

\* InMemProposal, as callers make it.
NewProposal(input) == [ status |-> "DRAFT", figures |-> input, audit |-> "NONE" ]

\* register_draft of a new object, which replaces whatever has the id ...
RegisterNew(r, input) ==
  /\ proposals' = [proposals EXCEPT ![r] = NewProposal(input)]
  /\ approvedByVP' = approvedByVP \ {r}

\* ... and of the object that has it already: also of a rejected or finalized one.
RegisterAgain(r) ==
  /\ Registered(r)
  /\ proposals' = [proposals EXCEPT ![r].status = "DRAFT"]
  /\ approvedByVP' = approvedByVP \ {r}

\* The proposal as the agent is given it: bonus at formula, multipliers 1.00.
AtFormula(f, band) ==
  [ level |-> f.level, base |-> f.base, rsus |-> f.rsus, rating |-> f.rating,
    bonus |-> HalfUp(TargetBonus10000(f.base, band.bonus, 10, 10), 10000),
    individual |-> 10, company |-> 10 ]

AuditVerdict(f) ==
  LET band == DefaultSalaryBand(f.level, f.zone)
  IN ReviewDecision(f.level, f.current, AtFormula(f, band), band)

\* submit_and_audit.
SubmitAndAudit(r) ==
  /\ Registered(r)
  /\ CanTransitionReview(proposals[r].status, "SUBMITTED")
  /\ LET figures == proposals[r].figures
         verdict == AuditVerdict(figures)
     IN /\ CanTransitionReview("AGENT_AUDITING", verdict)
        /\ proposals' = [proposals EXCEPT ![r] =
             [ status |-> verdict, figures |-> figures, audit |-> verdict ]]
  /\ UNCHANGED approvedByVP

\* approve_vp_exception.
ApproveVPException(r) ==
  /\ Registered(r)
  /\ CanTransitionReview(proposals[r].status, "VP_APPROVED")
  /\ proposals' = [proposals EXCEPT ![r].status = "VP_APPROVED"]
  /\ approvedByVP' = approvedByVP \cup {r}

\* Mutant of FinalizeReview: the state machine is not asked.
FinalizeReviewAny(r) ==
  /\ Registered(r)
  /\ proposals[r].audit # "NONE"
  /\ proposals' = [proposals EXCEPT ![r].status = "FINALIZED"]
  /\ UNCHANGED approvedByVP

\* finalize_review.
FinalizeReview(r) ==
  /\ Registered(r)
  /\ CanTransitionReview(proposals[r].status, "FINALIZED")
  /\ proposals' = [proposals EXCEPT ![r].status = "FINALIZED"]
  /\ UNCHANGED approvedByVP

EngineNext ==
  \E r \in Review :
    \/ \E input \in Inputs : RegisterNew(r, input)
    \/ RegisterAgain(r)
    \/ SubmitAndAudit(r)
    \/ ApproveVPException(r)
    \/ FinalizeReview(r)

EngineSpec == EngineInit /\ [][EngineNext]_engineVars

------------------------------------------------------------------------------
(* Properties.                                                             *)

Settled == {"AUTO_APPROVED", "VP_EXCEPTION_REQUIRED", "VP_APPROVED", "FINALIZED"}

\* The verdict kept with a review explains its status, however often it was
\* registered, audited and approved: only a draft may carry a verdict that is no
\* longer its own (workflow_engine.py:51).
VerdictExplainsStatus ==
  \A r \in Review : Registered(r) =>
    LET p == proposals[r] IN
      /\ p.status \in Settled \cup {"DRAFT", "REJECTED"}
      /\ p.status \in {"AUTO_APPROVED", "VP_EXCEPTION_REQUIRED", "REJECTED"} => p.audit = p.status
      /\ p.status = "VP_APPROVED" => p.audit = "VP_EXCEPTION_REQUIRED" /\ r \in approvedByVP
      /\ p.status = "FINALIZED" =>
           \/ p.audit = "AUTO_APPROVED"
           \/ p.audit = "VP_EXCEPTION_REQUIRED" /\ r \in approvedByVP

\* What is finalized without a VP is inside the published limits: the band, a raise of
\* a fifth of the current base, and the rating's equity range, which truncation
\* (registry.py:218) widens by less than one unit at its lower end and never at the
\* upper one.  Where there is no current base to raise, any raise passes
\* (registry.py:262) and the band is the only limit.  With a VP or without, nobody of
\* the lowest rating is raised, from nothing included.
FinalizedWithinLimits ==
  \A r \in Review : Registered(r) /\ proposals[r].status = "FINALIZED" =>
    LET f == proposals[r].figures
        b == Zone1Benchmark[f.level]
        g == GeoFactor[f.zone]
        m == EquityMultiplier[f.rating]
    IN /\ f.rating = "RATING_1" => f.base <= f.current
       /\ r \notin approvedByVP =>
            /\ 100 * f.base \in b.min * g .. b.max * g
            /\ f.current > 0 => 100 * f.base <= 120 * f.current
            /\ b.rsus * m[1] < 100 * (f.rsus + 1)
            /\ 100 * f.rsus <= b.rsus * m[2]
==============================================================================
