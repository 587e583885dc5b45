---------------------------- MODULE StateMachines ----------------------------
(***************************************************************************)
(* The two lifecycle tables of domain/state_machine.py, as relations, and  *)
(* the check every handler makes before it assigns a status.               *)
(***************************************************************************)

ReviewStatus ==
  { "DRAFT", "SUBMITTED", "AGENT_AUDITING", "AUTO_APPROVED",
    "VP_EXCEPTION_REQUIRED", "VP_APPROVED", "FINALIZED", "REJECTED" }

\* EmployeeReviewStateMachine.VALID_TRANSITIONS.
ReviewTransitions ==
  { <<"DRAFT", "SUBMITTED">>,
    <<"SUBMITTED", "AGENT_AUDITING">>,
    <<"AGENT_AUDITING", "AUTO_APPROVED">>,
    <<"AGENT_AUDITING", "VP_EXCEPTION_REQUIRED">>,
    <<"AGENT_AUDITING", "REJECTED">>,
    <<"VP_EXCEPTION_REQUIRED", "VP_APPROVED">>,
    <<"VP_EXCEPTION_REQUIRED", "REJECTED">>,
    <<"AUTO_APPROVED", "FINALIZED">>,
    <<"VP_APPROVED", "FINALIZED">>,
    <<"REJECTED", "DRAFT">> }

OfferStatus ==
  { "OFFER_DRAFT", "AUDIT_PENDING", "OFFER_APPROVED", "VP_EXCEPTION_REQUIRED",
    "OFFER_EXTENDED", "OFFER_ACCEPTED", "OFFER_DECLINED", "OFFER_RESCINDED",
    "OFFER_REJECTED" }

\* OfferStateMachine.VALID_TRANSITIONS.
OfferTransitions ==
  { <<"OFFER_DRAFT", "AUDIT_PENDING">>,
    <<"AUDIT_PENDING", "OFFER_APPROVED">>,
    <<"AUDIT_PENDING", "VP_EXCEPTION_REQUIRED">>,
    <<"AUDIT_PENDING", "OFFER_REJECTED">>,
    <<"VP_EXCEPTION_REQUIRED", "OFFER_APPROVED">>,
    <<"VP_EXCEPTION_REQUIRED", "OFFER_REJECTED">>,
    <<"OFFER_APPROVED", "OFFER_EXTENDED">>,
    <<"OFFER_APPROVED", "OFFER_RESCINDED">>,
    <<"OFFER_EXTENDED", "OFFER_ACCEPTED">>,
    <<"OFFER_EXTENDED", "OFFER_DECLINED">>,
    <<"OFFER_EXTENDED", "OFFER_RESCINDED">>,
    <<"OFFER_REJECTED", "OFFER_DRAFT">> }

\* EmployeeReviewStateMachine.can_transition.
CanTransitionReview(current, target) == <<current, target>> \in ReviewTransitions

\* OfferStateMachine.can_transition.
CanTransitionOffer(current, target) == <<current, target>> \in OfferTransitions
==============================================================================
