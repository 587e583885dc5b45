---------------------------- MODULE OfferLifecycle ----------------------------
(***************************************************************************)
(* service/offer_service.py: candidate offers, from the draft through the  *)
(* agent's audit and the VP's approval to the letter and the candidate's   *)
(* answer.  As in PlanningCycle every request is one transaction at READ   *)
(* COMMITTED: it reads the offer, asks the state machine, and overwrites   *)
(* the status later by primary key.  Audits and approvals are sealed in    *)
(* the SOX ledger; letters and answers are only written to audit_logs.     *)
(***************************************************************************)
EXTENDS Integers, Sequences, FiniteSetsExt, StateMachines

CONSTANTS
  Session,   \* concurrent requests
  Offer,     \* rows of candidate_offers
  Number,    \* the offer numbers create_offer draws from
  MaxSeq     \* bound on the SOX ledger

ASSUME OfferAssumption == MaxSeq \in Nat

VARIABLES
  offers,    \* candidate_offers: status and offer_number
  auditLog,  \* audit_logs, in the order they were committed
  ledger, pending, head,   \* SoxLedger
  txn        \* per session, the transaction of its request

tables == <<offers, auditLog>>
vars == <<offers, auditLog, ledger, pending, head, txn>>

------------------------------------------------------------------------------
(* Rows.                                                                   *)

NoOffer == [ status |-> "NONE" ]

Draft(n) == [ status |-> "OFFER_DRAFT", number |-> n ]

Exists(o) == offers[o] # NoOffer

OfferLog(o, action, previous_status, new_status) ==
  [ entity |-> o, action |-> action,
    previous_status |-> previous_status, new_status |-> new_status ]

\* Audits and approvals are recorded in the SOX ledger too.
SealedAction == {"OFFER_AUDIT", "OFFER_APPROVAL"}

\* The verdict is a function of the offer's figures and of the band read, which an
\* upsert may change between two audits: either of the two the agent can return.
AgentDecisions == {"OFFER_APPROVED", "VP_EXCEPTION_REQUIRED"}

LogHeader(row) == [ entity |-> row.entity, action |-> row.action ]

LogPayload(row) ==
  [ previous_status |-> row.previous_status, new_status |-> row.new_status ]

Ledger == INSTANCE SoxLedger WITH
  Header <- [ entity : Offer, action : SealedAction ],
  Payload <- [ previous_status : OfferStatus, new_status : AgentDecisions ]

------------------------------------------------------------------------------
(* Transactions.                                                           *)

Idle == [ pc |-> "idle" ]

Active(s) == txn[s].pc # "idle"

\* The transaction of a request that has read offer o and will write `row'.
Decide(row) == [ pc |-> "flush", row |-> row ]

\* A block is owed by every open audit and approval: no request is begun that would
\* take the ledger past MaxSeq.
Owes(s) == Active(s) /\ txn[s].pc # "insert" /\ txn[s].row.action \in SealedAction

Room == Ledger!LastSeq(ledger) + Cardinality({ s \in Session : Owes(s) }) < MaxSeq

\* The offers a session has flushed and not committed.
Locks(s) ==
  IF txn[s].pc \in {"ledger", "block", "commit"} THEN {txn[s].row.entity} ELSE {}

LockHolder(s) == { t \in Session \ {s} : txn[s].row.entity \in Locks(t) }

Init ==
  /\ offers = [o \in Offer |-> NoOffer]
  /\ auditLog = <<>>
  /\ txn = [s \in Session |-> Idle]
  /\ Ledger!LedgerInit

------------------------------------------------------------------------------
(* create_offer.  The number is drawn at random; offer_number is unique.   *)

BeginCreate(s, o, n) ==
  /\ ~ Active(s)
  /\ ~ Exists(o)
  /\ \A t \in Session : txn[t].pc = "insert" => txn[t].offer # o   \* ids are fresh
  /\ txn' = [txn EXCEPT ![s] = [ pc |-> "insert", offer |-> o, number |-> n ]]
  /\ UNCHANGED <<tables, ledger, pending, head>>

NumberTaken(n) == \E o \in Offer : Exists(o) /\ offers[o].number = n

\* Mutant of InsertOffer: the column is not unique.
InsertOfferAnyway(s) ==
  /\ txn[s].pc = "insert"
  /\ offers' = [offers EXCEPT ![txn[s].offer] = Draft(txn[s].number)]
  /\ txn' = [txn EXCEPT ![s] = Idle]
  /\ UNCHANGED <<auditLog, ledger, pending, head>>

\* INSERT, flush and commit.  A number already taken is an IntegrityError: the
\* request fails, and nothing draws another number.
InsertOffer(s) ==
  /\ txn[s].pc = "insert"
  /\ offers' = IF NumberTaken(txn[s].number) THEN offers
               ELSE [offers EXCEPT ![txn[s].offer] = Draft(txn[s].number)]
  /\ txn' = [txn EXCEPT ![s] = Idle]
  /\ UNCHANGED <<auditLog, ledger, pending, head>>

------------------------------------------------------------------------------
(* audit_offer, approve_offer, extend_offer, record_candidate_decision: up *)
(* to the first flush.  A transition the table does not have raises before *)
(* anything is written, and is no step.                                    *)

\* The status audit_offer asks for the verdict's transition from: a draft or a
\* rejected offer is first moved to AUDIT_PENDING (in memory), any other stays.
AuditStart(status) ==
  IF status \notin {"OFFER_DRAFT", "OFFER_REJECTED"} THEN {status}
  ELSE { p \in {"AUDIT_PENDING"} : CanTransitionOffer(status, p) }

BeginAudit(s, o) ==
  /\ ~ Active(s) /\ Room
  /\ Exists(o)
  /\ \E start \in AuditStart(offers[o].status), decision \in AgentDecisions :
       /\ CanTransitionOffer(start, decision)
       /\ txn' = [txn EXCEPT ![s] =
            Decide(OfferLog(o, "OFFER_AUDIT", offers[o].status, decision))]
  /\ UNCHANGED <<tables, ledger, pending, head>>

BeginApprove(s, o) ==
  /\ ~ Active(s) /\ Room
  /\ Exists(o)
  /\ CanTransitionOffer(offers[o].status, "OFFER_APPROVED")
  /\ txn' = [txn EXCEPT ![s] =
       Decide(OfferLog(o, "OFFER_APPROVAL", offers[o].status, "OFFER_APPROVED"))]
  /\ UNCHANGED <<tables, ledger, pending, head>>

\* Mutant of BeginExtend: the state machine is not asked.
BeginExtendAny(s, o) ==
  /\ ~ Active(s)
  /\ Exists(o)
  /\ offers[o].status \in {"VP_EXCEPTION_REQUIRED", "OFFER_APPROVED"}
  /\ txn' = [txn EXCEPT ![s] =
       Decide(OfferLog(o, "OFFER_EXTENDED", offers[o].status, "OFFER_EXTENDED"))]
  /\ UNCHANGED <<tables, ledger, pending, head>>

BeginExtend(s, o) ==
  /\ ~ Active(s)
  /\ Exists(o)
  /\ CanTransitionOffer(offers[o].status, "OFFER_EXTENDED")
  /\ txn' = [txn EXCEPT ![s] =
       Decide(OfferLog(o, "OFFER_EXTENDED", offers[o].status, "OFFER_EXTENDED"))]
  /\ UNCHANGED <<tables, ledger, pending, head>>

\* The decision statuses the handler lets through (400 for any other).
Terminal == {"OFFER_ACCEPTED", "OFFER_DECLINED", "OFFER_RESCINDED"}

\* Mutant of BeginDecision: an accepted offer may still be rescinded.
BeginDecisionRescind(s, o, decision) ==
  /\ ~ Active(s)
  /\ Exists(o)
  /\ \/ CanTransitionOffer(offers[o].status, decision)
     \/ offers[o].status = "OFFER_ACCEPTED" /\ decision = "OFFER_RESCINDED"
  /\ txn' = [txn EXCEPT ![s] =
       Decide(OfferLog(o, "DECISION", offers[o].status, decision))]
  /\ UNCHANGED <<tables, ledger, pending, head>>

BeginDecision(s, o, decision) ==
  /\ ~ Active(s)
  /\ Exists(o)
  /\ CanTransitionOffer(offers[o].status, decision)
  /\ txn' = [txn EXCEPT ![s] =
       Decide(OfferLog(o, "DECISION", offers[o].status, decision))]
  /\ UNCHANGED <<tables, ledger, pending, head>>

------------------------------------------------------------------------------
(* From the flush to the commit.                                           *)

\* UPDATE of the offer, INSERT of the audit_logs row: waits for the row's lock, and
\* does not look at the status it replaces.
Flush(s) ==
  /\ txn[s].pc = "flush"
  /\ LockHolder(s) = {}
  /\ txn' = [txn EXCEPT ![s].pc =
       IF txn[s].row.action \in SealedAction THEN "ledger" ELSE "commit"]
  /\ UNCHANGED <<tables, ledger, pending, head>>

\* record_entry, first statement.
ReadLedgerHead(s) ==
  /\ txn[s].pc = "ledger"
  /\ Ledger!ReadHead(s)
  /\ txn' = [txn EXCEPT ![s].pc = "block"]
  /\ UNCHANGED tables

\* Mutant of InsertLedgerBlock: record_entry commits, and the status with it later.
InsertLedgerBlockAutocommit(s) ==
  /\ txn[s].pc = "block"
  /\ Ledger!InsertBlockAutocommit(s, LogHeader(txn[s].row), LogPayload(txn[s].row))
  /\ txn' = [txn EXCEPT ![s].pc = "commit"]
  /\ UNCHANGED tables

\* record_entry, second statement.
InsertLedgerBlock(s) ==
  /\ txn[s].pc = "block"
  /\ Ledger!InsertBlock(s, LogHeader(txn[s].row), LogPayload(txn[s].row))
  /\ txn' = [txn EXCEPT ![s].pc = "commit"]
  /\ UNCHANGED tables

\* Mutant of LedgerConflict: the error is swallowed and the request commits.
LedgerConflictSwallowed(s) ==
  /\ txn[s].pc = "block"
  /\ Ledger!InsertConflict(s)
  /\ txn' = [txn EXCEPT ![s].pc = "commit"]
  /\ UNCHANGED tables

\* Another request has committed that block: the whole request is rolled back.
LedgerConflict(s) ==
  /\ txn[s].pc = "block"
  /\ Ledger!InsertConflict(s)
  /\ txn' = [txn EXCEPT ![s] = Idle]
  /\ UNCHANGED tables

CommitDecision(s) ==
  /\ txn[s].pc = "commit"
  /\ Ledger!Commit(s)
  /\ offers' = [offers EXCEPT ![txn[s].row.entity].status = txn[s].row.new_status]
  /\ auditLog' = Append(auditLog, txn[s].row)
  /\ txn' = [txn EXCEPT ![s] = Idle]

\* A transaction dies with its replica, its connection or an unrelated exception.
Abort(s) ==
  /\ Active(s)
  /\ Ledger!Rollback(s)
  /\ txn' = [txn EXCEPT ![s] = Idle]
  /\ UNCHANGED tables

BeginRequest(s) ==
  \E o \in Offer :
    \/ \E n \in Number : BeginCreate(s, o, n)
    \/ BeginAudit(s, o)
    \/ BeginApprove(s, o)
    \/ BeginExtend(s, o)
    \/ \E decision \in Terminal : BeginDecision(s, o, decision)

Next ==
  \E s \in Session :
    \/ BeginRequest(s)
    \/ InsertOffer(s)
    \/ Flush(s)
    \/ ReadLedgerHead(s) \/ InsertLedgerBlock(s) \/ LedgerConflict(s)
    \/ CommitDecision(s)
    \/ Abort(s)

Spec == Init /\ [][Next]_vars

------------------------------------------------------------------------------
(* Properties.                                                             *)

\* The statuses an offer is ever stored with.  AUDIT_PENDING never leaves memory, and
\* no operation writes OFFER_REJECTED, so the re-audit of a rejected offer
\* (offer_service.py:119) is dead code and a VP's denial cannot be recorded.  Two
\* offers never get the same number, whatever creations at once draw (:51).
OfferTypeOK ==
  /\ \A o \in Offer : Exists(o) =>
       /\ offers[o].status \in OfferStatus \ {"AUDIT_PENDING", "OFFER_REJECTED"}
       /\ offers[o].number \in Number
       /\ \A p \in Offer \ {o} : Exists(p) => offers[p].number # offers[o].number
  /\ Ledger!LedgerTypeOK

\* However requests interleave, conflict or die, what they do to the SOX ledger is
\* what SoxLedger allows (offer_service.py:165, 238).
OffersUseLedger == Ledger!LedgerSpec

\* The rows of audit_logs about an offer; the audits and approvals among all rows, and
\* the place of row k among these.
RowsOf(o) == { k \in DOMAIN auditLog : auditLog[k].entity = o }

SealedRows == { k \in DOMAIN auditLog : auditLog[k].action \in SealedAction }

Place(k) == Cardinality({ j \in SealedRows : j <= k })

\* The status of an offer is the one its last audit_logs row records, also when two
\* requests decided it at once: rows commit in the order of the statuses, and every
\* decision has its row (design_doc.md:241).  Audits and approvals are in the ledger
\* too, in the order of audit_logs, and nothing else is (offer_service.py:161, 217).
LogsTellStatus ==
  /\ \A o \in Offer :
       offers[o].status =
         IF RowsOf(o) # {} THEN auditLog[Max(RowsOf(o))].new_status
         ELSE IF Exists(o) THEN "OFFER_DRAFT" ELSE "NONE"
  /\ Cardinality(SealedRows) = Ledger!LastSeq(ledger)
  /\ \A k \in SealedRows :
       /\ Place(k) \in DOMAIN ledger
       /\ ledger[Place(k)].header = LogHeader(auditLog[k])
       /\ ledger[Place(k)].payload = LogPayload(auditLog[k])

\* Letters go out, and candidates answer, only for offers the ledger holds an
\* approval of, although the check and the write are separate statements.
NoLetterWithoutApproval ==
  \A o \in Offer :
    Exists(o) /\ offers[o].status \in {"OFFER_APPROVED", "OFFER_EXTENDED"} \cup Terminal =>
      \E i \in DOMAIN ledger : /\ ledger[i].header.entity = o
                               /\ ledger[i].payload.new_status = "OFFER_APPROVED"

\* What the rows before the k-th say an offer's status was; whether each row of its
\* history was decided from what the one before had written.
Before(o, k) ==
  LET earlier == { j \in RowsOf(o) : j < k } IN
    IF earlier = {} THEN "OFFER_DRAFT" ELSE auditLog[Max(earlier)].new_status

Continuous(o) == \A k \in RowsOf(o) : auditLog[k].previous_status = Before(o, k)

Answers(o) == { k \in RowsOf(o) : auditLog[k].new_status \in Terminal }

\* A terminal answer is replaced only by a request that had read the offer before
\* (offer_service.py:289 against :292): two answers of one offer always leave a
\* break in its audit_logs history.
OverwriteLeavesTrace ==
  \A o \in Offer : Cardinality(Answers(o)) > 1 => ~ Continuous(o)
==============================================================================
