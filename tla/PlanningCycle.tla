---------------------------- MODULE PlanningCycle ----------------------------
(***************************************************************************)
(* service/cycle_service.py: the merit cycle, from proposals in DRAFT      *)
(* through the agent's audit and the VP's approval to finalization, when   *)
(* salaries and equity are applied.  Every request is one PostgreSQL       *)
(* transaction at READ COMMITTED (core/database.py) in one of several      *)
(* replicas: a SELECT sees what is committed when it runs, an UPDATE goes  *)
(* by primary key and waits for the row's lock, and nothing compares the   *)
(* status that was read with the status that is overwritten.               *)
(*                                                                         *)
(* One action per statement a transaction runs.  A request answered with a *)
(* 4xx before it has written anything changes nothing and is no step.      *)
(***************************************************************************)
EXTENDS Integers, Sequences, FiniteSetsExt, StateMachines

CONSTANTS
  Session,      \* concurrent requests
  Cycle,        \* compensation cycles
  Employee,
  Base,         \* base salaries, with the rest of the terms they stand for
  HiredBase,    \* the base salary everybody starts with
  ProposedBase, \* the base salaries proposals ask for
  Grant,        \* RSU grants a proposal may hold
  Band,         \* keys of salary_bands: level, family and location tier
  Seeded,       \* the bands the table starts with
  Levels,       \* per employee, the pairs of bands a proposal of theirs may look up:
                \* that of the current level and that of the proposed one
  Ops,          \* the requests a run exercises
  Verdicts,     \* the agent's decisions a run exercises
  MaxSeq        \* bound on the SOX ledger

ASSUME PlanningAssumption ==
  /\ HiredBase \in Base
  /\ ProposedBase \subseteq Base
  /\ Grant \subseteq Nat
  /\ Seeded \subseteq Band
  /\ Levels \in [Employee -> SUBSET (Band \X Band)]
  /\ Ops \subseteq {"create", "audit", "batch", "approve", "finalize"}
  /\ MaxSeq \in Nat

VARIABLES
  cycles,       \* compensation_cycles.status
  reviews,      \* employee_reviews, by cycle and employee (uq cycle, employee)
  employees,    \* current_base and current_equity_rsus
  bands,        \* the keys of salary_bands
  auditLog,     \* audit_logs, in the order they were committed
  ledger, pending, head,   \* SoxLedger
  txn,          \* per session, the transaction of its request
  stale,        \* history: per session, the rows it has read and others have since written
  lost          \* history: the rows ever written from such a stale copy

tables == <<cycles, reviews, employees, bands, auditLog>>
history == <<stale, lost>>
vars == <<cycles, reviews, employees, bands, auditLog, ledger, pending, head, txn, stale, lost>>

------------------------------------------------------------------------------
(* Rows.                                                                   *)

NoReview == [ status |-> "NONE", current_base |-> HiredBase,
              proposed_base |-> HiredBase, rsus |-> 0 ]

Review == [ status : ReviewStatus, current_base : Base, proposed_base : Base, rsus : Grant ]

Hired == [ base |-> HiredBase, equity |-> 0 ]

ReviewLog(c, e, action, previous_status, new_status) ==
  [ entity |-> <<c, e>>, action |-> action,
    previous_status |-> previous_status, new_status |-> new_status ]

CycleLog(c) ==
  [ entity |-> <<c>>, action |-> "CYCLE_FINALIZATION",
    previous_status |-> "ACTIVE", new_status |-> "FINALIZED" ]

\* The header and payload record_entry is called with for an audit_logs row.
LogHeader(row) == [ entity |-> row.entity, action |-> row.action ]

\* Mutant of LogPayload: the previous status is read after the SUBMITTED transition.
LogPayloadLate(row) ==
  [ previous_status |-> IF row.previous_status = "DRAFT" THEN "SUBMITTED"
                        ELSE row.previous_status,
    new_status |-> row.new_status ]

LogPayload(row) ==
  [ previous_status |-> row.previous_status, new_status |-> row.new_status ]

Ledger == INSTANCE SoxLedger WITH
  Header <- [ entity : Cycle \X Employee, action : {"AGENT_AUDIT", "VP_APPROVAL"} ],
  Payload <- [ previous_status : ReviewStatus, new_status : ReviewStatus ]

Exists(c, e) == reviews[c][e] # NoReview

------------------------------------------------------------------------------
(* Transactions.  `todo' are the proposals still to be audited (the one to *)
(* insert, for a create), `logs' the audit_logs rows built so far, `seen'  *)
(* and `people' the rows a session has loaded, `missing' the bands looked  *)
(* up from the first one get_band has to insert on, `fresh' those it has   *)
(* inserted.                                                               *)

Idle == [ pc |-> "idle" ]

\* An IllegalStateTransitionError: nothing handles it, get_db rolls back.
Illegal(op, status) == [ pc |-> "illegal", op |-> op, status |-> status ]

Ready(s) == txn[s].pc \in {"idle", "illegal"}

Active(s) == ~ Ready(s)

None == [e \in {} |-> e]

Begin(pc, op, c, todo, logs) ==
  [ pc |-> pc, op |-> op, cycle |-> c, todo |-> todo,
    logs |-> logs, seen |-> None, people |-> None, missing |-> <<>>, fresh |-> {} ]

\* The blocks the open transactions have still to commit: a request that would take
\* the ledger past MaxSeq is not begun.
Owed(s) == IF Active(s) THEN Cardinality(txn[s].todo) + Len(txn[s].logs) ELSE 0

Room(n) ==
  Ledger!LastSeq(ledger) + MapThenSumSet(Owed, Session) + n <= MaxSeq

\* Rows a session has updated and not committed: a flushed review stays locked to
\* the end of the transaction.
Locks(s) ==
  IF Ready(s) THEN {}
  ELSE LET flushed == IF txn[s].pc = "flush" THEN Len(txn[s].logs) - 1
                      ELSE Len(txn[s].logs)
       IN { txn[s].logs[i].entity : i \in 1..flushed }

\* The review the next flush of s updates.
FlushTarget(s) == txn[s].logs[Len(txn[s].logs)].entity

LockHolder(s) == { t \in Session \ {s} : FlushTarget(s) \in Locks(t) }

\* The default bands a session has inserted: their keys are held to its end.
Fresh(s) == IF Ready(s) THEN {} ELSE txn[s].fresh

BandHolder(s) == { t \in Session \ {s} : Head(txn[s].missing) \in Fresh(t) }

\* The lookups get_band makes for `keys' in turn: each may find its band, in the cache
\* or in the table; the first that does not is the one to insert.
Missing(keys, inserted) ==
  {<<>>} \cup { SubSeq(keys, i, Len(keys)) :
                 i \in { k \in 1..Len(keys) : keys[k] \notin bands \cup inserted } }

------------------------------------------------------------------------------
(* Copies.  The ORM works on the rows a session has loaded: the review it  *)
(* decides; for a finalization the cycle, its reviews and their employees. *)

ReviewRow(c, e) == <<"review", c, e>>
EmployeeRow(e) == <<"employee", e>>
CycleRow(c) == <<"cycle", c>>

\* The reviews the rows built so far decide.
Decides(s) == { txn[s].logs[i].entity : i \in 1..Len(txn[s].logs) }

InHand(s) ==
  IF Ready(s) THEN {}
  ELSE LET c == txn[s].cycle
       IN { ReviewRow(c, e) : e \in { x \in Employee : <<c, x>> \in Decides(s) } }
          \cup IF txn[s].op = "finalize"
               THEN { CycleRow(c) } \cup { ReviewRow(c, e) : e \in DOMAIN txn[s].seen }
                                   \cup { EmployeeRow(e) : e \in DOMAIN txn[s].people }
               ELSE {}

\* s commits new values of `rows': others' copies of them are stale from now on, and
\* where its own copy was, what somebody else wrote is lost.
Overwrite(s, rows) ==
  /\ stale' = [t \in Session |-> IF t = s THEN {} ELSE stale[t] \cup (rows \cap InHand(t))]
  /\ lost' = lost \cup (rows \cap stale[s])

\* The session's copies go with its transaction.
Forget(s) == stale' = [stale EXCEPT ![s] = {}] /\ UNCHANGED lost

Init ==
  /\ cycles = [c \in Cycle |-> "NONE"]
  /\ reviews = [c \in Cycle |-> [e \in Employee |-> NoReview]]
  /\ employees = [e \in Employee |-> Hired]
  /\ bands = Seeded
  /\ auditLog = <<>>
  /\ txn = [s \in Session |-> Idle]
  /\ stale = [s \in Session |-> {}]
  /\ lost = {}
  /\ Ledger!LedgerInit

------------------------------------------------------------------------------
(* create_cycle.  The cycle and its budgets are inserted ACTIVE.           *)

\* Mutant of CreateCycle: the status is left to the column's default.
CreateCycleDefault(c) ==
  /\ cycles[c] = "NONE"
  /\ cycles' = [cycles EXCEPT ![c] = "DRAFT"]
  /\ UNCHANGED <<reviews, employees, bands, auditLog, ledger, pending, head, txn, history>>

CreateCycle(c) ==
  /\ cycles[c] = "NONE"
  /\ cycles' = [cycles EXCEPT ![c] = "ACTIVE"]
  /\ UNCHANGED <<reviews, employees, bands, auditLog, ledger, pending, head, txn, history>>

------------------------------------------------------------------------------
(* create_proposal.                                                        *)

\* get_cycle, and the refusal of a closed cycle.
BeginCreate(s, c, e) ==
  /\ "create" \in Ops
  /\ Ready(s)
  /\ cycles[c] \notin {"NONE", "LOCKED", "FINALIZED"}
  /\ txn' = [txn EXCEPT ![s] = Begin("check", "create", c, {e}, <<>>)]
  /\ UNCHANGED <<tables, history, ledger, pending, head>>

\* The check for an existing proposal (409 when there is one), then the employee's
\* current base, the bands of the current and the proposed level, and the proposal
\* built from them.
CheckExisting(s) ==
  /\ txn[s].pc = "check"
  /\ \E e \in txn[s].todo :
       \/ /\ Exists(txn[s].cycle, e)
          /\ txn' = [txn EXCEPT ![s] = Idle]
       \/ /\ ~ Exists(txn[s].cycle, e)
          /\ \E base \in ProposedBase, rsus \in Grant, levels \in Levels[e] :
             \E missing \in Missing(levels, {}) :
               txn' = [txn EXCEPT
                 ![s].pc = IF missing = <<>> THEN "insert" ELSE "bands",
                 ![s].missing = missing,
                 ![s].seen = [x \in {e} |->
                    [ status |-> "DRAFT", current_base |-> employees[e].base,
                      proposed_base |-> base, rsus |-> rsus ]]]
  /\ UNCHANGED <<tables, history, ledger, pending, head>>

\* BandService.get_band, whose band was in neither place: the INSERT of the default
\* one, once its key is free, and the lookups that follow.
InsertBand(s) ==
  /\ txn[s].pc \in {"bands", "band"}
  /\ LET key == Head(txn[s].missing)
         fresh == txn[s].fresh \cup {key}
     IN /\ key \notin bands
        /\ BandHolder(s) = {}
        /\ \E missing \in Missing(Tail(txn[s].missing), fresh) :
             txn' = [txn EXCEPT
               ![s].pc = IF missing # <<>> THEN @ ELSE IF @ = "bands" THEN "insert" ELSE "ledger",
               ![s].missing = missing,
               ![s].fresh = fresh]
  /\ UNCHANGED <<tables, history, ledger, pending, head>>

\* Another request has committed that band: IntegrityError, and get_db rolls back.
BandConflict(s) ==
  /\ txn[s].pc \in {"bands", "band"}
  /\ Head(txn[s].missing) \in bands
  /\ Ledger!Rollback(s)
  /\ txn' = [txn EXCEPT ![s] = Idle]
  /\ Forget(s)
  /\ UNCHANGED tables

\* INSERT and commit.
InsertProposal(s) ==
  /\ txn[s].pc = "insert"
  /\ \E e \in txn[s].todo :
       /\ ~ Exists(txn[s].cycle, e)
       /\ reviews' = [reviews EXCEPT ![txn[s].cycle][e] = txn[s].seen[e]]
  /\ bands' = bands \cup txn[s].fresh
  /\ txn' = [txn EXCEPT ![s] = Idle]
  /\ UNCHANGED <<cycles, employees, auditLog, ledger, pending, head, history>>

\* The unique constraint refuses a second proposal that passed the check: nothing
\* stays, the default bands included.
DuplicateProposal(s) ==
  /\ txn[s].pc = "insert"
  /\ \E e \in txn[s].todo : Exists(txn[s].cycle, e)
  /\ txn' = [txn EXCEPT ![s] = Idle]
  /\ UNCHANGED <<tables, history, ledger, pending, head>>

------------------------------------------------------------------------------
(* audit_proposal, batch_audit_cycle and approve_proposal.                 *)

\* Mutant of BeginAudit: one transaction audits every proposal of the cycle.
BeginAuditAll(s, c, e) ==
  /\ "audit" \in Ops
  /\ Ready(s) /\ Room(Cardinality(Employee))
  /\ Exists(c, e)
  /\ txn' = [txn EXCEPT ![s] = Begin("read", "audit", c, { x \in Employee : Exists(c, x) }, <<>>)]
  /\ UNCHANGED <<tables, history, ledger, pending, head>>

BeginAudit(s, c, e) ==
  /\ "audit" \in Ops
  /\ Ready(s) /\ Room(1)
  /\ Exists(c, e)
  /\ txn' = [txn EXCEPT ![s] = Begin("read", "audit", c, {e}, <<>>)]
  /\ UNCHANGED <<tables, history, ledger, pending, head>>

\* SELECT of the ids: those asked for that are in the cycle, whatever their status.
BeginBatch(s, c, ids) ==
  /\ "batch" \in Ops
  /\ LET found == { e \in ids : Exists(c, e) } IN
       /\ found # {}
       /\ Ready(s) /\ Room(Cardinality(found))
       /\ txn' = [txn EXCEPT ![s] = Begin("read", "batch", c, found, <<>>)]
  /\ UNCHANGED <<tables, history, ledger, pending, head>>

\* Mutant of MayAudit: only DRAFT and REJECTED proposals are checked.
MayAuditAny(status) ==
  status \in {"DRAFT", "REJECTED"} =>
    CanTransitionReview(status, "SUBMITTED") /\ CanTransitionReview("SUBMITTED", "AGENT_AUDITING")

\* The transitions audit_proposal asks for before the agent runs.
MayAudit(status) ==
  IF status \in {"DRAFT", "REJECTED"}
  THEN CanTransitionReview(status, "SUBMITTED") /\ CanTransitionReview("SUBMITTED", "AGENT_AUDITING")
  ELSE CanTransitionReview(status, "AGENT_AUDITING")

\* The agent's verdict is a function of the proposal's figures, which are not
\* modelled: any of its three decisions.
AgentDecisions ==
  { d \in {"AUTO_APPROVED", "VP_EXCEPTION_REQUIRED", "REJECTED"} :
      d \in Verdicts /\ CanTransitionReview("AGENT_AUDITING", d) }

\* The SELECT of one proposal, the transitions, the lookup of the proposed level's
\* band and the agent's decision.
ReadProposal(s) ==
  /\ txn[s].pc = "read"
  /\ \E e \in txn[s].todo :
       LET c == txn[s].cycle
           status == reviews[c][e].status
       IN \/ /\ MayAudit(status)
             /\ \E decision \in AgentDecisions, levels \in Levels[e] :
                \E missing \in Missing(<<levels[2]>>, txn[s].fresh) :
                  txn' = [txn EXCEPT
                    ![s].pc = "flush",
                    ![s].todo = @ \ {e},
                    ![s].missing = missing,
                    ![s].logs = Append(@, ReviewLog(c, e, "AGENT_AUDIT", status, decision))]
             /\ UNCHANGED <<ledger, pending, head, history>>
          \/ /\ ~ MayAudit(status)
             /\ txn' = [txn EXCEPT ![s] = Illegal(txn[s].op, status)]
             /\ Ledger!Rollback(s)
             /\ Forget(s)
  /\ UNCHANGED tables

\* Mutant of BeginApprove: the status is assigned without asking the state machine.
BeginApproveAny(s, c, e) ==
  /\ "approve" \in Ops
  /\ Ready(s) /\ Room(1)
  /\ Exists(c, e)
  /\ LET status == reviews[c][e].status IN
       txn' = [txn EXCEPT ![s] =
         Begin("flush", "approve", c, {},
               <<ReviewLog(c, e, "VP_APPROVAL", status, "VP_APPROVED")>>)]
  /\ UNCHANGED <<tables, history, ledger, pending, head>>

BeginApprove(s, c, e) ==
  /\ "approve" \in Ops
  /\ Ready(s) /\ Room(1)
  /\ Exists(c, e)
  /\ LET status == reviews[c][e].status IN
       txn' = [txn EXCEPT ![s] =
         IF CanTransitionReview(status, "VP_APPROVED")
         THEN Begin("flush", "approve", c, {},
                    <<ReviewLog(c, e, "VP_APPROVAL", status, "VP_APPROVED")>>)
         ELSE Illegal("approve", status)]
  /\ UNCHANGED <<tables, history, ledger, pending, head>>

\* UPDATE of the review and INSERT of the audit_logs row: the UPDATE waits for the
\* row's lock, then overwrites whatever status is there.  When the band is missing, it
\* is get_band's flush that sends the UPDATE, ahead of the default band.
Flush(s) ==
  /\ txn[s].pc = "flush"
  /\ LockHolder(s) = {}
  /\ txn' = [txn EXCEPT ![s].pc = IF txn[s].missing = <<>> THEN "ledger" ELSE "band"]
  /\ UNCHANGED <<tables, history, ledger, pending, head>>

\* Mutant of ReadLedgerHead: a batch does not see the blocks it has inserted itself.
ReadLedgerHeadUnflushed(s) ==
  /\ txn[s].pc = "ledger"
  /\ Ledger!ReadHeadUnflushed(s)
  /\ txn' = [txn EXCEPT ![s].pc = "block"]
  /\ UNCHANGED <<tables, history>>

\* record_entry, first statement.
ReadLedgerHead(s) ==
  /\ txn[s].pc = "ledger"
  /\ Ledger!ReadHead(s)
  /\ txn' = [txn EXCEPT ![s].pc = "block"]
  /\ UNCHANGED <<tables, history>>

\* record_entry, second statement: the block for the row just flushed; a batch then
\* goes on to its next proposal.
InsertLedgerBlock(s) ==
  /\ txn[s].pc = "block"
  /\ LET row == txn[s].logs[Len(txn[s].logs)]
     IN Ledger!InsertBlock(s, LogHeader(row), LogPayload(row))
  /\ txn' = [txn EXCEPT ![s].pc = IF txn[s].todo = {} THEN "commit" ELSE "read"]
  /\ UNCHANGED <<tables, history>>

\* Mutant of LedgerConflict: the error is swallowed and the request commits.
LedgerConflictSwallowed(s) ==
  /\ txn[s].pc = "block"
  /\ Ledger!InsertConflict(s)
  /\ txn' = [txn EXCEPT ![s].pc = "commit"]
  /\ UNCHANGED <<tables, history>>

\* Mutant of LedgerConflict: the same insert is tried again.
LedgerConflictRetried(s) ==
  /\ txn[s].pc = "block"
  /\ head[s].sequence_id \in DOMAIN ledger
  /\ UNCHANGED vars

\* Another request has committed that block: IntegrityError, and get_db rolls back.
LedgerConflict(s) ==
  /\ txn[s].pc = "block"
  /\ Ledger!InsertConflict(s)
  /\ txn' = [txn EXCEPT ![s] = Idle]
  /\ Forget(s)
  /\ UNCHANGED tables

\* Review statuses after the rows of a transaction are applied.
Decided(c, logs) ==
  [ e \in Employee |->
      IF \E i \in 1..Len(logs) : logs[i].entity = <<c, e>>
      THEN [reviews[c][e] EXCEPT !.status =
              logs[CHOOSE i \in 1..Len(logs) : logs[i].entity = <<c, e>>].new_status]
      ELSE reviews[c][e] ]

CommitDecisions(s) ==
  /\ txn[s].pc = "commit"
  /\ Ledger!Commit(s)
  /\ reviews' = [reviews EXCEPT ![txn[s].cycle] = Decided(txn[s].cycle, txn[s].logs)]
  /\ bands' = bands \cup txn[s].fresh
  /\ auditLog' = auditLog \o txn[s].logs
  /\ txn' = [txn EXCEPT ![s] = Idle]
  /\ Overwrite(s, InHand(s))
  /\ UNCHANGED <<cycles, employees>>

------------------------------------------------------------------------------
(* finalize_cycle.                                                         *)

\* Mutant of BeginFinalize: a finalized cycle may be finalized again.
BeginFinalizeAgain(s, c) ==
  /\ "finalize" \in Ops
  /\ Ready(s)
  /\ cycles[c] # "NONE"
  /\ txn' = [txn EXCEPT ![s] = Begin("reviews", "finalize", c, {}, <<>>)]
  /\ UNCHANGED <<tables, history, ledger, pending, head>>

\* get_cycle, and the refusal of a cycle that is already finalized.
BeginFinalize(s, c) ==
  /\ "finalize" \in Ops
  /\ Ready(s)
  /\ cycles[c] \notin {"NONE", "FINALIZED"}
  /\ txn' = [txn EXCEPT ![s] = Begin("reviews", "finalize", c, {}, <<>>)]
  /\ UNCHANGED <<tables, history, ledger, pending, head>>

ReadReviews(s) ==
  /\ txn[s].pc = "reviews"
  /\ LET c == txn[s].cycle IN
       txn' = [txn EXCEPT ![s].pc = "employees",
                          ![s].seen = [e \in { x \in Employee : Exists(c, x) } |-> reviews[c][e]]]
  /\ UNCHANGED <<tables, history, ledger, pending, head>>

Unresolved == {"SUBMITTED", "AGENT_AUDITING", "VP_EXCEPTION_REQUIRED"}

Approved == {"AUTO_APPROVED", "VP_APPROVED"}

\* selectinload issues a second SELECT, for the employees of those reviews; then the
\* handler refuses (400) a cycle with unresolved proposals.
ReadEmployees(s) ==
  /\ txn[s].pc = "employees"
  /\ LET seen == txn[s].seen IN
       \/ /\ \E e \in DOMAIN seen : seen[e].status \in Unresolved
          /\ txn' = [txn EXCEPT ![s] = Idle]
          /\ Forget(s)
       \/ /\ \A e \in DOMAIN seen : seen[e].status \notin Unresolved
          /\ txn' = [txn EXCEPT ![s] =
               [@ EXCEPT !.pc = "apply", !.people = [e \in DOMAIN seen |-> employees[e]]]]
          /\ UNCHANGED history
  /\ UNCHANGED <<tables, ledger, pending, head>>

\* Mutant of ToFinalize: every proposal of the cycle is finalized.
ToFinalizeAll(s) == DOMAIN txn[s].seen

ToFinalize(s) ==
  { e \in DOMAIN txn[s].seen :
      txn[s].seen[e].status \in Approved /\ CanTransitionReview(txn[s].seen[e].status, "FINALIZED") }

\* Mutant of Raised: the grant replaces the equity instead of adding to it.
RaisedReplacing(e, seen, person) ==
  [ base |-> seen.proposed_base,
    equity |-> IF seen.rsus = 0 THEN employees[e].equity ELSE seen.rsus ]

\* The employee row after the UPDATE computed from the copies the session holds: a
\* column whose value does not change from the copy is not written.
Raised(e, seen, person) ==
  [ base |-> IF seen.proposed_base = person.base THEN employees[e].base ELSE seen.proposed_base,
    equity |-> IF seen.rsus = 0 THEN employees[e].equity ELSE person.equity + seen.rsus ]

\* The flush and the commit.  The UPDATEs wait for the locks of the reviews; their
\* values were fixed when the rows were read.
Finalize(s) ==
  /\ txn[s].pc = "apply"
  /\ LET c == txn[s].cycle
         chosen == ToFinalize(s)
     IN /\ \A t \in Session \ {s} : \A e \in chosen : <<c, e>> \notin Locks(t)
        /\ reviews' = [reviews EXCEPT ![c] =
             [e \in Employee |-> IF e \in chosen THEN [@[e] EXCEPT !.status = "FINALIZED"] ELSE @[e]]]
        /\ employees' = [e \in Employee |->
             IF e \in chosen THEN Raised(e, txn[s].seen[e], txn[s].people[e]) ELSE employees[e]]
        /\ cycles' = [cycles EXCEPT ![c] = "FINALIZED"]
        /\ auditLog' = Append(auditLog, CycleLog(c))
        /\ Overwrite(s, { ReviewRow(c, e) : e \in chosen }
                        \cup { EmployeeRow(e) : e \in chosen } \cup { CycleRow(c) })
  /\ txn' = [txn EXCEPT ![s] = Idle]
  /\ UNCHANGED <<bands, ledger, pending, head>>

------------------------------------------------------------------------------
(* Aborts.                                                                 *)

\* A transaction dies with its replica, its connection or an unrelated exception.
Abort(s) ==
  /\ Active(s)
  /\ Ledger!Rollback(s)
  /\ txn' = [txn EXCEPT ![s] = Idle]
  /\ Forget(s)
  /\ UNCHANGED tables

\* s waits for t: for a review's lock, or for the key of a band or a block t has
\* inserted.
Waits(s, t) ==
  \/ txn[s].pc \in {"bands", "band"} /\ t \in BandHolder(s)
  \/ txn[s].pc = "flush" /\ t \in LockHolder(s)
  \/ txn[s].pc = "block" /\ t \in Ledger!KeyHolder(s)

\* A transaction waits for at most one other, so a set in which everyone waits for a
\* member and is waited for by a member is made of cycles.
WaitCycle(S) ==
  S # {} /\ \A t \in S : (\E u \in S : Waits(t, u)) /\ (\E u \in S : Waits(u, t))

Deadlocked(s) == \E S \in SUBSET Session : s \in S /\ WaitCycle(S)

\* PostgreSQL's detector aborts a transaction of a cycle.
DeadlockAbort(s) == Deadlocked(s) /\ Abort(s)

\* The steps of s that carry an open transaction on.
Step(s) ==
  \/ CheckExisting(s) \/ InsertProposal(s) \/ DuplicateProposal(s)
  \/ InsertBand(s) \/ BandConflict(s)
  \/ ReadProposal(s) \/ Flush(s)
  \/ ReadLedgerHead(s) \/ InsertLedgerBlock(s) \/ LedgerConflict(s)
  \/ CommitDecisions(s)
  \/ ReadReviews(s) \/ ReadEmployees(s) \/ Finalize(s)
  \/ DeadlockAbort(s)

BeginRequest(s) ==
  \/ \E c \in Cycle, e \in Employee : BeginCreate(s, c, e)
  \/ \E c \in Cycle, e \in Employee : BeginAudit(s, c, e)
  \/ \E c \in Cycle, ids \in SUBSET Employee : BeginBatch(s, c, ids)
  \/ \E c \in Cycle, e \in Employee : BeginApprove(s, c, e)
  \/ \E c \in Cycle : BeginFinalize(s, c)

Next ==
  \/ \E c \in Cycle : CreateCycle(c)
  \/ \E s \in Session : BeginRequest(s) \/ Step(s) \/ Abort(s)

Spec == Init /\ [][Next]_vars

\* Every open transaction is run on by its event loop.  A lock that is released again
\* and again goes to its waiters in turn (PostgreSQL queues them): strong fairness.
FairSpec == Spec /\ \A s \in Session : SF_vars(Step(s))

------------------------------------------------------------------------------
(* Properties.                                                             *)

TypeOK ==
  /\ cycles \in [Cycle -> {"NONE", "ACTIVE", "FINALIZED"}]
  /\ reviews \in [Cycle -> [Employee -> Review \cup {NoReview}]]
  /\ employees \in [Employee -> [base : Base, equity : Nat]]
  /\ bands \subseteq Band
  /\ Ledger!LedgerTypeOK

\* However requests interleave, conflict, deadlock or crash, what they do to the SOX
\* ledger is what SoxLedger allows: its invariants hold of it here.
UsesLedger == Ledger!LedgerSpec

Blocks(c, e) == { i \in DOMAIN ledger : ledger[i].header.entity = <<c, e>> }

\* The decisions among the rows of audit_logs, and the place of row k among them.
DecisionRows == { k \in DOMAIN auditLog : auditLog[k].action # "CYCLE_FINALIZATION" }

Place(k) == Cardinality({ j \in DecisionRows : j <= k })

\* audit_logs and the SOX ledger are written by different statements, but hold the
\* same decisions in the same order (cycle_service.py:264-294, 362-389): as many, and
\* the n-th decision of the one is the n-th block of the other.
LogAgreesWithLedger ==
  /\ Cardinality(DecisionRows) = Ledger!LastSeq(ledger)
  /\ \A k \in DecisionRows :
       /\ Place(k) \in DOMAIN ledger
       /\ ledger[Place(k)].header = LogHeader(auditLog[k])
       /\ ledger[Place(k)].payload = LogPayload(auditLog[k])

\* The status of a review is the one its last block records, also when two requests
\* decided it at once and the later one overwrote the status the earlier one had
\* written: blocks commit in the order of the statuses.  A finalized review has an
\* approving block, a draft none (cycle_service.py:226-278, 434-439).
LedgerTellsStatus ==
  \A c \in Cycle, e \in Employee :
    LET status == reviews[c][e].status
        blocks == Blocks(c, e)
    IN IF status \in {"NONE", "DRAFT"} THEN blocks = {}
       ELSE /\ blocks # {}
            /\ IF status = "FINALIZED"
               THEN \E i \in blocks : ledger[i].payload.new_status \in Approved
               ELSE ledger[Max(blocks)].payload.new_status = status

\* Nobody's salary or equity changes without a block that approved a proposal of
\* theirs, and no VP approval is recorded for a proposal that never needed one.
NoPayWithoutApproval ==
  /\ \A e \in Employee : employees[e] # Hired =>
       \E c \in Cycle : \E i \in Blocks(c, e) : ledger[i].payload.new_status \in Approved
  /\ \A c \in Cycle, e \in Employee : \A i \in Blocks(c, e) :
       ledger[i].payload.new_status = "VP_APPROVED" =>
         \E j \in Blocks(c, e) : j < i /\ ledger[j].payload.new_status = "VP_EXCEPTION_REQUIRED"

\* Below, a row is `lost' once a request has written it from a copy that another
\* request's commit had overtaken.  Nothing in the code rules that out (no row is
\* locked or versioned when it is read); what these properties say is that nothing else
\* goes wrong: however requests interleave, where no update of the row in question has
\* been lost, the outcome is that of requests one at a time.

\* state_machine.py:29, 72: a finalized review is never changed again.
FinalizedIsTerminal ==
  [][ \A c \in Cycle, e \in Employee :
        reviews[c][e].status = "FINALIZED" /\ ReviewRow(c, e) \notin lost' =>
          reviews'[c][e] = reviews[c][e] ]_vars

FinalizedEquity(e) ==
  MapThenSumSet(LAMBDA c : reviews[c][e].rsus,
                { c \in Cycle : reviews[c][e].status = "FINALIZED" })

\* cycle_service.py:402: the equity of an employee is that of their finalized
\* proposals, each granted once, over every cycle and whatever is finalized at once.
EquityAppliedOnce ==
  \A e \in Employee :
    EmployeeRow(e) \notin lost /\ (\A c \in Cycle : ReviewRow(c, e) \notin lost) =>
      employees[e].equity = FinalizedEquity(e)

\* No proposal's grant is added twice: nobody gets more than all their proposals
\* together (cycle_service.py:417: "Cycle is already finalized").
NoGrantTwice ==
  \A e \in Employee :
    employees[e].equity <= MapThenSumSet(LAMBDA c : reviews[c][e].rsus, Cycle)

\* The blocks of a review form one history: each starts at the status the one before
\* ended at, and the first at DRAFT (cycle_service.py:217, 294).
LedgerContinuous ==
  \A c \in Cycle, e \in Employee : ReviewRow(c, e) \notin lost =>
    \A i \in Blocks(c, e) :
      LET before == { j \in Blocks(c, e) : j < i } IN
        ledger[i].payload.previous_status =
          IF before = {} THEN "DRAFT" ELSE ledger[Max(before)].payload.new_status

\* DRAFT is not among the statuses finalize_cycle refuses (cycle_service.py:421), and
\* a finalized cycle is never finalized again: a proposal left behind may still be
\* audited and approved, and is never paid, unless two finalizations of the cycle
\* overlap.
LatecomersUnpaid ==
  [][ \A c \in Cycle, e \in Employee :
        /\ cycles[c] = "FINALIZED" /\ reviews[c][e].status # "FINALIZED"
        /\ CycleRow(c) \notin lost'
        => reviews'[c][e].status # "FINALIZED" ]_vars

\* A circle of waiting requests has a batch in it (cycle_service.py:323), or is made of
\* new proposals each of which has inserted the default band of one level and waits
\* for that of another (cycle_service.py:159-162): a single audit or approval takes the
\* review's lock, at most one band and one block, always in this order.
DeadlockNeedsBatchOrBands ==
  \A S \in SUBSET Session : WaitCycle(S) =>
    \/ \E s \in S : txn[s].op = "batch"
    \/ \A s \in S : txn[s].op = "create" /\ txn[s].fresh # {}

\* Every request comes to an end, batches that deadlock with each other included.
RequestsEnd == \A s \in Session : Active(s) ~> Ready(s)
==============================================================================
