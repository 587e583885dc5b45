---------------------------- MODULE PlanningProofs ----------------------------
(***************************************************************************)
(* Proofs about the merit cycle, for any number of concurrent sessions,    *)
(* cycles and employees.  First, the planning requests keep to the         *)
(* ledger's specification, so what is proved of SoxLedger holds of the     *)
(* ledger they write.  Then, what they leave in the tables: the review's   *)
(* status, the audit_logs rows and the ledger's blocks tell the same story,*)
(* and nobody is paid without an approval on record.                       *)
(*                                                                         *)
(* The argument: a transaction carries its decisions along (DecidingInv)   *)
(* with their blocks beside them (BlocksInv), and what it has read to base *)
(* them on (an exception, an approval) stays on record, since blocks are   *)
(* only added.  So its commit, which publishes statuses, rows and blocks   *)
(* at once, keeps the three tables in step.                                *)
(*                                                                         *)
(* Last, what concurrent requests may spoil: a session's copy of a row is  *)
(* the row itself or is in stale[s] (CopiesInv), so whatever it writes is  *)
(* based on the row as it is, or the row is lost.  Rows that are not lost  *)
(* have the history that one request at a time would give them.            *)
(***************************************************************************)
EXTENDS PlanningCycle, SequenceTheorems, FiniteSums

------------------------------------------------------------------------------
(* The rows a transaction has built are ones record_entry may be given.    *)

Header == [ entity : Cycle \X Employee, action : {"AGENT_AUDIT", "VP_APPROVAL"} ]

Payload == [ previous_status : ReviewStatus, new_status : ReviewStatus ]

Decision ==
  [ entity : Cycle \X Employee, action : {"AGENT_AUDIT", "VP_APPROVAL"},
    previous_status : ReviewStatus, new_status : ReviewStatus ]

Proposing == {"check", "bands", "insert"}

Deciding == {"read", "flush", "band", "ledger", "block", "commit"}

\* The row at hand has no block yet.
Writing == {"flush", "band", "ledger", "block"}

Finalizing == {"reviews", "employees", "apply"}

Running == Proposing \cup Deciding \cup Finalizing

WellFormed(t) ==
  /\ t.pc \in Running =>
       /\ t = [ pc |-> t.pc, op |-> t.op, cycle |-> t.cycle, todo |-> t.todo,
                logs |-> t.logs, seen |-> t.seen, people |-> t.people,
                missing |-> t.missing, fresh |-> t.fresh ]
       /\ t.cycle \in Cycle /\ t.todo \subseteq Employee
       /\ t.missing \in Seq(Band)
       /\ t.fresh \subseteq Band
  /\ t.pc \in Deciding =>
       /\ t.op \in {"audit", "batch", "approve"}
       /\ t.logs \in Seq(Decision)
       /\ t.pc \in Writing => t.logs # <<>>
       /\ t.pc \in {"flush", "band"} => Len(t.missing) <= 1
  /\ t.pc \in Proposing => t.op = "create" /\ t.logs = <<>>
  /\ t.pc \in Finalizing => t.op = "finalize" /\ t.logs = <<>>
  /\ t.pc \in {"bands", "band"} => t.missing # <<>>

TxnInv ==
  /\ txn = [s \in Session |-> txn[s]]
  /\ \A s \in Session : WellFormed(txn[s])

LEMMA StatusOfTransition ==
  ASSUME NEW from, NEW to, CanTransitionReview(from, to)
  PROVE  from \in ReviewStatus /\ to \in ReviewStatus
BY DEF CanTransitionReview, ReviewTransitions, ReviewStatus

LEMMA AuditedStatus ==
  ASSUME NEW status, MayAudit(status)
  PROVE  status \in ReviewStatus
BY StatusOfTransition DEF MayAudit

LEMMA DecisionOfLog ==
  ASSUME NEW c \in Cycle, NEW e \in Employee, NEW action \in {"AGENT_AUDIT", "VP_APPROVAL"},
         NEW from \in ReviewStatus, NEW to \in ReviewStatus
  PROVE  ReviewLog(c, e, action, from, to) \in Decision
BY DEF ReviewLog, Decision

\* A step of one session that leaves its transaction well formed keeps the invariant.
LEMMA OneTxn ==
  ASSUME TxnInv, NEW s \in Session,
         txn' = [u \in Session |-> txn'[u]], WellFormed(txn'[s]),
         \A u \in Session \ {s} : txn'[u] = txn[u]
  PROVE  TxnInv'
<1>1. \A u \in Session : WellFormed(txn'[u])
  BY DEF TxnInv
<1>. QED
  BY <1>1 DEF TxnInv, WellFormed

\* The same, for the steps that give the session a new transaction.
LEMMA NewTxn ==
  ASSUME TxnInv, NEW s \in Session, NEW t, WellFormed(t), txn' = [txn EXCEPT ![s] = t]
  PROVE  TxnInv'
<1>1. /\ txn' = [u \in Session |-> txn'[u]]
      /\ txn'[s] = t
      /\ \A u \in Session \ {s} : txn'[u] = txn[u]
  BY DEF TxnInv
<1>. QED
  BY <1>1, OneTxn

LEMMA Phases ==
  /\ Proposing \cup Deciding \cup Finalizing = Running
  /\ Writing \subseteq Deciding
  /\ \A pc \in Proposing : pc \notin Deciding /\ pc \notin Finalizing
  /\ \A pc \in Deciding : pc \notin Finalizing
  /\ \A pc \in {"idle", "illegal"} : pc \notin Running /\ pc \notin {"bands", "band"}
BY DEF Running, Proposing, Deciding, Writing, Finalizing

\* What a record must be to be well formed, told of its fields.
Fields(t, pc, op, c, todo, logs) ==
  /\ t = [ pc |-> t.pc, op |-> t.op, cycle |-> t.cycle, todo |-> t.todo,
           logs |-> t.logs, seen |-> t.seen, people |-> t.people,
           missing |-> t.missing, fresh |-> t.fresh ]
  /\ t.pc = pc /\ t.op = op /\ t.cycle = c /\ t.todo = todo /\ t.logs = logs

LEMMA FieldsOfRecord ==
  ASSUME NEW t, NEW pc, NEW op, NEW c, NEW todo, NEW logs, NEW seen, NEW people,
         NEW missing, NEW fresh,
         t = [ pc |-> pc, op |-> op, cycle |-> c, todo |-> todo, logs |-> logs,
               seen |-> seen, people |-> people, missing |-> missing, fresh |-> fresh ]
  PROVE  /\ Fields(t, pc, op, c, todo, logs) /\ t.missing = missing /\ t.fresh = fresh
         /\ t.seen = seen /\ t.people = people
BY DEF Fields

LEMMA IdleWellFormed == WellFormed(Idle)
BY Phases DEF WellFormed, Idle

LEMMA IllegalWellFormed == ASSUME NEW op, NEW status PROVE WellFormed(Illegal(op, status))
BY Phases DEF WellFormed, Illegal

\* The phase a request begins in.
BeginsIn(pc, op) ==
  <<pc, op>> \in { <<"check", "create">>, <<"read", "audit">>, <<"read", "batch">>,
                   <<"flush", "approve">>, <<"reviews", "finalize">> }

LEMMA BeginWellFormed ==
  ASSUME NEW pc, NEW op, BeginsIn(pc, op), NEW c \in Cycle,
         NEW todo \in SUBSET Employee, NEW logs \in Seq(Decision),
         pc = "flush" <=> logs # <<>>
  PROVE  WellFormed(Begin(pc, op, c, todo, logs))
<1>1. <<>> \in Seq(Band) /\ Len(<<>>) = 0 /\ Len(<<>>) <= 1 /\ {} \in SUBSET Band
  OBVIOUS
<1>2. /\ pc \in Running /\ pc \notin {"bands", "band"}
      /\ pc \in Proposing <=> pc = "check"
      /\ pc \in Deciding <=> pc \in {"read", "flush"}
      /\ pc \in Writing <=> pc = "flush"
      /\ pc \in Finalizing <=> pc = "reviews"
      /\ pc \in {"read", "flush"} => op \in {"audit", "batch", "approve"}
      /\ pc = "check" => op = "create"
      /\ pc = "reviews" => op = "finalize"
  BY DEF BeginsIn, Running, Proposing, Deciding, Writing, Finalizing
<1>. QED
  BY <1>1, <1>2 DEF Begin, WellFormed

LEMMA BeginNothing ==
  ASSUME NEW pc \in {"check", "read", "reviews"}, NEW op, BeginsIn(pc, op), NEW c \in Cycle,
         NEW todo \in SUBSET Employee
  PROVE  WellFormed(Begin(pc, op, c, todo, <<>>))
<1>1. <<>> \in Seq(Decision)
  OBVIOUS
<1>2. pc # "flush"
  OBVIOUS
<1>. QED
  BY <1>1, <1>2, BeginWellFormed

LEMMA TxnInvInit == Init => TxnInv
BY IdleWellFormed DEF Init, TxnInv

LEMMA BeginKeepsTxn ==
  ASSUME TxnInv, NEW s \in Session, BeginRequest(s)
  PROVE  TxnInv'
<1>1. CASE \E c \in Cycle, e \in Employee : BeginCreate(s, c, e)
  <2>1. PICK c \in Cycle, e \in Employee : BeginCreate(s, c, e)
    BY <1>1
  <2>2. WellFormed(Begin("check", "create", c, {e}, <<>>))
    BY BeginNothing DEF BeginsIn
  <2>. QED
    BY <2>1, <2>2, NewTxn DEF BeginCreate
<1>2. CASE \E c \in Cycle, e \in Employee : BeginAudit(s, c, e)
  <2>1. PICK c \in Cycle, e \in Employee : BeginAudit(s, c, e)
    BY <1>2
  <2>2. WellFormed(Begin("read", "audit", c, {e}, <<>>))
    BY BeginNothing DEF BeginsIn
  <2>. QED
    BY <2>1, <2>2, NewTxn DEF BeginAudit
<1>3. CASE \E c \in Cycle, ids \in SUBSET Employee : BeginBatch(s, c, ids)
  <2>1. PICK c \in Cycle, ids \in SUBSET Employee : BeginBatch(s, c, ids)
    BY <1>3
  <2>2. txn' = [txn EXCEPT ![s] = Begin("read", "batch", c, { e \in ids : Exists(c, e) }, <<>>)]
    BY <2>1 DEF BeginBatch
  <2>3. { e \in ids : Exists(c, e) } \in SUBSET Employee
    OBVIOUS
  <2>4. WellFormed(Begin("read", "batch", c, { e \in ids : Exists(c, e) }, <<>>))
    BY <2>3, BeginNothing DEF BeginsIn
  <2>. QED
    BY <2>2, <2>4, NewTxn
<1>4. CASE \E c \in Cycle, e \in Employee : BeginApprove(s, c, e)
  <2>1. PICK c \in Cycle, e \in Employee : BeginApprove(s, c, e)
    BY <1>4
  <2>. DEFINE status == reviews[c][e].status
              row == ReviewLog(c, e, "VP_APPROVAL", status, "VP_APPROVED")
  <2>2. txn' = [txn EXCEPT ![s] = IF CanTransitionReview(status, "VP_APPROVED")
                                  THEN Begin("flush", "approve", c, {}, <<row>>)
                                  ELSE Illegal("approve", status)]
    BY <2>1 DEF BeginApprove
  <2>3. CASE CanTransitionReview(status, "VP_APPROVED")
    <3>1. row \in Decision
      BY <2>3, StatusOfTransition, DecisionOfLog
    <3>2. <<row>> \in Seq(Decision) /\ <<row>> # <<>>
      BY <3>1
    <3>. HIDE DEF row, status
    <3>3. WellFormed(Begin("flush", "approve", c, {}, <<row>>))
      <4>1. BeginsIn("flush", "approve") /\ {} \in SUBSET Employee
        BY DEF BeginsIn
      <4>. QED
        BY <3>2, <4>1, BeginWellFormed
    <3>. QED
      BY <2>2, <2>3, <3>3, NewTxn
  <2>4. CASE ~ CanTransitionReview(status, "VP_APPROVED")
    BY <2>2, <2>4, IllegalWellFormed, NewTxn
  <2>. QED
    BY <2>3, <2>4
<1>5. CASE \E c \in Cycle : BeginFinalize(s, c)
  <2>1. PICK c \in Cycle : BeginFinalize(s, c)
    BY <1>5
  <2>2. WellFormed(Begin("reviews", "finalize", c, {}, <<>>))
    BY BeginNothing DEF BeginsIn
  <2>. QED
    BY <2>1, <2>2, NewTxn DEF BeginFinalize
<1>. QED
  BY <1>1, <1>2, <1>3, <1>4, <1>5 DEF BeginRequest

------------------------------------------------------------------------------
(* The steps within a transaction.                                         *)

\* What get_band still has to insert are some of the bands it was asked for.
LEMMA MissingBands ==
  ASSUME NEW keys \in Seq(Band), NEW inserted, NEW missing \in Missing(keys, inserted)
  PROVE  missing \in Seq(Band) /\ Len(missing) <= Len(keys)
<1>1. CASE missing = <<>>
  BY <1>1
<1>2. ASSUME NEW i \in 1..Len(keys), missing = SubSeq(keys, i, Len(keys))
      PROVE  missing \in Seq(Band) /\ Len(missing) <= Len(keys)
  BY <1>2, SubSeqProperties
<1>. QED
  BY <1>1, <1>2 DEF Missing

LEMMA BandsOfLevels ==
  ASSUME NEW e \in Employee, NEW levels \in Levels[e]
  PROVE  levels \in Seq(Band) /\ Len(levels) = 2 /\ <<levels[2]>> \in Seq(Band)
<1>1. levels \in Band \X Band
  BY PlanningAssumption
<1>2. PICK a \in Band, b \in Band : levels = <<a, b>>
  BY <1>1
<1>. QED
  BY <1>2

\* A step that carries a transaction on to `pc', its decisions and what it has read
\* untouched.
Moved(s, pc) ==
  LET t == txn[s] IN
    /\ txn' = [u \in Session |-> txn'[u]]
    /\ txn'[s] = [ pc |-> pc, op |-> t.op, cycle |-> t.cycle, todo |-> t.todo,
                   logs |-> t.logs, seen |-> t.seen, people |-> t.people,
                   missing |-> txn'[s].missing, fresh |-> txn'[s].fresh ]
    /\ txn'[s].missing \in Seq(Band)
    /\ txn'[s].fresh \subseteq Band
    /\ \A u \in Session \ {s} : txn'[u] = txn[u]

\* Where such a step goes.
Carries(s, pc) ==
  /\ Moved(s, pc)
  /\ txn'[s].op # "batch" /\ pc \in {"flush", "band", "read"} => txn'[s].fresh = txn[s].fresh
  /\ \/ txn[s].pc = "flush" /\ pc = "ledger"
     \/ txn[s].pc = "flush" /\ pc = "band" /\ txn'[s].missing = txn[s].missing
                            /\ txn[s].missing # <<>>
     \/ txn[s].pc = "band" /\ pc = "ledger"
     \/ txn[s].pc = "bands" /\ pc = "bands" /\ txn'[s].missing # <<>>
     \/ txn[s].pc = "bands" /\ pc = "insert"
     \/ txn[s].pc = "ledger" /\ pc = "block"
     \/ txn[s].pc = "block" /\ pc = "commit" /\ txn[s].todo = {}
     \/ txn[s].pc = "block" /\ pc = "read" /\ txn[s].todo # {}

LEMMA MovesOn ==
  ASSUME TxnInv, NEW s \in Session, NEW pc, Carries(s, pc)
  PROVE  TxnInv'
<1>. DEFINE t == txn[s]
            missing == txn'[s].missing
<1>1. WellFormed(t) /\ t.pc \in Running
  BY DEF TxnInv, Carries, Running, Proposing, Deciding
<1>2. /\ t.cycle \in Cycle /\ t.todo \in SUBSET Employee
      /\ missing \in Seq(Band) /\ txn'[s].fresh \in SUBSET Band
  BY <1>1 DEF WellFormed, Carries, Moved
<1>6. Fields(txn'[s], pc, t.op, t.cycle, t.todo, t.logs)
  BY FieldsOfRecord DEF Carries, Moved
<1>3. ASSUME t.pc = "bands" PROVE WellFormed(txn'[s])
  <2>1. pc \in {"bands", "insert"} /\ (pc = "bands" => missing # <<>>)
    BY <1>3 DEF Carries
  <2>2. /\ pc \in Running /\ pc \in Proposing /\ pc \notin Deciding /\ pc \notin Finalizing
        /\ pc # "band"
    BY <2>1 DEF Running, Proposing, Deciding, Finalizing
  <2>3. t.op = "create" /\ t.logs = <<>>
    BY <1>1, <1>3 DEF WellFormed, Proposing
  <2>. QED
    BY <1>2, <1>6, <2>1, <2>2, <2>3 DEF WellFormed, Fields
<1>4. ASSUME t.pc # "bands" PROVE WellFormed(txn'[s])
  <2>1. /\ t.pc \in Writing
        /\ pc \in {"band", "ledger", "block", "commit", "read"}
        /\ pc = "band" => t.pc = "flush" /\ missing = t.missing /\ missing # <<>>
    BY <1>4 DEF Carries, Writing
  <2>2. /\ pc \in Running /\ pc \in Deciding /\ pc \notin Proposing /\ pc \notin Finalizing
        /\ pc \notin {"bands", "flush"}
    BY <2>1 DEF Running, Proposing, Deciding, Finalizing
  <2>3. t.op \in {"audit", "batch", "approve"} /\ t.logs \in Seq(Decision) /\ t.logs # <<>>
    BY <1>1, <2>1, Phases DEF WellFormed
  <2>4. pc = "band" => Len(missing) <= 1
    BY <1>1, <2>1, Phases DEF WellFormed
  <2>. QED
    BY <1>2, <1>6, <2>1, <2>2, <2>3, <2>4 DEF WellFormed, Fields
<1>5. WellFormed(txn'[s])
  BY <1>3, <1>4
<1>. QED
  BY <1>5, OneTxn DEF Carries, Moved

\* The steps that do.
LEMMA MovedPc ==
  ASSUME TxnInv, NEW s \in Session, txn[s].pc \in Running, NEW pc,
         txn' = [txn EXCEPT ![s].pc = pc]
  PROVE  /\ Moved(s, pc)
         /\ txn'[s].missing = txn[s].missing /\ txn'[s].fresh = txn[s].fresh
         /\ txn'[s].op = txn[s].op
<1>1. WellFormed(txn[s])
  BY DEF TxnInv
<1>2. txn'[s] = [ pc |-> pc, op |-> txn[s].op, cycle |-> txn[s].cycle, todo |-> txn[s].todo,
                  logs |-> txn[s].logs, seen |-> txn[s].seen, people |-> txn[s].people,
                  missing |-> txn[s].missing, fresh |-> txn[s].fresh ]
  BY <1>1 DEF TxnInv, WellFormed
<1>3. /\ txn' = [u \in Session |-> txn'[u]]
      /\ \A u \in Session \ {s} : txn'[u] = txn[u]
  BY DEF TxnInv
<1>. QED
  BY <1>1, <1>2, <1>3 DEF Moved, WellFormed

LEMMA FlushMoves ==
  ASSUME TxnInv, NEW s \in Session, Flush(s)
  PROVE  \E pc \in {"ledger", "band"} : Carries(s, pc) /\ txn'[s].fresh = txn[s].fresh
<1>1. txn[s].pc = "flush" /\ txn[s].pc \in Running
  BY DEF Flush, Running, Deciding
<1>2. CASE txn[s].missing = <<>>
  <2>1. txn' = [txn EXCEPT ![s].pc = "ledger"]
    BY <1>2 DEF Flush
  <2>. QED
    BY <1>1, <2>1, MovedPc DEF Carries
<1>3. CASE txn[s].missing # <<>>
  <2>1. txn' = [txn EXCEPT ![s].pc = "band"]
    BY <1>3 DEF Flush
  <2>. QED
    BY <1>1, <1>3, <2>1, MovedPc DEF Carries
<1>. QED
  BY <1>2, <1>3

LEMMA ReadHeadMoves ==
  ASSUME TxnInv, NEW s \in Session, ReadLedgerHead(s)
  PROVE  Carries(s, "block") /\ txn'[s].fresh = txn[s].fresh
<1>1. txn[s].pc = "ledger" /\ txn[s].pc \in Running /\ txn' = [txn EXCEPT ![s].pc = "block"]
  BY DEF ReadLedgerHead, Running, Deciding
<1>. QED
  BY <1>1, MovedPc DEF Carries

LEMMA InsertBlockMoves ==
  ASSUME TxnInv, NEW s \in Session, InsertLedgerBlock(s)
  PROVE  \E pc \in {"commit", "read"} : Carries(s, pc) /\ txn'[s].fresh = txn[s].fresh
<1>1. txn[s].pc = "block" /\ txn[s].pc \in Running
  BY DEF InsertLedgerBlock, Running, Deciding
<1>2. CASE txn[s].todo = {}
  <2>1. txn' = [txn EXCEPT ![s].pc = "commit"]
    BY <1>2 DEF InsertLedgerBlock
  <2>. QED
    BY <1>1, <1>2, <2>1, MovedPc DEF Carries
<1>3. CASE txn[s].todo # {}
  <2>1. txn' = [txn EXCEPT ![s].pc = "read"]
    BY <1>3 DEF InsertLedgerBlock
  <2>. QED
    BY <1>1, <1>3, <2>1, MovedPc DEF Carries
<1>. QED
  BY <1>2, <1>3

\* get_band inserts a default band: a create goes on to its next band or to its
\* proposal, an audit to the ledger.
LEMMA InsertBandMoves ==
  ASSUME TxnInv, NEW s \in Session, InsertBand(s)
  PROVE  \E pc \in {"bands", "insert", "ledger"} : Carries(s, pc)
<1>1. txn[s].pc \in {"bands", "band"} /\ txn[s].pc \in Running /\ WellFormed(txn[s])
  BY DEF InsertBand, TxnInv, Running, Proposing, Deciding
<1>. DEFINE key == Head(txn[s].missing)
            fresh == txn[s].fresh \cup {key}
            To(missing) == IF missing # <<>> THEN txn[s].pc
                           ELSE IF txn[s].pc = "bands" THEN "insert" ELSE "ledger"
<1>2. /\ txn[s].missing \in Seq(Band) /\ txn[s].missing # <<>>
      /\ txn[s].fresh \subseteq Band
  BY <1>1 DEF WellFormed
<1>3. /\ key \in Band
      /\ Tail(txn[s].missing) \in Seq(Band)
      /\ Len(Tail(txn[s].missing)) = Len(txn[s].missing) - 1
  BY <1>2, HeadTailProperties
<1>4. fresh \subseteq Band
  BY <1>2, <1>3
<1>5. PICK missing \in Missing(Tail(txn[s].missing), fresh) :
        txn' = [txn EXCEPT
               ![s].pc = IF missing # <<>> THEN @ ELSE IF @ = "bands" THEN "insert" ELSE "ledger",
               ![s].missing = missing,
               ![s].fresh = fresh]
  BY DEF InsertBand
<1>. HIDE DEF key, fresh
<1>6. missing \in Seq(Band) /\ Len(missing) <= Len(txn[s].missing) - 1
  BY <1>3, <1>5, MissingBands
<1>7. txn'[s] = [ pc |-> To(missing), op |-> txn[s].op, cycle |-> txn[s].cycle,
                  todo |-> txn[s].todo, logs |-> txn[s].logs, seen |-> txn[s].seen,
                  people |-> txn[s].people, missing |-> missing, fresh |-> fresh ]
  BY <1>1, <1>5 DEF TxnInv, WellFormed
<1>8. /\ txn' = [u \in Session |-> txn'[u]]
      /\ \A u \in Session \ {s} : txn'[u] = txn[u]
  BY <1>5 DEF TxnInv
<1>9. Moved(s, To(missing)) /\ txn'[s].missing = missing
  BY <1>4, <1>6, <1>7, <1>8 DEF Moved
<1>10. CASE txn[s].pc = "bands"
  <2>1. To(missing) \in {"bands", "insert"}
    BY <1>10
  <2>2. Carries(s, To(missing))
    BY <1>9, <1>10 DEF Carries
  <2>. QED
    BY <2>1, <2>2
<1>11. CASE txn[s].pc = "band"
  <2>1. Len(txn[s].missing) <= 1
    BY <1>1, <1>11 DEF WellFormed, Deciding
  <2>2. missing = <<>>
    BY <1>2, <1>6, <2>1
  <2>3. To(missing) = "ledger"
    BY <1>11, <2>2
  <2>4. Carries(s, "ledger")
    BY <1>9, <1>11, <2>3 DEF Carries
  <2>. QED
    BY <2>4
<1>. QED
  BY <1>1, <1>10, <1>11

\* The agent's decision on a proposal, and what the session holds then.
Reads(s, e, decision) ==
  LET t == txn[s]
      status == reviews[t.cycle][e].status
  IN /\ MayAudit(status)
     /\ txn'[s] = [ pc |-> "flush", op |-> t.op, cycle |-> t.cycle, todo |-> t.todo \ {e},
                    logs |-> Append(t.logs, ReviewLog(t.cycle, e, "AGENT_AUDIT", status, decision)),
                    seen |-> t.seen, people |-> t.people,
                    missing |-> txn'[s].missing, fresh |-> t.fresh ]
     /\ txn' = [u \in Session |-> txn'[u]]
     /\ \A u \in Session \ {s} : txn'[u] = txn[u]
     /\ UNCHANGED <<ledger, pending, head, history>>

LEMMA ReadFacts ==
  ASSUME TxnInv, NEW s \in Session, ReadProposal(s)
  PROVE  /\ txn[s].pc = "read" /\ WellFormed(txn[s]) /\ txn[s].pc \in Deciding
         /\ txn[s].pc \in Running
         /\ txn[s].cycle \in Cycle /\ txn[s].todo \subseteq Employee
         /\ txn[s].logs \in Seq(Decision)
         /\ \E e \in txn[s].todo :
              \/ /\ \E decision \in AgentDecisions : Reads(s, e, decision)
                 /\ txn'[s].missing \in Seq(Band) /\ Len(txn'[s].missing) <= 1
              \/ /\ \E status : txn' = [txn EXCEPT ![s] = Illegal(txn[s].op, status)]
                 /\ Ledger!Rollback(s)
                 /\ Forget(s)
<1>. DEFINE c == txn[s].cycle
            status(e) == reviews[c][e].status
<1>1. /\ txn[s].pc = "read" /\ WellFormed(txn[s]) /\ txn[s].pc \in Deciding
      /\ txn[s].pc \in Running
      /\ c \in Cycle /\ txn[s].todo \subseteq Employee /\ txn[s].logs \in Seq(Decision)
  BY DEF ReadProposal, TxnInv, WellFormed, Deciding, Running
<1>2. PICK e \in txn[s].todo :
        \/ /\ MayAudit(status(e))
           /\ \E decision \in AgentDecisions, levels \in Levels[e] :
              \E missing \in Missing(<<levels[2]>>, txn[s].fresh) :
                txn' = [txn EXCEPT
                  ![s].pc = "flush",
                  ![s].todo = @ \ {e},
                  ![s].missing = missing,
                  ![s].logs = Append(@, ReviewLog(c, e, "AGENT_AUDIT", status(e), decision))]
           /\ UNCHANGED <<ledger, pending, head, history>>
        \/ /\ ~ MayAudit(status(e))
           /\ txn' = [txn EXCEPT ![s] = Illegal(txn[s].op, status(e))]
           /\ Ledger!Rollback(s)
           /\ Forget(s)
  BY DEF ReadProposal
<1>3. CASE MayAudit(status(e))
  <2>1. PICK decision \in AgentDecisions, levels \in Levels[e] :
          \E missing \in Missing(<<levels[2]>>, txn[s].fresh) :
            txn' = [txn EXCEPT
              ![s].pc = "flush",
              ![s].todo = @ \ {e},
              ![s].missing = missing,
              ![s].logs = Append(@, ReviewLog(c, e, "AGENT_AUDIT", status(e), decision))]
    BY <1>2, <1>3
  <2>2. PICK missing \in Missing(<<levels[2]>>, txn[s].fresh) :
          txn' = [txn EXCEPT
            ![s].pc = "flush",
            ![s].todo = @ \ {e},
            ![s].missing = missing,
            ![s].logs = Append(@, ReviewLog(c, e, "AGENT_AUDIT", status(e), decision))]
    BY <2>1
  <2>3. missing \in Seq(Band) /\ Len(missing) <= 1
    <3>1. <<levels[2]>> \in Seq(Band) /\ Len(<<levels[2]>>) = 1
      BY <1>1, BandsOfLevels
    <3>. QED
      BY <2>2, <3>1, MissingBands
  <2>. DEFINE row == ReviewLog(c, e, "AGENT_AUDIT", status(e), decision)
  <2>. HIDE DEF row
  <2>4. /\ txn' = [u \in Session |-> txn'[u]]
        /\ \A u \in Session \ {s} : txn'[u] = txn[u]
    BY <2>2 DEF TxnInv
  <2>5. txn'[s] = [ pc |-> "flush", op |-> txn[s].op, cycle |-> c, todo |-> txn[s].todo \ {e},
                    logs |-> Append(txn[s].logs, row), seen |-> txn[s].seen,
                    people |-> txn[s].people, missing |-> missing, fresh |-> txn[s].fresh ]
    BY <1>1, <2>2 DEF TxnInv, WellFormed, row
  <2>6. Reads(s, e, decision) /\ txn'[s].missing = missing
    <3>1. MayAudit(reviews[c][e].status) /\ UNCHANGED <<ledger, pending, head, history>>
      BY <1>2, <1>3
    <3>2. txn'[s].missing = missing
      BY <2>5
    <3>3. row = ReviewLog(c, e, "AGENT_AUDIT", reviews[c][e].status, decision)
      BY DEF row
    <3>. QED
      BY <2>4, <2>5, <3>1, <3>2, <3>3 DEF Reads
  <2>. QED
    BY <1>1, <2>3, <2>6
<1>4. CASE ~ MayAudit(status(e))
  BY <1>1, <1>2, <1>4
<1>. QED
  BY <1>3, <1>4

LEMMA ReadKeepsTxn ==
  ASSUME TxnInv, NEW s \in Session, ReadProposal(s)
  PROVE  /\ TxnInv'
         /\ Ledger!Rollback(s) \/ UNCHANGED <<ledger, pending, head>>
<1>. DEFINE c == txn[s].cycle
<1>1. /\ txn[s].pc = "read" /\ WellFormed(txn[s]) /\ txn[s].pc \in Deciding
      /\ txn[s].pc \in Running
      /\ c \in Cycle /\ txn[s].todo \subseteq Employee /\ txn[s].logs \in Seq(Decision)
  BY ReadFacts
<1>2. PICK e \in txn[s].todo :
        \/ /\ \E decision \in AgentDecisions : Reads(s, e, decision)
           /\ txn'[s].missing \in Seq(Band) /\ Len(txn'[s].missing) <= 1
        \/ /\ \E status : txn' = [txn EXCEPT ![s] = Illegal(txn[s].op, status)]
           /\ Ledger!Rollback(s)
  BY ReadFacts
<1>3. ASSUME NEW decision \in AgentDecisions, Reads(s, e, decision),
             txn'[s].missing \in Seq(Band) /\ Len(txn'[s].missing) <= 1
      PROVE  TxnInv' /\ UNCHANGED <<ledger, pending, head>>
  <2>. DEFINE row == ReviewLog(c, e, "AGENT_AUDIT", reviews[c][e].status, decision)
  <2>2. row \in Decision
    <3>1. decision \in ReviewStatus
      BY DEF AgentDecisions, ReviewStatus
    <3>2. reviews[c][e].status \in ReviewStatus
      BY <1>3, AuditedStatus DEF Reads
    <3>. QED
      BY <1>1, <3>1, <3>2, DecisionOfLog
  <2>3. txn'[s] = [ pc |-> "flush", op |-> txn[s].op, cycle |-> c, todo |-> txn[s].todo \ {e},
                    logs |-> Append(txn[s].logs, row), seen |-> txn[s].seen,
                    people |-> txn[s].people, missing |-> txn'[s].missing,
                    fresh |-> txn[s].fresh ]
    BY <1>3 DEF Reads
  <2>. HIDE DEF row
  <2>4. Append(txn[s].logs, row) \in Seq(Decision) /\ Append(txn[s].logs, row) # <<>>
    BY <1>1, <2>2
  <2>5. txn[s].op \in {"audit", "batch", "approve"} /\ txn[s].fresh \subseteq Band
    BY <1>1 DEF WellFormed
  <2>6. "flush" \in Running /\ "flush" \notin Proposing /\ "flush" \notin Finalizing
    BY DEF Running, Proposing, Deciding, Finalizing
  <2>7. txn[s].todo \ {e} \in SUBSET Employee
    BY <1>1
  <2>8. WellFormed(txn'[s])
    <3>1. /\ Fields(txn'[s], "flush", txn[s].op, c, txn[s].todo \ {e}, Append(txn[s].logs, row))
          /\ txn'[s].fresh = txn[s].fresh
      BY <2>3 DEF Fields
    <3>. QED
      BY <1>1, <1>3, <2>4, <2>5, <2>6, <2>7, <3>1 DEF WellFormed, Fields
  <2>. QED
    BY <1>3, <2>8, OneTxn DEF Reads
<1>4. ASSUME NEW status, txn' = [txn EXCEPT ![s] = Illegal(txn[s].op, status)]
      PROVE  TxnInv'
  <2>1. WellFormed(Illegal(txn[s].op, status))
    BY IllegalWellFormed
  <2>. QED
    BY <1>4, <2>1, NewTxn
<1>. QED
  BY <1>2, <1>3, <1>4

\* A create that has found no proposal: what it holds then.
Checks(s, e, base, rsus) ==
  LET t == txn[s] IN
    /\ txn'[s] = [ pc |-> IF txn'[s].missing = <<>> THEN "insert" ELSE "bands",
                   op |-> t.op, cycle |-> t.cycle, todo |-> t.todo, logs |-> t.logs,
                   seen |-> [x \in {e} |->
                     [ status |-> "DRAFT", current_base |-> employees[e].base,
                       proposed_base |-> base, rsus |-> rsus ]],
                   people |-> t.people, missing |-> txn'[s].missing, fresh |-> t.fresh ]
    /\ txn'[s].missing \in Seq(Band)
    /\ txn' = [u \in Session |-> txn'[u]]
    /\ \A u \in Session \ {s} : txn'[u] = txn[u]

LEMMA CheckFacts ==
  ASSUME TxnInv, NEW s \in Session, CheckExisting(s)
  PROVE  \/ txn' = [txn EXCEPT ![s] = Idle]
         \/ \E e \in txn[s].todo, base \in ProposedBase, rsus \in Grant :
              ~ Exists(txn[s].cycle, e) /\ Checks(s, e, base, rsus)
<1>1. /\ WellFormed(txn[s]) /\ txn[s].pc \in Running
  BY DEF TxnInv, CheckExisting, Running, Proposing
<1>2. PICK e \in txn[s].todo :
       \/ txn' = [txn EXCEPT ![s] = Idle]
       \/ /\ ~ Exists(txn[s].cycle, e)
          /\ \E base \in ProposedBase, rsus \in Grant, levels \in Levels[e] :
             \E missing \in Missing(levels, {}) :
               txn' = [txn EXCEPT
                 ![s].pc = IF missing = <<>> THEN "insert" ELSE "bands",
                 ![s].missing = missing,
                 ![s].seen = [x \in {e} |->
                    [ status |-> "DRAFT", current_base |-> employees[e].base,
                      proposed_base |-> base, rsus |-> rsus ]]]
  BY DEF CheckExisting
<1>3. ASSUME ~ Exists(txn[s].cycle, e),
             NEW base \in ProposedBase, NEW rsus \in Grant, NEW levels \in Levels[e],
             NEW missing \in Missing(levels, {}),
             txn' = [txn EXCEPT
                 ![s].pc = IF missing = <<>> THEN "insert" ELSE "bands",
                 ![s].missing = missing,
                 ![s].seen = [x \in {e} |->
                    [ status |-> "DRAFT", current_base |-> employees[e].base,
                      proposed_base |-> base, rsus |-> rsus ]]]
      PROVE  Checks(s, e, base, rsus)
  <2>. DEFINE copy == [x \in {e} |->
                    [ status |-> "DRAFT", current_base |-> employees[e].base,
                      proposed_base |-> base, rsus |-> rsus ]]
  <2>1. missing \in Seq(Band)
    BY <1>1, BandsOfLevels, MissingBands DEF WellFormed
  <2>2. txn' = [txn EXCEPT
                 ![s].pc = IF missing = <<>> THEN "insert" ELSE "bands",
                 ![s].missing = missing,
                 ![s].seen = copy]
    BY <1>3
  <2>. HIDE DEF copy
  <2>3. txn'[s] = [ pc |-> IF missing = <<>> THEN "insert" ELSE "bands",
                    op |-> txn[s].op, cycle |-> txn[s].cycle, todo |-> txn[s].todo,
                    logs |-> txn[s].logs, seen |-> copy,
                    people |-> txn[s].people, missing |-> missing, fresh |-> txn[s].fresh ]
    BY <1>1, <2>2 DEF TxnInv, WellFormed
  <2>4. /\ txn' = [u \in Session |-> txn'[u]]
        /\ \A u \in Session \ {s} : txn'[u] = txn[u]
    BY <2>2 DEF TxnInv
  <2>. QED
    BY <2>1, <2>3, <2>4 DEF Checks, copy
<1>. QED
  BY <1>2, <1>3

\* A finalization that has read its reviews, and then their employees.
LEMMA ReadReviewsFacts ==
  ASSUME TxnInv, NEW s \in Session, ReadReviews(s)
  PROVE  LET t == txn[s] IN
         /\ txn'[s] = [ pc |-> "employees", op |-> t.op, cycle |-> t.cycle, todo |-> t.todo,
                        logs |-> t.logs,
                        seen |-> [e \in { x \in Employee : Exists(t.cycle, x) } |->
                                    reviews[t.cycle][e]],
                        people |-> t.people, missing |-> t.missing, fresh |-> t.fresh ]
         /\ txn' = [u \in Session |-> txn'[u]]
         /\ \A u \in Session \ {s} : txn'[u] = txn[u]
<1>1. WellFormed(txn[s]) /\ txn[s].pc \in Running
  BY DEF TxnInv, ReadReviews, Running, Finalizing
<1>. DEFINE copies == [e \in { x \in Employee : Exists(txn[s].cycle, x) } |->
                         reviews[txn[s].cycle][e]]
<1>2. txn' = [txn EXCEPT ![s].pc = "employees", ![s].seen = copies]
  BY DEF ReadReviews
<1>. HIDE DEF copies
<1>3. txn'[s] = [ pc |-> "employees", op |-> txn[s].op, cycle |-> txn[s].cycle,
                  todo |-> txn[s].todo, logs |-> txn[s].logs, seen |-> copies,
                  people |-> txn[s].people, missing |-> txn[s].missing,
                  fresh |-> txn[s].fresh ]
  BY <1>1, <1>2 DEF TxnInv, WellFormed
<1>4. /\ txn' = [u \in Session |-> txn'[u]]
      /\ \A u \in Session \ {s} : txn'[u] = txn[u]
  BY <1>2 DEF TxnInv
<1>. QED
  BY <1>3, <1>4 DEF copies

LEMMA ReadEmployeesFacts ==
  ASSUME TxnInv, NEW s \in Session, ReadEmployees(s)
  PROVE  LET t == txn[s] IN
         \/ txn' = [txn EXCEPT ![s] = Idle] /\ Forget(s)
         \/ /\ txn'[s] = [ pc |-> "apply", op |-> t.op, cycle |-> t.cycle, todo |-> t.todo,
                           logs |-> t.logs, seen |-> t.seen,
                           people |-> [e \in DOMAIN t.seen |-> employees[e]],
                           missing |-> t.missing, fresh |-> t.fresh ]
            /\ txn' = [u \in Session |-> txn'[u]]
            /\ \A u \in Session \ {s} : txn'[u] = txn[u]
            /\ \A e \in DOMAIN t.seen : t.seen[e].status \notin Unresolved
            /\ UNCHANGED history
<1>1. WellFormed(txn[s]) /\ txn[s].pc \in Running
  BY DEF TxnInv, ReadEmployees, Running, Finalizing
<1>. DEFINE copies == [e \in DOMAIN txn[s].seen |-> employees[e]]
<1>2. CASE /\ \A e \in DOMAIN txn[s].seen : txn[s].seen[e].status \notin Unresolved
           /\ txn' = [txn EXCEPT ![s] = [txn[s] EXCEPT !.pc = "apply", !.people = copies]]
           /\ UNCHANGED history
  <2>. HIDE DEF copies
  <2>1. txn'[s] = [ pc |-> "apply", op |-> txn[s].op, cycle |-> txn[s].cycle,
                    todo |-> txn[s].todo, logs |-> txn[s].logs, seen |-> txn[s].seen,
                    people |-> copies, missing |-> txn[s].missing,
                    fresh |-> txn[s].fresh ]
    BY <1>1, <1>2 DEF TxnInv, WellFormed
  <2>2. /\ txn' = [u \in Session |-> txn'[u]]
        /\ \A u \in Session \ {s} : txn'[u] = txn[u]
    BY <1>2 DEF TxnInv
  <2>. QED
    BY <1>2, <2>1, <2>2 DEF copies
<1>3. \/ txn' = [txn EXCEPT ![s] = Idle] /\ Forget(s)
      \/ /\ \A e \in DOMAIN txn[s].seen : txn[s].seen[e].status \notin Unresolved
         /\ txn' = [txn EXCEPT ![s] = [txn[s] EXCEPT !.pc = "apply", !.people = copies]]
         /\ UNCHANGED history
  BY DEF ReadEmployees, TxnInv
<1>. QED
  BY <1>2, <1>3

\* A step of a transaction that decides nothing: a create or a finalize.
LEMMA UndecidedKeepsTxn ==
  ASSUME TxnInv, NEW s \in Session,
         \/ CheckExisting(s) \/ InsertProposal(s) \/ DuplicateProposal(s)
         \/ ReadReviews(s) \/ ReadEmployees(s) \/ Finalize(s)
  PROVE  TxnInv' /\ UNCHANGED <<ledger, pending, head>>
<1>1. WellFormed(txn[s])
  BY DEF TxnInv
<1>2. CASE CheckExisting(s)
  <2>1. txn[s].pc \in Running /\ txn[s].pc = "check"
    BY <1>2 DEF CheckExisting, Running, Proposing
  <2>2. \/ txn' = [txn EXCEPT ![s] = Idle]
        \/ \E e \in txn[s].todo, base \in ProposedBase, rsus \in Grant : Checks(s, e, base, rsus)
    BY <1>2, CheckFacts
  <2>3. ASSUME NEW e, NEW base, NEW rsus, Checks(s, e, base, rsus)
        PROVE  TxnInv'
    <3>. DEFINE missing == txn'[s].missing
                pc == IF missing = <<>> THEN "insert" ELSE "bands"
    <3>0. /\ pc \in Running /\ pc \notin Deciding /\ pc \notin Finalizing
          /\ pc \in {"bands", "band"} => missing # <<>>
      BY DEF Running, Proposing, Deciding, Finalizing
    <3>2. /\ txn[s].cycle \in Cycle /\ txn[s].todo \in SUBSET Employee
          /\ txn[s].fresh \in SUBSET Band /\ txn[s].op = "create" /\ txn[s].logs = <<>>
      BY <1>1, <2>1 DEF WellFormed, Proposing
    <3>3. missing \in Seq(Band)
      BY <2>3 DEF Checks
    <3>4. PICK seen : txn'[s] = [ pc |-> pc, op |-> txn[s].op, cycle |-> txn[s].cycle,
                                  todo |-> txn[s].todo, logs |-> txn[s].logs, seen |-> seen,
                                  people |-> txn[s].people, missing |-> missing,
                                  fresh |-> txn[s].fresh ]
      BY <2>3 DEF Checks
    <3>. HIDE DEF pc, missing
    <3>1. WellFormed(txn'[s])
      <4>1. /\ Fields(txn'[s], pc, txn[s].op, txn[s].cycle, txn[s].todo, txn[s].logs)
            /\ txn'[s].missing = missing /\ txn'[s].fresh = txn[s].fresh
        BY <3>4, FieldsOfRecord
      <4>. QED
        BY <3>0, <3>2, <3>3, <4>1 DEF WellFormed, Fields
    <3>. QED
      BY <2>3, <3>1, OneTxn DEF Checks
  <2>. QED
    BY <1>2, <2>2, <2>3, IdleWellFormed, NewTxn DEF CheckExisting
<1>3. CASE InsertProposal(s) \/ DuplicateProposal(s)
  BY <1>3, IdleWellFormed, NewTxn DEF InsertProposal, DuplicateProposal
<1>4. CASE ReadReviews(s)
  <2>1. txn[s].pc \in Running /\ txn[s].pc = "reviews"
    BY <1>4 DEF ReadReviews, Running, Finalizing
  <2>3. /\ "employees" \in Running /\ "employees" \notin Deciding /\ "employees" \notin Proposing
    BY DEF Running, Proposing, Deciding, Finalizing
  <2>4. /\ txn[s].cycle \in Cycle /\ txn[s].todo \in SUBSET Employee
        /\ txn[s].missing \in Seq(Band) /\ txn[s].fresh \in SUBSET Band
        /\ txn[s].op = "finalize" /\ txn[s].logs = <<>>
    BY <1>1, <2>1 DEF WellFormed, Finalizing
  <2>5. PICK seen : txn'[s] = [ pc |-> "employees", op |-> txn[s].op, cycle |-> txn[s].cycle,
                                todo |-> txn[s].todo, logs |-> txn[s].logs, seen |-> seen,
                                people |-> txn[s].people, missing |-> txn[s].missing,
                                fresh |-> txn[s].fresh ]
    BY <1>4, ReadReviewsFacts
  <2>2. WellFormed(txn'[s])
    <3>1. /\ Fields(txn'[s], "employees", txn[s].op, txn[s].cycle, txn[s].todo, txn[s].logs)
          /\ txn'[s].missing = txn[s].missing /\ txn'[s].fresh = txn[s].fresh
      BY <2>5, FieldsOfRecord
    <3>. QED
      BY <2>3, <2>4, <3>1 DEF WellFormed, Fields
  <2>. QED
    BY <1>4, <2>2, OneTxn, ReadReviewsFacts DEF ReadReviews
<1>5. CASE ReadEmployees(s)
  <2>1. txn[s].pc \in Running /\ txn[s].pc = "employees"
    BY <1>5 DEF ReadEmployees, Running, Finalizing
  <2>2. CASE txn' = [txn EXCEPT ![s] = Idle]
    BY <1>5, <2>2, IdleWellFormed, NewTxn DEF ReadEmployees
  <2>3. CASE txn' # [txn EXCEPT ![s] = Idle]
    <3>2. /\ "apply" \in Running /\ "apply" \notin Deciding /\ "apply" \notin Proposing
      BY DEF Running, Proposing, Deciding, Finalizing
    <3>3. /\ txn[s].cycle \in Cycle /\ txn[s].todo \in SUBSET Employee
          /\ txn[s].missing \in Seq(Band) /\ txn[s].fresh \in SUBSET Band
          /\ txn[s].op = "finalize" /\ txn[s].logs = <<>>
      BY <1>1, <2>1 DEF WellFormed, Finalizing
    <3>4. PICK people :
            txn'[s] = [ pc |-> "apply", op |-> txn[s].op, cycle |-> txn[s].cycle,
                        todo |-> txn[s].todo, logs |-> txn[s].logs, seen |-> txn[s].seen,
                        people |-> people, missing |-> txn[s].missing,
                        fresh |-> txn[s].fresh ]
      BY <1>5, <2>3, ReadEmployeesFacts
    <3>1. WellFormed(txn'[s])
      <4>1. /\ Fields(txn'[s], "apply", txn[s].op, txn[s].cycle, txn[s].todo, txn[s].logs)
            /\ txn'[s].missing = txn[s].missing /\ txn'[s].fresh = txn[s].fresh
        BY <3>4, FieldsOfRecord
      <4>. QED
        BY <3>2, <3>3, <4>1 DEF WellFormed, Fields
    <3>. QED
      BY <1>5, <2>3, <3>1, OneTxn, ReadEmployeesFacts DEF ReadEmployees
  <2>. QED
    BY <2>2, <2>3
<1>6. CASE Finalize(s)
  BY <1>6, IdleWellFormed, NewTxn DEF Finalize
<1>. QED
  BY <1>2, <1>3, <1>4, <1>5, <1>6

------------------------------------------------------------------------------
(* Every step keeps to the ledger's specification.                         *)

\* A statement of record_entry, for the last row the transaction has built.
LEMMA BlockOfLastRow ==
  ASSUME TxnInv, NEW s \in Session, txn[s].pc = "block"
  PROVE  LET row == txn[s].logs[Len(txn[s].logs)]
         IN LogHeader(row) \in Header /\ LogPayload(row) \in Payload
<1>1. txn[s].logs \in Seq(Decision) /\ txn[s].logs # <<>>
  BY DEF TxnInv, WellFormed, Deciding, Writing
<1>2. txn[s].logs[Len(txn[s].logs)] \in Decision
  BY <1>1
<1>. QED
  BY <1>2 DEF Decision, LogHeader, LogPayload, Header, Payload

LEMMA LedgerStep ==
  ASSUME NEW s \in Session,
         \/ Ledger!ReadHead(s)
         \/ \E header \in Header, payload \in Payload : Ledger!InsertBlock(s, header, payload)
         \/ Ledger!InsertConflict(s)
         \/ Ledger!Commit(s)
         \/ Ledger!Rollback(s)
  PROVE  Ledger!LedgerNext
BY DEF Ledger!LedgerNext, Header, Payload

LEMMA StepOfSession ==
  ASSUME TxnInv, NEW s \in Session, BeginRequest(s) \/ Step(s) \/ Abort(s)
  PROVE  TxnInv' /\ (Ledger!LedgerNext \/ UNCHANGED <<ledger, pending, head>>)
<1>1. CASE BeginRequest(s)
  <2>1. UNCHANGED <<ledger, pending, head>>
    BY <1>1 DEF BeginRequest, BeginCreate, BeginAudit, BeginBatch, BeginApprove, BeginFinalize
  <2>. QED
    BY <1>1, <2>1, BeginKeepsTxn
<1>2. CASE \/ CheckExisting(s) \/ InsertProposal(s) \/ DuplicateProposal(s)
           \/ ReadReviews(s) \/ ReadEmployees(s) \/ Finalize(s)
  BY <1>2, UndecidedKeepsTxn
<1>3. CASE ReadProposal(s)
  BY <1>3, ReadKeepsTxn, LedgerStep
<1>4. CASE Flush(s) \/ InsertBand(s)
  <2>1. TxnInv'
    BY <1>4, FlushMoves, InsertBandMoves, MovesOn
  <2>. QED
    BY <1>4, <2>1 DEF Flush, InsertBand
<1>5. CASE ReadLedgerHead(s)
  <2>1. TxnInv'
    BY <1>5, ReadHeadMoves, MovesOn
  <2>. QED
    BY <1>5, <2>1, LedgerStep DEF ReadLedgerHead
<1>6. CASE InsertLedgerBlock(s)
  <2>. DEFINE row == txn[s].logs[Len(txn[s].logs)]
  <2>1. txn[s].pc = "block" /\ Ledger!InsertBlock(s, LogHeader(row), LogPayload(row))
    BY <1>6 DEF InsertLedgerBlock
  <2>2. LogHeader(row) \in Header /\ LogPayload(row) \in Payload
    BY <2>1, BlockOfLastRow
  <2>3. Ledger!LedgerNext
    BY <2>1, <2>2, LedgerStep
  <2>5. TxnInv'
    BY <1>6, InsertBlockMoves, MovesOn
  <2>. QED
    BY <2>3, <2>5
<1>7. CASE LedgerConflict(s) \/ BandConflict(s)
  BY <1>7, IdleWellFormed, NewTxn, LedgerStep DEF LedgerConflict, BandConflict
<1>8. CASE CommitDecisions(s)
  BY <1>8, IdleWellFormed, NewTxn, LedgerStep DEF CommitDecisions
<1>9. CASE Abort(s)
  BY <1>9, IdleWellFormed, NewTxn, LedgerStep DEF Abort
<1>. QED
  BY <1>1, <1>2, <1>3, <1>4, <1>5, <1>6, <1>7, <1>8, <1>9 DEF Step, DeadlockAbort

LEMMA StepKeepsLedger ==
  ASSUME TxnInv, [Next]_vars
  PROVE  TxnInv' /\ [Ledger!LedgerNext]_<<ledger, pending, head>>
<1>1. CASE \E c \in Cycle : CreateCycle(c)
  BY <1>1 DEF CreateCycle, TxnInv, WellFormed
<1>2. CASE \E s \in Session : BeginRequest(s) \/ Step(s) \/ Abort(s)
  BY <1>2, StepOfSession
<1>3. CASE UNCHANGED vars
  BY <1>3 DEF vars, TxnInv, WellFormed
<1>. QED
  BY <1>1, <1>2, <1>3 DEF Next

\* However the requests of PlanningCycle interleave, conflict, deadlock or die, the
\* ledger they write behaves as SoxLedger allows: record_entry is called by sessions
\* inside their transactions and by nothing else.
THEOREM PlanningUsesLedger == Spec => UsesLedger
<1>1. Init => TxnInv /\ Ledger!LedgerInit
  BY TxnInvInit DEF Init
<1>2. TxnInv /\ [Next]_vars => TxnInv' /\ [Ledger!LedgerNext]_(Ledger!ledgerVars)
  BY StepKeepsLedger DEF Ledger!ledgerVars
<1>. QED
  BY <1>1, <1>2, PTL DEF Spec, UsesLedger, Ledger!LedgerSpec


------------------------------------------------------------------------------
(* What is proved of SoxLedger holds of the ledger the planning requests   *)
(* write: its proofs, instantiated with these rows.                        *)

Proved == INSTANCE SoxLedgerProofs WITH
  Header <- [ entity : Cycle \X Employee, action : {"AGENT_AUDIT", "VP_APPROVAL"} ],
  Payload <- [ previous_status : ReviewStatus, new_status : ReviewStatus ]

\* The instance the proofs come with and the one PlanningCycle uses say the same.
LEMMA SameInit == Ledger!LedgerInit <=> Proved!LedgerInit
BY DEF Ledger!LedgerInit, Proved!LedgerInit, Ledger!NoRows, Proved!NoRows,
   Ledger!NoHead, Proved!NoHead, Ledger!GENESIS_PREVIOUS_HASH,
   Proved!GENESIS_PREVIOUS_HASH

LEMMA SameRead == ASSUME NEW s \in Session PROVE Ledger!ReadHead(s) <=> Proved!ReadHead(s)
<1>1. Ledger!Visible(s) = Proved!Visible(s)
  BY DEF Ledger!Visible, Proved!Visible, Ledger!Merge, Proved!Merge
<1>2. Ledger!LastSeq(Proved!Visible(s)) = Proved!LastSeq(Proved!Visible(s))
  BY DEF Ledger!LastSeq, Proved!LastSeq, Ledger!Max, Proved!Max
<1>3. Ledger!NextLink(Proved!Visible(s)) = Proved!NextLink(Proved!Visible(s))
  BY <1>2 DEF Ledger!NextLink, Proved!NextLink, Ledger!GENESIS_PREVIOUS_HASH,
     Proved!GENESIS_PREVIOUS_HASH
<1>4. Ledger!NoHead = Proved!NoHead
  BY DEF Ledger!NoHead, Proved!NoHead, Ledger!GENESIS_PREVIOUS_HASH,
     Proved!GENESIS_PREVIOUS_HASH
<1>. QED
  BY <1>1, <1>2, <1>3, <1>4 DEF Ledger!ReadHead, Proved!ReadHead

LEMMA SameInsert ==
  ASSUME NEW s \in Session, NEW h, NEW p
  PROVE  Ledger!InsertBlock(s, h, p) <=> Proved!InsertBlock(s, h, p)
BY DEF Ledger!InsertBlock, Proved!InsertBlock, Ledger!KeyHolder, Proved!KeyHolder,
   Ledger!Merge, Proved!Merge, Ledger!Seal, Proved!Seal, Ledger!HashPayload,
   Proved!HashPayload, Ledger!ComputeBlockHash, Proved!ComputeBlockHash,
   Ledger!SignBlock, Proved!SignBlock, Ledger!NoHead, Proved!NoHead,
   Ledger!GENESIS_PREVIOUS_HASH, Proved!GENESIS_PREVIOUS_HASH

LEMMA SameRollback == ASSUME NEW s \in Session PROVE Ledger!Rollback(s) <=> Proved!Rollback(s)
BY DEF Ledger!Rollback, Proved!Rollback, Ledger!NoRows, Proved!NoRows,
   Ledger!NoHead, Proved!NoHead, Ledger!GENESIS_PREVIOUS_HASH, Proved!GENESIS_PREVIOUS_HASH

LEMMA SameConflict ==
  ASSUME NEW s \in Session
  PROVE  Ledger!InsertConflict(s) <=> Proved!InsertConflict(s)
BY SameRollback DEF Ledger!InsertConflict, Proved!InsertConflict, Ledger!NoHead,
   Proved!NoHead, Ledger!GENESIS_PREVIOUS_HASH, Proved!GENESIS_PREVIOUS_HASH

LEMMA SameCommit == ASSUME NEW s \in Session PROVE Ledger!Commit(s) <=> Proved!Commit(s)
BY DEF Ledger!Commit, Proved!Commit, Ledger!NoRows, Proved!NoRows, Ledger!Visible,
   Proved!Visible, Ledger!Merge, Proved!Merge, Ledger!NoHead, Proved!NoHead,
   Ledger!GENESIS_PREVIOUS_HASH, Proved!GENESIS_PREVIOUS_HASH

LEMMA SameNext == [Ledger!LedgerNext]_(Ledger!ledgerVars) <=> [Proved!LedgerNext]_(Proved!ledgerVars)
BY SameRead, SameInsert, SameRollback, SameConflict, SameCommit
   DEF Ledger!LedgerNext, Proved!LedgerNext, Ledger!ledgerVars, Proved!ledgerVars

LEMMA SameSecure == Ledger!ChainSecure <=> Proved!ChainSecure
BY DEF Ledger!ChainSecure, Proved!ChainSecure, Ledger!VerifyChain, Proved!VerifyChain,
   Ledger!Checked, Proved!Checked, Ledger!Intact, Proved!Intact,
   Ledger!GENESIS_PREVIOUS_HASH, Proved!GENESIS_PREVIOUS_HASH, Ledger!HashPayload,
   Proved!HashPayload, Ledger!ComputeBlockHash, Proved!ComputeBlockHash,
   Ledger!SignBlock, Proved!SignBlock

\* verify_chain finds the ledger secure at all times, with any number of sessions,
\* cycles and employees, batches and aborted requests included.
THEOREM PlanningChainSecure == Spec => []Ledger!ChainSecure
<1>1. MaxSeq \in Nat
  BY PlanningAssumption
<1>2. Proved!LedgerSpec => []Proved!ChainSecure
  BY <1>1, Proved!ChainAlwaysSecure
<1>. QED
  BY <1>2, PlanningUsesLedger, SameInit, SameNext, SameSecure, PTL DEF UsesLedger,
     Ledger!LedgerSpec, Proved!LedgerSpec
------------------------------------------------------------------------------
(* The inductive invariant.                                                *)

Last == Ledger!LastSeq(ledger)

\* The blocks of the sessions, as far as the decisions need them (from ChainInv).
LedgerFacts ==
  /\ Last \in Nat
  /\ DOMAIN ledger = 1..Last
  /\ pending = [s \in Session |-> pending[s]]
  /\ \A s, t \in Session : DOMAIN pending[s] # {} /\ DOMAIN pending[t] # {} => s = t

\* A decision the ledger has recorded for a review.
OnRecord(c, e, status) == \E i \in Blocks(c, e) : ledger[i].payload.new_status = status

ApprovalOnRecord(c, e) == \E i \in Blocks(c, e) : ledger[i].payload.new_status \in Approved

Verdict == {"AUTO_APPROVED", "VP_EXCEPTION_REQUIRED", "REJECTED", "VP_APPROVED"}

\* A row a transaction with these proposals to go may have built for a review.
RowInv(c, todo, row) ==
  \E e \in Employee \ todo :
    /\ row.entity = <<c, e>>
    /\ Exists(c, e)
    /\ row.new_status \in Verdict
    /\ row.new_status = "VP_APPROVED" => OnRecord(c, e, "VP_EXCEPTION_REQUIRED")

\* Each proposal is decided once in a transaction; only a batch decides several, and
\* only a batch comes to a flush with a default band in hand.
DecidingInv(s) ==
  txn[s].pc \in Deciding =>
    LET t == txn[s] IN
      /\ \A e \in t.todo : Exists(t.cycle, e)
      /\ \A i \in 1..Len(t.logs) : RowInv(t.cycle, t.todo, t.logs[i])
      /\ \A i, j \in 1..Len(t.logs) : t.logs[i].entity = t.logs[j].entity => i = j
      /\ t.op # "batch" =>
           /\ IF t.pc = "read" THEN t.logs = <<>> /\ \E e \in Employee : t.todo = {e}
              ELSE Len(t.logs) = 1 /\ t.todo = {}
           /\ t.pc \in {"read", "flush", "band"} => t.fresh = {}

\* How many of its rows have their block inserted: all but the one at hand.
Sealed(t) == IF t.pc \in Writing THEN Len(t.logs) - 1 ELSE Len(t.logs)

\* A transaction's uncommitted blocks are those of its rows, in their order.
BlocksInv(s) ==
  IF txn[s].pc \in Deciding
  THEN /\ DOMAIN pending[s] = (Last + 1)..(Last + Sealed(txn[s]))
       /\ \A i \in 1..Sealed(txn[s]) :
            /\ pending[s][Last + i].header = LogHeader(txn[s].logs[i])
            /\ pending[s][Last + i].payload = LogPayload(txn[s].logs[i])
  ELSE DOMAIN pending[s] = {}

\* What a create or a finalize has read.
UndecidedInv(s) ==
  LET t == txn[s] IN
    /\ t.pc \in {"check", "bands", "insert", "reviews", "employees", "apply"} => t.cycle \in Cycle
    /\ t.pc = "check" => \E e \in Employee : t.todo = {e}
    /\ t.pc \in {"bands", "insert"} =>
         \E e \in Employee : t.todo = {e} /\ t.seen[e] \in Review /\ t.seen[e].status = "DRAFT"
    /\ t.pc \in {"employees", "apply"} =>
         /\ DOMAIN t.seen \subseteq Employee
         /\ \A e \in DOMAIN t.seen :
              /\ Exists(t.cycle, e)
              /\ t.seen[e] \in Review
              /\ t.seen[e].status \in Approved => ApprovalOnRecord(t.cycle, e)
    /\ t.pc = "apply" => \A e \in DOMAIN t.seen : t.people[e] \in [base : Base, equity : Nat]

SessionInv(s) == DecidingInv(s) /\ BlocksInv(s) /\ UndecidedInv(s)

\* What audit_logs holds: decisions and finalizations.
LogRow == Decision \cup { CycleLog(c) : c \in Cycle }

TablesInv ==
  /\ cycles \in [Cycle -> {"NONE", "ACTIVE", "FINALIZED"}]
  /\ reviews \in [Cycle -> [Employee -> Review \cup {NoReview}]]
  /\ employees \in [Employee -> [base : Base, equity : Nat]]
  /\ bands \subseteq Band
  /\ auditLog \in Seq(LogRow)

DecisionInv ==
  /\ TablesInv
  /\ LedgerTellsStatus
  /\ NoPayWithoutApproval
  /\ LogAgreesWithLedger
  /\ \A s \in Session : SessionInv(s)

------------------------------------------------------------------------------
(* What ChainInv says of the blocks.                                       *)

LEMMA SameLast == ASSUME NEW rows PROVE Ledger!LastSeq(rows) = Proved!LastSeq(rows)
BY DEF Ledger!LastSeq, Proved!LastSeq, Ledger!Max, Proved!Max

LEMMA SameFacts == LedgerFacts <=> Proved!BlockFacts
BY SameLast DEF LedgerFacts, Last, Proved!BlockFacts

LEMMA FactsOfChain == Proved!ChainInv => LedgerFacts
BY PlanningAssumption, Proved!BlocksOfChain, SameFacts

\* The last block of a review is one of its blocks.
LEMMA MaxOfBlocks ==
  ASSUME NEW n \in Nat, NEW S \in SUBSET (1..n), S # {}
  PROVE  Max(S) \in S /\ \A y \in S : y <= Max(S)
<1>1. S \in SUBSET (0..n)
  OBVIOUS
<1>2. Max(S) = Proved!Max(S)
  BY DEF Max, Proved!Max
<1>. QED
  BY <1>1, <1>2, PlanningAssumption, Proved!MaxOfSet

\* An insert adds the block after the session's last.
LEMMA InsertedBlock ==
  ASSUME Proved!ChainInv, NEW s \in Session, NEW k \in Nat,
         DOMAIN pending[s] = (Last + 1)..(Last + k),
         NEW header, NEW payload, Ledger!InsertBlock(s, header, payload)
  PROVE  /\ ledger' = ledger
         /\ DOMAIN pending'[s] = (Last + 1)..(Last + k + 1)
         /\ pending'[s][Last + k + 1].header = header
         /\ pending'[s][Last + k + 1].payload = payload
         /\ \A i \in (Last + 1)..(Last + k) : pending'[s][i] = pending[s][i]
         /\ \A u \in Session \ {s} : pending'[u] = pending[u]
<1>1. Proved!InsertBlock(s, header, payload)
  BY SameInsert
<1>2. Last = Proved!LastSeq(ledger)
  BY SameLast DEF Last
<1>. QED
  BY <1>1, <1>2, PlanningAssumption, Proved!InsertedBlock

\* What a commit makes of the ledger.
LEMMA CommittedBlocks ==
  ASSUME LedgerFacts, LedgerFacts', NEW s \in Session, NEW k \in Nat,
         DOMAIN pending[s] = (Last + 1)..(Last + k), Ledger!Commit(s)
  PROVE  /\ Last' = Last + k
         /\ \A i \in 1..Last : ledger'[i] = ledger[i]
         /\ \A i \in 1..k : ledger'[Last + i] = pending[s][Last + i]
         /\ DOMAIN pending'[s] = {}
         /\ \A u \in Session \ {s} : pending'[u] = pending[u]
<1>1. Proved!Commit(s)
  BY SameCommit
<1>2. Last = Proved!LastSeq(ledger) /\ Last' = Proved!LastSeq(ledger')
  BY SameLast DEF Last
<1>3. Proved!BlockFacts /\ Proved!BlockFacts'
  <2>1. Proved!BlockFacts
    BY SameFacts
  <2>2. Proved!BlockFacts'
    BY SameFacts, PTL
  <2>. QED
    BY <2>1, <2>2
<1>. QED
  BY <1>1, <1>2, <1>3, PlanningAssumption, Proved!CommittedBlocks

------------------------------------------------------------------------------
(* What stays true of a session, or of the tables, when others move.       *)

\* Blocks and reviews are only added.
Kept ==
  /\ \A i \in DOMAIN ledger : i \in DOMAIN ledger' /\ ledger'[i] = ledger[i]
  /\ \A c \in Cycle, e \in Employee : Exists(c, e) => Exists(c, e)'

LEMMA RecordKept ==
  ASSUME Kept, NEW c \in Cycle, NEW e \in Employee
  PROVE  /\ \A status : OnRecord(c, e, status) => OnRecord(c, e, status)'
         /\ ApprovalOnRecord(c, e) => ApprovalOnRecord(c, e)'
BY DEF Kept, OnRecord, ApprovalOnRecord, Blocks, Approved

LEMMA RowKept ==
  ASSUME Kept, NEW c \in Cycle, NEW todo, NEW row, RowInv(c, todo, row)
  PROVE  RowInv(c, todo, row)'
<1>1. PICK e \in Employee \ todo :
        /\ row.entity = <<c, e>>
        /\ Exists(c, e)
        /\ row.new_status \in Verdict
        /\ row.new_status = "VP_APPROVED" => OnRecord(c, e, "VP_EXCEPTION_REQUIRED")
  BY DEF RowInv
<1>2. Exists(c, e)' /\ (row.new_status = "VP_APPROVED" => OnRecord(c, e, "VP_EXCEPTION_REQUIRED")')
  BY <1>1, RecordKept DEF Kept
<1>. QED
  BY <1>1, <1>2 DEF RowInv, Verdict

LEMMA SealedNat ==
  ASSUME NEW t, WellFormed(t), t.pc \in Deciding
  PROVE  Sealed(t) \in Nat /\ Sealed(t) <= Len(t.logs) /\ t.logs \in Seq(Decision)
<1>1. t.logs \in Seq(Decision) /\ (t.pc \in Writing => t.logs # <<>>)
  BY DEF WellFormed
<1>2. Len(t.logs) \in Nat /\ (t.logs # <<>> => Len(t.logs) >= 1)
  BY <1>1
<1>. QED
  BY <1>1, <1>2 DEF Sealed

LEMMA OtherSession ==
  ASSUME TxnInv, LedgerFacts, LedgerFacts', Kept, NEW u \in Session, SessionInv(u),
         txn'[u] = txn[u], pending'[u] = pending[u],
         Last' = Last \/ DOMAIN pending[u] = {}
  PROVE  SessionInv(u)'
<1>. DEFINE t == txn[u]
<1>1. WellFormed(t)
  BY DEF TxnInv
<1>2. DecidingInv(u)'
  <2>1. SUFFICES ASSUME t.pc \in Deciding PROVE DecidingInv(u)'
    BY DEF DecidingInv
  <2>2. t.cycle \in Cycle /\ t.todo \subseteq Employee
    BY <1>1, <2>1, Phases DEF WellFormed
  <2>3. \A i \in 1..Len(t.logs) : RowInv(t.cycle, t.todo, t.logs[i])
    BY <2>1 DEF SessionInv, DecidingInv
  <2>. DEFINE Row(c, todo, row) == RowInv(c, todo, row)'
  <2>4. \A i \in 1..Len(t.logs) : Row(t.cycle, t.todo, t.logs[i])
    <3>1. \A c \in Cycle : \A todo, row : RowInv(c, todo, row) => Row(c, todo, row)
      BY RowKept
    <3>. QED
      BY <2>2, <2>3, <3>1
  <2>5. \A e \in t.todo : Exists(t.cycle, e)'
    BY <2>1, <2>2 DEF SessionInv, DecidingInv, Kept
  <2>. QED
    BY <2>1, <2>4, <2>5 DEF SessionInv, DecidingInv
<1>3. BlocksInv(u)'
  <2>1. CASE t.pc \in Deciding
    <3>1. Sealed(t) \in Nat /\ Last \in Nat /\ Last' \in Nat
      BY <1>1, <2>1, SealedNat DEF LedgerFacts
    <3>2. DOMAIN pending[u] = (Last + 1)..(Last + Sealed(t))
      BY <2>1 DEF SessionInv, BlocksInv
    <3>3. Last' = Last \/ Sealed(t) = 0
      <4>1. Sealed(t) # 0 => Last + 1 \in (Last + 1)..(Last + Sealed(t))
        BY <3>1
      <4>. QED
        BY <3>2, <4>1
    <3>4. DOMAIN pending[u] = (Last' + 1)..(Last' + Sealed(t))
      BY <3>1, <3>2, <3>3
    <3>5. \A i \in 1..Sealed(t) : /\ pending[u][Last' + i].header = LogHeader(t.logs[i])
                                  /\ pending[u][Last' + i].payload = LogPayload(t.logs[i])
      <4>1. CASE Last' = Last
        BY <2>1, <4>1 DEF SessionInv, BlocksInv
      <4>2. CASE Sealed(t) = 0
        BY <4>2
      <4>. QED
        BY <3>3, <4>1, <4>2
    <3>. QED
      BY <2>1, <3>4, <3>5 DEF BlocksInv
  <2>2. CASE t.pc \notin Deciding
    BY <2>2 DEF SessionInv, BlocksInv
  <2>. QED
    BY <2>1, <2>2
<1>4. UndecidedInv(u)'
  <2>1. t.pc \in {"check", "bands", "insert", "reviews", "employees", "apply"} => t.cycle \in Cycle
    BY DEF SessionInv, UndecidedInv
  <2>2. ASSUME t.pc \in {"employees", "apply"}, NEW e \in DOMAIN t.seen
        PROVE  Exists(t.cycle, e)' /\ (t.seen[e].status \in Approved => ApprovalOnRecord(t.cycle, e)')
    <3>1. /\ t.cycle \in Cycle /\ e \in Employee /\ Exists(t.cycle, e)
          /\ t.seen[e].status \in Approved => ApprovalOnRecord(t.cycle, e)
      BY <2>1, <2>2 DEF SessionInv, UndecidedInv
    <3>. QED
      BY <3>1, RecordKept DEF Kept
  <2>. QED
    BY <2>2 DEF SessionInv, UndecidedInv, Approved
<1>. QED
  BY <1>2, <1>3, <1>4 DEF SessionInv

\* One session moves, and its own part of the invariant still holds.
LEMMA OneSessionMoves ==
  ASSUME TxnInv, LedgerFacts, LedgerFacts', DecisionInv, Kept, NEW s \in Session,
         SessionInv(s)',
         \A u \in Session \ {s} : txn'[u] = txn[u] /\ pending'[u] = pending[u],
         Last' = Last \/ \A u \in Session \ {s} : DOMAIN pending[u] = {}
  PROVE  \A u \in Session : SessionInv(u)'
<1>1. ASSUME NEW u \in Session \ {s} PROVE SessionInv(u)'
  BY OtherSession DEF DecisionInv
<1>. QED
  BY <1>1

\* A step that leaves the tables and the committed blocks alone.
LEMMA TablesOfStep ==
  ASSUME DecisionInv, UNCHANGED <<tables, ledger>>, \A u \in Session : SessionInv(u)'
  PROVE  DecisionInv'
<1>1. TablesInv'
  BY DEF DecisionInv, TablesInv, tables
<1>2. LedgerTellsStatus'
  BY DEF DecisionInv, LedgerTellsStatus, Blocks, tables
<1>3. NoPayWithoutApproval'
  <2>1. \A c, e : Blocks(c, e)' = Blocks(c, e)
    BY DEF Blocks
  <2>2. employees' = employees /\ ledger' = ledger
    BY DEF tables
  <2>. QED
    BY <2>1, <2>2 DEF DecisionInv, NoPayWithoutApproval, Approved
<1>4. LogAgreesWithLedger'
  BY DEF DecisionInv, LogAgreesWithLedger, Place, DecisionRows, tables
<1>. QED
  BY <1>1, <1>2, <1>3, <1>4 DEF DecisionInv

\* Such a step of one session.
LEMMA TablesStay ==
  ASSUME TxnInv, LedgerFacts, LedgerFacts', DecisionInv, NEW s \in Session,
         UNCHANGED <<tables, ledger>>, SessionInv(s)',
         \A u \in Session \ {s} : txn'[u] = txn[u] /\ pending'[u] = pending[u]
  PROVE  DecisionInv'
<1>1. Kept /\ Last' = Last
  BY DEF Kept, Exists, tables, Last, LedgerFacts
<1>2. \A u \in Session : SessionInv(u)'
  BY <1>1, OneSessionMoves
<1>. QED
  BY <1>2, TablesOfStep

\* A session whose request has ended.
LEMMA EndedSession ==
  ASSUME NEW s \in Session, txn'[s].pc \in {"idle", "illegal"}, DOMAIN pending'[s] = {}
  PROVE  SessionInv(s)'
BY DEF SessionInv, DecidingInv, BlocksInv, UndecidedInv, Deciding

------------------------------------------------------------------------------
(* A request begins.                                                       *)

LEMMA ReadyHasNoBlocks ==
  ASSUME DecisionInv, NEW s \in Session, Ready(s)
  PROVE  DOMAIN pending[s] = {}
BY DEF DecisionInv, SessionInv, BlocksInv, Ready, Deciding

\* An audit or a batch, which has its proposals still to read.
LEMMA BeginsToAudit ==
  ASSUME LedgerFacts', NEW s \in Session, NEW c \in Cycle, NEW todo \in SUBSET Employee, NEW op,
         UNCHANGED reviews, \A e \in todo : Exists(c, e),
         op # "batch" => \E e \in Employee : todo = {e},
         txn'[s] = Begin("read", op, c, todo, <<>>), DOMAIN pending'[s] = {}
  PROVE  SessionInv(s)'
<1>1. /\ txn'[s].pc = "read" /\ txn'[s].op = op /\ txn'[s].cycle = c
      /\ txn'[s].todo = todo /\ txn'[s].logs = <<>> /\ txn'[s].fresh = {}
  BY DEF Begin
<1>2. Len(<<>>) = 0 /\ 1..0 = {}
  OBVIOUS
<1>3. \A e \in todo : Exists(c, e)'
  BY DEF Exists
<1>4. DecidingInv(s)'
  BY <1>1, <1>2, <1>3 DEF DecidingInv
<1>5. Sealed(txn'[s]) = 0
  BY <1>1, <1>2 DEF Sealed, Writing
<1>6. DOMAIN pending'[s] = (Last' + 1)..(Last' + 0)
  BY DEF LedgerFacts
<1>7. BlocksInv(s)'
  BY <1>1, <1>2, <1>5, <1>6 DEF BlocksInv, Deciding
<1>8. UndecidedInv(s)'
  BY <1>1 DEF UndecidedInv
<1>. QED
  BY <1>4, <1>7, <1>8 DEF SessionInv

\* The exception a VP approves is on record.
LEMMA ExceptionOnRecord ==
  ASSUME LedgerTellsStatus, NEW c \in Cycle, NEW e \in Employee,
         NEW status \in ReviewStatus \ {"DRAFT", "FINALIZED"},
         LedgerFacts, reviews[c][e].status = status
  PROVE  OnRecord(c, e, status)
<1>. DEFINE B == Blocks(c, e)
<1>1. B # {} /\ ledger[Max(B)].payload.new_status = status
  <2>1. status \notin {"NONE", "DRAFT", "FINALIZED"}
    BY DEF ReviewStatus
  <2>. QED
    BY <2>1 DEF LedgerTellsStatus
<1>2. Max(B) \in B
  <2>1. B \subseteq 1..Last /\ Last \in Nat
    BY DEF LedgerFacts, Blocks
  <2>. QED
    BY <1>1, <2>1, MaxOfBlocks
<1>. QED
  BY <1>1, <1>2 DEF OnRecord

LEMMA ApproveBegins ==
  ASSUME TxnInv, LedgerFacts, LedgerFacts', DecisionInv, NEW s \in Session,
         NEW c \in Cycle, NEW e \in Employee, BeginApprove(s, c, e)
  PROVE  SessionInv(s)'
<1>. DEFINE status == reviews[c][e].status
            row == ReviewLog(c, e, "VP_APPROVAL", status, "VP_APPROVED")
<1>1. /\ Ready(s) /\ Exists(c, e)
      /\ reviews' = reviews /\ ledger' = ledger /\ pending' = pending
      /\ txn' = [txn EXCEPT ![s] = IF CanTransitionReview(status, "VP_APPROVED")
                                   THEN Begin("flush", "approve", c, {}, <<row>>)
                                   ELSE Illegal("approve", status)]
  BY DEF BeginApprove, tables
<1>2. DOMAIN pending'[s] = {}
  BY <1>1, ReadyHasNoBlocks
<1>3. CASE ~ CanTransitionReview(status, "VP_APPROVED")
  <2>1. txn'[s].pc = "illegal"
    BY <1>1, <1>3 DEF TxnInv, Illegal
  <2>. QED
    BY <1>2, <2>1, EndedSession
<1>4. CASE CanTransitionReview(status, "VP_APPROVED")
  <2>1. status = "VP_EXCEPTION_REQUIRED"
    BY <1>4 DEF CanTransitionReview, ReviewTransitions
  <2>2. OnRecord(c, e, "VP_EXCEPTION_REQUIRED")
    BY <2>1, ExceptionOnRecord DEF DecisionInv, ReviewStatus
  <2>3. OnRecord(c, e, "VP_EXCEPTION_REQUIRED")' /\ Exists(c, e)'
    BY <1>1, <2>2 DEF OnRecord, Blocks, Exists
  <2>4. PICK r : r = row
    OBVIOUS
  <2>5. r.entity = <<c, e>> /\ r.new_status = "VP_APPROVED"
    BY <2>4 DEF ReviewLog
  <2>6. /\ txn'[s].pc = "flush" /\ txn'[s].op = "approve" /\ txn'[s].cycle = c
        /\ txn'[s].todo = {} /\ txn'[s].logs = <<r>> /\ txn'[s].fresh = {}
    <3>1. txn'[s] = Begin("flush", "approve", c, {}, <<r>>)
      BY <1>1, <1>4, <2>4 DEF TxnInv
    <3>. QED
      BY <3>1 DEF Begin
  <2>7. Len(<<r>>) = 1 /\ 1..1 = {1} /\ <<r>>[1] = r
    OBVIOUS
  <2>8. RowInv(c, {}, r)'
    BY <2>3, <2>5 DEF RowInv, Verdict
  <2>9. DecidingInv(s)'
    <3>1. \A i \in 1..Len(<<r>>) : RowInv(c, {}, <<r>>[i])'
      BY <2>7, <2>8
    <3>2. \A i, j \in 1..Len(<<r>>) : i = j
      BY <2>7
    <3>3. \A x \in {} : Exists(c, x)'
      OBVIOUS
    <3>. QED
      BY <2>6, <2>7, <3>1, <3>2, <3>3 DEF DecidingInv
  <2>10. Sealed(txn'[s]) = 0
    BY <2>6, <2>7 DEF Sealed, Writing
  <2>11. DOMAIN pending'[s] = (Last' + 1)..(Last' + 0) /\ 1..0 = {}
    BY <1>2 DEF LedgerFacts
  <2>12. BlocksInv(s)'
    BY <2>6, <2>10, <2>11 DEF BlocksInv, Deciding
  <2>13. UndecidedInv(s)'
    BY <2>6 DEF UndecidedInv
  <2>. QED
    BY <2>9, <2>12, <2>13 DEF SessionInv
<1>. QED
  BY <1>3, <1>4

LEMMA BeginKeepsDecisions ==
  ASSUME TxnInv, LedgerFacts, LedgerFacts', DecisionInv, NEW s \in Session, BeginRequest(s)
  PROVE  DecisionInv'
<1>1. /\ UNCHANGED <<tables, ledger>> /\ pending' = pending /\ Ready(s)
      /\ \A u \in Session \ {s} : txn'[u] = txn[u]
  BY DEF BeginRequest, BeginCreate, BeginAudit, BeginBatch, BeginApprove, BeginFinalize, TxnInv
<1>2. DOMAIN pending'[s] = {} /\ reviews' = reviews
  BY <1>1, ReadyHasNoBlocks DEF tables
<1>3. SessionInv(s)'
  <2>1. CASE \E c \in Cycle, e \in Employee : BeginCreate(s, c, e)
    <3>1. PICK c \in Cycle, e \in Employee : txn'[s] = Begin("check", "create", c, {e}, <<>>)
      BY <2>1 DEF BeginCreate, TxnInv
    <3>2. txn'[s].pc = "check" /\ txn'[s].cycle = c /\ txn'[s].todo = {e}
      BY <3>1 DEF Begin
    <3>. QED
      BY <1>2, <3>2 DEF SessionInv, DecidingInv, BlocksInv, UndecidedInv, Deciding
  <2>2. CASE \E c \in Cycle, e \in Employee : BeginAudit(s, c, e)
    <3>1. PICK c \in Cycle, e \in Employee :
            Exists(c, e) /\ txn'[s] = Begin("read", "audit", c, {e}, <<>>)
      BY <2>2 DEF BeginAudit, TxnInv
    <3>. QED
      BY <1>2, <3>1, BeginsToAudit
  <2>3. CASE \E c \in Cycle, ids \in SUBSET Employee : BeginBatch(s, c, ids)
    <3>1. PICK c \in Cycle, ids \in SUBSET Employee :
            txn'[s] = Begin("read", "batch", c, { e \in ids : Exists(c, e) }, <<>>)
      BY <2>3 DEF BeginBatch, TxnInv
    <3>. DEFINE todo == { e \in ids : Exists(c, e) }
    <3>2. todo \in SUBSET Employee /\ \A e \in todo : Exists(c, e)
      OBVIOUS
    <3>. HIDE DEF todo
    <3>3. txn'[s] = Begin("read", "batch", c, todo, <<>>)
      BY <3>1 DEF todo
    <3>. QED
      BY <1>2, <3>2, <3>3, BeginsToAudit
  <2>4. CASE \E c \in Cycle, e \in Employee : BeginApprove(s, c, e)
    BY <2>4, ApproveBegins
  <2>5. CASE \E c \in Cycle : BeginFinalize(s, c)
    <3>1. PICK c \in Cycle : txn'[s] = Begin("reviews", "finalize", c, {}, <<>>)
      BY <2>5 DEF BeginFinalize, TxnInv
    <3>2. txn'[s].pc = "reviews" /\ txn'[s].cycle = c
      BY <3>1 DEF Begin
    <3>. QED
      BY <1>2, <3>2 DEF SessionInv, DecidingInv, BlocksInv, UndecidedInv, Deciding
  <2>. QED
    BY <2>1, <2>2, <2>3, <2>4, <2>5 DEF BeginRequest
<1>. QED
  BY <1>1, <1>3, TablesStay

------------------------------------------------------------------------------
(* A transaction goes on.                                                  *)

\* The request is refused, conflicts or dies, and leaves nothing.
LEMMA EndKeepsDecisions ==
  ASSUME TxnInv, LedgerFacts, LedgerFacts', DecisionInv, NEW s \in Session,
         UNCHANGED <<tables, ledger>>, DOMAIN pending'[s] = {},
         \A u \in Session \ {s} : pending'[u] = pending[u],
         NEW t, txn' = [txn EXCEPT ![s] = t], t.pc \in {"idle", "illegal"}
  PROVE  DecisionInv'
<1>1. txn'[s] = t /\ \A u \in Session \ {s} : txn'[u] = txn[u]
  BY DEF TxnInv
<1>2. SessionInv(s)'
  BY <1>1, EndedSession
<1>. QED
  BY <1>1, <1>2, TablesStay

LEMMA RolledBack ==
  ASSUME LedgerFacts, NEW s \in Session, Ledger!Rollback(s)
  PROVE  /\ ledger' = ledger /\ DOMAIN pending'[s] = {}
         /\ \A u \in Session \ {s} : pending'[u] = pending[u]
<1>1. pending'[s] = Ledger!NoRows /\ \A u \in Session \ {s} : pending'[u] = pending[u]
  BY DEF Ledger!Rollback, LedgerFacts
<1>2. ledger' = ledger
  BY DEF Ledger!Rollback
<1>. QED
  BY <1>1, <1>2 DEF Ledger!NoRows

LEMMA AbortKeepsDecisions ==
  ASSUME TxnInv, LedgerFacts, LedgerFacts', DecisionInv, NEW s \in Session,
         Abort(s) \/ LedgerConflict(s) \/ BandConflict(s)
  PROVE  DecisionInv'
<1>1. Ledger!Rollback(s) /\ UNCHANGED tables /\ txn' = [txn EXCEPT ![s] = Idle]
  BY DEF Abort, LedgerConflict, BandConflict, Ledger!InsertConflict
<1>2. Idle.pc = "idle"
  BY DEF Idle
<1>. QED
  BY <1>1, <1>2, RolledBack, EndKeepsDecisions

\* A step that carries a transaction on, its blocks accounted for, to its next
\* statement, its next proposal or its commit.
LEMMA MoveKeepsDecisions ==
  ASSUME TxnInv, LedgerFacts, LedgerFacts', DecisionInv, NEW s \in Session,
         UNCHANGED <<tables, ledger>>, \A u \in Session \ {s} : pending'[u] = pending[u],
         NEW pc, Carries(s, pc), BlocksInv(s)'
  PROVE  DecisionInv'
<1>. DEFINE t == txn[s]
<1>1. /\ txn'[s].pc = pc /\ txn'[s].op = t.op /\ txn'[s].cycle = t.cycle
      /\ txn'[s].todo = t.todo /\ txn'[s].logs = t.logs /\ txn'[s].seen = t.seen
      /\ \A u \in Session \ {s} : txn'[u] = txn[u]
  BY FieldsOfRecord DEF Carries, Moved, Fields
<1>2. DecidingInv(s) /\ UndecidedInv(s)
  BY DEF DecisionInv, SessionInv
<1>3. CASE t.pc = "bands"
  <2>1. pc \in {"bands", "insert"}
    BY <1>3 DEF Carries
  <2>2. DecidingInv(s)'
    BY <1>1, <2>1 DEF DecidingInv, Deciding
  <2>3. UndecidedInv(s)'
    BY <1>1, <1>2, <1>3, <2>1 DEF UndecidedInv, Review
  <2>. QED
    BY <1>1, <2>2, <2>3, TablesStay DEF SessionInv
<1>4. CASE t.pc # "bands"
  <2>1. /\ t.pc \in Deciding /\ t.pc # "read"
        /\ pc \in {"band", "ledger", "block", "commit", "read"}
        /\ pc = "band" => t.pc = "flush"
        /\ pc = "read" => t.todo # {}
    BY <1>4 DEF Carries, Deciding
  <2>2. \A e : Exists(t.cycle, e)' <=> Exists(t.cycle, e)
    BY <1>1 DEF Exists, tables
  <2>3. (\A i \in 1..Len(txn[s].logs) : RowInv(txn[s].cycle, txn[s].todo, txn[s].logs[i]))'
    <3>1. Kept
      BY DEF Kept, Exists, tables
    <3>2. t.cycle \in Cycle
      BY <2>1, Phases DEF TxnInv, WellFormed
    <3>3. PICK cy, to, lg : cy = t.cycle /\ to = t.todo /\ lg = t.logs
      OBVIOUS
    <3>4. \A i \in 1..Len(lg) : RowInv(cy, to, lg[i])
      BY <1>2, <2>1, <3>3 DEF DecidingInv
    <3>5. ASSUME NEW i \in 1..Len(lg) PROVE RowInv(cy, to, lg[i])'
      BY <3>1, <3>2, <3>3, <3>4, RowKept
    <3>. QED
      BY <1>1, <3>3, <3>5
  <2>4. DecidingInv(s)'
    <3>1. \A e \in t.todo : Exists(t.cycle, e)'
      BY <1>2, <2>1, <2>2 DEF DecidingInv
    <3>2. \A i, j \in 1..Len(t.logs) : t.logs[i].entity = t.logs[j].entity => i = j
      BY <1>2, <2>1 DEF DecidingInv
    <3>3. t.op # "batch" => Len(t.logs) = 1 /\ t.todo = {}
      BY <1>2, <2>1 DEF DecidingInv
    <3>4. t.op # "batch" /\ pc = "band" => txn'[s].fresh = {}
      <4>1. t.op # "batch" /\ pc = "band" => txn'[s].fresh = t.fresh
        BY <1>1 DEF Carries
      <4>. QED
        BY <1>2, <2>1, <4>1 DEF DecidingInv
    <3>. QED
      BY <1>1, <2>1, <2>3, <3>1, <3>2, <3>3, <3>4 DEF DecidingInv
  <2>5. UndecidedInv(s)'
    BY <1>1, <2>1 DEF UndecidedInv
  <2>. QED
    BY <1>1, <2>4, <2>5, TablesStay DEF SessionInv
<1>. QED
  BY <1>3, <1>4

LEMMA FlushKeepsDecisions ==
  ASSUME TxnInv, LedgerFacts, LedgerFacts', DecisionInv, NEW s \in Session,
         Flush(s) \/ ReadLedgerHead(s) \/ InsertBand(s)
  PROVE  DecisionInv'
<1>1. UNCHANGED <<tables, ledger>> /\ pending' = pending
  BY DEF Flush, ReadLedgerHead, InsertBand, Ledger!ReadHead
<1>2. PICK pc : /\ Carries(s, pc)
                /\ pc \in {"ledger", "block", "band", "bands", "insert"}
                /\ txn[s].pc \in {"flush", "ledger", "bands", "band"}
  <2>1. CASE Flush(s)
    BY <2>1, FlushMoves DEF Flush
  <2>2. CASE ReadLedgerHead(s)
    BY <2>2, ReadHeadMoves DEF ReadLedgerHead
  <2>3. CASE InsertBand(s)
    BY <2>3, InsertBandMoves DEF InsertBand
  <2>. QED
    BY <2>1, <2>2, <2>3
<1>3. txn'[s].pc = pc /\ txn'[s].logs = txn[s].logs
  BY <1>2, FieldsOfRecord DEF Carries, Moved, Fields
<1>4. /\ Sealed(txn'[s]) = Sealed(txn[s])
      /\ txn[s].pc \in Deciding <=> txn'[s].pc \in Deciding
  BY <1>2, <1>3 DEF Sealed, Writing, Deciding, Carries
<1>5. Last' = Last
  BY <1>1 DEF Last
<1>6. BlocksInv(s)'
  <2>1. BlocksInv(s)
    BY DEF DecisionInv, SessionInv
  <2>. QED
    BY <1>1, <1>3, <1>4, <1>5, <2>1 DEF BlocksInv
<1>. QED
  BY <1>1, <1>2, <1>6, MoveKeepsDecisions

LEMMA InsertKeepsDecisions ==
  ASSUME TxnInv, Proved!ChainInv, LedgerFacts', DecisionInv, NEW s \in Session,
         InsertLedgerBlock(s)
  PROVE  DecisionInv'
<1>. DEFINE logs == txn[s].logs
            k == Len(logs) - 1
            row == logs[Len(logs)]
<1>1. /\ LedgerFacts /\ UNCHANGED tables /\ txn[s].pc = "block"
      /\ Ledger!InsertBlock(s, LogHeader(row), LogPayload(row))
  BY FactsOfChain DEF InsertLedgerBlock
<1>6. PICK pc \in {"read", "commit"} : Carries(s, pc)
  BY InsertBlockMoves
<1>2. Sealed(txn[s]) = k /\ k \in Nat /\ txn[s].pc \in Deciding /\ k + 1 = Len(logs)
  <2>1. WellFormed(txn[s]) /\ txn[s].pc \in Deciding
    BY <1>1 DEF TxnInv, Deciding
  <2>2. Sealed(txn[s]) = k
    BY <1>1 DEF Sealed, Writing
  <2>3. Sealed(txn[s]) \in Nat
    BY <2>1, SealedNat
  <2>. QED
    BY <2>1, <2>2, <2>3, SealedNat
<1>3. BlocksInv(s)
  BY DEF DecisionInv, SessionInv
<1>4. DOMAIN pending[s] = (Last + 1)..(Last + k)
  BY <1>2, <1>3 DEF BlocksInv
<1>5. /\ ledger' = ledger
      /\ DOMAIN pending'[s] = (Last + 1)..(Last + k + 1)
      /\ pending'[s][Last + k + 1].header = LogHeader(row)
      /\ pending'[s][Last + k + 1].payload = LogPayload(row)
      /\ \A i \in (Last + 1)..(Last + k) : pending'[s][i] = pending[s][i]
      /\ \A u \in Session \ {s} : pending'[u] = pending[u]
  <2>. HIDE DEF k, row
  <2>. QED
    BY <1>1, <1>2, <1>4, InsertedBlock
<1>7. txn'[s].pc = pc /\ txn'[s].logs = logs
  BY <1>6, FieldsOfRecord DEF Carries, Moved, Fields
<1>8. Last' = Last /\ Last \in Nat
  BY <1>1, <1>5 DEF Last, LedgerFacts
<1>9. Sealed(txn'[s]) = k + 1
  BY <1>2, <1>6, <1>7 DEF Sealed, Writing
<1>10. ASSUME NEW i \in 1..(k + 1)
       PROVE  /\ pending'[s][Last + i].header = LogHeader(logs[i])
              /\ pending'[s][Last + i].payload = LogPayload(logs[i])
  <2>1. CASE i = k + 1
    BY <1>2, <1>5, <1>8, <2>1
  <2>2. CASE i # k + 1
    <3>1. i \in 1..k /\ Last + i \in (Last + 1)..(Last + k)
      BY <1>2, <1>8, <2>2
    <3>2. /\ pending[s][Last + i].header = LogHeader(logs[i])
          /\ pending[s][Last + i].payload = LogPayload(logs[i])
      BY <1>2, <1>3, <3>1 DEF BlocksInv
    <3>. QED
      BY <1>5, <3>1, <3>2
  <2>. QED
    BY <2>1, <2>2
<1>11. BlocksInv(s)'
  <2>1. txn'[s].pc \in Deciding
    BY <1>6, <1>7 DEF Deciding
  <2>2. DOMAIN pending'[s] = (Last' + 1)..(Last' + Sealed(txn'[s]))
    BY <1>2, <1>5, <1>8, <1>9
  <2>. QED
    BY <1>7, <1>8, <1>9, <1>10, <2>1, <2>2 DEF BlocksInv
<1>12. UNCHANGED <<tables, ledger>>
  BY <1>1, <1>5
<1>. QED
  BY <1>5, <1>6, <1>11, <1>12, MoveKeepsDecisions, FactsOfChain

\* A proposal is read and judged: one row more, and one proposal less to go.
LEMMA ReadKeepsDecisions ==
  ASSUME TxnInv, LedgerFacts, LedgerFacts', DecisionInv, NEW s \in Session, ReadProposal(s)
  PROVE  DecisionInv'
<1>. DEFINE c == txn[s].cycle
            todo == txn[s].todo
            logs == txn[s].logs
<1>1. /\ txn[s].pc = "read" /\ WellFormed(txn[s]) /\ txn[s].pc \in Deciding
      /\ txn[s].pc \in Running
      /\ c \in Cycle /\ todo \subseteq Employee /\ logs \in Seq(Decision)
      /\ UNCHANGED tables
  BY ReadFacts DEF ReadProposal
<1>2. PICK e \in todo :
        \/ \E decision \in AgentDecisions : Reads(s, e, decision)
        \/ /\ \E status : txn' = [txn EXCEPT ![s] = Illegal(txn[s].op, status)]
           /\ Ledger!Rollback(s)
  BY ReadFacts
<1>3. CASE /\ \E status : txn' = [txn EXCEPT ![s] = Illegal(txn[s].op, status)]
           /\ Ledger!Rollback(s)
  <2>1. PICK status, t : t = Illegal(txn[s].op, status) /\ txn' = [txn EXCEPT ![s] = t]
    BY <1>3
  <2>2. t.pc = "illegal"
    BY <2>1 DEF Illegal
  <2>4. /\ ledger' = ledger /\ DOMAIN pending'[s] = {}
        /\ \A u \in Session \ {s} : pending'[u] = pending[u]
    BY <1>3, RolledBack
  <2>. QED
    BY <1>1, <2>1, <2>2, <2>4, EndKeepsDecisions
<1>4. ASSUME NEW decision \in AgentDecisions, Reads(s, e, decision)
      PROVE  DecisionInv'
  <2>2. PICK row : row = ReviewLog(c, e, "AGENT_AUDIT", reviews[c][e].status, decision)
    OBVIOUS
  <2>3. /\ row.entity = <<c, e>>
        /\ row.new_status \in Verdict /\ row.new_status # "VP_APPROVED"
    BY <2>2 DEF ReviewLog, AgentDecisions, Verdict
  <2>4. PICK cy, to, lg : cy = c /\ to = todo /\ lg = logs
    OBVIOUS
  <2>5. /\ UNCHANGED <<tables, ledger>> /\ reviews' = reviews /\ pending' = pending
        /\ \A u \in Session \ {s} : txn'[u] = txn[u] /\ pending'[u] = pending[u]
    BY <1>1, <1>4 DEF Reads, TxnInv, tables
  <2>6. /\ txn'[s].pc = "flush" /\ txn'[s].op = txn[s].op /\ txn'[s].cycle = cy
        /\ txn'[s].todo = to \ {e} /\ txn'[s].logs = Append(lg, row)
        /\ txn'[s].fresh = txn[s].fresh
    <3>1. txn'[s] = [ pc |-> "flush", op |-> txn[s].op, cycle |-> c, todo |-> todo \ {e},
                      logs |-> Append(logs, row), seen |-> txn[s].seen,
                      people |-> txn[s].people, missing |-> txn'[s].missing,
                      fresh |-> txn[s].fresh ]
      BY <1>4, <2>2 DEF Reads
    <3>. QED
      BY <2>4, <3>1
  <2>7. DecidingInv(s)
    BY DEF DecisionInv, SessionInv
  <2>8. /\ \A x \in to : Exists(cy, x)
        /\ \A i \in 1..Len(lg) : RowInv(cy, to, lg[i])
        /\ \A i, j \in 1..Len(lg) : lg[i].entity = lg[j].entity => i = j
        /\ txn[s].op # "batch" => /\ lg = <<>> /\ txn[s].fresh = {}
                                  /\ \E x \in Employee : to = {x}
    BY <1>1, <2>4, <2>7 DEF DecidingInv
  <2>9. /\ Len(Append(lg, row)) = Len(lg) + 1 /\ Len(lg) \in Nat
        /\ Append(lg, row)[Len(lg) + 1] = row
        /\ \A i \in 1..Len(lg) : Append(lg, row)[i] = lg[i]
    <3>1. lg \in Seq(Decision)
      BY <1>1, <2>4
    <3>2. row \in Decision
      <4>1. decision \in ReviewStatus
        BY DEF AgentDecisions, ReviewStatus
      <4>. QED
        BY <1>1, <1>4, <2>2, <4>1, AuditedStatus, DecisionOfLog DEF Reads
    <3>. QED
      BY <3>1, <3>2
  <2>10. \A x \in to : Exists(cy, x)'
    BY <2>5, <2>8 DEF Exists
  <2>11. RowInv(cy, to \ {e}, row)'
    <3>1. e \in Employee \ (to \ {e}) /\ Exists(cy, e)' /\ row.entity = <<cy, e>>
      BY <1>1, <2>3, <2>4, <2>10
    <3>. QED
      BY <2>3, <3>1 DEF RowInv, Verdict
  <2>12. ASSUME NEW i \in 1..Len(lg)
         PROVE  RowInv(cy, to \ {e}, lg[i])' /\ lg[i].entity # <<cy, e>>
    <3>1. RowInv(cy, to, lg[i])
      BY <2>8
    <3>2. RowInv(cy, to \ {e}, lg[i])
      BY <3>1 DEF RowInv
    <3>3. Kept /\ cy \in Cycle
      BY <1>1, <2>4, <2>5 DEF Kept, Exists
    <3>4. RowInv(cy, to \ {e}, lg[i])'
      BY <3>2, <3>3, RowKept
    <3>5. lg[i].entity # <<cy, e>>
      BY <2>4, <3>1 DEF RowInv
    <3>. QED
      BY <3>4, <3>5
  <2>13. (\A i \in 1..Len(txn[s].logs) : RowInv(txn[s].cycle, txn[s].todo, txn[s].logs[i]))'
    <3>1. ASSUME NEW i \in 1..(Len(lg) + 1)
          PROVE  RowInv(cy, to \ {e}, Append(lg, row)[i])'
      <4>1. CASE i = Len(lg) + 1
        BY <2>9, <2>11, <4>1
      <4>2. CASE i # Len(lg) + 1
        <5>1. i \in 1..Len(lg)
          BY <2>9, <4>2
        <5>. QED
          BY <2>9, <2>12, <5>1
      <4>. QED
        BY <4>1, <4>2
    <3>. QED
      BY <2>6, <2>9, <3>1
  <2>14. ASSUME NEW i \in 1..(Len(lg) + 1), NEW j \in 1..(Len(lg) + 1),
                Append(lg, row)[i].entity = Append(lg, row)[j].entity
         PROVE  i = j
    <3>1. i \in 1..Len(lg) \/ i = Len(lg) + 1
      BY <2>9
    <3>2. j \in 1..Len(lg) \/ j = Len(lg) + 1
      BY <2>9
    <3>3. row.entity = <<cy, e>>
      BY <2>3, <2>4
    <3>. QED
      BY <2>8, <2>9, <2>12, <2>14, <3>1, <3>2, <3>3
  <2>15. txn[s].op # "batch" => /\ Len(Append(lg, row)) = 1 /\ to \ {e} = {}
                                /\ txn'[s].fresh = {}
    BY <2>4, <2>6, <2>8, <2>9
  <2>16. DecidingInv(s)'
    BY <2>6, <2>9, <2>10, <2>13, <2>14, <2>15 DEF DecidingInv
  <2>17. BlocksInv(s)'
    <3>1. Sealed(txn[s]) = Len(lg) /\ Sealed(txn'[s]) = Len(lg)
      BY <1>1, <2>4, <2>6, <2>9 DEF Sealed, Writing
    <3>2. Last' = Last /\ BlocksInv(s) /\ txn'[s].pc \in Deciding
      BY <2>5, <2>6 DEF Last, DecisionInv, SessionInv, Deciding
    <3>. QED
      BY <1>1, <2>4, <2>5, <2>6, <2>9, <3>1, <3>2 DEF BlocksInv
  <2>18. UndecidedInv(s)'
    BY <2>6 DEF UndecidedInv
  <2>. QED
    BY <2>5, <2>16, <2>17, <2>18, TablesStay DEF SessionInv
<1>. QED
  BY <1>2, <1>3, <1>4

------------------------------------------------------------------------------
(* Creates, and what a finalize reads.                                     *)

LEMMA CheckKeepsDecisions ==
  ASSUME TxnInv, LedgerFacts, LedgerFacts', DecisionInv, NEW s \in Session, CheckExisting(s)
  PROVE  DecisionInv'
<1>1. /\ txn[s].pc = "check" /\ txn[s].pc \in Running
      /\ UNCHANGED <<tables, ledger>> /\ pending' = pending
      /\ UndecidedInv(s) /\ DOMAIN pending[s] = {}
  BY DEF CheckExisting, Running, Proposing, DecisionInv, SessionInv, BlocksInv, Deciding
<1>3. CASE txn' = [txn EXCEPT ![s] = Idle]
  <2>1. Idle.pc = "idle"
    BY DEF Idle
  <2>. QED
    BY <1>1, <1>3, <2>1, EndKeepsDecisions
<1>4. ASSUME NEW e \in txn[s].todo, NEW base \in ProposedBase, NEW rsus \in Grant,
             Checks(s, e, base, rsus)
      PROVE  DecisionInv'
  <2>1. PICK review : review = [ status |-> "DRAFT", current_base |-> employees[e].base,
                                 proposed_base |-> base, rsus |-> rsus ]
    OBVIOUS
  <2>2. txn[s].cycle \in Cycle /\ e \in Employee /\ txn[s].todo = {e}
    BY <1>1 DEF UndecidedInv
  <2>3. review \in Review /\ review.status = "DRAFT"
    <3>1. employees[e].base \in Base
      BY <2>2 DEF DecisionInv, TablesInv
    <3>. QED
      BY <2>1, <3>1, PlanningAssumption DEF Review, ReviewStatus
  <2>4. /\ txn'[s].pc \in {"bands", "insert"} /\ txn'[s].cycle = txn[s].cycle
        /\ txn'[s].todo = txn[s].todo /\ txn'[s].seen = [x \in {e} |-> review]
        /\ \A u \in Session \ {s} : txn'[u] = txn[u]
    <3>1. PICK pc \in {"bands", "insert"} :
            txn'[s] = [ pc |-> pc, op |-> txn[s].op, cycle |-> txn[s].cycle,
                        todo |-> txn[s].todo, logs |-> txn[s].logs,
                        seen |-> [x \in {e} |-> review], people |-> txn[s].people,
                        missing |-> txn'[s].missing, fresh |-> txn[s].fresh ]
      BY <1>4, <2>1 DEF Checks
    <3>. QED
      BY <1>4, <3>1 DEF Checks
  <2>5. txn'[s].seen[e] = review
    BY <2>4
  <2>6. UndecidedInv(s)'
    BY <2>2, <2>3, <2>4, <2>5 DEF UndecidedInv, Review
  <2>7. DecidingInv(s)' /\ BlocksInv(s)'
    BY <1>1, <2>4 DEF DecidingInv, BlocksInv, Deciding
  <2>. QED
    BY <1>1, <2>4, <2>6, <2>7, TablesStay DEF SessionInv
<1>. QED
  BY <1>3, <1>4, CheckFacts

\* The proposals a finalize finds approved have an approval on record.
LEMMA SeenApproval ==
  ASSUME LedgerTellsStatus, LedgerFacts, NEW c \in Cycle, NEW e \in Employee,
         reviews[c][e].status \in Approved
  PROVE  ApprovalOnRecord(c, e)
<1>1. PICK status \in ReviewStatus \ {"DRAFT", "FINALIZED"} :
        reviews[c][e].status = status /\ status \in Approved
  BY DEF Approved, ReviewStatus
<1>2. OnRecord(c, e, status)
  BY <1>1, ExceptionOnRecord
<1>. QED
  BY <1>1, <1>2 DEF OnRecord, ApprovalOnRecord

LEMMA ReadReviewsKeepsDecisions ==
  ASSUME TxnInv, LedgerFacts, LedgerFacts', DecisionInv, NEW s \in Session, ReadReviews(s)
  PROVE  DecisionInv'
<1>1. /\ txn[s].pc = "reviews" /\ txn[s].pc \in Running
      /\ UNCHANGED <<tables, ledger>> /\ reviews' = reviews /\ ledger' = ledger
      /\ pending' = pending
      /\ UndecidedInv(s) /\ DOMAIN pending[s] = {}
  BY DEF ReadReviews, Running, Finalizing, DecisionInv, SessionInv, BlocksInv, Deciding, tables
<1>2. PICK c : c = txn[s].cycle
  OBVIOUS
<1>3. PICK seen : seen = [e \in { x \in Employee : Exists(c, x) } |-> reviews[c][e]]
  OBVIOUS
<1>4. c \in Cycle
  BY <1>1, <1>2 DEF UndecidedInv
<1>5. /\ txn'[s].pc = "employees" /\ txn'[s].cycle = c /\ txn'[s].seen = seen
      /\ \A u \in Session \ {s} : txn'[u] = txn[u]
  <2>1. txn'[s] = [ pc |-> "employees", op |-> txn[s].op, cycle |-> txn[s].cycle,
                    todo |-> txn[s].todo, logs |-> txn[s].logs, seen |-> seen,
                    people |-> txn[s].people, missing |-> txn[s].missing,
                    fresh |-> txn[s].fresh ]
    BY <1>2, <1>3, ReadReviewsFacts
  <2>2. \A u \in Session \ {s} : txn'[u] = txn[u]
    BY ReadReviewsFacts
  <2>. QED
    BY <1>2, <2>1, <2>2
<1>6. ASSUME NEW e \in DOMAIN seen
      PROVE  /\ e \in Employee /\ Exists(c, e)' /\ seen[e] \in Review
             /\ seen[e].status \in Approved => ApprovalOnRecord(c, e)'
  <2>1. e \in Employee /\ Exists(c, e) /\ seen[e] = reviews[c][e]
    BY <1>3
  <2>2. seen[e] \in Review
    BY <1>4, <2>1 DEF DecisionInv, TablesInv, Exists
  <2>3. seen[e].status \in Approved => ApprovalOnRecord(c, e)
    BY <1>4, <2>1, SeenApproval DEF DecisionInv
  <2>4. (ApprovalOnRecord(c, e) => ApprovalOnRecord(c, e)') /\ Exists(c, e)'
    BY <1>1, <2>1 DEF ApprovalOnRecord, Blocks, Approved, Exists
  <2>. QED
    BY <2>1, <2>2, <2>3, <2>4
<1>7. UndecidedInv(s)'
  BY <1>4, <1>5, <1>6 DEF UndecidedInv, Approved, Review
<1>8. DecidingInv(s)' /\ BlocksInv(s)'
  BY <1>1, <1>5 DEF DecidingInv, BlocksInv, Deciding
<1>. QED
  BY <1>1, <1>5, <1>7, <1>8, TablesStay DEF SessionInv

LEMMA ReadEmployeesKeepsDecisions ==
  ASSUME TxnInv, LedgerFacts, LedgerFacts', DecisionInv, NEW s \in Session, ReadEmployees(s)
  PROVE  DecisionInv'
<1>1. /\ txn[s].pc = "employees" /\ txn[s].pc \in Running
      /\ UNCHANGED <<tables, ledger>> /\ reviews' = reviews /\ ledger' = ledger
      /\ pending' = pending
      /\ UndecidedInv(s) /\ DOMAIN pending[s] = {}
  BY DEF ReadEmployees, Running, Finalizing, DecisionInv, SessionInv, BlocksInv, Deciding, tables
<1>2. PICK c, seen : c = txn[s].cycle /\ seen = txn[s].seen
  OBVIOUS
<1>3. PICK people : people = [e \in DOMAIN seen |-> employees[e]]
  OBVIOUS
<1>5. CASE txn' = [txn EXCEPT ![s] = Idle]
  <2>1. Idle.pc = "idle"
    BY DEF Idle
  <2>. QED
    BY <1>1, <1>5, <2>1, EndKeepsDecisions
<1>6. CASE txn' # [txn EXCEPT ![s] = Idle]
  <2>1. /\ txn'[s].pc = "apply" /\ txn'[s].cycle = c /\ txn'[s].seen = seen
        /\ txn'[s].people = people
        /\ \A u \in Session \ {s} : txn'[u] = txn[u]
    <3>1. txn'[s] = [ pc |-> "apply", op |-> txn[s].op, cycle |-> txn[s].cycle,
                      todo |-> txn[s].todo, logs |-> txn[s].logs, seen |-> seen,
                      people |-> people, missing |-> txn[s].missing,
                      fresh |-> txn[s].fresh ]
      BY <1>2, <1>3, <1>6, ReadEmployeesFacts
    <3>2. \A u \in Session \ {s} : txn'[u] = txn[u]
      BY <1>6, ReadEmployeesFacts
    <3>. QED
      BY <1>2, <3>1, <3>2
  <2>2. /\ c \in Cycle /\ DOMAIN seen \subseteq Employee
        /\ \A e \in DOMAIN seen :
             /\ Exists(c, e)
             /\ seen[e] \in Review
             /\ seen[e].status \in Approved => ApprovalOnRecord(c, e)
    BY <1>1, <1>2 DEF UndecidedInv
  <2>3. \A e : /\ Exists(c, e)' <=> Exists(c, e)
               /\ ApprovalOnRecord(c, e)' <=> ApprovalOnRecord(c, e)
    BY <1>1 DEF Exists, ApprovalOnRecord, Blocks, Approved
  <2>4. \A e \in DOMAIN seen : people[e] \in [base : Base, equity : Nat]
    BY <1>3, <2>2 DEF DecisionInv, TablesInv
  <2>5. UndecidedInv(s)'
    BY <2>1, <2>2, <2>3, <2>4 DEF UndecidedInv, Approved, Review
  <2>6. DecidingInv(s)' /\ BlocksInv(s)'
    BY <1>1, <2>1 DEF DecidingInv, BlocksInv, Deciding
  <2>. QED
    BY <1>1, <2>1, <2>5, <2>6, TablesStay DEF SessionInv
<1>. QED
  BY <1>5, <1>6

------------------------------------------------------------------------------
(* The steps that change the tables.                                       *)

LEMMA CycleKeepsDecisions ==
  ASSUME TxnInv, LedgerFacts, LedgerFacts', DecisionInv, NEW c \in Cycle, CreateCycle(c)
  PROVE  DecisionInv'
<1>1. /\ cycles' = [cycles EXCEPT ![c] = "ACTIVE"]
      /\ reviews' = reviews /\ employees' = employees /\ bands' = bands
      /\ auditLog' = auditLog /\ ledger' = ledger /\ pending' = pending /\ txn' = txn
  BY DEF CreateCycle
<1>2. Kept /\ Last' = Last
  BY <1>1 DEF Kept, Exists, Last, LedgerFacts
<1>3. \A u \in Session : SessionInv(u)'
  BY <1>1, <1>2, OtherSession DEF DecisionInv
<1>4. TablesInv'
  BY <1>1 DEF DecisionInv, TablesInv
<1>5. LedgerTellsStatus'
  BY <1>1 DEF DecisionInv, LedgerTellsStatus, Blocks
<1>6. NoPayWithoutApproval'
  <2>1. \A d, e : Blocks(d, e)' = Blocks(d, e)
    BY <1>1 DEF Blocks
  <2>. QED
    BY <1>1, <2>1 DEF DecisionInv, NoPayWithoutApproval, Approved
<1>7. LogAgreesWithLedger'
  BY <1>1 DEF DecisionInv, LogAgreesWithLedger, Place, DecisionRows
<1>. QED
  BY <1>3, <1>4, <1>5, <1>6, <1>7 DEF DecisionInv

LEMMA FreshOfBand ==
  ASSUME TxnInv, NEW s \in Session, txn[s].pc \in Running
  PROVE  txn[s].fresh \subseteq Band
BY DEF TxnInv, WellFormed

LEMMA DuplicateKeepsDecisions ==
  ASSUME TxnInv, LedgerFacts, LedgerFacts', DecisionInv, NEW s \in Session, DuplicateProposal(s)
  PROVE  DecisionInv'
<1>1. /\ UNCHANGED <<tables, ledger>> /\ pending' = pending /\ DOMAIN pending[s] = {}
      /\ txn' = [txn EXCEPT ![s] = Idle]
  BY DEF DuplicateProposal, DecisionInv, SessionInv, BlocksInv, Deciding
<1>2. Idle.pc = "idle"
  BY DEF Idle
<1>. QED
  BY <1>1, <1>2, EndKeepsDecisions

LEMMA InsertProposalKeepsDecisions ==
  ASSUME TxnInv, LedgerFacts, LedgerFacts', DecisionInv, NEW s \in Session, InsertProposal(s)
  PROVE  DecisionInv'
<1>1. /\ txn[s].pc = "insert" /\ txn' = [txn EXCEPT ![s] = Idle]
      /\ cycles' = cycles /\ employees' = employees /\ auditLog' = auditLog
      /\ ledger' = ledger /\ pending' = pending
  BY DEF InsertProposal
<1>2. UndecidedInv(s) /\ DOMAIN pending[s] = {}
  BY <1>1 DEF DecisionInv, SessionInv, BlocksInv, Deciding
<1>3. PICK c \in Cycle, e \in Employee, review \in Review :
        /\ review.status = "DRAFT"
        /\ ~ Exists(c, e)
        /\ reviews' = [reviews EXCEPT ![c][e] = review]
  <2>1. PICK e \in Employee : txn[s].todo = {e} /\ txn[s].seen[e] \in Review
                              /\ txn[s].seen[e].status = "DRAFT"
    BY <1>1, <1>2 DEF UndecidedInv
  <2>2. txn[s].cycle \in Cycle
    BY <1>1, <1>2 DEF UndecidedInv
  <2>. QED
    BY <2>1, <2>2 DEF InsertProposal
<1>4. ASSUME NEW d \in Cycle, NEW x \in Employee
      PROVE  reviews'[d][x] = IF d = c /\ x = e THEN review ELSE reviews[d][x]
  <2>1. reviews \in [Cycle -> [Employee -> Review \cup {NoReview}]]
    BY DEF DecisionInv, TablesInv
  <2>. QED
    BY <1>3, <2>1
<1>5. review # NoReview
  BY <1>3 DEF NoReview
<1>6. Kept /\ Last' = Last
  <2>1. \A d \in Cycle, x \in Employee : Exists(d, x) => Exists(d, x)'
    BY <1>4, <1>5 DEF Exists, NoReview
  <2>. QED
    BY <1>1, <2>1 DEF Kept, Last
<1>7. \A u \in Session : SessionInv(u)'
  <2>1. /\ txn'[s].pc = "idle"
        /\ \A u \in Session \ {s} : txn'[u] = txn[u] /\ pending'[u] = pending[u]
    BY <1>1 DEF TxnInv, Idle
  <2>2. SessionInv(s)'
    BY <1>1, <1>2, <2>1, EndedSession
  <2>. QED
    BY <1>6, <2>1, <2>2, OneSessionMoves
<1>8. TablesInv'
  <2>1. reviews' \in [Cycle -> [Employee -> Review \cup {NoReview}]]
    BY <1>3 DEF DecisionInv, TablesInv
  <2>2. bands' \subseteq Band
    BY <1>1, FreshOfBand DEF InsertProposal, DecisionInv, TablesInv, Running, Proposing
  <2>. QED
    BY <1>1, <2>1, <2>2 DEF DecisionInv, TablesInv
<1>9. LedgerTellsStatus'
  <2>. DEFINE Told(d, x, status) ==
         IF status \in {"NONE", "DRAFT"} THEN Blocks(d, x) = {}
         ELSE /\ Blocks(d, x) # {}
              /\ IF status = "FINALIZED"
                 THEN \E i \in Blocks(d, x) : ledger[i].payload.new_status \in Approved
                 ELSE ledger[Max(Blocks(d, x))].payload.new_status = status
  <2>1. \A d \in Cycle, x \in Employee : Told(d, x, reviews[d][x].status)
    BY DEF DecisionInv, LedgerTellsStatus
  <2>2. ASSUME NEW d \in Cycle, NEW x \in Employee PROVE Told(d, x, reviews'[d][x].status)
    <3>1. CASE d = c /\ x = e
      <4>1. reviews[c][e].status = "NONE"
        BY <1>3 DEF Exists, NoReview
      <4>2. Told(c, e, "NONE")
        BY <2>1, <4>1
      <4>3. reviews'[c][e].status = "DRAFT"
        BY <1>3, <1>4, <3>1
      <4>. QED
        BY <3>1, <4>2, <4>3
    <3>2. CASE ~ (d = c /\ x = e)
      <4>1. reviews'[d][x].status = reviews[d][x].status
        BY <1>4, <3>2
      <4>. QED
        BY <2>1, <4>1
    <3>. QED
      BY <3>1, <3>2
  <2>3. \A d, x : Blocks(d, x)' = Blocks(d, x)
    BY <1>1 DEF Blocks
  <2>. QED
    BY <1>1, <2>2, <2>3 DEF LedgerTellsStatus, Approved
<1>10. NoPayWithoutApproval'
  <2>1. \A d, x : Blocks(d, x)' = Blocks(d, x)
    BY <1>1 DEF Blocks
  <2>. QED
    BY <1>1, <2>1 DEF DecisionInv, NoPayWithoutApproval, Approved
<1>11. LogAgreesWithLedger'
  BY <1>1 DEF DecisionInv, LogAgreesWithLedger, Place, DecisionRows
<1>. QED
  BY <1>7, <1>8, <1>9, <1>10, <1>11 DEF DecisionInv

LEMMA FinalizeKeepsDecisions ==
  ASSUME TxnInv, LedgerFacts, LedgerFacts', DecisionInv, NEW s \in Session, Finalize(s)
  PROVE  DecisionInv'
<1>. DEFINE chosen == ToFinalize(s)
<1>0. bands' = bands
  BY DEF Finalize
<1>1. /\ txn[s].pc = "apply" /\ txn' = [txn EXCEPT ![s] = Idle]
      /\ ledger' = ledger /\ pending' = pending
  BY DEF Finalize
<1>2. UndecidedInv(s) /\ DOMAIN pending[s] = {}
  BY <1>1 DEF DecisionInv, SessionInv, BlocksInv, Deciding
<1>3. PICK c \in Cycle, seen \in {txn[s].seen}, people \in {txn[s].people} :
        c = txn[s].cycle /\ seen = txn[s].seen /\ people = txn[s].people
  BY <1>1, <1>2 DEF UndecidedInv
<1>4. PICK C : C = { e \in DOMAIN seen :
                       seen[e].status \in Approved /\ CanTransitionReview(seen[e].status, "FINALIZED") }
  OBVIOUS
<1>5. ToFinalize(s) = C
  BY <1>3, <1>4 DEF ToFinalize
<1>6. /\ reviews' = [reviews EXCEPT ![c] =
           [e \in Employee |-> IF e \in C THEN [@[e] EXCEPT !.status = "FINALIZED"] ELSE @[e]]]
      /\ employees' = [e \in Employee |->
           IF e \in C THEN Raised(e, seen[e], people[e]) ELSE employees[e]]
      /\ cycles' = [cycles EXCEPT ![c] = "FINALIZED"]
      /\ auditLog' = Append(auditLog, CycleLog(c))
  BY <1>3, <1>5 DEF Finalize
<1>7. ASSUME NEW e \in C
      PROVE  /\ e \in Employee /\ Exists(c, e) /\ seen[e] \in Review
             /\ ApprovalOnRecord(c, e)
             /\ people[e] \in [base : Base, equity : Nat]
  BY <1>1, <1>2, <1>3, <1>4 DEF UndecidedInv
<1>8. reviews \in [Cycle -> [Employee -> Review \cup {NoReview}]]
  BY DEF DecisionInv, TablesInv
<1>9. ASSUME NEW d \in Cycle, NEW x \in Employee
      PROVE  reviews'[d][x] = IF d = c /\ x \in C THEN [reviews[c][x] EXCEPT !.status = "FINALIZED"]
                              ELSE reviews[d][x]
  BY <1>6, <1>8
<1>10. ASSUME NEW x \in C
       PROVE  /\ [reviews[c][x] EXCEPT !.status = "FINALIZED"] \in Review
              /\ [reviews[c][x] EXCEPT !.status = "FINALIZED"].status = "FINALIZED"
  <2>1. reviews[c][x] \in Review
    BY <1>7, <1>8 DEF Exists
  <2>2. "FINALIZED" \in ReviewStatus
    BY DEF ReviewStatus
  <2>. HIDE DEF chosen
  <2>. QED
    BY <2>1, <2>2 DEF Review
<1>11. ASSUME NEW x \in Review PROVE x # NoReview
  BY DEF Review, NoReview, ReviewStatus
<1>12. Kept /\ Last' = Last
  <2>1. \A d \in Cycle, x \in Employee : Exists(d, x) => Exists(d, x)'
    BY <1>9, <1>10, <1>11 DEF Exists, NoReview
  <2>. QED
    BY <1>1, <2>1 DEF Kept, Last
<1>13. \A u \in Session : SessionInv(u)'
  <2>1. /\ txn'[s].pc = "idle"
        /\ \A u \in Session \ {s} : txn'[u] = txn[u] /\ pending'[u] = pending[u]
    BY <1>1 DEF TxnInv, Idle
  <2>2. SessionInv(s)'
    BY <1>1, <1>2, <2>1, EndedSession
  <2>. QED
    BY <1>12, <2>1, <2>2, OneSessionMoves
<1>14. TablesInv'
  <2>1. cycles' \in [Cycle -> {"NONE", "ACTIVE", "FINALIZED"}]
    BY <1>6 DEF DecisionInv, TablesInv
  <2>2. reviews' \in [Cycle -> [Employee -> Review \cup {NoReview}]]
    <3>1. DOMAIN reviews' = Cycle /\ reviews' = [d \in Cycle |-> reviews'[d]]
      BY <1>6, <1>8
    <3>2. ASSUME NEW d \in Cycle PROVE reviews'[d] \in [Employee -> Review \cup {NoReview}]
      <4>1. reviews'[d] = [x \in Employee |-> reviews'[d][x]]
        BY <1>6, <1>8
      <4>2. \A x \in Employee : reviews'[d][x] \in Review \cup {NoReview}
        BY <1>8, <1>9, <1>10
      <4>. QED
        BY <4>1, <4>2
    <3>. QED
      BY <3>1, <3>2
  <2>3. employees' \in [Employee -> [base : Base, equity : Nat]]
    <3>1. ASSUME NEW e \in C PROVE Raised(e, seen[e], people[e]) \in [base : Base, equity : Nat]
      <4>1. employees[e] \in [base : Base, equity : Nat]
        BY <1>7 DEF DecisionInv, TablesInv
      <4>2. seen[e].proposed_base \in Base /\ seen[e].rsus \in Nat
        BY <1>7, PlanningAssumption DEF Review
      <4>. QED
        BY <1>7, <4>1, <4>2 DEF Raised
    <3>. QED
      BY <1>6, <3>1 DEF DecisionInv, TablesInv
  <2>4. auditLog' \in Seq(LogRow)
    BY <1>6 DEF DecisionInv, TablesInv, LogRow
  <2>. QED
    BY <1>0, <2>1, <2>2, <2>3, <2>4 DEF DecisionInv, TablesInv, LogRow, Review, NoReview
<1>15. \A d, x : Blocks(d, x)' = Blocks(d, x)
  BY <1>1 DEF Blocks
<1>16. LedgerTellsStatus'
  <2>. DEFINE Told(d, x, status) ==
         IF status \in {"NONE", "DRAFT"} THEN Blocks(d, x) = {}
         ELSE /\ Blocks(d, x) # {}
              /\ IF status = "FINALIZED"
                 THEN \E i \in Blocks(d, x) : ledger[i].payload.new_status \in Approved
                 ELSE ledger[Max(Blocks(d, x))].payload.new_status = status
  <2>1. \A d \in Cycle, x \in Employee : Told(d, x, reviews[d][x].status)
    BY DEF DecisionInv, LedgerTellsStatus
  <2>2. ASSUME NEW d \in Cycle, NEW x \in Employee PROVE Told(d, x, reviews'[d][x].status)
    <3>1. CASE d = c /\ x \in C
      <4>1. reviews'[d][x].status = "FINALIZED"
        BY <1>9, <1>10, <3>1
      <4>2. \E i \in Blocks(c, x) : ledger[i].payload.new_status \in Approved
        BY <1>7, <3>1 DEF ApprovalOnRecord
      <4>. QED
        BY <3>1, <4>1, <4>2
    <3>2. CASE ~ (d = c /\ x \in C)
      <4>1. reviews'[d][x].status = reviews[d][x].status
        BY <1>9, <3>2
      <4>. QED
        BY <2>1, <4>1
    <3>. QED
      BY <3>1, <3>2
  <2>. QED
    BY <1>1, <1>15, <2>2 DEF LedgerTellsStatus, Approved
<1>17. NoPayWithoutApproval'
  <2>1. ASSUME NEW e \in Employee, employees'[e] # Hired
        PROVE  \E d \in Cycle : ApprovalOnRecord(d, e)
    <3>1. CASE e \in C
      BY <1>7, <3>1
    <3>2. CASE e \notin C
      <4>1. employees[e] # Hired
        BY <1>6, <2>1, <3>2
      <4>. QED
        BY <4>1 DEF DecisionInv, NoPayWithoutApproval, ApprovalOnRecord
    <3>. QED
      BY <3>1, <3>2
  <2>. QED
    BY <1>1, <1>15, <2>1 DEF DecisionInv, NoPayWithoutApproval, ApprovalOnRecord, Approved, Hired
<1>18. LogAgreesWithLedger'
  <2>1. /\ auditLog \in Seq(LogRow) /\ Len(auditLog) \in Nat
        /\ DOMAIN auditLog = 1..Len(auditLog)
        /\ DOMAIN auditLog' = 1..(Len(auditLog) + 1)
        /\ \A k \in 1..Len(auditLog) : auditLog'[k] = auditLog[k]
        /\ auditLog'[Len(auditLog) + 1] = CycleLog(c)
    BY <1>6 DEF DecisionInv, TablesInv
  <2>2. CycleLog(c).action = "CYCLE_FINALIZATION"
    BY DEF CycleLog
  <2>3. DecisionRows' = DecisionRows
    BY <2>1, <2>2 DEF DecisionRows
  <2>4. \A k \in DecisionRows : Place(k)' = Place(k) /\ auditLog'[k] = auditLog[k]
    BY <2>1, <2>3 DEF Place, DecisionRows
  <2>. QED
    BY <1>1, <2>3, <2>4 DEF DecisionInv, LogAgreesWithLedger
<1>. QED
  BY <1>13, <1>14, <1>16, <1>17, <1>18 DEF DecisionInv

LEMMA SameCardinality == ASSUME NEW S PROVE Cardinality(S) = Proved!Cardinality(S)
BY DEF Cardinality, Proved!Cardinality

\* Decisions counted beyond the first n rows.
LEMMA CountBeyond ==
  ASSUME NEW n \in Nat, NEW D \in SUBSET (1..n), NEW i \in Nat
  PROVE  /\ Cardinality(D) \in Nat
         /\ Cardinality(D \cup (n + 1)..(n + i)) = Cardinality(D) + i
BY SameCardinality, PlanningAssumption, Proved!CountBeyond

\* What a commit makes of the three tables.
CommitFacts(s, c, logs) ==
  /\ c \in Cycle /\ logs \in Seq(Decision)
  /\ \A i \in 1..Len(logs) : RowInv(c, {}, logs[i])
  /\ \A i, j \in 1..Len(logs) : logs[i].entity = logs[j].entity => i = j
  /\ Last' = Last + Len(logs)
  /\ \A i \in 1..Last : ledger'[i] = ledger[i]
  /\ \A i \in 1..Len(logs) : /\ ledger'[Last + i].header = LogHeader(logs[i])
                             /\ ledger'[Last + i].payload = LogPayload(logs[i])
  /\ reviews' = [reviews EXCEPT ![c] = Decided(c, logs)]
  /\ auditLog' = auditLog \o logs
  /\ UNCHANGED <<cycles, employees>> /\ bands' \subseteq Band

LEMMA CommitDoes ==
  ASSUME TxnInv, LedgerFacts, LedgerFacts', DecisionInv, NEW s \in Session, CommitDecisions(s)
  PROVE  /\ \E c, logs : CommitFacts(s, c, logs) /\ c = txn[s].cycle /\ logs = txn[s].logs
         /\ txn'[s].pc = "idle" /\ DOMAIN pending'[s] = {}
         /\ \A u \in Session \ {s} : txn'[u] = txn[u] /\ pending'[u] = pending[u]
         /\ Last' = Last \/ \A u \in Session \ {s} : DOMAIN pending[u] = {}
<1>1. /\ txn[s].pc = "commit" /\ txn[s].pc \in Deciding /\ Ledger!Commit(s)
      /\ txn' = [txn EXCEPT ![s] = Idle] /\ UNCHANGED <<cycles, employees>>
  BY DEF CommitDecisions, Deciding
<1>2. PICK c, logs : c = txn[s].cycle /\ logs = txn[s].logs
  OBVIOUS
<1>3. c \in Cycle /\ logs \in Seq(Decision) /\ Len(logs) \in Nat
  <2>1. WellFormed(txn[s])
    BY DEF TxnInv
  <2>. QED
    BY <1>1, <1>2, <2>1, Phases DEF WellFormed
<1>4. /\ \A i \in 1..Len(logs) : RowInv(c, {}, logs[i])
      /\ \A i, j \in 1..Len(logs) : logs[i].entity = logs[j].entity => i = j
  BY <1>1, <1>2 DEF DecisionInv, SessionInv, DecidingInv, RowInv
<1>5. /\ DOMAIN pending[s] = (Last + 1)..(Last + Len(logs))
      /\ \A i \in 1..Len(logs) : /\ pending[s][Last + i].header = LogHeader(logs[i])
                                 /\ pending[s][Last + i].payload = LogPayload(logs[i])
  <2>1. Sealed(txn[s]) = Len(logs)
    BY <1>1, <1>2 DEF Sealed, Writing
  <2>2. BlocksInv(s)
    BY DEF DecisionInv, SessionInv
  <2>. QED
    BY <1>1, <1>2, <2>1, <2>2 DEF BlocksInv
<1>6. /\ Last' = Last + Len(logs)
      /\ \A i \in 1..Last : ledger'[i] = ledger[i]
      /\ \A i \in 1..Len(logs) : ledger'[Last + i] = pending[s][Last + i]
      /\ DOMAIN pending'[s] = {}
      /\ \A u \in Session \ {s} : pending'[u] = pending[u]
  BY <1>1, <1>3, <1>5, CommittedBlocks
<1>7. reviews' = [reviews EXCEPT ![c] = Decided(c, logs)] /\ auditLog' = auditLog \o logs
  BY <1>2 DEF CommitDecisions
<1>11. bands' \subseteq Band
  <2>1. txn[s].fresh \subseteq Band
    BY <1>1, Phases, FreshOfBand
  <2>. QED
    BY <2>1 DEF CommitDecisions, DecisionInv, TablesInv
<1>8. CommitFacts(s, c, logs)
  BY <1>1, <1>3, <1>4, <1>5, <1>6, <1>7, <1>11 DEF CommitFacts
<1>9. txn'[s].pc = "idle" /\ \A u \in Session \ {s} : txn'[u] = txn[u]
  BY <1>1 DEF TxnInv, Idle
<1>10. Last' = Last \/ \A u \in Session \ {s} : DOMAIN pending[u] = {}
  <2>1. CASE Len(logs) = 0
    BY <1>6, <2>1 DEF LedgerFacts
  <2>2. CASE Len(logs) # 0
    <3>1. Last + 1 \in DOMAIN pending[s]
      BY <1>3, <1>5, <2>2 DEF LedgerFacts
    <3>. QED
      BY <3>1 DEF LedgerFacts
  <2>. QED
    BY <2>1, <2>2
<1>. QED
  BY <1>2, <1>6, <1>8, <1>9, <1>10

WithStatus(review, status) == [review EXCEPT !.status = status]

\* A row that is the decision of this review.
IsDecision(row, c, e) == RowInv(c, Employee \ {e}, row)

\* Each review's status, and the block that records it.
LEMMA CommitOfReview ==
  ASSUME LedgerFacts, LedgerFacts', DecisionInv, NEW s \in Session, NEW c, NEW logs,
         CommitFacts(s, c, logs), NEW d \in Cycle, NEW x \in Employee
  PROVE  \/ /\ \E i \in 1..Len(logs) :
                 /\ d = c
                 /\ reviews'[d][x] = WithStatus(reviews[d][x], logs[i].new_status)
                 /\ Blocks(d, x)' = Blocks(d, x) \cup {Last + i}
                 /\ Max(Blocks(d, x)') = Last + i
                 /\ ledger'[Last + i].payload.new_status = logs[i].new_status
                 /\ IsDecision(logs[i], c, x)
         \/ /\ reviews'[d][x] = reviews[d][x]
            /\ Blocks(d, x)' = Blocks(d, x)
<1>1. /\ Last \in Nat /\ DOMAIN ledger = 1..Last /\ DOMAIN ledger' = 1..(Last + Len(logs))
      /\ Len(logs) \in Nat /\ c \in Cycle
  BY DEF LedgerFacts, CommitFacts
<1>2. ASSUME NEW i \in 1..Len(logs)
      PROVE  /\ ledger'[Last + i].header.entity = logs[i].entity
             /\ ledger'[Last + i].payload.new_status = logs[i].new_status
  <2>1. /\ ledger'[Last + i].header = LogHeader(logs[i])
        /\ ledger'[Last + i].payload = LogPayload(logs[i])
    BY DEF CommitFacts
  <2>2. LogHeader(logs[i]).entity = logs[i].entity /\ LogPayload(logs[i]).new_status = logs[i].new_status
    BY DEF LogHeader, LogPayload
  <2>. QED
    BY <2>1, <2>2
<1>3. ASSUME NEW j \in DOMAIN ledger'
      PROVE  \/ j \in DOMAIN ledger /\ ledger'[j] = ledger[j]
             \/ \E i \in 1..Len(logs) : j = Last + i
  <2>1. CASE j \in 1..Last
    BY <1>1, <2>1 DEF CommitFacts
  <2>2. CASE j \notin 1..Last
    <3>1. j - Last \in 1..Len(logs) /\ j = Last + (j - Last)
      BY <1>1, <2>2
    <3>. QED
      BY <3>1
  <2>. QED
    BY <2>1, <2>2
<1>4. ASSUME NEW i \in 1..Len(logs) PROVE Last + i \in DOMAIN ledger' /\ Last + i \notin DOMAIN ledger
  BY <1>1
<1>5. \A j \in DOMAIN ledger : j \in DOMAIN ledger' /\ ledger'[j] = ledger[j]
  BY <1>1 DEF CommitFacts
<1>6. Blocks(d, x)' = Blocks(d, x) \cup { Last + i : i \in { n \in 1..Len(logs) : logs[n].entity = <<d, x>> } }
  BY <1>2, <1>3, <1>4, <1>5 DEF Blocks
<1>7. reviews \in [Cycle -> [Employee -> Review \cup {NoReview}]]
  BY DEF DecisionInv, TablesInv
<1>8. CASE \E i \in 1..Len(logs) : logs[i].entity = <<d, x>>
  <2>1. PICK i \in 1..Len(logs) : logs[i].entity = <<d, x>>
    BY <1>8
  <2>2. \A n \in 1..Len(logs) : logs[n].entity = <<d, x>> => n = i
    BY <2>1 DEF CommitFacts
  <2>3. IsDecision(logs[i], c, x) /\ d = c
    <3>1. RowInv(c, {}, logs[i])
      BY DEF CommitFacts
    <3>. QED
      BY <2>1, <3>1 DEF RowInv, IsDecision
  <2>4. d = c
    BY <2>3
  <2>5. reviews'[d][x] = WithStatus(reviews[d][x], logs[i].new_status)
    <3>1. (CHOOSE n \in 1..Len(logs) : logs[n].entity = <<c, x>>) = i
      BY <2>1, <2>2, <2>4
    <3>2. Decided(c, logs)[x] = [reviews[c][x] EXCEPT !.status = logs[i].new_status]
      BY <2>1, <2>4, <3>1 DEF Decided
    <3>3. reviews'[c] = Decided(c, logs)
      BY <1>1, <1>7 DEF CommitFacts
    <3>. QED
      BY <2>4, <3>2, <3>3 DEF WithStatus
  <2>6. Blocks(d, x)' = Blocks(d, x) \cup {Last + i}
    BY <1>6, <2>1, <2>2
  <2>7. Max(Blocks(d, x)') = Last + i
    <3>1. \A j \in Blocks(d, x)' : j \in Nat /\ j <= Last + i
      BY <1>1, <2>6 DEF Blocks
    <3>2. Last + i \in Blocks(d, x)' /\ Last + i \in Nat
      BY <1>1, <2>6
    <3>3. \A m \in Blocks(d, x)' : (\A j \in Blocks(d, x)' : m >= j) => m = Last + i
      BY <3>1, <3>2
    <3>4. \A j \in Blocks(d, x)' : Last + i >= j
      BY <1>1, <3>1
    <3>. QED
      BY <3>2, <3>3, <3>4 DEF Max
  <2>8. ledger'[Last + i].payload.new_status = logs[i].new_status
    BY <1>2
  <2>. QED
    BY <2>1, <2>3, <2>4, <2>5, <2>6, <2>7, <2>8
<1>9. CASE ~ \E i \in 1..Len(logs) : logs[i].entity = <<d, x>>
  <2>1. Blocks(d, x)' = Blocks(d, x)
    BY <1>6, <1>9
  <2>2. reviews'[d][x] = reviews[d][x]
    <3>1. CASE d = c
      <4>1. reviews'[c] = Decided(c, logs)
        BY <1>1, <1>7 DEF CommitFacts
      <4>. QED
        BY <1>9, <3>1, <4>1 DEF Decided
    <3>2. CASE d # c
      BY <1>1, <1>7, <3>2 DEF CommitFacts
    <3>. QED
      BY <3>1, <3>2
  <2>. QED
    BY <2>1, <2>2
<1>. QED
  BY <1>8, <1>9

LEMMA CommitTellsStatus ==
  ASSUME LedgerFacts, LedgerFacts', DecisionInv, NEW s \in Session, NEW c, NEW logs,
         CommitFacts(s, c, logs)
  PROVE  LedgerTellsStatus'
<1>. DEFINE Told(d, x, status) ==
       IF status \in {"NONE", "DRAFT"} THEN Blocks(d, x) = {}
       ELSE /\ Blocks(d, x) # {}
            /\ IF status = "FINALIZED"
               THEN \E i \in Blocks(d, x) : ledger[i].payload.new_status \in Approved
               ELSE ledger[Max(Blocks(d, x))].payload.new_status = status
<1>1. \A j \in DOMAIN ledger : j \in DOMAIN ledger' /\ ledger'[j] = ledger[j]
  BY DEF CommitFacts, LedgerFacts
<1>2. reviews \in [Cycle -> [Employee -> Review \cup {NoReview}]]
  BY DEF DecisionInv, TablesInv
<1>3. ASSUME NEW d \in Cycle, NEW x \in Employee
      PROVE  Told(d, x, reviews[d][x].status)'
  <2>1. Told(d, x, reviews[d][x].status)
    BY DEF DecisionInv, LedgerTellsStatus
  <2>2. CASE \E i \in 1..Len(logs) :
               /\ reviews'[d][x] = WithStatus(reviews[d][x], logs[i].new_status)
               /\ Blocks(d, x)' = Blocks(d, x) \cup {Last + i}
               /\ Max(Blocks(d, x)') = Last + i
               /\ ledger'[Last + i].payload.new_status = logs[i].new_status
               /\ IsDecision(logs[i], c, x)
    <3>1. PICK i \in 1..Len(logs) :
               /\ reviews'[d][x] = WithStatus(reviews[d][x], logs[i].new_status)
               /\ Blocks(d, x)' = Blocks(d, x) \cup {Last + i}
               /\ Max(Blocks(d, x)') = Last + i
               /\ ledger'[Last + i].payload.new_status = logs[i].new_status
               /\ IsDecision(logs[i], c, x)
      BY <2>2
    <3>2. logs[i].new_status \in Verdict
      BY <3>1 DEF RowInv, IsDecision
    <3>3. reviews'[d][x].status = logs[i].new_status
      <4>1. reviews[d][x] \in Review \cup {NoReview}
        BY <1>2
      <4>. QED
        BY <3>1, <4>1 DEF WithStatus, Review, NoReview
    <3>4. reviews'[d][x].status \notin {"NONE", "DRAFT", "FINALIZED"}
      BY <3>2, <3>3 DEF Verdict
    <3>. QED
      BY <3>1, <3>3, <3>4
  <2>3. CASE reviews'[d][x] = reviews[d][x] /\ Blocks(d, x)' = Blocks(d, x)
    <3>1. \A i \in Blocks(d, x) : ledger'[i] = ledger[i]
      BY <1>1 DEF Blocks
    <3>2. Blocks(d, x) # {} => Max(Blocks(d, x)) \in Blocks(d, x)
      <4>1. Blocks(d, x) \in SUBSET (1..Last) /\ Last \in Nat
        BY DEF Blocks, LedgerFacts
      <4>. QED
        BY <4>1, MaxOfBlocks
    <3>. QED
      BY <2>1, <2>3, <3>1, <3>2 DEF Approved
  <2>. QED
    BY <2>2, <2>3, CommitOfReview
<1>. QED
  BY <1>3 DEF LedgerTellsStatus

LEMMA CommitKeepsPay ==
  ASSUME LedgerFacts, LedgerFacts', DecisionInv, NEW s \in Session, NEW c, NEW logs,
         CommitFacts(s, c, logs)
  PROVE  NoPayWithoutApproval'
<1>1. \A j \in DOMAIN ledger : j \in DOMAIN ledger' /\ ledger'[j] = ledger[j]
  BY DEF CommitFacts, LedgerFacts
<1>2. ASSUME NEW e \in Employee, employees'[e] # Hired
      PROVE  \E d \in Cycle : \E i \in Blocks(d, e)' : ledger'[i].payload.new_status \in Approved
  <2>1. PICK d \in Cycle : \E i \in Blocks(d, e) : ledger[i].payload.new_status \in Approved
    BY <1>2 DEF DecisionInv, NoPayWithoutApproval, CommitFacts
  <2>. QED
    BY <1>1, <2>1 DEF Blocks
<1>3. ASSUME NEW d \in Cycle, NEW e \in Employee, NEW i \in Blocks(d, e)',
             ledger'[i].payload.new_status = "VP_APPROVED"
      PROVE  \E j \in Blocks(d, e)' : j < i /\ ledger'[j].payload.new_status = "VP_EXCEPTION_REQUIRED"
  <2>1. SUFFICES \E j \in Blocks(d, e) :
                   j < i /\ ledger[j].payload.new_status = "VP_EXCEPTION_REQUIRED"
    BY <1>1 DEF Blocks
  <2>2. CASE i \in Blocks(d, e)
    <3>1. ledger'[i] = ledger[i]
      BY <1>1, <2>2 DEF Blocks
    <3>. QED
      BY <1>3, <2>2, <3>1 DEF DecisionInv, NoPayWithoutApproval
  <2>3. CASE i \notin Blocks(d, e)
    <3>1. PICK n \in 1..Len(logs) :
            /\ d = c
            /\ Blocks(d, e)' = Blocks(d, e) \cup {Last + n}
            /\ ledger'[Last + n].payload.new_status = logs[n].new_status
            /\ IsDecision(logs[n], c, e)
      <4>1. Blocks(d, e)' # Blocks(d, e)
        BY <2>3
      <4>. QED
        BY <4>1, CommitOfReview
    <3>2. i = Last + n
      BY <2>3, <3>1
    <3>3. OnRecord(d, e, "VP_EXCEPTION_REQUIRED")
      BY <1>3, <3>1, <3>2 DEF RowInv, IsDecision
    <3>4. \A j \in Blocks(d, e) : j < i
      <4>1. Last \in Nat /\ Len(logs) \in Nat /\ DOMAIN ledger = 1..Last
        BY DEF LedgerFacts, CommitFacts
      <4>. QED
        BY <3>2, <4>1 DEF Blocks
    <3>. QED
      BY <3>3, <3>4 DEF OnRecord
  <2>. QED
    BY <2>2, <2>3
<1>. QED
  BY <1>2, <1>3 DEF NoPayWithoutApproval, Approved, Hired

LEMMA CommitKeepsLogs ==
  ASSUME LedgerFacts, LedgerFacts', DecisionInv, NEW s \in Session, NEW c, NEW logs,
         CommitFacts(s, c, logs)
  PROVE  LogAgreesWithLedger'
<1>1. PICK n, k, D : n = Len(auditLog) /\ k = Len(logs) /\ D = DecisionRows
  OBVIOUS
<1>2. /\ auditLog \in Seq(LogRow) /\ logs \in Seq(Decision) /\ n \in Nat /\ k \in Nat
      /\ DOMAIN auditLog = 1..n
      /\ Last \in Nat /\ DOMAIN ledger = 1..Last /\ DOMAIN ledger' = 1..(Last + k)
      /\ Last' = Last + k
  BY <1>1 DEF DecisionInv, TablesInv, CommitFacts, LedgerFacts
<1>3. /\ DOMAIN auditLog' = 1..(n + k)
      /\ \A m \in 1..n : auditLog'[m] = auditLog[m]
      /\ \A i \in 1..k : auditLog'[n + i] = logs[i]
  <2>1. auditLog' = auditLog \o logs
    BY DEF CommitFacts
  <2>2. \A i \in 1..k : (n + i) - n = i /\ n + i \notin 1..n /\ n + i \in 1..(n + k)
    BY <1>2
  <2>. QED
    BY <1>1, <1>2, <2>1, <2>2
<1>4. \A m \in (n + 1)..(n + k) : auditLog'[m].action # "CYCLE_FINALIZATION"
  <2>1. \A m \in (n + 1)..(n + k) : m - n \in 1..k /\ n + (m - n) = m
    BY <1>2
  <2>2. \A i \in 1..k : logs[i] \in Decision
    BY <1>1, <1>2
  <2>3. \A i \in 1..k : logs[i].action # "CYCLE_FINALIZATION"
    BY <2>2 DEF Decision
  <2>. QED
    BY <1>3, <2>1, <2>3
<1>5. D \in SUBSET (1..n)
  BY <1>1, <1>2 DEF DecisionRows
<1>6. DecisionRows' = D \cup (n + 1)..(n + k)
  <2>1. \A m \in 1..(n + k) : m \in 1..n \/ m \in (n + 1)..(n + k)
    BY <1>2
  <2>2. \A m \in 1..n \cup (n + 1)..(n + k) : m \in 1..(n + k)
    BY <1>2
  <2>3. \A m \in (n + 1)..(n + k) : m \notin 1..n
    BY <1>2
  <2>4. ASSUME NEW m PROVE m \in DecisionRows' <=> m \in D \cup (n + 1)..(n + k)
    <3>1. CASE m \in 1..n
      BY <1>1, <1>2, <1>3, <2>2, <2>3, <3>1 DEF DecisionRows
    <3>2. CASE m \in (n + 1)..(n + k)
      BY <1>3, <1>4, <2>2, <3>2 DEF DecisionRows
    <3>3. CASE m \notin 1..n /\ m \notin (n + 1)..(n + k)
      BY <1>3, <1>5, <2>1, <3>3 DEF DecisionRows
    <3>. QED
      BY <3>1, <3>2, <3>3
  <2>. QED
    BY <2>4
<1>7. Cardinality(D) = Last
  BY <1>1 DEF DecisionInv, LogAgreesWithLedger, Last
<1>8. Cardinality(DecisionRows') = Last'
  BY <1>2, <1>5, <1>6, <1>7, CountBeyond
<1>9. ASSUME NEW m \in D
      PROVE  Place(m)' = Place(m) /\ auditLog'[m] = auditLog[m]
  <2>1. { j \in D \cup (n + 1)..(n + k) : j <= m } = { j \in D : j <= m }
    BY <1>2, <1>5
  <2>2. Place(m) = Cardinality({ j \in D : j <= m })
    BY <1>1 DEF Place
  <2>3. Place(m)' = Cardinality({ j \in D \cup (n + 1)..(n + k) : j <= m })
    BY <1>6 DEF Place
  <2>. QED
    BY <1>3, <1>5, <2>1, <2>2, <2>3
<1>10. ASSUME NEW i \in 1..k
       PROVE  Place(n + i)' = Last + i /\ auditLog'[n + i] = logs[i]
  <2>1. { j \in D \cup (n + 1)..(n + k) : j <= n + i } = D \cup (n + 1)..(n + i)
    <3>1. \A j \in D : j <= n + i
      BY <1>2, <1>5
    <3>2. \A j \in (n + 1)..(n + i) : j \in (n + 1)..(n + k) /\ j <= n + i
      BY <1>2
    <3>3. \A j \in (n + 1)..(n + k) : j <= n + i => j \in (n + 1)..(n + i)
      BY <1>2
    <3>. QED
      BY <3>1, <3>2, <3>3
  <2>2. PICK m : m = n + i
    OBVIOUS
  <2>3. Place(m)' = Cardinality({ j \in D \cup (n + 1)..(n + k) : j <= m })
    BY <1>6 DEF Place
  <2>4. Cardinality(D \cup (n + 1)..(n + i)) = Last + i
    <3>1. i \in Nat
      BY <1>2
    <3>2. Cardinality(D \cup (n + 1)..(n + i)) = Cardinality(D) + i
      BY <1>2, <1>5, <3>1, CountBeyond
    <3>. QED
      BY <1>7, <3>2
  <2>. QED
    BY <1>3, <2>1, <2>2, <2>3, <2>4
<1>11. ASSUME NEW m \in DecisionRows'
       PROVE  /\ Place(m)' \in DOMAIN ledger'
              /\ ledger'[Place(m)'].header = LogHeader(auditLog'[m])
              /\ ledger'[Place(m)'].payload = LogPayload(auditLog'[m])
  <2>1. CASE m \in D
    <3>1. /\ Place(m) \in DOMAIN ledger
          /\ ledger[Place(m)].header = LogHeader(auditLog[m])
          /\ ledger[Place(m)].payload = LogPayload(auditLog[m])
      BY <1>1, <2>1 DEF DecisionInv, LogAgreesWithLedger
    <3>2. Place(m) \in DOMAIN ledger' /\ ledger'[Place(m)] = ledger[Place(m)]
      BY <1>2, <3>1 DEF CommitFacts
    <3>. QED
      BY <1>9, <2>1, <3>1, <3>2
  <2>2. CASE m \in (n + 1)..(n + k)
    <3>1. PICK i \in 1..k : m = n + i
      <4>1. m - n \in 1..k /\ m = n + (m - n)
        BY <1>2, <2>2
      <4>. QED
        BY <4>1
    <3>2. Place(m)' = Last + i /\ auditLog'[m] = logs[i]
      BY <1>10, <3>1
    <3>3. Last + i \in DOMAIN ledger'
      BY <1>2
    <3>. QED
      BY <1>1, <3>2, <3>3 DEF CommitFacts
  <2>. QED
    BY <1>6, <2>1, <2>2
<1>. QED
  BY <1>8, <1>11 DEF LogAgreesWithLedger, Last, LogHeader, LogPayload

\* The reviews after the commit, and which of them exist.
LEMMA CommitKeepsReviews ==
  ASSUME LedgerFacts, LedgerFacts', DecisionInv, NEW s \in Session, NEW c, NEW logs,
         CommitFacts(s, c, logs)
  PROVE  Kept /\ TablesInv'
<1>1. reviews \in [Cycle -> [Employee -> Review \cup {NoReview}]] /\ auditLog \in Seq(LogRow)
  BY DEF DecisionInv, TablesInv
<1>2. c \in Cycle /\ reviews' = [reviews EXCEPT ![c] = Decided(c, logs)]
  BY DEF CommitFacts
<1>3. ASSUME NEW x \in Review PROVE x # NoReview
  BY DEF Review, NoReview, ReviewStatus
<1>4. ASSUME NEW d \in Cycle, NEW x \in Employee
      PROVE  /\ reviews'[d][x] \in Review \cup {NoReview}
             /\ Exists(d, x) => reviews'[d][x] # NoReview
  <2>1. reviews[d][x] \in Review \cup {NoReview}
    BY <1>1
  <2>2. CASE reviews'[d][x] = reviews[d][x]
    BY <2>1, <2>2 DEF Exists
  <2>3. CASE reviews'[d][x] # reviews[d][x]
    <3>1. PICK i \in 1..Len(logs) :
            /\ d = c
            /\ reviews'[d][x] = WithStatus(reviews[d][x], logs[i].new_status)
            /\ IsDecision(logs[i], c, x)
      BY <2>3, CommitOfReview
    <3>2. Exists(c, x) /\ logs[i].new_status \in Verdict
      BY <3>1 DEF IsDecision, RowInv
    <3>3. reviews[d][x] \in Review
      BY <2>1, <3>1, <3>2 DEF Exists
    <3>4. PICK status : status = logs[i].new_status
      OBVIOUS
    <3>5. WithStatus(reviews[d][x], status) \in Review
      <4>1. status \in ReviewStatus
        BY <3>2, <3>4 DEF Verdict, ReviewStatus
      <4>. QED
        BY <3>3, <4>1 DEF WithStatus, Review
    <3>. QED
      BY <1>3, <3>1, <3>4, <3>5
  <2>. QED
    BY <2>2, <2>3
<1>5. reviews' \in [Cycle -> [Employee -> Review \cup {NoReview}]]
  <2>1. DOMAIN reviews' = Cycle /\ reviews' = [d \in Cycle |-> reviews'[d]]
    BY <1>1, <1>2
  <2>2. ASSUME NEW d \in Cycle PROVE reviews'[d] \in [Employee -> Review \cup {NoReview}]
    <3>1. reviews'[d] = [x \in Employee |-> reviews'[d][x]]
      <4>1. CASE d = c
        <5>1. reviews'[d] = Decided(c, logs)
          BY <1>1, <1>2, <4>1
        <5>2. Decided(c, logs) = [x \in Employee |-> Decided(c, logs)[x]]
          BY DEF Decided
        <5>. QED
          BY <5>1, <5>2
      <4>2. CASE d # c
        BY <1>1, <1>2, <4>2
      <4>. QED
        BY <4>1, <4>2
    <3>. QED
      BY <1>4, <3>1
  <2>. QED
    BY <2>1, <2>2
<1>6. Kept
  <2>1. \A d \in Cycle, x \in Employee : Exists(d, x) => Exists(d, x)'
    BY <1>4 DEF Exists, NoReview
  <2>2. \A i \in DOMAIN ledger : i \in DOMAIN ledger' /\ ledger'[i] = ledger[i]
    BY DEF CommitFacts, LedgerFacts
  <2>. QED
    BY <2>1, <2>2 DEF Kept
<1>7. auditLog' \in Seq(LogRow)
  <2>1. logs \in Seq(LogRow)
    <3>1. logs \in Seq(Decision)
      BY DEF CommitFacts
    <3>2. Decision \subseteq LogRow
      BY DEF LogRow
    <3>. QED
      BY <3>1, <3>2
  <2>. QED
    BY <1>1, <2>1 DEF CommitFacts
<1>. QED
  BY <1>5, <1>6, <1>7 DEF CommitFacts, DecisionInv, TablesInv, Review, NoReview, LogRow

LEMMA CommitKeepsDecisions ==
  ASSUME TxnInv, LedgerFacts, LedgerFacts', DecisionInv, NEW s \in Session, CommitDecisions(s)
  PROVE  DecisionInv'
<1>1. PICK c, logs : CommitFacts(s, c, logs)
  BY CommitDoes
<1>2. /\ txn'[s].pc = "idle" /\ DOMAIN pending'[s] = {}
      /\ \A u \in Session \ {s} : txn'[u] = txn[u] /\ pending'[u] = pending[u]
      /\ Last' = Last \/ \A u \in Session \ {s} : DOMAIN pending[u] = {}
  BY CommitDoes
<1>3. Kept /\ TablesInv'
  BY <1>1, CommitKeepsReviews
<1>4. SessionInv(s)'
  BY <1>2, EndedSession
<1>5. \A u \in Session : SessionInv(u)'
  BY <1>2, <1>3, <1>4, OneSessionMoves
<1>6. LedgerTellsStatus' /\ NoPayWithoutApproval' /\ LogAgreesWithLedger'
  BY <1>1, CommitTellsStatus, CommitKeepsPay, CommitKeepsLogs
<1>. QED
  BY <1>3, <1>5, <1>6 DEF DecisionInv

------------------------------------------------------------------------------
(* Every reachable state satisfies the invariant.                          *)

LEMMA DecisionInvInit == ASSUME Init, LedgerFacts PROVE DecisionInv
<1>1. /\ reviews = [c \in Cycle |-> [e \in Employee |-> NoReview]]
      /\ employees = [e \in Employee |-> Hired]
      /\ cycles = [c \in Cycle |-> "NONE"] /\ auditLog = <<>> /\ bands = Seeded
      /\ txn = [s \in Session |-> Idle]
      /\ ledger = Ledger!NoRows /\ pending = [s \in Session |-> Ledger!NoRows]
  BY DEF Init, Ledger!LedgerInit
<1>2. DOMAIN ledger = {} /\ \A s \in Session : DOMAIN pending[s] = {}
  BY <1>1 DEF Ledger!NoRows
<1>3. \A c, e : Blocks(c, e) = {}
  BY <1>2 DEF Blocks
<1>4. TablesInv
  <2>1. Hired \in [base : Base, equity : Nat]
    BY PlanningAssumption DEF Hired
  <2>2. <<>> \in Seq(LogRow)
    OBVIOUS
  <2>. QED
    BY <1>1, <2>1, <2>2, PlanningAssumption DEF TablesInv
<1>5. LedgerTellsStatus
  <2>1. NoReview.status = "NONE"
    BY DEF NoReview
  <2>. QED
    BY <1>1, <1>3, <2>1 DEF LedgerTellsStatus
<1>6. NoPayWithoutApproval
  BY <1>1, <1>3 DEF NoPayWithoutApproval
<1>7. LogAgreesWithLedger
  <2>1. DecisionRows = {}
    BY <1>1 DEF DecisionRows
  <2>2. Cardinality({}) = 0
    BY FS_EmptySet
  <2>3. Last = 0
    <3>1. 1..Last = {} /\ Last \in Nat
      BY <1>2 DEF LedgerFacts
    <3>. QED
      BY <3>1
  <2>. QED
    BY <2>1, <2>2, <2>3 DEF LogAgreesWithLedger, Last
<1>8. \A s \in Session : SessionInv(s)
  BY <1>1, <1>2 DEF Idle, SessionInv, DecidingInv, BlocksInv, UndecidedInv, Deciding
<1>. QED
  BY <1>4, <1>5, <1>6, <1>7, <1>8 DEF DecisionInv

LEMMA StepKeepsDecisions ==
  ASSUME TxnInv, Proved!ChainInv, LedgerFacts, LedgerFacts', DecisionInv, NEW s \in Session,
         BeginRequest(s) \/ Step(s) \/ Abort(s)
  PROVE  DecisionInv'
<1>1. CASE BeginRequest(s)
  BY <1>1, BeginKeepsDecisions
<1>2. CASE CheckExisting(s)
  BY <1>2, CheckKeepsDecisions
<1>3. CASE InsertProposal(s) \/ DuplicateProposal(s)
  BY <1>3, InsertProposalKeepsDecisions, DuplicateKeepsDecisions
<1>4. CASE ReadProposal(s)
  BY <1>4, ReadKeepsDecisions
<1>5. CASE Flush(s) \/ ReadLedgerHead(s) \/ InsertBand(s)
  BY <1>5, FlushKeepsDecisions
<1>6. CASE InsertLedgerBlock(s)
  BY <1>6, InsertKeepsDecisions
<1>7. CASE LedgerConflict(s) \/ BandConflict(s) \/ Abort(s)
  BY <1>7, AbortKeepsDecisions
<1>8. CASE CommitDecisions(s)
  BY <1>8, CommitKeepsDecisions
<1>9. CASE ReadReviews(s)
  BY <1>9, ReadReviewsKeepsDecisions
<1>10. CASE ReadEmployees(s)
  BY <1>10, ReadEmployeesKeepsDecisions
<1>11. CASE Finalize(s)
  BY <1>11, FinalizeKeepsDecisions
<1>. QED
  BY <1>1, <1>2, <1>3, <1>4, <1>5, <1>6, <1>7, <1>8, <1>9, <1>10, <1>11 DEF Step, DeadlockAbort

LEMMA NextKeepsDecisions ==
  ASSUME TxnInv, Proved!ChainInv, Proved!ChainInv', DecisionInv, [Next]_vars
  PROVE  DecisionInv'
<1>1. LedgerFacts /\ LedgerFacts'
  <2>1. LedgerFacts
    BY FactsOfChain
  <2>2. LedgerFacts'
    BY FactsOfChain, PTL
  <2>. QED
    BY <2>1, <2>2
<1>2. CASE \E c \in Cycle : CreateCycle(c)
  BY <1>1, <1>2, CycleKeepsDecisions
<1>3. CASE \E s \in Session : BeginRequest(s) \/ Step(s) \/ Abort(s)
  BY <1>1, <1>3, StepKeepsDecisions
<1>4. CASE UNCHANGED vars
  <2>1. /\ tables' = tables /\ ledger' = ledger
        /\ \A u \in Session : txn'[u] = txn[u] /\ pending'[u] = pending[u]
    BY <1>4 DEF vars, tables
  <2>2. \A u \in Session : SessionInv(u)'
    <3>1. Kept /\ Last' = Last
      BY <2>1 DEF Kept, Exists, tables, Last
    <3>. QED
      BY <1>1, <2>1, <3>1, OtherSession DEF DecisionInv
  <2>. QED
    BY <2>1, <2>2, TablesOfStep
<1>. QED
  BY <1>2, <1>3, <1>4 DEF Next

\* What the invariant rests on.
LEMMA PlanningSupport == Spec => [](TxnInv /\ Proved!ChainInv)
<1>1. Init => TxnInv
  BY TxnInvInit
<1>2. TxnInv /\ [Next]_vars => TxnInv'
  BY StepKeepsLedger
<1>3. Spec => []TxnInv
  BY <1>1, <1>2, PTL DEF Spec
<1>4. Proved!LedgerSpec => []Proved!ChainInv
  BY PlanningAssumption, Proved!ChainInvariant
<1>5. Spec => []Proved!ChainInv
  BY <1>4, PlanningUsesLedger, SameInit, SameNext, PTL DEF UsesLedger,
     Ledger!LedgerSpec, Proved!LedgerSpec
<1>. QED
  BY <1>3, <1>5, PTL

\* However planning requests interleave, conflict, deadlock, batch or die, each
\* transaction carries what its commit needs, and the tables agree with the ledger.
THEOREM PlanningDecisionInvariant == Spec => []DecisionInv
<1>1. Spec => [](TxnInv /\ Proved!ChainInv)
  BY PlanningSupport
<1>2. Init /\ Proved!ChainInv => DecisionInv
  BY FactsOfChain, DecisionInvInit
<1>3. TxnInv /\ Proved!ChainInv /\ (TxnInv /\ Proved!ChainInv)' /\ DecisionInv /\ [Next]_vars
        => DecisionInv'
  BY NextKeepsDecisions
<1>. QED
  BY <1>1, <1>2, <1>3, PTL DEF Spec

\* audit_logs and the SOX ledger hold the same decisions in the same order, for any
\* number of concurrent requests (cycle_service.py:264-294, 362-389).
THEOREM PlanningLogAgrees == Spec => []LogAgreesWithLedger
BY PlanningDecisionInvariant, PTL DEF DecisionInv

\* The status of a review is the one its last block records, also after a lost update.
THEOREM PlanningLedgerTellsStatus == Spec => []LedgerTellsStatus
BY PlanningDecisionInvariant, PTL DEF DecisionInv

\* Nobody's salary or equity changes without an approval on the ledger, and no VP
\* approval is recorded that was not asked for.
THEOREM PlanningPaysTheApproved == Spec => []NoPayWithoutApproval
BY PlanningDecisionInvariant, PTL DEF DecisionInv

LEMMA SameType == Ledger!LedgerTypeOK <=> Proved!LedgerTypeOK
BY DEF Ledger!LedgerTypeOK, Proved!LedgerTypeOK

\* Every reachable state of the planning cycle is well typed.
THEOREM PlanningTypeCorrect == Spec => []TypeOK
<1>1. Proved!LedgerSpec => []Proved!LedgerTypeOK
  BY PlanningAssumption, Proved!LedgerTypeCorrect
<1>2. Spec => []Proved!LedgerTypeOK
  BY <1>1, PlanningUsesLedger, SameInit, SameNext, PTL DEF UsesLedger,
     Ledger!LedgerSpec, Proved!LedgerSpec
<1>3. DecisionInv /\ Proved!LedgerTypeOK => TypeOK
  <2>1. DecisionInv => TablesInv
    BY DEF DecisionInv
  <2>. QED
    BY <2>1, SameType DEF TablesInv, TypeOK
<1>. QED
  BY <1>2, <1>3, PlanningDecisionInvariant, PTL

------------------------------------------------------------------------------
(* Deadlocks.                                                              *)

\* A session that waits and holds a block has decided before: it is a batch.
LEMMA WaiterHasNoBlock ==
  ASSUME LedgerFacts, DecisionInv, NEW s \in Session,
         txn[s].pc \in {"bands", "flush", "band", "block"}, txn[s].op # "batch"
  PROVE  DOMAIN pending[s] = {}
<1>1. CASE txn[s].pc = "bands"
  BY <1>1 DEF DecisionInv, SessionInv, BlocksInv, Deciding
<1>2. CASE txn[s].pc # "bands"
  <2>1. Len(txn[s].logs) = 1 /\ txn[s].pc \in Deciding
    BY <1>2 DEF DecisionInv, SessionInv, DecidingInv, Deciding
  <2>2. Sealed(txn[s]) = 0
    BY <1>2, <2>1 DEF Sealed, Writing
  <2>3. DOMAIN pending[s] = (Last + 1)..(Last + 0)
    BY <2>1, <2>2 DEF DecisionInv, SessionInv, BlocksInv
  <2>. QED
    BY <2>3 DEF LedgerFacts
<1>. QED
  BY <1>1, <1>2

\* At a flush it holds nothing; nor, until it has inserted it, a default band.
LEMMA FlushHoldsNothing ==
  ASSUME DecisionInv, NEW s \in Session, txn[s].pc \in {"flush", "band"}, txn[s].op # "batch"
  PROVE  Fresh(s) = {} /\ (txn[s].pc = "flush" => Locks(s) = {})
<1>1. txn[s].fresh = {} /\ Len(txn[s].logs) = 1
  BY DEF DecisionInv, SessionInv, DecidingInv, Deciding
<1>2. Fresh(s) = {}
  BY <1>1 DEF Fresh
<1>3. ASSUME txn[s].pc = "flush" PROVE Locks(s) = {}
  <2>1. Locks(s) = { txn[s].logs[i].entity : i \in 1..(Len(txn[s].logs) - 1) }
    BY <1>3 DEF Locks, Ready
  <2>2. 1..(Len(txn[s].logs) - 1) = {}
    BY <1>1
  <2>. QED
    BY <2>1, <2>2
<1>. QED
  BY <1>2, <1>3

\* So in a circle without a batch everyone waits for a band, with one of theirs inserted.
LEMMA CircleOfBands ==
  ASSUME TxnInv, LedgerFacts, DecisionInv, NEW S \in SUBSET Session, WaitCycle(S),
         \A s \in S : txn[s].op # "batch"
  PROVE  \A s \in S : txn[s].op = "create" /\ txn[s].fresh # {}
<1>1. \A s \in S : txn[s].pc \in {"bands", "flush", "band", "block"}
  BY DEF WaitCycle, Waits
<1>2. \A s \in S : DOMAIN pending[s] = {}
  BY <1>1, WaiterHasNoBlock
<1>3. \A s, t \in S : ~ (txn[s].pc = "block" /\ t \in Ledger!KeyHolder(s))
  BY <1>2 DEF Ledger!KeyHolder
<1>4. \A s \in S : txn[s].pc # "block"
  BY <1>3 DEF WaitCycle, Waits
<1>5. ASSUME NEW t \in S
      PROVE  txn[t].pc \notin {"flush", "band"} /\ Fresh(t) # {}
  <2>1. PICK u \in S : Waits(u, t)
    BY DEF WaitCycle
  <2>2. \/ txn[u].pc \in {"bands", "band"} /\ Head(txn[u].missing) \in Fresh(t)
        \/ txn[u].pc = "flush" /\ FlushTarget(u) \in Locks(t)
    BY <1>3, <2>1 DEF Waits, BandHolder, LockHolder
  <2>3. txn[t].pc # "flush"
    BY <2>2, FlushHoldsNothing
  <2>4. CASE txn[t].pc = "band"
    <3>1. txn[u].pc = "flush"
      BY <2>2, <2>4, FlushHoldsNothing
    <3>2. PICK v \in S : Waits(v, u)
      BY DEF WaitCycle
    <3>3. \/ Head(txn[v].missing) \in Fresh(u)
          \/ FlushTarget(v) \in Locks(u)
      BY <1>3, <3>2 DEF Waits, BandHolder, LockHolder
    <3>. QED
      BY <3>1, <3>3, FlushHoldsNothing
  <2>5. CASE txn[t].pc = "bands"
    <3>1. Locks(t) = {}
      <4>1. txn[t].logs = <<>>
        BY <2>5 DEF TxnInv, WellFormed, Proposing
      <4>2. Locks(t) = { txn[t].logs[i].entity : i \in 1..Len(txn[t].logs) }
        BY <2>5 DEF Locks, Ready
      <4>3. 1..Len(<<>>) = {}
        OBVIOUS
      <4>. QED
        BY <4>1, <4>2, <4>3
    <3>. QED
      BY <2>2, <2>5, <3>1
  <2>. QED
    BY <1>1, <1>4, <2>3, <2>4, <2>5
<1>6. \A s \in S : txn[s].pc = "bands"
  BY <1>1, <1>4, <1>5
<1>7. \A s \in S : txn[s].op = "create"
  BY <1>6 DEF TxnInv, WellFormed, Proposing
<1>8. \A s \in S : Fresh(s) = txn[s].fresh
  BY <1>6 DEF Fresh, Ready
<1>. QED
  BY <1>5, <1>7, <1>8

\* Single decisions never deadlock with each other, however many run at once: every
\* circle of waiting requests has a batch in it (cycle_service.py:275-278, 323), or is
\* made of new proposals that insert each other's default bands (159-162).
THEOREM PlanningDeadlocksNeedBatchOrBands == Spec => []DeadlockNeedsBatchOrBands
<1>1. DecisionInv /\ TxnInv /\ Proved!ChainInv => DeadlockNeedsBatchOrBands
  BY FactsOfChain, CircleOfBands DEF DeadlockNeedsBatchOrBands
<1>. QED
  BY <1>1, PlanningSupport, PlanningDecisionInvariant, PTL

------------------------------------------------------------------------------
(* Copies.  What a session has loaded is what the tables hold, but for the *)
(* rows that others have written since: those are in stale[s].  So a row   *)
(* it writes either was current or is lost from then on.                   *)

\* The statuses a decision may be taken from.
Open == {"DRAFT", "SUBMITTED", "VP_EXCEPTION_REQUIRED"}

\* A row of s decides its review from an open status: the one the review still has,
\* unless s's copy is stale.
UpToDate(s, c, row) ==
  \A e \in Employee : row.entity = <<c, e>> =>
    /\ row.previous_status \in Open
    /\ ReviewRow(c, e) \notin stale[s] => row.previous_status = reviews[c][e].status

CopiesInv(s) ==
  LET t == txn[s] IN
    /\ t.pc \in Deciding => \A i \in 1..Len(t.logs) : UpToDate(s, t.cycle, t.logs[i])
    /\ t.pc \in {"employees", "apply"} =>
         \A e \in DOMAIN t.seen :
           ReviewRow(t.cycle, e) \notin stale[s] => t.seen[e] = reviews[t.cycle][e]
    /\ t.pc = "apply" =>
         /\ DOMAIN t.people = DOMAIN t.seen
         /\ \A e \in DOMAIN t.seen : EmployeeRow(e) \notin stale[s] => t.people[e] = employees[e]
    /\ t.pc \in Finalizing => (CycleRow(t.cycle) \notin stale[s] => cycles[t.cycle] # "FINALIZED")

HistoryInv ==
  /\ stale = [s \in Session |-> stale[s]]
  /\ LedgerContinuous
  /\ \A s \in Session : CopiesInv(s)

\* A session that holds no copies.
LEMMA NoCopies ==
  ASSUME NEW s \in Session, txn'[s].pc \in {"idle", "illegal", "check", "bands", "insert"}
  PROVE  CopiesInv(s)'
BY DEF CopiesInv, Deciding, Finalizing

\* The rows of a transaction that is to decide, reviews unchanged.
LEMMA RowsStayCurrent ==
  ASSUME NEW s \in Session, reviews' = reviews, stale' = stale, txn'[s].pc \in Deciding,
         NEW c, NEW logs, txn'[s].cycle = c, txn'[s].logs = logs,
         \A i \in 1..Len(logs) : UpToDate(s, c, logs[i])
  PROVE  CopiesInv(s)'
<1>1. \A row : UpToDate(s, c, row) => UpToDate(s, c, row)'
  BY DEF UpToDate, Open
<1>2. \A i \in 1..Len(logs) : UpToDate(s, c, logs[i])'
  BY <1>1
<1>3. txn'[s].pc \notin Finalizing /\ txn'[s].pc \notin {"employees", "apply"}
  BY DEF Deciding, Finalizing
<1>. QED
  BY <1>2, <1>3 DEF CopiesInv, Deciding, Finalizing

LEMMA OpenToAudit ==
  ASSUME NEW status, MayAudit(status)
  PROVE  status \in Open
BY DEF MayAudit, CanTransitionReview, ReviewTransitions, Open

LEMMA BeginsCurrent ==
  ASSUME TxnInv, NEW s \in Session, BeginRequest(s)
  PROVE  CopiesInv(s)'
<1>1. reviews' = reviews /\ cycles' = cycles /\ stale' = stale
  BY DEF BeginRequest, BeginCreate, BeginAudit, BeginBatch, BeginApprove, BeginFinalize,
     tables, history
<1>2. \A i \in 1..Len(<<>>) : FALSE
  OBVIOUS
<1>3. CASE \E c \in Cycle, e \in Employee : BeginCreate(s, c, e)
  <2>1. PICK c \in Cycle, e \in Employee : txn'[s] = Begin("check", "create", c, {e}, <<>>)
    BY <1>3 DEF BeginCreate, TxnInv
  <2>. QED
    BY <2>1, NoCopies DEF Begin
<1>4. CASE \E c \in Cycle, e \in Employee : BeginAudit(s, c, e)
  <2>1. PICK c \in Cycle, e \in Employee : txn'[s] = Begin("read", "audit", c, {e}, <<>>)
    BY <1>4 DEF BeginAudit, TxnInv
  <2>2. txn'[s].pc \in Deciding /\ txn'[s].cycle = c /\ txn'[s].logs = <<>>
    BY <2>1 DEF Begin, Deciding
  <2>. QED
    BY <1>1, <1>2, <2>2, RowsStayCurrent
<1>5. CASE \E c \in Cycle, ids \in SUBSET Employee : BeginBatch(s, c, ids)
  <2>1. PICK c \in Cycle, ids \in SUBSET Employee :
          txn'[s] = Begin("read", "batch", c, { e \in ids : Exists(c, e) }, <<>>)
    BY <1>5 DEF BeginBatch, TxnInv
  <2>2. txn'[s].pc \in Deciding /\ txn'[s].cycle = c /\ txn'[s].logs = <<>>
    BY <2>1 DEF Begin, Deciding
  <2>. QED
    BY <1>1, <1>2, <2>2, RowsStayCurrent
<1>6. CASE \E c \in Cycle, e \in Employee : BeginApprove(s, c, e)
  <2>1. PICK c \in Cycle, e \in Employee : BeginApprove(s, c, e)
    BY <1>6
  <2>2. PICK status : status = reviews[c][e].status
    OBVIOUS
  <2>3. PICK row : row = ReviewLog(c, e, "VP_APPROVAL", status, "VP_APPROVED")
    OBVIOUS
  <2>4. txn'[s] = IF CanTransitionReview(status, "VP_APPROVED")
                  THEN Begin("flush", "approve", c, {}, <<row>>)
                  ELSE Illegal("approve", status)
    BY <2>1, <2>2, <2>3 DEF BeginApprove, TxnInv
  <2>5. CASE ~ CanTransitionReview(status, "VP_APPROVED")
    BY <2>4, <2>5, NoCopies DEF Illegal
  <2>6. CASE CanTransitionReview(status, "VP_APPROVED")
    <3>1. txn'[s].pc \in Deciding /\ txn'[s].cycle = c /\ txn'[s].logs = <<row>>
      BY <2>4, <2>6 DEF Begin, Deciding
    <3>2. status \in Open
      BY <2>6 DEF CanTransitionReview, ReviewTransitions, Open
    <3>3. row.entity = <<c, e>> /\ row.previous_status = status
      BY <2>3 DEF ReviewLog
    <3>4. UpToDate(s, c, row)
      BY <2>2, <3>2, <3>3 DEF UpToDate
    <3>5. \A i \in 1..Len(<<row>>) : UpToDate(s, c, <<row>>[i])
      <4>1. Len(<<row>>) = 1 /\ 1..1 = {1} /\ <<row>>[1] = row
        OBVIOUS
      <4>. QED
        BY <3>4, <4>1
    <3>. QED
      BY <1>1, <3>1, <3>5, RowsStayCurrent
  <2>. QED
    BY <2>5, <2>6
<1>7. CASE \E c \in Cycle : BeginFinalize(s, c)
  <2>1. PICK c \in Cycle : /\ txn'[s] = Begin("reviews", "finalize", c, {}, <<>>)
                           /\ cycles[c] # "FINALIZED"
    BY <1>7 DEF BeginFinalize, TxnInv
  <2>2. txn'[s].pc = "reviews" /\ txn'[s].cycle = c
    BY <2>1 DEF Begin
  <2>. QED
    BY <1>1, <2>1, <2>2 DEF CopiesInv, Deciding
<1>. QED
  BY <1>3, <1>4, <1>5, <1>6, <1>7 DEF BeginRequest

LEMMA ReadsCurrent ==
  ASSUME TxnInv, NEW s \in Session, CopiesInv(s), ReadProposal(s)
  PROVE  CopiesInv(s)'
<1>1. /\ txn[s].pc \in Deciding /\ txn[s].cycle \in Cycle /\ txn[s].todo \subseteq Employee
      /\ txn[s].logs \in Seq(Decision)
  BY ReadFacts
<1>2. reviews' = reviews
  BY DEF ReadProposal, tables
<1>3. PICK e \in txn[s].todo :
        \/ \E decision \in AgentDecisions : Reads(s, e, decision)
        \/ \E status : txn' = [txn EXCEPT ![s] = Illegal(txn[s].op, status)]
  BY ReadFacts
<1>4. ASSUME NEW status, txn' = [txn EXCEPT ![s] = Illegal(txn[s].op, status)]
      PROVE  CopiesInv(s)'
  <2>1. txn'[s].pc = "illegal"
    BY <1>4 DEF TxnInv, Illegal
  <2>. QED
    BY <2>1, NoCopies
<1>5. ASSUME NEW decision \in AgentDecisions, Reads(s, e, decision)
      PROVE  CopiesInv(s)'
  <2>1. PICK c, logs, status : /\ c = txn[s].cycle /\ logs = txn[s].logs
                               /\ status = reviews[c][e].status
    OBVIOUS
  <2>2. PICK row : row = ReviewLog(c, e, "AGENT_AUDIT", status, decision)
    OBVIOUS
  <2>3. /\ txn'[s].pc = "flush" /\ txn'[s].cycle = c /\ txn'[s].logs = Append(logs, row)
        /\ stale' = stale
    BY <1>5, <2>1, <2>2 DEF Reads, history
  <2>4. MayAudit(status)
    BY <1>5, <2>1 DEF Reads
  <2>5. UpToDate(s, c, row)
    <3>1. status \in Open
      BY <2>4, OpenToAudit
    <3>2. row.entity = <<c, e>> /\ row.previous_status = status
      BY <2>2 DEF ReviewLog
    <3>. QED
      BY <2>1, <3>1, <3>2 DEF UpToDate
  <2>6. \A i \in 1..Len(logs) : UpToDate(s, c, logs[i])
    BY <1>1, <2>1 DEF CopiesInv
  <2>7. row \in Decision
    <3>1. decision \in ReviewStatus
      BY DEF AgentDecisions, ReviewStatus
    <3>. QED
      BY <1>1, <2>1, <2>2, <2>4, <3>1, AuditedStatus, DecisionOfLog
  <2>8. /\ Len(Append(logs, row)) = Len(logs) + 1 /\ Len(logs) \in Nat
        /\ Append(logs, row)[Len(logs) + 1] = row
        /\ \A i \in 1..Len(logs) : Append(logs, row)[i] = logs[i]
    BY <1>1, <2>1, <2>7
  <2>9. \A i \in 1..Len(Append(logs, row)) : UpToDate(s, c, Append(logs, row)[i])
    <3>1. \A i \in 1..(Len(logs) + 1) : i \in 1..Len(logs) \/ i = Len(logs) + 1
      BY <2>8
    <3>. QED
      BY <2>5, <2>6, <2>8, <3>1
  <2>10. txn'[s].pc \in Deciding
    BY <2>3 DEF Deciding
  <2>. QED
    BY <1>2, <2>3, <2>9, <2>10, RowsStayCurrent
<1>. QED
  BY <1>3, <1>4, <1>5

\* The steps that take a transaction on with what it has.
LEMMA MovesCurrent ==
  ASSUME TxnInv, NEW s \in Session, CopiesInv(s),
         Flush(s) \/ ReadLedgerHead(s) \/ InsertLedgerBlock(s) \/ InsertBand(s)
  PROVE  CopiesInv(s)'
<1>1. PICK pc : Carries(s, pc)
  BY FlushMoves, ReadHeadMoves, InsertBlockMoves, InsertBandMoves
<1>2. reviews' = reviews /\ stale' = stale
  BY DEF Flush, ReadLedgerHead, InsertLedgerBlock, InsertBand, tables, history
<1>3. PICK c, logs : c = txn[s].cycle /\ logs = txn[s].logs
  OBVIOUS
<1>4. txn'[s].pc = pc /\ txn'[s].cycle = c /\ txn'[s].logs = logs
  <2>1. PICK op, todo, seen, people, missing, fresh :
          txn'[s] = [ pc |-> pc, op |-> op, cycle |-> c, todo |-> todo, logs |-> logs,
                      seen |-> seen, people |-> people, missing |-> missing, fresh |-> fresh ]
    BY <1>1, <1>3 DEF Carries, Moved
  <2>. QED
    BY <2>1
<1>5. CASE txn[s].pc = "bands"
  <2>1. pc \in {"bands", "insert"}
    BY <1>1, <1>5 DEF Carries
  <2>. QED
    BY <1>4, <2>1, NoCopies
<1>6. CASE txn[s].pc # "bands"
  <2>1. txn[s].pc \in Deciding /\ pc \in Deciding
    BY <1>1, <1>6 DEF Carries, Deciding
  <2>2. \A i \in 1..Len(logs) : UpToDate(s, c, logs[i])
    BY <1>3, <2>1 DEF CopiesInv
  <2>. QED
    BY <1>2, <1>4, <2>1, <2>2, RowsStayCurrent
<1>. QED
  BY <1>5, <1>6

\* What a finalization loads is what the tables hold.
LEMMA LoadsCurrent ==
  ASSUME TxnInv, NEW s \in Session, CopiesInv(s), ReadReviews(s) \/ ReadEmployees(s)
  PROVE  CopiesInv(s)'
<1>1. reviews' = reviews /\ cycles' = cycles /\ employees' = employees
  BY DEF ReadReviews, ReadEmployees, tables
<1>2. PICK c : c = txn[s].cycle
  OBVIOUS
<1>3. CycleRow(c) \notin stale[s] => cycles[c] # "FINALIZED"
  BY <1>2 DEF ReadReviews, ReadEmployees, CopiesInv, Finalizing
<1>4. CASE ReadReviews(s)
  <2>1. PICK seen : seen = [e \in { x \in Employee : Exists(c, x) } |-> reviews[c][e]]
    OBVIOUS
  <2>2. txn'[s].pc = "employees" /\ txn'[s].cycle = c /\ txn'[s].seen = seen
    <3>1. txn'[s] = [ pc |-> "employees", op |-> txn[s].op, cycle |-> c, todo |-> txn[s].todo,
                      logs |-> txn[s].logs, seen |-> seen, people |-> txn[s].people,
                      missing |-> txn[s].missing, fresh |-> txn[s].fresh ]
      <4>1. txn'[s] = [ pc |-> "employees", op |-> txn[s].op, cycle |-> txn[s].cycle,
                        todo |-> txn[s].todo, logs |-> txn[s].logs,
                        seen |-> [e \in { x \in Employee : Exists(txn[s].cycle, x) } |->
                                    reviews[txn[s].cycle][e]],
                        people |-> txn[s].people, missing |-> txn[s].missing,
                        fresh |-> txn[s].fresh ]
        BY <1>4, ReadReviewsFacts
      <4>. QED
        BY <1>2, <2>1, <4>1
    <3>. QED
      BY <3>1
  <2>3. \A e \in DOMAIN seen : seen[e] = reviews[c][e]
    BY <2>1
  <2>4. stale' = stale
    BY <1>4 DEF ReadReviews, history
  <2>. QED
    BY <1>1, <1>3, <2>2, <2>3, <2>4 DEF CopiesInv, Deciding
<1>5. CASE ReadEmployees(s)
  <2>1. CASE txn' = [txn EXCEPT ![s] = Idle]
    BY <2>1, NoCopies DEF TxnInv, Idle
  <2>2. CASE txn' # [txn EXCEPT ![s] = Idle]
    <3>1. PICK seen, people : seen = txn[s].seen /\ people = [e \in DOMAIN seen |-> employees[e]]
      OBVIOUS
    <3>2. txn'[s] = [ pc |-> "apply", op |-> txn[s].op, cycle |-> c, todo |-> txn[s].todo,
                      logs |-> txn[s].logs, seen |-> seen, people |-> people,
                      missing |-> txn[s].missing, fresh |-> txn[s].fresh ]
      <4>1. txn'[s] = [ pc |-> "apply", op |-> txn[s].op, cycle |-> txn[s].cycle,
                        todo |-> txn[s].todo, logs |-> txn[s].logs, seen |-> txn[s].seen,
                        people |-> [e \in DOMAIN txn[s].seen |-> employees[e]],
                        missing |-> txn[s].missing, fresh |-> txn[s].fresh ]
        BY <1>5, <2>2, ReadEmployeesFacts
      <4>. QED
        BY <1>2, <3>1, <4>1
    <3>3. /\ txn'[s].pc = "apply" /\ txn'[s].cycle = c /\ txn'[s].seen = seen
          /\ txn'[s].people = people
      BY <3>2
    <3>4. stale' = stale
      BY <1>5, <2>2, ReadEmployeesFacts DEF history
    <3>5. \A e \in DOMAIN seen : ReviewRow(c, e) \notin stale[s] => seen[e] = reviews[c][e]
      BY <1>2, <1>5, <3>1 DEF ReadEmployees, CopiesInv
    <3>6. DOMAIN people = DOMAIN seen /\ \A e \in DOMAIN seen : people[e] = employees[e]
      BY <3>1
    <3>. QED
      BY <1>1, <1>3, <3>3, <3>4, <3>5, <3>6 DEF CopiesInv, Deciding
  <2>. QED
    BY <2>1, <2>2
<1>. QED
  BY <1>4, <1>5

LEMMA OwnCopies ==
  ASSUME TxnInv, NEW s \in Session, CopiesInv(s), BeginRequest(s) \/ Step(s) \/ Abort(s)
  PROVE  CopiesInv(s)'
<1>1. CASE CheckExisting(s)
  <2>1. CASE txn' = [txn EXCEPT ![s] = Idle]
    BY <2>1, NoCopies DEF TxnInv, Idle
  <2>2. CASE txn' # [txn EXCEPT ![s] = Idle]
    <3>1. PICK e, base, rsus : Checks(s, e, base, rsus)
      BY <1>1, <2>2, CheckFacts
    <3>2. txn'[s].pc \in {"insert", "bands"}
      BY <3>1 DEF Checks
    <3>. QED
      BY <3>2, NoCopies
  <2>. QED
    BY <2>1, <2>2
<1>2. CASE \/ InsertProposal(s) \/ DuplicateProposal(s) \/ LedgerConflict(s) \/ BandConflict(s)
           \/ CommitDecisions(s) \/ Finalize(s) \/ Abort(s)
  <2>1. txn' = [txn EXCEPT ![s] = Idle]
    BY <1>2 DEF InsertProposal, DuplicateProposal, LedgerConflict, BandConflict,
       CommitDecisions, Finalize, Abort
  <2>. QED
    BY <2>1, NoCopies DEF TxnInv, Idle
<1>. QED
  BY <1>1, <1>2, BeginsCurrent, ReadsCurrent, MovesCurrent, LoadsCurrent DEF Step, DeadlockAbort

------------------------------------------------------------------------------
(* What one session writes, and what becomes of the copies of the others.  *)

\* A step changes no row but those of `rows', and a review that is not yet there.
WritesOnly(rows) ==
  /\ \A d \in Cycle, x \in Employee :
       Exists(d, x) /\ ReviewRow(d, x) \notin rows => reviews'[d][x] = reviews[d][x]
  /\ \A x \in Employee : EmployeeRow(x) \notin rows => employees'[x] = employees[x]
  /\ \A d \in Cycle : CycleRow(d) \notin rows /\ cycles[d] # "FINALIZED" => cycles'[d] # "FINALIZED"

\* And it marks them in the hands of u.
Marks(u, rows) == txn'[u] = txn[u] /\ stale[u] \cup (rows \cap InHand(u)) \subseteq stale'[u]

LEMMA OtherCopies ==
  ASSUME TxnInv, DecisionInv, NEW u \in Session, CopiesInv(u), NEW rows,
         WritesOnly(rows), Marks(u, rows)
  PROVE  CopiesInv(u)'
<1>1. PICK t : t = txn[u] /\ t = txn'[u]
  BY DEF Marks
<1>2. PICK c : c = t.cycle
  OBVIOUS
<1>3. WellFormed(t) /\ \A row \in rows : row \notin stale'[u] => row \notin InHand(u)
  BY <1>1 DEF TxnInv, Marks
<1>4. \A row : row \notin stale'[u] => row \notin stale[u]
  BY DEF Marks
<1>5. t.pc \in Running => c \in Cycle /\ ~ Ready(u)
  BY <1>1, <1>2, <1>3, Phases DEF WellFormed, Ready
<1>6. ASSUME t.pc \in Deciding, NEW i \in 1..Len(t.logs), NEW e \in Employee,
             t.logs[i].entity = <<c, e>>
      PROVE  /\ t.logs[i].previous_status \in Open
             /\ ReviewRow(c, e) \notin stale'[u] => t.logs[i].previous_status = reviews'[c][e].status
  <2>1. /\ t.logs[i].previous_status \in Open
        /\ ReviewRow(c, e) \notin stale[u] => t.logs[i].previous_status = reviews[c][e].status
    BY <1>1, <1>2, <1>6 DEF CopiesInv, UpToDate
  <2>2. c \in Cycle /\ ~ Ready(u)
    BY <1>5, <1>6, Phases
  <2>3. ReviewRow(c, e) \in InHand(u)
    <3>1. <<c, e>> \in Decides(u)
      BY <1>1, <1>6 DEF Decides
    <3>. QED
      BY <1>1, <1>2, <2>2, <3>1 DEF InHand
  <2>4. Exists(c, e)
    <3>1. RowInv(c, t.todo, t.logs[i])
      BY <1>1, <1>2, <1>6 DEF DecisionInv, SessionInv, DecidingInv
    <3>. QED
      BY <1>6, <3>1 DEF RowInv
  <2>5. ReviewRow(c, e) \notin stale'[u] => reviews'[c][e] = reviews[c][e]
    BY <1>3, <2>2, <2>3, <2>4 DEF WritesOnly
  <2>. QED
    BY <1>4, <2>1, <2>5
<1>7. ASSUME t.pc \in Finalizing PROVE t.op = "finalize" /\ c \in Cycle /\ ~ Ready(u)
  BY <1>3, <1>5, <1>7, Phases DEF WellFormed
<1>8. ASSUME t.pc \in {"employees", "apply"}, NEW e \in DOMAIN t.seen,
             ReviewRow(c, e) \notin stale'[u]
      PROVE  t.seen[e] = reviews'[c][e]
  <2>1. t.op = "finalize" /\ c \in Cycle /\ ~ Ready(u)
    BY <1>7, <1>8 DEF Finalizing
  <2>2. ReviewRow(c, e) \in InHand(u)
    BY <1>1, <1>2, <1>8, <2>1 DEF InHand
  <2>3. e \in Employee /\ Exists(c, e)
    BY <1>1, <1>2, <1>8 DEF DecisionInv, SessionInv, UndecidedInv
  <2>4. t.seen[e] = reviews[c][e]
    BY <1>1, <1>2, <1>4, <1>8 DEF CopiesInv
  <2>. QED
    BY <1>3, <1>8, <2>1, <2>2, <2>3, <2>4 DEF WritesOnly
<1>9. ASSUME t.pc = "apply", NEW e \in DOMAIN t.seen, EmployeeRow(e) \notin stale'[u]
      PROVE  t.people[e] = employees'[e]
  <2>1. t.op = "finalize" /\ c \in Cycle /\ ~ Ready(u)
    BY <1>7, <1>9 DEF Finalizing
  <2>2. e \in DOMAIN t.people
    BY <1>1, <1>9 DEF CopiesInv
  <2>3. EmployeeRow(e) \in InHand(u)
    BY <1>1, <2>1, <2>2 DEF InHand
  <2>4. e \in Employee
    BY <1>1, <1>9 DEF DecisionInv, SessionInv, UndecidedInv
  <2>5. t.people[e] = employees[e]
    BY <1>1, <1>4, <1>9 DEF CopiesInv
  <2>. QED
    BY <1>3, <1>9, <2>3, <2>4, <2>5 DEF WritesOnly
<1>10. ASSUME t.pc \in Finalizing, CycleRow(c) \notin stale'[u]
       PROVE  cycles'[c] # "FINALIZED"
  <2>1. t.op = "finalize" /\ c \in Cycle /\ ~ Ready(u)
    BY <1>7, <1>10
  <2>2. CycleRow(c) \in InHand(u)
    BY <1>1, <1>2, <2>1 DEF InHand
  <2>3. cycles[c] # "FINALIZED"
    BY <1>1, <1>2, <1>4, <1>10 DEF CopiesInv
  <2>. QED
    BY <1>3, <1>10, <2>1, <2>2, <2>3 DEF WritesOnly
<1>11. t.pc = "apply" => DOMAIN t.people = DOMAIN t.seen
  BY <1>1 DEF CopiesInv
<1>12. t.pc \in Deciding => \A i \in 1..Len(t.logs) : UpToDate(u, c, t.logs[i])'
  BY <1>6 DEF UpToDate, Open
<1>. QED
  BY <1>1, <1>2, <1>8, <1>9, <1>10, <1>11, <1>12 DEF CopiesInv, Deciding, Finalizing

\* A step that writes no row that is already there.
LEMMA WritesNothing ==
  ASSUME \A d \in Cycle, x \in Employee : Exists(d, x) => reviews'[d][x] = reviews[d][x],
         employees' = employees,
         \A d \in Cycle : cycles[d] # "FINALIZED" => cycles'[d] # "FINALIZED"
  PROVE  WritesOnly({})
BY DEF WritesOnly

\* What a transaction writes at its commit is what it has decided.
LEMMA CommitWrites ==
  ASSUME TxnInv, LedgerFacts, LedgerFacts', DecisionInv, NEW s \in Session, CommitDecisions(s)
  PROVE  WritesOnly(InHand(s))
<1>1. PICK c, logs : CommitFacts(s, c, logs) /\ c = txn[s].cycle /\ logs = txn[s].logs
  BY CommitDoes
<1>2. ASSUME NEW d \in Cycle, NEW x \in Employee, reviews'[d][x] # reviews[d][x]
      PROVE  ReviewRow(d, x) \in InHand(s)
  <2>1. PICK i \in 1..Len(logs) : d = c /\ IsDecision(logs[i], c, x)
    BY <1>1, <1>2, CommitOfReview
  <2>2. logs[i].entity = <<c, x>>
    BY <2>1 DEF IsDecision, RowInv
  <2>3. ~ Ready(s)
    BY DEF CommitDecisions, Ready
  <2>4. <<c, x>> \in Decides(s)
    BY <1>1, <2>2 DEF Decides
  <2>. QED
    BY <1>1, <2>1, <2>3, <2>4 DEF InHand
<1>. QED
  BY <1>1, <1>2 DEF WritesOnly, CommitFacts

FinalizedRows(c, chosen) ==
  { ReviewRow(c, e) : e \in chosen } \cup { EmployeeRow(e) : e \in chosen } \cup { CycleRow(c) }

\* A finalization, told of its parts: C are the proposals it finalizes.
Finalizes(s, c, seen, people, C) ==
  /\ c \in Cycle /\ c = txn[s].cycle /\ seen = txn[s].seen /\ people = txn[s].people
  /\ C = { e \in DOMAIN seen : /\ seen[e].status \in Approved
                               /\ CanTransitionReview(seen[e].status, "FINALIZED") }
  /\ C \subseteq Employee
  /\ reviews' = [reviews EXCEPT ![c] =
       [e \in Employee |-> IF e \in C THEN [@[e] EXCEPT !.status = "FINALIZED"] ELSE @[e]]]
  /\ employees' = [e \in Employee |->
       IF e \in C THEN Raised(e, seen[e], people[e]) ELSE employees[e]]
  /\ cycles' = [cycles EXCEPT ![c] = "FINALIZED"]
  /\ Overwrite(s, FinalizedRows(c, C))

LEMMA FinalizeFacts ==
  ASSUME TxnInv, DecisionInv, NEW s \in Session, Finalize(s)
  PROVE  /\ txn[s].pc = "apply"
         /\ txn' = [txn EXCEPT ![s] = Idle]
         /\ \E c, seen, people, C : Finalizes(s, c, seen, people, C)
<1>1. txn[s].pc = "apply" /\ txn' = [txn EXCEPT ![s] = Idle]
  BY DEF Finalize
<1>2. PICK c \in Cycle, seen \in {txn[s].seen}, people \in {txn[s].people} :
        c = txn[s].cycle /\ seen = txn[s].seen /\ people = txn[s].people
  BY <1>1 DEF DecisionInv, SessionInv, UndecidedInv
<1>3. PICK C : C = { e \in DOMAIN seen : /\ seen[e].status \in Approved
                                         /\ CanTransitionReview(seen[e].status, "FINALIZED") }
  OBVIOUS
<1>4. ToFinalize(s) = C
  BY <1>2, <1>3 DEF ToFinalize
<1>5. C \subseteq Employee
  BY <1>1, <1>2, <1>3 DEF DecisionInv, SessionInv, UndecidedInv
<1>6. /\ reviews' = [reviews EXCEPT ![c] =
           [e \in Employee |-> IF e \in C THEN [@[e] EXCEPT !.status = "FINALIZED"] ELSE @[e]]]
      /\ employees' = [e \in Employee |->
           IF e \in C THEN Raised(e, seen[e], people[e]) ELSE employees[e]]
      /\ cycles' = [cycles EXCEPT ![c] = "FINALIZED"]
  BY <1>2, <1>4 DEF Finalize
<1>7. Overwrite(s, FinalizedRows(c, C))
  BY <1>2, <1>4 DEF Finalize, FinalizedRows
<1>8. Finalizes(s, c, seen, people, C)
  BY <1>2, <1>3, <1>5, <1>6, <1>7 DEF Finalizes
<1>. QED
  BY <1>1, <1>8

LEMMA FinalizeWrites ==
  ASSUME TxnInv, DecisionInv, NEW s \in Session, Finalize(s)
  PROVE  \E rows : WritesOnly(rows) /\ Overwrite(s, rows)
<1>1. PICK c, seen, people, C : Finalizes(s, c, seen, people, C)
  BY FinalizeFacts
<1>2. PICK rows : rows = FinalizedRows(c, C)
  OBVIOUS
<1>3. /\ CycleRow(c) \in rows
      /\ \A e \in C : ReviewRow(c, e) \in rows /\ EmployeeRow(e) \in rows
  BY <1>2 DEF FinalizedRows
<1>4. reviews \in [Cycle -> [Employee -> Review \cup {NoReview}]] /\ DOMAIN cycles = Cycle
  BY DEF DecisionInv, TablesInv
<1>5. ASSUME NEW d \in Cycle, NEW x \in Employee, ReviewRow(d, x) \notin rows
      PROVE  reviews'[d][x] = reviews[d][x]
  BY <1>1, <1>3, <1>4, <1>5 DEF Finalizes
<1>6. ASSUME NEW x \in Employee, EmployeeRow(x) \notin rows PROVE employees'[x] = employees[x]
  BY <1>1, <1>3, <1>6 DEF Finalizes
<1>7. ASSUME NEW d \in Cycle, CycleRow(d) \notin rows PROVE cycles'[d] = cycles[d]
  BY <1>1, <1>3, <1>4, <1>7 DEF Finalizes
<1>. QED
  BY <1>1, <1>2, <1>5, <1>6, <1>7 DEF WritesOnly, Finalizes

LEMMA InsertWrites ==
  ASSUME TxnInv, DecisionInv, NEW s \in Session, InsertProposal(s)
  PROVE  /\ \A d \in Cycle, x \in Employee :
              \/ reviews'[d][x] = reviews[d][x]
              \/ ~ Exists(d, x) /\ reviews[d][x].status = "NONE" /\ reviews'[d][x].status = "DRAFT"
         /\ UNCHANGED <<cycles, employees, ledger, history>>
         /\ txn' = [txn EXCEPT ![s] = Idle]
<1>1. txn[s].pc = "insert"
  BY DEF InsertProposal
<1>2. PICK c \in Cycle, e \in Employee : /\ c = txn[s].cycle /\ txn[s].todo = {e}
                                         /\ txn[s].seen[e].status = "DRAFT"
  BY <1>1 DEF DecisionInv, SessionInv, UndecidedInv
<1>3. PICK row : row = txn[s].seen[e]
  OBVIOUS
<1>4. reviews' = [reviews EXCEPT ![c][e] = row] /\ reviews[c][e] = NoReview
  BY <1>2, <1>3 DEF InsertProposal, Exists
<1>5. reviews \in [Cycle -> [Employee -> Review \cup {NoReview}]]
  BY DEF DecisionInv, TablesInv
<1>6. ASSUME NEW d \in Cycle, NEW x \in Employee
      PROVE  \/ reviews'[d][x] = reviews[d][x]
             \/ ~ Exists(d, x) /\ reviews[d][x].status = "NONE" /\ reviews'[d][x].status = "DRAFT"
  <2>1. CASE d = c /\ x = e
    <3>1. reviews[d][x] = NoReview /\ reviews'[d][x] = row /\ row.status = "DRAFT"
      BY <1>2, <1>3, <1>4, <1>5, <2>1
    <3>2. NoReview.status = "NONE"
      BY DEF NoReview
    <3>. QED
      BY <3>1, <3>2 DEF Exists
  <2>2. CASE ~ (d = c /\ x = e)
    BY <1>4, <1>5, <2>2
  <2>. QED
    BY <2>1, <2>2
<1>. QED
  BY <1>6 DEF InsertProposal

\* The steps that write nothing at all.
Silent(s) ==
  \/ BeginRequest(s) \/ Abort(s)
  \/ Step(s) /\ ~ InsertProposal(s) /\ ~ CommitDecisions(s) /\ ~ Finalize(s)

LEMMA SilentFacts ==
  ASSUME NEW s \in Session, Silent(s)
  PROVE  UNCHANGED <<reviews, employees, cycles, ledger>> /\ (UNCHANGED history \/ Forget(s))
<1>1. CASE BeginRequest(s)
  BY <1>1 DEF BeginRequest, BeginCreate, BeginAudit, BeginBatch, BeginApprove, BeginFinalize, tables
<1>2. CASE Abort(s)
  BY <1>2 DEF Abort, tables, Ledger!Rollback
<1>3. CASE BandConflict(s) \/ LedgerConflict(s)
  BY <1>3 DEF BandConflict, LedgerConflict, tables, Ledger!Rollback, Ledger!InsertConflict
<1>4. CASE CheckExisting(s) \/ DuplicateProposal(s) \/ InsertBand(s) \/ Flush(s) \/ ReadReviews(s)
  BY <1>4 DEF CheckExisting, DuplicateProposal, InsertBand, Flush, ReadReviews, tables
<1>5. CASE ReadLedgerHead(s) \/ InsertLedgerBlock(s)
  BY <1>5 DEF ReadLedgerHead, InsertLedgerBlock, Ledger!ReadHead, Ledger!InsertBlock, tables
<1>6. CASE ReadProposal(s)
  <2>1. (Ledger!Rollback(s) /\ Forget(s)) \/ UNCHANGED <<ledger, pending, head, history>>
    BY <1>6 DEF ReadProposal
  <2>2. UNCHANGED tables
    BY <1>6 DEF ReadProposal
  <2>. QED
    BY <2>1, <2>2 DEF tables, Ledger!Rollback
<1>7. CASE ReadEmployees(s)
  BY <1>7 DEF ReadEmployees, tables
<1>. QED
  BY <1>1, <1>2, <1>3, <1>4, <1>5, <1>6, <1>7 DEF Silent, Step, DeadlockAbort

\* What a step of s is to the others.
LEMMA MarksOthers ==
  ASSUME TxnInv, LedgerFacts, LedgerFacts', DecisionInv, NEW s \in Session,
         stale = [u \in Session |-> stale[u]],
         BeginRequest(s) \/ Step(s) \/ Abort(s),
         \A u \in Session \ {s} : txn'[u] = txn[u]
  PROVE  /\ \E rows : WritesOnly(rows) /\ \A u \in Session \ {s} : Marks(u, rows)
         /\ stale' = [u \in Session |-> stale'[u]]
<1>1. CASE CommitDecisions(s)
  <2>1. Overwrite(s, InHand(s)) /\ WritesOnly(InHand(s))
    BY <1>1, CommitWrites DEF CommitDecisions
  <2>. QED
    BY <2>1 DEF Overwrite, Marks
<1>2. CASE Finalize(s)
  <2>1. PICK rows : WritesOnly(rows) /\ Overwrite(s, rows)
    BY <1>2, FinalizeWrites
  <2>. QED
    BY <2>1 DEF Overwrite, Marks
<1>3. CASE InsertProposal(s)
  <2>1. WritesOnly({})
    BY <1>3, InsertWrites, WritesNothing
  <2>2. stale' = stale
    BY <1>3, InsertWrites DEF history
  <2>. QED
    BY <2>1, <2>2 DEF Marks
<1>4. CASE Silent(s)
  <2>1. WritesOnly({})
    BY <1>4, SilentFacts, WritesNothing
  <2>2. CASE Forget(s)
    BY <2>1, <2>2 DEF Forget, Marks
  <2>3. CASE UNCHANGED history
    BY <2>1, <2>3 DEF history, Marks
  <2>. QED
    BY <1>4, <2>2, <2>3, SilentFacts
<1>. QED
  BY <1>1, <1>2, <1>3, <1>4 DEF Silent

------------------------------------------------------------------------------
(* A decision committed from a current copy carries its review's history   *)
(* on; one from a stale copy, the review is lost from then on.             *)

Current(c, row) ==
  \A e \in Employee : row.entity = <<c, e>> =>
    /\ row.previous_status \in Open
    /\ ReviewRow(c, e) \notin lost' => row.previous_status = reviews[c][e].status

LEMMA CommitIsCurrent ==
  ASSUME TxnInv, DecisionInv, NEW s \in Session, CopiesInv(s), CommitDecisions(s),
         NEW c, NEW logs, c = txn[s].cycle, logs = txn[s].logs
  PROVE  lost \subseteq lost' /\ \A i \in 1..Len(logs) : Current(c, logs[i])
<1>1. txn[s].pc \in Deciding /\ ~ Ready(s)
  BY DEF CommitDecisions, Deciding, Ready
<1>2. lost' = lost \cup (InHand(s) \cap stale[s])
  BY DEF CommitDecisions, Overwrite
<1>3. ASSUME NEW i \in 1..Len(logs), NEW e \in Employee, logs[i].entity = <<c, e>>
      PROVE  /\ logs[i].previous_status \in Open
             /\ ReviewRow(c, e) \notin lost' => logs[i].previous_status = reviews[c][e].status
  <2>1. /\ logs[i].previous_status \in Open
        /\ ReviewRow(c, e) \notin stale[s] => logs[i].previous_status = reviews[c][e].status
    BY <1>1, <1>3 DEF CopiesInv, UpToDate
  <2>2. <<c, e>> \in Decides(s)
    BY <1>3 DEF Decides
  <2>3. ReviewRow(c, e) \in InHand(s)
    BY <1>1, <2>2 DEF InHand
  <2>. QED
    BY <1>2, <2>1, <2>3
<1>. QED
  BY <1>2, <1>3 DEF Current

\* Its block starts at the status its review's last block records.
LEMMA CommitContinues ==
  ASSUME LedgerFacts, LedgerFacts', DecisionInv, LedgerContinuous, NEW s \in Session,
         NEW c, NEW logs, CommitFacts(s, c, logs), lost \subseteq lost',
         \A i \in 1..Len(logs) : Current(c, logs[i])
  PROVE  LedgerContinuous'
<1>1. \A j \in DOMAIN ledger : j \in DOMAIN ledger' /\ ledger'[j] = ledger[j]
  BY DEF CommitFacts, LedgerFacts
<1>2. Last \in Nat /\ DOMAIN ledger = 1..Last /\ Len(logs) \in Nat
  BY DEF LedgerFacts, CommitFacts
<1>3. ASSUME NEW d \in Cycle, NEW x \in Employee, ReviewRow(d, x) \notin lost',
             NEW i \in Blocks(d, x)'
      PROVE  ledger'[i].payload.previous_status =
               IF { j \in Blocks(d, x)' : j < i } = {} THEN "DRAFT"
               ELSE ledger'[Max({ j \in Blocks(d, x)' : j < i })].payload.new_status
  <2>1. Blocks(d, x) \in SUBSET (1..Last)
    BY <1>2 DEF Blocks
  <2>2. CASE i \in Blocks(d, x)
    <3>1. { j \in Blocks(d, x)' : j < i } = { j \in Blocks(d, x) : j < i }
      <4>1. CASE Blocks(d, x)' = Blocks(d, x)
        BY <4>1
      <4>2. CASE Blocks(d, x)' # Blocks(d, x)
        <5>1. PICK n \in 1..Len(logs) : Blocks(d, x)' = Blocks(d, x) \cup {Last + n}
          BY <4>2, CommitOfReview
        <5>2. ~ (Last + n < i)
          BY <1>2, <2>1, <2>2
        <5>. QED
          BY <5>1, <5>2
      <4>. QED
        BY <4>1, <4>2
    <3>2. PICK before : before = { j \in Blocks(d, x) : j < i }
      OBVIOUS
    <3>3. ledger[i].payload.previous_status =
            IF before = {} THEN "DRAFT" ELSE ledger[Max(before)].payload.new_status
      BY <1>3, <2>2, <3>2 DEF LedgerContinuous
    <3>4. before # {} => ledger'[Max(before)] = ledger[Max(before)]
      <4>1. before \in SUBSET (1..Last)
        BY <2>1, <3>2
      <4>. QED
        BY <1>1, <1>2, <4>1, MaxOfBlocks
    <3>5. ledger'[i] = ledger[i]
      BY <1>1, <2>2 DEF Blocks
    <3>. QED
      BY <3>1, <3>2, <3>3, <3>4, <3>5
  <2>3. CASE i \notin Blocks(d, x)
    <3>1. PICK n \in 1..Len(logs) :
            /\ d = c
            /\ Blocks(d, x)' = Blocks(d, x) \cup {Last + n}
            /\ IsDecision(logs[n], c, x)
      <4>1. Blocks(d, x)' # Blocks(d, x)
        BY <2>3
      <4>. QED
        BY <4>1, CommitOfReview
    <3>2. i = Last + n
      BY <2>3, <3>1
    <3>3. { j \in Blocks(d, x)' : j < i } = Blocks(d, x)
      <4>1. \A j \in Blocks(d, x) : j < i
        BY <1>2, <2>1, <3>2
      <4>2. ~ (i < i)
        BY <1>2, <3>2
      <4>. QED
        BY <3>1, <3>2, <4>1, <4>2
    <3>4. PICK status : status = reviews[d][x].status
      OBVIOUS
    <3>5. logs[n].previous_status = status /\ status \in Open
      <4>1. logs[n].entity = <<c, x>>
        BY <3>1 DEF IsDecision, RowInv
      <4>. QED
        BY <1>3, <3>1, <3>4, <4>1 DEF Current
    <3>6. ledger'[i].payload.previous_status = status
      <4>1. ledger'[i].payload = LogPayload(logs[n])
        BY <3>2 DEF CommitFacts
      <4>. QED
        BY <3>5, <4>1 DEF LogPayload
    <3>7. IF status = "DRAFT" THEN Blocks(d, x) = {}
          ELSE Blocks(d, x) # {} /\ ledger[Max(Blocks(d, x))].payload.new_status = status
      BY <3>4, <3>5 DEF DecisionInv, LedgerTellsStatus, Open
    <3>8. Blocks(d, x) # {} => ledger'[Max(Blocks(d, x))] = ledger[Max(Blocks(d, x))]
      BY <1>1, <1>2, <2>1, MaxOfBlocks
    <3>. QED
      BY <3>3, <3>6, <3>7, <3>8
  <2>. QED
    BY <2>2, <2>3
<1>. QED
  BY <1>3 DEF LedgerContinuous

\* While the table of blocks stands, so does its continuity.
LEMMA HistoryStays ==
  ASSUME LedgerContinuous, ledger' = ledger, lost \subseteq lost'
  PROVE  LedgerContinuous'
<1>1. \A d, x : Blocks(d, x)' = Blocks(d, x)
  BY DEF Blocks
<1>. QED
  BY <1>1 DEF LedgerContinuous

\* What a step may do to a review: a finalized one stays, and none is finalized in a
\* cycle that already is, but for a row that is lost.
Moves(d, x) ==
  /\ reviews[d][x].status = "FINALIZED" /\ ReviewRow(d, x) \notin lost' =>
       reviews'[d][x] = reviews[d][x]
  /\ /\ cycles[d] = "FINALIZED" /\ reviews[d][x].status # "FINALIZED"
     /\ CycleRow(d) \notin lost'
     => reviews'[d][x].status # "FINALIZED"

LEMMA CommitMoves ==
  ASSUME LedgerFacts, LedgerFacts', DecisionInv, NEW s \in Session,
         NEW c, NEW logs, CommitFacts(s, c, logs), \A i \in 1..Len(logs) : Current(c, logs[i]),
         NEW d \in Cycle, NEW x \in Employee
  PROVE  Moves(d, x)
<1>1. CASE reviews'[d][x] = reviews[d][x]
  BY <1>1 DEF Moves
<1>2. CASE reviews'[d][x] # reviews[d][x]
  <2>1. PICK n \in 1..Len(logs) :
          /\ d = c
          /\ reviews'[d][x] = WithStatus(reviews[d][x], logs[n].new_status)
          /\ IsDecision(logs[n], c, x)
    BY <1>2, CommitOfReview
  <2>2. logs[n].entity = <<c, x>> /\ logs[n].new_status \in Verdict
    BY <2>1 DEF IsDecision, RowInv
  <2>3. /\ logs[n].previous_status \in Open
        /\ ReviewRow(d, x) \notin lost' => logs[n].previous_status = reviews[d][x].status
    BY <2>1, <2>2 DEF Current
  <2>4. reviews'[d][x].status = logs[n].new_status
    <3>1. reviews[d][x] \in Review \cup {NoReview}
      BY DEF DecisionInv, TablesInv
    <3>. QED
      BY <2>1, <3>1 DEF WithStatus, Review, NoReview
  <2>. QED
    BY <2>2, <2>3, <2>4 DEF Moves, Open, Verdict
<1>. QED
  BY <1>1, <1>2

\* What a finalization writes from copies that are current.
LEMMA FinalizeIsCurrent ==
  ASSUME TxnInv, DecisionInv, NEW s \in Session, CopiesInv(s), Finalize(s),
         NEW c, NEW seen, NEW people, NEW C, Finalizes(s, c, seen, people, C)
  PROVE  /\ lost \subseteq lost'
         /\ CycleRow(c) \notin lost' => cycles[c] # "FINALIZED"
         /\ \A e \in C : /\ ReviewRow(c, e) \notin lost' => seen[e] = reviews[c][e]
                         /\ EmployeeRow(e) \notin lost' => people[e] = employees[e]
<1>1. txn[s].pc = "apply" /\ txn[s].pc \in Finalizing
  BY DEF Finalize, Finalizing
<1>2. lost' = lost \cup (FinalizedRows(c, C) \cap stale[s])
  BY DEF Finalizes, Overwrite
<1>3. /\ CycleRow(c) \in FinalizedRows(c, C)
      /\ \A e \in C : ReviewRow(c, e) \in FinalizedRows(c, C) /\ EmployeeRow(e) \in FinalizedRows(c, C)
  BY DEF FinalizedRows
<1>4. c = txn[s].cycle /\ seen = txn[s].seen /\ people = txn[s].people /\ C \subseteq DOMAIN seen
  BY DEF Finalizes
<1>5. CycleRow(c) \notin stale[s] => cycles[c] # "FINALIZED"
  BY <1>1, <1>4 DEF CopiesInv
<1>6. ASSUME NEW e \in C
      PROVE  /\ ReviewRow(c, e) \notin stale[s] => seen[e] = reviews[c][e]
             /\ EmployeeRow(e) \notin stale[s] => people[e] = employees[e]
  BY <1>1, <1>4 DEF CopiesInv
<1>. QED
  BY <1>2, <1>3, <1>5, <1>6

LEMMA FinalizeMoves ==
  ASSUME TxnInv, DecisionInv, NEW s \in Session, CopiesInv(s), Finalize(s),
         NEW d \in Cycle, NEW x \in Employee
  PROVE  Moves(d, x)
<1>1. PICK c, seen, people, C : Finalizes(s, c, seen, people, C)
  BY FinalizeFacts
<1>2. reviews \in [Cycle -> [Employee -> Review \cup {NoReview}]]
  BY DEF DecisionInv, TablesInv
<1>3. CASE d = c /\ x \in C
  <2>1. ReviewRow(c, x) \notin lost' => reviews[c][x].status \in Approved
    <3>1. seen[x].status \in Approved
      BY <1>1, <1>3 DEF Finalizes
    <3>. QED
      BY <1>1, <1>3, <3>1, FinalizeIsCurrent
  <2>2. CycleRow(c) \notin lost' => cycles[c] # "FINALIZED"
    BY <1>1, FinalizeIsCurrent
  <2>. QED
    BY <1>3, <2>1, <2>2 DEF Moves, Approved
<1>4. CASE ~ (d = c /\ x \in C)
  <2>1. reviews'[d][x] = reviews[d][x]
    BY <1>1, <1>2, <1>4 DEF Finalizes
  <2>. QED
    BY <2>1 DEF Moves
<1>. QED
  BY <1>3, <1>4

LEMMA HistoryStep ==
  ASSUME TxnInv, TxnInv', LedgerFacts, LedgerFacts', DecisionInv, HistoryInv, NEW s \in Session,
         BeginRequest(s) \/ Step(s) \/ Abort(s),
         \A u \in Session \ {s} : txn'[u] = txn[u]
  PROVE  HistoryInv' /\ \A d \in Cycle, x \in Employee : Moves(d, x)
<1>1. /\ \E rows : WritesOnly(rows) /\ \A u \in Session \ {s} : Marks(u, rows)
      /\ stale' = [u \in Session |-> stale'[u]]
  BY MarksOthers DEF HistoryInv
<1>2. ASSUME NEW u \in Session PROVE CopiesInv(u)'
  <2>1. CASE u = s
    BY <2>1, OwnCopies DEF HistoryInv
  <2>2. CASE u # s
    <3>1. PICK rows : WritesOnly(rows) /\ Marks(u, rows)
      BY <1>1, <2>2
    <3>. QED
      BY <3>1, OtherCopies DEF HistoryInv
  <2>. QED
    BY <2>1, <2>2
<1>3. CASE CommitDecisions(s)
  <2>1. PICK c, logs : CommitFacts(s, c, logs) /\ c = txn[s].cycle /\ logs = txn[s].logs
    BY <1>3, CommitDoes
  <2>2. lost \subseteq lost' /\ \A i \in 1..Len(logs) : Current(c, logs[i])
    BY <1>3, <2>1, CommitIsCurrent DEF HistoryInv
  <2>3. LedgerContinuous'
    BY <2>1, <2>2, CommitContinues DEF HistoryInv
  <2>4. \A d \in Cycle, x \in Employee : Moves(d, x)
    BY <2>1, <2>2, CommitMoves
  <2>. QED
    BY <1>1, <1>2, <2>3, <2>4 DEF HistoryInv
<1>4. CASE Finalize(s)
  <2>1. ledger' = ledger
    BY <1>4 DEF Finalize
  <2>2. PICK c, seen, people, C : Finalizes(s, c, seen, people, C)
    BY <1>4, FinalizeFacts
  <2>3. lost \subseteq lost'
    BY <1>4, <2>2, FinalizeIsCurrent DEF HistoryInv
  <2>4. LedgerContinuous'
    BY <2>1, <2>3, HistoryStays DEF HistoryInv
  <2>5. \A d \in Cycle, x \in Employee : Moves(d, x)
    BY <1>4, FinalizeMoves DEF HistoryInv
  <2>. QED
    BY <1>1, <1>2, <2>4, <2>5 DEF HistoryInv
<1>5. CASE InsertProposal(s)
  <2>1. ledger' = ledger /\ lost \subseteq lost'
    BY <1>5, InsertWrites DEF history
  <2>2. LedgerContinuous'
    BY <2>1, HistoryStays DEF HistoryInv
  <2>3. \A d \in Cycle, x \in Employee : Moves(d, x)
    BY <1>5, InsertWrites DEF Moves
  <2>. QED
    BY <1>1, <1>2, <2>2, <2>3 DEF HistoryInv
<1>6. CASE Silent(s)
  <2>1. UNCHANGED <<reviews, ledger>> /\ lost \subseteq lost'
    BY <1>6, SilentFacts DEF history, Forget
  <2>2. LedgerContinuous'
    BY <2>1, HistoryStays DEF HistoryInv
  <2>3. \A d \in Cycle, x \in Employee : Moves(d, x)
    BY <2>1 DEF Moves
  <2>. QED
    BY <1>1, <1>2, <2>2, <2>3 DEF HistoryInv
<1>. QED
  BY <1>3, <1>4, <1>5, <1>6 DEF Silent

\* A step of one session is none of another's.
LEMMA OneSession ==
  ASSUME TxnInv, NEW s \in Session, BeginRequest(s) \/ Step(s) \/ Abort(s)
  PROVE  \A u \in Session \ {s} : txn'[u] = txn[u]
<1>1. CASE BeginRequest(s)
  BY <1>1 DEF TxnInv, BeginRequest, BeginCreate, BeginAudit, BeginBatch, BeginApprove, BeginFinalize
<1>2. CASE \/ InsertProposal(s) \/ DuplicateProposal(s) \/ LedgerConflict(s) \/ BandConflict(s)
           \/ CommitDecisions(s) \/ Finalize(s) \/ Abort(s)
  <2>1. txn' = [txn EXCEPT ![s] = Idle]
    BY <1>2 DEF InsertProposal, DuplicateProposal, LedgerConflict, BandConflict,
       CommitDecisions, Finalize, Abort
  <2>. QED
    BY <2>1 DEF TxnInv
<1>3. CASE Flush(s) \/ ReadLedgerHead(s) \/ InsertLedgerBlock(s) \/ InsertBand(s)
  <2>1. PICK pc : Carries(s, pc)
    BY <1>3, FlushMoves, ReadHeadMoves, InsertBlockMoves, InsertBandMoves
  <2>. QED
    BY <2>1 DEF Carries, Moved
<1>4. CASE CheckExisting(s)
  BY <1>4, CheckFacts DEF Checks, TxnInv
<1>5. CASE ReadProposal(s)
  BY <1>5, ReadFacts DEF Reads, TxnInv
<1>6. CASE ReadReviews(s)
  BY <1>6, ReadReviewsFacts
<1>7. CASE ReadEmployees(s)
  BY <1>7, ReadEmployeesFacts DEF TxnInv
<1>. QED
  BY <1>1, <1>2, <1>3, <1>4, <1>5, <1>6, <1>7 DEF Step, DeadlockAbort

LEMMA HistoryNext ==
  ASSUME TxnInv, TxnInv', Proved!ChainInv, Proved!ChainInv', DecisionInv, HistoryInv, [Next]_vars
  PROVE  HistoryInv' /\ \A d \in Cycle, x \in Employee : Moves(d, x)
<1>1. LedgerFacts /\ LedgerFacts'
  <2>1. LedgerFacts
    BY FactsOfChain
  <2>2. LedgerFacts'
    BY FactsOfChain, PTL
  <2>. QED
    BY <2>1, <2>2
<1>2. CASE (\E c \in Cycle : CreateCycle(c)) \/ UNCHANGED vars
  <2>1. /\ reviews' = reviews /\ ledger' = ledger /\ txn' = txn
        /\ employees' = employees /\ stale' = stale /\ lost' = lost
    BY <1>2 DEF CreateCycle, vars, history
  <2>2. \A d \in Cycle : cycles[d] # "FINALIZED" => cycles'[d] # "FINALIZED"
    BY <1>2 DEF CreateCycle, vars, DecisionInv, TablesInv
  <2>3. WritesOnly({})
    BY <2>1, <2>2, WritesNothing
  <2>4. \A u \in Session : CopiesInv(u)'
    BY <2>1, <2>3, OtherCopies DEF HistoryInv, Marks
  <2>5. LedgerContinuous'
    BY <2>1, HistoryStays DEF HistoryInv
  <2>6. \A d \in Cycle, x \in Employee : Moves(d, x)
    BY <2>1 DEF Moves
  <2>. QED
    BY <2>1, <2>4, <2>5, <2>6 DEF HistoryInv
<1>3. CASE \E s \in Session : BeginRequest(s) \/ Step(s) \/ Abort(s)
  BY <1>1, <1>3, OneSession, HistoryStep
<1>. QED
  BY <1>2, <1>3 DEF Next

LEMMA PlanningHistory == Spec => [](TxnInv /\ Proved!ChainInv /\ DecisionInv /\ HistoryInv)
<1>1. Init => HistoryInv
  <2>. SUFFICES ASSUME Init PROVE HistoryInv
    OBVIOUS
  <2>1. /\ ledger = Ledger!NoRows /\ txn = [s \in Session |-> Idle]
        /\ stale = [s \in Session |-> {}]
    BY DEF Init, Ledger!LedgerInit
  <2>2. LedgerContinuous
    BY <2>1 DEF LedgerContinuous, Blocks, Ledger!NoRows
  <2>3. \A s \in Session : CopiesInv(s)
    BY <2>1 DEF CopiesInv, Idle, Deciding, Finalizing
  <2>. QED
    BY <2>1, <2>2, <2>3 DEF HistoryInv
<1>2. TxnInv /\ TxnInv' /\ Proved!ChainInv /\ Proved!ChainInv' /\ DecisionInv /\ HistoryInv
        /\ [Next]_vars => HistoryInv'
  BY HistoryNext
<1>. QED
  BY <1>1, <1>2, PlanningSupport, PlanningDecisionInvariant, PTL DEF Spec

\* However many requests run at once, every review whose updates are all kept has one
\* history on the ledger, each decision starting at the status the one before gave it
\* (cycle_service.py:226-278, 362-389).
THEOREM PlanningLedgerContinuous == Spec => []LedgerContinuous
<1>1. HistoryInv => LedgerContinuous
  BY DEF HistoryInv
<1>. QED
  BY <1>1, PlanningHistory, PTL

\* However many requests run at once, a finalized review none of whose updates was
\* written from a stale copy never changes again (state_machine.py:29,
\* cycle_service.py:434).
THEOREM PlanningFinalizedIsTerminal == Spec => FinalizedIsTerminal
<1>1. TxnInv /\ TxnInv' /\ Proved!ChainInv /\ Proved!ChainInv' /\ DecisionInv /\ HistoryInv
        /\ [Next]_vars =>
        [ \A c \in Cycle, e \in Employee :
            reviews[c][e].status = "FINALIZED" /\ ReviewRow(c, e) \notin lost' =>
              reviews'[c][e] = reviews[c][e] ]_vars
  <2>. SUFFICES ASSUME TxnInv, TxnInv', Proved!ChainInv, Proved!ChainInv', DecisionInv,
                       HistoryInv, [Next]_vars
                PROVE  \A c \in Cycle, e \in Employee :
                         reviews[c][e].status = "FINALIZED" /\ ReviewRow(c, e) \notin lost' =>
                           reviews'[c][e] = reviews[c][e]
    OBVIOUS
  <2>1. \A d \in Cycle, x \in Employee : Moves(d, x)
    BY HistoryNext
  <2>. QED
    BY <2>1 DEF Moves
<1>. QED
  BY <1>1, PlanningHistory, PTL DEF Spec, FinalizedIsTerminal

\* However many requests run at once, no proposal of a finalized cycle is ever paid,
\* unless finalizations of that cycle have overlapped (cycle_service.py:421).
THEOREM PlanningLatecomersUnpaid == Spec => LatecomersUnpaid
<1>1. TxnInv /\ TxnInv' /\ Proved!ChainInv /\ Proved!ChainInv' /\ DecisionInv /\ HistoryInv
        /\ [Next]_vars =>
        [ \A c \in Cycle, e \in Employee :
            /\ cycles[c] = "FINALIZED" /\ reviews[c][e].status # "FINALIZED"
            /\ CycleRow(c) \notin lost'
            => reviews'[c][e].status # "FINALIZED" ]_vars
  <2>. SUFFICES ASSUME TxnInv, TxnInv', Proved!ChainInv, Proved!ChainInv', DecisionInv,
                       HistoryInv, [Next]_vars
                PROVE  \A c \in Cycle, e \in Employee :
                         /\ cycles[c] = "FINALIZED" /\ reviews[c][e].status # "FINALIZED"
                         /\ CycleRow(c) \notin lost'
                         => reviews'[c][e].status # "FINALIZED"
    OBVIOUS
  <2>1. \A d \in Cycle, x \in Employee : Moves(d, x)
    BY HistoryNext
  <2>. QED
    BY <2>1 DEF Moves
<1>. QED
  BY <1>1, PlanningHistory, PTL DEF Spec, LatecomersUnpaid

------------------------------------------------------------------------------
(* Grants.  An employee none of whose rows is lost holds each grant once.  *)

\* The proposals a table has finalized for an employee, and their grants together.
FinalizedIn(table, e) == { c \in Cycle : table[c][e].status = "FINALIZED" }

GrantedBy(table, e) == MapThenSumSet(LAMBDA c : table[c][e].rsus, FinalizedIn(table, e))

Grants(table, e) == [c \in Cycle |-> table[c][e].rsus]

LEMMA EquityOfReviews ==
  ASSUME NEW e
  PROVE  FinalizedEquity(e) = GrantedBy(reviews, e) /\ FinalizedEquity(e)' = GrantedBy(reviews', e)
BY DEF FinalizedEquity, GrantedBy, FinalizedIn, MapThenSumSet, MapThenFoldSet

LEMMA GrantedIsSum ==
  ASSUME IsFiniteSet(Cycle), NEW table, NEW e
  PROVE  /\ IsFiniteSet(FinalizedIn(table, e)) /\ FinalizedIn(table, e) \in SUBSET Cycle
         /\ GrantedBy(table, e) = SumOf(Grants(table, e), FinalizedIn(table, e))
<1>. DEFINE S == FinalizedIn(table, e)
            w == Grants(table, e)
            Loop(it) == it = [s \in SUBSET S |-> IF s = {} THEN 0
                                                 ELSE table[Pick(s)][e].rsus + it[s \ {Pick(s)}]]
<1>1. IsFiniteSet(S) /\ S \in SUBSET Cycle
  <2>1. S \in SUBSET Cycle
    BY DEF FinalizedIn
  <2>. QED
    BY <2>1, FS_Subset
<1>2. GrantedBy(table, e) = (CHOOSE it : Loop(it))[S]
  BY DEF GrantedBy, MapThenSumSet, MapThenFoldSet, Pick
<1>3. (CHOOSE it : Loop(it)) = (CHOOSE it : Partial(w, S, it))
  <2>1. \A s \in SUBSET S : s # {} => w[Pick(s)] = table[Pick(s)][e].rsus
    BY DEF Pick, Grants, FinalizedIn
  <2>. HIDE DEF w
  <2>2. \A it : Loop(it) <=> Partial(w, S, it)
    BY <2>1 DEF Partial
  <2>. HIDE DEF Loop
  <2>. QED
    BY <2>2
<1>4. SumOf(w, S) = (CHOOSE it : Partial(w, S, it))[S]
  BY SumIsPartial
<1>. HIDE DEF w, S, Loop
<1>5. GrantedBy(table, e) = SumOf(w, S)
  BY <1>2, <1>3, <1>4
<1>. QED
  BY <1>1, <1>5 DEF w, S

\* A table in which the same proposals are finalized, with the same grants.
SameGrants(r, t, e) ==
  \A c \in Cycle : /\ t[c][e].status = "FINALIZED" <=> r[c][e].status = "FINALIZED"
                   /\ r[c][e].status = "FINALIZED" => t[c][e].rsus = r[c][e].rsus

\* A table in which one more is.
OneMore(r, t, c, e) ==
  /\ r[c][e].status # "FINALIZED" /\ t[c][e].status = "FINALIZED"
  /\ t[c][e].rsus = r[c][e].rsus
  /\ \A d \in Cycle \ {c} : t[d][e] = r[d][e]

LEMMA GrantsStay ==
  ASSUME IsFiniteSet(Cycle), NEW r, NEW t, NEW e, \A c \in Cycle : r[c][e].rsus \in Int,
         SameGrants(r, t, e)
  PROVE  GrantedBy(t, e) = GrantedBy(r, e)
<1>1. FinalizedIn(t, e) = FinalizedIn(r, e)
  BY DEF FinalizedIn, SameGrants
<1>2. PICK S, u, w : S = FinalizedIn(r, e) /\ u = Grants(r, e) /\ w = Grants(t, e)
  OBVIOUS
<1>3. /\ IsFiniteSet(S)
      /\ GrantedBy(r, e) = SumOf(u, S) /\ GrantedBy(t, e) = SumOf(w, S)
  BY <1>1, <1>2, GrantedIsSum
<1>4. \A c \in S : u[c] \in Int /\ w[c] = u[c]
  BY <1>2 DEF FinalizedIn, SameGrants, Grants
<1>. QED
  BY <1>3, <1>4, SumEqual

LEMMA GrantAdded ==
  ASSUME IsFiniteSet(Cycle), NEW r, NEW t, NEW e, NEW c \in Cycle,
         \A d \in Cycle : r[d][e].rsus \in Int, OneMore(r, t, c, e)
  PROVE  GrantedBy(t, e) = r[c][e].rsus + GrantedBy(r, e)
<1>1. PICK S, u, w : S = FinalizedIn(r, e) /\ u = Grants(r, e) /\ w = Grants(t, e)
  OBVIOUS
<1>2. PICK T : T = S \cup {c}
  OBVIOUS
<1>3. FinalizedIn(t, e) = T /\ c \notin S
  BY <1>1, <1>2 DEF FinalizedIn, OneMore
<1>4. /\ IsFiniteSet(S) /\ S \in SUBSET Cycle
      /\ IsFiniteSet(T) /\ T \in SUBSET Cycle
      /\ GrantedBy(r, e) = SumOf(u, S) /\ GrantedBy(t, e) = SumOf(w, T)
  BY <1>1, <1>3, GrantedIsSum
<1>5. \A d \in T : u[d] \in Int /\ w[d] = u[d]
  BY <1>1, <1>4 DEF OneMore, Grants
<1>6. SumOf(u, T) = SumOf(w, T)
  BY <1>4, <1>5, SumEqual
<1>7. SumOf(u, T) = u[c] + SumOf(u, S)
  BY <1>2, <1>3, <1>4, <1>5, SumAdd
<1>8. u[c] = r[c][e].rsus
  BY <1>1 DEF Grants
<1>. QED
  BY <1>4, <1>6, <1>7, <1>8

\* What a step may do to an employee's equity and their proposals.
Repaid(e) ==
  \/ SameGrants(reviews, reviews', e) /\ employees'[e].equity = employees[e].equity
  \/ \E c \in Cycle : /\ OneMore(reviews, reviews', c, e)
                      /\ employees'[e].equity = reviews[c][e].rsus + employees[e].equity

\* No update of the employee or of a proposal of theirs is lost.
NothingLost(e) == EmployeeRow(e) \notin lost /\ \A c \in Cycle : ReviewRow(c, e) \notin lost

LEMMA GrantNat ==
  ASSUME NEW r \in Review \cup {NoReview}
  PROVE  r.rsus \in Nat
<1>1. CASE r \in Review
  <2>1. r.rsus \in Grant
    BY <1>1 DEF Review
  <2>. QED
    BY <2>1, PlanningAssumption
<1>2. CASE r = NoReview
  BY <1>2 DEF NoReview
<1>. QED
  BY <1>1, <1>2

LEMMA RepaidKeepsEquity ==
  ASSUME IsFiniteSet(Cycle), TablesInv, EquityAppliedOnce, lost \subseteq lost',
         \A e \in Employee : NothingLost(e)' => Repaid(e)
  PROVE  EquityAppliedOnce'
<1>. SUFFICES ASSUME NEW e \in Employee, NothingLost(e)'
              PROVE  employees'[e].equity = GrantedBy(reviews', e)
  BY EquityOfReviews DEF EquityAppliedOnce, NothingLost
<1>1. employees[e].equity = GrantedBy(reviews, e)
  BY EquityOfReviews DEF EquityAppliedOnce, NothingLost
<1>2. \A c \in Cycle : reviews[c][e].rsus \in Int
  <2>1. \A c \in Cycle : reviews[c][e] \in Review \cup {NoReview}
    BY DEF TablesInv
  <2>. QED
    BY <2>1, GrantNat
<1>. QED
  BY <1>1, <1>2, GrantsStay, GrantAdded DEF Repaid

LEMMA CommitRepays ==
  ASSUME LedgerFacts, LedgerFacts', DecisionInv, NEW s \in Session,
         NEW c, NEW logs, CommitFacts(s, c, logs), \A i \in 1..Len(logs) : Current(c, logs[i]),
         NEW e \in Employee, NothingLost(e)'
  PROVE  Repaid(e)
<1>1. employees' = employees
  BY DEF CommitFacts
<1>2. ASSUME NEW d \in Cycle
      PROVE  \/ reviews'[d][e] = reviews[d][e]
             \/ reviews[d][e].status # "FINALIZED" /\ reviews'[d][e].status # "FINALIZED"
  <2>1. CASE reviews'[d][e] # reviews[d][e]
    <3>1. PICK n \in 1..Len(logs) :
            /\ d = c
            /\ reviews'[d][e] = WithStatus(reviews[d][e], logs[n].new_status)
            /\ IsDecision(logs[n], c, e)
      BY <2>1, CommitOfReview
    <3>2. logs[n].entity = <<c, e>> /\ logs[n].new_status \in Verdict
      BY <3>1 DEF IsDecision, RowInv
    <3>3. reviews[d][e].status \in Open
      <4>1. ReviewRow(d, e) \notin lost'
        BY DEF NothingLost
      <4>. QED
        BY <3>1, <3>2, <4>1 DEF Current
    <3>4. reviews[d][e] \in Review \cup {NoReview}
      BY DEF DecisionInv, TablesInv
    <3>5. reviews'[d][e].status = logs[n].new_status
      BY <3>1, <3>4 DEF WithStatus, Review, NoReview
    <3>. QED
      BY <3>2, <3>3, <3>5 DEF Open, Verdict
  <2>. QED
    BY <2>1
<1>3. SameGrants(reviews, reviews', e)
  BY <1>2 DEF SameGrants
<1>. QED
  BY <1>1, <1>3 DEF Repaid

LEMMA InsertRepays ==
  ASSUME TxnInv, DecisionInv, NEW s \in Session, InsertProposal(s), NEW e \in Employee
  PROVE  Repaid(e)
<1>1. \A d \in Cycle : \/ reviews'[d][e] = reviews[d][e]
                       \/ reviews[d][e].status = "NONE" /\ reviews'[d][e].status = "DRAFT"
  BY InsertWrites
<1>2. SameGrants(reviews, reviews', e)
  BY <1>1 DEF SameGrants
<1>. QED
  BY <1>2, InsertWrites DEF Repaid

\* What is added is the grant of the proposal that is finalized, to the equity the
\* employee has, if neither copy is stale.
LEMMA FinalizeRepays ==
  ASSUME TxnInv, DecisionInv, NEW s \in Session, CopiesInv(s), Finalize(s),
         NEW e \in Employee, NothingLost(e)'
  PROVE  Repaid(e)
<1>1. PICK c, seen, people, C : Finalizes(s, c, seen, people, C)
  BY FinalizeFacts
<1>2. /\ c \in Cycle
      /\ reviews' = [reviews EXCEPT ![c] =
           [x \in Employee |-> IF x \in C THEN [@[x] EXCEPT !.status = "FINALIZED"] ELSE @[x]]]
      /\ employees' = [x \in Employee |->
           IF x \in C THEN Raised(x, seen[x], people[x]) ELSE employees[x]]
  BY <1>1 DEF Finalizes
<1>3. reviews \in [Cycle -> [Employee -> Review \cup {NoReview}]]
  BY DEF DecisionInv, TablesInv
<1>4. CASE e \in C
  <2>1. seen[e] = reviews[c][e] /\ people[e] = employees[e]
    <3>1. ReviewRow(c, e) \notin lost' /\ EmployeeRow(e) \notin lost'
      BY <1>2 DEF NothingLost
    <3>. QED
      BY <1>1, <1>4, <3>1, FinalizeIsCurrent
  <2>2. reviews[c][e].status # "FINALIZED"
    <3>1. seen[e].status \in Approved
      BY <1>1, <1>4 DEF Finalizes
    <3>. QED
      BY <2>1, <3>1 DEF Approved
  <2>3. reviews'[c][e] = [reviews[c][e] EXCEPT !.status = "FINALIZED"]
    BY <1>2, <1>3, <1>4
  <2>4. reviews[c][e] \in Review \cup {NoReview}
    BY <1>2, <1>3
  <2>5. reviews'[c][e].status = "FINALIZED" /\ reviews'[c][e].rsus = reviews[c][e].rsus
    BY <2>3, <2>4 DEF Review, NoReview
  <2>6. \A d \in Cycle \ {c} : reviews'[d][e] = reviews[d][e]
    BY <1>2, <1>3
  <2>7. OneMore(reviews, reviews', c, e)
    BY <2>2, <2>5, <2>6 DEF OneMore
  <2>8. employees'[e].equity = reviews[c][e].rsus + employees[e].equity
    <3>1. employees'[e].equity =
            IF reviews[c][e].rsus = 0 THEN employees[e].equity
            ELSE employees[e].equity + reviews[c][e].rsus
      BY <1>2, <1>4, <2>1 DEF Raised
    <3>2. reviews[c][e].rsus \in Nat
      BY <2>4, GrantNat
    <3>3. employees[e].equity \in Nat
      <4>1. employees[e] \in [base : Base, equity : Nat]
        BY DEF DecisionInv, TablesInv
      <4>. QED
        BY <4>1
    <3>. QED
      BY <3>1, <3>2, <3>3
  <2>. QED
    BY <1>2, <2>7, <2>8 DEF Repaid
<1>5. CASE e \notin C
  <2>1. \A d \in Cycle : reviews'[d][e] = reviews[d][e]
    BY <1>2, <1>3, <1>5
  <2>2. employees'[e] = employees[e]
    BY <1>2, <1>5
  <2>3. SameGrants(reviews, reviews', e)
    BY <2>1 DEF SameGrants
  <2>. QED
    BY <2>2, <2>3 DEF Repaid
<1>. QED
  BY <1>4, <1>5

LEMMA UnchangedRepays ==
  ASSUME reviews' = reviews, employees' = employees
  PROVE  \A e \in Employee : Repaid(e)
BY DEF Repaid, SameGrants

LEMMA NextRepays ==
  ASSUME TxnInv, Proved!ChainInv, Proved!ChainInv', DecisionInv, HistoryInv, [Next]_vars
  PROVE  lost \subseteq lost' /\ \A e \in Employee : NothingLost(e)' => Repaid(e)
<1>1. LedgerFacts /\ LedgerFacts'
  <2>1. LedgerFacts
    BY FactsOfChain
  <2>2. LedgerFacts'
    BY FactsOfChain, PTL
  <2>. QED
    BY <2>1, <2>2
<1>2. CASE (\E c \in Cycle : CreateCycle(c)) \/ UNCHANGED vars
  <2>1. reviews' = reviews /\ employees' = employees /\ lost' = lost
    BY <1>2 DEF CreateCycle, vars, history
  <2>. QED
    BY <2>1, UnchangedRepays
<1>3. ASSUME NEW s \in Session, BeginRequest(s) \/ Step(s) \/ Abort(s)
      PROVE  lost \subseteq lost' /\ \A e \in Employee : NothingLost(e)' => Repaid(e)
  <2>1. CASE CommitDecisions(s)
    <3>1. PICK c, logs : CommitFacts(s, c, logs) /\ c = txn[s].cycle /\ logs = txn[s].logs
      BY <1>1, <2>1, CommitDoes
    <3>2. lost \subseteq lost' /\ \A i \in 1..Len(logs) : Current(c, logs[i])
      BY <2>1, <3>1, CommitIsCurrent DEF HistoryInv
    <3>. QED
      BY <1>1, <3>1, <3>2, CommitRepays
  <2>2. CASE InsertProposal(s)
    <3>1. lost' = lost
      BY <2>2, InsertWrites DEF history
    <3>. QED
      BY <2>2, <3>1, InsertRepays
  <2>3. CASE Finalize(s)
    <3>1. PICK c, seen, people, C : Finalizes(s, c, seen, people, C)
      BY <2>3, FinalizeFacts
    <3>2. lost \subseteq lost'
      BY <2>3, <3>1, FinalizeIsCurrent DEF HistoryInv
    <3>. QED
      BY <2>3, <3>2, FinalizeRepays DEF HistoryInv
  <2>4. CASE Silent(s)
    <3>1. reviews' = reviews /\ employees' = employees /\ lost \subseteq lost'
      BY <2>4, SilentFacts DEF history, Forget
    <3>. QED
      BY <3>1, UnchangedRepays
  <2>. QED
    BY <1>3, <2>1, <2>2, <2>3, <2>4 DEF Silent
<1>. QED
  BY <1>2, <1>3 DEF Next

\* However many requests run at once, each finalized proposal's grant is added to its
\* employee exactly once, as long as no update of theirs is lost: over cycles that
\* overlap, and finalizations cut off and begun again (cycle_service.py:402-443).
THEOREM PlanningEquityAppliedOnce ==
  ASSUME IsFiniteSet(Cycle)
  PROVE  Spec => []EquityAppliedOnce
<1>1. Init => EquityAppliedOnce
  <2>. SUFFICES ASSUME Init, NEW e \in Employee
                PROVE  employees[e].equity = GrantedBy(reviews, e)
    BY EquityOfReviews DEF EquityAppliedOnce
  <2>1. FinalizedIn(reviews, e) = {}
    BY DEF Init, FinalizedIn, NoReview
  <2>2. GrantedBy(reviews, e) = SumOf(Grants(reviews, e), {})
    BY <2>1, GrantedIsSum
  <2>. QED
    BY <2>2, SumEmpty DEF Init, Hired
<1>2. TxnInv /\ Proved!ChainInv /\ Proved!ChainInv' /\ DecisionInv /\ HistoryInv
        /\ EquityAppliedOnce /\ [Next]_vars => EquityAppliedOnce'
  <2>. SUFFICES ASSUME TxnInv, Proved!ChainInv, Proved!ChainInv', DecisionInv, HistoryInv,
                       EquityAppliedOnce, [Next]_vars
                PROVE  EquityAppliedOnce'
    OBVIOUS
  <2>1. lost \subseteq lost' /\ \A e \in Employee : NothingLost(e)' => Repaid(e)
    BY NextRepays
  <2>. QED
    BY <2>1, RepaidKeepsEquity DEF DecisionInv
<1>. QED
  BY <1>1, <1>2, PlanningHistory, PTL DEF Spec
==============================================================================
