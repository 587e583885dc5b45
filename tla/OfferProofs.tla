----------------------------- MODULE OfferProofs -----------------------------
(***************************************************************************)
(* Proofs about OfferLifecycle, for any number of sessions, offers and     *)
(* numbers: the offers' requests keep to the ledger's specification, and   *)
(* no letter goes out for an offer the ledger holds no approval of.        *)
(***************************************************************************)
EXTENDS OfferLifecycle, FiniteSetTheorems, TLAPS

------------------------------------------------------------------------------
(* The row a transaction writes is one record_entry may be given.          *)

Header == [ entity : Offer, action : SealedAction ]

Payload == [ previous_status : OfferStatus, new_status : AgentDecisions ]

Row ==
  [ entity : Offer, action : SealedAction \cup {"OFFER_EXTENDED", "DECISION"},
    previous_status : OfferStatus, new_status : OfferStatus ]

Writing == {"flush", "ledger", "block", "commit"}

\* The statuses the operations write; a draft is only ever inserted.
Written == AgentDecisions \cup {"OFFER_EXTENDED"} \cup Terminal

WellFormed(t) ==
  t.pc \in Writing =>
    /\ t = [ pc |-> t.pc, row |-> t.row ]
    /\ t.row \in Row
    /\ t.row.action \in SealedAction => t.row.new_status \in AgentDecisions
    /\ t.pc \in {"ledger", "block"} => t.row.action \in SealedAction

TxnInv ==
  /\ txn = [s \in Session |-> txn[s]]
  /\ \A s \in Session : WellFormed(txn[s])

LEMMA StatusOfTransition ==
  ASSUME NEW from, NEW to, CanTransitionOffer(from, to)
  PROVE  from \in OfferStatus /\ to \in OfferStatus
BY DEF CanTransitionOffer, OfferTransitions, OfferStatus

\* The table has no transition out of a terminal status.
LEMMA TerminalHasNoNext ==
  ASSUME NEW from, NEW to, CanTransitionOffer(from, to)
  PROVE  from \notin Terminal
BY DEF CanTransitionOffer, OfferTransitions, Terminal

LEMMA NewTxn ==
  ASSUME TxnInv, NEW s \in Session, NEW t, WellFormed(t), txn' = [txn EXCEPT ![s] = t]
  PROVE  TxnInv'
<1>1. /\ txn' = [u \in Session |-> txn'[u]]
      /\ txn'[s] = t
      /\ \A u \in Session \ {s} : txn'[u] = txn[u]
  BY DEF TxnInv
<1>2. \A u \in Session : WellFormed(txn'[u])
  BY <1>1 DEF TxnInv
<1>. QED
  BY <1>1, <1>2 DEF TxnInv, WellFormed

LEMMA IdleWellFormed == WellFormed(Idle)
BY DEF WellFormed, Idle, Writing

LEMMA DecideWellFormed ==
  ASSUME NEW row \in Row, row.action \in SealedAction => row.new_status \in AgentDecisions
  PROVE  WellFormed(Decide(row))
BY DEF WellFormed, Decide, Writing

LEMMA RowOfLog ==
  ASSUME NEW o \in Offer, NEW action \in SealedAction \cup {"OFFER_EXTENDED", "DECISION"},
         NEW from \in OfferStatus, NEW to \in OfferStatus
  PROVE  OfferLog(o, action, from, to) \in Row
BY DEF OfferLog, Row

\* What a new request will write: a row of the offer's status and another one.
LEMMA BeginWrites ==
  ASSUME NEW s \in Session, BeginRequest(s)
  PROVE  \/ \E o \in Offer, n \in Number :
              /\ ~ Exists(o)
              /\ \A t \in Session : txn[t].pc = "insert" => txn[t].offer # o
              /\ txn' = [txn EXCEPT ![s] = [ pc |-> "insert", offer |-> o, number |-> n ]]
         \/ \E o \in Offer, action \in SealedAction \cup {"OFFER_EXTENDED", "DECISION"},
               to \in OfferStatus :
              /\ Exists(o)
              /\ offers[o].status \in OfferStatus
              /\ offers[o].status \notin Terminal
              /\ to \in Written
              /\ action \in SealedAction => to \in AgentDecisions
              /\ action \notin SealedAction =>
                   offers[o].status \in {"OFFER_APPROVED", "OFFER_EXTENDED"}
              /\ txn' = [txn EXCEPT ![s] =
                   Decide(OfferLog(o, action, offers[o].status, to))]
<1>1. PICK o \in Offer :
        \/ \E n \in Number : BeginCreate(s, o, n)
        \/ BeginAudit(s, o)
        \/ BeginApprove(s, o)
        \/ BeginExtend(s, o)
        \/ \E decision \in Terminal : BeginDecision(s, o, decision)
  BY DEF BeginRequest
<1>2. CASE \E n \in Number : BeginCreate(s, o, n)
  BY <1>2 DEF BeginCreate
<1>3. CASE BeginAudit(s, o)
  <2>1. PICK start \in AuditStart(offers[o].status), decision \in AgentDecisions :
          /\ CanTransitionOffer(start, decision)
          /\ txn' = [txn EXCEPT ![s] =
               Decide(OfferLog(o, "OFFER_AUDIT", offers[o].status, decision))]
    BY <1>3 DEF BeginAudit
  <2>2. Exists(o)
    BY <1>3 DEF BeginAudit
  <2>3. offers[o].status \in OfferStatus /\ offers[o].status \notin Terminal
    <3>1. CASE offers[o].status \in {"OFFER_DRAFT", "OFFER_REJECTED"}
      BY <3>1 DEF OfferStatus, Terminal
    <3>2. CASE offers[o].status \notin {"OFFER_DRAFT", "OFFER_REJECTED"}
      <4>1. start = offers[o].status
        BY <3>2 DEF AuditStart
      <4>. QED
        BY <2>1, <4>1, StatusOfTransition, TerminalHasNoNext
    <3>. QED
      BY <3>1, <3>2
  <2>4. decision \in OfferStatus /\ decision \in Written
    BY DEF AgentDecisions, OfferStatus, Written
  <2>. QED
    BY <2>1, <2>2, <2>3, <2>4 DEF SealedAction
<1>4. CASE BeginApprove(s, o)
  <2>1. /\ offers[o].status \in OfferStatus /\ "OFFER_APPROVED" \in OfferStatus
        /\ offers[o].status \notin Terminal
    BY <1>4, StatusOfTransition, TerminalHasNoNext DEF BeginApprove
  <2>. QED
    BY <1>4, <2>1 DEF BeginApprove, SealedAction, AgentDecisions, Written
<1>5. CASE BeginExtend(s, o)
  <2>1. /\ offers[o].status \in OfferStatus /\ "OFFER_EXTENDED" \in OfferStatus
        /\ offers[o].status \notin Terminal
    BY <1>5, StatusOfTransition, TerminalHasNoNext DEF BeginExtend
  <2>2. offers[o].status \in {"OFFER_APPROVED", "OFFER_EXTENDED"}
    BY <1>5 DEF BeginExtend, CanTransitionOffer, OfferTransitions
  <2>. QED
    BY <1>5, <2>1, <2>2 DEF BeginExtend, SealedAction, Written
<1>6. CASE \E decision \in Terminal : BeginDecision(s, o, decision)
  <2>1. PICK decision \in Terminal : BeginDecision(s, o, decision)
    BY <1>6
  <2>2. /\ offers[o].status \in OfferStatus /\ decision \in OfferStatus
        /\ offers[o].status \notin Terminal
    BY <2>1, StatusOfTransition, TerminalHasNoNext DEF BeginDecision
  <2>3. offers[o].status \in {"OFFER_APPROVED", "OFFER_EXTENDED"}
    BY <2>1 DEF BeginDecision, CanTransitionOffer, OfferTransitions, Terminal
  <2>. QED
    BY <2>1, <2>2, <2>3 DEF BeginDecision, SealedAction, Written
<1>. QED
  BY <1>1, <1>2, <1>3, <1>4, <1>5, <1>6

LEMMA BeginKeepsTxn ==
  ASSUME TxnInv, NEW s \in Session, BeginRequest(s)
  PROVE  TxnInv'
<1>1. ASSUME NEW o \in Offer, NEW n \in Number,
             txn' = [txn EXCEPT ![s] = [ pc |-> "insert", offer |-> o, number |-> n ]]
      PROVE  TxnInv'
  <2>1. WellFormed([ pc |-> "insert", offer |-> o, number |-> n ])
    BY DEF WellFormed, Writing
  <2>. QED
    BY <1>1, <2>1, NewTxn
<1>2. ASSUME NEW o \in Offer, NEW action \in SealedAction \cup {"OFFER_EXTENDED", "DECISION"},
             NEW to \in OfferStatus, offers[o].status \in OfferStatus,
             action \in SealedAction => to \in AgentDecisions,
             txn' = [txn EXCEPT ![s] = Decide(OfferLog(o, action, offers[o].status, to))]
      PROVE  TxnInv'
  <2>1. WellFormed(Decide(OfferLog(o, action, offers[o].status, to)))
    BY <1>2, RowOfLog, DecideWellFormed DEF OfferLog
  <2>. QED
    BY <1>2, <2>1, NewTxn
<1>. QED
  BY <1>1, <1>2, BeginWrites

\* A step that only moves a writing transaction on.
LEMMA MovesOn ==
  ASSUME TxnInv, NEW s \in Session, txn[s].pc \in Writing,
         NEW pc \in {"ledger", "block", "commit"}, txn' = [txn EXCEPT ![s].pc = pc],
         pc # "commit" => txn[s].row.action \in SealedAction
  PROVE  TxnInv' /\ txn'[s] = [ pc |-> pc, row |-> txn[s].row ]
<1>1. WellFormed(txn[s])
  BY DEF TxnInv
<1>2. [txn[s] EXCEPT !.pc = pc] = [ pc |-> pc, row |-> txn[s].row ]
  BY <1>1 DEF WellFormed
<1>3. txn' = [txn EXCEPT ![s] = [ pc |-> pc, row |-> txn[s].row ]]
  BY <1>2
<1>4. WellFormed([ pc |-> pc, row |-> txn[s].row ])
  BY <1>1 DEF WellFormed
<1>. QED
  BY <1>3, <1>4, NewTxn DEF TxnInv

------------------------------------------------------------------------------
(* Every step keeps to the ledger's specification.                         *)

LEMMA LedgerStep ==
  ASSUME NEW s \in Session,
         \/ Ledger!ReadHead(s)
         \/ \E header \in Header, payload \in Payload : Ledger!InsertBlock(s, header, payload)
         \/ Ledger!InsertConflict(s)
         \/ Ledger!Commit(s)
         \/ Ledger!Rollback(s)
  PROVE  Ledger!LedgerNext
BY DEF Ledger!LedgerNext, Header, Payload

LEMMA StepOfSession ==
  ASSUME TxnInv, NEW s \in Session,
         \/ BeginRequest(s) \/ InsertOffer(s) \/ Flush(s)
         \/ ReadLedgerHead(s) \/ InsertLedgerBlock(s) \/ LedgerConflict(s)
         \/ CommitDecision(s) \/ Abort(s)
  PROVE  TxnInv' /\ (Ledger!LedgerNext \/ UNCHANGED <<ledger, pending, head>>)
<1>1. CASE BeginRequest(s)
  <2>1. UNCHANGED <<ledger, pending, head>>
    BY <1>1 DEF BeginRequest, BeginCreate, BeginAudit, BeginApprove, BeginExtend, BeginDecision
  <2>. QED
    BY <1>1, <2>1, BeginKeepsTxn
<1>2. CASE InsertOffer(s)
  BY <1>2, IdleWellFormed, NewTxn DEF InsertOffer
<1>3. CASE Flush(s)
  <2>1. CASE txn[s].row.action \in SealedAction
    BY <1>3, <2>1, MovesOn DEF Flush, Writing
  <2>2. CASE txn[s].row.action \notin SealedAction
    BY <1>3, <2>2, MovesOn DEF Flush, Writing
  <2>. QED
    BY <1>3, <2>1, <2>2 DEF Flush
<1>4. CASE ReadLedgerHead(s)
  <2>1. txn[s].pc = "ledger" /\ txn[s].row.action \in SealedAction
    BY <1>4 DEF ReadLedgerHead, TxnInv, WellFormed, Writing
  <2>. QED
    BY <1>4, <2>1, MovesOn, LedgerStep DEF ReadLedgerHead, Writing
<1>5. CASE InsertLedgerBlock(s)
  <2>1. /\ txn[s].row \in Row
        /\ txn[s].row.action \in SealedAction
        /\ txn[s].row.new_status \in AgentDecisions
    BY <1>5 DEF InsertLedgerBlock, TxnInv, WellFormed, Writing
  <2>2. LogHeader(txn[s].row) \in Header /\ LogPayload(txn[s].row) \in Payload
    BY <2>1 DEF LogHeader, LogPayload, Header, Payload, Row
  <2>3. Ledger!LedgerNext
    BY <1>5, <2>2, LedgerStep DEF InsertLedgerBlock
  <2>4. TxnInv'
    BY <1>5, MovesOn DEF InsertLedgerBlock, Writing
  <2>. QED
    BY <2>3, <2>4
<1>6. CASE LedgerConflict(s)
  BY <1>6, IdleWellFormed, NewTxn, LedgerStep DEF LedgerConflict
<1>7. CASE CommitDecision(s)
  BY <1>7, IdleWellFormed, NewTxn, LedgerStep DEF CommitDecision
<1>8. CASE Abort(s)
  BY <1>8, IdleWellFormed, NewTxn, LedgerStep DEF Abort
<1>. QED
  BY <1>1, <1>2, <1>3, <1>4, <1>5, <1>6, <1>7, <1>8

LEMMA StepKeepsLedger ==
  ASSUME TxnInv, [Next]_vars
  PROVE  TxnInv' /\ [Ledger!LedgerNext]_<<ledger, pending, head>>
<1>1. CASE Next
  BY <1>1, StepOfSession DEF Next
<1>2. CASE UNCHANGED vars
  BY <1>2 DEF vars, TxnInv, WellFormed
<1>. QED
  BY <1>1, <1>2

LEMMA TxnInvInit == Init => TxnInv
BY IdleWellFormed DEF Init, TxnInv

\* However the requests of OfferLifecycle interleave, conflict or die, the ledger they
\* write behaves as SoxLedger allows: record_entry is called by sessions inside their
\* transactions and by nothing else.
THEOREM OfferRequestsUseLedger == Spec => OffersUseLedger
<1>1. Init => TxnInv /\ Ledger!LedgerInit
  BY TxnInvInit DEF Init
<1>2. TxnInv /\ [Next]_vars => TxnInv' /\ [Ledger!LedgerNext]_(Ledger!ledgerVars)
  BY StepKeepsLedger DEF Ledger!ledgerVars
<1>. QED
  BY <1>1, <1>2, PTL DEF Spec, OffersUseLedger, Ledger!LedgerSpec

------------------------------------------------------------------------------
(* No letter without an approval.                                          *)

Answered == {"OFFER_APPROVED", "OFFER_EXTENDED"} \cup Terminal

\* Some block of a table approves offer o.
Approves(rows, o) ==
  \E i \in DOMAIN rows : /\ rows[i].header.entity = o
                         /\ rows[i].payload.new_status = "OFFER_APPROVED"

\* Nobody's uncommitted blocks have the number of a committed or of another's block:
\* a commit adds to the ledger and replaces nothing.
KeysApart ==
  /\ pending = [s \in Session |-> pending[s]]
  /\ \A s \in Session : DOMAIN pending[s] \cap DOMAIN ledger = {}
  /\ \A s, t \in Session : s # t => DOMAIN pending[s] \cap DOMAIN pending[t] = {}

\* A transaction that will answer an offer stands on an approval: a committed one for a
\* letter or an answer, and for an approval the block it has inserted itself.
Grounded(s) ==
  txn[s].pc \in Writing =>
    LET row == txn[s].row IN
      /\ offers[row.entity] # NoOffer
      /\ row.action \notin SealedAction => Approves(ledger, row.entity)
      /\ row.action \in SealedAction /\ row.new_status = "OFFER_APPROVED" /\ txn[s].pc = "commit"
           => Approves(pending[s], row.entity)

OfferInv(o) ==
  /\ offers[o] = NoOffer \/ offers[o] = [ status |-> offers[o].status, number |-> offers[o].number ]
  /\ offers[o] # NoOffer /\ offers[o].status \in Answered => Approves(ledger, o)

LetterInv ==
  /\ TxnInv
  /\ KeysApart
  /\ offers = [o \in Offer |-> offers[o]]
  /\ \A s \in Session : Grounded(s)
  /\ \A o \in Offer : OfferInv(o)

LEMMA LetterInvInit == Init => LetterInv
<1>. SUFFICES ASSUME Init PROVE LetterInv
  OBVIOUS
<1>1. TxnInv
  BY TxnInvInit
<1>2. KeysApart
  BY DEF Init, KeysApart, Ledger!LedgerInit, Ledger!NoRows
<1>3. \A s \in Session : Grounded(s)
  BY DEF Init, Grounded, Idle, Writing
<1>4. offers = [o \in Offer |-> offers[o]] /\ \A o \in Offer : OfferInv(o)
  BY DEF Init, OfferInv
<1>. QED
  BY <1>1, <1>2, <1>3, <1>4 DEF LetterInv

\* The ledger's statements keep the keys apart and lose no committed block.
LEMMA LedgerGrows ==
  ASSUME KeysApart, NEW s \in Session,
         \/ UNCHANGED <<ledger, pending, head>>
         \/ Ledger!ReadHead(s)
         \/ \E header, payload : Ledger!InsertBlock(s, header, payload)
         \/ Ledger!InsertConflict(s)
         \/ Ledger!Commit(s)
         \/ Ledger!Rollback(s)
  PROVE  /\ KeysApart'
         /\ \A o : Approves(ledger, o) => Approves(ledger', o)
         /\ \A t \in Session \ {s} : pending'[t] = pending[t]
<1>1. CASE UNCHANGED <<ledger, pending>>
  BY <1>1 DEF KeysApart
<1>2. CASE \E header, payload : Ledger!InsertBlock(s, header, payload)
  <2>1. PICK header, payload : Ledger!InsertBlock(s, header, payload)
    BY <1>2
  <2>. DEFINE n == head[s].sequence_id
              block == [i \in {n} |-> Ledger!Seal(head[s], header, payload)]
  <2>2. /\ ledger' = ledger
        /\ pending' = [pending EXCEPT ![s] = Ledger!Merge(pending[s], block)]
        /\ n \notin DOMAIN ledger
        /\ \A t \in Session \ {s} : n \notin DOMAIN pending[t]
    BY <2>1 DEF Ledger!InsertBlock, Ledger!KeyHolder
  <2>3. DOMAIN Ledger!Merge(pending[s], block) = DOMAIN pending[s] \cup {n}
    BY DEF Ledger!Merge
  <2>. HIDE DEF n, block
  <2>4. /\ pending' = [t \in Session |-> pending'[t]]
        /\ DOMAIN pending'[s] = DOMAIN pending[s] \cup {n}
        /\ \A t \in Session \ {s} : pending'[t] = pending[t]
    BY <2>2, <2>3 DEF KeysApart
  <2>5. KeysApart'
    BY <2>2, <2>4 DEF KeysApart
  <2>. QED
    BY <2>2, <2>4, <2>5
<1>3. CASE Ledger!Rollback(s)
  <2>1. /\ ledger' = ledger
        /\ pending' = [t \in Session |-> pending'[t]]
        /\ DOMAIN pending'[s] = {}
        /\ \A t \in Session \ {s} : pending'[t] = pending[t]
    BY <1>3 DEF Ledger!Rollback, Ledger!NoRows, KeysApart
  <2>. QED
    BY <2>1 DEF KeysApart
<1>4. CASE Ledger!Commit(s)
  <2>1. /\ ledger' = Ledger!Merge(ledger, pending[s])
        /\ pending' = [t \in Session |-> pending'[t]]
        /\ DOMAIN pending'[s] = {}
        /\ \A t \in Session \ {s} : pending'[t] = pending[t]
    BY <1>4 DEF Ledger!Commit, Ledger!Visible, Ledger!NoRows, KeysApart
  <2>2. /\ DOMAIN ledger' = DOMAIN ledger \cup DOMAIN pending[s]
        /\ \A i \in DOMAIN ledger : ledger'[i] = ledger[i]
    BY <2>1 DEF Ledger!Merge, KeysApart
  <2>3. KeysApart'
    BY <2>1, <2>2 DEF KeysApart
  <2>4. ASSUME NEW o, Approves(ledger, o) PROVE Approves(ledger', o)
    BY <2>2, <2>4 DEF Approves
  <2>. QED
    BY <2>1, <2>3, <2>4
<1>. QED
  BY <1>1, <1>2, <1>3, <1>4 DEF Ledger!ReadHead, Ledger!InsertConflict

\* What a commit makes visible of an approval it carries.
LEMMA CommitPublishes ==
  ASSUME NEW s \in Session, NEW o, Ledger!Commit(s), Approves(pending[s], o)
  PROVE  Approves(ledger', o)
<1>1. ledger' = Ledger!Merge(ledger, pending[s])
  BY DEF Ledger!Commit, Ledger!Visible
<1>2. \A i \in DOMAIN pending[s] : i \in DOMAIN ledger' /\ ledger'[i] = pending[s][i]
  BY <1>1 DEF Ledger!Merge
<1>. QED
  BY <1>2 DEF Approves

\* The block of an approval approves.
LEMMA InsertApproves ==
  ASSUME KeysApart, NEW s \in Session, NEW row, row.new_status = "OFFER_APPROVED",
         Ledger!InsertBlock(s, LogHeader(row), LogPayload(row))
  PROVE  Approves(pending'[s], row.entity)
<1>. DEFINE n == head[s].sequence_id
            seal == Ledger!Seal(head[s], LogHeader(row), LogPayload(row))
<1>1. pending'[s] = Ledger!Merge(pending[s], [i \in {n} |-> seal])
  BY DEF Ledger!InsertBlock, KeysApart
<1>2. n \in DOMAIN pending'[s] /\ pending'[s][n] = seal
  BY <1>1 DEF Ledger!Merge
<1>3. seal.header = LogHeader(row) /\ seal.payload = LogPayload(row)
  BY DEF Ledger!Seal
<1>4. seal.header.entity = row.entity /\ seal.payload.new_status = "OFFER_APPROVED"
  BY <1>3 DEF LogHeader, LogPayload
<1>. QED
  BY <1>2, <1>4 DEF Approves

\* A step that leaves the offers alone, and the transactions of all but one session.
LEMMA OthersStayGrounded ==
  ASSUME LetterInv, NEW s \in Session, TxnInv', KeysApart', UNCHANGED offers,
         \A o : Approves(ledger, o) => Approves(ledger', o),
         \A t \in Session \ {s} : txn'[t] = txn[t] /\ pending'[t] = pending[t],
         Grounded(s)'
  PROVE  LetterInv'
<1>1. ASSUME NEW t \in Session PROVE Grounded(t)'
  BY DEF LetterInv, Grounded
<1>2. ASSUME NEW o \in Offer PROVE OfferInv(o)'
  BY DEF LetterInv, OfferInv
<1>. QED
  BY <1>1, <1>2 DEF LetterInv

LEMMA OthersOfTxn ==
  ASSUME TxnInv, NEW s \in Session, NEW t, txn' = [txn EXCEPT ![s] = t]
  PROVE  txn'[s] = t /\ \A u \in Session \ {s} : txn'[u] = txn[u]
BY DEF TxnInv

\* A session that writes no offer owes nothing.
LEMMA IdleGrounded ==
  ASSUME TxnInv, NEW s \in Session, NEW t, t.pc \notin Writing, txn' = [txn EXCEPT ![s] = t]
  PROVE  Grounded(s)'
<1>1. txn'[s] = t
  BY OthersOfTxn
<1>2. ~ (txn'[s].pc \in Writing)
  BY <1>1
<1>. QED
  BY <1>2 DEF Grounded, Writing

LEMMA IdlePc == Idle.pc \notin Writing
BY DEF Idle, Writing

\* A request begins.
LEMMA BeginKeepsLetters ==
  ASSUME LetterInv, NEW s \in Session, BeginRequest(s)
  PROVE  LetterInv'
<1>1. UNCHANGED <<offers, ledger, pending, head>>
  BY DEF BeginRequest, BeginCreate, BeginAudit, BeginApprove, BeginExtend, BeginDecision, tables
<1>2. TxnInv' /\ KeysApart'
  BY <1>1, BeginKeepsTxn DEF LetterInv, KeysApart
<1>3. ASSUME NEW o \in Offer, NEW n \in Number,
             txn' = [txn EXCEPT ![s] = [ pc |-> "insert", offer |-> o, number |-> n ]]
      PROVE  LetterInv'
  <2>. DEFINE t == [ pc |-> "insert", offer |-> o, number |-> n ]
  <2>1. t.pc \notin Writing
    BY DEF Writing
  <2>. HIDE DEF t
  <2>2. Grounded(s)'
    BY <1>3, <2>1, IdleGrounded DEF LetterInv, t
  <2>. QED
    BY <1>1, <1>2, <1>3, <2>2, OthersOfTxn, OthersStayGrounded DEF LetterInv
<1>4. ASSUME NEW o \in Offer, NEW action \in SealedAction \cup {"OFFER_EXTENDED", "DECISION"},
             NEW to \in OfferStatus, Exists(o),
             action \in SealedAction => to \in AgentDecisions,
             action \notin SealedAction => offers[o].status \in {"OFFER_APPROVED", "OFFER_EXTENDED"},
             txn' = [txn EXCEPT ![s] = Decide(OfferLog(o, action, offers[o].status, to))]
      PROVE  LetterInv'
  <2>1. txn'[s] = Decide(OfferLog(o, action, offers[o].status, to))
    BY <1>4, OthersOfTxn DEF LetterInv
  <2>2. /\ txn'[s].pc = "flush" /\ txn'[s].row.entity = o
        /\ txn'[s].row.action = action /\ txn'[s].row.new_status = to
    BY <2>1 DEF Decide, OfferLog
  <2>3. action \notin SealedAction => Approves(ledger, o)
    BY <1>4 DEF LetterInv, OfferInv, Exists, Answered
  <2>4. Grounded(s)'
    BY <1>1, <1>4, <2>2, <2>3 DEF Grounded, Exists, Approves
  <2>. QED
    BY <1>1, <1>2, <1>4, <2>4, OthersOfTxn, OthersStayGrounded DEF LetterInv
<1>. QED
  BY <1>3, <1>4, BeginWrites

\* A request ends without a commit.
LEMMA EndKeepsLetters ==
  ASSUME LetterInv, NEW s \in Session, LedgerConflict(s) \/ Abort(s)
  PROVE  LetterInv'
<1>1. txn' = [txn EXCEPT ![s] = Idle] /\ UNCHANGED offers
  BY DEF LedgerConflict, Abort, tables
<1>2. TxnInv'
  BY <1>1, IdleWellFormed, NewTxn DEF LetterInv
<1>3. Ledger!InsertConflict(s) \/ Ledger!Rollback(s)
  BY DEF LedgerConflict, Abort
<1>4. Grounded(s)'
  BY <1>1, IdlePc, IdleGrounded DEF LetterInv
<1>. QED
  BY <1>1, <1>2, <1>3, <1>4, LedgerGrows, OthersOfTxn, OthersStayGrounded DEF LetterInv

\* The statements between.
LEMMA MoveKeepsLetters ==
  ASSUME LetterInv, NEW s \in Session, Flush(s) \/ ReadLedgerHead(s) \/ InsertLedgerBlock(s)
  PROVE  LetterInv'
<1>. DEFINE row == txn[s].row
<1>1. txn[s].pc \in Writing /\ WellFormed(txn[s]) /\ Grounded(s) /\ TxnInv /\ KeysApart
  BY DEF LetterInv, TxnInv, Flush, ReadLedgerHead, InsertLedgerBlock, Writing
<1>2. UNCHANGED offers
  BY DEF Flush, ReadLedgerHead, InsertLedgerBlock, tables
<1>3. PICK pc \in {"ledger", "block", "commit"} :
        /\ txn' = [txn EXCEPT ![s].pc = pc]
        /\ pc # "commit" => row.action \in SealedAction
        /\ pc = "commit" => row.action \notin SealedAction \/ InsertLedgerBlock(s)
  <2>1. CASE Flush(s)
    BY <2>1 DEF Flush
  <2>2. CASE ReadLedgerHead(s)
    BY <1>1, <2>2 DEF ReadLedgerHead, WellFormed
  <2>3. CASE InsertLedgerBlock(s)
    BY <2>3 DEF InsertLedgerBlock
  <2>. QED
    BY <2>1, <2>2, <2>3
<1>4. TxnInv' /\ txn'[s] = [ pc |-> pc, row |-> row ]
  BY <1>1, <1>3, MovesOn
<1>5. /\ KeysApart'
      /\ \A o : Approves(ledger, o) => Approves(ledger', o)
      /\ \A t \in Session \ {s} : pending'[t] = pending[t]
  BY <1>1, LedgerGrows DEF Flush, ReadLedgerHead, InsertLedgerBlock
<1>6. \A t \in Session \ {s} : txn'[t] = txn[t]
  BY <1>1, <1>3 DEF TxnInv
<1>7. ASSUME pc = "commit", row.action \in SealedAction, row.new_status = "OFFER_APPROVED"
      PROVE  Approves(pending'[s], row.entity)
  BY <1>1, <1>3, <1>7, InsertApproves DEF InsertLedgerBlock
<1>8. txn'[s].pc = pc /\ txn'[s].row = row
  BY <1>4
<1>9. /\ offers[row.entity] # NoOffer
      /\ row.action \notin SealedAction => Approves(ledger', row.entity)
  BY <1>1, <1>5 DEF Grounded
<1>10. Grounded(s)'
  BY <1>2, <1>7, <1>8, <1>9 DEF Grounded
<1>. QED
  BY <1>2, <1>4, <1>5, <1>6, <1>10, OthersStayGrounded

\* The two statements that write an offer.
LEMMA WriteKeepsLetters ==
  ASSUME LetterInv, NEW s \in Session, NEW o, NEW r, r # NoOffer,
         r = [ status |-> r.status, number |-> r.number ],
         r.status \in Answered => Approves(ledger', o),
         offers' = [offers EXCEPT ![o] = r],
         txn' = [txn EXCEPT ![s] = Idle],
         KeysApart', \A x : Approves(ledger, x) => Approves(ledger', x),
         \A t \in Session \ {s} : pending'[t] = pending[t]
  PROVE  LetterInv'
<1>1. TxnInv'
  BY IdleWellFormed, NewTxn DEF LetterInv
<1>2. offers' = [x \in Offer |-> offers'[x]]
  BY DEF LetterInv
<1>3. \A x \in Offer : offers'[x] = IF x = o THEN r ELSE offers[x]
  BY DEF LetterInv
<1>4. ASSUME NEW x \in Offer PROVE OfferInv(x)'
  BY <1>3 DEF LetterInv, OfferInv
<1>5. ASSUME NEW t \in Session PROVE Grounded(t)'
  <2>1. CASE t = s
    BY <2>1, IdlePc, IdleGrounded DEF LetterInv
  <2>2. CASE t # s
    <3>1. txn'[t] = txn[t] /\ pending'[t] = pending[t] /\ Grounded(t)
      BY <2>2, OthersOfTxn DEF LetterInv
    <3>2. CASE txn[t].pc \notin Writing
      BY <3>1, <3>2 DEF Grounded
    <3>3. CASE txn[t].pc \in Writing
      <4>1. txn[t].row.entity \in Offer
        BY <3>3 DEF LetterInv, TxnInv, WellFormed, Row
      <4>2. offers'[txn[t].row.entity] # NoOffer
        BY <1>3, <3>1, <3>3, <4>1 DEF Grounded
      <4>. QED
        BY <3>1, <3>3, <4>2 DEF Grounded
    <3>. QED
      BY <3>2, <3>3
  <2>. QED
    BY <2>1, <2>2
<1>. QED
  BY <1>1, <1>2, <1>4, <1>5 DEF LetterInv

LEMMA InsertOfferKeepsLetters ==
  ASSUME LetterInv, NEW s \in Session, InsertOffer(s)
  PROVE  LetterInv'
<1>1. /\ txn' = [txn EXCEPT ![s] = Idle]
      /\ UNCHANGED <<ledger, pending, head>>
  BY DEF InsertOffer
<1>2. /\ KeysApart'
      /\ \A x : Approves(ledger, x) => Approves(ledger', x)
      /\ \A t \in Session \ {s} : pending'[t] = pending[t]
  BY <1>1, LedgerGrows DEF LetterInv
<1>3. CASE UNCHANGED offers
  <2>1. TxnInv' /\ Grounded(s)'
    BY <1>1, IdleWellFormed, NewTxn, IdlePc, IdleGrounded DEF LetterInv
  <2>. QED
    BY <1>1, <1>2, <1>3, <2>1, OthersOfTxn, OthersStayGrounded DEF LetterInv
<1>4. CASE offers' = [offers EXCEPT ![txn[s].offer] = Draft(txn[s].number)]
  <2>. DEFINE r == Draft(txn[s].number)
  <2>1. /\ r # NoOffer /\ r = [ status |-> r.status, number |-> r.number ]
        /\ r.status \notin Answered
    BY DEF Draft, NoOffer, Answered, Terminal
  <2>. HIDE DEF r
  <2>2. offers' = [offers EXCEPT ![txn[s].offer] = r]
    BY <1>4 DEF r
  <2>. QED
    BY <1>1, <1>2, <2>1, <2>2, WriteKeepsLetters
<1>. QED
  BY <1>3, <1>4 DEF InsertOffer

LEMMA CommitKeepsLetters ==
  ASSUME LetterInv, NEW s \in Session, CommitDecision(s)
  PROVE  LetterInv'
<1>. DEFINE row == txn[s].row
            r == [offers[row.entity] EXCEPT !.status = row.new_status]
<1>1. /\ txn[s].pc = "commit" /\ WellFormed(txn[s]) /\ Grounded(s) /\ txn[s].pc \in Writing
      /\ KeysApart
  BY DEF LetterInv, TxnInv, CommitDecision, Writing
<1>2. row \in Row
  BY <1>1 DEF WellFormed
<1>3. OfferInv(row.entity) /\ offers[row.entity] # NoOffer
  BY <1>1, <1>2 DEF LetterInv, Grounded, Row
<1>4. r = [ status |-> row.new_status, number |-> offers[row.entity].number ]
  BY <1>3 DEF OfferInv
<1>5. r # NoOffer /\ r.status = row.new_status /\ r = [ status |-> r.status, number |-> r.number ]
  BY <1>2, <1>4 DEF Row, OfferStatus, NoOffer
<1>6. /\ KeysApart'
      /\ \A x : Approves(ledger, x) => Approves(ledger', x)
      /\ \A t \in Session \ {s} : pending'[t] = pending[t]
  BY <1>1, LedgerGrows DEF CommitDecision
<1>7. ASSUME row.new_status \in Answered PROVE Approves(ledger', row.entity)
  <2>1. CASE row.action \notin SealedAction
    BY <1>1, <1>6, <2>1 DEF Grounded
  <2>2. CASE row.action \in SealedAction
    <3>1. row.new_status = "OFFER_APPROVED"
      BY <1>1, <1>7, <2>2 DEF WellFormed, AgentDecisions, Answered, Terminal
    <3>2. Approves(pending[s], row.entity)
      BY <1>1, <2>2, <3>1 DEF Grounded
    <3>. QED
      BY <3>2, CommitPublishes DEF CommitDecision
  <2>. QED
    BY <2>1, <2>2
<1>8. /\ offers' = [offers EXCEPT ![row.entity] = r]
      /\ txn' = [txn EXCEPT ![s] = Idle]
  BY DEF CommitDecision
<1>. HIDE DEF r, row
<1>. QED
  BY <1>5, <1>6, <1>7, <1>8, WriteKeepsLetters

LEMMA LetterInvStep == LetterInv /\ [Next]_vars => LetterInv'
<1>. SUFFICES ASSUME LetterInv, [Next]_vars PROVE LetterInv'
  OBVIOUS
<1>1. CASE Next
  <2>1. PICK s \in Session :
          \/ BeginRequest(s) \/ InsertOffer(s) \/ Flush(s)
          \/ ReadLedgerHead(s) \/ InsertLedgerBlock(s) \/ LedgerConflict(s)
          \/ CommitDecision(s) \/ Abort(s)
    BY <1>1 DEF Next
  <2>. QED
    BY <2>1, BeginKeepsLetters, InsertOfferKeepsLetters, MoveKeepsLetters, EndKeepsLetters,
       CommitKeepsLetters
<1>2. CASE UNCHANGED vars
  BY <1>2 DEF vars, LetterInv, TxnInv, WellFormed, KeysApart, Grounded, OfferInv, Approves
<1>. QED
  BY <1>1, <1>2

\* Letters go out, and candidates answer, only for offers the ledger holds an approval
\* of, for any number of requests at once: what a request read before its flush may be
\* out of date, but an approval once committed stays in the ledger.
THEOREM LettersApproved == Spec => []NoLetterWithoutApproval
<1>1. LetterInv => NoLetterWithoutApproval
  BY DEF LetterInv, OfferInv, NoLetterWithoutApproval, Exists, Approves, Answered
<1>. QED
  BY <1>1, LetterInvInit, LetterInvStep, PTL DEF Spec

------------------------------------------------------------------------------
(* What is proved of SoxLedger holds of the ledger the offers' requests    *)
(* write: its proofs, instantiated with these rows.                        *)

Proved == INSTANCE SoxLedgerProofs WITH
  Header <- [ entity : Offer, action : SealedAction ],
  Payload <- [ previous_status : OfferStatus, new_status : AgentDecisions ]

\* The instance the proofs come with and the one OfferLifecycle uses say the same.
LEMMA SameInit == Ledger!LedgerInit <=> Proved!LedgerInit
BY DEF Ledger!LedgerInit, Proved!LedgerInit, Ledger!NoRows, Proved!NoRows,
   Ledger!NoHead, Proved!NoHead, Ledger!GENESIS_PREVIOUS_HASH,
   Proved!GENESIS_PREVIOUS_HASH

LEMMA SameRead == ASSUME NEW s \in Session PROVE Ledger!ReadHead(s) <=> Proved!ReadHead(s)
<1>1. Ledger!Visible(s) = Proved!Visible(s)
  BY DEF Ledger!Visible, Proved!Visible, Ledger!Merge, Proved!Merge
<1>2. Ledger!LastSeq(Proved!Visible(s)) = Proved!LastSeq(Proved!Visible(s))
  BY DEF Ledger!LastSeq, Proved!LastSeq, Ledger!Max, Proved!Max
<1>3. Ledger!NextLink(Proved!Visible(s)) = Proved!NextLink(Proved!Visible(s))
  BY <1>2 DEF Ledger!NextLink, Proved!NextLink, Ledger!GENESIS_PREVIOUS_HASH,
     Proved!GENESIS_PREVIOUS_HASH
<1>4. Ledger!NoHead = Proved!NoHead
  BY DEF Ledger!NoHead, Proved!NoHead, Ledger!GENESIS_PREVIOUS_HASH,
     Proved!GENESIS_PREVIOUS_HASH
<1>. QED
  BY <1>1, <1>2, <1>3, <1>4 DEF Ledger!ReadHead, Proved!ReadHead

LEMMA SameInsert ==
  ASSUME NEW s \in Session, NEW h, NEW p
  PROVE  Ledger!InsertBlock(s, h, p) <=> Proved!InsertBlock(s, h, p)
BY DEF Ledger!InsertBlock, Proved!InsertBlock, Ledger!KeyHolder, Proved!KeyHolder,
   Ledger!Merge, Proved!Merge, Ledger!Seal, Proved!Seal, Ledger!HashPayload,
   Proved!HashPayload, Ledger!ComputeBlockHash, Proved!ComputeBlockHash,
   Ledger!SignBlock, Proved!SignBlock, Ledger!NoHead, Proved!NoHead,
   Ledger!GENESIS_PREVIOUS_HASH, Proved!GENESIS_PREVIOUS_HASH

LEMMA SameRollback == ASSUME NEW s \in Session PROVE Ledger!Rollback(s) <=> Proved!Rollback(s)
BY DEF Ledger!Rollback, Proved!Rollback, Ledger!NoRows, Proved!NoRows,
   Ledger!NoHead, Proved!NoHead, Ledger!GENESIS_PREVIOUS_HASH, Proved!GENESIS_PREVIOUS_HASH

LEMMA SameConflict ==
  ASSUME NEW s \in Session
  PROVE  Ledger!InsertConflict(s) <=> Proved!InsertConflict(s)
BY SameRollback DEF Ledger!InsertConflict, Proved!InsertConflict, Ledger!NoHead,
   Proved!NoHead, Ledger!GENESIS_PREVIOUS_HASH, Proved!GENESIS_PREVIOUS_HASH

LEMMA SameCommit == ASSUME NEW s \in Session PROVE Ledger!Commit(s) <=> Proved!Commit(s)
BY DEF Ledger!Commit, Proved!Commit, Ledger!NoRows, Proved!NoRows, Ledger!Visible,
   Proved!Visible, Ledger!Merge, Proved!Merge, Ledger!NoHead, Proved!NoHead,
   Ledger!GENESIS_PREVIOUS_HASH, Proved!GENESIS_PREVIOUS_HASH

LEMMA SameNext == [Ledger!LedgerNext]_(Ledger!ledgerVars) <=> [Proved!LedgerNext]_(Proved!ledgerVars)
BY SameRead, SameInsert, SameRollback, SameConflict, SameCommit
   DEF Ledger!LedgerNext, Proved!LedgerNext, Ledger!ledgerVars, Proved!ledgerVars

LEMMA SameSecure == Ledger!ChainSecure <=> Proved!ChainSecure
BY DEF Ledger!ChainSecure, Proved!ChainSecure, Ledger!VerifyChain, Proved!VerifyChain,
   Ledger!Checked, Proved!Checked, Ledger!Intact, Proved!Intact,
   Ledger!GENESIS_PREVIOUS_HASH, Proved!GENESIS_PREVIOUS_HASH, Ledger!HashPayload,
   Proved!HashPayload, Ledger!ComputeBlockHash, Proved!ComputeBlockHash,
   Ledger!SignBlock, Proved!SignBlock

LEMMA SameType == Ledger!LedgerTypeOK <=> Proved!LedgerTypeOK
BY DEF Ledger!LedgerTypeOK, Proved!LedgerTypeOK

LEMMA SameCardinality == ASSUME NEW S PROVE Cardinality(S) = Proved!Cardinality(S)
BY DEF Cardinality, Proved!Cardinality

LEMMA OfferLedgerIsSox == Spec => Proved!LedgerSpec
BY OfferRequestsUseLedger, SameInit, SameNext, PTL DEF OffersUseLedger, Ledger!LedgerSpec,
   Proved!LedgerSpec

\* verify_chain finds the ledger secure at all times, with any number of offers and of
\* requests that conflict or are aborted.
THEOREM OfferChainSecure == Spec => []Ledger!ChainSecure
<1>1. Proved!LedgerSpec => []Proved!ChainSecure
  BY OfferAssumption, Proved!ChainAlwaysSecure
<1>. QED
  BY <1>1, OfferLedgerIsSox, SameSecure, PTL

------------------------------------------------------------------------------
(* The offers, their history and the ledger.                               *)

Last == Ledger!LastSeq(ledger)

\* A row of the history: a legal decision, taken from a status it may be taken from.
RowInv(row) ==
  /\ row \in Row
  /\ row.new_status \in Written
  /\ row.previous_status \notin Terminal

\* A request that has sealed its audit or approval and not committed it.
Carries(s) == txn[s].pc = "commit" /\ txn[s].row.action \in SealedAction

\* Only such a request has an uncommitted block: one, of its own row, next in number.
BlocksInv(s) ==
  IF Carries(s)
  THEN /\ DOMAIN pending[s] = {Last + 1}
       /\ pending[s][Last + 1].header = LogHeader(txn[s].row)
       /\ pending[s][Last + 1].payload = LogPayload(txn[s].row)
  ELSE DOMAIN pending[s] = {}

\* A create is of an offer nobody else has or creates.
Creating(s) ==
  txn[s].pc = "insert" =>
    /\ txn[s].offer \in Offer /\ txn[s].number \in Number
    /\ offers[txn[s].offer] = NoOffer
    /\ \A t \in Session \ {s} : txn[t].pc = "insert" => txn[t].offer # txn[s].offer

SessionInv(s) ==
  /\ txn[s].pc \in Writing => RowInv(txn[s].row)
  /\ BlocksInv(s)
  /\ Creating(s)

StoredInv(o) ==
  offers[o] # NoOffer =>
    /\ offers[o].status \in {"OFFER_DRAFT"} \cup Written
    /\ offers[o].number \in Number
    /\ \A p \in Offer \ {o} : offers[p] # NoOffer => offers[p].number # offers[o].number

LogInv ==
  /\ auditLog \in Seq(Row)
  /\ \A k \in DOMAIN auditLog : /\ RowInv(auditLog[k])
                                /\ offers[auditLog[k].entity] # NoOffer

HistoryInv ==
  /\ LogInv
  /\ \A o \in Offer : StoredInv(o)
  /\ LogsTellStatus
  /\ \A s \in Session : SessionInv(s)

BlockFacts ==
  /\ Last \in Nat
  /\ DOMAIN ledger = 1..Last
  /\ \A s, t \in Session : DOMAIN pending[s] # {} /\ DOMAIN pending[t] # {} => s = t

LEMMA SameLast == ASSUME NEW rows PROVE Ledger!LastSeq(rows) = Proved!LastSeq(rows)
BY DEF Ledger!LastSeq, Proved!LastSeq, Ledger!Max, Proved!Max

LEMMA BlocksOfChain == Proved!ChainInv => BlockFacts
BY OfferAssumption, Proved!BlocksOfChain, SameLast DEF Last, BlockFacts, Proved!BlockFacts

LEMMA HistoryInvInit == ASSUME Init, BlockFacts PROVE HistoryInv
<1>1. /\ offers = [o \in Offer |-> NoOffer] /\ auditLog = <<>>
      /\ \A s \in Session : txn[s] = Idle /\ DOMAIN pending[s] = {}
      /\ DOMAIN ledger = {}
  BY DEF Init, Ledger!LedgerInit, Ledger!NoRows
<1>2. LogInv
  BY <1>1 DEF LogInv
<1>3. \A o \in Offer : StoredInv(o)
  BY <1>1 DEF StoredInv
<1>4. \A s \in Session : SessionInv(s)
  BY <1>1 DEF SessionInv, BlocksInv, Carries, Creating, Idle, Writing
<1>5. LogsTellStatus
  <2>1. SealedRows = {} /\ \A o \in Offer : RowsOf(o) = {}
    BY <1>1 DEF SealedRows, RowsOf
  <2>2. Cardinality({}) = 0
    BY FS_EmptySet
  <2>3. Last = 0
    BY <1>1 DEF Last, Ledger!LastSeq
  <2>. QED
    BY <1>1, <2>1, <2>2, <2>3 DEF LogsTellStatus, Exists, NoOffer, Last
<1>. QED
  BY <1>2, <1>3, <1>4, <1>5 DEF HistoryInv

------------------------------------------------------------------------------
(* What stays true when the tables, or a session, do not move.             *)

LEMMA TablesStay ==
  ASSUME LogInv, \A o \in Offer : StoredInv(o), LogsTellStatus,
         UNCHANGED <<offers, auditLog, ledger>>
  PROVE  LogInv' /\ (\A o \in Offer : StoredInv(o)') /\ LogsTellStatus'
<1>1. LogInv'
  BY DEF LogInv, RowInv
<1>2. \A o \in Offer : StoredInv(o)'
  BY DEF StoredInv
<1>3. LogsTellStatus'
  <2>1. /\ \A o \in Offer : RowsOf(o)' = RowsOf(o) /\ (Exists(o)' <=> Exists(o))
        /\ SealedRows' = SealedRows /\ Ledger!LastSeq(ledger)' = Ledger!LastSeq(ledger)
    BY DEF RowsOf, SealedRows, Exists, NoOffer
  <2>2. \A k \in SealedRows : Place(k)' = Place(k)
    BY <2>1 DEF Place
  <2>. QED
    BY <2>1, <2>2 DEF LogsTellStatus, LogHeader, LogPayload
<1>. QED
  BY <1>1, <1>2, <1>3

\* A session that does not move keeps its blocks where they were, since another's
\* commit adds to the ledger only when this one has none.
LEMMA OtherBlocks ==
  ASSUME NEW u \in Session, BlocksInv(u), txn'[u] = txn[u], pending'[u] = pending[u],
         Last' = Last \/ DOMAIN pending[u] = {}
  PROVE  BlocksInv(u)'
<1>1. Carries(u)' <=> Carries(u)
  BY DEF Carries
<1>2. CASE ~ Carries(u)
  BY <1>1, <1>2 DEF BlocksInv
<1>3. CASE Carries(u)
  <2>1. Last' = Last
    BY <1>3 DEF BlocksInv
  <2>. QED
    BY <1>1, <1>3, <2>1 DEF BlocksInv, LogHeader, LogPayload
<1>. QED
  BY <1>2, <1>3

\* One session moves, to a transaction that creates nothing.
LEMMA SessionsStay ==
  ASSUME \A u \in Session : SessionInv(u), NEW s \in Session,
         txn'[s].pc # "insert",
         txn'[s].pc \in Writing => RowInv(txn'[s].row),
         BlocksInv(s)',
         \A u \in Session \ {s} : txn'[u] = txn[u] /\ pending'[u] = pending[u],
         Last' = Last \/ \A u \in Session \ {s} : DOMAIN pending[u] = {},
         \A u \in Session \ {s} : txn[u].pc = "insert" =>
           (offers[txn[u].offer] = NoOffer => offers'[txn[u].offer] = NoOffer)
  PROVE  \A u \in Session : SessionInv(u)'
<1>1. ASSUME NEW u \in Session \ {s} PROVE SessionInv(u)'
  <2>1. BlocksInv(u)'
    BY <1>1, OtherBlocks DEF SessionInv
  <2>2. txn'[u].pc \in Writing => RowInv(txn'[u].row)
    BY DEF SessionInv
  <2>3. Creating(u)'
    <3>1. SUFFICES ASSUME txn[u].pc = "insert" PROVE Creating(u)'
      BY DEF Creating
    <3>2. /\ txn'[u].offer \in Offer /\ txn'[u].number \in Number
          /\ offers'[txn'[u].offer] = NoOffer
      BY <3>1 DEF SessionInv, Creating
    <3>3. \A t \in Session \ {u} : txn'[t].pc = "insert" => txn'[t].offer # txn'[u].offer
      BY <3>1 DEF SessionInv, Creating
    <3>. QED
      BY <3>2, <3>3 DEF Creating, NoOffer
  <2>. QED
    BY <2>1, <2>2, <2>3 DEF SessionInv, RowInv
<1>2. SessionInv(s)'
  BY DEF SessionInv, Creating, RowInv
<1>. QED
  BY <1>1, <1>2

------------------------------------------------------------------------------
(* The steps.                                                              *)

LEMMA IdleCarriesNothing ==
  ASSUME HistoryInv, NEW s \in Session, ~ Carries(s)
  PROVE  DOMAIN pending[s] = {}
BY DEF HistoryInv, SessionInv, BlocksInv

\* A create begins: nobody else has the offer.
LEMMA CreateKeepsSessions ==
  ASSUME TxnInv, HistoryInv, NEW s \in Session, ~ Carries(s),
         NEW o \in Offer, NEW n \in Number, ~ Exists(o),
         \A t \in Session : txn[t].pc = "insert" => txn[t].offer # o,
         txn' = [txn EXCEPT ![s] = [ pc |-> "insert", offer |-> o, number |-> n ]],
         UNCHANGED <<offers, auditLog, ledger, pending>>
  PROVE  \A u \in Session : SessionInv(u)'
<1>1. /\ txn'[s].pc = "insert" /\ txn'[s].offer = o /\ txn'[s].number = n
      /\ \A u \in Session \ {s} : txn'[u] = txn[u]
  <2>. DEFINE t == [ pc |-> "insert", offer |-> o, number |-> n ]
  <2>1. t.pc = "insert" /\ t.offer = o /\ t.number = n
    OBVIOUS
  <2>2. txn' = [txn EXCEPT ![s] = t]
    OBVIOUS
  <2>. HIDE DEF t
  <2>. QED
    BY <2>1, <2>2, OthersOfTxn
<1>2. Last' = Last
  BY DEF Last
<1>3. ASSUME NEW u \in Session \ {s} PROVE SessionInv(u)'
  <2>1. BlocksInv(u)'
    BY <1>1, <1>2, OtherBlocks DEF HistoryInv, SessionInv
  <2>2. txn'[u].pc \in Writing => RowInv(txn'[u].row)
    BY <1>1 DEF HistoryInv, SessionInv
  <2>3. Creating(u)'
    <3>1. Creating(u)
      BY DEF HistoryInv, SessionInv
    <3>2. ASSUME NEW t \in Session \ {u}, txn[u].pc = "insert", txn'[t].pc = "insert"
          PROVE  txn'[t].offer # txn[u].offer
      BY <1>1, <3>1, <3>2 DEF Creating
    <3>. QED
      BY <1>1, <3>1, <3>2 DEF Creating, NoOffer
  <2>. QED
    BY <2>1, <2>2, <2>3 DEF SessionInv, RowInv
<1>4. SessionInv(s)'
  <2>1. DOMAIN pending'[s] = {} /\ ~ Carries(s)'
    BY <1>1, IdleCarriesNothing DEF Carries
  <2>2. Creating(s)'
    BY <1>1 DEF Creating, Exists, NoOffer
  <2>3. ~ (txn'[s].pc \in Writing)
    BY <1>1 DEF Writing
  <2>. QED
    BY <2>1, <2>2, <2>3 DEF SessionInv, BlocksInv, RowInv, Writing
<1>. QED
  BY <1>3, <1>4

\* Another request begins: its row is a legal one.
LEMMA DecideKeepsSessions ==
  ASSUME TxnInv, HistoryInv, NEW s \in Session, ~ Carries(s),
         NEW row, RowInv(row), txn' = [txn EXCEPT ![s] = Decide(row)],
         UNCHANGED <<offers, auditLog, ledger, pending>>
  PROVE  \A u \in Session : SessionInv(u)'
<1>1. /\ txn'[s].pc = "flush" /\ txn'[s].row = row
      /\ \A u \in Session \ {s} : txn'[u] = txn[u]
  <2>1. Decide(row).pc = "flush" /\ Decide(row).row = row
    BY DEF Decide
  <2>. QED
    BY <2>1, OthersOfTxn
<1>2. Last' = Last
  BY DEF Last
<1>3. BlocksInv(s)'
  <2>1. DOMAIN pending'[s] = {} /\ ~ Carries(s)'
    BY <1>1, IdleCarriesNothing DEF Carries
  <2>. QED
    BY <2>1 DEF BlocksInv
<1>. QED
  BY <1>1, <1>2, <1>3, SessionsStay DEF HistoryInv

LEMMA BeginKeepsHistory ==
  ASSUME TxnInv, HistoryInv, NEW s \in Session, BeginRequest(s)
  PROVE  HistoryInv'
<1>1. UNCHANGED <<offers, auditLog, ledger, pending>> /\ ~ Carries(s)
  BY DEF BeginRequest, BeginCreate, BeginAudit, BeginApprove, BeginExtend, BeginDecision,
     tables, Active, Carries
<1>2. \A u \in Session : SessionInv(u)'
  <2>1. ASSUME NEW o \in Offer, NEW n \in Number, ~ Exists(o),
               \A t \in Session : txn[t].pc = "insert" => txn[t].offer # o,
               txn' = [txn EXCEPT ![s] = [ pc |-> "insert", offer |-> o, number |-> n ]]
        PROVE  \A u \in Session : SessionInv(u)'
    BY <1>1, <2>1, CreateKeepsSessions
  <2>2. ASSUME NEW o \in Offer, NEW action \in SealedAction \cup {"OFFER_EXTENDED", "DECISION"},
               NEW to \in OfferStatus,
               offers[o].status \in OfferStatus, offers[o].status \notin Terminal,
               to \in Written,
               txn' = [txn EXCEPT ![s] = Decide(OfferLog(o, action, offers[o].status, to))]
        PROVE  \A u \in Session : SessionInv(u)'
    <3>. DEFINE row == OfferLog(o, action, offers[o].status, to)
    <3>1. RowInv(row)
      BY <2>2, RowOfLog DEF RowInv, OfferLog
    <3>2. txn' = [txn EXCEPT ![s] = Decide(row)]
      BY <2>2
    <3>. HIDE DEF row
    <3>. QED
      BY <1>1, <3>1, <3>2, DecideKeepsSessions
  <2>. QED
    BY <2>1, <2>2, BeginWrites
<1>. QED
  BY <1>1, <1>2, TablesStay DEF HistoryInv

\* A request ends without a commit.
LEMMA EndKeepsHistory ==
  ASSUME LetterInv, HistoryInv, NEW s \in Session, LedgerConflict(s) \/ Abort(s)
  PROVE  HistoryInv'
<1>1. /\ txn' = [txn EXCEPT ![s] = Idle]
      /\ Ledger!Rollback(s)
      /\ UNCHANGED <<offers, auditLog, ledger>>
  BY DEF LedgerConflict, Abort, tables, Ledger!InsertConflict, Ledger!Rollback
<1>2. DOMAIN pending'[s] = {} /\ \A u \in Session \ {s} : pending'[u] = pending[u]
  BY <1>1 DEF Ledger!Rollback, Ledger!NoRows, LetterInv, KeysApart
<1>3. txn'[s] = Idle /\ \A u \in Session \ {s} : txn'[u] = txn[u]
  BY <1>1, OthersOfTxn DEF LetterInv
<1>4. BlocksInv(s)' /\ Last' = Last
  <2>1. ~ Carries(s)'
    BY <1>3 DEF Carries, Idle
  <2>. QED
    BY <1>1, <1>2, <2>1 DEF BlocksInv, Last
<1>5. txn'[s].pc # "insert" /\ txn'[s].pc \notin Writing
  BY <1>3 DEF Idle, Writing
<1>6. \A u \in Session : SessionInv(u)'
  BY <1>1, <1>2, <1>3, <1>4, <1>5, SessionsStay DEF HistoryInv
<1>. QED
  BY <1>1, <1>6, TablesStay DEF HistoryInv

\* The flush, the read of the head and the insert of the block.
LEMMA MoveKeepsHistory ==
  ASSUME LetterInv, Proved!ChainInv, HistoryInv, NEW s \in Session,
         Flush(s) \/ ReadLedgerHead(s) \/ InsertLedgerBlock(s)
  PROVE  HistoryInv'
<1>. DEFINE row == txn[s].row
<1>1. /\ txn[s].pc \in Writing /\ WellFormed(txn[s]) /\ TxnInv /\ KeysApart
      /\ ~ Carries(s)
  BY DEF LetterInv, TxnInv, Flush, ReadLedgerHead, InsertLedgerBlock, Writing, Carries
<1>2. UNCHANGED <<offers, auditLog, ledger>>
  BY DEF Flush, ReadLedgerHead, InsertLedgerBlock, tables, Ledger!ReadHead, Ledger!InsertBlock
<1>3. PICK pc \in {"ledger", "block", "commit"} :
        /\ txn' = [txn EXCEPT ![s].pc = pc]
        /\ pc # "commit" => row.action \in SealedAction
        /\ pc = "commit" =>
             \/ row.action \notin SealedAction /\ UNCHANGED pending
             \/ InsertLedgerBlock(s)
        /\ pc # "commit" => UNCHANGED pending
  <2>1. CASE Flush(s)
    BY <2>1 DEF Flush
  <2>2. CASE ReadLedgerHead(s)
    BY <1>1, <2>2 DEF ReadLedgerHead, WellFormed, Ledger!ReadHead
  <2>3. CASE InsertLedgerBlock(s)
    BY <2>3 DEF InsertLedgerBlock
  <2>. QED
    BY <2>1, <2>2, <2>3
<1>4. txn'[s] = [ pc |-> pc, row |-> row ]
  BY <1>1, <1>3, MovesOn
<1>5. txn'[s].pc = pc /\ txn'[s].row = row /\ \A u \in Session \ {s} : txn'[u] = txn[u]
  BY <1>1, <1>3, <1>4 DEF TxnInv
<1>6. Last \in Nat /\ Last' = Last /\ DOMAIN pending[s] = {}
  BY <1>1, <1>2, BlocksOfChain, IdleCarriesNothing DEF BlockFacts, Last
<1>7. BlocksInv(s)' /\ \A u \in Session \ {s} : pending'[u] = pending[u]
  <2>1. CASE UNCHANGED pending /\ (pc # "commit" \/ row.action \notin SealedAction)
    <3>1. ~ Carries(s)'
      BY <1>5, <2>1 DEF Carries
    <3>. QED
      BY <1>6, <2>1, <3>1 DEF BlocksInv
  <2>2. CASE InsertLedgerBlock(s)
    <3>1. Proved!InsertBlock(s, LogHeader(row), LogPayload(row)) /\ pc = "commit"
      <4>1. txn'[s] = [txn[s] EXCEPT !.pc = "commit"]
        BY <1>1, <2>2 DEF InsertLedgerBlock, TxnInv
      <4>2. txn'[s].pc = "commit"
        BY <1>1, <4>1 DEF WellFormed
      <4>. QED
        BY <1>5, <2>2, <4>2, SameInsert DEF InsertLedgerBlock
    <3>2. Last = Proved!LastSeq(ledger)
      BY SameLast DEF Last
    <3>3. (Last + 1)..(Last + 0) = {} /\ (Last + 1)..(Last + 0 + 1) = {Last + 1}
          /\ Last + 0 + 1 = Last + 1
      BY <1>6
    <3>4. /\ DOMAIN pending'[s] = {Last + 1}
          /\ pending'[s][Last + 1].header = LogHeader(row)
          /\ pending'[s][Last + 1].payload = LogPayload(row)
          /\ \A u \in Session \ {s} : pending'[u] = pending[u]
      <4>1. DOMAIN pending[s] = (Last + 1)..(Last + 0)
        BY <1>6, <3>3
      <4>2. 0 \in Nat
        OBVIOUS
      <4>. HIDE DEF row
      <4>3. /\ DOMAIN pending'[s] = (Last + 1)..(Last + 0 + 1)
            /\ pending'[s][Last + 0 + 1].header = LogHeader(row)
            /\ pending'[s][Last + 0 + 1].payload = LogPayload(row)
            /\ \A u \in Session \ {s} : pending'[u] = pending[u]
        BY <3>1, <3>2, <4>1, <4>2, OfferAssumption, Proved!InsertedBlock
      <4>. QED
        BY <3>3, <4>3
    <3>5. Carries(s)'
      <4>1. row.action \in SealedAction
        BY <1>1, <2>2 DEF InsertLedgerBlock, WellFormed
      <4>. QED
        BY <1>5, <3>1, <4>1 DEF Carries
    <3>. QED
      BY <1>5, <1>6, <3>4, <3>5 DEF BlocksInv, LogHeader, LogPayload
  <2>. QED
    BY <1>3, <2>1, <2>2
<1>8. /\ txn'[s].pc # "insert"
      /\ txn'[s].pc \in Writing => RowInv(txn'[s].row)
  BY <1>1, <1>5 DEF HistoryInv, SessionInv
<1>9. \A u \in Session : SessionInv(u)'
  BY <1>2, <1>5, <1>6, <1>7, <1>8, SessionsStay DEF HistoryInv
<1>. QED
  BY <1>2, <1>9, TablesStay DEF HistoryInv

\* The insert of an offer nobody has, under a number nobody has.
LEMMA InsertOfferKeepsTables ==
  ASSUME LetterInv, HistoryInv, NEW o \in Offer, NEW n \in Number,
         offers[o] = NoOffer, ~ NumberTaken(n),
         offers' = [offers EXCEPT ![o] = Draft(n)], UNCHANGED <<auditLog, ledger>>
  PROVE  LogInv' /\ (\A x \in Offer : StoredInv(x)') /\ LogsTellStatus'
<1>1. /\ \A x \in Offer : offers'[x] = IF x = o THEN Draft(n) ELSE offers[x]
      /\ Draft(n) # NoOffer /\ Draft(n).status = "OFFER_DRAFT" /\ Draft(n).number = n
  <2>1. Draft(n) # NoOffer /\ Draft(n).status = "OFFER_DRAFT" /\ Draft(n).number = n
    BY DEF Draft, NoOffer
  <2>. QED
    BY <2>1 DEF LetterInv
<1>2. LogInv'
  <2>1. \A k \in DOMAIN auditLog : auditLog[k].entity \in Offer
    BY DEF HistoryInv, LogInv, RowInv, Row
  <2>2. \A x \in Offer : offers[x] # NoOffer => offers'[x] # NoOffer
    BY <1>1
  <2>3. \A k \in DOMAIN auditLog : offers'[auditLog[k].entity] # NoOffer
    BY <2>1, <2>2 DEF HistoryInv, LogInv
  <2>. QED
    BY <2>3 DEF HistoryInv, LogInv, RowInv, NoOffer
<1>3. ASSUME NEW x \in Offer PROVE StoredInv(x)'
  <2>1. SUFFICES ASSUME offers'[x] # NoOffer PROVE StoredInv(x)'
    BY DEF StoredInv, NoOffer
  <2>2. \A y \in Offer : offers[y] # NoOffer => offers[y].number # n
    BY DEF NumberTaken, Exists
  <2>3. CASE x = o
    BY <1>1, <2>2, <2>3 DEF StoredInv, NoOffer
  <2>4. CASE x # o
    <3>1. /\ offers[x] # NoOffer /\ offers'[x] = offers[x] /\ StoredInv(x)
      BY <1>1, <2>1, <2>4 DEF HistoryInv
    <3>2. \A p \in Offer \ {x} : offers'[p] # NoOffer => offers'[p].number # offers[x].number
      BY <1>1, <2>2, <3>1 DEF StoredInv
    <3>. QED
      BY <3>1, <3>2 DEF StoredInv, NoOffer
  <2>. QED
    BY <2>3, <2>4
<1>4. LogsTellStatus'
  <2>1. RowsOf(o) = {}
    BY DEF HistoryInv, LogInv, RowsOf
  <2>2. /\ \A x \in Offer : RowsOf(x)' = RowsOf(x)
        /\ SealedRows' = SealedRows /\ Ledger!LastSeq(ledger)' = Ledger!LastSeq(ledger)
    BY DEF RowsOf, SealedRows
  <2>3. \A k \in SealedRows : Place(k)' = Place(k)
    BY <2>2 DEF Place
  <2>4. ASSUME NEW x \in Offer
        PROVE  offers'[x].status =
                 IF RowsOf(x)' # {} THEN auditLog'[Max(RowsOf(x)')].new_status
                 ELSE IF Exists(x)' THEN "OFFER_DRAFT" ELSE "NONE"
    <3>1. CASE x = o
      <4>1. offers'[x].status = "OFFER_DRAFT" /\ Exists(x)' /\ RowsOf(x)' = {}
        BY <1>1, <2>1, <2>2, <3>1 DEF Exists, NoOffer
      <4>. QED
        BY <4>1
    <3>2. CASE x # o
      <4>1. offers'[x] = offers[x] /\ (Exists(x)' <=> Exists(x)) /\ RowsOf(x)' = RowsOf(x)
        BY <1>1, <2>2, <3>2 DEF Exists, NoOffer
      <4>. QED
        BY <4>1 DEF HistoryInv, LogsTellStatus
    <3>. QED
      BY <3>1, <3>2
  <2>5. /\ Cardinality(SealedRows') = Ledger!LastSeq(ledger)'
        /\ \A k \in SealedRows' :
             /\ Place(k)' \in DOMAIN ledger'
             /\ ledger'[Place(k)'].header = LogHeader(auditLog'[k])
             /\ ledger'[Place(k)'].payload = LogPayload(auditLog'[k])
    BY <2>2, <2>3 DEF HistoryInv, LogsTellStatus
  <2>. QED
    BY <2>4, <2>5 DEF LogsTellStatus, LogHeader, LogPayload
<1>. QED
  BY <1>2, <1>3, <1>4

LEMMA InsertOfferKeepsHistory ==
  ASSUME LetterInv, HistoryInv, NEW s \in Session, InsertOffer(s)
  PROVE  HistoryInv'
<1>1. /\ txn[s].pc = "insert" /\ txn' = [txn EXCEPT ![s] = Idle]
      /\ UNCHANGED <<auditLog, ledger, pending>>
  BY DEF InsertOffer
<1>2. txn'[s] = Idle /\ \A u \in Session \ {s} : txn'[u] = txn[u]
  BY <1>1, OthersOfTxn DEF LetterInv
<1>3. PICK o, n : o = txn[s].offer /\ n = txn[s].number
  OBVIOUS
<1>4. /\ o \in Offer /\ n \in Number /\ offers[o] = NoOffer
      /\ \A u \in Session \ {s} : txn[u].pc = "insert" => txn[u].offer # o
  BY <1>1, <1>3 DEF HistoryInv, SessionInv, Creating
<1>5. \/ offers' = offers
      \/ offers' = [offers EXCEPT ![o] = Draft(n)] /\ ~ NumberTaken(n)
  BY <1>3 DEF InsertOffer
<1>6. LogInv' /\ (\A x \in Offer : StoredInv(x)') /\ LogsTellStatus'
  <2>1. CASE offers' = offers
    BY <1>1, <2>1, TablesStay DEF HistoryInv
  <2>2. CASE offers' = [offers EXCEPT ![o] = Draft(n)] /\ ~ NumberTaken(n)
    BY <1>1, <1>4, <2>2, InsertOfferKeepsTables
  <2>. QED
    BY <1>5, <2>1, <2>2
<1>7. BlocksInv(s)' /\ Last' = Last
  <2>1. ~ Carries(s)' /\ ~ Carries(s)
    BY <1>1, <1>2 DEF Carries, Idle
  <2>2. DOMAIN pending'[s] = {}
    BY <1>1, <2>1, IdleCarriesNothing
  <2>. QED
    BY <1>1, <2>1, <2>2 DEF BlocksInv, Last
<1>8. txn'[s].pc # "insert" /\ txn'[s].pc \notin Writing
  BY <1>2 DEF Idle, Writing
<1>9. \A u \in Session \ {s} : txn[u].pc = "insert" =>
        (offers[txn[u].offer] = NoOffer => offers'[txn[u].offer] = NoOffer)
  <2>1. \A x \in Offer : x # o => (offers[x] = NoOffer => offers'[x] = NoOffer)
    <3>1. offers = [x \in Offer |-> offers[x]]
      BY DEF LetterInv
    <3>. QED
      BY <1>5, <3>1
  <2>2. \A u \in Session : txn[u].pc = "insert" => txn[u].offer \in Offer
    BY DEF HistoryInv, SessionInv, Creating
  <2>. QED
    BY <1>4, <2>1, <2>2
<1>10. \A u \in Session : SessionInv(u)'
  BY <1>1, <1>2, <1>7, <1>8, <1>9, SessionsStay DEF HistoryInv
<1>. QED
  BY <1>6, <1>10 DEF HistoryInv

\* What a commit makes of the tables and of the sessions' blocks; k is the number of
\* blocks it publishes.
CommitFacts(o, row, k) ==
  /\ o \in Offer /\ row \in Row /\ row.entity = o /\ RowInv(row) /\ offers[o] # NoOffer
  /\ k \in Nat /\ k = IF row.action \in SealedAction THEN 1 ELSE 0
  /\ Last' = Last + k
  /\ \A i \in 1..Last : ledger'[i] = ledger[i]
  /\ k = 1 => /\ ledger'[Last + 1].header = LogHeader(row)
              /\ ledger'[Last + 1].payload = LogPayload(row)
  /\ auditLog' = Append(auditLog, row)
  /\ offers' = [offers EXCEPT ![o] = [ status |-> row.new_status, number |-> offers[o].number ]]

LEMMA CommitDoes ==
  ASSUME LetterInv, HistoryInv, BlockFacts, BlockFacts', NEW s \in Session, CommitDecision(s)
  PROVE  /\ \E o, row, k : CommitFacts(o, row, k)
         /\ txn'[s] = Idle /\ DOMAIN pending'[s] = {}
         /\ \A u \in Session \ {s} : txn'[u] = txn[u] /\ pending'[u] = pending[u]
         /\ Last' = Last \/ \A u \in Session \ {s} : DOMAIN pending[u] = {}
<1>1. /\ txn[s].pc = "commit" /\ txn[s].pc \in Writing /\ WellFormed(txn[s]) /\ Grounded(s)
      /\ RowInv(txn[s].row) /\ BlocksInv(s)
  BY DEF LetterInv, TxnInv, CommitDecision, Writing, HistoryInv, SessionInv
<1>2. PICK row, o : row = txn[s].row /\ o = row.entity
  OBVIOUS
<1>3. /\ row \in Row /\ o \in Offer /\ RowInv(row) /\ offers[o] # NoOffer
  BY <1>1, <1>2 DEF WellFormed, Grounded, Row
<1>4. PICK k \in {0, 1} : k = IF row.action \in SealedAction THEN 1 ELSE 0
  OBVIOUS
<1>5. /\ Last \in Nat /\ k \in Nat
      /\ DOMAIN pending[s] = (Last + 1)..(Last + k)
      /\ k = 1 => /\ pending[s][Last + 1].header = LogHeader(row)
                  /\ pending[s][Last + 1].payload = LogPayload(row)
  <2>1. Last \in Nat /\ k \in Nat
    BY DEF BlockFacts
  <2>2. (Last + 1)..(Last + 0) = {} /\ (Last + 1)..(Last + 1) = {Last + 1}
    BY <2>1
  <2>3. Carries(s) <=> k = 1
    BY <1>1, <1>2, <1>4 DEF Carries
  <2>4. DOMAIN pending[s] = IF k = 1 THEN {Last + 1} ELSE {}
    BY <1>1, <2>3 DEF BlocksInv
  <2>5. k = 1 => /\ pending[s][Last + 1].header = LogHeader(row)
                 /\ pending[s][Last + 1].payload = LogPayload(row)
    BY <1>1, <1>2, <2>3 DEF BlocksInv
  <2>. QED
    BY <1>4, <2>1, <2>2, <2>4, <2>5
<1>6. /\ Last' = Last + k
      /\ \A i \in 1..Last : ledger'[i] = ledger[i]
      /\ \A i \in 1..k : ledger'[Last + i] = pending[s][Last + i]
      /\ DOMAIN pending'[s] = {}
      /\ \A u \in Session \ {s} : pending'[u] = pending[u]
  <2>1. Proved!Commit(s)
    BY SameCommit DEF CommitDecision
  <2>2. Last = Proved!LastSeq(ledger) /\ Last' = Proved!LastSeq(ledger')
    BY SameLast DEF Last
  <2>3. Proved!BlockFacts /\ Proved!BlockFacts'
    <3>1. pending = [u \in Session |-> pending[u]] /\ pending' = [u \in Session |-> pending'[u]]
      BY <2>1 DEF LetterInv, KeysApart, Proved!Commit
    <3>2. Proved!BlockFacts
      BY <2>2, <3>1 DEF BlockFacts, Proved!BlockFacts
    <3>3. Proved!BlockFacts'
      BY <2>2, <3>1 DEF BlockFacts, Proved!BlockFacts
    <3>. QED
      BY <3>2, <3>3
  <2>. QED
    BY <1>5, <2>1, <2>2, <2>3, OfferAssumption, Proved!CommittedBlocks
<1>7. auditLog' = Append(auditLog, row)
  BY <1>2 DEF CommitDecision
<1>8. offers' = [offers EXCEPT ![o] = [ status |-> row.new_status, number |-> offers[o].number ]]
  <2>1. offers[o] = [ status |-> offers[o].status, number |-> offers[o].number ]
    BY <1>3 DEF LetterInv, OfferInv
  <2>2. [offers[o] EXCEPT !.status = row.new_status]
          = [ status |-> row.new_status, number |-> offers[o].number ]
    BY <2>1
  <2>3. offers' = [offers EXCEPT ![o] = [offers[o] EXCEPT !.status = row.new_status]]
    BY <1>2 DEF CommitDecision
  <2>. QED
    BY <2>2, <2>3
<1>9. CommitFacts(o, row, k)
  <2>1. k = 1 => /\ ledger'[Last + 1].header = LogHeader(row)
                 /\ ledger'[Last + 1].payload = LogPayload(row)
    BY <1>5, <1>6
  <2>. QED
    BY <1>2, <1>3, <1>4, <1>5, <1>6, <1>7, <1>8, <2>1 DEF CommitFacts
<1>10. txn'[s] = Idle /\ \A u \in Session \ {s} : txn'[u] = txn[u]
  <2>1. txn' = [txn EXCEPT ![s] = Idle]
    BY DEF CommitDecision
  <2>. QED
    BY <2>1, OthersOfTxn DEF LetterInv
<1>11. Last' = Last \/ \A u \in Session \ {s} : DOMAIN pending[u] = {}
  <2>1. CASE k = 0
    BY <1>5, <1>6, <2>1
  <2>2. CASE k = 1
    <3>1. Last + 1 \in DOMAIN pending[s]
      BY <1>5, <2>2
    <3>. QED
      BY <3>1 DEF BlockFacts
  <2>. QED
    BY <1>4, <2>1, <2>2
<1>. QED
  BY <1>6, <1>9, <1>10, <1>11

\* The last row of an offer is one of its rows.
LEMMA MaxOfRows ==
  ASSUME NEW n \in Nat, NEW S \in SUBSET (1..n), S # {}
  PROVE  Max(S) \in S /\ \A y \in S : y <= Max(S)
<1>1. S \in SUBSET (0..n)
  OBVIOUS
<1>2. Max(S) = Proved!Max(S)
  BY DEF Max, Proved!Max
<1>. QED
  BY <1>1, <1>2, OfferAssumption, Proved!MaxOfSet

LEMMA CommitKeepsOffers ==
  ASSUME LetterInv, HistoryInv, NEW o, NEW row, NEW k, CommitFacts(o, row, k)
  PROVE  LogInv' /\ \A x \in Offer : StoredInv(x)'
<1>. DEFINE r == [ status |-> row.new_status, number |-> offers[o].number ]
<1>1. /\ r.status = row.new_status /\ r.number = offers[o].number /\ r # NoOffer
      /\ o \in Offer /\ offers[o] # NoOffer
  BY DEF CommitFacts, NoOffer
<1>2. \A x \in Offer : offers'[x] = IF x = o THEN r ELSE offers[x]
  BY DEF CommitFacts, LetterInv
<1>. HIDE DEF r
<1>3. /\ auditLog \in Seq(Row) /\ row \in Row /\ auditLog' = Append(auditLog, row)
      /\ row.entity = o /\ RowInv(row)
  BY DEF HistoryInv, LogInv, CommitFacts
<1>4. LogInv'
  <2>1. auditLog' \in Seq(Row)
    BY <1>3
  <2>2. \A m \in DOMAIN auditLog' : \/ m \in DOMAIN auditLog /\ auditLog'[m] = auditLog[m]
                                    \/ auditLog'[m] = row
    BY <1>3
  <2>3. ASSUME NEW x \in Offer, offers[x] # NoOffer PROVE offers'[x] # NoOffer
    BY <1>1, <1>2, <2>3
  <2>4. ASSUME NEW m \in DOMAIN auditLog'
        PROVE  RowInv(auditLog'[m]) /\ offers'[auditLog'[m].entity] # NoOffer
    <3>1. CASE m \in DOMAIN auditLog /\ auditLog'[m] = auditLog[m]
      <4>1. /\ RowInv(auditLog[m]) /\ offers[auditLog[m].entity] # NoOffer
            /\ auditLog[m].entity \in Offer
        BY <3>1 DEF HistoryInv, LogInv, RowInv, Row
      <4>. QED
        BY <2>3, <3>1, <4>1
    <3>2. CASE auditLog'[m] = row
      BY <1>1, <1>3, <2>3, <3>2
    <3>. QED
      BY <2>2, <3>1, <3>2
  <2>. QED
    BY <2>1, <2>4 DEF LogInv, RowInv, NoOffer
<1>5. ASSUME NEW x \in Offer PROVE StoredInv(x)'
  <2>1. \A y \in Offer : /\ offers'[y] # NoOffer => offers[y] # NoOffer
                         /\ offers[y] # NoOffer => offers'[y].number = offers[y].number
    BY <1>1, <1>2
  <2>2. SUFFICES ASSUME offers'[x] # NoOffer PROVE StoredInv(x)'
    BY DEF StoredInv, NoOffer
  <2>3. StoredInv(x) /\ offers[x] # NoOffer
    BY <2>1, <2>2 DEF HistoryInv
  <2>4. offers'[x].status \in {"OFFER_DRAFT"} \cup Written
    BY <1>1, <1>2, <1>3, <2>3 DEF StoredInv, RowInv
  <2>5. \A p \in Offer \ {x} : offers'[p] # NoOffer => offers'[p].number # offers'[x].number
    BY <2>1, <2>3 DEF StoredInv
  <2>6. offers'[x].number \in Number
    BY <2>1, <2>3 DEF StoredInv
  <2>. QED
    BY <2>4, <2>5, <2>6 DEF StoredInv, NoOffer, Written
<1>. QED
  BY <1>4, <1>5

LEMMA CommitTellsStatus ==
  ASSUME LetterInv, HistoryInv, NEW o, NEW row, NEW k, CommitFacts(o, row, k),
         NEW x \in Offer
  PROVE  offers'[x].status =
           IF RowsOf(x)' # {} THEN auditLog'[Max(RowsOf(x)')].new_status
           ELSE IF Exists(x)' THEN "OFFER_DRAFT" ELSE "NONE"
<1>1. PICK n : n = Len(auditLog)
  OBVIOUS
<1>2. /\ auditLog \in Seq(Row) /\ row \in Row /\ auditLog' = Append(auditLog, row)
      /\ row.entity = o /\ n \in Nat /\ DOMAIN auditLog = 1..n
  BY <1>1 DEF HistoryInv, LogInv, CommitFacts
<1>3. /\ DOMAIN auditLog' = 1..(n + 1) /\ auditLog'[n + 1] = row
      /\ \A m \in 1..n : auditLog'[m] = auditLog[m]
  BY <1>1, <1>2
<1>4. CASE x = o
  <2>1. RowsOf(x)' \in SUBSET (1..(n + 1)) /\ n + 1 \in RowsOf(x)'
    BY <1>2, <1>3, <1>4 DEF RowsOf
  <2>2. PICK S : S = RowsOf(x)'
    OBVIOUS
  <2>3. Max(S) \in S /\ \A y \in S : y <= Max(S)
    <3>1. n + 1 \in Nat /\ S \in SUBSET (1..(n + 1)) /\ S # {}
      BY <1>2, <2>1, <2>2
    <3>. QED
      BY <3>1, MaxOfRows
  <2>4. Max(S) = n + 1
    <3>1. Max(S) \in 1..(n + 1) /\ n + 1 <= Max(S)
      BY <2>1, <2>2, <2>3
    <3>. QED
      BY <1>2, <3>1
  <2>5. offers'[x].status = row.new_status
    BY <1>4 DEF CommitFacts, LetterInv
  <2>. QED
    BY <1>3, <2>1, <2>2, <2>4, <2>5
<1>5. CASE x # o
  <2>1. RowsOf(x) \in SUBSET (1..n)
    BY <1>2 DEF RowsOf
  <2>2. ASSUME NEW m PROVE m \in RowsOf(x)' <=> m \in RowsOf(x)
    <3>1. CASE m \in 1..n
      <4>1. m \in 1..(n + 1)
        BY <1>2, <3>1
      <4>. QED
        BY <1>2, <1>3, <3>1, <4>1 DEF RowsOf
    <3>2. CASE m \notin 1..n
      <4>1. m \in 1..(n + 1) => m = n + 1
        BY <1>2, <3>2
      <4>2. m \notin RowsOf(x)
        BY <2>1, <3>2
      <4>3. m \in RowsOf(x)' => m \in 1..(n + 1) /\ auditLog'[m].entity = x
        BY <1>3 DEF RowsOf
      <4>. QED
        BY <1>2, <1>3, <1>5, <4>1, <4>2, <4>3
    <3>. QED
      BY <3>1, <3>2
  <2>3. RowsOf(x)' = RowsOf(x)
    BY <2>2
  <2>4. offers'[x] = offers[x] /\ (Exists(x)' <=> Exists(x))
    BY <1>5 DEF CommitFacts, LetterInv, Exists, NoOffer
  <2>5. RowsOf(x) # {} => auditLog'[Max(RowsOf(x))] = auditLog[Max(RowsOf(x))]
    <3>1. RowsOf(x) # {} => Max(RowsOf(x)) \in RowsOf(x)
      BY <1>2, <2>1, MaxOfRows
    <3>. QED
      BY <1>3, <2>1, <3>1
  <2>6. offers[x].status =
          IF RowsOf(x) # {} THEN auditLog[Max(RowsOf(x))].new_status
          ELSE IF Exists(x) THEN "OFFER_DRAFT" ELSE "NONE"
    BY DEF HistoryInv, LogsTellStatus
  <2>7. PICK S : S = RowsOf(x)
    OBVIOUS
  <2>8. /\ S = RowsOf(x)'
        /\ S # {} => auditLog'[Max(S)] = auditLog[Max(S)]
        /\ offers[x].status =
             IF S # {} THEN auditLog[Max(S)].new_status
             ELSE IF Exists(x) THEN "OFFER_DRAFT" ELSE "NONE"
    BY <2>3, <2>5, <2>6, <2>7
  <2>9. offers'[x].status =
          IF S # {} THEN auditLog'[Max(S)].new_status
          ELSE IF Exists(x)' THEN "OFFER_DRAFT" ELSE "NONE"
    BY <2>4, <2>8
  <2>. QED
    BY <2>8, <2>9
<1>. QED
  BY <1>4, <1>5

\* Rows counted beyond the first n.
LEMMA CountBeyond ==
  ASSUME NEW n \in Nat, NEW D \in SUBSET (1..n), NEW i \in Nat
  PROVE  /\ Cardinality(D) \in Nat
         /\ Cardinality(D \cup (n + 1)..(n + i)) = Cardinality(D) + i
BY SameCardinality, OfferAssumption, Proved!CountBeyond

LEMMA CommitKeepsPlaces ==
  ASSUME BlockFacts, BlockFacts', HistoryInv, NEW o, NEW row, NEW k, CommitFacts(o, row, k)
  PROVE  /\ Cardinality(SealedRows') = Last'
         /\ \A m \in SealedRows' :
              /\ Place(m)' \in DOMAIN ledger'
              /\ ledger'[Place(m)'].header = LogHeader(auditLog'[m])
              /\ ledger'[Place(m)'].payload = LogPayload(auditLog'[m])
<1>1. PICK n, D : n = Len(auditLog) /\ D = SealedRows
  OBVIOUS
<1>2. /\ auditLog \in Seq(Row) /\ row \in Row /\ auditLog' = Append(auditLog, row)
      /\ n \in Nat /\ DOMAIN auditLog = 1..n
      /\ Last \in Nat /\ DOMAIN ledger = 1..Last /\ DOMAIN ledger' = 1..(Last + k)
      /\ Last' = Last + k /\ k \in Nat /\ k = IF row.action \in SealedAction THEN 1 ELSE 0
  BY <1>1 DEF HistoryInv, LogInv, CommitFacts, BlockFacts
<1>3. /\ DOMAIN auditLog' = 1..(n + 1) /\ auditLog'[n + 1] = row
      /\ \A m \in 1..n : auditLog'[m] = auditLog[m]
  BY <1>1, <1>2
<1>4. D \in SUBSET (1..n)
  BY <1>1, <1>2 DEF SealedRows
<1>5. Cardinality(D) = Last
  BY <1>1 DEF HistoryInv, LogsTellStatus, Last
<1>6. SealedRows' = D \cup (n + 1)..(n + k)
  <2>1. \A m \in (n + 1)..(n + k) : m = n + 1 /\ k = 1
    BY <1>2
  <2>2. k = 1 => n + 1 \in (n + 1)..(n + k)
    BY <1>2
  <2>3. ASSUME NEW m PROVE m \in SealedRows' <=> m \in D \cup (n + 1)..(n + k)
    <3>1. CASE m \in 1..n
      <4>1. m \in 1..(n + 1) /\ m # n + 1
        BY <1>2, <3>1
      <4>. QED
        BY <1>1, <1>2, <1>3, <2>1, <3>1, <4>1 DEF SealedRows
    <3>2. CASE m = n + 1
      <4>1. m \in 1..(n + 1) /\ m \notin 1..n
        BY <1>2, <3>2
      <4>2. m \in SealedRows' <=> k = 1
        BY <1>2, <1>3, <3>2, <4>1 DEF SealedRows
      <4>. QED
        BY <1>4, <2>1, <2>2, <3>2, <4>1, <4>2
    <3>3. CASE m \notin 1..n /\ m # n + 1
      <4>1. m \notin 1..(n + 1)
        BY <1>2, <3>3
      <4>. QED
        BY <1>3, <1>4, <2>1, <3>3, <4>1 DEF SealedRows
    <3>. QED
      BY <3>1, <3>2, <3>3
  <2>. QED
    BY <2>3
<1>7. Cardinality(SealedRows') = Last'
  BY <1>2, <1>4, <1>5, <1>6, CountBeyond
<1>8. ASSUME NEW m \in SealedRows'
      PROVE  /\ Place(m)' \in DOMAIN ledger'
             /\ ledger'[Place(m)'].header = LogHeader(auditLog'[m])
             /\ ledger'[Place(m)'].payload = LogPayload(auditLog'[m])
  <2>1. CASE m \in D
    <3>1. { j \in D \cup (n + 1)..(n + k) : j <= m } = { j \in D : j <= m }
      BY <1>2, <1>4, <2>1
    <3>2. Place(m) = Cardinality({ j \in D : j <= m })
      BY <1>1 DEF Place
    <3>3. Place(m)' = Cardinality({ j \in D \cup (n + 1)..(n + k) : j <= m })
      BY <1>6 DEF Place
    <3>4. Place(m)' = Place(m) /\ auditLog'[m] = auditLog[m]
      BY <1>3, <1>4, <2>1, <3>1, <3>2, <3>3
    <3>5. /\ Place(m) \in DOMAIN ledger
          /\ ledger[Place(m)].header = LogHeader(auditLog[m])
          /\ ledger[Place(m)].payload = LogPayload(auditLog[m])
      BY <1>1, <2>1 DEF HistoryInv, LogsTellStatus
    <3>6. Place(m) \in DOMAIN ledger' /\ ledger'[Place(m)] = ledger[Place(m)]
      BY <1>2, <3>5 DEF CommitFacts
    <3>. QED
      BY <3>4, <3>5, <3>6
  <2>2. CASE m \in (n + 1)..(n + k)
    <3>1. m = n + 1 /\ k = 1
      BY <1>2, <2>2
    <3>2. { j \in D \cup (n + 1)..(n + k) : j <= m } = D \cup (n + 1)..(n + k)
      <4>1. \A j \in D : j <= m
        BY <1>2, <1>4, <3>1
      <4>2. \A j \in (n + 1)..(n + k) : j <= m
        BY <1>2, <3>1
      <4>. QED
        BY <4>1, <4>2
    <3>3. Place(m)' = Cardinality({ j \in D \cup (n + 1)..(n + k) : j <= m })
      BY <1>6 DEF Place
    <3>4. Cardinality(D \cup (n + 1)..(n + k)) = Last + k
      BY <1>2, <1>4, <1>5, CountBeyond
    <3>5. Place(m)' = Last + 1
      BY <3>1, <3>2, <3>3, <3>4
    <3>6. Last + 1 \in DOMAIN ledger' /\ auditLog'[m] = row
      BY <1>2, <1>3, <3>1
    <3>. QED
      BY <3>1, <3>5, <3>6 DEF CommitFacts
  <2>. QED
    BY <1>6, <2>1, <2>2
<1>. QED
  BY <1>7, <1>8

LEMMA CommitKeepsHistory ==
  ASSUME LetterInv, HistoryInv, BlockFacts, BlockFacts', NEW s \in Session, CommitDecision(s)
  PROVE  HistoryInv'
<1>1. PICK o, row, k : CommitFacts(o, row, k)
  BY CommitDoes
<1>2. /\ txn'[s] = Idle /\ DOMAIN pending'[s] = {}
      /\ \A u \in Session \ {s} : txn'[u] = txn[u] /\ pending'[u] = pending[u]
      /\ Last' = Last \/ \A u \in Session \ {s} : DOMAIN pending[u] = {}
  BY CommitDoes
<1>3. LogInv' /\ \A x \in Offer : StoredInv(x)'
  BY <1>1, CommitKeepsOffers
<1>4. LogsTellStatus'
  <2>1. \A x \in Offer :
          offers'[x].status =
            IF RowsOf(x)' # {} THEN auditLog'[Max(RowsOf(x)')].new_status
            ELSE IF Exists(x)' THEN "OFFER_DRAFT" ELSE "NONE"
    BY <1>1, CommitTellsStatus
  <2>2. /\ Cardinality(SealedRows') = Last'
        /\ \A m \in SealedRows' :
             /\ Place(m)' \in DOMAIN ledger'
             /\ ledger'[Place(m)'].header = LogHeader(auditLog'[m])
             /\ ledger'[Place(m)'].payload = LogPayload(auditLog'[m])
    BY <1>1, CommitKeepsPlaces
  <2>. QED
    BY <2>1, <2>2 DEF LogsTellStatus, Last, LogHeader, LogPayload
<1>5. \A u \in Session : SessionInv(u)'
  <2>1. ~ Carries(s)' /\ txn'[s].pc # "insert" /\ txn'[s].pc \notin Writing
    BY <1>2 DEF Carries, Idle, Writing
  <2>2. BlocksInv(s)'
    BY <1>2, <2>1 DEF BlocksInv
  <2>3. \A u \in Session \ {s} : txn[u].pc = "insert" =>
          (offers[txn[u].offer] = NoOffer => offers'[txn[u].offer] = NoOffer)
    <3>1. \A x : x # o => offers'[x] = offers[x]
      BY <1>1 DEF CommitFacts, LetterInv
    <3>2. offers[o] # NoOffer
      BY <1>1 DEF CommitFacts
    <3>. QED
      BY <3>1, <3>2
  <2>. QED
    BY <1>2, <2>1, <2>2, <2>3, SessionsStay DEF HistoryInv
<1>. QED
  BY <1>3, <1>4, <1>5 DEF HistoryInv

LEMMA HistoryInvStep ==
  ASSUME LetterInv, Proved!ChainInv, Proved!ChainInv', HistoryInv, [Next]_vars
  PROVE  HistoryInv'
<1>1. BlockFacts /\ BlockFacts'
  <2>1. BlockFacts
    BY BlocksOfChain
  <2>2. BlockFacts'
    BY BlocksOfChain, PTL
  <2>. QED
    BY <2>1, <2>2
<1>2. TxnInv
  BY DEF LetterInv
<1>3. CASE Next
  <2>1. PICK s \in Session :
          \/ BeginRequest(s) \/ InsertOffer(s) \/ Flush(s)
          \/ ReadLedgerHead(s) \/ InsertLedgerBlock(s) \/ LedgerConflict(s)
          \/ CommitDecision(s) \/ Abort(s)
    BY <1>3 DEF Next
  <2>. QED
    BY <1>1, <1>2, <2>1, BeginKeepsHistory, InsertOfferKeepsHistory, MoveKeepsHistory,
       EndKeepsHistory, CommitKeepsHistory
<1>4. CASE UNCHANGED vars
  <2>1. UNCHANGED <<offers, auditLog, ledger>> /\ Last' = Last
        /\ \A u \in Session : txn'[u] = txn[u] /\ pending'[u] = pending[u]
    BY <1>4 DEF vars, Last
  <2>2. ASSUME NEW u \in Session PROVE SessionInv(u)'
    <3>1. BlocksInv(u)'
      BY <2>1, OtherBlocks DEF HistoryInv, SessionInv
    <3>2. Creating(u)'
      BY <2>1 DEF HistoryInv, SessionInv, Creating, NoOffer
    <3>. QED
      BY <2>1, <3>1, <3>2 DEF HistoryInv, SessionInv, RowInv
  <2>. QED
    BY <2>1, <2>2, TablesStay DEF HistoryInv
<1>. QED
  BY <1>3, <1>4

\* However requests on offers interleave, conflict or die: the rows of audit_logs are
\* legal decisions of offers that exist, an open transaction holds at most the one
\* block of its own row, and offers, audit_logs and ledger tell the same story.
THEOREM OfferHistoryInvariant == Spec => []HistoryInv
<1>1. Spec => []LetterInv
  BY LetterInvInit, LetterInvStep, PTL DEF Spec
<1>2. Proved!LedgerSpec => []Proved!ChainInv
  BY OfferAssumption, Proved!ChainInvariant
<1>3. Spec => []Proved!ChainInv
  BY <1>2, OfferLedgerIsSox, PTL
<1>4. Init /\ Proved!ChainInv => HistoryInv
  BY BlocksOfChain, HistoryInvInit
<1>5. LetterInv /\ Proved!ChainInv /\ (Proved!ChainInv)' /\ HistoryInv /\ [Next]_vars
        => HistoryInv'
  BY HistoryInvStep
<1>. QED
  BY <1>1, <1>3, <1>4, <1>5, PTL DEF Spec

\* The status of an offer is the one its last audit_logs row records, and the audits
\* and approvals are in the ledger in the order of audit_logs, one block each and
\* nothing else (offer_service.py:161, 217).
THEOREM OfferLogsAgree == Spec => []LogsTellStatus
BY OfferHistoryInvariant, PTL DEF HistoryInv

\* Every reachable state is well typed: no offer is ever stored as AUDIT_PENDING or
\* OFFER_REJECTED, and no two offers share a number.
THEOREM OfferTypeCorrect == Spec => []OfferTypeOK
<1>1. Proved!LedgerSpec => []Proved!LedgerTypeOK
  BY OfferAssumption, Proved!LedgerTypeCorrect
<1>2. Spec => []Proved!LedgerTypeOK
  BY <1>1, OfferLedgerIsSox, PTL
<1>3. HistoryInv /\ Proved!LedgerTypeOK => OfferTypeOK
  <2>1. {"OFFER_DRAFT"} \cup Written \subseteq OfferStatus \ {"AUDIT_PENDING", "OFFER_REJECTED"}
    BY DEF Written, AgentDecisions, Terminal, OfferStatus
  <2>2. SUFFICES ASSUME HistoryInv, Proved!LedgerTypeOK PROVE OfferTypeOK
    OBVIOUS
  <2>3. Ledger!LedgerTypeOK
    BY <2>2, SameType
  <2>4. \A o \in Offer : StoredInv(o)
    BY <2>2 DEF HistoryInv
  <2>5. ASSUME NEW o \in Offer, Exists(o)
        PROVE  /\ offers[o].status \in OfferStatus \ {"AUDIT_PENDING", "OFFER_REJECTED"}
               /\ offers[o].number \in Number
               /\ \A p \in Offer \ {o} : Exists(p) => offers[p].number # offers[o].number
    <3>1. /\ offers[o].status \in {"OFFER_DRAFT"} \cup Written
          /\ offers[o].number \in Number
          /\ \A p \in Offer \ {o} : Exists(p) => offers[p].number # offers[o].number
      BY <2>4, <2>5 DEF StoredInv, Exists
    <3>. QED
      BY <2>1, <3>1
  <2>. QED
    BY <2>3, <2>5 DEF OfferTypeOK
<1>. QED
  BY <1>2, <1>3, OfferHistoryInvariant, PTL

\* The row after a terminal answer was decided from a status that is not terminal, so
\* it does not continue the history: an answer that is overwritten leaves a break.
LEMMA SecondAnswerBreaks ==
  ASSUME LogInv, NEW o \in Offer, NEW i \in Answers(o), NEW j \in RowsOf(o), i < j
  PROVE  ~ Continuous(o)
<1>1. PICK n : n \in Nat /\ DOMAIN auditLog = 1..n
  BY DEF LogInv
<1>2. RowsOf(o) \in SUBSET (1..n) /\ i \in RowsOf(o)
  BY <1>1 DEF RowsOf, Answers
<1>3. PICK R, later : R = RowsOf(o) /\ later = { k \in R : i < k }
  OBVIOUS
<1>4. later \in SUBSET Nat /\ later # {}
  BY <1>1, <1>2, <1>3
<1>5. Min(later) \in later /\ \A k \in later : Min(later) <= k
  <2>1. Min(later) = Proved!Min(later)
    BY DEF Min, Proved!Min
  <2>. QED
    BY <1>4, <2>1, OfferAssumption, Proved!MinOfSet
<1>6. PICK m : m = Min(later)
  OBVIOUS
<1>7. m \in R /\ i < m /\ \A k \in R : i < k => m <= k
  BY <1>3, <1>5, <1>6
<1>8. PICK E : E = { k \in R : k < m }
  OBVIOUS
<1>9. E \in SUBSET (1..n) /\ i \in E /\ \A k \in E : k <= i
  <2>1. ASSUME NEW k \in E PROVE k <= i
    <3>1. k \in R /\ k < m /\ k \in Nat /\ i \in Nat /\ m \in Nat
      BY <1>1, <1>2, <1>3, <1>7, <1>8
    <3>. QED
      BY <1>7, <3>1
  <2>. QED
    BY <1>2, <1>3, <1>7, <1>8, <2>1
<1>10. Max(E) = i
  <2>1. Max(E) \in E /\ \A y \in E : y <= Max(E)
    <3>1. E # {}
      BY <1>9
    <3>. QED
      BY <1>1, <1>9, <3>1, MaxOfRows
  <2>2. PICK top : top = Max(E)
    OBVIOUS
  <2>3. top \in E /\ i \in E /\ top <= i /\ i <= top
    BY <1>9, <2>1, <2>2
  <2>4. top \in Int /\ i \in Int
    BY <1>1, <1>9, <2>3
  <2>. QED
    BY <2>2, <2>3, <2>4
<1>11. Before(o, m) = auditLog[i].new_status
  BY <1>3, <1>8, <1>9, <1>10 DEF Before
<1>12. auditLog[i].new_status \in Terminal
  BY DEF Answers
<1>13. auditLog[m].previous_status \notin Terminal
  BY <1>3, <1>7 DEF LogInv, RowInv, RowsOf
<1>. QED
  BY <1>3, <1>7, <1>11, <1>12, <1>13 DEF Continuous

\* Two terminal answers of one offer always leave a break in its audit_logs history:
\* an answer is overwritten only by a request that had read the offer before it
\* (offer_service.py:289 against :292), for any number of requests at once.
THEOREM OverwritesLeaveTrace == Spec => []OverwriteLeavesTrace
<1>1. HistoryInv => OverwriteLeavesTrace
  <2>1. SUFFICES ASSUME HistoryInv, NEW o \in Offer, Cardinality(Answers(o)) > 1
                 PROVE  ~ Continuous(o)
    BY DEF OverwriteLeavesTrace
  <2>2. LogInv
    BY <2>1 DEF HistoryInv
  <2>3. PICK n : n \in Nat /\ DOMAIN auditLog = 1..n
    BY <2>2 DEF LogInv
  <2>4. Answers(o) \subseteq RowsOf(o) /\ RowsOf(o) \subseteq 1..n
    BY <2>3 DEF Answers, RowsOf
  <2>5. PICK i \in Answers(o), j \in Answers(o) : i # j
    <3>1. CASE Answers(o) = {}
      <4>1. Cardinality({}) = 0
        BY FS_EmptySet
      <4>. QED
        BY <2>1, <3>1, <4>1
    <3>2. CASE Answers(o) # {}
      <4>1. PICK i : i \in Answers(o)
        BY <3>2
      <4>2. CASE Answers(o) = {i}
        <5>1. Cardinality({i}) = 1
          BY FS_Singleton
        <5>. QED
          BY <2>1, <4>2, <5>1
      <4>3. CASE Answers(o) # {i}
        BY <4>1, <4>3
      <4>. QED
        BY <4>2, <4>3
    <3>. QED
      BY <3>1, <3>2
  <2>6. i < j \/ j < i
    BY <2>3, <2>4, <2>5
  <2>7. CASE i < j
    BY <2>2, <2>4, <2>7, SecondAnswerBreaks
  <2>8. CASE j < i
    BY <2>2, <2>4, <2>8, SecondAnswerBreaks
  <2>. QED
    BY <2>6, <2>7, <2>8
<1>. QED
  BY <1>1, OfferHistoryInvariant, PTL
==============================================================================
