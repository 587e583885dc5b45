--------------------------- MODULE SoxLedgerProofs ---------------------------
(***************************************************************************)
(* Proofs about the SOX ledger for any number of sessions and any bound:   *)
(* ChainInv is inductive, and gives the chain that verify_chain accepts,   *)
(* the single appender, the append-only table and the types; and with it   *)
(* every step is, under the mapping of SoxLedger, a Record, a Publish, a   *)
(* Discard or no step of AuditTrail: the ledger implements the atomic      *)
(* audit trail.                                                            *)
(***************************************************************************)
EXTENDS SoxLedger, SequenceTheorems, FiniteSetTheorems, WellFoundedInduction, TLAPS

------------------------------------------------------------------------------
(* The first and the last of the sequence numbers in a set.                *)

LEMMA MinOfSet ==
  ASSUME NEW S \in SUBSET Nat, S # {}
  PROVE  Min(S) \in S /\ \A y \in S : Min(S) <= y
<1>1. PICK x \in S : \A y \in S : ~ (<<y, x>> \in OpToRel(<, Nat))
  BY NatLessThanWellFounded, WFMin
<1>2. ASSUME NEW y \in S PROVE x <= y
  <2>1. x \in Nat /\ y \in Nat
    OBVIOUS
  <2>2. ~ (y < x)
    BY <1>1, <2>1 DEF OpToRel
  <2>. QED
    BY <2>1, <2>2
<1>. QED
  BY <1>2 DEF Min

LEMMA MaxOfSet ==
  ASSUME NEW n \in Nat, NEW S \in SUBSET (0..n), S # {}
  PROVE  Max(S) \in S /\ \A y \in S : y <= Max(S)
<1>. DEFINE T == { n - x : x \in S }
<1>1. T \in SUBSET Nat /\ T # {}
  <2>1. \A x \in S : n - x \in Nat
    OBVIOUS
  <2>. QED
    BY <2>1
<1>. HIDE DEF T
<1>2. Min(T) \in T /\ \A y \in T : Min(T) <= y
  BY <1>1, MinOfSet
<1>3. PICK x \in S : Min(T) = n - x
  BY <1>2 DEF T
<1>4. ASSUME NEW y \in S PROVE x >= y
  <2>1. n - y \in T
    BY DEF T
  <2>2. n - x <= n - y
    BY <1>2, <1>3, <2>1
  <2>. QED
    BY <2>2
<1>. QED
  BY <1>4 DEF Max

------------------------------------------------------------------------------
(* Chains.                                                                 *)

\* The last sequence number of a table without gaps is its size.
LEMMA LastOfInterval ==
  ASSUME NEW rows, NEW n \in Nat, DOMAIN rows = 1..n
  PROVE  LastSeq(rows) = n
<1>1. CASE n = 0
  <2>1. DOMAIN rows = {}
    BY <1>1
  <2>. QED
    BY <1>1, <2>1 DEF LastSeq
<1>2. CASE n # 0
  <2>1. DOMAIN rows # {} /\ n \in DOMAIN rows
    BY <1>2
  <2>2. \A y \in DOMAIN rows : n >= y
    OBVIOUS
  <2>3. \A x \in DOMAIN rows : (\A y \in DOMAIN rows : x >= y) => x = n
    BY <2>1
  <2>4. Max(DOMAIN rows) = n
    BY <2>1, <2>2, <2>3 DEF Max
  <2>. QED
    BY <2>1, <2>4 DEF LastSeq
<1>. QED
  BY <1>1, <1>2

\* A session without rows of its own sees the committed table.
LEMMA MergeNoRows ==
  ASSUME NEW rows, rows = [i \in DOMAIN rows |-> rows[i]]
  PROVE  Merge(rows, NoRows) = rows
BY DEF Merge, NoRows

\* A block sealed on the next link of a chain makes a longer chain.
LEMMA ChainExtends ==
  ASSUME NEW rows, Chain(rows), LastSeq(rows) < MaxSeq,
         NEW j, j = LastSeq(rows) + 1,
         NEW header \in Header, NEW payload \in Payload,
         NEW longer, longer = [i \in 1..j |->
           IF i = j THEN Seal(LinkAt(rows, j), header, payload) ELSE rows[i]]
  PROVE  Chain(longer) /\ LastSeq(longer) = j
<1>. USE MaxSeqAssumption
<1>1. j \in Nat /\ j \in 1..MaxSeq
  BY DEF Chain
<1>2. LastSeq(longer) = j
  BY <1>1, LastOfInterval
<1>3. \A i \in 1..j : LinkAt(longer, i) = LinkAt(rows, i)
  BY <1>1 DEF LinkAt, Chain
<1>4. ASSUME NEW i \in DOMAIN longer
      PROVE  \E h \in Header, p \in Payload : longer[i] = Seal(LinkAt(longer, i), h, p)
  <2>1. CASE i = j
    BY <1>1, <1>3, <2>1
  <2>2. CASE i # j
    <3>1. i \in DOMAIN rows /\ longer[i] = rows[i]
      BY <1>1, <2>2 DEF Chain
    <3>. QED
      BY <1>1, <1>3, <3>1 DEF Chain
  <2>. QED
    BY <2>1, <2>2
<1>. QED
  BY <1>1, <1>2, <1>4 DEF Chain

\* Every sealed block of a chain passes the five comparisons of verify_chain.
LEMMA ChainIntact ==
  ASSUME NEW rows, Chain(rows), NEW i \in DOMAIN rows
  PROVE  Intact(rows, i)
<1>. USE MaxSeqAssumption
<1>1. PICK h \in Header, p \in Payload : rows[i] = Seal(LinkAt(rows, i), h, p)
  BY DEF Chain
<1>2. i = 1 \/ i - 1 \in DOMAIN rows
  BY DEF Chain
<1>. QED
  BY <1>1, <1>2 DEF Intact, Seal, LinkAt

LEMMA ChainIsSecure ==
  ASSUME NEW rows, Chain(rows)
  PROVE  VerifyChain(rows, 0).status = "SECURE"
<1>1. { i \in Checked(rows, 0) : ~ Intact(rows, i) } = {}
  BY ChainIntact DEF Checked
<1>. QED
  BY <1>1 DEF VerifyChain

------------------------------------------------------------------------------
(* ChainInv is inductive.                                                  *)

LEMMA ChainInvInit == LedgerInit => ChainInv
<1>. SUFFICES ASSUME LedgerInit PROVE ChainInv
  OBVIOUS
<1>. USE MaxSeqAssumption
<1>1. NoRows = [i \in DOMAIN NoRows |-> NoRows[i]] /\ DOMAIN NoRows = 1..0
  BY DEF NoRows
<1>2. LastSeq(NoRows) = 0
  BY <1>1, LastOfInterval
<1>3. Chain(NoRows)
  BY <1>1, <1>2 DEF Chain
<1>4. \A s \in Session : Visible(s) = NoRows /\ pending[s] = NoRows /\ head[s] = NoHead
  BY <1>1, MergeNoRows DEF LedgerInit, Visible
<1>5. \A s \in Session : PendingFollows(s) /\ HeadLinks(s)
  BY <1>1, <1>2, <1>4 DEF PendingFollows, HeadLinks, LedgerInit
<1>6. OneAppender
  BY <1>4 DEF OneAppender
<1>. QED
  BY <1>1, <1>3, <1>4, <1>5, <1>6 DEF ChainInv, LedgerInit

\* The facts about a state that every step below starts from.
LEMMA LastSeqTypes ==
  ASSUME ChainInv, NEW s \in Session
  PROVE  /\ LastSeq(ledger) \in Nat /\ LastSeq(ledger) <= MaxSeq
         /\ DOMAIN ledger = 1..LastSeq(ledger)
         /\ LastSeq(Visible(s)) \in Nat /\ LastSeq(Visible(s)) <= MaxSeq
         /\ DOMAIN Visible(s) = 1..LastSeq(Visible(s))
         /\ DOMAIN Visible(s) = DOMAIN ledger \cup DOMAIN pending[s]
<1>. USE MaxSeqAssumption
<1>1. Chain(ledger) /\ Chain(Visible(s))
  BY DEF ChainInv
<1>2. ASSUME NEW rows, Chain(rows)
      PROVE  /\ LastSeq(rows) \in Nat /\ LastSeq(rows) <= MaxSeq
             /\ DOMAIN rows = 1..LastSeq(rows)
  BY <1>2 DEF Chain
<1>3. DOMAIN Visible(s) = DOMAIN ledger \cup DOMAIN pending[s]
  BY DEF Visible, Merge
<1>. QED
  BY <1>1, <1>2, <1>3

LEMMA NoRowsAreFunction ==
  NoRows = [i \in DOMAIN NoRows |-> NoRows[i]] /\ DOMAIN NoRows = {}
BY DEF NoRows

\* Without rows of its own a session sees the committed table.
LEMMA SeesLedger ==
  ASSUME ChainInv, NEW s \in Session, pending[s] = NoRows
  PROVE  Visible(s) = ledger
BY MergeNoRows DEF ChainInv, Chain, Visible

\* A session has rows of its own exactly when it sees more than is committed.
LEMMA EmptyPending ==
  ASSUME ChainInv, NEW s \in Session, DOMAIN pending[s] = {}
  PROVE  pending[s] = NoRows
BY DEF ChainInv, NoRows

\* The link read from a chain is the link of the block after its last.
LEMMA NextLinkIsLinkAt ==
  ASSUME NEW rows, Chain(rows)
  PROVE  NextLink(rows) = LinkAt(rows, LastSeq(rows) + 1)
<1>. USE MaxSeqAssumption
<1>1. CASE LastSeq(rows) = 0
  <2>1. DOMAIN rows = {}
    BY <1>1 DEF Chain
  <2>. QED
    BY <1>1, <2>1 DEF NextLink, LinkAt
<1>2. CASE LastSeq(rows) # 0
  <2>1. DOMAIN rows # {} /\ LastSeq(rows) + 1 # 1 /\ (LastSeq(rows) + 1) - 1 = LastSeq(rows)
    BY <1>2 DEF Chain
  <2>. QED
    BY <2>1 DEF NextLink, LinkAt
<1>. QED
  BY <1>1, <1>2

LEMMA ReadHeadStep ==
  ASSUME ChainInv, NEW s \in Session, ReadHead(s)
  PROVE  ChainInv'
<1>. USE MaxSeqAssumption
<1>1. UNCHANGED <<ledger, pending>>
  BY DEF ReadHead
<1>2. \A t \in Session : Visible(t)' = Visible(t)
  BY <1>1 DEF Visible
<1>3. head' = [head EXCEPT ![s] = NextLink(Visible(s))]
  BY DEF ReadHead
<1>4. ASSUME NEW t \in Session PROVE HeadLinks(t)'
  <2>1. CASE t = s
    <3>1. head'[t] = LinkAt(Visible(s), LastSeq(Visible(s)) + 1)
      BY <1>3, <2>1, NextLinkIsLinkAt DEF ChainInv
    <3>2. LastSeq(Visible(s)) \in Nat /\ LastSeq(Visible(s)) + 1 <= MaxSeq
      <4>1. LastSeq(Visible(s)) \in Nat
        BY LastSeqTypes
      <4>2. LastSeq(Visible(s)) < MaxSeq
        BY DEF ReadHead
      <4>. QED
        BY <4>1, <4>2
    <3>3. head'[t].sequence_id = LastSeq(Visible(s)) + 1
      BY <3>1 DEF LinkAt
    <3>. QED
      BY <1>1, <1>2, <2>1, <3>1, <3>2, <3>3 DEF HeadLinks
  <2>2. CASE t # s
    <3>1. head'[t] = head[t] /\ HeadLinks(t)
      BY <1>3, <2>2 DEF ChainInv
    <3>. QED
      BY <1>1, <1>2, <3>1 DEF HeadLinks
  <2>. QED
    BY <2>1, <2>2
<1>5. head' = [t \in Session |-> head'[t]]
  BY <1>3 DEF ChainInv
<1>. QED
  BY <1>1, <1>2, <1>4, <1>5 DEF ChainInv, PendingFollows, OneAppender

\* A session whose rows and head do not change keeps its part of the invariant when
\* the committed table does not change either.
LEMMA RollbackStep ==
  ASSUME ChainInv, NEW s \in Session, Rollback(s)
  PROVE  ChainInv'
<1>. USE MaxSeqAssumption
<1>1. ledger' = ledger
  BY DEF Rollback
<1>2. pending'[s] = NoRows /\ head'[s] = NoHead
  BY DEF Rollback, ChainInv
<1>3. \A t \in Session \ {s} : pending'[t] = pending[t] /\ head'[t] = head[t]
  BY DEF Rollback, ChainInv
<1>4. Visible(s)' = ledger
  BY <1>1, <1>2, MergeNoRows DEF Visible, ChainInv, Chain
<1>5. \A t \in Session \ {s} : Visible(t)' = Visible(t)
  BY <1>1, <1>3 DEF Visible
<1>6. ASSUME NEW t \in Session
      PROVE  /\ Chain(Visible(t)')
             /\ pending'[t] = [i \in DOMAIN pending'[t] |-> pending'[t][i]]
             /\ PendingFollows(t)'
             /\ HeadLinks(t)'
  <2>1. CASE t = s
    <3>1. PendingFollows(s)'
      <4>1. LastSeq(ledger) \in Nat
        BY LastSeqTypes
      <4>2. DOMAIN pending'[s] = {} /\ LastSeq(ledger)' = LastSeq(ledger)
        BY <1>1, <1>2, NoRowsAreFunction
      <4>3. LastSeq(Visible(s))' = LastSeq(ledger)
        BY <1>4
      <4>. QED
        BY <4>1, <4>2, <4>3 DEF PendingFollows
    <3>. QED
      BY <1>2, <1>4, <2>1, <3>1, NoRowsAreFunction DEF HeadLinks, ChainInv
  <2>2. CASE t # s
    BY <1>1, <1>3, <1>5, <2>2 DEF ChainInv, PendingFollows, HeadLinks
  <2>. QED
    BY <2>1, <2>2
<1>7. OneAppender'
  BY <1>2, <1>3 DEF ChainInv, OneAppender
<1>8. pending' = [t \in Session |-> pending'[t]] /\ head' = [t \in Session |-> head'[t]]
  BY DEF Rollback, ChainInv
<1>9. Chain(ledger)'
  BY <1>1 DEF ChainInv, Chain
<1>10. \A t \in Session : Chain(Visible(t))'
  BY <1>6 DEF Chain
<1>. QED
  BY <1>6, <1>7, <1>8, <1>9, <1>10 DEF ChainInv

\* A session's own rows lie above the committed ones, so it sees those unchanged.
LEMMA SeesCommitted ==
  ASSUME ChainInv, NEW s \in Session
  PROVE  /\ LastSeq(ledger) <= LastSeq(Visible(s))
         /\ \A i \in 1..LastSeq(ledger) : Visible(s)[i] = ledger[i]
<1>1. /\ LastSeq(ledger) \in Nat /\ LastSeq(Visible(s)) \in Nat
      /\ DOMAIN ledger = 1..LastSeq(ledger)
      /\ DOMAIN Visible(s) = 1..LastSeq(Visible(s))
      /\ DOMAIN Visible(s) = DOMAIN ledger \cup DOMAIN pending[s]
  BY LastSeqTypes
<1>2. DOMAIN pending[s] = (LastSeq(ledger) + 1)..LastSeq(Visible(s))
  BY DEF ChainInv, PendingFollows
<1>3. \A i \in 1..LastSeq(ledger) : i \notin DOMAIN pending[s]
  BY <1>1, <1>2
<1>4. \A i \in 1..LastSeq(ledger) : Visible(s)[i] = ledger[i]
  BY <1>1, <1>3 DEF Visible, Merge
<1>5. LastSeq(ledger) <= LastSeq(Visible(s))
  <2>1. CASE LastSeq(ledger) = 0
    BY <1>1, <2>1
  <2>2. CASE LastSeq(ledger) # 0
    <3>1. LastSeq(ledger) \in 1..LastSeq(ledger)
      BY <1>1, <2>2
    <3>2. LastSeq(ledger) \in DOMAIN ledger \cup DOMAIN pending[s]
      BY <1>1, <3>1
    <3>3. LastSeq(ledger) \in 1..LastSeq(Visible(s))
      BY <1>1, <3>2
    <3>. QED
      BY <1>1, <3>3
  <2>. QED
    BY <2>1, <2>2
<1>. QED
  BY <1>4, <1>5

\* The key of a block that can be inserted is the next one, and nobody else has
\* uncommitted blocks.
LEMMA InsertKey ==
  ASSUME ChainInv, NEW s \in Session, head[s] # NoHead,
         head[s].sequence_id \notin DOMAIN ledger, KeyHolder(s) = {}
  PROVE  /\ head[s].sequence_id = LastSeq(Visible(s)) + 1
         /\ \A t \in Session \ {s} : pending[t] = NoRows
<1>1. /\ LastSeq(ledger) \in Nat /\ LastSeq(Visible(s)) \in Nat
      /\ DOMAIN ledger = 1..LastSeq(ledger)
  BY LastSeqTypes
<1>2. /\ head[s].sequence_id \in Nat /\ head[s].sequence_id >= 1
      /\ head[s].sequence_id <= LastSeq(Visible(s)) + 1
      /\ pending[s] # NoRows => head[s].sequence_id = LastSeq(Visible(s)) + 1
  BY MaxSeqAssumption DEF ChainInv, HeadLinks
<1>3. CASE pending[s] # NoRows
  BY <1>2, <1>3 DEF ChainInv, OneAppender
<1>4. CASE pending[s] = NoRows
  <2>1. Visible(s) = ledger
    BY <1>4, SeesLedger
  <2>2. head[s].sequence_id = LastSeq(ledger) + 1
    BY <1>1, <1>2, <2>1
  <2>3. ASSUME NEW t \in Session \ {s}, pending[t] # NoRows
        PROVE  FALSE
    <3>1. DOMAIN pending[t] # {}
      BY <2>3, EmptyPending
    <3>2. DOMAIN pending[t] = (LastSeq(ledger) + 1)..LastSeq(Visible(t))
      BY DEF ChainInv, PendingFollows
    <3>3. LastSeq(Visible(t)) \in Nat
      BY LastSeqTypes
    <3>4. LastSeq(ledger) + 1 \in DOMAIN pending[t]
      BY <1>1, <3>1, <3>2, <3>3
    <3>. QED
      BY <2>2, <3>4 DEF KeyHolder
  <2>. QED
    BY <2>1, <2>2, <2>3
<1>. QED
  BY <1>3, <1>4

\* What an insert makes of the session's rows and of what it sees.
LEMMA InsertBlockView ==
  ASSUME ChainInv, NEW s \in Session, NEW header \in Header, NEW payload \in Payload,
         InsertBlock(s, header, payload)
  PROVE  LET j == LastSeq(Visible(s)) + 1
             row == Seal(head[s], header, payload)
         IN /\ head[s] = LinkAt(Visible(s), j) /\ j \in 1..MaxSeq
            /\ ledger' = ledger
            /\ pending'[s] = Merge(pending[s], [i \in {j} |-> row])
            /\ Visible(s)' = [i \in 1..j |-> IF i = j THEN row ELSE Visible(s)[i]]
            /\ Chain(Visible(s)')
            /\ LastSeq(Visible(s)') = j
            /\ \A t \in Session \ {s} : /\ pending[t] = NoRows
                                        /\ pending'[t] = pending[t]
                                        /\ Visible(t)' = Visible(t)
<1>. USE MaxSeqAssumption
<1>. DEFINE j == LastSeq(Visible(s)) + 1
            row == Seal(head[s], header, payload)
<1>1. /\ head[s] # NoHead /\ head[s].sequence_id \notin DOMAIN ledger
      /\ KeyHolder(s) = {} /\ ledger' = ledger
  BY DEF InsertBlock
<1>2. /\ head[s].sequence_id = j
      /\ \A t \in Session \ {s} : pending[t] = NoRows
  BY <1>1, InsertKey
<1>3. /\ pending'[s] = Merge(pending[s], [i \in {j} |-> row])
      /\ \A t \in Session \ {s} : pending'[t] = pending[t]
  BY <1>2 DEF InsertBlock, ChainInv
<1>4. /\ LastSeq(ledger) \in Nat /\ LastSeq(Visible(s)) \in Nat /\ j \in 1..MaxSeq
      /\ DOMAIN ledger = 1..LastSeq(ledger)
      /\ DOMAIN Visible(s) = 1..LastSeq(Visible(s))
      /\ DOMAIN Visible(s) = DOMAIN ledger \cup DOMAIN pending[s]
      /\ head[s] = LinkAt(Visible(s), j)
  BY <1>1, <1>2, LastSeqTypes DEF ChainInv, HeadLinks
<1>5. Visible(s)' = [i \in 1..j |-> IF i = j THEN row ELSE Visible(s)[i]]
  <2>1. Visible(s)' = Merge(ledger, Merge(pending[s], [i \in {j} |-> row]))
    BY <1>1, <1>3 DEF Visible
  <2>2. DOMAIN ledger \cup (DOMAIN pending[s] \cup {j}) = 1..j
    BY <1>4
  <2>. QED
    BY <2>1, <2>2, <1>4 DEF Merge, Visible
<1>6. Chain(Visible(s)') /\ LastSeq(Visible(s)') = j
  <2>1. Chain(Visible(s)) /\ LastSeq(Visible(s)) < MaxSeq
    BY <1>4 DEF ChainInv
  <2>2. row = Seal(LinkAt(Visible(s), j), header, payload)
    BY <1>4
  <2>. QED
    BY <1>5, <2>1, <2>2, ChainExtends
<1>7. \A t \in Session \ {s} : Visible(t)' = Visible(t)
  BY <1>1, <1>3 DEF Visible
<1>. QED
  BY <1>1, <1>2, <1>3, <1>4, <1>5, <1>6, <1>7

LEMMA InsertBlockStep ==
  ASSUME ChainInv, NEW s \in Session, NEW header \in Header, NEW payload \in Payload,
         InsertBlock(s, header, payload)
  PROVE  ChainInv'
<1>. USE MaxSeqAssumption
<1>. DEFINE j == LastSeq(Visible(s)) + 1
            row == Seal(head[s], header, payload)
<1>1. /\ j \in 1..MaxSeq /\ ledger' = ledger
      /\ pending'[s] = Merge(pending[s], [i \in {j} |-> row])
      /\ Chain(Visible(s)') /\ LastSeq(Visible(s)') = j
      /\ \A t \in Session \ {s} : /\ pending[t] = NoRows
                                  /\ pending'[t] = pending[t]
                                  /\ Visible(t)' = Visible(t)
  BY InsertBlockView
<1>2. /\ head'[s] = NoHead
      /\ \A t \in Session \ {s} : head'[t] = head[t]
      /\ pending' = [t \in Session |-> pending'[t]]
      /\ head' = [t \in Session |-> head'[t]]
  BY DEF InsertBlock, ChainInv
<1>3. DOMAIN pending'[s] = (LastSeq(ledger) + 1)..j
  <2>1. DOMAIN pending[s] = (LastSeq(ledger) + 1)..LastSeq(Visible(s))
    BY DEF ChainInv, PendingFollows
  <2>2. /\ LastSeq(ledger) <= LastSeq(Visible(s))
        /\ LastSeq(ledger) \in Nat /\ LastSeq(Visible(s)) \in Nat
    BY SeesCommitted, LastSeqTypes
  <2>3. DOMAIN pending'[s] = DOMAIN pending[s] \cup {j}
    BY <1>1 DEF Merge
  <2>. QED
    BY <2>1, <2>2, <2>3
<1>4. ASSUME NEW t \in Session
      PROVE  /\ Chain(Visible(t)')
             /\ pending'[t] = [i \in DOMAIN pending'[t] |-> pending'[t][i]]
             /\ PendingFollows(t)'
             /\ HeadLinks(t)'
  <2>1. CASE t = s
    <3>1. pending'[s] = [i \in DOMAIN pending'[s] |-> pending'[s][i]]
      BY <1>1 DEF Merge
    <3>2. PendingFollows(s)'
      BY <1>1, <1>3 DEF PendingFollows
    <3>. QED
      BY <1>1, <1>2, <2>1, <3>1, <3>2 DEF HeadLinks
  <2>2. CASE t # s
    BY <1>1, <1>2, <2>2 DEF ChainInv, PendingFollows, HeadLinks
  <2>. QED
    BY <2>1, <2>2
<1>5. OneAppender'
  BY <1>1 DEF OneAppender
<1>6. Chain(ledger)'
  BY <1>1 DEF ChainInv, Chain
<1>7. \A t \in Session : Chain(Visible(t))'
  BY <1>4 DEF Chain
<1>. QED
  BY <1>2, <1>4, <1>5, <1>6, <1>7 DEF ChainInv

LEMMA CommitStep ==
  ASSUME ChainInv, NEW s \in Session, Commit(s)
  PROVE  ChainInv'
<1>. USE MaxSeqAssumption
<1>1. ledger' = Visible(s) /\ head[s] = NoHead /\ head' = head
  BY DEF Commit
<1>2. /\ pending'[s] = NoRows
      /\ \A t \in Session \ {s} : pending'[t] = pending[t]
      /\ pending' = [t \in Session |-> pending'[t]]
  BY DEF Commit, ChainInv
<1>3. Chain(Visible(s)) /\ LastSeq(Visible(s)) \in Nat /\ LastSeq(ledger) \in Nat
  BY LastSeqTypes DEF ChainInv
<1>4. ASSUME NEW t \in Session
      PROVE  /\ Chain(Visible(t)')
             /\ pending'[t] = [i \in DOMAIN pending'[t] |-> pending'[t][i]]
             /\ PendingFollows(t)'
             /\ HeadLinks(t)'
  <2>1. CASE pending'[t] = NoRows
    <3>1. Visible(t)' = Visible(s)
      BY <1>1, <1>3, <2>1, MergeNoRows DEF Visible, Chain
    <3>2. PendingFollows(t)'
      BY <1>1, <1>3, <2>1, <3>1, NoRowsAreFunction DEF PendingFollows
    <3>3. HeadLinks(t)'
      <4>1. CASE head[t] = NoHead
        BY <1>1, <4>1 DEF HeadLinks
      <4>2. CASE head[t] # NoHead
        <5>1. t # s /\ pending[t] = NoRows
          BY <1>1, <1>2, <2>1, <4>2
        <5>2. Visible(t) = ledger
          BY <5>1, SeesLedger
        <5>3. /\ head[t].sequence_id \in 1..MaxSeq
              /\ head[t].sequence_id <= LastSeq(ledger) + 1
              /\ head[t] = LinkAt(ledger, head[t].sequence_id)
          BY <4>2, <5>2 DEF ChainInv, HeadLinks
        <5>4. head[t].sequence_id = 1 \/ head[t].sequence_id - 1 \in 1..LastSeq(ledger)
          BY <1>3, <5>3
        <5>5. LinkAt(Visible(s), head[t].sequence_id) = LinkAt(ledger, head[t].sequence_id)
          BY <5>4, SeesCommitted DEF LinkAt
        <5>6. head[t].sequence_id <= LastSeq(Visible(s)) + 1
          BY <1>3, <5>3, SeesCommitted
        <5>. QED
          BY <1>1, <2>1, <3>1, <5>3, <5>5, <5>6 DEF HeadLinks
      <4>. QED
        BY <4>1, <4>2
    <3>. QED
      BY <1>3, <2>1, <3>1, <3>2, <3>3, NoRowsAreFunction
  <2>2. CASE pending'[t] # NoRows
    <3>1. t # s /\ pending[t] # NoRows /\ pending'[t] = pending[t]
      BY <1>2, <2>2
    <3>2. pending[s] = NoRows
      BY <3>1 DEF ChainInv, OneAppender
    <3>3. ledger' = ledger
      BY <1>1, <3>2, SeesLedger
    <3>4. Visible(t)' = Visible(t)
      BY <3>1, <3>3 DEF Visible
    <3>. QED
      BY <1>1, <3>1, <3>3, <3>4 DEF ChainInv, PendingFollows, HeadLinks
  <2>. QED
    BY <2>1, <2>2
<1>5. OneAppender'
  BY <1>2 DEF ChainInv, OneAppender
<1>6. Chain(ledger)'
  BY <1>1, <1>3 DEF Chain
<1>7. \A t \in Session : Chain(Visible(t))'
  BY <1>4 DEF Chain
<1>8. head' = [t \in Session |-> head'[t]]
  BY <1>1 DEF ChainInv
<1>. QED
  BY <1>2, <1>4, <1>5, <1>6, <1>7, <1>8 DEF ChainInv

LEMMA ChainInvStep == ChainInv /\ [LedgerNext]_ledgerVars => ChainInv'
<1>. SUFFICES ASSUME ChainInv, [LedgerNext]_ledgerVars PROVE ChainInv'
  OBVIOUS
<1>1. CASE UNCHANGED ledgerVars
  BY <1>1 DEF ledgerVars, ChainInv, Chain, Visible, PendingFollows, HeadLinks, OneAppender
<1>2. ASSUME NEW s \in Session, ReadHead(s) PROVE ChainInv'
  BY <1>2, ReadHeadStep
<1>3. ASSUME NEW s \in Session, NEW header \in Header, NEW payload \in Payload,
             InsertBlock(s, header, payload)
      PROVE  ChainInv'
  BY <1>3, InsertBlockStep
<1>4. ASSUME NEW s \in Session, InsertConflict(s) PROVE ChainInv'
  BY <1>4, RollbackStep DEF InsertConflict
<1>5. ASSUME NEW s \in Session, Commit(s) PROVE ChainInv'
  BY <1>5, CommitStep
<1>6. ASSUME NEW s \in Session, Rollback(s) PROVE ChainInv'
  BY <1>6, RollbackStep
<1>. QED
  BY <1>1, <1>2, <1>3, <1>4, <1>5, <1>6 DEF LedgerNext

------------------------------------------------------------------------------
(* The theorems.                                                           *)

\* The committed table, and what every session sees, are chains in every reachable
\* state (record_entry, ledger.py:100-161).
THEOREM ChainInvariant == LedgerSpec => []ChainInv
BY ChainInvInit, ChainInvStep, PTL DEF LedgerSpec

\* Every reachable state is well typed.
THEOREM LedgerTypeCorrect == LedgerSpec => []LedgerTypeOK
<1>1. ChainInv => LedgerTypeOK
  <2>. SUFFICES ASSUME ChainInv PROVE LedgerTypeOK
    OBVIOUS
  <2>. USE MaxSeqAssumption
  <2>1. ASSUME NEW rows, Chain(rows)
        PROVE  /\ DOMAIN rows \subseteq 1..MaxSeq
               /\ \A i \in DOMAIN rows : rows[i].header \in Header /\ rows[i].payload \in Payload
    <3>1. DOMAIN rows \subseteq 1..MaxSeq
      BY <2>1 DEF Chain
    <3>2. ASSUME NEW i \in DOMAIN rows
          PROVE  rows[i].header \in Header /\ rows[i].payload \in Payload
      <4>1. PICK h \in Header, p \in Payload : rows[i] = Seal(LinkAt(rows, i), h, p)
        BY <2>1 DEF Chain
      <4>. QED
        BY <4>1 DEF Seal
    <3>. QED
      BY <3>1, <3>2
  <2>2. \A s \in Session : DOMAIN pending[s] \subseteq DOMAIN Visible(s)
    BY DEF Visible, Merge
  <2>3. \A s \in Session : DOMAIN pending[s] \subseteq 1..MaxSeq
    BY <2>1, <2>2 DEF ChainInv
  <2>4. \A s \in Session : head[s].sequence_id \in 0..MaxSeq
    BY DEF ChainInv, HeadLinks, NoHead
  <2>. QED
    BY <2>1, <2>3, <2>4 DEF LedgerTypeOK, ChainInv
<1>. QED
  BY <1>1, ChainInvariant, PTL

\* verify_chain finds every committed ledger SECURE, for any number of concurrent
\* appenders, conflicts and rollbacks.
THEOREM ChainAlwaysSecure == LedgerSpec => []ChainSecure
<1>1. ChainInv => ChainSecure
  BY ChainIsSecure DEF ChainInv, ChainSecure
<1>. QED
  BY <1>1, ChainInvariant, PTL

\* At most one open transaction holds uncommitted blocks.
THEOREM OneAppenderAtATime == LedgerSpec => []OneAppender
<1>1. ChainInv => OneAppender
  BY DEF ChainInv
<1>. QED
  BY <1>1, ChainInvariant, PTL

\* No step changes or removes a committed block.
THEOREM LedgerAppendOnly == LedgerSpec => AppendOnly
<1>1. ChainInv /\ [LedgerNext]_ledgerVars =>
        [\A i \in DOMAIN ledger : i \in DOMAIN ledger' /\ ledger'[i] = ledger[i]]_ledgerVars
  <2>. SUFFICES ASSUME ChainInv, LedgerNext
                PROVE  \A i \in DOMAIN ledger : i \in DOMAIN ledger' /\ ledger'[i] = ledger[i]
    OBVIOUS
  <2>1. ASSUME NEW s \in Session, Commit(s), NEW i \in DOMAIN ledger
        PROVE  i \in DOMAIN ledger' /\ ledger'[i] = ledger[i]
    <3>1. ledger' = Visible(s)
      BY <2>1 DEF Commit
    <3>2. i \in 1..LastSeq(ledger) /\ i \in DOMAIN Visible(s)
      BY LastSeqTypes
    <3>. QED
      BY <3>1, <3>2, SeesCommitted
  <2>2. ASSUME ledger' = ledger, NEW i \in DOMAIN ledger
        PROVE  i \in DOMAIN ledger' /\ ledger'[i] = ledger[i]
    BY <2>2
  <2>3. (\E s \in Session : Commit(s)) \/ ledger' = ledger
    BY DEF LedgerNext, ReadHead, InsertBlock, InsertConflict, Rollback
  <2>. QED
    BY <2>1, <2>2, <2>3
<1>. QED
  BY <1>1, ChainInvariant, PTL DEF LedgerSpec, AppendOnly

------------------------------------------------------------------------------
(* What the requests that write to the ledger need to know of it.          *)

\* Counting the rows of a table beyond the first n.
LEMMA CountBeyond ==
  ASSUME NEW n \in Nat, NEW D \in SUBSET (1..n), NEW i \in Nat
  PROVE  /\ Cardinality(D) \in Nat
         /\ Cardinality(D \cup (n + 1)..(n + i)) = Cardinality(D) + i
<1>1. IsFiniteSet(1..n) /\ IsFiniteSet(D)
  <2>1. 1 \in Int /\ n \in Int
    OBVIOUS
  <2>2. IsFiniteSet(1..n)
    BY <2>1, FS_Interval
  <2>. QED
    BY <2>2, FS_Subset
<1>2. IsFiniteSet((n + 1)..(n + i)) /\ Cardinality((n + 1)..(n + i)) = i
  <2>1. n + 1 \in Int /\ n + i \in Int
    OBVIOUS
  <2>2. /\ IsFiniteSet((n + 1)..(n + i))
        /\ Cardinality((n + 1)..(n + i)) = IF n + 1 > n + i THEN 0 ELSE (n + i) - (n + 1) + 1
    BY <2>1, FS_Interval
  <2>. QED
    BY <2>2
<1>3. D \cap (n + 1)..(n + i) = {}
  OBVIOUS
<1>4. Cardinality(D) \in Nat
  BY <1>1, FS_CardinalityType
<1>5. Cardinality(D \cup (n + 1)..(n + i))
        = Cardinality(D) + Cardinality((n + 1)..(n + i)) - Cardinality(D \cap (n + 1)..(n + i))
  <2>. DEFINE E == (n + 1)..(n + i)
  <2>1. IsFiniteSet(E)
    BY <1>2
  <2>. HIDE DEF E
  <2>2. Cardinality(D \cup E) = Cardinality(D) + Cardinality(E) - Cardinality(D \cap E)
    BY <1>1, <2>1, FS_Union
  <2>. QED
    BY <2>2 DEF E
<1>6. Cardinality(D \cap (n + 1)..(n + i)) = 0
  BY <1>3, FS_EmptySet
<1>. QED
  BY <1>2, <1>4, <1>5, <1>6

LEMMA JoinIntervals ==
  ASSUME NEW n \in Nat, NEW k \in Nat
  PROVE  1..n \cup (n + 1)..(n + k) = 1..(n + k)
OBVIOUS

LEMMA SameInterval == ASSUME NEW m \in Nat, NEW n \in Nat, 1..m = 1..n PROVE m = n
OBVIOUS

\* The blocks of the table and of the sessions, without their chaining.
BlockFacts ==
  /\ LastSeq(ledger) \in Nat
  /\ DOMAIN ledger = 1..LastSeq(ledger)
  /\ pending = [s \in Session |-> pending[s]]
  /\ \A s, t \in Session : DOMAIN pending[s] # {} /\ DOMAIN pending[t] # {} => s = t

LEMMA BlocksOfChain == ChainInv => BlockFacts
<1>. SUFFICES ASSUME ChainInv PROVE BlockFacts
  OBVIOUS
<1>1. LastSeq(ledger) \in Nat /\ DOMAIN ledger = 1..LastSeq(ledger)
  BY DEF ChainInv, Chain
<1>2. pending = [s \in Session |-> pending[s]]
  BY DEF ChainInv
<1>3. ASSUME NEW s \in Session, NEW t \in Session,
             DOMAIN pending[s] # {}, DOMAIN pending[t] # {}
      PROVE  s = t
  <2>1. pending[s] # NoRows /\ pending[t] # NoRows
    BY <1>3 DEF NoRows
  <2>. QED
    BY <2>1 DEF ChainInv, OneAppender
<1>. QED
  BY <1>1, <1>2, <1>3 DEF BlockFacts

\* An insert adds the block after the session's last.
LEMMA InsertedBlock ==
  ASSUME ChainInv, NEW s \in Session, NEW k \in Nat,
         DOMAIN pending[s] = (LastSeq(ledger) + 1)..(LastSeq(ledger) + k),
         NEW header, NEW payload, InsertBlock(s, header, payload)
  PROVE  /\ ledger' = ledger
         /\ DOMAIN pending'[s] = (LastSeq(ledger) + 1)..(LastSeq(ledger) + k + 1)
         /\ pending'[s][LastSeq(ledger) + k + 1].header = header
         /\ pending'[s][LastSeq(ledger) + k + 1].payload = payload
         /\ \A i \in (LastSeq(ledger) + 1)..(LastSeq(ledger) + k) :
              pending'[s][i] = pending[s][i]
         /\ \A u \in Session \ {s} : pending'[u] = pending[u]
<1>. DEFINE key == head[s].sequence_id
            row == Seal(head[s], header, payload)
            Last == LastSeq(ledger)
<1>1. /\ head[s] # NoHead /\ key \notin DOMAIN ledger /\ KeyHolder(s) = {}
      /\ ledger' = ledger
      /\ pending' = [pending EXCEPT ![s] = Merge(@, [i \in {key} |-> row])]
  BY DEF InsertBlock
<1>2. key = LastSeq(Visible(s)) + 1
  BY <1>1, InsertKey
<1>3. Last \in Nat /\ DOMAIN ledger = 1..Last
  BY BlocksOfChain DEF BlockFacts
<1>4. LastSeq(Visible(s)) = Last + k
  <2>1. /\ LastSeq(Visible(s)) \in Nat
        /\ 1..LastSeq(Visible(s)) = DOMAIN ledger \cup DOMAIN pending[s]
    BY LastSeqTypes
  <2>2. DOMAIN ledger \cup DOMAIN pending[s] = 1..(Last + k)
    BY <1>3, JoinIntervals
  <2>3. Last + k \in Nat
    BY <1>3
  <2>. QED
    BY <2>1, <2>2, <2>3, SameInterval
<1>5. key = Last + k + 1
  BY <1>2, <1>3, <1>4
<1>6. DOMAIN pending[s] = (Last + 1)..(Last + k)
  OBVIOUS
<1>. HIDE DEF key, row, Last
<1>7. /\ pending'[s] = Merge(pending[s], [i \in {key} |-> row])
      /\ \A u \in Session \ {s} : pending'[u] = pending[u]
  BY <1>1, BlocksOfChain DEF BlockFacts
<1>8. /\ DOMAIN pending'[s] = DOMAIN pending[s] \cup {key}
      /\ pending'[s][key] = row
      /\ \A i \in DOMAIN pending[s] \ {key} : pending'[s][i] = pending[s][i]
  BY <1>7 DEF Merge
<1>9. row.header = header /\ row.payload = payload
  BY DEF row, Seal
<1>10. DOMAIN pending'[s] = (Last + 1)..(Last + k + 1)
  <2>1. (Last + 1)..(Last + k) \cup {Last + k + 1} = (Last + 1)..(Last + k + 1)
    BY <1>3
  <2>. QED
    BY <1>5, <1>6, <1>8, <2>1
<1>11. \A i \in (Last + 1)..(Last + k) : i # key
  BY <1>3, <1>5
<1>12. \A i \in (Last + 1)..(Last + k) : pending'[s][i] = pending[s][i]
  BY <1>6, <1>8, <1>11
<1>13. pending'[s][Last + k + 1] = row
  BY <1>5, <1>8
<1>. QED
  BY <1>1, <1>7, <1>9, <1>10, <1>12, <1>13 DEF Last

\* What a commit makes of the ledger.
LEMMA CommittedBlocks ==
  ASSUME BlockFacts, BlockFacts', NEW s \in Session, NEW k \in Nat,
         DOMAIN pending[s] = (LastSeq(ledger) + 1)..(LastSeq(ledger) + k), Commit(s)
  PROVE  /\ LastSeq(ledger') = LastSeq(ledger) + k
         /\ \A i \in 1..LastSeq(ledger) : ledger'[i] = ledger[i]
         /\ \A i \in 1..k : ledger'[LastSeq(ledger) + i] = pending[s][LastSeq(ledger) + i]
         /\ DOMAIN pending'[s] = {}
         /\ \A u \in Session \ {s} : pending'[u] = pending[u]
<1>. DEFINE last == LastSeq(ledger)
            next == LastSeq(ledger')
<1>1. last \in Nat /\ DOMAIN ledger = 1..last /\ next \in Nat /\ DOMAIN ledger' = 1..next
  BY DEF BlockFacts
<1>2. DOMAIN pending[s] = (last + 1)..(last + k)
  OBVIOUS
<1>. HIDE DEF last, next
<1>3. /\ DOMAIN ledger' = DOMAIN ledger \cup DOMAIN pending[s]
      /\ \A i \in DOMAIN pending[s] : ledger'[i] = pending[s][i]
      /\ \A i \in DOMAIN ledger \ DOMAIN pending[s] : ledger'[i] = ledger[i]
  BY DEF Commit, Visible, Merge
<1>4. 1..next = 1..(last + k)
  BY <1>1, <1>2, <1>3, JoinIntervals
<1>5. next = last + k
  <2>1. last + k \in Nat
    BY <1>1
  <2>. QED
    BY <1>1, <1>4, <2>1, SameInterval
<1>6. pending'[s] = NoRows /\ \A u \in Session \ {s} : pending'[u] = pending[u]
  BY DEF Commit, BlockFacts
<1>7. DOMAIN pending'[s] = {}
  BY <1>6 DEF NoRows
<1>8. \A i \in 1..last : ledger'[i] = ledger[i]
  <2>1. \A i \in 1..last : i \notin (last + 1)..(last + k)
    BY <1>1
  <2>. QED
    BY <1>1, <1>2, <1>3, <2>1
<1>9. \A i \in 1..k : ledger'[last + i] = pending[s][last + i]
  <2>1. \A i \in 1..k : last + i \in (last + 1)..(last + k)
    BY <1>1
  <2>. QED
    BY <1>2, <1>3, <2>1
<1>. QED
  BY <1>5, <1>6, <1>7, <1>8, <1>9 DEF last, next

------------------------------------------------------------------------------
(* The atomic audit trail: a session's own rows are its batch.             *)

Entries == [header : Header, payload : Payload]

LEMMA FunctionIsSeq ==
  ASSUME NEW S, NEW n \in Nat, NEW f \in [1..n -> S]
  PROVE  f \in Seq(S) /\ Len(f) = n
<1>1. f \in Seq(S)
  BY SeqDef
<1>2. Len(f) \in Nat /\ DOMAIN f = 1..Len(f)
  BY <1>1, LenProperties
<1>. QED
  BY <1>1, <1>2

\* The committed rows and a session's own are well-formed entries.
LEMMA RowsAreEntries ==
  ASSUME NEW rows, Chain(rows), NEW i \in DOMAIN rows
  PROVE  Content(rows[i]) \in Entries
<1>1. PICK h \in Header, p \in Payload : rows[i] = Seal(LinkAt(rows, i), h, p)
  BY DEF Chain
<1>. QED
  BY <1>1 DEF Content, Seal, Entries

\* Log is a sequence as long as the committed table.
LEMMA LogIsSeq ==
  ASSUME ChainInv, LastSeq(ledger) \in Nat, DOMAIN ledger = 1..LastSeq(ledger)
  PROVE  Log \in Seq(Entries) /\ Len(Log) = LastSeq(ledger)
<1>1. \A i \in 1..LastSeq(ledger) : Content(ledger[i]) \in Entries
  BY RowsAreEntries DEF ChainInv
<1>2. Log \in [1..LastSeq(ledger) -> Entries]
  BY <1>1 DEF Log
<1>. QED
  BY <1>2, FunctionIsSeq

\* The position of a session's own rows in what it sees.
LEMMA OwnRows ==
  ASSUME ChainInv, NEW s \in Session
  PROVE  /\ LastSeq(Visible(s)) - LastSeq(ledger) \in Nat
         /\ \A i \in 1..(LastSeq(Visible(s)) - LastSeq(ledger)) :
              /\ LastSeq(ledger) + i \in DOMAIN pending[s]
              /\ LastSeq(ledger) + i \in DOMAIN Visible(s)
              /\ pending[s][LastSeq(ledger) + i] = Visible(s)[LastSeq(ledger) + i]
<1>1. LastSeq(ledger) \in Nat /\ LastSeq(Visible(s)) \in Nat
  BY LastSeqTypes
<1>2. LastSeq(ledger) <= LastSeq(Visible(s))
  BY SeesCommitted
<1>3. DOMAIN pending[s] = (LastSeq(ledger) + 1)..LastSeq(Visible(s))
  BY DEF ChainInv, PendingFollows
<1>4. \A k \in DOMAIN pending[s] : k \in DOMAIN Visible(s) /\ pending[s][k] = Visible(s)[k]
  BY DEF Visible, Merge
<1>. QED
  BY <1>1, <1>2, <1>3, <1>4

\* A batch is a sequence of as many entries as the session has rows of its own.
LEMMA BatchIsSeq ==
  ASSUME ChainInv, NEW s \in Session
  PROVE  /\ Batch(s) \in Seq(Entries)
         /\ Len(Batch(s)) = LastSeq(Visible(s)) - LastSeq(ledger)
<1>1. Chain(Visible(s))
  BY DEF ChainInv
<1>2. \A i \in 1..(LastSeq(Visible(s)) - LastSeq(ledger)) :
        Content(pending[s][LastSeq(ledger) + i]) \in Entries
  BY <1>1, OwnRows, RowsAreEntries
<1>3. Batch(s) \in [1..(LastSeq(Visible(s)) - LastSeq(ledger)) -> Entries]
  BY <1>2 DEF Batch
<1>. QED
  BY <1>3, OwnRows, FunctionIsSeq

\* A session without rows of its own has an empty batch.
LEMMA EmptyBatch ==
  ASSUME ChainInv, NEW s \in Session, pending[s] = NoRows
  PROVE  Batch(s) = <<>>
<1>1. Visible(s) = ledger
  BY SeesLedger
<1>2. LastSeq(ledger) \in Nat
  BY LastSeqTypes
<1>3. Len(Batch(s)) = 0 /\ Batch(s) \in Seq(Entries)
  BY <1>1, <1>2, BatchIsSeq
<1>. QED
  BY <1>3, EmptySeq

------------------------------------------------------------------------------
(* The steps.                                                              *)

LEMMA TrailInitial == LedgerInit => Trail!TrailInit
<1>. SUFFICES ASSUME LedgerInit PROVE Trail!TrailInit
  OBVIOUS
<1>1. NoRows = [i \in DOMAIN NoRows |-> NoRows[i]] /\ DOMAIN NoRows = 1..0
  BY DEF NoRows
<1>2. LastSeq(NoRows) = 0
  BY <1>1, LastOfInterval
<1>3. \A s \in Session : Visible(s) = NoRows
  BY <1>1, MergeNoRows DEF LedgerInit, Visible
<1>4. Log = <<>>
  BY <1>2 DEF Log, LedgerInit
<1>5. \A s \in Session : Batch(s) = <<>>
  BY <1>2, <1>3 DEF Batch, LedgerInit
<1>. QED
  BY <1>4, <1>5 DEF Trail!TrailInit

\* An insert records one entry.
LEMMA InsertRecords ==
  ASSUME ChainInv, NEW s \in Session, NEW header \in Header, NEW payload \in Payload,
         InsertBlock(s, header, payload)
  PROVE  /\ Log' = Log
         /\ Batch(s)' = Append(Batch(s), [header |-> header, payload |-> payload])
         /\ \A t \in Session \ {s} : Batch(t)' = Batch(t)
<1>. DEFINE n == LastSeq(ledger)
            k == LastSeq(Visible(s)) - LastSeq(ledger)
            j == LastSeq(Visible(s)) + 1
            row == Seal(head[s], header, payload)
            entry == [header |-> header, payload |-> payload]
<1>1. /\ ledger' = ledger
      /\ pending'[s] = Merge(pending[s], [i \in {j} |-> row])
      /\ LastSeq(Visible(s)') = j
      /\ \A t \in Session \ {s} : pending'[t] = pending[t] /\ Visible(t)' = Visible(t)
  BY InsertBlockView
<1>2. /\ n \in Nat /\ k \in Nat /\ LastSeq(Visible(s)) \in Nat
      /\ j - n = k + 1 /\ n + (k + 1) = j
      /\ \A i \in 1..k : n + i # j
  <2>1. LastSeq(ledger) \in Nat /\ LastSeq(Visible(s)) \in Nat
    BY LastSeqTypes
  <2>2. LastSeq(Visible(s)) - LastSeq(ledger) \in Nat
    BY OwnRows
  <2>. QED
    BY <2>1, <2>2
<1>3. Log' = Log
  BY <1>1 DEF Log
<1>4. \A t \in Session \ {s} : Batch(t)' = Batch(t)
  BY <1>1 DEF Batch
<1>5. Content(row) = entry /\ entry \in Entries
  BY DEF Content, Seal, Entries
<1>6. Batch(s) \in Seq(Entries) /\ Len(Batch(s)) = k
  BY BatchIsSeq
<1>7. Batch(s)' = [i \in 1..(k + 1) |-> Content(pending'[s][n + i])]
  BY <1>1, <1>2 DEF Batch
<1>8. \A i \in 1..k : pending'[s][n + i] = pending[s][n + i]
  BY <1>1, <1>2, OwnRows DEF Merge
<1>9. pending'[s][n + (k + 1)] = row
  BY <1>1, <1>2 DEF Merge
<1>10. \A i \in 1..k : Content(pending'[s][n + i]) = Batch(s)[i]
  BY <1>8 DEF Batch
<1>11. \A i \in 1..(k + 1) : i \in 1..k \/ i = k + 1
  BY <1>2
<1>12. Batch(s)' \in Seq(Entries) /\ Len(Batch(s)') = k + 1
  <2>1. \A i \in 1..k : Batch(s)[i] \in Entries
    BY <1>6, ElementOfSeq
  <2>2. \A i \in 1..(k + 1) : Content(pending'[s][n + i]) \in Entries
    BY <1>5, <1>9, <1>10, <1>11, <2>1
  <2>3. Batch(s)' \in [1..(k + 1) -> Entries]
    BY <1>7, <2>2
  <2>4. k + 1 \in Nat
    BY <1>2
  <2>. HIDE DEF k
  <2>5. \A f \in [1..(k + 1) -> Entries] : f \in Seq(Entries) /\ Len(f) = k + 1
    BY <2>4, FunctionIsSeq
  <2>. QED
    BY <2>3, <2>5
<1>13. /\ Append(Batch(s), entry) \in Seq(Entries)
       /\ Len(Append(Batch(s), entry)) = k + 1
       /\ \A i \in 1..k : Append(Batch(s), entry)[i] = Batch(s)[i]
       /\ Append(Batch(s), entry)[k + 1] = entry
  BY <1>5, <1>6, AppendProperties
<1>14. \A i \in 1..(k + 1) : Batch(s)'[i] = Append(Batch(s), entry)[i]
  BY <1>5, <1>7, <1>9, <1>10, <1>11, <1>13
<1>15. Batch(s)' = Append(Batch(s), entry)
  BY <1>12, <1>13, <1>14, SeqEqual
<1>. QED
  BY <1>3, <1>4, <1>15

\* A rollback discards a batch.
LEMMA RollbackDiscards ==
  ASSUME ChainInv, NEW s \in Session, Rollback(s)
  PROVE  /\ Log' = Log
         /\ Batch(s)' = <<>>
         /\ \A t \in Session \ {s} : Batch(t)' = Batch(t)
<1>1. ledger' = ledger /\ pending'[s] = NoRows
      /\ \A t \in Session \ {s} : pending'[t] = pending[t]
  BY DEF Rollback, ChainInv
<1>2. Visible(s)' = ledger
  BY <1>1, MergeNoRows DEF Visible, ChainInv, Chain
<1>3. LastSeq(ledger) - LastSeq(ledger) = 0
  <2>1. LastSeq(ledger) \in Nat
    BY LastSeqTypes
  <2>. QED
    BY <2>1
<1>4. Batch(s)' = <<>>
  BY <1>1, <1>2, <1>3 DEF Batch
<1>5. \A t \in Session \ {s} : Batch(t)' = Batch(t)
  BY <1>1 DEF Batch, Visible
<1>. QED
  BY <1>1, <1>4, <1>5 DEF Log

\* A commit publishes a batch.
LEMMA CommitPublishes ==
  ASSUME ChainInv, NEW s \in Session, Commit(s)
  PROVE  /\ Log' = Log \o Batch(s)
         /\ Batch(s)' = <<>>
         /\ \A t \in Session \ {s} : Batch(t)' = Batch(t)
<1>. DEFINE n == LastSeq(ledger)
            m == LastSeq(Visible(s))
            k == m - n
<1>1. /\ ledger' = Visible(s) /\ pending'[s] = NoRows
      /\ \A t \in Session \ {s} : pending'[t] = pending[t]
  BY DEF Commit, ChainInv
<1>2. /\ n \in Nat /\ m \in Nat /\ k \in Nat /\ m = n + k /\ n <= m
      /\ DOMAIN ledger = 1..n /\ DOMAIN Visible(s) = 1..m
  <2>1. LastSeq(ledger) \in Nat /\ LastSeq(Visible(s)) \in Nat
    BY LastSeqTypes
  <2>2. LastSeq(Visible(s)) - LastSeq(ledger) \in Nat
    BY OwnRows
  <2>3. DOMAIN ledger = 1..n /\ DOMAIN Visible(s) = 1..m
    BY DEF ChainInv, Chain
  <2>. QED
    BY <2>1, <2>2, <2>3
<1>3. Chain(Visible(s))
  BY DEF ChainInv
<1>4. Log' = [i \in 1..m |-> Content(Visible(s)[i])]
  BY <1>1 DEF Log
<1>5. Log' \in Seq(Entries) /\ Len(Log') = m
  <2>1. \A i \in 1..m : Content(Visible(s)[i]) \in Entries
    BY <1>2, <1>3, RowsAreEntries
  <2>2. Log' \in [1..m -> Entries]
    BY <1>4, <2>1
  <2>. QED
    BY <1>2, <2>2, FunctionIsSeq
<1>6. /\ Log \in Seq(Entries) /\ Len(Log) = n
      /\ Batch(s) \in Seq(Entries) /\ Len(Batch(s)) = k
  BY <1>2, LogIsSeq, BatchIsSeq
<1>7. /\ Log \o Batch(s) \in Seq(Entries) /\ Len(Log \o Batch(s)) = m
      /\ \A i \in 1..m : (Log \o Batch(s))[i] = IF i <= n THEN Log[i] ELSE Batch(s)[i - n]
  <2>1. /\ Log \o Batch(s) \in Seq(Entries)
        /\ Len(Log \o Batch(s)) = Len(Log) + Len(Batch(s))
        /\ \A i \in 1..(Len(Log) + Len(Batch(s))) : (Log \o Batch(s))[i] =
             IF i <= Len(Log) THEN Log[i] ELSE Batch(s)[i - Len(Log)]
    BY <1>6, ConcatProperties
  <2>2. Len(Log) + Len(Batch(s)) = m
    BY <1>2, <1>6
  <2>. QED
    BY <1>6, <2>1, <2>2
<1>8. ASSUME NEW i \in 1..m
      PROVE  Log'[i] = (Log \o Batch(s))[i]
  <2>1. CASE i <= n
    <3>1. i \in 1..n /\ Visible(s)[i] = ledger[i]
      BY <1>2, <2>1, SeesCommitted
    <3>. QED
      BY <1>4, <1>7, <2>1, <3>1 DEF Log
  <2>2. CASE ~ (i <= n)
    <3>1. i - n \in 1..k /\ n + (i - n) = i
      BY <1>2, <2>2
    <3>2. pending[s][n + (i - n)] = Visible(s)[n + (i - n)]
      BY <3>1, OwnRows
    <3>3. Batch(s)[i - n] = Content(pending[s][n + (i - n)])
      BY <3>1 DEF Batch
    <3>. QED
      BY <1>4, <1>7, <2>2, <3>1, <3>2, <3>3
  <2>. QED
    BY <2>1, <2>2
<1>9. Log' = Log \o Batch(s)
  BY <1>5, <1>7, <1>8, SeqEqual
<1>10. Visible(s)' = ledger'
  BY <1>1, <1>3, MergeNoRows DEF Visible, Chain
<1>11. LastSeq(Visible(s)') - LastSeq(ledger') = 0
  BY <1>1, <1>2, <1>10
<1>12. Batch(s)' = <<>>
  BY <1>11 DEF Batch
<1>13. ASSUME NEW t \in Session \ {s}
       PROVE  Batch(t)' = Batch(t)
  <2>1. CASE pending[s] = NoRows
    <3>1. ledger' = ledger
      BY <1>1, <2>1, SeesLedger
    <3>. QED
      BY <1>1, <3>1 DEF Batch, Visible
  <2>2. CASE pending[s] # NoRows
    <3>1. pending[t] = NoRows /\ pending'[t] = NoRows
      BY <1>1, <2>2 DEF ChainInv, OneAppender
    <3>2. Visible(t)' = ledger'
      BY <1>1, <1>3, <3>1, MergeNoRows DEF Visible, Chain
    <3>3. LastSeq(Visible(t)') - LastSeq(ledger') = 0
      BY <1>1, <1>2, <3>2
    <3>4. Batch(t)' = <<>>
      BY <3>3 DEF Batch
    <3>. QED
      BY <3>1, <3>4, EmptyBatch
  <2>. QED
    BY <2>1, <2>2
<1>. QED
  BY <1>9, <1>12, <1>13

LEMMA TrailStep ==
  ChainInv /\ [LedgerNext]_ledgerVars => [Trail!TrailNext]_(Trail!trailVars)
<1>. SUFFICES ASSUME ChainInv, [LedgerNext]_ledgerVars
              PROVE  [Trail!TrailNext]_(Trail!trailVars)
  OBVIOUS
<1>. DEFINE batches == [s \in Session |-> Batch(s)]
<1>1. CASE UNCHANGED ledgerVars
  BY <1>1 DEF ledgerVars, Trail!trailVars, Log, Batch, Visible
<1>2. ASSUME NEW s \in Session, ReadHead(s)
      PROVE  UNCHANGED Trail!trailVars
  BY <1>2 DEF ReadHead, Trail!trailVars, Log, Batch, Visible
<1>3. ASSUME NEW s \in Session, NEW header \in Header, NEW payload \in Payload,
             InsertBlock(s, header, payload)
      PROVE  Trail!TrailNext
  <2>1. batches' = [batches EXCEPT ![s] = Append(@, [header |-> header, payload |-> payload])]
    BY <1>3, InsertRecords
  <2>2. [header |-> header, payload |-> payload] \in [header : Header, payload : Payload]
    OBVIOUS
  <2>. QED
    BY <1>3, <2>1, <2>2, InsertRecords DEF Trail!TrailNext, Trail!Record
<1>4. ASSUME NEW s \in Session, Rollback(s)
      PROVE  Trail!TrailNext
  <2>1. batches' = [batches EXCEPT ![s] = <<>>]
    BY <1>4, RollbackDiscards
  <2>. QED
    BY <1>4, <2>1, RollbackDiscards DEF Trail!TrailNext, Trail!Discard
<1>5. ASSUME NEW s \in Session, Commit(s)
      PROVE  Trail!TrailNext
  <2>1. batches' = [batches EXCEPT ![s] = <<>>] /\ Log' = Log \o batches[s]
    BY <1>5, CommitPublishes
  <2>. QED
    BY <2>1 DEF Trail!TrailNext, Trail!Publish
<1>6. ASSUME NEW s \in Session, InsertConflict(s)
      PROVE  Trail!TrailNext
  BY <1>4, <1>6 DEF InsertConflict
<1>. QED
  BY <1>1, <1>2, <1>3, <1>4, <1>5, <1>6 DEF LedgerNext

\* record_entry's unlocked read and insert, under any number of concurrent sessions,
\* implement an atomic append of each transaction's entries to one log.
THEOREM LedgerImplementsTrail == LedgerSpec => ImplementsTrail
BY ChainInvariant, TrailInitial, TrailStep, PTL DEF LedgerSpec, ImplementsTrail, Trail!TrailSpec
==============================================================================
