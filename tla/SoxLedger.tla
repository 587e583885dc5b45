------------------------------ MODULE SoxLedger ------------------------------
(***************************************************************************)
(* core/ledger.py on PostgreSQL at READ COMMITTED.  Every session is one   *)
(* request's transaction (core/database.py, get_db).  record_entry reads   *)
(* the highest block and then inserts the next one: two statements, with   *)
(* no lock between them, so what keeps the chain whole under concurrent    *)
(* appenders is the primary key on sequence_id and the transaction.        *)
(***************************************************************************)
EXTENDS Integers, FiniteSetsExt

CONSTANTS
  Session,   \* concurrent database sessions
  Header,    \* the hashed columns of a row: timestamp to the second, trace,
             \* entity, action and actor
  Payload,   \* the JSON payloads
  MaxSeq     \* bound on sequence_id

ASSUME MaxSeqAssumption == MaxSeq \in Nat

VARIABLES
  ledger,    \* the committed rows of sox_audit_ledger, by sequence_id
  pending,   \* per session, the rows it has inserted and not yet committed
  head       \* per session, the link record_entry computed from its read

ledgerVars == <<ledger, pending, head>>

------------------------------------------------------------------------------
(* Hashes are free constructors: equal only on equal inputs.               *)

GENESIS_PREVIOUS_HASH == <<"genesis">>

HashPayload(payload) == <<"payload", payload>>

ComputeBlockHash(sequence_id, header, payload_hash, previous_hash) ==
  <<"block", sequence_id, header, payload_hash, previous_hash>>

SignBlock(block_hash) == <<"signature", block_hash>>

\* The row record_entry builds from a link, a header and a payload.
Seal(link, header, payload) ==
  LET payload_hash == HashPayload(payload)
      block_hash == ComputeBlockHash(link.sequence_id, header, payload_hash,
                                     link.previous_hash)
  IN [ header |-> header, payload |-> payload, payload_hash |-> payload_hash,
       previous_hash |-> link.previous_hash, block_hash |-> block_hash,
       signature |-> SignBlock(block_hash) ]

------------------------------------------------------------------------------
(* Tables: functions from a finite set of sequence ids to rows.            *)

NoRows == [i \in {} |-> i]

Merge(old, new) ==
  [i \in DOMAIN old \cup DOMAIN new |-> IF i \in DOMAIN new THEN new[i] ELSE old[i]]

LastSeq(rows) == IF DOMAIN rows = {} THEN 0 ELSE Max(DOMAIN rows)

\* What a statement of session s sees: committed rows and its own.
Visible(s) == Merge(ledger, pending[s])

NoHead == [sequence_id |-> 0, previous_hash |-> GENESIS_PREVIOUS_HASH]

\* Mutant of NextLink: the number comes from a database sequence, which counts the
\* uncommitted rows of others too.
NextLinkFromSequence(rows) ==
  [ sequence_id |-> Max({0} \cup DOMAIN rows \cup UNION { DOMAIN pending[t] : t \in Session }) + 1,
    previous_hash |-> IF DOMAIN rows = {} THEN GENESIS_PREVIOUS_HASH
                      ELSE rows[LastSeq(rows)].block_hash ]

\* The sequence number and previous hash of the block after the last one.
NextLink(rows) ==
  [ sequence_id |-> LastSeq(rows) + 1,
    previous_hash |-> IF DOMAIN rows = {} THEN GENESIS_PREVIOUS_HASH
                      ELSE rows[LastSeq(rows)].block_hash ]

------------------------------------------------------------------------------
(* record_entry, and the end of the transaction it runs in.                *)

LedgerInit ==
  /\ ledger = NoRows
  /\ pending = [s \in Session |-> NoRows]
  /\ head = [s \in Session |-> NoHead]

\* Mutant of ReadHead: the read misses the rows the session itself has added.
ReadHeadUnflushed(s) ==
  /\ head[s] = NoHead
  /\ LastSeq(Visible(s)) < MaxSeq
  /\ head' = [head EXCEPT ![s] = NextLink(ledger)]
  /\ UNCHANGED <<ledger, pending>>

\* SELECT ... ORDER BY sequence_id DESC LIMIT 1, and the link made from it.
ReadHead(s) ==
  /\ head[s] = NoHead
  /\ LastSeq(Visible(s)) < MaxSeq
  /\ head' = [head EXCEPT ![s] = NextLink(Visible(s))]
  /\ UNCHANGED <<ledger, pending>>

\* PostgreSQL makes an INSERT wait while another open transaction holds the key.
KeyHolder(s) == { t \in Session \ {s} : head[s].sequence_id \in DOMAIN pending[t] }

\* Mutant of InsertBlock: record_entry commits the block it has inserted.
InsertBlockAutocommit(s, header, payload) ==
  /\ head[s] # NoHead
  /\ head[s].sequence_id \notin DOMAIN ledger
  /\ KeyHolder(s) = {}
  /\ ledger' = Merge(Visible(s),
                    [i \in {head[s].sequence_id} |-> Seal(head[s], header, payload)])
  /\ pending' = [pending EXCEPT ![s] = NoRows]
  /\ head' = [head EXCEPT ![s] = NoHead]

\* The INSERT and flush, when the key is free.
InsertBlock(s, header, payload) ==
  /\ head[s] # NoHead
  /\ head[s].sequence_id \notin DOMAIN ledger
  /\ KeyHolder(s) = {}
  /\ pending' = [pending EXCEPT ![s] =
                   Merge(@, [i \in {head[s].sequence_id} |-> Seal(head[s], header, payload)])]
  /\ head' = [head EXCEPT ![s] = NoHead]
  /\ UNCHANGED ledger

\* The transaction is rolled back: an exception in the handler, or a crash.
Rollback(s) ==
  /\ pending' = [pending EXCEPT ![s] = NoRows]
  /\ head' = [head EXCEPT ![s] = NoHead]
  /\ UNCHANGED ledger

\* Mutant of InsertConflict: the insert is retried under the next free number, with
\* the previous hash already read.
InsertConflictRenumbered(s) ==
  /\ head[s] # NoHead
  /\ head[s].sequence_id \in DOMAIN ledger
  /\ head' = [head EXCEPT ![s].sequence_id = LastSeq(Visible(s)) + 1]
  /\ UNCHANGED <<ledger, pending>>

\* Mutant of InsertConflict: INSERT ... ON CONFLICT DO UPDATE.
InsertConflictUpsert(s) ==
  /\ head[s] # NoHead
  /\ head[s].sequence_id \in DOMAIN ledger
  /\ \E header \in Header, payload \in Payload :
       pending' = [pending EXCEPT ![s] =
         Merge(@, [i \in {head[s].sequence_id} |-> Seal(head[s], header, payload)])]
  /\ head' = [head EXCEPT ![s] = NoHead]
  /\ UNCHANGED ledger

\* The INSERT when the key is committed: IntegrityError out of flush, and get_db
\* rolls back.
InsertConflict(s) ==
  /\ head[s] # NoHead
  /\ head[s].sequence_id \in DOMAIN ledger
  /\ Rollback(s)

\* The commit at the end of the request.
Commit(s) ==
  /\ head[s] = NoHead
  /\ ledger' = Visible(s)
  /\ pending' = [pending EXCEPT ![s] = NoRows]
  /\ UNCHANGED head

LedgerNext ==
  \E s \in Session :
    \/ ReadHead(s)
    \/ \E header \in Header, payload \in Payload : InsertBlock(s, header, payload)
    \/ InsertConflict(s)
    \/ Commit(s)
    \/ Rollback(s)

LedgerSpec == LedgerInit /\ [][LedgerNext]_ledgerVars

------------------------------------------------------------------------------
(* verify_chain.                                                           *)

\* Mutant of Intact: no comparison of the signature.
IntactUnsigned(rows, i) ==
  /\ i = 1 \/ i - 1 \in DOMAIN rows
  /\ rows[i].previous_hash = IF i = 1 THEN GENESIS_PREVIOUS_HASH
                             ELSE rows[i - 1].block_hash
  /\ HashPayload(rows[i].payload) = rows[i].payload_hash
  /\ ComputeBlockHash(i, rows[i].header, rows[i].payload_hash, rows[i].previous_hash)
       = rows[i].block_hash

\* The five comparisons verify_chain makes for row i, in its order.  The row
\* before it, when it is in the table, is the one the loop last looked at.
Intact(rows, i) ==
  /\ i = 1 \/ i - 1 \in DOMAIN rows
  /\ rows[i].previous_hash = IF i = 1 THEN GENESIS_PREVIOUS_HASH
                             ELSE rows[i - 1].block_hash
  /\ HashPayload(rows[i].payload) = rows[i].payload_hash
  /\ ComputeBlockHash(i, rows[i].header, rows[i].payload_hash, rows[i].previous_hash)
       = rows[i].block_hash
  /\ rows[i].signature = SignBlock(rows[i].block_hash)

\* The rows the loop reads: the first `limit' of them, or all when it is 0 (None).
Checked(rows, limit) ==
  { i \in DOMAIN rows :
      limit = 0 \/ Cardinality({ j \in DOMAIN rows : j < i }) < limit }

\* The loop returns at its first bad row; 0 stands for no row.
VerifyChain(rows, limit) ==
  LET bad == { i \in Checked(rows, limit) : ~ Intact(rows, i) }
  IN [ status |-> IF bad = {} THEN "SECURE" ELSE "COMPROMISED",
       total_entries |-> Cardinality(Checked(rows, limit)),
       tampered_sequence_id |-> IF bad = {} THEN 0 ELSE Min(bad) ]

------------------------------------------------------------------------------
(* Properties.                                                             *)

\* Every row a session or the table holds has its columns, and sequence ids stay
\* within the bound.
LedgerTypeOK ==
  /\ DOMAIN ledger \subseteq 1..MaxSeq
  /\ DOMAIN pending = Session
  /\ DOMAIN head = Session
  /\ \A s \in Session : /\ DOMAIN pending[s] \subseteq 1..MaxSeq
                        /\ head[s].sequence_id \in 0..MaxSeq
  /\ \A i \in DOMAIN ledger : ledger[i].header \in Header /\ ledger[i].payload \in Payload

\* Whatever the appenders' interleaving, crashes and conflicts, what is committed
\* passes verify_chain: no gap, no fork, no duplicate sequence number (record_entry
\* reads the head without a lock, ledger.py:115).
ChainSecure == VerifyChain(ledger, 0).status = "SECURE"

\* At most one transaction has uncommitted blocks, although nothing locks the
\* table: so no commit can slip between the blocks of another's batch.
OneAppender ==
  \A s, t \in Session : pending[s] # NoRows /\ pending[t] # NoRows => s = t

\* The link the block at sequence number i of a table has to carry.
LinkAt(rows, i) ==
  [ sequence_id |-> i,
    previous_hash |-> IF i = 1 THEN GENESIS_PREVIOUS_HASH ELSE rows[i - 1].block_hash ]

\* A table without gaps, every block of which record_entry sealed on the one before.
Chain(rows) ==
  /\ rows = [i \in DOMAIN rows |-> rows[i]]
  /\ LastSeq(rows) \in 0..MaxSeq
  /\ DOMAIN rows = 1..LastSeq(rows)
  /\ \A i \in DOMAIN rows :
       \E header \in Header, payload \in Payload :
         rows[i] = Seal(LinkAt(rows, i), header, payload)

\* Uncommitted blocks follow the committed ones.
PendingFollows(s) ==
  DOMAIN pending[s] = (LastSeq(ledger) + 1)..LastSeq(Visible(s))

\* A head that was read is the link of some block of what the session sees or of the
\* next one; of the next one, if the session has blocks of its own to commit.
HeadLinks(s) ==
  head[s] # NoHead =>
    /\ head[s].sequence_id \in 1..MaxSeq
    /\ head[s].sequence_id <= LastSeq(Visible(s)) + 1
    /\ head[s] = LinkAt(Visible(s), head[s].sequence_id)
    /\ pending[s] # NoRows => head[s].sequence_id = LastSeq(Visible(s)) + 1

\* Why the chain holds although the head is read without a lock (ledger.py:115-156):
\* the committed table, and what each session sees, are chains at all times; a stale
\* head is always one whose key is taken.
ChainInv ==
  /\ Chain(ledger)
  /\ pending = [s \in Session |-> pending[s]]
  /\ head = [s \in Session |-> head[s]]
  /\ \A s \in Session : /\ Chain(Visible(s))
                        /\ pending[s] = [i \in DOMAIN pending[s] |-> pending[s][i]]
                        /\ PendingFollows(s)
                        /\ HeadLinks(s)
  /\ OneAppender

\* Committed blocks are never rewritten or removed, by any step of any session
\* (the table is only ever inserted into).
AppendOnly ==
  [][ \A i \in DOMAIN ledger : i \in DOMAIN ledger' /\ ledger'[i] = ledger[i] ]_ledgerVars

\* The refinement mapping: the committed rows are the log, and the rows a session
\* has not committed are its batch, in the order of their sequence numbers.
Content(row) == [header |-> row.header, payload |-> row.payload]

Log == [i \in 1..LastSeq(ledger) |-> Content(ledger[i])]

Batch(s) ==
  [ i \in 1..(LastSeq(Visible(s)) - LastSeq(ledger)) |->
      Content(pending[s][LastSeq(ledger) + i]) ]

Trail == INSTANCE AuditTrail WITH
  Entry <- [header : Header, payload : Payload],
  log <- Log,
  batch <- [s \in Session |-> Batch(s)]

\* Entries are never lost, duplicated, reordered or mixed with another transaction's:
\* record_entry with its unlocked head read still implements the atomic log.
ImplementsTrail == Trail!TrailSpec
==============================================================================
