--------------------------- MODULE LedgerTampering ---------------------------
(***************************************************************************)
(* The ledger while somebody with database access runs UPDATE statements   *)
(* on sox_audit_ledger: the appenders carry on, and verify_chain is asked  *)
(* what it makes of the table.  Any column may be written, one at a time,  *)
(* and any value computed for it but one: SECRET_KEY stays with the        *)
(* application, so the only valid signatures are those already in a row.   *)
(***************************************************************************)
EXTENDS SoxLedger

CONSTANTS
  Unhashed,     \* what of a row no hash covers: entry_id, the fraction of the second
                \* format_timestamp drops, and where in the header string of
                \* compute_block_hash one column ends and the next begins
  MaxUpdates    \* bound on the direct UPDATE statements

VARIABLES
  unhashed,  \* that part of each committed row
  sealed,    \* history: the rows the application committed, with their sequence_id and
             \* unhashed part
  updates    \* how many direct UPDATEs there have been

tamperVars == <<ledger, pending, head, unhashed, sealed, updates>>

TamperInit ==
  /\ LedgerInit
  /\ unhashed = NoRows
  /\ sealed = {}
  /\ updates = 0

Application ==
  /\ LedgerNext
  /\ LET new == DOMAIN ledger' \ DOMAIN ledger IN
       /\ \E rest \in [new -> Unhashed] : unhashed' = Merge(unhashed, rest)
       /\ sealed' = sealed \cup { <<i, ledger'[i], unhashed'[i]>> : i \in new }
  /\ UNCHANGED updates

\* Neither a digest of anything in the table nor a signature.
Junk == <<"junk">>

\* Digests an UPDATE of row i may write: those in the table, those that follow from its
\* columns, and one that is neither.
Digests(i) ==
  LET row == ledger[i] IN
    { Junk, GENESIS_PREVIOUS_HASH }
    \cup { HashPayload(p) : p \in Payload }
    \cup { ledger[j].block_hash : j \in DOMAIN ledger }
    \cup { ComputeBlockHash(i, row.header, row.payload_hash, row.previous_hash) }

\* What a direct UPDATE may write into each hashed column of row i.
RowUpdates(i) ==
  LET row == ledger[i] IN
    { [row EXCEPT !.header = h] : h \in Header }
    \cup { [row EXCEPT !.payload = p] : p \in Payload }
    \cup { [row EXCEPT !.payload_hash = d] : d \in Digests(i) }
    \cup { [row EXCEPT !.previous_hash = d] : d \in Digests(i) }
    \cup { [row EXCEPT !.block_hash = d] : d \in Digests(i) }
    \cup { [row EXCEPT !.signature = g] : g \in { ledger[j].signature : j \in DOMAIN ledger } \cup {Junk} }

\* Row i of a table under number k instead.
Renumbered(rows, i, k) == [j \in (DOMAIN rows \ {i}) \cup {k} |-> IF j = k THEN rows[i] ELSE rows[j]]

\* UPDATE of a hashed column of row i, of its sequence_id (the primary key has to be
\* free), or of a column no hash covers.
DirectUpdate(i) ==
  /\ updates < MaxUpdates
  /\ \/ /\ \E row \in RowUpdates(i) \ {ledger[i]} : ledger' = [ledger EXCEPT ![i] = row]
        /\ UNCHANGED unhashed
     \/ \E k \in (0..MaxSeq) \ (DOMAIN ledger \cup UNION { DOMAIN pending[s] : s \in Session }) :
          /\ ledger' = Renumbered(ledger, i, k)
          /\ unhashed' = Renumbered(unhashed, i, k)
     \/ /\ \E rest \in Unhashed \ {unhashed[i]} : unhashed' = [unhashed EXCEPT ![i] = rest]
        /\ UNCHANGED ledger
  /\ updates' = updates + 1
  /\ UNCHANGED <<pending, head, sealed>>

TamperNext == Application \/ \E i \in DOMAIN ledger : DirectUpdate(i)

TamperSpec == TamperInit /\ [][TamperNext]_tamperVars

------------------------------------------------------------------------------
(* Properties.                                                             *)

\* verify_chain over `limit' rows stops no later than at the first of `rows' it reads.
Reported(rows, limit) ==
  LET seen == rows \cap Checked(ledger, limit)
      result == VerifyChain(ledger, limit)
  IN seen # {} => result.status = "COMPROMISED" /\ result.tampered_sequence_id <= Min(seen)

\* However many UPDATEs have been run on whatever columns the block hash covers,
\* sequence_id included, and whatever was appended since, verify_chain over a prefix
\* that holds a row the application did not write there reports a row no later than
\* the first such (ledger.py:188-279; test_sox_ledger.py:135).
TamperEvident ==
  \A limit \in 0..MaxSeq :
    Reported({ i \in DOMAIN ledger : \A rest \in Unhashed : <<i, ledger[i], rest>> \notin sealed },
             limit)

\* README.md:192: any alteration of the rows is detected, whatever the column.
AnyUpdateEvident ==
  \A limit \in 0..MaxSeq :
    Reported({ i \in DOMAIN ledger : <<i, ledger[i], unhashed[i]>> \notin sealed }, limit)
==============================================================================
