------------------------ MODULE LedgerTamperingProofs ------------------------
(***************************************************************************)
(* No sequence of direct UPDATEs can alter a hashed column past            *)
(* verify_chain, for any number of rows, UPDATEs and concurrent appenders. *)
(***************************************************************************)
EXTENDS LedgerTampering, SoxLedgerProofs

------------------------------------------------------------------------------
(* What UPDATEs cannot change.                                             *)

\* A row as record_entry builds it for sequence number i.
IsSeal(i, row) ==
  row = Seal([sequence_id |-> i, previous_hash |-> row.previous_hash], row.header, row.payload)

HasColumns(row) ==
  row = [ header |-> row.header, payload |-> row.payload, payload_hash |-> row.payload_hash,
          previous_hash |-> row.previous_hash, block_hash |-> row.block_hash,
          signature |-> row.signature ]

\* Row was committed by the application, under number i.
SealedAs(i, row) == \E rest \in Unhashed : <<i, row, rest>> \in sealed

\* The signatures in the table are ones the application made, or none at all.
Signatures ==
  \A k \in DOMAIN ledger :
    /\ HasColumns(ledger[k])
    /\ \/ ledger[k].signature = Junk
       \/ \E i, row : SealedAs(i, row) /\ ledger[k].signature = row.signature

Tables ==
  /\ ledger = [i \in DOMAIN ledger |-> ledger[i]]
  /\ DOMAIN ledger \subseteq 0..MaxSeq
  /\ \A i, row : SealedAs(i, row) => IsSeal(i, row)

\* Uncommitted rows have keys of their own.
Keys ==
  \A s \in Session :
    /\ DOMAIN pending[s] \subseteq 1..MaxSeq
    /\ DOMAIN pending[s] \cap DOMAIN ledger = {}
    /\ \A t \in Session \ {s} : DOMAIN pending[s] \cap DOMAIN pending[t] = {}

Uncommitted ==
  /\ pending = [s \in Session |-> pending[s]]
  /\ head = [s \in Session |-> head[s]]
  /\ \A s \in Session :
       /\ pending[s] = [i \in DOMAIN pending[s] |-> pending[s][i]]
       /\ \A i \in DOMAIN pending[s] : IsSeal(i, pending[s][i])
       /\ head[s] # NoHead => head[s].sequence_id \in 1..MaxSeq

TamperInv == Tables /\ Signatures /\ Keys /\ Uncommitted

LEMMA SealIsSeal ==
  ASSUME NEW link, NEW header, NEW payload
  PROVE  IsSeal(link.sequence_id, Seal(link, header, payload))
BY DEF IsSeal, Seal

LEMMA SealHasColumns ==
  ASSUME NEW i, NEW row, IsSeal(i, row)
  PROVE  HasColumns(row)
BY DEF IsSeal, Seal, HasColumns

LEMMA TamperInvInit == TamperInit => TamperInv
BY DEF SealedAs, TamperInit, LedgerInit, TamperInv, Tables, Signatures, Keys, Uncommitted, NoRows

------------------------------------------------------------------------------
(* The application's steps.  Those that commit nothing leave sealed alone. *)

LEMMA NothingCommitted ==
  ASSUME TamperInv, Application, ledger' = ledger
  PROVE  sealed' = sealed
BY DEF Application

LEMMA ReadHeadKeeps ==
  ASSUME TamperInv, Application, NEW s \in Session, ReadHead(s)
  PROVE  TamperInv'
<1>. USE MaxSeqAssumption
<1>1. sealed' = sealed /\ UNCHANGED <<ledger, pending>>
  BY NothingCommitted DEF ReadHead
<1>2. LastSeq(Visible(s)) \in 0..MaxSeq
  <2>1. DOMAIN Visible(s) \in SUBSET (0..MaxSeq)
    BY DEF Visible, Merge, TamperInv, Tables, Keys
  <2>2. CASE DOMAIN Visible(s) = {}
    BY <2>2 DEF LastSeq
  <2>3. CASE DOMAIN Visible(s) # {}
    BY <2>1, <2>3, MaxOfSet DEF LastSeq
  <2>. QED
    BY <2>2, <2>3
<1>3. LastSeq(Visible(s)) + 1 \in 1..MaxSeq
  BY <1>2 DEF ReadHead
<1>4. /\ head' = [t \in Session |-> head'[t]]
      /\ \A t \in Session : head'[t] = IF t = s THEN NextLink(Visible(s)) ELSE head[t]
  BY DEF ReadHead, TamperInv, Uncommitted
<1>5. \A t \in Session : head'[t] # NoHead => head'[t].sequence_id \in 1..MaxSeq
  BY <1>3, <1>4 DEF NextLink, TamperInv, Uncommitted
<1>6. Uncommitted'
  BY <1>1, <1>4, <1>5 DEF TamperInv, Uncommitted
<1>. QED
  BY <1>1, <1>6 DEF TamperInv, Tables, Signatures, SealedAs, Keys

LEMMA InsertKeeps ==
  ASSUME TamperInv, Application, NEW s \in Session, NEW header, NEW payload,
         InsertBlock(s, header, payload)
  PROVE  TamperInv'
<1>. DEFINE key == head[s].sequence_id
            block == Seal(head[s], header, payload)
            rows == [i \in DOMAIN pending[s] \cup {key} |->
                       IF i = key THEN block ELSE pending[s][i]]
<1>1. sealed' = sealed /\ UNCHANGED ledger
  BY NothingCommitted DEF InsertBlock
<1>2. /\ pending' = [t \in Session |-> pending'[t]]
      /\ \A t \in Session : pending'[t] = IF t = s THEN rows ELSE pending[t]
  BY DEF InsertBlock, Merge, TamperInv, Uncommitted
<1>3. /\ key \in 1..MaxSeq
      /\ key \notin DOMAIN ledger
      /\ \A t \in Session \ {s} : key \notin DOMAIN pending[t]
  BY DEF InsertBlock, KeyHolder, TamperInv, Uncommitted
<1>4. IsSeal(key, block)
  BY SealIsSeal
<1>. HIDE DEF block, key
<1>5. Keys'
  BY <1>1, <1>2, <1>3 DEF TamperInv, Keys
<1>6. /\ head' = [t \in Session |-> head'[t]]
      /\ \A t \in Session : head'[t] = IF t = s THEN NoHead ELSE head[t]
  BY DEF InsertBlock, TamperInv, Uncommitted
<1>7. \A t \in Session : \A i \in DOMAIN pending'[t] : IsSeal(i, pending'[t][i])
  BY <1>2, <1>4 DEF TamperInv, Uncommitted
<1>8. \A t \in Session : pending'[t] = [i \in DOMAIN pending'[t] |-> pending'[t][i]]
  BY <1>2 DEF TamperInv, Uncommitted
<1>9. Uncommitted'
  BY <1>2, <1>6, <1>7, <1>8 DEF TamperInv, Uncommitted
<1>. QED
  BY <1>1, <1>5, <1>9 DEF TamperInv, Tables, Signatures, SealedAs

LEMMA RollbackKeeps ==
  ASSUME TamperInv, Application, NEW s \in Session, Rollback(s)
  PROVE  TamperInv'
<1>1. sealed' = sealed /\ UNCHANGED ledger
  BY NothingCommitted DEF Rollback
<1>2. /\ pending' = [t \in Session |-> pending'[t]]
      /\ \A t \in Session : pending'[t] = IF t = s THEN NoRows ELSE pending[t]
      /\ head' = [t \in Session |-> head'[t]]
      /\ \A t \in Session : head'[t] = IF t = s THEN NoHead ELSE head[t]
  BY DEF Rollback, TamperInv, Uncommitted
<1>3. Keys'
  BY <1>1, <1>2 DEF TamperInv, Keys, NoRows
<1>4. Uncommitted'
  BY <1>2 DEF TamperInv, Uncommitted, NoRows
<1>. QED
  BY <1>1, <1>3, <1>4 DEF TamperInv, Tables, Signatures, SealedAs

LEMMA CommitKeeps ==
  ASSUME TamperInv, Application, NEW s \in Session, Commit(s)
  PROVE  TamperInv'
<1>. DEFINE new == pending[s]
<1>1. /\ DOMAIN ledger' = DOMAIN ledger \cup DOMAIN new
      /\ ledger' = [i \in DOMAIN ledger' |-> ledger'[i]]
      /\ \A i \in DOMAIN new : ledger'[i] = new[i]
      /\ \A i \in DOMAIN ledger : ledger'[i] = ledger[i]
  BY DEF Commit, Visible, Merge, TamperInv, Keys
<1>2. DOMAIN ledger' \ DOMAIN ledger = DOMAIN new
  BY <1>1 DEF TamperInv, Keys
<1>3. PICK rest \in [DOMAIN new -> Unhashed] : unhashed' = Merge(unhashed, rest)
  BY <1>2 DEF Application
<1>4. \A x : x \in sealed' <=> x \in sealed \/ \E i \in DOMAIN new : x = <<i, new[i], rest[i]>>
  <2>1. \A i \in DOMAIN new : ledger'[i] = new[i] /\ unhashed'[i] = rest[i]
    BY <1>1, <1>3 DEF Merge
  <2>2. sealed' = sealed \cup { <<i, ledger'[i], unhashed'[i]>> : i \in DOMAIN ledger' \ DOMAIN ledger }
    BY DEF Application
  <2>. QED
    BY <1>2, <2>1, <2>2
<1>5. \A i, row : SealedAs(i, row)' => SealedAs(i, row) \/ (i \in DOMAIN new /\ row = new[i])
  BY <1>4 DEF SealedAs
<1>6. /\ \A i, row : SealedAs(i, row) => SealedAs(i, row)'
      /\ \A i \in DOMAIN new : \A row : row = new[i] => SealedAs(i, row)'
  <2>1. \A i \in DOMAIN new : rest[i] \in Unhashed
    OBVIOUS
  <2>. QED
    BY <1>4, <2>1 DEF SealedAs
<1>7. /\ pending' = [t \in Session |-> pending'[t]]
      /\ \A t \in Session : pending'[t] = IF t = s THEN NoRows ELSE pending[t]
      /\ head' = head
  BY DEF Commit, TamperInv, Uncommitted
<1>8. Tables'
  BY <1>1, <1>5 DEF TamperInv, Tables, Keys, Uncommitted
<1>9. Signatures'
  <2>. SUFFICES ASSUME NEW k \in DOMAIN ledger'
                PROVE  /\ HasColumns(ledger'[k])
                       /\ \/ ledger'[k].signature = Junk
                          \/ \E i, row : SealedAs(i, row)' /\ ledger'[k].signature = row.signature
    BY DEF Signatures, HasColumns
  <2>1. CASE k \in DOMAIN new
    <3>1. PICK row : row = new[k]
      OBVIOUS
    <3>2. ledger'[k] = row /\ SealedAs(k, row)'
      BY <1>1, <1>6, <2>1, <3>1
    <3>3. HasColumns(row)
      BY <2>1, <3>1, SealHasColumns DEF TamperInv, Uncommitted
    <3>. QED
      BY <3>2, <3>3
  <2>2. CASE k \in DOMAIN ledger
    BY <1>1, <1>6, <2>2 DEF TamperInv, Signatures
  <2>. QED
    BY <1>1, <2>1, <2>2
<1>10. Keys'
  BY <1>1, <1>7 DEF TamperInv, Keys, NoRows
<1>11. Uncommitted'
  BY <1>7 DEF TamperInv, Uncommitted, NoRows
<1>. QED
  BY <1>8, <1>9, <1>10, <1>11 DEF TamperInv

------------------------------------------------------------------------------
(* A direct UPDATE.                                                        *)

LEMMA DirectUpdateKeeps ==
  ASSUME TamperInv, NEW i \in DOMAIN ledger, DirectUpdate(i)
  PROVE  TamperInv'
<1>1. UNCHANGED <<pending, head, sealed>>
  BY DEF DirectUpdate
<1>2. \A k, row : SealedAs(k, row)' <=> SealedAs(k, row)
  BY <1>1 DEF SealedAs
<1>3. ASSUME NEW row \in RowUpdates(i), ledger' = [ledger EXCEPT ![i] = row]
      PROVE  TamperInv'
  <2>1. /\ HasColumns(row)
        /\ row.signature = Junk \/ \E j \in DOMAIN ledger : row.signature = ledger[j].signature
    <3>1. HasColumns(ledger[i])
      BY DEF TamperInv, Signatures
    <3>. QED
      BY <3>1, <1>3 DEF RowUpdates, HasColumns
  <2>2. \/ row.signature = Junk
        \/ \E k, r : SealedAs(k, r) /\ row.signature = r.signature
    BY <2>1 DEF TamperInv, Signatures
  <2>3. /\ DOMAIN ledger' = DOMAIN ledger
        /\ ledger' = [k \in DOMAIN ledger' |-> ledger'[k]]
        /\ \A k \in DOMAIN ledger : ledger'[k] = IF k = i THEN row ELSE ledger[k]
    BY <1>3 DEF TamperInv, Tables
  <2>4. Signatures'
    BY <1>2, <2>1, <2>2, <2>3 DEF TamperInv, Signatures, HasColumns
  <2>5. Tables' /\ Keys' /\ Uncommitted'
    BY <1>1, <1>2, <2>3 DEF TamperInv, Tables, Keys, Uncommitted
  <2>. QED
    BY <2>4, <2>5 DEF TamperInv
<1>4. ASSUME NEW k \in (0..MaxSeq) \ (DOMAIN ledger \cup UNION { DOMAIN pending[s] : s \in Session }),
             ledger' = Renumbered(ledger, i, k)
      PROVE  TamperInv'
  <2>1. /\ DOMAIN ledger' = (DOMAIN ledger \ {i}) \cup {k}
        /\ ledger' = [j \in DOMAIN ledger' |-> ledger'[j]]
        /\ \A j \in DOMAIN ledger' : ledger'[j] = IF j = k THEN ledger[i] ELSE ledger[j]
    BY <1>4 DEF Renumbered
  <2>2. \A s \in Session : k \notin DOMAIN pending[s]
    OBVIOUS
  <2>3. Signatures'
    BY <1>2, <2>1 DEF TamperInv, Signatures, HasColumns
  <2>4. Tables' /\ Keys' /\ Uncommitted'
    BY <1>1, <1>2, <2>1, <2>2 DEF TamperInv, Tables, Keys, Uncommitted
  <2>. QED
    BY <2>3, <2>4 DEF TamperInv
<1>5. CASE UNCHANGED ledger
  BY <1>1, <1>2, <1>5 DEF TamperInv, Tables, Signatures, Keys, Uncommitted
<1>. QED
  BY <1>3, <1>4, <1>5 DEF DirectUpdate

LEMMA TamperInvStep == TamperInv /\ [TamperNext]_tamperVars => TamperInv'
<1>. SUFFICES ASSUME TamperInv, [TamperNext]_tamperVars PROVE TamperInv'
  OBVIOUS
<1>1. CASE Application
  <2>1. PICK s \in Session :
          \/ ReadHead(s)
          \/ \E header \in Header, payload \in Payload : InsertBlock(s, header, payload)
          \/ InsertConflict(s)
          \/ Commit(s)
          \/ Rollback(s)
    BY <1>1 DEF Application, LedgerNext
  <2>. QED
    BY <1>1, <2>1, ReadHeadKeeps, InsertKeeps, CommitKeeps, RollbackKeeps DEF InsertConflict
<1>2. ASSUME NEW i \in DOMAIN ledger, DirectUpdate(i) PROVE TamperInv'
  BY <1>2, DirectUpdateKeeps
<1>3. CASE UNCHANGED tamperVars
  <2>1. UNCHANGED <<ledger, pending, head, sealed>>
    BY <1>3 DEF tamperVars
  <2>2. \A i, row : SealedAs(i, row)' <=> SealedAs(i, row)
    BY <2>1 DEF SealedAs
  <2>. QED
    BY <2>1, <2>2 DEF TamperInv, Tables, Signatures, Keys, Uncommitted
<1>. QED
  BY <1>1, <1>2, <1>3 DEF TamperNext

------------------------------------------------------------------------------
(* What verify_chain then sees.                                            *)

\* A row that passes the five comparisons carries the signature of a block with its
\* own number, header, payload digest and previous hash: it is that block.
LEMMA IntactIsSealed ==
  ASSUME TamperInv, NEW k \in DOMAIN ledger, Intact(ledger, k)
  PROVE  SealedAs(k, ledger[k])
<1>1. PICK j, row : SealedAs(j, row) /\ ledger[k].signature = row.signature
  BY DEF TamperInv, Signatures, Intact, SignBlock, Junk
<1>2. /\ ledger[k].block_hash = row.block_hash
      /\ IsSeal(j, row)
  BY <1>1 DEF TamperInv, Tables, IsSeal, Seal, Intact, SignBlock
<1>3. /\ k = j
      /\ ledger[k].header = row.header
      /\ ledger[k].payload_hash = row.payload_hash
      /\ ledger[k].previous_hash = row.previous_hash
  BY <1>2 DEF IsSeal, Seal, Intact, ComputeBlockHash
<1>4. ledger[k].payload = row.payload
  BY <1>2, <1>3 DEF IsSeal, Seal, Intact, HashPayload
<1>5. HasColumns(ledger[k]) /\ HasColumns(row)
  BY <1>2, SealHasColumns DEF TamperInv, Signatures
<1>. QED
  BY <1>1, <1>2, <1>3, <1>4, <1>5 DEF HasColumns

LEMMA AlteredIsSeen == TamperInv => TamperEvident
<1>. DEFINE altered == { i \in DOMAIN ledger : \A rest \in Unhashed : <<i, ledger[i], rest>> \notin sealed }
<1>. SUFFICES ASSUME TamperInv, NEW limit \in 0..MaxSeq, altered \cap Checked(ledger, limit) # {}
              PROVE  /\ VerifyChain(ledger, limit).status = "COMPROMISED"
                     /\ VerifyChain(ledger, limit).tampered_sequence_id
                          <= Min(altered \cap Checked(ledger, limit))
  BY DEF TamperEvident, Reported
<1>. USE MaxSeqAssumption
<1>. DEFINE seen == altered \cap Checked(ledger, limit)
            bad == { i \in Checked(ledger, limit) : ~ Intact(ledger, i) }
<1>1. seen \subseteq bad
  BY IntactIsSealed DEF SealedAs
<1>2. bad \subseteq 0..MaxSeq
  BY DEF Checked, TamperInv, Tables
<1>3. /\ VerifyChain(ledger, limit).status = "COMPROMISED"
      /\ VerifyChain(ledger, limit).tampered_sequence_id = Min(bad)
  BY <1>1 DEF VerifyChain
<1>. HIDE DEF seen, bad
<1>4. Min(seen) \in seen /\ Min(bad) \in bad /\ \A y \in bad : Min(bad) <= y
  BY <1>1, <1>2, MinOfSet DEF seen
<1>. QED
  BY <1>1, <1>3, <1>4 DEF seen

\* Whoever can only run UPDATEs, and copy signatures about, cannot make verify_chain
\* pass over a row whose hashed columns or number they altered, whatever the sessions,
\* rows and UPDATEs there are: the signature binds them all.  The columns no hash
\* covers are outside the claim (AnyUpdateEvident fails).
THEOREM TamperingIsEvident == TamperSpec => []TamperEvident
<1>. QED
  BY TamperInvInit, TamperInvStep, AlteredIsSeen, PTL DEF TamperSpec
==============================================================================
