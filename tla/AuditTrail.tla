------------------------------ MODULE AuditTrail ------------------------------
(***************************************************************************)
(* What the ledger promises its callers: entries recorded in a transaction *)
(* appear together, in the order they were recorded, at the end of one     *)
(* log, when the transaction commits, and never if it does not.            *)
(***************************************************************************)
EXTENDS Sequences

CONSTANTS Session, Entry

VARIABLES
  log,     \* the entries everybody sees
  batch    \* per session, the entries of its open transaction

trailVars == <<log, batch>>

TrailInit ==
  /\ log = <<>>
  /\ batch = [s \in Session |-> <<>>]

Record(s, entry) ==
  /\ batch' = [batch EXCEPT ![s] = Append(@, entry)]
  /\ UNCHANGED log

Publish(s) ==
  /\ log' = log \o batch[s]
  /\ batch' = [batch EXCEPT ![s] = <<>>]

Discard(s) ==
  /\ batch' = [batch EXCEPT ![s] = <<>>]
  /\ UNCHANGED log

TrailNext ==
  \E s \in Session :
    \/ \E entry \in Entry : Record(s, entry)
    \/ Publish(s)
    \/ Discard(s)

TrailSpec == TrailInit /\ [][TrailNext]_trailVars
==============================================================================
