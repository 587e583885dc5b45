----------------------------- MODULE MCSoxLedger -----------------------------
(* Small instances of the ledger: a few replicas' requests appending at once. *)
EXTENDS SoxLedger, TLC

CONSTANTS s1, s2, s3, h1, p1, p2

MCSession == {s1, s2, s3}
MCHeader == {h1}
MCPayload == {p1, p2}

MCSymmetry == Permutations(MCSession) \cup Permutations(MCPayload)
==============================================================================
