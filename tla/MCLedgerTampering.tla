-------------------------- MODULE MCLedgerTampering --------------------------
(* One appender and up to three direct UPDATEs over two blocks: three are     *)
(* what it takes to change a row, redo its block hash and copy a signature.   *)
EXTENDS LedgerTampering, TLC

CONSTANTS s1, h1, h2, p1, p2, u1, u2

MCSession == {s1}
MCHeader == {h1, h2}
MCPayload == {p1, p2}
TwoRests == {u1, u2}

\* Headers, payloads and the unhashed columns are only ever compared for equality.
MCSymmetry == Permutations(MCHeader) \cup Permutations(MCPayload) \cup Permutations(Unhashed)
==============================================================================
