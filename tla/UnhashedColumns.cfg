SPECIFICATION TamperSpec
CONSTANTS
  s1 = s1
  h1 = h1
  h2 = h2
  p1 = p1
  p2 = p2
  u1 = u1
  u2 = u2
  Session <- MCSession
  Header <- MCHeader
  Payload <- MCPayload
  Unhashed <- TwoRests
  MaxSeq = 2
  MaxUpdates = 1
SYMMETRY MCSymmetry
INVARIANTS AnyUpdateEvident
