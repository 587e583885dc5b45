SPECIFICATION LedgerSpec
CONSTANTS
  s1 = s1
  s2 = s2
  s3 = s3
  h1 = h1
  p1 = p1
  p2 = p2
  Session <- MCSession
  Header <- MCHeader
  Payload <- MCPayload
  MaxSeq = 4
INVARIANTS ChainSecure OneAppender
PROPERTIES AppendOnly ImplementsTrail
