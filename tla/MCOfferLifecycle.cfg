SPECIFICATION Spec
CONSTANTS
  s1 = s1
  s2 = s2
  o1 = o1
  o2 = o2
  n1 = n1
  n2 = n2
  Session <- MCSession
  Offer <- MCOffer
  Number <- MCNumber
  MaxSeq = 2
SYMMETRY Symmetric
INVARIANTS OfferTypeOK LogsTellStatus NoLetterWithoutApproval OverwriteLeavesTrace
PROPERTY OffersUseLedger
CHECK_DEADLOCK FALSE
