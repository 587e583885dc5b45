SPECIFICATION Spec
CONSTANTS
  r1 = r1
  Review <- MCReview
  Inputs <- MCInputs
  OurOffers <- MCOurOffers
  Rivals <- MCRivals
  Bands <- MCBands
INVARIANTS VerdictExplainsStatus FinalizedWithinLimits CountersSettle
PROPERTY ApprovedOfferWithinCaps
