SPECIFICATION FairSpec
CONSTANTS
  s1 = s1
  s2 = s2
  r1 = r1
  r2 = r2
  k1 = k1
  listed = listed
  raised = raised
  NoValue = NoValue
  Session <- MCSession
  Replica <- MCReplica
  CacheKey <- MCCacheKey
  Band <- MCBand
  DefaultBand <- MCDefaultBand
INVARIANT StaleHasExcuse
PROPERTIES LookupNeverOverwrites StaleEntryExpires
