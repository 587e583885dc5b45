SPECIFICATION FairSpec
CONSTANTS
  j1 = j1
  j2 = j2
  reader1 = reader1
  NoValue = NoValue
  NoRow = NoRow
  Job <- MCJob
  Reader <- MCReader
  Earlier <- MCEarlier
  Feeds <- MCFeeds
  Bundled <- MCBundled
  Seeded <- MCSeeded
  Breaks <- MCBreaks
  Limits <- MCLimits
  CacheKey <- MCCacheKey
  Today = 1
INVARIANTS MarketTypeOK PercentilesOrdered ReportAddsUp PositionFollowsSalary StaleOnlyByIngestion
PROPERTIES IngestionLandsWhole IngestionsEnd
