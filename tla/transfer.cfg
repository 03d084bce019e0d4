SPECIFICATION LiveSpec
CONSTANTS
  Cids <- MCCids
  Batch = 2
  MaxBatch = 2
  Window = 1
  RelayBulk = FALSE
  Stocks <- MCStocks
  MaxFaults = 1
  Tick = 1
  Gap = 3
  Slow = 2
  Size = 2
  Content <- MCContent
  Offers <- MCOffers
  Sources <- MCSources
  MaxRuns = 2
INVARIANT FallbackHasCause
INVARIANT LiveStreamKept
INVARIANT SilenceBounded
PROPERTY FetchKeepsPromise
PROPERTY OnlyWholeBlobs
PROPERTY PullEnds
PROPERTY HandlerEnds
CHECK_DEADLOCK FALSE
