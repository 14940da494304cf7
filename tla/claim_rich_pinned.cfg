CONSTANTS
  Raw <- MCRaw
  Passes <- MCPasses
  RawTokens <- MCRawTokens
  CompTokens <- MCCompTokens
  Quote <- MCQuote
  StubTokens = 1
  SummaryTokens = 2
  SummaryCap = 2
  None = None
  PreserveFloor = 2
  MiddleBand = 1
  DropFloor = 2
  Contents <- MCContents
  BlocksOf <- MCBlocksOf
  FlatOf <- MCFlatOf
  TrueTokens <- MCTrueTokens
  SavedTokens <- MCSavedTokens
  RichConfigs <- PinnedConfigs
  RichBatches <- PinnedBatches
  MaxPushes = 3
  MaxRuns = 4
SPECIFICATION Spec
INVARIANT
  PinnedBlocksVerbatim
