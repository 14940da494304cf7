CONSTANTS
  Raw <- MCRaw
  Passes <- MCPasses
  RawTokens <- MCRawTokens
  CompTokens <- MCCompTokens
  Quote <- MCQuote
  StubTokens = 2
  SummaryTokens = 2
  SummaryCap = 1
  None = None
  PreserveFloor = 2
  MiddleBand = 1
  DropFloor = 2
  Sessions = {s1}
  Configs <- MCConfigs
  Batches <- MCBatches
  MaxTurns = 3
  MaxFaults = 1
  MayCancel = {"rules", "middle", "summarize"}
  MayFailDelete = TRUE
SPECIFICATION FairSpec
INVARIANTS
  LiveRefsStored
  RecallResolves
  HitRestores
PROPERTIES
  LedgerAppendOnly
  
  FrozenPrefix
  RecompactQuiet
  CompactionEnds
