CONSTANTS
  Raw <- MCRaw
  Passes <- MCPasses
  RawTokens <- MCRawTokens
  CompTokens <- MCCompTokens
  Quote <- MCQuote
  StubTokens = 2
  SummaryTokens = 2
  SummaryCap = 1
  None = None
  PreserveFloor = 2
  MiddleBand = 1
  DropFloor = 2
  Sessions = {s1}
  Configs <- MCConfigs
  Batches <- MCBatches
  MaxTurns = 1
  MaxFaults = 0
  MayCancel = {}
  MayFailDelete = FALSE
  MaxLen = 5
SPECIFICATION Spec
INVARIANTS
  TypeOK
  TailVerbatim
  PinnedVerbatim
  RecentRepliesRaw
  
  PairsWhole
  BudgetRespected
  FoldsResolve
  FoldsPartition
