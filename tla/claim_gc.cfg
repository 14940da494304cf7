CONSTANTS
  Raw <- MCRaw
  Passes <- MCPasses
  RawTokens <- MCRawTokens
  CompTokens <- MCCompTokens
  Quote <- MCQuote
  StubTokens = 2
  SummaryTokens = 2
  SummaryCap = 8
  None = None
  PreserveFloor = 4
  MiddleBand = 4
  DropFloor = 4
  Sessions = {s1}
  Configs <- GcConfigs
  Batches <- GcBatches
  MaxTurns = 2
  MaxFaults = 0
  MayCancel = {"gc"}
  MayFailDelete = FALSE
SPECIFICATION Spec
INVARIANT
  LiveRefsStored
