CONSTANTS
  MinLines = 4
  MaxErrors = 2
  MaxWarnings = 1
  MaxTraces = 1
  TraceLines = 2
  ContextLines = 1
  LogK = {2, 3}
  Passthrough = 3
  MinItems = 2
  MinKept = 2
  MaxItems = 4
  FirstPercent = 30
  LastPercent = 30
  Variance = 1
  Window = 1
  MinObject = 6
  SmallField = 1
  MaxDepth = 4
  Nesting = 4
  MaxFaults = 1
  None = None
  Prompts <- MCPrompts
  PipelineConfigs <- MCConfigs
SPECIFICATION Spec
CHECK_DEADLOCK FALSE
INVARIANTS
  Recoverable
  MarkersHonest
  ErrorTextsSurvive
  KindsSurvive
  
  ErrorEndsKept
  
  
