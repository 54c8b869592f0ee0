SPECIFICATION FairProcessSpec
CONSTANTS
  None = None
  Names <- MCNames
  Text <- MCText
  Trim <- MCTrim
  Size <- MCSize
  Url <- MCUrl
  PairsOf <- MCPairsOf
  Controls <- MCControls
  BadNames = {"9"}
  Reserved <- MCReserved
  Private = {"_ORES_SOPS_KEY"}
  Steering = {"LD_PRELOAD"}
  Environments <- MCEnvironments
  Setups <- MCSetups
  Argvs <- MCArgvs
  ConfigFiles = {"f"}
  Bundled = TRUE
  Calls = {c1, c2}
  ValidFilters = {"info", "error"}
  SpanFilters = {"info"}
  DefaultSpans = TRUE
  MAX_RESOURCE_ATTRIBUTES_RAW_BYTES = 8192
  MAX_RESOURCE_ATTRIBUTES = 2
  MaxQueue = 1
INVARIANTS ProcessTypeOK ReportsAreTrue AnsweredIsReported ExportFollowsOperator
PROPERTIES ImportsAtOnce ExitsOnceClosed
