\* Both entry points, sequential and parallel block retrieval, provider returning logs in block order.
CONSTANTS
  NBlocks <- MC_NBlocks
  MaxLogs <- MC_MaxLogs
  LogTopics <- MC_LogTopics
  BlockRequestModes = {FALSE, TRUE}
  Queries = {"RollupInfoByBlockRange", "PreviousRollupGenesis"}
  SortedLogs = TRUE
SPECIFICATION Spec
INVARIANT TypeOK
PROPERTY RefinesRollupInfoInEachMode
