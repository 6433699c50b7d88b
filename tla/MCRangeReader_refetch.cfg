\* Parallel block pre-fetch: do the handlers use the pre-fetched blocks?
CONSTANTS
  NBlocks <- MC_NBlocks
  MaxLogs <- MC_MaxLogs
  LogTopics <- MC_LogTopics
  BlockRequestModes = {TRUE}
  Queries = {"RollupInfoByBlockRange"}
  SortedLogs = TRUE
SPECIFICATION Spec
INVARIANT PrefetchServesHandlers
