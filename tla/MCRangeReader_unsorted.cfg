\* A provider that may return a log of an earlier block after a later one.
CONSTANTS
  NBlocks <- MC_NBlocks
  MaxLogs <- MC_MaxLogs
  LogTopics <- MC_LogTopics
  BlockRequestModes = {FALSE}
  Queries = {"RollupInfoByBlockRange"}
  SortedLogs = FALSE
SPECIFICATION Spec
INVARIANT BlocksDistinct
