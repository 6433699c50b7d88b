\* Any history: another rollup's event may come first in the range.
CONSTANTS
  Width <- MC_Width
  BlockNums <- MC_BlockNums
  BatchNums <- MC_BatchNums
  MaxEvents <- MC_MaxEvents
  GenBlockNumber <- MC_Gen
  LastL1BlockSynced <- MC_Last
  ForkIDChunkSize <- MC_ChunkSize
SPECIFICATION Spec
INVARIANT NeverPanics
