\* Every fork history of up to three events over blocks 0..3.
CONSTANTS
  Width <- MC_Width
  BlockNums <- MC_BlockNums
  BatchNums <- MC_BatchNums
  MaxEvents <- MC_MaxEvents
  GenBlockNumber <- MC_Gen
  LastL1BlockSynced <- MC_Last
  ForkIDChunkSize <- MC_ChunkSize
SPECIFICATION Spec
INVARIANT ForksMatchHistory
