\* Genesis block holding another rollup's CreateNewRollup.
CONSTANTS
  Width <- MC_Width
  BlockNums <- MC_BlockNums
  BatchNums <- MC_BatchNums
  MaxEvents <- MC_MaxEvents
  GenBlockNumber <- MC_Gen
SPECIFICATION Spec
INVARIANT AcceptsOnlyOurGenesis
