\* Three starts, each with any configuration and any network behind L1URL.
CONSTANTS
  Width <- MC_Width
  ChainIds <- MC_ChainIds
  RollupIds <- MC_RollupIds
  MaxStarts <- MC_MaxStarts
SPECIFICATION Spec
INVARIANT TypeOK
INVARIANT StorageBoundToConnectedChain
