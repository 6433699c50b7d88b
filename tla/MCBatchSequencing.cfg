\* Batch numbering of the sequencing handlers and their decoders.
CONSTANTS
  Width <- MC_Width
  MaxItems <- MC_MaxItems
  MaxLogs <- MC_MaxLogs
  StartBatches <- MC_StartBatches
SPECIFICATION Spec
INVARIANT TypeOK
INVARIANT BatchesConsecutive
