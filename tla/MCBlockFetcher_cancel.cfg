\* Cancellation of the caller's context during a back-off sleep.
CONSTANTS
  Requests <- MC_TwoBlocks
  Retries <- MC_Retries
SPECIFICATION Spec
PROPERTY CancelAbortsBackoff
