\* Three goroutines, two of them on one block: 429s, errors and
\* cancellation in any interleaving.
CONSTANTS
  Requests <- MC_SharedBlock
  Retries <- MC_Retries
SPECIFICATION Spec
INVARIANT TypeOK
INVARIANT NoLostError
PROPERTY RefinesBlockPrefetch
