\* The node answers "block not found" for the configured point.
CONSTANTS
  Width <- MC_Width
  ConfigTokens <- MC_ParserTokens
  Offsets <- MC_Offsets
  HeadNumbers <- MC_HeadNumbers
  Junk = Junk
SPECIFICATION Spec
INVARIANT NotFoundAssumesZero
