\* The offset arithmetic against the unbounded-integer definition.
CONSTANTS
  Width <- MC_Width
  ConfigTokens <- MC_ParserTokens
  Offsets <- MC_Offsets
  HeadNumbers <- MC_HeadNumbers
  Junk = Junk
SPECIFICATION Spec
INVARIANT OffsetArithmeticCorrect
INVARIANT StringRoundTrip
