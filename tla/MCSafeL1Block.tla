--------------------------- MODULE MCSafeL1Block ---------------------------
(* Model-checking instance of SafeL1Block: 4-bit block numbers, offsets    *)
(* -3..3, and head numbers low enough that head + offset fits the width    *)
(* (an L1 node never reports a head near 2^64).                            *)
EXTENDS SafeL1Block

MC_Width == 4
MC_Offsets == -3..3
MC_HeadNumbers == 0..12
\* The words StringToL1BlockPoint knows, and one it does not.
MC_ParserTokens == {"finalized", "safe", "pending", "latest", "unknown"}
=============================================================================
