------------------------- MODULE MCGenesisVerifier -------------------------
(* Model-checking instance of GenesisVerifier: two blocks, two events.     *)
EXTENDS GenesisVerifier

MC_Width == 4
MC_BlockNums == 1..2
MC_BatchNums == 0..1
MC_MaxEvents == 2
MC_Gen == 1
=============================================================================
