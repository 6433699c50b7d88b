-------------------------- MODULE MCClientStartup --------------------------
(***************************************************************************)
(* Model-checking instance of ClientStartup.  A 3-bit word, so chain id 7  *)
(* has the sign bit set and its int64 conversion is negative; two networks *)
(* per chain (our rollup registered as 1, or an unregistered address); three *)
(* starts, enough for a bind, a restart against another network, and a    *)
(* third start after an override.                                          *)
(***************************************************************************)
EXTENDS ClientStartup

MC_Width == 3
MC_ChainIds == {1, 2, 7}
MC_RollupIds == {0, 1}
MC_MaxStarts == 3
====
