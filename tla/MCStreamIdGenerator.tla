------------------------- MODULE MCStreamIdGenerator -------------------------
(***************************************************************************)
(* StreamIdGenerator for TLC.                                              *)
(***************************************************************************)
EXTENDS StreamIdGenerator, TLC

CONSTANTS t1, t2, t3, r1, r2, main, extra

TxnSymmetry == Permutations({t1, t2, t3})
=============================================================================
