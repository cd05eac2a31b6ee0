-------------------------- MODULE MCRangeTransfer ---------------------------
(***************************************************************************)
(* Instances of RangeTransfer for TLC.                                     *)
(***************************************************************************)
EXTENDS RangeTransfer, TLC

CONSTANTS r1, r2, r3

Symmetry == Permutations(Indexes)
=============================================================================
