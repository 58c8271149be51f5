--------------------------- MODULE MCWritePausing ---------------------------
(* An instance of WritePausing for TLC.                                     *)
EXTENDS WritePausing, TLC

CONSTANTS r1, w1, w2

OneRead == {r1}
TwoWrites == {w1, w2}
MCSymmetry == Permutations(Writes)
=============================================================================
