--------------------------- MODULE MCNVMainMemory ---------------------------
(***************************************************************************)
(* Instances of NVMainMemory for TLC.                                      *)
(***************************************************************************)
EXTENDS NVMainMemory, TLC

CONSTANTS l1, l2, l3, p1, p2, p3

TwoLines == {l1, l2}
ThreeLines == {l1, l2, l3}
ThreePackets == {p1, p2, p3}

\* Lines and packets are interchangeable; slots are not (tmpAddr orders them).
MCSymmetry == Permutations(Lines) \cup Permutations(Requests)
=============================================================================
