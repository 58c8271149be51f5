---------------------------- MODULE MCFRFCFS_WQF ----------------------------
(* An instance of FRFCFS_WQF for TLC.                                       *)
EXTENDS FRFCFS_WQF

OneQueue == {0}
TwoQueues == {0, 1}
=============================================================================
