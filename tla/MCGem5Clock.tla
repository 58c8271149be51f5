---------------------------- MODULE MCGem5Clock ----------------------------
(***************************************************************************)
(* A small instance of Gem5Clock: two memory systems, one of which runs at  *)
(* two thirds of the CPU clock and the other faster than the CPU, as in    *)
(* NV_S_D_Hybrid.config (CLK 3800, CPUFreq 2000).                          *)
(***************************************************************************)
EXTENDS Gem5Clock

CONSTANTS q1, q2

TwoQueues == {q1, q2}
SlowAndFastNum == [q \in Queues |-> IF q = q1 THEN 3 ELSE 1]
SlowAndFastDen == [q \in Queues |-> 2]
=============================================================================
