---------------------------- MODULE MCEventQueue ----------------------------
(***************************************************************************)
(* The event queue on small instances. Priorities keeps the order of the   *)
(* ones in MemoryController.h: cleanup -10, responses 0, commands 40.      *)
(***************************************************************************)
EXTENDS EventQueue

CONSTANTS e1, e2, e3

ThreeEvents == {e1, e2, e3}
ThreePriorities == {-10, 0, 40}
=============================================================================
