------------------------- MODULE MCMemoryController -------------------------
(***************************************************************************)
(* Small instances of MemoryController for TLC.                            *)
(***************************************************************************)
EXTENDS MemoryController, TLC

CONSTANTS r1, r2, r3

MCRequests == {r1, r2, r3}
TwoRequests == {r1, r2}
MCSymmetry == Permutations(Requests)

\* starvationCounter grows with every hit and is only ever compared with the threshold
\* (FindStarvedRequest): states that differ in a count beyond it behave alike, and TLC takes
\* them as one.
MCView ==
    <<transactionQueue, arrived, queueVars, activateQueued, effectiveRow,
      [bank \in Banks |-> [sa \in SubArrays |->
          IF starvationCounter[bank][sa] < StarvationThreshold
          THEN starvationCounter[bank][sa] ELSE StarvationThreshold]],
      refreshVars, refreshQueued, cycleNow, cycleNext, wake, cleanup, refreshIn, deviceVars>>
=============================================================================
