-------------------------- MODULE Gem5Clock_proofs --------------------------
(***************************************************************************)
(* The inductive invariant of Gem5Clock, for any number of memory systems, *)
(* every ratio of their frequencies to the CPU's and every clock period:   *)
(* the clocks stay in step, and NVMain is woken up in time.                *)
(***************************************************************************)
EXTENDS Gem5Clock, Lists_proofs

-----------------------------------------------------------------------------
(* The conversions.                                                         *)

\* Integer division rounds down.
LEMMA DivFacts ==
    ASSUME NEW a \in Nat, NEW b \in Nat \ {0}
    PROVE  a \div b \in Nat /\ b * (a \div b) <= a
  OBVIOUS

\* Products keep the order, and give it back.
LEMMA TimesOrder ==
    ASSUME NEW a \in Nat, NEW b \in Nat, NEW d \in Nat
    PROVE  /\ a <= b => d * a <= d * b
           /\ d # 0 /\ d * a <= d * b => a <= b
           /\ d * a \in Nat /\ d * a = a * d
           /\ d * (a + b) = d * a + d * b
  OBVIOUS

\* A local cycle that Sync steps a queue to is not after the global cycle, for every
\* ratio, although both conversions round.
LEMMA ToLocalNotAhead ==
    ASSUME NEW q \in Queues, NEW c \in Nat, NEW g \in Nat, c <= ToLocal(q, g)
    PROVE  ToGlobal(q, c) <= g
<1> DEFINE N == Num[q]  D == Den[q]  t == (g * D) \div N  u == (c * N) \div D
<1>1. N \in Nat \ {0} /\ D \in Nat \ {0}
  BY RatioAssumption
<1>2. g * D \in Nat /\ c * N \in Nat
  BY <1>1
<1> HIDE DEF N, D
<1>3. t \in Nat /\ N * t <= g * D
  BY <1>1, <1>2, DivFacts
<1>4. u \in Nat /\ D * u <= c * N
  BY <1>1, <1>2, DivFacts
<1>5. c <= t
  BY DEF ToLocal, N, D
<1> HIDE DEF t, u
<1>6. N * c <= N * t
  BY <1>1, <1>3, <1>5, TimesOrder
<1>7. D * u <= D * g
  <2>1. N * c = c * N /\ D * g = g * D
    BY <1>1
  <2>2. D * u \in Nat /\ N * t \in Nat /\ N * c \in Nat /\ D * g \in Nat
    BY <1>1, <1>3, <1>4, TimesOrder
  <2> QED
    BY <1>3, <1>4, <1>6, <2>1, <2>2
<1>8. u <= g
  BY <1>1, <1>4, <1>7, TimesOrder
<1> QED
  BY <1>8 DEF ToGlobal, u, N, D

\* The conversions yield cycles.
LEMMA ConvertedNat ==
    ASSUME NEW q \in Queues, NEW c \in Nat
    PROVE  ToGlobal(q, c) \in Nat /\ ToLocal(q, c) \in Nat
<1>1. Num[q] \in Nat \ {0} /\ Den[q] \in Nat \ {0}
  BY RatioAssumption
<1>2. c * Num[q] \in Nat /\ c * Den[q] \in Nat
  BY <1>1
<1> QED
  BY <1>1, <1>2, DivFacts DEF ToGlobal, ToLocal

\* GetNextEvent is the first of the converted cycles.
LEMMA GetNextEventFacts ==
    ASSUME NEW p \in [Queues -> SUBSET Nat], SomeEvent(p)
    PROVE  /\ GetNextEvent(p) \in Nat
           /\ \A q \in Queues : \A c \in p[q] : GetNextEvent(p) <= ToGlobal(q, c)
<1>1. NextEvents(p) \in SUBSET Nat
  BY ConvertedNat DEF NextEvents
<1>2. NextEvents(p) # {}
  BY DEF NextEvents, SomeEvent
<1>3. \A q \in Queues : \A c \in p[q] : ToGlobal(q, c) \in NextEvents(p)
  BY DEF NextEvents
<1> QED
  BY <1>1, <1>2, <1>3, LeastFacts DEF GetNextEvent

\* Process delivers the first event of a queue, at its cycle.
LEMMA LeastPending ==
    ASSUME QueueTypeOK, NEW q \in Queues, pending[q] # {}
    PROVE  /\ Least(pending[q]) \in Nat
           /\ Least(pending[q]) \in pending[q]
           /\ \A c \in pending[q] : Least(pending[q]) <= c
<1>1. pending[q] \in SUBSET Nat
  BY DEF QueueTypeOK
<1> QED
  BY <1>1, LeastFacts

\* What callbacks insert is not before the cycle of the queue it is inserted into.
LEMMA OutcomesFacts ==
    ASSUME QueueTypeOK, NoneSkipped, NEW q \in Queues, NEW c \in Nat,
           NEW after \in Outcomes(q, c)
    PROVE  /\ after \in [Queues -> SUBSET Nat]
           /\ \A r \in Queues : pending[r] \subseteq after[r]
           /\ \A r \in Queues \ {q} : \A d \in after[r] : localCycle[r] <= d
           /\ \A d \in after[q] : d \in pending[q] \/ c < d
<1>1. CASE after = pending
  BY <1>1 DEF QueueTypeOK, NoneSkipped
<1>2. CASE \E x \in Insertions(q, c) : after = Inserted(pending, x[1], x[2])
  <2>1. PICK x \in Insertions(q, c) : after = Inserted(pending, x[1], x[2])
    BY <1>2
  <2>2. /\ x[1] \in Queues /\ x[2] \in Nat
        /\ x[1] = q => c < x[2]
        /\ x[1] # q => localCycle[x[1]] <= x[2]
    BY HorizonAssumption DEF Insertions, QueueTypeOK
  <2> QED
    BY <2>1, <2>2 DEF Inserted, QueueTypeOK, NoneSkipped
<1> QED
  BY <1>1, <1>2 DEF Outcomes

\* A delivery keeps the types and skips no event; the queue moves to its first event.
LEMMA DeliverFacts ==
    ASSUME QueueTypeOK, NoneSkipped, NEW q \in Queues, pending[q] # {}, NEW after,
           Deliver(q, after)
    PROVE  /\ localCycle' \in [Queues -> Nat] /\ pending' \in [Queues -> SUBSET Nat]
           /\ NoneSkipped'
           /\ \A r \in Queues : localCycle[r] <= localCycle'[r]
           /\ \A r \in Queues \ {q} : localCycle'[r] = localCycle[r]
           /\ localCycle'[q] = Least(pending[q])
           /\ after \in [Queues -> SUBSET Nat] /\ SomeEvent(after)
<1> DEFINE c == Least(pending[q])
<1>1. /\ c \in Nat /\ c \in pending[q] /\ \A d \in pending[q] : c <= d
      /\ after \in Outcomes(q, c)
      /\ localCycle' = [localCycle EXCEPT ![q] = c]
      /\ pending' = [after EXCEPT ![q] = @ \ {c}]
  BY LeastPending DEF Deliver
<1> HIDE DEF c
<1>2. /\ after \in [Queues -> SUBSET Nat]
      /\ \A r \in Queues : pending[r] \subseteq after[r]
      /\ \A r \in Queues \ {q} : \A d \in after[r] : localCycle[r] <= d
      /\ \A d \in after[q] : d \in pending[q] \/ c < d
  BY <1>1, OutcomesFacts
<1>3. localCycle' \in [Queues -> Nat] /\ pending' \in [Queues -> SUBSET Nat]
  BY <1>1, <1>2 DEF QueueTypeOK
<1>4. /\ localCycle'[q] = c /\ localCycle[q] <= c
      /\ \A r \in Queues \ {q} : localCycle'[r] = localCycle[r]
  BY <1>1 DEF QueueTypeOK, NoneSkipped
<1>5. NoneSkipped'
  <2>1. \A r \in Queues \ {q} : pending'[r] = after[r]
    BY <1>1, <1>2
  <2>2. \A d \in pending'[q] : c <= d
    <3>1. pending'[q] = after[q] \ {c}
      BY <1>1, <1>2
    <3> QED
      BY <1>1, <1>2, <3>1
  <2> QED
    BY <1>2, <1>4, <2>1, <2>2 DEF NoneSkipped
<1>6. SomeEvent(after)
  BY <1>1, <1>2 DEF SomeEvent
<1> QED
  BY <1>2, <1>3, <1>4, <1>5, <1>6 DEF QueueTypeOK, c

-----------------------------------------------------------------------------
(* The invariant of the queues, and how their steps preserve it.            *)

QueueInv == QueueTypeOK /\ NoneSkipped /\ ClocksInStep /\ Synced /\ NextEventAhead

\* While Cycle is not at its end, ClocksInStep is what Synced and the second conjunct say.
LEMMA InStep ==
    ASSUME Synced', \A q \in Queues : ToGlobal(q, localCycle'[q]) <= currentCycle'
    PROVE  ClocksInStep'
  BY DEF Synced, ClocksInStep

\* A step to the next event takes its queue to the new global cycle and no further.
LEMMA StepToEventInv ==
    ASSUME QueueInv, NEW q \in Queues, NEW after, StepToEvent(q, after)
    PROVE  /\ QueueInv'
           /\ currentCycle' + remaining' = currentCycle + remaining
           /\ currentCycle <= currentCycle'
           /\ after \in [Queues -> SUBSET Nat] /\ SomeEvent(after)
<1> USE DEF QueueInv
<1>1. /\ phase = "cycle" /\ phase' = phase
      /\ SomeEvent(pending) /\ GlobalQueueSteps <= remaining
      /\ pending[q] # {} /\ ToGlobal(q, Least(pending[q])) = GetNextEvent(pending)
      /\ Deliver(q, after)
      /\ currentCycle' = currentCycle + GlobalQueueSteps
      /\ remaining' = remaining - GlobalQueueSteps
      /\ toSync' = Queues
  BY DEF StepToEvent, InLoop, EventInReach
<1>2. /\ localCycle' \in [Queues -> Nat] /\ pending' \in [Queues -> SUBSET Nat]
      /\ NoneSkipped'
      /\ \A r \in Queues \ {q} : localCycle'[r] = localCycle[r]
      /\ localCycle'[q] = Least(pending[q])
      /\ after \in [Queues -> SUBSET Nat] /\ SomeEvent(after)
  BY <1>1, DeliverFacts
<1>3. currentCycle \in Nat /\ remaining \in Nat /\ GetNextEvent(pending) \in Nat
  BY <1>1, GetNextEventFacts DEF QueueTypeOK
<1>4. GlobalQueueSteps \in Nat /\ GetNextEvent(pending) <= currentCycle + GlobalQueueSteps
  BY <1>3 DEF GlobalQueueSteps
<1>5. /\ currentCycle' \in Nat /\ remaining' \in Nat /\ currentCycle <= currentCycle'
      /\ currentCycle' + remaining' = currentCycle + remaining
  BY <1>1, <1>3, <1>4
<1>6. QueueTypeOK'
  BY <1>1, <1>2, <1>5 DEF QueueTypeOK
<1>7. \A r \in Queues : ToGlobal(r, localCycle'[r]) <= currentCycle'
  <2>1. ToGlobal(q, localCycle'[q]) <= currentCycle'
    BY <1>1, <1>2, <1>4
  <2>2. ASSUME NEW r \in Queues \ {q} PROVE ToGlobal(r, localCycle'[r]) <= currentCycle'
    <3>1. ToGlobal(r, localCycle[r]) <= currentCycle /\ ToGlobal(r, localCycle[r]) \in Nat
      BY ConvertedNat DEF ClocksInStep, QueueTypeOK
    <3> QED
      BY <1>2, <1>3, <1>5, <3>1
  <2> QED
    BY <2>1, <2>2
<1>8. Synced'
  BY <1>1 DEF Synced
<1>9. NextEventAhead'
  BY <1>1 DEF NextEventAhead
<1> QED
  BY <1>2, <1>5, <1>6, <1>7, <1>8, <1>9, InStep

\* Sync takes a queue to its events, never past the global cycle; after the break
\* there is none.
LEMMA SyncDeliverInv ==
    ASSUME QueueInv, NEW q \in Queues, NEW after, SyncDeliver(q, after)
    PROVE  /\ QueueInv'
           /\ currentCycle' = currentCycle /\ remaining' = remaining
           /\ after \in [Queues -> SUBSET Nat] /\ SomeEvent(after)
<1> USE DEF QueueInv
<1>1. /\ q \in toSync /\ pending[q] # {}
      /\ Least(pending[q]) <= ToLocal(q, currentCycle)
      /\ Deliver(q, after)
      /\ currentCycle' = currentCycle /\ phase' = phase /\ remaining' = remaining
      /\ toSync' = toSync
  BY DEF SyncDeliver, SyncEvent
<1>2. /\ localCycle' \in [Queues -> Nat] /\ pending' \in [Queues -> SUBSET Nat]
      /\ NoneSkipped'
      /\ \A r \in Queues : localCycle[r] <= localCycle'[r]
      /\ \A r \in Queues \ {q} : localCycle'[r] = localCycle[r]
      /\ localCycle'[q] = Least(pending[q])
      /\ after \in [Queues -> SUBSET Nat] /\ SomeEvent(after)
  BY <1>1, DeliverFacts
<1>3. QueueTypeOK'
  BY <1>1, <1>2 DEF QueueTypeOK
<1>4. Least(pending[q]) \in Nat /\ Least(pending[q]) \in pending[q]
  BY <1>1, LeastPending
<1>5. ToGlobal(q, Least(pending[q])) <= currentCycle
  BY <1>1, <1>4, ToLocalNotAhead DEF QueueTypeOK
<1>6. \A r \in Queues : ToGlobal(r, localCycle'[r]) <= currentCycle'
  BY <1>1, <1>2, <1>5 DEF ClocksInStep
<1>7. Synced'
  BY <1>1, <1>2 DEF Synced
<1>8. NextEventAhead'
  <2> SUFFICES ASSUME phase = "return" PROVE FALSE
    BY <1>1 DEF NextEventAhead
  <2>1. SomeEvent(pending) /\ GetNextEvent(pending) > currentCycle
    BY <1>1 DEF NextEventAhead, SomeEvent
  <2>2. /\ GetNextEvent(pending) <= ToGlobal(q, Least(pending[q]))
        /\ GetNextEvent(pending) \in Nat
    BY <1>4, <2>1, GetNextEventFacts DEF QueueTypeOK
  <2>3. currentCycle \in Nat /\ ToGlobal(q, Least(pending[q])) \in Nat
    BY <1>4, ConvertedNat DEF QueueTypeOK
  <2> QED
    BY <1>5, <2>1, <2>2, <2>3
<1> QED
  BY <1>1, <1>2, <1>3, <1>6, <1>7, <1>8, InStep

\* Sync takes a queue to the converted global cycle over no event.
LEMMA SyncArriveInv ==
    ASSUME QueueInv, NEW q \in Queues, SyncArrive(q)
    PROVE  QueueInv' /\ currentCycle' = currentCycle /\ remaining' = remaining
<1> USE DEF QueueInv
<1> DEFINE target == ToLocal(q, currentCycle)
<1>1. /\ q \in toSync /\ ~SyncEvent(q)
      /\ localCycle' = [localCycle EXCEPT ![q] =
                            IF localCycle[q] < target THEN target ELSE localCycle[q]]
      /\ toSync' = toSync \ {q}
      /\ currentCycle' = currentCycle /\ pending' = pending /\ phase' = phase
      /\ remaining' = remaining
  BY DEF SyncArrive, QueueTypeOK
<1>2. target \in Nat /\ currentCycle \in Nat /\ localCycle \in [Queues -> Nat]
      /\ pending \in [Queues -> SUBSET Nat]
  BY ConvertedNat DEF QueueTypeOK
<1>3. localCycle[q] < target => \A c \in pending[q] : target <= c
  <2> SUFFICES ASSUME localCycle[q] < target, NEW c \in pending[q] PROVE target <= c
    OBVIOUS
  <2>1. Least(pending[q]) \in Nat /\ Least(pending[q]) <= c
    BY LeastPending
  <2>2. ~(Least(pending[q]) <= target)
    BY <1>1 DEF SyncEvent
  <2>3. c \in Nat
    BY <1>2
  <2> HIDE DEF target
  <2> QED
    BY <1>2, <2>1, <2>2, <2>3
<1>4. /\ localCycle[q] < target => localCycle'[q] = target
      /\ ~(localCycle[q] < target) => localCycle'[q] = localCycle[q]
      /\ \A r \in Queues \ {q} : localCycle'[r] = localCycle[r]
      /\ localCycle' \in [Queues -> Nat]
  BY <1>1, <1>2
<1>5. ToGlobal(q, target) <= currentCycle
  BY <1>2, ToLocalNotAhead
<1>6. target <= localCycle'[q]
  <2> HIDE DEF target
  <2> QED BY <1>2, <1>4
<1>7. QueueTypeOK'
  BY <1>1, <1>4 DEF QueueTypeOK
<1>8. NoneSkipped'
  BY <1>1, <1>3, <1>4 DEF NoneSkipped
<1>9. \A r \in Queues : ToGlobal(r, localCycle'[r]) <= currentCycle'
  BY <1>1, <1>4, <1>5 DEF ClocksInStep
<1>10. Synced'
  BY <1>1, <1>4, <1>6 DEF Synced
<1>11. NextEventAhead'
  BY <1>1 DEF NextEventAhead
<1> QED
  BY <1>1, <1>7, <1>8, <1>9, <1>10, <1>11, InStep

\* At the break the next event is after the new global cycle.
LEMMA BreakInv ==
    ASSUME QueueInv, Break
    PROVE  /\ QueueInv'
           /\ currentCycle' + remaining' = currentCycle + remaining
           /\ currentCycle <= currentCycle'
<1> USE DEF QueueInv
<1>1. /\ ~EventInReach
      /\ currentCycle' = currentCycle + remaining /\ remaining' = 0
      /\ phase' = "return" /\ toSync' = Queues
      /\ localCycle' = localCycle /\ pending' = pending
      /\ currentCycle \in Nat /\ remaining \in Nat
  BY DEF Break, QueueTypeOK
<1>2. currentCycle' \in Nat /\ currentCycle <= currentCycle'
  BY <1>1
<1>3. QueueTypeOK' /\ NoneSkipped' /\ Synced'
  BY <1>1, <1>2 DEF QueueTypeOK, NoneSkipped, Synced
<1>4. ASSUME NEW r \in Queues PROVE ToGlobal(r, localCycle'[r]) <= currentCycle'
  <2>1. ToGlobal(r, localCycle[r]) <= currentCycle /\ ToGlobal(r, localCycle[r]) \in Nat
    BY ConvertedNat DEF ClocksInStep, QueueTypeOK
  <2> QED
    BY <1>1, <1>2, <2>1
<1>5. NextEventAhead'
  <2> SUFFICES ASSUME SomeEvent(pending) PROVE GetNextEvent(pending) > currentCycle'
    BY <1>1 DEF NextEventAhead
  <2>1. GetNextEvent(pending) \in Nat
    BY GetNextEventFacts DEF QueueTypeOK
  <2>2. ~(GlobalQueueSteps <= remaining)
    BY <1>1 DEF EventInReach
  <2> QED
    BY <1>1, <2>1, <2>2 DEF GlobalQueueSteps
<1> QED
  BY <1>1, <1>2, <1>3, <1>4, <1>5, InStep

\* Outside a call, Sync has stepped every queue.
LEMMA IdleSynced ==
    ASSUME QueueInv, phase = "idle"
    PROVE  toSync = {}
  BY DEF QueueInv, Synced

\* Cycle is entered and left with the queues as they are.
LEMMA PhaseInv ==
    ASSUME QueueInv, phase' \in {"idle", "cycle"}, remaining' \in Nat, toSync = {},
           UNCHANGED <<currentCycle, localCycle, pending, toSync>>
    PROVE  QueueInv'
  BY DEF QueueInv, QueueTypeOK, NoneSkipped, ClocksInStep, Synced, NextEventAhead

\* A request inserts an event for the current cycle of a queue.
LEMMA InsertInv ==
    ASSUME QueueInv, NEW q \in Queues, pending' = Inserted(pending, q, localCycle[q]),
           phase' = "idle", toSync = {},
           UNCHANGED <<currentCycle, localCycle, remaining, toSync>>
    PROVE  QueueInv' /\ SomeEvent(pending')
<1>1. localCycle[q] \in Nat
  BY DEF QueueInv, QueueTypeOK
<1>2. /\ pending' \in [Queues -> SUBSET Nat]
      /\ pending'[q] = pending[q] \cup {localCycle[q]}
      /\ \A r \in Queues \ {q} : pending'[r] = pending[r]
  BY <1>1 DEF Inserted, QueueInv, QueueTypeOK
<1>3. NoneSkipped'
  BY <1>1, <1>2 DEF QueueInv, NoneSkipped
<1>4. QueueTypeOK' /\ ClocksInStep' /\ Synced' /\ NextEventAhead'
  BY <1>2 DEF QueueInv, QueueTypeOK, ClocksInStep, Synced, NextEventAhead
<1>5. SomeEvent(pending')
  BY <1>2 DEF SomeEvent
<1> QED
  BY <1>3, <1>4, <1>5 DEF QueueInv

-----------------------------------------------------------------------------
(* The steps of NVMainMemory.                                               *)

\* What TypeOK says of NVMainMemory's own variables.
MemTypeOK ==
    /\ curTick \in Nat
    /\ lastWakeup \in 0 .. curTick
    /\ clockEvent = NoTick \/ (clockEvent \in Nat /\ clockEvent >= curTick)
    /\ nextEventCycle \in Nat
    /\ caller \in {"none", "tick", "recv", "dump"}
    /\ caller = "none" <=> phase = "idle"
    /\ retry \in BOOLEAN
    /\ dumps \in 0 .. MaxDumps

\* No request was accepted in a cycle to come.
AcceptedOK == accepted = NoTick \/ accepted \in 0 .. currentCycle

\* The invariant is the one of the queues and what it says of NVMainMemory.
LEMMA IndInvParts ==
    IndInv <=> QueueInv /\ MemTypeOK /\ AcceptedOK /\ NeverAhead /\ CallsEndInTime
  BY DEF IndInv, QueueInv, TypeOK, MemTypeOK, AcceptedOK

\* So it is of the next state.
LEMMA IndInvPartsPrimed ==
    ASSUME QueueInv', MemTypeOK', AcceptedOK', NeverAhead', CallsEndInTime'
    PROVE  IndInv'
  BY DEF IndInv, QueueInv, TypeOK, MemTypeOK, AcceptedOK

\* The global cycle never goes back.
LEMMA AcceptedKept ==
    ASSUME AcceptedOK, currentCycle \in Nat, currentCycle' \in Nat,
           currentCycle <= currentCycle', accepted' \in {accepted, currentCycle'}
    PROVE  AcceptedOK'
  BY DEF AcceptedOK

\* Init establishes the invariant.
LEMMA InitInv == Init => IndInv
<1> SUFFICES ASSUME Init PROVE IndInv
  OBVIOUS
<1>1. \A q \in Queues : ToGlobal(q, 0) = 0 /\ ToLocal(q, 0) = 0
  <2> SUFFICES ASSUME NEW q \in Queues PROVE ToGlobal(q, 0) = 0 /\ ToLocal(q, 0) = 0
    OBVIOUS
  <2>1. Num[q] \in Nat \ {0} /\ Den[q] \in Nat \ {0}
    BY RatioAssumption
  <2>2. \A d \in Nat \ {0}, e \in Nat \ {0} : (0 * d) \div e = 0
    OBVIOUS
  <2> QED
    BY <2>1, <2>2 DEF ToGlobal, ToLocal
<1>2. QueueTypeOK /\ NoneSkipped
  BY DEF Init, GlobalInit, QueueTypeOK, NoneSkipped
<1>3. ClocksInStep /\ Synced /\ NextEventAhead
  BY <1>1 DEF Init, GlobalInit, ClocksInStep, Synced, NextEventAhead
<1>4. MemTypeOK
  <2>1. clock \in Nat /\ clock >= 0 /\ 0 \in 0 .. MaxDumps /\ 0 \in 0 .. 0
    BY ClockAssumption, BoundsAssumption
  <2>2. retry \in BOOLEAN /\ (caller = "none" <=> phase = "idle")
    BY DEF Init, GlobalInit
  <2>3. /\ clockEvent \in Nat /\ clockEvent >= curTick
        /\ curTick \in Nat /\ lastWakeup \in 0 .. curTick /\ dumps \in 0 .. MaxDumps
    BY <2>1 DEF Init
  <2> QED
    BY <2>2, <2>3 DEF Init, MemTypeOK
<1>5. NeverAhead /\ CallsEndInTime /\ AcceptedOK
  BY ClockAssumption DEF Init, GlobalInit, NeverAhead, CallsEndInTime, AcceptedOK
<1> QED
  BY <1>2, <1>3, <1>4, <1>5, IndInvParts DEF QueueInv

\* The whole periods since lastWakeup end by now.
LEMMA StepCyclesFacts ==
    ASSUME MemTypeOK
    PROVE  StepCycles \in Nat /\ clock * StepCycles <= curTick - lastWakeup
<1>1. curTick - lastWakeup \in Nat
  BY DEF MemTypeOK
<1> QED
  BY <1>1, ClockAssumption, DivFacts DEF StepCycles

\* GlobalEventQueue::Cycle is entered for those periods.
LEMMA CallCycleInv ==
    ASSUME IndInv, NEW who \in {"tick", "recv", "dump"}, caller = "none", CallCycle(who),
           clockEvent' \in {clockEvent, NoTick}, dumps' \in {dumps, dumps + 1},
           dumps' \in 0 .. MaxDumps, who = "dump" => dumps' # 0,
           UNCHANGED <<curTick, lastWakeup, nextEventCycle, retry, accepted>>
    PROVE  IndInv'
<1> USE IndInvParts
<1>1. StepCycles \in Nat /\ clock * StepCycles <= curTick - lastWakeup
  BY StepCyclesFacts
<1>2. /\ phase = "idle" /\ phase' = "cycle" /\ remaining' = StepCycles
      /\ UNCHANGED <<currentCycle, localCycle, pending, toSync>> /\ caller' = who
  BY DEF CallCycle, EnterCycle
<1>3. QueueInv'
  BY <1>1, <1>2, IdleSynced, PhaseInv
<1>4. MemTypeOK'
  BY <1>2 DEF MemTypeOK
<1>5. NeverAhead'
  BY <1>2 DEF NeverAhead
<1>6. CallsEndInTime'
  <2> SUFFICES ASSUME dumps' = 0
               PROVE  who # "dump" /\ clock * (currentCycle + StepCycles) <= curTick
    BY <1>2 DEF CallsEndInTime
  <2>1. dumps = 0
    BY DEF MemTypeOK
  <2>2. clock * currentCycle <= lastWakeup
    BY <2>1 DEF NeverAhead
  <2>3. currentCycle \in Nat /\ lastWakeup \in Nat /\ curTick \in Nat /\ clock \in Nat
    BY ClockAssumption DEF QueueInv, QueueTypeOK, MemTypeOK
  <2>4. /\ clock * (currentCycle + StepCycles) = clock * currentCycle + clock * StepCycles
        /\ clock * currentCycle \in Nat /\ clock * StepCycles \in Nat
    BY <1>1, <2>3, TimesOrder
  <2> QED
    BY <1>1, <2>2, <2>3, <2>4
<1>7. AcceptedOK'
  BY <1>2 DEF AcceptedOK
<1> QED
  BY <1>3, <1>4, <1>5, <1>6, <1>7, IndInvPartsPrimed

\* A wake-up that is moved is not moved into the past.
LEMMA RescheduleFacts ==
    ASSUME MemTypeOK, currentCycle \in Nat,
           NEW p \in [Queues -> SUBSET Nat], SomeEvent(p), Reschedule(p)
    PROVE  /\ clockEvent' = NoTick \/ (clockEvent' \in Nat /\ clockEvent' >= curTick)
           /\ nextEventCycle' \in Nat
<1>1. GetNextEvent(p) \in Nat
  BY GetNextEventFacts
<1>2. WakeDistance(p) \in Nat
  BY <1>1 DEF WakeDistance, WakeCycles
<1>3. clock * WakeDistance(p) \in Nat
  BY <1>2, ClockAssumption
<1> QED
  BY <1>1, <1>3 DEF Reschedule, MemTypeOK

\* A call of Cycle has returned: NVMain is where CallsEndInTime says.
LEMMA ReturnFacts ==
    ASSUME IndInv, caller # "none"
    PROVE  dumps = 0 => clock * currentCycle <= curTick
<1> SUFFICES ASSUME dumps = 0 PROVE clock * currentCycle <= curTick
  OBVIOUS
<1>1. currentCycle \in Nat /\ remaining \in Nat /\ curTick \in Nat /\ clock \in Nat
  BY IndInvParts, ClockAssumption DEF QueueInv, QueueTypeOK, MemTypeOK
<1>2. clock * (currentCycle + remaining) <= curTick
  BY IndInvParts DEF CallsEndInTime
<1>3. /\ clock * (currentCycle + remaining) = clock * currentCycle + clock * remaining
      /\ clock * currentCycle \in Nat /\ clock * remaining \in Nat
  BY <1>1, TimesOrder
<1> QED
  BY <1>1, <1>2, <1>3

\* tick ends: the next event is ahead, so that the next wake-up is.
LEMMA TickEndInv ==
    ASSUME IndInv, TickEnd
    PROVE  IndInv'
<1> USE IndInvParts
<1>1. /\ caller = "tick" /\ phase = "return" /\ toSync = {}
      /\ caller' = "none" /\ phase' = "idle" /\ lastWakeup' = curTick
      /\ UNCHANGED <<currentCycle, localCycle, pending, remaining, toSync, curTick, retry,
                     accepted, dumps>>
  BY DEF TickEnd, CycleReturns
<1>2. QueueInv'
  BY <1>1, PhaseInv DEF QueueInv, QueueTypeOK
<1>3. /\ clockEvent' = NoTick \/ (clockEvent' \in Nat /\ clockEvent' >= curTick)
      /\ nextEventCycle' \in Nat
  <2>1. CASE SomeEvent(pending)
    <3>1. GetNextEvent(pending) \in Nat /\ GetNextEvent(pending) > currentCycle
      BY <1>1, <2>1, GetNextEventFacts DEF QueueInv, QueueTypeOK, NextEventAhead
    <3>2. GetNextEvent(pending) - currentCycle \in Nat /\ currentCycle \in Nat
      BY <3>1 DEF QueueInv, QueueTypeOK
    <3>3. clock * (GetNextEvent(pending) - currentCycle) \in Nat
      BY <3>2, ClockAssumption
    <3> QED
      BY <2>1, <3>1, <3>3 DEF TickEnd, MemTypeOK
  <2>2. CASE ~SomeEvent(pending)
    BY <2>2 DEF TickEnd, MemTypeOK
  <2> QED
    BY <2>1, <2>2
<1>4. MemTypeOK'
  BY <1>1, <1>3 DEF MemTypeOK
<1>5. NeverAhead'
  BY <1>1, ReturnFacts DEF NeverAhead
<1>6. CallsEndInTime' /\ AcceptedOK'
  BY <1>1 DEF CallsEndInTime, AcceptedOK
<1> QED
  BY <1>2, <1>4, <1>5, <1>6, IndInvPartsPrimed

\* recvTimingReq ends: NVMain took the request and has an event, or a retry is owed.
LEMMA RecvEndInv ==
    ASSUME IndInv, RecvEnd
    PROVE  IndInv'
<1> USE IndInvParts
<1>1. /\ caller = "recv" /\ phase = "return" /\ toSync = {}
      /\ caller' = "none" /\ phase' = "idle" /\ lastWakeup' = curTick
      /\ UNCHANGED <<currentCycle, localCycle, remaining, toSync, curTick, accepted, dumps>>
      /\ currentCycle \in Nat
  BY DEF RecvEnd, CycleReturns, QueueInv, QueueTypeOK
<1>2. /\ QueueInv'
      /\ clockEvent' = NoTick \/ (clockEvent' \in Nat /\ clockEvent' >= curTick)
      /\ nextEventCycle' \in Nat
      /\ retry' \in BOOLEAN
  <2>1. CASE Refused /\ UNCHANGED pending
    <3>1. QueueInv'
      BY <1>1, <2>1, PhaseInv DEF QueueInv, QueueTypeOK
    <3> QED
      BY <2>1, <3>1 DEF Refused, MemTypeOK
  <2>2. ASSUME NEW q \in Queues, pending[q] # {}, UNCHANGED pending, Accepted(pending')
        PROVE  QueueInv' /\ SomeEvent(pending')
    BY <1>1, <2>2, PhaseInv DEF QueueInv, QueueTypeOK, SomeEvent
  <2>3. ASSUME NEW q \in Queues, pending' = Inserted(pending, q, localCycle[q]),
               Accepted(pending')
        PROVE  QueueInv' /\ SomeEvent(pending')
    BY <1>1, <2>3, InsertInv
  <2>4. CASE Accepted(pending') /\ QueueInv' /\ SomeEvent(pending')
    <3>1. pending' \in [Queues -> SUBSET Nat] /\ Reschedule(pending') /\ retry' = FALSE
      BY <2>4 DEF Accepted, QueueInv, QueueTypeOK
    <3> QED
      BY <1>1, <2>4, <3>1, RescheduleFacts
  <2> QED
    BY <2>1, <2>2, <2>3, <2>4 DEF RecvEnd
<1>3. MemTypeOK'
  BY <1>1, <1>2 DEF MemTypeOK
<1>4. NeverAhead'
  BY <1>1, ReturnFacts DEF NeverAhead
<1>5. CallsEndInTime' /\ AcceptedOK'
  BY <1>1 DEF CallsEndInTime, AcceptedOK
<1> QED
  BY <1>2, <1>3, <1>4, <1>5, IndInvPartsPrimed

\* Statistics are printed, with lastWakeup where it was: from now on the time since is
\* counted twice.
LEMMA DumpEndInv ==
    ASSUME IndInv, DumpEnd
    PROVE  IndInv'
<1> USE IndInvParts
<1>1. /\ caller' = "none" /\ phase' = "idle" /\ toSync = {}
      /\ UNCHANGED <<currentCycle, localCycle, pending, remaining, toSync, curTick,
                     lastWakeup, clockEvent, nextEventCycle, retry, accepted, dumps>>
      /\ dumps # 0
  BY DEF DumpEnd, CycleReturns, CallsEndInTime
<1>2. QueueInv'
  BY <1>1, PhaseInv DEF QueueInv, QueueTypeOK
<1>3. MemTypeOK' /\ NeverAhead' /\ CallsEndInTime' /\ AcceptedOK'
  BY <1>1 DEF MemTypeOK, NeverAhead, CallsEndInTime, AcceptedOK
<1> QED
  BY <1>2, <1>3, IndInvPartsPrimed

\* A step of the queues inside a call leaves the end of the call where it is.
LEMMA InsideCall ==
    ASSUME IndInv, QueueInv', caller # "none", caller' = caller, dumps' = dumps,
           phase' \in {"cycle", "return"}, curTick' = curTick, MemTypeOK',
           currentCycle' + remaining' = currentCycle + remaining,
           currentCycle <= currentCycle', accepted' \in {accepted, currentCycle'}
    PROVE  IndInv'
<1>1. NeverAhead' /\ CallsEndInTime'
  BY IndInvParts DEF NeverAhead, CallsEndInTime
<1>2. AcceptedOK'
  BY IndInvParts, AcceptedKept DEF QueueInv, QueueTypeOK
<1> QED
  BY <1>1, <1>2, IndInvPartsPrimed

\* A callback may send a retry, and the client may answer with a request that moves
\* lastWakeup and clockEvent inside the call.
LEMMA CallbackInv ==
    ASSUME IndInv, NEW q \in Queues, NEW after, Callback(q, after)
    PROVE  IndInv'
<1> USE IndInvParts
<1>1. /\ QueueInv'
      /\ currentCycle' + remaining' = currentCycle + remaining
      /\ currentCycle <= currentCycle'
      /\ after \in [Queues -> SUBSET Nat] /\ SomeEvent(after)
  <2>1. CASE StepToEvent(q, after)
    BY <2>1, StepToEventInv
  <2>2. CASE SyncDeliver(q, after)
    BY <2>2, SyncDeliverInv DEF QueueInv, QueueTypeOK
  <2> QED
    BY <2>1, <2>2 DEF Callback, Delivery
<1>2. phase' = phase /\ phase # "idle"
  <2>1. CASE StepToEvent(q, after)
    BY <2>1 DEF StepToEvent, InLoop
  <2>2. CASE SyncDeliver(q, after)
    BY <2>2, IdleSynced DEF SyncDeliver
  <2> QED
    BY <2>1, <2>2 DEF Callback, Delivery
<1>3. /\ UNCHANGED <<curTick, caller, dumps>> /\ currentCycle \in Nat
      /\ caller # "none" /\ phase' \in {"cycle", "return"}
  BY <1>2 DEF Callback, MemTypeOK, QueueInv, QueueTypeOK
<1>4. /\ lastWakeup' \in 0 .. curTick
      /\ clockEvent' = NoTick \/ (clockEvent' \in Nat /\ clockEvent' >= curTick)
      /\ nextEventCycle' \in Nat
      /\ retry' \in BOOLEAN
  <2>1. CASE Unnested
    BY <2>1 DEF Unnested, MemTypeOK
  <2>2. CASE RetryUnanswered
    BY <2>2 DEF RetryUnanswered, MemTypeOK
  <2>3. CASE lastWakeup' = curTick /\ Accepted(after)
    <3>1. Reschedule(after) /\ retry' = FALSE
      BY <2>3 DEF Accepted
    <3>2. curTick \in 0 .. curTick
      BY DEF MemTypeOK
    <3> QED
      BY <1>1, <1>3, <2>3, <3>1, <3>2, RescheduleFacts
  <2>4. CASE lastWakeup' = curTick /\ Refused
    BY <2>4 DEF Refused, MemTypeOK
  <2> QED
    BY <2>1, <2>2, <2>3, <2>4 DEF Callback, Nested
<1>5. MemTypeOK'
  BY <1>2, <1>3, <1>4 DEF MemTypeOK
<1>6. accepted' \in {accepted, currentCycle'}
  BY DEF Callback, Unnested, RetryUnanswered, Nested
<1> QED
  BY <1>1, <1>3, <1>5, <1>6, InsideCall

\* The break, and the steps of Sync without an event.
LEMMA QueueStepInv ==
    ASSUME IndInv, QueueStep
    PROVE  IndInv'
<1> USE IndInvParts
<1>1. /\ QueueInv'
      /\ currentCycle' + remaining' = currentCycle + remaining
      /\ currentCycle <= currentCycle'
      /\ phase # "idle" /\ phase' # "idle"
  <2>1. CASE Break
    BY <2>1, BreakInv DEF Break, InLoop
  <2>2. CASE \E q \in Queues : SyncArrive(q)
    <3>1. currentCycle \in Nat
      BY DEF QueueInv, QueueTypeOK
    <3>2. PICK q \in Queues : SyncArrive(q)
      BY <2>2
    <3>3. QueueInv' /\ currentCycle' = currentCycle /\ remaining' = remaining
      BY <3>2, SyncArriveInv
    <3>4. phase # "idle" /\ phase' = phase
      BY <3>2, IdleSynced DEF SyncArrive
    <3> QED
      BY <3>1, <3>3, <3>4
  <2> QED
    BY <2>1, <2>2 DEF QueueStep
<1>2. UNCHANGED <<curTick, lastWakeup, clockEvent, nextEventCycle, caller, retry, accepted,
                  dumps>>
  BY DEF QueueStep, memVars
<1>3. MemTypeOK'
  BY <1>1, <1>2 DEF MemTypeOK
<1>4. caller # "none" /\ phase' \in {"cycle", "return"}
  BY <1>1 DEF MemTypeOK, QueueInv, QueueTypeOK
<1> QED
  BY <1>1, <1>2, <1>3, <1>4, InsideCall

\* gem5's time passes between the calls.
LEMMA TimePassesInv ==
    ASSUME IndInv, TimePasses
    PROVE  IndInv'
<1> USE IndInvParts
<1>1. /\ caller = "none" /\ (clockEvent # NoTick => curTick < clockEvent)
      /\ curTick' = curTick + 1
      /\ UNCHANGED <<currentCycle, localCycle, pending, phase, remaining, toSync>>
      /\ UNCHANGED <<lastWakeup, clockEvent, nextEventCycle, caller, retry, accepted, dumps>>
  BY DEF TimePasses, queueVars
<1>2. QueueInv'
  BY <1>1 DEF QueueInv, QueueTypeOK, NoneSkipped, ClocksInStep, Synced, NextEventAhead
<1>3. MemTypeOK'
  <2>1. curTick' \in Nat /\ lastWakeup' \in 0 .. curTick'
    BY <1>1 DEF MemTypeOK
  <2>2. clockEvent' = NoTick \/ (clockEvent' \in Nat /\ clockEvent' >= curTick')
    BY <1>1 DEF MemTypeOK
  <2> QED
    BY <1>1, <2>1, <2>2 DEF MemTypeOK
<1>4. NeverAhead' /\ CallsEndInTime' /\ AcceptedOK'
  BY <1>1 DEF NeverAhead, CallsEndInTime, AcceptedOK
<1> QED
  BY <1>2, <1>3, <1>4, IndInvPartsPrimed

\* The three callers of Cycle.
LEMMA StartInv ==
    ASSUME IndInv, TickStart \/ RecvStart \/ DumpStart
    PROVE  IndInv'
<1>1. dumps \in 0 .. MaxDumps
  BY IndInvParts DEF MemTypeOK
<1>2. CASE TickStart
  BY <1>1, <1>2, CallCycleInv DEF TickStart
<1>3. CASE RecvStart
  BY <1>1, <1>3, CallCycleInv DEF RecvStart
<1>4. CASE DumpStart
  <2>1. dumps' = dumps + 1 /\ dumps' \in 0 .. MaxDumps /\ dumps' # 0
    BY <1>1, <1>4, BoundsAssumption DEF DumpStart
  <2> QED
    BY <1>4, <2>1, CallCycleInv DEF DumpStart
<1> QED
  BY <1>2, <1>3, <1>4

\* A step that changes nothing.
LEMMA StutterInv ==
    ASSUME IndInv, UNCHANGED vars
    PROVE  IndInv'
<1>1. /\ UNCHANGED <<currentCycle, localCycle, pending, phase, remaining, toSync>>
      /\ UNCHANGED <<curTick, lastWakeup, clockEvent, nextEventCycle, caller, retry, accepted,
                     dumps>>
  BY DEF vars, queueVars, memVars
<1>2. QueueInv'
  BY <1>1, IndInvParts
     DEF QueueInv, QueueTypeOK, NoneSkipped, ClocksInStep, Synced, NextEventAhead
<1>3. MemTypeOK' /\ NeverAhead' /\ CallsEndInTime' /\ AcceptedOK'
  BY <1>1, IndInvParts DEF MemTypeOK, NeverAhead, CallsEndInTime, AcceptedOK
<1> QED
  BY <1>2, <1>3, IndInvPartsPrimed

\* Every step preserves the invariant.
LEMMA NextInv == IndInv /\ [Next]_vars => IndInv'
<1> SUFFICES ASSUME IndInv, [Next]_vars PROVE IndInv'
  OBVIOUS
<1>1. CASE TimePasses
  BY <1>1, TimePassesInv
<1>2. CASE TickStart \/ RecvStart \/ DumpStart
  BY <1>2, StartInv
<1>3. CASE TickEnd
  BY <1>3, TickEndInv
<1>4. CASE RecvEnd
  BY <1>4, RecvEndInv
<1>5. CASE DumpEnd
  BY <1>5, DumpEndInv
<1>6. ASSUME NEW q \in Queues, NEW after, Callback(q, after)
      PROVE  IndInv'
  BY <1>6, CallbackInv
<1>7. CASE QueueStep
  BY <1>7, QueueStepInv
<1>8. CASE UNCHANGED vars
  BY <1>8, StutterInv
<1> QED
  BY <1>1, <1>2, <1>3, <1>4, <1>5, <1>6, <1>7, <1>8 DEF Next

-----------------------------------------------------------------------------
(* The wake-ups.                                                            *)

\* What the steps of the wake-up proofs need of the types.
LEMMA WakeTypes ==
    ASSUME IndInv
    PROVE  /\ currentCycle \in Nat /\ remaining \in Nat /\ curTick \in Nat
           /\ lastWakeup \in Nat /\ lastWakeup <= curTick /\ nextEventCycle \in Nat
           /\ clock \in Nat /\ clock # 0
           /\ pending \in [Queues -> SUBSET Nat]
           /\ clockEvent # NoTick => clockEvent \in Nat
           /\ accepted = currentCycle \/ accepted # currentCycle
           /\ caller = "none" <=> phase = "idle"
           /\ SomeEvent(pending) => GetNextEvent(pending) \in Nat
  BY IndInvParts, ClockAssumption, GetNextEventFacts
     DEF QueueInv, QueueTypeOK, MemTypeOK

\* The distance of a wake-up is positive and grows with the event.
LEMMA WakeCyclesFacts ==
    ASSUME NEW e \in Nat, NEW f \in Nat, NEW c \in Nat
    PROVE  /\ WakeCycles(e, c) \in Nat /\ WakeCycles(e, c) >= 1
           /\ e <= c + 1 => WakeCycles(e, c) = 1
           /\ e <= f => WakeCycles(e, c) <= WakeCycles(f, c)
           /\ e > c => WakeCycles(e, c) = e - c
  BY DEF WakeCycles

\* A product with a positive factor is not below the other factor.
LEMMA TimesAtLeast ==
    ASSUME NEW a \in Nat, NEW d \in Nat, a >= 1
    PROVE  d * a \in Nat /\ d <= d * a
<1>1. d * 1 <= d * a /\ d * a \in Nat
  BY TimesOrder
<1> QED
  BY <1>1

\* In a call that starts, a wake-up that is in time for e seen from lastWakeup is in
\* time seen from the end of the call.
LEMMA InTimeShift ==
    ASSUME NEW w \in Nat, NEW t \in Nat, NEW k \in Nat \ {0}, NEW e \in Nat, NEW c \in Nat,
           NEW s \in Nat, w + k * s <= t, w <= t
    PROVE  w + k * WakeCycles(e, c) <= t + k * WakeCycles(e, c + s)
<1> DEFINE a == WakeCycles(e, c)  b == WakeCycles(e, c + s)
<1>1. a \in Nat /\ b \in Nat /\ (a <= s + b)
  BY DEF WakeCycles
<1> HIDE DEF a, b
<1>2. k * a <= k * (s + b) /\ k * (s + b) = k * s + k * b
  BY <1>1, TimesOrder
<1>3. k * a \in Nat /\ k * b \in Nat /\ k * s \in Nat
  BY <1>1, TimesOrder
<1> QED
  BY <1>2, <1>3 DEF a, b

\* A call at a tick that is in time for e steps NVMain at most to e, or one cycle.
LEMMA InTimeSteps ==
    ASSUME NEW w \in Nat, NEW t \in Nat, NEW k \in Nat \ {0}, NEW e \in Nat, NEW c \in Nat,
           NEW s \in Nat, w + k * s <= t, t <= w + k * WakeCycles(e, c)
    PROVE  c + s <= e \/ s <= 1
<1> DEFINE a == WakeCycles(e, c)
<1>1. a \in Nat
  BY DEF WakeCycles
<1>2. s <= a
  <2> HIDE DEF a
  <2>1. k * s \in Nat /\ k * a \in Nat
    BY <1>1, TimesOrder
  <2>2. k * s <= k * a
    BY <2>1 DEF a
  <2> QED
    BY <1>1, <2>2, TimesOrder
<1> QED
  BY <1>2 DEF WakeCycles

\* Init establishes it: there are no events, and startup has scheduled the first tick.
LEMMA InitWake == Init => WakeInv
<1> SUFFICES ASSUME Init PROVE WakeInv
  OBVIOUS
<1>1. ~SomeEvent(pending)
  BY DEF Init, GlobalInit, SomeEvent
<1>2. WakeKept
  BY <1>1, NoTickAssumption DEF Init, GlobalInit, WakeKept
<1>3. InTimeBetween
  <2>1. WakeCycles(0, 0) = 1
    BY DEF WakeCycles
  <2>2. clock <= 0 + clock * 1
    BY ClockAssumption
  <2> QED
    BY <1>1, <2>1, <2>2 DEF Init, GlobalInit, InTimeBetween
<1>4. InTimeInRecv /\ InTimeInTick
  BY DEF Init, InTimeInRecv, InTimeInTick
<1> QED
  BY <1>2, <1>3, <1>4 DEF WakeInv

\* Between two calls, the wake-up is in time for the first event.
LEMMA BetweenInTime ==
    ASSUME IndInv, InTimeBetween, WakeKept
    PROVE  WakeScheduled
<1> SUFFICES ASSUME caller = "none", SomeEvent(pending)
             PROVE  /\ clockEvent # NoTick
                    /\ dumps = 0 => clockEvent <= lastWakeup + clock * WakeDistance(pending)
  BY DEF WakeScheduled
<1>1. clockEvent # NoTick
  BY DEF WakeKept
<1> SUFFICES ASSUME dumps = 0
             PROVE  clockEvent <= lastWakeup + clock * WakeDistance(pending)
  BY <1>1
<1> USE WakeTypes
<1> DEFINE a == WakeCycles(nextEventCycle, currentCycle)  b == WakeDistance(pending)
<1>2. clockEvent <= lastWakeup + clock * a /\ nextEventCycle <= GetNextEvent(pending)
  BY <1>1 DEF InTimeBetween
<1>3. a \in Nat /\ b \in Nat /\ a <= b
  BY <1>2, WakeCyclesFacts DEF WakeDistance
<1> HIDE DEF a, b
<1>4. clock * a <= clock * b /\ clock * a \in Nat /\ clock * b \in Nat
  BY <1>3, TimesOrder
<1> QED
  BY <1>1, <1>2, <1>4 DEF b

\* recvTimingReq begins.
LEMMA RecvStartWake ==
    ASSUME IndInv, WakeInv, RecvStart
    PROVE  WakeInv'
<1> USE WakeTypes
<1>1. /\ caller = "none" /\ ~retry /\ caller' = "recv" /\ phase' = "cycle"
      /\ remaining' = StepCycles
      /\ UNCHANGED <<currentCycle, pending, curTick, lastWakeup, clockEvent,
                     nextEventCycle, retry, accepted, dumps>>
  BY DEF RecvStart, CallCycle, EnterCycle
<1>2. StepCycles \in Nat /\ clock * StepCycles <= curTick - lastWakeup
  BY StepCyclesFacts, IndInvParts
<1>3. WakeKept'
  BY <1>1 DEF WakeInv, WakeKept
<1>4. InTimeInRecv'
  <2> SUFFICES ASSUME dumps = 0
               PROVE  /\ clockEvent # NoTick =>
                            clockEvent <= curTick + clock * WakeCycles(nextEventCycle,
                                                            currentCycle + StepCycles)
                      /\ SomeEvent(pending) => nextEventCycle <= GetNextEvent(pending)
    BY <1>1 DEF InTimeInRecv
  <2>1. clockEvent # NoTick =>
            clockEvent <= lastWakeup + clock * WakeCycles(nextEventCycle, currentCycle)
    BY <1>1 DEF WakeInv, InTimeBetween
  <2>2. SomeEvent(pending) => nextEventCycle <= GetNextEvent(pending)
    BY <1>1 DEF WakeInv, InTimeBetween
  <2> DEFINE a == clock * WakeCycles(nextEventCycle, currentCycle)
             b == clock * WakeCycles(nextEventCycle, currentCycle + StepCycles)
  <2>3. clock * StepCycles \in Nat
    BY <1>2, TimesOrder
  <2>4. lastWakeup + clock * StepCycles <= curTick
    BY <1>2, <2>3
  <2>5. lastWakeup + a <= curTick + b
    BY <1>2, <2>4, InTimeShift
  <2>6. a \in Nat /\ b \in Nat
    <3>1. currentCycle + StepCycles \in Nat
      BY <1>2
    <3>2. /\ WakeCycles(nextEventCycle, currentCycle) \in Nat
          /\ WakeCycles(nextEventCycle, currentCycle + StepCycles) \in Nat
      BY <3>1, WakeCyclesFacts
    <3> QED
      BY <3>2, TimesOrder
  <2> HIDE DEF a, b
  <2>7. clockEvent # NoTick => clockEvent <= curTick + b
    BY <2>1, <2>5, <2>6 DEF a
  <2> QED
    BY <2>2, <2>7 DEF b
<1>5. InTimeBetween' /\ InTimeInTick'
  BY <1>1 DEF InTimeBetween, InTimeInTick
<1> QED
  BY <1>3, <1>4, <1>5 DEF WakeInv

\* tick begins, in time for every event.
LEMMA TickStartWake ==
    ASSUME IndInv, WakeInv, TickStart
    PROVE  WakeInv'
<1> USE WakeTypes
<1>1. /\ caller = "none" /\ caller' = "tick" /\ phase' = "cycle"
      /\ clockEvent = curTick /\ clockEvent' = NoTick
      /\ remaining' = StepCycles
      /\ UNCHANGED <<currentCycle, pending, curTick, lastWakeup, nextEventCycle, retry,
                     accepted, dumps>>
  BY DEF TickStart, CallCycle, EnterCycle
<1>2. StepCycles \in Nat /\ clock * StepCycles <= curTick - lastWakeup
  BY StepCyclesFacts, IndInvParts
<1>3. WakeKept'
  BY <1>1 DEF WakeInv, WakeKept
<1>4. InTimeInTick'
  <2> SUFFICES ASSUME dumps = 0, SomeEvent(pending)
               PROVE  currentCycle + StepCycles <= GetNextEvent(pending) \/ StepCycles <= 1
    BY <1>1 DEF InTimeInTick
  <2>1. clockEvent # NoTick
    BY <1>1, NoTickAssumption
  <2>2. /\ curTick <= lastWakeup + clock * WakeCycles(nextEventCycle, currentCycle)
        /\ nextEventCycle <= GetNextEvent(pending)
    BY <1>1, <2>1 DEF WakeInv, InTimeBetween
  <2>3. clock * StepCycles \in Nat
    BY <1>2, TimesOrder
  <2>4. lastWakeup + clock * StepCycles <= curTick
    BY <1>2, <2>3
  <2>5. currentCycle + StepCycles <= nextEventCycle \/ StepCycles <= 1
    BY <1>2, <2>2, <2>4, InTimeSteps
  <2> QED
    BY <1>2, <2>2, <2>5
<1>5. InTimeBetween' /\ InTimeInRecv'
  BY <1>1 DEF InTimeBetween, InTimeInRecv
<1> QED
  BY <1>3, <1>4, <1>5 DEF WakeInv

\* tick ends: the wake-up is for the next event. If there is none, a request that was
\* accepted inside the call may have left one for the next cycle.
LEMMA TickEndWake ==
    ASSUME IndInv, WakeInv, TickEnd
    PROVE  WakeInv'
<1> USE WakeTypes
<1>1. /\ caller = "tick" /\ phase = "return"
      /\ caller' = "none" /\ phase' = "idle" /\ lastWakeup' = curTick
      /\ UNCHANGED <<currentCycle, pending, remaining, curTick, retry, accepted, dumps>>
  BY DEF TickEnd, CycleReturns
<1>2. InTimeInRecv' /\ InTimeInTick'
  BY <1>1 DEF InTimeInRecv, InTimeInTick
<1>3. WakeKept' /\ InTimeBetween'
  <2>1. CASE SomeEvent(pending)
    <3>1. GetNextEvent(pending) > currentCycle
      BY <1>1, <2>1 DEF IndInv, NextEventAhead
    <3>2. /\ clockEvent' = curTick + clock * (GetNextEvent(pending) - currentCycle)
          /\ nextEventCycle' = GetNextEvent(pending)
      BY <2>1 DEF TickEnd
    <3>3. GetNextEvent(pending) - currentCycle \in Nat
      BY <2>1, <3>1
    <3>4. clock * (GetNextEvent(pending) - currentCycle) \in Nat
      BY <3>3, TimesOrder
    <3>5. clockEvent' \in Nat
      BY <3>2, <3>4
    <3>6. WakeKept'
      BY <1>1, <2>1, <3>5, NoTickAssumption DEF WakeInv, WakeKept
    <3>7. WakeCycles(GetNextEvent(pending), currentCycle) = GetNextEvent(pending) - currentCycle
      BY <3>1 DEF WakeCycles
    <3>8. InTimeBetween'
      BY <1>1, <2>1, <3>2, <3>4, <3>7 DEF InTimeBetween
    <3> QED
      BY <3>6, <3>8
  <2>2. CASE ~SomeEvent(pending)
    <3>1. UNCHANGED <<clockEvent, nextEventCycle>>
      BY <2>2 DEF TickEnd
    <3>2. WakeKept'
      BY <1>1, <2>2 DEF WakeInv, WakeKept
    <3>3. InTimeBetween'
      <4> SUFFICES ASSUME dumps = 0, clockEvent # NoTick
                   PROVE  clockEvent <= curTick + clock * WakeCycles(nextEventCycle, currentCycle)
        BY <1>1, <2>2, <3>1 DEF InTimeBetween
      <4>1. clockEvent <= curTick + clock
        BY <1>1, <2>2 DEF WakeInv, InTimeInTick, WakeKept
      <4>2. /\ WakeCycles(nextEventCycle, currentCycle) \in Nat
            /\ WakeCycles(nextEventCycle, currentCycle) >= 1
        BY WakeCyclesFacts
      <4>3. /\ clock * WakeCycles(nextEventCycle, currentCycle) \in Nat
            /\ clock <= clock * WakeCycles(nextEventCycle, currentCycle)
        BY <4>2, TimesAtLeast
      <4> QED
        BY <4>1, <4>3
    <3> QED
      BY <3>2, <3>3
  <2> QED
    BY <2>1, <2>2
<1> QED
  BY <1>2, <1>3 DEF WakeInv

\* A request that was accepted has a wake-up in time for its event, whatever clockEvent
\* waited for.
LEMMA RescheduleInTime ==
    ASSUME IndInv, NEW p \in [Queues -> SUBSET Nat], SomeEvent(p), Reschedule(p),
           clockEvent # NoTick =>
               clockEvent <= curTick + clock * WakeCycles(nextEventCycle, currentCycle)
    PROVE  /\ clockEvent' # NoTick
           /\ clockEvent' <= curTick + clock * WakeCycles(nextEventCycle', currentCycle)
           /\ nextEventCycle' <= GetNextEvent(p)
<1> USE WakeTypes
<1>1. GetNextEvent(p) \in Nat
  BY GetNextEventFacts
<1>2. CASE clockEvent = NoTick \/ GetNextEvent(p) < nextEventCycle
  <2>1. clockEvent' = curTick + clock * WakeDistance(p) /\ nextEventCycle' = GetNextEvent(p)
    BY <1>2 DEF Reschedule
  <2>2. WakeDistance(p) \in Nat
    BY <1>1, WakeCyclesFacts DEF WakeDistance
  <2>3. clock * WakeDistance(p) \in Nat
    BY <2>2, TimesOrder
  <2>4. clockEvent' \in Nat
    BY <2>1, <2>3
  <2> QED
    BY <1>1, <2>1, <2>3, <2>4, NoTickAssumption DEF WakeDistance
<1>3. CASE ~(clockEvent = NoTick \/ GetNextEvent(p) < nextEventCycle)
  BY <1>1, <1>3 DEF Reschedule
<1> QED
  BY <1>2, <1>3

\* An accepted request leaves clockEvent scheduled.
LEMMA RescheduleSchedules ==
    ASSUME IndInv, NEW p \in [Queues -> SUBSET Nat], SomeEvent(p), Reschedule(p)
    PROVE  clockEvent' # NoTick
<1>1. GetNextEvent(p) \in Nat
  BY GetNextEventFacts
<1>2. WakeDistance(p) \in Nat
  BY <1>1, WakeTypes, WakeCyclesFacts DEF WakeDistance
<1>3. clock * WakeDistance(p) \in Nat
  BY <1>2, WakeTypes, TimesOrder
<1>4. curTick + clock * WakeDistance(p) \in Nat
  BY <1>3, WakeTypes
<1> QED
  BY <1>4, NoTickAssumption DEF Reschedule

\* recvTimingReq ends.
LEMMA RecvEndWake ==
    ASSUME IndInv, WakeInv, RecvEnd
    PROVE  WakeInv'
<1> USE WakeTypes
<1>1. /\ caller = "recv" /\ phase = "return" /\ remaining = 0
      /\ caller' = "none" /\ phase' = "idle" /\ lastWakeup' = curTick
      /\ UNCHANGED <<currentCycle, localCycle, remaining, curTick, accepted, dumps>>
  BY DEF RecvEnd, CycleReturns, WakeInv, WakeKept
<1>2. InTimeInRecv' /\ InTimeInTick'
  BY <1>1 DEF InTimeInRecv, InTimeInTick
<1>3. dumps = 0 /\ clockEvent # NoTick =>
          clockEvent <= curTick + clock * WakeCycles(nextEventCycle, currentCycle)
  <2>1. currentCycle + remaining = currentCycle
    BY <1>1
  <2> QED
    BY <1>1, <2>1 DEF WakeInv, InTimeInRecv
<1>4. CASE Refused /\ UNCHANGED pending
  <2>1. UNCHANGED <<clockEvent, nextEventCycle, pending>>
    BY <1>4 DEF Refused
  <2>2. WakeKept'
    BY <1>1, <2>1 DEF WakeInv, WakeKept
  <2>3. dumps = 0 /\ SomeEvent(pending) => nextEventCycle <= GetNextEvent(pending)
    <3> SUFFICES ASSUME dumps = 0, SomeEvent(pending) PROVE nextEventCycle <= GetNextEvent(pending)
      OBVIOUS
    <3>1. GetNextEvent(pending) > currentCycle
      BY <1>1 DEF IndInv, NextEventAhead
    <3> QED
      BY <1>1, <3>1 DEF WakeInv, InTimeInRecv
  <2>4. InTimeBetween'
    BY <1>1, <1>3, <2>1, <2>3 DEF InTimeBetween
  <2> QED
    BY <1>2, <2>2, <2>4 DEF WakeInv
<1>5. ASSUME NEW q \in Queues, Accepted(pending'),
             \/ pending[q] # {} /\ UNCHANGED pending
             \/ pending' = Inserted(pending, q, localCycle[q])
      PROVE  WakeInv'
  <2>1. SomeEvent(pending')
    BY <1>5 DEF Inserted, SomeEvent
  <2>2. pending' \in [Queues -> SUBSET Nat]
    <3>1. localCycle[q] \in Nat
      BY IndInvParts DEF QueueInv, QueueTypeOK
    <3> QED
      BY <1>5, <3>1 DEF Inserted
  <2>3. Reschedule(pending') /\ retry' = FALSE
    BY <1>5 DEF Accepted
  <2>4. clockEvent' # NoTick
    BY <2>1, <2>2, <2>3, RescheduleSchedules
  <2>5. WakeKept'
    BY <1>1, <2>1, <2>4 DEF WakeInv, WakeKept
  <2>6. InTimeBetween'
    <3> SUFFICES ASSUME dumps = 0
                 PROVE  /\ clockEvent' <= curTick + clock * WakeCycles(nextEventCycle', currentCycle)
                        /\ nextEventCycle' <= GetNextEvent(pending')
      BY <1>1 DEF InTimeBetween
    <3> QED
      BY <1>3, <2>1, <2>2, <2>3, RescheduleInTime
  <2> QED
    BY <1>2, <2>5, <2>6 DEF WakeInv
<1> QED
  BY <1>4, <1>5 DEF RecvEnd

\* Statistics are printed: the bounds are given up, the wake-up stays.
LEMMA DumpWake ==
    ASSUME IndInv, WakeInv, DumpStart \/ DumpEnd
    PROVE  WakeInv'
<1>1. dumps' # 0
  <2>1. dumps \in Nat /\ (caller = "dump" => dumps # 0)
    BY IndInvParts DEF MemTypeOK, CallsEndInTime
  <2> QED
    BY <2>1 DEF DumpStart, DumpEnd
<1>2. InTimeBetween' /\ InTimeInRecv' /\ InTimeInTick'
  BY <1>1 DEF InTimeBetween, InTimeInRecv, InTimeInTick
<1>3. CASE DumpStart
  <2>1. /\ caller = "none" /\ caller' = "dump" /\ phase' = "cycle"
        /\ UNCHANGED <<currentCycle, pending, clockEvent, retry, accepted>>
    BY <1>3 DEF DumpStart, CallCycle, EnterCycle
  <2> QED
    BY <1>2, <2>1 DEF WakeInv, WakeKept
<1>4. CASE DumpEnd
  <2>1. /\ caller = "dump" /\ caller' = "none" /\ phase' = "idle"
        /\ UNCHANGED <<currentCycle, pending, clockEvent, retry, accepted>>
    BY <1>4 DEF DumpEnd, CycleReturns
  <2> QED
    BY <1>2, <2>1 DEF WakeInv, WakeKept
<1> QED
  BY <1>3, <1>4

\* Time passes between the calls, and does not move the wake-up.
LEMMA TimePassesWake ==
    ASSUME IndInv, WakeInv, TimePasses
    PROVE  WakeInv'
<1>1. /\ caller = "none"
      /\ UNCHANGED <<currentCycle, pending, phase, remaining, lastWakeup, clockEvent,
                     nextEventCycle, caller, retry, accepted, dumps>>
  BY DEF TimePasses, queueVars
<1> QED
  BY <1>1 DEF WakeInv, WakeKept, InTimeBetween, InTimeInRecv, InTimeInTick

\* A step that changes nothing.
LEMMA StutterWake ==
    ASSUME WakeInv, UNCHANGED vars
    PROVE  WakeInv'
<1>1. UNCHANGED <<currentCycle, pending, phase, remaining, curTick, lastWakeup, clockEvent,
                  nextEventCycle, caller, retry, accepted, dumps>>
  BY DEF vars, queueVars, memVars
<1> QED
  BY <1>1 DEF WakeInv, WakeKept, InTimeBetween, InTimeInRecv, InTimeInTick

\* The break and the steps of Sync without an event leave the events and the end of the
\* call where they are.
LEMMA QueueStepWake ==
    ASSUME IndInv, WakeInv, QueueStep
    PROVE  WakeInv'
<1> USE WakeTypes
<1>1. /\ UNCHANGED <<pending, curTick, lastWakeup, clockEvent, nextEventCycle, caller, retry,
                     accepted, dumps>>
      /\ caller # "none"
      /\ \/ currentCycle' = currentCycle /\ remaining' = remaining /\ phase' = phase
         \/ /\ currentCycle' = currentCycle + remaining /\ remaining' = 0
            /\ phase' = "return"
  <2>1. phase # "idle"
    BY IndInvParts, IdleSynced DEF QueueStep, Break, InLoop, SyncArrive
  <2> QED
    BY <2>1 DEF QueueStep, Break, SyncArrive, memVars
<1>2. /\ currentCycle' + remaining' = currentCycle + remaining
      /\ currentCycle <= currentCycle' /\ remaining' <= remaining
      /\ currentCycle' \in Nat /\ remaining' \in Nat
      /\ phase' = "return" => phase = "return" \/ remaining' = 0
  BY <1>1
<1>3. accepted = currentCycle' => accepted = currentCycle
  <2>1. accepted = NoTick \/ accepted \in 0 .. currentCycle
    BY IndInvParts DEF AcceptedOK
  <2> QED
    BY <1>2, <2>1, NoTickAssumption
<1>4. WakeKept'
  BY <1>1, <1>2, <1>3 DEF WakeInv, WakeKept
<1>5. InTimeBetween'
  BY <1>1 DEF InTimeBetween
<1>6. InTimeInRecv'
  <2> SUFFICES ASSUME dumps = 0, caller = "recv" PROVE InTimeInRecv'
    BY <1>1 DEF InTimeInRecv
  <2>1. clockEvent # NoTick =>
            clockEvent <= curTick + clock * WakeCycles(nextEventCycle, currentCycle' + remaining')
    BY <1>2 DEF WakeInv, InTimeInRecv
  <2>2. SomeEvent(pending) =>
            nextEventCycle <= GetNextEvent(pending) \/ nextEventCycle <= currentCycle'
    BY <1>2 DEF WakeInv, InTimeInRecv
  <2> QED
    BY <1>1, <2>1, <2>2 DEF InTimeInRecv
<1>7. InTimeInTick'
  <2> SUFFICES ASSUME dumps = 0, caller = "tick" PROVE InTimeInTick'
    BY <1>1 DEF InTimeInTick
  <2>1. \/ SomeEvent(pending) => currentCycle' + remaining' <= GetNextEvent(pending)
        \/ remaining' <= 1
    BY <1>2 DEF WakeInv, InTimeInTick
  <2>2. accepted = currentCycle /\ remaining = 0 => accepted = currentCycle' /\ remaining' = 0
    BY <1>1, <1>2
  <2>3. clockEvent # NoTick =>
            clockEvent <= curTick + clock \/ (accepted = currentCycle' /\ remaining' = 0)
    BY <2>2 DEF WakeInv, InTimeInTick
  <2> QED
    BY <1>1, <2>1, <2>3 DEF InTimeInTick
<1> QED
  BY <1>4, <1>5, <1>6, <1>7 DEF WakeInv

\* A delivery is of an event that is not before the first, at a global cycle g; if g is
\* ahead, the event is the first and the global queue moves to it.
LEMMA DeliveryCycle ==
    ASSUME IndInv, NEW q \in Queues, NEW after, Delivery(q, after)
    PROVE  \E g \in Nat :
              /\ SomeEvent(pending) /\ GetNextEvent(pending) <= g
              /\ after \in [Queues -> SUBSET Nat] /\ SomeEvent(after)
              /\ GetNextEvent(after) <= g
              /\ g > currentCycle =>
                    /\ g = GetNextEvent(pending) /\ g - currentCycle <= remaining
                    /\ currentCycle' = g /\ remaining' = remaining - (g - currentCycle)
              /\ g <= currentCycle => currentCycle' = currentCycle /\ remaining' = remaining
              /\ phase' = phase
<1> USE WakeTypes, IndInvParts
<1> DEFINE c == Least(pending[q])
<1>1. pending[q] # {} /\ Deliver(q, after) /\ phase' = phase
  BY DEF Delivery, StepToEvent, SyncDeliver, SyncEvent
<1>2. c \in Nat /\ c \in pending[q] /\ after \in Outcomes(q, c)
  BY <1>1, LeastPending DEF QueueInv, Deliver
<1> HIDE DEF c
<1>3. /\ after \in [Queues -> SUBSET Nat]
      /\ \A r \in Queues : pending[r] \subseteq after[r]
  BY <1>2, OutcomesFacts DEF QueueInv
<1>4. c \in after[q] /\ SomeEvent(after) /\ SomeEvent(pending)
  BY <1>2, <1>3 DEF SomeEvent
<1>5. ToGlobal(q, c) \in Nat
  BY <1>2, ConvertedNat
<1>6. GetNextEvent(after) <= ToGlobal(q, c) /\ GetNextEvent(pending) <= ToGlobal(q, c)
  BY <1>2, <1>3, <1>4, GetNextEventFacts
<1>7. /\ ToGlobal(q, c) > currentCycle =>
            /\ ToGlobal(q, c) = GetNextEvent(pending)
            /\ ToGlobal(q, c) - currentCycle <= remaining
            /\ currentCycle' = ToGlobal(q, c)
            /\ remaining' = remaining - (ToGlobal(q, c) - currentCycle)
      /\ ToGlobal(q, c) <= currentCycle => currentCycle' = currentCycle /\ remaining' = remaining
  <2>1. CASE StepToEvent(q, after)
    <3>1. /\ ToGlobal(q, c) = GetNextEvent(pending) /\ GlobalQueueSteps <= remaining
          /\ currentCycle' = currentCycle + GlobalQueueSteps
          /\ remaining' = remaining - GlobalQueueSteps
      BY <2>1 DEF StepToEvent, EventInReach, c
    <3> QED
      BY <1>5, <3>1 DEF GlobalQueueSteps
  <2>2. CASE SyncDeliver(q, after)
    <3>1. c <= ToLocal(q, currentCycle)
      BY <2>2 DEF SyncDeliver, SyncEvent, c
    <3>2. ToGlobal(q, c) <= currentCycle
      BY <1>2, <3>1, ToLocalNotAhead
    <3> QED
      BY <1>5, <2>2, <3>2 DEF SyncDeliver
  <2> QED
    BY <2>1, <2>2 DEF Delivery
<1> QED
  BY <1>1, <1>3, <1>4, <1>5, <1>6, <1>7

\* A callback: in recvTimingReq nothing is rescheduled; in tick a nested request is
\* rescheduled for the next cycle, or for the event that ends the tick.
LEMMA CallbackWake ==
    ASSUME IndInv, WakeInv, NEW q \in Queues, NEW after, Callback(q, after)
    PROVE  WakeInv'
<1> USE WakeTypes
<1>1. PICK g \in Nat :
              /\ SomeEvent(pending) /\ GetNextEvent(pending) <= g
              /\ after \in [Queues -> SUBSET Nat] /\ SomeEvent(after)
              /\ GetNextEvent(after) <= g
              /\ g > currentCycle =>
                    /\ g = GetNextEvent(pending) /\ g - currentCycle <= remaining
                    /\ currentCycle' = g /\ remaining' = remaining - (g - currentCycle)
              /\ g <= currentCycle => currentCycle' = currentCycle /\ remaining' = remaining
              /\ phase' = phase
  BY DeliveryCycle DEF Callback
<1>2. UNCHANGED <<curTick, caller, dumps>> /\ (accepted' = currentCycle' => SomeEvent(pending'))
  BY DEF Callback
<1>3. /\ currentCycle' + remaining' = currentCycle + remaining
      /\ currentCycle <= currentCycle' /\ remaining' <= remaining
      /\ currentCycle' \in Nat /\ remaining' \in Nat /\ g <= currentCycle'
  BY <1>1
<1>4. caller # "none"
  BY IndInvParts, IdleSynced
     DEF Callback, Delivery, StepToEvent, InLoop, SyncDeliver
<1>5. GetNextEvent(after) \in Nat
  BY <1>1, GetNextEventFacts
<1>6. WakeKept'
  <2>1. phase' = "return" => remaining' = 0
    BY <1>1, <1>3 DEF WakeInv, WakeKept
  <2>2. caller = "recv" => ~retry'
    BY DEF WakeInv, WakeKept, Callback, Unnested, RetryUnanswered, Nested
  <2>3. caller # "tick" => clockEvent' # NoTick
    <3>1. caller # "tick" => clockEvent # NoTick
      BY <1>1 DEF WakeInv, WakeKept
    <3>2. Reschedule(after) => clockEvent' # NoTick
      BY <1>1, RescheduleSchedules
    <3> QED
      BY <3>1, <3>2
         DEF Callback, Unnested, RetryUnanswered, Nested, Accepted, Refused
  <2> QED
    BY <1>2, <2>1, <2>2, <2>3 DEF WakeKept
<1>7. InTimeBetween'
  BY <1>2, <1>4 DEF InTimeBetween
<1>8. InTimeInRecv'
  <2> SUFFICES ASSUME dumps = 0, caller = "recv" PROVE InTimeInRecv'
    BY <1>2 DEF InTimeInRecv
  <2>1. UNCHANGED <<clockEvent, nextEventCycle>>
    BY DEF WakeInv, WakeKept, Callback, Unnested, RetryUnanswered, Nested
  <2>2. clockEvent # NoTick =>
            clockEvent <= curTick + clock * WakeCycles(nextEventCycle, currentCycle' + remaining')
    BY <1>3 DEF WakeInv, InTimeInRecv
  <2>3. nextEventCycle <= currentCycle'
    <3>1. nextEventCycle <= GetNextEvent(pending) \/ nextEventCycle <= currentCycle
      BY <1>1 DEF WakeInv, InTimeInRecv
    <3> QED
      BY <1>1, <1>3, <3>1
  <2> QED
    BY <1>2, <2>1, <2>2, <2>3 DEF InTimeInRecv
<1>9. InTimeInTick'
  <2> SUFFICES ASSUME dumps = 0, caller = "tick" PROVE InTimeInTick'
    BY <1>2 DEF InTimeInTick
  <2>1. currentCycle + remaining <= GetNextEvent(pending) \/ remaining <= 1
    BY <1>1 DEF WakeInv, InTimeInTick
  <2>2. remaining' <= 1
    BY <1>1, <1>3, <2>1
  <2>3. g > currentCycle + 1 => remaining' = 0
    BY <1>1, <1>3, <2>1
  <2>4. clockEvent # NoTick =>
            clockEvent <= curTick + clock \/ (accepted = currentCycle /\ remaining = 0)
    BY DEF WakeInv, InTimeInTick
  <2>5. /\ accepted' \in {accepted, currentCycle'}
        /\ accepted = currentCycle /\ remaining = 0 => accepted' = currentCycle' /\ remaining' = 0
    <3>1. accepted' \in {accepted, currentCycle'}
      BY DEF Callback, Unnested, RetryUnanswered, Nested
    <3>2. remaining = 0 => currentCycle' = currentCycle /\ remaining' = 0
      BY <1>3
    <3> QED
      BY <3>1, <3>2
  <2>6. clockEvent' # NoTick =>
            clockEvent' <= curTick + clock \/ (accepted' = currentCycle' /\ remaining' = 0)
    <3>1. CASE clockEvent' = clockEvent
      BY <2>4, <2>5, <3>1
    <3>2. CASE clockEvent' # clockEvent
      <4>1. accepted' = currentCycle' /\ clockEvent' = curTick + clock * WakeDistance(after)
        BY <3>2
           DEF Callback, Unnested, RetryUnanswered, Nested, Accepted, Refused, Reschedule
      <4>2. CASE g > currentCycle + 1
        BY <2>3, <4>1, <4>2
      <4>3. CASE ~(g > currentCycle + 1)
        <5>1. GetNextEvent(after) <= currentCycle + 1
          BY <1>1, <1>5, <4>3
        <5>2. WakeDistance(after) = 1
          BY <1>5, <5>1, WakeCyclesFacts DEF WakeDistance
        <5> QED
          BY <4>1, <5>2
      <4> QED
        BY <4>2, <4>3
    <3> QED
      BY <3>1, <3>2
  <2> QED
    BY <1>2, <2>2, <2>6 DEF InTimeInTick
<1> QED
  BY <1>6, <1>7, <1>8, <1>9 DEF WakeInv

\* Every step preserves the invariant of the wake-ups.
LEMMA NextWake == IndInv /\ WakeInv /\ [Next]_vars => WakeInv'
<1> SUFFICES ASSUME IndInv, WakeInv, [Next]_vars PROVE WakeInv'
  OBVIOUS
<1>1. CASE TimePasses
  BY <1>1, TimePassesWake
<1>2. CASE TickStart
  BY <1>2, TickStartWake
<1>3. CASE TickEnd
  BY <1>3, TickEndWake
<1>4. CASE RecvStart
  BY <1>4, RecvStartWake
<1>5. CASE RecvEnd
  BY <1>5, RecvEndWake
<1>6. CASE DumpStart \/ DumpEnd
  BY <1>6, DumpWake
<1>7. ASSUME NEW q \in Queues, NEW after, Callback(q, after)
      PROVE  WakeInv'
  BY <1>7, CallbackWake
<1>8. CASE QueueStep
  BY <1>8, QueueStepWake
<1>9. CASE UNCHANGED vars
  BY <1>9, StutterWake
<1> QED
  BY <1>1, <1>2, <1>3, <1>4, <1>5, <1>6, <1>7, <1>8, <1>9 DEF Next

-----------------------------------------------------------------------------
\* The inductive invariant holds however the calls of gem5, the deliveries and the
\* requests that callbacks provoke are interleaved.
THEOREM ClockConsistent == Spec => []IndInv
  BY InitInv, NextInv, PTL DEF Spec

\* No queue is ever stepped over an event by Cycle or by Sync (EventQueue.cpp), for
\* any ratios of the frequencies.
THEOREM NoEventSkipped == Spec => []NoneSkipped
<1>1. IndInv => NoneSkipped
  BY DEF IndInv
<1> QED
  BY <1>1, ClockConsistent, PTL

\* Every queue is at the converted global cycle after Sync, and none ever further
\* ahead than the global cycle.
THEOREM AlwaysInStep == Spec => []ClocksInStep
<1>1. IndInv => ClocksInStep
  BY DEF IndInv
<1> QED
  BY <1>1, ClockConsistent, PTL

\* What NVMainMemory::tick asserts: after Cycle the next event is ahead.
THEOREM NextAlwaysAhead == Spec => []NextEventAhead
<1>1. IndInv => NextEventAhead
  BY DEF IndInv
<1> QED
  BY <1>1, ClockConsistent, PTL

\* NVMain never runs ahead of gem5 while no statistics are printed, whoever steps it.
THEOREM NVMainNeverAhead == Spec => []NeverAhead
<1>1. IndInv => NeverAhead
  BY DEF IndInv
<1> QED
  BY <1>1, ClockConsistent, PTL

\* The types of the clocks; clockEvent is never in the past.
THEOREM ClockTypes == Spec => []TypeOK
<1>1. IndInv => TypeOK
  BY DEF IndInv
<1> QED
  BY <1>1, ClockConsistent, PTL

\* The wake-up of NVMainMemory is in time for the events that are there, and inside a call
\* for those that will be there at its end, whatever tick, recvTimingReq and the requests
\* nested in callbacks do to clockEvent and to lastWakeup.
THEOREM WakeUpsInTime == Spec => [](IndInv /\ WakeInv)
<1>1. Spec => []WakeInv
  BY InitWake, NextWake, ClockConsistent, PTL DEF Spec
<1> QED
  BY <1>1, ClockConsistent, PTL

\* NVMain never sleeps with an event to deliver, nor wakes up after it.
THEOREM WakeAlwaysScheduled == Spec => []WakeScheduled
<1>1. IndInv /\ WakeInv => WakeScheduled
  BY BetweenInTime DEF WakeInv
<1> QED
  BY <1>1, WakeUpsInTime, PTL
=============================================================================
