-------------------------- MODULE GlobalEventQueue --------------------------
(***************************************************************************)
(* The queue of event queues (class GlobalEventQueue of                    *)
(* src/NVmain/src/EventQueue.cpp): every memory system has an event queue  *)
(* that counts its own cycles, and the global queue steps them all in      *)
(* cycles of the CPU clock, converting counts by the ratio of frequencies. *)
(*                                                                         *)
(* An event queue is the cycle it has reached and the cycles for which it  *)
(* has events: module EventQueue shows that it delivers the events of a    *)
(* cycle together and stops at each such cycle. The ratios are exact       *)
(* fractions here and of type double in the code.                          *)
(***************************************************************************)
EXTENDS Integers, FiniteSets, Lists

CONSTANTS
    Queues,        \* the event queues of AddSystem
    Num, Den,      \* frequency / subSystemFrequency of a queue is Num[q] / Den[q]
    Horizon        \* bound: how far ahead a callback inserts an event

ASSUME QueuesAssumption == Queues # {} /\ IsFiniteSet(Queues)
ASSUME RatioAssumption == Num \in [Queues -> Nat \ {0}] /\ Den \in [Queues -> Nat \ {0}]
ASSUME HorizonAssumption == Horizon \in Nat

VARIABLES
    currentCycle,  \* of the global queue
    localCycle,    \* queue -> its currentCycle
    pending,       \* queue -> the cycles for which it has events
    phase,         \* "idle", "cycle" in the loop of Cycle, "return" after its break
    remaining,     \* steps - iterationSteps
    toSync         \* the queues that Sync has still to step

queueVars == <<currentCycle, localCycle, pending, phase, remaining, toSync>>

\* The conversions of GetNextEvent and of Sync.
ToGlobal(q, c) == (c * Num[q]) \div Den[q]
ToLocal(q, c) == (c * Den[q]) \div Num[q]

\* GetNextEvent, of a map of pending events that is not empty.
SomeEvent(p) == \E q \in Queues : p[q] # {}
NextEvents(p) == UNION {{ToGlobal(q, c) : c \in p[q]} : q \in Queues}
GetNextEvent(p) == Least(NextEvents(p))

GlobalInit ==
    /\ currentCycle = 0
    /\ localCycle = [q \in Queues |-> 0]
    /\ pending = [q \in Queues |-> {}]
    /\ phase = "idle"
    /\ remaining = 0
    /\ toSync = {}

-----------------------------------------------------------------------------
\* InsertEvent into a queue, for its current cycle or a later one.
Inserted(p, q, c) == [p EXCEPT ![q] = @ \cup {c}]

\* What a callback may insert while queue q delivers the events of cycle c: an event
\* for a later cycle of q, or one for another queue, which stands where the last Sync
\* has left it. (One for cycle c itself is delivered, or lost, with the others.)
Insertions(q, c) ==
    {<<q, c + d>> : d \in 1 .. Horizon}
    \cup {<<r, localCycle[r] + d>> : r \in Queues \ {q}, d \in 0 .. Horizon}

\* The pending events that the callbacks of a delivery may leave, with those of cycle
\* c, which stay in the queue until all are delivered.
Outcomes(q, c) == {pending} \cup {Inserted(pending, x[1], x[2]) : x \in Insertions(q, c)}

\* EventQueue::Process of queue q, at its next event: `after' has what the callbacks
\* have inserted.
Deliver(q, after) ==
    LET c == Least(pending[q])
    IN  /\ after \in Outcomes(q, c)
        /\ localCycle' = [localCycle EXCEPT ![q] = c]
        /\ pending' = [after EXCEPT ![q] = @ \ {c}]

\* Cycle( steps ), entered.
EnterCycle(steps) ==
    /\ phase = "idle"
    /\ phase' = "cycle"
    /\ remaining' = steps
    /\ UNCHANGED <<currentCycle, localCycle, pending, toSync>>

\* How far the next event is.
GlobalQueueSteps ==
    IF GetNextEvent(pending) > currentCycle THEN GetNextEvent(pending) - currentCycle ELSE 0

InLoop == phase = "cycle" /\ toSync = {}

\* Mutant: >= for >, the event of the last step waits for another call.
EventInReachEarly == SomeEvent(pending) /\ GlobalQueueSteps < remaining

EventInReach == SomeEvent(pending) /\ GlobalQueueSteps <= remaining

\* Mutant: the queues are not stepped after the break.
BreakUnsynced ==
    /\ InLoop
    /\ ~EventInReach
    /\ currentCycle' = currentCycle + remaining
    /\ phase' = "return"
    /\ remaining' = 0
    /\ UNCHANGED <<localCycle, pending, toSync>>

\* The next event is after the last step.
Break ==
    /\ InLoop
    /\ ~EventInReach
    /\ currentCycle' = currentCycle + remaining
    /\ phase' = "return"
    /\ remaining' = 0
    /\ toSync' = Queues
    /\ UNCHANGED <<localCycle, pending>>

\* The queue with the next event is stepped to it. Its callbacks see the old
\* currentCycle; the other queues follow in Sync.
StepToEvent(q, after) ==
    /\ InLoop
    /\ EventInReach
    /\ pending[q] # {} /\ ToGlobal(q, Least(pending[q])) = GetNextEvent(pending)
    /\ Deliver(q, after)
    /\ currentCycle' = currentCycle + GlobalQueueSteps
    /\ remaining' = remaining - GlobalQueueSteps
    /\ toSync' = Queues
    /\ UNCHANGED phase

\* Mutant: the steps to the events of the queue are not looked at.
SyncEventNever(q) == FALSE

\* Sync finds an event of queue q on its way to the converted global cycle.
SyncEvent(q) ==
    /\ localCycle[q] < ToLocal(q, currentCycle)
    /\ pending[q] # {}
    /\ Least(pending[q]) <= ToLocal(q, currentCycle)

\* Sync steps queue q through an event ...
SyncDeliver(q, after) ==
    /\ q \in toSync
    /\ SyncEvent(q)
    /\ Deliver(q, after)
    /\ UNCHANGED <<currentCycle, phase, remaining, toSync>>

\* ... and to the converted global cycle, unless it is there or ahead.
SyncArrive(q) ==
    /\ q \in toSync
    /\ ~SyncEvent(q)
    /\ localCycle' = [localCycle EXCEPT ![q] =
                        IF @ < ToLocal(q, currentCycle) THEN ToLocal(q, currentCycle) ELSE @]
    /\ toSync' = toSync \ {q}
    /\ UNCHANGED <<currentCycle, pending, phase, remaining>>

\* A delivery, of either kind.
Delivery(q, after) == StepToEvent(q, after) \/ SyncDeliver(q, after)

CycleReturns == phase = "return" /\ toSync = {}

-----------------------------------------------------------------------------
(* Properties of the queues.                                               *)

QueueTypeOK ==
    /\ currentCycle \in Nat
    /\ localCycle \in [Queues -> Nat]
    /\ pending \in [Queues -> SUBSET Nat]
    /\ phase \in {"idle", "cycle", "return"}
    /\ remaining \in Nat
    /\ toSync \in SUBSET Queues

\* No queue is stepped over an event, neither by Cycle nor by Sync: the unsigned
\* distance from its cycle to its next event would wrap around, and Loop( steps ) run
\* for ever.
NoneSkipped == \A q \in Queues : \A c \in pending[q] : localCycle[q] <= c

\* Between two calls every queue has been stepped to the converted global cycle, and
\* none is further ahead than an event of the current global cycle takes it, whatever
\* the ratios are: the count of Sync, which would wrap around, is not used.
ClocksInStep ==
    \A q \in Queues :
        /\ (toSync = {} => ToLocal(q, currentCycle) <= localCycle[q])
        /\ ToGlobal(q, localCycle[q]) <= currentCycle

\* When Cycle returns, the next event is still to come, as NVMainMemory::tick asserts
\* before it computes the next wake-up from the unsigned difference; the last Sync
\* delivers nothing.
NextEventAhead ==
    phase = "return" /\ SomeEvent(pending) => GetNextEvent(pending) > currentCycle
=============================================================================
