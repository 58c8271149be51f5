----------------------------- MODULE Gem5Clock -----------------------------
(***************************************************************************)
(* NVMainMemory (src/NVmain/Simulators/gem5/nvmain_mem.cc) keeps NVMain's  *)
(* global event queue in step with gem5. gem5 calls tick when clockEvent   *)
(* is due; recvTimingReq and the printing of statistics step NVMain too,   *)
(* each by the time since lastWakeup in whole clock periods. Callbacks of  *)
(* the events send retries, and the client may answer a retry with a       *)
(* request inside the call: a recvTimingReq nested in the first three.     *)
(*                                                                         *)
(* One instance of NVMainMemory, the master. What the requests are is left *)
(* to module NVMainMemory; here they are accepted or refused, and NVMain   *)
(* may insert events when it accepts one.                                  *)
(***************************************************************************)
EXTENDS GlobalEventQueue

CONSTANTS
    clock,         \* ticks of gem5 in a global cycle
    MaxTick,       \* bound: the last tick of gem5
    MaxDumps,      \* bound: how often statistics are printed
    NoTick         \* clockEvent is not scheduled

ASSUME ClockAssumption == clock \in Nat \ {0}
ASSUME BoundsAssumption == MaxTick \in Nat /\ MaxDumps \in Nat
ASSUME NoTickAssumption == NoTick \notin Nat

VARIABLES
    curTick,         \* gem5's time
    lastWakeup,
    clockEvent,      \* the tick for which it is scheduled, or NoTick
    nextEventCycle,  \* the event that clockEvent was last scheduled for
    caller,          \* who called GlobalEventQueue::Cycle: "none", "tick", "recv", "dump"
    retry,           \* the client is owed a retry
    accepted,        \* the global cycle of the last request accepted inside a callback
    dumps            \* how often statistics were printed

memVars == <<curTick, lastWakeup, clockEvent, nextEventCycle, caller, retry, accepted, dumps>>
vars == <<queueVars, memVars>>

\* startup has scheduled the first tick.
Init ==
    /\ GlobalInit
    /\ curTick = 0
    /\ lastWakeup = 0
    /\ clockEvent = clock
    /\ nextEventCycle = 0
    /\ caller = "none"
    /\ retry = FALSE
    /\ accepted = NoTick
    /\ dumps = 0

\* Mutant: rounded up.
StepCyclesUp == (curTick - lastWakeup + clock - 1) \div clock

\* The whole periods since lastWakeup.
StepCycles == (curTick - lastWakeup) \div clock

\* GlobalEventQueue::Cycle is called.
CallCycle(who) == EnterCycle(StepCycles) /\ caller' = who

-----------------------------------------------------------------------------
\* How many cycles after cycle c the wake-up for an event of cycle e is, and from now
\* the one for the next event of p.
WakeCycles(e, c) == IF e > c THEN e - c ELSE 1
WakeDistance(p) == WakeCycles(GetNextEvent(p), currentCycle)

\* Mutant: an unscheduled clockEvent is left unscheduled.
RescheduleScheduled(p) ==
    IF clockEvent # NoTick /\ GetNextEvent(p) < nextEventCycle
    THEN /\ clockEvent' = curTick + clock * WakeDistance(p)
         /\ nextEventCycle' = GetNextEvent(p)
    ELSE UNCHANGED <<clockEvent, nextEventCycle>>

\* The wake-up after a request was accepted: sooner, if its event is before the one
\* that clockEvent waits for. An accepted request always leaves an event (module
\* MemoryController: TransactionsAwaited and CommandsAwaited).
Reschedule(p) ==
    IF clockEvent = NoTick \/ GetNextEvent(p) < nextEventCycle
    THEN /\ clockEvent' = curTick + clock * WakeDistance(p)
         /\ nextEventCycle' = GetNextEvent(p)
    ELSE UNCHANGED <<clockEvent, nextEventCycle>>

\* The rest of recvTimingReq, with the events p after the request was issued.
Accepted(p) == Reschedule(p) /\ retry' = FALSE
Refused == retry' = TRUE /\ UNCHANGED <<clockEvent, nextEventCycle>>

-----------------------------------------------------------------------------
\* gem5's time passes, not over a scheduled event.
TimePasses ==
    /\ caller = "none"
    /\ curTick < MaxTick
    /\ clockEvent # NoTick => curTick < clockEvent
    /\ curTick' = curTick + 1
    /\ UNCHANGED <<queueVars, lastWakeup, clockEvent, nextEventCycle, caller, retry,
                   accepted, dumps>>

\* tick: clockEvent is due.
TickStart ==
    /\ caller = "none"
    /\ clockEvent = curTick
    /\ clockEvent' = NoTick
    /\ CallCycle("tick")
    /\ UNCHANGED <<curTick, lastWakeup, nextEventCycle, retry, accepted, dumps>>

TickEnd ==
    /\ caller = "tick" /\ CycleReturns
    /\ lastWakeup' = curTick
    /\ IF SomeEvent(pending)
       THEN /\ clockEvent' = curTick + clock * (GetNextEvent(pending) - currentCycle)
            /\ nextEventCycle' = GetNextEvent(pending)
       ELSE UNCHANGED <<clockEvent, nextEventCycle>>
    /\ caller' = "none" /\ phase' = "idle"
    /\ UNCHANGED <<currentCycle, localCycle, pending, remaining, toSync,
                   curTick, retry, accepted, dumps>>

\* recvTimingReq of a read or write packet, outside any callback (sync and retryflag
\* are false). While a retry is owed it returns before it changes anything.
RecvStart ==
    /\ caller = "none"
    /\ ~retry
    /\ CallCycle("recv")
    /\ UNCHANGED <<curTick, lastWakeup, clockEvent, nextEventCycle, retry, accepted, dumps>>

\* IsIssuable and IssueCommand: a controller inserts an event for the current cycle
\* of its queue, or none when it has work, and so an event, already.
RecvEnd ==
    /\ caller = "recv" /\ CycleReturns
    /\ lastWakeup' = curTick
    /\ \/ \E q \in Queues :
            /\ \/ pending[q] # {} /\ UNCHANGED pending
               \/ pending' = Inserted(pending, q, localCycle[q])
            /\ Accepted(pending')
       \/ Refused /\ UNCHANGED pending
    /\ caller' = "none" /\ phase' = "idle"
    /\ UNCHANGED <<currentCycle, localCycle, remaining, toSync, curTick, accepted, dumps>>

\* NVMainStatPrinter::process; lastWakeup stays where it is.
DumpStart ==
    /\ caller = "none"
    /\ dumps < MaxDumps
    /\ dumps' = dumps + 1
    /\ CallCycle("dump")
    /\ UNCHANGED <<curTick, lastWakeup, clockEvent, nextEventCycle, retry, accepted>>

DumpEnd ==
    /\ caller = "dump" /\ CycleReturns
    /\ caller' = "none" /\ phase' = "idle"
    /\ UNCHANGED <<currentCycle, localCycle, pending, remaining, toSync, curTick,
                   lastWakeup, clockEvent, nextEventCycle, retry, accepted, dumps>>

\* A callback completes a request: a retry that is owed is sent, and the client may
\* send its packet again at once. This recvTimingReq does not step NVMain; it moves
\* lastWakeup and may move clockEvent, by the currentCycle of before this event.
Nested(after) ==
    /\ retry
    /\ lastWakeup' = curTick
    /\ \/ Accepted(after) /\ accepted' = currentCycle'
       \/ Refused /\ UNCHANGED accepted

Unnested == UNCHANGED <<lastWakeup, clockEvent, nextEventCycle, retry, accepted>>

RetryUnanswered ==
    retry /\ retry' = FALSE /\ UNCHANGED <<lastWakeup, clockEvent, nextEventCycle, accepted>>

\* An event is delivered, with what its callbacks insert and send. A request that was
\* accepted in this global cycle is not yet carried out, and so has an event.
Callback(q, after) ==
    /\ Delivery(q, after)
    /\ Unnested \/ RetryUnanswered \/ Nested(after)
    /\ accepted' = currentCycle' => SomeEvent(pending')
    /\ UNCHANGED <<curTick, caller, dumps>>

QueueStep ==
    /\ Break \/ \E q \in Queues : SyncArrive(q)
    /\ UNCHANGED memVars

Next ==
    \/ TimePasses
    \/ TickStart \/ TickEnd
    \/ RecvStart \/ RecvEnd
    \/ DumpStart \/ DumpEnd
    \/ \E q \in Queues :
        pending[q] # {} /\ \E after \in Outcomes(q, Least(pending[q])) : Callback(q, after)
    \/ QueueStep

Spec == Init /\ [][Next]_vars

-----------------------------------------------------------------------------
\* The types of the state; clockEvent is never in the past.
TypeOK ==
    /\ QueueTypeOK
    /\ curTick \in Nat
    /\ lastWakeup \in 0 .. curTick
    /\ clockEvent = NoTick \/ (clockEvent \in Nat /\ clockEvent >= curTick)
    /\ nextEventCycle \in Nat
    /\ caller \in {"none", "tick", "recv", "dump"}
    /\ caller = "none" <=> phase = "idle"
    /\ retry \in BOOLEAN
    /\ accepted = NoTick \/ accepted \in 0 .. currentCycle
    /\ dumps \in 0 .. MaxDumps

\* NVMain is never ahead of gem5, whoever steps it and however the calls nest: none of
\* them counts a period twice. Printing statistics does.
NeverAhead == dumps = 0 /\ caller = "none" => clock * currentCycle <= lastWakeup

\* NVMain is never asleep with an event to deliver: outside a call, the wake-up is
\* scheduled, and not for later than the event.
WakeScheduled ==
    caller = "none" /\ SomeEvent(pending) =>
        /\ clockEvent # NoTick
        /\ dumps = 0 => clockEvent <= lastWakeup + clock * WakeDistance(pending)

\* The inductive invariant: a queue that Sync has stepped is at least at the converted
\* cycle, all have been stepped when a call returns, and a call ends with NVMain not ahead of gem5.
Synced ==
    /\ phase = "idle" => toSync = {}
    /\ \A q \in Queues \ toSync : ToLocal(q, currentCycle) <= localCycle[q]
CallsEndInTime ==
    dumps = 0 /\ caller # "none" =>
        caller # "dump" /\ clock * (currentCycle + remaining) <= curTick
IndInv ==
    /\ TypeOK
    /\ NoneSkipped
    /\ ClocksInStep /\ Synced
    /\ NextEventAhead
    /\ NeverAhead /\ CallsEndInTime

\* What WakeScheduled needs of the calls: only inside tick is clockEvent not scheduled
\* while there are events, and the events are those of a request accepted in this cycle;
WakeKept ==
    /\ accepted = currentCycle => SomeEvent(pending)
    /\ phase = "return" => remaining = 0
    /\ caller = "recv" => ~retry
    /\ caller # "tick" /\ SomeEvent(pending) => clockEvent # NoTick

\* between two calls, clockEvent is in time for nextEventCycle, and no event is before;
InTimeBetween ==
    dumps = 0 /\ caller = "none" =>
        /\ clockEvent # NoTick =>
               clockEvent <= lastWakeup + clock * WakeCycles(nextEventCycle, currentCycle)
        /\ SomeEvent(pending) => nextEventCycle <= GetNextEvent(pending)

\* in recvTimingReq, it is in time for nextEventCycle seen from the end of the call, and
\* an event before nextEventCycle is one that is there since nextEventCycle was reached;
InTimeInRecv ==
    dumps = 0 /\ caller = "recv" =>
        /\ clockEvent # NoTick =>
               clockEvent <= curTick + clock * WakeCycles(nextEventCycle, currentCycle + remaining)
        /\ SomeEvent(pending) =>
               nextEventCycle <= GetNextEvent(pending) \/ nextEventCycle <= currentCycle

\* and in tick, the first event is due when the call ends or at most one cycle is left. A
\* request that a callback provokes thus schedules the next cycle, or the tick's end follows.
InTimeInTick ==
    dumps = 0 /\ caller = "tick" =>
        /\ \/ SomeEvent(pending) => currentCycle + remaining <= GetNextEvent(pending)
           \/ remaining <= 1
        /\ clockEvent # NoTick =>
               clockEvent <= curTick + clock \/ (accepted = currentCycle /\ remaining = 0)

WakeInv == WakeKept /\ InTimeBetween /\ InTimeInRecv /\ InTimeInTick
=============================================================================
