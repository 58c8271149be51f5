----------------------------- MODULE EventQueue -----------------------------
(***************************************************************************)
(* The discrete-event queue of NVmain (src/NVmain/src/EventQueue.cpp): a   *)
(* map from cycles to lists of events ordered by priority, delivered by    *)
(* Process while the callbacks it runs insert and remove further events.   *)
(*                                                                         *)
(* eventMap[c] = <<>> stands for "the map has no entry for c": the code    *)
(* creates an entry with its first event and erases an entry it empties.   *)
(* Process is several steps here: `cursor' is the list iterator (0 outside *)
(* Process), and between two moves of it the callback of the event under   *)
(* it may call InsertEvent, InsertCallback and RemoveEvent.                *)
(***************************************************************************)
EXTENDS Integers, Sequences, FiniteSets, Lists

CONSTANTS
    Events,       \* the Event objects allocated in a behaviour
    Priorities,   \* values of the `priority' argument
    MaxCycle,     \* bound: the last cycle an event is inserted for
    MaxSteps      \* bound: the longest Loop( steps )

ASSUME MaxCycleAssumption == MaxCycle \in Nat
ASSUME MaxStepsAssumption == MaxSteps \in Nat
ASSUME PrioritiesAssumption == Priorities \subseteq Int /\ 0 \in Priorities

VARIABLES
    eventMap,        \* cycle -> list of events
    currentCycle,
    nextEventCycle,
    lastEventCycle,
    cursor,          \* index of the event being delivered, 0 outside Process
    stepCycles,      \* what is left of Loop( steps ); 0 outside Loop
    advance,         \* cycles to count when Process returns: 1 inside Loop( ), else 0
    callbacks,       \* the events made by InsertCallback
    priority,        \* event -> the priority stored in the Event
    status           \* event -> its history (see Statuses)

vars == <<eventMap, currentCycle, nextEventCycle, lastEventCycle, cursor,
          stepCycles, advance, callbacks, priority, status>>

Cycles == 0 .. MaxCycle

\* numeric_limits<ncycle_t>::max(): later than every cycle a Loop can reach.
Never == MaxCycle + MaxSteps + 2

\* A late event was inserted for the cycle that Process is delivering.
Statuses == {"new", "pending", "late", "delivered", "removed", "lost"}
Waiting(e) == status[e] \in {"pending", "late"}

Processing == cursor > 0
InLoop == Processing \/ stepCycles > 0

\* The keys of the std::map, and its first key (Never when it is empty).
Scheduled(m) == {c \in Cycles : m[c] # <<>>}
FirstOf(m) ==
    IF Scheduled(m) = {} THEN Never
    ELSE Least(Scheduled(m))

PositionOf(e, list) == CHOOSE i \in 1 .. Len(list) : list[i] = e

-----------------------------------------------------------------------------
Init ==
    /\ eventMap = [c \in Cycles |-> <<>>]
    /\ currentCycle = 0
    /\ nextEventCycle = Never
    /\ lastEventCycle = 0
    /\ cursor = 0
    /\ stepCycles = 0
    /\ advance = 0
    /\ callbacks = {}
    /\ priority = [e \in Events |-> 0]
    /\ status = [e \in Events |-> "new"]

\* The events of a list that Process has delivered and freed; the pointers stay
\* in the list until Process erases it.
Freed(when) == IF when = nextEventCycle THEN cursor - 1 ELSE 0

\* Mutant: the list is not searched, every event goes to its end.
InsertPositionsAtEnd(when, p) == {Len(eventMap[when]) + 1}

\* Mutant: >= for > in the search.
InsertPositionsBeforeEqual(when, p) ==
    LET list  == eventMap[when]
        later == {i \in 1 .. Len(list) : i > Freed(when) /\ priority[list[i]] >= p}
    IN  {IF later = {} THEN Len(list) + 1 ELSE Least(later)}

\* Where InsertEvent puts an event of priority p: before the first event whose
\* stored priority is greater. The search also reads the priorities of freed
\* events, which may hold anything: it may stop at each of them.
InsertPositions(when, p) ==
    LET list  == eventMap[when]
        freed == 1 .. Freed(when)
        later == {i \in 1 .. Len(list) \ freed : priority[list[i]] > p}
    IN  freed \cup
        {IF later = {} THEN Len(list) + 1 ELSE Least(later)}

\* Mutant: nextEventCycle is set only when the queue was empty.
InsertKeepsNext(e, when, p) ==
    /\ status[e] = "new"
    /\ status' = [status EXCEPT ![e] = "pending"]
    /\ nextEventCycle' = IF nextEventCycle = Never THEN when ELSE nextEventCycle
    /\ eventMap' = [eventMap EXCEPT ![when] = Append(@, e)]
    /\ UNCHANGED <<cursor, currentCycle, lastEventCycle, stepCycles, advance>>

\* InsertEvent( event, when, priority ): the list and nextEventCycle. An insertion
\* at or before the iterator shifts the event under it.
Insert(e, when, p) ==
    /\ status[e] = "new"
    /\ status' = [status EXCEPT ![e] =
                    IF Processing /\ when = nextEventCycle THEN "late" ELSE "pending"]
    /\ nextEventCycle' = IF when < nextEventCycle THEN when ELSE nextEventCycle
    /\ \E i \in InsertPositions(when, p) :
        /\ eventMap' = [eventMap EXCEPT ![when] = InsertedAt(@, i, e)]
        /\ cursor' = IF Processing /\ when = nextEventCycle /\ i <= cursor
                     THEN cursor + 1 ELSE cursor
    /\ UNCHANGED <<currentCycle, lastEventCycle, stepCycles, advance>>

\* InsertEvent( type, recipient, req, when, data, priority ): the argument picks
\* the position, the new Event keeps the constructor's priority 0.
InsertEvent(e, when, p) ==
    /\ when >= currentCycle
    /\ p >= 0
    /\ ~InLoop \/ Processing
    /\ Insert(e, when, p)
    /\ UNCHANGED <<callbacks, priority>>

\* InsertCallback( recipient, method, when, data, priority ).
InsertCallback(e, when, p) ==
    /\ when >= currentCycle
    /\ ~InLoop \/ Processing
    /\ Insert(e, when, p)
    /\ callbacks' = callbacks \cup {e}
    /\ priority' = [priority EXCEPT ![e] = p]

\* RemoveEvent( event, when ) of an event still to be delivered (its only caller,
\* SubArray::CheckWritePausing, cancels a write's completion in a later cycle).
RemoveEvent(e, when) ==
    /\ ~InLoop \/ Processing
    /\ Waiting(e)
    /\ when > currentCycle
    /\ \E i \in 1 .. Len(eventMap[when]) :
        /\ eventMap[when][i] = e
        /\ eventMap' = [eventMap EXCEPT ![when] = Without(@, i)]
    /\ nextEventCycle' = FirstOf(eventMap')
    /\ status' = [status EXCEPT ![e] = "removed"]
    /\ UNCHANGED <<currentCycle, lastEventCycle, cursor, stepCycles, advance,
                   callbacks, priority>>

-----------------------------------------------------------------------------
\* Process enters the list of nextEventCycle and delivers its first event.
StartProcess ==
    /\ cursor' = 1
    /\ status' = [status EXCEPT ![eventMap[nextEventCycle][1]] = "delivered"]

\* Mutant: the cycle is counted before its events are looked for.
LoopCountsFirst ==
    /\ ~InLoop
    /\ currentCycle <= MaxCycle
    /\ currentCycle' = currentCycle + 1
    /\ \/ nextEventCycle = currentCycle + 1 /\ StartProcess
       \/ nextEventCycle # currentCycle + 1 /\ UNCHANGED <<cursor, status>>
    /\ UNCHANGED <<eventMap, nextEventCycle, lastEventCycle, stepCycles, advance,
                   callbacks, priority>>

\* Loop( ): process the current cycle, if it has events, then count it.
Loop ==
    /\ ~InLoop
    /\ currentCycle <= MaxCycle
    /\ \/ /\ nextEventCycle = currentCycle
          /\ StartProcess
          /\ advance' = 1
          /\ UNCHANGED currentCycle
       \/ /\ nextEventCycle # currentCycle
          /\ currentCycle' = currentCycle + 1
          /\ UNCHANGED <<cursor, status, advance>>
    /\ UNCHANGED <<eventMap, nextEventCycle, lastEventCycle, stepCycles, callbacks, priority>>

\* Loop( 0 ): process the current cycle, if it has events.
LoopZero ==
    /\ ~InLoop
    /\ nextEventCycle = currentCycle
    /\ StartProcess
    /\ UNCHANGED <<eventMap, currentCycle, nextEventCycle, lastEventCycle, stepCycles,
                   advance, callbacks, priority>>

\* Loop( steps ), entered.
LoopSteps(steps) ==
    /\ ~InLoop
    /\ currentCycle <= MaxCycle
    /\ stepCycles' = steps
    /\ UNCHANGED <<eventMap, currentCycle, nextEventCycle, lastEventCycle, cursor,
                   advance, callbacks, priority, status>>

\* Mutant: the steps already made are not subtracted from the distance.
LoopStepFromZero ==
    /\ stepCycles > 0
    /\ ~Processing
    /\ nextEventCycle <= currentCycle + stepCycles
    /\ currentCycle' = nextEventCycle
    /\ stepCycles' = stepCycles - nextEventCycle
    /\ StartProcess
    /\ UNCHANGED <<eventMap, nextEventCycle, lastEventCycle, advance, callbacks, priority>>

\* One round of the while of Loop( steps ).
LoopStep ==
    /\ stepCycles > 0
    /\ ~Processing
    /\ \/ /\ nextEventCycle > currentCycle + stepCycles
          /\ currentCycle' = currentCycle + stepCycles
          /\ stepCycles' = 0
          /\ UNCHANGED <<cursor, status>>
       \/ /\ nextEventCycle <= currentCycle + stepCycles
          /\ currentCycle' = nextEventCycle
          /\ stepCycles' = stepCycles - (nextEventCycle - currentCycle)
          /\ StartProcess
    /\ UNCHANGED <<eventMap, nextEventCycle, lastEventCycle, advance, callbacks, priority>>

\* The delivered event is freed and the iterator moves to the next one.
ProcessNext ==
    /\ Processing
    /\ cursor < Len(eventMap[nextEventCycle])
    /\ cursor' = cursor + 1
    /\ status' = [status EXCEPT ![eventMap[nextEventCycle][cursor + 1]] = "delivered"]
    /\ UNCHANGED <<eventMap, currentCycle, nextEventCycle, lastEventCycle, stepCycles,
                   advance, callbacks, priority>>

\* Mutant: the loop over the list stops one event early.
ProcessEndEarly ==
    /\ Processing
    /\ cursor \in {Len(eventMap[nextEventCycle]) - 1, Len(eventMap[nextEventCycle])}
    /\ cursor' = 0
    /\ status' = [e \in Events |->
                    IF /\ Waiting(e)
                       /\ \E i \in 1 .. Len(eventMap[nextEventCycle]) :
                            eventMap[nextEventCycle][i] = e
                    THEN "lost" ELSE status[e]]
    /\ eventMap' = [eventMap EXCEPT ![nextEventCycle] = <<>>]
    /\ lastEventCycle' = nextEventCycle
    /\ nextEventCycle' = FirstOf(eventMap')
    /\ currentCycle' = currentCycle + advance
    /\ advance' = 0
    /\ UNCHANGED <<stepCycles, callbacks, priority>>

\* The list is erased, with whatever the iterator never reached, and the next cycle
\* is looked up; Loop( ) then counts the cycle.
ProcessEnd ==
    /\ Processing
    /\ cursor = Len(eventMap[nextEventCycle])
    /\ cursor' = 0
    /\ status' = [e \in Events |->
                    IF /\ Waiting(e)
                       /\ \E i \in 1 .. Len(eventMap[nextEventCycle]) :
                            eventMap[nextEventCycle][i] = e
                    THEN "lost" ELSE status[e]]
    /\ eventMap' = [eventMap EXCEPT ![nextEventCycle] = <<>>]
    /\ lastEventCycle' = nextEventCycle
    /\ nextEventCycle' = FirstOf(eventMap')
    /\ currentCycle' = currentCycle + advance
    /\ advance' = 0
    /\ UNCHANGED <<stepCycles, callbacks, priority>>

Next ==
    \/ \E e \in Events, when \in Cycles, p \in Priorities :
        InsertEvent(e, when, p) \/ InsertCallback(e, when, p)
    \/ \E e \in Events, when \in Cycles : RemoveEvent(e, when)
    \/ Loop
    \/ LoopZero
    \/ \E steps \in 1 .. MaxSteps : LoopSteps(steps)
    \/ LoopStep
    \/ ProcessNext
    \/ ProcessEnd

Spec == Init /\ [][Next]_vars

\* The simulator keeps calling Loop, and Loop and Process run to their end.
FairSpec == Spec /\ WF_vars(Loop \/ LoopStep \/ ProcessNext \/ ProcessEnd)

-----------------------------------------------------------------------------
\* The types of the members of EventQueue and of the state of Process.
TypeOK ==
    /\ eventMap \in [Cycles -> Seq(Events)]
    /\ currentCycle \in Nat
    /\ nextEventCycle \in Cycles \cup {Never}
    /\ lastEventCycle \in Cycles
    /\ cursor \in Nat
    /\ stepCycles \in 0 .. MaxSteps
    /\ advance \in {0, 1}
    /\ callbacks \in SUBSET Events
    /\ priority \in [Events -> Int]
    /\ status \in [Events -> Statuses]

\* nextEventCycle, kept up to date by hand in InsertEvent, RemoveEvent and Process,
\* is always the first key of the map: Loop jumps straight to it.
NextEventIsFirst == nextEventCycle = FirstOf(eventMap)

\* Loop never passes over a cycle with events; an overdue event would be stuck, since
\* Loop( ) tests nextEventCycle == currentCycle and Loop( steps ) would underflow.
NoneOverdue == \A c \in Scheduled(eventMap) : currentCycle <= c

\* The iterator of Process stays inside the list of the current cycle, the one that
\* Process erases at its end, whatever the callbacks insert and remove meanwhile.
CursorInside ==
    /\ Processing => /\ nextEventCycle = currentCycle
                     /\ cursor <= Len(eventMap[currentCycle])
    /\ advance = 1 => Processing /\ stepCycles = 0

\* No Loop reaches the cycle number that stands for "never".
BelowNever == currentCycle + stepCycles < Never

\* The inductive invariant.
IndInv == TypeOK /\ NextEventIsFirst /\ NoneOverdue /\ CursorInside /\ BelowNever

\* The place of a list up to which the iterator of Process has come.
Passed(c) == IF c = nextEventCycle THEN cursor ELSE 0

\* The callbacks still to be delivered in a cycle are in priority order, whatever
\* events were inserted between them: cleanup before refresh before command queue.
CallbacksSorted ==
    \A c \in Cycles :
        LET list == eventMap[c]
            todo == {i \in 1 .. Len(list) : i > Passed(c) /\ list[i] \in callbacks}
        IN  \A i, j \in todo : i < j => priority[list[i]] <= priority[list[j]]

\* An event is in at most one place of one list.
FiledOnce ==
    \A c, d \in Cycles : \A i \in 1 .. Len(eventMap[c]), j \in 1 .. Len(eventMap[d]) :
        eventMap[c][i] = eventMap[d][j] => c = d /\ i = j

\* The iterator has delivered the events up to it, or never reaches them; every other
\* event of a list waits, and only Process sees late ones.
FiledByPlace ==
    \A c \in Cycles : \A i \in 1 .. Len(eventMap[c]) :
        /\ i <= Passed(c) => status[eventMap[c][i]] \in {"delivered", "late"}
        /\ i > Passed(c) => Waiting(eventMap[c][i])
        /\ status[eventMap[c][i]] = "late" => Processing /\ c = nextEventCycle

\* Only InsertCallback stores a priority, and only for an event it files.
PrioritiesStored ==
    /\ \A e \in callbacks : status[e] # "new"
    /\ \A e \in Events \ callbacks : priority[e] = 0

\* Ahead of the iterator no event stands before a callback of a smaller priority.
SortedAhead ==
    \A c \in Cycles : \A i, j \in 1 .. Len(eventMap[c]) :
        Passed(c) < i /\ i < j /\ eventMap[c][j] \in callbacks
            => priority[eventMap[c][i]] <= priority[eventMap[c][j]]

\* What IndInv leaves open of the lists, inductive with it.
FilingInv == FiledOnce /\ FiledByPlace /\ PrioritiesStored /\ SortedAhead

\* Callbacks of equal priority are delivered in the order of their insertion: no step
\* swaps two waiting callbacks of a cycle, and a new one goes behind the waiting ones,
\* except a late one that the iterator will not reach.
FifoStep ==
    \A c \in Cycles : \A i, j \in 1 .. Len(eventMap'[c]) :
        LET d == eventMap'[c][i]
            e == eventMap'[c][j]
        IN  (/\ i < j
             /\ i > Freed(c)'
             /\ {d, e} \subseteq callbacks'
             /\ priority'[d] = priority'[e]
             /\ Waiting(e))
            => /\ status[d] # "new"
               /\ PositionOf(d, eventMap[c]) < PositionOf(e, eventMap[c])
FifoWithinPriority == [][FifoStep]_vars

\* The queue keeps its promise to the memory system (module Agenda): every event is
\* delivered in exactly its cycle, time passes over none, and Process drops at most
\* events inserted for the cycle it is delivering.
WaitingAt(c) == {i \in 1 .. Len(eventMap[c]) : Waiting(eventMap[c][i])}
Item(c, i) == [event |-> eventMap[c][i], cycle |-> c, late |-> status[eventMap[c][i]] = "late"]
Items == UNION {{Item(c, i) : i \in WaitingAt(c)} : c \in Cycles}
AgendaView == INSTANCE Agenda WITH
    now <- currentCycle,
    busy <- Processing,
    agenda <- Items
KeepsAgenda == AgendaView!Spec

\* Every event inserted is eventually delivered, removed or dropped.
EventuallyHandled == \A e \in Events : Waiting(e) ~> ~Waiting(e)

\* "We need to guarantee that the event that is inserted in current cycle and must be
\* handled in current cycle can be processed" (EventQueue.cpp:315-319).
NoEventLost == \A e \in Events : status[e] # "lost"
=============================================================================
