------------------------- MODULE EventQueue_proofs -------------------------
(***************************************************************************)
(* For every set of events, every set of priorities and every bound: the   *)
(* map, nextEventCycle and currentCycle of the event queue stay consistent *)
(* and no event becomes overdue; the callbacks of a cycle are delivered by *)
(* priority, first in first out; and the queue implements module Agenda.   *)
(***************************************************************************)
EXTENDS EventQueue, Lists_proofs, SequenceTheorems, TLAPS

USE MaxCycleAssumption, MaxStepsAssumption, PrioritiesAssumption

\* The first key of the map: Never for an empty map, else its least key.
LEMMA FirstOfFacts ==
    ASSUME NEW m
    PROVE  /\ Scheduled(m) = {} => FirstOf(m) = Never
           /\ Scheduled(m) # {} => /\ FirstOf(m) \in Scheduled(m)
                                   /\ \A d \in Scheduled(m) : FirstOf(m) <= d
<1>1. Scheduled(m) \in SUBSET Nat
  BY DEF Scheduled, Cycles
<1>2. Scheduled(m) # {} => /\ Least(Scheduled(m)) \in Scheduled(m)
                           /\ \A d \in Scheduled(m) : Least(Scheduled(m)) <= d
  BY <1>1, LeastFacts
<1> QED
  BY <1>2 DEF FirstOf

\* A scheduled cycle that is not after any other is the first one.
LEMMA FirstOfUnique ==
    ASSUME NEW m, NEW c \in Scheduled(m), \A d \in Scheduled(m) : c <= d
    PROVE  FirstOf(m) = c
<1>1. FirstOf(m) \in Scheduled(m) /\ FirstOf(m) <= c
  BY FirstOfFacts
<1>2. c <= FirstOf(m)
  BY <1>1
<1> QED
  BY <1>1, <1>2 DEF Scheduled, Cycles

\* Never is no cycle.
LEMMA NeverIsNoCycle ==
    /\ Never \in Nat
    /\ Cycles \subseteq Nat
    /\ \A c \in Cycles : c < Never
  BY DEF Never, Cycles

\* Unless it is Never, nextEventCycle is a key of the map and its list has an event.
LEMMA NextIsScheduled ==
    ASSUME TypeOK, NextEventIsFirst, nextEventCycle # Never
    PROVE  /\ nextEventCycle \in Scheduled(eventMap)
           /\ nextEventCycle \in Cycles
           /\ Len(eventMap[nextEventCycle]) \in Nat \ {0}
           /\ eventMap[nextEventCycle][1] \in Events
<1>1. nextEventCycle \in Scheduled(eventMap)
  BY FirstOfFacts DEF NextEventIsFirst
<1>2. nextEventCycle \in Cycles /\ eventMap[nextEventCycle] # <<>>
  BY <1>1 DEF Scheduled
<1>3. eventMap[nextEventCycle] \in Seq(Events)
  BY <1>2 DEF TypeOK
<1>4. Len(eventMap[nextEventCycle]) \in Nat \ {0}
  BY <1>2, <1>3, EmptySeq
<1> QED
  BY <1>1, <1>2, <1>3, <1>4, ElementOfSeq

\* InsertEvent puts the event inside the list or at its end.
LEMMA InsertPositionsFacts ==
    ASSUME TypeOK, CursorInside, NEW when \in Cycles, NEW p \in Int,
           NEW i \in InsertPositions(when, p)
    PROVE  i \in 1 .. Len(eventMap[when]) + 1
<1> DEFINE list  == eventMap[when]
           freed == 1 .. Freed(when)
           later == {j \in 1 .. Len(list) \ freed : priority[list[j]] > p}
<1>1. Len(list) \in Nat
  BY LenProperties DEF TypeOK
<1>2. i \in freed => i \in 1 .. Len(list)
  BY <1>1 DEF TypeOK, CursorInside, Processing, Freed
<1>3. i \in freed \/ i = IF later = {} THEN Len(list) + 1 ELSE Least(later)
  BY DEF InsertPositions
<1>4. later # {} => Least(later) \in later
  <2>1. later \in SUBSET Nat
    BY <1>1
  <2> HIDE DEF later
  <2> QED BY <2>1, LeastFacts
<1>5. later \subseteq 1 .. Len(list)
  OBVIOUS
<1> DEFINE first == Least(later)
           n == Len(list)
<1>6. /\ i \in freed \/ i = IF later = {} THEN n + 1 ELSE first
      /\ later # {} => first \in 1 .. n
      /\ i \in freed => i \in 1 .. n
      /\ n \in Nat
  BY <1>1, <1>2, <1>3, <1>4, <1>5
<1>7. i \in 1 .. n + 1
  <2> HIDE DEF later, freed, first, n
  <2> QED BY <1>6
<1> QED
  BY <1>7

-----------------------------------------------------------------------------
\* The constructor establishes the invariant.
LEMMA InitInv == Init => IndInv
<1> SUFFICES ASSUME Init PROVE IndInv
  OBVIOUS
<1>1. Scheduled(eventMap) = {}
  BY DEF Init, Scheduled
<1>2. eventMap \in [Cycles -> Seq(Events)]
  BY EmptySeq DEF Init
<1>3. TypeOK
  BY <1>2, NeverIsNoCycle DEF Init, TypeOK, Statuses, Cycles
<1>4. NextEventIsFirst
  BY <1>1, FirstOfFacts DEF Init, NextEventIsFirst
<1> QED
  BY <1>1, <1>3, <1>4, NeverIsNoCycle
  DEF IndInv, Init, NoneOverdue, CursorInside, BelowNever, Processing, Never

\* Filing one more event under a cycle that has not passed keeps it.
LEMMA InsertInv ==
    ASSUME IndInv, NEW e \in Events, NEW when \in Cycles, NEW p \in Int,
           when >= currentCycle, Insert(e, when, p),
           callbacks' \in SUBSET Events, priority' \in [Events -> Int]
    PROVE  IndInv'
<1> USE DEF IndInv
<1>1. PICK i \in InsertPositions(when, p) :
        /\ eventMap' = [eventMap EXCEPT ![when] = InsertedAt(@, i, e)]
        /\ cursor' = IF Processing /\ when = nextEventCycle /\ i <= cursor
                     THEN cursor + 1 ELSE cursor
  BY DEF Insert
<1>2. i \in 1 .. Len(eventMap[when]) + 1
  BY InsertPositionsFacts
<1>3. eventMap[when] \in Seq(Events) /\ Len(eventMap[when]) \in Nat
  BY LenProperties DEF TypeOK
<1>4. /\ InsertedAt(eventMap[when], i, e) \in Seq(Events)
      /\ Len(InsertedAt(eventMap[when], i, e)) = Len(eventMap[when]) + 1
  BY <1>2, <1>3, InsertedAtFacts
<1>5. /\ eventMap' \in [Cycles -> Seq(Events)]
      /\ Len(eventMap'[when]) = Len(eventMap[when]) + 1
      /\ \A c \in Cycles : c # when => eventMap'[c] = eventMap[c]
  BY <1>1, <1>4 DEF TypeOK
<1>6. Scheduled(eventMap') = Scheduled(eventMap) \cup {when}
  <2>1. eventMap'[when] # <<>>
    BY <1>3, <1>5, EmptySeq
  <2> QED
    BY <1>5, <2>1 DEF Scheduled
<1>u. /\ nextEventCycle' = IF when < nextEventCycle THEN when ELSE nextEventCycle
      /\ currentCycle' = currentCycle
      /\ lastEventCycle' = lastEventCycle
      /\ stepCycles' = stepCycles
      /\ advance' = advance
  BY DEF Insert
<1>7. TypeOK'
  <2>1. status' \in [Events -> Statuses]
    BY DEF Insert, TypeOK, Statuses
  <2>2. cursor' \in Nat
    BY <1>1 DEF TypeOK
  <2>3. nextEventCycle' \in Cycles \cup {Never}
    BY <1>u DEF TypeOK
  <2> QED
    BY <1>5, <1>u, <2>1, <2>2, <2>3 DEF TypeOK
<1>8. NextEventIsFirst'
  <2>0. nextEventCycle \in Nat /\ when \in Nat /\ when < Never
    BY NeverIsNoCycle DEF TypeOK
  <2>1. /\ nextEventCycle = Never => Scheduled(eventMap) = {}
        /\ nextEventCycle # Never => nextEventCycle \in Scheduled(eventMap)
        /\ \A d \in Scheduled(eventMap) : nextEventCycle <= d
    BY FirstOfFacts, NeverIsNoCycle DEF NextEventIsFirst, Scheduled
  <2>2. nextEventCycle' \in Scheduled(eventMap')
    BY <1>6, <1>u, <2>0, <2>1
  <2>3. \A d \in Scheduled(eventMap) : d \in Nat
    BY NeverIsNoCycle DEF Scheduled
  <2>4. \A d \in Scheduled(eventMap') : nextEventCycle' <= d
    BY <1>6, <1>u, <2>0, <2>1, <2>3
  <2> QED
    BY <2>2, <2>4, FirstOfUnique DEF NextEventIsFirst
<1>9. NoneOverdue'
  BY <1>6, <1>u DEF NoneOverdue
<1>10. CursorInside'
  <2>1. Processing' <=> Processing
    BY <1>1 DEF Processing, TypeOK
  <2>3. ASSUME Processing
        PROVE  /\ nextEventCycle' = currentCycle'
               /\ cursor' <= Len(eventMap'[currentCycle'])
    <3>1. nextEventCycle = currentCycle /\ cursor <= Len(eventMap[currentCycle])
      BY <2>3 DEF CursorInside
    <3>2. nextEventCycle' = currentCycle
      BY <1>u, <3>1, NeverIsNoCycle DEF TypeOK
    <3>3. currentCycle \in Cycles
      BY <3>1, NeverIsNoCycle DEF TypeOK, BelowNever
    <3>4. Len(eventMap[currentCycle]) \in Nat /\ cursor \in Nat
      BY <3>3, LenProperties DEF TypeOK
    <3>5. CASE when = currentCycle
      BY <1>1, <1>5, <1>u, <3>1, <3>2, <3>4, <3>5
    <3>6. CASE when # currentCycle
      BY <1>1, <1>5, <1>u, <3>1, <3>2, <3>3, <3>6
    <3> QED
      BY <3>5, <3>6
  <2> QED
    BY <1>u, <2>1, <2>3 DEF CursorInside
<1>11. BelowNever'
  BY <1>u DEF BelowNever, Never
<1> QED
  BY <1>7, <1>8, <1>9, <1>10, <1>11

\* RemoveEvent of an event of a later cycle.
LEMMA RemoveInv ==
    ASSUME IndInv, NEW e \in Events, NEW when \in Cycles, RemoveEvent(e, when)
    PROVE  IndInv'
<1> USE DEF IndInv
<1>1. PICK i \in 1 .. Len(eventMap[when]) :
        eventMap' = [eventMap EXCEPT ![when] = Without(@, i)]
  BY DEF RemoveEvent
<1>2. eventMap[when] \in Seq(Events)
  BY DEF TypeOK
<1>3. Without(eventMap[when], i) \in Seq(Events)
  BY <1>2, WithoutFacts
<1>4. /\ eventMap' \in [Cycles -> Seq(Events)]
      /\ \A c \in Cycles : c # when => eventMap'[c] = eventMap[c]
  BY <1>1, <1>3 DEF TypeOK
<1>5. Scheduled(eventMap') \subseteq Scheduled(eventMap)
  <2>1. eventMap[when] # <<>>
    BY <1>2, EmptySeq
  <2> QED
    BY <1>4, <2>1 DEF Scheduled
<1>u. /\ nextEventCycle' = FirstOf(eventMap')
      /\ when > currentCycle
      /\ currentCycle' = currentCycle
      /\ lastEventCycle' = lastEventCycle
      /\ stepCycles' = stepCycles
      /\ advance' = advance
      /\ cursor' = cursor
      /\ callbacks' = callbacks
      /\ priority' = priority
  BY DEF RemoveEvent
<1>6. TypeOK'
  <2>1. status' \in [Events -> Statuses]
    BY DEF RemoveEvent, TypeOK, Statuses
  <2>2. nextEventCycle' \in Cycles \cup {Never}
    BY <1>u, FirstOfFacts DEF Scheduled
  <2> QED
    BY <1>4, <1>u, <2>1, <2>2 DEF TypeOK
<1>7. NextEventIsFirst'
  BY <1>u DEF NextEventIsFirst
<1>8. NoneOverdue'
  BY <1>5, <1>u DEF NoneOverdue
<1>9. CursorInside'
  <2>1. Processing' <=> Processing
    BY <1>u DEF Processing
  <2>2. ASSUME Processing
        PROVE  /\ nextEventCycle' = currentCycle'
               /\ cursor' <= Len(eventMap'[currentCycle'])
    <3>1. nextEventCycle = currentCycle /\ cursor <= Len(eventMap[currentCycle])
      BY <2>2 DEF CursorInside
    <3>2. currentCycle \in Cycles
      BY <3>1, NeverIsNoCycle DEF TypeOK, BelowNever
    <3>3. eventMap'[currentCycle] = eventMap[currentCycle]
      BY <1>4, <1>u, <3>2, NeverIsNoCycle
    <3>7. currentCycle \in Scheduled(eventMap)
      BY <3>1, <3>2, NextIsScheduled, NeverIsNoCycle
    <3>4. currentCycle \in Scheduled(eventMap')
      BY <3>2, <3>3, <3>7 DEF Scheduled
    <3>5. \A d \in Scheduled(eventMap') : currentCycle <= d
      BY <1>8, <1>u DEF NoneOverdue
    <3>6. FirstOf(eventMap') = currentCycle
      BY <3>4, <3>5, FirstOfUnique
    <3> QED
      BY <1>u, <3>1, <3>3, <3>6
  <2> QED
    BY <1>u, <2>1, <2>2 DEF CursorInside
<1>10. BelowNever'
  BY <1>u DEF BelowNever, Never
<1> QED
  BY <1>6, <1>7, <1>8, <1>9, <1>10

\* A step that starts Process at cycle c, the one of nextEventCycle, or only moves the
\* time, up to nextEventCycle at most.
LEMMA TimeInv ==
    ASSUME IndInv,
           UNCHANGED <<eventMap, nextEventCycle, lastEventCycle, callbacks, priority>>,
           cursor = 0,
           currentCycle' \in Nat, currentCycle <= currentCycle', currentCycle' <= nextEventCycle,
           stepCycles' \in 0 .. MaxSteps, advance' \in {0, 1},
           currentCycle' + stepCycles' < Never,
           \/ cursor' = 0 /\ status' = status /\ advance' = 0
           \/ /\ StartProcess
              /\ currentCycle' = nextEventCycle
              /\ advance' = 1 => stepCycles' = 0
    PROVE  IndInv'
<1> USE DEF IndInv
<1>1. NextEventIsFirst'
  BY DEF NextEventIsFirst
<1>2. NoneOverdue'
  <2>1. \A c \in Scheduled(eventMap) : nextEventCycle <= c
    BY FirstOfFacts DEF NextEventIsFirst
  <2>2. \A c \in Scheduled(eventMap) : c \in Nat
    BY NeverIsNoCycle DEF Scheduled
  <2>3. nextEventCycle \in Nat
    BY NeverIsNoCycle DEF TypeOK
  <2>4. \A c \in Scheduled(eventMap) : currentCycle' <= c
    BY <2>1, <2>2, <2>3
  <2> QED
    BY <2>4 DEF NoneOverdue
<1>3. BelowNever'
  BY DEF BelowNever
<1>4. CASE cursor' = 0 /\ status' = status /\ advance' = 0
  <2>1. TypeOK'
    BY <1>4 DEF TypeOK
  <2>2. CursorInside'
    BY <1>4 DEF CursorInside, Processing
  <2> QED
    BY <1>1, <1>2, <1>3, <2>1, <2>2
<1>5. CASE StartProcess /\ currentCycle' = nextEventCycle /\ (advance' = 1 => stepCycles' = 0)
  <2>0. currentCycle' < Never
    <3>1. \A a \in Nat, b \in 0 .. MaxSteps : a + b < Never => a < Never
      BY DEF Never
    <3> QED BY <3>1, Zenon
  <2>1. nextEventCycle # Never
    BY <1>5, <2>0, NeverIsNoCycle
  <2>2. Len(eventMap[nextEventCycle]) \in Nat \ {0}
    BY <2>1, NextIsScheduled
  <2>3. status' \in [Events -> Statuses] /\ cursor' = 1
    BY <1>5 DEF StartProcess, TypeOK, Statuses
  <2>4. TypeOK'
    BY <2>3 DEF TypeOK
  <2>5. CursorInside'
    BY <1>5, <2>2, <2>3 DEF CursorInside, Processing
  <2> QED
    BY <1>1, <1>2, <1>3, <2>4, <2>5
<1> QED
  BY <1>4, <1>5

\* Loop( ), the entry and the rounds of Loop( steps ).
LEMMA LoopInv ==
    ASSUME IndInv, Loop \/ LoopZero \/ (\E n \in 1 .. MaxSteps : LoopSteps(n)) \/ LoopStep
    PROVE  IndInv'
<1> USE DEF IndInv
<1>0. /\ cursor \in Nat /\ currentCycle \in Nat /\ stepCycles \in 0 .. MaxSteps
      /\ nextEventCycle \in Nat /\ nextEventCycle <= Never
      /\ ~Processing => cursor = 0
      /\ ~InLoop => stepCycles = 0 /\ cursor = 0
  BY NeverIsNoCycle DEF TypeOK, Processing, InLoop
<1>n. currentCycle <= nextEventCycle
  <2>1. CASE nextEventCycle = Never
    BY <1>0, <2>1, NeverIsNoCycle DEF BelowNever
  <2>2. CASE nextEventCycle # Never
    BY <2>2, NextIsScheduled DEF NoneOverdue
  <2> QED
    BY <2>1, <2>2
<1>a. cursor = 0 => advance = 0
  BY DEF CursorInside, Processing, TypeOK
<1>1. CASE Loop
  <2>1. CASE nextEventCycle = currentCycle
    <3>1. currentCycle' = currentCycle /\ StartProcess /\ advance' = 1
      BY <1>1, <2>1 DEF Loop
    <3> QED
      BY <1>0, <1>1, <2>1, <3>1, TimeInv DEF Loop, BelowNever
  <2>2. CASE nextEventCycle # currentCycle
    <3>1. /\ currentCycle' = currentCycle + 1
          /\ cursor' = 0 /\ status' = status /\ advance' = 0
      BY <1>0, <1>1, <1>a, <2>2 DEF Loop
    <3>2. currentCycle <= MaxCycle
      BY <1>1 DEF Loop
    <3>3. currentCycle' + stepCycles < Never
      BY <1>0, <1>1, <3>1, <3>2 DEF Never, Loop
    <3> QED
      BY <1>0, <1>1, <1>n, <2>2, <3>1, <3>3, TimeInv DEF Loop
  <2> QED
    BY <2>1, <2>2
<1>2. CASE LoopZero
  BY <1>0, <1>2, <1>a, TimeInv DEF LoopZero, BelowNever
<1>3. CASE \E n \in 1 .. MaxSteps : LoopSteps(n)
  <2>1. PICK n \in 1 .. MaxSteps : LoopSteps(n)
    BY <1>3
  <2>2. currentCycle + n < Never
    BY <1>0, <2>1 DEF LoopSteps, Never
  <2> QED
    BY <1>0, <1>a, <1>n, <2>1, <2>2, TimeInv DEF LoopSteps
<1>4. CASE LoopStep
  <2>1. CASE nextEventCycle > currentCycle + stepCycles
    <3>1. /\ currentCycle' = currentCycle + stepCycles
          /\ stepCycles' = 0
          /\ cursor' = cursor /\ status' = status /\ advance' = advance
      BY <1>0, <1>4, <2>1 DEF LoopStep
    <3> QED
      BY <1>0, <1>4, <1>a, <2>1, <3>1, TimeInv DEF LoopStep, BelowNever
  <2>2. CASE nextEventCycle <= currentCycle + stepCycles
    <3>1. /\ currentCycle' = nextEventCycle
          /\ stepCycles' = stepCycles - (nextEventCycle - currentCycle)
          /\ StartProcess /\ advance' = advance
      BY <1>0, <1>4, <2>2 DEF LoopStep
    <3> QED
      BY <1>0, <1>4, <1>a, <1>n, <2>2, <3>1, TimeInv DEF LoopStep, BelowNever
  <2> QED
    BY <1>0, <2>1, <2>2
<1> QED
  BY <1>1, <1>2, <1>3, <1>4

\* Process moves its iterator, and erases the list at its end.
LEMMA ProcessInv ==
    ASSUME IndInv, ProcessNext \/ ProcessEnd
    PROVE  IndInv'
<1> USE DEF IndInv
<1>0. /\ cursor \in Nat \ {0} /\ Processing
      /\ nextEventCycle = currentCycle
      /\ cursor <= Len(eventMap[nextEventCycle])
      /\ currentCycle \in Cycles
      /\ currentCycle \in Nat
  BY NeverIsNoCycle DEF TypeOK, Processing, CursorInside, BelowNever, ProcessNext, ProcessEnd
<1>1. CASE ProcessNext
  <2>1. status' \in [Events -> Statuses]
    BY <1>1 DEF ProcessNext, TypeOK, Statuses
  <2>2. /\ cursor' = cursor + 1 /\ cursor < Len(eventMap[nextEventCycle])
        /\ UNCHANGED <<eventMap, currentCycle, nextEventCycle, lastEventCycle, stepCycles,
                       advance, callbacks, priority>>
    BY <1>1 DEF ProcessNext
  <2>3. TypeOK'
    BY <1>0, <2>1, <2>2 DEF TypeOK
  <2>4. eventMap[nextEventCycle] \in Seq(Events) /\ Len(eventMap[nextEventCycle]) \in Nat
    BY <1>0, LenProperties DEF TypeOK
  <2>5. CursorInside'
    BY <1>0, <2>2, <2>4 DEF CursorInside, Processing
  <2> QED
    BY <2>2, <2>3, <2>5 DEF NextEventIsFirst, NoneOverdue, BelowNever, Never
<1>2. CASE ProcessEnd
  <2>1. /\ eventMap' = [eventMap EXCEPT ![nextEventCycle] = <<>>]
        /\ nextEventCycle' = FirstOf(eventMap')
        /\ lastEventCycle' = nextEventCycle
        /\ currentCycle' = currentCycle + advance
        /\ cursor' = 0 /\ advance' = 0
        /\ UNCHANGED <<stepCycles, callbacks, priority>>
    BY <1>2 DEF ProcessEnd
  <2>2. status' \in [Events -> Statuses]
    BY <1>2 DEF ProcessEnd, TypeOK, Statuses
  <2>3. eventMap' \in [Cycles -> Seq(Events)]
    BY <1>0, <2>1, EmptySeq DEF TypeOK
  <2>4. nextEventCycle' \in Cycles \cup {Never}
    BY <2>1, FirstOfFacts DEF Scheduled
  <2>5. TypeOK'
    BY <1>0, <2>1, <2>2, <2>3, <2>4 DEF TypeOK
  <2>6. Scheduled(eventMap') = Scheduled(eventMap) \ {currentCycle}
    BY <1>0, <2>1 DEF Scheduled, TypeOK
  <2>7. NoneOverdue'
    <3>1. \A c \in Scheduled(eventMap) : c \in Nat /\ currentCycle <= c
      BY NeverIsNoCycle DEF Scheduled, NoneOverdue
    <3>2. \A c \in Scheduled(eventMap') : currentCycle + advance <= c
      BY <1>0, <2>6, <3>1 DEF TypeOK
    <3> QED
      BY <2>1, <3>2 DEF NoneOverdue
  <2>8. CursorInside'
    BY <2>1 DEF CursorInside, Processing
  <2>9. BelowNever'
    <3>1. advance = 1 => stepCycles = 0
      BY DEF CursorInside
    <3> QED
      BY <1>0, <2>1, <3>1 DEF BelowNever, Never, TypeOK, Cycles
  <2> QED
    BY <2>1, <2>5, <2>7, <2>8, <2>9 DEF NextEventIsFirst
<1> QED
  BY <1>1, <1>2

-----------------------------------------------------------------------------
\* Every step keeps the invariant.
LEMMA NextInv == IndInv /\ [Next]_vars => IndInv'
<1> SUFFICES ASSUME IndInv, [Next]_vars PROVE IndInv'
  OBVIOUS
<1>1. ASSUME NEW e \in Events, NEW when \in Cycles, NEW p \in Priorities,
             InsertEvent(e, when, p)
      PROVE  IndInv'
  BY <1>1, InsertInv DEF InsertEvent, IndInv, TypeOK
<1>2. ASSUME NEW e \in Events, NEW when \in Cycles, NEW p \in Priorities,
             InsertCallback(e, when, p)
      PROVE  IndInv'
  <2>1. callbacks' \in SUBSET Events /\ priority' \in [Events -> Int]
    BY <1>2 DEF InsertCallback, IndInv, TypeOK
  <2> QED
    BY <1>2, <2>1, InsertInv DEF InsertCallback
<1>3. ASSUME NEW e \in Events, NEW when \in Cycles, RemoveEvent(e, when)
      PROVE  IndInv'
  BY <1>3, RemoveInv
<1>4. CASE Loop \/ LoopZero \/ (\E n \in 1 .. MaxSteps : LoopSteps(n)) \/ LoopStep
  BY <1>4, LoopInv
<1>5. CASE ProcessNext \/ ProcessEnd
  BY <1>5, ProcessInv
<1>6. CASE UNCHANGED vars
  BY <1>6 DEF vars, IndInv, TypeOK, NextEventIsFirst, NoneOverdue, CursorInside, BelowNever,
     Processing, Scheduled, FirstOf, Never
<1> QED
  BY <1>1, <1>2, <1>3, <1>4, <1>5, <1>6 DEF Next

\* The queue is type-correct, its nextEventCycle is the first key of the map, no event
\* is overdue and the iterator of Process never leaves its list (EventQueue.cpp:137-418).
THEOREM QueueConsistent == Spec => []IndInv
<1>1. Init => IndInv
  BY InitInv
<1>2. IndInv /\ [Next]_vars => IndInv'
  BY NextInv
<1> QED
  BY <1>1, <1>2, PTL DEF Spec

\* Loop never passes over a cycle with events (EventQueue.cpp:312-355).
THEOREM NeverOverdue == Spec => []NoneOverdue
<1>1. IndInv => NoneOverdue
  BY DEF IndInv
<1> QED
  BY <1>1, QueueConsistent, PTL

\* The types of the queue's members (EventQueue.h:98-160).
THEOREM QueueTypes == Spec => []TypeOK
<1>1. IndInv => TypeOK
  BY DEF IndInv
<1> QED
  BY <1>1, QueueConsistent, PTL

\* nextEventCycle is the first key of the map (EventQueue.cpp:186-189, 230-243, 410-417).
THEOREM NextAlwaysFirst == Spec => []NextEventIsFirst
<1>1. IndInv => NextEventIsFirst
  BY DEF IndInv
<1> QED
  BY <1>1, QueueConsistent, PTL

-----------------------------------------------------------------------------
(***************************************************************************)
(* The contents of the lists: every event in one place, the delivered ones *)
(* behind the iterator, and ahead of it the callbacks in priority order.   *)
(***************************************************************************)

\* The place of the list of c to which place j comes when place i of the list of `when'
\* is taken out, and when room for it is made.
PlaceDown(c, j, when, i) == IF c = when /\ j > i THEN j - 1 ELSE j
PlaceUp(c, j, when, i) == IF c = when /\ j >= i THEN j + 1 ELSE j

\* The lists are functions on a range of naturals, and hold events.
LEMMA ListFacts ==
    ASSUME TypeOK, NEW c \in Cycles
    PROVE  /\ eventMap[c] \in Seq(Events)
           /\ Len(eventMap[c]) \in Nat
           /\ \A j \in 1 .. Len(eventMap[c]) : eventMap[c][j] \in Events
           /\ Passed(c) \in Nat
  BY LenProperties, ElementOfSeq DEF TypeOK, Passed

\* The iterator stays on its cycle while Process runs.
LEMMA CursorCycle ==
    ASSUME IndInv, Processing
    PROVE  /\ nextEventCycle = currentCycle
           /\ currentCycle \in Cycles
           /\ cursor \in 1 .. Len(eventMap[currentCycle])
<1>1. nextEventCycle = currentCycle /\ cursor <= Len(eventMap[currentCycle])
  BY DEF IndInv, CursorInside
<1>2. currentCycle \in Cycles
  BY <1>1, NeverIsNoCycle DEF IndInv, TypeOK, BelowNever
<1> QED
  BY <1>1, <1>2, ListFacts DEF IndInv, TypeOK, Processing

\* An insertion moves no event across the iterator.
LEMMA InsertShift ==
    ASSUME IndInv, NEW e \in Events, NEW when \in Cycles, NEW p \in Int,
           when >= currentCycle, Insert(e, when, p)
    PROVE  \E i \in InsertPositions(when, p) :
             /\ i \in 1 .. Len(eventMap'[when])
             /\ eventMap'[when][i] = e
             /\ Passed(when)' = IF Processing /\ when = nextEventCycle /\ i <= cursor
                                THEN cursor + 1 ELSE Passed(when)
             /\ \A c \in Cycles : c # when => Passed(c)' = Passed(c)
             /\ \A c \in Cycles : c # when => eventMap'[c] = eventMap[c]
             /\ \A c \in Cycles : \A j \in 1 .. Len(eventMap'[c]) :
                  c # when \/ j # i =>
                    /\ PlaceDown(c, j, when, i) \in 1 .. Len(eventMap[c])
                    /\ eventMap'[c][j] = eventMap[c][PlaceDown(c, j, when, i)]
                    /\ j <= Passed(c)' <=> PlaceDown(c, j, when, i) <= Passed(c)
             /\ \A c \in Cycles : \A j \in 1 .. Len(eventMap[c]) :
                    /\ PlaceUp(c, j, when, i) \in 1 .. Len(eventMap'[c])
                    /\ c # when \/ PlaceUp(c, j, when, i) # i
                    /\ eventMap'[c][PlaceUp(c, j, when, i)] = eventMap[c][j]
<1> USE DEF IndInv
<1>1. PICK i \in InsertPositions(when, p) :
        /\ eventMap' = [eventMap EXCEPT ![when] = InsertedAt(@, i, e)]
        /\ cursor' = IF Processing /\ when = nextEventCycle /\ i <= cursor
                     THEN cursor + 1 ELSE cursor
  BY DEF Insert
<1>2. i \in 1 .. Len(eventMap[when]) + 1
  BY InsertPositionsFacts
<1>3. eventMap[when] \in Seq(Events) /\ Len(eventMap[when]) \in Nat
  BY ListFacts
<1>4. /\ Len(InsertedAt(eventMap[when], i, e)) = Len(eventMap[when]) + 1
      /\ \A j \in 1 .. Len(eventMap[when]) + 1 :
            InsertedAt(eventMap[when], i, e)[j] =
                IF j < i THEN eventMap[when][j]
                ELSE IF j = i THEN e ELSE eventMap[when][j - 1]
  <2> DEFINE list == eventMap[when]
  <2>1. list \in Seq(Events) /\ i \in 1 .. Len(list) + 1
    BY <1>2, <1>3
  <2> HIDE DEF list
  <2>2. Len(InsertedAt(list, i, e)) = Len(list) + 1
    BY <2>1, InsertedAtFacts
  <2>3. \A j \in 1 .. Len(list) + 1 :
            InsertedAt(list, i, e)[j] = IF j < i THEN list[j]
                                        ELSE IF j = i THEN e ELSE list[j - 1]
    BY <2>1, InsertedAtElements
  <2> QED BY <2>2, <2>3 DEF list
<1>5. /\ eventMap'[when] = InsertedAt(eventMap[when], i, e)
      /\ \A c \in Cycles : c # when => eventMap'[c] = eventMap[c]
  BY <1>1 DEF TypeOK
<1>6. /\ Len(eventMap'[when]) = Len(eventMap[when]) + 1
      /\ \A j \in 1 .. Len(eventMap[when]) + 1 :
            eventMap'[when][j] =
                IF j < i THEN eventMap[when][j]
                ELSE IF j = i THEN e ELSE eventMap[when][j - 1]
  BY <1>4, <1>5
<1>7. /\ Passed(when)' = IF Processing /\ when = nextEventCycle /\ i <= cursor
                         THEN cursor + 1 ELSE Passed(when)
      /\ \A c \in Cycles : c # when => Passed(c)' = Passed(c)
  <2>1. nextEventCycle' = IF when < nextEventCycle THEN when ELSE nextEventCycle
    BY DEF Insert
  <2>2. CASE Processing
    <3>0. nextEventCycle = currentCycle /\ currentCycle \in Nat /\ when \in Nat
      BY <2>2, CursorCycle, NeverIsNoCycle
    <3>1. nextEventCycle' = nextEventCycle
      BY <2>1, <3>0
    <3> QED
      BY <1>1, <2>2, <3>1 DEF Passed
  <2>3. CASE ~Processing
    BY <1>1, <2>3 DEF Passed, Processing, TypeOK
  <2> QED
    BY <2>2, <2>3
<1>8. \A c \in Cycles : Len(eventMap[c]) \in Nat /\ Passed(c) \in Nat
  BY ListFacts
<1>9. cursor \in Nat /\ (when = nextEventCycle => Passed(when) = cursor)
                     /\ (when # nextEventCycle => Passed(when) = 0)
                     /\ (~Processing => cursor = 0)
  BY DEF TypeOK, Passed, Processing
<1>10. ASSUME NEW c \in Cycles, NEW j \in 1 .. Len(eventMap'[c]), c # when \/ j # i
       PROVE  /\ PlaceDown(c, j, when, i) \in 1 .. Len(eventMap[c])
              /\ eventMap'[c][j] = eventMap[c][PlaceDown(c, j, when, i)]
              /\ j <= Passed(c)' <=> PlaceDown(c, j, when, i) <= Passed(c)
  <2>1. CASE c # when
    BY <1>5, <1>7, <2>1 DEF PlaceDown
  <2>2. CASE c = when /\ j < i
    BY <1>2, <1>3, <1>6, <1>7, <1>9, <2>2 DEF PlaceDown
  <2>3. CASE c = when /\ j > i
    <3>1. PlaceDown(c, j, when, i) = j - 1 /\ j - 1 \in 1 .. Len(eventMap[c])
      BY <1>2, <1>3, <1>6, <2>3 DEF PlaceDown
    <3>2. eventMap'[c][j] = eventMap[c][j - 1]
      <4>1. j \in 1 .. Len(eventMap[when]) + 1 /\ ~(j < i) /\ j # i
        BY <1>2, <1>3, <1>6, <2>3
      <4> QED
        BY <1>6, <2>3, <4>1
    <3>3. j <= Passed(c)' <=> j - 1 <= Passed(c)
      BY <1>2, <1>3, <1>6, <1>7, <1>9, <2>3
    <3> QED
      BY <3>1, <3>2, <3>3
  <2> QED
    BY <1>2, <1>3, <1>6, <1>10, <2>1, <2>2, <2>3
<1>11. ASSUME NEW c \in Cycles, NEW j \in 1 .. Len(eventMap[c])
       PROVE  /\ PlaceUp(c, j, when, i) \in 1 .. Len(eventMap'[c])
              /\ c # when \/ PlaceUp(c, j, when, i) # i
              /\ eventMap'[c][PlaceUp(c, j, when, i)] = eventMap[c][j]
  <2>1. CASE c # when
    BY <1>5, <2>1 DEF PlaceUp
  <2>2. CASE c = when /\ j < i
    BY <1>2, <1>3, <1>6, <2>2 DEF PlaceUp
  <2>3. CASE c = when /\ j >= i
    <3>1. PlaceUp(c, j, when, i) = j + 1 /\ j + 1 \in 1 .. Len(eventMap'[c]) /\ j + 1 # i
      BY <1>2, <1>3, <1>6, <2>3 DEF PlaceUp
    <3>2. j + 1 \in 1 .. Len(eventMap[when]) + 1 /\ ~(j + 1 < i) /\ j + 1 # i /\ (j + 1) - 1 = j
      BY <1>2, <1>3, <2>3
    <3>3. eventMap'[when][j + 1] = eventMap[when][(j + 1) - 1]
      BY <1>6, <3>2
    <3> QED
      BY <2>3, <3>1, <3>2, <3>3
  <2> QED
    BY <1>2, <1>3, <2>1, <2>2, <2>3
<1>12. i \in 1 .. Len(eventMap'[when]) /\ eventMap'[when][i] = e
  BY <1>2, <1>3, <1>6
<1> QED
  BY <1>5, <1>7, <1>10, <1>11, <1>12

\* Where the search of InsertEvent stops: at an event Process has freed, or behind every
\* event of a priority up to p and before the first of a greater one.
LEMMA InsertSearch ==
    ASSUME TypeOK, NEW when \in Cycles, NEW p \in Int, NEW i \in InsertPositions(when, p)
    PROVE  \/ Processing /\ when = nextEventCycle /\ i \in 1 .. cursor
           \/ /\ \A j \in 1 .. Len(eventMap[when]) :
                    Passed(when) < j /\ j < i => priority[eventMap[when][j]] <= p
              /\ i \in 1 .. Len(eventMap[when]) => priority[eventMap[when][i]] > p
<1> DEFINE list  == eventMap[when]
           freed == 1 .. Freed(when)
           later == {j \in 1 .. Len(list) \ freed : priority[list[j]] > p}
<1>1. Len(list) \in Nat /\ Passed(when) \in Nat /\ \A j \in 1 .. Len(list) : priority[list[j]] \in Int
  BY ListFacts DEF TypeOK
<1>2. i \in freed \/ i = IF later = {} THEN Len(list) + 1 ELSE Least(later)
  BY DEF InsertPositions
<1>3. i \in freed => Processing /\ when = nextEventCycle /\ i \in 1 .. cursor
  BY DEF Freed, Processing, TypeOK
<1>4. \A j \in 1 .. Len(list) : Passed(when) < j => j \notin freed
  BY DEF Passed, Freed, TypeOK
<1>5. later # {} => Least(later) \in later /\ \A j \in later : Least(later) <= j
  <2>1. later \in SUBSET Nat
    BY <1>1
  <2> HIDE DEF later
  <2> QED BY <2>1, LeastFacts
<1>6. CASE later = {} /\ i = Len(list) + 1
  <2>1. \A j \in 1 .. Len(list) : Passed(when) < j => priority[list[j]] <= p
    BY <1>1, <1>4, <1>6
  <2> QED BY <1>1, <1>6, <2>1
<1>7. CASE later # {} /\ i = Least(later)
  <2>1. i \in later /\ \A j \in later : i <= j
    BY <1>5, <1>7
  <2>2. priority[list[i]] > p
    BY <2>1
  <2>3. ASSUME NEW j \in 1 .. Len(list), Passed(when) < j, j < i
        PROVE  priority[list[j]] <= p
    <3>1. j \notin later
      BY <2>1, <2>3, <1>1
    <3> QED BY <3>1, <2>3, <1>1, <1>4
  <2> QED BY <2>2, <2>3
<1> QED
  BY <1>2, <1>3, <1>6, <1>7

\* An event that was never inserted is in no list.
LEMMA NewIsNowhere ==
    ASSUME FiledByPlace, TypeOK, NEW e \in Events, status[e] = "new",
           NEW c \in Cycles, NEW j \in 1 .. Len(eventMap[c])
    PROVE  eventMap[c][j] # e
  BY ListFacts DEF FiledByPlace, Waiting

\* The constructor leaves the lists empty.
LEMMA InitFiling == Init => FilingInv
<1> SUFFICES ASSUME Init PROVE FilingInv
  OBVIOUS
<1>1. \A c \in Cycles : Len(eventMap[c]) = 0
  BY EmptySeq DEF Init
<1>2. \A c \in Cycles : 1 .. Len(eventMap[c]) = {}
  BY <1>1
<1> QED
  BY <1>2 DEF Init, FilingInv, FiledOnce, FiledByPlace, PrioritiesStored, SortedAhead

\* Filing an event that was new.
LEMMA InsertFiled ==
    ASSUME IndInv, FiledOnce, FiledByPlace,
           NEW e \in Events, NEW when \in Cycles, NEW p \in Int,
           when >= currentCycle, Insert(e, when, p)
    PROVE  FiledOnce' /\ FiledByPlace'
<1>0. TypeOK
  BY DEF IndInv
<1>1. PICK i \in InsertPositions(when, p) :
         /\ i \in 1 .. Len(eventMap'[when])
         /\ eventMap'[when][i] = e
         /\ Passed(when)' = IF Processing /\ when = nextEventCycle /\ i <= cursor
                            THEN cursor + 1 ELSE Passed(when)
         /\ \A c \in Cycles : c # when => Passed(c)' = Passed(c)
         /\ \A c \in Cycles : \A j \in 1 .. Len(eventMap'[c]) :
              c # when \/ j # i =>
                /\ PlaceDown(c, j, when, i) \in 1 .. Len(eventMap[c])
                /\ eventMap'[c][j] = eventMap[c][PlaceDown(c, j, when, i)]
                /\ j <= Passed(c)' <=> PlaceDown(c, j, when, i) <= Passed(c)
  BY InsertShift
<1>2. status[e] = "new"
  BY DEF Insert
<1>3. \A c \in Cycles : \A j \in 1 .. Len(eventMap[c]) : eventMap[c][j] # e /\ eventMap[c][j] \in Events
  BY <1>0, <1>2, NewIsNowhere, ListFacts
<1>4. FiledOnce'
  <2> SUFFICES ASSUME NEW c \in Cycles, NEW d \in Cycles,
                      NEW j \in 1 .. Len(eventMap'[c]), NEW k \in 1 .. Len(eventMap'[d]),
                      eventMap'[c][j] = eventMap'[d][k]
               PROVE  c = d /\ j = k
    BY DEF FiledOnce
  <2>1. CASE (c # when \/ j # i) /\ (d # when \/ k # i)
    <3>3. /\ PlaceDown(c, j, when, i) \in 1 .. Len(eventMap[c])
          /\ eventMap'[c][j] = eventMap[c][PlaceDown(c, j, when, i)]
      BY <1>1, <2>1
    <3>4. /\ PlaceDown(d, k, when, i) \in 1 .. Len(eventMap[d])
          /\ eventMap'[d][k] = eventMap[d][PlaceDown(d, k, when, i)]
      BY <1>1, <2>1
    <3>5. eventMap[c][PlaceDown(c, j, when, i)] = eventMap[d][PlaceDown(d, k, when, i)]
      BY <3>3, <3>4
    <3>6. \A x \in 1 .. Len(eventMap[c]), y \in 1 .. Len(eventMap[d]) :
            eventMap[c][x] = eventMap[d][y] => c = d /\ x = y
      BY DEF FiledOnce
    <3>1. c = d /\ PlaceDown(c, j, when, i) = PlaceDown(d, k, when, i)
      BY <3>3, <3>4, <3>5, <3>6
    <3>2. i \in Int /\ j \in Int /\ k \in Int
      BY <1>1
    <3> QED
      BY <2>1, <3>1, <3>2 DEF PlaceDown
  <2>2. CASE c = when /\ j = i /\ (d # when \/ k # i)
    BY <1>1, <1>3, <2>2
  <2>3. CASE d = when /\ k = i /\ (c # when \/ j # i)
    BY <1>1, <1>3, <2>3
  <2> QED
    BY <2>1, <2>2, <2>3
<1>5. FiledByPlace'
  <2>1. Processing' <=> Processing
    BY <1>0 DEF Insert, Processing, TypeOK
  <2>2. Processing => nextEventCycle' = nextEventCycle
    <3> SUFFICES ASSUME Processing PROVE nextEventCycle' = nextEventCycle
      OBVIOUS
    <3>1. nextEventCycle = currentCycle /\ currentCycle \in Nat /\ when \in Nat
      BY CursorCycle, NeverIsNoCycle
    <3>2. nextEventCycle' = IF when < nextEventCycle THEN when ELSE nextEventCycle
      BY DEF Insert
    <3> QED BY <3>1, <3>2
  <2>3. /\ status'[e] = IF Processing /\ when = nextEventCycle THEN "late" ELSE "pending"
        /\ \A d \in Events : d # e => status'[d] = status[d]
    BY <1>0 DEF Insert, TypeOK
  <2> SUFFICES ASSUME NEW c \in Cycles, NEW j \in 1 .. Len(eventMap'[c])
               PROVE  /\ j <= Passed(c)' => status'[eventMap'[c][j]] \in {"delivered", "late"}
                      /\ j > Passed(c)' => status'[eventMap'[c][j]] \in {"pending", "late"}
                      /\ status'[eventMap'[c][j]] = "late" => Processing' /\ c = nextEventCycle'
    BY DEF FiledByPlace, Waiting
  <2>4. CASE c = when /\ j = i
    <3>1. j > Passed(c)' \/ (Processing /\ when = nextEventCycle)
      BY <1>0, <1>1, <2>4 DEF Passed, Processing, TypeOK
    <3>2. j <= Passed(c)' => ~ (j > Passed(c)')
      BY <1>0, <1>1, <2>4, ListFacts DEF TypeOK
    <3> QED
      BY <1>1, <2>1, <2>2, <2>3, <2>4, <3>1, <3>2
  <2>5. CASE c # when \/ j # i
    <3> DEFINE o == PlaceDown(c, j, when, i)
    <3>1. /\ o \in 1 .. Len(eventMap[c])
          /\ eventMap'[c][j] = eventMap[c][o]
          /\ j <= Passed(c)' <=> o <= Passed(c)
      BY <1>1, <2>5
    <3>2. status'[eventMap'[c][j]] = status[eventMap[c][o]]
      BY <1>3, <2>3, <3>1
    <3>3. j > Passed(c)' => o > Passed(c)
      <4>0. Passed(c) \in Nat /\ Passed(when) \in Nat /\ cursor \in Nat
        BY <1>0, ListFacts DEF TypeOK
      <4>2. Passed(c)' \in Nat
        BY <1>1, <4>0
      <4>1. Passed(c) \in Nat /\ Passed(c)' \in Nat /\ j \in Int /\ o \in Int
        BY <4>0, <4>2, <3>1
      <4> HIDE DEF o
      <4> QED BY <3>1, <4>1
    <3> HIDE DEF o
    <3> QED
      BY <2>1, <2>2, <3>1, <3>2, <3>3 DEF FiledByPlace, Waiting
  <2> QED
    BY <2>4, <2>5
<1> QED
  BY <1>4, <1>5

\* Filing an event that was new, with its priority if it is a callback, keeps the
\* waiting callbacks sorted.
LEMMA InsertSorted ==
    ASSUME IndInv, FilingInv,
           NEW e \in Events, NEW when \in Cycles, NEW p \in Int,
           when >= currentCycle, Insert(e, when, p),
           callbacks' \in SUBSET (callbacks \cup {e}), callbacks \in SUBSET callbacks',
           priority' \in [Events -> Int],
           \A d \in Events : d # e => priority'[d] = priority[d],
           priority'[e] <= p,
           e \in callbacks' => priority'[e] = p,
           e \notin callbacks' => priority'[e] = 0
    PROVE  PrioritiesStored' /\ SortedAhead'
<1>0. TypeOK /\ FiledByPlace /\ PrioritiesStored /\ SortedAhead
  BY DEF IndInv, FilingInv
<1>1. PICK i \in InsertPositions(when, p) :
         /\ i \in 1 .. Len(eventMap'[when])
         /\ eventMap'[when][i] = e
         /\ Passed(when)' = IF Processing /\ when = nextEventCycle /\ i <= cursor
                            THEN cursor + 1 ELSE Passed(when)
         /\ \A c \in Cycles : \A j \in 1 .. Len(eventMap'[c]) :
              c # when \/ j # i =>
                /\ PlaceDown(c, j, when, i) \in 1 .. Len(eventMap[c])
                /\ eventMap'[c][j] = eventMap[c][PlaceDown(c, j, when, i)]
                /\ j <= Passed(c)' <=> PlaceDown(c, j, when, i) <= Passed(c)
  BY InsertShift
<1>2. status[e] = "new" /\ e \notin callbacks
  BY <1>0 DEF Insert, PrioritiesStored
<1>3. \A c \in Cycles : \A j \in 1 .. Len(eventMap[c]) :
        /\ eventMap[c][j] # e
        /\ eventMap[c][j] \in Events
        /\ priority[eventMap[c][j]] \in Int
  BY <1>0, <1>2, NewIsNowhere, ListFacts DEF TypeOK
<1>4. PrioritiesStored'
  <2>1. \A d \in Events : status'[d] # "new" \/ (d # e /\ status[d] = "new")
    BY <1>0 DEF Insert, TypeOK
  <2>2. callbacks \in SUBSET Events
    BY <1>0 DEF TypeOK
  <2>3. \A d \in callbacks' : status'[d] # "new"
    BY <1>0, <2>1, <2>2 DEF PrioritiesStored
  <2>4. \A d \in Events \ callbacks' : priority'[d] = 0
    BY <1>0 DEF PrioritiesStored
  <2> QED
    BY <2>3, <2>4 DEF PrioritiesStored
<1>5. \A c \in Cycles : Passed(c) \in Nat /\ Passed(c)' \in Nat /\ Len(eventMap[c]) \in Nat
  <2>1. \A c \in Cycles : Passed(c) \in Nat /\ Len(eventMap[c]) \in Nat
    BY <1>0, ListFacts
  <2>2. cursor' \in Nat
    BY <1>0 DEF Insert, TypeOK
  <2>3. \A c \in Cycles : Passed(c)' \in Nat
    BY <2>2 DEF Passed
  <2> QED BY <2>1, <2>3
<1>6. SortedAhead'
  <2> SUFFICES ASSUME NEW c \in Cycles,
                      NEW j \in 1 .. Len(eventMap'[c]), NEW k \in 1 .. Len(eventMap'[c]),
                      Passed(c)' < j, j < k, eventMap'[c][k] \in callbacks'
               PROVE  priority'[eventMap'[c][j]] <= priority'[eventMap'[c][k]]
    BY DEF SortedAhead
  <2> DEFINE oj == PlaceDown(c, j, when, i)
             ok == PlaceDown(c, k, when, i)
  <2>0. i \in Int /\ j \in Int /\ k \in Int
    BY <1>1
  <2>j. c # when \/ j # i => /\ oj \in 1 .. Len(eventMap[c])
                             /\ eventMap'[c][j] = eventMap[c][oj]
                             /\ Passed(c) < oj
                             /\ priority'[eventMap'[c][j]] = priority[eventMap[c][oj]]
    <3> SUFFICES ASSUME c # when \/ j # i
                 PROVE  /\ oj \in 1 .. Len(eventMap[c])
                        /\ eventMap'[c][j] = eventMap[c][oj]
                        /\ Passed(c) < oj
                        /\ priority'[eventMap'[c][j]] = priority[eventMap[c][oj]]
      OBVIOUS
    <3>1. /\ oj \in 1 .. Len(eventMap[c])
          /\ eventMap'[c][j] = eventMap[c][oj]
          /\ j <= Passed(c)' <=> oj <= Passed(c)
      BY <1>1
    <3> HIDE DEF oj
    <3>2. Passed(c) < oj
      BY <1>5, <2>0, <3>1
    <3> QED
      BY <1>3, <3>1, <3>2
  <2>k. c # when \/ k # i => /\ ok \in 1 .. Len(eventMap[c])
                             /\ eventMap'[c][k] = eventMap[c][ok]
                             /\ eventMap[c][ok] \in callbacks
                             /\ priority'[eventMap'[c][k]] = priority[eventMap[c][ok]]
    <3> SUFFICES ASSUME c # when \/ k # i
                 PROVE  /\ ok \in 1 .. Len(eventMap[c])
                        /\ eventMap'[c][k] = eventMap[c][ok]
                        /\ eventMap[c][ok] \in callbacks
                        /\ priority'[eventMap'[c][k]] = priority[eventMap[c][ok]]
      OBVIOUS
    <3>1. /\ ok \in 1 .. Len(eventMap[c])
          /\ eventMap'[c][k] = eventMap[c][ok]
      BY <1>1
    <3> HIDE DEF ok
    <3> QED
      BY <1>3, <3>1
  <2>s. \A x, y \in 1 .. Len(eventMap[c]) :
            Passed(c) < x /\ x < y /\ eventMap[c][y] \in callbacks
                => priority[eventMap[c][x]] <= priority[eventMap[c][y]]
    BY <1>0 DEF SortedAhead
  <2>1. CASE (c # when \/ j # i) /\ (c # when \/ k # i)
    <3>1. oj < ok
      BY <2>0, <2>1 DEF PlaceDown
    <3> HIDE DEF oj, ok
    <3> QED
      BY <2>j, <2>k, <2>s, <2>1, <3>1
  <2>a. CASE c = when /\ (j = i \/ k = i)
    <3>1. ~ (Processing /\ when = nextEventCycle /\ i \in 1 .. cursor)
      <4> SUFFICES ASSUME Processing, when = nextEventCycle, i \in 1 .. cursor PROVE FALSE
        OBVIOUS
      <4>1. Passed(when)' = cursor + 1 /\ cursor \in Nat /\ i <= cursor
        BY <1>0, <1>1 DEF TypeOK
      <4> QED
        BY <2>0, <2>a, <4>1
    <3>2. /\ \A x \in 1 .. Len(eventMap[when]) :
                Passed(when) < x /\ x < i => priority[eventMap[when][x]] <= p
          /\ i \in 1 .. Len(eventMap[when]) => priority[eventMap[when][i]] > p
      BY <1>0, <3>1, InsertSearch
    <3>3. CASE k = i
      <4>1. oj = j
        BY <2>0, <3>3 DEF PlaceDown
      <4>2. priority'[eventMap'[c][j]] <= p
        BY <2>0, <2>a, <2>j, <3>2, <3>3, <4>1
      <4> QED
        BY <1>1, <2>a, <3>3, <4>2
    <3>4. CASE j = i
      <4>1. ok = k - 1 /\ ok >= i
        BY <2>0, <2>a, <3>4 DEF PlaceDown
      <4> HIDE DEF ok, oj
      <4>2. /\ ok \in 1 .. Len(eventMap[c])
            /\ eventMap[c][ok] \in callbacks
            /\ priority'[eventMap'[c][k]] = priority[eventMap[c][ok]]
        BY <2>0, <2>k, <3>4
      <4>3. i \in 1 .. Len(eventMap[c]) /\ priority[eventMap[c][i]] > p
        BY <1>1, <1>5, <2>0, <2>a, <3>2, <4>1, <4>2
      <4>4. Passed(c) < i
        BY <1>0, <1>1, <1>5, <2>0, <2>a, <3>4 DEF Passed, TypeOK
      <4>5. priority[eventMap[c][i]] <= priority[eventMap[c][ok]]
        BY <1>3, <2>0, <2>s, <4>1, <4>2, <4>3, <4>4
      <4>6. priority'[eventMap'[c][j]] <= p /\ priority'[e] \in Int
        BY <1>1, <2>a, <3>4
      <4>7. /\ priority[eventMap[c][i]] \in Int /\ priority[eventMap[c][ok]] \in Int
            /\ priority'[eventMap'[c][j]] \in Int
        BY <1>1, <1>3, <2>a, <3>4, <4>2, <4>3
      <4> QED
        BY <4>2, <4>3, <4>5, <4>6, <4>7, SMTT(30)
    <3> QED
      BY <2>a, <3>3, <3>4
  <2> QED
    BY <2>1, <2>a
<1> QED
  BY <1>4, <1>6

\* A removal concerns a list that the iterator has not entered, and keeps the order of
\* the other events.
LEMMA RemoveShift ==
    ASSUME IndInv, NEW e \in Events, NEW when \in Cycles, RemoveEvent(e, when)
    PROVE  \E i \in 1 .. Len(eventMap[when]) :
             /\ eventMap[when][i] = e
             /\ Passed(when) = 0
             /\ \A c \in Cycles : Passed(c)' = Passed(c)
             /\ \A c \in Cycles : \A j \in 1 .. Len(eventMap'[c]) :
                    /\ PlaceUp(c, j, when, i) \in 1 .. Len(eventMap[c])
                    /\ c # when \/ PlaceUp(c, j, when, i) # i
                    /\ eventMap'[c][j] = eventMap[c][PlaceUp(c, j, when, i)]
             /\ \A c \in Cycles : \A j \in 1 .. Len(eventMap[c]) :
                  c # when \/ j # i =>
                    /\ PlaceDown(c, j, when, i) \in 1 .. Len(eventMap'[c])
                    /\ eventMap'[c][PlaceDown(c, j, when, i)] = eventMap[c][j]
<1>0. TypeOK
  BY DEF IndInv
<1>1. PICK i \in 1 .. Len(eventMap[when]) :
        /\ eventMap[when][i] = e
        /\ eventMap' = [eventMap EXCEPT ![when] = Without(@, i)]
  BY DEF RemoveEvent
<1>2. eventMap[when] \in Seq(Events) /\ Len(eventMap[when]) \in Nat
  BY <1>0, ListFacts
<1>3. /\ Len(Without(eventMap[when], i)) = Len(eventMap[when]) - 1
      /\ \A j \in 1 .. Len(eventMap[when]) - 1 :
            Without(eventMap[when], i)[j] =
                IF j < i THEN eventMap[when][j] ELSE eventMap[when][j + 1]
  <2> DEFINE list == eventMap[when]
  <2>1. list \in Seq(Events) /\ i \in 1 .. Len(list)
    BY <1>2
  <2> HIDE DEF list
  <2>2. Len(Without(list, i)) = Len(list) - 1
    BY <2>1, WithoutFacts
  <2>3. \A j \in 1 .. Len(list) - 1 :
            Without(list, i)[j] = IF j < i THEN list[j] ELSE list[j + 1]
    BY <2>1, WithoutElements
  <2> QED BY <2>2, <2>3 DEF list
<1>4. /\ eventMap'[when] = Without(eventMap[when], i)
      /\ \A c \in Cycles : c # when => eventMap'[c] = eventMap[c]
  BY <1>0, <1>1 DEF TypeOK
<1>5. /\ Len(eventMap'[when]) = Len(eventMap[when]) - 1
      /\ \A j \in 1 .. Len(eventMap[when]) - 1 :
            eventMap'[when][j] = IF j < i THEN eventMap[when][j] ELSE eventMap[when][j + 1]
  BY <1>3, <1>4
<1>6. Passed(when) = 0 /\ \A c \in Cycles : Passed(c)' = Passed(c)
  <2>1. cursor' = cursor /\ when > currentCycle /\ currentCycle' = currentCycle
    BY DEF RemoveEvent
  <2>2. CASE ~Processing
    BY <1>0, <2>1, <2>2 DEF Passed, Processing, TypeOK
  <2>3. CASE Processing
    <3>1. nextEventCycle = currentCycle /\ currentCycle \in Nat /\ when \in Nat
      BY <2>3, CursorCycle, NeverIsNoCycle
    <3>2. nextEventCycle' = currentCycle
      <4>1. CursorInside'
        BY RemoveInv DEF IndInv
      <4> QED BY <2>1, <2>3, <4>1 DEF CursorInside, Processing
    <3> QED
      BY <2>1, <3>1, <3>2 DEF Passed
  <2> QED BY <2>2, <2>3
<1>7. ASSUME NEW c \in Cycles, NEW j \in 1 .. Len(eventMap'[c])
      PROVE  /\ PlaceUp(c, j, when, i) \in 1 .. Len(eventMap[c])
             /\ c # when \/ PlaceUp(c, j, when, i) # i
             /\ eventMap'[c][j] = eventMap[c][PlaceUp(c, j, when, i)]
  <2>1. CASE c # when
    BY <1>4, <2>1 DEF PlaceUp
  <2>2. CASE c = when /\ j < i
    BY <1>2, <1>5, <2>2 DEF PlaceUp
  <2>3. CASE c = when /\ j >= i
    BY <1>2, <1>5, <2>3 DEF PlaceUp
  <2> QED
    BY <1>2, <1>5, <2>1, <2>2, <2>3
<1>8. ASSUME NEW c \in Cycles, NEW j \in 1 .. Len(eventMap[c]), c # when \/ j # i
      PROVE  /\ PlaceDown(c, j, when, i) \in 1 .. Len(eventMap'[c])
             /\ eventMap'[c][PlaceDown(c, j, when, i)] = eventMap[c][j]
  <2>1. CASE c # when
    BY <1>4, <2>1 DEF PlaceDown
  <2>2. CASE c = when /\ j < i
    BY <1>2, <1>5, <2>2 DEF PlaceDown
  <2>3. CASE c = when /\ j > i
    <3>1. PlaceDown(c, j, when, i) = j - 1 /\ j - 1 \in 1 .. Len(eventMap'[c])
      BY <1>2, <1>5, <2>3 DEF PlaceDown
    <3>2. eventMap'[c][j - 1] = eventMap[c][(j - 1) + 1]
      BY <1>2, <1>5, <2>3
    <3>3. (j - 1) + 1 = j
      BY <1>2, <2>3
    <3> QED BY <3>1, <3>2, <3>3
  <2> QED
    BY <1>2, <1>8, <2>1, <2>2, <2>3
<1> QED
  BY <1>1, <1>6, <1>7, <1>8

\* RemoveEvent keeps the order of what is left.
LEMMA RemoveFiling ==
    ASSUME IndInv, FilingInv, NEW e \in Events, NEW when \in Cycles, RemoveEvent(e, when)
    PROVE  FilingInv'
<1>0. TypeOK /\ FiledOnce /\ FiledByPlace /\ PrioritiesStored /\ SortedAhead
  BY DEF IndInv, FilingInv
<1>1. PICK i \in 1 .. Len(eventMap[when]) :
         /\ eventMap[when][i] = e
         /\ Passed(when) = 0
         /\ \A c \in Cycles : Passed(c)' = Passed(c)
         /\ \A c \in Cycles : \A j \in 1 .. Len(eventMap'[c]) :
                /\ PlaceUp(c, j, when, i) \in 1 .. Len(eventMap[c])
                /\ c # when \/ PlaceUp(c, j, when, i) # i
                /\ eventMap'[c][j] = eventMap[c][PlaceUp(c, j, when, i)]
  BY RemoveShift, ZenonT(60)
<1>2. /\ cursor' = cursor /\ callbacks' = callbacks /\ priority' = priority
      /\ status' = [status EXCEPT ![e] = "removed"]
  BY DEF RemoveEvent
<1>3. \A c \in Cycles : Len(eventMap[c]) \in Nat /\ Passed(c) \in Nat
                        /\ \A j \in 1 .. Len(eventMap[c]) : eventMap[c][j] \in Events
  BY <1>0, ListFacts
<1>4. FiledOnce'
  <2> SUFFICES ASSUME NEW c \in Cycles, NEW d \in Cycles,
                      NEW j \in 1 .. Len(eventMap'[c]), NEW k \in 1 .. Len(eventMap'[d]),
                      eventMap'[c][j] = eventMap'[d][k]
               PROVE  c = d /\ j = k
    BY DEF FiledOnce
  <2> DEFINE oj == PlaceUp(c, j, when, i)
             ok == PlaceUp(d, k, when, i)
  <2>1. /\ oj \in 1 .. Len(eventMap[c]) /\ ok \in 1 .. Len(eventMap[d])
        /\ eventMap[c][oj] = eventMap[d][ok]
    BY <1>1
  <2>2. \A x \in 1 .. Len(eventMap[c]), y \in 1 .. Len(eventMap[d]) :
            eventMap[c][x] = eventMap[d][y] => c = d /\ x = y
    BY <1>0 DEF FiledOnce
  <2>3. c = d /\ oj = ok
    <3> HIDE DEF oj, ok
    <3> QED BY <2>1, <2>2
  <2> QED
    BY <2>3 DEF PlaceUp
<1>5. FiledByPlace'
  <2> SUFFICES ASSUME NEW c \in Cycles, NEW j \in 1 .. Len(eventMap'[c])
               PROVE  /\ j <= Passed(c)' => status'[eventMap'[c][j]] \in {"delivered", "late"}
                      /\ j > Passed(c)' => status'[eventMap'[c][j]] \in {"pending", "late"}
                      /\ status'[eventMap'[c][j]] = "late" => Processing' /\ c = nextEventCycle'
    BY DEF FiledByPlace, Waiting
  <2> DEFINE o == PlaceUp(c, j, when, i)
  <2>1. /\ o \in 1 .. Len(eventMap[c]) /\ eventMap'[c][j] = eventMap[c][o]
        /\ c # when \/ o # i
    BY <1>1
  <2>2. j <= Passed(c)' => o <= Passed(c)
    BY <1>1, <1>3 DEF PlaceUp
  <2>3. j > Passed(c)' => o > Passed(c)
    BY <1>1, <1>3 DEF PlaceUp
  <2>6. \A x \in 1 .. Len(eventMap[c]), y \in 1 .. Len(eventMap[when]) :
            eventMap[c][x] = eventMap[when][y] => c = when /\ x = y
    BY <1>0 DEF FiledOnce
  <2> HIDE DEF o
  <2>4. eventMap[c][o] # e
    BY <1>1, <2>1, <2>6
  <2>5. status'[eventMap'[c][j]] = status[eventMap[c][o]]
    BY <1>0, <1>2, <1>3, <2>1, <2>4 DEF TypeOK
  <2>7. Processing => nextEventCycle' = nextEventCycle
    <3> SUFFICES ASSUME Processing PROVE nextEventCycle' = nextEventCycle
      OBVIOUS
    <3>1. nextEventCycle = currentCycle /\ currentCycle' = currentCycle
      BY CursorCycle DEF RemoveEvent
    <3>2. CursorInside'
      BY RemoveInv DEF IndInv
    <3> QED BY <1>2, <3>1, <3>2 DEF CursorInside, Processing
  <2> QED
    BY <1>0, <1>2, <2>1, <2>2, <2>3, <2>5, <2>7 DEF FiledByPlace, Waiting, Processing
<1>6. PrioritiesStored'
  BY <1>0, <1>2 DEF PrioritiesStored, TypeOK
<1>7. SortedAhead'
  <2> SUFFICES ASSUME NEW c \in Cycles,
                      NEW j \in 1 .. Len(eventMap'[c]), NEW k \in 1 .. Len(eventMap'[c]),
                      Passed(c)' < j, j < k, eventMap'[c][k] \in callbacks'
               PROVE  priority'[eventMap'[c][j]] <= priority'[eventMap'[c][k]]
    BY DEF SortedAhead
  <2> DEFINE oj == PlaceUp(c, j, when, i)
             ok == PlaceUp(c, k, when, i)
  <2>1. /\ oj \in 1 .. Len(eventMap[c]) /\ ok \in 1 .. Len(eventMap[c])
        /\ eventMap'[c][j] = eventMap[c][oj] /\ eventMap'[c][k] = eventMap[c][ok]
    BY <1>1
  <2>2. Passed(c) < oj /\ oj < ok
    BY <1>1, <1>3 DEF PlaceUp
  <2>3. \A x, y \in 1 .. Len(eventMap[c]) :
            Passed(c) < x /\ x < y /\ eventMap[c][y] \in callbacks
                => priority[eventMap[c][x]] <= priority[eventMap[c][y]]
    BY <1>0 DEF SortedAhead
  <2> HIDE DEF oj, ok
  <2> QED
    BY <1>2, <2>1, <2>2, <2>3
<1> QED
  BY <1>4, <1>5, <1>6, <1>7 DEF FilingInv

\* A step that leaves the lists alone: the iterator stays, or comes to the next event
\* and delivers it.
LEMMA CursorFiling ==
    ASSUME IndInv, FilingInv, UNCHANGED <<eventMap, nextEventCycle, callbacks, priority>>,
           \/ UNCHANGED <<cursor, status>>
           \/ /\ nextEventCycle \in Cycles
              /\ cursor + 1 \in 1 .. Len(eventMap[nextEventCycle])
              /\ cursor' = cursor + 1
              /\ status' = [status EXCEPT ![eventMap[nextEventCycle][cursor + 1]] = "delivered"]
    PROVE  FilingInv'
<1>0. TypeOK /\ FiledOnce /\ FiledByPlace /\ PrioritiesStored /\ SortedAhead
  BY DEF IndInv, FilingInv
<1>1. CASE UNCHANGED <<cursor, status>>
  BY <1>0, <1>1 DEF FilingInv, FiledOnce, FiledByPlace, PrioritiesStored, SortedAhead, Passed,
                    Waiting, Processing
<1>2. CASE /\ nextEventCycle \in Cycles
           /\ cursor + 1 \in 1 .. Len(eventMap[nextEventCycle])
           /\ cursor' = cursor + 1
           /\ status' = [status EXCEPT ![eventMap[nextEventCycle][cursor + 1]] = "delivered"]
  <2> DEFINE n == nextEventCycle
  <2>0. cursor \in Nat /\ n' = n /\ eventMap' = eventMap /\ callbacks' = callbacks /\ priority' = priority
    BY <1>0 DEF TypeOK
  <2>1. \A c \in Cycles : /\ Passed(c) \in Nat
                          /\ \A j \in 1 .. Len(eventMap[c]) : eventMap[c][j] \in Events
    BY <1>0, ListFacts
  <2>2. \A c \in Cycles : Passed(c)' = IF c = n THEN cursor + 1 ELSE Passed(c)
    BY <1>2, <2>0 DEF Passed
  <2>3. Passed(n) = cursor
    BY DEF Passed
  <2>4. FiledOnce'
    BY <1>0, <2>0 DEF FiledOnce
  <2>5. FiledByPlace'
    <3> SUFFICES ASSUME NEW c \in Cycles, NEW j \in 1 .. Len(eventMap[c])
                 PROVE  /\ j <= Passed(c)' => status'[eventMap[c][j]] \in {"delivered", "late"}
                        /\ j > Passed(c)' => status'[eventMap[c][j]] \in {"pending", "late"}
                        /\ status'[eventMap[c][j]] = "late" => Processing' /\ c = n'
      BY <2>0 DEF FiledByPlace, Waiting
    <3>1. CASE c = n /\ j = cursor + 1
      BY <1>0, <1>2, <2>0, <2>1, <2>2, <3>1 DEF TypeOK
    <3>2. CASE c # n \/ j # cursor + 1
      <4>1. eventMap[c][j] # eventMap[n][cursor + 1]
        BY <1>0, <1>2, <3>2 DEF FiledOnce
      <4>2. status'[eventMap[c][j]] = status[eventMap[c][j]]
        BY <1>0, <1>2, <2>1, <4>1 DEF TypeOK
      <4>3. /\ j <= Passed(c)' => j <= Passed(c)
            /\ j > Passed(c)' => j > Passed(c)
        BY <2>0, <2>1, <2>2, <2>3, <3>2
      <4>4. /\ j <= Passed(c) => status[eventMap[c][j]] \in {"delivered", "late"}
            /\ j > Passed(c) => status[eventMap[c][j]] \in {"pending", "late"}
            /\ status[eventMap[c][j]] = "late" => Processing /\ c = n
        BY <1>0 DEF FiledByPlace, Waiting
      <4>5. Processing'
        BY <1>2, <2>0 DEF Processing
      <4> QED
        BY <2>0, <4>2, <4>3, <4>4, <4>5
    <3> QED BY <3>1, <3>2
  <2>6. PrioritiesStored'
    BY <1>0, <1>2, <2>0 DEF PrioritiesStored, TypeOK
  <2>7. SortedAhead'
    <3> SUFFICES ASSUME NEW c \in Cycles,
                        NEW j \in 1 .. Len(eventMap[c]), NEW k \in 1 .. Len(eventMap[c]),
                        Passed(c)' < j, j < k, eventMap[c][k] \in callbacks
                 PROVE  priority[eventMap[c][j]] <= priority[eventMap[c][k]]
      BY <2>0 DEF SortedAhead
    <3>1. Passed(c) < j
      BY <2>0, <2>1, <2>2, <2>3
    <3> QED
      BY <1>0, <3>1 DEF SortedAhead
  <2> QED
    BY <2>4, <2>5, <2>6, <2>7 DEF FilingInv
<1> QED
  BY <1>1, <1>2

\* Process erases its list, and drops only events filed while it ran.
LEMMA EndFiling ==
    ASSUME IndInv, FilingInv, ProcessEnd
    PROVE  FilingInv'
<1>0. TypeOK /\ FiledOnce /\ FiledByPlace /\ PrioritiesStored /\ SortedAhead
  BY DEF IndInv, FilingInv
<1> DEFINE n == nextEventCycle
<1>1. n = currentCycle /\ n \in Cycles
  BY CursorCycle DEF ProcessEnd
<1>2. /\ cursor' = 0 /\ callbacks' = callbacks /\ priority' = priority
      /\ eventMap' = [eventMap EXCEPT ![n] = <<>>]
      /\ status' = [d \in Events |->
                      IF /\ Waiting(d)
                         /\ \E i \in 1 .. Len(eventMap[n]) : eventMap[n][i] = d
                      THEN "lost" ELSE status[d]]
  BY DEF ProcessEnd
<1>3. /\ \A j : j \notin 1 .. Len(eventMap'[n])
      /\ \A c \in Cycles : c # n => eventMap'[c] = eventMap[c]
      /\ \A c \in Cycles : c # n => Passed(c) = 0
      /\ \A c \in Cycles : Passed(c)' = 0
  <2>1. eventMap'[n] = <<>> /\ Len(<<>>) = 0
    BY <1>0, <1>1, <1>2, EmptySeq DEF TypeOK
  <2>2. \A j : j \notin 1 .. Len(eventMap'[n])
    BY <2>1
  <2> QED
    BY <1>0, <1>1, <1>2, <2>2 DEF TypeOK, Passed
<1>4. ASSUME NEW c \in Cycles, c # n, NEW j \in 1 .. Len(eventMap[c])
      PROVE  status'[eventMap[c][j]] = status[eventMap[c][j]]
  <2>1. eventMap[c][j] \in Events
    BY <1>0, ListFacts
  <2>2. \A i \in 1 .. Len(eventMap[n]) : eventMap[n][i] # eventMap[c][j]
    BY <1>0, <1>1, <1>4 DEF FiledOnce
  <2> HIDE DEF n
  <2> QED BY <1>2, <2>1, <2>2
<1>5. FiledOnce'
  <2> SUFFICES ASSUME NEW c \in Cycles, NEW d \in Cycles,
                      NEW j \in 1 .. Len(eventMap'[c]), NEW k \in 1 .. Len(eventMap'[d]),
                      eventMap'[c][j] = eventMap'[d][k]
               PROVE  c = d /\ j = k
    BY DEF FiledOnce
  <2>1. c # n /\ d # n
    BY <1>3
  <2> QED
    BY <1>0, <1>3, <2>1 DEF FiledOnce
<1>6. FiledByPlace'
  <2> SUFFICES ASSUME NEW c \in Cycles, NEW j \in 1 .. Len(eventMap'[c])
               PROVE  /\ j <= Passed(c)' => status'[eventMap'[c][j]] \in {"delivered", "late"}
                      /\ j > Passed(c)' => status'[eventMap'[c][j]] \in {"pending", "late"}
                      /\ status'[eventMap'[c][j]] = "late" => Processing' /\ c = nextEventCycle'
    BY DEF FiledByPlace, Waiting
  <2>1. c # n /\ eventMap'[c] = eventMap[c]
    BY <1>3
  <2>2. status'[eventMap'[c][j]] = status[eventMap[c][j]]
    BY <1>4, <2>1
  <2>3. /\ j > 0
        /\ status[eventMap[c][j]] \in {"pending", "late"}
        /\ status[eventMap[c][j]] # "late"
    BY <1>0, <1>3, <2>1 DEF FiledByPlace, Waiting
  <2> QED
    BY <1>3, <2>2, <2>3
<1>7. PrioritiesStored'
  <2>1. \A d \in callbacks : d \in Events /\ status[d] # "new"
    BY <1>0 DEF PrioritiesStored, TypeOK
  <2>2. \A d \in callbacks : status'[d] # "new"
    BY <1>2, <2>1
  <2> QED
    BY <1>0, <1>2, <2>2 DEF PrioritiesStored
<1>8. SortedAhead'
  <2> SUFFICES ASSUME NEW c \in Cycles,
                      NEW j \in 1 .. Len(eventMap'[c]), NEW k \in 1 .. Len(eventMap'[c]),
                      Passed(c)' < j, j < k, eventMap'[c][k] \in callbacks'
               PROVE  priority'[eventMap'[c][j]] <= priority'[eventMap'[c][k]]
    BY DEF SortedAhead
  <2>1. c # n /\ eventMap'[c] = eventMap[c] /\ Passed(c) = 0 /\ Passed(c)' = 0
    BY <1>3
  <2> QED
    BY <1>0, <1>2, <2>1 DEF SortedAhead
<1> QED
  BY <1>5, <1>6, <1>7, <1>8 DEF FilingInv

\* Every step keeps the order of the lists.
LEMMA NextFiling == IndInv /\ FilingInv /\ [Next]_vars => FilingInv'
<1> SUFFICES ASSUME IndInv, FilingInv, [Next]_vars PROVE FilingInv'
  OBVIOUS
<1>0. TypeOK /\ FiledOnce /\ FiledByPlace /\ PrioritiesStored
  BY DEF IndInv, FilingInv
<1>1. ASSUME NEW e \in Events, NEW when \in Cycles, NEW p \in Priorities,
             InsertEvent(e, when, p)
      PROVE  FilingInv'
  <2>1. /\ p \in Int /\ p >= 0 /\ when >= currentCycle /\ Insert(e, when, p)
        /\ callbacks' = callbacks /\ priority' = priority
    BY <1>1 DEF InsertEvent
  <2>2. e \notin callbacks /\ priority[e] = 0
    BY <1>0, <2>1 DEF Insert, PrioritiesStored
  <2>3. priority \in [Events -> Int]
    BY <1>0 DEF TypeOK
  <2>4. PrioritiesStored' /\ SortedAhead'
    BY <2>1, <2>2, <2>3, InsertSorted
  <2> QED
    BY <1>0, <2>1, <2>4, InsertFiled DEF FilingInv
<1>2. ASSUME NEW e \in Events, NEW when \in Cycles, NEW p \in Priorities,
             InsertCallback(e, when, p)
      PROVE  FilingInv'
  <2>1. /\ p \in Int /\ when >= currentCycle /\ Insert(e, when, p)
        /\ callbacks' = callbacks \cup {e}
        /\ priority' = [priority EXCEPT ![e] = p]
    BY <1>2 DEF InsertCallback
  <2>2. /\ priority' \in [Events -> Int] /\ priority'[e] = p
        /\ \A d \in Events : d # e => priority'[d] = priority[d]
    BY <1>0, <2>1 DEF TypeOK
  <2>3. p <= p
    BY <2>1
  <2>4. PrioritiesStored' /\ SortedAhead'
    BY <2>1, <2>2, <2>3, InsertSorted
  <2> QED
    BY <1>0, <2>1, <2>4, InsertFiled DEF FilingInv
<1>3. ASSUME NEW e \in Events, NEW when \in Cycles, RemoveEvent(e, when)
      PROVE  FilingInv'
  BY <1>3, RemoveFiling
<1>4. ASSUME StartProcess, cursor = 0, nextEventCycle # Never,
             UNCHANGED <<eventMap, nextEventCycle, callbacks, priority>>
      PROVE  FilingInv'
  <2>1. nextEventCycle \in Cycles /\ Len(eventMap[nextEventCycle]) \in Nat \ {0}
    BY <1>4, <1>0, NextIsScheduled DEF IndInv
  <2>2. /\ cursor + 1 = 1 /\ cursor + 1 \in 1 .. Len(eventMap[nextEventCycle])
        /\ cursor' = cursor + 1
    BY <1>4, <2>1 DEF StartProcess
  <2>3. status' = [status EXCEPT ![eventMap[nextEventCycle][cursor + 1]] = "delivered"]
    BY <1>4, <2>2 DEF StartProcess
  <2> QED
    BY <1>4, <2>1, <2>2, <2>3, CursorFiling
<1>5. ASSUME UNCHANGED <<eventMap, nextEventCycle, callbacks, priority, cursor, status>>
      PROVE  FilingInv'
  BY <1>5, CursorFiling
<1>6. /\ ~Processing => cursor = 0
      /\ currentCycle + stepCycles < Never /\ currentCycle \in Nat /\ stepCycles \in Nat
      /\ nextEventCycle \in Nat
  BY <1>0, NeverIsNoCycle DEF Processing, TypeOK, IndInv, BelowNever
<1>7. CASE Loop
  BY <1>4, <1>5, <1>6, <1>7, NeverIsNoCycle DEF Loop, InLoop
<1>8. CASE LoopZero
  BY <1>4, <1>6, <1>8, NeverIsNoCycle DEF LoopZero, InLoop
<1>9. CASE \E n \in 1 .. MaxSteps : LoopSteps(n)
  BY <1>5, <1>9 DEF LoopSteps
<1>10. CASE LoopStep
  BY <1>4, <1>5, <1>6, <1>10, NeverIsNoCycle DEF LoopStep
<1>11. CASE ProcessNext
  <2>1. /\ nextEventCycle \in Cycles /\ cursor \in Nat
        /\ Len(eventMap[nextEventCycle]) \in Nat
    BY <1>0, <1>11, CursorCycle, ListFacts DEF ProcessNext, TypeOK
  <2> QED
    BY <1>11, <2>1, CursorFiling DEF ProcessNext
<1>12. CASE ProcessEnd
  BY <1>12, EndFiling
<1>13. CASE UNCHANGED vars
  BY <1>5, <1>13 DEF vars
<1> QED
  BY <1>1, <1>2, <1>3, <1>7, <1>8, <1>9, <1>10, <1>11, <1>12, <1>13 DEF Next

\* Every event is in one place of one list at most, the events behind the iterator have
\* been delivered or passed over, all others wait, and ahead of the iterator no event
\* stands before a callback of a smaller priority (EventQueue.cpp:101-189, 358-418).
THEOREM ListsConsistent == Spec => [](IndInv /\ FilingInv)
<1>1. Init => IndInv /\ FilingInv
  BY InitInv, InitFiling
<1>2. IndInv /\ FilingInv /\ [Next]_vars => IndInv' /\ FilingInv'
  BY NextInv, NextFiling
<1> QED
  BY <1>1, <1>2, PTL DEF Spec

\* The callbacks still to be delivered in a cycle are sorted by priority, although plain
\* events are filed among them by a priority they do not store (EventQueue.cpp:101-189).
THEOREM CallbacksAlwaysSorted == Spec => []CallbacksSorted
<1>1. SortedAhead => CallbacksSorted
  BY DEF SortedAhead, CallbacksSorted
<1> QED
  BY <1>1, ListsConsistent, PTL DEF FilingInv

-----------------------------------------------------------------------------
\* Two events at two places of a list are found at these places.
LEMMA PlacesFound ==
    ASSUME IndInv, FilingInv, NEW c \in Cycles,
           NEW x \in 1 .. Len(eventMap[c]), NEW y \in 1 .. Len(eventMap[c]), x < y
    PROVE  /\ status[eventMap[c][x]] # "new"
           /\ PositionOf(eventMap[c][x], eventMap[c]) < PositionOf(eventMap[c][y], eventMap[c])
<1>0. TypeOK /\ FiledOnce /\ FiledByPlace
  BY DEF IndInv, FilingInv
<1>1. \A z \in 1 .. Len(eventMap[c]) : PositionOf(eventMap[c][z], eventMap[c]) = z
  <2> SUFFICES ASSUME NEW z \in 1 .. Len(eventMap[c])
               PROVE  PositionOf(eventMap[c][z], eventMap[c]) = z
    OBVIOUS
  <2>1. \A w \in 1 .. Len(eventMap[c]) : eventMap[c][w] = eventMap[c][z] => w = z
    BY <1>0 DEF FiledOnce
  <2> QED
    BY <2>1 DEF PositionOf
<1>2. status[eventMap[c][x]] # "new"
  BY <1>0, ListFacts DEF FiledByPlace, Waiting
<1> QED
  BY <1>1, <1>2

\* A new callback goes behind the waiting ones of its priority.
LEMMA InsertFifo ==
    ASSUME IndInv, FilingInv,
           NEW e \in Events, NEW when \in Cycles, NEW p \in Int,
           when >= currentCycle, Insert(e, when, p),
           callbacks' \in SUBSET (callbacks \cup {e}),
           \A d \in Events : d # e => priority'[d] = priority[d],
           e \in callbacks' => priority'[e] = p
    PROVE  FifoStep
<1>0. TypeOK /\ FiledByPlace /\ PrioritiesStored /\ SortedAhead
  BY DEF IndInv, FilingInv
<1>1. PICK i \in InsertPositions(when, p) :
         /\ i \in 1 .. Len(eventMap'[when])
         /\ eventMap'[when][i] = e
         /\ Passed(when)' = IF Processing /\ when = nextEventCycle /\ i <= cursor
                            THEN cursor + 1 ELSE Passed(when)
         /\ \A c \in Cycles : \A j \in 1 .. Len(eventMap'[c]) :
              c # when \/ j # i =>
                /\ PlaceDown(c, j, when, i) \in 1 .. Len(eventMap[c])
                /\ eventMap'[c][j] = eventMap[c][PlaceDown(c, j, when, i)]
  BY InsertShift
<1>2. status[e] = "new" /\ e \notin callbacks
  BY <1>0 DEF Insert, PrioritiesStored
<1>3. \A c \in Cycles : /\ Len(eventMap[c]) \in Nat
                        /\ Passed(c) \in Nat
                        /\ \A j \in 1 .. Len(eventMap[c]) :
                             /\ eventMap[c][j] # e
                             /\ eventMap[c][j] \in Events
                             /\ priority[eventMap[c][j]] \in Int
  BY <1>0, <1>2, NewIsNowhere, ListFacts DEF TypeOK
<1> SUFFICES ASSUME NEW c \in Cycles,
                    NEW j \in 1 .. Len(eventMap'[c]), NEW k \in 1 .. Len(eventMap'[c]),
                    j < k,
                    j > Freed(c)',
                    {eventMap'[c][j], eventMap'[c][k]} \subseteq callbacks',
                    priority'[eventMap'[c][j]] = priority'[eventMap'[c][k]],
                    Waiting(eventMap'[c][k])
             PROVE  /\ status[eventMap'[c][j]] # "new"
                    /\ PositionOf(eventMap'[c][j], eventMap[c])
                         < PositionOf(eventMap'[c][k], eventMap[c])
  BY Zenon DEF FifoStep
<1> DEFINE oj == PlaceDown(c, j, when, i)
           ok == PlaceDown(c, k, when, i)
<1>4. i \in Int /\ j \in Int /\ k \in Int
  BY <1>1
<1>5. c # when \/ k # i
  BY <1>1, <1>2 DEF Waiting
<1>6. ok \in 1 .. Len(eventMap[c]) /\ eventMap'[c][k] = eventMap[c][ok]
  BY <1>1, <1>5
<1>7. CASE c # when \/ j # i
  <2>1. oj \in 1 .. Len(eventMap[c]) /\ eventMap'[c][j] = eventMap[c][oj]
    BY <1>1, <1>7
  <2>2. oj < ok
    BY <1>4, <1>5, <1>7 DEF PlaceDown
  <2> HIDE DEF oj, ok
  <2> QED
    BY <1>6, <2>1, <2>2, PlacesFound
<1>8. CASE c = when /\ j = i
  <2>1. ~ (Processing /\ when = nextEventCycle /\ i <= cursor)
    <3> SUFFICES ASSUME Processing, when = nextEventCycle, i <= cursor PROVE FALSE
      OBVIOUS
    <3>1. Passed(when)' = cursor + 1 /\ cursor \in Nat
      BY <1>0, <1>1 DEF TypeOK
    <3>2. when = nextEventCycle' /\ cursor' = cursor + 1
      BY <3>1 DEF Passed
    <3>3. Freed(c)' = cursor
      BY <1>8, <3>1, <3>2 DEF Freed
    <3> QED
      BY <1>4, <1>8, <3>1, <3>3
  <2>2. Passed(c) < i
    BY <1>0, <1>1, <1>8, <2>1 DEF Passed, Processing, TypeOK
  <2>3. i \in 1 .. Len(eventMap[when]) => priority[eventMap[when][i]] > p
    BY <1>0, <2>1, InsertSearch
  <2>4. ok = k - 1 /\ ok >= i
    BY <1>4, <1>8 DEF PlaceDown
  <2> HIDE DEF ok, oj
  <2>5. i \in 1 .. Len(eventMap[c]) /\ priority[eventMap[c][i]] > p
    BY <1>1, <1>3, <1>4, <1>6, <1>8, <2>3, <2>4
  <2>6. /\ eventMap[c][ok] \in callbacks
        /\ priority'[eventMap'[c][k]] = priority[eventMap[c][ok]]
        /\ priority'[eventMap'[c][j]] = p
    BY <1>1, <1>3, <1>6, <1>8
  <2>7. priority[eventMap[c][i]] <= priority[eventMap[c][ok]]
    <3>1. \A x, y \in 1 .. Len(eventMap[c]) :
            Passed(c) < x /\ x < y /\ eventMap[c][y] \in callbacks
                => priority[eventMap[c][x]] <= priority[eventMap[c][y]]
      BY <1>0 DEF SortedAhead
    <3>2. CASE ok = i
      BY <1>3, <2>5, <3>2
    <3>3. CASE ok > i
      BY <1>6, <2>2, <2>5, <2>6, <3>1, <3>3
    <3> QED
      BY <1>4, <2>4, <3>2, <3>3
  <2>8. priority[eventMap[c][i]] \in Int /\ priority[eventMap[c][ok]] \in Int
    BY <1>3, <1>6, <2>5
  <2> QED
    BY <2>5, <2>6, <2>7, <2>8
<1> QED
  BY <1>7, <1>8

\* No step makes two waiting callbacks of equal priority change places.
LEMMA NextFifo ==
    ASSUME IndInv, FilingInv, Next
    PROVE  FifoStep
<1>0. TypeOK /\ PrioritiesStored
  BY DEF IndInv, FilingInv
<1>1. ASSUME NEW e \in Events, NEW when \in Cycles, NEW p \in Priorities,
             InsertEvent(e, when, p)
      PROVE  FifoStep
  <2>1. /\ p \in Int /\ when >= currentCycle /\ Insert(e, when, p)
        /\ callbacks' = callbacks /\ priority' = priority
    BY <1>1 DEF InsertEvent
  <2>2. e \notin callbacks
    BY <1>0, <2>1 DEF Insert, PrioritiesStored
  <2> QED
    BY <2>1, <2>2, InsertFifo
<1>2. ASSUME NEW e \in Events, NEW when \in Cycles, NEW p \in Priorities,
             InsertCallback(e, when, p)
      PROVE  FifoStep
  <2>1. /\ p \in Int /\ when >= currentCycle /\ Insert(e, when, p)
        /\ callbacks' = callbacks \cup {e}
        /\ priority' = [priority EXCEPT ![e] = p]
    BY <1>2 DEF InsertCallback
  <2>2. /\ priority'[e] = p
        /\ \A d \in Events : d # e => priority'[d] = priority[d]
    BY <1>0, <2>1 DEF TypeOK
  <2> QED
    BY <2>1, <2>2, InsertFifo
<1>3. ASSUME NEW e \in Events, NEW when \in Cycles, RemoveEvent(e, when)
      PROVE  FifoStep
  <2>1. PICK i \in 1 .. Len(eventMap[when]) :
          /\ eventMap[when][i] = e
          /\ \A c \in Cycles : \A j \in 1 .. Len(eventMap'[c]) :
                /\ PlaceUp(c, j, when, i) \in 1 .. Len(eventMap[c])
                /\ c # when \/ PlaceUp(c, j, when, i) # i
                /\ eventMap'[c][j] = eventMap[c][PlaceUp(c, j, when, i)]
    BY <1>3, RemoveShift, ZenonT(60)
  <2>2. ASSUME NEW c \in Cycles,
               NEW j \in 1 .. Len(eventMap'[c]), NEW k \in 1 .. Len(eventMap'[c]), j < k
        PROVE  /\ status[eventMap'[c][j]] # "new"
               /\ PositionOf(eventMap'[c][j], eventMap[c])
                    < PositionOf(eventMap'[c][k], eventMap[c])
    <3> DEFINE oj == PlaceUp(c, j, when, i)
               ok == PlaceUp(c, k, when, i)
    <3>1. /\ oj \in 1 .. Len(eventMap[c]) /\ eventMap'[c][j] = eventMap[c][oj]
          /\ ok \in 1 .. Len(eventMap[c]) /\ eventMap'[c][k] = eventMap[c][ok]
      BY <2>1
    <3>2. i \in Int /\ j \in Int /\ k \in Int
      OBVIOUS
    <3>3. oj < ok
      BY <2>2, <3>2 DEF PlaceUp
    <3> HIDE DEF oj, ok
    <3> QED
      BY <3>1, <3>3, PlacesFound
  <2> QED
    BY <2>2, Zenon DEF FifoStep
<1>4. ASSUME \A c \in Cycles : eventMap'[c] = eventMap[c] \/ Len(eventMap'[c]) = 0
      PROVE  FifoStep
  <2>1. ASSUME NEW c \in Cycles,
               NEW j \in 1 .. Len(eventMap'[c]), NEW k \in 1 .. Len(eventMap'[c]), j < k
        PROVE  /\ status[eventMap'[c][j]] # "new"
               /\ PositionOf(eventMap'[c][j], eventMap[c])
                    < PositionOf(eventMap'[c][k], eventMap[c])
    <3>1. eventMap'[c] = eventMap[c]
      BY <1>4, <2>1
    <3> QED
      BY <2>1, <3>1, PlacesFound
  <2> QED
    BY <2>1, Zenon DEF FifoStep
<1>5. CASE Loop \/ LoopZero \/ (\E n \in 1 .. MaxSteps : LoopSteps(n)) \/ LoopStep \/ ProcessNext
  BY <1>4, <1>5 DEF Loop, LoopZero, LoopSteps, LoopStep, ProcessNext
<1>6. CASE ProcessEnd
  <2>1. eventMap' = [eventMap EXCEPT ![nextEventCycle] = <<>>]
    BY <1>6 DEF ProcessEnd
  <2>2. \A c \in Cycles : eventMap'[c] = eventMap[c] \/ eventMap'[c] = <<>>
    BY <1>0, <2>1 DEF TypeOK
  <2>3. Len(<<>>) = 0
    OBVIOUS
  <2> QED
    BY <1>4, <2>2, <2>3
<1> QED
  BY <1>1, <1>2, <1>3, <1>5, <1>6 DEF Next

\* Callbacks of equal priority keep the order of their insertion (EventQueue.cpp:101-189).
THEOREM FifoAmongEquals == Spec => FifoWithinPriority
<1>1. IndInv /\ FilingInv /\ [Next]_vars => [FifoStep]_vars
  BY NextFifo
<1> QED
  BY <1>1, ListsConsistent, PTL DEF Spec, FifoWithinPriority

-----------------------------------------------------------------------------
(***************************************************************************)
(* The queue implements the agenda.                                        *)
(***************************************************************************)

\* The items of the agenda are the waiting events in their places.
LEMMA ItemsFacts ==
    \A x : x \in Items <=> \E c \in Cycles : \E i \in 1 .. Len(eventMap[c]) :
                              Waiting(eventMap[c][i]) /\ x = Item(c, i)
  BY DEF Items, WaitingAt

\* The same after a step.
LEMMA ItemsNextFacts ==
    \A x : x \in Items' <=> \E c \in Cycles : \E i \in 1 .. Len(eventMap'[c]) :
                              Waiting(eventMap[c][i])' /\ x = Item(c, i)'
  BY DEF Items, WaitingAt

\* No item is filed under a cycle that has passed, nor before nextEventCycle.
LEMMA ItemsAhead ==
    ASSUME IndInv, NEW x \in Items
    PROVE  x.cycle \in Cycles /\ nextEventCycle <= x.cycle /\ currentCycle <= x.cycle
<1>1. PICK c \in Cycles : \E i \in 1 .. Len(eventMap[c]) : x = Item(c, i)
  BY ItemsFacts
<1>2. x.cycle = c
  BY <1>1 DEF Item
<1>3. c \in Scheduled(eventMap)
  <2>1. 1 .. Len(eventMap[c]) # {}
    BY <1>1
  <2>2. eventMap[c] # <<>>
    BY <2>1
  <2> QED BY <2>2 DEF Scheduled
<1> QED
  BY <1>2, <1>3, FirstOfFacts DEF IndInv, NextEventIsFirst, NoneOverdue

\* InsertEvent and InsertCallback file an item.
LEMMA InsertFiles ==
    ASSUME IndInv, FilingInv, NEW e \in Events, NEW when \in Cycles, NEW p \in Int,
           when >= currentCycle, Insert(e, when, p)
    PROVE  AgendaView!File
<1>0. TypeOK /\ FiledByPlace
  BY DEF IndInv, FilingInv
<1>1. PICK i \in InsertPositions(when, p) :
         /\ i \in 1 .. Len(eventMap'[when])
         /\ eventMap'[when][i] = e
         /\ \A c \in Cycles : \A j \in 1 .. Len(eventMap'[c]) :
              c # when \/ j # i =>
                /\ PlaceDown(c, j, when, i) \in 1 .. Len(eventMap[c])
                /\ eventMap'[c][j] = eventMap[c][PlaceDown(c, j, when, i)]
         /\ \A c \in Cycles : \A j \in 1 .. Len(eventMap[c]) :
                /\ PlaceUp(c, j, when, i) \in 1 .. Len(eventMap'[c])
                /\ c # when \/ PlaceUp(c, j, when, i) # i
                /\ eventMap'[c][PlaceUp(c, j, when, i)] = eventMap[c][j]
  BY InsertShift
<1>2. status[e] = "new"
  BY DEF Insert
<1>3. \A c \in Cycles : \A j \in 1 .. Len(eventMap[c]) : eventMap[c][j] # e /\ eventMap[c][j] \in Events
  BY <1>0, <1>2, NewIsNowhere, ListFacts
<1>4. /\ status'[e] = IF Processing /\ when = nextEventCycle THEN "late" ELSE "pending"
      /\ \A d \in Events : d # e => status'[d] = status[d]
  BY <1>0 DEF Insert, TypeOK
<1> DEFINE x == Item(when, i)'
<1>5. /\ x.event = e /\ x.cycle = when
      /\ x.late = (status'[e] = "late")
  BY <1>1 DEF Item
<1>6. x.late = (Processing /\ x.cycle = currentCycle)
  <2>1. Processing => nextEventCycle = currentCycle
    BY CursorCycle
  <2> QED BY <1>4, <1>5, <2>1
<1>7. x \in Items'
  <2>1. Waiting(eventMap[when][i])'
    BY <1>1, <1>4 DEF Waiting
  <2> QED BY <1>1, <2>1, ItemsNextFacts
<1>8. \A y \in Items : y.event # x.event
  BY <1>3, <1>5, ItemsFacts DEF Item
<1>9. Items' = Items \cup {x}
  <2>1. ASSUME NEW y \in Items' PROVE y \in Items \cup {x}
    <3>1. PICK c \in Cycles : \E j \in 1 .. Len(eventMap'[c]) :
                                 Waiting(eventMap[c][j])' /\ y = Item(c, j)'
      BY <2>1, ItemsNextFacts
    <3>2. PICK j \in 1 .. Len(eventMap'[c]) : Waiting(eventMap[c][j])' /\ y = Item(c, j)'
      BY <3>1
    <3>3. CASE c = when /\ j = i
      BY <3>2, <3>3
    <3>4. CASE c # when \/ j # i
      <4> DEFINE o == PlaceDown(c, j, when, i)
      <4>1. o \in 1 .. Len(eventMap[c]) /\ eventMap'[c][j] = eventMap[c][o]
        BY <1>1, <3>4
      <4> HIDE DEF o
      <4>2. status'[eventMap'[c][j]] = status[eventMap[c][o]]
        BY <1>3, <1>4, <4>1
      <4>3. Waiting(eventMap[c][o]) /\ y = Item(c, o)
        BY <3>2, <4>1, <4>2 DEF Waiting, Item
      <4> QED BY <4>1, <4>3, ItemsFacts
    <3> QED BY <3>3, <3>4
  <2>2. ASSUME NEW y \in Items PROVE y \in Items'
    <3>1. PICK c \in Cycles : \E j \in 1 .. Len(eventMap[c]) :
                                 Waiting(eventMap[c][j]) /\ y = Item(c, j)
      BY <2>2, ItemsFacts
    <3>2. PICK j \in 1 .. Len(eventMap[c]) : Waiting(eventMap[c][j]) /\ y = Item(c, j)
      BY <3>1
    <3> DEFINE o == PlaceUp(c, j, when, i)
    <3>3. o \in 1 .. Len(eventMap'[c]) /\ eventMap'[c][o] = eventMap[c][j]
      BY <1>1
    <3> HIDE DEF o
    <3>4. status'[eventMap'[c][o]] = status[eventMap[c][j]]
      BY <1>3, <1>4, <3>3
    <3>5. Waiting(eventMap[c][o])' /\ y = Item(c, o)'
      BY <3>2, <3>3, <3>4 DEF Waiting, Item
    <3> QED BY <3>3, <3>5, ItemsNextFacts
  <2> QED BY <1>7, <2>1, <2>2
<1>10. currentCycle' = currentCycle /\ Processing' = Processing
  BY <1>0 DEF Insert, Processing, TypeOK
<1> HIDE DEF x
<1> QED
  BY <1>5, <1>6, <1>7, <1>8, <1>9, <1>10 DEF AgendaView!File

\* RemoveEvent cancels one.
LEMMA RemoveCancels ==
    ASSUME IndInv, FilingInv, NEW e \in Events, NEW when \in Cycles, RemoveEvent(e, when)
    PROVE  \E x \in Items : AgendaView!Cancel(x)
<1>0. TypeOK /\ FiledOnce
  BY DEF IndInv, FilingInv
<1>1. PICK i \in 1 .. Len(eventMap[when]) :
         /\ eventMap[when][i] = e
         /\ \A c \in Cycles : \A j \in 1 .. Len(eventMap'[c]) :
                /\ PlaceUp(c, j, when, i) \in 1 .. Len(eventMap[c])
                /\ c # when \/ PlaceUp(c, j, when, i) # i
                /\ eventMap'[c][j] = eventMap[c][PlaceUp(c, j, when, i)]
         /\ \A c \in Cycles : \A j \in 1 .. Len(eventMap[c]) :
              c # when \/ j # i =>
                /\ PlaceDown(c, j, when, i) \in 1 .. Len(eventMap'[c])
                /\ eventMap'[c][PlaceDown(c, j, when, i)] = eventMap[c][j]
  BY RemoveShift
<1>2. /\ Waiting(e) /\ when > currentCycle /\ currentCycle' = currentCycle
      /\ cursor' = cursor /\ status' = [status EXCEPT ![e] = "removed"]
  BY DEF RemoveEvent
<1> DEFINE x == Item(when, i)
<1>3. x.event = e /\ x.cycle = when
  BY <1>1 DEF Item
<1>4. x \in Items
  BY <1>1, <1>2, ItemsFacts
<1>5. ASSUME NEW c \in Cycles, NEW j \in 1 .. Len(eventMap[c]), c # when \/ j # i
      PROVE  /\ eventMap[c][j] \in Events /\ eventMap[c][j] # e
             /\ status'[eventMap[c][j]] = status[eventMap[c][j]]
  <2>1. eventMap[c][j] \in Events
    BY <1>0, ListFacts
  <2>2. eventMap[c][j] # e
    BY <1>0, <1>1, <1>5 DEF FiledOnce
  <2> QED BY <1>0, <1>2, <2>1, <2>2 DEF TypeOK
<1>6. Items' = Items \ {x}
  <2>1. ASSUME NEW y \in Items' PROVE y \in Items \ {x}
    <3>1. PICK c \in Cycles : \E j \in 1 .. Len(eventMap'[c]) :
                                 Waiting(eventMap[c][j])' /\ y = Item(c, j)'
      BY <2>1, ItemsNextFacts
    <3>2. PICK j \in 1 .. Len(eventMap'[c]) : Waiting(eventMap[c][j])' /\ y = Item(c, j)'
      BY <3>1
    <3> DEFINE o == PlaceUp(c, j, when, i)
    <3>3. /\ o \in 1 .. Len(eventMap[c]) /\ eventMap'[c][j] = eventMap[c][o]
          /\ c # when \/ o # i
      BY <1>1
    <3> HIDE DEF o
    <3>4. /\ status'[eventMap'[c][j]] = status[eventMap[c][o]]
          /\ eventMap[c][o] # e
      BY <1>5, <3>3
    <3>5. Waiting(eventMap[c][o]) /\ y = Item(c, o) /\ y.event # e
      BY <3>2, <3>3, <3>4 DEF Waiting, Item
    <3> QED BY <1>3, <3>3, <3>5, ItemsFacts
  <2>2. ASSUME NEW y \in Items, y # x PROVE y \in Items'
    <3>1. PICK c \in Cycles : \E j \in 1 .. Len(eventMap[c]) :
                                 Waiting(eventMap[c][j]) /\ y = Item(c, j)
      BY <2>2, ItemsFacts
    <3>2. PICK j \in 1 .. Len(eventMap[c]) : Waiting(eventMap[c][j]) /\ y = Item(c, j)
      BY <3>1
    <3> DEFINE o == PlaceDown(c, j, when, i)
    <3>6. c # when \/ j # i
      BY <2>2, <3>2
    <3>3. o \in 1 .. Len(eventMap'[c]) /\ eventMap'[c][o] = eventMap[c][j]
      BY <1>1, <3>6
    <3> HIDE DEF o
    <3>4. status'[eventMap'[c][o]] = status[eventMap[c][j]]
      BY <1>5, <3>3, <3>6
    <3>5. Waiting(eventMap[c][o])' /\ y = Item(c, o)'
      BY <3>2, <3>3, <3>4 DEF Waiting, Item
    <3> QED BY <3>3, <3>5, ItemsNextFacts
  <2> QED BY <2>1, <2>2
<1>7. Processing' = Processing
  BY <1>2 DEF Processing
<1> HIDE DEF x
<1>8. AgendaView!Cancel(x)
  BY <1>2, <1>3, <1>6, <1>7 DEF AgendaView!Cancel
<1> QED
  BY <1>4, <1>8

\* Delivering the event at place k of the list of n takes its item off the agenda.
LEMMA DeliverItems ==
    ASSUME IndInv, FilingInv, NEW n \in Cycles, NEW k \in 1 .. Len(eventMap[n]),
           k > Passed(n), eventMap' = eventMap,
           status' = [status EXCEPT ![eventMap[n][k]] = "delivered"]
    PROVE  /\ Item(n, k) \in Items /\ Item(n, k).cycle = n
           /\ Items' = Items \ {Item(n, k)}
<1>0. TypeOK /\ FiledOnce /\ FiledByPlace
  BY DEF IndInv, FilingInv
<1> DEFINE x == Item(n, k)
           e == eventMap[n][k]
<1>1. e \in Events /\ Waiting(e)
  BY <1>0, ListFacts DEF FiledByPlace
<1>3. x.event = e /\ x.cycle = n
  BY DEF Item
<1>4. x \in Items
  BY <1>1, ItemsFacts
<1>5. ASSUME NEW c \in Cycles, NEW j \in 1 .. Len(eventMap[c]), c # n \/ j # k
      PROVE  /\ eventMap[c][j] # e
             /\ status'[eventMap[c][j]] = status[eventMap[c][j]]
  <2>1. eventMap[c][j] \in Events
    BY <1>0, ListFacts
  <2>2. eventMap[c][j] # e
    BY <1>0, <1>5 DEF FiledOnce
  <2> QED BY <1>0, <2>1, <2>2 DEF TypeOK
<1>6. status'[e] = "delivered"
  BY <1>0, <1>1 DEF TypeOK
<1>7. ASSUME NEW y \in Items' PROVE y \in Items \ {x}
  <2>1. PICK c \in Cycles : \E j \in 1 .. Len(eventMap[c]) :
                               Waiting(eventMap[c][j])' /\ y = Item(c, j)'
    BY <1>7, ItemsNextFacts
  <2>2. PICK j \in 1 .. Len(eventMap[c]) : Waiting(eventMap[c][j])' /\ y = Item(c, j)'
    BY <2>1
  <2>3. c # n \/ j # k
    BY <1>6, <2>2 DEF Waiting
  <2>4. eventMap[c][j] # e /\ status'[eventMap[c][j]] = status[eventMap[c][j]]
    BY <1>5, <2>3
  <2>5. Waiting(eventMap[c][j]) /\ y = Item(c, j) /\ y.event # e
    BY <2>2, <2>4 DEF Waiting, Item
  <2> QED BY <1>3, <2>5, ItemsFacts
<1>8. ASSUME NEW y \in Items, y # x PROVE y \in Items'
  <2>1. PICK c \in Cycles : \E j \in 1 .. Len(eventMap[c]) :
                               Waiting(eventMap[c][j]) /\ y = Item(c, j)
    BY <1>8, ItemsFacts
  <2>2. PICK j \in 1 .. Len(eventMap[c]) : Waiting(eventMap[c][j]) /\ y = Item(c, j)
    BY <2>1
  <2>3. c # n \/ j # k
    BY <1>8, <2>2
  <2>4. status'[eventMap[c][j]] = status[eventMap[c][j]]
    BY <1>5, <2>3
  <2>5. Waiting(eventMap[c][j])' /\ y = Item(c, j)'
    BY <2>2, <2>4 DEF Waiting, Item
  <2> QED BY <2>5, ItemsNextFacts
<1> QED
  BY <1>3, <1>4, <1>7, <1>8

\* The start of Process opens the cycle of the first item.
LEMMA StartPasses ==
    ASSUME IndInv, FilingInv, cursor = 0, StartProcess, eventMap' = eventMap,
           nextEventCycle # Never,
           currentCycle' = nextEventCycle, currentCycle <= nextEventCycle
    PROVE  AgendaView!Pass
<1>1. nextEventCycle \in Cycles /\ Len(eventMap[nextEventCycle]) \in Nat \ {0}
  BY NextIsScheduled DEF IndInv
<1> DEFINE x == Item(nextEventCycle, 1)
<1>2. x \in Items /\ x.cycle = nextEventCycle /\ Items' = Items \ {x}
  <2>1. 1 \in 1 .. Len(eventMap[nextEventCycle]) /\ 1 > Passed(nextEventCycle)
    BY <1>1 DEF Passed
  <2> QED BY <1>1, <2>1, DeliverItems DEF StartProcess
<1>3. Processing = FALSE /\ Processing' = TRUE
  BY DEF StartProcess, Processing
<1>4. \A y \in Items : y.cycle >= currentCycle'
  BY ItemsAhead, <1>1, NeverIsNoCycle
<1> HIDE DEF x
<1>5. currentCycle' >= currentCycle
  BY <1>1, NeverIsNoCycle DEF IndInv, TypeOK
<1> QED
  BY <1>2, <1>3, <1>4, <1>5 DEF AgendaView!Pass

\* Time alone passes.
LEMMA TimePasses ==
    ASSUME IndInv, cursor = 0, UNCHANGED <<eventMap, cursor, status>>,
           currentCycle' \in Nat, currentCycle <= currentCycle', currentCycle' <= nextEventCycle
    PROVE  AgendaView!Pass
<1>1. Processing = FALSE /\ Processing' = FALSE
  BY DEF Processing
<1>2. Items' = Items
  BY DEF Items, Item, WaitingAt, Waiting
<1>3. \A y \in Items : y.cycle >= currentCycle'
  <2>1. \A y \in Items : y.cycle \in Nat /\ nextEventCycle <= y.cycle
    BY ItemsAhead, NeverIsNoCycle
  <2>2. nextEventCycle \in Nat
    BY NeverIsNoCycle DEF IndInv, TypeOK
  <2> QED BY <2>1, <2>2
<1> QED
  BY <1>1, <1>2, <1>3 DEF AgendaView!Pass, IndInv, TypeOK

\* The end of Process closes the cycle and drops late items only.
LEMMA EndCloses ==
    ASSUME IndInv, FilingInv, ProcessEnd
    PROVE  AgendaView!Close
<1>0. TypeOK /\ FiledOnce /\ FiledByPlace
  BY DEF IndInv, FilingInv
<1> DEFINE n == nextEventCycle
           dropped == {x \in Items : x.cycle = currentCycle}
<1>1. n = currentCycle /\ n \in Cycles /\ Processing
  BY CursorCycle DEF ProcessEnd
<1>2. /\ cursor' = 0 /\ cursor = Len(eventMap[n])
      /\ currentCycle' = currentCycle + advance
      /\ eventMap' = [eventMap EXCEPT ![n] = <<>>]
      /\ status' = [d \in Events |->
                      IF /\ Waiting(d)
                         /\ \E i \in 1 .. Len(eventMap[n]) : eventMap[n][i] = d
                      THEN "lost" ELSE status[d]]
  BY DEF ProcessEnd
<1>3. /\ \A j : j \notin 1 .. Len(eventMap'[n])
      /\ \A c \in Cycles : c # n => eventMap'[c] = eventMap[c]
  <2>1. eventMap'[n] = <<>> /\ Len(<<>>) = 0
    BY <1>0, <1>1, <1>2 DEF TypeOK
  <2>2. \A j : j \notin 1 .. Len(eventMap'[n])
    BY <2>1
  <2> QED
    BY <1>0, <1>1, <1>2, <2>2 DEF TypeOK
<1>4. ASSUME NEW c \in Cycles, c # n, NEW j \in 1 .. Len(eventMap[c])
      PROVE  status'[eventMap[c][j]] = status[eventMap[c][j]]
  <2>1. eventMap[c][j] \in Events
    BY <1>0, ListFacts
  <2>2. \A i \in 1 .. Len(eventMap[n]) : eventMap[n][i] # eventMap[c][j]
    BY <1>0, <1>1, <1>4 DEF FiledOnce
  <2> HIDE DEF n
  <2> QED BY <1>2, <2>1, <2>2
<1>5. \A x \in dropped : x.late
  <2> SUFFICES ASSUME NEW x \in Items, x.cycle = currentCycle PROVE x.late
    OBVIOUS
  <2>1. PICK c \in Cycles : \E j \in 1 .. Len(eventMap[c]) :
                               Waiting(eventMap[c][j]) /\ x = Item(c, j)
    BY ItemsFacts
  <2>2. PICK j \in 1 .. Len(eventMap[c]) : Waiting(eventMap[c][j]) /\ x = Item(c, j)
    BY <2>1
  <2>3. c = n
    BY <1>1, <2>2 DEF Item
  <2>4. j <= Passed(c)
    BY <1>0, <1>1, <1>2, <2>2, <2>3, ListFacts DEF Passed
  <2>5. status[eventMap[c][j]] = "late"
    BY <1>0, <2>2, <2>4 DEF FiledByPlace, Waiting
  <2> QED BY <2>2, <2>5 DEF Item
<1>6. Items' = Items \ dropped
  <2>1. ASSUME NEW y \in Items' PROVE y \in Items \ dropped
    <3>1. PICK c \in Cycles : \E j \in 1 .. Len(eventMap'[c]) :
                                 Waiting(eventMap[c][j])' /\ y = Item(c, j)'
      BY <2>1, ItemsNextFacts
    <3>2. PICK j \in 1 .. Len(eventMap'[c]) : Waiting(eventMap[c][j])' /\ y = Item(c, j)'
      BY <3>1
    <3>3. c # n /\ eventMap'[c] = eventMap[c]
      BY <1>3, <3>2
    <3>4. status'[eventMap[c][j]] = status[eventMap[c][j]]
      BY <1>4, <3>3
    <3>5. Waiting(eventMap[c][j]) /\ y = Item(c, j) /\ y.cycle = c
      BY <3>2, <3>3, <3>4 DEF Waiting, Item
    <3> QED BY <1>1, <3>3, <3>5, ItemsFacts
  <2>2. ASSUME NEW y \in Items, y \notin dropped PROVE y \in Items'
    <3>1. PICK c \in Cycles : \E j \in 1 .. Len(eventMap[c]) :
                                 Waiting(eventMap[c][j]) /\ y = Item(c, j)
      BY <2>2, ItemsFacts
    <3>2. PICK j \in 1 .. Len(eventMap[c]) : Waiting(eventMap[c][j]) /\ y = Item(c, j)
      BY <3>1
    <3>3. y.cycle = c
      BY <3>2 DEF Item
    <3>4. c # n /\ eventMap'[c] = eventMap[c]
      BY <1>1, <1>3, <2>2, <3>3
    <3>5. status'[eventMap[c][j]] = status[eventMap[c][j]]
      BY <1>4, <3>4
    <3>6. Waiting(eventMap[c][j])' /\ y = Item(c, j)'
      BY <3>2, <3>4, <3>5 DEF Waiting, Item
    <3> QED BY <3>4, <3>6, ItemsNextFacts
  <2> QED BY <2>1, <2>2
<1>7. \A y \in Items' : y.cycle > currentCycle
  <2>1. \A y \in Items : y.cycle \in Nat /\ currentCycle <= y.cycle
    BY ItemsAhead, NeverIsNoCycle
  <2> QED BY <1>0, <1>6, <2>1 DEF TypeOK
<1>8. currentCycle' \in {currentCycle, currentCycle + 1}
  BY <1>0, <1>2 DEF TypeOK
<1>9. Processing' = FALSE
  BY <1>2 DEF Processing
<1>10. dropped \in SUBSET {x \in Items : x.cycle = currentCycle}
  OBVIOUS
<1> HIDE DEF dropped
<1> QED
  BY <1>1, <1>5, <1>6, <1>7, <1>8, <1>9, <1>10 DEF AgendaView!Close

\* Every step of the queue is a step of the agenda, or leaves it alone.
LEMMA NextAgenda ==
    ASSUME IndInv, FilingInv, [Next]_vars
    PROVE  [AgendaView!Next]_<<currentCycle, Processing, Items>>
<1>0. TypeOK
  BY DEF IndInv
<1> DEFINE Goal == [AgendaView!Next]_<<currentCycle, Processing, Items>>
<1>g. AgendaView!Next => Goal
  OBVIOUS
<1>s. UNCHANGED <<eventMap, currentCycle, cursor, status>> => Goal
  <2> SUFFICES ASSUME UNCHANGED <<eventMap, currentCycle, cursor, status>>
               PROVE  UNCHANGED <<currentCycle, Processing, Items>>
    OBVIOUS
  <2>1. Items' = Items /\ Processing' = Processing
    BY DEF Items, Item, WaitingAt, Waiting, Processing
  <2> QED BY <2>1
<1>f. AgendaView!File => Goal
  BY <1>g DEF AgendaView!Next
<1>p. AgendaView!Pass => Goal
  BY <1>g DEF AgendaView!Next
<1>c. AgendaView!Close => Goal
  BY <1>g DEF AgendaView!Next
<1>h. (\E x \in Items : AgendaView!HandOut(x)) => Goal
  BY <1>g DEF AgendaView!Next
<1>n. (\E x \in Items : AgendaView!Cancel(x)) => Goal
  BY <1>g DEF AgendaView!Next
<1> SUFFICES Goal
  OBVIOUS
<1> HIDE DEF Goal
<1>1. ASSUME NEW e \in Events, NEW when \in Cycles, NEW p \in Priorities,
             InsertEvent(e, when, p) \/ InsertCallback(e, when, p)
      PROVE  Goal
  <2>1. p \in Int /\ when >= currentCycle /\ Insert(e, when, p)
    BY <1>1 DEF InsertEvent, InsertCallback
  <2> QED BY <1>f, <2>1, InsertFiles
<1>2. ASSUME NEW e \in Events, NEW when \in Cycles, RemoveEvent(e, when)
      PROVE  Goal
  BY <1>2, <1>n, RemoveCancels
<1>3. /\ ~Processing => cursor = 0
      /\ currentCycle + stepCycles < Never /\ currentCycle \in Nat /\ stepCycles \in Nat
      /\ nextEventCycle \in Nat
      /\ currentCycle <= nextEventCycle
  <2>1. /\ ~Processing => cursor = 0
        /\ currentCycle + stepCycles < Never /\ currentCycle \in Nat /\ stepCycles \in Nat
        /\ nextEventCycle \in Nat
    BY <1>0, NeverIsNoCycle DEF Processing, TypeOK, IndInv, BelowNever
  <2>2. nextEventCycle = Never => currentCycle <= nextEventCycle
    BY <2>1, NeverIsNoCycle
  <2>3. nextEventCycle # Never => currentCycle <= nextEventCycle
    BY NextIsScheduled DEF IndInv, NoneOverdue
  <2> QED BY <2>1, <2>2, <2>3
<1>4. CASE Loop
  <2>1. CASE nextEventCycle = currentCycle
    <3>1. /\ cursor = 0 /\ StartProcess /\ eventMap' = eventMap
          /\ currentCycle' = nextEventCycle
      BY <1>3, <1>4, <2>1 DEF Loop, InLoop
    <3>2. nextEventCycle # Never
      BY <1>3, <2>1, NeverIsNoCycle
    <3> QED BY <1>p, <1>3, <3>1, <3>2, StartPasses
  <2>2. CASE nextEventCycle # currentCycle
    <3>1. /\ cursor = 0 /\ UNCHANGED <<eventMap, cursor, status>>
          /\ currentCycle' = currentCycle + 1
      BY <1>3, <1>4, <2>2 DEF Loop, InLoop
    <3>2. currentCycle' \in Nat /\ currentCycle <= currentCycle' /\ currentCycle' <= nextEventCycle
      BY <1>3, <2>2, <3>1
    <3> QED BY <1>p, <3>1, <3>2, TimePasses
  <2> QED BY <2>1, <2>2
<1>5. CASE LoopZero
  <2>1. /\ cursor = 0 /\ StartProcess /\ eventMap' = eventMap
        /\ currentCycle' = nextEventCycle /\ nextEventCycle = currentCycle
    BY <1>3, <1>5 DEF LoopZero, InLoop
  <2>2. nextEventCycle # Never
    BY <1>3, <2>1, NeverIsNoCycle
  <2> QED BY <1>p, <1>3, <2>1, <2>2, StartPasses
<1>6. CASE \E steps \in 1 .. MaxSteps : LoopSteps(steps)
  BY <1>s, <1>6 DEF LoopSteps
<1>7. CASE LoopStep
  <2>1. CASE nextEventCycle > currentCycle + stepCycles
    <3>1. /\ cursor = 0 /\ UNCHANGED <<eventMap, cursor, status>>
          /\ currentCycle' = currentCycle + stepCycles
      BY <1>3, <1>7, <2>1 DEF LoopStep
    <3>2. currentCycle' \in Nat /\ currentCycle <= currentCycle' /\ currentCycle' <= nextEventCycle
      BY <1>3, <2>1, <3>1
    <3> QED BY <1>p, <3>1, <3>2, TimePasses
  <2>2. CASE nextEventCycle <= currentCycle + stepCycles
    <3>1. /\ cursor = 0 /\ StartProcess /\ eventMap' = eventMap
          /\ currentCycle' = nextEventCycle
      BY <1>3, <1>7, <2>2 DEF LoopStep
    <3>2. nextEventCycle # Never
      BY <1>3, <2>2, NeverIsNoCycle
    <3> QED BY <1>p, <1>3, <3>1, <3>2, StartPasses
  <2> QED BY <1>3, <2>1, <2>2
<1>8. CASE ProcessNext
  <2> DEFINE n == nextEventCycle
             x == Item(n, cursor + 1)
  <2>1. n = currentCycle /\ n \in Cycles /\ cursor \in Nat /\ Len(eventMap[n]) \in Nat
    BY <1>0, <1>8, CursorCycle, ListFacts DEF ProcessNext, TypeOK
  <2>2. /\ cursor + 1 \in 1 .. Len(eventMap[n]) /\ cursor + 1 > Passed(n)
        /\ eventMap' = eventMap /\ currentCycle' = currentCycle
        /\ status' = [status EXCEPT ![eventMap[n][cursor + 1]] = "delivered"]
    BY <1>8, <2>1 DEF ProcessNext, Passed
  <2>3. x \in Items /\ x.cycle = n /\ Items' = Items \ {x}
    <3> HIDE DEF n
    <3> QED BY <2>1, <2>2, DeliverItems
  <2>4. Processing = TRUE /\ Processing' = TRUE
    BY <1>8, <2>1 DEF ProcessNext, Processing
  <2> HIDE DEF x
  <2>5. AgendaView!HandOut(x)
    BY <2>1, <2>2, <2>3, <2>4 DEF AgendaView!HandOut
  <2> QED BY <1>h, <2>3, <2>5
<1>9. CASE ProcessEnd
  BY <1>c, <1>9, EndCloses
<1>10. CASE UNCHANGED vars
  BY <1>s, <1>10 DEF vars
<1> QED
  BY <1>1, <1>2, <1>4, <1>5, <1>6, <1>7, <1>8, <1>9, <1>10 DEF Next

\* The queue implements module Agenda: every event is delivered in exactly its cycle,
\* time passes over none, and Process drops at most events that were inserted for the
\* cycle it is delivering (EventQueue.cpp:137-418).
THEOREM ImplementsAgenda == Spec => KeepsAgenda
<1>1. Init => AgendaView!Init
  <2> SUFFICES ASSUME Init PROVE AgendaView!Init
    OBVIOUS
  <2>1. \A c \in Cycles : \A i : i \notin 1 .. Len(eventMap[c])
    BY EmptySeq DEF Init
  <2>2. Items = {}
    BY <2>1, ItemsFacts
  <2>3. Processing = FALSE /\ currentCycle = 0
    BY DEF Init, Processing
  <2> QED BY <2>2, <2>3 DEF AgendaView!Init
<1>2. IndInv /\ FilingInv /\ [Next]_vars => [AgendaView!Next]_<<currentCycle, Processing, Items>>
  BY NextAgenda
<1> QED
  BY <1>1, <1>2, ListsConsistent, PTL DEF Spec, KeepsAgenda, AgendaView!Spec
=============================================================================
