-------------------------- MODULE FRFCFS_WQF_proofs --------------------------
(***************************************************************************)
(* FRFCFS_WQF, for every number of requests and command queues, every size *)
(* of the transaction queues and every pair of water marks: a transaction  *)
(* whose list is free is awaited, and each one is issued exactly once.     *)
(***************************************************************************)
EXTENDS FRFCFS_WQF, FiniteSetTheorems, SequenceTheorems, TLAPS

Elements == Transactions \cup {RowCommand}

\* IssueMemoryCommands queues a nonempty list of commands.
LEMMA CommandsForFacts ==
    ASSUME NEW t \in Transactions, NEW n \in 0 .. MaxRowCommands
    PROVE  CommandsFor(t, n) \in Seq(Elements) /\ CommandsFor(t, n) # <<>>
<1>1. n \in Nat
  BY SizesAssumption
<1>2. [i \in 1 .. n |-> RowCommand] \in Seq(Elements)
  BY <1>1 DEF Elements
<1>3. <<t>> \in Seq(Elements)
  BY DEF Elements
<1> QED
  BY <1>2, <1>3 DEF CommandsFor

\* CycleCommandQueues serves one queue at most, and one that is not empty.
LEMMA ServedFacts ==
    ASSUME NEW cq, NEW served \in Served(cq)
    PROVE  /\ served \subseteq Queues
           /\ \A q \in served : cq[q] # <<>>
           /\ served = {} \/ \E q \in Queues : served = {q}
  BY DEF Served

\* The EventCycles that it inserts are counted, and there is one if the queue served
\* becomes empty and a transaction waits for it.
LEMMA WakeupsFacts ==
    ASSUME NEW cq, NEW reads, NEW writes, NEW served \in Served(cq)
    PROVE  /\ Wakeups(cq, reads, writes, served) \in Nat
           /\ \A q \in served : Len(cq[q]) = 1 /\ TransactionAvailable(reads, writes, q)
                    => Wakeups(cq, reads, writes, served) > 0
<1> DEFINE S == {q \in served : Len(cq[q]) = 1 /\ TransactionAvailable(reads, writes, q)}
<1>1. IsFiniteSet(served)
  <2>1. served = {} \/ \E q \in Queues : served = {q}
    BY ServedFacts
  <2>2. IsFiniteSet({}) /\ \A x : IsFiniteSet({x})
    BY FS_EmptySet, FS_Singleton
  <2> QED
    BY <2>1, <2>2
<1>2. S \subseteq served
  OBVIOUS
<1>3. IsFiniteSet(S) /\ Cardinality(S) \in Nat
  BY <1>1, <1>2, FS_Subset, FS_CardinalityType
<1>4. S # {} => Cardinality(S) > 0
  BY <1>3, FS_EmptySet
<1> QED
  BY <1>3, <1>4 DEF Wakeups

\* CycleCommandQueues keeps the types of what it changes.
LEMMA CycleCommandQueuesFacts ==
    ASSUME TypeOK, IssuedHeads,
           NEW cq \in [Queues -> Seq(Elements)],
           \A q \in issued : cq[q] # <<>>,
           NEW served \in Served(cq), CycleCommandQueues(cq, served)
    PROVE  /\ commandQueues' \in [Queues -> Seq(Elements)]
           /\ issued' \in SUBSET Queues
           /\ inFlight' \in SUBSET Transactions
           /\ lastIssueCycle' \in {"now", "past"}
           /\ cleanup' \in {"none", "next", "due"}
           /\ IssuedHeads'
<1>1. served \subseteq Queues /\ \A q \in served : cq[q] # <<>>
  BY ServedFacts
<1>2. \A q \in served : Head(cq[q]) \in Elements
  BY <1>1
<1> QED
  BY <1>1, <1>2 DEF CycleCommandQueues, TypeOK, IssuedHeads, Elements

-----------------------------------------------------------------------------
\* Init establishes the invariant.
LEMMA InitInv == Init => IndInv
<1> SUFFICES ASSUME Init PROVE IndInv
  OBVIOUS
<1>1. TypeOK
  <2>1. Cardinality({}) = 0 /\ ReadQueueSize >= 0 /\ WriteQueueSize >= 0
    BY FS_EmptySet, SizesAssumption
  <2>2. commandQueues \in [Queues -> Seq(Transactions \cup {RowCommand})]
    BY DEF Init
  <2>3. m_draining \in BOOLEAN /\ force_drain \in BOOLEAN
    BY DEF Init
  <2>4. Cardinality(readQueue) <= ReadQueueSize /\ Cardinality(writeQueue) <= WriteQueueSize
    BY <2>1 DEF Init
  <2> QED
    BY <2>2, <2>3, <2>4 DEF Init, TypeOK
<1>2. QueuesFinite
  BY FS_EmptySet DEF Init, QueuesFinite
<1> QED
  BY <1>1, <1>2 DEF Init, IndInv, IssuedHeads, TransactionsAwaited

\* IssueCommand preserves it: a queue that has room, and a wake-up for a transaction
\* whose command queue is free.
LEMMA IssueCommandInv ==
    ASSUME IndInv, NEW t \in Transactions, IssueCommand(t)
    PROVE  IndInv'
<1> USE DEF IndInv
<1>1. /\ IsFiniteSet(readQueue) /\ IsFiniteSet(writeQueue)
      /\ Cardinality(readQueue) \in Nat /\ Cardinality(writeQueue) \in Nat
  BY FS_CardinalityType DEF QueuesFinite
<1>2. /\ IsFiniteSet(readQueue \cup {t}) /\ IsFiniteSet(writeQueue \cup {t})
      /\ Cardinality(readQueue \cup {t}) <= Cardinality(readQueue) + 1
      /\ Cardinality(writeQueue \cup {t}) <= Cardinality(writeQueue) + 1
  <2>1. \A S : IsFiniteSet(S) /\ Cardinality(S) \in Nat
              => IsFiniteSet(S \cup {t}) /\ Cardinality(S \cup {t}) <= Cardinality(S) + 1
    BY FS_AddElement
  <2> QED
    BY <1>1, <2>1
<1>3. /\ readQueue' \in SUBSET Transactions /\ Cardinality(readQueue') <= ReadQueueSize
      /\ writeQueue' \in SUBSET Transactions /\ Cardinality(writeQueue') <= WriteQueueSize
  <2>1. ReadQueueSize \in Nat /\ WriteQueueSize \in Nat
    BY SizesAssumption
  <2>2. /\ readQueue \in SUBSET Transactions /\ Cardinality(readQueue) <= ReadQueueSize
        /\ writeQueue \in SUBSET Transactions /\ Cardinality(writeQueue) <= WriteQueueSize
    BY DEF TypeOK
  <2>3. Cardinality(readQueue \cup {t}) \in Nat /\ Cardinality(writeQueue \cup {t}) \in Nat
    BY <1>2, FS_CardinalityType
  <2>4. CASE t.type = "READ"
    <3>1. /\ readQueue' = readQueue \cup {t} /\ writeQueue' = writeQueue
          /\ Cardinality(readQueue) < ReadQueueSize
      BY <2>4 DEF IssueCommand, IsIssuable
    <3> QED
      BY <1>1, <1>2, <2>1, <2>2, <2>3, <3>1
  <2>5. CASE t.type = "WRITE"
    <3>1. /\ writeQueue' = writeQueue \cup {t} /\ readQueue' = readQueue
          /\ Cardinality(writeQueue) < WriteQueueSize
      BY <2>5 DEF IssueCommand, IsIssuable
    <3> QED
      BY <1>1, <1>2, <2>1, <2>2, <2>3, <3>1
  <2> QED
    BY <2>4, <2>5 DEF Transactions
<1>4. QueuesFinite'
  BY <1>1, <1>2 DEF IssueCommand, QueuesFinite
<1>5. TypeOK'
  BY <1>3 DEF IssueCommand, TypeOK, drainVars, commandVars
<1>6. IssuedHeads'
  BY DEF IssueCommand, IssuedHeads, commandVars
<1>7. TransactionsAwaited'
  <2>1. readQueue' \cup writeQueue' = (readQueue \cup writeQueue) \cup {t}
    BY DEF IssueCommand
  <2>2. /\ commandQueues' = commandQueues /\ issued' = issued /\ cycleNext' = cycleNext
        /\ cycleNow \in Nat /\ cycleNext \in Nat /\ cycleNow' >= cycleNow
        /\ EffectivelyEmpty(commandQueues, issued, t.queue) => cycleNow' > 0
    BY DEF IssueCommand, commandVars, TypeOK
  <2> QED
    BY <2>1, <2>2 DEF TransactionsAwaited, TypeOK, IssueCommand
<1> QED
  BY <1>4, <1>5, <1>6, <1>7

\* Drain and RequestComplete change nothing that it speaks of but flags and requests
\* in flight.
LEMMA FlagsInv ==
    ASSUME IndInv, Drain \/ \E t \in Transactions : RequestComplete(t)
    PROVE  IndInv'
<1>1. /\ UNCHANGED <<readQueue, writeQueue, arrived, commandQueues, issued, lastIssueCycle,
                     cleanup, cycleNow, cycleNext, m_draining>>
      /\ force_drain' \in BOOLEAN /\ inFlight' \in SUBSET Transactions
  BY DEF IndInv, TypeOK, Drain, RequestComplete, transactionVars, drainVars, commandVars
<1> QED
  BY <1>1 DEF IndInv, TypeOK, QueuesFinite, IssuedHeads, TransactionsAwaited, EffectivelyEmpty

\* CleanupCallback preserves it: a queue that it empties counted as empty before.
LEMMA CleanupCallbackInv ==
    ASSUME IndInv, CleanupCallback
    PROVE  IndInv'
<1> USE DEF IndInv
<1>1. UNCHANGED <<readQueue, writeQueue, arrived, m_draining, force_drain, lastIssueCycle,
                  inFlight, cycleNow, cycleNext>>
  BY DEF CleanupCallback, transactionVars, drainVars
<1>2. ASSUME NEW q \in Queues
      PROVE  /\ commandQueues'[q] \in Seq(Elements)
             /\ commandQueues'[q] = <<>> => EffectivelyEmpty(commandQueues, issued, q)
  <2>1. commandQueues[q] \in Seq(Elements)
    BY DEF TypeOK, Elements
  <2>2. CASE q \in issued
    <3>1. commandQueues[q] # <<>> /\ commandQueues'[q] = Tail(commandQueues[q])
      BY <2>2 DEF IssuedHeads, CleanupCallback
    <3>2. Tail(commandQueues[q]) \in Seq(Elements)
          /\ Len(Tail(commandQueues[q])) = Len(commandQueues[q]) - 1
      BY <2>1, <3>1, HeadTailProperties
    <3>3. commandQueues'[q] = <<>> => Len(commandQueues[q]) = 1
      <4>1. Len(commandQueues[q]) \in Nat /\ Len(<<>>) = 0
        BY <2>1
      <4>2. commandQueues'[q] = <<>> => Len(commandQueues[q]) - 1 = 0
        BY <3>1, <3>2, <4>1
      <4> QED
        BY <4>1, <4>2
    <3> QED
      BY <2>2, <3>1, <3>2, <3>3 DEF EffectivelyEmpty
  <2>3. CASE q \notin issued
    BY <2>1, <2>3 DEF CleanupCallback, EffectivelyEmpty
  <2> QED
    BY <2>2, <2>3
<1>3. /\ issued' = {} /\ cleanup' = "none"
      /\ commandQueues' \in [Queues -> Seq(Elements)]
  <2>1. commandQueues' = [q \in Queues |-> commandQueues'[q]]
    BY DEF CleanupCallback
  <2> QED
    BY <1>2, <2>1 DEF CleanupCallback
<1>4. TypeOK' /\ QueuesFinite' /\ IssuedHeads'
  BY <1>1, <1>3 DEF TypeOK, QueuesFinite, IssuedHeads, Elements
<1>5. TransactionsAwaited'
  <2>1. \A t \in readQueue \cup writeQueue : t.queue \in Queues
    BY DEF TypeOK, Transactions
  <2> QED
    BY <1>1, <1>2, <1>3, <2>1 DEF TransactionsAwaited, EffectivelyEmpty
<1> QED
  BY <1>4, <1>5

\* Cycle preserves it: what it leaves waiting is what Recheck looks for.
LEMMA CycleInv ==
    ASSUME IndInv, Cycle
    PROVE  IndInv'
<1> USE DEF IndInv
<1>1. PICK next \in (IF {t \in Source(Draining) : Schedulable(t)} = {} THEN {{}}
                     ELSE {{t} : t \in {u \in Source(Draining) : Schedulable(u)}}),
           n \in 0 .. MaxRowCommands :
        LET cq == [q \in Queues |-> IF \E t \in next : t.queue = q
                        THEN CommandsFor(CHOOSE t \in next : TRUE, n) ELSE commandQueues[q]]
        IN  \E served \in Served(cq) :
                /\ readQueue' = readQueue \ next
                /\ writeQueue' = writeQueue \ next
                /\ CycleCommandQueues(cq, served)
                /\ cycleNext' = Recheck(cq, issued', readQueue', writeQueue',
                        cycleNext + Wakeups(cq, readQueue', writeQueue', served))
  BY DEF Cycle
<1> DEFINE cq == [q \in Queues |-> IF \E t \in next : t.queue = q
                        THEN CommandsFor(CHOOSE t \in next : TRUE, n) ELSE commandQueues[q]]
<1>2. PICK served \in Served(cq) :
        /\ readQueue' = readQueue \ next
        /\ writeQueue' = writeQueue \ next
        /\ CycleCommandQueues(cq, served)
        /\ cycleNext' = Recheck(cq, issued', readQueue', writeQueue',
                cycleNext + Wakeups(cq, readQueue', writeQueue', served))
  BY <1>1
<1>3. next = {} \/ \E t \in Transactions : next = {t}
  <2>1. \A t \in Source(Draining) : t \in Transactions
    BY DEF Source, TypeOK
  <2> QED
    BY <1>1, <2>1
<1>4. \A q \in Queues : cq[q] \in Seq(Elements) /\ (q \in issued => cq[q] # <<>>)
  <2> SUFFICES ASSUME NEW q \in Queues
               PROVE  cq[q] \in Seq(Elements) /\ (q \in issued => cq[q] # <<>>)
    OBVIOUS
  <2>1. CASE \E t \in next : t.queue = q
    <3>1. (CHOOSE t \in next : TRUE) \in Transactions
      BY <1>3, <2>1
    <3>2. cq[q] = CommandsFor(CHOOSE t \in next : TRUE, n)
      BY <2>1
    <3> QED
      BY <3>1, <3>2, CommandsForFacts
  <2>2. CASE ~\E t \in next : t.queue = q
    BY <2>2 DEF TypeOK, IssuedHeads, Elements
  <2> QED
    BY <2>1, <2>2
<1>5. cq \in [Queues -> Seq(Elements)] /\ \A q \in issued : cq[q] # <<>>
  BY <1>4 DEF TypeOK
<1> HIDE DEF cq
<1>6. /\ commandQueues' \in [Queues -> Seq(Elements)]
      /\ issued' \in SUBSET Queues
      /\ inFlight' \in SUBSET Transactions
      /\ lastIssueCycle' \in {"now", "past"}
      /\ cleanup' \in {"none", "next", "due"}
      /\ IssuedHeads'
  BY <1>2, <1>5, CycleCommandQueuesFacts
<1>7. /\ IsFiniteSet(readQueue') /\ Cardinality(readQueue') <= ReadQueueSize
      /\ IsFiniteSet(writeQueue') /\ Cardinality(writeQueue') <= WriteQueueSize
  <2>1. readQueue' \in SUBSET readQueue /\ writeQueue' \in SUBSET writeQueue
    BY <1>2
  <2>2. /\ IsFiniteSet(readQueue') /\ Cardinality(readQueue') <= Cardinality(readQueue)
        /\ IsFiniteSet(writeQueue') /\ Cardinality(writeQueue') <= Cardinality(writeQueue)
    BY <2>1, FS_Subset DEF QueuesFinite
  <2>3. /\ Cardinality(readQueue') \in Nat /\ Cardinality(readQueue) \in Nat
        /\ Cardinality(writeQueue') \in Nat /\ Cardinality(writeQueue) \in Nat
    BY <2>2, FS_CardinalityType DEF QueuesFinite
  <2> QED
    BY <2>2, <2>3, SizesAssumption DEF TypeOK
<1> DEFINE m == cycleNext + Wakeups(cq, readQueue', writeQueue', served)
<1>8. m \in Nat
  BY WakeupsFacts DEF TypeOK
<1>9. commandQueues' = cq
  BY <1>2 DEF CycleCommandQueues
<1>10. /\ cycleNext' \in Nat
       /\ (\E q \in Queues : EffectivelyEmpty(cq, issued', q)
                             /\ TransactionAvailable(readQueue', writeQueue', q))
            => cycleNext' > 0
  <2> HIDE DEF m
  <2>1. cycleNext' = Recheck(cq, issued', readQueue', writeQueue', m)
    BY <1>2 DEF m
  <2> QED
    BY <1>8, <2>1 DEF Recheck
<1>11. cycleNow' \in Nat
  BY DEF Cycle, TypeOK
<1>12. m_draining' \in BOOLEAN
  <2>1. /\ (Cardinality(writeQueue) > LowWaterMark) \in BOOLEAN
        /\ (Cardinality(writeQueue) >= HighWaterMark) \in BOOLEAN
    OBVIOUS
  <2>2. m_draining \in BOOLEAN
    BY DEF TypeOK
  <2>3. Draining \in BOOLEAN
    BY <2>1, <2>2, Zenon DEF Draining
  <2> QED
    BY <2>3 DEF Cycle
<1>13. TypeOK'
  <2>1. /\ readQueue' \in SUBSET Transactions /\ writeQueue' \in SUBSET Transactions
        /\ arrived' = arrived /\ force_drain' = force_drain
    BY <1>2 DEF TypeOK, Cycle
  <2> QED
    BY <1>6, <1>7, <1>10, <1>11, <1>12, <2>1 DEF TypeOK, Elements
<1>14. QueuesFinite'
  BY <1>7 DEF QueuesFinite
<1>15. TransactionsAwaited'
  <2>1. cycleNext' > 0 => cycleNow' + cycleNext' > 0
    <3>1. \A i, j \in Nat : i > 0 => j + i > 0
      OBVIOUS
    <3>2. cycleNow' \in Nat /\ cycleNext' \in Nat
      BY <1>10, <1>11
    <3> QED
      BY <3>1, <3>2, Zenon
  <2> SUFFICES ASSUME NEW t \in readQueue' \cup writeQueue',
                      EffectivelyEmpty(commandQueues', issued', t.queue)
               PROVE  cycleNext' > 0
    BY <2>1 DEF TransactionsAwaited
  <2>2. t.queue \in Queues
    BY <1>13 DEF TypeOK, Transactions
  <2>3. TransactionAvailable(readQueue', writeQueue', t.queue)
    BY DEF TransactionAvailable
  <2> QED
    BY <1>9, <1>10, <2>2, <2>3
<1> QED
  BY <1>6, <1>13, <1>14, <1>15

\* CommandQueueCallback preserves it: the queue that it serves may become empty, and
\* then the scheduler is woken.
LEMMA CommandQueueCallbackInv ==
    ASSUME IndInv, NEW q \in Queues, CommandQueueCallback(q)
    PROVE  IndInv'
<1> USE DEF IndInv
<1>1. /\ {q} \in Served(commandQueues)
      /\ CycleCommandQueues(commandQueues, {q})
      /\ cycleNext' = cycleNext + Wakeups(commandQueues, readQueue, writeQueue, {q})
      /\ UNCHANGED <<readQueue, writeQueue, arrived, m_draining, force_drain, cycleNow>>
  BY DEF CommandQueueCallback, transactionVars, drainVars
<1>2. commandQueues \in [Queues -> Seq(Elements)]
  BY DEF TypeOK, Elements
<1>3. \A p \in issued : commandQueues[p] # <<>>
  BY DEF IssuedHeads
<1>4. /\ commandQueues' \in [Queues -> Seq(Elements)]
      /\ issued' \in SUBSET Queues
      /\ inFlight' \in SUBSET Transactions
      /\ lastIssueCycle' \in {"now", "past"}
      /\ cleanup' \in {"none", "next", "due"}
      /\ IssuedHeads'
  BY <1>1, <1>2, <1>3, CycleCommandQueuesFacts
<1>5. /\ Wakeups(commandQueues, readQueue, writeQueue, {q}) \in Nat
      /\ Len(commandQueues[q]) = 1 /\ TransactionAvailable(readQueue, writeQueue, q)
            => Wakeups(commandQueues, readQueue, writeQueue, {q}) > 0
  BY <1>1, WakeupsFacts
<1>6. cycleNext \in Nat /\ cycleNow \in Nat /\ cycleNext' \in Nat
  BY <1>1, <1>5 DEF TypeOK
<1>7. TypeOK' /\ QueuesFinite'
  BY <1>1, <1>4, <1>6 DEF TypeOK, QueuesFinite, Elements
<1>8. TransactionsAwaited'
  <2> SUFFICES ASSUME NEW t \in readQueue \cup writeQueue,
                      EffectivelyEmpty(commandQueues', issued', t.queue)
               PROVE  cycleNow + cycleNext' > 0
    BY <1>1 DEF TransactionsAwaited
  <2>1. commandQueues' = commandQueues /\ issued' = issued \cup {q}
    BY <1>1 DEF CycleCommandQueues
  <2>2. CASE EffectivelyEmpty(commandQueues, issued, t.queue)
    <3>1. cycleNow + cycleNext > 0
      BY <2>2 DEF TransactionsAwaited
    <3> QED
      BY <1>1, <1>5, <1>6, <3>1
  <2>3. CASE ~EffectivelyEmpty(commandQueues, issued, t.queue)
    <3>1. t.queue = q /\ Len(commandQueues[q]) = 1
      BY <2>1, <2>3 DEF EffectivelyEmpty
    <3>2. TransactionAvailable(readQueue, writeQueue, q)
      BY <3>1 DEF TransactionAvailable
    <3> QED
      BY <1>1, <1>5, <1>6, <3>1, <3>2
  <2> QED
    BY <2>2, <2>3
<1> QED
  BY <1>4, <1>7, <1>8

\* Tick preserves it: the EventCycles of the next cycle become those of this one.
LEMMA TickInv ==
    ASSUME IndInv, Tick
    PROVE  IndInv'
<1>1. /\ UNCHANGED <<readQueue, writeQueue, m_draining, force_drain, commandQueues, issued,
                     inFlight>>
      /\ arrived' = {} /\ lastIssueCycle' = "past" /\ cleanup' \in {"due", "none"}
      /\ cycleNow = 0 /\ cycleNow' = cycleNext /\ cycleNext' = 0
      /\ cycleNext \in Nat
  BY DEF IndInv, TypeOK, Tick, drainVars
<1>2. TypeOK' /\ QueuesFinite' /\ IssuedHeads'
  BY <1>1 DEF IndInv, TypeOK, QueuesFinite, IssuedHeads
<1>3. TransactionsAwaited'
  BY <1>1 DEF IndInv, TransactionsAwaited, EffectivelyEmpty
<1> QED
  BY <1>2, <1>3 DEF IndInv

\* A step that changes nothing preserves it.
LEMMA StutterInv ==
    ASSUME IndInv, UNCHANGED vars
    PROVE  IndInv'
  BY DEF IndInv, TypeOK, QueuesFinite, IssuedHeads, TransactionsAwaited, EffectivelyEmpty,
         vars, transactionVars, drainVars, commandVars

-----------------------------------------------------------------------------
\* Every step preserves the invariant.
LEMMA NextInv == IndInv /\ [Next]_vars => IndInv'
<1> SUFFICES ASSUME IndInv, [Next]_vars PROVE IndInv'
  OBVIOUS
<1>1. CASE \E t \in Transactions : IssueCommand(t)
  BY <1>1, IssueCommandInv
<1>2. CASE Drain \/ \E t \in Transactions : RequestComplete(t)
  BY <1>2, FlagsInv
<1>3. CASE \E q \in Queues : CommandQueueCallback(q)
  BY <1>3, CommandQueueCallbackInv
<1>4. CASE CleanupCallback
  BY <1>4, CleanupCallbackInv
<1>5. CASE Cycle
  BY <1>5, CycleInv
<1>6. CASE Tick
  BY <1>6, TickInv
<1>7. CASE UNCHANGED vars
  BY <1>7, StutterInv
<1> QED
  BY <1>1, <1>2, <1>3, <1>4, <1>5, <1>6, <1>7 DEF Next, Time

\* The inductive invariant holds in every reachable state, whatever the sizes of the
\* queues and the water marks are.
THEOREM SchedulerConsistent == Spec => []IndInv
  BY InitInv, NextInv, PTL DEF Spec

\* IsIssuable keeps both transaction queues within ReadQueueSize and WriteQueueSize.
THEOREM QueuesBounded == Spec => []TypeOK
<1>1. IndInv => TypeOK
  BY DEF IndInv
<1> QED
  BY <1>1, SchedulerConsistent, PTL

\* With a write queue that is looked at only in drains, too, Enqueue, CycleCommandQueues
\* and Cycle never leave a transaction whose command queue is free without an EventCycle.
THEOREM WaitersAwaited == Spec => []TransactionsAwaited
<1>1. IndInv => TransactionsAwaited
  BY DEF IndInv
<1> QED
  BY <1>1, SchedulerConsistent, PTL

-----------------------------------------------------------------------------
(* Every transaction is issued exactly once.                                *)

CommandLists == [Queues -> Seq(Elements)]

\* e is a transaction whose command waits in the lists cq, of which those in `flagged' have
\* an issued head; and each is at one place, none of them is in `out'.
LoadedIn(cq, flagged, e) ==
    /\ e # RowCommand
    /\ \E q \in Queues : \E k \in DOMAIN cq[q] : ~(k = 1 /\ q \in flagged) /\ cq[q][k] = e
Placed(cq, flagged, out) ==
    \A q \in Queues : \A k \in DOMAIN cq[q] :
        ~(k = 1 /\ q \in flagged) /\ cq[q][k] # RowCommand =>
            /\ cq[q][k] \notin out
            /\ \A p \in Queues : \A l \in DOMAIN cq[p] :
                   ~(l = 1 /\ p \in flagged) /\ cq[p][l] = cq[q][k] => p = q /\ l = k

LEMMA LoadedSet ==
    ASSUME NEW cq, NEW flagged, NEW e
    PROVE  e \in (UNION {{cq[q][k] : k \in {i \in DOMAIN cq[q] : ~(i = 1 /\ q \in flagged)}} :
                             q \in Queues}) \ {RowCommand}
           <=> LoadedIn(cq, flagged, e)
<1> DEFINE K(q) == {i \in DOMAIN cq[q] : ~(i = 1 /\ q \in flagged)}
           U(q) == {cq[q][k] : k \in K(q)}
<1>1. \A q : e \in U(q) <=> \E k \in K(q) : cq[q][k] = e
  OBVIOUS
<1>2. e \in UNION {U(q) : q \in Queues} <=> \E q \in Queues : e \in U(q)
  <2> HIDE DEF U
  <2> QED
    OBVIOUS
<1>3. LoadedIn(cq, flagged, e) <=> e # RowCommand /\ \E q \in Queues : \E k \in K(q) : cq[q][k] = e
  BY DEF LoadedIn
<1>4. e \in (UNION {U(q) : q \in Queues}) \ {RowCommand}
      <=> e # RowCommand /\ \E q \in Queues : e \in U(q)
  <2> HIDE DEF U
  <2> QED
    BY <1>2
<1> HIDE DEF K
<1>5. e \in (UNION {U(q) : q \in Queues}) \ {RowCommand} <=> LoadedIn(cq, flagged, e)
  <2> HIDE DEF U
  <2> QED
    BY <1>1, <1>3, <1>4
<1> QED
  BY <1>5, Zenon DEF U, K

\* The parts of the invariant and of the property, of this state and of the next.
LEMMA OnceParts ==
    /\ \A e : e \in Waiting <=>
           \/ e \in readQueue \cup writeQueue
           \/ LoadedIn(commandQueues, issued, e)
    /\ InOnePlace <=> /\ readQueue \cap writeQueue = {}
                      /\ (readQueue \cup writeQueue) \cap inFlight = {}
                      /\ Placed(commandQueues, issued, readQueue \cup writeQueue \cup inFlight)
<1>1. \A e : e \in Waiting <=>
          \/ e \in readQueue \cup writeQueue
          \/ LoadedIn(commandQueues, issued, e)
  <2>1. Waiting = readQueue \cup writeQueue
                 \cup ((UNION {{commandQueues[q][k] :
                                k \in {i \in DOMAIN commandQueues[q] : ~(i = 1 /\ q \in issued)}} :
                              q \in Queues}) \ {RowCommand})
    BY DEF Waiting, Unissued
  <2> QED
    BY <2>1, LoadedSet
<1>2. InOnePlace <=>
          /\ readQueue \cap writeQueue = {}
          /\ (readQueue \cup writeQueue) \cap inFlight = {}
          /\ Placed(commandQueues, issued, readQueue \cup writeQueue \cup inFlight)
  BY DEF InOnePlace, Placed, Unissued
<1> QED
  BY <1>1, <1>2

LEMMA OncePartsPrimed ==
    /\ \A e : e \in Waiting' <=>
           \/ e \in readQueue' \cup writeQueue'
           \/ LoadedIn(commandQueues', issued', e)
    /\ InOnePlace' <=>
           /\ readQueue' \cap writeQueue' = {}
           /\ (readQueue' \cup writeQueue') \cap inFlight' = {}
           /\ Placed(commandQueues', issued', readQueue' \cup writeQueue' \cup inFlight')
<1>1. \A e : e \in Waiting' <=>
          \/ e \in readQueue' \cup writeQueue'
          \/ LoadedIn(commandQueues', issued', e)
  <2>1. Waiting' = readQueue' \cup writeQueue'
                 \cup ((UNION {{commandQueues'[q][k] :
                                k \in {i \in DOMAIN commandQueues'[q] : ~(i = 1 /\ q \in issued')}} :
                              q \in Queues}) \ {RowCommand})
    BY DEF Waiting, Unissued
  <2> QED
    BY <2>1, LoadedSet
<1>2. InOnePlace' <=>
          /\ readQueue' \cap writeQueue' = {}
          /\ (readQueue' \cup writeQueue') \cap inFlight' = {}
          /\ Placed(commandQueues', issued', readQueue' \cup writeQueue' \cup inFlight')
  BY DEF InOnePlace, Placed, Unissued
<1> QED
  BY <1>1, <1>2

\* What is placed is not in a smaller set either.
LEMMA PlacedLess ==
    ASSUME NEW cq, NEW flagged, NEW out, Placed(cq, flagged, out), NEW less, less \subseteq out
    PROVE  Placed(cq, flagged, less)
  BY DEF Placed

\* The head of queue q is issued.
LEMMA HeadIssued ==
    ASSUME NEW cq \in CommandLists, NEW q \in Queues, cq[q] # <<>>, NEW out, Placed(cq, {}, out),
           NEW e, e = Head(cq[q])
    PROVE  /\ \A f : LoadedIn(cq, {q}, f) <=> LoadedIn(cq, {}, f) /\ f # e
           /\ e # RowCommand => LoadedIn(cq, {}, e)
           /\ Placed(cq, {q}, out \cup ({e} \ {RowCommand}))
<1>1. 1 \in DOMAIN cq[q] /\ cq[q][1] = e
  <2>1. cq[q] \in Seq(Elements)
    BY DEF CommandLists
  <2> QED
    BY <2>1
<1>2. ASSUME NEW f, LoadedIn(cq, {q}, f) PROVE LoadedIn(cq, {}, f) /\ f # e
  <2>1. PICK p \in Queues : \E k \in DOMAIN cq[p] : ~(k = 1 /\ p \in {q}) /\ cq[p][k] = f
    BY <1>2 DEF LoadedIn
  <2>2. PICK k \in DOMAIN cq[p] : ~(k = 1 /\ p = q) /\ cq[p][k] = f
    BY <2>1
  <2>3. f # RowCommand
    BY <1>2 DEF LoadedIn
  <2> QED
    BY <1>1, <2>2, <2>3 DEF LoadedIn, Placed
<1>3. ASSUME NEW f, LoadedIn(cq, {}, f), f # e PROVE LoadedIn(cq, {q}, f)
  BY <1>1, <1>3 DEF LoadedIn
<1>4. e # RowCommand => LoadedIn(cq, {}, e)
  BY <1>1 DEF LoadedIn
<1>5. Placed(cq, {q}, out \cup ({e} \ {RowCommand}))
  BY <1>1 DEF Placed
<1> QED
  BY <1>2, <1>3, <1>4, <1>5

\* The commands of t: only the last is the transaction's own.
LEMMA CommandsForPlaces ==
    ASSUME NEW t \in Transactions, NEW n \in 0 .. MaxRowCommands
    PROVE  \E last \in DOMAIN CommandsFor(t, n) :
               /\ CommandsFor(t, n)[last] = t
               /\ \A k \in DOMAIN CommandsFor(t, n) : k # last => CommandsFor(t, n)[k] = RowCommand
<1> DEFINE a == [i \in 1 .. n |-> RowCommand]
           x == CommandsFor(t, n)
<1>1. n \in Nat
  BY SizesAssumption
<1>2. a \in Seq(Elements) /\ Len(a) = n /\ \A i \in 1 .. n : a[i] = RowCommand
  BY <1>1 DEF Elements
<1>3. x = Append(a, t)
  <2>1. x = a \o <<t>>
    BY DEF CommandsFor
  <2>2. t \in Elements
    BY DEF Elements
  <2> HIDE DEF a, x
  <2> QED
    BY <1>2, <2>1, <2>2
<1>4. t \in Elements
  BY DEF Elements
<1> HIDE DEF a, x
<1>5. x \in Seq(Elements) /\ Len(x) = n + 1 /\ x[n + 1] = t /\ \A i \in 1 .. n : x[i] = a[i]
  BY <1>1, <1>2, <1>3, <1>4, AppendProperties
<1>6. DOMAIN x = 1 .. n + 1
  BY <1>5, LenProperties
<1>7. n + 1 \in DOMAIN x /\ \A k \in DOMAIN x : k # n + 1 => k \in 1 .. n
  BY <1>1, <1>6
<1>8. \A k \in DOMAIN x : k # n + 1 => x[k] = RowCommand
  BY <1>2, <1>5, <1>7
<1> QED
  BY <1>5, <1>7, <1>8 DEF x

\* N is cq with the commands of t in queue o.
Loads(N, cq, o, t) ==
    /\ \E last \in DOMAIN N[o] :
           N[o][last] = t /\ \A k \in DOMAIN N[o] : k # last => N[o][k] = RowCommand
    /\ \A p \in Queues \ {o} : N[p] = cq[p]

\* The commands of t come into the empty queue o.
LEMMA Scheduled ==
    ASSUME NEW cq, NEW flagged, NEW out, Placed(cq, flagged, out),
           NEW t \in out, t # RowCommand, ~LoadedIn(cq, flagged, t),
           NEW o \in Queues, o \notin flagged, cq[o] = <<>>, NEW N, Loads(N, cq, o, t)
    PROVE  /\ \A f : LoadedIn(N, flagged, f) <=> LoadedIn(cq, flagged, f) \/ f = t
           /\ Placed(N, flagged, out \ {t})
<1> DEFINE x == N[o]
<1> PICK last \in DOMAIN x : x[last] = t /\ \A k \in DOMAIN x : k # last => x[k] = RowCommand
  BY DEF Loads
<1> x = N[o] /\ \A p \in Queues \ {o} : N[p] = cq[p]
  BY DEF Loads
<1> HIDE DEF x
<1>1. DOMAIN cq[o] = {}
  OBVIOUS
<1>2. ASSUME NEW f, LoadedIn(N, flagged, f) PROVE LoadedIn(cq, flagged, f) \/ f = t
  BY <1>2 DEF LoadedIn
<1>3. ASSUME NEW f, LoadedIn(cq, flagged, f) PROVE LoadedIn(N, flagged, f)
  BY <1>1, <1>3 DEF LoadedIn
<1>4. LoadedIn(N, flagged, t)
  BY DEF LoadedIn
<1>5. ASSUME NEW q \in Queues, NEW k \in DOMAIN N[q], ~(k = 1 /\ q \in flagged),
             N[q][k] # RowCommand
      PROVE  /\ N[q][k] \notin out \ {t}
             /\ \A p \in Queues : \A l \in DOMAIN N[p] :
                    ~(l = 1 /\ p \in flagged) /\ N[p][l] = N[q][k] => p = q /\ l = k
  <2>1. CASE q = o
    <3>1. k = last /\ N[q][k] = t
      BY <1>5, <2>1
    <3>2. ASSUME NEW p \in Queues \ {o}, NEW l \in DOMAIN N[p], ~(l = 1 /\ p \in flagged),
                 N[p][l] = t
          PROVE  FALSE
      BY <3>2 DEF LoadedIn
    <3>3. \A l \in DOMAIN N[o] : N[o][l] = t => l = last
      OBVIOUS
    <3> QED
      BY <2>1, <3>1, <3>2, <3>3
  <2>2. CASE q # o
    <3>1. N[q] = cq[q] /\ cq[q][k] \notin out
      BY <1>5, <2>2 DEF Placed
    <3>2. ASSUME NEW p \in Queues, NEW l \in DOMAIN N[p], ~(l = 1 /\ p \in flagged),
                 N[p][l] = N[q][k]
          PROVE  p = q /\ l = k
      <4>1. p # o
        <5> SUFFICES ASSUME p = o PROVE FALSE
          OBVIOUS
        <5>1. N[q][k] = t
          BY <1>5, <3>2
        <5> QED
          BY <3>1, <5>1
      <4>2. N[p] = cq[p]
        BY <4>1
      <4> QED
        BY <1>5, <3>1, <3>2, <4>2 DEF Placed
    <3> QED
      BY <3>1, <3>2
  <2> QED
    BY <2>1, <2>2
<1> QED
  BY <1>2, <1>3, <1>4, <1>5 DEF Placed

\* Where no head is issued.
PlacedAll(N, out) ==
    \A q \in Queues : \A k \in DOMAIN N[q] : N[q][k] # RowCommand =>
        /\ N[q][k] \notin out
        /\ \A p \in Queues : \A l \in DOMAIN N[p] : N[p][l] = N[q][k] => p = q /\ l = k
LEMMA NoneIssued ==
    ASSUME NEW N, NEW out, PlacedAll(N, out)
    PROVE  Placed(N, {}, out)
  BY DEF Placed, PlacedAll

\* CleanupCallback moves the commands up by one place, where the head was issued.
LEMMA CleanedUp ==
    ASSUME NEW cq \in CommandLists, NEW flagged, \A q \in flagged : cq[q] # <<>>,
           NEW N, N = [q \in Queues |-> IF q \in flagged THEN Tail(cq[q]) ELSE cq[q]]
    PROVE  /\ \A f : LoadedIn(N, {}, f) <=> LoadedIn(cq, flagged, f)
           /\ \A out : Placed(cq, flagged, out) => Placed(N, {}, out)
<1> DEFINE place(q, k) == IF q \in flagged THEN k + 1 ELSE k
<1>1. ASSUME NEW q \in Queues
      PROVE  /\ \A k \in DOMAIN N[q] : /\ place(q, k) \in DOMAIN cq[q]
                                       /\ N[q][k] = cq[q][place(q, k)]
                                       /\ ~(place(q, k) = 1 /\ q \in flagged)
             /\ \A k, l \in DOMAIN N[q] : place(q, k) = place(q, l) => k = l
             /\ \A k \in DOMAIN cq[q] : ~(k = 1 /\ q \in flagged) =>
                    \E l \in DOMAIN N[q] : N[q][l] = cq[q][k]
  <2> DEFINE list == cq[q]
             n == Len(list)
  <2>1. list \in Seq(Elements)
    BY DEF CommandLists
  <2>2. CASE q \in flagged
    <3>1. list # <<>> /\ N[q] = Tail(list)
      BY <2>2
    <3> HIDE DEF list
    <3>2. n \in Nat /\ n # 0 /\ DOMAIN list = 1 .. n
      BY <2>1, <3>1, EmptySeq, LenProperties
    <3>3. /\ Tail(list) \in Seq(Elements) /\ Len(Tail(list)) = n - 1
          /\ \A k \in 1 .. n - 1 : Tail(list)[k] = list[k + 1]
      BY <2>1, <3>1, HeadTailProperties
    <3>4. DOMAIN N[q] = 1 .. n - 1 /\ \A k \in 1 .. n - 1 : N[q][k] = list[k + 1]
      BY <3>1, <3>3, LenProperties
    <3> HIDE DEF n
    <3>5. \A k \in DOMAIN N[q] : k \in Int /\ k + 1 \in DOMAIN list /\ k + 1 # 1 /\ N[q][k] = list[k + 1]
      BY <3>2, <3>4
    <3>6. ASSUME NEW k \in DOMAIN list, k # 1 PROVE \E l \in DOMAIN N[q] : N[q][l] = list[k]
      <4>1. k - 1 \in 1 .. n - 1 /\ k - 1 + 1 = k
        BY <3>2, <3>6
      <4> QED
        BY <3>4, <4>1
    <3>7. \A k \in DOMAIN N[q] : place(q, k) = k + 1
      BY <2>2
    <3> HIDE DEF place
    <3>8. \A k, l \in DOMAIN N[q] : place(q, k) = place(q, l) => k = l
      BY <3>5, <3>7
    <3> QED
      BY <2>2, <3>5, <3>6, <3>7, <3>8 DEF list
  <2>3. CASE q \notin flagged
    BY <2>3
  <2> QED
    BY <2>2, <2>3
<1> HIDE DEF place
<1>2. ASSUME NEW f, LoadedIn(N, {}, f) PROVE LoadedIn(cq, flagged, f)
  BY <1>1, <1>2 DEF LoadedIn
<1>3. ASSUME NEW f, LoadedIn(cq, flagged, f) PROVE LoadedIn(N, {}, f)
  <2>1. PICK q \in Queues : \E k \in DOMAIN cq[q] : ~(k = 1 /\ q \in flagged) /\ cq[q][k] = f
    BY <1>3 DEF LoadedIn
  <2>2. PICK k \in DOMAIN cq[q] : ~(k = 1 /\ q \in flagged) /\ cq[q][k] = f
    BY <2>1
  <2>3. PICK l \in DOMAIN N[q] : N[q][l] = f
    <3>1. \E l \in DOMAIN N[q] : N[q][l] = cq[q][k]
      BY <1>1, <2>2, Zenon
    <3> QED
      BY <2>2, <3>1, Zenon
  <2> QED
    BY <1>3, <2>3, Zenon DEF LoadedIn
<1>4. ASSUME NEW out, Placed(cq, flagged, out), NEW q \in Queues, NEW k \in DOMAIN N[q],
             N[q][k] # RowCommand
      PROVE  /\ N[q][k] \notin out
             /\ \A p \in Queues : \A l \in DOMAIN N[p] : N[p][l] = N[q][k] => p = q /\ l = k
  <2>1. /\ place(q, k) \in DOMAIN cq[q] /\ N[q][k] = cq[q][place(q, k)]
        /\ ~(place(q, k) = 1 /\ q \in flagged)
    BY <1>1
  <2>2. N[q][k] \notin out
    BY <1>4, <2>1 DEF Placed
  <2>3. ASSUME NEW p \in Queues, NEW l \in DOMAIN N[p], N[p][l] = N[q][k] PROVE p = q /\ l = k
    <3>1. /\ place(p, l) \in DOMAIN cq[p] /\ N[p][l] = cq[p][place(p, l)]
          /\ ~(place(p, l) = 1 /\ p \in flagged)
      BY <1>1
    <3> DEFINE i == place(q, k)
               j == place(p, l)
    <3>2. /\ i \in DOMAIN cq[q] /\ ~(i = 1 /\ q \in flagged) /\ cq[q][i] # RowCommand
          /\ j \in DOMAIN cq[p] /\ ~(j = 1 /\ p \in flagged) /\ cq[p][j] = cq[q][i]
      BY <1>4, <2>1, <2>3, <3>1, Zenon
    <3> HIDE DEF i, j
    <3>3. p = q /\ j = i
      BY <1>4, <3>2, Zenon DEF Placed
    <3> QED
      BY <1>1, <3>3 DEF i, j
  <2> QED
    BY <2>2, <2>3
<1>5. ASSUME NEW out, Placed(cq, flagged, out) PROVE Placed(N, {}, out)
  <2>1. PlacedAll(N, out)
    <3> SUFFICES ASSUME NEW q \in Queues, NEW k \in DOMAIN N[q], N[q][k] # RowCommand
                 PROVE  /\ N[q][k] \notin out
                        /\ \A p \in Queues : \A l \in DOMAIN N[p] :
                               N[p][l] = N[q][k] => p = q /\ l = k
      BY Zenon DEF PlacedAll
    <3> QED
      BY <1>4, <1>5, ZenonT(60)
  <2> QED
    BY <2>1, NoneIssued
<1> QED
  BY <1>2, <1>3, <1>5

\* CycleCommandQueues, with the lists cq: it issues a head that is not issued yet, or nothing.
LEMMA CycleCommandQueuesOnce ==
    ASSUME NEW cq \in CommandLists, NEW served \in Served(cq), CycleCommandQueues(cq, served),
           CleanupComes, cleanup # "due", NEW out, Placed(cq, issued, out)
    PROVE  /\ CleanupComes'
           /\ inFlight \subseteq inFlight'
           /\ Placed(cq, issued', out \cup (inFlight' \ inFlight))
           /\ \A f \in inFlight' \ inFlight : LoadedIn(cq, issued, f)
           /\ \A f : LoadedIn(cq, issued', f) => LoadedIn(cq, issued, f)
           /\ \A f : LoadedIn(cq, issued, f) => LoadedIn(cq, issued', f) \/ f \in inFlight'
<1>1. CASE served = {}
  <2>1. issued' = issued /\ inFlight' = inFlight /\ UNCHANGED <<lastIssueCycle, cleanup>>
    BY <1>1 DEF CycleCommandQueues
  <2>2. out \cup (inFlight' \ inFlight) = out
    BY <2>1
  <2> QED
    BY <2>1, <2>2 DEF CleanupComes
<1>2. CASE served # {}
  <2>1. PICK q \in Queues : served = {q} /\ cq[q] # <<>> /\ lastIssueCycle # "now"
    BY <1>2 DEF Served
  <2>2. issued = {}
    BY <2>1 DEF CleanupComes
  <2> DEFINE e == Head(cq[q])
  <2>3. /\ issued' = {q} /\ inFlight' = inFlight \cup ({e} \ {RowCommand})
        /\ lastIssueCycle' = "now" /\ cleanup' = "next"
    BY <2>1, <2>2 DEF CycleCommandQueues
  <2>4. e = Head(cq[q])
    OBVIOUS
  <2> HIDE DEF e
  <2>5. /\ \A f : LoadedIn(cq, {q}, f) <=> LoadedIn(cq, {}, f) /\ f # e
        /\ e # RowCommand => LoadedIn(cq, {}, e)
        /\ Placed(cq, {q}, out \cup ({e} \ {RowCommand}))
    BY <2>1, <2>2, <2>4, HeadIssued
  <2>6. Placed(cq, issued', out \cup (inFlight' \ inFlight))
    <3>1. out \cup (inFlight' \ inFlight) \subseteq out \cup ({e} \ {RowCommand})
      BY <2>3
    <3> QED
      BY <2>3, <2>5, <3>1, PlacedLess
  <2>7. \A f : LoadedIn(cq, {}, f) => f # RowCommand
    BY DEF LoadedIn
  <2> QED
    BY <2>2, <2>3, <2>5, <2>6, <2>7 DEF CleanupComes
<1> QED
  BY <1>1, <1>2

\* What a step does: the invariant is kept, and what leaves the scheduler goes to the device.
OnceStep == OnceInv' /\ Waiting \ Waiting' = inFlight' \ inFlight

\* Of the transactions waiting before and after, and in flight before and after.
LEMMA FromParts ==
    ASSUME InOnePlace', CleanupComes',
           \A f \in inFlight' \ inFlight : f \in Waiting,
           \A f \in Waiting : f \in Waiting' \/ f \in inFlight',
           \A f \in inFlight' : f \notin Waiting',
           \A f \in Waiting : f \notin inFlight
    PROVE  OnceStep
  BY DEF OnceStep, OnceInv

\* A step that leaves all of them alone, but for the transactions that the device completes.
LEMMA SameOnce ==
    ASSUME OnceInv, UNCHANGED <<readQueue, writeQueue, commandQueues, issued>>,
           inFlight' \subseteq inFlight,
           issued # {} => cleanup' = "due" \/ (cleanup' = "next" /\ lastIssueCycle' = "now")
    PROVE  OnceStep
<1>1. Waiting' = Waiting
  BY DEF Waiting, Unissued
<1>2. InOnePlace'
  BY DEF OnceInv, InOnePlace, Unissued
<1> QED
  BY <1>1, <1>2 DEF OnceStep, OnceInv, CleanupComes

\* A transaction accepted is new.
LEMMA IssueCommandOnce ==
    ASSUME OnceInv, IndInv, NEW t \in Transactions, IssueCommand(t)
    PROVE  OnceStep
<1> DEFINE out == readQueue \cup writeQueue \cup inFlight
<1>1. /\ UNCHANGED <<commandQueues, issued, lastIssueCycle, cleanup, inFlight>>
      /\ \/ readQueue' = readQueue \cup {t} /\ UNCHANGED writeQueue
         \/ writeQueue' = writeQueue \cup {t} /\ UNCHANGED readQueue
  BY DEF IssueCommand, commandVars
<1>2. t \notin Outstanding /\ t # RowCommand
  BY CommandAssumption DEF IssueCommand
<1>3. /\ t \notin out
      /\ \A q \in Queues : \A k \in DOMAIN commandQueues[q] : commandQueues[q][k] # t
  <2>1. \A q \in Queues : \A k \in DOMAIN commandQueues[q] : commandQueues[q][k] \in Loaded
    BY DEF Loaded
  <2> QED
    BY <1>2, <2>1 DEF Outstanding
<1>4. /\ readQueue \cap writeQueue = {} /\ (readQueue \cup writeQueue) \cap inFlight = {}
      /\ Placed(commandQueues, issued, out)
  BY OnceParts DEF OnceInv
<1>5. /\ readQueue' \cap writeQueue' = {} /\ (readQueue' \cup writeQueue') \cap inFlight' = {}
      /\ readQueue' \cup writeQueue' = readQueue \cup writeQueue \cup {t}
  BY <1>1, <1>3, <1>4
<1>6. Placed(commandQueues, issued, out \cup {t})
  <2> HIDE DEF out
  <2> QED
    BY <1>3, <1>4 DEF Placed
<1>7. readQueue' \cup writeQueue' \cup inFlight' = out \cup {t}
  BY <1>1, <1>5
<1>8. InOnePlace'
  BY <1>1, <1>5, <1>6, <1>7, OncePartsPrimed
<1>9. CleanupComes'
  BY <1>1 DEF OnceInv, CleanupComes
<1>10. \A f \in Waiting : f \in Waiting'
  BY <1>1, <1>5, OnceParts, OncePartsPrimed
<1> QED
  BY <1>1, <1>8, <1>9, <1>10 DEF OnceStep, OnceInv

\* CleanupCallback removes issued commands only.
LEMMA CleanupCallbackOnce ==
    ASSUME OnceInv, IndInv, CleanupCallback
    PROVE  OnceStep
<1> DEFINE out == readQueue \cup writeQueue \cup inFlight
           N == [q \in Queues |-> IF q \in issued THEN Tail(commandQueues[q]) ELSE commandQueues[q]]
<1>1. commandQueues' = N /\ issued' = {} /\ UNCHANGED <<readQueue, writeQueue, inFlight>>
  BY DEF CleanupCallback, transactionVars
<1>2. commandQueues \in CommandLists /\ \A q \in issued : commandQueues[q] # <<>>
  BY DEF IndInv, TypeOK, IssuedHeads, CommandLists, Elements
<1>3. /\ \A f : LoadedIn(N, {}, f) <=> LoadedIn(commandQueues, issued, f)
      /\ Placed(commandQueues, issued, out) => Placed(N, {}, out)
  BY <1>2, CleanedUp
<1> HIDE DEF N
<1>4. /\ readQueue \cap writeQueue = {} /\ (readQueue \cup writeQueue) \cap inFlight = {}
      /\ Placed(commandQueues, issued, out)
  BY OnceParts DEF OnceInv
<1>5. InOnePlace'
  BY <1>1, <1>3, <1>4, OncePartsPrimed
<1>6. \A f : f \in Waiting <=> f \in Waiting'
  BY <1>1, <1>3, OnceParts, OncePartsPrimed
<1>7. CleanupComes'
  BY <1>1 DEF CleanupComes
<1> QED
  BY <1>1, <1>5, <1>6, <1>7 DEF OnceStep, OnceInv

\* CycleCommandQueues, once the transactions of `next' have left their queue for the lists cq.
LEMMA IssueOnce ==
    ASSUME OnceInv, NEW cq \in CommandLists, NEW next,
           Placed(cq, issued, (readQueue \cup writeQueue \cup inFlight) \ next),
           \A f : LoadedIn(cq, issued, f) <=> LoadedIn(commandQueues, issued, f) \/ f \in next,
           next \subseteq readQueue \cup writeQueue,
           readQueue' = readQueue \ next, writeQueue' = writeQueue \ next,
           NEW served \in Served(cq), CycleCommandQueues(cq, served), cleanup # "due"
    PROVE  OnceStep
<1> DEFINE waits == readQueue' \cup writeQueue'
           out == (readQueue \cup writeQueue \cup inFlight) \ next
<1>1. commandQueues' = cq
  BY DEF CycleCommandQueues
<1>2. /\ readQueue \cap writeQueue = {} /\ (readQueue \cup writeQueue) \cap inFlight = {}
      /\ CleanupComes /\ Placed(cq, issued, out)
  BY OnceParts DEF OnceInv
<1>3. out = waits \cup inFlight /\ waits \cap inFlight = {} /\ readQueue' \cap writeQueue' = {}
  BY <1>2
<1>4. readQueue \cup writeQueue = waits \cup next
  OBVIOUS
<1> HIDE DEF out
<1>5. /\ CleanupComes'
      /\ inFlight \subseteq inFlight'
      /\ Placed(cq, issued', out \cup (inFlight' \ inFlight))
      /\ \A f \in inFlight' \ inFlight : LoadedIn(cq, issued, f)
      /\ \A f : LoadedIn(cq, issued, f) => LoadedIn(cq, issued', f) \/ f \in inFlight'
  BY <1>2, CycleCommandQueuesOnce
<1>6. \A f : LoadedIn(cq, issued, f) => f \notin out
  BY <1>2 DEF LoadedIn, Placed
<1>7. \A f : LoadedIn(cq, issued', f) => f \notin out \cup (inFlight' \ inFlight)
  BY <1>5 DEF LoadedIn, Placed
<1>8. waits \cup inFlight' \subseteq out \cup (inFlight' \ inFlight)
  BY <1>3, <1>5
<1>9. Placed(cq, issued', waits \cup inFlight')
  BY <1>5, <1>8, PlacedLess
<1>10. waits \cap inFlight' = {}
  BY <1>3, <1>5, <1>6
<1>11. InOnePlace'
  BY <1>1, <1>3, <1>9, <1>10, OncePartsPrimed
<1>12. /\ \A f : f \in Waiting <=> f \in waits \/ LoadedIn(cq, issued, f)
       /\ \A f : f \in Waiting' <=> f \in waits \/ LoadedIn(cq, issued', f)
  BY <1>1, <1>4, OnceParts, OncePartsPrimed
<1> HIDE DEF waits
<1> QED
  BY <1>3, <1>5, <1>6, <1>7, <1>8, <1>10, <1>11, <1>12, FromParts

\* CommandQueueCallback schedules nothing.
LEMMA CommandQueueCallbackOnce ==
    ASSUME OnceInv, IndInv, NEW q \in Queues, CommandQueueCallback(q)
    PROVE  OnceStep
<1>1. /\ {q} \in Served(commandQueues) /\ CycleCommandQueues(commandQueues, {q})
      /\ cleanup # "due" /\ UNCHANGED <<readQueue, writeQueue>>
  BY DEF CommandQueueCallback, transactionVars
<1>2. commandQueues \in CommandLists
  BY DEF IndInv, TypeOK, CommandLists, Elements
<1> DEFINE none == {}
<1>3. /\ Placed(commandQueues, issued, (readQueue \cup writeQueue \cup inFlight) \ none)
      /\ \A f : LoadedIn(commandQueues, issued, f)
                <=> LoadedIn(commandQueues, issued, f) \/ f \in none
  <2>1. (readQueue \cup writeQueue \cup inFlight) \ none = readQueue \cup writeQueue \cup inFlight
    OBVIOUS
  <2> QED
    BY <2>1, OnceParts DEF OnceInv
<1>4. /\ none \subseteq readQueue \cup writeQueue
      /\ readQueue' = readQueue \ none /\ writeQueue' = writeQueue \ none
  BY <1>1
<1> HIDE DEF none
<1> QED
  BY <1>1, <1>2, <1>3, <1>4, IssueOnce

\* Cycle loads a transaction into an empty list, so that it follows no issued head.
LEMMA CycleOnce ==
    ASSUME OnceInv, IndInv, Cycle
    PROVE  OnceStep
<1>1. PICK next \in (IF {t \in Source(Draining) : Schedulable(t)} = {} THEN {{}}
                     ELSE {{t} : t \in {u \in Source(Draining) : Schedulable(u)}}),
           n \in 0 .. MaxRowCommands :
        LET cq == [q \in Queues |-> IF \E t \in next : t.queue = q
                        THEN CommandsFor(CHOOSE t \in next : TRUE, n) ELSE commandQueues[q]]
        IN  \E served \in Served(cq) :
                /\ readQueue' = readQueue \ next
                /\ writeQueue' = writeQueue \ next
                /\ CycleCommandQueues(cq, served)
  BY DEF Cycle
<1> DEFINE cq == [q \in Queues |-> IF \E t \in next : t.queue = q
                        THEN CommandsFor(CHOOSE t \in next : TRUE, n) ELSE commandQueues[q]]
<1>2. PICK served \in Served(cq) :
        /\ readQueue' = readQueue \ next
        /\ writeQueue' = writeQueue \ next
        /\ CycleCommandQueues(cq, served)
  BY <1>1
<1>3. cleanup # "due"
  BY DEF Cycle
<1> DEFINE out == readQueue \cup writeQueue \cup inFlight
<1>4. /\ Placed(commandQueues, issued, out)
      /\ \A f : LoadedIn(commandQueues, issued, f) => f \notin out
  BY OnceParts DEF OnceInv, LoadedIn, Placed
<1>5. commandQueues \in CommandLists
  BY DEF IndInv, TypeOK, CommandLists, Elements
<1>6. CASE next = {}
  <2>1. cq = commandQueues /\ out \ next = out
    BY <1>5, <1>6 DEF CommandLists
  <2> HIDE DEF cq
  <2> QED
    BY <1>2, <1>3, <1>4, <1>5, <1>6, <2>1, IssueOnce
<1>7. CASE next # {}
  <2>1. PICK t \in Source(Draining) : next = {t} /\ Schedulable(t)
    BY <1>1, <1>7
  <2>2. t \in readQueue \cup writeQueue
    BY DEF Source
  <2>3. t \in Transactions /\ t.queue \in Queues /\ commandQueues[t.queue] = <<>>
    BY <2>1, <2>2 DEF IndInv, TypeOK, Transactions, Schedulable
  <2> DEFINE o == t.queue
             x == CommandsFor(t, n)
  <2>4. cq[o] = x /\ \A p \in Queues \ {o} : cq[p] = commandQueues[p]
    BY <2>1, <2>3
  <2>5. x \in Seq(Elements)
    BY <2>3, CommandsForFacts
  <2>6. cq \in CommandLists
    <3>1. \A p \in Queues : cq[p] \in Seq(Elements)
      <4> HIDE DEF cq, x
      <4> QED
        BY <1>5, <2>4, <2>5 DEF CommandLists
    <3>2. cq = [p \in Queues |-> cq[p]]
      OBVIOUS
    <3> HIDE DEF cq
    <3> QED
      BY <3>1, <3>2 DEF CommandLists
  <2>7. Loads(cq, commandQueues, o, t)
    <3>1. \E last \in DOMAIN x :
              x[last] = t /\ \A k \in DOMAIN x : k # last => x[k] = RowCommand
      BY <2>3, CommandsForPlaces
    <3> HIDE DEF cq, x, o
    <3> QED
      BY <2>4, <3>1 DEF Loads
  <2>8. o \in Queues /\ o \notin issued /\ commandQueues[o] = <<>> /\ t # RowCommand /\ t \in out
    BY <2>2, <2>3, CommandAssumption DEF IndInv, IssuedHeads
  <2>9. ~LoadedIn(commandQueues, issued, t)
    BY <1>4, <2>8
  <2> HIDE DEF cq, x, o, out
  <2>10. /\ \A f : LoadedIn(cq, issued, f) <=> LoadedIn(commandQueues, issued, f) \/ f = t
         /\ Placed(cq, issued, out \ {t})
    BY <1>4, <2>7, <2>8, <2>9, Scheduled
  <2>11. \A f : LoadedIn(cq, issued, f) <=> LoadedIn(commandQueues, issued, f) \/ f \in next
    BY <2>1, <2>10
  <2>12. Placed(cq, issued, (readQueue \cup writeQueue \cup inFlight) \ next)
    BY <2>1, <2>10 DEF out
  <2>13. next \subseteq readQueue \cup writeQueue
    BY <2>1, <2>2
  <2> QED
    BY <1>2, <1>3, <2>6, <2>11, <2>12, <2>13, IssueOnce
<1> QED
  BY <1>6, <1>7

LEMMA InitOnce == Init => OnceInv
<1> SUFFICES ASSUME Init PROVE OnceInv
  OBVIOUS
<1>1. \A q \in Queues : DOMAIN commandQueues[q] = {}
  BY DEF Init
<1> QED
  BY <1>1 DEF Init, OnceInv, InOnePlace, CleanupComes

LEMMA NextOnce == OnceInv /\ IndInv /\ [Next]_vars => OnceStep
<1> SUFFICES ASSUME OnceInv, IndInv, [Next]_vars PROVE OnceStep
  OBVIOUS
<1>1. ASSUME NEW t \in Transactions, IssueCommand(t) PROVE OnceStep
  BY <1>1, IssueCommandOnce
<1>2. CASE Drain
  BY <1>2, SameOnce DEF Drain, transactionVars, commandVars, OnceInv, CleanupComes
<1>3. ASSUME NEW t \in Transactions, RequestComplete(t) PROVE OnceStep
  BY <1>3, SameOnce DEF RequestComplete, transactionVars, OnceInv, CleanupComes
<1>4. ASSUME NEW q \in Queues, CommandQueueCallback(q) PROVE OnceStep
  BY <1>4, CommandQueueCallbackOnce
<1>5. CASE CleanupCallback
  BY <1>5, CleanupCallbackOnce
<1>6. CASE Cycle
  BY <1>6, CycleOnce
<1>7. CASE Tick
  BY <1>7, SameOnce DEF Tick, OnceInv, CleanupComes
<1>8. CASE UNCHANGED vars
  BY <1>8, SameOnce DEF vars, transactionVars, commandVars, OnceInv, CleanupComes
<1> QED
  BY <1>1, <1>2, <1>3, <1>4, <1>5, <1>6, <1>7, <1>8 DEF Next, Time

\* A transaction is at one place in the scheduler or at the device, and the removal of an
\* issued command is under way before another can be issued.
THEOREM OnePlaceEach == Spec => []OnceInv
<1>1. IndInv /\ OnceInv /\ [Next]_vars => OnceInv'
  BY NextOnce DEF OnceStep
<1> QED
  BY <1>1, InitOnce, SchedulerConsistent, PTL DEF Spec

\* What leaves the scheduler in a step is what the device gets in it, for any number of
\* queues, sizes and water marks.
THEOREM TransactionsIssuedOnce == Spec => IssuedExactlyOnce
<1>1. IndInv /\ OnceInv /\ [Next]_vars => [Waiting \ Waiting' = inFlight' \ inFlight]_vars
  BY NextOnce DEF OnceStep
<1> QED
  BY <1>1, OnePlaceEach, SchedulerConsistent, PTL DEF Spec, IssuedExactlyOnce
=============================================================================
