----------------------------- MODULE FRFCFS_WQF -----------------------------
(***************************************************************************)
(* NVmain's FR-FCFS scheduler with a write queue that is drained           *)
(* (src/NVmain/MemControl/FRFCFS-WQF/FRFCFS-WQF.cpp) on top of the memory  *)
(* controller: reads and writes wait in queues of their own, and the       *)
(* writes are served only while a drain lasts, from the high water mark    *)
(* down to the low one, or once Drain was called.                          *)
(*                                                                         *)
(* The controller below the two queues is that of module MemoryController, *)
(* without refresh and without the rows: any transaction whose command     *)
(* queue is empty may be the one the searches find, and it is preceded by  *)
(* up to MaxRowCommands row commands. The device is ready for the head of  *)
(* a queue at any time. The order of the events of a cycle is kept:        *)
(* CleanupCallback, EventCycle, CommandQueueCallback.                      *)
(***************************************************************************)
EXTENDS Integers, Sequences, FiniteSets

CONSTANTS
    Requests, Queues,               \* the requests, the command queues
    ReadQueueSize, WriteQueueSize,
    ConfigHigh, ConfigLow,          \* HighWaterMark and LowWaterMark as configured
    RowCommand,                     \* a command the controller makes: ACTIVATE or PRECHARGE
    MaxRowCommands                  \* those queued before the column command

ASSUME SizesAssumption ==
    /\ {ReadQueueSize, WriteQueueSize} \subseteq Nat \ {0}
    /\ {ConfigHigh, ConfigLow, MaxRowCommands} \subseteq Nat

\* SetConfig looks at the low mark only when the high one was left alone.
HighWaterMark == IF ConfigHigh > WriteQueueSize THEN WriteQueueSize ELSE ConfigHigh
LowWaterMark == IF ConfigHigh <= WriteQueueSize /\ ConfigLow > ConfigHigh THEN 0 ELSE ConfigLow

VARIABLES
    readQueue, writeQueue, arrived, \* the transaction queues; those of this cycle
    m_draining, force_drain,
    commandQueues, issued,          \* the command queues, those whose head is issued
    lastIssueCycle,
    cycleNow, cycleNext, cleanup,   \* pending events
    inFlight                        \* the transactions the device works on

transactionVars == <<readQueue, writeQueue, arrived>>
drainVars == <<m_draining, force_drain>>
commandVars == <<commandQueues, issued, lastIssueCycle, cleanup, inFlight>>
vars == <<transactionVars, drainVars, commandVars, cycleNow, cycleNext>>

Transactions == [request : Requests, type : {"READ", "WRITE"}, queue : Queues]

ASSUME CommandAssumption == RowCommand \notin Transactions

EffectivelyEmpty(cq, flagged, q) == cq[q] = <<>> \/ (Len(cq[q]) = 1 /\ q \in flagged)

\* Mutant: only the first transaction queue, that of the reads, is looked at.
AvailableReads(reads, writes, q) == \E t \in reads : t.queue = q

TransactionAvailable(reads, writes, q) == \E t \in reads \cup writes : t.queue = q

Init ==
    /\ readQueue = {} /\ writeQueue = {} /\ arrived = {}
    /\ m_draining = FALSE /\ force_drain = FALSE
    /\ commandQueues = [q \in Queues |-> <<>>]
    /\ issued = {}
    /\ lastIssueCycle = "now"
    /\ cycleNow = 0 /\ cycleNext = 0
    /\ cleanup = "none"
    /\ inFlight = {}

-----------------------------------------------------------------------------
(* The transaction queues.                                                  *)

Loaded == UNION {{commandQueues[q][i] : i \in DOMAIN commandQueues[q]} : q \in Queues}
Outstanding == readQueue \cup writeQueue \cup inFlight \cup (Loaded \ {RowCommand})

\* Mutant: a full write queue still takes a write.
IssuableWhenFull(t) ==
    IF t.type = "READ" THEN Cardinality(readQueue) < ReadQueueSize
    ELSE ~m_draining /\ ~force_drain

\* Mutant: writes are taken during a drain.
IssuableInDrain(t) ==
    IF t.type = "READ" THEN Cardinality(readQueue) < ReadQueueSize
    ELSE Cardinality(writeQueue) < WriteQueueSize

\* During a drain no write is taken.
IsIssuable(t) ==
    IF t.type = "READ" THEN Cardinality(readQueue) < ReadQueueSize
    ELSE Cardinality(writeQueue) < WriteQueueSize /\ ~m_draining /\ ~force_drain

\* IssueCommand and Enqueue. The trace has come to its end when Drain is called.
IssueCommand(t) ==
    /\ ~force_drain
    /\ \A u \in Outstanding : u.request # t.request
    /\ IsIssuable(t)
    /\ arrived' = arrived \cup {t}
    /\ \/ /\ t.type = "READ"
          /\ readQueue' = readQueue \cup {t}
          /\ UNCHANGED writeQueue
       \/ /\ t.type = "WRITE"
          /\ writeQueue' = writeQueue \cup {t}
          /\ UNCHANGED readQueue
    /\ cycleNow' = IF cycleNow = 0 /\ EffectivelyEmpty(commandQueues, issued, t.queue)
                   THEN 1 ELSE cycleNow
    /\ UNCHANGED <<drainVars, commandVars, cycleNext>>

\* traceMain calls it at the end of the trace: it only sets the flag.
Drain ==
    /\ ~force_drain
    /\ force_drain' = TRUE
    /\ UNCHANGED <<transactionVars, m_draining, commandVars, cycleNow, cycleNext>>

\* A transaction carried out goes to NVMain. None comes back paused or cancelled: a
\* write is only scheduled in a drain, with FLAG_FORCED.
RequestComplete(t) ==
    /\ t \in inFlight
    /\ inFlight' = inFlight \ {t}
    /\ UNCHANGED <<transactionVars, drainVars, commandQueues, issued, lastIssueCycle,
                   cleanup, cycleNow, cycleNext>>

-----------------------------------------------------------------------------
(* The command queues.                                                      *)

\* Mutant: a cycle may issue several commands.
ServedAgain(cq) == {{}} \cup {{q} : q \in {p \in Queues : cq[p] # <<>>}}

\* The queue CycleCommandQueues issues from, if any: one command per cycle, and the
\* device has to be ready for it.
Served(cq) ==
    {{}} \cup (IF lastIssueCycle = "now" THEN {} ELSE {{q} : q \in {p \in Queues : cq[p] # <<>>}})

CycleCommandQueues(cq, served) ==
    /\ commandQueues' = cq
    /\ issued' = issued \cup served
    /\ inFlight' = inFlight \cup ({Head(cq[q]) : q \in served} \ {RowCommand})
    /\ lastIssueCycle' = IF served = {} THEN lastIssueCycle ELSE "now"
    /\ cleanup' = IF served = {} THEN cleanup ELSE "next"

\* The EventCycles it inserts for the next cycle: the queue becomes empty and a
\* transaction waits for it.
Wakeups(cq, reads, writes, served) ==
    Cardinality({q \in served : Len(cq[q]) = 1 /\ TransactionAvailable(reads, writes, q)})

\* MemoryController::Cycle.
Recheck(cq, flagged, reads, writes, n) ==
    IF n = 0 /\ \E q \in Queues :
                    EffectivelyEmpty(cq, flagged, q) /\ TransactionAvailable(reads, writes, q)
    THEN 1 ELSE n

-----------------------------------------------------------------------------
(* The events of a cycle.                                                   *)

\* Mutant: the drain starts only beyond the high water mark.
DrainingBeyond ==
    IF force_drain THEN m_draining
    ELSE IF m_draining THEN Cardinality(writeQueue) > LowWaterMark
    ELSE Cardinality(writeQueue) > HighWaterMark

\* Cycle starts or ends a drain, unless Drain was called.
Draining ==
    IF force_drain THEN m_draining
    ELSE IF m_draining THEN Cardinality(writeQueue) > LowWaterMark
    ELSE Cardinality(writeQueue) >= HighWaterMark

\* Mutant: any write goes before the reads.
SourceWritesFirst(draining) == IF writeQueue # {} THEN writeQueue ELSE readQueue

\* Mutant: Drain is forgotten when no drain is under way.
SourceUnforced(draining) == IF draining THEN writeQueue ELSE readQueue

\* The queue that is searched.
Source(draining) ==
    IF draining \/ (force_drain /\ readQueue = {}) THEN writeQueue ELSE readQueue

\* What the searches ask of a transaction.
Schedulable(t) == commandQueues[t.queue] = <<>> /\ t \notin arrived

\* The commands IssueMemoryCommands queues for t, after n row commands.
CommandsFor(t, n) == [i \in 1 .. n |-> RowCommand] \o <<t>>

CleanupCallback ==
    /\ cleanup = "due"
    /\ cleanup' = "none"
    /\ commandQueues' = [q \in Queues |->
            IF q \in issued THEN Tail(commandQueues[q]) ELSE commandQueues[q]]
    /\ issued' = {}
    /\ UNCHANGED <<transactionVars, drainVars, lastIssueCycle, inFlight, cycleNow, cycleNext>>

\* EventCycle: starts or ends a drain, schedules a transaction of the queue whose turn
\* it is, issues a command, and looks whether it has to come back.
Cycle ==
    /\ cleanup # "due"
    /\ cycleNow > 0
    /\ cycleNow' = cycleNow - 1
    /\ m_draining' = Draining
    /\ LET ready == {t \in Source(Draining) : Schedulable(t)}
       IN  \E next \in IF ready = {} THEN {{}} ELSE {{t} : t \in ready},
              n \in 0 .. MaxRowCommands :
            LET cq == [q \in Queues |-> IF \E t \in next : t.queue = q
                        THEN CommandsFor(CHOOSE t \in next : TRUE, n) ELSE commandQueues[q]]
            IN  \E served \in Served(cq) :
                    /\ readQueue' = readQueue \ next
                    /\ writeQueue' = writeQueue \ next
                    /\ CycleCommandQueues(cq, served)
                    /\ cycleNext' = Recheck(cq, issued', readQueue', writeQueue',
                            cycleNext + Wakeups(cq, readQueue', writeQueue', served))
    /\ UNCHANGED <<arrived, force_drain>>

\* The command queues are woken for the head of q.
CommandQueueCallback(q) ==
    /\ cleanup # "due"
    /\ cycleNow = 0
    /\ {q} \in Served(commandQueues)
    /\ CycleCommandQueues(commandQueues, {q})
    /\ cycleNext' = cycleNext + Wakeups(commandQueues, readQueue, writeQueue, {q})
    /\ UNCHANGED <<transactionVars, drainVars, cycleNow>>

\* Every event of the cycle is handled.
Tick ==
    /\ cleanup # "due"
    /\ cycleNow = 0
    /\ cycleNow' = cycleNext
    /\ cycleNext' = 0
    /\ cleanup' = IF cleanup = "next" THEN "due" ELSE "none"
    /\ arrived' = {}
    /\ lastIssueCycle' = "past"
    /\ UNCHANGED <<readQueue, writeQueue, drainVars, commandQueues, issued, inFlight>>

Time == CleanupCallback \/ Cycle \/ Tick

Next ==
    \/ \E t \in Transactions : IssueCommand(t)
    \/ Drain
    \/ \E t \in Transactions : RequestComplete(t)
    \/ \E q \in Queues : CommandQueueCallback(q)
    \/ Time

Spec == Init /\ [][Next]_vars

\* The simulator keeps the event queue running, a command that waits is issued and the
\* device answers.
FairSpec ==
    /\ Spec
    /\ WF_vars(Time)
    /\ \A q \in Queues : SF_vars(CommandQueueCallback(q))
    /\ \A t \in Transactions : WF_vars(RequestComplete(t))

-----------------------------------------------------------------------------
\* The types; in particular neither transaction queue grows beyond its size.
TypeOK ==
    /\ readQueue \in SUBSET Transactions /\ Cardinality(readQueue) <= ReadQueueSize
    /\ writeQueue \in SUBSET Transactions /\ Cardinality(writeQueue) <= WriteQueueSize
    /\ arrived \in SUBSET Transactions
    /\ m_draining \in BOOLEAN /\ force_drain \in BOOLEAN
    /\ commandQueues \in [Queues -> Seq(Transactions \cup {RowCommand})]
    /\ issued \in SUBSET Queues
    /\ lastIssueCycle \in {"now", "past"}
    /\ cleanup \in {"none", "next", "due"}
    /\ cycleNow \in Nat /\ cycleNext \in Nat
    /\ inFlight \in SUBSET Transactions

\* A transaction whose command queue is free has an EventCycle coming, also a write
\* that no Cycle will look at before the next drain: the drain is started by a Cycle.
TransactionsAwaited ==
    (\E t \in readQueue \cup writeQueue : EffectivelyEmpty(commandQueues, issued, t.queue))
    => cycleNow + cycleNext > 0

\* The inductive invariant: only a command that is in a queue is marked as issued.
IssuedHeads == \A q \in issued : commandQueues[q] # <<>>
QueuesFinite == IsFiniteSet(readQueue) /\ IsFiniteSet(writeQueue)
IndInv == TypeOK /\ QueuesFinite /\ IssuedHeads /\ TransactionsAwaited

\* The transactions accepted and not yet issued.
Unissued(q, k) == k \in DOMAIN commandQueues[q] /\ ~(k = 1 /\ q \in issued)
Waiting ==
    readQueue \cup writeQueue
    \cup ((UNION {{commandQueues[q][k] : k \in {i \in DOMAIN commandQueues[q] : Unissued(q, i)}} :
                     q \in Queues}) \ {RowCommand})

\* What leaves the scheduler in a step is what the device gets in that step: no transaction
\* is lost between the queues and none is issued twice, in drains and out of them, although
\* an issued command stays in its queue until CleanupCallback.
IssuedExactlyOnce == [][Waiting \ Waiting' = inFlight' \ inFlight]_vars

\* What this needs: a transaction is in one place only, and CleanupCallback is coming for an
\* issued command before the next one can be issued.
InOnePlace ==
    /\ readQueue \cap writeQueue = {}
    /\ (readQueue \cup writeQueue) \cap inFlight = {}
    /\ \A q \in Queues : \A k \in DOMAIN commandQueues[q] :
           Unissued(q, k) /\ commandQueues[q][k] # RowCommand =>
               /\ commandQueues[q][k] \notin readQueue \cup writeQueue \cup inFlight
               /\ \A p \in Queues : \A l \in DOMAIN commandQueues[p] :
                      Unissued(p, l) /\ commandQueues[p][l] = commandQueues[q][k]
                          => p = q /\ l = k
CleanupComes ==
    issued # {} => cleanup = "due" \/ (cleanup = "next" /\ lastIssueCycle = "now")
OnceInv == InOnePlace /\ CleanupComes

\* A drain comes to its end (unless Drain was called): the writes refused meanwhile
\* and the reads are not put off for ever. (With a low water mark of 0, the default, it
\* need not: once the last write is scheduled nothing calls Cycle but a read, and the
\* writes are refused.)
DrainsEnd == m_draining ~> ~m_draining \/ force_drain

\* A write queue at the high water mark is drained below it, whatever the reads.
WritesDrained ==
    Cardinality(writeQueue) >= HighWaterMark ~> Cardinality(writeQueue) < HighWaterMark

\* Only a drain puts reads off: while there is none, a read queue that is never empty
\* is served again and again, whatever the writes.
ReadsServed ==
    <>[](readQueue # {} /\ ~m_draining)
        => []<><<\E t \in readQueue : t \notin readQueue'>>_vars

\* traceMain: after Drain every request that waits is scheduled, reads and writes. (Not
\* so if it is called during a drain, which then never ends: the reads that wait are
\* never looked at again, and traceMain waits for them for ever.)
DrainCompletes == force_drain /\ ~m_draining ~> readQueue \cup writeQueue = {}
=============================================================================
