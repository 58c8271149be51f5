---------------------------- MODULE WritePausing ----------------------------
(***************************************************************************)
(* Write pausing and cancellation (WritePausing = true): an ACTIVATE with  *)
(* FLAG_PRIORITY interrupts the write that a subarray is carrying out      *)
(* (src/NVmain/src/SubArray.cpp). The write comes back to FR-FCFS one      *)
(* cycle later, is put at the front of the transaction queue, and is       *)
(* issued again: with the time it still needs if it was paused, from the   *)
(* start if it was cancelled, and after MaxCancellations for good.         *)
(*                                                                         *)
(* One subarray and its command queue, rows that need no precharge (only   *)
(* then can an ACTIVATE meet a write), open page, no refresh. Time is      *)
(* relative, as in module MemoryController, and a command may be delayed   *)
(* (by the bank and the rank). The events of a cycle come in the order of  *)
(* their priorities: CleanupCallback, responses of the subarray,           *)
(* EventCycle, CommandQueueCallback. The searches of FR-FCFS may find any  *)
(* transaction.                                                            *)
(***************************************************************************)
EXTENDS Integers, Sequences, FiniteSets

CONSTANTS
    Reads, Writes,              \* the requests of the client
    Rows, NoRow,
    NoRequest,                  \* writeRequest before the first write
    PauseMode,                  \* "Normal", "IIWC" or "Optimal"
    PausePercent,               \* PauseThreshold
    MaxCancellations,
    WriteTime, IterationStarts, \* WriteCellData: cycles, and where iterations start
    tRCD, tCWD, tBURST, tWTR, ReadTime

Requests == Reads \cup Writes
GreatestOf(S) == CHOOSE n \in S : \A k \in S : n >= k

ASSUME ModeAssumption ==
    /\ PauseMode \in {"Normal", "IIWC", "Optimal"}
    /\ PausePercent \in 0 .. 100
ASSUME TimesAssumption ==
    /\ {WriteTime, tCWD, tWTR} \subseteq Nat
    /\ {MaxCancellations, tRCD, tBURST, ReadTime} \subseteq Nat \ {0}
    /\ 0 \in IterationStarts /\ IterationStarts \subseteq 0 .. WriteTime
ASSUME NamesAssumption ==
    Reads \cap Writes = {} /\ NoRequest \notin Requests /\ NoRow \notin Rows

VARIABLES
    row,                        \* the row of each request under way
    transactionQueue, arrived,
    flags, progress, cancellations, forced, flagIssued, \* kept in the request
    commandQueue, effectiveRow, lastIssueCycle,
    cycleNow, cycleNext, cleanup,    \* pending events of the controller
    responses,                       \* pending EventResponses of the subarray
    isWriting, writeRequest, writeAge, writeTimer,
    nextRead, nextWrite, nextPreWrite

requestVars == <<flags, progress, cancellations, forced>>
queueVars == <<row, transactionQueue, arrived>>
commandVars == <<commandQueue, flagIssued, effectiveRow, lastIssueCycle>>
eventVars == <<cycleNow, cycleNext, cleanup>>
writeVars == <<isWriting, writeRequest, writeAge, writeTimer>>
timeVars == <<nextRead, nextWrite, nextPreWrite>>
vars == <<requestVars, queueVars, commandVars, eventVars, responses, writeVars, timeVars>>

Command(type, r, issued, priority) ==
    [type |-> type, request |-> r, issued |-> issued, priority |-> priority]
Commands == [type : {"ACTIVATE", "COLUMN"}, request : Requests,
             issued : BOOLEAN, priority : BOOLEAN]
Response(r, in) == [request |-> r, in |-> in]

Init ==
    /\ row = [r \in Requests |-> NoRow]
    /\ transactionQueue = {} /\ arrived = {}
    /\ flags = [w \in Writes |-> "none"]
    /\ progress = [w \in Writes |-> 0]
    /\ cancellations = [w \in Writes |-> 0]
    /\ forced = {} /\ flagIssued = {}
    /\ commandQueue = <<>> /\ effectiveRow = NoRow /\ lastIssueCycle = "now"
    /\ cycleNow = 0 /\ cycleNext = 0 /\ cleanup = "none"
    /\ responses = {}
    /\ isWriting = FALSE /\ writeRequest = NoRequest /\ writeAge = 0 /\ writeTimer = 0
    /\ nextRead = 0 /\ nextWrite = 0 /\ nextPreWrite = [read |-> 0, write |-> 0]

-----------------------------------------------------------------------------
(* The controller's queues.                                                 *)

\* An ACTIVATE is made anew each time; a column command is the request itself.
WasIssued(c) == IF c.type = "ACTIVATE" THEN c.issued ELSE c.request \in flagIssued

EffectivelyEmpty(cq) == cq = <<>> \/ (Len(cq) = 1 /\ WasIssued(Head(cq)))

\* A new request object of the client: FRFCFS::IssueCommand and Enqueue.
Enqueue(r, n) ==
    /\ row[r] = NoRow
    /\ row' = [row EXCEPT ![r] = n]
    /\ transactionQueue' = transactionQueue \cup {r}
    /\ arrived' = arrived \cup {r}
    /\ cycleNow' = IF cycleNow = 0 /\ EffectivelyEmpty(commandQueue) THEN 1 ELSE cycleNow
    /\ UNCHANGED <<requestVars, commandVars, cycleNext, cleanup, responses, writeVars, timeVars>>

\* What remove_if keeps of the i-th command.
Unissued(i) ==
    IF i \in DOMAIN commandQueue /\ ~WasIssued(commandQueue[i]) THEN <<commandQueue[i]>> ELSE <<>>

\* Removes whatever is marked as issued: an ACTIVATE and a column command at most.
CleanupCallback ==
    /\ cleanup = "due"
    /\ cleanup' = "none"
    /\ commandQueue' = Unissued(1) \o Unissued(2)
    /\ UNCHANGED <<requestVars, queueVars, flagIssued, effectiveRow, lastIssueCycle,
                   cycleNow, cycleNext, responses, writeVars, timeVars>>

-----------------------------------------------------------------------------
(* The subarray.                                                            *)

\* Mutant: a write is interrupted however often it was before.
BlockedNever(r) == FALSE

\* A forced write cannot be interrupted.
Blocked(r) == isWriting /\ writeRequest \in forced

IsIssuable(c) ==
    \/ c.type = "ACTIVATE" /\ ~Blocked(c.request) /\ (isWriting => c.priority)
    \/ c.type = "COLUMN" /\ c.request \in Reads /\ nextRead = 0 /\ ~Blocked(c.request)
    \/ c.type = "COLUMN" /\ c.request \in Writes /\ nextWrite = 0

\* The cycles that an interrupted write still needs. Past its end the unsigned
\* difference of the code wraps around, and the write counts as not begun.
Remaining ==
    IF PauseMode = "Optimal" THEN writeTimer - writeAge
    ELSE writeTimer - GreatestOf({s \in IterationStarts : s <= writeAge})

\* writePercent > PauseThreshold, false for 0/0.
Pauses ==
    /\ writeTimer > 0 /\ Remaining >= 0
    /\ 100 * (writeTimer - Remaining) > PausePercent * writeTimer

\* Mutant: the event that announces the completion is left in the event queue.
KeepsWriteEvent == responses

\* RemoveEvent at writeEventTime.
RemovesWriteEvent ==
    responses \ {Response(writeRequest, writeTimer + tCWD + tBURST - writeAge)}

\* CheckWritePausing.
CheckWritePausing(response) ==
    \/ /\ ~isWriting
       /\ responses' = responses \cup response
       /\ UNCHANGED requestVars
    \/ /\ isWriting
       /\ responses' = RemovesWriteEvent \cup {Response(writeRequest, 1)} \cup response
       /\ \/ /\ Pauses
             /\ flags' = [flags EXCEPT ![writeRequest] = "PAUSED"]
             /\ progress' = [progress EXCEPT ![writeRequest] = Remaining]
             /\ UNCHANGED <<cancellations, forced>>
          \/ /\ ~Pauses
             /\ flags' = [flags EXCEPT ![writeRequest] = "CANCELLED"]
             /\ cancellations' = [cancellations EXCEPT ![writeRequest] = @ + 1]
             /\ forced' = IF cancellations'[writeRequest] >= MaxCancellations
                          THEN forced \cup {writeRequest} ELSE forced
             /\ UNCHANGED progress

\* The earliest times, restored to what they were before the write was issued.
Restored == IF isWriting THEN nextPreWrite ELSE [read |-> nextRead, write |-> nextWrite]

Activate ==
    /\ CheckWritePausing({})
    /\ nextRead' = GreatestOf({Restored.read, tRCD})
    /\ nextWrite' = GreatestOf({Restored.write, tRCD})
    /\ UNCHANGED <<nextPreWrite, writeVars>>

Read(r) ==
    /\ CheckWritePausing({Response(r, ReadTime)})
    /\ nextRead' = GreatestOf({Restored.read, tBURST})
    /\ nextWrite' = GreatestOf({Restored.write, tBURST})
    /\ UNCHANGED <<nextPreWrite, writeVars>>

\* A paused write takes the time that is left. A write that is being completed is
\* forgotten: its event is pending.
Write(r) ==
    LET timer == IF flags[r] = "PAUSED" THEN progress[r] ELSE WriteTime
    IN  /\ flags' = [flags EXCEPT ![r] = "none"]
        /\ nextPreWrite' = [read |-> nextRead, write |-> nextWrite]
        /\ nextRead' = GreatestOf({nextRead, tCWD + tBURST + tWTR + timer})
        /\ nextWrite' = GreatestOf({nextWrite, tBURST + timer})
        /\ isWriting' = TRUE
        /\ writeRequest' = r
        /\ writeAge' = 0
        /\ writeTimer' = timer
        /\ responses' = responses \cup {Response(r, tCWD + tBURST + timer)}
        /\ UNCHANGED <<progress, cancellations, forced>>

Interrupted(r) == r \in Writes /\ flags[r] # "none"

\* RequestComplete of the subarray and of FRFCFS, which puts a write that was
\* interrupted back without a wake-up, and hands everything else to NVMain.
RequestComplete(x) ==
    LET r == x.request
    IN  /\ cleanup # "due"
        /\ x \in responses /\ x.in = 0
        /\ responses' = responses \ {x}
        /\ isWriting' = (isWriting /\ writeRequest # r)
        /\ \/ /\ Interrupted(r)
              /\ transactionQueue' = transactionQueue \cup {r}
              /\ UNCHANGED <<row, flagIssued, requestVars>>
           \/ /\ ~Interrupted(r)
              /\ row' = [row EXCEPT ![r] = NoRow]
              /\ flagIssued' = flagIssued \ {r}
              /\ forced' = forced \ {r}
              /\ cancellations' = [w \in Writes |-> IF w = r THEN 0 ELSE cancellations[w]]
              /\ UNCHANGED <<transactionQueue, flags, progress>>
        /\ UNCHANGED <<arrived, commandQueue, effectiveRow, lastIssueCycle, eventVars,
                       writeRequest, writeAge, writeTimer, timeVars>>

-----------------------------------------------------------------------------
(* The events of the controller.                                            *)

Responding == \E x \in responses : x.in = 0

CanIssue(cq) == lastIssueCycle = "past" /\ cq # <<>> /\ IsIssuable(Head(cq))

\* CycleCommandQueues issues the head of the queue, unless the rank or the bank is not
\* ready for it.
CycleCommandQueues(cq, issues) ==
    \/ /\ ~issues
       /\ commandQueue' = cq
       /\ UNCHANGED <<requestVars, flagIssued, lastIssueCycle, cleanup, responses, writeVars, timeVars>>
    \/ /\ issues
       /\ lastIssueCycle' = "now"
       /\ cleanup' = "next"
       /\ LET c == Head(cq)
          IN  \/ /\ c.type = "ACTIVATE"
                 /\ Activate
                 /\ commandQueue' = [cq EXCEPT ![1].issued = TRUE]
                 /\ UNCHANGED flagIssued
              \/ /\ c.type = "COLUMN"
                 /\ IF c.request \in Reads THEN Read(c.request) ELSE Write(c.request)
                 /\ commandQueue' = cq
                 /\ flagIssued' = flagIssued \cup {c.request}

\* Mutant: the scheduler is not woken when the queue becomes empty.
WakeupsNever(cq, waiting, issues) == 0

\* The EventCycle inserted for the next cycle when the queue becomes empty.
Wakeups(cq, waiting, issues) == IF issues /\ Len(cq) = 1 /\ waiting # {} THEN 1 ELSE 0

\* IssueMemoryCommands: a row that is not open is activated first, with priority if a
\* write is under way.
CommandsFor(r) ==
    LET column == Command("COLUMN", r, FALSE, FALSE)
    IN  IF effectiveRow = row[r] THEN <<column>>
        ELSE <<Command("ACTIVATE", r, FALSE, isWriting), column>>

\* FindWriteStalledRead has the scheduler wait for the end of an iteration.
Stalled ==
    /\ PauseMode = "Normal" /\ isWriting /\ writeAge \notin IterationStarts
    /\ transactionQueue \cap Reads # {}

\* EventCycle: FRFCFS::Cycle.
Cycle ==
    /\ cleanup # "due" /\ ~Responding
    /\ cycleNow > 0
    /\ cycleNow' = cycleNow - 1
    /\ LET ready == IF commandQueue = <<>> THEN transactionQueue \ arrived ELSE {}
       IN  \E next \in {{r} : r \in ready} \cup (IF ready = {} \/ Stalled THEN {{}} ELSE {}) :
            LET cq == IF next = {} THEN commandQueue ELSE CommandsFor(CHOOSE r \in next : TRUE)
            IN  /\ transactionQueue' = transactionQueue \ next
                /\ effectiveRow' = IF next = {} THEN effectiveRow
                                   ELSE row[CHOOSE r \in next : TRUE]
                /\ \E issues \in {FALSE, CanIssue(cq)} :
                    /\ CycleCommandQueues(cq, issues)
                    /\ LET n == cycleNext + Wakeups(cq, transactionQueue', issues)
                       IN  cycleNext' = IF /\ n = 0 /\ transactionQueue' # {}
                                           /\ EffectivelyEmpty(commandQueue)'
                                        THEN 1 ELSE n
    /\ UNCHANGED <<row, arrived>>

\* The command queue is woken when its head can be issued.
CommandQueueCallback ==
    /\ cleanup # "due" /\ ~Responding /\ cycleNow = 0
    /\ CanIssue(commandQueue)
    /\ CycleCommandQueues(commandQueue, TRUE)
    /\ cycleNext' = cycleNext + Wakeups(commandQueue, transactionQueue, TRUE)
    /\ UNCHANGED <<queueVars, effectiveRow, cycleNow>>

Earlier(n) == IF n = 0 THEN 0 ELSE n - 1

\* Every event of the cycle is handled.
Tick ==
    /\ cleanup # "due" /\ ~Responding /\ cycleNow = 0
    /\ cycleNow' = cycleNext
    /\ cycleNext' = 0
    /\ cleanup' = IF cleanup = "next" THEN "due" ELSE "none"
    /\ arrived' = {}
    /\ lastIssueCycle' = "past"
    /\ responses' = {Response(x.request, x.in - 1) : x \in responses}
    /\ writeAge' = IF isWriting THEN writeAge + 1 ELSE writeAge
    /\ nextRead' = Earlier(nextRead)
    /\ nextWrite' = Earlier(nextWrite)
    /\ nextPreWrite' = [read |-> Earlier(nextPreWrite.read), write |-> Earlier(nextPreWrite.write)]
    /\ UNCHANGED <<row, transactionQueue, requestVars, commandQueue, flagIssued, effectiveRow,
                   isWriting, writeRequest, writeTimer>>

Next ==
    \/ \E r \in Requests, n \in Rows : Enqueue(r, n)
    \/ CleanupCallback
    \/ \E x \in responses : RequestComplete(x)
    \/ Cycle
    \/ CommandQueueCallback
    \/ Tick

Spec == Init /\ [][Next]_vars

-----------------------------------------------------------------------------
\* The types.
TypeOK ==
    /\ row \in [Requests -> Rows \cup {NoRow}]
    /\ transactionQueue \in SUBSET Requests /\ arrived \in SUBSET Requests
    /\ flags \in [Writes -> {"none", "PAUSED", "CANCELLED"}]
    /\ progress \in [Writes -> 0 .. WriteTime]
    /\ cancellations \in [Writes -> 0 .. MaxCancellations]
    /\ forced \in SUBSET Writes /\ flagIssued \in SUBSET Requests
    /\ commandQueue \in Seq(Commands) /\ Len(commandQueue) <= 2
    /\ effectiveRow \in Rows \cup {NoRow}
    /\ lastIssueCycle \in {"now", "past"} /\ cleanup \in {"none", "next", "due"}
    /\ cycleNow \in Nat /\ cycleNext \in Nat
    /\ responses \in SUBSET [request : Requests, in : Nat]
    /\ isWriting \in BOOLEAN /\ writeRequest \in Requests \cup {NoRequest}
    /\ writeAge \in Nat /\ writeTimer \in 0 .. WriteTime
    /\ nextRead \in Nat /\ nextWrite \in Nat
    /\ nextPreWrite \in [read : Nat, write : Nat]

\* The places where a request is.
Places(r) ==
    (IF r \in transactionQueue THEN {<<"transactionQueue", 0>>} ELSE {})
    \cup {<<"commandQueue", i>> : i \in {j \in DOMAIN commandQueue :
            LET c == commandQueue[j]
            IN  c.type = "COLUMN" /\ c.request = r /\ \A x \in responses : x.request # r}}
    \cup {<<"responses", x.in>> : x \in {y \in responses : y.request = r}}

\* A request is in one place at most: a write that is interrupted is not completed as
\* well, neither by the event that it left behind nor by a second interruption, and
\* nothing that is completed is still queued.
NeverTwice == \A r \in Requests : Cardinality(Places(r)) <= (IF row[r] = NoRow THEN 0 ELSE 1)

\* FRFCFS::RequestComplete: "Put cancelled requests at the head of the write queue like
\* nothing ever happened." (It is not so: FLAG_ISSUED is still set, and the next
\* CleanupCallback takes the write out of the command queue before it is issued.)
NoWriteLost == \A w \in Writes : row[w] # NoRow => Places(w) # {}

\* While nothing is lost, a transaction that could be scheduled has an EventCycle
\* coming, also a write put back without one: the commands that interrupted it are
\* still in the queue and wake the scheduler when they leave it.
PutBackAwaited ==
    NoWriteLost /\ transactionQueue # {} /\ EffectivelyEmpty(commandQueue)
        => cycleNow + cycleNext > 0

-----------------------------------------------------------------------------
(* The parts of the inductive invariant. Those about the queues are stated   *)
(* for any transaction queue tq and command queue cq: Cycle schedules and    *)
(* then issues.                                                              *)

ColumnOf(r) == Command("COLUMN", r, FALSE, FALSE)

\* Whether the column command of r is in the queue, and the subarray at work on it.
Loaded(cq, r) == \E i \in DOMAIN cq : cq[i] = ColumnOf(r)
Answering(r) == \E x \in responses : x.request = r

\* The queue holds the commands of one transaction.
QueueShape(cq) ==
    \/ cq = <<>>
    \/ \E r \in Requests : cq = <<ColumnOf(r)>>
    \/ \E r \in Requests, i \in BOOLEAN, p \in BOOLEAN :
            cq = <<Command("ACTIVATE", r, i, p), ColumnOf(r)>>

\* A request that waits is nowhere else, and one that is somewhere is under way.
WaitingApart(tq, cq) == \A r \in tq : ~Loaded(cq, r) /\ ~Answering(r)
UnderWay(tq, cq) ==
    \A r \in Requests : r \in tq \/ Loaded(cq, r) \/ Answering(r) => row[r] # NoRow

\* A column command that was issued leaves the queue before it is answered.
IssuedLeave(cq) ==
    \A r \in Requests : Loaded(cq, r) /\ Answering(r) =>
        /\ Len(cq) = 1 /\ r \in flagIssued
        /\ \/ cleanup = "due"
           \/ cleanup = "next" /\ \A x \in responses : x.request = r => x.in > 0

\* CleanupCallback comes in the cycle after a command was issued.
CleanupComes(cq) ==
    /\ cleanup # "none" => cq # <<>> /\ WasIssued(Head(cq))
    /\ cleanup = "next" => lastIssueCycle = "now"

QueueInv(tq, cq) ==
    /\ QueueShape(cq) /\ WaitingApart(tq, cq) /\ UnderWay(tq, cq)
    /\ IssuedLeave(cq) /\ CleanupComes(cq)

OneAnswer == \A x, y \in responses : x.request = y.request => x = y

\* The write under way has its event where CheckWritePausing looks for it, unless it
\* was interrupted, and no read can be issued before it.
WriteEventKnown ==
    isWriting =>
        /\ writeRequest \in Writes
        /\ \E x \in responses :
            /\ x.request = writeRequest /\ x.in <= nextRead
            /\ \/ x.in = writeTimer + tCWD + tBURST - writeAge
               \/ x.in = 1 /\ lastIssueCycle = "now"
               \/ x.in = 0

\* A read is marked as issued only while it is read.
ReadsUnmarked == \A r \in Reads \cap flagIssued : Answering(r)

\* A write that was interrupted too often is forced.
ForcedInTime == \A w \in Writes : cancellations[w] < MaxCancellations \/ w \in forced

\* A write that was interrupted comes back in the next cycle, and the commands that
\* interrupted it are still in the queue.
InterrupterQueued ==
    \A x \in responses : Interrupted(x.request) =>
        \/ x.in = 1 /\ cleanup = "next" /\ Len(commandQueue) = 2
        \/ x.in = 0 /\ cleanup = "due" /\ Len(commandQueue) = 2
        \/ x.in = 0 /\ cleanup = "none" /\ (NoWriteLost => ~EffectivelyEmpty(commandQueue))

IndInv ==
    /\ TypeOK /\ QueueInv(transactionQueue, commandQueue)
    /\ OneAnswer /\ WriteEventKnown /\ ReadsUnmarked /\ ForcedInTime
    /\ InterrupterQueued /\ PutBackAwaited
=============================================================================
