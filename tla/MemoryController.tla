-------------------------- MODULE MemoryController --------------------------
(***************************************************************************)
(* NVmain's memory controller of one channel and one rank                  *)
(* (src/NVmain/src/MemoryController.cpp), scheduled by FR-FCFS             *)
(* (src/NVmain/MemControl/FRFCFS/FRFCFS.cpp): transactions wait in a       *)
(* transaction queue, are turned into ACTIVATE, PRECHARGE and column       *)
(* commands in command queues, and the heads of these are issued, at most  *)
(* one per cycle. The controller never looks at the rows of the device: it *)
(* keeps its own record of the rows that will be open once its queues are  *)
(* drained. It does nothing unless an event wakes it: EventCycle for the   *)
(* transaction queue, CommandQueueCallback for the command queues.         *)
(*                                                                         *)
(* Time is relative: a pending event is given by its distance from now,    *)
(* and Tick moves to the next cycle once every event due is handled. The   *)
(* events of a cycle are handled in the order of their priorities          *)
(* (module EventQueue). READ and WRITE are one COLUMN command (write       *)
(* pausing is off); activeSubArray is effectiveRow # NoRow, and a row      *)
(* stands for the pair of effectiveRow and effectiveMuxedRow: the code     *)
(* always assigns them together. Only IsLastRequest compares the row       *)
(* alone, so that ClosePage 1 is exact where a row has one mux level       *)
(* (RBSize = COLS); the configurations that set ClosePage have 0.          *)
(* ScheduleScheme is 1 or 2, which are the same for one rank; with 0       *)
(* curQueue would stay at the first queue.                                 *)
(***************************************************************************)
EXTENDS Integers, Sequences, FiniteSets, Lists

CONSTANTS
    Requests,              \* the transactions that can be outstanding
    NoRequest,             \* not a request: the commands made by the controller
    BANKS, SubArrayNum,    \* banks of the rank, subarrays of a bank
    Rows, NoRow,           \* p->ROWS, the invalid row, is NoRow
    QueueModel,            \* "PerRank", "PerBank" or "PerSubArray"
    ClosePage,             \* 0 open page, 1 relaxed close page, 2 restricted close page
    UsePrecharge,
    StarvationThreshold,
    QueueSize,             \* queueSize of FRFCFS
    UseRefresh, BanksPerRefresh, DelayedRefreshThreshold,
    TREFI,                 \* m_tREFI, the cycles between two refreshes of a bank group
    Delays                 \* cycles for which a command may occupy its bank

Banks == 0 .. BANKS - 1
SubArrays == 0 .. SubArrayNum - 1
Groups == 0 .. (BANKS \div BanksPerRefresh) - 1

ASSUME SizesAssumption == {BANKS, SubArrayNum, QueueSize} \subseteq Nat \ {0}
ASSUME PolicyAssumption ==
    /\ QueueModel \in {"PerRank", "PerBank", "PerSubArray"}
    /\ ClosePage \in 0 .. 2
    /\ UsePrecharge \in BOOLEAN
    /\ StarvationThreshold \in Nat
ASSUME RefreshAssumption ==
    /\ BanksPerRefresh \in Nat \ {0}
    /\ BANKS % BanksPerRefresh = 0
    /\ DelayedRefreshThreshold \in Nat \ {0}
    /\ UseRefresh \in BOOLEAN
    /\ TREFI \in Nat \ {0}
ASSUME DelaysAssumption == Delays \subseteq Nat \ {0} /\ IsFiniteSet(Delays)
ASSUME NoneAssumption == NoRequest \notin Requests /\ NoRow \notin Rows

VARIABLES
    transactionQueue, arrived,                    \* the transaction queue
    commandQueues, issued, lastIssueCycle, curQueue,  \* the command queues
    activateQueued, effectiveRow, starvationCounter,  \* the record of the rows
    delayedRefreshCounter, bankNeedRefresh, refreshQueued, handledRefresh,
    nextRefreshBank,                              \* refresh
    cycleNow, cycleNext, wake, cleanup, refreshIn, \* pending events
    openRow, busy, inFlight                       \* the device

queueVars == <<commandQueues, issued, lastIssueCycle, curQueue>>
rowVars == <<activateQueued, effectiveRow, starvationCounter>>
refreshVars == <<delayedRefreshCounter, bankNeedRefresh, handledRefresh, nextRefreshBank>>
deviceVars == <<openRow, busy, inFlight>>
vars == <<transactionQueue, arrived, queueVars, rowVars, refreshVars,
          refreshQueued, cycleNow, cycleNext, wake, cleanup, refreshIn, deviceVars>>

-----------------------------------------------------------------------------
\* GetCommandQueueId.
QueueOf(bank, sa) ==
    CASE QueueModel = "PerRank" -> 0
      [] QueueModel = "PerBank" -> bank
      [] QueueModel = "PerSubArray" -> bank * SubArrayNum + sa
Queues == {QueueOf(bank, sa) : bank \in Banks, sa \in SubArrays}
RequestQueue(t) == QueueOf(t.bank, t.sa)

Transactions == [request : Requests, bank : Banks, sa : SubArrays, row : Rows]
Types == {"ACTIVATE", "COLUMN", "COLUMN_PRECHARGE", "PRECHARGE", "PRECHARGE_ALL", "REFRESH"}
Commands == [type : Types, bank : Banks, sa : SubArrays, row : Rows \cup {NoRow},
             request : Requests \cup {NoRequest}]

Command(type, bank, sa) ==
    [type |-> type, bank |-> bank, sa |-> sa, row |-> NoRow, request |-> NoRequest]
RequestCommand(type, t) ==
    [type |-> type, bank |-> t.bank, sa |-> t.sa, row |-> t.row,
     request |-> IF type = "ACTIVATE" THEN NoRequest ELSE t.request]

\* The banks refreshed together; HandleRefresh addresses the first of them.
GroupOf(bank) == bank \div BanksPerRefresh
GroupHead(g) == g * BanksPerRefresh
GroupBanks(g) == {bank \in Banks : GroupOf(bank) = g}
NeedRefresh(counter, g) == counter[g] >= DelayedRefreshThreshold

\* Empty, or empty once CleanupCallback has removed the issued head.
EffectivelyEmpty(cq, flagged, q) ==
    \/ cq[q] = <<>>
    \/ Len(cq[q]) = 1 /\ q \in flagged

TransactionAvailable(list, q) == \E i \in DOMAIN list : RequestQueue(list[i]) = q

-----------------------------------------------------------------------------
(* The device, as far as the controller sees it: a command keeps its bank   *)
(* busy for a while, and rows are opened and closed.                        *)

Occupied(c) == IF c.type = "REFRESH" THEN GroupBanks(GroupOf(c.bank)) ELSE {c.bank}

\* What SubArray::IsIssuable asks of the open row. DDR3Bank asks its first subarray
\* whether a REFRESH may be issued.
RowFits(c) ==
    /\ c.type = "ACTIVATE" => ~UsePrecharge \/ openRow[c.bank][c.sa] = NoRow
    /\ c.type \in {"COLUMN", "COLUMN_PRECHARGE"} => openRow[c.bank][c.sa] = c.row
    /\ c.type = "REFRESH" =>
        ~UsePrecharge \/ \A bank \in Occupied(c) : openRow[bank][0] = NoRow

\* IsIssuable of the rank, the bank and the subarray.
IsIssuable(c) == RowFits(c) /\ \A bank \in Occupied(c) : busy[bank] = 0

\* The row a command leaves open in a subarray where `row' was open. (A refresh finds
\* no row open, or leaves it open when precharges are not used.)
OpensRow(c, bank, sa) == bank = c.bank /\ sa = c.sa /\ c.type = "ACTIVATE"
ClosesRow(c, bank, sa) ==
    /\ bank = c.bank
    /\ \/ c.type = "PRECHARGE_ALL"
       \/ c.type \in {"COLUMN_PRECHARGE", "PRECHARGE"} /\ sa = c.sa
RowAfter(c, bank, sa, row) ==
    IF OpensRow(c, bank, sa) THEN c.row ELSE IF ClosesRow(c, bank, sa) THEN NoRow ELSE row

DeviceIssue(c) ==
    /\ openRow' = [bank \in Banks |-> [sa \in SubArrays |->
                    RowAfter(c, bank, sa, openRow[bank][sa])]]
    /\ \E d \in Delays : busy' = [bank \in Banks |->
                    IF bank \in Occupied(c) THEN d ELSE busy[bank]]
    /\ inFlight' = inFlight \cup ({c.request} \ {NoRequest})

\* NextIssuable: a cycle, not now, that is not later than the first in which the head
\* of some queue can be issued; none when it finds no queue with a command. The
\* queues it looks at are those of each bank's first subarray. (NextIssuable also
\* calls HandleRefresh when some group needs a refresh: see NoRefreshOwed.)
WakeTimes(cq) ==
    LET heads == {Head(cq[QueueOf(bank, 0)]) : bank \in
                    {b \in Banks : cq[QueueOf(b, 0)] # <<>>}}
    IN  IF heads = {} THEN {{}}
        ELSE {{n} : n \in 1 .. Least({1 + busy[c.bank] : c \in heads})}

\* Mutant: commands are queued without a wake-up.
ScheduleNoWake(cq) == wake' = wake

\* ScheduleCommandWake: at most one CommandQueueCallback per cycle.
ScheduleCommandWake(cq) == \E w \in WakeTimes(cq) : wake' = wake \cup w

-----------------------------------------------------------------------------
Init ==
    /\ transactionQueue = <<>>
    /\ arrived = {}
    /\ commandQueues = [q \in Queues |-> <<>>]
    /\ issued = {}
    /\ lastIssueCycle = "now"
    /\ curQueue = 0
    /\ activateQueued = {}
    /\ effectiveRow = [bank \in Banks |-> [sa \in SubArrays |-> NoRow]]
    /\ starvationCounter = [bank \in Banks |-> [sa \in SubArrays |-> 0]]
    /\ delayedRefreshCounter = [g \in Groups |-> 0]
    /\ bankNeedRefresh = {}
    /\ refreshQueued = {}
    /\ handledRefresh = "past"
    /\ nextRefreshBank = 0
    /\ cycleNow = 0
    /\ cycleNext = 0
    /\ wake = {}
    /\ cleanup = "none"
    /\ refreshIn = [g \in Groups |-> TREFI + g * (TREFI \div Cardinality(Groups))]
    /\ openRow = [bank \in Banks |-> [sa \in SubArrays |-> NoRow]]
    /\ busy = [bank \in Banks |-> 0]
    /\ inFlight = {}

Outstanding(r) ==
    \/ r \in inFlight
    \/ \E i \in DOMAIN transactionQueue : transactionQueue[i].request = r
    \/ \E q \in Queues : \E i \in DOMAIN commandQueues[q] :
        commandQueues[q][i].request = r /\ ~(i = 1 /\ q \in issued)

\* FRFCFS::IssueCommand and Enqueue.
Enqueue(t) ==
    /\ ~Outstanding(t.request)
    /\ Len(transactionQueue) < QueueSize
    /\ transactionQueue' = Append(transactionQueue, t)
    /\ arrived' = arrived \cup {t.request}
    /\ cycleNow' = IF cycleNow = 0 /\ EffectivelyEmpty(commandQueues, issued, RequestQueue(t))
                   THEN 1 ELSE cycleNow
    /\ UNCHANGED <<queueVars, rowVars, refreshVars, refreshQueued, cycleNext, wake,
                   cleanup, refreshIn, deviceVars>>

\* The device has carried out a transaction; RequestComplete passes it to NVMain.
RequestComplete(r) ==
    /\ r \in inFlight
    /\ inFlight' = inFlight \ {r}
    /\ UNCHANGED <<transactionQueue, arrived, queueVars, rowVars, refreshVars,
                   refreshQueued, cycleNow, cycleNext, wake, cleanup, refreshIn,
                   openRow, busy>>

-----------------------------------------------------------------------------
(* CycleCommandQueues: the command queues cq are served from curQueue on;   *)
(* nothing is issued in a cycle that has issued a command or has queued a   *)
(* refresh.                                                                 *)

\* Mutant: a cycle may issue several commands.
IssuableQueuesAlways(cq) == {q \in Queues : cq[q] # <<>> /\ IsIssuable(Head(cq[q]))}

IssuableQueues(cq) ==
    IF "now" \in {lastIssueCycle, handledRefresh} THEN {}
    ELSE {q \in Queues : cq[q] # <<>> /\ IsIssuable(Head(cq[q]))}

ServedQueue(cq) ==
    LET distance(q) == (q - curQueue) % Cardinality(Queues)
    IN  CHOOSE q \in IssuableQueues(cq) :
            \A p \in IssuableQueues(cq) : distance(q) <= distance(p)

\* Mutant: the issued command, still in its queue, is not counted.
WakeupsEmpty(cq, list) ==
    IF /\ IssuableQueues(cq) # {}
       /\ Len(cq[ServedQueue(cq)]) = 0
       /\ TransactionAvailable(list, ServedQueue(cq))
    THEN 1 ELSE 0

\* The EventCycles it inserts for the next cycle, without looking for one: a queue
\* is about to become empty and a transaction waits for it.
Wakeups(cq, list) ==
    IF /\ IssuableQueues(cq) # {}
       /\ Len(cq[ServedQueue(cq)]) = 1
       /\ TransactionAvailable(list, ServedQueue(cq))
    THEN 1 ELSE 0

\* Mutant: the wrap-around is forgotten.
MoveCurrentQueueOn == curQueue + 1

\* It wraps around one late: the place after the last queue is a turn of the first one.
MoveCurrentQueue == IF curQueue + 1 > Cardinality(Queues) THEN 0 ELSE curQueue + 1

\* Mutant: only the bank that the command addresses is reset.
ResetRefreshQueuedHead(c) == IF c.type = "REFRESH" THEN {c.bank} ELSE {}

\* The banks whose refresh is no longer queued once c is issued.
ResetRefreshQueued(c) == IF c.type = "REFRESH" THEN Occupied(c) ELSE {}

CycleCommandQueues(cq) ==
    /\ commandQueues' = cq
    /\ \/ /\ IssuableQueues(cq) = {}
          /\ UNCHANGED <<issued, lastIssueCycle, curQueue, refreshQueued, cleanup, deviceVars>>
       \/ /\ IssuableQueues(cq) # {}
          /\ LET q == ServedQueue(cq)
                 c == Head(cq[q])
             IN  /\ DeviceIssue(c)
                 /\ issued' = issued \cup {q}
                 /\ refreshQueued' = refreshQueued \ ResetRefreshQueued(c)
          /\ lastIssueCycle' = "now"
          /\ cleanup' = "next"
          /\ curQueue' = MoveCurrentQueue

\* MemoryController::Cycle: look again in the next cycle if a queue is free for a
\* waiting transaction, unless that is scheduled (n EventCycles are).
Recheck(cq, flagged, list, n) ==
    IF n = 0 /\ \E q \in Queues :
                    EffectivelyEmpty(cq, flagged, q) /\ TransactionAvailable(list, q)
    THEN 1 ELSE n

-----------------------------------------------------------------------------
(* FR-FCFS.                                                                 *)

\* Mutant: banks marked for a refresh are not left alone.
SchedulableUnmarked(t) ==
    commandQueues[RequestQueue(t)] = <<>> /\ t.request \notin arrived

\* What the four searches ask of a transaction.
Schedulable(t) ==
    /\ commandQueues[RequestQueue(t)] = <<>>
    /\ t.bank \notin bankNeedRefresh \cup refreshQueued
    /\ t.request \notin arrived

Active(t) == t.bank \in activateQueued
RowHit(t) == Active(t) /\ effectiveRow[t.bank][t.sa] = t.row

\* Mutant: no transaction counts as starved.
StarvedNever(t) == FALSE

\* The row record of its subarray has had its share of hits.
Starved(t) ==
    /\ Active(t)
    /\ ~RowHit(t)
    /\ starvationCounter[t.bank][t.sa] >= StarvationThreshold

\* Mutant: the row hits are searched from the back of the queue.
NewestTransaction ==
    LET ready == {i \in DOMAIN transactionQueue : Schedulable(transactionQueue[i])}
        hits == {i \in ready : RowHit(transactionQueue[i])}
    IN  CASE hits # {} -> CHOOSE i \in hits : \A j \in hits : j <= i
          [] hits = {} /\ ready # {} -> Least(ready)
          [] OTHER -> 0

\* The place of the transaction to schedule, 0 for none: a starved one, a row buffer
\* hit, one to an active bank, or one to a closed bank; the first in the queue. No
\* bank has cached data (FindCachedAddress) and no write can be paused
\* (FindWriteStalledRead).
NextTransaction ==
    LET ready == {i \in DOMAIN transactionQueue : Schedulable(transactionQueue[i])}
        starved == {i \in ready : Starved(transactionQueue[i])}
        hits == {i \in ready : RowHit(transactionQueue[i])}
        active == {i \in ready : Active(transactionQueue[i])}
    IN  CASE starved # {} -> Least(starved)
          [] starved = {} /\ hits # {} -> Least(hits)
          [] starved = {} /\ hits = {} /\ active # {} -> Least(active)
          [] active = {} /\ ready # {} -> Least(ready)
          [] OTHER -> 0

SameRow(s, t) == s.bank = t.bank /\ s.sa = t.sa /\ s.row = t.row

\* IsLastRequest: no other transaction of the queue needs the row, or the policy is
\* to close it always.
LastRequest(t, rest) ==
    \/ ClosePage = 2
    \/ ClosePage = 1 /\ ~\E i \in DOMAIN rest : SameRow(rest[i], t)

\* IssueMemoryCommands closes the row after this column command.
Closes(t, rest) ==
    UsePrecharge /\ LastRequest(t, rest) /\ (~Active(t) \/ RowHit(t))

\* Mutant: a row is opened over an open one.
CommandsWithoutPrecharge(t, rest) ==
    (IF RowHit(t) THEN <<>> ELSE <<RequestCommand("ACTIVATE", t)>>)
    \o <<RequestCommand(IF Closes(t, rest) THEN "COLUMN_PRECHARGE" ELSE "COLUMN", t)>>

\* The commands IssueMemoryCommands queues.
CommandsFor(t, rest) ==
    LET row == effectiveRow[t.bank][t.sa]
    IN  (IF Active(t) /\ ~RowHit(t) /\ row # NoRow /\ UsePrecharge
         THEN <<Command("PRECHARGE", t.bank, t.sa)>> ELSE <<>>)
        \o (IF RowHit(t) THEN <<>> ELSE <<RequestCommand("ACTIVATE", t)>>)
        \o <<RequestCommand(IF Closes(t, rest) THEN "COLUMN_PRECHARGE" ELSE "COLUMN", t)>>

\* Mutant: the other subarrays are not looked at.
LastOpenAlways(t) == TRUE

\* No other subarray of the bank will be open.
LastOpen(t) == \A s \in SubArrays \ {t.sa} : effectiveRow[t.bank][s] = NoRow

\* The record after IssueMemoryCommands. The count of hits has no limit.
RecordRows(t, rest) ==
    LET bank == t.bank
        sa == t.sa
    IN  /\ effectiveRow' = [effectiveRow EXCEPT ![bank][sa] =
                                IF Closes(t, rest) THEN NoRow ELSE t.row]
        /\ activateQueued' = IF Closes(t, rest) /\ LastOpen(t)
                             THEN activateQueued \ {bank} ELSE activateQueued \cup {bank}
        /\ starvationCounter' = [starvationCounter EXCEPT ![bank][sa] =
                                IF RowHit(t) THEN @ + 1 ELSE 0]

-----------------------------------------------------------------------------
(* The events of a cycle, in the order of their priorities.                 *)

RefreshDue == {g \in Groups : UseRefresh /\ refreshIn[g] = 0}

\* Removes the issued commands (cleanupPriority).
CleanupCallback ==
    /\ cleanup = "due"
    /\ cleanup' = "none"
    /\ commandQueues' = [q \in Queues |->
            IF q \in issued THEN Tail(commandQueues[q]) ELSE commandQueues[q]]
    /\ issued' = {}
    /\ UNCHANGED <<transactionQueue, arrived, lastIssueCycle, curQueue, rowVars,
                   refreshVars, refreshQueued, cycleNow, cycleNext, wake, refreshIn, deviceVars>>

\* The i-th bank of a set of banks.
BankAt(S, i) ==
    LET here == {bank \in S : Cardinality({b \in S : b < bank}) = i - 1}
    IN  CHOOSE bank \in Banks : here # {} => bank \in here

\* HandleRefresh queues these before the REFRESH, bank by bank, and forgets the rows.
Precharges(q, g) ==
    LET banks == {bank \in GroupBanks(g) \cap activateQueued : QueueOf(bank, 0) = q}
    IN  [i \in 1 .. Cardinality(banks) |-> Command("PRECHARGE_ALL", BankAt(banks, i), 0)]

DecrementRefreshCounter(counter, g) == [counter EXCEPT ![g] = @ - 1]

HandleRefresh(counter, g) ==
    LET head == GroupHead(g)
        cq == [q \in Queues |->
                    commandQueues[q]
                    \o (IF UsePrecharge THEN Precharges(q, g) ELSE <<>>)
                    \o (IF q = QueueOf(head, 0) THEN <<Command("REFRESH", head, 0)>> ELSE <<>>)]
        closed == IF UsePrecharge THEN GroupBanks(g) \cap activateQueued ELSE {}
    IN  /\ commandQueues' = cq
        /\ effectiveRow' = [bank \in Banks |->
                IF bank \in closed THEN [sa \in SubArrays |-> NoRow] ELSE effectiveRow[bank]]
        /\ activateQueued' = activateQueued \ closed
        /\ refreshQueued' = refreshQueued \cup GroupBanks(g)
        /\ delayedRefreshCounter' = DecrementRefreshCounter(counter, g)
        /\ bankNeedRefresh' =
                IF NeedRefresh(delayedRefreshCounter', g)
                THEN bankNeedRefresh \cup GroupBanks(g) ELSE bankNeedRefresh \ GroupBanks(g)
        /\ nextRefreshBank' = (nextRefreshBank + BanksPerRefresh) % BANKS
        /\ handledRefresh' = "now"
        /\ ScheduleCommandWake(cq)

\* The refresh pulse of group g (refreshPriority): ProcessRefreshPulse counts it and
\* sets the next one, HandleRefresh serves the first group from nextRefreshBank on
\* that needs a refresh.
RefreshCallback(g) ==
    /\ cleanup # "due"
    /\ g \in RefreshDue
    /\ refreshIn' = [refreshIn EXCEPT ![g] = TREFI]
    /\ LET counter == [delayedRefreshCounter EXCEPT ![g] = @ + 1]
           needy == {h \in Groups : NeedRefresh(counter, h)}
           turn(h) == (h - GroupOf(nextRefreshBank)) % Cardinality(Groups)
       IN  \/ /\ needy = {}
              /\ delayedRefreshCounter' = counter
              /\ UNCHANGED <<commandQueues, activateQueued, effectiveRow, refreshQueued,
                             bankNeedRefresh, nextRefreshBank, handledRefresh, wake>>
           \/ /\ needy # {}
              /\ HandleRefresh(counter,
                    CHOOSE h \in needy : \A k \in needy : turn(h) <= turn(k))
    /\ UNCHANGED <<transactionQueue, arrived, issued, lastIssueCycle, curQueue,
                   starvationCounter, cycleNow, cycleNext, cleanup, deviceVars>>

\* EventCycle: FRFCFS::Cycle (transactionQueuePriority).
Cycle ==
    /\ cleanup # "due"
    /\ RefreshDue = {}
    /\ cycleNow > 0
    /\ cycleNow' = cycleNow - 1
    /\ LET i == NextTransaction
           t == transactionQueue[i]
           rest == Without(transactionQueue, i)
           cq == IF i = 0 THEN commandQueues
                 ELSE [commandQueues EXCEPT ![RequestQueue(t)] = @ \o CommandsFor(t, rest)]
       IN  /\ \/ /\ i = 0
                 /\ UNCHANGED <<transactionQueue, rowVars, wake>>
              \/ /\ i # 0
                 /\ transactionQueue' = rest
                 /\ RecordRows(t, rest)
                 /\ ScheduleCommandWake(cq)
           /\ CycleCommandQueues(cq)
           /\ cycleNext' = Recheck(commandQueues', issued', transactionQueue',
                                   cycleNext + Wakeups(cq, transactionQueue'))
    /\ UNCHANGED <<arrived, refreshVars, refreshIn>>

\* CommandQueueCallback (commandQueuePriority): sets the next wake-up before it issues.
CommandQueueCallback ==
    /\ cleanup # "due"
    /\ RefreshDue = {}
    /\ cycleNow = 0
    /\ 0 \in wake
    /\ \E w \in WakeTimes(commandQueues) : wake' = (wake \ {0}) \cup w
    /\ CycleCommandQueues(commandQueues)
    /\ cycleNext' = cycleNext + Wakeups(commandQueues, transactionQueue)
    /\ UNCHANGED <<transactionQueue, arrived, rowVars, refreshVars, cycleNow, refreshIn>>

\* Every event of the cycle is handled.
Tick ==
    /\ cleanup # "due"
    /\ RefreshDue = {}
    /\ cycleNow = 0
    /\ 0 \notin wake
    /\ cycleNow' = cycleNext
    /\ cycleNext' = 0
    /\ wake' = {n - 1 : n \in wake}
    /\ cleanup' = IF cleanup = "next" THEN "due" ELSE "none"
    /\ refreshIn' = IF UseRefresh THEN [g \in Groups |-> refreshIn[g] - 1] ELSE refreshIn
    /\ busy' = [bank \in Banks |-> IF busy[bank] = 0 THEN 0 ELSE busy[bank] - 1]
    /\ arrived' = {}
    /\ lastIssueCycle' = "past"
    /\ handledRefresh' = "past"
    /\ UNCHANGED <<transactionQueue, commandQueues, issued, curQueue, rowVars,
                   delayedRefreshCounter, bankNeedRefresh, refreshQueued, nextRefreshBank,
                   openRow, inFlight>>

EventStep ==
    \/ CleanupCallback
    \/ \E g \in Groups : RefreshCallback(g)
    \/ Cycle
    \/ CommandQueueCallback

Next ==
    \/ \E t \in Transactions : Enqueue(t)
    \/ \E r \in Requests : RequestComplete(r)
    \/ EventStep
    \/ Tick

Spec == Init /\ [][Next]_vars

\* No event is pending and time changes nothing any more: ~ENABLED <<EventStep \/ Tick>>_vars.
Idle ==
    /\ cycleNow + cycleNext = 0 /\ wake = {} /\ cleanup = "none" /\ ~UseRefresh
    /\ arrived = {} /\ "now" \notin {lastIssueCycle, handledRefresh}
    /\ \A bank \in Banks : busy[bank] = 0

\* The simulator keeps the event queue running (this is WF_vars(EventStep \/ Tick)),
\* and the device answers.
FairSpec ==
    /\ Spec
    /\ []<>Idle \/ []<><<EventStep \/ Tick>>_vars
    /\ \A r \in Requests : WF_vars(RequestComplete(r))

-----------------------------------------------------------------------------
\* The types of the queues, the record, the pending events and the device; in
\* particular curQueue passes the last queue by one at most.
TypeOK ==
    /\ transactionQueue \in Seq(Transactions)
    /\ arrived \in SUBSET Requests
    /\ commandQueues \in [Queues -> Seq(Commands)]
    /\ issued \in SUBSET Queues
    /\ lastIssueCycle \in {"now", "past"}
    /\ curQueue \in 0 .. Cardinality(Queues)
    /\ activateQueued \in SUBSET Banks
    /\ effectiveRow \in [Banks -> [SubArrays -> Rows \cup {NoRow}]]
    /\ starvationCounter \in [Banks -> [SubArrays -> Nat]]
    /\ delayedRefreshCounter \in [Groups -> Nat]
    /\ bankNeedRefresh \in SUBSET Banks
    /\ refreshQueued \in SUBSET Banks
    /\ handledRefresh \in {"now", "past"}
    /\ nextRefreshBank \in Banks
    /\ cycleNow \in Nat /\ cycleNext \in Nat
    /\ wake \in SUBSET Nat
    /\ cleanup \in {"none", "next", "due"}
    /\ refreshIn \in [Groups -> Nat]
    /\ openRow \in [Banks -> [SubArrays -> Rows \cup {NoRow}]]
    /\ busy \in [Banks -> Nat]
    /\ inFlight \in SUBSET Requests

\* The commands of a queue still to be issued.
Pending(q) == IF q \in issued THEN Tail(commandQueues[q]) ELSE commandQueues[q]

\* After the first k commands of a list, `row' is open in a subarray where `open' was
\* before: the last of them that opens or closes a row there decides.
ChangesRow(c, bank, sa) == OpensRow(c, bank, sa) \/ ClosesRow(c, bank, sa)
RowThen(open, list, k, bank, sa, row) ==
    \/ /\ row = open
       /\ \A j \in 1 .. k : ~ChangesRow(list[j], bank, sa)
    \/ \E i \in 1 .. k :
        /\ ChangesRow(list[i], bank, sa)
        /\ row = RowAfter(list[i], bank, sa, NoRow)
        /\ \A j \in i + 1 .. k : ~ChangesRow(list[j], bank, sa)

\* The controller's record of the rows is what the device will have open once the
\* queue is drained; it never asks the device.
RecordMatchesDevice ==
    \A bank \in Banks, sa \in SubArrays :
        LET list == Pending(QueueOf(bank, sa))
        IN  /\ RowThen(openRow[bank][sa], list, Len(list), bank, sa, effectiveRow[bank][sa])
            /\ bank \in activateQueued <=> \E s \in SubArrays : effectiveRow[bank][s] # NoRow

\* A command at the head of its queue only waits for time to pass: the device is in
\* the state it needs. Otherwise its queue would stand still until DeadlockTimer
\* ends the simulation. (A REFRESH also waits for the precharges in other queues.)
HeadFitsDevice ==
    \A q \in Queues \ issued : commandQueues[q] # <<>> =>
        LET c == Head(commandQueues[q])
        IN  c.type # "REFRESH" => RowFits(c)

\* The REFRESH commands of group g still to be issued, as places in the queues.
RefreshesWaiting(g) ==
    {x \in UNION {{q} \X DOMAIN Pending(q) : q \in Queues} :
        LET c == Pending(x[1])[x[2]]
        IN  c.type = "REFRESH" /\ GroupOf(c.bank) = g}

\* A bank is marked as waiting for a refresh exactly while one REFRESH of its group is
\* queued: ResetRefreshQueued asserts the mark when a REFRESH is issued, and a second
\* one, queued by the next pulse before the first is issued, would find it gone.
RefreshMarked ==
    \A g \in Groups :
        /\ Cardinality(RefreshesWaiting(g)) <= 1
        /\ \A bank \in GroupBanks(g) : bank \in refreshQueued <=> RefreshesWaiting(g) # {}

\* A refresh is issued before the next pulse of its group comes, although nothing waits for
\* that: the mark keeps new commands from the banks, and those queued only take time.
RefreshesInTime == \A g \in RefreshDue : RefreshesWaiting(g) = {}

\* A bank that is marked has a REFRESH coming that takes the mark away: the scheduler does
\* not leave a bank alone for ever.
MarksAnswered ==
    \A g \in Groups : \A bank \in GroupBanks(g) \cap refreshQueued : RefreshesWaiting(g) # {}

\* Between two events no group needs a refresh: each pulse is served at once, so that
\* the call of HandleRefresh in NextIssuable is never made.
NoRefreshOwed == \A g \in Groups : ~NeedRefresh(delayedRefreshCounter, g)

\* A command in a queue has a CommandQueueCallback coming.
CommandsAwaited == (\E q \in Queues : commandQueues[q] # <<>>) => wake # {}

\* A transaction whose queue is free has an EventCycle coming.
TransactionsAwaited ==
    (\E i \in DOMAIN transactionQueue :
        EffectivelyEmpty(commandQueues, issued, RequestQueue(transactionQueue[i])))
    => cycleNow + cycleNext > 0

\* FLAG_ISSUED is set on heads of queues only, and CleanupCallback is coming for them.
IssuedHeads ==
    /\ \A q \in issued : commandQueues[q] # <<>>
    /\ issued # {} => cleanup = "due" \/ (cleanup = "next" /\ lastIssueCycle = "now")

\* The inductive invariant.
IndInv ==
    /\ TypeOK
    /\ IssuedHeads
    /\ NoRefreshOwed
    /\ TransactionsAwaited
    /\ QueueModel # "PerSubArray" => CommandsAwaited

\* What RecordMatchesDevice and HeadFitsDevice need: not only the head, every command
\* finds the row it needs once those before it are issued, and is in the one queue that
\* changes the rows of its subarray, or of its bank's if it closes them all.
CommandFits(open, list, k) ==
    LET c == list[k]
    IN  /\ c.type = "ACTIVATE" /\ UsePrecharge =>
               RowThen(open[c.bank][c.sa], list, k - 1, c.bank, c.sa, NoRow)
        /\ c.type \in {"COLUMN", "COLUMN_PRECHARGE"} =>
               RowThen(open[c.bank][c.sa], list, k - 1, c.bank, c.sa, c.row)
InPlace(c, q) ==
    /\ QueueOf(c.bank, c.sa) = q
    /\ c.type = "PRECHARGE_ALL" => \A s \in SubArrays : QueueOf(c.bank, s) = q
CommandsFit ==
    \A q \in Queues : \A k \in DOMAIN Pending(q) :
        InPlace(Pending(q)[k], q) /\ CommandFits(openRow, Pending(q), k)
RowInv == RecordMatchesDevice /\ CommandsFit

\* The precharges before a refresh are in the queues of the rows they close. (With a queue
\* per subarray they are not: HandleRefresh queues them for the first subarray.)
PrechargesReach ==
    UseRefresh /\ UsePrecharge =>
        \A bank \in Banks, sa \in SubArrays : QueueOf(bank, sa) = QueueOf(bank, 0)

\* The transactions scheduled: those whose column command is still to be issued.
TransactionOf(c) ==
    [request |-> c.request, bank |-> c.bank, sa |-> c.sa, row |-> c.row]
TransactionsIn(list) ==
    {TransactionOf(list[i]) : i \in {k \in DOMAIN list : list[k].request # NoRequest}}
Scheduled == UNION {TransactionsIn(Pending(q)) : q \in Queues}

\* What NVMain counts on (its Schedule is this Work): each transaction is issued exactly
\* once, and transactions to one row in the order of their arrival, whatever row hits,
\* starvation, other subarrays and refreshes do to the order of the others.
ChannelView == INSTANCE Channel WITH
    queue <- transactionQueue, scheduled <- Scheduled, active <- inFlight
KeepsOrder == ChannelView!Spec

\* What this needs: a request is in one place only, a scheduled one in the queue of its
\* subarray, and those that came in this cycle are the last.
OrderInv ==
    /\ \A i, j \in DOMAIN transactionQueue :
           transactionQueue[i].request = transactionQueue[j].request => i = j
    /\ \A i \in DOMAIN transactionQueue :
           /\ transactionQueue[i].request \notin inFlight
           /\ \A q \in Queues : \A k \in DOMAIN Pending(q) :
                  Pending(q)[k].request # transactionQueue[i].request
    /\ \A q \in Queues : \A k \in DOMAIN Pending(q) : Pending(q)[k].request # NoRequest =>
           /\ QueueOf(Pending(q)[k].bank, Pending(q)[k].sa) = q
           /\ Pending(q)[k].request \notin inFlight
           /\ \A p \in Queues : \A l \in DOMAIN Pending(p) :
                  Pending(p)[l].request = Pending(q)[k].request => p = q /\ l = k
    /\ \A i, j \in DOMAIN transactionQueue :
           i < j /\ transactionQueue[i].request \in arrived =>
               transactionQueue[j].request \in arrived

\* No command is issued while an issued one is still in its queue, so that none is
\* issued twice: CycleCommandQueues does not look at FLAG_ISSUED, it counts on
\* CleanupCallback coming first in the next cycle.
IssuedOnce == [][issued # {} => \A bank \in Banks : busy'[bank] <= busy[bank]]_vars

\* Every transaction accepted is issued to the device.
EveryTransactionIssued ==
    \A r \in Requests :
        (\E i \in DOMAIN transactionQueue : transactionQueue[i].request = r) ~> r \in inFlight
=============================================================================
