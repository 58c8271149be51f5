# NVmain: TLA+ models and proofs

This directory holds a verification project for NVmain, a cycle-level simulator of
non-volatile main memory that is run here as the memory of gem5. The repository adds
to NVmain a tag cache: the DRAM channel caches lines of the NVRAM channel
(`src/NVmain/NVM/nvmain.cpp`). Paths below are relative to the root of the repository;
`PROJECT.json` maps every definition to the lines it models.

## 1. Inventory

| component | state | operations | what makes it correct |
|---|---|---|---|
| `EventQueue` (`src/NVmain/src/EventQueue.cpp`) | map cycle -> list of events by priority; current, next and last event cycle | `InsertEvent`, `InsertCallback`, `RemoveEvent`, `Loop`, `Loop(steps)`, `Process` | each event delivered in its cycle, by priority and in order of insertion; `nextEventCycle` exact; time never passes an event |
| `GlobalEventQueue` (same file) | one queue per clock domain, a global cycle | `AddSystem`, `Cycle`, `Sync`, `GetNextEvent` | no queue is stepped over an event; the domains stay in step under the conversion of cycles |
| `MemoryController` (`src/NVmain/src/MemoryController.cpp`) | transaction queue, command queues, a record of open rows, starvation counters, refresh counters and marks, pending wake-ups | `Enqueue`, `Cycle`, `CommandQueueCallback`, `CleanupCallback`, `RefreshCallback`, `RequestComplete` | the row record agrees with the device; no work without a wake-up; every refresh issued; no starvation; no command issued twice |
| `FRFCFS` (`src/NVmain/MemControl/FRFCFS/`) | queue size | choice of a transaction | starved first, row hits next; a bounded queue |
| `FRFCFS-WQF` (`src/NVmain/MemControl/FRFCFS-WQF/`) | a read and a write queue, two water marks, `m_draining`, `force_drain` | `IsIssuable`, `IssueCommand`, `Cycle`, `Drain` | drains start and end; a full write queue is emptied; reads are served between the drains; `Drain` completes |
| `StandardRank`, `DDR3Bank`, `SubArray` | open rows, earliest cycles of each command, power state, write in progress | `IsIssuable`, `IssueCommand` and one handler per command | a command is taken only in a state that fits it; a write that was interrupted is completed once, and rescheduled |
| `NVMain` (`src/NVmain/NVM/nvmain.cpp`, `nvmain.h`) | LRU of lines, `inverseMap`, next free slot, writes that wait for an eviction | `IsIssuable`, `IssueCommand`, `RequestComplete` | tags consistent; evictions paired with the writes that wait for them; a slot holds the line its tag names; write-backs go to their line |
| gem5 interface (`src/NVmain/Simulators/gem5/nvmain_mem.cc`) | `m_request_map`, two retry flags, response queue; `lastWakeup`, `clockEvent`, `nextEventCycle` | `recvTimingReq`, `RequestComplete`, `tick`, statistics, `drain` | each accepted read answered once; each refusal gets a retry; NVMain neither ahead of gem5 nor asleep with an event to deliver; a drain ends |
| `NVMObject`, hooks, interconnects, address translation, prefetchers, DRAM caches, other banks, fault models, endurance, data encoders, statistics, configuration | see `PROJECT.json` | | |
| gem5, cacti | vendored | | only gem5's port and drain protocols matter here |

Interaction: gem5 calls `recvTimingReq`; the interface asks `NVMain::IsIssuable` and
calls `NVMain::IssueCommand`, which passes the request, another one or several to the
two controllers. A controller registers events with the event queue and does nothing
between them; its commands go down through rank, bank and subarray. Completions come
back as `RequestComplete` calls through the same objects, and both `NVMain` and the
interface do further work in them. Time comes from gem5: `tick`, `recvTimingReq` and the
printing of statistics step the global event queue by the periods since `lastWakeup`,
and it steps the event queue of each memory system.

Nothing runs in parallel; what is hard is the *order* in which events of a cycle,
requests of the client, and completions interleave, and the state that is read in one
handler and used in a later one. `PROJECT.json` lists the hazards, each at its line.

## 2. Modules

| module | models | checked by | proofs |
|---|---|---|---|
| `Lists` | the few list operations used by the others | | `Lists_proofs` |
| `EventQueue` | one `EventQueue`, with callbacks that insert and remove events while it delivers | `MCEventQueue` | `EventQueue_proofs` |
| `Agenda` | what `EventQueue` promises: a set of (event, cycle) pairs | refinement `KeepsAgenda` | in `EventQueue_proofs` |
| `GlobalEventQueue` | `Cycle` and `Sync` over one event queue per clock domain | through `Gem5Clock` | in `Gem5Clock_proofs` |
| `Gem5Clock` | the gem5 interface as what drives the global queue: `tick`, wake-ups, nested requests | `MCGem5Clock` | `Gem5Clock_proofs` |
| `Channel` | what a controller promises to `NVMain`: bounded queue, order per row, single issue | refinement `KeepsOrder` | in `MemoryController_proofs` |
| `MemoryController` | controller and FR-FCFS scheduler of one channel and rank, with the open rows of the device | `MCMemoryController` | `MemoryController_proofs` |
| `FRFCFS_WQF` | the scheduler with a write queue, over the controller's command queues | `MCFRFCFS_WQF` | `FRFCFS_WQF_proofs` |
| `WritePausing` | write pausing and cancellation: subarray, command queue and FR-FCFS | `MCWritePausing` | `WritePausing_proofs` |
| `NVMain` | the tag cache over two channels | through `NVMainMemory` | |
| `NVMainMemory` | the timing port of gem5 composed with `NVMain` | `MCNVMainMemory` | `NVMainMemory_proofs` (tags), `NVMainTraffic_proofs` (requests under way) |

### EventQueue

`eventMap` is a function from cycles to lists; an empty list is a missing key. Each of
`InsertEvent`, `InsertCallback`, `RemoveEvent`, `Loop` and the steps of `Loop(steps)` is an action.
`Process` is split at its callbacks: `cursor` is the list iterator, `ProcessNext` moves
it to the next event, `ProcessEnd` erases the list and looks up the next cycle, and in
between the callback of the event under the iterator may insert and remove events.
Delivered events are freed while their pointers stay in the list, and the search in
`InsertEvent` reads their priorities: `InsertPositions` is therefore a set, with every
outcome of that read. `status` is a history variable: whether an event was delivered,
removed, or erased undelivered.

### GlobalEventQueue and Gem5Clock

An event queue is reduced here to the cycle it has reached and the set of cycles for
which it has events; module `EventQueue` shows what it does within a cycle. `Cycle` is
entered (`EnterCycle`), steps to events (`StepToEvent`, one per iteration), and breaks
(`Break`); after each of these `Sync` steps every queue, through the events on its way
(`SyncDeliver`), to the converted global cycle (`SyncArrive`). A delivery runs
callbacks, which may insert events into any queue (`Outcomes`). The frequency ratios are
exact fractions `Num[q] / Den[q]`; the code computes with doubles, whose rounding is not
modelled.

`Gem5Clock` adds the three callers of `Cycle`, each split at the call: `TickStart` and
`TickEnd`, `RecvStart` and `RecvEnd`, `DumpStart` and `DumpEnd` (printed statistics).
Inside a call, a callback may send a retry and the client answer with a request
(`Nested`), which does not step NVMain again but moves `lastWakeup` and perhaps
`clockEvent`. Which requests are accepted is left open: it is the subject of
`NVMainMemory`. An accepted request leaves an event in some queue, which is what
`TransactionsAwaited` and `CommandsAwaited` say of the controller. `accepted` is the
global cycle of the last request accepted inside a callback: the controller does not
carry a request out in the cycle in which it arrives (`lastIssueCycle` and the
priorities of its events), so that its event is still there at the end of that cycle.
The proof of `WakeScheduled` needs this and brought it to light: a model without it let a
nested request be carried out at once, and with events three cycles ahead `tick` then
left `clockEvent` at the wake-up of a request that was already gone.

### MemoryController

One action per event handler, each with everything the handler calls: `Cycle` chooses
a transaction, makes its commands and registers the events; `CommandQueueCallback`
issues the head of one command queue and schedules the next wake-up; `CleanupCallback`
removes issued heads; `RefreshCallback` counts a pulse and queues the refresh;
`Enqueue` is `FRFCFS::IssueCommand` and `RequestComplete` the answer of the device.
Time is relative: pending events are distances from now, and `Tick` moves on when all
events due were handled, in the order of their priorities. The device is reduced to
the open row of each subarray and a time for which the bank is busy, drawn from
`Delays` when a command is issued: the timing parameters of rank, bank and subarray
only ever delay a command. READ and WRITE are one COLUMN command. Power-down, bulk
commands and cached rows are off; write pausing has a module of its own. A row stands for
the pair of row and mux level. `IsLastRequest` alone compares the row without the level, so
that `ClosePage` 1 is exact only where a row has one level (`RBSize` = `COLS`, as in the
configurations of the two channels); the shipped configurations that set it have
`ClosePage` 0, where nothing is compared. `ScheduleScheme` is 1 (the default) or 2 (the
configurations), which are the same for one rank; 0 is not modelled.

`Channel` is the abstract specification. Its `queue` is the transaction queue, `scheduled`
the transactions whose column command is in a command queue and not yet issued, `active`
the requests at the device. A step of the controller schedules at most one transaction,
which has nothing ahead of it to its row, and issues at most one; row commands,
refreshes, wake-ups and the passing of time are stutters.

### FRFCFS_WQF

The two transaction queues are sets: FR-FCFS may pick any transaction whose command
queue is free, so that no property depends on which one it is. `Cycle` is the whole of
`FRFCFS_WQF::Cycle` with the events that the controller inserts: `Draining` decides
about the drain, `Source` which queue is searched, then a transaction becomes commands
and a command may be issued. `Drain` is called once, at the end of a trace, after which
no request arrives. Rows, refresh and timing are those of `MemoryController` and left
out; a transaction is preceded by up to `MaxRowCommands` row commands, so that queues
stay occupied for several cycles. `Waiting` is what was accepted and not yet issued: the
two queues, and the command queues without the heads that are issued and not yet removed.

### WritePausing

One subarray and the command queue that feeds it. A write in progress has an age
(`writeAge`) and a duration (`writeTimer`); an ACTIVATE or READ that the subarray takes
meanwhile interrupts it (`CheckWritePausing`): its completion event is removed, a
response is inserted for the next cycle, and the write is flagged as paused, with the
time that is left, or as cancelled. `RequestComplete` puts it back into the transaction
queue. The flags, the progress and the count of cancellations are kept in the request,
as in the code, and so is `FLAG_ISSUED` (`flagIssued`). The tag cache is off here: with
it the completion event is at another time than the one it is removed at.

### NVMain and NVMainMemory

`dq` and `m` are the two members of class `LRU`, `inverseMap`, `tmpAddr` and
`waitingDRAMWrite` the members of `NVMain`. Addresses are lines (NVRAM) and slots
(DRAM). `IssueCommand` has one disjunct per branch of the code (hit, read miss, write
to a free slot, write that replaces a line), `RequestComplete` one per kind of request.
The data of a request is reduced to which line it is a copy of and whether a client
wrote it; `dram` is the block that a slot holds, a history of the writes completed in
the DRAM channel. NVmain itself simulates timing and does not move these bytes; the
properties about blocks ask whether the *traffic* that NVMain generates would move the
right ones.

A channel is what `NVMain` sees of a controller: a bounded queue that refuses requests
when full, any order of scheduling that keeps requests to one address in order, and
completions. The detailed controller is `MemoryController`, and `ControllerKeepsOrder` shows
of it that the order is kept and each request issued once.

`NVMainMemory` adds the port: accept or refuse, the retry flags, `m_request_map`, the
answers. The client (gem5, external) may send any packet at any time unless it waits
for a retry. The build is the one that is launched, `gem5.fast`, in which assertions
are compiled out: a failed assertion does not stop a behaviour.

## 3. Runs

Passing runs:

| run | shows | states |
|---|---|---|
| `event_queue` | exact `nextEventCycle`, callbacks by priority and first in first out, the refinement of `Agenda` (nothing is overdue), and that no event waits for ever | 206 000 |
| `clock` | two memory systems, one slower and one faster than the CPU: no event skipped, clocks in step, the next event ahead when `Cycle` returns, NVMain never ahead of gem5, a wake-up whenever there is an event | 1 030 000 |
| `controller_refresh` | implicit precharges, two banks of two subarrays refreshed together, a queue per bank: row record, refresh marks, each refresh issued before the next pulse, wake-ups, single issue | 1 100 000 |
| `controller_live` | open page: the head of a queue fits the open row, the refinement of `Channel` (transactions to one row stay in order, each is issued once), and every transaction is issued, also when no refresh ever closes the row that others hit | 34 000 |
| `wqf` | drains end, a write queue at the high mark is emptied to below it, reads are served between drains, `Drain` completes, bounded queues, wake-ups, each transaction issued exactly once | 94 000 |
| `pausing` | a write paused or cancelled is never completed or queued twice, and is awaited after it was put back without a wake-up | 228 000 |
| `cache` | queues of two that may fill up, addresses in both channels: tags, pairing of evictions, the request map, answers to reads; while no queue was full also settled contents, stale hits only ahead of a write under way, and finished replacements | 97 000 |

Runs that end in a counterexample, each a finding of `PROJECT.json`:

| run | what the code does |
|---|---|
| `event_queue_lost` | an event inserted for the cycle being delivered can land before the iterator and is erased undelivered |
| `wqf_low_mark` | with the default low water mark 0 nothing calls `Cycle` once the last write of a drain is scheduled: the drain goes on, and writes are refused until a read comes |
| `pausing_lost` | an interrupted write is still marked as issued; queued again behind an ACTIVATE, it is removed by the cleanup of the ACTIVATE and never completed |
| `cache_writeback` | a write-back goes to the line that took the slot over |
| `cache_retry` | completions of NVMain's own requests send no retry: the client waits for ever |

The models also contain the following behaviours of the code, which no run states as a
property; each is a hazard of `PROJECT.json`:

- row hits in one subarray starve a transaction of another subarray of the bank for
  ever: the starvation counter is compared per subarray (`EveryTransactionIssued` fails
  with `SubArrayNum` 2);
- a write that replaces a line is never completed and stays in `m_request_map`, so that
  a drain of gem5 does not end;
- `Drain` of `FRFCFS-WQF` called during a drain leaves the waiting reads unscheduled for
  ever (`DrainCompletes` is about the other case);
- the printing of statistics leaves `lastWakeup` alone: the periods since are counted
  twice (`NeverAhead` excludes it by `dumps = 0`), and requests more frequent than the
  clock stop NVMain's time, since each drops the fraction of a period;
- with `QueueModel` `PerSubArray`, `NextIssuable` looks only at the first subarray of
  each bank, so that `CommandsAwaited` fails there; its theorem excludes that model;
- `Cycle` issues a command after it has queued those of a transaction, so that a row hit
  is scheduled and issued in one cycle, against the comment at `MemoryController.h:57`; the
  transaction queue also has the *higher* priority of the two (30 against 40, smaller
  first);
- a fill carries the block that NVRAM had, and overwrites a newer write to the line;
- `IsIssuable` asks the controller of the channel in the client's address while
  `IssueCommand` may use the other: the request is refused after all (`refused`); and
  the result is ignored for NVMain's own requests, which a full queue drops (`pressed`).

Every property of a passing run has a mutant: an operator next to the definition it
replaces, marked "Mutant:", that TLC finds violating the property.

### Bounds

- Events: three events and three priorities put an insertion before, at and after the
  iterator, and ties among waiting callbacks, into one list; three cycles give
  a past, a present and a future. `MaxSteps` 2 lets `Loop(steps)` stop before, at and
  after an event.
- Clock: a queue at two thirds of the CPU clock and one at twice the CPU clock (the
  configuration `NV_S_D_Hybrid.config` has a memory faster than the CPU; the assertion
  against it is compiled out) round in every way the conversions can; two ticks to a
  period leave fractions; six ticks are three periods; events up to two cycles ahead lie
  within and beyond a step. The theorems cover the other ratios.
- Controller: in `controller_live` two rows give hits and conflicts, three requests fill
  a queue of two and keep one waiting while others hit, and `StarvationThreshold` 1 makes
  a transaction starve after one hit. `controller_refresh` has one row per subarray: it
  is about closing rows. `TREFI` leaves just enough time for a refresh and the commands
  before it between two pulses, so that pulses meet every state of the queues.
  Transactions are reused once they are complete: behaviours are infinite and deadlock
  is checked. `starvationCounter` grows without limit, as in the code, where it is compared
  with the threshold by `>=` and nowhere else; `MCView` makes TLC take two states as the
  same that differ only in counts beyond the threshold. They have the same steps and no
  property looks at the counts, so nothing is lost, liveness included.
- Write queue: three requests over two command queues, queues of two, marks at 1 and 2:
  a drain starts with a full queue, ends with a write left, and the third request is a
  read or a write that arrives meanwhile. `wqf_low_mark` has one command queue.
- Pausing: a read and two writes to two rows; a write of four cycles with two
  iterations, a threshold between them, and two cancellations: every interruption can be
  a pause, a cancellation or the last cancellation.
- Cache: three lines, three packets and one slot are the least that allow two
  overlapping evictions of a slot, which the search in `waitingDRAMWrite` must tell
  apart. `QueueSize` 2 lets queues fill up and not: the properties that a dropped request
  breaks are weakened by `pressed`. Each packet is sent once, so a behaviour ends:
  `CHECK_DEADLOCK FALSE` there; for the event queue, where events are used up; and for
  the clock, which ends at `MaxTick`.

### Fairness

- `EventQueue`: gem5 keeps calling `Loop`, and `Loop` and `Process` run to their ends.
  Nobody is obliged to insert or remove anything.
- `MemoryController`: the event queue goes on delivering (weak fairness of
  `EventStep \/ Tick`, written with `Idle` for `~ENABLED`, which TLC evaluates slowly
  here; the event queue's own runs justify it), and the device answers each request. New
  transactions are not fair: the liveness must hold whether or not they arrive, and
  whatever hits they make.
- `FRFCFS_WQF`: time goes on, the device answers, and a head that is ready again and
  again is issued (strong fairness of `CommandQueueCallback`). It is strong since the
  events of a cycle that come before it disable it for a while; in the code it runs in
  the cycle for which `NextIssuable` scheduled it, after those events, and
  `MemoryController` shows that it is scheduled (`CommandsAwaited`).
- `NVMainMemory`: each controller goes on scheduling and completing, which is what
  `controller_live` shows of it. The client is not fair.

## 4. Proofs

All theorems hold for every value of the constants that the named `ASSUME`s admit. The
inductive invariants are stated in the component's module, so that TLC can check them
as invariants, and each proof has one lemma per action and per part of the invariant.

**`EventQueue_proofs`**, any events, priorities and step lengths.
- `QueueConsistent`, `NeverOverdue`, `NextAlwaysFirst`, `QueueTypes`. "No event is
  overdue" is not inductive: `Loop` jumps to `nextEventCycle`, so the invariant needs that
  this is the first key (`NextEventIsFirst`); `Process` erases the list of
  `nextEventCycle`, so it needs the iterator inside the list of the current cycle
  (`CursorInside`), and `Loop(steps)` must stay below the number that stands for never
  (`BelowNever`).
- `ListsConsistent`, `CallbacksAlwaysSorted`, `FifoAmongEquals`. The search in
  `InsertEvent` compares the priority of every element, also of the plain events, which
  have none, and of the freed events behind the iterator. `FilingInv` therefore says where each
  event is: in one place of one list at most, done if behind the iterator and waiting
  otherwise; and the part ahead of the iterator is sorted as far as callbacks go. An
  insertion then lands at a place that keeps this order, whatever the freed memory holds.
- `ImplementsAgenda`: the refinement, action by action. An event that the agenda has
  planned is one in a list and still waiting; `FilingInv` gives that a delivery, a
  removal or an erased list takes exactly these out of the plan.

**`Gem5Clock_proofs`**, any number of memory systems, every ratio of frequencies, every
clock period, every interleaving of the callers.
- `ClockConsistent`, `NoEventSkipped`, `AlwaysInStep`, `NextAlwaysAhead`,
  `NVMainNeverAhead`, `ClockTypes`. The core is `ToLocalNotAhead`: a local cycle that is
  not after the truncated quotient converts back to a global cycle that is not after the
  one it came from, although both conversions round down. `ClocksInStep` speaks of the
  time when `Sync` is done, so the invariant adds `Synced`, queue by queue; `NeverAhead`
  speaks of the time between calls, so it adds `CallsEndInTime`: while a call is under
  way, what is left of it ends by gem5's time, whatever nested requests do to
  `lastWakeup`.
- `WakeUpsInTime`, `WakeAlwaysScheduled`. `WakeScheduled` speaks of the time between calls
  too. `WakeInv` says what holds in each phase: between calls (`InTimeBetween`), in
  `recvTimingReq` for the cycles still to be stepped (`InTimeInRecv`), and in `tick`,
  which sets a new wake-up at its end unless a nested request set one (`InTimeInTick`).

**`MemoryController_proofs`**, any numbers of banks, subarrays, rows and transactions,
any delays of the device.
- `ControllerConsistent`, `ControllerTypes`, `TransactionsNeverForgotten`,
  `CommandsNeverForgotten`, `RefreshesServedAtOnce`, `NeverIssuedTwice`: every queue model
  (`CommandsNeverForgotten`: the two for which it is true) and page policy. The
  invariant adds `IssuedHeads`: a queue may count as empty because its only command was
  issued, and that is harmless only while the cleanup that removes it is still to come.
- `RowsConsistent`, `RecordAlwaysMatches`, `HeadsAlwaysFit`. What a list of commands
  leaves open is stated without recursion (`RowThen`: the last command that changes the
  row decides), which is what puts it within reach of the provers. The head of a queue
  becomes the next head when it is issued, so `HeadFitsDevice` needs the same of *every*
  command (`CommandFits`), relative to the commands before it. `RowInv` is this and the
  record; it is kept because the record is at each moment the row that the next command
  queued will find (`StepOne`, one command queued; `IssueKeepsRows`, one issued), and
  because only the commands of one queue change the rows of a subarray (`InPlace`). For a
  refresh, `BankAtFacts` shows that each active bank gets exactly one precharge. These
  three theorems assume `PrechargesReach`: with a queue per subarray, refresh and
  precharges at once, `HandleRefresh` queues the PRECHARGE_ALL of a bank for its first
  subarray only, and it can overtake commands for the others. `PrechargesReachFacts`
  lists where the assumption is met: everywhere but in that one combination.
- `OrderConsistent`, `ControllerKeepsOrder`: every queue model and page policy. A search
  takes the first transaction in the queue that meets its conditions, and these are the
  same for two transactions to one row but for one: those of the present cycle are left out.
  So `OrderInv` says that these are behind the others. That nothing to the same row
  is still on its way follows from the command queue being empty, since a scheduled transaction is
  in the queue of its subarray; that a step issues what it takes out of `scheduled`, from each
  request being in one place.
- `MarksAlwaysAnswered`, `MarkedWhenInTime`. A mark always has a REFRESH coming that takes
  it away. The converse needs that no pulse comes while a REFRESH of its group is still
  queued (`RefreshesInTime`): the code does not wait for that, and with a short `TREFI`
  it fails.
- `RefreshesAlwaysInTime`, `RefreshesAlwaysMarked` give a bound under which it holds, for
  one group of all banks (`BanksPerRefresh` is `BANKS` by default, `Params.cpp:190`) and
  a queue per rank or per bank (the default). Let M bound the time that a command keeps its
  bank busy and S the banks of a queue. `TimeToDrain` asks that
  (M + 2) (|Queues| (4 + S)) + M + 1 <= `TREFI`. The argument is a potential: while a
  REFRESH waits no transaction is scheduled, a queue holds at most the commands of
  one transaction, a precharge for each of its banks and the REFRESH, and one of the commands left
  is issued every M + 2 cycles. `DeadlineInv` states this of each state: the lists
  are short, the REFRESH is the last in its own, the rows are closed behind it (`OrderlyNow`), no
  bank is busy for more than M cycles (`BusyNow`), and M + 2 cycles for each command left, plus
  the wait for the next, fit into the time to the next pulse (`EnoughNow`). That some
  command can always be issued when the banks are free is `RowInv`: every head fits its row.
  The bound is generous but not out of reach: `Config/DRAM_AMS_64BW_4GB_2CH_1024RB.config`
  has a `tREFI` of 733137 cycles, and 41795 are enough with M = `tRFC` = 514 and a queue for each of
  16 banks. `2D_DRAM_example.config` (2604 cycles, `tRFC` 107, 8 banks) meets it with one queue per
  rank (1416) and not with one per bank (4468). The run has a `TREFI` of 8, far below
  the bound; there TLC shows `RefreshesInTime` directly.

**`NVMainMemory_proofs`, `NVMainTraffic_proofs`**, any numbers of lines, slots and
requests, any queue size.
- `CacheConsistent`, `TagsAlwaysConsistent`, `MemoryTypes`. `TagsConsistent` needs `TypeOK`
  (requests under way name allocated slots only, as long as `tmpAddr` grows) and
  `SlotsNamed`: `inverseMap.emplace` leaves an existing entry alone, so that a fresh slot
  must have none.
- `TrafficConsistent`, `RequestsAlwaysMapped`, `EvictionsAlwaysPaired`: every client request
  and every write that waits for an eviction is counted over the queues and the scheduled
  requests of both channels; the invariant says that each is there exactly once.
- `SlotsAlwaysSettle`, `StaleHitsAlwaysOvertaken`: that a slot ends up with its line is a
  fact about the *last* request on its way there, so `TrafficInv` follows the last write
  to each slot through queue and schedule, which keep the order of requests to one address.

**`WritePausing_proofs`**, any reads, writes, rows, durations and thresholds.
- `PausingConsistent`, `PausingTypes`, `InterruptedOnlyOnce`, `PutBackAlwaysAwaited`. That a
  write is nowhere twice depends on the completion event being removed exactly when an
  interruption puts its response in, so the invariant ties the write in progress, its
  event, its command in the queue and its flags together. `PutBackAwaited` needs that the
  commands which interrupt a write are still in the queue when it is put back.

**`FRFCFS_WQF_proofs`**, any queue sizes, water marks, numbers of requests and command
queues.
- `SchedulerConsistent`, `QueuesBounded`, `WaitersAwaited`. `TransactionsAwaited` needs
  `IssuedHeads`, as in the controller. `QueuesFinite` lets cardinalities be counted when
  a request arrives.
- `OnePlaceEach`, `TransactionsIssuedOnce`. `IssuedExactlyOnce` is an action property: what
  leaves `Waiting` in a step is what the device gets in it. An issued command stays at the
  head of its queue, and nothing looks at its flag: `CleanupComes` says that its removal
  is due before the next command can be issued, so that at most one head is issued at a
  time and it is not issued again. `InOnePlace` says that a transaction is in one of the
  two queues, at one place of one command queue, or at the device; a new one is put behind
  no issued head, since its list was empty (`IssuedHeads`).

**`Lists_proofs`**: what inserting into and erasing from a list leave, and what `Least`
returns.

Only model-checked:
- liveness (`EventuallyHandled`, `EveryTransactionIssued`, `DrainsEnd`, `WritesDrained`,
  `ReadsServed`, `DrainCompletes`, `ReadsAnswered`, `EvictionsFinish`): the prover has
  neither fairness nor `ENABLED`;
- `RefreshesInTime` and `RefreshMarked` beyond the bound of `RefreshesAlwaysInTime`: they are
  not true for every value of the constants. With several groups, whose refreshes delay
  each other, and with a queue per subarray, where the wake-ups of commands are missing,
  no bound is proved.

## 5. Not modelled

gem5 and cacti are vendored, and most of the repository's lines are theirs; of gem5 only
the port, drain and time protocols matter, as what NVMainMemory has to keep. Parsing,
statistics, traces, energy, endurance and data encoding have no control of their own.
Migrators, predictors, prefetchers, other banks and the upstream DRAM caches are not
selected by the configurations in use. Inside the modelled parts: `IssueAtomic` and
functional accesses (they do not touch the tags), the response queue and drain
signalling of the gem5 interface, a second instance of it, power-down, bulk commands,
cached rows, the MLC write model, `double` rounding of frequency ratios.

## 6. Plan

1. (done) `EventQueue` with `Agenda`; `MemoryController`; `NVMain` with `NVMainMemory`;
   `GlobalEventQueue` with `Gem5Clock`; `FRFCFS_WQF`; `WritePausing`.
2. (done) Proofs of every safety property of the passing runs, and of the refinements of
   `Agenda` and `Channel`.
3. A bound on `TREFI` for several groups of banks.
4. The response queue and the drain protocol of the gem5 interface.
5. `StandardRank`: power-down and wake-up against queued refreshes.
6. The address translator as an operator with its inverse; hooks of `NVMObject`; the
   prefetch buffer of `NVMain`.
