------------------------------- MODULE NVMain -------------------------------
(***************************************************************************)
(* NVMain with its DRAM tag cache (src/NVmain/NVM/nvmain.cpp, class LRU of *)
(* nvmain.h): the lines of the NVRAM channel are cached in slots of the    *)
(* DRAM channel. The tags are kept by NVMain itself; the blocks move       *)
(* through requests that NVMain issues to the two channels, one handler at *)
(* a time, while the client goes on issuing its own.                       *)
(*                                                                         *)
(* A channel is an FR-FCFS controller reduced to what NVMain sees of it    *)
(* (module MemoryController is the detailed one): a transaction queue of   *)
(* bounded size that refuses a request when it is full, transactions       *)
(* scheduled in any order that keeps those of an address in their order,   *)
(* and completions. Prefetching is off, as in the shipped configuration.   *)
(***************************************************************************)
EXTENDS Integers, Sequences, FiniteSets, Lists

CONSTANTS
    Lines, NoLine,         \* blocks of the NVRAM channel: keys of the LRU
    NoSlot,                \* what the LRU maps a line to that it does not have
    Requests, NoRequest,   \* requests of the client; NoRequest: made by NVMain
    TagLines,              \* tagLines, the capacity of the LRU
    QueueSize              \* queueSize of both controllers

ASSUME SizesAssumption == {TagLines, QueueSize} \subseteq Nat \ {0}
ASSUME NoneAssumption ==
    NoLine \notin Lines /\ NoRequest \notin Requests /\ NoSlot \notin Nat
ASSUME AddressesAssumption == Lines \cap Nat = {}

\* Slot n is the n-th address that tmpAddr goes through: 64 * n in channel 0.
Slots == 0 .. TagLines - 1

Channels == {"DRAM", "NVRAM"}

\* A block of data: the line that it is a copy of, and whether a client wrote it
\* (then NVRAM lacks it) or it was read from NVRAM.
Blocks == [line : Lines \cup {NoLine}, written : BOOLEAN]
Block(line, written) == [line |-> line, written |-> written]
NoBlock == Block(NoLine, FALSE)

\* The kinds after WRITE are owned by NVMain: EVICT_READ has FLAG_EVICT,
\* DRAM_WRITE and NVRAM_WRITE have FLAG_SKIP_TAG too.
Kinds == {"READ", "WRITE", "EVICT_READ", "DRAM_WRITE", "NVRAM_WRITE"}

VARIABLES
    dq, m,                 \* the LRU: keys, most recent first; slot of each key
    inverseMap,            \* the line of each slot
    tmpAddr,               \* the next slot never used
    waitingDRAMWrite,      \* writes waiting for the EVICT_READ of their slot
    queue, scheduled,      \* per channel: transaction queue, and the scheduled ones
    dram                   \* the block in each slot

tags == <<dq, m, inverseMap, tmpAddr>>
vars == <<tags, waitingDRAMWrite, queue, scheduled, dram>>

Request(kind, channel, addr, block, from) ==
    [kind |-> kind, channel |-> channel, addr |-> addr, block |-> block, from |-> from]

\* Requests as they can be once tmpAddr is limit.
RequestsBelow(limit) ==
    {request \in [kind : Kinds, channel : Channels, addr : Slots \cup Lines,
                  block : Blocks, from : Requests \cup {NoRequest}] :
        /\ request.addr \in IF request.channel = "DRAM" THEN 0 .. limit - 1 ELSE Lines
        /\ request.channel = "NVRAM" => request.kind \in {"READ", "NVRAM_WRITE"}}

CacheTypeOK ==
    /\ dq \in Seq(Lines)
    /\ m \in [Lines -> Slots \cup {NoSlot}]
    /\ inverseMap \in [Slots -> Lines \cup {NoLine}]
    /\ tmpAddr \in 0 .. TagLines
    /\ waitingDRAMWrite \in Seq(RequestsBelow(tmpAddr))
    /\ queue \in [Channels -> Seq(RequestsBelow(tmpAddr))]
    /\ scheduled \in [Channels -> Seq(RequestsBelow(tmpAddr))]
    /\ dram \in [Slots -> Blocks]

Init ==
    /\ dq = <<>>
    /\ m = [l \in Lines |-> NoSlot]
    /\ inverseMap = [s \in Slots |-> NoLine]
    /\ tmpAddr = 0
    /\ waitingDRAMWrite = <<>>
    /\ queue = [c \in Channels |-> <<>>]
    /\ scheduled = [c \in Channels |-> <<>>]
    /\ dram = [s \in Slots |-> NoBlock]

-----------------------------------------------------------------------------
(* The controllers.                                                        *)

\* FRFCFS::IsIssuable: only the transactions not yet scheduled count.
Issuable(queues, channel) == Len(queues[channel]) < QueueSize

\* FRFCFS::IssueCommand; NVMain ignores that the request was refused.
Enqueued(queues, request) ==
    IF Issuable(queues, request.channel)
        THEN [queues EXCEPT ![request.channel] = Append(@, request)]
        ELSE queues

\* The requests that no earlier one for the same address holds back.
FirstOfAddress(list) ==
    {i \in DOMAIN list : \A j \in 1 .. i - 1 : list[j].addr # list[i].addr}

\* FRFCFS::Cycle takes a transaction out of the transaction queue.
Schedule(channel) ==
    /\ \E i \in FirstOfAddress(queue[channel]) :
           /\ queue' = [queue EXCEPT ![channel] = Without(@, i)]
           /\ scheduled' = [scheduled EXCEPT ![channel] = Append(@, queue[channel][i])]
    /\ UNCHANGED <<tags, waitingDRAMWrite, dram>>

-----------------------------------------------------------------------------
(* The LRU.                                                                *)

Has(line) == m[line] # NoSlot

\* Mutant: the capacity is passed by one.
IsFullLate == Len(dq) > TagLines

IsFull == Len(dq) = TagLines

\* Mutant: the key is put at the front but not erased from its old place.
PutInFront(line) == <<line>> \o dq

\* LRU::get moves the key to the front.
MovedToFront(line) ==
    <<line>> \o Without(dq, Least({i \in DOMAIN dq : dq[i] = line}))

Get(line) ==
    /\ dq' = MovedToFront(line)
    /\ UNCHANGED <<m, inverseMap, tmpAddr>>

\* A line takes the slot at tmpAddr. No slot is a key of the LRU (keys have
\* channel 1), so the search for a slot that is none ends at once.
Allocate(line) ==
    /\ dq' = <<line>> \o dq
    /\ m' = [m EXCEPT ![line] = tmpAddr]
    /\ inverseMap' = [inverseMap EXCEPT ![tmpAddr] = IF @ = NoLine THEN line ELSE @]
    /\ tmpAddr' = tmpAddr + 1

\* The slot that removeLRU frees.
FreeAddr == m[dq[Len(dq)]]

\* removeLRU, then put: a line takes the slot of the line used least recently.
TakeOver(line) ==
    /\ dq' = <<line>> \o SubSeq(dq, 1, Len(dq) - 1)
    /\ m' = [m EXCEPT ![dq[Len(dq)]] = NoSlot, ![line] = FreeAddr]
    /\ inverseMap' = [inverseMap EXCEPT ![FreeAddr] = line]
    /\ UNCHANGED tmpAddr

DRAMWrite(slot, block) == Request("DRAM_WRITE", "DRAM", slot, block, NoRequest)

\* The replacement, with the block that is to be written to the slot once the old
\* one has been read from it.
Replace(block) ==
    /\ TakeOver(block.line)
    /\ waitingDRAMWrite' = Append(waitingDRAMWrite, DRAMWrite(FreeAddr, block))
    /\ queue' = Enqueued(queue, Request("EVICT_READ", "DRAM", FreeAddr, NoBlock, NoRequest))

-----------------------------------------------------------------------------
(* NVMain::IssueCommand for the request of a client.                       *)

\* The request as it is issued to a controller. A read asks for a block, a write
\* brings one.
ClientRequest(r, type, line, channel, addr) ==
    Request(type, channel, addr, Block(line, type = "WRITE"), r)

Hit(r, type, line) ==
    /\ Has(line)
    /\ Get(line)
    /\ queue' = Enqueued(queue, ClientRequest(r, type, line, "DRAM", m[line]))
    /\ UNCHANGED waitingDRAMWrite

ReadMiss(r, type, line) ==
    /\ ~Has(line) /\ type = "READ"
    /\ queue' = Enqueued(queue, ClientRequest(r, type, line, "NVRAM", line))
    /\ UNCHANGED <<tags, waitingDRAMWrite>>

WriteAllocate(r, type, line) ==
    /\ ~Has(line) /\ type = "WRITE" /\ ~IsFull
    /\ Allocate(line)
    /\ queue' = Enqueued(queue, ClientRequest(r, type, line, "DRAM", tmpAddr))
    /\ UNCHANGED waitingDRAMWrite

\* "Disregard the current request": only its data lives on.
WriteReplace(r, type, line) ==
    /\ ~Has(line) /\ type = "WRITE" /\ IsFull
    /\ Replace(Block(line, TRUE))

IssueCommand(r, type, line) ==
    /\ \/ Hit(r, type, line)
       \/ ReadMiss(r, type, line)
       \/ WriteAllocate(r, type, line)
       \/ WriteReplace(r, type, line)
    /\ UNCHANGED <<scheduled, dram>>

\* What IssueCommand returns.
IssueResult(type, line) ==
    \/ ~Has(line) /\ type = "WRITE" /\ IsFull
    \/ Issuable(queue, IF Has(line) \/ type = "WRITE" THEN "DRAM" ELSE "NVRAM")

-----------------------------------------------------------------------------
(* NVMain::RequestComplete. The access itself takes effect with it: a      *)
(* write leaves its block in the slot.                                     *)

Stored(request) ==
    IF request.kind \in {"WRITE", "DRAM_WRITE"}
        THEN [dram EXCEPT ![request.addr] = request.block]
        ELSE dram

\* A read came from NVRAM: its block is put in the cache.
FillCache(line) ==
    LET block == Block(line, FALSE)
    IN  \/ /\ Has(line)
           /\ Get(line)
           /\ queue' = Enqueued(queue, DRAMWrite(m[line], block))
           /\ UNCHANGED waitingDRAMWrite
        \/ /\ ~Has(line) /\ ~IsFull
           /\ Allocate(line)
           /\ queue' = Enqueued(queue, DRAMWrite(tmpAddr, block))
           /\ UNCHANGED waitingDRAMWrite
        \/ /\ ~Has(line) /\ IsFull
           /\ Replace(block)

WaitingFor(slot) ==
    {i \in DOMAIN waitingDRAMWrite : waitingDRAMWrite[i].addr = slot}

\* Mutant: the search starts at the end of the list.
LastWaiting(slot) == CHOOSE i \in WaitingFor(slot) : \A j \in WaitingFor(slot) : j <= i

FirstWaiting(slot) == Least(WaitingFor(slot))

\* Mutant: every write that waits for the slot is erased, not only the one issued.
ErasedAll(slot) == SelectSeq(waitingDRAMWrite, LAMBDA request : request.addr # slot)

Erased(slot) == Without(waitingDRAMWrite, FirstWaiting(slot))

\* Nothing for NVMain to do: the request is deleted, or handed to its client.
NothingToDo == UNCHANGED <<tags, waitingDRAMWrite, queue>>

\* Mutant: the write that waited is erased, but not issued.
FinishEvictionDrops(slot) ==
    LET NVWrite == Request("NVRAM_WRITE", "NVRAM", inverseMap[slot], dram[slot], NoRequest)
    IN  IF WaitingFor(slot) = {}
            THEN NothingToDo
            ELSE /\ queue' = Enqueued(queue, NVWrite)
                 /\ waitingDRAMWrite' = Erased(slot)
                 /\ UNCHANGED tags

\* The old block of a slot was read: the first write that waits for the slot, if any,
\* is issued, and the old block is written to the line of inverseMap.
FinishEviction(slot) ==
    LET NVWrite == Request("NVRAM_WRITE", "NVRAM", inverseMap[slot], dram[slot], NoRequest)
    IN  IF WaitingFor(slot) = {}
            THEN NothingToDo
            ELSE /\ queue' = Enqueued(Enqueued(queue, waitingDRAMWrite[FirstWaiting(slot)]),
                                      NVWrite)
                 /\ waitingDRAMWrite' = Erased(slot)
                 /\ UNCHANGED tags

\* Mutant: the reads of evictions are deleted like the writes that NVMain owns.
RequestCompleteDeletes(request) ==
    \/ request.kind = "READ" /\ request.channel = "NVRAM" /\ FillCache(request.addr)
    \/ request.kind # "READ" /\ NothingToDo
    \/ request.kind = "READ" /\ request.channel = "DRAM" /\ NothingToDo

RequestComplete(request) ==
    \/ request.kind = "READ" /\ request.channel = "NVRAM" /\ FillCache(request.addr)
    \/ request.kind = "EVICT_READ" /\ FinishEviction(request.addr)
    \/ request.kind = "READ" /\ request.channel = "DRAM" /\ NothingToDo
    \/ request.kind \in {"WRITE", "DRAM_WRITE", "NVRAM_WRITE"} /\ NothingToDo

\* A controller completes a request that it scheduled.
Complete(channel, i) ==
    /\ i \in FirstOfAddress(scheduled[channel])
    /\ scheduled' = [scheduled EXCEPT ![channel] = Without(@, i)]
    /\ dram' = Stored(scheduled[channel][i])
    /\ RequestComplete(scheduled[channel][i])

-----------------------------------------------------------------------------
(* Properties of the cache.                                                *)

\* The keys in dq are the keys of m, each once, and inverseMap takes the slot of
\* every cached line back to it: otherwise the search loops of LRU::get and put run
\* off the end of dq, removeLRU frees a slot twice, or two lines share a slot. The
\* slots in use are those below tmpAddr, so that Allocate finds a fresh one.
TagsConsistent ==
    /\ \A i, j \in DOMAIN dq : dq[i] = dq[j] => i = j
    /\ \A l \in Lines : Has(l) <=> \E i \in DOMAIN dq : dq[i] = l
    /\ \A l \in Lines : Has(l) => m[l] < tmpAddr /\ inverseMap[m[l]] = l
    /\ tmpAddr = Len(dq) /\ tmpAddr <= TagLines

\* What else makes TagsConsistent inductive: the slots that tmpAddr has passed, and no
\* others, are the ones with an entry in inverseMap (emplace changes no entry that
\* exists, and the write-back needs one).
SlotsNamed == \A s \in Slots : s < tmpAddr <=> inverseMap[s] # NoLine

\* The requests of a kind for a slot, in a list.
PlacesOf(list, kind, slot) ==
    {i \in DOMAIN list : list[i].kind = kind /\ list[i].addr = slot}

\* Every block read out of a slot for an eviction finds a write that waits for the
\* slot, however many evictions of the slot are under way and whatever the full
\* queues refused: the search in RequestComplete never comes out empty-handed, which
\* would lose the block without a trace.
EvictionsPaired ==
    \A s \in Slots :
        Cardinality(PlacesOf(queue["DRAM"], "EVICT_READ", s))
          + Cardinality(PlacesOf(scheduled["DRAM"], "EVICT_READ", s))
            <= Cardinality(PlacesOf(waitingDRAMWrite, "DRAM_WRITE", s))

\* Once nothing is under way, the slot of every cached line holds a copy of that line:
\* however fills, writes and repeated evictions of a slot overlapped, the last write
\* to reach the slot was one for its present line. (While no request is refused.)
CacheSettles ==
    (\A c \in Channels : queue[c] = <<>> /\ scheduled[c] = <<>>)
        => \A l \in Lines : Has(l) => dram[m[l]].line = l

\* What a comment of RequestComplete says of the write-back ("Create NVRAM Write
\* request to the appropiate address"): it goes to the line whose block it carries.
WritebackToItsLine ==
    \A i \in DOMAIN queue["NVRAM"] :
        LET request == queue["NVRAM"][i]
        IN  request.kind = "NVRAM_WRITE" => request.addr = request.block.line

\* A hit may find the line that was replaced still in the slot, but only while a write of
\* the line that it asked for is on its way there: tags never run ahead of the blocks
\* without the traffic that brings them.
StaleHitsOvertaken ==
    \A i \in FirstOfAddress(scheduled["DRAM"]) :
        LET hit == scheduled["DRAM"][i]
        IN  hit.kind = "READ" /\ dram[hit.addr].line # hit.block.line =>
                \E list \in {waitingDRAMWrite, queue["DRAM"], scheduled["DRAM"]} :
                    \E j \in PlacesOf(list, "DRAM_WRITE", hit.addr) :
                        list[j].block.line = hit.block.line

-----------------------------------------------------------------------------
(* What makes them inductive. A place k of a list stands for the moment at *)
(* which a request at that place would reach its slot.                     *)

WritesTo(list, slot) ==
    {i \in DOMAIN list : list[i].kind \in {"WRITE", "DRAM_WRITE"} /\ list[i].addr = slot}

\* The last write to the slot before place k is one of the line; where there is none,
\* `earlier' decides.
Finds(list, k, slot, line, earlier) ==
    /\ \A i \in WritesTo(list, slot) :
           i < k /\ (\A j \in WritesTo(list, slot) : j < k => j <= i)
               => list[i].block.line = line
    /\ (\A i \in WritesTo(list, slot) : i >= k) => earlier

\* A request at place k of the scheduled ones, at place k of the queue, or issued after
\* all that waits, finds a block of the line in the slot.
FindsScheduled(k, slot, line) ==
    Finds(scheduled["DRAM"], k, slot, line, dram[slot].line = line)
FindsQueued(k, slot, line) ==
    Finds(queue["DRAM"], k, slot, line, FindsScheduled(Len(scheduled["DRAM"]) + 1, slot, line))
FindsAfterAll(slot, line) ==
    Finds(waitingDRAMWrite, Len(waitingDRAMWrite) + 1, slot, line,
          FindsQueued(Len(queue["DRAM"]) + 1, slot, line))

\* A write of the line to the slot is on its way, behind place k.
OnItsWay(list, k, slot, line) ==
    \E j \in PlacesOf(list, "DRAM_WRITE", slot) : j > k /\ list[j].block.line = line

\* Each slot in use will hold the line that inverseMap names.
SlotsSettle == \A s \in Slots : s < tmpAddr => FindsAfterAll(s, inverseMap[s])

\* Each hit finds its line, or a write of it follows.
HitsFollowed ==
    /\ \A k \in DOMAIN scheduled["DRAM"] :
        LET hit == scheduled["DRAM"][k]
        IN  hit.kind = "READ" =>
                \/ FindsScheduled(k, hit.addr, hit.block.line)
                \/ OnItsWay(scheduled["DRAM"], k, hit.addr, hit.block.line)
                \/ OnItsWay(queue["DRAM"], 0, hit.addr, hit.block.line)
                \/ OnItsWay(waitingDRAMWrite, 0, hit.addr, hit.block.line)
    /\ \A k \in DOMAIN queue["DRAM"] :
        LET hit == queue["DRAM"][k]
        IN  hit.kind = "READ" =>
                \/ FindsQueued(k, hit.addr, hit.block.line)
                \/ OnItsWay(queue["DRAM"], k, hit.addr, hit.block.line)
                \/ OnItsWay(waitingDRAMWrite, 0, hit.addr, hit.block.line)

\* Each read of a slot for an eviction has its own write that waits.
EvictionsExact ==
    \A s \in Slots :
        Cardinality(PlacesOf(queue["DRAM"], "EVICT_READ", s))
          + Cardinality(PlacesOf(scheduled["DRAM"], "EVICT_READ", s))
            = Cardinality(PlacesOf(waitingDRAMWrite, "DRAM_WRITE", s))

\* A request is in the lists of its channel, and what waits is a write of NVMain's own.
RequestsPlaced ==
    /\ \A c \in Channels : \A i \in DOMAIN queue[c] : queue[c][i].channel = c
    /\ \A c \in Channels : \A i \in DOMAIN scheduled[c] : scheduled[c][i].channel = c
    /\ \A i \in DOMAIN waitingDRAMWrite :
           /\ waitingDRAMWrite[i].kind = "DRAM_WRITE"
           /\ waitingDRAMWrite[i].channel = "DRAM"
           /\ waitingDRAMWrite[i].from = NoRequest
=============================================================================
