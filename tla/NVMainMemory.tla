---------------------------- MODULE NVMainMemory ----------------------------
(***************************************************************************)
(* gem5's view of NVMain (src/NVmain/Simulators/gem5/nvmain_mem.cc): the   *)
(* timing port takes the packets of a client, asks NVMain whether it can   *)
(* queue one and issues it, or answers false and owes the client a retry.  *)
(* A write is answered at once; a read when NVMain completes it. The build *)
(* is the one that is launched, gem5.fast: assertions are off.             *)
(*                                                                         *)
(* The client (external) issues each packet of Requests at most once more  *)
(* than it is refused, and sends nothing from a refusal to the next retry. *)
(***************************************************************************)
EXTENDS NVMain

CONSTANT HomeChannels      \* the channels that the decoder finds in client addresses
ASSUME HomeAssumption == HomeChannels \subseteq Channels /\ HomeChannels # {}

VARIABLES
    m_request_map,         \* client requests that NVMain is to complete
    answered,              \* client requests whose packet was answered
    retryRead, retryWrite, \* the refusals that are owed a retry
    blocked,               \* the client waits for a retry
    refused,               \* requests that NVMain did not enqueue in spite of IsIssuable
    pressed                \* history: NVMain handled something while a queue was full

memVars == <<m_request_map, answered, retryRead, retryWrite, blocked, refused>>
allVars == <<vars, memVars, pressed>>

\* The types of the state, with every request under way at an allocated slot or at a
\* line.
TypeOK ==
    /\ CacheTypeOK
    /\ m_request_map \subseteq Requests
    /\ answered \subseteq Requests
    /\ refused \subseteq Requests
    /\ {retryRead, retryWrite, blocked} \subseteq BOOLEAN

MemInit ==
    /\ Init
    /\ m_request_map = {} /\ answered = {} /\ refused = {}
    /\ retryRead = FALSE /\ retryWrite = FALSE /\ blocked = FALSE
    /\ pressed = FALSE

\* Only then can a request that NVMain issues be refused.
Press == pressed' = (pressed \/ \E c \in Channels : ~Issuable(queue, c))

-----------------------------------------------------------------------------
\* Mutant: a write that was answered is not entered in the map.
EnteredReads(r, type) == IF type = "READ" THEN m_request_map \cup {r} ELSE m_request_map

\* m_request_map.insert, before the copy of a write is answered.
Entered(r, type) == m_request_map \cup {r}

\* The request is NVMain's. A write is answered through a copy of the request; no
\* retry is owed here. A refusal is only met by the assertion: the request stays in
\* the map, and the port returns false without owing a retry.
Accept(r, type, line) ==
    /\ IssueCommand(r, type, line)
    /\ m_request_map' = Entered(r, type)
    /\ answered' = IF type = "WRITE" THEN answered \cup {r} ELSE answered
    /\ blocked' = ~IssueResult(type, line)
    /\ refused' = IF IssueResult(type, line) THEN refused ELSE refused \cup {r}
    /\ Press
    /\ UNCHANGED <<retryRead, retryWrite>>

Refuse(type) ==
    /\ blocked' = TRUE
    /\ retryRead' = (type = "READ")
    /\ retryWrite' = (type = "WRITE")
    /\ UNCHANGED <<vars, m_request_map, answered, refused, pressed>>

\* MemoryPort::recvTimingReq. NVMain::IsIssuable asks the controller of the channel
\* in the client's address, which is not where the tag cache sends the request.
RecvTimingReq(r, type, line) ==
    /\ ~blocked /\ ~retryRead /\ ~retryWrite
    /\ r \notin m_request_map \cup answered
    /\ \E home \in HomeChannels :
           IF Issuable(queue, home) THEN Accept(r, type, line) ELSE Refuse(type)

\* NVMainMemory::RequestComplete, for a request of the client: the retries owed are
\* sent, a read is answered.
Answer(request) ==
    /\ m_request_map' = m_request_map \ {request.from}
    /\ answered' = answered \cup {request.from}
    /\ retryRead' = FALSE
    /\ retryWrite' = FALSE
    /\ blocked' = (blocked /\ ~retryRead /\ ~retryWrite)
    /\ UNCHANGED refused

\* Mutant: a read that filled the cache is not handed to its client.
HandedOnHits(request) == request.from # NoRequest /\ request.channel = "DRAM"

\* A request that NVMain does not own goes on to its client.
HandedOn(request) == request.from # NoRequest

\* A completion goes through NVMain, and on to the client's side if the request is
\* not one of NVMain's own.
CompleteRequest(channel, i) ==
    /\ Complete(channel, i)
    /\ IF HandedOn(scheduled[channel][i])
           THEN Answer(scheduled[channel][i])
           ELSE UNCHANGED memVars
    /\ Press

MemSchedule(channel) == Schedule(channel) /\ UNCHANGED <<memVars, pressed>>

Next ==
    \/ \E r \in Requests, type \in {"READ", "WRITE"}, line \in Lines :
           RecvTimingReq(r, type, line)
    \/ \E channel \in Channels :
           \/ MemSchedule(channel)
           \/ \E i \in 1 .. Len(scheduled[channel]) : CompleteRequest(channel, i)

Spec == MemInit /\ [][Next]_allVars

\* The controllers go on scheduling and completing (module MemoryController); the
\* client need not send anything.
Fairness ==
    \A channel \in Channels :
        /\ WF_allVars(MemSchedule(channel))
        /\ WF_allVars(\E i \in 1 .. Len(scheduled[channel]) : CompleteRequest(channel, i))
FairSpec == Spec /\ Fairness

-----------------------------------------------------------------------------
(* Properties of the interface.                                            *)

\* The requests that a channel has yet to complete.
UnderWay(channel) == queue[channel] \o scheduled[channel]

\* A request that NVMain will complete is in m_request_map, and under way only once,
\* so that the assertion at the head of NVMainMemory::RequestComplete holds: no
\* detour through the cache completes a client's request twice.
RequestsMapped ==
    \A c, d \in Channels : \A i \in DOMAIN UnderWay(c), j \in DOMAIN UnderWay(d) :
        UnderWay(c)[i].from # NoRequest =>
            /\ UnderWay(c)[i].from \in m_request_map
            /\ UnderWay(c)[i].from = UnderWay(d)[j].from => c = d /\ i = j

\* The inductive invariant of the tags.
IndInv == TypeOK /\ TagsConsistent /\ SlotsNamed

\* The inductive invariant of the traffic, where no request was dropped.
TrafficInv ==
    /\ RequestsPlaced /\ RequestsMapped /\ EvictionsPaired
    /\ ~pressed => EvictionsExact /\ SlotsSettle /\ HitsFollowed

\* A read that NVMain enqueued is answered, whether it hits, misses, fills or replaces
\* a line, and however small the queues are.
ReadsAnswered ==
    \A r \in Requests :
        r \in m_request_map /\ r \notin answered \cup refused ~> r \in answered

\* A replacement that began comes to its end: the writes that wait for a slot to be
\* read are all issued. (A full queue can drop the read they wait for.)
EvictionsFinish == waitingDRAMWrite # <<>> ~> waitingDRAMWrite = <<>> \/ pressed

\* Where no request was dropped, the blocks follow the tags (see CacheSettles).
SettlesUnlessPressed == ~pressed => CacheSettles

\* Where no request was dropped, the block that a stale hit asked for is on its way
\* (see StaleHitsOvertaken).
OvertakenUnlessPressed == ~pressed => StaleHitsOvertaken

\* gem5's port protocol: a client whose packet was refused gets its retry.
RetrySent == retryRead \/ retryWrite ~> ~retryRead /\ ~retryWrite
=============================================================================
