------------------------------ MODULE Channel ------------------------------
(***************************************************************************)
(* What a controller promises to NVMain: a queue of bounded size, from     *)
(* which transactions are scheduled in any order but that of their row:    *)
(* one never overtakes another to the same row, neither in the queue nor   *)
(* on its way to the device. Each is issued to the device exactly once,    *)
(* and only those are completed. Commands, timing and refresh are not seen.*)
(***************************************************************************)
EXTENDS Integers, Sequences, Lists

CONSTANTS Transactions, QueueSize

VARIABLES
    queue,         \* accepted, in the order of their arrival
    scheduled,     \* on their way to the device
    active         \* requests that the device works on

Init == queue = <<>> /\ scheduled = {} /\ active = {}

UnderWay(r) ==
    \/ \E i \in DOMAIN queue : queue[i].request = r
    \/ \E t \in scheduled : t.request = r
    \/ r \in active

Accept ==
    /\ Len(queue) < QueueSize
    /\ \E t \in Transactions : ~UnderWay(t.request) /\ queue' = Append(queue, t)
    /\ UNCHANGED <<scheduled, active>>

ToSameRow(s, t) == s.bank = t.bank /\ s.sa = t.sa /\ s.row = t.row

\* Nothing is ahead of the i-th transaction on the way to its row.
FirstToRow(i) ==
    /\ \A j \in 1 .. i - 1 : ~ToSameRow(queue[j], queue[i])
    /\ \A t \in scheduled : ~ToSameRow(t, queue[i])

\* Of the transactions that are ready, one is issued, or none.
Issue(ready) ==
    \/ scheduled' = ready /\ UNCHANGED active
    \/ \E t \in ready : scheduled' = ready \ {t} /\ active' = active \cup {t.request}

\* A cycle of the controller schedules one transaction at most and issues one at most.
Work ==
    \/ UNCHANGED queue /\ Issue(scheduled)
    \/ \E i \in DOMAIN queue :
        /\ FirstToRow(i)
        /\ queue' = Without(queue, i)
        /\ Issue(scheduled \cup {queue[i]})

Complete ==
    /\ \E r \in active : active' = active \ {r}
    /\ UNCHANGED <<queue, scheduled>>

Next == Accept \/ Work \/ Complete

Spec == Init /\ [][Next]_<<queue, scheduled, active>>
=============================================================================
