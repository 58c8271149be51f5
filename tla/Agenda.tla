------------------------------- MODULE Agenda -------------------------------
(***************************************************************************)
(* What the event queue promises to the memory system: an agenda of events *)
(* filed under cycles. Time never passes over an item, an item is handed   *)
(* out in exactly its cycle, and only an item filed for the cycle that is  *)
(* being handed out ("late") may be dropped.                               *)
(***************************************************************************)
EXTENDS Integers

CONSTANTS Events

VARIABLES
    now,       \* the current cycle
    busy,      \* TRUE while the items of `now' are being handed out
    agenda     \* set of [event, cycle, late]

Init == now = 0 /\ busy = FALSE /\ agenda = {}

\* File an item for an event that has none, under a cycle that has not passed.
File ==
    \E x \in agenda' :
        /\ x.event \in Events
        /\ x.cycle >= now
        /\ x.late = (busy /\ x.cycle = now)
        /\ \A y \in agenda : y.event # x.event
        /\ agenda' = agenda \cup {x}
        /\ UNCHANGED <<now, busy>>

Cancel(x) ==
    /\ x.cycle > now
    /\ agenda' = agenda \ {x}
    /\ UNCHANGED <<now, busy>>

\* Time moves on, up to the first item at most, and its cycle may be opened by
\* handing out an item.
Pass ==
    /\ ~busy
    /\ now' >= now
    /\ \A x \in agenda : x.cycle >= now'
    /\ \/ busy' = FALSE /\ UNCHANGED agenda
       \/ \E x \in agenda : x.cycle = now' /\ busy' = TRUE /\ agenda' = agenda \ {x}

HandOut(x) ==
    /\ busy
    /\ x.cycle = now
    /\ agenda' = agenda \ {x}
    /\ UNCHANGED <<now, busy>>

\* The cycle is over. Time may move one cycle on with it.
Close ==
    /\ busy
    /\ busy' = FALSE
    /\ now' \in {now, now + 1}
    /\ \E dropped \in SUBSET {x \in agenda : x.cycle = now} :
        /\ \A x \in dropped : x.late
        /\ agenda' = agenda \ dropped
    /\ \A x \in agenda' : x.cycle > now

Next ==
    \/ File
    \/ \E x \in agenda : Cancel(x) \/ HandOut(x)
    \/ Pass
    \/ Close

Spec == Init /\ [][Next]_<<now, busy, agenda>>
=============================================================================
