------------------------------- MODULE Lists -------------------------------
(***************************************************************************)
(* Insertion into and removal from the std::list objects that the event    *)
(* queue and the memory controller search for a place.                     *)
(***************************************************************************)
EXTENDS Integers, Sequences

\* list.insert before place i.
InsertedAt(list, i, e) == SubSeq(list, 1, i - 1) \o <<e>> \o SubSeq(list, i, Len(list))

\* list.erase at place i.
Without(list, i) == SubSeq(list, 1, i - 1) \o SubSeq(list, i + 1, Len(list))

\* The first place, cycle or bank of a set.
Least(S) == CHOOSE n \in S : \A m \in S : n <= m
=============================================================================
