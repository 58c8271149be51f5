------------------------ MODULE NVMainMemory_proofs ------------------------
(***************************************************************************)
(* The tags of the cache stay consistent and every request under way names *)
(* an allocated slot or a line, for any number of lines, slots, packets    *)
(* and any size of the queues.                                             *)
(***************************************************************************)
EXTENDS NVMainMemory, Lists_proofs

\* The part of the invariant that speaks of the tags alone.
TagsInv ==
    /\ dq \in Seq(Lines)
    /\ m \in [Lines -> Slots \cup {NoSlot}]
    /\ inverseMap \in [Slots -> Lines \cup {NoLine}]
    /\ tmpAddr \in 0 .. TagLines
    /\ TagsConsistent
    /\ SlotsNamed

\* The rest: the requests and the blocks.
RequestsInv ==
    /\ waitingDRAMWrite \in Seq(RequestsBelow(tmpAddr))
    /\ queue \in [Channels -> Seq(RequestsBelow(tmpAddr))]
    /\ scheduled \in [Channels -> Seq(RequestsBelow(tmpAddr))]
    /\ dram \in [Slots -> Blocks]

\* What the constants are.
LEMMA Constants ==
    /\ TagLines \in Nat /\ TagLines > 0
    /\ NoLine \notin Lines
    /\ NoSlot \notin Slots
    /\ \A s \in Slots : s \in Nat /\ s < TagLines
  BY SizesAssumption, NoneAssumption DEF Slots

-----------------------------------------------------------------------------
(* The tags.                                                               *)

\* A hit reorders the keys of the LRU and changes nothing else.
LEMMA GetTags ==
    ASSUME TagsInv, NEW line \in Lines, Has(line), Get(line)
    PROVE  TagsInv' /\ tmpAddr' = tmpAddr
<1> DEFINE n == Len(dq)
           T == {i \in DOMAIN dq : dq[i] = line}
           k == Least(T)
           rest == Without(dq, k)
<1>1. n \in Nat /\ DOMAIN dq = 1 .. n /\ dq \in Seq(Lines)
  BY LenProperties DEF TagsInv
<1>2. T # {} /\ T \in SUBSET Nat
  BY <1>1 DEF TagsInv, TagsConsistent
<1>3. k \in 1 .. n /\ dq[k] = line
  <2> HIDE DEF k
  <2>1. Least(T) \in T
    BY <1>2, LeastFacts
  <2> QED BY <2>1, <1>1 DEF k
<1>4. /\ rest \in Seq(Lines) /\ Len(rest) = n - 1
      /\ \A j \in 1 .. n - 1 : rest[j] = IF j < k THEN dq[j] ELSE dq[j + 1]
  <2> HIDE DEF k
  <2> QED BY <1>1, <1>3, WithoutFacts, WithoutElements
<1>5. dq' = <<line>> \o rest
  BY DEF Get, MovedToFront
<1> HIDE DEF rest, k, T
<1>6. <<line>> \in Seq(Lines) /\ Len(<<line>>) = 1 /\ <<line>>[1] = line
  OBVIOUS
<1>7. /\ dq' \in Seq(Lines) /\ Len(dq') = 1 + Len(rest)
      /\ \A j \in 1 .. 1 + Len(rest) :
             dq'[j] = IF j <= 1 THEN <<line>>[j] ELSE rest[j - 1]
  BY <1>4, <1>5, <1>6, ConcatProperties
<1>8. /\ Len(dq') = n
      /\ \A j \in 1 .. n : dq'[j] = IF j = 1 THEN line
                                    ELSE IF j - 1 < k THEN dq[j - 1] ELSE dq[j]
  BY <1>1, <1>3, <1>4, <1>6, <1>7
<1>9. DOMAIN dq' = 1 .. n
  BY <1>7, <1>8, LenProperties
<1>10. \A i, j \in 1 .. n : dq[i] = dq[j] => i = j
  BY <1>1 DEF TagsInv, TagsConsistent
<1>11. \A i, j \in DOMAIN dq' : dq'[i] = dq'[j] => i = j
  <2> SUFFICES ASSUME NEW i \in 1 .. n, NEW j \in 1 .. n, dq'[i] = dq'[j]
               PROVE  i = j
    BY <1>9
  <2> DEFINE old(x) == IF x = 1 THEN k ELSE IF x - 1 < k THEN x - 1 ELSE x
  <2>1. \A x \in 1 .. n : old(x) \in 1 .. n /\ dq'[x] = dq[old(x)]
    BY <1>1, <1>3, <1>8
  <2>2. old(i) = old(j)
    BY <2>1, <1>10
  <2> QED BY <2>2, <1>1, <1>3
<1>12. \A l \in Lines : (\E i \in 1 .. n : dq[i] = l) <=> (\E i \in 1 .. n : dq'[i] = l)
  <2> TAKE l \in Lines
  <2>1. ASSUME NEW i \in 1 .. n, dq[i] = l PROVE \E j \in 1 .. n : dq'[j] = l
    <3>1. CASE i = k
      <4>1. 1 \in 1 .. n /\ dq'[1] = l
        BY <3>1, <2>1, <1>1, <1>3, <1>8
      <4> QED BY <4>1
    <3>2. CASE i < k
      <4>1. i + 1 \in 1 .. n /\ dq'[i + 1] = l
        BY <3>2, <2>1, <1>1, <1>3, <1>8
      <4> QED BY <4>1
    <3>3. CASE i > k
      <4>1. dq'[i] = l
        BY <3>3, <2>1, <1>1, <1>3, <1>8
      <4> QED BY <4>1
    <3> QED BY <3>1, <3>2, <3>3, <1>1, <1>3
  <2>2. ASSUME NEW i \in 1 .. n, dq'[i] = l PROVE \E j \in 1 .. n : dq[j] = l
    BY <2>2, <1>1, <1>3, <1>8
  <2> QED BY <2>1, <2>2
<1>13. m' = m /\ inverseMap' = inverseMap /\ tmpAddr' = tmpAddr
  BY DEF Get
<1> HIDE DEF n
<1>14. TagsConsistent'
  BY <1>1, <1>8, <1>9, <1>11, <1>12, <1>13 DEF TagsInv, TagsConsistent, Has, n
<1> QED
  BY <1>7, <1>13, <1>14 DEF TagsInv, SlotsNamed

\* A fresh slot for a new line.
LEMMA AllocateTags ==
    ASSUME TagsInv, NEW line \in Lines, ~Has(line), ~IsFull, Allocate(line)
    PROVE  TagsInv' /\ tmpAddr' = tmpAddr + 1 /\ tmpAddr \in Slots
<1> DEFINE n == Len(dq)
<1>1. n \in Nat /\ DOMAIN dq = 1 .. n /\ dq \in Seq(Lines)
  BY LenProperties DEF TagsInv
<1>2. tmpAddr = n /\ n \in Slots
  BY <1>1, Constants DEF TagsInv, TagsConsistent, IsFull, Slots
<1>3. <<line>> \in Seq(Lines) /\ Len(<<line>>) = 1 /\ <<line>>[1] = line
  OBVIOUS
<1>4. /\ dq' \in Seq(Lines) /\ Len(dq') = 1 + n
      /\ \A j \in 1 .. 1 + n : dq'[j] = IF j <= 1 THEN <<line>>[j] ELSE dq[j - 1]
  BY <1>1, <1>3, ConcatProperties DEF Allocate
<1>5. DOMAIN dq' = 1 .. n + 1
  BY <1>1, <1>4, LenProperties
<1>6. \A j \in 1 .. n + 1 : dq'[j] = IF j = 1 THEN line ELSE dq[j - 1]
  BY <1>1, <1>3, <1>4
<1>7. inverseMap[n] = NoLine
  BY <1>1, <1>2 DEF TagsInv, SlotsNamed
<1>8. /\ m' = [m EXCEPT ![line] = n]
      /\ inverseMap' = [inverseMap EXCEPT ![n] = line]
      /\ tmpAddr' = n + 1
  BY <1>2, <1>7 DEF Allocate, TagsInv
<1>9. /\ m' \in [Lines -> Slots \cup {NoSlot}]
      /\ inverseMap' \in [Slots -> Lines \cup {NoLine}]
      /\ tmpAddr' \in 0 .. TagLines
  BY <1>1, <1>2, <1>8, Constants DEF TagsInv
<1>10. \A i \in 1 .. n : dq[i] # line
  BY <1>1 DEF TagsInv, TagsConsistent
<1>11. \A i, j \in 1 .. n : dq[i] = dq[j] => i = j
  BY <1>1 DEF TagsInv, TagsConsistent
<1>12. \A i, j \in DOMAIN dq' : dq'[i] = dq'[j] => i = j
  <2> SUFFICES ASSUME NEW i \in 1 .. n + 1, NEW j \in 1 .. n + 1, dq'[i] = dq'[j]
               PROVE  i = j
    BY <1>5
  <2>1. CASE i = 1 \/ j = 1
    BY <2>1, <1>1, <1>6, <1>10
  <2>2. CASE i # 1 /\ j # 1
    <3>1. i - 1 \in 1 .. n /\ j - 1 \in 1 .. n /\ dq[i - 1] = dq[j - 1]
      BY <2>2, <1>1, <1>6
    <3> QED BY <3>1, <1>11
  <2> QED BY <2>1, <2>2
<1>13. \A l \in Lines : Has(l)' <=> Has(l) \/ l = line
  BY <1>2, <1>8, Constants DEF TagsInv, Has
<1>14. \A l \in Lines : (\E i \in DOMAIN dq' : dq'[i] = l)
                          <=> (\E i \in DOMAIN dq : dq[i] = l) \/ l = line
  <2> TAKE l \in Lines
  <2>1. ASSUME NEW i \in 1 .. n, dq[i] = l PROVE \E j \in DOMAIN dq' : dq'[j] = l
    <3>1. i + 1 \in 1 .. n + 1 /\ dq'[i + 1] = l
      BY <2>1, <1>1, <1>6
    <3> QED BY <3>1, <1>5
  <2>2. 1 \in DOMAIN dq' /\ dq'[1] = line
    BY <1>1, <1>5, <1>6
  <2>3. ASSUME NEW i \in 1 .. n + 1, dq'[i] = l
        PROVE  (\E j \in DOMAIN dq : dq[j] = l) \/ l = line
    <3>1. CASE i = 1
      BY <3>1, <2>3, <1>1, <1>6
    <3>2. CASE i # 1
      <4>1. i - 1 \in 1 .. n /\ dq[i - 1] = l
        BY <3>2, <2>3, <1>1, <1>6
      <4> QED BY <4>1, <1>1
    <3> QED BY <3>1, <3>2
  <2> QED BY <2>1, <2>2, <2>3, <1>1, <1>5
<1>15. \A l \in Lines : Has(l)' => m'[l] < tmpAddr' /\ inverseMap'[m'[l]] = l
  <2> SUFFICES ASSUME NEW l \in Lines, Has(l)'
               PROVE  m'[l] < tmpAddr' /\ inverseMap'[m'[l]] = l
    OBVIOUS
  <2>1. CASE l = line
    BY <2>1, <1>1, <1>2, <1>8 DEF TagsInv
  <2>2. CASE l # line
    <3>1. m'[l] = m[l] /\ Has(l)
      BY <2>2, <1>8, <1>13 DEF TagsInv
    <3>2. m[l] < n /\ inverseMap[m[l]] = l /\ m[l] \in Slots
      BY <3>1, <1>2 DEF TagsInv, TagsConsistent, Has
    <3>3. inverseMap'[m[l]] = inverseMap[m[l]]
      BY <3>2, <1>1, <1>8, Constants DEF TagsInv
    <3> QED BY <3>1, <3>2, <3>3, <1>1, <1>8, Constants
  <2> QED BY <2>1, <2>2
<1>16. SlotsNamed'
  BY <1>1, <1>2, <1>8, Constants DEF TagsInv, SlotsNamed
<1> HIDE DEF n
<1>17. TagsConsistent'
  <2>1. tmpAddr' = Len(dq') /\ tmpAddr' <= TagLines
    BY <1>1, <1>4, <1>8, <1>9
  <2>2. \A l \in Lines : Has(l) <=> \E i \in DOMAIN dq : dq[i] = l
    BY DEF TagsInv, TagsConsistent
  <2>3. \A l \in Lines : Has(l)' <=> \E i \in DOMAIN dq' : dq'[i] = l
    BY <2>2, <1>13, <1>14
  <2> QED BY <2>1, <2>3, <1>12, <1>15 DEF TagsConsistent
<1> QED
  BY <1>2, <1>4, <1>8, <1>9, <1>16, <1>17 DEF TagsInv

\* The slot of the line used least recently for a new line.
LEMMA TakeOverTags ==
    ASSUME TagsInv, NEW line \in Lines, ~Has(line), IsFull, TakeOver(line)
    PROVE  TagsInv' /\ tmpAddr' = tmpAddr /\ FreeAddr \in Slots /\ FreeAddr < tmpAddr
<1> DEFINE n == Len(dq)
           victim == dq[n]
           short == SubSeq(dq, 1, n - 1)
<1>1. n \in Nat /\ DOMAIN dq = 1 .. n /\ dq \in Seq(Lines) /\ n > 0 /\ n = TagLines
  BY LenProperties, Constants DEF TagsInv, IsFull
<1>2. victim \in Lines /\ Has(victim) /\ victim # line
  BY <1>1, ElementOfSeq DEF TagsInv, TagsConsistent
<1>3. m[victim] \in Slots /\ m[victim] < tmpAddr /\ inverseMap[m[victim]] = victim
  BY <1>2 DEF TagsInv, TagsConsistent, Has
<1>4. /\ short \in Seq(Lines) /\ Len(short) = n - 1
      /\ \A j \in 1 .. n - 1 : short[j] = dq[j]
  BY <1>1, SubSeqProperties, ElementOfSeq
<1>5. <<line>> \in Seq(Lines) /\ Len(<<line>>) = 1 /\ <<line>>[1] = line
  OBVIOUS
<1>6. dq' = <<line>> \o short
  BY DEF TakeOver
<1> HIDE DEF short
<1>7. /\ dq' \in Seq(Lines) /\ Len(dq') = 1 + Len(short)
      /\ \A j \in 1 .. 1 + Len(short) :
             dq'[j] = IF j <= 1 THEN <<line>>[j] ELSE short[j - 1]
  BY <1>4, <1>5, <1>6, ConcatProperties
<1>8. /\ Len(dq') = n
      /\ \A j \in 1 .. n : dq'[j] = IF j = 1 THEN line ELSE dq[j - 1]
  BY <1>1, <1>4, <1>5, <1>7
<1>9. DOMAIN dq' = 1 .. n
  BY <1>7, <1>8, LenProperties
<1> DEFINE free == m[victim]
<1>10. FreeAddr = free
  BY DEF FreeAddr
<1>11. /\ m' = [m EXCEPT ![victim] = NoSlot, ![line] = free]
       /\ inverseMap' = [inverseMap EXCEPT ![free] = line]
       /\ tmpAddr' = tmpAddr
  BY <1>10 DEF TakeOver
<1>12. free \in Slots /\ free < tmpAddr /\ inverseMap[free] = victim
  BY <1>3
<1> HIDE DEF free
<1>13. /\ m' \in [Lines -> Slots \cup {NoSlot}]
       /\ m'[line] = free /\ m'[victim] = NoSlot
       /\ \A l \in Lines \ {line, victim} : m'[l] = m[l]
  <2> HIDE DEF victim
  <2> QED BY <1>2, <1>11, <1>12 DEF TagsInv
<1>14. /\ inverseMap' \in [Slots -> Lines \cup {NoLine}]
       /\ inverseMap'[free] = line
       /\ \A s \in Slots \ {free} : inverseMap'[s] = inverseMap[s]
  BY <1>11, <1>12 DEF TagsInv
<1>15. \A i, j \in 1 .. n : dq[i] = dq[j] => i = j
  BY <1>1 DEF TagsInv, TagsConsistent
<1>16. \A i \in 1 .. n : dq[i] # line
  BY <1>1 DEF TagsInv, TagsConsistent
<1>17. \A i, j \in DOMAIN dq' : dq'[i] = dq'[j] => i = j
  <2> SUFFICES ASSUME NEW i \in 1 .. n, NEW j \in 1 .. n, dq'[i] = dq'[j]
               PROVE  i = j
    BY <1>9
  <2>1. CASE i = 1 \/ j = 1
    BY <2>1, <1>1, <1>8, <1>16
  <2>2. CASE i # 1 /\ j # 1
    <3>1. i - 1 \in 1 .. n /\ j - 1 \in 1 .. n /\ dq[i - 1] = dq[j - 1]
      BY <2>2, <1>1, <1>8
    <3> QED BY <3>1, <1>15
  <2> QED BY <2>1, <2>2
<1>18. \A l \in Lines : Has(l)' <=> (Has(l) /\ l # victim) \/ l = line
  <2> HIDE DEF victim
  <2> QED BY <1>2, <1>12, <1>13, Constants DEF Has
<1>19. \A l \in Lines : (\E i \in 1 .. n : dq'[i] = l)
                           <=> ((\E i \in 1 .. n : dq[i] = l) /\ l # victim) \/ l = line
  <2> TAKE l \in Lines
  <2>1. ASSUME NEW i \in 1 .. n, dq[i] = l, l # victim PROVE \E j \in 1 .. n : dq'[j] = l
    <3>1. i # n
      BY <2>1
    <3>2. i + 1 \in 1 .. n /\ dq'[i + 1] = l
      BY <3>1, <2>1, <1>1, <1>8
    <3> QED BY <3>2
  <2>2. 1 \in 1 .. n /\ dq'[1] = line
    BY <1>1, <1>8
  <2>3. ASSUME NEW i \in 1 .. n, dq'[i] = l, l # line
        PROVE  (\E j \in 1 .. n : dq[j] = l) /\ l # victim
    <3>1. i - 1 \in 1 .. n /\ dq[i - 1] = l /\ i - 1 # n
      BY <2>3, <1>1, <1>8
    <3>2. n \in 1 .. n
      BY <1>1
    <3>3. l # victim
      BY <3>1, <3>2, <1>15
    <3> QED BY <3>1, <3>3
  <2> QED BY <2>1, <2>2, <2>3
<1> HIDE DEF victim
<1>20. \A l \in Lines : Has(l)' => m'[l] < tmpAddr' /\ inverseMap'[m'[l]] = l
  <2> SUFFICES ASSUME NEW l \in Lines, Has(l)'
               PROVE  m'[l] < tmpAddr' /\ inverseMap'[m'[l]] = l
    OBVIOUS
  <2>1. CASE l = line
    BY <2>1, <1>11, <1>12, <1>13, <1>14
  <2>2. CASE l # line
    <3>1. Has(l) /\ l # victim /\ m'[l] = m[l]
      BY <2>2, <1>13, <1>18
    <3>2. m[l] < tmpAddr /\ inverseMap[m[l]] = l /\ m[l] \in Slots
      BY <3>1 DEF TagsInv, TagsConsistent, Has
    <3>3. m[l] # free
      BY <3>1, <3>2, <1>12
    <3> QED BY <3>1, <3>2, <3>3, <1>11, <1>14
  <2> QED BY <2>1, <2>2
<1>21. SlotsNamed'
  <2> SUFFICES ASSUME NEW s \in Slots PROVE s < tmpAddr <=> inverseMap'[s] # NoLine
    BY <1>11 DEF SlotsNamed
  <2>1. s < tmpAddr <=> inverseMap[s] # NoLine
    BY DEF TagsInv, SlotsNamed
  <2> QED BY <2>1, <1>12, <1>14, Constants
<1>22. TagsConsistent'
  <2>1. tmpAddr' = Len(dq') /\ tmpAddr' <= TagLines
    BY <1>8, <1>11 DEF TagsInv, TagsConsistent
  <2>2. \A l \in Lines : Has(l) <=> \E i \in 1 .. n : dq[i] = l
    BY <1>1 DEF TagsInv, TagsConsistent
  <2>3. \A l \in Lines : Has(l)' <=> \E i \in DOMAIN dq' : dq'[i] = l
    BY <2>2, <1>9, <1>18, <1>19
  <2> QED BY <2>1, <2>3, <1>17, <1>20 DEF TagsConsistent
<1> QED
  BY <1>7, <1>10, <1>11, <1>12, <1>13, <1>14, <1>21, <1>22 DEF TagsInv

-----------------------------------------------------------------------------
(* The requests.                                                           *)

\* A larger tmpAddr only allows more requests.
LEMMA BelowMonotone ==
    ASSUME NEW a \in Nat, NEW b \in Nat, a <= b
    PROVE  RequestsBelow(a) \subseteq RequestsBelow(b)
  BY DEF RequestsBelow

\* Lists of requests stay what they are when tmpAddr grows.
LEMMA ListsMonotone ==
    ASSUME NEW a \in Nat, NEW b \in Nat, a <= b
    PROVE  /\ \A list \in Seq(RequestsBelow(a)) : list \in Seq(RequestsBelow(b))
           /\ \A f \in [Channels -> Seq(RequestsBelow(a))] :
                  f \in [Channels -> Seq(RequestsBelow(b))]
<1>1. RequestsBelow(a) \subseteq RequestsBelow(b)
  BY BelowMonotone
<1>2. \A list \in Seq(RequestsBelow(a)) : list \in Seq(RequestsBelow(b))
  <2> DEFINE A == RequestsBelow(a)
             B == RequestsBelow(b)
  <2>1. A \subseteq B
    BY <1>1
  <2> HIDE DEF A, B
  <2>2. \A list \in Seq(A) : list \in Seq(B)
    BY <2>1, SeqMonotone
  <2> QED BY <2>2 DEF A, B
<1> QED
  BY <1>2

\* The requests that NVMain makes are well-formed.
LEMMA RequestFacts ==
    ASSUME NEW limit \in 0 .. TagLines, NEW kind \in Kinds, NEW block \in Blocks,
           NEW from \in Requests \cup {NoRequest}
    PROVE  /\ \A slot \in 0 .. limit - 1 :
                  Request(kind, "DRAM", slot, block, from) \in RequestsBelow(limit)
           /\ kind \in {"READ", "NVRAM_WRITE"} => \A line \in Lines :
                  Request(kind, "NVRAM", line, block, from) \in RequestsBelow(limit)
<1>1. 0 .. limit - 1 \subseteq Slots
  BY Constants DEF Slots
<1> QED
  BY <1>1 DEF Request, RequestsBelow, Channels

\* Blocks are blocks.
LEMMA BlockFacts ==
    /\ NoBlock \in Blocks
    /\ \A line \in Lines, written \in BOOLEAN : Block(line, written) \in Blocks
  BY DEF NoBlock, Block, Blocks

\* Enqueueing, accepted or refused, leaves queues of requests.
LEMMA EnqueuedFacts ==
    ASSUME NEW limit \in Nat, NEW queues \in [Channels -> Seq(RequestsBelow(limit))],
           NEW request \in RequestsBelow(limit)
    PROVE  Enqueued(queues, request) \in [Channels -> Seq(RequestsBelow(limit))]
<1>1. request.channel \in Channels
  BY DEF RequestsBelow
<1> DEFINE S == RequestsBelow(limit)
<1>2. request \in S /\ queues \in [Channels -> Seq(S)]
  OBVIOUS
<1> HIDE DEF S
<1>3. Append(queues[request.channel], request) \in Seq(S)
  BY <1>1, <1>2, AppendProperties
<1>4. Enqueued(queues, request) \in [Channels -> Seq(S)]
  BY <1>1, <1>2, <1>3 DEF Enqueued
<1> QED
  BY <1>4 DEF S

\* Appending to and erasing from a list of requests.
LEMMA ListFacts ==
    ASSUME NEW limit \in Nat, NEW list \in Seq(RequestsBelow(limit))
    PROVE  /\ \A request \in RequestsBelow(limit) :
                  Append(list, request) \in Seq(RequestsBelow(limit))
           /\ \A i \in DOMAIN list : /\ Without(list, i) \in Seq(RequestsBelow(limit))
                                     /\ list[i] \in RequestsBelow(limit)
<1> DEFINE S == RequestsBelow(limit)
<1>1. list \in Seq(S)
  OBVIOUS
<1> HIDE DEF S
<1>2. DOMAIN list = 1 .. Len(list)
  BY <1>1, LenProperties
<1>3. \A request \in S : Append(list, request) \in Seq(S)
  BY <1>1, AppendProperties
<1>4. \A i \in DOMAIN list : Without(list, i) \in Seq(S) /\ list[i] \in S
  BY <1>1, <1>2, WithoutFacts, ElementOfSeq
<1> QED
  BY <1>3, <1>4 DEF S

-----------------------------------------------------------------------------
(* The handlers.                                                           *)

\* The part of RequestsInv that NVMain's handlers change.
IssuedInv ==
    /\ waitingDRAMWrite \in Seq(RequestsBelow(tmpAddr))
    /\ queue \in [Channels -> Seq(RequestsBelow(tmpAddr))]

\* A replacement of a line.
LEMMA ReplaceInv ==
    ASSUME TagsInv, IssuedInv, NEW line \in Lines, NEW written \in BOOLEAN,
           ~Has(line), IsFull, Replace(Block(line, written))
    PROVE  TagsInv' /\ IssuedInv' /\ tmpAddr' = tmpAddr
<1>1. TakeOver(line)
  BY DEF Replace, Block
<1>2. TagsInv' /\ tmpAddr' = tmpAddr /\ FreeAddr \in Slots /\ FreeAddr < tmpAddr
  BY <1>1, TakeOverTags
<1>3. tmpAddr \in 0 .. TagLines /\ TagLines \in Nat /\ FreeAddr \in 0 .. tmpAddr - 1
  BY <1>2, Constants DEF TagsInv, Slots
<1> DEFINE write == DRAMWrite(FreeAddr, Block(line, written))
           read == Request("EVICT_READ", "DRAM", FreeAddr, NoBlock, NoRequest)
<1>4. write \in RequestsBelow(tmpAddr) /\ read \in RequestsBelow(tmpAddr)
  <2>1. {"EVICT_READ", "DRAM_WRITE"} \subseteq Kinds
    BY DEF Kinds
  <2> QED BY <2>1, <1>3, RequestFacts, BlockFacts DEF DRAMWrite
<1>5. waitingDRAMWrite' = Append(waitingDRAMWrite, write) /\ queue' = Enqueued(queue, read)
  BY DEF Replace
<1> HIDE DEF write, read
<1>6. waitingDRAMWrite' \in Seq(RequestsBelow(tmpAddr))
  BY <1>3, <1>4, <1>5, ListFacts DEF IssuedInv
<1>7. queue' \in [Channels -> Seq(RequestsBelow(tmpAddr))]
  BY <1>3, <1>4, <1>5, EnqueuedFacts DEF IssuedInv
<1> QED
  BY <1>2, <1>6, <1>7 DEF IssuedInv

\* A hit, of a client or of a fill, with its request to the slot.
LEMMA GetInv ==
    ASSUME TagsInv, IssuedInv, NEW line \in Lines, Has(line), Get(line),
           NEW kind \in Kinds, NEW block \in Blocks, NEW from \in Requests \cup {NoRequest},
           queue' = Enqueued(queue, Request(kind, "DRAM", m[line], block, from)),
           UNCHANGED waitingDRAMWrite
    PROVE  TagsInv' /\ IssuedInv' /\ tmpAddr' = tmpAddr
<1>1. TagsInv' /\ tmpAddr' = tmpAddr
  BY GetTags
<1>2. tmpAddr \in 0 .. TagLines /\ TagLines \in Nat /\ m[line] \in 0 .. tmpAddr - 1
  <2>1. m[line] \in Slots /\ m[line] < tmpAddr
    BY DEF TagsInv, TagsConsistent, Has
  <2> QED BY <2>1, Constants DEF TagsInv
<1>3. Request(kind, "DRAM", m[line], block, from) \in RequestsBelow(tmpAddr)
  BY <1>2, RequestFacts
<1>4. queue' \in [Channels -> Seq(RequestsBelow(tmpAddr))]
  BY <1>2, <1>3, EnqueuedFacts DEF IssuedInv
<1> QED
  BY <1>1, <1>4 DEF IssuedInv

\* An allocation with the request to the new slot.
LEMMA AllocateInv ==
    ASSUME TagsInv, IssuedInv, NEW line \in Lines, ~Has(line), ~IsFull, Allocate(line),
           NEW kind \in Kinds, NEW block \in Blocks, NEW from \in Requests \cup {NoRequest},
           queue' = Enqueued(queue, Request(kind, "DRAM", tmpAddr, block, from)),
           UNCHANGED waitingDRAMWrite
    PROVE  TagsInv' /\ IssuedInv' /\ tmpAddr' = tmpAddr + 1
<1>1. TagsInv' /\ tmpAddr' = tmpAddr + 1
  BY AllocateTags
<1>2. tmpAddr \in Nat /\ tmpAddr' \in 0 .. TagLines /\ TagLines \in Nat /\ tmpAddr' \in Nat
  BY <1>1, Constants DEF TagsInv
<1>3. tmpAddr <= tmpAddr' /\ tmpAddr \in 0 .. tmpAddr' - 1
  BY <1>1, <1>2
<1>4. /\ waitingDRAMWrite \in Seq(RequestsBelow(tmpAddr'))
      /\ queue \in [Channels -> Seq(RequestsBelow(tmpAddr'))]
  BY <1>2, <1>3, ListsMonotone DEF IssuedInv
<1>5. Request(kind, "DRAM", tmpAddr, block, from) \in RequestsBelow(tmpAddr')
  BY <1>2, <1>3, RequestFacts
<1>6. queue' \in [Channels -> Seq(RequestsBelow(tmpAddr'))]
  BY <1>2, <1>4, <1>5, EnqueuedFacts
<1> QED
  BY <1>1, <1>4, <1>6 DEF IssuedInv

\* NVMain::IssueCommand.
LEMMA IssueCommandInv ==
    ASSUME TagsInv, IssuedInv, NEW r \in Requests, NEW type \in {"READ", "WRITE"},
           NEW line \in Lines, IssueCommand(r, type, line)
    PROVE  TagsInv' /\ IssuedInv' /\ tmpAddr' \in {tmpAddr, tmpAddr + 1}
<1> DEFINE block == Block(line, type = "WRITE")
<1>1. type \in Kinds /\ block \in Blocks /\ r \in Requests \cup {NoRequest}
  BY BlockFacts DEF Kinds
<1>2. \A channel, addr : ClientRequest(r, type, line, channel, addr)
                             = Request(type, channel, addr, block, r)
  BY DEF ClientRequest
<1> HIDE DEF block
<1>3. CASE Hit(r, type, line)
  <2>1. /\ Has(line) /\ Get(line) /\ UNCHANGED waitingDRAMWrite
        /\ queue' = Enqueued(queue, Request(type, "DRAM", m[line], block, r))
    BY <1>2, <1>3 DEF Hit
  <2> QED BY <2>1, <1>1, GetInv
<1>4. CASE ReadMiss(r, type, line)
  <2>1. /\ UNCHANGED <<tags, waitingDRAMWrite>> /\ type = "READ"
        /\ queue' = Enqueued(queue, Request(type, "NVRAM", line, block, r))
    BY <1>2, <1>4 DEF ReadMiss
  <2>2. tmpAddr \in 0 .. TagLines /\ TagLines \in Nat
    BY Constants DEF TagsInv
  <2>3. Request(type, "NVRAM", line, block, r) \in RequestsBelow(tmpAddr)
    BY <2>1, <2>2, <1>1, RequestFacts
  <2>4. queue' \in [Channels -> Seq(RequestsBelow(tmpAddr))]
    BY <2>1, <2>2, <2>3, EnqueuedFacts DEF IssuedInv
  <2> QED BY <2>1, <2>4 DEF tags, TagsInv, TagsConsistent, SlotsNamed, Has, IssuedInv
<1>5. CASE WriteAllocate(r, type, line)
  <2>1. /\ ~Has(line) /\ ~IsFull /\ Allocate(line) /\ UNCHANGED waitingDRAMWrite
        /\ queue' = Enqueued(queue, Request(type, "DRAM", tmpAddr, block, r))
    BY <1>2, <1>5 DEF WriteAllocate
  <2> QED BY <2>1, <1>1, AllocateInv
<1>6. CASE WriteReplace(r, type, line)
  <2>1. ~Has(line) /\ IsFull /\ Replace(Block(line, TRUE))
    BY <1>6 DEF WriteReplace
  <2> QED BY <2>1, ReplaceInv
<1> QED
  BY <1>3, <1>4, <1>5, <1>6 DEF IssueCommand

\* A read that came from NVRAM.
LEMMA FillCacheInv ==
    ASSUME TagsInv, IssuedInv, NEW line \in Lines, FillCache(line)
    PROVE  TagsInv' /\ IssuedInv' /\ tmpAddr' \in {tmpAddr, tmpAddr + 1}
<1> DEFINE block == Block(line, FALSE)
<1>1. /\ "DRAM_WRITE" \in Kinds /\ block \in Blocks
      /\ NoRequest \in Requests \cup {NoRequest} /\ FALSE \in BOOLEAN
  BY BlockFacts DEF Kinds
<1>2. \A slot : DRAMWrite(slot, block) = Request("DRAM_WRITE", "DRAM", slot, block, NoRequest)
  BY DEF DRAMWrite
<1>3. CASE /\ Has(line) /\ Get(line) /\ UNCHANGED waitingDRAMWrite
           /\ queue' = Enqueued(queue, DRAMWrite(m[line], block))
  <2>1. queue' = Enqueued(queue, Request("DRAM_WRITE", "DRAM", m[line], block, NoRequest))
    BY <1>2, <1>3
  <2> HIDE DEF block
  <2> QED BY <2>1, <1>1, <1>3, GetInv
<1>4. CASE /\ ~Has(line) /\ ~IsFull /\ Allocate(line) /\ UNCHANGED waitingDRAMWrite
           /\ queue' = Enqueued(queue, DRAMWrite(tmpAddr, block))
  <2>1. queue' = Enqueued(queue, Request("DRAM_WRITE", "DRAM", tmpAddr, block, NoRequest))
    BY <1>2, <1>4
  <2> HIDE DEF block
  <2> QED BY <2>1, <1>1, <1>4, AllocateInv
<1>5. CASE ~Has(line) /\ IsFull /\ Replace(Block(line, FALSE))
  BY <1>1, <1>5, ReplaceInv
<1> QED
  BY <1>3, <1>4, <1>5 DEF FillCache

\* The end of an eviction.
LEMMA FinishEvictionInv ==
    ASSUME TagsInv, IssuedInv, dram \in [Slots -> Blocks],
           NEW slot \in 0 .. tmpAddr - 1, FinishEviction(slot)
    PROVE  TagsInv' /\ IssuedInv' /\ tmpAddr' = tmpAddr
<1>1. UNCHANGED tags
  BY DEF FinishEviction, NothingToDo
<1>2. TagsInv' /\ tmpAddr' = tmpAddr
  BY <1>1 DEF tags, TagsInv, TagsConsistent, SlotsNamed, Has
<1>3. tmpAddr \in 0 .. TagLines /\ TagLines \in Nat /\ slot \in Slots
  BY Constants DEF TagsInv, Slots
<1>4. inverseMap[slot] \in Lines /\ dram[slot] \in Blocks
  BY <1>3 DEF TagsInv, SlotsNamed
<1> DEFINE write == Request("NVRAM_WRITE", "NVRAM", inverseMap[slot], dram[slot], NoRequest)
           i == FirstWaiting(slot)
<1>5. write \in RequestsBelow(tmpAddr)
  <2>1. "NVRAM_WRITE" \in Kinds
    BY DEF Kinds
  <2> QED BY <2>1, <1>3, <1>4, RequestFacts
<1>6. CASE WaitingFor(slot) = {}
  BY <1>2, <1>6 DEF FinishEviction, NothingToDo, IssuedInv
<1>7. CASE WaitingFor(slot) # {}
  <2>1. WaitingFor(slot) \in SUBSET Nat /\ WaitingFor(slot) \subseteq DOMAIN waitingDRAMWrite
    BY LenProperties DEF WaitingFor, IssuedInv
  <2>2. i \in DOMAIN waitingDRAMWrite
    BY <1>7, <2>1, LeastFacts DEF FirstWaiting
  <2>3. /\ queue' = Enqueued(Enqueued(queue, waitingDRAMWrite[i]), write)
        /\ waitingDRAMWrite' = Without(waitingDRAMWrite, i)
    BY <1>7 DEF FinishEviction, Erased
  <2> HIDE DEF i, write
  <2>4. /\ Without(waitingDRAMWrite, i) \in Seq(RequestsBelow(tmpAddr))
        /\ waitingDRAMWrite[i] \in RequestsBelow(tmpAddr)
    BY <1>3, <2>2, ListFacts DEF IssuedInv
  <2>5. Enqueued(queue, waitingDRAMWrite[i]) \in [Channels -> Seq(RequestsBelow(tmpAddr))]
    BY <1>3, <2>4, EnqueuedFacts, SMTT(30) DEF IssuedInv
  <2>6. queue' \in [Channels -> Seq(RequestsBelow(tmpAddr))]
    BY <1>3, <1>5, <2>3, <2>5, EnqueuedFacts
  <2> QED BY <1>2, <2>3, <2>4, <2>6 DEF IssuedInv
<1> QED
  BY <1>6, <1>7

-----------------------------------------------------------------------------
(* The theorem.                                                            *)

\* IndInv in the parts that the handlers preserve.
LEMMA IndInvParts ==
    /\ IndInv <=> /\ TagsInv /\ RequestsInv
                  /\ m_request_map \subseteq Requests /\ answered \subseteq Requests
                  /\ refused \subseteq Requests
                  /\ {retryRead, retryWrite, blocked} \subseteq BOOLEAN
    /\ RequestsInv <=> /\ IssuedInv /\ dram \in [Slots -> Blocks]
                       /\ scheduled \in [Channels -> Seq(RequestsBelow(tmpAddr))]
<1>1. RequestsInv <=> /\ IssuedInv /\ dram \in [Slots -> Blocks]
                      /\ scheduled \in [Channels -> Seq(RequestsBelow(tmpAddr))]
  BY DEF RequestsInv, IssuedInv
<1>2. CacheTypeOK /\ TagsConsistent /\ SlotsNamed <=> TagsInv /\ RequestsInv
  BY DEF CacheTypeOK, TagsInv, RequestsInv
<1> QED
  BY <1>1, <1>2 DEF IndInv, TypeOK

\* The start: an empty cache.
LEMMA InitInv == MemInit => IndInv
<1> SUFFICES ASSUME MemInit PROVE IndInv
  OBVIOUS
<1>1. /\ dq = <<>> /\ m = [l \in Lines |-> NoSlot]
      /\ inverseMap = [s \in Slots |-> NoLine] /\ tmpAddr = 0
  BY DEF MemInit, Init
<1>2. dq \in Seq(Lines) /\ Len(dq) = 0 /\ DOMAIN dq = {}
  BY <1>1, EmptySeq
<1>3. TagsInv
  BY <1>1, <1>2, Constants DEF TagsInv, TagsConsistent, SlotsNamed, Has
<1>4. \A S : <<>> \in Seq(S)
  OBVIOUS
<1>5. RequestsInv
  BY <1>1, <1>4, BlockFacts DEF MemInit, Init, RequestsInv
<1>6. /\ m_request_map = {} /\ answered = {} /\ refused = {}
      /\ {retryRead, retryWrite, blocked} \subseteq BOOLEAN
  BY DEF MemInit
<1> QED
  BY <1>3, <1>5, <1>6, IndInvParts

\* A client's request, accepted or refused.
LEMMA RecvTimingReqInv ==
    ASSUME IndInv, NEW r \in Requests, NEW type \in {"READ", "WRITE"}, NEW line \in Lines,
           RecvTimingReq(r, type, line)
    PROVE  IndInv'
<1>0. TagsInv /\ IssuedInv
  BY IndInvParts
<1>1. CASE Accept(r, type, line)
  <2>1. IssueCommand(r, type, line) /\ UNCHANGED <<scheduled, dram>>
    BY <1>1 DEF Accept, IssueCommand
  <2>2. TagsInv' /\ IssuedInv' /\ tmpAddr' \in {tmpAddr, tmpAddr + 1}
    BY <2>1, <1>0, IssueCommandInv
  <2>3. tmpAddr \in Nat /\ tmpAddr' \in Nat /\ tmpAddr <= tmpAddr'
    BY <2>2, <1>0, Constants DEF TagsInv
  <2>4. scheduled' \in [Channels -> Seq(RequestsBelow(tmpAddr'))]
    <3>1. scheduled \in [Channels -> Seq(RequestsBelow(tmpAddr))]
      BY IndInvParts
    <3>2. scheduled \in [Channels -> Seq(RequestsBelow(tmpAddr'))]
      BY <2>3, <3>1, ListsMonotone
    <3> QED BY <2>1, <3>2
  <2>5. dram' \in [Slots -> Blocks]
    BY <2>1, IndInvParts
  <2>6. RequestsInv'
    BY <2>2, <2>4, <2>5 DEF RequestsInv, IssuedInv
  <2>7. /\ m_request_map' \subseteq Requests /\ answered' \subseteq Requests
        /\ refused' \subseteq Requests
    BY <1>1, IndInvParts DEF Accept, Entered
  <2>8. {retryRead, retryWrite, blocked}' \subseteq BOOLEAN
    <3>1. blocked' \in BOOLEAN /\ retryRead' = retryRead /\ retryWrite' = retryWrite
      BY <1>1 DEF Accept
    <3> QED BY <3>1, IndInvParts
  <2> QED
    BY <2>2, <2>6, <2>7, <2>8, IndInvParts
    DEF IndInv, TypeOK, CacheTypeOK, TagsInv, RequestsInv
<1>2. CASE Refuse(type)
  <2>1. /\ UNCHANGED <<vars, m_request_map, answered, refused>>
        /\ {retryRead, retryWrite, blocked}' \subseteq BOOLEAN
    BY <1>2 DEF Refuse
  <2> QED BY <2>1 DEF vars, tags, IndInv, TypeOK, CacheTypeOK, TagsConsistent, SlotsNamed, Has
<1> QED
  BY <1>1, <1>2 DEF RecvTimingReq

\* A controller takes a transaction out of its queue.
LEMMA ScheduleInv ==
    ASSUME IndInv, NEW channel \in Channels, MemSchedule(channel)
    PROVE  IndInv'
<1>1. PICK i \in FirstOfAddress(queue[channel]) :
          /\ queue' = [queue EXCEPT ![channel] = Without(@, i)]
          /\ scheduled' = [scheduled EXCEPT ![channel] = Append(@, queue[channel][i])]
  BY DEF MemSchedule, Schedule
<1>2. tmpAddr \in Nat /\ i \in DOMAIN queue[channel]
  BY Constants DEF IndInv, TypeOK, CacheTypeOK, FirstOfAddress
<1>3. /\ queue[channel] \in Seq(RequestsBelow(tmpAddr))
      /\ scheduled[channel] \in Seq(RequestsBelow(tmpAddr))
  BY DEF IndInv, TypeOK, CacheTypeOK
<1>4. /\ Without(queue[channel], i) \in Seq(RequestsBelow(tmpAddr))
      /\ queue[channel][i] \in RequestsBelow(tmpAddr)
  BY <1>2, <1>3, ListFacts
<1>5. Append(scheduled[channel], queue[channel][i]) \in Seq(RequestsBelow(tmpAddr))
  BY <1>2, <1>3, <1>4, ListFacts
<1>6. /\ queue' \in [Channels -> Seq(RequestsBelow(tmpAddr))]
      /\ scheduled' \in [Channels -> Seq(RequestsBelow(tmpAddr))]
  BY <1>1, <1>4, <1>5 DEF IndInv, TypeOK, CacheTypeOK
<1>7. UNCHANGED <<tags, waitingDRAMWrite, dram, memVars>>
  BY DEF MemSchedule, Schedule
<1> QED
  BY <1>6, <1>7 DEF tags, memVars, IndInv, TypeOK, CacheTypeOK, TagsConsistent, SlotsNamed, Has

\* A request completes.
LEMMA CompleteInv ==
    ASSUME IndInv, NEW channel \in Channels, NEW i, CompleteRequest(channel, i)
    PROVE  IndInv'
<1> DEFINE request == scheduled[channel][i]
           S == RequestsBelow(tmpAddr)
<1>0. /\ TagsInv /\ IssuedInv /\ dram \in [Slots -> Blocks]
      /\ scheduled \in [Channels -> Seq(S)]
  BY IndInvParts
<1>1. tmpAddr \in 0 .. TagLines /\ tmpAddr \in Nat /\ TagLines \in Nat
  BY <1>0, Constants DEF TagsInv
<1>2. i \in DOMAIN scheduled[channel]
  BY DEF CompleteRequest, Complete, FirstOfAddress
<1>3. request \in S /\ Without(scheduled[channel], i) \in Seq(S)
  BY <1>0, <1>1, <1>2, ListFacts
<1>4. /\ scheduled' = [scheduled EXCEPT ![channel] = Without(scheduled[channel], i)]
      /\ dram' = Stored(request)
      /\ RequestComplete(request)
  BY DEF CompleteRequest, Complete
<1> HIDE DEF request
<1>5. scheduled' \in [Channels -> Seq(S)]
  BY <1>0, <1>3, <1>4
<1>6. /\ request.addr \in IF request.channel = "DRAM" THEN 0 .. tmpAddr - 1 ELSE Lines
      /\ request.channel \in Channels /\ request.kind \in Kinds /\ request.block \in Blocks
      /\ request.from \in Requests \cup {NoRequest}
      /\ request.channel = "NVRAM" => request.kind \in {"READ", "NVRAM_WRITE"}
  BY <1>3 DEF RequestsBelow
<1>7. dram' \in [Slots -> Blocks]
  <2>1. CASE request.kind \in {"WRITE", "DRAM_WRITE"}
    <3>1. dram' = [dram EXCEPT ![request.addr] = request.block]
      BY <2>1, <1>4 DEF Stored
    <3> QED BY <3>1, <1>0, <1>6
  <2>2. CASE ~ (request.kind \in {"WRITE", "DRAM_WRITE"})
    BY <2>2, <1>0, <1>4 DEF Stored
  <2> QED BY <2>1, <2>2
<1>8. TagsInv' /\ IssuedInv' /\ tmpAddr' \in {tmpAddr, tmpAddr + 1}
  <2>1. CASE request.kind = "READ" /\ request.channel = "NVRAM" /\ FillCache(request.addr)
    BY <2>1, <1>0, <1>6, FillCacheInv
  <2>2. CASE request.kind = "EVICT_READ" /\ FinishEviction(request.addr)
    <3>1. request.addr \in 0 .. tmpAddr - 1
      BY <2>2, <1>6 DEF Channels
    <3> QED BY <3>1, <2>2, <1>0, FinishEvictionInv
  <2>3. CASE NothingToDo
    <3>1. UNCHANGED <<dq, m, inverseMap, tmpAddr, waitingDRAMWrite, queue>>
      BY <2>3 DEF NothingToDo, tags
    <3>2. TagsInv'
      BY <3>1, <1>0 DEF TagsInv, TagsConsistent, SlotsNamed, Has
    <3>3. IssuedInv'
      BY <3>1, <1>0 DEF IssuedInv
    <3> QED BY <3>1, <3>2, <3>3
  <2> QED BY <1>4, <2>1, <2>2, <2>3 DEF RequestComplete
<1>9. scheduled' \in [Channels -> Seq(RequestsBelow(tmpAddr'))]
  <2>1. tmpAddr' \in Nat /\ tmpAddr <= tmpAddr'
    BY <1>1, <1>8
  <2> QED BY <2>1, <1>1, <1>5, ListsMonotone
<1>10. /\ m_request_map' \subseteq Requests /\ answered' \subseteq Requests
       /\ refused' \subseteq Requests
  <2>1. CASE HandedOn(request) /\ Answer(request)
    BY <2>1, <1>6, IndInvParts DEF HandedOn, Answer
  <2>2. CASE UNCHANGED memVars
    BY <2>2, IndInvParts DEF memVars
  <2> QED BY <2>1, <2>2 DEF CompleteRequest, request
<1>11. {retryRead, retryWrite, blocked}' \subseteq BOOLEAN
  <2>1. CASE Answer(request)
    <3>1. retryRead' = FALSE /\ retryWrite' = FALSE /\ blocked' \in BOOLEAN
      BY <2>1 DEF Answer
    <3> QED BY <3>1
  <2>2. CASE UNCHANGED memVars
    <3>1. retryRead' = retryRead /\ retryWrite' = retryWrite /\ blocked' = blocked
      BY <2>2 DEF memVars
    <3> QED BY <3>1, IndInvParts
  <2> QED BY <2>1, <2>2 DEF CompleteRequest, request
<1> QED
  BY <1>7, <1>8, <1>9, <1>10, <1>11
  DEF IndInv, TypeOK, CacheTypeOK, TagsInv, IssuedInv

\* Every step preserves the invariant.
LEMMA NextInv == IndInv /\ [Next]_allVars => IndInv'
<1> SUFFICES ASSUME IndInv, [Next]_allVars PROVE IndInv'
  OBVIOUS
<1>1. ASSUME NEW r \in Requests, NEW type \in {"READ", "WRITE"}, NEW line \in Lines,
             RecvTimingReq(r, type, line)
      PROVE  IndInv'
  BY <1>1, RecvTimingReqInv
<1>2. ASSUME NEW channel \in Channels, MemSchedule(channel)
      PROVE  IndInv'
  BY <1>2, ScheduleInv
<1>3. ASSUME NEW channel \in Channels, NEW i \in 1 .. Len(scheduled[channel]),
             CompleteRequest(channel, i)
      PROVE  IndInv'
  BY <1>3, CompleteInv
<1>4. CASE UNCHANGED allVars
  BY <1>4 DEF allVars, vars, tags, memVars, IndInv, TypeOK, CacheTypeOK, TagsConsistent,
              SlotsNamed, Has
<1> QED
  BY <1>1, <1>2, <1>3, <1>4 DEF Next

\* The tags and the requests of NVMain stay well-formed, whatever the client sends and
\* whatever the controllers refuse: the inductive invariant.
THEOREM CacheConsistent == Spec => []IndInv
<1>1. MemInit => IndInv
  BY InitInv
<1>2. IndInv /\ [Next]_allVars => IndInv'
  BY NextInv
<1> QED
  BY <1>1, <1>2, PTL DEF Spec

\* Each cached line is in the LRU once and has a slot of its own, which inverseMap
\* takes back to it (nvmain.h, class LRU; nvmain.cpp, IssueCommand and RequestComplete).
THEOREM TagsAlwaysConsistent == Spec => []TagsConsistent
<1>1. IndInv => TagsConsistent
  BY DEF IndInv
<1> QED
  BY <1>1, CacheConsistent, PTL
=============================================================================
