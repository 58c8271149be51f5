---------------------------- MODULE Lists_proofs ----------------------------
(***************************************************************************)
(* What the operators of Lists return.                                     *)
(***************************************************************************)
EXTENDS Lists, SequenceTheorems, WellFoundedInduction, TLAPS

\* Every non-empty set of naturals has a least element.
LEMMA LeastNatural ==
    ASSUME NEW T \in SUBSET Nat, T # {}
    PROVE  \E x \in T : \A y \in T : x <= y
<1>1. IsWellFoundedOn(OpToRel(<, Nat), Nat)
  BY NatLessThanWellFounded
<1>2. PICK x \in T : \A y \in T : ~ (<<y, x>> \in OpToRel(<, Nat))
  BY <1>1, WFMin
<1>3. \A y \in T : ~ (y < x)
  BY <1>2 DEF OpToRel
<1> QED
  BY <1>3

\* Least picks it.
LEMMA LeastFacts ==
    ASSUME NEW T \in SUBSET Nat, T # {}
    PROVE  /\ Least(T) \in T
           /\ \A y \in T : Least(T) <= y
  BY LeastNatural DEF Least

\* What list.insert leaves: a list one longer.
LEMMA InsertedAtFacts ==
    ASSUME NEW S, NEW list \in Seq(S), NEW i \in 1 .. Len(list) + 1, NEW e \in S
    PROVE  /\ InsertedAt(list, i, e) \in Seq(S)
           /\ Len(InsertedAt(list, i, e)) = Len(list) + 1
<1> DEFINE a == SubSeq(list, 1, i - 1)
           b == SubSeq(list, i, Len(list))
<1>0. Len(list) \in Nat /\ \A j \in 1 .. Len(list) : list[j] \in S
  BY LenProperties, ElementOfSeq
<1>1. a \in Seq(S) /\ Len(a) = i - 1
  BY <1>0, SubSeqProperties
<1>2. b \in Seq(S) /\ Len(b) = Len(list) - i + 1
  BY <1>0, SubSeqProperties
<1>3. <<e>> \in Seq(S) /\ Len(<<e>>) = 1
  OBVIOUS
<1>4. a \o <<e>> \in Seq(S) /\ Len(a \o <<e>>) = i
  <2> HIDE DEF a
  <2>1. a \o <<e>> \in Seq(S) /\ Len(a \o <<e>>) = Len(a) + 1
    BY <1>1, <1>3, ConcatProperties
  <2> QED BY <2>1, <1>1, <1>0
<1> HIDE DEF a, b
<1>5. (a \o <<e>>) \o b \in Seq(S) /\ Len((a \o <<e>>) \o b) = Len(list) + 1
  <2> DEFINE c == a \o <<e>>
  <2>1. c \in Seq(S) /\ Len(c) = i
    BY <1>4
  <2> HIDE DEF c
  <2>2. c \o b \in Seq(S) /\ Len(c \o b) = Len(c) + Len(b)
    BY <2>1, <1>2, ConcatProperties
  <2>3. Len(c) + Len(b) = Len(list) + 1
    BY <2>1, <1>2, <1>0
  <2> QED BY <2>2, <2>3 DEF c
<1> QED
  BY <1>5 DEF InsertedAt, a, b

\* The new element is at its place, and the rest of the list is in its old order.
LEMMA InsertedAtElements ==
    ASSUME NEW S, NEW list \in Seq(S), NEW i \in 1 .. Len(list) + 1, NEW e \in S
    PROVE  \A j \in 1 .. Len(list) + 1 :
               InsertedAt(list, i, e)[j] = IF j < i THEN list[j]
                                           ELSE IF j = i THEN e ELSE list[j - 1]
<1> DEFINE a == SubSeq(list, 1, i - 1)
           b == SubSeq(list, i, Len(list))
           d == a \o <<e>>
<1>0. Len(list) \in Nat /\ \A j \in 1 .. Len(list) : list[j] \in S
  BY LenProperties, ElementOfSeq
<1>1. /\ a \in Seq(S) /\ Len(a) = i - 1
      /\ \A j \in 1 .. i - 1 : a[j] = list[j]
  BY <1>0, SubSeqProperties
<1>2. /\ b \in Seq(S) /\ Len(b) = Len(list) - i + 1
      /\ \A j \in 1 .. Len(list) - i + 1 : b[j] = list[i + j - 1]
  BY <1>0, SubSeqProperties
<1>3. <<e>> \in Seq(S) /\ Len(<<e>>) = 1 /\ <<e>>[1] = e
  OBVIOUS
<1> HIDE DEF a, b
<1>4. /\ d \in Seq(S) /\ Len(d) = i
      /\ \A j \in 1 .. i : d[j] = IF j < i THEN list[j] ELSE e
  <2>1. /\ d \in Seq(S) /\ Len(d) = Len(a) + 1
        /\ \A j \in 1 .. Len(a) + 1 :
              d[j] = IF j <= Len(a) THEN a[j] ELSE <<e>>[j - Len(a)]
    BY <1>1, <1>3, ConcatProperties
  <2> HIDE DEF d
  <2>2. ASSUME NEW j \in 1 .. i PROVE d[j] = IF j < i THEN list[j] ELSE e
    <3>1. CASE j < i
      BY <3>1, <2>1, <1>1, <1>0
    <3>2. CASE j = i
      BY <3>2, <2>1, <1>1, <1>3, <1>0
    <3> QED BY <3>1, <3>2, <1>0
  <2> QED BY <2>1, <2>2, <1>1, <1>0
<1> HIDE DEF d
<1>5. \A j \in 1 .. Len(d) + Len(b) :
          (d \o b)[j] = IF j <= Len(d) THEN d[j] ELSE b[j - Len(d)]
  BY <1>4, <1>2, ConcatProperties
<1>6. ASSUME NEW j \in 1 .. Len(list) + 1
      PROVE  (d \o b)[j] = IF j < i THEN list[j] ELSE IF j = i THEN e ELSE list[j - 1]
  <2>1. j \in 1 .. Len(d) + Len(b)
    BY <1>0, <1>4, <1>2
  <2>2. CASE j <= i
    BY <2>1, <2>2, <1>0, <1>4, <1>5
  <2>3. CASE j > i
    <3>1. j - Len(d) \in 1 .. Len(list) - i + 1 /\ i + (j - Len(d)) - 1 = j - 1
      BY <2>3, <1>0, <1>4
    <3> QED BY <2>1, <2>3, <3>1, <1>2, <1>4, <1>5
  <2>4. j <= i \/ j > i
    BY <1>0
  <2> QED BY <2>2, <2>3, <2>4, Zenon
<1> QED
  BY <1>6 DEF InsertedAt, a, b, d

\* What list.erase leaves: a list one shorter.
LEMMA WithoutFacts ==
    ASSUME NEW S, NEW list \in Seq(S), NEW i \in 1 .. Len(list)
    PROVE  /\ Without(list, i) \in Seq(S)
           /\ Len(Without(list, i)) = Len(list) - 1
<1> DEFINE a == SubSeq(list, 1, i - 1)
           b == SubSeq(list, i + 1, Len(list))
<1>0. Len(list) \in Nat /\ \A j \in 1 .. Len(list) : list[j] \in S
  BY LenProperties, ElementOfSeq
<1>1. a \in Seq(S) /\ Len(a) = i - 1
  BY <1>0, SubSeqProperties
<1>2. b \in Seq(S) /\ Len(b) = Len(list) - i
  BY <1>0, SubSeqProperties
<1> HIDE DEF a, b
<1>3. a \o b \in Seq(S) /\ Len(a \o b) = Len(a) + Len(b)
  BY <1>1, <1>2, ConcatProperties
<1>4. Len(a \o b) = Len(list) - 1
  BY <1>0, <1>1, <1>2, <1>3
<1> QED
  BY <1>3, <1>4 DEF Without, a, b

\* What is left of the list is in its old order.
LEMMA WithoutElements ==
    ASSUME NEW S, NEW list \in Seq(S), NEW i \in 1 .. Len(list)
    PROVE  \A j \in 1 .. Len(list) - 1 :
               Without(list, i)[j] = IF j < i THEN list[j] ELSE list[j + 1]
<1> DEFINE a == SubSeq(list, 1, i - 1)
           b == SubSeq(list, i + 1, Len(list))
<1>0. Len(list) \in Nat /\ \A j \in 1 .. Len(list) : list[j] \in S
  BY LenProperties, ElementOfSeq
<1>1. /\ a \in Seq(S) /\ Len(a) = i - 1
      /\ \A j \in 1 .. i - 1 : a[j] = list[j]
  BY <1>0, SubSeqProperties
<1>2. /\ b \in Seq(S) /\ Len(b) = Len(list) - i
      /\ \A j \in 1 .. Len(list) - i : b[j] = list[i + j]
  BY <1>0, SubSeqProperties
<1> HIDE DEF a, b
<1>3. \A j \in 1 .. Len(a) + Len(b) :
          (a \o b)[j] = IF j <= Len(a) THEN a[j] ELSE b[j - Len(a)]
  BY <1>1, <1>2, ConcatProperties
<1>4. ASSUME NEW j \in 1 .. Len(list) - 1
      PROVE  (a \o b)[j] = IF j < i THEN list[j] ELSE list[j + 1]
  <2>1. j \in 1 .. Len(a) + Len(b)
    BY <1>0, <1>1, <1>2
  <2>2. CASE j < i
    BY <2>1, <2>2, <1>0, <1>1, <1>3
  <2>3. CASE ~ (j < i)
    <3>1. j - Len(a) \in 1 .. Len(list) - i /\ ~ (j <= Len(a)) /\ i + (j - Len(a)) = j + 1
      BY <2>3, <1>0, <1>1
    <3> QED BY <2>1, <2>3, <3>1, <1>2, <1>3
  <2> QED BY <2>2, <2>3
<1> QED
  BY <1>4 DEF Without, a, b

\* A list over a set is one over every larger set.
LEMMA SeqMonotone ==
    ASSUME NEW S, NEW T, S \subseteq T, NEW list \in Seq(S)
    PROVE  list \in Seq(T)
  BY LenProperties, ElementOfSeq, SeqDef

\* Where place j of a list was before place i was erased, and where place k is after it.
Above(j, i) == IF j >= i THEN j + 1 ELSE j
Below(k, i) == IF k > i THEN k - 1 ELSE k

\* The places of a list and those of what list.erase leaves of it.
LEMMA WithoutPlaces ==
    ASSUME NEW S, NEW list \in Seq(S), NEW i \in DOMAIN list
    PROVE  /\ i \in Nat /\ Len(list) \in Nat
           /\ DOMAIN list = 1 .. Len(list)
           /\ Without(list, i) \in Seq(S)
           /\ Len(Without(list, i)) = Len(list) - 1
           /\ DOMAIN Without(list, i) = 1 .. Len(list) - 1
           /\ \A j \in DOMAIN Without(list, i) :
                /\ Above(j, i) \in DOMAIN list
                /\ Above(j, i) # i
                /\ Below(Above(j, i), i) = j
                /\ Without(list, i)[j] = list[Above(j, i)]
           /\ \A k \in DOMAIN list : k # i =>
                /\ Below(k, i) \in DOMAIN Without(list, i)
                /\ Above(Below(k, i), i) = k
                /\ Without(list, i)[Below(k, i)] = list[k]
<1>1. Len(list) \in Nat /\ DOMAIN list = 1 .. Len(list)
  BY LenProperties
<1>2. i \in 1 .. Len(list) /\ i \in Nat
  BY <1>1
<1> DEFINE rest == Without(list, i)
           n == Len(list)
<1>3. rest \in Seq(S) /\ Len(rest) = n - 1
  BY <1>2, WithoutFacts
<1>4. \A j \in 1 .. n - 1 : rest[j] = IF j < i THEN list[j] ELSE list[j + 1]
  BY <1>2, WithoutElements
<1> HIDE DEF rest
<1>5. DOMAIN rest = 1 .. n - 1
  BY <1>3, LenProperties
<1>6. ASSUME NEW j \in 1 .. n - 1
      PROVE  /\ Above(j, i) \in 1 .. n /\ Above(j, i) # i /\ Below(Above(j, i), i) = j
             /\ rest[j] = list[Above(j, i)]
  BY <1>1, <1>2, <1>4 DEF Above, Below
<1>7. ASSUME NEW k \in 1 .. n, k # i
      PROVE  /\ Below(k, i) \in 1 .. n - 1 /\ Above(Below(k, i), i) = k
             /\ rest[Below(k, i)] = list[k]
  <2>1. Below(k, i) \in 1 .. n - 1 /\ Above(Below(k, i), i) = k
    BY <1>1, <1>2, <1>7 DEF Above, Below
  <2>2. rest[Below(k, i)] = list[Above(Below(k, i), i)]
    BY <1>6, <2>1
  <2> QED BY <2>1, <2>2
<1> QED
  BY <1>1, <1>2, <1>3, <1>5, <1>6, <1>7 DEF rest

\* The places of a list and those after push_back.
LEMMA AppendPlaces ==
    ASSUME NEW S, NEW list \in Seq(S), NEW e \in S
    PROVE  /\ Len(list) \in Nat
           /\ DOMAIN list = 1 .. Len(list)
           /\ Append(list, e) \in Seq(S)
           /\ Len(Append(list, e)) = Len(list) + 1
           /\ DOMAIN Append(list, e) = DOMAIN list \cup {Len(list) + 1}
           /\ Len(list) + 1 \notin DOMAIN list
           /\ Append(list, e)[Len(list) + 1] = e
           /\ \A j \in DOMAIN list : Append(list, e)[j] = list[j]
<1>1. Len(list) \in Nat /\ DOMAIN list = 1 .. Len(list)
  BY LenProperties
<1>2. /\ Append(list, e) \in Seq(S)
      /\ Len(Append(list, e)) = Len(list) + 1
      /\ \A j \in 1 .. Len(list) : Append(list, e)[j] = list[j]
      /\ Append(list, e)[Len(list) + 1] = e
  BY AppendProperties
<1>3. DOMAIN Append(list, e) = 1 .. Len(list) + 1
  BY <1>2, LenProperties
<1> QED
  BY <1>1, <1>2, <1>3
=============================================================================
