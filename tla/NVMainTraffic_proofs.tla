------------------------ MODULE NVMainTraffic_proofs ------------------------
(***************************************************************************)
(* The requests between NVMain and its channels, for any number of lines,  *)
(* slots, packets and any size of the queues: each client's request is     *)
(* under way once, each eviction is paired with the write that waits for   *)
(* it, and, as long as no request was dropped, the last write to a slot is *)
(* one of its line.                                                        *)
(***************************************************************************)
EXTENDS NVMainMemory_proofs, FiniteSetTheorems

-----------------------------------------------------------------------------
(* Counting the requests of a kind for a slot.                             *)

\* The places of a list are finitely many.
LEMMA PlacesFinite ==
    ASSUME NEW S, NEW list \in Seq(S), NEW kind, NEW slot
    PROVE  /\ IsFiniteSet(PlacesOf(list, kind, slot))
           /\ Cardinality(PlacesOf(list, kind, slot)) \in Nat
<1>1. DOMAIN list = 1 .. Len(list) /\ Len(list) \in Nat
  BY LenProperties
<1>2. IsFiniteSet(1 .. Len(list))
  BY <1>1, FS_Interval
<1>3. PlacesOf(list, kind, slot) \in SUBSET (1 .. Len(list))
  BY <1>1 DEF PlacesOf
<1>4. IsFiniteSet(PlacesOf(list, kind, slot))
  BY <1>2, <1>3, FS_Subset
<1> QED
  BY <1>4, FS_CardinalityType

\* push_back adds one request to the count, or none.
LEMMA PlacesAppend ==
    ASSUME NEW S, NEW list \in Seq(S), NEW e \in S, NEW kind, NEW slot
    PROVE  Cardinality(PlacesOf(Append(list, e), kind, slot)) =
               Cardinality(PlacesOf(list, kind, slot))
                 + (IF e.kind = kind /\ e.addr = slot THEN 1 ELSE 0)
<1> DEFINE P == PlacesOf(list, kind, slot)
           Q == PlacesOf(Append(list, e), kind, slot)
           n == Len(list) + 1
<1>1. /\ DOMAIN Append(list, e) = DOMAIN list \cup {n} /\ n \notin DOMAIN list
      /\ Append(list, e)[n] = e
      /\ \A j \in DOMAIN list : Append(list, e)[j] = list[j]
  BY AppendPlaces
<1>2. IsFiniteSet(P) /\ Cardinality(P) \in Nat /\ n \notin P
  <2>1. IsFiniteSet(P) /\ Cardinality(P) \in Nat
    BY PlacesFinite
  <2>2. n \notin P
    BY <1>1 DEF PlacesOf
  <2> QED BY <2>1, <2>2
<1>3. CASE e.kind = kind /\ e.addr = slot
  <2>1. Q = P \cup {n}
    BY <1>1, <1>3 DEF PlacesOf
  <2> HIDE DEF P, Q, n
  <2>2. Cardinality(Q) = Cardinality(P) + 1
    BY <1>2, <2>1, FS_AddElement
  <2> QED BY <1>3, <2>2 DEF P, Q
<1>4. CASE ~ (e.kind = kind /\ e.addr = slot)
  <2>1. Q = P
    BY <1>1, <1>4 DEF PlacesOf
  <2> HIDE DEF P, Q, n
  <2>2. Cardinality(Q) = Cardinality(P) + 0
    BY <1>2, <2>1
  <2> QED BY <1>4, <2>2 DEF P, Q
<1> QED
  BY <1>3, <1>4

\* list.erase takes one request off the count, or none.
LEMMA PlacesWithout ==
    ASSUME NEW S, NEW list \in Seq(S), NEW i \in DOMAIN list, NEW kind, NEW slot
    PROVE  Cardinality(PlacesOf(Without(list, i), kind, slot)) =
               Cardinality(PlacesOf(list, kind, slot))
                 - (IF list[i].kind = kind /\ list[i].addr = slot THEN 1 ELSE 0)
<1> DEFINE P == PlacesOf(list, kind, slot)
           rest == Without(list, i)
           Q == PlacesOf(rest, kind, slot)
           f == [j \in Q |-> Above(j, i)]
<1>1. /\ \A j \in DOMAIN rest : /\ Above(j, i) \in DOMAIN list /\ Above(j, i) # i
                                /\ Below(Above(j, i), i) = j
                                /\ rest[j] = list[Above(j, i)]
      /\ \A k \in DOMAIN list : k # i =>
            /\ Below(k, i) \in DOMAIN rest /\ Above(Below(k, i), i) = k
            /\ rest[Below(k, i)] = list[k]
      /\ rest \in Seq(S)
  BY WithoutPlaces
<1>2. IsFiniteSet(P) /\ Cardinality(P) \in Nat /\ IsFiniteSet(Q)
  BY <1>1, PlacesFinite
<1> HIDE DEF rest
<1>3. f \in [Q -> P \ {i}]
  BY <1>1 DEF PlacesOf
<1>4. \A j, k \in Q : f[j] = f[k] => j = k
  BY <1>1 DEF PlacesOf
<1>5. \A k \in P \ {i} : \E j \in Q : f[j] = k
  <2> SUFFICES ASSUME NEW k \in P \ {i} PROVE \E j \in Q : f[j] = k
    OBVIOUS
  <2>1. Below(k, i) \in Q /\ Above(Below(k, i), i) = k
    BY <1>1 DEF PlacesOf
  <2> QED BY <2>1
<1>6. ExistsBijection(Q, P \ {i})
  <2> HIDE DEF f, P, Q
  <2>1. f \in Bijection(Q, P \ {i})
    BY <1>3, <1>4, <1>5 DEF Bijection, Injection, Surjection, IsInjective
  <2> QED BY <2>1 DEF ExistsBijection
<1> HIDE DEF P, Q, f
<1>7. Cardinality(P \ {i}) = Cardinality(Q)
  BY <1>2, <1>6, FS_Bijection
<1>8. Cardinality(P \ {i}) = IF i \in P THEN Cardinality(P) - 1 ELSE Cardinality(P)
  BY <1>2, FS_RemoveElement
<1>9. i \in P <=> list[i].kind = kind /\ list[i].addr = slot
  BY DEF P, PlacesOf
<1>10. Cardinality(Q) = Cardinality(P)
                          - (IF list[i].kind = kind /\ list[i].addr = slot THEN 1 ELSE 0)
  BY <1>2, <1>7, <1>8, <1>9
<1> QED
  BY <1>10 DEF P, Q, rest

-----------------------------------------------------------------------------
(* What a request finds in its slot.                                       *)

\* A request that is a write to the slot.
Writes(e, slot) == e.kind \in {"WRITE", "DRAM_WRITE"} /\ e.addr = slot

\* What is behind place k does not matter to it.
LEMMA FindsAppend ==
    ASSUME NEW S, NEW list \in Seq(S), NEW e \in S, NEW k \in 1 .. Len(list) + 1,
           NEW slot, NEW line, NEW earlier, Finds(list, k, slot, line, earlier)
    PROVE  Finds(Append(list, e), k, slot, line, earlier)
<1> DEFINE n == Len(list) + 1
           W == WritesTo(list, slot)
           V == WritesTo(Append(list, e), slot)
<1>1. /\ DOMAIN Append(list, e) = DOMAIN list \cup {n} /\ n \notin DOMAIN list
      /\ DOMAIN list = 1 .. Len(list) /\ Len(list) \in Nat
      /\ \A j \in DOMAIN list : Append(list, e)[j] = list[j]
  BY AppendPlaces
<1>2. W \subseteq V /\ V \subseteq W \cup {n} /\ W \subseteq DOMAIN list
  BY <1>1 DEF WritesTo
<1>3. \A j \in V : j < k => j \in W
  BY <1>1, <1>2
<1>4. ASSUME NEW i \in V, i < k, \A j \in V : j < k => j <= i
      PROVE  Append(list, e)[i] = list[i] /\ list[i].block.line = line
  <2>1. i \in W /\ \A j \in W : j < k => j <= i
    BY <1>2, <1>3, <1>4
  <2>2. list[i].block.line = line
    BY <1>4, <2>1 DEF Finds
  <2> QED BY <1>1, <1>2, <2>1, <2>2
<1>5. ASSUME \A i \in V : i >= k PROVE earlier
  BY <1>2, <1>5 DEF Finds
<1> QED
  BY <1>4, <1>5 DEF Finds

\* One more write of the line, or a request that is no write to the slot.
LEMMA FindsAppended ==
    ASSUME NEW S, NEW list \in Seq(S), NEW e \in S, NEW slot, NEW line, NEW earlier,
           Finds(list, Len(list) + 1, slot, line, earlier),
           Writes(e, slot) => e.block.line = line
    PROVE  Finds(Append(list, e), Len(Append(list, e)) + 1, slot, line, earlier)
<1> DEFINE n == Len(list) + 1
           W == WritesTo(list, slot)
           V == WritesTo(Append(list, e), slot)
<1>1. /\ DOMAIN Append(list, e) = DOMAIN list \cup {n} /\ n \notin DOMAIN list
      /\ DOMAIN list = 1 .. Len(list) /\ Len(list) \in Nat /\ n \in Nat
      /\ Len(Append(list, e)) + 1 = n + 1
      /\ Append(list, e)[n] = e
      /\ \A j \in DOMAIN list : Append(list, e)[j] = list[j]
  BY AppendPlaces
<1>2. /\ W \subseteq V /\ V \subseteq W \cup {n} /\ W \subseteq DOMAIN list
      /\ n \in V <=> Writes(e, slot)
  BY <1>1 DEF WritesTo, Writes
<1>3. \A i \in W : i < n /\ i < n + 1 /\ i \in Nat
  BY <1>1, <1>2
<1>4. ASSUME NEW i \in V, i < n + 1, \A j \in V : j < n + 1 => j <= i
      PROVE  Append(list, e)[i].block.line = line
  <2>1. CASE i = n
    BY <1>1, <1>2, <2>1
  <2>2. CASE i \in W
    <3>1. \A j \in W : j < n => j <= i
      BY <1>2, <1>3, <1>4
    <3>2. list[i].block.line = line
      BY <1>3, <2>2, <3>1 DEF Finds
    <3> QED BY <1>1, <1>2, <2>2, <3>2
  <2> QED BY <1>2, <2>1, <2>2
<1>5. ASSUME \A i \in V : i >= n + 1 PROVE earlier
  <2>1. \A i \in W : i >= n
    BY <1>1, <1>2, <1>3, <1>5
  <2> QED BY <2>1 DEF Finds
<1> QED
  BY <1>1, <1>4, <1>5 DEF Finds

\* A write of the line that was put last decides alone.
LEMMA FindsWrite ==
    ASSUME NEW S, NEW list \in Seq(S), NEW e \in S, NEW slot, NEW line, NEW earlier,
           Writes(e, slot), e.block.line = line
    PROVE  Finds(Append(list, e), Len(Append(list, e)) + 1, slot, line, earlier)
<1> DEFINE n == Len(list) + 1
           V == WritesTo(Append(list, e), slot)
<1>1. /\ DOMAIN Append(list, e) = DOMAIN list \cup {n}
      /\ DOMAIN list = 1 .. Len(list) /\ Len(list) \in Nat /\ n \in Nat
      /\ Len(Append(list, e)) + 1 = n + 1
      /\ Append(list, e)[n] = e
  BY AppendPlaces
<1>2. n \in V /\ V \subseteq 1 .. n
  BY <1>1 DEF WritesTo, Writes
<1>3. ASSUME NEW i \in V, i < n + 1, \A j \in V : j < n + 1 => j <= i
      PROVE  Append(list, e)[i].block.line = line
  <2>1. n <= i /\ i <= n
    BY <1>1, <1>2, <1>3
  <2>2. i = n
    BY <1>1, <1>2, <2>1
  <2> QED BY <1>1, <2>2
<1>4. ~ (\A i \in V : i >= n + 1)
  BY <1>1, <1>2
<1> QED
  BY <1>1, <1>3, <1>4 DEF Finds

\* The first request for its address is taken out of the list, from before place k: what
\* it wrote is there, or what was there before it.
LEMMA FindsWithout ==
    ASSUME NEW S, NEW list \in Seq(S), NEW i \in FirstOfAddress(list),
           NEW k \in 1 .. Len(list) + 1, k # i, NEW slot, NEW line, NEW earlier, NEW sooner,
           Writes(list[i], slot) => i < k,
           Finds(list, k, slot, line, earlier),
           Writes(list[i], slot) /\ list[i].block.line = line => sooner,
           ~Writes(list[i], slot) /\ earlier => sooner
    PROVE  Finds(Without(list, i), Below(k, i), slot, line, sooner)
<1> DEFINE rest == Without(list, i)
           W == WritesTo(list, slot)
           V == WritesTo(rest, slot)
           b == Below(k, i)
<1>0. i \in DOMAIN list /\ \A j \in 1 .. i - 1 : list[j].addr # list[i].addr
  BY DEF FirstOfAddress
<1>1. /\ i \in Nat /\ Len(list) \in Nat /\ DOMAIN list = 1 .. Len(list)
      /\ DOMAIN rest = 1 .. Len(list) - 1
      /\ \A j \in DOMAIN rest : /\ Above(j, i) \in DOMAIN list /\ Above(j, i) # i
                                /\ Below(Above(j, i), i) = j
                                /\ rest[j] = list[Above(j, i)]
      /\ \A x \in DOMAIN list : x # i =>
            /\ Below(x, i) \in DOMAIN rest /\ Above(Below(x, i), i) = x
            /\ rest[Below(x, i)] = list[x]
  BY <1>0, WithoutPlaces
<1> HIDE DEF rest
<1>2. /\ \A j \in V : j \in Nat /\ Above(j, i) \in W /\ rest[j] = list[Above(j, i)]
      /\ \A x \in W : x \in Nat /\ (x # i => Below(x, i) \in V)
  BY <1>1 DEF WritesTo
<1>3. i \in W <=> Writes(list[i], slot)
  BY <1>0 DEF WritesTo, Writes
<1>4. k \in Nat /\ i \in Nat
  BY <1>1
<1>5. \A j \in Nat : j < b <=> Above(j, i) < k
  BY <1>4 DEF Above, Below
<1>6. \A j, x \in Nat : Below(x, i) <= j /\ x # i => x <= Above(j, i)
  BY <1>4 DEF Above, Below
<1>7. \A j \in V : i \in W => i < Above(j, i)
  <2> SUFFICES ASSUME NEW j \in V, i \in W PROVE i < Above(j, i)
    OBVIOUS
  <2>1. Above(j, i) \in W /\ Above(j, i) # i /\ Above(j, i) \in DOMAIN list
    BY <1>1, <1>2 DEF WritesTo
  <2>2. list[Above(j, i)].addr = list[i].addr
    BY <2>1 DEF WritesTo
  <2>3. Above(j, i) \notin 1 .. i - 1
    BY <1>0, <2>2
  <2> QED BY <1>1, <2>1, <2>3
<1>8. ASSUME NEW j \in V, j < b, \A y \in V : y < b => y <= j
      PROVE  rest[j].block.line = line
  <2> DEFINE a == Above(j, i)
  <2>1. a \in W /\ a < k /\ a \in Nat
    BY <1>2, <1>5, <1>8
  <2>2. ASSUME NEW x \in W, x < k PROVE x <= a
    <3>1. CASE x = i
      BY <1>4, <1>7, <2>1, <3>1
    <3>2. CASE x # i
      <4>1. Below(x, i) \in V /\ Below(x, i) \in Nat /\ Above(Below(x, i), i) = x
        BY <1>1, <1>2, <3>2 DEF WritesTo
      <4>2. Below(x, i) < b
        BY <1>5, <2>2, <4>1
      <4>3. Below(x, i) <= j
        BY <1>8, <4>1, <4>2
      <4> QED BY <1>2, <1>6, <3>2, <4>3
    <3> QED BY <3>1, <3>2
  <2>3. list[a].block.line = line
    <3> HIDE DEF a
    <3> QED BY <2>1, <2>2 DEF Finds
  <2> QED BY <1>2, <2>3
<1>9. ASSUME \A j \in V : j >= b PROVE sooner
  <2>1. ASSUME NEW x \in W, x # i PROVE x >= k
    <3>1. Below(x, i) \in V /\ Below(x, i) \in Nat /\ Above(Below(x, i), i) = x
      BY <1>1, <1>2, <2>1 DEF WritesTo
    <3>2. Below(x, i) >= b /\ b \in Nat
      BY <1>1, <1>4, <1>9, <3>1 DEF Below
    <3> QED BY <1>2, <1>4, <1>5, <3>1, <3>2
  <2>2. CASE i \in W
    <3>1. i < k /\ \A x \in W : x < k => x <= i
      BY <1>2, <1>3, <1>4, <2>1, <2>2
    <3>2. list[i].block.line = line
      BY <2>2, <3>1 DEF Finds
    <3> QED BY <1>3, <2>2, <3>2
  <2>3. CASE i \notin W
    <3>1. \A x \in W : x >= k
      BY <2>1, <2>3
    <3>2. earlier
      BY <3>1 DEF Finds
    <3> QED BY <1>3, <2>3, <3>2
  <2> QED BY <2>2, <2>3
<1> QED
  BY <1>8, <1>9 DEF Finds, rest

\* The first request for its address finds what was there before all others.
LEMMA FindsFirst ==
    ASSUME NEW S, NEW list \in Seq(S), NEW i \in FirstOfAddress(list), NEW line, NEW earlier,
           Finds(list, i, list[i].addr, line, earlier)
    PROVE  earlier
<1>0. i \in DOMAIN list /\ \A j \in 1 .. i - 1 : list[j].addr # list[i].addr
  BY DEF FirstOfAddress
<1>1. DOMAIN list = 1 .. Len(list) /\ Len(list) \in Nat
  BY LenProperties
<1>2. \A j \in WritesTo(list, list[i].addr) : j >= i
  BY <1>0, <1>1 DEF WritesTo
<1> QED
  BY <1>2 DEF Finds

\* Where nothing was written, what was there before all.
LEMMA FindsNone ==
    ASSUME NEW list, NEW k, NEW slot, NEW line, NEW earlier,
           WritesTo(list, slot) = {}, Finds(list, k, slot, line, earlier)
    PROVE  earlier
  BY DEF Finds

\* A write that is on its way stays on its way behind the requests already there.
LEMMA WayAppend ==
    ASSUME NEW S, NEW list \in Seq(S), NEW e \in S, NEW k \in 0 .. Len(list), NEW slot, NEW line,
           \/ OnItsWay(list, k, slot, line)
           \/ e.kind = "DRAM_WRITE" /\ e.addr = slot /\ e.block.line = line
    PROVE  OnItsWay(Append(list, e), k, slot, line)
<1> DEFINE n == Len(list) + 1
<1>1. /\ DOMAIN Append(list, e) = DOMAIN list \cup {n}
      /\ DOMAIN list = 1 .. Len(list) /\ Len(list) \in Nat /\ n \in Nat
      /\ Append(list, e)[n] = e
      /\ \A j \in DOMAIN list : Append(list, e)[j] = list[j]
  BY AppendPlaces
<1> HIDE DEF n
<1>2. CASE OnItsWay(list, k, slot, line)
  BY <1>1, <1>2 DEF OnItsWay, PlacesOf
<1>3. CASE e.kind = "DRAM_WRITE" /\ e.addr = slot /\ e.block.line = line
  <2>1. n \in PlacesOf(Append(list, e), "DRAM_WRITE", slot) /\ Append(list, e)[n].block.line = line
    BY <1>1, <1>3 DEF PlacesOf
  <2>2. n > k
    BY <1>1 DEF n
  <2> QED BY <2>1, <2>2 DEF OnItsWay
<1> QED BY <1>2, <1>3

\* It leaves a list only by being taken out of it.
LEMMA WayWithout ==
    ASSUME NEW S, NEW list \in Seq(S), NEW i \in DOMAIN list, NEW k \in 0 .. Len(list), k # i,
           NEW slot, NEW line, OnItsWay(list, k, slot, line)
    PROVE  \/ OnItsWay(Without(list, i), Below(k, i), slot, line)
           \/ i > k /\ list[i].kind = "DRAM_WRITE" /\ list[i].addr = slot /\ list[i].block.line = line
<1> DEFINE rest == Without(list, i)
<1>1. /\ i \in Nat /\ Len(list) \in Nat /\ DOMAIN list = 1 .. Len(list)
      /\ \A x \in DOMAIN list : x # i =>
            /\ Below(x, i) \in DOMAIN rest /\ rest[Below(x, i)] = list[x]
  BY WithoutPlaces
<1> HIDE DEF rest
<1>2. PICK j \in PlacesOf(list, "DRAM_WRITE", slot) : j > k /\ list[j].block.line = line
  BY DEF OnItsWay
<1>3. CASE j = i
  BY <1>2, <1>3 DEF PlacesOf
<1>4. CASE j # i
  <2>1. j \in DOMAIN list /\ j \in Nat /\ k \in Nat
    BY <1>1, <1>2 DEF PlacesOf
  <2>2. Below(j, i) > Below(k, i)
    BY <1>1, <1>2, <1>4, <2>1 DEF Below
  <2>3. Below(j, i) \in PlacesOf(rest, "DRAM_WRITE", slot) /\ rest[Below(j, i)].block.line = line
    BY <1>1, <1>2, <1>4, <2>1 DEF PlacesOf
  <2>4. OnItsWay(rest, Below(k, i), slot, line)
    BY <2>2, <2>3 DEF OnItsWay
  <2> QED BY <2>4 DEF rest
<1> QED BY <1>3, <1>4

\* What decides where nothing was written may be weakened.
LEMMA FindsWeaken ==
    ASSUME NEW list, NEW k, NEW slot, NEW line, NEW earlier, NEW sooner, earlier => sooner,
           Finds(list, k, slot, line, earlier)
    PROVE  Finds(list, k, slot, line, sooner)
  BY DEF Finds

\* After all of a list, a write of the line is in it, or what was there before it counts.
LEMMA FindsLast ==
    ASSUME NEW S, NEW list \in Seq(S), NEW slot, NEW line, NEW earlier,
           Finds(list, Len(list) + 1, slot, line, earlier)
    PROVE  earlier \/ \E i \in WritesTo(list, slot) : list[i].block.line = line
<1> DEFINE W == WritesTo(list, slot)
           n == Len(list)
           T == {n - i : i \in W}
<1>1. n \in Nat /\ W \subseteq 1 .. n
  BY LenProperties DEF WritesTo
<1>2. CASE W = {}
  BY <1>2 DEF Finds
<1>3. CASE W # {}
  <2> HIDE DEF W, n
  <2>1. T \in SUBSET Nat /\ T # {}
    BY <1>1, <1>3
  <2>2. PICK x \in T : \A y \in T : x <= y
    <3> HIDE DEF T
    <3> QED BY <2>1, LeastNatural
  <2>3. PICK i \in W : x = n - i
    BY <2>2
  <2>4. \A j \in W : n - i <= n - j
    BY <2>2, <2>3
  <2>5. i < n + 1 /\ \A j \in W : j <= i
    BY <1>1, <2>4
  <2>6. list[i].block.line = line
    BY <2>5 DEF Finds, W, n
  <2> QED BY <2>6 DEF W
<1> QED BY <1>2, <1>3

-----------------------------------------------------------------------------
(* The lists of the DRAM channel, w (waiting), q (queued) and s            *)
(* (scheduled), over the slots' contents d. Each handler is one or two of  *)
(* the moves below.                                                        *)

\* FindsScheduled, FindsQueued, FindsAfterAll and HitsFollowed for any lists.
InScheduled(s, d, k, slot, line) == Finds(s, k, slot, line, d[slot].line = line)
InQueue(q, s, d, k, slot, line) ==
    Finds(q, k, slot, line, InScheduled(s, d, Len(s) + 1, slot, line))
AfterAll(w, q, s, d, slot, line) ==
    Finds(w, Len(w) + 1, slot, line, InQueue(q, s, d, Len(q) + 1, slot, line))
HitScheduled(w, q, s, d, k, slot, line) ==
    \/ InScheduled(s, d, k, slot, line)
    \/ OnItsWay(s, k, slot, line) \/ OnItsWay(q, 0, slot, line) \/ OnItsWay(w, 0, slot, line)
HitQueued(w, q, s, d, k, slot, line) ==
    \/ InQueue(q, s, d, k, slot, line)
    \/ OnItsWay(q, k, slot, line) \/ OnItsWay(w, 0, slot, line)
Followed(w, q, s, d) ==
    /\ \A k \in DOMAIN s :
           s[k].kind = "READ" => HitScheduled(w, q, s, d, k, s[k].addr, s[k].block.line)
    /\ \A k \in DOMAIN q :
           q[k].kind = "READ" => HitQueued(w, q, s, d, k, q[k].addr, q[k].block.line)

\* One more request in the queue: a write of its line, or no write to the slot.
LEMMA IssueSettles ==
    ASSUME NEW R, NEW w, NEW q \in Seq(R), NEW s, NEW d, NEW e \in R, NEW slot, NEW line,
           AfterAll(w, q, s, d, slot, line),
           Writes(e, slot) => e.block.line = line
    PROVE  AfterAll(w, Append(q, e), s, d, slot, line)
<1> DEFINE old == InQueue(q, s, d, Len(q) + 1, slot, line)
           new == InQueue(Append(q, e), s, d, Len(Append(q, e)) + 1, slot, line)
<1>1. old => new
  BY FindsAppended DEF InQueue
<1> HIDE DEF old, new
<1>2. Finds(w, Len(w) + 1, slot, line, new)
  BY <1>1, FindsWeaken DEF AfterAll, old
<1> QED BY <1>2 DEF AfterAll, new

\* A hit among them is one of a line that is there after all.
LEMMA IssueFollows ==
    ASSUME NEW R, NEW w, NEW q \in Seq(R), NEW s \in Seq(R), NEW d, NEW e \in R,
           Followed(w, q, s, d),
           e.kind = "READ" => \/ InQueue(q, s, d, Len(q) + 1, e.addr, e.block.line)
                              \/ OnItsWay(w, 0, e.addr, e.block.line)
    PROVE  Followed(w, Append(q, e), s, d)
<1> DEFINE n == Len(q) + 1
           q1 == Append(q, e)
<1>1. /\ Len(q) \in Nat /\ DOMAIN q = 1 .. Len(q)
      /\ DOMAIN q1 = DOMAIN q \cup {n} /\ q1[n] = e
      /\ \A j \in DOMAIN q : q1[j] = q[j]
      /\ n \in 1 .. Len(q) + 1 /\ 0 \in 0 .. Len(q)
      /\ \A k \in DOMAIN q : k \in 1 .. Len(q) + 1 /\ k \in 0 .. Len(q)
  BY AppendPlaces
<1>2. \A k \in 0 .. Len(q) : \A slot, line :
          OnItsWay(q, k, slot, line) => OnItsWay(q1, k, slot, line)
  BY WayAppend
<1>3. \A k \in 1 .. Len(q) + 1 : \A slot, line :
          InQueue(q, s, d, k, slot, line) => InQueue(q1, s, d, k, slot, line)
  BY FindsAppend DEF InQueue
<1> HIDE DEF q1, n
<1>4. \A k, slot, line : HitScheduled(w, q, s, d, k, slot, line)
                            => HitScheduled(w, q1, s, d, k, slot, line)
  BY <1>1, <1>2 DEF HitScheduled
<1>5. \A k \in DOMAIN q : \A slot, line :
          HitQueued(w, q, s, d, k, slot, line) => HitQueued(w, q1, s, d, k, slot, line)
  BY <1>1, <1>2, <1>3 DEF HitQueued
<1>6. e.kind = "READ" => HitQueued(w, q1, s, d, n, e.addr, e.block.line)
  BY <1>1, <1>3 DEF HitQueued, n
<1>7. Followed(w, q1, s, d)
  BY <1>1, <1>4, <1>5, <1>6 DEF Followed
<1> QED BY <1>7 DEF q1

\* One more write waits.
LEMMA WaitSettles ==
    ASSUME NEW R, NEW w \in Seq(R), NEW q, NEW s, NEW d, NEW e \in R, NEW slot, NEW line,
           Writes(e, slot) \/ AfterAll(w, q, s, d, slot, line),
           Writes(e, slot) => e.block.line = line
    PROVE  AfterAll(Append(w, e), q, s, d, slot, line)
<1>1. CASE Writes(e, slot)
  BY <1>1, FindsWrite DEF AfterAll
<1>2. CASE ~Writes(e, slot) /\ AfterAll(w, q, s, d, slot, line)
  BY <1>2, FindsAppended DEF AfterAll
<1> QED BY <1>1, <1>2

\* The hits that it may follow are the same.
LEMMA WaitFollows ==
    ASSUME NEW R, NEW w \in Seq(R), NEW q, NEW s, NEW d, NEW e \in R, Followed(w, q, s, d)
    PROVE  Followed(Append(w, e), q, s, d)
<1>1. 0 \in 0 .. Len(w)
  BY LenProperties
<1>2. \A slot, line : OnItsWay(w, 0, slot, line) => OnItsWay(Append(w, e), 0, slot, line)
  BY <1>1, WayAppend
<1> QED BY <1>2 DEF Followed, HitScheduled, HitQueued

\* The last place behind a list, before and after one is erased.
LEMMA BehindWithout ==
    ASSUME NEW S, NEW list \in Seq(S), NEW i \in FirstOfAddress(list)
    PROVE  /\ i \in DOMAIN list /\ Len(list) + 1 \in 1 .. Len(list) + 1
           /\ Len(list) + 1 # i /\ i < Len(list) + 1
           /\ Below(Len(list) + 1, i) = Len(Without(list, i)) + 1
           /\ \A k \in DOMAIN list :
                  k # i /\ list[k].addr = list[i].addr => i < k
<1>1. i \in DOMAIN list /\ \A j \in 1 .. i - 1 : list[j].addr # list[i].addr
  BY DEF FirstOfAddress
<1>2. /\ i \in Nat /\ Len(list) \in Nat /\ DOMAIN list = 1 .. Len(list)
      /\ Len(Without(list, i)) = Len(list) - 1
  BY <1>1, WithoutPlaces
<1>3. /\ Len(list) + 1 \in 1 .. Len(list) + 1 /\ Len(list) + 1 # i /\ i < Len(list) + 1
      /\ Below(Len(list) + 1, i) = Len(Without(list, i)) + 1
  <2> DEFINE n == Len(list)
             rest == Without(list, i)
  <2>1. i \in 1 .. n /\ n \in Nat /\ Len(rest) = n - 1
    BY <1>1, <1>2
  <2> HIDE DEF n, rest
  <2>2. n + 1 \in 1 .. n + 1 /\ n + 1 # i /\ i < n + 1 /\ Below(n + 1, i) = Len(rest) + 1
    BY <2>1 DEF Below
  <2> QED BY <2>2 DEF n, rest
<1>4. ASSUME NEW k \in DOMAIN list, k # i, list[k].addr = list[i].addr PROVE i < k
  <2>1. k \notin 1 .. i - 1
    BY <1>1, <1>4
  <2> QED BY <1>1, <1>2, <1>4, <2>1
<1> QED BY <1>1, <1>3, <1>4

\* The controller schedules the first request for its address: it is moved from the
\* queue to the scheduled ones.
LEMMA ScheduleSettles ==
    ASSUME NEW R, NEW w, NEW q \in Seq(R), NEW s \in Seq(R), NEW d,
           NEW i \in FirstOfAddress(q), NEW slot, NEW line, NEW k \in 1 .. Len(q) + 1, k # i,
           Writes(q[i], slot) => i < k,
           InQueue(q, s, d, k, slot, line)
    PROVE  InQueue(Without(q, i), Append(s, q[i]), d, Below(k, i), slot, line)
<1> DEFINE e == q[i]
           s1 == Append(s, e)
           old == InScheduled(s, d, Len(s) + 1, slot, line)
           new == InScheduled(s1, d, Len(s1) + 1, slot, line)
<1>1. e \in R
  BY LenProperties, ElementOfSeq DEF FirstOfAddress
<1> HIDE DEF e
<1>2. Writes(e, slot) /\ e.block.line = line => new
  BY <1>1, FindsWrite DEF InScheduled
<1>3. ~Writes(e, slot) /\ old => new
  BY <1>1, FindsAppended DEF InScheduled
<1> HIDE DEF old, new, s1
<1>4. Finds(q, k, slot, line, old)
  BY DEF InQueue, old
<1>5. Finds(Without(q, i), Below(k, i), slot, line, new)
  BY <1>2, <1>3, <1>4, FindsWithout DEF e
<1> QED BY <1>5 DEF InQueue, new, s1, e

\* The hits are still followed.
LEMMA ScheduleFollows ==
    ASSUME NEW R, NEW w, NEW q \in Seq(R), NEW s \in Seq(R), NEW d,
           NEW i \in FirstOfAddress(q), Followed(w, q, s, d)
    PROVE  Followed(w, Without(q, i), Append(s, q[i]), d)
<1> DEFINE e == q[i]
           q1 == Without(q, i)
           s1 == Append(s, e)
           n == Len(s) + 1
<1>0. /\ i \in DOMAIN q /\ 0 # i /\ 0 \in 0 .. Len(q) /\ e \in R /\ i \in Nat
      /\ \A k \in DOMAIN q : k # i /\ q[k].addr = e.addr => i < k
  BY BehindWithout, LenProperties, ElementOfSeq
<1>1. /\ Len(s) \in Nat /\ DOMAIN s = 1 .. Len(s)
      /\ DOMAIN s1 = DOMAIN s \cup {n} /\ s1[n] = e
      /\ \A j \in DOMAIN s : s1[j] = s[j]
      /\ n \in 1 .. Len(s) + 1 /\ n \in Nat
      /\ \A k \in DOMAIN s : k \in 1 .. Len(s) + 1 /\ k \in 0 .. Len(s)
  BY <1>0, AppendPlaces
<1>2. /\ DOMAIN q = 1 .. Len(q)
      /\ \A j \in DOMAIN q1 : /\ Above(j, i) \in DOMAIN q /\ Above(j, i) # i
                              /\ Below(Above(j, i), i) = j
                              /\ q1[j] = q[Above(j, i)]
      /\ \A k \in DOMAIN q : k \in 1 .. Len(q) + 1 /\ k \in 0 .. Len(q)
  BY <1>0, WithoutPlaces
<1>3. \A slot, line : OnItsWay(q, 0, slot, line) =>
          \/ OnItsWay(q1, 0, slot, line)
          \/ e.kind = "DRAM_WRITE" /\ e.addr = slot /\ e.block.line = line
  <2>1. Below(0, i) = 0
    BY <1>0 DEF Below
  <2> QED BY <1>0, <2>1, WayWithout
<1>4. \A k \in DOMAIN s : \A slot, line :
          \/ OnItsWay(s, k, slot, line)
          \/ e.kind = "DRAM_WRITE" /\ e.addr = slot /\ e.block.line = line
          => OnItsWay(s1, k, slot, line)
  <2> HIDE DEF e
  <2> QED BY <1>0, <1>1, WayAppend
<1>5. \A k \in 1 .. Len(s) + 1 : \A slot, line :
          InScheduled(s, d, k, slot, line) => InScheduled(s1, d, k, slot, line)
  <2> HIDE DEF e
  <2> QED BY <1>0, <1>1, FindsAppend DEF InScheduled
<1> HIDE DEF n
<1>6. ASSUME NEW k \in DOMAIN s, NEW slot, NEW line, HitScheduled(w, q, s, d, k, slot, line)
      PROVE  HitScheduled(w, q1, s1, d, k, slot, line)
  <2> HIDE DEF e, q1, s1
  <2> QED BY <1>1, <1>3, <1>4, <1>5, <1>6 DEF HitScheduled
<1>7. ASSUME e.kind = "READ" PROVE HitScheduled(w, q1, s1, d, n, e.addr, e.block.line)
  <2>1. HitQueued(w, q, s, d, i, e.addr, e.block.line)
    BY <1>0, <1>7 DEF Followed
  <2>2. CASE InQueue(q, s, d, i, e.addr, e.block.line)
    <3>1. InScheduled(s, d, Len(s) + 1, e.addr, e.block.line)
      BY <2>2, FindsFirst DEF InQueue
    <3> HIDE DEF e, s1, q1
    <3> QED BY <3>1, <1>1, <1>5 DEF HitScheduled, n
  <2>3. CASE OnItsWay(q, i, e.addr, e.block.line)
    <3>1. OnItsWay(q, 0, e.addr, e.block.line)
      <4> HIDE DEF e
      <4>1. \A j \in DOMAIN q : j > i => j > 0
        BY <1>0, <1>2
      <4> QED BY <2>3, <4>1 DEF OnItsWay, PlacesOf
    <3> HIDE DEF e, s1, q1
    <3> QED BY <3>1, <1>3, <1>7 DEF HitScheduled
  <2>4. CASE OnItsWay(w, 0, e.addr, e.block.line)
    BY <2>4 DEF HitScheduled
  <2> QED BY <2>1, <2>2, <2>3, <2>4 DEF HitQueued
<1>8. ASSUME NEW j \in DOMAIN q1, q1[j].kind = "READ"
      PROVE  HitQueued(w, q1, s1, d, j, q1[j].addr, q1[j].block.line)
  <2> DEFINE k == Above(j, i)
             slot == q[k].addr
             line == q[k].block.line
  <2>1. /\ k \in DOMAIN q /\ k # i /\ Below(k, i) = j /\ q1[j] = q[k]
        /\ k \in 1 .. Len(q) + 1 /\ k \in 0 .. Len(q)
    BY <1>2
  <2>2. HitQueued(w, q, s, d, k, slot, line)
    <3> HIDE DEF k
    <3> QED BY <1>8, <2>1 DEF Followed
  <2> HIDE DEF k
  <2>3. e.addr = slot => i < k
    BY <1>0, <2>1
  <2>4. InQueue(q, s, d, k, slot, line) => InQueue(q1, s1, d, j, slot, line)
    BY <2>1, <2>3, ScheduleSettles DEF Writes
  <2>5. OnItsWay(q, k, slot, line) => OnItsWay(q1, j, slot, line)
    <3>1. k \in Nat /\ ~ (i > k /\ e.addr = slot)
      BY <1>0, <1>2, <2>1, <2>3
    <3> QED BY <1>0, <2>1, <3>1, WayWithout
  <2>6. HitQueued(w, q1, s1, d, j, slot, line)
    <3> HIDE DEF e, q1, s1, slot, line
    <3> QED BY <2>2, <2>4, <2>5 DEF HitQueued
  <2> QED BY <2>1, <2>6
<1> HIDE DEF e, q1, s1
<1>9. Followed(w, q1, s1, d)
  <2>1. \A k \in DOMAIN s : s[k].kind = "READ" =>
            HitScheduled(w, q, s, d, k, s[k].addr, s[k].block.line)
    BY DEF Followed
  <2>2. \A k \in DOMAIN s1 : s1[k].kind = "READ" =>
            HitScheduled(w, q1, s1, d, k, s1[k].addr, s1[k].block.line)
    BY <1>1, <1>6, <1>7, <2>1
  <2> QED BY <1>8, <2>2 DEF Followed
<1> QED BY <1>9 DEF e, q1, s1

\* A write that waited is issued: it is moved from those that wait to the queue.
LEMMA WriteSettles ==
    ASSUME NEW R, NEW w \in Seq(R), NEW q \in Seq(R), NEW s, NEW d,
           NEW i \in FirstOfAddress(w), NEW slot, NEW line,
           AfterAll(w, q, s, d, slot, line)
    PROVE  AfterAll(Without(w, i), Append(q, w[i]), s, d, slot, line)
<1> DEFINE e == w[i]
           q1 == Append(q, e)
           old == InQueue(q, s, d, Len(q) + 1, slot, line)
           new == InQueue(q1, s, d, Len(q1) + 1, slot, line)
<1>0. /\ i \in DOMAIN w /\ Len(w) + 1 \in 1 .. Len(w) + 1
      /\ Len(w) + 1 # i /\ i < Len(w) + 1
      /\ Below(Len(w) + 1, i) = Len(Without(w, i)) + 1
  BY BehindWithout
<1>1. e \in R
  BY <1>0, LenProperties, ElementOfSeq
<1> HIDE DEF e
<1>2. Writes(e, slot) /\ e.block.line = line => new
  BY <1>1, FindsWrite DEF InQueue
<1>3. ~Writes(e, slot) /\ old => new
  BY <1>1, FindsAppended DEF InQueue
<1> HIDE DEF old, new, q1
<1>4. Finds(w, Len(w) + 1, slot, line, old)
  BY DEF AfterAll, old
<1>5. Finds(Without(w, i), Below(Len(w) + 1, i), slot, line, new)
  BY <1>0, <1>2, <1>3, <1>4, FindsWithout DEF e
<1> QED BY <1>0, <1>5 DEF AfterAll, new, q1, e

\* The hits that it follows are still before it.
LEMMA WriteFollows ==
    ASSUME NEW R, NEW w \in Seq(R), NEW q \in Seq(R), NEW s, NEW d,
           NEW i \in DOMAIN w, w[i].kind # "READ", Followed(w, q, s, d)
    PROVE  Followed(Without(w, i), Append(q, w[i]), s, d)
<1> DEFINE e == w[i]
           w1 == Without(w, i)
           q1 == Append(q, e)
           n == Len(q) + 1
<1>0. /\ 0 # i /\ 0 \in 0 .. Len(w) /\ e \in R /\ i \in Nat
  BY LenProperties, ElementOfSeq
<1>1. \A slot, line : OnItsWay(w, 0, slot, line) =>
          \/ OnItsWay(w1, 0, slot, line)
          \/ e.kind = "DRAM_WRITE" /\ e.addr = slot /\ e.block.line = line
  <2>1. Below(0, i) = 0
    BY <1>0 DEF Below
  <2> QED BY <1>0, <2>1, WayWithout
<1> HIDE DEF e
<1>2. /\ Len(q) \in Nat /\ DOMAIN q = 1 .. Len(q)
      /\ DOMAIN q1 = DOMAIN q \cup {n} /\ q1[n] = e
      /\ \A j \in DOMAIN q : q1[j] = q[j]
      /\ 0 \in 0 .. Len(q)
      /\ \A k \in DOMAIN q : k \in 1 .. Len(q) + 1 /\ k \in 0 .. Len(q)
  BY <1>0, AppendPlaces
<1>3. \A k \in 0 .. Len(q) : \A slot, line :
          \/ OnItsWay(q, k, slot, line)
          \/ e.kind = "DRAM_WRITE" /\ e.addr = slot /\ e.block.line = line
          => OnItsWay(q1, k, slot, line)
  BY <1>0, WayAppend
<1>4. \A k \in 1 .. Len(q) + 1 : \A slot, line :
          InQueue(q, s, d, k, slot, line) => InQueue(q1, s, d, k, slot, line)
  BY <1>0, FindsAppend DEF InQueue
<1> HIDE DEF w1, q1, n
<1>5. \A k, slot, line : HitScheduled(w, q, s, d, k, slot, line)
                            => HitScheduled(w1, q1, s, d, k, slot, line)
  BY <1>1, <1>2, <1>3 DEF HitScheduled
<1>6. \A k \in DOMAIN q : \A slot, line :
          HitQueued(w, q, s, d, k, slot, line) => HitQueued(w1, q1, s, d, k, slot, line)
  BY <1>1, <1>2, <1>3, <1>4 DEF HitQueued
<1>7. e.kind # "READ"
  BY DEF e
<1>8. Followed(w1, q1, s, d)
  BY <1>2, <1>5, <1>6, <1>7 DEF Followed
<1> QED BY <1>8 DEF w1, q1, e

\* What a slot holds once the request has taken effect.
After(e, d, d1, slot) ==
    d1[slot].line = IF Writes(e, slot) THEN e.block.line ELSE d[slot].line

\* A scheduled request takes effect, the first for its address, and leaves the list.
LEMMA ServeFinds ==
    ASSUME NEW R, NEW s \in Seq(R), NEW d, NEW d1, NEW i \in FirstOfAddress(s),
           NEW slot, NEW line, NEW k \in 1 .. Len(s) + 1, k # i,
           Writes(s[i], slot) => i < k,
           After(s[i], d, d1, slot),
           InScheduled(s, d, k, slot, line)
    PROVE  InScheduled(Without(s, i), d1, Below(k, i), slot, line)
<1> DEFINE old == (d[slot].line = line)
           new == (d1[slot].line = line)
<1>1. Finds(s, k, slot, line, old)
  BY DEF InScheduled
<1>2. Writes(s[i], slot) /\ s[i].block.line = line => new
  BY DEF After
<1>3. ~Writes(s[i], slot) /\ old => new
  BY DEF After
<1> HIDE DEF old, new
<1>4. Finds(Without(s, i), Below(k, i), slot, line, new)
  BY <1>1, <1>2, <1>3, FindsWithout
<1> QED BY <1>4 DEF InScheduled, new

\* What is found after all, and after all of the queue, stays.
LEMMA ServeSettles ==
    ASSUME NEW R, NEW w, NEW q, NEW s \in Seq(R), NEW d, NEW d1,
           NEW i \in FirstOfAddress(s), NEW slot, NEW line, After(s[i], d, d1, slot)
    PROVE  /\ \A k : InQueue(q, s, d, k, slot, line)
                       => InQueue(q, Without(s, i), d1, k, slot, line)
           /\ AfterAll(w, q, s, d, slot, line)
                => AfterAll(w, q, Without(s, i), d1, slot, line)
<1> DEFINE s1 == Without(s, i)
           old == InScheduled(s, d, Len(s) + 1, slot, line)
           new == InScheduled(s1, d1, Len(s1) + 1, slot, line)
<1>1. old => new
  BY ServeFinds, BehindWithout
<1>2. \A k : InQueue(q, s, d, k, slot, line) => InQueue(q, s1, d1, k, slot, line)
  <2> SUFFICES ASSUME NEW k, Finds(q, k, slot, line, old)
               PROVE  Finds(q, k, slot, line, new)
    BY DEF InQueue
  <2> HIDE DEF old, new
  <2> QED BY <1>1, FindsWeaken
<1>3. AfterAll(w, q, s, d, slot, line) => AfterAll(w, q, s1, d1, slot, line)
  <2> DEFINE was == InQueue(q, s, d, Len(q) + 1, slot, line)
             is == InQueue(q, s1, d1, Len(q) + 1, slot, line)
  <2> SUFFICES ASSUME Finds(w, Len(w) + 1, slot, line, was)
               PROVE  Finds(w, Len(w) + 1, slot, line, is)
    BY DEF AfterAll
  <2>1. was => is
    BY <1>2
  <2> HIDE DEF was, is
  <2> QED BY <2>1, FindsWeaken
<1> QED BY <1>2, <1>3

\* The hits that are left are still followed.
LEMMA ServeFollows ==
    ASSUME NEW R, NEW w, NEW q \in Seq(R), NEW s \in Seq(R), NEW d, NEW d1,
           NEW i \in FirstOfAddress(s), NEW A,
           \A k \in DOMAIN q : q[k].addr \in A,
           \A k \in DOMAIN s : s[k].addr \in A,
           \A slot \in A : After(s[i], d, d1, slot),
           Followed(w, q, s, d)
    PROVE  Followed(w, q, Without(s, i), d1)
<1> DEFINE e == s[i]
           s1 == Without(s, i)
<1>0. /\ i \in DOMAIN s /\ i \in Nat
      /\ \A k \in DOMAIN s : k # i /\ s[k].addr = e.addr => i < k
  BY BehindWithout, LenProperties
<1>1. /\ DOMAIN s = 1 .. Len(s) /\ Len(s) \in Nat
      /\ \A j \in DOMAIN s1 : /\ Above(j, i) \in DOMAIN s /\ Above(j, i) # i
                              /\ Below(Above(j, i), i) = j
                              /\ s1[j] = s[Above(j, i)]
      /\ \A k \in DOMAIN s : k \in 1 .. Len(s) + 1 /\ k \in 0 .. Len(s)
  BY <1>0, WithoutPlaces
<1>2. ASSUME NEW k \in DOMAIN q, q[k].kind = "READ"
      PROVE  HitQueued(w, q, s1, d1, k, q[k].addr, q[k].block.line)
  <2>1. HitQueued(w, q, s, d, k, q[k].addr, q[k].block.line)
    BY <1>2 DEF Followed
  <2>2. InQueue(q, s, d, k, q[k].addr, q[k].block.line)
          => InQueue(q, s1, d1, k, q[k].addr, q[k].block.line)
    BY ServeSettles
  <2> HIDE DEF s1
  <2> QED BY <2>1, <2>2 DEF HitQueued
<1>3. ASSUME NEW j \in DOMAIN s1, s1[j].kind = "READ"
      PROVE  HitScheduled(w, q, s1, d1, j, s1[j].addr, s1[j].block.line)
  <2> DEFINE k == Above(j, i)
             slot == s[k].addr
             line == s[k].block.line
  <2>1. /\ k \in DOMAIN s /\ k # i /\ Below(k, i) = j /\ s1[j] = s[k]
        /\ k \in 1 .. Len(s) + 1 /\ k \in 0 .. Len(s) /\ k \in Nat
    BY <1>1
  <2> HIDE DEF k
  <2>2. HitScheduled(w, q, s, d, k, slot, line)
    BY <1>3, <2>1 DEF Followed
  <2>3. e.addr = slot => i < k
    BY <1>0, <2>1
  <2>4. InScheduled(s, d, k, slot, line) => InScheduled(s1, d1, j, slot, line)
    BY <2>1, <2>3, ServeFinds DEF Writes
  <2>5. OnItsWay(s, k, slot, line) => OnItsWay(s1, j, slot, line)
    <3>1. ~ (i > k /\ e.addr = slot)
      BY <1>0, <2>1, <2>3
    <3> QED BY <1>0, <2>1, <3>1, WayWithout
  <2>6. HitScheduled(w, q, s1, d1, j, slot, line)
    <3> HIDE DEF e, s1, slot, line
    <3> QED BY <2>2, <2>4, <2>5 DEF HitScheduled
  <2> QED BY <2>1, <2>6
<1> HIDE DEF s1
<1>4. Followed(w, q, s1, d1)
  BY <1>2, <1>3 DEF Followed
<1> QED BY <1>4 DEF s1

-----------------------------------------------------------------------------
(* The requests of the client, in the queues f and the scheduled lists g.  *)

\* RequestsMapped, part by part.
InMap(f, M) ==
    \A c \in Channels : \A i \in DOMAIN f[c] : f[c][i].from # NoRequest => f[c][i].from \in M
Apart(f) ==
    \A c, d \in Channels : \A i \in DOMAIN f[c], j \in DOMAIN f[d] :
        f[c][i].from # NoRequest /\ f[c][i].from = f[d][j].from => c = d /\ i = j
Disjoint(f, g) ==
    \A c, d \in Channels : \A i \in DOMAIN f[c], j \in DOMAIN g[d] :
        f[c][i].from # NoRequest => f[c][i].from # g[d][j].from
Mapped(f, g, M) == InMap(f, M) /\ InMap(g, M) /\ Apart(f) /\ Apart(g) /\ Disjoint(f, g)

\* The parts are those of the concatenated lists.
LEMMA MappedParts ==
    ASSUME NEW R, queue \in [Channels -> Seq(R)], scheduled \in [Channels -> Seq(R)]
    PROVE  RequestsMapped <=> Mapped(queue, scheduled, m_request_map)
<1>1. ASSUME NEW c \in Channels
      PROVE  /\ Len(queue[c]) \in Nat /\ Len(scheduled[c]) \in Nat
             /\ DOMAIN queue[c] = 1 .. Len(queue[c])
             /\ DOMAIN scheduled[c] = 1 .. Len(scheduled[c])
             /\ DOMAIN UnderWay(c) = 1 .. Len(queue[c]) + Len(scheduled[c])
             /\ \A i \in DOMAIN UnderWay(c) : UnderWay(c)[i] =
                    IF i <= Len(queue[c]) THEN queue[c][i] ELSE scheduled[c][i - Len(queue[c])]
  <2> DEFINE a == queue[c]
             b == scheduled[c]
  <2>1. a \in Seq(R) /\ b \in Seq(R)
    OBVIOUS
  <2> HIDE DEF a, b
  <2>2. /\ a \o b \in Seq(R) /\ Len(a \o b) = Len(a) + Len(b)
        /\ \A i \in 1 .. Len(a) + Len(b) :
               (a \o b)[i] = IF i <= Len(a) THEN a[i] ELSE b[i - Len(a)]
    BY <2>1, ConcatProperties
  <2>3. DOMAIN (a \o b) = 1 .. Len(a) + Len(b)
    BY <2>2, LenProperties
  <2>4. Len(a) \in Nat /\ Len(b) \in Nat /\ DOMAIN a = 1 .. Len(a) /\ DOMAIN b = 1 .. Len(b)
    BY <2>1, LenProperties
  <2> QED BY <2>2, <2>3, <2>4 DEF a, b, UnderWay
<1> DEFINE n(c) == Len(queue[c])
<1>2. ASSUME NEW c \in Channels
      PROVE  /\ \A i \in DOMAIN queue[c] : /\ i \in DOMAIN UnderWay(c) /\ i <= n(c)
                                           /\ UnderWay(c)[i] = queue[c][i] /\ i \in Nat
             /\ \A i \in DOMAIN scheduled[c] :
                    /\ i + n(c) \in DOMAIN UnderWay(c) /\ i + n(c) > n(c) /\ i \in Nat
                    /\ UnderWay(c)[i + n(c)] = scheduled[c][i]
             /\ \A i \in DOMAIN UnderWay(c) :
                    \/ i \in DOMAIN queue[c] /\ UnderWay(c)[i] = queue[c][i]
                    \/ /\ i - n(c) \in DOMAIN scheduled[c] /\ i \notin DOMAIN queue[c]
                       /\ UnderWay(c)[i] = scheduled[c][i - n(c)]
             /\ n(c) \in Nat /\ DOMAIN UnderWay(c) \subseteq Nat
  BY <1>1
<1>3. ASSUME RequestsMapped PROVE Mapped(queue, scheduled, m_request_map)
  <2>1. \A c, d \in Channels : \A i \in DOMAIN UnderWay(c), j \in DOMAIN UnderWay(d) :
            UnderWay(c)[i].from # NoRequest =>
                /\ UnderWay(c)[i].from \in m_request_map
                /\ UnderWay(c)[i].from = UnderWay(d)[j].from => c = d /\ i = j
    BY <1>3 DEF RequestsMapped
  <2> HIDE DEF n
  <2>2. InMap(queue, m_request_map)
    BY <1>2, <2>1 DEF InMap
  <2>3. InMap(scheduled, m_request_map)
    BY <1>2, <2>1 DEF InMap
  <2>4. Apart(queue)
    BY <1>2, <2>1 DEF Apart
  <2>5. Apart(scheduled)
    <3> SUFFICES ASSUME NEW c \in Channels, NEW d \in Channels, NEW i \in DOMAIN scheduled[c],
                        NEW j \in DOMAIN scheduled[d], scheduled[c][i].from # NoRequest,
                        scheduled[c][i].from = scheduled[d][j].from
                 PROVE  c = d /\ i = j
      BY DEF Apart
    <3>1. c = d /\ i + n(c) = j + n(d)
      BY <1>2, <2>1
    <3> QED BY <1>2, <3>1
  <2>6. Disjoint(queue, scheduled)
    <3> SUFFICES ASSUME NEW c \in Channels, NEW d \in Channels, NEW i \in DOMAIN queue[c],
                        NEW j \in DOMAIN scheduled[d], queue[c][i].from # NoRequest,
                        queue[c][i].from = scheduled[d][j].from
                 PROVE  FALSE
      BY DEF Disjoint
    <3>1. c = d /\ i = j + n(d)
      BY <1>2, <2>1
    <3> QED BY <1>2, <3>1
  <2> QED BY <2>2, <2>3, <2>4, <2>5, <2>6 DEF Mapped
<1>4. ASSUME Mapped(queue, scheduled, m_request_map) PROVE RequestsMapped
  <2> SUFFICES ASSUME NEW c \in Channels, NEW d \in Channels, NEW i \in DOMAIN UnderWay(c),
                      NEW j \in DOMAIN UnderWay(d), UnderWay(c)[i].from # NoRequest
               PROVE  /\ UnderWay(c)[i].from \in m_request_map
                      /\ UnderWay(c)[i].from = UnderWay(d)[j].from => c = d /\ i = j
    BY DEF RequestsMapped
  <2> HIDE DEF n
  <2>1. UnderWay(c)[i].from \in m_request_map
    BY <1>2, <1>4 DEF Mapped, InMap
  <2>2. ASSUME UnderWay(c)[i].from = UnderWay(d)[j].from PROVE c = d /\ i = j
    <3>1. CASE /\ i \in DOMAIN queue[c] /\ UnderWay(c)[i] = queue[c][i]
               /\ j \in DOMAIN queue[d] /\ UnderWay(d)[j] = queue[d][j]
      BY <1>4, <2>2, <3>1 DEF Mapped, Apart
    <3>2. CASE /\ i - n(c) \in DOMAIN scheduled[c] /\ UnderWay(c)[i] = scheduled[c][i - n(c)]
               /\ j - n(d) \in DOMAIN scheduled[d] /\ UnderWay(d)[j] = scheduled[d][j - n(d)]
      <4>1. c = d /\ i - n(c) = j - n(d)
        BY <1>4, <2>2, <3>2 DEF Mapped, Apart
      <4>2. i \in Nat /\ j \in Nat /\ n(c) \in Nat /\ n(d) = n(c)
        BY <1>2, <4>1
      <4> QED BY <4>1, <4>2
    <3>3. CASE /\ i \in DOMAIN queue[c] /\ UnderWay(c)[i] = queue[c][i]
               /\ j - n(d) \in DOMAIN scheduled[d] /\ UnderWay(d)[j] = scheduled[d][j - n(d)]
      BY <1>4, <2>2, <3>3 DEF Mapped, Disjoint
    <3>4. CASE /\ i - n(c) \in DOMAIN scheduled[c] /\ UnderWay(c)[i] = scheduled[c][i - n(c)]
               /\ j \in DOMAIN queue[d] /\ UnderWay(d)[j] = queue[d][j]
      BY <1>4, <2>2, <3>4 DEF Mapped, Disjoint
    <3> QED BY <1>2, <3>1, <3>2, <3>3, <3>4
  <2> QED BY <2>1, <2>2
<1> QED BY <1>3, <1>4

\* The requests in f1 are those of f, at their places, and e in a list of channel c.
Put(f, f1, c, e) ==
    \A b \in Channels : \A j \in DOMAIN f1[b] :
        \/ j \in DOMAIN f[b] /\ f1[b][j] = f[b][j]
        \/ b = c /\ j = Len(f[c]) + 1 /\ f1[b][j] = e

\* A request is put in a list of one channel.
LEMMA PutFacts ==
    ASSUME NEW R, NEW f \in [Channels -> Seq(R)], NEW c \in Channels, NEW e \in R
    PROVE  /\ [f EXCEPT ![c] = Append(@, e)] \in [Channels -> Seq(R)]
           /\ Put(f, [f EXCEPT ![c] = Append(@, e)], c, e)
<1> DEFINE list == f[c]
           f1 == [f EXCEPT ![c] = Append(@, e)]
<1>1. list \in Seq(R) /\ f1 = [f EXCEPT ![c] = Append(list, e)]
  OBVIOUS
<1> HIDE DEF f1
<1> HIDE DEF list
<1>2. /\ Append(list, e) \in Seq(R)
      /\ DOMAIN Append(list, e) = DOMAIN list \cup {Len(list) + 1}
      /\ Append(list, e)[Len(list) + 1] = e
      /\ \A j \in DOMAIN list : Append(list, e)[j] = list[j]
  BY <1>1, AppendPlaces
<1> DEFINE longer == Append(list, e)
<1> HIDE DEF longer
<1>3. f1 \in [Channels -> Seq(R)] /\ f1[c] = longer /\ \A b \in Channels : b # c => f1[b] = f[b]
  BY <1>1, <1>2 DEF longer
<1>4. ASSUME NEW b \in Channels, NEW j \in DOMAIN f1[b]
      PROVE  \/ j \in DOMAIN f[b] /\ f1[b][j] = f[b][j]
             \/ b = c /\ j = Len(f[c]) + 1 /\ f1[b][j] = e
  <2>1. CASE b = c
    BY <1>2, <1>3, <2>1 DEF longer, list
  <2>2. CASE b # c
    BY <1>3, <2>2
  <2> QED BY <2>1, <2>2
<1> QED BY <1>3, <1>4 DEF Put, f1

\* Where place j of channel b was before place i of channel c was erased.
Was(b, j, c, i) == IF b = c THEN Above(j, i) ELSE j

\* The requests in f1 are those of f but for that one, each at one place.
Taken(f, f1, c, i) ==
    \A b \in Channels : \A j \in DOMAIN f1[b] :
        /\ Was(b, j, c, i) \in DOMAIN f[b] /\ f1[b][j] = f[b][Was(b, j, c, i)]
        /\ ~ (b = c /\ Was(b, j, c, i) = i)
        /\ j = IF b = c THEN Below(Was(b, j, c, i), i) ELSE Was(b, j, c, i)

\* A request is taken from a list of one channel.
LEMMA TakeFacts ==
    ASSUME NEW R, NEW f \in [Channels -> Seq(R)], NEW c \in Channels, NEW i \in DOMAIN f[c], NEW f1,
           f1 = [f EXCEPT ![c] = Without(@, i)]
    PROVE  f1 \in [Channels -> Seq(R)] /\ Taken(f, f1, c, i)
<1> DEFINE list == f[c]
<1>1. list \in Seq(R) /\ f1 = [f EXCEPT ![c] = Without(list, i)] /\ i \in DOMAIN list
  OBVIOUS
<1> HIDE DEF list
<1> DEFINE rest == Without(list, i)
<1>2. /\ rest \in Seq(R)
      /\ \A j \in DOMAIN rest : /\ Above(j, i) \in DOMAIN list /\ Above(j, i) # i
                                /\ Below(Above(j, i), i) = j
                                /\ rest[j] = list[Above(j, i)]
  BY <1>1, WithoutPlaces
<1>3. f1 \in [Channels -> Seq(R)] /\ f1[c] = rest /\ \A b \in Channels : b # c => f1[b] = f[b]
  <2> HIDE DEF rest
  <2> QED BY <1>1, <1>2 DEF rest
<1> HIDE DEF rest
<1> QED BY <1>2, <1>3 DEF list, Was, Taken

\* A request of NVMain's own, or one whose packet is new to the map, is queued.
LEMMA IssueMapped ==
    ASSUME NEW f, NEW g, NEW M, NEW M1, M \subseteq M1, NEW c, NEW e, NEW f1, Put(f, f1, c, e),
           e.from # NoRequest => e.from \in M1 \ M,
           Mapped(f, g, M)
    PROVE  Mapped(f1, g, M1)
<1>1. \A b \in Channels : \A j \in DOMAIN f1[b] :
          \/ j \in DOMAIN f[b] /\ f1[b][j] = f[b][j]
          \/ b = c /\ j = Len(f[c]) + 1 /\ f1[b][j] = e
  BY DEF Put
<1>2. InMap(f, M) /\ InMap(g, M) /\ Apart(f) /\ Apart(g) /\ Disjoint(f, g)
  BY DEF Mapped
<1>3. InMap(f1, M1) /\ InMap(g, M1)
  BY <1>1, <1>2 DEF InMap
<1>4. ASSUME NEW b \in Channels, NEW j \in DOMAIN f[b], f[b][j].from = e.from
      PROVE  e.from = NoRequest
  BY <1>2, <1>4 DEF InMap
<1>5. ASSUME NEW b \in Channels, NEW j \in DOMAIN g[b], g[b][j].from = e.from
      PROVE  e.from = NoRequest
  BY <1>2, <1>5 DEF InMap
<1>6. Apart(f1)
  <2> SUFFICES ASSUME NEW a \in Channels, NEW b \in Channels, NEW i \in DOMAIN f1[a],
                      NEW j \in DOMAIN f1[b], f1[a][i].from # NoRequest,
                      f1[a][i].from = f1[b][j].from
               PROVE  a = b /\ i = j
    BY DEF Apart
  <2>1. CASE i \in DOMAIN f[a] /\ f1[a][i] = f[a][i] /\ j \in DOMAIN f[b] /\ f1[b][j] = f[b][j]
    BY <1>2, <2>1 DEF Apart
  <2>2. CASE i \in DOMAIN f[a] /\ f1[a][i] = f[a][i] /\ f1[b][j] = e
    BY <1>4, <2>2
  <2>3. CASE f1[a][i] = e /\ j \in DOMAIN f[b] /\ f1[b][j] = f[b][j]
    BY <1>4, <2>3
  <2>4. CASE a = c /\ i = Len(f[c]) + 1 /\ b = c /\ j = Len(f[c]) + 1
    BY <2>4
  <2> QED BY <1>1, <2>1, <2>2, <2>3, <2>4
<1>7. Disjoint(f1, g)
  <2> SUFFICES ASSUME NEW a \in Channels, NEW b \in Channels, NEW i \in DOMAIN f1[a],
                      NEW j \in DOMAIN g[b], f1[a][i].from # NoRequest
               PROVE  f1[a][i].from # g[b][j].from
    BY DEF Disjoint
  <2>1. CASE i \in DOMAIN f[a] /\ f1[a][i] = f[a][i]
    BY <1>2, <2>1 DEF Disjoint
  <2>2. CASE f1[a][i] = e
    BY <1>5, <2>2
  <2> QED BY <1>1, <2>1, <2>2
<1> QED BY <1>2, <1>3, <1>6, <1>7 DEF Mapped

\* A request is moved from its queue to the scheduled ones.
LEMMA ScheduleMapped ==
    ASSUME NEW f, NEW g, NEW M, NEW c \in Channels, NEW i \in DOMAIN f[c], NEW f1, NEW g1,
           Taken(f, f1, c, i), Put(g, g1, c, f[c][i]),
           Mapped(f, g, M)
    PROVE  Mapped(f1, g1, M)
<1> DEFINE e == f[c][i]
           At(b, j) == Was(b, j, c, i)
<1>1. \A b \in Channels : \A j \in DOMAIN g1[b] :
          \/ j \in DOMAIN g[b] /\ g1[b][j] = g[b][j]
          \/ b = c /\ j = Len(g[c]) + 1 /\ g1[b][j] = e
  BY DEF Put
<1>2. \A b \in Channels : \A j \in DOMAIN f1[b] :
          /\ At(b, j) \in DOMAIN f[b] /\ f1[b][j] = f[b][At(b, j)]
          /\ ~ (b = c /\ At(b, j) = i)
          /\ j = IF b = c THEN Below(At(b, j), i) ELSE At(b, j)
  BY DEF Taken
<1>3. InMap(f, M) /\ InMap(g, M) /\ Apart(f) /\ Apart(g) /\ Disjoint(f, g)
  BY DEF Mapped
<1> HIDE DEF At
<1>4. InMap(f1, M)
  BY <1>2, <1>3 DEF InMap
<1>5. InMap(g1, M)
  BY <1>1, <1>3 DEF InMap
<1>6. Apart(f1)
  <2> SUFFICES ASSUME NEW a \in Channels, NEW b \in Channels, NEW x \in DOMAIN f1[a],
                      NEW y \in DOMAIN f1[b], f1[a][x].from # NoRequest,
                      f1[a][x].from = f1[b][y].from
               PROVE  a = b /\ x = y
    BY DEF Apart
  <2>1. a = b /\ At(a, x) = At(b, y)
    BY <1>2, <1>3 DEF Apart
  <2> QED BY <1>2, <2>1
<1>7. ASSUME NEW b \in Channels, NEW j \in DOMAIN g[b], g[b][j].from = e.from
      PROVE  e.from = NoRequest
  BY <1>3, <1>7 DEF Disjoint
<1>8. ASSUME NEW b \in Channels, NEW j \in DOMAIN f1[b], f1[b][j].from = e.from
      PROVE  e.from = NoRequest
  BY <1>2, <1>3, <1>8 DEF Apart
<1> HIDE DEF e
<1>9. Apart(g1)
  <2> SUFFICES ASSUME NEW a \in Channels, NEW b \in Channels, NEW x \in DOMAIN g1[a],
                      NEW y \in DOMAIN g1[b], g1[a][x].from # NoRequest,
                      g1[a][x].from = g1[b][y].from
               PROVE  a = b /\ x = y
    BY DEF Apart
  <2>1. CASE x \in DOMAIN g[a] /\ g1[a][x] = g[a][x] /\ y \in DOMAIN g[b] /\ g1[b][y] = g[b][y]
    BY <1>3, <2>1 DEF Apart
  <2>2. CASE x \in DOMAIN g[a] /\ g1[a][x] = g[a][x] /\ g1[b][y] = e
    BY <1>7, <2>2
  <2>3. CASE g1[a][x] = e /\ y \in DOMAIN g[b] /\ g1[b][y] = g[b][y]
    BY <1>7, <2>3
  <2>4. CASE a = c /\ x = Len(g[c]) + 1 /\ b = c /\ y = Len(g[c]) + 1
    BY <2>4
  <2> QED BY <1>1, <2>1, <2>2, <2>3, <2>4
<1>10. Disjoint(f1, g1)
  <2> SUFFICES ASSUME NEW a \in Channels, NEW b \in Channels, NEW x \in DOMAIN f1[a],
                      NEW y \in DOMAIN g1[b], f1[a][x].from # NoRequest
               PROVE  f1[a][x].from # g1[b][y].from
    BY DEF Disjoint
  <2>1. CASE y \in DOMAIN g[b] /\ g1[b][y] = g[b][y]
    BY <1>2, <1>3, <2>1 DEF Disjoint
  <2>2. CASE g1[b][y] = e
    BY <1>8, <2>2
  <2> QED BY <1>1, <2>1, <2>2
<1> QED BY <1>4, <1>5, <1>6, <1>9, <1>10 DEF Mapped

\* A scheduled request completes; that of a client leaves the map.
LEMMA ServeMapped ==
    ASSUME NEW f, NEW g, NEW M, NEW M1, NEW c \in Channels, NEW i \in DOMAIN g[c], NEW g1,
           Taken(g, g1, c, i),
           \/ M1 = M
           \/ M1 = M \ {g[c][i].from} /\ g[c][i].from # NoRequest,
           Mapped(f, g, M)
    PROVE  Mapped(f, g1, M1)
<1> DEFINE e == g[c][i]
           At(b, j) == Was(b, j, c, i)
<1>1. \A b \in Channels : \A j \in DOMAIN g1[b] :
          /\ At(b, j) \in DOMAIN g[b] /\ g1[b][j] = g[b][At(b, j)]
          /\ ~ (b = c /\ At(b, j) = i)
          /\ j = IF b = c THEN Below(At(b, j), i) ELSE At(b, j)
  BY DEF Taken
<1>2. InMap(f, M) /\ InMap(g, M) /\ Apart(f) /\ Apart(g) /\ Disjoint(f, g)
  BY DEF Mapped
<1> HIDE DEF At
<1>3. ASSUME NEW b \in Channels, NEW j \in DOMAIN g1[b], g1[b][j].from = e.from
      PROVE  e.from = NoRequest
  BY <1>1, <1>2, <1>3 DEF Apart
<1>4. ASSUME NEW b \in Channels, NEW j \in DOMAIN f[b], f[b][j].from = e.from
      PROVE  e.from = NoRequest
  BY <1>2, <1>4 DEF Disjoint
<1>5. InMap(f, M1)
  BY <1>2, <1>4 DEF InMap
<1>6. InMap(g1, M1)
  <2> SUFFICES ASSUME NEW b \in Channels, NEW j \in DOMAIN g1[b], g1[b][j].from # NoRequest
               PROVE  g1[b][j].from \in M1
    BY DEF InMap
  <2>1. g1[b][j].from \in M
    BY <1>1, <1>2 DEF InMap
  <2>2. g1[b][j].from # e.from
    BY <1>3
  <2> QED BY <2>1, <2>2
<1>7. Apart(g1)
  <2> SUFFICES ASSUME NEW a \in Channels, NEW b \in Channels, NEW x \in DOMAIN g1[a],
                      NEW y \in DOMAIN g1[b], g1[a][x].from # NoRequest,
                      g1[a][x].from = g1[b][y].from
               PROVE  a = b /\ x = y
    BY DEF Apart
  <2>1. a = b /\ At(a, x) = At(b, y)
    BY <1>1, <1>2 DEF Apart
  <2> QED BY <1>1, <2>1
<1>8. Disjoint(f, g1)
  BY <1>1, <1>2 DEF Disjoint
<1> QED BY <1>2, <1>5, <1>6, <1>7, <1>8 DEF Mapped

-----------------------------------------------------------------------------
(* The handlers as moves of requests between the lists of the DRAM channel.*)

\* EvictionsPaired, EvictionsExact and SlotsSettle for any lists, and all that holds
\* while no request is dropped.
Reads(list, slot) == Cardinality(PlacesOf(list, "EVICT_READ", slot))
Waits(list, slot) == Cardinality(PlacesOf(list, "DRAM_WRITE", slot))
Paired(w, q, s) ==
    \A slot \in Slots : Reads(q, slot) + Reads(s, slot) <= Waits(w, slot)
Exact(w, q, s) ==
    \A slot \in Slots : Reads(q, slot) + Reads(s, slot) = Waits(w, slot)
Settled(w, q, s, d, t, inv) ==
    \A slot \in Slots : slot < t => AfterAll(w, q, s, d, slot, inv[slot])
Clean(w, q, s, d, t, inv) ==
    Exact(w, q, s) /\ Settled(w, q, s, d, t, inv) /\ Followed(w, q, s, d)
Own(w) == \A i \in DOMAIN w : w[i].kind = "DRAM_WRITE"

\* The counts are numbers, and what the moves make of them.
LEMMA Counts ==
    ASSUME NEW R, NEW list \in Seq(R), NEW slot
    PROVE  /\ Reads(list, slot) \in Nat /\ Waits(list, slot) \in Nat
           /\ \A e \in R :
                /\ Reads(Append(list, e), slot) =
                     Reads(list, slot) + (IF e.kind = "EVICT_READ" /\ e.addr = slot THEN 1 ELSE 0)
                /\ Waits(Append(list, e), slot) =
                     Waits(list, slot) + (IF e.kind = "DRAM_WRITE" /\ e.addr = slot THEN 1 ELSE 0)
           /\ \A i \in DOMAIN list :
                /\ Reads(Without(list, i), slot) =
                     Reads(list, slot)
                       - (IF list[i].kind = "EVICT_READ" /\ list[i].addr = slot THEN 1 ELSE 0)
                /\ Waits(Without(list, i), slot) =
                     Waits(list, slot)
                       - (IF list[i].kind = "DRAM_WRITE" /\ list[i].addr = slot THEN 1 ELSE 0)
<1>1. Reads(list, slot) \in Nat /\ Waits(list, slot) \in Nat
  BY PlacesFinite DEF Reads, Waits
<1>2. ASSUME NEW e \in R
      PROVE  /\ Reads(Append(list, e), slot) =
                  Reads(list, slot) + (IF e.kind = "EVICT_READ" /\ e.addr = slot THEN 1 ELSE 0)
             /\ Waits(Append(list, e), slot) =
                  Waits(list, slot) + (IF e.kind = "DRAM_WRITE" /\ e.addr = slot THEN 1 ELSE 0)
  BY PlacesAppend DEF Reads, Waits
<1>3. ASSUME NEW i \in DOMAIN list
      PROVE  /\ Reads(Without(list, i), slot) =
                  Reads(list, slot)
                    - (IF list[i].kind = "EVICT_READ" /\ list[i].addr = slot THEN 1 ELSE 0)
             /\ Waits(Without(list, i), slot) =
                  Waits(list, slot)
                    - (IF list[i].kind = "DRAM_WRITE" /\ list[i].addr = slot THEN 1 ELSE 0)
  BY PlacesWithout DEF Reads, Waits
<1> QED BY <1>1, <1>2, <1>3

\* A request that is no read of an eviction is queued: a hit, or the fill of a line that
\* is cached.
LEMMA HitTraffic ==
    ASSUME NEW R, NEW w \in Seq(R), NEW q \in Seq(R), NEW s \in Seq(R), NEW d, NEW t, NEW inv,
           NEW e \in R, e.kind # "EVICT_READ", e.addr \in Slots, e.addr < t,
           inv[e.addr] = e.block.line, Own(w)
    PROVE  /\ Paired(w, q, s) => Paired(w, Append(q, e), s)
           /\ Clean(w, q, s, d, t, inv) => Clean(w, Append(q, e), s, d, t, inv)
<1>1. \A slot : Reads(Append(q, e), slot) = Reads(q, slot)
  BY Counts
<1>2. ASSUME Clean(w, q, s, d, t, inv) PROVE Clean(w, Append(q, e), s, d, t, inv)
  <2>1. Exact(w, Append(q, e), s)
    BY <1>1, <1>2 DEF Clean, Exact
  <2>2. ASSUME NEW slot \in Slots, slot < t
        PROVE  AfterAll(w, Append(q, e), s, d, slot, inv[slot])
    <3>1. AfterAll(w, q, s, d, slot, inv[slot])
      BY <1>2, <2>2 DEF Clean, Settled
    <3>2. Writes(e, slot) => e.block.line = inv[slot]
      BY DEF Writes
    <3> QED BY <3>1, <3>2, IssueSettles
  <2>3. \/ InQueue(q, s, d, Len(q) + 1, e.addr, e.block.line)
        \/ OnItsWay(w, 0, e.addr, e.block.line)
    <3> DEFINE found == InQueue(q, s, d, Len(q) + 1, e.addr, e.block.line)
    <3>1. Finds(w, Len(w) + 1, e.addr, e.block.line, found)
      BY <1>2 DEF Clean, Settled, AfterAll
    <3> HIDE DEF found
    <3>2. found \/ \E i \in WritesTo(w, e.addr) : w[i].block.line = e.block.line
      BY <3>1, FindsLast
    <3>3. ASSUME NEW i \in WritesTo(w, e.addr), w[i].block.line = e.block.line
          PROVE  OnItsWay(w, 0, e.addr, e.block.line)
      <4>1. i \in PlacesOf(w, "DRAM_WRITE", e.addr) /\ i > 0
        BY LenProperties DEF WritesTo, PlacesOf, Own
      <4> QED BY <3>3, <4>1 DEF OnItsWay
    <3> QED BY <3>2, <3>3 DEF found
  <2>4. Followed(w, Append(q, e), s, d)
    BY <1>2, <2>3, IssueFollows DEF Clean
  <2> QED BY <2>1, <2>2, <2>4 DEF Clean, Settled
<1> QED BY <1>1, <1>2 DEF Paired

\* A write to a slot that was never used is queued: the line of the slot is its own.
LEMMA FreshTraffic ==
    ASSUME NEW R, NEW w \in Seq(R), NEW q \in Seq(R), NEW s \in Seq(R), NEW d,
           NEW t \in Slots, NEW inv, NEW inv1,
           NEW e \in R, e.kind \in {"WRITE", "DRAM_WRITE"}, e.addr = t,
           inv1[t] = e.block.line, \A slot \in Slots : slot # t => inv1[slot] = inv[slot],
           \A i \in DOMAIN w : w[i].addr # t
    PROVE  /\ Paired(w, q, s) => Paired(w, Append(q, e), s)
           /\ Clean(w, q, s, d, t, inv) => Clean(w, Append(q, e), s, d, t + 1, inv1)
<1>1. \A slot : Reads(Append(q, e), slot) = Reads(q, slot)
  BY Counts
<1>2. ASSUME Clean(w, q, s, d, t, inv) PROVE Clean(w, Append(q, e), s, d, t + 1, inv1)
  <2>1. Exact(w, Append(q, e), s)
    BY <1>1, <1>2 DEF Clean, Exact
  <2>2. ASSUME NEW slot \in Slots, slot < t + 1
        PROVE  AfterAll(w, Append(q, e), s, d, slot, inv1[slot])
    <3>1. CASE slot = t
      <4> DEFINE found == InQueue(Append(q, e), s, d, Len(Append(q, e)) + 1, t, e.block.line)
      <4>1. found
        BY FindsWrite DEF InQueue, Writes
      <4>2. WritesTo(w, t) = {}
        BY DEF WritesTo
      <4> HIDE DEF found
      <4>3. Finds(w, Len(w) + 1, t, e.block.line, found)
        BY <4>1, <4>2 DEF Finds
      <4> QED BY <3>1, <4>3 DEF AfterAll, found
    <3>2. CASE slot # t
      <4>1. slot < t /\ ~Writes(e, slot) /\ inv1[slot] = inv[slot]
        BY <2>2, <3>2, Constants DEF Writes
      <4>2. AfterAll(w, q, s, d, slot, inv[slot])
        BY <1>2, <4>1 DEF Clean, Settled
      <4> QED BY <4>1, <4>2, IssueSettles
    <3> QED BY <3>1, <3>2
  <2>3. Followed(w, Append(q, e), s, d)
    <3>1. e.kind # "READ"
      OBVIOUS
    <3> QED BY <1>2, <3>1, IssueFollows DEF Clean
  <2> QED BY <2>1, <2>2, <2>3 DEF Clean, Settled
<1> QED BY <1>1, <1>2 DEF Paired

\* A replacement: a write e waits for the read r of its slot, which may be dropped.
LEMMA ReplaceTraffic ==
    ASSUME NEW R, NEW w \in Seq(R), NEW q \in Seq(R), NEW s \in Seq(R), NEW d, NEW t,
           NEW inv, NEW inv1, NEW e \in R, NEW r \in R,
           e.kind = "DRAM_WRITE", r.kind = "EVICT_READ", r.addr = e.addr,
           inv1[e.addr] = e.block.line,
           \A slot \in Slots : slot # e.addr => inv1[slot] = inv[slot]
    PROVE  /\ Paired(w, q, s) => /\ Paired(Append(w, e), q, s)
                                 /\ Paired(Append(w, e), Append(q, r), s)
           /\ Clean(w, q, s, d, t, inv)
                => Clean(Append(w, e), Append(q, r), s, d, t, inv1)
<1> DEFINE one(slot) == IF e.addr = slot THEN 1 ELSE 0
<1>1. \A slot : /\ Reads(Append(q, r), slot) = Reads(q, slot) + one(slot)
                /\ Waits(Append(w, e), slot) = Waits(w, slot) + one(slot)
                /\ Reads(q, slot) \in Nat /\ Reads(s, slot) \in Nat /\ Waits(w, slot) \in Nat
                /\ one(slot) \in Nat
  BY Counts
<1> HIDE DEF one
<1>2. ASSUME Paired(w, q, s)
      PROVE  Paired(Append(w, e), q, s) /\ Paired(Append(w, e), Append(q, r), s)
  BY <1>1, <1>2, SMTT(40) DEF Paired
<1>3. ASSUME Clean(w, q, s, d, t, inv)
      PROVE  Clean(Append(w, e), Append(q, r), s, d, t, inv1)
  <2>1. Exact(Append(w, e), Append(q, r), s)
    BY <1>1, <1>3 DEF Clean, Exact
  <2>2. ASSUME NEW slot \in Slots, slot < t
        PROVE  AfterAll(Append(w, e), Append(q, r), s, d, slot, inv1[slot])
    <3>1. AfterAll(Append(w, e), q, s, d, slot, inv1[slot])
      <4>1. CASE slot = e.addr
        BY <4>1, WaitSettles DEF Writes
      <4>2. CASE slot # e.addr
        <5>1. AfterAll(w, q, s, d, slot, inv1[slot]) /\ ~Writes(e, slot)
          BY <1>3, <2>2, <4>2 DEF Clean, Settled, Writes
        <5> QED BY <5>1, WaitSettles
      <4> QED BY <4>1, <4>2
    <3>2. ~Writes(r, slot)
      BY DEF Writes
    <3> QED BY <3>1, <3>2, IssueSettles
  <2>3. Followed(Append(w, e), q, s, d)
    BY <1>3, WaitFollows DEF Clean
  <2>4. Followed(Append(w, e), Append(q, r), s, d)
    BY <2>3, IssueFollows
  <2> QED BY <2>1, <2>2, <2>4 DEF Clean, Settled
<1> QED BY <1>2, <1>3

\* The controller schedules a request.
LEMMA ScheduleTraffic ==
    ASSUME NEW R, NEW w \in Seq(R), NEW q \in Seq(R), NEW s \in Seq(R), NEW d, NEW t, NEW inv,
           NEW i \in FirstOfAddress(q)
    PROVE  /\ Paired(w, q, s) => Paired(w, Without(q, i), Append(s, q[i]))
           /\ Clean(w, q, s, d, t, inv) => Clean(w, Without(q, i), Append(s, q[i]), d, t, inv)
<1> DEFINE q1 == Without(q, i)
           s1 == Append(s, q[i])
<1>0. i \in DOMAIN q /\ q[i] \in R
  BY LenProperties, ElementOfSeq DEF FirstOfAddress
<1>1. \A slot : /\ Reads(q1, slot) + Reads(s1, slot) = Reads(q, slot) + Reads(s, slot)
                /\ Waits(w, slot) \in Nat
  <2> SUFFICES ASSUME NEW slot
               PROVE  /\ Reads(q1, slot) + Reads(s1, slot) = Reads(q, slot) + Reads(s, slot)
                      /\ Waits(w, slot) \in Nat
    OBVIOUS
  <2> DEFINE e == q[i]
             one == IF e.kind = "EVICT_READ" /\ e.addr = slot THEN 1 ELSE 0
  <2>1. /\ Reads(q1, slot) = Reads(q, slot) - one /\ Reads(q, slot) \in Nat
        /\ Waits(w, slot) \in Nat /\ Reads(s, slot) \in Nat /\ one \in Nat
    BY <1>0, Counts
  <2>2. Reads(s1, slot) = Reads(s, slot) + one
    <3>1. e \in R
      BY <1>0
    <3> HIDE DEF e
    <3>2. Reads(Append(s, e), slot) = Reads(s, slot) + one
      BY <3>1, Counts
    <3> QED BY <3>2 DEF e
  <2> HIDE DEF one, e, q1, s1
  <2> QED BY <2>1, <2>2
<1>2. ASSUME Clean(w, q, s, d, t, inv) PROVE Clean(w, q1, s1, d, t, inv)
  <2>1. Exact(w, q1, s1)
    <3> HIDE DEF q1, s1
    <3> QED BY <1>1, <1>2 DEF Clean, Exact
  <2>2. ASSUME NEW slot \in Slots, slot < t
        PROVE  AfterAll(w, q1, s1, d, slot, inv[slot])
    <3> DEFINE old == InQueue(q, s, d, Len(q) + 1, slot, inv[slot])
               new == InQueue(q1, s1, d, Len(q1) + 1, slot, inv[slot])
    <3>1. old => new
      BY ScheduleSettles, BehindWithout
    <3>2. Finds(w, Len(w) + 1, slot, inv[slot], old)
      BY <1>2, <2>2 DEF Clean, Settled, AfterAll
    <3> HIDE DEF old, new
    <3>3. Finds(w, Len(w) + 1, slot, inv[slot], new)
      BY <3>1, <3>2, FindsWeaken
    <3> QED BY <3>3 DEF AfterAll, new
  <2>3. Followed(w, q1, s1, d)
    BY <1>2, ScheduleFollows DEF Clean
  <2> QED BY <2>1, <2>2, <2>3 DEF Clean, Settled
<1>3. ASSUME Paired(w, q, s) PROVE Paired(w, q1, s1)
  <2> HIDE DEF q1, s1
  <2> QED BY <1>1, <1>3 DEF Paired
<1> QED BY <1>2, <1>3

\* A scheduled request takes effect. The read of an eviction is one less than the
\* writes that wait for it.
LEMMA ServeTraffic ==
    ASSUME NEW R, NEW w \in Seq(R), NEW q \in Seq(R), NEW s \in Seq(R), NEW d, NEW d1,
           NEW t, NEW inv, NEW i \in FirstOfAddress(s), NEW A, A \subseteq Slots,
           \A slot \in Slots : slot < t => slot \in A,
           \A k \in DOMAIN q : q[k].addr \in A,
           \A k \in DOMAIN s : s[k].addr \in A,
           \A slot \in A : After(s[i], d, d1, slot)
    PROVE  /\ Paired(w, q, s) => Paired(w, q, Without(s, i))
           /\ Settled(w, q, s, d, t, inv) => Settled(w, q, Without(s, i), d1, t, inv)
           /\ Followed(w, q, s, d) => Followed(w, q, Without(s, i), d1)
           /\ s[i].kind # "EVICT_READ" /\ Exact(w, q, s) => Exact(w, q, Without(s, i))
<1> DEFINE s1 == Without(s, i)
<1>0. i \in DOMAIN s
  BY DEF FirstOfAddress
<1>1. \A slot : /\ Reads(s1, slot) <= Reads(s, slot)
                /\ s[i].kind # "EVICT_READ" => Reads(s1, slot) = Reads(s, slot)
                /\ Waits(w, slot) \in Nat /\ Reads(q, slot) \in Nat /\ Reads(s, slot) \in Nat
                /\ Reads(s1, slot) \in Int
  BY <1>0, Counts
<1>2. ASSUME Paired(w, q, s) PROVE Paired(w, q, s1)
  <2> HIDE DEF s1
  <2> SUFFICES ASSUME NEW slot \in Slots PROVE Reads(q, slot) + Reads(s1, slot) <= Waits(w, slot)
    BY DEF Paired
  <2>1. Reads(q, slot) + Reads(s, slot) <= Waits(w, slot)
    BY <1>2 DEF Paired
  <2> QED BY <1>1, <2>1
<1>3. ASSUME s[i].kind # "EVICT_READ", Exact(w, q, s) PROVE Exact(w, q, s1)
  <2> HIDE DEF s1
  <2> QED BY <1>1, <1>3 DEF Exact
<1>4. ASSUME Settled(w, q, s, d, t, inv) PROVE Settled(w, q, s1, d1, t, inv)
  <2> SUFFICES ASSUME NEW slot \in Slots, slot < t
               PROVE  AfterAll(w, q, s1, d1, slot, inv[slot])
    BY DEF Settled
  <2>1. AfterAll(w, q, s, d, slot, inv[slot]) /\ After(s[i], d, d1, slot)
    BY <1>4 DEF Settled
  <2> QED BY <2>1, ServeSettles
<1>5. ASSUME Followed(w, q, s, d) PROVE Followed(w, q, s1, d1)
  BY <1>5, ServeFollows
<1> QED BY <1>2, <1>3, <1>4, <1>5

\* The read of an eviction finds the write that waits for it.
LEMMA ReadFindsWrite ==
    ASSUME NEW R, NEW w \in Seq(R), NEW q \in Seq(R), NEW s \in Seq(R),
           NEW i \in DOMAIN s, s[i].kind = "EVICT_READ", s[i].addr \in Slots, Paired(w, q, s)
    PROVE  \E j \in DOMAIN w : w[j].addr = s[i].addr
<1> DEFINE slot == s[i].addr
<1>1. /\ Reads(Without(s, i), slot) = Reads(s, slot) - 1
      /\ Reads(s, slot) \in Nat /\ Reads(q, slot) \in Nat /\ Waits(w, slot) \in Nat
  BY Counts
<1>2. Reads(Without(s, i), slot) \in Nat
  BY WithoutPlaces, Counts
<1>3. Reads(q, slot) + Reads(s, slot) <= Waits(w, slot)
  BY DEF Paired
<1>4. Waits(w, slot) # 0
  BY <1>1, <1>2, <1>3
<1>5. IsFiniteSet(PlacesOf(w, "DRAM_WRITE", slot))
  BY PlacesFinite
<1>6. PlacesOf(w, "DRAM_WRITE", slot) # {}
  BY <1>4, <1>5, FS_EmptySet DEF Waits
<1> QED BY <1>6 DEF PlacesOf

\* The end of an eviction: with the read gone from the scheduled ones, its write is
\* taken from those that wait, and queued unless it is dropped.
LEMMA EvictTraffic ==
    ASSUME NEW R, NEW w \in Seq(R), NEW q \in Seq(R), NEW s \in Seq(R), NEW d, NEW t, NEW inv,
           NEW i \in FirstOfAddress(s), s[i].kind = "EVICT_READ",
           NEW j \in FirstOfAddress(w), w[j].addr = s[i].addr, Own(w),
           NEW s1, s1 = Without(s, i)
    PROVE  /\ Paired(w, q, s) => /\ Paired(Without(w, j), q, s1)
                                 /\ Paired(Without(w, j), Append(q, w[j]), s1)
           /\ /\ Exact(w, q, s) /\ Settled(w, q, s1, d, t, inv) /\ Followed(w, q, s1, d)
              => Clean(Without(w, j), Append(q, w[j]), s1, d, t, inv)
<1> DEFINE e == w[j]
           w1 == Without(w, j)
           q1 == Append(q, e)
           one(slot) == IF e.addr = slot THEN 1 ELSE 0
<1>0. /\ i \in DOMAIN s /\ j \in DOMAIN w /\ e \in R /\ e.kind = "DRAM_WRITE"
      /\ e.kind # "EVICT_READ" /\ e.kind # "READ"
  BY LenProperties, ElementOfSeq DEF FirstOfAddress, Own
<1>1. ASSUME NEW slot
      PROVE  /\ Reads(s1, slot) = Reads(s, slot) - one(slot)
             /\ Waits(w1, slot) = Waits(w, slot) - one(slot)
             /\ Reads(q, slot) \in Nat /\ Reads(s, slot) \in Nat /\ Waits(w, slot) \in Nat
             /\ one(slot) \in Nat
  BY <1>0, Counts
<1>2. ASSUME NEW slot PROVE Reads(q1, slot) = Reads(q, slot)
  <2> HIDE DEF e
  <2> QED BY <1>0, Counts
<1>3. ASSUME Paired(w, q, s) PROVE Paired(w1, q, s1) /\ Paired(w1, q1, s1)
  <2>1. ASSUME NEW slot \in Slots
        PROVE  /\ Reads(q, slot) + Reads(s1, slot) <= Waits(w1, slot)
               /\ Reads(q1, slot) + Reads(s1, slot) <= Waits(w1, slot)
    <3>1. Reads(q, slot) + Reads(s, slot) <= Waits(w, slot)
      BY <1>3 DEF Paired
    <3> HIDE DEF w1, q1, one, e
    <3> QED BY <1>1, <1>2, <3>1
  <2> QED BY <2>1 DEF Paired
<1>4. ASSUME Exact(w, q, s), Settled(w, q, s1, d, t, inv), Followed(w, q, s1, d)
      PROVE  Clean(w1, q1, s1, d, t, inv)
  <2>1. Exact(w1, q1, s1)
    <3> HIDE DEF w1, q1, one, e
    <3> QED BY <1>1, <1>2, <1>4 DEF Exact
  <2>2. Settled(w1, q1, s1, d, t, inv)
    BY <1>4, WriteSettles DEF Settled
  <2>3. Followed(w1, q1, s1, d)
    BY <1>0, <1>4, WriteFollows
  <2> QED BY <2>1, <2>2, <2>3 DEF Clean
<1> QED BY <1>3, <1>4

-----------------------------------------------------------------------------
(* The handlers of NVMain.                                                 *)

\* RequestsPlaced and TrafficInv for any lists, slots, tags and map.
PlacedIn(f) == \A c \in Channels : \A i \in DOMAIN f[c] : f[c][i].channel = c
WaitingPlaced(w) ==
    \A i \in DOMAIN w : w[i].kind = "DRAM_WRITE" /\ w[i].channel = "DRAM" /\ w[i].from = NoRequest
Traffic(w, f, g, d, t, inv, M, dropped) ==
    /\ PlacedIn(f) /\ PlacedIn(g) /\ WaitingPlaced(w)
    /\ Mapped(f, g, M)
    /\ Paired(w, f["DRAM"], g["DRAM"])
    /\ ~dropped => Clean(w, f["DRAM"], g["DRAM"], d, t, inv)

\* TrafficInv in these terms.
LEMMA TrafficParts ==
    IndInv => (TrafficInv <=> Traffic(waitingDRAMWrite, queue, scheduled, dram, tmpAddr,
                                      inverseMap, m_request_map, pressed))
<1> SUFFICES ASSUME IndInv
             PROVE  TrafficInv <=> Traffic(waitingDRAMWrite, queue, scheduled, dram, tmpAddr,
                                           inverseMap, m_request_map, pressed)
  OBVIOUS
<1>1. RequestsMapped <=> Mapped(queue, scheduled, m_request_map)
  <2>1. /\ queue \in [Channels -> Seq(RequestsBelow(tmpAddr))]
        /\ scheduled \in [Channels -> Seq(RequestsBelow(tmpAddr))]
    BY DEF IndInv, TypeOK, CacheTypeOK
  <2> QED BY <2>1, MappedParts
<1>2. RequestsPlaced <=> PlacedIn(queue) /\ PlacedIn(scheduled) /\ WaitingPlaced(waitingDRAMWrite)
  BY DEF RequestsPlaced, PlacedIn, WaitingPlaced
<1>3. /\ EvictionsPaired <=> Paired(waitingDRAMWrite, queue["DRAM"], scheduled["DRAM"])
      /\ EvictionsExact <=> Exact(waitingDRAMWrite, queue["DRAM"], scheduled["DRAM"])
  BY DEF EvictionsPaired, EvictionsExact, Paired, Exact, Reads, Waits
<1>4. SlotsSettle <=> Settled(waitingDRAMWrite, queue["DRAM"], scheduled["DRAM"], dram,
                              tmpAddr, inverseMap)
  BY DEF SlotsSettle, Settled, FindsAfterAll, FindsQueued, FindsScheduled, AfterAll, InQueue,
         InScheduled
<1>5. HitsFollowed <=> Followed(waitingDRAMWrite, queue["DRAM"], scheduled["DRAM"], dram)
  BY DEF HitsFollowed, Followed, FindsQueued, FindsScheduled, HitScheduled, HitQueued, InQueue,
         InScheduled
<1> QED BY <1>1, <1>2, <1>3, <1>4, <1>5 DEF TrafficInv, Traffic, Clean

\* The list of the request's channel has grown by it if there was room.
Grown(f, f1, e) ==
    \A b \in Channels :
        f1[b] = IF b = e.channel /\ Issuable(f, b) THEN Append(f[b], e) ELSE f[b]

\* FRFCFS::IssueCommand, accepted or refused.
LEMMA EnqueueGrows ==
    ASSUME NEW R, NEW f \in [Channels -> Seq(R)], NEW e \in R, e.channel \in Channels
    PROVE  /\ Enqueued(f, e) \in [Channels -> Seq(R)]
           /\ Put(f, Enqueued(f, e), e.channel, e) /\ Grown(f, Enqueued(f, e), e)
<1> DEFINE c == e.channel
           f1 == Enqueued(f, e)
<1>1. CASE ~Issuable(f, c)
  <2>1. f1 = f
    BY <1>1 DEF Enqueued
  <2> QED BY <1>1, <2>1 DEF Grown, Put
<1>2. CASE Issuable(f, c)
  <2>1. f1 = [f EXCEPT ![c] = Append(@, e)]
    BY <1>2 DEF Enqueued
  <2> HIDE DEF f1
  <2>2. f1 \in [Channels -> Seq(R)] /\ Put(f, f1, c, e)
    BY <2>1, PutFacts, Zenon
  <2>3. \A b \in Channels : f1[b] = IF b = c THEN Append(f[b], e) ELSE f[b]
    BY <2>1
  <2> QED BY <1>2, <2>2, <2>3 DEF Grown, f1
<1> QED BY <1>1, <1>2

\* A request that is put in the list of its channel is in its place.
LEMMA PutPlaced ==
    ASSUME NEW f, NEW f1, NEW e, Put(f, f1, e.channel, e), PlacedIn(f)
    PROVE  PlacedIn(f1)
  BY DEF Put, PlacedIn

\* A request to NVRAM does not touch the lists of DRAM.
LEMMA MissTraffic ==
    ASSUME NEW R, NEW f \in [Channels -> Seq(R)], NEW e \in R, e.channel = "NVRAM",
           NEW g, NEW M, NEW M1, M \subseteq M1, e.from # NoRequest => e.from \in M1 \ M,
           NEW w, NEW d, NEW t, NEW inv, NEW p, Traffic(w, f, g, d, t, inv, M, p)
    PROVE  Traffic(w, Enqueued(f, e), g, d, t, inv, M1, p)
<1> DEFINE f1 == Enqueued(f, e)
<1>1. e.channel \in Channels /\ "DRAM" \in Channels
  BY DEF Channels
<1>2. Mapped(f, g, M) /\ PlacedIn(f)
  BY DEF Traffic
<1>3. Put(f, f1, e.channel, e) /\ Grown(f, f1, e)
  BY <1>1, EnqueueGrows
<1> HIDE DEF f1
<1>4. Mapped(f1, g, M1) /\ PlacedIn(f1)
  BY <1>2, <1>3, IssueMapped, PutPlaced
<1>5. f1["DRAM"] = f["DRAM"]
  BY <1>1, <1>3 DEF Grown
<1>6. Traffic(w, f1, g, d, t, inv, M1, p)
  BY <1>4, <1>5 DEF Traffic
<1> QED BY <1>6 DEF f1

\* Once a request may have been dropped, less is said.
LEMMA TrafficWeaken ==
    ASSUME NEW w, NEW f, NEW g, NEW d, NEW t, NEW inv, NEW M, NEW p, NEW p1, ~p1 => ~p,
           Traffic(w, f, g, d, t, inv, M, p)
    PROVE  Traffic(w, f, g, d, t, inv, M, p1)
  BY DEF Traffic

\* What a client's read or write, or a fill, does to the traffic when its line is cached.
LEMMA GetTraffic ==
    ASSUME TagsInv, IssuedInv, NEW line \in Lines, Has(line), Get(line),
           NEW kind \in {"READ", "WRITE", "DRAM_WRITE"}, NEW block \in Blocks, block.line = line,
           NEW from \in Requests \cup {NoRequest},
           queue' = Enqueued(queue, Request(kind, "DRAM", m[line], block, from)),
           UNCHANGED waitingDRAMWrite,
           NEW g \in [Channels -> Seq(RequestsBelow(tmpAddr))], NEW d, NEW M, NEW M1,
           M \subseteq M1, from # NoRequest => from \in M1 \ M,
           NEW p, NEW p1, ~p1 => ~p /\ Issuable(queue, "DRAM"),
           Traffic(waitingDRAMWrite, queue, g, d, tmpAddr, inverseMap, M, p)
    PROVE  Traffic(waitingDRAMWrite', queue', g, d, tmpAddr', inverseMap', M1, p1)
<1> DEFINE e == Request(kind, "DRAM", m[line], block, from)
           R == RequestsBelow(tmpAddr)
           w == waitingDRAMWrite
           q == queue["DRAM"]
           s == g["DRAM"]
<1>1. /\ m[line] \in Slots /\ m[line] < tmpAddr /\ inverseMap[m[line]] = line
      /\ tmpAddr \in 0 .. TagLines /\ TagLines \in Nat
      /\ m[line] \in 0 .. tmpAddr - 1
  <2>1. m[line] \in Slots /\ m[line] < tmpAddr /\ inverseMap[m[line]] = line
    BY DEF TagsInv, TagsConsistent, Has
  <2> QED BY <2>1, Constants DEF TagsInv
<1>2. /\ e \in R /\ e.kind = kind /\ e.channel = "DRAM" /\ e.addr = m[line] /\ e.block = block
      /\ e.from = from
  <2>1. kind \in Kinds
    BY DEF Kinds
  <2> QED BY <1>1, <2>1, RequestFacts DEF Request
<1>3. /\ w \in Seq(R) /\ queue \in [Channels -> Seq(R)] /\ "DRAM" \in Channels
      /\ q \in Seq(R) /\ s \in Seq(R) /\ queue' = Enqueued(queue, e)
      /\ g \in [Channels -> Seq(R)]
  BY DEF IssuedInv, Channels
<1>4. UNCHANGED <<inverseMap, tmpAddr>>
  BY DEF Get
<1>5. /\ PlacedIn(queue) /\ PlacedIn(g) /\ WaitingPlaced(w) /\ Mapped(queue, g, M)
      /\ Paired(w, q, s) /\ (~p => Clean(w, q, s, d, tmpAddr, inverseMap)) /\ Own(w)
  BY DEF Traffic, Own, WaitingPlaced
<1> HIDE DEF e, R
<1>6. /\ Mapped(queue', g, M1) /\ PlacedIn(queue')
      /\ queue'["DRAM"] = IF Issuable(queue, "DRAM") THEN Append(q, e) ELSE q
  <2>1. Mapped(queue', g, M1) /\ PlacedIn(queue') /\ Grown(queue, queue', e)
    <3>1. e.channel \in Channels /\ (e.from # NoRequest => e.from \in M1 \ M)
      BY <1>2, <1>3
    <3>2. Put(queue, queue', e.channel, e) /\ Grown(queue, queue', e)
      BY <1>2, <1>3, <3>1, EnqueueGrows
    <3> QED BY <1>5, <3>1, <3>2, IssueMapped, PutPlaced
  <2> QED BY <1>2, <1>3, <2>1 DEF Grown
<1> HIDE DEF w, q, s
<1>7. /\ Paired(w, q, s) => Paired(w, Append(q, e), s)
      /\ Clean(w, q, s, d, tmpAddr, inverseMap)
           => Clean(w, Append(q, e), s, d, tmpAddr, inverseMap)
  <2>1. e.kind # "EVICT_READ" /\ e.addr \in Slots /\ e.addr < tmpAddr
        /\ inverseMap[e.addr] = e.block.line
    BY <1>1, <1>2
  <2> QED BY <1>2, <1>3, <1>5, <2>1, HitTraffic
<1>8. Paired(w, queue'["DRAM"], s)
  BY <1>5, <1>6, <1>7
<1>9. ~p1 => Clean(w, queue'["DRAM"], s, d, tmpAddr, inverseMap)
  BY <1>5, <1>6, <1>7
<1> QED BY <1>4, <1>5, <1>6, <1>8, <1>9 DEF Traffic, w, q, s

\* What it does when the line takes a slot that was never used.
LEMMA AllocateTraffic ==
    ASSUME TagsInv, IssuedInv, NEW line \in Lines, ~Has(line), ~IsFull, Allocate(line),
           NEW kind \in {"WRITE", "DRAM_WRITE"}, NEW block \in Blocks, block.line = line,
           NEW from \in Requests \cup {NoRequest},
           queue' = Enqueued(queue, Request(kind, "DRAM", tmpAddr, block, from)),
           UNCHANGED waitingDRAMWrite,
           NEW g \in [Channels -> Seq(RequestsBelow(tmpAddr))], NEW d, NEW M, NEW M1,
           M \subseteq M1, from # NoRequest => from \in M1 \ M,
           NEW p, NEW p1, ~p1 => ~p /\ Issuable(queue, "DRAM"),
           Traffic(waitingDRAMWrite, queue, g, d, tmpAddr, inverseMap, M, p)
    PROVE  Traffic(waitingDRAMWrite', queue', g, d, tmpAddr', inverseMap', M1, p1)
<1> DEFINE e == Request(kind, "DRAM", tmpAddr, block, from)
           R == RequestsBelow(tmpAddr + 1)
           w == waitingDRAMWrite
           q == queue["DRAM"]
           s == g["DRAM"]
<1>1. /\ tmpAddr \in Slots /\ tmpAddr' = tmpAddr + 1 /\ TagLines \in Nat
      /\ tmpAddr \in Nat /\ tmpAddr + 1 \in 0 .. TagLines /\ tmpAddr + 1 \in Nat
      /\ tmpAddr \in 0 .. (tmpAddr + 1) - 1
  <2>1. tmpAddr \in Slots /\ tmpAddr' = tmpAddr + 1
    BY AllocateTags
  <2> QED BY <2>1, Constants DEF TagsInv
<1>2. /\ inverseMap'[tmpAddr] = line
      /\ \A slot \in Slots : slot # tmpAddr => inverseMap'[slot] = inverseMap[slot]
  <2>1. inverseMap[tmpAddr] = NoLine /\ inverseMap \in [Slots -> Lines \cup {NoLine}]
    BY <1>1 DEF TagsInv, SlotsNamed
  <2>2. inverseMap' = [inverseMap EXCEPT ![tmpAddr] = line]
    BY <1>1, <2>1 DEF Allocate
  <2> QED BY <1>1, <2>1, <2>2
<1>3. /\ e \in R /\ e.kind = kind /\ e.channel = "DRAM" /\ e.addr = tmpAddr /\ e.block = block
      /\ e.from = from
  <2>1. kind \in Kinds
    BY DEF Kinds
  <2> QED BY <1>1, <2>1, RequestFacts DEF Request
<1>4. /\ w \in Seq(R) /\ queue \in [Channels -> Seq(R)] /\ "DRAM" \in Channels
      /\ g \in [Channels -> Seq(R)] /\ queue' = Enqueued(queue, e)
  <2>1. tmpAddr <= tmpAddr + 1
    BY <1>1
  <2> QED BY <1>1, <2>1, ListsMonotone DEF IssuedInv, Channels
<1>5. q \in Seq(R) /\ s \in Seq(R)
  BY <1>4
<1>6. \A i \in DOMAIN w : w[i].addr # tmpAddr
  <2> SUFFICES ASSUME NEW i \in DOMAIN w PROVE w[i].addr # tmpAddr
    OBVIOUS
  <2>1. w[i] \in RequestsBelow(tmpAddr)
    BY <1>1, ListFacts DEF IssuedInv
  <2>2. w[i].channel = "DRAM"
    BY DEF Traffic, WaitingPlaced
  <2>3. w[i].addr \in 0 .. tmpAddr - 1
    BY <2>1, <2>2 DEF RequestsBelow
  <2> QED BY <1>1, <2>3
<1>7. /\ PlacedIn(queue) /\ PlacedIn(g) /\ WaitingPlaced(w) /\ Mapped(queue, g, M)
      /\ Paired(w, q, s) /\ (~p => Clean(w, q, s, d, tmpAddr, inverseMap))
  BY DEF Traffic
<1> HIDE DEF e, R
<1>8. /\ Mapped(queue', g, M1) /\ PlacedIn(queue')
      /\ queue'["DRAM"] = IF Issuable(queue, "DRAM") THEN Append(q, e) ELSE q
  <2>1. e.channel \in Channels /\ (e.from # NoRequest => e.from \in M1 \ M)
    BY <1>3, <1>4
  <2>2. Put(queue, queue', e.channel, e) /\ Grown(queue, queue', e)
    BY <1>3, <1>4, <2>1, EnqueueGrows
  <2>3. Mapped(queue', g, M1) /\ PlacedIn(queue')
    BY <1>7, <2>1, <2>2, IssueMapped, PutPlaced
  <2> QED BY <1>3, <1>4, <2>2, <2>3 DEF Grown
<1> HIDE DEF w, q, s
<1>9. /\ Paired(w, q, s) => Paired(w, Append(q, e), s)
      /\ Clean(w, q, s, d, tmpAddr, inverseMap)
           => Clean(w, Append(q, e), s, d, tmpAddr + 1, inverseMap')
  <2>1. /\ e.kind \in {"WRITE", "DRAM_WRITE"} /\ e.addr = tmpAddr
        /\ inverseMap'[tmpAddr] = e.block.line
    BY <1>2, <1>3
  <2> QED BY <1>1, <1>2, <1>3, <1>4, <1>5, <1>6, <2>1, FreshTraffic
<1>10. Paired(w, queue'["DRAM"], s)
  BY <1>7, <1>8, <1>9
<1>11. ~p1 => Clean(w, queue'["DRAM"], s, d, tmpAddr', inverseMap')
  BY <1>1, <1>7, <1>8, <1>9
<1> QED BY <1>7, <1>8, <1>10, <1>11 DEF Traffic, w, q, s

\* What it does when the line takes the slot of another.
LEMMA ReplacementTraffic ==
    ASSUME TagsInv, IssuedInv, NEW line \in Lines, NEW written \in BOOLEAN,
           ~Has(line), IsFull, Replace(Block(line, written)),
           NEW g \in [Channels -> Seq(RequestsBelow(tmpAddr))], NEW d, NEW M, NEW M1,
           M \subseteq M1,
           NEW p, NEW p1, ~p1 => ~p /\ Issuable(queue, "DRAM"),
           Traffic(waitingDRAMWrite, queue, g, d, tmpAddr, inverseMap, M, p)
    PROVE  Traffic(waitingDRAMWrite', queue', g, d, tmpAddr', inverseMap', M1, p1)
<1> DEFINE e == DRAMWrite(FreeAddr, Block(line, written))
           r == Request("EVICT_READ", "DRAM", FreeAddr, NoBlock, NoRequest)
           R == RequestsBelow(tmpAddr)
           w == waitingDRAMWrite
           q == queue["DRAM"]
           s == g["DRAM"]
<1>1. TakeOver(line)
  BY DEF Replace, Block
<1>2. tmpAddr' = tmpAddr /\ FreeAddr \in Slots /\ FreeAddr < tmpAddr
  BY <1>1, TakeOverTags
<1>3. /\ tmpAddr \in 0 .. TagLines /\ TagLines \in Nat /\ FreeAddr \in 0 .. tmpAddr - 1
  BY <1>2, Constants DEF TagsInv, Slots
<1>4. /\ inverseMap'[FreeAddr] = line
      /\ \A slot \in Slots : slot # FreeAddr => inverseMap'[slot] = inverseMap[slot]
  <2>1. /\ inverseMap' = [inverseMap EXCEPT ![FreeAddr] = line]
        /\ inverseMap \in [Slots -> Lines \cup {NoLine}]
    BY <1>1 DEF TakeOver, TagsInv
  <2> QED BY <1>2, <2>1
<1>5. /\ e \in R /\ e.kind = "DRAM_WRITE" /\ e.channel = "DRAM" /\ e.addr = FreeAddr
      /\ e.block.line = line /\ e.from = NoRequest
      /\ r \in R /\ r.kind = "EVICT_READ" /\ r.channel = "DRAM" /\ r.addr = FreeAddr
      /\ r.from = NoRequest
  <2>1. {"EVICT_READ", "DRAM_WRITE"} \subseteq Kinds
    BY DEF Kinds
  <2>2. e \in R /\ r \in R
    BY <2>1, <1>3, RequestFacts, BlockFacts DEF DRAMWrite
  <2> QED BY <2>2 DEF DRAMWrite, Request, Block
<1>6. /\ w \in Seq(R) /\ queue \in [Channels -> Seq(R)] /\ "DRAM" \in Channels
      /\ g \in [Channels -> Seq(R)] /\ queue' = Enqueued(queue, r)
      /\ waitingDRAMWrite' = Append(w, e)
  BY DEF IssuedInv, Channels, Replace
<1>7. q \in Seq(R) /\ s \in Seq(R)
  BY <1>6
<1>8. /\ PlacedIn(queue) /\ PlacedIn(g) /\ WaitingPlaced(w) /\ Mapped(queue, g, M)
      /\ Paired(w, q, s) /\ (~p => Clean(w, q, s, d, tmpAddr, inverseMap))
  BY DEF Traffic
<1> HIDE DEF e, r, R
<1>9. /\ Mapped(queue', g, M1) /\ PlacedIn(queue')
      /\ queue'["DRAM"] = IF Issuable(queue, "DRAM") THEN Append(q, r) ELSE q
  <2>1. r.channel \in Channels
    BY <1>5, <1>6
  <2>2. Put(queue, queue', r.channel, r) /\ Grown(queue, queue', r)
    BY <1>5, <1>6, <2>1, EnqueueGrows
  <2>3. Mapped(queue', g, M1) /\ PlacedIn(queue')
    BY <1>5, <1>8, <2>1, <2>2, IssueMapped, PutPlaced
  <2> QED BY <1>5, <1>6, <2>2, <2>3 DEF Grown
<1> HIDE DEF w, q, s
<1>10. WaitingPlaced(Append(w, e))
  <2>1. /\ DOMAIN Append(w, e) = DOMAIN w \cup {Len(w) + 1}
        /\ Append(w, e)[Len(w) + 1] = e
        /\ \A j \in DOMAIN w : Append(w, e)[j] = w[j]
    BY <1>5, <1>6, AppendPlaces
  <2> QED BY <1>5, <1>8, <2>1 DEF WaitingPlaced
<1>11. /\ Paired(w, q, s) => /\ Paired(Append(w, e), q, s)
                             /\ Paired(Append(w, e), Append(q, r), s)
       /\ Clean(w, q, s, d, tmpAddr, inverseMap)
            => Clean(Append(w, e), Append(q, r), s, d, tmpAddr, inverseMap')
  <2>1. /\ r.addr = e.addr /\ inverseMap'[e.addr] = e.block.line
        /\ \A slot \in Slots : slot # e.addr => inverseMap'[slot] = inverseMap[slot]
    BY <1>4, <1>5
  <2> QED BY <1>5, <1>6, <1>7, <2>1, ReplaceTraffic
<1>12. Paired(waitingDRAMWrite', queue'["DRAM"], s)
  BY <1>6, <1>8, <1>9, <1>11
<1>13. ~p1 => Clean(waitingDRAMWrite', queue'["DRAM"], s, d, tmpAddr', inverseMap')
  BY <1>2, <1>6, <1>8, <1>9, <1>11
<1> QED BY <1>6, <1>8, <1>9, <1>10, <1>12, <1>13 DEF Traffic, s

\* NVMain::IssueCommand.
LEMMA IssueCommandTraffic ==
    ASSUME TagsInv, IssuedInv, NEW r \in Requests, NEW type \in {"READ", "WRITE"},
           NEW line \in Lines, IssueCommand(r, type, line),
           NEW g \in [Channels -> Seq(RequestsBelow(tmpAddr))], NEW d, NEW M, NEW M1,
           M \subseteq M1, r \in M1 \ M,
           NEW p, NEW p1, ~p1 => ~p /\ Issuable(queue, "DRAM"),
           Traffic(waitingDRAMWrite, queue, g, d, tmpAddr, inverseMap, M, p)
    PROVE  Traffic(waitingDRAMWrite', queue', g, d, tmpAddr', inverseMap', M1, p1)
<1> DEFINE block == Block(line, type = "WRITE")
<1>1. block \in Blocks /\ block.line = line /\ r \in Requests \cup {NoRequest}
  BY BlockFacts DEF Block
<1>2. \A channel, addr : ClientRequest(r, type, line, channel, addr)
                             = Request(type, channel, addr, block, r)
  BY DEF ClientRequest
<1> HIDE DEF block
<1>3. CASE Hit(r, type, line)
  <2>1. /\ Has(line) /\ Get(line) /\ UNCHANGED waitingDRAMWrite
        /\ queue' = Enqueued(queue, Request(type, "DRAM", m[line], block, r))
        /\ type \in {"READ", "WRITE", "DRAM_WRITE"}
    BY <1>2, <1>3 DEF Hit
  <2> QED BY <2>1, <1>1, GetTraffic
<1>4. CASE ReadMiss(r, type, line)
  <2> DEFINE e == Request(type, "NVRAM", line, block, r)
             R == RequestsBelow(tmpAddr)
  <2>1. /\ UNCHANGED <<tags, waitingDRAMWrite>> /\ type = "READ"
        /\ queue' = Enqueued(queue, e)
    BY <1>2, <1>4 DEF ReadMiss
  <2>2. /\ e \in R /\ e.channel = "NVRAM" /\ e.from = r
    <3>1. tmpAddr \in 0 .. TagLines /\ type \in Kinds
      BY DEF TagsInv, Kinds
    <3> QED BY <2>1, <3>1, <1>1, RequestFacts DEF Request
  <2>3. queue \in [Channels -> Seq(R)] /\ g \in [Channels -> Seq(R)]
    BY DEF IssuedInv
  <2> HIDE DEF e, R
  <2>4. Traffic(waitingDRAMWrite, queue', g, d, tmpAddr, inverseMap, M1, p)
    BY <2>1, <2>2, <2>3, MissTraffic
  <2>5. Traffic(waitingDRAMWrite, queue', g, d, tmpAddr, inverseMap, M1, p1)
    BY <2>4, TrafficWeaken
  <2> QED BY <2>1, <2>5 DEF tags
<1>5. CASE WriteAllocate(r, type, line)
  <2>1. /\ ~Has(line) /\ ~IsFull /\ Allocate(line) /\ UNCHANGED waitingDRAMWrite
        /\ queue' = Enqueued(queue, Request(type, "DRAM", tmpAddr, block, r))
        /\ type \in {"WRITE", "DRAM_WRITE"}
    BY <1>2, <1>5 DEF WriteAllocate
  <2> QED BY <2>1, <1>1, AllocateTraffic
<1>6. CASE WriteReplace(r, type, line)
  <2>1. ~Has(line) /\ IsFull /\ Replace(Block(line, TRUE))
    BY <1>6 DEF WriteReplace
  <2> QED BY <2>1, ReplacementTraffic
<1> QED
  BY <1>3, <1>4, <1>5, <1>6 DEF IssueCommand

\* A read that came from NVRAM.
LEMMA FillCacheTraffic ==
    ASSUME TagsInv, IssuedInv, NEW line \in Lines, FillCache(line),
           NEW g \in [Channels -> Seq(RequestsBelow(tmpAddr))], NEW d, NEW M,
           NEW p, NEW p1, ~p1 => ~p /\ Issuable(queue, "DRAM"),
           Traffic(waitingDRAMWrite, queue, g, d, tmpAddr, inverseMap, M, p)
    PROVE  Traffic(waitingDRAMWrite', queue', g, d, tmpAddr', inverseMap', M, p1)
<1> DEFINE block == Block(line, FALSE)
<1>1. /\ block \in Blocks /\ block.line = line /\ FALSE \in BOOLEAN
      /\ NoRequest \in Requests \cup {NoRequest} /\ M \subseteq M
      /\ "DRAM_WRITE" \in {"READ", "WRITE", "DRAM_WRITE"} /\ "DRAM_WRITE" \in {"WRITE", "DRAM_WRITE"}
  BY BlockFacts DEF Block
<1>2. \A slot : DRAMWrite(slot, block) = Request("DRAM_WRITE", "DRAM", slot, block, NoRequest)
  BY DEF DRAMWrite
<1>3. CASE /\ Has(line) /\ Get(line) /\ UNCHANGED waitingDRAMWrite
           /\ queue' = Enqueued(queue, DRAMWrite(m[line], block))
  <2>1. queue' = Enqueued(queue, Request("DRAM_WRITE", "DRAM", m[line], block, NoRequest))
    BY <1>2, <1>3
  <2> HIDE DEF block
  <2> QED BY <2>1, <1>1, <1>3, GetTraffic
<1>4. CASE /\ ~Has(line) /\ ~IsFull /\ Allocate(line) /\ UNCHANGED waitingDRAMWrite
           /\ queue' = Enqueued(queue, DRAMWrite(tmpAddr, block))
  <2>1. queue' = Enqueued(queue, Request("DRAM_WRITE", "DRAM", tmpAddr, block, NoRequest))
    BY <1>2, <1>4
  <2> HIDE DEF block
  <2> QED BY <2>1, <1>1, <1>4, AllocateTraffic
<1>5. CASE ~Has(line) /\ IsFull /\ Replace(Block(line, FALSE))
  BY <1>1, <1>5, ReplacementTraffic
<1> QED
  BY <1>3, <1>4, <1>5 DEF FillCache

\* The end of an eviction, with the read of the slot at place i of the scheduled ones.
LEMMA FinishEvictionTraffic ==
    ASSUME TagsInv, IssuedInv, dram \in [Slots -> Blocks],
           NEW g \in [Channels -> Seq(RequestsBelow(tmpAddr))],
           NEW i \in FirstOfAddress(g["DRAM"]),
           NEW slot \in 0 .. tmpAddr - 1,
           g["DRAM"][i].kind = "EVICT_READ", g["DRAM"][i].addr = slot,
           FinishEviction(slot),
           NEW g1 \in [Channels -> Seq(RequestsBelow(tmpAddr))],
           g1["DRAM"] = Without(g["DRAM"], i), PlacedIn(g1), NEW M, Mapped(queue, g1, M),
           NEW p, NEW p1, ~p1 => ~p /\ Issuable(queue, "DRAM"), NEW M0,
           Settled(waitingDRAMWrite, queue["DRAM"], g["DRAM"], dram, tmpAddr, inverseMap) =>
               Settled(waitingDRAMWrite, queue["DRAM"], g1["DRAM"], dram, tmpAddr, inverseMap),
           Followed(waitingDRAMWrite, queue["DRAM"], g["DRAM"], dram) =>
               Followed(waitingDRAMWrite, queue["DRAM"], g1["DRAM"], dram),
           Traffic(waitingDRAMWrite, queue, g, dram, tmpAddr, inverseMap, M0, p)
    PROVE  Traffic(waitingDRAMWrite', queue', g1, dram, tmpAddr', inverseMap', M, p1)
<1> DEFINE R == RequestsBelow(tmpAddr)
           w == waitingDRAMWrite
           q == queue["DRAM"]
           s == g["DRAM"]
           s1 == g1["DRAM"]
           j == FirstWaiting(slot)
           e == w[j]
           write == Request("NVRAM_WRITE", "NVRAM", inverseMap[slot], dram[slot], NoRequest)
<1>1. tmpAddr \in 0 .. TagLines /\ TagLines \in Nat /\ tmpAddr \in Nat /\ slot \in Slots
  BY Constants DEF TagsInv, Slots
<1>2. /\ w \in Seq(R) /\ queue \in [Channels -> Seq(R)] /\ "DRAM" \in Channels
      /\ q \in Seq(R) /\ s \in Seq(R) /\ s1 \in Seq(R) /\ g1 \in [Channels -> Seq(R)]
      /\ i \in DOMAIN s
  BY DEF IssuedInv, Channels, FirstOfAddress
<1>3. /\ PlacedIn(queue) /\ PlacedIn(g1) /\ WaitingPlaced(w) /\ Own(w)
      /\ Paired(w, q, s) /\ (~p => Clean(w, q, s, dram, tmpAddr, inverseMap))
  BY DEF Traffic, Own, WaitingPlaced
<1>4. WaitingFor(slot) # {} /\ WaitingFor(slot) \in SUBSET Nat
  <2>1. \E k \in DOMAIN w : w[k].addr = s[i].addr
    <3>1. s[i].kind = "EVICT_READ" /\ s[i].addr \in Slots
      BY <1>1
    <3> HIDE DEF w, q, s, R
    <3> QED BY <1>2, <1>3, <3>1, ReadFindsWrite
  <2>2. DOMAIN w = 1 .. Len(w)
    BY <1>2, LenProperties
  <2> QED BY <2>1, <2>2 DEF WaitingFor
<1>5. j \in WaitingFor(slot) /\ \A k \in WaitingFor(slot) : j <= k
  BY <1>4, LeastFacts DEF FirstWaiting
<1>6. /\ queue' = Enqueued(Enqueued(queue, e), write) /\ waitingDRAMWrite' = Without(w, j)
      /\ UNCHANGED tags
  BY <1>4 DEF FinishEviction, Erased
<1>7. write \in R /\ write.channel = "NVRAM" /\ write.from = NoRequest
  <2>1. "NVRAM_WRITE" \in Kinds /\ inverseMap[slot] \in Lines /\ dram[slot] \in Blocks
    BY <1>1 DEF TagsInv, SlotsNamed, Kinds
  <2>2. write \in R
    BY <2>1, <1>1, RequestFacts
  <2> QED BY <2>2 DEF Request
<1> HIDE DEF R, write, j
<1>8. j \in FirstOfAddress(w) /\ j \in DOMAIN w /\ w[j].addr = slot
  <2>1. j \in DOMAIN w /\ w[j].addr = slot
    BY <1>5 DEF WaitingFor
  <2>2. DOMAIN w = 1 .. Len(w) /\ Len(w) \in Nat
    BY <1>2, LenProperties
  <2>3. ASSUME NEW k \in 1 .. j - 1 PROVE w[k].addr # slot
    <3>1. k \in DOMAIN w /\ ~ (j <= k)
      BY <2>1, <2>2
    <3> QED BY <1>5, <3>1 DEF WaitingFor
  <2> QED BY <2>1, <2>3 DEF FirstOfAddress
<1>9. /\ e \in R /\ e.kind = "DRAM_WRITE" /\ e.channel = "DRAM" /\ e.from = NoRequest
  <2>1. e \in R
    BY <1>2, <1>8, LenProperties, ElementOfSeq
  <2> QED BY <1>3, <1>8, <2>1 DEF WaitingPlaced
<1> DEFINE f == Enqueued(queue, e)
<1>10. /\ f \in [Channels -> Seq(R)] /\ Mapped(f, g1, M) /\ PlacedIn(f)
       /\ f["DRAM"] = IF Issuable(queue, "DRAM") THEN Append(q, e) ELSE q
  <2> HIDE DEF e
  <2>1. e.channel \in Channels
    BY <1>2, <1>9
  <2>2. f \in [Channels -> Seq(R)] /\ Put(queue, f, e.channel, e) /\ Grown(queue, f, e)
    BY <1>2, <1>9, <2>1, EnqueueGrows
  <2> HIDE DEF f
  <2>3. Mapped(f, g1, M) /\ PlacedIn(f)
    BY <1>3, <1>9, <2>2, IssueMapped, PutPlaced
  <2> QED BY <1>2, <1>9, <2>2, <2>3 DEF Grown
<1>11. WaitingPlaced(Without(w, j))
  <2>1. \A k \in DOMAIN Without(w, j) : /\ Above(k, j) \in DOMAIN w
                                        /\ Without(w, j)[k] = w[Above(k, j)]
    BY <1>2, <1>8, WithoutPlaces
  <2> QED BY <1>3, <2>1 DEF WaitingPlaced
<1> HIDE DEF w, q, s, s1, f
<1>12. /\ Paired(w, q, s) => /\ Paired(Without(w, j), q, s1)
                             /\ Paired(Without(w, j), Append(q, e), s1)
       /\ /\ Exact(w, q, s) /\ Settled(w, q, s1, dram, tmpAddr, inverseMap)
          /\ Followed(w, q, s1, dram)
          => Clean(Without(w, j), Append(q, e), s1, dram, tmpAddr, inverseMap)
  <2>1. s1 = Without(s, i) /\ w[j].addr = s[i].addr /\ s[i].kind = "EVICT_READ"
        /\ i \in FirstOfAddress(s)
    BY <1>8 DEF s, s1
  <2> QED BY <1>2, <1>3, <1>8, <2>1, EvictTraffic
<1>13. ~p => Exact(w, q, s) /\ Settled(w, q, s1, dram, tmpAddr, inverseMap)
              /\ Followed(w, q, s1, dram)
  BY <1>3 DEF Clean, w, q, s, s1
<1>14. Paired(Without(w, j), f["DRAM"], s1)
  BY <1>3, <1>10, <1>12
<1>15. ~p1 => Clean(Without(w, j), f["DRAM"], s1, dram, tmpAddr, inverseMap)
  BY <1>10, <1>12, <1>13
<1>16. Traffic(Without(w, j), f, g1, dram, tmpAddr, inverseMap, M, p1)
  BY <1>3, <1>10, <1>11, <1>14, <1>15 DEF Traffic, s1
<1>17. queue' = Enqueued(f, write)
  BY <1>6 DEF f
<1>18. Traffic(Without(w, j), queue', g1, dram, tmpAddr, inverseMap, M, p1)
  <2>1. M \subseteq M
    OBVIOUS
  <2> QED BY <1>7, <1>10, <1>16, <1>17, <2>1, MissTraffic
<1> QED BY <1>6, <1>18 DEF tags, w

-----------------------------------------------------------------------------
(* The theorem.                                                            *)

\* TrafficInv of the next state, in its parts.
NextTraffic == Traffic(waitingDRAMWrite', queue', scheduled', dram', tmpAddr', inverseMap',
                       m_request_map', pressed')

\* The start: nothing is under way and no slot is in use.
LEMMA InitTraffic == MemInit => TrafficInv
<1> SUFFICES ASSUME MemInit PROVE TrafficInv
  OBVIOUS
<1>1. /\ waitingDRAMWrite = <<>> /\ queue = [c \in Channels |-> <<>>]
      /\ scheduled = [c \in Channels |-> <<>>] /\ tmpAddr = 0 /\ "DRAM" \in Channels
  BY DEF MemInit, Init, Channels
<1>2. DOMAIN <<>> = {}
  BY EmptySeq
<1>3. \A c \in Channels : queue[c] = <<>> /\ scheduled[c] = <<>>
  BY <1>1
<1>4. /\ PlacedIn(queue) /\ PlacedIn(scheduled) /\ WaitingPlaced(waitingDRAMWrite)
      /\ Mapped(queue, scheduled, m_request_map)
  BY <1>1, <1>2, <1>3 DEF PlacedIn, WaitingPlaced, Mapped, InMap, Apart, Disjoint
<1>5. \A slot : Reads(<<>>, slot) = 0 /\ Waits(<<>>, slot) = 0
  <2>1. \A kind, slot : PlacesOf(<<>>, kind, slot) = {}
    BY <1>2 DEF PlacesOf
  <2> QED BY <2>1, FS_EmptySet DEF Reads, Waits
<1>6. Paired(<<>>, <<>>, <<>>) /\ Exact(<<>>, <<>>, <<>>)
  BY <1>5 DEF Paired, Exact
<1>7. Settled(<<>>, <<>>, <<>>, dram, 0, inverseMap)
  BY Constants DEF Settled
<1>8. Followed(<<>>, <<>>, <<>>, dram)
  BY <1>2 DEF Followed
<1>9. Traffic(waitingDRAMWrite, queue, scheduled, dram, tmpAddr, inverseMap, m_request_map,
              pressed)
  BY <1>1, <1>3, <1>4, <1>6, <1>7, <1>8 DEF Traffic, Clean
<1> QED
  BY <1>9, InitInv, TrafficParts

\* A client's request, accepted or refused.
LEMMA RecvTimingReqTraffic ==
    ASSUME IndInv, TrafficInv, NEW r \in Requests, NEW type \in {"READ", "WRITE"},
           NEW line \in Lines, RecvTimingReq(r, type, line)
    PROVE  NextTraffic
<1>0. /\ TagsInv /\ IssuedInv /\ scheduled \in [Channels -> Seq(RequestsBelow(tmpAddr))]
      /\ Traffic(waitingDRAMWrite, queue, scheduled, dram, tmpAddr, inverseMap, m_request_map,
                 pressed)
  BY IndInvParts, TrafficParts
<1>1. CASE Accept(r, type, line)
  <2>1. IssueCommand(r, type, line) /\ UNCHANGED <<scheduled, dram>>
    BY <1>1 DEF Accept, IssueCommand
  <2>2. /\ m_request_map \subseteq m_request_map'
        /\ r \in m_request_map' \ m_request_map
    BY <1>1 DEF RecvTimingReq, Accept, Entered
  <2>3. ~pressed' => ~pressed /\ Issuable(queue, "DRAM")
    BY <1>1 DEF Accept, Press, Channels
  <2>4. Traffic(waitingDRAMWrite', queue', scheduled, dram, tmpAddr', inverseMap',
                m_request_map', pressed')
    BY <1>0, <2>1, <2>2, <2>3, IssueCommandTraffic
  <2> QED BY <2>1, <2>4 DEF NextTraffic
<1>2. CASE Refuse(type)
  <2>1. UNCHANGED <<vars, m_request_map, pressed>>
    BY <1>2 DEF Refuse
  <2> QED BY <1>0, <2>1 DEF vars, tags, NextTraffic
<1> QED
  BY <1>1, <1>2 DEF RecvTimingReq

\* A controller takes a transaction out of its queue.
LEMMA MemScheduleTraffic ==
    ASSUME IndInv, TrafficInv, NEW channel \in Channels, MemSchedule(channel)
    PROVE  NextTraffic
<1> DEFINE R == RequestsBelow(tmpAddr)
           w == waitingDRAMWrite
           q == queue["DRAM"]
           s == scheduled["DRAM"]
<1>0. /\ w \in Seq(R) /\ queue \in [Channels -> Seq(R)] /\ scheduled \in [Channels -> Seq(R)]
      /\ "DRAM" \in Channels /\ q \in Seq(R) /\ s \in Seq(R)
  BY DEF IndInv, TypeOK, CacheTypeOK, Channels
<1>1. Traffic(w, queue, scheduled, dram, tmpAddr, inverseMap, m_request_map, pressed)
  BY TrafficParts
<1>2. PICK i \in FirstOfAddress(queue[channel]) :
          /\ queue' = [queue EXCEPT ![channel] = Without(@, i)]
          /\ scheduled' = [scheduled EXCEPT ![channel] = Append(@, queue[channel][i])]
  BY DEF MemSchedule, Schedule
<1> DEFINE e == queue[channel][i]
<1>3. i \in DOMAIN queue[channel] /\ e \in R /\ e.channel = channel
  <2>1. i \in DOMAIN queue[channel] /\ queue[channel] \in Seq(R)
    BY <1>0 DEF FirstOfAddress
  <2>2. e \in R
    <3> DEFINE list == queue[channel]
    <3> HIDE DEF list, R
    <3>1. list \in Seq(R) /\ i \in DOMAIN list
      BY <2>1 DEF list
    <3>2. list[i] \in R
      BY <3>1, LenProperties, ElementOfSeq
    <3> QED BY <3>2 DEF list
  <2> QED BY <1>1, <2>1, <2>2 DEF Traffic, PlacedIn
<1> HIDE DEF R
<1>4. queue' \in [Channels -> Seq(R)] /\ Taken(queue, queue', channel, i)
  BY <1>0, <1>2, <1>3, TakeFacts
<1>5. Put(scheduled, scheduled', channel, e)
  <2> HIDE DEF e
  <2>1. scheduled' = [scheduled EXCEPT ![channel] = Append(@, e)]
    BY <1>2 DEF e
  <2> QED BY <1>0, <1>3, <2>1, PutFacts, Zenon
<1>6. UNCHANGED <<tags, waitingDRAMWrite, dram, memVars, pressed>>
  BY DEF MemSchedule, Schedule
<1>7. /\ PlacedIn(queue) /\ PlacedIn(scheduled) /\ WaitingPlaced(w)
      /\ Mapped(queue, scheduled, m_request_map)
      /\ Paired(w, q, s) /\ (~pressed => Clean(w, q, s, dram, tmpAddr, inverseMap))
  BY <1>1 DEF Traffic
<1>8. Mapped(queue', scheduled', m_request_map)
  BY <1>3, <1>4, <1>5, <1>7, ScheduleMapped
<1>9. PlacedIn(queue') /\ PlacedIn(scheduled')
  <2>1. PlacedIn(queue')
    BY <1>4, <1>7 DEF Taken, PlacedIn
  <2>2. PlacedIn(scheduled')
    BY <1>3, <1>5, <1>7 DEF Put, PlacedIn
  <2> QED BY <2>1, <2>2
<1>10. /\ Paired(w, queue'["DRAM"], scheduled'["DRAM"])
       /\ ~pressed => Clean(w, queue'["DRAM"], scheduled'["DRAM"], dram, tmpAddr, inverseMap)
  <2>1. CASE channel = "DRAM"
    <3>1. /\ queue'["DRAM"] = Without(q, i) /\ scheduled'["DRAM"] = Append(s, q[i])
          /\ i \in FirstOfAddress(q)
      BY <1>0, <1>2, <2>1
    <3> HIDE DEF w, q, s
    <3> QED BY <1>0, <1>7, <3>1, ScheduleTraffic
  <2>2. CASE channel # "DRAM"
    <3>1. queue'["DRAM"] = q /\ scheduled'["DRAM"] = s
      BY <1>0, <1>2, <2>2
    <3> QED BY <1>7, <3>1
  <2> QED BY <2>1, <2>2
<1> QED BY <1>6, <1>7, <1>8, <1>9, <1>10 DEF tags, memVars, NextTraffic, Traffic

\* A request completes.
LEMMA CompleteTraffic ==
    ASSUME IndInv, TrafficInv, NEW channel \in Channels, NEW i, CompleteRequest(channel, i)
    PROVE  NextTraffic
<1> DEFINE request == scheduled[channel][i]
           R == RequestsBelow(tmpAddr)
           w == waitingDRAMWrite
           q == queue["DRAM"]
           s == scheduled["DRAM"]
           A == 0 .. tmpAddr - 1
<1>0. /\ TagsInv /\ IssuedInv /\ dram \in [Slots -> Blocks]
      /\ w \in Seq(R) /\ queue \in [Channels -> Seq(R)] /\ scheduled \in [Channels -> Seq(R)]
      /\ "DRAM" \in Channels /\ "NVRAM" \in Channels
  BY IndInvParts DEF IssuedInv, Channels
<1>1. /\ tmpAddr \in 0 .. TagLines /\ tmpAddr \in Nat /\ TagLines \in Nat
      /\ A \subseteq Slots /\ \A slot \in Slots : slot < tmpAddr => slot \in A
  BY <1>0, Constants DEF TagsInv, Slots
<1>2. Traffic(w, queue, scheduled, dram, tmpAddr, inverseMap, m_request_map, pressed)
  BY TrafficParts
<1>3. /\ PlacedIn(queue) /\ PlacedIn(scheduled) /\ WaitingPlaced(w)
      /\ Mapped(queue, scheduled, m_request_map)
      /\ Paired(w, q, s) /\ (~pressed => Clean(w, q, s, dram, tmpAddr, inverseMap))
  BY <1>2 DEF Traffic
<1>4. /\ i \in FirstOfAddress(scheduled[channel]) /\ i \in DOMAIN scheduled[channel]
      /\ scheduled' = [scheduled EXCEPT ![channel] = Without(@, i)]
      /\ dram' = Stored(request) /\ RequestComplete(request)
      /\ ~pressed' => ~pressed /\ Issuable(queue, "DRAM")
  BY <1>0 DEF CompleteRequest, Complete, FirstOfAddress, Press
<1>5. request \in R /\ request.channel = channel
  BY <1>0, <1>1, <1>3, <1>4, ListFacts DEF PlacedIn
<1>6. /\ \A k \in DOMAIN q : q[k].addr \in A
      /\ \A k \in DOMAIN s : s[k].addr \in A
  <2>1. ASSUME NEW e \in R, e.channel = "DRAM" PROVE e.addr \in A
    BY <2>1 DEF RequestsBelow
  <2>2. /\ \A k \in DOMAIN q : q[k] \in R /\ q[k].channel = "DRAM"
        /\ \A k \in DOMAIN s : s[k] \in R /\ s[k].channel = "DRAM"
    BY <1>0, <1>1, <1>3, ListFacts DEF PlacedIn
  <2> QED BY <2>1, <2>2
<1>7. \/ m_request_map' = m_request_map
      \/ m_request_map' = m_request_map \ {request.from} /\ request.from # NoRequest
  BY DEF CompleteRequest, HandedOn, Answer, memVars
<1>8. scheduled' \in [Channels -> Seq(R)] /\ Taken(scheduled, scheduled', channel, i)
  <2> HIDE DEF R
  <2> QED BY <1>0, <1>4, TakeFacts
<1>9. Mapped(queue, scheduled', m_request_map')
  BY <1>3, <1>4, <1>7, <1>8, ServeMapped
<1>10. PlacedIn(scheduled')
  BY <1>3, <1>8 DEF Taken, PlacedIn
<1>11. NothingToDo => UNCHANGED <<waitingDRAMWrite, queue, tmpAddr, inverseMap>>
  BY DEF NothingToDo, tags
<1>12. CASE channel = "NVRAM"
  <2>1. request.kind \in {"READ", "NVRAM_WRITE"} /\ request.addr \in Lines
    BY <1>5, <1>12 DEF RequestsBelow
  <2>2. dram' = dram /\ scheduled'["DRAM"] = s
    BY <1>0, <1>4, <1>12, <2>1 DEF Stored
  <2>3. Traffic(w, queue, scheduled', dram', tmpAddr, inverseMap, m_request_map', pressed)
    BY <1>3, <1>9, <1>10, <2>2 DEF Traffic
  <2>4. CASE FillCache(request.addr)
    <3> HIDE DEF request
    <3> QED BY <1>0, <1>4, <1>8, <2>1, <2>3, <2>4, FillCacheTraffic DEF NextTraffic
  <2>5. CASE NothingToDo
    <3>1. Traffic(w, queue, scheduled', dram', tmpAddr, inverseMap, m_request_map', pressed')
      BY <1>4, <2>3, TrafficWeaken
    <3> QED BY <1>11, <2>5, <3>1 DEF NextTraffic
  <2> QED BY <1>4, <2>1, <2>4, <2>5 DEF RequestComplete
<1>13. CASE channel = "DRAM"
  <2>1. i \in FirstOfAddress(s) /\ request = s[i] /\ scheduled'["DRAM"] = Without(s, i)
    BY <1>0, <1>4, <1>13
  <2>2. request.addr \in A /\ request.block \in Blocks
    BY <1>4, <1>5, <1>6, <1>13 DEF RequestsBelow
  <2>3. \A slot \in A : After(request, dram, dram', slot)
    <3> SUFFICES ASSUME NEW slot \in A PROVE After(request, dram, dram', slot)
      OBVIOUS
    <3>1. CASE request.kind \in {"WRITE", "DRAM_WRITE"}
      <4>1. dram' = [dram EXCEPT ![request.addr] = request.block]
        BY <1>4, <3>1 DEF Stored
      <4> HIDE DEF request, A
      <4> QED BY <1>0, <1>1, <2>2, <3>1, <4>1 DEF After, Writes
    <3>2. CASE ~ (request.kind \in {"WRITE", "DRAM_WRITE"})
      <4>1. dram' = dram
        BY <1>4, <3>2 DEF Stored
      <4> HIDE DEF request, A
      <4> QED BY <3>2, <4>1 DEF After, Writes
    <3> QED BY <3>1, <3>2
  <2>4. /\ Paired(w, q, s) => Paired(w, q, Without(s, i))
        /\ Settled(w, q, s, dram, tmpAddr, inverseMap)
             => Settled(w, q, Without(s, i), dram', tmpAddr, inverseMap)
        /\ Followed(w, q, s, dram) => Followed(w, q, Without(s, i), dram')
        /\ s[i].kind # "EVICT_READ" /\ Exact(w, q, s) => Exact(w, q, Without(s, i))
    <3>1. q \in Seq(R) /\ s \in Seq(R) /\ \A slot \in A : After(s[i], dram, dram', slot)
      BY <1>0, <2>1, <2>3
    <3> HIDE DEF w, q, s, R, A, request
    <3> QED BY <1>0, <1>1, <1>6, <2>1, <3>1, ServeTraffic
  <2>5. CASE request.kind # "EVICT_READ" /\ NothingToDo
    <3>1. Traffic(w, queue, scheduled', dram', tmpAddr, inverseMap, m_request_map', pressed)
      <4>1. Paired(w, q, Without(s, i))
        BY <1>3, <2>4
      <4>2. ~pressed => Clean(w, q, Without(s, i), dram', tmpAddr, inverseMap)
        BY <1>3, <2>1, <2>4, <2>5 DEF Clean
      <4> QED BY <1>3, <1>9, <1>10, <2>1, <4>1, <4>2 DEF Traffic
    <3>2. Traffic(w, queue, scheduled', dram', tmpAddr, inverseMap, m_request_map', pressed')
      BY <1>4, <3>1, TrafficWeaken
    <3> QED BY <1>11, <2>5, <3>2 DEF NextTraffic
  <2>6. CASE request.kind = "EVICT_READ" /\ FinishEviction(request.addr)
    <3>1. dram' = dram
      BY <1>4, <2>6 DEF Stored
    <3>2. /\ s[i].kind = "EVICT_READ" /\ s[i].addr = request.addr
          /\ FinishEviction(request.addr) /\ request.addr \in 0 .. tmpAddr - 1
          /\ i \in FirstOfAddress(scheduled["DRAM"])
          /\ scheduled'["DRAM"] = Without(scheduled["DRAM"], i)
      BY <2>1, <2>2, <2>6
    <3>3. /\ Settled(w, q, s, dram, tmpAddr, inverseMap)
               => Settled(w, q, scheduled'["DRAM"], dram, tmpAddr, inverseMap)
          /\ Followed(w, q, s, dram) => Followed(w, q, scheduled'["DRAM"], dram)
      BY <2>1, <2>4, <3>1
    <3> HIDE DEF request
    <3>4. Traffic(waitingDRAMWrite', queue', scheduled', dram, tmpAddr', inverseMap',
                  m_request_map', pressed')
      BY <1>0, <1>2, <1>4, <1>8, <1>9, <1>10, <3>2, <3>3, FinishEvictionTraffic
    <3> QED BY <3>1, <3>4 DEF NextTraffic
  <2>7. request.channel = "DRAM"
    BY <1>5, <1>13
  <2> QED BY <1>4, <2>5, <2>6, <2>7 DEF RequestComplete
<1> QED BY <1>12, <1>13 DEF Channels

\* Every step preserves the invariant.
LEMMA NextTrafficInv == IndInv /\ TrafficInv /\ [Next]_allVars => TrafficInv'
<1> SUFFICES ASSUME IndInv, TrafficInv, [Next]_allVars PROVE TrafficInv'
  OBVIOUS
<1>1. ASSUME NEW r \in Requests, NEW type \in {"READ", "WRITE"}, NEW line \in Lines,
             RecvTimingReq(r, type, line)
      PROVE  NextTraffic
  BY <1>1, RecvTimingReqTraffic
<1>2. ASSUME NEW channel \in Channels, MemSchedule(channel)
      PROVE  NextTraffic
  BY <1>2, MemScheduleTraffic
<1>3. ASSUME NEW channel \in Channels, NEW i \in 1 .. Len(scheduled[channel]),
             CompleteRequest(channel, i)
      PROVE  NextTraffic
  BY <1>3, CompleteTraffic
<1>4. ASSUME UNCHANGED allVars PROVE NextTraffic
  <2>1. Traffic(waitingDRAMWrite, queue, scheduled, dram, tmpAddr, inverseMap, m_request_map,
                pressed)
    BY TrafficParts
  <2>2. UNCHANGED <<waitingDRAMWrite, queue, scheduled, dram, tmpAddr, inverseMap,
                    m_request_map, pressed>>
    BY <1>4 DEF allVars, vars, tags, memVars
  <2> QED BY <2>1, <2>2 DEF NextTraffic
<1>5. NextTraffic
  <2>1. CASE Next
    BY <1>1, <1>2, <1>3, <2>1 DEF Next
  <2> QED BY <1>4, <2>1
<1>6. IndInv'
  BY NextInv
<1>7. IndInv' => (TrafficInv' <=> NextTraffic)
  <2>1. IndInv' => (TrafficInv' <=> Traffic(waitingDRAMWrite, queue, scheduled, dram, tmpAddr,
                                            inverseMap, m_request_map, pressed)')
    BY TrafficParts, PTL
  <2> QED BY <2>1 DEF NextTraffic
<1> QED BY <1>5, <1>6, <1>7

\* The inductive invariant: every client's request is under way once, every read of an
\* eviction is paired, and, while no request was dropped, the last write on its way to a
\* slot is one of the line that the tags name.
THEOREM TrafficConsistent == Spec => [](IndInv /\ TrafficInv)
<1>1. MemInit => IndInv /\ TrafficInv
  BY InitInv, InitTraffic
<1>2. IndInv /\ TrafficInv /\ [Next]_allVars => IndInv' /\ TrafficInv'
  BY NextInv, NextTrafficInv
<1> QED
  BY <1>1, <1>2, PTL DEF Spec

\* The types of the state (nvmain.cpp, nvmain_mem.cc).
THEOREM MemoryTypes == Spec => []TypeOK
<1>1. IndInv => TypeOK
  BY DEF IndInv
<1> QED
  BY <1>1, CacheConsistent, PTL

\* The assertion at the head of NVMainMemory::RequestComplete holds, and no request of
\* a client completes twice.
THEOREM RequestsAlwaysMapped == Spec => []RequestsMapped
<1>1. TrafficInv => RequestsMapped
  BY DEF TrafficInv
<1> QED
  BY <1>1, TrafficConsistent, PTL

\* The block that is read out of a slot for an eviction always finds the write that waits
\* for it in waitingDRAMWrite, whatever the full queues dropped (NVMain::RequestComplete).
THEOREM EvictionsAlwaysPaired == Spec => []EvictionsPaired
<1>1. TrafficInv => EvictionsPaired
  BY DEF TrafficInv
<1> QED
  BY <1>1, TrafficConsistent, PTL

\* Where nothing is under way, nothing waits: a write waits for a read that is.
LEMMA NothingWaits ==
    ASSUME IndInv, RequestsPlaced, EvictionsExact,
           \A c \in Channels : queue[c] = <<>> /\ scheduled[c] = <<>>
    PROVE  DOMAIN waitingDRAMWrite = {}
<1> DEFINE w == waitingDRAMWrite
           R == RequestsBelow(tmpAddr)
<1> SUFFICES ASSUME NEW i \in DOMAIN w PROVE FALSE
  OBVIOUS
<1>1. w \in Seq(R) /\ tmpAddr \in Nat /\ tmpAddr \in 0 .. TagLines /\ "DRAM" \in Channels
  BY Constants DEF IndInv, TypeOK, CacheTypeOK, Channels
<1>2. w[i] \in R
  BY <1>1, ListFacts
<1>3. w[i].kind = "DRAM_WRITE" /\ w[i].channel = "DRAM"
  BY DEF RequestsPlaced
<1>4. w[i].addr \in 0 .. tmpAddr - 1
  BY <1>2, <1>3 DEF RequestsBelow
<1> DEFINE slot == w[i].addr
           P == PlacesOf(w, "DRAM_WRITE", slot)
<1>5. slot \in Slots
  BY <1>1, <1>4, Constants DEF Slots
<1>6. \A kind : PlacesOf(<<>>, kind, slot) = {}
  BY EmptySeq DEF PlacesOf
<1>7. Cardinality({}) = 0
  BY FS_EmptySet
<1>8. Cardinality(P) = 0
  <2>1. /\ Cardinality(PlacesOf(queue["DRAM"], "EVICT_READ", slot)) = 0
        /\ Cardinality(PlacesOf(scheduled["DRAM"], "EVICT_READ", slot)) = 0
    BY <1>1, <1>6, <1>7
  <2> QED BY <1>5, <2>1 DEF EvictionsExact
<1>9. IsFiniteSet(P)
  <2> HIDE DEF R
  <2> QED BY <1>1, PlacesFinite
<1>10. P = {}
  <2> HIDE DEF P
  <2> QED BY <1>8, <1>9, FS_EmptySet
<1> QED BY <1>3, <1>10 DEF PlacesOf

\* However fills, writes and evictions of a slot overlapped, the slot of each cached line
\* ends up with a block of that line, as long as no request was dropped
\* (NVMain::IssueCommand and RequestComplete).
THEOREM SlotsAlwaysSettle == Spec => []SettlesUnlessPressed
<1>1. IndInv /\ TrafficInv => SettlesUnlessPressed
  <2> SUFFICES ASSUME IndInv, TrafficInv, ~pressed,
                      \A c \in Channels : queue[c] = <<>> /\ scheduled[c] = <<>>,
                      NEW l \in Lines, Has(l)
               PROVE  dram[m[l]].line = l
    BY DEF SettlesUnlessPressed, CacheSettles
  <2>1. EvictionsExact /\ SlotsSettle /\ RequestsPlaced
    BY DEF TrafficInv
  <2>2. m[l] \in Slots /\ m[l] < tmpAddr /\ inverseMap[m[l]] = l
    BY DEF IndInv, TypeOK, CacheTypeOK, TagsConsistent, Has
  <2>3. FindsAfterAll(m[l], l)
    BY <2>1, <2>2 DEF SlotsSettle
  <2>4. DOMAIN waitingDRAMWrite = {} /\ DOMAIN queue["DRAM"] = {} /\ DOMAIN scheduled["DRAM"] = {}
    BY <2>1, NothingWaits, EmptySeq DEF Channels
  <2>5. /\ WritesTo(waitingDRAMWrite, m[l]) = {} /\ WritesTo(queue["DRAM"], m[l]) = {}
        /\ WritesTo(scheduled["DRAM"], m[l]) = {}
    BY <2>4 DEF WritesTo
  <2>6. FindsQueued(Len(queue["DRAM"]) + 1, m[l], l)
    BY <2>3, <2>5, FindsNone DEF FindsAfterAll
  <2>7. FindsScheduled(Len(scheduled["DRAM"]) + 1, m[l], l)
    BY <2>5, <2>6, FindsNone DEF FindsQueued
  <2> QED BY <2>5, <2>7, FindsNone DEF FindsScheduled
<1> QED
  BY <1>1, TrafficConsistent, PTL

\* A hit that finds another line in its slot is overtaken by a write of the line that it
\* asked for, as long as no request was dropped (NVMain::IssueCommand, a hit).
THEOREM StaleHitsAlwaysOvertaken == Spec => []OvertakenUnlessPressed
<1>1. IndInv /\ TrafficInv => OvertakenUnlessPressed
  <2> DEFINE s == scheduled["DRAM"]
  <2> SUFFICES ASSUME IndInv, TrafficInv, ~pressed, NEW i \in FirstOfAddress(s),
                      s[i].kind = "READ", dram[s[i].addr].line # s[i].block.line
               PROVE  \E list \in {waitingDRAMWrite, queue["DRAM"], s} :
                          \E j \in PlacesOf(list, "DRAM_WRITE", s[i].addr) :
                              list[j].block.line = s[i].block.line
    BY DEF OvertakenUnlessPressed, StaleHitsOvertaken
  <2>1. HitsFollowed /\ i \in DOMAIN s
    BY DEF TrafficInv, FirstOfAddress
  <2>2. s \in Seq(RequestsBelow(tmpAddr))
    BY DEF IndInv, TypeOK, CacheTypeOK, Channels
  <2>3. ~FindsScheduled(i, s[i].addr, s[i].block.line)
    BY <2>2, FindsFirst DEF FindsScheduled
  <2>4. \/ OnItsWay(s, i, s[i].addr, s[i].block.line)
        \/ OnItsWay(queue["DRAM"], 0, s[i].addr, s[i].block.line)
        \/ OnItsWay(waitingDRAMWrite, 0, s[i].addr, s[i].block.line)
    BY <2>1, <2>3 DEF HitsFollowed
  <2> QED BY <2>4 DEF OnItsWay
<1> QED
  BY <1>1, TrafficConsistent, PTL
=============================================================================
