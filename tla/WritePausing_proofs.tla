------------------------- MODULE WritePausing_proofs -------------------------
(***************************************************************************)
(* The inductive invariant of WritePausing, for every number of requests   *)
(* and rows, every mode and threshold and all the times of the subarray.   *)
(***************************************************************************)
EXTENDS WritePausing, FiniteSetTheorems, WellFoundedInduction, TLAPS

-----------------------------------------------------------------------------
(* GreatestOf.                                                              *)

\* A set of naturals has a least element.
LEMMA LeastExists ==
    ASSUME NEW T, T \subseteq Nat, T # {}
    PROVE  \E x \in T : \A y \in T : x <= y
<1> DEFINE R == OpToRel(<, Nat)
<1>1. IsWellFoundedOn(R, Nat)
  BY NatLessThanWellFounded
<1>2. \A a, b \in Nat : a < b => <<a, b>> \in R
  BY DEF OpToRel
<1> HIDE DEF R
<1>3. PICK x \in T : \A y \in T : ~(<<y, x>> \in R)
  BY <1>1, WFMin
<1>4. ASSUME NEW y \in T PROVE x <= y
  <2>1. x \in Nat /\ y \in Nat /\ ~(y < x)
    BY <1>2, <1>3
  <2> QED
    BY <2>1
<1> QED
  BY <1>3, <1>4

\* A bounded one has a greatest element, which GreatestOf returns.
LEMMA GreatestExists ==
    ASSUME NEW S, NEW b \in Nat, S \subseteq 0 .. b, S # {}
    PROVE  GreatestOf(S) \in S
<1> DEFINE T == {b - s : s \in S}
<1>1. \A s \in S : s \in Nat /\ b - s \in Nat
  OBVIOUS
<1>2. T \subseteq Nat /\ T # {}
  BY <1>1, Zenon
<1>3. PICK x \in T : \A y \in T : x <= y
  <2> HIDE DEF T
  <2> QED
    BY <1>2, LeastExists
<1>4. PICK n \in S : x = b - n
  OBVIOUS
<1>5. ASSUME NEW k \in S PROVE n >= k
  <2>1. b - n <= b - k
    BY <1>3, <1>4
  <2> QED
    BY <1>1, <2>1
<1>6. \E m \in S : \A k \in S : m >= k
  BY <1>5
<1> QED
  BY <1>6, Zenon DEF GreatestOf

\* Of two naturals it is the greater one.
LEMMA GreatestOfTwo ==
    ASSUME NEW a \in Nat, NEW b \in Nat
    PROVE  GreatestOf({a, b}) \in Nat /\ GreatestOf({a, b}) >= a /\ GreatestOf({a, b}) >= b
<1>1. \E n \in {a, b} : \A k \in {a, b} : n >= k
  <2>1. CASE a >= b
    BY <2>1
  <2>2. CASE b >= a
    BY <2>2
  <2> QED
    BY <2>1, <2>2
<1>2. GreatestOf({a, b}) \in {a, b} /\ \A k \in {a, b} : GreatestOf({a, b}) >= k
  BY <1>1, Zenon DEF GreatestOf
<1> QED
  BY <1>2

-----------------------------------------------------------------------------
(* The command queue.                                                       *)

\* The column commands of the queues that occur.
LEMMA LoadedIn ==
    /\ \A r : ~Loaded(<<>>, r)
    /\ \A r, s : Loaded(<<ColumnOf(s)>>, r) <=> r = s
    /\ \A r, s, i, p : Loaded(<<Command("ACTIVATE", s, i, p), ColumnOf(s)>>, r) <=> r = s
<1>1. \A r : ~Loaded(<<>>, r)
  BY DEF Loaded
<1>2. ASSUME NEW r, NEW s
      PROVE  Loaded(<<ColumnOf(s)>>, r) <=> r = s
  <2> DEFINE q == <<ColumnOf(s)>>
  <2>1. DOMAIN q = {1} /\ q[1] = ColumnOf(s)
    OBVIOUS
  <2>2. ColumnOf(s) = ColumnOf(r) <=> r = s
    BY DEF Command, ColumnOf
  <2> QED
    BY <2>1, <2>2 DEF Loaded
<1>3. ASSUME NEW r, NEW s, NEW i, NEW p
      PROVE  Loaded(<<Command("ACTIVATE", s, i, p), ColumnOf(s)>>, r) <=> r = s
  <2> DEFINE q == <<Command("ACTIVATE", s, i, p), ColumnOf(s)>>
  <2>1. DOMAIN q = {1, 2} /\ q[1] = Command("ACTIVATE", s, i, p) /\ q[2] = ColumnOf(s)
    OBVIOUS
  <2>2. Command("ACTIVATE", s, i, p) # ColumnOf(r) /\ (ColumnOf(s) = ColumnOf(r) <=> r = s)
    BY DEF Command, ColumnOf
  <2> QED
    BY <2>1, <2>2 DEF Loaded
<1> QED
  BY <1>1, <1>2, <1>3

\* Their types and lengths.
LEMMA ShapeTypes ==
    ASSUME NEW cq, QueueShape(cq)
    PROVE  cq \in Seq(Commands) /\ Len(cq) <= 2
<1>1. \A r \in Requests : ColumnOf(r) \in Commands
  BY DEF ColumnOf, Command, Commands
<1>2. \A r \in Requests, i \in BOOLEAN, p \in BOOLEAN : Command("ACTIVATE", r, i, p) \in Commands
  BY DEF Command, Commands
<1>3. CASE cq = <<>>
  BY <1>3
<1>4. ASSUME NEW r \in Requests, cq = <<ColumnOf(r)>>
      PROVE  cq \in Seq(Commands) /\ Len(cq) <= 2
  BY <1>1, <1>4
<1>5. ASSUME NEW r \in Requests, NEW i \in BOOLEAN, NEW p \in BOOLEAN,
             cq = <<Command("ACTIVATE", r, i, p), ColumnOf(r)>>
      PROVE  cq \in Seq(Commands) /\ Len(cq) <= 2
  BY <1>1, <1>2, <1>5
<1> QED
  BY <1>3, <1>4, <1>5 DEF QueueShape

\* A queue that is not empty is of one of two kinds.
LEMMA HeadCases ==
    ASSUME NEW cq, QueueShape(cq), cq # <<>>
    PROVE  \E r \in Requests :
            /\ Loaded(cq, r) /\ \A s : Loaded(cq, s) => s = r
            /\ \/ cq = <<ColumnOf(r)>> /\ Len(cq) = 1 /\ Head(cq) = ColumnOf(r)
               \/ \E i \in BOOLEAN, p \in BOOLEAN :
                    /\ cq = <<Command("ACTIVATE", r, i, p), ColumnOf(r)>>
                    /\ Len(cq) = 2 /\ Head(cq) = Command("ACTIVATE", r, i, p)
<1>1. \A c, d : /\ Len(<<c>>) = 1 /\ Head(<<c>>) = c
                /\ Len(<<c, d>>) = 2 /\ Head(<<c, d>>) = c
  OBVIOUS
<1> QED
  BY <1>1, LoadedIn DEF QueueShape

\* The places of a request are where it waits, is queued or is answered.
LEMMA PlacesFacts ==
    QueueShape(commandQueue) =>
        \A r \in Requests :
            Places(r) # {} <=> r \in transactionQueue \/ Loaded(commandQueue, r) \/ Answering(r)
<1> SUFFICES ASSUME QueueShape(commandQueue), NEW r \in Requests
             PROVE  Places(r) # {} <=>
                        r \in transactionQueue \/ Loaded(commandQueue, r) \/ Answering(r)
  OBVIOUS
<1>1. \A i \in DOMAIN commandQueue :
        commandQueue[i].type = "COLUMN" /\ commandQueue[i].request = r
            <=> commandQueue[i] = ColumnOf(r)
  BY DEF QueueShape, ColumnOf, Command
<1>2. {<<"responses", x.in>> : x \in {y \in responses : y.request = r}} # {} <=> Answering(r)
  BY DEF Answering
<1>3. ~Answering(r) =>
        ({<<"commandQueue", i>> : i \in {j \in DOMAIN commandQueue :
            LET c == commandQueue[j]
            IN  c.type = "COLUMN" /\ c.request = r /\ \A x \in responses : x.request # r}} # {}
         <=> Loaded(commandQueue, r))
  BY <1>1 DEF Answering, Loaded
<1> QED
  BY <1>2, <1>3 DEF Places

-----------------------------------------------------------------------------
(* Issuing a command: the subarray.                                         *)

RequestTypes ==
    /\ flags \in [Writes -> {"none", "PAUSED", "CANCELLED"}]
    /\ progress \in [Writes -> 0 .. WriteTime]
    /\ cancellations \in [Writes -> 0 .. MaxCancellations]
    /\ forced \in SUBSET Writes

SubArrayTypes ==
    /\ responses \in SUBSET [request : Requests, in : Nat]
    /\ isWriting \in BOOLEAN /\ writeRequest \in Requests \cup {NoRequest}
    /\ writeAge \in Nat /\ writeTimer \in 0 .. WriteTime
    /\ nextRead \in Nat /\ nextWrite \in Nat
    /\ nextPreWrite \in [read : Nat, write : Nat]

\* The state in which the subarray gets a command.
SubArrayInv ==
    /\ RequestTypes /\ SubArrayTypes
    /\ OneAnswer /\ WriteEventKnown /\ ForcedInTime

\* No answer is due, and none is that of an interrupted write.
NoneDue == \A x \in responses : x.in > 0 /\ ~Interrupted(x.request)

\* A paused write needs no more than what it had left.
LEMMA RemainingBound ==
    ASSUME SubArrayTypes, Remaining >= 0
    PROVE  Remaining \in 0 .. WriteTime
<1>1. writeTimer \in 0 .. WriteTime /\ writeAge \in Nat /\ WriteTime \in Nat
  BY TimesAssumption DEF SubArrayTypes
<1>2. CASE PauseMode = "Optimal"
  BY <1>1, <1>2 DEF Remaining
<1>3. CASE PauseMode # "Optimal"
  <2> DEFINE S == {s \in IterationStarts : s <= writeAge}
  <2>1. S \subseteq 0 .. WriteTime /\ 0 \in S
    <3>1. IterationStarts \subseteq 0 .. WriteTime /\ 0 \in IterationStarts
      BY TimesAssumption, Zenon
    <3>2. 0 <= writeAge
      BY <1>1
    <3> QED
      BY <3>1, <3>2, Zenon
  <2>2. GreatestOf(S) \in S
    <3> HIDE DEF S
    <3> QED
      BY <1>1, <2>1, GreatestExists
  <2>3. GreatestOf(S) \in 0 .. WriteTime
    BY <2>1, <2>2
  <2>4. Remaining = writeTimer - GreatestOf(S)
    BY <1>3 DEF Remaining
  <2> HIDE DEF S
  <2> QED
    BY <1>1, <2>3, <2>4
<1> QED
  BY <1>2, <1>3

\* A response.
LEMMA ResponseFacts ==
    \A r, n : /\ Response(r, n).request = r /\ Response(r, n).in = n
              /\ (r \in Requests /\ n \in Nat => Response(r, n) \in [request : Requests, in : Nat])
  BY DEF Response

\* CheckWritePausing replaces the answer to the write under way by one that comes in the
\* next cycle, and marks the write.
LEMMA InterruptFacts ==
    ASSUME SubArrayInv, NoneDue, isWriting, writeRequest \notin forced,
           lastIssueCycle = "past", CheckWritePausing({})
    PROVE  /\ writeRequest \in Writes
           /\ responses' = {x \in responses : x.request # writeRequest}
                                \cup {Response(writeRequest, 1)}
           /\ RequestTypes' /\ ForcedInTime'
           /\ \A w \in Writes \ {writeRequest} : flags'[w] = flags[w]
<1>1. PICK x \in responses :
        x.request = writeRequest /\ x.in = writeTimer + tCWD + tBURST - writeAge
  BY DEF SubArrayInv, WriteEventKnown, NoneDue
<1>2. writeRequest \in Writes
  BY DEF SubArrayInv, WriteEventKnown
<1>3. x = Response(writeRequest, writeTimer + tCWD + tBURST - writeAge)
  <2>1. x \in [request : Requests, in : Nat]
    BY <1>1 DEF SubArrayInv, SubArrayTypes
  <2> QED
    BY <1>1, <2>1 DEF Response
<1>4. RemovesWriteEvent = {y \in responses : y.request # writeRequest}
  <2>1. RemovesWriteEvent = responses \ {x}
    BY <1>3 DEF RemovesWriteEvent
  <2>2. \A y \in responses : y.request = writeRequest <=> y = x
    BY <1>1 DEF SubArrayInv, OneAnswer
  <2> QED
    BY <2>1, <2>2
<1>5. responses' = {y \in responses : y.request # writeRequest} \cup {Response(writeRequest, 1)}
  BY <1>4 DEF CheckWritePausing
<1>6. /\ flags \in [Writes -> {"none", "PAUSED", "CANCELLED"}]
      /\ progress \in [Writes -> 0 .. WriteTime]
      /\ cancellations \in [Writes -> 0 .. MaxCancellations]
      /\ forced \in SUBSET Writes
  BY DEF SubArrayInv, RequestTypes
<1>7. CASE Pauses
  <2>1. /\ flags' = [flags EXCEPT ![writeRequest] = "PAUSED"]
        /\ progress' = [progress EXCEPT ![writeRequest] = Remaining]
        /\ cancellations' = cancellations /\ forced' = forced
    BY <1>7 DEF CheckWritePausing
  <2>2. Remaining \in 0 .. WriteTime
    BY <1>7, RemainingBound DEF Pauses, SubArrayInv
  <2>3. RequestTypes'
    BY <1>6, <2>1, <2>2 DEF RequestTypes
  <2> QED
    BY <1>2, <1>5, <1>6, <2>1, <2>3 DEF ForcedInTime, SubArrayInv
<1>8. CASE ~Pauses
  <2>1. /\ flags' = [flags EXCEPT ![writeRequest] = "CANCELLED"]
        /\ cancellations' = [cancellations EXCEPT ![writeRequest] = @ + 1]
        /\ forced' = IF cancellations'[writeRequest] >= MaxCancellations
                     THEN forced \cup {writeRequest} ELSE forced
        /\ progress' = progress
    BY <1>8 DEF CheckWritePausing
  <2>2. /\ cancellations[writeRequest] \in Nat /\ cancellations[writeRequest] < MaxCancellations
        /\ MaxCancellations \in Nat
    BY <1>2, <1>6, TimesAssumption DEF ForcedInTime, SubArrayInv
  <2>3. cancellations'[writeRequest] = cancellations[writeRequest] + 1
    BY <1>2, <1>6, <2>1
  <2>4. RequestTypes'
    BY <1>2, <1>6, <2>1, <2>2, <2>3 DEF RequestTypes
  <2>5. ASSUME NEW w \in Writes
        PROVE  cancellations'[w] < MaxCancellations \/ w \in forced'
    <3>1. CASE w = writeRequest
      BY <2>1, <2>2, <2>3, <3>1
    <3>2. CASE w # writeRequest
      BY <1>6, <2>1, <3>2 DEF ForcedInTime, SubArrayInv
    <3> QED
      BY <3>1, <3>2
  <2> QED
    BY <1>2, <1>5, <1>6, <2>1, <2>4, <2>5 DEF ForcedInTime
<1> QED
  BY <1>7, <1>8

\* ACTIVATE in the subarray.
LEMMA ActivateFacts ==
    ASSUME SubArrayInv, NoneDue, lastIssueCycle = "past", lastIssueCycle' = "now",
           isWriting => writeRequest \notin forced, Activate
    PROVE  /\ SubArrayInv'
           /\ \A r : Answering(r)' <=> Answering(r)
           /\ \A x \in responses' : Interrupted(x.request)' => x.in = 1
<1>1. /\ isWriting' = isWriting /\ writeRequest' = writeRequest /\ writeAge' = writeAge
      /\ writeTimer' = writeTimer /\ nextPreWrite' = nextPreWrite
      /\ CheckWritePausing({})
      /\ nextRead' = GreatestOf({Restored.read, tRCD})
      /\ nextWrite' = GreatestOf({Restored.write, tRCD})
  BY DEF Activate, writeVars
<1>2. /\ isWriting \in BOOLEAN /\ writeRequest \in Requests \cup {NoRequest}
      /\ writeAge \in Nat /\ writeTimer \in 0 .. WriteTime
      /\ nextRead \in Nat /\ nextWrite \in Nat
      /\ nextPreWrite \in [read : Nat, write : Nat]
      /\ responses \in SUBSET [request : Requests, in : Nat]
  BY DEF SubArrayInv, SubArrayTypes
<1>3. Restored.read \in Nat /\ Restored.write \in Nat /\ tRCD \in Nat \ {0}
  BY <1>2, TimesAssumption DEF Restored
<1>4. /\ nextRead' \in Nat /\ nextRead' >= Restored.read /\ nextRead' >= tRCD
      /\ nextWrite' \in Nat
  BY <1>1, <1>3, GreatestOfTwo
<1>5. CASE ~isWriting
  <2>1. responses' = responses /\ flags' = flags /\ progress' = progress
        /\ cancellations' = cancellations /\ forced' = forced
    BY <1>1, <1>5 DEF CheckWritePausing, requestVars
  <2>2. SubArrayTypes' /\ RequestTypes'
    <3>1. RequestTypes'
      BY <2>1 DEF SubArrayInv, RequestTypes
    <3>2. SubArrayTypes'
      BY <1>1, <1>2, <1>4, <2>1 DEF SubArrayTypes
    <3> QED
      BY <3>1, <3>2
  <2>3. OneAnswer' /\ ForcedInTime'
    BY <2>1 DEF SubArrayInv, OneAnswer, ForcedInTime
  <2>4. WriteEventKnown'
    BY <1>1, <1>5 DEF WriteEventKnown
  <2>5. \A r : Answering(r)' <=> Answering(r)
    BY <2>1 DEF Answering
  <2>6. \A x \in responses' : Interrupted(x.request)' => x.in = 1
    BY <2>1 DEF NoneDue, Interrupted
  <2> QED
    BY <2>2, <2>3, <2>4, <2>5, <2>6 DEF SubArrayInv
<1>6. CASE isWriting
  <2>1. /\ writeRequest \in Writes
        /\ responses' = {x \in responses : x.request # writeRequest}
                                \cup {Response(writeRequest, 1)}
        /\ RequestTypes' /\ ForcedInTime'
        /\ \A w \in Writes \ {writeRequest} : flags'[w] = flags[w]
    BY <1>1, <1>6, InterruptFacts
  <2> DEFINE a == Response(writeRequest, 1)
  <2>2. a.request = writeRequest /\ a.in = 1 /\ a \in [request : Requests, in : Nat]
    BY <2>1, ResponseFacts DEF Requests
  <2> HIDE DEF a
  <2>3. responses' = {x \in responses : x.request # writeRequest} \cup {a}
    BY <2>1 DEF a
  <2>4. SubArrayTypes'
    BY <1>1, <1>2, <1>4, <2>2, <2>3 DEF SubArrayTypes
  <2>5. OneAnswer'
    BY <2>2, <2>3 DEF SubArrayInv, OneAnswer
  <2>6. WriteEventKnown'
    <3>1. a \in responses' /\ a.request = writeRequest' /\ a.in <= nextRead'
      BY <1>1, <1>3, <1>4, <2>2, <2>3
    <3> QED
      BY <1>1, <2>1, <2>2, <3>1 DEF WriteEventKnown
  <2>7. ASSUME NEW r PROVE Answering(r)' <=> Answering(r)
    <3>1. Answering(writeRequest)
      BY <1>6 DEF SubArrayInv, WriteEventKnown, Answering
    <3> QED
      BY <2>2, <2>3, <3>1 DEF Answering
  <2>8. ASSUME NEW x \in responses', Interrupted(x.request)' PROVE x.in = 1
    <3>1. CASE x = a
      BY <2>2, <3>1
    <3>2. CASE x \in responses /\ x.request # writeRequest
      BY <2>1, <2>8, <3>2 DEF NoneDue, Interrupted
    <3> QED
      BY <2>3, <3>1, <3>2
  <2> QED
    BY <2>1, <2>4, <2>5, <2>6, <2>7, <2>8 DEF SubArrayInv
<1> QED
  BY <1>5, <1>6

\* The write under way keeps the subarray from reading.
LEMMA ReadMeetsNoWrite ==
    ASSUME SubArrayInv, NoneDue, nextRead = 0
    PROVE  ~isWriting
<1>1. \A x \in responses : x.in \in Nat /\ x.in > 0
  BY DEF SubArrayInv, SubArrayTypes, NoneDue
<1> QED
  BY <1>1 DEF SubArrayInv, WriteEventKnown

\* READ in the subarray: no write is under way.
LEMMA ReadFacts ==
    ASSUME SubArrayInv, NoneDue, nextRead = 0,
           NEW r \in Reads, ~Answering(r), Read(r)
    PROVE  /\ SubArrayInv'
           /\ \A s : Answering(s)' <=> Answering(s) \/ s = r
           /\ \A x \in responses' : ~Interrupted(x.request)'
           /\ \A x \in responses' : x.request = r => x.in > 0
<1>1. /\ isWriting' = isWriting /\ writeRequest' = writeRequest /\ writeAge' = writeAge
      /\ writeTimer' = writeTimer /\ nextPreWrite' = nextPreWrite
      /\ CheckWritePausing({Response(r, ReadTime)})
      /\ nextRead' = GreatestOf({Restored.read, tBURST})
      /\ nextWrite' = GreatestOf({Restored.write, tBURST})
  BY DEF Read, writeVars
<1>2. /\ isWriting \in BOOLEAN /\ writeRequest \in Requests \cup {NoRequest}
      /\ writeAge \in Nat /\ writeTimer \in 0 .. WriteTime
      /\ nextRead \in Nat /\ nextWrite \in Nat
      /\ nextPreWrite \in [read : Nat, write : Nat]
      /\ responses \in SUBSET [request : Requests, in : Nat]
  BY DEF SubArrayInv, SubArrayTypes
<1>3. ~isWriting
  BY ReadMeetsNoWrite
<1> DEFINE a == Response(r, ReadTime)
<1>4. a.request = r /\ a.in = ReadTime /\ a \in [request : Requests, in : Nat] /\ ReadTime > 0
  BY ResponseFacts, TimesAssumption DEF Requests
<1>5. responses' = responses \cup {a} /\ flags' = flags /\ progress' = progress
      /\ cancellations' = cancellations /\ forced' = forced
  BY <1>1, <1>3 DEF CheckWritePausing, requestVars
<1> HIDE DEF a
<1>6. nextRead' \in Nat /\ nextWrite' \in Nat
  <2>1. Restored.read \in Nat /\ Restored.write \in Nat /\ tBURST \in Nat
    BY <1>2, TimesAssumption DEF Restored
  <2> QED
    BY <1>1, <2>1, GreatestOfTwo
<1>7. RequestTypes' /\ ForcedInTime'
  BY <1>5 DEF SubArrayInv, RequestTypes, ForcedInTime
<1>8. SubArrayTypes'
  BY <1>1, <1>2, <1>4, <1>5, <1>6 DEF SubArrayTypes
<1>9. OneAnswer'
  BY <1>4, <1>5 DEF SubArrayInv, OneAnswer, Answering
<1>10. WriteEventKnown'
  BY <1>1, <1>3 DEF WriteEventKnown
<1>11. ASSUME NEW s PROVE Answering(s)' <=> Answering(s) \/ s = r
  BY <1>4, <1>5 DEF Answering
<1>12. ASSUME NEW x \in responses' PROVE ~Interrupted(x.request)'
  <2>1. r \notin Writes
    BY NamesAssumption
  <2> QED
    BY <1>4, <1>5, <2>1 DEF NoneDue, Interrupted
<1>13. ASSUME NEW x \in responses', x.request = r PROVE x.in > 0
  BY <1>4, <1>5, <1>13 DEF Answering
<1> QED
  BY <1>7, <1>8, <1>9, <1>10, <1>11, <1>12, <1>13 DEF SubArrayInv

\* WRITE in the subarray.
LEMMA WriteFacts ==
    ASSUME SubArrayInv, NoneDue,
           NEW r \in Writes, ~Answering(r), Write(r)
    PROVE  /\ SubArrayInv'
           /\ \A s : Answering(s)' <=> Answering(s) \/ s = r
           /\ \A x \in responses' : ~Interrupted(x.request)'
           /\ \A x \in responses' : x.request = r => x.in > 0
<1> DEFINE timer == IF flags[r] = "PAUSED" THEN progress[r] ELSE WriteTime
<1> DEFINE a == Response(r, tCWD + tBURST + timer)
<1>1. /\ flags' = [flags EXCEPT ![r] = "none"]
      /\ nextPreWrite' = [read |-> nextRead, write |-> nextWrite]
      /\ nextRead' = GreatestOf({nextRead, tCWD + tBURST + tWTR + timer})
      /\ nextWrite' = GreatestOf({nextWrite, tBURST + timer})
      /\ isWriting' = TRUE /\ writeRequest' = r /\ writeAge' = 0 /\ writeTimer' = timer
      /\ responses' = responses \cup {a}
      /\ progress' = progress /\ cancellations' = cancellations /\ forced' = forced
  BY DEF Write
<1>2. /\ nextRead \in Nat /\ nextWrite \in Nat
      /\ responses \in SUBSET [request : Requests, in : Nat]
  BY DEF SubArrayInv, SubArrayTypes
<1>3. /\ tCWD \in Nat /\ tBURST \in Nat /\ tBURST > 0 /\ tWTR \in Nat /\ WriteTime \in Nat
  BY TimesAssumption
<1>4. timer \in 0 .. WriteTime
  BY <1>3 DEF SubArrayInv, RequestTypes
<1> HIDE DEF timer
<1>5. /\ a.request = r /\ a.in = tCWD + tBURST + timer /\ a.in > 0
      /\ a \in [request : Requests, in : Nat]
  BY <1>3, <1>4, ResponseFacts DEF Requests
<1> HIDE DEF a
<1>6. /\ nextRead' \in Nat /\ nextWrite' \in Nat
      /\ nextRead' >= tCWD + tBURST + tWTR + timer
  <2>1. tCWD + tBURST + tWTR + timer \in Nat /\ tBURST + timer \in Nat
    BY <1>3, <1>4
  <2> QED
    BY <1>1, <1>2, <2>1, GreatestOfTwo
<1>7. RequestTypes' /\ ForcedInTime'
  BY <1>1 DEF SubArrayInv, RequestTypes, ForcedInTime
<1>8. SubArrayTypes'
  <2>1. /\ isWriting' \in BOOLEAN /\ writeRequest' \in Requests /\ writeAge' \in Nat
        /\ writeTimer' \in 0 .. WriteTime
        /\ nextPreWrite' \in [read : Nat, write : Nat]
    BY <1>1, <1>2, <1>4 DEF Requests
  <2> QED
    BY <1>1, <1>2, <1>5, <1>6, <2>1 DEF SubArrayTypes
<1>9. OneAnswer'
  BY <1>1, <1>5 DEF SubArrayInv, OneAnswer, Answering
<1>10. WriteEventKnown'
  <2>1. a \in responses' /\ a.request = writeRequest' /\ a.in <= nextRead'
        /\ a.in = writeTimer' + tCWD + tBURST - writeAge'
    BY <1>1, <1>3, <1>4, <1>5, <1>6
  <2> QED
    BY <1>1, <2>1 DEF WriteEventKnown
<1>11. ASSUME NEW s PROVE Answering(s)' <=> Answering(s) \/ s = r
  BY <1>1, <1>5 DEF Answering
<1>12. ASSUME NEW x \in responses' PROVE ~Interrupted(x.request)'
  <2>1. flags'[r] = "none" /\ \A w \in Writes \ {r} : flags'[w] = flags[w]
    BY <1>1 DEF SubArrayInv, RequestTypes
  <2> QED
    BY <1>1, <1>5, <2>1 DEF NoneDue, Interrupted
<1>13. ASSUME NEW x \in responses', x.request = r PROVE x.in > 0
  BY <1>1, <1>5, <1>13 DEF Answering
<1> QED
  BY <1>7, <1>8, <1>9, <1>10, <1>11, <1>12, <1>13 DEF SubArrayInv

-----------------------------------------------------------------------------
(* Issuing a command: the queues.                                           *)

\* Marking the ACTIVATE at the head of the queue.
LEMMA MarkedHead ==
    ASSUME NEW r \in Requests, NEW i \in BOOLEAN, NEW p \in BOOLEAN
    PROVE  [<<Command("ACTIVATE", r, i, p), ColumnOf(r)>> EXCEPT ![1].issued = TRUE]
                = <<Command("ACTIVATE", r, TRUE, p), ColumnOf(r)>>
<1> DEFINE before == Command("ACTIVATE", r, i, p)
           marked == [before EXCEPT !.issued = TRUE]
           after == Command("ACTIVATE", r, TRUE, p)
<1>1. /\ before \in Commands /\ before.type = "ACTIVATE" /\ before.request = r
      /\ before.priority = p
      /\ after \in Commands /\ after.type = "ACTIVATE" /\ after.request = r
      /\ after.priority = p /\ after.issued = TRUE
  BY DEF Command, Commands
<1>2. [<<before, ColumnOf(r)>> EXCEPT ![1].issued = TRUE] = <<marked, ColumnOf(r)>>
  <2> HIDE DEF before
  <2>1. \A c, d, e : [<<c, d>> EXCEPT ![1] = e] = <<e, d>>
    OBVIOUS
  <2>2. [<<before, ColumnOf(r)>> EXCEPT ![1].issued = TRUE]
            = [<<before, ColumnOf(r)>> EXCEPT ![1] = marked]
    OBVIOUS
  <2> QED
    BY <2>1, <2>2, Zenon
<1> HIDE DEF before, after
<1>3. /\ marked \in Commands /\ marked.type = "ACTIVATE" /\ marked.request = r
      /\ marked.issued = TRUE /\ marked.priority = p
  BY <1>1 DEF Commands
<1>4. \A c, d \in Commands :
        c.type = d.type /\ c.request = d.request /\ c.issued = d.issued
            /\ c.priority = d.priority => c = d
  BY DEF Commands
<1> HIDE DEF marked
<1>5. marked = after
  BY <1>1, <1>3, <1>4
<1> QED
  BY <1>2, <1>5 DEF before, after

\* A command that is issued keeps the invariant of the queues and of the subarray, and
\* only an ACTIVATE, with its column command behind it, interrupts a write.
LEMMA IssueInv ==
    ASSUME NEW tq, NEW cq, QueueInv(tq, cq), SubArrayInv, NoneDue, ReadsUnmarked,
           tq \subseteq Requests, flagIssued \in SUBSET Requests,
           cleanup \in {"none", "next", "due"}, cleanup # "due",
           CanIssue(cq), CycleCommandQueues(cq, TRUE),
           row' = row, transactionQueue' = tq
    PROVE  /\ QueueInv(transactionQueue, commandQueue)'
           /\ SubArrayInv' /\ ReadsUnmarked' /\ flagIssued' \in SUBSET Requests
           /\ cleanup' = "next" /\ lastIssueCycle' = "now"
           /\ Len(commandQueue') = Len(cq) /\ Len(cq) \in {1, 2}
           /\ \A x \in responses' : Interrupted(x.request)' => x.in = 1 /\ Len(commandQueue') = 2
<1>1. lastIssueCycle = "past" /\ cq # <<>> /\ IsIssuable(Head(cq)) /\ cleanup = "none"
  BY DEF CanIssue, QueueInv, CleanupComes
<1>2. lastIssueCycle' = "now" /\ cleanup' = "next"
  BY DEF CycleCommandQueues
<1>3. PICK r \in Requests :
        /\ Loaded(cq, r) /\ \A s : Loaded(cq, s) => s = r
        /\ \/ cq = <<ColumnOf(r)>> /\ Len(cq) = 1 /\ Head(cq) = ColumnOf(r)
           \/ \E i \in BOOLEAN, p \in BOOLEAN :
                /\ cq = <<Command("ACTIVATE", r, i, p), ColumnOf(r)>>
                /\ Len(cq) = 2 /\ Head(cq) = Command("ACTIVATE", r, i, p)
  BY <1>1, HeadCases DEF QueueInv
<1>4. ~Answering(r)
  BY <1>1, <1>3 DEF QueueInv, IssuedLeave
<1>5. r \notin tq /\ row[r] # NoRow
  BY <1>3 DEF QueueInv, WaitingApart, UnderWay
<1>6. CASE cq = <<ColumnOf(r)>> /\ Len(cq) = 1 /\ Head(cq) = ColumnOf(r)
  <2>1. /\ ColumnOf(r).type = "COLUMN" /\ ColumnOf(r).request = r
    BY DEF ColumnOf, Command
  <2>2. /\ IF r \in Reads THEN Read(r) ELSE Write(r)
        /\ commandQueue' = cq /\ flagIssued' = flagIssued \cup {r}
    BY <1>6, <2>1 DEF CycleCommandQueues
  <2>3. r \in Reads => nextRead = 0
    BY <1>1, <1>6, <2>1, NamesAssumption DEF IsIssuable
  <2>4. /\ SubArrayInv'
        /\ \A s : Answering(s)' <=> Answering(s) \/ s = r
        /\ \A x \in responses' : ~Interrupted(x.request)'
        /\ \A x \in responses' : x.request = r => x.in > 0
    <3>1. CASE r \in Reads
      BY <1>4, <2>2, <2>3, <3>1, ReadFacts
    <3>2. CASE r \notin Reads
      BY <1>4, <2>2, <3>2, WriteFacts DEF Requests
    <3> QED
      BY <3>1, <3>2
  <2>5. QueueInv(transactionQueue, commandQueue)'
    <3>1. QueueShape(commandQueue)'
      BY <2>2 DEF QueueInv, QueueShape
    <3>2. WaitingApart(transactionQueue, commandQueue)'
      BY <1>3, <1>5, <2>2, <2>4 DEF QueueInv, WaitingApart
    <3>3. UnderWay(transactionQueue, commandQueue)'
      BY <1>3, <1>5, <2>2, <2>4 DEF QueueInv, UnderWay
    <3>4. IssuedLeave(commandQueue)'
      BY <1>2, <1>3, <1>6, <2>2, <2>4 DEF IssuedLeave
    <3>5. CleanupComes(commandQueue)'
      BY <1>1, <1>2, <1>6, <2>1, <2>2 DEF CleanupComes, WasIssued
    <3> QED
      BY <3>1, <3>2, <3>3, <3>4, <3>5 DEF QueueInv
  <2>6. ReadsUnmarked'
    BY <2>2, <2>4 DEF ReadsUnmarked
  <2> QED
    BY <1>2, <1>6, <2>2, <2>4, <2>5, <2>6
<1>7. ASSUME NEW i \in BOOLEAN, NEW p \in BOOLEAN,
             cq = <<Command("ACTIVATE", r, i, p), ColumnOf(r)>>,
             Len(cq) = 2, Head(cq) = Command("ACTIVATE", r, i, p)
      PROVE  /\ QueueInv(transactionQueue, commandQueue)'
             /\ SubArrayInv' /\ ReadsUnmarked' /\ flagIssued' \in SUBSET Requests
             /\ Len(commandQueue') = 2
             /\ \A x \in responses' : Interrupted(x.request)' => x.in = 1
  <2> DEFINE cmd == Command("ACTIVATE", r, i, p)
             dcq == <<Command("ACTIVATE", r, TRUE, p), ColumnOf(r)>>
  <2>1. cmd.type = "ACTIVATE"
    BY DEF Command
  <2>2. Activate /\ commandQueue' = [cq EXCEPT ![1].issued = TRUE] /\ flagIssued' = flagIssued
    BY <1>7, <2>1 DEF CycleCommandQueues
  <2>3. commandQueue' = dcq
    BY <1>7, <2>2, MarkedHead
  <2>4. isWriting => writeRequest \notin forced
    BY <1>1, <1>7, <2>1 DEF IsIssuable, Blocked
  <2>5. /\ SubArrayInv'
        /\ \A s : Answering(s)' <=> Answering(s)
        /\ \A x \in responses' : Interrupted(x.request)' => x.in = 1
    BY <1>1, <1>2, <2>2, <2>4, ActivateFacts
  <2>6. /\ Len(dcq) = 2 /\ dcq # <<>> /\ Head(dcq) = Command("ACTIVATE", r, TRUE, p)
        /\ \A s : Loaded(dcq, s) <=> s = r
    <3>1. \A s : Loaded(dcq, s) <=> s = r
      BY LoadedIn, Zenon
    <3>2. \A c, d : Len(<<c, d>>) = 2 /\ <<c, d>> # <<>> /\ Head(<<c, d>>) = c
      OBVIOUS
    <3> QED
      BY <3>1, <3>2, Zenon
  <2>7. QueueInv(transactionQueue, commandQueue)'
    <3>1. QueueShape(commandQueue)'
      BY <2>3 DEF QueueShape
    <3> HIDE DEF dcq
    <3>2. WaitingApart(transactionQueue, commandQueue)'
      BY <1>3, <1>5, <2>3, <2>5, <2>6 DEF QueueInv, WaitingApart
    <3>3. UnderWay(transactionQueue, commandQueue)'
      BY <1>3, <1>5, <2>3, <2>5, <2>6 DEF QueueInv, UnderWay
    <3>4. IssuedLeave(commandQueue)'
      BY <1>4, <2>3, <2>5, <2>6 DEF IssuedLeave
    <3>5. CleanupComes(commandQueue)'
      <4>1. WasIssued(Head(commandQueue))'
        BY <2>3, <2>6 DEF WasIssued, Command
      <4> QED
        BY <1>2, <2>3, <2>6, <4>1 DEF CleanupComes
    <3> QED
      BY <3>1, <3>2, <3>3, <3>4, <3>5 DEF QueueInv
  <2>8. ReadsUnmarked'
    BY <2>2, <2>5 DEF ReadsUnmarked
  <2> QED
    BY <2>2, <2>3, <2>5, <2>6, <2>7, <2>8
<1> QED
  BY <1>2, <1>3, <1>6, <1>7

-----------------------------------------------------------------------------
(* The invariant, taken apart.                                              *)

ControllerTypes ==
    /\ row \in [Requests -> Rows \cup {NoRow}]
    /\ transactionQueue \in SUBSET Requests /\ arrived \in SUBSET Requests
    /\ flagIssued \in SUBSET Requests
    /\ effectiveRow \in Rows \cup {NoRow}
    /\ lastIssueCycle \in {"now", "past"} /\ cleanup \in {"none", "next", "due"}
    /\ cycleNow \in Nat /\ cycleNext \in Nat

Core ==
    /\ ControllerTypes /\ SubArrayInv
    /\ QueueInv(transactionQueue, commandQueue)
    /\ ReadsUnmarked /\ InterrupterQueued /\ PutBackAwaited

\* The two forms of the invariant.
LEMMA CoreIsInv == Core <=> IndInv
<1>1. QueueShape(commandQueue) => commandQueue \in Seq(Commands) /\ Len(commandQueue) <= 2
  BY ShapeTypes
<1>2. Core => IndInv
  <2> SUFFICES ASSUME Core PROVE IndInv
    OBVIOUS
  <2>1. TypeOK
    BY <1>1 DEF Core, ControllerTypes, SubArrayInv, RequestTypes, SubArrayTypes, QueueInv, TypeOK
  <2> QED
    BY <2>1 DEF Core, SubArrayInv, IndInv
<1>3. IndInv => Core
  <2> SUFFICES ASSUME IndInv PROVE Core
    OBVIOUS
  <2>1. ControllerTypes /\ RequestTypes /\ SubArrayTypes
    BY DEF IndInv, TypeOK, ControllerTypes, RequestTypes, SubArrayTypes
  <2> QED
    BY <2>1 DEF Core, SubArrayInv, IndInv
<1> QED
  BY <1>2, <1>3

Somewhere(r) == r \in transactionQueue \/ Loaded(commandQueue, r) \/ Answering(r)

\* A write is lost when it is nowhere.
LEMMA LostFacts ==
    QueueShape(commandQueue) =>
        (NoWriteLost <=> \A w \in Writes : row[w] # NoRow => Somewhere(w))
  BY PlacesFacts DEF NoWriteLost, Somewhere, Requests

\* A step that leaves what is lost where it is.
LEMMA StaysLost ==
    ASSUME QueueShape(commandQueue), QueueShape(commandQueue)',
           \A w \in Writes : row[w] # NoRow /\ ~Somewhere(w) =>
                                row'[w] # NoRow /\ ~Somewhere(w)'
    PROVE  NoWriteLost' => NoWriteLost
<1>1. (QueueShape(commandQueue) =>
        (NoWriteLost <=> \A w \in Writes : row[w] # NoRow => Somewhere(w)))'
  BY LostFacts, PTL
<1> QED
  BY <1>1, LostFacts

\* Whether the command queue counts as empty depends on two variables.
LEMMA SameEmptiness ==
    ASSUME commandQueue' = commandQueue, flagIssued' = flagIssued
    PROVE  EffectivelyEmpty(commandQueue)' <=> EffectivelyEmpty(commandQueue)
  BY DEF EffectivelyEmpty, WasIssued

-----------------------------------------------------------------------------
\* Init establishes the invariant.
LEMMA InitInv == Init => IndInv
<1> SUFFICES ASSUME Init PROVE Core
  BY CoreIsInv
<1>1. ControllerTypes
  BY DEF Init, ControllerTypes
<1>2. RequestTypes
  BY TimesAssumption DEF Init, RequestTypes
<1>3. SubArrayTypes
  <2>1. isWriting \in BOOLEAN
    BY DEF Init
  <2>2. writeTimer \in 0 .. WriteTime
    BY TimesAssumption DEF Init
  <2> QED
    BY <2>1, <2>2 DEF Init, SubArrayTypes
<1>4. OneAnswer /\ WriteEventKnown /\ ForcedInTime
  BY TimesAssumption DEF Init, OneAnswer, WriteEventKnown, ForcedInTime
<1>5. QueueInv(transactionQueue, commandQueue)
  <2>1. \A r : ~Loaded(commandQueue, r) /\ ~Answering(r)
    BY LoadedIn DEF Init, Answering
  <2> QED
    BY <2>1 DEF Init, QueueInv, QueueShape, WaitingApart, UnderWay, IssuedLeave, CleanupComes
<1>6. ReadsUnmarked /\ InterrupterQueued /\ PutBackAwaited
  BY DEF Init, ReadsUnmarked, InterrupterQueued, PutBackAwaited
<1> QED
  BY <1>1, <1>2, <1>3, <1>4, <1>5, <1>6 DEF Core, SubArrayInv

\* A new request is nowhere yet, and the scheduler is woken for it.
LEMMA EnqueueInv ==
    ASSUME Core, NEW r \in Requests, NEW n \in Rows, Enqueue(r, n)
    PROVE  Core'
<1>1. /\ row[r] = NoRow /\ row' = [row EXCEPT ![r] = n]
      /\ transactionQueue' = transactionQueue \cup {r} /\ arrived' = arrived \cup {r}
      /\ cycleNow' = IF cycleNow = 0 /\ EffectivelyEmpty(commandQueue) THEN 1 ELSE cycleNow
      /\ cycleNext' = cycleNext /\ cleanup' = cleanup /\ responses' = responses
      /\ UNCHANGED <<requestVars, commandVars, writeVars, timeVars>>
  BY DEF Enqueue
<1>2. /\ flags' = flags /\ progress' = progress /\ cancellations' = cancellations
      /\ forced' = forced /\ commandQueue' = commandQueue /\ flagIssued' = flagIssued
      /\ effectiveRow' = effectiveRow /\ lastIssueCycle' = lastIssueCycle
      /\ isWriting' = isWriting /\ writeRequest' = writeRequest /\ writeAge' = writeAge
      /\ writeTimer' = writeTimer /\ nextRead' = nextRead /\ nextWrite' = nextWrite
      /\ nextPreWrite' = nextPreWrite
  BY <1>1 DEF requestVars, commandVars, writeVars, timeVars
<1>3. ~Loaded(commandQueue, r) /\ ~Answering(r)
  BY <1>1 DEF Core, QueueInv, UnderWay
<1>4. \A s : Answering(s)' <=> Answering(s)
  BY <1>1 DEF Answering
<1>5. ControllerTypes'
  BY <1>1, <1>2 DEF Core, ControllerTypes
<1>6. SubArrayInv'
  <2>1. RequestTypes' /\ SubArrayTypes'
    BY <1>1, <1>2 DEF Core, SubArrayInv, RequestTypes, SubArrayTypes
  <2>2. OneAnswer' /\ WriteEventKnown' /\ ForcedInTime'
    BY <1>1, <1>2 DEF Core, SubArrayInv, OneAnswer, WriteEventKnown, ForcedInTime
  <2> QED
    BY <2>1, <2>2 DEF SubArrayInv
<1>7. QueueInv(transactionQueue, commandQueue)'
  <2>1. QueueShape(commandQueue)' /\ IssuedLeave(commandQueue)' /\ CleanupComes(commandQueue)'
    BY <1>1, <1>2, <1>4
       DEF Core, QueueInv, QueueShape, IssuedLeave, CleanupComes, WasIssued
  <2>2. WaitingApart(transactionQueue, commandQueue)'
    BY <1>1, <1>2, <1>3, <1>4 DEF Core, QueueInv, WaitingApart
  <2>3. UnderWay(transactionQueue, commandQueue)'
    BY <1>1, <1>2, <1>4, NamesAssumption DEF Core, QueueInv, UnderWay, ControllerTypes
  <2> QED
    BY <2>1, <2>2, <2>3 DEF QueueInv
<1>8. ReadsUnmarked'
  BY <1>2, <1>4 DEF Core, ReadsUnmarked
<1>9. EffectivelyEmpty(commandQueue)' <=> EffectivelyEmpty(commandQueue)
  BY <1>2, SameEmptiness
<1>10. NoWriteLost' => NoWriteLost
  <2>1. ASSUME NEW w \in Writes, row[w] # NoRow, ~Somewhere(w)
        PROVE  row'[w] # NoRow /\ ~Somewhere(w)'
    <3>1. w # r /\ w \in Requests
      BY <1>1, <2>1 DEF Requests
    <3> QED
      BY <1>1, <1>2, <1>4, <2>1, <3>1 DEF Core, ControllerTypes, Somewhere
  <2>2. QueueShape(commandQueue) /\ QueueShape(commandQueue)'
    BY <1>7 DEF Core, QueueInv
  <2> QED
    BY <2>1, <2>2, StaysLost
<1>11. InterrupterQueued'
  BY <1>1, <1>2, <1>9, <1>10 DEF Core, InterrupterQueued, Interrupted
<1>12. PutBackAwaited'
  <2>1. cycleNow \in Nat /\ cycleNext \in Nat
    BY DEF Core, ControllerTypes
  <2>2. EffectivelyEmpty(commandQueue) => cycleNow' > 0 /\ cycleNow' \in Nat
    BY <1>1, <2>1
  <2> QED
    BY <1>1, <1>9, <2>1, <2>2 DEF PutBackAwaited
<1> QED
  BY <1>5, <1>6, <1>7, <1>8, <1>11, <1>12 DEF Core

\* CleanupCallback leaves nothing, or a column command that was not issued.
LEMMA CleanupFacts ==
    ASSUME Core, CleanupCallback
    PROVE  \E r \in Requests :
            /\ Loaded(commandQueue, r)
            /\ \/ commandQueue' = <<>> /\ Len(commandQueue) = 1
                  /\ EffectivelyEmpty(commandQueue)
               \/ commandQueue' = <<>> /\ Len(commandQueue) = 2 /\ r \in flagIssued
               \/ commandQueue' = <<ColumnOf(r)>> /\ Len(commandQueue) = 2 /\ r \notin flagIssued
<1>1. cleanup = "due" /\ commandQueue' = Unissued(1) \o Unissued(2)
  BY DEF CleanupCallback
<1>2. commandQueue # <<>> /\ WasIssued(Head(commandQueue))
  BY <1>1 DEF Core, QueueInv, CleanupComes
<1>3. PICK r \in Requests :
        /\ Loaded(commandQueue, r) /\ \A s : Loaded(commandQueue, s) => s = r
        /\ \/ commandQueue = <<ColumnOf(r)>> /\ Len(commandQueue) = 1
              /\ Head(commandQueue) = ColumnOf(r)
           \/ \E i \in BOOLEAN, p \in BOOLEAN :
                /\ commandQueue = <<Command("ACTIVATE", r, i, p), ColumnOf(r)>>
                /\ Len(commandQueue) = 2 /\ Head(commandQueue) = Command("ACTIVATE", r, i, p)
  BY <1>2, HeadCases DEF Core, QueueInv
<1>4. <<>> \o <<>> = <<>> /\ \A c : <<>> \o <<c>> = <<c>>
  OBVIOUS
<1>5. WasIssued(ColumnOf(r)) <=> r \in flagIssued
  BY DEF WasIssued, ColumnOf, Command
<1>6. CASE commandQueue = <<ColumnOf(r)>> /\ Len(commandQueue) = 1
              /\ Head(commandQueue) = ColumnOf(r)
  <2>1. Unissued(1) = <<>>
    <3>1. commandQueue[1] = ColumnOf(r)
      BY <1>6
    <3> QED
      BY <1>2, <1>6, <3>1 DEF Unissued
  <2>2. Unissued(2) = <<>>
    <3>1. 2 \notin DOMAIN commandQueue
      BY <1>6
    <3> QED
      BY <3>1 DEF Unissued
  <2> QED
    BY <1>1, <1>2, <1>3, <1>4, <1>6, <2>1, <2>2 DEF EffectivelyEmpty
<1>7. ASSUME NEW i \in BOOLEAN, NEW p \in BOOLEAN,
             commandQueue = <<Command("ACTIVATE", r, i, p), ColumnOf(r)>>,
             Len(commandQueue) = 2, Head(commandQueue) = Command("ACTIVATE", r, i, p)
      PROVE  \/ commandQueue' = <<>> /\ r \in flagIssued
             \/ commandQueue' = <<ColumnOf(r)>> /\ r \notin flagIssued
  <2>1. /\ commandQueue[1] = Command("ACTIVATE", r, i, p) /\ commandQueue[2] = ColumnOf(r)
        /\ 2 \in DOMAIN commandQueue
    BY <1>7
  <2>2. Unissued(1) = <<>>
    BY <1>2, <1>7, <2>1 DEF Unissued
  <2>3. Unissued(2) = IF r \in flagIssued THEN <<>> ELSE <<ColumnOf(r)>>
    BY <1>5, <2>1 DEF Unissued
  <2> QED
    BY <1>1, <1>4, <2>2, <2>3
<1> QED
  BY <1>3, <1>6, <1>7

\* Removing the commands that were issued preserves the invariant: a write put back
\* with its flag still set is lost with its ACTIVATE, and otherwise the queue is empty
\* only if it counted as empty before.
LEMMA CleanupCallbackInv ==
    ASSUME Core, CleanupCallback
    PROVE  Core'
<1>1. /\ cleanup = "due" /\ cleanup' = "none"
      /\ UNCHANGED <<requestVars, queueVars, flagIssued, effectiveRow, lastIssueCycle,
                     cycleNow, cycleNext, responses, writeVars, timeVars>>
  BY DEF CleanupCallback
<1>2. /\ flags' = flags /\ progress' = progress /\ cancellations' = cancellations
      /\ forced' = forced /\ row' = row /\ transactionQueue' = transactionQueue
      /\ arrived' = arrived /\ flagIssued' = flagIssued
      /\ effectiveRow' = effectiveRow /\ lastIssueCycle' = lastIssueCycle
      /\ cycleNow' = cycleNow /\ cycleNext' = cycleNext /\ responses' = responses
      /\ isWriting' = isWriting /\ writeRequest' = writeRequest /\ writeAge' = writeAge
      /\ writeTimer' = writeTimer /\ nextRead' = nextRead /\ nextWrite' = nextWrite
      /\ nextPreWrite' = nextPreWrite
  BY <1>1 DEF requestVars, queueVars, writeVars, timeVars
<1>3. PICK r \in Requests :
        /\ Loaded(commandQueue, r)
        /\ \/ commandQueue' = <<>> /\ Len(commandQueue) = 1 /\ EffectivelyEmpty(commandQueue)
           \/ commandQueue' = <<>> /\ Len(commandQueue) = 2 /\ r \in flagIssued
           \/ commandQueue' = <<ColumnOf(r)>> /\ Len(commandQueue) = 2 /\ r \notin flagIssued
  BY CleanupFacts
<1>4. \A s : Answering(s)' <=> Answering(s)
  BY <1>2 DEF Answering
<1>5. \A s : Loaded(commandQueue', s) => /\ s = r /\ commandQueue' = <<ColumnOf(r)>>
                                         /\ Len(commandQueue) = 2 /\ r \notin flagIssued
  BY <1>3, LoadedIn
<1>6. Len(commandQueue) = 2 => ~Answering(r)
  BY <1>3 DEF Core, QueueInv, IssuedLeave
<1>7. ControllerTypes'
  BY <1>1, <1>2 DEF Core, ControllerTypes
<1>8. SubArrayInv'
  <2>1. RequestTypes' /\ SubArrayTypes'
    BY <1>1, <1>2 DEF Core, SubArrayInv, RequestTypes, SubArrayTypes
  <2>2. OneAnswer' /\ WriteEventKnown' /\ ForcedInTime'
    BY <1>1, <1>2 DEF Core, SubArrayInv, OneAnswer, WriteEventKnown, ForcedInTime
  <2> QED
    BY <2>1, <2>2 DEF SubArrayInv
<1>9. QueueInv(transactionQueue, commandQueue)'
  <2>1. QueueShape(commandQueue)'
    BY <1>3 DEF QueueShape
  <2>2. WaitingApart(transactionQueue, commandQueue)'
    BY <1>2, <1>3, <1>4, <1>5 DEF Core, QueueInv, WaitingApart
  <2>3. UnderWay(transactionQueue, commandQueue)'
    BY <1>2, <1>3, <1>4, <1>5 DEF Core, QueueInv, UnderWay
  <2>4. IssuedLeave(commandQueue)'
    BY <1>4, <1>5, <1>6 DEF IssuedLeave
  <2>5. CleanupComes(commandQueue)'
    BY <1>1 DEF CleanupComes
  <2> QED
    BY <2>1, <2>2, <2>3, <2>4, <2>5 DEF QueueInv
<1>10. ReadsUnmarked'
  BY <1>2, <1>4 DEF Core, ReadsUnmarked
<1>11. NoWriteLost' => NoWriteLost
  <2>1. ASSUME NEW w \in Writes, row[w] # NoRow, ~Somewhere(w)
        PROVE  row'[w] # NoRow /\ ~Somewhere(w)'
    BY <1>2, <1>3, <1>4, <1>5, <2>1 DEF Somewhere
  <2>2. QueueShape(commandQueue) /\ QueueShape(commandQueue)'
    BY <1>9 DEF Core, QueueInv
  <2> QED
    BY <2>1, <2>2, StaysLost
<1>12. Len(commandQueue) = 2 /\ NoWriteLost' => ~EffectivelyEmpty(commandQueue)'
  <2>1. CASE r \in flagIssued
    <3> SUFFICES ASSUME Len(commandQueue) = 2 PROVE ~NoWriteLost'
      OBVIOUS
    <3>1. r \in Writes
      BY <1>6, <2>1 DEF Core, ReadsUnmarked, Requests
    <3>2. r \notin transactionQueue /\ row[r] # NoRow
      BY <1>3 DEF Core, QueueInv, WaitingApart, UnderWay
    <3>3. ~Somewhere(r)' /\ row'[r] # NoRow
      BY <1>2, <1>4, <1>5, <1>6, <2>1, <3>2 DEF Somewhere
    <3>4. (QueueShape(commandQueue) =>
            (NoWriteLost <=> \A w \in Writes : row[w] # NoRow => Somewhere(w)))'
      BY LostFacts, PTL
    <3>5. QueueShape(commandQueue)'
      BY <1>9 DEF QueueInv
    <3> QED
      BY <3>1, <3>3, <3>4, <3>5
  <2>2. CASE r \notin flagIssued
    <3> SUFFICES ASSUME Len(commandQueue) = 2 PROVE ~EffectivelyEmpty(commandQueue)'
      OBVIOUS
    <3>1. commandQueue' = <<ColumnOf(r)>>
      BY <1>3, <2>2
    <3>2. commandQueue' # <<>> /\ Head(commandQueue') = ColumnOf(r)
      BY <3>1
    <3>3. ~WasIssued(Head(commandQueue))'
      BY <1>2, <2>2, <3>2 DEF WasIssued, ColumnOf, Command
    <3> QED
      BY <3>2, <3>3 DEF EffectivelyEmpty
  <2> QED
    BY <2>1, <2>2
<1>13. InterrupterQueued'
  BY <1>1, <1>2, <1>12 DEF Core, InterrupterQueued, Interrupted
<1>14. PutBackAwaited'
  BY <1>2, <1>3, <1>11, <1>12 DEF Core, PutBackAwaited
<1> QED
  BY <1>7, <1>8, <1>9, <1>10, <1>13, <1>14 DEF Core

\* A completion preserves the invariant. A write that was interrupted goes back to the
\* transaction queue while the command queue is not empty; anything else is gone.
LEMMA RequestCompleteInv ==
    ASSUME Core, NEW x \in responses, RequestComplete(x)
    PROVE  Core'
<1> DEFINE r == x.request
<1>1. /\ cleanup # "due" /\ x.in = 0 /\ responses' = responses \ {x}
      /\ isWriting' = (isWriting /\ writeRequest # r)
      /\ UNCHANGED <<arrived, commandQueue, effectiveRow, lastIssueCycle, eventVars,
                     writeRequest, writeAge, writeTimer, timeVars>>
  BY DEF RequestComplete
<1>2. /\ arrived' = arrived /\ commandQueue' = commandQueue /\ effectiveRow' = effectiveRow
      /\ lastIssueCycle' = lastIssueCycle /\ cleanup' = cleanup
      /\ cycleNow' = cycleNow /\ cycleNext' = cycleNext
      /\ writeRequest' = writeRequest /\ writeAge' = writeAge
      /\ writeTimer' = writeTimer /\ nextRead' = nextRead /\ nextWrite' = nextWrite
      /\ nextPreWrite' = nextPreWrite
  BY <1>1 DEF eventVars, timeVars
<1>3. \/ /\ Interrupted(r)
         /\ transactionQueue' = transactionQueue \cup {r}
         /\ row' = row /\ flagIssued' = flagIssued
         /\ flags' = flags /\ progress' = progress /\ cancellations' = cancellations
         /\ forced' = forced
      \/ /\ ~Interrupted(r)
         /\ row' = [row EXCEPT ![r] = NoRow]
         /\ flagIssued' = flagIssued \ {r}
         /\ forced' = forced \ {r}
         /\ cancellations' = [w \in Writes |-> IF w = r THEN 0 ELSE cancellations[w]]
         /\ transactionQueue' = transactionQueue /\ flags' = flags /\ progress' = progress
  BY DEF RequestComplete, requestVars
<1>4. r \in Requests /\ Answering(r)
  BY DEF Core, SubArrayInv, SubArrayTypes, Answering
<1>5. r \notin transactionQueue /\ ~Loaded(commandQueue, r)
  <2>1. ~Loaded(commandQueue, r)
    BY <1>1, <1>4 DEF Core, QueueInv, IssuedLeave
  <2> QED
    BY <1>4, <2>1 DEF Core, QueueInv, WaitingApart
<1>6. \A y \in responses : y.request = r <=> y = x
  BY DEF Core, SubArrayInv, OneAnswer
<1>7. \A s : Answering(s)' <=> Answering(s) /\ s # r
  BY <1>1, <1>6 DEF Answering
<1>8. flagIssued' \subseteq flagIssued /\ \A s \in flagIssued : s # r => s \in flagIssued'
  BY <1>3
<1> HIDE DEF r
<1>9. ControllerTypes'
  BY <1>2, <1>3, <1>4 DEF Core, ControllerTypes
<1>10. SubArrayInv'
  <2>1. /\ flags \in [Writes -> {"none", "PAUSED", "CANCELLED"}]
        /\ progress \in [Writes -> 0 .. WriteTime]
        /\ cancellations \in [Writes -> 0 .. MaxCancellations]
        /\ forced \in SUBSET Writes /\ MaxCancellations \in Nat \ {0}
        /\ \A w \in Writes : cancellations[w] < MaxCancellations \/ w \in forced
    BY TimesAssumption DEF Core, SubArrayInv, RequestTypes, ForcedInTime
  <2>2. RequestTypes' /\ ForcedInTime'
    BY <1>3, <2>1 DEF RequestTypes, ForcedInTime
  <2>3. isWriting' \in BOOLEAN
    BY <1>1
  <2>4. SubArrayTypes'
    BY <1>1, <1>2, <2>3 DEF Core, SubArrayInv, SubArrayTypes
  <2>5. OneAnswer'
    BY <1>1 DEF Core, SubArrayInv, OneAnswer
  <2>6. WriteEventKnown'
    <3> SUFFICES ASSUME isWriting' PROVE WriteEventKnown'
      BY DEF WriteEventKnown
    <3>1. isWriting /\ writeRequest # r
      BY <1>1
    <3>2. PICK y \in responses :
            /\ y.request = writeRequest /\ y.in <= nextRead
            /\ \/ y.in = writeTimer + tCWD + tBURST - writeAge
               \/ y.in = 1 /\ lastIssueCycle = "now"
               \/ y.in = 0
      BY <3>1 DEF Core, SubArrayInv, WriteEventKnown
    <3>3. writeRequest \in Writes /\ y \in responses'
      BY <1>1, <1>6, <3>1, <3>2 DEF Core, SubArrayInv, WriteEventKnown
    <3> QED
      BY <1>2, <3>2, <3>3 DEF WriteEventKnown
  <2> QED
    BY <2>2, <2>4, <2>5, <2>6 DEF SubArrayInv
<1>11. QueueInv(transactionQueue, commandQueue)'
  <2>1. QueueShape(commandQueue)'
    BY <1>2 DEF Core, QueueInv, QueueShape
  <2>2. WaitingApart(transactionQueue, commandQueue)'
    BY <1>2, <1>3, <1>5, <1>7 DEF Core, QueueInv, WaitingApart
  <2>3. UnderWay(transactionQueue, commandQueue)'
    <3>1. ASSUME NEW s \in Requests, Somewhere(s)' PROVE row'[s] # NoRow
      <4>1. Somewhere(s) /\ row[s] # NoRow
        BY <1>2, <1>3, <1>4, <1>7, <3>1 DEF Somewhere, Core, QueueInv, UnderWay
      <4>2. CASE s = r
        BY <1>2, <1>3, <1>5, <1>7, <3>1, <4>1, <4>2 DEF Somewhere
      <4>3. CASE s # r
        BY <1>3, <4>1, <4>3 DEF Core, ControllerTypes
      <4> QED
        BY <4>2, <4>3
    <3> QED
      BY <3>1 DEF UnderWay, Somewhere
  <2>4. IssuedLeave(commandQueue)'
    BY <1>1, <1>2, <1>7, <1>8 DEF Core, QueueInv, IssuedLeave
  <2>5. CleanupComes(commandQueue)'
    <3>1. ASSUME cleanup # "none" PROVE commandQueue # <<>> /\ WasIssued(Head(commandQueue))'
      <4>1. commandQueue # <<>> /\ WasIssued(Head(commandQueue))
        BY <3>1 DEF Core, QueueInv, CleanupComes
      <4>2. PICK s \in Requests :
                /\ Loaded(commandQueue, s)
                /\ \/ Head(commandQueue) = ColumnOf(s)
                   \/ \E i \in BOOLEAN, p \in BOOLEAN :
                        Head(commandQueue) = Command("ACTIVATE", s, i, p)
        BY <4>1, HeadCases DEF Core, QueueInv
      <4>3. s # r
        BY <1>5, <4>2
      <4> QED
        BY <1>2, <1>8, <4>1, <4>2, <4>3 DEF WasIssued, ColumnOf, Command
    <3> QED
      BY <1>2, <3>1 DEF Core, QueueInv, CleanupComes
  <2> QED
    BY <2>1, <2>2, <2>3, <2>4, <2>5 DEF QueueInv
<1>12. ReadsUnmarked'
  <2>1. r \in Reads => r \notin flagIssued'
    BY <1>3, NamesAssumption DEF Interrupted
  <2> QED
    BY <1>7, <1>8, <2>1 DEF Core, ReadsUnmarked
<1>13. NoWriteLost' => NoWriteLost
  <2>1. ASSUME NEW w \in Writes, row[w] # NoRow, ~Somewhere(w)
        PROVE  row'[w] # NoRow /\ ~Somewhere(w)'
    <3>1. w # r /\ w \in Requests
      BY <1>4, <2>1 DEF Somewhere, Requests
    <3> QED
      BY <1>2, <1>3, <1>7, <2>1, <3>1 DEF Somewhere, Core, ControllerTypes
  <2>2. QueueShape(commandQueue) /\ QueueShape(commandQueue)'
    BY <1>11 DEF Core, QueueInv
  <2> QED
    BY <2>1, <2>2, StaysLost
<1>14. EffectivelyEmpty(commandQueue)' => EffectivelyEmpty(commandQueue)
  BY <1>2, <1>8 DEF EffectivelyEmpty, WasIssued
<1>15. InterrupterQueued'
  BY <1>1, <1>2, <1>3, <1>13, <1>14 DEF Core, InterrupterQueued, Interrupted
<1>16. PutBackAwaited'
  <2>1. CASE Interrupted(r)
    BY <1>1, <1>13, <1>14, <2>1 DEF r, Core, InterrupterQueued, PutBackAwaited
  <2>2. CASE ~Interrupted(r)
    BY <1>2, <1>3, <1>13, <1>14, <2>2 DEF Core, PutBackAwaited
  <2> QED
    BY <2>1, <2>2
<1> QED
  BY <1>9, <1>10, <1>11, <1>12, <1>15, <1>16 DEF Core

\* A cycle passes: everything comes one cycle nearer.
LEMMA TickInv ==
    ASSUME Core, Tick
    PROVE  Core'
<1>1. /\ cleanup # "due" /\ ~Responding /\ cycleNow = 0
      /\ cycleNow' = cycleNext /\ cycleNext' = 0
      /\ cleanup' = IF cleanup = "next" THEN "due" ELSE "none"
      /\ arrived' = {} /\ lastIssueCycle' = "past"
      /\ responses' = {Response(x.request, x.in - 1) : x \in responses}
      /\ writeAge' = (IF isWriting THEN writeAge + 1 ELSE writeAge)
      /\ nextRead' = Earlier(nextRead) /\ nextWrite' = Earlier(nextWrite)
      /\ nextPreWrite' = [read |-> Earlier(nextPreWrite.read),
                          write |-> Earlier(nextPreWrite.write)]
      /\ row' = row /\ transactionQueue' = transactionQueue
      /\ flags' = flags /\ progress' = progress /\ cancellations' = cancellations
      /\ forced' = forced /\ commandQueue' = commandQueue /\ flagIssued' = flagIssued
      /\ effectiveRow' = effectiveRow /\ isWriting' = isWriting
      /\ writeRequest' = writeRequest /\ writeTimer' = writeTimer
  BY DEF Tick, requestVars
<1>2. \A x \in responses : x.request \in Requests /\ x.in \in Nat /\ x.in > 0
  BY <1>1 DEF Core, SubArrayInv, SubArrayTypes, Responding
<1>3. \A y \in responses' : \E x \in responses :
        y = Response(x.request, x.in - 1) /\ y.request = x.request /\ y.in = x.in - 1
  BY <1>1, ResponseFacts
<1>4. \A x \in responses : \E y \in responses' :
        y = Response(x.request, x.in - 1) /\ y.request = x.request /\ y.in = x.in - 1
  BY <1>1, ResponseFacts
<1>5. \A s : Answering(s)' <=> Answering(s)
  BY <1>3, <1>4 DEF Answering
<1>6. ControllerTypes'
  BY <1>1 DEF Core, ControllerTypes
<1>7. /\ isWriting \in BOOLEAN /\ writeAge \in Nat /\ writeTimer \in 0 .. WriteTime
      /\ nextRead \in Nat /\ nextWrite \in Nat /\ nextPreWrite \in [read : Nat, write : Nat]
  BY DEF Core, SubArrayInv, SubArrayTypes
<1>8. SubArrayInv'
  <2>1. RequestTypes' /\ ForcedInTime'
    BY <1>1 DEF Core, SubArrayInv, RequestTypes, ForcedInTime
  <2>2. responses' \in SUBSET [request : Requests, in : Nat]
    <3>1. ASSUME NEW y \in responses' PROVE y \in [request : Requests, in : Nat]
      <4>1. PICK x \in responses : y = Response(x.request, x.in - 1)
        BY <1>3
      <4>2. x.request \in Requests /\ x.in - 1 \in Nat
        BY <1>2
      <4> QED
        BY <4>1, <4>2, ResponseFacts
    <3> QED
      BY <3>1
  <2>3. \A n \in Nat : Earlier(n) \in Nat
    BY DEF Earlier
  <2>4. SubArrayTypes'
    <3>1. writeAge' \in Nat /\ nextRead' \in Nat /\ nextWrite' \in Nat
          /\ nextPreWrite' \in [read : Nat, write : Nat]
      BY <1>1, <1>7, <2>3
    <3>2. isWriting' \in BOOLEAN /\ writeRequest' \in Requests \cup {NoRequest}
          /\ writeTimer' \in 0 .. WriteTime
      BY <1>1 DEF Core, SubArrayInv, SubArrayTypes
    <3> QED
      BY <2>2, <3>1, <3>2 DEF SubArrayTypes
  <2>5. OneAnswer'
    <3>1. ASSUME NEW y \in responses', NEW z \in responses', y.request = z.request PROVE y = z
      <4>1. PICK u \in responses : y = Response(u.request, u.in - 1) /\ y.request = u.request
        BY <1>3
      <4>2. PICK v \in responses : z = Response(v.request, v.in - 1) /\ z.request = v.request
        BY <1>3
      <4>3. u = v
        BY <3>1, <4>1, <4>2 DEF Core, SubArrayInv, OneAnswer
      <4> QED
        BY <4>1, <4>2, <4>3
    <3> QED
      BY <3>1 DEF OneAnswer
  <2>6. WriteEventKnown'
    <3> SUFFICES ASSUME isWriting PROVE WriteEventKnown'
      BY <1>1 DEF WriteEventKnown
    <3>1. PICK x \in responses :
            /\ x.request = writeRequest /\ x.in <= nextRead
            /\ \/ x.in = writeTimer + tCWD + tBURST - writeAge
               \/ x.in = 1 /\ lastIssueCycle = "now"
               \/ x.in = 0
      BY DEF Core, SubArrayInv, WriteEventKnown
    <3>2. PICK y \in responses' : y.request = x.request /\ y.in = x.in - 1
      BY <1>4
    <3>3. x.in \in Nat /\ x.in > 0 /\ tCWD \in Nat /\ tBURST \in Nat
      BY <1>2, TimesAssumption
    <3>4. y.in <= nextRead'
      BY <1>1, <1>7, <3>1, <3>2, <3>3 DEF Earlier
    <3>5. y.in = writeTimer' + tCWD + tBURST - writeAge' \/ y.in = 0
      BY <1>1, <1>7, <3>1, <3>2, <3>3
    <3>6. writeRequest' \in Writes /\ y.request = writeRequest'
      BY <1>1, <3>1, <3>2 DEF Core, SubArrayInv, WriteEventKnown
    <3> QED
      BY <3>4, <3>5, <3>6 DEF WriteEventKnown
  <2> QED
    BY <2>1, <2>4, <2>5, <2>6 DEF SubArrayInv
<1>9. QueueInv(transactionQueue, commandQueue)'
  <2>1. QueueShape(commandQueue)'
    BY <1>1 DEF Core, QueueInv, QueueShape
  <2>2. WaitingApart(transactionQueue, commandQueue)'
    BY <1>1, <1>5 DEF Core, QueueInv, WaitingApart
  <2>3. UnderWay(transactionQueue, commandQueue)'
    BY <1>1, <1>5 DEF Core, QueueInv, UnderWay
  <2>4. IssuedLeave(commandQueue)'
    BY <1>1, <1>5 DEF Core, QueueInv, IssuedLeave
  <2>5. CleanupComes(commandQueue)'
    BY <1>1 DEF Core, QueueInv, CleanupComes, WasIssued
  <2> QED
    BY <2>1, <2>2, <2>3, <2>4, <2>5 DEF QueueInv
<1>10. ReadsUnmarked'
  BY <1>1, <1>5 DEF Core, ReadsUnmarked
<1>11. NoWriteLost' => NoWriteLost
  <2>1. \A w \in Writes : row[w] # NoRow /\ ~Somewhere(w) => row'[w] # NoRow /\ ~Somewhere(w)'
    BY <1>1, <1>5 DEF Somewhere
  <2>2. QueueShape(commandQueue) /\ QueueShape(commandQueue)'
    BY <1>9 DEF Core, QueueInv
  <2> QED
    BY <2>1, <2>2, StaysLost
<1>12. InterrupterQueued'
  <2>1. ASSUME NEW y \in responses', Interrupted(y.request)'
        PROVE  y.in = 0 /\ cleanup' = "due" /\ Len(commandQueue') = 2
    <3>1. PICK x \in responses : y.request = x.request /\ y.in = x.in - 1
      BY <1>3
    <3>2. Interrupted(x.request)
      BY <1>1, <2>1, <3>1 DEF Interrupted
    <3> QED
      BY <1>1, <1>2, <3>1, <3>2 DEF Core, InterrupterQueued
  <2> QED
    BY <2>1 DEF InterrupterQueued
<1>13. PutBackAwaited'
  <2>1. EffectivelyEmpty(commandQueue)' <=> EffectivelyEmpty(commandQueue)
    BY <1>1, SameEmptiness
  <2>2. cycleNow' + cycleNext' = cycleNow + cycleNext
    BY <1>1 DEF Core, ControllerTypes
  <2> QED
    BY <1>1, <1>11, <2>1, <2>2 DEF Core, PutBackAwaited
<1> QED
  BY <1>6, <1>8, <1>9, <1>10, <1>12, <1>13 DEF Core

\* When the scheduler may issue a command no answer is due and no interrupted write
\* on its way back.
LEMMA IssueMoment ==
    ASSUME Core, ~Responding
    PROVE  /\ \A x \in responses : x.in \in Nat /\ x.in > 0
           /\ cleanup = "none" => NoneDue
<1>1. \A x \in responses : x.in \in Nat /\ x.in > 0
  BY DEF Core, SubArrayInv, SubArrayTypes, Responding
<1> QED
  BY <1>1 DEF Core, InterrupterQueued, NoneDue

\* CommandQueueCallback preserves the invariant: it wakes the scheduler when it empties
\* the queue and a transaction waits.
LEMMA CommandQueueCallbackInv ==
    ASSUME Core, CommandQueueCallback
    PROVE  Core'
<1>1. /\ cleanup # "due" /\ ~Responding /\ CanIssue(commandQueue)
      /\ CycleCommandQueues(commandQueue, TRUE)
      /\ cycleNext' = cycleNext + Wakeups(commandQueue, transactionQueue, TRUE)
      /\ row' = row /\ transactionQueue' = transactionQueue /\ arrived' = arrived
      /\ effectiveRow' = effectiveRow /\ cycleNow' = cycleNow
  BY DEF CommandQueueCallback, queueVars
<1>2. cleanup = "none"
  BY <1>1 DEF Core, ControllerTypes, QueueInv, CleanupComes, CanIssue
<1>3. NoneDue
  BY <1>1, <1>2, IssueMoment
<1>4. /\ QueueInv(transactionQueue, commandQueue)'
      /\ SubArrayInv' /\ ReadsUnmarked' /\ flagIssued' \in SUBSET Requests
      /\ cleanup' = "next" /\ lastIssueCycle' = "now"
      /\ Len(commandQueue') = Len(commandQueue) /\ Len(commandQueue) \in {1, 2}
      /\ \A x \in responses' : Interrupted(x.request)' => x.in = 1 /\ Len(commandQueue') = 2
  <2>1. /\ transactionQueue \subseteq Requests /\ flagIssued \in SUBSET Requests
        /\ cleanup \in {"none", "next", "due"} /\ ReadsUnmarked /\ SubArrayInv
        /\ QueueInv(transactionQueue, commandQueue)
    BY DEF Core, ControllerTypes
  <2> QED
    BY <1>1, <1>3, <2>1, IssueInv
<1>5. cycleNext' \in Nat
  BY <1>1 DEF Core, ControllerTypes, Wakeups
<1>6. ControllerTypes'
  BY <1>1, <1>4, <1>5 DEF Core, ControllerTypes
<1>7. InterrupterQueued'
  BY <1>4 DEF InterrupterQueued
<1>8. PutBackAwaited'
  <2> SUFFICES ASSUME transactionQueue' # {}, EffectivelyEmpty(commandQueue)'
               PROVE  cycleNow' + cycleNext' > 0
    BY DEF PutBackAwaited
  <2>1. Len(commandQueue') = 1
    <3>1. Len(<<>>) = 0
      OBVIOUS
    <3> QED
      BY <1>4, <3>1 DEF EffectivelyEmpty
  <2>2. Wakeups(commandQueue, transactionQueue, TRUE) = 1
    BY <1>1, <1>4, <2>1 DEF Wakeups
  <2>3. cycleNow \in Nat /\ cycleNext \in Nat
    BY DEF Core, ControllerTypes
  <2>4. cycleNow' = cycleNow /\ cycleNext' = cycleNext + 1
    BY <1>1, <2>2
  <2> QED
    BY <2>3, <2>4
<1> QED
  BY <1>4, <1>6, <1>7, <1>8 DEF Core

\* Scheduling a transaction moves it from the transaction queue to the command queue.
LEMMA ScheduleInv ==
    ASSUME Core, commandQueue = <<>>, NEW r \in transactionQueue
    PROVE  /\ QueueInv(transactionQueue \ {r}, CommandsFor(r))
           /\ cleanup = "none"
<1>1. r \in Requests /\ isWriting \in BOOLEAN
  BY DEF Core, ControllerTypes, SubArrayInv, SubArrayTypes
<1>2. CommandsFor(r) = <<ColumnOf(r)>>
      \/ CommandsFor(r) = <<Command("ACTIVATE", r, FALSE, isWriting), ColumnOf(r)>>
  BY Zenon DEF CommandsFor, ColumnOf
<1>3. \A s : Loaded(CommandsFor(r), s) <=> s = r
  <2>1. \A s : Loaded(<<ColumnOf(r)>>, s) <=> s = r
    BY LoadedIn, Zenon
  <2>2. \A s : Loaded(<<Command("ACTIVATE", r, FALSE, isWriting), ColumnOf(r)>>, s) <=> s = r
    BY LoadedIn, Zenon
  <2> QED
    BY <1>2, <2>1, <2>2
<1>4. QueueShape(CommandsFor(r))
  BY <1>1, <1>2 DEF QueueShape
<1>5. cleanup = "none"
  BY DEF Core, ControllerTypes, QueueInv, CleanupComes
<1>6. ~Answering(r) /\ row[r] # NoRow
  BY <1>1 DEF Core, QueueInv, WaitingApart, UnderWay
<1>7. WaitingApart(transactionQueue \ {r}, CommandsFor(r))
  BY <1>3 DEF Core, QueueInv, WaitingApart
<1>8. UnderWay(transactionQueue \ {r}, CommandsFor(r))
  BY <1>3, <1>6 DEF Core, QueueInv, UnderWay
<1>9. IssuedLeave(CommandsFor(r)) /\ CleanupComes(CommandsFor(r))
  BY <1>3, <1>5, <1>6 DEF IssuedLeave, CleanupComes
<1> QED
  BY <1>4, <1>5, <1>7, <1>8, <1>9 DEF QueueInv

\* Cycle schedules one transaction of an empty queue, or none.
LEMMA CycleCases ==
    ASSUME Core, Cycle
    PROVE  \E tq, cq, issues :
            /\ transactionQueue' = tq /\ QueueInv(tq, cq) /\ tq \subseteq Requests
            /\ \/ cleanup = "none"
               \/ cq = commandQueue
            /\ effectiveRow' \in Rows \cup {NoRow}
            /\ issues \in {FALSE, CanIssue(cq)}
            /\ CycleCommandQueues(cq, issues)
            /\ cycleNext' = LET n == cycleNext + Wakeups(cq, transactionQueue', issues)
                            IN  IF n = 0 /\ transactionQueue' # {} /\ EffectivelyEmpty(commandQueue)'
                                THEN 1 ELSE n
<1> DEFINE ready == IF commandQueue = <<>> THEN transactionQueue \ arrived ELSE {}
<1> DEFINE queue(next) == IF next = {} THEN commandQueue ELSE CommandsFor(CHOOSE r \in next : TRUE)
<1>1. PICK next \in {{r} : r \in ready} \cup (IF ready = {} \/ Stalled THEN {{}} ELSE {}) :
        /\ transactionQueue' = transactionQueue \ next
        /\ effectiveRow' = (IF next = {} THEN effectiveRow ELSE row[CHOOSE r \in next : TRUE])
        /\ \E issues \in {FALSE, CanIssue(queue(next))} :
            /\ CycleCommandQueues(queue(next), issues)
            /\ cycleNext' = LET n == cycleNext + Wakeups(queue(next), transactionQueue', issues)
                            IN  IF n = 0 /\ transactionQueue' # {} /\ EffectivelyEmpty(commandQueue)'
                                THEN 1 ELSE n
  BY Zenon DEF Cycle
<1>2. /\ transactionQueue \subseteq Requests /\ effectiveRow \in Rows \cup {NoRow}
      /\ row \in [Requests -> Rows \cup {NoRow}]
      /\ QueueInv(transactionQueue, commandQueue)
  BY DEF Core, ControllerTypes
<1>3. /\ QueueInv(transactionQueue', queue(next)) /\ transactionQueue' \subseteq Requests
      /\ cleanup = "none" \/ queue(next) = commandQueue
      /\ effectiveRow' \in Rows \cup {NoRow}
  <2>1. CASE next = {}
    <3>1. transactionQueue' = transactionQueue /\ effectiveRow' = effectiveRow
          /\ queue(next) = commandQueue
      BY <1>1, <2>1
    <3> QED
      BY <1>2, <3>1
  <2>2. ASSUME NEW r \in ready, next = {r}
        PROVE  /\ QueueInv(transactionQueue', queue(next)) /\ transactionQueue' \subseteq Requests
               /\ cleanup = "none" \/ queue(next) = commandQueue
               /\ effectiveRow' \in Rows \cup {NoRow}
    <3>1. commandQueue = <<>> /\ r \in transactionQueue
      OBVIOUS
    <3>2. (CHOOSE s \in next : TRUE) = r /\ next # {}
      BY <2>2
    <3>3. queue(next) = CommandsFor(r) /\ effectiveRow' = row[r]
          /\ transactionQueue' = transactionQueue \ {r}
      BY <1>1, <2>2, <3>2
    <3> HIDE DEF queue
    <3>4. QueueInv(transactionQueue \ {r}, CommandsFor(r)) /\ cleanup = "none"
      BY <3>1, ScheduleInv
    <3> QED
      BY <1>2, <3>1, <3>3, <3>4
  <2> QED
    BY <1>1, <2>1, <2>2
<1> HIDE DEF queue
<1> QED
  BY <1>1, <1>3, Zenon

\* Cycle preserves the invariant: it comes back when the queue counts as empty and a
\* transaction waits.
LEMMA CycleInv ==
    ASSUME Core, Cycle
    PROVE  Core'
<1>1. /\ cleanup # "due" /\ ~Responding /\ cycleNow > 0 /\ cycleNow' = cycleNow - 1
      /\ row' = row /\ arrived' = arrived
  BY DEF Cycle
<1>2. PICK tq, cq, issues :
        /\ transactionQueue' = tq /\ QueueInv(tq, cq) /\ tq \subseteq Requests
        /\ \/ cleanup = "none"
           \/ cq = commandQueue
        /\ effectiveRow' \in Rows \cup {NoRow}
        /\ issues \in {FALSE, CanIssue(cq)}
        /\ CycleCommandQueues(cq, issues)
        /\ cycleNext' = LET n == cycleNext + Wakeups(cq, transactionQueue', issues)
                        IN  IF n = 0 /\ transactionQueue' # {} /\ EffectivelyEmpty(commandQueue)'
                            THEN 1 ELSE n
  BY CycleCases, Zenon
<1>3. /\ row \in [Requests -> Rows \cup {NoRow}] /\ arrived \in SUBSET Requests
      /\ flagIssued \in SUBSET Requests /\ lastIssueCycle \in {"now", "past"}
      /\ cleanup \in {"none", "next", "due"} /\ cycleNow \in Nat /\ cycleNext \in Nat
      /\ SubArrayInv /\ ReadsUnmarked
  BY DEF Core, ControllerTypes
<1>4. /\ cycleNow' \in Nat /\ cycleNext' \in Nat
      /\ transactionQueue' # {} /\ EffectivelyEmpty(commandQueue)' => cycleNext' > 0
  <2> DEFINE n == cycleNext + Wakeups(cq, transactionQueue', issues)
  <2>1. n \in Nat
    BY <1>3 DEF Wakeups
  <2>2. cycleNext' = IF n = 0 /\ transactionQueue' # {} /\ EffectivelyEmpty(commandQueue)'
                     THEN 1 ELSE n
    BY <1>2
  <2> HIDE DEF n
  <2> QED
    BY <1>1, <1>3, <2>1, <2>2
<1>5. PutBackAwaited'
  <2>1. transactionQueue' # {} /\ EffectivelyEmpty(commandQueue)' => cycleNow' + cycleNext' > 0
    <3>1. \A a, b \in Nat : b > 0 => a + b > 0
      OBVIOUS
    <3> QED
      BY <1>4, <3>1, Zenon
  <2> QED
    BY <2>1, Zenon DEF PutBackAwaited
<1>6. CASE ~issues
  <2>1. /\ commandQueue' = cq
        /\ UNCHANGED <<requestVars, flagIssued, lastIssueCycle, cleanup, responses, writeVars,
                       timeVars>>
    BY <1>2, <1>6 DEF CycleCommandQueues
  <2>2. /\ flags' = flags /\ progress' = progress /\ cancellations' = cancellations
        /\ forced' = forced /\ flagIssued' = flagIssued
        /\ lastIssueCycle' = lastIssueCycle /\ cleanup' = cleanup /\ responses' = responses
        /\ isWriting' = isWriting /\ writeRequest' = writeRequest /\ writeAge' = writeAge
        /\ writeTimer' = writeTimer /\ nextRead' = nextRead /\ nextWrite' = nextWrite
        /\ nextPreWrite' = nextPreWrite
    BY <2>1 DEF requestVars, writeVars, timeVars
  <2>3. \A s : Answering(s)' <=> Answering(s)
    BY <2>2 DEF Answering
  <2>4. ControllerTypes'
    BY <1>1, <1>2, <1>3, <1>4, <2>2 DEF ControllerTypes
  <2>5. SubArrayInv'
    <3>1. RequestTypes' /\ SubArrayTypes'
      BY <1>3, <2>2 DEF SubArrayInv, RequestTypes, SubArrayTypes
    <3>2. OneAnswer' /\ WriteEventKnown' /\ ForcedInTime'
      BY <1>3, <2>2 DEF SubArrayInv, OneAnswer, WriteEventKnown, ForcedInTime
    <3> QED
      BY <3>1, <3>2 DEF SubArrayInv
  <2>6. QueueInv(transactionQueue, commandQueue)'
    BY <1>1, <1>2, <2>1, <2>2, <2>3
       DEF QueueInv, QueueShape, WaitingApart, UnderWay, IssuedLeave, CleanupComes, WasIssued
  <2>7. ReadsUnmarked'
    BY <1>3, <2>2, <2>3 DEF ReadsUnmarked
  <2>8. InterrupterQueued'
    <3>1. CASE cleanup = "none"
      <4>1. NoneDue
        BY <1>1, <3>1, IssueMoment
      <4> QED
        BY <2>2, <4>1 DEF NoneDue, InterrupterQueued, Interrupted
    <3>2. CASE cleanup # "none"
      <4>1. cq = commandQueue
        BY <1>2, <3>2
      <4> QED
        BY <1>1, <2>1, <2>2, <3>2, <4>1 DEF Core, InterrupterQueued, Interrupted
    <3> QED
      BY <3>1, <3>2
  <2> QED
    BY <1>5, <2>4, <2>5, <2>6, <2>7, <2>8 DEF Core
<1>7. CASE issues
  <2>1. CanIssue(cq)
    BY <1>2, <1>7, Zenon
  <2>2. CycleCommandQueues(cq, TRUE)
    BY <1>2, <1>7, Zenon DEF CycleCommandQueues
  <2>3. cleanup = "none"
    BY <1>1, <1>2, <1>3, <2>1 DEF QueueInv, CleanupComes, CanIssue
  <2>4. NoneDue
    BY <1>1, <2>3, IssueMoment
  <2>5. /\ QueueInv(transactionQueue, commandQueue)'
        /\ SubArrayInv' /\ ReadsUnmarked' /\ flagIssued' \in SUBSET Requests
        /\ cleanup' = "next" /\ lastIssueCycle' = "now"
        /\ \A x \in responses' : Interrupted(x.request)' => x.in = 1 /\ Len(commandQueue') = 2
    BY <1>1, <1>2, <1>3, <2>1, <2>2, <2>4, IssueInv
  <2>6. ControllerTypes'
    BY <1>1, <1>2, <1>3, <1>4, <2>5 DEF ControllerTypes
  <2>7. InterrupterQueued'
    BY <2>5 DEF InterrupterQueued
  <2> QED
    BY <1>5, <2>5, <2>6, <2>7 DEF Core
<1> QED
  BY <1>6, <1>7

\* So does a step that changes nothing.
LEMMA StutterInv ==
    ASSUME Core, UNCHANGED vars
    PROVE  Core'
<1>1. /\ flags' = flags /\ progress' = progress /\ cancellations' = cancellations
      /\ forced' = forced /\ row' = row /\ transactionQueue' = transactionQueue
      /\ arrived' = arrived /\ commandQueue' = commandQueue /\ flagIssued' = flagIssued
      /\ effectiveRow' = effectiveRow /\ lastIssueCycle' = lastIssueCycle
      /\ cycleNow' = cycleNow /\ cycleNext' = cycleNext /\ cleanup' = cleanup
      /\ responses' = responses
      /\ isWriting' = isWriting /\ writeRequest' = writeRequest /\ writeAge' = writeAge
      /\ writeTimer' = writeTimer /\ nextRead' = nextRead /\ nextWrite' = nextWrite
      /\ nextPreWrite' = nextPreWrite
  BY DEF vars, requestVars, queueVars, commandVars, eventVars, writeVars, timeVars
<1>2. ControllerTypes' /\ RequestTypes' /\ SubArrayTypes'
  BY <1>1 DEF Core, SubArrayInv, ControllerTypes, RequestTypes, SubArrayTypes
<1>3. OneAnswer' /\ WriteEventKnown' /\ ForcedInTime' /\ ReadsUnmarked'
  BY <1>1 DEF Core, SubArrayInv, OneAnswer, WriteEventKnown, ForcedInTime, ReadsUnmarked,
              Answering
<1>4. QueueInv(transactionQueue, commandQueue)'
  BY <1>1 DEF Core, QueueInv, QueueShape, WaitingApart, UnderWay, IssuedLeave, CleanupComes,
              WasIssued, Answering
<1>5. EffectivelyEmpty(commandQueue)' <=> EffectivelyEmpty(commandQueue)
  BY <1>1, SameEmptiness
<1>6. NoWriteLost' <=> NoWriteLost
  BY <1>1 DEF NoWriteLost, Places
<1>7. InterrupterQueued' /\ PutBackAwaited'
  BY <1>1, <1>5, <1>6 DEF Core, InterrupterQueued, Interrupted, PutBackAwaited
<1> QED
  BY <1>2, <1>3, <1>4, <1>7 DEF Core, SubArrayInv

-----------------------------------------------------------------------------
\* Every step preserves the invariant.
LEMMA NextInv == Core /\ [Next]_vars => Core'
<1> SUFFICES ASSUME Core, [Next]_vars PROVE Core'
  OBVIOUS
<1>1. ASSUME NEW r \in Requests, NEW n \in Rows, Enqueue(r, n) PROVE Core'
  BY <1>1, EnqueueInv
<1>2. CASE CleanupCallback
  BY <1>2, CleanupCallbackInv
<1>3. ASSUME NEW x \in responses, RequestComplete(x) PROVE Core'
  BY <1>3, RequestCompleteInv
<1>4. CASE Cycle
  BY <1>4, CycleInv
<1>5. CASE CommandQueueCallback
  BY <1>5, CommandQueueCallbackInv
<1>6. CASE Tick
  BY <1>6, TickInv
<1>7. CASE UNCHANGED vars
  BY <1>7, StutterInv
<1> QED
  BY <1>1, <1>2, <1>3, <1>4, <1>5, <1>6, <1>7 DEF Next

\* Writes that are interrupted, cancelled, forced or put back leave the queues, the
\* events and the flags consistent, however the requests of the client, the cycles and
\* the delays of the commands are interleaved.
THEOREM PausingConsistent == Spec => []IndInv
<1>1. Init => Core
  BY InitInv, CoreIsInv
<1>2. Spec => []Core
  BY <1>1, NextInv, PTL DEF Spec
<1> QED
  BY <1>2, CoreIsInv, PTL

\* The types; in particular no write is cancelled more than MaxCancellations times, and
\* a paused write never has more left than WriteTime (CheckWritePausing).
THEOREM PausingTypes == Spec => []TypeOK
<1>1. IndInv => TypeOK
  BY DEF IndInv
<1> QED
  BY <1>1, PausingConsistent, PTL

\* A request waits, is queued or is answered, and only one of these, once: an interrupted
\* write is neither completed by the event that announced its end nor put back twice.
THEOREM InterruptedOnlyOnce == Spec => []NeverTwice
<1>1. IndInv => NeverTwice
  <2> SUFFICES ASSUME IndInv, NEW r \in Requests
               PROVE  Cardinality(Places(r)) <= (IF row[r] = NoRow THEN 0 ELSE 1)
    BY DEF NeverTwice
  <2>1. QueueInv(transactionQueue, commandQueue) /\ OneAnswer
    BY DEF IndInv
  <2>2. CASE Places(r) = {}
    BY <2>2, FS_EmptySet
  <2>3. CASE Places(r) # {}
    <3>1. Somewhere(r) /\ row[r] # NoRow
      BY <2>1, <2>3, PlacesFacts DEF Somewhere, QueueInv, UnderWay
    <3>2. \A p, q \in Places(r) : p = q
      <4>1. \A i \in DOMAIN commandQueue :
                commandQueue[i].type = "COLUMN" /\ commandQueue[i].request = r
                    => i = Len(commandQueue) /\ Loaded(commandQueue, r)
        <5>1. CASE commandQueue = <<>>
          BY <5>1
        <5>2. ASSUME NEW s \in Requests, commandQueue = <<ColumnOf(s)>>
              PROVE  \A i \in DOMAIN commandQueue :
                        commandQueue[i].type = "COLUMN" /\ commandQueue[i].request = r
                            => i = Len(commandQueue) /\ Loaded(commandQueue, r)
          <6>1. /\ DOMAIN commandQueue = {1} /\ Len(commandQueue) = 1
                /\ commandQueue[1] = ColumnOf(s)
            BY <5>2
          <6>2. ColumnOf(s).request = s
            BY DEF ColumnOf, Command
          <6> QED
            BY <6>1, <6>2 DEF Loaded
        <5>3. ASSUME NEW s \in Requests, NEW i \in BOOLEAN, NEW p \in BOOLEAN,
                     commandQueue = <<Command("ACTIVATE", s, i, p), ColumnOf(s)>>
              PROVE  \A j \in DOMAIN commandQueue :
                        commandQueue[j].type = "COLUMN" /\ commandQueue[j].request = r
                            => j = Len(commandQueue) /\ Loaded(commandQueue, r)
          <6>1. /\ DOMAIN commandQueue = {1, 2} /\ Len(commandQueue) = 2
                /\ commandQueue[1] = Command("ACTIVATE", s, i, p)
                /\ commandQueue[2] = ColumnOf(s)
            BY <5>3
          <6>2. ColumnOf(s).request = s /\ Command("ACTIVATE", s, i, p).type # "COLUMN"
            BY DEF ColumnOf, Command
          <6> QED
            BY <6>1, <6>2 DEF Loaded
        <5> QED
          BY <2>1, <5>1, <5>2, <5>3 DEF QueueInv, QueueShape
      <4>2. r \in transactionQueue => ~Loaded(commandQueue, r) /\ ~Answering(r)
        BY <2>1 DEF QueueInv, WaitingApart
      <4>3. \A x, y \in responses : x.request = r /\ y.request = r => x = y
        BY <2>1 DEF OneAnswer
      <4> QED
        BY <4>1, <4>2, <4>3 DEF Places, Answering
    <3>3. PICK p : Places(r) = {p}
      BY <2>3, <3>2
    <3>4. Cardinality({p}) = 1
      BY FS_Singleton
    <3> QED
      BY <3>1, <3>3, <3>4
  <2> QED
    BY <2>2, <2>3
<1> QED
  BY <1>1, PausingConsistent, PTL

\* An interrupted write is put back without a wake-up (FRFCFS::RequestComplete), and yet
\* the scheduler comes for it while nothing is lost.
THEOREM PutBackAlwaysAwaited == Spec => []PutBackAwaited
<1>1. IndInv => PutBackAwaited
  BY DEF IndInv
<1> QED
  BY <1>1, PausingConsistent, PTL
=============================================================================
