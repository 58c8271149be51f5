----------------------- MODULE MemoryController_proofs -----------------------
(***************************************************************************)
(* The inductive invariant of MemoryController, for every size, policy and *)
(* timing: wake-ups, refreshes served, single issue; and, from it, that    *)
(* the controller's record of the rows follows the commands it queues and  *)
(* that each command finds the row it needs.                               *)
(***************************************************************************)
EXTENDS MemoryController, Lists_proofs, FiniteSetTheorems

\* Every bank and subarray has a command queue, and queues are numbers.
LEMMA QueueFacts ==
    /\ \A bank \in Banks, sa \in SubArrays : QueueOf(bank, sa) \in Queues
    /\ Queues \subseteq Int
    /\ 0 \in Banks /\ 0 \in SubArrays
<1>1. \A bank \in Banks, sa \in SubArrays : QueueOf(bank, sa) \in Int
  <2> SUFFICES ASSUME NEW bank \in Banks, NEW sa \in SubArrays
               PROVE  QueueOf(bank, sa) \in Int
    OBVIOUS
  <2>1. bank \in Int /\ sa \in Int /\ SubArrayNum \in Int
    BY SizesAssumption DEF Banks, SubArrays
  <2>2. bank * SubArrayNum + sa \in Int
    BY <2>1
  <2> QED
    BY <2>1, <2>2, PolicyAssumption DEF QueueOf
<1>2. 0 \in Banks /\ 0 \in SubArrays
  BY SizesAssumption DEF Banks, SubArrays
<1> QED
  BY <1>1, <1>2 DEF Queues

\* With one queue per rank or per bank, every queue is one that NextIssuable looks at.
LEMMA QueuesSeen ==
    ASSUME QueueModel # "PerSubArray"
    PROVE  \A q \in Queues : \E bank \in Banks : q = QueueOf(bank, 0)
  BY PolicyAssumption DEF Queues, QueueOf

\* There are finitely many queues.
LEMMA QueuesFinite == IsFiniteSet(Queues) /\ Cardinality(Queues) \in Nat
<1> DEFINE P == Banks \X SubArrays
           f == [x \in P |-> QueueOf(x[1], x[2])]
<1>1. IsFiniteSet(Banks) /\ IsFiniteSet(SubArrays)
  <2>1. BANKS - 1 \in Int /\ SubArrayNum - 1 \in Int
    BY SizesAssumption
  <2> QED
    BY <2>1, FS_Interval DEF Banks, SubArrays
<1>2. IsFiniteSet(P)
  BY <1>1, FS_Product
<1>3. f \in [P -> Queues]
  BY QueueFacts
<1>4. ASSUME NEW q \in Queues PROVE \E x \in P : f[x] = q
  <2>1. PICK bank \in Banks, sa \in SubArrays : q = QueueOf(bank, sa)
    BY DEF Queues
  <2>2. <<bank, sa>> \in P /\ f[<<bank, sa>>] = q
    BY <2>1
  <2> QED BY <2>2
<1>5. f \in Surjection(P, Queues)
  <2> HIDE DEF f, P
  <2> QED BY <1>3, <1>4 DEF Surjection
<1> HIDE DEF f, P
<1> QED
  BY <1>2, <1>5, FS_Surjection, FS_CardinalityType

\* The bank groups: at least one, and each begins with a bank.
LEMMA GroupFacts ==
    /\ Cardinality(Groups) \in Nat \ {0}
    /\ Groups \subseteq Nat
    /\ \A g \in Groups : GroupHead(g) \in Banks
    /\ \A bank \in Banks : GroupOf(bank) \in Int
<1> DEFINE n == BANKS \div BanksPerRefresh
<1>1. n \in Nat /\ BANKS = n * BanksPerRefresh /\ n > 0
  BY SizesAssumption, RefreshAssumption
<1>2. Cardinality(Groups) = n
  <2> HIDE DEF n
  <2>1. Cardinality(0 .. n - 1) = n
    BY <1>1, FS_Interval
  <2> QED BY <2>1 DEF Groups, n
<1>3. ASSUME NEW g \in Groups PROVE GroupHead(g) \in Banks
  <2> HIDE DEF n
  <2>1. g \in 0 .. n - 1
    BY DEF Groups, n
  <2>2. BanksPerRefresh \in Nat /\ g \in Nat /\ g + 1 <= n
    BY <2>1, <1>1, RefreshAssumption
  <2>3. (g + 1) * BanksPerRefresh <= n * BanksPerRefresh
    BY <2>2, <1>1
  <2>4. g * BanksPerRefresh \in Nat /\ g * BanksPerRefresh + BanksPerRefresh <= BANKS
    BY <2>2, <2>3, <1>1
  <2> QED
    BY <2>4, SizesAssumption, RefreshAssumption DEF GroupHead, Banks
<1>4. ASSUME NEW bank \in Banks PROVE GroupOf(bank) \in Int
  BY SizesAssumption, RefreshAssumption DEF GroupOf, Banks
<1> QED
  BY <1>1, <1>2, <1>3, <1>4 DEF Groups

-----------------------------------------------------------------------------
(* The operators the actions are built from.                                *)

\* A command queue is a list of commands.
CommandLists == [Queues -> Seq(Commands)]

\* A row of integer measures has an element of least measure: the CHOOSE of
\* ServedQueue and of RefreshCallback is not empty.
LEMMA LeastMeasure ==
    ASSUME NEW S, S # {}, NEW m, \A x \in S : m[x] \in Nat
    PROVE  \E x \in S : \A y \in S : m[x] <= m[y]
<1> DEFINE T == {m[x] : x \in S}
<1>1. T \in SUBSET Nat /\ T # {}
  OBVIOUS
<1>2. PICK n \in T : \A k \in T : n <= k
  <2> HIDE DEF T
  <2> QED BY <1>1, LeastNatural
<1>3. PICK x \in S : n = m[x]
  OBVIOUS
<1>4. \A y \in S : m[x] <= m[y]
  BY <1>2, <1>3
<1> QED
  BY <1>4

\* The queue that is served has a command that can be issued.
LEMMA ServedFacts ==
    ASSUME TypeOK, NEW cq, IssuableQueues(cq) # {}
    PROVE  /\ ServedQueue(cq) \in Queues
           /\ cq[ServedQueue(cq)] # <<>>
           /\ lastIssueCycle # "now"
<1> DEFINE S == IssuableQueues(cq)
           n == Cardinality(Queues)
           m == [q \in S |-> (q - curQueue) % n]
<1>1. S \subseteq Queues /\ lastIssueCycle # "now" /\ \A q \in S : cq[q] # <<>>
  BY DEF IssuableQueues
<1>2. n \in Nat /\ n # 0
  BY <1>1, QueuesFinite, FS_EmptySet
<1>3. curQueue \in Int
  BY QueuesFinite DEF TypeOK
<1>4. \A q \in S : q \in Int
  BY <1>1, QueueFacts
<1> HIDE DEF S, n
<1>5. \A q \in S : m[q] \in Nat
  BY <1>2, <1>3, <1>4
<1> HIDE DEF m
<1>6. \E q \in S : \A p \in S : m[q] <= m[p]
  <2>1. S # {} BY DEF S
  <2> QED BY <2>1, <1>5, LeastMeasure
<1>7. \E q \in S : \A p \in S : (q - curQueue) % n <= (p - curQueue) % n
  BY <1>6 DEF m
<1>8. ServedQueue(cq) \in S
  BY <1>7 DEF ServedQueue, S, n
<1> QED
  BY <1>1, <1>8

\* Commands are well formed.
LEMMA CommandFacts ==
    /\ \A type \in Types, bank \in Banks, sa \in SubArrays :
            Command(type, bank, sa) \in Commands
    /\ \A type \in Types, t \in Transactions : RequestCommand(type, t) \in Commands
<1>1. \A type \in Types, bank \in Banks, sa \in SubArrays :
            Command(type, bank, sa) \in Commands
  BY DEF Command, Commands
<1>2. \A type \in Types, t \in Transactions : RequestCommand(type, t) \in Commands
  BY DEF RequestCommand, Commands, Transactions
<1> QED
  BY <1>1, <1>2

\* Issuing a command leaves rows, delays and requests.
LEMMA DeviceFacts ==
    ASSUME TypeOK, NEW c \in Commands, DeviceIssue(c)
    PROVE  /\ openRow' \in [Banks -> [SubArrays -> Rows \cup {NoRow}]]
           /\ busy' \in [Banks -> Nat]
           /\ inFlight' \in SUBSET Requests
<1>1. \A bank \in Banks, sa \in SubArrays :
        RowAfter(c, bank, sa, openRow[bank][sa]) \in Rows \cup {NoRow}
  <2>1. \A bank \in Banks, sa \in SubArrays : openRow[bank][sa] \in Rows \cup {NoRow}
    BY DEF TypeOK
  <2>2. c.row \in Rows \cup {NoRow}
    BY DEF Commands
  <2> QED
    BY <2>1, <2>2, Zenon DEF RowAfter
<1>2. openRow' \in [Banks -> [SubArrays -> Rows \cup {NoRow}]]
  BY <1>1 DEF DeviceIssue
<1>3. busy' \in [Banks -> Nat]
  BY DelaysAssumption DEF DeviceIssue, TypeOK
<1>4. inFlight' \in SUBSET Requests
  <2>1. c.request \in Requests \cup {NoRequest}
    BY DEF Commands
  <2> QED
    BY <2>1 DEF DeviceIssue, TypeOK
<1> QED
  BY <1>2, <1>3, <1>4

\* A wake-up is in the future, and a command in a queue that NextIssuable looks at
\* always gets one.
LEMMA WakeFacts ==
    ASSUME TypeOK, NEW cq \in CommandLists, NEW w \in WakeTimes(cq)
    PROVE  /\ w \in SUBSET Nat
           /\ QueueModel # "PerSubArray" /\ (\E q \in Queues : cq[q] # <<>>) => w # {}
<1> DEFINE nonempty == {b \in Banks : cq[QueueOf(b, 0)] # <<>>}
           heads == {Head(cq[QueueOf(bank, 0)]) : bank \in nonempty}
           T == {1 + busy[c.bank] : c \in heads}
<1>1. WakeTimes(cq) = IF heads = {} THEN {{}} ELSE {{n} : n \in 1 .. Least(T)}
  BY DEF WakeTimes
<1>2. ASSUME heads # {} PROVE w \in SUBSET Nat /\ w # {}
  <2>1. heads \subseteq Commands
    BY QueueFacts, HeadTailProperties DEF CommandLists
  <2>2. T \in SUBSET Nat /\ T # {}
    <3> HIDE DEF heads
    <3>1. \A c \in heads : busy[c.bank] \in Nat
      BY <2>1 DEF Commands, TypeOK
    <3> QED BY <1>2, <3>1
  <2>3. Least(T) \in Nat
    <3> HIDE DEF T
    <3> QED BY <2>2, LeastFacts
  <2>4. PICK n \in 1 .. Least(T) : w = {n}
    <3> HIDE DEF heads, T
    <3> QED BY <1>1, <1>2
  <2> HIDE DEF T
  <2> QED BY <2>3, <2>4
<1>3. ASSUME heads = {} PROVE w = {}
  BY <1>1, <1>3
<1>4. ASSUME QueueModel # "PerSubArray", \E q \in Queues : cq[q] # <<>>
      PROVE  heads # {}
  BY <1>4, QueuesSeen
<1> HIDE DEF heads
<1> QED
  BY <1>2, <1>3, <1>4

\* A waiting transaction belongs to a queue.
LEMMA RequestQueueFacts ==
    ASSUME TypeOK, NEW i \in DOMAIN transactionQueue
    PROVE  transactionQueue[i] \in Transactions /\ RequestQueue(transactionQueue[i]) \in Queues
<1>1. transactionQueue[i] \in Transactions
  BY LenProperties, ElementOfSeq DEF TypeOK
<1>2. ASSUME NEW t \in Transactions PROVE RequestQueue(t) \in Queues
  BY QueueFacts DEF Transactions, RequestQueue
<1> QED
  BY <1>1, <1>2

\* Serving the command queues: an issued command is a head, and its cleanup follows.
LEMMA CycleCommandQueuesFacts ==
    ASSUME TypeOK, IssuedHeads, cleanup # "due",
           NEW cq \in CommandLists,
           \A q \in Queues : commandQueues[q] # <<>> => cq[q] # <<>>,
           CycleCommandQueues(cq)
    PROVE  /\ commandQueues' \in CommandLists
           /\ issued' \in SUBSET Queues
           /\ lastIssueCycle' \in {"now", "past"}
           /\ curQueue' \in 0 .. Cardinality(Queues)
           /\ refreshQueued' \in SUBSET Banks
           /\ cleanup' \in {"none", "next", "due"}
           /\ openRow' \in [Banks -> [SubArrays -> Rows \cup {NoRow}]]
           /\ busy' \in [Banks -> Nat]
           /\ inFlight' \in SUBSET Requests
           /\ IssuedHeads'
<1>1. commandQueues' = cq
  BY DEF CycleCommandQueues
<1>2. \A q \in issued : q \in Queues /\ cq[q] # <<>>
  BY DEF IssuedHeads, TypeOK
<1>3. CASE IssuableQueues(cq) = {}
  <2>1. UNCHANGED <<issued, lastIssueCycle, curQueue, refreshQueued, cleanup,
                    openRow, busy, inFlight>>
    BY <1>3 DEF CycleCommandQueues, deviceVars
  <2> QED
    BY <1>1, <1>2, <2>1 DEF TypeOK, IssuedHeads
<1>4. CASE IssuableQueues(cq) # {}
  <2> DEFINE q == ServedQueue(cq)
             c == Head(cq[q])
  <2>1. q \in Queues /\ cq[q] # <<>>
    BY <1>4, ServedFacts
  <2>2. c \in Commands
    BY <2>1, HeadTailProperties DEF CommandLists
  <2>3. /\ DeviceIssue(c)
        /\ issued' = issued \cup {q}
        /\ refreshQueued' = refreshQueued \ ResetRefreshQueued(c)
        /\ lastIssueCycle' = "now"
        /\ cleanup' = "next"
        /\ curQueue' = MoveCurrentQueue
    BY <1>4 DEF CycleCommandQueues
  <2> HIDE DEF q, c
  <2>4. curQueue' \in 0 .. Cardinality(Queues)
    BY <2>3, QueuesFinite DEF MoveCurrentQueue, TypeOK
  <2>5. IssuedHeads'
    BY <1>1, <1>2, <2>1, <2>3 DEF IssuedHeads
  <2>6. issued' \in SUBSET Queues /\ refreshQueued' \in SUBSET Banks
    BY <2>1, <2>3 DEF TypeOK
  <2> QED
    BY <1>1, <2>2, <2>3, <2>4, <2>5, <2>6, DeviceFacts
<1> QED
  BY <1>3, <1>4

\* What HandleRefresh queues before a REFRESH.
LEMMA PrechargesFacts ==
    ASSUME NEW q, NEW g
    PROVE  Precharges(q, g) \in Seq(Commands)
<1> DEFINE banks == {bank \in GroupBanks(g) \cap activateQueued : QueueOf(bank, 0) = q}
<1>1. IsFiniteSet(Banks)
  <2>1. BANKS - 1 \in Int
    BY SizesAssumption
  <2> QED
    BY <2>1, FS_Interval DEF Banks
<1>2. Cardinality(banks) \in Nat
  <2>1. banks \in SUBSET Banks
    BY DEF GroupBanks
  <2> HIDE DEF banks
  <2> QED BY <1>1, <2>1, FS_Subset, FS_CardinalityType
<1>3. \A i : BankAt(banks, i) \in Banks
  <2> HIDE DEF banks
  <2> SUFFICES ASSUME NEW i PROVE BankAt(banks, i) \in Banks
    OBVIOUS
  <2> DEFINE here == {bank \in banks : Cardinality({b \in banks : b < bank}) = i - 1}
  <2>1. here \subseteq Banks
    BY DEF banks, GroupBanks
  <2>2. \E bank \in Banks : here # {} => bank \in here
    <3> HIDE DEF here
    <3> QED BY <2>1, QueueFacts
  <2> QED
    BY <2>2 DEF BankAt
<1>4. Precharges(q, g)
        = [i \in 1 .. Cardinality(banks) |-> Command("PRECHARGE_ALL", BankAt(banks, i), 0)]
  BY DEF Precharges
<1> HIDE DEF banks
<1>5. \A i \in 1 .. Cardinality(banks) :
        Command("PRECHARGE_ALL", BankAt(banks, i), 0) \in Commands
  BY <1>3, CommandFacts, QueueFacts DEF Types
<1> QED
  BY <1>2, <1>4, <1>5

\* The scheduler picks a place of the transaction queue, or none.
LEMMA NextTransactionFacts ==
    ASSUME TypeOK
    PROVE  NextTransaction \in 0 .. Len(transactionQueue)
<1> DEFINE ready == {i \in DOMAIN transactionQueue : Schedulable(transactionQueue[i])}
           starved == {i \in ready : Starved(transactionQueue[i])}
           hits == {i \in ready : RowHit(transactionQueue[i])}
           active == {i \in ready : Active(transactionQueue[i])}
           n == Len(transactionQueue)
<1>1. n \in Nat /\ DOMAIN transactionQueue = 1 .. n
  BY LenProperties DEF TypeOK
<1>2. \A S \in {starved, hits, active, ready} : S \subseteq 1 .. n
  BY <1>1
<1>3. NextTransaction = CASE starved # {} -> Least(starved)
          [] starved = {} /\ hits # {} -> Least(hits)
          [] starved = {} /\ hits = {} /\ active # {} -> Least(active)
          [] active = {} /\ ready # {} -> Least(ready)
          [] OTHER -> 0
  BY DEF NextTransaction
<1> HIDE DEF starved, hits, active, ready, n
<1>4. \A S \in {starved, hits, active, ready} : S # {} => Least(S) \in 0 .. n
  <2> SUFFICES ASSUME NEW S \in {starved, hits, active, ready}, S # {}
               PROVE  Least(S) \in 0 .. n
    OBVIOUS
  <2>1. S \subseteq 1 .. n
    BY <1>2
  <2>2. S \in SUBSET Nat
    BY <1>1, <2>1
  <2>3. Least(S) \in S
    BY <2>2, LeastFacts
  <2>4. Least(S) \in 1 .. n
    BY <2>1, <2>3, Zenon
  <2> HIDE DEF Least
  <2> QED
    BY <1>1, <2>4
<1>5. 0 \in 0 .. n
  BY <1>1
<1>6. NextTransaction \in 0 .. n
  BY <1>3, <1>4, <1>5, Zenon
<1> QED
  BY <1>6 DEF n

\* The commands of a transaction: a non-empty list.
LEMMA CommandsForFacts ==
    ASSUME NEW t \in Transactions, NEW rest
    PROVE  CommandsFor(t, rest) \in Seq(Commands) /\ CommandsFor(t, rest) # <<>>
<1> DEFINE a == IF Active(t) /\ ~RowHit(t) /\ effectiveRow[t.bank][t.sa] # NoRow /\ UsePrecharge
                THEN <<Command("PRECHARGE", t.bank, t.sa)>> ELSE <<>>
           b == IF RowHit(t) THEN <<>> ELSE <<RequestCommand("ACTIVATE", t)>>
           c == RequestCommand(IF Closes(t, rest) THEN "COLUMN_PRECHARGE" ELSE "COLUMN", t)
<1>1. a \in Seq(Commands)
  <2>1. Command("PRECHARGE", t.bank, t.sa) \in Commands
    BY CommandFacts DEF Types, Transactions
  <2> QED BY <2>1
<1>2. b \in Seq(Commands)
  <2>1. RequestCommand("ACTIVATE", t) \in Commands
    BY CommandFacts DEF Types
  <2> QED BY <2>1
<1>3. c \in Commands
  <2>1. (IF Closes(t, rest) THEN "COLUMN_PRECHARGE" ELSE "COLUMN") \in Types
    BY DEF Types
  <2> QED BY <2>1, CommandFacts
<1>4. CommandsFor(t, rest) = a \o b \o <<c>>
  BY DEF CommandsFor
<1> HIDE DEF a, b, c
<1>5. a \o b \in Seq(Commands)
  BY <1>1, <1>2, ConcatProperties
<1> DEFINE d == a \o b
<1>6. d \in Seq(Commands) /\ <<c>> \in Seq(Commands) /\ Len(<<c>>) = 1
  BY <1>3, <1>5
<1> HIDE DEF d
<1>7. d \o <<c>> \in Seq(Commands) /\ Len(d \o <<c>>) = Len(d) + 1 /\ Len(d) \in Nat
  BY <1>6, ConcatProperties, LenProperties
<1>8. d \o <<c>> # <<>>
  BY <1>7
<1> QED
  BY <1>4, <1>7, <1>8 DEF d

-----------------------------------------------------------------------------
(* The initial state and the steps that only touch a few variables.         *)

\* The constructor and InitQueues establish the invariant.
LEMMA InitInv == Init => IndInv
<1> SUFFICES ASSUME Init PROVE IndInv
  OBVIOUS
<1>1. TypeOK
  <2>1. TREFI \div Cardinality(Groups) \in Nat
    BY GroupFacts, RefreshAssumption
  <2>2. refreshIn \in [Groups -> Nat]
    <3> DEFINE k == TREFI \div Cardinality(Groups)
    <3>1. k \in Nat /\ refreshIn = [g \in Groups |-> TREFI + g * k]
      BY <2>1 DEF Init
    <3> HIDE DEF k
    <3>2. \A g \in Groups : TREFI + g * k \in Nat
      BY <3>1, GroupFacts, RefreshAssumption
    <3> QED BY <3>1, <3>2
  <2>3. delayedRefreshCounter \in [Groups -> Nat]
    BY DEF Init
  <2>4. curQueue \in 0 .. Cardinality(Queues)
    BY QueuesFinite DEF Init
  <2>5. nextRefreshBank \in Banks
    BY QueueFacts DEF Init
  <2>6. transactionQueue \in Seq(Transactions) /\ commandQueues \in [Queues -> Seq(Commands)]
    BY DEF Init
  <2>7. starvationCounter \in [Banks -> [SubArrays -> Nat]]
    BY DEF Init
  <2>8. /\ effectiveRow \in [Banks -> [SubArrays -> Rows \cup {NoRow}]]
        /\ openRow \in [Banks -> [SubArrays -> Rows \cup {NoRow}]]
        /\ busy \in [Banks -> Nat]
    BY DEF Init
  <2> QED
    BY <2>2, <2>3, <2>4, <2>5, <2>6, <2>7, <2>8 DEF Init, TypeOK
<1>2. IssuedHeads
  BY DEF Init, IssuedHeads
<1>3. NoRefreshOwed
  BY RefreshAssumption DEF Init, NoRefreshOwed, NeedRefresh
<1>4. TransactionsAwaited
  BY DEF Init, TransactionsAwaited
<1>5. CommandsAwaited
  BY DEF Init, CommandsAwaited
<1> QED
  BY <1>1, <1>2, <1>3, <1>4, <1>5 DEF IndInv

\* A transaction arrives: an EventCycle is set if its queue is free.
LEMMA EnqueueInv ==
    ASSUME IndInv, NEW t \in Transactions, Enqueue(t)
    PROVE  IndInv'
<1>1. /\ transactionQueue' = Append(transactionQueue, t)
      /\ arrived' = arrived \cup {t.request}
      /\ cycleNow' = IF cycleNow = 0 /\ EffectivelyEmpty(commandQueues, issued, RequestQueue(t))
                     THEN 1 ELSE cycleNow
      /\ UNCHANGED <<queueVars, rowVars, refreshVars, refreshQueued, cycleNext, wake,
                     cleanup, refreshIn, deviceVars>>
  BY DEF Enqueue
<1>2. TypeOK
  BY DEF IndInv
<1>3. t.request \in Requests /\ RequestQueue(t) \in Queues
  BY QueueFacts DEF Transactions, RequestQueue
<1>4. TypeOK'
  <2>1. transactionQueue' \in Seq(Transactions)
    BY <1>1, <1>2, AppendProperties DEF TypeOK
  <2>2. arrived' \in SUBSET Requests /\ cycleNow' \in Nat
    BY <1>1, <1>2, <1>3 DEF TypeOK
  <2> QED
    BY <1>1, <1>2, <2>1, <2>2
    DEF TypeOK, queueVars, rowVars, refreshVars, deviceVars
<1>5. IssuedHeads'
  BY <1>1 DEF IndInv, IssuedHeads, queueVars
<1>6. NoRefreshOwed'
  BY <1>1 DEF IndInv, NoRefreshOwed, NeedRefresh, refreshVars
<1>7. QueueModel # "PerSubArray" => CommandsAwaited'
  BY <1>1 DEF IndInv, CommandsAwaited, queueVars
<1>8. TransactionsAwaited'
  <2> SUFFICES ASSUME NEW i \in DOMAIN transactionQueue',
                      EffectivelyEmpty(commandQueues, issued, RequestQueue(transactionQueue'[i]))
               PROVE  cycleNow' + cycleNext' > 0
    BY <1>1 DEF TransactionsAwaited, queueVars
  <2>1. cycleNow \in Nat /\ cycleNext \in Nat /\ cycleNext' = cycleNext
    BY <1>1, <1>2 DEF TypeOK
  <2>2. CASE i \in DOMAIN transactionQueue
    <3>1. transactionQueue'[i] = transactionQueue[i]
      BY <1>1, <1>2, <2>2, AppendProperties DEF TypeOK
    <3>2. cycleNow + cycleNext > 0
      BY <2>2, <3>1 DEF IndInv, TransactionsAwaited
    <3> QED BY <1>1, <2>1, <3>2
  <2>3. CASE i \notin DOMAIN transactionQueue
    <3>1. transactionQueue'[i] = t
      BY <1>1, <1>2, <2>3, AppendProperties DEF TypeOK
    <3> QED BY <1>1, <2>1, <3>1
  <2> QED BY <2>2, <2>3
<1> QED
  BY <1>4, <1>5, <1>6, <1>7, <1>8 DEF IndInv

\* The device answers.
LEMMA RequestCompleteInv ==
    ASSUME IndInv, NEW r \in Requests, RequestComplete(r)
    PROVE  IndInv'
<1>1. /\ inFlight' = inFlight \ {r}
      /\ UNCHANGED <<transactionQueue, arrived, queueVars, rowVars, refreshVars,
                     refreshQueued, cycleNow, cycleNext, wake, cleanup, refreshIn,
                     openRow, busy>>
  BY DEF RequestComplete
<1>2. TypeOK'
  BY <1>1 DEF IndInv, TypeOK, queueVars, rowVars, refreshVars
<1>3. IssuedHeads' /\ TransactionsAwaited' /\ (QueueModel # "PerSubArray" => CommandsAwaited')
  BY <1>1 DEF IndInv, IssuedHeads, TransactionsAwaited, CommandsAwaited, queueVars
<1>4. NoRefreshOwed'
  BY <1>1 DEF IndInv, NoRefreshOwed, NeedRefresh, refreshVars
<1> QED
  BY <1>2, <1>3, <1>4 DEF IndInv

\* The issued heads are removed.
LEMMA CleanupCallbackInv ==
    ASSUME IndInv, CleanupCallback
    PROVE  IndInv'
<1>1. /\ commandQueues' = [q \in Queues |->
            IF q \in issued THEN Tail(commandQueues[q]) ELSE commandQueues[q]]
      /\ issued' = {}
      /\ cleanup' = "none"
      /\ UNCHANGED <<transactionQueue, arrived, lastIssueCycle, curQueue, rowVars,
                     refreshVars, refreshQueued, cycleNow, cycleNext, wake, refreshIn, deviceVars>>
  BY DEF CleanupCallback
<1>2. \A q \in issued : commandQueues[q] # <<>>
  BY DEF IndInv, IssuedHeads
<1>3. \A q \in Queues : commandQueues[q] \in Seq(Commands)
  BY DEF IndInv, TypeOK
<1>4. \A q \in issued : /\ Tail(commandQueues[q]) \in Seq(Commands)
                        /\ Len(Tail(commandQueues[q])) = Len(commandQueues[q]) - 1
                        /\ Len(commandQueues[q]) \in Nat
  <2>1. issued \subseteq Queues
    BY DEF IndInv, TypeOK
  <2> QED
    BY <1>2, <1>3, <2>1, HeadTailProperties, LenProperties
<1>5. TypeOK'
  <2>1. commandQueues' \in [Queues -> Seq(Commands)]
    BY <1>1, <1>3, <1>4
  <2> QED
    BY <1>1, <2>1 DEF IndInv, TypeOK, rowVars, refreshVars, deviceVars
<1>6. IssuedHeads'
  BY <1>1 DEF IssuedHeads
<1>7. NoRefreshOwed'
  BY <1>1 DEF IndInv, NoRefreshOwed, NeedRefresh, refreshVars
<1>8. \A q \in Queues : EffectivelyEmpty(commandQueues', {}, q)
                        => EffectivelyEmpty(commandQueues, issued, q)
  <2> SUFFICES ASSUME NEW q \in Queues, commandQueues'[q] = <<>>
               PROVE  EffectivelyEmpty(commandQueues, issued, q)
    BY DEF EffectivelyEmpty
  <2>1. CASE q \in issued
    <3>1. Tail(commandQueues[q]) = <<>>
      BY <1>1, <2>1
    <3>2. Len(Tail(commandQueues[q])) = 0
      BY <3>1, EmptySeq
    <3>3. Len(commandQueues[q]) = 1
      BY <1>4, <2>1, <3>2
    <3> QED BY <2>1, <3>3 DEF EffectivelyEmpty
  <2>2. CASE q \notin issued
    BY <1>1, <2>2 DEF EffectivelyEmpty
  <2> QED BY <2>1, <2>2
<1>9. TransactionsAwaited'
  <2> SUFFICES ASSUME NEW i \in DOMAIN transactionQueue,
                      EffectivelyEmpty(commandQueues', {}, RequestQueue(transactionQueue[i]))
               PROVE  cycleNow + cycleNext > 0
    BY <1>1 DEF TransactionsAwaited
  <2>1. RequestQueue(transactionQueue[i]) \in Queues
    BY RequestQueueFacts DEF IndInv
  <2> QED
    BY <1>8, <2>1 DEF IndInv, TransactionsAwaited
<1>10. QueueModel # "PerSubArray" => CommandsAwaited'
  <2>1. \A q \in Queues : commandQueues'[q] # <<>> => commandQueues[q] # <<>>
    BY <1>1, <1>2
  <2> QED
    BY <1>1, <2>1 DEF IndInv, CommandsAwaited
<1> QED
  BY <1>5, <1>6, <1>7, <1>9, <1>10 DEF IndInv

\* The next cycle begins: every pending event comes one cycle closer.
LEMMA TickInv ==
    ASSUME IndInv, Tick
    PROVE  IndInv'
<1>1. TypeOK'
  <2>1. wake' \in SUBSET Nat
    <3>1. \A n \in wake : n \in Nat /\ n # 0
      BY DEF IndInv, TypeOK, Tick
    <3>2. wake' = {n - 1 : n \in wake}
      BY DEF Tick
    <3> QED BY <3>1, <3>2
  <2>2. refreshIn' \in [Groups -> Nat]
    <3>1. UseRefresh => \A g \in Groups : refreshIn[g] \in Nat /\ refreshIn[g] # 0
      BY DEF IndInv, TypeOK, Tick, RefreshDue
    <3>2. refreshIn' = IF UseRefresh THEN [g \in Groups |-> refreshIn[g] - 1] ELSE refreshIn
      BY DEF Tick
    <3>3. refreshIn \in [Groups -> Nat]
      BY DEF IndInv, TypeOK
    <3>4. CASE UseRefresh
      BY <3>1, <3>2, <3>4
    <3>5. CASE ~UseRefresh
      BY <3>2, <3>3, <3>5
    <3> QED BY <3>4, <3>5
  <2>3. busy' \in [Banks -> Nat]
    BY DEF IndInv, TypeOK, Tick
  <2>4. /\ cleanup' \in {"none", "next", "due"}
        /\ cycleNow' \in Nat /\ cycleNext' \in Nat
        /\ arrived' \in SUBSET Requests
        /\ lastIssueCycle' \in {"now", "past"}
        /\ handledRefresh' \in {"now", "past"}
    BY DEF IndInv, TypeOK, Tick
  <2>5. UNCHANGED <<transactionQueue, commandQueues, issued, curQueue, rowVars,
                   delayedRefreshCounter, bankNeedRefresh, refreshQueued, nextRefreshBank,
                   openRow, inFlight>>
    BY DEF Tick
  <2> QED
    BY <2>1, <2>2, <2>3, <2>4, <2>5 DEF IndInv, TypeOK, rowVars
<1>2. IssuedHeads'
  BY DEF IndInv, IssuedHeads, Tick
<1>3. NoRefreshOwed'
  BY DEF IndInv, NoRefreshOwed, NeedRefresh, Tick
<1>4. TransactionsAwaited'
  BY DEF IndInv, TransactionsAwaited, Tick, TypeOK
<1>5. QueueModel # "PerSubArray" => CommandsAwaited'
  <2>1. wake # {} => wake' # {}
    BY DEF Tick
  <2> QED
    BY <2>1 DEF IndInv, CommandsAwaited, Tick
<1> QED
  BY <1>1, <1>2, <1>3, <1>4, <1>5 DEF IndInv

-----------------------------------------------------------------------------
(* The refresh pulse.                                                       *)

\* What HandleRefresh does to the queues: they only grow, one holds the REFRESH.
RefreshQueues(g) ==
    [q \in Queues |->
        commandQueues[q]
        \o (IF UsePrecharge THEN Precharges(q, g) ELSE <<>>)
        \o (IF q = QueueOf(GroupHead(g), 0) THEN <<Command("REFRESH", GroupHead(g), 0)>> ELSE <<>>)]

\* HandleRefresh leaves well-formed queues, none shorter than before.
LEMMA RefreshQueuesFacts ==
    ASSUME TypeOK, NEW g \in Groups
    PROVE  /\ RefreshQueues(g) \in CommandLists
           /\ \A q \in Queues : Len(commandQueues[q]) <= Len(RefreshQueues(g)[q])
<1> SUFFICES ASSUME NEW q \in Queues
             PROVE  /\ RefreshQueues(g)[q] \in Seq(Commands)
                    /\ Len(commandQueues[q]) <= Len(RefreshQueues(g)[q])
  BY DEF RefreshQueues, CommandLists
<1> DEFINE a == commandQueues[q]
           b == IF UsePrecharge THEN Precharges(q, g) ELSE <<>>
           r == Command("REFRESH", GroupHead(g), 0)
           c == IF q = QueueOf(GroupHead(g), 0) THEN <<r>> ELSE <<>>
<1>1. a \in Seq(Commands)
  BY DEF TypeOK
<1>2. b \in Seq(Commands)
  BY PrechargesFacts
<1>3. c \in Seq(Commands)
  <2>1. r \in Commands
    BY CommandFacts, GroupFacts, QueueFacts DEF Types
  <2> HIDE DEF r
  <2> QED BY <2>1
<1>4. RefreshQueues(g)[q] = a \o b \o c
  BY DEF RefreshQueues
<1> HIDE DEF a, b, c
<1> DEFINE d == a \o b
<1>5. d \in Seq(Commands) /\ Len(d) = Len(a) + Len(b)
  BY <1>1, <1>2, ConcatProperties
<1> HIDE DEF d
<1>6. d \o c \in Seq(Commands) /\ Len(d \o c) = Len(d) + Len(c)
  BY <1>3, <1>5, ConcatProperties
<1>7. Len(a) \in Nat /\ Len(b) \in Nat /\ Len(c) \in Nat
  BY <1>1, <1>2, <1>3, LenProperties
<1>8. Len(a) <= Len(d \o c)
  BY <1>5, <1>6, <1>7
<1> QED
  BY <1>4, <1>6, <1>8 DEF a, d

\* Queues that only grow free nothing for a waiting transaction.
LEMMA GrownQueues ==
    ASSUME IndInv, NEW cq \in CommandLists,
           \A p \in Queues : Len(commandQueues[p]) <= Len(cq[p]),
           NEW q \in Queues, EffectivelyEmpty(cq, issued, q)
    PROVE  EffectivelyEmpty(commandQueues, issued, q)
<1>1. commandQueues[q] \in Seq(Commands) /\ cq[q] \in Seq(Commands)
  BY DEF IndInv, TypeOK, CommandLists
<1>2. Len(commandQueues[q]) \in Nat /\ (Len(commandQueues[q]) = 0 <=> commandQueues[q] = <<>>)
  BY <1>1, EmptySeq, LenProperties
<1>3. Len(cq[q]) \in Nat /\ (Len(cq[q]) = 0 <=> cq[q] = <<>>)
  BY <1>1, EmptySeq, LenProperties
<1>4. CASE cq[q] = <<>>
  BY <1>2, <1>3, <1>4 DEF EffectivelyEmpty
<1>5. CASE Len(cq[q]) = 1 /\ q \in issued
  <2>1. commandQueues[q] # <<>>
    BY <1>5 DEF IndInv, IssuedHeads
  <2>2. Len(commandQueues[q]) <= Len(cq[q])
    OBVIOUS
  <2>3. Len(commandQueues[q]) # 0 /\ Len(cq[q]) = 1
    BY <1>2, <1>5, <2>1
  <2> DEFINE a == Len(commandQueues[q])
  <2> HIDE DEF a
  <2>4. a = 1
    <3>1. a \in Nat /\ a <= 1 /\ a # 0
      BY <1>2, <2>2, <2>3 DEF a
    <3> QED BY <3>1
  <2> QED BY <1>5, <2>4 DEF EffectivelyEmpty, a
<1> QED
  BY <1>4, <1>5 DEF EffectivelyEmpty

\* The pulse is counted and served at once: no group is owed a refresh afterwards,
\* and the commands queued have a wake-up.
LEMMA RefreshCallbackInv ==
    ASSUME IndInv, NEW g \in Groups, RefreshCallback(g)
    PROVE  IndInv'
<1> DEFINE counter == [delayedRefreshCounter EXCEPT ![g] = @ + 1]
           needy == {h \in Groups : NeedRefresh(counter, h)}
           turn(h) == (h - GroupOf(nextRefreshBank)) % Cardinality(Groups)
           chosen == CHOOSE h \in needy : \A k \in needy : turn(h) <= turn(k)
<1>1. /\ refreshIn' = [refreshIn EXCEPT ![g] = TREFI]
      /\ UNCHANGED <<transactionQueue, arrived, issued, lastIssueCycle, curQueue,
                     starvationCounter, cycleNow, cycleNext, cleanup, openRow, busy, inFlight>>
  BY DEF RefreshCallback, deviceVars
<1>2. \/ /\ needy = {}
         /\ delayedRefreshCounter' = counter
         /\ UNCHANGED <<commandQueues, activateQueued, effectiveRow, refreshQueued,
                         bankNeedRefresh, nextRefreshBank, handledRefresh, wake>>
      \/ needy # {} /\ HandleRefresh(counter, chosen)
  BY DEF RefreshCallback
<1>3. TypeOK /\ delayedRefreshCounter \in [Groups -> Nat] /\ counter \in [Groups -> Nat]
  BY DEF IndInv, TypeOK
<1>4. refreshIn' \in [Groups -> Nat]
  BY <1>1, <1>3, RefreshAssumption DEF TypeOK
<1>5. CASE needy = {}
  <2>0. /\ delayedRefreshCounter' = counter
        /\ UNCHANGED <<commandQueues, activateQueued, effectiveRow, refreshQueued,
                        bankNeedRefresh, nextRefreshBank, handledRefresh, wake>>
    BY <1>2, <1>5
  <2>1. TypeOK'
    <3> HIDE DEF counter, needy
    <3> QED BY <1>1, <1>3, <1>4, <2>0 DEF TypeOK
  <2>2. NoRefreshOwed'
    <3>1. \A h \in Groups : ~NeedRefresh(counter, h)
      BY <1>5
    <3> HIDE DEF counter, needy
    <3> QED BY <2>0, <3>1 DEF NoRefreshOwed, NeedRefresh
  <2>3. /\ IssuedHeads'
        /\ TransactionsAwaited'
        /\ QueueModel # "PerSubArray" => CommandsAwaited'
    <3> HIDE DEF counter, needy
    <3> QED BY <1>1, <2>0 DEF IndInv, IssuedHeads, TransactionsAwaited, CommandsAwaited
  <2> QED
    BY <2>1, <2>2, <2>3 DEF IndInv
<1>6. CASE needy # {}
  <2>1. needy = {g}
    <3>1. \A h \in Groups : h # g => counter[h] = delayedRefreshCounter[h]
      BY <1>3
    <3>2. \A h \in Groups : h # g => ~NeedRefresh(counter, h)
      BY <3>1 DEF IndInv, NoRefreshOwed, NeedRefresh
    <3> QED BY <1>6, <3>2
  <2>2. chosen = g
    <3>1. turn(g) \in Int
      BY GroupFacts, <1>3 DEF TypeOK
    <3> HIDE DEF turn, needy
    <3> QED BY <2>1, <3>1
  <2> DEFINE cq == RefreshQueues(g)
  <2>3. HandleRefresh(counter, g)
    <3> HIDE DEF counter, needy, chosen
    <3> QED BY <1>2, <1>6, <2>2
  <2>4. /\ commandQueues' = cq
        /\ \E w \in WakeTimes(cq) : wake' = wake \cup w
    BY <2>3 DEF HandleRefresh, ScheduleCommandWake, RefreshQueues
  <2>5. delayedRefreshCounter' = [counter EXCEPT ![g] = @ - 1]
    <3> HIDE DEF counter, needy
    <3> QED BY <2>3 DEF HandleRefresh, DecrementRefreshCounter
  <2>6. delayedRefreshCounter' = delayedRefreshCounter
    BY <1>3, <2>5
  <2>7. cq \in CommandLists /\ \A q \in Queues : Len(commandQueues[q]) <= Len(cq[q])
    BY <1>3, RefreshQueuesFacts
  <2> HIDE DEF counter, needy, chosen, cq
  <2>8. wake' \in SUBSET Nat /\ (QueueModel # "PerSubArray" => CommandsAwaited')
    <3>1. PICK w \in WakeTimes(cq) : wake' = wake \cup w
      BY <2>4
    <3>2. /\ w \in SUBSET Nat
          /\ QueueModel # "PerSubArray" /\ (\E q \in Queues : cq[q] # <<>>) => w # {}
      BY <1>3, <2>7, WakeFacts
    <3> QED
      BY <1>3, <2>4, <3>1, <3>2 DEF TypeOK, CommandsAwaited
  <2>9. TypeOK'
    <3>1. /\ effectiveRow' \in [Banks -> [SubArrays -> Rows \cup {NoRow}]]
          /\ activateQueued' \in SUBSET Banks
      BY <1>3, <2>3 DEF HandleRefresh, TypeOK
    <3>2. refreshQueued' \in SUBSET Banks /\ bankNeedRefresh' \in SUBSET Banks
      BY <1>3, <2>3 DEF HandleRefresh, TypeOK, GroupBanks
    <3>3. nextRefreshBank' \in Banks
      <4>1. nextRefreshBank' = (nextRefreshBank + BanksPerRefresh) % BANKS
        BY <2>3 DEF HandleRefresh
      <4>2. nextRefreshBank + BanksPerRefresh \in Int
        BY <1>3, RefreshAssumption DEF TypeOK, Banks
      <4> QED
        BY <4>1, <4>2, SizesAssumption DEF Banks
    <3>4. handledRefresh' \in {"now", "past"}
      BY <2>3 DEF HandleRefresh
    <3> QED
      BY <1>1, <1>3, <1>4, <2>4, <2>6, <2>7, <2>8, <3>1, <3>2, <3>3, <3>4
      DEF TypeOK, CommandLists
  <2>10. IssuedHeads'
    <3>1. \A q \in issued : cq[q] # <<>>
      <4> SUFFICES ASSUME NEW q \in issued PROVE cq[q] # <<>>
        OBVIOUS
      <4>1. q \in Queues /\ commandQueues[q] # <<>> /\ commandQueues[q] \in Seq(Commands)
        BY <1>3 DEF IndInv, IssuedHeads, TypeOK
      <4>2. Len(commandQueues[q]) \in Nat /\ Len(commandQueues[q]) # 0
        BY <4>1, EmptySeq, LenProperties
      <4>3. Len(cq[q]) # 0
        BY <2>7, <4>1, <4>2
      <4> QED BY <4>3, EmptySeq
    <3> QED
      BY <1>1, <2>4, <3>1 DEF IndInv, IssuedHeads
  <2>11. NoRefreshOwed'
    BY <2>6 DEF IndInv, NoRefreshOwed, NeedRefresh
  <2>12. TransactionsAwaited'
    <3> SUFFICES ASSUME NEW i \in DOMAIN transactionQueue,
                        EffectivelyEmpty(cq, issued, RequestQueue(transactionQueue[i]))
                 PROVE  cycleNow + cycleNext > 0
      BY <1>1, <2>4 DEF TransactionsAwaited
    <3>1. RequestQueue(transactionQueue[i]) \in Queues
      BY <1>3, RequestQueueFacts
    <3>2. EffectivelyEmpty(commandQueues, issued, RequestQueue(transactionQueue[i]))
      BY <2>7, <3>1, GrownQueues
    <3> QED
      BY <3>2 DEF IndInv, TransactionsAwaited
  <2> QED
    BY <2>8, <2>9, <2>10, <2>11, <2>12 DEF IndInv
<1> QED
  BY <1>5, <1>6

-----------------------------------------------------------------------------
(* The events that serve the queues.                                        *)

\* An EventCycle: the transaction scheduled gets a wake-up, and Recheck sets an
\* EventCycle for the transactions left behind.
LEMMA CycleInv ==
    ASSUME IndInv, Cycle
    PROVE  IndInv'
<1> DEFINE i == NextTransaction
           t == transactionQueue[i]
           rest == Without(transactionQueue, i)
           cq == IF i = 0 THEN commandQueues
                 ELSE [commandQueues EXCEPT ![RequestQueue(t)] = @ \o CommandsFor(t, rest)]
           n == cycleNext + Wakeups(cq, transactionQueue')
<1>0. TypeOK /\ IssuedHeads /\ cleanup # "due"
  BY DEF IndInv, Cycle
<1>1. /\ cycleNow > 0
      /\ cycleNow' = cycleNow - 1
      /\ UNCHANGED <<arrived, delayedRefreshCounter, bankNeedRefresh, handledRefresh,
                     nextRefreshBank, refreshIn>>
  BY DEF Cycle, refreshVars
<1>2. /\ CycleCommandQueues(cq)
      /\ cycleNext' = Recheck(commandQueues', issued', transactionQueue', n)
  BY DEF Cycle
<1>3. \/ i = 0 /\ UNCHANGED <<transactionQueue, activateQueued, effectiveRow,
                              starvationCounter, wake>>
      \/ i # 0 /\ transactionQueue' = rest /\ RecordRows(t, rest) /\ ScheduleCommandWake(cq)
  BY DEF Cycle, rowVars
<1>4. i \in 0 .. Len(transactionQueue) /\ Len(transactionQueue) \in Nat
  BY <1>0, NextTransactionFacts, LenProperties DEF TypeOK
<1>5. ASSUME i # 0
      PROVE  /\ t \in Transactions /\ RequestQueue(t) \in Queues
             /\ rest \in Seq(Transactions)
             /\ cq = [commandQueues EXCEPT ![RequestQueue(t)] = @ \o CommandsFor(t, rest)]
  <2>1. i \in 1 .. Len(transactionQueue)
    <3> HIDE DEF i
    <3> QED BY <1>4, <1>5
  <2>2. i \in DOMAIN transactionQueue
    BY <1>0, <2>1, LenProperties DEF TypeOK
  <2>3. rest \in Seq(Transactions)
    BY <1>0, <2>1, WithoutFacts DEF TypeOK
  <2>4. t \in Transactions /\ RequestQueue(t) \in Queues
    BY <1>0, <2>2, RequestQueueFacts
  <2> QED
    BY <1>5, <2>3, <2>4
<1>6. cq \in CommandLists /\ \A q \in Queues : commandQueues[q] # <<>> => cq[q] # <<>>
  <2>1. CASE i = 0
    BY <1>0, <2>1 DEF TypeOK, CommandLists
  <2>2. CASE i # 0
    <3> DEFINE more == CommandsFor(t, rest)
               p == RequestQueue(t)
    <3>1. p \in Queues /\ more \in Seq(Commands) /\ more # <<>>
      BY <1>5, <2>2, CommandsForFacts
    <3>2. cq = [commandQueues EXCEPT ![p] = @ \o more]
      BY <1>5, <2>2
    <3> HIDE DEF more, p, cq
    <3>3. commandQueues[p] \in Seq(Commands) /\ commandQueues \in [Queues -> Seq(Commands)]
      BY <1>0, <3>1 DEF TypeOK
    <3>4. commandQueues[p] \o more \in Seq(Commands)
      BY <3>1, <3>3, ConcatProperties
    <3>5. commandQueues[p] \o more # <<>>
      <4>1. Len(more) \in Nat /\ Len(more) # 0 /\ Len(commandQueues[p]) \in Nat
        BY <3>1, <3>3, EmptySeq, LenProperties
      <4>2. Len(commandQueues[p] \o more) = Len(commandQueues[p]) + Len(more)
        BY <3>1, <3>3, ConcatProperties
      <4>3. Len(commandQueues[p] \o more) # 0
        BY <4>1, <4>2
      <4> QED BY <4>3, EmptySeq
    <3> QED
      BY <3>1, <3>2, <3>3, <3>4, <3>5 DEF CommandLists
  <2> QED BY <2>1, <2>2
<1> HIDE DEF i, t, rest, cq
<1>7. transactionQueue' \in Seq(Transactions)
  BY <1>0, <1>3, <1>5 DEF TypeOK
<1>8. /\ activateQueued' \in SUBSET Banks
      /\ effectiveRow' \in [Banks -> [SubArrays -> Rows \cup {NoRow}]]
      /\ starvationCounter' \in [Banks -> [SubArrays -> Nat]]
  <2>1. CASE i = 0
    BY <1>0, <1>3, <2>1 DEF TypeOK
  <2>2. CASE i # 0
    <3>1. RecordRows(t, rest) /\ t.bank \in Banks /\ t.sa \in SubArrays /\ t.row \in Rows
      BY <1>3, <1>5, <2>2 DEF Transactions
    <3>2. activateQueued' \in SUBSET Banks
      BY <1>0, <3>1 DEF RecordRows, TypeOK
    <3>3. effectiveRow' \in [Banks -> [SubArrays -> Rows \cup {NoRow}]]
      <4> DEFINE row == IF Closes(t, rest) THEN NoRow ELSE t.row
      <4>1. row \in Rows \cup {NoRow} /\ effectiveRow' = [effectiveRow EXCEPT ![t.bank][t.sa] = row]
        BY <3>1 DEF RecordRows
      <4> HIDE DEF row
      <4> QED BY <1>0, <3>1, <4>1 DEF TypeOK
    <3>4. starvationCounter' \in [Banks -> [SubArrays -> Nat]]
      <4> DEFINE old == starvationCounter[t.bank][t.sa]
                 count == IF RowHit(t) THEN old + 1 ELSE 0
      <4>1. starvationCounter' = [starvationCounter EXCEPT ![t.bank][t.sa] = count]
        BY <1>0, <3>1 DEF RecordRows, TypeOK
      <4>2. old \in Nat
        BY <1>0, <3>1 DEF TypeOK
      <4>3. count \in Nat
        <5> HIDE DEF old
        <5> QED BY <4>2
      <4> HIDE DEF count
      <4> QED BY <1>0, <3>1, <4>1, <4>3 DEF TypeOK
    <3> QED BY <3>2, <3>3, <3>4
  <2> QED BY <2>1, <2>2
<1>9. /\ wake' \in SUBSET Nat
      /\ QueueModel # "PerSubArray" /\ (\E q \in Queues : cq[q] # <<>>) => wake' # {}
  <2>1. CASE i = 0
    BY <1>0, <1>3, <2>1 DEF TypeOK, IndInv, CommandsAwaited, cq
  <2>2. CASE i # 0
    <3>1. PICK w \in WakeTimes(cq) : wake' = wake \cup w
      BY <1>3, <2>2 DEF ScheduleCommandWake
    <3>2. /\ w \in SUBSET Nat
          /\ QueueModel # "PerSubArray" /\ (\E q \in Queues : cq[q] # <<>>) => w # {}
      BY <1>0, <1>6, WakeFacts
    <3> QED
      BY <1>0, <3>1, <3>2 DEF TypeOK
  <2> QED BY <2>1, <2>2
<1>10. /\ commandQueues' \in CommandLists
       /\ issued' \in SUBSET Queues
       /\ lastIssueCycle' \in {"now", "past"}
       /\ curQueue' \in 0 .. Cardinality(Queues)
       /\ refreshQueued' \in SUBSET Banks
       /\ cleanup' \in {"none", "next", "due"}
       /\ openRow' \in [Banks -> [SubArrays -> Rows \cup {NoRow}]]
       /\ busy' \in [Banks -> Nat]
       /\ inFlight' \in SUBSET Requests
       /\ IssuedHeads'
  BY <1>0, <1>2, <1>6, CycleCommandQueuesFacts
<1>11. n \in Nat
  BY <1>0 DEF Wakeups, TypeOK
<1> HIDE DEF n
<1>12. cycleNow' \in Nat /\ cycleNext' \in Nat
  BY <1>0, <1>1, <1>2, <1>11 DEF Recheck, TypeOK
<1>13. TypeOK'
  BY <1>0, <1>1, <1>7, <1>8, <1>9, <1>10, <1>12 DEF TypeOK, CommandLists
<1>14. NoRefreshOwed'
  BY <1>1 DEF IndInv, NoRefreshOwed, NeedRefresh
<1>15. QueueModel # "PerSubArray" => CommandsAwaited'
  <2>1. commandQueues' = cq
    BY <1>2 DEF CycleCommandQueues
  <2> QED
    BY <1>9, <2>1 DEF CommandsAwaited
<1>16. TransactionsAwaited'
  <2> SUFFICES ASSUME NEW j \in DOMAIN transactionQueue',
                      EffectivelyEmpty(commandQueues', issued', RequestQueue(transactionQueue'[j]))
               PROVE  cycleNow' + cycleNext' > 0
    BY DEF TransactionsAwaited
  <2> DEFINE q == RequestQueue(transactionQueue'[j])
  <2>1. transactionQueue'[j] \in Transactions
    BY <1>7, LenProperties, ElementOfSeq
  <2>2. q \in Queues
    BY <2>1, QueueFacts DEF RequestQueue, Transactions
  <2>3. EffectivelyEmpty(commandQueues', issued', q) /\ TransactionAvailable(transactionQueue', q)
    BY DEF TransactionAvailable
  <2> HIDE DEF q
  <2>4. cycleNext' > 0
    BY <1>2, <1>11, <2>2, <2>3 DEF Recheck
  <2>5. \A a, b \in Nat : b > 0 => a + b > 0
    OBVIOUS
  <2> QED
    BY <1>12, <2>4, <2>5
<1> QED
  BY <1>10, <1>13, <1>14, <1>15, <1>16 DEF IndInv

\* A CommandQueueCallback: the next wake-up is set before a command is issued, and
\* Wakeups sets an EventCycle when a queue is about to become free.
LEMMA CommandQueueCallbackInv ==
    ASSUME IndInv, CommandQueueCallback
    PROVE  IndInv'
<1>0. TypeOK /\ IssuedHeads /\ cleanup # "due" /\ commandQueues \in CommandLists
  BY DEF IndInv, CommandQueueCallback, TypeOK, CommandLists
<1> DEFINE more == Wakeups(commandQueues, transactionQueue)
<1>1. /\ CycleCommandQueues(commandQueues)
      /\ \E w \in WakeTimes(commandQueues) : wake' = (wake \ {0}) \cup w
      /\ cycleNext' = cycleNext + more
      /\ UNCHANGED <<transactionQueue, arrived, activateQueued, effectiveRow, starvationCounter,
                     delayedRefreshCounter, bankNeedRefresh, handledRefresh, nextRefreshBank,
                     cycleNow, refreshIn>>
  BY DEF CommandQueueCallback, rowVars, refreshVars
<1>2. commandQueues' = commandQueues
  BY <1>1 DEF CycleCommandQueues
<1>3. more \in Nat
  BY DEF Wakeups
<1> HIDE DEF more
<1>4. /\ wake' \in SUBSET Nat
      /\ QueueModel # "PerSubArray" => CommandsAwaited'
  <2>1. PICK w \in WakeTimes(commandQueues) : wake' = (wake \ {0}) \cup w
    BY <1>1
  <2>2. /\ w \in SUBSET Nat
        /\ QueueModel # "PerSubArray" /\ (\E q \in Queues : commandQueues[q] # <<>>) => w # {}
    BY <1>0, WakeFacts
  <2> QED
    BY <1>0, <1>2, <2>1, <2>2 DEF TypeOK, CommandsAwaited
<1>5. /\ commandQueues' \in CommandLists
      /\ issued' \in SUBSET Queues
      /\ lastIssueCycle' \in {"now", "past"}
      /\ curQueue' \in 0 .. Cardinality(Queues)
      /\ refreshQueued' \in SUBSET Banks
      /\ cleanup' \in {"none", "next", "due"}
      /\ openRow' \in [Banks -> [SubArrays -> Rows \cup {NoRow}]]
      /\ busy' \in [Banks -> Nat]
      /\ inFlight' \in SUBSET Requests
      /\ IssuedHeads'
  BY <1>0, <1>1, CycleCommandQueuesFacts
<1>6. TypeOK'
  BY <1>0, <1>1, <1>3, <1>4, <1>5 DEF TypeOK, CommandLists
<1>7. NoRefreshOwed'
  BY <1>1 DEF IndInv, NoRefreshOwed, NeedRefresh
<1>8. TransactionsAwaited'
  <2> SUFFICES ASSUME NEW j \in DOMAIN transactionQueue,
                      EffectivelyEmpty(commandQueues, issued', RequestQueue(transactionQueue[j]))
               PROVE  cycleNow + cycleNext' > 0
    BY <1>1, <1>2 DEF TransactionsAwaited
  <2> DEFINE q == RequestQueue(transactionQueue[j])
  <2>1. cycleNow \in Nat /\ cycleNext \in Nat
    BY <1>0 DEF TypeOK
  <2>2. CASE EffectivelyEmpty(commandQueues, issued, q)
    <3>1. cycleNow + cycleNext > 0
      BY <2>2 DEF IndInv, TransactionsAwaited
    <3> QED BY <1>1, <1>3, <2>1, <3>1
  <2>3. CASE ~EffectivelyEmpty(commandQueues, issued, q)
    <3>1. Len(commandQueues[q]) = 1 /\ q \in issued' /\ q \notin issued
      BY <2>3 DEF EffectivelyEmpty
    <3>2. TransactionAvailable(transactionQueue, q)
      BY DEF TransactionAvailable
    <3> HIDE DEF q
    <3>3. IssuableQueues(commandQueues) # {} /\ q = ServedQueue(commandQueues)
      BY <1>1, <3>1 DEF CycleCommandQueues
    <3>4. more = 1
      BY <3>1, <3>2, <3>3 DEF Wakeups, more
    <3> QED BY <1>1, <2>1, <3>4
  <2> QED BY <2>2, <2>3
<1> QED
  BY <1>4, <1>5, <1>6, <1>7, <1>8 DEF IndInv

-----------------------------------------------------------------------------
\* Nothing that IndInv speaks of changes in a stuttering step.
LEMMA StutterInv ==
    ASSUME IndInv, UNCHANGED vars
    PROVE  IndInv'
  BY DEF IndInv, TypeOK, IssuedHeads, NoRefreshOwed, NeedRefresh, TransactionsAwaited,
         CommandsAwaited, EffectivelyEmpty, vars, queueVars, rowVars, refreshVars, deviceVars

\* Every step keeps the invariant.
LEMMA NextInv == IndInv /\ [Next]_vars => IndInv'
<1> SUFFICES ASSUME IndInv, [Next]_vars PROVE IndInv'
  OBVIOUS
<1>1. CASE \E t \in Transactions : Enqueue(t)
  BY <1>1, EnqueueInv
<1>2. CASE \E r \in Requests : RequestComplete(r)
  BY <1>2, RequestCompleteInv
<1>3. CASE CleanupCallback
  BY <1>3, CleanupCallbackInv
<1>4. CASE \E g \in Groups : RefreshCallback(g)
  BY <1>4, RefreshCallbackInv
<1>5. CASE Cycle
  BY <1>5, CycleInv
<1>6. CASE CommandQueueCallback
  BY <1>6, CommandQueueCallbackInv
<1>7. CASE Tick
  BY <1>7, TickInv
<1>8. CASE UNCHANGED vars
  BY <1>8, StutterInv
<1> QED
  BY <1>1, <1>2, <1>3, <1>4, <1>5, <1>6, <1>7, <1>8 DEF Next, EventStep

\* The inductive invariant holds in every reachable state, with every queue model,
\* page policy, refresh setting and device timing: types, the cleanup that follows
\* each issued command, and the wake-ups below.
THEOREM ControllerConsistent == Spec => []IndInv
  BY InitInv, NextInv, PTL DEF Spec

\* The queues, the record, the counters and the pending events keep their types.
THEOREM ControllerTypes == Spec => []TypeOK
<1>1. IndInv => TypeOK
  BY DEF IndInv
<1> QED
  BY <1>1, ControllerConsistent, PTL

\* Enqueue, CycleCommandQueues and Cycle never leave a transaction whose command queue
\* is free without an EventCycle to come.
THEOREM TransactionsNeverForgotten == Spec => []TransactionsAwaited
<1>1. IndInv => TransactionsAwaited
  BY DEF IndInv
<1> QED
  BY <1>1, ControllerConsistent, PTL

\* With one command queue per rank or per bank, ScheduleCommandWake and
\* CommandQueueCallback never leave a queued command without a wake-up.
THEOREM CommandsNeverForgotten ==
    ASSUME QueueModel # "PerSubArray"
    PROVE  Spec => []CommandsAwaited
<1>1. IndInv => CommandsAwaited
  BY DEF IndInv
<1> QED
  BY <1>1, ControllerConsistent, PTL

\* Every refresh pulse is served by the callback that counts it.
THEOREM RefreshesServedAtOnce == Spec => []NoRefreshOwed
<1>1. IndInv => NoRefreshOwed
  BY DEF IndInv
<1> QED
  BY <1>1, ControllerConsistent, PTL

\* While an issued command is in its queue, the device gets no other command.
LEMMA NothingIssued ==
    ASSUME IndInv, issued # {}, Next
    PROVE  \A bank \in Banks : busy'[bank] <= busy[bank]
<1>1. busy \in [Banks -> Nat] /\ \A bank \in Banks : busy[bank] <= busy[bank]
  BY DEF IndInv, TypeOK
<1>2. cleanup = "due" \/ lastIssueCycle = "now"
  BY DEF IndInv, IssuedHeads
<1>3. ASSUME NEW cq, CycleCommandQueues(cq), cleanup # "due" PROVE busy' = busy
  <2>1. IssuableQueues(cq) = {}
    BY <1>2, <1>3 DEF IssuableQueues
  <2> QED
    BY <1>3, <2>1 DEF CycleCommandQueues, deviceVars
<1>4. CASE \E t \in Transactions : Enqueue(t)
  BY <1>1, <1>4 DEF Enqueue, deviceVars
<1>5. CASE \E r \in Requests : RequestComplete(r)
  BY <1>1, <1>5 DEF RequestComplete
<1>6. CASE CleanupCallback
  BY <1>1, <1>6 DEF CleanupCallback, deviceVars
<1>7. CASE \E g \in Groups : RefreshCallback(g)
  <2>1. busy' = busy
    BY <1>7 DEF RefreshCallback, deviceVars
  <2> QED BY <1>1, <2>1
<1>8. CASE Cycle
  <2>1. \E cq : CycleCommandQueues(cq)
    BY <1>8 DEF Cycle
  <2>2. cleanup # "due"
    BY <1>8 DEF Cycle
  <2> QED
    BY <1>1, <1>3, <2>1, <2>2
<1>9. CASE CommandQueueCallback
  <2>1. CycleCommandQueues(commandQueues) /\ cleanup # "due"
    BY <1>9 DEF CommandQueueCallback
  <2> QED
    BY <1>1, <1>3, <2>1
<1>10. CASE Tick
  BY <1>1, <1>10 DEF Tick
<1> QED
  BY <1>4, <1>5, <1>6, <1>7, <1>8, <1>9, <1>10 DEF Next, EventStep

\* CycleCommandQueues issues no command while an issued one is still in its queue,
\* although it does not look at FLAG_ISSUED: none is issued twice.
THEOREM NeverIssuedTwice == Spec => IssuedOnce
<1>1. IndInv /\ [Next]_vars
      => [issued # {} => \A bank \in Banks : busy'[bank] <= busy[bank]]_vars
  BY NothingIssued
<1> QED
  BY <1>1, ControllerConsistent, PTL DEF Spec, IssuedOnce

-----------------------------------------------------------------------------
(* The record of the rows.                                                  *)

\* A command that changes the row of a subarray forgets the one before.
LEMMA RowAfterFacts ==
    ASSUME NEW c, NEW bank, NEW sa, NEW row
    PROVE  /\ ChangesRow(c, bank, sa) => RowAfter(c, bank, sa, row) = RowAfter(c, bank, sa, NoRow)
           /\ ~ChangesRow(c, bank, sa) => RowAfter(c, bank, sa, row) = row
  BY Zenon DEF ChangesRow, RowAfter

\* Only the first k commands matter.
LEMMA RowThenSame ==
    ASSUME NEW open, NEW list, NEW k \in Nat, NEW bank, NEW sa, NEW row,
           NEW more, \A j \in 1 .. k : more[j] = list[j],
           RowThen(open, list, k, bank, sa, row)
    PROVE  RowThen(open, more, k, bank, sa, row)
<1>1. CASE row = open /\ \A j \in 1 .. k : ~ChangesRow(list[j], bank, sa)
  BY <1>1 DEF RowThen
<1>2. ASSUME NEW i \in 1 .. k,
             ChangesRow(list[i], bank, sa), row = RowAfter(list[i], bank, sa, NoRow),
             \A j \in i + 1 .. k : ~ChangesRow(list[j], bank, sa)
      PROVE  RowThen(open, more, k, bank, sa, row)
  <2>1. \A j \in i + 1 .. k : j \in 1 .. k
    OBVIOUS
  <2> QED
    BY <1>2, <2>1 DEF RowThen
<1> QED
  BY <1>1, <1>2 DEF RowThen

\* One command more.
LEMMA RowThenMore ==
    ASSUME NEW open, NEW list, NEW k \in Nat, NEW bank, NEW sa, NEW row,
           RowThen(open, list, k, bank, sa, row)
    PROVE  RowThen(open, list, k + 1, bank, sa, RowAfter(list[k + 1], bank, sa, row))
<1>1. CASE ChangesRow(list[k + 1], bank, sa)
  <2>1. k + 1 \in 1 .. k + 1 /\ \A j \in (k + 1) + 1 .. k + 1 : FALSE
    OBVIOUS
  <2>2. RowAfter(list[k + 1], bank, sa, row) = RowAfter(list[k + 1], bank, sa, NoRow)
    BY <1>1, RowAfterFacts
  <2> QED
    BY <1>1, <2>1, <2>2 DEF RowThen
<1>2. CASE ~ChangesRow(list[k + 1], bank, sa)
  <2>1. RowAfter(list[k + 1], bank, sa, row) = row
    BY <1>2, RowAfterFacts
  <2>2. \A j \in 1 .. k + 1 : j \in 1 .. k \/ j = k + 1
    OBVIOUS
  <2>3. CASE row = open /\ \A j \in 1 .. k : ~ChangesRow(list[j], bank, sa)
    BY <1>2, <2>1, <2>2, <2>3 DEF RowThen
  <2>4. ASSUME NEW i \in 1 .. k,
               ChangesRow(list[i], bank, sa), row = RowAfter(list[i], bank, sa, NoRow),
               \A j \in i + 1 .. k : ~ChangesRow(list[j], bank, sa)
        PROVE  RowThen(open, list, k + 1, bank, sa, row)
    <3>1. i \in 1 .. k + 1 /\ \A j \in i + 1 .. k + 1 : j \in i + 1 .. k \/ j = k + 1
      OBVIOUS
    <3> QED
      BY <1>2, <2>4, <3>1 DEF RowThen
  <2> QED
    BY <2>1, <2>3, <2>4 DEF RowThen
<1> QED
  BY <1>1, <1>2

\* The first command is issued.
LEMMA RowThenIssued ==
    ASSUME NEW open, NEW list, NEW k \in Nat \ {0}, NEW bank, NEW sa, NEW row,
           NEW rest, \A j \in 1 .. k - 1 : rest[j] = list[j + 1],
           RowThen(open, list, k, bank, sa, row)
    PROVE  RowThen(RowAfter(list[1], bank, sa, open), rest, k - 1, bank, sa, row)
<1>1. \A j \in 1 .. k - 1 : j + 1 \in 1 .. k
  OBVIOUS
<1>2. CASE row = open /\ \A j \in 1 .. k : ~ChangesRow(list[j], bank, sa)
  <2>1. RowAfter(list[1], bank, sa, open) = open
    <3>1. 1 \in 1 .. k
      OBVIOUS
    <3> QED
      BY <1>2, <3>1, RowAfterFacts
  <2> QED
    BY <1>1, <1>2, <2>1 DEF RowThen
<1>3. ASSUME NEW i \in 1 .. k,
             ChangesRow(list[i], bank, sa), row = RowAfter(list[i], bank, sa, NoRow),
             \A j \in i + 1 .. k : ~ChangesRow(list[j], bank, sa)
      PROVE  RowThen(RowAfter(list[1], bank, sa, open), rest, k - 1, bank, sa, row)
  <2>1. CASE i = 1
    <3>1. row = RowAfter(list[1], bank, sa, open)
      BY <1>3, <2>1, RowAfterFacts
    <3>2. \A j \in 1 .. k - 1 : j + 1 \in i + 1 .. k
      BY <2>1
    <3> QED
      BY <1>3, <3>1, <3>2 DEF RowThen
  <2>2. CASE i # 1
    <3> DEFINE h == i - 1
    <3>1. h \in 1 .. k - 1 /\ rest[h] = list[i]
      <4>1. i - 1 \in 1 .. k - 1 /\ (i - 1) + 1 = i
        BY <2>2
      <4> QED
        BY <4>1
    <3>2. \A j \in h + 1 .. k - 1 : j + 1 \in i + 1 .. k /\ j \in 1 .. k - 1
      BY <2>2
    <3> HIDE DEF h
    <3> QED
      BY <1>3, <3>1, <3>2 DEF RowThen
  <2> QED
    BY <2>1, <2>2
<1> QED
  BY <1>2, <1>3 DEF RowThen

\* Commands that leave a subarray alone.
LEMMA RowThenKept ==
    ASSUME NEW open, NEW list, NEW k \in Nat, NEW n \in Nat, k <= n,
           NEW bank, NEW sa, NEW row,
           \A j \in k + 1 .. n : ~ChangesRow(list[j], bank, sa),
           RowThen(open, list, k, bank, sa, row)
    PROVE  RowThen(open, list, n, bank, sa, row)
<1>1. CASE row = open /\ \A j \in 1 .. k : ~ChangesRow(list[j], bank, sa)
  <2>1. \A j \in 1 .. n : j \in 1 .. k \/ j \in k + 1 .. n
    OBVIOUS
  <2> QED
    BY <1>1, <2>1 DEF RowThen
<1>2. ASSUME NEW i \in 1 .. k,
             ChangesRow(list[i], bank, sa), row = RowAfter(list[i], bank, sa, NoRow),
             \A j \in i + 1 .. k : ~ChangesRow(list[j], bank, sa)
      PROVE  RowThen(open, list, n, bank, sa, row)
  <2>1. i \in 1 .. n /\ \A j \in i + 1 .. n : j \in i + 1 .. k \/ j \in k + 1 .. n
    OBVIOUS
  <2> QED
    BY <1>2, <2>1 DEF RowThen
<1> QED
  BY <1>1, <1>2 DEF RowThen

\* What RowInv says, of any rows, record and lists of pending commands.
Recorded(open, record, cq) ==
    \A bank \in Banks, sa \in SubArrays :
        RowThen(open[bank][sa], cq[QueueOf(bank, sa)], Len(cq[QueueOf(bank, sa)]), bank, sa,
                record[bank][sa])
AllFit(open, cq) ==
    \A q \in Queues : \A k \in DOMAIN cq[q] :
        InPlace(cq[q][k], q) /\ CommandFits(open, cq[q], k)

\* Only the commands of its queue change the rows of a subarray.
LEMMA OtherQueue ==
    ASSUME NEW c, NEW q, InPlace(c, q), NEW bank \in Banks, NEW sa \in SubArrays,
           QueueOf(bank, sa) # q
    PROVE  ~ChangesRow(c, bank, sa)
  BY DEF InPlace, ChangesRow, OpensRow, ClosesRow

\* The head of queue q is issued: the record stays right, and the commands behind it
\* still find what they need.
LEMMA IssueKeepsRows ==
    ASSUME NEW open, NEW record, NEW cq \in CommandLists, NEW rest \in CommandLists,
           NEW q \in Queues, cq[q] # <<>>, rest[q] = Tail(cq[q]),
           \A p \in Queues \ {q} : rest[p] = cq[p],
           NEW after,
           \A bank \in Banks, sa \in SubArrays :
               after[bank][sa] = RowAfter(Head(cq[q]), bank, sa, open[bank][sa]),
           Recorded(open, record, cq), AllFit(open, cq)
    PROVE  Recorded(after, record, rest) /\ AllFit(after, rest)
<1> DEFINE list == cq[q]
           n == Len(list)
<1>1. /\ list \in Seq(Commands) /\ n \in Nat \ {0} /\ DOMAIN list = 1 .. n
      /\ Head(list) = list[1]
      /\ rest[q] \in Seq(Commands) /\ Len(rest[q]) = n - 1 /\ DOMAIN rest[q] = 1 .. n - 1
      /\ \A j \in 1 .. n - 1 : rest[q][j] = list[j + 1]
  BY DEF CommandLists
<1>2. InPlace(list[1], q)
  <2>1. 1 \in DOMAIN list
    BY <1>1
  <2> QED
    BY <2>1 DEF AllFit
<1>3. \A bank \in Banks, sa \in SubArrays :
        QueueOf(bank, sa) # q => after[bank][sa] = open[bank][sa]
  BY <1>1, <1>2, OtherQueue, RowAfterFacts
<1>4. ASSUME NEW bank \in Banks, NEW sa \in SubArrays, QueueOf(bank, sa) = q,
             NEW k \in 1 .. n, NEW row, RowThen(open[bank][sa], list, k, bank, sa, row)
      PROVE  RowThen(after[bank][sa], rest[q], k - 1, bank, sa, row)
  <2> HIDE DEF n
  <2>1. k \in Nat \ {0} /\ \A j \in 1 .. k - 1 : rest[q][j] = list[j + 1]
    BY <1>1
  <2>2. RowThen(RowAfter(list[1], bank, sa, open[bank][sa]), rest[q], k - 1, bank, sa, row)
    <3> HIDE DEF list
    <3> QED BY <1>4, <2>1, RowThenIssued
  <2> QED
    BY <1>1, <2>2
<1> HIDE DEF list, n
<1>5. Recorded(after, record, rest)
  <2> SUFFICES ASSUME NEW bank \in Banks, NEW sa \in SubArrays
               PROVE  RowThen(after[bank][sa], rest[QueueOf(bank, sa)],
                              Len(rest[QueueOf(bank, sa)]), bank, sa, record[bank][sa])
    BY DEF Recorded
  <2>1. RowThen(open[bank][sa], cq[QueueOf(bank, sa)], Len(cq[QueueOf(bank, sa)]), bank, sa,
                record[bank][sa])
    BY DEF Recorded
  <2>2. CASE QueueOf(bank, sa) = q
    <3>1. RowThen(open[bank][sa], list, n, bank, sa, record[bank][sa])
      BY <2>1, <2>2 DEF list, n
    <3>2. n \in 1 .. n
      BY <1>1
    <3>3. RowThen(after[bank][sa], rest[q], n - 1, bank, sa, record[bank][sa])
      BY <1>4, <2>2, <3>1, <3>2
    <3> QED
      BY <1>1, <2>2, <3>3
  <2>3. CASE QueueOf(bank, sa) # q
    <3>1. rest[QueueOf(bank, sa)] = cq[QueueOf(bank, sa)]
      BY <2>3, QueueFacts
    <3> QED
      BY <1>3, <2>1, <2>3, <3>1
  <2> QED
    BY <2>2, <2>3
<1>6. AllFit(after, rest)
  <2> SUFFICES ASSUME NEW p \in Queues, NEW k \in DOMAIN rest[p]
               PROVE  InPlace(rest[p][k], p) /\ CommandFits(after, rest[p], k)
    BY DEF AllFit
  <2>1. CASE p = q
    <3>1. k \in 1 .. n - 1 /\ k \in Nat /\ k + 1 \in DOMAIN list /\ (k + 1) - 1 = k
      <4>1. k \in 1 .. n - 1 /\ n \in Nat
        BY <1>1, <2>1
      <4>2. k + 1 \in 1 .. n /\ k \in Nat /\ (k + 1) - 1 = k
        BY <4>1
      <4> QED
        BY <1>1, <4>1, <4>2
    <3>2. rest[q][k] = list[k + 1]
      BY <1>1, <3>1
    <3>3. InPlace(list[k + 1], q) /\ CommandFits(open, list, k + 1)
      BY <3>1 DEF AllFit, list
    <3> DEFINE c == list[k + 1]
    <3>4. c \in Commands
      BY <1>1, <3>1
    <3>5. c.bank \in Banks /\ c.sa \in SubArrays /\ QueueOf(c.bank, c.sa) = q
      BY <3>3, <3>4 DEF Commands, InPlace
    <3> HIDE DEF c
    <3>6. ASSUME NEW row, RowThen(open[c.bank][c.sa], list, (k + 1) - 1, c.bank, c.sa, row)
          PROVE  RowThen(after[c.bank][c.sa], rest[q], k - 1, c.bank, c.sa, row)
      <4>1. k \in 1 .. n
        BY <1>1, <3>1
      <4>2. RowThen(open[c.bank][c.sa], list, k, c.bank, c.sa, row)
        BY <3>1, <3>6
      <4> QED
        BY <1>4, <3>5, <4>1, <4>2
    <3> QED
      BY <2>1, <3>2, <3>3, <3>6 DEF CommandFits, c
  <2>2. CASE p # q
    <3>1. rest[p] = cq[p]
      BY <2>2
    <3>2. k \in DOMAIN cq[p] /\ InPlace(cq[p][k], p) /\ CommandFits(open, cq[p], k)
      BY <3>1 DEF AllFit
    <3>3. cq[p][k] \in Commands
      BY <3>2 DEF CommandLists
    <3>4. after[cq[p][k].bank][cq[p][k].sa] = open[cq[p][k].bank][cq[p][k].sa]
      BY <1>3, <2>2, <3>2, <3>3 DEF InPlace, Commands
    <3> QED
      BY <3>1, <3>2, <3>4 DEF CommandFits
  <2> QED
    BY <2>1, <2>2
<1> QED
  BY <1>5, <1>6

\* A command is queued: the record becomes what it leaves open, and it fits if the
\* record is what it needs.
LEMMA QueueKeepsRows ==
    ASSUME NEW open, NEW record, NEW cq \in CommandLists, NEW more \in CommandLists,
           NEW q \in Queues, NEW c \in Commands, more[q] = Append(cq[q], c),
           \A p \in Queues \ {q} : more[p] = cq[p],
           InPlace(c, q),
           c.type = "ACTIVATE" /\ UsePrecharge => record[c.bank][c.sa] = NoRow,
           c.type \in {"COLUMN", "COLUMN_PRECHARGE"} => record[c.bank][c.sa] = c.row,
           NEW after,
           \A bank \in Banks, sa \in SubArrays :
               after[bank][sa] = RowAfter(c, bank, sa, record[bank][sa]),
           Recorded(open, record, cq), AllFit(open, cq)
    PROVE  Recorded(open, after, more) /\ AllFit(open, more)
<1> DEFINE list == cq[q]
           n == Len(list)
<1>1. /\ list \in Seq(Commands) /\ n \in Nat /\ DOMAIN list = 1 .. n
      /\ more[q] \in Seq(Commands) /\ Len(more[q]) = n + 1 /\ DOMAIN more[q] = 1 .. n + 1
      /\ \A j \in 1 .. n : more[q][j] = list[j]
      /\ more[q][n + 1] = c
  BY DEF CommandLists
<1>2. c.bank \in Banks /\ c.sa \in SubArrays /\ QueueOf(c.bank, c.sa) = q
  BY DEF Commands, InPlace
<1>3. ASSUME NEW bank \in Banks, NEW sa \in SubArrays, QueueOf(bank, sa) = q
      PROVE  RowThen(open[bank][sa], more[q], n, bank, sa, record[bank][sa])
  <2>1. RowThen(open[bank][sa], list, n, bank, sa, record[bank][sa])
    BY <1>3 DEF Recorded
  <2> DEFINE longer == more[q]
             row == record[bank][sa]
  <2>2. n \in Nat /\ \A j \in 1 .. n : longer[j] = list[j]
    BY <1>1
  <2> HIDE DEF list, n, longer, row
  <2>3. RowThen(open[bank][sa], longer, n, bank, sa, row)
    <3>1. RowThen(open[bank][sa], list, n, bank, sa, row)
      BY <2>1 DEF row
    <3> QED
      BY <2>2, <3>1, RowThenSame, SMTT(30)
  <2> QED
    BY <2>3 DEF longer, row
<1> HIDE DEF list, n
<1>4. Recorded(open, after, more)
  <2> SUFFICES ASSUME NEW bank \in Banks, NEW sa \in SubArrays
               PROVE  RowThen(open[bank][sa], more[QueueOf(bank, sa)],
                              Len(more[QueueOf(bank, sa)]), bank, sa, after[bank][sa])
    BY DEF Recorded
  <2>1. CASE QueueOf(bank, sa) = q
    <3>1. RowThen(open[bank][sa], more[q], n + 1, bank, sa,
                  RowAfter(more[q][n + 1], bank, sa, record[bank][sa]))
      BY <1>1, <1>3, <2>1, RowThenMore
    <3> QED
      BY <1>1, <2>1, <3>1
  <2>2. CASE QueueOf(bank, sa) # q
    <3>1. more[QueueOf(bank, sa)] = cq[QueueOf(bank, sa)]
      BY <2>2, QueueFacts
    <3>2. after[bank][sa] = record[bank][sa]
      BY <2>2, OtherQueue, RowAfterFacts
    <3> QED
      BY <3>1, <3>2 DEF Recorded
  <2> QED
    BY <2>1, <2>2
<1>5. AllFit(open, more)
  <2> SUFFICES ASSUME NEW p \in Queues, NEW k \in DOMAIN more[p]
               PROVE  InPlace(more[p][k], p) /\ CommandFits(open, more[p], k)
    BY DEF AllFit
  <2>1. CASE p = q /\ k = n + 1
    <3>1. more[p][k] = c /\ k - 1 = n
      BY <1>1, <2>1
    <3>2. RowThen(open[c.bank][c.sa], more[q], n, c.bank, c.sa, record[c.bank][c.sa])
      BY <1>2, <1>3
    <3> QED
      BY <2>1, <3>1, <3>2 DEF CommandFits
  <2>2. CASE p = q /\ k # n + 1
    <3>1. k \in 1 .. n /\ more[q][k] = list[k] /\ k \in DOMAIN list
          /\ k - 1 \in Nat /\ \A j \in 1 .. k - 1 : j \in 1 .. n
      BY <1>1, <2>2
    <3>2. InPlace(list[k], q) /\ CommandFits(open, list, k)
      BY <3>1 DEF AllFit, list
    <3>3. ASSUME NEW o, NEW bank, NEW sa, NEW row, RowThen(o, list, k - 1, bank, sa, row)
          PROVE  RowThen(o, more[q], k - 1, bank, sa, row)
      <4>1. \A j \in 1 .. k - 1 : more[q][j] = list[j]
        BY <1>1, <3>1
      <4> QED
        BY <3>1, <3>3, <4>1, RowThenSame
    <3> QED
      BY <2>2, <3>1, <3>2, <3>3 DEF CommandFits
  <2>3. CASE p # q
    <3>1. more[p] = cq[p]
      BY <2>3
    <3> QED
      BY <3>1 DEF AllFit
  <2> QED
    BY <2>1, <2>2, <2>3
<1> QED
  BY <1>4, <1>5

\* The commands of the queues still to be issued.
PendingLists(cq, flagged) == [q \in Queues |-> IF q \in flagged THEN Tail(cq[q]) ELSE cq[q]]

\* A bank counts as active when a row of it will be open.
ActiveRight(record, active) ==
    \A bank \in Banks : bank \in active <=> \E s \in SubArrays : record[bank][s] # NoRow

\* The record, its rows and the commands, of this state and of the next.
LEMMA RowInvParts ==
    RowInv <=> /\ Recorded(openRow, effectiveRow, PendingLists(commandQueues, issued))
               /\ AllFit(openRow, PendingLists(commandQueues, issued))
               /\ ActiveRight(effectiveRow, activateQueued)
<1>1. \A q \in Queues : PendingLists(commandQueues, issued)[q] = Pending(q)
  BY DEF PendingLists, Pending
<1> DEFINE P == PendingLists(commandQueues, issued)
<1> HIDE DEF P
<1>2. CommandsFit <=> AllFit(openRow, P)
  BY <1>1, Zenon DEF CommandsFit, AllFit, P
<1>3. RecordMatchesDevice <=> Recorded(openRow, effectiveRow, P) /\ ActiveRight(effectiveRow, activateQueued)
  <2>1. \A bank \in Banks, sa \in SubArrays : P[QueueOf(bank, sa)] = Pending(QueueOf(bank, sa))
    BY <1>1, QueueFacts DEF P
  <2>2. 0 \in SubArrays
    BY QueueFacts
  <2> QED
    BY <2>1, <2>2, Zenon DEF RecordMatchesDevice, Recorded, ActiveRight
<1> QED
  BY <1>2, <1>3 DEF RowInv, P

\* The same parts make the invariant of the next state.
LEMMA RowInvPartsPrimed ==
    ASSUME Recorded(openRow', effectiveRow', PendingLists(commandQueues', issued')),
           AllFit(openRow', PendingLists(commandQueues', issued')),
           ActiveRight(effectiveRow', activateQueued')
    PROVE  RowInv'
<1>1. \A q \in Queues : PendingLists(commandQueues', issued')[q] = Pending(q)'
  BY DEF PendingLists, Pending
<1> DEFINE P == PendingLists(commandQueues', issued')
<1> HIDE DEF P
<1>2. CommandsFit'
  <2>1. AllFit(openRow', P)
    BY DEF P
  <2> QED
    BY <1>1, <2>1, Zenon DEF CommandsFit, AllFit, P
<1>3. RecordMatchesDevice'
  <2>1. \A bank \in Banks, sa \in SubArrays : P[QueueOf(bank, sa)] = Pending(QueueOf(bank, sa))'
    BY <1>1, QueueFacts DEF P
  <2>2. Recorded(openRow', effectiveRow', P)
    BY DEF P
  <2> QED
    BY <2>1, <2>2, Zenon DEF RecordMatchesDevice, Recorded, ActiveRight
<1> QED
  BY <1>2, <1>3 DEF RowInv

\* The lists of pending commands are lists of commands.
LEMMA PendingListsFacts ==
    ASSUME NEW cq \in CommandLists, NEW flagged, \A q \in flagged : cq[q] # <<>>
    PROVE  PendingLists(cq, flagged) \in CommandLists
<1>1. \A q \in Queues : PendingLists(cq, flagged)[q] \in Seq(Commands)
  <2> SUFFICES ASSUME NEW q \in Queues PROVE PendingLists(cq, flagged)[q] \in Seq(Commands)
    OBVIOUS
  <2>1. cq[q] \in Seq(Commands)
    BY DEF CommandLists
  <2>2. q \in flagged => Tail(cq[q]) \in Seq(Commands)
    BY <2>1
  <2> QED
    BY <2>1, <2>2 DEF PendingLists
<1> QED
  BY <1>1 DEF CommandLists, PendingLists

\* Nothing is recorded, queued or open.
LEMMA InitRows == Init => RowInv
<1> SUFFICES ASSUME Init PROVE RowInv
  OBVIOUS
<1> DEFINE P == PendingLists(commandQueues, issued)
<1>1. \A q \in Queues : P[q] = <<>> /\ Len(P[q]) = 0 /\ DOMAIN P[q] = {}
  BY DEF Init, PendingLists
<1>2. \A bank \in Banks, sa \in SubArrays : openRow[bank][sa] = NoRow /\ effectiveRow[bank][sa] = NoRow
  BY DEF Init
<1> HIDE DEF P
<1>3. Recorded(openRow, effectiveRow, P)
  <2> SUFFICES ASSUME NEW bank \in Banks, NEW sa \in SubArrays
               PROVE  RowThen(openRow[bank][sa], P[QueueOf(bank, sa)], Len(P[QueueOf(bank, sa)]),
                              bank, sa, effectiveRow[bank][sa])
    BY DEF Recorded
  <2>1. Len(P[QueueOf(bank, sa)]) = 0
    BY <1>1, QueueFacts
  <2> QED
    BY <1>2, <2>1 DEF RowThen
<1>4. AllFit(openRow, P)
  BY <1>1 DEF AllFit
<1>5. ActiveRight(effectiveRow, activateQueued)
  BY <1>2 DEF ActiveRight, Init
<1> QED
  BY <1>3, <1>4, <1>5, RowInvParts DEF P

\* A step that changes neither the record, nor the rows, nor what is to be issued.
LEMMA SameRows ==
    ASSUME RowInv, PendingLists(commandQueues', issued') = PendingLists(commandQueues, issued),
           UNCHANGED <<openRow, effectiveRow, activateQueued>>
    PROVE  RowInv'
  BY RowInvParts, RowInvPartsPrimed

\* CleanupCallback removes what was issued.
LEMMA CleanupRows ==
    ASSUME IndInv, RowInv, CleanupCallback
    PROVE  RowInv'
<1>1. /\ commandQueues' = PendingLists(commandQueues, issued) /\ issued' = {}
      /\ UNCHANGED <<openRow, effectiveRow, activateQueued>>
  BY DEF CleanupCallback, PendingLists, deviceVars, rowVars
<1>2. PendingLists(commandQueues', issued') = PendingLists(commandQueues, issued)
  BY <1>1 DEF PendingLists
<1> QED
  BY <1>1, <1>2, SameRows

\* CycleCommandQueues, with the lists cq and the record right for them: it issues one head
\* or none. Nothing else is flagged as issued when it does.
LEMMA CycleCommandQueuesRows ==
    ASSUME TypeOK, IssuedHeads, cleanup # "due", NEW cq \in CommandLists,
           \A q \in issued : cq[q] # <<>>,
           CycleCommandQueues(cq), NEW record,
           Recorded(openRow, record, PendingLists(cq, issued)),
           AllFit(openRow, PendingLists(cq, issued))
    PROVE  /\ Recorded(openRow', record, PendingLists(commandQueues', issued'))
           /\ AllFit(openRow', PendingLists(commandQueues', issued'))
<1>1. commandQueues' = cq
  BY DEF CycleCommandQueues
<1>2. CASE IssuableQueues(cq) = {}
  <2>1. UNCHANGED <<issued, openRow>>
    BY <1>2 DEF CycleCommandQueues, deviceVars
  <2> QED
    BY <1>1, <2>1
<1>3. CASE IssuableQueues(cq) # {}
  <2> DEFINE q == ServedQueue(cq)
             P == PendingLists(cq, issued)
             Q == PendingLists(cq, issued')
  <2>1. q \in Queues /\ cq[q] # <<>> /\ lastIssueCycle # "now"
    BY <1>3, ServedFacts
  <2>2. issued = {}
    BY <2>1 DEF IssuedHeads
  <2>3. DeviceIssue(Head(cq[q])) /\ issued' = {q}
    BY <1>3, <2>2 DEF CycleCommandQueues
  <2> HIDE DEF q
  <2>4. /\ P \in CommandLists /\ Q \in CommandLists /\ P[q] = cq[q]
        /\ Q[q] = Tail(P[q]) /\ \A p \in Queues \ {q} : Q[p] = P[p]
    <3>1. P \in CommandLists /\ Q \in CommandLists
      BY <2>1, <2>2, <2>3, PendingListsFacts
    <3> QED
      BY <2>1, <2>2, <2>3, <3>1 DEF PendingLists
  <2>5. \A bank \in Banks, sa \in SubArrays :
            openRow'[bank][sa] = RowAfter(Head(P[q]), bank, sa, openRow[bank][sa])
    BY <2>3, <2>4 DEF DeviceIssue
  <2> HIDE DEF P, Q
  <2>6. Recorded(openRow, record, P) /\ AllFit(openRow, P) /\ P[q] # <<>>
    BY <2>1, <2>4 DEF P
  <2>7. Recorded(openRow', record, Q) /\ AllFit(openRow', Q)
    BY <2>1, <2>4, <2>5, <2>6, IssueKeepsRows
  <2> QED
    BY <1>1, <2>7 DEF Q
<1> QED
  BY <1>2, <1>3

\* CommandQueueCallback schedules nothing.
LEMMA CommandQueueCallbackRows ==
    ASSUME IndInv, RowInv, CommandQueueCallback
    PROVE  RowInv'
<1>1. /\ TypeOK /\ IssuedHeads /\ cleanup # "due" /\ commandQueues \in CommandLists
      /\ CycleCommandQueues(commandQueues) /\ UNCHANGED <<effectiveRow, activateQueued>>
      /\ \A q \in issued : commandQueues[q] # <<>>
  BY DEF IndInv, CommandQueueCallback, TypeOK, CommandLists, IssuedHeads, rowVars
<1>2. /\ Recorded(openRow', effectiveRow, PendingLists(commandQueues', issued'))
      /\ AllFit(openRow', PendingLists(commandQueues', issued'))
  BY <1>1, RowInvParts, CycleCommandQueuesRows
<1> QED
  BY <1>1, <1>2, RowInvParts, RowInvPartsPrimed

\* Appending behind an issued head is appending to what is pending.
LEMMA TailConcat ==
    ASSUME NEW S, NEW s \in Seq(S), s # <<>>, NEW x \in Seq(S)
    PROVE  s \o x # <<>> /\ Tail(s \o x) = Tail(s) \o x
<1> DEFINE a == s \o x
           b == Tail(s) \o x
           n == Len(s)
           m == Len(x)
<1>1. n \in Nat \ {0} /\ m \in Nat
  BY EmptySeq, LenProperties
<1>2. /\ Tail(s) \in Seq(S) /\ Len(Tail(s)) = n - 1
      /\ \A i \in 1 .. n - 1 : Tail(s)[i] = s[i + 1]
  BY HeadTailProperties
<1>3. a \in Seq(S) /\ Len(a) = n + m /\ a # <<>>
      /\ \A i \in 1 .. n + m : a[i] = IF i <= n THEN s[i] ELSE x[i - n]
  <2>1. a \in Seq(S) /\ Len(a) = n + m
        /\ \A i \in 1 .. n + m : a[i] = IF i <= n THEN s[i] ELSE x[i - n]
    BY ConcatProperties
  <2> HIDE DEF a, n, m
  <2> QED
    BY <1>1, <2>1, EmptySeq
<1>4. b \in Seq(S) /\ Len(b) = (n - 1) + m
      /\ \A i \in 1 .. (n - 1) + m : b[i] = IF i <= n - 1 THEN Tail(s)[i] ELSE x[i - (n - 1)]
  BY <1>2, ConcatProperties
<1> HIDE DEF a, b, n, m
<1>5. /\ Tail(a) \in Seq(S) /\ Len(Tail(a)) = (n + m) - 1
      /\ \A i \in 1 .. (n + m) - 1 : Tail(a)[i] = a[i + 1]
  BY <1>3, HeadTailProperties
<1>6. Len(Tail(a)) = Len(b)
  BY <1>1, <1>4, <1>5
<1>7. ASSUME NEW i \in 1 .. Len(Tail(a)) PROVE Tail(a)[i] = b[i]
  <2>1. i \in 1 .. (n + m) - 1 /\ i + 1 \in 1 .. n + m /\ i \in 1 .. (n - 1) + m
    BY <1>1, <1>5
  <2>2. CASE i <= n - 1
    <3>1. i + 1 <= n /\ i \in 1 .. n - 1
      BY <1>1, <2>1, <2>2
    <3> QED
      BY <1>2, <1>3, <1>4, <1>5, <2>1, <2>2, <3>1
  <2>3. CASE ~(i <= n - 1)
    <3>1. ~(i + 1 <= n) /\ (i + 1) - n = i - (n - 1)
      BY <1>1, <2>1, <2>3
    <3> QED
      BY <1>3, <1>4, <1>5, <2>1, <2>3, <3>1
  <2> QED
    BY <2>2, <2>3
<1>8. Tail(a) = b
  BY <1>4, <1>5, <1>6, <1>7, SeqEqual
<1> QED
  BY <1>3, <1>8 DEF a, b

\* The row that a command for a subarray leaves there; the other subarrays keep theirs.
LEMMA CommandRow ==
    ASSUME NEW c, c.type \in {"ACTIVATE", "COLUMN", "COLUMN_PRECHARGE", "PRECHARGE"},
           NEW bank, NEW sa, NEW row
    PROVE  /\ ~(bank = c.bank /\ sa = c.sa) => RowAfter(c, bank, sa, row) = row
           /\ bank = c.bank /\ sa = c.sa =>
                /\ c.type = "ACTIVATE" => RowAfter(c, bank, sa, row) = c.row
                /\ c.type \in {"COLUMN_PRECHARGE", "PRECHARGE"} =>
                        RowAfter(c, bank, sa, row) = NoRow
                /\ c.type = "COLUMN" => RowAfter(c, bank, sa, row) = row
<1>1. CASE c.type = "ACTIVATE"
  BY <1>1 DEF RowAfter, OpensRow, ClosesRow
<1>2. CASE c.type = "COLUMN"
  BY <1>2 DEF RowAfter, OpensRow, ClosesRow
<1>3. CASE c.type \in {"COLUMN_PRECHARGE", "PRECHARGE"}
  BY <1>3 DEF RowAfter, OpensRow, ClosesRow
<1> QED
  BY <1>1, <1>2, <1>3

\* The record, seen as right for the lists of pending commands.
RowsRight(open, record, cq) == Recorded(open, record, cq) /\ AllFit(open, cq)

\* Command c is queued in q, and the record becomes what it leaves open.
Queued(cq, more, q, c, record, after) ==
    /\ more[q] = Append(cq[q], c)
    /\ \A p \in Queues \ {q} : more[p] = cq[p]
    /\ InPlace(c, q)
    /\ c.type = "ACTIVATE" /\ UsePrecharge => record[c.bank][c.sa] = NoRow
    /\ c.type \in {"COLUMN", "COLUMN_PRECHARGE"} => record[c.bank][c.sa] = c.row
    /\ \A bank \in Banks, sa \in SubArrays :
            after[bank][sa] = RowAfter(c, bank, sa, record[bank][sa])

\* QueueKeepsRows, of a command that is queued so.
LEMMA QueuedKeepsRows ==
    ASSUME NEW open, NEW record, NEW cq \in CommandLists, NEW more \in CommandLists,
           NEW q \in Queues, NEW c \in Commands, NEW after,
           Queued(cq, more, q, c, record, after), RowsRight(open, record, cq)
    PROVE  RowsRight(open, after, more)
<1>1. /\ more[q] = Append(cq[q], c)
      /\ \A p \in Queues \ {q} : more[p] = cq[p]
      /\ InPlace(c, q)
      /\ c.type = "ACTIVATE" /\ UsePrecharge => record[c.bank][c.sa] = NoRow
      /\ c.type \in {"COLUMN", "COLUMN_PRECHARGE"} => record[c.bank][c.sa] = c.row
      /\ \A bank \in Banks, sa \in SubArrays :
            after[bank][sa] = RowAfter(c, bank, sa, record[bank][sa])
  BY DEF Queued
<1>2. Recorded(open, record, cq) /\ AllFit(open, cq)
  BY DEF RowsRight
<1>3. Recorded(open, after, more) /\ AllFit(open, more)
  BY <1>1, <1>2, QueueKeepsRows
<1> QED
  BY <1>3 DEF RowsRight

\* Two concatenations of three lists.
LEMMA ConcatThree ==
    ASSUME NEW S, NEW s \in Seq(S), NEW a \in Seq(S), NEW b \in Seq(S), NEW e \in S
    PROVE  s \o ((a \o b) \o <<e>>) = Append((s \o a) \o b, e)
<1> DEFINE x == <<e>>
           y == a \o b
<1>1. x \in Seq(S)
  OBVIOUS
<1>2. y \in Seq(S) /\ s \o a \in Seq(S)
  BY ConcatProperties
<1> HIDE DEF x, y
<1>3. (s \o y) \o x = s \o (y \o x)
  BY <1>1, <1>2, ConcatAssociative
<1>4. (s \o a) \o b = s \o y
  BY ConcatAssociative DEF y
<1>5. s \o y \in Seq(S)
  BY <1>2, ConcatProperties
<1>6. Append(s \o y, e) = (s \o y) \o x
  BY <1>5, AppendIsConcat DEF x
<1> QED
  BY <1>3, <1>4, <1>6 DEF x, y

\* The commands that IssueMemoryCommands makes for a transaction.
LEMMA MadeCommands ==
    ASSUME NEW t \in Transactions, NEW type \in {"ACTIVATE", "COLUMN", "COLUMN_PRECHARGE"}
    PROVE  /\ RequestCommand(type, t) \in Commands
           /\ RequestCommand(type, t).type = type
           /\ RequestCommand(type, t).bank = t.bank /\ RequestCommand(type, t).sa = t.sa
           /\ RequestCommand(type, t).row = t.row
           /\ Command("PRECHARGE", t.bank, t.sa) \in Commands
           /\ Command("PRECHARGE", t.bank, t.sa).type = "PRECHARGE"
           /\ Command("PRECHARGE", t.bank, t.sa).bank = t.bank
           /\ Command("PRECHARGE", t.bank, t.sa).sa = t.sa
<1>1. type \in Types /\ "PRECHARGE" \in Types /\ t.bank \in Banks /\ t.sa \in SubArrays
  BY DEF Types, Transactions
<1> QED
  BY <1>1, CommandFacts DEF RequestCommand, Command

\* The record, as it is assigned and as the commands make it, is the same.
LEMMA SameRecord ==
    ASSUME NEW open, NEW record, NEW cq, RowsRight(open, record, cq), NEW other,
           \A bank \in Banks, sa \in SubArrays : other[bank][sa] = record[bank][sa]
    PROVE  RowsRight(open, other, cq)
  BY DEF RowsRight, Recorded

\* Appending one command or none.
Appended(cq, q, x) == [cq EXCEPT ![q] = @ \o x]

\* The list of queue q grows by x, the others stay.
LEMMA AppendedFacts ==
    ASSUME NEW cq \in CommandLists, NEW q \in Queues, NEW x \in Seq(Commands)
    PROVE  /\ Appended(cq, q, x) \in CommandLists
           /\ Appended(cq, q, x)[q] = cq[q] \o x
           /\ \A p \in Queues \ {q} : Appended(cq, q, x)[p] = cq[p]
           /\ x = <<>> => Appended(cq, q, x) = cq
<1>1. cq \in [Queues -> Seq(Commands)] /\ cq[q] \in Seq(Commands)
  BY DEF CommandLists
<1>2. cq[q] \o x \in Seq(Commands)
  BY <1>1, ConcatProperties
<1>3. x = <<>> => cq[q] \o x = cq[q]
  BY <1>1, ConcatEmptySeq
<1> DEFINE longer == cq[q] \o x
<1>5. Appended(cq, q, x) = [cq EXCEPT ![q] = longer]
  BY DEF Appended
<1> HIDE DEF longer
<1>6. longer \in Seq(Commands) /\ (x = <<>> => longer = cq[q])
  BY <1>2, <1>3 DEF longer
<1>7. [cq EXCEPT ![q] = longer] \in CommandLists
  BY <1>1, <1>6 DEF CommandLists
<1>8. [cq EXCEPT ![q] = longer][q] = longer
      /\ \A p \in Queues \ {q} : [cq EXCEPT ![q] = longer][p] = cq[p]
  BY <1>1
<1>9. x = <<>> => [cq EXCEPT ![q] = longer] = cq
  BY <1>1, <1>6
<1> QED
  BY <1>5, <1>7, <1>8, <1>9 DEF longer

\* Two records differ at most in the subarray of a transaction.
SameElsewhere(x, y, t) ==
    \A bank \in Banks, sa \in SubArrays :
        ~(bank = t.bank /\ sa = t.sa) => x[bank][sa] = y[bank][sa]

\* A record that differs from this one in the row of t's subarray is right for the lists.
RowsMoved(open, record, cq, t, row) ==
    \E after : /\ RowsRight(open, after, cq)
               /\ SameElsewhere(after, record, t)
               /\ after[t.bank][t.sa] = row

\* What a command for t's subarray needs of the row there.
FitsRecord(c, record, t) ==
    /\ c.type = "ACTIVATE" /\ UsePrecharge => record[t.bank][t.sa] = NoRow
    /\ c.type \in {"COLUMN", "COLUMN_PRECHARGE"} => record[t.bank][t.sa] = c.row

\* A command of a transaction.
CommandOf(c, t) ==
    /\ c \in Commands /\ c.bank = t.bank /\ c.sa = t.sa
    /\ c.type \in {"ACTIVATE", "COLUMN", "COLUMN_PRECHARGE", "PRECHARGE"}

\* The row of t's subarray when command c is appended.
RowLeft(c, row) ==
    CASE c.type = "ACTIVATE" -> c.row
      [] c.type = "COLUMN" -> row
      [] OTHER -> NoRow

\* The list of queue q grows by one command.
LEMMA AppendedOne ==
    ASSUME NEW cq \in CommandLists, NEW q \in Queues, NEW c \in Commands
    PROVE  /\ Appended(cq, q, <<c>>) \in CommandLists
           /\ Appended(cq, q, <<c>>)[q] = Append(cq[q], c)
           /\ \A p \in Queues \ {q} : Appended(cq, q, <<c>>)[p] = cq[p]
<1> DEFINE x == <<c>>
<1>1. x \in Seq(Commands) /\ cq[q] \in Seq(Commands)
  BY DEF CommandLists
<1>2. cq[q] \o x = Append(cq[q], c)
  BY <1>1, AppendIsConcat
<1> HIDE DEF x
<1>3. /\ Appended(cq, q, x) \in CommandLists
      /\ Appended(cq, q, x)[q] = cq[q] \o x
      /\ \A p \in Queues \ {q} : Appended(cq, q, x)[p] = cq[p]
  BY <1>1, AppendedFacts
<1> QED
  BY <1>2, <1>3 DEF x

\* One command is appended.
LEMMA StepOne ==
    ASSUME NEW open, NEW record, NEW cq \in CommandLists, RowsRight(open, record, cq),
           NEW t \in Transactions, NEW c, CommandOf(c, t), FitsRecord(c, record, t)
    PROVE  /\ Appended(cq, RequestQueue(t), <<c>>) \in CommandLists
           /\ RowsMoved(open, record, Appended(cq, RequestQueue(t), <<c>>), t,
                        RowLeft(c, record[t.bank][t.sa]))
<1> DEFINE q == RequestQueue(t)
           more == Appended(cq, q, <<c>>)
           result == [bank \in Banks |-> [sa \in SubArrays |->
                        RowAfter(c, bank, sa, record[bank][sa])]]
<1>1. /\ c \in Commands /\ c.bank = t.bank /\ c.sa = t.sa
      /\ t.bank \in Banks /\ t.sa \in SubArrays
      /\ c.type \in {"ACTIVATE", "COLUMN", "COLUMN_PRECHARGE", "PRECHARGE"}
  BY DEF CommandOf, Transactions
<1>2. q \in Queues /\ QueueOf(c.bank, c.sa) = q
  BY <1>1, QueueFacts DEF RequestQueue
<1> HIDE DEF q
<1>3. /\ more \in CommandLists /\ more[q] = Append(cq[q], c)
      /\ \A p \in Queues \ {q} : more[p] = cq[p]
  BY <1>1, <1>2, AppendedOne
<1> HIDE DEF more
<1>4. InPlace(c, q)
  BY <1>1, <1>2 DEF InPlace
<1>5. \A bank \in Banks, sa \in SubArrays :
        result[bank][sa] = RowAfter(c, bank, sa, record[bank][sa])
  OBVIOUS
<1> HIDE DEF result
<1>6. RowsRight(open, result, more)
  <2>1. /\ c.type = "ACTIVATE" /\ UsePrecharge => record[c.bank][c.sa] = NoRow
        /\ c.type \in {"COLUMN", "COLUMN_PRECHARGE"} => record[c.bank][c.sa] = c.row
    BY <1>1 DEF FitsRecord
  <2>2. Queued(cq, more, q, c, record, result)
    BY <1>3, <1>4, <1>5, <2>1 DEF Queued
  <2> QED
    BY <1>1, <1>2, <1>3, <2>2, QueuedKeepsRows
<1>7. /\ \A bank \in Banks, sa \in SubArrays :
            ~(bank = t.bank /\ sa = t.sa) => result[bank][sa] = record[bank][sa]
      /\ c.type = "ACTIVATE" => result[t.bank][t.sa] = c.row
      /\ c.type \in {"COLUMN_PRECHARGE", "PRECHARGE"} => result[t.bank][t.sa] = NoRow
      /\ c.type = "COLUMN" => result[t.bank][t.sa] = record[t.bank][t.sa]
  BY <1>1, <1>5, CommandRow
<1>8. result[t.bank][t.sa] = RowLeft(c, record[t.bank][t.sa]) /\ SameElsewhere(result, record, t)
  BY <1>1, <1>7 DEF RowLeft, SameElsewhere
<1>9. RowsMoved(open, record, more, t, RowLeft(c, record[t.bank][t.sa]))
  BY <1>6, <1>8 DEF RowsMoved
<1> QED
  BY <1>3, <1>9 DEF more, q

\* No command is appended.
LEMMA StepNone ==
    ASSUME NEW open, NEW record, NEW cq \in CommandLists, RowsRight(open, record, cq),
           NEW t \in Transactions
    PROVE  /\ Appended(cq, RequestQueue(t), <<>>) \in CommandLists
           /\ RowsMoved(open, record, Appended(cq, RequestQueue(t), <<>>), t, record[t.bank][t.sa])
<1> DEFINE x == <<>>
<1>1. RequestQueue(t) \in Queues
  BY QueueFacts DEF Transactions, RequestQueue
<1>2. x \in Seq(Commands) /\ x = <<>>
  OBVIOUS
<1> HIDE DEF x
<1>3. Appended(cq, RequestQueue(t), x) = cq
  BY <1>1, <1>2, AppendedFacts
<1>4. SameElsewhere(record, record, t)
  BY DEF SameElsewhere
<1>5. RowsMoved(open, record, cq, t, record[t.bank][t.sa])
  BY <1>4 DEF RowsMoved
<1> QED
  BY <1>3, <1>5 DEF x

\* A command, or none, is appended.
LEMMA StepMaybe ==
    ASSUME NEW open, NEW record, NEW cq \in CommandLists, RowsRight(open, record, cq),
           NEW t \in Transactions, NEW c, CommandOf(c, t), NEW made \in BOOLEAN,
           made => FitsRecord(c, record, t),
           NEW x, x = IF made THEN <<c>> ELSE <<>>
    PROVE  /\ Appended(cq, RequestQueue(t), x) \in CommandLists
           /\ RowsMoved(open, record, Appended(cq, RequestQueue(t), x), t,
                        IF made THEN RowLeft(c, record[t.bank][t.sa]) ELSE record[t.bank][t.sa])
<1>1. CASE made
  <2>1. x = <<c>> /\ FitsRecord(c, record, t)
    BY <1>1
  <2>2. /\ Appended(cq, RequestQueue(t), <<c>>) \in CommandLists
        /\ RowsMoved(open, record, Appended(cq, RequestQueue(t), <<c>>), t,
                     RowLeft(c, record[t.bank][t.sa]))
    BY <2>1, StepOne
  <2> QED
    BY <1>1, <2>1, <2>2
<1>2. CASE ~made
  <2>1. x = <<>>
    BY <1>2
  <2> QED
    BY <1>2, <2>1, StepNone
<1> QED
  BY <1>1, <1>2

\* The record that a chain of commands leads to, compared with the first one.
LEMMA StepAgain ==
    ASSUME NEW record, NEW middle, NEW after, NEW t,
           SameElsewhere(middle, record, t), SameElsewhere(after, middle, t)
    PROVE  SameElsewhere(after, record, t)
  BY DEF SameElsewhere

\* The commands of a transaction, one after the other.
LEMMA ThreeSteps ==
    ASSUME NEW open, NEW record, NEW cq \in CommandLists, RowsRight(open, record, cq),
           NEW t \in Transactions,
           NEW pre, CommandOf(pre, t), pre.type = "PRECHARGE",
           NEW act, CommandOf(act, t), act.type = "ACTIVATE", act.row = t.row,
           NEW col, CommandOf(col, t), col.type \in {"COLUMN", "COLUMN_PRECHARGE"}, col.row = t.row,
           NEW closing \in BOOLEAN, NEW opening \in BOOLEAN,
           opening /\ ~closing /\ UsePrecharge => record[t.bank][t.sa] = NoRow,
           ~opening => ~closing /\ record[t.bank][t.sa] = t.row,
           NEW a, a = IF closing THEN <<pre>> ELSE <<>>,
           NEW b, b = IF opening THEN <<act>> ELSE <<>>,
           NEW one, one = Appended(cq, RequestQueue(t), a),
           NEW two, two = Appended(one, RequestQueue(t), b),
           NEW three, three = Appended(two, RequestQueue(t), <<col>>)
    PROVE  RowsMoved(open, record, three, t, RowLeft(col, t.row))
<1>1. /\ one \in CommandLists
      /\ RowsMoved(open, record, one, t,
                   IF closing THEN RowLeft(pre, record[t.bank][t.sa]) ELSE record[t.bank][t.sa])
  <2>1. FitsRecord(pre, record, t)
    BY DEF FitsRecord
  <2> QED
    BY <2>1, StepMaybe
<1>2. RowLeft(pre, record[t.bank][t.sa]) = NoRow
  BY DEF RowLeft
<1>3. PICK R1 : /\ RowsRight(open, R1, one) /\ SameElsewhere(R1, record, t)
                /\ R1[t.bank][t.sa] = IF closing THEN NoRow ELSE record[t.bank][t.sa]
  BY <1>1, <1>2 DEF RowsMoved
<1>4. /\ two \in CommandLists
      /\ RowsMoved(open, R1, two, t,
                   IF opening THEN RowLeft(act, R1[t.bank][t.sa]) ELSE R1[t.bank][t.sa])
  <2>1. opening => FitsRecord(act, R1, t)
    BY <1>3 DEF FitsRecord
  <2> QED
    BY <1>1, <1>3, <2>1, StepMaybe
<1>5. PICK R2 : /\ RowsRight(open, R2, two) /\ SameElsewhere(R2, R1, t)
                /\ R2[t.bank][t.sa] = t.row
  <2>1. RowLeft(act, R1[t.bank][t.sa]) = t.row
    BY DEF RowLeft
  <2>2. ~opening => R1[t.bank][t.sa] = t.row
    BY <1>3
  <2>3. RowsMoved(open, R1, two, t, t.row)
    BY <1>4, <2>1, <2>2
  <2> QED
    BY <2>3 DEF RowsMoved
<1>6. RowsMoved(open, R2, three, t, RowLeft(col, R2[t.bank][t.sa]))
  <2>1. FitsRecord(col, R2, t)
    BY <1>5 DEF FitsRecord
  <2> QED
    BY <1>4, <1>5, <2>1, StepOne
<1>7. PICK R3 : /\ RowsRight(open, R3, three) /\ SameElsewhere(R3, R2, t)
                /\ R3[t.bank][t.sa] = RowLeft(col, t.row)
  BY <1>5, <1>6 DEF RowsMoved
<1>8. SameElsewhere(R3, record, t)
  BY <1>3, <1>5, <1>7, StepAgain
<1> QED
  BY <1>7, <1>8 DEF RowsMoved

\* Appending three times is appending the three lists together.
LEMMA AppendedThrice ==
    ASSUME NEW cq \in CommandLists, NEW q \in Queues, NEW a \in Seq(Commands),
           NEW b \in Seq(Commands), NEW col \in Commands,
           NEW one, one = Appended(cq, q, a), NEW two, two = Appended(one, q, b)
    PROVE  Appended(two, q, <<col>>) = Appended(cq, q, (a \o b) \o <<col>>)
<1> DEFINE x == (a \o b) \o <<col>>
           three == Appended(two, q, <<col>>)
           whole == Appended(cq, q, x)
<1>1. x \in Seq(Commands)
  <2> DEFINE y == <<col>>
             z == a \o b
  <2>1. y \in Seq(Commands) /\ z \in Seq(Commands)
    BY ConcatProperties
  <2> HIDE DEF y, z
  <2>2. z \o y \in Seq(Commands)
    BY <2>1, ConcatProperties
  <2> QED
    BY <2>2 DEF y, z
<1>2. one \in CommandLists /\ one[q] = cq[q] \o a /\ \A p \in Queues \ {q} : one[p] = cq[p]
  BY AppendedFacts
<1>3. two \in CommandLists /\ two[q] = one[q] \o b /\ \A p \in Queues \ {q} : two[p] = one[p]
  BY <1>2, AppendedFacts
<1>4. three \in CommandLists /\ three[q] = Append(two[q], col)
      /\ \A p \in Queues \ {q} : three[p] = two[p]
  BY <1>3, AppendedOne
<1>5. cq[q] \o x = Append((cq[q] \o a) \o b, col)
  <2> DEFINE s == cq[q]
  <2>1. s \in Seq(Commands)
    BY DEF CommandLists
  <2> HIDE DEF s
  <2>2. s \o ((a \o b) \o <<col>>) = Append((s \o a) \o b, col)
    BY <2>1, ConcatThree, SMTT(30)
  <2> QED
    BY <2>2 DEF s
<1> HIDE DEF x, three
<1>6. whole \in CommandLists /\ whole[q] = cq[q] \o x /\ \A p \in Queues \ {q} : whole[p] = cq[p]
  BY <1>1, AppendedFacts
<1> HIDE DEF whole
<1>7. \A p \in Queues : whole[p] = three[p]
  BY <1>2, <1>3, <1>4, <1>5, <1>6
<1>8. three \in [Queues -> Seq(Commands)] /\ whole \in [Queues -> Seq(Commands)]
  BY <1>4, <1>6 DEF CommandLists
<1>9. whole = three
  BY <1>7, <1>8
<1> QED
  BY <1>9 DEF whole, three, x

\* What is pending grows with the queue.
LEMMA AppendedPending ==
    ASSUME NEW cq \in CommandLists, NEW flagged, \A q \in flagged : cq[q] # <<>>,
           NEW q \in Queues, NEW x \in Seq(Commands),
           NEW more, more = Appended(cq, q, x)
    PROVE  /\ PendingLists(more, flagged) = Appended(PendingLists(cq, flagged), q, x)
           /\ more \in CommandLists
           /\ q \in flagged => more[q] # <<>>
           /\ \A p \in Queues \ {q} : more[p] = cq[p]
<1> DEFINE P == PendingLists(cq, flagged)
           Q == PendingLists(more, flagged)
           R == Appended(P, q, x)
<1>1. more \in CommandLists /\ more[q] = cq[q] \o x /\ \A p \in Queues \ {q} : more[p] = cq[p]
  BY AppendedFacts
<1>2. P \in CommandLists
  BY PendingListsFacts
<1>3. (more[q] # <<>> \/ q \notin flagged) /\ Q[q] = P[q] \o x
  <2> DEFINE s == cq[q]
  <2>1. s \in Seq(Commands) /\ (q \in flagged => s # <<>>) /\ more[q] = s \o x
    BY <1>1 DEF CommandLists
  <2>2. /\ P[q] = IF q \in flagged THEN Tail(s) ELSE s
        /\ Q[q] = IF q \in flagged THEN Tail(more[q]) ELSE more[q]
    BY DEF PendingLists
  <2> HIDE DEF s, P, Q
  <2>3. CASE q \in flagged
    <3>1. s \o x # <<>> /\ Tail(s \o x) = Tail(s) \o x
      BY <2>1, <2>3, TailConcat
    <3> QED
      BY <2>1, <2>2, <2>3, <3>1
  <2>4. CASE q \notin flagged
    BY <2>1, <2>2, <2>4
  <2> QED
    BY <2>3, <2>4
<1>4. \A p \in Queues \ {q} : Q[p] = P[p]
  BY <1>1 DEF PendingLists
<1>5. Q = [p \in Queues |-> Q[p]]
  BY DEF PendingLists
<1> HIDE DEF P, Q
<1>6. R \in CommandLists /\ R[q] = P[q] \o x /\ \A p \in Queues \ {q} : R[p] = P[p]
  BY <1>2, AppendedFacts
<1> HIDE DEF R
<1>7. R = [p \in Queues |-> R[p]]
  BY <1>6 DEF CommandLists
<1>8. \A p \in Queues : R[p] = Q[p]
  BY <1>3, <1>4, <1>6
<1>9. R = Q
  BY <1>5, <1>7, <1>8
<1> QED
  BY <1>1, <1>3, <1>9 DEF P, Q, R

\* IssueMemoryCommands: the commands of a transaction fit, one after the other, and they
\* change the row of its subarray.
LEMMA CommandsForRows ==
    ASSUME IndInv, RowInv, NEW t \in Transactions, NEW rest,
           NEW P \in CommandLists, RowsRight(openRow, effectiveRow, P)
    PROVE  RowsMoved(openRow, effectiveRow, Appended(P, RequestQueue(t), CommandsFor(t, rest)), t,
                     IF Closes(t, rest) THEN NoRow ELSE t.row)
<1> DEFINE type == IF Closes(t, rest) THEN "COLUMN_PRECHARGE" ELSE "COLUMN"
           pre == Command("PRECHARGE", t.bank, t.sa)
           act == RequestCommand("ACTIVATE", t)
           col == RequestCommand(type, t)
           closing == Active(t) /\ ~RowHit(t) /\ effectiveRow[t.bank][t.sa] # NoRow /\ UsePrecharge
           opening == ~RowHit(t)
           a == IF closing THEN <<pre>> ELSE <<>>
           b == IF opening THEN <<act>> ELSE <<>>
           q == RequestQueue(t)
           one == Appended(P, q, a)
           two == Appended(one, q, b)
           three == Appended(two, q, <<col>>)
<1>1. q \in Queues
  BY QueueFacts DEF Transactions, RequestQueue
<1>2. /\ CommandsFor(t, rest) = (a \o b) \o <<col>>
      /\ CommandOf(pre, t) /\ CommandOf(act, t) /\ CommandOf(col, t)
      /\ pre.type = "PRECHARGE" /\ act.type = "ACTIVATE" /\ col.type = type
      /\ act.row = t.row /\ col.row = t.row
      /\ closing \in BOOLEAN /\ opening \in BOOLEAN
      /\ a \in Seq(Commands) /\ b \in Seq(Commands)
      /\ opening /\ ~closing /\ UsePrecharge => effectiveRow[t.bank][t.sa] = NoRow
      /\ ~opening => ~closing /\ effectiveRow[t.bank][t.sa] = t.row
  <2>1. type \in {"ACTIVATE", "COLUMN", "COLUMN_PRECHARGE"} /\ type \in {"COLUMN", "COLUMN_PRECHARGE"}
    OBVIOUS
  <2>2. /\ pre \in Commands /\ pre.type = "PRECHARGE" /\ pre.bank = t.bank /\ pre.sa = t.sa
        /\ act \in Commands /\ act.type = "ACTIVATE" /\ act.bank = t.bank /\ act.sa = t.sa
        /\ act.row = t.row
    BY MadeCommands
  <2>3. /\ col \in Commands /\ col.type = type /\ col.bank = t.bank /\ col.sa = t.sa
        /\ col.row = t.row
    <3> HIDE DEF type
    <3> QED
      BY <2>1, MadeCommands
  <2>4. CommandOf(pre, t) /\ CommandOf(act, t) /\ CommandOf(col, t)
    <3> HIDE DEF type, col, act, pre
    <3> QED
      BY <2>1, <2>2, <2>3 DEF CommandOf
  <2>5. CommandsFor(t, rest) = (a \o b) \o <<col>>
    BY Zenon DEF CommandsFor
  <2>6. closing \in BOOLEAN /\ opening \in BOOLEAN
    OBVIOUS
  <2>7. a \in Seq(Commands) /\ b \in Seq(Commands)
    <3> HIDE DEF act, pre
    <3> QED
      BY <2>2
  <2>8. ~Active(t) => effectiveRow[t.bank][t.sa] = NoRow
    <3>1. ActiveRight(effectiveRow, activateQueued) /\ t.bank \in Banks /\ t.sa \in SubArrays
      BY RowInvParts DEF Transactions
    <3> QED
      BY <3>1 DEF Active, ActiveRight
  <2>9. opening /\ ~closing /\ UsePrecharge => effectiveRow[t.bank][t.sa] = NoRow
    BY <2>8
  <2>10. ~opening => ~closing /\ effectiveRow[t.bank][t.sa] = t.row
    BY DEF RowHit
  <2> HIDE DEF a, b, pre, act, col, closing, opening, type
  <2> QED
    BY <2>2, <2>3, <2>4, <2>5, <2>6, <2>7, <2>9, <2>10
<1>3. type \in {"COLUMN", "COLUMN_PRECHARGE"}
  OBVIOUS
<1>4. /\ a = (IF closing THEN <<pre>> ELSE <<>>) /\ b = (IF opening THEN <<act>> ELSE <<>>)
      /\ one = Appended(P, RequestQueue(t), a) /\ two = Appended(one, RequestQueue(t), b)
      /\ three = Appended(two, RequestQueue(t), <<col>>)
  OBVIOUS
<1>5. RowLeft(col, t.row) = IF Closes(t, rest) THEN NoRow ELSE t.row
  BY <1>2 DEF RowLeft
<1> HIDE DEF a, b, pre, act, col, closing, opening, type, one, two, three
<1>6. RowsMoved(openRow, effectiveRow, three, t, RowLeft(col, t.row))
  <2>1. col.type \in {"COLUMN", "COLUMN_PRECHARGE"}
    BY <1>2, <1>3
  <2> QED
    BY <1>2, <1>4, <2>1, ThreeSteps
<1>7. three = Appended(P, q, CommandsFor(t, rest))
  <2>1. col \in Commands
    BY <1>2 DEF CommandOf
  <2>2. one = Appended(P, q, a) /\ two = Appended(one, q, b) /\ three = Appended(two, q, <<col>>)
    BY <1>4
  <2> HIDE DEF q
  <2>3. Appended(two, q, <<col>>) = Appended(P, q, (a \o b) \o <<col>>)
    BY <1>1, <1>2, <2>1, <2>2, AppendedThrice
  <2> QED
    BY <1>2, <2>2, <2>3, Zenon
<1> QED
  BY <1>5, <1>6, <1>7

\* The record after IssueMemoryCommands is right for the queues after it.
LEMMA ScheduledRows ==
    ASSUME IndInv, RowInv, NEW t \in Transactions, NEW rest, RecordRows(t, rest),
           NEW cq, cq = Appended(commandQueues, RequestQueue(t), CommandsFor(t, rest))
    PROVE  /\ RowsRight(openRow, effectiveRow', PendingLists(cq, issued))
           /\ ActiveRight(effectiveRow', activateQueued')
           /\ cq \in CommandLists
           /\ \A q \in issued : cq[q] # <<>>
<1> DEFINE P == PendingLists(commandQueues, issued)
           q0 == RequestQueue(t)
           x == CommandsFor(t, rest)
           new == IF Closes(t, rest) THEN NoRow ELSE t.row
<1>1. /\ TypeOK /\ t.bank \in Banks /\ t.sa \in SubArrays /\ t.row # NoRow /\ q0 \in Queues
  BY NoneAssumption, QueueFacts DEF IndInv, Transactions, RequestQueue
<1>2. /\ commandQueues \in CommandLists /\ issued \subseteq Queues
      /\ \A q \in issued : commandQueues[q] # <<>>
  BY DEF IndInv, TypeOK, CommandLists, IssuedHeads
<1>3. P \in CommandLists
  BY <1>2, PendingListsFacts
<1>4. RowsRight(openRow, effectiveRow, P) /\ ActiveRight(effectiveRow, activateQueued)
  BY RowInvParts DEF RowsRight
<1>5. x \in Seq(Commands)
  BY CommandsForFacts
<1>6. cq = Appended(commandQueues, q0, x)
  OBVIOUS
<1>7. RowsMoved(openRow, effectiveRow, Appended(P, q0, x), t, new)
  BY <1>3, <1>4, CommandsForRows
<1> HIDE DEF P, q0, x
<1>8. /\ PendingLists(cq, issued) = Appended(P, q0, x)
      /\ cq \in CommandLists
      /\ q0 \in issued => cq[q0] # <<>>
      /\ \A p \in Queues \ {q0} : cq[p] = commandQueues[p]
  BY <1>1, <1>2, <1>5, <1>6, AppendedPending DEF P
<1>9. PICK after : /\ RowsRight(openRow, after, PendingLists(cq, issued))
                   /\ SameElsewhere(after, effectiveRow, t)
                   /\ after[t.bank][t.sa] = new
  BY <1>7, <1>8 DEF RowsMoved
<1>10. /\ effectiveRow' = [effectiveRow EXCEPT ![t.bank][t.sa] = new]
       /\ activateQueued' = IF Closes(t, rest) /\ LastOpen(t)
                            THEN activateQueued \ {t.bank} ELSE activateQueued \cup {t.bank}
  BY DEF RecordRows
<1>11. effectiveRow \in [Banks -> [SubArrays -> Rows \cup {NoRow}]]
  BY <1>1 DEF TypeOK
<1>12. /\ effectiveRow'[t.bank][t.sa] = new
       /\ \A bank \in Banks, sa \in SubArrays :
            ~(bank = t.bank /\ sa = t.sa) => effectiveRow'[bank][sa] = effectiveRow[bank][sa]
  <2> HIDE DEF new
  <2> QED
    BY <1>1, <1>10, <1>11
<1>13. RowsRight(openRow, effectiveRow', PendingLists(cq, issued))
  <2>1. \A bank \in Banks, sa \in SubArrays : effectiveRow'[bank][sa] = after[bank][sa]
    <3> HIDE DEF new
    <3> QED
      BY <1>9, <1>12 DEF SameElsewhere
  <2> QED
    BY <1>9, <2>1, SameRecord
<1>14. ActiveRight(effectiveRow', activateQueued')
  <2> SUFFICES ASSUME NEW bank \in Banks
               PROVE  bank \in activateQueued' <=> \E s \in SubArrays : effectiveRow'[bank][s] # NoRow
    BY DEF ActiveRight
  <2>1. CASE bank # t.bank
    BY <1>4, <1>10, <1>12, <2>1 DEF ActiveRight
  <2>2. CASE bank = t.bank /\ Closes(t, rest) /\ LastOpen(t)
    <3>1. \A s \in SubArrays : effectiveRow'[bank][s] = NoRow
      BY <1>1, <1>12, <2>2 DEF LastOpen
    <3> QED
      BY <1>10, <2>2, <3>1
  <2>3. CASE bank = t.bank /\ ~(Closes(t, rest) /\ LastOpen(t))
    <3>1. \E s \in SubArrays : effectiveRow'[bank][s] # NoRow
      BY <1>1, <1>12, <2>3 DEF LastOpen
    <3> QED
      BY <1>10, <2>3, <3>1
  <2> QED
    BY <2>1, <2>2, <2>3
<1>15. \A q \in issued : cq[q] # <<>>
  BY <1>2, <1>8
<1> QED
  BY <1>8, <1>13, <1>14, <1>15

\* An EventCycle: the scheduler's commands are recorded, then one head may be issued.
LEMMA CycleRows ==
    ASSUME IndInv, RowInv, Cycle
    PROVE  RowInv'
<1> DEFINE i == NextTransaction
           t == transactionQueue[i]
           rest == Without(transactionQueue, i)
           cq == IF i = 0 THEN commandQueues
                 ELSE [commandQueues EXCEPT ![RequestQueue(t)] = @ \o CommandsFor(t, rest)]
<1>1. TypeOK /\ IssuedHeads /\ cleanup # "due" /\ CycleCommandQueues(cq)
  BY DEF IndInv, Cycle
<1>2. \/ i = 0 /\ UNCHANGED <<activateQueued, effectiveRow>>
      \/ i # 0 /\ RecordRows(t, rest)
  BY DEF Cycle, rowVars
<1>3. i \in 0 .. Len(transactionQueue) /\ Len(transactionQueue) \in Nat
  BY <1>1, NextTransactionFacts, LenProperties DEF TypeOK
<1>4. /\ Recorded(openRow, effectiveRow', PendingLists(cq, issued))
      /\ AllFit(openRow, PendingLists(cq, issued))
      /\ ActiveRight(effectiveRow', activateQueued')
      /\ cq \in CommandLists /\ \A q \in issued : cq[q] # <<>>
  <2>1. CASE i = 0
    <3>1. cq = commandQueues /\ UNCHANGED <<activateQueued, effectiveRow>>
      BY <1>2, <2>1
    <3> HIDE DEF cq
    <3> QED
      BY <1>1, <3>1, RowInvParts DEF TypeOK, CommandLists, IssuedHeads
  <2>2. CASE i # 0
    <3>1. RecordRows(t, rest)
      BY <1>2, <2>2
    <3>2. t \in Transactions
      <4>1. i \in 1 .. Len(transactionQueue)
        <5> HIDE DEF i
        <5> QED BY <1>3, <2>2
      <4> QED
        BY <1>1, <4>1, LenProperties DEF TypeOK
    <3>3. cq = Appended(commandQueues, RequestQueue(t), CommandsFor(t, rest))
      BY <2>2 DEF Appended
    <3> HIDE DEF cq, t, rest, i
    <3>4. /\ RowsRight(openRow, effectiveRow', PendingLists(cq, issued))
          /\ ActiveRight(effectiveRow', activateQueued')
          /\ cq \in CommandLists
          /\ \A q \in issued : cq[q] # <<>>
      BY <3>1, <3>2, <3>3, ScheduledRows
    <3> QED
      BY <3>4 DEF RowsRight
  <2> QED
    BY <2>1, <2>2
<1> HIDE DEF cq
<1>5. /\ Recorded(openRow', effectiveRow', PendingLists(commandQueues', issued'))
      /\ AllFit(openRow', PendingLists(commandQueues', issued'))
  BY <1>1, <1>4, CycleCommandQueuesRows
<1> QED
  BY <1>4, <1>5, RowInvPartsPrimed

-----------------------------------------------------------------------------
(* The precharges before a refresh.                                         *)

\* The place of a bank in a set of banks.
Rank(S, bank) == Cardinality({b \in S : b < bank})

\* Two banks of a set have different places, all of them from 0 to its size.
LEMMA RankFacts ==
    ASSUME NEW S \in SUBSET Banks
    PROVE  /\ IsFiniteSet(S) /\ Cardinality(S) \in Nat
           /\ \A bank \in S : Rank(S, bank) \in 0 .. Cardinality(S) - 1
           /\ \A a \in S, b \in S : Rank(S, a) = Rank(S, b) => a = b
<1>1. IsFiniteSet(Banks)
  <2>1. BANKS - 1 \in Int
    BY SizesAssumption
  <2> QED
    BY <2>1, FS_Interval DEF Banks
<1>2. IsFiniteSet(S) /\ Cardinality(S) \in Nat
  BY <1>1, FS_Subset, FS_CardinalityType
<1> DEFINE Lesser(bank) == {b \in S : b < bank}
<1>3. ASSUME NEW bank \in S
      PROVE  /\ IsFiniteSet(Lesser(bank)) /\ Cardinality(Lesser(bank)) \in Nat
             /\ Cardinality(Lesser(bank)) < Cardinality(S)
  <2>1. Lesser(bank) \in SUBSET S /\ Lesser(bank) # S
    BY DEF Banks
  <2> HIDE DEF Lesser
  <2>2. IsFiniteSet(Lesser(bank)) /\ Cardinality(Lesser(bank)) <= Cardinality(S)
        /\ Cardinality(Lesser(bank)) # Cardinality(S)
    BY <1>2, <2>1, FS_Subset
  <2>3. Cardinality(Lesser(bank)) \in Nat
    BY <2>2, FS_CardinalityType
  <2> QED
    BY <1>2, <2>2, <2>3
<1>4. ASSUME NEW a \in S, NEW b \in S, a < b
      PROVE  Cardinality(Lesser(a)) # Cardinality(Lesser(b))
  <2>1. Lesser(a) \in SUBSET Lesser(b) /\ Lesser(a) # Lesser(b)
    <3>1. a \in Int /\ b \in Int /\ \A c \in S : c \in Int
      BY DEF Banks
    <3>2. a \in Lesser(b) /\ a \notin Lesser(a)
      BY <1>4, <3>1
    <3>3. \A c \in Lesser(a) : c \in Lesser(b)
      BY <1>4, <3>1
    <3> HIDE DEF Lesser
    <3> QED
      BY <3>2, <3>3
  <2> HIDE DEF Lesser
  <2> QED
    BY <1>3, <2>1, FS_Subset
<1>5. \A bank \in S : Rank(S, bank) = Cardinality(Lesser(bank))
  BY DEF Rank
<1> HIDE DEF Lesser
<1>6. \A bank \in S : Rank(S, bank) \in 0 .. Cardinality(S) - 1
  <2> SUFFICES ASSUME NEW bank \in S PROVE Rank(S, bank) \in 0 .. Cardinality(S) - 1
    OBVIOUS
  <2>1. Rank(S, bank) \in Nat /\ Rank(S, bank) < Cardinality(S)
    BY <1>3, <1>5
  <2> QED
    BY <1>2, <2>1
<1>7. ASSUME NEW a \in S, NEW b \in S, Rank(S, a) = Rank(S, b) PROVE a = b
  <2>1. a \in Int /\ b \in Int
    BY DEF Banks
  <2> QED
    BY <1>4, <1>5, <1>7, <2>1
<1> QED
  BY <1>2, <1>6, <1>7

\* BankAt lists the banks of a set, each of them once.
LEMMA BankAtFacts ==
    ASSUME NEW S \in SUBSET Banks
    PROVE  /\ \A i \in 1 .. Cardinality(S) : BankAt(S, i) \in S /\ Rank(S, BankAt(S, i)) = i - 1
           /\ \A bank \in S : \E i \in 1 .. Cardinality(S) : BankAt(S, i) = bank
<1> DEFINE n == Cardinality(S)
           place == [bank \in S |-> Rank(S, bank) + 1]
<1>1. /\ IsFiniteSet(S) /\ n \in Nat
      /\ \A bank \in S : Rank(S, bank) \in 0 .. n - 1
      /\ \A a \in S, b \in S : Rank(S, a) = Rank(S, b) => a = b
  BY RankFacts
<1> HIDE DEF n
<1>2. IsFiniteSet(1 .. n) /\ Cardinality(1 .. n) = n
  BY <1>1, FS_Interval
<1>3. place \in Injection(S, 1 .. n)
  <2>1. place \in [S -> 1 .. n]
    BY <1>1
  <2>2. \A a \in S, b \in S : place[a] = place[b] => a = b
    <3> SUFFICES ASSUME NEW a \in S, NEW b \in S, place[a] = place[b] PROVE a = b
      OBVIOUS
    <3>1. Rank(S, a) + 1 = Rank(S, b) + 1 /\ Rank(S, a) \in Int /\ Rank(S, b) \in Int
      BY <1>1
    <3> QED
      BY <1>1, <3>1
  <2> QED
    BY <2>1, <2>2 DEF Injection, IsInjective
<1>4. place \in Surjection(S, 1 .. n)
  <2> HIDE DEF place
  <2>1. Cardinality(S) = Cardinality(1 .. n)
    BY <1>2 DEF n
  <2> QED
    BY <1>2, <1>3, <2>1, FS_Injection
<1>5. ASSUME NEW i, NEW bank \in S, Rank(S, bank) = i - 1
      PROVE  BankAt(S, i) = bank
  <2> DEFINE here == {b \in S : Cardinality({c \in S : c < b}) = i - 1}
  <2>1. here = {bank}
    BY <1>1, <1>5 DEF Rank
  <2>2. BankAt(S, i) = CHOOSE b \in Banks : here # {} => b \in here
    BY DEF BankAt
  <2> HIDE DEF here
  <2> QED
    BY <2>1, <2>2
<1>6. ASSUME NEW i \in 1 .. n PROVE BankAt(S, i) \in S /\ Rank(S, BankAt(S, i)) = i - 1
  <2>1. PICK bank \in S : place[bank] = i
    BY <1>4 DEF Surjection
  <2>2. Rank(S, bank) = i - 1
    <3>1. Rank(S, bank) \in Int /\ Rank(S, bank) + 1 = i
      BY <1>1, <2>1
    <3> QED
      BY <3>1
  <2> QED
    BY <1>5, <2>2
<1>7. ASSUME NEW bank \in S PROVE \E i \in 1 .. n : BankAt(S, i) = bank
  <2>1. Rank(S, bank) + 1 \in 1 .. n /\ Rank(S, bank) = (Rank(S, bank) + 1) - 1
    BY <1>1
  <2> QED
    BY <1>5, <2>1
<1> QED
  BY <1>6, <1>7 DEF n

\* What HandleRefresh appends to a queue: precharges of banks of the queue, and refreshes.
Harmless(x, q) ==
    \A k \in DOMAIN x : x[k].type \in {"PRECHARGE_ALL", "REFRESH"} /\ InPlace(x[k], q)
PrechargesBank(c, bank) == c.type = "PRECHARGE_ALL" /\ c.bank = bank
ClosesOnce(x, bank) ==
    \E k \in DOMAIN x : /\ PrechargesBank(x[k], bank)
                        /\ \A j \in DOMAIN x : PrechargesBank(x[j], bank) => j = k
LeavesOpen(x, bank) == \A k \in DOMAIN x : ~PrechargesBank(x[k], bank)

\* Of these commands, the precharges of a bank change its rows: they close them.
LEMMA HarmlessChanges ==
    ASSUME NEW c, c.type \in {"PRECHARGE_ALL", "REFRESH"}, NEW bank, NEW sa
    PROVE  /\ ChangesRow(c, bank, sa) <=> PrechargesBank(c, bank)
           /\ PrechargesBank(c, bank) => RowAfter(c, bank, sa, NoRow) = NoRow
<1>1. CASE c.type = "PRECHARGE_ALL"
  BY <1>1 DEF ChangesRow, PrechargesBank, RowAfter, OpensRow, ClosesRow
<1>2. CASE c.type = "REFRESH"
  BY <1>2 DEF ChangesRow, PrechargesBank, RowAfter, OpensRow, ClosesRow
<1> QED
  BY <1>1, <1>2

\* The row of a subarray once such commands are appended to its queue.
LEMMA HarmlessRow ==
    ASSUME NEW s \in Seq(Commands), NEW x \in Seq(Commands), NEW q, Harmless(x, q),
           NEW open, NEW bank, NEW sa, NEW row, RowThen(open, s, Len(s), bank, sa, row)
    PROVE  /\ LeavesOpen(x, bank) => RowThen(open, s \o x, Len(s \o x), bank, sa, row)
           /\ ClosesOnce(x, bank) => RowThen(open, s \o x, Len(s \o x), bank, sa, NoRow)
<1> DEFINE list == s \o x
           n == Len(s)
           m == Len(x)
<1>1. n \in Nat /\ m \in Nat /\ Len(list) = n + m /\ DOMAIN x = 1 .. m
      /\ \A i \in 1 .. n + m : list[i] = IF i <= n THEN s[i] ELSE x[i - n]
  BY ConcatProperties, LenProperties
<1>2. RowThen(open, s, n, bank, sa, row)
  OBVIOUS
<1> HIDE DEF list, n, m
<1>3. \A k \in 1 .. m : ChangesRow(x[k], bank, sa) <=> PrechargesBank(x[k], bank)
  BY <1>1, HarmlessChanges DEF Harmless
<1>4. \A i \in n + 1 .. n + m : i - n \in 1 .. m /\ list[i] = x[i - n] /\ i \in 1 .. n + m
  BY <1>1
<1>5. ASSUME LeavesOpen(x, bank) PROVE RowThen(open, list, n + m, bank, sa, row)
  <2>1. RowThen(open, list, n, bank, sa, row)
    <3>1. \A j \in 1 .. n : list[j] = s[j]
      BY <1>1
    <3> QED
      BY <1>1, <1>2, <3>1, RowThenSame
  <2>2. \A j \in n + 1 .. n + m : ~ChangesRow(list[j], bank, sa)
    BY <1>1, <1>3, <1>4, <1>5 DEF LeavesOpen
  <2>3. n + m \in Nat /\ n <= n + m
    BY <1>1
  <2> QED
    BY <1>1, <2>1, <2>2, <2>3, RowThenKept
<1>6. ASSUME ClosesOnce(x, bank) PROVE RowThen(open, list, n + m, bank, sa, NoRow)
  <2>1. PICK k \in 1 .. m : /\ PrechargesBank(x[k], bank)
                            /\ \A j \in 1 .. m : PrechargesBank(x[j], bank) => j = k
    BY <1>1, <1>6 DEF ClosesOnce
  <2>2. n + k \in 1 .. n + m /\ list[n + k] = x[k]
    <3>1. n + k \in 1 .. n + m /\ ~(n + k <= n) /\ (n + k) - n = k
      BY <1>1
    <3> QED
      BY <1>1, <3>1
  <2>3. ChangesRow(list[n + k], bank, sa) /\ RowAfter(list[n + k], bank, sa, NoRow) = NoRow
    <3>1. x[k].type \in {"PRECHARGE_ALL", "REFRESH"}
      BY <1>1 DEF Harmless
    <3> QED
      BY <2>1, <2>2, <3>1, HarmlessChanges
  <2>4. ASSUME NEW j \in (n + k) + 1 .. n + m PROVE ~ChangesRow(list[j], bank, sa)
    <3>1. j \in n + 1 .. n + m /\ j - n \in 1 .. m /\ j - n # k
      BY <1>1
    <3> QED
      BY <1>3, <1>4, <2>1, <3>1
  <2> QED
    BY <2>2, <2>3, <2>4 DEF RowThen
<1> QED
  BY <1>1, <1>5, <1>6 DEF list

\* Such commands are in place and ask for nothing; those before them keep what they have.
LEMMA HarmlessFits ==
    ASSUME NEW s \in Seq(Commands), NEW x \in Seq(Commands), NEW q, Harmless(x, q), NEW open,
           \A k \in DOMAIN s : InPlace(s[k], q) /\ CommandFits(open, s, k),
           NEW k \in DOMAIN (s \o x)
    PROVE  InPlace((s \o x)[k], q) /\ CommandFits(open, s \o x, k)
<1> DEFINE list == s \o x
           n == Len(s)
           m == Len(x)
<1>1. n \in Nat /\ m \in Nat /\ Len(list) = n + m /\ DOMAIN x = 1 .. m /\ DOMAIN s = 1 .. n
      /\ k \in 1 .. n + m
      /\ \A i \in 1 .. n + m : list[i] = IF i <= n THEN s[i] ELSE x[i - n]
  BY ConcatProperties, LenProperties
<1> HIDE DEF list, n, m
<1>2. CASE k <= n
  <2>1. k \in DOMAIN s /\ list[k] = s[k] /\ k - 1 \in Nat
    BY <1>1, <1>2
  <2>2. \A j \in 1 .. k - 1 : list[j] = s[j]
    BY <1>1, <1>2
  <2>3. InPlace(s[k], q) /\ CommandFits(open, s, k)
    BY <2>1
  <2>4. ASSUME NEW o, NEW bank, NEW sa, NEW row, RowThen(o, s, k - 1, bank, sa, row)
        PROVE  RowThen(o, list, k - 1, bank, sa, row)
    BY <2>1, <2>2, <2>4, RowThenSame
  <2>5. CommandFits(open, list, k)
    BY <2>1, <2>3, <2>4 DEF CommandFits
  <2> QED
    BY <2>1, <2>3, <2>5 DEF list
<1>3. CASE ~(k <= n)
  <2>1. k - n \in DOMAIN x /\ list[k] = x[k - n]
    BY <1>1, <1>3
  <2>2. list[k].type \in {"PRECHARGE_ALL", "REFRESH"} /\ InPlace(list[k], q)
    BY <2>1 DEF Harmless
  <2>3. CommandFits(open, list, k)
    BY <2>2 DEF CommandFits
  <2> QED
    BY <2>2, <2>3 DEF list
<1> QED
  BY <1>2, <1>3

\* A list with one precharge for each bank of a set.
PrechargesEach(x, S) ==
    /\ \A k \in DOMAIN x : x[k].type = "PRECHARGE_ALL" /\ x[k].sa = 0 /\ x[k].bank \in S
    /\ \A bank \in S : ClosesOnce(x, bank)

\* The banks whose rows HandleRefresh closes, all and those of one queue.
Closed(g) == IF UsePrecharge THEN GroupBanks(g) \cap activateQueued ELSE {}
ClosedIn(q, g) == {bank \in Closed(g) : QueueOf(bank, 0) = q}

\* The precharges that HandleRefresh queues close each of these banks once.
LEMMA PrechargesListed ==
    ASSUME NEW q, NEW g, NEW x, x = IF UsePrecharge THEN Precharges(q, g) ELSE <<>>
    PROVE  x \in Seq(Commands) /\ PrechargesEach(x, ClosedIn(q, g))
<1>1. CASE ~UsePrecharge
  <2>1. x = <<>> /\ ClosedIn(q, g) = {}
    BY <1>1 DEF ClosedIn, Closed
  <2>2. x \in Seq(Commands) /\ DOMAIN x = {}
    <3>1. <<>> \in Seq(Commands) /\ DOMAIN <<>> = {}
      OBVIOUS
    <3> QED
      BY <2>1, <3>1, Zenon
  <2>3. PrechargesEach(x, {})
    BY <2>2, Zenon DEF PrechargesEach
  <2> QED
    BY <2>1, <2>2, <2>3
<1>2. CASE UsePrecharge
  <2> DEFINE S == {bank \in GroupBanks(g) \cap activateQueued : QueueOf(bank, 0) = q}
             n == Cardinality(S)
  <2>1. x = [i \in 1 .. n |-> Command("PRECHARGE_ALL", BankAt(S, i), 0)]
    BY <1>2 DEF Precharges
  <2>2. S \in SUBSET Banks /\ ClosedIn(q, g) = S
    BY <1>2 DEF GroupBanks, ClosedIn, Closed
  <2> HIDE DEF S
  <2>3. n \in Nat /\ \A i \in 1 .. n : BankAt(S, i) \in S /\ Rank(S, BankAt(S, i)) = i - 1
    BY <2>2, RankFacts, BankAtFacts
  <2>4. \A bank \in S : \E i \in 1 .. n : BankAt(S, i) = bank
    BY <2>2, BankAtFacts
  <2> HIDE DEF n
  <2>5. DOMAIN x = 1 .. n /\ \A i \in 1 .. n :
            x[i].type = "PRECHARGE_ALL" /\ x[i].sa = 0 /\ x[i].bank = BankAt(S, i)
    <3>1. \A bank : /\ Command("PRECHARGE_ALL", bank, 0).type = "PRECHARGE_ALL"
                    /\ Command("PRECHARGE_ALL", bank, 0).sa = 0
                    /\ Command("PRECHARGE_ALL", bank, 0).bank = bank
      BY DEF Command
    <3>2. DOMAIN x = 1 .. n
      BY <2>1, Zenon
    <3>3. \A i \in 1 .. n : x[i] = Command("PRECHARGE_ALL", BankAt(S, i), 0)
      BY <2>1, Zenon
    <3> QED
      BY <3>1, <3>2, <3>3, ZenonT(60)
  <2>6. ASSUME NEW bank \in S PROVE ClosesOnce(x, bank)
    <3>1. PICK i \in 1 .. n : BankAt(S, i) = bank
      BY <2>4
    <3>2. PrechargesBank(x[i], bank)
      BY <2>5, <3>1 DEF PrechargesBank
    <3>3. ASSUME NEW j \in 1 .. n, PrechargesBank(x[j], bank) PROVE j = i
      <4>1. BankAt(S, j) = bank
        BY <2>5, <3>3 DEF PrechargesBank
      <4>2. j - 1 = i - 1
        BY <2>3, <3>1, <4>1
      <4> QED
        BY <4>2
    <3> QED
      BY <2>5, <3>2, <3>3 DEF ClosesOnce
  <2>7. x \in Seq(Commands)
    BY <1>2, PrechargesFacts
  <2> QED
    BY <2>2, <2>3, <2>5, <2>6, <2>7 DEF PrechargesEach
<1> QED
  BY <1>1, <1>2

\* What HandleRefresh appends to queue q.
RefreshTail(q, g) ==
    (IF UsePrecharge THEN Precharges(q, g) ELSE <<>>)
    \o (IF q = QueueOf(GroupHead(g), 0) THEN <<Command("REFRESH", GroupHead(g), 0)>> ELSE <<>>)

\* A REFRESH behind the precharges of banks that have their rows in this queue.
LEMMA TailHarmless ==
    ASSUME NEW q, NEW S \in SUBSET Banks, NEW x \in Seq(Commands), PrechargesEach(x, S),
           \A bank \in S, sa \in SubArrays : QueueOf(bank, sa) = q,
           NEW y \in Seq(Commands), Len(y) \in 0 .. 1,
           \A k \in DOMAIN y : y[k].type = "REFRESH" /\ QueueOf(y[k].bank, y[k].sa) = q,
           NEW list, list = x \o y
    PROVE  /\ list \in Seq(Commands) /\ Harmless(list, q)
           /\ \A bank \in S : ClosesOnce(list, bank)
           /\ \A bank \in Banks \ S : LeavesOpen(list, bank)
<1> DEFINE n == Len(x)
           m == Len(y)
<1>1. /\ n \in Nat /\ m \in Nat /\ DOMAIN x = 1 .. n /\ DOMAIN y = 1 .. m
      /\ list \in Seq(Commands) /\ DOMAIN list = 1 .. n + m
      /\ \A i \in 1 .. n + m : list[i] = IF i <= n THEN x[i] ELSE y[i - n]
  BY ConcatProperties, LenProperties
<1> HIDE DEF n, m
<1>2. ASSUME NEW i \in DOMAIN list
      PROVE  \/ i \in DOMAIN x /\ list[i] = x[i]
             \/ i \notin DOMAIN x /\ \E k \in DOMAIN y : list[i] = y[k]
  <2>1. CASE i <= n
    BY <1>1, <2>1
  <2>2. CASE ~(i <= n)
    <3>1. i - n \in DOMAIN y /\ list[i] = y[i - n] /\ i \notin DOMAIN x
      BY <1>1, <2>2
    <3> QED
      BY <3>1
  <2> QED
    BY <2>1, <2>2
<1>3. \A i \in DOMAIN x : i \in DOMAIN list /\ list[i] = x[i]
  BY <1>1
<1>4. Harmless(list, q)
  <2> SUFFICES ASSUME NEW i \in DOMAIN list
               PROVE  list[i].type \in {"PRECHARGE_ALL", "REFRESH"} /\ InPlace(list[i], q)
    BY DEF Harmless
  <2>1. CASE i \in DOMAIN x /\ list[i] = x[i]
    <3>1. list[i].type = "PRECHARGE_ALL" /\ list[i].sa = 0 /\ list[i].bank \in S
      BY <2>1 DEF PrechargesEach
    <3>2. 0 \in SubArrays
      BY QueueFacts
    <3> QED
      BY <3>1, <3>2 DEF InPlace
  <2>2. CASE \E k \in DOMAIN y : list[i] = y[k]
    BY <2>2 DEF InPlace
  <2> QED
    BY <1>2, <2>1, <2>2
<1>5. ASSUME NEW i \in DOMAIN list, NEW bank, PrechargesBank(list[i], bank)
      PROVE  i \in DOMAIN x /\ list[i] = x[i]
  <2>1. ~\E k \in DOMAIN y : list[i] = y[k]
    BY <1>5 DEF PrechargesBank
  <2> QED
    BY <1>2, <2>1
<1>6. ASSUME NEW bank \in S PROVE ClosesOnce(list, bank)
  <2>1. PICK k \in DOMAIN x : /\ PrechargesBank(x[k], bank)
                              /\ \A j \in DOMAIN x : PrechargesBank(x[j], bank) => j = k
    BY DEF PrechargesEach, ClosesOnce
  <2>2. \A j \in DOMAIN list : PrechargesBank(list[j], bank) => j = k
    BY <1>5, <2>1
  <2> QED
    BY <1>3, <2>1, <2>2 DEF ClosesOnce
<1>7. ASSUME NEW bank \in Banks \ S PROVE LeavesOpen(list, bank)
  BY <1>5 DEF LeavesOpen, PrechargesEach, PrechargesBank
<1> QED
  BY <1>1, <1>4, <1>6, <1>7

\* What HandleRefresh appends closes the rows it forgets, and no others.
LEMMA RefreshTailFacts ==
    ASSUME PrechargesReach, UseRefresh, NEW q \in Queues, NEW g \in Groups
    PROVE  /\ RefreshTail(q, g) \in Seq(Commands) /\ Harmless(RefreshTail(q, g), q)
           /\ \A bank \in ClosedIn(q, g) : ClosesOnce(RefreshTail(q, g), bank)
           /\ \A bank \in Banks \ ClosedIn(q, g) : LeavesOpen(RefreshTail(q, g), bank)
<1> DEFINE S == ClosedIn(q, g)
           x == IF UsePrecharge THEN Precharges(q, g) ELSE <<>>
           r == Command("REFRESH", GroupHead(g), 0)
           y == IF q = QueueOf(GroupHead(g), 0) THEN <<r>> ELSE <<>>
           list == RefreshTail(q, g)
<1>1. x \in Seq(Commands) /\ PrechargesEach(x, S)
  BY PrechargesListed
<1>2. S \in SUBSET Banks /\ \A bank \in S, sa \in SubArrays : QueueOf(bank, sa) = q
  <2>1. S \in SUBSET Banks /\ (~UsePrecharge => S = {}) /\ \A bank \in S : QueueOf(bank, 0) = q
    BY DEF ClosedIn, Closed, GroupBanks
  <2> HIDE DEF S
  <2> QED
    BY <2>1, PolicyAssumption DEF PrechargesReach
<1>3. r \in Commands /\ r.type = "REFRESH" /\ r.bank = GroupHead(g) /\ r.sa = 0
  BY CommandFacts, GroupFacts, QueueFacts DEF Types, Command
<1>4. y \in Seq(Commands) /\ Len(y) \in 0 .. 1
  <2> HIDE DEF r
  <2> QED
    BY <1>3
<1>5. \A k \in DOMAIN y : y[k].type = "REFRESH" /\ QueueOf(y[k].bank, y[k].sa) = q
  <2> HIDE DEF r
  <2>1. CASE q = QueueOf(GroupHead(g), 0)
    <3>1. y = <<r>> /\ DOMAIN y = {1} /\ y[1] = r
      BY <2>1
    <3> HIDE DEF y
    <3> QED
      BY <1>3, <2>1, <3>1
  <2>2. CASE q # QueueOf(GroupHead(g), 0)
    BY <2>2
  <2> QED
    BY <2>1, <2>2
<1>6. list = x \o y
  BY DEF RefreshTail
<1> HIDE DEF S, x, y, list
<1>7. /\ list \in Seq(Commands) /\ Harmless(list, q)
      /\ \A bank \in S : ClosesOnce(list, bank)
      /\ \A bank \in Banks \ S : LeavesOpen(list, bank)
  BY <1>1, <1>2, <1>4, <1>5, <1>6, TailHarmless
<1> QED
  BY <1>7 DEF S, list

\* The queues after HandleRefresh, and what is pending in them.
LEMMA RefreshPending ==
    ASSUME IndInv, NEW g \in Groups, NEW q \in Queues
    PROVE  PendingLists(RefreshQueues(g), issued)[q]
               = PendingLists(commandQueues, issued)[q] \o RefreshTail(q, g)
<1> DEFINE s == commandQueues[q]
           a == IF UsePrecharge THEN Precharges(q, g) ELSE <<>>
           r == Command("REFRESH", GroupHead(g), 0)
           b == IF q = QueueOf(GroupHead(g), 0) THEN <<r>> ELSE <<>>
           more == RefreshQueues(g)[q]
           x == RefreshTail(q, g)
<1>1. s \in Seq(Commands) /\ (q \in issued => s # <<>>)
  BY DEF IndInv, TypeOK, IssuedHeads
<1>2. a \in Seq(Commands) /\ b \in Seq(Commands)
  <2>1. a \in Seq(Commands)
    BY PrechargesFacts
  <2>2. r \in Commands
    BY CommandFacts, GroupFacts, QueueFacts DEF Types
  <2> HIDE DEF r
  <2> QED
    BY <2>1, <2>2
<1>3. more = (s \o a) \o b /\ x = a \o b
  BY DEF RefreshQueues, RefreshTail
<1>4. /\ PendingLists(commandQueues, issued)[q] = IF q \in issued THEN Tail(s) ELSE s
      /\ PendingLists(RefreshQueues(g), issued)[q] = IF q \in issued THEN Tail(more) ELSE more
  BY DEF PendingLists
<1> HIDE DEF s, a, b, more, x
<1>5. x \in Seq(Commands)
  BY <1>2, <1>3, ConcatProperties
<1>6. more = s \o x
  BY <1>1, <1>2, <1>3, ConcatAssociative, SMTT(30)
<1>7. CASE q \in issued
  <2>1. Tail(s \o x) = Tail(s) \o x
    BY <1>1, <1>5, <1>7, TailConcat
  <2> QED
    BY <1>4, <1>6, <1>7, <2>1 DEF x
<1>8. CASE q \notin issued
  BY <1>4, <1>6, <1>8 DEF x
<1> QED
  BY <1>7, <1>8

\* Two records and two families of lists, one of them grown by a refresh.
LEMMA RefreshKeepsRows ==
    ASSUME PrechargesReach, UseRefresh, NEW g \in Groups,
           NEW P \in CommandLists, NEW N,
           \A q \in Queues : N[q] = P[q] \o RefreshTail(q, g),
           NEW open, NEW record, RowsRight(open, record, P),
           NEW after, \A bank \in Banks, sa \in SubArrays :
               after[bank][sa] = IF bank \in Closed(g) THEN NoRow ELSE record[bank][sa]
    PROVE  RowsRight(open, after, N)
<1>1. ASSUME NEW bank \in Banks, NEW sa \in SubArrays
      PROVE  RowThen(open[bank][sa], N[QueueOf(bank, sa)], Len(N[QueueOf(bank, sa)]), bank, sa,
                     after[bank][sa])
  <2> DEFINE q == QueueOf(bank, sa)
             s == P[q]
             x == RefreshTail(q, g)
             row == record[bank][sa]
  <2>1. q \in Queues
    BY QueueFacts
  <2>2. N[q] = s \o x
    BY <2>1
  <2>3. s \in Seq(Commands)
    BY <2>1 DEF CommandLists
  <2>4. RowThen(open[bank][sa], s, Len(s), bank, sa, row)
    BY DEF RowsRight, Recorded
  <2>5. /\ x \in Seq(Commands) /\ Harmless(x, q)
        /\ \A b \in ClosedIn(q, g) : ClosesOnce(x, b)
        /\ \A b \in Banks \ ClosedIn(q, g) : LeavesOpen(x, b)
    BY <2>1, RefreshTailFacts
  <2>6. bank \in Closed(g) => bank \in ClosedIn(q, g)
    <3>1. bank \in Closed(g) => UsePrecharge
      BY DEF Closed
    <3>2. bank \in Closed(g) => QueueOf(bank, sa) = QueueOf(bank, 0)
      BY <3>1 DEF PrechargesReach
    <3> QED
      BY <3>2 DEF ClosedIn
  <2>7. bank \notin Closed(g) => bank \in Banks \ ClosedIn(q, g)
    BY DEF ClosedIn
  <2>8. after[bank][sa] = IF bank \in Closed(g) THEN NoRow ELSE row
    OBVIOUS
  <2> HIDE DEF s, x, q, row
  <2>9. /\ LeavesOpen(x, bank) => RowThen(open[bank][sa], s \o x, Len(s \o x), bank, sa, row)
        /\ ClosesOnce(x, bank) => RowThen(open[bank][sa], s \o x, Len(s \o x), bank, sa, NoRow)
    BY <2>3, <2>4, <2>5, HarmlessRow
  <2>10. RowThen(open[bank][sa], N[q], Len(N[q]), bank, sa, after[bank][sa])
    <3>1. CASE bank \in Closed(g)
      <4>1. ClosesOnce(x, bank) /\ after[bank][sa] = NoRow
        BY <2>5, <2>6, <2>8, <3>1
      <4> QED
        BY <2>2, <2>9, <4>1
    <3>2. CASE bank \notin Closed(g)
      <4>1. LeavesOpen(x, bank) /\ after[bank][sa] = row
        BY <2>5, <2>7, <2>8, <3>2
      <4> QED
        BY <2>2, <2>9, <4>1
    <3> QED
      BY <3>1, <3>2
  <2> QED
    BY <2>10 DEF q
<1>2. ASSUME NEW q \in Queues, NEW k \in DOMAIN N[q]
      PROVE  InPlace(N[q][k], q) /\ CommandFits(open, N[q], k)
  <2> DEFINE s == P[q]
             x == RefreshTail(q, g)
  <2>1. N[q] = s \o x
    OBVIOUS
  <2>2. s \in Seq(Commands)
    BY DEF CommandLists
  <2>3. \A j \in DOMAIN s : InPlace(s[j], q) /\ CommandFits(open, s, j)
    BY DEF RowsRight, AllFit
  <2>4. x \in Seq(Commands) /\ Harmless(x, q)
    BY RefreshTailFacts
  <2> HIDE DEF s, x
  <2>5. k \in DOMAIN (s \o x)
    BY <1>2, <2>1
  <2>6. InPlace((s \o x)[k], q) /\ CommandFits(open, s \o x, k)
    BY <2>2, <2>3, <2>4, <2>5, HarmlessFits
  <2> QED
    BY <2>1, <2>6
<1> QED
  BY <1>1, <1>2 DEF RowsRight, Recorded, AllFit

\* The refresh pulse of a group leaves the queues and the record alone, or HandleRefresh
\* serves this very group: no other one needs a refresh.
LEMMA RefreshServes ==
    ASSUME IndInv, NEW g \in Groups, RefreshCallback(g)
    PROVE  /\ UseRefresh /\ UNCHANGED <<issued, openRow>>
           /\ \/ UNCHANGED <<commandQueues, effectiveRow, activateQueued, refreshQueued,
                             handledRefresh, wake>>
              \/ /\ commandQueues' = RefreshQueues(g)
                 /\ effectiveRow' = [bank \in Banks |-> IF bank \in Closed(g)
                        THEN [sa \in SubArrays |-> NoRow] ELSE effectiveRow[bank]]
                 /\ activateQueued' = activateQueued \ Closed(g)
                 /\ refreshQueued' = refreshQueued \cup GroupBanks(g)
                 /\ handledRefresh' = "now"
                 /\ ScheduleCommandWake(RefreshQueues(g))
<1> DEFINE counter == [delayedRefreshCounter EXCEPT ![g] = @ + 1]
           needy == {h \in Groups : NeedRefresh(counter, h)}
           turn(h) == (h - GroupOf(nextRefreshBank)) % Cardinality(Groups)
           chosen == CHOOSE h \in needy : \A k \in needy : turn(h) <= turn(k)
<1>1. UseRefresh /\ UNCHANGED <<issued, openRow>>
  BY DEF RefreshCallback, RefreshDue, deviceVars
<1>2. \/ needy = {} /\ UNCHANGED <<commandQueues, effectiveRow, activateQueued, refreshQueued,
                                   handledRefresh, wake>>
      \/ needy # {} /\ HandleRefresh(counter, chosen)
  BY DEF RefreshCallback
<1>3. TypeOK /\ delayedRefreshCounter \in [Groups -> Nat]
  BY DEF IndInv, TypeOK
<1>4. ASSUME needy # {} PROVE HandleRefresh(counter, g)
  <2>1. needy = {g}
    <3>1. \A h \in Groups : h # g => counter[h] = delayedRefreshCounter[h]
      BY <1>3
    <3>2. \A h \in Groups : h # g => ~NeedRefresh(counter, h)
      BY <3>1 DEF IndInv, NoRefreshOwed, NeedRefresh
    <3> QED BY <1>4, <3>2
  <2>2. chosen = g
    <3>1. turn(g) \in Int
      BY GroupFacts, <1>3 DEF TypeOK
    <3> HIDE DEF turn, needy
    <3> QED BY <2>1, <3>1
  <2> HIDE DEF counter, needy, chosen
  <2> QED
    BY <1>2, <1>4, <2>2
<1>5. ASSUME HandleRefresh(counter, g)
      PROVE  /\ commandQueues' = RefreshQueues(g)
             /\ effectiveRow' = [bank \in Banks |-> IF bank \in Closed(g)
                    THEN [sa \in SubArrays |-> NoRow] ELSE effectiveRow[bank]]
             /\ activateQueued' = activateQueued \ Closed(g)
             /\ refreshQueued' = refreshQueued \cup GroupBanks(g)
             /\ handledRefresh' = "now"
             /\ ScheduleCommandWake(RefreshQueues(g))
  <2> HIDE DEF counter
  <2> QED
    BY <1>5 DEF HandleRefresh, RefreshQueues, Closed
<1> HIDE DEF counter, needy, chosen
<1> QED
  BY <1>1, <1>2, <1>4, <1>5

\* The refresh pulse: the rows that HandleRefresh forgets are those it closes.
LEMMA RefreshRows ==
    ASSUME IndInv, RowInv, PrechargesReach, NEW g \in Groups, RefreshCallback(g)
    PROVE  RowInv'
<1>1. UseRefresh /\ UNCHANGED <<issued, openRow>>
  BY RefreshServes
<1>2. CASE UNCHANGED <<commandQueues, effectiveRow, activateQueued>>
  BY <1>1, <1>2, SameRows
<1>3. CASE /\ commandQueues' = RefreshQueues(g)
           /\ effectiveRow' = [bank \in Banks |-> IF bank \in Closed(g)
                  THEN [sa \in SubArrays |-> NoRow] ELSE effectiveRow[bank]]
           /\ activateQueued' = activateQueued \ Closed(g)
  <2> DEFINE P == PendingLists(commandQueues, issued)
             N == PendingLists(commandQueues', issued')
  <2>1. P \in CommandLists
    <3>1. commandQueues \in CommandLists /\ \A q \in issued : commandQueues[q] # <<>>
      BY DEF IndInv, TypeOK, CommandLists, IssuedHeads
    <3> QED
      BY <3>1, PendingListsFacts
  <2>2. RowsRight(openRow, effectiveRow, P) /\ ActiveRight(effectiveRow, activateQueued)
    BY RowInvParts DEF RowsRight
  <2>3. \A q \in Queues : N[q] = P[q] \o RefreshTail(q, g)
    BY <1>1, <1>3, RefreshPending
  <2>4. \A bank \in Banks, sa \in SubArrays :
            effectiveRow'[bank][sa] = IF bank \in Closed(g) THEN NoRow ELSE effectiveRow[bank][sa]
    BY <1>3
  <2> HIDE DEF P, N
  <2>5. RowsRight(openRow, effectiveRow', N)
    BY <1>1, <2>1, <2>2, <2>3, <2>4, RefreshKeepsRows
  <2>6. ActiveRight(effectiveRow', activateQueued')
    BY <1>3, <2>2, <2>4 DEF ActiveRight
  <2> QED
    BY <1>1, <2>5, <2>6, RowInvPartsPrimed DEF RowsRight, N
<1> QED
  BY <1>2, <1>3, RefreshServes

\* Every step keeps the record right.
LEMMA NextRows ==
    ASSUME PrechargesReach, IndInv, RowInv, [Next]_vars
    PROVE  RowInv'
<1>1. ASSUME UNCHANGED <<commandQueues, issued, openRow, effectiveRow, activateQueued>>
      PROVE  RowInv'
  BY <1>1, SameRows
<1>2. ASSUME NEW t \in Transactions, Enqueue(t) PROVE RowInv'
  BY <1>1, <1>2 DEF Enqueue, queueVars, rowVars, deviceVars
<1>3. ASSUME NEW r \in Requests, RequestComplete(r) PROVE RowInv'
  BY <1>1, <1>3 DEF RequestComplete, queueVars, rowVars
<1>4. CASE CleanupCallback
  BY <1>4, CleanupRows
<1>5. ASSUME NEW g \in Groups, RefreshCallback(g) PROVE RowInv'
  BY <1>5, RefreshRows
<1>6. CASE Cycle
  BY <1>6, CycleRows
<1>7. CASE CommandQueueCallback
  BY <1>7, CommandQueueCallbackRows
<1>8. CASE Tick
  BY <1>1, <1>8 DEF Tick, rowVars
<1>9. CASE UNCHANGED vars
  BY <1>1, <1>9 DEF vars, queueVars, rowVars, deviceVars
<1> QED
  BY <1>2, <1>3, <1>4, <1>5, <1>6, <1>7, <1>8, <1>9 DEF Next, EventStep

\* The record of the rows and every queued command fit the device, in every reachable
\* state, whatever the sizes, the page policy and the delays of the device, where the
\* precharges before a refresh reach the rows they are to close.
THEOREM RowsConsistent ==
    ASSUME PrechargesReach
    PROVE  Spec => [](IndInv /\ RowInv)
<1>1. Init => IndInv /\ RowInv
  BY InitInv, InitRows
<1>2. (IndInv /\ RowInv) /\ [Next]_vars => (IndInv /\ RowInv)'
  BY NextInv, NextRows
<1> QED
  BY <1>1, <1>2, PTL DEF Spec

\* The controller's record of the open rows is what the device will have open once the
\* queues are drained: effectiveRow and activateQueued never go stale.
THEOREM RecordAlwaysMatches ==
    ASSUME PrechargesReach
    PROVE  Spec => []RecordMatchesDevice
<1>1. IndInv /\ RowInv => RecordMatchesDevice
  BY DEF RowInv
<1> QED
  BY <1>1, RowsConsistent, PTL

\* A row invariant of all commands is one of the heads.
LEMMA HeadsFit ==
    ASSUME IndInv, RowInv
    PROVE  HeadFitsDevice
<1> SUFFICES ASSUME NEW q \in Queues \ issued, commandQueues[q] # <<>>,
                    Head(commandQueues[q]).type # "REFRESH"
             PROVE  RowFits(Head(commandQueues[q]))
  BY DEF HeadFitsDevice
<1> DEFINE list == commandQueues[q]
           c == list[1]
<1>1. list \in Seq(Commands)
  BY DEF IndInv, TypeOK
<1>2. Head(list) = c /\ 1 \in DOMAIN list
  BY <1>1
<1>3. Pending(q) = list
  BY DEF Pending
<1>4. CommandFits(openRow, list, 1)
  <2> HIDE DEF list
  <2> QED
    BY <1>2, <1>3 DEF RowInv, CommandsFit
<1>5. \A open, bank, sa, row : RowThen(open, list, 1 - 1, bank, sa, row) => row = open
  BY DEF RowThen
<1>6. /\ c.type = "ACTIVATE" /\ UsePrecharge => openRow[c.bank][c.sa] = NoRow
      /\ c.type \in {"COLUMN", "COLUMN_PRECHARGE"} => openRow[c.bank][c.sa] = c.row
  <2> HIDE DEF list
  <2> QED
    BY <1>4, <1>5 DEF CommandFits
<1>7. c.type # "REFRESH"
  BY <1>2
<1> HIDE DEF list, c
<1>8. RowFits(c)
  BY <1>6, <1>7, PolicyAssumption DEF RowFits
<1> QED
  BY <1>2, <1>8 DEF list

\* A command at the head of its queue never waits for a row: the device has the row it
\* needs, or none where it needs none.
THEOREM HeadsAlwaysFit ==
    ASSUME PrechargesReach
    PROVE  Spec => []HeadFitsDevice
<1>1. IndInv /\ RowInv => HeadFitsDevice
  BY HeadsFit
<1> QED
  BY <1>1, RowsConsistent, PTL

\* The assumption is met where the rows of a bank share a queue, and where rows are never
\* precharged or banks never refreshed.
LEMMA PrechargesReachFacts ==
    ASSUME QueueModel \in {"PerRank", "PerBank"} \/ ~UseRefresh \/ ~UsePrecharge
    PROVE  PrechargesReach
  BY DEF PrechargesReach, QueueOf

-----------------------------------------------------------------------------
(* The order of the transactions: every request is in one place.            *)

\* A request in one place at most: in the transaction queue, in a list of commands of the
\* family P, or in the device.
Apart(tq, P, flight) ==
    \A i \in DOMAIN tq :
        /\ tq[i].request \notin flight
        /\ \A q \in Queues : \A k \in DOMAIN P[q] : P[q][k].request # tq[i].request
OncePending(P, flight) ==
    \A q \in Queues : \A k \in DOMAIN P[q] : P[q][k].request # NoRequest =>
        /\ QueueOf(P[q][k].bank, P[q][k].sa) = q
        /\ P[q][k].request \notin flight
        /\ \A p \in Queues : \A l \in DOMAIN P[p] :
               P[p][l].request = P[q][k].request => p = q /\ l = k
OnceQueued(tq) == \A i, j \in DOMAIN tq : tq[i].request = tq[j].request => i = j
Once(tq, P, flight) == OnceQueued(tq) /\ Apart(tq, P, flight) /\ OncePending(P, flight)
LastArrived(tq, new) ==
    \A i, j \in DOMAIN tq : i < j /\ tq[i].request \in new => tq[j].request \in new

\* The transactions of a family of lists.
TransactionsOf(P) == UNION {TransactionsIn(P[q]) : q \in Queues}

LEMMA TransactionsOfFacts ==
    ASSUME NEW P, NEW x
    PROVE  x \in TransactionsOf(P) <=>
               \E q \in Queues : \E k \in DOMAIN P[q] :
                   P[q][k].request # NoRequest /\ x = TransactionOf(P[q][k])
  BY DEF TransactionsOf, TransactionsIn

\* OrderInv and Scheduled, of this state and of the next.
LEMMA OrderParts ==
    LET P == PendingLists(commandQueues, issued)
    IN  /\ OrderInv <=> Once(transactionQueue, P, inFlight) /\ LastArrived(transactionQueue, arrived)
        /\ Scheduled = TransactionsOf(P)
<1> DEFINE P == PendingLists(commandQueues, issued)
<1>1. \A q \in Queues : P[q] = Pending(q)
  BY DEF PendingLists, Pending
<1> HIDE DEF P
<1>2. OrderInv <=> Once(transactionQueue, P, inFlight) /\ LastArrived(transactionQueue, arrived)
  BY <1>1 DEF OrderInv, Once, OnceQueued, Apart, OncePending, LastArrived
<1>3. Scheduled = TransactionsOf(P)
  BY <1>1 DEF Scheduled, TransactionsOf
<1> QED
  BY <1>2, <1>3 DEF P

LEMMA OrderPartsPrimed ==
    LET P == PendingLists(commandQueues', issued')
    IN  /\ OrderInv' <=> Once(transactionQueue', P, inFlight')
                         /\ LastArrived(transactionQueue', arrived')
        /\ Scheduled' = TransactionsOf(P)
<1> DEFINE P == PendingLists(commandQueues', issued')
<1>1. \A q \in Queues : P[q] = Pending(q)'
  BY DEF PendingLists, Pending
<1> HIDE DEF P
<1>2. OrderInv' <=> Once(transactionQueue', P, inFlight') /\ LastArrived(transactionQueue', arrived')
  BY <1>1 DEF OrderInv, Once, OnceQueued, Apart, OncePending, LastArrived
<1>3. Scheduled' = TransactionsOf(P)
  BY <1>1 DEF Scheduled, TransactionsOf
<1> QED
  BY <1>2, <1>3 DEF P

\* The lists N are the lists P, each with commands that belong to no request behind it.
GrownBy(P, x, N) ==
    \A q \in Queues : /\ N[q] = P[q] \o x[q]
                      /\ \A k \in DOMAIN x[q] : x[q][k].request = NoRequest

\* Commands that belong to no request are appended.
LEMMA AppendOnce ==
    ASSUME NEW tq, NEW flight, NEW P \in CommandLists, Once(tq, P, flight),
           \A i \in DOMAIN tq : tq[i].request # NoRequest,
           NEW x \in CommandLists, NEW N, GrownBy(P, x, N)
    PROVE  Once(tq, N, flight) /\ TransactionsOf(N) = TransactionsOf(P)
<1>1. ASSUME NEW q \in Queues
      PROVE  /\ DOMAIN P[q] \subseteq DOMAIN N[q]
             /\ \A k \in DOMAIN P[q] : N[q][k] = P[q][k]
             /\ \A k \in DOMAIN N[q] \ DOMAIN P[q] : N[q][k].request = NoRequest
  <2> DEFINE a == P[q]
             b == x[q]
  <2>1. a \in Seq(Commands) /\ b \in Seq(Commands) /\ N[q] = a \o b
    BY DEF CommandLists, GrownBy
  <2>2. \A k \in DOMAIN b : b[k].request = NoRequest
    BY DEF GrownBy
  <2> HIDE DEF a, b
  <2>3. /\ Len(a) \in Nat /\ DOMAIN a = 1 .. Len(a) /\ Len(b) \in Nat /\ DOMAIN b = 1 .. Len(b)
        /\ DOMAIN N[q] = 1 .. Len(a) + Len(b)
        /\ \A k \in 1 .. Len(a) : N[q][k] = a[k]
        /\ \A k \in Len(a) + 1 .. Len(a) + Len(b) : N[q][k] = b[k - Len(a)]
    BY <2>1
  <2>4. ASSUME NEW k \in DOMAIN N[q] \ DOMAIN a PROVE N[q][k].request = NoRequest
    <3>1. k \in Len(a) + 1 .. Len(a) + Len(b) /\ k - Len(a) \in DOMAIN b
      BY <2>3
    <3> QED
      BY <2>2, <2>3, <3>1
  <2> QED
    BY <2>3, <2>4 DEF a
<1>2. Apart(tq, N, flight)
  <2> SUFFICES ASSUME NEW i \in DOMAIN tq, NEW q \in Queues, NEW k \in DOMAIN N[q]
               PROVE  tq[i].request \notin flight /\ N[q][k].request # tq[i].request
    BY DEF Apart, Once
  <2> QED
    BY <1>1 DEF Apart, Once
<1>4. OncePending(N, flight)
  <2> SUFFICES ASSUME NEW q \in Queues, NEW k \in DOMAIN N[q], N[q][k].request # NoRequest,
                      NEW p \in Queues, NEW l \in DOMAIN N[p]
               PROVE  /\ QueueOf(N[q][k].bank, N[q][k].sa) = q
                      /\ N[q][k].request \notin flight
                      /\ N[p][l].request = N[q][k].request => p = q /\ l = k
    BY DEF OncePending
  <2>1. k \in DOMAIN P[q] /\ N[q][k] = P[q][k]
    BY <1>1
  <2>2. N[p][l].request = N[q][k].request => l \in DOMAIN P[p] /\ N[p][l] = P[p][l]
    BY <1>1
  <2> QED
    BY <2>1, <2>2 DEF OncePending, Once
<1>3. \A t : t \in TransactionsOf(N) <=> t \in TransactionsOf(P)
  BY <1>1, TransactionsOfFacts
<1> QED
  BY <1>2, <1>3, <1>4 DEF Once

\* The places of the lists before and after the head of queue q is issued.
PlaceBefore(q, p, k) == IF p = q THEN k + 1 ELSE k

LEMMA IssuePlaces ==
    ASSUME NEW P \in CommandLists, NEW q \in Queues, P[q] # <<>>,
           NEW N, N[q] = Tail(P[q]), \A p \in Queues \ {q} : N[p] = P[p]
    PROVE  /\ 1 \in DOMAIN P[q] /\ P[q][1] = Head(P[q]) /\ P[q][1] \in Commands
           /\ \A p \in Queues : \A k \in DOMAIN N[p] :
                  /\ PlaceBefore(q, p, k) \in DOMAIN P[p]
                  /\ N[p][k] = P[p][PlaceBefore(q, p, k)]
                  /\ ~(p = q /\ PlaceBefore(q, p, k) = 1)
           /\ \A p \in Queues : \A k, l \in DOMAIN N[p] :
                  PlaceBefore(q, p, k) = PlaceBefore(q, p, l) => k = l
           /\ \A p \in Queues : \A k \in DOMAIN P[p] : ~(p = q /\ k = 1) =>
                  \E l \in DOMAIN N[p] : PlaceBefore(q, p, l) = k /\ N[p][l] = P[p][k]
<1> DEFINE list == P[q]
           n == Len(list)
<1>1. list \in Seq(Commands) /\ list # <<>> /\ N[q] = Tail(list)
  BY DEF CommandLists
<1> HIDE DEF list
<1>2. n \in Nat /\ n # 0 /\ DOMAIN list = 1 .. n
  BY <1>1, EmptySeq, LenProperties
<1>3. /\ DOMAIN N[q] = 1 .. n - 1
      /\ \A k \in 1 .. n - 1 : N[q][k] = list[k + 1]
  <2>1. /\ Tail(list) \in Seq(Commands) /\ Len(Tail(list)) = n - 1
        /\ \A k \in 1 .. n - 1 : Tail(list)[k] = list[k + 1]
    BY <1>1, HeadTailProperties
  <2>2. DOMAIN Tail(list) = 1 .. n - 1
    BY <2>1, LenProperties
  <2> QED
    BY <1>1, <2>1, <2>2
<1>4. 1 \in DOMAIN P[q] /\ P[q][1] = Head(P[q]) /\ P[q][1] \in Commands
  <2>1. 1 \in 1 .. n
    BY <1>2
  <2>2. list[1] = Head(list) /\ list[1] \in Commands
    BY <1>1, <1>2, <2>1, ElementOfSeq, HeadTailProperties
  <2> QED
    BY <1>2, <2>1, <2>2 DEF list
<1> HIDE DEF n
<1>5. ASSUME NEW p \in Queues, NEW k \in DOMAIN N[p]
      PROVE  /\ PlaceBefore(q, p, k) \in DOMAIN P[p]
             /\ N[p][k] = P[p][PlaceBefore(q, p, k)]
             /\ ~(p = q /\ PlaceBefore(q, p, k) = 1)
  <2>1. CASE p = q
    <3>1. k \in 1 .. n - 1 /\ PlaceBefore(q, p, k) = k + 1
      BY <1>3, <1>5, <2>1 DEF PlaceBefore
    <3>2. k + 1 \in DOMAIN list /\ k + 1 # 1 /\ N[q][k] = list[k + 1]
      BY <1>2, <1>3, <3>1
    <3> QED
      BY <2>1, <3>1, <3>2 DEF list
  <2>2. CASE p # q
    BY <1>5, <2>2 DEF PlaceBefore
  <2> QED
    BY <2>1, <2>2
<1>6. ASSUME NEW p \in Queues, NEW k \in DOMAIN N[p], NEW l \in DOMAIN N[p],
             PlaceBefore(q, p, k) = PlaceBefore(q, p, l)
      PROVE  k = l
  <2>1. CASE p = q
    <3>1. k \in 1 .. n - 1 /\ l \in 1 .. n - 1
      BY <1>3, <2>1
    <3>2. k + 1 = l + 1
      BY <1>6, <2>1 DEF PlaceBefore
    <3> QED
      BY <1>2, <3>1, <3>2
  <2>2. CASE p # q
    BY <1>6, <2>2 DEF PlaceBefore
  <2> QED
    BY <2>1, <2>2
<1>7. ASSUME NEW p \in Queues, NEW k \in DOMAIN P[p], ~(p = q /\ k = 1)
      PROVE  \E l \in DOMAIN N[p] : PlaceBefore(q, p, l) = k /\ N[p][l] = P[p][k]
  <2>1. CASE p = q
    <3>1. k \in 1 .. n
      BY <1>2, <2>1 DEF list
    <3>2. k - 1 \in 1 .. n - 1 /\ (k - 1) + 1 = k
      BY <1>2, <1>7, <2>1, <3>1
    <3>3. N[q][k - 1] = list[k] /\ PlaceBefore(q, q, k - 1) = k
      BY <1>3, <3>2 DEF PlaceBefore
    <3> QED
      BY <1>3, <2>1, <3>2, <3>3 DEF list
  <2>2. CASE p # q
    BY <2>2 DEF PlaceBefore
  <2> QED
    BY <2>1, <2>2
<1> QED
  BY <1>4, <1>5, <1>6, <1>7

\* The head of queue q is issued; its request, if it has one, is in the device then.
LEMMA IssueOnce ==
    ASSUME NEW tq, NEW flight, NEW P \in CommandLists, Once(tq, P, flight),
           \A i \in DOMAIN tq : tq[i].request # NoRequest,
           NEW q \in Queues, P[q] # <<>>,
           NEW N, N[q] = Tail(P[q]), \A p \in Queues \ {q} : N[p] = P[p],
           NEW c, c = P[q][1]
    PROVE  /\ Once(tq, N, flight \cup ({c.request} \ {NoRequest}))
           /\ c.request = NoRequest => TransactionsOf(N) = TransactionsOf(P)
           /\ c.request # NoRequest => /\ TransactionOf(c) \in TransactionsOf(P)
                                       /\ TransactionsOf(N) = TransactionsOf(P) \ {TransactionOf(c)}
<1> DEFINE before(p, k) == PlaceBefore(q, p, k)
           more == flight \cup ({c.request} \ {NoRequest})
<1>1. 1 \in DOMAIN P[q] /\ c = P[q][1]
  BY IssuePlaces
<1>2. \A p \in Queues : \A k \in DOMAIN N[p] :
          /\ before(p, k) \in DOMAIN P[p]
          /\ N[p][k] = P[p][before(p, k)]
          /\ ~(p = q /\ before(p, k) = 1)
  BY IssuePlaces
<1>3. \A p \in Queues : \A k, l \in DOMAIN N[p] : before(p, k) = before(p, l) => k = l
  BY IssuePlaces
<1>4. \A p \in Queues : \A k \in DOMAIN P[p] : ~(p = q /\ k = 1) =>
          \E l \in DOMAIN N[p] : N[p][l] = P[p][k]
  BY IssuePlaces
<1> HIDE DEF before
<1>5. Apart(tq, N, more)
  <2> SUFFICES ASSUME NEW i \in DOMAIN tq, NEW p \in Queues, NEW k \in DOMAIN N[p]
               PROVE  tq[i].request \notin more /\ N[p][k].request # tq[i].request
    BY <1>1 DEF Apart, Once
  <2> QED
    BY <1>2, <1>1 DEF Apart, Once
<1>6. OncePending(N, more)
  <2> SUFFICES ASSUME NEW p \in Queues, NEW k \in DOMAIN N[p], N[p][k].request # NoRequest,
                      NEW o \in Queues, NEW l \in DOMAIN N[o]
               PROVE  /\ QueueOf(N[p][k].bank, N[p][k].sa) = p
                      /\ N[p][k].request \notin more
                      /\ N[o][l].request = N[p][k].request => o = p /\ l = k
    BY DEF OncePending
  <2>1. /\ before(p, k) \in DOMAIN P[p] /\ N[p][k] = P[p][before(p, k)]
        /\ before(o, l) \in DOMAIN P[o] /\ N[o][l] = P[o][before(o, l)]
        /\ ~(p = q /\ before(p, k) = 1)
    BY <1>2
  <2>2. /\ QueueOf(N[p][k].bank, N[p][k].sa) = p
        /\ N[p][k].request \notin flight
        /\ N[o][l].request = N[p][k].request => o = p /\ before(o, l) = before(p, k)
        /\ c.request # N[p][k].request
    BY <1>1, <2>1 DEF Once, OncePending
  <2> QED
    BY <1>3, <2>2
<1>7. Once(tq, N, more)
  BY <1>5, <1>6 DEF Once
<1>8. ASSUME c.request = NoRequest PROVE TransactionsOf(N) = TransactionsOf(P)
  <2>1. ASSUME NEW t PROVE t \in TransactionsOf(N) <=> t \in TransactionsOf(P)
    <3>1. ASSUME NEW p \in Queues, NEW k \in DOMAIN P[p], P[p][k].request # NoRequest
          PROVE  ~(p = q /\ k = 1)
      BY <1>1, <1>8, <3>1
    <3> QED
      BY <1>2, <1>4, <3>1, TransactionsOfFacts
  <2> QED
    BY <2>1
<1>9. ASSUME c.request # NoRequest
       PROVE  /\ TransactionOf(c) \in TransactionsOf(P)
              /\ TransactionsOf(N) = TransactionsOf(P) \ {TransactionOf(c)}
  <2>1. TransactionOf(c) \in TransactionsOf(P)
    BY <1>1, <1>9, TransactionsOfFacts
  <2>2. ASSUME NEW p \in Queues, NEW k \in DOMAIN P[p], P[p][k].request = c.request
        PROVE  p = q /\ k = 1
    BY <1>1, <1>9, <2>2 DEF Once, OncePending
  <2>3. ASSUME NEW t \in TransactionsOf(N)
        PROVE  t \in TransactionsOf(P) /\ t # TransactionOf(c)
    <3>0. PICK p \in Queues : \E k \in DOMAIN N[p] :
              N[p][k].request # NoRequest /\ t = TransactionOf(N[p][k])
      BY TransactionsOfFacts
    <3>1. PICK k \in DOMAIN N[p] : N[p][k].request # NoRequest /\ t = TransactionOf(N[p][k])
      BY <3>0
    <3>2. /\ before(p, k) \in DOMAIN P[p] /\ N[p][k] = P[p][before(p, k)]
          /\ ~(p = q /\ before(p, k) = 1)
      BY <1>2
    <3>3. t.request # c.request
      BY <2>2, <3>1, <3>2 DEF TransactionOf
    <3>4. TransactionOf(c).request = c.request
      BY DEF TransactionOf
    <3> QED
      BY <3>1, <3>2, <3>3, <3>4, TransactionsOfFacts
  <2>4. ASSUME NEW t \in TransactionsOf(P), t # TransactionOf(c) PROVE t \in TransactionsOf(N)
    <3>0. PICK p \in Queues : \E k \in DOMAIN P[p] :
              P[p][k].request # NoRequest /\ t = TransactionOf(P[p][k])
      BY TransactionsOfFacts
    <3>1. PICK k \in DOMAIN P[p] : P[p][k].request # NoRequest /\ t = TransactionOf(P[p][k])
      BY <3>0
    <3>2. ~(p = q /\ k = 1)
      BY <1>1, <2>4, <3>1
    <3>3. PICK l \in DOMAIN N[p] : N[p][l] = P[p][k]
      BY <1>4, <3>2
    <3> QED
      BY <3>1, <3>3, TransactionsOfFacts
  <2> QED
    BY <2>1, <2>3, <2>4
<1> QED
  BY <1>7, <1>8, <1>9

\* The list of commands of a transaction: the last one is its column command.
CommandsOf(x, t) ==
    /\ x \in Seq(Commands) /\ x # <<>>
    /\ TransactionOf(x[Len(x)]) = t
    /\ \A k \in 1 .. Len(x) - 1 : x[k].request = NoRequest

\* A transaction is scheduled: its commands are put in a queue that has none.
LEMMA ScheduleOnce ==
    ASSUME NEW tq \in Seq(Transactions), NEW flight, NEW P, Once(tq, P, flight),
           NEW i \in DOMAIN tq, NEW q \in Queues, q = RequestQueue(tq[i]), P[q] = <<>>,
           NEW x, CommandsOf(x, tq[i]),
           NEW N, N[q] = x, \A p \in Queues \ {q} : N[p] = P[p]
    PROVE  /\ Once(Without(tq, i), N, flight)
           /\ TransactionsOf(N) = TransactionsOf(P) \cup {tq[i]}
<1> DEFINE t == tq[i]
           rest == Without(tq, i)
           n == Len(x)
<1>1. /\ \A j \in DOMAIN rest : /\ Above(j, i) \in DOMAIN tq /\ Above(j, i) # i
                                 /\ Below(Above(j, i), i) = j
                                 /\ rest[j] = tq[Above(j, i)]
      /\ t \in Transactions
  BY WithoutPlaces, LenProperties, ElementOfSeq
<1>2. t.request # NoRequest /\ \A j \in DOMAIN tq : tq[j].request # NoRequest
  <2>1. \A j \in DOMAIN tq : tq[j] \in Transactions
    BY LenProperties, ElementOfSeq
  <2> QED
    BY <2>1, NoneAssumption DEF Transactions
<1>3. /\ n \in Nat /\ DOMAIN x = 1 .. n /\ n \in DOMAIN x
      /\ TransactionOf(x[n]) = t
      /\ \A k \in DOMAIN x : k # n => x[k].request = NoRequest
  <2>1. x \in Seq(Commands) /\ x # <<>> /\ TransactionOf(x[n]) = t
        /\ \A k \in 1 .. n - 1 : x[k].request = NoRequest
    BY DEF CommandsOf
  <2>2. n \in Nat /\ DOMAIN x = 1 .. n /\ n # 0
    BY <2>1, LenProperties, EmptySeq
  <2> QED
    BY <2>1, <2>2
<1>4. x[n].request = t.request /\ QueueOf(x[n].bank, x[n].sa) = q
  BY <1>3 DEF TransactionOf, RequestQueue
<1> HIDE DEF t, rest, n
<1>5. ASSUME NEW p \in Queues, NEW k \in DOMAIN N[p], N[p][k].request # NoRequest
      PROVE  \/ p = q /\ k = n /\ N[p][k] = x[n]
             \/ p # q /\ k \in DOMAIN P[p] /\ N[p][k] = P[p][k]
  BY <1>3, <1>5
<1>6. \A p \in Queues : \A k \in DOMAIN P[p] : p # q /\ P[p][k].request # t.request
  BY DEF Once, Apart, t
<1>7. OnceQueued(rest)
  <2> SUFFICES ASSUME NEW j \in DOMAIN rest, NEW k \in DOMAIN rest,
                      rest[j].request = rest[k].request
               PROVE  j = k
    BY DEF OnceQueued
  <2>1. Above(j, i) = Above(k, i)
    BY <1>1 DEF Once, OnceQueued
  <2> QED
    BY <1>1, <2>1
<1>8. Apart(rest, N, flight)
  <2> SUFFICES ASSUME NEW j \in DOMAIN rest
               PROVE  /\ rest[j].request \notin flight
                      /\ \A p \in Queues : \A k \in DOMAIN N[p] : N[p][k].request # rest[j].request
    BY DEF Apart
  <2>1. Above(j, i) \in DOMAIN tq /\ Above(j, i) # i /\ rest[j] = tq[Above(j, i)]
    BY <1>1
  <2>2. rest[j].request # t.request /\ rest[j].request # NoRequest
    BY <1>2, <2>1 DEF Once, OnceQueued, t
  <2>3. ASSUME NEW p \in Queues, NEW k \in DOMAIN N[p] PROVE N[p][k].request # rest[j].request
    BY <1>4, <1>5, <2>1, <2>2 DEF Once, Apart
  <2> QED
    BY <2>1, <2>3 DEF Once, Apart
<1>9. OncePending(N, flight)
  <2> SUFFICES ASSUME NEW p \in Queues, NEW k \in DOMAIN N[p], N[p][k].request # NoRequest,
                      NEW o \in Queues, NEW l \in DOMAIN N[o]
               PROVE  /\ QueueOf(N[p][k].bank, N[p][k].sa) = p
                      /\ N[p][k].request \notin flight
                      /\ N[o][l].request = N[p][k].request => o = p /\ l = k
    BY DEF OncePending
  <2>1. CASE p = q
    <3>1. k = n /\ N[p][k] = x[n]
      BY <1>5, <2>1
    <3>2. t.request \notin flight
      BY DEF Once, Apart, t
    <3> QED
      BY <1>4, <1>5, <1>6, <2>1, <3>1, <3>2
  <2>2. CASE p # q
    <3>1. k \in DOMAIN P[p] /\ N[p][k] = P[p][k]
      BY <1>5, <2>2
    <3>2. QueueOf(P[p][k].bank, P[p][k].sa) = p /\ P[p][k].request \notin flight
      BY <3>1 DEF Once, OncePending
    <3>3. ASSUME N[o][l].request = N[p][k].request PROVE o = p /\ l = k
      <4>1. o # q /\ l \in DOMAIN P[o] /\ N[o][l] = P[o][l]
        BY <1>4, <1>5, <1>6, <3>1, <3>3
      <4> QED
        BY <3>1, <3>3, <4>1 DEF Once, OncePending
    <3> QED
      BY <3>1, <3>2, <3>3
  <2> QED
    BY <2>1, <2>2
<1>10. TransactionsOf(N) = TransactionsOf(P) \cup {t}
  <2>1. ASSUME NEW u \in TransactionsOf(N) PROVE u \in TransactionsOf(P) \cup {t}
    BY <1>3, <1>5, TransactionsOfFacts
  <2>2. ASSUME NEW u \in TransactionsOf(P) PROVE u \in TransactionsOf(N)
    <3>0. PICK p \in Queues : \E k \in DOMAIN P[p] :
              P[p][k].request # NoRequest /\ u = TransactionOf(P[p][k])
      BY TransactionsOfFacts
    <3>1. PICK k \in DOMAIN P[p] : P[p][k].request # NoRequest /\ u = TransactionOf(P[p][k])
      BY <3>0
    <3>2. N[p] = P[p]
      BY <1>6
    <3> QED
      BY <3>1, <3>2, TransactionsOfFacts
  <2>3. t \in TransactionsOf(N)
    BY <1>2, <1>3, <1>4, TransactionsOfFacts
  <2> QED
    BY <2>1, <2>2, <2>3
<1> QED
  BY <1>7, <1>8, <1>9, <1>10 DEF Once, t, rest

\* The commands of a transaction are such a list.
LEMMA CommandsForOf ==
    ASSUME NEW t \in Transactions, NEW rest
    PROVE  CommandsOf(CommandsFor(t, rest), t)
<1> DEFINE a == IF Active(t) /\ ~RowHit(t) /\ effectiveRow[t.bank][t.sa] # NoRow /\ UsePrecharge
                THEN <<Command("PRECHARGE", t.bank, t.sa)>> ELSE <<>>
           b == IF RowHit(t) THEN <<>> ELSE <<RequestCommand("ACTIVATE", t)>>
           c == RequestCommand(IF Closes(t, rest) THEN "COLUMN_PRECHARGE" ELSE "COLUMN", t)
           x == CommandsFor(t, rest)
           Silent == {e \in Commands : e.request = NoRequest}
<1>1. a \in Seq(Silent) /\ b \in Seq(Silent)
  <2>1. Command("PRECHARGE", t.bank, t.sa) \in Silent
    <3>1. Command("PRECHARGE", t.bank, t.sa) \in Commands
      BY CommandFacts DEF Types, Transactions
    <3> QED
      BY <3>1 DEF Command
  <2>2. RequestCommand("ACTIVATE", t) \in Silent
    <3>1. RequestCommand("ACTIVATE", t) \in Commands
      BY CommandFacts DEF Types
    <3>2. RequestCommand("ACTIVATE", t).request = NoRequest
      BY DEF RequestCommand
    <3> QED
      BY <3>1, <3>2
  <2> HIDE DEF Silent
  <2> QED BY <2>1, <2>2
<1>2. TransactionOf(c) = t
  BY DEF TransactionOf, RequestCommand, Transactions
<1>3. x = (a \o b) \o <<c>> /\ x \in Seq(Commands) /\ x # <<>>
  BY CommandsForFacts DEF CommandsFor
<1>4. \A e \in Silent : e.request = NoRequest
  OBVIOUS
<1> DEFINE d == a \o b
<1> HIDE DEF a, b, c, x, Silent
<1>5. d \in Seq(Silent)
  BY <1>1, ConcatProperties
<1> HIDE DEF d
<1>6. x = d \o <<c>>
  BY <1>3 DEF d
<1>7. Len(d) \in Nat /\ Len(x) = Len(d) + 1 /\ x[Len(d) + 1] = c
      /\ \A k \in 1 .. Len(d) : x[k] = d[k] /\ d[k] \in Silent
  BY <1>5, <1>6
<1>8. TransactionOf(x[Len(x)]) = t
  BY <1>2, <1>7
<1>9. \A k \in 1 .. Len(x) - 1 : x[k].request = NoRequest
  <2> SUFFICES ASSUME NEW k \in 1 .. Len(x) - 1 PROVE x[k].request = NoRequest
    OBVIOUS
  <2>1. k \in 1 .. Len(d)
    BY <1>7
  <2> QED
    BY <1>4, <1>7, <2>1
<1> QED
  BY <1>3, <1>8, <1>9 DEF CommandsOf, x

\* FR-FCFS: whatever class the scheduler serves, transactions to one row are in the same
\* class, and it serves the first of them.
LEMMA NextIsFirst ==
    ASSUME TypeOK, LastArrived(transactionQueue, arrived), NextTransaction # 0
    PROVE  /\ NextTransaction \in DOMAIN transactionQueue
           /\ Schedulable(transactionQueue[NextTransaction])
           /\ \A j \in 1 .. NextTransaction - 1 :
                  ~SameRow(transactionQueue[j], transactionQueue[NextTransaction])
<1> DEFINE tq == transactionQueue
           ready == {i \in DOMAIN tq : Schedulable(tq[i])}
           starved == {i \in ready : Starved(tq[i])}
           hits == {i \in ready : RowHit(tq[i])}
           active == {i \in ready : Active(tq[i])}
           n == NextTransaction
<1>1. n = CASE starved # {} -> Least(starved)
          [] starved = {} /\ hits # {} -> Least(hits)
          [] starved = {} /\ hits = {} /\ active # {} -> Least(active)
          [] active = {} /\ ready # {} -> Least(ready)
          [] OTHER -> 0
  BY DEF NextTransaction
<1>2. /\ DOMAIN tq \subseteq Nat /\ DOMAIN tq = 1 .. Len(tq) /\ Len(tq) \in Nat
  BY LenProperties DEF TypeOK
<1>3. ASSUME NEW j \in DOMAIN tq, NEW k \in DOMAIN tq, j < k, SameRow(tq[j], tq[k])
      PROVE  /\ k \in ready => j \in ready
             /\ k \in starved => j \in starved
             /\ k \in hits => j \in hits
             /\ k \in active => j \in active
  <2>1. tq[j].bank = tq[k].bank /\ tq[j].sa = tq[k].sa /\ tq[j].row = tq[k].row
    BY <1>3 DEF SameRow
  <2>2. tq[j].request \in arrived => tq[k].request \in arrived
    BY <1>3 DEF LastArrived
  <2>3. RequestQueue(tq[j]) = RequestQueue(tq[k])
    BY <2>1 DEF RequestQueue
  <2>4. Schedulable(tq[k]) => Schedulable(tq[j])
    BY <2>1, <2>2, <2>3 DEF Schedulable
  <2>5. /\ Active(tq[j]) <=> Active(tq[k])
        /\ RowHit(tq[j]) <=> RowHit(tq[k])
        /\ Starved(tq[j]) <=> Starved(tq[k])
    BY <2>1 DEF Active, RowHit, Starved
  <2> QED
    BY <2>4, <2>5
<1>4. \A S \in {ready, starved, hits, active} :
          S \subseteq ready /\ \A j, k \in DOMAIN tq : j < k /\ SameRow(tq[j], tq[k]) /\ k \in S => j \in S
  BY <1>3
<1>5. /\ ready \subseteq DOMAIN tq /\ \A i \in ready : Schedulable(tq[i])
      /\ starved \subseteq active /\ hits \subseteq active
  BY DEF Starved, RowHit
<1> HIDE DEF ready, starved, hits, active, n, tq
<1>6. \E S \in {ready, starved, hits, active} : S # {} /\ n = Least(S)
  <2>1. n # 0
    BY DEF n
  <2>2. CASE starved # {}
    <3>1. n = Least(starved)
      BY <1>1, <1>5, <2>2
    <3> QED BY <2>2, <3>1
  <2>3. CASE starved = {} /\ hits # {}
    <3>1. n = Least(hits)
      BY <1>1, <1>5, <2>3
    <3> QED BY <2>3, <3>1
  <2>4. CASE starved = {} /\ hits = {} /\ active # {}
    <3>1. n = Least(active)
      BY <1>1, <2>4
    <3> QED BY <2>4, <3>1
  <2>5. CASE starved = {} /\ hits = {} /\ active = {} /\ ready # {}
    <3>1. n = Least(ready)
      BY <1>1, <2>5
    <3> QED BY <2>5, <3>1
  <2>6. CASE starved = {} /\ hits = {} /\ active = {} /\ ready = {}
    <3>1. n = 0
      BY <1>1, <2>6
    <3> QED BY <2>1, <3>1
  <2> QED
    BY <2>2, <2>3, <2>4, <2>5, <2>6
<1>7. PICK S \in {ready, starved, hits, active} : S # {} /\ n = Least(S)
  BY <1>6
<1>8. S \in SUBSET Nat
  BY <1>2, <1>4, <1>5
<1>9. n \in S /\ \A j \in S : n <= j
  BY <1>7, <1>8, LeastFacts
<1>10. n \in ready /\ n \in DOMAIN tq
  BY <1>4, <1>5, <1>9
<1>11. ASSUME NEW j \in 1 .. n - 1 PROVE ~SameRow(tq[j], tq[n])
  <2>1. j \in DOMAIN tq /\ j < n /\ ~(n <= j)
    BY <1>2, <1>10
  <2>2. j \notin S
    BY <1>9, <2>1
  <2> QED
    BY <1>4, <1>9, <1>10, <2>1, <2>2
<1> QED
  BY <1>5, <1>10, <1>11 DEF n, tq

\* What HandleRefresh queues belongs to no request.
LEMMA RefreshTailSilent ==
    ASSUME NEW q \in Queues, NEW g \in Groups
    PROVE  /\ RefreshTail(q, g) \in Seq(Commands)
           /\ \A k \in DOMAIN RefreshTail(q, g) : RefreshTail(q, g)[k].request = NoRequest
<1> DEFINE x == IF UsePrecharge THEN Precharges(q, g) ELSE <<>>
           r == Command("REFRESH", GroupHead(g), 0)
           y == IF q = QueueOf(GroupHead(g), 0) THEN <<r>> ELSE <<>>
           Silent == {e \in Commands : e.request = NoRequest}
<1>1. x \in Seq(Silent)
  <2>1. Precharges(q, g) \in Seq(Commands)
    BY PrechargesFacts
  <2>2. \A k \in DOMAIN Precharges(q, g) : Precharges(q, g)[k].request = NoRequest
    BY DEF Precharges, Command
  <2> DEFINE p == Precharges(q, g)
  <2> HIDE DEF p
  <2>3. p \in Seq(Silent)
    <3>1. p \in Seq(Commands) /\ \A k \in DOMAIN p : p[k].request = NoRequest
      BY <2>1, <2>2 DEF p
    <3>2. Len(p) \in Nat /\ DOMAIN p = 1 .. Len(p) /\ p \in [1 .. Len(p) -> Commands]
      BY <3>1, LenProperties, ElementOfSeq
    <3>3. p \in [1 .. Len(p) -> Silent]
      BY <3>1, <3>2
    <3> HIDE DEF Silent
    <3> QED
      BY <3>2, <3>3
  <2> QED
    BY <2>3 DEF p
<1>2. y \in Seq(Silent)
  <2>1. r \in Commands
    BY CommandFacts, GroupFacts, QueueFacts DEF Types
  <2>2. r.request = NoRequest
    BY DEF Command
  <2> HIDE DEF r
  <2>3. r \in Silent
    BY <2>1, <2>2
  <2> HIDE DEF Silent
  <2> QED
    BY <2>3
<1>3. RefreshTail(q, g) = x \o y
  BY DEF RefreshTail
<1>4. Silent \subseteq Commands /\ \A e \in Silent : e.request = NoRequest
  OBVIOUS
<1> HIDE DEF x, y, Silent
<1> DEFINE z == RefreshTail(q, g)
<1>5. z \in Seq(Silent)
  BY <1>1, <1>2, <1>3, ConcatProperties
<1> HIDE DEF z
<1>6. z \in Seq(Commands)
  BY <1>4, <1>5, SeqMonotone
<1>7. \A k \in DOMAIN z : z[k] \in Silent
  BY <1>5, LenProperties, ElementOfSeq
<1> QED
  BY <1>4, <1>6, <1>7 DEF z

-----------------------------------------------------------------------------
(* The channel: every step keeps the order, and is a step of Channel.       *)

ChannelStep == [ChannelView!Next]_<<transactionQueue, Scheduled, inFlight>>

\* Of the transactions that are ready, one is issued, or none.
IssuesOne(ready, left) ==
    \/ left = ready /\ UNCHANGED inFlight
    \/ \E t \in ready : left = ready \ {t} /\ inFlight' = inFlight \cup {t.request}

\* CycleCommandQueues, with the lists cq: it issues one head or none.
LEMMA CycleCommandQueuesOrder ==
    ASSUME TypeOK, IssuedHeads, cleanup # "due", NEW cq \in CommandLists,
           \A q \in issued : cq[q] # <<>>,
           CycleCommandQueues(cq), NEW tq, \A i \in DOMAIN tq : tq[i].request # NoRequest,
           Once(tq, PendingLists(cq, issued), inFlight)
    PROVE  /\ Once(tq, PendingLists(commandQueues', issued'), inFlight')
           /\ IssuesOne(TransactionsOf(PendingLists(cq, issued)),
                        TransactionsOf(PendingLists(commandQueues', issued')))
<1>1. commandQueues' = cq
  BY DEF CycleCommandQueues
<1>2. CASE IssuableQueues(cq) = {}
  <2>1. UNCHANGED <<issued, inFlight>>
    BY <1>2 DEF CycleCommandQueues, deviceVars
  <2> QED
    BY <1>1, <2>1 DEF IssuesOne
<1>3. CASE IssuableQueues(cq) # {}
  <2> DEFINE q == ServedQueue(cq)
             P == PendingLists(cq, issued)
             N == PendingLists(cq, issued')
             c == P[q][1]
  <2>1. q \in Queues /\ cq[q] # <<>> /\ lastIssueCycle # "now"
    BY <1>3, ServedFacts
  <2>2. issued = {}
    BY <2>1 DEF IssuedHeads
  <2>3. DeviceIssue(Head(cq[q])) /\ issued' = {q}
    BY <1>3, <2>2 DEF CycleCommandQueues
  <2> HIDE DEF q
  <2>4. P \in CommandLists
    BY <2>2, PendingListsFacts
  <2>5. /\ P[q] = cq[q] /\ P[q] # <<>>
        /\ N[q] = Tail(P[q]) /\ \A p \in Queues \ {q} : N[p] = P[p]
    BY <2>1, <2>2, <2>3 DEF PendingLists
  <2>6. Head(cq[q]) = c
    <3>1. cq[q] \in Seq(Commands)
      BY <2>1 DEF CommandLists
    <3> QED
      BY <2>1, <2>5, <3>1
  <2>7. inFlight' = inFlight \cup ({c.request} \ {NoRequest})
    BY <2>3, <2>6 DEF DeviceIssue
  <2>8. Once(tq, P, inFlight) /\ c = P[q][1]
    OBVIOUS
  <2> HIDE DEF P, N, c
  <2>9. /\ Once(tq, N, inFlight \cup ({c.request} \ {NoRequest}))
        /\ c.request = NoRequest => TransactionsOf(N) = TransactionsOf(P)
        /\ c.request # NoRequest => /\ TransactionOf(c) \in TransactionsOf(P)
                                    /\ TransactionsOf(N) = TransactionsOf(P) \ {TransactionOf(c)}
    BY <2>1, <2>4, <2>5, <2>8, IssueOnce, SMTT(30)
  <2>10. IssuesOne(TransactionsOf(P), TransactionsOf(N))
    <3>1. CASE c.request = NoRequest
      BY <2>7, <2>9, <3>1 DEF IssuesOne
    <3>2. CASE c.request # NoRequest
      <4>1. inFlight' = inFlight \cup {TransactionOf(c).request}
        BY <2>7, <3>2 DEF TransactionOf
      <4> QED
        BY <2>9, <3>2, <4>1 DEF IssuesOne
    <3> QED
      BY <3>1, <3>2
  <2> QED
    BY <1>1, <2>7, <2>9, <2>10 DEF P, N
<1> QED
  BY <1>2, <1>3

\* What the steps need of the types.
LEMMA OrderTypes ==
    ASSUME IndInv
    PROVE  /\ commandQueues \in CommandLists /\ \A q \in issued : commandQueues[q] # <<>>
           /\ PendingLists(commandQueues, issued) \in CommandLists
           /\ transactionQueue \in Seq(Transactions)
           /\ \A i \in DOMAIN transactionQueue : transactionQueue[i].request # NoRequest
<1>1. /\ commandQueues \in CommandLists /\ \A q \in issued : commandQueues[q] # <<>>
      /\ transactionQueue \in Seq(Transactions)
  BY DEF IndInv, TypeOK, IssuedHeads, CommandLists
<1>2. \A i \in DOMAIN transactionQueue : transactionQueue[i].request # NoRequest
  <2>1. \A i \in DOMAIN transactionQueue : transactionQueue[i] \in Transactions
    BY <1>1, LenProperties, ElementOfSeq
  <2> QED
    BY <2>1, NoneAssumption DEF Transactions
<1> QED
  BY <1>1, <1>2, PendingListsFacts

\* CommandQueueCallback schedules nothing.
LEMMA CommandQueueCallbackOrder ==
    ASSUME IndInv, OrderInv, CommandQueueCallback
    PROVE  OrderInv' /\ ChannelStep
<1> DEFINE P == PendingLists(commandQueues, issued)
           N == PendingLists(commandQueues', issued')
<1>1. /\ TypeOK /\ IssuedHeads /\ cleanup # "due" /\ CycleCommandQueues(commandQueues)
      /\ UNCHANGED <<transactionQueue, arrived>>
  BY DEF IndInv, CommandQueueCallback
<1>2. Once(transactionQueue, P, inFlight) /\ LastArrived(transactionQueue, arrived)
      /\ Scheduled = TransactionsOf(P)
  BY OrderParts
<1>3. Once(transactionQueue, N, inFlight') /\ IssuesOne(TransactionsOf(P), TransactionsOf(N))
  BY <1>1, <1>2, OrderTypes, CycleCommandQueuesOrder
<1>4. OrderInv' /\ Scheduled' = TransactionsOf(N)
  BY <1>1, <1>2, <1>3, OrderPartsPrimed
<1> HIDE DEF P, N
<1>5. IssuesOne(Scheduled, Scheduled')
  BY <1>2, <1>3, <1>4
<1>6. ChannelView!Issue(Scheduled)
  BY <1>5 DEF IssuesOne, ChannelView!Issue
<1> QED
  BY <1>1, <1>4, <1>6 DEF ChannelStep, ChannelView!Next, ChannelView!Work

\* A step that changes neither the transaction queue, nor the device, nor what is to be
\* issued: those that came in this cycle stay the same, or the cycle is over.
LEMMA SameOrder ==
    ASSUME OrderInv, PendingLists(commandQueues', issued') = PendingLists(commandQueues, issued),
           UNCHANGED <<transactionQueue, inFlight>>, UNCHANGED arrived \/ arrived' = {}
    PROVE  OrderInv' /\ ChannelStep
<1>1. LastArrived(transactionQueue, arrived')
  BY OrderParts DEF LastArrived
<1>2. OrderInv' /\ Scheduled' = Scheduled
  BY <1>1, OrderParts, OrderPartsPrimed
<1> QED
  BY <1>2 DEF ChannelStep

\* CleanupCallback removes what was issued.
LEMMA CleanupOrder ==
    ASSUME OrderInv, CleanupCallback
    PROVE  OrderInv' /\ ChannelStep
<1>1. /\ commandQueues' = PendingLists(commandQueues, issued) /\ issued' = {}
      /\ UNCHANGED <<transactionQueue, inFlight, arrived>>
  BY DEF CleanupCallback, PendingLists, deviceVars
<1>2. PendingLists(commandQueues', issued') = PendingLists(commandQueues, issued)
  BY <1>1 DEF PendingLists
<1> QED
  BY <1>1, <1>2, SameOrder

\* The refresh pulse: what it queues belongs to no request.
LEMMA RefreshOrder ==
    ASSUME IndInv, OrderInv, NEW g \in Groups, RefreshCallback(g)
    PROVE  OrderInv' /\ ChannelStep
<1>1. UNCHANGED <<issued, transactionQueue, arrived, inFlight>>
  BY DEF RefreshCallback, deviceVars
<1>2. CASE UNCHANGED commandQueues
  BY <1>1, <1>2, SameOrder
<1>3. CASE commandQueues' = RefreshQueues(g)
  <2> DEFINE P == PendingLists(commandQueues, issued)
             N == PendingLists(commandQueues', issued')
             x == [q \in Queues |-> RefreshTail(q, g)]
  <2>1. \A q \in Queues : N[q] = P[q] \o x[q]
    BY <1>1, <1>3, RefreshPending
  <2>2. x \in CommandLists /\ \A q \in Queues : \A k \in DOMAIN x[q] : x[q][k].request = NoRequest
    BY RefreshTailSilent DEF CommandLists
  <2>3. P \in CommandLists /\ \A i \in DOMAIN transactionQueue : transactionQueue[i].request # NoRequest
    BY OrderTypes
  <2>4. Once(transactionQueue, P, inFlight) /\ LastArrived(transactionQueue, arrived)
        /\ Scheduled = TransactionsOf(P)
    BY OrderParts
  <2> HIDE DEF x, P
  <2>5. Once(transactionQueue, N, inFlight) /\ TransactionsOf(N) = TransactionsOf(P)
    <3>1. GrownBy(P, x, N)
      BY <2>1, <2>2 DEF GrownBy
    <3> HIDE DEF N
    <3> QED
      BY <2>2, <2>3, <2>4, <3>1, AppendOnce
  <2>6. OrderInv' /\ Scheduled' = Scheduled
    BY <1>1, <2>4, <2>5, OrderPartsPrimed
  <2> QED
    BY <1>1, <2>6 DEF ChannelStep
<1> QED
  BY <1>2, <1>3, RefreshServes

\* A request is accepted when it is nowhere in the controller.
LEMMA EnqueueOrder ==
    ASSUME IndInv, OrderInv, NEW t \in Transactions, Enqueue(t)
    PROVE  OrderInv' /\ ChannelStep
<1> DEFINE tq == transactionQueue
           more == Append(tq, t)
           P == PendingLists(commandQueues, issued)
           N == PendingLists(commandQueues', issued')
<1>1. /\ ~Outstanding(t.request) /\ Len(tq) < QueueSize
      /\ transactionQueue' = more /\ arrived' = arrived \cup {t.request}
      /\ UNCHANGED <<commandQueues, issued, inFlight>>
  BY DEF Enqueue, queueVars, deviceVars
<1>2. Once(tq, P, inFlight) /\ LastArrived(tq, arrived) /\ Scheduled = TransactionsOf(P)
  BY OrderParts
<1>3. tq \in Seq(Transactions) /\ commandQueues \in CommandLists /\ P \in CommandLists
  BY OrderTypes
<1>4. \A q \in Queues : \A k \in DOMAIN P[q] : P[q][k].request # t.request
  <2> SUFFICES ASSUME NEW q \in Queues, NEW k \in DOMAIN P[q]
               PROVE  P[q][k].request # t.request
    OBVIOUS
  <2>1. CASE q \notin issued
    BY <1>1, <2>1 DEF Outstanding, PendingLists
  <2>2. CASE q \in issued
    <3> DEFINE list == commandQueues[q]
    <3>1. list \in Seq(Commands) /\ list # <<>> /\ P[q] = Tail(list)
      BY <1>3, <2>2, OrderTypes DEF CommandLists, PendingLists
    <3>2. \A j \in DOMAIN list : list[j].request = t.request => j = 1
      BY <1>1 DEF Outstanding
    <3>3. k \in DOMAIN P[q]
      OBVIOUS
    <3> HIDE DEF list, P
    <3>4. k \in Nat /\ k + 1 \in DOMAIN list /\ k + 1 # 1 /\ P[q][k] = list[k + 1]
      BY <3>1, <3>3
    <3> QED
      BY <3>2, <3>4
  <2> QED
    BY <2>1, <2>2
<1>5. t.request \notin inFlight /\ \A i \in DOMAIN tq : tq[i].request # t.request
  BY <1>1 DEF Outstanding
<1> DEFINE n == Len(tq) + 1
<1>6. /\ DOMAIN more = DOMAIN tq \cup {n} /\ more[n] = t
      /\ \A j \in DOMAIN tq : more[j] = tq[j] /\ j < n
      /\ n \in Nat /\ DOMAIN tq \subseteq Nat
  <2>1. /\ Len(tq) \in Nat /\ DOMAIN tq = 1 .. Len(tq)
        /\ DOMAIN more = DOMAIN tq \cup {n} /\ more[n] = t
        /\ \A j \in DOMAIN tq : more[j] = tq[j]
    BY <1>3, AppendPlaces
  <2>2. n \in Nat /\ DOMAIN tq \subseteq Nat /\ \A j \in DOMAIN tq : j < n
    BY <2>1
  <2> HIDE DEF more
  <2> QED
    BY <2>1, <2>2
<1>7. N = P
  BY <1>1
<1> HIDE DEF P, N, more, tq, n
<1>8. Once(more, P, inFlight)
  BY <1>2, <1>4, <1>5, <1>6 DEF Once, OnceQueued, Apart
<1>9. LastArrived(more, arrived')
  <2> SUFFICES ASSUME NEW i \in DOMAIN more, NEW j \in DOMAIN more, i < j, more[i].request \in arrived'
               PROVE  more[j].request \in arrived'
    BY DEF LastArrived
  <2>1. CASE j = n
    BY <1>1, <1>6, <2>1
  <2>2. CASE j # n
    <3>1. j \in DOMAIN tq /\ j < n /\ i # n
      BY <1>6, <2>2
    <3>2. i \in DOMAIN tq /\ tq[i].request \in arrived
      BY <1>1, <1>5, <1>6, <3>1
    <3> QED
      BY <1>1, <1>2, <1>6, <3>1, <3>2 DEF LastArrived
  <2> QED
    BY <2>1, <2>2
<1>10. OrderInv' /\ Scheduled' = Scheduled
  BY <1>1, <1>2, <1>7, <1>8, <1>9, OrderPartsPrimed DEF N
<1>11. ~ChannelView!UnderWay(t.request)
  <2>1. ASSUME NEW u \in Scheduled PROVE u.request # t.request
    <3>1. PICK q \in Queues : \E k \in DOMAIN P[q] : P[q][k].request # NoRequest /\ u = TransactionOf(P[q][k])
      BY <1>2, <2>1, TransactionsOfFacts
    <3> QED
      BY <1>4, <3>1 DEF TransactionOf
  <2> QED
    BY <1>5, <2>1 DEF ChannelView!UnderWay, tq
<1>12. ChannelView!Accept
  BY <1>1, <1>10, <1>11 DEF ChannelView!Accept, more, tq
<1> QED
  BY <1>10, <1>12 DEF ChannelStep, ChannelView!Next

\* The device answers.
LEMMA RequestCompleteOrder ==
    ASSUME OrderInv, NEW r \in Requests, RequestComplete(r)
    PROVE  OrderInv' /\ ChannelStep
<1> DEFINE P == PendingLists(commandQueues, issued)
<1>1. /\ r \in inFlight /\ inFlight' = inFlight \ {r}
      /\ UNCHANGED <<transactionQueue, arrived, commandQueues, issued>>
  BY DEF RequestComplete, queueVars
<1>2. Once(transactionQueue, P, inFlight) /\ LastArrived(transactionQueue, arrived)
      /\ Scheduled = TransactionsOf(P)
  BY OrderParts
<1> HIDE DEF P
<1>3. Once(transactionQueue, P, inFlight')
  BY <1>1, <1>2 DEF Once, Apart, OncePending
<1>4. OrderInv' /\ Scheduled' = Scheduled
  BY <1>1, <1>2, <1>3, OrderPartsPrimed DEF P
<1>5. ChannelView!Complete
  BY <1>1, <1>4 DEF ChannelView!Complete
<1> QED
  BY <1>4, <1>5 DEF ChannelStep, ChannelView!Next

\* A transaction is taken from the queue: the others keep their order.
LEMMA WithoutArrived ==
    ASSUME NEW tq \in Seq(Transactions), NEW i \in DOMAIN tq, NEW new, LastArrived(tq, new)
    PROVE  LastArrived(Without(tq, i), new)
<1> DEFINE rest == Without(tq, i)
<1>1. /\ i \in Nat /\ Len(tq) \in Nat /\ DOMAIN rest = 1 .. Len(tq) - 1
      /\ \A j \in DOMAIN rest : Above(j, i) \in DOMAIN tq /\ rest[j] = tq[Above(j, i)]
  BY WithoutPlaces
<1> HIDE DEF rest
<1>2. \A j, k \in DOMAIN rest : j < k => Above(j, i) < Above(k, i)
  BY <1>1 DEF Above
<1>3. LastArrived(rest, new)
  BY <1>1, <1>2 DEF LastArrived
<1> QED
  BY <1>3 DEF rest

\* The scheduler serves the first transaction to a row, and none to this row is on its way.
LEMMA CycleOrder ==
    ASSUME IndInv, OrderInv, Cycle
    PROVE  OrderInv' /\ ChannelStep
<1> DEFINE tq == transactionQueue
           i == NextTransaction
           t == tq[i]
           rest == Without(tq, i)
           q == RequestQueue(t)
           cq == IF i = 0 THEN commandQueues
                 ELSE [commandQueues EXCEPT ![q] = @ \o CommandsFor(t, rest)]
           P == PendingLists(commandQueues, issued)
           M == PendingLists(cq, issued)
           N == PendingLists(commandQueues', issued')
<1>1. TypeOK /\ IssuedHeads /\ cleanup # "due" /\ CycleCommandQueues(cq) /\ UNCHANGED arrived
  BY DEF IndInv, Cycle
<1>2. \/ i = 0 /\ transactionQueue' = tq
      \/ i # 0 /\ transactionQueue' = rest
  BY DEF Cycle
<1>3. Once(tq, P, inFlight) /\ LastArrived(tq, arrived) /\ Scheduled = TransactionsOf(P)
  BY OrderParts
<1>4. /\ commandQueues \in CommandLists /\ \A p \in issued : commandQueues[p] # <<>>
      /\ tq \in Seq(Transactions) /\ \A j \in DOMAIN tq : tq[j].request # NoRequest
  BY OrderTypes
<1>5. CASE i = 0
  <2>1. cq = commandQueues /\ transactionQueue' = tq
    BY <1>2, <1>5
  <2> HIDE DEF cq, i, t, rest, q
  <2>2. Once(tq, N, inFlight') /\ IssuesOne(TransactionsOf(P), TransactionsOf(N))
    BY <1>1, <1>3, <1>4, <2>1, CycleCommandQueuesOrder
  <2>3. OrderInv' /\ Scheduled' = TransactionsOf(N)
    BY <1>1, <1>3, <2>1, <2>2, OrderPartsPrimed
  <2> HIDE DEF P, N
  <2>4. IssuesOne(Scheduled, Scheduled')
    BY <1>3, <2>2, <2>3
  <2>5. ChannelView!Issue(Scheduled)
    BY <2>4 DEF IssuesOne, ChannelView!Issue
  <2> QED
    BY <2>1, <2>3, <2>5 DEF ChannelStep, ChannelView!Next, ChannelView!Work
<1>6. CASE i # 0
  <2>1. /\ i \in DOMAIN tq /\ Schedulable(t)
        /\ \A j \in 1 .. i - 1 : ~SameRow(tq[j], t)
    BY <1>1, <1>3, <1>6, NextIsFirst
  <2>2. t \in Transactions /\ q \in Queues
    BY <1>1, <2>1, RequestQueueFacts
  <2>3. commandQueues[q] = <<>> /\ q \notin issued
    BY <1>4, <2>1 DEF Schedulable
  <2> DEFINE x == CommandsFor(t, rest)
  <2>4. CommandsOf(x, t) /\ x \in Seq(Commands) /\ x # <<>>
    <3>1. CommandsOf(x, t)
      BY <2>2, CommandsForOf
    <3> QED
      BY <3>1 DEF CommandsOf
  <2>5. cq = Appended(commandQueues, q, x)
    BY <1>6 DEF Appended
  <2>6. transactionQueue' = rest
    BY <1>2, <1>6
  <2> HIDE DEF cq, i, t, q, x
  <2>7. /\ cq \in CommandLists /\ cq[q] = commandQueues[q] \o x
        /\ \A p \in Queues \ {q} : cq[p] = commandQueues[p]
    BY <1>4, <2>2, <2>4, <2>5, AppendedFacts
  <2>8. cq[q] = x
    BY <2>3, <2>4, <2>7
  <2>9. \A p \in issued : cq[p] # <<>>
    BY <1>1, <1>4, <2>3, <2>7 DEF TypeOK
  <2>10. P[q] = <<>> /\ M[q] = x /\ \A p \in Queues \ {q} : M[p] = P[p]
    BY <2>2, <2>3, <2>7, <2>8 DEF PendingLists
  <2>11. t = tq[i]
    BY DEF t
  <2> HIDE DEF P, M
  <2>12. Once(rest, M, inFlight) /\ TransactionsOf(M) = TransactionsOf(P) \cup {t}
    BY <1>3, <1>4, <2>1, <2>2, <2>4, <2>10, <2>11, ScheduleOnce DEF q
  <2>13. /\ rest \in Seq(Transactions) /\ \A j \in DOMAIN rest : rest[j].request # NoRequest
         /\ LastArrived(rest, arrived)
    <3>1. \A j \in DOMAIN rest : Above(j, i) \in DOMAIN tq /\ rest[j] = tq[Above(j, i)]
      BY <1>4, <2>1, WithoutPlaces
    <3>2. rest \in Seq(Transactions)
      BY <1>4, <2>1, WithoutPlaces
    <3> QED
      BY <1>3, <1>4, <2>1, <3>1, <3>2, WithoutArrived
  <2> HIDE DEF rest
  <2>14. Once(rest, N, inFlight') /\ IssuesOne(TransactionsOf(M), TransactionsOf(N))
    BY <1>1, <2>7, <2>9, <2>12, <2>13, CycleCommandQueuesOrder DEF M
  <2>15. OrderInv' /\ Scheduled' = TransactionsOf(N)
    BY <1>1, <2>6, <2>13, <2>14, OrderPartsPrimed
  <2> HIDE DEF N
  <2>16. ChannelView!Issue(Scheduled \cup {tq[i]})
    <3>1. IssuesOne(Scheduled \cup {tq[i]}, Scheduled')
      BY <1>3, <2>11, <2>12, <2>14, <2>15
    <3> QED
      BY <3>1 DEF IssuesOne, ChannelView!Issue
  <2>17. ChannelView!FirstToRow(i)
    <3>1. \A j \in 1 .. i - 1 : ~ChannelView!ToSameRow(tq[j], tq[i])
      BY <2>1, <2>11 DEF ChannelView!ToSameRow, SameRow
    <3>2. ASSUME NEW u \in Scheduled PROVE ~ChannelView!ToSameRow(u, tq[i])
      <4>1. PICK p \in Queues :
                \E k \in DOMAIN P[p] : P[p][k].request # NoRequest /\ u = TransactionOf(P[p][k])
        BY <1>3, <3>2, TransactionsOfFacts
      <4>2. PICK k \in DOMAIN P[p] : P[p][k].request # NoRequest /\ u = TransactionOf(P[p][k])
        BY <4>1
      <4>3. u.bank = P[p][k].bank /\ u.sa = P[p][k].sa /\ QueueOf(P[p][k].bank, P[p][k].sa) = p
        BY <1>3, <4>2 DEF Once, OncePending, TransactionOf
      <4>4. p # q
        BY <2>10, <4>2
      <4> QED
        BY <2>11, <4>3, <4>4 DEF ChannelView!ToSameRow, q, RequestQueue
    <3> QED
      BY <3>1, <3>2 DEF ChannelView!FirstToRow, tq
  <2>18. ChannelView!Work
    BY <2>1, <2>6, <2>16, <2>17 DEF ChannelView!Work, rest, tq, ChannelView!Without, Without
  <2> QED
    BY <2>15, <2>18 DEF ChannelStep, ChannelView!Next
<1> QED
  BY <1>5, <1>6

\* Every step keeps the order, and is a step of the channel or changes nothing there.
LEMMA NextOrder ==
    ASSUME IndInv, OrderInv, [Next]_vars
    PROVE  OrderInv' /\ ChannelStep
<1>1. ASSUME NEW t \in Transactions, Enqueue(t) PROVE OrderInv' /\ ChannelStep
  BY <1>1, EnqueueOrder
<1>2. ASSUME NEW r \in Requests, RequestComplete(r) PROVE OrderInv' /\ ChannelStep
  BY <1>2, RequestCompleteOrder
<1>3. CASE CleanupCallback
  BY <1>3, CleanupOrder
<1>4. ASSUME NEW g \in Groups, RefreshCallback(g) PROVE OrderInv' /\ ChannelStep
  BY <1>4, RefreshOrder
<1>5. CASE Cycle
  BY <1>5, CycleOrder
<1>6. CASE CommandQueueCallback
  BY <1>6, CommandQueueCallbackOrder
<1>7. CASE Tick
  BY <1>7, SameOrder DEF Tick
<1>8. CASE UNCHANGED vars
  BY <1>8, SameOrder DEF vars, queueVars, deviceVars
<1> QED
  BY <1>1, <1>2, <1>3, <1>4, <1>5, <1>6, <1>7, <1>8 DEF Next, EventStep

\* The empty controller is an empty channel.
LEMMA InitOrder ==
    ASSUME Init
    PROVE  OrderInv /\ ChannelView!Init
<1> DEFINE P == PendingLists(commandQueues, issued)
<1>1. \A q \in Queues : P[q] = <<>> /\ DOMAIN P[q] = {}
  BY DEF Init, PendingLists
<1>2. transactionQueue = <<>> /\ DOMAIN transactionQueue = {} /\ inFlight = {}
  BY DEF Init
<1> HIDE DEF P
<1>3. Once(transactionQueue, P, inFlight) /\ LastArrived(transactionQueue, arrived)
  BY <1>1, <1>2 DEF Once, OnceQueued, Apart, OncePending, LastArrived
<1>4. TransactionsOf(P) = {}
  BY <1>1, TransactionsOfFacts
<1> QED
  BY <1>2, <1>3, <1>4, OrderParts DEF ChannelView!Init, P

\* A request is in one place of the controller at most, in the queue of its subarray, and
\* the transactions of this cycle are behind the others, in every reachable state.
THEOREM OrderConsistent == Spec => []OrderInv
<1>1. Init => IndInv /\ OrderInv
  BY InitInv, InitOrder
<1>2. (IndInv /\ OrderInv) /\ [Next]_vars => (IndInv /\ OrderInv)'
  BY NextInv, NextOrder
<1> QED
  BY <1>1, <1>2, PTL DEF Spec

\* The controller implements the channel that NVMain counts on: each transaction is issued
\* exactly once, and none overtakes another to the same row, whatever the sizes, the page
\* policy, the delays of the device and the refreshes.
THEOREM ControllerKeepsOrder == Spec => KeepsOrder
<1>1. Init => IndInv /\ OrderInv /\ ChannelView!Init
  BY InitInv, InitOrder
<1>2. (IndInv /\ OrderInv) /\ [Next]_vars
          => (IndInv /\ OrderInv)' /\ [ChannelView!Next]_<<transactionQueue, Scheduled, inFlight>>
  BY NextInv, NextOrder DEF ChannelStep
<1> QED
  BY <1>1, <1>2, PTL DEF Spec, KeepsOrder, ChannelView!Spec

-----------------------------------------------------------------------------
(* The refreshes and the marks of the banks.                                *)

\* A REFRESH of group g, one that waits in the lists P, and never two of them.
RefreshOf(c, g) == c.type = "REFRESH" /\ GroupOf(c.bank) = g
RefreshWaits(P, g) == \E q \in Queues : \E k \in DOMAIN P[q] : RefreshOf(P[q][k], g)
WaitsOnce(P, g) ==
    \A q, p \in Queues : \A k \in DOMAIN P[q], l \in DOMAIN P[p] :
        RefreshOf(P[q][k], g) /\ RefreshOf(P[p][l], g) => p = q /\ l = k

\* The marks of the banks, each answered, and each right.
Answered(P, marks) ==
    \A g \in Groups : \A bank \in GroupBanks(g) : bank \in marks => RefreshWaits(P, g)
Marked(P, marks) ==
    \A g \in Groups : /\ WaitsOnce(P, g)
                      /\ \A bank \in GroupBanks(g) : bank \in marks <=> RefreshWaits(P, g)

\* A set of which all elements are equal has one at most.
LEMMA AtMostOne ==
    ASSUME NEW S, \A x, y \in S : x = y
    PROVE  Cardinality(S) <= 1
<1>1. CASE S = {}
  BY <1>1, FS_EmptySet
<1>2. CASE S # {}
  <2>1. PICK x \in S : S = {x}
    BY <1>2
  <2> QED
    BY <2>1, FS_Singleton
<1> QED
  BY <1>1, <1>2

\* The places of the waiting refreshes.
LEMMA WaitingPlaces ==
    ASSUME NEW g
    PROVE  LET P == PendingLists(commandQueues, issued)
           IN  \A x : x \in RefreshesWaiting(g) <=>
                   \E q \in Queues : \E k \in DOMAIN P[q] : x = <<q, k>> /\ RefreshOf(P[q][k], g)
<1> DEFINE P == PendingLists(commandQueues, issued)
<1>1. \A q \in Queues : P[q] = Pending(q)
  BY DEF PendingLists, Pending
<1> HIDE DEF P
<1>2. ASSUME NEW x \in RefreshesWaiting(g)
      PROVE  \E q \in Queues : \E k \in DOMAIN P[q] : x = <<q, k>> /\ RefreshOf(P[q][k], g)
  <2>1. PICK q \in Queues : x \in {q} \X DOMAIN Pending(q)
    BY DEF RefreshesWaiting
  <2>2. PICK k \in DOMAIN Pending(q) : x = <<q, k>>
    BY <2>1
  <2>3. RefreshOf(Pending(q)[k], g)
    BY <2>2 DEF RefreshesWaiting, RefreshOf
  <2> QED
    BY <1>1, <2>2, <2>3
<1>3. ASSUME NEW q \in Queues, NEW k \in DOMAIN P[q], RefreshOf(P[q][k], g)
      PROVE  <<q, k>> \in RefreshesWaiting(g)
  <2>1. <<q, k>> \in {q} \X DOMAIN Pending(q)
    BY <1>1
  <2>2. <<q, k>> \in UNION {{p} \X DOMAIN Pending(p) : p \in Queues}
    BY <2>1, Zenon
  <2>3. /\ Pending(<<q, k>>[1])[<<q, k>>[2]].type = "REFRESH"
        /\ GroupOf(Pending(<<q, k>>[1])[<<q, k>>[2]].bank) = g
    BY <1>1, <1>3 DEF RefreshOf
  <2> QED
    BY <2>2, <2>3 DEF RefreshesWaiting
<1> QED
  BY <1>2, <1>3 DEF P

\* The marks, of the lists of pending commands.
LEMMA MarkParts ==
    LET P == PendingLists(commandQueues, issued)
    IN  /\ MarksAnswered <=> Answered(P, refreshQueued)
        /\ Marked(P, refreshQueued) => RefreshMarked
        /\ RefreshesInTime <=> \A g \in RefreshDue : ~RefreshWaits(P, g)
<1> DEFINE P == PendingLists(commandQueues, issued)
<1>1. \A g, x : x \in RefreshesWaiting(g) <=>
          \E q \in Queues : \E k \in DOMAIN P[q] : x = <<q, k>> /\ RefreshOf(P[q][k], g)
  BY WaitingPlaces
<1> HIDE DEF P
<1>2. \A g : RefreshesWaiting(g) # {} <=> RefreshWaits(P, g)
  <2> SUFFICES ASSUME NEW g PROVE RefreshesWaiting(g) # {} <=> RefreshWaits(P, g)
    OBVIOUS
  <2>1. ASSUME RefreshesWaiting(g) # {} PROVE RefreshWaits(P, g)
    <3>1. PICK x : x \in RefreshesWaiting(g)
      BY <2>1
    <3> QED
      BY <1>1, <3>1 DEF RefreshWaits
  <2>2. ASSUME RefreshWaits(P, g) PROVE RefreshesWaiting(g) # {}
    <3>1. PICK q \in Queues : \E k \in DOMAIN P[q] : RefreshOf(P[q][k], g)
      BY <2>2 DEF RefreshWaits
    <3>2. PICK k \in DOMAIN P[q] : RefreshOf(P[q][k], g)
      BY <3>1
    <3>3. <<q, k>> \in RefreshesWaiting(g)
      BY <1>1, <3>2
    <3> QED
      BY <3>3
  <2> QED
    BY <2>1, <2>2
<1>3. MarksAnswered <=> Answered(P, refreshQueued)
  BY <1>2 DEF MarksAnswered, Answered
<1>4. RefreshesInTime <=> \A g \in RefreshDue : ~RefreshWaits(P, g)
  BY <1>2 DEF RefreshesInTime
<1>5. ASSUME Marked(P, refreshQueued) PROVE RefreshMarked
  <2>1. ASSUME NEW g \in Groups PROVE Cardinality(RefreshesWaiting(g)) <= 1
    <3>1. ASSUME NEW x \in RefreshesWaiting(g), NEW y \in RefreshesWaiting(g) PROVE x = y
      <4>1. PICK q \in Queues : \E k \in DOMAIN P[q] : x = <<q, k>> /\ RefreshOf(P[q][k], g)
        BY <1>1, <3>1
      <4>2. PICK p \in Queues : \E k \in DOMAIN P[p] : y = <<p, k>> /\ RefreshOf(P[p][k], g)
        BY <1>1, <3>1
      <4>3. PICK k \in DOMAIN P[q] : x = <<q, k>> /\ RefreshOf(P[q][k], g)
        BY <4>1
      <4>4. PICK l \in DOMAIN P[p] : y = <<p, l>> /\ RefreshOf(P[p][l], g)
        BY <4>2
      <4>5. p = q /\ l = k
        BY <1>5, <4>3, <4>4 DEF Marked, WaitsOnce
      <4> QED
        BY <4>3, <4>4, <4>5
    <3> QED
      BY <3>1, AtMostOne
  <2> QED
    BY <1>2, <1>5, <2>1 DEF RefreshMarked, Marked
<1> QED
  BY <1>3, <1>4, <1>5 DEF P

\* A group's banks are no other group's, its first bank is one of them, and a command's
\* bank is in a group.
LEMMA GroupsApart ==
    /\ \A g, h : \A bank \in GroupBanks(g) : bank \in GroupBanks(h) => g = h
    /\ \A g \in Groups : GroupOf(GroupHead(g)) = g
<1>1. \A g, h : \A bank \in GroupBanks(g) : bank \in GroupBanks(h) => g = h
  BY DEF GroupBanks
<1>2. ASSUME NEW g \in Groups PROVE GroupOf(GroupHead(g)) = g
  <2>1. g \in Nat /\ BanksPerRefresh \in Nat \ {0}
    BY GroupFacts, RefreshAssumption
  <2>2. (g * BanksPerRefresh) \div BanksPerRefresh = g
    BY <2>1
  <2> QED
    BY <2>2 DEF GroupOf, GroupHead
<1> QED
  BY <1>1, <1>2

\* From the lists P and the marks to the lists N and other marks.
KeepsMarks(P, marks, N, after) ==
    /\ Answered(P, marks) => Answered(N, after)
    /\ Marked(P, marks) => Marked(N, after)

\* The same refreshes, in places that correspond, wait in two families of lists.
SameRefreshes(P, N, g) ==
    /\ RefreshWaits(N, g) <=> RefreshWaits(P, g)
    /\ WaitsOnce(P, g) => WaitsOnce(N, g)

LEMMA SameMarks ==
    ASSUME NEW P, NEW N, NEW marks, \A g \in Groups : SameRefreshes(P, N, g)
    PROVE  KeepsMarks(P, marks, N, marks)
  BY DEF KeepsMarks, Answered, Marked, SameRefreshes

\* The head of queue q is issued: a REFRESH takes the marks of its group away.
LEMMA IssueMarks ==
    ASSUME NEW P \in CommandLists, NEW q \in Queues, P[q] # <<>>,
           NEW N, N[q] = Tail(P[q]), \A p \in Queues \ {q} : N[p] = P[p],
           NEW c, c = P[q][1], NEW marks
    PROVE  KeepsMarks(P, marks, N, marks \ ResetRefreshQueued(c))
<1>1. /\ 1 \in DOMAIN P[q]
      /\ \A p \in Queues : \A k \in DOMAIN N[p] :
             /\ PlaceBefore(q, p, k) \in DOMAIN P[p]
             /\ N[p][k] = P[p][PlaceBefore(q, p, k)]
             /\ ~(p = q /\ PlaceBefore(q, p, k) = 1)
      /\ \A p \in Queues : \A k, l \in DOMAIN N[p] :
             PlaceBefore(q, p, k) = PlaceBefore(q, p, l) => k = l
      /\ \A p \in Queues : \A k \in DOMAIN P[p] : ~(p = q /\ k = 1) =>
             \E l \in DOMAIN N[p] : N[p][l] = P[p][k]
  BY IssuePlaces
<1>2. ASSUME NEW g PROVE WaitsOnce(P, g) => WaitsOnce(N, g)
  <2> SUFFICES ASSUME WaitsOnce(P, g), NEW o \in Queues, NEW p \in Queues,
                      NEW k \in DOMAIN N[o], NEW l \in DOMAIN N[p],
                      RefreshOf(N[o][k], g), RefreshOf(N[p][l], g)
               PROVE  p = o /\ l = k
    BY DEF WaitsOnce
  <2>1. p = o /\ PlaceBefore(q, p, l) = PlaceBefore(q, o, k)
    BY <1>1 DEF WaitsOnce
  <2> QED
    BY <1>1, <2>1
<1>3. ASSUME NEW g PROVE RefreshWaits(N, g) => RefreshWaits(P, g)
  BY <1>1 DEF RefreshWaits
<1>4. ASSUME NEW g, ~RefreshOf(c, g) PROVE RefreshWaits(P, g) => RefreshWaits(N, g)
  <2> SUFFICES ASSUME NEW p \in Queues, NEW k \in DOMAIN P[p], RefreshOf(P[p][k], g)
               PROVE  RefreshWaits(N, g)
    BY DEF RefreshWaits
  <2>1. ~(p = q /\ k = 1)
    BY <1>4
  <2> QED
    BY <1>1, <2>1 DEF RefreshWaits
<1>5. ASSUME NEW g, RefreshOf(c, g), WaitsOnce(P, g) PROVE ~RefreshWaits(N, g)
  BY <1>1, <1>5 DEF RefreshWaits, WaitsOnce
<1>6. CASE c.type # "REFRESH"
  <2>1. marks \ ResetRefreshQueued(c) = marks
    BY <1>6 DEF ResetRefreshQueued
  <2>2. \A g \in Groups : SameRefreshes(P, N, g)
    BY <1>2, <1>3, <1>4, <1>6 DEF SameRefreshes, RefreshOf
  <2> QED
    BY <2>1, <2>2, SameMarks
<1>7. CASE c.type = "REFRESH"
  <2> DEFINE h == GroupOf(c.bank)
             after == marks \ GroupBanks(h)
  <2>1. marks \ ResetRefreshQueued(c) = after
    BY <1>7 DEF ResetRefreshQueued, Occupied
  <2>2. RefreshOf(c, h) /\ \A g : g # h => ~RefreshOf(c, g)
    BY <1>7 DEF RefreshOf
  <2>3. \A g : \A bank \in GroupBanks(g) : bank \in after <=> bank \in marks /\ g # h
    BY GroupsApart
  <2> HIDE DEF h, after
  <2>4. Answered(P, marks) => Answered(N, after)
    BY <1>4, <2>2, <2>3 DEF Answered
  <2>5. Marked(P, marks) => Marked(N, after)
    <3> SUFFICES ASSUME Marked(P, marks), NEW g \in Groups
                 PROVE  /\ WaitsOnce(N, g)
                        /\ \A bank \in GroupBanks(g) : bank \in after <=> RefreshWaits(N, g)
      BY DEF Marked
    <3>1. WaitsOnce(P, g) /\ \A bank \in GroupBanks(g) : bank \in marks <=> RefreshWaits(P, g)
      BY DEF Marked
    <3>2. CASE g = h
      BY <1>2, <1>5, <2>2, <2>3, <3>1, <3>2
    <3>3. CASE g # h
      BY <1>2, <1>3, <1>4, <2>2, <2>3, <3>1, <3>3
    <3> QED
      BY <3>2, <3>3
  <2> QED
    BY <2>1, <2>4, <2>5 DEF KeepsMarks
<1> QED
  BY <1>6, <1>7

\* The lists N are the lists P, with the lists x behind them.
Behind(P, x, N) == \A q \in Queues : N[q] = P[q] \o x[q]

LEMMA GrownRefreshes ==
    ASSUME NEW P \in CommandLists, NEW x \in CommandLists, NEW N, Behind(P, x, N), NEW g
    PROVE  /\ RefreshWaits(N, g) <=> RefreshWaits(P, g) \/ RefreshWaits(x, g)
           /\ ~RefreshWaits(x, g) /\ WaitsOnce(P, g) => WaitsOnce(N, g)
           /\ ~RefreshWaits(P, g) /\ WaitsOnce(x, g) => WaitsOnce(N, g)
<1>1. ASSUME NEW q \in Queues
      PROVE  /\ Len(P[q]) \in Nat
             /\ DOMAIN P[q] \subseteq DOMAIN N[q] /\ \A k \in DOMAIN P[q] : N[q][k] = P[q][k]
             /\ \A k \in DOMAIN x[q] : k + Len(P[q]) \in DOMAIN N[q] /\ N[q][k + Len(P[q])] = x[q][k]
             /\ \A k \in DOMAIN N[q] : k \in DOMAIN P[q] \/
                    (k \in Int /\ k - Len(P[q]) \in DOMAIN x[q] /\ N[q][k] = x[q][k - Len(P[q])])
  <2> DEFINE a == P[q]
             b == x[q]
  <2>1. a \in Seq(Commands) /\ b \in Seq(Commands) /\ N[q] = a \o b
    BY DEF CommandLists, Behind
  <2> HIDE DEF a, b
  <2>2. /\ Len(a) \in Nat /\ DOMAIN a = 1 .. Len(a) /\ Len(b) \in Nat /\ DOMAIN b = 1 .. Len(b)
        /\ DOMAIN N[q] = 1 .. Len(a) + Len(b)
        /\ \A k \in 1 .. Len(a) : N[q][k] = a[k]
        /\ \A k \in Len(a) + 1 .. Len(a) + Len(b) : N[q][k] = b[k - Len(a)]
    BY <2>1
  <2>3. ASSUME NEW k \in DOMAIN b PROVE k + Len(a) \in DOMAIN N[q] /\ N[q][k + Len(a)] = b[k]
    <3>1. k + Len(a) \in Len(a) + 1 .. Len(a) + Len(b) /\ (k + Len(a)) - Len(a) = k
          /\ k + Len(a) \in 1 .. Len(a) + Len(b)
      BY <2>2
    <3> QED
      BY <2>2, <3>1
  <2>4. ASSUME NEW k \in DOMAIN N[q], k \notin DOMAIN a
        PROVE  k \in Int /\ k - Len(a) \in DOMAIN b /\ N[q][k] = b[k - Len(a)]
    <3>1. k \in Len(a) + 1 .. Len(a) + Len(b) /\ k - Len(a) \in DOMAIN b
      BY <2>2, <2>4
    <3> QED
      BY <2>2, <3>1
  <2>5. DOMAIN a \subseteq DOMAIN N[q] /\ \A k \in DOMAIN a : N[q][k] = a[k]
    BY <2>2
  <2> QED
    BY <2>2, <2>3, <2>4, <2>5 DEF a, b
<1>2. ASSUME NEW q \in Queues, NEW k \in DOMAIN N[q], RefreshOf(N[q][k], g)
      PROVE  /\ ~RefreshWaits(x, g) => k \in DOMAIN P[q] /\ RefreshOf(P[q][k], g)
             /\ ~RefreshWaits(P, g) => /\ k \in Int /\ k - Len(P[q]) \in DOMAIN x[q]
                                       /\ RefreshOf(x[q][k - Len(P[q])], g)
  BY <1>1, <1>2 DEF RefreshWaits
<1>3. RefreshWaits(N, g) <=> RefreshWaits(P, g) \/ RefreshWaits(x, g)
  <2>1. RefreshWaits(P, g) => RefreshWaits(N, g)
    BY <1>1 DEF RefreshWaits
  <2>2. RefreshWaits(x, g) => RefreshWaits(N, g)
    BY <1>1 DEF RefreshWaits
  <2>3. RefreshWaits(N, g) /\ ~RefreshWaits(x, g) => RefreshWaits(P, g)
    BY <1>2 DEF RefreshWaits
  <2> QED
    BY <2>1, <2>2, <2>3
<1>4. ASSUME ~RefreshWaits(x, g), WaitsOnce(P, g) PROVE WaitsOnce(N, g)
  BY <1>2, <1>4 DEF WaitsOnce
<1>5. ASSUME ~RefreshWaits(P, g), WaitsOnce(x, g) PROVE WaitsOnce(N, g)
  <2> SUFFICES ASSUME NEW q \in Queues, NEW p \in Queues, NEW k \in DOMAIN N[q], NEW l \in DOMAIN N[p],
                      RefreshOf(N[q][k], g), RefreshOf(N[p][l], g)
               PROVE  p = q /\ l = k
    BY DEF WaitsOnce
  <2>1. /\ k \in Int /\ k - Len(P[q]) \in DOMAIN x[q] /\ RefreshOf(x[q][k - Len(P[q])], g)
        /\ l \in Int /\ l - Len(P[p]) \in DOMAIN x[p] /\ RefreshOf(x[p][l - Len(P[p])], g)
    BY <1>2, <1>5
  <2>2. p = q /\ l - Len(P[p]) = k - Len(P[q])
    BY <1>5, <2>1 DEF WaitsOnce
  <2> QED
    BY <1>1, <2>1, <2>2
<1> QED
  BY <1>3, <1>4, <1>5

\* What HandleRefresh appends to queue q: a precharge for each bank it closes, and the
\* REFRESH in the queue of the first bank.
LEMMA RefreshTailPlaces ==
    ASSUME NEW q \in Queues, NEW g \in Groups
    PROVE  LET x == RefreshTail(q, g)
               n == Cardinality(ClosedIn(q, g))
               r == Command("REFRESH", GroupHead(g), 0)
           IN  /\ n \in Nat /\ x \in Seq(Commands)
               /\ \A k \in 1 .. n : x[k].type = "PRECHARGE_ALL"
               /\ q = QueueOf(GroupHead(g), 0) => Len(x) = n + 1 /\ x[n + 1] = r
               /\ q # QueueOf(GroupHead(g), 0) => Len(x) = n
<1> DEFINE S == ClosedIn(q, g)
           n == Cardinality(S)
           a == IF UsePrecharge THEN Precharges(q, g) ELSE <<>>
           r == Command("REFRESH", GroupHead(g), 0)
           x == RefreshTail(q, g)
<1>1. S \in SUBSET Banks
  BY DEF ClosedIn, Closed, GroupBanks
<1>2. n \in Nat
  <2> HIDE DEF S
  <2> QED
    BY <1>1, RankFacts
<1>3. a \in Seq(Commands) /\ Len(a) = n /\ \A k \in 1 .. n : a[k].type = "PRECHARGE_ALL"
  <2>1. a \in Seq(Commands) /\ PrechargesEach(a, S)
    BY PrechargesListed
  <2>2. Len(a) = n
    <3>1. CASE ~UsePrecharge
      <4>1. a = <<>> /\ S = {}
        BY <3>1 DEF ClosedIn, Closed
      <4> HIDE DEF S, a
      <4> QED
        BY <4>1, FS_EmptySet
    <3>2. CASE UsePrecharge
      <4>1. S = {bank \in GroupBanks(g) \cap activateQueued : QueueOf(bank, 0) = q}
        BY <3>2 DEF ClosedIn, Closed
      <4>2. a = [i \in 1 .. n |-> Command("PRECHARGE_ALL", BankAt(S, i), 0)]
        BY <3>2, <4>1 DEF Precharges
      <4> HIDE DEF S, a, n
      <4> QED
        BY <1>2, <4>2, <2>1
    <3> QED
      BY <3>1, <3>2
  <2> HIDE DEF a, S, n
  <2>3. DOMAIN a = 1 .. n
    BY <2>1, <2>2, LenProperties
  <2> QED
    BY <2>1, <2>2, <2>3 DEF PrechargesEach
<1>4. r \in Commands
  BY CommandFacts, GroupFacts, QueueFacts DEF Types
<1>5. /\ q = QueueOf(GroupHead(g), 0) => x = a \o <<r>>
      /\ q # QueueOf(GroupHead(g), 0) => x = a \o <<>>
  BY DEF RefreshTail
<1> HIDE DEF S, n, a, r, x
<1>6. CASE q = QueueOf(GroupHead(g), 0)
  <2>1. x = a \o <<r>>
    BY <1>5, <1>6
  <2>2. x \in Seq(Commands) /\ Len(x) = n + 1 /\ x[n + 1] = r /\ \A k \in 1 .. n : x[k] = a[k]
    BY <1>2, <1>3, <1>4, <2>1
  <2> QED
    BY <1>2, <1>3, <1>6, <2>2 DEF S, n, r, x
<1>7. CASE q # QueueOf(GroupHead(g), 0)
  <2>1. x = a
    BY <1>3, <1>5, <1>7
  <2> QED
    BY <1>2, <1>3, <1>7, <2>1 DEF S, n, r, x
<1> QED
  BY <1>6, <1>7

\* So one REFRESH, of this group.
LEMMA RefreshTailRefreshes ==
    ASSUME NEW g \in Groups, NEW x, x = [q \in Queues |-> RefreshTail(q, g)]
    PROVE  /\ x \in CommandLists
           /\ \A h : RefreshWaits(x, h) <=> h = g
           /\ \A h : WaitsOnce(x, h)
<1> DEFINE n(q) == Cardinality(ClosedIn(q, g))
           r == Command("REFRESH", GroupHead(g), 0)
           o == QueueOf(GroupHead(g), 0)
<1>1. ASSUME NEW q \in Queues
      PROVE  /\ n(q) \in Nat /\ x[q] \in Seq(Commands)
             /\ \A k \in 1 .. n(q) : x[q][k].type = "PRECHARGE_ALL"
             /\ q = o => Len(x[q]) = n(q) + 1 /\ x[q][n(q) + 1] = r
             /\ q # o => Len(x[q]) = n(q)
  BY RefreshTailPlaces
<1>2. o \in Queues
  BY GroupFacts, QueueFacts
<1>3. RefreshOf(r, g) /\ \A h : RefreshOf(r, h) => h = g
  BY GroupsApart DEF RefreshOf, Command
<1>4. x \in CommandLists
  BY <1>1 DEF CommandLists
<1> HIDE DEF n, r, o
<1>5. ASSUME NEW q \in Queues, NEW k \in DOMAIN x[q], NEW h, RefreshOf(x[q][k], h)
      PROVE  q = o /\ k = n(o) + 1 /\ x[q][k] = r
  <2>1. DOMAIN x[q] = 1 .. Len(x[q]) /\ Len(x[q]) \in Nat
    BY <1>1, LenProperties
  <2>2. k \notin 1 .. n(q)
    BY <1>1, <1>5 DEF RefreshOf
  <2> QED
    BY <1>1, <1>5, <2>1, <2>2
<1>6. n(o) + 1 \in DOMAIN x[o] /\ x[o][n(o) + 1] = r
  <2>1. DOMAIN x[o] = 1 .. Len(x[o]) /\ Len(x[o]) = n(o) + 1 /\ n(o) \in Nat
    BY <1>1, <1>2, LenProperties
  <2> QED
    BY <1>1, <1>2, <2>1
<1>7. \A h : RefreshWaits(x, h) <=> h = g
  <2>1. RefreshWaits(x, g)
    BY <1>2, <1>3, <1>6 DEF RefreshWaits
  <2>2. \A h : RefreshWaits(x, h) => h = g
    BY <1>3, <1>5 DEF RefreshWaits
  <2> QED
    BY <2>1, <2>2
<1>8. \A h : WaitsOnce(x, h)
  BY <1>5 DEF WaitsOnce
<1> QED
  BY <1>4, <1>7, <1>8

\* A transaction's commands are three at most, and no refreshes.
LEMMA CommandsForPlain ==
    ASSUME NEW t \in Transactions, NEW rest
    PROVE  /\ CommandsFor(t, rest) \in Seq(Commands)
           /\ Len(CommandsFor(t, rest)) \in 1 .. 3
           /\ \A k \in DOMAIN CommandsFor(t, rest) : CommandsFor(t, rest)[k].type # "REFRESH"
<1> DEFINE a == IF Active(t) /\ ~RowHit(t) /\ effectiveRow[t.bank][t.sa] # NoRow /\ UsePrecharge
                THEN <<Command("PRECHARGE", t.bank, t.sa)>> ELSE <<>>
           b == IF RowHit(t) THEN <<>> ELSE <<RequestCommand("ACTIVATE", t)>>
           c == RequestCommand(IF Closes(t, rest) THEN "COLUMN_PRECHARGE" ELSE "COLUMN", t)
           x == CommandsFor(t, rest)
           Plain == {e \in Commands : e.type # "REFRESH"}
<1>1. /\ Command("PRECHARGE", t.bank, t.sa) \in Plain
      /\ RequestCommand("ACTIVATE", t) \in Plain
      /\ c \in Plain
  <2>1. \A type \in {"ACTIVATE", "COLUMN", "COLUMN_PRECHARGE"} :
            RequestCommand(type, t) \in Commands /\ RequestCommand(type, t).type = type
    BY MadeCommands
  <2>2. Command("PRECHARGE", t.bank, t.sa) \in Commands
        /\ Command("PRECHARGE", t.bank, t.sa).type = "PRECHARGE"
    BY MadeCommands
  <2> QED
    BY <2>1, <2>2
<1>2. x = (a \o b) \o <<c>>
  BY DEF CommandsFor
<1>3. Plain \subseteq Commands /\ \A e \in Plain : e.type # "REFRESH"
  OBVIOUS
<1> HIDE DEF Plain, c, x
<1>4. /\ a \in Seq(Plain) /\ Len(a) \in Nat /\ Len(a) <= 1
      /\ b \in Seq(Plain) /\ Len(b) \in Nat /\ Len(b) <= 1
  BY <1>1
<1> HIDE DEF a, b
<1> DEFINE d == a \o b
<1>5. d \in Seq(Plain) /\ Len(d) = Len(a) + Len(b)
  BY <1>4, ConcatProperties
<1> HIDE DEF d
<1>6. x = Append(d, c)
  BY <1>1, <1>2, <1>5, AppendIsConcat DEF d
<1>7. x \in Seq(Plain) /\ Len(x) \in 1 .. 3
  <2>1. x \in Seq(Plain) /\ Len(x) = Len(d) + 1
    BY <1>1, <1>5, <1>6, AppendProperties
  <2>2. (Len(a) + Len(b)) + 1 \in 1 .. 3
    BY <1>4
  <2> QED
    BY <1>5, <2>1, <2>2
<1>8. x \in Seq(Commands)
  BY <1>3, <1>7, SeqMonotone
<1>9. \A k \in DOMAIN x : x[k] \in Plain
  BY <1>7, LenProperties, ElementOfSeq
<1> QED
  BY <1>3, <1>7, <1>8, <1>9 DEF x

\* CycleCommandQueues, with the lists cq.
LEMMA CycleCommandQueuesMarks ==
    ASSUME TypeOK, IssuedHeads, cleanup # "due", NEW cq \in CommandLists,
           \A q \in issued : cq[q] # <<>>, CycleCommandQueues(cq)
    PROVE  KeepsMarks(PendingLists(cq, issued), refreshQueued,
                      PendingLists(commandQueues', issued'), refreshQueued')
<1>1. commandQueues' = cq
  BY DEF CycleCommandQueues
<1>2. CASE IssuableQueues(cq) = {}
  <2>1. UNCHANGED <<issued, refreshQueued>>
    BY <1>2 DEF CycleCommandQueues
  <2> QED
    BY <1>1, <2>1 DEF KeepsMarks
<1>3. CASE IssuableQueues(cq) # {}
  <2> DEFINE q == ServedQueue(cq)
             P == PendingLists(cq, issued)
             N == PendingLists(cq, issued')
             c == P[q][1]
  <2>1. q \in Queues /\ cq[q] # <<>> /\ lastIssueCycle # "now"
    BY <1>3, ServedFacts
  <2>2. issued = {}
    BY <2>1 DEF IssuedHeads
  <2>3. issued' = {q} /\ refreshQueued' = refreshQueued \ ResetRefreshQueued(Head(cq[q]))
    BY <1>3, <2>2 DEF CycleCommandQueues
  <2> HIDE DEF q
  <2>4. P \in CommandLists
    BY PendingListsFacts
  <2>5. /\ P[q] = cq[q] /\ P[q] # <<>>
        /\ N[q] = Tail(P[q]) /\ \A p \in Queues \ {q} : N[p] = P[p]
    BY <2>1, <2>2, <2>3 DEF PendingLists
  <2>6. Head(cq[q]) = c
    <3>1. cq[q] \in Seq(Commands)
      BY <2>1 DEF CommandLists
    <3> QED
      BY <2>1, <2>5, <3>1
  <2>7. c = P[q][1]
    OBVIOUS
  <2> HIDE DEF P, N, c
  <2>8. KeepsMarks(P, refreshQueued, N, refreshQueued \ ResetRefreshQueued(c))
    BY <2>1, <2>4, <2>5, <2>7, IssueMarks, SMTT(30)
  <2> QED
    BY <1>1, <2>3, <2>6, <2>8 DEF P, N
<1> QED
  BY <1>2, <1>3

\* The queues that a cycle serves: those it found, or one with the commands of a transaction
\* behind.
LEMMA CycleQueues ==
    ASSUME IndInv, OrderInv, Cycle
    PROVE  \E cq \in CommandLists : \E x \in CommandLists :
               /\ \A q \in issued : cq[q] # <<>>
               /\ CycleCommandQueues(cq)
               /\ Behind(PendingLists(commandQueues, issued), x, PendingLists(cq, issued))
               /\ \A q \in Queues : /\ x[q] # <<>> => Len(x[q]) <= 3 /\ commandQueues[q] = <<>>
                                    /\ \A k \in DOMAIN x[q] : x[q][k].type # "REFRESH"
               /\ \/ /\ \A q \in Queues : x[q] = <<>>
                     /\ UNCHANGED <<effectiveRow, activateQueued, wake>>
                  \/ \E t \in Transactions : \E rest :
                        Schedulable(t) /\ RecordRows(t, rest)
<1> DEFINE tq == transactionQueue
           i == NextTransaction
           t == tq[i]
           rest == Without(tq, i)
           o == RequestQueue(t)
           cq == IF i = 0 THEN commandQueues
                 ELSE [commandQueues EXCEPT ![o] = @ \o CommandsFor(t, rest)]
           P == PendingLists(commandQueues, issued)
           M == PendingLists(cq, issued)
<1>1. TypeOK /\ IssuedHeads /\ CycleCommandQueues(cq)
  BY DEF IndInv, Cycle
<1>2. \/ i = 0 /\ UNCHANGED <<effectiveRow, activateQueued, wake>>
      \/ i # 0 /\ RecordRows(t, rest)
  BY DEF Cycle, rowVars
<1>3. /\ commandQueues \in CommandLists /\ \A p \in issued : commandQueues[p] # <<>>
      /\ P \in CommandLists
  BY OrderTypes
<1>4. CASE i = 0
  <2> DEFINE x == [q \in Queues |-> <<>>]
  <2>1. cq = commandQueues /\ UNCHANGED <<effectiveRow, activateQueued, wake>>
    BY <1>2, <1>4
  <2> HIDE DEF cq, i
  <2>2. x \in CommandLists /\ \A q \in Queues : x[q] = <<>>
    <3>1. <<>> \in Seq(Commands)
      OBVIOUS
    <3> QED
      BY <3>1 DEF CommandLists
  <2>3. Behind(P, x, M)
    <3>1. \A q \in Queues : P[q] \in Seq(Commands)
      BY <1>3 DEF CommandLists
    <3> HIDE DEF P, M
    <3>2. M = P
      BY <2>1 DEF P, M
    <3>3. \A q \in Queues : P[q] \o <<>> = P[q]
      BY <3>1
    <3> QED
      BY <2>2, <3>2, <3>3 DEF Behind
  <2> HIDE DEF x
  <2>4. \A q \in Queues : \A k \in DOMAIN x[q] : x[q][k].type # "REFRESH"
    BY <2>2
  <2> QED
    BY <1>1, <1>3, <2>1, <2>2, <2>3, <2>4
<1>5. CASE i # 0
  <2>1. i \in DOMAIN tq /\ Schedulable(t)
    BY <1>1, <1>5, NextIsFirst, OrderParts
  <2>2. t \in Transactions /\ o \in Queues
    BY <1>1, <2>1, RequestQueueFacts
  <2>3. commandQueues[o] = <<>>
    BY <2>1 DEF Schedulable
  <2> DEFINE y == CommandsFor(t, rest)
             x == [q \in Queues |-> IF q = o THEN y ELSE <<>>]
  <2>4. /\ y \in Seq(Commands) /\ Len(y) \in 1 .. 3 /\ \A k \in DOMAIN y : y[k].type # "REFRESH"
    BY <2>2, CommandsForPlain
  <2>5. cq = Appended(commandQueues, o, y)
    BY <1>5 DEF Appended
  <2>6. RecordRows(t, rest)
    BY <1>2, <1>5
  <2> HIDE DEF cq, i, t, o, y
  <2>7. /\ M = Appended(P, o, y) /\ cq \in CommandLists
        /\ o \in issued => cq[o] # <<>>
        /\ \A p \in Queues \ {o} : cq[p] = commandQueues[p]
    BY <1>3, <2>2, <2>4, <2>5, AppendedPending
  <2>8. \A p \in issued : cq[p] # <<>>
    BY <1>1, <1>3, <2>7 DEF TypeOK
  <2>9. x \in CommandLists /\ \A q \in Queues : x[q] = IF q = o THEN y ELSE <<>>
    <3>1. <<>> \in Seq(Commands)
      OBVIOUS
    <3> QED
      BY <2>4, <3>1 DEF CommandLists
  <2> HIDE DEF x, P, M
  <2>10. Behind(P, x, M)
    <3>1. M[o] = P[o] \o y /\ \A p \in Queues \ {o} : M[p] = P[p]
      BY <1>3, <2>2, <2>4, <2>7, AppendedFacts
    <3>2. \A p \in Queues : P[p] \in Seq(Commands)
      BY <1>3 DEF CommandLists
    <3>3. \A p \in Queues : P[p] \o <<>> = P[p]
      BY <3>2
    <3> QED
      BY <2>9, <3>1, <3>3 DEF Behind
  <2>11. \A q \in Queues : /\ x[q] # <<>> => Len(x[q]) <= 3 /\ commandQueues[q] = <<>>
                           /\ \A k \in DOMAIN x[q] : x[q][k].type # "REFRESH"
    <3> SUFFICES ASSUME NEW q \in Queues
                 PROVE  /\ x[q] # <<>> => Len(x[q]) <= 3 /\ commandQueues[q] = <<>>
                        /\ \A k \in DOMAIN x[q] : x[q][k].type # "REFRESH"
      OBVIOUS
    <3>1. CASE q = o
      <4>1. x[q] = y /\ commandQueues[q] = <<>>
        BY <2>3, <2>9, <3>1
      <4>2. Len(y) <= 3
        BY <2>4
      <4> QED
        BY <2>4, <4>1, <4>2
    <3>2. CASE q # o
      BY <2>9, <3>2
    <3> QED
      BY <3>1, <3>2
  <2> QED
    BY <1>1, <2>1, <2>2, <2>6, <2>7, <2>8, <2>9, <2>10, <2>11 DEF P, M
<1> QED
  BY <1>4, <1>5

AnsweredNow == Answered(PendingLists(commandQueues, issued), refreshQueued)
MarkedNow == Marked(PendingLists(commandQueues, issued), refreshQueued)

\* What a step keeps: the marks are answered; and they are right, if refreshes are in time.
KeepsMarksNow ==
    /\ AnsweredNow => AnsweredNow'
    /\ MarkedNow /\ RefreshesInTime => MarkedNow'

LEMMA FromKeepsMarks ==
    ASSUME KeepsMarks(PendingLists(commandQueues, issued), refreshQueued,
                      PendingLists(commandQueues', issued'), refreshQueued')
    PROVE  KeepsMarksNow
  BY DEF KeepsMarks, KeepsMarksNow, AnsweredNow, MarkedNow

\* A step that changes neither the marks nor what is to be issued.
LEMMA SameMarksNow ==
    ASSUME PendingLists(commandQueues', issued') = PendingLists(commandQueues, issued),
           UNCHANGED refreshQueued
    PROVE  KeepsMarksNow
  BY DEF KeepsMarksNow, AnsweredNow, MarkedNow

\* A transaction's commands leave the marks alone; a REFRESH that is issued takes its own.
LEMMA CycleMarks ==
    ASSUME IndInv, OrderInv, Cycle
    PROVE  KeepsMarksNow
<1> DEFINE P == PendingLists(commandQueues, issued)
           N == PendingLists(commandQueues', issued')
<1>1. PICK cq \in CommandLists : \E x \in CommandLists :
          /\ \A q \in issued : cq[q] # <<>>
          /\ CycleCommandQueues(cq)
          /\ Behind(P, x, PendingLists(cq, issued))
          /\ \A q \in Queues : \A k \in DOMAIN x[q] : x[q][k].type # "REFRESH"
  BY CycleQueues
<1> DEFINE M == PendingLists(cq, issued)
<1>2. PICK x \in CommandLists :
          Behind(P, x, M) /\ \A q \in Queues : \A k \in DOMAIN x[q] : x[q][k].type # "REFRESH"
  BY <1>1
<1>3. TypeOK /\ IssuedHeads /\ cleanup # "due"
  BY DEF IndInv, Cycle
<1>4. P \in CommandLists
  BY OrderTypes
<1>5. KeepsMarks(M, refreshQueued, N, refreshQueued')
  BY <1>1, <1>3, CycleCommandQueuesMarks
<1> HIDE DEF P, M, N
<1>6. \A g : ~RefreshWaits(x, g)
  BY <1>2 DEF RefreshWaits, RefreshOf
<1>7. \A g \in Groups : SameRefreshes(P, M, g)
  BY <1>2, <1>4, <1>6, GrownRefreshes DEF SameRefreshes
<1>8. KeepsMarks(P, refreshQueued, M, refreshQueued)
  BY <1>7, SameMarks
<1>9. KeepsMarks(P, refreshQueued, N, refreshQueued')
  BY <1>5, <1>8 DEF KeepsMarks
<1> QED
  BY <1>9, FromKeepsMarks DEF P, N

\* HandleRefresh marks the group whose REFRESH it queues.
LEMMA RefreshMarks ==
    ASSUME IndInv, NEW g \in Groups, RefreshCallback(g)
    PROVE  KeepsMarksNow
<1> DEFINE P == PendingLists(commandQueues, issued)
           N == PendingLists(commandQueues', issued')
           x == [q \in Queues |-> RefreshTail(q, g)]
<1>1. UNCHANGED issued /\ g \in RefreshDue
  BY DEF RefreshCallback
<1>2. CASE UNCHANGED <<commandQueues, refreshQueued>>
  BY <1>1, <1>2, SameMarksNow
<1>3. CASE commandQueues' = RefreshQueues(g) /\ refreshQueued' = refreshQueued \cup GroupBanks(g)
  <2>1. Behind(P, x, N)
    BY <1>1, <1>3, RefreshPending DEF Behind
  <2>2. /\ x \in CommandLists
        /\ \A h : RefreshWaits(x, h) <=> h = g
        /\ \A h : WaitsOnce(x, h)
    BY RefreshTailRefreshes
  <2>3. P \in CommandLists
    BY OrderTypes
  <2>4. RefreshesInTime => ~RefreshWaits(P, g)
    BY <1>1, MarkParts
  <2>5. \A h : \A bank \in GroupBanks(h) :
            bank \in refreshQueued' <=> bank \in refreshQueued \/ h = g
    BY <1>3, GroupsApart
  <2> HIDE DEF P, N, x
  <2>6. \A h : /\ RefreshWaits(N, h) <=> RefreshWaits(P, h) \/ h = g
               /\ h # g /\ WaitsOnce(P, h) => WaitsOnce(N, h)
               /\ ~RefreshWaits(P, h) => WaitsOnce(N, h)
    BY <2>1, <2>2, <2>3, GrownRefreshes
  <2>7. Answered(P, refreshQueued) => Answered(N, refreshQueued')
    BY <2>5, <2>6 DEF Answered
  <2>8. Marked(P, refreshQueued) /\ RefreshesInTime => Marked(N, refreshQueued')
    BY <2>4, <2>5, <2>6 DEF Marked
  <2> QED
    BY <2>7, <2>8 DEF KeepsMarksNow, AnsweredNow, MarkedNow, P, N
<1> QED
  BY <1>2, <1>3, RefreshServes

\* Every step keeps the marks.
LEMMA NextMarks ==
    ASSUME IndInv, OrderInv, [Next]_vars
    PROVE  KeepsMarksNow
<1>1. ASSUME UNCHANGED <<commandQueues, issued, refreshQueued>> PROVE KeepsMarksNow
  BY <1>1, SameMarksNow
<1>2. ASSUME NEW t \in Transactions, Enqueue(t) PROVE KeepsMarksNow
  BY <1>1, <1>2 DEF Enqueue, queueVars
<1>3. ASSUME NEW r \in Requests, RequestComplete(r) PROVE KeepsMarksNow
  BY <1>1, <1>3 DEF RequestComplete, queueVars
<1>4. CASE CleanupCallback
  <2>1. /\ commandQueues' = PendingLists(commandQueues, issued) /\ issued' = {}
        /\ UNCHANGED refreshQueued
    BY <1>4 DEF CleanupCallback, PendingLists
  <2>2. PendingLists(commandQueues', issued') = PendingLists(commandQueues, issued)
    BY <2>1 DEF PendingLists
  <2> QED
    BY <2>1, <2>2, SameMarksNow
<1>5. ASSUME NEW g \in Groups, RefreshCallback(g) PROVE KeepsMarksNow
  BY <1>5, RefreshMarks
<1>6. CASE Cycle
  BY <1>6, CycleMarks
<1>7. CASE CommandQueueCallback
  <2>1. /\ TypeOK /\ IssuedHeads /\ cleanup # "due" /\ CycleCommandQueues(commandQueues)
    BY <1>7 DEF IndInv, CommandQueueCallback
  <2> QED
    BY <2>1, OrderTypes, CycleCommandQueuesMarks, FromKeepsMarks
<1>8. CASE Tick
  BY <1>1, <1>8 DEF Tick
<1>9. CASE UNCHANGED vars
  BY <1>1, <1>9 DEF vars, queueVars
<1> QED
  BY <1>2, <1>3, <1>4, <1>5, <1>6, <1>7, <1>8, <1>9 DEF Next, EventStep

\* No REFRESH waits at first, and no bank is marked.
LEMMA InitMarks == Init => AnsweredNow /\ MarkedNow
<1> SUFFICES ASSUME Init PROVE AnsweredNow /\ MarkedNow
  OBVIOUS
<1> DEFINE P == PendingLists(commandQueues, issued)
<1>1. \A q \in Queues : P[q] = <<>> /\ DOMAIN P[q] = {}
  BY DEF Init, PendingLists
<1>2. refreshQueued = {}
  BY DEF Init
<1> HIDE DEF P
<1>3. \A g : ~RefreshWaits(P, g) /\ WaitsOnce(P, g)
  BY <1>1 DEF RefreshWaits, WaitsOnce
<1> QED
  BY <1>2, <1>3 DEF AnsweredNow, MarkedNow, Answered, Marked, P

\* A mark, which keeps the scheduler from its bank, always has a REFRESH coming that takes
\* it away, however late refreshes are.
THEOREM MarksAlwaysAnswered == Spec => []MarksAnswered
<1>1. Init => AnsweredNow
  BY InitMarks
<1>2. IndInv /\ OrderInv /\ AnsweredNow /\ [Next]_vars => AnsweredNow'
  BY NextMarks DEF KeepsMarksNow
<1>3. AnsweredNow => MarksAnswered
  BY MarkParts DEF AnsweredNow
<1> QED
  BY <1>1, <1>2, <1>3, ControllerConsistent, OrderConsistent, PTL DEF Spec

\* Where refreshes are in time, the marks are right: one REFRESH of a group at most is
\* queued, and its banks are marked exactly as long.
THEOREM MarkedWhenInTime == Spec /\ []RefreshesInTime => []RefreshMarked
<1>1. Init => MarkedNow
  BY InitMarks
<1>2. IndInv /\ OrderInv /\ RefreshesInTime /\ MarkedNow /\ [Next]_vars => MarkedNow'
  BY NextMarks DEF KeepsMarksNow
<1>3. MarkedNow => RefreshMarked
  BY MarkParts DEF MarkedNow
<1> QED
  BY <1>1, <1>2, <1>3, ControllerConsistent, OrderConsistent, PTL DEF Spec

-----------------------------------------------------------------------------
(* The deadline of a refresh. One group holds all banks (BanksPerRefresh is *)
(* BANKS by default), M is the longest that a command occupies its bank.    *)

\* The places of the commands in the lists P.
Places(P) == UNION {{q} \X DOMAIN P[q] : q \in Queues}

\* A queue holds the commands of one transaction, a precharge for each bank that is not
\* active, and the REFRESH, behind all others.
Inactive(active, q) == {bank \in Banks \ active : QueueOf(bank, 0) = q}
HoldsRefresh(list) == \E k \in DOMAIN list : list[k].type = "REFRESH"
Short(list, n) == Len(list) <= 3 + n + (IF HoldsRefresh(list) THEN 1 ELSE 0)
AllShort(P, active) == \A q \in Queues : Short(P[q], Cardinality(Inactive(active, q)))
RefreshLast(P) ==
    \A q \in Queues : \A k \in DOMAIN P[q] : P[q][k].type = "REFRESH" => k = Len(P[q])

\* While a REFRESH waits no row will be open.
RowsClosed(P, record) ==
    RefreshWaits(P, 0) /\ UsePrecharge => \A bank \in Banks : record[bank][0] = NoRow

\* The next command is issued in T cycles at the latest: the banks are free by then and
\* CommandQueueCallback has been woken; or it comes now, and nothing keeps it from issuing.
Ready(occupied, events, last, T) ==
    \/ (\A bank \in Banks : occupied[bank] + 1 <= T) /\ \E n \in events : n <= T
    \/ T = 0 /\ (\A bank \in Banks : occupied[bank] = 0) /\ 0 \in events /\ "now" \notin last

\* Each command takes M + 2 cycles at the most: `left' is enough for all of them.
Enough(M, P, left, occupied, events, last) ==
    \E T \in 0 .. M + 1 : /\ (M + 2) * Cardinality(Places(P)) + T <= left
                          /\ Ready(occupied, events, last, T)

\* One group has all the banks.
LEMMA OneGroup ==
    ASSUME BanksPerRefresh = BANKS
    PROVE  /\ Groups = {0} /\ GroupBanks(0) = Banks
           /\ \A bank \in Banks : GroupOf(bank) = 0
<1>1. BANKS \in Nat /\ BANKS > 0
  BY SizesAssumption
<1>2. BANKS \div BANKS = 1
  BY <1>1
<1>3. \A bank \in 0 .. BANKS - 1 : bank \div BANKS = 0
  BY <1>1
<1> QED
  BY <1>2, <1>3 DEF Groups, GroupBanks, GroupOf, Banks

\* The inactive banks of a queue are finitely many.
LEMMA InactiveFacts ==
    ASSUME NEW active, NEW q
    PROVE  /\ IsFiniteSet(Inactive(active, q)) /\ Cardinality(Inactive(active, q)) \in Nat
           /\ IsFiniteSet({bank \in Banks : QueueOf(bank, 0) = q})
           /\ Cardinality(Inactive(active, q)) <= Cardinality({bank \in Banks : QueueOf(bank, 0) = q})
<1> DEFINE A == {bank \in Banks : QueueOf(bank, 0) = q}
           I == Inactive(active, q)
<1>1. IsFiniteSet(Banks)
  <2>1. BANKS - 1 \in Int
    BY SizesAssumption
  <2> QED
    BY <2>1, FS_Interval DEF Banks
<1>2. A \in SUBSET Banks /\ I \in SUBSET A
  BY DEF Inactive
<1> HIDE DEF A, I
<1>3. IsFiniteSet(A)
  BY <1>1, <1>2, FS_Subset
<1>4. IsFiniteSet(I) /\ Cardinality(I) <= Cardinality(A)
  BY <1>2, <1>3, FS_Subset
<1> QED
  BY <1>3, <1>4, FS_CardinalityType DEF A, I

\* Short queues have few places.
LEMMA FewPlaces ==
    ASSUME NEW P \in CommandLists, NEW active, AllShort(P, active), NEW S \in Nat,
           \A q \in Queues : Cardinality({bank \in Banks : QueueOf(bank, 0) = q}) <= S
    PROVE  /\ IsFiniteSet(Places(P)) /\ Cardinality(Places(P)) \in Nat
           /\ Cardinality(Places(P)) <= Cardinality(Queues) * (4 + S)
<1> DEFINE B == 1 .. 4 + S
           n(q) == Cardinality(Inactive(active, q))
<1>1. ASSUME NEW q \in Queues PROVE DOMAIN P[q] \subseteq B
  <2>1. P[q] \in Seq(Commands) /\ Short(P[q], n(q))
    BY DEF CommandLists, AllShort
  <2>2. n(q) \in Nat /\ n(q) <= S
    <3>1. /\ Cardinality(Inactive(active, q)) \in Nat
          /\ Cardinality({bank \in Banks : QueueOf(bank, 0) = q}) \in Nat
          /\ Cardinality(Inactive(active, q)) <= Cardinality({bank \in Banks : QueueOf(bank, 0) = q})
      BY InactiveFacts, FS_CardinalityType
    <3>2. Cardinality({bank \in Banks : QueueOf(bank, 0) = q}) <= S
      OBVIOUS
    <3> HIDE DEF n
    <3> QED
      BY <3>1, <3>2 DEF n
  <2> HIDE DEF n
  <2>3. Len(P[q]) \in Nat /\ DOMAIN P[q] = 1 .. Len(P[q])
    BY <2>1, LenProperties
  <2>4. Len(P[q]) <= 4 + S
    BY <2>1, <2>2, <2>3 DEF Short
  <2> QED
    BY <2>3, <2>4
<1>2. Places(P) \in SUBSET (Queues \X B)
  <2> HIDE DEF B
  <2> QED
    BY <1>1 DEF Places
<1>3. IsFiniteSet(B) /\ Cardinality(B) = 4 + S
  BY FS_Interval
<1> HIDE DEF B
<1>4. IsFiniteSet(Queues \X B) /\ Cardinality(Queues \X B) = Cardinality(Queues) * (4 + S)
  BY <1>3, QueuesFinite, FS_Product
<1>5. IsFiniteSet(Places(P)) /\ Cardinality(Places(P)) <= Cardinality(Queues \X B)
  BY <1>2, <1>4, FS_Subset
<1> QED
  BY <1>4, <1>5, FS_CardinalityType

\* Issuing a command takes its place away.
LEMMA OnePlaceLess ==
    ASSUME NEW P \in CommandLists, NEW q \in Queues, P[q] # <<>>,
           NEW N, N[q] = Tail(P[q]), \A p \in Queues \ {q} : N[p] = P[p],
           IsFiniteSet(Places(P))
    PROVE  /\ Cardinality(Places(P)) \in Nat /\ Cardinality(Places(N)) \in Nat
           /\ Cardinality(Places(N)) + 1 <= Cardinality(Places(P))
<1> DEFINE A == Places(P)
           B == Places(N)
           C == A \ {<<q, 1>>}
           f == [z \in B |-> <<z[1], PlaceBefore(q, z[1], z[2])>>]
<1>1. /\ 1 \in DOMAIN P[q]
      /\ \A p \in Queues : \A k \in DOMAIN N[p] :
             /\ PlaceBefore(q, p, k) \in DOMAIN P[p]
             /\ ~(p = q /\ PlaceBefore(q, p, k) = 1)
      /\ \A p \in Queues : \A k, l \in DOMAIN N[p] :
             PlaceBefore(q, p, k) = PlaceBefore(q, p, l) => k = l
  BY IssuePlaces
<1>2. \A z \in B : z[1] \in Queues /\ z[2] \in DOMAIN N[z[1]] /\ z = <<z[1], z[2]>>
  BY DEF Places
<1>3. \A p \in Queues : \A k \in DOMAIN P[p] : <<p, k>> \in A
  BY DEF Places
<1> HIDE DEF A, B
<1>4. \A z \in B : f[z] \in C
  BY <1>1, <1>2, <1>3
<1>5. \A y, z \in B : f[y] = f[z] => y = z
  <2> SUFFICES ASSUME NEW y \in B, NEW z \in B, f[y] = f[z] PROVE y = z
    OBVIOUS
  <2>1. y[1] = z[1] /\ PlaceBefore(q, y[1], y[2]) = PlaceBefore(q, y[1], z[2])
    OBVIOUS
  <2>2. y[2] = z[2]
    BY <1>1, <1>2, <2>1
  <2> QED
    BY <1>2, <2>1, <2>2
<1>6. f \in Injection(B, C)
  <2> HIDE DEF C
  <2>1. f \in [B -> C]
    BY <1>4
  <2> HIDE DEF f
  <2> QED
    BY <1>5, <2>1 DEF Injection, IsInjective
<1>7. IsFiniteSet(A) /\ <<q, 1>> \in A
  BY <1>1, <1>3 DEF A
<1>8. IsFiniteSet(C) /\ Cardinality(C) = Cardinality(A) - 1
  BY <1>7, FS_RemoveElement
<1> HIDE DEF C, f
<1>9. IsFiniteSet(B) /\ Cardinality(B) <= Cardinality(C)
  BY <1>6, <1>8, FS_Injection
<1>10. Cardinality(A) \in Nat /\ Cardinality(B) \in Nat
  BY <1>7, <1>9, FS_CardinalityType
<1> QED
  BY <1>8, <1>9, <1>10 DEF A, B

\* Issuing a command leaves the queues short, the REFRESH last and no other one waiting.
LEMMA IssueKeepsShort ==
    ASSUME NEW P \in CommandLists, NEW q \in Queues, P[q] # <<>>,
           NEW N, N[q] = Tail(P[q]), \A p \in Queues \ {q} : N[p] = P[p]
    PROVE  /\ \A active : AllShort(P, active) => AllShort(N, active)
           /\ RefreshLast(P) => RefreshLast(N)
           /\ RefreshWaits(N, 0) => RefreshWaits(P, 0)
<1> DEFINE list == P[q]
           n == Len(list)
<1>1. list \in Seq(Commands) /\ list # <<>> /\ N[q] = Tail(list)
  BY DEF CommandLists
<1>2. /\ 1 \in DOMAIN P[q]
      /\ \A p \in Queues : \A k \in DOMAIN N[p] :
             PlaceBefore(q, p, k) \in DOMAIN P[p] /\ N[p][k] = P[p][PlaceBefore(q, p, k)]
      /\ \A p \in Queues : \A k \in DOMAIN P[p] : ~(p = q /\ k = 1) =>
             \E l \in DOMAIN N[p] : PlaceBefore(q, p, l) = k /\ N[p][l] = P[p][k]
  BY IssuePlaces
<1> HIDE DEF list
<1>3. n \in Nat /\ DOMAIN list = 1 .. n /\ Len(Tail(list)) = n - 1
  BY <1>1, EmptySeq, LenProperties, HeadTailProperties
<1>4. DOMAIN Tail(list) = 1 .. n - 1 /\ \A k \in 1 .. n - 1 : Tail(list)[k] = list[k + 1]
  BY <1>1, <1>3, HeadTailProperties, LenProperties
<1> HIDE DEF n
<1>5. \A m \in Nat : Short(list, m) => Short(Tail(list), m)
  <2>1. HoldsRefresh(Tail(list)) => HoldsRefresh(list)
    <3> SUFFICES ASSUME HoldsRefresh(Tail(list)) PROVE HoldsRefresh(list)
      OBVIOUS
    <3>1. PICK k \in 1 .. n - 1 : list[k + 1].type = "REFRESH"
      BY <1>4 DEF HoldsRefresh
    <3>2. k + 1 \in 1 .. n
      BY <1>3
    <3> QED
      BY <1>3, <3>1, <3>2 DEF HoldsRefresh
  <2> QED
    BY <1>3, <2>1 DEF Short, n
<1>6. \A active : AllShort(P, active) => AllShort(N, active)
  <2> SUFFICES ASSUME NEW active, AllShort(P, active), NEW p \in Queues
               PROVE  Short(N[p], Cardinality(Inactive(active, p)))
    BY DEF AllShort
  <2>1. Short(P[p], Cardinality(Inactive(active, p)))
    BY DEF AllShort
  <2>2. Cardinality(Inactive(active, p)) \in Nat
    BY InactiveFacts
  <2> QED
    BY <1>1, <1>5, <2>1, <2>2 DEF list
<1>7. RefreshLast(P) => RefreshLast(N)
  <2> SUFFICES ASSUME RefreshLast(P), NEW p \in Queues, NEW k \in DOMAIN N[p],
                      N[p][k].type = "REFRESH"
               PROVE  k = Len(N[p])
    BY DEF RefreshLast
  <2>1. CASE p # q
    BY <2>1 DEF RefreshLast
  <2>2. CASE p = q
    <3>1. k \in 1 .. n - 1 /\ list[k + 1].type = "REFRESH" /\ Len(N[p]) = n - 1
      <4>1. N[p] = Tail(list)
        BY <1>1, <2>2
      <4>2. k \in 1 .. n - 1 /\ Tail(list)[k].type = "REFRESH"
        BY <1>4, <4>1
      <4>3. list[k + 1].type = "REFRESH"
        BY <1>4, <4>2
      <4> QED
        BY <1>3, <4>1, <4>2, <4>3
    <3>2. k + 1 \in DOMAIN list
      BY <1>3, <3>1
    <3>3. k + 1 = n
      BY <2>2, <3>1, <3>2 DEF RefreshLast, list, n
    <3> QED
      BY <1>3, <3>1, <3>3
  <2> QED
    BY <2>1, <2>2
<1>8. RefreshWaits(N, 0) => RefreshWaits(P, 0)
  BY <1>2 DEF RefreshWaits
<1> QED
  BY <1>6, <1>7, <1>8

\* What CycleCommandQueues does to the commands to be issued and to the banks: nothing, if
\* no head can be issued; or it issues one.
Issues(M, P, N) ==
    /\ \A bank \in Banks : busy'[bank] \in Nat /\ busy'[bank] <= M
    /\ \E q \in Queues : /\ P[q] # <<>> /\ N[q] = Tail(P[q])
                         /\ \A p \in Queues \ {q} : N[p] = P[p]

LEMMA CycleCommandQueuesIssues ==
    ASSUME TypeOK, IssuedHeads, cleanup # "due", NEW cq \in CommandLists,
           \A q \in issued : cq[q] # <<>>, CycleCommandQueues(cq),
           NEW M \in Nat, \A d \in Delays : d <= M, \A bank \in Banks : busy[bank] <= M
    PROVE  LET P == PendingLists(cq, issued)
               N == PendingLists(commandQueues', issued')
           IN  \/ IssuableQueues(cq) = {} /\ N = P /\ UNCHANGED <<busy, lastIssueCycle>>
               \/ Issues(M, P, N)
<1>1. commandQueues' = cq
  BY DEF CycleCommandQueues
<1>2. CASE IssuableQueues(cq) = {}
  BY <1>1, <1>2 DEF CycleCommandQueues, deviceVars
<1>3. CASE IssuableQueues(cq) # {}
  <2> DEFINE q == ServedQueue(cq)
             P == PendingLists(cq, issued)
             N == PendingLists(cq, issued')
  <2>1. q \in Queues /\ cq[q] # <<>> /\ lastIssueCycle # "now"
    BY <1>3, ServedFacts
  <2>2. issued = {}
    BY <2>1 DEF IssuedHeads
  <2>3. issued' = {q} /\ DeviceIssue(Head(cq[q]))
    BY <1>3, <2>2 DEF CycleCommandQueues
  <2> HIDE DEF q
  <2>4. /\ P[q] = cq[q] /\ P[q] # <<>>
        /\ N[q] = Tail(P[q]) /\ \A p \in Queues \ {q} : N[p] = P[p]
    BY <2>1, <2>2, <2>3 DEF PendingLists
  <2>5. \A bank \in Banks : busy'[bank] \in Nat /\ busy'[bank] <= M
    <3>1. PICK d \in Delays : busy' = [bank \in Banks |->
              IF bank \in Occupied(Head(cq[q])) THEN d ELSE busy[bank]]
      BY <2>3 DEF DeviceIssue
    <3>2. d \in Nat /\ d <= M /\ \A bank \in Banks : busy[bank] \in Nat
      BY DelaysAssumption DEF TypeOK
    <3> QED
      BY <3>1, <3>2
  <2> HIDE DEF P, N
  <2>6. Issues(M, P, N)
    BY <2>1, <2>4, <2>5 DEF Issues
  <2> QED
    BY <1>1, <2>6 DEF P, N
<1> QED
  BY <1>2, <1>3

\* A command issued buys M + 2 cycles.
LEMMA IssueEnough ==
    ASSUME NEW P \in CommandLists, NEW N, NEW M \in Nat, Issues(M, P, N), IsFiniteSet(Places(P)),
           NEW left \in Nat, NEW occupied, NEW events, NEW last,
           Enough(M, P, left, occupied, events, last),
           NEW n \in wake', n \in Nat, n <= M + 1, NEW after
    PROVE  Enough(M, N, left, busy', wake', after)
<1>1. PICK T \in 0 .. M + 1 : (M + 2) * Cardinality(Places(P)) + T <= left
  BY DEF Enough
<1>2. PICK q \in Queues : P[q] # <<>> /\ N[q] = Tail(P[q]) /\ \A p \in Queues \ {q} : N[p] = P[p]
  BY DEF Issues
<1> DEFINE a == Cardinality(Places(P))
           b == Cardinality(Places(N))
<1>3. a \in Nat /\ b \in Nat /\ b + 1 <= a
  BY <1>2, OnePlaceLess
<1> HIDE DEF a, b
<1>4. (M + 2) * b + (M + 2) <= (M + 2) * a
  <2>1. (M + 2) * (b + 1) <= (M + 2) * a
    <3>1. \A i, x, y \in Nat : x <= y => i * x <= i * y
      OBVIOUS
    <3> QED
      BY <1>3, <3>1
  <2>2. (M + 2) * (b + 1) = (M + 2) * b + (M + 2)
    BY <1>3
  <2> QED
    BY <2>1, <2>2
<1>5. (M + 2) * a + T <= left
  BY <1>1 DEF a
<1>6. (M + 2) * b + (M + 1) <= left
  <2> DEFINE u == (M + 2) * a
             v == (M + 2) * b
  <2>1. u \in Nat /\ v \in Nat
    BY <1>3
  <2>2. u + T <= left /\ v + (M + 2) <= u
    BY <1>4, <1>5
  <2> HIDE DEF u, v
  <2>3. v + (M + 1) <= left
    BY <2>1, <2>2
  <2> QED
    BY <2>3 DEF v
<1>7. \A bank \in Banks : busy'[bank] + 1 <= M + 1
  BY DEF Issues
<1>8. Ready(busy', wake', after, M + 1)
  BY <1>7 DEF Ready
<1>9. M + 1 \in 0 .. M + 1
  OBVIOUS
<1> QED
  BY <1>6, <1>8, <1>9 DEF Enough, b

\* A wake-up comes no later than the bank of some head is free.
LEMMA WakeSoon ==
    ASSUME TypeOK, QueueModel # "PerSubArray", NEW cq \in CommandLists,
           \E q \in Queues : cq[q] # <<>>, NEW w \in WakeTimes(cq)
    PROVE  \E n \in w : n \in Nat /\ \E bank \in Banks : n <= 1 + busy[bank]
<1> DEFINE nonempty == {b \in Banks : cq[QueueOf(b, 0)] # <<>>}
           heads == {Head(cq[QueueOf(bank, 0)]) : bank \in nonempty}
           T == {1 + busy[c.bank] : c \in heads}
<1>1. WakeTimes(cq) = IF heads = {} THEN {{}} ELSE {{n} : n \in 1 .. Least(T)}
  BY DEF WakeTimes
<1>2. heads # {}
  BY QueuesSeen
<1>3. heads \subseteq Commands
  BY QueueFacts, HeadTailProperties DEF CommandLists
<1> HIDE DEF heads
<1>4. \A c \in heads : c.bank \in Banks /\ busy[c.bank] \in Nat
  BY <1>3 DEF Commands, TypeOK
<1>5. T \in SUBSET Nat /\ T # {}
  BY <1>2, <1>4
<1>6. Least(T) \in T
  <2> HIDE DEF T
  <2> QED BY <1>5, LeastFacts
<1>7. PICK c \in heads : Least(T) = 1 + busy[c.bank]
  BY <1>6
<1>8. PICK n \in 1 .. Least(T) : w = {n}
  <2> HIDE DEF T
  <2> QED BY <1>1, <1>2
<1> HIDE DEF T
<1>9. n \in Nat /\ n <= 1 + busy[c.bank]
  BY <1>4, <1>7, <1>8
<1> QED
  BY <1>4, <1>8, <1>9

\* While a REFRESH waits and all banks are free, the head of some queue can be issued: one
\* of another command, which finds the row that it needs, or the REFRESH, alone and with
\* all rows closed.
LEMMA SomeIssuable ==
    ASSUME IndInv, RowInv, BanksPerRefresh = BANKS, issued = {}, MarkedNow,
           RefreshWaits(commandQueues, 0), RefreshLast(commandQueues),
           RowsClosed(commandQueues, effectiveRow), \A bank \in Banks : busy[bank] = 0,
           "now" \notin {lastIssueCycle, handledRefresh}
    PROVE  IssuableQueues(commandQueues) # {}
<1>1. /\ commandQueues \in CommandLists /\ PendingLists(commandQueues, issued) = commandQueues
  BY OrderTypes DEF PendingLists, CommandLists
<1>2. ASSUME NEW q \in Queues, commandQueues[q] # <<>>
      PROVE  /\ 1 \in DOMAIN commandQueues[q] /\ Head(commandQueues[q]) = commandQueues[q][1]
             /\ commandQueues[q][1] \in Commands
             /\ Len(commandQueues[q]) \in Nat
             /\ DOMAIN commandQueues[q] = 1 .. Len(commandQueues[q])
  <2>1. commandQueues[q] \in Seq(Commands)
    BY <1>1 DEF CommandLists
  <2> QED
    BY <1>2, <2>1, EmptySeq, LenProperties, ElementOfSeq, HeadTailProperties
<1>3. ASSUME NEW q \in Queues, commandQueues[q] # <<>>, commandQueues[q][1].type # "REFRESH"
      PROVE  q \in IssuableQueues(commandQueues)
  <2> DEFINE c == commandQueues[q][1]
  <2>1. Head(commandQueues[q]) = c /\ c \in Commands
    BY <1>2, <1>3
  <2>2. RowFits(c)
    BY <1>3, <2>1, HeadsFit DEF HeadFitsDevice
  <2>3. Occupied(c) = {c.bank} /\ c.bank \in Banks
    BY <1>3, <2>1 DEF Occupied, Commands
  <2> HIDE DEF c
  <2>4. IsIssuable(c)
    BY <2>2, <2>3 DEF IsIssuable
  <2> QED
    BY <1>3, <2>1, <2>4 DEF IssuableQueues
<1>4. PICK q \in Queues : \E k \in DOMAIN commandQueues[q] : RefreshOf(commandQueues[q][k], 0)
  BY DEF RefreshWaits
<1>5. PICK k \in DOMAIN commandQueues[q] : RefreshOf(commandQueues[q][k], 0)
  BY <1>4
<1>6. commandQueues[q] # <<>>
  BY <1>5
<1> SUFFICES ASSUME IssuableQueues(commandQueues) = {} PROVE FALSE
  OBVIOUS
<1>7. commandQueues[q][1].type = "REFRESH" /\ Len(commandQueues[q]) = 1
  <2>1. commandQueues[q][1].type = "REFRESH"
    BY <1>3, <1>6
  <2> QED
    BY <1>2, <1>6, <2>1 DEF RefreshLast
<1>8. \A p \in Queues \ {q} : commandQueues[p] = <<>>
  <2> SUFFICES ASSUME NEW p \in Queues \ {q}, commandQueues[p] # <<>> PROVE FALSE
    OBVIOUS
  <2>1. commandQueues[p][1].type = "REFRESH"
    BY <1>3
  <2>2. /\ 1 \in DOMAIN commandQueues[p] /\ commandQueues[p][1] \in Commands
        /\ 1 \in DOMAIN commandQueues[q] /\ commandQueues[q][1] \in Commands
    BY <1>2, <1>6
  <2>3. RefreshOf(commandQueues[p][1], 0) /\ RefreshOf(commandQueues[q][1], 0)
    BY <1>7, <2>1, <2>2, OneGroup DEF RefreshOf, Commands
  <2>4. WaitsOnce(commandQueues, 0)
    BY <1>1, OneGroup DEF MarkedNow, Marked
  <2> QED
    BY <2>2, <2>3, <2>4 DEF WaitsOnce
<1> DEFINE c == commandQueues[q][1]
<1>9. Head(commandQueues[q]) = c /\ c \in Commands
  BY <1>2, <1>6
<1>10. ASSUME NEW bank \in Banks, UsePrecharge PROVE openRow[bank][0] = NoRow
  <2> DEFINE list == commandQueues[QueueOf(bank, 0)]
             row == effectiveRow[bank][0]
  <2>1. row = NoRow
    BY <1>10 DEF RowsClosed
  <2>2. RowThen(openRow[bank][0], list, Len(list), bank, 0, row)
    BY <1>1, RowInvParts, QueueFacts DEF Recorded
  <2>3. QueueOf(bank, 0) \in Queues
    BY QueueFacts
  <2>4. \A j \in 1 .. Len(list) : list[j].type = "REFRESH"
    <3>1. CASE QueueOf(bank, 0) = q
      BY <1>7, <3>1
    <3>2. CASE QueueOf(bank, 0) # q
      BY <1>8, <2>3, <3>2
    <3> QED
      BY <3>1, <3>2
  <2> HIDE DEF list, row
  <2>5. \A j \in 1 .. Len(list) : ~ChangesRow(list[j], bank, 0)
    BY <2>4 DEF ChangesRow, OpensRow, ClosesRow
  <2>6. row = openRow[bank][0]
    BY <2>2, <2>5 DEF RowThen
  <2> QED
    BY <2>1, <2>6
<1>11. Occupied(c) \subseteq Banks
  BY <1>7 DEF Occupied, GroupBanks
<1>12. c.type = "REFRESH"
  BY <1>7
<1> HIDE DEF c
<1>13. RowFits(c)
  BY <1>10, <1>11, <1>12, PolicyAssumption DEF RowFits
<1>14. IsIssuable(c)
  BY <1>11, <1>13 DEF IsIssuable
<1> QED
  BY <1>6, <1>9, <1>14 DEF IssuableQueues

\* What is shown of a state: the queues are short, with the REFRESH last and the rows closed;
\* no bank is busy for longer than M cycles; and there is enough time for what is queued.
OrderlyNow ==
    LET P == PendingLists(commandQueues, issued)
    IN  AllShort(P, activateQueued) /\ RefreshLast(P) /\ RowsClosed(P, effectiveRow)
BusyNow(M) == \A bank \in Banks : busy[bank] <= M
EnoughNow(M) ==
    LET P == PendingLists(commandQueues, issued)
    IN  RefreshWaits(P, 0) =>
            Enough(M, P, refreshIn[0], busy, wake, {lastIssueCycle, handledRefresh})
DeadlineInv(M) == OrderlyNow /\ BusyNow(M) /\ EnoughNow(M)

\* The time between two pulses is enough to drain the queues: each holds at most the three
\* commands of a transaction, a precharge for each of its banks, which are S at most, and
\* the REFRESH.
TimeToDrain(M, S) ==
    /\ \A d \in Delays : d <= M
    /\ \A q \in Queues : Cardinality({bank \in Banks : QueueOf(bank, 0) = q}) <= S
    /\ (M + 2) * (Cardinality(Queues) * (4 + S)) + (M + 1) <= TREFI

\* Where there is enough time no refresh is late.
LEMMA EnoughInTime ==
    ASSUME IndInv, BanksPerRefresh = BANKS, NEW M \in Nat, NEW S \in Nat, TimeToDrain(M, S),
           DeadlineInv(M)
    PROVE  RefreshesInTime
<1> DEFINE P == PendingLists(commandQueues, issued)
           n == Cardinality(Places(P))
<1>1. P \in CommandLists
  BY OrderTypes
<1>2. /\ AllShort(P, activateQueued)
      /\ RefreshWaits(P, 0) =>
            Enough(M, P, refreshIn[0], busy, wake, {lastIssueCycle, handledRefresh})
  BY DEF DeadlineInv, OrderlyNow, EnoughNow
<1>3. RefreshesInTime <=> \A g \in RefreshDue : ~RefreshWaits(P, g)
  BY MarkParts
<1>4. RefreshDue \subseteq {0} /\ (0 \in RefreshDue => refreshIn[0] = 0)
  BY OneGroup DEF RefreshDue
<1> HIDE DEF P
<1>5. ASSUME RefreshWaits(P, 0) PROVE refreshIn[0] # 0
  <2>1. PICK q \in Queues : \E k \in DOMAIN P[q] : RefreshOf(P[q][k], 0)
    BY <1>5 DEF RefreshWaits
  <2>2. Places(P) # {}
    <3>1. PICK k \in DOMAIN P[q] : RefreshOf(P[q][k], 0)
      BY <2>1
    <3>2. <<q, k>> \in Places(P)
      BY <3>1 DEF Places
    <3> QED
      BY <3>2
  <2>3. IsFiniteSet(Places(P)) /\ n \in Nat
    BY <1>1, <1>2, FewPlaces DEF TimeToDrain
  <2>4. n # 0
    BY <2>2, <2>3, FS_EmptySet
  <2>5. PICK T \in 0 .. M + 1 : (M + 2) * n + T <= refreshIn[0]
    BY <1>2, <1>5 DEF Enough
  <2> HIDE DEF n
  <2>6. (M + 2) * n > 0
    <3>1. \A i, j \in Nat : i > 0 /\ j > 0 => i * j > 0
      OBVIOUS
    <3> QED
      BY <2>3, <2>4, <3>1
  <2> DEFINE u == (M + 2) * n
  <2>7. u \in Nat /\ u > 0 /\ u + T <= refreshIn[0]
    BY <2>3, <2>5, <2>6
  <2> HIDE DEF u
  <2> QED
    BY <2>7
<1> QED
  BY <1>3, <1>4, <1>5

\* A step that leaves the commands to be issued, the record, the banks and the time alone.
LEMMA SameDeadline ==
    ASSUME NEW M, DeadlineInv(M),
           PendingLists(commandQueues', issued') = PendingLists(commandQueues, issued),
           UNCHANGED <<activateQueued, effectiveRow, busy, refreshIn, wake, lastIssueCycle,
                       handledRefresh>>
    PROVE  DeadlineInv(M)'
  BY DEF DeadlineInv, OrderlyNow, BusyNow, EnoughNow

\* A tick takes one cycle from the time left, and from the time to the next command.
LEMMA TickDeadline ==
    ASSUME IndInv, BanksPerRefresh = BANKS, NEW M \in Nat, NEW S \in Nat, TimeToDrain(M, S),
           DeadlineInv(M), Tick
    PROVE  DeadlineInv(M)'
<1> DEFINE P == PendingLists(commandQueues, issued)
           n == Cardinality(Places(P))
           last == {lastIssueCycle, handledRefresh}
<1>1. /\ PendingLists(commandQueues', issued') = P
      /\ UNCHANGED <<commandQueues, issued, activateQueued, effectiveRow>>
      /\ {lastIssueCycle', handledRefresh'} = {"past"}
  BY DEF Tick, rowVars
<1>2. OrderlyNow'
  BY <1>1 DEF DeadlineInv, OrderlyNow
<1>3. busy' = [bank \in Banks |-> IF busy[bank] = 0 THEN 0 ELSE busy[bank] - 1]
  BY DEF Tick
<1>4. /\ \A bank \in Banks : busy[bank] \in Nat /\ busy[bank] <= M
      /\ wake \subseteq Nat /\ 0 \notin wake /\ wake' = {i - 1 : i \in wake}
      /\ refreshIn[0] \in Nat
  BY OneGroup DEF IndInv, TypeOK, DeadlineInv, BusyNow, Tick
<1>5. BusyNow(M)'
  BY <1>3, <1>4 DEF BusyNow
<1>6. refreshIn'[0] = refreshIn[0] \/ refreshIn'[0] = refreshIn[0] - 1
  BY OneGroup DEF Tick
<1>7. P \in CommandLists /\ AllShort(P, activateQueued)
  BY OrderTypes DEF DeadlineInv, OrderlyNow
<1>8. RefreshWaits(P, 0) => Enough(M, P, refreshIn[0], busy, wake, last)
  BY DEF DeadlineInv, EnoughNow
<1> HIDE DEF P
<1>9. n \in Nat
  BY <1>7, FewPlaces DEF TimeToDrain
<1>10. ASSUME RefreshWaits(P, 0) PROVE Enough(M, P, refreshIn'[0], busy', wake', {"past"})
  <2>1. PICK T \in 0 .. M + 1 : (M + 2) * n + T <= refreshIn[0] /\ Ready(busy, wake, last, T)
    BY <1>8, <1>10 DEF Enough
  <2> HIDE DEF n, last
  <2>2. (\A bank \in Banks : busy[bank] + 1 <= T) /\ \E i \in wake : i <= T
    BY <1>4, <2>1 DEF Ready
  <2>3. PICK i \in wake : i \in Nat /\ i # 0 /\ i <= T
    BY <1>4, <2>2
  <2>4. T - 1 \in 0 .. M + 1 /\ i - 1 \in wake' /\ i - 1 <= T - 1
    BY <1>4, <2>3
  <2>5. (M + 2) * n + (T - 1) <= refreshIn'[0]
    <3> DEFINE u == (M + 2) * n
    <3>1. u \in Nat /\ u + T <= refreshIn[0]
      BY <1>9, <2>1
    <3> HIDE DEF u
    <3>2. u + (T - 1) <= refreshIn'[0]
      BY <1>4, <1>6, <3>1
    <3> QED
      BY <3>2 DEF u
  <2>6. Ready(busy', wake', {"past"}, T - 1)
    <3>1. CASE T = 1
      <4>1. T - 1 = 0 /\ i - 1 = 0
        BY <2>3, <3>1
      <4>2. \A bank \in Banks : busy'[bank] = 0
        BY <1>3, <1>4, <2>2, <3>1
      <4> QED
        BY <2>4, <4>1, <4>2 DEF Ready
    <3>2. CASE T # 1
      <4>1. \A bank \in Banks : busy'[bank] + 1 <= T - 1
        BY <1>3, <1>4, <2>2, <2>3, <3>2
      <4> QED
        BY <2>4, <4>1 DEF Ready
    <3> QED
      BY <3>1, <3>2
  <2> QED
    BY <2>4, <2>5, <2>6 DEF Enough, n
<1>11. EnoughNow(M)'
  BY <1>1, <1>10 DEF EnoughNow, P
<1> QED
  BY <1>2, <1>5, <1>11 DEF DeadlineInv

\* Where no REFRESH waits, there is none at all.
LEMMA NoRefresh ==
    ASSUME BanksPerRefresh = BANKS, NEW P \in CommandLists, ~RefreshWaits(P, 0)
    PROVE  /\ \A q \in Queues : ~HoldsRefresh(P[q])
           /\ RefreshLast(P)
           /\ \A record : RowsClosed(P, record)
<1>1. ASSUME NEW q \in Queues, NEW k \in DOMAIN P[q], P[q][k].type = "REFRESH" PROVE FALSE
  <2>1. P[q] \in Seq(Commands)
    BY DEF CommandLists
  <2>2. P[q][k] \in Commands
    BY <2>1, LenProperties, ElementOfSeq
  <2>3. GroupOf(P[q][k].bank) = 0
    BY <2>2, OneGroup DEF Commands
  <2> QED
    BY <1>1, <2>3 DEF RefreshWaits, RefreshOf
<1> QED
  BY <1>1 DEF HoldsRefresh, RefreshLast, RowsClosed

\* A step that issues a command, with a wake-up coming if a REFRESH waits.
LEMMA IssuedDeadline ==
    ASSUME IndInv, NEW M \in Nat, NEW S \in Nat, TimeToDrain(M, S), DeadlineInv(M),
           BanksPerRefresh = BANKS,
           Issues(M, PendingLists(commandQueues, issued), PendingLists(commandQueues', issued')),
           UNCHANGED <<activateQueued, effectiveRow, refreshIn>>,
           RefreshWaits(PendingLists(commandQueues, issued), 0) =>
               \E n \in wake' : n \in Nat /\ n <= M + 1
    PROVE  DeadlineInv(M)'
<1> DEFINE P == PendingLists(commandQueues, issued)
           N == PendingLists(commandQueues', issued')
           last == {lastIssueCycle, handledRefresh}
<1>1. P \in CommandLists /\ refreshIn[0] \in Nat
  BY OrderTypes, OneGroup DEF IndInv, TypeOK
<1>2. /\ AllShort(P, activateQueued) /\ RefreshLast(P) /\ RowsClosed(P, effectiveRow)
      /\ RefreshWaits(P, 0) => Enough(M, P, refreshIn[0], busy, wake, last)
  BY DEF DeadlineInv, OrderlyNow, EnoughNow
<1>3. Issues(M, P, N)
  OBVIOUS
<1> HIDE DEF P, N
<1>4. PICK q \in Queues : P[q] # <<>> /\ N[q] = Tail(P[q]) /\ \A p \in Queues \ {q} : N[p] = P[p]
  BY <1>3 DEF Issues
<1>5. /\ AllShort(N, activateQueued) /\ RefreshLast(N)
      /\ RefreshWaits(N, 0) => RefreshWaits(P, 0)
  BY <1>1, <1>2, <1>4, IssueKeepsShort
<1>6. RowsClosed(N, effectiveRow)
  BY <1>2, <1>5 DEF RowsClosed
<1>7. OrderlyNow'
  BY <1>5, <1>6 DEF OrderlyNow, N
<1>8. BusyNow(M)'
  BY <1>3 DEF Issues, BusyNow
<1>9. IsFiniteSet(Places(P))
  BY <1>1, <1>2, FewPlaces DEF TimeToDrain
<1>10. ASSUME RefreshWaits(N, 0), NEW after PROVE Enough(M, N, refreshIn[0], busy', wake', after)
  <2>1. RefreshWaits(P, 0)
    BY <1>5, <1>10
  <2>2. PICK n \in wake' : n \in Nat /\ n <= M + 1
    BY <2>1 DEF P
  <2>3. Enough(M, P, refreshIn[0], busy, wake, last)
    BY <1>2, <2>1
  <2> QED
    BY <1>1, <1>3, <1>9, <2>2, <2>3, IssueEnough
<1>11. EnoughNow(M)'
  BY <1>10 DEF EnoughNow, N
<1> QED
  BY <1>7, <1>8, <1>11 DEF DeadlineInv

\* CommandQueueCallback issues a command, or the banks are not yet free; then it wakes the
\* queues again in time.
LEMMA CommandQueueCallbackDeadline ==
    ASSUME IndInv, RowInv, MarkedNow, QueueModel # "PerSubArray", BanksPerRefresh = BANKS,
           NEW M \in Nat, NEW S \in Nat, TimeToDrain(M, S), DeadlineInv(M),
           CommandQueueCallback
    PROVE  DeadlineInv(M)'
<1> DEFINE P == PendingLists(commandQueues, issued)
           N == PendingLists(commandQueues', issued')
           last == {lastIssueCycle, handledRefresh}
<1>1. /\ TypeOK /\ IssuedHeads /\ cleanup # "due" /\ CycleCommandQueues(commandQueues)
      /\ UNCHANGED <<activateQueued, effectiveRow, refreshIn, handledRefresh>>
  BY DEF IndInv, CommandQueueCallback, rowVars, refreshVars
<1>2. PICK w \in WakeTimes(commandQueues) : wake' = (wake \ {0}) \cup w
  BY DEF CommandQueueCallback
<1>3. /\ commandQueues \in CommandLists /\ P \in CommandLists
      /\ \A q \in issued : commandQueues[q] # <<>>
  BY OrderTypes
<1>4. \A q \in Queues : P[q] # <<>> => commandQueues[q] # <<>>
  BY <1>3 DEF PendingLists
<1>5. \A bank \in Banks : busy[bank] \in Nat /\ busy[bank] <= M
  BY <1>1 DEF TypeOK, DeadlineInv, BusyNow
<1>6. ASSUME RefreshWaits(P, 0)
      PROVE  \E n \in wake' : n \in Nat /\ \E bank \in Banks : n <= 1 + busy[bank]
  <2>1. PICK q \in Queues : \E k \in DOMAIN P[q] : RefreshOf(P[q][k], 0)
    BY <1>6 DEF RefreshWaits
  <2>2. P[q] # <<>>
    BY <2>1
  <2>3. \E n \in w : n \in Nat /\ \E bank \in Banks : n <= 1 + busy[bank]
    BY <1>1, <1>3, <1>4, <2>2, WakeSoon
  <2> QED
    BY <1>2, <2>3
<1>7. \/ IssuableQueues(commandQueues) = {} /\ N = P /\ UNCHANGED <<busy, lastIssueCycle>>
      \/ Issues(M, P, N)
  BY <1>1, <1>3, <1>5, CycleCommandQueuesIssues DEF TimeToDrain
<1>8. CASE Issues(M, P, N)
  <2>1. RefreshWaits(P, 0) => \E n \in wake' : n \in Nat /\ n <= M + 1
    <3> SUFFICES ASSUME RefreshWaits(P, 0) PROVE \E n \in wake' : n \in Nat /\ n <= M + 1
      OBVIOUS
    <3>1. PICK n \in wake' : n \in Nat /\ \E bank \in Banks : n <= 1 + busy[bank]
      BY <1>6
    <3>2. n <= M + 1
      BY <1>5, <3>1
    <3> QED
      BY <3>1, <3>2
  <2> QED
    BY <1>1, <1>8, <2>1, IssuedDeadline
<1>9. CASE IssuableQueues(commandQueues) = {} /\ N = P /\ UNCHANGED <<busy, lastIssueCycle>>
  <2>1. OrderlyNow' /\ BusyNow(M)'
    BY <1>1, <1>9 DEF DeadlineInv, OrderlyNow, BusyNow
  <2>2. ASSUME RefreshWaits(P, 0) PROVE Enough(M, P, refreshIn[0], busy, wake', last)
    <3>1. PICK T \in 0 .. M + 1 : /\ (M + 2) * Cardinality(Places(P)) + T <= refreshIn[0]
                                  /\ Ready(busy, wake, last, T)
      BY <2>2 DEF DeadlineInv, EnoughNow, Enough
    <3>2. \A bank \in Banks : busy[bank] + 1 <= T
      <4> SUFFICES ASSUME \A bank \in Banks : busy[bank] = 0, "now" \notin last PROVE FALSE
        BY <3>1 DEF Ready
      <4>1. issued = {}
        BY <1>1 DEF IssuedHeads
      <4>2. P = commandQueues
        BY <1>3, <4>1 DEF PendingLists, CommandLists
      <4>3. /\ RefreshWaits(commandQueues, 0) /\ RefreshLast(commandQueues)
            /\ RowsClosed(commandQueues, effectiveRow)
        BY <2>2, <4>2 DEF DeadlineInv, OrderlyNow
      <4>4. IssuableQueues(commandQueues) # {}
        BY <4>1, <4>3, SomeIssuable
      <4> QED
        BY <1>9, <4>4
    <3>3. PICK n \in wake' : n \in Nat /\ \E bank \in Banks : n <= 1 + busy[bank]
      BY <1>6, <2>2
    <3>4. n <= T
      BY <1>5, <3>2, <3>3
    <3>5. Ready(busy, wake', last, T)
      BY <3>2, <3>4 DEF Ready
    <3> QED
      BY <3>1, <3>5 DEF Enough
  <2>3. EnoughNow(M)'
    BY <1>1, <1>9, <2>2 DEF EnoughNow
  <2> QED
    BY <2>1, <2>3 DEF DeadlineInv
<1> QED
  BY <1>7, <1>8, <1>9

\* A transaction's commands come into an empty queue, and the other queues keep their banks.
LEMMA ScheduledShort ==
    ASSUME TypeOK, QueueModel # "PerSubArray", NEW P \in CommandLists,
           P = PendingLists(commandQueues, issued), \A q \in issued : commandQueues[q] # <<>>,
           NEW x \in CommandLists, NEW N, Behind(P, x, N),
           \A q \in Queues : x[q] # <<>> => Len(x[q]) <= 3 /\ commandQueues[q] = <<>>,
           NEW t \in Transactions, NEW rest, Schedulable(t), RecordRows(t, rest),
           AllShort(P, activateQueued)
    PROVE  AllShort(N, activateQueued')
<1> SUFFICES ASSUME NEW q \in Queues PROVE Short(N[q], Cardinality(Inactive(activateQueued', q)))
  BY DEF AllShort
<1> DEFINE n == Cardinality(Inactive(activateQueued', q))
<1>1. n \in Nat
  BY InactiveFacts
<1>2. P[q] \in Seq(Commands) /\ x[q] \in Seq(Commands) /\ N[q] = P[q] \o x[q]
  BY DEF CommandLists, Behind
<1>3. activateQueued' \in {activateQueued \ {t.bank}, activateQueued \cup {t.bank}}
  BY DEF RecordRows
<1>4. t.bank \in Banks /\ commandQueues[QueueOf(t.bank, 0)] = <<>>
  <2>1. t.bank \in Banks /\ commandQueues[QueueOf(t.bank, t.sa)] = <<>>
    BY DEF Schedulable, RequestQueue, Transactions
  <2> QED
    BY <2>1, PolicyAssumption DEF QueueOf
<1>5. CASE commandQueues[q] = <<>>
  <2>1. P[q] = <<>>
    BY <1>5 DEF PendingLists
  <2>2. N[q] = x[q]
    BY <1>2, <2>1
  <2>3. Len(x[q]) \in Nat /\ Len(x[q]) <= 3
    BY <1>2, LenProperties, EmptySeq
  <2> HIDE DEF n
  <2>4. Short(N[q], n)
    BY <1>1, <2>2, <2>3 DEF Short
  <2> QED
    BY <2>4 DEF n
<1>6. CASE commandQueues[q] # <<>>
  <2>1. x[q] = <<>>
    BY <1>6
  <2>2. N[q] = P[q]
    BY <1>2, <2>1
  <2>3. QueueOf(t.bank, 0) # q
    BY <1>4, <1>6
  <2>4. Inactive(activateQueued', q) = Inactive(activateQueued, q)
    BY <1>3, <2>3 DEF Inactive
  <2> QED
    BY <2>2, <2>4 DEF AllShort
<1> QED
  BY <1>5, <1>6

\* While a REFRESH waits all banks are marked and nothing is scheduled.
LEMMA CycleDeadline ==
    ASSUME IndInv, OrderInv, MarkedNow, QueueModel # "PerSubArray", BanksPerRefresh = BANKS,
           NEW M \in Nat, NEW S \in Nat, TimeToDrain(M, S), DeadlineInv(M), Cycle
    PROVE  DeadlineInv(M)'
<1> DEFINE P == PendingLists(commandQueues, issued)
           N == PendingLists(commandQueues', issued')
           last == {lastIssueCycle, handledRefresh}
<1>1. PICK cq \in CommandLists : \E x \in CommandLists :
          /\ \A q \in issued : cq[q] # <<>>
          /\ CycleCommandQueues(cq)
          /\ Behind(P, x, PendingLists(cq, issued))
          /\ \A q \in Queues : /\ x[q] # <<>> => Len(x[q]) <= 3 /\ commandQueues[q] = <<>>
                               /\ \A k \in DOMAIN x[q] : x[q][k].type # "REFRESH"
          /\ \/ /\ \A q \in Queues : x[q] = <<>>
                /\ UNCHANGED <<effectiveRow, activateQueued, wake>>
             \/ \E t \in Transactions : \E rest : Schedulable(t) /\ RecordRows(t, rest)
  BY CycleQueues
<1> DEFINE Q == PendingLists(cq, issued)
<1>2. PICK x \in CommandLists :
          /\ Behind(P, x, Q)
          /\ \A q \in Queues : /\ x[q] # <<>> => Len(x[q]) <= 3 /\ commandQueues[q] = <<>>
                               /\ \A k \in DOMAIN x[q] : x[q][k].type # "REFRESH"
          /\ \/ /\ \A q \in Queues : x[q] = <<>>
                /\ UNCHANGED <<effectiveRow, activateQueued, wake>>
             \/ \E t \in Transactions : \E rest : Schedulable(t) /\ RecordRows(t, rest)
  BY <1>1
<1>3. /\ TypeOK /\ IssuedHeads /\ cleanup # "due" /\ UNCHANGED <<refreshIn, handledRefresh>>
  BY DEF IndInv, Cycle, refreshVars
<1>4. P \in CommandLists /\ \A q \in issued : commandQueues[q] # <<>>
  BY OrderTypes
<1>5. Q \in CommandLists
  BY <1>1, PendingListsFacts
<1>6. \A bank \in Banks : busy[bank] \in Nat /\ busy[bank] <= M
  BY <1>3 DEF TypeOK, DeadlineInv, BusyNow
<1>7. \/ N = Q /\ UNCHANGED <<busy, lastIssueCycle>>
      \/ Issues(M, Q, N)
  BY <1>1, <1>3, <1>6, CycleCommandQueuesIssues DEF TimeToDrain
<1>8. AllShort(P, activateQueued)
  BY DEF DeadlineInv, OrderlyNow
<1>9. CASE RefreshWaits(P, 0)
  <2>1. Banks \subseteq refreshQueued
    BY <1>9, OneGroup DEF MarkedNow, Marked
  <2>2. \A t \in Transactions : ~Schedulable(t)
    BY <2>1 DEF Schedulable, Transactions
  <2>3. (\A q \in Queues : x[q] = <<>>) /\ UNCHANGED <<effectiveRow, activateQueued, wake>>
    BY <1>2, <2>2
  <2>4. Q = P
    <3>1. \A q \in Queues : P[q] \in Seq(Commands) /\ P[q] \o <<>> = P[q]
      BY <1>4 DEF CommandLists
    <3>2. \A q \in Queues : Q[q] = P[q]
      BY <1>2, <2>3, <3>1 DEF Behind
    <3> QED
      BY <3>2 DEF PendingLists
  <2>5. CASE N = Q /\ UNCHANGED <<busy, lastIssueCycle>>
    BY <1>3, <2>3, <2>4, <2>5, SameDeadline
  <2>6. CASE Issues(M, Q, N)
    <3>1. PICK T \in 0 .. M + 1 : Ready(busy, wake, last, T)
      BY <1>9 DEF DeadlineInv, EnoughNow, Enough
    <3>2. PICK n \in wake : n <= M + 1
      <4>1. wake \subseteq Nat
        BY <1>3 DEF TypeOK
      <4>2. PICK i \in wake : i <= T
        BY <3>1 DEF Ready
      <4>3. i \in Nat /\ i <= M + 1
        BY <4>1, <4>2
      <4> QED
        BY <4>3
    <3>3. n \in Nat /\ n \in wake'
      BY <1>3, <2>3 DEF TypeOK
    <3> QED
      BY <1>3, <2>3, <2>4, <2>6, <3>2, <3>3, IssuedDeadline
  <2> QED
    BY <1>7, <2>5, <2>6
<1>10. CASE ~RefreshWaits(P, 0)
  <2>1. ~RefreshWaits(x, 0)
    BY <1>2 DEF RefreshWaits, RefreshOf
  <2> HIDE DEF Q, N
  <2>2. ~RefreshWaits(Q, 0)
    <3> HIDE DEF P
    <3> QED
      BY <1>2, <1>4, <1>10, <2>1, GrownRefreshes
  <2>3. RefreshLast(Q)
    BY <1>5, <2>2, NoRefresh
  <2>4. AllShort(Q, activateQueued')
    <3>1. CASE (\A q \in Queues : x[q] = <<>>) /\ UNCHANGED <<effectiveRow, activateQueued, wake>>
      <4> HIDE DEF P
      <4>1. \A q \in Queues : P[q] \in Seq(Commands) /\ P[q] \o <<>> = P[q]
        BY <1>4 DEF CommandLists
      <4>2. \A q \in Queues : Q[q] = P[q]
        BY <1>2, <3>1, <4>1 DEF Behind
      <4> QED
        BY <1>8, <3>1, <4>2 DEF AllShort
    <3>2. CASE \E t \in Transactions : \E rest : Schedulable(t) /\ RecordRows(t, rest)
      <4>1. PICK t \in Transactions : \E rest : Schedulable(t) /\ RecordRows(t, rest)
        BY <3>2
      <4>2. PICK rest : Schedulable(t) /\ RecordRows(t, rest)
        BY <4>1
      <4>3. P = PendingLists(commandQueues, issued)
        OBVIOUS
      <4> HIDE DEF P
      <4>4. \A q \in Queues : x[q] # <<>> => Len(x[q]) <= 3 /\ commandQueues[q] = <<>>
        BY <1>2
      <4> QED
        BY <1>2, <1>3, <1>4, <1>8, <4>2, <4>3, <4>4, ScheduledShort
    <3> QED
      BY <1>2, <3>1, <3>2
  <2>5. /\ AllShort(N, activateQueued') /\ RefreshLast(N) /\ ~RefreshWaits(N, 0)
        /\ \A bank \in Banks : busy'[bank] <= M
    <3>1. CASE N = Q /\ UNCHANGED <<busy, lastIssueCycle>>
      BY <1>6, <2>2, <2>3, <2>4, <3>1
    <3>2. CASE Issues(M, Q, N)
      <4>1. PICK q \in Queues : Q[q] # <<>> /\ N[q] = Tail(Q[q]) /\ \A p \in Queues \ {q} : N[p] = Q[p]
        BY <3>2 DEF Issues
      <4>2. /\ \A active : AllShort(Q, active) => AllShort(N, active)
            /\ RefreshLast(N) /\ ~RefreshWaits(N, 0)
        BY <1>5, <2>2, <2>3, <4>1, IssueKeepsShort
      <4> QED
        BY <2>4, <3>2, <4>2 DEF Issues
    <3> QED
      BY <1>7, <3>1, <3>2
  <2> QED
    BY <2>5 DEF DeadlineInv, OrderlyNow, BusyNow, EnoughNow, RowsClosed, N
<1> QED
  BY <1>9, <1>10

\* The places of a list made of two.
LEMMA JoinedPlaces ==
    ASSUME NEW a \in Seq(Commands), NEW x \in Seq(Commands), NEW list, list = a \o x
    PROVE  /\ list \in Seq(Commands) /\ Len(list) = Len(a) + Len(x)
           /\ DOMAIN list = 1 .. Len(a) + Len(x)
           /\ \A k \in 1 .. Len(a) : list[k] = a[k]
           /\ \A k \in 1 .. Len(x) : list[Len(a) + k] = x[k]
<1> DEFINE n == Len(a)
           m == Len(x)
<1>1. n \in Nat /\ m \in Nat
  BY LenProperties
<1>2. list \in Seq(Commands) /\ Len(list) = n + m
  BY ConcatProperties
<1>3. DOMAIN list = 1 .. n + m
  BY <1>2, LenProperties
<1>4. \A k \in 1 .. n + m : /\ k <= n => list[k] = a[k]
                            /\ ~(k <= n) => list[k] = x[k - n]
  BY ConcatProperties
<1> HIDE DEF n, m
<1>5. \A k \in 1 .. n : k \in 1 .. n + m /\ k <= n
  BY <1>1
<1>7. \A k \in 1 .. n : list[k] = a[k]
  BY <1>4, <1>5, Zenon
<1>8. ASSUME NEW k \in 1 .. m PROVE list[n + k] = x[k]
  <2> DEFINE i == n + k
  <2>1. i \in 1 .. n + m /\ ~(i <= n) /\ i - n = k
    BY <1>1
  <2> HIDE DEF i
  <2>2. list[i] = x[i - n]
    BY <1>4, <2>1, Zenon
  <2> QED
    BY <2>1, <2>2, Zenon DEF i
<1> QED
  BY <1>2, <1>3, <1>7, <1>8 DEF n, m

\* A list of at most 3 + m commands and no REFRESH, and behind it n precharges and perhaps
\* a REFRESH.
Grown(list, a, la, x, lx, n, r, q, o) ==
    /\ Len(list) = la + lx /\ DOMAIN list = 1 .. la + lx
    /\ \A k \in 1 .. la : list[k] = a[k] /\ a[k].type # "REFRESH"
    /\ \A k \in 1 .. lx : list[la + k] = x[k]
    /\ \A k \in 1 .. n : x[k].type = "PRECHARGE_ALL"
    /\ q = o => lx = n + 1 /\ x[n + 1] = r
    /\ q # o => lx = n
LEMMA GrownList ==
    ASSUME NEW la \in Nat, NEW lx \in Nat, NEW a, NEW x, NEW list, NEW m \in Nat, NEW n \in Nat,
           NEW r, r.type = "REFRESH", NEW q, NEW o, la <= 3 + m,
           Grown(list, a, la, x, lx, n, r, q, o)
    PROVE  /\ \A k \in DOMAIN list : list[k].type = "REFRESH" => k = Len(list)
           /\ Short(list, m + n) /\ (q = o => HoldsRefresh(list))
<1>1. q = o => la + (n + 1) \in DOMAIN list /\ list[la + (n + 1)].type = "REFRESH"
  BY DEF Grown
<1>2. q = o => HoldsRefresh(list)
  BY <1>1 DEF HoldsRefresh
<1>3. Short(list, m + n)
  BY <1>2 DEF Short, Grown
<1>4. ASSUME NEW k \in DOMAIN list, list[k].type = "REFRESH" PROVE k = Len(list)
  <2>1. k \in Nat /\ k \notin 1 .. la /\ k - la \in 1 .. lx /\ la + (k - la) = k
    BY <1>4 DEF Grown
  <2>2. x[k - la].type = "REFRESH"
    BY <1>4, <2>1 DEF Grown
  <2>3. k - la \notin 1 .. n
    BY <2>2 DEF Grown
  <2> QED
    BY <2>1, <2>3 DEF Grown
<1> QED
  BY <1>2, <1>3, <1>4

\* HandleRefresh, with no REFRESH waiting: a queue grows by the precharges of the banks that
\* become inactive, and by the REFRESH.
LEMMA RefreshedShort ==
    ASSUME BanksPerRefresh = BANKS, activateQueued \in SUBSET Banks,
           NEW P \in CommandLists, ~RefreshWaits(P, 0), NEW q \in Queues, NEW list,
           list = P[q] \o RefreshTail(q, 0),
           activateQueued' = activateQueued \ Closed(0),
           Short(P[q], Cardinality(Inactive(activateQueued, q)))
    PROVE  /\ list \in Seq(Commands)
           /\ Short(list, Cardinality(Inactive(activateQueued', q)))
           /\ \A k \in DOMAIN list : list[k].type = "REFRESH" => k = Len(list)
           /\ q = QueueOf(GroupHead(0), 0) => list # <<>>
<1> DEFINE a == P[q]
           x == RefreshTail(q, 0)
           A == Inactive(activateQueued, q)
           B == ClosedIn(q, 0)
           C == Inactive(activateQueued', q)
           m == Cardinality(A)
           n == Cardinality(B)
           o == QueueOf(GroupHead(0), 0)
           r == Command("REFRESH", GroupHead(0), 0)
<1>1. Cardinality(C) = m + n /\ m \in Nat /\ n \in Nat
  <2>1. B \in SUBSET Banks /\ A \cap B = {} /\ C = A \cup B
    BY DEF Inactive, ClosedIn, Closed, GroupBanks
  <2>2. IsFiniteSet(A) /\ IsFiniteSet(B)
    <3>1. IsFiniteSet({bank \in Banks : QueueOf(bank, 0) = q})
      BY InactiveFacts
    <3>2. B \in SUBSET {bank \in Banks : QueueOf(bank, 0) = q}
      BY <2>1 DEF ClosedIn
    <3> HIDE DEF B
    <3> QED
      BY <3>1, <3>2, InactiveFacts, FS_Subset
  <2> HIDE DEF A, B, C
  <2>3. Cardinality(A \cup B) = Cardinality(A) + Cardinality(B) - 0
    BY <2>1, <2>2, FS_Union, FS_EmptySet
  <2> QED
    BY <2>1, <2>2, <2>3, FS_CardinalityType
<1>2. /\ x \in Seq(Commands)
      /\ \A k \in 1 .. n : x[k].type = "PRECHARGE_ALL"
      /\ q = o => Len(x) = n + 1 /\ x[n + 1] = r
      /\ q # o => Len(x) = n
  BY OneGroup, RefreshTailPlaces
<1>3. a \in Seq(Commands) /\ ~HoldsRefresh(a)
  BY NoRefresh DEF CommandLists
<1>4. r.type = "REFRESH"
  BY DEF Command
<1>5. Short(a, m) /\ list = a \o x
  OBVIOUS
<1> HIDE DEF a, x, A, B, C, m, n, o, r
<1>6. Len(a) \in Nat /\ Len(a) <= 3 + m
  BY <1>1, <1>3, <1>5, LenProperties DEF Short
<1>7. Len(x) \in Nat
  BY <1>2, LenProperties
<1>8. /\ list \in Seq(Commands) /\ Len(list) = Len(a) + Len(x)
      /\ DOMAIN list = 1 .. Len(a) + Len(x)
      /\ \A k \in 1 .. Len(a) : list[k] = a[k]
      /\ \A k \in 1 .. Len(x) : list[Len(a) + k] = x[k]
  <2>1. a \in Seq(Commands) /\ x \in Seq(Commands) /\ list = a \o x
    BY <1>2, <1>3, <1>5, Zenon
  <2> QED
    BY <2>1, JoinedPlaces, ZenonT(60)
<1>9. \A k \in 1 .. Len(a) : a[k].type # "REFRESH"
  BY <1>3, LenProperties DEF HoldsRefresh
<1>10. /\ \A k \in DOMAIN list : list[k].type = "REFRESH" => k = Len(list)
       /\ Short(list, m + n) /\ (q = o => HoldsRefresh(list))
  <2> DEFINE la == Len(a)
             lx == Len(x)
  <2>1. la \in Nat /\ lx \in Nat /\ m \in Nat /\ n \in Nat /\ la <= 3 + m
    BY <1>1, <1>6, <1>7, Zenon
  <2>2. Grown(list, a, la, x, lx, n, r, q, o)
    BY <1>2, <1>8, <1>9, Zenon DEF Grown
  <2> HIDE DEF la, lx
  <2> QED
    BY <1>4, <2>1, <2>2, GrownList
<1>11. HoldsRefresh(list) => list # <<>>
  BY DEF HoldsRefresh
<1> QED
  BY <1>1, <1>8, <1>10, <1>11 DEF C, o

\* A pulse comes when no REFRESH waits, and leaves the time to the next one for what it queues.
LEMMA RefreshDeadline ==
    ASSUME IndInv, RowInv, QueueModel # "PerSubArray", BanksPerRefresh = BANKS,
           NEW M \in Nat, NEW S \in Nat, TimeToDrain(M, S), DeadlineInv(M),
           NEW g \in Groups, RefreshCallback(g)
    PROVE  DeadlineInv(M)'
<1> DEFINE P == PendingLists(commandQueues, issued)
           N == PendingLists(commandQueues', issued')
           n == Cardinality(Places(N))
           after == {lastIssueCycle', handledRefresh'}
<1>1. g = 0 /\ 0 \in RefreshDue
  BY OneGroup DEF RefreshCallback
<1>2. /\ TypeOK /\ UNCHANGED <<issued, busy>> /\ refreshIn'[0] = TREFI
  BY <1>1 DEF IndInv, TypeOK, RefreshCallback, deviceVars
<1>3. ~RefreshWaits(P, 0)
  <2>1. RefreshesInTime
    BY EnoughInTime
  <2> QED
    BY <1>1, <2>1, MarkParts
<1>4. P \in CommandLists /\ \A q \in issued : commandQueues[q] # <<>>
  BY OrderTypes
<1>5. BusyNow(M)' /\ \A bank \in Banks : busy[bank] \in Nat /\ busy[bank] <= M
  BY <1>2 DEF DeadlineInv, BusyNow, TypeOK
<1>6. AllShort(P, activateQueued)
  BY DEF DeadlineInv, OrderlyNow
<1>7. CASE UNCHANGED <<commandQueues, effectiveRow, activateQueued>>
  <2>1. N = P
    BY <1>2, <1>7
  <2>2. OrderlyNow'
    BY <1>2, <1>7 DEF DeadlineInv, OrderlyNow
  <2>3. EnoughNow(M)'
    BY <1>3, <2>1 DEF EnoughNow
  <2> QED
    BY <1>5, <2>2, <2>3 DEF DeadlineInv
<1>8. CASE /\ commandQueues' = RefreshQueues(0)
           /\ effectiveRow' = [bank \in Banks |-> IF bank \in Closed(0)
                  THEN [sa \in SubArrays |-> NoRow] ELSE effectiveRow[bank]]
           /\ activateQueued' = activateQueued \ Closed(0)
           /\ ScheduleCommandWake(RefreshQueues(0))
  <2> DEFINE o == QueueOf(GroupHead(0), 0)
  <2>1. \A q \in Queues : N[q] = P[q] \o RefreshTail(q, 0)
    BY <1>1, <1>2, <1>8, RefreshPending
  <2>2. ASSUME NEW q \in Queues
        PROVE  /\ N[q] \in Seq(Commands)
               /\ Short(N[q], Cardinality(Inactive(activateQueued', q)))
               /\ \A k \in DOMAIN N[q] : N[q][k].type = "REFRESH" => k = Len(N[q])
               /\ q = o => N[q] # <<>>
    <3> DEFINE list == N[q]
    <3>1. list = P[q] \o RefreshTail(q, 0)
      BY <2>1
    <3>2. Short(P[q], Cardinality(Inactive(activateQueued, q)))
      BY <1>6 DEF AllShort
    <3>3. activateQueued \in SUBSET Banks
      BY <1>2 DEF TypeOK
    <3> HIDE DEF P, N, list
    <3>4. /\ list \in Seq(Commands)
          /\ Short(list, Cardinality(Inactive(activateQueued', q)))
          /\ \A k \in DOMAIN list : list[k].type = "REFRESH" => k = Len(list)
          /\ q = o => list # <<>>
      BY <1>3, <1>4, <1>8, <3>1, <3>2, <3>3, RefreshedShort
    <3> QED
      BY <3>4 DEF list
  <2>3. N \in CommandLists
    BY <2>2 DEF PendingLists, CommandLists
  <2>4. AllShort(N, activateQueued') /\ RefreshLast(N)
    BY <2>2 DEF AllShort, RefreshLast
  <2>5. ASSUME UsePrecharge, NEW bank \in Banks PROVE effectiveRow'[bank][0] = NoRow
    <3>1. CASE bank \in Closed(0)
      BY <1>8, <3>1, QueueFacts
    <3>2. CASE bank \notin Closed(0)
      <4>1. bank \notin activateQueued
        BY <2>5, <3>2, OneGroup DEF Closed
      <4>2. effectiveRow[bank][0] = NoRow
        BY <4>1, RowInvParts, QueueFacts DEF ActiveRight
      <4> QED
        BY <1>8, <3>2, <4>2
    <3> QED
      BY <3>1, <3>2
  <2>6. OrderlyNow'
    BY <2>4, <2>5 DEF OrderlyNow, RowsClosed
  <2>7. n \in Nat /\ n <= Cardinality(Queues) * (4 + S)
    <3> HIDE DEF N
    <3> QED
      BY <2>3, <2>4, FewPlaces DEF TimeToDrain
  <2>8. PICK w \in WakeTimes(RefreshQueues(0)) : wake' = wake \cup w
    BY <1>8 DEF ScheduleCommandWake
  <2>9. \E i \in w : i \in Nat /\ \E bank \in Banks : i <= 1 + busy[bank]
    <3>1. /\ RefreshQueues(0) \in CommandLists
          /\ \A q \in Queues : Len(commandQueues[q]) <= Len(RefreshQueues(0)[q])
      BY <1>1, <1>2, RefreshQueuesFacts
    <3>2. o \in Queues /\ N[o] # <<>>
      BY <2>2, OneGroup, GroupFacts, QueueFacts
    <3>3. RefreshQueues(0)[o] # <<>>
      <4>1. CASE o \in issued
        <5>1. commandQueues[o] # <<>> /\ commandQueues[o] \in Seq(Commands)
          BY <1>2, <1>4, <3>2, <4>1 DEF TypeOK
        <5>2. Len(commandQueues[o]) \in Nat /\ Len(commandQueues[o]) # 0
          BY <5>1, EmptySeq, LenProperties
        <5>3. Len(RefreshQueues(0)[o]) # 0
          <6>1. RefreshQueues(0)[o] \in Seq(Commands)
            BY <3>1, <3>2 DEF CommandLists
          <6>2. Len(RefreshQueues(0)[o]) \in Nat
            BY <6>1, LenProperties
          <6>3. Len(commandQueues[o]) <= Len(RefreshQueues(0)[o])
            BY <3>1, <3>2
          <6> QED
            BY <5>2, <6>2, <6>3
        <5> QED
          BY <5>3, EmptySeq
      <4>2. CASE o \notin issued
        BY <1>2, <1>8, <3>2, <4>2 DEF PendingLists
      <4> QED
        BY <4>1, <4>2
    <3> QED
      BY <1>2, <3>1, <3>2, <3>3, WakeSoon
  <2>10. PICK i \in w : i \in Nat /\ i <= M + 1
    <3>1. PICK i \in w : i \in Nat /\ \E bank \in Banks : i <= 1 + busy[bank]
      BY <2>9
    <3>2. i <= M + 1
      BY <1>5, <3>1
    <3> QED
      BY <3>1, <3>2
  <2>11. Ready(busy, wake', after, M + 1)
    <3>1. \A bank \in Banks : busy[bank] + 1 <= M + 1
      BY <1>5
    <3> QED
      BY <2>8, <2>10, <3>1 DEF Ready
  <2> HIDE DEF n
  <2>12. (M + 2) * n + (M + 1) <= TREFI
    <3> DEFINE u == (M + 2) * n
               v == (M + 2) * (Cardinality(Queues) * (4 + S))
    <3>1. Cardinality(Queues) * (4 + S) \in Nat
      BY QueuesFinite
    <3>2. u \in Nat /\ v \in Nat /\ u <= v
      <4>1. \A i1, j1, k1 \in Nat : j1 <= k1 => i1 * j1 \in Nat /\ i1 * k1 \in Nat /\ i1 * j1 <= i1 * k1
        OBVIOUS
      <4> QED
        BY <2>7, <3>1, <4>1
    <3>3. v + (M + 1) <= TREFI
      BY DEF TimeToDrain
    <3> HIDE DEF u, v
    <3>4. u + (M + 1) <= TREFI
      BY <3>2, <3>3, RefreshAssumption
    <3> QED
      BY <3>4 DEF u
  <2>13. Enough(M, N, TREFI, busy, wake', after)
    BY <2>11, <2>12 DEF Enough, n
  <2>14. EnoughNow(M)'
    BY <1>2, <2>13 DEF EnoughNow
  <2> QED
    BY <1>5, <2>6, <2>14 DEF DeadlineInv
<1> QED
  BY <1>1, <1>7, <1>8, RefreshServes

\* Every step.
LEMMA NextDeadline ==
    ASSUME IndInv, RowInv, OrderInv, MarkedNow, QueueModel # "PerSubArray",
           BanksPerRefresh = BANKS, NEW M \in Nat, NEW S \in Nat, TimeToDrain(M, S),
           DeadlineInv(M), [Next]_vars
    PROVE  DeadlineInv(M)'
<1>1. ASSUME UNCHANGED <<commandQueues, issued, activateQueued, effectiveRow, busy, refreshIn,
                         wake, lastIssueCycle, handledRefresh>>
      PROVE  DeadlineInv(M)'
  BY <1>1, SameDeadline
<1>2. ASSUME NEW t \in Transactions, Enqueue(t) PROVE DeadlineInv(M)'
  BY <1>1, <1>2 DEF Enqueue, queueVars, rowVars, refreshVars, deviceVars
<1>3. ASSUME NEW r \in Requests, RequestComplete(r) PROVE DeadlineInv(M)'
  BY <1>1, <1>3 DEF RequestComplete, queueVars, rowVars, refreshVars
<1>4. CASE CleanupCallback
  <2>1. /\ commandQueues' = PendingLists(commandQueues, issued) /\ issued' = {}
        /\ UNCHANGED <<activateQueued, effectiveRow, busy, refreshIn, wake, lastIssueCycle,
                       handledRefresh>>
    BY <1>4 DEF CleanupCallback, PendingLists, rowVars, refreshVars, deviceVars
  <2>2. PendingLists(commandQueues', issued') = PendingLists(commandQueues, issued)
    BY <2>1 DEF PendingLists
  <2> QED
    BY <2>1, <2>2, SameDeadline
<1>5. ASSUME NEW g \in Groups, RefreshCallback(g) PROVE DeadlineInv(M)'
  BY <1>5, RefreshDeadline
<1>6. CASE Cycle
  BY <1>6, CycleDeadline
<1>7. CASE CommandQueueCallback
  BY <1>7, CommandQueueCallbackDeadline
<1>8. CASE Tick
  BY <1>8, TickDeadline
<1>9. CASE UNCHANGED vars
  BY <1>1, <1>9 DEF vars, queueVars, rowVars, refreshVars, deviceVars
<1> QED
  BY <1>2, <1>3, <1>4, <1>5, <1>6, <1>7, <1>8, <1>9 DEF Next, EventStep

\* Nothing is queued at first.
LEMMA InitDeadline ==
    ASSUME NEW M \in Nat, Init
    PROVE  DeadlineInv(M)
<1> DEFINE P == PendingLists(commandQueues, issued)
<1>1. \A q \in Queues : P[q] = <<>> /\ DOMAIN P[q] = {}
  BY DEF Init, PendingLists
<1>2. \A bank \in Banks : busy[bank] = 0
  BY DEF Init
<1> HIDE DEF P
<1>3. ~RefreshWaits(P, 0) /\ RefreshLast(P)
  BY <1>1 DEF RefreshWaits, RefreshLast
<1>4. AllShort(P, activateQueued)
  <2> SUFFICES ASSUME NEW q \in Queues PROVE Short(P[q], Cardinality(Inactive(activateQueued, q)))
    BY DEF AllShort
  <2>1. P[q] = <<>> /\ Cardinality(Inactive(activateQueued, q)) \in Nat
    BY <1>1, InactiveFacts
  <2>2. \A n \in Nat : Short(<<>>, n)
    BY DEF Short
  <2> QED
    BY <2>1, <2>2
<1> QED
  BY <1>2, <1>3, <1>4 DEF DeadlineInv, OrderlyNow, BusyNow, EnoughNow, RowsClosed, P

\* No refresh is overtaken by the next pulse, where one group holds all banks, its rows share a
\* queue per rank or per bank, and the time between two pulses is enough to drain the queues.
\* Nothing in the code waits for a REFRESH to be issued.
THEOREM RefreshesAlwaysInTime ==
    ASSUME QueueModel # "PerSubArray", BanksPerRefresh = BANKS,
           NEW M \in Nat, NEW S \in Nat, TimeToDrain(M, S)
    PROVE  Spec => []RefreshesInTime
<1>1. PrechargesReach
  BY PolicyAssumption, PrechargesReachFacts
<1>2. Init => MarkedNow /\ DeadlineInv(M)
  BY InitMarks, InitDeadline
<1>3. IndInv /\ DeadlineInv(M) => RefreshesInTime
  BY EnoughInTime
<1>4. /\ IndInv /\ RowInv /\ OrderInv /\ MarkedNow /\ DeadlineInv(M) /\ [Next]_vars
      => MarkedNow' /\ DeadlineInv(M)'
  BY <1>3, NextMarks, NextDeadline DEF KeepsMarksNow
<1>5. Spec => [](IndInv /\ RowInv)
  BY <1>1, RowsConsistent
<1> QED
  BY <1>2, <1>3, <1>4, <1>5, OrderConsistent, PTL DEF Spec

\* So the marks are right: a bank is marked exactly as long as the one REFRESH of its group
\* is queued, as the assertion in ResetRefreshQueued expects.
THEOREM RefreshesAlwaysMarked ==
    ASSUME QueueModel # "PerSubArray", BanksPerRefresh = BANKS,
           NEW M \in Nat, NEW S \in Nat, TimeToDrain(M, S)
    PROVE  Spec => []RefreshMarked
  BY RefreshesAlwaysInTime, MarkedWhenInTime, PTL
=============================================================================
