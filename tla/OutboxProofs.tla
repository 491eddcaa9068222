---------------------------- MODULE OutboxProofs ----------------------------
(***************************************************************************)
(* Proofs about Outbox, for every number of rows and faults and every      *)
(* batch size.  With any number of workers: the types, and that a row      *)
(* marked published was handed to a channel.  With one worker: how often   *)
(* a row is handed over, and that rows committed one after the other are   *)
(* first handed over in that order.                                        *)
(***************************************************************************)
EXTENDS Outbox, FiniteSetTheorems, SequenceTheorems, TLAPS

WasSent(id) == \E n \in 1 .. Len(sent) : sent[n] = id

-----------------------------------------------------------------------------
(* The invariants                                                          *)

\* Ids the sequence has not given out are absent; a row marked published was handed over.
RowOK(id) ==
    /\ id >= nextId => row[id].state = "absent"
    /\ row[id].state = "published" => WasSent(id)

\* A worker holds committed rows only, and what it will mark it has handed over.
WorkerOK(w) ==
    /\ \A i \in 1 .. Len(batch[w]) : Committed(batch[w][i])
    /\ \A id \in published[w] : Committed(id) /\ WasSent(id)

\* The inductive invariant, whatever the number of workers.
OInv ==
    /\ TypeOK
    /\ \A id \in Ids : RowOK(id)
    /\ \A w \in Workers : WorkerOK(w)
    /\ \A n \in 1 .. Len(sent) : Committed(sent[n])

\* One replica runs the publisher.
OneWorker == \A v, w \in Workers : v = w

\* What the only worker holds is unpublished, each row once, and it has handed over the
\* rows it holds at most once for each fault.
HoldsOK(w) ==
    /\ pc[w] = "idle" => batch[w] = <<>> /\ published[w] = {}
    /\ \A i \in 1 .. Len(batch[w]) :
          row[batch[w][i]].state = "unpublished" /\ batch[w][i] \notin published[w]
    /\ \A i, j \in 1 .. Len(batch[w]) : batch[w][i] = batch[w][j] => i = j
    /\ \A id \in Ids :
          row[id].state = "unpublished" /\ id \notin published[w] => SendsOf(id) <= faults

\* The inductive invariant of one worker.
OneInv ==
    /\ OneWorker
    /\ \A w \in Workers : HoldsOK(w)
    /\ RepeatsNeedFaults

\* id was committed when later was inserted.
Before(id, later) == id \in row[later].past

\* Such a row has the smaller id, and it is still there.
CommittedInTurn == \A id, later \in Ids : Before(id, later) => id < later /\ Committed(id)

\* Every earlier event of an event in the batch was handed over or is in front of it.
BatchOrder(w) ==
    \A j \in 1 .. Len(batch[w]), id \in Ids :
        Before(id, batch[w][j]) => WasSent(id) \/ \E i \in 1 .. j - 1 : batch[w][i] = id

\* id was handed over before later was.
FirstBefore(id, later) ==
    \E n \in 1 .. Len(sent) : sent[n] = id /\ \A m \in 1 .. n : sent[m] # later

\* The inductive invariant of the order.
OrderInv ==
    /\ CommittedInTurn
    /\ \A w \in Workers : BatchOrder(w)
    /\ \A id, later \in Ids : Before(id, later) /\ WasSent(later) => FirstBefore(id, later)

-----------------------------------------------------------------------------
(* ORDER BY                                                                *)

\* A nonempty set of naturals has a least element: the form of induction used below.
LEMMA LeastElement ==
    ASSUME NEW T \in SUBSET Nat, T # {}
    PROVE  \E x \in T : \A y \in T : x <= y
<1>1. IsWellFoundedOn(OpToRel(<, Nat), Nat)
  BY NatLessThanWellFounded
<1>2. PICK x \in T : \A y \in T : ~(<<y, x>> \in OpToRel(<, Nat))
  BY <1>1, WFMin
<1>3. \A y \in T : ~(y < x)
  BY <1>2 DEF OpToRel
<1> QED BY <1>3

\* A nonempty set of ids has a greatest element.
LEMMA GreatestId ==
    ASSUME NEW S \in SUBSET Ids, S # {}
    PROVE  \E x \in S : \A y \in S : y <= x
<1> DEFINE U == {u \in Nat : \A y \in S : y <= u}
<1>1. MaxRows \in U
  BY OutboxAssumption DEF Ids
<1> HIDE DEF U
<1>2. PICK u \in U : \A v \in U : u <= v
  BY <1>1, LeastElement DEF U
<1>3. PICK z \in S : TRUE
  OBVIOUS
<1>4. u \in Nat /\ \A y \in S : y \in Nat \ {0} /\ y <= u
  BY OutboxAssumption DEF U, Ids
<1>5. CASE u \notin S
  <2>1. \A y \in S : y <= u - 1
    BY <1>4, <1>5
  <2>2. u - 1 \in U
    BY <1>3, <1>4, <2>1 DEF U
  <2> QED BY <1>2, <1>4, <2>2
<1> QED BY <1>4, <1>5

Sorted(s) == \A i, j \in DOMAIN s : i < j => s[i] < s[j]

\* The ids of rows are finitely many.
LEMMA FiniteIds ==
    ASSUME NEW S \in SUBSET Ids
    PROVE  IsFiniteSet(S) /\ Cardinality(S) \in Nat
<1>1. IsFiniteSet(Ids)
  BY FS_Interval, OutboxAssumption DEF Ids
<1> QED BY <1>1, FS_Subset, FS_CardinalityType

\* Every set of ids can be sorted: the greatest id goes behind the sorted rest.
LEMMA SortedExists ==
    ASSUME NEW S \in SUBSET Ids
    PROVE  \E s \in [1 .. Cardinality(S) -> S] : Sorted(s)
<1> DEFINE Bad == {n \in Nat : \E T \in SUBSET Ids :
                      /\ Cardinality(T) = n
                      /\ ~\E s \in [1 .. n -> T] : Sorted(s)}
<1>1. Bad = {}
  <2> SUFFICES ASSUME Bad # {} PROVE FALSE
    OBVIOUS
  <2>1. PICK n \in Bad : \A m \in Bad : n <= m
    BY LeastElement
  <2>2. PICK T \in SUBSET Ids : Cardinality(T) = n /\ ~\E s \in [1 .. n -> T] : Sorted(s)
    OBVIOUS
  <2>3. n \in Nat
    OBVIOUS
  <2>4. CASE n = 0
    <3>1. [i \in 1 .. 0 |-> 0] \in [1 .. 0 -> T] /\ Sorted([i \in 1 .. 0 |-> 0])
      BY DEF Sorted
    <3> QED BY <2>2, <2>4, <3>1
  <2>5. CASE n # 0
    <3>1. T # {}
      BY <2>2, <2>5, FS_EmptySet
    <3>2. PICK x \in T : \A y \in T : y <= x
      BY <3>1, GreatestId
    <3>3. Cardinality(T \ {x}) = n - 1 /\ n - 1 \in Nat
      BY <2>2, <2>3, <2>5, FiniteIds, FS_RemoveElement
    <3>4. PICK t \in [1 .. n - 1 -> T \ {x}] : Sorted(t)
      <4>1. n - 1 \notin Bad
        BY <2>1, <2>3, <3>3
      <4>2. T \ {x} \in SUBSET Ids
        OBVIOUS
      <4>3. \E t \in [1 .. n - 1 -> T \ {x}] : Sorted(t)
        BY <3>3, <4>1, <4>2, Zenon
      <4> QED BY <4>3
    <3> DEFINE s == [i \in 1 .. n |-> IF i = n THEN x ELSE t[i]]
    <3>5. s \in [1 .. n -> T]
      BY <2>3
    <3>6. Sorted(s)
      <4> SUFFICES ASSUME NEW i \in 1 .. n, NEW j \in 1 .. n, i < j PROVE s[i] < s[j]
        BY DEF Sorted
      <4>1. i \in 1 .. n - 1 /\ s[i] = t[i]
        BY <2>3
      <4>2. t[i] \in T /\ t[i] # x
        BY <4>1
      <4>3. T \subseteq Int
        BY OutboxAssumption DEF Ids
      <4>4. CASE j = n
        <5>1. s[j] = x
          BY <2>3, <4>4
        <5>2. t[i] <= x /\ t[i] \in Int /\ x \in Int
          BY <3>2, <4>2, <4>3
        <5> HIDE DEF s
        <5> QED BY <4>1, <4>2, <5>1, <5>2
      <4>5. CASE j # n
        BY <2>3, <3>4, <4>1, <4>5 DEF Sorted
      <4> QED BY <4>4, <4>5
    <3> QED BY <2>2, <3>5, <3>6
  <2> QED BY <2>3, <2>4, <2>5
<1>2. Cardinality(S) \in Nat
  BY FiniteIds
<1> QED BY <1>1, <1>2

\* ORDER BY id returns every row once, in ascending order of id.
LEMMA InOrderSorts ==
    ASSUME NEW S \in SUBSET Ids
    PROVE  /\ InOrder(S) \in Seq(S) /\ Len(InOrder(S)) = Cardinality(S)
           /\ \A i, j \in 1 .. Len(InOrder(S)) : i < j => InOrder(S)[i] < InOrder(S)[j]
           /\ \A x \in S : \E i \in 1 .. Len(InOrder(S)) : InOrder(S)[i] = x
<1> DEFINE c == Cardinality(S)
           s == InOrder(S)
<1>1. c \in Nat /\ IsFiniteSet(S)
  BY FiniteIds
<1>2. s \in [1 .. c -> S] /\ \A i, j \in 1 .. c : i < j => s[i] < s[j]
  <2>1. \E f \in [1 .. c -> S] : \A i, j \in DOMAIN f : i < j => f[i] < f[j]
    BY SortedExists DEF Sorted
  <2>2. s \in [1 .. c -> S] /\ \A i, j \in DOMAIN s : i < j => s[i] < s[j]
    BY <2>1 DEF InOrder
  <2> QED BY <2>2
<1> HIDE DEF s, c
<1>3. s \in Seq(S) /\ Len(s) = c
  BY <1>1, <1>2
<1>4. s \in Injection(1 .. c, S)
  <2>1. S \subseteq Int
    BY OutboxAssumption DEF Ids
  <2>2. \A i, j \in 1 .. c : s[i] = s[j] => i = j
    <3> SUFFICES ASSUME NEW i \in 1 .. c, NEW j \in 1 .. c, s[i] = s[j], i # j PROVE FALSE
      OBVIOUS
    <3>1. s[i] \in Int /\ s[j] \in Int
      BY <1>2, <2>1
    <3>2. i < j \/ j < i
      BY <1>1
    <3> QED BY <1>2, <3>1, <3>2
  <2> QED BY <1>2, <2>2 DEF Injection, IsInjective
<1>5. IsFiniteSet(1 .. c) /\ Cardinality(1 .. c) = c
  BY <1>1, FS_Interval
<1>6. s \in Surjection(1 .. c, S)
  BY <1>1, <1>4, <1>5, FS_Injection DEF c
<1>7. \A x \in S : \E i \in 1 .. c : s[i] = x
  BY <1>6 DEF Surjection
<1> QED BY <1>2, <1>3, <1>7 DEF s, c

\* FetchUnpublished takes the first rows it may take: every one smaller than one it takes
\* comes in front of it.
LEMMA Fetched ==
    ASSUME TypeOK, NEW w \in Workers, FetchUnpublished(w)
    PROVE  /\ batch' \in [Workers -> Seq(Ids)] /\ Len(batch'[w]) <= BatchSize
           /\ \A v \in Workers \ {w} : batch'[v] = batch[v]
           /\ \A i \in 1 .. Len(batch'[w]) : batch'[w][i] \in Fetchable(w)
           /\ \A i, j \in 1 .. Len(batch'[w]) : batch'[w][i] = batch'[w][j] => i = j
           /\ \A j \in 1 .. Len(batch'[w]), x \in Fetchable(w) :
                 x < batch'[w][j] => \E i \in 1 .. j - 1 : batch'[w][i] = x
<1> DEFINE F == Fetchable(w)
           found == InOrder(F)
           k == IF Len(found) < BatchSize THEN Len(found) ELSE BatchSize
           b == SubSeq(found, 1, k)
<1>1. F \in SUBSET Ids /\ F \subseteq Int
  BY OutboxAssumption DEF Fetchable, Ids
<1>2. batch' = [batch EXCEPT ![w] = b]
  BY DEF FetchUnpublished, WithLimit
<1>3. /\ found \in Seq(F)
      /\ \A i, j \in 1 .. Len(found) : i < j => found[i] < found[j]
      /\ \A x \in F : \E i \in 1 .. Len(found) : found[i] = x
  BY <1>1, InOrderSorts
<1> HIDE DEF F, found, b
<1>4. k \in Nat /\ k <= Len(found) /\ k <= BatchSize /\ Len(found) \in Nat
  BY <1>3, OutboxAssumption
<1> HIDE DEF k
<1>5. \A i \in 1 .. Len(found) : found[i] \in F
  BY <1>3, ElementOfSeq
<1>6. \A i \in 1 .. k : i \in 1 .. Len(found) /\ found[i] \in F
  BY <1>4, <1>5
<1>7. b \in Seq(F) /\ Len(b) = k /\ \A i \in 1 .. k : b[i] = found[i]
  <2>1. /\ SubSeq(found, 1, k) \in Seq(F)
        /\ Len(SubSeq(found, 1, k)) = IF 1 <= k THEN k - 1 + 1 ELSE 0
        /\ \A i \in 1 .. k - 1 + 1 : SubSeq(found, 1, k)[i] = found[1 + i - 1]
    BY <1>4, <1>6, SubSeqProperties
  <2>2. k - 1 + 1 = k /\ \A i \in 1 .. k : 1 + i - 1 = i
    BY <1>4
  <2> QED BY <1>4, <2>1, <2>2 DEF b
<1>8. b \in Seq(Ids)
  BY <1>1, <1>7, SeqMonotonic
<1>9. batch'[w] = b /\ batch' \in [Workers -> Seq(Ids)] /\ \A v \in Workers \ {w} : batch'[v] = batch[v]
  BY <1>2, <1>8 DEF TypeOK
<1>10. \A i \in 1 .. k : b[i] \in F
  BY <1>6, <1>7
<1>11. \A i, j \in 1 .. k : b[i] = b[j] => i = j
  <2> SUFFICES ASSUME NEW i \in 1 .. k, NEW j \in 1 .. k, b[i] = b[j], i # j PROVE FALSE
    OBVIOUS
  <2>1. found[i] \in Int /\ found[j] = found[i]
    BY <1>1, <1>6, <1>7
  <2>2. i < j \/ j < i
    BY <1>4
  <2>3. found[i] < found[j] \/ found[j] < found[i]
    BY <1>3, <1>6, <2>2
  <2> QED BY <2>1, <2>3
<1>12. \A j \in 1 .. k, x \in F : x < b[j] => \E i \in 1 .. j - 1 : b[i] = x
  <2> SUFFICES ASSUME NEW j \in 1 .. k, NEW x \in F, x < b[j] PROVE \E i \in 1 .. j - 1 : b[i] = x
    OBVIOUS
  <2>1. PICK l \in 1 .. Len(found) : found[l] = x
    BY <1>3
  <2>2. b[j] = found[j] /\ found[j] \in Int /\ x \in Int /\ j \in 1 .. Len(found)
    BY <1>1, <1>6, <1>7
  <2>3. ~(j < l) /\ j # l
    BY <1>3, <2>1, <2>2
  <2>4. l \in 1 .. j - 1 /\ l \in 1 .. k
    BY <1>4, <2>3
  <2> QED BY <1>7, <2>1, <2>4
<1>13. Len(b) = k /\ batch'[w] = b /\ F = Fetchable(w)
  BY <1>7, <1>9 DEF F
<1>14. \A i \in 1 .. Len(batch'[w]) : batch'[w][i] \in Fetchable(w)
  BY <1>10, <1>13, Zenon
<1>15. \A i, j \in 1 .. Len(batch'[w]) : batch'[w][i] = batch'[w][j] => i = j
  BY <1>11, <1>13, Zenon
<1>16. \A j \in 1 .. Len(batch'[w]), x \in Fetchable(w) :
          x < batch'[w][j] => \E i \in 1 .. j - 1 : batch'[w][i] = x
  BY <1>12, <1>13, Zenon
<1>17. Len(batch'[w]) <= BatchSize
  BY <1>4, <1>13
<1> QED BY <1>9, <1>14, <1>15, <1>16, <1>17, Zenon

-----------------------------------------------------------------------------
(* Counting the hand-overs                                                 *)

\* A row was handed over when its count is positive.
LEMMA SendsCount ==
    ASSUME sent \in Seq(Ids), NEW id
    PROVE  SendsOf(id) \in Nat /\ (SendsOf(id) > 0 <=> WasSent(id))
<1> DEFINE N == {n \in 1 .. Len(sent) : sent[n] = id}
<1>1. IsFiniteSet(1 .. Len(sent))
  BY FS_Interval
<1>2. IsFiniteSet(N)
  BY <1>1, FS_Subset
<1>3. Cardinality(N) \in Nat /\ (Cardinality(N) = 0 <=> N = {})
  BY <1>2, FS_CardinalityType, FS_EmptySet
<1> QED BY <1>3 DEF SendsOf, WasSent

\* A hand-over counts for its row and for no other, and is remembered.
LEMMA SendsAppend ==
    ASSUME sent \in Seq(Ids), NEW x \in Ids, sent' = Append(sent, x), NEW id
    PROVE  /\ SendsOf(id)' = IF id = x THEN SendsOf(id) + 1 ELSE SendsOf(id)
           /\ WasSent(id)' <=> WasSent(id) \/ id = x
<1> DEFINE L == Len(sent)
           N == {n \in 1 .. L : sent[n] = id}
           M == {n \in 1 .. Len(sent') : sent'[n] = id}
<1>1. /\ L \in Nat /\ Len(sent') = L + 1
      /\ \A n \in 1 .. L : sent'[n] = sent[n]
      /\ sent'[L + 1] = x
  OBVIOUS
<1>2. IsFiniteSet(1 .. L)
  BY FS_Interval
<1>3. IsFiniteSet(N)
  BY <1>2, FS_Subset
<1>4. L + 1 \notin N
  BY <1>1
<1>5. M = IF id = x THEN N \cup {L + 1} ELSE N
  <2>1. CASE id = x
    <3>1. \A n : n \in M <=> n \in N \cup {L + 1}
      BY <1>1, <2>1
    <3> QED BY <2>1, <3>1
  <2>2. CASE id # x
    <3>1. \A n : n \in M <=> n \in N
      BY <1>1, <2>2
    <3> QED BY <2>2, <3>1
  <2> QED BY <2>1, <2>2
<1>6. Cardinality(N \cup {L + 1}) = Cardinality(N) + 1
  BY <1>3, <1>4, FS_AddElement
<1>7. Cardinality(M) = IF id = x THEN Cardinality(N) + 1 ELSE Cardinality(N)
  BY <1>5, <1>6
<1>8. WasSent(id)' <=> WasSent(id) \/ id = x
  BY <1>1 DEF WasSent
<1> QED BY <1>7, <1>8 DEF SendsOf

-----------------------------------------------------------------------------
(* Types                                                                   *)

\* Every step keeps the types.
LEMMA TypeStep == TypeOK /\ [Next]_vars => TypeOK'
<1> SUFFICES ASSUME TypeOK, [Next]_vars PROVE TypeOK'
  OBVIOUS
<1> USE OutboxAssumption DEF rows, worker, amqp
<1>1. ASSUME InsertEvent PROVE TypeOK'
  <2>1. nextId \in Ids /\ nextId + 1 \in 1 .. MaxRows + 1
    BY <1>1 DEF InsertEvent, TypeOK, Ids
  <2>2. row' \in [Ids -> [past : SUBSET Ids,
                          state : {"absent", "uncommitted", "unpublished", "published"}]]
    BY <1>1, <2>1 DEF InsertEvent, TypeOK
  <2> QED BY <1>1, <2>1, <2>2 DEF InsertEvent, TypeOK
<1>2. ASSUME NEW id \in Ids, CommitEvent(id) PROVE TypeOK'
  BY <1>2 DEF CommitEvent, TypeOK
<1>3. ASSUME NEW id \in Ids, RollbackEvent(id) PROVE TypeOK'
  BY <1>3 DEF RollbackEvent, NoRow, TypeOK
<1>4. ASSUME NEW w \in Workers, FetchUnpublished(w) PROVE TypeOK'
  <2>1. batch' \in [Workers -> Seq(Ids)] /\ \A v \in Workers : Len(batch'[v]) <= BatchSize
    <3>1. /\ batch' \in [Workers -> Seq(Ids)] /\ Len(batch'[w]) <= BatchSize
          /\ \A v \in Workers \ {w} : batch'[v] = batch[v]
      BY <1>4, Fetched
    <3> QED BY <3>1 DEF TypeOK
  <2> QED BY <1>4, <2>1 DEF FetchUnpublished, TypeOK
<1>5. ASSUME NEW w \in Workers, FetchReturns(w) PROVE TypeOK'
  BY <1>5 DEF FetchReturns, TypeOK
<1>6. ASSUME NEW w \in Workers, Publish(w) PROVE TypeOK'
  <2>1. /\ batch[w] \in Seq(Ids) /\ batch[w] # <<>> /\ wire[w] \in Seq(Ids)
        /\ sent \in Seq(Ids) /\ published[w] \subseteq Ids
    BY <1>6 DEF Publish, TypeOK
  <2>2. Head(batch[w]) \in Ids /\ Tail(batch[w]) \in Seq(Ids)
    BY <2>1, HeadTailProperties
  <2>3. Append(wire[w], Head(batch[w])) \in Seq(Ids) /\ Append(sent, Head(batch[w])) \in Seq(Ids)
    BY <2>1, <2>2
  <2> QED BY <1>6, <2>1, <2>2, <2>3 DEF Publish, TypeOK
<1>7. ASSUME NEW w \in Workers, PublishFails(w) PROVE TypeOK'
  <2>1. <<>> \in Seq(Ids)
    OBVIOUS
  <2> QED BY <1>7, <2>1 DEF PublishFails, TypeOK
<1>8. ASSUME NEW w \in Workers, MarkPublished(w) PROVE TypeOK'
  <2>1. row' \in [Ids -> [past : SUBSET Ids,
                          state : {"absent", "uncommitted", "unpublished", "published"}]]
    BY <1>8 DEF MarkPublished, TypeOK
  <2> QED BY <1>8, <2>1 DEF MarkPublished, TypeOK
<1>9. ASSUME NEW w \in Workers, MarkFails(w) PROVE TypeOK'
  <2>1. faults' \in 0 .. MaxFaults
    BY <1>9 DEF MarkFails, TypeOK
  <2>2. published' \in [Workers -> SUBSET Ids] /\ pc' \in [Workers -> {"idle", "fetching", "publishing"}]
    BY <1>9 DEF MarkFails, TypeOK
  <2> QED BY <1>9, <2>1, <2>2 DEF MarkFails, TypeOK
<1>10. ASSUME NEW w \in Workers, BrokerReceives(w) PROVE TypeOK'
  <2>1. wire[w] \in Seq(Ids) /\ wire[w] # <<>>
    BY <1>10 DEF BrokerReceives, TypeOK
  <2>2. Head(wire[w]) \in Ids /\ Tail(wire[w]) \in Seq(Ids)
    BY <2>1, HeadTailProperties
  <2> QED BY <1>10, <2>2 DEF BrokerReceives, TypeOK
<1>11. ASSUME NEW w \in Workers, DropConnection(w) PROVE TypeOK'
  <2>1. <<>> \in Seq(Ids)
    OBVIOUS
  <2> QED BY <1>11, <2>1 DEF DropConnection, TypeOK
<1>12. ASSUME NEW w \in Workers, CrashAndRestart(w) PROVE TypeOK'
  <2>1. <<>> \in Seq(Ids)
    OBVIOUS
  <2> QED BY <1>12, <2>1 DEF CrashAndRestart, TypeOK
<1>13. CASE UNCHANGED vars
  BY <1>13 DEF vars, TypeOK
<1> QED BY <1>1, <1>2, <1>3, <1>4, <1>5, <1>6, <1>7, <1>8, <1>9, <1>10, <1>11, <1>12, <1>13, Zenon
        DEF Next, Tick

-----------------------------------------------------------------------------
(* What is marked was handed over                                          *)

\* The worker starts with nothing and the table is empty.
LEMMA OInit == Init => OInv
<1> SUFFICES ASSUME Init PROVE OInv
  OBVIOUS
<1> USE OutboxAssumption
<1>1. TypeOK
  <2>1. <<>> \in Seq(Ids)
    OBVIOUS
  <2>2. /\ row \in [Ids -> [past : SUBSET Ids,
                            state : {"absent", "uncommitted", "unpublished", "published"}]]
        /\ nextId \in 1 .. MaxRows + 1
    BY DEF Init, NoRow
  <2>3. /\ pc \in [Workers -> {"idle", "fetching", "publishing"}]
        /\ batch \in [Workers -> Seq(Ids)] /\ published \in [Workers -> SUBSET Ids]
        /\ up \in [Workers -> BOOLEAN] /\ wire \in [Workers -> Seq(Ids)]
        /\ broker \subseteq Ids /\ sent \in Seq(Ids)
    BY <2>1 DEF Init
  <2>4. faults \in 0 .. MaxFaults /\ drops \in 0 .. MaxDrops
    BY DEF Init
  <2>5. \A w \in Workers : Len(batch[w]) <= BatchSize
    BY DEF Init
  <2> QED BY <2>2, <2>3, <2>4, <2>5 DEF TypeOK
<1>2. \A id \in Ids : RowOK(id)
  BY DEF Init, RowOK, NoRow
<1>3. \A w \in Workers : WorkerOK(w)
  BY DEF Init, WorkerOK
<1>4. \A n \in 1 .. Len(sent) : Committed(sent[n])
  BY DEF Init
<1> QED BY <1>1, <1>2, <1>3, <1>4 DEF OInv

\* What is committed stays so and what was handed over stays so, in every step.
LEMMA NeverUndone ==
    ASSUME OInv, [Next]_vars, NEW id \in Ids
    PROVE  /\ Committed(id) => Committed(id)'
           /\ WasSent(id) => WasSent(id)'
<1> USE DEF rows, worker, amqp
<1>1. ASSUME InsertEvent
      PROVE  (Committed(id) => Committed(id)') /\ sent' = sent
  BY <1>1 DEF InsertEvent, Committed, OInv, RowOK, TypeOK, Ids
<1>2. ASSUME NEW x \in Ids, CommitEvent(x) \/ RollbackEvent(x)
      PROVE  (Committed(id) => Committed(id)') /\ sent' = sent
  BY <1>2 DEF CommitEvent, RollbackEvent, Committed, OInv, TypeOK
<1>3. ASSUME NEW w \in Workers, MarkPublished(w)
      PROVE  (Committed(id) => Committed(id)') /\ sent' = sent
  BY <1>3 DEF MarkPublished, Committed, OInv, TypeOK
<1>4. ASSUME NEW w \in Workers, Publish(w)
      PROVE  row' = row /\ (WasSent(id) => WasSent(id)')
  <2>1. sent \in Seq(Ids) /\ Head(batch[w]) \in Ids /\ sent' = Append(sent, Head(batch[w]))
    BY <1>4, HeadTailProperties DEF Publish, OInv, TypeOK
  <2> QED BY <1>4, <2>1, SendsAppend DEF Publish
<1>5. ASSUME NEW w \in Workers,
             \/ FetchUnpublished(w) \/ FetchReturns(w) \/ PublishFails(w) \/ MarkFails(w)
             \/ BrokerReceives(w) \/ DropConnection(w) \/ CrashAndRestart(w)
      PROVE  row' = row /\ sent' = sent
  BY <1>5 DEF FetchUnpublished, FetchReturns, PublishFails, MarkFails, BrokerReceives,
              DropConnection, CrashAndRestart
<1>6. CASE UNCHANGED vars
  BY <1>6 DEF vars, Committed, WasSent
<1>7. row' = row => (Committed(id) => Committed(id)')
  BY DEF Committed
<1>8. sent' = sent => (WasSent(id) => WasSent(id)')
  BY DEF WasSent
<1> QED BY <1>1, <1>2, <1>3, <1>4, <1>5, <1>6, <1>7, <1>8 DEF Next, Tick

\* Workers that do not move keep what is known about them.
LEMMA WorkersKeep ==
    ASSUME OInv, [Next]_vars, NEW W \in SUBSET Workers,
           \A w \in W : batch'[w] = batch[w] /\ published'[w] = published[w]
    PROVE  \A w \in W : WorkerOK(w)'
<1> SUFFICES ASSUME NEW w \in W PROVE WorkerOK(w)'
  OBVIOUS
<1>1. /\ WorkerOK(w) /\ batch[w] \in Seq(Ids) /\ published[w] \subseteq Ids
      /\ batch'[w] = batch[w] /\ published'[w] = published[w]
  BY DEF OInv, TypeOK
<1>2. \A i \in 1 .. Len(batch[w]) : batch[w][i] \in Ids
  BY <1>1, ElementOfSeq
<1>3. \A i \in 1 .. Len(batch'[w]) : row'[batch'[w][i]].state \in {"unpublished", "published"}
  <2> SUFFICES ASSUME NEW i \in 1 .. Len(batch[w])
               PROVE  row'[batch[w][i]].state \in {"unpublished", "published"}
    BY <1>1
  <2>1. PICK x \in Ids : x = batch[w][i] /\ Committed(x)
    BY <1>1, <1>2 DEF WorkerOK
  <2>2. Committed(x)'
    BY <2>1, NeverUndone
  <2> QED BY <2>1, <2>2 DEF Committed
<1>4. \A id \in published'[w] : Committed(id)' /\ WasSent(id)'
  BY <1>1, NeverUndone DEF WorkerOK
<1> QED BY <1>3, <1>4 DEF WorkerOK, Committed

\* A step that changes no row and sends nothing keeps what is known about the rows.
LEMMA RowsKeep ==
    ASSUME OInv, UNCHANGED <<row, nextId, sent>>
    PROVE  /\ (\A id \in Ids : RowOK(id))'
           /\ (\A n \in 1 .. Len(sent) : Committed(sent[n]))'
BY DEF OInv, RowOK, WasSent, Committed

\* A step that only adds committed rows, of fresh ids, keeps what is known of all rows.
LEMMA SentKeep ==
    ASSUME OInv, [Next]_vars, sent' = sent
    PROVE  (\A n \in 1 .. Len(sent) : Committed(sent[n]))'
<1> SUFFICES ASSUME NEW n \in 1 .. Len(sent)
             PROVE  row'[sent[n]].state \in {"unpublished", "published"}
  BY DEF Committed
<1>1. sent[n] \in Ids
  BY ElementOfSeq DEF OInv, TypeOK
<1>2. PICK x \in Ids : x = sent[n] /\ Committed(x)
  BY <1>1 DEF OInv
<1>3. Committed(x)'
  BY <1>2, NeverUndone
<1> QED BY <1>2, <1>3 DEF Committed

\* Every step keeps the invariant.
LEMMA OStep == OInv /\ [Next]_vars => OInv'
<1> SUFFICES ASSUME OInv, [Next]_vars PROVE OInv'
  OBVIOUS
<1> USE DEF rows, worker, amqp
<1>0. TypeOK' /\ TypeOK
  BY TypeStep DEF OInv
<1>1. ASSUME InsertEvent PROVE OInv'
  <2>1. /\ nextId \in Ids /\ nextId' = nextId + 1 /\ sent' = sent
        /\ row'[nextId] = [past |-> {id \in Ids : Committed(id)}, state |-> "uncommitted"]
        /\ \A id \in Ids : id # nextId => row'[id] = row[id]
    BY <1>0, <1>1, OutboxAssumption DEF InsertEvent, TypeOK, Ids
  <2>2. (\A id \in Ids : RowOK(id))'
    <3> SUFFICES ASSUME NEW id \in Ids PROVE RowOK(id)'
      OBVIOUS
    <3>1. CASE id = nextId
      BY <2>1, <3>1, OutboxAssumption DEF RowOK, Ids
    <3>2. CASE id # nextId
      BY <2>1, <3>2 DEF OInv, RowOK, WasSent, Ids
    <3> QED BY <3>1, <3>2
  <2>3. \A w \in Workers : WorkerOK(w)'
    BY <1>1, WorkersKeep DEF InsertEvent
  <2> QED BY <1>0, <2>1, <2>2, <2>3, SentKeep DEF OInv
<1>2. ASSUME NEW x \in Ids, CommitEvent(x) \/ RollbackEvent(x) PROVE OInv'
  <2>1. /\ nextId' = nextId /\ sent' = sent /\ row[x].state = "uncommitted"
        /\ \A id \in Ids : id # x => row'[id] = row[id]
        /\ row'[x] \in {NoRow, [past |-> row[x].past, state |-> "unpublished"]}
    BY <1>0, <1>2 DEF CommitEvent, RollbackEvent, TypeOK
  <2>2. (\A id \in Ids : RowOK(id))'
    <3> SUFFICES ASSUME NEW id \in Ids PROVE RowOK(id)'
      OBVIOUS
    <3>1. CASE id = x
      BY <2>1, <3>1 DEF OInv, RowOK, NoRow
    <3>2. CASE id # x
      BY <2>1, <3>2 DEF OInv, RowOK, WasSent
    <3> QED BY <3>1, <3>2
  <2>3. \A w \in Workers : WorkerOK(w)'
    BY <1>2, WorkersKeep DEF CommitEvent, RollbackEvent
  <2> QED BY <1>0, <2>1, <2>2, <2>3, SentKeep DEF OInv
<1>3. ASSUME NEW w \in Workers, FetchUnpublished(w) PROVE OInv'
  <2>1. UNCHANGED <<row, nextId, sent, published>>
    BY <1>3 DEF FetchUnpublished
  <2>2. \A v \in Workers \ {w} : WorkerOK(v)'
    BY <1>0, <1>3, <2>1, Fetched, WorkersKeep
  <2>3. WorkerOK(w)'
    <3>1. \A i \in 1 .. Len(batch'[w]) : row[batch'[w][i]].state = "unpublished"
      BY <1>0, <1>3, Fetched DEF Fetchable
    <3> QED BY <2>1, <3>1 DEF OInv, WorkerOK, Committed, WasSent
  <2> QED BY <1>0, <2>1, <2>2, <2>3, RowsKeep DEF OInv
<1>4. ASSUME NEW w \in Workers, Publish(w) PROVE OInv'
  <2> DEFINE x == Head(batch[w])
  <2>1. /\ sent \in Seq(Ids) /\ batch[w] \in Seq(Ids) /\ batch[w] # <<>>
        /\ sent' = Append(sent, x) /\ row' = row /\ nextId' = nextId
        /\ batch'[w] = Tail(batch[w]) /\ published'[w] = published[w] \cup {x}
        /\ \A v \in Workers \ {w} : batch'[v] = batch[v] /\ published'[v] = published[v]
    BY <1>0, <1>4 DEF Publish, TypeOK
  <2>2. /\ x \in Ids /\ x = batch[w][1] /\ Len(batch[w]) \in Nat \ {0}
        /\ Len(batch'[w]) = Len(batch[w]) - 1
        /\ \A i \in 1 .. Len(batch'[w]) : batch'[w][i] = batch[w][i + 1]
    BY <2>1, HeadTailProperties, EmptySeq
  <2>3. Committed(x)
    BY <2>2 DEF OInv, WorkerOK
  <2> HIDE DEF x
  <2>4. \A id \in Ids : WasSent(id)' <=> WasSent(id) \/ id = x
    BY <2>1, <2>2, SendsAppend
  <2>5. (\A id \in Ids : RowOK(id))'
    BY <2>1, <2>4 DEF OInv, RowOK
  <2>6. (\A n \in 1 .. Len(sent) : Committed(sent[n]))'
    <3>1. /\ Len(sent') = Len(sent) + 1 /\ Len(sent) \in Nat
          /\ \A n \in 1 .. Len(sent) : sent'[n] = sent[n]
          /\ sent'[Len(sent) + 1] = x
      BY <2>1, <2>2
    <3> QED BY <2>1, <2>3, <3>1 DEF OInv, Committed
  <2>7. \A v \in Workers \ {w} : WorkerOK(v)'
    BY <2>1, WorkersKeep
  <2>8. WorkerOK(w)'
    <3>1. \A i \in 1 .. Len(batch'[w]) : row[batch'[w][i]].state \in {"unpublished", "published"}
      BY <2>2 DEF OInv, WorkerOK, Committed
    <3>2. \A id \in published'[w] : Committed(id) /\ WasSent(id)'
      BY <1>0, <2>1, <2>2, <2>3, <2>4 DEF OInv, WorkerOK, TypeOK
    <3> QED BY <2>1, <3>1, <3>2 DEF WorkerOK, Committed
  <2> QED BY <1>0, <2>5, <2>6, <2>7, <2>8 DEF OInv
<1>5. ASSUME NEW w \in Workers, MarkPublished(w) PROVE OInv'
  <2>1. /\ nextId' = nextId /\ sent' = sent /\ batch' = batch /\ published'[w] = {}
        /\ batch[w] = <<>>
        /\ \A v \in Workers \ {w} : published'[v] = published[v]
        /\ \A id \in Ids \ published[w] : row'[id] = row[id]
        /\ \A id \in published[w] : row'[id] = [past |-> row[id].past, state |-> "published"]
    BY <1>0, <1>5 DEF MarkPublished, ToMark, TypeOK
  <2>2. (\A id \in Ids : RowOK(id))'
    <3> SUFFICES ASSUME NEW id \in Ids PROVE RowOK(id)'
      OBVIOUS
    <3>1. CASE id \in published[w]
      <4>1. RowOK(id) /\ Committed(id) /\ WasSent(id)
        BY <3>1 DEF OInv, WorkerOK
      <4>2. row'[id].past = row[id].past /\ row'[id].state = "published"
        <5>1. row'[id] = [past |-> row[id].past, state |-> "published"]
          BY <2>1, <3>1, Zenon
        <5> QED BY <5>1
      <4>3. nextId' = nextId /\ WasSent(id)'
        BY <2>1, <4>1, NeverUndone
      <4> QED BY <4>1, <4>2, <4>3 DEF RowOK, Committed
    <3>2. CASE id \notin published[w]
      BY <2>1, <3>2 DEF OInv, RowOK, WasSent
    <3> QED BY <3>1, <3>2
  <2>3. \A v \in Workers \ {w} : WorkerOK(v)'
    BY <2>1, WorkersKeep
  <2>4. WorkerOK(w)'
    BY <2>1 DEF WorkerOK
  <2> QED BY <1>0, <2>1, <2>2, <2>3, <2>4, SentKeep DEF OInv
<1>6. ASSUME NEW w \in Workers, PublishFails(w) \/ MarkFails(w) \/ CrashAndRestart(w) PROVE OInv'
  <2>1. /\ UNCHANGED <<row, nextId, sent>>
        /\ \A v \in Workers \ {w} : batch'[v] = batch[v] /\ published'[v] = published[v]
        /\ batch'[w] = <<>> /\ published'[w] \in {published[w], {}}
    BY <1>0, <1>6 DEF PublishFails, MarkFails, CrashAndRestart, TypeOK
  <2>2. \A v \in Workers \ {w} : WorkerOK(v)'
    BY <2>1, WorkersKeep
  <2>3. WorkerOK(w)'
    BY <2>1 DEF OInv, WorkerOK, Committed, WasSent
  <2> QED BY <1>0, <2>1, <2>2, <2>3, RowsKeep DEF OInv
<1>7. ASSUME UNCHANGED <<row, nextId, sent, batch, published>> PROVE OInv'
  <2>1. \A v \in Workers : WorkerOK(v)'
    BY <1>7, WorkersKeep
  <2> QED BY <1>0, <1>7, <2>1, RowsKeep DEF OInv
<1>8. ASSUME NEW w \in Workers, FetchReturns(w) \/ BrokerReceives(w) \/ DropConnection(w)
      PROVE  OInv'
  BY <1>7, <1>8 DEF FetchReturns, BrokerReceives, DropConnection
<1>9. CASE UNCHANGED vars
  BY <1>7, <1>9 DEF vars
<1> QED BY <1>1, <1>2, <1>3, <1>4, <1>5, <1>6, <1>8, <1>9, Zenon DEF Next, Tick

\* The inductive invariant holds in every behaviour.
THEOREM OutboxInvariant == Spec => []OInv
BY OInit, OStep, PTL DEF Spec

\* Type correctness of the outbox, its workers and their channels.
THEOREM OutboxTypes == Spec => []TypeOK
<1>1. OInv => TypeOK
  BY DEF OInv
<1> QED BY <1>1, OutboxInvariant, PTL

\* A row marked published was handed to a channel, and nothing is handed over that is not
\* committed, with any number of replicas and whatever fails in the middle of a batch.
THEOREM MarkedSent == Spec => []MarkedWasSent
<1>1. OInv => MarkedWasSent
  BY SendsCount DEF OInv, MarkedWasSent, RowOK, TypeOK, Committed
<1> QED BY <1>1, OutboxInvariant, PTL

-----------------------------------------------------------------------------
(* One worker: how often a row is handed over                              *)

\* What the workers know of rows and counts carries over when neither changes for them.
LEMMA HoldsKeep ==
    ASSUME NEW w, HoldsOK(w), UNCHANGED <<row, sent, faults>>,
           batch'[w] = batch[w], published'[w] = published[w],
           pc'[w] = "idle" => pc[w] = "idle"
    PROVE  HoldsOK(w)'
BY DEF HoldsOK, SendsOf

\* A step of the only worker is a step of all workers.
LEMMA OnlyWorker ==
    ASSUME OneWorker, NEW w \in Workers, HoldsOK(w)'
    PROVE  (OneWorker /\ \A v \in Workers : HoldsOK(v))'
BY Zenon DEF OneWorker

\* Counts that do not grow faster than the faults stay within their bound.
LEMMA CountsKeep ==
    ASSUME TypeOK, TypeOK', RepeatsNeedFaults, sent' = sent, faults <= faults'
    PROVE  RepeatsNeedFaults'
<1>1. \A id \in Ids : SendsOf(id) \in Nat /\ SendsOf(id)' = SendsOf(id)
  BY SendsCount DEF TypeOK, SendsOf
<1>2. faults \in Int /\ faults' \in Int
  BY OutboxAssumption DEF TypeOK
<1> QED BY <1>1, <1>2 DEF RepeatsNeedFaults

\* Every step keeps the invariant of one worker.
LEMMA OneStep == OInv /\ OneInv /\ [Next]_vars => OneInv'
<1> SUFFICES ASSUME OInv, OneInv, [Next]_vars PROVE OneInv'
  OBVIOUS
<1> USE DEF rows, worker, amqp
<1>0. TypeOK' /\ TypeOK /\ OneWorker /\ RepeatsNeedFaults /\ faults \in Int
  BY TypeStep, OutboxAssumption DEF OInv, OneInv, TypeOK
<1>1. ASSUME NEW x \in Ids, row[x].state \in {"absent", "uncommitted"},
             \A id \in Ids : id # x => row'[id] = row[id],
             UNCHANGED <<sent, faults, pc, batch, published>>
      PROVE  OneInv'
  <2>1. ASSUME NEW w \in Workers PROVE HoldsOK(w)'
    <3>1. HoldsOK(w) /\ batch[w] \in Seq(Ids)
      BY <1>0 DEF OneInv, TypeOK
    <3>2. \A i \in 1 .. Len(batch[w]) : batch[w][i] \in Ids /\ batch[w][i] # x
      BY <1>1, <3>1, ElementOfSeq DEF HoldsOK
    <3>3. SendsOf(x) <= faults
      <4>1. ~WasSent(x)
        BY <1>1 DEF OInv, WasSent, Committed
      <4>2. SendsOf(x) = 0
        BY <1>0, <4>1, SendsCount DEF TypeOK
      <4> QED BY <1>0, <4>2, OutboxAssumption DEF TypeOK
    <3>4. \A i \in 1 .. Len(batch[w]) :
             row'[batch[w][i]].state = "unpublished" /\ batch[w][i] \notin published[w]
      BY <1>1, <3>1, <3>2 DEF HoldsOK
    <3>5. \A id \in Ids : row'[id].state = "unpublished" /\ id \notin published[w] => SendsOf(id) <= faults
      BY <1>1, <3>1, <3>3 DEF HoldsOK
    <3> QED BY <1>1, <3>1, <3>4, <3>5 DEF HoldsOK, SendsOf
  <2>2. RepeatsNeedFaults'
    BY <1>0, <1>1, CountsKeep
  <2> QED BY <1>0, <2>1, <2>2 DEF OneInv, OneWorker
<1>2. ASSUME InsertEvent PROVE OneInv'
  <2>1. /\ nextId \in Ids /\ row[nextId].state = "absent"
        /\ \A id \in Ids : id # nextId => row'[id] = row[id]
    BY <1>0, <1>2, OutboxAssumption DEF InsertEvent, TypeOK, Ids, OInv, RowOK
  <2> QED BY <1>1, <1>2, <2>1 DEF InsertEvent
<1>3. ASSUME NEW x \in Ids, CommitEvent(x) \/ RollbackEvent(x) PROVE OneInv'
  <2>1. row[x].state = "uncommitted" /\ \A id \in Ids : id # x => row'[id] = row[id]
    BY <1>0, <1>3 DEF CommitEvent, RollbackEvent, TypeOK
  <2> QED BY <1>1, <1>3, <2>1 DEF CommitEvent, RollbackEvent
<1>4. ASSUME NEW w \in Workers, FetchUnpublished(w) PROVE OneInv'
  <2>1. /\ pc[w] = "idle" /\ pc'[w] = "fetching" /\ UNCHANGED <<row, sent, faults, published>>
    BY <1>0, <1>4 DEF FetchUnpublished, TypeOK
  <2>2. published[w] = {} /\ HoldsOK(w)
    BY <2>1 DEF OneInv, HoldsOK
  <2>3. \A i \in 1 .. Len(batch'[w]) : row[batch'[w][i]].state = "unpublished"
    BY <1>0, <1>4, Fetched DEF Fetchable
  <2>4. \A i, j \in 1 .. Len(batch'[w]) : batch'[w][i] = batch'[w][j] => i = j
    BY <1>0, <1>4, Fetched
  <2>5. HoldsOK(w)'
    BY <2>1, <2>2, <2>3, <2>4 DEF HoldsOK, SendsOf
  <2> QED BY <1>0, <2>1, <2>5, OnlyWorker, CountsKeep DEF OneInv
<1>5. ASSUME NEW w \in Workers, Publish(w) PROVE OneInv'
  <2> DEFINE x == Head(batch[w])
             b == batch[w]
  <2>1. /\ sent \in Seq(Ids) /\ b \in Seq(Ids) /\ b # <<>>
        /\ sent' = Append(sent, x) /\ row' = row /\ faults' = faults
        /\ batch'[w] = Tail(b) /\ published'[w] = published[w] \cup {x}
        /\ pc[w] = "publishing" /\ pc' = pc
    BY <1>0, <1>5 DEF Publish, TypeOK
  <2>2. /\ x \in Ids /\ x = b[1] /\ Len(b) \in Nat \ {0} /\ Len(batch'[w]) = Len(b) - 1
        /\ \A i \in 1 .. Len(batch'[w]) : i + 1 \in 1 .. Len(b) /\ batch'[w][i] = b[i + 1]
    BY <2>1, HeadTailProperties, EmptySeq
  <2>3. /\ HoldsOK(w) /\ 1 \in 1 .. Len(b)
    BY <2>2 DEF OneInv
  <2>4. SendsOf(x) <= faults
    BY <2>2, <2>3 DEF HoldsOK
  <2> HIDE DEF x
  <2>5. \A id \in Ids : /\ SendsOf(id) \in Nat
                        /\ SendsOf(id)' = IF id = x THEN SendsOf(id) + 1 ELSE SendsOf(id)
    BY <2>1, <2>2, SendsAppend, SendsCount
  <2>6. RepeatsNeedFaults'
    <3> SUFFICES ASSUME NEW id \in Ids PROVE SendsOf(id)' <= 1 + faults'
      BY DEF RepeatsNeedFaults
    <3> QED BY <1>0, <2>1, <2>4, <2>5 DEF RepeatsNeedFaults
  <2>7. \A i \in 1 .. Len(batch'[w]) :
           row[batch'[w][i]].state = "unpublished" /\ batch'[w][i] \notin published'[w]
    <3> SUFFICES ASSUME NEW i \in 1 .. Len(batch'[w])
                 PROVE  row[b[i + 1]].state = "unpublished" /\ b[i + 1] \notin published'[w]
      BY <2>2
    <3>1. i + 1 \in 1 .. Len(b) /\ i + 1 # 1
      BY <2>2
    <3>2. b[i + 1] # x
      BY <2>2, <2>3, <3>1 DEF HoldsOK
    <3> QED BY <2>1, <2>3, <3>1, <3>2 DEF HoldsOK
  <2>8. \A i, j \in 1 .. Len(batch'[w]) : batch'[w][i] = batch'[w][j] => i = j
    <3> SUFFICES ASSUME NEW i \in 1 .. Len(batch'[w]), NEW j \in 1 .. Len(batch'[w]),
                        b[i + 1] = b[j + 1]
                 PROVE  i = j
      BY <2>2
    <3>1. i + 1 = j + 1
      BY <2>2, <2>3 DEF HoldsOK
    <3> QED BY <2>2, <3>1
  <2>9. \A id \in Ids : row[id].state = "unpublished" /\ id \notin published'[w] => SendsOf(id)' <= faults
    BY <2>1, <2>3, <2>5 DEF HoldsOK
  <2>10. HoldsOK(w)'
    BY <2>1, <2>7, <2>8, <2>9 DEF HoldsOK
  <2> QED BY <1>0, <2>6, <2>10, OnlyWorker DEF OneInv
<1>6. ASSUME NEW w \in Workers, PublishFails(w) PROVE OneInv'
  <2>1. /\ batch'[w] = <<>> /\ pc' = pc /\ pc[w] = "publishing"
        /\ UNCHANGED <<row, sent, faults, published>>
    BY <1>0, <1>6 DEF PublishFails, TypeOK
  <2>2. HoldsOK(w)'
    BY <2>1 DEF OneInv, HoldsOK, SendsOf
  <2> QED BY <1>0, <2>1, <2>2, OnlyWorker, CountsKeep DEF OneInv
<1>7. ASSUME NEW w \in Workers, MarkPublished(w) PROVE OneInv'
  <2>1. /\ batch'[w] = <<>> /\ published'[w] = {} /\ UNCHANGED <<sent, faults>>
        /\ \A id \in Ids : row'[id].state = "unpublished" =>
              id \notin published[w] /\ row[id].state = "unpublished"
    BY <1>0, <1>7 DEF MarkPublished, ToMark, TypeOK
  <2>2. HoldsOK(w)'
    BY <2>1 DEF OneInv, HoldsOK, SendsOf
  <2> QED BY <1>0, <2>1, <2>2, OnlyWorker, CountsKeep DEF OneInv
<1>8. ASSUME NEW w \in Workers, MarkFails(w) \/ CrashAndRestart(w) PROVE OneInv'
  <2>1. /\ batch'[w] = <<>> /\ published'[w] = {} /\ faults' = faults + 1
        /\ UNCHANGED <<row, sent>>
    BY <1>0, <1>8 DEF MarkFails, CrashAndRestart, TypeOK
  <2>2. \A id \in Ids : SendsOf(id)' <= faults'
    BY <1>0, <2>1 DEF RepeatsNeedFaults, SendsOf
  <2>3. HoldsOK(w)'
    BY <2>1, <2>2 DEF HoldsOK
  <2> QED BY <1>0, <2>1, <2>3, OnlyWorker, CountsKeep DEF OneInv
<1>9. ASSUME UNCHANGED <<row, sent, faults, batch, published>>,
             \A w \in Workers : pc'[w] = "idle" => pc[w] = "idle"
      PROVE  OneInv'
  <2>1. ASSUME NEW w \in Workers PROVE HoldsOK(w)'
    BY <1>9, HoldsKeep DEF OneInv
  <2> QED BY <1>0, <1>9, <2>1, CountsKeep DEF OneInv, OneWorker
<1>10. ASSUME NEW w \in Workers, FetchReturns(w) \/ BrokerReceives(w) \/ DropConnection(w)
       PROVE  OneInv'
  <2>1. /\ UNCHANGED <<row, sent, faults, batch, published>>
        /\ \A v \in Workers : pc'[v] = "idle" => pc[v] = "idle"
    BY <1>0, <1>10 DEF FetchReturns, BrokerReceives, DropConnection, TypeOK
  <2> QED BY <1>9, <2>1
<1>11. CASE UNCHANGED vars
  BY <1>9, <1>11 DEF vars
<1> QED BY <1>2, <1>3, <1>4, <1>5, <1>6, <1>7, <1>8, <1>10, <1>11, Zenon DEF Next, Tick

\* The invariant of one worker, in every behaviour.
THEOREM OneWorkerInvariant == OneWorker /\ Spec => []OneInv
<1>1. OneWorker /\ Init => OneInv
  <2> SUFFICES ASSUME OneWorker, Init PROVE OneInv
    OBVIOUS
  <2>1. \A w \in Workers : HoldsOK(w)
    BY DEF Init, HoldsOK, NoRow
  <2>2. RepeatsNeedFaults
    <3> SUFFICES ASSUME NEW id \in Ids PROVE SendsOf(id) <= 1 + faults
      BY DEF RepeatsNeedFaults
    <3>1. sent \in Seq(Ids) /\ ~WasSent(id) /\ faults = 0
      BY DEF Init, WasSent
    <3>2. SendsOf(id) = 0
      BY <3>1, SendsCount
    <3> QED BY <3>1, <3>2
  <2> QED BY <2>1, <2>2 DEF OneInv
<1> QED BY <1>1, OneStep, OutboxInvariant, PTL DEF Spec

\* With one replica a row is handed over again only after a crash or a failed UPDATE, once
\* for each at most.
THEOREM RepeatsAreFaults == OneWorker /\ Spec => []RepeatsNeedFaults
<1>1. OneInv => RepeatsNeedFaults
  BY DEF OneInv
<1> QED BY <1>1, OneWorkerInvariant, PTL

-----------------------------------------------------------------------------
(* One worker: the order of the first hand-overs                           *)

\* A step gives no committed event an earlier event it did not have: an id is not used
\* again.
LEMMA NoNewPast ==
    ASSUME OInv, [Next]_vars, NEW id \in Ids, NEW later \in Ids, Committed(later),
           Before(id, later)'
    PROVE  Before(id, later)
<1> USE DEF rows, worker, amqp
<1>0. TypeOK
  BY DEF OInv
<1>1. ASSUME InsertEvent PROVE Before(id, later)
  <2>1. later # nextId
    BY <1>0, <1>1 DEF OInv, RowOK, Committed, TypeOK, Ids
  <2> QED BY <1>0, <1>1, <2>1 DEF InsertEvent, Before, TypeOK
<1>2. ASSUME NEW x \in Ids, CommitEvent(x) PROVE Before(id, later)
  BY <1>0, <1>2 DEF CommitEvent, Before, TypeOK
<1>3. ASSUME NEW x \in Ids, RollbackEvent(x) PROVE Before(id, later)
  BY <1>0, <1>3 DEF RollbackEvent, Before, Committed, NoRow, TypeOK
<1>4. ASSUME NEW w \in Workers, MarkPublished(w) PROVE Before(id, later)
  <2>1. row'[id].past = row[id].past /\ row'[later].past = row[later].past
    BY <1>0, <1>4 DEF MarkPublished, TypeOK
  <2> QED BY <2>1 DEF Before
<1>5. CASE row' = row
  BY <1>5 DEF Before
<1>6. ASSUME NEW w \in Workers,
             \/ FetchUnpublished(w) \/ FetchReturns(w) \/ Publish(w) \/ PublishFails(w)
             \/ MarkFails(w) \/ BrokerReceives(w) \/ DropConnection(w) \/ CrashAndRestart(w)
      PROVE  row' = row
  BY <1>6 DEF FetchUnpublished, FetchReturns, Publish, PublishFails, MarkFails, BrokerReceives,
              DropConnection, CrashAndRestart
<1>7. CASE UNCHANGED vars
  BY <1>5, <1>7 DEF vars
<1> QED BY <1>1, <1>2, <1>3, <1>4, <1>5, <1>6, <1>7 DEF Next, Tick

\* What was committed when a row was inserted has a smaller id, and stays committed.
LEMMA InTurnStep ==
    ASSUME OInv, CommittedInTurn, [Next]_vars
    PROVE  CommittedInTurn'
<1> SUFFICES ASSUME NEW id \in Ids, NEW later \in Ids, Before(id, later)'
             PROVE  id < later /\ Committed(id)'
  BY DEF CommittedInTurn
<1> USE DEF rows, worker, amqp
<1>0. TypeOK
  BY DEF OInv
<1>1. ASSUME Before(id, later) PROVE id < later /\ Committed(id)'
  BY <1>1, NeverUndone DEF CommittedInTurn
<1>2. ASSUME InsertEvent PROVE id < later /\ Committed(id)'
  <2>1. CASE later # nextId
    <3>1. Before(id, later)
      BY <1>0, <1>2, <2>1 DEF InsertEvent, Before, TypeOK
    <3> QED BY <1>1, <3>1
  <2>2. CASE later = nextId
    <3>1. Committed(id)
      BY <1>0, <1>2, <2>2 DEF InsertEvent, Before, TypeOK
    <3>2. id < nextId
      BY <1>0, <3>1, OutboxAssumption DEF OInv, RowOK, Committed, TypeOK, Ids
    <3> QED BY <2>2, <3>1, <3>2, NeverUndone
  <2> QED BY <2>1, <2>2
<1>3. ASSUME NEW x \in Ids, CommitEvent(x) PROVE Before(id, later)
  BY <1>0, <1>3 DEF CommitEvent, Before, TypeOK
<1>4. ASSUME NEW x \in Ids, RollbackEvent(x) PROVE Before(id, later)
  BY <1>0, <1>4 DEF RollbackEvent, Before, NoRow, TypeOK
<1>5. ASSUME NEW w \in Workers, MarkPublished(w) PROVE Before(id, later)
  <2>1. row'[id].past = row[id].past /\ row'[later].past = row[later].past
    BY <1>0, <1>5 DEF MarkPublished, TypeOK
  <2> QED BY <2>1 DEF Before
<1>6. ASSUME row' = row PROVE Before(id, later)
  BY <1>6 DEF Before
<1>7. ASSUME NEW w \in Workers,
             \/ FetchUnpublished(w) \/ FetchReturns(w) \/ Publish(w) \/ PublishFails(w)
             \/ MarkFails(w) \/ BrokerReceives(w) \/ DropConnection(w) \/ CrashAndRestart(w)
      PROVE  row' = row
  BY <1>7 DEF FetchUnpublished, FetchReturns, Publish, PublishFails, MarkFails, BrokerReceives,
              DropConnection, CrashAndRestart
<1>8. CASE UNCHANGED vars
  BY <1>1, <1>6, <1>8 DEF vars
<1> QED BY <1>1, <1>2, <1>3, <1>4, <1>5, <1>6, <1>7, <1>8 DEF Next, Tick

\* A worker whose batch stays the same keeps its order.
LEMMA BatchKeeps ==
    ASSUME OInv, [Next]_vars, NEW w \in Workers, BatchOrder(w), batch'[w] = batch[w]
    PROVE  BatchOrder(w)'
<1> SUFFICES ASSUME NEW j \in 1 .. Len(batch[w]), NEW id \in Ids, NEW later \in Ids,
                    later = batch[w][j], Before(id, later)'
             PROVE  WasSent(id)' \/ \E i \in 1 .. j - 1 : batch[w][i] = id
  <2>1. \A j \in 1 .. Len(batch[w]) : batch[w][j] \in Ids
    BY ElementOfSeq DEF OInv, TypeOK
  <2> QED BY <2>1 DEF BatchOrder, Before
<1>1. Committed(later)
  BY DEF OInv, WorkerOK
<1>2. Before(id, later)
  BY <1>1, NoNewPast
<1> QED BY <1>2, NeverUndone DEF BatchOrder

\* The hand-overs of a step that makes none are still in order.
LEMMA OrderKeeps ==
    ASSUME OInv, OrderInv, [Next]_vars, sent' = sent,
           NEW id \in Ids, NEW later \in Ids, Before(id, later)', WasSent(later)'
    PROVE  FirstBefore(id, later)'
<1>1. WasSent(later)
  BY DEF WasSent
<1>2. Committed(later)
  BY <1>1 DEF OInv, WasSent
<1>3. Before(id, later)
  BY <1>2, NoNewPast
<1> QED BY <1>1, <1>3 DEF OrderInv, FirstBefore

\* Every step keeps the order.
LEMMA OrderStep == OInv /\ OneInv /\ OrderInv /\ [Next]_vars => OrderInv'
<1> SUFFICES ASSUME OInv, OneInv, OrderInv, [Next]_vars PROVE OrderInv'
  OBVIOUS
<1> USE DEF rows, worker, amqp
<1>0. TypeOK /\ OneWorker /\ CommittedInTurn'
  BY InTurnStep DEF OInv, OneInv, OrderInv
<1>1. ASSUME sent' = sent, \A w \in Workers : BatchOrder(w)' PROVE OrderInv'
  BY <1>0, <1>1, OrderKeeps DEF OrderInv
<1>2. ASSUME sent' = sent, batch' = batch PROVE OrderInv'
  BY <1>1, <1>2, BatchKeeps DEF OrderInv
<1>3. ASSUME NEW w \in Workers, sent' = sent, BatchOrder(w)' PROVE OrderInv'
  BY <1>0, <1>1, <1>3, Zenon DEF OneWorker
<1>4. ASSUME NEW w \in Workers, FetchUnpublished(w) PROVE OrderInv'
  <2>1. sent' = sent /\ row' = row
    BY <1>4 DEF FetchUnpublished
  <2>2. /\ batch' \in [Workers -> Seq(Ids)]
        /\ \A j \in 1 .. Len(batch'[w]), x \in Fetchable(w) :
              x < batch'[w][j] => \E i \in 1 .. j - 1 : batch'[w][i] = x
    BY <1>0, <1>4, Fetched
  <2>3. \A j \in 1 .. Len(batch'[w]) : batch'[w][j] \in Ids
    BY <2>2, ElementOfSeq
  <2>4. ASSUME NEW j \in 1 .. Len(batch'[w]), NEW id \in Ids, NEW later \in Ids,
               later = batch'[w][j], Before(id, later)
        PROVE  WasSent(id) \/ \E i \in 1 .. j - 1 : batch'[w][i] = id
    <3>1. Committed(id) /\ id < later
      BY <2>4 DEF OrderInv, CommittedInTurn, Before
    <3>2. CASE row[id].state = "published"
      BY <3>2 DEF OInv, RowOK
    <3>3. CASE row[id].state = "unpublished"
      <4>1. id \in Fetchable(w)
        BY <1>0, <3>3 DEF Fetchable, OneWorker
      <4> QED BY <2>2, <2>4, <3>1, <4>1
    <3> QED BY <3>1, <3>2, <3>3 DEF Committed
  <2>5. BatchOrder(w)'
    BY <2>1, <2>3, <2>4 DEF BatchOrder, Before, WasSent
  <2> QED BY <1>3, <2>1, <2>5
<1>5. ASSUME NEW w \in Workers, Publish(w) PROVE OrderInv'
  <2> DEFINE x == Head(batch[w])
             b == batch[w]
             L == Len(sent)
  <2>1. /\ sent \in Seq(Ids) /\ b \in Seq(Ids) /\ b # <<>>
        /\ sent' = Append(sent, x) /\ row' = row /\ batch'[w] = Tail(b)
    BY <1>0, <1>5 DEF Publish, TypeOK
  <2>2. /\ x \in Ids /\ x = b[1] /\ Len(b) \in Nat \ {0} /\ Len(batch'[w]) = Len(b) - 1
        /\ \A i \in 1 .. Len(b) - 1 : i + 1 \in 1 .. Len(b) /\ batch'[w][i] = b[i + 1]
    BY <2>1, HeadTailProperties, EmptySeq
  <2>3. BatchOrder(w)
    BY DEF OrderInv
  <2>4. /\ L \in Nat /\ Len(sent') = L + 1
        /\ \A n \in 1 .. L : sent'[n] = sent[n]
        /\ sent'[L + 1] = x
    BY <2>1, <2>2
  <2> HIDE DEF x
  <2>5. \A id \in Ids : WasSent(id)' <=> WasSent(id) \/ id = x
    BY <2>1, <2>2, SendsAppend
  <2>6. \A id, later \in Ids : Before(id, later)' <=> Before(id, later)
    BY <2>1 DEF Before
  <2>7. \A id, later \in Ids : FirstBefore(id, later) => FirstBefore(id, later)'
    <3> SUFFICES ASSUME NEW id \in Ids, NEW later \in Ids, NEW n \in 1 .. L,
                        sent[n] = id, \A m \in 1 .. n : sent[m] # later
                 PROVE  FirstBefore(id, later)'
      BY DEF FirstBefore
    <3>1. n \in 1 .. Len(sent') /\ \A m \in 1 .. n : m \in 1 .. L
      BY <2>4
    <3>2. sent'[n] = id /\ \A m \in 1 .. n : sent'[m] # later
      BY <2>4, <3>1
    <3> QED BY <3>1, <3>2 DEF FirstBefore
  <2>8. ASSUME NEW id \in Ids, NEW later \in Ids, Before(id, later)', WasSent(later)'
        PROVE  FirstBefore(id, later)'
    <3>1. Before(id, later)
      BY <2>6, <2>8
    <3>2. CASE WasSent(later)
      BY <2>7, <3>1, <3>2 DEF OrderInv
    <3>3. CASE ~WasSent(later)
      <4>1. later = x
        BY <2>5, <2>8, <3>3
      <4>2. 1 \in 1 .. Len(b) /\ later = b[1]
        BY <2>2, <4>1
      <4>3. WasSent(id) \/ \E i \in 1 .. 1 - 1 : b[i] = id
        BY <2>3, <3>1, <4>2 DEF BatchOrder
      <4>4. PICK n \in 1 .. L : sent[n] = id
        BY <4>3 DEF WasSent
      <4>5. \A m \in 1 .. n : sent[m] # later
        BY <2>4, <3>3 DEF WasSent
      <4> QED BY <2>7, <4>4, <4>5 DEF FirstBefore
    <3> QED BY <3>2, <3>3
  <2>9. ASSUME NEW j \in 1 .. Len(batch'[w]), NEW id \in Ids, Before(id, b[j + 1])
        PROVE  WasSent(id)' \/ \E i \in 1 .. j - 1 : batch'[w][i] = id
    <3>1. j + 1 \in 1 .. Len(b)
      BY <2>2
    <3>2. WasSent(id) \/ \E i \in 1 .. (j + 1) - 1 : b[i] = id
      BY <2>3, <2>9, <3>1 DEF BatchOrder
    <3>3. CASE WasSent(id)
      BY <2>5, <3>3
    <3>4. CASE \E i \in 1 .. (j + 1) - 1 : b[i] = id
      <4>1. PICK i \in 1 .. j : b[i] = id
        BY <2>2, <3>4
      <4>2. CASE i = 1
        BY <2>2, <2>5, <4>1, <4>2
      <4>3. CASE i # 1
        <5>1. i - 1 \in 1 .. j - 1 /\ i - 1 \in 1 .. Len(b) - 1 /\ (i - 1) + 1 = i
          BY <2>2, <4>3
        <5>2. batch'[w][i - 1] = id
          BY <2>2, <4>1, <5>1
        <5> QED BY <5>1, <5>2
      <4> QED BY <4>2, <4>3
    <3> QED BY <3>2, <3>3, <3>4
  <2>10. BatchOrder(w)'
    <3> SUFFICES ASSUME NEW j \in 1 .. Len(batch'[w]), NEW id \in Ids,
                        id \in row'[batch'[w][j]].past
                 PROVE  WasSent(id)' \/ \E i \in 1 .. j - 1 : batch'[w][i] = id
      BY DEF BatchOrder, Before
    <3>1. batch'[w][j] = b[j + 1]
      BY <2>2
    <3>2. Before(id, b[j + 1])
      BY <2>1, <3>1 DEF Before
    <3> QED BY <2>9, <3>2
  <2>11. \A v \in Workers : BatchOrder(v)'
    BY <1>0, <2>10, Zenon DEF OneWorker
  <2> QED BY <1>0, <2>8, <2>11 DEF OrderInv
<1>6. ASSUME NEW w \in Workers, PublishFails(w) \/ CrashAndRestart(w) PROVE OrderInv'
  <2>1. sent' = sent /\ batch'[w] = <<>>
    BY <1>0, <1>6 DEF PublishFails, CrashAndRestart, TypeOK
  <2>2. BatchOrder(w)'
    BY <2>1 DEF BatchOrder
  <2> QED BY <1>3, <2>1, <2>2
<1>7. ASSUME InsertEvent PROVE OrderInv'
  BY <1>2, <1>7 DEF InsertEvent
<1>8. ASSUME NEW id \in Ids, CommitEvent(id) \/ RollbackEvent(id) PROVE OrderInv'
  BY <1>2, <1>8 DEF CommitEvent, RollbackEvent
<1>9. ASSUME NEW w \in Workers,
             \/ FetchReturns(w) \/ MarkPublished(w) \/ MarkFails(w)
             \/ BrokerReceives(w) \/ DropConnection(w)
      PROVE  OrderInv'
  BY <1>2, <1>9 DEF FetchReturns, MarkPublished, MarkFails, BrokerReceives, DropConnection
<1>10. CASE UNCHANGED vars
  BY <1>2, <1>10 DEF vars
<1> QED BY <1>4, <1>5, <1>6, <1>7, <1>8, <1>9, <1>10, Zenon DEF Next, Tick

\* With one replica an event committed before another was inserted is first handed over
\* before it, through breaks, failed UPDATEs and restarts: so for the events of
\* transactions that wait for one row, whichever way overlapping ones commit.
THEOREM SendsInOrder == OneWorker /\ Spec => []FirstSendsInOrder
<1>1. Init => OrderInv
  BY DEF Init, OrderInv, CommittedInTurn, BatchOrder, Before, WasSent, NoRow
<1>2. OInv /\ OrderInv => FirstSendsInOrder
  <2> SUFFICES ASSUME OInv, OrderInv, NEW later \in Ids, NEW id \in row[later].past,
                      SendsOf(later) > 0
               PROVE  FirstBefore(id, later)
    BY DEF FirstSendsInOrder, FirstBefore
  <2>1. WasSent(later) /\ id \in Ids
    BY SendsCount DEF OInv, TypeOK
  <2> QED BY <2>1 DEF OrderInv, Before
<1> QED BY <1>1, <1>2, OrderStep, OutboxInvariant, OneWorkerInvariant, PTL DEF Spec
=============================================================================
