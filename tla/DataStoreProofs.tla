---------------------------- MODULE DataStoreProofs --------------------------
(***************************************************************************)
(* The monitor of a data store is balanced, nothing changes under an       *)
(* iteration, an iteration that removes a value leaves none behind, and    *)
(* the array implements the store of pairs of KeyValueStore, for any       *)
(* number of threads, keys, values and slots.                              *)
(***************************************************************************)
EXTENDS DataStore, FiniteSetTheorems, SequenceTheorems, WellFoundedInduction, TLAPS

\* What an iteration that removes a value has left behind it.
SweptInv ==
  \A t \in Threads : pos[t] > 0 /\ target[t] # Nothing =>
    \A i \in DOMAIN data :
      i < pos[t] /\ data[i].value = target[t] => data[i].key = NoKey

\* A slot that is not empty holds a value.
PairInv(d) == \A i \in DOMAIN d : d[i].key # NoKey => d[i].value \in Values

IInv == TypeOK /\ data \in Seq(Slots) /\ MonitorBalanced /\ SweptInv /\ PairInv(data)

-----------------------------------------------------------------------------
(* The operators on arrays                                                   *)

\* A set of slots has a first one, and First finds it.
LEMMA FirstIsLeast ==
  ASSUME NEW S \in SUBSET Nat, S # {}
  PROVE  First(S) \in S /\ \A j \in S : First(S) <= j
<1> DEFINE R == {ss \in Nat \X Nat : ss[1] < ss[2]}
<1>1. IsWellFoundedOn(R, Nat)
  BY NatLessThanWellFounded DEF OpToRel
<1>2. \E i \in S : \A j \in S : ~(<<j, i>> \in R)
  BY <1>1, WFMin
<1>3. \A i, j \in Nat : <<j, i>> \in R <=> j < i
  OBVIOUS
<1> HIDE DEF R
<1>4. PICK i \in S : \A j \in S : ~(<<j, i>> \in R)
  BY <1>2
<1>5. \A j \in S : i <= j
  <2> SUFFICES ASSUME NEW j \in S PROVE i <= j
    OBVIOUS
  <2>1. i \in Nat /\ j \in Nat
    OBVIOUS
  <2>2. ~(j < i)
    BY <1>3, <1>4, <2>1
  <2> QED
    BY <2>1, <2>2
<1> QED
  BY <1>5 DEF First

\* The array grows.
LEMMA NewSizeGrows == \A n \in Nat : NewSize(n) \in Nat /\ NewSize(n) > n
  BY DEF NewSize

\* An array keeps its size when slots are written.
LEMMA SameSize ==
  ASSUME NEW s \in Seq(Slots), NEW d \in [DOMAIN s -> Slots]
  PROVE  d \in Seq(Slots) /\ Len(d) = Len(s) /\ DOMAIN d = DOMAIN s
<1>1. Len(s) \in Nat /\ DOMAIN s = 1..Len(s)
  BY LenProperties
<1>2. d \in Seq(Slots)
  BY <1>1
<1>3. Len(d) \in Nat /\ DOMAIN d = 1..Len(d)
  BY <1>2, LenProperties
<1> QED
  BY <1>1, <1>2, <1>3

\* What the array is after it has grown.
LEMMA GrownArray ==
  ASSUME NEW k \in Keys, NEW v \in Values, data \in Seq(Slots), PairInv(data)
  PROVE  LET d == Grown(k, v) n == Len(data) IN
         /\ d \in Seq(Slots) /\ Len(d) = NewSize(n)
         /\ n \in Nat /\ DOMAIN data = 1..n
         /\ DOMAIN d = 1..NewSize(n) /\ NewSize(n) \in Nat /\ NewSize(n) > n
         /\ PairInv(d)
<1>1. Len(data) \in Nat /\ DOMAIN data = 1..Len(data) /\ data \in [1..Len(data) -> Slots]
  BY LenProperties
<1>2. NewSize(Len(data)) \in Nat /\ NewSize(Len(data)) > Len(data)
  BY <1>1, NewSizeGrows
<1>3. EmptySlot \in Slots /\ [key |-> k, value |-> v] \in Slots
  BY DEF EmptySlot, Slots
<1>4. Grown(k, v) \in [1..NewSize(Len(data)) -> Slots]
  BY <1>1, <1>2, <1>3 DEF Grown
<1>5. Grown(k, v) \in Seq(Slots) /\ DOMAIN Grown(k, v) = 1..NewSize(Len(data))
  BY <1>2, <1>4
<1>6. Len(Grown(k, v)) \in Nat /\ DOMAIN Grown(k, v) = 1..Len(Grown(k, v))
  BY <1>5, LenProperties
<1>7. PairInv(Grown(k, v))
  BY <1>1, <1>2, <1>5 DEF PairInv, Grown, EmptySlot
<1> QED
  BY <1>1, <1>2, <1>5, <1>6, <1>7

-----------------------------------------------------------------------------

\* What the invariant says of the thread that iterates, and of those that do not wait.
LEMMA Holder ==
  ASSUME IInv, NEW t \in Threads
  PROVE  /\ pos[t] > 0 => owner = t
         /\ kept[t] > 0 => owner = t
         /\ owner = t => entries = kept[t] + (IF pos[t] > 0 THEN 1 ELSE 0)
BY StoreAssumption DEF IInv, TypeOK, MonitorBalanced

LEMMA InitIInv == Init => IInv
<1> SUFFICES ASSUME Init PROVE IInv
  OBVIOUS
<1>1. PICK n \in InitialSizes : data = [i \in 1..n |-> EmptySlot]
  BY DEF Init
<1>2. n \in Nat /\ n <= MaxSize
  BY StoreAssumption
<1>3. data \in Seq(Slots) /\ data \in [1..n -> Slots]
  BY <1>1, <1>2 DEF EmptySlot, Slots
<1>4. Len(data) = n /\ DOMAIN data = 1..n
  BY <1>1, <1>2, <1>3, LenProperties
<1>5. TypeOK
  BY <1>2, <1>3, <1>4 DEF TypeOK, Init
<1>6. MonitorBalanced /\ SweptInv
  BY StoreAssumption DEF MonitorBalanced, SweptInv, Init
<1>7. PairInv(data)
  BY <1>1 DEF PairInv, EmptySlot
<1> QED
  BY <1>3, <1>5, <1>6, <1>7 DEF IInv

-----------------------------------------------------------------------------
(* One lemma per operation                                                   *)

\* A call from outside by t: no thread iterates, since t may enter the monitor.
LEMMA CallAlone ==
  ASSUME IInv, NEW t \in Threads, Calls(t)
  PROVE  \A u \in Threads : pos[u] = 0
BY Holder, StoreAssumption DEF Calls, MayEnter, IInv, TypeOK

\* Such a call may write what it likes into the array.
LEMMA WriteInv ==
  ASSUME IInv, NEW t \in Threads, Calls(t),
         data' \in Seq(Slots), Len(data') <= MaxSize, PairInv(data'),
         UNCHANGED <<otm, monVars, iterVars>>,
         answer' \in (Keys \cup {Nothing}) \X (Values \cup {Nothing})
  PROVE  IInv'
<1>1. \A i \in DOMAIN data' : data'[i] \in Slots
  BY LenProperties, ElementOfSeq
<1>2. TypeOK'
  BY <1>1 DEF IInv, TypeOK, monVars, iterVars
<1>3. MonitorBalanced'
  BY DEF IInv, MonitorBalanced, monVars, iterVars
<1>4. SweptInv'
  BY CallAlone DEF IInv, TypeOK, SweptInv, iterVars
<1> QED
  BY <1>2, <1>3, <1>4 DEF IInv

\* Clearing or filling slots keeps the array a sequence of the same size.
LEMMA WriteSlot ==
  ASSUME IInv, NEW i, NEW s \in Slots
  PROVE  /\ [data EXCEPT ![i] = s] \in Seq(Slots) /\ Len([data EXCEPT ![i] = s]) = Len(data)
         /\ Emptied(i) \in Seq(Slots) /\ Len(Emptied(i)) = Len(data)
         /\ DOMAIN Emptied(i) = DOMAIN data /\ PairInv(Emptied(i))
         /\ s.value \in Values => PairInv([data EXCEPT ![i] = s])
<1>1. data \in [DOMAIN data -> Slots]
  BY LenProperties DEF IInv
<1>2. [data EXCEPT ![i] = s] \in [DOMAIN data -> Slots]
  BY <1>1
<1>3. Emptied(i) \in [DOMAIN data -> Slots]
  BY <1>1 DEF Emptied, Slots
<1>4. PairInv(Emptied(i))
  BY <1>1 DEF Emptied, Slots, PairInv, IInv
<1>5. s.value \in Values => PairInv([data EXCEPT ![i] = s])
  BY <1>1 DEF PairInv, IInv
<1> QED
  BY <1>2, <1>3, <1>4, <1>5, SameSize DEF IInv

LEMMA PutInv ==
  ASSUME IInv, NEW t \in Threads, NEW k \in Keys, NEW v \in Values, Put(t, k, v)
  PROVE  IInv'
<1> DEFINE usable == IF otm THEN {} ELSE SlotsOf(k) \cup SlotsOf(NoKey)
           s == [key |-> k, value |-> v]
<1>1. s \in Slots
  BY DEF Slots
<1>2. \/ data' = [data EXCEPT ![First(usable)] = s]
      \/ data' = Grown(k, v) /\ NewSize(Len(data)) <= MaxSize
      \/ data' = data
  BY DEF Put
<1>3. data' \in Seq(Slots) /\ Len(data') <= MaxSize /\ PairInv(data')
  <2>1. CASE data' = [data EXCEPT ![First(usable)] = s]
    BY <1>1, <2>1, WriteSlot DEF IInv, TypeOK
  <2>2. CASE data' = Grown(k, v) /\ NewSize(Len(data)) <= MaxSize
    BY <2>2, GrownArray DEF IInv
  <2>3. CASE data' = data
    BY <2>3 DEF IInv, TypeOK
  <2> QED
    BY <1>2, <2>1, <2>2, <2>3
<1> QED
  BY <1>3, WriteInv DEF Put, IInv, TypeOK

\* The values that are in the array.
LEMMA FirstValue ==
  ASSUME IInv, NEW k, SlotsOf(k) # {}
  PROVE  /\ First(SlotsOf(k)) \in SlotsOf(k)
         /\ data[First(SlotsOf(k))].value \in Values \cup {Nothing}
<1>1. SlotsOf(k) \in SUBSET Nat /\ SlotsOf(k) \subseteq DOMAIN data
  BY LenProperties DEF SlotsOf, IInv
<1>2. First(SlotsOf(k)) \in SlotsOf(k)
  BY <1>1, FirstIsLeast
<1> QED
  BY <1>1, <1>2 DEF IInv, TypeOK, Slots

LEMMA GetInv ==
  ASSUME IInv, NEW t \in Threads, NEW k \in Keys, Get(t, k)
  PROVE  IInv'
<1>1. answer' \in (Keys \cup {Nothing}) \X (Values \cup {Nothing})
  BY FirstValue DEF Get
<1> QED
  BY <1>1, WriteInv DEF Get, IInv, TypeOK

LEMMA RemoveInv ==
  ASSUME IInv, NEW t \in Threads, NEW k \in Keys, Remove(t, k)
  PROVE  IInv'
<1>1. answer' \in (Keys \cup {Nothing}) \X (Values \cup {Nothing})
  BY FirstValue DEF Remove
<1>2. EmptySlot \in Slots
  BY DEF EmptySlot, Slots
<1>3. data' \in Seq(Slots) /\ Len(data') <= MaxSize /\ PairInv(data')
  BY <1>2, WriteSlot DEF Remove, IInv, TypeOK
<1> QED
  BY <1>1, <1>3, WriteInv DEF Remove

\* An array without the first such pair.
LEMMA WithoutArray ==
  ASSUME IInv, NEW k, NEW v
  PROVE  /\ Without(k, v) \in Seq(Slots) /\ Len(Without(k, v)) = Len(data)
         /\ DOMAIN Without(k, v) = DOMAIN data /\ PairInv(Without(k, v))
<1>1. EmptySlot \in Slots
  BY DEF EmptySlot, Slots
<1> QED
  BY <1>1, WriteSlot DEF Without, IInv

LEMMA MatchRemoveInv ==
  ASSUME IInv, NEW t \in Threads, NEW k \in Keys, NEW v \in Values, MatchRemove(t, k, v)
  PROVE  IInv'
BY WithoutArray, WriteInv DEF MatchRemove, IInv, TypeOK

LEMMA EmptyInv ==
  ASSUME IInv, NEW t \in Threads, Empty(t)
  PROVE  IInv'
<1>1. data' \in [DOMAIN data -> Slots]
  BY DEF Empty, EmptySlot, Slots
<1>2. data' \in Seq(Slots) /\ Len(data') = Len(data)
  BY <1>1, SameSize DEF IInv
<1>3. PairInv(data')
  BY DEF Empty, EmptySlot, PairInv
<1> QED
  BY <1>2, <1>3, WriteInv DEF Empty, IInv, TypeOK

LEMMA HasDataInv ==
  ASSUME IInv, NEW t \in Threads, HasData(t)
  PROVE  IInv'
<1>1. TypeOK'
  BY DEF HasData, IInv, TypeOK, iterVars
<1>2. MonitorBalanced'
  <2>1. owner = Nobody /\ entries = 0 /\ owner' = t /\ entries' = 1 /\ pos[t] = 0
    BY DEF HasData, Calls, IInv, TypeOK, MonitorBalanced
  <2>2. \A u \in Threads : kept[u] = 0 /\ pos[u] = 0
    <3> SUFFICES ASSUME NEW u \in Threads PROVE kept[u] = 0 /\ pos[u] = 0
      OBVIOUS
    <3>1. kept[u] + (IF pos[u] > 0 THEN 1 ELSE 0) = 0
      BY <2>1, StoreAssumption DEF IInv, MonitorBalanced
    <3> QED
      BY <3>1 DEF IInv, TypeOK
  <2>3. /\ pos' = pos /\ kept'[t] = 1
        /\ \A u \in Threads \ {t} : kept'[u] = 0
    BY <2>2 DEF HasData, iterVars, IInv, TypeOK
  <2> QED
    BY <2>1, <2>2, <2>3, StoreAssumption DEF MonitorBalanced
<1> QED
  BY <1>1, <1>2 DEF HasData, IInv, SweptInv, iterVars

LEMMA ForEachInv ==
  ASSUME IInv, NEW t \in Threads, NEW v \in Values \cup {Nothing}, ForEach(t, v)
  PROVE  IInv'
<1>1. TypeOK'
  BY DEF ForEach, IInv, TypeOK
<1>2. MonitorBalanced'
  BY StoreAssumption DEF ForEach, Calls, MayEnter, IInv, TypeOK, MonitorBalanced
<1>3. SweptInv'
  BY LenProperties DEF ForEach, IInv, TypeOK, SweptInv
<1> QED
  BY <1>1, <1>2, <1>3 DEF ForEach, IInv

\* gpsee_leaveMonitor by a thread that iterates.
LEMMA ReturnInv ==
  ASSUME IInv, NEW t \in Threads, pos[t] > 0, Return(t), UNCHANGED <<otm, data, answer>>
  PROVE  IInv'
<1>1. owner = t /\ entries = kept[t] + 1 /\ kept[t] \in Nat
  BY Holder DEF IInv, TypeOK
<1>2. TypeOK'
  BY <1>1 DEF Return, IInv, TypeOK
<1>3. MonitorBalanced'
  BY <1>1, StoreAssumption DEF Return, IInv, TypeOK, MonitorBalanced
<1>4. SweptInv'
  BY DEF Return, IInv, TypeOK, SweptInv
<1> QED
  BY <1>2, <1>3, <1>4 DEF IInv

LEMMA StopInv == ASSUME IInv, NEW t \in Threads, Stop(t) PROVE IInv'
<1>1. pos[t] > 0
  BY LenProperties DEF Stop, IInv
<1> QED
  BY <1>1, ReturnInv DEF Stop

LEMMA EndForEachInv == ASSUME IInv, NEW t \in Threads, EndForEach(t) PROVE IInv'
<1>1. pos[t] > 0
  BY LenProperties DEF EndForEach, IInv
<1> QED
  BY <1>1, ReturnInv DEF EndForEach

\* The callback that removes a pair: no pair behind the iteration is the same, so that the
\* first one is that of the slot it was called for.
LEMMA VisitInv ==
  ASSUME IInv, NEW t \in Threads, Visit(t)
  PROVE  IInv'
<1> DEFINE p == pos[t]
           w == target[t]
<1>1. DOMAIN data \subseteq Nat /\ p \in DOMAIN data /\ p > 0 /\ data[p] \in Slots
  BY LenProperties DEF Visit, IInv, TypeOK
<1>2. /\ data' \in Seq(Slots) /\ Len(data') = Len(data)
      /\ DOMAIN data' = DOMAIN data /\ PairInv(data')
  BY WithoutArray DEF Visit, IInv
<1>3. \A i \in DOMAIN data' : data'[i] \in Slots
  BY <1>2, LenProperties, ElementOfSeq
<1>4. TypeOK'
  BY <1>2, <1>3 DEF Visit, IInv, TypeOK, monVars
<1>5. MonitorBalanced'
  BY <1>1 DEF Visit, IInv, TypeOK, MonitorBalanced, monVars
<1>6. SweptInv'
  <2>1. \A u \in Threads : pos[u] > 0 => u = t
    BY <1>1, Holder
  <2>2. CASE w # Nothing /\ data[p].key # NoKey /\ data[p].value = w
    <3> DEFINE k == data[p].key
               S == {i \in SlotsOf(k) : data[i].value = w}
    <3>1. p \in S /\ S \in SUBSET Nat
      BY <1>1, <2>2 DEF SlotsOf
    <3>2. \A i \in S : ~(i < p)
      BY <1>1, <2>2 DEF IInv, SweptInv, SlotsOf
    <3>3. First(S) = p
      BY <3>1, <3>2, FirstIsLeast
    <3>4. data' = Emptied(p)
      BY <2>2, <3>1, <3>3 DEF Visit, Without
    <3>5. data'[p].key = NoKey
      BY <1>1, <3>4 DEF Emptied, Slots
    <3>6. \A i \in DOMAIN data \ {p} : data'[i] = data[i]
      BY <1>1, <3>4 DEF Emptied
    <3>7. target' = target /\ pos'[t] = p + 1 /\ \A u \in Threads \ {t} : pos'[u] = pos[u]
      BY DEF Visit, IInv, TypeOK
    <3>8. \A i \in DOMAIN data : i < p + 1 => i < p \/ i = p
      BY <1>1
    <3> QED
      BY <1>1, <1>2, <2>1, <3>5, <3>6, <3>7, <3>8 DEF IInv, SweptInv
  <2>3. CASE w # Nothing /\ ~(data[p].key # NoKey /\ data[p].value = w)
    <3>1. data' = data
      BY <2>3 DEF Visit
    <3> QED
      BY <1>1, <2>1, <2>3, <3>1 DEF Visit, IInv, TypeOK, SweptInv
  <2>4. CASE w = Nothing
    BY <2>1, <2>4 DEF Visit, IInv, TypeOK, SweptInv
  <2> QED
    BY <2>2, <2>3, <2>4
<1> QED
  BY <1>2, <1>4, <1>5, <1>6 DEF IInv

-----------------------------------------------------------------------------
(* The refinement: how often a pair is in the array                          *)

Places(d, p) == {i \in DOMAIN d : <<d[i].key, d[i].value>> = p}

Contents == [p \in Keys \X Values |-> Cardinality(Places(data, p))]

LEMMA CountIsNatural ==
  ASSUME NEW d \in Seq(Slots), NEW p
  PROVE  /\ IsFiniteSet(Places(d, p)) /\ Cardinality(Places(d, p)) \in Nat
         /\ Cardinality(Places(d, p)) > 0 <=> Places(d, p) # {}
<1>1. Len(d) \in Nat /\ DOMAIN d = 1..Len(d)
  BY LenProperties
<1>2. IsFiniteSet(DOMAIN d)
  BY <1>1, FS_Interval
<1>3. IsFiniteSet(Places(d, p))
  BY <1>2, FS_Subset DEF Places
<1> QED
  BY <1>3, FS_CardinalityType, FS_EmptySet

\* One slot is written: the pair it has held is there once less, and the one it holds
\* now once more.
LEMMA CountWrite ==
  ASSUME NEW d \in Seq(Slots), NEW e \in Seq(Slots), DOMAIN e = DOMAIN d,
         NEW i \in DOMAIN d, \A j \in DOMAIN d \ {i} : e[j] = d[j], NEW p
  PROVE  Cardinality(Places(e, p)) =
           Cardinality(Places(d, p)) - (IF <<d[i].key, d[i].value>> = p THEN 1 ELSE 0)
                                     + (IF <<e[i].key, e[i].value>> = p THEN 1 ELSE 0)
<1>1. Places(d, p) \ {i} = Places(e, p) \ {i}
  BY DEF Places
<1>2. /\ i \in Places(d, p) <=> <<d[i].key, d[i].value>> = p
      /\ i \in Places(e, p) <=> <<e[i].key, e[i].value>> = p
  BY DEF Places
<1> DEFINE m == Cardinality(Places(d, p))
           n == Cardinality(Places(e, p))
           x == Cardinality(Places(d, p) \ {i})
<1>3. IsFiniteSet(Places(d, p)) /\ IsFiniteSet(Places(e, p)) /\ m \in Nat /\ n \in Nat
  BY CountIsNatural
<1>4. x = (IF i \in Places(d, p) THEN m - 1 ELSE m)
  BY <1>3, FS_RemoveElement
<1>5. x = (IF i \in Places(e, p) THEN n - 1 ELSE n)
  BY <1>1, <1>3, FS_RemoveElement
<1> HIDE DEF m, n, x
<1>6. n = m - (IF i \in Places(d, p) THEN 1 ELSE 0) + (IF i \in Places(e, p) THEN 1 ELSE 0)
  BY <1>3, <1>4, <1>5
<1> QED
  BY <1>2, <1>6 DEF m, n

\* The array grows for a pair, which is there once more.
LEMMA CountGrown ==
  ASSUME IInv, NEW k \in Keys, NEW v \in Values, NEW p \in Keys \X Values
  PROVE  Cardinality(Places(Grown(k, v), p)) =
           Cardinality(Places(data, p)) + (IF p = <<k, v>> THEN 1 ELSE 0)
<1> DEFINE n == Len(data)
           d == Grown(k, v)
<1>1. n \in Nat /\ DOMAIN data = 1..n /\ DOMAIN d = 1..NewSize(n) /\ NewSize(n) \in Nat
      /\ NewSize(n) > n
  BY GrownArray DEF IInv
<1>2. /\ \A i \in 1..n : d[i] = data[i]
      /\ d[n + 1] = [key |-> k, value |-> v]
      /\ \A i \in 1..NewSize(n) : i > n + 1 => d[i] = EmptySlot
  BY <1>1 DEF Grown
<1>3. <<EmptySlot.key, EmptySlot.value>> # p
  BY StoreAssumption DEF EmptySlot
<1>4. \A i \in 1..NewSize(n) : i \in 1..n \/ i = n + 1 \/ i > n + 1
  BY <1>1
<1>5. n + 1 \in 1..NewSize(n) /\ n + 1 \notin 1..n /\ 1..n \subseteq 1..NewSize(n)
  BY <1>1
<1>6. Places(d, p) = Places(data, p) \cup (IF p = <<k, v>> THEN {n + 1} ELSE {})
  BY <1>1, <1>2, <1>3, <1>4, <1>5 DEF Places
<1>7. n + 1 \notin Places(data, p) /\ IsFiniteSet(Places(data, p))
      /\ Cardinality(Places(data, p)) \in Nat
  BY <1>1, <1>5, CountIsNatural DEF Places, IInv
<1>8. CASE p = <<k, v>>
  <2>1. Places(d, p) = Places(data, p) \cup {n + 1}
    BY <1>6, <1>8
  <2>2. Cardinality(Places(data, p) \cup {n + 1}) = Cardinality(Places(data, p)) + 1
    BY <1>7, FS_AddElement
  <2> QED
    BY <1>8, <2>1, <2>2
<1>9. CASE p # <<k, v>>
  <2>1. Places(d, p) = Places(data, p)
    BY <1>6, <1>9
  <2> QED
    BY <1>7, <1>9, <2>1
<1> QED
  BY <1>8, <1>9

-----------------------------------------------------------------------------
(* What the operations do to the contents                                    *)

\* How often a pair is in the array is a number, and positive for the pair of a slot.
LEMMA ContentsNatural ==
  ASSUME IInv
  PROVE  /\ Contents \in [Keys \X Values -> Nat]
         /\ \A i \in DOMAIN data : data[i].key \in Keys =>
              /\ data[i].value \in Values
              /\ Contents[<<data[i].key, data[i].value>>] > 0
<1>1. Contents \in [Keys \X Values -> Nat]
  BY CountIsNatural DEF Contents, IInv
<1>2. ASSUME NEW i \in DOMAIN data, data[i].key \in Keys
      PROVE  data[i].value \in Values /\ Contents[<<data[i].key, data[i].value>>] > 0
  <2> DEFINE q == <<data[i].key, data[i].value>>
  <2>1. q \in Keys \X Values /\ data[i].value \in Values
    BY <1>2, StoreAssumption DEF IInv, PairInv
  <2>2. i \in Places(data, q)
    BY <1>2 DEF Places
  <2>3. Cardinality(Places(data, q)) > 0
    BY <2>2, CountIsNatural DEF IInv
  <2> QED
    BY <2>1, <2>3 DEF Contents
<1> QED
  BY <1>1, <1>2

\* And no pair that is in no slot.
LEMMA ContentsHeld ==
  ASSUME IInv, NEW k \in Keys, NEW v \in Values, Contents[<<k, v>>] > 0
  PROVE  \E i \in DOMAIN data : data[i].key = k /\ data[i].value = v
<1>1. Cardinality(Places(data, <<k, v>>)) > 0
  BY DEF Contents
<1>2. Places(data, <<k, v>>) # {}
  BY <1>1, CountIsNatural DEF IInv
<1> QED
  BY <1>2 DEF Places

\* A pair is removed: it is there once less.
LEMMA ContentsDrop ==
  ASSUME IInv, NEW i \in DOMAIN data, data[i].key \in Keys, data' = Emptied(i)
  PROVE  Contents' = [Contents EXCEPT ![<<data[i].key, data[i].value>>] = @ - 1]
<1> DEFINE q == <<data[i].key, data[i].value>>
<1>1. data \in [DOMAIN data -> Slots] /\ data \in Seq(Slots)
  BY LenProperties DEF IInv
<1>2. EmptySlot \in Slots
  BY DEF EmptySlot, Slots
<1>3. data' \in Seq(Slots) /\ DOMAIN data' = DOMAIN data
  BY <1>2, WriteSlot
<1>4. data'[i].key = NoKey /\ \A j \in DOMAIN data \ {i} : data'[j] = data[j]
  BY <1>1 DEF Emptied, Slots
<1>5. ASSUME NEW p \in Keys \X Values
      PROVE  Cardinality(Places(data', p)) =
               IF p = q THEN Cardinality(Places(data, p)) - 1
               ELSE Cardinality(Places(data, p))
  <2>1. <<data'[i].key, data'[i].value>> # p
    BY <1>4, <1>5, StoreAssumption
  <2>2. Cardinality(Places(data', p)) =
          Cardinality(Places(data, p)) - (IF q = p THEN 1 ELSE 0) + 0
    BY <1>1, <1>3, <1>4, <2>1, CountWrite
  <2>3. Cardinality(Places(data, p)) \in Nat
    BY <1>1, CountIsNatural
  <2> QED
    BY <2>2, <2>3
<1>6. Contents' = [p \in Keys \X Values |-> Cardinality(Places(data', p))]
  BY DEF Contents, Places
<1> QED
  BY <1>5, <1>6 DEF Contents

\* The contents c with the pair q once less and the pair r once more.
Exchanged(c, q, r) == [[c EXCEPT ![q] = @ - 1] EXCEPT ![r] = @ + 1]

\* A pair is stored in a slot: it is there once more, and the pair it replaces once less.
LEMMA ContentsStore ==
  ASSUME IInv, NEW i \in DOMAIN data, NEW k \in Keys, NEW v \in Values,
         data' = [data EXCEPT ![i] = [key |-> k, value |-> v]]
  PROVE  /\ data[i].key = NoKey => Contents' = [Contents EXCEPT ![<<k, v>>] = @ + 1]
         /\ data[i].key = k =>
              Contents' = Exchanged(Contents, <<k, data[i].value>>, <<k, v>>)
<1> DEFINE q == <<data[i].key, data[i].value>>
           C(p) == Cardinality(Places(data, p))
           D(p) == Cardinality(Places(data', p))
<1>1. data \in [DOMAIN data -> Slots] /\ data \in Seq(Slots)
  BY LenProperties DEF IInv
<1>2. [key |-> k, value |-> v] \in Slots
  BY DEF Slots
<1>3. data' \in Seq(Slots) /\ data' \in [DOMAIN data -> Slots] /\ DOMAIN data' = DOMAIN data
  BY <1>1, <1>2, WriteSlot
<1>4. /\ data'[i] = [key |-> k, value |-> v]
      /\ \A j \in DOMAIN data \ {i} : data'[j] = data[j]
  BY <1>1
<1>5. ASSUME NEW p \in Keys \X Values
      PROVE  D(p) = C(p) - (IF q = p THEN 1 ELSE 0) + (IF <<k, v>> = p THEN 1 ELSE 0)
  <2>1. D(p) = C(p) - (IF <<data[i].key, data[i].value>> = p THEN 1 ELSE 0)
                    + (IF <<data'[i].key, data'[i].value>> = p THEN 1 ELSE 0)
    <3> HIDE DEF q
    <3>1. data \in Seq(Slots) /\ data' \in Seq(Slots) /\ DOMAIN data' = DOMAIN data
      BY <1>1, <1>3
    <3>2. \A j \in DOMAIN data \ {i} : data'[j] = data[j]
      BY <1>4
    <3> QED
      BY ONLY <3>1, <3>2, <1>5, i \in DOMAIN data, CountWrite
  <2>2. data'[i].key = k /\ data'[i].value = v
    BY <1>4
  <2> QED
    BY <2>1, <2>2
<1>6. Contents' = [p \in Keys \X Values |-> D(p)]
  BY DEF Contents, Places
<1>7. \A p \in Keys \X Values : C(p) \in Nat
  BY <1>1, CountIsNatural
<1>8. Contents = [p \in Keys \X Values |-> C(p)]
  BY DEF Contents
<1> HIDE DEF C, D
<1>9. CASE data[i].key = NoKey
  <2>1. \A p \in Keys \X Values : q # p
    BY <1>9, StoreAssumption
  <2>2. NoKey # k
    BY StoreAssumption
  <2>3. Contents' = [p \in Keys \X Values |-> IF <<k, v>> = p THEN C(p) + 1 ELSE C(p)]
    BY <1>5, <1>6, <1>7, <2>1
  <2>4. Contents' = [Contents EXCEPT ![<<k, v>>] = @ + 1]
    BY <1>8, <2>3
  <2> QED
    BY <1>9, <2>2, <2>4
<1>10. CASE data[i].key = k
  <2> DEFINE o == data[i].value
  <2>1. o \in Values /\ q = <<k, o>> /\ k # NoKey
    BY <1>10, StoreAssumption DEF IInv, PairInv
  <2>2. CASE o = v
    <3>1. \A p \in Keys \X Values : D(p) = C(p)
      BY <1>5, <1>7, <2>1, <2>2
    <3>2. Contents' = Contents
      BY <1>6, <1>8, <3>1
    <3>3. Exchanged(Contents, <<k, o>>, <<k, v>>) = Contents
      BY <1>7, <1>8, <2>1, <2>2 DEF Exchanged
    <3> QED
      BY <1>10, <2>1, <3>2, <3>3
  <2>3. CASE o # v
    <3>1. <<k, o>> # <<k, v>>
      BY <2>3
    <3>2. Contents' = [p \in Keys \X Values |->
             IF p = <<k, o>> THEN C(p) - 1 ELSE IF p = <<k, v>> THEN C(p) + 1 ELSE C(p)]
      BY <1>5, <1>6, <1>7, <2>1, <3>1
    <3>3. Contents' = Exchanged(Contents, <<k, o>>, <<k, v>>)
      BY <1>8, <2>1, <3>1, <3>2 DEF Exchanged
    <3> QED
      BY <1>10, <2>1, <3>3
  <2> QED
    BY <2>2, <2>3
<1> QED
  BY <1>9, <1>10

\* The array grows for a pair: it is there once more.
LEMMA ContentsGrown ==
  ASSUME IInv, NEW k \in Keys, NEW v \in Values, data' = Grown(k, v)
  PROVE  Contents' = [Contents EXCEPT ![<<k, v>>] = @ + 1]
<1> DEFINE C(p) == Cardinality(Places(data, p))
           D(p) == Cardinality(Places(Grown(k, v), p))
<1>1. \A p \in Keys \X Values : D(p) = C(p) + (IF p = <<k, v>> THEN 1 ELSE 0)
  BY CountGrown
<1>2. Contents' = [p \in Keys \X Values |-> D(p)]
  BY DEF Contents, Places
<1>3. Contents = [p \in Keys \X Values |-> C(p)] /\ \A p \in Keys \X Values : C(p) \in Nat
  BY CountIsNatural DEF Contents, IInv
<1> HIDE DEF C, D
<1>4. Contents' = [p \in Keys \X Values |-> IF p = <<k, v>> THEN C(p) + 1 ELSE C(p)]
  BY <1>1, <1>2, <1>3
<1> QED
  BY <1>3, <1>4

-----------------------------------------------------------------------------
(* The abstract actions, in terms of Contents                                *)

LEMMA AsInsert ==
  ASSUME NEW k \in Keys, NEW v \in Values,
         Contents' = [Contents EXCEPT ![<<k, v>>] = @ + 1], UNCHANGED answer
  PROVE  Store!Insert(k, v)
BY DEF Contents, Places, Store!Insert

LEMMA AsOverwrite ==
  ASSUME NEW k \in Keys, NEW v \in Values, NEW o \in Values, Contents[<<k, o>>] > 0,
         Contents' = Exchanged(Contents, <<k, o>>, <<k, v>>), UNCHANGED answer
  PROVE  Store!Overwrite(k, o, v)
BY DEF Exchanged, Contents, Places, Store!Overwrite, Store!Has

LEMMA AsLookup ==
  ASSUME NEW k \in Keys, NEW v \in Values, Contents[<<k, v>>] > 0,
         UNCHANGED Contents, answer' = <<k, v>>
  PROVE  Store!Lookup(k, v)
BY DEF Contents, Places, Store!Lookup, Store!Has

LEMMA AsMiss ==
  ASSUME NEW k \in Keys, \A v \in Values : ~(Contents[<<k, v>>] > 0),
         UNCHANGED Contents, answer' = <<k, Nothing>>
  PROVE  Store!Miss(k)
BY DEF Contents, Places, Store!Miss, Store!Has

LEMMA AsTake ==
  ASSUME NEW k \in Keys, NEW v \in Values, Contents[<<k, v>>] > 0,
         Contents' = [Contents EXCEPT ![<<k, v>>] = @ - 1], answer' = <<k, v>>
  PROVE  Store!Take(k, v)
BY DEF Contents, Places, Store!Take, Store!Has

LEMMA AsDelete ==
  ASSUME NEW k \in Keys, NEW v \in Values, Contents[<<k, v>>] > 0,
         Contents' = [Contents EXCEPT ![<<k, v>>] = @ - 1], UNCHANGED answer
  PROVE  Store!Delete(k, v)
BY DEF Contents, Places, Store!Delete, Store!Has

LEMMA AsClear ==
  ASSUME Contents' = [p \in Keys \X Values |-> 0], UNCHANGED answer
  PROVE  Store!Clear
BY DEF Contents, Places, Store!Clear, Store!Pairs

LEMMA AsStutter ==
  ASSUME UNCHANGED <<Contents, answer>>
  PROVE  UNCHANGED Store!storeVars
BY DEF Contents, Places, Store!storeVars

-----------------------------------------------------------------------------

LEMMA NextInv == IInv /\ [Next]_vars => IInv'
<1> SUFFICES ASSUME IInv, [Next]_vars PROVE IInv'
  OBVIOUS
<1>1. CASE UNCHANGED vars
  BY <1>1 DEF IInv, TypeOK, MonitorBalanced, SweptInv, vars, monVars, iterVars
<1>2. CASE Next
  BY <1>2, PutInv, MatchRemoveInv, GetInv, RemoveInv, ForEachInv, EmptyInv, HasDataInv,
     VisitInv, StopInv, EndForEachInv DEF Next
<1> QED
  BY <1>1, <1>2

LEMMA Invariance == Spec => []IInv
  BY InitIInv, NextInv, PTL DEF Spec

\* The model of gpsee_datastores.c is well typed.
THEOREM StoreTypeCorrect == Spec => []TypeOK
  BY Invariance, PTL DEF IInv

\* Each routine of gpsee_datastores.c but gpsee_ds_hasData leaves the monitor as often as
\* it enters it, and none leaves one that it has not entered.
THEOREM StoreMonitorBalanced == Spec => []MonitorBalanced
  BY Invariance, PTL DEF IInv

\* gpsee_removeAllGCCallbacks_forRealm leaves no callback of the realm, although it removes
\* from the store it iterates over.
THEOREM NoneLeftBehind == Spec => []NoneLeftForRealm
<1>1. IInv => NoneLeftForRealm
  BY LenProperties DEF IInv, SweptInv, NoneLeftForRealm
<1> QED
  BY <1>1, Invariance, PTL

\* No routine that another thread calls changes the store under an iteration, whose monitor
\* keeps it out.
THEOREM NothingChangesUnderIteration == Spec => NoChangeUnderIteration
<1> DEFINE A == \A t \in Threads : pos[t] > 0 /\ data' # data => pos'[t] > 0 /\ pos' # pos
<1>1. ASSUME IInv, [Next]_vars PROVE A
  <2> SUFFICES ASSUME NEW t \in Threads, pos[t] > 0, data' # data
               PROVE  pos'[t] > 0 /\ pos' # pos
    OBVIOUS
  <2>1. PICK u \in Threads :
          \/ \E k \in Keys, v \in Values : Put(u, k, v) \/ MatchRemove(u, k, v)
          \/ \E k \in Keys : Get(u, k) \/ Remove(u, k)
          \/ \E v \in Values \cup {Nothing} : ForEach(u, v)
          \/ Empty(u) \/ HasData(u) \/ Visit(u) \/ Stop(u) \/ EndForEach(u)
    BY <1>1 DEF Next, vars
  <2>2. CASE Calls(u)
    <3>1. pos[t] = 0
      BY <1>1, <2>2, CallAlone
    <3> QED
      BY <3>1
  <2>3. CASE Visit(u)
    <3>1. pos[u] \in Nat /\ pos[u] > 0 /\ pos \in [Threads -> Nat]
      BY <1>1, <2>3, LenProperties DEF Visit, IInv, TypeOK
    <3>2. u = t
      BY <1>1, <3>1, Holder
    <3> QED
      BY <2>3, <3>1, <3>2 DEF Visit
  <2>4. Calls(u) \/ Visit(u)
    BY <2>1 DEF Put, MatchRemove, Get, Remove, ForEach, Empty, HasData, Stop, EndForEach
  <2> QED
    BY <2>2, <2>3, <2>4
<1> QED
  BY <1>1, Invariance, PTL DEF Spec, NoChangeUnderIteration

-----------------------------------------------------------------------------
(* Each operation is one of the abstract store, or changes nothing there     *)

\* A step of the abstract store, or none.
Simulated == Store!StoreNext \/ UNCHANGED Store!storeVars

LEMMA PutSimulates ==
  ASSUME IInv, NEW t \in Threads, NEW k \in Keys, NEW v \in Values, Put(t, k, v)
  PROVE  Simulated
<1> DEFINE usable == IF otm THEN {} ELSE SlotsOf(k) \cup SlotsOf(NoKey)
           i == First(usable)
<1>1. CASE usable # {}
  <2>1. usable \in SUBSET Nat /\ usable \subseteq DOMAIN data
    BY LenProperties DEF SlotsOf, IInv
  <2>2. i \in usable
    BY <1>1, <2>1, FirstIsLeast
  <2>3. i \in DOMAIN data /\ (data[i].key = k \/ data[i].key = NoKey)
    BY <2>1, <2>2 DEF SlotsOf
  <2>4. data' = [data EXCEPT ![i] = [key |-> k, value |-> v]] /\ UNCHANGED answer
    BY <1>1 DEF Put
  <2> HIDE DEF i
  <2>5. CASE data[i].key = NoKey
    <3>1. Contents' = [Contents EXCEPT ![<<k, v>>] = @ + 1]
      BY <2>3, <2>4, <2>5, ContentsStore
    <3>2. Store!Insert(k, v)
      BY <2>4, <3>1, AsInsert
    <3> QED
      BY <3>2 DEF Simulated, Store!StoreNext
  <2>6. CASE data[i].key = k
    <3> DEFINE o == data[i].value
    <3>1. o \in Values /\ Contents[<<k, o>>] > 0
      BY <2>3, <2>6, ContentsNatural
    <3>2. Contents' = Exchanged(Contents, <<k, o>>, <<k, v>>)
      BY <2>3, <2>4, <2>6, ContentsStore
    <3>3. Store!Overwrite(k, o, v)
      BY <2>4, <3>1, <3>2, AsOverwrite
    <3> QED
      BY <3>1, <3>3 DEF Simulated, Store!StoreNext
  <2> QED
    BY <2>3, <2>5, <2>6
<1>2. CASE usable = {} /\ data' = Grown(k, v)
  <2>1. Store!Insert(k, v)
    BY <1>2, ContentsGrown, AsInsert DEF Put
  <2> QED
    BY <2>1 DEF Simulated, Store!StoreNext
<1>3. CASE UNCHANGED data
  <2>1. UNCHANGED Store!storeVars
    BY <1>3, AsStutter DEF Put, Contents, Places
  <2> QED
    BY <2>1 DEF Simulated
<1> QED
  BY <1>1, <1>2, <1>3 DEF Put

\* A key that is in no slot is the key of no pair.
LEMMA NoSlot ==
  ASSUME IInv, NEW k \in Keys, SlotsOf(k) = {}
  PROVE  \A v \in Values : ~(Contents[<<k, v>>] > 0)
BY ContentsHeld DEF SlotsOf

LEMMA GetSimulates ==
  ASSUME IInv, NEW t \in Threads, NEW k \in Keys, Get(t, k)
  PROVE  Simulated
<1> DEFINE i == First(SlotsOf(k))
           v == data[i].value
<1>1. UNCHANGED Contents
  BY DEF Get, Contents, Places
<1>2. CASE SlotsOf(k) = {}
  <2>1. Store!Miss(k)
    BY <1>1, <1>2, NoSlot, AsMiss DEF Get
  <2> QED
    BY <2>1 DEF Simulated, Store!StoreNext
<1>3. CASE SlotsOf(k) # {}
  <2>1. i \in DOMAIN data /\ data[i].key = k
    BY <1>3, FirstValue DEF SlotsOf
  <2>2. answer' = <<k, v>>
    BY <1>3 DEF Get
  <2> HIDE DEF i
  <2>3. v \in Values /\ Contents[<<k, v>>] > 0
    BY <2>1, ContentsNatural
  <2>4. Store!Lookup(k, v)
    BY <1>1, <2>2, <2>3, AsLookup
  <2> QED
    BY <2>3, <2>4 DEF Simulated, Store!StoreNext
<1> QED
  BY <1>2, <1>3

LEMMA RemoveSimulates ==
  ASSUME IInv, NEW t \in Threads, NEW k \in Keys, Remove(t, k)
  PROVE  Simulated
<1> DEFINE i == First(SlotsOf(k))
           v == data[i].value
<1>1. CASE SlotsOf(k) = {}
  <2>1. UNCHANGED Contents /\ answer' = <<k, Nothing>>
    BY <1>1 DEF Remove, Contents, Places
  <2>2. Store!Miss(k)
    BY <1>1, <2>1, NoSlot, AsMiss
  <2> QED
    BY <2>2 DEF Simulated, Store!StoreNext
<1>2. CASE SlotsOf(k) # {}
  <2>1. i \in DOMAIN data /\ data[i].key = k
    BY <1>2, FirstValue DEF SlotsOf
  <2>2. answer' = <<k, v>> /\ data' = Emptied(i)
    BY <1>2 DEF Remove
  <2> HIDE DEF i
  <2>3. v \in Values /\ Contents[<<k, v>>] > 0
    BY <2>1, ContentsNatural
  <2>4. Contents' = [Contents EXCEPT ![<<k, v>>] = @ - 1]
    BY <2>1, <2>2, ContentsDrop
  <2>5. Store!Take(k, v)
    BY <2>2, <2>3, <2>4, AsTake
  <2> QED
    BY <2>3, <2>5 DEF Simulated, Store!StoreNext
<1> QED
  BY <1>1, <1>2

\* The two calls that remove a pair by key and value.
LEMMA WithoutSimulates ==
  ASSUME IInv, NEW k \in Keys, NEW v \in Values, data' = Without(k, v), UNCHANGED answer
  PROVE  Simulated
<1> DEFINE S == {i \in SlotsOf(k) : data[i].value = v}
           i == First(S)
<1>1. CASE S = {}
  <2>1. UNCHANGED Store!storeVars
    BY <1>1, AsStutter DEF Without, Contents, Places
  <2> QED
    BY <2>1 DEF Simulated
<1>2. CASE S # {}
  <2>1. S \in SUBSET Nat /\ S \subseteq DOMAIN data
    BY LenProperties DEF SlotsOf, IInv
  <2>2. i \in S
    BY <1>2, <2>1, FirstIsLeast
  <2>3. i \in DOMAIN data /\ data[i].key = k /\ data[i].value = v
    BY <2>1, <2>2 DEF SlotsOf
  <2>4. data' = Emptied(i)
    BY <1>2 DEF Without
  <2> HIDE DEF i
  <2>5. Contents[<<k, v>>] > 0
    BY <2>3, ContentsNatural
  <2>6. Contents' = [Contents EXCEPT ![<<k, v>>] = @ - 1]
    BY <2>3, <2>4, ContentsDrop
  <2>7. Store!Delete(k, v)
    BY <2>5, <2>6, AsDelete
  <2> QED
    BY <2>7 DEF Simulated, Store!StoreNext
<1> QED
  BY <1>1, <1>2

LEMMA VisitSimulates ==
  ASSUME IInv, NEW t \in Threads, Visit(t)
  PROVE  Simulated
<1> DEFINE slot == data[pos[t]]
<1>1. slot \in Slots /\ UNCHANGED answer
  BY DEF Visit, IInv, TypeOK
<1>2. CASE slot.key # NoKey /\ slot.value = target[t]
  <2>1. slot.key \in Keys /\ slot.value \in Values
    BY <1>1, <1>2 DEF Slots, Visit, IInv, PairInv
  <2>2. data' = Without(slot.key, slot.value)
    BY <1>2 DEF Visit
  <2> HIDE DEF slot
  <2> QED
    BY <1>1, <2>1, <2>2, WithoutSimulates
<1>3. CASE ~(slot.key # NoKey /\ slot.value = target[t])
  <2>1. UNCHANGED Store!storeVars
    BY <1>1, <1>3, AsStutter DEF Visit, Contents, Places
  <2> QED
    BY <2>1 DEF Simulated
<1> QED
  BY <1>2, <1>3

\* An array of empty slots holds no pair.
LEMMA NoPairs ==
  ASSUME NEW d, \A i \in DOMAIN d : d[i] = EmptySlot, NEW p \in Keys \X Values
  PROVE  Cardinality(Places(d, p)) = 0
<1>1. Places(d, p) = {}
  BY StoreAssumption DEF Places, EmptySlot
<1> QED
  BY <1>1, FS_EmptySet

LEMMA EmptySimulates == ASSUME IInv, NEW t \in Threads, Empty(t) PROVE Simulated
<1>1. \A i \in DOMAIN data' : data'[i] = EmptySlot
  BY DEF Empty
<1>2. \A p \in Keys \X Values : Cardinality(Places(data', p)) = 0
  BY <1>1, NoPairs
<1>3. Contents' = [p \in Keys \X Values |-> 0]
  BY <1>2 DEF Contents, Places
<1>4. Store!Clear
  BY <1>3, AsClear DEF Empty
<1> QED
  BY <1>4 DEF Simulated, Store!StoreNext

LEMMA InitSimulates == Init => Store!StoreInit
<1> SUFFICES ASSUME Init PROVE Store!StoreInit
  OBVIOUS
<1>1. \A i \in DOMAIN data : data[i] = EmptySlot
  BY DEF Init
<1>2. \A p \in Keys \X Values : Cardinality(Places(data, p)) = 0
  BY <1>1, NoPairs
<1> QED
  BY <1>2 DEF Init, Store!StoreInit, Store!Pairs, Places

LEMMA NextSimulates == IInv /\ [Next]_vars => Simulated
<1> SUFFICES ASSUME IInv, [Next]_vars PROVE Simulated
  OBVIOUS
<1>1. CASE UNCHANGED <<data, answer>>
  BY <1>1, AsStutter DEF Simulated, Contents, Places
<1>2. CASE Next
  <2> PICK t \in Threads :
        \/ \E k \in Keys, v \in Values : Put(t, k, v) \/ MatchRemove(t, k, v)
        \/ \E k \in Keys : Get(t, k) \/ Remove(t, k)
        \/ \E v \in Values \cup {Nothing} : ForEach(t, v)
        \/ Empty(t) \/ HasData(t) \/ Visit(t) \/ Stop(t) \/ EndForEach(t)
    BY <1>2 DEF Next
  <2>1. CASE \E k \in Keys, v \in Values : Put(t, k, v)
    BY <2>1, PutSimulates
  <2>2. CASE \E k \in Keys, v \in Values : MatchRemove(t, k, v)
    BY <2>2, WithoutSimulates DEF MatchRemove
  <2>3. CASE \E k \in Keys : Get(t, k) \/ Remove(t, k)
    BY <2>3, GetSimulates, RemoveSimulates
  <2>4. CASE Empty(t) \/ Visit(t)
    BY <2>4, EmptySimulates, VisitSimulates
  <2>5. CASE \/ HasData(t) \/ Stop(t) \/ EndForEach(t)
             \/ \E v \in Values \cup {Nothing} : ForEach(t, v)
    BY <1>1, <2>5 DEF HasData, Stop, EndForEach, ForEach
  <2> QED
    BY <2>1, <2>2, <2>3, <2>4, <2>5
<1> QED
  BY <1>1, <1>2 DEF vars

\* The array of gpsee_datastores.c, with its holes and its growth, is a store of pairs.
THEOREM StoreImplemented == Spec => ImplementsStore
<1>1. IInv /\ [Next]_vars => [Store!StoreNext]_Store!storeVars
  BY NextSimulates DEF Simulated
<1> QED
  BY <1>1, InitSimulates, Invariance, PTL DEF Spec, ImplementsStore, Store!StoreSpec
=============================================================================
