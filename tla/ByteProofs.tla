------------------------------ MODULE ByteProofs ------------------------------
(***************************************************************************)
(* The byte strings and byte arrays for any number of objects, any         *)
(* capacities and any lengths.  The argument: a buffer is the one of the   *)
(* object that owns it, whatever shares it is a copy of the owner's        *)
(* handle, and such handles do not change (HandleInv); so a method that    *)
(* writes to the buffer of its array, or makes it larger, changes the list *)
(* of no other object, and what the collector frees is in use by nobody.   *)
(* The list that such a method leaves is the beginning of what it writes   *)
(* (ReadOff), which is what ByteLists says of it.                          *)
(***************************************************************************)
EXTENDS ByteThings, NaturalRecursion, SequenceTheorems

\* What holds of each handle.
HandleInv(o) ==
  LET h == handle[o] IN
  /\ h.buffer \in {Null, Wild, h.memoryOwner}
  /\ h.memoryOwner = o \/ (h.immutable /\ handle[h.memoryOwner] = h)
  /\ h.immutable => h.class = "ByteString"
  /\ h.buffer = Wild => h.length = 0
  /\ h.buffer \notin Objects => h.capacity = 0
  /\ h.buffer \in Objects =>
       /\ heap[h.buffer] # FreeBlock
       /\ h.length <= Len(heap[h.buffer]) /\ h.capacity <= Len(heap[h.buffer])

ByteInv ==
  /\ ByteTypeOK
  /\ \A o \in Objects : handle[o] # NoHandle => HandleInv(o)

-----------------------------------------------------------------------------
(* Numbers                                                                   *)

\* The greater and the lesser of two.
LEMMA MaxTwo ==
  ASSUME NEW a \in Int, NEW b \in Int
  PROVE  Max({a, b}) = IF a >= b THEN a ELSE b
<1> DEFINE m == IF a >= b THEN a ELSE b
<1>1. m \in {a, b} /\ \A y \in {a, b} : m >= y
  OBVIOUS
<1>2. \A x \in {a, b} : (\A y \in {a, b} : x >= y) => x = m
  OBVIOUS
<1> HIDE DEF m
<1>3. Max({a, b}) = m
  BY <1>1, <1>2 DEF Max
<1> QED
  BY <1>3 DEF m

LEMMA MinTwo ==
  ASSUME NEW a \in Int, NEW b \in Int
  PROVE  Min({a, b}) = IF a <= b THEN a ELSE b
<1> DEFINE m == IF a <= b THEN a ELSE b
<1>1. m \in {a, b} /\ \A y \in {a, b} : m <= y
  OBVIOUS
<1>2. \A x \in {a, b} : (\A y \in {a, b} : x <= y) => x = m
  OBVIOUS
<1> HIDE DEF m
<1>3. Min({a, b}) = m
  BY <1>1, <1>2 DEF Min
<1> QED
  BY <1>3 DEF m

\* The capacities are what their recursive definition says, and as large as need be.
LEMMA DoubledIs ==
  /\ Doubled[0] = MinCapacity
  /\ \A k \in Nat : Doubled[k + 1] = 2 * Doubled[k]
  /\ \A k \in Nat : Doubled[k] \in Nat /\ Doubled[k] > k
<1> DEFINE twice == [n \in Nat |-> 2 * n]
           S == Nat
<1>1. twice \in [S -> S] /\ MinCapacity \in S
  BY ByteAssumption
<1>2. PICK f \in [Nat -> S] : f[0] = MinCapacity /\ \A k \in Nat : f[k + 1] = twice[f[k]]
  <2> HIDE DEF twice, S
  <2> QED
    BY <1>1, Iteration
<1>3. f = [n \in Nat |-> IF n = 0 THEN MinCapacity ELSE 2 * f[n - 1]]
  <2>1. ASSUME NEW n \in Nat, n # 0
        PROVE  f[n] = 2 * f[n - 1]
    <3>1. n - 1 \in Nat /\ (n - 1) + 1 = n
      BY <2>1
    <3> QED
      BY <1>2, <3>1
  <2> QED
    BY <1>2, <2>1
<1>4. Doubled = [n \in Nat |-> IF n = 0 THEN MinCapacity ELSE 2 * Doubled[n - 1]]
  BY <1>3 DEF Doubled
<1>5. Doubled[0] = MinCapacity /\ \A k \in Nat : Doubled[k + 1] = 2 * Doubled[k]
  BY <1>4
<1> DEFINE T == {k \in Nat : Doubled[k] \in Nat /\ Doubled[k] > k}
<1>6. T = Nat
  <2>1. 0 \in T
    BY <1>5, ByteAssumption
  <2>2. ASSUME NEW k \in T
        PROVE  k + 1 \in T
    BY <1>5
  <2>3. T \subseteq Nat
    OBVIOUS
  <2> HIDE DEF T
  <2> QED
    BY <2>1, <2>2, <2>3, Induction
<1> QED
  BY <1>5, <1>6

LEMMA DoubledGrows ==
  ASSUME NEW m \in Nat
  PROVE  \A k \in 0..m : Doubled[k] <= Doubled[m]
<1> DEFINE T == {n \in Nat : \A k \in 0..n : Doubled[k] <= Doubled[n]}
<1>1. 0 \in T
  BY DoubledIs
<1>2. ASSUME NEW n \in T
      PROVE  n + 1 \in T
  <2>1. Doubled[n + 1] = 2 * Doubled[n] /\ Doubled[n] \in Nat
    BY DoubledIs
  <2>2. ASSUME NEW k \in 0..(n + 1)
        PROVE  Doubled[k] <= Doubled[n + 1]
    <3>1. CASE k = n + 1
      BY <2>1, <3>1
    <3>2. CASE k # n + 1
      <4>1. k \in 0..n /\ Doubled[k] \in Nat
        BY <3>2, DoubledIs
      <4> QED
        BY <2>1, <4>1
    <3> QED
      BY <3>1, <3>2
  <2> QED
    BY <2>2
<1>3. T \subseteq Nat
  OBVIOUS
<1>4. T = Nat
  <2> HIDE DEF T
  <2> QED
    BY <1>1, <1>2, <1>3, Induction
<1> QED
  BY <1>4

\* The capacity that byteArray_requestSize asks for is enough, and no larger than the
\* bound of lists makes necessary.
LEMMA RoundUpIs ==
  ASSUME NEW n \in 0..(MaxLength + 1)
  PROVE  RoundUp(n) \in 0..Doubled[MaxLength] /\ RoundUp(n) >= n
<1> DEFINE C == {c \in {Doubled[k] : k \in 0..n} : c >= n}
<1>1. C \subseteq Nat
  BY DoubledIs
<1>2. PICK j \in 0..n : j <= MaxLength /\ j + 1 >= n
  <2>1. MaxLength \in Nat
    BY ByteAssumption
  <2>2. CASE n = 0
    BY <2>1, <2>2
  <2>3. CASE n # 0
    <3>1. n - 1 \in 0..n /\ n - 1 <= MaxLength /\ (n - 1) + 1 >= n
      BY <2>1, <2>3
    <3> QED
      BY <3>1
  <2> QED
    BY <2>2, <2>3
<1>3. Doubled[j] \in C
  BY <1>2, DoubledIs
<1>4. PICK m \in C : \A c \in C : m <= c
  <2> HIDE DEF C
  <2> QED
    BY <1>1, <1>3, LeastElement
<1>5. Min(C) \in C /\ \A c \in C : Min(C) <= c
  <2> HIDE DEF C
  <2> QED
    BY <1>4 DEF Min
<1>6. Doubled[j] <= Doubled[MaxLength] /\ Doubled[j] \in Nat /\ Doubled[MaxLength] \in Nat
  BY <1>2, DoubledGrows, DoubledIs, ByteAssumption
<1>7. RoundUp(n) = Min(C)
  BY DEF RoundUp
<1>8. Min(C) \in Nat /\ Min(C) <= Doubled[j]
  <2> HIDE DEF C
  <2> QED
    BY <1>1, <1>3, <1>5
<1>9. Min(C) >= n
  BY <1>5
<1> HIDE DEF C
<1> QED
  BY <1>6, <1>7, <1>8, <1>9

-----------------------------------------------------------------------------
(* Sequences                                                                 *)

\* A function on 1..n is a sequence.
LEMMA FunctionIsSequence ==
  ASSUME NEW S, NEW n \in Nat, NEW s \in [1..n -> S]
  PROVE  s \in Seq(S) /\ Len(s) = n
OBVIOUS

LEMMA UnspecifiedIs ==
  ASSUME NEW n \in Nat
  PROVE  Unspecified(n) \in Memory /\ Len(Unspecified(n)) = n
BY FunctionIsSequence DEF Unspecified, Memory

\* The lists that methods are called with.
LEMMA FreshIs ==
  ASSUME NEW s \in Fresh
  PROVE  s \in Memory /\ s \in Seq(Bytes)
<1>1. PICK n \in 0..2 : s \in [1..n -> Bytes]
  BY DEF Fresh, BoundedSeq, SeqOf
<1>2. s \in Seq(Bytes)
  BY <1>1, FunctionIsSequence
<1>3. s \in [1..n -> Bytes \cup {Unknown}]
  BY <1>1
<1> QED
  BY <1>1, <1>2, <1>3, FunctionIsSequence DEF Memory

-----------------------------------------------------------------------------
(* What is read                                                              *)

\* A read of n bytes is a sequence of n bytes.
LEMMA ReadIs ==
  ASSUME ByteInv, NEW o \in Objects, handle[o] # NoHandle,
         NEW first \in Nat, NEW n \in Nat
  PROVE  /\ Read(handle[o].buffer, first, n) \in Memory
         /\ Len(Read(handle[o].buffer, first, n)) = n
<1> DEFINE b == handle[o].buffer
           r == Read(b, first, n)
<1>1. b \in Objects => heap[b] \in Seq(Bytes \cup {Unknown})
  BY DEF ByteInv, ByteTypeOK, HandleInv, Memory, Blocks
<1>2. r \in [1..n -> Bytes \cup {Unknown}]
  <2>1. ASSUME NEW i \in 1..n, b \in Objects, first + i \in DOMAIN heap[b]
        PROVE  heap[b][first + i] \in Bytes
               \cup {Unknown}
    BY <1>1, <2>1
  <2> HIDE DEF b
  <2> QED
    BY <2>1 DEF Read
<1> HIDE DEF r
<1>3. r \in Seq(Bytes \cup {Unknown}) /\ Len(r) = n
  BY <1>2, FunctionIsSequence
<1> QED
  BY <1>3 DEF r, Memory

\* The list of an object has the length that its handle says.
LEMMA ListIs ==
  ASSUME ByteInv, NEW o \in Objects, handle[o] # NoHandle
  PROVE  List(o) \in Memory /\ Len(List(o)) = handle[o].length /\ handle[o].length \in 0..MaxLength
<1>1. handle[o].length \in 0..MaxLength
  BY DEF ByteInv, ByteTypeOK, Handles
<1>2. 0 \in Nat /\ handle[o].length \in Nat
  BY <1>1, ByteAssumption
<1> QED
  BY <1>1, <1>2, ReadIs DEF List

-----------------------------------------------------------------------------
(* The steps that many methods share                                         *)

\* What holds of a handle goes on holding of it as long as it, the one of the owner of
\* its buffer, and the buffer stay as they are.
LEMMA Undisturbed ==
  ASSUME ByteInv, NEW p \in Objects, handle[p] # NoHandle, handle'[p] = handle[p],
         handle'[handle[p].memoryOwner] = handle[handle[p].memoryOwner],
         handle[p].buffer \in Objects => heap'[handle[p].buffer] = heap[handle[p].buffer]
  PROVE  HandleInv(p)'
BY DEF ByteInv, HandleInv

\* A handle that nothing owns the memory of is not the owner of another one's.
LEMMA Owners ==
  ASSUME ByteInv, NEW p \in Objects, handle[p] # NoHandle
  PROVE  /\ handle[p].memoryOwner \in Objects
         /\ handle[handle[p].memoryOwner] # NoHandle
         /\ handle[handle[p].memoryOwner].memoryOwner = handle[p].memoryOwner
         /\ handle[p].class = "ByteArray" => ~handle[p].immutable
         /\ ~handle[p].immutable => handle[p].memoryOwner = p
         /\ \A q \in Objects : ~handle[p].immutable /\ handle[q] # NoHandle /\ handle[q].memoryOwner = p => q = p
<1>1. handle[p].memoryOwner \in Objects
  BY DEF ByteInv, ByteTypeOK, Handles
<1>2. HandleInv(p) /\ \A q \in Objects : handle[q] # NoHandle => HandleInv(q)
  BY DEF ByteInv
<1> QED
  BY <1>1, <1>2 DEF HandleInv

\* An object is made with a buffer of its own.
LEMMA Created ==
  ASSUME ByteInv, NEW o \in Objects, NEW class \in Classes, NEW list \in Memory,
         NEW immutable \in BOOLEAN, immutable => class = "ByteString",
         FromCArray(o, class, list, immutable)
  PROVE  ByteInv'
<1> DEFINE b == IF list = <<>> THEN Null ELSE o
           h == [class |-> class, length |-> Len(list), immutable |-> immutable,
                 memoryOwner |-> o, buffer |-> b, capacity |-> 0]
<1>1. h \in Handles
  <2>1. Len(list) \in 0..MaxLength
    BY DEF FromCArray, Memory
  <2>2. 0 \in 0..Doubled[MaxLength]
    BY DoubledIs, ByteAssumption
  <2> QED
    BY <2>1, <2>2 DEF Handles
<1>2. h.class = class /\ h.length = Len(list) /\ h.immutable = immutable /\ h.memoryOwner = o
      /\ h.buffer = b /\ h.capacity = 0 /\ h # NoHandle
  BY <1>1, ByteAssumption
<1>3. handle' = [handle EXCEPT ![o] = h] /\ handle[o] = NoHandle
  BY DEF FromCArray
<1>4. heap' = IF list = <<>> THEN heap ELSE [heap EXCEPT ![o] = list]
  BY DEF FromCArray
<1>5. held' = held \cup {o} /\ btTrap' = btTrap
  BY DEF FromCArray
<1> HIDE DEF h
<1>6. ByteTypeOK'
  BY <1>1, <1>2, <1>3, <1>4, <1>5 DEF ByteInv, ByteTypeOK, Blocks
<1>7. handle'[o] = h /\ \A p \in Objects \ {o} : handle'[p] = handle[p]
  BY <1>3 DEF ByteInv, ByteTypeOK
<1>8. HandleInv(o)'
  <2>1. o \notin {Null, Wild} /\ Null # Wild /\ list # FreeBlock
    BY ByteAssumption
  <2>2. list # <<>> => heap'[o] = list
    BY <1>4 DEF ByteInv, ByteTypeOK
  <2>3. list = <<>> => Len(list) = 0
    OBVIOUS
  <2>4. Len(list) \in Nat
    BY DEF Memory
  <2>5. Null \notin Objects
    BY ByteAssumption
  <2> QED
    BY <1>2, <1>7, <2>1, <2>2, <2>3, <2>4, <2>5 DEF HandleInv
<1>9. ASSUME NEW p \in Objects, p # o, handle'[p] # NoHandle
      PROVE  HandleInv(p)'
  <2>1. handle[p] # NoHandle /\ handle'[p] = handle[p]
    BY <1>7, <1>9
  <2>2. handle[p].memoryOwner \in Objects \ {o}
    BY <1>3, <2>1, Owners
  <2>3. handle[p].buffer \in Objects => handle[p].buffer # o
    BY <2>1, <2>2, ByteAssumption DEF ByteInv, HandleInv
  <2>4. handle[p].buffer \in Objects => heap'[handle[p].buffer] = heap[handle[p].buffer]
    BY <1>4, <2>3 DEF ByteInv, ByteTypeOK
  <2> QED
    BY <1>7, <2>1, <2>2, <2>4, Undisturbed
<1> QED
  BY <1>6, <1>8, <1>9 DEF ByteInv

\* A call that ends the program changes nothing else.
LEMMA Trapped ==
  ASSUME ByteInv, NEW what \in {"access", "free", "assertion", "loop"}, BtTrap(what)
  PROVE  ByteInv'
<1>1. handle' = handle /\ heap' = heap /\ held' = held /\ btTrap' = what
  BY DEF BtTrap
<1> QED
  BY <1>1 DEF ByteInv, ByteTypeOK, HandleInv

\* A copy of bytes of another object is made.
LEMMA Copied ==
  ASSUME ByteInv, NEW o \in Objects, NEW class \in Classes, NEW p \in Objects, handle[p] # NoHandle,
         NEW first \in Nat, NEW n \in Nat, NEW immutable \in BOOLEAN,
         immutable => class = "ByteString", CopyOut(o, class, p, first, n, immutable)
  PROVE  ByteInv'
<1> DEFINE list == IF handle[p].buffer = Null THEN [i \in 1..n |-> 0]
                   ELSE Read(handle[p].buffer, first, n)
<1>1. list \in Memory
  <2>1. [i \in 1..n |-> 0] \in [1..n -> Bytes \cup {Unknown}]
    BY ByteAssumption
  <2>2. [i \in 1..n |-> 0] \in Memory
    BY <2>1, FunctionIsSequence DEF Memory
  <2> QED
    BY <2>2, ReadIs
<1>2. BtTrap("access") \/ FromCArray(o, class, list, immutable)
  BY DEF CopyOut
<1> HIDE DEF list
<1>3. CASE BtTrap("access")
  BY <1>3, Trapped
<1>4. CASE FromCArray(o, class, list, immutable)
  BY <1>1, <1>4, Created
<1> QED
  BY <1>2, <1>3, <1>4

\* A method of array o writes to its memory, or puts it away, and changes no other object.
LEMMA Rewritten ==
  ASSUME ByteInv, NEW o \in Objects, handle[o] # NoHandle, ~handle[o].immutable,
         NEW h \in Handles, NEW content \in Blocks, NEW b \in Objects,
         b = o \/ b = handle[o].buffer,
         handle' = [handle EXCEPT ![o] = h], heap' = [heap EXCEPT ![b] = content],
         held' = held, btTrap' = btTrap,
         h.memoryOwner = handle[o].memoryOwner, h.immutable = handle[o].immutable,
         h.class = handle[o].class,
         \/ h.buffer = Null /\ h.capacity = 0
         \/ /\ h.buffer = b /\ content # FreeBlock
            /\ h.length <= Len(content) /\ h.capacity <= Len(content)
  PROVE  ByteInv'
<1>1. handle'[o] = h /\ heap'[b] = content /\ h # NoHandle
  BY ByteAssumption DEF ByteInv, ByteTypeOK
<1>2. \A p \in Objects \ {o} : handle'[p] = handle[p]
  BY DEF ByteInv, ByteTypeOK
<1>3. ByteTypeOK'
  BY <1>1 DEF ByteInv, ByteTypeOK
<1>4. handle[o].memoryOwner = o /\ b = o
  <2>1. handle[o].memoryOwner = o
    BY Owners
  <2> QED
    BY <2>1, ByteAssumption DEF ByteInv, HandleInv
<1>5. HandleInv(o)'
  <2>1. HandleInv(o) /\ o \notin {Null, Wild} /\ Null # Wild /\ Null \notin Objects
    BY ByteAssumption DEF ByteInv
  <2>2. h.immutable => h.class = "ByteString"
    BY <2>1 DEF HandleInv
  <2> QED
    BY <1>1, <1>4, <2>1, <2>2 DEF HandleInv
<1>6. ASSUME NEW p \in Objects, p # o, handle'[p] # NoHandle
      PROVE  HandleInv(p)'
  <2>1. handle[p] # NoHandle /\ handle'[p] = handle[p]
    BY <1>2, <1>6
  <2>2. handle[p].memoryOwner \in Objects \ {o}
    BY <1>6, <2>1, Owners
  <2>3. handle[p].buffer \in Objects => handle[p].buffer # o
    BY <2>1, <2>2, ByteAssumption DEF ByteInv, HandleInv
  <2>4. handle[p].buffer \in Objects => heap'[handle[p].buffer] = heap[handle[p].buffer]
    BY <1>4, <2>3 DEF ByteInv, ByteTypeOK
  <2> QED
    BY <1>2, <2>1, <2>2, <2>4, Undisturbed
<1> QED
  BY <1>3, <1>5, <1>6 DEF ByteInv

\* What a request for n bytes that is met, and the list that is then written to them, make
\* of an array: nothing but its length changes where no bytes are asked for and it has no
\* memory, and otherwise its buffer begins with the list.
Resizing(o, n, list, h) ==
  /\ handle' = [handle EXCEPT ![o] = h]
  /\ h.length = Len(list) /\ h.memoryOwner = handle[o].memoryOwner
  /\ h.immutable = handle[o].immutable /\ h.class = handle[o].class
  /\ \/ /\ n = 0 /\ heap' = heap /\ handle[o].buffer \in {Null, Wild}
        /\ h.buffer = handle[o].buffer /\ h.capacity = 0
        /\ h.buffer = Wild => Len(list) = 0
     \/ \E b \in Objects, rest \in Memory :
          /\ b = o \/ b = handle[o].buffer
          /\ heap' = [heap EXCEPT ![b] = list \o rest]
          /\ h.buffer = b /\ h.capacity <= Len(list) + Len(rest)

\* A list is either no longer than what is asked for, or as long as it was.
LEMMA Resizes ==
  ASSUME ByteInv, NEW o \in Objects, handle[o] # NoHandle, ~handle[o].immutable,
         NEW n \in 0..(MaxLength + 1), NEW list \in Memory,
         Len(list) <= n \/ (n = 0 /\ Len(list) = handle[o].length),
         handle[o].buffer = Wild => n = 0,
         Resize(o, n, list)
  PROVE  /\ held' = held /\ btTrap' = btTrap /\ Len(list) \in 0..MaxLength
         /\ \E h \in Handles : Resizing(o, n, list, h)
<1> DEFINE h == handle[o]
           b == IF h.buffer = Null THEN o ELSE h.buffer
           size == IF n > h.capacity THEN RoundUp(n) ELSE Len(heap[b])
           rest == Unspecified(size - Len(list))
<1>1. h \in Handles /\ h.length \in Nat /\ h.capacity \in 0..Doubled[MaxLength] /\ n \in Nat /\ h.capacity \in Nat
      /\ HandleInv(o)
  BY ByteAssumption DEF ByteInv, ByteTypeOK, Handles
<1>2. Len(list) \in 0..MaxLength
  BY DEF Resize, Memory
<1>3. held' = held /\ btTrap' = btTrap
  BY DEF Resize
<1>4. RoundUp(n) \in 0..Doubled[MaxLength] /\ RoundUp(n) \in Nat /\ RoundUp(n) >= n
  <2>1. RoundUp(n) \in 0..Doubled[MaxLength] /\ RoundUp(n) >= n
    BY RoundUpIs
  <2> QED
    BY <2>1
<1>5. Null # Wild /\ Null \notin Objects /\ Wild \notin Objects
  BY ByteAssumption
<1>6. h.buffer \in Objects \cup {Null, Wild}
  BY <1>1 DEF Handles
<1>7. CASE h.capacity >= n
  <2> DEFINE g == [h EXCEPT !.length = Len(list)]
  <2>1. handle' = [handle EXCEPT ![o] = g]
    BY <1>7 DEF Resize
  <2>2. g \in Handles
    BY <1>1, <1>2 DEF Handles
  <2>3. g.length = Len(list) /\ g.buffer = h.buffer /\ g.capacity = h.capacity
        /\ g.memoryOwner = h.memoryOwner /\ g.immutable = h.immutable /\ g.class = h.class
    BY <1>1 DEF Handles
  <2> HIDE DEF g
  <2>4. CASE h.buffer \in {Null, Wild}
    <3>1. heap' = heap
      BY <1>7, <2>4 DEF Resize
    <3>2. h.capacity = 0 /\ n = 0
      BY <1>1, <1>5, <1>7, <2>4 DEF HandleInv
    <3>3. h.buffer = Wild => Len(list) = 0
      BY <1>1, <1>2, <3>2 DEF HandleInv
    <3> QED
      BY <1>2, <1>3, <2>1, <2>2, <2>3, <2>4, <3>1, <3>2, <3>3 DEF Resizing
  <2>5. CASE h.buffer \in Objects
    <3>1. b = h.buffer /\ b \in Objects /\ h.buffer \notin {Null, Wild}
      BY <1>5, <2>5
    <3>2. heap' = [heap EXCEPT ![b] = list \o rest]
      BY <1>1, <1>7, <3>1 DEF Resize
    <3>3. size = Len(heap[b]) /\ size \in Nat /\ h.capacity <= size /\ h.length <= size
      <4>1. heap[b] # FreeBlock /\ h.length <= Len(heap[b]) /\ h.capacity <= Len(heap[b])
        BY <1>1, <3>1 DEF HandleInv
      <4>2. heap[b] \in Seq(Bytes \cup {Unknown})
        BY <3>1, <4>1 DEF ByteInv, ByteTypeOK, Memory, Blocks
      <4>3. ~(n > h.capacity)
        BY <1>1, <1>7
      <4> QED
        BY <4>1, <4>2, <4>3
    <3> HIDE DEF size, b
    <3>4. size - Len(list) \in Nat
      BY <1>1, <1>2, <1>7, <3>3
    <3>5. rest \in Memory /\ Len(rest) = size - Len(list)
      BY <3>4, UnspecifiedIs
    <3>6. g.capacity <= Len(list) + Len(rest)
      <4> HIDE DEF rest
      <4> QED
        BY <1>2, <2>3, <3>3, <3>5
    <3> HIDE DEF rest
    <3> QED
      BY <1>2, <1>3, <2>1, <2>2, <2>3, <3>1, <3>2, <3>5, <3>6 DEF Resizing
  <2> QED
    BY <1>6, <2>4, <2>5
<1>8. CASE ~(h.capacity >= n)
  <2> DEFINE g == [h EXCEPT !.length = Len(list), !.buffer = b, !.capacity = RoundUp(n)]
  <2>1. handle' = [handle EXCEPT ![o] = g] /\ heap' = [heap EXCEPT ![b] = list \o rest]
    BY <1>8 DEF Resize
  <2>2. n > h.capacity /\ n # 0 /\ h.buffer # Wild
    BY <1>1, <1>8
  <2>3. b \in Objects /\ (b = o \/ b = h.buffer)
    BY <1>6, <2>2
  <2>4. size = RoundUp(n) /\ size - Len(list) \in Nat
    BY <1>1, <1>2, <1>4, <2>2
  <2> HIDE DEF b, size
  <2>5. rest \in Memory /\ Len(rest) = size - Len(list)
    BY <2>4, UnspecifiedIs
  <2>6. g \in Handles
    BY <1>1, <1>2, <1>4, <2>3 DEF Handles
  <2>7. g.length = Len(list) /\ g.buffer = b /\ g.capacity = RoundUp(n)
        /\ g.memoryOwner = h.memoryOwner /\ g.immutable = h.immutable /\ g.class = h.class
    BY <1>1 DEF Handles
  <2> HIDE DEF g, rest
  <2>8. g.capacity <= Len(list) + Len(rest)
    BY <1>2, <1>4, <2>4, <2>5, <2>7
  <2> QED
    BY <1>2, <1>3, <2>1, <2>3, <2>5, <2>6, <2>7, <2>8 DEF Resizing
<1> QED
  BY <1>7, <1>8

LEMMA Resized ==
  ASSUME ByteInv, NEW o \in Objects, handle[o] # NoHandle, ~handle[o].immutable,
         NEW n \in 0..(MaxLength + 1), NEW list \in Memory,
         Len(list) <= n \/ (n = 0 /\ Len(list) = handle[o].length),
         handle[o].buffer = Wild => n = 0,
         Resize(o, n, list)
  PROVE  ByteInv'
<1>1. held' = held /\ btTrap' = btTrap /\ Len(list) \in 0..MaxLength
  BY Resizes
<1> PICK h \in Handles : Resizing(o, n, list, h)
  BY Resizes
<1>2. /\ handle' = [handle EXCEPT ![o] = h]
      /\ h.length = Len(list) /\ h.memoryOwner = handle[o].memoryOwner
      /\ h.immutable = handle[o].immutable /\ h.class = handle[o].class
  BY DEF Resizing
<1>3. handle'[o] = h /\ h # NoHandle /\ \A p \in Objects \ {o} : handle'[p] = handle[p]
  BY <1>2, ByteAssumption DEF ByteInv, ByteTypeOK
<1>4. CASE /\ heap' = heap /\ h.buffer \in {Null, Wild} /\ h.capacity = 0
           /\ h.buffer = Wild => Len(list) = 0
  <2>1. ByteTypeOK'
    BY <1>1, <1>2, <1>3, <1>4 DEF ByteInv, ByteTypeOK
  <2>2. HandleInv(o)'
    <3>1. h.memoryOwner = o
      BY <1>2, Owners
    <3>2. h.immutable => h.class = "ByteString"
      BY <1>2 DEF ByteInv, HandleInv
    <3> QED
      BY <1>2, <1>3, <1>4, <3>1, <3>2, ByteAssumption DEF HandleInv
  <2>3. ASSUME NEW p \in Objects, p # o, handle'[p] # NoHandle
        PROVE  HandleInv(p)'
    <3>1. handle[p] # NoHandle /\ handle'[p] = handle[p]
      BY <1>3, <2>3
    <3>2. handle[p].memoryOwner \in Objects \ {o}
      BY <2>3, <3>1, Owners
    <3> QED
      BY <1>3, <1>4, <3>1, <3>2, Undisturbed
  <2> QED
    BY <2>1, <2>2, <2>3 DEF ByteInv
<1>5. ASSUME NEW b \in Objects, NEW rest \in Memory, b = o \/ b = handle[o].buffer,
             heap' = [heap EXCEPT ![b] = list \o rest],
             h.buffer = b, h.capacity <= Len(list) + Len(rest)
      PROVE  ByteInv'
  <2>1. PICK content : content = list \o rest
    OBVIOUS
  <2>2. content \in Memory /\ Len(content) = Len(list) + Len(rest) /\ Len(rest) \in Nat
    BY <2>1 DEF Memory
  <2>3. content # FreeBlock /\ content \in Blocks
    BY <2>2, ByteAssumption DEF Blocks
  <2>4. h.length <= Len(content) /\ h.capacity <= Len(content)
    BY <1>1, <1>2, <1>5, <2>2
  <2>5. heap' = [heap EXCEPT ![b] = content]
    BY <1>5, <2>1
  <2> QED
    BY <1>1, <1>2, <1>5, <2>3, <2>4, <2>5, Rewritten
<1> QED
  BY <1>4, <1>5 DEF Resizing

\* A request that is not met: the list has no memory any more.
LEMMA ResizeFailed ==
  ASSUME ByteInv, NEW o \in Objects, handle[o] # NoHandle, ~handle[o].immutable,
         handle[o].buffer # Wild, NEW n, NEW length \in 0..MaxLength, ResizeFails(o, n, length)
  PROVE  ByteInv'
<1> DEFINE h == handle[o]
           b == IF h.buffer = Null THEN o ELSE h.buffer
           content == IF h.buffer = Null THEN heap[o] ELSE FreeBlock
           g == [h EXCEPT !.buffer = Null, !.capacity = 0, !.length = length]
<1>1. h \in Handles /\ 0 \in 0..Doubled[MaxLength]
  BY DoubledIs, ByteAssumption DEF ByteInv, ByteTypeOK
<1>2. b \in Objects /\ (b = o \/ b = h.buffer) /\ (h.buffer \in Objects \/ h.buffer = Null)
  BY <1>1 DEF Handles
<1>3. handle' = [handle EXCEPT ![o] = g] /\ held' = held /\ btTrap' = btTrap
  <2> QED
    BY <1>1 DEF ResizeFails, ByteInv, ByteTypeOK, Handles
<1>4. heap' = [heap EXCEPT ![b] = content]
  <2>1. heap' = [c \in Objects |-> IF c = h.buffer THEN FreeBlock ELSE heap[c]]
    BY DEF ResizeFails
  <2> QED
    BY <1>2, <2>1, ByteAssumption DEF ByteInv, ByteTypeOK
<1>5. content \in Blocks
  BY DEF Blocks, ByteInv, ByteTypeOK
<1>6. g \in Handles
  BY <1>1 DEF Handles
<1>7. g.buffer = Null /\ g.capacity = 0 /\ g.memoryOwner = h.memoryOwner
      /\ g.immutable = h.immutable /\ g.class = h.class
  BY <1>1 DEF Handles
<1> HIDE DEF g, b, content
<1>8. PICK a, c, k : a = b /\ c = content /\ k = g
  OBVIOUS
<1>9. handle' = [handle EXCEPT ![o] = k] /\ heap' = [heap EXCEPT ![a] = c] /\ held' = held /\ btTrap' = btTrap
  BY <1>3, <1>4, <1>8
<1>10. a \in Objects /\ (a = o \/ a = handle[o].buffer) /\ c \in Blocks /\ k \in Handles
  BY <1>2, <1>5, <1>6, <1>8
<1>11. k.buffer = Null /\ k.capacity = 0 /\ k.memoryOwner = handle[o].memoryOwner
  BY <1>7, <1>8
<1>12. k.immutable = handle[o].immutable
  BY <1>7, <1>8
<1>13. k.class = handle[o].class
  BY <1>7, <1>8
<1>14. handle[o] # NoHandle /\ ~handle[o].immutable
  OBVIOUS
<1> HIDE DEF h
<1> QED
  BY <1>9, <1>10, <1>11, <1>12, <1>13, <1>14, Rewritten

LEMMA RewriteKeeps ==
  ASSUME ByteInv, NEW o \in Objects, Has(o, "ByteArray"),
         NEW n \in Nat, NEW list \in Memory, Len(list) <= n, n <= Len(list) + 1,
         Rewrite(o, n, list)
  PROVE  ByteInv'
<1>1. handle[o] # NoHandle /\ handle[o].class = "ByteArray"
  BY DEF Has, ByteInv, ByteTypeOK
<1>2. ~handle[o].immutable
  BY <1>1, Owners
<1>3. CASE BtTrap("access")
  BY <1>3, Trapped
<1>4. ASSUME handle[o].buffer = Wild => n = 0, Resize(o, n, list)
      PROVE  ByteInv'
  <2>1. Len(list) <= MaxLength /\ Len(list) \in Nat
    BY <1>4 DEF Resize, Memory
  <2>2. n \in 0..(MaxLength + 1)
    BY <2>1, ByteAssumption
  <2> QED
    BY <1>1, <1>2, <1>4, <2>2, Resized
<1>5. ASSUME handle[o].buffer = Wild => n = 0, ResizeFails(o, n, handle[o].length)
      PROVE  ByteInv'
  <2>1. handle[o].length \in 0..MaxLength /\ handle[o].capacity \in Nat
    <3>1. handle[o] \in Handles
      BY <1>1 DEF ByteInv, ByteTypeOK
    <3>2. Doubled[MaxLength] \in Nat
      BY DoubledIs, ByteAssumption
    <3> QED
      BY <3>1, <3>2 DEF Handles
  <2>2. handle[o].buffer # Wild
    BY <1>5, <2>1 DEF ResizeFails
  <2> QED
    BY <1>1, <1>2, <1>5, <2>1, <2>2, ResizeFailed
<1>6. \/ BtTrap("access")
      \/ (handle[o].buffer = Wild => n = 0) /\ (Resize(o, n, list) \/ ResizeFails(o, n, handle[o].length))
  BY DEF Rewrite
<1> QED
  BY <1>3, <1>4, <1>5, <1>6

-----------------------------------------------------------------------------
(* The methods                                                               *)

LEMMA ArraysKeep ==
  ASSUME ByteInv, NEW o \in Objects, Has(o, "ByteArray")
  PROVE  /\ ArrayPop(o) => ByteInv'
         /\ ArrayShift(o) => ByteInv'
         /\ ArrayAppendSelf(o) => ByteInv'
         /\ ArrayPrependSelf(o) => ByteInv'
         /\ \A n \in 0..MaxLength : ArraySetLength(o, n) => ByteInv'
         /\ \A list \in Fresh : /\ ArrayAppend(o, list) => ByteInv'
                                /\ ArrayPrepend(o, list) => ByteInv'
                                /\ \A invalid \in {0, 1} : ArrayPush(o, list, Len(list) + invalid) => ByteInv'
<1> DEFINE n == handle[o].length
<1>1. handle[o] # NoHandle
  BY DEF Has, ByteInv, ByteTypeOK
<1>2. List(o) \in Seq(Bytes \cup {Unknown}) /\ Len(List(o)) = n /\ n \in Nat
  BY <1>1, ListIs, ByteAssumption DEF Memory
<1> HIDE DEF n
<1>3. \A what \in {"access", "free", "assertion", "loop"} : BtTrap(what) => ByteInv'
  BY Trapped
<1>5. ASSUME ArrayPop(o) PROVE ByteInv'
  <2> PICK m, s : m = n - 1 /\ s = Front(List(o))
    OBVIOUS
  <2>1. BtTrap("loop") \/ BtTrap("access") \/ (List(o) # <<>> /\ Rewrite(o, m, s))
    BY <1>5 DEF ArrayPop, n, Rewrite, Resize, ResizeFails, BtTrap
  <2>2. ASSUME List(o) # <<>>
        PROVE  Front(List(o)) \in Memory /\ Len(Front(List(o))) = n - 1 /\ n - 1 \in Nat
    BY <1>2, <2>2 DEF Front, Memory
  <2>3. CASE List(o) # <<>> /\ Rewrite(o, m, s)
    <3>1. m \in Nat /\ s \in Memory /\ Len(s) <= m /\ m <= Len(s) + 1
      BY <1>2, <2>2, <2>3
    <3> QED
      BY <2>3, <3>1, RewriteKeeps
  <2> QED
    BY <1>3, <2>1, <2>3
<1>6. ASSUME ArrayShift(o) PROVE ByteInv'
  <2> PICK m, s : m = n - 1 /\ s = Tail(List(o))
    OBVIOUS
  <2>1. BtTrap("access") \/ Rewrite(o, m, s)
    BY <1>6 DEF ArrayShift, n, Rewrite, Resize, ResizeFails, BtTrap
  <2>2. n > 0
    BY <1>6 DEF ArrayShift, n
  <2>3. List(o) # <<>> 
    BY <1>2, <2>2
  <2>4. Tail(List(o)) \in Memory /\ Len(Tail(List(o))) = n - 1 /\ n - 1 \in Nat
    BY <1>2, <2>3 DEF Memory
  <2>5. m \in Nat /\ s \in Memory /\ Len(s) <= m /\ m <= Len(s) + 1
    BY <1>2, <2>4
  <2> QED
    BY <1>3, <2>1, <2>5, RewriteKeeps
<1>7. /\ List(o) \o List(o) \in Memory /\ Len(List(o) \o List(o)) = 2 * n
      /\ List(o) \o Unspecified(n) \in Memory /\ Len(List(o) \o Unspecified(n)) = 2 * n
      /\ 2 * n \in Nat
  <2>1. Unspecified(n) \in Seq(Bytes \cup {Unknown}) /\ Len(Unspecified(n)) = n
    BY <1>2, UnspecifiedIs DEF Memory
  <2> QED
    BY <1>2, <2>1 DEF Memory
<1>8. ASSUME ArrayAppendSelf(o) PROVE ByteInv'
  <2> PICK m, s, t : m = 2 * n /\ s = List(o) \o List(o) /\ t = List(o) \o Unspecified(n)
    OBVIOUS
  <2>1. BtTrap("access") \/ Rewrite(o, m, s) \/ Rewrite(o, m, t)
    BY <1>8 DEF ArrayAppendSelf, n, Rewrite, Resize, ResizeFails, BtTrap
  <2>2. m \in Nat /\ s \in Memory /\ Len(s) <= m /\ m <= Len(s) + 1
    BY <1>7
  <2>3. t \in Memory /\ Len(t) <= m /\ m <= Len(t) + 1
    BY <1>7
  <2>4. CASE Rewrite(o, m, s)
    BY <2>2, <2>4, RewriteKeeps
  <2>5. CASE Rewrite(o, m, t)
    BY <2>2, <2>3, <2>5, RewriteKeeps
  <2> QED
    BY <1>3, <2>1, <2>4, <2>5
<1>9. ASSUME ArrayPrependSelf(o) PROVE ByteInv'
  <2> PICK m, s : m = 2 * n /\ s = List(o) \o List(o)
    OBVIOUS
  <2>1. Rewrite(o, m, s)
    BY <1>9 DEF ArrayPrependSelf, n, Rewrite, Resize, ResizeFails, BtTrap
  <2>2. m \in Nat /\ s \in Memory /\ Len(s) <= m /\ m <= Len(s) + 1
    BY <1>7
  <2> QED
    BY <2>1, <2>2, RewriteKeeps
<1>10. ASSUME NEW m \in 0..MaxLength, ArraySetLength(o, m) PROVE ByteInv'
  <2> DEFINE list == [i \in 1..m |-> IF i <= n THEN List(o)[i] ELSE 0]
  <2> PICK s : s = list
    OBVIOUS
  <2>1. Rewrite(o, m, s)
    BY <1>10 DEF ArraySetLength, n, Rewrite, Resize, ResizeFails, BtTrap
  <2>2. m \in Nat
    BY ByteAssumption
  <2>3. list \in [1..m -> Bytes \cup {Unknown}]
    BY <1>2, <2>2, ByteAssumption
  <2> HIDE DEF list
  <2>4. list \in Memory /\ Len(list) = m
    BY <2>2, <2>3, FunctionIsSequence DEF Memory
  <2> QED
    BY RewriteKeeps, <2>1, <2>2, <2>4
<1>11. ASSUME NEW list \in Fresh
       PROVE  /\ ArrayAppend(o, list) => ByteInv'
              /\ ArrayPrepend(o, list) => ByteInv'
              /\ \A invalid \in {0, 1} : ArrayPush(o, list, Len(list) + invalid) => ByteInv'
  <2>1. list \in Seq(Bytes \cup {Unknown}) /\ Len(list) \in Nat
    BY FreshIs DEF Memory
  <2>2. /\ List(o) \o list \in Memory /\ Len(List(o) \o list) = n + Len(list)
        /\ list \o List(o) \in Memory /\ Len(list \o List(o)) = n + Len(list)
        /\ n + Len(list) \in Nat /\ n + (Len(list) + 1) \in Nat
        /\ n + (Len(list) + 1) <= Len(List(o) \o list) + 1
        /\ Len(List(o) \o list) <= n + (Len(list) + 1)
    BY <1>2, <2>1 DEF Memory
  <2>3. ASSUME ArrayAppend(o, list) PROVE ByteInv'
    <3> PICK m, s : m = n + Len(list) /\ s = List(o) \o list
      OBVIOUS
    <3>1. BtTrap("assertion") \/ Rewrite(o, m, s)
      BY <2>3 DEF ArrayAppend, n, Rewrite, Resize, ResizeFails, BtTrap
    <3>2. m \in Nat /\ s \in Memory /\ Len(s) <= m /\ m <= Len(s) + 1
      BY <1>2, <2>1, <2>2
    <3> QED
      BY <1>3, <3>1, <3>2, RewriteKeeps
  <2>4. ASSUME ArrayPrepend(o, list) PROVE ByteInv'
    <3> PICK m, s : m = n + Len(list) /\ s = list \o List(o)
      OBVIOUS
    <3>1. BtTrap("assertion") \/ Rewrite(o, m, s)
      BY <2>4 DEF ArrayPrepend, n, Rewrite, Resize, ResizeFails, BtTrap
    <3>2. m \in Nat /\ s \in Memory /\ Len(s) <= m /\ m <= Len(s) + 1
      BY <1>2, <2>1, <2>2
    <3> QED
      BY <1>3, <3>1, <3>2, RewriteKeeps
  <2>5. ASSUME NEW invalid \in {0, 1}, ArrayPush(o, list, Len(list) + invalid)
        PROVE  ByteInv'
    <3> PICK m, s : m = n + (Len(list) + invalid) /\ s = List(o) \o list
      OBVIOUS
    <3>1. Rewrite(o, m, s)
      BY <2>5 DEF ArrayPush, n, Rewrite, Resize, ResizeFails, BtTrap
    <3>2. m \in Nat /\ s \in Memory /\ Len(s) <= m /\ m <= Len(s) + 1
      BY <1>2, <2>1, <2>2
    <3> QED
      BY <3>1, <3>2, RewriteKeeps
  <2> QED
    BY <2>3, <2>4, <2>5
<1> QED
  BY <1>5, <1>6, <1>8, <1>9, <1>10, <1>11

LEMMA ReverseKeeps ==
  ASSUME ByteInv, NEW o \in Objects, ArrayReverse(o)
  PROVE  ByteInv'
<1>1. handle[o] # NoHandle /\ handle[o].class = "ByteArray"
  BY DEF ArrayReverse, Has, ByteInv, ByteTypeOK
<1>2. ~handle[o].immutable
  BY <1>1, Owners
<1>3. List(o) \in Seq(Bytes \cup {Unknown}) /\ Len(List(o)) = handle[o].length
  BY <1>1, ListIs DEF Memory
<1>4. Reverse(List(o)) \in Memory /\ Len(Reverse(List(o))) = handle[o].length
  <2>1. Reverse(List(o)) \in [1..Len(List(o)) -> Bytes \cup {Unknown}] /\ Len(List(o)) \in Nat
    BY <1>3 DEF Reverse
  <2> QED
    BY <1>3, <2>1, FunctionIsSequence DEF Memory
<1>5. PICK s : s = Reverse(List(o))
  OBVIOUS
<1>6. BtTrap("access") \/ Resize(o, 0, s)
  BY <1>5 DEF ArrayReverse, Resize
<1>7. 0 \in 0..(MaxLength + 1)
  BY ByteAssumption
<1> QED
  BY <1>1, <1>2, <1>4, <1>5, <1>6, <1>7, Resized, Trapped

\* A sorted list has the length of the other.
LEMMA OrderedIs ==
  ASSUME NEW list \in Memory, NEW s \in Ordered(list)
  PROVE  s \in Memory /\ Len(s) = Len(list)
<1>1. list \in Seq(Bytes \cup {Unknown}) /\ Len(list) \in Nat /\ DOMAIN list = 1..Len(list)
  BY DEF Memory
<1>2. CASE \E i \in DOMAIN list : list[i] = Unknown
  <2>1. s = Unspecified(Len(list))
    BY <1>2 DEF Ordered
  <2> QED
    BY <1>1, <2>1, UnspecifiedIs
<1>3. CASE ~\E i \in DOMAIN list : list[i] = Unknown
  <2>1. PICK p \in [DOMAIN list -> DOMAIN list] : s = [i \in DOMAIN list |-> list[p[i]]]
    BY <1>3 DEF Ordered, Bijection, Injection
  <2>2. s \in [1..Len(list) -> Bytes \cup {Unknown}]
    BY <1>1, <2>1
  <2> QED
    BY <1>1, <2>2, FunctionIsSequence DEF Memory
<1> QED
  BY <1>2, <1>3

LEMMA SortKeeps ==
  ASSUME ByteInv, NEW o \in Objects, ArraySort(o)
  PROVE  ByteInv'
<1>1. handle[o] # NoHandle /\ handle[o].class = "ByteArray"
  BY DEF ArraySort, Has, ByteInv, ByteTypeOK
<1>2. ~handle[o].immutable
  BY <1>1, Owners
<1>3. List(o) \in Memory /\ Len(List(o)) = handle[o].length
  BY <1>1, ListIs
<1>4. BtTrap("access") \/ \E s \in Ordered(List(o)) : Resize(o, 0, s)
  BY DEF ArraySort
<1>5. ASSUME NEW s \in Ordered(List(o)), Resize(o, 0, s)
      PROVE  ByteInv'
  <2>1. s \in Memory /\ Len(s) = handle[o].length
    BY <1>3, <1>5, OrderedIs
  <2>2. 0 \in 0..(MaxLength + 1)
    BY ByteAssumption
  <2> QED
    BY <1>1, <1>2, <1>5, <2>1, <2>2, Resized
<1> QED
  BY <1>4, <1>5, Trapped

LEMMA SetPropertyKeeps ==
  ASSUME ByteInv, NEW o \in Objects, NEW i \in 0..MaxLength, NEW byte \in Bytes,
         ArraySetProperty(o, i, byte)
  PROVE  ByteInv'
<1> DEFINE h == handle[o]
           content == [heap[h.buffer] EXCEPT ![i + 1] = byte]
<1>1. h # NoHandle /\ h.class = "ByteArray" /\ i < h.length
  BY DEF ArraySetProperty, Has, ByteInv, ByteTypeOK
<1>2. ~h.immutable
  BY <1>1, Owners
<1>3. CASE Lost(o)
  BY <1>3, Trapped DEF ArraySetProperty
<1>4. CASE ~Lost(o)
  <2>1. h \in Handles /\ HandleInv(o) /\ h.length \in Nat /\ h.capacity \in Nat /\ i \in Nat
    <3>1. h \in Handles /\ HandleInv(o)
      BY <1>1 DEF ByteInv, ByteTypeOK
    <3>2. MaxLength \in Nat /\ Doubled[MaxLength] \in Nat
      BY DoubledIs, ByteAssumption
    <3> QED
      BY <3>1, <3>2 DEF Handles
  <2>2. h.buffer \in Objects
    <3>1. h.buffer # Null /\ h.buffer # Wild
      BY <1>1, <1>4, <2>1 DEF Lost, HandleInv
    <3> QED
      BY <2>1, <3>1 DEF Handles
  <2>3. heap[h.buffer] \in Seq(Bytes \cup {Unknown}) /\ h.length <= Len(heap[h.buffer])
        /\ h.capacity <= Len(heap[h.buffer])
    BY <2>1, <2>2 DEF ByteInv, ByteTypeOK, HandleInv, Memory, Blocks
  <2>4. content \in Seq(Bytes \cup {Unknown}) /\ Len(content) = Len(heap[h.buffer])
    <3> PICK s : s = heap[h.buffer]
      OBVIOUS
    <3>1. s \in [1..Len(s) -> Bytes \cup {Unknown}] /\ Len(s) \in Nat
      BY <2>3
    <3>2. [s EXCEPT ![i + 1] = byte] \in [1..Len(s) -> Bytes \cup {Unknown}]
      BY <3>1
    <3> QED
      BY <3>1, <3>2, FunctionIsSequence
  <2>5. content # FreeBlock /\ content \in Blocks
    BY <2>4, ByteAssumption DEF Blocks, Memory
  <2>6. heap' = [heap EXCEPT ![h.buffer] = content] /\ handle' = [handle EXCEPT ![o] = h]
        /\ held' = held /\ btTrap' = btTrap
    BY <1>4, <2>2 DEF ArraySetProperty, ByteInv, ByteTypeOK
  <2>7. h.length <= Len(content) /\ h.capacity <= Len(content)
    BY <2>3, <2>4
  <2> HIDE DEF content
  <2> QED
    BY <1>1, <1>2, <2>1, <2>2, <2>5, <2>6, <2>7, Rewritten
<1> QED
  BY <1>3, <1>4

\* An object that shares the buffer of an immutable one.
LEMMA ShareKeeps ==
  ASSUME ByteInv, NEW o \in Objects, NEW p \in Objects, handle[p] # NoHandle, handle[p].immutable,
         handle[o] = NoHandle, handle' = [handle EXCEPT ![o] = handle[p]],
         held' = held \cup {o}, heap' = heap, btTrap' = btTrap
  PROVE  ByteInv'
<1>1. handle[p] \in Handles /\ HandleInv(p)
  BY DEF ByteInv, ByteTypeOK
<1>2. handle'[o] = handle[p] /\ \A q \in Objects \ {o} : handle'[q] = handle[q]
  BY DEF ByteInv, ByteTypeOK
<1>3. ByteTypeOK'
  BY <1>1, <1>2 DEF ByteInv, ByteTypeOK
<1>4. ASSUME NEW q \in Objects, handle[q] # NoHandle
      PROVE  handle[q].memoryOwner \in Objects \ {o}
  BY <1>4, Owners
<1>5. HandleInv(o)'
  <2> DEFINE w == handle[p].memoryOwner
  <2>1. w \in Objects \ {o} /\ handle'[w] = handle[w]
    BY <1>2, <1>4
  <2>2. handle[w] = handle[p]
    BY <1>1 DEF HandleInv
  <2>3. handle'[w] = handle'[o]
    BY <1>2, <2>1, <2>2
  <2> QED
    BY <1>1, <1>2, <2>3 DEF HandleInv
<1>6. ASSUME NEW q \in Objects, q # o, handle'[q] # NoHandle
      PROVE  HandleInv(q)'
  <2>1. handle[q] # NoHandle /\ handle'[q] = handle[q]
    BY <1>2, <1>6
  <2> QED
    BY <1>2, <1>4, <2>1, Undisturbed
<1> QED
  BY <1>3, <1>5, <1>6 DEF ByteInv

LEMMA EmptyStringKeeps ==
  ASSUME ByteInv, NEW o \in Objects, ConstructFromEmptyString(o)
  PROVE  ByteInv'
<1> DEFINE h == [class |-> "ByteArray", length |-> 0, immutable |-> FALSE, memoryOwner |-> o,
                 buffer |-> Wild, capacity |-> 0]
<1>1. h \in Handles
  BY DoubledIs, ByteAssumption DEF Handles, Classes
<1>2. h.buffer = Wild /\ h.capacity = 0 /\ h.length = 0 /\ h.memoryOwner = o /\ h.immutable = FALSE
  OBVIOUS
<1>3. handle' = [handle EXCEPT ![o] = h] /\ handle[o] = NoHandle
  BY DEF ConstructFromEmptyString
<1>4. held' = held \cup {o} /\ heap' = heap /\ btTrap' = btTrap
  BY DEF ConstructFromEmptyString
<1> HIDE DEF h
<1>5. handle'[o] = h /\ h # NoHandle /\ \A q \in Objects \ {o} : handle'[q] = handle[q]
  BY <1>1, <1>3, ByteAssumption DEF ByteInv, ByteTypeOK
<1>6. ByteTypeOK'
  BY <1>1, <1>3, <1>4, <1>5 DEF ByteInv, ByteTypeOK
<1>7. HandleInv(o)'
  BY <1>2, <1>5, ByteAssumption DEF HandleInv
<1>8. ASSUME NEW q \in Objects, q # o, handle'[q] # NoHandle
      PROVE  HandleInv(q)'
  <2>1. handle[q] # NoHandle /\ handle'[q] = handle[q]
    BY <1>5, <1>8
  <2>2. handle[q].memoryOwner \in Objects \ {o}
    BY <1>3, <2>1, Owners
  <2> QED
    BY <1>4, <1>5, <2>1, <2>2, Undisturbed
<1> QED
  BY <1>6, <1>7, <1>8 DEF ByteInv

LEMMA DropKeeps ==
  ASSUME ByteInv, NEW o \in Objects, Drop(o)
  PROVE  ByteInv'
BY DEF Drop, ByteInv, ByteTypeOK, HandleInv

\* The collector frees the buffers of owners that nobody has a part of.
LEMMA CollectKeeps ==
  ASSUME ByteInv, CollectGarbage
  PROVE  ByteInv'
<1> DEFINE dead == {o \in Objects : handle[o] # NoHandle} \ Marked
           owners == {o \in dead : handle[o].memoryOwner = o}
           freed == {handle[o].buffer : o \in owners}
<1>1. CASE Wild \in freed
  BY <1>1, Trapped DEF CollectGarbage
<1>2. CASE Wild \notin freed
  <2>1. heap' = [b \in Objects |-> IF b \in freed THEN FreeBlock ELSE heap[b]]
    BY <1>2 DEF CollectGarbage
  <2>2. handle' = [o \in Objects |-> IF o \in dead THEN NoHandle ELSE handle[o]]
    BY <1>2 DEF CollectGarbage
  <2>3. held' = held /\ btTrap' = btTrap
    BY <1>2 DEF CollectGarbage
  <2>4. held \cap dead = {}
    BY DEF Marked
  <2>5. ASSUME NEW o \in Objects, handle[o] # NoHandle, o \notin dead
        PROVE  handle[o].memoryOwner \in Objects \ dead
    <3>1. o \in Marked
      BY <2>5
    <3>2. CASE o \in held
      BY <2>5, <3>2, Owners DEF Marked
    <3>3. CASE o \notin held
      <4>1. PICK p \in held : o = handle[p].memoryOwner
        BY <3>1, <3>3 DEF Marked
      <4>2. p \in Objects /\ handle[p] # NoHandle
        BY DEF ByteInv, ByteTypeOK
      <4>3. handle[o].memoryOwner = o
        BY <4>1, <4>2, Owners
      <4> QED
        BY <2>5, <4>3
    <3> QED
      BY <3>2, <3>3
  <2>6. ASSUME NEW o \in Objects, handle[o] # NoHandle, o \notin dead, handle[o].buffer \in Objects
        PROVE  handle[o].buffer \notin freed
    <3>1. handle[o].buffer = handle[o].memoryOwner
      BY <2>6, ByteAssumption DEF ByteInv, HandleInv
    <3>2. SUFFICES ASSUME NEW p \in owners, handle[p].buffer = handle[o].buffer PROVE FALSE
      OBVIOUS
    <3>3. p \in Objects /\ handle[p] # NoHandle /\ p \in dead /\ handle[p].memoryOwner = p
      OBVIOUS
    <3>4. HandleInv(p)
      BY <3>3 DEF ByteInv
    <3>5. handle[p].buffer = p
      BY <2>6, <3>2, <3>3, <3>4, ByteAssumption DEF HandleInv
    <3> QED
      BY <2>5, <2>6, <3>1, <3>2, <3>3, <3>5
  <2> HIDE DEF dead, freed
  <2>7. ByteTypeOK'
    BY <2>1, <2>2, <2>3, <2>4 DEF ByteInv, ByteTypeOK, Blocks
  <2>8. ASSUME NEW o \in Objects, handle'[o] # NoHandle
        PROVE  HandleInv(o)'
    <3>1. handle[o] # NoHandle /\ o \notin dead /\ handle'[o] = handle[o]
      BY <2>2, <2>8
    <3>2. handle'[handle[o].memoryOwner] = handle[handle[o].memoryOwner]
      BY <2>2, <2>5, <3>1
    <3>3. handle[o].buffer \in Objects => heap'[handle[o].buffer] = heap[handle[o].buffer]
      BY <2>1, <2>6, <3>1
    <3> QED
      BY <3>1, <3>2, <3>3, Undisturbed
  <2> QED
    BY <2>7, <2>8 DEF ByteInv
<1> QED
  BY <1>1, <1>2

\* What splice makes of array p and its new object: the part is in a buffer of its own,
\* and the rest in the one where it was, or lost.
Splicing(o, p, part, rest, g, h) ==
  /\ handle[o] = NoHandle /\ handle[p].buffer \in Objects
  /\ handle' = [handle EXCEPT ![o] = g, ![p] = h]
  /\ held' = held \cup {o} /\ btTrap' = btTrap
  /\ g.memoryOwner = o /\ g.buffer = o /\ ~g.immutable /\ g.length = Len(part) /\ g.capacity = 0
  /\ h.memoryOwner = handle[p].memoryOwner /\ ~h.immutable /\ h.length = Len(rest)
  /\ \E content \in Blocks :
       /\ heap' = [heap EXCEPT ![o] = part, ![handle[p].buffer] = content]
       /\ \/ h.buffer = Null /\ h.capacity = 0
          \/ /\ h.buffer = handle[p].buffer
             /\ \E more \in Memory : content = rest \o more /\ h.capacity <= Len(rest) + Len(more)

LEMMA SplicingKeeps ==
  ASSUME ByteInv, NEW o \in Objects, NEW p \in Objects, handle[p] # NoHandle, ~handle[p].immutable,
         NEW part \in Memory, NEW rest \in Memory, NEW g \in Handles, NEW h \in Handles,
         Splicing(o, p, part, rest, g, h)
  PROVE  ByteInv'
<1> PICK content \in Blocks :
       /\ heap' = [heap EXCEPT ![o] = part, ![handle[p].buffer] = content]
       /\ \/ h.buffer = Null /\ h.capacity = 0
          \/ /\ h.buffer = handle[p].buffer
             /\ \E more \in Memory : content = rest \o more /\ h.capacity <= Len(rest) + Len(more)
  BY DEF Splicing
<1>1. handle[p].memoryOwner = p /\ handle[p].buffer = p /\ p # o
  <2>1. handle[p].memoryOwner = p
    BY Owners
  <2> QED
    BY <2>1, ByteAssumption DEF ByteInv, HandleInv, Splicing
<1>2. handle'[o] = g /\ handle'[p] = h /\ g # NoHandle /\ h # NoHandle
      /\ \A q \in Objects \ {o, p} : handle'[q] = handle[q]
  BY <1>1, ByteAssumption DEF ByteInv, ByteTypeOK, Splicing
<1>3. heap'[o] = part /\ heap'[p] = content /\ part # FreeBlock
      /\ \A q \in Objects \ {o, p} : heap'[q] = heap[q]
  BY <1>1, ByteAssumption DEF ByteInv, ByteTypeOK
<1>4. ByteTypeOK'
  BY <1>1, <1>2 DEF ByteInv, ByteTypeOK, Blocks, Splicing
<1>5. HandleInv(o)'
  <2>1. Len(part) \in Nat
    BY DEF Memory
  <2> QED
    BY <1>2, <1>3, <2>1, ByteAssumption DEF HandleInv, Splicing
<1>6. HandleInv(p)'
  <2>1. CASE h.buffer = Null /\ h.capacity = 0
    BY <1>1, <1>2, <2>1, ByteAssumption DEF HandleInv, Splicing
  <2>2. ASSUME h.buffer = p, NEW more \in Memory, content = rest \o more,
               h.capacity <= Len(rest) + Len(more)
        PROVE  HandleInv(p)'
    <3>1. content \in Memory /\ Len(content) = Len(rest) + Len(more) /\ Len(rest) \in Nat /\ Len(more) \in Nat
      BY <2>2 DEF Memory
    <3>2. h.length <= Len(content) /\ content # FreeBlock
      BY <3>1, ByteAssumption DEF Splicing
    <3>3. h.capacity <= Len(content)
      BY <2>2, <3>1
    <3>4. h.memoryOwner = p /\ ~h.immutable
      BY <1>1 DEF Splicing
    <3> QED
      BY <1>1, <1>2, <1>3, <2>2, <3>2, <3>3, <3>4, ByteAssumption DEF HandleInv
  <2> QED
    BY <1>1, <2>1, <2>2
<1>7. ASSUME NEW q \in Objects, q \notin {o, p}, handle'[q] # NoHandle
      PROVE  HandleInv(q)'
  <2>1. handle[q] # NoHandle /\ handle'[q] = handle[q]
    BY <1>2, <1>7
  <2>2. handle[q].memoryOwner \in Objects \ {o, p}
    <3>1. handle[q].memoryOwner # p
      BY <1>7, <2>1, Owners
    <3>2. handle[q].memoryOwner \in Objects \ {o}
      BY <2>1, Owners DEF Splicing
    <3> QED
      BY <3>1, <3>2
  <2>3. handle[q].buffer \in Objects => handle[q].buffer \notin {o, p}
    BY <2>1, <2>2, ByteAssumption DEF ByteInv, HandleInv
  <2> QED
    BY <1>2, <1>3, <2>1, <2>2, <2>3, Undisturbed
<1> QED
  BY <1>4, <1>5, <1>6, <1>7 DEF ByteInv

-----------------------------------------------------------------------------
(* Parts of lists                                                            *)

\* A part does not end before it begins.
LEMMA PartsAreOrdered ==
  ASSUME NEW length \in Nat, NEW a \in Int, NEW b \in Int,
         NEW range \in {SliceRange(length, a, b), SubstringRange(length, a, b), SubstrRange(length, a, b)}
  PROVE  range[1] \in Nat /\ range[2] \in Nat /\ range[2] - range[1] \in Nat
<1>1. ASSUME NEW x \in Nat, NEW y \in Nat
      PROVE  /\ Min({x, y}) = IF x <= y THEN x ELSE y
             /\ Max({x, y}) = IF x >= y THEN x ELSE y
  BY MaxTwo, MinTwo
<1>2. CASE range = SliceRange(length, a, b)
  <2> DEFINE clip(d) == IF d >= 0 THEN d ELSE IF length + d > 0 THEN length + d ELSE 0
             x == Min({length, clip(a)})
             y == Min({length, clip(b)})
  <2>1. clip(a) \in Nat /\ clip(b) \in Nat
    OBVIOUS
  <2>2. range = <<x, Max({x, y})>>
    BY <1>2 DEF SliceRange
  <2>3. x \in Nat /\ y \in Nat
    <3>1. PICK u \in Nat, v \in Nat : u = clip(a) /\ v = clip(b)
      BY <2>1
    <3>2. x = Min({length, u}) /\ y = Min({length, v})
      BY <3>1
    <3>3. Min({length, u}) \in Nat /\ Min({length, v}) \in Nat
      BY <1>1
    <3> HIDE DEF x, y
    <3> QED
      BY <3>2, <3>3
  <2>4. Max({x, y}) \in Nat /\ Max({x, y}) >= x
    <3>1. PICK u \in Nat, v \in Nat : u = x /\ v = y
      BY <2>3
    <3>2. Max({u, v}) = IF u >= v THEN u ELSE v
      BY MaxTwo
    <3>3. Max({u, v}) \in Nat /\ Max({u, v}) >= u
      BY <3>2
    <3> HIDE DEF x, y
    <3> QED
      BY <3>1, <3>3
  <2> HIDE DEF x, y
  <2> QED
    BY <2>2, <2>3, <2>4
<1>3. CASE range = SubstringRange(length, a, b)
  <2> DEFINE x == IF a < 0 THEN 0 ELSE Min({length, a})
             y == IF b < 0 THEN 0 ELSE Min({length, b})
  <2>1. range = <<Min({x, y}), Max({x, y})>>
    BY <1>3 DEF SubstringRange
  <2>2. x \in Nat /\ y \in Nat
    BY <1>1
  <2>3. Max({x, y}) \in Nat /\ Min({x, y}) \in Nat /\ Max({x, y}) >= Min({x, y})
    <3> HIDE DEF x, y
    <3> QED
      BY <1>1, <2>2
  <2> HIDE DEF x, y
  <2> QED
    BY <2>1, <2>3
<1>4. CASE range = SubstrRange(length, a, b)
  <2> DEFINE x == IF a >= 0 THEN a ELSE IF length + a < 0 THEN 0 ELSE length + a
  <2>1. range = IF a >= length \/ b <= 0 THEN <<x, x>> ELSE <<x, x + Min({b, length})>>
    BY <1>4 DEF SubstrRange
  <2>2. x \in Nat
    OBVIOUS
  <2>3. b > 0 => Min({b, length}) \in Nat
    BY <1>1
  <2> HIDE DEF x
  <2> QED
    BY <2>1, <2>2, <2>3
<1> QED
  BY <1>2, <1>3, <1>4

\* Copies of lists and parts, of casts and single bytes.
LEMMA CopiesKeep ==
  ASSUME ByteInv, NEW o \in Objects, NEW p \in Objects
  PROVE  /\ \A class \in Classes : ConstructCopy(o, class, p) \/ ToByteThing(o, class, p) => ByteInv'
         /\ \A class \in Classes, n \in 0..MaxLength : Cast(o, class, p, n) => ByteInv'
         /\ \A a \in Places, b \in Places : StringPart(o, p, a, b) \/ ArraySlice(o, p, a, b) => ByteInv'
         /\ \A i \in 0..MaxLength : StringByte(o, p, i) => ByteInv'
<1>1. ASSUME HasAny(p)
      PROVE  handle[p] # NoHandle /\ handle[p].length \in Nat /\ List(p) \in Memory
  BY <1>1, ListIs, ByteAssumption DEF HasAny, ByteInv, ByteTypeOK
<1>2. Places \subseteq Int /\ 0..MaxLength \subseteq Nat
  BY ByteAssumption DEF Places
<1>3. ASSUME NEW class \in Classes, ConstructCopy(o, class, p)
      PROVE  ByteInv'
  <2>1. PICK im \in BOOLEAN : im = (class = "ByteString")
    OBVIOUS
  <2>2. PICK n : n = handle[p].length
    OBVIOUS
  <2>3. HasAny(p) /\ CopyOut(o, class, p, 0, n, im)
    BY <1>3, <2>1, <2>2 DEF ConstructCopy, CopyOut, FromCArray, BtTrap
  <2>4. n \in Nat /\ 0 \in Nat /\ (im => class = "ByteString")
    BY <1>1, <2>1, <2>2, <2>3
  <2> QED
    BY <1>1, <2>3, <2>4, Copied
<1>4. ASSUME NEW class \in Classes, ToByteThing(o, class, p)
      PROVE  ByteInv'
  <2>1. PICK s : s = List(p)
    OBVIOUS
  <2>2. HasAny(p) /\ (BtTrap("access") \/ FromCArray(o, class, s, FALSE))
    BY <1>4, <2>1 DEF ToByteThing, FromCArray
  <2> QED
    BY <1>1, <2>1, <2>2, Created, Trapped
<1>5. ASSUME NEW class \in Classes, NEW n \in 0..MaxLength, Cast(o, class, p, n)
      PROVE  ByteInv'
  <2>1. handle[p] # NoHandle
    BY <1>1, <1>5 DEF Cast
  <2>2. CASE class = "ByteString" /\ handle[p].immutable
    <3>1. /\ handle[o] = NoHandle /\ handle' = [handle EXCEPT ![o] = handle[p]]
          /\ held' = held \cup {o} /\ heap' = heap /\ btTrap' = btTrap
      BY <1>5, <2>2 DEF Cast
    <3> QED
      BY <2>1, <2>2, <3>1, ShareKeeps
  <2>3. CASE ~(class = "ByteString" /\ handle[p].immutable)
    <3>1. CopyOut(o, class, p, 0, n, FALSE)
      BY <1>5, <2>3 DEF Cast
    <3> QED
      BY <1>2, <2>1, <3>1, Copied
  <2> QED
    BY <2>2, <2>3
<1>6. ASSUME NEW a \in Places, NEW b \in Places, StringPart(o, p, a, b)
      PROVE  ByteInv'
  <2>1. HasAny(p)
    BY <1>6 DEF StringPart, Has, HasAny
  <2>2. PICK length : length = handle[p].length
    OBVIOUS
  <2>3. PICK range \in {SliceRange(length, a, b), SubstringRange(length, a, b), SubstrRange(length, a, b)} :
          CopyOut(o, "ByteString", p, range[1], range[2] - range[1], FALSE)
    BY <1>6, <2>2 DEF StringPart
  <2>4. range[1] \in Nat /\ range[2] - range[1] \in Nat
    BY <1>1, <1>2, <2>1, <2>2, PartsAreOrdered
  <2> QED
    BY <1>1, <2>1, <2>3, <2>4, Copied DEF Classes
<1>7. ASSUME NEW a \in Places, NEW b \in Places, ArraySlice(o, p, a, b)
      PROVE  ByteInv'
  <2>1. HasAny(p) /\ LiceArguments(handle[p].length, a, b)
    BY <1>7 DEF ArraySlice, Has, HasAny
  <2> DEFINE length == handle[p].length
             x == LicePlace(length, a)
             y == LicePlace(length, b)
  <2>2. x \in Nat /\ y \in Nat
    BY <1>1, <1>2, <2>1 DEF LicePlace
  <2>3. Max({x, y}) - x \in Nat
    <3> HIDE DEF x, y
    <3> QED
      BY <2>2, MaxTwo
  <2>4. PICK start, n : start = x /\ n = Max({x, y}) - x
    OBVIOUS
  <2>5. CopyOut(o, "ByteArray", p, start, n, FALSE)
    BY <1>7, <2>4 DEF ArraySlice, CopyOut, FromCArray, BtTrap
  <2> QED
    BY <1>1, <2>1, <2>2, <2>3, <2>4, <2>5, Copied DEF Classes
<1>8. ASSUME NEW i \in 0..MaxLength, StringByte(o, p, i)
      PROVE  ByteInv'
  <2>1. HasAny(p) /\ CopyOut(o, "ByteString", p, i, 1, FALSE)
    BY <1>8 DEF StringByte, Has, HasAny
  <2> QED
    BY <1>1, <1>2, <2>1, Copied DEF Classes
<1> QED
  BY <1>3, <1>4, <1>5, <1>6, <1>7, <1>8

\* The places of a splice are in order.
LEMMA LicePlaces ==
  ASSUME NEW length \in Nat, NEW a \in Places, NEW b \in Places
  PROVE  LET start == LicePlace(length, a)
             end == Max({start, LicePlace(length, b)})
         IN start \in Nat /\ end \in Nat /\ start <= end
<1>1. a \in Int /\ b \in Int
  BY ByteAssumption DEF Places
<1>2. LicePlace(length, a) \in Nat /\ LicePlace(length, b) \in Nat
  BY <1>1 DEF LicePlace
<1> PICK x \in Nat, y \in Nat : x = LicePlace(length, a) /\ y = LicePlace(length, b)
  BY <1>2
<1>3. Max({x, y}) = IF x >= y THEN x ELSE y
  BY MaxTwo
<1> QED
  BY <1>3

\* What a part, and what is left without it, are.
LEMMA Cut ==
  ASSUME NEW s \in Memory, NEW i \in Nat, NEW j \in Nat, i <= j, j <= Len(s)
  PROVE  /\ SubSeq(s, i + 1, j) \in Memory /\ Len(SubSeq(s, i + 1, j)) = j - i
         /\ SubSeq(s, 1, i) \o SubSeq(s, j + 1, Len(s)) \in Memory
         /\ Len(SubSeq(s, 1, i) \o SubSeq(s, j + 1, Len(s))) = Len(s) - (j - i)
<1> DEFINE S == Bytes \cup {Unknown}
<1>0. s \in Seq(S)
  BY DEF Memory
<1> HIDE DEF S
<1>1. SubSeq(s, i + 1, j) \in Seq(S) /\ Len(SubSeq(s, i + 1, j)) = j - i
  BY <1>0
<1>2. SubSeq(s, 1, i) \in Seq(S) /\ Len(SubSeq(s, 1, i)) = i
  BY <1>0
<1>3. SubSeq(s, j + 1, Len(s)) \in Seq(S) /\ Len(SubSeq(s, j + 1, Len(s))) = Len(s) - j
  BY <1>0
<1>4. PICK x \in Seq(S), y \in Seq(S) : x = SubSeq(s, 1, i) /\ y = SubSeq(s, j + 1, Len(s))
  BY <1>2, <1>3
<1>5. x \o y \in Seq(S) /\ Len(x \o y) = Len(x) + Len(y)
  OBVIOUS
<1>6. PICK n \in Nat : n = Len(s)
  BY <1>0
<1>7. Len(x) = i /\ Len(y) = n - j
  BY <1>2, <1>3, <1>4, <1>6
<1>8. Len(x) + Len(y) = n - (j - i)
  BY <1>7
<1> QED
  BY <1>1, <1>4, <1>5, <1>6, <1>8 DEF S, Memory

\* The step that moves the bytes, for any part and rest.
SpliceStep(o, p, part, rest, fails) ==
  LET h == handle[p]
      grows == Len(rest) > h.capacity
      size == IF grows THEN RoundUp(Len(rest)) ELSE Len(heap[h.buffer])
  IN
  /\ fails => grows
  /\ heap' = [heap EXCEPT
       ![o] = part, ![h.buffer] = IF fails THEN FreeBlock ELSE rest \o Unspecified(size - Len(rest))]
  /\ handle' = [handle EXCEPT
       ![o] = [class |-> "ByteArray", length |-> Len(part), immutable |-> FALSE,
               memoryOwner |-> o, buffer |-> o, capacity |-> 0],
       ![p] = [h EXCEPT !.length = Len(rest), !.buffer = IF fails THEN Null ELSE @,
                 !.capacity = IF fails THEN 0 ELSE IF grows THEN size ELSE @]]
  /\ held' = held \cup {o} /\ btTrap' = btTrap /\ handle[o] = NoHandle

LEMMA StepSplices ==
  ASSUME ByteInv, NEW o \in Objects, NEW p \in Objects, handle[p] # NoHandle,
         ~handle[p].immutable, handle[p].buffer \in Objects,
         NEW part \in Memory, NEW rest \in Memory, NEW fails \in BOOLEAN,
         Len(part) <= handle[p].length, Len(rest) <= handle[p].length,
         SpliceStep(o, p, part, rest, fails)
  PROVE  \E g \in Handles, h \in Handles : Splicing(o, p, part, rest, g, h)
<1> DEFINE h == handle[p]
           grows == Len(rest) > h.capacity
           size == IF grows THEN RoundUp(Len(rest)) ELSE Len(heap[h.buffer])
           content == IF fails THEN FreeBlock ELSE rest \o Unspecified(size - Len(rest))
           g == [class |-> "ByteArray", length |-> Len(part), immutable |-> FALSE,
                 memoryOwner |-> o, buffer |-> o, capacity |-> 0]
           k == [h EXCEPT !.length = Len(rest), !.buffer = IF fails THEN Null ELSE @,
                   !.capacity = IF fails THEN 0 ELSE IF grows THEN size ELSE @]
<1>1. h \in Handles /\ HandleInv(p)
  BY DEF ByteInv, ByteTypeOK
<1>2. h.length \in 0..MaxLength /\ h.capacity \in Nat /\ MaxLength \in Nat
  <2>1. Doubled[MaxLength] \in Nat /\ MaxLength \in Nat
    BY DoubledIs, ByteAssumption
  <2> QED
    BY <1>1, <2>1 DEF Handles
<1>3. Len(part) \in 0..MaxLength /\ Len(rest) \in 0..MaxLength /\ Len(rest) \in 0..(MaxLength + 1)
  BY <1>2 DEF Memory
<1>4. /\ fails => grows
      /\ heap' = [heap EXCEPT ![o] = part, ![h.buffer] = content]
      /\ handle' = [handle EXCEPT ![o] = g, ![p] = k]
  BY DEF SpliceStep
<1>5. handle[o] = NoHandle /\ held' = held \cup {o} /\ btTrap' = btTrap
  BY DEF SpliceStep
<1>6. heap[h.buffer] \in Seq(Bytes \cup {Unknown}) /\ h.length <= Len(heap[h.buffer])
      /\ h.capacity <= Len(heap[h.buffer])
  BY <1>1 DEF ByteInv, ByteTypeOK, HandleInv, Memory, Blocks
<1>7. RoundUp(Len(rest)) \in 0..Doubled[MaxLength] /\ RoundUp(Len(rest)) \in Nat /\ RoundUp(Len(rest)) >= Len(rest)
  BY <1>3, RoundUpIs, DoubledIs, ByteAssumption
<1>8. (grows => size = RoundUp(Len(rest))) /\ (~grows => size = Len(heap[h.buffer]))
  OBVIOUS
<1>9. size \in Nat /\ size - Len(rest) \in Nat
  <2> HIDE DEF size, grows
  <2> QED
    BY <1>2, <1>3, <1>6, <1>7, <1>8
<1>10. 0 \in 0..Doubled[MaxLength]
  <2>1. Doubled[MaxLength] \in Nat
    BY DoubledIs, ByteAssumption
  <2> QED
    BY <2>1
<1>11. g \in Handles /\ g.memoryOwner = o /\ g.buffer = o /\ ~g.immutable /\ g.length = Len(part) /\ g.capacity = 0
  BY <1>3, <1>10 DEF Handles, Classes
<1> HIDE DEF size
<1>12. k \in Handles
  BY <1>1, <1>3, <1>7, <1>8, <1>10 DEF Handles
<1>13. k.memoryOwner = h.memoryOwner /\ k.immutable = h.immutable
       /\ k.length = Len(rest)
       /\ k.buffer = (IF fails THEN Null ELSE h.buffer)
       /\ k.capacity = (IF fails THEN 0 ELSE IF grows THEN size ELSE h.capacity)
  BY <1>1 DEF Handles
<1>14. PICK more : more = Unspecified(size - Len(rest))
  OBVIOUS
<1>15. more \in Memory /\ Len(more) = size - Len(rest)
  BY <1>9, <1>14, UnspecifiedIs
<1>16. content = IF fails THEN FreeBlock ELSE rest \o more
  BY <1>14
<1>17. PICK c, l, new : c = content /\ l = k /\ new = g
  OBVIOUS
<1> HIDE DEF content, k, g
<1>18. \/ l.buffer = Null /\ l.capacity = 0
       \/ l.buffer = h.buffer /\ c = rest \o more /\ l.capacity <= Len(rest) + Len(more)
  <2>1. CASE fails
    BY <1>13, <1>17, <2>1
  <2>2. CASE ~fails
    <3>1. l.buffer = h.buffer /\ c = rest \o more
      BY <1>13, <1>16, <1>17, <2>2
    <3>2. l.capacity = (IF grows THEN size ELSE h.capacity)
      BY <1>13, <1>17, <2>2
    <3> HIDE DEF grows
    <3>3. l.capacity <= size
      BY <1>6, <1>8, <1>9, <3>2
    <3>4. Len(rest) + Len(more) = size
      BY <1>3, <1>9, <1>15
    <3> QED
      BY <3>1, <3>3, <3>4
  <2> QED
    BY <2>1, <2>2
<1>19. c \in Blocks
  <2>1. rest \o more \in Memory
    BY <1>15 DEF Memory
  <2> QED
    BY <1>16, <1>17, <2>1 DEF Blocks
<1>20. handle' = [handle EXCEPT ![o] = new, ![p] = l] /\ heap' = [heap EXCEPT ![o] = part, ![h.buffer] = c]
  BY <1>4, <1>17
<1>21. new \in Handles /\ ~new.immutable /\ new.memoryOwner = o /\ new.buffer = o
       /\ new.length = Len(part) /\ new.capacity = 0
  BY <1>11, <1>17
<1>22. l \in Handles /\ l.memoryOwner = handle[p].memoryOwner /\ ~l.immutable /\ l.length = Len(rest)
  BY <1>12, <1>13, <1>17
<1>23. Splicing(o, p, part, rest, new, l)
  BY <1>5, <1>15, <1>18, <1>19, <1>20, <1>21, <1>22 DEF Splicing
<1> QED
  BY <1>21, <1>22, <1>23

\* What a splice does: it fails, or copies a part of no bytes, or moves bytes.
LEMMA Splices ==
  ASSUME ByteInv, NEW o \in Objects, NEW p \in Objects, NEW a \in Places, NEW b \in Places,
         ArraySplice(o, p, a, b)
  PROVE  /\ handle[p] # NoHandle /\ p \in held /\ ~handle[p].immutable
         /\ \/ BtTrap("access")
            \/ \E start \in Nat : CopyOut(o, "ByteArray", p, start, 0, FALSE)
            \/ \E start \in Nat, end \in Nat, part \in Memory, rest \in Memory, g \in Handles, h \in Handles :
                 /\ start <= end /\ end <= Len(List(p))
                 /\ part = SubSeq(List(p), start + 1, end)
                 /\ rest = SubSeq(List(p), 1, start) \o SubSeq(List(p), end + 1, Len(List(p)))
                 /\ Splicing(o, p, part, rest, g, h)
<1>1. handle[p] # NoHandle /\ p \in held /\ ~handle[p].immutable
  BY Owners DEF ArraySplice, Has, ByteInv, ByteTypeOK
<1>2. PICK length \in Nat, s \in Memory : length = handle[p].length /\ s = List(p) /\ Len(s) = length
  BY <1>1, ListIs, ByteAssumption
<1>3. PICK start \in Nat, end \in Nat :
        start = LicePlace(length, a) /\ end = Max({start, LicePlace(length, b)}) /\ start <= end
  BY LicePlaces
<1>4. start = LicePlace(handle[p].length, a) /\ end = Max({start, LicePlace(handle[p].length, b)})
  BY <1>2, <1>3
<1>5. CASE start = end
  <2>1. CopyOut(o, "ByteArray", p, start, 0, FALSE)
    BY <1>4, <1>5 DEF ArraySplice, CopyOut, FromCArray, BtTrap
  <2> QED
    BY <1>1, <2>1
<1>6. CASE start # end /\ (Lost(p) \/ end > length)
  <2>1. BtTrap("access")
    BY <1>2, <1>4, <1>6 DEF ArraySplice
  <2> QED
    BY <1>1, <2>1
<1>7. CASE start # end /\ ~(Lost(p) \/ end > length)
  <2>1. end <= length
    BY <1>7
  <2>2. PICK part, rest : /\ part = SubSeq(s, start + 1, end)
                          /\ rest = SubSeq(s, 1, start) \o SubSeq(s, end + 1, length)
    OBVIOUS
  <2>3. part \in Memory /\ rest \in Memory /\ Len(part) = end - start /\ Len(rest) = length - (end - start)
    <3>1. end <= Len(s) /\ rest = SubSeq(s, 1, start) \o SubSeq(s, end + 1, Len(s))
      BY <1>2, <2>1, <2>2
    <3>2. start <= end
      BY <1>3
    <3>3. /\ SubSeq(s, start + 1, end) \in Memory /\ Len(SubSeq(s, start + 1, end)) = end - start
          /\ SubSeq(s, 1, start) \o SubSeq(s, end + 1, Len(s)) \in Memory
          /\ Len(SubSeq(s, 1, start) \o SubSeq(s, end + 1, Len(s))) = Len(s) - (end - start)
      BY <3>1, <3>2, Cut, Zenon
    <3> QED
      BY <1>2, <2>2, <3>1, <3>3, Zenon
  <2>4. handle[p].buffer \in Objects
    <3>1. length > 0
      BY <1>3, <1>7
    <3>2. handle[p].buffer # Null /\ handle[p].buffer # Wild
      BY <1>1, <1>2, <1>7, <3>1 DEF Lost, ByteInv, HandleInv
    <3>3. handle[p] \in Handles
      BY <1>1 DEF ByteInv, ByteTypeOK
    <3> QED
      BY <3>2, <3>3 DEF Handles
  <2>5. Len(part) <= length /\ Len(rest) <= length
    BY <1>3, <2>1, <2>3
  <2>6. PICK fails \in BOOLEAN : SpliceStep(o, p, part, rest, fails)
    BY <1>2, <1>3, <1>7, <2>2, <2>3 DEF ArraySplice, SpliceStep
  <2>7. \E g \in Handles, h \in Handles : Splicing(o, p, part, rest, g, h)
    BY <1>1, <1>2, <2>3, <2>4, <2>5, <2>6, StepSplices
  <2> QED
    BY <1>1, <1>2, <1>3, <2>1, <2>2, <2>3, <2>7
<1> QED
  BY <1>1, <1>5, <1>6, <1>7

LEMMA SplicesKeep ==
  ASSUME ByteInv, NEW o \in Objects, NEW p \in Objects, NEW a \in Places, NEW b \in Places,
         ArraySplice(o, p, a, b)
  PROVE  ByteInv'
<1>1. handle[p] # NoHandle /\ ~handle[p].immutable /\ 0 \in Nat /\ "ByteArray" \in Classes
  BY Splices DEF Classes
<1>2. CASE BtTrap("access")
  BY <1>2, Trapped
<1>3. ASSUME NEW start \in Nat, CopyOut(o, "ByteArray", p, start, 0, FALSE)
      PROVE  ByteInv'
  BY <1>1, <1>3, Copied
<1>4. ASSUME NEW part \in Memory, NEW rest \in Memory, NEW g \in Handles, NEW h \in Handles,
             Splicing(o, p, part, rest, g, h)
      PROVE  ByteInv'
  BY <1>1, <1>4, SplicingKeeps
<1> QED
  BY <1>2, <1>3, <1>4, Splices

LEMMA ConstructKeeps ==
  ASSUME ByteInv, NEW o \in Objects, NEW class \in Classes, NEW list \in Fresh, Construct(o, class, list)
  PROVE  ByteInv'
<1>1. PICK im \in BOOLEAN : im = (class = "ByteString")
  OBVIOUS
<1>2. FromCArray(o, class, list, im)
  BY <1>1 DEF Construct, FromCArray
<1>3. list \in Memory /\ (im => class = "ByteString")
  BY <1>1, FreshIs
<1> QED
  BY <1>2, <1>3, Created

-----------------------------------------------------------------------------
(* The invariant                                                             *)

LEMMA ByteInvInit ==
  ASSUME ByteInit
  PROVE  ByteInv
BY DEF ByteInit, ByteInv, ByteTypeOK, Blocks

LEMMA ByteInvStep ==
  ASSUME ByteInv, [ByteNext]_byteVars
  PROVE  ByteInv'
<1>1. CASE UNCHANGED byteVars
  BY <1>1 DEF byteVars, ByteInv, ByteTypeOK, HandleInv
<1>2. CASE CollectGarbage
  BY <1>2, CollectKeeps
<1>3. ASSUME NEW o \in Objects,
             \/ ArrayPop(o) \/ ArrayShift(o) \/ ArrayAppendSelf(o) \/ ArrayPrependSelf(o)
             \/ \E n \in 0..MaxLength : ArraySetLength(o, n)
             \/ \E list \in Fresh :
                  \/ ArrayAppend(o, list) \/ ArrayPrepend(o, list)
                  \/ \E invalid \in {0, 1} : ArrayPush(o, list, Len(list) + invalid)
      PROVE  ByteInv'
  <2>1. Has(o, "ByteArray")
    BY <1>3 DEF ArrayPop, ArrayShift, ArrayAppendSelf, ArrayPrependSelf, ArraySetLength, ArrayAppend,
                ArrayPrepend, ArrayPush
  <2> QED
    BY <1>3, <2>1, ArraysKeep
<1>4. ASSUME NEW o \in Objects,
             ConstructFromEmptyString(o) \/ ArrayReverse(o) \/ ArraySort(o) \/ Drop(o)
      PROVE  ByteInv'
  BY <1>4, EmptyStringKeeps, ReverseKeeps, SortKeeps, DropKeeps
<1>5. ASSUME NEW o \in Objects, NEW class \in Classes, NEW list \in Fresh, Construct(o, class, list)
      PROVE  ByteInv'
  BY <1>5, ConstructKeeps
<1>6. ASSUME NEW o \in Objects, NEW class \in Classes, NEW p \in Objects,
             \/ ConstructCopy(o, class, p) \/ ToByteThing(o, class, p)
             \/ \E n \in 0..MaxLength : Cast(o, class, p, n)
      PROVE  ByteInv'
  BY <1>6, CopiesKeep
<1>7. ASSUME NEW o \in Objects, NEW p \in Objects, NEW a \in Places, NEW b \in Places,
             StringPart(o, p, a, b) \/ ArraySlice(o, p, a, b) \/ ArraySplice(o, p, a, b)
      PROVE  ByteInv'
  BY <1>7, CopiesKeep, SplicesKeep
<1>8. ASSUME NEW o \in Objects, NEW p \in Objects, NEW i \in 0..MaxLength, StringByte(o, p, i)
      PROVE  ByteInv'
  BY <1>8, CopiesKeep
<1>9. ASSUME NEW o \in Objects, NEW i \in 0..MaxLength, NEW byte \in Bytes, ArraySetProperty(o, i, byte)
      PROVE  ByteInv'
  BY <1>9, SetPropertyKeeps
<1> QED
  BY <1>1, <1>2, <1>3, <1>4, <1>5, <1>6, <1>7, <1>8, <1>9 DEF ByteNext

LEMMA ByteInvHolds == ByteSpec => []ByteInv
<1>1. ByteInit => ByteInv
  BY ByteInvInit
<1>2. ByteInv /\ [ByteNext]_byteVars => ByteInv'
  BY ByteInvStep
<1> QED
  BY <1>1, <1>2, PTL DEF ByteSpec

\* Type correctness of the byte strings and byte arrays: what their methods, the
\* requests for memory that fail and the collector may make of a handle and a buffer.
THEOREM ByteTypeCorrect == ByteSpec => []ByteTypeOK
<1>1. ByteInv => ByteTypeOK
  BY DEF ByteInv
<1> QED
  BY <1>1, ByteInvHolds, PTL

\* The collector never frees a buffer that is in use, no handle says that a buffer has
\* more bytes than it has, and only lists that cannot change share one.
THEOREM BuffersAreLive == ByteSpec => []BuffersLive
<1>1. ASSUME ByteInv PROVE BuffersLive
  <2>1. SUFFICES ASSUME NEW o \in Objects, handle[o] # NoHandle, handle[o].buffer \in Objects
                 PROVE  /\ heap[handle[o].buffer] # FreeBlock
                        /\ Max({handle[o].length, handle[o].capacity}) <= Len(heap[handle[o].buffer])
                        /\ \A p \in Objects \ {o} :
                             handle[p] # NoHandle /\ handle[p].buffer = handle[o].buffer =>
                               handle[p].immutable /\ handle[p].length = handle[o].length
    BY DEF BuffersLive
  <2>2. HandleInv(o) /\ handle[o] \in Handles
    BY <1>1, <2>1 DEF ByteInv, ByteTypeOK
  <2>3. handle[o].length \in Int /\ handle[o].capacity \in Int
    <3>1. MaxLength \in Nat /\ Doubled[MaxLength] \in Nat
      BY DoubledIs, ByteAssumption
    <3> QED
      BY <2>2, <3>1 DEF Handles
  <2>4. heap[handle[o].buffer] # FreeBlock /\ handle[o].length <= Len(heap[handle[o].buffer])
        /\ handle[o].capacity <= Len(heap[handle[o].buffer])
    BY <2>1, <2>2 DEF HandleInv
  <2>5. Max({handle[o].length, handle[o].capacity}) <= Len(heap[handle[o].buffer])
    <3>1. PICK l \in Int, c \in Int : l = handle[o].length /\ c = handle[o].capacity
      BY <2>3
    <3>2. Max({l, c}) = l \/ Max({l, c}) = c
      BY MaxTwo
    <3> QED
      BY <2>4, <3>1, <3>2
  <2>6. ASSUME NEW p \in Objects \ {o}, handle[p] # NoHandle, handle[p].buffer = handle[o].buffer
        PROVE  handle[p].immutable /\ handle[p].length = handle[o].length
    <3>1. HandleInv(p)
      BY <1>1, <2>6 DEF ByteInv
    <3>2. handle[p].memoryOwner = handle[o].memoryOwner
      BY <2>1, <2>2, <2>6, <3>1, ByteAssumption DEF HandleInv
    <3>3. CASE handle[p].memoryOwner = p
      BY <2>2, <2>6, <3>2, <3>3 DEF HandleInv
    <3>4. CASE handle[p].memoryOwner = o
      BY <2>6, <3>1, <3>4 DEF HandleInv
    <3>5. CASE handle[p].memoryOwner \notin {o, p}
      BY <2>2, <3>1, <3>2, <3>5 DEF HandleInv
    <3> QED
      BY <3>3, <3>4, <3>5
  <2> QED
    BY <2>4, <2>5, <2>6
<1> QED
  BY <1>1, ByteInvHolds, PTL

-----------------------------------------------------------------------------
(* The parts that the methods of byte strings return                         *)

LEMMA SameMaxMin ==
  ASSUME NEW S
  PROVE  Abstract!Max(S) = Max(S) /\ Abstract!Min(S) = Min(S)
BY DEF Abstract!Max, Max, Abstract!Min, Min

LEMMA SubstringAgrees ==
  ASSUME NEW length \in Nat, NEW a \in Int, NEW b \in Int
  PROVE  SubstringRange(length, a, b) = Abstract!SubstringPart(length, a, b)
<1> DEFINE place(d) == IF d < 0 THEN 0 ELSE Min({length, d})
<1>1. ASSUME NEW d \in Int PROVE place(d) = Abstract!Clamp(d, length)
  <2>1. Min({length, d}) = IF length <= d THEN length ELSE d
    BY MinTwo
  <2>2. PICK m \in Int : m = Min({d, length}) /\ m = IF d <= length THEN d ELSE length
    BY MinTwo
  <2>3. Max({0, m}) = IF 0 >= m THEN 0 ELSE m
    BY MaxTwo
  <2> QED
    BY <2>1, <2>2, <2>3, SameMaxMin DEF Abstract!Clamp
<1>2. SubstringRange(length, a, b) = <<Min({place(a), place(b)}), Max({place(a), place(b)})>>
  BY DEF SubstringRange
<1> HIDE DEF place
<1> QED
  BY <1>1, <1>2, SameMaxMin DEF Abstract!SubstringPart

LEMMA RelativeIs ==
  ASSUME NEW length \in Nat, NEW d \in Int
  PROVE  Abstract!Relative(d, length) =
           IF d < 0 THEN IF length + d >= 0 THEN length + d ELSE 0
           ELSE IF d <= length THEN d ELSE length
<1>1. Max({length + d, 0}) = IF length + d >= 0 THEN length + d ELSE 0
  BY MaxTwo
<1>2. Min({d, length}) = IF d <= length THEN d ELSE length
  BY MinTwo
<1> QED
  BY <1>1, <1>2, SameMaxMin DEF Abstract!Relative

LEMMA SliceAgrees ==
  ASSUME NEW length \in Nat, NEW a \in Int, NEW b \in Int
  PROVE  SliceRange(length, a, b) = Abstract!SlicePart(length, a, b)
<1> DEFINE place(d) == Min({length, IF d >= 0 THEN d ELSE IF length + d > 0 THEN length + d ELSE 0})
<1>1. ASSUME NEW d \in Int PROVE place(d) = Abstract!Relative(d, length)
  <2>1. PICK m \in Int : m = IF d >= 0 THEN d ELSE IF length + d > 0 THEN length + d ELSE 0
    OBVIOUS
  <2>2. Min({length, m}) = IF length <= m THEN length ELSE m
    BY MinTwo
  <2>3. place(d) = IF length <= m THEN length ELSE m
    BY <2>1, <2>2
  <2> HIDE DEF place
  <2> QED
    BY <2>1, <2>3, RelativeIs
<1>2. SliceRange(length, a, b) = <<place(a), Max({place(a), place(b)})>>
  BY DEF SliceRange
<1> HIDE DEF place
<1> QED
  BY <1>1, <1>2, SameMaxMin DEF Abstract!SlicePart

LEMMA SubstrAgrees ==
  ASSUME NEW length \in Nat, NEW a \in Int, NEW n \in Int,
         SubstrRange(length, a, n)[2] <= length
  PROVE  SubstrRange(length, a, n) = Abstract!SubstrPart(length, a, n)
<1> DEFINE start == IF a >= 0 THEN a ELSE IF length + a < 0 THEN 0 ELSE length + a
<1>1. PICK m \in Int : m = Min({n, length}) /\ m = IF n <= length THEN n ELSE length
  BY MinTwo
<1>2. SubstrRange(length, a, n) =
        IF a >= length \/ n <= 0 THEN <<start, start>> ELSE <<start, start + m>>
  BY <1>1 DEF SubstrRange
<1>3. start \in Nat
  OBVIOUS
<1>4. PICK x \in Nat : x = Abstract!Relative(a, length) /\ (a < length => x = start) /\ (a >= length => x = length)
  BY RelativeIs
<1>5. PICK k \in Int : k = Min({n, length - x}) /\ k = IF n <= length - x THEN n ELSE length - x
  BY MinTwo
<1>6. Max({0, k}) = IF 0 >= k THEN 0 ELSE k
  BY MaxTwo
<1>7. Abstract!SubstrPart(length, a, n) = <<x, x + (IF 0 >= k THEN 0 ELSE k)>>
  BY <1>4, <1>5, <1>6, SameMaxMin DEF Abstract!SubstrPart
<1>8. CASE a >= length
  <2>1. start <= length /\ start = a
    BY <1>2, <1>3, <1>8
  <2> QED
    BY <1>2, <1>4, <1>5, <1>7, <1>8, <2>1
<1>9. CASE a < length
  <2> HIDE DEF start
  <2> QED
    BY <1>1, <1>2, <1>3, <1>4, <1>5, <1>7, <1>9
<1> QED
  BY <1>8, <1>9

\* substring and slice return the parts that those of ECMAScript's strings do, and substr
\* does as long as the part lies within the list.
THEOREM RangesDoAgree == ByteSpec => []RangesAgree
<1>1. ASSUME ByteInv PROVE RangesAgree
  <2>1. SUFFICES ASSUME NEW p \in held, NEW a \in (-MaxLength - 1)..(MaxLength + 1),
                        NEW b \in (-MaxLength - 1)..(MaxLength + 1)
                 PROVE  LET length == handle[p].length  range == SubstrRange(length, a, b) IN
                        /\ SubstringRange(length, a, b) = Abstract!SubstringPart(length, a, b)
                        /\ SliceRange(length, a, b) = Abstract!SlicePart(length, a, b)
                        /\ range[2] <= length => range = Abstract!SubstrPart(length, a, b)
    BY DEF RangesAgree
  <2>2. a \in Int /\ b \in Int
    BY ByteAssumption
  <2>3. p \in Objects /\ handle[p] # NoHandle
    BY <1>1 DEF ByteInv, ByteTypeOK
  <2>4. PICK length \in Nat : length = handle[p].length
    BY <1>1, <2>3, ListIs, ByteAssumption
  <2> QED
    BY <2>2, <2>4, SubstringAgrees, SliceAgrees, SubstrAgrees
<1> QED
  BY <1>1, ByteInvHolds, PTL

-----------------------------------------------------------------------------
(* The lists a script sees                                                   *)

\* A list stays as it is as long as its handle and its buffer do.
LEMMA ListStays ==
  ASSUME NEW q \in Objects, handle'[q] = handle[q],
         handle[q].buffer \in Objects => heap'[handle[q].buffer] = heap[handle[q].buffer]
  PROVE  List(q)' = List(q)
BY DEF List, Read

\* One list changes or appears, and the other ones stay.
LEMMA OneChanges ==
  ASSUME NEW o \in Objects, NEW s, o \in held', List(o)' = s,
         \A q \in Objects \ {o} : (q \in held' <=> q \in held) /\ (q \in held => List(q)' = List(q))
  PROVE  ListsSeen' = [ListsSeen EXCEPT ![o] = s]
<1>1. ListsSeen' = [q \in Objects |-> IF q \in held' THEN List(q)' ELSE NoList]
  BY DEF ListsSeen
<1>2. ListsSeen = [q \in Objects |-> IF q \in held THEN List(q) ELSE NoList]
  BY DEF ListsSeen
<1>3. ASSUME NEW q \in Objects, q # o
      PROVE  (IF q \in held' THEN List(q)' ELSE NoList) = (IF q \in held THEN List(q) ELSE NoList)
  BY <1>3
<1> QED
  BY <1>1, <1>2, <1>3

\* None does.
LEMMA NoneChanges ==
  ASSUME \A q \in Objects : (q \in held' <=> q \in held) /\ (q \in held => List(q)' = List(q))
  PROVE  ListsSeen' = ListsSeen
<1>1. ListsSeen' = [q \in Objects |-> IF q \in held' THEN List(q)' ELSE NoList]
  BY DEF ListsSeen
<1>2. ListsSeen = [q \in Objects |-> IF q \in held THEN List(q) ELSE NoList]
  BY DEF ListsSeen
<1>3. ASSUME NEW q \in Objects
      PROVE  (IF q \in held' THEN List(q)' ELSE NoList) = (IF q \in held THEN List(q) ELSE NoList)
  BY <1>3
<1> QED
  BY <1>1, <1>2, <1>3

\* The content of a buffer begins with s.
StartsWith(content, s) ==
  content \in Memory /\ Len(s) <= Len(content) /\ \A i \in 1..Len(s) : s[i] = content[i]

\* What the handle h makes of the content of its buffer.
LEMMA ReadOff ==
  ASSUME NEW o \in Objects, NEW h \in Handles, handle'[o] = h,
         NEW s \in Memory, Len(s) = h.length,
         h.buffer \in Objects, StartsWith(heap'[h.buffer], s)
  PROVE  List(o)' = s
<1>1. List(o)' = [i \in 1..h.length |->
        IF h.buffer \in Objects /\ 0 + i \in DOMAIN heap'[h.buffer] THEN heap'[h.buffer][0 + i] ELSE Unknown]
  BY DEF List, Read
<1>2. Len(s) \in Nat /\ s = [i \in 1..Len(s) |-> s[i]]
  BY DEF Memory
<1>3. ASSUME NEW i \in 1..h.length
      PROVE  (IF h.buffer \in Objects /\ 0 + i \in DOMAIN heap'[h.buffer] THEN heap'[h.buffer][0 + i] ELSE Unknown) = s[i]
  <2>1. 0 + i = i /\ i \in 1..Len(s)
    BY <1>2
  <2>2. PICK content : content = heap'[h.buffer]
    OBVIOUS
  <2>3. content \in Seq(Bytes \cup {Unknown}) /\ Len(s) <= Len(content) /\ s[i] = content[i]
    BY <2>1, <2>2 DEF Memory, StartsWith
  <2>4. i \in 1..Len(content) /\ DOMAIN content = 1..Len(content)
    BY <1>2, <2>1, <2>3
  <2> QED
    BY <2>1, <2>2, <2>3, <2>4
<1> QED
  BY <1>1, <1>2, <1>3

\* Without a buffer the bytes are unknown.
LEMMA ReadNothing ==
  ASSUME NEW o \in Objects, NEW h \in Handles, handle'[o] = h,
         NEW s \in Memory, Len(s) = h.length,
         h.buffer \notin Objects, \A i \in 1..Len(s) : s[i] = Unknown
  PROVE  List(o)' = s
<1>1. List(o)' = [i \in 1..h.length |->
        IF h.buffer \in Objects /\ 0 + i \in DOMAIN heap'[h.buffer] THEN heap'[h.buffer][0 + i] ELSE Unknown]
  BY DEF List, Read
<1>2. Len(s) \in Nat /\ s = [i \in 1..Len(s) |-> s[i]]
  BY DEF Memory
<1> QED
  BY <1>1, <1>2

\* Which lists stay when the handle and the buffer of one object change.
LEMMA OthersStay ==
  ASSUME ByteInv, NEW o \in Objects,
         handle[o] = NoHandle \/ (handle[o] # NoHandle /\ ~handle[o].immutable),
         \A q \in Objects \ {o} : handle'[q] = handle[q] /\ heap'[q] = heap[q]
  PROVE  \A q \in held \ {o} : List(q)' = List(q)
<1> SUFFICES ASSUME NEW q \in held, q # o PROVE List(q)' = List(q)
  OBVIOUS
<1>1. q \in Objects /\ handle[q] # NoHandle
  BY DEF ByteInv, ByteTypeOK
<1>2. handle[q].memoryOwner # o
  BY <1>1, Owners
<1>3. handle[q].buffer \in Objects => handle[q].buffer # o
  BY <1>1, <1>2, ByteAssumption DEF ByteInv, HandleInv
<1> QED
  BY <1>1, <1>3, ListStays

LEMMA CreatedList ==
  ASSUME ByteInv, NEW o \in Objects, NEW class \in Classes, NEW list \in Memory,
         NEW immutable \in BOOLEAN, FromCArray(o, class, list, immutable)
  PROVE  o \notin held /\ ListsSeen' = [ListsSeen EXCEPT ![o] = list] /\ Len(list) <= MaxLength
<1> DEFINE b == IF list = <<>> THEN Null ELSE o
           h == [class |-> class, length |-> Len(list), immutable |-> immutable,
                 memoryOwner |-> o, buffer |-> b, capacity |-> 0]
<1>1. h \in Handles
  <2>1. Len(list) \in 0..MaxLength
    BY DEF FromCArray, Memory
  <2>2. 0 \in 0..Doubled[MaxLength]
    BY DoubledIs, ByteAssumption
  <2> QED
    BY <2>1, <2>2 DEF Handles
<1>2. h.length = Len(list) /\ h.buffer = b
  OBVIOUS
<1>3. handle' = [handle EXCEPT ![o] = h] /\ handle[o] = NoHandle
  BY DEF FromCArray
<1>4. heap' = IF list = <<>> THEN heap ELSE [heap EXCEPT ![o] = list]
  BY DEF FromCArray
<1>5. held' = held \cup {o}
  BY DEF FromCArray
<1> HIDE DEF h
<1>6. handle'[o] = h /\ \A q \in Objects \ {o} : handle'[q] = handle[q] /\ heap'[q] = heap[q]
  BY <1>3, <1>4 DEF ByteInv, ByteTypeOK
<1>7. List(o)' = list
  <2>1. CASE list = <<>>
    <3>1. h.buffer \notin Objects /\ Len(list) = 0
      BY <1>2, <2>1, ByteAssumption
    <3>2. \A i \in 1..Len(list) : list[i] = Unknown
      BY <3>1
    <3>3. PICK k \in Handles : k = h
      BY <1>1
    <3> QED
      BY <1>2, <1>6, <3>1, <3>2, <3>3, ReadNothing
  <2>2. CASE list # <<>>
    <3>1. heap'[o] = list
      BY <1>4, <2>2 DEF ByteInv, ByteTypeOK
    <3>2. Len(list) \in Nat
      BY DEF Memory
    <3>3. PICK k \in Handles : k = h
      BY <1>1
    <3>5. StartsWith(heap'[o], list)
      BY <3>1, <3>2 DEF StartsWith
    <3>4. k.buffer = o /\ k.length = Len(list) /\ handle'[o] = k
      BY <1>2, <1>6, <2>2, <3>3
    <3> QED
      BY <3>4, <3>5, ReadOff
  <2> QED
    BY <2>1, <2>2
<1>8. \A q \in held \ {o} : List(q)' = List(q)
  BY <1>3, <1>6, OthersStay
<1>9. o \notin held
  BY <1>3 DEF ByteInv, ByteTypeOK
<1>10. Len(list) <= MaxLength
  BY DEF FromCArray
<1> QED
  BY <1>5, <1>7, <1>8, <1>9, <1>10, OneChanges

\* The buffer of an object that can change is its own.
LEMMA OwnBuffer ==
  ASSUME ByteInv, NEW o \in Objects, handle[o] # NoHandle, ~handle[o].immutable,
         NEW b \in Objects, b = o \/ b = handle[o].buffer
  PROVE  b = o
<1>1. handle[o].memoryOwner = o
  BY Owners
<1> QED
  BY <1>1, ByteAssumption DEF ByteInv, HandleInv

\* A list that is written to the memory that was asked for.
LEMMA ResizedList ==
  ASSUME ByteInv, NEW o \in held, ~handle[o].immutable,
         NEW n \in 0..(MaxLength + 1), NEW list \in Memory,
         Len(list) <= n \/ (n = 0 /\ Len(list) = handle[o].length),
         handle[o].buffer = Wild => n = 0,
         handle[o].buffer = Null => (n > 0 \/ \A i \in 1..Len(list) : list[i] = Unknown),
         Resize(o, n, list)
  PROVE  ListsSeen' = [ListsSeen EXCEPT ![o] = list] /\ Len(list) <= MaxLength
<1>1. o \in Objects /\ handle[o] # NoHandle
  BY DEF ByteInv, ByteTypeOK
<1>2. held' = held /\ Len(list) \in 0..MaxLength /\ Len(list) <= MaxLength
  <2>1. held' = held /\ Len(list) \in 0..MaxLength
    BY <1>1, Resizes
  <2> QED
    BY <2>1, ByteAssumption
<1>3. PICK h \in Handles : Resizing(o, n, list, h)
  BY <1>1, Resizes
<1>4. handle' = [handle EXCEPT ![o] = h] /\ h.length = Len(list)
  BY <1>3 DEF Resizing
<1>5. CASE /\ n = 0 /\ heap' = heap /\ handle[o].buffer \in {Null, Wild}
           /\ h.buffer = handle[o].buffer /\ h.capacity = 0
           /\ h.buffer = Wild => Len(list) = 0
  <2>1. h.buffer \notin Objects /\ \A i \in 1..Len(list) : list[i] = Unknown
    BY <1>5, ByteAssumption
  <2>2. handle'[o] = h /\ \A q \in Objects \ {o} : handle'[q] = handle[q] /\ heap'[q] = heap[q]
    BY <1>1, <1>4, <1>5 DEF ByteInv, ByteTypeOK
  <2>3. List(o)' = list
    BY <1>1, <1>4, <2>1, <2>2, ReadNothing
  <2>4. \A q \in held \ {o} : List(q)' = List(q)
    BY <1>1, <2>2, OthersStay
  <2> QED
    BY <1>1, <1>2, <2>3, <2>4, OneChanges
<1>6. ASSUME NEW b \in Objects, NEW rest \in Memory, b = o \/ b = handle[o].buffer,
             heap' = [heap EXCEPT ![b] = list \o rest], h.buffer = b
      PROVE  ListsSeen' = [ListsSeen EXCEPT ![o] = list]
  <2>1. PICK content : content = list \o rest
    OBVIOUS
  <2>2. StartsWith(content, list)
    BY <2>1 DEF Memory, StartsWith
  <2>3. b = o
    BY <1>1, <1>6, OwnBuffer
  <2>4. handle'[o] = h /\ heap'[o] = content
        /\ \A q \in Objects \ {o} : handle'[q] = handle[q] /\ heap'[q] = heap[q]
    BY <1>1, <1>4, <1>6, <2>1, <2>3 DEF ByteInv, ByteTypeOK
  <2>5. List(o)' = list
    BY <1>1, <1>4, <1>6, <2>2, <2>3, <2>4, ReadOff
  <2>6. \A q \in held \ {o} : List(q)' = List(q)
    BY <1>1, <2>4, OthersStay
  <2> QED
    BY <1>1, <1>2, <2>5, <2>6, OneChanges
<1> QED
  BY <1>2, <1>3, <1>5, <1>6 DEF Resizing

LEMMA RewriteList ==
  ASSUME ByteInv, NEW o \in Objects, Has(o, "ByteArray"),
         NEW n \in Nat, NEW list \in Memory, Len(list) <= n, n <= Len(list) + 1,
         Rewrite(o, n, list)
  PROVE  \/ BtTrap("access")
         \/ ListsSeen' = [ListsSeen EXCEPT ![o] = list] /\ Len(list) <= MaxLength
         \/ ListsSeen' = [ListsSeen EXCEPT ![o] = Unspecified(Len(List(o)))]
<1>1. handle[o] # NoHandle /\ handle[o].class = "ByteArray" /\ o \in held
  BY DEF Has, ByteInv, ByteTypeOK
<1>2. ~handle[o].immutable
  BY <1>1, Owners
<1>3. ASSUME handle[o].buffer = Wild => n = 0, Resize(o, n, list)
      PROVE  ListsSeen' = [ListsSeen EXCEPT ![o] = list] /\ Len(list) <= MaxLength
  <2>1. Len(list) <= MaxLength /\ Len(list) \in Nat
    BY <1>3 DEF Resize, Memory
  <2>2. n \in 0..(MaxLength + 1) /\ (n > 0 \/ \A i \in 1..Len(list) : list[i] = Unknown)
    BY <2>1, ByteAssumption
  <2> QED
    BY <1>1, <1>2, <1>3, <2>2, ResizedList
<1>4. ASSUME handle[o].buffer = Wild => n = 0, ResizeFails(o, n, handle[o].length)
      PROVE  ListsSeen' = [ListsSeen EXCEPT ![o] = Unspecified(Len(List(o)))]
  <2> DEFINE h == [handle[o] EXCEPT !.buffer = Null, !.capacity = 0, !.length = handle[o].length]
  <2>1. handle[o] \in Handles /\ Doubled[MaxLength] \in Nat /\ MaxLength \in Nat
    BY <1>1, DoubledIs, ByteAssumption DEF ByteInv, ByteTypeOK
  <2>11. 0 \in 0..Doubled[MaxLength]
    BY <2>1
  <2>2. h \in Handles /\ h.buffer = Null /\ h.length = handle[o].length
    BY <2>1, <2>11 DEF Handles
  <2>3. handle' = [handle EXCEPT ![o] = h] /\ held' = held
    BY <1>1, <1>4, <2>1 DEF ResizeFails, ByteInv, ByteTypeOK, Handles
  <2>4. heap' = [b \in Objects |-> IF b = handle[o].buffer THEN FreeBlock ELSE heap[b]]
    BY <1>4 DEF ResizeFails
  <2>5. handle[o].buffer \in Objects => handle[o].buffer = o
    <3>1. handle[o].memoryOwner = o
      BY <1>1, <1>2, Owners
    <3> QED
      BY <1>1, <3>1, ByteAssumption DEF ByteInv, HandleInv
  <2> HIDE DEF h
  <2>6. handle'[o] = h /\ \A q \in Objects \ {o} : handle'[q] = handle[q] /\ heap'[q] = heap[q]
    BY <2>3, <2>4, <2>5 DEF ByteInv, ByteTypeOK
  <2>7. PICK l \in Nat : l = Len(List(o)) /\ l = handle[o].length
    BY <1>1, <2>1, ListIs, ByteAssumption
  <2>8. PICK s \in Memory : s = Unspecified(l) /\ Len(s) = l /\ \A i \in 1..Len(s) : s[i] = Unknown
    BY UnspecifiedIs DEF Unspecified
  <2>9. List(o)' = s
    <3>1. PICK k \in Handles : k = h
      BY <2>2
    <3> QED
      BY <2>2, <2>6, <2>7, <2>8, <3>1, ByteAssumption, ReadNothing
  <2>10. \A q \in held \ {o} : List(q)' = List(q)
    BY <1>1, <1>2, <2>6, OthersStay
  <2> QED
    BY <1>1, <2>3, <2>7, <2>8, <2>9, <2>10, OneChanges
<1>5. \/ BtTrap("access")
      \/ (handle[o].buffer = Wild => n = 0) /\ (Resize(o, n, list) \/ ResizeFails(o, n, handle[o].length))
  BY DEF Rewrite
<1> QED
  BY <1>3, <1>4, <1>5

LEMMA TrapStutters ==
  ASSUME NEW what, BtTrap(what)
  PROVE  ListsSeen' = ListsSeen
BY DEF BtTrap, ListsSeen, List, Read

LEMMA CopiedList ==
  ASSUME ByteInv, NEW o \in Objects, NEW class \in Classes, NEW p \in Objects, handle[p] # NoHandle,
         NEW first \in Nat, NEW n \in Nat, NEW immutable \in BOOLEAN,
         CopyOut(o, class, p, first, n, immutable)
  PROVE  \/ ListsSeen' = ListsSeen
         \/ /\ o \notin held
            /\ \E s \in Memory : Len(s) <= MaxLength /\ ListsSeen' = [ListsSeen EXCEPT ![o] = s]
<1> DEFINE list == IF handle[p].buffer = Null THEN [i \in 1..n |-> 0]
                   ELSE Read(handle[p].buffer, first, n)
<1>1. list \in Memory
  <2>1. [i \in 1..n |-> 0] \in [1..n -> Bytes \cup {Unknown}]
    BY ByteAssumption
  <2>2. [i \in 1..n |-> 0] \in Memory
    BY <2>1, FunctionIsSequence DEF Memory
  <2> QED
    BY <2>2, ReadIs
<1>2. PICK s : s = list
  OBVIOUS
<1>3. BtTrap("access") \/ FromCArray(o, class, s, immutable)
  BY <1>2 DEF CopyOut, FromCArray
<1> HIDE DEF list
<1> QED
  BY <1>1, <1>2, <1>3, CreatedList, TrapStutters

-----------------------------------------------------------------------------
(* The steps of ByteLists                                                    *)

\* A list of no more than MaxLength bytes is one of ByteLists.
LEMMA ListsHave ==
  ASSUME NEW s \in Memory, Len(s) <= MaxLength
  PROVE  s \in Abstract!Lists
<1>1. Len(s) \in 0..MaxLength /\ s \in [1..Len(s) -> Bytes \cup {Unknown}]
  BY DEF Memory
<1> QED
  BY <1>1 DEF Abstract!Lists, Abstract!BoundedSeq, Abstract!SeqOf

LEMMA KnownHas ==
  ASSUME NEW s \in Seq(Bytes), Len(s) <= MaxLength
  PROVE  s \in Abstract!Known
<1>1. Len(s) \in 0..MaxLength /\ s \in [1..Len(s) -> Bytes]
  OBVIOUS
<1> QED
  BY <1>1 DEF Abstract!Known, Abstract!BoundedSeq, Abstract!SeqOf

\* What is created ...
LEMMA AsCreate ==
  ASSUME ByteInv, NEW o \in Objects, o \notin held, NEW s \in Memory, Len(s) <= MaxLength,
         ListsSeen' = [ListsSeen EXCEPT ![o] = s]
  PROVE  Abstract!ListsNext
<1>1. s \in Abstract!Lists
  BY ListsHave
<1>2. Abstract!Create(o, s)
  BY DEF Abstract!Create
<1>3. ~Abstract!HasList(o)
  BY DEF Abstract!HasList, ListsSeen
<1> QED
  BY <1>1, <1>2, <1>3 DEF Abstract!ListsNext

\* ... and what a list becomes.
LEMMA AsChange ==
  ASSUME ByteInv, NEW o \in held, Abstract!Change(o)
  PROVE  Abstract!ListsNext
<1>1. o \in Objects /\ List(o) \in Memory
  BY ListIs DEF ByteInv, ByteTypeOK
<1>2. Abstract!HasList(o)
  BY <1>1, ByteAssumption DEF Abstract!HasList, ListsSeen
<1> QED
  BY <1>1, <1>2 DEF Abstract!ListsNext

\* A list that is cut off or extended with zeros, and one with another byte in a place.
LengthSet(l, s) ==
  \E n \in 0..MaxLength : s = [i \in 1..n |-> IF i \in DOMAIN l THEN l[i] ELSE 0]
ByteSet(l, s) ==
  \E i \in 1..MaxLength, b \in Bytes : i \in DOMAIN l /\ s = [l EXCEPT ![i] = b]

LEMMA AsBecomes ==
  ASSUME ByteInv, NEW o \in held, NEW s, Len(s) <= MaxLength,
         ListsSeen' = [ListsSeen EXCEPT ![o] = s], NEW l, l = List(o),
         \/ s = Unspecified(Len(l)) \/ s = l \o l \/ s = l \o Unspecified(Len(l))
         \/ (l # <<>> /\ (s = Front(l) \/ s = Tail(l)))
         \/ s = Reverse(l)
         \/ \E t \in Seq(Bytes) : Len(t) <= MaxLength /\ (s = l \o t \/ s = t \o l)
         \/ LengthSet(l, s)
         \/ ByteSet(l, s)
  PROVE  Abstract!ListsNext
<1>1. o \in Objects
  BY DEF ByteInv, ByteTypeOK
<1>2. ListsSeen[o] = l
  BY <1>1 DEF ListsSeen
<1>3. Len(s) <= MaxLength /\ ListsSeen' = [ListsSeen EXCEPT ![o] = s]
  OBVIOUS
<1>4. SUFFICES Abstract!Change(o)
  BY AsChange
<1>5. CASE s = Unspecified(Len(l))
  BY <1>2, <1>3, <1>5 DEF Abstract!Change, Abstract!Lose, Abstract!Becomes, Abstract!Unknowns, Unspecified
<1>6. CASE s = l \o l
  BY <1>2, <1>3, <1>6 DEF Abstract!Change, Abstract!UnshiftSelf, Abstract!Becomes
<1>7. CASE s = l \o Unspecified(Len(l))
  BY <1>2, <1>3, <1>7 DEF Abstract!Change, Abstract!PushSelf, Abstract!Becomes, Abstract!Unknowns, Unspecified
<1>8. CASE l # <<>> /\ s = Front(l)
  BY <1>2, <1>3, <1>8 DEF Abstract!Change, Abstract!Pop, Abstract!Becomes, Abstract!Front, Front
<1>9. CASE l # <<>> /\ s = Tail(l)
  BY <1>2, <1>3, <1>9 DEF Abstract!Change, Abstract!Shift, Abstract!Becomes
<1>10. CASE s = Reverse(l)
  BY <1>2, <1>3, <1>10 DEF Abstract!Change, Abstract!ReverseList, Abstract!Becomes, Abstract!Reverse, Reverse
<1>11. ASSUME NEW t \in Seq(Bytes), Len(t) <= MaxLength, s = l \o t \/ s = t \o l
       PROVE  Abstract!Change(o)
  <2>1. t \in Abstract!Known
    BY <1>11, KnownHas
  <2> QED
    BY <1>2, <1>3, <1>11, <2>1 DEF Abstract!Change, Abstract!Push, Abstract!Unshift, Abstract!Becomes
<1>12. ASSUME NEW n \in 0..MaxLength, s = [i \in 1..n |-> IF i \in DOMAIN l THEN l[i] ELSE 0]
       PROVE  Abstract!Change(o)
  <2>1. Abstract!SetLength(o, n)
    BY <1>2, <1>3, <1>12 DEF Abstract!SetLength, Abstract!Becomes
  <2> QED
    BY <2>1 DEF Abstract!Change
<1>13. ASSUME NEW i \in 1..MaxLength, NEW b \in Bytes, i \in DOMAIN l, s = [l EXCEPT ![i] = b]
       PROVE  Abstract!Change(o)
  <2>1. Abstract!SetByte(o, i, b)
    BY <1>2, <1>3, <1>13 DEF Abstract!SetByte, Abstract!Becomes
  <2> QED
    BY <2>1 DEF Abstract!Change
<1> QED
  BY <1>5, <1>6, <1>7, <1>8, <1>9, <1>10, <1>11, <1>12, <1>13 DEF LengthSet, ByteSet

\* A method that writes a list steps as ByteLists does, or ends the program, or loses it.
LEMMA AsRewrite ==
  ASSUME ByteInv, NEW o \in Objects, Has(o, "ByteArray"),
         NEW n \in Nat, NEW s \in Memory, Len(s) <= n, n <= Len(s) + 1, Rewrite(o, n, s),
         NEW l, l = List(o),
         \/ s = l \o l \/ s = l \o Unspecified(Len(l))
         \/ (l # <<>> /\ (s = Front(l) \/ s = Tail(l)))
         \/ \E t \in Seq(Bytes) : Len(t) <= Len(s) /\ (s = l \o t \/ s = t \o l)
         \/ LengthSet(l, s)
  PROVE  [Abstract!ListsNext]_ListsSeen
<1>1. o \in held /\ handle[o] # NoHandle
  BY DEF Has, ByteInv, ByteTypeOK
<1>2. CASE BtTrap("access")
  BY <1>2, TrapStutters
<1>3. CASE ListsSeen' = [ListsSeen EXCEPT ![o] = s] /\ Len(s) <= MaxLength
  <2>1. ASSUME NEW t \in Seq(Bytes), Len(t) <= Len(s)
        PROVE  Len(t) <= MaxLength
    <3>1. Len(t) \in Nat /\ Len(s) \in Nat /\ MaxLength \in Nat
      BY ByteAssumption DEF Memory
    <3> QED
      BY <1>3, <2>1, <3>1
  <2>2. CASE \E t \in Seq(Bytes) : Len(t) <= Len(s) /\ (s = l \o t \/ s = t \o l)
    BY <1>1, <1>3, <2>1, <2>2, AsBecomes
  <2>3. CASE s = l \o l
    BY <1>1, <1>3, <2>3, AsBecomes
  <2>5. CASE s = l \o Unspecified(Len(l))
    BY <1>1, <1>3, <2>5, AsBecomes
  <2>6. CASE l # <<>> /\ s = Front(l)
    BY <1>1, <1>3, <2>6, AsBecomes
  <2>7. CASE l # <<>> /\ s = Tail(l)
    BY <1>1, <1>3, <2>7, AsBecomes
  <2>4. CASE LengthSet(l, s)
    BY <1>1, <1>3, <2>4, AsBecomes
  <2> QED
    BY <2>2, <2>3, <2>4, <2>5, <2>6, <2>7
<1>4. CASE ListsSeen' = [ListsSeen EXCEPT ![o] = Unspecified(Len(List(o)))]
  <2>1. PICK k \in Nat : k = Len(l) /\ k <= MaxLength
    BY <1>1, ListIs, ByteAssumption
  <2>2. PICK u : u = Unspecified(k) /\ Len(u) = k
    BY UnspecifiedIs
  <2> QED
    BY <1>1, <1>4, <2>1, <2>2, AsBecomes
<1> QED
  BY <1>2, <1>3, <1>4, RewriteList

LEMMA ArraysStep ==
  ASSUME ByteInv, NEW o \in Objects, Has(o, "ByteArray")
  PROVE  /\ ArrayPop(o) => [Abstract!ListsNext]_ListsSeen
         /\ ArrayShift(o) => [Abstract!ListsNext]_ListsSeen
         /\ ArrayAppendSelf(o) => [Abstract!ListsNext]_ListsSeen
         /\ ArrayPrependSelf(o) => [Abstract!ListsNext]_ListsSeen
         /\ \A n \in 0..MaxLength : ArraySetLength(o, n) => [Abstract!ListsNext]_ListsSeen
         /\ \A list \in Fresh :
              /\ ArrayAppend(o, list) => [Abstract!ListsNext]_ListsSeen
              /\ ArrayPrepend(o, list) => [Abstract!ListsNext]_ListsSeen
              /\ \A invalid \in {0, 1} :
                   ArrayPush(o, list, Len(list) + invalid) => [Abstract!ListsNext]_ListsSeen
<1> DEFINE n == handle[o].length
<1>1. handle[o] # NoHandle
  BY DEF Has, ByteInv, ByteTypeOK
<1>2. PICK l : l = List(o)
  OBVIOUS
<1>3. l \in Seq(Bytes \cup {Unknown}) /\ Len(l) = n /\ n \in Nat
  BY <1>1, <1>2, ListIs, ByteAssumption DEF Memory
<1> HIDE DEF n
<1>4. \A what \in {"access", "free", "assertion", "loop"} : BtTrap(what) => [Abstract!ListsNext]_ListsSeen
  BY TrapStutters
<1>5. ASSUME ArrayPop(o) PROVE [Abstract!ListsNext]_ListsSeen
  <2> PICK m, s : m = n - 1 /\ s = Front(l)
    OBVIOUS
  <2>1. BtTrap("loop") \/ BtTrap("access") \/ (l # <<>> /\ Rewrite(o, m, s))
    BY <1>2, <1>5 DEF ArrayPop, n, Rewrite, Resize, ResizeFails, BtTrap
  <2>2. CASE l # <<>> /\ Rewrite(o, m, s)
    <3>1. s \in Memory /\ Len(s) = n - 1 /\ n - 1 \in Nat
      BY <1>3, <2>2 DEF Front, Memory
    <3>2. m \in Nat /\ Len(s) <= m /\ m <= Len(s) + 1
      BY <1>3, <3>1
    <3> QED
      BY <1>2, <2>2, <3>1, <3>2, AsRewrite
  <2> QED
    BY <1>4, <2>1, <2>2
<1>6. ASSUME ArrayShift(o) PROVE [Abstract!ListsNext]_ListsSeen
  <2> PICK m, s : m = n - 1 /\ s = Tail(l)
    OBVIOUS
  <2>1. BtTrap("access") \/ Rewrite(o, m, s)
    BY <1>2, <1>6 DEF ArrayShift, n, Rewrite, Resize, ResizeFails, BtTrap
  <2>2. n > 0
    BY <1>6 DEF ArrayShift, n
  <2>3. l # <<>>
    BY <1>3, <2>2
  <2>4. s \in Memory /\ Len(s) = n - 1 /\ n - 1 \in Nat
    BY <1>3, <2>3 DEF Memory
  <2>5. m \in Nat /\ Len(s) <= m /\ m <= Len(s) + 1
    BY <1>3, <2>4
  <2>6. CASE Rewrite(o, m, s)
    BY <1>2, <2>3, <2>4, <2>5, <2>6, AsRewrite
  <2> QED
    BY <1>4, <2>1, <2>6
<1>7. /\ l \o l \in Memory /\ Len(l \o l) = 2 * n
      /\ l \o Unspecified(n) \in Memory /\ Len(l \o Unspecified(n)) = 2 * n
      /\ 2 * n \in Nat
  <2>1. Unspecified(n) \in Seq(Bytes \cup {Unknown}) /\ Len(Unspecified(n)) = n
    BY <1>3, UnspecifiedIs DEF Memory
  <2> QED
    BY <1>3, <2>1 DEF Memory
<1>8. ASSUME ArrayAppendSelf(o) PROVE [Abstract!ListsNext]_ListsSeen
  <2> PICK m, s, t : m = 2 * n /\ s = l \o l /\ t = l \o Unspecified(n)
    OBVIOUS
  <2>1. BtTrap("access") \/ Rewrite(o, m, s) \/ Rewrite(o, m, t)
    BY <1>2, <1>8 DEF ArrayAppendSelf, n, Rewrite, Resize, ResizeFails, BtTrap
  <2>2. m \in Nat /\ s \in Memory /\ Len(s) <= m /\ m <= Len(s) + 1
    BY <1>7
  <2>3. t \in Memory /\ Len(t) <= m /\ m <= Len(t) + 1
    BY <1>7
  <2>4. CASE Rewrite(o, m, s)
    BY <1>2, <2>2, <2>4, AsRewrite
  <2>5. CASE Rewrite(o, m, t)
    <3>1. t = l \o Unspecified(Len(l))
      BY <1>3
    <3> QED
      BY <1>2, <2>2, <2>3, <2>5, <3>1, AsRewrite
  <2> QED
    BY <1>4, <2>1, <2>4, <2>5
<1>9. ASSUME ArrayPrependSelf(o) PROVE [Abstract!ListsNext]_ListsSeen
  <2> PICK m, s : m = 2 * n /\ s = l \o l
    OBVIOUS
  <2>1. Rewrite(o, m, s)
    BY <1>2, <1>9 DEF ArrayPrependSelf, n, Rewrite, Resize, ResizeFails, BtTrap
  <2>2. m \in Nat /\ s \in Memory /\ Len(s) <= m /\ m <= Len(s) + 1
    BY <1>7
  <2> QED
    BY <1>2, <2>1, <2>2, AsRewrite
<1>10. ASSUME NEW m \in 0..MaxLength, ArraySetLength(o, m) PROVE [Abstract!ListsNext]_ListsSeen
  <2> DEFINE list == [i \in 1..m |-> IF i <= n THEN l[i] ELSE 0]
  <2> PICK s : s = list
    OBVIOUS
  <2>1. Rewrite(o, m, s)
    BY <1>2, <1>10 DEF ArraySetLength, n, Rewrite, Resize, ResizeFails, BtTrap
  <2>2. m \in Nat
    BY ByteAssumption
  <2>3. list \in [1..m -> Bytes \cup {Unknown}]
    BY <1>3, <2>2, ByteAssumption
  <2>4. list = [i \in 1..m |-> IF i \in DOMAIN l THEN l[i] ELSE 0]
    BY <1>3, <2>2
  <2>7. LengthSet(l, s)
    BY <2>4 DEF LengthSet
  <2> HIDE DEF list
  <2>5. s \in Memory /\ Len(s) = m
    BY <2>2, <2>3, FunctionIsSequence DEF Memory
  <2>6. Len(s) <= m /\ m <= Len(s) + 1
    BY <2>2, <2>5
  <2> QED
    BY <1>2, <2>1, <2>2, <2>5, <2>6, <2>7, AsRewrite
<1>11. ASSUME NEW list \in Fresh
       PROVE  /\ ArrayAppend(o, list) => [Abstract!ListsNext]_ListsSeen
              /\ ArrayPrepend(o, list) => [Abstract!ListsNext]_ListsSeen
              /\ \A invalid \in {0, 1} :
                   ArrayPush(o, list, Len(list) + invalid) => [Abstract!ListsNext]_ListsSeen
  <2>1. list \in Seq(Bytes \cup {Unknown}) /\ Len(list) \in Nat /\ list \in Seq(Bytes)
    BY FreshIs DEF Memory
  <2>2. /\ l \o list \in Memory /\ Len(l \o list) = n + Len(list)
        /\ list \o l \in Memory /\ Len(list \o l) = n + Len(list)
    BY <1>3, <2>1 DEF Memory
  <2>3. ASSUME NEW m, NEW s, s = l \o list \/ s = list \o l, m = n + Len(list) \/ m = n + (Len(list) + 1),
               Rewrite(o, m, s)
        PROVE  [Abstract!ListsNext]_ListsSeen
    <3> PICK k \in Nat : k = Len(list)
      BY <2>1
    <3>3. s \in Memory /\ Len(s) = n + k
      BY <2>2, <2>3
    <3>1. m \in Nat /\ s \in Memory /\ Len(s) <= m /\ m <= Len(s) + 1
      BY <1>3, <2>3, <3>3
    <3>2. Len(list) <= Len(s)
      BY <1>3, <3>3
    <3> QED
      BY <1>2, <2>1, <2>3, <3>1, <3>2, AsRewrite
  <2>4. ASSUME ArrayAppend(o, list) PROVE [Abstract!ListsNext]_ListsSeen
    <3> PICK m, s : m = n + Len(list) /\ s = l \o list
      OBVIOUS
    <3>1. BtTrap("assertion") \/ Rewrite(o, m, s)
      BY <1>2, <2>4 DEF ArrayAppend, n, Rewrite, Resize, ResizeFails, BtTrap
    <3> QED
      BY <1>4, <2>3, <3>1
  <2>5. ASSUME ArrayPrepend(o, list) PROVE [Abstract!ListsNext]_ListsSeen
    <3> PICK m, s : m = n + Len(list) /\ s = list \o l
      OBVIOUS
    <3>1. BtTrap("assertion") \/ Rewrite(o, m, s)
      BY <1>2, <2>5 DEF ArrayPrepend, n, Rewrite, Resize, ResizeFails, BtTrap
    <3> QED
      BY <1>4, <2>3, <3>1
  <2>6. ASSUME NEW invalid \in {0, 1}, ArrayPush(o, list, Len(list) + invalid)
        PROVE  [Abstract!ListsNext]_ListsSeen
    <3> PICK m, s : m = n + (Len(list) + invalid) /\ s = l \o list
      OBVIOUS
    <3>1. Rewrite(o, m, s)
      BY <1>2, <2>6 DEF ArrayPush, n, Rewrite, Resize, ResizeFails, BtTrap
    <3>3. CASE invalid = 0
      <4>1. m = n + Len(list)
        BY <2>1, <3>3
      <4> QED
        BY <2>3, <3>1, <4>1
    <3>4. CASE invalid = 1
      BY <2>3, <3>1, <3>4
    <3> QED
      BY <2>6, <3>3, <3>4
  <2> QED
    BY <2>4, <2>5, <2>6
<1> QED
  BY <1>5, <1>6, <1>8, <1>9, <1>10, <1>11

-----------------------------------------------------------------------------
(* A byte in a place, reversing, sorting                                     *)

\* What a script reads where an array has no memory.
LEMMA NothingThere ==
  ASSUME NEW o \in Objects, handle[o].buffer = Null, NEW l, l = List(o), handle[o].length \in Nat
  PROVE  \A i \in DOMAIN l : l[i] = Unknown
BY ByteAssumption DEF List, Read

\* What does not ask for memory writes the list in place, which is of the same length.
LEMMA InPlace ==
  ASSUME ByteInv, NEW o \in Objects, Has(o, "ByteArray"),
         NEW s \in Memory, Len(s) = handle[o].length, Resize(o, 0, s),
         handle[o].buffer = Null => \A i \in 1..Len(s) : s[i] = Unknown
  PROVE  ListsSeen' = [ListsSeen EXCEPT ![o] = s] /\ Len(s) <= MaxLength
<1>1. o \in held /\ handle[o] # NoHandle /\ handle[o].class = "ByteArray"
  BY DEF Has, ByteInv, ByteTypeOK
<1>2. ~handle[o].immutable
  BY <1>1, Owners
<1>3. 0 \in 0..(MaxLength + 1)
  BY ByteAssumption
<1> QED
  BY <1>1, <1>2, <1>3, ResizedList

LEMMA ReverseStep ==
  ASSUME ByteInv, NEW o \in Objects, ArrayReverse(o)
  PROVE  [Abstract!ListsNext]_ListsSeen
<1>1. Has(o, "ByteArray") /\ o \in held /\ handle[o] # NoHandle
  BY DEF ArrayReverse, Has, ByteInv, ByteTypeOK
<1>2. PICK l \in Memory : l = List(o) /\ Len(l) = handle[o].length
  BY <1>1, ListIs
<1>3. handle[o].length \in Nat
  BY <1>1, ListIs, ByteAssumption
<1>4. PICK s : s = Reverse(l)
  OBVIOUS
<1>5. s \in Memory /\ Len(s) = handle[o].length
  <2>1. s \in [1..Len(l) -> Bytes \cup {Unknown}]
    BY <1>2, <1>3, <1>4 DEF Reverse, Memory
  <2> QED
    BY <1>2, <1>3, <2>1, FunctionIsSequence DEF Memory
<1>6. handle[o].buffer = Null => \A i \in 1..Len(s) : s[i] = Unknown
  BY <1>2, <1>3, <1>4, <1>5, NothingThere DEF Reverse, Memory
<1>7. BtTrap("access") \/ Resize(o, 0, s)
  BY <1>2, <1>4 DEF ArrayReverse, Resize
<1>8. ASSUME Resize(o, 0, s) PROVE Abstract!ListsNext
  <2>1. ListsSeen' = [ListsSeen EXCEPT ![o] = s] /\ Len(s) <= MaxLength
    BY <1>1, <1>5, <1>6, <1>8, InPlace
  <2> QED
    BY <1>1, <1>2, <1>4, <2>1, AsBecomes
<1> QED
  BY <1>7, <1>8, TrapStutters

LEMMA SortStep ==
  ASSUME ByteInv, NEW o \in Objects, ArraySort(o)
  PROVE  [Abstract!ListsNext]_ListsSeen
<1>1. Has(o, "ByteArray") /\ o \in held /\ handle[o] # NoHandle
  BY DEF ArraySort, Has, ByteInv, ByteTypeOK
<1>2. PICK l \in Memory : l = List(o) /\ Len(l) = handle[o].length
  BY <1>1, ListIs
<1>3. handle[o].length \in Nat
  BY <1>1, ListIs, ByteAssumption
<1>4. BtTrap("access") \/ \E s \in Ordered(l) : Resize(o, 0, s)
  BY <1>2 DEF ArraySort
<1>5. ASSUME NEW s \in Ordered(l), Resize(o, 0, s) PROVE Abstract!ListsNext
  <2>1. s \in Memory /\ Len(s) = handle[o].length /\ DOMAIN l = 1..Len(l)
    BY <1>2, OrderedIs DEF Memory
  <2>2. \/ (\E i \in DOMAIN l : l[i] = Unknown) /\ s = Unspecified(Len(l))
        \/ /\ ~\E i \in DOMAIN l : l[i] = Unknown
           /\ \E p \in Bijection(DOMAIN l, DOMAIN l) : s = [i \in DOMAIN l |-> l[p[i]]]
           /\ \A i, j \in DOMAIN l : i < j => s[i] <= s[j]
    BY DEF Ordered
  <2>3. handle[o].buffer = Null => \A i \in 1..Len(s) : s[i] = Unknown
    BY <1>2, <1>3, <2>1, <2>2, NothingThere DEF Unspecified
  <2>4. ListsSeen' = [ListsSeen EXCEPT ![o] = s] /\ Len(s) <= MaxLength
    BY <1>1, <1>5, <2>1, <2>3, InPlace
  <2>5. ListsSeen[o] = l
    BY <1>1, <1>2 DEF ListsSeen
  <2>6. s \in Abstract!Lists /\ Abstract!Becomes(o, s)
    BY <2>1, <2>4, ListsHave DEF Abstract!Becomes
  <2>7. CASE (\E i \in DOMAIN l : l[i] = Unknown) /\ s = Unspecified(Len(l))
    <3>1. Unknown \in Abstract!ToSet(l) /\ s = Abstract!Unknowns(Len(l))
      BY <2>7 DEF Abstract!ToSet, Abstract!Unknowns, Unspecified
    <3>2. Abstract!SortList(o)
      BY <2>5, <2>6, <3>1 DEF Abstract!SortList
    <3> QED
      BY <1>1, <3>2, AsChange DEF Abstract!Change
  <2>8. CASE /\ ~\E i \in DOMAIN l : l[i] = Unknown
             /\ \E p \in Bijection(DOMAIN l, DOMAIN l) : s = [i \in DOMAIN l |-> l[p[i]]]
             /\ \A i, j \in DOMAIN l : i < j => s[i] <= s[j]
    <3>1. Unknown \notin Abstract!ToSet(l)
      BY <2>8 DEF Abstract!ToSet
    <3>2. PICK p \in Bijection(DOMAIN l, DOMAIN l) : s = [i \in DOMAIN l |-> l[p[i]]]
      BY <2>8
    <3>3. p \in Abstract!Bijection(DOMAIN l, DOMAIN l)
      BY DEF Abstract!Bijection, Abstract!Surjection, Abstract!Injection, Abstract!IsInjective,
             Bijection, Surjection, Injection, IsInjective
    <3>4. \A i, j \in DOMAIN s : i < j => s[i] <= s[j]
      BY <2>8, <3>2
    <3>5. Abstract!SortList(o)
      BY <2>5, <2>6, <3>1, <3>2, <3>3, <3>4 DEF Abstract!SortList
    <3> QED
      BY <1>1, <3>5, AsChange DEF Abstract!Change
  <2> QED
    BY <2>2, <2>7, <2>8
<1> QED
  BY <1>4, <1>5, TrapStutters

LEMMA SetPropertyStep ==
  ASSUME ByteInv, NEW o \in Objects, NEW i \in 0..MaxLength, NEW byte \in Bytes,
         ArraySetProperty(o, i, byte)
  PROVE  [Abstract!ListsNext]_ListsSeen
<1>1. o \in held /\ handle[o] # NoHandle /\ handle[o].class = "ByteArray" /\ i < handle[o].length
  BY DEF ArraySetProperty, Has, ByteInv, ByteTypeOK
<1>2. ~handle[o].immutable
  BY <1>1, Owners
<1>3. PICK l \in Memory : l = List(o) /\ Len(l) = handle[o].length
  BY <1>1, ListIs
<1>4. PICK h \in Handles : h = handle[o]
  BY <1>1 DEF ByteInv, ByteTypeOK
<1>5. h.length \in Nat /\ h.length <= MaxLength /\ MaxLength \in Nat /\ HandleInv(o)
  BY <1>1, <1>4, ByteAssumption DEF Handles, ByteInv
<1>6. CASE Lost(o)
  BY <1>6, TrapStutters DEF ArraySetProperty
<1>7. CASE ~Lost(o)
  <2>1. h.buffer \in Objects
    <3>1. h.buffer # Null /\ h.buffer # Wild
      BY <1>1, <1>4, <1>5, <1>7 DEF Lost, HandleInv
    <3> QED
      BY <1>4, <3>1 DEF Handles
  <2>2. h.buffer = o
    BY <1>1, <1>2, <1>4, <2>1, OwnBuffer
  <2>3. PICK content \in Memory : content = heap[o] /\ h.length <= Len(content)
    BY <1>4, <1>5, <2>1, <2>2 DEF ByteInv, ByteTypeOK, HandleInv, Blocks
  <2>4. PICK s, c : s = [l EXCEPT ![i + 1] = byte] /\ c = [content EXCEPT ![i + 1] = byte]
    OBVIOUS
  <2>5. heap' = [heap EXCEPT ![o] = c] /\ handle' = handle /\ held' = held
    BY <1>4, <1>7, <2>2, <2>3, <2>4 DEF ArraySetProperty
  <2>6. handle'[o] = h /\ heap'[o] = c /\ \A q \in Objects \ {o} : handle'[q] = handle[q] /\ heap'[q] = heap[q]
    BY <1>4, <2>5 DEF ByteInv, ByteTypeOK
  <2>7. s \in Memory /\ c \in Memory /\ Len(s) = h.length /\ Len(c) = Len(content)
    <3>1. /\ l \in [1..Len(l) -> Bytes \cup {Unknown}] /\ Len(l) \in Nat
          /\ content \in [1..Len(content) -> Bytes \cup {Unknown}] /\ Len(content) \in Nat
      BY DEF Memory
    <3>2. /\ s \in [1..Len(l) -> Bytes \cup {Unknown}]
          /\ c \in [1..Len(content) -> Bytes \cup {Unknown}]
      BY <2>4, <3>1
    <3> QED
      BY <1>3, <1>4, <3>1, <3>2, FunctionIsSequence DEF Memory
  <2>8. \A k \in 1..Len(l) : l[k] = content[k]
    <3>1. l = [k \in 1..h.length |->
            IF h.buffer \in Objects /\ 0 + k \in DOMAIN heap[h.buffer] THEN heap[h.buffer][0 + k] ELSE Unknown]
      BY <1>3, <1>4 DEF List, Read
    <3>2. DOMAIN content = 1..Len(content) /\ Len(content) \in Nat
      BY DEF Memory
    <3>3. ASSUME NEW k \in 1..h.length
          PROVE  l[k] = content[k]
      <4>1. 0 + k = k /\ k \in 1..Len(content)
        BY <1>5, <2>3, <3>2
      <4> QED
        BY <2>1, <2>2, <2>3, <3>1, <3>2, <4>1
    <3> QED
      BY <1>3, <1>4, <3>3
  <2>9. StartsWith(c, s)
    <3>1. DOMAIN l = 1..Len(l) /\ DOMAIN content = 1..Len(content) /\ Len(l) = h.length /\ Len(content) \in Nat
      BY <1>3, <1>4 DEF Memory
    <3>2. \A k \in 1..Len(s) : s[k] = c[k]
      <4> SUFFICES ASSUME NEW k \in 1..h.length PROVE s[k] = c[k]
        BY <2>7
      <4>1. k \in 1..Len(content) /\ k \in 1..Len(l)
        BY <1>5, <2>3, <3>1
      <4> QED
        BY <2>4, <2>8, <3>1, <4>1
    <3> QED
      BY <2>3, <2>7, <3>2 DEF StartsWith
  <2>10. List(o)' = s
    BY <2>2, <2>6, <2>7, <2>9, ReadOff
  <2>11. \A q \in held \ {o} : List(q)' = List(q)
    BY <1>1, <1>2, <2>6, OthersStay
  <2>12. ListsSeen' = [ListsSeen EXCEPT ![o] = s]
    BY <1>1, <2>5, <2>10, <2>11, OneChanges
  <2>13. ByteSet(l, s) /\ Len(s) <= MaxLength
    <3>1. i + 1 \in 1..MaxLength /\ i + 1 \in DOMAIN l
      BY <1>1, <1>3, <1>4, <1>5 DEF Memory
    <3> QED
      BY <1>5, <2>4, <2>7, <3>1 DEF ByteSet
  <2> QED
    BY <1>1, <1>3, <2>12, <2>13, AsBecomes
<1> QED
  BY <1>6, <1>7

-----------------------------------------------------------------------------
(* New objects                                                               *)

\* What CopiedList says, as a step of ByteLists.
LEMMA CopyStep ==
  ASSUME ByteInv, NEW o \in Objects, NEW class \in Classes, NEW p \in Objects, handle[p] # NoHandle,
         NEW first \in Nat, NEW n \in Nat, NEW immutable \in BOOLEAN,
         CopyOut(o, class, p, first, n, immutable)
  PROVE  [Abstract!ListsNext]_ListsSeen
<1>1. CASE ListsSeen' = ListsSeen
  BY <1>1
<1>2. ASSUME o \notin held, NEW s \in Memory, Len(s) <= MaxLength, ListsSeen' = [ListsSeen EXCEPT ![o] = s]
      PROVE  Abstract!ListsNext
  BY <1>2, AsCreate
<1> QED
  BY <1>1, <1>2, CopiedList

LEMMA CreateStep ==
  ASSUME ByteInv, NEW o \in Objects, NEW class \in Classes, NEW list \in Memory,
         NEW immutable \in BOOLEAN, FromCArray(o, class, list, immutable)
  PROVE  [Abstract!ListsNext]_ListsSeen
<1>1. o \notin held /\ ListsSeen' = [ListsSeen EXCEPT ![o] = list] /\ Len(list) <= MaxLength
  BY CreatedList
<1>2. Abstract!ListsNext
  BY <1>1, AsCreate
<1> QED
  BY <1>2

LEMMA ShareStep ==
  ASSUME ByteInv, NEW o \in Objects, NEW p \in Objects, handle[p] # NoHandle,
         handle[o] = NoHandle, handle' = [handle EXCEPT ![o] = handle[p]],
         held' = held \cup {o}, heap' = heap
  PROVE  [Abstract!ListsNext]_ListsSeen
<1>1. handle'[o] = handle[p] /\ \A q \in Objects \ {o} : handle'[q] = handle[q] /\ heap'[q] = heap[q]
  BY DEF ByteInv, ByteTypeOK
<1>2. PICK s \in Memory : s = List(p) /\ Len(s) <= MaxLength
  BY ListIs, ByteAssumption
<1>3. List(o)' = s
  BY <1>1, <1>2 DEF List, Read
<1>4. \A q \in held \ {o} : List(q)' = List(q)
  BY <1>1, OthersStay
<1>5. ListsSeen' = [ListsSeen EXCEPT ![o] = s]
  BY <1>3, <1>4, OneChanges
<1>6. o \notin held
  BY DEF ByteInv, ByteTypeOK
<1> QED
  BY <1>2, <1>5, <1>6, AsCreate

LEMMA EmptyStringStep ==
  ASSUME ByteInv, NEW o \in Objects, ConstructFromEmptyString(o)
  PROVE  [Abstract!ListsNext]_ListsSeen
<1>1. handle[o] = NoHandle /\ held' = held \cup {o} /\ heap' = heap
  BY DEF ConstructFromEmptyString
<1> DEFINE empty == [class |-> "ByteArray", length |-> 0, immutable |-> FALSE, memoryOwner |-> o,
                     buffer |-> Wild, capacity |-> 0]
<1>0. handle' = [handle EXCEPT ![o] = empty] /\ empty.length = 0
  BY DEF ConstructFromEmptyString
<1> HIDE DEF empty
<1>2. PICK h : handle' = [handle EXCEPT ![o] = h] /\ h.length = 0
  BY <1>0
<1>3. handle'[o] = h /\ \A q \in Objects \ {o} : handle'[q] = handle[q] /\ heap'[q] = heap[q]
  BY <1>1, <1>2 DEF ByteInv, ByteTypeOK
<1>4. List(o)' = <<>>
  BY <1>2, <1>3 DEF List, Read
<1>5. \A q \in held \ {o} : List(q)' = List(q)
  BY <1>1, <1>3, OthersStay
<1>9. <<>> \in Memory /\ Len(<<>>) <= MaxLength
  BY ByteAssumption DEF Memory
<1>6. PICK s \in Memory : s = <<>> /\ Len(s) <= MaxLength
  BY <1>9
<1>7. ListsSeen' = [ListsSeen EXCEPT ![o] = s]
  BY <1>1, <1>4, <1>5, <1>6, OneChanges
<1>8. o \notin held
  BY <1>1 DEF ByteInv, ByteTypeOK
<1> QED
  BY <1>6, <1>7, <1>8, AsCreate

LEMMA ConstructStep ==
  ASSUME ByteInv, NEW o \in Objects, NEW class \in Classes, NEW list \in Fresh, Construct(o, class, list)
  PROVE  [Abstract!ListsNext]_ListsSeen
<1>1. PICK im \in BOOLEAN : im = (class = "ByteString")
  OBVIOUS
<1>2. FromCArray(o, class, list, im) /\ list \in Memory
  BY <1>1, FreshIs DEF Construct, FromCArray
<1> QED
  BY <1>2, CreateStep

LEMMA CopiesStep ==
  ASSUME ByteInv, NEW o \in Objects, NEW p \in Objects
  PROVE  /\ \A class \in Classes :
              ConstructCopy(o, class, p) \/ ToByteThing(o, class, p) => [Abstract!ListsNext]_ListsSeen
         /\ \A class \in Classes, n \in 0..MaxLength :
              Cast(o, class, p, n) => [Abstract!ListsNext]_ListsSeen
         /\ \A a \in Places, b \in Places :
              StringPart(o, p, a, b) \/ ArraySlice(o, p, a, b) => [Abstract!ListsNext]_ListsSeen
         /\ \A i \in 0..MaxLength : StringByte(o, p, i) => [Abstract!ListsNext]_ListsSeen
<1>1. ASSUME HasAny(p)
      PROVE  handle[p] # NoHandle /\ handle[p].length \in Nat /\ List(p) \in Memory
  BY <1>1, ListIs, ByteAssumption DEF HasAny, ByteInv, ByteTypeOK
<1>2. Places \subseteq Int /\ 0..MaxLength \subseteq Nat
  BY ByteAssumption DEF Places
<1>3. ASSUME NEW class \in Classes, ConstructCopy(o, class, p)
      PROVE  [Abstract!ListsNext]_ListsSeen
  <2>1. PICK im \in BOOLEAN : im = (class = "ByteString")
    OBVIOUS
  <2>2. PICK n : n = handle[p].length
    OBVIOUS
  <2>3. HasAny(p) /\ CopyOut(o, class, p, 0, n, im)
    BY <1>3, <2>1, <2>2 DEF ConstructCopy, CopyOut, FromCArray, BtTrap
  <2>4. n \in Nat /\ 0 \in Nat
    BY <1>1, <2>1, <2>2, <2>3
  <2> QED
    BY <1>1, <2>3, <2>4, CopyStep
<1>4. ASSUME NEW class \in Classes, ToByteThing(o, class, p)
      PROVE  [Abstract!ListsNext]_ListsSeen
  <2>1. PICK s : s = List(p)
    OBVIOUS
  <2>2. HasAny(p) /\ (BtTrap("access") \/ FromCArray(o, class, s, FALSE))
    BY <1>4, <2>1 DEF ToByteThing, FromCArray
  <2>3. s \in Memory
    BY <1>1, <2>1, <2>2
  <2>4. CASE BtTrap("access")
    BY <2>4, TrapStutters
  <2>5. CASE FromCArray(o, class, s, FALSE)
    BY <2>3, <2>5, CreateStep
  <2> QED
    BY <2>2, <2>4, <2>5
<1>5. ASSUME NEW class \in Classes, NEW n \in 0..MaxLength, Cast(o, class, p, n)
      PROVE  [Abstract!ListsNext]_ListsSeen
  <2>1. handle[p] # NoHandle
    BY <1>1, <1>5 DEF Cast
  <2>2. CASE class = "ByteString" /\ handle[p].immutable
    <3>1. /\ handle[o] = NoHandle /\ handle' = [handle EXCEPT ![o] = handle[p]]
          /\ held' = held \cup {o} /\ heap' = heap
      BY <1>5, <2>2 DEF Cast
    <3> QED
      BY <2>1, <3>1, ShareStep
  <2>3. CASE ~(class = "ByteString" /\ handle[p].immutable)
    <3>1. CopyOut(o, class, p, 0, n, FALSE)
      BY <1>5, <2>3 DEF Cast
    <3> QED
      BY <1>2, <2>1, <3>1, CopyStep
  <2> QED
    BY <2>2, <2>3
<1>6. ASSUME NEW a \in Places, NEW b \in Places, StringPart(o, p, a, b)
      PROVE  [Abstract!ListsNext]_ListsSeen
  <2>1. HasAny(p)
    BY <1>6 DEF StringPart, Has, HasAny
  <2>2. PICK length : length = handle[p].length
    OBVIOUS
  <2>3. PICK range \in {SliceRange(length, a, b), SubstringRange(length, a, b), SubstrRange(length, a, b)} :
          CopyOut(o, "ByteString", p, range[1], range[2] - range[1], FALSE)
    BY <1>6, <2>2 DEF StringPart
  <2>4. range[1] \in Nat /\ range[2] - range[1] \in Nat /\ "ByteString" \in Classes
    BY <1>1, <1>2, <2>1, <2>2, PartsAreOrdered DEF Classes
  <2> QED
    BY <1>1, <2>1, <2>3, <2>4, CopyStep
<1>7. ASSUME NEW a \in Places, NEW b \in Places, ArraySlice(o, p, a, b)
      PROVE  [Abstract!ListsNext]_ListsSeen
  <2>1. HasAny(p) /\ LiceArguments(handle[p].length, a, b)
    BY <1>7 DEF ArraySlice, Has, HasAny
  <2> DEFINE length == handle[p].length
             x == LicePlace(length, a)
             y == LicePlace(length, b)
  <2>2. x \in Nat /\ y \in Nat
    BY <1>1, <1>2, <2>1 DEF LicePlace
  <2>3. Max({x, y}) - x \in Nat /\ "ByteArray" \in Classes
    <3> HIDE DEF x, y
    <3> QED
      BY <2>2, MaxTwo DEF Classes
  <2>4. PICK start, n : start = x /\ n = Max({x, y}) - x
    OBVIOUS
  <2>5. CopyOut(o, "ByteArray", p, start, n, FALSE)
    BY <1>7, <2>4 DEF ArraySlice, CopyOut, FromCArray, BtTrap
  <2> QED
    BY <1>1, <2>1, <2>2, <2>3, <2>4, <2>5, CopyStep
<1>8. ASSUME NEW i \in 0..MaxLength, StringByte(o, p, i)
      PROVE  [Abstract!ListsNext]_ListsSeen
  <2>1. HasAny(p) /\ CopyOut(o, "ByteString", p, i, 1, FALSE) /\ "ByteString" \in Classes
    BY <1>8 DEF StringByte, Has, HasAny, Classes
  <2> QED
    BY <1>1, <1>2, <2>1, CopyStep
<1> QED
  BY <1>3, <1>4, <1>5, <1>6, <1>7, <1>8

-----------------------------------------------------------------------------
(* Forgetting and collecting                                                 *)

LEMMA DropStep ==
  ASSUME ByteInv, NEW o \in Objects, Drop(o)
  PROVE  [Abstract!ListsNext]_ListsSeen
<1>1. o \in held /\ held' = held \ {o} /\ handle' = handle /\ heap' = heap
  BY DEF Drop, HasAny
<1>2. \A q \in Objects : List(q)' = List(q)
  BY <1>1 DEF List, Read
<1>3. ListsSeen' = [q \in Objects |-> IF q \in held' THEN List(q)' ELSE NoList]
  BY DEF ListsSeen
<1>4. ListsSeen' = [ListsSeen EXCEPT ![o] = NoList]
  BY <1>1, <1>2, <1>3 DEF ListsSeen
<1>5. Abstract!Change(o)
  BY <1>4 DEF Abstract!Change, Abstract!Forget
<1> QED
  BY <1>1, <1>5, AsChange

\* What a script holds stays when the rest is collected.
LEMMA CollectStep ==
  ASSUME ByteInv, CollectGarbage
  PROVE  ListsSeen' = ListsSeen
<1> DEFINE dead == {o \in Objects : handle[o] # NoHandle} \ Marked
           owners == {o \in dead : handle[o].memoryOwner = o}
           freed == {handle[o].buffer : o \in owners}
<1>1. CASE Wild \in freed
  BY <1>1, TrapStutters DEF CollectGarbage
<1>2. CASE Wild \notin freed
  <2>1. heap' = [b \in Objects |-> IF b \in freed THEN FreeBlock ELSE heap[b]]
    BY <1>2 DEF CollectGarbage
  <2>2. handle' = [o \in Objects |-> IF o \in dead THEN NoHandle ELSE handle[o]]
    BY <1>2 DEF CollectGarbage
  <2>3. held' = held
    BY <1>2 DEF CollectGarbage
  <2>4. ASSUME NEW o \in held
        PROVE  /\ o \in Objects /\ handle[o] # NoHandle /\ o \notin dead
               /\ handle[o].memoryOwner \notin dead
    BY DEF Marked, ByteInv, ByteTypeOK
  <2>5. ASSUME NEW o \in held, handle[o].buffer \in Objects
        PROVE  handle[o].buffer \notin freed
    <3>1. handle[o].buffer = handle[o].memoryOwner
      BY <2>4, <2>5, ByteAssumption DEF ByteInv, HandleInv
    <3>2. SUFFICES ASSUME NEW p \in owners, handle[p].buffer = handle[o].buffer PROVE FALSE
      OBVIOUS
    <3>3. p \in Objects /\ handle[p] # NoHandle /\ p \in dead /\ handle[p].memoryOwner = p
      OBVIOUS
    <3>4. HandleInv(p)
      BY <3>3 DEF ByteInv
    <3>5. handle[p].buffer = p
      BY <2>5, <3>2, <3>3, <3>4, ByteAssumption DEF HandleInv
    <3> QED
      BY <2>4, <3>1, <3>2, <3>3, <3>5
  <2> HIDE DEF dead, freed
  <2>6. ASSUME NEW o \in held
        PROVE  List(o)' = List(o)
    <3>1. o \in Objects /\ handle'[o] = handle[o]
      BY <2>2, <2>4
    <3>2. handle[o].buffer \in Objects => heap'[handle[o].buffer] = heap[handle[o].buffer]
      BY <2>1, <2>5
    <3> QED
      BY <3>1, <3>2, ListStays
  <2> QED
    BY <2>3, <2>6, NoneChanges
<1> QED
  BY <1>1, <1>2

-----------------------------------------------------------------------------
(* Splicing                                                                  *)

\* Two lists change.
LEMMA TwoChange ==
  ASSUME NEW o \in Objects, NEW p \in Objects, o # p, NEW s, NEW t,
         o \in held', p \in held', List(o)' = s, List(p)' = t,
         \A q \in Objects \ {o, p} : (q \in held' <=> q \in held) /\ (q \in held => List(q)' = List(q))
  PROVE  ListsSeen' = [ListsSeen EXCEPT ![p] = t, ![o] = s]
<1>1. ListsSeen' = [q \in Objects |-> IF q \in held' THEN List(q)' ELSE NoList]
  BY DEF ListsSeen
<1>2. ListsSeen = [q \in Objects |-> IF q \in held THEN List(q) ELSE NoList]
  BY DEF ListsSeen
<1>3. ASSUME NEW q \in Objects, q # o, q # p
      PROVE  (IF q \in held' THEN List(q)' ELSE NoList) = (IF q \in held THEN List(q) ELSE NoList)
  BY <1>3
<1> QED
  BY <1>1, <1>2, <1>3

\* The lists a script sees after a splice: the part, and the rest or as many unknown bytes.
SplicedTo(o, p, part, rest) ==
  \E left \in {rest, Unspecified(Len(rest))} :
    ListsSeen' = [ListsSeen EXCEPT ![p] = left, ![o] = part]

LEMMA SplicedLists ==
  ASSUME ByteInv, NEW o \in Objects, NEW p \in held, handle[p] # NoHandle, ~handle[p].immutable,
         NEW part \in Memory, NEW rest \in Memory, NEW g \in Handles, NEW h \in Handles,
         Splicing(o, p, part, rest, g, h)
  PROVE  o \notin held /\ SplicedTo(o, p, part, rest)
<1>1. p \in Objects /\ handle[o] = NoHandle /\ o # p /\ o \notin held
  BY DEF ByteInv, ByteTypeOK, Splicing
<1>2. handle[p].buffer = p
  BY <1>1, OwnBuffer DEF Splicing
<1>3. /\ handle'[o] = g /\ handle'[p] = h
      /\ \A q \in Objects \ {o, p} : handle'[q] = handle[q]
  BY <1>1 DEF Splicing, ByteInv, ByteTypeOK
<1>4. g.buffer = o /\ g.length = Len(part) /\ h.length = Len(rest) /\ held' = held \cup {o}
  BY DEF Splicing
<1>5. PICK content \in Blocks :
       /\ heap' = [heap EXCEPT ![o] = part, ![p] = content]
       /\ \/ h.buffer = Null
          \/ /\ h.buffer = p
             /\ \E more \in Memory : content = rest \o more
  BY <1>2 DEF Splicing
<1>6. /\ heap'[o] = part /\ heap'[p] = content
      /\ \A q \in Objects \ {o, p} : heap'[q] = heap[q]
  BY <1>1, <1>5 DEF ByteInv, ByteTypeOK
<1>7. Len(part) \in Nat /\ Len(rest) \in Nat
  BY DEF Memory
<1>8. List(o)' = part
  <2>1. StartsWith(heap'[o], part)
    BY <1>6, <1>7 DEF StartsWith
  <2> QED
    BY <1>3, <1>4, <2>1, ReadOff
<1>9. \A q \in held \ {o, p} : List(q)' = List(q)
  <2> SUFFICES ASSUME NEW q \in held, q # o, q # p PROVE List(q)' = List(q)
    OBVIOUS
  <2>1. q \in Objects /\ handle[q] # NoHandle
    BY DEF ByteInv, ByteTypeOK
  <2>2. handle[q].memoryOwner # o /\ handle[q].memoryOwner # p
    BY <1>1, <2>1, Owners
  <2>3. handle[q].buffer \in Objects => handle[q].buffer \notin {o, p}
    BY <2>1, <2>2, ByteAssumption DEF ByteInv, HandleInv
  <2> QED
    BY <1>3, <1>6, <2>1, <2>3, ListStays
<1>10. ASSUME NEW t, List(p)' = t
       PROVE  ListsSeen' = [ListsSeen EXCEPT ![p] = t, ![o] = part]
  BY <1>1, <1>4, <1>8, <1>9, <1>10, TwoChange
<1>11. ASSUME h.buffer = p, NEW more \in Memory, content = rest \o more
       PROVE  List(p)' = rest
  <2>1. StartsWith(content, rest)
    BY <1>11 DEF Memory, StartsWith
  <2> QED
    BY <1>1, <1>3, <1>4, <1>6, <1>11, <2>1, ReadOff
<1>12. ASSUME h.buffer = Null
       PROVE  List(p)' = Unspecified(Len(rest))
  <2>1. PICK s \in Memory : s = Unspecified(Len(rest)) /\ Len(s) = Len(rest)
                            /\ \A i \in 1..Len(s) : s[i] = Unknown
    BY <1>7, UnspecifiedIs DEF Unspecified
  <2>2. List(p)' = s
    BY <1>1, <1>3, <1>4, <1>12, <2>1, ByteAssumption, ReadNothing
  <2> QED
    BY <2>1, <2>2
<1> QED
  BY <1>1, <1>5, <1>10, <1>11, <1>12 DEF SplicedTo

LEMMA SpliceSteps ==
  ASSUME ByteInv, NEW o \in Objects, NEW p \in Objects, NEW a \in Places, NEW b \in Places,
         ArraySplice(o, p, a, b)
  PROVE  [Abstract!ListsNext]_ListsSeen
<1>1. handle[p] # NoHandle /\ p \in held /\ ~handle[p].immutable /\ 0 \in Nat /\ "ByteArray" \in Classes
  BY Splices DEF Classes
<1>2. CASE BtTrap("access")
  BY <1>2, TrapStutters
<1>3. ASSUME NEW start \in Nat, CopyOut(o, "ByteArray", p, start, 0, FALSE)
      PROVE  [Abstract!ListsNext]_ListsSeen
  BY <1>1, <1>3, CopyStep
<1>4. PICK l \in Memory : l = List(p) /\ Len(l) \in Nat /\ Len(l) <= MaxLength
  BY <1>1, ListIs, ByteAssumption
<1>5. ASSUME NEW i \in Nat, NEW j \in Nat, NEW part \in Memory, NEW rest \in Memory,
             NEW g \in Handles, NEW h \in Handles,
             i <= j, j <= Len(l), part = SubSeq(l, i + 1, j),
             rest = SubSeq(l, 1, i) \o SubSeq(l, j + 1, Len(l)),
             Splicing(o, p, part, rest, g, h)
      PROVE  [Abstract!ListsNext]_ListsSeen
  <2>1. ListsSeen[p] = l
    BY <1>1, <1>4 DEF ListsSeen
  <2>2. o \notin held /\ ListsSeen[o] = NoList
    BY <1>1, <1>5, SplicedLists DEF ListsSeen
  <2>3. Len(rest) = Len(l) - (j - i)
    <3>1. i <= j /\ j <= Len(l)
      BY <1>5
    <3>2. Len(SubSeq(l, 1, i) \o SubSeq(l, j + 1, Len(l))) = Len(l) - (j - i)
      BY <3>1, Cut
    <3> QED
      BY <1>5, <3>2
  <2>4. PICK left \in {rest, Unspecified(Len(rest))} : ListsSeen' = [ListsSeen EXCEPT ![p] = left, ![o] = part]
    <3>1. SplicedTo(o, p, part, rest)
      BY <1>1, <1>5, SplicedLists
    <3> QED
      BY <3>1 DEF SplicedTo
  <2>5. left \in {SubSeq(l, 1, i) \o SubSeq(l, j + 1, Len(l)), Abstract!Unknowns(Len(l) - (j - i))}
    BY <1>5, <2>3, <2>4 DEF Abstract!Unknowns, Unspecified
  <2>6. i \in 0..MaxLength /\ j \in i..MaxLength
    BY <1>4, <1>5, ByteAssumption
  <2>7. \E x \in {SubSeq(ListsSeen[p], 1, i) \o SubSeq(ListsSeen[p], j + 1, Len(ListsSeen[p])),
                  Abstract!Unknowns(Len(ListsSeen[p]) - (j - i))} :
          ListsSeen' = [ListsSeen EXCEPT ![p] = x, ![o] = SubSeq(ListsSeen[p], i + 1, j)]
    BY <1>5, <2>1, <2>4, <2>5
  <2>8. Abstract!Splice(p, i, j, o)
    BY <1>5, <2>1, <2>2, <2>7 DEF Abstract!Splice, Abstract!HasList
  <2>9. Abstract!Change(p)
    BY <2>6, <2>8 DEF Abstract!Change
  <2> QED
    BY <1>1, <2>9, AsChange
<1> QED
  BY <1>2, <1>3, <1>4, <1>5, Splices

-----------------------------------------------------------------------------
(* The refinement                                                            *)

LEMMA ListsStart ==
  ASSUME ByteInit
  PROVE  Abstract!ListsInit
BY DEF ByteInit, Abstract!ListsInit, ListsSeen

LEMMA ListsStep ==
  ASSUME ByteInv, [ByteNext]_byteVars
  PROVE  [Abstract!ListsNext]_ListsSeen
<1>1. CASE UNCHANGED byteVars
  BY <1>1 DEF byteVars, ListsSeen, List, Read
<1>2. CASE CollectGarbage
  BY <1>2, CollectStep
<1>3. ASSUME NEW o \in Objects,
             \/ ArrayPop(o) \/ ArrayShift(o) \/ ArrayAppendSelf(o) \/ ArrayPrependSelf(o)
             \/ \E n \in 0..MaxLength : ArraySetLength(o, n)
             \/ \E list \in Fresh :
                  \/ ArrayAppend(o, list) \/ ArrayPrepend(o, list)
                  \/ \E invalid \in {0, 1} : ArrayPush(o, list, Len(list) + invalid)
      PROVE  [Abstract!ListsNext]_ListsSeen
  <2>1. Has(o, "ByteArray")
    BY <1>3 DEF ArrayPop, ArrayShift, ArrayAppendSelf, ArrayPrependSelf, ArraySetLength, ArrayAppend,
                ArrayPrepend, ArrayPush
  <2> QED
    BY <1>3, <2>1, ArraysStep
<1>4. ASSUME NEW o \in Objects,
             ConstructFromEmptyString(o) \/ ArrayReverse(o) \/ ArraySort(o) \/ Drop(o)
      PROVE  [Abstract!ListsNext]_ListsSeen
  BY <1>4, EmptyStringStep, ReverseStep, SortStep, DropStep
<1>5. ASSUME NEW o \in Objects, NEW class \in Classes, NEW list \in Fresh, Construct(o, class, list)
      PROVE  [Abstract!ListsNext]_ListsSeen
  BY <1>5, ConstructStep
<1>6. ASSUME NEW o \in Objects, NEW class \in Classes, NEW p \in Objects,
             \/ ConstructCopy(o, class, p) \/ ToByteThing(o, class, p)
             \/ \E n \in 0..MaxLength : Cast(o, class, p, n)
      PROVE  [Abstract!ListsNext]_ListsSeen
  BY <1>6, CopiesStep
<1>7. ASSUME NEW o \in Objects, NEW p \in Objects, NEW a \in Places, NEW b \in Places,
             StringPart(o, p, a, b) \/ ArraySlice(o, p, a, b) \/ ArraySplice(o, p, a, b)
      PROVE  [Abstract!ListsNext]_ListsSeen
  BY <1>7, CopiesStep, SpliceSteps
<1>8. ASSUME NEW o \in Objects, NEW p \in Objects, NEW i \in 0..MaxLength, StringByte(o, p, i)
      PROVE  [Abstract!ListsNext]_ListsSeen
  BY <1>8, CopiesStep
<1>9. ASSUME NEW o \in Objects, NEW i \in 0..MaxLength, NEW byte \in Bytes, ArraySetProperty(o, i, byte)
      PROVE  [Abstract!ListsNext]_ListsSeen
  BY <1>9, SetPropertyStep
<1> QED
  BY <1>1, <1>2, <1>3, <1>4, <1>5, <1>6, <1>7, <1>8, <1>9 DEF ByteNext

\* What a script sees of its byte strings and byte arrays are lists of bytes: every method
\* of ByteArray.c and ByteString.c changes the list it is called for as it promises, or
\* loses its bytes when there is no memory, and no other list, whatever the capacities of
\* the buffers, whoever shares one, and whenever the collector runs.
THEOREM ImplementsByteLists == ByteSpec => ImplementsLists
<1>1. ByteInit => Abstract!ListsInit
  BY ListsStart
<1>2. ByteInv /\ [ByteNext]_byteVars => [Abstract!ListsNext]_ListsSeen
  BY ListsStep
<1> QED
  BY <1>1, <1>2, ByteInvHolds, PTL DEF ByteSpec, ImplementsLists, Abstract!ListsSpec
=============================================================================
