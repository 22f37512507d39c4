------------------------------ MODULE ByteThings ------------------------------
(***************************************************************************)
(* The byte strings and byte arrays of the binary module (ByteString.c,    *)
(* ByteArray.c, bytethings.c) and the memory they keep their bytes in: a   *)
(* handle names a buffer, how much of it is in use and has been allocated, *)
(* and the object whose finalizer frees it.  Immutable byte strings share  *)
(* buffers.  A buffer bears the name of the object it is allocated for: an *)
(* object has one at most, and the addresses of buffers are alike.         *)
(*                                                                         *)
(* A method is one step.  A place in memory that a method reads though it  *)
(* is not one of the list holds an Unknown byte.  memcpy between ranges    *)
(* that overlap is taken to copy as memmove does.  A call the program does *)
(* not survive is recorded in btTrap, and nothing happens after it.        *)
(***************************************************************************)
EXTENDS Integers, Sequences, SequencesExt, FiniteSetsExt

CONSTANTS Objects, NoHandle, NoList,
          Null, Wild, FreeBlock,          \* no buffer; a pointer that was never set
          Bytes, Unknown,
          MinCapacity,                    \* the smallest capacity (16 in the code)
          MaxLength                       \* bound: the length of a list

VARIABLES handle,       \* per object: its private data
          heap,         \* per buffer: the bytes in it
          held,         \* the objects that a script can reach
          btTrap        \* what has ended the program

byteVars == <<handle, heap, held, btTrap>>

Classes == {"ByteString", "ByteArray"}
Fresh == BoundedSeq(Bytes, 2)
Unspecified(n) == [i \in 1..n |-> Unknown]

\* The smallest capacity, doubled k times.
Doubled[k \in Nat] == IF k = 0 THEN MinCapacity ELSE 2 * Doubled[k - 1]

Handles ==
  [class : Classes, length : 0..MaxLength, buffer : Objects \cup {Null, Wild},
   memoryOwner : Objects, immutable : BOOLEAN, capacity : 0..Doubled[MaxLength]]

Memory == Seq(Bytes \cup {Unknown})
Blocks == Memory \cup {FreeBlock}

ASSUME ByteAssumption ==
  /\ Bytes \subseteq Nat /\ 0 \in Bytes /\ Unknown \notin Bytes
  /\ MinCapacity \in Nat \ {0} /\ MaxLength \in Nat
  /\ Null \notin Objects /\ Wild \notin Objects \cup {Null}
  /\ NoHandle \notin Handles /\ {NoList, FreeBlock} \cap Memory = {}

ByteTypeOK ==
  /\ handle \in [Objects -> Handles \cup {NoHandle}]
  /\ heap \in [Objects -> Blocks]
  /\ held \subseteq {o \in Objects : handle[o] # NoHandle}
  /\ btTrap \in {"none", "access", "free", "assertion", "loop"}

ByteInit ==
  /\ handle = [o \in Objects |-> NoHandle]
  /\ heap = [b \in Objects |-> FreeBlock]
  /\ held = {}
  /\ btTrap = "none"

BtTrap(what) == btTrap' = what /\ UNCHANGED <<handle, heap, held>>

\* A script has o, of the class.
Has(o, class) == btTrap = "none" /\ o \in held /\ handle[o].class = class
HasAny(o) == btTrap = "none" /\ o \in held

\* n bytes of a buffer, behind the first ones.
Read(b, first, n) ==
  [i \in 1..n |-> IF b \in Objects /\ first + i \in DOMAIN heap[b] THEN heap[b][first + i]
                  ELSE Unknown]

List(o) == Read(handle[o].buffer, 0, handle[o].length)

\* A failed byteArray_requestSize has left the list without its memory.
Lost(o) == handle[o].buffer = Null /\ handle[o].length > 0

-----------------------------------------------------------------------------
(* byteThing_fromCArray and its callers                                      *)

\* A new object o with a buffer of its own for the list.
FromCArray(o, class, list, immutable) ==
  /\ handle[o] = NoHandle /\ Len(list) <= MaxLength
  /\ heap' = IF list = <<>> THEN heap ELSE [heap EXCEPT ![o] = list]
  /\ handle' = [handle EXCEPT ![o] =
       [class |-> class, length |-> Len(list), immutable |-> immutable, memoryOwner |-> o,
        buffer |-> IF list = <<>> THEN Null ELSE o, capacity |-> 0]]
  /\ held' = held \cup {o}
  /\ UNCHANGED btTrap

\* A copy of n bytes of p behind the first ones.  Instead of bytes at NULL the copy gets
\* zeros.
CopyOut(o, class, p, first, n, immutable) ==
  LET h == handle[p] IN
  IF h.buffer = Null /\ first > 0 /\ n > 0 THEN BtTrap("access")
  ELSE FromCArray(o, class,
                  IF h.buffer = Null THEN [i \in 1..n |-> 0] ELSE Read(h.buffer, first, n), immutable)

\* ByteString_Constructor, ByteArray_Constructor: from numbers, a string or a length.
Construct(o, class, list) ==
  btTrap = "none" /\ FromCArray(o, class, list, class = "ByteString")

\* The buffer of the byte array that is made of an empty string is never set.
ConstructFromEmptyString(o) ==
  /\ btTrap = "none" /\ handle[o] = NoHandle
  /\ handle' = [handle EXCEPT ![o] =
       [class |-> "ByteArray", length |-> 0, immutable |-> FALSE, memoryOwner |-> o,
        buffer |-> Wild, capacity |-> 0]]
  /\ held' = held \cup {o}
  /\ UNCHANGED <<heap, btTrap>>

ConstructCopy(o, class, p) ==
  HasAny(p) /\ CopyOut(o, class, p, 0, handle[p].length, class = "ByteString")

\* A cast of an immutable byte string to another one shares its buffer, and any other
\* cast copies as many bytes as it is told to.
Cast(o, class, p, n) ==
  /\ HasAny(p)
  /\ IF class = "ByteString" /\ handle[p].immutable
     THEN /\ handle[o] = NoHandle
          /\ handle' = [handle EXCEPT ![o] = handle[p]]
          /\ held' = held \cup {o}
          /\ UNCHANGED <<heap, btTrap>>
     ELSE CopyOut(o, class, p, 0, n, FALSE)

\* toByteString and toByteArray; the byte string of a byte string is itself.
ToByteThing(o, class, p) ==
  /\ HasAny(p) /\ ~(class = "ByteString" /\ handle[p].class = "ByteString")
  /\ IF Lost(p) THEN BtTrap("access") ELSE FromCArray(o, class, List(p), FALSE)

-----------------------------------------------------------------------------
(* Parts of byte strings: where a method's arguments begin and end           *)

\* ByteString_slice
SliceRange(length, a, b) ==
  LET place(d) == Min({length, IF d >= 0 THEN d ELSE IF length + d > 0 THEN length + d ELSE 0})
  IN <<place(a), Max({place(a), place(b)})>>

\* Mutant: the two ends are not exchanged.
SubstringRangeUnordered(length, a, b) ==
  LET place(d) == IF d < 0 THEN 0 ELSE Min({length, d}) IN <<place(a), Max({place(a), place(b)})>>

\* ByteString_substring
SubstringRange(length, a, b) ==
  LET place(d) == IF d < 0 THEN 0 ELSE Min({length, d})
  IN <<Min({place(a), place(b)}), Max({place(a), place(b)})>>

\* ByteString_substr: the length is limited by that of the whole list.
SubstrRange(length, a, n) ==
  LET start == IF a >= 0 THEN a ELSE IF length + a < 0 THEN 0 ELSE length + a
  IN IF a >= length \/ n <= 0 THEN <<start, start>> ELSE <<start, start + Min({n, length})>>

StringPart(o, p, a, b) ==
  /\ Has(p, "ByteString")
  /\ LET length == handle[p].length IN
     \E range \in {SliceRange(length, a, b), SubstringRange(length, a, b), SubstrRange(length, a, b)} :
       CopyOut(o, "ByteString", p, range[1], range[2] - range[1], FALSE)

\* byteThing_byarAt and byteThing_getProperty
StringByte(o, p, i) ==
  Has(p, "ByteString") /\ i < handle[p].length /\ CopyOut(o, "ByteString", p, i, 1, FALSE)

-----------------------------------------------------------------------------
(* byteArray_requestSize                                                     *)

RoundUp(n) == Min({c \in {Doubled[k] : k \in 0..n} : c >= n})

\* Room for n bytes is requested, of which the list is then written; its length becomes
\* that of the list.  What the buffer holds behind the list does not matter.
Resize(o, n, list) ==
  LET h == handle[o]
      b == IF h.buffer = Null THEN o ELSE h.buffer
      size == IF n > h.capacity THEN RoundUp(n) ELSE Len(heap[b])
  IN
  /\ Len(list) <= MaxLength
  /\ heap' = IF h.capacity >= n /\ h.buffer \in {Null, Wild} THEN heap
             ELSE [heap EXCEPT ![b] = list \o Unspecified(size - Len(list))]
  /\ handle' = [handle EXCEPT ![o] =
       IF h.capacity >= n THEN [h EXCEPT !.length = Len(list)]
       ELSE [h EXCEPT !.length = Len(list), !.buffer = b, !.capacity = RoundUp(n)]]
  /\ UNCHANGED <<held, btTrap>>

\* There is no memory for n bytes: the buffer, which realloc does not free, is forgotten.
ResizeFails(o, n, length) ==
  /\ n > handle[o].capacity
  /\ heap' = [b \in Objects |-> IF b = handle[o].buffer THEN FreeBlock ELSE heap[b]]
  /\ handle' = [handle EXCEPT ![o].buffer = Null, ![o].capacity = 0, ![o].length = length]
  /\ UNCHANGED <<held, btTrap>>

\* The list of array o becomes another one, in a buffer of at least n bytes.
Rewrite(o, n, list) ==
  IF handle[o].buffer = Wild /\ n > 0 THEN BtTrap("access")
  ELSE Resize(o, n, list) \/ ResizeFails(o, n, handle[o].length)

-----------------------------------------------------------------------------
(* The methods of byte arrays                                                *)

\* Mutant: what the list is extended with keeps what the memory holds.
SetLengthUncleared(o, n) ==
  /\ Has(o, "ByteArray")
  /\ Rewrite(o, n, [i \in 1..n |-> IF i <= handle[o].length THEN List(o)[i] ELSE Unknown])

\* ByteArray_setLength
ArraySetLength(o, n) ==
  /\ Has(o, "ByteArray")
  /\ Rewrite(o, n, [i \in 1..n |-> IF i <= handle[o].length THEN List(o)[i] ELSE 0])

\* ByteArray_setProperty
ArraySetProperty(o, i, byte) ==
  /\ Has(o, "ByteArray") /\ i < handle[o].length
  /\ IF Lost(o) THEN BtTrap("access")
     ELSE /\ heap' = [heap EXCEPT ![handle[o].buffer][i + 1] = byte]
          /\ UNCHANGED <<handle, held, btTrap>>

\* ByteArray_push of argc arguments: of those the first ones are added, up to one that
\* is not a byte.
ArrayPush(o, list, argc) ==
  Has(o, "ByteArray") /\ Rewrite(o, handle[o].length + argc, List(o) \o list)

\* ByteArray_pop: the length of an empty list wraps around, and its double never gets
\* there.
ArrayPop(o) ==
  /\ Has(o, "ByteArray")
  /\ IF List(o) = <<>> THEN BtTrap("loop")
     ELSE IF Lost(o) THEN BtTrap("access")
     ELSE Rewrite(o, handle[o].length - 1, Front(List(o)))

\* ByteArray_shift
ArrayShift(o) ==
  /\ Has(o, "ByteArray") /\ handle[o].length > 0
  /\ IF Lost(o) THEN BtTrap("access")
     ELSE Rewrite(o, handle[o].length - 1, Tail(List(o)))

\* byteArray_append of another list, which byteThing_val2bytes has made of the arguments.
\* It cannot make one of none.
ArrayAppend(o, list) ==
  /\ Has(o, "ByteArray")
  /\ IF list = <<>> THEN BtTrap("assertion")
     ELSE Rewrite(o, handle[o].length + Len(list), List(o) \o list)

\* byteArray_append of the list itself: when realloc moves it, what is appended is read
\* where it was.
ArrayAppendSelf(o) ==
  LET n == handle[o].length IN
  /\ Has(o, "ByteArray") /\ n > 0
  /\ \/ ~Lost(o) /\ Rewrite(o, 2 * n, List(o) \o List(o))
     \/ 2 * n > handle[o].capacity /\ Rewrite(o, 2 * n, List(o) \o Unspecified(n))
     \/ Lost(o) /\ BtTrap("access")

\* byteArray_prepend
ArrayPrepend(o, list) ==
  /\ Has(o, "ByteArray")
  /\ IF list = <<>> THEN BtTrap("assertion")
     ELSE Rewrite(o, handle[o].length + Len(list), list \o List(o))

ArrayPrependSelf(o) ==
  /\ Has(o, "ByteArray") /\ handle[o].length > 0
  /\ Rewrite(o, 2 * handle[o].length, List(o) \o List(o))

\* ByteArray_reverse
ArrayReverse(o) ==
  /\ Has(o, "ByteArray")
  /\ IF Lost(o) /\ handle[o].length > 1 THEN BtTrap("access")
     ELSE Resize(o, 0, Reverse(List(o)))

\* What sorting may make of a list.
Ordered(list) ==
  IF \E i \in DOMAIN list : list[i] = Unknown THEN {Unspecified(Len(list))}
  ELSE {s \in {[i \in DOMAIN list |-> list[p[i]]] : p \in Bijection(DOMAIN list, DOMAIN list)} :
          \A i, j \in DOMAIN list : i < j => s[i] <= s[j]}

\* ByteArray_sort
ArraySort(o) ==
  /\ Has(o, "ByteArray")
  /\ IF Lost(o) /\ handle[o].length > 1 THEN BtTrap("access")
     ELSE \E s \in Ordered(List(o)) : Resize(o, 0, s)

\* ByteArray_lice: the arguments are checked; an end that is negative is subtracted from
\* the length, and lies behind the list.
LiceArguments(length, a, b) == a \in (-length)..(length - 1) /\ b \in (-length)..length
LicePlace(length, d) == IF d < 0 THEN length - d ELSE d

ArraySlice(o, p, a, b) ==
  LET length == handle[p].length
      start == LicePlace(length, a)
      end == Max({start, LicePlace(length, b)})
  IN
  /\ Has(p, "ByteArray") /\ LiceArguments(length, a, b)
  /\ CopyOut(o, "ByteArray", p, start, end - start, FALSE)

\* The part is copied, and the list behind it moved to its place; whether there was
\* memory for that is not asked.
ArraySplice(o, p, a, b) ==
  LET length == handle[p].length
      start == LicePlace(length, a)
      end == Max({start, LicePlace(length, b)})
      rest == SubSeq(List(p), 1, start) \o SubSeq(List(p), end + 1, length)
      h == handle[p]
  IN
  /\ Has(p, "ByteArray") /\ LiceArguments(length, a, b)
  /\ IF start = end THEN CopyOut(o, "ByteArray", p, start, 0, FALSE)
     ELSE IF Lost(p) \/ end > length THEN BtTrap("access")
     ELSE /\ handle[o] = NoHandle
          /\ \E fails \in BOOLEAN :
             LET grows == Len(rest) > h.capacity
                 size == IF grows THEN RoundUp(Len(rest)) ELSE Len(heap[h.buffer])
             IN
             /\ fails => grows
             /\ heap' = [heap EXCEPT
                  ![o] = SubSeq(List(p), start + 1, end),
                  ![h.buffer] = IF fails THEN FreeBlock ELSE rest \o Unspecified(size - Len(rest))]
             /\ handle' = [handle EXCEPT
                  ![o] = [class |-> "ByteArray", length |-> end - start, immutable |-> FALSE,
                          memoryOwner |-> o, buffer |-> o, capacity |-> 0],
                  ![p] = [h EXCEPT !.length = Len(rest),
                            !.buffer = IF fails THEN Null ELSE @,
                            !.capacity = IF fails THEN 0 ELSE IF grows THEN size ELSE @]]
          /\ held' = held \cup {o}
          /\ UNCHANGED btTrap

-----------------------------------------------------------------------------
(* The garbage collector, ByteString_Finalize and ByteArray_Finalize         *)

Drop(o) == HasAny(o) /\ held' = held \ {o} /\ UNCHANGED <<handle, heap, btTrap>>

\* Mutant: the tracer does not mark the owner of the memory.
MarkedHeld == held

\* The objects held and, through gpsee_byteThingTracer, the owners of their memory.
Marked == held \cup {handle[o].memoryOwner : o \in held}

\* The other ones are finalized; an owner frees its buffer.
CollectGarbage ==
  LET dead == {o \in Objects : handle[o] # NoHandle} \ Marked
      owners == {o \in dead : handle[o].memoryOwner = o}
      freed == {handle[o].buffer : o \in owners}
  IN
  /\ btTrap = "none" /\ dead # {}
  /\ IF Wild \in freed THEN BtTrap("free")
     ELSE /\ heap' = [b \in Objects |-> IF b \in freed THEN FreeBlock ELSE heap[b]]
          /\ handle' = [o \in Objects |-> IF o \in dead THEN NoHandle ELSE handle[o]]
          /\ UNCHANGED <<held, btTrap>>

-----------------------------------------------------------------------------

Places == (-MaxLength)..MaxLength

ByteNext ==
  \/ CollectGarbage
  \/ \E o \in Objects :
       \/ ConstructFromEmptyString(o) \/ ArrayPop(o) \/ ArrayShift(o) \/ ArrayAppendSelf(o)
       \/ ArrayPrependSelf(o) \/ ArrayReverse(o) \/ ArraySort(o) \/ Drop(o)
       \/ \E class \in Classes, list \in Fresh : Construct(o, class, list)
       \/ \E class \in Classes, p \in Objects :
            ConstructCopy(o, class, p) \/ ToByteThing(o, class, p)
            \/ \E n \in 0..MaxLength : Cast(o, class, p, n)
       \/ \E p \in Objects, a, b \in Places :
            StringPart(o, p, a, b) \/ ArraySlice(o, p, a, b) \/ ArraySplice(o, p, a, b)
       \/ \E p \in Objects, i \in 0..MaxLength : StringByte(o, p, i)
       \/ \E n \in 0..MaxLength : ArraySetLength(o, n)
       \/ \E i \in 0..MaxLength, byte \in Bytes : ArraySetProperty(o, i, byte)
       \/ \E list \in Fresh :
            \/ ArrayAppend(o, list) \/ ArrayPrepend(o, list)
            \/ \E invalid \in {0, 1} : ArrayPush(o, list, Len(list) + invalid)

ByteSpec == ByteInit /\ [][ByteNext]_byteVars

-----------------------------------------------------------------------------
(* Properties                                                                *)

\* "memoryOwner ... is the only object whose finalizer may free hnd->buffer", and "any
\* ByteThing may freely use another byteThing's hnd->buffer" (gpsee.h:668-671): the buffer
\* of every object is there and holds its list, and only lists that can no longer change
\* share one.
BuffersLive ==
  \A o \in Objects : handle[o] # NoHandle /\ handle[o].buffer \in Objects =>
    /\ heap[handle[o].buffer] # FreeBlock
    /\ Max({handle[o].length, handle[o].capacity}) <= Len(heap[handle[o].buffer])
    /\ \A p \in Objects \ {o} :
         handle[p] # NoHandle /\ handle[p].buffer = handle[o].buffer =>
           handle[p].immutable /\ handle[p].length = handle[o].length

\* The lists a script sees.
ListsSeen == [o \in Objects |-> IF o \in held THEN List(o) ELSE NoList]

Abstract == INSTANCE ByteLists WITH lists <- ListsSeen

\* A script that calls methods of byte arrays sees lists of bytes: none changes but the
\* one a method is called for, and that one as the method promises, whatever the
\* capacities, whenever memory has run out, and whoever shares a buffer.
ImplementsLists == Abstract!ListsSpec

\* "This behavior corresponds with String.substring()" (ByteString.c:623), and the same
\* of slice; substr corresponds with String.substr() as long as the part it is asked for
\* lies within the list.
RangesAgree ==
  \A p \in held : \A a, b \in (-MaxLength - 1)..(MaxLength + 1) :
    LET length == handle[p].length  range == SubstrRange(length, a, b) IN
    /\ SubstringRange(length, a, b) = Abstract!SubstringPart(length, a, b)
    /\ SliceRange(length, a, b) = Abstract!SlicePart(length, a, b)
    /\ range[2] <= length => range = Abstract!SubstrPart(length, a, b)
=============================================================================
