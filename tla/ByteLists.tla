------------------------------- MODULE ByteLists -------------------------------
(***************************************************************************)
(* What the methods of the byte strings and byte arrays of the binary      *)
(* module do to the bytes a script sees, without the memory the bytes are  *)
(* kept in.  Unknown stands for a byte whose value nobody promises.        *)
(***************************************************************************)
EXTENDS Integers, Sequences, SequencesExt, FiniteSetsExt

CONSTANTS Objects,      \* the objects a script may hold
          NoList,       \* the value of an object that it does not hold
          Bytes,        \* the values of a byte
          Unknown,
          MaxLength     \* bound: the length of a list

VARIABLE lists          \* per object: the list of its bytes

Lists == BoundedSeq(Bytes \cup {Unknown}, MaxLength)
Known == BoundedSeq(Bytes, MaxLength)
Unknowns(n) == [i \in 1..n |-> Unknown]

ListsInit == lists = [o \in Objects |-> NoList]

HasList(o) == lists[o] # NoList

\* The list of o becomes s, if the bound admits it.
Becomes(o, s) ==
  /\ Len(s) <= MaxLength
  /\ lists' = [lists EXCEPT ![o] = s]

-----------------------------------------------------------------------------

Create(o, s) == lists' = [lists EXCEPT ![o] = s]
Forget(o) == lists' = [lists EXCEPT ![o] = NoList]

\* The memory of a list cannot be extended: its bytes are lost.
Lose(o) == Becomes(o, Unknowns(Len(lists[o])))

SetByte(o, i, b) == i \in DOMAIN lists[o] /\ Becomes(o, [lists[o] EXCEPT ![i] = b])

\* The list is cut off, or extended with zeros.
SetLength(o, n) ==
  Becomes(o, [i \in 1..n |-> IF i \in DOMAIN lists[o] THEN lists[o][i] ELSE 0])

Push(o, s) == Becomes(o, lists[o] \o s)
Pop(o) == lists[o] # <<>> /\ Becomes(o, Front(lists[o]))
Shift(o) == lists[o] # <<>> /\ Becomes(o, Tail(lists[o]))
Unshift(o, s) == Becomes(o, s \o lists[o])

UnshiftSelf(o) == Becomes(o, lists[o] \o lists[o])

\* What is pushed to a list is unspecified when it is the list itself.
PushSelf(o) == UnshiftSelf(o) \/ Becomes(o, lists[o] \o Unknowns(Len(lists[o])))

\* The bytes behind the first i, as far as the j-th, are moved to a new list p; what
\* is left may be lost.
Splice(o, i, j, p) ==
  /\ ~HasList(p) /\ j <= Len(lists[o])
  /\ \E rest \in {SubSeq(lists[o], 1, i) \o SubSeq(lists[o], j + 1, Len(lists[o])),
                  Unknowns(Len(lists[o]) - (j - i))} :
       lists' = [lists EXCEPT ![o] = rest, ![p] = SubSeq(lists[o], i + 1, j)]

ReverseList(o) == Becomes(o, Reverse(lists[o]))

\* Nothing is promised of the order of bytes that are unknown.
SortList(o) ==
  \E s \in Lists :
    /\ Becomes(o, s)
    /\ \/ Unknown \in ToSet(lists[o]) /\ s = Unknowns(Len(lists[o]))
       \/ /\ Unknown \notin ToSet(lists[o])
          /\ \E p \in Bijection(DOMAIN lists[o], DOMAIN lists[o]) : s = [i \in DOMAIN lists[o] |-> lists[o][p[i]]]
          /\ \A i, j \in DOMAIN s : i < j => s[i] <= s[j]

Change(o) ==
  \/ Forget(o) \/ Lose(o) \/ PushSelf(o) \/ UnshiftSelf(o) \/ Pop(o) \/ Shift(o)
  \/ ReverseList(o) \/ SortList(o)
  \/ \E s \in Known : Push(o, s) \/ Unshift(o, s)
  \/ \E n \in 0..MaxLength : SetLength(o, n)
  \/ \E i \in 1..MaxLength, b \in Bytes : SetByte(o, i, b)
  \/ \E i \in 0..MaxLength, p \in Objects : \E j \in i..MaxLength : Splice(o, i, j, p)

ListsNext ==
  \E o \in Objects : IF HasList(o) THEN Change(o) ELSE \E s \in Lists : Create(o, s)

ListsSpec == ListsInit /\ [][ListsNext]_lists

-----------------------------------------------------------------------------
(* ECMAScript's String.prototype.substring, slice and substr: the part of a  *)
(* string of the given length that they return, as the number of characters *)
(* before it and the number up to its end                                    *)

Clamp(x, length) == Max({0, Min({x, length})})
Relative(x, length) == IF x < 0 THEN Max({length + x, 0}) ELSE Min({x, length})

SubstringPart(length, a, b) ==
  LET x == Clamp(a, length)  y == Clamp(b, length) IN <<Min({x, y}), Max({x, y})>>

SlicePart(length, a, b) ==
  LET x == Relative(a, length) IN <<x, Max({x, Relative(b, length)})>>

SubstrPart(length, a, n) ==
  LET x == Relative(a, length) IN <<x, x + Max({0, Min({n, length - x})})>>
=============================================================================
