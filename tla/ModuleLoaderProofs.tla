-------------------------- MODULE ModuleLoaderProofs -------------------------
(***************************************************************************)
(* The module loader for any number of threads, modules and handles: every *)
(* safety property of the run over ModuleLoader.  The argument: the        *)
(* require lock, and the fact that no script runs before the program's own *)
(* (ProgramFirst), leave one frame at a time to load or initialise a       *)
(* module; a handle that such a frame has is in no other frame             *)
(* (OnlyUser), so that what the frame knows of it stays true (FrameInv);   *)
(* and a handle leaves the memo only when it is released (HandleInv).      *)
(***************************************************************************)
EXTENDS ModuleLoader, FiniteSetTheorems, SequenceTheorems, TLAPS

\* A handle that stands for a module: allocated, and not released.
Alive(h) == mod[h].mem = "allocated" /\ ~mod[h].released

\* The frame runs the script of its module, or is that of the program module and
\* has run it: what begins to be so with the one execution of the script.
Owner(f) == f.pc = "run" \/ (f.way = "program" /\ f.pc = "return")

\* What the frames of one stack look like: only the innermost is not running a
\* script, and the program module is at the bottom of the main thread's.
StackShape ==
  \A t \in Threads : \A i \in 1..Len(stack[t]) :
    /\ stack[t][i].h = NoHandle <=> stack[t][i].pc \in {"lock", "find"}
    /\ i < Len(stack[t]) => stack[t][i].pc = "run"
    /\ stack[t][i].way = "program" =>
         /\ t = Main /\ i = 1 /\ stack[t][i].name = Program
         /\ stack[t][i].pc \notin {"lock", "find", "native"}

\* What a frame knows of the handle it has.
FrameInv(f) ==
  f.h # NoHandle =>
    /\ mod[f.h].mem = "allocated" /\ mod[f.h].name = f.name
    /\ f.pc # "return" \/ f.way = "program" \/ f.name # Program => ~mod[f.h].released
    /\ f.pc \in {"native", "script", "mark"} => ~mod[f.h].loaded
    /\ f.pc = "init" \/ Owner(f) => mod[f.h].loaded
    /\ f.pc = "init" => evals[f.h] = 0
    /\ Owner(f) => evals[f.h] = 1
    /\ f.way = "program" /\ f.pc \in {"mark", "init"} => mod[f.h].script

\* The program module is initialised before anything else happens.
ProgramFirst(f) ==
  /\ f.way # "program" => Started
  /\ f.way = "program" /\ ~Owner(f) => ~Started

FramesInv ==
  \A t \in Threads : \A i \in 1..Len(stack[t]) :
     FrameInv(stack[t][i]) /\ ProgramFirst(stack[t][i])

\* One frame at most is the owner of a handle.
OneOwner ==
  \A t, u \in Threads : \A i \in 1..Len(stack[t]), j \in 1..Len(stack[u]) :
    /\ Owner(stack[t][i]) /\ Owner(stack[u][j])
    /\ stack[t][i].h = stack[u][j].h
    => t = u /\ i = j

HandleInv(h) ==
  /\ mod[h].mem = "unused" =>
       /\ mod[h] = Blank /\ evals[h] = 0 /\ scope[h] = "none"
       /\ h \notin held /\ h \notin unreachable
  /\ Alive(h) => Memoized(h) /\ (shutdown = "no" => mod[h].refs)
  /\ mod[h].script => evals[h] = 0
  /\ evals[h] <= 1
  /\ evals[h] = 1 /\ Alive(h) /\ shutdown = "no" => mod[h].loaded
  /\ mod[h].init = "done" /\ mod[h].fini => mod[h].loaded /\ mod[h].refs /\ Alive(h)
  /\ mod[h].mem = "freed" \/ h \in unreachable => mod[h].released
  /\ shutdown = "done" /\ Memoized(h) => ~mod[h].fini

HandlesInv == \A h \in Handles : HandleInv(h)

MemoInv == \A n \in Names : memo[n] # NoHandle => Alive(memo[n]) /\ mod[memo[n]].name = n

EnoughFresh == Cardinality(Pending) <= Cardinality(Fresh)

ShutdownAlone == shutdown # "no" => \A t \in Threads : stack[t] = <<>>

\* The requires of t that have taken the lock, as LockMatchesRequires counts them.
LockedIn(t) == {i \in 1..Len(stack[t]) : stack[t][i].way # "program" /\ stack[t][i].pc # "lock"}

LockInv ==
  /\ \A t \in Threads : LockedIn(t) # {} => holder = t /\ nesting = Cardinality(LockedIn(t))
  /\ holder = Nobody <=> \A t \in Threads : LockedIn(t) = {}
  /\ holder = Nobody => nesting = 0

IInv ==
  /\ TypeOK /\ LockInv
  /\ StackShape /\ FramesInv /\ OneOwner
  /\ HandlesInv /\ MemoInv
  /\ EnoughFresh /\ ShutdownAlone
-----------------------------------------------------------------------------
(* The stacks                                                                *)

\* The innermost frame of a thread that is in a require.
LEMMA TopIsFrame ==
  ASSUME stack \in [Threads -> Seq(Frames)], NEW t \in Threads, stack[t] # <<>>
  PROVE  /\ Len(stack[t]) \in Nat \ {0}
         /\ Top(t) = stack[t][Len(stack[t])]
         /\ Top(t) \in Frames
<1>1. stack[t] \in Seq(Frames)
  OBVIOUS
<1>2. Len(stack[t]) \in Nat /\ Len(stack[t]) # 0
  BY <1>1, LenProperties, EmptySeq
<1> QED
  BY <1>1, <1>2, ElementOfSeq DEF Top

\* What Set does to each frame.
LEMMA SetFrames ==
  ASSUME stack \in [Threads -> Seq(Frames)], NEW t \in Threads, stack[t] # <<>>,
         NEW f \in Frames, Set(t, f)
  PROVE  /\ stack' \in [Threads -> Seq(Frames)]
         /\ \A u \in Threads \ {t} : stack'[u] = stack[u]
         /\ \A u \in Threads : Len(stack'[u]) = Len(stack[u])
         /\ \A u \in Threads : \A i \in 1..Len(stack[u]) :
              stack'[u][i] = IF u = t /\ i = Len(stack[t]) THEN f ELSE stack[u][i]
<1> DEFINE s == stack[t]
           n == Len(stack[t])
<1>1. s \in Seq(Frames) /\ n \in Nat /\ n \in 1..Len(s)
  BY TopIsFrame
<1>2. stack' = [stack EXCEPT ![t] = [s EXCEPT ![n] = f]]
  BY DEF Set
<1>3. /\ [s EXCEPT ![n] = f] \in Seq(Frames) /\ Len([s EXCEPT ![n] = f]) = Len(s)
      /\ \A j \in 1..Len(s) : [s EXCEPT ![n] = f][j] = IF j = n THEN f ELSE s[j]
  BY <1>1, ExceptSeq
<1>4. \A u \in Threads : stack'[u] = IF u = t THEN [s EXCEPT ![n] = f] ELSE stack[u]
  BY <1>2
<1>5. stack' \in [Threads -> Seq(Frames)]
  BY <1>2, <1>3
<1> HIDE DEF s, n
<1> QED
  BY <1>3, <1>4, <1>5 DEF s, n

\* What Pop does to each frame.
LEMMA PopFrames ==
  ASSUME stack \in [Threads -> Seq(Frames)], NEW t \in Threads, stack[t] # <<>>, Pop(t)
  PROVE  /\ stack' \in [Threads -> Seq(Frames)]
         /\ \A u \in Threads \ {t} : stack'[u] = stack[u]
         /\ \A u \in Threads : Len(stack'[u]) = IF u = t THEN Len(stack[t]) - 1 ELSE Len(stack[u])
         /\ \A u \in Threads : \A i \in 1..Len(stack'[u]) : stack'[u][i] = stack[u][i]
<1> DEFINE s == stack[t]
           n == Len(stack[t])
           r == SubSeq(s, 1, n - 1)
<1>1. s \in Seq(Frames) /\ n \in Nat \ {0} /\ n = Len(s)
  BY TopIsFrame
<1>2. stack' = [stack EXCEPT ![t] = r]
  BY DEF Pop
<1>3. r \in Seq(Frames) /\ Len(r) = n - 1 /\ \A j \in 1..(n - 1) : r[j] = s[j]
  <2>1. \A j \in 1..(n - 1) : s[j] \in Frames
    BY <1>1, ElementOfSeq
  <2>2. 1 \in Int /\ n - 1 \in Int /\ n - 1 <= Len(s)
    BY <1>1
  <2>3. \A j \in 1..(n - 1) : j \in 1..Len(s) /\ 1 + j - 1 = j
    BY <1>1
  <2> HIDE DEF s, n
  <2>4. /\ r \in Seq(Frames)
        /\ Len(r) = IF 1 <= n - 1 THEN (n - 1) - 1 + 1 ELSE 0
        /\ \A i \in 1..((n - 1) - 1 + 1) : r[i] = s[1 + i - 1]
    BY <2>1, <2>2, SubSeqProperties DEF r
  <2>5. (n - 1) - 1 + 1 = n - 1
    BY <1>1
  <2>6. \A i \in 1..(n - 1) : 1 + i - 1 = i
    OBVIOUS
  <2> HIDE DEF r
  <2> QED
    BY <1>1, <2>4, <2>5, <2>6
<1>4. \A u \in Threads : stack'[u] = IF u = t THEN r ELSE stack[u]
  BY <1>2
<1>5. stack' \in [Threads -> Seq(Frames)]
  BY <1>2, <1>3
<1> HIDE DEF s, n, r
<1> QED
  BY <1>3, <1>4, <1>5 DEF s, n

\* What a require does to each frame.
LEMMA PushFrames ==
  ASSUME stack \in [Threads -> Seq(Frames)], NEW t \in Threads, NEW f \in Frames,
         stack' = [stack EXCEPT ![t] = Append(@, f)]
  PROVE  /\ stack' \in [Threads -> Seq(Frames)]
         /\ \A u \in Threads \ {t} : stack'[u] = stack[u]
         /\ \A u \in Threads : Len(stack'[u]) = IF u = t THEN Len(stack[t]) + 1 ELSE Len(stack[u])
         /\ \A u \in Threads : \A i \in 1..Len(stack'[u]) :
              stack'[u][i] = IF u = t /\ i = Len(stack[t]) + 1 THEN f ELSE stack[u][i]
<1> DEFINE s == stack[t]
           r == Append(stack[t], f)
<1>1. s \in Seq(Frames) /\ Len(s) \in Nat
  BY LenProperties
<1>2. /\ r \in Seq(Frames) /\ Len(r) = Len(s) + 1
      /\ \A j \in 1..(Len(s) + 1) : r[j] = IF j = Len(s) + 1 THEN f ELSE s[j]
  BY <1>1, AppendProperties
<1>3. \A u \in Threads : stack'[u] = IF u = t THEN r ELSE stack[u]
  OBVIOUS
<1>4. stack' \in [Threads -> Seq(Frames)]
  BY <1>2
<1> HIDE DEF s, r
<1> QED
  BY <1>2, <1>3, <1>4 DEF s

-----------------------------------------------------------------------------
(* Who else is there                                                         *)

\* f is a frame, and not the innermost one of t.
Beside(t, f) ==
  \E u \in Threads : \E i \in 1..Len(stack[u]) :
    (u # t \/ i # Len(stack[t])) /\ stack[u][i] = f

\* A frame beside one that holds the lock, or initialises the program, waits for
\* the lock or runs a script, or is that of the program module at its end.
LEMMA Alone ==
  ASSUME IInv, NEW t \in Threads, stack[t] # <<>>,
         Top(t).pc # "lock", ~Owner(Top(t)),
         NEW f \in Frames, Beside(t, f)
  PROVE  f.pc = "lock" \/ Owner(f)
<1>0. \A u \in Threads : Len(stack[u]) \in Nat
  BY LenProperties DEF IInv, TypeOK
<1>1. PICK u \in Threads, i \in Nat :
        i \in 1..Len(stack[u]) /\ (u # t \/ i # Len(stack[t])) /\ stack[u][i] = f
  BY <1>0 DEF Beside
<1>2. /\ stack \in [Threads -> Seq(Frames)] /\ Len(stack[u]) \in Nat
      /\ Len(stack[t]) \in Nat \ {0} /\ Top(t) = stack[t][Len(stack[t])]
  <2>1. stack[u] \in Seq(Frames)
    BY DEF IInv, TypeOK
  <2> QED
    BY <2>1, LenProperties, TopIsFrame DEF IInv, TypeOK
<1>3. Len(stack[t]) \in 1..Len(stack[t])
  BY <1>2
<1>4. ProgramFirst(Top(t)) /\ ProgramFirst(f)
  BY <1>1, <1>2, <1>3 DEF IInv, FramesInv
<1>5. CASE u = t
  BY <1>1, <1>2, <1>5 DEF IInv, StackShape, Owner
<1>6. CASE u # t /\ f.way = "program"
  <2>1. Top(t).way # "program"
    BY <1>1, <1>2, <1>3, <1>6 DEF IInv, StackShape
  <2> QED
    BY <1>4, <1>6, <2>1 DEF ProgramFirst
<1>7. CASE u # t /\ f.way # "program"
  <2>1. Top(t).way # "program"
    BY <1>4, <1>7 DEF ProgramFirst
  <2>2. Len(stack[t]) \in LockedIn(t)
    BY <1>2, <1>3, <2>1 DEF LockedIn
  <2>3. f.pc # "lock" => i \in LockedIn(u)
    BY <1>1, <1>7 DEF LockedIn
  <2> QED
    BY <1>7, <2>2, <2>3 DEF IInv, LockInv
<1> QED
  BY <1>5, <1>6, <1>7

\* The innermost frame of a thread, and the invariants of it.
LEMMA TopInv ==
  ASSUME IInv, NEW t \in Threads, stack[t] # <<>>
  PROVE  /\ stack \in [Threads -> Seq(Frames)]
         /\ Len(stack[t]) \in Nat \ {0} /\ Len(stack[t]) \in 1..Len(stack[t])
         /\ Top(t) = stack[t][Len(stack[t])] /\ Top(t) \in Frames
         /\ FrameInv(Top(t)) /\ ProgramFirst(Top(t))
         /\ Top(t).h = NoHandle <=> Top(t).pc \in {"lock", "find"}
         /\ Top(t).way = "program" =>
              /\ t = Main /\ Len(stack[t]) = 1 /\ Top(t).name = Program
              /\ Top(t).pc \notin {"lock", "find", "native"}
         /\ shutdown = "no"
<1>1. /\ stack \in [Threads -> Seq(Frames)]
      /\ Len(stack[t]) \in Nat \ {0}
      /\ Top(t) = stack[t][Len(stack[t])] /\ Top(t) \in Frames
  BY TopIsFrame DEF IInv, TypeOK
<1>2. Len(stack[t]) \in 1..Len(stack[t])
  BY <1>1
<1> QED
  BY <1>1, <1>2 DEF IInv, FramesInv, StackShape, ShutdownAlone

\* A frame beside another has what its invariants say.
LEMMA BesideInv ==
  ASSUME IInv, NEW t \in Threads, NEW f \in Frames, Beside(t, f)
  PROVE  /\ f \in Frames /\ FrameInv(f) /\ ProgramFirst(f)
         /\ f.h = NoHandle <=> f.pc \in {"lock", "find"}
         /\ f.way = "program" => f.name = Program /\ f.pc \notin {"lock", "find", "native"}
<1>0. \A u \in Threads : Len(stack[u]) \in Nat
  BY LenProperties DEF IInv, TypeOK
<1>1. PICK u \in Threads, i \in Nat :
        i \in 1..Len(stack[u]) /\ (u # t \/ i # Len(stack[t])) /\ stack[u][i] = f
  BY <1>0 DEF Beside
<1>2. stack[u] \in Seq(Frames)
  BY DEF IInv, TypeOK
<1>3. f \in Frames
  BY <1>1, <1>2, ElementOfSeq
<1> QED
  BY <1>1, <1>3 DEF IInv, FramesInv, StackShape

\* The handle of a module that is being loaded or initialised is in no other frame.
LEMMA OnlyUser ==
  ASSUME IInv, NEW t \in Threads, stack[t] # <<>>,
         Top(t).pc \in {"native", "script", "mark", "init"},
         NEW f \in Frames, Beside(t, f)
  PROVE  f.h # Top(t).h
<1>1. FrameInv(Top(t)) /\ Top(t).h # NoHandle
  BY TopInv
<1>2. f.pc = "lock" \/ Owner(f)
  BY Alone DEF Owner
<1>3. FrameInv(f) /\ (f.h = NoHandle <=> f.pc \in {"lock", "find"})
  BY BesideInv
<1> QED
  BY <1>1, <1>2, <1>3 DEF FrameInv, Owner

\* That of a script that is running is in no other frame, or in that of a require
\* which returns the exports of the program module.
LEMMA RunningUser ==
  ASSUME IInv, NEW t \in Threads, stack[t] # <<>>, Top(t).pc = "run",
         NEW f \in Frames, Beside(t, f), f.h = Top(t).h
  PROVE  f.pc = "return" /\ f.way # "program" /\ f.name = Program
<1>0. \A u \in Threads : Len(stack[u]) \in Nat
  BY LenProperties DEF IInv, TypeOK
<1>1. PICK u \in Threads, i \in Nat :
        i \in 1..Len(stack[u]) /\ (u # t \/ i # Len(stack[t])) /\ stack[u][i] = f
  BY <1>0 DEF Beside
<1>2. /\ FrameInv(Top(t)) /\ ProgramFirst(Top(t)) /\ Top(t).h # NoHandle
      /\ Len(stack[t]) \in 1..Len(stack[t]) /\ Top(t) = stack[t][Len(stack[t])]
  BY TopInv
<1>3. FrameInv(f) /\ (f.h = NoHandle <=> f.pc \in {"lock", "find"}) /\ f \in Frames
  BY BesideInv
<1>4. ~Owner(f)
  BY <1>1, <1>2 DEF IInv, OneOwner, Owner
<1>5. f.pc = "return"
  BY <1>2, <1>3, <1>4 DEF FrameInv, Owner, Frames
<1>6. f.way # "program"
  BY <1>4, <1>5 DEF Owner
<1>7. u # t
  BY <1>1, <1>5, <1>2 DEF IInv, StackShape
<1>8. Top(t).way = "program"
  <2> SUFFICES ASSUME Top(t).way # "program" PROVE FALSE
    OBVIOUS
  <2>1. Len(stack[t]) \in LockedIn(t) /\ i \in LockedIn(u)
    BY <1>1, <1>2, <1>5, <1>6 DEF LockedIn
  <2> QED
    BY <1>7, <2>1 DEF IInv, LockInv
<1> QED
  BY <1>2, <1>3, <1>5, <1>6, <1>8, TopInv DEF FrameInv

-----------------------------------------------------------------------------
(* The lock                                                                  *)

\* The frames that hold the lock are finitely many.
LEMMA LockedFinite ==
  ASSUME stack \in [Threads -> Seq(Frames)], NEW t \in Threads
  PROVE  /\ IsFiniteSet(LockedIn(t)) /\ Cardinality(LockedIn(t)) \in Nat
         /\ Cardinality(LockedIn(t)) <= Len(stack[t])
         /\ Cardinality(LockedIn(t)) = 0 <=> LockedIn(t) = {}
<1>1. Len(stack[t]) \in Nat
  BY LenProperties
<1>2. /\ IsFiniteSet(1..Len(stack[t]))
      /\ Cardinality(1..Len(stack[t])) = IF 1 > Len(stack[t]) THEN 0 ELSE Len(stack[t]) - 1 + 1
  BY <1>1, FS_Interval
<1>3. LockedIn(t) \subseteq 1..Len(stack[t])
  BY DEF LockedIn
<1>4. IsFiniteSet(LockedIn(t)) /\ Cardinality(LockedIn(t)) <= Cardinality(1..Len(stack[t]))
  BY <1>2, <1>3, FS_Subset
<1>5. Cardinality(LockedIn(t)) \in Nat
  BY <1>4, FS_CardinalityType
<1>6. Cardinality(LockedIn(t)) = 0 <=> LockedIn(t) = {}
  BY <1>4, FS_EmptySet
<1> QED
  BY <1>1, <1>2, <1>4, <1>5, <1>6

\* A step that neither takes nor gives back the lock.
LEMMA LockKept ==
  ASSUME TypeOK, LockInv, UNCHANGED mutexVars,
         \A u \in Threads : LockedIn(u)' = LockedIn(u)
  PROVE  /\ LockInv'
         /\ holder' \in Threads \cup {Nobody} /\ nesting' \in 0..MaxDepth
  BY DEF TypeOK, LockInv, mutexVars

\* A require takes the lock.
LEMMA LockTaken ==
  ASSUME TypeOK, LockInv, NEW t \in Threads, Lock(t),
         stack' \in [Threads -> Seq(Frames)], Len(stack'[t]) <= MaxDepth,
         NEW k, k \notin LockedIn(t), LockedIn(t)' = LockedIn(t) \cup {k},
         \A u \in Threads \ {t} : LockedIn(u)' = LockedIn(u)
  PROVE  /\ LockInv'
         /\ holder' \in Threads \cup {Nobody} /\ nesting' \in 0..MaxDepth
<1>1. /\ IsFiniteSet(LockedIn(t)) /\ Cardinality(LockedIn(t)) \in Nat
      /\ Cardinality(LockedIn(t)) = 0 <=> LockedIn(t) = {}
  BY LockedFinite DEF TypeOK
<1>2. Cardinality(LockedIn(t) \cup {k}) = Cardinality(LockedIn(t)) + 1
  BY <1>1, FS_AddElement
<1>3. nesting = Cardinality(LockedIn(t))
  <2>1. CASE LockedIn(t) = {}
    <3>1. \A u \in Threads : LockedIn(u) = {}
      BY <2>1 DEF LockInv, Lock
    <3>2. nesting = 0
      BY <3>1 DEF LockInv
    <3> QED
      BY <1>1, <2>1, <3>2
  <2>2. CASE LockedIn(t) # {}
    BY <2>2 DEF LockInv
  <2> QED
    BY <2>1, <2>2
<1>4. nesting' = Cardinality(LockedIn(t)') /\ holder' = t /\ LockedIn(t)' # {}
  BY <1>2, <1>3 DEF Lock
<1>5. \A u \in Threads \ {t} : LockedIn(u)' = {}
  BY DEF LockInv, Lock
<1>6. Len(stack'[t]) \in Nat /\ Cardinality(LockedIn(t)') <= Len(stack'[t])
  <2>1. Len(stack'[t]) \in Nat
    BY LenProperties
  <2>2. /\ IsFiniteSet(1..Len(stack'[t]))
        /\ Cardinality(1..Len(stack'[t]))
             = IF 1 > Len(stack'[t]) THEN 0 ELSE Len(stack'[t]) - 1 + 1
    BY <2>1, FS_Interval
  <2>3. LockedIn(t)' \subseteq 1..Len(stack'[t])
    BY DEF LockedIn
  <2>4. Cardinality(LockedIn(t)') <= Cardinality(1..Len(stack'[t]))
    BY <2>2, <2>3, FS_Subset
  <2> QED
    BY <2>1, <2>2, <2>4
<1>7. nesting' \in 0..MaxDepth
  BY <1>1, <1>2, <1>3, <1>4, <1>6, LoaderAssumption DEF Lock
<1> QED
  BY <1>4, <1>5, <1>7, NobodyAssumption DEF LockInv

\* A require gives back the lock it has taken.
LEMMA LockGiven ==
  ASSUME TypeOK, LockInv, NEW t \in Threads, Unlock(t),
         NEW k \in LockedIn(t), LockedIn(t)' = LockedIn(t) \ {k},
         \A u \in Threads \ {t} : LockedIn(u)' = LockedIn(u)
  PROVE  /\ LockInv'
         /\ holder' \in Threads \cup {Nobody} /\ nesting' \in 0..MaxDepth
<1>1. /\ IsFiniteSet(LockedIn(t)) /\ Cardinality(LockedIn(t)) \in Nat
      /\ Cardinality(LockedIn(t)) = 0 <=> LockedIn(t) = {}
  BY LockedFinite DEF TypeOK
<1>2. /\ IsFiniteSet(LockedIn(t) \ {k})
      /\ Cardinality(LockedIn(t) \ {k}) = Cardinality(LockedIn(t)) - 1
  BY <1>1, FS_RemoveElement
<1>3. nesting = Cardinality(LockedIn(t)) /\ holder = t
  BY DEF LockInv
<1>4. nesting' = Cardinality(LockedIn(t)') /\ holder' = IF nesting' = 0 THEN Nobody ELSE t
  BY <1>2, <1>3 DEF Unlock
<1>5. Cardinality(LockedIn(t)') = 0 <=> LockedIn(t)' = {}
  BY <1>2, FS_EmptySet
<1>6. \A u \in Threads \ {t} : LockedIn(u)' = {}
  BY <1>3, NobodyAssumption DEF LockInv
<1>7. nesting' \in 0..MaxDepth
  BY <1>1, <1>2, <1>3, <1>4, LoaderAssumption DEF TypeOK
<1> QED
  BY <1>4, <1>5, <1>6, <1>7, NobodyAssumption DEF LockInv

-----------------------------------------------------------------------------
(* The steps of one frame                                                    *)

\* The innermost frame of t becomes g, and what is known of the frames beside it
\* stays true.
LEMMA SetStep ==
  ASSUME IInv, NEW t \in Threads, stack[t] # <<>>, NEW g \in Frames, Set(t, g),
         g.way = Top(t).way, g.name = Top(t).name,
         g.h = NoHandle <=> g.pc \in {"lock", "find"},
         g.way = "program" => g.pc \notin {"lock", "find", "native"},
         FrameInv(g)', ProgramFirst(g)',
         \A f \in Frames : Beside(t, f) => FrameInv(f)' /\ ProgramFirst(f)',
         Owner(g) => \/ Owner(Top(t)) /\ g.h = Top(t).h
                     \/ \A f \in Frames : Beside(t, f) /\ Owner(f) => f.h # g.h
  PROVE  /\ stack' \in [Threads -> Seq(Frames)]
         /\ \A u \in Threads : Len(stack'[u]) <= MaxDepth
         /\ StackShape' /\ FramesInv' /\ OneOwner'
         /\ (g.pc = "lock" <=> Top(t).pc = "lock") =>
              \A u \in Threads : LockedIn(u)' = LockedIn(u)
         /\ (g.pc # "lock" /\ Top(t).pc = "lock") =>
              /\ Len(stack[t]) \notin LockedIn(t)
              /\ LockedIn(t)' = LockedIn(t) \cup {Len(stack[t])}
              /\ \A u \in Threads \ {t} : LockedIn(u)' = LockedIn(u)
         /\ (g.h = NoHandle <=> Top(t).h = NoHandle) => Pending' = Pending
         /\ (g.h # NoHandle /\ Top(t).h = NoHandle) => Pending' = Pending \ {t}
<1> DEFINE n == Len(stack[t])
<1>1. /\ stack \in [Threads -> Seq(Frames)]
      /\ n \in Nat \ {0} /\ n \in 1..n
      /\ Top(t) = stack[t][n] /\ Top(t) \in Frames
      /\ Top(t).way = "program" => t = Main /\ n = 1 /\ Top(t).name = Program
  BY TopInv
<1>2. /\ stack' \in [Threads -> Seq(Frames)]
      /\ \A u \in Threads \ {t} : stack'[u] = stack[u]
      /\ \A u \in Threads : Len(stack'[u]) = Len(stack[u])
      /\ \A u \in Threads : \A i \in 1..Len(stack[u]) :
           stack'[u][i] = IF u = t /\ i = n THEN g ELSE stack[u][i]
  BY <1>1, SetFrames
<1>3. \A u \in Threads : Len(stack'[u]) <= MaxDepth
  BY <1>2 DEF IInv, TypeOK
<1>4. \A u \in Threads : \A i \in 1..Len(stack[u]) :
        stack[u][i] \in Frames /\ (u # t \/ i # n => Beside(t, stack[u][i]))
  <2> SUFFICES ASSUME NEW u \in Threads, NEW i \in 1..Len(stack[u])
               PROVE  stack[u][i] \in Frames /\ (u # t \/ i # n => Beside(t, stack[u][i]))
    OBVIOUS
  <2>1. stack[u] \in Seq(Frames)
    BY <1>1
  <2> QED
    BY <2>1, ElementOfSeq DEF Beside
<1> HIDE DEF n
<1>5. StackShape'
  <2> SUFFICES ASSUME NEW u \in Threads, NEW i \in 1..Len(stack[u])
               PROVE  /\ stack'[u][i].h = NoHandle <=> stack'[u][i].pc \in {"lock", "find"}
                      /\ i < Len(stack[u]) => stack'[u][i].pc = "run"
                      /\ stack'[u][i].way = "program" =>
                           /\ u = Main /\ i = 1 /\ stack'[u][i].name = Program
                           /\ stack'[u][i].pc \notin {"lock", "find", "native"}
    BY <1>2 DEF StackShape
  <2>1. CASE u = t /\ i = n
    BY <1>1, <1>2, <2>1 DEF n
  <2>2. CASE ~(u = t /\ i = n)
    BY <1>2, <2>2 DEF IInv, StackShape
  <2> QED
    BY <2>1, <2>2
<1>6. FramesInv'
  <2> SUFFICES ASSUME NEW u \in Threads, NEW i \in 1..Len(stack[u]), NEW f \in Frames,
                      f = stack'[u][i]
               PROVE  FrameInv(f)' /\ ProgramFirst(f)'
    <3>1. \A u \in Threads : \A i \in 1..Len(stack[u]) : stack'[u][i] \in Frames
      BY <1>2, <1>4
    <3>2. \A u \in Threads : \A i \in 1..Len(stack'[u]) :
            FrameInv(stack[u][i])' /\ ProgramFirst(stack[u][i])'
      BY <1>2, <3>1 DEF FrameInv, ProgramFirst, Owner, Started
    <3> QED
      BY <3>2 DEF FramesInv
  <2>1. CASE u = t /\ i = n
    BY <1>2, <2>1
  <2>2. CASE ~(u = t /\ i = n)
    BY <1>2, <1>4, <2>2
  <2> QED
    BY <2>1, <2>2
<1>7. OneOwner'
  <2> SUFFICES ASSUME NEW u \in Threads, NEW v \in Threads,
                      NEW i \in 1..Len(stack[u]), NEW j \in 1..Len(stack[v]),
                      Owner(stack'[u][i]), Owner(stack'[v][j]),
                      stack'[u][i].h = stack'[v][j].h
               PROVE  u = v /\ i = j
    BY <1>2 DEF OneOwner, Owner
  <2>1. CASE (u = t /\ i = n) /\ (v = t /\ j = n)
    BY <2>1
  <2>2. CASE (u = t /\ i = n) /\ ~(v = t /\ j = n)
    BY <1>1, <1>2, <1>4, <2>2 DEF IInv, OneOwner
  <2>3. CASE ~(u = t /\ i = n) /\ (v = t /\ j = n)
    BY <1>1, <1>2, <1>4, <2>3 DEF IInv, OneOwner
  <2>4. CASE ~(u = t /\ i = n) /\ ~(v = t /\ j = n)
    BY <1>2, <2>4 DEF IInv, OneOwner
  <2> QED
    BY <2>1, <2>2, <2>3, <2>4
<1>8. ASSUME g.pc = "lock" <=> Top(t).pc = "lock"
      PROVE  \A u \in Threads : LockedIn(u)' = LockedIn(u)
  BY <1>1, <1>2, <1>8 DEF LockedIn
<1>9. ASSUME g.pc # "lock", Top(t).pc = "lock"
       PROVE  /\ Len(stack[t]) \notin LockedIn(t)
              /\ LockedIn(t)' = LockedIn(t) \cup {Len(stack[t])}
              /\ \A u \in Threads \ {t} : LockedIn(u)' = LockedIn(u)
  <2>1. Top(t).way # "program"
    BY <1>9, TopInv
  <2> QED
    BY <1>1, <1>2, <1>9, <2>1 DEF LockedIn, n
<1>10. \A u \in Threads : u # t => (u \in Pending' <=> u \in Pending)
  BY <1>2 DEF Pending, Top
<1>11. stack'[t] # <<>> /\ Top(t)' = g
  <2>1. Top(t)' = stack'[t][Len(stack'[t])]
    BY DEF Top
  <2>2. stack'[t] \in Seq(Frames) /\ Len(stack'[t]) # 0
    BY <1>1, <1>2 DEF n
  <2> QED
    BY <1>1, <1>2, <2>1, <2>2, EmptySeq DEF n
<1>12. t \in Pending' <=> g.h = NoHandle
  BY <1>11 DEF Pending
<1>13. t \in Pending <=> Top(t).h = NoHandle
  BY DEF Pending
<1>14. Pending \subseteq Threads /\ Pending' \subseteq Threads
  BY DEF Pending
<1>15. ASSUME g.h = NoHandle <=> Top(t).h = NoHandle PROVE Pending' = Pending
  <2>1. \A u \in Threads : u \in Pending' <=> u \in Pending
    BY <1>10, <1>12, <1>13, <1>15
  <2> QED
    BY <1>14, <2>1
<1>16. ASSUME g.h # NoHandle, Top(t).h = NoHandle PROVE Pending' = Pending \ {t}
  <2>1. \A u \in Threads : u \in Pending' <=> u \in Pending /\ u # t
    BY <1>10, <1>12, <1>16
  <2> QED
    BY <1>14, <2>1
<1> QED
  BY <1>2, <1>3, <1>5, <1>6, <1>7, <1>8, <1>15, <1>16, <1>9

\* The innermost frame of t goes away.
LEMMA PopStep ==
  ASSUME IInv, NEW t \in Threads, stack[t] # <<>>, Pop(t),
         \A f \in Frames : Beside(t, f) => FrameInv(f)' /\ ProgramFirst(f)'
  PROVE  /\ stack' \in [Threads -> Seq(Frames)]
         /\ \A u \in Threads : Len(stack'[u]) <= MaxDepth
         /\ StackShape' /\ FramesInv' /\ OneOwner'
         /\ \A u \in Threads \ {t} : LockedIn(u)' = LockedIn(u)
         /\ LockedIn(t)' = LockedIn(t) \ {Len(stack[t])}
         /\ Pending' = Pending \ {t}
<1> DEFINE n == Len(stack[t])
<1>1. /\ stack \in [Threads -> Seq(Frames)]
      /\ n \in Nat \ {0} /\ n \in 1..n
      /\ Top(t) = stack[t][n] /\ Top(t) \in Frames
  BY TopInv
<1>2. /\ stack' \in [Threads -> Seq(Frames)]
      /\ \A u \in Threads \ {t} : stack'[u] = stack[u]
      /\ \A u \in Threads : Len(stack'[u]) = IF u = t THEN n - 1 ELSE Len(stack[u])
      /\ \A u \in Threads : \A i \in 1..Len(stack'[u]) : stack'[u][i] = stack[u][i]
  BY <1>1, PopFrames
<1>3. \A u \in Threads : Len(stack[u]) \in Nat
  BY <1>1, LenProperties
<1> HIDE DEF n
<1>4. \A u \in Threads : Len(stack'[u]) <= MaxDepth
  BY <1>1, <1>2, <1>3, LoaderAssumption DEF IInv, TypeOK, n
<1>5. \A u \in Threads : \A i \in 1..Len(stack'[u]) :
        /\ i \in 1..Len(stack[u]) /\ (i < Len(stack'[u]) => i < Len(stack[u]))
        /\ stack[u][i] \in Frames /\ Beside(t, stack[u][i])
  <2> SUFFICES ASSUME NEW u \in Threads, NEW i \in 1..Len(stack'[u])
               PROVE  /\ i \in 1..Len(stack[u]) /\ (i < Len(stack'[u]) => i < Len(stack[u]))
                      /\ stack[u][i] \in Frames /\ Beside(t, stack[u][i])
    OBVIOUS
  <2>1. /\ i \in 1..Len(stack[u]) /\ (i < Len(stack'[u]) => i < Len(stack[u]))
        /\ (u # t \/ i # n)
    BY <1>1, <1>2, <1>3 DEF n
  <2>2. stack[u] \in Seq(Frames)
    BY <1>1
  <2> QED
    BY <2>1, <2>2, ElementOfSeq DEF Beside, n
<1>6. StackShape'
  BY <1>2, <1>5 DEF IInv, StackShape
<1>7. FramesInv'
  <2>1. \A u \in Threads : \A i \in 1..Len(stack'[u]) :
          FrameInv(stack[u][i])' /\ ProgramFirst(stack[u][i])'
    BY <1>2, <1>5 DEF FrameInv, ProgramFirst, Owner, Started
  <2> QED
    BY <2>1 DEF FramesInv
<1>8. OneOwner'
  BY <1>2, <1>5 DEF IInv, OneOwner, Owner
<1>9. \A u \in Threads \ {t} : LockedIn(u)' = LockedIn(u)
  BY <1>2 DEF LockedIn
<1>10. LockedIn(t)' = LockedIn(t) \ {n}
  BY <1>1, <1>2 DEF LockedIn, n
<1>11. \A u \in Threads : u # t => (u \in Pending' <=> u \in Pending)
  BY <1>2 DEF Pending, Top
<1>12. t \notin Pending'
  <2> SUFFICES ASSUME stack'[t] # <<>> PROVE Top(t)'.h # NoHandle
    BY DEF Pending
  <2>1. stack'[t] \in Seq(Frames) /\ Len(stack'[t]) = n - 1 /\ n - 1 # 0
    BY <1>1, <1>2, EmptySeq
  <2>2. Top(t)' = stack'[t][n - 1] /\ n - 1 \in 1..Len(stack'[t])
    BY <1>1, <2>1 DEF Top
  <2>3. /\ Top(t)' = stack[t][n - 1]
        /\ n = Len(stack[t]) /\ n \in Nat /\ Len(stack'[t]) = n - 1
    <3>1. stack'[t][n - 1] = stack[t][n - 1]
      BY <1>2, <2>2
    <3>2. n = Len(stack[t]) /\ n \in Nat
      BY <1>1 DEF n
    <3> QED
      BY <2>1, <2>2, <3>1, <3>2
  <2>4. PICK i \in 1..Len(stack[t]) : i < Len(stack[t]) /\ Top(t)' = stack[t][i]
    <3>1. n - 1 \in 1..n /\ n - 1 < n
      BY <2>2, <2>3
    <3> QED
      BY <2>3, <3>1
  <2>5. stack[t][i].pc = "run" /\ (stack[t][i].h = NoHandle
                                   <=> stack[t][i].pc \in {"lock", "find"})
    BY <2>4 DEF IInv, StackShape
  <2> QED
    BY <2>4, <2>5
<1>13. Pending \subseteq Threads /\ Pending' \subseteq Threads
  BY DEF Pending
<1>14. \A u \in Threads : u \in Pending' <=> u \in Pending /\ u # t
  BY <1>11, <1>12
<1>15. Pending' = Pending \ {t}
  BY <1>13, <1>14
<1> QED
  BY <1>2, <1>4, <1>6, <1>7, <1>8, <1>9, <1>10, <1>15 DEF n

\* A script of t requires a module.
LEMMA PushStep ==
  ASSUME IInv, NEW t \in Threads, Scripting(t), NEW g \in Frames,
         stack' = [stack EXCEPT ![t] = Append(@, g)], Len(stack[t]) < MaxDepth,
         g.h = NoHandle, g.pc = "lock", g.way # "program", Started,
         UNCHANGED <<mod, evals>>
  PROVE  /\ stack' \in [Threads -> Seq(Frames)]
         /\ \A u \in Threads : Len(stack'[u]) <= MaxDepth
         /\ StackShape' /\ FramesInv' /\ OneOwner'
         /\ \A u \in Threads : LockedIn(u)' = LockedIn(u)
         /\ Pending' = Pending \cup {t} /\ t \notin Pending
<1> DEFINE n == Len(stack[t])
<1>1. /\ stack \in [Threads -> Seq(Frames)] /\ n \in Nat
      /\ \A u \in Threads : Len(stack[u]) \in Nat
  BY LenProperties DEF IInv, TypeOK
<1>2. /\ stack' \in [Threads -> Seq(Frames)]
      /\ \A u \in Threads \ {t} : stack'[u] = stack[u]
      /\ \A u \in Threads : Len(stack'[u]) = IF u = t THEN n + 1 ELSE Len(stack[u])
      /\ \A u \in Threads : \A i \in 1..Len(stack'[u]) :
           stack'[u][i] = IF u = t /\ i = n + 1 THEN g ELSE stack[u][i]
  BY <1>1, PushFrames
<1>3. n # 0 => stack[t][n].pc = "run" /\ stack[t][n].h # NoHandle
  <2> SUFFICES ASSUME n # 0 PROVE stack[t][n].pc = "run" /\ stack[t][n].h # NoHandle
    OBVIOUS
  <2>1. stack[t] # <<>>
    BY EmptySeq
  <2>2. Top(t).pc = "run" /\ Top(t) = stack[t][n] /\ Top(t).h # NoHandle
    BY <2>1, TopInv DEF Scripting, At
  <2> QED
    BY <2>2
<1> HIDE DEF n
<1>4. \A u \in Threads : Len(stack'[u]) <= MaxDepth
  BY <1>1, <1>2, LoaderAssumption DEF IInv, TypeOK, n
<1>5. \A u \in Threads : \A i \in 1..Len(stack'[u]) :
        \/ u = t /\ i = n + 1 /\ i = Len(stack'[u])
        \/ /\ ~(u = t /\ i = n + 1) /\ i \in 1..Len(stack[u])
           /\ i < Len(stack'[u]) => \/ i < Len(stack[u])
                                    \/ u = t /\ i = n /\ n # 0
  BY <1>1, <1>2 DEF n
<1>6. StackShape'
  <2> SUFFICES ASSUME NEW u \in Threads, NEW i \in 1..Len(stack'[u])
               PROVE  /\ stack'[u][i].h = NoHandle <=> stack'[u][i].pc \in {"lock", "find"}
                      /\ i < Len(stack'[u]) => stack'[u][i].pc = "run"
                      /\ stack'[u][i].way = "program" =>
                           /\ u = Main /\ i = 1 /\ stack'[u][i].name = Program
                           /\ stack'[u][i].pc \notin {"lock", "find", "native"}
    BY DEF StackShape
  <2>1. CASE u = t /\ i = n + 1
    BY <1>1, <1>2, <2>1
  <2>2. CASE ~(u = t /\ i = n + 1)
    BY <1>2, <1>3, <1>5, <2>2 DEF IInv, StackShape
  <2> QED
    BY <2>1, <2>2
<1>7. FramesInv'
  <2> SUFFICES ASSUME NEW u \in Threads, NEW i \in 1..Len(stack'[u])
               PROVE  FrameInv(stack[u][i])' /\ ProgramFirst(stack[u][i])'
    BY DEF FramesInv
  <2>1. CASE u = t /\ i = n + 1
    BY <1>1, <1>2, <2>1 DEF FrameInv, ProgramFirst, Owner, Started
  <2>2. CASE ~(u = t /\ i = n + 1)
    <3>1. FrameInv(stack[u][i]) /\ ProgramFirst(stack[u][i])
      BY <1>5, <2>2 DEF IInv, FramesInv
    <3> QED
      BY <1>2, <2>2, <3>1 DEF FrameInv, ProgramFirst, Owner, Started
  <2> QED
    BY <2>1, <2>2
<1>8. OneOwner'
  <2>1. \A u \in Threads : \A i \in 1..Len(stack'[u]) :
          Owner(stack'[u][i]) => i \in 1..Len(stack[u]) /\ stack'[u][i] = stack[u][i]
    BY <1>2, <1>5 DEF Owner
  <2> QED
    BY <2>1 DEF IInv, OneOwner, Owner
<1>9. \A u \in Threads \ {t} : LockedIn(u)' = LockedIn(u)
  BY <1>2 DEF LockedIn
<1>10. LockedIn(t)' = LockedIn(t)
  BY <1>1, <1>2 DEF LockedIn, n
<1>11. \A u \in Threads : u # t => (u \in Pending' <=> u \in Pending)
  BY <1>2 DEF Pending, Top
<1>12. t \in Pending'
  <2>1. stack'[t] \in Seq(Frames) /\ Len(stack'[t]) = n + 1 /\ n + 1 # 0
    BY <1>1, <1>2
  <2>2. stack'[t] # <<>>
    BY <2>1, EmptySeq
  <2>3. Top(t)' = g
    BY <1>1, <1>2, <2>1 DEF Top
  <2> QED
    BY <2>2, <2>3 DEF Pending
<1>13. t \notin Pending
  <2> SUFFICES ASSUME stack[t] # <<>> PROVE Top(t).h # NoHandle
    BY DEF Pending
  <2>1. n # 0
    BY <1>1, EmptySeq DEF n
  <2> QED
    BY <1>3, <2>1 DEF Top, n
<1>14. Pending \subseteq Threads /\ Pending' \subseteq Threads
  BY DEF Pending
<1>15. \A u \in Threads : u \in Pending' <=> u \in Pending \/ u = t
  BY <1>11, <1>12
<1>16. Pending' = Pending \cup {t}
  BY <1>14, <1>15
<1> QED
  BY <1>2, <1>4, <1>6, <1>7, <1>8, <1>9, <1>10, <1>13, <1>16

\* A require ends, and gives back the lock if it has it.
LEMMA PopUnlock ==
  ASSUME IInv, NEW t \in Threads, stack[t] # <<>>, Pop(t), Unlocking(t), Top(t).pc # "lock",
         \A f \in Frames : Beside(t, f) => FrameInv(f)' /\ ProgramFirst(f)'
  PROVE  /\ stack' \in [Threads -> Seq(Frames)]
         /\ \A u \in Threads : Len(stack'[u]) <= MaxDepth
         /\ StackShape' /\ FramesInv' /\ OneOwner'
         /\ LockInv' /\ holder' \in Threads \cup {Nobody} /\ nesting' \in 0..MaxDepth
         /\ Pending' \subseteq Pending
<1>1. /\ stack' \in [Threads -> Seq(Frames)]
      /\ \A u \in Threads : Len(stack'[u]) <= MaxDepth
      /\ StackShape' /\ FramesInv' /\ OneOwner'
      /\ \A u \in Threads \ {t} : LockedIn(u)' = LockedIn(u)
      /\ LockedIn(t)' = LockedIn(t) \ {Len(stack[t])}
      /\ Pending' = Pending \ {t}
  BY PopStep
<1>2. Len(stack[t]) \in 1..Len(stack[t]) /\ Top(t) = stack[t][Len(stack[t])]
  BY TopInv
<1>3. LockInv' /\ holder' \in Threads \cup {Nobody} /\ nesting' \in 0..MaxDepth
  <2>1. CASE Top(t).way = "program"
    <3>1. Len(stack[t]) \notin LockedIn(t)
      BY <1>2, <2>1 DEF LockedIn
    <3>2. \A u \in Threads : LockedIn(u)' = LockedIn(u)
      BY <1>1, <3>1
    <3>3. UNCHANGED mutexVars
      BY <2>1 DEF Unlocking
    <3> QED
      BY <3>2, <3>3, LockKept DEF IInv
  <2>2. CASE Top(t).way # "program"
    <3>1. Len(stack[t]) \in LockedIn(t)
      BY <1>2, <2>2 DEF LockedIn
    <3>2. Unlock(t)
      BY <2>2 DEF Unlocking
    <3>3. TypeOK /\ LockInv
      BY DEF IInv
    <3> QED
      BY <1>1, <3>1, <3>2, <3>3, LockGiven
  <2> QED
    BY <2>1, <2>2
<1> QED
  BY <1>1, <1>3

-----------------------------------------------------------------------------
(* The handles that are left                                                 *)

\* The numbers that EnoughFresh compares are numbers.
LEMMA FiniteCounts ==
  /\ IsFiniteSet(Fresh) /\ Cardinality(Fresh) \in Nat
  /\ IsFiniteSet(Pending) /\ Cardinality(Pending) \in Nat
<1>1. Fresh \subseteq Handles /\ Pending \subseteq Threads
  BY DEF Fresh, Pending
<1>2. IsFiniteSet(Handles) /\ IsFiniteSet(Threads)
  BY LoaderAssumption
<1>3. IsFiniteSet(Fresh) /\ IsFiniteSet(Pending)
  BY <1>1, <1>2, FS_Subset
<1> QED
  BY <1>3, FS_CardinalityType

\* EnoughFresh depends on the fresh handles and the pending threads only.
LEMMA EnoughKept ==
  ASSUME IInv, Pending' \subseteq Pending, Fresh' = Fresh
  PROVE  EnoughFresh'
<1>1. /\ Cardinality(Fresh) \in Nat /\ Cardinality(Pending) \in Nat
      /\ Cardinality(Pending') \in Nat /\ Cardinality(Pending') <= Cardinality(Pending)
  BY FiniteCounts, FS_Subset, FS_CardinalityType
<1> QED
  BY <1>1 DEF IInv, EnoughFresh

\* A require that has no handle yet finds one.
LEMMA FreshThere ==
  ASSUME IInv, NEW t \in Pending
  PROVE  NewHandle \in Handles /\ mod[NewHandle].mem = "unused"
<1>1. Cardinality(Pending) # 0
  BY FiniteCounts, FS_EmptySet
<1>2. Cardinality(Fresh) # 0
  BY <1>1, FiniteCounts DEF IInv, EnoughFresh
<1>3. Fresh # {}
  BY <1>2, FS_EmptySet
<1>4. NewHandle \in Fresh
  BY <1>3 DEF NewHandle
<1> QED
  BY <1>4 DEF Fresh

\* One pending thread less leaves enough fresh handles.
LEMMA EnoughLess ==
  ASSUME IInv, NEW t \in Pending, NEW h \in Fresh, Pending' = Pending \ {t}, Fresh' = Fresh \ {h}
  PROVE  EnoughFresh'
<1>1. /\ Cardinality(Pending \ {t}) = Cardinality(Pending) - 1
      /\ Cardinality(Fresh \ {h}) = Cardinality(Fresh) - 1
  BY FiniteCounts, FS_RemoveElement
<1> QED
  BY <1>1, FiniteCounts DEF IInv, EnoughFresh

\* A call by a thread that was not pending, while a handle is spare.
LEMMA EnoughMore ==
  ASSUME IInv, NEW t, t \notin Pending, Cardinality(Pending) < Cardinality(Fresh),
         Pending' = Pending \cup {t}, Fresh' = Fresh
  PROVE  EnoughFresh'
<1>1. Cardinality(Pending \cup {t}) = Cardinality(Pending) + 1
  BY FiniteCounts, FS_AddElement
<1> QED
  BY <1>1, FiniteCounts DEF EnoughFresh

-----------------------------------------------------------------------------
(* What a step leaves as it was                                              *)

\* The invariants of a frame whose handle is not touched.
LEMMA BesideKept ==
  ASSUME IInv, NEW t \in Threads, NEW f \in Frames, Beside(t, f), Started' = Started,
         f.h # NoHandle => mod'[f.h] = mod[f.h] /\ evals'[f.h] = evals[f.h]
  PROVE  FrameInv(f)' /\ ProgramFirst(f)'
<1>1. FrameInv(f) /\ ProgramFirst(f)
  BY BesideInv
<1> QED
  BY <1>1 DEF FrameInv, ProgramFirst, Owner

\* The frames beside the top one of a thread are what they were.
LEMMA BesideSame ==
  ASSUME IInv, NEW t \in Threads, UNCHANGED <<mod, evals>>
  PROVE  /\ Started' = Started
         /\ \A f \in Frames : Beside(t, f) => FrameInv(f)' /\ ProgramFirst(f)'
<1>1. Started' = Started
  BY DEF Started
<1> QED
  BY <1>1, BesideKept

\* The handles, when none of them is touched.
LEMMA HandlesKept ==
  ASSUME IInv, UNCHANGED <<gcVars, evals>>,
         held' \subseteq Handles,
         \A h \in held' : h \in held \/ mod[h].mem # "unused",
         shutdown' = shutdown \/ (shutdown = "no" /\ shutdown' = "loop")
  PROVE  HandlesInv' /\ MemoInv' /\ Fresh' = Fresh
<1>1. mod' = mod /\ memo' = memo /\ unreachable' = unreachable /\ scope' = scope /\ evals' = evals
  BY DEF gcVars
<1>2. Fresh' = Fresh
  BY <1>1 DEF Fresh
<1>3. MemoInv'
  BY <1>1 DEF IInv, MemoInv, Alive
<1>4. HandlesInv'
  <2> SUFFICES ASSUME NEW h \in Handles PROVE HandleInv(h)'
    BY DEF HandlesInv
  <2>1. HandleInv(h)
    BY DEF IInv, HandlesInv
  <2> QED
    BY <1>1, <2>1 DEF HandleInv, Alive, Memoized
<1> QED
  BY <1>2, <1>3, <1>4

\* The handles, when a loader changes the flags, the parts or the count of one of them.
LEMMA HandleChanged ==
  ASSUME IInv, NEW h \in Handles, Alive(h), shutdown = "no", UNCHANGED endVars,
         UNCHANGED <<memo, unreachable, scope, held>>,
         mod' \in [Handles -> Records],
         \A k \in Handles \ {h} : mod'[k] = mod[k] /\ evals'[k] = evals[k],
         mod'[h].mem = mod[h].mem, mod'[h].name = mod[h].name,
         mod'[h].released = mod[h].released, mod'[h].refs = mod[h].refs,
         mod'[h].script => evals'[h] = 0,
         evals'[h] <= 1,
         evals'[h] = 1 => mod'[h].loaded,
         mod'[h].init = "done" /\ mod'[h].fini => mod'[h].loaded
  PROVE  HandlesInv' /\ MemoInv' /\ Fresh' = Fresh
<1>1. Fresh' = Fresh
  BY DEF Fresh
<1>2. shutdown' = "no"
  BY DEF endVars
<1>3. \A k \in Handles : Alive(k)' = Alive(k) /\ mod'[k].name = mod[k].name
  BY DEF Alive
<1>4. MemoInv'
  <2> SUFFICES ASSUME NEW n \in Names, memo[n] # NoHandle
               PROVE  Alive(memo[n])' /\ mod'[memo[n]].name = n
    BY DEF MemoInv, Alive
  <2>1. Alive(memo[n]) /\ mod[memo[n]].name = n /\ memo[n] \in Handles
    BY DEF IInv, MemoInv, TypeOK
  <2> QED
    BY <1>3, <2>1 DEF Alive
<1>5. HandlesInv'
  <2> SUFFICES ASSUME NEW k \in Handles PROVE HandleInv(k)'
    BY DEF HandlesInv
  <2>1. HandleInv(k)
    BY DEF IInv, HandlesInv
  <2>2. CASE k # h
    BY <1>2, <2>1, <2>2 DEF HandleInv, Alive, Memoized
  <2>3. CASE k = h
    BY <1>2, <2>1, <2>3 DEF HandleInv, Alive, Memoized
  <2> QED
    BY <2>2, <2>3
<1> QED
  BY <1>1, <1>4, <1>5

-----------------------------------------------------------------------------
(* A handle is released                                                      *)

\* markModuleUnused keeps all but what it clears.
LEMMA UnusedRecord ==
  ASSUME NEW m \in Records
  PROVE  /\ Unused(m) \in Records
         /\ [Unused(m) EXCEPT !.released = TRUE] \in Records
         /\ [Unused(m) EXCEPT !.released = TRUE, !.mem = "freed"] \in Records
         /\ \A r \in {Unused(m), [Unused(m) EXCEPT !.released = TRUE],
                      [Unused(m) EXCEPT !.released = TRUE, !.mem = "freed"]} :
              /\ r.name = m.name /\ r.init = m.init /\ r.script = m.script
              /\ ~r.loaded /\ ~r.refs
              /\ r.fini => m.fini /\ ~(m.loaded /\ m.refs)
         /\ Unused(m).mem = m.mem /\ Unused(m).released = m.released
         /\ [Unused(m) EXCEPT !.released = TRUE].mem = m.mem
         /\ [Unused(m) EXCEPT !.released = TRUE].released
         /\ [Unused(m) EXCEPT !.released = TRUE, !.mem = "freed"].mem = "freed"
         /\ [Unused(m) EXCEPT !.released = TRUE, !.mem = "freed"].released
<1> DEFINE a == Unused(m)
           b == [Unused(m) EXCEPT !.released = TRUE]
           c == [Unused(m) EXCEPT !.released = TRUE, !.mem = "freed"]
<1>1. a \in Records /\ b \in Records /\ c \in Records
  BY DEF Records, Unused
<1>2. /\ a.name = m.name /\ a.init = m.init /\ a.script = m.script /\ ~a.loaded /\ ~a.refs
      /\ a.fini => m.fini /\ ~(m.loaded /\ m.refs)
      /\ a.mem = m.mem /\ a.released = m.released
  BY DEF Records, Unused
<1>3. /\ b.name = m.name /\ b.init = m.init /\ b.script = m.script /\ ~b.loaded /\ ~b.refs
      /\ b.fini => m.fini /\ ~(m.loaded /\ m.refs)
      /\ b.mem = m.mem /\ b.released
  BY DEF Records, Unused
<1>4. /\ c.name = m.name /\ c.init = m.init /\ c.script = m.script /\ ~c.loaded /\ ~c.refs
      /\ c.fini => m.fini /\ ~(m.loaded /\ m.refs)
      /\ c.mem = "freed" /\ c.released
  BY DEF Records, Unused
<1> HIDE DEF a, b, c
<1>5. \A r \in {a, b, c} : /\ r.name = m.name /\ r.init = m.init /\ r.script = m.script
                           /\ ~r.loaded /\ ~r.refs
                           /\ r.fini => m.fini /\ ~(m.loaded /\ m.refs)
  BY <1>2, <1>3, <1>4
<1> QED
  BY <1>1, <1>2, <1>3, <1>4, <1>5 DEF a, b, c

\* What a require that fails does to its handle, and to the others.  M is what it
\* has made of the handles before it fails.
LEMMA ReleaseStep ==
  ASSUME IInv, NEW h \in Handles, Alive(h), shutdown = "no", UNCHANGED endVars,
         NEW M \in [Handles -> Records], \A k \in Handles \ {h} : M[k] = mod[k],
         M[h] = [mod[h] EXCEPT !.loaded = M[h].loaded],
         M[h].loaded \/ ~mod[h].loaded,
         Release(M, {h}), UNCHANGED <<scope, held, evals>>
  PROVE  /\ mod' \in [Handles -> Records] /\ memo' \in [Names -> Handles \cup {NoHandle}]
         /\ unreachable' \subseteq Handles
         /\ \A k \in Handles \ {h} : mod'[k] = mod[k]
         /\ mod'[h].mem = mod[h].mem /\ mod'[h].name = mod[h].name
         /\ HandlesInv' /\ MemoInv' /\ Fresh' = Fresh
<1> DEFINE r == [Unused(M[h]) EXCEPT !.released = TRUE]
<1>1. mod \in [Handles -> Records] /\ mod[h] \in Records /\ M[h] \in Records
  BY DEF IInv, TypeOK
<1>2. /\ M[h].mem = mod[h].mem /\ M[h].name = mod[h].name /\ M[h].init = mod[h].init
      /\ M[h].fini = mod[h].fini /\ M[h].script = mod[h].script /\ M[h].refs = mod[h].refs
      /\ M[h].released = mod[h].released
  BY <1>1 DEF Records
<1>3. ~M[h].released
  BY <1>2 DEF Alive
<1>4. {k \in {h} : ~M[k].released} = {h}
  BY <1>3
<1>5. /\ mod' = [k \in Handles |-> IF k = h THEN r ELSE M[k]]
      /\ memo' = [n \in Names |-> IF memo[n] = h THEN NoHandle ELSE memo[n]]
      /\ unreachable' = unreachable \cup {h}
  BY <1>4 DEF Release
<1>6. /\ r \in Records /\ r.name = mod[h].name /\ r.init = mod[h].init
      /\ r.script = mod[h].script /\ ~r.loaded /\ ~r.refs
      /\ r.fini => mod[h].fini /\ ~(M[h].loaded /\ mod[h].refs)
      /\ r.mem = mod[h].mem /\ r.released
  BY <1>1, <1>2, UnusedRecord
<1> HIDE DEF r
<1>7. /\ \A k \in Handles \ {h} : mod'[k] = mod[k]
      /\ mod'[h] = r
  BY <1>5
<1>8. /\ mod' \in [Handles -> Records] /\ memo' \in [Names -> Handles \cup {NoHandle}]
      /\ unreachable' \subseteq Handles
  BY <1>5, <1>6 DEF IInv, TypeOK
<1>9. Fresh' = Fresh
  BY <1>6, <1>7 DEF Fresh
<1>10. shutdown' = "no" /\ h # NoHandle
  BY LoaderAssumption DEF endVars
<1>11. MemoInv'
  <2> SUFFICES ASSUME NEW n \in Names, memo'[n] # NoHandle
               PROVE  /\ mod'[memo'[n]].mem = "allocated" /\ ~mod'[memo'[n]].released
                      /\ mod'[memo'[n]].name = n
    BY DEF MemoInv, Alive
  <2>1. memo'[n] = memo[n] /\ memo[n] # h /\ memo[n] # NoHandle
    BY <1>5
  <2>2. Alive(memo[n]) /\ mod[memo[n]].name = n /\ memo[n] \in Handles \ {h}
    BY <2>1 DEF IInv, MemoInv, TypeOK
  <2> QED
    BY <1>7, <2>1, <2>2 DEF Alive
<1>12. HandlesInv'
  <2> SUFFICES ASSUME NEW k \in Handles PROVE HandleInv(k)'
    BY DEF HandlesInv
  <2>1. HandleInv(k) /\ HandleInv(h)
    BY DEF IInv, HandlesInv
  <2>2. CASE k # h
    <3>1. mod[k].name \in Names
      BY <1>1 DEF Records
    <3>2. Memoized(k) <=> Memoized(k)'
      BY <1>5, <1>7, <1>10, <2>2, <3>1, LoaderAssumption DEF Memoized
    <3> QED
      BY <1>5, <1>7, <1>10, <2>1, <2>2, <3>2 DEF HandleInv, Alive
  <2>3. CASE k = h
    <3>1. mod'[h].init = "done" => ~mod'[h].fini
      BY <1>6, <1>7, <1>10, <2>1 DEF HandleInv, Alive
    <3>2. mod'[h].mem = "allocated" /\ mod'[h].released
      BY <1>6, <1>7 DEF Alive
    <3> QED
      BY <1>6, <1>7, <1>10, <2>1, <2>3, <3>1, <3>2 DEF HandleInv, Alive
  <2> QED
    BY <2>2, <2>3
<1> QED
  BY <1>6, <1>7, <1>8, <1>9, <1>11, <1>12

\* A require fails.
LEMMA FailStep ==
  ASSUME IInv, NEW t \in Threads, stack[t] # <<>>, NEW M \in [Handles -> Records],
         Top(t).pc \in {"native", "script", "mark", "run"},
         \A k \in Handles \ {Top(t).h} : M[k] = mod[k],
         M[Top(t).h] = [mod[Top(t).h] EXCEPT !.loaded = M[Top(t).h].loaded],
         M[Top(t).h].loaded \/ ~mod[Top(t).h].loaded,
         Fail(t, M), UNCHANGED <<evals, endVars, trap>>
  PROVE  IInv'
<1> DEFINE h == Top(t).h
<1>1. /\ FrameInv(Top(t)) /\ ProgramFirst(Top(t)) /\ Top(t) \in Frames /\ h # NoHandle
      /\ shutdown = "no"
  BY TopInv
<1>2. h \in Handles /\ Alive(h)
  BY <1>1 DEF Frames, FrameInv, Alive
<1>3. Release(M, {h}) /\ Unlocking(t) /\ Pop(t) /\ scope' = scope /\ held' = held
  BY DEF Fail
<1> HIDE DEF h
<1>4. /\ mod' \in [Handles -> Records] /\ memo' \in [Names -> Handles \cup {NoHandle}]
      /\ unreachable' \subseteq Handles
      /\ \A k \in Handles \ {h} : mod'[k] = mod[k]
      /\ mod'[h].mem = mod[h].mem /\ mod'[h].name = mod[h].name
      /\ HandlesInv' /\ MemoInv' /\ Fresh' = Fresh
  <2>1. /\ \A k \in Handles \ {h} : M[k] = mod[k]
        /\ M[h] = [mod[h] EXCEPT !.loaded = M[h].loaded]
        /\ M[h].loaded \/ ~mod[h].loaded
    BY DEF h
  <2>2. UNCHANGED endVars /\ UNCHANGED <<scope, held, evals>>
    BY <1>3
  <2> QED
    BY <1>1, <1>2, <1>3, <2>1, <2>2, ReleaseStep
<1>5. Started' = Started
  BY DEF Started
<1>6. ASSUME NEW f \in Frames, Beside(t, f)
      PROVE  FrameInv(f)' /\ ProgramFirst(f)'
  <2>1. CASE f.h # h
    <3>1. f.h # NoHandle => f.h \in Handles
      BY DEF Frames
    <3> QED
      BY <1>4, <1>5, <1>6, <2>1, <3>1, BesideKept
  <2>2. CASE f.h = h
    <3>1. Top(t).pc = "run"
      BY <1>6, <2>2, OnlyUser DEF h
    <3>2. f.pc = "return" /\ f.way # "program" /\ f.name = Program
      BY <1>6, <2>2, <3>1, RunningUser DEF h
    <3>3. FrameInv(f) /\ ProgramFirst(f)
      BY <1>6, BesideInv
    <3> QED
      BY <1>2, <1>4, <1>5, <2>2, <3>2, <3>3 DEF FrameInv, ProgramFirst, Owner
  <2> QED
    BY <2>1, <2>2
<1>7. /\ stack' \in [Threads -> Seq(Frames)]
      /\ \A u \in Threads : Len(stack'[u]) <= MaxDepth
      /\ StackShape' /\ FramesInv' /\ OneOwner'
      /\ LockInv' /\ holder' \in Threads \cup {Nobody} /\ nesting' \in 0..MaxDepth
      /\ Pending' \subseteq Pending
  BY <1>3, <1>6, PopUnlock
<1>8. EnoughFresh'
  BY <1>4, <1>7, EnoughKept
<1>9. ShutdownAlone'
  BY <1>1 DEF ShutdownAlone, endVars
<1>10. TypeOK'
  BY <1>3, <1>4, <1>7 DEF IInv, TypeOK, endVars
<1> QED
  BY <1>4, <1>7, <1>8, <1>9, <1>10 DEF IInv

-----------------------------------------------------------------------------
(* Every step keeps the invariant                                            *)

\* The initial state has the inductive invariant.
LEMMA InitIInv == Init => IInv
<1> SUFFICES ASSUME Init PROVE IInv
  OBVIOUS
<1>1. \A t \in Threads : stack[t] = <<>> /\ Len(stack[t]) = 0 /\ 1..Len(stack[t]) = {}
  <2>1. \A t \in Threads : stack[t] = <<>>
    BY DEF Init
  <2>2. Len(<<>>) = 0
    BY EmptySeq
  <2>3. 1..0 = {}
    OBVIOUS
  <2> QED
    BY <2>1, <2>2, <2>3
<1>2. stack \in [Threads -> Seq(Frames)]
  BY DEF Init
<1>3. TypeOK
  BY <1>1, <1>2, LoaderAssumption, FS_CardinalityType
  DEF Init, MutexInit, TypeOK, Blank, Records
<1>4. LockInv
  BY <1>1, NobodyAssumption DEF Init, MutexInit, LockInv, LockedIn
<1>5. StackShape /\ FramesInv /\ OneOwner /\ ShutdownAlone
  BY <1>1 DEF StackShape, FramesInv, OneOwner, ShutdownAlone
<1>6. HandlesInv
  BY LoaderAssumption DEF Init, HandlesInv, HandleInv, Alive, Memoized, Blank
<1>7. MemoInv
  BY DEF Init, MemoInv
<1>8. EnoughFresh
  <2>1. Pending = {}
    BY <1>1 DEF Pending
  <2>2. Cardinality(Pending) = 0
    BY <2>1, FS_EmptySet
  <2> QED
    BY <2>2, FiniteCounts DEF EnoughFresh
<1> QED
  BY <1>3, <1>4, <1>5, <1>6, <1>7, <1>8 DEF IInv

\* Each of the actions keeps it, beginning with the call of require.
LEMMA RequireKeeps ==
  ASSUME IInv, NEW t \in Threads, NEW c \in Calls, Require(t, c[1], c[2])
  PROVE  IInv'
<1> DEFINE g == [name |-> c[1], way |-> c[2], h |-> NoHandle, pc |-> "lock"]
<1>1. c[1] \in Names /\ c[2] \in {"path", "absolute"}
  BY LoaderAssumption
<1>2. /\ g \in Frames /\ g.h = NoHandle /\ g.pc = "lock" /\ g.way # "program"
  BY <1>1 DEF Frames
<1>3. /\ stack' = [stack EXCEPT ![t] = Append(@, g)] /\ Started /\ Scripting(t)
      /\ Len(stack[t]) < MaxDepth /\ Cardinality(Pending) < Cardinality(Fresh)
      /\ shutdown = "no" /\ UNCHANGED <<mutexVars, gcVars, held, evals, endVars, trap>>
  BY DEF Require
<1>4. UNCHANGED <<mod, evals>>
  BY <1>3 DEF gcVars
<1> HIDE DEF g
<1>5. /\ stack' \in [Threads -> Seq(Frames)]
      /\ \A u \in Threads : Len(stack'[u]) <= MaxDepth
      /\ StackShape' /\ FramesInv' /\ OneOwner'
      /\ \A u \in Threads : LockedIn(u)' = LockedIn(u)
      /\ Pending' = Pending \cup {t} /\ t \notin Pending
  BY <1>2, <1>3, <1>4, PushStep
<1>6. HandlesInv' /\ MemoInv' /\ Fresh' = Fresh
  BY <1>3, HandlesKept DEF IInv, TypeOK, endVars
<1>7. LockInv' /\ holder' \in Threads \cup {Nobody} /\ nesting' \in 0..MaxDepth
  BY <1>3, <1>5, LockKept DEF IInv
<1>8. EnoughFresh'
  BY <1>3, <1>5, <1>6, EnoughMore
<1>9. TypeOK' /\ ShutdownAlone'
  BY <1>3, <1>5, <1>7 DEF IInv, TypeOK, ShutdownAlone, gcVars, endVars
<1> QED
  BY <1>5, <1>6, <1>7, <1>8, <1>9 DEF IInv

\* A require moves on, and touches no handle.
LEMMA MoveKeeps ==
  ASSUME IInv, NEW t \in Threads, stack[t] # <<>>, NEW g \in Frames, Set(t, g),
         g.way = Top(t).way, g.name = Top(t).name,
         g.h = NoHandle <=> g.pc \in {"lock", "find"},
         g.way = "program" => g.pc \notin {"lock", "find", "native"},
         FrameInv(g), ProgramFirst(g),
         Owner(g) => Owner(Top(t)) /\ g.h = Top(t).h,
         g.pc # "lock",
         \/ Top(t).pc # "lock" /\ UNCHANGED mutexVars
         \/ Top(t).pc = "lock" /\ Lock(t),
         g.h = NoHandle => Top(t).h = NoHandle,
         UNCHANGED <<gcVars, held, evals, endVars, trap>>
  PROVE  IInv'
<1>1. mod' = mod /\ evals' = evals
  BY DEF gcVars
<1>2. FrameInv(g)' /\ ProgramFirst(g)'
  BY <1>1 DEF FrameInv, ProgramFirst, Owner, Started
<1>3. \A f \in Frames : Beside(t, f) => FrameInv(f)' /\ ProgramFirst(f)'
  BY <1>1, BesideSame
<1>4. /\ stack' \in [Threads -> Seq(Frames)]
      /\ \A u \in Threads : Len(stack'[u]) <= MaxDepth
      /\ StackShape' /\ FramesInv' /\ OneOwner'
      /\ (g.pc = "lock" <=> Top(t).pc = "lock") =>
           \A u \in Threads : LockedIn(u)' = LockedIn(u)
      /\ (g.pc # "lock" /\ Top(t).pc = "lock") =>
           /\ Len(stack[t]) \notin LockedIn(t)
           /\ LockedIn(t)' = LockedIn(t) \cup {Len(stack[t])}
           /\ \A u \in Threads \ {t} : LockedIn(u)' = LockedIn(u)
      /\ (g.h = NoHandle <=> Top(t).h = NoHandle) => Pending' = Pending
      /\ (g.h # NoHandle /\ Top(t).h = NoHandle) => Pending' = Pending \ {t}
  BY <1>2, <1>3, SetStep
<1>5. LockInv' /\ holder' \in Threads \cup {Nobody} /\ nesting' \in 0..MaxDepth
  <2>1. CASE Top(t).pc # "lock"
    BY <1>4, <2>1, LockKept DEF IInv
  <2>2. CASE Top(t).pc = "lock"
    <3>1. TypeOK /\ LockInv /\ Lock(t)
      BY <2>2 DEF IInv
    <3> QED
      BY <1>4, <2>2, <3>1, LockTaken
  <2> QED
    BY <2>1, <2>2
<1>6. HandlesInv' /\ MemoInv' /\ Fresh' = Fresh
  BY HandlesKept DEF IInv, TypeOK, endVars
<1>7. EnoughFresh'
  <2>1. Pending' \subseteq Pending
    BY <1>4
  <2> QED
    BY <1>6, <2>1, EnoughKept
<1>8. TypeOK' /\ ShutdownAlone'
  <2>1. shutdown = "no"
    BY TopInv
  <2> QED
    BY <1>4, <1>5, <2>1 DEF IInv, TypeOK, ShutdownAlone, gcVars, endVars
<1> QED
  BY <1>4, <1>5, <1>6, <1>7, <1>8 DEF IInv

\* A require moves on, and changes the handle that it is loading or initialising.
LEMMA ChangeKeeps ==
  ASSUME IInv, NEW t \in Threads, stack[t] # <<>>, NEW g \in Frames, Set(t, g),
         Top(t).pc \in {"native", "script", "mark", "init"},
         g.way = Top(t).way, g.name = Top(t).name, g.h = Top(t).h,
         g.pc \in {"script", "mark", "init", "run", "return"},
         UNCHANGED <<mutexVars, memo, unreachable, scope, held, endVars, trap>>,
         mod' \in [Handles -> Records], evals' \in [Handles -> Nat],
         \A k \in Handles \ {g.h} : mod'[k] = mod[k] /\ evals'[k] = evals[k],
         mod'[g.h].mem = mod[g.h].mem, mod'[g.h].name = mod[g.h].name,
         mod'[g.h].released = mod[g.h].released, mod'[g.h].refs = mod[g.h].refs,
         mod'[g.h].script => evals'[g.h] = 0,
         evals'[g.h] <= 1,
         evals'[g.h] = 1 => mod'[g.h].loaded,
         mod'[g.h].init = "done" /\ mod'[g.h].fini => mod'[g.h].loaded,
         FrameInv(g)', ProgramFirst(g)', Started => Started'
  PROVE  IInv'
<1>1. /\ FrameInv(Top(t)) /\ ProgramFirst(Top(t)) /\ Top(t) \in Frames
      /\ Top(t).h # NoHandle /\ shutdown = "no"
  BY TopInv
<1>2. g.h \in Handles /\ Alive(g.h)
  BY <1>1 DEF Frames, FrameInv, Alive
<1>3. ASSUME NEW f \in Frames, Beside(t, f)
      PROVE  FrameInv(f)' /\ ProgramFirst(f)' /\ f.h # g.h
  <2>1. f.h # g.h
    BY <1>3, OnlyUser
  <2>2. /\ FrameInv(f) /\ ProgramFirst(f)
        /\ f.way = "program" => f.pc # "lock"
        /\ f.h # NoHandle => f.h \in Handles
    BY <1>3, BesideInv DEF Frames
  <2>3. f.pc = "lock" \/ Owner(f)
    BY <1>3, Alone DEF Owner
  <2>4. FrameInv(f)'
    BY <2>1, <2>2 DEF FrameInv, Owner
  <2>5. ProgramFirst(f)'
    BY <2>2, <2>3 DEF ProgramFirst, Owner
  <2> QED
    BY <2>1, <2>4, <2>5
<1>4. /\ stack' \in [Threads -> Seq(Frames)]
      /\ \A u \in Threads : Len(stack'[u]) <= MaxDepth
      /\ StackShape' /\ FramesInv' /\ OneOwner'
      /\ \A u \in Threads : LockedIn(u)' = LockedIn(u)
      /\ Pending' = Pending
  <2>1. /\ g.h = NoHandle <=> g.pc \in {"lock", "find"}
        /\ g.way = "program" => g.pc \notin {"lock", "find", "native"}
        /\ g.pc = "lock" <=> Top(t).pc = "lock"
        /\ g.h = NoHandle <=> Top(t).h = NoHandle
        /\ \A f \in Frames : Beside(t, f) /\ Owner(f) => f.h # g.h
    BY <1>1, <1>3
  <2> QED
    BY <1>3, <2>1, SetStep
<1>5. HandlesInv' /\ MemoInv' /\ Fresh' = Fresh
  BY <1>1, <1>2, HandleChanged
<1>6. LockInv' /\ holder' \in Threads \cup {Nobody} /\ nesting' \in 0..MaxDepth
  BY <1>4, LockKept DEF IInv
<1>7. EnoughFresh'
  BY <1>4, <1>5, EnoughKept
<1>8. TypeOK' /\ ShutdownAlone'
  BY <1>1, <1>4, <1>6 DEF IInv, TypeOK, ShutdownAlone, endVars
<1> QED
  BY <1>4, <1>5, <1>6, <1>7, <1>8 DEF IInv

\* The frame that a step leaves behind.
LEMMA GotoFrame ==
  ASSUME NEW t \in Threads, Top(t) \in Frames,
         NEW l \in {"lock", "find", "native", "script", "mark", "init", "run", "return"},
         Goto(t, l)
  PROVE  \E g \in Frames : /\ Set(t, g)
                           /\ g.way = Top(t).way /\ g.name = Top(t).name
                           /\ g.pc = l /\ g.h = Top(t).h
<1> DEFINE g == [Top(t) EXCEPT !.pc = l]
<1>1. /\ g \in Frames /\ g.way = Top(t).way /\ g.name = Top(t).name
      /\ g.pc = l /\ g.h = Top(t).h
  BY DEF Frames
<1>2. Set(t, g)
  BY DEF Goto
<1> HIDE DEF g
<1> QED
  BY <1>1, <1>2

\* The lock is taken.
LEMMA RequireLockKeeps ==
  ASSUME IInv, NEW t \in Threads, RequireLock(t)
  PROVE  IInv'
<1>1. /\ stack[t] # <<>> /\ Top(t).pc = "lock" /\ Lock(t) /\ Goto(t, "find")
      /\ UNCHANGED <<gcVars, held, evals, endVars, trap>>
  BY DEF RequireLock, At
<1>2. /\ Top(t) \in Frames /\ ProgramFirst(Top(t))
      /\ Top(t).h = NoHandle /\ Top(t).way # "program"
  BY <1>1, TopInv
<1>3. PICK g \in Frames : /\ Set(t, g) /\ g.way = Top(t).way /\ g.name = Top(t).name
                          /\ g.pc = "find" /\ g.h = NoHandle
  BY <1>1, <1>2, GotoFrame
<1>4. FrameInv(g) /\ ProgramFirst(g) /\ ~Owner(g)
  BY <1>2, <1>3 DEF FrameInv, ProgramFirst, Owner
<1> QED
  BY <1>1, <1>2, <1>3, <1>4, MoveKeeps

\* What FirstLoader may be.
LEMMA FirstLoaderIs == \A P : FirstLoader(P) \in {"native", "script"}
  BY DEF FirstLoader

\* The module is in the memo.
LEMMA FindMemoizedKeeps ==
  ASSUME IInv, NEW t \in Threads, FindMemoized(t)
  PROVE  IInv'
<1> DEFINE h == memo[Top(t).name]
           l == IF mod[h].loaded THEN "return" ELSE FirstLoader(Parts[Top(t).name])
           g == [Top(t) EXCEPT !.h = h, !.pc = l]
<1>1. /\ stack[t] # <<>> /\ Top(t).pc = "find" /\ h # NoHandle /\ Set(t, g)
      /\ UNCHANGED <<mutexVars, gcVars, held, evals, endVars, trap>>
  BY DEF FindMemoized, At
<1>2. /\ Top(t) \in Frames /\ ProgramFirst(Top(t))
      /\ Top(t).h = NoHandle /\ Top(t).way # "program"
  BY <1>1, TopInv
<1>3. Top(t).name \in Names
  BY <1>2 DEF Frames
<1>4. h \in Handles /\ Alive(h) /\ mod[h].name = Top(t).name
  BY <1>1, <1>3 DEF IInv, TypeOK, MemoInv
<1>5. l \in {"return", "native", "script"} /\ (l # "return" => ~mod[h].loaded)
  BY FirstLoaderIs
<1> HIDE DEF h, l
<1>6. /\ g \in Frames /\ g.way = Top(t).way /\ g.name = Top(t).name
      /\ g.pc = l /\ g.h = h
  <2>1. Top(t) \in Frames /\ h \in Handles /\ l \in {"native", "script", "return"}
    BY <1>2, <1>4, <1>5
  <2> QED
    BY <2>1 DEF g, Frames
<1> HIDE DEF g
<1>7. FrameInv(g) /\ ProgramFirst(g) /\ ~Owner(g)
  BY <1>2, <1>4, <1>5, <1>6 DEF FrameInv, ProgramFirst, Owner, Alive
<1> QED
  BY <1>1, <1>2, <1>4, <1>5, <1>6, <1>7, MoveKeeps

\* A require ends, and touches no handle.
LEMMA EndKeeps ==
  ASSUME IInv, NEW t \in Threads, stack[t] # <<>>, Pop(t), Unlocking(t), Top(t).pc # "lock",
         UNCHANGED <<gcVars, evals, endVars, trap>>,
         held' = held \/ (Top(t).h # NoHandle /\ held' = held \cup {Top(t).h})
  PROVE  IInv'
<1>1. mod' = mod /\ evals' = evals
  BY DEF gcVars
<1>2. \A f \in Frames : Beside(t, f) => FrameInv(f)' /\ ProgramFirst(f)'
  BY <1>1, BesideSame
<1>3. /\ stack' \in [Threads -> Seq(Frames)]
      /\ \A u \in Threads : Len(stack'[u]) <= MaxDepth
      /\ StackShape' /\ FramesInv' /\ OneOwner'
      /\ LockInv' /\ holder' \in Threads \cup {Nobody} /\ nesting' \in 0..MaxDepth
      /\ Pending' \subseteq Pending
  BY <1>2, PopUnlock
<1>4. FrameInv(Top(t)) /\ Top(t) \in Frames /\ shutdown = "no"
  BY TopInv
<1>5. held' \subseteq Handles /\ \A h \in held' : h \in held \/ mod[h].mem # "unused"
  BY <1>4 DEF FrameInv, Frames, IInv, TypeOK
<1>6. HandlesInv' /\ MemoInv' /\ Fresh' = Fresh
  BY <1>5, HandlesKept DEF endVars
<1>7. EnoughFresh'
  BY <1>3, <1>6, EnoughKept
<1>8. TypeOK' /\ ShutdownAlone'
  BY <1>3, <1>4, <1>5 DEF IInv, TypeOK, ShutdownAlone, gcVars, endVars
<1> QED
  BY <1>3, <1>6, <1>7, <1>8 DEF IInv

\* No file is found.
LEMMA NotFoundKeeps ==
  ASSUME IInv, NEW t \in Threads, NotFound(t)
  PROVE  IInv'
<1>1. stack[t] # <<>> /\ Top(t).pc = "find" /\ Pop(t) /\ Unlock(t)
  BY DEF NotFound, At
<1>2. Top(t).way # "program"
  BY <1>1, TopInv
<1> QED
  BY <1>1, <1>2, EndKeeps DEF NotFound, Unlocking

\* An absolute name that was found is not found again: the lock is given back.
LEMMA LoseAbsoluteKeeps ==
  ASSUME IInv, NEW t \in Threads, LoseAbsolute(t)
  PROVE  IInv'
<1>1. stack[t] # <<>> /\ Top(t).pc = "mark" /\ Pop(t) /\ Unlocking(t)
  BY DEF LoseAbsolute, At, Unlocking
<1> QED
  BY <1>1, EndKeeps DEF LoseAbsolute

\* require returns.
LEMMA ReturnKeeps ==
  ASSUME IInv, NEW t \in Threads, Return(t)
  PROVE  IInv'
<1>1. stack[t] # <<>> /\ Top(t).pc = "return" /\ Pop(t) /\ Unlocking(t)
  BY DEF Return, At
<1>2. Top(t).h # NoHandle
  BY <1>1, TopInv
<1> QED
  BY <1>1, <1>2, EndKeeps DEF Return

\* The body of a script comes to its end.
LEMMA ScriptEndsKeeps ==
  ASSUME IInv, NEW t \in Threads, ScriptEnds(t)
  PROVE  IInv'
<1>1. stack[t] # <<>> /\ Top(t).pc = "run" /\ UNCHANGED <<evals, endVars, trap>>
  BY DEF ScriptEnds, At
<1>2. /\ Top(t) \in Frames /\ FrameInv(Top(t)) /\ ProgramFirst(Top(t)) /\ Top(t).h # NoHandle
      /\ mod \in [Handles -> Records]
  BY <1>1, TopInv DEF IInv, TypeOK
<1>3. CASE Fail(t, mod)
  <2>1. Top(t).h \in Handles /\ mod[Top(t).h] \in Records
    BY <1>2 DEF Frames
  <2>2. mod[Top(t).h] = [mod[Top(t).h] EXCEPT !.loaded = mod[Top(t).h].loaded]
    BY <2>1 DEF Records
  <2> QED
    BY <1>1, <1>2, <1>3, <2>2, FailStep
<1>4. CASE Goto(t, "return") /\ UNCHANGED <<mutexVars, gcVars, held>>
  <2>1. PICK g \in Frames : /\ Set(t, g) /\ g.way = Top(t).way /\ g.name = Top(t).name
                            /\ g.pc = "return" /\ g.h = Top(t).h
    BY <1>2, <1>4, GotoFrame
  <2>2. FrameInv(g) /\ ProgramFirst(g)
    BY <1>1, <1>2, <2>1 DEF FrameInv, ProgramFirst, Owner
  <2>3. Owner(Top(t))
    BY <1>1 DEF Owner
  <2>4. UNCHANGED <<gcVars, held, evals, endVars, trap>> /\ UNCHANGED mutexVars
    BY <1>1, <1>4
  <2> QED
    BY <1>1, <1>2, <2>1, <2>2, <2>3, <2>4, MoveKeeps
<1> QED
  BY <1>3, <1>4 DEF ScriptEnds

\* A step of no require: the frames and the lock are as they were.
LEMMA StillStep ==
  ASSUME IInv, UNCHANGED <<mutexVars, stack, evals>>, Fresh' = Fresh,
         \A t \in Threads : \A i \in 1..Len(stack[t]) :
           stack[t][i].h # NoHandle => mod'[stack[t][i].h] = mod[stack[t][i].h]
  PROVE  /\ LockInv' /\ StackShape' /\ FramesInv' /\ OneOwner' /\ EnoughFresh'
         /\ holder' = holder /\ nesting' = nesting
<1>1. holder' = holder /\ nesting' = nesting /\ stack' = stack /\ evals' = evals
  BY DEF mutexVars
<1>2. \A t \in Threads : LockedIn(t)' = LockedIn(t)
  BY <1>1 DEF LockedIn
<1>3. LockInv'
  BY <1>1, <1>2 DEF IInv, LockInv
<1>4. StackShape'
  BY <1>1 DEF IInv, StackShape
<1>5. OneOwner'
  BY <1>1 DEF IInv, OneOwner, Owner
<1>6. Started' = Started
  BY <1>1 DEF Started
<1>7. FramesInv'
  <2> SUFFICES ASSUME NEW t \in Threads, NEW i \in 1..Len(stack[t])
               PROVE  FrameInv(stack[t][i])' /\ ProgramFirst(stack[t][i])'
    BY <1>1 DEF FramesInv
  <2>1. FrameInv(stack[t][i]) /\ ProgramFirst(stack[t][i])
    BY DEF IInv, FramesInv
  <2> QED
    BY <1>1, <1>6, <2>1 DEF FrameInv, ProgramFirst, Owner
<1>8. Pending' = Pending
  BY <1>1 DEF Pending, Top
<1>9. EnoughFresh'
  BY <1>8, EnoughKept
<1> QED
  BY <1>1, <1>3, <1>4, <1>5, <1>7, <1>9

\* A script exports something.
LEMMA PublishKeeps ==
  ASSUME IInv, NEW t \in Threads, Publish(t)
  PROVE  IInv'
<1>1. /\ stack[t] # <<>> /\ Top(t).pc = "run" /\ held' = held \cup {Top(t).h}
      /\ UNCHANGED <<mutexVars, gcVars, stack, evals, endVars, trap>>
  BY DEF Publish, At
<1>2. Top(t) \in Frames /\ FrameInv(Top(t)) /\ Top(t).h # NoHandle
  BY <1>1, TopInv
<1>3. held' \subseteq Handles /\ \A h \in held' : h \in held \/ mod[h].mem # "unused"
  BY <1>1, <1>2 DEF FrameInv, Frames, IInv, TypeOK
<1>4. HandlesInv' /\ MemoInv' /\ Fresh' = Fresh
  BY <1>1, <1>3, HandlesKept DEF endVars
<1>5. LockInv' /\ StackShape' /\ FramesInv' /\ OneOwner' /\ EnoughFresh'
  BY <1>1, <1>4, StillStep DEF gcVars
<1>6. TypeOK' /\ ShutdownAlone'
  BY <1>1, <1>3 DEF IInv, TypeOK, ShutdownAlone, mutexVars, gcVars, endVars
<1> QED
  BY <1>4, <1>5, <1>6 DEF IInv

\* A script lets go of a module.
LEMMA ForgetKeeps ==
  ASSUME IInv, NEW h \in Handles, Forget(h)
  PROVE  IInv'
<1>1. /\ held' = held \ {h}
      /\ UNCHANGED <<mutexVars, gcVars, stack, evals, endVars, trap>>
  BY DEF Forget
<1>2. held' \subseteq Handles /\ \A k \in held' : k \in held
  BY <1>1 DEF IInv, TypeOK
<1>3. HandlesInv' /\ MemoInv' /\ Fresh' = Fresh
  BY <1>1, <1>2, HandlesKept DEF endVars
<1>4. LockInv' /\ StackShape' /\ FramesInv' /\ OneOwner' /\ EnoughFresh'
  BY <1>1, <1>3, StillStep DEF gcVars
<1>5. TypeOK' /\ ShutdownAlone'
  BY <1>1, <1>2 DEF IInv, TypeOK, ShutdownAlone, mutexVars, gcVars, endVars
<1> QED
  BY <1>3, <1>4, <1>5 DEF IInv

\* A handle is allocated for a name that is not memoized.
LEMMA AllocateStep ==
  ASSUME IInv, NEW h \in Handles, mod[h].mem = "unused", NEW n \in Names, memo[n] = NoHandle,
         shutdown = "no", UNCHANGED endVars, UNCHANGED <<unreachable, evals>>,
         mod' = [mod EXCEPT ![h] = Acquired(n)],
         memo' = [memo EXCEPT ![n] = h],
         scope' = [scope EXCEPT ![h] = "live"],
         held' = held \/ held' = held \cup {h}
  PROVE  /\ mod' \in [Handles -> Records] /\ memo' \in [Names -> Handles \cup {NoHandle}]
         /\ scope' \in [Handles -> {"none", "live", "final"}] /\ held' \subseteq Handles
         /\ \A k \in Handles \ {h} : mod'[k] = mod[k]
         /\ mod'[h] = Acquired(n)
         /\ HandlesInv' /\ MemoInv' /\ Fresh' = Fresh \ {h}
<1> DEFINE r == Acquired(n)
<1>1. /\ r \in Records /\ r.mem = "allocated" /\ r.name = n /\ ~r.loaded /\ r.init = "none"
      /\ ~r.fini /\ ~r.script /\ r.refs /\ ~r.released
  BY LoaderAssumption DEF Acquired, Blank, Records
<1> HIDE DEF r
<1>2. mod' = [mod EXCEPT ![h] = r]
  BY DEF r
<1>3. /\ mod \in [Handles -> Records] /\ memo \in [Names -> Handles \cup {NoHandle}]
      /\ evals \in [Handles -> Nat]
  BY DEF IInv, TypeOK
<1>4. /\ mod' \in [Handles -> Records] /\ memo' \in [Names -> Handles \cup {NoHandle}]
      /\ scope' \in [Handles -> {"none", "live", "final"}] /\ held' \subseteq Handles
  BY <1>1, <1>2 DEF IInv, TypeOK
<1>5. /\ \A k \in Handles \ {h} : mod'[k] = mod[k] /\ scope'[k] = scope[k]
      /\ mod'[h] = r
      /\ memo'[n] = h /\ \A m \in Names \ {n} : memo'[m] = memo[m]
  BY <1>2, <1>3 DEF IInv, TypeOK
<1>6. Fresh' = Fresh \ {h}
  BY <1>1, <1>5 DEF Fresh
<1>7. HandleInv(h) /\ shutdown' = "no"
  BY DEF IInv, HandlesInv, endVars
<1>8. MemoInv'
  <2> SUFFICES ASSUME NEW m \in Names, memo'[m] # NoHandle
               PROVE  /\ mod'[memo'[m]].mem = "allocated" /\ ~mod'[memo'[m]].released
                      /\ mod'[memo'[m]].name = m
    BY DEF MemoInv, Alive
  <2>1. CASE m = n
    BY <1>1, <1>5, <2>1
  <2>2. CASE m # n
    <3>1. memo'[m] = memo[m] /\ memo[m] \in Handles
      BY <1>3, <1>5, <2>2
    <3>2. Alive(memo[m]) /\ mod[memo[m]].name = m
      BY <3>1 DEF IInv, MemoInv
    <3>3. memo[m] # h
      BY <3>2 DEF Alive
    <3> QED
      BY <1>5, <3>1, <3>2, <3>3 DEF Alive
  <2> QED
    BY <2>1, <2>2
<1>9. HandlesInv'
  <2> SUFFICES ASSUME NEW k \in Handles PROVE HandleInv(k)'
    BY DEF HandlesInv
  <2>1. HandleInv(k) /\ mod[k].name \in Names
    BY <1>3 DEF IInv, HandlesInv, Records
  <2>2. CASE k # h
    <3>1. Memoized(k) => Memoized(k)'
      <4> SUFFICES ASSUME Memoized(k) PROVE memo'[mod'[k].name] = k
        BY DEF Memoized
      <4>1. mod'[k].name = mod[k].name /\ memo[mod[k].name] = k
        BY <1>5, <2>2 DEF Memoized
      <4>2. mod[k].name # n
        BY <4>1, LoaderAssumption
      <4> QED
        BY <1>5, <2>1, <4>1, <4>2
    <3>2. Alive(k)' = Alive(k) /\ mod'[k] = mod[k] /\ scope'[k] = scope[k] /\ evals'[k] = evals[k]
      BY <1>5, <2>2 DEF Alive
    <3> QED
      BY <1>7, <2>1, <2>2, <3>1, <3>2 DEF HandleInv
  <2>3. CASE k = h
    <3>1. Memoized(k)'
      BY <1>1, <1>5, <2>3 DEF Memoized
    <3>2. evals'[h] = 0 /\ h \notin unreachable'
      BY <1>7 DEF HandleInv
    <3> QED
      BY <1>1, <1>5, <1>7, <2>3, <3>1, <3>2 DEF HandleInv, Alive
  <2> QED
    BY <2>2, <2>3
<1> QED
  BY <1>4, <1>5, <1>6, <1>8, <1>9 DEF r

\* A handle is made for a module that is not in the memo.
LEMMA FindNewKeeps ==
  ASSUME IInv, NEW t \in Threads, FindNew(t)
  PROVE  IInv'
<1> DEFINE n == Top(t).name
           h == NewHandle
           l == FirstLoader(Parts[Top(t).name])
           found == [Top(t) EXCEPT !.h = h, !.pc = l]
<1>1. /\ stack[t] # <<>> /\ Top(t).pc = "find" /\ memo[n] = NoHandle /\ Set(t, found)
      /\ mod' = [mod EXCEPT ![h] = Acquired(n)]
      /\ memo' = [memo EXCEPT ![n] = h]
      /\ scope' = [scope EXCEPT ![h] = "live"]
      /\ UNCHANGED <<mutexVars, unreachable, held, evals, endVars, trap>>
  BY DEF FindNew, At
<1>2. /\ Top(t) \in Frames /\ ProgramFirst(Top(t))
      /\ Top(t).h = NoHandle /\ Top(t).way # "program" /\ shutdown = "no"
  BY <1>1, TopInv
<1>3. t \in Pending /\ n \in Names
  BY <1>1, <1>2 DEF Pending, Frames
<1>4. h \in Handles /\ mod[h].mem = "unused" /\ h # NoHandle
  BY <1>3, FreshThere, LoaderAssumption
<1>5. l \in {"native", "script"}
  BY FirstLoaderIs
<1> HIDE DEF h, l
<1>6. PICK g \in Frames : /\ g = found /\ g.way = Top(t).way /\ g.name = n
                          /\ g.pc = l /\ g.h = h
  <2>1. /\ found \in Frames /\ found.way = Top(t).way /\ found.name = n
        /\ found.pc = l /\ found.h = h
    BY <1>2, <1>4, <1>5 DEF Frames
  <2> HIDE DEF found, n
  <2> QED
    BY <2>1
<1> HIDE DEF found, n
<1>7. /\ mod' \in [Handles -> Records] /\ memo' \in [Names -> Handles \cup {NoHandle}]
      /\ scope' \in [Handles -> {"none", "live", "final"}]
      /\ \A k \in Handles \ {h} : mod'[k] = mod[k]
      /\ mod'[h] = Acquired(n)
      /\ HandlesInv' /\ MemoInv' /\ Fresh' = Fresh \ {h}
  <2>1. UNCHANGED endVars /\ UNCHANGED <<unreachable, evals>> /\ held' = held
    BY <1>1
  <2> QED
    BY <1>1, <1>2, <1>3, <1>4, <2>1, AllocateStep
<1>8. Started' = Started
  BY <1>1 DEF Started
<1>9. FrameInv(g)' /\ ProgramFirst(g)' /\ ~Owner(g)
  BY <1>2, <1>5, <1>6, <1>7, <1>8 DEF FrameInv, ProgramFirst, Owner, Acquired, Blank
<1>10. ASSUME NEW f \in Frames, Beside(t, f) PROVE FrameInv(f)' /\ ProgramFirst(f)'
  <2>1. f.h # NoHandle => f.h \in Handles /\ mod[f.h].mem = "allocated"
    BY <1>10, BesideInv DEF FrameInv, Frames
  <2>2. f.h # NoHandle => mod'[f.h] = mod[f.h] /\ evals'[f.h] = evals[f.h]
    BY <1>1, <1>4, <1>7, <2>1
  <2> QED
    BY <1>8, <1>10, <2>2, BesideKept
<1>11. /\ g.h = NoHandle <=> g.pc \in {"lock", "find"}
       /\ g.way = "program" => g.pc \notin {"lock", "find", "native"}
  BY <1>2, <1>4, <1>5, <1>6
<1>12. /\ stack' \in [Threads -> Seq(Frames)]
       /\ \A u \in Threads : Len(stack'[u]) <= MaxDepth
       /\ StackShape' /\ FramesInv' /\ OneOwner'
       /\ (g.pc = "lock" <=> Top(t).pc = "lock") =>
            \A u \in Threads : LockedIn(u)' = LockedIn(u)
       /\ (g.h # NoHandle /\ Top(t).h = NoHandle) => Pending' = Pending \ {t}
  <2>1. g.way = Top(t).way /\ g.name = Top(t).name
    BY <1>6 DEF n
  <2>2. stack[t] # <<>> /\ Set(t, g) /\ g \in Frames
    BY <1>1, <1>6
  <2> QED
    BY <1>9, <1>10, <1>11, <2>1, <2>2, SetStep
<1>13. LockInv' /\ holder' \in Threads \cup {Nobody} /\ nesting' \in 0..MaxDepth
  BY <1>1, <1>5, <1>6, <1>12, LockKept DEF IInv
<1>14. EnoughFresh'
  BY <1>2, <1>3, <1>4, <1>6, <1>7, <1>12, EnoughLess DEF Fresh
<1>15. TypeOK' /\ ShutdownAlone'
  BY <1>1, <1>2, <1>7, <1>12, <1>13 DEF IInv, TypeOK, ShutdownAlone, endVars
<1> QED
  BY <1>7, <1>12, <1>13, <1>14, <1>15 DEF IInv

\* What a require that loads or initialises a module knows.
LEMMA LoadingTop ==
  ASSUME IInv, NEW t \in Threads, stack[t] # <<>>,
         Top(t).pc \in {"native", "script", "mark", "init"}
  PROVE  /\ Top(t) \in Frames /\ ProgramFirst(Top(t)) /\ Top(t).h \in Handles
         /\ Top(t).h # NoHandle
         /\ Alive(Top(t).h) /\ mod[Top(t).h] \in Records /\ mod[Top(t).h].name = Top(t).name
         /\ Top(t).pc # "init" <=> ~mod[Top(t).h].loaded
         /\ evals[Top(t).h] = 0
         /\ Top(t).way = "program" => Top(t).pc # "native"
         /\ Top(t).way = "program" /\ Top(t).pc \in {"mark", "init"} => mod[Top(t).h].script
         /\ ~(mod[Top(t).h].init = "done" /\ mod[Top(t).h].fini) \/ Top(t).pc = "init"
<1>1. /\ Top(t) \in Frames /\ ProgramFirst(Top(t)) /\ FrameInv(Top(t)) /\ Top(t).h # NoHandle
      /\ Top(t).way = "program" => Top(t).pc # "native"
      /\ shutdown = "no"
  BY TopInv
<1>2. Top(t).h \in Handles
  BY <1>1 DEF Frames
<1>3. HandleInv(Top(t).h) /\ mod[Top(t).h] \in Records /\ evals[Top(t).h] \in Nat
  BY <1>2 DEF IInv, HandlesInv, TypeOK
<1> QED
  BY <1>1, <1>2, <1>3 DEF FrameInv, Alive, HandleInv

\* What is done to one handle.
LEMMA ModChange ==
  ASSUME mod \in [Handles -> Records], NEW h \in Handles, NEW r \in Records,
         mod' = [mod EXCEPT ![h] = r]
  PROVE  /\ mod' \in [Handles -> Records] /\ mod'[h] = r
         /\ \A k \in Handles \ {h} : mod'[k] = mod[k]
  OBVIOUS

\* The shared object is loaded.
LEMMA LoadNativeKeeps ==
  ASSUME IInv, NEW t \in Threads, LoadNative(t)
  PROVE  IInv'
<1>1. stack[t] # <<>> /\ Top(t).pc = "native" /\ UNCHANGED <<evals, endVars, trap>>
  BY DEF LoadNative, At
<1>2. /\ Top(t) \in Frames /\ ProgramFirst(Top(t)) /\ Top(t).h \in Handles
      /\ Top(t).h # NoHandle
      /\ Alive(Top(t).h) /\ mod[Top(t).h] \in Records /\ mod[Top(t).h].name = Top(t).name
      /\ ~mod[Top(t).h].loaded /\ evals[Top(t).h] = 0 /\ Top(t).way # "program"
      /\ mod \in [Handles -> Records] /\ evals \in [Handles -> Nat]
  BY <1>1, LoadingTop DEF IInv, TypeOK
<1>3. CASE Fail(t, mod)
  <2>1. mod[Top(t).h] = [mod[Top(t).h] EXCEPT !.loaded = mod[Top(t).h].loaded]
    BY <1>2 DEF Records
  <2> QED
    BY <1>1, <1>2, <1>3, <2>1, FailStep
<1>4. ASSUME NEW init \in {"none", "ready"}, NEW fini \in BOOLEAN,
             mod' = [mod EXCEPT ![Top(t).h].init = init, ![Top(t).h].fini = fini],
             Goto(t, IF "script" \in Parts[Top(t).name] THEN "script" ELSE "mark"),
             UNCHANGED <<mutexVars, memo, unreachable, scope, held>>
      PROVE  IInv'
  <2> DEFINE l == IF "script" \in Parts[Top(t).name] THEN "script" ELSE "mark"
             r == [mod[Top(t).h] EXCEPT !.init = init, !.fini = fini]
  <2>1. l \in {"script", "mark"}
    OBVIOUS
  <2>2. Goto(t, l)
    BY <1>4
  <2> HIDE DEF l
  <2>3. PICK g \in Frames : /\ Set(t, g) /\ g.way = Top(t).way /\ g.name = Top(t).name
                            /\ g.pc = l /\ g.h = Top(t).h
    BY <1>2, <2>1, <2>2, GotoFrame
  <2>4. /\ r \in Records /\ r.mem = mod[g.h].mem /\ r.name = mod[g.h].name
        /\ r.released = mod[g.h].released /\ r.refs = mod[g.h].refs
        /\ r.script = mod[g.h].script /\ r.loaded = mod[g.h].loaded /\ r.init = init
    BY <1>2, <2>3 DEF Records
  <2>5. mod' = [mod EXCEPT ![g.h] = r]
    BY <1>2, <1>4, <2>3
  <2> HIDE DEF r
  <2>6. /\ mod' \in [Handles -> Records] /\ mod'[g.h] = r
        /\ \A k \in Handles \ {g.h} : mod'[k] = mod[k] /\ evals'[k] = evals[k]
        /\ evals'[g.h] = 0 /\ evals' \in [Handles -> Nat]
    BY <1>1, <1>2, <2>3, <2>4, <2>5, ModChange
  <2>7. FrameInv(g)'
    BY <1>2, <2>1, <2>3, <2>4, <2>6 DEF FrameInv, Owner, Alive
  <2>8. ProgramFirst(g)' /\ (Started => Started')
    BY <1>1, <1>2, <2>3 DEF ProgramFirst, Started
  <2>9. g.pc \in {"script", "mark"} /\ mod'[g.h].init # "done" /\ ~mod'[g.h].loaded
    BY <1>2, <2>1, <2>3, <2>4, <2>6
  <2>10. UNCHANGED <<mutexVars, memo, unreachable, scope, held, endVars, trap>>
    BY <1>1, <1>4
  <2> QED
    BY <1>1, <2>3, <2>4, <2>6, <2>7, <2>8, <2>9, <2>10, ChangeKeeps
<1> QED
  BY <1>3, <1>4 DEF LoadNative

\* The script is compiled.
LEMMA LoadScriptKeeps ==
  ASSUME IInv, NEW t \in Threads, LoadScript(t)
  PROVE  IInv'
<1>1. stack[t] # <<>> /\ Top(t).pc = "script" /\ UNCHANGED <<evals, endVars, trap>>
  BY DEF LoadScript, At
<1>2. /\ Top(t) \in Frames /\ ProgramFirst(Top(t)) /\ Top(t).h \in Handles
      /\ Top(t).h # NoHandle
      /\ Alive(Top(t).h) /\ mod[Top(t).h] \in Records /\ mod[Top(t).h].name = Top(t).name
      /\ ~mod[Top(t).h].loaded /\ evals[Top(t).h] = 0
      /\ ~(mod[Top(t).h].init = "done" /\ mod[Top(t).h].fini)
      /\ mod \in [Handles -> Records] /\ evals \in [Handles -> Nat]
  BY <1>1, LoadingTop DEF IInv, TypeOK
<1>3. CASE Fail(t, mod)
  <2>1. mod[Top(t).h] = [mod[Top(t).h] EXCEPT !.loaded = mod[Top(t).h].loaded]
    BY <1>2 DEF Records
  <2> QED
    BY <1>1, <1>2, <1>3, <2>1, FailStep
<1>4. CASE /\ mod' = [mod EXCEPT ![Top(t).h].script = TRUE] /\ Goto(t, "mark")
           /\ UNCHANGED <<mutexVars, memo, unreachable, scope, held>>
  <2> DEFINE r == [mod[Top(t).h] EXCEPT !.script = TRUE]
  <2>1. Goto(t, "mark")
    BY <1>4
  <2>2. PICK g \in Frames : /\ Set(t, g) /\ g.way = Top(t).way /\ g.name = Top(t).name
                            /\ g.pc = "mark" /\ g.h = Top(t).h
    BY <1>2, <2>1, GotoFrame
  <2>3. /\ r \in Records /\ r.mem = mod[g.h].mem /\ r.name = mod[g.h].name
        /\ r.released = mod[g.h].released /\ r.refs = mod[g.h].refs
        /\ r.script /\ r.loaded = mod[g.h].loaded
        /\ r.init = mod[g.h].init /\ r.fini = mod[g.h].fini
    BY <1>2, <2>2 DEF Records
  <2>4. mod' = [mod EXCEPT ![g.h] = r]
    BY <1>2, <1>4, <2>2
  <2> HIDE DEF r
  <2>5. /\ mod' \in [Handles -> Records] /\ mod'[g.h] = r
        /\ \A k \in Handles \ {g.h} : mod'[k] = mod[k] /\ evals'[k] = evals[k]
        /\ evals'[g.h] = 0 /\ evals' \in [Handles -> Nat]
    BY <1>1, <1>2, <2>2, <2>3, <2>4, ModChange
  <2>6. FrameInv(g)'
    BY <1>2, <2>2, <2>3, <2>5 DEF FrameInv, Owner, Alive
  <2>7. ProgramFirst(g)' /\ (Started => Started')
    BY <1>1, <1>2, <2>2 DEF ProgramFirst, Started, Owner
  <2>8. ~(mod'[g.h].init = "done" /\ mod'[g.h].fini) /\ evals'[g.h] <= 1
    BY <1>2, <2>2, <2>3, <2>5
  <2>9. UNCHANGED <<mutexVars, memo, unreachable, scope, held, endVars, trap>>
    BY <1>1, <1>4
  <2> QED
    BY <1>1, <2>2, <2>3, <2>5, <2>6, <2>7, <2>8, <2>9, ChangeKeeps
<1> QED
  BY <1>3, <1>4 DEF LoadScript

\* The module is marked as loaded.
LEMMA MarkKeeps ==
  ASSUME IInv, NEW t \in Threads, Mark(t)
  PROVE  IInv'
<1> DEFINE M == [mod EXCEPT ![Top(t).h].loaded = TRUE]
           r == [mod[Top(t).h] EXCEPT !.loaded = TRUE]
<1>1. stack[t] # <<>> /\ Top(t).pc = "mark" /\ UNCHANGED <<evals, endVars, trap>>
  BY DEF Mark, At
<1>2. /\ Top(t) \in Frames /\ ProgramFirst(Top(t)) /\ Top(t).h \in Handles
      /\ Top(t).h # NoHandle
      /\ Alive(Top(t).h) /\ mod[Top(t).h] \in Records /\ mod[Top(t).h].name = Top(t).name
      /\ ~mod[Top(t).h].loaded /\ evals[Top(t).h] = 0
      /\ Top(t).way = "program" => mod[Top(t).h].script
      /\ mod \in [Handles -> Records] /\ evals \in [Handles -> Nat]
  BY <1>1, LoadingTop DEF IInv, TypeOK
<1>3. M = [mod EXCEPT ![Top(t).h] = r] /\ r \in Records
  BY <1>2 DEF Records
<1>4. CASE Fail(t, M)
  <2>1. M \in [Handles -> Records] /\ \A k \in Handles \ {Top(t).h} : M[k] = mod[k]
    BY <1>2, <1>3
  <2>2. M[Top(t).h] = r /\ r.loaded
    BY <1>2, <1>3 DEF Records
  <2>3. M[Top(t).h] = [mod[Top(t).h] EXCEPT !.loaded = M[Top(t).h].loaded]
    BY <1>2, <2>2 DEF Records
  <2>4. M[Top(t).h].loaded
    BY <2>2
  <2> HIDE DEF M
  <2> QED
    BY <1>1, <1>4, <2>1, <2>3, <2>4, FailStep
<1>5. CASE /\ mod' = M /\ Goto(t, "init")
           /\ UNCHANGED <<mutexVars, memo, unreachable, scope, held>>
  <2>1. Goto(t, "init")
    BY <1>5
  <2>2. PICK g \in Frames : /\ Set(t, g) /\ g.way = Top(t).way /\ g.name = Top(t).name
                            /\ g.pc = "init" /\ g.h = Top(t).h
    BY <1>2, <2>1, GotoFrame
  <2>3. /\ r \in Records /\ r.mem = mod[g.h].mem /\ r.name = mod[g.h].name
        /\ r.released = mod[g.h].released /\ r.refs = mod[g.h].refs
        /\ r.script = mod[g.h].script /\ r.loaded
    BY <1>2, <2>2 DEF Records
  <2>4. mod' = [mod EXCEPT ![g.h] = r]
    BY <1>3, <1>5, <2>2
  <2> HIDE DEF r, M
  <2>5. /\ mod' \in [Handles -> Records] /\ mod'[g.h] = r
        /\ \A k \in Handles \ {g.h} : mod'[k] = mod[k] /\ evals'[k] = evals[k]
        /\ evals'[g.h] = 0 /\ evals' \in [Handles -> Nat]
    BY <1>1, <1>2, <2>2, <2>3, <2>4, ModChange
  <2>6. FrameInv(g)'
    BY <1>2, <2>2, <2>3, <2>5 DEF FrameInv, Owner, Alive
  <2>7. ProgramFirst(g)' /\ (Started => Started')
    BY <1>1, <1>2, <2>2 DEF ProgramFirst, Started, Owner
  <2> QED
    BY <1>1, <1>2, <1>5, <2>1, <2>2, <2>3, <2>5, <2>6, <2>7, ChangeKeeps
<1> QED
  BY <1>4, <1>5 DEF Mark

\* The initializer of the shared object has been called.
LEMMA InitializeKeeps ==
  ASSUME IInv, NEW t \in Threads, Initialize(t)
  PROVE  IInv'
<1> DEFINE m == mod[Top(t).h]
           l == IF m.script THEN "run" ELSE "return"
           r == [m EXCEPT !.init = IF @ = "ready" THEN "done" ELSE @, !.script = FALSE]
           c == IF m.script THEN evals[Top(t).h] + 1 ELSE evals[Top(t).h]
<1>1. /\ stack[t] # <<>> /\ Top(t).pc = "init"
      /\ mod' = [mod EXCEPT ![Top(t).h].init = IF @ = "ready" THEN "done" ELSE @,
                            ![Top(t).h].script = FALSE]
      /\ evals' = [evals EXCEPT ![Top(t).h] = c]
      /\ Goto(t, l)
      /\ UNCHANGED <<mutexVars, memo, unreachable, scope, held, endVars, trap>>
  BY DEF Initialize, At
<1>2. /\ Top(t) \in Frames /\ ProgramFirst(Top(t)) /\ Top(t).h \in Handles
      /\ Top(t).h # NoHandle
      /\ Alive(Top(t).h) /\ m \in Records /\ m.name = Top(t).name
      /\ m.loaded /\ evals[Top(t).h] = 0
      /\ Top(t).way = "program" => m.script
      /\ mod \in [Handles -> Records] /\ evals \in [Handles -> Nat]
  BY <1>1, LoadingTop DEF IInv, TypeOK
<1>3. /\ l \in {"run", "return"}
      /\ l = "run" <=> m.script
      /\ c = IF l = "run" THEN 1 ELSE 0
  BY <1>1, <1>2
<1>4. PICK g \in Frames : /\ Set(t, g) /\ g.way = Top(t).way /\ g.name = Top(t).name
                          /\ g.pc = l /\ g.h = Top(t).h
  <2> HIDE DEF l
  <2> QED
    BY <1>1, <1>2, <1>3, GotoFrame
<1>5. /\ r \in Records /\ r.mem = m.mem /\ r.name = m.name
      /\ r.released = m.released /\ r.refs = m.refs
      /\ ~r.script /\ r.loaded
  BY <1>2 DEF Records
<1>6. mod' = [mod EXCEPT ![g.h] = r] /\ m = mod[g.h]
  BY <1>1, <1>2, <1>4
<1>7. g.way = "program" => l = "run"
  BY <1>2, <1>3, <1>4
<1> HIDE DEF m, l, r, c
<1>8. /\ mod' \in [Handles -> Records] /\ mod'[g.h] = r
      /\ \A k \in Handles \ {g.h} : mod'[k] = mod[k]
  BY <1>2, <1>4, <1>5, <1>6, ModChange
<1>9. /\ evals' \in [Handles -> Nat] /\ evals'[g.h] = c /\ c <= 1
      /\ \A k \in Handles \ {g.h} : evals'[k] = evals[k]
  BY <1>1, <1>2, <1>3, <1>4
<1>10. FrameInv(g)'
  BY <1>2, <1>3, <1>4, <1>5, <1>6, <1>7, <1>8, <1>9 DEF FrameInv, Owner, Alive
<1>11. Started => Started'
  BY <1>2, <1>4, <1>9 DEF Started
<1>12. ProgramFirst(g)'
  BY <1>2, <1>4, <1>7, <1>11 DEF ProgramFirst, Owner
<1> QED
  BY <1>1, <1>3, <1>4, <1>5, <1>6, <1>8, <1>9, <1>10, <1>11, <1>12, ChangeKeeps

-----------------------------------------------------------------------------
(* The program, the collector and the shutdown                               *)

\* Nothing has happened while no handle is allocated.
LEMMA NothingYet ==
  ASSUME IInv, Fresh = Handles
  PROVE  /\ ~Started /\ \A t \in Threads : stack[t] = <<>> /\ Len(stack[t]) = 0
         /\ \A n \in Names : memo[n] = NoHandle
<1>1. \A h \in Handles : mod[h].mem = "unused" /\ evals[h] = 0
  <2> SUFFICES ASSUME NEW h \in Handles PROVE mod[h].mem = "unused" /\ evals[h] = 0
    OBVIOUS
  <2>1. h \in Fresh /\ HandleInv(h)
    BY DEF IInv, HandlesInv
  <2> QED
    BY <2>1 DEF Fresh, HandleInv
<1>2. ~Started
  BY <1>1 DEF Started
<1>3. \A n \in Names : memo[n] = NoHandle
  BY <1>1 DEF IInv, TypeOK, MemoInv, Alive
<1>4. ASSUME NEW t \in Threads PROVE stack[t] = <<>> /\ Len(stack[t]) = 0
  <2>1. stack[t] = <<>>
    <3> SUFFICES ASSUME stack[t] # <<>> PROVE FALSE
      OBVIOUS
    <3>1. /\ Top(t) \in Frames /\ FrameInv(Top(t)) /\ ProgramFirst(Top(t))
          /\ Top(t).way = "program" => Top(t).h # NoHandle
      BY TopInv
    <3>2. Top(t).way = "program"
      BY <1>2, <3>1 DEF ProgramFirst
    <3> QED
      BY <1>1, <3>1, <3>2 DEF FrameInv, Frames
  <2> QED
    BY <2>1, EmptySeq
<1> QED
  BY <1>2, <1>3, <1>4

\* The program module is run.
LEMMA RunProgramKeeps ==
  ASSUME IInv, RunProgram
  PROVE  IInv'
<1> DEFINE h == NewHandle
<1>1. /\ Fresh = Handles /\ shutdown = "no"
      /\ mod' = [mod EXCEPT ![h] = Acquired(Program)]
      /\ memo' = [memo EXCEPT ![Program] = h]
      /\ scope' = [scope EXCEPT ![h] = "live"]
      /\ held' = held \cup {h}
      /\ stack' = [stack EXCEPT ![Main] =
           <<[name |-> Program, way |-> "program", h |-> h, pc |-> "script"]>>]
      /\ UNCHANGED <<mutexVars, unreachable, evals, endVars, trap>>
  BY DEF RunProgram
<1>2. h \in Handles /\ mod[h].mem = "unused" /\ h # NoHandle
  <2>1. h \in Fresh
    BY <1>1, LoaderAssumption DEF NewHandle
  <2> QED
    BY <2>1, LoaderAssumption DEF Fresh
<1>3. /\ ~Started /\ \A t \in Threads : stack[t] = <<>> /\ Len(stack[t]) = 0
      /\ memo[Program] = NoHandle
  BY <1>1, NothingYet, LoaderAssumption
<1>4. PICK g \in Frames : /\ stack' = [stack EXCEPT ![Main] = <<g>>]
                          /\ g.way = "program" /\ g.name = Program /\ g.pc = "script" /\ g.h = h
  <2> DEFINE f == [name |-> Program, way |-> "program", h |-> h, pc |-> "script"]
  <2>1. f \in Frames /\ f.way = "program" /\ f.name = Program /\ f.pc = "script" /\ f.h = h
    BY <1>2, LoaderAssumption DEF Frames
  <2>2. stack' = [stack EXCEPT ![Main] = <<f>>]
    BY <1>1
  <2> HIDE DEF f, h
  <2> QED
    BY <2>1, <2>2
<1> HIDE DEF h
<1>5. /\ mod' \in [Handles -> Records] /\ memo' \in [Names -> Handles \cup {NoHandle}]
      /\ scope' \in [Handles -> {"none", "live", "final"}] /\ held' \subseteq Handles
      /\ mod'[h] = Acquired(Program)
      /\ HandlesInv' /\ MemoInv' /\ Fresh' = Fresh \ {h}
  <2>1. Program \in Names /\ UNCHANGED endVars /\ UNCHANGED <<unreachable, evals>>
    BY <1>1, LoaderAssumption
  <2> QED
    BY <1>1, <1>2, <1>3, <2>1, AllocateStep
<1>6. Started' = FALSE
  BY <1>1, <1>3 DEF Started
<1>7. /\ Main \in Threads /\ <<g>> \in Seq(Frames) /\ Len(<<g>>) = 1 /\ <<g>>[1] = g /\ <<g>> # <<>>
      /\ stack \in [Threads -> Seq(Frames)]
  BY LoaderAssumption DEF IInv, TypeOK
<1>8. /\ stack' \in [Threads -> Seq(Frames)]
      /\ stack'[Main] = <<g>> /\ Len(stack'[Main]) = 1 /\ stack'[Main][1] = g
      /\ \A t \in Threads \ {Main} : stack'[t] = <<>> /\ Len(stack'[t]) = 0
  BY <1>3, <1>4, <1>7
<1>9. FrameInv(g)' /\ ProgramFirst(g)' /\ ~Owner(g)
  BY <1>4, <1>5, <1>6 DEF FrameInv, ProgramFirst, Owner, Acquired, Blank
<1>10. \A t \in Threads : \A i \in 1..Len(stack'[t]) : t = Main /\ i = 1 /\ stack'[t][i] = g
  <2> SUFFICES ASSUME NEW t \in Threads, NEW i \in 1..Len(stack'[t])
               PROVE  t = Main /\ i = 1 /\ stack'[t][i] = g
    OBVIOUS
  <2>1. t = Main
    BY <1>8
  <2> QED
    BY <1>8, <2>1
<1>11. StackShape'
  BY <1>2, <1>4, <1>8, <1>10 DEF StackShape
<1>12. FramesInv'
  <2>1. \A t \in Threads : \A i \in 1..Len(stack'[t]) :
          FrameInv(stack[t][i])' /\ ProgramFirst(stack[t][i])'
    BY <1>9, <1>10 DEF FrameInv, ProgramFirst, Owner, Started
  <2> QED
    BY <2>1 DEF FramesInv
<1>13. OneOwner'
  BY <1>10 DEF OneOwner
<1>14. \A t \in Threads : LockedIn(t)' = {} /\ LockedIn(t) = {}
  <2>1. \A t \in Threads : LockedIn(t)' = {}
    BY <1>4, <1>10 DEF LockedIn
  <2>2. ASSUME NEW t \in Threads PROVE LockedIn(t) = {}
    <3>1. Len(stack[t]) = 0
      BY <1>3
    <3> QED
      BY <3>1 DEF LockedIn
  <2> QED
    BY <2>1, <2>2
<1>15. LockInv' /\ holder' \in Threads \cup {Nobody} /\ nesting' \in 0..MaxDepth
  BY <1>1, <1>14, LockKept DEF IInv
<1>16. Pending' = {}
  <2>1. Top(Main)' = g
    BY <1>8 DEF Top
  <2> QED
    BY <1>2, <1>4, <1>8, <2>1 DEF Pending
<1>17. EnoughFresh'
  <2>1. Cardinality(Pending') = 0
    BY <1>16, FS_EmptySet
  <2>2. IsFiniteSet(Fresh') /\ Cardinality(Fresh') \in Nat
    BY <1>5, FiniteCounts, FS_Subset, FS_CardinalityType
  <2> QED
    BY <2>1, <2>2 DEF EnoughFresh
<1>18. ASSUME NEW t \in Threads PROVE Len(stack'[t]) <= MaxDepth
  <2>1. Len(stack'[t]) = 0 \/ Len(stack'[t]) = 1
    BY <1>8
  <2>2. 0 <= MaxDepth /\ 1 <= MaxDepth
    BY LoaderAssumption
  <2> QED
    BY <2>1, <2>2
<1>19. TypeOK' /\ ShutdownAlone'
  BY <1>1, <1>5, <1>8, <1>15, <1>18 DEF IInv, TypeOK, ShutdownAlone, endVars
<1> QED
  BY <1>5, <1>11, <1>12, <1>13, <1>15, <1>17, <1>19 DEF IInv

\* The handles that a collection destroys.
Destroyed == unreachable \cup {h \in Garbage : ~mod[h].released}

\* A collection that destroys no handle of a frame.
LEMMA CollectKeeps ==
  ASSUME IInv, Collect, UNCHANGED <<mutexVars, held, stack, evals, lastDangling, dangling>>,
         \A t \in Threads : \A i \in 1..Len(stack[t]) : stack[t][i].h \notin Destroyed,
         shutdown' = shutdown \/ (shutdown = "gc" /\ shutdown' = "test")
  PROVE  IInv'
<1> DEFINE D == Destroyed
           R(h) == [Unused(mod[h]) EXCEPT !.released = TRUE, !.mem = "freed"]
<1>1. /\ mod' = [h \in Handles |-> IF h \in D THEN R(h) ELSE mod[h]]
      /\ memo' = [n \in Names |-> IF memo[n] \in D THEN NoHandle ELSE memo[n]]
      /\ unreachable' = {}
      /\ scope' = [h \in Handles |-> IF h \in Garbage THEN "final" ELSE scope[h]]
      /\ trap' = IF \E h \in Garbage : mod[h].fini /\ mod[h].mem = "allocated"
                 THEN {"finiPending"} ELSE trap
  BY DEF Collect, Destroyed
<1>2. /\ mod \in [Handles -> Records] /\ memo \in [Names -> Handles \cup {NoHandle}]
      /\ \A h \in Handles : HandleInv(h)
  BY DEF IInv, TypeOK, HandlesInv
<1>3. D \subseteq Handles /\ \A h \in D : mod[h].mem # "unused"
  BY <1>2 DEF IInv, TypeOK, HandleInv, Destroyed, Garbage
<1>4. ASSUME NEW h \in Handles
      PROVE  /\ R(h) \in Records
             /\ R(h).name = mod[h].name /\ R(h).init = mod[h].init
             /\ R(h).script = mod[h].script
             /\ R(h).fini => mod[h].fini /\ ~(mod[h].loaded /\ mod[h].refs)
             /\ R(h).mem = "freed" /\ R(h).released
  BY <1>2, UnusedRecord
<1> HIDE DEF R, D
<1>5. \A h \in Handles : mod'[h] = IF h \in D THEN R(h) ELSE mod[h]
  BY <1>1
<1>6. /\ mod' \in [Handles -> Records] /\ memo' \in [Names -> Handles \cup {NoHandle}]
      /\ unreachable' \subseteq Handles /\ scope' \in [Handles -> {"none", "live", "final"}]
      /\ trap' \subseteq {"finiPending"}
  BY <1>1, <1>2, <1>4 DEF IInv, TypeOK
<1>7. Fresh' = Fresh
  BY <1>3, <1>4, <1>5 DEF Fresh
<1>8. MemoInv'
  <2> SUFFICES ASSUME NEW n \in Names, memo'[n] # NoHandle
               PROVE  /\ mod'[memo'[n]].mem = "allocated" /\ ~mod'[memo'[n]].released
                      /\ mod'[memo'[n]].name = n
    BY DEF MemoInv, Alive
  <2>1. memo'[n] = memo[n] /\ memo[n] \notin D /\ memo[n] \in Handles
    BY <1>1, <1>2
  <2>2. Alive(memo[n]) /\ mod[memo[n]].name = n
    BY <2>1, LoaderAssumption DEF IInv, MemoInv
  <2> QED
    BY <1>5, <2>1, <2>2 DEF Alive
<1>9. HandlesInv'
  <2> SUFFICES ASSUME NEW h \in Handles PROVE HandleInv(h)'
    BY DEF HandlesInv
  <2>1. HandleInv(h) /\ mod[h].name \in Names /\ h # NoHandle
    BY <1>2, LoaderAssumption DEF Records
  <2>2. mod'[h].name = mod[h].name /\ (Memoized(h)' <=> Memoized(h) /\ h \notin D)
    BY <1>1, <1>4, <1>5, <2>1 DEF Memoized
  <2>3. /\ shutdown' = "no" => shutdown = "no"
        /\ shutdown' = "done" => shutdown = "done"
    OBVIOUS
  <2>4. CASE h \notin D
    <3>1. mod'[h] = mod[h]
      BY <1>5, <2>4
    <3>2. mod[h].mem = "unused" => scope'[h] = "none"
      BY <1>1, <2>1 DEF HandleInv, Garbage
    <3>3. Alive(h)' = Alive(h)
      BY <3>1 DEF Alive
    <3> QED
      BY <1>1, <2>1, <2>2, <2>3, <2>4, <3>1, <3>2, <3>3 DEF HandleInv
  <2>5. CASE h \in D
    <3>1. mod'[h] = R(h)
      BY <1>5, <2>5
    <3>2. mod'[h].init = "done" => ~mod'[h].fini
      BY <1>4, <2>1, <3>1 DEF HandleInv
    <3>3. mod'[h].mem = "freed" /\ mod'[h].released /\ (mod'[h].script => mod[h].script)
      BY <1>4, <3>1
    <3> QED
      BY <1>1, <2>1, <2>2, <2>5, <3>2, <3>3 DEF HandleInv, Alive
  <2> QED
    BY <2>4, <2>5
<1>10. \A t \in Threads : \A i \in 1..Len(stack[t]) :
         stack[t][i].h # NoHandle => mod'[stack[t][i].h] = mod[stack[t][i].h]
  <2> SUFFICES ASSUME NEW t \in Threads, NEW i \in 1..Len(stack[t]), stack[t][i].h # NoHandle
               PROVE  mod'[stack[t][i].h] = mod[stack[t][i].h]
    OBVIOUS
  <2>1. stack[t] \in Seq(Frames)
    BY DEF IInv, TypeOK
  <2>2. stack[t][i] \in Frames
    BY <2>1, ElementOfSeq
  <2>3. stack[t][i].h \in Handles /\ stack[t][i].h \notin D
    BY <2>2 DEF Frames, D
  <2> QED
    BY <1>5, <2>3
<1>11. LockInv' /\ StackShape' /\ FramesInv' /\ OneOwner' /\ EnoughFresh'
  BY <1>7, <1>10, StillStep
<1>12. TypeOK' /\ ShutdownAlone'
  BY <1>6 DEF IInv, TypeOK, ShutdownAlone, mutexVars
<1> QED
  BY <1>8, <1>9, <1>11, <1>12 DEF IInv

\* No frame has a handle that a collection outside the steps of require destroys:
\* the memo keeps the modules that are being loaded alive, and the stacks the others.
LEMMA FramesSurvive ==
  ASSUME IInv, GCSafe, NEW t \in Threads, NEW i \in 1..Len(stack[t])
  PROVE  stack[t][i].h \notin Destroyed
<1> DEFINE f == stack[t][i]
<1>1. stack[t] \in Seq(Frames) /\ Len(stack[t]) \in Nat
  BY LenProperties DEF IInv, TypeOK
<1>2. f \in Frames /\ stack[t] # <<>> /\ DOMAIN stack[t] = 1..Len(stack[t])
  BY <1>1, ElementOfSeq, EmptySeq, LenProperties
<1>3. /\ FrameInv(f) /\ (f.h = NoHandle <=> f.pc \in {"lock", "find"})
      /\ i < Len(stack[t]) => f.pc = "run"
  BY DEF IInv, FramesInv, StackShape
<1>4. f.pc \notin {"mark", "return"}
  <2>1. CASE i = Len(stack[t])
    BY <1>2, <2>1 DEF GCSafe, At, Top
  <2>2. CASE i # Len(stack[t])
    BY <1>1, <1>3, <2>2
  <2> QED
    BY <2>1, <2>2
<1>5. CASE f.h = NoHandle
  BY <1>5, LoaderAssumption DEF Destroyed, Garbage, IInv, TypeOK
<1>6. CASE f.h # NoHandle
  <2>1. f.h \in Handles /\ Alive(f.h) /\ HandleInv(f.h) /\ shutdown = "no"
    BY <1>2, <1>3, <1>4, <1>6 DEF Frames, FrameInv, Alive, IInv, HandlesInv, ShutdownAlone
  <2>2. f.h \notin unreachable
    BY <2>1 DEF HandleInv, Alive
  <2>3. f.pc \in {"native", "script", "init", "run"}
    BY <1>2, <1>3, <1>4, <1>6 DEF Frames
  <2>4. CASE f.pc \in {"init", "run"}
    <3>1. MarkedByStack(f.h)
      BY <1>2, <2>4 DEF MarkedByStack
    <3> QED
      BY <2>2, <3>1 DEF Destroyed, Garbage
  <2>5. CASE f.pc \in {"native", "script"}
    <3>1. MarkedByMemo(f.h)
      BY <1>3, <1>6, <2>1, <2>5 DEF FrameInv, HandleInv, MarkedByMemo
    <3> QED
      BY <2>2, <3>1 DEF Destroyed, Garbage
  <2> QED
    BY <2>3, <2>4, <2>5
<1> QED
  BY <1>5, <1>6

\* A collection finalizes modules.
LEMMA GCKeeps ==
  ASSUME IInv, GC
  PROVE  IInv'
<1>1. GCSafe /\ Collect /\ UNCHANGED <<mutexVars, held, stack, evals, endVars>>
  BY DEF GC
<1>2. \A t \in Threads : \A i \in 1..Len(stack[t]) : stack[t][i].h \notin Destroyed
  BY <1>1, FramesSurvive
<1> QED
  BY <1>1, <1>2, CollectKeeps DEF endVars

\* The collection between two rounds of the shutdown.
LEMMA ShutdownGCKeeps ==
  ASSUME IInv, ShutdownGC
  PROVE  IInv'
<1>1. /\ shutdown = "gc" /\ shutdown' = "test" /\ Collect
      /\ UNCHANGED <<mutexVars, held, stack, evals, lastDangling, dangling>>
  BY DEF ShutdownGC
<1>2. ASSUME NEW t \in Threads, NEW i \in 1..Len(stack[t]) PROVE stack[t][i].h \notin Destroyed
  <2>1. stack[t] = <<>>
    BY <1>1 DEF IInv, ShutdownAlone
  <2>2. Len(stack[t]) = 0
    BY <2>1, EmptySeq
  <2> QED
    BY <2>2
<1> QED
  BY <1>1, <1>2, CollectKeeps

\* What the end of a realm makes of a record.
LEMMA UnloadedRecord ==
  ASSUME NEW m \in Records
  PROVE  /\ Unused([m EXCEPT !.fini = FALSE]) \in Records
         /\ Unused([m EXCEPT !.fini = FALSE]).name = m.name
         /\ Unused([m EXCEPT !.fini = FALSE]).mem = m.mem
         /\ Unused([m EXCEPT !.fini = FALSE]).released = m.released
         /\ Unused([m EXCEPT !.fini = FALSE]).script = m.script
         /\ ~Unused([m EXCEPT !.fini = FALSE]).fini
<1> DEFINE r == [m EXCEPT !.fini = FALSE]
<1>1. r \in Records
  BY DEF Records
<1>2. r.name = m.name /\ r.mem = m.mem /\ r.released = m.released /\ r.script = m.script
  BY DEF Records
<1>3. ~r.fini
  BY DEF Records
<1> HIDE DEF r
<1>4. PICK q \in Records : q = r
  BY <1>1
<1>5. Unused(q) \in Records /\ Unused(q).name = q.name /\ Unused(q).script = q.script
  BY DEF Records, Unused
<1>6. Unused(q).mem = q.mem /\ Unused(q).released = q.released
  BY DEF Records, Unused
<1>7. Unused(q).fini => q.fini
  BY DEF Records, Unused
<1>8. /\ Unused(q) \in Records /\ Unused(q).name = m.name /\ Unused(q).script = m.script
      /\ Unused(q).mem = m.mem /\ Unused(q).released = m.released /\ ~Unused(q).fini
  BY <1>2, <1>3, <1>4, <1>5, <1>6, <1>7
<1> QED
  BY <1>4, <1>8 DEF r

\* The modules of S are marked unused while the realm is shut down.
LEMMA UnloadStep ==
  ASSUME IInv, shutdown # "no", shutdown' # "no",
         NEW S \in SUBSET Handles, \A h \in S : Memoized(h),
         shutdown' = "done" => \A h \in Handles \ S : Memoized(h) => ~mod[h].fini,
         \A h \in Handles : mod'[h] = IF h \in S THEN Unused([mod[h] EXCEPT !.fini = FALSE])
                                                 ELSE mod[h],
         mod' = [h \in Handles |-> mod'[h]],
         UNCHANGED <<mutexVars, memo, unreachable, scope, held, stack, evals>>
  PROVE  /\ mod' \in [Handles -> Records]
         /\ HandlesInv' /\ MemoInv'
         /\ LockInv' /\ StackShape' /\ FramesInv' /\ OneOwner' /\ EnoughFresh'
         /\ ShutdownAlone'
<1> DEFINE R(h) == Unused([mod[h] EXCEPT !.fini = FALSE])
<1>1. /\ mod \in [Handles -> Records] /\ memo \in [Names -> Handles \cup {NoHandle}]
      /\ \A h \in Handles : HandleInv(h)
  BY DEF IInv, TypeOK, HandlesInv
<1>2. ASSUME NEW h \in Handles
      PROVE  /\ R(h) \in Records
             /\ R(h).name = mod[h].name /\ R(h).mem = mod[h].mem
             /\ R(h).released = mod[h].released /\ R(h).script = mod[h].script
             /\ ~R(h).fini
  BY <1>1, UnloadedRecord
<1>3. \A h \in Handles : mod'[h] = IF h \in S THEN R(h) ELSE mod[h]
  OBVIOUS
<1> HIDE DEF R
<1>4. mod' \in [Handles -> Records]
  BY <1>1, <1>2, <1>3
<1>5. \A h \in Handles : mod'[h].name = mod[h].name /\ mod'[h].mem = mod[h].mem
                         /\ mod'[h].released = mod[h].released /\ mod'[h].script = mod[h].script
  BY <1>2, <1>3
<1>6. Fresh' = Fresh
  BY <1>5 DEF Fresh
<1>7. MemoInv'
  <2> SUFFICES ASSUME NEW n \in Names, memo[n] # NoHandle
               PROVE  Alive(memo[n])' /\ mod'[memo[n]].name = n
    BY DEF MemoInv, Alive
  <2>1. memo[n] \in Handles /\ Alive(memo[n]) /\ mod[memo[n]].name = n
    BY <1>1 DEF IInv, MemoInv
  <2> QED
    BY <1>5, <2>1 DEF Alive
<1>8. HandlesInv'
  <2> SUFFICES ASSUME NEW h \in Handles PROVE HandleInv(h)'
    BY DEF HandlesInv
  <2>1. HandleInv(h) /\ mod[h].name \in Names /\ h # NoHandle
    BY <1>1, LoaderAssumption DEF Records
  <2>2. (Memoized(h)' <=> Memoized(h)) /\ (Alive(h)' <=> Alive(h))
    BY <1>5 DEF Memoized, Alive
  <2>3. CASE h \in S
    <3>1. Alive(h)
      BY <2>1, <2>3 DEF IInv, MemoInv, Memoized
    <3> QED
      BY <1>2, <1>3, <1>5, <2>1, <2>2, <2>3, <3>1 DEF HandleInv, Alive
  <2>4. CASE h \notin S
    <3>1. mod'[h] = mod[h]
      BY <1>3, <2>4
    <3>2. shutdown' = "done" /\ Memoized(h) => ~mod[h].fini
      BY <2>4
    <3> QED
      BY <2>1, <2>2, <3>1, <3>2 DEF HandleInv
  <2> QED
    BY <2>3, <2>4
<1>9. \A t \in Threads : stack[t] = <<>> /\ Len(stack[t]) = 0
  BY EmptySeq DEF IInv, ShutdownAlone
<1>10. \A t \in Threads : \A i \in 1..Len(stack[t]) :
         stack[t][i].h # NoHandle => mod'[stack[t][i].h] = mod[stack[t][i].h]
  <2> SUFFICES ASSUME NEW t \in Threads, NEW i \in 1..Len(stack[t]) PROVE FALSE
    OBVIOUS
  <2>1. Len(stack[t]) = 0
    BY <1>9
  <2> QED
    BY <2>1
<1>11. LockInv' /\ StackShape' /\ FramesInv' /\ OneOwner' /\ EnoughFresh'
  BY <1>6, <1>10, StillStep
<1>12. ShutdownAlone'
  BY <1>9 DEF ShutdownAlone
<1> QED
  BY <1>4, <1>7, <1>8, <1>11, <1>12

\* The shutdown begins.
LEMMA ShutdownKeeps ==
  ASSUME IInv, Shutdown
  PROVE  IInv'
<1>1. /\ shutdown = "no" /\ shutdown' = "loop" /\ \A t \in Threads : stack[t] = <<>>
      /\ UNCHANGED <<mutexVars, gcVars, held, stack, evals, lastDangling, dangling, trap>>
  BY DEF Shutdown
<1>2. HandlesInv' /\ MemoInv' /\ Fresh' = Fresh
  BY <1>1, HandlesKept DEF IInv, TypeOK
<1>3. LockInv' /\ StackShape' /\ FramesInv' /\ OneOwner' /\ EnoughFresh'
  BY <1>1, <1>2, StillStep DEF gcVars
<1>4. TypeOK' /\ ShutdownAlone'
  BY <1>1 DEF IInv, TypeOK, ShutdownAlone, mutexVars, gcVars
<1> QED
  BY <1>2, <1>3, <1>4 DEF IInv

\* A round of the shutdown without force.
LEMMA ShutdownRoundKeeps ==
  ASSUME IInv, ShutdownRound
  PROVE  IInv'
<1>1. PICK D \in SUBSET {h \in Handles : Memoized(h) /\ mod[h].fini} :
        /\ mod' = [h \in Handles |-> IF Memoized(h) /\ h \notin D
                                     THEN Unused([mod[h] EXCEPT !.fini = FALSE]) ELSE mod[h]]
        /\ lastDangling' = dangling
        /\ dangling' = Cardinality(D)
        /\ shutdown' = IF D = {} THEN "done" ELSE "gc"
  BY DEF ShutdownRound
<1>2. /\ shutdown = "loop"
      /\ UNCHANGED <<mutexVars, memo, unreachable, scope, held, stack, evals, trap>>
  BY DEF ShutdownRound
<1> DEFINE S == {h \in Handles : Memoized(h) /\ h \notin D}
<1>3. /\ S \in SUBSET Handles /\ \A h \in S : Memoized(h)
      /\ shutdown' = "done" => \A h \in Handles \ S : Memoized(h) => ~mod[h].fini
      /\ \A h \in Handles : mod'[h] = IF h \in S THEN Unused([mod[h] EXCEPT !.fini = FALSE])
                                                 ELSE mod[h]
      /\ mod' = [h \in Handles |-> mod'[h]]
      /\ shutdown' # "no"
  BY <1>1
<1> HIDE DEF S
<1>4. /\ mod' \in [Handles -> Records]
      /\ HandlesInv' /\ MemoInv'
      /\ LockInv' /\ StackShape' /\ FramesInv' /\ OneOwner' /\ EnoughFresh'
      /\ ShutdownAlone'
  BY <1>2, <1>3, UnloadStep
<1>5. Cardinality(D) \in 0..Cardinality(Handles)
  <2>1. D \subseteq Handles /\ IsFiniteSet(Handles)
    BY LoaderAssumption
  <2>2. IsFiniteSet(D) /\ Cardinality(D) <= Cardinality(Handles)
    BY <2>1, FS_Subset
  <2> QED
    BY <2>1, <2>2, FS_CardinalityType
<1>6. TypeOK'
  BY <1>1, <1>2, <1>4, <1>5 DEF IInv, TypeOK, mutexVars
<1> QED
  BY <1>4, <1>6 DEF IInv

\* The comparison after a round, and the round with force.
LEMMA ShutdownTestKeeps ==
  ASSUME IInv, ShutdownTest
  PROVE  IInv'
<1>1. /\ shutdown = "test"
      /\ UNCHANGED <<mutexVars, memo, unreachable, scope, held, stack, evals,
                     lastDangling, dangling, trap>>
  BY DEF ShutdownTest
<1> DEFINE S == {h \in Handles : Memoized(h) /\ mod[h].fini /\ dangling = lastDangling}
<1>2. mod \in [Handles -> Records]
  BY DEF IInv, TypeOK
<1>3. /\ S \in SUBSET Handles /\ \A h \in S : Memoized(h)
      /\ shutdown' = "done" => \A h \in Handles \ S : Memoized(h) => ~mod[h].fini
      /\ \A h \in Handles : mod'[h] = IF h \in S THEN Unused([mod[h] EXCEPT !.fini = FALSE])
                                                 ELSE mod[h]
      /\ mod' = [h \in Handles |-> mod'[h]]
      /\ shutdown' \in {"loop", "done"}
  BY <1>2 DEF ShutdownTest
<1> HIDE DEF S
<1>4. /\ mod' \in [Handles -> Records]
      /\ HandlesInv' /\ MemoInv'
      /\ LockInv' /\ StackShape' /\ FramesInv' /\ OneOwner' /\ EnoughFresh'
      /\ ShutdownAlone'
  BY <1>1, <1>3, UnloadStep
<1>5. TypeOK'
  BY <1>1, <1>3, <1>4 DEF IInv, TypeOK, mutexVars
<1> QED
  BY <1>4, <1>5 DEF IInv

\* A step that changes nothing.
LEMMA StutterKeeps ==
  ASSUME IInv, UNCHANGED vars
  PROVE  IInv'
<1>1. UNCHANGED <<mutexVars, gcVars, held, stack, evals, shutdown, lastDangling, dangling, trap>>
  BY DEF vars, endVars
<1>2. HandlesInv' /\ MemoInv' /\ Fresh' = Fresh
  BY <1>1, HandlesKept DEF IInv, TypeOK
<1>3. LockInv' /\ StackShape' /\ FramesInv' /\ OneOwner' /\ EnoughFresh'
  BY <1>1, <1>2, StillStep DEF gcVars
<1>4. TypeOK' /\ ShutdownAlone'
  BY <1>1 DEF IInv, TypeOK, ShutdownAlone, mutexVars, gcVars
<1> QED
  BY <1>2, <1>3, <1>4 DEF IInv

\* Every step keeps the inductive invariant.
LEMMA NextIInv == IInv /\ [Next]_vars => IInv'
<1> SUFFICES ASSUME IInv, [Next]_vars PROVE IInv'
  OBVIOUS
<1>1. CASE UNCHANGED vars
  BY <1>1, StutterKeeps
<1>2. CASE RunProgram
  BY <1>2, RunProgramKeeps
<1>3. ASSUME NEW t \in Threads, NEW c \in Calls, Require(t, c[1], c[2]) PROVE IInv'
  BY <1>3, RequireKeeps
<1>4. ASSUME NEW t \in Threads, LoaderStep(t) PROVE IInv'
  BY <1>4, RequireLockKeeps, NotFoundKeeps, FindNewKeeps, FindMemoizedKeeps,
     LoadNativeKeeps, LoadScriptKeeps, LoseAbsoluteKeeps, MarkKeeps, InitializeKeeps,
     ScriptEndsKeeps, ReturnKeeps DEF LoaderStep
<1>5. ASSUME NEW t \in Threads, Publish(t) PROVE IInv'
  BY <1>5, PublishKeeps
<1>6. ASSUME NEW h \in Handles, Forget(h) PROVE IInv'
  BY <1>6, ForgetKeeps
<1>7. CASE GC
  BY <1>7, GCKeeps
<1>8. CASE Shutdown \/ ShutdownStep
  BY <1>8, ShutdownKeeps, ShutdownRoundKeeps, ShutdownGCKeeps, ShutdownTestKeeps
  DEF ShutdownStep
<1> QED
  BY <1>1, <1>2, <1>3, <1>4, <1>5, <1>6, <1>7, <1>8 DEF Next

\* The inductive invariant holds in every reachable state.
LEMMA Invariance == Spec => []IInv
  BY InitIInv, NextIInv, PTL DEF Spec

-----------------------------------------------------------------------------

\* The types of the handles, of the memo, of the stacks and of the lock; nesting
\* is bounded by the depth of the requires.
THEOREM TypeCorrect == Spec => []TypeOK
  BY Invariance, PTL DEF IInv

\* The script of a module begins to execute once, whatever cycle of requires, of
\* whichever threads, leads back to it.
THEOREM ScriptsRunOnce == Spec => []EvaluatedOnce
<1>1. IInv => EvaluatedOnce
  BY DEF IInv, HandlesInv, HandleInv, EvaluatedOnce
<1> QED
  BY <1>1, Invariance, PTL

\* Scripts never hold two handles of a module that have both not been released:
\* the memo names each of them.
THEOREM ModulesAreSingletons == Spec => []Singletons
<1>1. IInv => Singletons
  <2> SUFFICES ASSUME IInv, NEW h1 \in held, NEW h2 \in held,
                      mod[h1].name = mod[h2].name, ~mod[h1].released, ~mod[h2].released
               PROVE  h1 = h2
    BY DEF Singletons
  <2>1. h1 \in Handles /\ h2 \in Handles /\ mod \in [Handles -> Records]
    BY DEF IInv, TypeOK
  <2>2. HandleInv(h1) /\ HandleInv(h2)
    BY <2>1 DEF IInv, HandlesInv
  <2>3. ASSUME NEW h \in {h1, h2} PROVE Memoized(h)
    <3>1. mod[h].mem \in {"unused", "allocated", "freed"} /\ HandleInv(h) /\ ~mod[h].released
      BY <2>1, <2>2 DEF Records
    <3> QED
      BY <3>1 DEF HandleInv, Alive
  <2> QED
    BY <2>3 DEF Memoized
<1> QED
  BY <1>1, Invariance, PTL

\* Only a cycle of requires sees a module that is still being initialised.
THEOREM PartialExportsStayInCycles == Spec => []OnlyCyclesSeePartialExports
<1>1. IInv => OnlyCyclesSeePartialExports
  <2> SUFFICES ASSUME IInv, NEW t \in Threads, NEW u \in Threads, At(t, "return"), u # t,
                      NEW i \in 1..Len(stack[u]),
                      stack[u][i].h = Top(t).h, stack[u][i].way # "program"
               PROVE  stack[u][i].pc = "return"
    <3>1. \A u \in Threads : DOMAIN stack[u] = 1..Len(stack[u])
      BY LenProperties DEF IInv, TypeOK
    <3> QED
      BY <3>1 DEF OnlyCyclesSeePartialExports
  <2>1. /\ stack[t] # <<>> /\ Top(t).pc = "return"
    BY DEF At
  <2>2. /\ Len(stack[t]) \in 1..Len(stack[t]) /\ Top(t) = stack[t][Len(stack[t])]
        /\ FrameInv(Top(t)) /\ Top(t).h # NoHandle
    BY <2>1, TopInv
  <2>3. /\ FrameInv(stack[u][i]) /\ stack[u][i] \in Frames
        /\ stack[u][i].h = NoHandle <=> stack[u][i].pc \in {"lock", "find"}
    <3>1. stack[u] \in Seq(Frames)
      BY DEF IInv, TypeOK
    <3> QED
      BY <3>1, ElementOfSeq DEF IInv, FramesInv, StackShape
  <2>4. CASE Top(t).way # "program"
    <3>1. Len(stack[t]) \in LockedIn(t) /\ i \in LockedIn(u)
      BY <2>1, <2>2, <2>3, <2>4 DEF LockedIn
    <3> QED
      BY <3>1 DEF IInv, LockInv
  <2>5. CASE Top(t).way = "program"
    <3>1. Owner(Top(t)) /\ mod[Top(t).h].loaded /\ evals[Top(t).h] = 1
      BY <2>1, <2>2, <2>5 DEF Owner, FrameInv
    <3>2. ~Owner(stack[u][i])
      BY <2>2, <3>1 DEF IInv, OneOwner
    <3> QED
      BY <2>2, <2>3, <3>1, <3>2 DEF FrameInv, Owner, Frames
  <2> QED
    BY <2>4, <2>5
<1> QED
  BY <1>1, Invariance, PTL

\* The require lock is given back on every way out of require.
THEOREM LockIsBalanced == Spec => []LockMatchesRequires
<1>1. IInv => LockMatchesRequires
  <2> SUFFICES ASSUME IInv PROVE LockMatchesRequires
    OBVIOUS
  <2>1. \A t \in Threads : DOMAIN stack[t] = 1..Len(stack[t])
    BY LenProperties DEF IInv, TypeOK
  <2>2. \A t \in Threads :
          LockedIn(t) = {i \in DOMAIN stack[t] :
                           stack[t][i].way # "program" /\ stack[t][i].pc # "lock"}
    BY <2>1 DEF LockedIn
  <2> QED
    BY <2>2 DEF IInv, LockInv, LockMatchesRequires
<1> QED
  BY <1>1, Invariance, PTL

\* The collector destroys no handle that a require still needs.
THEOREM HandlesSurvive == Spec => []HandlesInUseSurvive
<1>1. IInv => HandlesInUseSurvive
  <2> SUFFICES ASSUME IInv PROVE HandlesInUseSurvive
    OBVIOUS
  <2>1. \A n \in Names : memo[n] # NoHandle =>
          mod[memo[n]].mem = "allocated" /\ ~mod[memo[n]].released
    BY DEF IInv, MemoInv, Alive
  <2>2. \A t \in Threads : \A i \in DOMAIN stack[t] :
          stack[t][i].h # NoHandle => mod[stack[t][i].h].mem = "allocated"
    <3>1. \A t \in Threads : DOMAIN stack[t] = 1..Len(stack[t])
      BY LenProperties DEF IInv, TypeOK
    <3> QED
      BY <3>1 DEF IInv, FramesInv, FrameInv
  <2>3. ASSUME NEW t \in Threads, At(t, "return"), Top(t).name # Program
        PROVE  mod[Top(t).h].refs
    <3>1. /\ Top(t) \in Frames /\ FrameInv(Top(t)) /\ Top(t).h # NoHandle /\ shutdown = "no"
      BY <2>3, TopInv DEF At
    <3>2. Top(t).h \in Handles /\ Alive(Top(t).h)
      BY <2>3, <3>1 DEF FrameInv, Frames, Alive, At
    <3> QED
      BY <3>1, <3>2 DEF IInv, HandlesInv, HandleInv
  <2> QED
    BY <2>1, <2>2, <2>3 DEF HandlesInUseSurvive
<1> QED
  BY <1>1, Invariance, PTL

\* A native module that was initialised is finished before its shared object is
\* closed, and before the module system is gone.
THEOREM FinishedFirst == Spec => []FinishedBeforeUnload
<1>1. IInv => FinishedBeforeUnload
  BY DEF IInv, HandlesInv, HandleInv, FinishedBeforeUnload, Alive
<1> QED
  BY <1>1, Invariance, PTL
=============================================================================
