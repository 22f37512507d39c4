---------------------------- MODULE AsyncCallbacks ----------------------------
(***************************************************************************)
(* The asynchronous callbacks of gpsee.c: a linked list of callbacks,      *)
(* sorted by the address of their contexts, a thread that triggers the     *)
(* operation callback of every context with an entry, and the operation    *)
(* callbacks, each of which runs every entry of the list.  The list is     *)
(* changed under a lock and walked without it, so an entry may be freed    *)
(* under a walker.                                                         *)
(*                                                                         *)
(* A section of code under the lock is one step: what others see of it     *)
(* without the lock is its one store into the list.  Each context has a    *)
(* thread of its own; the core context is the one of the thread that       *)
(* creates and destroys the runtime.  An access the program does not       *)
(* survive is recorded in acTrap, and nothing happens after it.            *)
(***************************************************************************)
EXTENDS Naturals, Sequences, FiniteSets

CONSTANTS Contexts,      \* the contexts, named by their addresses
          CoreCx,        \* grt->coreCx
          Entries,       \* the places a GPSEEAsyncCallback may be allocated at
          NoEntry        \* NULL

ASSUME AsyncAssumption ==
  /\ Contexts \subseteq Nat /\ CoreCx \in Contexts
  /\ Entries \subseteq Nat /\ IsFiniteSet(Entries) /\ NoEntry \notin Entries

VARIABLES acHead,        \* grt->asyncCallbacks
          acNext, acCx,  \* per entry: its members next and cx
          acAllocated,   \* the entries that are allocated
          acDisturbed,   \* the contexts during whose walk another thread freed an entry
          acPc,          \* per context: what its thread is doing
          acAt, acSaved, \* per context: the entry it is at, and the next or last one
          acInstalled,   \* per context: its operation callback is set
          acTriggered,   \* per context: its operation callback is to be called
          acCleanup,     \* per context: gpsee_removeAsyncCallbackContext is registered
          acTrigger,     \* the trigger thread
          acMain,        \* gpsee_createRuntime, and gpsee_destroyRuntime
          acTrap         \* the access that has stopped the program

acList == <<acHead, acNext, acCx>>
acHeap == <<acAllocated, acDisturbed>>
acWalk == <<acPc, acAt, acSaved>>
acFlags == <<acInstalled, acTriggered, acCleanup>>
acThreads == <<acTrigger, acMain>>
asyncVars == <<acList, acHeap, acWalk, acFlags, acThreads, acTrap>>

NoTrapYet == [kind |-> "none", who |-> CoreCx]

AsyncTypeOK ==
  /\ acHead \in Entries \cup {NoEntry}
  /\ acNext \in [Entries -> Entries \cup {NoEntry}]
  /\ acCx \in [Entries -> Contexts]
  /\ acAllocated \subseteq Entries
  /\ acDisturbed \subseteq Contexts
  /\ acPc \in [Contexts -> {"absent", "js", "added", "walk", "call", "free", "returned", "segment"}]
  /\ acAt \in [Contexts -> Entries \cup {NoEntry}]
  /\ acSaved \in [Contexts -> Entries \cup {NoEntry}]
  /\ acInstalled \in [Contexts -> BOOLEAN] /\ acTriggered \in [Contexts -> BOOLEAN]
  /\ acCleanup \in [Contexts -> BOOLEAN]
  /\ acTrigger \in {"none", "pass", "test", "exited"}
  /\ acMain \in {"create", "first", "run", "join", "joined", "freeing", "done"}
  /\ acTrap \in [kind : {"none", "freed", "null", "lock"}, who : Contexts]

AsyncInit ==
  /\ acHead = NoEntry
  /\ acNext = [e \in Entries |-> NoEntry]
  /\ acCx = [e \in Entries |-> CoreCx]
  /\ acAllocated = {}
  /\ acDisturbed = {}
  /\ acPc = [c \in Contexts |-> IF c = CoreCx THEN "js" ELSE "absent"]
  /\ acAt = [c \in Contexts |-> NoEntry]
  /\ acSaved = [c \in Contexts |-> NoEntry]
  /\ acInstalled = [c \in Contexts |-> FALSE]
  /\ acTriggered = [c \in Contexts |-> FALSE]
  /\ acCleanup = [c \in Contexts |-> FALSE]
  /\ acTrigger = "none"
  /\ acMain = "create"
  /\ acTrap = NoTrapYet

-----------------------------------------------------------------------------
(* The list                                                                  *)

\* The entries that are met from head on along the links.
ChainFrom(head, next) ==
  LET prefix[n \in Nat] ==
        IF n = 0 THEN IF head = NoEntry THEN <<>> ELSE <<head>>
        ELSE LET p == prefix[n - 1] IN
             IF p = <<>> \/ next[p[Len(p)]] = NoEntry THEN p
             ELSE Append(p, next[p[Len(p)]])
  IN prefix[Cardinality(Entries)]

Chain == ChainFrom(acHead, acNext)

Listed == {Chain[i] : i \in DOMAIN Chain}

\* The entry at position i, or NULL behind the last one.
EntryAt(i) == IF i \in DOMAIN Chain THEN Chain[i] ELSE NoEntry

FirstIn(S, end) == IF S = {} THEN end ELSE CHOOSE i \in S : \A j \in S : i <= j

\* The link to position i is set to e; the links in more are set as well.
Relink(i, e, more) ==
  IF i = 1 THEN acHead' = e /\ acNext' = more
  ELSE UNCHANGED acHead /\ acNext' = [more EXCEPT ![Chain[i - 1]] = e]

\* The lock exists from its creation to the end of the trigger thread.
LockExists == acMain \notin {"create", "freeing", "done"}

AcTrap(kind, c) ==
  /\ acTrap' = [kind |-> kind, who |-> c]
  /\ UNCHANGED <<acList, acHeap, acWalk, acFlags, acThreads>>

\* The thread of c reads entry e, which another one may have freed.
ReadsFreed(c, e) == e \notin acAllocated /\ AcTrap("freed", c)

\* Where the thread of a context is in gpsee_operationCallback.
Walking == {"walk", "call", "free", "returned"}

\* JS_free by the thread of c; what the entry held is read no more.
Freed(c, e) ==
  /\ acAllocated' = acAllocated \ {e}
  /\ acDisturbed' = acDisturbed \cup {d \in Contexts \ {c} : acPc[d] \in Walking}
  /\ acNext' = [acNext EXCEPT ![e] = NoEntry]
  /\ acCx' = [acCx EXCEPT ![e] = CoreCx]

Idle(c) == acPc[c] = "js" /\ (c = CoreCx => acMain = "run")

AcGoto(c, pc, at, saved) ==
  /\ acPc' = [acPc EXCEPT ![c] = pc]
  /\ acAt' = [acAt EXCEPT ![c] = at]
  /\ acSaved' = [acSaved EXCEPT ![c] = saved]

-----------------------------------------------------------------------------
(* gpsee_createContext and gpsee_addAsyncCallback                            *)

CreateCx(c) ==
  /\ acMain = "run" /\ acPc[CoreCx] = "js"
  /\ acPc[c] = "absent"
  /\ AcGoto(c, "js", NoEntry, NoEntry)
  /\ acInstalled' = [acInstalled EXCEPT ![c] = TRUE]
  /\ UNCHANGED <<acList, acHeap, acTriggered, acCleanup, acThreads, acTrap>>

\* JS_malloc gives any free place; of those no pointer names, which are alike, the
\* lowest stands for all of them.
Pointed(e) ==
  \/ \E c \in Contexts : e \in {acAt[c], acSaved[c]}
  \/ \E f \in acAllocated : acNext[f] = e

MayAllocate(e) ==
  /\ e \notin acAllocated
  /\ Pointed(e) \/ \A f \in Entries \ acAllocated : f < e => Pointed(f)

\* The core context adds gpsee_maybeGC, in gpsee_createRuntime; the other ones add
\* callbacks when they please.
MayAdd(c) ==
  /\ acPc[c] = "js"
  /\ IF c = CoreCx THEN acMain = "first" ELSE acMain # "create"

\* The entry is inserted in front of the first one whose context has the same
\* address or a lower one.
Add(c, e) ==
  /\ MayAdd(c) /\ MayAllocate(e)
  /\ \/ ~LockExists /\ AcTrap("lock", c)
     \/ /\ LockExists
        /\ LET i == FirstIn({j \in DOMAIN Chain : acCx[Chain[j]] <= c}, Len(Chain) + 1) IN
           Relink(i, e, [acNext EXCEPT ![e] = EntryAt(i)])
        /\ acCx' = [acCx EXCEPT ![e] = c]
        /\ acAllocated' = acAllocated \cup {e}
        /\ acMain' = IF c = CoreCx THEN "run" ELSE acMain
        /\ AcGoto(c, "added", e, NoEntry)
        /\ UNCHANGED <<acDisturbed, acFlags, acTrigger, acTrap>>

\* Mutant: the clean-up of the context is not registered behind another context's entry.
AddTestTail(c) ==
  /\ acPc[c] = "added" /\ acAt[c] \in acAllocated
  /\ acCleanup' = [acCleanup EXCEPT ![c] = @ \/ acNext[acAt[c]] = NoEntry]
  /\ AcGoto(c, "js", NoEntry, NoEntry)
  /\ UNCHANGED <<acList, acHeap, acInstalled, acTriggered, acThreads, acTrap>>

\* Without the lock: is the next entry one of another context, so that the clean-up
\* of this one has to be registered?
AddTest(c) ==
  /\ acPc[c] = "added"
  /\ LET e == acAt[c]  n == acNext[e] IN
     \/ ReadsFreed(c, e)
     \/ e \in acAllocated /\ n # NoEntry /\ ReadsFreed(c, n)
     \/ /\ e \in acAllocated /\ n \in acAllocated \cup {NoEntry}
        /\ acCleanup' = [acCleanup EXCEPT ![c] = @ \/ n = NoEntry \/ acCx[n] # c]
        /\ AcGoto(c, "js", NoEntry, NoEntry)
        /\ UNCHANGED <<acList, acHeap, acInstalled, acTriggered, acThreads, acTrap>>

-----------------------------------------------------------------------------
(* gpsee_operationCallback                                                   *)

\* The engine calls the operation callback that has been triggered; it uninstalls
\* itself, and is done when the list is empty.
StartWalk(c) ==
  /\ Idle(c) /\ acTriggered[c] /\ acInstalled[c]
  /\ acTriggered' = [acTriggered EXCEPT ![c] = FALSE]
  /\ acInstalled' = [acInstalled EXCEPT ![c] = FALSE]
  /\ AcGoto(c, IF acHead = NoEntry THEN "js" ELSE "walk", acHead, NoEntry)
  /\ UNCHANGED <<acList, acHeap, acCleanup, acThreads, acTrap>>

\* next = cb->next
SaveNext(c) ==
  /\ acPc[c] = "walk"
  /\ \/ ReadsFreed(c, acAt[c])
     \/ /\ acAt[c] \in acAllocated
        /\ AcGoto(c, "call", acAt[c], acNext[acAt[c]])
        /\ UNCHANGED <<acList, acHeap, acFlags, acThreads, acTrap>>

\* Mutant: the link is followed after the callback has returned.
AdvanceLate(c) ==
  LET n == acNext[acAt[c]] IN
  \/ ReadsFreed(c, acAt[c])
  \/ /\ acAt[c] \in acAllocated
     /\ AcGoto(c, IF n = NoEntry THEN "js" ELSE "walk", n, NoEntry)
     /\ acInstalled' = [acInstalled EXCEPT ![c] = @ \/ n = NoEntry]
     /\ acDisturbed' = IF n = NoEntry THEN acDisturbed \ {c} ELSE acDisturbed
     /\ UNCHANGED <<acList, acAllocated, acTriggered, acCleanup, acThreads, acTrap>>

\* The callback has returned JS_TRUE: on to the saved entry, or the operation
\* callback is installed again.
Advance(c) ==
  /\ AcGoto(c, IF acSaved[c] = NoEntry THEN "js" ELSE "walk", acSaved[c], NoEntry)
  /\ acInstalled' = [acInstalled EXCEPT ![c] = @ \/ acSaved[c] = NoEntry]
  /\ acDisturbed' = IF acSaved[c] = NoEntry THEN acDisturbed \ {c} ELSE acDisturbed
  /\ UNCHANGED <<acList, acAllocated, acTriggered, acCleanup, acThreads, acTrap>>

\* The callback of the entry is called, and returns.
Call(c) ==
  /\ acPc[c] = "call"
  /\ \/ ReadsFreed(c, acAt[c])
     \/ acAt[c] \in acAllocated /\ Advance(c)

\* gpsee_maybeGC, the one callback of the core context, does neither of what follows.
CallsOther(c) == acPc[c] = "call" /\ acAt[c] \in acAllocated /\ acCx[acAt[c]] # CoreCx

\* The callback is called, and returns JS_FALSE: the walk is over.
CallRefuses(c) ==
  /\ CallsOther(c)
  /\ AcGoto(c, "js", NoEntry, NoEntry)
  /\ acDisturbed' = acDisturbed \ {c}
  /\ UNCHANGED <<acList, acAllocated, acInstalled, acTriggered, acCleanup, acThreads, acTrap>>

\* The callback is called, and calls gpsee_removeAsyncCallback for its own entry.  No
\* entry points to the first one, nor to one that is no longer in the list.
CallRemoves(c) ==
  /\ CallsOther(c)
  /\ LET i == FirstIn({j \in DOMAIN Chain : Chain[j] = acAt[c]}, 0) IN
     \/ ~LockExists /\ AcTrap("lock", c)
     \/ LockExists /\ i \in {0, 1} /\ AcTrap("null", c)
     \/ /\ LockExists /\ i > 1
        /\ acNext' = [acNext EXCEPT ![Chain[i - 1]] = acNext[acAt[c]]]
        /\ AcGoto(c, "free", acAt[c], acSaved[c])
        /\ UNCHANGED <<acHead, acCx, acHeap, acFlags, acThreads, acTrap>>

\* JS_free(cx, cbHnd)
FreeRemoved(c) ==
  /\ acPc[c] = "free"
  /\ \/ ReadsFreed(c, acAt[c])
     \/ /\ acAt[c] \in acAllocated
        /\ Freed(c, acAt[c])
        /\ AcGoto(c, "returned", acAt[c], acSaved[c])
        /\ UNCHANGED <<acHead, acFlags, acThreads, acTrap>>

AfterRemoval(c) == acPc[c] = "returned" /\ Advance(c)

-----------------------------------------------------------------------------
(* JS_DestroyContext: gpsee_contextCallback, gpsee_removeAsyncCallbackContext *)

CxGone(c) ==
  /\ AcGoto(c, "absent", NoEntry, NoEntry)
  /\ acInstalled' = [acInstalled EXCEPT ![c] = FALSE]
  /\ acTriggered' = [acTriggered EXCEPT ![c] = FALSE]
  /\ acCleanup' = [acCleanup EXCEPT ![c] = FALSE]

\* A context ends without its clean-up, or with an empty list, or with no entry of
\* its own in the list; else its first run of entries is unlinked, to be freed.
DestroyCx(c) ==
  /\ Idle(c) /\ c # CoreCx
  /\ LET first == FirstIn({i \in DOMAIN Chain : acCx[Chain[i]] = c}, 0)
         behind == FirstIn({i \in DOMAIN Chain : i > first /\ acCx[Chain[i]] # c}, Len(Chain) + 1)
     IN
     \/ /\ ~acCleanup[c] \/ acHead = NoEntry \/ (LockExists /\ first = 0)
        /\ CxGone(c)
        /\ UNCHANGED <<acList, acHeap, acThreads, acTrap>>
     \/ /\ acCleanup[c] /\ LockExists /\ first # 0
        /\ Relink(first, EntryAt(behind), acNext)
        /\ AcGoto(c, "segment", Chain[first], Chain[behind - 1])
        /\ UNCHANGED <<acCx, acHeap, acFlags, acThreads, acTrap>>
     \/ acCleanup[c] /\ acHead # NoEntry /\ ~LockExists /\ AcTrap("lock", c)

\* The unlinked entries are freed one by one.
FreeSegment(c) ==
  /\ acPc[c] = "segment"
  /\ \/ ReadsFreed(c, acAt[c])
     \/ /\ acAt[c] \in acAllocated
        /\ Freed(c, acAt[c])
        /\ IF acAt[c] = acSaved[c] THEN CxGone(c)
           ELSE AcGoto(c, "segment", acNext[acAt[c]], acSaved[c]) /\ UNCHANGED acFlags
        /\ UNCHANGED <<acHead, acThreads, acTrap>>

-----------------------------------------------------------------------------
(* gpsee_asyncCallbackTriggerThreadFunc                                      *)

\* Every context with an entry in the list has its operation callback triggered.
TriggerPass ==
  /\ acTrigger = "pass"
  /\ acTriggered' = [c \in Contexts |-> acTriggered[c] \/ \E e \in Listed : acCx[e] = c]
  /\ acTrigger' = "test"
  /\ UNCHANGED <<acList, acHeap, acWalk, acInstalled, acCleanup, acMain, acTrap>>

\* After its sleep the thread goes on as long as the list is not empty.
TriggerTest ==
  /\ acTrigger = "test"
  /\ acTrigger' = IF acHead = NoEntry THEN "exited" ELSE "pass"
  /\ UNCHANGED <<acList, acHeap, acWalk, acFlags, acMain, acTrap>>

-----------------------------------------------------------------------------
(* gpsee_createRuntime and gpsee_destroyRuntime                              *)

SpawnTrigger ==
  /\ acMain = "create"
  /\ acTrigger' = "pass"
  /\ acMain' = "first"
  /\ UNCHANGED <<acList, acHeap, acWalk, acFlags, acTrap>>

\* Mutant: the list is left to the trigger thread.
CutKeepsList ==
  /\ Idle(CoreCx)
  /\ AcGoto(CoreCx, "js", acHead, NoEntry)
  /\ acMain' = "join"
  /\ UNCHANGED <<acList, acHeap, acFlags, acTrigger, acTrap>>

\* The head of the list is cut off and kept.
CutList ==
  /\ Idle(CoreCx)
  /\ acHead' = NoEntry
  /\ AcGoto(CoreCx, "js", acHead, NoEntry)
  /\ acMain' = "join"
  /\ UNCHANGED <<acNext, acCx, acHeap, acFlags, acTrigger, acTrap>>

\* PR_JoinThread, and the lock is destroyed; the list is put back to be freed.
JoinTrigger ==
  /\ acMain = "join" /\ acTrigger = "exited"
  /\ acHead' = acAt[CoreCx]
  /\ acMain' = "freeing"
  /\ UNCHANGED <<acNext, acCx, acHeap, acWalk, acFlags, acTrigger, acTrap>>

\* removeAllAsyncCallbacks_unlocked
FreeAll ==
  /\ acMain = "freeing"
  /\ LET e == acAt[CoreCx] IN
     \/ /\ e = NoEntry
        /\ acHead' = NoEntry /\ acMain' = "done"
        /\ UNCHANGED <<acNext, acCx, acHeap, acWalk, acFlags, acTrigger, acTrap>>
     \/ /\ e \in acAllocated
        /\ Freed(CoreCx, e)
        /\ AcGoto(CoreCx, "js", acNext[e], NoEntry)
        /\ UNCHANGED <<acHead, acFlags, acThreads, acTrap>>
     \/ e # NoEntry /\ ReadsFreed(CoreCx, e)

-----------------------------------------------------------------------------

\* The thread of c goes on with what it has begun.
CxStep(c) ==
  \/ AddTest(c) \/ SaveNext(c) \/ Call(c) \/ CallRefuses(c) \/ CallRemoves(c)
  \/ FreeRemoved(c) \/ AfterRemoval(c) \/ FreeSegment(c)

RuntimeStep == SpawnTrigger \/ CutList \/ JoinTrigger \/ FreeAll

AsyncNext ==
  /\ acTrap = NoTrapYet
  /\ \/ \E c \in Contexts \ {CoreCx} : CreateCx(c) \/ DestroyCx(c) \/ StartWalk(c)
     \/ \E c \in Contexts : CxStep(c) \/ \E e \in Entries : Add(c, e)
     \/ TriggerPass \/ TriggerTest \/ RuntimeStep

AsyncSpec == AsyncInit /\ [][AsyncNext]_asyncVars

\* The trigger thread and the thread that destroys the runtime are scheduled.
TriggerFairness ==
  WF_asyncVars(acTrap = NoTrapYet /\ (TriggerPass \/ TriggerTest \/ JoinTrigger))

AsyncFairSpec == AsyncSpec /\ TriggerFairness

-----------------------------------------------------------------------------
(* Properties                                                                *)

\* The list never outlives its contexts: as long as the trigger thread may pass, each
\* entry of the list is allocated and belongs to a context that has not been destroyed,
\* since the entries of a context are neighbours and its first one registers the
\* clean-up that unlinks all of them (gpsee.c:514-518, 580-588).
NoOrphans ==
  acMain \in {"first", "run", "join"} =>
    \A e \in Listed :
      /\ e \in acAllocated
      /\ acPc[acCx[e]] # "absent"
      /\ acPc[acCx[e]] # "added" => acCleanup[acCx[e]]

\* "Save the 'next' link in case the callback deletes itself" (gpsee.c:459): a walk meets a
\* freed entry, one of its own removals or any other, only when another thread has freed
\* an entry since the walk began, or when the runtime is being destroyed.
UndisturbedWalksAreSafe ==
  acTrap.kind = "freed" /\ acPc[acTrap.who] \in Walking =>
    acTrap.who \in acDisturbed \/ acMain \in {"freeing", "done"}

\* An entry is freed once, however callbacks that remove themselves, contexts that end and
\* the end of the runtime meet: only those who read the list without the lock find that
\* an entry has been freed (gpsee.c:546, 594-602, 616-624).
EntriesFreedOnce ==
  acTrap.kind = "freed" => acPc[acTrap.who] \in {"added", "walk", "call"}

\* What the lock and the order of the list do promise of a list that is walked without
\* the lock (gpsee.c:453-470).
CallbackListSafe == NoOrphans /\ UndisturbedWalksAreSafe /\ EntriesFreedOnce

\* "Cut off the head of the linked list to ensure that the trigger thread doesn't begin
\* a new run" (gpsee.c:663): the runtime is waiting for the thread for ever only when
\* a callback is added after the cut.
RuntimeStops ==
  (acMain = "join") ~>
    \/ acMain # "join" \/ acTrap # NoTrapYet
    \/ acHead \notin {NoEntry, acAt[CoreCx]}

\* "Run this loop as long as there are async callbacks registered" (gpsee.c:396).
TriggerRunsWhileRegistered ==
  acMain = "run" /\ acHead # NoEntry => acTrigger # "exited"
=============================================================================
