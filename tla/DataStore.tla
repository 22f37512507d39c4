------------------------------ MODULE DataStore ------------------------------
(***************************************************************************)
(* The data stores of gpsee_datastores.c, and the garbage-collection       *)
(* callbacks of gpsee_gccallbacks.c that are kept in one: an array of      *)
(* slots, searched from the start, that grows and never shrinks, and the   *)
(* re-entrant monitor every operation enters.                              *)
(*                                                                         *)
(* An operation that enters and leaves the monitor is one step.  An        *)
(* iteration keeps the monitor from its first step to its last, while its  *)
(* callback may change the store it is called from.                        *)
(***************************************************************************)
EXTENDS Naturals, Sequences, FiniteSets

CONSTANTS Threads, Nobody,
          Keys, Values,
          NoKey,           \* NULL, the key of an empty slot
          Nothing,         \* NULL as a value
          InitialSizes,    \* the initialSizeHint of gpsee_ds_create
          MaxSize          \* bound: realloc fails for an array beyond this size

ASSUME StoreAssumption ==
  /\ Nobody \notin Threads /\ NoKey \notin Keys /\ Nothing \notin Values
  /\ MaxSize \in Nat /\ InitialSizes \subseteq 0..MaxSize

VARIABLES otm,             \* whether the store was made with GPSEE_DS_OTM_KEYS
          data,            \* store->data
          owner, entries,  \* the monitor: its owner, and how often it is entered
          pos,             \* per thread: the slot its iteration looks at, or 0
          target,          \* per thread: the value its callback removes, or Nothing
          kept,            \* per thread: how often hasData has left it inside
          answer           \* the last answer of get or remove, with its key

monVars  == <<owner, entries, kept>>
iterVars == <<pos, target>>
vars == <<otm, data, monVars, iterVars, answer>>

Slots == [key : Keys \cup {NoKey}, value : Values \cup {Nothing}]
EmptySlot == [key |-> NoKey, value |-> Nothing]

TypeOK ==
  /\ otm \in BOOLEAN
  /\ Len(data) <= MaxSize /\ \A i \in DOMAIN data : data[i] \in Slots
  /\ owner \in Threads \cup {Nobody} /\ entries \in Nat
  /\ pos \in [Threads -> Nat]
  /\ target \in [Threads -> Values \cup {Nothing}]
  /\ kept \in [Threads -> Nat]
  /\ answer \in (Keys \cup {Nothing}) \X (Values \cup {Nothing})

Init ==
  /\ otm \in BOOLEAN
  /\ \E n \in InitialSizes : data = [i \in 1..n |-> EmptySlot]
  /\ owner = Nobody /\ entries = 0
  /\ pos = [t \in Threads |-> 0]
  /\ target = [t \in Threads |-> Nothing]
  /\ kept = [t \in Threads |-> 0]
  /\ answer = <<Nothing, Nothing>>

-----------------------------------------------------------------------------
(* The monitor and the slots                                                 *)

\* gpsee_enterMonitor would not block t.
MayEnter(t) == owner \in {t, Nobody}

\* A call from outside: not from the callback of an iteration of t.
Calls(t) == MayEnter(t) /\ pos[t] = 0

First(S) == CHOOSE i \in S : \A j \in S : i <= j

SlotsOf(k) == {i \in DOMAIN data : data[i].key = k}

\* The pair in slot i is removed: only its key is cleared.
Emptied(i) == [data EXCEPT ![i].key = NoKey]

\* The size the array grows to.
NewSize(size) ==
  IF size < 100 THEN IF size = 0 THEN 1 ELSE 2 * size
  ELSE (size + 128) - ((size + 128) % 128)

-----------------------------------------------------------------------------
(* The operations                                                            *)

\* Mutant: the new pair is stored at the end of the grown array.
GrownAtEnd(k, v) ==
  [i \in 1..NewSize(Len(data)) |->
     IF i = NewSize(Len(data)) THEN [key |-> k, value |-> v]
     ELSE IF i < Len(data) THEN data[i] ELSE EmptySlot]

\* The array after it has grown to take one more pair.
Grown(k, v) ==
  [i \in 1..NewSize(Len(data)) |->
     IF i <= Len(data) THEN data[i]
     ELSE IF i = Len(data) + 1 THEN [key |-> k, value |-> v] ELSE EmptySlot]

\* Mutant: gpsee_ds_put does not enter the monitor.
PutUnlocked(t, k, v) ==
  /\ pos[t] = 0
  /\ IF Len(data) < MaxSize THEN data' = Grown(k, v) ELSE UNCHANGED data
  /\ UNCHANGED <<otm, monVars, iterVars, answer>>

\* Mutant: the result of realloc is not tested.
PutUntested(t, k, v) ==
  /\ Calls(t)
  /\ LET usable == IF otm THEN {} ELSE SlotsOf(k) \cup SlotsOf(NoKey) IN
     data' = IF usable = {} THEN Grown(k, v)
             ELSE [data EXCEPT ![First(usable)] = [key |-> k, value |-> v]]
  /\ UNCHANGED <<otm, monVars, iterVars, answer>>

\* gpsee_ds_put: without GPSEE_DS_OTM_KEYS the first slot that has the key or is
\* empty; else the array grows, which fails when realloc does.
Put(t, k, v) ==
  /\ Calls(t)
  /\ LET usable == IF otm THEN {} ELSE SlotsOf(k) \cup SlotsOf(NoKey) IN
     CASE usable # {} ->
            data' = [data EXCEPT ![First(usable)] = [key |-> k, value |-> v]]
       [] usable = {} /\ NewSize(Len(data)) <= MaxSize -> data' = Grown(k, v)
       [] OTHER -> UNCHANGED data
  /\ UNCHANGED <<otm, monVars, iterVars, answer>>

\* gpsee_ds_get
Get(t, k) ==
  /\ Calls(t)
  /\ answer' = <<k, IF SlotsOf(k) = {} THEN Nothing ELSE data[First(SlotsOf(k))].value>>
  /\ UNCHANGED <<otm, data, monVars, iterVars>>

\* gpsee_ds_remove
Remove(t, k) ==
  /\ Calls(t)
  /\ IF SlotsOf(k) = {}
     THEN answer' = <<k, Nothing>> /\ UNCHANGED data
     ELSE /\ answer' = <<k, data[First(SlotsOf(k))].value>>
          /\ data' = Emptied(First(SlotsOf(k)))
  /\ UNCHANGED <<otm, monVars, iterVars>>

\* The array gpsee_ds_match_remove leaves: without the first such pair.
Without(k, v) ==
  LET S == {i \in SlotsOf(k) : data[i].value = v} IN
  IF S = {} THEN data ELSE Emptied(First(S))

\* gpsee_ds_match_remove, gpsee_removeGCCallback
MatchRemove(t, k, v) ==
  /\ Calls(t)
  /\ data' = Without(k, v)
  /\ UNCHANGED <<otm, monVars, iterVars, answer>>

\* gpsee_ds_empty
Empty(t) ==
  /\ Calls(t)
  /\ data' = [i \in DOMAIN data |-> EmptySlot]
  /\ UNCHANGED <<otm, monVars, iterVars, answer>>

\* gpsee_ds_hasData returns without leaving the monitor.
HasData(t) ==
  /\ Calls(t) /\ entries = 0
  /\ owner' = t
  /\ entries' = entries + 1
  /\ kept' = [kept EXCEPT ![t] = @ + 1]
  /\ UNCHANGED <<otm, data, iterVars, answer>>

-----------------------------------------------------------------------------
(* gpsee_ds_forEach, as gpsee_gcCallback and gpsee_removeAllGCCallbacks_forRealm *)
(* use it                                                                    *)

\* The iteration begins; its callback removes the pairs with value v, or none.
ForEach(t, v) ==
  /\ Calls(t)
  /\ owner' = t
  /\ entries' = entries + 1
  /\ pos' = [pos EXCEPT ![t] = 1]
  /\ target' = [target EXCEPT ![t] = v]
  /\ UNCHANGED <<otm, data, kept, answer>>

\* Mutant: the iteration returns early without leaving the monitor.
ReturnInside(t) ==
  /\ pos' = [pos EXCEPT ![t] = 0]
  /\ target' = [target EXCEPT ![t] = Nothing]
  /\ UNCHANGED <<owner, entries, kept>>

\* gpsee_leaveMonitor, and the iteration returns.
Return(t) ==
  /\ pos' = [pos EXCEPT ![t] = 0]
  /\ target' = [target EXCEPT ![t] = Nothing]
  /\ entries' = entries - 1
  /\ owner' = IF entries = 1 THEN Nobody ELSE t
  /\ UNCHANGED kept

\* Mutant: the slots behind a removed pair are thought to move up.
VisitSkips(t) ==
  /\ pos[t] \in DOMAIN data
  /\ LET slot == data[pos[t]] IN
     IF slot.key # NoKey /\ slot.value = target[t]
     THEN data' = Without(slot.key, slot.value) /\ pos' = [pos EXCEPT ![t] = @ + 2]
     ELSE UNCHANGED data /\ pos' = [pos EXCEPT ![t] = @ + 1]
  /\ UNCHANGED <<otm, monVars, target, answer>>

\* The callback is called for the slot, unless it is empty, and returns JS_TRUE.
\* One that removes its pair finds the first pair that is the same.
Visit(t) ==
  /\ pos[t] \in DOMAIN data
  /\ LET slot == data[pos[t]] IN
     data' = IF slot.key # NoKey /\ slot.value = target[t]
             THEN Without(slot.key, slot.value) ELSE data
  /\ pos' = [pos EXCEPT ![t] = @ + 1]
  /\ UNCHANGED <<otm, monVars, target, answer>>

\* A collector callback returns JS_FALSE: the callbacks after it are not called.
Stop(t) ==
  /\ pos[t] \in DOMAIN data /\ data[pos[t]].key # NoKey /\ target[t] = Nothing
  /\ Return(t)
  /\ UNCHANGED <<otm, data, answer>>

EndForEach(t) ==
  /\ pos[t] = Len(data) + 1
  /\ Return(t)
  /\ UNCHANGED <<otm, data, answer>>

-----------------------------------------------------------------------------

Next ==
  \E t \in Threads :
    \/ \E k \in Keys, v \in Values : Put(t, k, v) \/ MatchRemove(t, k, v)
    \/ \E k \in Keys : Get(t, k) \/ Remove(t, k)
    \/ \E v \in Values \cup {Nothing} : ForEach(t, v)
    \/ Empty(t) \/ HasData(t) \/ Visit(t) \/ Stop(t) \/ EndForEach(t)

Spec == Init /\ [][Next]_vars

-----------------------------------------------------------------------------
(* Properties                                                                *)

\* The array with its holes, its growth and its two kinds of removal is a store
\* of pairs: no call loses, invents or exchanges a pair other than the one it is
\* about, and "failure to insert does not corrupt existing data"
\* (gpsee_datastores.c:98-99).
Store == INSTANCE KeyValueStore WITH
  contents <- [p \in Keys \X Values |->
                 Cardinality({i \in DOMAIN data : <<data[i].key, data[i].value>> = p})]

ImplementsStore == Store!StoreSpec

\* gpsee_removeAllGCCallbacks_forRealm removes from the store it iterates over, a
\* pair that may occur several times: when the iteration is over no callback of the
\* realm is left to be called with the realm's pointer once it is freed.
NoneLeftForRealm ==
  \A t \in Threads :
    pos[t] = Len(data) + 1 /\ target[t] # Nothing =>
      \A i \in DOMAIN data : data[i].value = target[t] => data[i].key = NoKey

\* "This routine enters the data store's monitor and does not leave it until we
\* return" (gpsee_datastores.c:355): no thread other than the one that iterates
\* changes the store under the iteration.
NoChangeUnderIteration ==
  [][\A t \in Threads : pos[t] > 0 /\ data' # data => pos'[t] > 0 /\ pos' # pos]_vars

\* The monitor is held by a thread exactly for the iteration it is in and for the
\* calls of gpsee_ds_hasData it has made, the only ones to return inside.
MonitorBalanced ==
  /\ \A t \in Threads :
       kept[t] + (IF pos[t] > 0 THEN 1 ELSE 0) = (IF owner = t THEN entries ELSE 0)
  /\ owner = Nobody <=> entries = 0

\* "Unless the GPSEE_DS_OTM_KEYS flag is used, inserting a value which exists will
\* overwrite the existing value" (gpsee_datastores.c:99-100).
OnePairPerKey == otm \/ \A k \in Keys : Cardinality(SlotsOf(k)) <= 1
=============================================================================
