---------------------------- MODULE LibraryProofs ----------------------------
(***************************************************************************)
(* The finalizers of gffi for any number of objects, functions and realms, *)
(* and the event loop of the reactor for any number of events and any      *)
(* delays.                                                                 *)
(*                                                                         *)
(* A script that is thawed is current, for any number of processes, cache  *)
(* files, versions and seconds.  The argument: an inode's time only grows, *)
(* so that a version read from an inode after its fstat has been written   *)
(* to that inode at the time of the fstat or later; and this is what a     *)
(* complete cache file says of the version it holds, from the fstat before *)
(* the compilation to every process that finds the same inode and time.    *)
(***************************************************************************)
EXTENDS MCLibraries, ByteProofs, FiniteSetTheorems, SequenceTheorems, TLAPS

-----------------------------------------------------------------------------
(* WillFinalize: the inductive invariant                                     *)

\* The realms that have ever loaded gffi.
Loads == {r \in WfRealms : wfModule[r] # "absent"}

\* The store and the callback are those of the realm that has loaded gffi, and go
\* when its module is finished.
StoreInv ==
  /\ Loads # {} => Loads = {wfPending}
  /\ wfFreed = {r \in WfRealms : wfModule[r] = "finished"}
  /\ wfCallbacks = Loads \ wfFreed
  /\ \A r \in WfRealms \ Loads : wfStores[r] = NoCalls
  /\ \A r \in Loads : wfClosure = wfStores[r]

\* An object is at home in a realm that has loaded gffi.
HomeInv == \A w \in Finalizees : wfObject[w] # "none" => wfHome[w] \in Loads

\* The closures that are still to be called.
ClosureInv ==
  \A w \in Finalizees : wfClosure[w] # NoCall =>
    /\ wfObject[w] # "none" /\ wfHome[w] \notin wfFreed
    /\ wfObject[wfClosure[w]] # "gone" /\ wfClosure[w] \notin wfDoomed

FinalizeInv ==
  /\ FinalizeTypeOK
  /\ IsFiniteSet(Loads) /\ (Loads # {} => wfPending \in WfRealms)
  /\ ~wfCollecting => wfDoomed = {}
  /\ OneLoad => wfTrap = "none" /\ StoreInv /\ HomeInv /\ ClosureInv

-----------------------------------------------------------------------------
(* WillFinalize: the proof                                                   *)

\* The initial state has the inductive invariant.
LEMMA InitFinalize == FinalizeInit => FinalizeInv
<1> SUFFICES ASSUME FinalizeInit PROVE FinalizeInv
  OBVIOUS
<1>1. Loads = {}
  BY DEF FinalizeInit, Loads
<1>2. IsFiniteSet(Loads)
  BY <1>1, FS_EmptySet
<1>3. FinalizeTypeOK
  BY FinalizeAssumption DEF FinalizeInit, FinalizeTypeOK, NoCalls, WfObjects
<1>4. StoreInv
  BY <1>1 DEF FinalizeInit, StoreInv, NoCalls
<1>5. HomeInv /\ ClosureInv
  BY DEF FinalizeInit, HomeInv, ClosureInv, NoCalls, WfObjects
<1> QED
  BY <1>1, <1>2, <1>3, <1>4, <1>5 DEF FinalizeInv, FinalizeInit

\* OneLoad depends on the realms that have loaded gffi only.
LEMMA SameLoads ==
  ASSUME FinalizeInv, Loads' = Loads
  PROVE  IsFiniteSet(Loads)' /\ OneLoad' = OneLoad
  BY DEF FinalizeInv, OneLoad, Loads

\* A script loads gffi.
LEMMA InitClassKeeps ==
  ASSUME FinalizeInv, NEW r \in WfRealms, InitClass(r)
  PROVE  FinalizeInv'
<1>1. /\ FinalizeTypeOK /\ wfModule \in [WfRealms -> {"absent", "loaded", "unrooted", "fini",
                                     "dangling", "again", "stuck", "force", "finished"}]
      /\ IsFiniteSet(Loads) /\ r \notin Loads
      /\ ~wfCollecting => wfDoomed = {}
  BY DEF FinalizeInv, FinalizeTypeOK, InitClass, Loads
<1>2. /\ wfModule' = [wfModule EXCEPT ![r] = "loaded"] /\ wfPending' = r
      /\ wfCallbacks' = wfCallbacks \cup {r}
      /\ UNCHANGED <<wfStores, wfFreed, wfObject, wfHome, wfClosure, wfDoomed, wfCollecting, wfTrap>>
  BY DEF InitClass, wfGc
<1>3. Loads' = Loads \cup {r}
  BY <1>1, <1>2 DEF Loads
<1>4. IsFiniteSet(Loads') /\ Cardinality(Loads') = Cardinality(Loads) + 1
  BY <1>1, <1>3, FS_AddElement
<1>5. FinalizeTypeOK'
  BY <1>1, <1>2 DEF FinalizeTypeOK
<1>6. ASSUME OneLoad'
      PROVE  (wfTrap = "none" /\ StoreInv /\ HomeInv /\ ClosureInv)'
  <2>1. Cardinality(Loads') <= 1
    BY <1>6 DEF OneLoad, Loads
  <2>2. Cardinality(Loads) \in Nat /\ Cardinality(Loads) = 0
    BY <1>1, <1>4, <2>1, FS_CardinalityType
  <2>3. Loads = {}
    BY <1>1, <2>2, FS_EmptySet
  <2>4. Cardinality({q \in WfRealms : wfModule[q] # "absent"}) <= 1
    BY <2>2 DEF Loads
  <2>5. wfTrap = "none" /\ StoreInv /\ HomeInv /\ ClosureInv
    BY <2>4 DEF FinalizeInv, OneLoad
  <2>6. \A w \in Finalizees : wfObject[w] = "none" /\ wfClosure[w] = NoCall
    BY <2>3, <2>5 DEF HomeInv, ClosureInv
  <2>7. wfClosure = NoCalls
    BY <1>1, <2>6 DEF FinalizeTypeOK, NoCalls
  <2>8. Loads' = {r} /\ wfFreed = {} /\ wfCallbacks = {}
    BY <1>3, <2>3, <2>5 DEF StoreInv, Loads
  <2>9. wfFreed' = {q \in WfRealms : wfModule'[q] = "finished"}
    <3>1. \A q \in WfRealms : wfModule'[q] # "finished"
      BY <1>1, <1>2, <2>3 DEF Loads
    <3> QED
      BY <1>2, <2>8, <3>1
  <2>10. StoreInv'
    BY <1>2, <2>3, <2>5, <2>7, <2>8, <2>9 DEF StoreInv, NoCalls
  <2>11. HomeInv' /\ ClosureInv'
    BY <1>2, <2>6 DEF HomeInv, ClosureInv
  <2> QED
    BY <1>2, <2>5, <2>10, <2>11
<1> QED
  BY <1>1, <1>2, <1>3, <1>4, <1>5, <1>6 DEF FinalizeInv

\* What is left to show of a step that loads gffi in no realm.
LEMMA SameLoadsKeep ==
  ASSUME FinalizeInv, Loads' = Loads, FinalizeTypeOK',
         UNCHANGED wfPending,
         ~wfCollecting' => wfDoomed' = {},
         OneLoad => (wfTrap = "none" /\ StoreInv /\ HomeInv /\ ClosureInv)'
  PROVE  FinalizeInv'
  BY SameLoads DEF FinalizeInv

\* The steps that no closure and no store takes part in: a new object ...
LEMMA NewObjectKeeps ==
  ASSUME FinalizeInv, NEW r \in WfRealms, NEW o \in WfObjects,
         \/ o \in Finalizees /\ NewWillFinalize(o, r)
         \/ o \in CFunctions /\ NewCFunction(o, r)
  PROVE  FinalizeInv'
<1>1. /\ wfObject' = [wfObject EXCEPT ![o] = "held"] /\ wfObject[o] = "none"
      /\ wfHome' = IF o \in Finalizees THEN [wfHome EXCEPT ![o] = r] ELSE wfHome
      /\ UNCHANGED <<wfModule, wfStores, wfFreed, wfPending, wfCallbacks, wfClosure,
                     wfDoomed, wfCollecting, wfTrap>>
      /\ wfModule[r] = "loaded"
  BY FinalizeAssumption DEF NewWillFinalize, NewCFunction, wfStore, wfGc, Script
<1>2. FinalizeTypeOK /\ (~wfCollecting => wfDoomed = {})
  BY DEF FinalizeInv
<1>3. /\ wfObject \in [WfObjects -> {"none", "held", "dropped", "gone"}]
      /\ wfHome \in [Finalizees -> WfRealms \cup {NoWfRealm}]
      /\ wfClosure \in [Finalizees -> CFunctions \cup {NoCall}]
  BY <1>2 DEF FinalizeTypeOK
<1>4. FinalizeTypeOK'
  BY <1>1, <1>2, <1>3 DEF FinalizeTypeOK
<1>5. Loads' = Loads /\ r \in Loads
  BY <1>1 DEF Loads
<1>6. ASSUME wfTrap = "none", StoreInv, HomeInv, ClosureInv
      PROVE  (wfTrap = "none" /\ StoreInv /\ HomeInv /\ ClosureInv)'
  <2>1. StoreInv'
    BY <1>1, <1>5, <1>6 DEF StoreInv
  <2>2. HomeInv'
    BY <1>1, <1>3, <1>5, <1>6 DEF HomeInv, WfObjects
  <2>3. ClosureInv'
    BY <1>1, <1>3, <1>6 DEF ClosureInv, WfObjects
  <2> QED
    BY <1>1, <1>6, <2>1, <2>2, <2>3
<1> QED
  BY <1>1, <1>2, <1>4, <1>5, <1>6, SameLoadsKeep DEF FinalizeInv

\* ... and one that a script lets go of.
LEMMA UnreferenceKeeps ==
  ASSUME FinalizeInv, NEW o \in WfObjects, Unreference(o)
  PROVE  FinalizeInv'
<1>1. /\ wfObject' = [wfObject EXCEPT ![o] = "dropped"] /\ wfObject[o] = "held"
      /\ UNCHANGED <<wfModule, wfStores, wfFreed, wfPending, wfCallbacks, wfHome, wfClosure,
                     wfDoomed, wfCollecting, wfTrap>>
  BY DEF Unreference, wfStore, wfGc
<1>2. FinalizeTypeOK /\ (~wfCollecting => wfDoomed = {})
  BY DEF FinalizeInv
<1>3. /\ wfObject \in [WfObjects -> {"none", "held", "dropped", "gone"}]
      /\ wfClosure \in [Finalizees -> CFunctions \cup {NoCall}]
  BY <1>2 DEF FinalizeTypeOK
<1>4. FinalizeTypeOK'
  BY <1>1, <1>2, <1>3 DEF FinalizeTypeOK
<1>5. Loads' = Loads
  BY <1>1 DEF Loads
<1>6. ASSUME wfTrap = "none", StoreInv, HomeInv, ClosureInv
      PROVE  (wfTrap = "none" /\ StoreInv /\ HomeInv /\ ClosureInv)'
  <2>1. StoreInv'
    BY <1>1, <1>5, <1>6 DEF StoreInv
  <2>2. HomeInv'
    BY <1>1, <1>3, <1>5, <1>6 DEF HomeInv, WfObjects
  <2>3. ClosureInv'
    BY <1>1, <1>3, <1>6 DEF ClosureInv, WfObjects
  <2> QED
    BY <1>1, <1>6, <2>1, <2>2, <2>3
<1> QED
  BY <1>1, <1>2, <1>4, <1>5, <1>6, SameLoadsKeep DEF FinalizeInv

\* A step that is in a trap has been in none so far only when gffi is loaded twice.
\* The trap of an access to a store that is destroyed.
LEMMA StoreLive ==
  ASSUME FinalizeInv, OneLoad, Loads \ wfFreed # {}
  PROVE  ~StoreFreed
<1>1. Loads = {wfPending} /\ StoreInv
  BY DEF FinalizeInv, StoreInv
<1> QED
  BY <1>1 DEF StoreFreed

\* A closure that is to be called is in the store, which is not destroyed.
LEMMA ClosureStored ==
  ASSUME FinalizeInv, OneLoad, NEW w \in Finalizees, wfClosure[w] # NoCall
  PROVE  /\ Loads = {wfPending} /\ wfPending \in WfRealms /\ wfPending \notin wfFreed
         /\ wfHome[w] = wfPending /\ wfCallbacks = {wfPending}
         /\ wfClosure = wfStores[wfPending]
         /\ wfClosure[w] \in CFunctions
<1>1. StoreInv /\ HomeInv /\ ClosureInv /\ FinalizeTypeOK
  BY DEF FinalizeInv
<1>2. wfHome[w] \in Loads /\ wfHome[w] \notin wfFreed
  BY <1>1 DEF HomeInv, ClosureInv
<1>3. Loads = {wfPending}
  BY <1>1, <1>2 DEF StoreInv
<1>4. wfPending \in WfRealms /\ wfClosure = wfStores[wfPending]
  BY <1>1, <1>3 DEF StoreInv, Loads
<1> QED
  BY <1>1, <1>2, <1>3, <1>4 DEF StoreInv, FinalizeTypeOK

\* The pending calls, and what they mark, are those of the closures.
LEMMA CallsAreClosures ==
  ASSUME FinalizeInv, OneLoad
  PROVE  /\ WithCalls = {w \in Finalizees : wfClosure[w] # NoCall}
         /\ MarkedFunctions = {wfClosure[w] : w \in WithCalls}
<1>1. StoreInv /\ FinalizeTypeOK
  BY DEF FinalizeInv
<1>2. CASE Loads = {}
  <2>1. \A w \in Finalizees : wfClosure[w] = NoCall
    BY <1>2, ClosureStored
  <2>2. wfPending \in WfRealms => wfStores[wfPending] = NoCalls
    BY <1>1, <1>2 DEF StoreInv
  <2>3. WithCalls = {}
    BY <1>1, <2>2 DEF WithCalls, NoCalls, FinalizeTypeOK
  <2>4. MarkedFunctions = {}
    BY <2>3 DEF MarkedFunctions
  <2> QED
    BY <2>1, <2>3, <2>4
<1>3. CASE Loads # {}
  <2>1. wfPending \in WfRealms /\ wfClosure = wfStores[wfPending] /\ wfPending # NoWfRealm
    BY <1>1, <1>3, FinalizeAssumption DEF StoreInv, FinalizeInv
  <2>2. WithCalls = {w \in Finalizees : wfClosure[w] # NoCall}
    BY <2>1 DEF WithCalls
  <2>3. {v \in WithCalls : wfClosure[v] # NoCall} = WithCalls
    BY <2>2
  <2> QED
    BY <2>1, <2>2, <2>3 DEF MarkedFunctions
<1> QED
  BY <1>2, <1>3

\* The pending calls and what they mark are objects.
LEMMA MarkedType ==
  ASSUME FinalizeTypeOK
  PROVE  WithCalls \subseteq Finalizees /\ MarkedFunctions \subseteq CFunctions
  BY DEF FinalizeTypeOK, WithCalls, MarkedFunctions

\* A trap is one of a second load.
LEMMA TrapKeeps ==
  ASSUME FinalizeInv, NEW kind \in {"store", "function"}, WfTrap(kind), ~OneLoad
  PROVE  FinalizeInv'
<1>1. /\ wfTrap' = kind
      /\ UNCHANGED <<wfModule, wfStores, wfFreed, wfPending, wfCallbacks, wfObject, wfHome,
                     wfClosure, wfDoomed, wfCollecting>>
  BY DEF WfTrap, wfStore, wfGc
<1>2. Loads' = Loads /\ FinalizeTypeOK' /\ (~wfCollecting' => wfDoomed' = {})
  BY <1>1 DEF FinalizeInv, FinalizeTypeOK, Loads
<1> QED
  BY <1>1, <1>2, SameLoadsKeep

\* finalizeWith.
LEMMA FinalizeWithKeeps ==
  ASSUME FinalizeInv, NEW w \in Finalizees, NEW f \in CFunctions, FinalizeWith(w, f)
  PROVE  FinalizeInv'
<1>1. /\ FinalizeTypeOK /\ (~wfCollecting => wfDoomed = {})
      /\ wfObject[w] = "held" /\ ~wfCollecting /\ wfModule[wfHome[w]] = "loaded"
      /\ wfObject[f] = "held" /\ f # NoCall
  BY FinalizeAssumption DEF FinalizeInv, FinalizeWith, HeldByScript, Script
<1>2. OneLoad => ~StoreFreed /\ wfHome[w] = wfPending /\ Loads = {wfPending}
                 /\ wfPending \in WfRealms /\ wfPending \notin wfFreed
  <2> SUFFICES ASSUME OneLoad
               PROVE  /\ ~StoreFreed /\ wfHome[w] = wfPending /\ Loads = {wfPending}
                      /\ wfPending \in WfRealms /\ wfPending \notin wfFreed
    OBVIOUS
  <2>1. wfHome[w] \in Loads /\ StoreInv
    BY <1>1 DEF FinalizeInv, HomeInv
  <2>2. wfHome[w] \notin wfFreed
    BY <1>1, <2>1 DEF StoreInv
  <2>3. Loads = {wfPending} /\ wfPending \in WfRealms
    BY <2>1 DEF StoreInv, FinalizeInv
  <2> QED
    BY <2>1, <2>2, <2>3 DEF StoreFreed
<1>3. CASE StoreFreed
  BY <1>2, <1>3, TrapKeeps DEF FinalizeWith
<1>4. CASE ~StoreFreed
  <2>1. /\ wfClosure' = [wfClosure EXCEPT ![w] = f]
        /\ wfStores' = [wfStores EXCEPT ![wfPending][w] = f]
        /\ UNCHANGED <<wfModule, wfFreed, wfPending, wfCallbacks, wfObject, wfHome, wfDoomed,
                       wfCollecting, wfTrap>>
    BY <1>4 DEF FinalizeWith, wfGc
  <2>2. /\ wfStores \in [WfRealms -> [Finalizees -> CFunctions \cup {NoCall}]]
        /\ wfClosure \in [Finalizees -> CFunctions \cup {NoCall}]
    BY <1>1 DEF FinalizeTypeOK
  <2>3. FinalizeTypeOK' /\ Loads' = Loads
    BY <1>1, <2>1, <2>2 DEF FinalizeTypeOK, Loads
  <2>4. ASSUME OneLoad
        PROVE  (wfTrap = "none" /\ StoreInv /\ HomeInv /\ ClosureInv)'
    <3>1. wfTrap = "none" /\ StoreInv /\ HomeInv /\ ClosureInv
      BY <2>4 DEF FinalizeInv
    <3>2. wfStores'[wfPending] = [wfStores[wfPending] EXCEPT ![w] = f]
      BY <1>2, <2>1, <2>2, <2>4
    <3>3. \A r \in WfRealms \ {wfPending} : wfStores'[r] = wfStores[r]
      BY <2>1, <2>2
    <3>4. StoreInv'
      BY <1>2, <2>1, <2>3, <2>4, <3>1, <3>2, <3>3 DEF StoreInv
    <3>5. HomeInv'
      BY <2>1, <2>3, <3>1 DEF HomeInv
    <3>6. ClosureInv'
      BY <1>1, <1>2, <2>1, <2>2, <2>4, <3>1 DEF ClosureInv
    <3> QED
      BY <2>1, <3>1, <3>4, <3>5, <3>6
  <2> QED
    BY <1>1, <2>1, <2>3, <2>4, SameLoadsKeep
<1> QED
  BY <1>3, <1>4

\* The use of a closure frees it, and the call is pending no more.  O is what becomes
\* of the objects.
LEMMA ClosureUseStep ==
  ASSUME FinalizeInv, NEW w \in Finalizees,
         NEW O \in [WfObjects -> {"none", "held", "dropped", "gone"}], ClosureUse(w, O),
         UNCHANGED <<wfModule, wfCallbacks>>
  PROVE  /\ wfStores' \in [WfRealms -> [Finalizees -> CFunctions \cup {NoCall}]]
         /\ wfClosure' \in [Finalizees -> CFunctions \cup {NoCall}]
         /\ wfObject' \in [WfObjects -> {"none", "held", "dropped", "gone"}]
         /\ wfTrap' \in {"none", "store", "function"}
         /\ UNCHANGED <<wfFreed, wfPending>>
         /\ Loads' = Loads
         /\ OneLoad => /\ wfObject' = O /\ UNCHANGED wfTrap /\ StoreInv'
                       /\ wfClosure' = [wfClosure EXCEPT ![w] = NoCall]
<1>1. /\ FinalizeTypeOK
      /\ wfStores \in [WfRealms -> [Finalizees -> CFunctions \cup {NoCall}]]
      /\ wfClosure \in [Finalizees -> CFunctions \cup {NoCall}]
      /\ wfObject \in [WfObjects -> {"none", "held", "dropped", "gone"}]
      /\ wfTrap \in {"none", "store", "function"}
  BY DEF FinalizeInv, FinalizeTypeOK
<1>2. Loads' = Loads
  BY DEF Loads
<1>3. CASE wfClosure[w] = NoCall
  <2>1. wfObject' = O /\ UNCHANGED <<wfStores, wfFreed, wfPending, wfClosure, wfTrap>>
    BY <1>3 DEF ClosureUse, wfStore
  <2>2. wfClosure' = [wfClosure EXCEPT ![w] = NoCall]
    BY <1>1, <1>3, <2>1
  <2>3. OneLoad => StoreInv'
    BY <1>2, <2>1 DEF FinalizeInv, StoreInv
  <2> QED
    BY <1>1, <1>2, <2>1, <2>2, <2>3
<1>4. CASE /\ wfClosure[w] # NoCall
           /\ wfObject[wfClosure[w]] = "gone" \/ StoreFreed
  <2>1. /\ wfTrap' \in {"store", "function"}
        /\ UNCHANGED <<wfStores, wfFreed, wfPending, wfClosure, wfObject>>
    BY <1>4 DEF ClosureUse, wfStore
  <2>2. ~OneLoad
    BY <1>4, ClosureStored DEF FinalizeInv, ClosureInv, StoreFreed
  <2> QED
    BY <1>1, <1>2, <2>1, <2>2
<1>5. CASE wfClosure[w] # NoCall /\ wfObject[wfClosure[w]] # "gone" /\ ~StoreFreed
  <2>1. /\ wfObject' = O
        /\ wfStores' = [wfStores EXCEPT ![wfPending][w] = NoCall]
        /\ wfClosure' = [wfClosure EXCEPT ![w] = NoCall]
        /\ UNCHANGED <<wfFreed, wfPending, wfTrap>>
    BY <1>5 DEF ClosureUse
  <2>2. /\ wfStores' \in [WfRealms -> [Finalizees -> CFunctions \cup {NoCall}]]
        /\ wfClosure' \in [Finalizees -> CFunctions \cup {NoCall}]
    BY <1>1, <2>1
  <2>3. ASSUME OneLoad PROVE StoreInv'
    <3>1. StoreInv
      BY <2>3 DEF FinalizeInv
    <3>2. /\ Loads = {wfPending} /\ wfPending \in WfRealms
          /\ wfClosure = wfStores[wfPending]
      BY <1>5, <2>3, ClosureStored
    <3>3. /\ wfStores'[wfPending] = [wfStores[wfPending] EXCEPT ![w] = NoCall]
          /\ \A r \in WfRealms \ {wfPending} : wfStores'[r] = wfStores[r]
      BY <1>1, <2>1, <3>2
    <3> QED
      BY <1>2, <2>1, <3>1, <3>2, <3>3 DEF StoreInv
  <2> QED
    BY <1>1, <1>2, <2>1, <2>2, <2>3
<1> QED
  BY <1>3, <1>4, <1>5

\* runFinalizer.
LEMMA RunFinalizerKeeps ==
  ASSUME FinalizeInv, NEW w \in Finalizees, RunFinalizer(w)
  PROVE  FinalizeInv'
<1>1. /\ ClosureUse(w, wfObject)
      /\ UNCHANGED <<wfModule, wfCallbacks, wfHome, wfDoomed, wfCollecting>>
  BY DEF RunFinalizer, wfGc
<1>2. /\ FinalizeTypeOK /\ (~wfCollecting => wfDoomed = {})
      /\ wfObject \in [WfObjects -> {"none", "held", "dropped", "gone"}]
      /\ wfClosure \in [Finalizees -> CFunctions \cup {NoCall}]
  BY DEF FinalizeInv, FinalizeTypeOK
<1>3. /\ wfStores' \in [WfRealms -> [Finalizees -> CFunctions \cup {NoCall}]]
      /\ wfClosure' \in [Finalizees -> CFunctions \cup {NoCall}]
      /\ wfObject' \in [WfObjects -> {"none", "held", "dropped", "gone"}]
      /\ wfTrap' \in {"none", "store", "function"}
      /\ UNCHANGED <<wfFreed, wfPending>>
      /\ Loads' = Loads
      /\ OneLoad => /\ wfObject' = wfObject /\ UNCHANGED wfTrap /\ StoreInv'
                    /\ wfClosure' = [wfClosure EXCEPT ![w] = NoCall]
  BY <1>1, <1>2, ClosureUseStep
<1>4. FinalizeTypeOK'
  BY <1>1, <1>2, <1>3 DEF FinalizeTypeOK
<1>5. ASSUME OneLoad
      PROVE  (wfTrap = "none" /\ StoreInv /\ HomeInv /\ ClosureInv)'
  <2>1. wfTrap = "none" /\ HomeInv /\ ClosureInv
    BY <1>5 DEF FinalizeInv
  <2>2. HomeInv' /\ ClosureInv'
    BY <1>1, <1>2, <1>3, <1>5, <2>1 DEF HomeInv, ClosureInv
  <2> QED
    BY <1>3, <1>5, <2>1, <2>2
<1> QED
  BY <1>1, <1>2, <1>3, <1>4, <1>5, SameLoadsKeep

\* WillFinalize_Finalize.
LEMMA FinalizeObjectKeeps ==
  ASSUME FinalizeInv, NEW w \in Finalizees, FinalizeObject(w)
  PROVE  FinalizeInv'
<1> DEFINE O == [wfObject EXCEPT ![w] = "none"]
<1>1. /\ ClosureUse(w, O) /\ w \in wfDoomed
      /\ wfHome' = [wfHome EXCEPT ![w] = NoWfRealm] /\ wfDoomed' = wfDoomed \ {w}
      /\ UNCHANGED <<wfModule, wfCallbacks, wfCollecting>>
  BY DEF FinalizeObject
<1>2. /\ FinalizeTypeOK /\ (~wfCollecting => wfDoomed = {}) /\ w \in WfObjects
      /\ wfObject \in [WfObjects -> {"none", "held", "dropped", "gone"}]
      /\ wfClosure \in [Finalizees -> CFunctions \cup {NoCall}]
      /\ wfHome \in [Finalizees -> WfRealms \cup {NoWfRealm}]
  BY DEF FinalizeInv, FinalizeTypeOK, WfObjects
<1>3. /\ O \in [WfObjects -> {"none", "held", "dropped", "gone"}]
      /\ O[w] = "none" /\ \A o \in WfObjects \ {w} : O[o] = wfObject[o]
  BY <1>2
<1> HIDE DEF O
<1>4. /\ wfStores' \in [WfRealms -> [Finalizees -> CFunctions \cup {NoCall}]]
      /\ wfClosure' \in [Finalizees -> CFunctions \cup {NoCall}]
      /\ wfObject' \in [WfObjects -> {"none", "held", "dropped", "gone"}]
      /\ wfTrap' \in {"none", "store", "function"}
      /\ UNCHANGED <<wfFreed, wfPending>>
      /\ Loads' = Loads
      /\ OneLoad => /\ wfObject' = O /\ UNCHANGED wfTrap /\ StoreInv'
                    /\ wfClosure' = [wfClosure EXCEPT ![w] = NoCall]
  BY <1>1, <1>3, ClosureUseStep
<1>5. FinalizeTypeOK'
  BY <1>1, <1>2, <1>4 DEF FinalizeTypeOK
<1>6. ASSUME OneLoad
      PROVE  (wfTrap = "none" /\ StoreInv /\ HomeInv /\ ClosureInv)'
  <2>1. wfTrap = "none" /\ HomeInv /\ ClosureInv
    BY <1>6 DEF FinalizeInv
  <2>2. HomeInv'
    BY <1>1, <1>2, <1>3, <1>4, <1>6, <2>1 DEF HomeInv, WfObjects
  <2>3. ClosureInv'
    <3> SUFFICES ASSUME NEW v \in Finalizees, wfClosure'[v] # NoCall
                 PROVE  /\ wfObject'[v] # "none" /\ wfHome'[v] \notin wfFreed'
                        /\ wfObject'[wfClosure'[v]] # "gone" /\ wfClosure'[v] \notin wfDoomed'
      BY DEF ClosureInv
    <3>1. v # w /\ wfClosure'[v] = wfClosure[v] /\ wfClosure[v] \in CFunctions
      BY <1>2, <1>4, <1>6
    <3>2. /\ wfObject[v] # "none" /\ wfHome[v] \notin wfFreed
          /\ wfObject[wfClosure[v]] # "gone" /\ wfClosure[v] \notin wfDoomed
      BY <2>1, <3>1 DEF ClosureInv
    <3>3. wfClosure[v] \in WfObjects \ {w} /\ v \in WfObjects \ {w}
      BY <3>1, FinalizeAssumption DEF WfObjects
    <3> QED
      BY <1>1, <1>2, <1>3, <1>4, <1>6, <3>1, <3>2, <3>3
  <2> QED
    BY <1>4, <1>6, <2>1, <2>2, <2>3
<1> QED
  BY <1>1, <1>2, <1>4, <1>5, <1>6, SameLoadsKeep

\* The end of marking: the function of no closure is doomed.
LEMMA GcMarkKeeps ==
  ASSUME FinalizeInv, GcMark
  PROVE  FinalizeInv'
<1>1. FinalizeTypeOK /\ ~wfCollecting /\ wfDoomed = {}
  BY DEF FinalizeInv, GcMark
<1>2. CASE wfCallbacks # {} /\ (StoreFreed \/ \E f \in MarkedFunctions : wfObject[f] = "gone")
  <2>1. PICK kind \in {"store", "function"} : WfTrap(kind)
    BY <1>2 DEF GcMark
  <2>2. ASSUME OneLoad PROVE FALSE
    <3>1. StoreInv /\ ClosureInv
      BY <2>2 DEF FinalizeInv
    <3>2. ~StoreFreed
      BY <1>2, <2>2, <3>1, StoreLive DEF StoreInv
    <3>3. \A f \in MarkedFunctions : \E w \in Finalizees : wfClosure[w] # NoCall /\ f = wfClosure[w]
      BY <2>2, CallsAreClosures
    <3> QED
      BY <1>2, <3>1, <3>2, <3>3 DEF ClosureInv
  <2> QED
    BY <2>1, <2>2, TrapKeeps
<1>3. CASE ~(wfCallbacks # {} /\ (StoreFreed \/ \E f \in MarkedFunctions : wfObject[f] = "gone"))
  <2>1. /\ wfCollecting' = TRUE
        /\ wfDoomed' = {o \in WfObjects : wfObject[o] = "dropped"}
                         \ (IF wfCallbacks = {} THEN {} ELSE MarkedFunctions)
        /\ UNCHANGED <<wfModule, wfStores, wfFreed, wfPending, wfCallbacks, wfObject, wfHome,
                       wfClosure, wfTrap>>
    BY <1>3 DEF GcMark, wfStore
  <2>2. FinalizeTypeOK' /\ Loads' = Loads
    BY <1>1, <2>1 DEF FinalizeTypeOK, Loads
  <2>3. ASSUME OneLoad
        PROVE  (wfTrap = "none" /\ StoreInv /\ HomeInv /\ ClosureInv)'
    <3>1. wfTrap = "none" /\ StoreInv /\ HomeInv /\ ClosureInv
      BY <2>3 DEF FinalizeInv
    <3>2. StoreInv' /\ HomeInv'
      BY <2>1, <2>2, <3>1 DEF StoreInv, HomeInv
    <3>3. ASSUME NEW w \in Finalizees, wfClosure[w] # NoCall
          PROVE  wfClosure[w] \notin wfDoomed'
      BY <2>1, <2>3, <3>3, ClosureStored, CallsAreClosures
    <3>4. ClosureInv'
      BY <2>1, <3>1, <3>3 DEF ClosureInv
    <3> QED
      BY <2>1, <3>1, <3>2, <3>4
  <2> QED
    BY <2>1, <2>2, <2>3, SameLoadsKeep
<1> QED
  BY <1>2, <1>3

\* CFunction_Finalize.
LEMMA FinalizeFunctionKeeps ==
  ASSUME FinalizeInv, NEW f \in CFunctions, FinalizeFunction(f)
  PROVE  FinalizeInv'
<1>1. /\ f \in wfDoomed /\ wfObject' = [wfObject EXCEPT ![f] = "gone"]
      /\ wfDoomed' = wfDoomed \ {f}
      /\ UNCHANGED <<wfModule, wfStores, wfFreed, wfPending, wfCallbacks, wfHome, wfClosure,
                     wfCollecting, wfTrap>>
  BY DEF FinalizeFunction, wfStore
<1>2. /\ FinalizeTypeOK /\ (~wfCollecting => wfDoomed = {})
      /\ wfObject \in [WfObjects -> {"none", "held", "dropped", "gone"}]
      /\ wfClosure \in [Finalizees -> CFunctions \cup {NoCall}]
      /\ f \in WfObjects /\ f \notin Finalizees
  BY FinalizeAssumption DEF FinalizeInv, FinalizeTypeOK, WfObjects
<1>3. FinalizeTypeOK' /\ Loads' = Loads
  BY <1>1, <1>2 DEF FinalizeTypeOK, Loads
<1>4. ASSUME OneLoad
      PROVE  (wfTrap = "none" /\ StoreInv /\ HomeInv /\ ClosureInv)'
  <2>1. wfTrap = "none" /\ StoreInv /\ HomeInv /\ ClosureInv
    BY <1>4 DEF FinalizeInv
  <2>2. StoreInv'
    BY <1>1, <1>3, <2>1 DEF StoreInv
  <2>3. HomeInv'
    BY <1>1, <1>2, <1>3, <2>1 DEF HomeInv
  <2>4. ASSUME NEW w \in Finalizees, wfClosure[w] # NoCall
        PROVE  /\ wfObject'[w] # "none" /\ wfHome[w] \notin wfFreed
               /\ wfObject'[wfClosure[w]] # "gone" /\ wfClosure[w] \notin wfDoomed'
    <3>1. /\ wfObject[w] # "none" /\ wfHome[w] \notin wfFreed
          /\ wfObject[wfClosure[w]] # "gone" /\ wfClosure[w] \notin wfDoomed
      BY <2>1, <2>4 DEF ClosureInv
    <3>2. wfClosure[w] \in WfObjects /\ w \in WfObjects /\ wfClosure[w] # f /\ w # f
      BY <1>1, <1>2, <2>4, <3>1 DEF WfObjects
    <3> QED
      BY <1>1, <1>2, <3>1, <3>2
  <2>5. ClosureInv'
    BY <1>1, <2>4 DEF ClosureInv
  <2> QED
    BY <1>1, <2>1, <2>2, <2>3, <2>5
<1> QED
  BY <1>1, <1>2, <1>3, <1>4, SameLoadsKeep

\* A step that changes how far the end of the realms is, and finishes none.
LEMMA ModuleStepKeeps ==
  ASSUME FinalizeInv,
         wfModule' \in [WfRealms -> {"absent", "loaded", "unrooted", "fini", "dangling",
                                     "again", "stuck", "force", "finished"}],
         \A r \in WfRealms : /\ wfModule'[r] = "absent" <=> wfModule[r] = "absent"
                             /\ wfModule'[r] = "finished" <=> wfModule[r] = "finished",
         wfObject' \in [WfObjects -> {"none", "held", "dropped", "gone"}],
         \A o \in WfObjects : /\ wfObject'[o] = "none" <=> wfObject[o] = "none"
                              /\ wfObject'[o] = "gone" <=> wfObject[o] = "gone",
         wfCollecting' \in BOOLEAN, wfDoomed' = wfDoomed, wfDoomed = {} \/ wfCollecting',
         UNCHANGED <<wfStores, wfFreed, wfPending, wfCallbacks, wfHome, wfClosure, wfTrap>>
  PROVE  FinalizeInv'
<1>1. /\ FinalizeTypeOK /\ wfClosure \in [Finalizees -> CFunctions \cup {NoCall}]
  BY DEF FinalizeInv, FinalizeTypeOK
<1>2. FinalizeTypeOK'
  BY <1>1 DEF FinalizeTypeOK
<1>3. Loads' = Loads
  BY DEF Loads
<1>4. ASSUME OneLoad
      PROVE  (wfTrap = "none" /\ StoreInv /\ HomeInv /\ ClosureInv)'
  <2>1. wfTrap = "none" /\ StoreInv /\ HomeInv /\ ClosureInv
    BY <1>4 DEF FinalizeInv
  <2>2. {r \in WfRealms : wfModule'[r] = "finished"} = {r \in WfRealms : wfModule[r] = "finished"}
    OBVIOUS
  <2>3. StoreInv'
    BY <1>3, <2>1, <2>2 DEF StoreInv
  <2>4. HomeInv' /\ ClosureInv'
    BY <1>1, <1>3, <2>1 DEF HomeInv, ClosureInv, WfObjects
  <2> QED
    BY <2>1, <2>3, <2>4
<1> QED
  BY <1>2, <1>3, <1>4, SameLoadsKeep

\* The end of a collection, and the beginning of the end of a realm.
LEMMA GcEndKeeps ==
  ASSUME FinalizeInv, GcEnd
  PROVE  FinalizeInv'
<1>1. /\ wfDoomed = {} /\ wfCollecting' = FALSE
      /\ wfModule' = [r \in WfRealms |-> IF wfModule[r] \in DOMAIN AfterGc
                                         THEN AfterGc[wfModule[r]] ELSE wfModule[r]]
      /\ UNCHANGED <<wfStores, wfFreed, wfPending, wfCallbacks, wfObject, wfHome, wfClosure,
                     wfDoomed, wfTrap>>
  BY DEF GcEnd, wfStore
<1>2. /\ DOMAIN AfterGc = {"unrooted", "dangling", "stuck"}
      /\ AfterGc["unrooted"] = "fini" /\ AfterGc["dangling"] = "again"
      /\ AfterGc["stuck"] = "force"
  BY DEF AfterGc
<1>3. /\ wfModule \in [WfRealms -> {"absent", "loaded", "unrooted", "fini", "dangling",
                                    "again", "stuck", "force", "finished"}]
      /\ wfObject \in [WfObjects -> {"none", "held", "dropped", "gone"}]
  BY DEF FinalizeInv, FinalizeTypeOK
<1>4. /\ wfModule' \in [WfRealms -> {"absent", "loaded", "unrooted", "fini", "dangling",
                                     "again", "stuck", "force", "finished"}]
      /\ \A r \in WfRealms : /\ wfModule'[r] = "absent" <=> wfModule[r] = "absent"
                             /\ wfModule'[r] = "finished" <=> wfModule[r] = "finished"
  BY <1>1, <1>2, <1>3
<1> QED
  BY <1>1, <1>3, <1>4, ModuleStepKeeps

LEMMA UnrootGlobalKeeps ==
  ASSUME FinalizeInv, NEW r \in WfRealms, UnrootGlobal(r)
  PROVE  FinalizeInv'
<1>1. /\ wfModule[r] = "loaded" /\ ~wfCollecting
      /\ wfModule' = [wfModule EXCEPT ![r] = "unrooted"]
      /\ UNCHANGED <<wfStores, wfFreed, wfPending, wfCallbacks, wfHome, wfClosure, wfDoomed,
                     wfCollecting, wfTrap>>
  BY DEF UnrootGlobal, wfStore, wfGc, Script
<1>2. PICK lost \in SUBSET {w \in Finalizees : wfHome[w] = r /\ wfObject[w] = "held"} :
        wfObject' = [o \in WfObjects |-> IF o \in lost THEN "dropped" ELSE wfObject[o]]
  BY DEF UnrootGlobal
<1>3. /\ wfModule \in [WfRealms -> {"absent", "loaded", "unrooted", "fini", "dangling",
                                    "again", "stuck", "force", "finished"}]
      /\ wfObject \in [WfObjects -> {"none", "held", "dropped", "gone"}]
      /\ wfDoomed = {} /\ wfCollecting \in BOOLEAN
  BY <1>1 DEF FinalizeInv, FinalizeTypeOK
<1>4. /\ wfObject' \in [WfObjects -> {"none", "held", "dropped", "gone"}]
      /\ \A o \in WfObjects : /\ wfObject'[o] = "none" <=> wfObject[o] = "none"
                              /\ wfObject'[o] = "gone" <=> wfObject[o] = "gone"
  BY <1>2, <1>3
<1>5. /\ wfModule' \in [WfRealms -> {"absent", "loaded", "unrooted", "fini", "dangling",
                                     "again", "stuck", "force", "finished"}]
      /\ \A q \in WfRealms : /\ wfModule'[q] = "absent" <=> wfModule[q] = "absent"
                             /\ wfModule'[q] = "finished" <=> wfModule[q] = "finished"
  BY <1>1, <1>3
<1> QED
  BY <1>1, <1>3, <1>4, <1>5, ModuleStepKeeps

\* A module is finished when no call is pending any more.
LEMMA FinishKeeps ==
  ASSUME FinalizeInv, NEW r \in WfRealms, wfModule[r] \notin {"absent", "finished"}, Finish(r),
         wfStores' \in [WfRealms -> [Finalizees -> CFunctions \cup {NoCall}]],
         \A q \in WfRealms \ {wfPending} : wfStores'[q] = wfStores[q],
         wfClosure' \in [Finalizees -> CFunctions \cup {NoCall}],
         OneLoad => wfClosure' = NoCalls /\ wfStores'[wfPending] = NoCalls,
         UNCHANGED <<wfPending, wfObject, wfHome, wfDoomed, wfCollecting, wfTrap>>
  PROVE  FinalizeInv'
<1>1. /\ FinalizeTypeOK /\ (~wfCollecting => wfDoomed = {}) /\ r \in Loads
      /\ wfPending \in WfRealms
      /\ wfModule \in [WfRealms -> {"absent", "loaded", "unrooted", "fini", "dangling",
                                    "again", "stuck", "force", "finished"}]
  BY DEF FinalizeInv, FinalizeTypeOK, Loads
<1>2. /\ wfModule' = [wfModule EXCEPT ![r] = "finished"]
      /\ wfCallbacks' = wfCallbacks \ {r} /\ wfFreed' = wfFreed \cup {wfPending}
  BY DEF Finish
<1>3. FinalizeTypeOK' /\ Loads' = Loads
  BY <1>1, <1>2 DEF FinalizeTypeOK, Loads
<1>4. ASSUME OneLoad
      PROVE  (wfTrap = "none" /\ StoreInv /\ HomeInv /\ ClosureInv)'
  <2>1. wfTrap = "none" /\ StoreInv /\ HomeInv
    BY <1>4 DEF FinalizeInv
  <2>2. Loads = {wfPending} /\ r = wfPending
    BY <1>1, <2>1 DEF StoreInv
  <2>3. wfFreed' = {q \in WfRealms : wfModule'[q] = "finished"}
    BY <1>1, <1>2, <2>1, <2>2 DEF StoreInv
  <2>4. wfCallbacks' = Loads \ wfFreed'
    BY <1>2, <2>1, <2>2 DEF StoreInv
  <2>5. StoreInv'
    BY <1>3, <1>4, <2>1, <2>2, <2>3, <2>4 DEF StoreInv
  <2>6. HomeInv'
    BY <1>3, <2>1 DEF HomeInv
  <2>7. ClosureInv'
    BY <1>4 DEF ClosureInv, NoCalls
  <2> QED
    BY <2>1, <2>5, <2>6, <2>7
<1> QED
  BY <1>1, <1>3, <1>4, SameLoadsKeep

\* FiniModule without force.
LEMMA FiniClassKeeps ==
  ASSUME FinalizeInv, NEW r \in WfRealms, FiniClass(r)
  PROVE  FinalizeInv'
<1>1. /\ wfModule[r] \in {"fini", "again"} /\ ~wfCollecting /\ wfDoomed = {}
      /\ FinalizeTypeOK /\ wfCollecting \in BOOLEAN
      /\ wfModule \in [WfRealms -> {"absent", "loaded", "unrooted", "fini", "dangling",
                                    "again", "stuck", "force", "finished"}]
      /\ wfObject \in [WfObjects -> {"none", "held", "dropped", "gone"}]
      /\ wfStores \in [WfRealms -> [Finalizees -> CFunctions \cup {NoCall}]]
      /\ wfClosure \in [Finalizees -> CFunctions \cup {NoCall}]
  BY DEF FiniClass, FinalizeInv, FinalizeTypeOK
<1>2. CASE StoreFreed
  <2>1. ASSUME OneLoad PROVE FALSE
    <3>1. StoreInv
      BY <2>1 DEF FinalizeInv
    <3>2. r \in Loads \ wfFreed
      BY <1>1, <3>1 DEF StoreInv, Loads
    <3> QED
      BY <1>2, <2>1, <3>2, StoreLive
  <2> QED
    BY <1>2, <2>1, TrapKeeps DEF FiniClass
<1>3. CASE ~StoreFreed /\ WithCalls = {}
  <2>1. /\ Finish(r)
        /\ UNCHANGED <<wfStores, wfPending, wfObject, wfHome, wfClosure, wfDoomed, wfCollecting,
                       wfTrap>>
    BY <1>3 DEF FiniClass, wfGc
  <2>2. ASSUME OneLoad PROVE wfClosure = NoCalls /\ wfStores[wfPending] = NoCalls
    <3>1. \A w \in Finalizees : wfClosure[w] = NoCall
      BY <1>3, <2>2, CallsAreClosures
    <3>2. wfClosure = NoCalls
      BY <1>1, <3>1 DEF NoCalls
    <3>3. StoreInv /\ r \in Loads
      BY <1>1, <2>2 DEF FinalizeInv, Loads
    <3> QED
      BY <3>2, <3>3 DEF StoreInv
  <2> QED
    BY <1>1, <2>1, <2>2, FinishKeeps
<1>4. CASE ~StoreFreed /\ WithCalls # {}
  <2>1. /\ wfModule' = [wfModule EXCEPT ![r] = IF @ = "fini" THEN "dangling" ELSE "stuck"]
        /\ UNCHANGED <<wfStores, wfFreed, wfPending, wfCallbacks, wfObject, wfHome, wfClosure,
                       wfDoomed, wfCollecting, wfTrap>>
    BY <1>4 DEF FiniClass, wfGc
  <2>2. /\ wfModule' \in [WfRealms -> {"absent", "loaded", "unrooted", "fini", "dangling",
                                       "again", "stuck", "force", "finished"}]
        /\ \A q \in WfRealms : /\ wfModule'[q] = "absent" <=> wfModule[q] = "absent"
                               /\ wfModule'[q] = "finished" <=> wfModule[q] = "finished"
    BY <1>1, <2>1
  <2> QED
    BY <1>1, <2>1, <2>2, ModuleStepKeeps
<1> QED
  BY <1>2, <1>3, <1>4

\* FiniModule with force.
LEMMA FiniClassForcedKeeps ==
  ASSUME FinalizeInv, NEW r \in WfRealms, FiniClassForced(r)
  PROVE  FinalizeInv'
<1>1. /\ wfModule[r] = "force" /\ FinalizeTypeOK
      /\ wfStores \in [WfRealms -> [Finalizees -> CFunctions \cup {NoCall}]]
      /\ wfClosure \in [Finalizees -> CFunctions \cup {NoCall}]
  BY DEF FiniClassForced, FinalizeInv, FinalizeTypeOK
<1>2. CASE StoreFreed \/ \E f \in MarkedFunctions : wfObject[f] = "gone"
  <2>1. PICK kind \in {"store", "function"} : WfTrap(kind)
    BY <1>2 DEF FiniClassForced
  <2>2. ASSUME OneLoad PROVE FALSE
    <3>1. StoreInv /\ ClosureInv
      BY <2>2 DEF FinalizeInv
    <3>2. r \in Loads \ wfFreed
      BY <1>1, <3>1 DEF StoreInv, Loads
    <3>3. \A f \in MarkedFunctions : \E w \in Finalizees : wfClosure[w] # NoCall /\ f = wfClosure[w]
      BY <2>2, CallsAreClosures
    <3> QED
      BY <1>2, <2>2, <3>1, <3>2, <3>3, StoreLive DEF ClosureInv
  <2> QED
    BY <2>1, <2>2, TrapKeeps
<1>3. CASE ~(StoreFreed \/ \E f \in MarkedFunctions : wfObject[f] = "gone")
  <2>1. /\ wfClosure' = [w \in Finalizees |-> IF w \in WithCalls THEN NoCall ELSE wfClosure[w]]
        /\ wfStores' = [wfStores EXCEPT ![wfPending] = NoCalls]
        /\ Finish(r)
        /\ UNCHANGED <<wfPending, wfObject, wfHome, wfDoomed, wfCollecting, wfTrap>>
    BY <1>3 DEF FiniClassForced, wfGc
  <2>2. wfPending \in WfRealms
    BY <1>1 DEF FinalizeInv, Loads
  <2>3. NoCalls \in [Finalizees -> CFunctions \cup {NoCall}]
    BY DEF NoCalls
  <2>4. /\ wfStores' \in [WfRealms -> [Finalizees -> CFunctions \cup {NoCall}]]
        /\ \A q \in WfRealms \ {wfPending} : wfStores'[q] = wfStores[q]
        /\ wfStores'[wfPending] = NoCalls
        /\ wfClosure' \in [Finalizees -> CFunctions \cup {NoCall}]
    BY <1>1, <2>1, <2>2, <2>3
  <2>5. ASSUME OneLoad PROVE wfClosure' = NoCalls
    BY <2>1, <2>5, CallsAreClosures DEF NoCalls
  <2> QED
    BY <1>1, <2>1, <2>4, <2>5, FinishKeeps
<1> QED
  BY <1>2, <1>3

\* Every step keeps the inductive invariant.
LEMMA FinalizeNextKeeps == FinalizeInv /\ [FinalizeNext]_wfVars => FinalizeInv'
<1> SUFFICES ASSUME FinalizeInv, [FinalizeNext]_wfVars PROVE FinalizeInv'
  OBVIOUS
<1>1. CASE UNCHANGED wfVars
  BY <1>1 DEF wfVars, wfStore, wfGc, FinalizeInv, FinalizeTypeOK, Loads, OneLoad, StoreInv,
              HomeInv, ClosureInv
<1>2. ASSUME NEW r \in WfRealms,
             InitClass(r) \/ UnrootGlobal(r) \/ FiniClass(r) \/ FiniClassForced(r)
      PROVE  FinalizeInv'
  BY <1>2, InitClassKeeps, UnrootGlobalKeeps, FiniClassKeeps, FiniClassForcedKeeps
<1>3. ASSUME NEW o \in WfObjects, Unreference(o) PROVE FinalizeInv'
  BY <1>3, UnreferenceKeeps
<1>4. ASSUME NEW w \in Finalizees, NEW r \in WfRealms, NewWillFinalize(w, r) PROVE FinalizeInv'
  BY <1>4, NewObjectKeeps DEF WfObjects
<1>5. ASSUME NEW f \in CFunctions, NEW r \in WfRealms, NewCFunction(f, r) PROVE FinalizeInv'
  BY <1>5, NewObjectKeeps DEF WfObjects
<1>6. ASSUME NEW w \in Finalizees, RunFinalizer(w) \/ FinalizeObject(w) PROVE FinalizeInv'
  BY <1>6, RunFinalizerKeeps, FinalizeObjectKeeps
<1>7. ASSUME NEW w \in Finalizees, NEW f \in CFunctions, FinalizeWith(w, f) PROVE FinalizeInv'
  BY <1>7, FinalizeWithKeeps
<1>8. ASSUME NEW f \in CFunctions, FinalizeFunction(f) PROVE FinalizeInv'
  BY <1>8, FinalizeFunctionKeeps
<1>9. CASE GcMark \/ GcEnd
  BY <1>9, GcMarkKeeps, GcEndKeeps
<1> QED
  BY <1>1, <1>2, <1>3, <1>4, <1>5, <1>6, <1>7, <1>8, <1>9 DEF FinalizeNext

\* The inductive invariant holds in every reachable state.
LEMMA FinalizeInvariance == FinalizeSpec => []FinalizeInv
  BY InitFinalize, FinalizeNextKeeps, PTL DEF FinalizeSpec

\* The types of the state of modules/gffi/WillFinalize.c.
THEOREM FinalizeTypeCorrect == FinalizeSpec => []FinalizeTypeOK
<1>1. FinalizeInv => FinalizeTypeOK
  BY DEF FinalizeInv
<1> QED
  BY <1>1, FinalizeInvariance, PTL

\* However many objects and functions there are, in whatever order the collector
\* finalizes them, and however often the end of the realm has to come back: the function
\* of a finalizer that is still to be called is not collected, none is left when gffi is
\* finished, and the store is not used after its end (WillFinalize_GCCallback,
\* WillFinalize_FiniClass).
THEOREM FinalizersAreCalled == FinalizeSpec => []FinalizersRun
<1>1. FinalizeInv => FinalizersRun
  <2> SUFFICES ASSUME FinalizeInv, OneLoad
               PROVE  /\ wfTrap = "none"
                      /\ \A w \in Finalizees : wfClosure[w] # NoCall =>
                           /\ wfObject[wfClosure[w]] # "gone"
                           /\ wfModule[wfHome[w]] # "finished"
    BY DEF FinalizersRun
  <2>1. wfTrap = "none" /\ StoreInv /\ HomeInv /\ ClosureInv
    BY DEF FinalizeInv
  <2>2. \A w \in Finalizees : wfClosure[w] # NoCall => wfHome[w] \in WfRealms
    BY <2>1 DEF HomeInv, ClosureInv, Loads
  <2> QED
    BY <2>1, <2>2 DEF StoreInv, ClosureInv
<1> QED
  BY <1>1, FinalizeInvariance, PTL

-----------------------------------------------------------------------------
(* Reactor: the inductive invariant                                          *)

\* What the arrays hold has been registered for them, and nothing twice.
Scheduled ==
  /\ \A i \in DOMAIN rePending : reRole[rePending[i]] = "task"
  /\ \A i \in DOMAIN reScheduled : reRole[reScheduled[i].id] = "timeout"
  /\ \A i \in DOMAIN reRecurring : reRole[reRecurring[i].id] = "interval"
  /\ \A i \in DOMAIN reMaintenance : reRole[reMaintenance[i]] = "maintenance"
  /\ \A i, j \in DOMAIN reScheduled : reScheduled[i].id = reScheduled[j].id => i = j

\* The loop is in the middle of an array only when it has called an event of it.
LoopInv ==
  /\ reNow <= reClock
  /\ rePc = "initializer" => reCalled /\ reNow = 0
  /\ rePc \in {"top", "over"} => ~reCalled
  /\ reIndex \in Nat \ {0}
  /\ rePc \in {"maintenance", "retry"} /\ reCalled => reIndex <= Len(reMaintenance)
  /\ rePc = "cleanup" /\ reCalled => reCurrent \in Events
  /\ reFailed => rePc = "over"

\* What of the array of timeouts is sorted: all of it, unless it is dirty; and while
\* the loop walks over it, a timeout may be out of its place when it is not due in this
\* turn of the loop.
TimeoutsSorted ==
  \A i, j \in DOMAIN reScheduled : i < j =>
    \/ reScheduled[i].when <= reScheduled[j].when
    \/ reScheduledDirty /\ (rePc = "scheduled" => reScheduled[j].when >= reNow)

\* Where a clean-up is, until the reactor is over.
CleanupInv ==
  ~reFailed =>
    \A e \in Events :
      reRole[e] = "cleanup" <=>
        \/ e \in reFinished
        \/ \E i \in DOMAIN reCleanups : reCleanups[i] = e
        \/ rePc = "cleanup" /\ reCalled /\ reCurrent = e

ReactorInv ==
  /\ ReactorTypeOK /\ LoopInv /\ Scheduled /\ TimeoutsSorted
  /\ CleanupInv
  /\ rePc = "over" /\ ~reFailed => reCleanups = <<>>

-----------------------------------------------------------------------------
(* Reactor: the arrays                                                       *)

\* Where an array has its elements.
LEMMA QueuePlaces ==
  ASSUME NEW S, NEW q \in Seq(S)
  PROVE  /\ DOMAIN q = 1..Len(q) /\ Len(q) \in Nat
         /\ \A i \in DOMAIN q : q[i] \in S
  BY ElementOfSeq, LenProperties

\* shift.
LEMMA Shifted ==
  ASSUME NEW S, NEW q \in Seq(S), q # <<>>
  PROVE  /\ Head(q) \in S /\ Head(q) = q[1] /\ 1 \in DOMAIN q
         /\ Tail(q) \in Seq(S)
         /\ \A i \in DOMAIN Tail(q) : i + 1 \in DOMAIN q /\ Tail(q)[i] = q[i + 1]
<1>1. /\ Tail(q) \in Seq(S) /\ Len(Tail(q)) = Len(q) - 1 /\ Head(q) \in S
      /\ \A i \in 1..Len(Tail(q)) : Tail(q)[i] = q[i + 1]
  BY HeadTailProperties
<1>2. Len(q) \in Nat \ {0} /\ DOMAIN q = 1..Len(q) /\ DOMAIN Tail(q) = 1..Len(Tail(q))
  BY <1>1, QueuePlaces, EmptySeq
<1> QED
  BY <1>1, <1>2

\* push.
LEMMA Pushed ==
  ASSUME NEW S, NEW q \in Seq(S), NEW x \in S
  PROVE  /\ Append(q, x) \in Seq(S) /\ Len(Append(q, x)) = Len(q) + 1
         /\ Len(q) + 1 \in DOMAIN Append(q, x) /\ Append(q, x)[Len(q) + 1] = x
         /\ \A i \in DOMAIN Append(q, x) :
              \/ i \in DOMAIN q /\ Append(q, x)[i] = q[i]
              \/ i = Len(q) + 1 /\ Append(q, x)[i] = x
         /\ \A i \in DOMAIN q : i \in DOMAIN Append(q, x) /\ i < Len(q) + 1
                                /\ Append(q, x)[i] = q[i]
<1>1. /\ Append(q, x) \in Seq(S) /\ Len(Append(q, x)) = Len(q) + 1
      /\ \A i \in 1..Len(q) : Append(q, x)[i] = q[i]
      /\ Append(q, x)[Len(q) + 1] = x
  BY AppendProperties
<1>2. DOMAIN q = 1..Len(q) /\ Len(q) \in Nat /\ DOMAIN Append(q, x) = 1..(Len(q) + 1)
  BY <1>1, QueuePlaces
<1> QED
  BY <1>1, <1>2

\* pop.
LEMMA Popped ==
  ASSUME NEW S, NEW q \in Seq(S), q # <<>>
  PROVE  /\ Last(q) \in S /\ Front(q) \in Seq(S)
         /\ \A i \in DOMAIN Front(q) : i \in DOMAIN q /\ Front(q)[i] = q[i]
         /\ \A i \in DOMAIN q : (i \in DOMAIN Front(q) /\ Front(q)[i] = q[i]) \/ q[i] = Last(q)
         /\ \E i \in DOMAIN q : q[i] = Last(q)
<1>1. Len(q) \in Nat \ {0} /\ DOMAIN q = 1..Len(q) /\ \A i \in 1..Len(q) : q[i] \in S
  BY QueuePlaces, EmptySeq
<1>2. /\ SubSeq(q, 1, Len(q) - 1) \in Seq(S)
      /\ Len(SubSeq(q, 1, Len(q) - 1)) = IF 1 <= Len(q) - 1 THEN Len(q) - 1 - 1 + 1 ELSE 0
      /\ \A i \in 1..(Len(q) - 1 - 1 + 1) : SubSeq(q, 1, Len(q) - 1)[i] = q[1 + i - 1]
  <2>1. \A i \in 1..(Len(q) - 1) : q[i] \in S
    BY <1>1
  <2> QED
    BY <1>1, <2>1, SubSeqProperties
<1>3. /\ Front(q) \in Seq(S) /\ Len(Front(q)) = Len(q) - 1
      /\ \A i \in 1..(Len(q) - 1) : Front(q)[i] = q[i]
  BY <1>1, <1>2 DEF Front
<1>4. DOMAIN Front(q) = 1..(Len(q) - 1)
  BY <1>3, QueuePlaces
<1> QED
  BY <1>1, <1>3, <1>4 DEF Last

\* splice(k, 1).
LEMMA Spliced ==
  ASSUME NEW S, NEW q \in Seq(S), NEW k \in DOMAIN q
  PROVE  /\ RemoveAt(q, k) \in Seq(S)
         /\ Len(RemoveAt(q, k)) = Len(q) - 1
         /\ \A i \in DOMAIN RemoveAt(q, k) :
              /\ i \in DOMAIN q /\ i + 1 \in DOMAIN q
              /\ RemoveAt(q, k)[i] = IF i < k THEN q[i] ELSE q[i + 1]
<1> DEFINE a == SubSeq(q, 1, k - 1)
           b == SubSeq(q, k + 1, Len(q))
<1>1. Len(q) \in Nat /\ DOMAIN q = 1..Len(q) /\ \A i \in 1..Len(q) : q[i] \in S
  BY QueuePlaces
<1>2. k \in 1..Len(q) /\ k \in Nat \ {0} /\ k - 1 \in Nat
  BY <1>1
<1>3. /\ a \in Seq(S) /\ Len(a) = k - 1
      /\ \A i \in 1..(k - 1) : a[i] = q[i]
  <2>1. \A i \in 1..(k - 1) : q[i] \in S
    BY <1>1, <1>2
  <2>2. /\ a \in Seq(S) /\ Len(a) = IF 1 <= k - 1 THEN k - 1 - 1 + 1 ELSE 0
        /\ \A i \in 1..(k - 1 - 1 + 1) : a[i] = q[1 + i - 1]
    BY <1>2, <2>1, SubSeqProperties
  <2> HIDE DEF a
  <2> QED
    BY <1>2, <2>2
<1>4. /\ b \in Seq(S) /\ Len(b) = Len(q) - k
      /\ \A i \in 1..(Len(q) - k) : b[i] = q[k + i]
  <2>1. \A i \in (k + 1)..Len(q) : q[i] \in S
    BY <1>1, <1>2
  <2>2. /\ b \in Seq(S) /\ Len(b) = IF k + 1 <= Len(q) THEN Len(q) - (k + 1) + 1 ELSE 0
        /\ \A i \in 1..(Len(q) - (k + 1) + 1) : b[i] = q[k + 1 + i - 1]
    BY <1>1, <1>2, <2>1, SubSeqProperties
  <2> HIDE DEF b
  <2>3. Len(b) = Len(q) - k
    BY <1>1, <1>2, <2>2
  <2>4. ASSUME NEW i \in 1..(Len(q) - k)
        PROVE  b[i] = q[k + i]
    <3>1. i \in 1..(Len(q) - (k + 1) + 1) /\ k + 1 + i - 1 = k + i
      BY <1>1, <1>2
    <3> QED
      BY <2>2, <3>1
  <2> QED
    BY <2>2, <2>3, <2>4
<1> HIDE DEF a, b
<1>5. /\ a \o b \in Seq(S) /\ Len(a \o b) = Len(q) - 1
      /\ \A i \in 1..(Len(q) - 1) : (a \o b)[i] = IF i <= k - 1 THEN a[i] ELSE b[i - (k - 1)]
  <2>1. /\ a \o b \in Seq(S) /\ Len(a \o b) = Len(a) + Len(b)
        /\ \A i \in 1..(Len(a) + Len(b)) :
             (a \o b)[i] = IF i <= Len(a) THEN a[i] ELSE b[i - Len(a)]
    BY <1>3, <1>4, ConcatProperties
  <2>2. Len(a) + Len(b) = Len(q) - 1
    BY <1>1, <1>2, <1>3, <1>4
  <2> QED
    BY <1>3, <2>1, <2>2
<1>6. \A i \in 1..(Len(q) - 1) : (a \o b)[i] = IF i < k THEN q[i] ELSE q[i + 1]
  <2> SUFFICES ASSUME NEW i \in 1..(Len(q) - 1)
               PROVE  (a \o b)[i] = IF i < k THEN q[i] ELSE q[i + 1]
    OBVIOUS
  <2>1. CASE i < k
    BY <1>1, <1>2, <1>3, <1>5, <2>1
  <2>2. CASE ~(i < k)
    <3>1. i - (k - 1) \in 1..(Len(q) - k) /\ k + (i - (k - 1)) = i + 1 /\ ~(i <= k - 1)
      BY <1>1, <1>2, <2>2
    <3>2. b[i - (k - 1)] = q[k + (i - (k - 1))]
      BY <1>4, <3>1
    <3> QED
      BY <1>5, <2>2, <3>1, <3>2
  <2> QED
    BY <2>1, <2>2
<1>7. RemoveAt(q, k) = a \o b
  BY DEF RemoveAt, a, b
<1>8. DOMAIN RemoveAt(q, k) = 1..(Len(q) - 1)
  BY <1>5, <1>7, QueuePlaces
<1>9. \A i \in 1..(Len(q) - 1) : i \in DOMAIN q /\ i + 1 \in DOMAIN q
  BY <1>1
<1>10. \A i \in 1..(Len(q) - 1) : RemoveAt(q, k)[i] = IF i < k THEN q[i] ELSE q[i + 1]
  BY <1>6, <1>7
<1> QED
  BY <1>5, <1>7, <1>8, <1>9, <1>10

\* sort(whenCompare).
LEMMA SortedArray ==
  ASSUME NEW S, NEW q \in Seq(S), NEW s \in Sorted(q)
  PROVE  /\ s \in Seq(S) /\ DOMAIN s = DOMAIN q
         /\ \A i, j \in DOMAIN s : i < j => s[i].when <= s[j].when
         /\ \E p \in [DOMAIN q -> DOMAIN q] :
              /\ \A i \in DOMAIN q : s[i] = q[p[i]]
              /\ \A i, j \in DOMAIN q : p[i] = p[j] => i = j
<1>1. DOMAIN q = 1..Len(q) /\ Len(q) \in Nat /\ \A i \in DOMAIN q : q[i] \in S
  BY QueuePlaces
<1>2. PICK p \in Bijection(DOMAIN q, DOMAIN q) : s = [i \in DOMAIN q |-> q[p[i]]]
  BY DEF Sorted
<1>3. p \in [DOMAIN q -> DOMAIN q] /\ \A i, j \in DOMAIN q : p[i] = p[j] => i = j
  BY DEF Bijection, Injection, IsInjective
<1>4. s \in [1..Len(q) -> S]
  BY <1>1, <1>2, <1>3
<1>5. s \in Seq(S) /\ DOMAIN s = DOMAIN q
  BY <1>1, <1>4, IsASeq
<1>6. \A i, j \in DOMAIN q : i < j => s[i].when <= s[j].when
  BY DEF Sorted
<1> QED
  BY <1>2, <1>3, <1>5, <1>6

-----------------------------------------------------------------------------
(* Reactor: what the functions that the loop calls do                        *)

\* The initial state has the inductive invariant.
LEMMA InitReactor == ReactorInit => ReactorInv
<1> SUFFICES ASSUME ReactorInit PROVE ReactorInv
  OBVIOUS
<1>1. /\ <<>> \in Seq(Events) /\ <<>> \in Seq(Timeouts) /\ <<>> \in Seq(Intervals)
  BY EmptySeq
<1>2. 1..0 = {}
  OBVIOUS
<1>3. /\ Len(rePending) = 0 /\ DOMAIN rePending = 1..Len(rePending)
      /\ Len(reScheduled) = 0 /\ DOMAIN reScheduled = 1..Len(reScheduled)
      /\ Len(reRecurring) = 0 /\ DOMAIN reRecurring = 1..Len(reRecurring)
      /\ Len(reMaintenance) = 0 /\ DOMAIN reMaintenance = 1..Len(reMaintenance)
      /\ Len(reCleanups) = 0 /\ DOMAIN reCleanups = 1..Len(reCleanups)
  BY <1>1, QueuePlaces, EmptySeq DEF ReactorInit
<1>4. ReactorTypeOK
  <2>1. /\ reNow \in 0..LastTime /\ reClock \in Epoch..LastTime
        /\ reRole \in [Events -> Roles]
    BY ReactorAssumption DEF ReactorInit, Roles
  <2>2. /\ {rePending, reMaintenance, reCleanups} \subseteq Seq(Events)
        /\ reScheduled \in Seq(Timeouts) /\ reRecurring \in Seq(Intervals)
    BY <1>1 DEF ReactorInit
  <2> QED
    BY <2>1, <2>2 DEF ReactorInit, ReactorTypeOK
<1>5. LoopInv
  BY ReactorAssumption DEF ReactorInit, LoopInv
<1>6. Scheduled /\ TimeoutsSorted /\ CleanupInv
  BY <1>2, <1>3 DEF ReactorInit, Scheduled, TimeoutsSorted, CleanupInv
<1> QED
  BY <1>4, <1>5, <1>6 DEF ReactorInv, ReactorInit

\* The types of the arrays, and where they have their elements.
LEMMA Arrays ==
  ASSUME ReactorInv
  PROVE  /\ rePending \in Seq(Events) /\ reMaintenance \in Seq(Events)
         /\ reCleanups \in Seq(Events)
         /\ reScheduled \in Seq(Timeouts) /\ reRecurring \in Seq(Intervals)
         /\ \A i \in DOMAIN rePending : rePending[i] \in Events
         /\ \A i \in DOMAIN reMaintenance : reMaintenance[i] \in Events
         /\ \A i \in DOMAIN reCleanups : reCleanups[i] \in Events
         /\ \A i \in DOMAIN reScheduled :
              reScheduled[i].id \in Events /\ reScheduled[i].when \in Nat
         /\ \A i \in DOMAIN reRecurring :
              reRecurring[i].id \in Events /\ reRecurring[i].when \in Nat
              /\ reRecurring[i].delay \in Nat
         /\ DOMAIN reScheduled = 1..Len(reScheduled) /\ Len(reScheduled) \in Nat
         /\ DOMAIN reRecurring = 1..Len(reRecurring) /\ Len(reRecurring) \in Nat
         /\ DOMAIN reMaintenance = 1..Len(reMaintenance) /\ Len(reMaintenance) \in Nat
         /\ reNow \in Nat /\ reClock \in Nat /\ reNow <= reClock /\ reClock <= LastTime
         /\ reRole \in [Events -> Roles]
<1>1. /\ rePending \in Seq(Events) /\ reMaintenance \in Seq(Events)
      /\ reCleanups \in Seq(Events)
      /\ reScheduled \in Seq(Timeouts) /\ reRecurring \in Seq(Intervals)
  BY DEF ReactorInv, ReactorTypeOK
<1>2. /\ \A i \in DOMAIN rePending : rePending[i] \in Events
      /\ \A i \in DOMAIN reMaintenance : reMaintenance[i] \in Events
      /\ \A i \in DOMAIN reCleanups : reCleanups[i] \in Events
      /\ \A i \in DOMAIN reScheduled : reScheduled[i] \in Timeouts
      /\ \A i \in DOMAIN reRecurring : reRecurring[i] \in Intervals
      /\ DOMAIN reScheduled = 1..Len(reScheduled) /\ Len(reScheduled) \in Nat
      /\ DOMAIN reRecurring = 1..Len(reRecurring) /\ Len(reRecurring) \in Nat
      /\ DOMAIN reMaintenance = 1..Len(reMaintenance) /\ Len(reMaintenance) \in Nat
  BY <1>1, QueuePlaces
<1>3. /\ \A i \in DOMAIN reScheduled :
           reScheduled[i].id \in Events /\ reScheduled[i].when \in Nat
      /\ \A i \in DOMAIN reRecurring :
           reRecurring[i].id \in Events /\ reRecurring[i].when \in Nat
           /\ reRecurring[i].delay \in Nat
  BY <1>2 DEF Timeouts, Intervals
<1>4. /\ reNow \in Nat /\ reClock \in Nat /\ reNow <= reClock /\ reClock <= LastTime
      /\ reRole \in [Events -> Roles]
  BY ReactorAssumption DEF ReactorInv, ReactorTypeOK, LoopInv
<1> QED
  BY <1>1, <1>2, <1>3, <1>4

\* What a registration leaves as it was.
LEMMA RegisterStep ==
  ASSUME ReactorInv, NEW e \in Events, NEW role \in Roles \ {"fresh"}, Register(e, role)
  PROVE  /\ UNCHANGED <<rePc, reCalled, reCurrent, reIndex, reNow, reClock, reQuit, reFailed,
                        reFinished>>
         /\ reCalled /\ ~reFailed
         /\ reRole' \in [Events -> Roles] /\ reRole'[e] = role
         /\ \A f \in Events \ {e} : reRole'[f] = reRole[f]
         /\ \A i \in DOMAIN rePending : reRole'[rePending[i]] = "task"
         /\ \A i \in DOMAIN reScheduled :
              reRole'[reScheduled[i].id] = "timeout" /\ reScheduled[i].id # e
         /\ \A i \in DOMAIN reRecurring : reRole'[reRecurring[i].id] = "interval"
         /\ \A i \in DOMAIN reMaintenance : reRole'[reMaintenance[i]] = "maintenance"
         /\ role # "cleanup" /\ UNCHANGED reCleanups => CleanupInv'
         /\ Len(reMaintenance') \in Nat /\ Len(reMaintenance') >= Len(reMaintenance) => LoopInv'
         /\ rePc # "over"
<1>1. /\ UNCHANGED <<rePc, reCalled, reCurrent, reIndex, reNow, reClock, reQuit, reFailed,
                     reFinished>>
      /\ reCalled /\ reRole[e] = "fresh" /\ reRole' = [reRole EXCEPT ![e] = role]
  BY DEF Register, IsNext, reLoopVars, reEndVars
<1>2. reRole \in [Events -> Roles]
  BY Arrays
<1>3. /\ reRole' \in [Events -> Roles] /\ reRole'[e] = role
      /\ \A f \in Events \ {e} : reRole'[f] = reRole[f]
  BY <1>1, <1>2
<1>4. /\ \A i \in DOMAIN rePending : reRole[rePending[i]] = "task"
      /\ \A i \in DOMAIN reScheduled : reRole[reScheduled[i].id] = "timeout"
      /\ \A i \in DOMAIN reRecurring : reRole[reRecurring[i].id] = "interval"
      /\ \A i \in DOMAIN reMaintenance : reRole[reMaintenance[i]] = "maintenance"
  BY DEF ReactorInv, Scheduled
<1>5. /\ \A i \in DOMAIN rePending : reRole'[rePending[i]] = "task"
      /\ \A i \in DOMAIN reScheduled :
           reRole'[reScheduled[i].id] = "timeout" /\ reScheduled[i].id # e
      /\ \A i \in DOMAIN reRecurring : reRole'[reRecurring[i].id] = "interval"
      /\ \A i \in DOMAIN reMaintenance : reRole'[reMaintenance[i]] = "maintenance"
  BY <1>1, <1>3, <1>4, Arrays
<1>6. rePc # "over" /\ ~reFailed
  BY <1>1 DEF ReactorInv, LoopInv
<1>7. ASSUME role # "cleanup", UNCHANGED reCleanups PROVE CleanupInv'
  BY <1>1, <1>3, <1>6, <1>7 DEF ReactorInv, CleanupInv
<1>8. ASSUME Len(reMaintenance') \in Nat, Len(reMaintenance') >= Len(reMaintenance)
      PROVE  LoopInv'
  <2>1. Len(reMaintenance) \in Nat
    BY Arrays
  <2> QED
    BY <1>1, <1>8, <2>1 DEF ReactorInv, LoopInv
<1> QED
  BY <1>1, <1>3, <1>5, <1>6, <1>7, <1>8

\* runSoon pushes to the pending events.
LEMMA RunSoonKeeps ==
  ASSUME ReactorInv, NEW e \in Events, RunSoon(e)
  PROVE  ReactorInv'
<1>1. /\ Register(e, "task") /\ "task" \in Roles \ {"fresh"}
      /\ rePending' = Append(rePending, e)
      /\ UNCHANGED <<reScheduled, reScheduledDirty, reRecurring, reRecurringDirty, reMaintenance,
                     reCleanups>>
  BY DEF RunSoon, Roles, timerVars, intervalVars
<1>2. /\ rePending' \in Seq(Events)
      /\ \A i \in DOMAIN rePending' : (i \in DOMAIN rePending /\ rePending'[i] = rePending[i])
                                      \/ rePending'[i] = e
  BY <1>1, Arrays, Pushed
<1>3. ReactorTypeOK'
  BY <1>1, <1>2, RegisterStep DEF ReactorInv, ReactorTypeOK
<1>4. LoopInv' /\ CleanupInv'
  BY <1>1, RegisterStep, Arrays
<1>5. Scheduled'
  BY <1>1, <1>2, RegisterStep DEF ReactorInv, Scheduled
<1>6. TimeoutsSorted'
  BY <1>1, RegisterStep DEF ReactorInv, TimeoutsSorted
<1> QED
  BY <1>1, <1>3, <1>4, <1>5, <1>6, RegisterStep DEF ReactorInv

\* registerMaintenance pushes: the loop, when it has called a maintenance function, stays
\* within the longer array.
LEMMA RegisterMaintenanceKeeps ==
  ASSUME ReactorInv, NEW e \in Events, RegisterMaintenance(e)
  PROVE  ReactorInv'
<1>1. /\ Register(e, "maintenance") /\ "maintenance" \in Roles \ {"fresh"}
      /\ reMaintenance' = Append(reMaintenance, e)
      /\ UNCHANGED <<reScheduled, reScheduledDirty, reRecurring, reRecurringDirty, rePending,
                     reCleanups>>
  BY DEF RegisterMaintenance, Roles, timerVars, intervalVars
<1>2. /\ reMaintenance' \in Seq(Events) /\ Len(reMaintenance') = Len(reMaintenance) + 1
      /\ \A i \in DOMAIN reMaintenance' :
           (i \in DOMAIN reMaintenance /\ reMaintenance'[i] = reMaintenance[i])
           \/ reMaintenance'[i] = e
  BY <1>1, Arrays, Pushed
<1>3. ReactorTypeOK'
  BY <1>1, <1>2, RegisterStep DEF ReactorInv, ReactorTypeOK
<1>4. Len(reMaintenance') \in Nat /\ Len(reMaintenance') >= Len(reMaintenance)
  BY <1>2, Arrays
<1>5. LoopInv' /\ CleanupInv'
  BY <1>1, <1>4, RegisterStep
<1>6. Scheduled'
  BY <1>1, <1>2, RegisterStep DEF ReactorInv, Scheduled
<1>7. TimeoutsSorted'
  BY <1>1, RegisterStep DEF ReactorInv, TimeoutsSorted
<1> QED
  BY <1>1, <1>3, <1>5, <1>6, <1>7, RegisterStep DEF ReactorInv

\* registerCleanup pushes: the new clean-up is in the array, and only it is new.
LEMMA RegisterCleanupKeeps ==
  ASSUME ReactorInv, NEW e \in Events, RegisterCleanup(e)
  PROVE  ReactorInv'
<1>1. /\ Register(e, "cleanup") /\ "cleanup" \in Roles \ {"fresh"}
      /\ reCleanups' = Append(reCleanups, e)
      /\ UNCHANGED <<reScheduled, reScheduledDirty, reRecurring, reRecurringDirty, rePending,
                     reMaintenance>>
  BY DEF RegisterCleanup, Roles, timerVars, intervalVars
<1>2. /\ reCleanups' \in Seq(Events)
      /\ \A i \in DOMAIN reCleanups' :
           (i \in DOMAIN reCleanups /\ reCleanups'[i] = reCleanups[i]) \/ reCleanups'[i] = e
      /\ \A i \in DOMAIN reCleanups : i \in DOMAIN reCleanups' /\ reCleanups'[i] = reCleanups[i]
      /\ \E i \in DOMAIN reCleanups' : reCleanups'[i] = e
  <2>1. reCleanups \in Seq(Events)
    BY Arrays
  <2> QED
    BY <1>1, <2>1, Pushed
<1>3. ReactorTypeOK'
  BY <1>1, <1>2, RegisterStep DEF ReactorInv, ReactorTypeOK
<1>4. LoopInv'
  BY <1>1, RegisterStep, Arrays
<1>5. Scheduled'
  BY <1>1, RegisterStep DEF ReactorInv, Scheduled
<1>6. TimeoutsSorted'
  BY <1>1, RegisterStep DEF ReactorInv, TimeoutsSorted
<1>7. CleanupInv'
  <2>1. /\ reRole'[e] = "cleanup" /\ \A f \in Events \ {e} : reRole'[f] = reRole[f]
        /\ UNCHANGED <<rePc, reCalled, reCurrent, reFailed, reFinished>> /\ ~reFailed
    BY <1>1, RegisterStep
  <2>2. \A f \in Events \ {e} : (\E i \in DOMAIN reCleanups' : reCleanups'[i] = f)
                                <=> (\E i \in DOMAIN reCleanups : reCleanups[i] = f)
    BY <1>2
  <2> QED
    BY <1>2, <2>1, <2>2 DEF ReactorInv, CleanupInv
<1> QED
  BY <1>1, <1>3, <1>4, <1>5, <1>6, <1>7, RegisterStep DEF ReactorInv

\* setTimeout pushes a timeout that is not due in this turn of the loop, and makes the
\* array dirty.
LEMMA SetTimeoutKeeps ==
  ASSUME ReactorInv, NEW e \in Events, NEW d \in Delays, SetTimeout(e, d)
  PROVE  ReactorInv'
<1> DEFINE x == [id |-> e, when |-> d + reClock]
<1>1. /\ Register(e, "timeout") /\ "timeout" \in Roles \ {"fresh"}
      /\ reScheduled' = Append(reScheduled, x) /\ reScheduledDirty' = TRUE
      /\ UNCHANGED <<rePending, reRecurring, reRecurringDirty, reMaintenance, reCleanups>>
  BY DEF SetTimeout, Roles, intervalVars
<1>2. d \in Nat /\ d + reClock \in Nat /\ d + reClock >= reNow
  BY Arrays, ReactorAssumption
<1>3. x \in Timeouts /\ x.id = e /\ x.when >= reNow /\ x.when \in Nat
  BY <1>2 DEF Timeouts
<1> HIDE DEF x
<1>4. /\ reScheduled' \in Seq(Timeouts)
      /\ \A i \in DOMAIN reScheduled' :
           \/ i \in DOMAIN reScheduled /\ reScheduled'[i] = reScheduled[i]
           \/ i = Len(reScheduled) + 1 /\ reScheduled'[i] = x
  BY <1>1, <1>3, Arrays, Pushed
<1>5. ReactorTypeOK'
  BY <1>1, <1>4, RegisterStep DEF ReactorInv, ReactorTypeOK
<1>6. LoopInv' /\ CleanupInv'
  BY <1>1, RegisterStep, Arrays
<1>7. Scheduled'
  <2>1. \A i \in DOMAIN reScheduled' : reRole'[reScheduled'[i].id] = "timeout"
    BY <1>1, <1>3, <1>4, RegisterStep
  <2>2. \A i \in DOMAIN reScheduled : reScheduled[i].id # e
    BY <1>1, RegisterStep
  <2>3. \A i, j \in DOMAIN reScheduled : reScheduled[i].id = reScheduled[j].id => i = j
    BY DEF ReactorInv, Scheduled
  <2>4. \A i, j \in DOMAIN reScheduled' : reScheduled'[i].id = reScheduled'[j].id => i = j
    BY <1>3, <1>4, <2>2, <2>3
  <2> QED
    BY <1>1, <2>1, <2>4, RegisterStep DEF Scheduled
<1>8. TimeoutsSorted'
  <2> SUFFICES ASSUME NEW i \in DOMAIN reScheduled', NEW j \in DOMAIN reScheduled', i < j
               PROVE  \/ reScheduled'[i].when <= reScheduled'[j].when
                      \/ reScheduledDirty' /\ (rePc' = "scheduled" => reScheduled'[j].when >= reNow')
    BY DEF TimeoutsSorted
  <2>1. CASE j = Len(reScheduled) + 1 /\ reScheduled'[j] = x
    BY <1>1, <1>3, <2>1, RegisterStep
  <2>2. CASE j \in DOMAIN reScheduled /\ reScheduled'[j] = reScheduled[j]
    <3>1. i \in DOMAIN reScheduled /\ reScheduled'[i] = reScheduled[i]
      BY <1>4, <2>2, Arrays
    <3> QED
      BY <1>1, <2>2, <3>1, RegisterStep DEF ReactorInv, TimeoutsSorted
  <2> QED
    BY <1>4, <2>1, <2>2
<1> QED
  BY <1>1, <1>5, <1>6, <1>7, <1>8, RegisterStep DEF ReactorInv

\* setInterval pushes, and makes the array dirty.
LEMMA SetIntervalKeeps ==
  ASSUME ReactorInv, NEW e \in Events, NEW d \in Delays, SetInterval(e, d)
  PROVE  ReactorInv'
<1> DEFINE delay == IF d < IntervalClamp THEN IntervalClamp ELSE d
           x == [id |-> e, when |-> delay, delay |-> delay]
<1>1. /\ Register(e, "interval") /\ "interval" \in Roles \ {"fresh"}
      /\ reRecurring' = Append(reRecurring, x)
      /\ UNCHANGED <<rePending, reScheduled, reScheduledDirty, reMaintenance, reCleanups>>
      /\ reRecurringDirty' \in BOOLEAN
  BY DEF SetInterval, Roles, timerVars
<1>2. delay \in Nat
  BY ReactorAssumption
<1> HIDE DEF delay
<1>3. x \in Intervals /\ x.id = e
  BY <1>2 DEF Intervals
<1> HIDE DEF x
<1>4. /\ reRecurring' \in Seq(Intervals)
      /\ \A i \in DOMAIN reRecurring' :
           (i \in DOMAIN reRecurring /\ reRecurring'[i] = reRecurring[i]) \/ reRecurring'[i] = x
  BY <1>1, <1>3, Arrays, Pushed
<1>5. ReactorTypeOK'
  BY <1>1, <1>4, RegisterStep DEF ReactorInv, ReactorTypeOK
<1>6. LoopInv' /\ CleanupInv'
  BY <1>1, RegisterStep, Arrays
<1>7. Scheduled'
  BY <1>1, <1>3, <1>4, RegisterStep DEF ReactorInv, Scheduled
<1>8. TimeoutsSorted'
  BY <1>1, RegisterStep DEF ReactorInv, TimeoutsSorted
<1> QED
  BY <1>1, <1>5, <1>6, <1>7, <1>8, RegisterStep DEF ReactorInv

\* What indexOf and splice leave of an array.
LEMMA WithoutOne ==
  ASSUME NEW S, NEW q \in Seq(S), NEW e
  PROVE  /\ Without(q, e) \in Seq(S)
         /\ \E move \in [DOMAIN Without(q, e) -> DOMAIN q] :
              /\ \A i \in DOMAIN Without(q, e) : Without(q, e)[i] = q[move[i]]
              /\ \A i, j \in DOMAIN Without(q, e) : i < j <=> move[i] < move[j]
<1>1. DOMAIN q = 1..Len(q) /\ Len(q) \in Nat
  BY QueuePlaces
<1>2. CASE \E i \in DOMAIN q : q[i].id = e
  <2>1. PICK k \in DOMAIN q : Without(q, e) = RemoveAt(q, k)
    BY <1>2 DEF Without
  <2>2. /\ RemoveAt(q, k) \in Seq(S)
        /\ Len(RemoveAt(q, k)) = Len(q) - 1
        /\ \A i \in DOMAIN RemoveAt(q, k) :
             /\ i \in DOMAIN q /\ i + 1 \in DOMAIN q
             /\ RemoveAt(q, k)[i] = IF i < k THEN q[i] ELSE q[i + 1]
    BY Spliced
  <2> DEFINE move == [i \in DOMAIN RemoveAt(q, k) |-> IF i < k THEN i ELSE i + 1]
  <2>3. move \in [DOMAIN RemoveAt(q, k) -> DOMAIN q]
    BY <2>2
  <2>4. \A i \in DOMAIN RemoveAt(q, k) : RemoveAt(q, k)[i] = q[move[i]]
    BY <2>2
  <2>5. \A i, j \in DOMAIN RemoveAt(q, k) : i < j <=> move[i] < move[j]
    BY <1>1, <2>2
  <2> HIDE DEF move
  <2> QED
    BY <2>1, <2>2, <2>3, <2>4, <2>5
<1>3. CASE ~\E i \in DOMAIN q : q[i].id = e
  <2>1. Without(q, e) = q
    BY <1>3 DEF Without
  <2> DEFINE move == [i \in DOMAIN q |-> i]
  <2>2. /\ move \in [DOMAIN q -> DOMAIN q]
        /\ \A i \in DOMAIN q : q[i] = q[move[i]]
        /\ \A i, j \in DOMAIN q : i < j <=> move[i] < move[j]
    OBVIOUS
  <2> QED
    BY <2>1, <2>2
<1> QED
  BY <1>2, <1>3

\* clearTimeout leaves the others in their order.
LEMMA ClearTimeoutKeeps ==
  ASSUME ReactorInv, NEW e \in Events, ClearTimeout(e)
  PROVE  ReactorInv'
<1>1. /\ reScheduled' = Without(reScheduled, e) /\ reScheduledDirty' = TRUE
      /\ UNCHANGED <<rePc, reCalled, reCurrent, reIndex, reNow, reClock, reRole, rePending,
                     reRecurring, reRecurringDirty, reMaintenance, reCleanups, reQuit, reFailed,
                     reFinished>>
  BY DEF ClearTimeout, reLoopVars, intervalVars, reEndVars
<1>2. reScheduled \in Seq(Timeouts)
  BY Arrays
<1>3. PICK move \in [DOMAIN reScheduled' -> DOMAIN reScheduled] :
        /\ reScheduled' \in Seq(Timeouts)
        /\ \A i \in DOMAIN reScheduled' : reScheduled'[i] = reScheduled[move[i]]
        /\ \A i, j \in DOMAIN reScheduled' : i < j <=> move[i] < move[j]
  BY <1>1, <1>2, WithoutOne
<1>4. /\ DOMAIN reScheduled = 1..Len(reScheduled) /\ Len(reScheduled) \in Nat
      /\ DOMAIN reScheduled' = 1..Len(reScheduled') /\ Len(reScheduled') \in Nat
  BY <1>2, <1>3, QueuePlaces
<1>5. ReactorTypeOK'
  BY <1>1, <1>3 DEF ReactorInv, ReactorTypeOK
<1>6. LoopInv' /\ CleanupInv'
  BY <1>1 DEF ReactorInv, LoopInv, CleanupInv
<1>7. Scheduled'
  <2>1. \A i \in DOMAIN reScheduled' : reRole[reScheduled'[i].id] = "timeout"
    BY <1>3 DEF ReactorInv, Scheduled
  <2>2. ASSUME NEW i \in DOMAIN reScheduled', NEW j \in DOMAIN reScheduled',
               reScheduled'[i].id = reScheduled'[j].id
        PROVE  i = j
    <3>1. move[i] = move[j] /\ move[i] \in DOMAIN reScheduled
      BY <1>3, <2>2 DEF ReactorInv, Scheduled
    <3> QED
      BY <1>3, <1>4, <3>1
  <2> QED
    BY <1>1, <2>1, <2>2 DEF ReactorInv, Scheduled
<1>8. TimeoutsSorted'
  <2> SUFFICES ASSUME NEW i \in DOMAIN reScheduled', NEW j \in DOMAIN reScheduled', i < j
               PROVE  \/ reScheduled'[i].when <= reScheduled'[j].when
                      \/ reScheduledDirty' /\ (rePc' = "scheduled" => reScheduled'[j].when >= reNow')
    BY DEF TimeoutsSorted
  <2>1. move[i] \in DOMAIN reScheduled /\ move[j] \in DOMAIN reScheduled /\ move[i] < move[j]
    BY <1>3
  <2> QED
    BY <1>1, <1>3, <2>1 DEF ReactorInv, TimeoutsSorted
<1> QED
  BY <1>1, <1>5, <1>6, <1>7, <1>8 DEF ReactorInv

\* clearInterval.
LEMMA ClearIntervalKeeps ==
  ASSUME ReactorInv, NEW e \in Events, ClearInterval(e)
  PROVE  ReactorInv'
<1>1. /\ reRecurring' = Without(reRecurring, e) /\ reRecurringDirty' = TRUE
      /\ UNCHANGED <<rePc, reCalled, reCurrent, reIndex, reNow, reClock, reRole, rePending,
                     reScheduled, reScheduledDirty, reMaintenance, reCleanups, reQuit, reFailed,
                     reFinished>>
  BY DEF ClearInterval, reLoopVars, timerVars, reEndVars
<1>2. reRecurring \in Seq(Intervals)
  BY Arrays
<1>3. PICK move \in [DOMAIN reRecurring' -> DOMAIN reRecurring] :
        /\ reRecurring' \in Seq(Intervals)
        /\ \A i \in DOMAIN reRecurring' : reRecurring'[i] = reRecurring[move[i]]
  BY <1>1, <1>2, WithoutOne
<1>4. ReactorTypeOK'
  BY <1>1, <1>3 DEF ReactorInv, ReactorTypeOK
<1>5. LoopInv' /\ CleanupInv' /\ TimeoutsSorted'
  BY <1>1 DEF ReactorInv, LoopInv, CleanupInv, TimeoutsSorted
<1>6. Scheduled'
  BY <1>1, <1>3 DEF ReactorInv, Scheduled
<1> QED
  BY <1>1, <1>4, <1>5, <1>6 DEF ReactorInv

\* The arrays stay as they are: a script quits, and time passes.
LEMMA QuitKeeps ==
  ASSUME ReactorInv, Quit
  PROVE  ReactorInv'
<1>1. /\ reQuit' = TRUE
      /\ UNCHANGED <<rePc, reCalled, reCurrent, reIndex, reNow, reClock, reRole, rePending,
                     reScheduled, reScheduledDirty, reRecurring, reRecurringDirty, reMaintenance,
                     reCleanups, reFailed, reFinished>>
  BY DEF Quit, reLoopVars, reEventVars, timerVars, intervalVars
<1> QED
  BY <1>1 DEF ReactorInv, ReactorTypeOK, LoopInv, Scheduled, TimeoutsSorted, CleanupInv

\* The clock goes on.
LEMMA TimePassesKeeps ==
  ASSUME ReactorInv, TimePasses
  PROVE  ReactorInv'
<1>1. /\ reClock' = reClock + 1 /\ reClock < LastTime
      /\ UNCHANGED <<rePc, reCalled, reCurrent, reIndex, reNow, reQuit, reRole, rePending,
                     reScheduled, reScheduledDirty, reRecurring, reRecurringDirty, reMaintenance,
                     reCleanups, reFailed, reFinished>>
  BY DEF TimePasses, reLoopVars, reEventVars, timerVars, intervalVars, reEndVars
<1>2. reClock' \in Epoch..LastTime /\ reNow <= reClock'
  BY <1>1, ReactorAssumption, Arrays DEF ReactorInv, ReactorTypeOK
<1>3. ReactorTypeOK' /\ LoopInv'
  BY <1>1, <1>2 DEF ReactorInv, ReactorTypeOK, LoopInv
<1> QED
  BY <1>1, <1>3 DEF ReactorInv, Scheduled, TimeoutsSorted, CleanupInv

-----------------------------------------------------------------------------
(* Reactor: the steps of the loop                                            *)

\* While the loop is between two calls, a clean-up is not being called.
LEMMA BetweenCalls ==
  ASSUME ReactorInv, ~reCalled, rePc # "over",
         UNCHANGED <<reRole, reFailed, reFinished, reCleanups>>,
         rePc' = "cleanup" => ~reCalled'
  PROVE  CleanupInv' /\ ~reFailed'
  BY DEF ReactorInv, CleanupInv, LoopInv

\* The loop goes on to another array, or round.
LEMMA GotoKeeps ==
  ASSUME ReactorInv, ~reCalled, rePc # "over",
         rePc' \in {"top", "pending", "maintenance", "cleanup", "over"},
         reIndex' \in Nat \ {0}, reNow' \in 0..LastTime, reNow' <= reClock,
         rePc' = "over" => reCleanups = <<>>,
         UNCHANGED <<reCalled, reCurrent, reClock, reRole, rePending, reScheduled,
                     reScheduledDirty, reRecurring, reRecurringDirty, reMaintenance, reCleanups,
                     reQuit, reFailed, reFinished>>
  PROVE  ReactorInv'
<1>1. ReactorTypeOK'
  BY DEF ReactorInv, ReactorTypeOK
<1>2. CleanupInv' /\ ~reFailed'
  BY BetweenCalls
<1>3. LoopInv'
  BY <1>2 DEF ReactorInv, LoopInv
<1>4. Scheduled' /\ TimeoutsSorted'
  BY DEF ReactorInv, Scheduled, TimeoutsSorted
<1> QED
  BY <1>1, <1>2, <1>3, <1>4 DEF ReactorInv

\* The loop calls an event of an array that stays as it is.
LEMMA CallKeeps ==
  ASSUME ReactorInv, ~reCalled, rePc \in {"recurring", "maintenance", "retry"},
         reCalled', reCalled' \in BOOLEAN, reCurrent' \in Events,
         rePc # "recurring" => reIndex <= Len(reMaintenance),
         UNCHANGED <<rePc, reIndex, reNow, reClock, reRole, rePending, reScheduled,
                     reScheduledDirty, reRecurring, reRecurringDirty, reMaintenance, reCleanups,
                     reQuit, reFailed, reFinished>>
  PROVE  ReactorInv'
<1>1. ReactorTypeOK' /\ Scheduled' /\ TimeoutsSorted'
  BY DEF ReactorInv, ReactorTypeOK, Scheduled, TimeoutsSorted
<1>2. CleanupInv' /\ ~reFailed'
  BY BetweenCalls
<1>3. LoopInv'
  BY <1>2 DEF ReactorInv, LoopInv
<1> QED
  BY <1>1, <1>2, <1>3 DEF ReactorInv

\* The head of the loop reads the clock.
LEMMA TopKeeps ==
  ASSUME ReactorInv, ~reCalled, Top, UNCHANGED <<reClock, reRole, reEndVars>>
  PROVE  ReactorInv'
<1>1. /\ rePc = "top" /\ rePc' \in {"cleanup", "pending"} /\ reNow' \in {reNow, reClock}
      /\ UNCHANGED <<reIndex, reCalled, reCurrent, reClock, reRole, rePending, reScheduled,
                     reScheduledDirty, reRecurring, reRecurringDirty, reMaintenance, reCleanups,
                     reQuit, reFailed, reFinished>>
  BY DEF Top, GotoPc, reEventVars, timerVars, intervalVars, reEndVars
<1>2. reIndex' \in Nat \ {0} /\ reNow' \in 0..LastTime /\ reNow' <= reClock
  BY <1>1, Arrays, ReactorAssumption DEF ReactorInv, LoopInv
<1> QED
  BY <1>1, <1>2, GotoKeeps

\* The first pending event is shifted and called.
LEMMA CallPendingKeeps ==
  ASSUME ReactorInv, ~reCalled, CallPending, UNCHANGED <<reClock, reRole, reEndVars>>
  PROVE  ReactorInv'
<1>1. /\ rePc = "pending" /\ rePending # <<>> /\ reCalled' = TRUE /\ reCurrent' = Head(rePending)
      /\ rePending' = Tail(rePending)
      /\ UNCHANGED <<rePc, reIndex, reNow, reClock, reRole, reScheduled,
                     reScheduledDirty, reRecurring, reRecurringDirty, reMaintenance, reCleanups,
                     reQuit, reFailed, reFinished>>
  BY DEF CallPending, CallEvent, timerVars, intervalVars, reEndVars
<1>2. /\ reCurrent' \in Events /\ rePending' \in Seq(Events)
      /\ \A i \in DOMAIN rePending' : i + 1 \in DOMAIN rePending /\ rePending'[i] = rePending[i + 1]
  BY <1>1, Arrays, Shifted
<1>3. ReactorTypeOK'
  BY <1>1, <1>2 DEF ReactorInv, ReactorTypeOK
<1>4. CleanupInv' /\ ~reFailed'
  BY <1>1, BetweenCalls
<1>5. LoopInv' /\ TimeoutsSorted'
  BY <1>1, <1>4 DEF ReactorInv, LoopInv, TimeoutsSorted
<1>6. Scheduled'
  BY <1>1, <1>2 DEF ReactorInv, Scheduled
<1> QED
  BY <1>1, <1>3, <1>4, <1>5, <1>6 DEF ReactorInv

\* Whether the array of timeouts was dirty or not, it is sorted now.
LEMMA SortScheduledKeeps ==
  ASSUME ReactorInv, ~reCalled, SortScheduled, UNCHANGED <<reClock, reRole, reEndVars>>
  PROVE  ReactorInv'
<1>1. /\ rePc = "pending" /\ rePc' = "scheduled" /\ reScheduledDirty' = FALSE
      /\ UNCHANGED <<reCalled, reCurrent, reIndex, reNow, reClock, reRole, rePending,
                     reRecurring, reRecurringDirty, reMaintenance, reCleanups,
                     reQuit, reFailed, reFinished>>
  BY DEF SortScheduled, GotoPc, intervalVars, reEndVars
<1>2. PICK p \in [DOMAIN reScheduled -> DOMAIN reScheduled] :
        /\ reScheduled' \in Seq(Timeouts) /\ DOMAIN reScheduled' = DOMAIN reScheduled
        /\ \A i, j \in DOMAIN reScheduled : i < j => reScheduled'[i].when <= reScheduled'[j].when
        /\ \A i \in DOMAIN reScheduled : reScheduled'[i] = reScheduled[p[i]]
        /\ \A i, j \in DOMAIN reScheduled : p[i] = p[j] => i = j
  <2>1. reScheduled \in Seq(Timeouts)
    BY Arrays
  <2>2. CASE reScheduledDirty
    BY <2>1, <2>2, SortedArray DEF SortScheduled
  <2>3. CASE ~reScheduledDirty
    <3> DEFINE p == [i \in DOMAIN reScheduled |-> i]
    <3>1. reScheduled' = reScheduled
      BY <2>3 DEF SortScheduled
    <3>2. \A i, j \in DOMAIN reScheduled : i < j => reScheduled[i].when <= reScheduled[j].when
      BY <2>3 DEF ReactorInv, TimeoutsSorted
    <3>3. /\ p \in [DOMAIN reScheduled -> DOMAIN reScheduled]
          /\ \A i \in DOMAIN reScheduled : reScheduled[i] = reScheduled[p[i]]
          /\ \A i, j \in DOMAIN reScheduled : p[i] = p[j] => i = j
      OBVIOUS
    <3> HIDE DEF p
    <3> QED
      BY <2>1, <3>1, <3>2, <3>3
  <2> QED
    BY <2>2, <2>3
<1>3. ReactorTypeOK'
  BY <1>1, <1>2 DEF ReactorInv, ReactorTypeOK
<1>4. CleanupInv' /\ ~reFailed'
  BY <1>1, BetweenCalls
<1>5. LoopInv'
  BY <1>1, <1>4 DEF ReactorInv, LoopInv
<1>6. TimeoutsSorted'
  BY <1>2 DEF TimeoutsSorted
<1>7. Scheduled'
  <2>1. \A i \in DOMAIN reScheduled' : p[i] \in DOMAIN reScheduled
    BY <1>2
  <2> QED
    BY <1>1, <1>2, <2>1 DEF ReactorInv, Scheduled
<1> QED
  BY <1>1, <1>3, <1>4, <1>5, <1>6, <1>7 DEF ReactorInv

\* The first timeout is shifted and called: what is left has the order it had.
LEMMA CallScheduledKeeps ==
  ASSUME ReactorInv, ~reCalled, CallScheduled, UNCHANGED <<reClock, reRole, reEndVars>>
  PROVE  ReactorInv'
<1>1. /\ rePc = "scheduled" /\ reScheduled # <<>> /\ reCalled' = TRUE
      /\ reCurrent' = Head(reScheduled).id /\ reScheduled' = Tail(reScheduled)
      /\ UNCHANGED <<rePc, reIndex, reNow, reClock, reRole, rePending,
                     reScheduledDirty, reRecurring, reRecurringDirty, reMaintenance, reCleanups,
                     reQuit, reFailed, reFinished>>
  BY DEF CallScheduled, TimeoutPassed, CallEvent, intervalVars, reEndVars
<1>2. /\ Head(reScheduled) = reScheduled[1] /\ 1 \in DOMAIN reScheduled
      /\ reScheduled' \in Seq(Timeouts)
      /\ \A i \in DOMAIN reScheduled' :
           i + 1 \in DOMAIN reScheduled /\ reScheduled'[i] = reScheduled[i + 1]
  BY <1>1, Arrays, Shifted
<1>3. reCurrent' \in Events
  BY <1>1, <1>2, Arrays
<1>4. ReactorTypeOK'
  BY <1>1, <1>2, <1>3 DEF ReactorInv, ReactorTypeOK
<1>5. CleanupInv' /\ ~reFailed'
  BY <1>1, BetweenCalls
<1>6. LoopInv'
  BY <1>1, <1>5 DEF ReactorInv, LoopInv
<1>7. DOMAIN reScheduled' = 1..Len(reScheduled') /\ Len(reScheduled') \in Nat
  BY <1>2, QueuePlaces
<1>8. TimeoutsSorted'
  <2> SUFFICES ASSUME NEW i \in DOMAIN reScheduled', NEW j \in DOMAIN reScheduled', i < j
               PROVE  \/ reScheduled'[i].when <= reScheduled'[j].when
                      \/ reScheduledDirty' /\ (rePc' = "scheduled" => reScheduled'[j].when >= reNow')
    BY DEF TimeoutsSorted
  <2>1. i + 1 \in DOMAIN reScheduled /\ j + 1 \in DOMAIN reScheduled /\ i + 1 < j + 1
    BY <1>2, <1>7
  <2> QED
    BY <1>1, <1>2, <2>1 DEF ReactorInv, TimeoutsSorted
<1>9. Scheduled'
  <2>1. \A i \in DOMAIN reScheduled' : reRole[reScheduled'[i].id] = "timeout"
    BY <1>2 DEF ReactorInv, Scheduled
  <2>2. ASSUME NEW i \in DOMAIN reScheduled', NEW j \in DOMAIN reScheduled',
               reScheduled'[i].id = reScheduled'[j].id
        PROVE  i = j
    <3>1. i + 1 = j + 1
      BY <1>2, <2>2 DEF ReactorInv, Scheduled
    <3> QED
      BY <1>7, <3>1
  <2> QED
    BY <1>1, <2>1, <2>2 DEF ReactorInv, Scheduled
<1> QED
  BY <1>1, <1>4, <1>5, <1>6, <1>8, <1>9 DEF ReactorInv

\* The intervals are sorted.
LEMMA SortRecurringKeeps ==
  ASSUME ReactorInv, ~reCalled, SortRecurring, UNCHANGED <<reClock, reRole, reEndVars>>
  PROVE  ReactorInv'
<1>1. /\ rePc = "scheduled" /\ rePc' = "recurring" /\ reRecurringDirty' = FALSE
      /\ UNCHANGED <<reCalled, reCurrent, reIndex, reNow, reClock, reRole, rePending,
                     reScheduled, reScheduledDirty, reMaintenance, reCleanups,
                     reQuit, reFailed, reFinished>>
  BY DEF SortRecurring, GotoPc, timerVars, reEndVars
<1>2. /\ reRecurring' \in Seq(Intervals)
      /\ \A i \in DOMAIN reRecurring' : \E j \in DOMAIN reRecurring : reRecurring'[i] = reRecurring[j]
  <2>1. reRecurring \in Seq(Intervals)
    BY Arrays
  <2>2. CASE reRecurringDirty
    <3>1. reRecurring' \in Sorted(reRecurring)
      BY <2>2 DEF SortRecurring
    <3>2. PICK p \in [DOMAIN reRecurring -> DOMAIN reRecurring] :
            /\ reRecurring' \in Seq(Intervals) /\ DOMAIN reRecurring' = DOMAIN reRecurring
            /\ \A i \in DOMAIN reRecurring : reRecurring'[i] = reRecurring[p[i]]
      BY <2>1, <3>1, SortedArray
    <3> QED
      BY <3>2
  <2>3. CASE ~reRecurringDirty
    BY <2>1, <2>3 DEF SortRecurring
  <2> QED
    BY <2>2, <2>3
<1>3. ReactorTypeOK'
  BY <1>1, <1>2 DEF ReactorInv, ReactorTypeOK
<1>4. CleanupInv' /\ ~reFailed'
  BY <1>1, BetweenCalls
<1>5. LoopInv' /\ TimeoutsSorted'
  BY <1>1, <1>4 DEF ReactorInv, LoopInv, TimeoutsSorted
<1>6. Scheduled'
  BY <1>1, <1>2 DEF ReactorInv, Scheduled
<1> QED
  BY <1>1, <1>3, <1>4, <1>5, <1>6 DEF ReactorInv

\* An interval that has passed is called.
LEMMA CallRecurringKeeps ==
  ASSUME ReactorInv, ~reCalled, CallRecurring, UNCHANGED <<reClock, reRole, reEndVars>>
  PROVE  ReactorInv'
<1>1. /\ rePc = "recurring" /\ IntervalPassed /\ reCalled' = TRUE
      /\ reCurrent' = reRecurring[reIndex].id
      /\ UNCHANGED <<rePc, reIndex, reNow, reClock, reRole, rePending, reScheduled,
                     reScheduledDirty, reRecurring, reRecurringDirty, reMaintenance, reCleanups,
                     reQuit, reFailed, reFinished>>
  BY DEF CallRecurring, CallEvent, reEventVars, timerVars, intervalVars, reEndVars
<1>2. reIndex \in DOMAIN reRecurring
  BY <1>1, Arrays DEF IntervalPassed, ReactorInv, LoopInv
<1> QED
  BY <1>1, <1>2, CallKeeps, Arrays

\* No more intervals in this turn.
LEMMA EndRecurringKeeps ==
  ASSUME ReactorInv, ~reCalled, EndRecurring, UNCHANGED <<reClock, reRole, reEndVars>>
  PROVE  ReactorInv'
<1>1. /\ rePc = "recurring" /\ rePc' = "maintenance" /\ reIndex' = 1
      /\ UNCHANGED <<reNow, reCalled, reCurrent, reClock, reRole, rePending, reScheduled,
                     reScheduledDirty, reRecurring, reRecurringDirty, reMaintenance, reCleanups,
                     reQuit, reFailed, reFinished>>
  BY DEF EndRecurring, GotoPc, reEventVars, timerVars, intervalVars, reEndVars
<1>2. reNow' \in 0..LastTime /\ reNow' <= reClock
  BY <1>1 DEF ReactorInv, LoopInv, ReactorTypeOK
<1> QED
  BY <1>1, <1>2, GotoKeeps

\* A maintenance function is called: its place is in the array.
LEMMA CallMaintenanceKeeps ==
  ASSUME ReactorInv, ~reCalled, CallMaintenance, UNCHANGED <<reClock, reRole, reEndVars>>
  PROVE  ReactorInv'
<1>1. /\ rePc \in {"maintenance", "retry"} /\ reIndex <= Len(reMaintenance) /\ reCalled' = TRUE
      /\ reCurrent' = reMaintenance[reIndex]
      /\ UNCHANGED <<rePc, reIndex, reNow, reClock, reRole, rePending, reScheduled,
                     reScheduledDirty, reRecurring, reRecurringDirty, reMaintenance, reCleanups,
                     reQuit, reFailed, reFinished>>
  BY DEF CallMaintenance, CallEvent, reEventVars, timerVars, intervalVars, reEndVars
<1>2. reIndex \in DOMAIN reMaintenance
  BY <1>1, Arrays DEF ReactorInv, LoopInv
<1>3. reCurrent' \in Events
  BY <1>1, <1>2, Arrays
<1> QED
  BY <1>1, <1>3, CallKeeps

\* The maintenance functions have been called.
LEMMA EndMaintenanceKeeps ==
  ASSUME ReactorInv, ~reCalled, EndMaintenance, UNCHANGED <<reClock, reRole, reEndVars>>
  PROVE  ReactorInv'
<1>1. /\ rePc \in {"maintenance", "retry"} /\ rePc' \in {"cleanup", "top"} /\ reIndex' = 1
      /\ UNCHANGED <<reNow, reCalled, reCurrent, reClock, reRole, rePending, reScheduled,
                     reScheduledDirty, reRecurring, reRecurringDirty, reMaintenance, reCleanups,
                     reQuit, reFailed, reFinished>>
  BY DEF EndMaintenance, GotoPc, reEventVars, timerVars, intervalVars, reEndVars
<1>2. reNow' \in 0..LastTime /\ reNow' <= reClock
  BY <1>1 DEF ReactorInv, LoopInv, ReactorTypeOK
<1> QED
  BY <1>1, <1>2, GotoKeeps

\* The last clean-up is popped and called: it is in no array now, but it is the current one.
LEMMA CallCleanupKeeps ==
  ASSUME ReactorInv, ~reCalled, CallCleanup, UNCHANGED <<reClock, reRole, reEndVars>>
  PROVE  ReactorInv'
<1>1. /\ rePc = "cleanup" /\ reCleanups # <<>> /\ reCalled' = TRUE /\ reCurrent' = Last(reCleanups)
      /\ reCleanups' = Front(reCleanups)
      /\ UNCHANGED <<rePc, reIndex, reNow, reClock, reRole, rePending, reScheduled,
                     reScheduledDirty, reRecurring, reRecurringDirty, reMaintenance,
                     reQuit, reFailed, reFinished>>
  BY DEF CallCleanup, CallEvent, timerVars, intervalVars, reEndVars
<1>2. /\ reCurrent' \in Events /\ reCleanups' \in Seq(Events)
      /\ \A i \in DOMAIN reCleanups' : i \in DOMAIN reCleanups /\ reCleanups'[i] = reCleanups[i]
      /\ \A i \in DOMAIN reCleanups :
           (i \in DOMAIN reCleanups' /\ reCleanups'[i] = reCleanups[i]) \/ reCleanups[i] = reCurrent'
      /\ \E i \in DOMAIN reCleanups : reCleanups[i] = reCurrent'
  BY <1>1, Arrays, Popped
<1>3. ReactorTypeOK'
  BY <1>1, <1>2 DEF ReactorInv, ReactorTypeOK
<1>4. LoopInv'
  BY <1>1, <1>2 DEF ReactorInv, LoopInv
<1>5. Scheduled' /\ TimeoutsSorted'
  BY <1>1 DEF ReactorInv, Scheduled, TimeoutsSorted
<1>6. CleanupInv'
  <2>1. \A e \in Events : (\E i \in DOMAIN reCleanups : reCleanups[i] = e)
                          <=> (\E i \in DOMAIN reCleanups' : reCleanups'[i] = e) \/ reCurrent' = e
    BY <1>2
  <2> QED
    BY <1>1, <2>1 DEF ReactorInv, CleanupInv
<1> QED
  BY <1>1, <1>3, <1>4, <1>5, <1>6 DEF ReactorInv

\* No clean-up is left: the reactor is over.
LEMMA EndCleanupKeeps ==
  ASSUME ReactorInv, ~reCalled, EndCleanup, UNCHANGED <<reClock, reRole, reEndVars>>
  PROVE  ReactorInv'
<1>1. /\ rePc = "cleanup" /\ rePc' = "over" /\ reCleanups = <<>>
      /\ UNCHANGED <<reIndex, reNow, reCalled, reCurrent, reClock, reRole, rePending, reScheduled,
                     reScheduledDirty, reRecurring, reRecurringDirty, reMaintenance, reCleanups,
                     reQuit, reFailed, reFinished>>
  BY DEF EndCleanup, GotoPc, reEventVars, timerVars, intervalVars, reEndVars
<1>2. reNow' \in 0..LastTime /\ reNow' <= reClock /\ reIndex' \in Nat \ {0}
  BY <1>1 DEF ReactorInv, LoopInv, ReactorTypeOK
<1> QED
  BY <1>1, <1>2, GotoKeeps

\* The steps of the loop together.
LEMMA LoopStepKeeps ==
  ASSUME ReactorInv, LoopStep
  PROVE  ReactorInv'
<1>1. ~reCalled /\ UNCHANGED <<reClock, reRole, reEndVars>>
  BY DEF LoopStep
<1>2. CASE Top \/ CallPending \/ SortScheduled \/ CallScheduled
  BY <1>1, <1>2, TopKeeps, CallPendingKeeps, SortScheduledKeeps, CallScheduledKeeps
<1>3. CASE SortRecurring \/ CallRecurring \/ EndRecurring \/ CallMaintenance
  BY <1>1, <1>3, SortRecurringKeeps, CallRecurringKeeps, EndRecurringKeeps, CallMaintenanceKeeps
<1>4. CASE EndMaintenance \/ CallCleanup \/ EndCleanup
  BY <1>1, <1>4, EndMaintenanceKeeps, CallCleanupKeeps, EndCleanupKeeps
<1> QED
  BY <1>2, <1>3, <1>4 DEF LoopStep

-----------------------------------------------------------------------------
(* Reactor: a function returns, or throws                                    *)

\* While a function is called that is no clean-up.
LEMMA NoCleanupCalled ==
  ASSUME ReactorInv, reCalled, rePc # "cleanup", reCalled' = FALSE,
         UNCHANGED <<reRole, reFailed, reFinished, reCleanups>>
  PROVE  CleanupInv' /\ ~reFailed' /\ rePc # "over"
  BY DEF ReactorInv, CleanupInv, LoopInv

\* The initializer, a pending event or a timeout returns.
LEMMA ReturnFromEventKeeps ==
  ASSUME ReactorInv, ReturnFromEvent
  PROVE  ReactorInv'
<1>1. /\ rePc \in {"initializer", "pending", "scheduled"}
      /\ rePc' = IF rePc = "initializer" THEN "top" ELSE rePc
      /\ reCalled /\ reCalled' = FALSE /\ reCurrent' = 0
      /\ UNCHANGED <<reIndex, reNow, reClock, reRole, rePending, reScheduled, reScheduledDirty,
                     reRecurring, reRecurringDirty, reMaintenance, reCleanups,
                     reQuit, reFailed, reFinished>>
  BY DEF ReturnFromEvent, Returned, reEventVars, timerVars, intervalVars, reEndVars
<1>2. ReactorTypeOK'
  BY <1>1 DEF ReactorInv, ReactorTypeOK
<1>3. CleanupInv' /\ ~reFailed'
  BY <1>1, NoCleanupCalled
<1>4. LoopInv'
  BY <1>1, <1>3 DEF ReactorInv, LoopInv
<1>5. Scheduled' /\ TimeoutsSorted'
  BY <1>1 DEF ReactorInv, Scheduled, TimeoutsSorted
<1> QED
  BY <1>1, <1>2, <1>3, <1>4, <1>5 DEF ReactorInv

\* An interval returns and gets its next time, wherever it is in the array.
LEMMA ReturnFromIntervalKeeps ==
  ASSUME ReactorInv, ReturnFromInterval
  PROVE  ReactorInv'
<1> DEFINE Later(r) == IF r.id = reCurrent THEN [r EXCEPT !.when = r.delay + reNow] ELSE r
<1>1. /\ rePc = "recurring" /\ rePc' = "recurring"
      /\ reCalled /\ reCalled' = FALSE /\ reCurrent' = 0
      /\ reRecurring' = [i \in DOMAIN reRecurring |-> Later(reRecurring[i])]
      /\ reRecurringDirty' = TRUE /\ reIndex' = reIndex + 1
      /\ UNCHANGED <<reNow, reClock, reRole, rePending, reScheduled, reScheduledDirty,
                     reMaintenance, reCleanups, reQuit, reFailed, reFinished>>
  BY DEF ReturnFromInterval, Returned, timerVars, reEndVars
<1>2. \A r \in Intervals : Later(r) \in Intervals /\ Later(r).id = r.id
  <2>1. reNow \in Nat
    BY Arrays
  <2> QED
    BY <2>1 DEF Intervals
<1> HIDE DEF Later
<1>3. /\ DOMAIN reRecurring = 1..Len(reRecurring) /\ Len(reRecurring) \in Nat
      /\ \A i \in DOMAIN reRecurring : reRecurring[i] \in Intervals
  BY Arrays, QueuePlaces
<1>4. /\ DOMAIN reRecurring' = DOMAIN reRecurring
      /\ \A i \in DOMAIN reRecurring :
           reRecurring'[i] \in Intervals /\ reRecurring'[i].id = reRecurring[i].id
      /\ reRecurring' \in [1..Len(reRecurring) -> Intervals]
  BY <1>1, <1>2, <1>3
<1>5. reRecurring' \in Seq(Intervals)
  BY <1>3, <1>4, IsASeq
<1>6. reIndex \in Nat \ {0} /\ reIndex' \in Nat \ {0}
  BY <1>1 DEF ReactorInv, LoopInv
<1>7. ReactorTypeOK'
  BY <1>1, <1>5, <1>6 DEF ReactorInv, ReactorTypeOK
<1>8. CleanupInv' /\ ~reFailed'
  BY <1>1, NoCleanupCalled
<1>9. LoopInv'
  BY <1>1, <1>6, <1>8 DEF ReactorInv, LoopInv
<1>10. TimeoutsSorted'
  BY <1>1 DEF ReactorInv, TimeoutsSorted
<1>11. Scheduled'
  BY <1>1, <1>4 DEF ReactorInv, Scheduled
<1> QED
  BY <1>1, <1>7, <1>8, <1>9, <1>10, <1>11 DEF ReactorInv

\* A maintenance function returns and may be spliced out of the array.
LEMMA ReturnFromMaintenanceKeeps ==
  ASSUME ReactorInv, NEW idle \in BOOLEAN, ReturnFromMaintenance(idle)
  PROVE  ReactorInv'
<1>1. /\ rePc \in {"maintenance", "retry"} /\ rePc' = rePc
      /\ reCalled /\ reCalled' = FALSE /\ reCurrent' = 0
      /\ reMaintenance' \in {reMaintenance, RemoveAt(reMaintenance, reIndex)}
      /\ reIndex' = reIndex + 1
      /\ UNCHANGED <<reNow, reClock, reRole, rePending, reScheduled, reScheduledDirty,
                     reRecurring, reRecurringDirty, reCleanups, reQuit, reFailed, reFinished>>
  BY DEF ReturnFromMaintenance, Returned, timerVars, intervalVars, reEndVars
<1>2. reIndex \in DOMAIN reMaintenance /\ reIndex' \in Nat \ {0}
  BY <1>1, Arrays DEF ReactorInv, LoopInv
<1>3. /\ reMaintenance' \in Seq(Events)
      /\ \A i \in DOMAIN reMaintenance' : \E j \in DOMAIN reMaintenance :
           reMaintenance'[i] = reMaintenance[j]
  <2>1. reMaintenance \in Seq(Events)
    BY Arrays
  <2>2. CASE reMaintenance' = RemoveAt(reMaintenance, reIndex)
    BY <1>2, <2>1, <2>2, Spliced
  <2>3. CASE reMaintenance' = reMaintenance
    BY <2>1, <2>3
  <2> QED
    BY <1>1, <2>2, <2>3
<1>4. ReactorTypeOK'
  BY <1>1, <1>2, <1>3 DEF ReactorInv, ReactorTypeOK
<1>5. CleanupInv' /\ ~reFailed'
  BY <1>1, NoCleanupCalled
<1>6. LoopInv'
  BY <1>1, <1>2, <1>5 DEF ReactorInv, LoopInv
<1>7. TimeoutsSorted'
  BY <1>1 DEF ReactorInv, TimeoutsSorted
<1>8. Scheduled'
  BY <1>1, <1>3 DEF ReactorInv, Scheduled
<1> QED
  BY <1>1, <1>4, <1>5, <1>6, <1>7, <1>8 DEF ReactorInv

\* A clean-up is at its end, or waits in front of all others.
LEMMA ReturnFromCleanupKeeps ==
  ASSUME ReactorInv, NEW again \in BOOLEAN, ReturnFromCleanup(again)
  PROVE  ReactorInv'
<1>1. /\ rePc = "cleanup" /\ reCalled /\ reCalled' = FALSE /\ reCurrent' = 0
      /\ \/ /\ reCleanups' = <<reCurrent>> \o reCleanups /\ rePc' = "retry"
            /\ UNCHANGED reFinished
         \/ /\ reFinished' = reFinished \cup {reCurrent} /\ UNCHANGED <<rePc, reCleanups>>
      /\ UNCHANGED <<reIndex, reNow, reClock, reRole, rePending, reScheduled, reScheduledDirty,
                     reRecurring, reRecurringDirty, reMaintenance, reQuit, reFailed>>
  BY DEF ReturnFromCleanup, Returned, timerVars, intervalVars
<1>2. reCurrent \in Events /\ ~reFailed
  BY <1>1 DEF ReactorInv, LoopInv
<1>3. /\ reCleanups' \in Seq(Events)
      /\ \A e \in Events :
           e \in reFinished' \/ (\E i \in DOMAIN reCleanups' : reCleanups'[i] = e)
           <=> e \in reFinished \/ (\E i \in DOMAIN reCleanups : reCleanups[i] = e) \/ reCurrent = e
  <2>1. reCleanups \in Seq(Events)
    BY Arrays
  <2>2. CASE reCleanups' = <<reCurrent>> \o reCleanups /\ UNCHANGED reFinished
    <3>1. <<reCurrent>> \in Seq(Events) /\ Len(<<reCurrent>>) = 1 /\ <<reCurrent>>[1] = reCurrent
      BY <1>2
    <3>2. /\ reCleanups' \in Seq(Events) /\ Len(reCleanups') = 1 + Len(reCleanups)
          /\ \A i \in 1..(1 + Len(reCleanups)) :
               reCleanups'[i] = IF i <= 1 THEN <<reCurrent>>[i] ELSE reCleanups[i - 1]
      BY <2>1, <2>2, <3>1, ConcatProperties
    <3>3. /\ DOMAIN reCleanups = 1..Len(reCleanups) /\ Len(reCleanups) \in Nat
          /\ DOMAIN reCleanups' = 1..Len(reCleanups')
      BY <2>1, <3>2, QueuePlaces
    <3>4. /\ 1 \in DOMAIN reCleanups' /\ reCleanups'[1] = reCurrent
          /\ \A i \in DOMAIN reCleanups : i + 1 \in DOMAIN reCleanups'
                                          /\ reCleanups'[i + 1] = reCleanups[i]
          /\ \A i \in DOMAIN reCleanups' :
               reCleanups'[i] = reCurrent
               \/ (i - 1 \in DOMAIN reCleanups /\ reCleanups'[i] = reCleanups[i - 1])
      <4>1. 1 \in DOMAIN reCleanups' /\ reCleanups'[1] = reCurrent
        BY <3>1, <3>2, <3>3
      <4>2. ASSUME NEW i \in DOMAIN reCleanups
            PROVE  i + 1 \in DOMAIN reCleanups' /\ reCleanups'[i + 1] = reCleanups[i]
        <5>1. i + 1 \in 1..(1 + Len(reCleanups)) /\ ~(i + 1 <= 1) /\ (i + 1) - 1 = i
          BY <3>3
        <5> QED
          BY <3>2, <3>3, <5>1
      <4>3. ASSUME NEW i \in DOMAIN reCleanups', i # 1
            PROVE  i - 1 \in DOMAIN reCleanups /\ reCleanups'[i] = reCleanups[i - 1]
        <5>1. i \in 1..(1 + Len(reCleanups)) /\ ~(i <= 1) /\ i - 1 \in 1..Len(reCleanups)
          BY <3>2, <3>3, <4>3
        <5> QED
          BY <3>2, <3>3, <5>1
      <4> QED
        BY <4>1, <4>2, <4>3
    <3>5. ASSUME NEW e \in Events
          PROVE  (\E i \in DOMAIN reCleanups' : reCleanups'[i] = e)
                 <=> (\E i \in DOMAIN reCleanups : reCleanups[i] = e) \/ reCurrent = e
      BY <3>4
    <3> QED
      BY <2>2, <3>2, <3>5
  <2>3. CASE reFinished' = reFinished \cup {reCurrent} /\ UNCHANGED reCleanups
    BY <2>1, <2>3
  <2> QED
    BY <1>1, <2>2, <2>3
<1>4. ReactorTypeOK'
  BY <1>1, <1>2, <1>3 DEF ReactorInv, ReactorTypeOK
<1>5. LoopInv'
  BY <1>1, <1>2 DEF ReactorInv, LoopInv
<1>6. Scheduled' /\ TimeoutsSorted'
  BY <1>1 DEF ReactorInv, Scheduled, TimeoutsSorted
<1>7. CleanupInv'
  BY <1>1, <1>2, <1>3 DEF ReactorInv, CleanupInv
<1> QED
  BY <1>1, <1>4, <1>5, <1>6, <1>7 DEF ReactorInv

\* A function throws: the clean-ups follow, or the reactor has failed.
LEMMA ThrowsOutKeeps ==
  ASSUME ReactorInv, ThrowsOut
  PROVE  ReactorInv'
<1> DEFINE last == rePc \in {"initializer", "cleanup", "retry"}
<1>1. /\ reCalled /\ reCalled' = FALSE /\ reCurrent' = 0 /\ reIndex' = 1
      /\ UNCHANGED <<reNow, reClock, reRole, rePending, reScheduled, reScheduledDirty,
                     reRecurring, reRecurringDirty, reMaintenance, reCleanups,
                     reQuit, reFinished>>
  BY DEF ThrowsOut, Returned, reEventVars, timerVars, intervalVars
<1>2. rePc' = (IF last THEN "over" ELSE "cleanup") /\ reFailed' = last
  BY Zenon DEF ThrowsOut
<1>3. last \in BOOLEAN
  OBVIOUS
<1>4. (last <=> rePc \in {"initializer", "cleanup", "retry"})
  OBVIOUS
<1> HIDE DEF last
<1>5. \/ rePc \in {"initializer", "cleanup", "retry"} /\ rePc' = "over" /\ reFailed' = TRUE
      \/ rePc \notin {"initializer", "cleanup", "retry"} /\ rePc' = "cleanup" /\ reFailed' = FALSE
  <2>1. CASE last = TRUE
    BY <1>2, <1>4, <2>1
  <2>2. CASE last = FALSE
    BY <1>2, <1>4, <2>2
  <2> QED
    BY <1>3, <2>1, <2>2
<1>6. ReactorTypeOK'
  BY <1>1, <1>5 DEF ReactorInv, ReactorTypeOK
<1>7. LoopInv'
  BY <1>1, <1>5 DEF ReactorInv, LoopInv
<1>8. Scheduled' /\ TimeoutsSorted'
  BY <1>1, <1>5 DEF ReactorInv, Scheduled, TimeoutsSorted
<1>9. CleanupInv'
  BY <1>1, <1>5 DEF ReactorInv, CleanupInv, LoopInv
<1> QED
  BY <1>1, <1>5, <1>6, <1>7, <1>8, <1>9 DEF ReactorInv

\* Whatever a function of a script calls.
LEMMA ScriptStepKeeps ==
  ASSUME ReactorInv, ScriptStep
  PROVE  ReactorInv'
<1>1. PICK e \in Events :
        \/ RunSoon(e) \/ RegisterMaintenance(e) \/ RegisterCleanup(e)
        \/ ClearTimeout(e) \/ ClearInterval(e)
        \/ \E d \in Delays : SetTimeout(e, d) \/ SetInterval(e, d)
  BY DEF ScriptStep
<1>2. CASE RunSoon(e) \/ RegisterMaintenance(e) \/ RegisterCleanup(e)
  BY <1>2, RunSoonKeeps, RegisterMaintenanceKeeps, RegisterCleanupKeeps
<1>3. CASE ClearTimeout(e) \/ ClearInterval(e)
  BY <1>3, ClearTimeoutKeeps, ClearIntervalKeeps
<1>4. CASE \E d \in Delays : SetTimeout(e, d) \/ SetInterval(e, d)
  BY <1>4, SetTimeoutKeeps, SetIntervalKeeps
<1> QED
  BY <1>1, <1>2, <1>3, <1>4

\* What the loop has called returns.
LEMMA ReturnStepKeeps ==
  ASSUME ReactorInv, ReturnStep
  PROVE  ReactorInv'
<1>1. CASE ReturnFromEvent
  BY <1>1, ReturnFromEventKeeps
<1>2. CASE ReturnFromInterval
  BY <1>2, ReturnFromIntervalKeeps
<1>3. ASSUME NEW b \in BOOLEAN, ReturnFromMaintenance(b)
      PROVE  ReactorInv'
  BY <1>3, ReturnFromMaintenanceKeeps
<1>4. ASSUME NEW b \in BOOLEAN, ReturnFromCleanup(b)
      PROVE  ReactorInv'
  BY <1>4, ReturnFromCleanupKeeps
<1> QED
  BY <1>1, <1>2, <1>3, <1>4 DEF ReturnStep

\* Every step of the reactor keeps the inductive invariant.
LEMMA ReactorNextKeeps == ReactorInv /\ [ReactorNext]_reactorVars => ReactorInv'
<1> SUFFICES ASSUME ReactorInv, [ReactorNext]_reactorVars
             PROVE  ReactorInv'
  OBVIOUS
<1>1. CASE LoopStep \/ ReturnStep \/ ThrowsOut
  BY <1>1, LoopStepKeeps, ReturnStepKeeps, ThrowsOutKeeps
<1>2. CASE ScriptStep \/ Quit \/ TimePasses
  BY <1>2, ScriptStepKeeps, QuitKeeps, TimePassesKeeps
<1>3. CASE UNCHANGED reactorVars
  <2>1. UNCHANGED <<rePc, reCalled, reCurrent, reIndex, reNow, reClock, reRole, rePending,
                    reScheduled, reScheduledDirty, reRecurring, reRecurringDirty,
                    reMaintenance, reCleanups, reQuit, reFailed, reFinished>>
    BY <1>3 DEF reactorVars, reLoopVars, reEventVars, timerVars, intervalVars, reEndVars
  <2> QED
    BY <2>1 DEF ReactorInv, ReactorTypeOK, LoopInv, Scheduled, TimeoutsSorted, CleanupInv
<1> QED
  BY <1>1, <1>2, <1>3 DEF ReactorNext

\* It holds in every state of the reactor.
LEMMA ReactorInvariance == ReactorSpec => []ReactorInv
  BY InitReactor, ReactorNextKeeps, PTL DEF ReactorSpec

\* The types of the state of the event loop (reactor.js).
THEOREM ReactorTypeCorrect == ReactorSpec => []ReactorTypeOK
<1>1. ReactorInv => ReactorTypeOK
  BY DEF ReactorInv
<1> QED
  BY <1>1, ReactorInvariance, PTL

\* Whatever the functions register, return and throw: when the reactor is over, and neither
\* its initializer nor a clean-up has thrown, every clean-up has come to its end
\* (reactor.js:102-121).
THEOREM CleanupsAreFinished == ReactorSpec => []CleanupsFinish
<1>1. ReactorInv => CleanupsFinish
  <2> SUFFICES ASSUME ReactorInv, rePc = "over", ~reFailed
               PROVE  reFinished = {e \in Events : reRole[e] = "cleanup"}
    BY DEF CleanupsFinish
  <2>1. reCleanups = <<>> /\ DOMAIN reCleanups = {}
    BY DEF ReactorInv
  <2>2. \A e \in Events : reRole[e] = "cleanup" <=> e \in reFinished
    BY <2>1 DEF ReactorInv, CleanupInv
  <2>3. reFinished \subseteq Events
    BY DEF ReactorInv, ReactorTypeOK
  <2> QED
    BY <2>2, <2>3
<1> QED
  BY <1>1, ReactorInvariance, PTL

-----------------------------------------------------------------------------
(* Reactor: the order of the timeouts                                        *)

\* The timeout that the loop shifts and calls: its time has passed, and no timeout that is
\* waiting has an earlier one.
LEMMA FirstTimeout ==
  ASSUME ReactorInv, rePc = "scheduled", TimeoutPassed,
         NEW i \in DOMAIN reScheduled, reScheduled[i].id = Head(reScheduled).id
  PROVE  /\ reScheduled[i].when <= reClock
         /\ \A j \in DOMAIN reScheduled : reScheduled[i].when <= reScheduled[j].when
<1>1. /\ reScheduled # <<>> /\ Head(reScheduled).when < reNow
      /\ reScheduled \in Seq(Timeouts)
  BY Arrays DEF TimeoutPassed
<1>2. Head(reScheduled) = reScheduled[1] /\ 1 \in DOMAIN reScheduled
  BY <1>1, Shifted
<1>3. i = 1
  BY <1>2 DEF ReactorInv, Scheduled
<1>4. /\ DOMAIN reScheduled = 1..Len(reScheduled) /\ Len(reScheduled) \in Nat
      /\ \A j \in DOMAIN reScheduled : reScheduled[j].when \in Nat
      /\ reNow \in Nat /\ reClock \in Nat /\ reNow <= reClock
  BY Arrays
<1>5. ASSUME NEW j \in DOMAIN reScheduled
      PROVE  reScheduled[1].when <= reScheduled[j].when
  <2>1. CASE j = 1
    BY <1>2, <1>4, <2>1
  <2>2. CASE j # 1
    <3>1. 1 < j
      BY <1>4, <2>2
    <3>2. \/ reScheduled[1].when <= reScheduled[j].when
          \/ reScheduled[j].when >= reNow
      BY <1>2, <3>1 DEF ReactorInv, TimeoutsSorted
    <3> QED
      BY <1>1, <1>2, <1>4, <3>2
  <2> QED
    BY <2>1, <2>2
<1> QED
  BY <1>1, <1>2, <1>3, <1>4, <1>5

\* Only the loop calls, and of what it calls only the shifted timeout can be in the array
\* of timeouts.
LEMMA OnlyShiftedTimeouts ==
  ASSUME ReactorInv, [ReactorNext]_reactorVars, reCalled', ~reCalled,
         NEW i \in DOMAIN reScheduled, reCurrent' = reScheduled[i].id
  PROVE  rePc = "scheduled" /\ TimeoutPassed /\ reScheduled[i].id = Head(reScheduled).id
<1>1. LoopStep
  <2>1. ~ReturnStep /\ ~ThrowsOut /\ ~Quit /\ ~(UNCHANGED reactorVars)
    BY DEF ReturnStep, ReturnFromEvent, ReturnFromInterval, ReturnFromMaintenance,
           ReturnFromCleanup, ThrowsOut, Returned, Quit, reactorVars, reLoopVars
  <2>2. ~TimePasses
    BY DEF TimePasses, reLoopVars
  <2>3. ~ScriptStep
    BY DEF ScriptStep, RunSoon, RegisterMaintenance, RegisterCleanup, SetTimeout, SetInterval,
           Register, ClearTimeout, ClearInterval
  <2> QED
    BY <2>1, <2>2, <2>3 DEF ReactorNext
<1>2. reRole[reCurrent'] = "timeout"
  BY DEF ReactorInv, Scheduled
<1>3. CASE CallScheduled
  BY <1>3 DEF CallScheduled, CallEvent
<1>4. ASSUME CallPending
      PROVE  FALSE
  <2>1. rePending # <<>> /\ reCurrent' = Head(rePending)
    BY <1>4 DEF CallPending, CallEvent
  <2>2. Head(rePending) = rePending[1] /\ 1 \in DOMAIN rePending
    BY <2>1, Arrays, Shifted
  <2>3. reRole[reCurrent'] = "task"
    BY <2>1, <2>2 DEF ReactorInv, Scheduled
  <2> QED
    BY <1>2, <2>3
<1>5. ASSUME CallRecurring
      PROVE  FALSE
  <2>1. reIndex <= Len(reRecurring) /\ reCurrent' = reRecurring[reIndex].id
    BY <1>5 DEF CallRecurring, CallEvent, IntervalPassed
  <2>2. reIndex \in DOMAIN reRecurring
    <3>1. reIndex \in Nat \ {0}
      BY DEF ReactorInv, LoopInv
    <3> QED
      BY <2>1, <3>1, Arrays
  <2>3. reRole[reCurrent'] = "interval"
    BY <2>1, <2>2 DEF ReactorInv, Scheduled
  <2> QED
    BY <1>2, <2>3
<1>6. ASSUME CallMaintenance
      PROVE  FALSE
  <2>1. reIndex <= Len(reMaintenance) /\ reCurrent' = reMaintenance[reIndex]
    BY <1>6 DEF CallMaintenance, CallEvent
  <2>2. reIndex \in DOMAIN reMaintenance
    <3>1. reIndex \in Nat \ {0}
      BY DEF ReactorInv, LoopInv
    <3> QED
      BY <2>1, <3>1, Arrays
  <2>3. reRole[reCurrent'] = "maintenance"
    BY <2>1, <2>2 DEF ReactorInv, Scheduled
  <2> QED
    BY <1>2, <2>3
<1>7. ASSUME CallCleanup
      PROVE  FALSE
  <2>1. rePc = "cleanup" /\ reCleanups # <<>> /\ reCurrent' = Last(reCleanups)
    BY <1>7 DEF CallCleanup, CallEvent
  <2>2. Last(reCleanups) \in Events
        /\ \E j \in DOMAIN reCleanups : reCleanups[j] = Last(reCleanups)
    <3>1. reCleanups \in Seq(Events)
      BY Arrays
    <3>2. Last(reCleanups) \in Events
      BY <2>1, <3>1, Popped
    <3>3. Len(reCleanups) \in DOMAIN reCleanups
      <4>1. Len(reCleanups) \in Nat /\ DOMAIN reCleanups = 1..Len(reCleanups)
            /\ Len(reCleanups) # 0
        BY <2>1, <3>1, QueuePlaces, EmptySeq
      <4> QED
        BY <4>1
    <3> QED
      BY <3>2, <3>3 DEF Last
  <2>3. ~reFailed
    BY <2>1 DEF ReactorInv, LoopInv
  <2>4. reRole[reCurrent'] = "cleanup"
    BY <2>1, <2>2, <2>3 DEF ReactorInv, CleanupInv
  <2> QED
    BY <1>2, <2>4
<1>8. ~Top /\ ~SortScheduled /\ ~SortRecurring /\ ~EndRecurring /\ ~EndMaintenance /\ ~EndCleanup
  BY DEF Top, SortScheduled, SortRecurring, EndRecurring, EndMaintenance, EndCleanup, GotoPc
<1> QED
  BY <1>1, <1>3, <1>4, <1>5, <1>6, <1>7, <1>8 DEF LoopStep

\* However many timeouts there are, and whatever their delays: each is called in the order
\* of its time among those that wait with it, and not before its time, although the
\* functions set and clear timeouts while the loop walks over the array (reactor.js:68-76).
THEOREM TimeoutsRunInOrder == ReactorSpec => TimeoutsInOrder
<1>1. ReactorInv /\ [ReactorNext]_reactorVars =>
        [\A i \in DOMAIN reScheduled :
           reCalled' /\ ~reCalled /\ reCurrent' = reScheduled[i].id =>
             /\ reScheduled[i].when <= reClock
             /\ \A j \in DOMAIN reScheduled : reScheduled[i].when <= reScheduled[j].when
        ]_reactorVars
  <2> SUFFICES ASSUME ReactorInv, [ReactorNext]_reactorVars, reCalled', ~reCalled,
                      NEW i \in DOMAIN reScheduled, reCurrent' = reScheduled[i].id
               PROVE  /\ reScheduled[i].when <= reClock
                      /\ \A j \in DOMAIN reScheduled :
                           reScheduled[i].when <= reScheduled[j].when
    OBVIOUS
  <2> QED
    BY OnlyShiftedTimeouts, FirstTimeout
<1> QED
  BY <1>1, ReactorInvariance, PTL DEF ReactorSpec, TimeoutsInOrder

-----------------------------------------------------------------------------
(* The cache of compiled scripts                                             *)

\* The inodes a version has been written to.
Used == {ccWritten[v].ino : v \in 0..ccLast}

\* The source at the path has been written; what an inode holds was written to it at the
\* time the inode has, which is past.
DiskInv ==
  /\ ccSource \in Used
  /\ \A s \in Sources : ccVersion[s] <= ccLast /\ ccTime[s] <= ccNow
  /\ \A s \in Used : ccWritten[ccVersion[s]] = [ino |-> s, mtime |-> ccTime[s]]

\* Version v was written to inode s in second t or later.
WrittenSince(v, s, t) == v \in 0..ccLast /\ ccWritten[v].ino = s /\ ccWritten[v].mtime >= t

\* A complete cache file holds a version of the source it names, not older than it says.
CacheStoreInv ==
  \A i \in CacheFiles : ccCache[i].script # NoScript =>
    WrittenSince(ccCache[i].script, ccCache[i].ino, ccCache[i].mtime)

\* The steps of a process that has read the time of the source, and those with a script.
Stated == {"open", "lock_sh", "check", "compile", "unlink", "create", "lock_ex", "fchown",
           "write", "thawed"}
Compiled == {"unlink", "create", "lock_ex", "fchown", "write", "thawed"}

ProcessInv ==
  \A p \in Processes :
    /\ ccPc[p] \in Stated \cup {"fstat"} => ccOpened[p] \in Used
    /\ ccPc[p] \in Stated => ccStat[p] <= ccTime[ccOpened[p]]
    /\ ccPc[p] \in Compiled => WrittenSince(ccScript[p], ccOpened[p], ccStat[p])

CacheInv == CacheTypeOK /\ DiskInv /\ CacheStoreInv /\ ProcessInv

-----------------------------------------------------------------------------

\* The inductive invariant holds initially: version 0 is in every inode, and one of them
\* is the source.
LEMMA CacheStarts == CacheInit => CacheInv
<1> SUFFICES ASSUME CacheInit PROVE CacheInv
  OBVIOUS
<1> USE CacheAssumption DEF CacheInit, Versions, Times, NoScript
<1>1. CacheTypeOK
  <2>1. ccWritten \in [Versions -> [ino : Sources, mtime : Times]]
    OBVIOUS
  <2>2. ccCache \in [CacheFiles -> [ino : Sources, mtime : Times, script : Versions \cup {NoScript},
                                   changed : Times, owned : BOOLEAN]]
    OBVIOUS
  <2>3. ccPc \in [Processes -> {"idle"}] /\ ccLock \in [Processes -> {"none"}]
    OBVIOUS
  <2> QED
    BY <2>1, <2>2, <2>3 DEF CacheTypeOK
<1>2. DiskInv
  <2>1. Used = {FirstSource}
    BY DEF Used
  <2> QED
    BY <2>1 DEF DiskInv
<1>3. CacheStoreInv
  BY DEF CacheStoreInv
<1>4. ProcessInv
  BY DEF ProcessInv, Stated, Compiled
<1> QED
  BY <1>1, <1>2, <1>3, <1>4 DEF CacheInv

\* The variables that hold a file's metadata, as the proofs use them.
LEMMA Types ==
  ASSUME CacheTypeOK
  PROVE  /\ ccNow \in Nat /\ ccLast \in Nat /\ ccLast <= MaxVersion
         /\ \A s \in Sources : ccVersion[s] \in Nat /\ ccTime[s] \in Nat
         /\ \A v \in 0..ccLast : ccWritten[v].ino \in Sources /\ ccWritten[v].mtime \in Nat
         /\ \A p \in Processes : ccStat[p] \in Nat
         /\ \A i \in CacheFiles : ccCache[i].mtime \in Nat /\ ccCache[i].script \in Nat
         /\ Used \subseteq Sources
<1> USE CacheAssumption DEF Versions, Times, NoScript
<1>1. ccNow \in Nat /\ ccLast \in Nat /\ ccLast <= MaxVersion
  BY DEF CacheTypeOK
<1>2. \A s \in Sources : ccVersion[s] \in Nat /\ ccTime[s] \in Nat
  BY DEF CacheTypeOK
<1>3. \A v \in 0..ccLast : ccWritten[v].ino \in Sources /\ ccWritten[v].mtime \in Nat
  <2>1. ccWritten \in [0..MaxVersion -> [ino : Sources, mtime : 0..MaxTime]]
    BY DEF CacheTypeOK
  <2>2. \A v \in 0..ccLast : v \in 0..MaxVersion
    BY <1>1
  <2> QED
    BY <2>1, <2>2
<1>4. \A p \in Processes : ccStat[p] \in Nat
  BY DEF CacheTypeOK
<1>5. \A i \in CacheFiles : ccCache[i].mtime \in Nat /\ ccCache[i].script \in Nat
  <2>1. ccCache \in [CacheFiles -> [ino : Sources, mtime : 0..MaxTime,
                       script : 0..MaxVersion \cup {MaxVersion + 1}, changed : 0..MaxTime,
                       owned : BOOLEAN]]
    BY DEF CacheTypeOK
  <2> QED
    BY <2>1
<1>6. Used \subseteq Sources
  BY <1>3 DEF Used
<1> QED
  BY <1>1, <1>2, <1>3, <1>4, <1>5, <1>6

-----------------------------------------------------------------------------

\* The clock moves on.
LEMMA TickInv == CacheInv /\ Tick => CacheInv'
<1> SUFFICES ASSUME CacheInv, Tick PROVE CacheInv'
  OBVIOUS
<1> USE CacheAssumption DEF CacheInv, Tick, ccDisk, ccStore, ccProcess
<1>1. CacheTypeOK'
  <2>1. ccNow' \in Times
    BY Types DEF CacheTypeOK, Times
  <2> QED
    BY <2>1 DEF CacheTypeOK, Times, Versions, NoScript
<1>2. Used' = Used
  BY DEF Used
<1>3. DiskInv'
  BY <1>2, Types DEF DiskInv
<1>4. CacheStoreInv' /\ ProcessInv'
  BY <1>2 DEF CacheStoreInv, ProcessInv, WrittenSince, NoScript
<1> QED
  BY <1>1, <1>3, <1>4

\* The editor writes into the inode that is the source now, or into a new one.
LEMMA SaveInv ==
  ASSUME CacheInv, NEW s \in Sources, NEW t \in 0..ccNow, SaveAs(s, t),
         s \in Used => t = ccNow
  PROVE  CacheInv'
<1> USE CacheAssumption DEF CacheInv, SaveAs, ccStore, ccProcess
<1>1. CacheTypeOK'
  <2>1. ccLast + 1 \in Versions /\ t \in Times
    BY Types DEF CacheTypeOK, Versions, Times
  <2>2. ccWritten' \in [Versions -> [ino : Sources, mtime : Times]]
    BY <2>1 DEF CacheTypeOK
  <2> QED
    BY <2>1, <2>2 DEF CacheTypeOK, NoScript, Versions
<1>2. /\ \A v \in 0..ccLast : ccWritten'[v] = ccWritten[v]
      /\ ccWritten'[ccLast + 1] = [ino |-> s, mtime |-> t]
  BY Types DEF CacheTypeOK, Versions
<1>3. Used' = Used \cup {s}
  <2>1. 0..ccLast' = 0..ccLast \cup {ccLast + 1}
    BY Types
  <2> QED
    BY <1>2, <2>1 DEF Used
<1>4. \A v, i, m : WrittenSince(v, i, m) => WrittenSince(v, i, m)'
  BY <1>2, Types DEF WrittenSince
<1>5. DiskInv'
  <2>1. ccSource' \in Used'
    BY <1>3
  <2>2. \A r \in Sources : ccVersion'[r] <= ccLast' /\ ccTime'[r] <= ccNow'
    BY Types DEF DiskInv, CacheTypeOK
  <2>3. ASSUME NEW r \in Used'
        PROVE  ccWritten'[ccVersion'[r]] = [ino |-> r, mtime |-> ccTime'[r]]
    <3>1. CASE r = s
      BY <3>1, <1>2 DEF CacheTypeOK
    <3>2. CASE r # s
      <4>1. r \in Used /\ r \in Sources
        BY <3>2, <1>3, Types
      <4>2. ccVersion'[r] = ccVersion[r] /\ ccTime'[r] = ccTime[r] /\ ccVersion[r] \in 0..ccLast
        BY <3>2, <4>1, Types DEF DiskInv, CacheTypeOK
      <4> QED
        BY <4>1, <4>2, <1>2 DEF DiskInv
    <3> QED
      BY <3>1, <3>2
  <2> QED
    BY <2>1, <2>2, <2>3 DEF DiskInv
<1>6. CacheStoreInv'
  BY <1>4 DEF CacheStoreInv, NoScript
<1>7. ProcessInv'
  <2> SUFFICES ASSUME NEW p \in Processes
               PROVE  /\ ccPc[p] \in Stated \cup {"fstat"} => ccOpened[p] \in Used'
                      /\ ccPc[p] \in Stated => ccStat[p] <= ccTime'[ccOpened[p]]
                      /\ ccPc[p] \in Compiled => WrittenSince(ccScript[p], ccOpened[p], ccStat[p])'
    BY DEF ProcessInv
  <2>1. ccPc[p] \in Stated \cup {"fstat"} => ccOpened[p] \in Used'
    BY <1>3 DEF ProcessInv
  <2>2. ccPc[p] \in Compiled => WrittenSince(ccScript[p], ccOpened[p], ccStat[p])'
    BY <1>4 DEF ProcessInv
  <2>3. ASSUME ccPc[p] \in Stated PROVE ccStat[p] <= ccTime'[ccOpened[p]]
    <3>1. /\ ccOpened[p] \in Used /\ ccOpened[p] \in Sources
          /\ ccStat[p] <= ccTime[ccOpened[p]] /\ ccTime[ccOpened[p]] <= ccNow
      BY <2>3, Types DEF ProcessInv, DiskInv
    <3> QED
      BY <3>1, Types DEF CacheTypeOK
  <2> QED
    BY <2>1, <2>2, <2>3
<1> QED
  BY <1>1, <1>5, <1>6, <1>7

-----------------------------------------------------------------------------

\* A step leaves what the other processes know as it is.
ProcessesStay(p) ==
  \A q \in Processes \ {p} :
    /\ ccPc'[q] = ccPc[q]
    /\ ccOpened'[q] = ccOpened[q] /\ ccStat'[q] = ccStat[q] /\ ccScript'[q] = ccScript[q]

\* A step writes into a cache file nothing, or no script, or one that is what it says.
CacheStaysTrue ==
  \A i \in CacheFiles :
    \/ ccCache'[i] = ccCache[i] \/ ccCache'[i].script = NoScript
    \/ WrittenSince(ccCache'[i].script, ccCache'[i].ino, ccCache'[i].mtime)

\* The steps of a process leave the sources alone; what remains to be seen is what they
\* do to the cache files and to the process itself.
LEMMA ProcessStep ==
  ASSUME CacheInv, UNCHANGED <<ccNow, ccDisk>>, CacheTypeOK',
         CacheStaysTrue,
         NEW p \in Processes,
         ProcessesStay(p),
         ccPc'[p] \in Stated \cup {"fstat"} => ccOpened'[p] \in Used,
         ccPc'[p] \in Stated => ccStat'[p] <= ccTime[ccOpened'[p]],
         ccPc'[p] \in Compiled => WrittenSince(ccScript'[p], ccOpened'[p], ccStat'[p])
  PROVE  CacheInv'
<1>1. Used' = Used /\ \A v, i, m : WrittenSince(v, i, m)' <=> WrittenSince(v, i, m)
  BY DEF Used, WrittenSince, ccDisk
<1>2. DiskInv'
  BY <1>1 DEF CacheInv, DiskInv, ccDisk
<1>3. CacheStoreInv'
  BY <1>1 DEF CacheInv, CacheStaysTrue, CacheStoreInv, NoScript, WrittenSince, ccDisk
<1>4. ProcessInv'
  BY <1>1 DEF CacheInv, ProcessesStay, ProcessInv, WrittenSince, ccDisk
<1> QED
  BY <1>2, <1>3, <1>4 DEF CacheInv

\* The types of what a process knows.
ProcessTypes ==
  /\ ccPc \in [Processes -> {"idle", "fstat", "open", "lock_sh", "check", "compile", "unlink",
                             "create", "lock_ex", "fchown", "write", "thawed", "dead"}]
  /\ ccOpened \in [Processes -> Sources \cup {NoFile}] /\ ccStat \in [Processes -> Times]
  /\ ccFile \in [Processes -> CacheFiles \cup {NoFile}]
  /\ ccLock \in [Processes -> {"none", "SH", "EX"}]
  /\ ccScript \in [Processes -> Versions \cup {NoScript}]
  /\ \A p \in Processes : ccFile[p] # NoFile <=>
        ccPc[p] \in {"lock_sh", "check", "lock_ex", "fchown", "write"}

CacheRecords == [ino : Sources, mtime : Times, script : Versions \cup {NoScript},
                 changed : Times, owned : BOOLEAN]

\* A process that returns, or dies, has no file open and no script.
LEMMA LeaveInv ==
  ASSUME CacheTypeOK, NEW p \in Processes, NEW pc \in {"idle", "dead"}, Leave(p, pc)
  PROVE  /\ ProcessTypes'
         /\ ccPc'[p] = pc
         /\ ProcessesStay(p)
<1> USE DEF CacheTypeOK, Leave, Close, CcGoto
<1>1. /\ ccPc' = [ccPc EXCEPT ![p] = pc] /\ ccPc'[p] = pc
      /\ ccFile' = [ccFile EXCEPT ![p] = NoFile] /\ ccFile'[p] = NoFile
  OBVIOUS
<1>2. 0 \in Times
  BY CacheAssumption DEF Times
<1>3. ProcessTypes'
  BY <1>1, <1>2, CacheAssumption DEF ProcessTypes, NoScript, Versions
<1>4. ProcessesStay(p)
  BY DEF ProcessesStay
<1> QED
  BY <1>1, <1>3, <1>4

\* The invariant holds after a return, and after a crash, whatever is left in the cache,
\* as long as that is true.
LEMMA LeftInv ==
  ASSUME CacheInv, NEW p \in Processes, NEW pc \in {"idle", "dead"}, Leave(p, pc),
         UNCHANGED <<ccNow, ccDisk>>,
         ccPath' \in CacheFiles \cup {NoFile}, ccCache' \in [CacheFiles -> CacheRecords],
         CacheStaysTrue
  PROVE  CacheInv'
<1>1. CacheTypeOK
  BY DEF CacheInv
<1>2. CacheTypeOK'
  BY <1>1, LeaveInv DEF CacheTypeOK, ProcessTypes, CacheRecords, ccDisk
<1>3. /\ ccPc'[p] \notin Stated \cup {"fstat"} /\ ccPc'[p] \notin Compiled
      /\ ProcessesStay(p)
  BY <1>1, LeaveInv DEF ProcessesStay, Stated, Compiled
<1> QED
  BY <1>2, <1>3, ProcessStep

\* The process opens the inode at the path, which has been written.
LEMMA OpenSourceInv == ASSUME CacheInv, NEW p \in Processes, OpenSource(p) PROVE CacheInv'
<1> USE DEF OpenSource, CcGoto, ccStore, ccDisk
<1>1. CacheTypeOK'
  BY CacheAssumption DEF CacheInv, CacheTypeOK, Versions, Times, NoScript
<1>2. UNCHANGED <<ccNow, ccDisk>>
  OBVIOUS
<1>3. CacheStaysTrue
  BY Types DEF CacheStaysTrue, CacheInv, ProcessInv, Compiled, CacheTypeOK
<1>4. ProcessesStay(p)
  BY DEF ProcessesStay, CacheInv, CacheTypeOK
<1>5. ccPc'[p] \in Stated \cup {"fstat"} => ccOpened'[p] \in Used
  BY DEF CacheInv, CacheTypeOK, ProcessInv, DiskInv, Stated
<1>6. ccPc'[p] \in Stated => ccStat'[p] <= ccTime[ccOpened'[p]]
  BY Types DEF CacheInv, CacheTypeOK, ProcessInv, Stated
<1>7. ccPc'[p] \in Compiled => WrittenSince(ccScript'[p], ccOpened'[p], ccStat'[p])
  BY Types DEF CacheInv, CacheTypeOK, ProcessInv, Compiled, Stated
<1> QED
  BY <1>1, <1>2, <1>3, <1>4, <1>5, <1>6, <1>7, ProcessStep

\* It reads the time of that inode.
LEMMA StatSourceInv == ASSUME CacheInv, NEW p \in Processes, StatSource(p) PROVE CacheInv'
<1> USE DEF StatSource, CcGoto, ccStore, ccDisk
<1>1. CacheTypeOK'
  <2>1. ccOpened[p] \in Sources
    BY Types DEF CacheInv, ProcessInv
  <2> QED
    BY <2>1 DEF CacheInv, CacheTypeOK
<1>2. UNCHANGED <<ccNow, ccDisk>>
  OBVIOUS
<1>3. CacheStaysTrue
  BY Types DEF CacheStaysTrue, CacheInv, ProcessInv, Compiled, CacheTypeOK
<1>4. ProcessesStay(p)
  BY DEF ProcessesStay, CacheInv, CacheTypeOK
<1>5. ccPc'[p] \in Stated \cup {"fstat"} => ccOpened'[p] \in Used
  BY DEF CacheInv, CacheTypeOK, ProcessInv, DiskInv, Stated
<1>6. ccPc'[p] \in Stated => ccStat'[p] <= ccTime[ccOpened'[p]]
  BY Types DEF CacheInv, CacheTypeOK, ProcessInv, Stated
<1>7. ccPc'[p] \in Compiled => WrittenSince(ccScript'[p], ccOpened'[p], ccStat'[p])
  BY Types DEF CacheInv, CacheTypeOK, ProcessInv, Compiled, Stated
<1> QED
  BY <1>1, <1>2, <1>3, <1>4, <1>5, <1>6, <1>7, ProcessStep

\* The cache file there is, if any, is opened, and locked.
LEMMA OpenCacheInv == ASSUME CacheInv, NEW p \in Processes, OpenCache(p) PROVE CacheInv'
<1> USE DEF OpenCache, CcGoto, ccStore, ccDisk
<1>1. CacheTypeOK'
  BY CacheAssumption DEF CacheInv, CacheTypeOK, Versions, Times, NoScript
<1>2. UNCHANGED <<ccNow, ccDisk>>
  OBVIOUS
<1>3. CacheStaysTrue
  BY Types DEF CacheStaysTrue, CacheInv, ProcessInv, Compiled, CacheTypeOK
<1>4. ProcessesStay(p)
  BY DEF ProcessesStay, CacheInv, CacheTypeOK
<1>5. ccPc'[p] \in Stated \cup {"fstat"} => ccOpened'[p] \in Used
  BY DEF CacheInv, CacheTypeOK, ProcessInv, DiskInv, Stated
<1>6. ccPc'[p] \in Stated => ccStat'[p] <= ccTime[ccOpened'[p]]
  BY Types DEF CacheInv, CacheTypeOK, ProcessInv, Stated
<1>7. ccPc'[p] \in Compiled => WrittenSince(ccScript'[p], ccOpened'[p], ccStat'[p])
  BY Types DEF CacheInv, CacheTypeOK, ProcessInv, Compiled, Stated
<1> QED
  BY <1>1, <1>2, <1>3, <1>4, <1>5, <1>6, <1>7, ProcessStep

LEMMA LockSharedInv == ASSUME CacheInv, NEW p \in Processes, LockShared(p) PROVE CacheInv'
<1> USE DEF LockShared, Flock, CcGoto, ccStore, ccDisk
<1>1. CacheTypeOK'
  BY CacheAssumption DEF CacheInv, CacheTypeOK, Versions, Times, NoScript
<1>2. UNCHANGED <<ccNow, ccDisk>>
  OBVIOUS
<1>3. CacheStaysTrue
  BY Types DEF CacheStaysTrue, CacheInv, ProcessInv, Compiled, CacheTypeOK
<1>4. ProcessesStay(p)
  BY DEF ProcessesStay, CacheInv, CacheTypeOK
<1>5. ccPc'[p] \in Stated \cup {"fstat"} => ccOpened'[p] \in Used
  BY DEF CacheInv, CacheTypeOK, ProcessInv, DiskInv, Stated
<1>6. ccPc'[p] \in Stated => ccStat'[p] <= ccTime[ccOpened'[p]]
  BY Types DEF CacheInv, CacheTypeOK, ProcessInv, Stated
<1>7. ccPc'[p] \in Compiled => WrittenSince(ccScript'[p], ccOpened'[p], ccStat'[p])
  BY Types DEF CacheInv, CacheTypeOK, ProcessInv, Compiled, Stated
<1> QED
  BY <1>1, <1>2, <1>3, <1>4, <1>5, <1>6, <1>7, ProcessStep

\* A script is thawed from a file that names the process's inode and time.
LEMMA CheckCacheInv == ASSUME CacheInv, NEW p \in Processes, CheckCache(p) PROVE CacheInv'
<1> USE DEF CheckCache, MatchesSource, Close, CcGoto, ccStore, ccDisk
<1>1. CacheTypeOK'
  BY CacheAssumption DEF CacheInv, CacheTypeOK, Versions, Times, NoScript
<1>2. UNCHANGED <<ccNow, ccDisk>>
  OBVIOUS
<1>3. CacheStaysTrue
  BY Types DEF CacheStaysTrue, CacheInv, ProcessInv, Compiled, CacheTypeOK
<1>4. ProcessesStay(p)
  BY DEF ProcessesStay, CacheInv, CacheTypeOK
<1>5. ccPc'[p] \in Stated \cup {"fstat"} => ccOpened'[p] \in Used
  BY DEF CacheInv, CacheTypeOK, ProcessInv, DiskInv, Stated
<1>6. ccPc'[p] \in Stated => ccStat'[p] <= ccTime[ccOpened'[p]]
  BY Types DEF CacheInv, CacheTypeOK, ProcessInv, Stated
<1>7. ccPc'[p] \in Compiled => WrittenSince(ccScript'[p], ccOpened'[p], ccStat'[p])
  <2> DEFINE c == ccCache[ccFile[p]]
  <2>1. ccFile[p] \in CacheFiles /\ ccOpened'[p] = ccOpened[p] /\ ccStat'[p] = ccStat[p]
    BY DEF CacheInv, CacheTypeOK
  <2>2. CASE MatchesSource(p, c) /\ c.script # NoScript
    <3>1. WrittenSince(c.script, c.ino, c.mtime) /\ c.ino = ccOpened[p] /\ c.mtime = ccStat[p]
      BY <2>1, <2>2 DEF CacheInv, CacheStoreInv
    <3>2. ccScript'[p] = c.script
      BY <2>2 DEF CacheInv, CacheTypeOK
    <3> QED
      BY <2>1, <3>1, <3>2
  <2>3. CASE ~(MatchesSource(p, c) /\ c.script # NoScript)
    <3>1. ccPc'[p] = "compile"
      BY <2>3 DEF CacheInv, CacheTypeOK
    <3> QED
      BY <3>1 DEF Compiled
  <2> QED
    BY <2>2, <2>3
<1> QED
  BY <1>1, <1>2, <1>3, <1>4, <1>5, <1>6, <1>7, ProcessStep

\* The script is of the version that the inode holds now, written when the process read
\* its time or later.
LEMMA CompileInv == ASSUME CacheInv, NEW p \in Processes, Compile(p) PROVE CacheInv'
<1>1. UNCHANGED <<ccNow, ccDisk, ccStore>>
  BY DEF Compile
<1>2. ccPath' \in CacheFiles \cup {NoFile} /\ ccCache' \in [CacheFiles -> CacheRecords]
  BY <1>1 DEF CacheInv, CacheTypeOK, CacheRecords, ccStore
<1>3. CASE Leave(p, "idle")
  BY <1>1, <1>2, <1>3, LeftInv DEF ccStore, CacheStaysTrue
<1>4. CASE /\ ccPc[p] = "compile" /\ CcGoto(p, "unlink")
           /\ ccScript' = [ccScript EXCEPT ![p] = ccVersion[ccOpened[p]]]
           /\ UNCHANGED <<ccOpened, ccStat, ccFile, ccLock>>
  <2>1. ccOpened[p] \in Used /\ ccOpened[p] \in Sources /\ ccStat[p] <= ccTime[ccOpened[p]]
    BY <1>4, Types DEF CacheInv, ProcessInv, Stated
  <2>2. WrittenSince(ccVersion[ccOpened[p]], ccOpened[p], ccStat[p])
    <3>1. ccWritten[ccVersion[ccOpened[p]]] = [ino |-> ccOpened[p], mtime |-> ccTime[ccOpened[p]]]
      BY <2>1 DEF CacheInv, DiskInv
    <3>2. ccVersion[ccOpened[p]] \in 0..ccLast
      BY <2>1, Types DEF CacheInv, DiskInv
    <3> QED
      BY <2>1, <3>1, <3>2 DEF WrittenSince
  <2>3. CacheTypeOK'
    BY <1>1, <1>4, <2>1 DEF CacheInv, CacheTypeOK, CcGoto, ccDisk, ccStore
  <2>4. /\ ccPc'[p] = "unlink" /\ ccScript'[p] = ccVersion[ccOpened[p]]
        /\ ccOpened'[p] = ccOpened[p] /\ ccStat'[p] = ccStat[p]
        /\ ProcessesStay(p)
    BY <1>4 DEF ProcessesStay, CacheInv, CacheTypeOK, CcGoto
  <2> QED
    BY <1>1, <2>1, <2>2, <2>3, <2>4, ProcessStep DEF ccStore, CacheStaysTrue
<1> QED
  BY <1>3, <1>4 DEF Compile

\* The path of the cache is cleared; a new file is made there, locked and given to the
\* owner of the source.
LEMMA UnlinkCacheInv == ASSUME CacheInv, NEW p \in Processes, UnlinkCache(p) PROVE CacheInv'
<1> USE DEF UnlinkCache, CcGoto, ccStore, ccDisk
<1>1. CacheTypeOK'
  BY CacheAssumption DEF CacheInv, CacheTypeOK, Versions, Times, NoScript
<1>2. UNCHANGED <<ccNow, ccDisk>>
  OBVIOUS
<1>3. CacheStaysTrue
  BY Types DEF CacheStaysTrue, CacheInv, ProcessInv, Compiled, CacheTypeOK
<1>4. ProcessesStay(p)
  BY DEF ProcessesStay, CacheInv, CacheTypeOK
<1>5. ccPc'[p] \in Stated \cup {"fstat"} => ccOpened'[p] \in Used
  BY DEF CacheInv, CacheTypeOK, ProcessInv, DiskInv, Stated
<1>6. ccPc'[p] \in Stated => ccStat'[p] <= ccTime[ccOpened'[p]]
  BY Types DEF CacheInv, CacheTypeOK, ProcessInv, Stated
<1>7. ccPc'[p] \in Compiled => WrittenSince(ccScript'[p], ccOpened'[p], ccStat'[p])
  BY Types DEF CacheInv, CacheTypeOK, ProcessInv, Compiled, Stated
<1> QED
  BY <1>1, <1>2, <1>3, <1>4, <1>5, <1>6, <1>7, ProcessStep

\* The new file holds no script yet.
LEMMA CreateCacheInv == ASSUME CacheInv, NEW p \in Processes, CreateCache(p) PROVE CacheInv'
<1>1. CASE ccPath # NoFile
  <2>1. Leave(p, "idle") /\ UNCHANGED <<ccNow, ccDisk, ccStore>>
    BY <1>1 DEF CreateCache
  <2>2. ccPath' \in CacheFiles \cup {NoFile} /\ ccCache' \in [CacheFiles -> CacheRecords]
    BY <2>1 DEF CacheInv, CacheTypeOK, CacheRecords, ccStore
  <2> QED
    BY <2>1, <2>2, LeftInv DEF ccStore, CacheStaysTrue
<1>2. CASE ccPath = NoFile
  <2>1. UNCHANGED <<ccNow, ccDisk>>
    BY DEF CreateCache
  <2>2. PICK i \in CacheFiles, owner \in BOOLEAN :
          /\ ccPath' = i
          /\ ccCache' = [ccCache EXCEPT ![i] = [@ EXCEPT !.script = NoScript, !.changed = ccNow,
                                                         !.owned = owner]]
          /\ ccFile' = [ccFile EXCEPT ![p] = i]
          /\ CcGoto(p, "lock_ex")
          /\ UNCHANGED <<ccOpened, ccStat, ccLock, ccScript>>
    BY <1>2 DEF CreateCache
  <2>3. ccCache' \in [CacheFiles -> CacheRecords] /\ ccCache'[i].script = NoScript
    <3>1. ccCache[i] \in CacheRecords
      BY DEF CacheInv, CacheTypeOK, CacheRecords
    <3> DEFINE d == [ccCache[i] EXCEPT !.script = NoScript, !.changed = ccNow, !.owned = owner]
    <3>2. d \in CacheRecords
      BY <3>1 DEF CacheInv, CacheTypeOK, CacheRecords
    <3>3. d.script = NoScript
      BY <3>1 DEF CacheRecords
    <3> QED
      BY <2>2, <3>2, <3>3 DEF CacheInv, CacheTypeOK, CacheRecords
  <2>4. CacheStaysTrue
    BY <2>2, <2>3 DEF CacheStaysTrue, CacheInv, CacheTypeOK
  <2>5. ccPc[p] = "create" /\ ccPc'[p] = "lock_ex" /\ ccScript'[p] = ccScript[p]
        /\ ccOpened'[p] = ccOpened[p] /\ ccStat'[p] = ccStat[p]
        /\ ProcessesStay(p)
    BY <2>2 DEF ProcessesStay, CacheInv, CacheTypeOK, CcGoto, CreateCache
  <2>6. CacheTypeOK'
    BY <2>1, <2>2, <2>3, CacheAssumption DEF CacheInv, CacheTypeOK, CacheRecords, CcGoto, ccDisk
  <2>7. /\ ccOpened[p] \in Used /\ ccStat[p] <= ccTime[ccOpened[p]]
        /\ WrittenSince(ccScript[p], ccOpened[p], ccStat[p])
    BY <2>5 DEF CacheInv, ProcessInv, Stated, Compiled
  <2> QED
    BY <2>1, <2>4, <2>5, <2>6, <2>7, ProcessStep
<1> QED
  BY <1>1, <1>2

LEMMA LockExclusiveInv == ASSUME CacheInv, NEW p \in Processes, LockExclusive(p) PROVE CacheInv'
<1> USE DEF LockExclusive, Flock, CcGoto, ccStore, ccDisk
<1>1. CacheTypeOK'
  BY CacheAssumption DEF CacheInv, CacheTypeOK, Versions, Times, NoScript
<1>2. UNCHANGED <<ccNow, ccDisk>>
  OBVIOUS
<1>3. CacheStaysTrue
  BY Types DEF CacheStaysTrue, CacheInv, ProcessInv, Compiled, CacheTypeOK
<1>4. ProcessesStay(p)
  BY DEF ProcessesStay, CacheInv, CacheTypeOK
<1>5. ccPc'[p] \in Stated \cup {"fstat"} => ccOpened'[p] \in Used
  BY DEF CacheInv, CacheTypeOK, ProcessInv, DiskInv, Stated
<1>6. ccPc'[p] \in Stated => ccStat'[p] <= ccTime[ccOpened'[p]]
  BY Types DEF CacheInv, CacheTypeOK, ProcessInv, Stated
<1>7. ccPc'[p] \in Compiled => WrittenSince(ccScript'[p], ccOpened'[p], ccStat'[p])
  BY Types DEF CacheInv, CacheTypeOK, ProcessInv, Compiled, Stated
<1> QED
  BY <1>1, <1>2, <1>3, <1>4, <1>5, <1>6, <1>7, ProcessStep

LEMMA ChownCacheInv == ASSUME CacheInv, NEW p \in Processes, ChownCache(p) PROVE CacheInv'
<1>1. UNCHANGED <<ccNow, ccDisk>> /\ ccPc[p] = "fchown" /\ ccFile[p] \in CacheFiles
  BY DEF ChownCache, CacheInv, CacheTypeOK
<1>2. CASE Leave(p, "idle") /\ ccPath' = NoFile /\ UNCHANGED ccCache
  <2>1. ccPath' \in CacheFiles \cup {NoFile} /\ ccCache' \in [CacheFiles -> CacheRecords]
    BY <1>2 DEF CacheInv, CacheTypeOK, CacheRecords
  <2> QED
    BY <1>1, <1>2, <2>1, LeftInv DEF CacheStaysTrue
<1>3. CASE /\ ccCache' = [ccCache EXCEPT ![ccFile[p]].owned = TRUE]
           /\ CcGoto(p, "write")
           /\ UNCHANGED <<ccPath, ccOpened, ccStat, ccFile, ccLock, ccScript>>
  <2> DEFINE c == ccCache[ccFile[p]]
             d == [c EXCEPT !.owned = TRUE]
  <2>1. c \in CacheRecords
    BY <1>1 DEF CacheInv, CacheTypeOK, CacheRecords
  <2>2. d \in CacheRecords /\ d.script = c.script /\ d.ino = c.ino /\ d.mtime = c.mtime
    BY <2>1 DEF CacheRecords
  <2>3. /\ ccCache' \in [CacheFiles -> CacheRecords] /\ ccCache'[ccFile[p]] = d
        /\ \A i \in CacheFiles \ {ccFile[p]} : ccCache'[i] = ccCache[i]
    BY <1>1, <1>3, <2>2 DEF CacheInv, CacheTypeOK, CacheRecords
  <2>4. CacheStaysTrue
    BY <1>1, <2>2, <2>3 DEF CacheStaysTrue, CacheInv, CacheStoreInv
  <2>5. ccPc'[p] = "write" /\ ccScript'[p] = ccScript[p]
        /\ ccOpened'[p] = ccOpened[p] /\ ccStat'[p] = ccStat[p]
        /\ ProcessesStay(p)
    BY <1>3 DEF ProcessesStay, CacheInv, CacheTypeOK, CcGoto
  <2>6. CacheTypeOK'
    BY <1>1, <1>3, <2>3 DEF CacheInv, CacheTypeOK, CacheRecords, CcGoto, ccDisk
  <2>7. /\ ccOpened[p] \in Used /\ ccStat[p] <= ccTime[ccOpened[p]]
        /\ WrittenSince(ccScript[p], ccOpened[p], ccStat[p])
    BY <1>1 DEF CacheInv, ProcessInv, Stated, Compiled
  <2> QED
    BY <1>1, <2>4, <2>5, <2>6, <2>7, ProcessStep
<1> QED
  BY <1>2, <1>3 DEF ChownCache

\* What the process knows of its script goes into the file.
LEMMA WriteCacheInv == ASSUME CacheInv, NEW p \in Processes, WriteCache(p) PROVE CacheInv'
<1> DEFINE record(s) == [ino |-> ccOpened[p], mtime |-> ccStat[p], script |-> s,
                         changed |-> ccNow, owned |-> TRUE]
<1>1. PICK s \in {ccScript[p], NoScript} : ccCache' = [ccCache EXCEPT ![ccFile[p]] = record(s)]
  BY DEF WriteCache
<1>2. Leave(p, "idle") /\ UNCHANGED <<ccNow, ccDisk, ccPath>>
  BY DEF WriteCache
<1>3. /\ ccOpened[p] \in Sources
      /\ WrittenSince(ccScript[p], ccOpened[p], ccStat[p])
  BY Types DEF CacheInv, ProcessInv, Compiled, Stated, WriteCache
<1>4. record(s) \in CacheRecords
  BY <1>3 DEF CacheInv, CacheTypeOK, CacheRecords
<1>5. ccPath' \in CacheFiles \cup {NoFile} /\ ccCache' \in [CacheFiles -> CacheRecords]
  BY <1>1, <1>2, <1>4 DEF CacheInv, CacheTypeOK, CacheRecords
<1>6. CacheStaysTrue
  BY <1>1, <1>3 DEF CacheStaysTrue, CacheInv, CacheTypeOK
<1> QED
  BY <1>2, <1>5, <1>6, LeftInv

\* The script runs, or the process dies.
LEMMA RunThawedInv == ASSUME CacheInv, NEW p \in Processes, RunThawed(p) PROVE CacheInv'
<1>1. Leave(p, "idle") /\ UNCHANGED <<ccNow, ccDisk, ccStore>>
  BY DEF RunThawed
<1>2. ccPath' \in CacheFiles \cup {NoFile} /\ ccCache' \in [CacheFiles -> CacheRecords]
  BY <1>1 DEF CacheInv, CacheTypeOK, CacheRecords, ccStore
<1> QED
  BY <1>1, <1>2, LeftInv DEF ccStore, CacheStaysTrue

LEMMA CrashInv == ASSUME CacheInv, NEW p \in Processes, Crash(p) PROVE CacheInv'
<1>1. Leave(p, "dead") /\ UNCHANGED <<ccNow, ccDisk, ccStore>>
  BY DEF Crash
<1>2. ccPath' \in CacheFiles \cup {NoFile} /\ ccCache' \in [CacheFiles -> CacheRecords]
  BY <1>1 DEF CacheInv, CacheTypeOK, CacheRecords, ccStore
<1> QED
  BY <1>1, <1>2, LeftInv DEF ccStore, CacheStaysTrue

-----------------------------------------------------------------------------

\* Every step keeps the invariant.
LEMMA CacheNextInv == CacheInv /\ [CacheNext]_cacheVars => CacheInv'
<1> SUFFICES ASSUME CacheInv, [CacheNext]_cacheVars PROVE CacheInv'
  OBVIOUS
<1>1. CASE UNCHANGED cacheVars
  BY <1>1 DEF cacheVars, ccDisk, ccStore, ccProcess, CacheInv, CacheTypeOK, DiskInv, CacheStoreInv,
              ProcessInv, Used, WrittenSince
<1>2. CASE Tick
  BY <1>2, TickInv
<1>3. CASE Overwrite
  <2>1. ccSource \in Sources /\ ccNow \in 0..ccNow
    BY Types DEF CacheInv, CacheTypeOK
  <2> QED
    BY <1>3, <2>1, SaveInv DEF Overwrite
<1>4. CASE Replace
  <2>1. PICK s \in Sources, t \in 0..ccNow :
          (\A v \in 0..ccLast : ccWritten[v].ino # s) /\ SaveAs(s, t)
    BY <1>4 DEF Replace
  <2> QED
    BY <2>1, SaveInv DEF Used
<1>5. CASE \E p \in Processes :
             \/ OpenSource(p) \/ StatSource(p) \/ OpenCache(p) \/ LockShared(p) \/ CheckCache(p)
             \/ Compile(p) \/ UnlinkCache(p) \/ CreateCache(p) \/ LockExclusive(p)
             \/ ChownCache(p) \/ WriteCache(p) \/ RunThawed(p) \/ Crash(p)
  BY <1>5, OpenSourceInv, StatSourceInv, OpenCacheInv, LockSharedInv, CheckCacheInv, CompileInv,
     UnlinkCacheInv, CreateCacheInv, LockExclusiveInv, ChownCacheInv, WriteCacheInv,
     RunThawedInv, CrashInv
<1> QED
  BY <1>1, <1>2, <1>3, <1>4, <1>5 DEF CacheNext

\* The invariant holds for ever.
LEMMA CacheInvariance == CacheSpec => []CacheInv
  BY CacheStarts, CacheNextInv, PTL DEF CacheSpec

-----------------------------------------------------------------------------

\* The disk, the cache and what the processes know stay in their domains.
THEOREM CacheTypeCorrect == CacheSpec => []CacheTypeOK
  BY CacheInvariance, PTL DEF CacheInv

\* A thawed script is one that was written to the open inode at the time that the process
\* read of it, or later: with any number of processes, editors' writes and crashes.
THEOREM ThawedScriptsAreCurrent == CacheSpec => []ThawedIsCurrent
<1>1. CacheInv => ThawedIsCurrent
  BY DEF CacheInv, ProcessInv, Compiled, WrittenSince, ThawedIsCurrent
<1> QED
  BY <1>1, CacheInvariance, PTL

-----------------------------------------------------------------------------
(* The four libraries together                                               *)

\* The state of whichever library a behaviour takes the steps of keeps its types: what
\* the run of MCLibraries checks, for any objects, files, realms and events, any lengths
\* and any delays.
THEOREM LibrariesTypeCorrect == Spec => []TypeOK
<1> DEFINE Inv == ByteInv /\ FinalizeInv /\ CacheInv /\ ReactorInv
<1>1. Init => Inv
  BY ByteInvInit, InitFinalize, CacheStarts, InitReactor DEF Init
<1>2. Inv /\ [Next]_<<part, byteVars, wfVars, cacheVars, reactorVars>> => Inv'
  <2> SUFFICES ASSUME Inv, [Next]_<<part, byteVars, wfVars, cacheVars, reactorVars>>
               PROVE  Inv'
    OBVIOUS
  <2>1. /\ [ByteNext]_byteVars /\ [FinalizeNext]_wfVars
        /\ [CacheNext]_cacheVars /\ [ReactorNext]_reactorVars
    BY DEF Next, ByteStep, FinalizeStep, CacheStep, ReactorStep
  <2> QED
    BY <2>1, ByteInvStep, FinalizeNextKeeps, CacheNextInv, ReactorNextKeeps
<1>3. Inv => TypeOK
  BY DEF ByteInv, FinalizeInv, CacheInv, ReactorInv, TypeOK
<1> QED
  BY <1>1, <1>2, <1>3, PTL DEF Spec
=============================================================================
