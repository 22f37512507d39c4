----------------------------- MODULE WillFinalize -----------------------------
(***************************************************************************)
(* The finalizers of the gffi module (modules/gffi/WillFinalize.c): a      *)
(* script hands a WillFinalize object the C function to call when the      *)
(* object is collected.  The garbage collector finalizes objects in any    *)
(* order, so a callback at the end of marking keeps the CFunction of every *)
(* pending call alive; the pending calls are in a data store that the one  *)
(* static variable pendingFinalizers names, for every realm that loads the *)
(* module.  While the collector runs no script does.                       *)
(*                                                                         *)
(* The monitor of the store is that of module DataStore and is left out.   *)
(* An access the program does not survive, in a build with or without the  *)
(* assertions, is recorded in wfTrap, and nothing happens after it.        *)
(***************************************************************************)
EXTENDS Naturals, FiniteSets

CONSTANTS WfRealms,      \* the realms that may load gffi
          NoWfRealm,
          Finalizees,    \* the WillFinalize objects
          CFunctions,     \* the CFunction objects
          NoCall     \* NULL

ASSUME FinalizeAssumption ==
  NoWfRealm \notin WfRealms /\ NoCall \notin CFunctions /\ Finalizees \cap CFunctions = {}

VARIABLES wfModule,      \* per realm: how far the life of its gffi module is
          wfStores,      \* per realm: the data store made when it loaded gffi
          wfFreed,       \* the stores that are destroyed
          wfPending,     \* pendingFinalizers, as the realm the store was made for
          wfCallbacks,   \* the realms WillFinalize_GCCallback is registered for
          wfObject,      \* per object: not allocated, reachable, unreachable, finalized
          wfHome,        \* per WillFinalize object: the realm it was made in
          wfClosure,     \* per WillFinalize object: the function its private closure calls
          wfDoomed,      \* the objects the collector is finalizing
          wfCollecting,  \* the collector is past its mark phase
          wfTrap         \* the access that has stopped the program

wfStore == <<wfStores, wfFreed, wfPending>>
wfGc == <<wfDoomed, wfCollecting>>
wfVars == <<wfModule, wfStore, wfCallbacks, wfObject, wfHome, wfClosure, wfGc, wfTrap>>

WfObjects == Finalizees \cup CFunctions
NoCalls == [w \in Finalizees |-> NoCall]

FinalizeTypeOK ==
  /\ wfModule \in [WfRealms -> {"absent", "loaded", "unrooted", "fini", "dangling",
                                "again", "stuck", "force", "finished"}]
  /\ wfStores \in [WfRealms -> [Finalizees -> CFunctions \cup {NoCall}]]
  /\ wfFreed \subseteq WfRealms
  /\ wfPending \in WfRealms \cup {NoWfRealm}
  /\ wfCallbacks \subseteq WfRealms
  /\ wfObject \in [WfObjects -> {"none", "held", "dropped", "gone"}]
  /\ wfHome \in [Finalizees -> WfRealms \cup {NoWfRealm}]
  /\ wfClosure \in [Finalizees -> CFunctions \cup {NoCall}]
  /\ wfDoomed \subseteq WfObjects
  /\ wfCollecting \in BOOLEAN
  /\ wfTrap \in {"none", "store", "function"}

FinalizeInit ==
  /\ wfModule = [r \in WfRealms |-> "absent"]
  /\ wfStores = [r \in WfRealms |-> NoCalls]
  /\ wfFreed = {} /\ wfPending = NoWfRealm
  /\ wfCallbacks = {}
  /\ wfObject = [o \in WfObjects |-> "none"]
  /\ wfHome = [w \in Finalizees |-> NoWfRealm]
  /\ wfClosure = NoCalls
  /\ wfDoomed = {} /\ wfCollecting = FALSE
  /\ wfTrap = "none"

Script(r) == ~wfCollecting /\ wfModule[r] = "loaded"

StoreFreed == wfPending \in wfFreed

WfTrap(kind) ==
  /\ wfTrap' = kind
  /\ UNCHANGED <<wfModule, wfStore, wfCallbacks, wfObject, wfHome, wfClosure, wfGc>>

-----------------------------------------------------------------------------
(* The module and the objects                                                *)

\* A store of this realm's own, in the variable of all of them.
InitClass(r) ==
  /\ ~wfCollecting
  /\ wfModule[r] = "absent"
  /\ wfModule' = [wfModule EXCEPT ![r] = "loaded"]
  /\ wfPending' = r
  /\ wfCallbacks' = wfCallbacks \cup {r}
  /\ UNCHANGED <<wfStores, wfFreed, wfObject, wfHome, wfClosure, wfGc, wfTrap>>

NewWillFinalize(w, r) ==
  /\ Script(r)
  /\ wfObject[w] = "none"
  /\ wfObject' = [wfObject EXCEPT ![w] = "held"]
  /\ wfHome' = [wfHome EXCEPT ![w] = r]
  /\ UNCHANGED <<wfModule, wfStore, wfCallbacks, wfClosure, wfGc, wfTrap>>

NewCFunction(f, r) ==
  /\ Script(r)
  /\ wfObject[f] = "none"
  /\ wfObject' = [wfObject EXCEPT ![f] = "held"]
  /\ UNCHANGED <<wfModule, wfStore, wfCallbacks, wfHome, wfClosure, wfGc, wfTrap>>

Unreference(o) ==
  /\ ~wfCollecting
  /\ wfObject[o] = "held"
  /\ wfObject' = [wfObject EXCEPT ![o] = "dropped"]
  /\ UNCHANGED <<wfModule, wfStore, wfCallbacks, wfHome, wfClosure, wfGc, wfTrap>>

HeldByScript(w) == wfObject[w] = "held" /\ Script(wfHome[w])

FinalizeWith(w, f) ==
  /\ HeldByScript(w) /\ wfObject[f] = "held"
  /\ wfClosure[w] = NoCall      \* otherwise it throws
  /\ IF StoreFreed THEN WfTrap("store") ELSE
       /\ wfClosure' = [wfClosure EXCEPT ![w] = f]
       /\ wfStores' = [wfStores EXCEPT ![wfPending][w] = f]
       /\ UNCHANGED <<wfModule, wfFreed, wfPending, wfCallbacks, wfObject, wfHome, wfGc, wfTrap>>

-----------------------------------------------------------------------------
(* The use of a closure, by the script and by the finalizer                  *)

\* The function is called, the call is pending no more, and the closure is freed.
\* objects: what the finalizer's caller makes of the object.
ClosureUse(w, objects) ==
  IF wfClosure[w] = NoCall
  THEN wfObject' = objects /\ UNCHANGED <<wfStore, wfClosure, wfTrap>>
  ELSE IF wfObject[wfClosure[w]] = "gone"
  THEN wfTrap' = "function" /\ UNCHANGED <<wfStore, wfClosure, wfObject>>
  ELSE IF StoreFreed
  THEN wfTrap' = "store" /\ UNCHANGED <<wfStore, wfClosure, wfObject>>
  ELSE /\ wfObject' = objects
       /\ wfStores' = [wfStores EXCEPT ![wfPending][w] = NoCall]
       /\ wfClosure' = [wfClosure EXCEPT ![w] = NoCall]
       /\ UNCHANGED <<wfFreed, wfPending, wfTrap>>

RunFinalizer(w) ==
  /\ HeldByScript(w)
  /\ ClosureUse(w, wfObject)
  /\ UNCHANGED <<wfModule, wfCallbacks, wfHome, wfGc>>

-----------------------------------------------------------------------------
(* The garbage collector                                                     *)

\* The objects with a pending call.
WithCalls == IF wfPending = NoWfRealm THEN {}
             ELSE {w \in Finalizees : wfStores[wfPending][w] # NoCall}
\* Mutant: only the functions of reachable objects are marked.
MarkedHeldOnly ==
  {wfStores[wfPending][w] : w \in {v \in WithCalls : wfObject[v] = "held"}}

\* The functions that markObject marks.
MarkedFunctions == {wfStores[wfPending][w] : w \in {v \in WithCalls : wfClosure[v] # NoCall}}

\* The mark phase ends with the callbacks, which each walk the store there is.
GcMark ==
  /\ ~wfCollecting
  /\ IF wfCallbacks # {} /\ StoreFreed THEN WfTrap("store") ELSE
     IF wfCallbacks # {} /\ \E f \in MarkedFunctions : wfObject[f] = "gone" THEN WfTrap("function") ELSE
       /\ wfCollecting' = TRUE
       /\ wfDoomed' = {o \in WfObjects : wfObject[o] = "dropped"}
                        \ (IF wfCallbacks = {} THEN {} ELSE MarkedFunctions)
       /\ UNCHANGED <<wfModule, wfStore, wfCallbacks, wfObject, wfHome, wfClosure, wfTrap>>

\* WillFinalize_Finalize; its place may be allocated again.
FinalizeObject(w) ==
  /\ w \in wfDoomed
  /\ ClosureUse(w, [wfObject EXCEPT ![w] = "none"])
  /\ wfHome' = [wfHome EXCEPT ![w] = NoWfRealm]
  /\ wfDoomed' = wfDoomed \ {w}
  /\ UNCHANGED <<wfModule, wfCallbacks, wfCollecting>>

\* CFunction_Finalize.
FinalizeFunction(f) ==
  /\ f \in wfDoomed
  /\ wfObject' = [wfObject EXCEPT ![f] = "gone"]
  /\ wfDoomed' = wfDoomed \ {f}
  /\ UNCHANGED <<wfModule, wfStore, wfCallbacks, wfHome, wfClosure, wfCollecting, wfTrap>>

\* gpsee_destroyRealm and gpsee_shutdownModuleSystem collect, and go on afterwards.
AfterGc == [unrooted |-> "fini", dangling |-> "again", stuck |-> "force"]

GcEnd ==
  /\ wfCollecting /\ wfDoomed = {}
  /\ wfCollecting' = FALSE
  /\ wfModule' = [r \in WfRealms |-> IF wfModule[r] \in DOMAIN AfterGc
                                     THEN AfterGc[wfModule[r]] ELSE wfModule[r]]
  /\ UNCHANGED <<wfStore, wfCallbacks, wfObject, wfHome, wfClosure, wfDoomed, wfTrap>>

-----------------------------------------------------------------------------
(* The end of a realm                                                        *)

\* gpsee_destroyRealm: what only the global object referred to is unreachable; no
\* script of the realm runs any more.
UnrootGlobal(r) ==
  /\ Script(r)
  /\ wfModule' = [wfModule EXCEPT ![r] = "unrooted"]
  /\ \E lost \in SUBSET {w \in Finalizees : wfHome[w] = r /\ wfObject[w] = "held"} :
        wfObject' = [o \in WfObjects |-> IF o \in lost THEN "dropped" ELSE wfObject[o]]
  /\ UNCHANGED <<wfStore, wfCallbacks, wfHome, wfClosure, wfGc, wfTrap>>

\* The store is empty: the callback is removed and the store destroyed.
Finish(r) ==
  /\ wfModule' = [wfModule EXCEPT ![r] = "finished"]
  /\ wfCallbacks' = wfCallbacks \ {r}
  /\ wfFreed' = wfFreed \cup {wfPending}

\* FiniModule without force, in the first and the second pass of the shutdown.
FiniClass(r) ==
  /\ ~wfCollecting
  /\ wfModule[r] \in {"fini", "again"}
  /\ IF StoreFreed THEN WfTrap("store") ELSE
       /\ IF WithCalls = {} THEN Finish(r)
          ELSE /\ wfModule' = [wfModule EXCEPT ![r] =
                                 IF @ = "fini" THEN "dangling" ELSE "stuck"]
               /\ UNCHANGED <<wfCallbacks, wfFreed>>
       /\ UNCHANGED <<wfStores, wfPending, wfObject, wfHome, wfClosure, wfGc, wfTrap>>

\* FiniModule with force: every pending call is made now.
FiniClassForced(r) ==
  /\ ~wfCollecting
  /\ wfModule[r] = "force"
  /\ IF StoreFreed THEN WfTrap("store") ELSE
     IF \E f \in MarkedFunctions : wfObject[f] = "gone" THEN WfTrap("function") ELSE
       /\ wfClosure' = [w \in Finalizees |-> IF w \in WithCalls THEN NoCall ELSE wfClosure[w]]
       /\ wfStores' = [wfStores EXCEPT ![wfPending] = NoCalls]
       /\ Finish(r)
       /\ UNCHANGED <<wfPending, wfObject, wfHome, wfGc, wfTrap>>

-----------------------------------------------------------------------------

FinalizeNext ==
  /\ wfTrap = "none"
  /\ \/ \E r \in WfRealms : \/ InitClass(r) \/ UnrootGlobal(r)
                            \/ FiniClass(r) \/ FiniClassForced(r)
     \/ \E o \in WfObjects : Unreference(o)
     \/ \E w \in Finalizees, r \in WfRealms : NewWillFinalize(w, r)
     \/ \E f \in CFunctions, r \in WfRealms : NewCFunction(f, r)
     \/ \E w \in Finalizees : \/ RunFinalizer(w) \/ FinalizeObject(w)
                              \/ \E f \in CFunctions : FinalizeWith(w, f)
     \/ \E f \in CFunctions : FinalizeFunction(f)
     \/ GcMark
     \/ GcEnd

FinalizeSpec == FinalizeInit /\ [][FinalizeNext]_wfVars

-----------------------------------------------------------------------------

\* While only one realm has ever loaded gffi.
OneLoad == Cardinality({r \in WfRealms : wfModule[r] # "absent"}) <= 1

\* The function of a closure that is still to be called has not been collected,
\* however the collector orders its finalizers and whatever the script has let go of;
\* no closure is left when the module is finished, so each has been called exactly
\* once; and neither a finalizer nor the collector's callback comes to a store that
\* is destroyed.  (WillFinalize_GCCallback, and gpsee_shutdownModuleSystem with
\* WillFinalize_FiniClass.)  It holds for one load of gffi only: a second one
\* replaces pendingFinalizers.
FinalizersRun ==
  OneLoad => /\ wfTrap = "none"
             /\ \A w \in Finalizees : wfClosure[w] # NoCall =>
                  /\ wfObject[wfClosure[w]] # "gone"
                  /\ wfModule[wfHome[w]] # "finished"
=============================================================================
