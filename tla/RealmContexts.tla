----------------------------- MODULE RealmContexts -----------------------------
(***************************************************************************)
(* The contexts of the realms of gpsee_realms.c: the store realmsByContext,*)
(* the context that each realm caches from its creation, and the monitor   *)
(* monitors.cx under which contexts are created and destroyed.  The        *)
(* address of a destroyed context is given to a later one.                 *)
(*                                                                         *)
(* gpsee_destroyRealm destroys the realm's contexts from an iteration over *)
(* the store, whose monitor it holds while it enters monitors.cx; others   *)
(* enter the two in the other order, and may wait for ever.                *)
(***************************************************************************)
EXTENDS Naturals, FiniteSets

CONSTANTS RcThreads, NoThread,
          RcRealms,  NoRealm,
          Addresses, NoAddress   \* where the engine allocates a JSContext

ASSUME RealmAssumption ==
  NoThread \notin RcThreads /\ NoRealm \notin RcRealms /\ NoAddress \notin Addresses

VARIABLES realmState,    \* per realm: its life, from gpsee_createRealm on
          cachedCx,      \* per realm: realm->cachedCx
          realmOf,       \* grt->realmsByContext
          allocated,     \* the addresses of the contexts that exist
          givenFor,      \* per address: the realm it has been handed out for
          cxMonitor,     \* who is in monitors.cx
          storeMonitor,  \* who iterates over realmsByContext
          rcPc,          \* per thread: its step
          rcRealm, rcCx  \* per thread: the realm and the context of its call

rcStores == <<cachedCx, realmOf, allocated, givenFor>>
rcCall == <<rcPc, rcRealm, rcCx>>
rcMonitors == <<cxMonitor, storeMonitor>>
realmVars == <<realmState, rcStores, rcMonitors, rcCall>>

RealmTypeOK ==
  /\ realmState \in [RcRealms -> {"none", "new", "live", "dying", "freed"}]
  /\ cachedCx \in [RcRealms -> Addresses \cup {NoAddress}]
  /\ realmOf \in [Addresses -> RcRealms \cup {NoRealm}]
  /\ allocated \subseteq Addresses
  /\ givenFor \in [Addresses -> RcRealms \cup {NoRealm}]
  /\ cxMonitor \in RcThreads \cup {NoThread} /\ storeMonitor \in RcThreads \cup {NoThread}
  /\ rcPc \in [RcThreads -> {"idle", "realm", "take", "new", "put", "leave", "fail",
                             "enter", "destroy", "remove", "sweep", "sweepEnter",
                             "sweepDestroy", "sweepRemove", "cached"}]
  /\ rcRealm \in [RcThreads -> RcRealms \cup {NoRealm}]
  /\ rcCx \in [RcThreads -> Addresses \cup {NoAddress}]
  /\ \A t \in RcThreads : rcCx[t] = NoAddress =>
        rcPc[t] \in {"idle", "take", "new", "sweep", "cached"}

RealmInit ==
  /\ realmState = [r \in RcRealms |-> "none"]
  /\ cachedCx = [r \in RcRealms |-> NoAddress]
  /\ realmOf = [a \in Addresses |-> NoRealm]
  /\ allocated = {}
  /\ givenFor = [a \in Addresses |-> NoRealm]
  /\ cxMonitor = NoThread /\ storeMonitor = NoThread
  /\ rcPc = [t \in RcThreads |-> "idle"]
  /\ rcRealm = [t \in RcThreads |-> NoRealm]
  /\ rcCx = [t \in RcThreads |-> NoAddress]

RcStep(t, pc, next) ==
  /\ rcPc[t] = pc
  /\ rcPc' = [rcPc EXCEPT ![t] = next]

RcReturn(t, pc) ==
  /\ RcStep(t, pc, "idle")
  /\ rcRealm' = [rcRealm EXCEPT ![t] = NoRealm]
  /\ rcCx' = [rcCx EXCEPT ![t] = NoAddress]

\* An operation on realmsByContext would not wait.
StoreFree(t) == storeMonitor \in {t, NoThread}

\* Nobody else is in a call for realm r.
NotInUse(r) == \A t \in RcThreads : rcRealm[t] # r

-----------------------------------------------------------------------------
(* gpsee_createRealm                                                         *)

\* JS_NewContext for the realm's own use.
CreateRealm(t, r, a) ==
  /\ RcStep(t, "idle", "realm")
  /\ realmState[r] = "none" /\ a \notin allocated
  /\ realmState' = [realmState EXCEPT ![r] = "new"]
  /\ allocated' = allocated \cup {a}
  /\ rcRealm' = [rcRealm EXCEPT ![t] = r]
  /\ rcCx' = [rcCx EXCEPT ![t] = a]
  /\ UNCHANGED <<cachedCx, realmOf, givenFor, rcMonitors>>

\* The realm keeps the context; or it could not be initialized and ends, with its
\* context, though it stays in the list of realms.
RealmCreated(t) ==
  /\ RcReturn(t, "realm")
  /\ \/ /\ realmState' = [realmState EXCEPT ![rcRealm[t]] = "live"]
        /\ cachedCx' = [cachedCx EXCEPT ![rcRealm[t]] = rcCx[t]]
        /\ UNCHANGED allocated
     \/ /\ realmState' = [realmState EXCEPT ![rcRealm[t]] = "freed"]
        /\ allocated' = allocated \ {rcCx[t]}
        /\ UNCHANGED cachedCx
  /\ UNCHANGED <<realmOf, givenFor, rcMonitors>>

-----------------------------------------------------------------------------
(* gpsee_createContext                                                       *)

\* monitors.cx is entered, and realm->cachedCx read.
CreateContext(t, r) ==
  /\ RcStep(t, "idle", "take")
  /\ realmState[r] = "live" /\ cxMonitor = NoThread
  /\ cxMonitor' = t
  /\ rcRealm' = [rcRealm EXCEPT ![t] = r]
  /\ rcCx' = [rcCx EXCEPT ![t] = cachedCx[r]]
  /\ UNCHANGED <<realmState, rcStores, storeMonitor>>

\* Mutant: the cached context stays cached.
TakeKept(t) ==
  /\ RcStep(t, "take", IF rcCx[t] = NoAddress THEN "new" ELSE "put")
  /\ UNCHANGED <<realmState, rcStores, rcMonitors, rcRealm, rcCx>>

\* Mutant: NULL is swapped for NULL, and taken for a context.
TakeNull(t) ==
  /\ LET swapped == cachedCx[rcRealm[t]] = rcCx[t] IN
     /\ RcStep(t, "take", IF swapped THEN "put" ELSE "new")
     /\ cachedCx' = IF swapped THEN [cachedCx EXCEPT ![rcRealm[t]] = NoAddress] ELSE cachedCx
  /\ UNCHANGED <<realmState, realmOf, allocated, givenFor, rcMonitors, rcRealm, rcCx>>

\* The cached context is swapped for NULL.
TakeCached(t) ==
  /\ LET swapped == rcCx[t] # NoAddress /\ cachedCx[rcRealm[t]] = rcCx[t] IN
     /\ RcStep(t, "take", IF swapped THEN "put" ELSE "new")
     /\ cachedCx' = IF swapped THEN [cachedCx EXCEPT ![rcRealm[t]] = NoAddress] ELSE cachedCx
  /\ UNCHANGED <<realmState, realmOf, allocated, givenFor, rcMonitors, rcRealm, rcCx>>

\* JS_NewContext
NewContext(t, a) ==
  /\ RcStep(t, "new", "put")
  /\ a \notin allocated
  /\ allocated' = allocated \cup {a}
  /\ rcCx' = [rcCx EXCEPT ![t] = a]
  /\ UNCHANGED <<realmState, cachedCx, realmOf, givenFor, rcMonitors, rcRealm>>

\* gpsee_ds_put
PutContext(t) ==
  /\ StoreFree(t)
  /\ RcStep(t, "put", "leave")
  /\ realmOf' = [realmOf EXCEPT ![rcCx[t]] = rcRealm[t]]
  /\ UNCHANGED <<realmState, cachedCx, allocated, givenFor, rcMonitors, rcRealm, rcCx>>

\* Mutant: the failure returns from inside the monitor.
PutFailsInside(t) ==
  /\ StoreFree(t)
  /\ RcReturn(t, "put")
  /\ allocated' = allocated \ {rcCx[t]}
  /\ UNCHANGED <<realmState, cachedCx, realmOf, givenFor, rcMonitors>>

\* gpsee_ds_put fails: the context is destroyed again.
PutFails(t) ==
  /\ StoreFree(t)
  /\ RcReturn(t, "put")
  /\ allocated' = allocated \ {rcCx[t]}
  /\ cxMonitor' = NoThread
  /\ UNCHANGED <<realmState, cachedCx, realmOf, givenFor, storeMonitor>>

\* monitors.cx is left, and the context handed out.
HandOut(t) ==
  /\ RcReturn(t, "leave")
  /\ cxMonitor' = NoThread
  /\ givenFor' = [givenFor EXCEPT ![rcCx[t]] = rcRealm[t]]
  /\ UNCHANGED <<realmState, cachedCx, realmOf, allocated, storeMonitor>>

-----------------------------------------------------------------------------
(* gpsee_destroyContext                                                      *)

\* A context that has been handed out is given back.
CallDestroy(t, a) ==
  /\ RcStep(t, "idle", "enter")
  /\ givenFor[a] # NoRealm /\ realmState[givenFor[a]] = "live"
  /\ rcRealm' = [rcRealm EXCEPT ![t] = givenFor[a]]
  /\ rcCx' = [rcCx EXCEPT ![t] = a]
  /\ givenFor' = [givenFor EXCEPT ![a] = NoRealm]
  /\ UNCHANGED <<realmState, cachedCx, realmOf, allocated, rcMonitors>>

\* Mutant: the context is destroyed outside the monitor.
EnterLater(t) ==
  /\ RcStep(t, "enter", "remove")
  /\ allocated' = allocated \ {rcCx[t]}
  /\ UNCHANGED <<realmState, cachedCx, realmOf, givenFor, rcMonitors, rcRealm, rcCx>>

EnterToDestroy(t) ==
  /\ RcStep(t, "enter", "destroy")
  /\ cxMonitor = NoThread /\ cxMonitor' = t
  /\ UNCHANGED <<realmState, rcStores, storeMonitor, rcRealm, rcCx>>

\* JS_DestroyContext: from now on the engine may give the address to another one.
DestroyContext(t) ==
  /\ RcStep(t, "destroy", "remove")
  /\ allocated' = allocated \ {rcCx[t]}
  /\ UNCHANGED <<realmState, cachedCx, realmOf, givenFor, rcMonitors, rcRealm, rcCx>>

\* gpsee_ds_remove, and monitors.cx is left.
RemoveContext(t) ==
  /\ StoreFree(t)
  /\ RcReturn(t, "remove")
  /\ realmOf' = [realmOf EXCEPT ![rcCx[t]] = NoRealm]
  /\ cxMonitor' = IF cxMonitor = t THEN NoThread ELSE cxMonitor
  /\ UNCHANGED <<realmState, cachedCx, allocated, givenFor, storeMonitor>>

-----------------------------------------------------------------------------
(* gpsee_destroyRealm                                                        *)

\* The caller sees to it that no other thread is using the realm; its contexts may
\* still be there.  The iteration over realmsByContext begins.
DestroyRealm(t, r) ==
  /\ RcStep(t, "idle", "sweep")
  /\ realmState[r] = "live" /\ NotInUse(r) /\ storeMonitor = NoThread
  /\ realmState' = [realmState EXCEPT ![r] = "dying"]
  /\ storeMonitor' = t
  /\ rcRealm' = [rcRealm EXCEPT ![t] = r]
  /\ UNCHANGED <<rcStores, cxMonitor, rcCx>>

\* destroyRealmContext_cb for a context of the realm calls gpsee_destroyContext.
SweepContext(t, a) ==
  /\ RcStep(t, "sweep", "sweepEnter")
  /\ realmOf[a] = rcRealm[t]
  /\ rcCx' = [rcCx EXCEPT ![t] = a]
  /\ givenFor' = [givenFor EXCEPT ![a] = NoRealm]
  /\ UNCHANGED <<realmState, cachedCx, realmOf, allocated, rcMonitors, rcRealm>>

SweepEnter(t) ==
  /\ RcStep(t, "sweepEnter", "sweepDestroy")
  /\ cxMonitor = NoThread /\ cxMonitor' = t
  /\ UNCHANGED <<realmState, rcStores, storeMonitor, rcRealm, rcCx>>

SweepDestroy(t) ==
  /\ RcStep(t, "sweepDestroy", "sweepRemove")
  /\ allocated' = allocated \ {rcCx[t]}
  /\ UNCHANGED <<realmState, cachedCx, realmOf, givenFor, rcMonitors, rcRealm, rcCx>>

SweepRemove(t) ==
  /\ RcStep(t, "sweepRemove", "sweep")
  /\ realmOf' = [realmOf EXCEPT ![rcCx[t]] = NoRealm]
  /\ cxMonitor' = NoThread
  /\ rcCx' = [rcCx EXCEPT ![t] = NoAddress]
  /\ UNCHANGED <<realmState, cachedCx, allocated, givenFor, storeMonitor, rcRealm>>

SweepDone(t) ==
  /\ RcStep(t, "sweep", "cached")
  /\ \A a \in Addresses : realmOf[a] # rcRealm[t]
  /\ storeMonitor' = NoThread
  /\ UNCHANGED <<realmState, rcStores, cxMonitor, rcRealm, rcCx>>

\* The cached context, unless it has been handed out, ends with the realm.
FreeRealm(t) ==
  /\ RcReturn(t, "cached")
  /\ allocated' = allocated \ {cachedCx[rcRealm[t]]}
  /\ cachedCx' = [cachedCx EXCEPT ![rcRealm[t]] = NoAddress]
  /\ realmState' = [realmState EXCEPT ![rcRealm[t]] = "freed"]
  /\ UNCHANGED <<realmOf, givenFor, rcMonitors>>

-----------------------------------------------------------------------------

\* Thread t goes on with the call it is in.
RealmStep(t) ==
  \/ RealmCreated(t) \/ TakeCached(t) \/ PutContext(t) \/ PutFails(t) \/ HandOut(t)
  \/ EnterToDestroy(t) \/ DestroyContext(t) \/ RemoveContext(t)
  \/ SweepEnter(t) \/ SweepDestroy(t) \/ SweepRemove(t) \/ SweepDone(t) \/ FreeRealm(t)
  \/ \E a \in Addresses : NewContext(t, a) \/ SweepContext(t, a)

RealmNext ==
  \E t \in RcThreads :
    \/ RealmStep(t)
    \/ \E a \in Addresses : CallDestroy(t, a)
    \/ \E r \in RcRealms :
         CreateContext(t, r) \/ DestroyRealm(t, r) \/ \E a \in Addresses : CreateRealm(t, r, a)

RealmSpec == RealmInit /\ [][RealmNext]_realmVars

\* Threads are scheduled; the monitors promise no order among those that wait.
RealmFairness == \A t \in RcThreads : WF_realmVars(RealmStep(t))

RealmFairSpec == RealmSpec /\ RealmFairness

-----------------------------------------------------------------------------
(* Properties                                                                *)

\* "The grt->monitors.cx monitor is used to insure that we don't churn the cx pointer
\* in/out of the grt->realmsByContext list if we happen to call create/destroy at nearly
\* the exact same time on two threads" (gpsee_realms.c:330-332): the store knows every
\* context that is handed out, by its realm, even when its address is that of one
\* another thread has just destroyed.
ContextsKnown ==
  \A a \in Addresses : givenFor[a] # NoRealm => a \in allocated /\ realmOf[a] = givenFor[a]

\* The thread has a context that exists, and that it has created or is to destroy.
Holds(t) ==
  rcPc[t] \in {"realm", "put", "leave", "enter", "destroy", "sweepEnter", "sweepDestroy"}

\* No context has two users: each one that exists is cached by one realm, or handed out,
\* or in the hands of one thread that creates or destroys it.
OneUser ==
  \A a \in Addresses :
    Cardinality({r \in RcRealms : cachedCx[r] = a})
      + Cardinality({t \in RcThreads : Holds(t) /\ rcCx[t] = a})
      + (IF givenFor[a] # NoRealm THEN 1 ELSE 0)
    <= 1

\* A thread that destroys a realm and one that is in monitors.cx wait for each other.
WaitForEachOther ==
  \E t, u \in RcThreads :
    /\ storeMonitor = t /\ rcPc[t] = "sweepEnter"
    /\ cxMonitor = u /\ rcPc[u] \in {"put", "remove"}

\* Whoever is in monitors.cx leaves it again, whatever fails, unless the two monitors have
\* been entered in both orders, which takes the destruction of a realm
\* (gpsee_realms.c:295, 383-385 against 347): no other deadlock is possible.  A program
\* without memory for a context does not go on either (gpsee_realms.c:347).
MonitorIsLeft ==
  (cxMonitor # NoThread) ~>
    (cxMonitor = NoThread \/ WaitForEachOther \/ allocated = Addresses)
=============================================================================
