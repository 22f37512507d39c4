----------------------------- MODULE RuntimeProofs -----------------------------
(***************************************************************************)
(* What threads and processes share in the core of GPSEE.                  *)
(*                                                                         *)
(* The slot of a signal has one user at a time, for any set of threads and *)
(* any number of signals, and a delivery that no removal precedes meets a  *)
(* handler that is set.  The argument: only the thread that has swapped    *)
(* the slot's word for JSVAL_VOID takes the steps of HoldsSlot, and until  *)
(* a handler is removed signal_js is installed, and the word set, only     *)
(* when the context and the function of the slot are (HandlerIsSet).       *)
(*                                                                         *)
(* Every context that is handed out is known to realmsByContext and has    *)
(* one user, for any number of threads, realms and addresses.  The         *)
(* argument: a context that exists is cached, handed out or in the hands   *)
(* of one thread, and one that is destroyed stays in the store only until  *)
(* the thread that destroyed it leaves monitors.cx, without which no       *)
(* context of the same address is handed out.                              *)
(*                                                                         *)
(* The list of asynchronous callbacks stays a list of allocated entries,   *)
(* no thread loses, takes back or frees twice an entry, and a walk that    *)
(* nobody disturbs reads no freed entry, for any contexts and entries.     *)
(* The argument: from the head the next links form a path, sorted by       *)
(* context, without repetition (ListIsPath); an entry that a thread has    *)
(* unlinked and not freed is allocated, off the path and in the hands of   *)
(* no other thread (OwnInv); and the links that a walk has still to follow *)
(* are a path of allocated entries (WalkInv) until another thread frees an *)
(* entry, which makes the walk a disturbed one.                            *)
(***************************************************************************)
EXTENDS MCRuntime, NaturalRecursion, SequenceTheorems, FiniteSetTheorems, TLAPS

-----------------------------------------------------------------------------
(* The slots of signals                                                      *)

\* What a thread wants, at the steps that look at it, and what signal_FiniModule has done.
WantInv ==
  \A t \in SigThreads :
    /\ sgPc[t] \in {"lock", "retry", "lockAgain", "setCx", "setFunv", "unlock", "os"}
         => sgWant[t] # "nothing"
    /\ sgPc[t] \in {"finiFunv", "finiCx"} => sgRemoved /\ sgWant[t] = "remove"
    /\ sgPc[t] \in {"setFunv", "unlock", "os"} /\ sgWant[t] = "remove" => sgRemoved

\* The signal can be delivered, has been, or is being processed.
Active ==
  \/ action = "signal_js" \/ oact = "signal_js" \/ pending = Pending
  \/ \E t \in SigThreads : delivery[t] # "none"
  \/ \E t \in SigThreads : sgPc[t] \in {"call", "done"}

\* Until a removal the slot is filled from its first setting on: the context first, then
\* the function, then signal_js.
HandlerIsSet ==
  ~sgRemoved =>
    /\ Active => handlerCx # NoCx /\ funv = "function"
    /\ \A t \in SigThreads :
         /\ sgPc[t] \in {"setFunv", "unlock", "os"} => handlerCx # NoCx
         /\ sgPc[t] \in {"unlock", "os"} => funv = "function"

SignalInv == SignalTypeOK /\ SlotExclusive /\ WantInv /\ HandlerIsSet /\ NoTrapBeforeRemoval

-----------------------------------------------------------------------------

\* What the next-state relation lets one thread do.
SignalThreadNext(t) ==
  \/ Deliver(t) \/ SignalJs(t) \/ SigStep(t)
  \/ RunHandlers(t) \/ \E want \in {"set", "remove"} : CallChange(t, want)
  \/ \E force \in BOOLEAN : FiniSignals(t, force)

\* The inductive invariant holds initially.
LEMMA SignalStarts == SignalInit => SignalInv
<1> SUFFICES ASSUME SignalInit PROVE SignalInv
  OBVIOUS
<1> USE SignalAssumption DEF SignalInit, FreeSlot, Pending, Locked
<1>1. SignalTypeOK
  <2>1. sgPc \in [SigThreads -> {"js"}] /\ sgWant \in [SigThreads -> {"nothing"}]
        /\ delivery \in [SigThreads -> {"none"}]
    OBVIOUS
  <2>2. handlerCx \in SigThreads \cup {NoCx} /\ sgSent \in 0..MaxSignals
    OBVIOUS
  <2> QED
    BY <2>1, <2>2 DEF SignalTypeOK
<1>2. SlotExclusive
  BY DEF SlotExclusive, HoldsSlot
<1>3. WantInv
  BY DEF WantInv
<1>4. HandlerIsSet
  BY DEF HandlerIsSet, Active
<1>5. NoTrapBeforeRemoval
  BY DEF NoTrapBeforeRemoval
<1> QED
  BY <1>1, <1>2, <1>3, <1>4, <1>5 DEF SignalInv

SlotInv == SignalTypeOK /\ SlotExclusive

\* The word of the slot is the lock of the slot: a step of its holder keeps the others
\* out, and a step of another thread does not touch a locked word.
LEMMA NextSlot == SlotInv /\ [SignalNext]_signalVars => SlotInv'
<1> USE DEF SlotInv, SignalTypeOK, SlotExclusive, HoldsSlot, At, InSignalJs, Running, SgGoto,
            DeliverGoto, AfterRun, Throw, FreeSlot, Pending, Locked, sgSlot, sgOs, sgOut
<1> SUFFICES ASSUME SlotInv, [SignalNext]_signalVars PROVE SlotInv'
  OBVIOUS
<1>0. CASE UNCHANGED signalVars
  BY <1>0 DEF signalVars
<1> SUFFICES ASSUME NEW t \in SigThreads, SignalThreadNext(t)
             PROVE  SlotInv'
  BY <1>0 DEF SignalNext, SignalThreadNext
<1>1. CASE Deliver(t)
  BY <1>1, SignalAssumption DEF Deliver
<1>2. CASE Mark(t)
  BY <1>2, SignalAssumption DEF Mark
<1>3. CASE TestHandler(t)
  BY <1>3, SignalAssumption DEF TestHandler
<1>4. CASE TriggerHandler(t)
  BY <1>4, SignalAssumption DEF TriggerHandler
<1>5. CASE ResetPending(t)
  BY <1>5, SignalAssumption DEF ResetPending
<1>6. CASE RunHandlers(t)
  BY <1>6, SignalAssumption DEF RunHandlers
<1>7. CASE Take(t)
  BY <1>7, SignalAssumption DEF Take
<1>8. CASE CallHandler(t)
  BY <1>8, SignalAssumption DEF CallHandler
<1>9. CASE Done(t)
  BY <1>9, SignalAssumption DEF Done
<1>10. CASE LockSlot(t)
  BY <1>10, SignalAssumption DEF LockSlot
<1>11. CASE Retry(t)
  BY <1>11, SignalAssumption DEF Retry
<1>12. CASE LockAgain(t)
  BY <1>12, SignalAssumption DEF LockAgain
<1>13. CASE SetCx(t)
  BY <1>13, SignalAssumption DEF SetCx
<1>14. CASE SetFunv(t)
  BY <1>14, SignalAssumption DEF SetFunv
<1>15. CASE UnlockSlot(t)
  BY <1>15, SignalAssumption DEF UnlockSlot
<1>16. CASE SetAction(t)
  BY <1>16, SignalAssumption DEF SetAction
<1>17. CASE FiniFunv(t)
  BY <1>17, SignalAssumption DEF FiniFunv
<1>18. CASE FiniCx(t)
  BY <1>18, SignalAssumption DEF FiniCx
<1>19. ASSUME NEW want \in {"set", "remove"}, CallChange(t, want) PROVE SlotInv'
  BY <1>19, SignalAssumption DEF CallChange
<1>20. ASSUME NEW force \in BOOLEAN, FiniSignals(t, force) PROVE SlotInv'
  BY <1>20, SignalAssumption DEF FiniSignals
<1> QED
  BY <1>1, <1>2, <1>3, <1>4, <1>5, <1>6, <1>7, <1>8, <1>9, <1>10, <1>11,
     <1>12, <1>13, <1>14, <1>15, <1>16, <1>17, <1>18, <1>19, <1>20 DEF
     SignalThreadNext, SignalJs, SigStep

\* The slot is set before a signal can be delivered and stays so until a removal, and
\* so whoever reads it finds a context and a function.
LEMMA NextHandler ==
  SignalInv /\ [SignalNext]_signalVars => (WantInv /\ HandlerIsSet /\ NoTrapBeforeRemoval)'
<1> USE SignalAssumption
    DEF SignalTypeOK, WantInv, HandlerIsSet, Active, NoTrapBeforeRemoval, At, InSignalJs,
        Running, SgGoto, DeliverGoto, AfterRun, Throw, FreeSlot, Pending, Locked,
        sgSlot, sgOs, sgOut
<1> SUFFICES ASSUME SignalTypeOK, WantInv, HandlerIsSet, NoTrapBeforeRemoval,
                    [SignalNext]_signalVars
             PROVE  (WantInv /\ HandlerIsSet /\ NoTrapBeforeRemoval)'
  BY DEF SignalInv
<1>0. CASE UNCHANGED signalVars
  BY <1>0 DEF signalVars
<1> SUFFICES ASSUME NEW t \in SigThreads, SignalThreadNext(t)
             PROVE  (WantInv /\ HandlerIsSet /\ NoTrapBeforeRemoval)'
  BY <1>0 DEF SignalNext, SignalThreadNext
<1>1. CASE Deliver(t)
  <2>1. WantInv'
    BY <1>1 DEF Deliver
  <2>2. HandlerIsSet'
    BY <1>1 DEF Deliver
  <2>3. NoTrapBeforeRemoval'
    BY <1>1 DEF Deliver
  <2> QED
    BY <2>1, <2>2, <2>3
<1>2. CASE Mark(t)
  <2>1. WantInv'
    BY <1>2 DEF Mark
  <2>2. HandlerIsSet'
    BY <1>2 DEF Mark
  <2>3. NoTrapBeforeRemoval'
    BY <1>2 DEF Mark
  <2> QED
    BY <2>1, <2>2, <2>3
<1>3. CASE TestHandler(t)
  <2>1. WantInv'
    BY <1>3 DEF TestHandler
  <2>2. HandlerIsSet'
    BY <1>3 DEF TestHandler
  <2>3. NoTrapBeforeRemoval'
    BY <1>3 DEF TestHandler
  <2> QED
    BY <2>1, <2>2, <2>3
<1>4. CASE TriggerHandler(t)
  <2>1. WantInv'
    BY <1>4 DEF TriggerHandler
  <2>2. HandlerIsSet'
    BY <1>4 DEF TriggerHandler
  <2>3. NoTrapBeforeRemoval'
    BY <1>4 DEF TriggerHandler
  <2> QED
    BY <2>1, <2>2, <2>3
<1>5. CASE ResetPending(t)
  <2>1. WantInv'
    BY <1>5 DEF ResetPending
  <2>2. HandlerIsSet'
    BY <1>5 DEF ResetPending
  <2>3. NoTrapBeforeRemoval'
    BY <1>5 DEF ResetPending
  <2> QED
    BY <2>1, <2>2, <2>3
<1>6. CASE RunHandlers(t)
  <2>1. WantInv'
    BY <1>6 DEF RunHandlers
  <2>2. HandlerIsSet'
    BY <1>6 DEF RunHandlers
  <2>3. NoTrapBeforeRemoval'
    BY <1>6 DEF RunHandlers
  <2> QED
    BY <2>1, <2>2, <2>3
<1>7. CASE Take(t)
  <2>1. WantInv'
    BY <1>7 DEF Take
  <2>2. HandlerIsSet'
    BY <1>7 DEF Take
  <2>3. NoTrapBeforeRemoval'
    BY <1>7 DEF Take
  <2> QED
    BY <2>1, <2>2, <2>3
<1>8. CASE CallHandler(t)
  <2>1. WantInv'
    BY <1>8 DEF CallHandler
  <2>2. HandlerIsSet'
    BY <1>8 DEF CallHandler
  <2>3. NoTrapBeforeRemoval'
    BY <1>8 DEF CallHandler
  <2> QED
    BY <2>1, <2>2, <2>3
<1>9. CASE Done(t)
  <2>1. WantInv'
    BY <1>9 DEF Done
  <2>2. HandlerIsSet'
    BY <1>9 DEF Done
  <2>3. NoTrapBeforeRemoval'
    BY <1>9 DEF Done
  <2> QED
    BY <2>1, <2>2, <2>3
<1>10. CASE LockSlot(t)
  <2>1. WantInv'
    BY <1>10 DEF LockSlot
  <2>2. HandlerIsSet'
    BY <1>10 DEF LockSlot
  <2>3. NoTrapBeforeRemoval'
    BY <1>10 DEF LockSlot
  <2> QED
    BY <2>1, <2>2, <2>3
<1>11. CASE Retry(t)
  <2>1. WantInv'
    BY <1>11 DEF Retry
  <2>2. HandlerIsSet'
    BY <1>11 DEF Retry
  <2>3. NoTrapBeforeRemoval'
    BY <1>11 DEF Retry
  <2> QED
    BY <2>1, <2>2, <2>3
<1>12. CASE LockAgain(t)
  <2>1. WantInv'
    BY <1>12 DEF LockAgain
  <2>2. HandlerIsSet'
    BY <1>12 DEF LockAgain
  <2>3. NoTrapBeforeRemoval'
    BY <1>12 DEF LockAgain
  <2> QED
    BY <2>1, <2>2, <2>3
<1>13. CASE SetCx(t)
  <2>1. WantInv'
    BY <1>13 DEF SetCx
  <2>2. HandlerIsSet'
    BY <1>13 DEF SetCx
  <2>3. NoTrapBeforeRemoval'
    BY <1>13 DEF SetCx
  <2> QED
    BY <2>1, <2>2, <2>3
<1>14. CASE SetFunv(t)
  <2>1. WantInv'
    BY <1>14 DEF SetFunv
  <2>2. HandlerIsSet'
    BY <1>14 DEF SetFunv
  <2>3. NoTrapBeforeRemoval'
    BY <1>14 DEF SetFunv
  <2> QED
    BY <2>1, <2>2, <2>3
<1>15. CASE UnlockSlot(t)
  <2>1. WantInv'
    BY <1>15 DEF UnlockSlot
  <2>2. HandlerIsSet'
    BY <1>15 DEF UnlockSlot
  <2>3. NoTrapBeforeRemoval'
    BY <1>15 DEF UnlockSlot
  <2> QED
    BY <2>1, <2>2, <2>3
<1>16. CASE SetAction(t)
  <2>1. WantInv'
    BY <1>16 DEF SetAction
  <2>2. HandlerIsSet'
    BY <1>16 DEF SetAction
  <2>3. NoTrapBeforeRemoval'
    BY <1>16 DEF SetAction
  <2> QED
    BY <2>1, <2>2, <2>3
<1>17. CASE FiniFunv(t)
  <2>1. WantInv'
    BY <1>17 DEF FiniFunv
  <2>2. HandlerIsSet'
    BY <1>17 DEF FiniFunv
  <2>3. NoTrapBeforeRemoval'
    BY <1>17 DEF FiniFunv
  <2> QED
    BY <2>1, <2>2, <2>3
<1>18. CASE FiniCx(t)
  <2>1. WantInv'
    BY <1>18 DEF FiniCx
  <2>2. HandlerIsSet'
    BY <1>18 DEF FiniCx
  <2>3. NoTrapBeforeRemoval'
    BY <1>18 DEF FiniCx
  <2> QED
    BY <2>1, <2>2, <2>3
<1>19. ASSUME NEW want \in {"set", "remove"}, CallChange(t, want)
       PROVE  (WantInv /\ HandlerIsSet /\ NoTrapBeforeRemoval)'
  <2>1. WantInv'
    BY <1>19 DEF CallChange
  <2>2. HandlerIsSet'
    BY <1>19 DEF CallChange
  <2>3. NoTrapBeforeRemoval'
    BY <1>19 DEF CallChange
  <2> QED
    BY <2>1, <2>2, <2>3
<1>20. ASSUME NEW force \in BOOLEAN, FiniSignals(t, force)
       PROVE  (WantInv /\ HandlerIsSet /\ NoTrapBeforeRemoval)'
  <2>1. WantInv'
    BY <1>20 DEF FiniSignals
  <2>2. HandlerIsSet'
    BY <1>20 DEF FiniSignals
  <2>3. NoTrapBeforeRemoval'
    BY <1>20 DEF FiniSignals
  <2> QED
    BY <2>1, <2>2, <2>3
<1> QED
  BY <1>1, <1>2, <1>3, <1>4, <1>5, <1>6, <1>7, <1>8, <1>9, <1>10, <1>11,
     <1>12, <1>13, <1>14, <1>15, <1>16, <1>17, <1>18, <1>19, <1>20 DEF
     SignalThreadNext, SignalJs, SigStep

LEMMA SignalStep == SignalInv /\ [SignalNext]_signalVars => SignalInv'
  BY NextSlot, NextHandler DEF SignalInv, SlotInv

LEMMA SignalInvariance == SignalSpec => []SignalInv
  BY SignalStarts, SignalStep, PTL DEF SignalSpec

-----------------------------------------------------------------------------

\* The words of the slot and the steps of the threads stay in their domains.
THEOREM SignalTypeCorrect == SignalSpec => []SignalTypeOK
  BY SignalInvariance, PTL DEF SignalInv

\* The slot is locked by one thread at a time, which runs or changes the handler: the
\* swaps that signal_runHandlers and signal_changeSignalHandler assert do not fail.
THEOREM SlotHasOneUser == SignalSpec => []SlotExclusive
  BY SignalInvariance, PTL DEF SignalInv

\* A signal that is delivered before any removal meets a context and a function.
THEOREM DeliveryMeetsHandler == SignalSpec => []NoTrapBeforeRemoval
  BY SignalInvariance, PTL DEF SignalInv

-----------------------------------------------------------------------------
(* Realms and contexts                                                       *)

\* The steps between the entering and the leaving of monitors.cx.
Inside == {"take", "new", "put", "leave", "destroy", "remove", "sweepDestroy", "sweepRemove"}

MonitorInv == \A t \in RcThreads : rcPc[t] \in Inside <=> cxMonitor = t

\* What a thread's call knows of its realm; a realm that is being created or destroyed has
\* one thread.
Sweeping == {"sweep", "sweepEnter", "sweepDestroy", "sweepRemove", "cached"}

CallInv ==
  \A t \in RcThreads :
    /\ rcPc[t] = "idle" <=> rcRealm[t] = NoRealm
    /\ rcPc[t] \in {"idle", "sweep", "cached"} => rcCx[t] = NoAddress
    /\ rcPc[t] = "realm" => realmState[rcRealm[t]] = "new"
    /\ rcPc[t] \in Sweeping => realmState[rcRealm[t]] = "dying"
    /\ rcPc[t] \notin Sweeping \cup {"realm", "idle"} => realmState[rcRealm[t]] = "live"
    /\ rcPc[t] \in Sweeping \cup {"realm"} =>
         \A u \in RcThreads \ {t} : rcRealm[u] # rcRealm[t]

\* The realms that have a context, and the contexts that exist have one use.
NoRealmYet == \A r \in RcRealms : realmState[r] \in {"none", "new"} => cachedCx[r] = NoAddress

CachedInv ==
  \A r \in RcRealms : cachedCx[r] # NoAddress =>
    /\ cachedCx[r] \in allocated /\ givenFor[cachedCx[r]] = NoRealm
    /\ \A q \in RcRealms : cachedCx[q] = cachedCx[r] => q = r
    /\ \A t \in RcThreads : Holds(t) => rcCx[t] # cachedCx[r]

HeldInv ==
  \A t \in RcThreads :
    /\ Holds(t) => /\ rcCx[t] \in allocated /\ givenFor[rcCx[t]] = NoRealm
                   /\ \A u \in RcThreads : Holds(u) /\ rcCx[u] = rcCx[t] => u = t
    /\ rcPc[t] \in {"remove", "sweepRemove"} => givenFor[rcCx[t]] = NoRealm
    /\ rcPc[t] = "leave" => realmOf[rcCx[t]] = rcRealm[t]

\* An entry of the store is that of a context handed out, or in the hands of a thread of
\* its realm.
RealmStoreInv ==
  \A a \in Addresses : realmOf[a] # NoRealm =>
    \/ givenFor[a] = realmOf[a]
    \/ \E t \in RcThreads :
         /\ rcCx[t] = a /\ rcRealm[t] = realmOf[a]
         /\ rcPc[t] \in {"leave", "enter", "destroy", "remove",
                         "sweepEnter", "sweepDestroy", "sweepRemove"}

RealmInv ==
  /\ RealmTypeOK /\ MonitorInv /\ CallInv /\ NoRealmYet
  /\ CachedInv /\ HeldInv /\ RealmStoreInv /\ ContextsKnown

-----------------------------------------------------------------------------

\* The inductive invariant holds initially.
LEMMA RealmStarts == RealmInit => RealmInv
<1> SUFFICES ASSUME RealmInit PROVE RealmInv
  OBVIOUS
<1> USE RealmAssumption DEF RealmInit
<1>1. RealmTypeOK
  <2>1. realmState \in [RcRealms -> {"none"}] /\ rcPc \in [RcThreads -> {"idle"}]
    OBVIOUS
  <2> QED
    BY <2>1 DEF RealmTypeOK
<1>2. MonitorInv /\ CallInv
  BY DEF MonitorInv, CallInv, Inside, Sweeping
<1>3. NoRealmYet /\ CachedInv /\ HeldInv /\ RealmStoreInv /\ ContextsKnown
  BY DEF NoRealmYet, CachedInv, HeldInv, RealmStoreInv, ContextsKnown, Holds
<1> QED
  BY <1>1, <1>2, <1>3 DEF RealmInv

-----------------------------------------------------------------------------
(* One lemma per action, one step per part of the invariant.  gpsee_createRealm *)

LEMMA CreateRealmInv ==
  ASSUME RealmInv, NEW t \in RcThreads, NEW r \in RcRealms, NEW a \in Addresses, CreateRealm(t, r, a)
  PROVE  RealmInv'
<1> USE RealmAssumption DEF RealmInv, RealmTypeOK, CreateRealm, RcStep, rcMonitors
<1>1. RealmTypeOK'
  OBVIOUS
<1>2. MonitorInv'
  BY DEF MonitorInv, Inside
<1>3. CallInv'
  BY DEF CallInv, Sweeping
<1>4. NoRealmYet'
  BY DEF NoRealmYet
<1>5. CachedInv'
  BY DEF CachedInv, Holds
<1>6. HeldInv'
  BY DEF HeldInv, Holds, ContextsKnown
<1>7. RealmStoreInv'
  BY DEF RealmStoreInv
<1>8. ContextsKnown'
  BY DEF ContextsKnown
<1> QED
  BY <1>1, <1>2, <1>3, <1>4, <1>5, <1>6, <1>7, <1>8

LEMMA RealmCreatedInv ==
  ASSUME RealmInv, NEW t \in RcThreads, RealmCreated(t)
  PROVE  RealmInv'
<1> USE RealmAssumption DEF RealmInv, RealmTypeOK, RealmCreated, RcReturn, RcStep, rcMonitors
<1>1. RealmTypeOK'
  OBVIOUS
<1>2. MonitorInv'
  BY DEF MonitorInv, Inside
<1>3. CallInv'
  BY DEF CallInv, Sweeping
<1>4. NoRealmYet'
  BY DEF NoRealmYet
<1>5. CachedInv'
  BY DEF CachedInv, Holds, HeldInv
<1>6. HeldInv'
  BY DEF HeldInv, Holds
<1>7. RealmStoreInv'
  BY DEF RealmStoreInv
<1>8. ContextsKnown'
  BY DEF ContextsKnown, HeldInv, Holds
<1> QED
  BY <1>1, <1>2, <1>3, <1>4, <1>5, <1>6, <1>7, <1>8

-----------------------------------------------------------------------------
(* gpsee_createContext                                                       *)

LEMMA CreateContextInv ==
  ASSUME RealmInv, NEW t \in RcThreads, NEW r \in RcRealms, CreateContext(t, r)
  PROVE  RealmInv'
<1> USE RealmAssumption DEF RealmInv, RealmTypeOK, CreateContext, RcStep, rcStores
<1>1. RealmTypeOK'
  OBVIOUS
<1>2. MonitorInv'
  BY DEF MonitorInv, Inside
<1>3. CallInv'
  BY DEF CallInv, Sweeping
<1>4. NoRealmYet'
  BY DEF NoRealmYet
<1>5. CachedInv'
  BY DEF CachedInv, Holds
<1>6. HeldInv'
  BY DEF HeldInv, Holds
<1>7. RealmStoreInv'
  BY DEF RealmStoreInv
<1>8. ContextsKnown'
  BY DEF ContextsKnown
<1> QED
  BY <1>1, <1>2, <1>3, <1>4, <1>5, <1>6, <1>7, <1>8

LEMMA TakeCachedInv ==
  ASSUME RealmInv, NEW t \in RcThreads, TakeCached(t)
  PROVE  RealmInv'
<1> USE RealmAssumption DEF RealmInv, RealmTypeOK, TakeCached, RcStep, rcMonitors
<1>1. RealmTypeOK'
  OBVIOUS
<1>2. MonitorInv'
  BY DEF MonitorInv, Inside
<1>3. CallInv'
  BY DEF CallInv, Sweeping
<1>4. NoRealmYet'
  BY DEF NoRealmYet
<1>5. CachedInv'
  BY DEF CachedInv, Holds, CallInv, Sweeping
<1>6. HeldInv'
  BY DEF HeldInv, Holds, CachedInv, CallInv, Sweeping
<1>7. RealmStoreInv'
  BY DEF RealmStoreInv
<1>8. ContextsKnown'
  BY DEF ContextsKnown
<1> QED
  BY <1>1, <1>2, <1>3, <1>4, <1>5, <1>6, <1>7, <1>8

LEMMA NewContextInv ==
  ASSUME RealmInv, NEW t \in RcThreads, NEW a \in Addresses, NewContext(t, a)
  PROVE  RealmInv'
<1> USE RealmAssumption DEF RealmInv, RealmTypeOK, NewContext, RcStep, rcMonitors
<1>1. RealmTypeOK'
  OBVIOUS
<1>2. MonitorInv'
  BY DEF MonitorInv, Inside
<1>3. CallInv'
  BY DEF CallInv, Sweeping
<1>4. NoRealmYet'
  BY DEF NoRealmYet
<1>5. CachedInv'
  BY DEF CachedInv, Holds
<1>6. HeldInv'
  BY DEF HeldInv, Holds, ContextsKnown
<1>7. RealmStoreInv'
  BY DEF RealmStoreInv
<1>8. ContextsKnown'
  BY DEF ContextsKnown
<1> QED
  BY <1>1, <1>2, <1>3, <1>4, <1>5, <1>6, <1>7, <1>8

LEMMA PutContextInv ==
  ASSUME RealmInv, NEW t \in RcThreads, PutContext(t)
  PROVE  RealmInv'
<1> USE RealmAssumption DEF RealmInv, RealmTypeOK, PutContext, RcStep, rcMonitors
<1>1. RealmTypeOK'
  OBVIOUS
<1>2. MonitorInv'
  BY DEF MonitorInv, Inside
<1>3. CallInv'
  BY DEF CallInv, Sweeping
<1>4. NoRealmYet'
  BY DEF NoRealmYet
<1>5. CachedInv'
  BY DEF CachedInv, Holds
<1>6. HeldInv'
  BY DEF HeldInv, Holds
<1>7. RealmStoreInv'
  BY DEF RealmStoreInv
<1>8. ContextsKnown'
  BY DEF ContextsKnown, HeldInv, Holds
<1> QED
  BY <1>1, <1>2, <1>3, <1>4, <1>5, <1>6, <1>7, <1>8

LEMMA PutFailsInv ==
  ASSUME RealmInv, NEW t \in RcThreads, PutFails(t)
  PROVE  RealmInv'
<1> USE RealmAssumption DEF RealmInv, RealmTypeOK, PutFails, RcReturn, RcStep
<1>1. RealmTypeOK'
  OBVIOUS
<1>2. MonitorInv'
  BY DEF MonitorInv, Inside
<1>3. CallInv'
  BY DEF CallInv, Sweeping
<1>4. NoRealmYet'
  BY DEF NoRealmYet
<1>5. CachedInv'
  BY DEF CachedInv, Holds
<1>6. HeldInv'
  BY DEF HeldInv, Holds
<1>7. RealmStoreInv'
  BY DEF RealmStoreInv
<1>8. ContextsKnown'
  BY DEF ContextsKnown, HeldInv, Holds
<1> QED
  BY <1>1, <1>2, <1>3, <1>4, <1>5, <1>6, <1>7, <1>8

LEMMA HandOutInv ==
  ASSUME RealmInv, NEW t \in RcThreads, HandOut(t)
  PROVE  RealmInv'
<1> USE RealmAssumption DEF RealmInv, RealmTypeOK, HandOut, RcReturn, RcStep
<1>1. RealmTypeOK'
  OBVIOUS
<1>2. MonitorInv'
  BY DEF MonitorInv, Inside
<1>3. CallInv'
  BY DEF CallInv, Sweeping
<1>4. NoRealmYet'
  BY DEF NoRealmYet
<1>5. CachedInv'
  BY DEF CachedInv, Holds
<1>6. HeldInv'
  BY DEF HeldInv, Holds, MonitorInv, Inside
<1>7. RealmStoreInv'
  BY DEF RealmStoreInv, HeldInv, Holds
<1>8. ContextsKnown'
  BY DEF ContextsKnown, HeldInv, Holds
<1> QED
  BY <1>1, <1>2, <1>3, <1>4, <1>5, <1>6, <1>7, <1>8

-----------------------------------------------------------------------------
(* gpsee_destroyContext                                                      *)

LEMMA CallDestroyInv ==
  ASSUME RealmInv, NEW t \in RcThreads, NEW a \in Addresses, CallDestroy(t, a)
  PROVE  RealmInv'
<1> USE RealmAssumption DEF RealmInv, RealmTypeOK, CallDestroy, RcStep, rcMonitors
<1>1. RealmTypeOK'
  OBVIOUS
<1>2. MonitorInv'
  BY DEF MonitorInv, Inside
<1>3. CallInv'
  BY DEF CallInv, Sweeping
<1>4. NoRealmYet'
  BY DEF NoRealmYet
<1>5. CachedInv'
  BY DEF CachedInv, Holds
<1>6. HeldInv'
  BY DEF HeldInv, Holds, ContextsKnown
<1>7. RealmStoreInv'
  BY DEF RealmStoreInv
<1>8. ContextsKnown'
  BY DEF ContextsKnown
<1> QED
  BY <1>1, <1>2, <1>3, <1>4, <1>5, <1>6, <1>7, <1>8

LEMMA EnterToDestroyInv ==
  ASSUME RealmInv, NEW t \in RcThreads, EnterToDestroy(t)
  PROVE  RealmInv'
<1> USE RealmAssumption DEF RealmInv, RealmTypeOK, EnterToDestroy, RcStep, rcStores
<1>1. RealmTypeOK'
  OBVIOUS
<1>2. MonitorInv'
  BY DEF MonitorInv, Inside
<1>3. CallInv'
  BY DEF CallInv, Sweeping
<1>4. NoRealmYet'
  BY DEF NoRealmYet
<1>5. CachedInv'
  BY DEF CachedInv, Holds
<1>6. HeldInv'
  BY DEF HeldInv, Holds
<1>7. RealmStoreInv'
  BY DEF RealmStoreInv
<1>8. ContextsKnown'
  BY DEF ContextsKnown
<1> QED
  BY <1>1, <1>2, <1>3, <1>4, <1>5, <1>6, <1>7, <1>8

LEMMA DestroyContextInv ==
  ASSUME RealmInv, NEW t \in RcThreads, DestroyContext(t)
  PROVE  RealmInv'
<1> USE RealmAssumption DEF RealmInv, RealmTypeOK, DestroyContext, RcStep, rcMonitors
<1>1. RealmTypeOK'
  OBVIOUS
<1>2. MonitorInv'
  BY DEF MonitorInv, Inside
<1>3. CallInv'
  BY DEF CallInv, Sweeping
<1>4. NoRealmYet'
  BY DEF NoRealmYet
<1>5. CachedInv'
  BY DEF CachedInv, Holds
<1>6. HeldInv'
  BY DEF HeldInv, Holds
<1>7. RealmStoreInv'
  BY DEF RealmStoreInv
<1>8. ContextsKnown'
  BY DEF ContextsKnown, HeldInv, Holds
<1> QED
  BY <1>1, <1>2, <1>3, <1>4, <1>5, <1>6, <1>7, <1>8

LEMMA RemoveContextInv ==
  ASSUME RealmInv, NEW t \in RcThreads, RemoveContext(t)
  PROVE  RealmInv'
<1> USE RealmAssumption DEF RealmInv, RealmTypeOK, RemoveContext, RcReturn, RcStep
<1>1. RealmTypeOK'
  OBVIOUS
<1>2. MonitorInv'
  BY DEF MonitorInv, Inside
<1>3. CallInv'
  BY DEF CallInv, Sweeping
<1>4. NoRealmYet'
  BY DEF NoRealmYet
<1>5. CachedInv'
  BY DEF CachedInv, Holds
<1>6. HeldInv'
  BY DEF HeldInv, Holds, MonitorInv, Inside
<1>7. RealmStoreInv'
  BY DEF RealmStoreInv
<1>8. ContextsKnown'
  BY DEF ContextsKnown, HeldInv, Holds
<1> QED
  BY <1>1, <1>2, <1>3, <1>4, <1>5, <1>6, <1>7, <1>8

-----------------------------------------------------------------------------
(* gpsee_destroyRealm                                                        *)

LEMMA DestroyRealmInv ==
  ASSUME RealmInv, NEW t \in RcThreads, NEW r \in RcRealms, DestroyRealm(t, r)
  PROVE  RealmInv'
<1> USE RealmAssumption DEF RealmInv, RealmTypeOK, DestroyRealm, RcStep, rcStores
<1>1. RealmTypeOK'
  OBVIOUS
<1>2. MonitorInv'
  BY DEF MonitorInv, Inside
<1>3. CallInv'
  <2> SUFFICES ASSUME NEW u \in RcThreads PROVE CallInv!(u)'
    BY DEF CallInv
  <2>1. CASE u = t
    BY <2>1 DEF CallInv, NotInUse, Sweeping
  <2>2. CASE u # t
    <3>1. rcRealm[u] # r /\ rcRealm'[u] = rcRealm[u] /\ rcPc'[u] = rcPc[u] /\ rcCx'[u] = rcCx[u]
      BY <2>2 DEF NotInUse
    <3>2. rcRealm[u] # NoRealm => realmState'[rcRealm[u]] = realmState[rcRealm[u]]
      BY <3>1
    <3> QED
      BY <2>2, <3>1, <3>2 DEF CallInv, Sweeping
  <2> QED
    BY <2>1, <2>2
<1>4. NoRealmYet'
  BY DEF NoRealmYet
<1>5. CachedInv'
  BY DEF CachedInv, Holds
<1>6. HeldInv'
  BY DEF HeldInv, Holds
<1>7. RealmStoreInv'
  BY DEF RealmStoreInv
<1>8. ContextsKnown'
  BY DEF ContextsKnown
<1> QED
  BY <1>1, <1>2, <1>3, <1>4, <1>5, <1>6, <1>7, <1>8

LEMMA SweepContextInv ==
  ASSUME RealmInv, NEW t \in RcThreads, NEW a \in Addresses, SweepContext(t, a)
  PROVE  RealmInv'
<1> USE RealmAssumption DEF RealmInv, RealmTypeOK, SweepContext, RcStep, rcMonitors
<1>1. RealmTypeOK'
  OBVIOUS
<1>2. MonitorInv'
  BY DEF MonitorInv, Inside
<1>3. CallInv'
  BY DEF CallInv, Sweeping
<1>4. NoRealmYet'
  BY DEF NoRealmYet
<1>5. CachedInv'
  BY DEF CachedInv, Holds, CallInv, Sweeping, RealmStoreInv
<1>6. HeldInv'
  <2>1. \A u \in RcThreads : rcCx[u] = a => rcRealm[u] # rcRealm[t]
    BY DEF CallInv, Sweeping
  <2>2. givenFor[a] = realmOf[a] /\ givenFor[a] # NoRealm
    BY <2>1 DEF RealmStoreInv, CallInv
  <2>3. a \in allocated
    BY <2>2 DEF ContextsKnown
  <2>4. \A u \in RcThreads : Holds(u) => rcCx[u] # a
    BY <2>2 DEF HeldInv
  <2> QED
    BY <2>3, <2>4 DEF HeldInv, Holds
<1>7. RealmStoreInv'
  BY DEF RealmStoreInv
<1>8. ContextsKnown'
  BY DEF ContextsKnown
<1> QED
  BY <1>1, <1>2, <1>3, <1>4, <1>5, <1>6, <1>7, <1>8

LEMMA SweepEnterInv ==
  ASSUME RealmInv, NEW t \in RcThreads, SweepEnter(t)
  PROVE  RealmInv'
<1> USE RealmAssumption DEF RealmInv, RealmTypeOK, SweepEnter, RcStep, rcStores
<1>1. RealmTypeOK'
  OBVIOUS
<1>2. MonitorInv'
  BY DEF MonitorInv, Inside
<1>3. CallInv'
  BY DEF CallInv, Sweeping
<1>4. NoRealmYet'
  BY DEF NoRealmYet
<1>5. CachedInv'
  BY DEF CachedInv, Holds
<1>6. HeldInv'
  BY DEF HeldInv, Holds
<1>7. RealmStoreInv'
  BY DEF RealmStoreInv
<1>8. ContextsKnown'
  BY DEF ContextsKnown
<1> QED
  BY <1>1, <1>2, <1>3, <1>4, <1>5, <1>6, <1>7, <1>8

LEMMA SweepDestroyInv ==
  ASSUME RealmInv, NEW t \in RcThreads, SweepDestroy(t)
  PROVE  RealmInv'
<1> USE RealmAssumption DEF RealmInv, RealmTypeOK, SweepDestroy, RcStep, rcMonitors
<1>1. RealmTypeOK'
  OBVIOUS
<1>2. MonitorInv'
  BY DEF MonitorInv, Inside
<1>3. CallInv'
  BY DEF CallInv, Sweeping
<1>4. NoRealmYet'
  BY DEF NoRealmYet
<1>5. CachedInv'
  BY DEF CachedInv, Holds
<1>6. HeldInv'
  BY DEF HeldInv, Holds
<1>7. RealmStoreInv'
  BY DEF RealmStoreInv
<1>8. ContextsKnown'
  BY DEF ContextsKnown, HeldInv, Holds
<1> QED
  BY <1>1, <1>2, <1>3, <1>4, <1>5, <1>6, <1>7, <1>8

LEMMA SweepRemoveInv ==
  ASSUME RealmInv, NEW t \in RcThreads, SweepRemove(t)
  PROVE  RealmInv'
<1> USE RealmAssumption DEF RealmInv, RealmTypeOK, SweepRemove, RcStep
<1>1. RealmTypeOK'
  OBVIOUS
<1>2. MonitorInv'
  BY DEF MonitorInv, Inside
<1>3. CallInv'
  BY DEF CallInv, Sweeping
<1>4. NoRealmYet'
  BY DEF NoRealmYet
<1>5. CachedInv'
  BY DEF CachedInv, Holds
<1>6. HeldInv'
  BY DEF HeldInv, Holds, MonitorInv, Inside
<1>7. RealmStoreInv'
  BY DEF RealmStoreInv
<1>8. ContextsKnown'
  BY DEF ContextsKnown, HeldInv, Holds
<1> QED
  BY <1>1, <1>2, <1>3, <1>4, <1>5, <1>6, <1>7, <1>8

LEMMA SweepDoneInv ==
  ASSUME RealmInv, NEW t \in RcThreads, SweepDone(t)
  PROVE  RealmInv'
<1> USE RealmAssumption DEF RealmInv, RealmTypeOK, SweepDone, RcStep, rcStores
<1>1. RealmTypeOK'
  OBVIOUS
<1>2. MonitorInv'
  BY DEF MonitorInv, Inside
<1>3. CallInv'
  BY DEF CallInv, Sweeping
<1>4. NoRealmYet'
  BY DEF NoRealmYet
<1>5. CachedInv'
  BY DEF CachedInv, Holds
<1>6. HeldInv'
  BY DEF HeldInv, Holds
<1>7. RealmStoreInv'
  BY DEF RealmStoreInv
<1>8. ContextsKnown'
  BY DEF ContextsKnown
<1> QED
  BY <1>1, <1>2, <1>3, <1>4, <1>5, <1>6, <1>7, <1>8

LEMMA FreeRealmInv ==
  ASSUME RealmInv, NEW t \in RcThreads, FreeRealm(t)
  PROVE  RealmInv'
<1> USE RealmAssumption DEF RealmInv, RealmTypeOK, FreeRealm, RcReturn, RcStep, rcMonitors
<1>1. RealmTypeOK'
  OBVIOUS
<1>2. MonitorInv'
  BY DEF MonitorInv, Inside
<1>3. CallInv'
  BY DEF CallInv, Sweeping
<1>4. NoRealmYet'
  BY DEF NoRealmYet
<1>5. CachedInv'
  BY DEF CachedInv, Holds, CallInv, Sweeping
<1>6. HeldInv'
  BY DEF HeldInv, Holds, CachedInv, CallInv, Sweeping
<1>7. RealmStoreInv'
  BY DEF RealmStoreInv
<1>8. ContextsKnown'
  BY DEF ContextsKnown, CachedInv, Holds, CallInv, Sweeping
<1> QED
  BY <1>1, <1>2, <1>3, <1>4, <1>5, <1>6, <1>7, <1>8

-----------------------------------------------------------------------------

\* Every step preserves the inductive invariant.
LEMMA RealmNextInv == RealmInv /\ [RealmNext]_realmVars => RealmInv'
<1> SUFFICES ASSUME RealmInv, [RealmNext]_realmVars PROVE RealmInv'
  OBVIOUS
<1>1. CASE UNCHANGED realmVars
  BY <1>1 DEF RealmInv, RealmTypeOK, MonitorInv, CallInv, NoRealmYet, CachedInv, HeldInv, RealmStoreInv,
              ContextsKnown, Holds, realmVars, rcStores, rcMonitors, rcCall
<1>2. ASSUME NEW t \in RcThreads, RealmStep(t) PROVE RealmInv'
  BY <1>2, RealmCreatedInv, TakeCachedInv, PutContextInv, PutFailsInv, HandOutInv,
     EnterToDestroyInv, DestroyContextInv, RemoveContextInv, SweepEnterInv, SweepDestroyInv,
     SweepRemoveInv, SweepDoneInv, FreeRealmInv, NewContextInv, SweepContextInv
     DEF RealmStep
<1>3. ASSUME NEW t \in RcThreads, NEW a \in Addresses, CallDestroy(t, a) PROVE RealmInv'
  BY <1>3, CallDestroyInv
<1>4. ASSUME NEW t \in RcThreads, NEW r \in RcRealms,
             CreateContext(t, r) \/ DestroyRealm(t, r) \/ \E a \in Addresses : CreateRealm(t, r, a)
      PROVE  RealmInv'
  BY <1>4, CreateContextInv, DestroyRealmInv, CreateRealmInv
<1> QED
  BY <1>1, <1>2, <1>3, <1>4 DEF RealmNext

LEMMA RealmInvariance == RealmSpec => []RealmInv
  BY RealmStarts, RealmNextInv, PTL DEF RealmSpec

\* The uses of an address exclude one another.
LEMMA UsesExclude ==
  ASSUME RealmInv, NEW a \in Addresses
  PROVE  LET C == {r \in RcRealms : cachedCx[r] = a}
             H == {t \in RcThreads : Holds(t) /\ rcCx[t] = a}
         IN  /\ C # {} => H = {} /\ givenFor[a] = NoRealm
             /\ H # {} => givenFor[a] = NoRealm
             /\ \A r \in C : C = {r}
             /\ \A t \in H : H = {t}
  BY RealmAssumption DEF RealmInv, CachedInv, HeldInv

\* The inductive invariant implies OneUser.
LEMMA InvOneUser == RealmInv => OneUser
<1> SUFFICES ASSUME RealmInv, NEW a \in Addresses PROVE OneUser!(a)
  BY DEF OneUser
<1> DEFINE C == {r \in RcRealms : cachedCx[r] = a}
           H == {t \in RcThreads : Holds(t) /\ rcCx[t] = a}
<1>1. /\ C # {} => H = {} /\ givenFor[a] = NoRealm
      /\ H # {} => givenFor[a] = NoRealm
      /\ \A r \in C : C = {r}
      /\ \A t \in H : H = {t}
  BY UsesExclude
<1> HIDE DEF C, H
<1>2. /\ C = {} \/ \E r \in C : C = {r}
      /\ H = {} \/ \E t \in H : H = {t}
  BY <1>1
<1>3. /\ C = {} => Cardinality(C) = 0
      /\ C # {} => Cardinality(C) = 1
      /\ H = {} => Cardinality(H) = 0
      /\ H # {} => Cardinality(H) = 1
  BY <1>2, FS_EmptySet, FS_Singleton
<1>4. Cardinality(C) + Cardinality(H) + (IF givenFor[a] # NoRealm THEN 1 ELSE 0) <= 1
  BY <1>1, <1>3
<1> QED
  BY <1>4 DEF C, H

-----------------------------------------------------------------------------

\* The model of gpsee_realms.c is well typed: in particular a thread has a context at
\* every step of its call that uses one.
THEOREM RealmTypeCorrect == RealmSpec => []RealmTypeOK
  BY RealmInvariance, PTL DEF RealmInv

\* The purpose of monitors.cx (gpsee_realms.c:330-332): gpsee_createContext and
\* gpsee_destroyContext on the same address at the same time, and gpsee_destroyRealm,
\* leave every context that is handed out in realmsByContext, by its realm.
THEOREM HandedOutContextsAreKnown == RealmSpec => []ContextsKnown
  BY RealmInvariance, PTL DEF RealmInv

\* gpsee_createContext hands the context that a realm caches to one caller, and no
\* context that somebody uses is destroyed by another thread (gpsee_realms.c:335-395).
THEOREM ContextsHaveOneUser == RealmSpec => []OneUser
  BY RealmInvariance, InvOneUser, PTL

-----------------------------------------------------------------------------
(* The links of the callback list                                            *)

\* The element at place i, or NULL behind the last one.
Nth(s, i) == IF i \in 1..Len(s) THEN s[i] ELSE NoEntry

Elements(s) == {s[i] : i \in DOMAIN s}

\* The links lead from one entry of s to the next.
Segment(next, s) ==
  /\ s \in Seq(Entries)
  /\ \A i, j \in 1..Len(s) : s[i] = s[j] => i = j
  /\ \A i \in 1..(Len(s) - 1) : next[s[i]] = s[i + 1]

\* The links lead from p along s to NULL.
Path(next, p, s) ==
  /\ s \in Seq(Entries)
  /\ \A i, j \in 1..Len(s) : s[i] = s[j] => i = j
  /\ p = Nth(s, 1)
  /\ \A i \in 1..Len(s) : next[s[i]] = Nth(s, i + 1)

-----------------------------------------------------------------------------

\* What a sequence is.
LEMMA IsList ==
  ASSUME NEW s \in Seq(Entries)
  PROVE  /\ Len(s) \in Nat /\ DOMAIN s = 1..Len(s) /\ s \in [1..Len(s) -> Entries]
         /\ \A i \in 1..Len(s) : s[i] \in Entries /\ s[i] # NoEntry /\ Nth(s, i) = s[i]
         /\ \A i : i \notin 1..Len(s) => Nth(s, i) = NoEntry
         /\ \A x : x \in Elements(s) <=> \E i \in 1..Len(s) : x = s[i]
         /\ Elements(s) \subseteq Entries
<1>1. /\ Len(s) \in Nat /\ DOMAIN s = 1..Len(s) /\ s \in [1..Len(s) -> Entries]
  BY LenProperties
<1>2. \A i \in 1..Len(s) : s[i] \in Entries /\ s[i] # NoEntry /\ Nth(s, i) = s[i]
  BY <1>1, AsyncAssumption DEF Nth
<1>3. (\A x : x \in Elements(s) <=> \E i \in 1..Len(s) : x = s[i]) /\ Elements(s) \subseteq Entries
  BY <1>1, <1>2 DEF Elements
<1> QED
  BY <1>1, <1>2, <1>3 DEF Nth

\* A sequence that is given place by place.
LEMMA MadeList ==
  ASSUME NEW n \in Nat, NEW f \in [1..n -> Entries]
  PROVE  f \in Seq(Entries) /\ Len(f) = n /\ (\A x : x \in Elements(f) <=> \E i \in 1..n : x = f[i])
<1>1. f \in Seq(Entries)
  BY IsASeq
<1>2. Len(f) \in Nat /\ DOMAIN f = 1..Len(f)
  BY <1>1, LenProperties
<1>3. Len(f) = n
  BY <1>2, SMT
<1> QED
  BY <1>1, <1>3, IsList

\* No list is longer than there are entries.
LEMMA ListIsShort ==
  ASSUME NEW s \in Seq(Entries), \A i, j \in 1..Len(s) : s[i] = s[j] => i = j
  PROVE  Cardinality(Entries) \in Nat /\ Len(s) <= Cardinality(Entries)
<1>1. Len(s) \in Nat /\ s \in [1..Len(s) -> Entries]
  BY IsList
<1>2. s \in Injection(1..Len(s), Entries)
  BY <1>1 DEF Injection, IsInjective
<1>3. IsFiniteSet(Entries) /\ Cardinality(Entries) \in Nat
  BY AsyncAssumption, FS_CardinalityType
<1>4. Cardinality(1..Len(s)) = Len(s)
  <2>1. Cardinality(1..Len(s)) = IF 1 > Len(s) THEN 0 ELSE Len(s) - 1 + 1
    BY <1>1, FS_Interval
  <2> QED
    BY <1>1, <2>1
<1>5. Cardinality(1..Len(s)) <= Cardinality(Entries)
  BY <1>2, <1>3, FS_Injection
<1> QED
  BY <1>3, <1>4, <1>5

-----------------------------------------------------------------------------

\* What ChainFrom's recursive function is, and that there is one.
LEMMA ChainPrefixes ==
  ASSUME NEW next \in [Entries -> Entries \cup {NoEntry}], NEW head \in Entries \cup {NoEntry}
  PROVE  \E prefix :
           /\ ChainFrom(head, next) = prefix[Cardinality(Entries)]
           /\ prefix[0] = IF head = NoEntry THEN <<>> ELSE <<head>>
           /\ \A n \in Nat : prefix[n + 1] =
                IF prefix[n] = <<>> \/ next[prefix[n][Len(prefix[n])]] = NoEntry THEN prefix[n]
                ELSE Append(prefix[n], next[prefix[n][Len(prefix[n])]])
<1> DEFINE first == IF head = NoEntry THEN <<>> ELSE <<head>>
           Lists == Seq(Entries)
           longer == [s \in Lists |->
                      IF s = <<>> \/ next[s[Len(s)]] = NoEntry THEN s
                      ELSE Append(s, next[s[Len(s)]])]
           IsPrefix(p) ==
             p = [n \in Nat |->
                    IF n = 0 THEN first
                    ELSE IF p[n - 1] = <<>> \/ next[p[n - 1][Len(p[n - 1])]] = NoEntry THEN p[n - 1]
                    ELSE Append(p[n - 1], next[p[n - 1][Len(p[n - 1])]])]
<1>1. first \in Lists
  OBVIOUS
<1>2. longer \in [Lists -> Lists]
  <2>1. ASSUME NEW s \in Lists, s # <<>>, next[s[Len(s)]] # NoEntry
        PROVE  Append(s, next[s[Len(s)]]) \in Lists
    <3>1. s[Len(s)] \in Entries
      BY <2>1, EmptySeq, ElementOfSeq, LenProperties
    <3>2. next[s[Len(s)]] \in Entries
      BY <2>1, <3>1
    <3> QED
      BY <3>2, AppendProperties
  <2> QED
    BY <2>1
<1>3. PICK f \in [Nat -> Lists] : f[0] = first /\ \A k \in Nat : f[k + 1] = longer[f[k]]
  <2> HIDE DEF first, Lists, longer, IsPrefix
  <2> QED
    BY <1>1, <1>2, Iteration, Z3
<1>4. IsPrefix(f)
  <2>1. ASSUME NEW n \in Nat, n # 0
        PROVE  f[n] = IF f[n - 1] = <<>> \/ next[f[n - 1][Len(f[n - 1])]] = NoEntry THEN f[n - 1]
                      ELSE Append(f[n - 1], next[f[n - 1][Len(f[n - 1])]])
    <3>1. n - 1 \in Nat /\ (n - 1) + 1 = n
      BY <2>1
    <3>2. f[n] = longer[f[n - 1]] /\ f[n - 1] \in Lists
      BY <1>3, <3>1
    <3> QED
      BY <3>2
  <2> HIDE DEF first
  <2>2. ASSUME NEW n \in Nat
        PROVE  f[n] = IF n = 0 THEN first
                      ELSE IF f[n - 1] = <<>> \/ next[f[n - 1][Len(f[n - 1])]] = NoEntry THEN f[n - 1]
                      ELSE Append(f[n - 1], next[f[n - 1][Len(f[n - 1])]])
    BY <1>3, <2>1
  <2> HIDE DEF Lists, longer
  <2> QED
    BY <1>3, <2>2, Zenon
<1> DEFINE prefix == CHOOSE p : IsPrefix(p)
<1>5. IsPrefix(prefix)
  <2> HIDE DEF IsPrefix
  <2> QED
    BY <1>4
<1>6. ChainFrom(head, next) = prefix[Cardinality(Entries)]
  BY DEF ChainFrom
<1> HIDE DEF prefix
<1>7. prefix[0] = first
  BY <1>5
<1>8. ASSUME NEW n \in Nat
      PROVE  prefix[n + 1] =
               IF prefix[n] = <<>> \/ next[prefix[n][Len(prefix[n])]] = NoEntry THEN prefix[n]
               ELSE Append(prefix[n], next[prefix[n][Len(prefix[n])]])
  <2>1. n + 1 \in Nat /\ n + 1 # 0 /\ (n + 1) - 1 = n
    OBVIOUS
  <2> HIDE DEF first
  <2> QED
    BY <1>5, <2>1
<1> QED
  BY <1>6, <1>7, <1>8

\* The entries that are met along the links are those of the path.
LEMMA ChainIsPath ==
  ASSUME NEW next \in [Entries -> Entries \cup {NoEntry}], NEW head,
         NEW s, Path(next, head, s)
  PROVE  ChainFrom(head, next) = s
<1>1. /\ s \in Seq(Entries) /\ head = Nth(s, 1)
      /\ \A i, j \in 1..Len(s) : s[i] = s[j] => i = j
      /\ \A i \in 1..Len(s) : next[s[i]] = Nth(s, i + 1)
  BY DEF Path
<1>2. /\ Len(s) \in Nat
      /\ \A i \in 1..Len(s) : s[i] \in Entries /\ s[i] # NoEntry /\ Nth(s, i) = s[i]
      /\ \A i : i \notin 1..Len(s) => Nth(s, i) = NoEntry
  BY <1>1, IsList
<1>3. head \in Entries \cup {NoEntry}
  BY <1>1, <1>2
<1>4. PICK prefix :
        /\ ChainFrom(head, next) = prefix[Cardinality(Entries)]
        /\ prefix[0] = IF head = NoEntry THEN <<>> ELSE <<head>>
        /\ \A n \in Nat : prefix[n + 1] =
             IF prefix[n] = <<>> \/ next[prefix[n][Len(prefix[n])]] = NoEntry THEN prefix[n]
             ELSE Append(prefix[n], next[prefix[n][Len(prefix[n])]])
  BY <1>3, ChainPrefixes
<1> DEFINE m(n) == IF n + 1 <= Len(s) THEN n + 1 ELSE Len(s)
           StartsWith(n) == /\ prefix[n] \in Seq(Entries) /\ Len(prefix[n]) = m(n)
                        /\ \A i \in 1..m(n) : prefix[n][i] = s[i]
           T == {n \in Nat : StartsWith(n)}
<1>5. StartsWith(0)
  <2>1. CASE s = <<>>
    <3>1. Len(s) = 0 /\ prefix[0] = <<>>
      BY <1>1, <1>2, <1>4, <2>1
    <3> QED
      BY <3>1
  <2>2. CASE s # <<>>
    <3>1. Len(s) >= 1
      BY <1>1, <1>2, <2>2, EmptySeq
    <3>2. head = s[1] /\ head \in Entries /\ head # NoEntry
      BY <1>1, <1>2, <3>1
    <3>3. prefix[0] = <<head>>
      BY <1>4, <3>2
    <3> QED
      BY <1>2, <3>1, <3>2, <3>3
  <2> QED
    BY <2>1, <2>2
<1>6. ASSUME NEW n \in Nat, StartsWith(n)
      PROVE  StartsWith(n + 1)
  <2> DEFINE p == prefix[n]
             k == m(n)
  <2>1. p \in Seq(Entries) /\ Len(p) = k /\ k \in Nat /\ k <= Len(s) /\ \A i \in 1..k : p[i] = s[i]
    BY <1>2, <1>6
  <2>2. prefix[n + 1] = IF p = <<>> \/ next[p[Len(p)]] = NoEntry THEN p ELSE Append(p, next[p[Len(p)]])
    BY <1>4
  <2>3. CASE Len(s) = 0
    <3>1. p = <<>> /\ k = 0 /\ m(n + 1) = 0
      BY <2>1, <2>3, EmptySeq
    <3> QED
      BY <2>1, <2>2, <3>1
  <2>4. CASE Len(s) # 0
    <3>1. k >= 1 /\ k \in 1..Len(s) /\ p[Len(p)] = s[k] /\ p # <<>>
      BY <1>2, <2>1, <2>4
    <3>2. next[p[Len(p)]] = Nth(s, k + 1)
      BY <1>1, <3>1
    <3>3. CASE n + 1 < Len(s)
      <4>1. k = n + 1 /\ m(n + 1) = k + 1 /\ k + 1 \in 1..Len(s)
        BY <1>2, <3>3
      <4>2. Nth(s, k + 1) = s[k + 1] /\ s[k + 1] \in Entries /\ s[k + 1] # NoEntry
        BY <1>2, <4>1
      <4>3. prefix[n + 1] = Append(p, s[k + 1])
        BY <2>2, <3>1, <3>2, <4>2
      <4> HIDE DEF p, k, m
      <4>4. /\ Append(p, s[k + 1]) \in Seq(Entries) /\ Len(Append(p, s[k + 1])) = k + 1
            /\ \A i \in 1..k : Append(p, s[k + 1])[i] = p[i]
            /\ Append(p, s[k + 1])[k + 1] = s[k + 1]
        BY <2>1, <4>2, AppendProperties
      <4>5. \A i \in 1..(k + 1) : i \in 1..k \/ i = k + 1
        BY <2>1
      <4> QED
        BY <2>1, <4>1, <4>3, <4>4, <4>5
    <3>4. CASE ~(n + 1 < Len(s))
      <4>1. k = Len(s) /\ m(n + 1) = k /\ k + 1 \notin 1..Len(s)
        BY <1>2, <3>4
      <4>2. prefix[n + 1] = p
        BY <1>2, <2>2, <3>2, <4>1
      <4> QED
        BY <2>1, <4>1, <4>2
    <3> QED
      BY <3>3, <3>4
  <2> QED
    BY <2>3, <2>4
<1>7. T = Nat
  <2>1. T \subseteq Nat
    OBVIOUS
  <2> HIDE DEF StartsWith
  <2>2. 0 \in T /\ \A n \in T : n + 1 \in T
    BY <1>5, <1>6
  <2> HIDE DEF T
  <2> QED
    BY <2>1, <2>2, Induction
<1> DEFINE N == Cardinality(Entries)
<1>8. N \in Nat /\ Len(s) <= N
  BY <1>1, ListIsShort
<1>9. StartsWith(N) /\ m(N) = Len(s)
  <2>1. N \in T
    BY <1>7, <1>8
  <2>2. m(N) = Len(s)
    BY <1>2, <1>8
  <2> HIDE DEF StartsWith, N, m
  <2> QED
    BY <2>1, <2>2
<1>10. prefix[N] = s
  <2> HIDE DEF N
  <2>1. /\ prefix[N] \in Seq(Entries) /\ Len(prefix[N]) = Len(s)
        /\ \A i \in 1..Len(s) : prefix[N][i] = s[i]
    BY <1>9
  <2> QED
    BY <1>1, <2>1, SeqEqual
<1> QED
  BY <1>4, <1>10

-----------------------------------------------------------------------------

\* A path stays as long as the links of its entries do.
LEMMA SamePath ==
  ASSUME NEW next, NEW p, NEW s, Path(next, p, s),
         NEW other, \A e \in Elements(s) : other[e] = next[e]
  PROVE  Path(other, p, s)
<1>1. s \in Seq(Entries)
  BY DEF Path
<1>2. \A i \in 1..Len(s) : s[i] \in Elements(s)
  BY <1>1, IsList
<1> QED
  BY <1>2 DEF Path

\* Two paths that meet go on together.
LEMMA PathsAgree ==
  ASSUME NEW next, NEW p, NEW s, Path(next, p, s), NEW q, NEW t, Path(next, q, t),
         NEW i \in 1..Len(s), NEW j \in 1..Len(t), s[i] = t[j]
  PROVE  \A d \in Nat : Nth(s, i + d) = Nth(t, j + d)
<1>1. s \in Seq(Entries) /\ t \in Seq(Entries)
  BY DEF Path
<1>2. /\ Len(s) \in Nat
      /\ \A k \in 1..Len(s) : s[k] # NoEntry /\ Nth(s, k) = s[k] /\ next[s[k]] = Nth(s, k + 1)
      /\ \A k : k \notin 1..Len(s) => Nth(s, k) = NoEntry
  BY <1>1, IsList DEF Path
<1>3. /\ Len(t) \in Nat
      /\ \A k \in 1..Len(t) : t[k] # NoEntry /\ Nth(t, k) = t[k] /\ next[t[k]] = Nth(t, k + 1)
      /\ \A k : k \notin 1..Len(t) => Nth(t, k) = NoEntry
  BY <1>1, IsList DEF Path
<1> DEFINE T == {d \in Nat : Nth(s, i + d) = Nth(t, j + d)}
<1>4. 0 \in T
  BY <1>2, <1>3
<1>5. ASSUME NEW d \in T PROVE d + 1 \in T
  <2>1. d \in Nat /\ Nth(s, i + d) = Nth(t, j + d) /\ i \in Nat /\ j \in Nat /\ i >= 1 /\ j >= 1
    OBVIOUS
  <2>2. CASE Nth(s, i + d) = NoEntry
    <3>1. i + d \notin 1..Len(s) /\ j + d \notin 1..Len(t)
      BY <1>2, <1>3, <2>1, <2>2
    <3>2. i + (d + 1) \notin 1..Len(s) /\ j + (d + 1) \notin 1..Len(t)
      BY <1>2, <1>3, <2>1, <3>1
    <3> QED
      BY <1>2, <1>3, <2>1, <3>2
  <2>3. CASE Nth(s, i + d) # NoEntry
    <3>1. i + d \in 1..Len(s) /\ j + d \in 1..Len(t)
      BY <1>2, <1>3, <2>1, <2>3
    <3>2. Nth(s, (i + d) + 1) = next[Nth(s, i + d)]
      BY <1>2, <3>1
    <3>3. Nth(t, (j + d) + 1) = next[Nth(t, j + d)]
      BY <1>3, <3>1
    <3>4. (i + d) + 1 = i + (d + 1) /\ (j + d) + 1 = j + (d + 1) /\ d + 1 \in Nat
      BY <2>1
    <3>5. Nth(s, i + (d + 1)) = Nth(t, j + (d + 1))
      BY <2>1, <3>2, <3>3, <3>4
    <3> QED
      BY <3>4, <3>5
  <2> QED
    BY <2>2, <2>3
<1>6. T \subseteq Nat
  OBVIOUS
<1>7. T = Nat
  <2> HIDE DEF T
  <2> QED
    BY <1>4, <1>5, <1>6, Induction
<1> QED
  BY <1>7

\* e becomes the element at place i; the elements at the places from i to before j go.
Inserted(s, i, e) ==
  [k \in 1..(Len(s) + 1) |-> IF k < i THEN s[k] ELSE IF k = i THEN e ELSE s[k - 1]]

Without(s, i, j) ==
  [k \in 1..(Len(s) - (j - i)) |-> IF k < i THEN s[k] ELSE s[k + (j - i)]]

\* The path after an entry has been put at place i.
LEMMA InsertedPath ==
  ASSUME NEW next, NEW p, NEW s, Path(next, p, s), NEW i \in 1..(Len(s) + 1),
         NEW e \in Entries, e \notin Elements(s), NEW other, other[e] = Nth(s, i),
         i > 1 => other[s[i - 1]] = e,
         \A k \in 1..Len(s) : k # i - 1 => other[s[k]] = next[s[k]]
  PROVE  /\ Path(other, IF i = 1 THEN e ELSE p, Inserted(s, i, e))
         /\ Len(Inserted(s, i, e)) = Len(s) + 1
         /\ Elements(Inserted(s, i, e)) = Elements(s) \cup {e}
<1> DEFINE n == Len(s)
           t == Inserted(s, i, e)
<1>1. s \in Seq(Entries) /\ p = Nth(s, 1)
  BY DEF Path
<1>2. /\ n \in Nat
      /\ \A k \in 1..n : s[k] \in Entries /\ s[k] # NoEntry /\ Nth(s, k) = s[k] /\ next[s[k]] = Nth(s, k + 1)
      /\ \A k : k \notin 1..n => Nth(s, k) = NoEntry
      /\ \A k, l \in 1..n : s[k] = s[l] => k = l
      /\ (\A x : x \in Elements(s) <=> \E k \in 1..n : x = s[k])
  BY <1>1, IsList DEF Path
<1> HIDE DEF n
<1>3. i \in 1..(n + 1) /\ i \in Nat /\ n \in Nat
  BY <1>2 DEF n
<1>4. t = [k \in 1..(n + 1) |-> IF k < i THEN s[k] ELSE IF k = i THEN e ELSE s[k - 1]]
  BY DEF Inserted, n
<1> HIDE DEF t
<1>5. t \in [1..(n + 1) -> Entries]
  BY <1>2, <1>3, <1>4
<1>6. t \in Seq(Entries) /\ Len(t) = n + 1 /\ (\A x : x \in Elements(t) <=> \E k \in 1..(n + 1) : x = t[k])
  <2> DEFINE m == n + 1
  <2>1. m \in Nat /\ t \in [1..m -> Entries]
    BY <1>3, <1>5
  <2> HIDE DEF m
  <2>2. t \in Seq(Entries) /\ Len(t) = m /\ (\A x : x \in Elements(t) <=> \E k \in 1..m : x = t[k])
    BY <2>1, MadeList
  <2> QED
    BY <2>2 DEF m
<1>7. /\ \A k \in 1..(n + 1) : k < i => k \in 1..n /\ t[k] = s[k]
      /\ t[i] = e
      /\ \A k \in 1..(n + 1) : k > i => k - 1 \in 1..n /\ t[k] = s[k - 1]
  BY <1>2, <1>3, <1>4
<1>8. (\A k \in 1..n : e # s[k]) /\ (\A k, l \in 1..n : s[k] = s[l] => k = l)
  BY <1>2
<1>9. ASSUME NEW k \in 1..(n + 1), NEW l \in 1..(n + 1), t[k] = t[l] PROVE k = l
  <2>1. CASE k < i
    <3>1. k \in 1..n /\ t[k] = s[k]
      BY <1>7, <2>1
    <3>2. CASE l < i
      <4>1. l \in 1..n /\ t[l] = s[l]
        BY <1>7, <3>2
      <4> QED
        BY <1>8, <1>9, <3>1, <4>1
    <3>3. CASE l = i
      BY <1>7, <1>8, <1>9, <3>1, <3>3
    <3>4. CASE l > i
      <4>1. l - 1 \in 1..n /\ t[l] = s[l - 1]
        BY <1>7, <3>4
      <4>2. k = l - 1
        BY <1>8, <1>9, <3>1, <4>1
      <4> QED
        BY <1>3, <2>1, <3>4, <4>2
    <3> QED
      BY <1>3, <3>2, <3>3, <3>4
  <2>2. CASE k = i
    <3>1. l < i \/ l = i \/ l > i
      BY <1>3
    <3> QED
      BY <1>7, <1>8, <1>9, <2>2, <3>1
  <2>3. CASE k > i
    <3>1. k - 1 \in 1..n /\ t[k] = s[k - 1]
      BY <1>7, <2>3
    <3>2. CASE l < i
      <4>1. l \in 1..n /\ t[l] = s[l]
        BY <1>7, <3>2
      <4>2. k - 1 = l
        BY <1>8, <1>9, <3>1, <4>1
      <4> QED
        BY <1>3, <2>3, <3>2, <4>2
    <3>3. CASE l = i
      BY <1>7, <1>8, <1>9, <3>1, <3>3
    <3>4. CASE l > i
      <4>1. l - 1 \in 1..n /\ t[l] = s[l - 1]
        BY <1>7, <3>4
      <4>2. k - 1 = l - 1
        BY <1>8, <1>9, <3>1, <4>1
      <4> QED
        BY <1>3, <4>2
    <3> QED
      BY <1>3, <3>2, <3>3, <3>4
  <2> QED
    BY <1>3, <2>1, <2>2, <2>3
<1>10. /\ \A k \in 1..(n + 1) : Nth(t, k) = t[k]
       /\ \A k : k \notin 1..(n + 1) => Nth(t, k) = NoEntry
  BY <1>6 DEF Nth
<1>11. ASSUME NEW k \in 1..(n + 1) PROVE other[t[k]] = Nth(t, k + 1)
  <2>1. CASE k < i - 1
    <3>1. k \in 1..n /\ t[k] = s[k] /\ k + 1 \in 1..n /\ k + 1 < i /\ t[k + 1] = s[k + 1] /\ k # i - 1
      BY <1>2, <1>3, <1>7, <2>1
    <3>2. other[s[k]] = s[k + 1]
      BY <1>2, <3>1 DEF n
    <3> QED
      BY <1>2, <1>10, <3>1, <3>2
  <2>2. CASE k = i - 1
    <3>1. i > 1 /\ t[k] = s[i - 1] /\ k + 1 = i /\ i \in 1..(n + 1)
      BY <1>2, <1>3, <1>7, <2>2
    <3> QED
      BY <1>7, <1>10, <3>1
  <2>3. CASE k = i
    <3>1. CASE i = n + 1
      <4>1. Nth(t, k + 1) = NoEntry /\ Nth(s, i) = NoEntry
        BY <1>2, <1>3, <1>10, <2>3, <3>1
      <4> QED
        BY <1>7, <2>3, <4>1
    <3>2. CASE i # n + 1
      <4>1. k + 1 \in 1..(n + 1) /\ k + 1 > i /\ (k + 1) - 1 = i /\ i \in 1..n
        BY <1>2, <1>3, <2>3, <3>2
      <4>2. t[k + 1] = s[i] /\ Nth(s, i) = s[i]
        BY <1>2, <1>7, <4>1
      <4> QED
        BY <1>7, <1>10, <2>3, <4>1, <4>2
    <3> QED
      BY <3>1, <3>2
  <2>4. CASE k > i
    <3>1. k - 1 \in 1..n /\ t[k] = s[k - 1] /\ k - 1 # i - 1 /\ (k - 1) + 1 = k
      BY <1>2, <1>3, <1>7, <2>4
    <3>2. other[t[k]] = Nth(s, k)
      BY <1>2, <3>1 DEF n
    <3>3. CASE k = n + 1
      <4>1. k \notin 1..n /\ k + 1 \notin 1..(n + 1)
        BY <1>2, <3>3
      <4> QED
        BY <1>2, <1>10, <3>2, <4>1
    <3>4. CASE k # n + 1
      <4>1. k \in 1..n /\ k + 1 \in 1..(n + 1) /\ k + 1 > i /\ (k + 1) - 1 = k
        BY <1>3, <2>4, <3>4
      <4>2. t[k + 1] = s[k] /\ Nth(s, k) = s[k] /\ Nth(t, k + 1) = t[k + 1]
        BY <1>2, <1>7, <1>10, <4>1
      <4> QED
        BY <3>2, <4>2
    <3> QED
      BY <3>3, <3>4
  <2> QED
    BY <1>2, <1>3, <2>1, <2>2, <2>3, <2>4
<1>12. (IF i = 1 THEN e ELSE p) = Nth(t, 1)
  <2>1. 1 \in 1..(n + 1) /\ Nth(t, 1) = t[1]
    BY <1>2, <1>10
  <2>2. CASE i = 1
    BY <1>7, <2>1, <2>2
  <2>3. CASE i # 1
    BY <1>1, <1>2, <1>3, <1>7, <2>1, <2>3
  <2> QED
    BY <2>2, <2>3
<1>13. Elements(t) = Elements(s) \cup {e}
  <2>1. ASSUME NEW k \in 1..(n + 1) PROVE t[k] \in Elements(s) \cup {e}
    <3>1. k < i \/ k = i \/ k > i
      BY <1>3
    <3> QED
      BY <1>2, <1>7, <3>1
  <2>2. ASSUME NEW k \in 1..n PROVE s[k] \in Elements(t)
    <3>1. CASE k < i
      BY <1>2, <1>6, <1>7, <3>1
    <3>2. CASE ~(k < i)
      <4>1. k + 1 \in 1..(n + 1) /\ k + 1 > i /\ (k + 1) - 1 = k
        BY <1>2, <1>3, <3>2
      <4> QED
        BY <1>6, <1>7, <4>1
    <3> QED
      BY <3>1, <3>2
  <2>3. e \in Elements(t)
    BY <1>3, <1>6, <1>7
  <2> QED
    BY <1>2, <1>6, <2>1, <2>2, <2>3
<1> QED
  <2>1. Path(other, IF i = 1 THEN e ELSE p, t)
    BY <1>6, <1>9, <1>11, <1>12 DEF Path
  <2> QED
    BY <1>6, <1>13, <2>1 DEF t, n

\* The links of other lead around the entries of the path at these places.
LeadsAround(next, other, p, s, i, j) ==
  /\ Path(next, p, s) /\ i \in 1..(Len(s) + 1) /\ j \in 1..(Len(s) + 1) /\ i <= j
  /\ i > 1 => other[s[i - 1]] = Nth(s, j)
  /\ \A k \in 1..Len(s) : k < i - 1 \/ k >= j => other[s[k]] = next[s[k]]

\* The path after the entries at the places from i to before j have been unlinked.
LEMMA WithoutPath ==
  ASSUME NEW next, NEW other, NEW p, NEW s, NEW i, NEW j, LeadsAround(next, other, p, s, i, j)
  PROVE  /\ Path(other, IF i = 1 THEN Nth(s, j) ELSE p, Without(s, i, j))
         /\ Len(Without(s, i, j)) = Len(s) - (j - i)
         /\ \A x : x \in Elements(Without(s, i, j)) <=>
                   \E k \in 1..Len(s) : (k < i \/ k >= j) /\ x = s[k]
<1> DEFINE n == Len(s)
           t == Without(s, i, j)
<1>0. /\ Path(next, p, s) /\ i \in 1..(Len(s) + 1) /\ j \in 1..(Len(s) + 1) /\ i <= j
      /\ i > 1 => other[s[i - 1]] = Nth(s, j)
      /\ \A k \in 1..Len(s) : k < i - 1 \/ k >= j => other[s[k]] = next[s[k]]
  BY DEF LeadsAround
<1>1. s \in Seq(Entries) /\ p = Nth(s, 1)
  BY <1>0 DEF Path
<1>2. /\ n \in Nat
      /\ \A k \in 1..n : s[k] \in Entries /\ s[k] # NoEntry /\ Nth(s, k) = s[k] /\ next[s[k]] = Nth(s, k + 1)
      /\ \A k : k \notin 1..n => Nth(s, k) = NoEntry
      /\ \A k, l \in 1..n : s[k] = s[l] => k = l
  BY <1>0, <1>1, IsList DEF Path
<1> HIDE DEF n
<1> DEFINE c == j - i
           m == n - c
<1>3. i \in 1..(n + 1) /\ i \in Nat /\ j \in 1..(n + 1) /\ i <= j /\ j \in Nat /\ c \in Nat /\ m \in Nat /\ j = i + c /\ n \in Nat
  BY <1>0, <1>2 DEF n
<1>4. t = [k \in 1..m |-> IF k < i THEN s[k] ELSE s[k + c]]
  BY DEF Without, n
<1> HIDE DEF t
<1>5. /\ \A k \in 1..m : k < i => k \in 1..n /\ t[k] = s[k]
      /\ \A k \in 1..m : k >= i => k + c \in 1..n /\ k + c >= j /\ t[k] = s[k + c]
  BY <1>2, <1>3, <1>4
<1>6. t \in [1..m -> Entries]
  BY <1>2, <1>3, <1>4
<1>7. t \in Seq(Entries) /\ Len(t) = m /\ (\A x : x \in Elements(t) <=> \E k \in 1..m : x = t[k])
  BY <1>3, <1>6, MadeList
<1>8. m = n - c
  OBVIOUS
<1> HIDE DEF c, m
<1>9. ASSUME NEW k \in 1..m, NEW l \in 1..m, t[k] = t[l] PROVE k = l
  <2>1. CASE k < i /\ l < i
    BY <1>2, <1>3, <1>5, <1>9, <2>1
  <2>2. CASE k < i /\ ~(l < i)
    BY <1>2, <1>3, <1>5, <1>9, <2>2
  <2>3. CASE ~(k < i) /\ l < i
    BY <1>2, <1>3, <1>5, <1>9, <2>3
  <2>4. CASE ~(k < i) /\ ~(l < i)
    BY <1>2, <1>3, <1>5, <1>9, <2>4
  <2> QED
    BY <2>1, <2>2, <2>3, <2>4
<1>10. /\ \A k \in 1..m : Nth(t, k) = t[k]
       /\ \A k : k \notin 1..m => Nth(t, k) = NoEntry
  BY <1>7 DEF Nth
<1>11. \A k \in Nat : k >= i => Nth(t, k) = Nth(s, k + c)
  <2> TAKE k \in Nat
  <2>1. SUFFICES ASSUME k >= i PROVE Nth(t, k) = Nth(s, k + c)
    OBVIOUS
  <2>2. k \in 1..m <=> k + c \in 1..n
    BY <1>2, <1>3, <1>8, <2>1
  <2> QED
    BY <1>2, <1>5, <1>10, <2>1, <2>2, SMTT(30)
<1>12. ASSUME NEW k \in 1..m PROVE other[t[k]] = Nth(t, k + 1)
  <2>1. CASE k < i - 1
    <3>1. k \in 1..n /\ t[k] = s[k] /\ k + 1 \in 1..n /\ k + 1 < i
      BY <1>2, <1>3, <1>5, <2>1
    <3>2. k + 1 \in 1..m
      BY <1>3, <1>8, <2>1
    <3>3. other[s[k]] = s[k + 1]
      BY <1>0, <1>2, <2>1, <3>1 DEF n
    <3> QED
      BY <1>5, <1>10, <3>1, <3>2, <3>3
  <2>2. CASE k = i - 1
    <3>1. i > 1 /\ t[k] = s[i - 1] /\ k + 1 = i
      BY <1>2, <1>3, <1>5, <2>2
    <3>2. Nth(t, i) = Nth(s, j)
      BY <1>3, <1>11
    <3> QED
      BY <1>0, <3>1, <3>2
  <2>3. CASE k >= i
    <3>1. k + c \in 1..n /\ k + c >= j /\ t[k] = s[k + c] /\ k + 1 \in Nat /\ k + 1 >= i
          /\ (k + c) + 1 = (k + 1) + c
      BY <1>3, <1>5, <2>3
    <3>2. Nth(t, k + 1) = Nth(s, (k + c) + 1)
      BY <1>11, <3>1
    <3>3. other[t[k]] = Nth(s, (k + c) + 1)
      BY <1>0, <1>2, <3>1 DEF n
    <3> QED
      BY <3>2, <3>3
  <2> QED
    BY <1>3, <2>1, <2>2, <2>3
<1>13. (IF i = 1 THEN Nth(s, j) ELSE p) = Nth(t, 1)
  <2>1. CASE i = 1
    BY <1>3, <1>11, <2>1
  <2>2. CASE i # 1
    <3>1. 1 < i /\ 1 \in Nat /\ m >= 1 /\ 1 \in 1..m
      BY <1>3, <1>8, <2>2
    <3> QED
      BY <1>1, <1>2, <1>5, <1>10, <2>2, <3>1
  <2> QED
    BY <2>1, <2>2
<1>14. \A x : x \in Elements(t) <=> \E k \in 1..n : (k < i \/ k >= j) /\ x = s[k]
  <2>1. ASSUME NEW k \in 1..m PROVE \E l \in 1..n : (l < i \/ l >= j) /\ t[k] = s[l]
    BY <1>3, <1>5
  <2>2. ASSUME NEW k \in 1..n, k < i \/ k >= j PROVE s[k] \in Elements(t)
    <3>1. CASE k < i
      <4>1. k \in 1..m
        BY <1>3, <1>8, <3>1
      <4> QED
        BY <1>5, <1>7, <3>1, <4>1
    <3>2. CASE k >= j
      <4>1. k - c \in 1..m /\ k - c >= i /\ (k - c) + c = k
        BY <1>2, <1>3, <1>8, <3>2
      <4> QED
        BY <1>5, <1>7, <4>1
    <3> QED
      BY <2>2, <3>1, <3>2
  <2> QED
    BY <1>7, <2>1, <2>2
<1> QED
  <2>1. Path(other, IF i = 1 THEN Nth(s, j) ELSE p, t)
    BY <1>7, <1>9, <1>12, <1>13 DEF Path
  <2> QED
    BY <1>7, <1>8, <1>14, <2>1 DEF t, n, c

\* Both, for a path that meets the list u whose links are set.
LEMMA InsertedBehind ==
  ASSUME NEW next, NEW head, NEW u, Path(next, head, u), NEW p, NEW s, Path(next, p, s),
         NEW i \in 1..(Len(u) + 1), NEW e \in Entries, e \notin Elements(s),
         NEW other, other[e] = Nth(u, i), i > 1 => other[u[i - 1]] = e,
         \A x \in Entries : x # e /\ (i > 1 => x # u[i - 1]) => other[x] = next[x]
  PROVE  \E t : Path(other, p, t) /\ Elements(t) \subseteq Elements(s) \cup {e}
<1>1. /\ s \in Seq(Entries) /\ u \in Seq(Entries)
      /\ \A k, l \in 1..Len(s) : s[k] = s[l] => k = l
  BY DEF Path
<1>2. /\ Len(s) \in Nat /\ (\A x : x \in Elements(s) <=> \E k \in 1..Len(s) : x = s[k]) /\ Elements(s) \subseteq Entries
      /\ \A k \in 1..Len(s) : s[k] \in Entries
      /\ Len(u) \in Nat /\ i \in Nat
  BY <1>1, IsList
<1>3. CASE i > 1 => u[i - 1] \notin Elements(s)
  <2>1. \A x \in Elements(s) : other[x] = next[x]
    BY <1>2, <1>3
  <2> QED
    BY <2>1, SamePath
<1>4. CASE i > 1 /\ u[i - 1] \in Elements(s)
  <2>1. PICK k \in 1..Len(s) : s[k] = u[i - 1]
    BY <1>2, <1>4
  <2>2. i - 1 \in 1..Len(u) /\ (i - 1) + 1 = i /\ k + 1 \in 1..(Len(s) + 1) /\ k + 1 > 1
        /\ (k + 1) - 1 = k /\ 1 \in Nat /\ k + 1 # 1
    BY <1>2, <1>4, <2>1
  <2>3. Nth(s, k + 1) = Nth(u, (i - 1) + 1)
    BY <2>1, <2>2, PathsAgree
  <2>4. other[e] = Nth(s, k + 1)
    BY <2>2, <2>3
  <2>5. other[s[(k + 1) - 1]] = e
    BY <1>4, <2>1, <2>2
  <2>6. \A l \in 1..Len(s) : l # (k + 1) - 1 => other[s[l]] = next[s[l]]
    BY <1>1, <1>2, <2>1, <2>2
  <2>7. /\ Path(other, IF k + 1 = 1 THEN e ELSE p, Inserted(s, k + 1, e))
        /\ Elements(Inserted(s, k + 1, e)) = Elements(s) \cup {e}
    BY <2>2, <2>4, <2>5, <2>6, InsertedPath
  <2> QED
    BY <2>2, <2>7
<1> QED
  BY <1>3, <1>4

LEMMA WithoutBehind ==
  ASSUME NEW next, NEW head, NEW u, Path(next, head, u), NEW p, NEW s, Path(next, p, s),
         NEW i \in 1..(Len(u) + 1), NEW j \in 1..(Len(u) + 1), i <= j,
         NEW other, i > 1 => other[u[i - 1]] = Nth(u, j),
         \A x \in Entries : (i > 1 => x # u[i - 1]) => other[x] = next[x]
  PROVE  \E t : Path(other, p, t) /\ Elements(t) \subseteq Elements(s)
<1>1. /\ s \in Seq(Entries) /\ u \in Seq(Entries)
      /\ \A k, l \in 1..Len(s) : s[k] = s[l] => k = l
  BY DEF Path
<1>2. /\ Len(s) \in Nat /\ (\A x : x \in Elements(s) <=> \E k \in 1..Len(s) : x = s[k]) /\ Elements(s) \subseteq Entries
      /\ \A k \in 1..Len(s) : s[k] \in Entries
      /\ \A k : k \notin 1..Len(s) => Nth(s, k) = NoEntry
      /\ Len(u) \in Nat /\ i \in Nat /\ j \in Nat
      /\ \A k \in 1..Len(u) : Nth(u, k) # NoEntry
  BY <1>1, IsList
<1>3. CASE i > 1 => u[i - 1] \notin Elements(s)
  <2>1. \A x \in Elements(s) : other[x] = next[x]
    BY <1>2, <1>3
  <2> QED
    BY <2>1, SamePath
<1>4. CASE i > 1 /\ u[i - 1] \in Elements(s)
  <2>1. PICK k \in 1..Len(s) : s[k] = u[i - 1]
    BY <1>2, <1>4
  <2> DEFINE l == k + 1 + (j - i)
  <2>2. /\ i - 1 \in 1..Len(u) /\ j - i \in Nat /\ (j - i) + 1 \in Nat
        /\ k + (j - i) = l - 1 /\ k + ((j - i) + 1) = l
        /\ (i - 1) + (j - i) = j - 1 /\ (i - 1) + ((j - i) + 1) = j
        /\ j - 1 \in 1..Len(u)
    <3>1. i \in Nat /\ j \in Nat /\ k \in Nat /\ Len(u) \in Nat /\ i <= j /\ i > 1
          /\ i <= Len(u) + 1 /\ j <= Len(u) + 1
      BY <1>2, <1>4, <2>1
    <3> QED
      BY <3>1
  <2>3. \A d \in Nat : Nth(s, k + d) = Nth(u, (i - 1) + d)
    <3> DEFINE h == i - 1
    <3>1. h \in 1..Len(u) /\ s[k] = u[h]
      BY <2>1, <2>2
    <3> HIDE DEF h, l
    <3>2. \A d \in Nat : Nth(s, k + d) = Nth(u, h + d)
      BY <3>1, PathsAgree
    <3> QED
      BY <3>2 DEF h
  <2>4. Nth(s, l - 1) = Nth(u, j - 1) /\ Nth(s, l) = Nth(u, j)
    BY <2>2, <2>3
  <2>5. l - 1 \in 1..Len(s)
    BY <1>2, <2>2, <2>4
  <2>6. /\ k + 1 \in 1..(Len(s) + 1) /\ l \in 1..(Len(s) + 1) /\ k + 1 <= l /\ k + 1 > 1
        /\ (k + 1) - 1 = k /\ k + 1 # 1
    BY <1>2, <2>1, <2>2, <2>5
  <2> HIDE DEF l
  <2>7. k + 1 > 1 => other[s[(k + 1) - 1]] = Nth(s, l)
    BY <1>4, <2>1, <2>4, <2>6
  <2>8. \A m \in 1..Len(s) : m < (k + 1) - 1 \/ m >= l => other[s[m]] = next[s[m]]
    BY <1>1, <1>2, <2>1, <2>6
  <2>9. /\ Path(other, IF k + 1 = 1 THEN Nth(s, l) ELSE p, Without(s, k + 1, l))
        /\ \A x : x \in Elements(Without(s, k + 1, l)) <=>
                  \E m \in 1..Len(s) : (m < k + 1 \/ m >= l) /\ x = s[m]
    <3>1. LeadsAround(next, other, p, s, k + 1, l)
      BY <2>6, <2>7, <2>8 DEF LeadsAround
    <3> QED
      BY <3>1, WithoutPath
  <2>10. Elements(Without(s, k + 1, l)) \subseteq Elements(s)
    BY <1>2, <2>9
  <2> QED
    BY <2>6, <2>9, <2>10
<1> QED
  BY <1>3, <1>4

-----------------------------------------------------------------------------

\* The part of a path between two places.
Part(s, i, j) == [k \in 1..(j - i) |-> s[k + (i - 1)]]

LEMMA PartOfPath ==
  ASSUME NEW next, NEW p, NEW s, Path(next, p, s), NEW i \in 1..Len(s),
         NEW j \in 1..(Len(s) + 1), i < j,
         NEW other, \A k \in 1..Len(s) : k >= i /\ k < j => other[s[k]] = next[s[k]]
  PROVE  /\ Segment(other, Part(s, i, j))
         /\ Len(Part(s, i, j)) = j - i /\ Len(Part(s, i, j)) \in Nat \ {0}
         /\ Part(s, i, j)[1] = s[i] /\ Part(s, i, j)[Len(Part(s, i, j))] = s[j - 1]
         /\ \A x : x \in Elements(Part(s, i, j)) <=>
                   \E k \in 1..Len(s) : k >= i /\ k < j /\ x = s[k]
<1> DEFINE n == j - i
           t == Part(s, i, j)
<1>1. /\ s \in Seq(Entries)
      /\ \A k, l \in 1..Len(s) : s[k] = s[l] => k = l
      /\ \A k \in 1..Len(s) : next[s[k]] = Nth(s, k + 1)
  BY DEF Path
<1>2. /\ Len(s) \in Nat /\ i \in Nat /\ j \in Nat /\ n \in Nat /\ n # 0
      /\ \A k \in 1..Len(s) : s[k] \in Entries /\ Nth(s, k) = s[k]
  BY <1>1, IsList
<1>3. t = [k \in 1..n |-> s[k + (i - 1)]]
  BY DEF Part
<1> HIDE DEF t
<1>4. \A k \in 1..n : k + (i - 1) \in 1..Len(s) /\ k + (i - 1) >= i /\ k + (i - 1) < j
  BY <1>2
<1>5. t \in [1..n -> Entries]
  BY <1>2, <1>3, <1>4
<1>6. t \in Seq(Entries) /\ Len(t) = n /\ (\A x : x \in Elements(t) <=> \E k \in 1..n : x = t[k])
  BY <1>2, <1>5, MadeList
<1>7. \A k, l \in 1..n : t[k] = t[l] => k = l
  <2> TAKE k, l \in 1..n
  <2>1. SUFFICES ASSUME t[k] = t[l] PROVE k = l
    OBVIOUS
  <2>2. k + (i - 1) = l + (i - 1)
    BY <1>1, <1>3, <1>4, <2>1
  <2> QED
    BY <1>2, <2>2
<1>8. \A k \in 1..(n - 1) : other[t[k]] = t[k + 1]
  <2> TAKE k \in 1..(n - 1)
  <2>1. k \in 1..n /\ k + 1 \in 1..n /\ (k + 1) + (i - 1) = (k + (i - 1)) + 1
    BY <1>2
  <2>2. other[s[k + (i - 1)]] = s[(k + (i - 1)) + 1]
    BY <1>1, <1>2, <1>4, <2>1
  <2> QED
    BY <1>3, <2>1, <2>2
<1>9. t[1] = s[i] /\ t[n] = s[j - 1]
  <2>1. 1 \in 1..n /\ n \in 1..n /\ 1 + (i - 1) = i /\ n + (i - 1) = j - 1
    BY <1>2
  <2> QED
    BY <1>3, <2>1
<1>10. \A x : x \in Elements(t) <=> \E k \in 1..Len(s) : k >= i /\ k < j /\ x = s[k]
  <2>1. ASSUME NEW k \in 1..n PROVE \E l \in 1..Len(s) : l >= i /\ l < j /\ t[k] = s[l]
    BY <1>3, <1>4
  <2>2. ASSUME NEW k \in 1..Len(s), k >= i, k < j PROVE s[k] \in Elements(t)
    <3>1. k - (i - 1) \in 1..n /\ (k - (i - 1)) + (i - 1) = k
      BY <1>2, <2>2
    <3> QED
      BY <1>3, <1>6, <3>1
  <2> QED
    BY <1>6, <2>1, <2>2
<1> QED
  <2>1. Segment(other, t)
    BY <1>6, <1>7, <1>8 DEF Segment
  <2> QED
    BY <1>2, <1>6, <1>9, <1>10, <2>1 DEF t

\* A segment without its first entry.
LEMMA SegmentRest ==
  ASSUME NEW next, NEW s, Segment(next, s), Len(s) > 1,
         NEW other, \A x \in Entries : x # s[1] => other[x] = next[x]
  PROVE  \E t : /\ Segment(other, t) /\ Len(t) \in Nat \ {0}
                 /\ t[1] = next[s[1]] /\ t[Len(t)] = s[Len(s)]
                 /\ Elements(t) \subseteq Elements(s) \ {s[1]}
<1> DEFINE n == Len(s) - 1
           t == [k \in 1..n |-> s[k + 1]]
<1>1. /\ s \in Seq(Entries)
      /\ \A k, l \in 1..Len(s) : s[k] = s[l] => k = l
      /\ \A k \in 1..(Len(s) - 1) : next[s[k]] = s[k + 1]
  BY DEF Segment
<1>2. /\ Len(s) \in Nat /\ n \in Nat /\ n # 0
      /\ \A k \in 1..Len(s) : s[k] \in Entries
      /\ (\A x : x \in Elements(s) <=> \E k \in 1..Len(s) : x = s[k])
  BY <1>1, IsList
<1>3. \A k \in 1..n : k + 1 \in 1..Len(s) /\ t[k] = s[k + 1]
  BY <1>2
<1>4. t \in [1..n -> Entries]
  BY <1>2, <1>3
<1>5. t \in Seq(Entries) /\ Len(t) = n /\ (\A x : x \in Elements(t) <=> \E k \in 1..n : x = t[k])
  <2> HIDE DEF t, n
  <2> QED
    BY <1>2, <1>4, MadeList
<1> HIDE DEF t
<1>6. \A k, l \in 1..n : t[k] = t[l] => k = l
  <2> TAKE k, l \in 1..n
  <2>1. SUFFICES ASSUME t[k] = t[l] PROVE k = l
    OBVIOUS
  <2>2. k + 1 = l + 1
    BY <1>1, <1>3, <2>1
  <2> QED
    BY <1>2, <2>2
<1>7. \A k \in 1..n : s[k + 1] # s[1]
  <2> TAKE k \in 1..n
  <2>1. 1 \in 1..Len(s) /\ k + 1 # 1
    BY <1>2
  <2> QED
    BY <1>1, <1>3, <2>1
<1>8. \A k \in 1..(n - 1) : other[t[k]] = t[k + 1]
  <2> TAKE k \in 1..(n - 1)
  <2>1. k \in 1..n /\ k + 1 \in 1..n /\ k + 1 \in 1..(Len(s) - 1)
    BY <1>2
  <2>2. next[s[k + 1]] = s[(k + 1) + 1] /\ other[s[k + 1]] = next[s[k + 1]]
    BY <1>1, <1>2, <1>3, <1>7, <2>1
  <2> QED
    BY <1>3, <2>1, <2>2
<1>9. t[1] = next[s[1]] /\ t[n] = s[Len(s)]
  <2>1. 1 \in 1..n /\ n \in 1..n /\ n + 1 = Len(s) /\ 1 \in 1..(Len(s) - 1)
    BY <1>2
  <2> QED
    BY <1>1, <1>3, <2>1
<1>10. Elements(t) \subseteq Elements(s) \ {s[1]}
  BY <1>2, <1>3, <1>5, <1>7
<1> QED
  <2>1. Segment(other, t)
    BY <1>5, <1>6, <1>8 DEF Segment
  <2> QED
    BY <1>2, <1>5, <1>9, <1>10, <2>1

\* A path without its first entry.
LEMMA PathRest ==
  ASSUME NEW next, NEW p, NEW s, Path(next, p, s), p # NoEntry,
         NEW other, \A x \in Entries : x # p => other[x] = next[x]
  PROVE  /\ p \in Elements(s)
         /\ \E t : Path(other, next[p], t) /\ Elements(t) \subseteq Elements(s) \ {p}
<1>1. /\ s \in Seq(Entries) /\ p = Nth(s, 1)
      /\ \A k, l \in 1..Len(s) : s[k] = s[l] => k = l
      /\ \A k \in 1..Len(s) : next[s[k]] = Nth(s, k + 1)
  BY DEF Path
<1>2. /\ Len(s) \in Nat /\ (\A x : x \in Elements(s) <=> \E k \in 1..Len(s) : x = s[k])
      /\ \A k \in 1..Len(s) : s[k] \in Entries
      /\ \A k : k \notin 1..Len(s) => Nth(s, k) = NoEntry
  BY <1>1, IsList
<1>3. 1 \in 1..Len(s) /\ p = s[1]
  BY <1>1, <1>2, IsList
<1> DEFINE n == Len(s) - 1
           t == [k \in 1..n |-> s[k + 1]]
<1>4. n \in Nat /\ \A k \in 1..n : k + 1 \in 1..Len(s) /\ k + 1 # 1 /\ t[k] = s[k + 1]
  BY <1>2, <1>3
<1>5. t \in [1..n -> Entries]
  BY <1>2, <1>4
<1>6. t \in Seq(Entries) /\ Len(t) = n /\ (\A x : x \in Elements(t) <=> \E k \in 1..n : x = t[k])
  <2> HIDE DEF t, n
  <2> QED
    BY <1>4, <1>5, MadeList
<1> HIDE DEF t
<1>7. \A k, l \in 1..n : t[k] = t[l] => k = l
  <2> TAKE k, l \in 1..n
  <2>1. SUFFICES ASSUME t[k] = t[l] PROVE k = l
    OBVIOUS
  <2>2. k + 1 = l + 1
    BY <1>1, <1>4, <2>1
  <2> QED
    BY <1>2, <2>2
<1>8. \A k \in Nat : Nth(t, k) = IF k \in 1..n THEN s[k + 1] ELSE NoEntry
  BY <1>4, <1>6 DEF Nth
<1>9. \A k \in 1..Len(s) : next[s[k]] = IF k + 1 \in 1..Len(s) THEN s[k + 1] ELSE NoEntry
  BY <1>1 DEF Nth
<1>10. \A k \in 1..n : other[t[k]] = Nth(t, k + 1)
  <2> TAKE k \in 1..n
  <2>1. k + 1 \in 1..Len(s) /\ k + 1 \in Nat /\ (k + 1 \in 1..n <=> (k + 1) + 1 \in 1..Len(s))
    BY <1>2, <1>4
  <2>2. s[k + 1] # p /\ s[k + 1] \in Entries
    BY <1>1, <1>2, <1>3, <1>4
  <2>3. other[s[k + 1]] = next[s[k + 1]] /\ t[k] = s[k + 1]
    BY <1>4, <2>2
  <2> QED
    BY <1>8, <1>9, <2>1, <2>3
<1>11. next[p] = Nth(t, 1)
  <2>1. 1 \in 1..n <=> 1 + 1 \in 1..Len(s)
    BY <1>2, <1>3
  <2> QED
    BY <1>3, <1>8, <1>9, <2>1
<1>12. Elements(t) \subseteq Elements(s) \ {p}
  BY <1>1, <1>2, <1>3, <1>4, <1>6
<1>13. Path(other, next[p], t)
  BY <1>6, <1>7, <1>10, <1>11 DEF Path
<1> QED
  BY <1>2, <1>3, <1>12, <1>13

LEMMA SameSegment ==
  ASSUME NEW next, NEW s, Segment(next, s), NEW other, \A e \in Elements(s) : other[e] = next[e]
  PROVE  Segment(other, s)
<1>1. s \in Seq(Entries)
  BY DEF Segment
<1>2. \A i \in 1..(Len(s) - 1) : i \in 1..Len(s) /\ s[i] \in Elements(s)
  BY <1>1, IsList
<1> QED
  BY <1>2 DEF Segment

\* The first of a set of places.
LEMMA FirstIs ==
  ASSUME NEW n \in Nat, NEW S, S \subseteq 1..n, NEW end
  PROVE  /\ S = {} => FirstIn(S, end) = end
         /\ S # {} => FirstIn(S, end) \in S /\ \A j \in S : FirstIn(S, end) <= j
<1>1. S # {} => \E x \in S : \A y \in S : x <= y
  <2>1. S \subseteq Nat
    OBVIOUS
  <2> QED
    BY <2>1, LeastElement
<1> QED
  BY <1>1 DEF FirstIn

-----------------------------------------------------------------------------
(* The asynchronous callbacks                                                *)

\* The list is given back, or has been.
Over == acMain \in {"freeing", "done"}

\* Who may be where.
PcInv ==
  /\ acPc[CoreCx] \in {"js", "added"}
  /\ acMain \in {"join", "freeing"} => acPc[CoreCx] = "js"
  /\ \A c \in Contexts : acPc[c] \in {"added", "segment"} \cup Walking => acAt[c] \in Entries

\* The addresses of the contexts never go up along the list.
Ordered(cx, s) == \A i, j \in 1..Len(s) : i < j => cx[s[j]] <= cx[s[i]]

\* The list ends, and is of allocated entries in the order of their contexts.
ListIsPath ==
  ~Over => Path(acNext, acHead, Chain) /\ Listed \subseteq acAllocated /\ Ordered(acCx, Chain)

\* The context c answers for the entry e: it will be unlinked at its end.
AnswersFor(c, e) ==
  /\ acPc[c] \notin {"absent", "segment"}
  /\ acCleanup[c] \/ (acPc[c] = "added" /\ acAt[c] = e)

ListHasOwners == ~Over => \A e \in Listed : AnswersFor(acCx[e], e)

\* The entries of s are unlinked and the thread of c will free them.
Owns(c, s) ==
  /\ Elements(s) \subseteq acAllocated
  /\ ~Over => \A x \in Elements(s) : x \notin Listed
  /\ acPc[c] = "free" => acAt[c] \in Elements(s)
  /\ acPc[c] = "segment" =>
       /\ Segment(acNext, s) /\ Len(s) \in Nat \ {0}
       /\ s[1] = acAt[c] /\ s[Len(s)] = acSaved[c]

Owned(own) ==
  /\ own \in [Contexts -> Seq(Entries)]
  /\ \A c, d \in Contexts : c # d => \A x \in Elements(own[c]) : x \notin Elements(own[d])
  /\ \A c \in Contexts : Owns(c, own[c])
  /\ acMain \in {"join", "freeing"} => Path(acNext, acAt[CoreCx], own[CoreCx])

\* An unlinked entry has one thread that will free it.
OwnInv == \E own : Owned(own)

\* What the thread of d has still to visit.
Ahead(d) == IF acPc[d] = "walk" THEN acAt[d] ELSE acSaved[d]

WalkIsSafe(d) ==
  \E s : /\ Path(acNext, Ahead(d), s) /\ Elements(s) \subseteq acAllocated
         /\ acPc[d] \in {"call", "free"} => acAt[d] \in acAllocated /\ acAt[d] \notin Elements(s)

WalkInv ==
  ~Over => \A d \in Contexts : acPc[d] \in Walking /\ d \notin acDisturbed => WalkIsSafe(d)

AsyncInv ==
  /\ AsyncTypeOK /\ PcInv /\ ListIsPath /\ ListHasOwners /\ OwnInv /\ WalkInv
  /\ UndisturbedWalksAreSafe /\ EntriesFreedOnce

-----------------------------------------------------------------------------

\* An access the program does not survive changes nothing else.
LEMMA TrapStops ==
  ASSUME AsyncInv, NEW c \in Contexts, NEW kind \in {"freed", "null", "lock"}, AcTrap(kind, c),
         kind = "freed" => /\ acPc[c] \in {"added", "walk", "call"}
                           /\ acPc[c] \in Walking => c \in acDisturbed \/ Over
  PROVE  AsyncInv'
<1>1. /\ acHead' = acHead /\ acNext' = acNext /\ acCx' = acCx /\ acAllocated' = acAllocated
      /\ acDisturbed' = acDisturbed /\ acPc' = acPc /\ acAt' = acAt /\ acSaved' = acSaved
      /\ acInstalled' = acInstalled /\ acTriggered' = acTriggered /\ acCleanup' = acCleanup
      /\ acTrigger' = acTrigger /\ acMain' = acMain /\ acTrap' = [kind |-> kind, who |-> c]
  BY DEF AcTrap, acList, acHeap, acWalk, acFlags, acThreads
<1>2. AsyncTypeOK'
  BY <1>1 DEF AsyncInv, AsyncTypeOK
<1>3. Chain' = Chain /\ (Over' <=> Over)
  BY <1>1 DEF Chain, Over
<1>4. Listed' = Listed
  BY <1>3 DEF Listed
<1>5. PcInv' /\ ListIsPath' /\ ListHasOwners'
  BY <1>1, <1>3, <1>4 DEF AsyncInv, PcInv, ListIsPath, ListHasOwners, AnswersFor
<1>6. OwnInv'
  <2>1. PICK own : Owned(own)
    BY DEF AsyncInv, OwnInv
  <2>2. Owned(own)'
    BY <1>1, <1>3, <1>4, <2>1 DEF Owned, Owns
  <2> QED
    BY <2>2 DEF OwnInv
<1>7. WalkInv'
  BY <1>1, <1>3 DEF AsyncInv, WalkInv, WalkIsSafe, Ahead
<1>8. UndisturbedWalksAreSafe' /\ EntriesFreedOnce'
  BY <1>1 DEF UndisturbedWalksAreSafe, EntriesFreedOnce, Over
<1> QED
  BY <1>2, <1>5, <1>6, <1>7, <1>8 DEF AsyncInv

\* The other contexts stay where they are.
OthersWait(c) ==
  \A d \in Contexts \ {c} :
    /\ acPc'[d] = acPc[d] /\ acAt'[d] = acAt[d] /\ acSaved'[d] = acSaved[d]
    /\ acCleanup'[d] = acCleanup[d]
    /\ d \in acDisturbed => d \in acDisturbed'

\* Only c takes or gives back entries.
LEMMA OwnersGoOn ==
  ASSUME NEW own, Owned(own), NEW c \in Contexts, NEW new \in Seq(Entries), OthersWait(c),
         Over => Over',
         \A x \in acAllocated :
            \/ x \in Elements(own[c])
            \/ ~Over /\ x \in Listed
            \/ acNext'[x] = acNext[x] /\ x \in acAllocated' /\ (~Over' => x \notin Listed'),
         \A x \in Elements(new) : x \in Elements(own[c]) \/ (~Over /\ x \in Listed),
         Owns(c, new)',
         acMain' \in {"join", "freeing"} =>
           IF c = CoreCx THEN Path(acNext', acAt'[c], new) ELSE acMain \in {"join", "freeing"}
  PROVE  OwnInv'
<1> DEFINE more == [own EXCEPT ![c] = new]
<1>1. /\ own \in [Contexts -> Seq(Entries)]
      /\ \A d, f \in Contexts : d # f => \A x \in Elements(own[d]) : x \notin Elements(own[f])
      /\ \A d \in Contexts : Owns(d, own[d])
      /\ acMain \in {"join", "freeing"} => Path(acNext, acAt[CoreCx], own[CoreCx])
  BY DEF Owned
<1>2. /\ more \in [Contexts -> Seq(Entries)] /\ more[c] = new
      /\ \A d \in Contexts \ {c} : more[d] = own[d]
  BY <1>1
<1> HIDE DEF more
<1>3. ASSUME NEW d \in Contexts \ {c}, NEW x \in Elements(own[d])
      PROVE  /\ acNext'[x] = acNext[x] /\ x \in acAllocated' /\ (~Over' => x \notin Listed')
             /\ x \notin Elements(new)
  <2>1. x \in acAllocated /\ (~Over => x \notin Listed)
    BY <1>1 DEF Owns
  <2>2. x \notin Elements(own[c])
    BY <1>1
  <2> QED
    BY <2>1, <2>2
<1>4. \A d, f \in Contexts : d # f => \A x \in Elements(more[d]) : x \notin Elements(more[f])
  BY <1>1, <1>2, <1>3
<1>5. ASSUME NEW d \in Contexts PROVE Owns(d, more[d])'
  <2>1. CASE d = c
    BY <1>2, <2>1
  <2>2. CASE d # c
    <3> DEFINE s == own[d]
    <3>1. /\ s \in Seq(Entries) /\ more[d] = s
          /\ acPc[d] = "free" => acAt[d] \in Elements(s)
          /\ acPc[d] = "segment" =>
               Segment(acNext, s) /\ Len(s) \in Nat \ {0} /\ s[1] = acAt[d] /\ s[Len(s)] = acSaved[d]
      BY <1>1, <1>2, <2>2 DEF Owns
    <3>2. \A x \in Elements(s) : acNext'[x] = acNext[x] /\ x \in acAllocated' /\ (~Over' => x \notin Listed')
      BY <1>3, <2>2
    <3>3. acPc'[d] = acPc[d] /\ acAt'[d] = acAt[d] /\ acSaved'[d] = acSaved[d]
      BY <2>2 DEF OthersWait
    <3> HIDE DEF s
    <3>4. Segment(acNext, s) => Segment(acNext', s)
      BY <3>2, SameSegment
    <3>5. Owns(d, s)'
      BY <3>1, <3>2, <3>3, <3>4 DEF Owns
    <3> QED
      BY <3>1, <3>5
  <2> QED
    BY <2>1, <2>2
<1>6. (acMain \in {"join", "freeing"})' => Path(acNext', acAt'[CoreCx], more[CoreCx])
  <2>1. CASE c = CoreCx
    BY <1>2, <2>1
  <2>2. CASE c # CoreCx
    <3>1. SUFFICES ASSUME acMain' \in {"join", "freeing"} PROVE Path(acNext', acAt'[CoreCx], more[CoreCx])
      OBVIOUS
    <3>2. CoreCx \in Contexts \ {c}
      BY <2>2, AsyncAssumption
    <3>3. Path(acNext, acAt[CoreCx], own[CoreCx]) /\ more[CoreCx] = own[CoreCx] /\ acAt'[CoreCx] = acAt[CoreCx]
      BY <1>1, <1>2, <2>2, <3>1, <3>2 DEF OthersWait
    <3>4. \A x \in Elements(own[CoreCx]) : acNext'[x] = acNext[x]
      BY <1>3, <3>2
    <3>5. Path(acNext', acAt[CoreCx], own[CoreCx])
      BY <3>3, <3>4, SamePath
    <3> QED
      BY <3>3, <3>5
  <2> QED
    BY <2>1, <2>2
<1>7. Owned(more)'
  BY <1>2, <1>4, <1>5, <1>6 DEF Owned
<1> QED
  BY <1>7 DEF OwnInv

\* Where the links of the others' walks lead, they lead again.
LEMMA WalkersGoOn ==
  ASSUME WalkInv, NEW c \in Contexts, OthersWait(c), Over => Over',
         acAllocated \subseteq acAllocated',
         ~Over => \A p, s : Path(acNext, p, s) /\ Elements(s) \subseteq acAllocated =>
           \E t : /\ Path(acNext', p, t) /\ Elements(t) \subseteq acAllocated'
                  /\ \A x \in Elements(t) : x \in acAllocated => x \in Elements(s),
         ~Over' /\ acPc'[c] \in Walking /\ c \notin acDisturbed' => WalkIsSafe(c)'
  PROVE  WalkInv'
<1>1. ASSUME NEW d \in Contexts, ~Over', acPc'[d] \in Walking, d \notin acDisturbed'
      PROVE  WalkIsSafe(d)'
  <2>1. CASE d = c
    BY <1>1, <2>1
  <2>2. CASE d # c
    <3>1. /\ acPc'[d] = acPc[d] /\ acAt'[d] = acAt[d] /\ acSaved'[d] = acSaved[d]
          /\ d \notin acDisturbed /\ ~Over
      BY <1>1, <2>2 DEF OthersWait
    <3>2. PICK s : /\ Path(acNext, Ahead(d), s) /\ Elements(s) \subseteq acAllocated
                   /\ acPc[d] \in {"call", "free"} => acAt[d] \in acAllocated /\ acAt[d] \notin Elements(s)
      BY <1>1, <3>1 DEF WalkInv, WalkIsSafe
    <3>3. PICK t : /\ Path(acNext', Ahead(d), t) /\ Elements(t) \subseteq acAllocated'
                   /\ \A x \in Elements(t) : x \in acAllocated => x \in Elements(s)
      BY <3>1, <3>2
    <3>4. Ahead(d)' = Ahead(d)
      BY <3>1 DEF Ahead
    <3>5. Path(acNext', Ahead(d)', t)
      BY <3>3, <3>4
    <3>6. acPc'[d] \in {"call", "free"} => acAt'[d] \in acAllocated' /\ acAt'[d] \notin Elements(t)
      BY <3>1, <3>2, <3>3
    <3> QED
      BY <3>3, <3>5, <3>6 DEF WalkIsSafe
  <2> QED
    BY <2>1, <2>2
<1> QED
  BY <1>1 DEF WalkInv

\* As long as nothing traps, nothing has.
LEMMA NoTrapHolds ==
  ASSUME acTrap' = NoTrapYet
  PROVE  UndisturbedWalksAreSafe' /\ EntriesFreedOnce'
BY DEF UndisturbedWalksAreSafe, EntriesFreedOnce, NoTrapYet

\* A step that leaves the list and the heap as they are.
LEMMA ListStays ==
  ASSUME AsyncInv, NEW c \in Contexts, OthersWait(c),
         acNext' = acNext, acCx' = acCx, acAllocated' = acAllocated,
         Over => Over', ~Over' => acHead' = acHead,
         acPc'[c] \in {"free", "segment"} =>
           acPc'[c] = acPc[c] /\ acAt'[c] = acAt[c] /\ acSaved'[c] = acSaved[c],
         acMain' \in {"join", "freeing"} => acMain \in {"join", "freeing"} /\ acAt'[CoreCx] = acAt[CoreCx],
         ~Over' => \A e \in Listed : acCx[e] = c => AnswersFor(c, e)',
         ~Over' /\ acPc'[c] \in Walking /\ c \notin acDisturbed' => WalkIsSafe(c)'
  PROVE  ListIsPath' /\ ListHasOwners' /\ OwnInv' /\ WalkInv'
<1>1. ~Over' => Chain' = Chain /\ Listed' = Listed
  BY DEF Chain, Listed
<1>2. ListIsPath'
  BY <1>1 DEF AsyncInv, ListIsPath
<1>3. ListHasOwners'
  <2>1. ASSUME NEW e \in Listed', ~Over' PROVE AnswersFor(acCx[e], e)'
    <3>1. e \in Listed /\ AnswersFor(acCx[e], e) /\ acCx' = acCx
      BY <1>1, <2>1 DEF AsyncInv, ListHasOwners
    <3>2. CASE acCx[e] = c
      BY <2>1, <3>1, <3>2
    <3>3. CASE acCx[e] # c
      <4>1. e \in Entries
        BY <2>1, <3>1 DEF AsyncInv, AsyncTypeOK, ListIsPath
      <4>2. acCx[e] \in Contexts \ {c}
        BY <3>3, <4>1 DEF AsyncInv, AsyncTypeOK
      <4> QED
        BY <3>1, <4>2 DEF AnswersFor, OthersWait
    <3> QED
      BY <3>2, <3>3
  <2> QED
    BY <2>1 DEF ListHasOwners
<1>4. OwnInv'
  <2>1. PICK own : Owned(own)
    BY DEF AsyncInv, OwnInv
  <2>2. own[c] \in Seq(Entries) /\ Owns(c, own[c])
        /\ (acMain \in {"join", "freeing"} => Path(acNext, acAt[CoreCx], own[CoreCx]))
    BY <2>1 DEF Owned
  <2>3. Owns(c, own[c])'
    BY <1>1, <2>2 DEF Owns
  <2>4. acMain' \in {"join", "freeing"} =>
          IF c = CoreCx THEN Path(acNext', acAt'[c], own[c]) ELSE acMain \in {"join", "freeing"}
    BY <2>2
  <2>5. \A x \in acAllocated :
          \/ ~Over /\ x \in Listed
          \/ acNext'[x] = acNext[x] /\ x \in acAllocated' /\ (~Over' => x \notin Listed')
    BY <1>1
  <2> QED
    BY <2>1, <2>2, <2>3, <2>4, <2>5, OwnersGoOn
<1>5. WalkInv'
  BY WalkersGoOn DEF AsyncInv
<1> QED
  BY <1>2, <1>3, <1>4, <1>5

-----------------------------------------------------------------------------

\* What the list is as long as nobody has taken it.
LEMMA TheList ==
  ASSUME AsyncInv, ~Over
  PROVE  /\ Path(acNext, acHead, Chain) /\ Chain \in Seq(Entries) /\ Len(Chain) \in Nat
         /\ DOMAIN Chain = 1..Len(Chain)
         /\ \A i \in 1..Len(Chain) :
              /\ Chain[i] \in Entries /\ Chain[i] # NoEntry /\ Chain[i] \in Listed
              /\ Chain[i] \in acAllocated /\ acCx[Chain[i]] \in Contexts /\ acCx[Chain[i]] \in Nat
              /\ Nth(Chain, i) = Chain[i] /\ acNext[Chain[i]] = Nth(Chain, i + 1) /\ EntryAt(i) = Chain[i]
         /\ \A i, j \in 1..Len(Chain) : Chain[i] = Chain[j] => i = j
         /\ \A i, j \in 1..Len(Chain) : i < j => acCx[Chain[j]] <= acCx[Chain[i]]
         /\ \A i : i \notin 1..Len(Chain) => Nth(Chain, i) = NoEntry /\ EntryAt(i) = NoEntry
         /\ \A x : x \in Listed <=> \E i \in 1..Len(Chain) : x = Chain[i]
         /\ Listed = Elements(Chain) /\ Listed \subseteq acAllocated /\ Listed \subseteq Entries
         /\ acHead = Nth(Chain, 1)
<1>1. /\ Path(acNext, acHead, Chain) /\ Listed \subseteq acAllocated /\ Ordered(acCx, Chain)
      /\ acCx \in [Entries -> Contexts] /\ acAllocated \subseteq Entries
  BY DEF AsyncInv, ListIsPath, AsyncTypeOK
<1>2. /\ Chain \in Seq(Entries) /\ acHead = Nth(Chain, 1)
      /\ \A i, j \in 1..Len(Chain) : Chain[i] = Chain[j] => i = j
      /\ \A i \in 1..Len(Chain) : acNext[Chain[i]] = Nth(Chain, i + 1)
  BY <1>1 DEF Path
<1>3. /\ Len(Chain) \in Nat /\ DOMAIN Chain = 1..Len(Chain)
      /\ \A i \in 1..Len(Chain) : Chain[i] \in Entries /\ Chain[i] # NoEntry /\ Nth(Chain, i) = Chain[i]
      /\ \A i : i \notin 1..Len(Chain) => Nth(Chain, i) = NoEntry
      /\ \A x : x \in Elements(Chain) <=> \E i \in 1..Len(Chain) : x = Chain[i]
  BY <1>2, IsList
<1>4. Listed = Elements(Chain)
  BY DEF Listed, Elements
<1>5. \A i : EntryAt(i) = Nth(Chain, i)
  BY <1>3 DEF EntryAt, Nth
<1>6. \A i \in 1..Len(Chain) : acCx[Chain[i]] \in Contexts /\ acCx[Chain[i]] \in Nat
  BY <1>1, <1>3, AsyncAssumption
<1>7. \A i \in 1..Len(Chain) : Chain[i] \in Listed
  BY <1>3, <1>4
<1>8. \A i, j \in 1..Len(Chain) : i < j => acCx[Chain[j]] <= acCx[Chain[i]]
  BY <1>1 DEF Ordered
<1> QED
  BY <1>1, <1>2, <1>3, <1>4, <1>5, <1>6, <1>7, <1>8

\* A context that is created has no entry yet.
LEMMA CreateCxKeeps ==
  ASSUME AsyncInv, acTrap = NoTrapYet, NEW c \in Contexts \ {CoreCx}, CreateCx(c)
  PROVE  AsyncInv'
<1>1. /\ acPc[c] = "absent" /\ acMain = "run" /\ acPc[CoreCx] = "js"
      /\ acPc' = [acPc EXCEPT ![c] = "js"]
      /\ acAt' = [acAt EXCEPT ![c] = NoEntry] /\ acSaved' = [acSaved EXCEPT ![c] = NoEntry]
      /\ acInstalled' = [acInstalled EXCEPT ![c] = TRUE]
      /\ acHead' = acHead /\ acNext' = acNext /\ acCx' = acCx /\ acAllocated' = acAllocated
      /\ acDisturbed' = acDisturbed /\ acTriggered' = acTriggered /\ acCleanup' = acCleanup
      /\ acTrigger' = acTrigger /\ acMain' = acMain /\ acTrap' = NoTrapYet
  BY DEF CreateCx, AcGoto, acList, acHeap, acThreads
<1>2. AsyncTypeOK /\ PcInv /\ ListHasOwners
  BY DEF AsyncInv
<1>3. AsyncTypeOK'
  BY <1>1, <1>2 DEF AsyncTypeOK, NoTrapYet
<1>4. PcInv'
  BY <1>1, <1>2 DEF PcInv, AsyncTypeOK, Walking
<1>5. OthersWait(c) /\ acPc'[c] = "js" /\ (Over' <=> Over)
  BY <1>1, <1>2 DEF OthersWait, AsyncTypeOK, Over
<1>6. ~Over' => \A e \in Listed : acCx[e] = c => AnswersFor(c, e)'
  BY <1>1, <1>2, <1>5 DEF ListHasOwners, AnswersFor
<1>7. ListIsPath' /\ ListHasOwners' /\ OwnInv' /\ WalkInv'
  BY <1>1, <1>5, <1>6, ListStays DEF Walking
<1> QED
  BY <1>1, <1>3, <1>4, <1>7, NoTrapHolds DEF AsyncInv

\* An entry whose context registers no clean-up has one of the same context behind it.
LEMMA AddTestKeeps ==
  ASSUME AsyncInv, acTrap = NoTrapYet, NEW c \in Contexts, AddTest(c)
  PROVE  AsyncInv'
<1> DEFINE e == acAt[c]
           n == acNext[e]
<1>1. /\ acPc[c] = "added"
      /\ \/ ReadsFreed(c, e)
         \/ ReadsFreed(c, n)
         \/ /\ e \in acAllocated /\ n \in acAllocated \cup {NoEntry}
            /\ acCleanup' = [acCleanup EXCEPT ![c] = @ \/ n = NoEntry \/ acCx[n] # c]
            /\ AcGoto(c, "js", NoEntry, NoEntry)
            /\ UNCHANGED <<acList, acHeap, acInstalled, acTriggered, acThreads, acTrap>>
  BY DEF AddTest
<1>2. ASSUME NEW x, ReadsFreed(c, x) PROVE AsyncInv'
  <2>1. AcTrap("freed", c)
    BY <1>2 DEF ReadsFreed
  <2> QED
    BY <1>1, <2>1, TrapStops DEF Walking
<1>3. CASE /\ e \in acAllocated /\ n \in acAllocated \cup {NoEntry}
           /\ acCleanup' = [acCleanup EXCEPT ![c] = @ \/ n = NoEntry \/ acCx[n] # c]
           /\ AcGoto(c, "js", NoEntry, NoEntry)
           /\ UNCHANGED <<acList, acHeap, acInstalled, acTriggered, acThreads, acTrap>>
  <2>1. /\ acPc' = [acPc EXCEPT ![c] = "js"]
        /\ acAt' = [acAt EXCEPT ![c] = NoEntry] /\ acSaved' = [acSaved EXCEPT ![c] = NoEntry]
        /\ acCleanup' = [acCleanup EXCEPT ![c] = @ \/ n = NoEntry \/ acCx[n] # c]
        /\ acInstalled' = acInstalled
        /\ acHead' = acHead /\ acNext' = acNext /\ acCx' = acCx /\ acAllocated' = acAllocated
        /\ acDisturbed' = acDisturbed /\ acTriggered' = acTriggered
        /\ acTrigger' = acTrigger /\ acMain' = acMain /\ acTrap' = NoTrapYet
    BY <1>3 DEF AcGoto, acList, acHeap, acThreads
  <2>2. AsyncTypeOK /\ PcInv /\ ListHasOwners
    BY DEF AsyncInv
  <2>3. AsyncTypeOK'
    <3>1. (acCleanup[c] \/ n = NoEntry \/ acCx[n] # c) \in BOOLEAN
      OBVIOUS
    <3>2. acCleanup' \in [Contexts -> BOOLEAN]
      BY <2>1, <2>2 DEF AsyncTypeOK
    <3> QED
      BY <2>1, <2>2, <3>2 DEF AsyncTypeOK, NoTrapYet
  <2>4. PcInv'
    BY <1>1, <2>1, <2>2 DEF PcInv, AsyncTypeOK, Walking
  <2>5. OthersWait(c) /\ acPc'[c] = "js" /\ (Over' <=> Over)
    BY <2>1, <2>2 DEF OthersWait, AsyncTypeOK, Over
  <2>6. acMain' \in {"join", "freeing"} => acMain \in {"join", "freeing"} /\ acAt'[CoreCx] = acAt[CoreCx]
    <3>1. acMain \in {"join", "freeing"} => c # CoreCx
      BY <1>1, <2>2 DEF PcInv
    <3> QED
      BY <2>1, <2>2, <3>1, AsyncAssumption DEF AsyncTypeOK
  <2>7. ASSUME ~Over, NEW f \in Listed, acCx[f] = c PROVE acCleanup'[c]
    <3>1. acCleanup'[c] <=> (acCleanup[c] \/ n = NoEntry \/ acCx[n] # c)
      BY <2>1, <2>2 DEF AsyncTypeOK
    <3>2. SUFFICES ASSUME ~acCleanup[c], n # NoEntry, acCx[n] = c PROVE FALSE
      BY <3>1
    <3>3. e = f
      BY <1>1, <2>2, <2>7, <3>2 DEF ListHasOwners, AnswersFor
    <3>4. PICK i \in 1..Len(Chain) : e = Chain[i]
      BY <2>7, <3>3, TheList
    <3>5. n = Nth(Chain, i + 1)
      BY <2>7, <3>4, TheList
    <3>6. i + 1 \in 1..Len(Chain) /\ n = Chain[i + 1] /\ n \in Listed
      BY <2>7, <3>2, <3>5, TheList
    <3>7. n = e
      BY <1>1, <2>2, <2>7, <3>2, <3>6 DEF ListHasOwners, AnswersFor
    <3>8. i + 1 = i
      BY <2>7, <3>4, <3>6, <3>7, TheList
    <3> QED
      BY <3>8
  <2>8. ~Over' => \A f \in Listed : acCx[f] = c => AnswersFor(c, f)'
    BY <2>5, <2>7 DEF AnswersFor
  <2>9. ListIsPath' /\ ListHasOwners' /\ OwnInv' /\ WalkInv'
    BY <2>1, <2>5, <2>6, <2>8, ListStays DEF Walking
  <2> QED
    BY <2>1, <2>3, <2>4, <2>9, NoTrapHolds DEF AsyncInv
<1> QED
  BY <1>1, <1>2, <1>3

\* A walk begins at the head of the list.
LEMMA StartWalkKeeps ==
  ASSUME AsyncInv, acTrap = NoTrapYet, NEW c \in Contexts \ {CoreCx}, StartWalk(c)
  PROVE  AsyncInv'
<1> DEFINE pc == IF acHead = NoEntry THEN "js" ELSE "walk"
<1>1. /\ acPc[c] = "js"
      /\ acPc' = [acPc EXCEPT ![c] = pc]
      /\ acAt' = [acAt EXCEPT ![c] = acHead] /\ acSaved' = [acSaved EXCEPT ![c] = NoEntry]
      /\ acInstalled' = [acInstalled EXCEPT ![c] = FALSE]
      /\ acTriggered' = [acTriggered EXCEPT ![c] = FALSE]
      /\ acHead' = acHead /\ acNext' = acNext /\ acCx' = acCx /\ acAllocated' = acAllocated
      /\ acDisturbed' = acDisturbed /\ acCleanup' = acCleanup
      /\ acTrigger' = acTrigger /\ acMain' = acMain /\ acTrap' = NoTrapYet
  BY DEF StartWalk, Idle, AcGoto, acList, acHeap, acThreads
<1>2. AsyncTypeOK /\ PcInv /\ ListHasOwners
  BY DEF AsyncInv
<1>3. AsyncTypeOK'
  BY <1>1, <1>2 DEF AsyncTypeOK, NoTrapYet
<1>4. PcInv'
  BY <1>1, <1>2 DEF PcInv, AsyncTypeOK, Walking
<1>5. OthersWait(c) /\ acPc'[c] = pc /\ acAt'[c] = acHead /\ (Over' <=> Over)
      /\ acAt'[CoreCx] = acAt[CoreCx]
  BY <1>1, <1>2, AsyncAssumption DEF OthersWait, AsyncTypeOK, Over
<1>6. ~Over' => \A e \in Listed : acCx[e] = c => AnswersFor(c, e)'
  BY <1>1, <1>2, <1>5 DEF ListHasOwners, AnswersFor
<1>7. ~Over' /\ acPc'[c] \in Walking => WalkIsSafe(c)'
  <2>1. SUFFICES ASSUME ~Over, pc = "walk" PROVE WalkIsSafe(c)'
    BY <1>5 DEF Walking
  <2>2. Path(acNext, acHead, Chain) /\ Elements(Chain) \subseteq acAllocated
    BY <2>1, TheList
  <2>3. Path(acNext', Ahead(c)', Chain) /\ Elements(Chain) \subseteq acAllocated'
    BY <1>1, <1>5, <2>1, <2>2 DEF Ahead
  <2> QED
    BY <1>5, <2>1, <2>3 DEF WalkIsSafe
<1>8. ListIsPath' /\ ListHasOwners' /\ OwnInv' /\ WalkInv'
  BY <1>1, <1>5, <1>6, <1>7, ListStays
<1> QED
  BY <1>1, <1>3, <1>4, <1>8, NoTrapHolds DEF AsyncInv

\* A walk that no other thread has disturbed is at an allocated entry.
LEMMA SaveNextKeeps ==
  ASSUME AsyncInv, acTrap = NoTrapYet, NEW c \in Contexts, SaveNext(c)
  PROVE  AsyncInv'
<1> DEFINE e == acAt[c]
<1>1. AsyncTypeOK /\ PcInv /\ ListHasOwners /\ WalkInv /\ acPc[c] = "walk" /\ e \in Entries /\ c # CoreCx
  BY DEF AsyncInv, SaveNext, PcInv, Walking
<1>2. ASSUME c \notin acDisturbed, ~Over
      PROVE  /\ e \in acAllocated
             /\ \E t : /\ Path(acNext, acNext[e], t) /\ Elements(t) \subseteq acAllocated
                       /\ e \notin Elements(t)
  <2>1. PICK s : Path(acNext, e, s) /\ Elements(s) \subseteq acAllocated
    BY <1>1, <1>2 DEF WalkInv, WalkIsSafe, Ahead, Walking
  <2>2. e # NoEntry
    BY <1>1, AsyncAssumption
  <2>3. /\ e \in Elements(s)
        /\ \E t : Path(acNext, acNext[e], t) /\ Elements(t) \subseteq Elements(s) \ {e}
    <3> HIDE DEF e
    <3> QED
      BY <2>1, <2>2, PathRest
  <2> QED
    BY <2>1, <2>3
<1>3. CASE ReadsFreed(c, e)
  <2>1. AcTrap("freed", c) /\ e \notin acAllocated
    BY <1>3 DEF ReadsFreed
  <2> QED
    BY <1>1, <1>2, <2>1, TrapStops
<1>4. CASE /\ e \in acAllocated
           /\ AcGoto(c, "call", e, acNext[e])
           /\ UNCHANGED <<acList, acHeap, acFlags, acThreads, acTrap>>
  <2>1. /\ acPc' = [acPc EXCEPT ![c] = "call"]
        /\ acAt' = [acAt EXCEPT ![c] = e] /\ acSaved' = [acSaved EXCEPT ![c] = acNext[e]]
        /\ acInstalled' = acInstalled /\ acTriggered' = acTriggered /\ acCleanup' = acCleanup
        /\ acHead' = acHead /\ acNext' = acNext /\ acCx' = acCx /\ acAllocated' = acAllocated
        /\ acDisturbed' = acDisturbed
        /\ acTrigger' = acTrigger /\ acMain' = acMain /\ acTrap' = NoTrapYet
    BY <1>4 DEF AcGoto, acList, acHeap, acFlags, acThreads
  <2>2. AsyncTypeOK'
    BY <1>1, <2>1 DEF AsyncTypeOK, NoTrapYet
  <2>3. PcInv'
    BY <1>1, <2>1 DEF PcInv, AsyncTypeOK, Walking
  <2>4. OthersWait(c) /\ acPc'[c] = "call" /\ acAt'[c] = e /\ acSaved'[c] = acNext[e]
        /\ (Over' <=> Over) /\ acAt'[CoreCx] = acAt[CoreCx]
    BY <1>1, <2>1, AsyncAssumption DEF OthersWait, AsyncTypeOK, Over
  <2>5. ~Over' => \A f \in Listed : acCx[f] = c => AnswersFor(c, f)'
    BY <1>1, <2>1, <2>4 DEF ListHasOwners, AnswersFor
  <2>6. ~Over' /\ c \notin acDisturbed' => WalkIsSafe(c)'
    <3>1. SUFFICES ASSUME ~Over, c \notin acDisturbed PROVE WalkIsSafe(c)'
      BY <2>1, <2>4
    <3>2. PICK t : Path(acNext, acNext[e], t) /\ Elements(t) \subseteq acAllocated /\ e \notin Elements(t)
      BY <1>2, <3>1
    <3>3. Path(acNext', Ahead(c)', t)
      BY <2>1, <2>4, <3>2 DEF Ahead
    <3> QED
      BY <1>4, <2>1, <2>4, <3>2, <3>3 DEF WalkIsSafe
  <2>7. ListIsPath' /\ ListHasOwners' /\ OwnInv' /\ WalkInv'
    BY <2>1, <2>4, <2>5, <2>6, ListStays
  <2> QED
    BY <2>1, <2>2, <2>3, <2>7, NoTrapHolds DEF AsyncInv
<1> QED
  BY <1>3, <1>4 DEF SaveNext

\* The walk goes on to the saved entry.
LEMMA AdvanceKeeps ==
  ASSUME AsyncInv, acTrap = NoTrapYet, NEW c \in Contexts, acPc[c] \in {"call", "returned"}, Advance(c)
  PROVE  AsyncInv'
<1> DEFINE last == acSaved[c] = NoEntry
           pc == IF last THEN "js" ELSE "walk"
<1>1. /\ acPc' = [acPc EXCEPT ![c] = pc]
      /\ acAt' = [acAt EXCEPT ![c] = acSaved[c]] /\ acSaved' = [acSaved EXCEPT ![c] = NoEntry]
      /\ acInstalled' = [acInstalled EXCEPT ![c] = @ \/ last]
      /\ acDisturbed' = IF last THEN acDisturbed \ {c} ELSE acDisturbed
      /\ acHead' = acHead /\ acNext' = acNext /\ acCx' = acCx /\ acAllocated' = acAllocated
      /\ acTriggered' = acTriggered /\ acCleanup' = acCleanup
      /\ acTrigger' = acTrigger /\ acMain' = acMain /\ acTrap' = NoTrapYet
  BY DEF Advance, AcGoto, acList, acThreads
<1>2. AsyncTypeOK /\ PcInv /\ ListHasOwners /\ WalkInv /\ c # CoreCx
  BY DEF AsyncInv, PcInv
<1>3. AsyncTypeOK'
  <2>1. acInstalled' \in [Contexts -> BOOLEAN]
    BY <1>1, <1>2 DEF AsyncTypeOK
  <2>2. /\ acPc' \in [Contexts -> {"absent", "js", "added", "walk", "call", "free", "returned", "segment"}]
        /\ acAt' \in [Contexts -> Entries \cup {NoEntry}] /\ acSaved' \in [Contexts -> Entries \cup {NoEntry}]
        /\ acDisturbed' \subseteq Contexts
    BY <1>1, <1>2 DEF AsyncTypeOK
  <2> QED
    BY <1>1, <1>2, <2>1, <2>2 DEF AsyncTypeOK, NoTrapYet
<1>4. PcInv'
  BY <1>1, <1>2 DEF PcInv, AsyncTypeOK, Walking
<1>5. OthersWait(c) /\ acPc'[c] = pc /\ acAt'[c] = acSaved[c] /\ (Over' <=> Over)
      /\ acAt'[CoreCx] = acAt[CoreCx]
  BY <1>1, <1>2, AsyncAssumption DEF OthersWait, AsyncTypeOK, Over
<1>6. ~Over' => \A e \in Listed : acCx[e] = c => AnswersFor(c, e)'
  BY <1>1, <1>2, <1>5 DEF ListHasOwners, AnswersFor
<1>7. ~Over' /\ acPc'[c] \in Walking /\ c \notin acDisturbed' => WalkIsSafe(c)'
  <2>1. SUFFICES ASSUME ~Over, ~last, c \notin acDisturbed PROVE WalkIsSafe(c)'
    BY <1>1, <1>5 DEF Walking
  <2>2. PICK s : Path(acNext, acSaved[c], s) /\ Elements(s) \subseteq acAllocated
    BY <1>2, <2>1 DEF WalkInv, WalkIsSafe, Ahead, Walking
  <2>3. Path(acNext', Ahead(c)', s) /\ Elements(s) \subseteq acAllocated'
    BY <1>1, <1>5, <2>1, <2>2 DEF Ahead
  <2> QED
    BY <1>5, <2>1, <2>3 DEF WalkIsSafe
<1>8. ListIsPath' /\ ListHasOwners' /\ OwnInv' /\ WalkInv'
  BY <1>1, <1>5, <1>6, <1>7, ListStays
<1> QED
  BY <1>1, <1>3, <1>4, <1>8, NoTrapHolds DEF AsyncInv

\* The callback of a walk that no other thread has disturbed is allocated.
LEMMA CallKeeps ==
  ASSUME AsyncInv, acTrap = NoTrapYet, NEW c \in Contexts, Call(c)
  PROVE  AsyncInv'
<1>1. acPc[c] = "call" /\ WalkInv
  BY DEF Call, AsyncInv
<1>2. CASE ReadsFreed(c, acAt[c])
  <2>1. AcTrap("freed", c) /\ acAt[c] \notin acAllocated
    BY <1>2 DEF ReadsFreed
  <2>2. c \in acDisturbed \/ Over
    BY <1>1, <2>1 DEF WalkInv, WalkIsSafe, Walking
  <2> QED
    BY <1>1, <2>1, <2>2, TrapStops
<1>3. CASE Advance(c)
  BY <1>1, <1>3, AdvanceKeeps
<1> QED
  BY <1>2, <1>3 DEF Call

LEMMA CallRefusesKeeps ==
  ASSUME AsyncInv, acTrap = NoTrapYet, NEW c \in Contexts, CallRefuses(c)
  PROVE  AsyncInv'
<1>1. /\ acPc[c] = "call"
      /\ acPc' = [acPc EXCEPT ![c] = "js"]
      /\ acAt' = [acAt EXCEPT ![c] = NoEntry] /\ acSaved' = [acSaved EXCEPT ![c] = NoEntry]
      /\ acDisturbed' = acDisturbed \ {c}
      /\ acHead' = acHead /\ acNext' = acNext /\ acCx' = acCx /\ acAllocated' = acAllocated
      /\ acInstalled' = acInstalled /\ acTriggered' = acTriggered /\ acCleanup' = acCleanup
      /\ acTrigger' = acTrigger /\ acMain' = acMain /\ acTrap' = NoTrapYet
  BY DEF CallRefuses, CallsOther, AcGoto, acList, acThreads
<1>2. AsyncTypeOK /\ PcInv /\ ListHasOwners /\ c # CoreCx
  BY <1>1 DEF AsyncInv, PcInv
<1>3. AsyncTypeOK'
  BY <1>1, <1>2 DEF AsyncTypeOK, NoTrapYet
<1>4. PcInv'
  BY <1>1, <1>2 DEF PcInv, AsyncTypeOK, Walking
<1>5. OthersWait(c) /\ acPc'[c] = "js" /\ (Over' <=> Over) /\ acAt'[CoreCx] = acAt[CoreCx]
  BY <1>1, <1>2, AsyncAssumption DEF OthersWait, AsyncTypeOK, Over
<1>6. ~Over' => \A e \in Listed : acCx[e] = c => AnswersFor(c, e)'
  BY <1>1, <1>2, <1>5 DEF ListHasOwners, AnswersFor
<1>7. ListIsPath' /\ ListHasOwners' /\ OwnInv' /\ WalkInv'
  BY <1>1, <1>5, <1>6, ListStays DEF Walking
<1> QED
  BY <1>1, <1>3, <1>4, <1>7, NoTrapHolds DEF AsyncInv

\* What the trigger thread does is seen in acTriggered and acTrigger alone.
LEMMA TriggerKeeps ==
  ASSUME AsyncInv, acTrap = NoTrapYet, TriggerPass \/ TriggerTest
  PROVE  AsyncInv'
<1>1. /\ acHead' = acHead /\ acNext' = acNext /\ acCx' = acCx /\ acAllocated' = acAllocated
      /\ acDisturbed' = acDisturbed /\ acPc' = acPc /\ acAt' = acAt /\ acSaved' = acSaved
      /\ acInstalled' = acInstalled /\ acCleanup' = acCleanup
      /\ acMain' = acMain /\ acTrap' = NoTrapYet
      /\ acTrigger' \in {"pass", "test", "exited"}
      /\ \/ acTriggered' = acTriggered
         \/ acTriggered' = [c \in Contexts |-> acTriggered[c] \/ \E e \in Listed : acCx[e] = c]
  BY DEF TriggerPass, TriggerTest, acList, acHeap, acWalk, acFlags
<1>2. AsyncTypeOK /\ PcInv /\ ListHasOwners /\ WalkInv /\ CoreCx \in Contexts
  BY AsyncAssumption DEF AsyncInv
<1>3. AsyncTypeOK'
  <2>1. acTriggered' \in [Contexts -> BOOLEAN]
    BY <1>1, <1>2 DEF AsyncTypeOK
  <2> QED
    BY <1>1, <1>2, <2>1 DEF AsyncTypeOK, NoTrapYet
<1>4. PcInv'
  BY <1>1, <1>2 DEF PcInv
<1>5. OthersWait(CoreCx) /\ (Over' <=> Over)
  BY <1>1 DEF OthersWait, Over
<1>6. ~Over' => \A e \in Listed : acCx[e] = CoreCx => AnswersFor(CoreCx, e)'
  BY <1>1, <1>2, <1>5 DEF ListHasOwners, AnswersFor
<1>7. acPc'[CoreCx] \notin Walking \cup {"segment", "free"}
  BY <1>1, <1>2 DEF PcInv, Walking
<1>8. ListIsPath' /\ ListHasOwners' /\ OwnInv' /\ WalkInv'
  BY <1>1, <1>2, <1>5, <1>6, <1>7, ListStays
<1> QED
  BY <1>1, <1>3, <1>4, <1>8, NoTrapHolds DEF AsyncInv

\* The thread of the core context begins the list, and takes it back.
LEMMA SpawnAndJoinKeep ==
  ASSUME AsyncInv, acTrap = NoTrapYet,
         SpawnTrigger \/ JoinTrigger \/ (acAt[CoreCx] = NoEntry /\ FreeAll)
  PROVE  AsyncInv'
<1>1. /\ acNext' = acNext /\ acCx' = acCx /\ acAllocated' = acAllocated
      /\ acDisturbed' = acDisturbed /\ acPc' = acPc /\ acAt' = acAt /\ acSaved' = acSaved
      /\ acInstalled' = acInstalled /\ acTriggered' = acTriggered /\ acCleanup' = acCleanup
      /\ acTrap' = NoTrapYet /\ acTrigger' \in {acTrigger, "pass"}
      /\ \/ acMain = "create" /\ acMain' = "first" /\ acHead' = acHead
         \/ acMain = "join" /\ acMain' = "freeing" /\ acHead' = acAt[CoreCx]
         \/ acMain = "freeing" /\ acMain' = "done" /\ acHead' = NoEntry
  <2>1. CASE SpawnTrigger
    BY <2>1 DEF SpawnTrigger, acList, acHeap, acWalk, acFlags
  <2>2. CASE JoinTrigger
    BY <2>2 DEF JoinTrigger, acHeap, acWalk, acFlags
  <2>3. CASE acAt[CoreCx] = NoEntry /\ FreeAll
    <3>1. acMain = "freeing" /\ PcInv
      BY <2>3 DEF FreeAll, AsyncInv
    <3>2. acAt[CoreCx] \notin acAllocated
      BY <2>3, AsyncAssumption DEF AsyncInv, AsyncTypeOK
    <3> QED
      BY <2>3, <3>1, <3>2 DEF FreeAll, acHeap, acWalk, acFlags
  <2> QED
    BY <2>1, <2>2, <2>3
<1>2. AsyncTypeOK /\ PcInv /\ ListHasOwners /\ WalkInv /\ CoreCx \in Contexts
  BY AsyncAssumption DEF AsyncInv
<1>3. AsyncTypeOK'
  <2>1. acHead' \in Entries \cup {NoEntry}
    BY <1>1, <1>2 DEF AsyncTypeOK
  <2> QED
    BY <1>1, <1>2, <2>1 DEF AsyncTypeOK, NoTrapYet
<1>4. PcInv'
  BY <1>1, <1>2 DEF PcInv
<1>5. OthersWait(CoreCx) /\ (Over => Over') /\ (~Over' => acHead' = acHead)
  BY <1>1 DEF OthersWait, Over
<1>6. ~Over' => \A e \in Listed : acCx[e] = CoreCx => AnswersFor(CoreCx, e)'
  BY <1>1, <1>2, <1>5 DEF ListHasOwners, AnswersFor
<1>7. acPc'[CoreCx] \notin Walking \cup {"segment", "free"}
  BY <1>1, <1>2 DEF PcInv, Walking
<1>8. acMain' \in {"join", "freeing"} => acMain \in {"join", "freeing"} /\ acAt'[CoreCx] = acAt[CoreCx]
  BY <1>1
<1>9. ListIsPath' /\ ListHasOwners' /\ OwnInv' /\ WalkInv'
  BY <1>1, <1>2, <1>5, <1>6, <1>7, <1>8, ListStays
<1> QED
  BY <1>1, <1>3, <1>4, <1>9, NoTrapHolds DEF AsyncInv

\* The list is cut off: the thread of the core context owns it from now on.
LEMMA CutListKeeps ==
  ASSUME AsyncInv, acTrap = NoTrapYet, CutList
  PROVE  AsyncInv'
<1>1. /\ acMain = "run" /\ acPc[CoreCx] = "js" /\ acMain' = "join" /\ acHead' = NoEntry
      /\ acPc' = [acPc EXCEPT ![CoreCx] = "js"]
      /\ acAt' = [acAt EXCEPT ![CoreCx] = acHead] /\ acSaved' = [acSaved EXCEPT ![CoreCx] = NoEntry]
      /\ acNext' = acNext /\ acCx' = acCx /\ acAllocated' = acAllocated
      /\ acDisturbed' = acDisturbed
      /\ acInstalled' = acInstalled /\ acTriggered' = acTriggered /\ acCleanup' = acCleanup
      /\ acTrigger' = acTrigger /\ acTrap' = NoTrapYet
  BY DEF CutList, Idle, AcGoto, acHeap, acFlags
<1>2. AsyncTypeOK /\ PcInv /\ ListHasOwners /\ WalkInv /\ CoreCx \in Contexts /\ ~Over /\ ~Over'
  BY <1>1, AsyncAssumption DEF AsyncInv, Over
<1>3. AsyncTypeOK'
  BY <1>1, <1>2 DEF AsyncTypeOK, NoTrapYet
<1>4. PcInv'
  BY <1>1, <1>2 DEF PcInv, AsyncTypeOK, Walking
<1>5. OthersWait(CoreCx) /\ acPc'[CoreCx] = "js" /\ acAt'[CoreCx] = acHead
  BY <1>1, <1>2 DEF OthersWait, AsyncTypeOK
<1>6. Chain' = <<>> /\ Listed' = {} /\ Path(acNext', acHead', <<>>)
  <2>1. Path(acNext, NoEntry, <<>>)
    BY DEF Path, Nth
  <2>2. ChainFrom(NoEntry, acNext) = <<>>
    BY <1>2, <2>1, ChainIsPath DEF AsyncTypeOK
  <2>3. Chain' = <<>>
    BY <1>1, <2>2 DEF Chain
  <2> QED
    BY <1>1, <2>1, <2>3 DEF Listed
<1>7. ListIsPath' /\ ListHasOwners'
  BY <1>6 DEF ListIsPath, ListHasOwners, Ordered
<1>8. OwnInv'
  <2>1. PICK own : Owned(own)
    BY DEF AsyncInv, OwnInv
  <2>2. PICK u : /\ u \in Seq(Entries) /\ Listed = Elements(u) /\ Listed \subseteq acAllocated
                 /\ Path(acNext, acHead, u)
    BY <1>2, TheList
  <2>3. Owns(CoreCx, u)'
    <3>1. Elements(u) \subseteq acAllocated' /\ \A x \in Elements(u) : x \notin Listed'
      BY <1>1, <1>6, <2>2
    <3> QED
      BY <1>5, <3>1 DEF Owns
  <2>4. Path(acNext', acAt'[CoreCx], u)
    BY <1>1, <1>5, <2>2
  <2>5. \A x \in acAllocated : acNext'[x] = acNext[x] /\ x \in acAllocated' /\ x \notin Listed'
    BY <1>1, <1>6
  <2> QED
    BY <1>2, <1>5, <2>1, <2>2, <2>3, <2>4, <2>5, OwnersGoOn
<1>9. WalkInv'
  BY <1>1, <1>2, <1>5, WalkersGoOn DEF Walking
<1> QED
  BY <1>1, <1>3, <1>4, <1>7, <1>8, <1>9, NoTrapHolds DEF AsyncInv

-----------------------------------------------------------------------------

\* The thread of c frees an entry that it has unlinked; it has new left to free.
LEMMA FreeingKeeps ==
  ASSUME AsyncInv, NEW c \in Contexts, NEW e, Freed(c, e), acHead' = acHead, acMain' = acMain,
         \A d \in Contexts \ {c} :
           /\ acPc'[d] = acPc[d] /\ acAt'[d] = acAt[d] /\ acSaved'[d] = acSaved[d]
           /\ acCleanup'[d] = acCleanup[d],
         NEW own, Owned(own), e \in Elements(own[c]),
         NEW new \in Seq(Entries), \A x \in Elements(new) : x \in Elements(own[c]) /\ x # e,
         acPc'[c] # "free",
         acPc'[c] = "segment" =>
           /\ Segment(acNext', new) /\ Len(new) \in Nat \ {0}
           /\ new[1] = acAt'[c] /\ new[Len(new)] = acSaved'[c],
         acMain \in {"join", "freeing"} /\ c = CoreCx => Path(acNext', acAt'[c], new),
         ~Over => \A f \in Listed : acCx[f] = c => AnswersFor(c, f)',
         ~Over /\ acPc'[c] \in Walking /\ c \notin acDisturbed => WalkIsSafe(c)'
  PROVE  ListIsPath' /\ ListHasOwners' /\ OwnInv' /\ WalkInv'
<1>1. /\ acAllocated' = acAllocated \ {e}
      /\ acDisturbed' = acDisturbed \cup {d \in Contexts \ {c} : acPc[d] \in Walking}
      /\ acNext' = [acNext EXCEPT ![e] = NoEntry]
      /\ acCx' = [acCx EXCEPT ![e] = CoreCx]
  BY DEF Freed
<1>2. AsyncTypeOK /\ ListHasOwners /\ WalkInv
  BY DEF AsyncInv
<1>3. e \in acAllocated /\ e \in Entries /\ (~Over => e \notin Listed)
  BY <1>2 DEF Owned, Owns, AsyncTypeOK
<1>4. /\ acNext \in [Entries -> Entries \cup {NoEntry}] /\ acCx \in [Entries -> Contexts]
      /\ acNext' \in [Entries -> Entries \cup {NoEntry}]
  BY <1>1, <1>2, <1>3 DEF AsyncTypeOK
<1>5. OthersWait(c) /\ (Over' <=> Over)
  BY <1>1 DEF OthersWait, Over
<1>6. \A x \in Entries : x # e => acNext'[x] = acNext[x] /\ acCx'[x] = acCx[x]
  BY <1>1, <1>4
<1>7. ASSUME ~Over
      PROVE  /\ Path(acNext', acHead', Chain) /\ Chain' = Chain /\ Listed' = Listed
             /\ Listed \subseteq acAllocated' /\ Listed \subseteq Entries
  <2>1. Path(acNext, acHead, Chain) /\ Listed = Elements(Chain) /\ Listed \subseteq acAllocated
        /\ Listed \subseteq Entries
    BY <1>7, TheList
  <2>2. \A x \in Elements(Chain) : acNext'[x] = acNext[x]
    BY <1>3, <1>6, <1>7, <2>1
  <2>3. Path(acNext', acHead', Chain)
    BY <2>1, <2>2, SamePath
  <2>4. ChainFrom(acHead', acNext') = Chain
    BY <1>4, <2>3, ChainIsPath
  <2>5. Chain' = Chain
    BY <2>4 DEF Chain
  <2> QED
    BY <1>1, <1>3, <1>7, <2>1, <2>3, <2>5 DEF Listed
<1>8. ListIsPath'
  <2>1. SUFFICES ASSUME ~Over PROVE Ordered(acCx, Chain)'
    BY <1>5, <1>7 DEF ListIsPath
  <2>2. \A i \in 1..Len(Chain) : acCx'[Chain[i]] = acCx[Chain[i]]
    BY <1>3, <1>6, <2>1, TheList
  <2>3. Ordered(acCx', Chain)
    BY <2>1, <2>2, TheList DEF Ordered
  <2> QED
    BY <1>7, <2>1, <2>3
<1>9. ListHasOwners'
  <2>1. ASSUME ~Over, NEW f \in Listed PROVE AnswersFor(acCx[f], f)'
    <3>1. acCx'[f] = acCx[f] /\ acCx[f] \in Contexts /\ AnswersFor(acCx[f], f)
      BY <1>2, <1>3, <1>4, <1>6, <1>7, <2>1 DEF ListHasOwners
    <3>2. CASE acCx[f] = c
      BY <2>1, <3>1, <3>2
    <3>3. CASE acCx[f] # c
      BY <1>5, <3>1, <3>3 DEF AnswersFor, OthersWait
    <3> QED
      BY <3>2, <3>3
  <2> QED
    BY <1>5, <1>7, <2>1 DEF ListHasOwners
<1>10. OwnInv'
  <2>1. \A x \in acAllocated :
           \/ x \in Elements(own[c])
           \/ acNext'[x] = acNext[x] /\ x \in acAllocated' /\ (~Over' => (~Over /\ x \in Listed) \/ x \notin Listed')
    BY <1>1, <1>2, <1>5, <1>6, <1>7 DEF AsyncTypeOK
  <2>2. \A x \in Elements(own[c]) : x \in acAllocated /\ (~Over => x \notin Listed)
    BY DEF Owned, Owns
  <2>3. Owns(c, new)'
    BY <1>1, <1>5, <1>7, <2>2 DEF Owns
  <2> QED
    BY <1>5, <2>1, <2>3, OwnersGoOn
<1>11. WalkInv'
  <2>1. ASSUME NEW d \in Contexts, ~Over, acPc'[d] \in Walking, d \notin acDisturbed' PROVE WalkIsSafe(d)'
    <3>1. d = c
      BY <1>1, <1>5, <2>1 DEF OthersWait
    <3> QED
      BY <1>1, <2>1, <3>1
  <2> QED
    BY <1>5, <2>1 DEF WalkInv
<1> QED
  BY <1>8, <1>9, <1>10, <1>11

\* A callback that has unlinked its entry frees it.
LEMMA FreeRemovedKeeps ==
  ASSUME AsyncInv, acTrap = NoTrapYet, NEW c \in Contexts, FreeRemoved(c)
  PROVE  AsyncInv'
<1>1. PICK own : Owned(own)
  BY DEF AsyncInv, OwnInv
<1>2. PICK e : e = acAt[c]
  OBVIOUS
<1>3. AsyncTypeOK /\ PcInv /\ ListHasOwners /\ WalkInv /\ acPc[c] = "free" /\ c # CoreCx
  BY DEF AsyncInv, FreeRemoved, PcInv
<1>4. e \in Elements(own[c]) /\ e \in acAllocated /\ e \in Entries
  BY <1>1, <1>2, <1>3 DEF Owned, Owns, AsyncTypeOK
<1>5. /\ Freed(c, e)
      /\ acPc' = [acPc EXCEPT ![c] = "returned"]
      /\ acAt' = [acAt EXCEPT ![c] = e] /\ acSaved' = [acSaved EXCEPT ![c] = acSaved[c]]
      /\ acInstalled' = acInstalled /\ acTriggered' = acTriggered /\ acCleanup' = acCleanup
      /\ acHead' = acHead /\ acTrigger' = acTrigger /\ acMain' = acMain /\ acTrap' = NoTrapYet
  BY <1>2, <1>4 DEF FreeRemoved, ReadsFreed, AcGoto, acFlags, acThreads
<1>6. /\ acAllocated' = acAllocated \ {e}
      /\ acDisturbed' = acDisturbed \cup {d \in Contexts \ {c} : acPc[d] \in Walking}
      /\ acNext' = [acNext EXCEPT ![e] = NoEntry]
      /\ acCx' = [acCx EXCEPT ![e] = CoreCx]
  BY <1>5 DEF Freed
<1>7. AsyncTypeOK'
  BY <1>3, <1>4, <1>5, <1>6, AsyncAssumption DEF AsyncTypeOK, NoTrapYet
<1>8. PcInv'
  BY <1>3, <1>4, <1>5 DEF PcInv, AsyncTypeOK, Walking
<1>9. /\ \A d \in Contexts \ {c} :
           /\ acPc'[d] = acPc[d] /\ acAt'[d] = acAt[d] /\ acSaved'[d] = acSaved[d]
           /\ acCleanup'[d] = acCleanup[d]
      /\ acPc'[c] = "returned" /\ acSaved'[c] = acSaved[c] /\ acCleanup'[c] = acCleanup[c]
  BY <1>3, <1>5 DEF AsyncTypeOK
<1>10. ~Over => \A f \in Listed : acCx[f] = c => AnswersFor(c, f)'
  BY <1>3, <1>9 DEF ListHasOwners, AnswersFor
<1>11. ~Over /\ c \notin acDisturbed => WalkIsSafe(c)'
  <2>1. SUFFICES ASSUME ~Over, c \notin acDisturbed PROVE WalkIsSafe(c)'
    OBVIOUS
  <2>2. PICK s : Path(acNext, acSaved[c], s) /\ Elements(s) \subseteq acAllocated /\ e \notin Elements(s)
    BY <1>2, <1>3, <2>1 DEF WalkInv, WalkIsSafe, Ahead, Walking
  <2>3. \A x \in Elements(s) : acNext'[x] = acNext[x]
    BY <1>3, <1>6, <2>2 DEF AsyncTypeOK
  <2>4. Path(acNext', acSaved[c], s)
    BY <2>2, <2>3, SamePath
  <2>5. Path(acNext', Ahead(c)', s) /\ Elements(s) \subseteq acAllocated'
    BY <1>6, <1>9, <2>2, <2>4 DEF Ahead
  <2> QED
    BY <1>9, <2>5 DEF WalkIsSafe
<1>12. <<>> \in Seq(Entries) /\ \A x : x \notin Elements(<<>>)
  BY DEF Elements
<1>13. ListIsPath' /\ ListHasOwners' /\ OwnInv' /\ WalkInv'
  BY <1>1, <1>3, <1>4, <1>5, <1>9, <1>10, <1>11, <1>12, FreeingKeeps
<1> QED
  BY <1>5, <1>7, <1>8, <1>13, NoTrapHolds DEF AsyncInv

\* The entries of a context that ends are freed one by one.
LEMMA FreeSegmentKeeps ==
  ASSUME AsyncInv, acTrap = NoTrapYet, NEW c \in Contexts, FreeSegment(c)
  PROVE  AsyncInv'
<1>1. PICK own : Owned(own)
  BY DEF AsyncInv, OwnInv
<1>2. PICK e, s : e = acAt[c] /\ s = own[c]
  OBVIOUS
<1>3. AsyncTypeOK /\ PcInv /\ ListHasOwners /\ acPc[c] = "segment" /\ c # CoreCx
  BY DEF AsyncInv, FreeSegment, PcInv
<1>4. /\ s \in Seq(Entries) /\ Segment(acNext, s) /\ Len(s) \in Nat \ {0} /\ s[1] = e
      /\ s[Len(s)] = acSaved[c] /\ Elements(s) \subseteq acAllocated
  BY <1>1, <1>2, <1>3 DEF Owned, Owns
<1>5. e \in Elements(own[c]) /\ e \in acAllocated /\ e \in Entries
  <2>1. 1 \in 1..Len(s)
    BY <1>4
  <2> QED
    BY <1>2, <1>3, <1>4, <2>1, IsList DEF AsyncTypeOK
<1>6. /\ Freed(c, e)
      /\ IF e = acSaved[c] THEN CxGone(c)
         ELSE AcGoto(c, "segment", acNext[e], acSaved[c]) /\ UNCHANGED acFlags
      /\ acHead' = acHead /\ acTrigger' = acTrigger /\ acMain' = acMain /\ acTrap' = NoTrapYet
  BY <1>2, <1>5 DEF FreeSegment, ReadsFreed, acThreads
<1>7. /\ acAllocated' = acAllocated \ {e}
      /\ acDisturbed' = acDisturbed \cup {d \in Contexts \ {c} : acPc[d] \in Walking}
      /\ acNext' = [acNext EXCEPT ![e] = NoEntry]
      /\ acCx' = [acCx EXCEPT ![e] = CoreCx]
  BY <1>6 DEF Freed
<1>8. ~Over => \A f \in Listed : acCx[f] # c
  BY <1>3 DEF ListHasOwners, AnswersFor
<1>9. CASE e = acSaved[c]
  <2>1. /\ acPc' = [acPc EXCEPT ![c] = "absent"]
        /\ acAt' = [acAt EXCEPT ![c] = NoEntry] /\ acSaved' = [acSaved EXCEPT ![c] = NoEntry]
        /\ acInstalled' = [acInstalled EXCEPT ![c] = FALSE]
        /\ acTriggered' = [acTriggered EXCEPT ![c] = FALSE]
        /\ acCleanup' = [acCleanup EXCEPT ![c] = FALSE]
    BY <1>6, <1>9 DEF CxGone, AcGoto
  <2>2. AsyncTypeOK'
    BY <1>3, <1>5, <1>6, <1>7, <2>1, AsyncAssumption DEF AsyncTypeOK, NoTrapYet
  <2>3. PcInv'
    BY <1>3, <1>6, <2>1 DEF PcInv, AsyncTypeOK, Walking
  <2>4. /\ \A d \in Contexts \ {c} :
             /\ acPc'[d] = acPc[d] /\ acAt'[d] = acAt[d] /\ acSaved'[d] = acSaved[d]
             /\ acCleanup'[d] = acCleanup[d]
        /\ acPc'[c] = "absent"
    BY <1>3, <2>1 DEF AsyncTypeOK
  <2>5. <<>> \in Seq(Entries) /\ \A x : x \notin Elements(<<>>)
    BY DEF Elements
  <2>6. ListIsPath' /\ ListHasOwners' /\ OwnInv' /\ WalkInv'
    BY <1>1, <1>3, <1>5, <1>6, <1>8, <2>4, <2>5, FreeingKeeps DEF Walking
  <2> QED
    BY <1>6, <2>2, <2>3, <2>6, NoTrapHolds DEF AsyncInv
<1>10. CASE e # acSaved[c]
  <2>1. /\ acPc' = [acPc EXCEPT ![c] = "segment"]
        /\ acAt' = [acAt EXCEPT ![c] = acNext[e]] /\ acSaved' = [acSaved EXCEPT ![c] = acSaved[c]]
        /\ acInstalled' = acInstalled /\ acTriggered' = acTriggered /\ acCleanup' = acCleanup
    BY <1>6, <1>10 DEF AcGoto, acFlags
  <2>2. Len(s) > 1
    BY <1>4, <1>10
  <2>3. \A x \in Entries : x # s[1] => acNext'[x] = acNext[x]
    BY <1>3, <1>4, <1>7 DEF AsyncTypeOK
  <2>4. PICK t : /\ Segment(acNext', t) /\ Len(t) \in Nat \ {0}
                 /\ t[1] = acNext[e] /\ t[Len(t)] = acSaved[c]
                 /\ Elements(t) \subseteq Elements(s) \ {e}
    BY <1>4, <2>2, <2>3, SegmentRest
  <2>5. t \in Seq(Entries) /\ acNext[e] \in Entries
    <3>1. t \in Seq(Entries) /\ 1 \in 1..Len(t)
      BY <2>4 DEF Segment
    <3> QED
      BY <2>4, <3>1, IsList
  <2>6. AsyncTypeOK'
    BY <1>3, <1>5, <1>6, <1>7, <2>1, <2>5, AsyncAssumption DEF AsyncTypeOK, NoTrapYet
  <2>7. PcInv'
    BY <1>3, <1>6, <2>1, <2>5 DEF PcInv, AsyncTypeOK, Walking
  <2>8. /\ \A d \in Contexts \ {c} :
             /\ acPc'[d] = acPc[d] /\ acAt'[d] = acAt[d] /\ acSaved'[d] = acSaved[d]
             /\ acCleanup'[d] = acCleanup[d]
        /\ acPc'[c] = "segment" /\ acAt'[c] = acNext[e] /\ acSaved'[c] = acSaved[c]
    BY <1>3, <2>1 DEF AsyncTypeOK
  <2>9. \A x \in Elements(t) : x \in Elements(own[c]) /\ x # e
    BY <1>2, <2>4
  <2>10. ListIsPath' /\ ListHasOwners' /\ OwnInv' /\ WalkInv'
    BY <1>1, <1>3, <1>5, <1>6, <1>8, <2>4, <2>5, <2>8, <2>9, FreeingKeeps DEF Walking
  <2> QED
    BY <1>6, <2>6, <2>7, <2>10, NoTrapHolds DEF AsyncInv
<1> QED
  BY <1>9, <1>10

\* The list that was cut off is freed entry by entry.
LEMMA FreeAllKeeps ==
  ASSUME AsyncInv, acTrap = NoTrapYet, FreeAll
  PROVE  AsyncInv'
<1>1. PICK own : Owned(own)
  BY DEF AsyncInv, OwnInv
<1>2. PICK e, s : e = acAt[CoreCx] /\ s = own[CoreCx]
  OBVIOUS
<1>3. /\ AsyncTypeOK /\ PcInv /\ acMain = "freeing" /\ CoreCx \in Contexts /\ Over
      /\ Path(acNext, e, s)
  BY <1>1, <1>2, AsyncAssumption DEF AsyncInv, FreeAll, Over, Owned
<1>4. CASE e = NoEntry
  BY <1>2, <1>4, SpawnAndJoinKeep
<1>5. CASE e # NoEntry
  <2>1. e \in Elements(s) /\ Elements(s) \subseteq acAllocated /\ e \in Entries
    <3>1. e \in Elements(s)
      BY <1>3, <1>5, PathRest
    <3> QED
      BY <1>1, <1>2, <1>3, <3>1 DEF Owned, Owns, AsyncTypeOK
  <2>2. /\ Freed(CoreCx, e)
        /\ acPc' = [acPc EXCEPT ![CoreCx] = "js"]
        /\ acAt' = [acAt EXCEPT ![CoreCx] = acNext[e]]
        /\ acSaved' = [acSaved EXCEPT ![CoreCx] = NoEntry]
        /\ acInstalled' = acInstalled /\ acTriggered' = acTriggered /\ acCleanup' = acCleanup
        /\ acHead' = acHead /\ acTrigger' = acTrigger /\ acMain' = acMain /\ acTrap' = NoTrapYet
    BY <1>2, <1>5, <2>1 DEF FreeAll, ReadsFreed, AcGoto, acFlags, acThreads
  <2>3. /\ acAllocated' = acAllocated \ {e}
        /\ acDisturbed' = acDisturbed \cup {d \in Contexts \ {CoreCx} : acPc[d] \in Walking}
        /\ acNext' = [acNext EXCEPT ![e] = NoEntry]
        /\ acCx' = [acCx EXCEPT ![e] = CoreCx]
    BY <2>2 DEF Freed
  <2>4. \A x \in Entries : x # e => acNext'[x] = acNext[x]
    BY <1>3, <2>3 DEF AsyncTypeOK
  <2>5. PICK t : Path(acNext', acNext[e], t) /\ Elements(t) \subseteq Elements(s) \ {e}
    BY <1>3, <1>5, <2>4, PathRest
  <2>6. AsyncTypeOK'
    <3>1. acNext[e] \in Entries \cup {NoEntry}
      BY <1>3, <2>1 DEF AsyncTypeOK
    <3> QED
      BY <1>3, <2>1, <2>2, <2>3, <3>1 DEF AsyncTypeOK, NoTrapYet
  <2>7. PcInv'
    BY <1>3, <2>2 DEF PcInv, AsyncTypeOK, Walking
  <2>8. /\ \A d \in Contexts \ {CoreCx} :
             /\ acPc'[d] = acPc[d] /\ acAt'[d] = acAt[d] /\ acSaved'[d] = acSaved[d]
             /\ acCleanup'[d] = acCleanup[d]
        /\ acPc'[CoreCx] = "js" /\ acAt'[CoreCx] = acNext[e]
    BY <1>3, <2>2 DEF AsyncTypeOK
  <2>9. /\ e \in Elements(own[CoreCx]) /\ t \in Seq(Entries)
        /\ \A x \in Elements(t) : x \in Elements(own[CoreCx]) /\ x # e
        /\ Path(acNext', acAt'[CoreCx], t)
    BY <1>2, <2>1, <2>5, <2>8 DEF Path
  <2>10. ListIsPath' /\ ListHasOwners' /\ OwnInv' /\ WalkInv'
    BY <1>1, <1>3, <2>2, <2>8, <2>9, FreeingKeeps
  <2> QED
    BY <2>2, <2>6, <2>7, <2>10, NoTrapHolds DEF AsyncInv
<1> QED
  BY <1>4, <1>5

-----------------------------------------------------------------------------

\* An entry that is put where its context's address belongs keeps the order.
LEMMA InsertedOrdered ==
  ASSUME NEW u \in Seq(Entries), NEW i \in 1..(Len(u) + 1), NEW e \in Entries, e \notin Elements(u),
         NEW cx, \A k \in 1..Len(u) : cx[u[k]] \in Nat, Ordered(cx, u),
         NEW new, new[e] \in Nat, \A x \in Entries : x # e => new[x] = cx[x],
         \A k \in 1..Len(u) : k < i => new[e] <= cx[u[k]],
         \A k \in 1..Len(u) : k >= i => cx[u[k]] <= new[e],
         Len(Inserted(u, i, e)) = Len(u) + 1
  PROVE  Ordered(new, Inserted(u, i, e))
<1> DEFINE n == Len(u)
           t == Inserted(u, i, e)
<1>1. /\ n \in Nat /\ i \in Nat /\ \A k \in 1..n : u[k] \in Entries /\ u[k] # e
      /\ \A k, l \in 1..n : k < l => cx[u[l]] <= cx[u[k]]
  BY IsList DEF Ordered
<1>2. t = [k \in 1..(n + 1) |-> IF k < i THEN u[k] ELSE IF k = i THEN e ELSE u[k - 1]]
  BY DEF Inserted
<1> HIDE DEF t
<1>3. ASSUME NEW k \in 1..(n + 1), NEW l \in 1..(n + 1), k < l PROVE new[t[l]] <= new[t[k]]
  <2>1. CASE l < i
    <3>1. k \in 1..n /\ l \in 1..n /\ t[k] = u[k] /\ t[l] = u[l]
      BY <1>1, <1>2, <1>3, <2>1
    <3> QED
      BY <1>1, <1>3, <3>1
  <2>2. CASE l = i
    <3>1. k \in 1..n /\ t[k] = u[k] /\ t[l] = e /\ k < i
      BY <1>1, <1>2, <1>3, <2>2
    <3> QED
      BY <1>1, <3>1
  <2>3. CASE l > i /\ k < i
    <3>1. k \in 1..n /\ l - 1 \in 1..n /\ t[k] = u[k] /\ t[l] = u[l - 1] /\ l - 1 >= i
      BY <1>1, <1>2, <1>3, <2>3
    <3>2. new[e] <= cx[u[k]] /\ cx[u[l - 1]] <= new[e]
      BY <2>3, <3>1
    <3>3. cx[u[l - 1]] <= cx[u[k]]
      BY <3>1, <3>2
    <3> QED
      BY <1>1, <3>1, <3>3
  <2>4. CASE l > i /\ k = i
    <3>1. l - 1 \in 1..n /\ t[k] = e /\ t[l] = u[l - 1] /\ l - 1 >= i
      BY <1>1, <1>2, <1>3, <2>4
    <3> QED
      BY <1>1, <3>1
  <2>5. CASE l > i /\ k > i
    <3>1. k - 1 \in 1..n /\ l - 1 \in 1..n /\ t[k] = u[k - 1] /\ t[l] = u[l - 1] /\ k - 1 < l - 1
      BY <1>1, <1>2, <1>3, <2>5
    <3> QED
      BY <1>1, <3>1
  <2> QED
    BY <1>1, <1>3, <2>1, <2>2, <2>3, <2>4, <2>5
<1> QED
  BY <1>3 DEF Ordered, t, n

\* Entries that are unlinked leave the order of the others.
LEMMA WithoutOrdered ==
  ASSUME NEW u \in Seq(Entries), NEW i \in 1..(Len(u) + 1), NEW j \in 1..(Len(u) + 1), i <= j,
         NEW cx, Ordered(cx, u), Len(Without(u, i, j)) = Len(u) - (j - i)
  PROVE  Ordered(cx, Without(u, i, j))
<1> DEFINE n == Len(u)
           d == j - i
           m == n - d
           t == Without(u, i, j)
<1>1. /\ n \in Nat /\ i \in Nat /\ d \in Nat /\ m \in Nat
      /\ \A k, l \in 1..n : k < l => cx[u[l]] <= cx[u[k]]
  BY IsList DEF Ordered
<1>2. t = [k \in 1..m |-> IF k < i THEN u[k] ELSE u[k + d]]
  BY DEF Without
<1> HIDE DEF t
<1>3. ASSUME NEW k \in 1..m, NEW l \in 1..m, k < l PROVE cx[t[l]] <= cx[t[k]]
  <2> DEFINE at(x) == IF x < i THEN x ELSE x + d
  <2>1. at(k) \in 1..n /\ at(l) \in 1..n /\ at(k) < at(l)
    BY <1>1, <1>3
  <2>2. t[k] = u[at(k)] /\ t[l] = u[at(l)]
    BY <1>2
  <2> HIDE DEF at
  <2> QED
    BY <1>1, <2>1, <2>2
<1> QED
  BY <1>3 DEF Ordered, t, m, d, n

\* The entries at the places from i to before j are unlinked from the list u.
Unlinks(u, i, j) ==
  /\ ~Over /\ ~Over' /\ i \in 1..Len(u) /\ j \in 1..(Len(u) + 1) /\ i < j
  /\ acNext' \in [Entries -> Entries \cup {NoEntry}]
  /\ acHead' = IF i = 1 THEN Nth(u, j) ELSE acHead
  /\ i > 1 => acNext'[u[i - 1]] = Nth(u, j)
  /\ \A x \in Entries : (i > 1 => x # u[i - 1]) => acNext'[x] = acNext[x]
  /\ acCx' = acCx /\ acAllocated' = acAllocated

\* What is left: the other entries of u, the entries that were not in the list, and a path
\* of no new entries for each path there was.
Leaves(u, i, j) ==
  /\ \A x : x \in Listed' <=> \E k \in 1..Len(u) : (k < i \/ k >= j) /\ x = u[k]
  /\ \A x \in acAllocated : x \in Listed \/
       (acNext'[x] = acNext[x] /\ x \in acAllocated' /\ x \notin Listed')
  /\ \A p, s : Path(acNext, p, s) /\ Elements(s) \subseteq acAllocated =>
       \E t : /\ Path(acNext', p, t) /\ Elements(t) \subseteq acAllocated'
              /\ \A x \in Elements(t) : x \in acAllocated => x \in Elements(s)

LEMMA Unlinking ==
  ASSUME AsyncInv, NEW u, u = Chain, NEW i, NEW j, Unlinks(u, i, j)
  PROVE  ListIsPath' /\ Leaves(u, i, j)
<1> USE DEF Unlinks
<1>1. /\ Path(acNext, acHead, u) /\ u \in Seq(Entries) /\ Len(u) \in Nat
      /\ \A k \in 1..Len(u) : u[k] \in Entries /\ u[k] \in Listed
      /\ \A k, l \in 1..Len(u) : u[k] = u[l] => k = l
      /\ \A x : x \in Listed <=> \E k \in 1..Len(u) : x = u[k]
      /\ Listed \subseteq acAllocated /\ acAllocated \subseteq Entries /\ Ordered(acCx, u)
  BY TheList DEF AsyncInv, ListIsPath, AsyncTypeOK
<1>2. i \in 1..(Len(u) + 1) /\ i <= j /\ i \in Nat /\ j \in Nat
  BY <1>1
<1>3. \A k \in 1..Len(u) : k < i - 1 \/ k >= j => acNext'[u[k]] = acNext[u[k]]
  <2> TAKE k \in 1..Len(u)
  <2>1. SUFFICES ASSUME k < i - 1 \/ k >= j PROVE acNext'[u[k]] = acNext[u[k]]
    OBVIOUS
  <2>2. i > 1 => i - 1 \in 1..Len(u) /\ k # i - 1
    BY <1>1, <1>2, <2>1
  <2>3. u[k] \in Entries /\ (i > 1 => u[k] # u[i - 1])
    BY <1>1, <2>2
  <2> QED
    BY <2>3
<1>4. /\ Path(acNext', acHead', Without(u, i, j))
      /\ Len(Without(u, i, j)) = Len(u) - (j - i)
      /\ \A x : x \in Elements(Without(u, i, j)) <=>
                \E k \in 1..Len(u) : (k < i \/ k >= j) /\ x = u[k]
  <2>1. Path(acNext, acHead, u)
    BY <1>1
  <2>2. /\ Path(acNext', IF i = 1 THEN Nth(u, j) ELSE acHead, Without(u, i, j))
        /\ Len(Without(u, i, j)) = Len(u) - (j - i)
        /\ \A x : x \in Elements(Without(u, i, j)) <=>
                  \E k \in 1..Len(u) : (k < i \/ k >= j) /\ x = u[k]
    <3>1. LeadsAround(acNext, acNext', acHead, u, i, j)
      BY <1>2, <1>3, <2>1 DEF LeadsAround
    <3> QED
      BY <3>1, WithoutPath
  <2> QED
    BY <2>2
<1>5. Chain' = Without(u, i, j)
  <2>1. ChainFrom(acHead', acNext') = Without(u, i, j)
    BY <1>4, ChainIsPath
  <2> QED
    BY <2>1 DEF Chain
<1>6. \A x : x \in Listed' <=> \E k \in 1..Len(u) : (k < i \/ k >= j) /\ x = u[k]
  <2>1. Listed' = Elements(Without(u, i, j))
    BY <1>5 DEF Listed, Elements
  <2> QED
    BY <1>4, <2>1
<1>7. ListIsPath'
  <2>1. Ordered(acCx, Without(u, i, j))
    BY <1>1, <1>2, <1>4, WithoutOrdered
  <2>2. Ordered(acCx, Chain)'
    BY <1>5, <2>1
  <2>3. (Listed \subseteq acAllocated)'
    BY <1>1, <1>6
  <2> QED
    BY <1>4, <1>5, <2>2, <2>3 DEF ListIsPath
<1>8. ASSUME NEW x \in acAllocated, x \notin Listed
      PROVE  acNext'[x] = acNext[x] /\ x \in acAllocated' /\ x \notin Listed'
  <2>1. i > 1 => i - 1 \in 1..Len(u)
    BY <1>1, <1>2
  <2>2. i > 1 => x # u[i - 1]
    BY <1>1, <1>8, <2>1
  <2> QED
    BY <1>1, <1>6, <1>8, <2>2
<1>9. ASSUME NEW p, NEW s, Path(acNext, p, s), Elements(s) \subseteq acAllocated
      PROVE  \E t : Path(acNext', p, t) /\ Elements(t) \subseteq Elements(s)
  <2>1. Path(acNext, acHead, u)
    BY <1>1
  <2> QED
    BY <1>2, <1>9, <2>1, WithoutBehind, SMTT(30)
<1> QED
  BY <1>6, <1>7, <1>8, <1>9 DEF Leaves

\* A callback unlinks its own entry, behind the head of the list, and owns it.
LEMMA CallRemovesKeeps ==
  ASSUME AsyncInv, acTrap = NoTrapYet, NEW c \in Contexts, CallRemoves(c)
  PROVE  AsyncInv'
<1>1. PICK e, u : e = acAt[c] /\ u = Chain
  OBVIOUS
<1>2. PICK i : i = FirstIn({j \in DOMAIN u : u[j] = e}, 0)
  OBVIOUS
<1>3. /\ AsyncTypeOK /\ PcInv /\ ListHasOwners /\ WalkInv /\ acPc[c] = "call" /\ c # CoreCx
      /\ e \in acAllocated /\ e \in Entries
      /\ \/ ~LockExists /\ AcTrap("lock", c)
         \/ LockExists /\ i \in {0, 1} /\ AcTrap("null", c)
         \/ /\ LockExists /\ i > 1
            /\ acNext' = [acNext EXCEPT ![u[i - 1]] = acNext[e]]
            /\ AcGoto(c, "free", e, acSaved[c])
            /\ UNCHANGED <<acHead, acCx, acHeap, acFlags, acThreads, acTrap>>
  BY <1>1, <1>2 DEF AsyncInv, AsyncTypeOK, CallRemoves, CallsOther, PcInv
<1>4. CASE AcTrap("lock", c) \/ AcTrap("null", c)
  BY <1>4, TrapStops
<1>5. CASE /\ LockExists /\ i > 1
           /\ acNext' = [acNext EXCEPT ![u[i - 1]] = acNext[e]]
           /\ AcGoto(c, "free", e, acSaved[c])
           /\ UNCHANGED <<acHead, acCx, acHeap, acFlags, acThreads, acTrap>>
  <2>1. /\ acNext' = [acNext EXCEPT ![u[i - 1]] = acNext[e]]
        /\ acPc' = [acPc EXCEPT ![c] = "free"]
        /\ acAt' = [acAt EXCEPT ![c] = e] /\ acSaved' = [acSaved EXCEPT ![c] = acSaved[c]]
        /\ acInstalled' = acInstalled /\ acTriggered' = acTriggered /\ acCleanup' = acCleanup
        /\ acHead' = acHead /\ acCx' = acCx /\ acAllocated' = acAllocated
        /\ acDisturbed' = acDisturbed
        /\ acTrigger' = acTrigger /\ acMain' = acMain /\ acTrap' = NoTrapYet
    BY <1>5 DEF AcGoto, acHeap, acFlags, acThreads
  <2>2. ~Over /\ (Over' <=> Over)
    BY <1>5, <2>1 DEF Over, LockExists
  <2>3. /\ Len(u) \in Nat /\ DOMAIN u = 1..Len(u)
        /\ \A k \in 1..Len(u) : u[k] \in Entries /\ u[k] \in Listed /\ acNext[u[k]] = Nth(u, k + 1)
        /\ \A k, l \in 1..Len(u) : u[k] = u[l] => k = l
        /\ \A x : x \in Listed <=> \E k \in 1..Len(u) : x = u[k]
        /\ Listed \subseteq acAllocated /\ Listed \subseteq Entries
    BY <1>1, <2>2, TheList
  <2>4. i \in 1..Len(u) /\ u[i] = e
    <3> DEFINE P == {j \in DOMAIN u : u[j] = e}
    <3>1. P \subseteq 1..Len(u)
      BY <2>3
    <3>2. P = {} => i = 0
      BY <1>2, <2>3, <3>1, FirstIs
    <3>3. P # {} => i \in P
      BY <1>2, <2>3, <3>1, FirstIs
    <3> QED
      BY <1>5, <2>3, <3>2, <3>3
  <2>5. PICK h, j : h = i - 1 /\ j = i + 1
    OBVIOUS
  <2>6. /\ h \in 1..Len(u) /\ u[h] \in Entries /\ j \in 1..(Len(u) + 1) /\ i < j /\ i # 1
        /\ acNext[e] = Nth(u, j)
    BY <1>5, <2>3, <2>4, <2>5
  <2>7. /\ acNext'[u[i - 1]] = Nth(u, j)
        /\ \A x \in Entries : x # u[i - 1] => acNext'[x] = acNext[x]
        /\ acNext' \in [Entries -> Entries \cup {NoEntry}]
    BY <1>3, <2>1, <2>5, <2>6 DEF AsyncTypeOK
  <2>8. acHead' = IF i = 1 THEN Nth(u, j) ELSE acHead
    BY <2>1, <2>6
  <2>9. /\ ListIsPath'
        /\ \A x : x \in Listed' <=> \E k \in 1..Len(u) : (k < i \/ k >= j) /\ x = u[k]
        /\ \A x \in acAllocated : x \in Listed \/
             (acNext'[x] = acNext[x] /\ x \in acAllocated' /\ x \notin Listed')
        /\ \A p, s : Path(acNext, p, s) /\ Elements(s) \subseteq acAllocated =>
             \E t : /\ Path(acNext', p, t) /\ Elements(t) \subseteq acAllocated'
                    /\ \A x \in Elements(t) : x \in acAllocated => x \in Elements(s)
    <3>1. Unlinks(u, i, j)
      BY <2>1, <2>2, <2>4, <2>6, <2>7, <2>8 DEF Unlinks
    <3>2. ListIsPath' /\ Leaves(u, i, j)
      BY <1>1, <3>1, Unlinking
    <3> QED
      BY <3>2 DEF Leaves
  <2>10. \A x : x \in Listed' <=> x \in Listed /\ x # e
    <3>1. \A k \in 1..Len(u) : u[k] # e <=> k # i
      BY <2>3, <2>4
    <3>2. i \in Nat /\ \A k \in 1..Len(u) : k \in Nat
      BY <2>3, <2>4
    <3>3. \A k \in 1..Len(u) : (k < i \/ k >= j) <=> k # i
      BY <2>5, <3>2
    <3> QED
      BY <2>3, <2>9, <3>1, <3>3
  <2>11. /\ OthersWait(c) /\ acPc'[c] = "free" /\ acAt'[c] = e /\ acSaved'[c] = acSaved[c]
         /\ acCleanup'[c] = acCleanup[c]
    BY <1>3, <2>1 DEF OthersWait, AsyncTypeOK
  <2>12. ListHasOwners'
    <3>1. ASSUME NEW f \in Listed' PROVE AnswersFor(acCx[f], f)'
      <4>1. acCx' = acCx /\ acCx[f] \in Contexts /\ AnswersFor(acCx[f], f)
        BY <1>3, <2>1, <2>2, <2>3, <2>10, <3>1 DEF ListHasOwners, AsyncTypeOK
      <4> QED
        BY <1>3, <2>11, <4>1 DEF AnswersFor, OthersWait
    <3> QED
      BY <3>1 DEF ListHasOwners
  <2>13. OwnInv'
    <3>1. PICK own : Owned(own)
      BY DEF AsyncInv, OwnInv
    <3>2. PICK new \in Seq(Entries) : \A x : x \in Elements(new) <=> x = e
      <4>1. <<e>> \in Seq(Entries) /\ \A x : x \in Elements(<<e>>) <=> x = e
        BY <1>3 DEF Elements
      <4> QED
        BY <4>1
    <3>3. Owns(c, new)'
      BY <1>3, <2>1, <2>10, <2>11, <3>2 DEF Owns
    <3>4. e \in Listed
      BY <2>3, <2>4
    <3>5. acMain' \in {"join", "freeing"} => acMain \in {"join", "freeing"}
      BY <2>1
    <3> QED
      BY <1>3, <2>2, <2>9, <2>11, <3>1, <3>2, <3>3, <3>4, <3>5, OwnersGoOn, SMTT(30)
  <2>14. WalkInv'
    <3>1. ~Over' /\ c \notin acDisturbed' => WalkIsSafe(c)'
      <4>1. SUFFICES ASSUME c \notin acDisturbed PROVE WalkIsSafe(c)'
        BY <2>1
      <4>2. PICK s : /\ Path(acNext, acSaved[c], s) /\ Elements(s) \subseteq acAllocated
                     /\ e \notin Elements(s)
        BY <1>1, <1>3, <2>2, <4>1 DEF WalkInv, WalkIsSafe, Ahead, Walking
      <4>3. PICK t : /\ Path(acNext', acSaved[c], t) /\ Elements(t) \subseteq acAllocated'
                     /\ \A x \in Elements(t) : x \in acAllocated => x \in Elements(s)
        BY <2>9, <4>2
      <4>4. Path(acNext', Ahead(c)', t)
        BY <2>11, <4>3 DEF Ahead
      <4> QED
        BY <1>3, <2>1, <2>11, <4>2, <4>3, <4>4 DEF WalkIsSafe
    <3> QED
      BY <1>3, <2>1, <2>2, <2>9, <2>11, <3>1, WalkersGoOn
  <2>15. AsyncTypeOK'
    BY <1>3, <2>1, <2>7 DEF AsyncTypeOK, NoTrapYet
  <2>16. PcInv'
    BY <1>3, <2>1 DEF PcInv, AsyncTypeOK, Walking
  <2> QED
    BY <2>1, <2>9, <2>12, <2>13, <2>14, <2>15, <2>16, NoTrapHolds DEF AsyncInv
<1> QED
  BY <1>3, <1>4, <1>5

\* A context that ends with no entry in the list.
LEMMA CxGoneKeeps ==
  ASSUME AsyncInv, acTrap = NoTrapYet, NEW c \in Contexts \ {CoreCx}, acPc[c] = "js", CxGone(c),
         UNCHANGED <<acList, acHeap, acThreads, acTrap>>,
         ~Over => \A e \in Listed : acCx[e] # c
  PROVE  AsyncInv'
<1>1. /\ acPc' = [acPc EXCEPT ![c] = "absent"]
      /\ acAt' = [acAt EXCEPT ![c] = NoEntry] /\ acSaved' = [acSaved EXCEPT ![c] = NoEntry]
      /\ acInstalled' = [acInstalled EXCEPT ![c] = FALSE]
      /\ acTriggered' = [acTriggered EXCEPT ![c] = FALSE]
      /\ acCleanup' = [acCleanup EXCEPT ![c] = FALSE]
      /\ acHead' = acHead /\ acNext' = acNext /\ acCx' = acCx /\ acAllocated' = acAllocated
      /\ acDisturbed' = acDisturbed
      /\ acTrigger' = acTrigger /\ acMain' = acMain /\ acTrap' = NoTrapYet
  BY DEF CxGone, AcGoto, acList, acHeap, acThreads
<1>2. AsyncTypeOK /\ PcInv
  BY DEF AsyncInv
<1>3. AsyncTypeOK'
  BY <1>1, <1>2 DEF AsyncTypeOK, NoTrapYet
<1>4. PcInv'
  BY <1>1, <1>2 DEF PcInv, AsyncTypeOK, Walking
<1>5. OthersWait(c) /\ acPc'[c] = "absent" /\ (Over' <=> Over) /\ acAt'[CoreCx] = acAt[CoreCx]
  BY <1>1, <1>2, AsyncAssumption DEF OthersWait, AsyncTypeOK, Over
<1>6. ListIsPath' /\ ListHasOwners' /\ OwnInv' /\ WalkInv'
  BY <1>1, <1>5, ListStays DEF Walking
<1> QED
  BY <1>1, <1>3, <1>4, <1>6, NoTrapHolds DEF AsyncInv

\* The first run of entries of a context that ends is unlinked, which is all of them, since
\* the list is in the order of the contexts.
LEMMA DestroyCxKeeps ==
  ASSUME AsyncInv, acTrap = NoTrapYet, NEW c \in Contexts \ {CoreCx}, DestroyCx(c)
  PROVE  AsyncInv'
<1>1. PICK u : u = Chain
  OBVIOUS
<1>2. PICK f : f = FirstIn({i \in DOMAIN u : acCx[u[i]] = c}, 0)
  OBVIOUS
<1>3. PICK b : b = FirstIn({i \in DOMAIN u : i > f /\ acCx[u[i]] # c}, Len(u) + 1)
  OBVIOUS
<1>4. AsyncTypeOK /\ PcInv /\ ListHasOwners /\ WalkInv /\ acPc[c] = "js" /\ c \in Contexts /\ c # CoreCx
  BY DEF AsyncInv, DestroyCx, Idle
<1>5. \/ /\ ~acCleanup[c] \/ acHead = NoEntry \/ (LockExists /\ f = 0)
         /\ CxGone(c) /\ UNCHANGED <<acList, acHeap, acThreads, acTrap>>
      \/ /\ acCleanup[c] /\ LockExists /\ f # 0
         /\ Relink(f, EntryAt(b), acNext)
         /\ AcGoto(c, "segment", u[f], u[b - 1])
         /\ UNCHANGED <<acCx, acHeap, acFlags, acThreads, acTrap>>
      \/ AcTrap("lock", c)
  BY <1>1, <1>2, <1>3 DEF DestroyCx
<1>6. ~Over =>
        /\ Len(u) \in Nat /\ DOMAIN u = 1..Len(u) /\ acHead = Nth(u, 1) /\ u \in Seq(Entries)
        /\ \A k \in 1..Len(u) :
             /\ u[k] \in Entries /\ u[k] # NoEntry /\ u[k] \in Listed /\ Nth(u, k) = u[k]
             /\ acCx[u[k]] \in Nat
        /\ \A k, l \in 1..Len(u) : u[k] = u[l] => k = l
        /\ \A k, l \in 1..Len(u) : k < l => acCx[u[l]] <= acCx[u[k]]
        /\ \A x : x \in Listed <=> \E k \in 1..Len(u) : x = u[k]
        /\ \A k : EntryAt(k) = Nth(u, k)
        /\ Path(acNext, acHead, u)
        /\ Listed \subseteq acAllocated /\ Listed \subseteq Entries
  <2>1. ~Over => \A k : EntryAt(k) = Nth(u, k)
    BY <1>1, TheList DEF EntryAt, Nth
  <2> QED
    BY <1>1, <2>1, TheList
<1>7. ~Over => /\ f \in 0..Len(u) /\ (f # 0 => acCx[u[f]] = c)
               /\ \A k \in 1..Len(u) : k < f \/ f = 0 => acCx[u[k]] # c
  <2> SUFFICES ASSUME ~Over
               PROVE  /\ f \in 0..Len(u) /\ (f # 0 => acCx[u[f]] = c)
                      /\ \A k \in 1..Len(u) : k < f \/ f = 0 => acCx[u[k]] # c
    OBVIOUS
  <2> DEFINE P == {i \in DOMAIN u : acCx[u[i]] = c}
  <2>1. Len(u) \in Nat /\ P \subseteq 1..Len(u) /\ (\A k \in 1..Len(u) : k \in P <=> acCx[u[k]] = c)
    BY <1>6
  <2>2. f = FirstIn(P, 0)
    BY <1>2
  <2> HIDE DEF P
  <2>3. P = {} => f = 0
    BY <2>1, <2>2, FirstIs
  <2>4. P # {} => f \in P /\ \A k \in P : f <= k
    BY <2>1, <2>2, FirstIs
  <2>5. CASE P = {}
    BY <2>1, <2>3, <2>5
  <2>6. CASE P # {}
    <3>1. f \in 1..Len(u) /\ acCx[u[f]] = c
      BY <2>1, <2>4, <2>6
    <3>2. ASSUME NEW k \in 1..Len(u), k < f PROVE k \notin P
      BY <2>1, <2>4, <2>6, <3>1, <3>2
    <3> QED
      BY <2>1, <3>1, <3>2
  <2> QED
    BY <2>5, <2>6
<1>8. CASE AcTrap("lock", c)
  BY <1>4, <1>8, TrapStops
<1>9. CASE /\ ~acCleanup[c] \/ acHead = NoEntry \/ (LockExists /\ f = 0)
           /\ CxGone(c) /\ UNCHANGED <<acList, acHeap, acThreads, acTrap>>
  <2>1. ASSUME ~Over, NEW e \in Listed PROVE acCx[e] # c
    <3>1. PICK k \in 1..Len(u) : e = u[k]
      BY <1>6, <2>1
    <3>2. CASE ~acCleanup[c]
      BY <1>4, <2>1, <3>2 DEF ListHasOwners, AnswersFor
    <3>3. CASE acHead = NoEntry
      <4>1. 1 \in 1..Len(u)
        BY <1>6, <2>1, <3>1
      <4> QED
        BY <1>6, <2>1, <3>3, <4>1
    <3>4. CASE f = 0
      BY <1>7, <2>1, <3>1, <3>4
    <3> QED
      BY <1>9, <3>2, <3>3, <3>4
  <2> QED
    BY <1>4, <1>9, <2>1, CxGoneKeeps
<1>10. CASE /\ acCleanup[c] /\ LockExists /\ f # 0
            /\ Relink(f, EntryAt(b), acNext)
            /\ AcGoto(c, "segment", u[f], u[b - 1])
            /\ UNCHANGED <<acCx, acHeap, acFlags, acThreads, acTrap>>
  <2>1. /\ IF f = 1 THEN acHead' = EntryAt(b) /\ acNext' = acNext
           ELSE acHead' = acHead /\ acNext' = [acNext EXCEPT ![u[f - 1]] = EntryAt(b)]
        /\ acPc' = [acPc EXCEPT ![c] = "segment"]
        /\ acAt' = [acAt EXCEPT ![c] = u[f]] /\ acSaved' = [acSaved EXCEPT ![c] = u[b - 1]]
        /\ acInstalled' = acInstalled /\ acTriggered' = acTriggered /\ acCleanup' = acCleanup
        /\ acCx' = acCx /\ acAllocated' = acAllocated /\ acDisturbed' = acDisturbed
        /\ acTrigger' = acTrigger /\ acMain' = acMain /\ acTrap' = NoTrapYet
    BY <1>1, <1>10 DEF Relink, AcGoto, acHeap, acFlags, acThreads
  <2>2. ~Over /\ (Over' <=> Over)
    BY <1>10, <2>1 DEF Over, LockExists
  <2>3. f \in 1..Len(u) /\ acCx[u[f]] = c /\ Len(u) \in Nat
    BY <1>6, <1>7, <1>10, <2>2
  <2>4. /\ b \in 1..(Len(u) + 1) /\ f < b
        /\ b # Len(u) + 1 => acCx[u[b]] # c
        /\ \A k \in 1..Len(u) : k > f /\ k < b => acCx[u[k]] = c
    <3> DEFINE P == {i \in DOMAIN u : i > f /\ acCx[u[i]] # c}
    <3>1. Len(u) \in Nat /\ P \subseteq 1..Len(u)
          /\ (\A k \in 1..Len(u) : k \in P <=> k > f /\ acCx[u[k]] # c)
      BY <1>6, <2>2
    <3>2. b = FirstIn(P, Len(u) + 1)
      BY <1>3
    <3> HIDE DEF P
    <3>3. P = {} => b = Len(u) + 1
      BY <3>1, <3>2, FirstIs
    <3>4. P # {} => b \in P /\ \A k \in P : b <= k
      BY <3>1, <3>2, FirstIs
    <3>5. CASE P = {}
      BY <2>3, <3>1, <3>3, <3>5
    <3>6. CASE P # {}
      <4>1. b \in 1..Len(u) /\ b > f /\ acCx[u[b]] # c
        BY <3>1, <3>4, <3>6
      <4>2. \A k \in 1..Len(u) : k < b => k \notin P
        BY <3>1, <3>4, <3>6, <4>1
      <4> QED
        BY <2>3, <3>1, <4>1, <4>2
    <3> QED
      BY <3>5, <3>6
  <2>5. \A k \in 1..Len(u) : acCx[u[k]] = c <=> k >= f /\ k < b
    <3> TAKE k \in 1..Len(u)
    <3>1. CASE k < f
      BY <1>7, <2>2, <2>3, <3>1
    <3>2. CASE k >= f /\ k < b
      BY <2>3, <2>4, <3>2
    <3>3. CASE k >= b
      <4>1. b \in 1..Len(u) /\ b # Len(u) + 1
        BY <2>3, <2>4, <3>3
      <4>2. acCx[u[b]] <= acCx[u[f]] /\ acCx[u[b]] # c
        BY <1>6, <2>2, <2>3, <2>4, <4>1
      <4>3. acCx[u[k]] <= acCx[u[b]]
        <5>1. k = b \/ k > b
          BY <2>3, <3>3, <4>1
        <5> QED
          BY <1>6, <2>2, <4>1, <5>1
      <4>4. acCx[u[k]] \in Nat /\ acCx[u[b]] \in Nat /\ acCx[u[f]] \in Nat
        BY <1>6, <2>2, <2>3, <4>1
      <4>5. acCx[u[k]] # c
        BY <2>3, <4>2, <4>3, <4>4
      <4> QED
        BY <2>3, <2>4, <3>3, <4>5
    <3> QED
      BY <2>3, <2>4, <3>1, <3>2, <3>3
  <2>6. PICK h, g : h = f - 1 /\ g = b - 1
    OBVIOUS
  <2>7. /\ f # 1 => h \in 1..Len(u) /\ u[h] \in Entries
        /\ g \in 1..Len(u) /\ u[f] \in Entries /\ u[g] \in Entries
        /\ EntryAt(b) = Nth(u, b) /\ Nth(u, b) \in Entries \cup {NoEntry}
    BY <1>6, <2>2, <2>3, <2>4, <2>6 DEF Nth
  <2>8. Unlinks(u, f, b)
    <3>1. acHead' = IF f = 1 THEN Nth(u, b) ELSE acHead
      BY <2>1, <2>7
    <3>2. /\ f > 1 => acNext'[u[f - 1]] = Nth(u, b)
          /\ \A x \in Entries : (f > 1 => x # u[f - 1]) => acNext'[x] = acNext[x]
          /\ acNext' \in [Entries -> Entries \cup {NoEntry}]
      <4>1. f > 1 <=> f # 1
        BY <2>3
      <4> QED
        BY <1>4, <2>1, <2>6, <2>7, <4>1 DEF AsyncTypeOK
    <3> QED
      BY <2>1, <2>2, <2>3, <2>4, <3>1, <3>2 DEF Unlinks
  <2>9. /\ ListIsPath'
        /\ \A x : x \in Listed' <=> \E k \in 1..Len(u) : (k < f \/ k >= b) /\ x = u[k]
        /\ \A x \in acAllocated : x \in Listed \/
             (acNext'[x] = acNext[x] /\ x \in acAllocated' /\ x \notin Listed')
        /\ \A p, s : Path(acNext, p, s) /\ Elements(s) \subseteq acAllocated =>
             \E t : /\ Path(acNext', p, t) /\ Elements(t) \subseteq acAllocated'
                    /\ \A x \in Elements(t) : x \in acAllocated => x \in Elements(s)
    <3>1. ListIsPath' /\ Leaves(u, f, b)
      BY <1>1, <2>8, Unlinking
    <3> QED
      BY <3>1 DEF Leaves
  <2>10. /\ OthersWait(c) /\ acPc'[c] = "segment" /\ acAt'[c] = u[f] /\ acSaved'[c] = u[b - 1]
    BY <1>4, <2>1 DEF OthersWait, AsyncTypeOK
  <2>11. ListHasOwners'
    <3>1. ASSUME NEW x \in Listed' PROVE AnswersFor(acCx[x], x)'
      <4>1. PICK k \in 1..Len(u) : (k < f \/ k >= b) /\ x = u[k]
        BY <2>9, <3>1
      <4>2. ~(k >= f /\ k < b)
        BY <2>3, <2>4, <4>1
      <4>3. acCx[x] # c /\ x \in Listed
        BY <1>6, <2>2, <2>5, <4>1, <4>2
      <4>4. acCx' = acCx /\ acCx[x] \in Contexts \ {c} /\ AnswersFor(acCx[x], x)
        BY <1>4, <1>6, <2>1, <2>2, <4>3 DEF ListHasOwners, AsyncTypeOK
      <4> QED
        BY <2>10, <4>4 DEF AnswersFor, OthersWait
    <3> QED
      BY <3>1 DEF ListHasOwners
  <2>12. OwnInv'
    <3>1. PICK own : Owned(own)
      BY DEF AsyncInv, OwnInv
    <3>2. PICK new : /\ Segment(acNext', new) /\ Len(new) \in Nat \ {0}
                     /\ new[1] = u[f] /\ new[Len(new)] = u[b - 1]
                     /\ \A x : x \in Elements(new) <=>
                               \E k \in 1..Len(u) : k >= f /\ k < b /\ x = u[k]
      <4>1. \A k \in 1..Len(u) : k >= f /\ k < b => acNext'[u[k]] = acNext[u[k]]
        <5> TAKE k \in 1..Len(u)
        <5>1. SUFFICES ASSUME k >= f PROVE acNext'[u[k]] = acNext[u[k]]
          OBVIOUS
        <5>2. f > 1 => h \in 1..Len(u) /\ k # h
          BY <2>3, <2>6, <2>7, <5>1
        <5>3. u[k] \in Entries /\ (f > 1 => u[k] # u[f - 1])
          BY <1>6, <2>2, <2>6, <5>2
        <5> QED
          BY <2>8, <5>3 DEF Unlinks
      <4>2. Path(acNext, acHead, u)
        BY <1>6, <2>2
      <4>3. /\ Segment(acNext', Part(u, f, b)) /\ Len(Part(u, f, b)) \in Nat \ {0}
            /\ Part(u, f, b)[1] = u[f] /\ Part(u, f, b)[Len(Part(u, f, b))] = u[b - 1]
            /\ \A x : x \in Elements(Part(u, f, b)) <=>
                      \E k \in 1..Len(u) : k >= f /\ k < b /\ x = u[k]
        BY <2>3, <2>4, <4>1, <4>2, PartOfPath, SMTT(30)
      <4> QED
        BY <4>3
    <3>3. new \in Seq(Entries)
      BY <3>2 DEF Segment
    <3>4. \A x \in Elements(new) : x \in Listed /\ x \in acAllocated' /\ x \notin Listed'
      <4> TAKE x \in Elements(new)
      <4>1. PICK k \in 1..Len(u) : k >= f /\ k < b /\ x = u[k]
        BY <3>2
      <4>2. x \in Listed /\ x \in acAllocated'
        BY <1>6, <2>1, <2>2, <4>1
      <4>3. ASSUME NEW l \in 1..Len(u), l < f \/ l >= b PROVE x # u[l]
        <5>1. k # l
          BY <2>3, <2>4, <4>1, <4>3
        <5> QED
          BY <1>6, <2>2, <4>1, <5>1
      <4> QED
        BY <2>9, <4>2, <4>3
    <3>5. Owns(c, new)'
      BY <2>10, <3>2, <3>4 DEF Owns
    <3>6. acMain' \in {"join", "freeing"} => acMain \in {"join", "freeing"}
      BY <2>1
    <3> QED
      BY <1>4, <2>2, <2>9, <2>10, <3>1, <3>3, <3>4, <3>5, <3>6, OwnersGoOn, SMTT(30)
  <2>13. WalkInv'
    BY <1>4, <2>1, <2>2, <2>9, <2>10, WalkersGoOn DEF Walking
  <2>14. AsyncTypeOK'
    <3>1. acHead' \in Entries \cup {NoEntry} /\ acNext' \in [Entries -> Entries \cup {NoEntry}]
      BY <1>4, <2>1, <2>7, <2>8 DEF AsyncTypeOK, Unlinks
    <3>2. /\ acAt' \in [Contexts -> Entries \cup {NoEntry}]
          /\ acSaved' \in [Contexts -> Entries \cup {NoEntry}]
      BY <1>4, <2>1, <2>6, <2>7 DEF AsyncTypeOK
    <3> QED
      BY <1>4, <2>1, <3>1, <3>2 DEF AsyncTypeOK, NoTrapYet
  <2>15. PcInv'
    BY <1>4, <2>1, <2>7 DEF PcInv, AsyncTypeOK, Walking
  <2> QED
    BY <2>1, <2>9, <2>11, <2>12, <2>13, <2>14, <2>15, NoTrapHolds DEF AsyncInv
<1> QED
  BY <1>5, <1>8, <1>9, <1>10

\* An entry is inserted in front of the first one that does not belong before it.
LEMMA AddKeeps ==
  ASSUME AsyncInv, acTrap = NoTrapYet, NEW c \in Contexts, NEW e \in Entries, Add(c, e)
  PROVE  AsyncInv'
<1>1. PICK u : u = Chain
  OBVIOUS
<1>2. PICK i : i = FirstIn({j \in DOMAIN u : acCx[u[j]] <= c}, Len(u) + 1)
  OBVIOUS
<1>3. /\ AsyncTypeOK /\ PcInv /\ ListHasOwners /\ WalkInv /\ acPc[c] = "js" /\ e \notin acAllocated
      /\ c \in Nat
      /\ c = CoreCx => acMain = "first"
      /\ \/ ~LockExists /\ AcTrap("lock", c)
         \/ /\ LockExists
            /\ Relink(i, e, [acNext EXCEPT ![e] = EntryAt(i)])
            /\ acCx' = [acCx EXCEPT ![e] = c]
            /\ acAllocated' = acAllocated \cup {e}
            /\ acMain' = IF c = CoreCx THEN "run" ELSE acMain
            /\ AcGoto(c, "added", e, NoEntry)
            /\ UNCHANGED <<acDisturbed, acFlags, acTrigger, acTrap>>
  BY <1>1, <1>2, AsyncAssumption DEF AsyncInv, Add, MayAdd, MayAllocate
<1>4. CASE AcTrap("lock", c)
  BY <1>4, TrapStops
<1>5. CASE /\ LockExists
           /\ Relink(i, e, [acNext EXCEPT ![e] = EntryAt(i)])
           /\ acCx' = [acCx EXCEPT ![e] = c]
           /\ acAllocated' = acAllocated \cup {e}
           /\ acMain' = IF c = CoreCx THEN "run" ELSE acMain
           /\ AcGoto(c, "added", e, NoEntry)
           /\ UNCHANGED <<acDisturbed, acFlags, acTrigger, acTrap>>
  <2>1. /\ IF i = 1 THEN acHead' = e /\ acNext' = [acNext EXCEPT ![e] = EntryAt(i)]
           ELSE /\ acHead' = acHead
                /\ acNext' = [[acNext EXCEPT ![e] = EntryAt(i)] EXCEPT ![u[i - 1]] = e]
        /\ acPc' = [acPc EXCEPT ![c] = "added"]
        /\ acAt' = [acAt EXCEPT ![c] = e] /\ acSaved' = [acSaved EXCEPT ![c] = NoEntry]
        /\ acInstalled' = acInstalled /\ acTriggered' = acTriggered /\ acCleanup' = acCleanup
        /\ acCx' = [acCx EXCEPT ![e] = c] /\ acAllocated' = acAllocated \cup {e}
        /\ acDisturbed' = acDisturbed
        /\ acTrigger' = acTrigger /\ acMain' = (IF c = CoreCx THEN "run" ELSE acMain)
        /\ acTrap' = NoTrapYet
    BY <1>1, <1>5 DEF Relink, AcGoto, acFlags
  <2>2. ~Over /\ ~Over'
    BY <1>5, <2>1 DEF Over, LockExists
  <2>3. /\ Path(acNext, acHead, u) /\ u \in Seq(Entries) /\ Len(u) \in Nat
        /\ DOMAIN u = 1..Len(u)
        /\ \A k \in 1..Len(u) : u[k] \in Entries /\ u[k] \in acAllocated /\ acCx[u[k]] \in Nat
        /\ \A k, l \in 1..Len(u) : u[k] = u[l] => k = l
        /\ \A k, l \in 1..Len(u) : k < l => acCx[u[l]] <= acCx[u[k]]
        /\ \A x : x \in Listed <=> \E k \in 1..Len(u) : x = u[k]
        /\ Listed = Elements(u) /\ Listed \subseteq acAllocated /\ Listed \subseteq Entries
        /\ e \notin Elements(u)
    BY <1>1, <1>3, <2>2, TheList
  <2>4. EntryAt(i) = Nth(u, i) /\ Nth(u, i) \in Entries \cup {NoEntry}
    BY <1>1, <2>3 DEF EntryAt, Nth
  <2>5. /\ i \in 1..(Len(u) + 1)
        /\ \A k \in 1..Len(u) : k < i => c <= acCx[u[k]]
        /\ \A k \in 1..Len(u) : k >= i => acCx[u[k]] <= c
    <3> DEFINE P == {j \in DOMAIN u : acCx[u[j]] <= c}
    <3>1. Len(u) \in Nat /\ P \subseteq 1..Len(u) /\ \A k \in 1..Len(u) : k \in P <=> acCx[u[k]] <= c
      BY <2>3
    <3>2. i = FirstIn(P, Len(u) + 1)
      BY <1>2
    <3> HIDE DEF P
    <3>3. P = {} => i = Len(u) + 1
      BY <3>1, <3>2, FirstIs
    <3>4. P # {} => i \in P /\ \A k \in P : i <= k
      BY <3>1, <3>2, FirstIs
    <3>5. CASE P = {}
      BY <1>3, <2>3, <3>1, <3>3, <3>5
    <3>6. CASE P # {}
      <4>1. i \in 1..Len(u) /\ acCx[u[i]] <= c
        BY <3>1, <3>4, <3>6
      <4>2. ASSUME NEW k \in 1..Len(u), k < i PROVE c <= acCx[u[k]]
        <5>1. k \notin P
          BY <3>1, <3>4, <3>6, <4>1, <4>2
        <5> QED
          BY <1>3, <2>3, <3>1, <5>1
      <4>3. ASSUME NEW k \in 1..Len(u), k >= i PROVE acCx[u[k]] <= c
        <5>1. k = i \/ k > i
          BY <4>1, <4>3
        <5>2. acCx[u[k]] <= acCx[u[i]]
          BY <2>3, <4>1, <5>1
        <5> QED
          BY <1>3, <2>3, <4>1, <5>2
      <4> QED
        BY <3>1, <4>1, <4>2, <4>3
    <3> QED
      BY <3>5, <3>6
  <2>6. PICK h : h = i - 1
    OBVIOUS
  <2>7. i # 1 => h \in 1..Len(u) /\ u[h] \in Entries /\ u[h] # e /\ u[h] \in Listed
    BY <1>3, <2>3, <2>5, <2>6
  <2>8. /\ acNext' \in [Entries -> Entries \cup {NoEntry}]
        /\ acNext'[e] = Nth(u, i)
        /\ i > 1 => acNext'[u[i - 1]] = e
        /\ \A x \in Entries : x # e /\ (i > 1 => x # u[i - 1]) => acNext'[x] = acNext[x]
    <3>1. i > 1 <=> i # 1
      BY <2>5
    <3> QED
      BY <1>3, <2>1, <2>4, <2>6, <2>7, <3>1 DEF AsyncTypeOK
  <2>9. PICK t : t = Inserted(u, i, e)
    OBVIOUS
  <2>10. /\ Path(acNext', acHead', t) /\ Len(t) = Len(u) + 1
         /\ Elements(t) = Elements(u) \cup {e}
    <3>1. \A k \in 1..Len(u) : k # i - 1 => acNext'[u[k]] = acNext[u[k]]
      <4> TAKE k \in 1..Len(u)
      <4>1. SUFFICES ASSUME k # i - 1 PROVE acNext'[u[k]] = acNext[u[k]]
        OBVIOUS
      <4>2. i > 1 => u[k] # u[i - 1]
        BY <2>3, <2>5, <2>6, <2>7, <4>1
      <4>3. u[k] # e /\ u[k] \in Entries
        BY <1>3, <2>3
      <4> QED
        BY <2>8, <4>2, <4>3
    <3>2. /\ Path(acNext', IF i = 1 THEN e ELSE acHead, Inserted(u, i, e))
          /\ Len(Inserted(u, i, e)) = Len(u) + 1
          /\ Elements(Inserted(u, i, e)) = Elements(u) \cup {e}
      BY <2>3, <2>5, <2>8, <3>1, InsertedPath, SMTT(30)
    <3> QED
      BY <2>1, <2>9, <3>2
  <2>11. Chain' = t
    <3>1. ChainFrom(acHead', acNext') = t
      BY <2>8, <2>10, ChainIsPath
    <3> QED
      BY <3>1 DEF Chain
  <2>12. \A x : x \in Listed' <=> x \in Listed \/ x = e
    <3>1. Listed' = Elements(t)
      BY <2>11 DEF Listed, Elements
    <3> QED
      BY <2>3, <2>10, <3>1
  <2>13. acCx'[e] = c /\ \A x \in Entries : x # e => acCx'[x] = acCx[x]
    BY <1>3, <2>1 DEF AsyncTypeOK
  <2>14. ListIsPath'
    <3>1. Ordered(acCx', t)
      <4>1. Ordered(acCx, u)
        BY <1>1, <2>2 DEF AsyncInv, ListIsPath
      <4> QED
        BY <1>3, <2>3, <2>5, <2>9, <2>10, <2>13, <4>1, InsertedOrdered
    <3>2. (Listed \subseteq acAllocated)'
      BY <2>1, <2>3, <2>12
    <3> QED
      BY <2>10, <2>11, <3>1, <3>2 DEF ListIsPath
  <2>15. /\ OthersWait(c) /\ acPc'[c] = "added" /\ acAt'[c] = e /\ acCleanup'[c] = acCleanup[c]
    BY <1>3, <2>1 DEF OthersWait, AsyncTypeOK
  <2>16. ListHasOwners'
    <3>1. ASSUME NEW x \in Listed' PROVE AnswersFor(acCx[x], x)'
      <4>1. CASE x = e
        BY <2>13, <2>15, <4>1 DEF AnswersFor
      <4>2. CASE x # e
        <5>1. x \in Listed /\ x \in Entries /\ acCx'[x] = acCx[x]
          BY <2>3, <2>12, <2>13, <3>1, <4>2
        <5>2. AnswersFor(acCx[x], x) /\ acCx[x] \in Contexts
          BY <1>3, <2>2, <5>1 DEF ListHasOwners, AsyncTypeOK
        <5>3. CASE acCx[x] = c
          BY <1>3, <2>15, <5>1, <5>2, <5>3 DEF AnswersFor
        <5>4. CASE acCx[x] # c
          BY <2>15, <5>1, <5>2, <5>4 DEF AnswersFor, OthersWait
        <5> QED
          BY <5>3, <5>4
      <4> QED
        BY <4>1, <4>2
    <3> QED
      BY <3>1 DEF ListHasOwners
  <2>17. acMain' \in {"join", "freeing"} => acMain \in {"join", "freeing"} /\ c # CoreCx
    BY <2>1
  <2>18. OwnInv'
    <3>1. PICK own : Owned(own)
      BY DEF AsyncInv, OwnInv
    <3>2. own[c] \in Seq(Entries) /\ Owns(c, own[c])
      BY <3>1 DEF Owned
    <3>3. Owns(c, own[c])'
      BY <1>3, <2>1, <2>2, <2>12, <2>15, <3>2 DEF Owns
    <3>4. ASSUME NEW x \in acAllocated, x \notin Listed
          PROVE  acNext'[x] = acNext[x] /\ x \in acAllocated' /\ x \notin Listed'
      <4>1. x # e /\ x \in Entries
        BY <1>3 DEF AsyncTypeOK
      <4>2. i > 1 => x # u[i - 1]
        BY <2>6, <2>7, <3>4
      <4> QED
        BY <2>1, <2>8, <2>12, <3>4, <4>1, <4>2
    <3> QED
      BY <2>2, <2>15, <2>17, <3>1, <3>2, <3>3, <3>4, OwnersGoOn, SMTT(30)
  <2>19. WalkInv'
    <3>1. ASSUME NEW p, NEW s, Path(acNext, p, s), Elements(s) \subseteq acAllocated
          PROVE  \E v : Path(acNext', p, v) /\ Elements(v) \subseteq Elements(s) \cup {e}
      <4>1. e \notin Elements(s)
        BY <1>3, <3>1
      <4> QED
        BY <2>3, <2>5, <2>8, <3>1, <4>1, InsertedBehind, SMTT(30)
    <3>2. \A p, s : Path(acNext, p, s) /\ Elements(s) \subseteq acAllocated =>
            \E v : /\ Path(acNext', p, v) /\ Elements(v) \subseteq acAllocated'
                   /\ \A x \in Elements(v) : x \in acAllocated => x \in Elements(s)
      BY <1>3, <2>1, <3>1
    <3> QED
      BY <1>3, <2>1, <2>2, <2>15, <3>2, WalkersGoOn DEF Walking
  <2>20. AsyncTypeOK'
    <3>1. acHead' \in Entries \cup {NoEntry} /\ acAllocated' \subseteq Entries
          /\ acMain' \in {"create", "first", "run", "join", "joined", "freeing", "done"}
      BY <1>3, <2>1 DEF AsyncTypeOK
    <3> QED
      BY <1>3, <2>1, <2>8, <3>1 DEF AsyncTypeOK, NoTrapYet
  <2>21. PcInv'
    <3>1. acPc'[CoreCx] = IF c = CoreCx THEN "added" ELSE acPc[CoreCx]
      BY <1>3, <2>1, AsyncAssumption DEF AsyncTypeOK
    <3>2. acMain' \in {"join", "freeing"} => acPc'[CoreCx] = "js"
      BY <1>3, <2>17, <3>1 DEF PcInv
    <3>3. \A d \in Contexts : acPc'[d] \in {"added", "segment"} \cup Walking => acAt'[d] \in Entries
      <4> TAKE d \in Contexts
      <4>1. CASE d = c
        BY <2>15, <4>1
      <4>2. CASE d # c
        BY <1>3, <2>15, <4>2 DEF PcInv, OthersWait
      <4> QED
        BY <4>1, <4>2
    <3>4. acPc'[CoreCx] \in {"js", "added"}
      BY <1>3, <3>1 DEF PcInv
    <3> QED
      BY <3>2, <3>3, <3>4 DEF PcInv
  <2> QED
    BY <2>1, <2>14, <2>16, <2>18, <2>19, <2>20, <2>21, NoTrapHolds DEF AsyncInv
<1> QED
  BY <1>3, <1>4, <1>5

-----------------------------------------------------------------------------

\* The inductive invariant holds initially.
LEMMA AsyncStarts == AsyncInit => AsyncInv
<1> SUFFICES ASSUME AsyncInit PROVE AsyncInv
  OBVIOUS
<1>1. AsyncTypeOK /\ CoreCx \in Contexts
  BY AsyncAssumption DEF AsyncInit, AsyncTypeOK, NoTrapYet
<1>2. PcInv
  BY <1>1 DEF AsyncInit, PcInv, Walking
<1>3. Path(acNext, acHead, <<>>)
  BY DEF AsyncInit, Path, Nth
<1>4. Chain = <<>> /\ Listed = {}
  <2>1. Chain = <<>>
    BY <1>1, <1>3, ChainIsPath DEF Chain, AsyncTypeOK
  <2> QED
    BY <2>1 DEF Listed
<1>5. ListIsPath /\ ListHasOwners
  BY <1>3, <1>4 DEF ListIsPath, ListHasOwners, Ordered
<1>6. OwnInv
  <2> DEFINE own == [c \in Contexts |-> <<>>]
  <2>1. own \in [Contexts -> Seq(Entries)] /\ \A c \in Contexts : \A x : x \notin Elements(own[c])
    BY DEF Elements
  <2> HIDE DEF own
  <2>2. \A c \in Contexts : acPc[c] \notin {"free", "segment"}
    BY DEF AsyncInit
  <2>3. Owned(own)
    BY <2>1, <2>2 DEF Owned, Owns, AsyncInit
  <2> QED
    BY <2>3 DEF OwnInv
<1>7. WalkInv
  BY DEF AsyncInit, WalkInv, Walking
<1>8. UndisturbedWalksAreSafe /\ EntriesFreedOnce
  BY DEF AsyncInit, UndisturbedWalksAreSafe, EntriesFreedOnce, NoTrapYet
<1> QED
  BY <1>1, <1>2, <1>5, <1>6, <1>7, <1>8 DEF AsyncInv

\* Every step of the callbacks keeps it.
LEMMA AsyncStep == AsyncInv /\ [AsyncNext]_asyncVars => AsyncInv'
<1> SUFFICES ASSUME AsyncInv, [AsyncNext]_asyncVars PROVE AsyncInv'
  OBVIOUS
<1>1. CASE AsyncNext
  <2>1. acTrap = NoTrapYet
    BY <1>1 DEF AsyncNext
  <2>2. CASE \E c \in Contexts \ {CoreCx} : CreateCx(c) \/ DestroyCx(c) \/ StartWalk(c)
    BY <2>1, <2>2, CreateCxKeeps, DestroyCxKeeps, StartWalkKeeps
  <2>3. ASSUME NEW c \in Contexts, CxStep(c) PROVE AsyncInv'
    <3>1. CASE AddTest(c) \/ SaveNext(c) \/ Call(c) \/ CallRefuses(c)
      BY <2>1, <3>1, AddTestKeeps, SaveNextKeeps, CallKeeps, CallRefusesKeeps
    <3>2. CASE CallRemoves(c) \/ FreeRemoved(c) \/ FreeSegment(c)
      BY <2>1, <3>2, CallRemovesKeeps, FreeRemovedKeeps, FreeSegmentKeeps
    <3>3. CASE AfterRemoval(c)
      BY <2>1, <3>3, AdvanceKeeps DEF AfterRemoval
    <3> QED
      BY <2>3, <3>1, <3>2, <3>3 DEF CxStep
  <2>4. CASE \E c \in Contexts, e \in Entries : Add(c, e)
    BY <2>1, <2>4, AddKeeps
  <2>5. CASE TriggerPass \/ TriggerTest
    BY <2>1, <2>5, TriggerKeeps
  <2>6. CASE RuntimeStep
    BY <2>1, <2>6, SpawnAndJoinKeep, CutListKeeps, FreeAllKeeps DEF RuntimeStep
  <2> QED
    BY <1>1, <2>2, <2>3, <2>4, <2>5, <2>6 DEF AsyncNext
<1>2. CASE UNCHANGED asyncVars
  <2>1. /\ acHead' = acHead /\ acNext' = acNext /\ acCx' = acCx /\ acAllocated' = acAllocated
        /\ acDisturbed' = acDisturbed /\ acPc' = acPc /\ acAt' = acAt /\ acSaved' = acSaved
        /\ acInstalled' = acInstalled /\ acTriggered' = acTriggered /\ acCleanup' = acCleanup
        /\ acTrigger' = acTrigger /\ acMain' = acMain /\ acTrap' = acTrap
    BY <1>2 DEF asyncVars, acList, acHeap, acWalk, acFlags, acThreads
  <2>2. AsyncTypeOK' /\ PcInv' /\ UndisturbedWalksAreSafe' /\ EntriesFreedOnce'
    BY <2>1 DEF AsyncInv, AsyncTypeOK, PcInv, UndisturbedWalksAreSafe, EntriesFreedOnce
  <2>3. Chain' = Chain /\ (Over' <=> Over)
    BY <2>1 DEF Chain, Over
  <2>4. Listed' = Listed
    BY <2>3 DEF Listed
  <2>5. ListIsPath' /\ ListHasOwners'
    BY <2>1, <2>3, <2>4 DEF AsyncInv, ListIsPath, ListHasOwners, AnswersFor
  <2>6. OwnInv'
    <3>1. PICK own : Owned(own)
      BY DEF AsyncInv, OwnInv
    <3>2. Owned(own)'
      BY <2>1, <2>3, <2>4, <3>1 DEF Owned, Owns
    <3> QED
      BY <3>2 DEF OwnInv
  <2>7. WalkInv'
    BY <2>1, <2>3 DEF AsyncInv, WalkInv, WalkIsSafe, Ahead
  <2> QED
    BY <2>2, <2>5, <2>6, <2>7 DEF AsyncInv
<1> QED
  BY <1>1, <1>2

LEMMA AsyncInvariant == AsyncSpec => []AsyncInv
<1>1. AsyncInit => AsyncInv
  BY AsyncStarts
<1>2. AsyncInv /\ [AsyncNext]_asyncVars => AsyncInv'
  BY AsyncStep
<1> QED
  BY <1>1, <1>2, PTL DEF AsyncSpec

\* Every variable of the asynchronous callbacks has its type.
THEOREM AsyncTypeCorrect == AsyncSpec => []AsyncTypeOK
<1>1. AsyncInv => AsyncTypeOK
  BY DEF AsyncInv
<1> QED
  BY <1>1, AsyncInvariant, PTL

\* No entry outlives its context, a walk that no other thread has disturbed meets no freed
\* entry, and an entry is freed once: gpsee_removeAsyncCallbackContext and
\* gpsee_operationCallback, for any number of contexts and entries.
THEOREM CallbackListIsSafe == AsyncSpec => []CallbackListSafe
<1>1. AsyncInv => NoOrphans
  <2> SUFFICES ASSUME AsyncInv, acMain \in {"first", "run", "join"}, NEW e \in Listed
               PROVE  /\ e \in acAllocated /\ acPc[acCx[e]] # "absent"
                      /\ acPc[acCx[e]] # "added" => acCleanup[acCx[e]]
    BY DEF NoOrphans
  <2>1. ~Over
    BY DEF Over
  <2> QED
    BY <2>1 DEF AsyncInv, ListIsPath, ListHasOwners, AnswersFor
<1>2. AsyncInv => CallbackListSafe
  BY <1>1 DEF AsyncInv, CallbackListSafe
<1> QED
  BY <1>2, AsyncInvariant, PTL

-----------------------------------------------------------------------------
(* The three parts of the runtime together                                   *)

\* The state of whichever part a behaviour of the runtime has keeps its types: what the
\* run of MCRuntime checks, for any number of contexts, entries, threads and realms.
THEOREM RuntimeTypeCorrect == Spec => []TypeOK
<1> DEFINE Inv == AsyncInv /\ SignalInv /\ RealmInv
<1>1. Init => Inv
  BY AsyncStarts, SignalStarts, RealmStarts DEF Init
<1>2. Inv /\ [Next]_vars => Inv'
  <2> SUFFICES ASSUME Inv, [Next]_vars PROVE Inv'
    OBVIOUS
  <2>1. /\ [AsyncNext]_asyncVars /\ [SignalNext]_signalVars /\ [RealmNext]_realmVars
    BY DEF Next, Async, Signal, Realm, vars
  <2> QED
    BY <2>1, AsyncStep, SignalStep, RealmNextInv
<1>3. Inv => TypeOK
  BY DEF AsyncInv, SignalInv, RealmInv, TypeOK
<1> QED
  BY <1>1, <1>2, <1>3, PTL DEF Spec
=============================================================================
