------------------------------ MODULE SignalSlots ------------------------------
(***************************************************************************)
(* The signal module, signal.c, for one signal: the slot of signalEvents,  *)
(* whose word "pending" is changed by compare-and-swap only and doubles as *)
(* the lock of the slot; the POSIX handler signal_js; signal_runHandlers,  *)
(* which every context's operation callback calls; and the setting and the *)
(* removal of a handler by scripts.                                        *)
(*                                                                         *)
(* signal_js interrupts the thread the signal is delivered to: that thread *)
(* does nothing else until it returns.  A call of JSVAL_VOID, and a        *)
(* trigger of the operation callback of NULL, end the program (sgTrap).    *)
(***************************************************************************)
EXTENDS Naturals

CONSTANTS SigThreads,      \* the threads, each with the context it runs
          NoCx,            \* NULL
          MaxSignals       \* bound: how often the signal is sent

ASSUME SignalAssumption == NoCx \notin SigThreads /\ MaxSignals \in Nat

VARIABLES pending,         \* signalEvents[sig].pending
          handlerCx,       \* signalEvents[sig].cx
          funv,            \* signalEvents[sig].funv
          oact,            \* signalEvents[sig].oact
          action,          \* the action the operating system takes on the signal
          sgPc,            \* per thread: its step in the module
          sgWant,          \* per thread: whether it sets or removes a handler
          delivery,        \* per thread: the step of signal_js that interrupts it
          sgSent,          \* how often the signal has been sent
          sgRemoved,       \* a handler has been removed
          sgTrap           \* what has ended the program

sgSlot == <<pending, handlerCx, funv>>
sgOs == <<oact, action>>
sgOut == <<sgRemoved, sgTrap>>
signalVars == <<sgSlot, sgOs, sgPc, sgWant, delivery, sgSent, sgOut>>

FreeSlot == "JSVAL_FALSE"
Pending == "JSVAL_TRUE"
Locked == "JSVAL_VOID"

SignalTypeOK ==
  /\ pending \in {FreeSlot, Pending, Locked}
  /\ handlerCx \in SigThreads \cup {NoCx}
  /\ funv \in {"void", "function"}
  /\ oact \in {"original", "signal_js"} /\ action \in {"original", "signal_js"}
  /\ sgPc \in [SigThreads -> {"js", "take", "call", "done",
                              "lock", "retry", "lockAgain", "setCx", "setFunv", "unlock", "os",
                              "finiFunv", "finiCx"}]
  /\ sgWant \in [SigThreads -> {"nothing", "set", "remove"}]
  /\ delivery \in [SigThreads -> {"none", "mark", "test", "trigger", "reset"}]
  /\ sgSent \in 0..MaxSignals
  /\ sgRemoved \in BOOLEAN
  /\ sgTrap \in {"none", "void", "null"}

\* Mutant: "Loading the signal module causes all catchable signals to be caught".
SignalInitCatches ==
  /\ pending = FreeSlot /\ handlerCx = NoCx /\ funv = "void"
  /\ oact = "original" /\ action = "signal_js"
  /\ sgPc = [t \in SigThreads |-> "js"]
  /\ sgWant = [t \in SigThreads |-> "nothing"]
  /\ delivery = [t \in SigThreads |-> "none"]
  /\ sgSent = 0
  /\ sgRemoved = FALSE
  /\ sgTrap = "none"

\* signal_InitModule: no handler, and the actions that are in force are noted.
SignalInit ==
  /\ pending = FreeSlot /\ handlerCx = NoCx /\ funv = "void"
  /\ oact = "original" /\ action = "original"
  /\ sgPc = [t \in SigThreads |-> "js"]
  /\ sgWant = [t \in SigThreads |-> "nothing"]
  /\ delivery = [t \in SigThreads |-> "none"]
  /\ sgSent = 0
  /\ sgRemoved = FALSE
  /\ sgTrap = "none"

Running == sgTrap = "none"

\* The thread runs: neither has the program ended nor does signal_js interrupt it.
At(t, pc) == Running /\ delivery[t] = "none" /\ sgPc[t] = pc

SgGoto(t, pc) == sgPc' = [sgPc EXCEPT ![t] = pc]

-----------------------------------------------------------------------------
(* signal_js                                                                 *)

InSignalJs(t, step) == Running /\ delivery[t] = step
DeliverGoto(t, step) == delivery' = [delivery EXCEPT ![t] = step]

\* The operating system calls signal_js on a thread that it has not interrupted yet.
Deliver(t) ==
  /\ InSignalJs(t, "none") /\ action = "signal_js" /\ sgSent < MaxSignals
  /\ DeliverGoto(t, "mark")
  /\ sgSent' = sgSent + 1
  /\ UNCHANGED <<sgSlot, sgOs, sgPc, sgWant, sgOut>>

\* JSVAL_FALSE -> JSVAL_TRUE; otherwise the signal is dropped.
Mark(t) ==
  /\ InSignalJs(t, "mark")
  /\ IF pending = FreeSlot
     THEN pending' = Pending /\ DeliverGoto(t, "test")
     ELSE UNCHANGED pending /\ DeliverGoto(t, "none")
  /\ UNCHANGED <<handlerCx, funv, sgOs, sgPc, sgWant, sgSent, sgOut>>

\* Is there a handler to run?
TestHandler(t) ==
  /\ InSignalJs(t, "test")
  /\ DeliverGoto(t, IF handlerCx # NoCx /\ funv # "void" THEN "trigger" ELSE "reset")
  /\ UNCHANGED <<sgSlot, sgOs, sgPc, sgWant, sgSent, sgOut>>

\* The context is read once more, for JS_TriggerOperationCallback.
TriggerHandler(t) ==
  /\ InSignalJs(t, "trigger")
  /\ DeliverGoto(t, "none")
  /\ sgTrap' = IF handlerCx = NoCx THEN "null" ELSE "none"
  /\ UNCHANGED <<sgSlot, sgOs, sgPc, sgWant, sgSent, sgRemoved>>

\* JSVAL_TRUE -> JSVAL_FALSE
ResetPending(t) ==
  /\ InSignalJs(t, "reset")
  /\ pending' = IF pending = Pending THEN FreeSlot ELSE pending
  /\ DeliverGoto(t, "none")
  /\ UNCHANGED <<handlerCx, funv, sgOs, sgPc, sgWant, sgSent, sgOut>>

-----------------------------------------------------------------------------
(* signal_runHandlers                                                        *)

\* Where a run of the handlers returns to.
AfterRun(t) == IF sgWant[t] = "nothing" THEN "js" ELSE "retry"

\* The operation callback of the thread's context runs the handlers.
RunHandlers(t) ==
  /\ At(t, "js")
  /\ SgGoto(t, "take")
  /\ UNCHANGED <<sgSlot, sgOs, sgWant, delivery, sgSent, sgOut>>

\* Mutant: a pending signal is tested for and then locked.
TakeUnswapped(t) ==
  /\ At(t, "take")
  /\ pending' = IF pending = FreeSlot THEN FreeSlot ELSE Locked
  /\ SgGoto(t, IF pending = FreeSlot THEN AfterRun(t) ELSE "call")
  /\ UNCHANGED <<handlerCx, funv, sgOs, sgWant, delivery, sgSent, sgOut>>

\* JSVAL_TRUE -> JSVAL_VOID
Take(t) ==
  /\ At(t, "take")
  /\ pending' = IF pending = Pending THEN Locked ELSE pending
  /\ SgGoto(t, IF pending = Pending THEN "call" ELSE AfterRun(t))
  /\ UNCHANGED <<handlerCx, funv, sgOs, sgWant, delivery, sgSent, sgOut>>

\* JS_CallFunctionValue of the handler.  A handler that sets or removes one for its own
\* signal finds the slot locked, and changes nothing.
CallHandler(t) ==
  /\ At(t, "call")
  /\ sgTrap' = IF funv = "void" THEN "void" ELSE "none"
  /\ SgGoto(t, "done")
  /\ UNCHANGED <<sgSlot, sgOs, sgWant, delivery, sgSent, sgRemoved>>

\* Mutant: a handler that has thrown keeps the slot.
DoneReturnsEarly(t) ==
  /\ At(t, "done")
  /\ SgGoto(t, AfterRun(t))
  /\ UNCHANGED <<sgSlot, sgOs, sgWant, delivery, sgSent, sgOut>>

\* JSVAL_VOID -> JSVAL_FALSE, which is asserted to succeed.
Done(t) ==
  /\ At(t, "done")
  /\ pending' = FreeSlot
  /\ SgGoto(t, AfterRun(t))
  /\ UNCHANGED <<handlerCx, funv, sgOs, sgWant, delivery, sgSent, sgOut>>

-----------------------------------------------------------------------------
(* signal_setSignalHandler and signal_removeSignalHandler                    *)

\* A script sets a handler, or removes it.
CallChange(t, want) ==
  /\ At(t, "js")
  /\ sgWant' = [sgWant EXCEPT ![t] = want]
  /\ SgGoto(t, "lock")
  /\ UNCHANGED <<sgSlot, sgOs, delivery, sgSent, sgOut>>

\* JSVAL_FALSE -> JSVAL_VOID.  When it fails the thread yields if the handler is one of
\* another context, and runs the handlers if it is one of its own.
LockSlot(t) ==
  /\ At(t, "lock")
  /\ pending' = IF pending = FreeSlot THEN Locked ELSE pending
  /\ SgGoto(t, IF pending = FreeSlot THEN "setCx"
               ELSE IF handlerCx = t THEN "take" ELSE "retry")
  /\ UNCHANGED <<handlerCx, funv, sgOs, sgWant, delivery, sgSent, sgOut>>

Throw(t) == SgGoto(t, "js") /\ sgWant' = [sgWant EXCEPT ![t] = "nothing"]

\* The signal is pending still: an exception.
Retry(t) ==
  /\ At(t, "retry")
  /\ IF pending = Pending THEN Throw(t) ELSE SgGoto(t, "lockAgain") /\ UNCHANGED sgWant
  /\ UNCHANGED <<sgSlot, sgOs, delivery, sgSent, sgOut>>

\* JSVAL_FALSE -> JSVAL_VOID once more, or an exception.
LockAgain(t) ==
  /\ At(t, "lockAgain")
  /\ IF pending = FreeSlot
     THEN pending' = Locked /\ SgGoto(t, "setCx") /\ UNCHANGED sgWant
     ELSE Throw(t) /\ UNCHANGED pending
  /\ UNCHANGED <<handlerCx, funv, sgOs, delivery, sgSent, sgOut>>

SetCx(t) ==
  /\ At(t, "setCx")
  /\ handlerCx' = IF sgWant[t] = "set" THEN t ELSE NoCx
  /\ sgRemoved' = (sgRemoved \/ sgWant[t] = "remove")
  /\ SgGoto(t, "setFunv")
  /\ UNCHANGED <<pending, funv, sgOs, sgWant, delivery, sgSent, sgTrap>>

SetFunv(t) ==
  /\ At(t, "setFunv")
  /\ funv' = IF sgWant[t] = "set" THEN "function" ELSE "void"
  /\ SgGoto(t, "unlock")
  /\ UNCHANGED <<pending, handlerCx, sgOs, sgWant, delivery, sgSent, sgOut>>

\* JSVAL_VOID -> JSVAL_FALSE, which is asserted to succeed.
UnlockSlot(t) ==
  /\ At(t, "unlock")
  /\ pending' = FreeSlot
  /\ SgGoto(t, "os")
  /\ UNCHANGED <<handlerCx, funv, sgOs, sgWant, delivery, sgSent, sgOut>>

\* sigaction: signal_js is installed, and the action it replaces is noted; or the
\* noted one is put back.
SetAction(t) ==
  /\ At(t, "os")
  /\ IF sgWant[t] = "set" THEN action' = "signal_js" /\ oact' = action
     ELSE action' = oact /\ UNCHANGED oact
  /\ Throw(t)
  /\ UNCHANGED <<sgSlot, delivery, sgSent, sgOut>>

-----------------------------------------------------------------------------
(* signal_FiniModule                                                         *)

\* The module is finalized: not, unless it is forced, while the signal is pending.
\* The slot is cleared without its lock.
FiniSignals(t, force) ==
  /\ At(t, "js") /\ (force \/ pending # Pending)
  /\ sgRemoved' = TRUE
  /\ sgWant' = [sgWant EXCEPT ![t] = "remove"]
  /\ SgGoto(t, "finiFunv")
  /\ UNCHANGED <<sgSlot, sgOs, delivery, sgSent, sgTrap>>

FiniFunv(t) ==
  /\ At(t, "finiFunv")
  /\ funv' = "void"
  /\ SgGoto(t, "finiCx")
  /\ UNCHANGED <<pending, handlerCx, sgOs, sgWant, delivery, sgSent, sgOut>>

FiniCx(t) ==
  /\ At(t, "finiCx")
  /\ handlerCx' = NoCx
  /\ SgGoto(t, "os")
  /\ UNCHANGED <<pending, funv, sgOs, sgWant, delivery, sgSent, sgOut>>

-----------------------------------------------------------------------------

SignalJs(t) == Mark(t) \/ TestHandler(t) \/ TriggerHandler(t) \/ ResetPending(t)

SigStep(t) ==
  \/ Take(t) \/ CallHandler(t) \/ Done(t)
  \/ LockSlot(t) \/ Retry(t) \/ LockAgain(t) \/ SetCx(t) \/ SetFunv(t) \/ UnlockSlot(t)
  \/ SetAction(t) \/ FiniFunv(t) \/ FiniCx(t)

SignalNext ==
  \E t \in SigThreads :
    \/ Deliver(t) \/ SignalJs(t) \/ SigStep(t)
    \/ RunHandlers(t) \/ \E want \in {"set", "remove"} : CallChange(t, want)
    \/ \E force \in BOOLEAN : FiniSignals(t, force)

SignalSpec == SignalInit /\ [][SignalNext]_signalVars

\* Threads are scheduled, and the trigger thread has the operation callbacks of every
\* context called again and again: handlers return, and they do not throw, since the
\* operation callback is not installed again after a callback that returns JS_FALSE.
SignalFairness ==
  \A t \in SigThreads :
    /\ WF_signalVars(SignalJs(t) \/ SigStep(t))
    /\ SF_signalVars(RunHandlers(t))

SignalFairSpec == SignalSpec /\ SignalFairness

-----------------------------------------------------------------------------
(* Properties                                                                *)

\* The thread has locked the slot.
HoldsSlot(t) == sgPc[t] \in {"call", "done", "setCx", "setFunv", "unlock"}

\* The slot is locked exactly while one thread runs its handler or changes it, so that
\* the swaps that are asserted to succeed (signal.c:142, 221) do, and no script exchanges
\* a handler while it runs.
SlotExclusive ==
  /\ \A t, u \in SigThreads : HoldsSlot(t) /\ HoldsSlot(u) => t = u
  /\ pending = Locked <=> \E t \in SigThreads : HoldsSlot(t)

\* As long as no handler has been removed, a delivered signal never meets a slot that
\* is empty or half written: signal_js is installed after the slot has been set
\* (signal.c:253-267), and replaced functions are replaced under the lock of the slot.
NoTrapBeforeRemoval == sgRemoved \/ sgTrap = "none"

\* "I am done processing the signal: JSVAL_VOID -> JSVAL_FALSE" (signal.c:108): a slot
\* that is pending or locked becomes free again, whatever the threads do.
SlotFreed == (pending # FreeSlot) ~> (pending = FreeSlot \/ ~Running)
=============================================================================
