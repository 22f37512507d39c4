------------------------------ MODULE MCRuntime -------------------------------
(***************************************************************************)
(* Three parts of the runtime that share no state in these models, checked *)
(* in one run: a behaviour chooses one of them and takes its steps, under  *)
(* its fairness.                                                           *)
(***************************************************************************)
EXTENDS AsyncCallbacks, SignalSlots, RealmContexts

VARIABLE part

vars == <<part, asyncVars, signalVars, realmVars>>

TypeOK == AsyncTypeOK /\ SignalTypeOK /\ RealmTypeOK

Init ==
  /\ part \in {"async", "signal", "realm"}
  /\ AsyncInit /\ SignalInit /\ RealmInit

Async(A)  == part = "async" /\ A /\ UNCHANGED <<part, signalVars, realmVars>>
Signal(A) == part = "signal" /\ A /\ UNCHANGED <<part, asyncVars, realmVars>>
Realm(A)  == part = "realm" /\ A /\ UNCHANGED <<part, asyncVars, signalVars>>

Next == Async(AsyncNext) \/ Signal(SignalNext) \/ Realm(RealmNext)

\* TriggerFairness, SignalFairness and RealmFairness.
Fairness ==
  /\ WF_vars(Async(acTrap = NoTrapYet /\ (TriggerPass \/ TriggerTest \/ JoinTrigger)))
  /\ \A t \in SigThreads :
       /\ WF_vars(Signal(SignalJs(t) \/ SigStep(t)))
       /\ SF_vars(Signal(RunHandlers(t)))
  /\ \A t \in RcThreads : WF_vars(Realm(RealmStep(t)))

Spec == Init /\ [][Next]_vars /\ Fairness

\* Nobody waits for ever: a signal that is pending or locked is freed (signal.c:108), and
\* monitors.cx is left (gpsee_realms.c:295-385), but for the one deadlock.
WaitsEnd == SlotFreed /\ MonitorIsLeft
=============================================================================
