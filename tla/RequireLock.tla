----------------------------- MODULE RequireLock -----------------------------
(***************************************************************************)
(* The "simple re-entrant lockless mutex" of gpsee_modules.c:305-371, step *)
(* by step: the owner field is read and written only by compare-and-swap,  *)
(* the depth by plain loads and stores, and a thread that finds the lock   *)
(* taken leaves its request, sleeps and tries again.                       *)
(*                                                                         *)
(* The callers are those of gpsee_loadModule: each calls requireUnlock     *)
(* once for every requireLock that has returned, and calls requireLock     *)
(* again when the module it initialises requires another.                  *)
(***************************************************************************)
EXTENDS Naturals

CONSTANTS Threads,      \* the native threads that run JavaScript
          Nobody,       \* JSVAL_NULL
          MaxNesting    \* bound: how deep requires nest in one thread

ASSUME RequireLockAssumption ==
  /\ Nobody \notin Threads
  /\ MaxNesting \in Nat

VARIABLES
  requireLockThread,    \* grt->requireLockThread
  requireLockDepth,     \* grt->requireLockDepth
  pc,                   \* per thread: its next step, "out" when in no call
  reg,                  \* per thread: the depth it has loaded
  owed                  \* per thread: calls of requireLock not yet matched

lockVars == <<requireLockThread, requireLockDepth>>
vars == <<lockVars, pc, reg, owed>>

Goto(t, l) == pc' = [pc EXCEPT ![t] = l]

TypeOK ==
  /\ requireLockThread \in Threads \cup {Nobody}
  /\ requireLockDepth \in Nat
  /\ pc \in [Threads -> {"out", "casSelf", "casNull", "incLoad", "incStore",
                         "asserts", "decLoad", "decStore", "test", "release"}]
  /\ reg \in [Threads -> Nat]
  /\ owed \in [Threads -> Nat]

Init ==
  /\ requireLockThread = Nobody
  /\ requireLockDepth = 0
  /\ pc = [t \in Threads |-> "out"]
  /\ reg = [t \in Threads |-> 0]
  /\ owed = [t \in Threads |-> 0]

-----------------------------------------------------------------------------
(* requireLock                                                               *)

CallLock(t) ==
  /\ pc[t] = "out" /\ owed[t] < MaxNesting
  /\ Goto(t, "casSelf")
  /\ UNCHANGED <<lockVars, reg, owed>>

\* Mutant: the nested call returns before it has counted itself.
CasSelfReturns(t) ==
  /\ pc[t] = "casSelf"
  /\ Goto(t, IF requireLockThread = t THEN "out" ELSE "casNull")
  /\ owed' = [owed EXCEPT ![t] = IF requireLockThread = t THEN @ + 1 ELSE @]
  /\ UNCHANGED <<lockVars, reg>>

\* The swap of this thread for itself: does it hold the lock already?
CasSelf(t) ==
  /\ pc[t] = "casSelf"
  /\ Goto(t, IF requireLockThread = t THEN "incLoad" ELSE "casNull")
  /\ UNCHANGED <<lockVars, reg, owed>>

\* Mutant: the free lock is not told from one another thread holds.
CasNullBlind(t) ==
  /\ pc[t] = "casNull"
  /\ requireLockThread' = t
  /\ Goto(t, "incLoad")
  /\ UNCHANGED <<requireLockDepth, reg, owed>>

\* The swap of NULL for this thread.  When it fails the thread suspends its
\* request, sleeps, resumes it, and swaps again.
CasNull(t) ==
  /\ pc[t] = "casNull"
  /\ requireLockThread = Nobody
  /\ requireLockThread' = t
  /\ Goto(t, "incLoad")
  /\ UNCHANGED <<requireLockDepth, reg, owed>>

\* requireLockDepth++
IncLoad(t) ==
  /\ pc[t] = "incLoad"
  /\ reg' = [reg EXCEPT ![t] = requireLockDepth]
  /\ Goto(t, "incStore")
  /\ UNCHANGED <<lockVars, owed>>

IncStore(t) ==
  /\ pc[t] = "incStore"
  /\ requireLockDepth' = reg[t] + 1
  /\ owed' = [owed EXCEPT ![t] = @ + 1]
  /\ Goto(t, "out")
  /\ UNCHANGED <<requireLockThread, reg>>

-----------------------------------------------------------------------------
(* requireUnlock                                                             *)

CallUnlock(t) ==
  /\ pc[t] = "out" /\ owed[t] > 0
  /\ Goto(t, "asserts")
  /\ UNCHANGED <<lockVars, reg, owed>>

\* The two assertions: their conditions are AssertsHold.
Asserts(t) ==
  /\ pc[t] = "asserts"
  /\ Goto(t, "decLoad")
  /\ UNCHANGED <<lockVars, reg, owed>>

\* requireLockDepth--
DecLoad(t) ==
  /\ pc[t] = "decLoad"
  /\ reg' = [reg EXCEPT ![t] = requireLockDepth]
  /\ Goto(t, "decStore")
  /\ UNCHANGED <<lockVars, owed>>

\* Mutant: the depth is cleared instead of decremented.
DecStoreClears(t) ==
  /\ pc[t] = "decStore"
  /\ requireLockDepth' = 0
  /\ owed' = [owed EXCEPT ![t] = @ - 1]
  /\ Goto(t, "test")
  /\ UNCHANGED <<requireLockThread, reg>>

DecStore(t) ==
  /\ pc[t] = "decStore"
  /\ requireLockDepth' = reg[t] - 1
  /\ owed' = [owed EXCEPT ![t] = @ - 1]
  /\ Goto(t, "test")
  /\ UNCHANGED <<requireLockThread, reg>>

\* Mutant: the owner is cleared by every call.
TestOmitted(t) ==
  /\ pc[t] = "test"
  /\ Goto(t, "release")
  /\ UNCHANGED <<lockVars, reg, owed>>

\* Mutant: the owner is kept by the call that ends the nesting.
TestOffByOne(t) ==
  /\ pc[t] = "test"
  /\ Goto(t, IF requireLockDepth = 1 THEN "release" ELSE "out")
  /\ UNCHANGED <<lockVars, reg, owed>>

\* if (requireLockDepth == 0)
Test(t) ==
  /\ pc[t] = "test"
  /\ Goto(t, IF requireLockDepth = 0 THEN "release" ELSE "out")
  /\ UNCHANGED <<lockVars, reg, owed>>

\* The swap of this thread for NULL; AssertsHold says it cannot fail.
Release(t) ==
  /\ pc[t] = "release"
  /\ requireLockThread' = IF requireLockThread = t THEN Nobody ELSE requireLockThread
  /\ Goto(t, "out")
  /\ UNCHANGED <<requireLockDepth, reg, owed>>

-----------------------------------------------------------------------------

Step(t) ==
  \/ CasSelf(t) \/ CasNull(t) \/ IncLoad(t) \/ IncStore(t)
  \/ Asserts(t) \/ DecLoad(t) \/ DecStore(t) \/ Test(t) \/ Release(t)

Next == \E t \in Threads : CallLock(t) \/ CallUnlock(t) \/ Step(t)

Spec == Init /\ [][Next]_vars

\* Threads are scheduled, and a module that is being initialised comes to an
\* end.  The lock itself is not fair: a waiting thread may lose every race.
Fairness == \A t \in Threads : WF_vars(Step(t)) /\ WF_vars(CallUnlock(t))

FairSpec == Spec /\ Fairness

-----------------------------------------------------------------------------
(* Properties                                                                *)

\* A thread is between the two ends of the lock.
Inside(t) ==
  \/ owed[t] > 0
  \/ pc[t] \in {"incLoad", "incStore", "asserts", "decLoad", "decStore", "test", "release"}

\* "requireLockDepth may only be read or written by a thread which holds the
\* lock" (gpsee_modules.c:313-314): the threads between requireLock and
\* requireUnlock are one at most, the one the lock names.
DepthBelongsToHolder == \A t \in Threads : Inside(t) => requireLockThread = t

\* The assertions of requireUnlock (gpsee_modules.c:357-358) and the swap it
\* declares infallible (363-366) hold however calls of several threads interleave.
AssertsHold ==
  \A t \in Threads :
    /\ pc[t] = "asserts" => requireLockDepth # 0 /\ requireLockThread = t
    /\ pc[t] = "release" => requireLockThread = t

\* "the next lock-holder gets an initial depth of zero" (gpsee_modules.c:317):
\* whenever the owner changes from NULL to a thread, no depth is left over.
InitialDepthZero ==
  [][requireLockThread = Nobody /\ requireLockThread' # Nobody
       => requireLockDepth = 0]_vars

\* The lock, with its depth and its owner as separate words, is a re-entrant
\* mutex; it is given back at the store that brings the depth to zero.
Mutex == INSTANCE ReentrantMutex WITH
  holder  <- IF requireLockDepth = 0 THEN Nobody ELSE requireLockThread,
  nesting <- requireLockDepth

ImplementsMutex == Mutex!MutexSpec

\* A lock that is wanted is taken, by the thread that waits or by another: it
\* is never left with an owner that has returned from its last requireUnlock.
WantedLockIsTaken ==
  \A t \in Threads : (pc[t] = "casNull") ~> (\E u \in Threads : pc[u] = "incLoad")
=============================================================================
