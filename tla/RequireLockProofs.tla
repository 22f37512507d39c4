-------------------------- MODULE RequireLockProofs --------------------------
(***************************************************************************)
(* The require lock is a re-entrant mutex for any set of threads and any   *)
(* depth of nesting.  The argument: whoever is between the two ends of the *)
(* lock is the thread the owner field names (DepthBelongsToHolder), hence  *)
(* alone, so that the loads and stores of the depth are not disturbed and  *)
(* the depth is the number of calls the owner still has to match.          *)
(***************************************************************************)
EXTENDS RequireLock, TLAPS

\* What the owner knows at each of its steps.
OwnerCount ==
  \A t \in Threads :
    /\ Inside(t) => requireLockDepth = owed[t]
    /\ pc[t] \in {"incStore", "decStore"} => reg[t] = requireLockDepth
    /\ pc[t] \in {"asserts", "decLoad", "decStore"} => owed[t] > 0
    /\ pc[t] = "release" => owed[t] = 0
    /\ pc[t] = "casNull" => owed[t] = 0

\* The owner field never names a thread that is outside the lock, and a lock
\* without an owner has no depth.
OwnerInside ==
  /\ requireLockThread # Nobody => Inside(requireLockThread)
  /\ requireLockThread = Nobody => requireLockDepth = 0

IInv == TypeOK /\ DepthBelongsToHolder /\ OwnerCount /\ OwnerInside

\* The inductive invariant holds initially.
LEMMA InitIInv == Init => IInv
  BY RequireLockAssumption
  DEF Init, IInv, TypeOK, DepthBelongsToHolder, OwnerCount, OwnerInside, Inside

\* Every step keeps it: the steps outside the lock do not touch the words the
\* owner relies on, and those inside are the owner's.
LEMMA NextIInv == IInv /\ [Next]_vars => IInv'
<1> USE DEF IInv, TypeOK, DepthBelongsToHolder, OwnerCount, OwnerInside, Inside,
            Goto, lockVars
<1> SUFFICES ASSUME IInv, [Next]_vars PROVE IInv'
  OBVIOUS
<1>0. CASE UNCHANGED vars
  BY <1>0 DEF vars
<1> SUFFICES ASSUME NEW t \in Threads, CallLock(t) \/ CallUnlock(t) \/ Step(t)
             PROVE  IInv'
  BY <1>0 DEF Next
<1>1. CASE CallLock(t)
  BY <1>1, RequireLockAssumption DEF CallLock
<1>2. CASE CallUnlock(t)
  BY <1>2, RequireLockAssumption DEF CallUnlock
<1>3. CASE CasSelf(t)
  BY <1>3, RequireLockAssumption DEF CasSelf
<1>4. CASE CasNull(t)
  BY <1>4, RequireLockAssumption DEF CasNull
<1>5. CASE IncLoad(t)
  BY <1>5, RequireLockAssumption DEF IncLoad
<1>6. CASE IncStore(t)
  BY <1>6, RequireLockAssumption DEF IncStore
<1>7. CASE Asserts(t)
  BY <1>7, RequireLockAssumption DEF Asserts
<1>8. CASE DecLoad(t)
  BY <1>8, RequireLockAssumption DEF DecLoad
<1>9. CASE DecStore(t)
  BY <1>9, RequireLockAssumption DEF DecStore
<1>10. CASE Test(t)
  BY <1>10, RequireLockAssumption DEF Test
<1>11. CASE Release(t)
  BY <1>11, RequireLockAssumption DEF Release
<1> QED
  BY <1>1, <1>2, <1>3, <1>4, <1>5, <1>6, <1>7, <1>8, <1>9, <1>10, <1>11 DEF Step

LEMMA Invariance == Spec => []IInv
  BY InitIInv, NextIInv, PTL DEF Spec

-----------------------------------------------------------------------------

\* The types of the lock's words and of the threads' registers.
THEOREM TypeCorrect == Spec => []TypeOK
  BY Invariance, PTL DEF IInv

\* Only the thread that the lock names loads and stores the depth.
THEOREM OneHolder == Spec => []DepthBelongsToHolder
  BY Invariance, PTL DEF IInv

\* The assertions of requireUnlock never fail, and neither does its last swap.
THEOREM NoAssertFails == Spec => []AssertsHold
<1>1. IInv => AssertsHold
  <2> SUFFICES ASSUME IInv, NEW t \in Threads
               PROVE  /\ pc[t] = "asserts" => requireLockDepth # 0 /\ requireLockThread = t
                      /\ pc[t] = "release" => requireLockThread = t
    BY DEF AssertsHold
  <2> QED
    BY DEF IInv, TypeOK, DepthBelongsToHolder, OwnerCount, Inside
<1> QED
  BY <1>1, Invariance, PTL

\* The next holder finds a depth of zero.
THEOREM NextHolderStartsAtZero == Spec => InitialDepthZero
<1>1. IInv => (requireLockThread = Nobody /\ requireLockThread' # Nobody
                 => requireLockDepth = 0)
  BY DEF IInv, OwnerInside
<1>2. IInv /\ [Next]_vars
        => [requireLockThread = Nobody /\ requireLockThread' # Nobody
              => requireLockDepth = 0]_vars
  BY <1>1
<1> QED
  BY <1>2, Invariance, PTL DEF Spec, InitialDepthZero

\* The lock implements a re-entrant mutex: IncStore is its Lock, DecStore its
\* Unlock, and every other step leaves it alone.
THEOREM LockImplementsMutex == Spec => ImplementsMutex
<1>1. Init => Mutex!MutexInit
  BY DEF Init, Mutex!MutexInit
<1>2. IInv /\ [Next]_vars => [Mutex!MutexNext]_(Mutex!mutexVars)
  <2> SUFFICES ASSUME IInv, [Next]_vars
               PROVE  \/ Mutex!MutexNext
                      \/ UNCHANGED Mutex!mutexVars
    OBVIOUS
  <2> USE DEF IInv, TypeOK, DepthBelongsToHolder, OwnerCount, OwnerInside, Inside,
              lockVars, Mutex!mutexVars
  <2>0. CASE UNCHANGED vars
    BY <2>0 DEF vars
  <2> SUFFICES ASSUME NEW t \in Threads, CallLock(t) \/ CallUnlock(t) \/ Step(t)
               PROVE  \/ Mutex!MutexNext
                      \/ UNCHANGED Mutex!mutexVars
    BY <2>0 DEF Next
  <2>1. CASE IncStore(t)
    <3>1. requireLockThread = t /\ reg[t] = requireLockDepth
      BY <2>1 DEF IncStore
    <3>2. requireLockThread' = t /\ requireLockDepth' = requireLockDepth + 1
      BY <2>1, <3>1 DEF IncStore
    <3>3. Mutex!Lock(t)
      BY <3>1, <3>2 DEF Mutex!Lock
    <3> QED
      BY <3>3 DEF Mutex!MutexNext
  <2>2. CASE DecStore(t)
    <3>1. /\ requireLockThread = t /\ reg[t] = requireLockDepth
          /\ requireLockDepth > 0
      BY <2>2 DEF DecStore
    <3>2. requireLockThread' = t /\ requireLockDepth' = requireLockDepth - 1
      BY <2>2, <3>1 DEF DecStore
    <3>3. Mutex!Unlock(t)
      BY <3>1, <3>2 DEF Mutex!Unlock
    <3> QED
      BY <3>3 DEF Mutex!MutexNext
  <2>3. CASE CasNull(t)
    BY <2>3 DEF CasNull
  <2>4. CASE Release(t)
    BY <2>4 DEF Release
  <2>5. CASE \/ CallLock(t) \/ CallUnlock(t) \/ CasSelf(t) \/ IncLoad(t)
             \/ Asserts(t) \/ DecLoad(t) \/ Test(t)
    BY <2>5 DEF CallLock, CallUnlock, CasSelf, IncLoad, Asserts, DecLoad, Test
  <2> QED
    BY <2>1, <2>2, <2>3, <2>4, <2>5 DEF Step
<1> QED
  BY <1>1, <1>2, Invariance, PTL DEF Spec, ImplementsMutex, Mutex!MutexSpec
=============================================================================
