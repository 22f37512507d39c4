--------------------------- MODULE ReentrantMutex ---------------------------
(***************************************************************************)
(* What requireLock and requireUnlock of gpsee_modules.c promise: a mutex  *)
(* of the runtime that the thread which holds it may take again, and that  *)
(* is free once it has been given back as often as it was taken.           *)
(*                                                                         *)
(* RequireLock implements it; ModuleLoader is built on it.                 *)
(***************************************************************************)
EXTENDS Naturals

CONSTANTS Threads,   \* the native threads that run JavaScript
          Nobody     \* JSVAL_NULL, "which is an invalid value for PRThread"

ASSUME NobodyAssumption == Nobody \notin Threads

VARIABLES holder,    \* the thread that holds the lock, or Nobody
          nesting    \* how often the holder has taken it

mutexVars == <<holder, nesting>>

MutexInit == holder = Nobody /\ nesting = 0

Lock(t) ==
  /\ holder \in {t, Nobody}
  /\ holder' = t
  /\ nesting' = nesting + 1

Unlock(t) ==
  /\ holder = t
  /\ nesting' = nesting - 1
  /\ holder' = IF nesting' = 0 THEN Nobody ELSE t

MutexNext == \E t \in Threads : Lock(t) \/ Unlock(t)

MutexSpec == MutexInit /\ [][MutexNext]_mutexVars
=============================================================================
