----------------------------- MODULE ThreadClass -----------------------------
(***************************************************************************)
(* The Thread class of modules/thread/thread.c: JavaScript objects that    *)
(* each own one NSPR thread.                                               *)
(*                                                                         *)
(* Every native thread that runs JavaScript is an actor: the primordial    *)
(* thread Main, and the NSPR thread of each Thread object, which is named  *)
(* by the object.  Calls made by several actors interleave between any two *)
(* accesses to the shared handle (thread_private_t): the C code takes no   *)
(* lock, it relies on compare-and-swap of hnd->state and on the order in   *)
(* which hnd->thread is written.  The garbage collector runs only when     *)
(* every actor is outside a request or at a point that may collect.        *)
(***************************************************************************)
EXTENDS Naturals, FiniteSets

CONSTANTS
  Objs,           \* the Thread objects a program may construct
  Main,           \* the primordial thread, which also runs thread_FiniModule
  Starters,       \* the actors whose script calls Thread.prototype.start
  Faults,         \* the external calls that may fail (see FaultKinds)
  RereadHandle    \* whether the build loads hnd->thread again for the test
                  \* that follows PR_CreateThread (an -O0 build does)

FaultKinds == {"list", "context", "create", "join"}

Actors == Objs \cup {Main}

NoObj == Main     \* fills arg[a] when no operation of a is under way

ASSUME ThreadAssumption ==
  /\ Main \notin Objs
  /\ Starters \subseteq Actors
  /\ Faults \subseteq FaultKinds
  /\ RereadHandle \in BOOLEAN

VARIABLES
  state,          \* hnd->state; "void" before the constructor has run
  thread,         \* whether hnd->thread is non-NULL
  terminated,     \* whether hnd->termination is no longer th_term_not
  native,         \* the NSPR thread: none, running, exited or joined
  inList,         \* the members of Thread.threadList
  scope,          \* the objects the script still refers to
  freed,          \* the objects whose handle Thread_Finalize has freed
  protected,      \* the thread_protected_t: "live", or "freed" by FiniModule
  sweepLock,      \* protected->sweepLock
  pc, arg,        \* per actor: where it is in an operation, and on which object
  caller,         \* per actor: who called thread_join
  todo,           \* per actor: the part of the list not yet visited
  foundJoining,   \* foundJoiningState of thread_joinAll
  trap            \* assertions and stalls met: "notReached", "gcStall"

handleVars == <<state, thread, terminated, native>>
gcVars     == <<inList, scope, freed>>
protVars   == <<protected, sweepLock>>
opVars     == <<pc, arg, caller, todo>>
vars == <<handleVars, gcVars, protVars, opVars, foundJoining, trap>>

PCs == {"idle", "st_list", "st_create", "st_assign", "st_check", "st_failed", "st_unlist",
        "j_self", "j_check", "j_cas", "j_take", "j_wait", "j_done", "j_unlist",
        "sw_next", "ja_next", "ja_error", "fini_done"}

TypeOK ==
  /\ state \in [Objs -> {"void", "new", "runnable", "joining", "dead"}]
  /\ thread \in [Objs -> BOOLEAN]
  /\ terminated \in [Objs -> BOOLEAN]
  /\ native \in [Objs -> {"none", "running", "exited", "joined"}]
  /\ inList \subseteq Objs
  /\ scope \subseteq Objs
  /\ freed \subseteq Objs
  /\ protected \in {"live", "freed"}
  /\ sweepLock \in BOOLEAN
  /\ pc \in [Actors -> PCs]
  /\ arg \in [Actors -> Actors]
  /\ caller \in [Actors -> {"none", "join", "sweep", "joinAll"}]
  /\ todo \in [Actors -> SUBSET Objs]
  /\ foundJoining \in BOOLEAN
  /\ trap \subseteq {"notReached", "gcStall"}

Init ==
  /\ state = [o \in Objs |-> "void"]
  /\ thread = [o \in Objs |-> FALSE]
  /\ terminated = [o \in Objs |-> FALSE]
  /\ native = [o \in Objs |-> "none"]
  /\ inList = {} /\ scope = {} /\ freed = {}
  /\ protected = "live" /\ sweepLock = FALSE
  /\ pc = [a \in Actors |-> "idle"]
  /\ arg = [a \in Actors |-> NoObj]
  /\ caller = [a \in Actors |-> "none"]
  /\ todo = [a \in Actors |-> {}]
  /\ foundJoining = FALSE
  /\ trap = {}

-----------------------------------------------------------------------------
(* Helpers                                                                   *)

\* Actor a is executing JavaScript and is in no Thread operation.
Scripting(a) ==
  /\ pc[a] = "idle"
  /\ a \in Objs => native[a] = "running" /\ ~terminated[a]

\* The script can name o: through a variable, or through Thread.threadList.
Nameable(o) == o \in scope \cup inList

Goto(a, l) == pc' = [pc EXCEPT ![a] = l]

\* a leaves the operation it is in, and returns to its script.
Leave(a) ==
  /\ Goto(a, "idle")
  /\ arg' = [arg EXCEPT ![a] = NoObj]
  /\ caller' = [caller EXCEPT ![a] = "none"]
  /\ UNCHANGED todo

NotReached == trap' = trap \cup {"notReached"}

-----------------------------------------------------------------------------
(* Construction, and references the script drops                             *)

\* Thread(): the constructor.
Construct(a, o) ==
  /\ Scripting(a)
  /\ state[o] = "void"
  /\ state' = [state EXCEPT ![o] = "new"]
  /\ scope' = scope \cup {o}
  /\ UNCHANGED <<thread, terminated, native, inList, freed, protVars, opVars,
                 foundJoining, trap>>

\* The last variable that refers to o goes away.
Drop(o) ==
  /\ o \in scope
  /\ scope' = scope \ {o}
  /\ UNCHANGED <<handleVars, inList, freed, protVars, opVars, foundJoining, trap>>

-----------------------------------------------------------------------------
(* Thread.prototype.start: th_start                                          *)

\* The compare-and-swap new -> runnable; anything else throws.
Start(a, o) ==
  /\ a \in Starters /\ Scripting(a) /\ Nameable(o)
  /\ state[o] = "new"
  /\ state' = [state EXCEPT ![o] = "runnable"]
  /\ Goto(a, "st_list")
  /\ arg' = [arg EXCEPT ![a] = o]
  /\ UNCHANGED <<thread, terminated, native, gcVars, protVars, caller, todo,
                 foundJoining, trap>>

\* Mutant: the object is made runnable and never listed.
StartPrepareUnlisted(a) ==
  /\ pc[a] = "st_list"
  /\ Goto(a, "st_create")
  /\ UNCHANGED <<handleVars, gcVars, protVars, arg, caller, todo, foundJoining, trap>>

\* thread_addToList and JS_NewContext.  When either fails th_start throws and
\* leaves the state runnable (and, in the second case, the object listed).
StartPrepare(a) ==
  /\ pc[a] = "st_list"
  /\ \/ /\ inList' = inList \cup {arg[a]}
        /\ Goto(a, "st_create")
        /\ UNCHANGED <<arg, caller, todo>>
     \/ /\ "list" \in Faults
        /\ Leave(a)
        /\ UNCHANGED inList
     \/ /\ "context" \in Faults
        /\ inList' = inList \cup {arg[a]}
        /\ Leave(a)
  /\ UNCHANGED <<handleVars, scope, freed, protVars, foundJoining, trap>>

\* PR_CreateThread: the new thread may run before its handle is stored.
StartCreate(a) ==
  /\ pc[a] = "st_create"
  /\ \/ /\ native' = [native EXCEPT ![arg[a]] = "running"]
        /\ Goto(a, "st_assign")
     \/ /\ "create" \in Faults
        /\ Goto(a, "st_failed")
        /\ UNCHANGED native
  /\ UNCHANGED <<state, thread, terminated, gcVars, protVars, arg, caller, todo,
                 foundJoining, trap>>

\* hnd->thread = the new thread.
StartAssign(a) ==
  /\ pc[a] = "st_assign"
  /\ thread' = [thread EXCEPT ![arg[a]] = TRUE]
  /\ Goto(a, "st_check")
  /\ UNCHANGED <<state, terminated, native, gcVars, protVars, arg, caller, todo,
                 foundJoining, trap>>

\* if (!hnd->thread): on a build that loads the field again, another actor's
\* thread_join may have set it to NULL meanwhile.
StartCheck(a) ==
  /\ pc[a] = "st_check"
  /\ IF RereadHandle /\ ~thread[arg[a]]
     THEN Goto(a, "st_failed") /\ UNCHANGED <<arg, caller, todo>>
     ELSE Leave(a)
  /\ UNCHANGED <<handleVars, gcVars, protVars, foundJoining, trap>>

\* The thread did not start: runnable -> dead, or "impossible".
StartFailed(a) ==
  /\ pc[a] = "st_failed"
  /\ IF state[arg[a]] = "runnable"
     THEN /\ state' = [state EXCEPT ![arg[a]] = "dead"]
          /\ Goto(a, "st_unlist")
          /\ UNCHANGED <<arg, caller, todo, trap>>
     ELSE NotReached /\ Leave(a) /\ UNCHANGED state
  /\ UNCHANGED <<thread, terminated, native, gcVars, protVars, foundJoining>>

\* th_term_abnormal, and thread_removeFromList
StartUnlist(a) ==
  /\ pc[a] = "st_unlist"
  /\ terminated' = [terminated EXCEPT ![arg[a]] = TRUE]
  /\ inList' = inList \ {arg[a]}
  /\ Leave(a)
  /\ UNCHANGED <<state, thread, native, scope, freed, protVars, foundJoining, trap>>

-----------------------------------------------------------------------------
(* thread_run: the life of the NSPR thread                                   *)

\* Mutant: the kind of termination is stored in hnd->state.
RunReturnInState(o) ==
  /\ Scripting(o)
  /\ state' = [state EXCEPT ![o] = "normal"]
  /\ UNCHANGED <<thread, terminated, native, gcVars, protVars, opVars, foundJoining, trap>>

\* run() returned or threw: hnd->termination is set.
RunReturn(o) ==
  /\ Scripting(o)
  /\ terminated' = [terminated EXCEPT ![o] = TRUE]
  /\ UNCHANGED <<state, thread, native, gcVars, protVars, opVars, foundJoining, trap>>

\* JS_DestroyContext, and the native thread ends.
ThreadExit(o) ==
  /\ native[o] = "running" /\ terminated[o] /\ pc[o] = "idle"
  /\ native' = [native EXCEPT ![o] = "exited"]
  /\ UNCHANGED <<state, thread, terminated, gcVars, protVars, opVars, foundJoining, trap>>

-----------------------------------------------------------------------------
(* thread_join, and its callers                                              *)

\* thread_join returns to its caller, with an error message or without one.
JoinReturn(a, error) ==
  CASE caller[a] = "join"  -> Leave(a)
    [] caller[a] = "sweep" -> Goto(a, "sw_next") /\ UNCHANGED <<arg, caller, todo>>
    [] OTHER -> /\ Goto(a, IF error THEN "ja_error" ELSE "ja_next")
                /\ UNCHANGED <<arg, caller, todo>>

\* Thread.prototype.join: th_join is entered.
Join(a, o) ==
  /\ Scripting(a) /\ Nameable(o)
  /\ Goto(a, "j_self")
  /\ arg' = [arg EXCEPT ![a] = o]
  /\ caller' = [caller EXCEPT ![a] = "join"]
  /\ UNCHANGED <<handleVars, gcVars, protVars, todo, foundJoining, trap>>

\* A thread that sees its own handle throws instead of joining itself.
JoinSelf(a) ==
  /\ pc[a] = "j_self"
  /\ IF arg[a] = a /\ thread[a]
     THEN Leave(a)
     ELSE Goto(a, "j_check") /\ UNCHANGED <<arg, caller, todo>>
  /\ UNCHANGED <<handleVars, gcVars, protVars, foundJoining, trap>>

\* Mutant: thread_join without its test of hnd->thread.
JoinCheckOmitted(a) ==
  /\ pc[a] = "j_check"
  /\ Goto(a, "j_cas")
  /\ UNCHANGED <<handleVars, gcVars, protVars, arg, caller, todo, foundJoining, trap>>

\* if (!hnd->thread) return NULL
JoinCheck(a) ==
  /\ pc[a] = "j_check"
  /\ IF thread[arg[a]]
     THEN Goto(a, "j_cas") /\ UNCHANGED <<arg, caller, todo>>
     ELSE JoinReturn(a, FALSE)
  /\ UNCHANGED <<handleVars, gcVars, protVars, foundJoining, trap>>

\* Mutant: the state is written without a compare-and-swap.
JoinCasBlind(a) ==
  /\ pc[a] = "j_cas"
  /\ state' = [state EXCEPT ![arg[a]] = "joining"]
  /\ Goto(a, "j_take")
  /\ UNCHANGED <<thread, terminated, native, gcVars, protVars, arg, caller, todo,
                 foundJoining, trap>>

\* The compare-and-swap runnable -> joining.
JoinCas(a) ==
  /\ pc[a] = "j_cas"
  /\ IF state[arg[a]] = "runnable"
     THEN /\ state' = [state EXCEPT ![arg[a]] = "joining"]
          /\ Goto(a, "j_take")
          /\ UNCHANGED <<arg, caller, todo>>
     ELSE JoinReturn(a, TRUE) /\ UNCHANGED state
  /\ UNCHANGED <<thread, terminated, native, gcVars, protVars, foundJoining, trap>>

\* Mutant: the handle is left in place for a later joiner.
JoinTakeKeepsHandle(a) ==
  /\ pc[a] = "j_take"
  /\ Goto(a, "j_wait")
  /\ UNCHANGED <<handleVars, gcVars, protVars, arg, caller, todo, foundJoining, trap>>

\* theThread = hnd->thread; hnd->thread = NULL
JoinTake(a) ==
  /\ pc[a] = "j_take"
  /\ thread' = [thread EXCEPT ![arg[a]] = FALSE]
  /\ Goto(a, "j_wait")
  /\ UNCHANGED <<state, terminated, native, gcVars, protVars, arg, caller, todo,
                 foundJoining, trap>>

\* Mutant: an interrupted PR_JoinThread is taken for a successful one.
JoinWaitInterrupted(a) ==
  /\ pc[a] = "j_wait"
  /\ Goto(a, "j_done")
  /\ UNCHANGED <<handleVars, gcVars, protVars, arg, caller, todo, foundJoining, trap>>

\* PR_JoinThread returns once the thread is over.
JoinWait(a) ==
  /\ pc[a] = "j_wait" /\ native[arg[a]] = "exited"
  /\ native' = [native EXCEPT ![arg[a]] = "joined"]
  /\ Goto(a, "j_done")
  /\ UNCHANGED <<state, thread, terminated, gcVars, protVars, arg, caller, todo,
                 foundJoining, trap>>

\* PR_JoinThread fails, and the object stays in state joining.
JoinFails(a) ==
  /\ pc[a] = "j_wait" /\ "join" \in Faults
  /\ JoinReturn(a, TRUE)
  /\ UNCHANGED <<handleVars, gcVars, protVars, foundJoining, trap>>

\* joining -> dead, or "impossible"
JoinDone(a) ==
  /\ pc[a] = "j_done"
  /\ IF state[arg[a]] = "joining"
     THEN /\ state' = [state EXCEPT ![arg[a]] = "dead"]
          /\ Goto(a, "j_unlist")
          /\ UNCHANGED <<arg, caller, todo, trap>>
     ELSE NotReached /\ JoinReturn(a, FALSE) /\ UNCHANGED state
  /\ UNCHANGED <<thread, terminated, native, gcVars, protVars, foundJoining>>

\* thread_removeFromList
JoinUnlist(a) ==
  /\ pc[a] = "j_unlist"
  /\ inList' = inList \ {arg[a]}
  /\ JoinReturn(a, FALSE)
  /\ UNCHANGED <<handleVars, scope, freed, protVars, foundJoining, trap>>

-----------------------------------------------------------------------------
(* Thread_Sweep, run by the asynchronous callback Thread_SweepBCB            *)

Sweep(a) ==
  /\ Scripting(a)
  /\ protected = "live" /\ ~sweepLock
  /\ sweepLock' = TRUE
  /\ todo' = [todo EXCEPT ![a] = inList]
  /\ Goto(a, "sw_next")
  /\ UNCHANGED <<handleVars, gcVars, protected, arg, caller, foundJoining, trap>>

\* The next property of the list: skipped unless it is still listed, runnable
\* and terminated.
SweepNext(a) ==
  /\ pc[a] = "sw_next"
  /\ \E o \in todo[a] :
       /\ todo' = [todo EXCEPT ![a] = @ \ {o}]
       /\ IF o \in inList /\ state[o] = "runnable" /\ terminated[o]
          THEN /\ Goto(a, "j_check")
               /\ arg' = [arg EXCEPT ![a] = o]
               /\ caller' = [caller EXCEPT ![a] = "sweep"]
          ELSE UNCHANGED <<pc, arg, caller>>
  /\ UNCHANGED <<handleVars, gcVars, protVars, foundJoining, trap>>

SweepEnd(a) ==
  /\ pc[a] = "sw_next" /\ todo[a] = {}
  /\ IF sweepLock THEN UNCHANGED trap ELSE NotReached
  /\ sweepLock' = FALSE
  /\ Leave(a)
  /\ UNCHANGED <<handleVars, gcVars, protected, foundJoining>>

-----------------------------------------------------------------------------
(* thread_FiniModule with force, which runs thread_joinAll                   *)

FiniModule ==
  /\ Scripting(Main) /\ protected = "live"
  /\ todo' = [todo EXCEPT ![Main] = inList]
  /\ foundJoining' = FALSE
  /\ caller' = [caller EXCEPT ![Main] = "joinAll"]
  /\ Goto(Main, "ja_next")
  /\ UNCHANGED <<handleVars, gcVars, protVars, arg, trap>>

JoinAllNext ==
  /\ pc[Main] = "ja_next"
  /\ \E o \in todo[Main] :
       /\ todo' = [todo EXCEPT ![Main] = @ \ {o}]
       /\ IF o \in inList
          THEN Goto(Main, "j_check") /\ arg' = [arg EXCEPT ![Main] = o]
          ELSE UNCHANGED <<pc, arg>>
  /\ UNCHANGED <<handleVars, gcVars, protVars, caller, foundJoining, trap>>

\* The state of the thread it could not join is read again.
JoinAllError ==
  /\ pc[Main] = "ja_error"
  /\ foundJoining' = (foundJoining \/ state[arg[Main]] = "joining")
  /\ Goto(Main, "ja_next")
  /\ UNCHANGED <<handleVars, gcVars, protVars, arg, caller, todo, trap>>

\* Another round when a thread in state joining was met; otherwise the
\* protected storage is freed.
JoinAllEnd ==
  /\ pc[Main] = "ja_next" /\ todo[Main] = {}
  /\ IF foundJoining
     THEN /\ todo' = [todo EXCEPT ![Main] = inList]
          /\ foundJoining' = FALSE
          /\ UNCHANGED <<pc, protected>>
     ELSE /\ protected' = "freed"
          /\ Goto(Main, "fini_done")
          /\ UNCHANGED <<todo, foundJoining>>
  /\ UNCHANGED <<handleVars, gcVars, sweepLock, arg, caller, trap>>

-----------------------------------------------------------------------------
(* Garbage collection: Thread_Finalize                                       *)

\* No collection can start while an actor is between the tests of a handle that
\* it makes inside a request.
GCSafe == \A a \in Actors : pc[a] \notin {"j_self", "j_check", "j_cas", "ja_error"}

\* The objects on the stack of an actor: `this' of th_start and th_join, and the
\* rooted threadObj of Thread_Sweep.  thread_joinAll roots nothing.
OnStack(o) == \E a \in Actors : arg[a] = o /\ caller[a] # "joinAll"

Collectable(o) ==
  state[o] # "void" /\ o \notin scope \cup inList \cup freed /\ ~OnStack(o)

Finalize(o) ==
  /\ GCSafe /\ Collectable(o)
  /\ freed' = freed \cup {o}
  /\ state' = [state EXCEPT ![o] = IF @ = "new" THEN "dead" ELSE @]
  /\ trap' = IF state[o] # "new" /\ thread[o] THEN trap \cup {"gcStall"} ELSE trap
  /\ UNCHANGED <<thread, terminated, native, inList, scope, protVars, opVars, foundJoining>>

-----------------------------------------------------------------------------

Next ==
  \/ \E a \in Actors, o \in Objs : Construct(a, o) \/ Start(a, o) \/ Join(a, o)
  \/ \E a \in Actors :
       \/ StartPrepare(a) \/ StartCreate(a) \/ StartAssign(a)
       \/ StartCheck(a) \/ StartFailed(a) \/ StartUnlist(a)
       \/ JoinSelf(a) \/ JoinCheck(a) \/ JoinCas(a)
       \/ JoinTake(a) \/ JoinWait(a) \/ JoinFails(a) \/ JoinDone(a) \/ JoinUnlist(a)
       \/ Sweep(a) \/ SweepNext(a) \/ SweepEnd(a)
  \/ \E o \in Objs : Drop(o) \/ RunReturn(o) \/ ThreadExit(o) \/ Finalize(o)
  \/ FiniModule \/ JoinAllNext \/ JoinAllError \/ JoinAllEnd

Spec == Init /\ [][Next]_vars

\* What an actor does once it has entered an operation: no failure of
\* PR_JoinThread, which nothing promises to a thread that waits.
Operation(a) ==
  \/ StartPrepare(a) \/ StartCreate(a) \/ StartAssign(a) \/ StartCheck(a)
  \/ StartFailed(a) \/ StartUnlist(a)
  \/ JoinSelf(a) \/ JoinCheck(a) \/ JoinCas(a) \/ JoinTake(a) \/ JoinWait(a)
  \/ JoinDone(a) \/ JoinUnlist(a)
  \/ SweepNext(a) \/ SweepEnd(a)

\* Native threads are scheduled by the system, so an operation that can go on
\* does; and the script of each thread is one that returns, whatever number of
\* Thread operations it makes first.
Fairness ==
  /\ \A a \in Actors : WF_vars(Operation(a))
  /\ WF_vars(JoinAllNext \/ JoinAllError \/ JoinAllEnd)
  /\ \A o \in Objs : SF_vars(RunReturn(o)) /\ WF_vars(ThreadExit(o))

FairSpec == Spec /\ Fairness

-----------------------------------------------------------------------------
(* Properties                                                                *)

\* "Cannot free resources until the thread has joined AND the JS Thread object
\* is out of scope" (thread.c:48): no finalizer frees the handle of a thread
\* that may still write hnd->termination, that nobody has joined, or that
\* another actor's start, join or sweep is using.
HandleOutlivesThread ==
  \A o \in freed :
    /\ native[o] \in {"none", "joined"}
    /\ \A a \in Actors : arg[a] = o => pc[a] \in {"ja_next", "fini_done"}

\* However joins, sweeps and joinAll interleave, one actor at most owns the
\* PRThread between the compare-and-swap and the end of PR_JoinThread, and the
\* PRThread it passes has not been joined, hence destroyed, before.
JoinedOnce ==
  \A a \in Actors :
    /\ pc[a] \in {"j_take", "j_wait"} => native[arg[a]] \in {"running", "exited"}
    /\ \A b \in Actors :
         /\ pc[a] \in {"j_take", "j_wait", "j_done"}
         /\ pc[b] \in {"j_take", "j_wait", "j_done"}
         /\ arg[a] = arg[b]
         => a = b

\* An object that says "dead" has no NSPR thread left and is listed only until the
\* actor that made it so has unlisted it; Thread.threadList holds every object
\* whose NSPR thread still exists (thread.c:1079-1080).
ListHoldsLiveThreads ==
  \A o \in Objs :
    /\ state[o] = "dead" => native[o] \in {"none", "joined"}
    /\ state[o] = "dead" /\ o \in inList =>
         \E a \in Actors : arg[a] = o /\ pc[a] \in {"st_unlist", "j_unlist"}
    /\ native[o] \in {"running", "exited"} => o \in inList

\* No GPSEE_NOT_REACHED is reached, and no finalizer enters thread_join, which
\* would make the collector wait for a running thread.
NoTrap == trap = {}

\* "This routine will block until all the threads are done running"
\* (thread.c:502): the storage of the class outlives every thread.
FiniWaitsForThreads ==
  protected = "freed" => \A o \in Objs : native[o] # "running"

\* thread_joinAll comes to an end, although it retries as long as it finds a
\* thread in state joining and other actors start, join and sweep meanwhile.
FiniTerminates == (pc[Main] = "ja_next") ~> (protected = "freed")
=============================================================================
