---------------------------- MODULE ModuleLoader ----------------------------
(***************************************************************************)
(* The CommonJS module system of gpsee_modules.c in one realm: require()   *)
(* finds, loads and initialises modules under the require lock; module     *)
(* handles are memoized by canonical name; the garbage collector unloads   *)
(* the modules nobody can reach; and the realm's shutdown finishes those   *)
(* that are left.                                                          *)
(*                                                                         *)
(* A module is native, a script, or blended (both, in that order).  Each   *)
(* thread has a stack of frames, one per require it is in.  The collector  *)
(* may run between any two steps: whatever the loaders call may trigger    *)
(* it, and dlopen and the lock's sleep are outside the request.            *)
(***************************************************************************)
EXTENDS ReentrantMutex, FiniteSets, Sequences

CONSTANTS
  Main,           \* the thread that runs the program module and the shutdown
  Names,          \* canonical module names
  Program,        \* the canonical name of the program module
  Parts,          \* Parts[n]: which of the files n.so and n.js exist
  Calls,          \* what scripts pass to require: a name, as "path" or "absolute"
  Handles,        \* bound: the module handles that may be allocated
  MaxDepth        \* bound: how deep requires nest in one thread

NoHandle == "none"

ASSUME LoaderAssumption ==
  /\ Main \in Threads
  /\ Program \in Names
  /\ Parts \in [Names -> SUBSET {"native", "script"}]
  /\ Parts[Program] = {"script"}
  /\ Calls \subseteq Names \X {"path", "absolute"}
  /\ IsFiniteSet(Threads)
  /\ IsFiniteSet(Handles) /\ Handles # {} /\ NoHandle \notin Handles
  /\ MaxDepth \in Nat \ {0}

VARIABLES
  mod,            \* mod[h]: the moduleHandle_t, see Blank
  memo,           \* realm->modules: the handle memoized for each name
  unreachable,    \* realm->unreachableModule_llist
  scope,          \* scope[h]: the scope object made for h
  held,           \* the handles whose scope or exports some script refers to
  stack,          \* stack[t]: the requires thread t is in, innermost last
  evals,          \* evals[h]: how often the script of h has begun to execute
  shutdown,       \* where gpsee_shutdownModuleSystem is
  lastDangling,   \* its lastDanglingCount
  dangling,       \* its danglingCount
  trap            \* the assertion of finalizeModuleScope, once it has failed

gcVars == <<mod, memo, unreachable, scope>>
endVars == <<shutdown, lastDangling, dangling>>
vars == <<mutexVars, gcVars, held, stack, evals, endVars, trap>>

\* A handle that has not been allocated.  refs stands for module->scope and
\* module->exports being non-NULL: markModuleUnused clears them together.
Blank == [mem |-> "unused", name |-> Program, loaded |-> FALSE, init |-> "none",
          fini |-> FALSE, script |-> FALSE, refs |-> FALSE, released |-> FALSE]

Records == [mem : {"unused", "allocated", "freed"}, name : Names, loaded : BOOLEAN,
            init : {"none", "ready", "done"}, fini : BOOLEAN, script : BOOLEAN,
            refs : BOOLEAN, released : BOOLEAN]

Frames == [name : Names, way : {"path", "absolute", "program"}, h : Handles \cup {NoHandle},
           pc : {"lock", "find", "native", "script", "mark", "init", "run", "return"}]

TypeOK ==
  /\ holder \in Threads \cup {Nobody} /\ nesting \in 0..MaxDepth
  /\ mod \in [Handles -> Records]
  /\ memo \in [Names -> Handles \cup {NoHandle}]
  /\ unreachable \subseteq Handles
  /\ scope \in [Handles -> {"none", "live", "final"}]
  /\ held \subseteq Handles
  /\ stack \in [Threads -> Seq(Frames)] /\ \A t \in Threads : Len(stack[t]) <= MaxDepth
  /\ evals \in [Handles -> Nat]
  /\ shutdown \in {"no", "loop", "gc", "test", "done"}
  /\ {lastDangling, dangling} \subseteq 0..Cardinality(Handles)
  /\ trap \subseteq {"finiPending"}

Init ==
  /\ MutexInit
  /\ mod = [h \in Handles |-> Blank]
  /\ memo = [n \in Names |-> NoHandle]
  /\ unreachable = {}
  /\ scope = [h \in Handles |-> "none"]
  /\ held = {}
  /\ stack = [t \in Threads |-> <<>>]
  /\ evals = [h \in Handles |-> 0]
  /\ shutdown = "no" /\ lastDangling = 0 /\ dangling = 0
  /\ trap = {}

-----------------------------------------------------------------------------
(* Frames                                                                    *)

Top(t) == stack[t][Len(stack[t])]

At(t, l) == stack[t] # <<>> /\ Top(t).pc = l

\* The innermost frame of t becomes f.
Set(t, f) == stack' = [stack EXCEPT ![t] = [@ EXCEPT ![Len(@)] = f]]

Goto(t, l) == Set(t, [Top(t) EXCEPT !.pc = l])

Pop(t) == stack' = [stack EXCEPT ![t] = SubSeq(@, 1, Len(@) - 1)]

\* t is executing a script: that of a module it initialises, or another one.
Scripting(t) == stack[t] = <<>> \/ At(t, "run")

Fresh == {h \in Handles : mod[h].mem = "unused"}

\* The handle calloc returns: which one makes no difference.
NewHandle == CHOOSE h \in Fresh : TRUE

\* Handles the requires under way may still need.
Pending == {t \in Threads : stack[t] # <<>> /\ Top(t).h = NoHandle}

-----------------------------------------------------------------------------
(* Module handles                                                            *)

\* acquireModuleHandle for a name that is not memoized: a handle, its scope
\* and its exports.
Acquired(n) == [Blank EXCEPT !.mem = "allocated", !.name = n, !.refs = TRUE]

\* Mutant: fini is left to others.
UnusedWithoutFini(m) == [m EXCEPT !.refs = FALSE, !.loaded = FALSE]

\* markModuleUnused.  With force, fini does what the module API demands: it
\* releases its resources and returns JS_TRUE.
Unused(m) ==
  [m EXCEPT !.fini = IF m.loaded /\ m.refs THEN FALSE ELSE @,
            !.refs = FALSE, !.loaded = FALSE]

\* releaseModuleHandle of the handles H, found as M says: out of the memo, unused,
\* and on the list of those the end of the next collection destroys.
Release(M, H) ==
  LET R == {h \in H : ~M[h].released} IN
  /\ mod' = [h \in Handles |-> IF h \in R THEN [Unused(M[h]) EXCEPT !.released = TRUE]
                                          ELSE M[h]]
  /\ memo' = [n \in Names |-> IF memo[n] \in R THEN NoHandle ELSE memo[n]]
  /\ unreachable' = unreachable \cup R

\* requireUnlock; the program module is run without the lock.
Unlocking(t) == IF Top(t).way = "program" THEN UNCHANGED mutexVars ELSE Unlock(t)

\* Mutant: the error path forgets requireUnlock.
FailStillLocked(t, M) ==
  /\ Release(M, {Top(t).h})
  /\ UNCHANGED mutexVars
  /\ Pop(t)
  /\ UNCHANGED <<scope, held>>

\* The module cannot be loaded or initialised: it is released, the lock is
\* given back, and require throws.
Fail(t, M) ==
  /\ Release(M, {Top(t).h})
  /\ Unlocking(t)
  /\ Pop(t)
  /\ UNCHANGED <<scope, held>>

-----------------------------------------------------------------------------
(* gpsee_runProgramModule                                                    *)

\* The program module is acquired around the realm's global object, which is
\* never collected while the realm lives.
RunProgram ==
  /\ Fresh = Handles /\ shutdown = "no"
  /\ LET h == NewHandle IN
       /\ mod' = [mod EXCEPT ![h] = Acquired(Program)]
       /\ memo' = [memo EXCEPT ![Program] = h]
       /\ scope' = [scope EXCEPT ![h] = "live"]
       /\ held' = held \cup {h}
       /\ stack' = [stack EXCEPT ![Main] =
            <<[name |-> Program, way |-> "program", h |-> h, pc |-> "script"]>>]
  /\ UNCHANGED <<mutexVars, unreachable, evals, endVars, trap>>

-----------------------------------------------------------------------------
(* gpsee_loadModule: require()                                               *)

\* The scripts of the realm, in every thread, are started by its program.
Started == \E h \in Handles : evals[h] > 0

Require(t, n, way) ==
  /\ Started /\ shutdown = "no"
  /\ Scripting(t) /\ Len(stack[t]) < MaxDepth
  /\ Cardinality(Pending) < Cardinality(Fresh)
  /\ stack' = [stack EXCEPT ![t] =
       Append(@, [name |-> n, way |-> way, h |-> NoHandle, pc |-> "lock"])]
  /\ UNCHANGED <<mutexVars, gcVars, held, evals, endVars, trap>>

RequireLock(t) ==
  /\ At(t, "lock")
  /\ Lock(t)
  /\ Goto(t, "find")
  /\ UNCHANGED <<gcVars, held, evals, endVars, trap>>

\* Mutant: one error path forgets requireUnlock.
NotFoundStillLocked(t) ==
  /\ At(t, "find") /\ Parts[Top(t).name] = {}
  /\ Pop(t)
  /\ UNCHANGED <<mutexVars, gcVars, held, evals, endVars, trap>>

\* loadDiskModule finds no file: the lock is given back and require throws.
NotFound(t) ==
  /\ At(t, "find") /\ Parts[Top(t).name] = {}
  /\ Unlock(t)
  /\ Pop(t)
  /\ UNCHANGED <<gcVars, held, evals, endVars, trap>>

\* The pc of the first loader to run for a module that has the files P.
FirstLoader(P) == IF "native" \in P THEN "native" ELSE "script"

\* Mutant: the module counts as loaded as soon as its handle exists.
FindMarksLoaded(t) ==
  /\ At(t, "find") /\ Parts[Top(t).name] # {} /\ memo[Top(t).name] = NoHandle
  /\ LET h == NewHandle IN
       /\ mod' = [mod EXCEPT ![h] = [Acquired(Top(t).name) EXCEPT !.loaded = TRUE]]
       /\ memo' = [memo EXCEPT ![Top(t).name] = h]
       /\ scope' = [scope EXCEPT ![h] = "live"]
       /\ Set(t, [Top(t) EXCEPT !.h = h, !.pc = FirstLoader(Parts[Top(t).name])])
  /\ UNCHANGED <<mutexVars, unreachable, held, evals, endVars, trap>>

\* Mutant: the memo is not consulted.
FindNewAlways(t) ==
  /\ At(t, "find") /\ Parts[Top(t).name] # {}
  /\ LET h == NewHandle IN
       /\ mod' = [mod EXCEPT ![h] = Acquired(Top(t).name)]
       /\ memo' = [memo EXCEPT ![Top(t).name] = h]
       /\ scope' = [scope EXCEPT ![h] = "live"]
       /\ Set(t, [Top(t) EXCEPT !.h = h, !.pc = FirstLoader(Parts[Top(t).name])])
  /\ UNCHANGED <<mutexVars, unreachable, held, evals, endVars, trap>>

\* A module seen for the first time.
FindNew(t) ==
  /\ At(t, "find") /\ Parts[Top(t).name] # {} /\ memo[Top(t).name] = NoHandle
  /\ LET h == NewHandle IN
       /\ mod' = [mod EXCEPT ![h] = Acquired(Top(t).name)]
       /\ memo' = [memo EXCEPT ![Top(t).name] = h]
       /\ scope' = [scope EXCEPT ![h] = "live"]
       /\ Set(t, [Top(t) EXCEPT !.h = h, !.pc = FirstLoader(Parts[Top(t).name])])
  /\ UNCHANGED <<mutexVars, unreachable, held, evals, endVars, trap>>

\* A memoized module: returned at once when it is loaded, else loaded again.
FindMemoized(t) ==
  /\ At(t, "find") /\ Parts[Top(t).name] # {} /\ memo[Top(t).name] # NoHandle
  /\ LET h == memo[Top(t).name] IN
     Set(t, [Top(t) EXCEPT !.h = h,
                           !.pc = IF mod[h].loaded THEN "return"
                                  ELSE FirstLoader(Parts[Top(t).name])])
  /\ UNCHANGED <<mutexVars, gcVars, held, evals, endVars, trap>>

\* loadDSOModule: dlopen, then dlsym for X_InitModule and X_FiniModule.
LoadNative(t) ==
  /\ At(t, "native")
  /\ \/ \E init \in {"none", "ready"}, fini \in BOOLEAN :
          /\ mod' = [mod EXCEPT ![Top(t).h].init = init, ![Top(t).h].fini = fini]
          /\ Goto(t, IF "script" \in Parts[Top(t).name] THEN "script" ELSE "mark")
          /\ UNCHANGED <<mutexVars, memo, unreachable, scope, held>>
     \/ Fail(t, mod)
  /\ UNCHANGED <<evals, endVars, trap>>

\* loadJSModule: gpsee_compileScript.
LoadScript(t) ==
  /\ At(t, "script")
  /\ \/ /\ mod' = [mod EXCEPT ![Top(t).h].script = TRUE]
        /\ Goto(t, "mark")
        /\ UNCHANGED <<mutexVars, memo, unreachable, scope, held>>
     \/ Fail(t, mod)
  /\ UNCHANGED <<evals, endVars, trap>>

\* An absolute name that was found is then searched for along the module path,
\* where it is not: the handle stays behind, memoized and not loaded.
LoseAbsolute(t) ==
  /\ At(t, "mark") /\ Top(t).way = "absolute"
  /\ Unlock(t)
  /\ Pop(t)
  /\ UNCHANGED <<gcVars, held, evals, endVars, trap>>

\* Mutant: the flag is left for the end of the initialisation.
MarkLate(t) ==
  /\ At(t, "mark") /\ Top(t).way # "absolute"
  /\ Goto(t, "init")
  /\ UNCHANGED <<mutexVars, gcVars, held, evals, endVars, trap>>

\* Mutant: the lock is given back before the module is initialised.
MarkUnlocks(t) ==
  /\ At(t, "mark") /\ Top(t).way # "absolute"
  /\ mod' = [mod EXCEPT ![Top(t).h].loaded = TRUE]
  /\ Goto(t, "init")
  /\ Unlocking(t)
  /\ UNCHANGED <<memo, unreachable, scope, held, evals, endVars, trap>>

\* module->flags |= mhf_loaded, and the test that there is something to run.
Mark(t) ==
  /\ At(t, "mark") /\ Top(t).way # "absolute"
  /\ LET h == Top(t).h
         M == [mod EXCEPT ![h].loaded = TRUE] IN
     IF mod[h].init = "none" /\ ~mod[h].script
     THEN Fail(t, M)
     ELSE /\ mod' = M
          /\ Goto(t, "init")
          /\ UNCHANGED <<mutexVars, memo, unreachable, scope, held>>
  /\ UNCHANGED <<evals, endVars, trap>>

\* initializeModule: X_InitModule has run (its result is not looked at); then
\* module->script is cleared and its execution begins.
Initialize(t) ==
  /\ At(t, "init")
  /\ LET h == Top(t).h IN
     /\ mod' = [mod EXCEPT ![h].init = IF @ = "ready" THEN "done" ELSE @,
                           ![h].script = FALSE]
     /\ evals' = [evals EXCEPT ![h] = IF mod[h].script THEN @ + 1 ELSE @]
     /\ Goto(t, IF mod[h].script THEN "run" ELSE "return")
  /\ UNCHANGED <<mutexVars, memo, unreachable, scope, held, endVars, trap>>

\* The script of the module returns, or throws.
ScriptEnds(t) ==
  /\ At(t, "run")
  /\ \/ /\ Goto(t, "return")
        /\ UNCHANGED <<mutexVars, gcVars, held>>
     \/ Fail(t, mod)
  /\ UNCHANGED <<evals, endVars, trap>>

\* requireUnlock, and the exports are returned.
Return(t) ==
  /\ At(t, "return")
  /\ Unlocking(t)
  /\ held' = IF Top(t).way = "absolute" THEN held ELSE held \cup {Top(t).h}
  /\ Pop(t)
  /\ UNCHANGED <<gcVars, evals, endVars, trap>>

-----------------------------------------------------------------------------
(* What scripts do with the scopes and exports they can reach                *)

\* The script of a module stores its exports, or a closure, where others find it.
Publish(t) ==
  /\ At(t, "run")
  /\ held' = held \cup {Top(t).h}
  /\ UNCHANGED <<mutexVars, gcVars, stack, evals, endVars, trap>>

\* The last reference goes away; the one to the realm's global object never does.
Forget(h) ==
  /\ h \in held /\ mod[h].name # Program
  /\ held' = held \ {h}
  /\ UNCHANGED <<mutexVars, gcVars, stack, evals, endVars, trap>>

-----------------------------------------------------------------------------
(* Garbage collection                                                        *)

Memoized(h) == memo[mod[h].name] = h

\* moduleGCCallback at MARK_END: what the memo keeps alive.  Scope and exports
\* refer to each other.
MarkedByMemo(h) ==
  Memoized(h) /\ mod[h].refs /\ (~mod[h].loaded \/ mod[h].fini)

\* Scopes on the interpreter's stack, or in the frames of require and of the
\* native code it calls.
MarkedByStack(h) ==
  \E t \in Threads : \E i \in DOMAIN stack[t] :
    stack[t][i].h = h /\ stack[t][i].pc \in {"init", "run", "return"}

Garbage == {h \in Handles : /\ scope[h] = "live"
                            /\ h \notin held
                            /\ ~MarkedByStack(h) /\ ~MarkedByMemo(h)}

\* finalizeModuleScope releases the handle of each scope that is collected, and
\* FINALIZE_END destroys the released handles.  The memory of a handle destroyed
\* before still says released.
Collect ==
  LET D == unreachable \cup {h \in Garbage : ~mod[h].released} IN
  /\ mod' = [h \in Handles |->
       IF h \in D THEN [Unused(mod[h]) EXCEPT !.released = TRUE, !.mem = "freed"] ELSE mod[h]]
  /\ memo' = [n \in Names |-> IF memo[n] \in D THEN NoHandle ELSE memo[n]]
  /\ unreachable' = {}
  /\ scope' = [h \in Handles |-> IF h \in Garbage THEN "final" ELSE scope[h]]
  /\ trap' = IF \E h \in Garbage : mod[h].fini /\ mod[h].mem = "allocated"
             THEN {"finiPending"} ELSE trap

\* Between its look at the flags of a loaded module, or the end of the loaders,
\* and its next step a require stays in its request and allocates nothing.
GCSafe == \A t \in Threads : ~At(t, "mark") /\ ~At(t, "return")

GC ==
  /\ GCSafe
  /\ Garbage \cup unreachable # {}
  /\ Collect
  /\ UNCHANGED <<mutexVars, held, stack, evals, endVars>>

-----------------------------------------------------------------------------
(* gpsee_shutdownModuleSystem                                                *)

\* The realm is destroyed when no script runs in it any more.
Shutdown ==
  /\ shutdown = "no" /\ Fresh # Handles
  /\ \A t \in Threads : stack[t] = <<>>
  /\ shutdown' = "loop"
  /\ UNCHANGED <<mutexVars, gcVars, held, stack, evals, lastDangling, dangling, trap>>

\* One traversal of the memo: fini without force may refuse; a module whose
\* fini is done, or that has none, is marked unused.
ShutdownRound ==
  /\ shutdown = "loop"
  /\ \E D \in SUBSET {h \in Handles : Memoized(h) /\ mod[h].fini} :
       /\ mod' = [h \in Handles |-> IF Memoized(h) /\ h \notin D
                                    THEN Unused([mod[h] EXCEPT !.fini = FALSE]) ELSE mod[h]]
       /\ lastDangling' = dangling
       /\ dangling' = Cardinality(D)
       /\ shutdown' = IF D = {} THEN "done" ELSE "gc"
  /\ UNCHANGED <<mutexVars, memo, unreachable, scope, held, stack, evals, trap>>

ShutdownGC ==
  /\ shutdown = "gc"
  /\ Collect
  /\ shutdown' = "test"
  /\ UNCHANGED <<mutexVars, held, stack, evals, lastDangling, dangling>>

\* Mutant: modules that refuse are asked again for ever.
ShutdownTestNeverForces ==
  /\ shutdown = "test"
  /\ shutdown' = "loop"
  /\ UNCHANGED <<mutexVars, gcVars, held, stack, evals, lastDangling, dangling, trap>>

\* When as many modules refuse as in the round before, they are forced.
ShutdownTest ==
  /\ shutdown = "test"
  /\ IF dangling = lastDangling
     THEN /\ mod' = [h \in Handles |-> IF Memoized(h) /\ mod[h].fini
                                       THEN Unused([mod[h] EXCEPT !.fini = FALSE]) ELSE mod[h]]
          /\ shutdown' = "done"
     ELSE shutdown' = "loop" /\ UNCHANGED mod
  /\ UNCHANGED <<mutexVars, memo, unreachable, scope, held, stack, evals,
                 lastDangling, dangling, trap>>

-----------------------------------------------------------------------------

LoaderStep(t) ==
  \/ RequireLock(t) \/ NotFound(t) \/ FindNew(t) \/ FindMemoized(t)
  \/ LoadNative(t) \/ LoadScript(t) \/ LoseAbsolute(t) \/ Mark(t)
  \/ Initialize(t) \/ ScriptEnds(t) \/ Return(t)

ShutdownStep == ShutdownRound \/ ShutdownGC \/ ShutdownTest

Next ==
  \/ RunProgram
  \/ \E t \in Threads :
       \/ \E c \in Calls : Require(t, c[1], c[2])
       \/ LoaderStep(t)
       \/ Publish(t)
  \/ \E h \in Handles : Forget(h)
  \/ GC
  \/ Shutdown \/ ShutdownStep

Spec == Init /\ [][Next]_vars

\* The shutdown is sequential code that calls modules whose fini returns.
FairSpec == Spec /\ WF_vars(ShutdownStep)

-----------------------------------------------------------------------------
(* Properties                                                                *)

\* "Once we begin evaluating module code, that module code must never begin
\* evaluating again" (gpsee_modules.c:1389), whatever cycle of requires leads
\* back to the module and however requires of several threads interleave.
EvaluatedOnce == \A h \in Handles : evals[h] <= 1

\* "modules are singletons" (gpsee_modules.c:1459), as long as they do not fail:
\* scripts never hold the exports of two handles of one name that were both
\* loaded and not released.
Singletons ==
  \A h1, h2 \in held :
    /\ mod[h1].name = mod[h2].name
    /\ ~mod[h1].released /\ ~mod[h2].released
    => h1 = h2

\* A require returns the exports of a module that is still being initialised
\* only to a require made, directly or not, by that module: no other thread
\* sees them half made.  The program module is run without the lock.
OnlyCyclesSeePartialExports ==
  \A t, u \in Threads :
    At(t, "return") /\ u # t =>
      \A i \in DOMAIN stack[u] :
        /\ stack[u][i].h = Top(t).h
        /\ stack[u][i].way # "program"
        => stack[u][i].pc = "return"

\* The require lock is held by a thread exactly as often as it is in requires
\* that have taken it, whichever way each of them ends.
LockMatchesRequires ==
  LET Locked(t) == {i \in DOMAIN stack[t] :
                      stack[t][i].way # "program" /\ stack[t][i].pc # "lock"}
  IN /\ \A t \in Threads : Locked(t) # {} => holder = t /\ nesting = Cardinality(Locked(t))
     /\ holder = Nobody <=> \A t \in Threads : Locked(t) = {}

\* No collection destroys a handle that a require under way will still use, or
\* that the memo would return, although dlopen leaves the request and anything
\* the loaders call may collect garbage.
HandlesInUseSurvive ==
  /\ \A n \in Names : memo[n] # NoHandle =>
       mod[memo[n]].mem = "allocated" /\ ~mod[memo[n]].released
  /\ \A t \in Threads : \A i \in DOMAIN stack[t] :
       stack[t][i].h # NoHandle => mod[stack[t][i].h].mem = "allocated"
  /\ \A t \in Threads :
       At(t, "return") /\ Top(t).name # Program => mod[Top(t).h].refs

\* "We cannot unload a module until the module tells us it's okay to do so"
\* (gpsee_modules.c:1874): a native module that was initialised is finished
\* before its shared object is closed, and before the module system is gone.
FinishedBeforeUnload ==
  \A h \in Handles :
    mod[h].init = "done" /\ mod[h].fini =>
      /\ mod[h].mem = "allocated"
      /\ shutdown = "done" => ~Memoized(h)

\* "Handle must remain valid for the lifetime of this scope" (gpsee_modules.c:412).
HandleOutlivesScope ==
  \A h \in Handles : scope[h] = "live" => mod[h].mem = "allocated"

\* "Should not be finalizing if fini handler is unrun" (gpsee_modules.c:884).
NoFiniPendingAtFinalize == "finiPending" \notin trap

\* The shutdown comes to an end, although modules may refuse to be finished.
ShutdownEnds == (shutdown = "loop") ~> (shutdown = "done")
=============================================================================
