-------------------------- MODULE ThreadClassProofs --------------------------
(***************************************************************************)
(* What holds of the Thread class for any number of Thread objects, any    *)
(* script and any of the faults.                                           *)
(*                                                                         *)
(* None of the properties is inductive: each relies on what the actors     *)
(* that are inside an operation know about the object they work on.  The   *)
(* inductive invariant says this for every program point: an object is     *)
(* runnable and has no thread while th_start prepares it, has a thread     *)
(* nobody can join until the handle is stored, is joined by one actor only *)
(* once it is in state joining, and is listed as long as its thread exists.*)
(***************************************************************************)
EXTENDS ThreadClass, TLAPS

Starting(a) ==
  pc[a] \in {"st_list", "st_create", "st_assign", "st_check", "st_failed", "st_unlist"}
Testing(a)  == pc[a] \in {"j_check", "j_cas"}
Owning(a)   == pc[a] \in {"j_take", "j_wait", "j_done", "j_unlist"}
Joining(a)  == pc[a] = "j_self" \/ Testing(a) \/ Owning(a)
Sweeping(a) == pc[a] = "sw_next" \/ caller[a] = "sweep"

\* Which caller and which argument an actor has at each program point.
CallInv ==
  \A a \in Actors :
    /\ Starting(a) => arg[a] \in Objs /\ caller[a] = "none"
    /\ Joining(a) => arg[a] \in Objs /\ caller[a] # "none"
    /\ pc[a] = "idle" => arg[a] = NoObj /\ caller[a] = "none"
    /\ pc[a] = "sw_next" => caller[a] \in {"none", "sweep"}
    /\ pc[a] \in {"ja_next", "ja_error", "fini_done"} => caller[a] = "joinAll"
    /\ pc[a] = "ja_error" => arg[a] \in Objs
    /\ caller[a] = "joinAll" => a = Main

\* How the fields of an object, its NSPR thread and the list agree.
ObjInv ==
  \A o \in Objs :
    /\ native[o] \in {"running", "exited"} => o \in inList
    /\ o \in inList => state[o] \in {"runnable", "joining", "dead"}
    /\ state[o] \in {"void", "new"} => native[o] = "none"
    /\ state[o] = "dead" => native[o] \in {"none", "joined"}
    /\ native[o] = "joined" => state[o] \in {"joining", "dead"}
    /\ thread[o] => native[o] \in {"running", "exited"}

\* What an actor inside th_start knows about its object.
StartInv ==
  \A a \in Actors :
    /\ pc[a] \in {"st_list", "st_create"} =>
         state[arg[a]] = "runnable" /\ native[arg[a]] = "none"
    /\ pc[a] = "st_create" => arg[a] \in inList
    /\ pc[a] = "st_assign" =>
         /\ state[arg[a]] = "runnable" /\ ~thread[arg[a]]
         /\ native[arg[a]] \in {"running", "exited"}
    /\ pc[a] = "st_check" =>
         /\ native[arg[a]] # "none"
         /\ state[arg[a]] = "runnable" => thread[arg[a]]
    /\ pc[a] = "st_failed" =>
         \/ state[arg[a]] = "runnable" /\ native[arg[a]] = "none"
         \/ RereadHandle /\ state[arg[a]] \in {"joining", "dead"}
    /\ pc[a] = "st_unlist" => state[arg[a]] = "dead" /\ native[arg[a]] = "none"

\* One actor at most is starting a given object.
OneStarter ==
  \A a, b \in Actors : Starting(a) /\ Starting(b) /\ arg[a] = arg[b] => a = b

\* What an actor inside thread_join knows about its object.
JoinInv ==
  \A a \in Actors :
    /\ pc[a] = "j_cas" =>
         /\ native[arg[a]] # "none"
         /\ state[arg[a]] = "runnable" => thread[arg[a]]
    /\ Owning(a) => arg[a] \in inList
    /\ Owning(a) => state[arg[a]] = IF pc[a] = "j_unlist" THEN "dead" ELSE "joining"
    /\ pc[a] \in {"j_take", "j_wait"} => native[arg[a]] \in {"running", "exited"}
    /\ pc[a] \in {"j_wait", "j_done", "j_unlist"} => ~thread[arg[a]]
    /\ pc[a] \in {"j_done", "j_unlist"} => native[arg[a]] = "joined"

\* One actor at most is between the compare-and-swap of thread_join and its end, which unlists the object.
OneJoiner ==
  \A a, b \in Actors : Owning(a) /\ Owning(b) /\ arg[a] = arg[b] => a = b

\* A dead object is listed only as long as somebody is about to unlist it.
UnlistInv ==
  \A o \in inList : state[o] = "dead" =>
    \E a \in Actors : arg[a] = o /\ pc[a] \in {"st_unlist", "j_unlist"}

\* The objects whose handle is freed are out of everybody's reach; the last
\* argument of thread_joinAll may remain, but is not looked at again.
FreedInv ==
  /\ \A o \in freed : o \notin scope \cup inList /\ state[o] \notin {"void", "new"}
  /\ \A a \in Actors : arg[a] \in freed => pc[a] \in {"ja_next", "fini_done"}

\* The actor that sweeps holds sweepLock.
SweepInv ==
  /\ \A a \in Actors : Sweeping(a) => sweepLock
  /\ \A a, b \in Actors : Sweeping(a) /\ Sweeping(b) => a = b

TrapInv == RereadHandle \/ trap = {}

IInv == /\ TypeOK /\ CallInv /\ ObjInv /\ StartInv /\ OneStarter
        /\ JoinInv /\ OneJoiner /\ UnlistInv /\ FreedInv /\ SweepInv /\ TrapInv

-----------------------------------------------------------------------------
(* One lemma per action: the types first, then the conjuncts the action does *)
(* not disturb, then those whose preservation rests on other conjuncts.      *)

\* An actor that leaves its operation keeps the types of the operation
\* variables.
LEMMA LeaveType ==
  ASSUME TypeOK, NEW a \in Actors, Leave(a)
  PROVE  /\ pc' \in [Actors -> PCs]
         /\ arg' \in [Actors -> Actors]
         /\ caller' \in [Actors -> {"none", "join", "sweep", "joinAll"}]
         /\ todo' \in [Actors -> SUBSET Objs]
  BY DEF TypeOK, Leave, Goto, PCs, NoObj, Actors

\* So does one for which thread_join returns, whoever called it.
LEMMA JoinReturnType ==
  ASSUME TypeOK, NEW a \in Actors, NEW error \in BOOLEAN, JoinReturn(a, error)
  PROVE  /\ pc' \in [Actors -> PCs]
         /\ arg' \in [Actors -> Actors]
         /\ caller' \in [Actors -> {"none", "join", "sweep", "joinAll"}]
         /\ todo' \in [Actors -> SUBSET Objs]
<1>1. CASE caller[a] = "join"
  BY <1>1, LeaveType DEF JoinReturn, TypeOK
<1>2. CASE caller[a] # "join"
  BY <1>2 DEF JoinReturn, TypeOK, Goto, PCs
<1> QED
  BY <1>1, <1>2

\* Whoever returns from thread_join owns nothing, and disturbs no other actor.
LEMMA JoinReturnFrame ==
  ASSUME TypeOK, NEW a \in Actors, NEW error \in BOOLEAN, JoinReturn(a, error)
  PROVE  /\ pc'[a] \in {"idle", "sw_next", "ja_error", "ja_next"}
         /\ \A b \in Actors \ {a} : pc'[b] = pc[b] /\ arg'[b] = arg[b]
  BY DEF TypeOK, JoinReturn, Leave, Goto, PCs

\* A constructor makes a void object new; nobody works on it yet.
LEMMA ConstructIInv ==
  ASSUME IInv, NEW a \in Actors, NEW o \in Objs, Construct(a, o)
  PROVE  IInv'
<1> USE ThreadAssumption
    DEF IInv, Actors, NoObj, Starting, Testing, Owning, Joining, Sweeping, PCs,
        Construct, Scripting, protVars, opVars
<1>1. TypeOK'
  BY DEF TypeOK, CallInv
<1>2. CallInv' /\ SweepInv' /\ TrapInv'
  BY <1>1 DEF TypeOK, CallInv, SweepInv, TrapInv
<1>3. ObjInv' /\ StartInv' /\ JoinInv'
  BY <1>1 DEF TypeOK, CallInv, ObjInv, StartInv, JoinInv
<1>4. OneStarter' /\ OneJoiner'
  BY <1>1 DEF TypeOK, CallInv, OneStarter, OneJoiner
<1>5. UnlistInv' /\ FreedInv'
  BY <1>1 DEF TypeOK, CallInv, UnlistInv, FreedInv
<1> QED
  BY <1>1, <1>2, <1>3, <1>4, <1>5

\* Dropping a reference leaves the roots the other actors have alone.
LEMMA DropIInv ==
  ASSUME IInv, NEW o \in Objs, Drop(o)
  PROVE  IInv'
<1> USE ThreadAssumption
    DEF IInv, Actors, NoObj, Starting, Testing, Owning, Joining, Sweeping, PCs,
        Drop, handleVars, protVars, opVars
<1>1. TypeOK'
  BY DEF TypeOK, CallInv
<1>2. CallInv' /\ SweepInv' /\ TrapInv'
  BY <1>1 DEF TypeOK, CallInv, SweepInv, TrapInv
<1>3. ObjInv' /\ StartInv' /\ JoinInv'
  BY <1>1 DEF TypeOK, CallInv, ObjInv, StartInv, JoinInv
<1>4. OneStarter' /\ OneJoiner'
  BY <1>1 DEF TypeOK, CallInv, OneStarter, OneJoiner
<1>5. UnlistInv' /\ FreedInv'
  BY <1>1 DEF TypeOK, CallInv, UnlistInv, FreedInv
<1> QED
  BY <1>1, <1>2, <1>3, <1>4, <1>5

\* The compare-and-swap new -> runnable: an object that is new has no thread,
\* so no other actor is inside th_start or thread_join for it.
LEMMA StartIInv ==
  ASSUME IInv, NEW a \in Actors, NEW o \in Objs, Start(a, o)
  PROVE  IInv'
<1> USE ThreadAssumption
    DEF IInv, Actors, NoObj, Starting, Testing, Owning, Joining, Sweeping, PCs,
        Start, Goto, Nameable, Scripting, gcVars, protVars
<1>1. TypeOK'
  BY DEF TypeOK, CallInv
<1>2. CallInv' /\ SweepInv' /\ TrapInv'
  BY <1>1 DEF TypeOK, CallInv, SweepInv, TrapInv
<1>3. ObjInv'
  BY <1>1 DEF TypeOK, CallInv, ObjInv
<1>4. OneJoiner'
  BY <1>1 DEF TypeOK, CallInv, OneJoiner
<1>5. UnlistInv' /\ FreedInv'
  BY <1>1 DEF TypeOK, CallInv, UnlistInv, FreedInv
<1>6. StartInv'
  BY <1>1 DEF TypeOK, StartInv, ObjInv
<1>7. OneStarter'
  BY <1>1 DEF TypeOK, OneStarter, ObjInv, StartInv
<1>8. JoinInv'
  BY <1>1 DEF TypeOK, JoinInv, ObjInv
<1> QED
  BY <1>1, <1>2, <1>3, <1>4, <1>5, <1>6, <1>7, <1>8

\* Listing the object: it is runnable, as ObjInv asks of a listed object.
LEMMA StartPrepareIInv ==
  ASSUME IInv, NEW a \in Actors, StartPrepare(a)
  PROVE  IInv'
<1>1. TypeOK'
  BY LeaveType
  DEF IInv, TypeOK, CallInv, PCs, Starting, Joining, Testing, Owning,
      StartPrepare, Goto, handleVars, protVars
<1> USE ThreadAssumption
    DEF IInv, Actors, NoObj, Starting, Testing, Owning, Joining, Sweeping, PCs,
        StartPrepare, Goto, Leave, handleVars, protVars
<1>2. CallInv' /\ SweepInv' /\ TrapInv'
  BY <1>1 DEF TypeOK, CallInv, SweepInv, TrapInv
<1>3. StartInv' /\ JoinInv'
  BY <1>1 DEF TypeOK, CallInv, StartInv, JoinInv
<1>4. OneStarter' /\ OneJoiner'
  BY <1>1 DEF TypeOK, CallInv, OneStarter, OneJoiner
<1>5. FreedInv'
  BY <1>1 DEF TypeOK, CallInv, FreedInv
<1>6. ObjInv'
  BY <1>1 DEF TypeOK, ObjInv, StartInv
<1>7. UnlistInv'
  BY <1>1 DEF TypeOK, CallInv, StartInv, UnlistInv
<1> QED
  BY <1>1, <1>2, <1>3, <1>4, <1>5, <1>6, <1>7

\* The NSPR thread exists from here on; the object is listed already, and
\* nobody can join it before the handle is stored.
LEMMA StartCreateIInv ==
  ASSUME IInv, NEW a \in Actors, StartCreate(a)
  PROVE  IInv'
<1> USE ThreadAssumption
    DEF IInv, Actors, NoObj, Starting, Testing, Owning, Joining, Sweeping, PCs,
        StartCreate, Goto, gcVars, protVars
<1>1. TypeOK'
  BY DEF TypeOK, CallInv
<1>2. CallInv' /\ SweepInv' /\ TrapInv'
  BY <1>1 DEF TypeOK, CallInv, SweepInv, TrapInv
<1>3. OneStarter' /\ OneJoiner'
  BY <1>1 DEF TypeOK, CallInv, OneStarter, OneJoiner
<1>4. UnlistInv' /\ FreedInv'
  BY <1>1 DEF TypeOK, CallInv, UnlistInv, FreedInv
<1>5. ObjInv'
  BY <1>1 DEF TypeOK, ObjInv, StartInv
<1>6. StartInv'
  BY <1>1 DEF TypeOK, StartInv, CallInv, ObjInv, OneStarter
<1>7. JoinInv'
  BY <1>1 DEF TypeOK, JoinInv, CallInv, StartInv
<1> QED
  BY <1>1, <1>2, <1>3, <1>4, <1>5, <1>6, <1>7

\* The handle is stored for a thread that exists and that nobody has joined,
\* since without a handle no joiner passes the test of hnd->thread.
LEMMA StartAssignIInv ==
  ASSUME IInv, NEW a \in Actors, StartAssign(a)
  PROVE  IInv'
<1> USE ThreadAssumption
    DEF IInv, Actors, NoObj, Starting, Testing, Owning, Joining, Sweeping, PCs,
        StartAssign, Goto, gcVars, protVars
<1>1. TypeOK'
  BY DEF TypeOK, CallInv
<1>2. CallInv' /\ SweepInv' /\ TrapInv'
  BY <1>1 DEF TypeOK, CallInv, SweepInv, TrapInv
<1>3. OneStarter' /\ OneJoiner'
  BY <1>1 DEF TypeOK, CallInv, OneStarter, OneJoiner
<1>4. UnlistInv' /\ FreedInv'
  BY <1>1 DEF TypeOK, CallInv, UnlistInv, FreedInv
<1>5. ObjInv'
  BY <1>1 DEF TypeOK, ObjInv, StartInv
<1>6. StartInv'
  BY <1>1 DEF TypeOK, StartInv, OneStarter
<1>7. JoinInv'
  BY <1>1 DEF TypeOK, JoinInv, StartInv
<1> QED
  BY <1>1, <1>2, <1>3, <1>4, <1>5, <1>6, <1>7

\* Only a build that loads the handle again can take a started thread for one
\* that failed, and only after a joiner took the handle.
LEMMA StartCheckIInv ==
  ASSUME IInv, NEW a \in Actors, StartCheck(a)
  PROVE  IInv'
<1>1. TypeOK'
  BY LeaveType
  DEF IInv, TypeOK, CallInv, PCs, Starting, Joining, Testing, Owning,
      StartCheck, Goto, handleVars, gcVars, protVars
<1> USE ThreadAssumption
    DEF IInv, Actors, NoObj, Starting, Testing, Owning, Joining, Sweeping, PCs,
        StartCheck, Goto, Leave, handleVars, gcVars, protVars
<1>2. CallInv' /\ SweepInv' /\ TrapInv'
  BY <1>1 DEF TypeOK, CallInv, SweepInv, TrapInv
<1>3. ObjInv' /\ JoinInv'
  BY <1>1 DEF TypeOK, CallInv, ObjInv, JoinInv
<1>4. OneStarter' /\ OneJoiner'
  BY <1>1 DEF TypeOK, CallInv, OneStarter, OneJoiner
<1>5. UnlistInv' /\ FreedInv'
  BY <1>1 DEF TypeOK, CallInv, UnlistInv, FreedInv
<1>6. StartInv'
  BY <1>1 DEF TypeOK, StartInv, CallInv, ObjInv
<1> QED
  BY <1>1, <1>2, <1>3, <1>4, <1>5, <1>6

\* Only a build that loads the handle again finds a state other than runnable.
LEMMA StartFailedIInv ==
  ASSUME IInv, NEW a \in Actors, StartFailed(a)
  PROVE  IInv'
<1>1. TypeOK'
  <2> USE DEF IInv, TypeOK, StartFailed, gcVars, protVars
  <2>1. CASE state[arg[a]] = "runnable"
    <3>1. arg[a] \in Objs
      BY DEF CallInv, Starting
    <3>2. /\ state' \in [Objs -> {"void", "new", "runnable", "joining", "dead"}]
          /\ pc' \in [Actors -> PCs]
      BY <2>1, <3>1 DEF Goto, PCs
    <3> QED
      BY <2>1, <3>2
  <2>2. CASE state[arg[a]] # "runnable"
    BY <2>2, LeaveType DEF NotReached
  <2> QED
    BY <2>1, <2>2
<1> USE ThreadAssumption
    DEF IInv, Actors, NoObj, Starting, Testing, Owning, Joining, Sweeping, PCs,
        StartFailed, Goto, Leave, NotReached, gcVars, protVars
<1>2. CallInv' /\ SweepInv'
  BY <1>1 DEF TypeOK, CallInv, SweepInv
<1>3. JoinInv'
  BY <1>1 DEF TypeOK, CallInv, JoinInv
<1>4. OneStarter'
  BY <1>1 DEF TypeOK, CallInv, OneStarter
<1>5. OneJoiner'
  BY <1>1 DEF TypeOK, CallInv, OneJoiner
<1>6. UnlistInv' /\ FreedInv'
  BY <1>1 DEF TypeOK, CallInv, UnlistInv, FreedInv
<1>7. ObjInv'
  BY <1>1 DEF TypeOK, ObjInv, StartInv
<1>8. StartInv'
  BY <1>1 DEF TypeOK, StartInv, CallInv, OneStarter
<1>9. TrapInv'
  BY <1>1 DEF TypeOK, TrapInv, StartInv
<1> QED
  BY <1>1, <1>2, <1>3, <1>4, <1>5, <1>6, <1>7, <1>8, <1>9

\* The object that leaves the list has no thread.
LEMMA StartUnlistIInv ==
  ASSUME IInv, NEW a \in Actors, StartUnlist(a)
  PROVE  IInv'
<1>1. TypeOK'
  BY LeaveType
  DEF IInv, TypeOK, CallInv, PCs, Starting, Joining, Testing, Owning,
      StartUnlist, protVars
<1> USE ThreadAssumption
    DEF IInv, Actors, NoObj, Starting, Testing, Owning, Joining, Sweeping, PCs,
        StartUnlist, Leave, protVars, Goto
<1>2. CallInv' /\ SweepInv' /\ TrapInv'
  BY <1>1 DEF TypeOK, CallInv, SweepInv, TrapInv
<1>3. StartInv'
  BY <1>1 DEF TypeOK, CallInv, StartInv
<1>4. OneStarter' /\ OneJoiner'
  BY <1>1 DEF TypeOK, CallInv, OneStarter, OneJoiner
<1>5. UnlistInv' /\ FreedInv'
  BY <1>1 DEF TypeOK, CallInv, UnlistInv, FreedInv
<1>6. ObjInv'
  BY <1>1 DEF TypeOK, ObjInv, StartInv
<1>7. JoinInv'
  BY <1>1 DEF TypeOK, JoinInv, StartInv
<1> QED
  BY <1>1, <1>2, <1>3, <1>4, <1>5, <1>6, <1>7

\* The termination is not part of the state the joiners rely on.
LEMMA RunReturnIInv ==
  ASSUME IInv, NEW o \in Objs, RunReturn(o)
  PROVE  IInv'
<1> USE ThreadAssumption
    DEF IInv, Actors, NoObj, Starting, Testing, Owning, Joining, Sweeping, PCs,
        RunReturn, Scripting, gcVars, protVars, opVars
<1>1. TypeOK'
  BY DEF TypeOK, CallInv
<1>2. CallInv' /\ SweepInv' /\ TrapInv'
  BY <1>1 DEF TypeOK, CallInv, SweepInv, TrapInv
<1>3. ObjInv' /\ StartInv' /\ JoinInv'
  BY <1>1 DEF TypeOK, CallInv, ObjInv, StartInv, JoinInv
<1>4. OneStarter' /\ OneJoiner'
  BY <1>1 DEF TypeOK, CallInv, OneStarter, OneJoiner
<1>5. UnlistInv' /\ FreedInv'
  BY <1>1 DEF TypeOK, CallInv, UnlistInv, FreedInv
<1> QED
  BY <1>1, <1>2, <1>3, <1>4, <1>5

\* A thread that has exited is still to be joined.
LEMMA ThreadExitIInv ==
  ASSUME IInv, NEW o \in Objs, ThreadExit(o)
  PROVE  IInv'
<1> USE ThreadAssumption
    DEF IInv, Actors, NoObj, Starting, Testing, Owning, Joining, Sweeping, PCs,
        ThreadExit, gcVars, protVars, opVars
<1>1. TypeOK'
  BY DEF TypeOK, CallInv
<1>2. CallInv' /\ SweepInv' /\ TrapInv'
  BY <1>1 DEF TypeOK, CallInv, SweepInv, TrapInv
<1>3. ObjInv' /\ StartInv' /\ JoinInv'
  BY <1>1 DEF TypeOK, CallInv, ObjInv, StartInv, JoinInv
<1>4. OneStarter' /\ OneJoiner'
  BY <1>1 DEF TypeOK, CallInv, OneStarter, OneJoiner
<1>5. UnlistInv' /\ FreedInv'
  BY <1>1 DEF TypeOK, CallInv, UnlistInv, FreedInv
<1> QED
  BY <1>1, <1>2, <1>3, <1>4, <1>5

\* th_join begins.
LEMMA JoinIInv ==
  ASSUME IInv, NEW a \in Actors, NEW o \in Objs, Join(a, o)
  PROVE  IInv'
<1> USE ThreadAssumption
    DEF IInv, Actors, NoObj, Starting, Testing, Owning, Joining, Sweeping, PCs,
        Join, Goto, Nameable, Scripting, handleVars, gcVars, protVars
<1>1. TypeOK'
  BY DEF TypeOK, CallInv
<1>2. CallInv' /\ SweepInv' /\ TrapInv'
  BY <1>1 DEF TypeOK, CallInv, SweepInv, TrapInv
<1>3. ObjInv' /\ StartInv' /\ JoinInv'
  BY <1>1 DEF TypeOK, CallInv, ObjInv, StartInv, JoinInv
<1>4. OneStarter' /\ OneJoiner'
  BY <1>1 DEF TypeOK, CallInv, OneStarter, OneJoiner
<1>5. UnlistInv' /\ FreedInv'
  BY <1>1 DEF TypeOK, CallInv, UnlistInv, FreedInv
<1> QED
  BY <1>1, <1>2, <1>3, <1>4, <1>5

\* The test for the actor's own handle.
LEMMA JoinSelfIInv ==
  ASSUME IInv, NEW a \in Actors, JoinSelf(a)
  PROVE  IInv'
<1>1. TypeOK'
  BY LeaveType
  DEF IInv, TypeOK, CallInv, PCs, Starting, Joining, Testing, Owning,
      JoinSelf, Goto, handleVars, gcVars, protVars
<1> USE ThreadAssumption
    DEF IInv, Actors, NoObj, Starting, Testing, Owning, Joining, Sweeping, PCs,
        JoinSelf, Goto, Leave, handleVars, gcVars, protVars
<1>2. CallInv' /\ SweepInv' /\ TrapInv'
  BY <1>1 DEF TypeOK, CallInv, SweepInv, TrapInv
<1>3. ObjInv' /\ StartInv' /\ JoinInv'
  BY <1>1 DEF TypeOK, CallInv, ObjInv, StartInv, JoinInv
<1>4. OneStarter' /\ OneJoiner'
  <2>1. OneStarter'
    BY <1>1, SMTT(30) DEF TypeOK, CallInv, OneStarter
  <2>2. OneJoiner'
    BY <1>1 DEF TypeOK, CallInv, OneJoiner
  <2> QED
    BY <2>1, <2>2
<1>5. UnlistInv' /\ FreedInv'
  BY <1>1 DEF TypeOK, CallInv, UnlistInv, FreedInv
<1> QED
  BY <1>1, <1>2, <1>3, <1>4, <1>5

\* An object with a handle has a thread, and keeps a thread from there on.
LEMMA JoinCheckIInv ==
  ASSUME IInv, NEW a \in Actors, JoinCheck(a)
  PROVE  IInv'
<1>1. TypeOK'
  <2> USE DEF IInv, TypeOK, JoinCheck, handleVars, gcVars, protVars
  <2>1. CASE thread[arg[a]]
    BY <2>1 DEF Goto, PCs
  <2>2. CASE ~thread[arg[a]]
    BY <2>2, JoinReturnType
  <2> QED
    BY <2>1, <2>2
<1> USE ThreadAssumption
    DEF IInv, Actors, NoObj, Starting, Testing, Owning, Joining, Sweeping, PCs,
        JoinCheck, Goto, JoinReturn, handleVars, gcVars, protVars, Leave
<1>2. CallInv' /\ SweepInv' /\ TrapInv'
  BY <1>1 DEF TypeOK, CallInv, SweepInv, TrapInv
<1>3. ObjInv' /\ StartInv'
  BY <1>1 DEF TypeOK, CallInv, ObjInv, StartInv
<1>4. OneStarter' /\ OneJoiner'
  BY <1>1 DEF TypeOK, CallInv, OneStarter, OneJoiner
<1>5. UnlistInv' /\ FreedInv'
  BY <1>1 DEF TypeOK, CallInv, UnlistInv, FreedInv
<1>6. JoinInv'
  BY <1>1 DEF TypeOK, JoinInv, CallInv, ObjInv
<1> QED
  BY <1>1, <1>2, <1>3, <1>4, <1>5, <1>6

\* The winner of the compare-and-swap runnable -> joining finds a handle and
\* is the only owner: any other owner would have made the state joining
\* before.
LEMMA JoinCasIInv ==
  ASSUME IInv, NEW a \in Actors, JoinCas(a)
  PROVE  IInv'
<1>1. TypeOK'
  <2> USE DEF IInv, TypeOK, JoinCas, gcVars, protVars
  <2>1. CASE state[arg[a]] = "runnable"
    <3>1. arg[a] \in Objs
      BY DEF CallInv, Joining, Testing
    <3>2. /\ state' \in [Objs -> {"void", "new", "runnable", "joining", "dead"}]
          /\ pc' \in [Actors -> PCs]
      BY <2>1, <3>1 DEF Goto, PCs
    <3> QED
      BY <2>1, <3>2
  <2>2. CASE state[arg[a]] # "runnable"
    BY <2>2, JoinReturnType
  <2> QED
    BY <2>1, <2>2
<1> USE ThreadAssumption
    DEF IInv, Actors, NoObj, Starting, Testing, Owning, Joining, Sweeping, PCs,
        JoinCas, Goto, JoinReturn, gcVars, protVars, Leave
<1>2. CallInv' /\ SweepInv' /\ TrapInv'
  BY <1>1 DEF TypeOK, CallInv, SweepInv, TrapInv
<1>3. ObjInv'
  BY <1>1 DEF TypeOK, CallInv, ObjInv
<1>4. OneStarter'
  BY <1>1 DEF TypeOK, CallInv, OneStarter
<1>5. UnlistInv' /\ FreedInv'
  BY <1>1 DEF TypeOK, CallInv, UnlistInv, FreedInv
<1>6. StartInv'
  BY <1>1 DEF TypeOK, StartInv, CallInv, JoinInv
<1>7. JoinInv'
  BY <1>1 DEF TypeOK, JoinInv, CallInv, ObjInv
<1>8. OneJoiner'
  <2> SUFFICES ASSUME NEW b \in Actors, NEW c \in Actors,
                      Owning(b)', Owning(c)', (arg[b] = arg[c])'
               PROVE  b = c
    BY DEF OneJoiner
  <2>1. CASE state[arg[a]] = "runnable"
    <3>1. \A d \in Actors \ {a} : Owning(d) => state[arg[d]] # "runnable"
      BY DEF JoinInv
    <3>2. arg' = arg /\ \A d \in Actors \ {a} : pc'[d] = pc[d]
      BY <2>1 DEF TypeOK
    <3> QED
      BY <2>1, <3>1, <3>2 DEF OneJoiner
  <2>2. CASE state[arg[a]] # "runnable"
    <3>1. ~Owning(a)' /\ \A d \in Actors \ {a} : Owning(d)' => Owning(d) /\ arg'[d] = arg[d]
      BY <2>2, JoinReturnFrame
    <3> QED
      BY <3>1 DEF OneJoiner
  <2> QED
    BY <2>1, <2>2
<1> QED
  BY <1>1, <1>2, <1>3, <1>4, <1>5, <1>6, <1>7, <1>8

\* The owner takes the handle; nobody else stores one in a joining object.
LEMMA JoinTakeIInv ==
  ASSUME IInv, NEW a \in Actors, JoinTake(a)
  PROVE  IInv'
<1> USE ThreadAssumption
    DEF IInv, Actors, NoObj, Starting, Testing, Owning, Joining, Sweeping, PCs,
        JoinTake, Goto, gcVars, protVars
<1>1. TypeOK'
  BY DEF TypeOK, CallInv
<1>2. CallInv' /\ SweepInv' /\ TrapInv'
  BY <1>1 DEF TypeOK, CallInv, SweepInv, TrapInv
<1>3. ObjInv' /\ JoinInv'
  BY <1>1 DEF TypeOK, CallInv, ObjInv, JoinInv
<1>4. OneStarter' /\ OneJoiner'
  BY <1>1 DEF TypeOK, CallInv, OneStarter, OneJoiner
<1>5. UnlistInv' /\ FreedInv'
  BY <1>1 DEF TypeOK, CallInv, UnlistInv, FreedInv
<1>6. StartInv'
  BY <1>1 DEF TypeOK, StartInv, JoinInv
<1> QED
  BY <1>1, <1>2, <1>3, <1>4, <1>5, <1>6

\* PR_JoinThread consumes a thread that has exited, once: the handle is gone
\* and the owner alone.
LEMMA JoinWaitIInv ==
  ASSUME IInv, NEW a \in Actors, JoinWait(a)
  PROVE  IInv'
<1>1. TypeOK'
  <2> USE DEF IInv, TypeOK, JoinWait, gcVars, protVars
  <2>1. /\ pc' \in [Actors -> PCs]
        /\ native' \in [Objs -> {"none", "running", "exited", "joined"}]
    BY DEF Goto, PCs, CallInv, Joining, Owning
  <2> QED
    BY <2>1
<1> USE ThreadAssumption
    DEF IInv, Actors, NoObj, Starting, Testing, Owning, Joining, Sweeping, PCs,
        JoinWait, Goto, gcVars, protVars
<1>2. CallInv' /\ SweepInv' /\ TrapInv'
  BY <1>1 DEF TypeOK, CallInv, SweepInv, TrapInv
<1>3. OneStarter' /\ OneJoiner'
  BY <1>1 DEF TypeOK, CallInv, OneStarter, OneJoiner
<1>4. UnlistInv' /\ FreedInv'
  BY <1>1 DEF TypeOK, CallInv, UnlistInv, FreedInv
<1>5. ObjInv'
  BY <1>1 DEF TypeOK, ObjInv, JoinInv
<1>6. StartInv'
  BY <1>1 DEF TypeOK, StartInv, CallInv, JoinInv
<1>7. JoinInv'
  BY <1>1 DEF TypeOK, JoinInv, CallInv, OneJoiner
<1> QED
  BY <1>1, <1>2, <1>3, <1>4, <1>5, <1>6, <1>7

\* The object that cannot be joined stays in state joining, without a handle.
LEMMA JoinFailsIInv ==
  ASSUME IInv, NEW a \in Actors, JoinFails(a)
  PROVE  IInv'
<1>1. TypeOK'
  BY JoinReturnType DEF IInv, TypeOK, JoinFails, handleVars, gcVars, protVars
<1> USE ThreadAssumption
    DEF IInv, Actors, NoObj, Starting, Testing, Owning, Joining, Sweeping, PCs,
        JoinFails, Goto, JoinReturn, handleVars, gcVars, protVars, Leave
<1>2. CallInv' /\ SweepInv' /\ TrapInv'
  BY <1>1 DEF TypeOK, CallInv, SweepInv, TrapInv
<1>3. /\ \A b \in Actors : Starting(b)' => Starting(b) /\ arg'[b] = arg[b]
      /\ \A b \in Actors : Owning(b)' => Owning(b) /\ arg'[b] = arg[b]
  BY <1>1 DEF TypeOK
<1>8. OneStarter' /\ OneJoiner'
  BY <1>3 DEF OneStarter, OneJoiner
<1>4. UnlistInv' /\ FreedInv'
  BY <1>1 DEF TypeOK, CallInv, UnlistInv, FreedInv
<1>5. ObjInv'
  BY <1>1 DEF TypeOK, ObjInv, JoinInv
<1>6. StartInv'
  BY <1>1 DEF TypeOK, StartInv, CallInv, JoinInv
<1>7. JoinInv'
  BY <1>1 DEF TypeOK, JoinInv, CallInv, OneJoiner
<1> QED
  BY <1>1, <1>2, <1>4, <1>5, <1>6, <1>7, <1>8

\* The owner finds the state joining, as it left it.
LEMMA JoinDoneIInv ==
  ASSUME IInv, NEW a \in Actors, JoinDone(a)
  PROVE  IInv'
<1>1. TypeOK'
  <2> USE DEF IInv, TypeOK, JoinDone, gcVars, protVars
  <2>1. CASE state[arg[a]] = "joining"
    <3>1. arg[a] \in Objs
      BY DEF CallInv, Joining, Owning
    <3>2. /\ state' \in [Objs -> {"void", "new", "runnable", "joining", "dead"}]
          /\ pc' \in [Actors -> PCs]
      BY <2>1, <3>1 DEF Goto, PCs
    <3> QED
      BY <2>1, <3>2
  <2>2. CASE state[arg[a]] # "joining"
    BY <2>2, JoinReturnType DEF NotReached
  <2> QED
    BY <2>1, <2>2
<1> USE ThreadAssumption
    DEF IInv, Actors, NoObj, Starting, Testing, Owning, Joining, Sweeping, PCs,
        JoinDone, Goto, JoinReturn, NotReached, gcVars, protVars, Leave
<1>2. CallInv' /\ SweepInv'
  BY <1>1 DEF TypeOK, CallInv, SweepInv
<1>3. StartInv'
  BY <1>1 DEF TypeOK, CallInv, StartInv
<1>4. OneStarter' /\ OneJoiner'
  BY <1>1 DEF TypeOK, CallInv, OneStarter, OneJoiner
<1>5. UnlistInv' /\ FreedInv'
  <2>1. UnlistInv'
    BY <1>1 DEF TypeOK, CallInv, UnlistInv
  <2>2. FreedInv'
    BY <1>1 DEF TypeOK, CallInv, FreedInv
  <2> QED
    BY <2>1, <2>2
<1>6. ObjInv'
  BY <1>1 DEF TypeOK, ObjInv, JoinInv
<1>7. JoinInv'
  BY <1>1 DEF TypeOK, JoinInv, CallInv, OneJoiner
<1>8. TrapInv'
  BY <1>1 DEF TypeOK, TrapInv, JoinInv
<1> QED
  BY <1>1, <1>2, <1>3, <1>4, <1>5, <1>6, <1>7, <1>8

\* The thread of the object that leaves the list is joined, and no other actor
\* still owns it.
LEMMA JoinUnlistIInv ==
  ASSUME IInv, NEW a \in Actors, JoinUnlist(a)
  PROVE  IInv'
<1>1. TypeOK'
  BY JoinReturnType
  DEF IInv, TypeOK, CallInv, PCs, Starting, Joining, Testing, Owning,
      JoinUnlist, handleVars, protVars
<1> USE ThreadAssumption
    DEF IInv, Actors, NoObj, Starting, Testing, Owning, Joining, Sweeping, PCs,
        JoinUnlist, JoinReturn, handleVars, protVars, Goto, Leave
<1>2. CallInv' /\ SweepInv' /\ TrapInv'
  BY <1>1 DEF TypeOK, CallInv, SweepInv, TrapInv
<1>3. OneStarter' /\ OneJoiner'
  <2>1. OneStarter'
    BY <1>1 DEF TypeOK, CallInv, OneStarter
  <2>2. OneJoiner'
    BY <1>1 DEF TypeOK, CallInv, OneJoiner
  <2> QED
    BY <2>1, <2>2
<1>4. UnlistInv' /\ FreedInv'
  BY <1>1 DEF TypeOK, CallInv, UnlistInv, FreedInv
<1>5. ObjInv'
  BY <1>1 DEF TypeOK, ObjInv, JoinInv
<1>6. StartInv'
  BY <1>1 DEF TypeOK, StartInv, JoinInv
<1>7. JoinInv'
  BY <1>1 DEF TypeOK, JoinInv, OneJoiner
<1> QED
  BY <1>1, <1>2, <1>3, <1>4, <1>5, <1>6, <1>7

\* The flag sweepLock is taken.
LEMMA SweepIInv ==
  ASSUME IInv, NEW a \in Actors, Sweep(a)
  PROVE  IInv'
<1> USE ThreadAssumption
    DEF IInv, Actors, NoObj, Starting, Testing, Owning, Joining, Sweeping, PCs,
        Sweep, Goto, Scripting, handleVars, gcVars
<1>1. TypeOK'
  BY DEF TypeOK, CallInv
<1>2. CallInv' /\ SweepInv' /\ TrapInv'
  BY <1>1 DEF TypeOK, CallInv, SweepInv, TrapInv
<1>3. ObjInv' /\ StartInv' /\ JoinInv'
  BY <1>1 DEF TypeOK, CallInv, ObjInv, StartInv, JoinInv
<1>4. OneStarter' /\ OneJoiner'
  BY <1>1 DEF TypeOK, CallInv, OneStarter, OneJoiner
<1>5. UnlistInv' /\ FreedInv'
  BY <1>1 DEF TypeOK, CallInv, UnlistInv, FreedInv
<1> QED
  BY <1>1, <1>2, <1>3, <1>4, <1>5

\* The sweep calls thread_join for an object.
LEMMA SweepNextIInv ==
  ASSUME IInv, NEW a \in Actors, SweepNext(a)
  PROVE  IInv'
<1> USE ThreadAssumption
    DEF IInv, Actors, NoObj, Starting, Testing, Owning, Joining, Sweeping, PCs,
        SweepNext, Goto, handleVars, gcVars, protVars
<1>1. TypeOK'
  BY DEF TypeOK, CallInv
<1>2. CallInv' /\ SweepInv' /\ TrapInv'
  BY <1>1 DEF TypeOK, CallInv, SweepInv, TrapInv
<1>3. ObjInv' /\ StartInv' /\ JoinInv'
  BY <1>1 DEF TypeOK, CallInv, ObjInv, StartInv, JoinInv
<1>4. OneStarter' /\ OneJoiner'
  BY <1>1 DEF TypeOK, CallInv, OneStarter, OneJoiner
<1>5. UnlistInv' /\ FreedInv'
  BY <1>1 DEF TypeOK, CallInv, UnlistInv, FreedInv
<1> QED
  BY <1>1, <1>2, <1>3, <1>4, <1>5

\* The flag is still set when the sweep ends.
LEMMA SweepEndIInv ==
  ASSUME IInv, NEW a \in Actors, SweepEnd(a)
  PROVE  IInv'
<1>1. TypeOK'
  <2> USE DEF IInv, TypeOK, SweepEnd, handleVars, gcVars
  <2>1. CASE sweepLock
    BY <2>1, LeaveType DEF SweepInv
  <2>2. CASE ~sweepLock
    BY <2>2, LeaveType DEF NotReached
  <2> QED
    BY <2>1, <2>2
<1> USE ThreadAssumption
    DEF IInv, Actors, NoObj, Starting, Testing, Owning, Joining, Sweeping, PCs,
        SweepEnd, Leave, NotReached, handleVars, gcVars, Goto
<1>2. CallInv' /\ SweepInv'
  BY <1>1 DEF TypeOK, CallInv, SweepInv
<1>3. ObjInv' /\ StartInv' /\ JoinInv'
  BY <1>1, SMTT(30) DEF TypeOK, CallInv, ObjInv, StartInv, JoinInv
<1>4. OneStarter' /\ OneJoiner'
  BY <1>1 DEF TypeOK, CallInv, OneStarter, OneJoiner
<1>5. UnlistInv' /\ FreedInv'
  BY <1>1 DEF TypeOK, CallInv, UnlistInv, FreedInv
<1>6. TrapInv'
  BY <1>1 DEF TypeOK, TrapInv, SweepInv
<1> QED
  BY <1>1, <1>2, <1>3, <1>4, <1>5, <1>6

\* thread_joinAll begins, in the primordial thread.
LEMMA FiniModuleIInv ==
  ASSUME IInv, FiniModule
  PROVE  IInv'
<1> USE ThreadAssumption
    DEF IInv, Actors, NoObj, Starting, Testing, Owning, Joining, Sweeping, PCs,
        FiniModule, Goto, Scripting, handleVars, gcVars, protVars
<1>1. TypeOK'
  BY DEF TypeOK, CallInv
<1>2. CallInv' /\ SweepInv' /\ TrapInv'
  BY <1>1 DEF TypeOK, CallInv, SweepInv, TrapInv
<1>3. ObjInv' /\ StartInv' /\ JoinInv'
  BY <1>1 DEF TypeOK, CallInv, ObjInv, StartInv, JoinInv
<1>4. OneStarter' /\ OneJoiner'
  BY <1>1 DEF TypeOK, CallInv, OneStarter, OneJoiner
<1>5. UnlistInv' /\ FreedInv'
  BY <1>1 DEF TypeOK, CallInv, UnlistInv, FreedInv
<1> QED
  BY <1>1, <1>2, <1>3, <1>4, <1>5

\* thread_joinAll calls thread_join for an object of the list.
LEMMA JoinAllNextIInv ==
  ASSUME IInv, JoinAllNext
  PROVE  IInv'
<1> USE ThreadAssumption
    DEF IInv, Actors, NoObj, Starting, Testing, Owning, Joining, Sweeping, PCs,
        JoinAllNext, Goto, handleVars, gcVars, protVars
<1>1. TypeOK'
  BY DEF TypeOK, CallInv
<1>2. CallInv' /\ SweepInv' /\ TrapInv'
  BY <1>1 DEF TypeOK, CallInv, SweepInv, TrapInv
<1>3. ObjInv' /\ StartInv' /\ JoinInv'
  BY <1>1, SMTT(30) DEF TypeOK, CallInv, ObjInv, StartInv, JoinInv
<1>4. OneStarter' /\ OneJoiner'
  BY <1>1 DEF TypeOK, CallInv, OneStarter, OneJoiner
<1>5. UnlistInv' /\ FreedInv'
  BY <1>1 DEF TypeOK, CallInv, UnlistInv, FreedInv
<1> QED
  BY <1>1, <1>2, <1>3, <1>4, <1>5

\* The state is only read.
LEMMA JoinAllErrorIInv ==
  ASSUME IInv, JoinAllError
  PROVE  IInv'
<1> USE ThreadAssumption
    DEF IInv, Actors, NoObj, Starting, Testing, Owning, Joining, Sweeping, PCs,
        JoinAllError, Goto, handleVars, gcVars, protVars
<1>1. TypeOK'
  BY DEF TypeOK, CallInv
<1>2. CallInv' /\ SweepInv' /\ TrapInv'
  BY <1>1 DEF TypeOK, CallInv, SweepInv, TrapInv
<1>3. ObjInv' /\ StartInv' /\ JoinInv'
  BY <1>1, SMTT(30) DEF TypeOK, CallInv, ObjInv, StartInv, JoinInv
<1>4. OneStarter' /\ OneJoiner'
  BY <1>1 DEF TypeOK, CallInv, OneStarter, OneJoiner
<1>5. UnlistInv' /\ FreedInv'
  BY <1>1 DEF TypeOK, CallInv, UnlistInv, FreedInv
<1> QED
  BY <1>1, <1>2, <1>3, <1>4, <1>5

\* Another round, or the end.
LEMMA JoinAllEndIInv ==
  ASSUME IInv, JoinAllEnd
  PROVE  IInv'
<1> USE ThreadAssumption
    DEF IInv, Actors, NoObj, Starting, Testing, Owning, Joining, Sweeping, PCs,
        JoinAllEnd, Goto, handleVars, gcVars
<1>1. TypeOK'
  <2> USE DEF TypeOK
  <2>1. CASE foundJoining
    <3>1. todo' \in [Actors -> SUBSET Objs]
      BY <2>1
    <3> QED
      BY <2>1, <3>1
  <2>2. CASE ~foundJoining
    BY <2>2
  <2> QED
    BY <2>1, <2>2
<1>2. CallInv' /\ SweepInv' /\ TrapInv'
  BY <1>1 DEF TypeOK, CallInv, SweepInv, TrapInv
<1>3. ObjInv' /\ StartInv' /\ JoinInv'
  BY <1>1 DEF TypeOK, CallInv, ObjInv, StartInv, JoinInv
<1>4. OneStarter' /\ OneJoiner'
  BY <1>1 DEF TypeOK, CallInv, OneStarter, OneJoiner
<1>5. UnlistInv' /\ FreedInv'
  BY <1>1 DEF TypeOK, CallInv, UnlistInv, FreedInv
<1> QED
  BY <1>1, <1>2, <1>3, <1>4, <1>5

\* An object that is collected is neither listed, so that it has no thread and
\* no handle, nor the argument of an actor other than an idle thread_joinAll.
LEMMA FinalizeIInv ==
  ASSUME IInv, NEW o \in Objs, Finalize(o)
  PROVE  IInv'
<1> USE ThreadAssumption
    DEF IInv, Actors, NoObj, Starting, Testing, Owning, Joining, Sweeping, PCs,
        Finalize, GCSafe, Collectable, protVars, opVars, OnStack
<1>1. TypeOK'
  BY DEF TypeOK, CallInv
<1>2. CallInv' /\ SweepInv'
  BY <1>1 DEF TypeOK, CallInv, SweepInv
<1>3. ObjInv' /\ StartInv' /\ JoinInv'
  BY <1>1, SMTT(30) DEF TypeOK, CallInv, ObjInv, StartInv, JoinInv
<1>4. OneStarter' /\ OneJoiner'
  BY <1>1 DEF TypeOK, CallInv, OneStarter, OneJoiner
<1>5. UnlistInv'
  BY <1>1 DEF TypeOK, CallInv, UnlistInv
<1>6. FreedInv'
  BY <1>1 DEF TypeOK, FreedInv, CallInv, JoinInv
<1>7. TrapInv'
  BY <1>1 DEF TypeOK, TrapInv, ObjInv
<1> QED
  BY <1>1, <1>2, <1>3, <1>4, <1>5, <1>6, <1>7

-----------------------------------------------------------------------------

\* Initially no object exists and every actor is idle.
LEMMA InitIInv == Init => IInv
<1> SUFFICES ASSUME Init PROVE IInv
  OBVIOUS
<1> USE ThreadAssumption
    DEF Init, Actors, NoObj, Starting, Testing, Owning, Joining, Sweeping
<1>1. TypeOK
  BY DEF TypeOK, PCs
<1>2. CallInv /\ ObjInv
  BY DEF CallInv, ObjInv
<1>3. StartInv /\ JoinInv /\ OneStarter /\ OneJoiner
  BY DEF StartInv, JoinInv, OneStarter, OneJoiner
<1>4. UnlistInv /\ FreedInv /\ SweepInv /\ TrapInv
  BY DEF UnlistInv, FreedInv, SweepInv, TrapInv
<1> QED
  BY <1>1, <1>2, <1>3, <1>4 DEF IInv

LEMMA StutterIInv == IInv /\ UNCHANGED vars => IInv'
  BY DEF IInv, TypeOK, CallInv, ObjInv, StartInv, OneStarter, JoinInv, OneJoiner,
         UnlistInv, FreedInv, SweepInv, TrapInv, Starting, Testing, Owning, Joining, Sweeping,
         vars, handleVars, gcVars, protVars, opVars

\* Every step of every actor keeps the inductive invariant.
LEMMA NextIInv == IInv /\ [Next]_vars => IInv'
<1> SUFFICES ASSUME IInv, [Next]_vars PROVE IInv'
  OBVIOUS
<1>1. ASSUME NEW a \in Actors, NEW o \in Objs, Construct(a, o) \/ Start(a, o) \/ Join(a, o)
      PROVE  IInv'
  BY <1>1, ConstructIInv, StartIInv, JoinIInv
<1>2. ASSUME NEW a \in Actors,
             \/ StartPrepare(a) \/ StartCreate(a) \/ StartAssign(a)
             \/ StartCheck(a) \/ StartFailed(a) \/ StartUnlist(a)
      PROVE  IInv'
  BY <1>2, StartPrepareIInv, StartCreateIInv, StartAssignIInv, StartCheckIInv,
     StartFailedIInv, StartUnlistIInv
<1>3. ASSUME NEW a \in Actors,
             \/ JoinSelf(a) \/ JoinCheck(a) \/ JoinCas(a)
             \/ JoinTake(a) \/ JoinWait(a) \/ JoinFails(a) \/ JoinDone(a) \/ JoinUnlist(a)
      PROVE  IInv'
  BY <1>3, JoinSelfIInv, JoinCheckIInv, JoinCasIInv, JoinTakeIInv, JoinWaitIInv,
     JoinFailsIInv, JoinDoneIInv, JoinUnlistIInv
<1>4. ASSUME NEW a \in Actors, Sweep(a) \/ SweepNext(a) \/ SweepEnd(a)
      PROVE  IInv'
  BY <1>4, SweepIInv, SweepNextIInv, SweepEndIInv
<1>5. ASSUME NEW o \in Objs, Drop(o) \/ RunReturn(o) \/ ThreadExit(o) \/ Finalize(o)
      PROVE  IInv'
  BY <1>5, DropIInv, RunReturnIInv, ThreadExitIInv, FinalizeIInv
<1>6. CASE FiniModule \/ JoinAllNext \/ JoinAllError \/ JoinAllEnd
  BY <1>6, FiniModuleIInv, JoinAllNextIInv, JoinAllErrorIInv, JoinAllEndIInv
<1> QED
  BY <1>1, <1>2, <1>3, <1>4, <1>5, <1>6, StutterIInv DEF Next

LEMMA Invariance == Spec => []IInv
  BY InitIInv, NextIInv, PTL DEF Spec

-----------------------------------------------------------------------------

\* The fields of the handles, the list and the actors keep their types.
THEOREM TypeCorrect == Spec => []TypeOK
  BY Invariance, PTL DEF IInv

\* Thread_Finalize frees no handle whose NSPR thread still exists or that a start,
\* a join or a sweep is using.
THEOREM NoHandleFreedInUse == Spec => []HandleOutlivesThread
<1>1. IInv => HandleOutlivesThread
  BY DEF IInv, TypeOK, ObjInv, FreedInv, HandleOutlivesThread
<1> QED
  BY <1>1, Invariance, PTL

\* However many actors join an object, PR_JoinThread is called with a PRThread that
\* exists, by one of them.
THEOREM OnePRJoin == Spec => []JoinedOnce
<1>1. IInv => JoinedOnce
  BY DEF IInv, JoinInv, OneJoiner, Owning, JoinedOnce
<1> QED
  BY <1>1, Invariance, PTL

\* Thread.threadList roots every object whose NSPR thread exists; a dead object has
\* none.
THEOREM ListRootsThreads == Spec => []ListHoldsLiveThreads
<1>1. IInv => ListHoldsLiveThreads
  BY DEF IInv, ObjInv, UnlistInv, ListHoldsLiveThreads
<1> QED
  BY <1>1, Invariance, PTL

\* In a build that keeps the result of PR_CreateThread in a register no assertion
\* fails and no finalizer blocks the collector.
THEOREM NoAssertionFails ==
  ASSUME ~RereadHandle
  PROVE  Spec => []NoTrap
<1>1. IInv => NoTrap
  BY DEF IInv, TrapInv, NoTrap
<1> QED
  BY <1>1, Invariance, PTL
=============================================================================
