------------------------------- MODULE Reactor --------------------------------
(***************************************************************************)
(* The event loop of modules/reactor/reactor.js: functions to run soon,    *)
(* timeouts, intervals, maintenance functions and clean-ups, kept in       *)
(* arrays that the functions change while the loop is walking over them.   *)
(*                                                                         *)
(* The loop runs in one thread.  Whatever it calls may make any calls of   *)
(* the module, one step each, before it returns or throws; the clock goes  *)
(* on meanwhile.  An event is the object or the function that is           *)
(* registered, and is registered once.                                     *)
(***************************************************************************)
EXTENDS Naturals, Sequences, SequencesExt

CONSTANTS Events,       \* the numbers of the events, in the order of their creation
          Delays,       \* what scripts pass to setTimeout and setInterval
          IntervalClamp, \* config.intervalClamp
          Epoch,        \* the time at which the reactor is activated
          LastTime      \* bound: the clock stops

ASSUME ReactorAssumption ==
  /\ Events \subseteq Nat \ {0}
  /\ Delays \cup {IntervalClamp} \subseteq 0..(Epoch - 1)   \* Date.now() is more
  /\ Epoch \in Nat /\ LastTime \in Nat /\ Epoch <= LastTime

VARIABLES
  rePc,           \* where activate is
  reCalled,       \* whether it is in a function it has called ...
  reCurrent,      \* ... and the event it has called, or 0
  reIndex,        \* its i, which each loop sets to 1
  reNow,          \* its now
  reQuit,         \* quitObject.quit
  reFailed,       \* whether the initializer or a clean-up threw
  reClock,        \* Date.now()
  reRole,         \* what each event has been registered as
  rePending,      \* pendingEvents
  reScheduled,    \* scheduledEvents, and its dirty flag
  reScheduledDirty,
  reRecurring,    \* recurringEvents, and its dirty flag
  reRecurringDirty,
  reMaintenance,  \* maintenanceEvents
  reCleanups,     \* cleanupEvents
  reFinished      \* the clean-ups that are over

reLoopVars == <<rePc, reCalled, reCurrent, reIndex, reNow>>
timerVars == <<reScheduled, reScheduledDirty>>
intervalVars == <<reRecurring, reRecurringDirty>>
reEventVars == <<rePending, timerVars, intervalVars, reMaintenance, reCleanups>>
reEndVars == <<reQuit, reFailed, reFinished>>
reactorVars == <<reLoopVars, reClock, reRole, reEventVars, reEndVars>>

Roles == {"fresh", "task", "timeout", "interval", "maintenance", "cleanup"}
Timeouts == [id : Events, when : Nat]
Intervals == [id : Events, when : Nat, delay : Nat]

ReactorTypeOK ==
  /\ rePc \in {"initializer", "top", "pending", "scheduled", "recurring", "maintenance",
               "cleanup", "retry", "over"}
  /\ reCalled \in BOOLEAN /\ reCurrent \in Events \cup {0}
  /\ reIndex \in Nat /\ reNow \in 0..LastTime /\ reClock \in Epoch..LastTime
  /\ reQuit \in BOOLEAN /\ reFailed \in BOOLEAN
  /\ reRole \in [Events -> Roles]
  /\ {rePending, reMaintenance, reCleanups} \subseteq Seq(Events)
  /\ reScheduled \in Seq(Timeouts) /\ reRecurring \in Seq(Intervals)
  /\ reScheduledDirty \in BOOLEAN /\ reRecurringDirty \in BOOLEAN
  /\ reFinished \subseteq Events

ReactorInit ==
  /\ rePc = "initializer" /\ reCalled = TRUE /\ reCurrent = 0 /\ reIndex = 1 /\ reNow = 0
  /\ reClock = Epoch
  /\ reRole = [e \in Events |-> "fresh"]
  /\ rePending = <<>>
  /\ reScheduled = <<>> /\ reScheduledDirty = FALSE
  /\ reRecurring = <<>> /\ reRecurringDirty = FALSE
  /\ reMaintenance = <<>> /\ reCleanups = <<>>
  /\ reQuit = FALSE /\ reFailed = FALSE /\ reFinished = {}

-----------------------------------------------------------------------------
(* What a function that the loop has called may do                           *)

\* The next event that has not been registered yet.
IsNext(e) == reRole[e] = "fresh" /\ \A f \in Events : f < e => reRole[f] # "fresh"

Register(e, role) ==
  /\ reCalled /\ IsNext(e)
  /\ reRole' = [reRole EXCEPT ![e] = role]
  /\ UNCHANGED <<reLoopVars, reClock, reEndVars>>

RunSoon(e) ==
  /\ Register(e, "task")
  /\ rePending' = Append(rePending, e)
  /\ UNCHANGED <<timerVars, intervalVars, reMaintenance, reCleanups>>

RegisterMaintenance(e) ==
  /\ Register(e, "maintenance")
  /\ reMaintenance' = Append(reMaintenance, e)
  /\ UNCHANGED <<rePending, timerVars, intervalVars, reCleanups>>

RegisterCleanup(e) ==
  /\ Register(e, "cleanup")
  /\ reCleanups' = Append(reCleanups, e)
  /\ UNCHANGED <<rePending, timerVars, intervalVars, reMaintenance>>

\* Mutant: the array is not sorted again for the new timeout.
SetTimeoutClean(e, d) ==
  /\ Register(e, "timeout")
  /\ reScheduled' = Append(reScheduled, [id |-> e, when |-> d + reClock])
  /\ UNCHANGED <<rePending, reScheduledDirty, intervalVars, reMaintenance, reCleanups>>

SetTimeout(e, d) ==
  /\ Register(e, "timeout")
  /\ reScheduled' = Append(reScheduled, [id |-> e, when |-> d + reClock])
  /\ reScheduledDirty' = TRUE
  /\ UNCHANGED <<rePending, intervalVars, reMaintenance, reCleanups>>

\* A delay is at least that of the clamp.  The first time is the delay, and not the delay
\* from now.
SetInterval(e, d) ==
  /\ Register(e, "interval")
  /\ LET delay == IF d < IntervalClamp THEN IntervalClamp ELSE d IN
     reRecurring' = Append(reRecurring, [id |-> e, when |-> delay, delay |-> delay])
  /\ reRecurringDirty' = TRUE
  /\ UNCHANGED <<rePending, timerVars, reMaintenance, reCleanups>>

\* indexOf, and splice of what it finds.
Without(q, e) ==
  IF \E i \in DOMAIN q : q[i].id = e
  THEN RemoveAt(q, CHOOSE i \in DOMAIN q : q[i].id = e) ELSE q

ClearTimeout(e) ==
  /\ reCalled /\ reRole[e] = "timeout"
  /\ reScheduled' = Without(reScheduled, e)
  /\ reScheduledDirty' = TRUE
  /\ UNCHANGED <<reLoopVars, reClock, reRole, rePending, intervalVars, reMaintenance,
                 reCleanups, reEndVars>>

ClearInterval(e) ==
  /\ reCalled /\ reRole[e] = "interval"
  /\ reRecurring' = Without(reRecurring, e)
  /\ reRecurringDirty' = TRUE
  /\ UNCHANGED <<reLoopVars, reClock, reRole, rePending, timerVars, reMaintenance,
                 reCleanups, reEndVars>>

\* The initializer, or a function that can reach its quit object, sets the property.
Quit ==
  /\ reCalled
  /\ reQuit' = TRUE
  /\ UNCHANGED <<reLoopVars, reClock, reRole, reEventVars, reFailed, reFinished>>

\* Time passes where it can be noticed: in the functions, and while the loop sleeps.
TimePasses ==
  /\ reClock < LastTime /\ (reCalled \/ rePc = "top")
  /\ reClock' = reClock + 1
  /\ UNCHANGED <<reLoopVars, reRole, reEventVars, reEndVars>>

-----------------------------------------------------------------------------
(* activate: the steps of the loop between its calls                         *)

CallEvent(e) == reCalled' = TRUE /\ reCurrent' = e

GotoPc(l) == rePc' = l /\ UNCHANGED <<reCalled, reCurrent>>

\* What sort(whenCompare) may make of an array: events of the same time come in any order.
Sorted(q) ==
  {s \in {[i \in DOMAIN q |-> q[p[i]]] : p \in Bijection(DOMAIN q, DOMAIN q)} :
     \A i, j \in DOMAIN q : i < j => s[i].when <= s[j].when}

\* while(!quitObject.quit)
Top ==
  /\ rePc = "top"
  /\ IF reQuit THEN GotoPc("cleanup") /\ UNCHANGED reNow
     ELSE GotoPc("pending") /\ reNow' = reClock
  /\ UNCHANGED <<reIndex, reEventVars>>

CallPending ==
  /\ rePc = "pending" /\ rePending # <<>>
  /\ CallEvent(Head(rePending))
  /\ rePending' = Tail(rePending)
  /\ UNCHANGED <<rePc, reIndex, reNow, timerVars, intervalVars, reMaintenance, reCleanups>>

SortScheduled ==
  /\ rePc = "pending" /\ rePending = <<>>
  /\ IF reScheduledDirty THEN reScheduled' \in Sorted(reScheduled) ELSE UNCHANGED reScheduled
  /\ reScheduledDirty' = FALSE
  /\ GotoPc("scheduled")
  /\ UNCHANGED <<reIndex, reNow, rePending, intervalVars, reMaintenance, reCleanups>>

\* The first timeout of the array has passed: it is taken out and called.
TimeoutPassed == reScheduled # <<>> /\ Head(reScheduled).when < reNow

CallScheduled ==
  /\ rePc = "scheduled" /\ TimeoutPassed
  /\ CallEvent(Head(reScheduled).id)
  /\ reScheduled' = Tail(reScheduled)
  /\ UNCHANGED <<rePc, reIndex, reNow, rePending, reScheduledDirty, intervalVars,
                 reMaintenance, reCleanups>>

SortRecurring ==
  /\ rePc = "scheduled" /\ ~TimeoutPassed
  /\ IF reRecurringDirty THEN reRecurring' \in Sorted(reRecurring) ELSE UNCHANGED reRecurring
  /\ reRecurringDirty' = FALSE
  /\ GotoPc("recurring")
  /\ UNCHANGED <<reIndex, reNow, rePending, timerVars, reMaintenance, reCleanups>>

IntervalPassed == reIndex <= Len(reRecurring) /\ reRecurring[reIndex].when <= reNow

CallRecurring ==
  /\ rePc = "recurring" /\ IntervalPassed
  /\ CallEvent(reRecurring[reIndex].id)
  /\ UNCHANGED <<rePc, reIndex, reNow, reEventVars>>

EndRecurring ==
  /\ rePc = "recurring" /\ ~IntervalPassed
  /\ GotoPc("maintenance") /\ reIndex' = 1
  /\ UNCHANGED <<reNow, reEventVars>>

\* The maintenance functions of the loop, or those that are called between two tries
\* of a clean-up.
CallMaintenance ==
  /\ rePc \in {"maintenance", "retry"} /\ reIndex <= Len(reMaintenance)
  /\ CallEvent(reMaintenance[reIndex])
  /\ UNCHANGED <<rePc, reIndex, reNow, reEventVars>>

\* The comparison of the three lengths with 0 compares a boolean with it, and never
\* ends the loop.
EndMaintenance ==
  /\ rePc \in {"maintenance", "retry"} /\ reIndex > Len(reMaintenance)
  /\ GotoPc(IF rePc = "retry" THEN "cleanup" ELSE "top") /\ reIndex' = 1
  /\ UNCHANGED <<reNow, reEventVars>>

CallCleanup ==
  /\ rePc = "cleanup" /\ reCleanups # <<>>
  /\ CallEvent(Last(reCleanups))
  /\ reCleanups' = Front(reCleanups)
  /\ UNCHANGED <<rePc, reIndex, reNow, rePending, timerVars, intervalVars, reMaintenance>>

EndCleanup ==
  /\ rePc = "cleanup" /\ reCleanups = <<>>
  /\ GotoPc("over")
  /\ UNCHANGED <<reIndex, reNow, reEventVars>>

LoopStep ==
  /\ ~reCalled
  /\ \/ Top \/ CallPending \/ SortScheduled \/ CallScheduled \/ SortRecurring
     \/ CallRecurring \/ EndRecurring \/ CallMaintenance \/ EndMaintenance
     \/ CallCleanup \/ EndCleanup
  /\ UNCHANGED <<reClock, reRole, reEndVars>>

-----------------------------------------------------------------------------
(* activate: a function it has called returns, or throws                     *)

Returned ==
  /\ reCalled /\ reCalled' = FALSE /\ reCurrent' = 0
  /\ UNCHANGED <<reNow, reClock, reRole>>

ReturnFromEvent ==
  /\ rePc \in {"initializer", "pending", "scheduled"}
  /\ Returned
  /\ rePc' = IF rePc = "initializer" THEN "top" ELSE rePc
  /\ UNCHANGED <<reIndex, reEventVars, reEndVars>>

\* ev is the interval that has been called, wherever it is in the array by now.
ReturnFromInterval ==
  /\ rePc = "recurring"
  /\ Returned
  /\ reRecurring' = [i \in DOMAIN reRecurring |->
       IF reRecurring[i].id = reCurrent
       THEN [reRecurring[i] EXCEPT !.when = reRecurring[i].delay + reNow]
       ELSE reRecurring[i]]
  /\ reRecurringDirty' = TRUE
  /\ reIndex' = reIndex + 1
  /\ UNCHANGED <<rePc, rePending, timerVars, reMaintenance, reCleanups, reEndVars>>

\* A maintenance function that returns false leaves the array when a clean-up is waiting.
\* The one after it is then passed over.
ReturnFromMaintenance(idle) ==
  /\ rePc \in {"maintenance", "retry"}
  /\ Returned
  /\ reMaintenance' = IF rePc = "retry" /\ idle
                      THEN RemoveAt(reMaintenance, reIndex) ELSE reMaintenance
  /\ reIndex' = reIndex + 1
  /\ UNCHANGED <<rePc, rePending, timerVars, intervalVars, reCleanups, reEndVars>>

\* Mutant: a clean-up that returns false is not put back.
ReturnFromCleanupOnce(again) ==
  /\ rePc = "cleanup"
  /\ Returned
  /\ IF again /\ reMaintenance # <<>>
     THEN rePc' = "retry" /\ UNCHANGED reFinished
     ELSE reFinished' = reFinished \cup {reCurrent} /\ UNCHANGED rePc
  /\ UNCHANGED <<reIndex, reEventVars, reQuit, reFailed>>

\* A clean-up that returns false waits for the maintenance functions, when there are any,
\* and is put in front of all others: it is the last one to be called again.
ReturnFromCleanup(again) ==
  /\ rePc = "cleanup"
  /\ Returned
  /\ IF again /\ reMaintenance # <<>>
     THEN /\ reCleanups' = <<reCurrent>> \o reCleanups
          /\ rePc' = "retry"
          /\ UNCHANGED reFinished
     ELSE /\ reFinished' = reFinished \cup {reCurrent}
          /\ UNCHANGED <<rePc, reCleanups>>
  /\ UNCHANGED <<reIndex, rePending, timerVars, intervalVars, reMaintenance, reQuit, reFailed>>

\* An exception ends the loop, and the clean-ups follow; in the initializer, which is
\* called outside the try statement, or in the finally clause it ends the reactor.
ThrowsOut ==
  /\ Returned
  /\ LET last == rePc \in {"initializer", "cleanup", "retry"} IN
     /\ rePc' = IF last THEN "over" ELSE "cleanup"
     /\ reFailed' = last
  /\ reIndex' = 1
  /\ UNCHANGED <<reEventVars, reQuit, reFinished>>

ReturnStep ==
  \/ ReturnFromEvent \/ ReturnFromInterval
  \/ \E b \in BOOLEAN : ReturnFromMaintenance(b) \/ ReturnFromCleanup(b)

-----------------------------------------------------------------------------

ScriptStep ==
  \E e \in Events :
    \/ RunSoon(e) \/ RegisterMaintenance(e) \/ RegisterCleanup(e)
    \/ ClearTimeout(e) \/ ClearInterval(e)
    \/ \E d \in Delays : SetTimeout(e, d) \/ SetInterval(e, d)

ReactorNext == LoopStep \/ ReturnStep \/ ThrowsOut \/ ScriptStep \/ Quit \/ TimePasses

ReactorSpec == ReactorInit /\ [][ReactorNext]_reactorVars

-----------------------------------------------------------------------------
(* Properties                                                                *)

\* Timeouts run in the order of their times, none before its time, whatever the functions
\* that run set and clear while the loop is walking over the array (reactor.js:68-76),
\* which is sorted between its walks only.
TimeoutsInOrder ==
  [][\A i \in DOMAIN reScheduled :
       reCalled' /\ ~reCalled /\ reCurrent' = reScheduled[i].id =>
         /\ reScheduled[i].when <= reClock
         /\ \A j \in DOMAIN reScheduled : reScheduled[i].when <= reScheduled[j].when
    ]_reactorVars

\* "Once the loop terminates, all cleanups are run.  If a cleanup returns false and there are
\* maintenance functions defined, the cleanup will be re-run [...] until it does not return
\* false" (reactor.js:31-33): when the reactor is over each clean-up has come to its end,
\* whichever function has thrown in the loop, and whatever the clean-ups have registered.
CleanupsFinish ==
  rePc = "over" /\ ~reFailed => reFinished = {e \in Events : reRole[e] = "cleanup"}
=============================================================================
