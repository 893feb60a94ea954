---------------------------- MODULE CounterThread ----------------------------
(***************************************************************************)
(* The life of the counter thread (src/runloop.cpp).  One detached thread  *)
(* per process increments the global counter the run loops poll.  It is    *)
(* reference counted: every interpreter inside a profiling run loop holds  *)
(* one reference, the thread itself holds an implicit one, and the thread  *)
(* ends, after a countdown, when only its own reference is left.           *)
(*                                                                         *)
(* refcount is protected by refcount_mutex, except where the code does not *)
(* take it: the checks that start and stop the countdown, and the          *)
(* ++refcount of start_counter_thread() when a forked child calls it.      *)
(* Each read and each write of refcount outside the mutex is a step.       *)
(*                                                                         *)
(* One process is followed.  A fork is followed either in the parent or in *)
(* the child; in the child every other interpreter and the counter thread  *)
(* of the parent are gone, but the mutexes keep the state they had.        *)
(***************************************************************************)
EXTENDS Integers, FiniteSets

CONSTANTS
    Interps,         \* interpreters (the main one and its ithreads)
    Threads,         \* slots for counter threads
    NoOne,           \* the owner of a free mutex
    CountdownTicks,  \* ticks between "only my reference is left" and the exit
    Events           \* what the environment does, a subset of AllEvents

(* create:   pthread_create() may fail                                     *)
(* attr:     pthread_attr_init() may fail                                  *)
(* fork:     interpreters fork                                             *)
(* suspend:  they do so also while profiling is off and the trace is open  *)
(* slowfork: the new counter thread of a forked child may reach its exit   *)
(*           before the child counts the thread's reference                *)
(* clone:    interpreters start and end ithreads                           *)
(* exit:     the process runs its static destructors                       *)
AllEvents == {"create", "attr", "fork", "suspend", "slowfork", "clone", "exit"}

ASSUME FiniteAssumption == IsFiniteSet(Interps) /\ IsFiniteSet(Threads)
ASSUME ActorAssumption ==
    Interps \cap Threads = {} /\ NoOne \notin Interps \cup Threads
ASSUME CountdownAssumption == CountdownTicks \in Nat \ {0}
ASSUME EventsAssumption == Events \subseteq AllEvents

VARIABLES
    clock,       \* increment_counter_function, what counter threads run
    refcount,    \* the global refcount
    mutex,       \* who holds refcount_mutex
    tidMutex,    \* who holds tid_mutex
    phase,       \* "running", "flagged" (destroyed is set), "destroyed" (the mutexes are gone)
    alive,       \* the interpreters that exist in the process
    pc,          \* what each interpreter is doing
    outer,       \* Cxt::outer_runloop
    traceOpen,   \* Cxt::trace is a valid (open) file
    seen,        \* the value ++refcount read, between its read and its write
    tpc,         \* what each counter thread is doing, "off" if there is none
    countdown,   \* its local variable
    orphans      \* history: references that nobody will ever drop

interpVars == <<alive, pc, outer, traceOpen, seen>>
threadVars == <<tpc, countdown>>
stateVars == <<refcount, mutex, tidMutex, phase, interpVars, threadVars, orphans>>
vars == <<clock, stateVars>>

(* The interpreter holds refcount_mutex.  "start" to "abort" is            *)
(* enter_runloop(), "leave" is leave_runloop(), "fork" is prepare_fork()   *)
(* up to the handlers that run after the fork.                             *)
LockedPcs == {"start", "created", "uncreated", "commit", "abort", "leave", "fork"}
(* child_after_fork(), where the interpreter is the only one.              *)
ChildPcs == {"childstart", "childcreated", "childread", "childuncreated",
             "croak", "childtid"}
InterpPcs == {"idle", "stopping", "cloning"} \cup LockedPcs \cup ChildPcs

Clocks == {"increment_counter", "test_increment_counter"}
TestClock == clock = "test_increment_counter"

StateOK ==
    /\ refcount \in Nat
    /\ mutex \in Interps \cup Threads \cup {NoOne}
    /\ tidMutex \in Interps \cup {NoOne}
    /\ phase \in {"running", "flagged", "destroyed"}
    /\ alive \in SUBSET Interps
    /\ pc \in [Interps -> InterpPcs]
    /\ outer \in [Interps -> BOOLEAN]
    /\ traceOpen \in [Interps -> BOOLEAN]
    /\ seen \in Nat
    /\ tpc \in [Threads -> {"off", "sleep", "check", "lock", "final"}]
    /\ countdown \in [Threads -> 0 .. CountdownTicks]
    /\ orphans \in Nat

TypeOK == StateOK /\ clock \in Clocks

Live == {t \in Threads : tpc[t] # "off"}
Running(i) == outer[i] \/ traceOpen[i]                 \* Cxt::is_running()

(* The perl program may run in interpreter i.                              *)
Idle(i) == phase = "running" /\ i \in alive /\ pc[i] = "idle"
Goto(i, label) == pc' = [pc EXCEPT ![i] = label]

(* The tests of the repository choose their clock before anything runs.    *)
Init ==
    /\ clock \in Clocks
    /\ refcount = 0 /\ mutex = NoOne /\ tidMutex = NoOne /\ phase = "running"
    /\ alive \in SUBSET Interps \ {{}}
    /\ pc = [i \in Interps |-> "idle"]
    /\ outer = [i \in Interps |-> FALSE]
    /\ traceOpen = [i \in Interps |-> FALSE]
    /\ seen = 0
    /\ tpc = [t \in Threads |-> "off"]
    /\ countdown = [t \in Threads |-> 0]
    /\ orphans = 0

-----------------------------------------------------------------------------
(* enter_runloop()                                                         *)

(* Mutant of EnterLock: starts a thread beside one that is counting down.  *)
EnterLockStartsTwice(i) ==
    /\ Idle(i) /\ ~outer[i]
    /\ mutex = NoOne /\ mutex' = i
    /\ refcount' = refcount + 1
    /\ Goto(i, IF refcount' <= 2 THEN "start" ELSE "commit")
    /\ UNCHANGED <<tidMutex, phase, alive, outer, traceOpen, seen, threadVars, orphans>>

(* Lock, ++refcount, and start the thread if there was no reference.       *)
EnterLock(i) ==
    /\ Idle(i) /\ ~outer[i]
    /\ mutex = NoOne /\ mutex' = i
    /\ refcount' = refcount + 1
    /\ Goto(i, IF refcount' = 1 THEN "start" ELSE "commit")
    /\ UNCHANGED <<tidMutex, phase, alive, outer, traceOpen, seen, threadVars, orphans>>

(* pthread_create(): the thread may run before its reference is counted.   *)
CreateThread(i) ==
    /\ \E t \in Threads :
          /\ tpc[t] = "off"
          /\ tpc' = [tpc EXCEPT ![t] = "sleep"]
          /\ countdown' = [countdown EXCEPT ![t] = 0]
    /\ \/ pc[i] = "start" /\ Goto(i, "created")
       \/ pc[i] = "childstart" /\ Goto(i, "childcreated")
    /\ UNCHANGED <<refcount, mutex, tidMutex, phase, alive, outer, traceOpen, seen, orphans>>

CreateFails(i) ==
    /\ "create" \in Events
    /\ \/ pc[i] = "start" /\ Goto(i, "uncreated")
       \/ pc[i] = "childstart" /\ Goto(i, "childuncreated")
    /\ UNCHANGED <<refcount, mutex, tidMutex, phase, alive, outer, traceOpen, seen,
                   threadVars, orphans>>

(* start_counter_thread() returns before it counts a reference.            *)
AttrFails(i) ==
    /\ "attr" \in Events
    /\ \/ pc[i] = "start" /\ Goto(i, "abort") /\ UNCHANGED traceOpen
       \/ /\ pc[i] = "childstart" /\ Goto(i, "croak")
          /\ traceOpen' = [traceOpen EXCEPT ![i] = FALSE]
    /\ UNCHANGED <<refcount, mutex, tidMutex, phase, alive, outer, seen, threadVars, orphans>>

(* Mutant of CountThread: the implicit reference is forgotten.             *)
CountThreadForgotten(i) ==
    /\ pc[i] = "created"
    /\ Goto(i, "commit")
    /\ UNCHANGED <<refcount, mutex, tidMutex, phase, alive, outer, traceOpen, seen,
                   threadVars, orphans>>

(* The ++refcount at the end of start_counter_thread(), under the mutex.   *)
CountThread(i) ==
    /\ pc[i] = "created"
    /\ refcount' = refcount + 1
    /\ Goto(i, "commit")
    /\ UNCHANGED <<mutex, tidMutex, phase, alive, outer, traceOpen, seen, threadVars, orphans>>

(* The same ++refcount when there is no thread to drop it; the child croaks*)
(* out of its fork handler with the trace shut.                            *)
CountNoThread(i) ==
    /\ refcount' = refcount + 1
    /\ orphans' = orphans + 1
    /\ \/ pc[i] = "uncreated" /\ Goto(i, "abort") /\ UNCHANGED traceOpen
       \/ /\ pc[i] = "childuncreated" /\ Goto(i, "croak")
          /\ traceOpen' = [traceOpen EXCEPT ![i] = FALSE]
    /\ UNCHANGED <<mutex, tidMutex, phase, alive, outer, seen, threadVars>>

(* outer_runloop = true and unlock; runloop() then opens the trace.        *)
EnterCommit(i) ==
    /\ pc[i] = "commit"
    /\ outer' = [outer EXCEPT ![i] = TRUE]
    /\ traceOpen' = [traceOpen EXCEPT ![i] = TRUE]
    /\ mutex' = NoOne
    /\ Goto(i, "idle")
    /\ UNCHANGED <<refcount, tidMutex, phase, alive, seen, threadVars, orphans>>

(* Mutant of EnterAbort: the reference of the failed run loop is kept.     *)
EnterAbortKeepsReference(i) ==
    /\ pc[i] = "abort"
    /\ mutex' = NoOne
    /\ Goto(i, "idle")
    /\ UNCHANGED <<refcount, tidMutex, phase, alive, outer, traceOpen, seen, threadVars, orphans>>

(* --refcount, unlock and croak.                                           *)
EnterAbort(i) ==
    /\ pc[i] = "abort"
    /\ refcount' = refcount - 1
    /\ mutex' = NoOne
    /\ Goto(i, "idle")
    /\ UNCHANGED <<tidMutex, phase, alive, outer, traceOpen, seen, threadVars, orphans>>

-----------------------------------------------------------------------------
(* leave_runloop() and stop_profile()                                      *)

(* The run loop ends, or profiling is disabled: the trace stays open.      *)
LeaveLock(i) ==
    /\ phase = "running" /\ i \in alive
    /\ pc[i] \in {"idle", "stopping", "croak"} /\ outer[i]
    /\ mutex = NoOne /\ mutex' = i
    /\ outer' = [outer EXCEPT ![i] = FALSE]
    /\ Goto(i, "leave")
    /\ UNCHANGED <<refcount, tidMutex, phase, alive, traceOpen, seen, threadVars, orphans>>

(* Mutant of LeaveUnlock: --refcount is missing.                           *)
LeaveUnlockKeepsReference(i) ==
    /\ pc[i] = "leave"
    /\ mutex' = NoOne
    /\ Goto(i, "idle")
    /\ UNCHANGED <<refcount, tidMutex, phase, alive, outer, traceOpen, seen, threadVars, orphans>>

LeaveUnlock(i) ==
    /\ pc[i] = "leave"
    /\ refcount' = refcount - 1
    /\ mutex' = NoOne
    /\ Goto(i, "idle")
    /\ UNCHANGED <<tidMutex, phase, alive, outer, traceOpen, seen, threadVars, orphans>>

(* stop_profile(): the trace is closed first, the run loop left afterwards.*)
Stop(i) ==
    /\ Idle(i) /\ traceOpen[i]
    /\ traceOpen' = [traceOpen EXCEPT ![i] = FALSE]
    /\ Goto(i, IF outer[i] THEN "stopping" ELSE "idle")
    /\ UNCHANGED <<refcount, mutex, tidMutex, phase, alive, outer, seen, threadVars, orphans>>

-----------------------------------------------------------------------------
(* fork(): the pthread_atfork() handlers                                   *)

ForkPrepare(i) ==
    /\ "fork" \in Events /\ Idle(i)
    /\ "suspend" \in Events \/ outer[i] \/ ~traceOpen[i]
    /\ mutex = NoOne /\ mutex' = i
    /\ Goto(i, "fork")
    /\ UNCHANGED <<refcount, tidMutex, phase, alive, outer, traceOpen, seen, threadVars, orphans>>

(* Unlock, close the trace, reopen it if the run loop is active.           *)
ForkParent(i) ==
    /\ pc[i] = "fork"
    /\ mutex' = NoOne
    /\ traceOpen' = [traceOpen EXCEPT ![i] = @ /\ outer[i]]
    /\ Goto(i, "idle")
    /\ UNCHANGED <<refcount, tidMutex, phase, alive, outer, seen, threadVars, orphans>>

(* Mutant of ForkChild: the child starts without its own reference.        *)
ForkChildUncounted(i) ==
    /\ pc[i] = "fork"
    /\ mutex' = NoOne
    /\ refcount' = 0
    /\ orphans' = 0
    /\ alive' = {i}
    /\ pc' = [j \in Interps |-> IF j # i THEN "idle"
                                ELSE IF Running(i) THEN "childstart" ELSE "childtid"]
    /\ outer' = [j \in Interps |-> j = i /\ outer[i]]
    /\ traceOpen' = [j \in Interps |-> j = i /\ Running(i)]
    /\ tpc' = [t \in Threads |-> "off"]
    /\ countdown' = [t \in Threads |-> 0]
    /\ UNCHANGED <<tidMutex, phase, seen>>

(* The child: shut the trace, reinit refcount_mutex (but not tid_mutex),   *)
(* reset refcount and start a thread if is_running().  The trace of a      *)
(* running child is reopened once the thread is started.                   *)
ForkChild(i) ==
    /\ pc[i] = "fork"
    /\ mutex' = NoOne
    /\ refcount' = IF Running(i) THEN 1 ELSE 0
    /\ orphans' = IF Running(i) /\ ~outer[i] THEN 1 ELSE 0
    /\ alive' = {i}
    /\ pc' = [j \in Interps |-> IF j # i THEN "idle"
                                ELSE IF Running(i) THEN "childstart" ELSE "childtid"]
    /\ outer' = [j \in Interps |-> j = i /\ outer[i]]
    /\ traceOpen' = [j \in Interps |-> j = i /\ Running(i)]
    /\ tpc' = [t \in Threads |-> "off"]
    /\ countdown' = [t \in Threads |-> 0]
    /\ UNCHANGED <<tidMutex, phase, seen>>

(* start_counter_thread() in the child counts the thread's reference with  *)
(* an unprotected read ...                                                 *)
ChildCountRead(i) ==
    /\ pc[i] = "childcreated"
    /\ seen' = refcount
    /\ Goto(i, "childread")
    /\ UNCHANGED <<refcount, mutex, tidMutex, phase, alive, outer, traceOpen, threadVars, orphans>>

(* ... and a write that undoes a decrement made by the thread in between.  *)
ChildCountWrite(i) ==
    /\ pc[i] = "childread"
    /\ refcount' = seen + 1
    /\ orphans' = orphans + (seen - refcount)
    /\ seen' = 0
    /\ Goto(i, "childtid")
    /\ UNCHANGED <<mutex, tidMutex, phase, alive, outer, traceOpen, threadVars>>

(* pid_changed() takes tid_mutex for a new thread id.                      *)
ChildTid(i) ==
    /\ pc[i] = "childtid" /\ tidMutex = NoOne
    /\ Goto(i, "idle")
    /\ UNCHANGED <<refcount, mutex, tidMutex, phase, alive, outer, traceOpen, seen,
                   threadVars, orphans>>

(* The croak of child_after_fork() is caught by an eval around the fork:   *)
(* the trampoline goes on in the same run loop.  LeaveLock is the other    *)
(* outcome.                                                                *)
CroakCaught(i) ==
    /\ pc[i] = "croak"
    /\ Goto(i, "idle")
    /\ UNCHANGED <<refcount, mutex, tidMutex, phase, alive, outer, traceOpen, seen,
                   threadVars, orphans>>

-----------------------------------------------------------------------------
(* ithreads: clone_runloop() and ~Cxt()                                    *)

CloneStart(i) ==
    /\ "clone" \in Events /\ Idle(i) /\ alive # Interps
    /\ tidMutex = NoOne /\ tidMutex' = i
    /\ Goto(i, "cloning")
    /\ UNCHANGED <<refcount, mutex, phase, alive, outer, traceOpen, seen, threadVars, orphans>>

CloneDone(i) ==
    /\ pc[i] = "cloning"
    /\ \E j \in Interps \ alive : alive' = alive \cup {j}
    /\ tidMutex' = NoOne
    /\ Goto(i, "idle")
    /\ UNCHANGED <<refcount, mutex, phase, outer, traceOpen, seen, threadVars, orphans>>

InterpExit(i) ==
    /\ "clone" \in Events /\ Idle(i) /\ ~outer[i] /\ alive # {i}
    /\ alive' = alive \ {i}
    /\ traceOpen' = [traceOpen EXCEPT ![i] = FALSE]
    /\ UNCHANGED <<refcount, mutex, tidMutex, phase, pc, outer, seen, threadVars, orphans>>

-----------------------------------------------------------------------------
(* exit(): `destroyed' is declared after refcount_mutex, so the flag is    *)
(* set first and the mutex destroyed next.                                 *)

SetDestroyed ==
    /\ "exit" \in Events /\ phase = "running"
    /\ \A i \in alive : Idle(i) /\ ~outer[i]
    /\ phase' = "flagged"
    /\ UNCHANGED <<refcount, mutex, tidMutex, interpVars, threadVars, orphans>>

DestroyMutex ==
    /\ phase = "flagged"
    /\ phase' = "destroyed"
    /\ UNCHANGED <<refcount, mutex, tidMutex, interpVars, threadVars, orphans>>

-----------------------------------------------------------------------------
(* The counter thread                                                      *)

(* Sleep, count, and return without dropping the reference if `destroyed', *)
(* which test_increment_counter() does not look at.                        *)
Tick(t) ==
    /\ tpc[t] = "sleep"
    /\ IF phase = "running" \/ TestClock
       THEN tpc' = [tpc EXCEPT ![t] = "check"] /\ UNCHANGED orphans
       ELSE tpc' = [tpc EXCEPT ![t] = "off"] /\ orphans' = orphans + 1
    /\ UNCHANGED <<refcount, mutex, tidMutex, phase, interpVars, countdown>>

(* What one unprotected check decides: the next countdown and whether the  *)
(* thread tries to end.                                                    *)
StillReferenced(t) ==
    /\ countdown[t] > 0 /\ refcount > 1
    /\ countdown' = [countdown EXCEPT ![t] = 0]
    /\ tpc' = [tpc EXCEPT ![t] = "sleep"]

CountDown(t) ==
    /\ countdown[t] > 0 /\ refcount <= 1
    /\ countdown' = [countdown EXCEPT ![t] = @ - 1]
    /\ tpc' = [tpc EXCEPT ![t] = IF countdown[t] = 1 THEN "lock" ELSE "sleep"]

(* Mutant of StartCountdown: the thread does not see its own reference.    *)
StartCountdownAtZero(t) ==
    /\ countdown[t] = 0
    /\ countdown' = [countdown EXCEPT ![t] = IF refcount = 0 THEN CountdownTicks ELSE 0]
    /\ tpc' = [tpc EXCEPT ![t] = "sleep"]

StartCountdown(t) ==
    /\ countdown[t] = 0
    /\ countdown' = [countdown EXCEPT ![t] = IF refcount = 1 THEN CountdownTicks ELSE 0]
    /\ tpc' = [tpc EXCEPT ![t] = "sleep"]

Check(t) ==
    /\ tpc[t] = "check" /\ ~TestClock
    /\ StillReferenced(t) \/ CountDown(t) \/ StartCountdown(t)
    /\ UNCHANGED <<refcount, mutex, tidMutex, phase, interpVars, orphans>>

(* Mutant of TestCheck: the thread does not see its own reference.         *)
TestCheckAtZero(t) ==
    /\ tpc[t] = "check" /\ TestClock
    /\ tpc' = [tpc EXCEPT ![t] = IF refcount = 0 THEN "lock" ELSE "sleep"]
    /\ UNCHANGED <<refcount, mutex, tidMutex, phase, interpVars, countdown, orphans>>

(* test_increment_counter() has no countdown.                              *)
TestCheck(t) ==
    /\ tpc[t] = "check" /\ TestClock
    /\ tpc' = [tpc EXCEPT ![t] = IF refcount = 1 THEN "lock" ELSE "sleep"]
    /\ UNCHANGED <<refcount, mutex, tidMutex, phase, interpVars, countdown, orphans>>

ThreadLock(t) ==
    /\ tpc[t] = "lock" /\ phase # "destroyed"
    /\ mutex = NoOne /\ mutex' = t
    /\ \/ "slowfork" \in Events
       \/ \A i \in Interps : pc[i] \notin {"childcreated", "childread"}
    /\ tpc' = [tpc EXCEPT ![t] = "final"]
    /\ UNCHANGED <<refcount, tidMutex, phase, interpVars, countdown, orphans>>

(* Mutants of ThreadFinal: the check is not repeated under the mutex; the  *)
(* mutex is not released when the thread goes on.                          *)
ThreadFinalUnchecked(t) ==
    /\ tpc[t] = "final"
    /\ mutex' = NoOne
    /\ refcount' = refcount - 1
    /\ tpc' = [tpc EXCEPT ![t] = "off"]
    /\ UNCHANGED <<tidMutex, phase, interpVars, countdown, orphans>>

ThreadFinalKeepsMutex(t) ==
    /\ tpc[t] = "final"
    /\ IF refcount = 1
       THEN refcount' = 0 /\ tpc' = [tpc EXCEPT ![t] = "off"] /\ mutex' = NoOne
       ELSE tpc' = [tpc EXCEPT ![t] = "sleep"] /\ UNCHANGED <<refcount, mutex>>
    /\ UNCHANGED <<tidMutex, phase, interpVars, countdown, orphans>>

(* Check again under the mutex: drop the last reference and end, or go on. *)
ThreadFinal(t) ==
    /\ tpc[t] = "final"
    /\ mutex' = NoOne
    /\ IF refcount = 1
       THEN refcount' = 0 /\ tpc' = [tpc EXCEPT ![t] = "off"]
       ELSE UNCHANGED refcount /\ tpc' = [tpc EXCEPT ![t] = "sleep"]
    /\ UNCHANGED <<tidMutex, phase, interpVars, countdown, orphans>>

-----------------------------------------------------------------------------
(* Steps an interpreter completes once it is in a function of this file.   *)
Proceed(i) ==
    \/ CreateThread(i) \/ CreateFails(i) \/ AttrFails(i)
    \/ CountThread(i) \/ CountNoThread(i) \/ EnterCommit(i) \/ EnterAbort(i)
    \/ LeaveUnlock(i)
    \/ ForkParent(i) \/ ForkChild(i)
    \/ ChildCountRead(i) \/ ChildCountWrite(i) \/ ChildTid(i) \/ CroakCaught(i)
    \/ CloneDone(i)

(* Steps the perl program decides about.                                   *)
Program(i) ==
    \/ EnterLock(i) \/ LeaveLock(i) \/ Stop(i) \/ ForkPrepare(i)
    \/ CloneStart(i) \/ InterpExit(i)

ThreadStep(t) ==
    Tick(t) \/ Check(t) \/ TestCheck(t) \/ ThreadLock(t) \/ ThreadFinal(t)

Next ==
    /\ \/ \E i \in Interps : Proceed(i) \/ Program(i)
       \/ \E t \in Threads : ThreadStep(t)
       \/ SetDestroyed \/ DestroyMutex
    /\ UNCHANGED clock

Spec == Init /\ [][Next]_vars

(* The operating system schedules every thread; nothing makes the program  *)
(* enter, leave or fork.                                                   *)
Fairness ==
    /\ \A i \in Interps : WF_stateVars(Proceed(i))
    /\ \A t \in Threads : WF_stateVars(ThreadStep(t))

FairSpec == Spec /\ Fairness

-----------------------------------------------------------------------------
(* Properties                                                              *)

(* Interpreters that own a reference: inside a run loop, or between the    *)
(* ++refcount of enter_runloop() and the --refcount of leave_runloop().    *)
Counted == {i \in Interps : outer[i] \/ pc[i] \in {"start", "created", "uncreated",
                                                    "commit", "abort", "leave"}}

(* A thread was created and its implicit reference not counted yet.        *)
Creating == {i \in Interps : pc[i] \in {"created", "childcreated", "childread"}}

(* refcount is exactly the references of the interpreters and of the       *)
(* thread, however the unprotected accesses of start_counter_thread(),     *)
(* child_after_fork() and increment_counter() interleave, plus the ones    *)
(* the code can never drop.                                                *)
RefcountAccounting ==
    refcount = Cardinality(Counted) + Cardinality(Live) - Cardinality(Creating) + orphans

(* increment_counter() updates counter and counter_fraction without a      *)
(* lock: never two threads run it, whatever the order in which run loops   *)
(* are entered and left, threads fail to start and processes fork.         *)
OneCounterThread == Cardinality(Live) <= 1

(* A running run loop has a counter thread: the thread's last checks never *)
(* miss a run loop entered meanwhile, also in a forked child.              *)
SamplingHasCounter ==
    phase = "running" =>
        \A i \in Interps : outer[i] /\ pc[i] = "idle" => Live # {}

(* is_any_running() reads refcount > 1 without the mutex: it refuses       *)
(* set_sampling_interval() only when some run loop is active, entered or   *)
(* left at that moment.                                                    *)
IdleProcessReportsIdle == refcount > 1 => Counted # {}

(* The counter thread that took the mutex to end ends only when no         *)
(* interpreter owns a reference, in a run loop, about to be in one or about *)
(* to be out of one.                                                       *)
ExitsUnreferenced ==
    [][\A t \in Threads : tpc[t] = "final" /\ tpc'[t] = "off" => Counted = {}]_vars

Quiet == \A i \in alive : pc[i] = "idle" /\ ~outer[i]

(* When every run loop was left and none is entered, the counter thread    *)
(* ends.                                                                   *)
CounterThreadStops == (Live # {} /\ Quiet) ~> (Live = {} \/ ~Quiet)

(* Nobody keeps refcount_mutex forever.                                    *)
MutexReleased == (mutex # NoOne) ~> (mutex = NoOne)

-----------------------------------------------------------------------------
(* The inductive invariant of CounterThreadProofs.                         *)

(* refcount_mutex is held exactly where the code holds it.                 *)
MutexInv ==
    /\ \A i \in Interps : pc[i] \in LockedPcs <=> mutex = i
    /\ \A t \in Threads : tpc[t] = "final" <=> mutex = t

(* Interpreters that do not exist do nothing; a child is alone; in the     *)
(* middle of enter_runloop() and leave_runloop() outer_runloop is not set. *)
InterpInv ==
    /\ \A i \in Interps \ alive : pc[i] = "idle" /\ ~outer[i] /\ ~traceOpen[i]
    /\ \A i \in Interps : pc[i] \in ChildPcs => alive = {i}
    /\ \A i \in Interps : pc[i] \in LockedPcs \ {"fork"} => ~outer[i]
    /\ \A i \in Interps : pc[i] # "idle" => phase = "running"
    /\ \A i \in Interps : outer[i] => phase = "running"
    /\ \A i \in Interps : pc[i] \in ChildPcs \cup {"fork"} => "fork" \in Events
    /\ \A i \in Interps : pc[i] \in {"uncreated", "childuncreated"} => "create" \in Events

(* There is no thread when one is started, and at most one otherwise.      *)
StartInv ==
    /\ \A t, u \in Live : t = u
    /\ \A i \in Interps :
          pc[i] \in {"start", "childstart", "uncreated", "childuncreated"} =>
             Live = {} /\ refcount = 1
    /\ \A i \in Interps : pc[i] = "created" => Live # {}
    /\ \A i \in Interps : pc[i] = "childread" => refcount <= seen

IInv == StateOK /\ MutexInv /\ InterpInv /\ StartInv /\ RefcountAccounting

(* Without the failures that leave a run loop without a thread.            *)
ThreadsStart ==
    /\ Events \cap {"create", "slowfork"} = {}
    /\ ~({"attr", "fork"} \subseteq Events)

(* The thread takes the mutex only when its own reference is counted.      *)
FinalInv ==
    "slowfork" \notin Events =>
        \A t \in Threads : tpc[t] = "final" =>
            \A i \in Interps : pc[i] \notin {"childcreated", "childread"}

(* As long as somebody holds a reference and no start is under way, there  *)
(* is a thread.                                                            *)
CounterInv ==
    ThreadsStart =>
        /\ \A i \in Interps : pc[i] = "abort" => refcount = 1 /\ Live = {}
        /\ \A i \in Interps : pc[i] \in {"childcreated", "childread"} => Live # {}
        /\ phase = "running" /\ (Counted # {} \/ orphans > 0) =>
              Live # {} \/ \E i \in Interps : pc[i] \in {"start", "childstart", "abort"}

(* Unless a process forks with a suspended trace, at most one reference is *)
(* orphaned, and only when there is no thread.                             *)
OrphanInv ==
    "suspend" \notin Events =>
        /\ orphans <= 1
        /\ Live # {} => orphans = 0
        /\ \A i \in Interps :
              /\ pc[i] = "fork" /\ traceOpen[i] => outer[i]
              /\ pc[i] \in {"childstart", "childcreated", "childread", "childuncreated"}
                    => orphans = 0 /\ outer[i]
              /\ pc[i] = "childcreated" => refcount <= 1
              /\ pc[i] = "childread" => seen <= 1
=============================================================================
