------------------------- MODULE CounterThreadProofs -------------------------
(***************************************************************************)
(* Proofs about CounterThread for any number of interpreters and thread    *)
(* slots, any countdown, both clocks and any set of environment events.    *)
(*                                                                         *)
(* IInv is inductive because refcount is accounted for (RefcountAccounting)*)
(* and the mutex is held where the code holds it: a thread is started only *)
(* when refcount was 0, so nobody, in particular no thread, had a          *)
(* reference; a thread ends only when refcount is 1, so its own reference  *)
(* is the only one left.                                                   *)
(***************************************************************************)
EXTENDS CounterThread, FiniteSetTheorems, TLAPS

USE FiniteAssumption, ActorAssumption, CountdownAssumption, EventsAssumption

LEMMA FiniteSets ==
    ASSUME StateOK
    PROVE  /\ IsFiniteSet(Counted) /\ IsFiniteSet(Creating) /\ IsFiniteSet(Live)
           /\ Cardinality(Counted) \in Nat
           /\ Cardinality(Creating) \in Nat
           /\ Cardinality(Live) \in Nat
<1>1. Counted \subseteq Interps /\ Creating \subseteq Interps /\ Live \subseteq Threads
    BY DEF Counted, Creating, Live
<1>2. QED BY <1>1, FS_Subset, FS_CardinalityType

(* Adding or removing one element changes a cardinality by one.            *)
LEMMA CardAdd ==
    ASSUME NEW S, IsFiniteSet(S), NEW x, x \notin S
    PROVE  Cardinality(S \cup {x}) = Cardinality(S) + 1
    BY FS_AddElement

LEMMA CardRemove ==
    ASSUME NEW S, IsFiniteSet(S), NEW x, x \in S
    PROVE  Cardinality(S \ {x}) = Cardinality(S) - 1
    BY FS_RemoveElement

LEMMA CardZero ==
    ASSUME NEW S, IsFiniteSet(S)
    PROVE  Cardinality(S) = 0 <=> S = {}
    BY FS_EmptySet

(* While somebody else is in enter_runloop(), in leave_runloop() or about  *)
(* to take the mutex, no thread waits for its reference to be counted.     *)
LEMMA NoneCreating ==
    ASSUME IInv, NEW i \in alive,
           pc[i] \notin {"created", "childcreated", "childread"},
           pc[i] \in LockedPcs \/ mutex = NoOne
    PROVE  Creating = {}
<1>1. SUFFICES ASSUME NEW j \in Creating PROVE FALSE
    OBVIOUS
<1>2. j \in Interps /\ i \in Interps /\ i # j
    BY DEF Creating, IInv, StateOK
<1>3. CASE pc[j] = "created"
    BY <1>2, <1>3 DEF IInv, MutexInv, LockedPcs
<1>4. CASE pc[j] \in {"childcreated", "childread"}
    BY <1>2, <1>4 DEF IInv, InterpInv, ChildPcs
<1>5. QED BY <1>3, <1>4 DEF Creating

(* An interpreter that owns a reference is one of those refcount counts.   *)
LEMMA OwnReference ==
    ASSUME IInv, NEW i \in Counted, Creating = {}
    PROVE  refcount >= 1
<1>1. IsFiniteSet(Counted) /\ Counted # {}
    BY FiniteSets DEF IInv
<1>2. Cardinality(Counted) # 0
    BY <1>1, CardZero
<1>3. Cardinality(Creating) = 0
    BY FS_EmptySet
<1>4. /\ Cardinality(Counted) \in Nat /\ Cardinality(Live) \in Nat
      /\ orphans \in Nat
    BY FiniteSets DEF IInv, StateOK
<1>5. refcount = Cardinality(Counted) + Cardinality(Live) - Cardinality(Creating) + orphans
    BY DEF IInv, RefcountAccounting
<1>6. QED BY <1>2, <1>3, <1>4, <1>5

(* refcount = 0: nobody has a reference, and there is no thread.           *)
LEMMA NoReference ==
    ASSUME IInv, refcount = 0, Creating = {}
    PROVE  Counted = {} /\ Live = {} /\ orphans = 0
<1>1. Cardinality(Creating) = 0
    BY FS_EmptySet
<1>2. Cardinality(Counted) = 0 /\ Cardinality(Live) = 0 /\ orphans = 0
    BY <1>1, FiniteSets DEF IInv, RefcountAccounting, StateOK
<1>3. QED BY <1>2, FiniteSets, CardZero DEF IInv

(* refcount = 1 and the thread's reference is counted: it is the only one. *)
LEMMA OnlyTheThread ==
    ASSUME IInv, refcount = 1, Creating = {}, NEW t \in Live
    PROVE  Counted = {} /\ Live = {t} /\ orphans = 0
<1>1. Cardinality(Creating) = 0
    BY FS_EmptySet
<1>2. Live = {t}
    BY DEF IInv, StartInv
<1>3. Cardinality(Live) = 1
    BY <1>2, FS_Singleton
<1>4. Cardinality(Counted) = 0 /\ orphans = 0
    BY <1>1, <1>3, FiniteSets DEF IInv, RefcountAccounting, StateOK
<1>5. QED BY <1>2, <1>4, FiniteSets, CardZero DEF IInv

-----------------------------------------------------------------------------
THEOREM InitInv == Init => IInv
<1> SUFFICES ASSUME Init PROVE IInv
    OBVIOUS
<1>1. StateOK /\ MutexInv /\ InterpInv
    BY DEF Init, StateOK, MutexInv, InterpInv, InterpPcs, LockedPcs, ChildPcs
<1>2. Counted = {} /\ Creating = {} /\ Live = {}
    BY DEF Init, Counted, Creating, Live
<1>3. StartInv
    BY <1>2 DEF Init, StartInv
<1>4. RefcountAccounting
    BY <1>2, FS_EmptySet DEF Init, RefcountAccounting
<1>5. QED BY <1>1, <1>3, <1>4 DEF IInv

LEMMA EnterLockInv ==
    ASSUME IInv, NEW i \in Interps, EnterLock(i)
    PROVE  IInv'
<1>1. StateOK' /\ MutexInv' /\ InterpInv'
    BY DEF EnterLock, Idle, Goto, IInv, StateOK, MutexInv, InterpInv, InterpPcs, LockedPcs,
           ChildPcs, threadVars
<1>2. Creating = {}
    BY NoneCreating DEF EnterLock, Idle
<1>3. /\ Counted' = Counted \cup {i} /\ i \notin Counted
      /\ Creating' = Creating /\ Live' = Live
    BY DEF EnterLock, Idle, Goto, IInv, StateOK, Counted, Creating, Live, threadVars
<1>4. Cardinality(Counted') = Cardinality(Counted) + 1
    BY <1>3, FiniteSets, CardAdd DEF IInv
<1>5. RefcountAccounting'
    BY <1>3, <1>4, FiniteSets DEF EnterLock, IInv, StateOK, RefcountAccounting
<1>6. refcount = 0 => Live = {}
    BY <1>2, NoReference
<1>7. StartInv'
    BY <1>3, <1>6 DEF EnterLock, Idle, Goto, IInv, StateOK, StartInv, MutexInv, LockedPcs,
           InterpInv, ChildPcs
<1>8. QED BY <1>1, <1>5, <1>7 DEF IInv

LEMMA CreateThreadInv ==
    ASSUME IInv, NEW i \in Interps, CreateThread(i)
    PROVE  IInv'
<1>1. PICK t \in Threads :
          /\ tpc[t] = "off"
          /\ tpc' = [tpc EXCEPT ![t] = "sleep"]
          /\ countdown' = [countdown EXCEPT ![t] = 0]
    BY DEF CreateThread
<1>2. StateOK' /\ MutexInv' /\ InterpInv'
    BY <1>1 DEF CreateThread, Goto, IInv, StateOK, MutexInv, InterpInv, InterpPcs, LockedPcs, ChildPcs
<1>3. Live = {}
    BY DEF CreateThread, IInv, StartInv
<1>4. Live' = {t}
    BY <1>1, <1>3 DEF IInv, StateOK, Live
<1>5. /\ Counted' = Counted
      /\ Creating' = Creating \cup {i} /\ i \notin Creating
    BY DEF CreateThread, Goto, IInv, StateOK, InterpInv, LockedPcs, Counted, Creating
<1>6. Cardinality(Creating') = Cardinality(Creating) + 1
    BY <1>5, FiniteSets, CardAdd DEF IInv
<1>7. Cardinality(Live) = 0 /\ Cardinality(Live') = 1
    BY <1>3, <1>4, FS_EmptySet, FS_Singleton
<1>8. RefcountAccounting'
    BY <1>5, <1>6, <1>7, FiniteSets DEF CreateThread, IInv, StateOK, RefcountAccounting
<1>9. \A j \in Interps \ {i} :
          pc'[j] \notin {"start", "childstart", "uncreated", "childuncreated", "created"}
    BY DEF CreateThread, Goto, IInv, StateOK, MutexInv, InterpInv, LockedPcs, ChildPcs
<1>10. StartInv'
    BY <1>4, <1>9 DEF CreateThread, Goto, IInv, StateOK, StartInv
<1>11. QED BY <1>2, <1>8, <1>10 DEF IInv

LEMMA CountThreadInv ==
    ASSUME IInv, NEW i \in Interps, CountThread(i)
    PROVE  IInv'
<1>1. StateOK' /\ MutexInv' /\ InterpInv'
    BY DEF CountThread, Goto, IInv, StateOK, MutexInv, InterpInv, InterpPcs, LockedPcs,
           ChildPcs, threadVars
<1>2. /\ Creating' = Creating \ {i} /\ i \in Creating
      /\ Counted' = Counted /\ Live' = Live
    BY DEF CountThread, Goto, IInv, StateOK, Counted, Creating, Live, threadVars
<1>3. Cardinality(Creating') = Cardinality(Creating) - 1
    BY <1>2, FiniteSets, CardRemove DEF IInv
<1>4. RefcountAccounting'
    BY <1>2, <1>3, FiniteSets DEF CountThread, IInv, StateOK, RefcountAccounting
<1>5. StartInv'
    BY <1>2 DEF CountThread, Goto, IInv, StateOK, StartInv, MutexInv, InterpInv, LockedPcs, ChildPcs
<1>6. QED BY <1>1, <1>4, <1>5 DEF IInv

LEMMA CountNoThreadInv ==
    ASSUME IInv, NEW i \in Interps, CountNoThread(i)
    PROVE  IInv'
<1>1. StateOK' /\ MutexInv' /\ InterpInv'
    <2>1. StateOK'
        <3>1. CASE pc[i] = "uncreated" /\ Goto(i, "abort") /\ UNCHANGED traceOpen
            BY <3>1 DEF CountNoThread, Goto, IInv, StateOK, InterpPcs, LockedPcs, threadVars
        <3>2. CASE /\ pc[i] = "childuncreated" /\ Goto(i, "croak")
                   /\ traceOpen' = [traceOpen EXCEPT ![i] = FALSE]
            BY <3>2 DEF CountNoThread, Goto, IInv, StateOK, InterpPcs, ChildPcs, threadVars
        <3>3. QED BY <3>1, <3>2 DEF CountNoThread
    <2>2. MutexInv'
        BY DEF CountNoThread, Goto, IInv, StateOK, MutexInv, LockedPcs, threadVars
    <2>3. InterpInv'
        BY DEF CountNoThread, Goto, IInv, StateOK, InterpInv, LockedPcs, ChildPcs
    <2>4. QED BY <2>1, <2>2, <2>3
<1>2. Counted' = Counted /\ Creating' = Creating /\ Live' = Live
    BY DEF CountNoThread, Goto, IInv, StateOK, InterpInv, Counted, Creating, Live, threadVars
<1>3. RefcountAccounting'
    BY <1>2, FiniteSets DEF CountNoThread, IInv, StateOK, RefcountAccounting
<1>4. StartInv'
    BY <1>2 DEF CountNoThread, Goto, IInv, StateOK, StartInv, MutexInv, InterpInv, LockedPcs, ChildPcs
<1>5. QED BY <1>1, <1>3, <1>4 DEF IInv

(* Steps that change neither refcount nor who has a reference.             *)
LEMMA SameReferences ==
    ASSUME IInv, Counted' = Counted, Creating' = Creating, Live' = Live,
           UNCHANGED <<refcount, orphans>>
    PROVE  RefcountAccounting'
    BY DEF IInv, RefcountAccounting

LEMMA EnterEndInv ==
    ASSUME IInv, NEW i \in Interps, EnterCommit(i) \/ CreateFails(i) \/ AttrFails(i)
    PROVE  IInv'
<1>1. StateOK' /\ MutexInv' /\ InterpInv'
    <2>1. StateOK'
        BY DEF EnterCommit, CreateFails, AttrFails, Goto, IInv, StateOK, InterpPcs, LockedPcs,
               ChildPcs, threadVars
    <2>2. MutexInv'
        BY DEF EnterCommit, CreateFails, AttrFails, Goto, IInv, StateOK, MutexInv, LockedPcs,
               threadVars
    <2>3. InterpInv'
        BY DEF EnterCommit, CreateFails, AttrFails, Goto, IInv, StateOK, InterpInv, LockedPcs,
               ChildPcs
    <2>4. QED BY <2>1, <2>2, <2>3
<1>2. Counted' = Counted /\ Creating' = Creating /\ Live' = Live
    BY DEF EnterCommit, CreateFails, AttrFails, Goto, IInv, StateOK, Counted, Creating, Live,
           threadVars
<1>3. StartInv'
    BY <1>2 DEF EnterCommit, CreateFails, AttrFails, Goto, IInv, StateOK, StartInv
<1>4. RefcountAccounting'
    BY <1>2, SameReferences DEF EnterCommit, CreateFails, AttrFails
<1>5. QED BY <1>1, <1>3, <1>4 DEF IInv

(* enter_runloop() fails, or leave_runloop() ends: --refcount and unlock.  *)
LEMMA DropInv ==
    ASSUME IInv, NEW i \in Interps, EnterAbort(i) \/ LeaveUnlock(i)
    PROVE  IInv'
<1>1. i \in alive /\ i \in Counted
    BY DEF EnterAbort, LeaveUnlock, Counted, IInv, InterpInv
<1>2. Creating = {}
    BY <1>1, NoneCreating DEF EnterAbort, LeaveUnlock, LockedPcs
<1>3. refcount >= 1
    BY <1>1, <1>2, OwnReference
<1>4. StateOK' /\ MutexInv' /\ InterpInv'
    BY <1>3 DEF EnterAbort, LeaveUnlock, Goto, IInv, StateOK, MutexInv, InterpInv, InterpPcs,
           LockedPcs, ChildPcs, threadVars
<1>5. Counted' = Counted \ {i} /\ Creating' = Creating /\ Live' = Live
    BY DEF EnterAbort, LeaveUnlock, Goto, IInv, StateOK, InterpInv, LockedPcs, Counted,
           Creating, Live, threadVars
<1>6. Cardinality(Counted') = Cardinality(Counted) - 1
    BY <1>1, <1>5, FiniteSets, CardRemove DEF IInv
<1>7. RefcountAccounting'
    BY <1>5, <1>6, FiniteSets DEF EnterAbort, LeaveUnlock, IInv, StateOK, RefcountAccounting
<1>8. StartInv'
    BY <1>5 DEF EnterAbort, LeaveUnlock, Goto, IInv, StateOK, StartInv, MutexInv, InterpInv,
           LockedPcs, ChildPcs
<1>9. QED BY <1>4, <1>7, <1>8 DEF IInv

LEMMA LeaveStopInv ==
    ASSUME IInv, NEW i \in Interps,
           LeaveLock(i) \/ Stop(i) \/ ForkPrepare(i) \/ ForkParent(i)
    PROVE  IInv'
<1>1. StateOK' /\ MutexInv' /\ InterpInv'
    <2>1. StateOK'
        BY DEF LeaveLock, Stop, ForkPrepare, ForkParent, Idle, Goto, IInv, StateOK, InterpPcs,
               LockedPcs, ChildPcs, threadVars
    <2>2. MutexInv'
        BY DEF LeaveLock, Stop, ForkPrepare, ForkParent, Idle, Goto, IInv, StateOK, MutexInv,
               LockedPcs, threadVars
    <2>3. InterpInv'
        BY DEF LeaveLock, Stop, ForkPrepare, ForkParent, Idle, Goto, IInv, StateOK, InterpInv,
               LockedPcs, ChildPcs
    <2>4. QED BY <2>1, <2>2, <2>3
<1>2. Counted' = Counted /\ Creating' = Creating /\ Live' = Live
    BY DEF LeaveLock, Stop, ForkPrepare, ForkParent, Idle, Goto, IInv, StateOK, Counted,
           Creating, Live, threadVars
<1>3. StartInv'
    BY <1>2 DEF LeaveLock, Stop, ForkPrepare, ForkParent, Idle, Goto, IInv, StateOK, StartInv
<1>4. RefcountAccounting'
    BY <1>2, SameReferences DEF LeaveLock, Stop, ForkPrepare, ForkParent
<1>5. QED BY <1>1, <1>3, <1>4 DEF IInv

(* The child starts with one reference if it is_running(), its run loop's  *)
(* or, if that is not active, nobody's.                                    *)
LEMMA ForkChildInv ==
    ASSUME IInv, NEW i \in Interps, ForkChild(i)
    PROVE  IInv'
<1>1. StateOK' /\ MutexInv' /\ InterpInv'
    <2>1. StateOK'
        BY DEF ForkChild, IInv, StateOK, InterpPcs, LockedPcs, ChildPcs
    <2>2. MutexInv'
        BY DEF ForkChild, IInv, StateOK, MutexInv, LockedPcs
    <2>3. InterpInv'
        BY DEF ForkChild, IInv, StateOK, InterpInv, LockedPcs, ChildPcs
    <2>4. QED BY <2>1, <2>2, <2>3
<1>2. /\ Counted' = IF outer[i] THEN {i} ELSE {}
      /\ Creating' = {} /\ Live' = {}
    <2>1. \A j \in Interps :
             /\ outer'[j] <=> (j = i /\ outer[i])
             /\ pc'[j] \in {"idle", "childstart", "childtid"}
        BY DEF ForkChild
    <2>2. Creating' = {} /\ Live' = {}
        BY <2>1 DEF ForkChild, Creating, Live
    <2>3. \A j \in Interps : j \in Counted' <=> j = i /\ outer[i]
        BY <2>1 DEF Counted
    <2>4. Counted' \subseteq Interps
        BY DEF Counted
    <2>5. QED BY <2>2, <2>3, <2>4
<1>3. /\ Cardinality(Counted') = IF outer[i] THEN 1 ELSE 0
      /\ Cardinality(Creating') = 0 /\ Cardinality(Live') = 0
    BY <1>2, FS_EmptySet, FS_Singleton
<1>4. RefcountAccounting'
    BY <1>3 DEF ForkChild, Running, IInv, StateOK, RefcountAccounting
<1>5. StartInv'
    BY <1>2 DEF ForkChild, IInv, StateOK, StartInv
<1>6. QED BY <1>1, <1>4, <1>5 DEF IInv

LEMMA ChildReadInv ==
    ASSUME IInv, NEW i \in Interps,
           ChildCountRead(i) \/ ChildTid(i) \/ CroakCaught(i)
    PROVE  IInv'
<1>1. StateOK' /\ MutexInv' /\ InterpInv'
    BY DEF ChildCountRead, ChildTid, CroakCaught, Goto, IInv, StateOK, MutexInv, InterpInv,
           InterpPcs, LockedPcs, ChildPcs, threadVars
<1>2. Counted' = Counted /\ Creating' = Creating /\ Live' = Live
    BY DEF ChildCountRead, ChildTid, CroakCaught, Goto, IInv, StateOK, Counted, Creating,
           Live, threadVars
<1>3. StartInv'
    BY <1>2 DEF ChildCountRead, ChildTid, CroakCaught, Goto, IInv, StateOK, StartInv,
           InterpInv, ChildPcs
<1>4. RefcountAccounting'
    BY <1>2, SameReferences DEF ChildCountRead, ChildTid, CroakCaught
<1>5. QED BY <1>1, <1>3, <1>4 DEF IInv

(* The lost decrements become orphans; there are never negatively many.    *)
LEMMA ChildWriteInv ==
    ASSUME IInv, NEW i \in Interps, ChildCountWrite(i)
    PROVE  IInv'
<1>1. refcount <= seen
    BY DEF ChildCountWrite, IInv, StartInv
<1>2. StateOK' /\ MutexInv' /\ InterpInv'
    BY <1>1 DEF ChildCountWrite, Goto, IInv, StateOK, MutexInv, InterpInv, InterpPcs,
           LockedPcs, ChildPcs, threadVars
<1>3. /\ Creating' = Creating \ {i} /\ i \in Creating
      /\ Counted' = Counted /\ Live' = Live
    BY DEF ChildCountWrite, Goto, IInv, StateOK, Counted, Creating, Live, threadVars
<1>4. Cardinality(Creating') = Cardinality(Creating) - 1
    BY <1>3, FiniteSets, CardRemove DEF IInv
<1>5. RefcountAccounting'
    BY <1>3, <1>4, FiniteSets DEF ChildCountWrite, IInv, StateOK, RefcountAccounting
<1>6. StartInv'
    BY <1>3 DEF ChildCountWrite, Goto, IInv, StateOK, StartInv, InterpInv, LockedPcs, ChildPcs
<1>7. QED BY <1>2, <1>5, <1>6 DEF IInv

LEMMA CloneExitInv ==
    ASSUME IInv, NEW i \in Interps, CloneStart(i) \/ CloneDone(i) \/ InterpExit(i)
    PROVE  IInv'
<1>1. StateOK'
    BY DEF CloneStart, CloneDone, InterpExit, Idle, Goto, IInv, StateOK, InterpPcs, threadVars
<1>2. MutexInv'
    BY DEF CloneStart, CloneDone, InterpExit, Idle, Goto, IInv, StateOK, MutexInv, LockedPcs,
           threadVars
<1>3. InterpInv'
    BY DEF CloneStart, CloneDone, InterpExit, Idle, Goto, IInv, StateOK, InterpInv, LockedPcs,
           ChildPcs, threadVars
<1>4. Counted' = Counted /\ Creating' = Creating /\ Live' = Live
    BY DEF CloneStart, CloneDone, InterpExit, Idle, Goto, IInv, StateOK, Counted, Creating,
           Live, threadVars
<1>5. StartInv'
    BY <1>4 DEF CloneStart, CloneDone, InterpExit, Idle, Goto, IInv, StateOK, StartInv
<1>6. RefcountAccounting'
    BY <1>4, SameReferences DEF CloneStart, CloneDone, InterpExit
<1>7. QED BY <1>1, <1>2, <1>3, <1>5, <1>6 DEF IInv

LEMMA ProcessExitInv ==
    ASSUME IInv, SetDestroyed \/ DestroyMutex
    PROVE  IInv'
<1>1. StateOK' /\ MutexInv' /\ InterpInv'
    BY DEF SetDestroyed, DestroyMutex, Idle, IInv, StateOK, MutexInv, InterpInv, interpVars,
           threadVars, ChildPcs, LockedPcs
<1>2. Counted' = Counted /\ Creating' = Creating /\ Live' = Live
    BY DEF SetDestroyed, DestroyMutex, Counted, Creating, Live, interpVars, threadVars
<1>3. StartInv'
    BY <1>2 DEF SetDestroyed, DestroyMutex, IInv, StartInv, interpVars, threadVars
<1>4. RefcountAccounting'
    BY <1>2, SameReferences DEF SetDestroyed, DestroyMutex
<1>5. QED BY <1>1, <1>3, <1>4 DEF IInv

-----------------------------------------------------------------------------
(* Steps of the counter thread.                                            *)

LEMMA ThreadEnds ==
    ASSUME IInv, NEW t \in Live, tpc' = [tpc EXCEPT ![t] = "off"]
    PROVE  Live' = {} /\ Cardinality(Live) = 1 /\ Cardinality(Live') = 0
<1>1. Live = {t}
    BY DEF IInv, StartInv
<1>2. Live' = {}
    BY <1>1 DEF IInv, StateOK, Live
<1>3. QED BY <1>1, <1>2, FS_EmptySet, FS_Singleton

LEMMA ThreadGoesOn ==
    ASSUME IInv, NEW t \in Live, NEW label,
           label \in {"sleep", "check", "lock", "final"},
           tpc' = [tpc EXCEPT ![t] = label]
    PROVE  Live' = Live
    BY DEF IInv, StateOK, Live

LEMMA TickInv ==
    ASSUME IInv, NEW t \in Threads, Tick(t)
    PROVE  IInv'
<1>1. t \in Live
    BY DEF Tick, Live
<1>2. StateOK' /\ MutexInv' /\ InterpInv'
    BY DEF Tick, IInv, StateOK, MutexInv, InterpInv, interpVars
<1>3. Counted' = Counted /\ Creating' = Creating
    BY DEF Tick, Counted, Creating, interpVars
<1>4. CASE phase = "running" \/ TestClock
    <2>1. Live' = Live
        BY <1>1, <1>4, ThreadGoesOn DEF Tick
    <2>2. StartInv'
        BY <2>1 DEF Tick, IInv, StartInv, interpVars
    <2>3. RefcountAccounting'
        BY <1>3, <1>4, <2>1, SameReferences DEF Tick
    <2>4. QED BY <1>2, <2>2, <2>3 DEF IInv
<1>5. CASE ~(phase = "running" \/ TestClock)
    <2>1. Live' = {} /\ Cardinality(Live) = 1 /\ Cardinality(Live') = 0
        BY <1>1, <1>5, ThreadEnds DEF Tick
    <2>2. StartInv'
        BY <1>5, <2>1 DEF Tick, IInv, StartInv, InterpInv, interpVars
    <2>3. RefcountAccounting'
        BY <1>3, <1>5, <2>1, FiniteSets DEF Tick, IInv, StateOK, RefcountAccounting
    <2>4. QED BY <1>2, <2>2, <2>3 DEF IInv
<1>6. QED BY <1>4, <1>5

LEMMA CheckInv ==
    ASSUME IInv, NEW t \in Threads, Check(t) \/ TestCheck(t) \/ ThreadLock(t)
    PROVE  IInv'
<1>1. StateOK'
    BY DEF Check, StillReferenced, CountDown, StartCountdown, TestCheck, ThreadLock, IInv,
           StateOK, interpVars
<1>2. MutexInv' /\ InterpInv'
    BY DEF Check, StillReferenced, CountDown, StartCountdown, TestCheck, ThreadLock, IInv,
           StateOK, MutexInv, InterpInv, LockedPcs, interpVars
<1>3. Counted' = Counted /\ Creating' = Creating
    BY DEF Check, TestCheck, ThreadLock, Counted, Creating, interpVars
<1>4. Live' = Live
    BY DEF Check, StillReferenced, CountDown, StartCountdown, TestCheck, ThreadLock, IInv,
           StateOK, Live
<1>5. StartInv'
    BY <1>4 DEF Check, TestCheck, ThreadLock, IInv, StartInv, interpVars
<1>6. RefcountAccounting'
    BY <1>3, <1>4, SameReferences DEF Check, TestCheck, ThreadLock
<1>7. QED BY <1>1, <1>2, <1>5, <1>6 DEF IInv

LEMMA ThreadFinalInv ==
    ASSUME IInv, NEW t \in Threads, ThreadFinal(t)
    PROVE  IInv'
<1>1. t \in Live
    BY DEF ThreadFinal, Live
<1>2. StateOK' /\ MutexInv' /\ InterpInv'
    BY DEF ThreadFinal, IInv, StateOK, MutexInv, InterpInv, interpVars
<1>3. Counted' = Counted /\ Creating' = Creating
    BY DEF ThreadFinal, Counted, Creating, interpVars
<1>4. CASE refcount # 1
    <2>1. Live' = Live
        BY <1>1, <1>4, ThreadGoesOn DEF ThreadFinal
    <2>2. StartInv'
        BY <1>4, <2>1 DEF ThreadFinal, IInv, StartInv, interpVars
    <2>3. RefcountAccounting'
        BY <1>3, <1>4, <2>1, SameReferences DEF ThreadFinal
    <2>4. QED BY <1>2, <2>2, <2>3 DEF IInv
<1>5. CASE refcount = 1
    <2>1. Live' = {} /\ Cardinality(Live) = 1 /\ Cardinality(Live') = 0
        BY <1>1, <1>5, ThreadEnds DEF ThreadFinal
    <2>2. StartInv'
        BY <1>1, <1>5, <2>1 DEF ThreadFinal, IInv, StateOK, StartInv, MutexInv, LockedPcs, interpVars
    <2>3. RefcountAccounting'
        BY <1>3, <1>5, <2>1, FiniteSets DEF ThreadFinal, IInv, StateOK, RefcountAccounting
    <2>4. QED BY <1>2, <2>2, <2>3 DEF IInv
<1>6. QED BY <1>4, <1>5

-----------------------------------------------------------------------------
THEOREM NextInv == IInv /\ [Next]_vars => IInv'
<1> SUFFICES ASSUME IInv, [Next]_vars PROVE IInv'
    OBVIOUS
<1>1. ASSUME NEW i \in Interps, Proceed(i) PROVE IInv'
    BY <1>1, CreateThreadInv, EnterEndInv, CountThreadInv, CountNoThreadInv, DropInv,
       LeaveStopInv, ForkChildInv, ChildReadInv, ChildWriteInv, CloneExitInv DEF Proceed
<1>2. ASSUME NEW i \in Interps, Program(i) PROVE IInv'
    BY <1>2, EnterLockInv, LeaveStopInv, CloneExitInv DEF Program
<1>3. ASSUME NEW t \in Threads, ThreadStep(t) PROVE IInv'
    BY <1>3, TickInv, CheckInv, ThreadFinalInv DEF ThreadStep
<1>4. CASE UNCHANGED vars
    BY <1>4 DEF vars, stateVars, interpVars, threadVars, IInv, StateOK, MutexInv, InterpInv, StartInv, RefcountAccounting,
                Counted, Creating, Live
<1>5. QED BY <1>1, <1>2, <1>3, <1>4, ProcessExitInv DEF Next

THEOREM Invariance == Spec => []IInv
<1>1. QED BY InitInv, NextInv, PTL DEF Spec

(* The state always has the declared types; in particular refcount, which  *)
(* the code decrements without a check, never becomes negative.            *)
THEOREM TypeCorrect == Spec => []TypeOK
<1>1. IInv => StateOK
    BY DEF IInv
<1>2. Init => clock \in Clocks
    BY DEF Init
<1>3. clock \in Clocks /\ [Next]_vars => (clock \in Clocks)'
    BY DEF Next, vars, stateVars
<1>4. Spec => [](clock \in Clocks)
    BY <1>2, <1>3, PTL DEF Spec
<1>5. QED BY <1>1, <1>4, Invariance, PTL DEF TypeOK

(* refcount is exactly the references of the run loops, of the counter     *)
(* thread and of nobody, in every interleaving of the unprotected          *)
(* accesses, for any number of interpreters.                               *)
THEOREM RefcountCorrect == Spec => []RefcountAccounting
<1>1. IInv => RefcountAccounting
    BY DEF IInv
<1>2. QED BY <1>1, Invariance, PTL

(* There are never two counter threads, so nobody else updates counter and *)
(* counter_fraction while increment_counter() does.                        *)
THEOREM AtMostOneThread == Spec => []OneCounterThread
<1>1. IInv => OneCounterThread
    <2> SUFFICES ASSUME IInv PROVE OneCounterThread
        OBVIOUS
    <2>1. Live = {} \/ \E t \in Live : Live = {t}
        BY DEF IInv, StartInv
    <2>2. CASE Live = {}
        BY <2>2, FS_EmptySet DEF OneCounterThread
    <2>3. CASE \E t \in Live : Live = {t}
        <3>1. PICK t \in Live : Live = {t}
            BY <2>3
        <3>2. Cardinality({t}) = 1
            BY FS_Singleton
        <3>3. QED BY <3>1, <3>2 DEF OneCounterThread
    <2>4. QED BY <2>1, <2>2, <2>3
<1>2. QED BY <1>1, Invariance, PTL

-----------------------------------------------------------------------------
(* A run loop keeps its thread.  FinalInv and CounterInv need each other   *)
(* and IInv.                                                               *)

THEOREM InitCounterInv == Init => FinalInv /\ CounterInv
<1> SUFFICES ASSUME Init PROVE FinalInv /\ CounterInv
    OBVIOUS
<1>1. Counted = {}
    BY DEF Init, Counted
<1>2. QED BY <1>1 DEF Init, FinalInv, CounterInv

LEMMA FinalStep ==
    ASSUME IInv, FinalInv, [Next]_vars
    PROVE  FinalInv'
<1> SUFFICES ASSUME "slowfork" \notin Events,
                    NEW t \in Threads, tpc'[t] = "final",
                    NEW i \in Interps, pc'[i] \in {"childcreated", "childread"}
             PROVE  FALSE
    BY DEF FinalInv
<1> USE DEF IInv, StateOK
<1>1. ASSUME NEW j \in Interps, Proceed(j) PROVE FALSE
    <2>1. CASE CreateThread(j)
        <3>1. Live = {}
            BY <2>1 DEF CreateThread, StartInv
        <3>2. tpc'[t] # "final"
            BY <2>1, <3>1 DEF CreateThread, Live
        <3>3. QED BY <3>2
    <2>2. CASE \/ CreateFails(j) \/ AttrFails(j) \/ CountThread(j) \/ CountNoThread(j)
               \/ EnterCommit(j) \/ EnterAbort(j) \/ LeaveUnlock(j)
        BY <2>2 DEF CreateFails, AttrFails, CountThread, CountNoThread, EnterCommit,
                    EnterAbort, LeaveUnlock, Goto, threadVars, FinalInv
    <2>3. CASE \/ ForkParent(j) \/ ForkChild(j) \/ ChildCountRead(j)
               \/ ChildCountWrite(j) \/ ChildTid(j) \/ CroakCaught(j) \/ CloneDone(j)
        BY <2>3 DEF ForkParent, ForkChild, ChildCountRead, ChildCountWrite, ChildTid,
                    CroakCaught, CloneDone, Goto, threadVars, FinalInv
    <2>4. QED BY <1>1, <2>1, <2>2, <2>3 DEF Proceed
<1>2. ASSUME NEW j \in Interps, Program(j) PROVE FALSE
    BY <1>2 DEF Program, EnterLock, LeaveLock, Stop, ForkPrepare, CloneStart, InterpExit,
                Idle, Goto, threadVars, FinalInv
<1>3. ASSUME NEW u \in Threads, ThreadStep(u) PROVE FALSE
    BY <1>3 DEF ThreadStep, Tick, Check, StillReferenced, CountDown, StartCountdown,
                TestCheck, ThreadLock, ThreadFinal, interpVars, FinalInv
<1>4. CASE SetDestroyed \/ DestroyMutex \/ UNCHANGED vars
    BY <1>4 DEF SetDestroyed, DestroyMutex, vars, stateVars, interpVars, threadVars, FinalInv
<1>5. QED BY <1>1, <1>2, <1>3, <1>4 DEF Next

(* Steps that leave alone what CounterInv speaks of.                       *)
LEMMA CounterSame ==
    ASSUME IInv, CounterInv, Counted' = Counted, Live' = Live,
           refcount' = refcount, orphans' = orphans,
           phase' = "running" => phase = "running",
           \A j \in Interps :
              \A label \in {"start", "childstart", "abort", "childcreated", "childread"} :
                 pc'[j] = label <=> pc[j] = label
    PROVE  CounterInv'
    BY DEF CounterInv

(* Nobody else is in a start when interpreter i is idle or holds the mutex.*)
LEMMA NobodyStarts ==
    ASSUME IInv, NEW i \in alive,
           pc[i] \notin {"start", "childstart", "abort"},
           pc[i] \in LockedPcs \/ mutex = NoOne
    PROVE  \A j \in Interps : pc[j] \notin {"start", "childstart", "abort"}
<1>1. i \in Interps
    BY DEF IInv, StateOK
<1>2. QED BY <1>1 DEF IInv, MutexInv, InterpInv, LockedPcs, ChildPcs

LEMMA EnterLockCounter ==
    ASSUME IInv, CounterInv, ThreadsStart, NEW i \in Interps, EnterLock(i)
    PROVE  CounterInv'
<1>1. Creating = {} /\ \A j \in Interps : pc[j] \notin {"start", "childstart", "abort"}
    BY NoneCreating, NobodyStarts DEF EnterLock, Idle
<1>2. Live' = Live /\ orphans' = orphans /\ phase = "running"
    BY DEF EnterLock, Idle, Live, threadVars
<1>3. pc' = [pc EXCEPT ![i] = IF refcount = 0 THEN "start" ELSE "commit"]
    <2>1. refcount' = 1 <=> refcount = 0
        BY DEF EnterLock, IInv, StateOK
    <2>2. pc' = [pc EXCEPT ![i] = IF refcount' = 1 THEN "start" ELSE "commit"]
        BY DEF EnterLock, Goto
    <2>3. QED BY <2>1, <2>2
<1>4. CASE refcount = 0
    BY <1>1, <1>2, <1>3, <1>4 DEF CounterInv, IInv, StateOK
<1>5. CASE refcount # 0
    <2>1. Counted # {} \/ Live # {} \/ orphans > 0
        <3>1. SUFFICES ASSUME Counted = {}, Live = {}, orphans = 0 PROVE FALSE
            BY DEF IInv, StateOK
        <3>2. refcount = 0
            BY <1>1, <3>1, FS_EmptySet DEF IInv, RefcountAccounting
        <3>3. QED BY <1>5, <3>2
    <2>2. Live # {}
        BY <1>1, <1>2, <2>1 DEF CounterInv
    <2>3. QED BY <1>1, <1>2, <1>3, <1>5, <2>2 DEF CounterInv, IInv, StateOK
<1>6. QED BY <1>4, <1>5

LEMMA StartCounter ==
    ASSUME IInv, CounterInv, ThreadsStart, NEW i \in Interps,
           CreateThread(i) \/ CreateFails(i) \/ AttrFails(i) \/ CountThread(i)
              \/ CountNoThread(i)
    PROVE  CounterInv'
<1>1. ~CreateFails(i) /\ ~CountNoThread(i)
    BY DEF CreateFails, CountNoThread, ThreadsStart, IInv, InterpInv
<1>2. CASE CreateThread(i)
    <2>1. Live' # {}
        BY <1>2 DEF CreateThread, Live, IInv, StateOK
    <2>2. \A j \in Interps : pc'[j] # "abort"
        BY <1>2 DEF CreateThread, Goto, IInv, StateOK, MutexInv, InterpInv, LockedPcs, ChildPcs
    <2>3. QED BY <2>1, <2>2 DEF CounterInv
<1>3. CASE AttrFails(i)
    <2>1. pc[i] = "start" /\ pc' = [pc EXCEPT ![i] = "abort"]
        BY <1>3 DEF AttrFails, Goto, ThreadsStart, IInv, InterpInv, ChildPcs
    <2>2. refcount' = 1 /\ Live = {} /\ Live' = Live
        BY <1>3, <2>1 DEF AttrFails, IInv, StartInv, Live, threadVars
    <2>3. \A j \in Interps \ {i} : pc[j] \notin {"childcreated", "childread"}
        BY <2>1, <2>2 DEF IInv, InterpInv, ChildPcs
    <2>4. pc'[i] = "abort"
        BY <2>1 DEF IInv, StateOK
    <2>5. QED BY <2>1, <2>2, <2>3, <2>4 DEF CounterInv, IInv, StateOK
<1>4. CASE CountThread(i)
    <2>1. Live' = Live /\ Live # {}
        BY <1>4 DEF CountThread, IInv, StartInv, Live, threadVars
    <2>2. \A j \in Interps : pc'[j] # "abort"
        BY <1>4 DEF CountThread, Goto, IInv, StateOK, MutexInv, LockedPcs
    <2>3. QED BY <2>1, <2>2 DEF CounterInv
<1>5. QED BY <1>1, <1>2, <1>3, <1>4

(* A failed start leaves nobody with a reference.                          *)
LEMMA EnterAbortCounter ==
    ASSUME IInv, CounterInv, ThreadsStart, NEW i \in Interps, EnterAbort(i)
    PROVE  CounterInv'
<1>1. refcount = 1 /\ Live = {} /\ i \in alive /\ i \in Counted
    BY DEF EnterAbort, CounterInv, IInv, InterpInv, Counted
<1>2. Creating = {}
    BY <1>1, NoneCreating DEF EnterAbort, LockedPcs
<1>3. Cardinality(Counted) # 0
    BY <1>1, FiniteSets, CardZero DEF IInv
<1>4. Cardinality(Counted) = 1 /\ orphans = 0
    BY <1>1, <1>2, <1>3, FS_EmptySet, FiniteSets DEF IInv, RefcountAccounting, StateOK
<1>5. Counted = {i}
    BY <1>1, <1>4, FS_Singleton, FiniteSets DEF IInv
<1>6. Counted' = {}
    BY <1>5 DEF EnterAbort, Goto, IInv, StateOK, InterpInv, LockedPcs, Counted
<1>7. Live' = Live /\ orphans' = orphans
    BY DEF EnterAbort, Live, threadVars
<1>8. \A j \in Interps : pc'[j] \notin {"abort", "childcreated", "childread"}
    BY <1>2 DEF EnterAbort, Goto, IInv, StateOK, MutexInv, LockedPcs, Creating
<1>9. QED BY <1>4, <1>6, <1>7, <1>8 DEF CounterInv

LEMMA LeaveUnlockCounter ==
    ASSUME IInv, CounterInv, ThreadsStart, NEW i \in Interps, LeaveUnlock(i)
    PROVE  CounterInv'
<1>1. i \in alive /\ i \in Counted
    BY DEF LeaveUnlock, IInv, InterpInv, Counted
<1>2. \A j \in Interps : pc[j] \notin {"start", "childstart", "abort"}
    BY <1>1, NobodyStarts DEF LeaveUnlock, LockedPcs
<1>3. phase = "running" /\ Live' = Live
    BY DEF LeaveUnlock, IInv, InterpInv, Live, threadVars
<1>4. Live # {}
    BY <1>1, <1>2, <1>3 DEF CounterInv
<1>5. \A j \in Interps : pc'[j] # "abort"
    BY <1>2 DEF LeaveUnlock, Goto, IInv, StateOK
<1>6. QED BY <1>3, <1>4, <1>5 DEF CounterInv

LEMMA ForkChildCounter ==
    ASSUME IInv, CounterInv, ThreadsStart, NEW i \in Interps, ForkChild(i)
    PROVE  CounterInv'
<1>1. \A j \in Interps : pc'[j] \in {"idle", "childstart", "childtid"}
    BY DEF ForkChild
<1>2. CASE Running(i)
    BY <1>1, <1>2 DEF ForkChild, CounterInv
<1>3. CASE ~Running(i)
    <2>1. \A j \in Interps : ~outer'[j]
        BY <1>3 DEF ForkChild, Running
    <2>2. Counted' = {}
        BY <1>1, <2>1 DEF Counted
    <2>3. orphans' = 0
        BY <1>3 DEF ForkChild
    <2>4. QED BY <1>1, <2>2, <2>3 DEF CounterInv
<1>4. QED BY <1>2, <1>3

LEMMA ChildCountCounter ==
    ASSUME IInv, CounterInv, ThreadsStart, NEW i \in Interps,
           ChildCountRead(i) \/ ChildCountWrite(i)
    PROVE  CounterInv'
<1>1. Live # {} /\ Live' = Live
    BY DEF ChildCountRead, ChildCountWrite, CounterInv, Live, threadVars
<1>2. \A j \in Interps : pc'[j] # "abort"
    BY DEF ChildCountRead, ChildCountWrite, Goto, IInv, StateOK, InterpInv, ChildPcs
<1>3. QED BY <1>1, <1>2 DEF CounterInv

(* The thread ends only when nobody else has a reference.                  *)
LEMMA LastReference ==
    ASSUME IInv, FinalInv, "slowfork" \notin Events,
           NEW t \in Threads, tpc[t] = "final", refcount = 1
    PROVE  Counted = {} /\ Live = {t} /\ orphans = 0 /\ Creating = {}
<1>1. Creating = {}
    BY DEF Creating, IInv, MutexInv, LockedPcs, FinalInv
<1>2. t \in Live
    BY DEF Live
<1>3. QED BY <1>1, <1>2, OnlyTheThread

LEMMA ThreadCounter ==
    ASSUME IInv, FinalInv, CounterInv, ThreadsStart, NEW t \in Threads, ThreadStep(t)
    PROVE  CounterInv'
<1>1. Counted' = Counted /\ pc' = pc /\ phase' = phase
    BY DEF ThreadStep, Tick, Check, TestCheck, ThreadLock, ThreadFinal, Counted, interpVars
<1>2. CASE Check(t) \/ TestCheck(t) \/ ThreadLock(t)
    <2>1. Live' = Live /\ refcount' = refcount /\ orphans' = orphans
        BY <1>2 DEF Check, StillReferenced, CountDown, StartCountdown, TestCheck,
                    ThreadLock, Live, IInv, StateOK
    <2>2. QED BY <1>1, <2>1, CounterSame
<1>3. CASE Tick(t) /\ phase = "running"
    <2>1. Live' = Live /\ refcount' = refcount /\ orphans' = orphans
        BY <1>3 DEF Tick, Live, IInv, StateOK
    <2>2. QED BY <1>1, <2>1, CounterSame
<1>4. CASE Tick(t) /\ phase # "running"
    BY <1>1, <1>4 DEF Tick, CounterInv, IInv, InterpInv
<1>5. CASE ThreadFinal(t) /\ refcount # 1
    <2>1. Live' = Live /\ refcount' = refcount /\ orphans' = orphans
        BY <1>5 DEF ThreadFinal, Live, IInv, StateOK
    <2>2. QED BY <1>1, <2>1, CounterSame
<1>6. CASE ThreadFinal(t) /\ refcount = 1
    <2>1. Counted = {} /\ orphans = 0 /\ Creating = {}
        BY <1>6, LastReference DEF ThreadFinal, ThreadsStart
    <2>2. \A j \in Interps : pc[j] \notin {"abort", "childcreated", "childread"}
        BY <1>6, <2>1 DEF ThreadFinal, IInv, MutexInv, LockedPcs, Creating
    <2>3. orphans' = orphans
        BY <1>6 DEF ThreadFinal
    <2>4. QED BY <1>1, <2>1, <2>2, <2>3 DEF CounterInv
<1>7. QED BY <1>2, <1>3, <1>4, <1>5, <1>6 DEF ThreadStep

LEMMA OtherCounter ==
    ASSUME IInv, CounterInv, NEW i \in Interps,
           \/ EnterCommit(i) \/ LeaveLock(i) \/ Stop(i) \/ ForkPrepare(i) \/ ForkParent(i)
           \/ ChildTid(i) \/ CroakCaught(i)
           \/ CloneStart(i) \/ CloneDone(i) \/ InterpExit(i)
           \/ SetDestroyed \/ DestroyMutex \/ UNCHANGED vars
    PROVE  CounterInv'
<1>1. /\ refcount' = refcount /\ orphans' = orphans
      /\ phase' = "running" => phase = "running"
    BY DEF EnterCommit, LeaveLock, Stop, ForkPrepare, ForkParent, ChildTid, CroakCaught,
           CloneStart, CloneDone, InterpExit, SetDestroyed, DestroyMutex, vars, stateVars
<1>2. Live' = Live
    BY DEF EnterCommit, LeaveLock, Stop, ForkPrepare, ForkParent, ChildTid, CroakCaught,
           CloneStart, CloneDone, InterpExit, SetDestroyed, DestroyMutex, vars, stateVars, threadVars, Live
<1>3. Counted' = Counted
    BY DEF EnterCommit, LeaveLock, Stop, ForkPrepare, ForkParent, ChildTid, CroakCaught,
           CloneStart, CloneDone, InterpExit, SetDestroyed, DestroyMutex, vars, stateVars, interpVars,
           Idle, Goto, IInv, StateOK, Counted
<1>4. \A j \in Interps :
         \A label \in {"start", "childstart", "abort", "childcreated", "childread"} :
            pc'[j] = label <=> pc[j] = label
    BY DEF EnterCommit, LeaveLock, Stop, ForkPrepare, ForkParent, ChildTid, CroakCaught,
           CloneStart, CloneDone, InterpExit, SetDestroyed, DestroyMutex, vars, stateVars, interpVars,
           Idle, Goto, IInv, StateOK
<1>5. QED BY <1>1, <1>2, <1>3, <1>4, CounterSame

LEMMA CounterStep ==
    ASSUME IInv, FinalInv, CounterInv, [Next]_vars
    PROVE  CounterInv'
<1> SUFFICES ASSUME ThreadsStart PROVE CounterInv'
    BY DEF CounterInv
<1>1. ASSUME NEW i \in Interps, Proceed(i) PROVE CounterInv'
    BY <1>1, StartCounter, EnterAbortCounter, LeaveUnlockCounter, ForkChildCounter,
       ChildCountCounter, OtherCounter DEF Proceed
<1>2. ASSUME NEW i \in Interps, Program(i) PROVE CounterInv'
    BY <1>2, EnterLockCounter, OtherCounter DEF Program
<1>3. CASE SetDestroyed \/ DestroyMutex \/ UNCHANGED vars
    <2>1. SUFFICES ASSUME Interps # {} PROVE CounterInv'
        BY <1>3 DEF CounterInv, Counted, Live, SetDestroyed, DestroyMutex, vars, stateVars, threadVars,
                    interpVars
    <2>2. PICK i \in Interps : TRUE
        BY <2>1
    <2>3. QED BY <1>3, <2>2, OtherCounter
<1>4. QED BY <1>1, <1>2, <1>3, ThreadCounter DEF Next

THEOREM CounterInvariance == Spec => [](IInv /\ FinalInv /\ CounterInv)
<1>1. IInv /\ FinalInv /\ CounterInv /\ [Next]_vars => (IInv /\ FinalInv /\ CounterInv)'
    BY NextInv, FinalStep, CounterStep
<1>2. QED BY InitInv, InitCounterInv, <1>1, PTL DEF Spec

(* Unless threads fail to start, or a forked child is so slow that its new *)
(* thread ends before it is counted, a running run loop always has a       *)
(* counter thread: no sample is ever lost because the thread's last check  *)
(* overlooked a run loop entered in the meantime.                          *)
THEOREM CounterNeverMissing == ThreadsStart => (Spec => []SamplingHasCounter)
<1> SUFFICES ASSUME ThreadsStart PROVE Spec => []SamplingHasCounter
    OBVIOUS
<1>1. IInv /\ FinalInv /\ CounterInv => SamplingHasCounter
    <2> SUFFICES ASSUME IInv, CounterInv, phase = "running",
                        NEW i \in Interps, outer[i], pc[i] = "idle"
                 PROVE  Live # {}
        BY DEF SamplingHasCounter
    <2>1. i \in Counted /\ i \in alive
        BY DEF Counted, IInv, InterpInv
    <2>2. CASE mutex = NoOne
        BY <2>1, <2>2, NobodyStarts DEF CounterInv
    <2>3. CASE mutex # NoOne
        <3>1. SUFFICES ASSUME Live = {} PROVE FALSE
            OBVIOUS
        <3>2. PICK j \in Interps : pc[j] \in {"start", "childstart", "abort"}
            BY <2>1, <3>1 DEF CounterInv
        <3>3. pc[j] # "childstart"
            BY <2>1, <3>2 DEF IInv, InterpInv, ChildPcs
        <3>4. refcount = 1
            BY <3>2, <3>3 DEF CounterInv, IInv, StartInv
        <3>5. Creating = {}
            BY <2>1, <3>2, <3>3 DEF Creating, IInv, MutexInv, InterpInv, LockedPcs, ChildPcs
        <3>6. {i, j} \subseteq Counted /\ i # j
            BY <2>1, <3>2, <3>3 DEF Counted
        <3>7. Cardinality(Counted) <= 1
            BY <3>1, <3>4, <3>5, FS_EmptySet, FiniteSets DEF IInv, RefcountAccounting, StateOK
        <3>8. Cardinality({i, j}) = 2
            <4>1. {i, j} = {i} \cup {j} /\ j \notin {i}
                BY <3>6
            <4>2. IsFiniteSet({i}) /\ Cardinality({i}) = 1
                BY FS_Singleton
            <4>3. Cardinality({i} \cup {j}) = Cardinality({i}) + 1
                BY <4>1, <4>2, CardAdd
            <4>4. QED BY <4>1, <4>2, <4>3
        <3>9. Cardinality({i, j}) <= Cardinality(Counted)
            BY <3>6, FiniteSets, FS_Subset DEF IInv
        <3>10. QED BY <3>7, <3>8, <3>9, FiniteSets DEF IInv
    <2>4. QED BY <2>2, <2>3
<1>2. QED BY <1>1, CounterInvariance, PTL

(* Whatever else fails, the thread never drops the last reference while an *)
(* interpreter owns one.                                                   *)
THEOREM ThreadEndsLast == "slowfork" \notin Events => (Spec => ExitsUnreferenced)
<1> SUFFICES ASSUME "slowfork" \notin Events PROVE Spec => ExitsUnreferenced
    OBVIOUS
<1>1. IInv /\ FinalInv /\ [Next]_vars =>
         [\A t \in Threads : tpc[t] = "final" /\ tpc'[t] = "off" => Counted = {}]_vars
    <2> SUFFICES ASSUME IInv, FinalInv, Next,
                        NEW t \in Threads, tpc[t] = "final", tpc'[t] = "off"
                 PROVE  Counted = {}
        OBVIOUS
    <2> USE DEF IInv, StateOK
    <2>1. ASSUME NEW i \in Interps, Proceed(i) PROVE Counted = {}
        <3>1. ~ForkChild(i)
            BY DEF ForkChild, MutexInv, LockedPcs
        <3>2. ~CreateThread(i)
            BY DEF CreateThread
        <3>3. QED
            BY <2>1, <3>1, <3>2 DEF Proceed, CreateFails, AttrFails, CountThread,
               CountNoThread, EnterCommit, EnterAbort, LeaveUnlock, ForkParent,
               ChildCountRead, ChildCountWrite, ChildTid, CroakCaught, CloneDone, threadVars
    <2>2. ASSUME NEW i \in Interps, Program(i) PROVE Counted = {}
        BY <2>2 DEF Program, EnterLock, LeaveLock, Stop, ForkPrepare, CloneStart,
                    InterpExit, threadVars
    <2>3. ASSUME NEW u \in Threads, ThreadStep(u) PROVE Counted = {}
        <3>1. ThreadFinal(t) /\ refcount = 1
            BY <2>3 DEF ThreadStep, Tick, Check, StillReferenced, CountDown, StartCountdown,
                        TestCheck, ThreadLock, ThreadFinal
        <3>2. QED BY <3>1, LastReference
    <2>4. CASE SetDestroyed \/ DestroyMutex
        BY <2>4 DEF SetDestroyed, DestroyMutex, threadVars
    <2>5. QED BY <2>1, <2>2, <2>3, <2>4 DEF Next
<1>2. QED BY <1>1, CounterInvariance, PTL DEF Spec, ExitsUnreferenced

-----------------------------------------------------------------------------
(* is_any_running() is right about an idle process.                        *)

(* While a thread is started under the mutex, its creator's reference is   *)
(* the only one.                                                           *)
LEMMA StartIsFirst ==
    ASSUME IInv, NEW i \in Interps, pc[i] \in {"start", "uncreated"}
    PROVE  orphans = 0
<1>1. refcount = 1 /\ Live = {} /\ i \in alive /\ i \in Counted
    BY DEF IInv, StartInv, InterpInv, Counted
<1>2. Creating = {}
    BY <1>1, NoneCreating DEF LockedPcs
<1>3. Cardinality(Counted) # 0
    BY <1>1, FiniteSets, CardZero DEF IInv
<1>4. QED
    BY <1>1, <1>2, <1>3, FS_EmptySet, FiniteSets DEF IInv, RefcountAccounting, StateOK

(* Steps that leave alone what OrphanInv speaks of, or end what it says.   *)
LEMMA OrphanSame ==
    ASSUME OrphanInv, Live' = Live, orphans' = orphans, outer' = outer, seen' = seen,
           refcount' = refcount \/ \A j \in Interps : pc'[j] # "childcreated",
           \A j \in Interps :
              \A label \in {"fork", "childstart", "childcreated", "childread", "childuncreated"} :
                 pc'[j] = label => pc[j] = label /\ traceOpen'[j] = traceOpen[j]
    PROVE  OrphanInv'
    BY DEF OrphanInv

LEMMA OrphanProceed ==
    ASSUME IInv, OrphanInv, "suspend" \notin Events, NEW i \in Interps, Proceed(i)
    PROVE  OrphanInv'
<1> USE DEF IInv, StateOK
<1>1. CASE CreateThread(i)
    <2>1. orphans = 0 /\ orphans' = 0
        BY <1>1, StartIsFirst DEF CreateThread, OrphanInv
    <2>2. \A j \in Interps : pc'[j] = "childcreated" => refcount' <= 1 /\ outer'[j]
        BY <1>1 DEF CreateThread, Goto, OrphanInv, StartInv, MutexInv, InterpInv, LockedPcs, ChildPcs
    <2>3. \A j \in Interps : pc'[j] # "childread" /\ pc'[j] # "fork"
        BY <1>1 DEF CreateThread, Goto, MutexInv, InterpInv, LockedPcs, ChildPcs
    <2>4. QED BY <1>1, <2>1, <2>2, <2>3 DEF CreateThread, Goto, OrphanInv
<1>2. CASE CreateFails(i) \/ AttrFails(i) \/ CountThread(i)
    <2>1. /\ Live' = Live /\ orphans' = orphans /\ outer' = outer /\ seen' = seen
          /\ \A j \in Interps : pc'[j] # "fork"
        BY <1>2 DEF CreateFails, AttrFails, CountThread, Goto, Live, threadVars, MutexInv,
                    InterpInv, LockedPcs, ChildPcs
    <2>2. CASE CreateFails(i) \/ AttrFails(i)
        BY <2>1, <2>2 DEF CreateFails, AttrFails, Goto, OrphanInv
    <2>3. CASE CountThread(i)
        <3>1. \A j \in Interps : pc'[j] # "childcreated"
            BY <2>3 DEF CountThread, Goto, InterpInv, ChildPcs
        <3>2. QED BY <2>1, <2>3, <3>1 DEF CountThread, Goto, OrphanInv
    <2>4. QED BY <1>2, <2>2, <2>3
<1>3. CASE CountNoThread(i)
    <2>1. orphans' = 1
        BY <1>3, StartIsFirst DEF CountNoThread, OrphanInv
    <2>2. Live' = {}
        BY <1>3 DEF CountNoThread, StartInv, Live, threadVars
    <2>3. \A j \in Interps : pc'[j] \notin {"fork", "childstart", "childcreated", "childread",
                                           "childuncreated"}
        BY <1>3 DEF CountNoThread, Goto, MutexInv, InterpInv, LockedPcs, ChildPcs
    <2>4. QED BY <2>1, <2>2, <2>3 DEF OrphanInv
<1>4. CASE EnterCommit(i) \/ EnterAbort(i) \/ LeaveUnlock(i)
    <2>1. \A j \in Interps : pc'[j] \notin {"fork", "childstart", "childcreated", "childread",
                                           "childuncreated"}
        BY <1>4 DEF EnterCommit, EnterAbort, LeaveUnlock, Goto, MutexInv, InterpInv,
                    LockedPcs, ChildPcs
    <2>2. Live' = Live /\ orphans' = orphans
        BY <1>4 DEF EnterCommit, EnterAbort, LeaveUnlock, Live, threadVars
    <2>3. QED BY <2>1, <2>2 DEF OrphanInv
<1>5. CASE ForkChild(i)
    <2>1. orphans' = 0 /\ (Running(i) => outer[i])
        BY <1>5 DEF ForkChild, Running, OrphanInv
    <2>2. \A j \in Interps : /\ pc'[j] \in {"idle", "childstart", "childtid"}
                             /\ pc'[j] = "childstart" => outer'[j]
        BY <1>5, <2>1 DEF ForkChild
    <2>3. QED BY <2>1, <2>2 DEF OrphanInv
<1>6. CASE ChildCountRead(i)
    <2>1. /\ Live' = Live /\ orphans' = 0 /\ seen' <= 1
          /\ \A j \in Interps : pc'[j] \notin {"fork", "childstart", "childcreated",
                                              "childuncreated"}
          /\ \A j \in Interps : pc'[j] = "childread" => outer'[j]
        BY <1>6 DEF ChildCountRead, Goto, OrphanInv, InterpInv, ChildPcs, Live, threadVars
    <2>2. QED BY <2>1 DEF OrphanInv
<1>7. CASE ChildCountWrite(i)
    <2>1. orphans = 0 /\ seen <= 1 /\ refcount <= seen /\ i \in Counted /\ i \in Creating
        BY <1>7 DEF ChildCountWrite, OrphanInv, StartInv, Counted, Creating
    <2>2. orphans' = seen - refcount
        BY <1>7, <2>1 DEF ChildCountWrite
    <2>3. Live' = Live
        BY <1>7 DEF ChildCountWrite, Live, threadVars
    <2>4. Live # {} => refcount >= 1
        <3>1. SUFFICES ASSUME Live # {} PROVE refcount >= 1
            OBVIOUS
        <3>2. Cardinality(Counted) # 0 /\ Cardinality(Live) # 0
            BY <2>1, <3>1, FiniteSets, CardZero
        <3>3. Creating = {i}
            BY <2>1 DEF Creating, ChildCountWrite, InterpInv, ChildPcs, MutexInv, LockedPcs, StartInv
        <3>4. Cardinality(Creating) = 1
            BY <3>3, FS_Singleton
        <3>5. QED BY <2>1, <3>2, <3>4, FiniteSets DEF RefcountAccounting
    <2>5. \A j \in Interps : pc'[j] \notin {"fork", "childstart", "childcreated", "childread",
                                           "childuncreated"}
        BY <1>7 DEF ChildCountWrite, Goto, InterpInv, ChildPcs
    <2>6. QED BY <2>1, <2>2, <2>3, <2>4, <2>5 DEF OrphanInv
<1>8. CASE ForkParent(i) \/ ChildTid(i) \/ CroakCaught(i) \/ CloneDone(i)
    <2>1. /\ Live' = Live /\ orphans' = orphans /\ outer' = outer /\ seen' = seen
          /\ refcount' = refcount
        BY <1>8 DEF ForkParent, ChildTid, CroakCaught, CloneDone, Live, threadVars
    <2>2. \A j \in Interps :
             \A label \in {"fork", "childstart", "childcreated", "childread", "childuncreated"} :
                pc'[j] = label => pc[j] = label /\ traceOpen'[j] = traceOpen[j]
        BY <1>8 DEF ForkParent, ChildTid, CroakCaught, CloneDone, Goto
    <2>3. QED BY <2>1, <2>2, OrphanSame
<1>9. QED BY <1>1, <1>2, <1>3, <1>4, <1>5, <1>6, <1>7, <1>8 DEF Proceed

LEMMA OrphanStep ==
    ASSUME IInv, OrphanInv, [Next]_vars
    PROVE  OrphanInv'
<1> SUFFICES ASSUME "suspend" \notin Events PROVE OrphanInv'
    BY DEF OrphanInv
<1> USE DEF IInv, StateOK
<1>1. ASSUME NEW i \in Interps, Proceed(i) PROVE OrphanInv'
    BY <1>1, OrphanProceed
<1>2. ASSUME NEW i \in Interps, Program(i) PROVE OrphanInv'
    <2>1. /\ Live' = Live /\ orphans' = orphans /\ seen' = seen
          /\ \A j \in Interps : pc'[j] = pc[j] \/ pc'[j] \notin ChildPcs
        BY <1>2 DEF Program, EnterLock, LeaveLock, Stop, ForkPrepare, CloneStart,
                    InterpExit, Idle, Goto, Live, threadVars, ChildPcs
    <2>2. CASE EnterLock(i) \/ LeaveLock(i)
        <3>1. \A j \in Interps : pc'[j] \notin {"fork", "childstart", "childcreated",
                                               "childread", "childuncreated"}
            BY <2>2 DEF EnterLock, LeaveLock, Idle, Goto, MutexInv, InterpInv, LockedPcs,
                        ChildPcs
        <3>2. QED BY <2>1, <3>1 DEF OrphanInv
    <2>3. CASE Stop(i) \/ CloneStart(i) \/ InterpExit(i)
        <3>1. outer' = outer /\ refcount' = refcount
            BY <2>3 DEF Stop, CloneStart, InterpExit
        <3>2. \A j \in Interps :
                 \A label \in {"fork", "childstart", "childcreated", "childread",
                               "childuncreated"} :
                    pc'[j] = label => pc[j] = label /\ traceOpen'[j] = traceOpen[j]
            BY <2>3 DEF Stop, CloneStart, InterpExit, Idle, Goto
        <3>3. QED BY <2>1, <3>1, <3>2, OrphanSame
    <2>4. CASE ForkPrepare(i)
        <3>1. \A j \in Interps : pc'[j] = "fork" /\ traceOpen'[j] => outer'[j]
            BY <2>4 DEF ForkPrepare, Idle, Goto, MutexInv, LockedPcs
        <3>2. \A j \in Interps : pc'[j] \notin {"childstart", "childcreated", "childread",
                                               "childuncreated"}
            BY <2>4 DEF ForkPrepare, Idle, Goto, InterpInv, ChildPcs
        <3>3. QED BY <2>1, <3>1, <3>2 DEF OrphanInv
    <2>5. QED BY <1>2, <2>2, <2>3, <2>4 DEF Program
<1>3. ASSUME NEW t \in Threads, ThreadStep(t) PROVE OrphanInv'
    <2>1. /\ pc' = pc /\ outer' = outer /\ traceOpen' = traceOpen /\ seen' = seen
          /\ refcount' <= refcount
        BY <1>3 DEF ThreadStep, Tick, Check, TestCheck, ThreadLock, ThreadFinal, interpVars
    <2>2. CASE Tick(t) /\ ~(phase = "running" \/ TestClock)
        <3>1. Live' = {} /\ orphans = 0
            BY <2>2, ThreadEnds DEF Tick, Live, OrphanInv
        <3>2. \A j \in Interps : pc'[j] = "idle"
            BY <2>1, <2>2 DEF InterpInv
        <3>3. QED BY <2>2, <3>1, <3>2 DEF Tick, OrphanInv
    <2>3. CASE ~(Tick(t) /\ ~(phase = "running" \/ TestClock))
        <3>1. orphans' = orphans /\ Live' \subseteq Live
            BY <1>3, <2>3 DEF ThreadStep, Tick, Check, StillReferenced, CountDown,
                              StartCountdown, TestCheck, ThreadLock, ThreadFinal, Live
        <3>2. refcount' \in Int
            BY <1>3 DEF ThreadStep, Tick, Check, TestCheck, ThreadLock, ThreadFinal
        <3>3. QED BY <2>1, <3>1, <3>2 DEF OrphanInv
    <2>4. QED BY <2>2, <2>3
<1>4. CASE SetDestroyed \/ DestroyMutex \/ UNCHANGED vars
    BY <1>4 DEF SetDestroyed, DestroyMutex, vars, stateVars, interpVars, threadVars, Live, OrphanInv
<1>5. QED BY <1>1, <1>2, <1>3, <1>4 DEF Next

(* Unless it forks with profiling off and the trace open, a process where  *)
(* no run loop is active never refuses to change the sampling interval     *)
(* because of the count, whatever failed before.                           *)
THEOREM IdleReportsIdle == "suspend" \notin Events => (Spec => []IdleProcessReportsIdle)
<1> SUFFICES ASSUME "suspend" \notin Events PROVE Spec => []IdleProcessReportsIdle
    OBVIOUS
<1>1. Init => OrphanInv
    BY DEF Init, OrphanInv, Live
<1>2. IInv /\ OrphanInv => IdleProcessReportsIdle
    <2> SUFFICES ASSUME IInv, OrphanInv, Counted = {} PROVE refcount <= 1
        BY DEF IdleProcessReportsIdle, IInv, StateOK
    <2>1. Cardinality(Counted) = 0
        BY FS_EmptySet
    <2>2. orphans + Cardinality(Live) <= 1
        <3>1. Live = {} \/ \E t \in Live : Live = {t}
            BY DEF IInv, StartInv
        <3>2. CASE Live = {}
            BY <3>2, FS_EmptySet DEF OrphanInv, IInv, StateOK
        <3>3. CASE Live # {}
            <4>1. Cardinality(Live) = 1
                BY <3>1, <3>3, FS_Singleton
            <4>2. QED BY <3>3, <4>1 DEF OrphanInv
        <3>4. QED BY <3>2, <3>3
    <2>3. QED BY <2>1, <2>2, FiniteSets DEF IInv, RefcountAccounting, StateOK
<1>3. QED BY InitInv, NextInv, OrphanStep, <1>1, <1>2, PTL DEF Spec
=============================================================================
