---------------------------- MODULE SampleProofs ----------------------------
(***************************************************************************)
(* Proofs about what a sample says: the weights Sampler gives them, for    *)
(* every nesting of run loops, every number of ticks and every width of    *)
(* the counter; and the frames TraceCollect collects for them, for any     *)
(* program, depth and number of contexts.                                  *)
(*                                                                         *)
(* In TraceCollect, positions are ordered by Inside, and each step of the  *)
(* program adds or removes the innermost one, or moves the statement of    *)
(* the innermost unit: Pushed, Popped and Moved.  The invariants are       *)
(* stated in terms of this order, and only the lemmas of the first part    *)
(* look at sequences.                                                      *)
(***************************************************************************)
EXTENDS Sampler, TraceCollect, FiniteSetTheorems, SequenceTheorems, WellFoundedInduction, TLAPS

-----------------------------------------------------------------------------
(* The weights of samples                                                  *)


(* counter is always a value of its type.                                  *)
LEMMA CounterRange == ASSUME ticks \in 0 .. MaxTicks
                      PROVE  Counter \in 0 .. Modulus - 1
BY TicksAssumption DEF Counter

(* Before it wraps around, counter is the number of ticks ...              *)
LEMMA CounterExact == ASSUME ticks \in 0 .. MaxTicks, ticks < Modulus
                      PROVE  Counter = ticks
<1>1. ticks \in Int /\ Modulus \in Nat \ {0} /\ 0 <= ticks /\ ticks < Modulus
  BY TicksAssumption
<1>. QED BY <1>1, SMTT(30) DEF Counter

(* ... and the difference of two values is the number of ticks in between. *)
LEMMA SinceExact ==
    ASSUME ticks \in 0 .. MaxTicks, ticks < Modulus,
           NEW p \in Nat, p <= ticks
    PROVE  Since(p) = ticks - p
<1>1. Counter = ticks  BY CounterExact
<1>2. ticks - p \in Int /\ Modulus \in Nat \ {0} /\ 0 <= ticks - p /\ ticks - p < Modulus
  BY TicksAssumption
<1>. QED BY <1>1, <1>2, SMTT(30) DEF Since

-----------------------------------------------------------------------------
(* Types.                                                                  *)

LEMMA SinceNat == ASSUME NEW p \in Int, ticks \in 0 .. MaxTicks
                  PROVE  Since(p) \in Nat
<1>1. Counter - p \in Int  BY CounterRange, TicksAssumption
<1>2. \A n \in Int : n % Modulus \in Nat  BY TicksAssumption
<1>. QED BY <1>1, <1>2, Zenon DEF Since

LEMMA TypeInit == RunloopInit => TypeOK
<1>. SUFFICES ASSUME RunloopInit PROVE TypeOK
  OBVIOUS
<1>1. 0 \in 0 .. MaxTicks /\ 0 \in 0 .. MaxDepth /\ 0 \in 0 .. Modulus - 1
  BY TicksAssumption, DepthAssumption
<1>2. charged \in [Accounts -> Nat]  BY DEF RunloopInit
<1>. QED BY <1>1, <1>2 DEF RunloopInit, TypeOK

(* Entering a run loop, calling collect_sample() and returning.            *)
LEMMA EnterLoopType == ASSUME TypeOK, NEW d \in Levels, NEW events \in SUBSET AllEvents,
                              EnterLoop(d, events)
                       PROVE  /\ depth' \in 0 .. MaxDepth
                              /\ pred' \in [Levels -> 0 .. Modulus - 1]
                              /\ valid' \in BOOLEAN
                              /\ happened' \subseteq AllEvents
<1>1. Counter \in 0 .. Modulus - 1  BY CounterRange DEF TypeOK
<1>2. depth' \in 0 .. MaxDepth  BY DepthAssumption DEF EnterLoop, Levels
<1>3. pred' \in [Levels -> 0 .. Modulus - 1]  BY <1>1 DEF EnterLoop, TypeOK
<1>4. valid' \in BOOLEAN  BY DEF EnterLoop, TypeOK
<1>5. happened' \subseteq AllEvents  BY DEF EnterLoop, TypeOK, AllEvents
<1>. QED BY <1>2, <1>3, <1>4, <1>5

LEMMA EndLoopType == ASSUME TypeOK, depth \in Levels, EndLoop
                     PROVE  /\ depth' \in 0 .. MaxDepth
                            /\ pc' \in [Levels -> {"ops", "adjust", "resolve", "store", "return"}]
                            /\ pred' \in [Levels -> 0 .. Modulus - 1]
                            /\ arg' \in [Levels -> 0 .. Modulus - 1]
                            /\ last' \in [Levels -> BOOLEAN]
<1>0. 0 \in 0 .. Modulus - 1 /\ depth - 1 \in 0 .. MaxDepth
  BY DepthAssumption, TicksAssumption DEF Levels, TypeOK
<1>1. CASE Collect(TRUE)  BY <1>1 DEF Collect, Goto, TypeOK
<1>2. CASE Pop  BY <1>0, <1>2 DEF Pop, Goto, TypeOK
<1>. QED BY <1>1, <1>2 DEF EndLoop

LEMMA TypeNext == TypeOK /\ [RunloopNext]_runloopVars => TypeOK'
<1>. SUFFICES ASSUME TypeOK, [RunloopNext]_runloopVars PROVE TypeOK'
  OBVIOUS
<1>. USE DepthAssumption, TicksAssumption
<1>0. /\ Counter \in 0 .. Modulus - 1
      /\ \A l : AtStep(l) => depth \in Levels
  BY CounterRange DEF TypeOK, AtStep, Levels
<1>1. CASE UNCHANGED runloopVars  BY <1>1 DEF TypeOK, runloopVars
<1>2. CASE Tick
  BY <1>2 DEF Tick, TypeOK, Charge, Accounts, AtStep, Finished
<1>3. CASE Start
  <2>1. 1 \in Levels  BY DEF Levels
  <2>. QED BY <1>3, <2>1, EnterLoopType DEF Start, TypeOK
<1>4. CASE Nest
  <2>1. depth + 1 \in Levels  BY <1>4 DEF Levels, Nest, TypeOK
  <2>2. PICK events \in SUBSET AllEvents : EnterLoop(depth + 1, events)
    BY <1>4 DEF Nest, AllEvents
  <2>. QED BY <1>4, <2>1, <2>2, EnterLoopType DEF Nest, TypeOK
<1>5. CASE LoopCheck
  BY <1>5 DEF LoopCheck, Collect, Goto, TypeOK, Levels
<1>6. CASE LoopEnd
  BY <1>6, <1>0, EndLoopType DEF LoopEnd, TypeOK
<1>7. CASE Stop
  BY <1>7, <1>0, EndLoopType DEF Stop, TypeOK, AllEvents
<1>8. CASE Die
  <2>1. pc' \in [Levels -> {"ops", "adjust", "resolve", "store", "return"}]
    BY <1>8 DEF Die, TypeOK
  <2>2. last' \in [Levels -> BOOLEAN]
    <3>1. \A d \in Levels : last[d] \in BOOLEAN  BY DEF TypeOK
    <3>. QED BY <1>8, <3>1, Zenon DEF Die
  <2>3. CASE \E d \in 1 .. depth : EnterLoop(d, {"die"})
    <3>1. PICK d \in 1 .. depth : EnterLoop(d, {"die"})  BY <2>3
    <3>2. d \in Levels /\ {"die"} \in SUBSET AllEvents  BY DEF Levels, TypeOK, AllEvents
    <3>. QED BY <1>8, <2>1, <2>2, <3>1, <3>2, EnterLoopType DEF Die, TypeOK
  <2>4. CASE depth' = 0 /\ happened' = happened \cup {"die"} /\ UNCHANGED <<pred, valid>>
    <3>1. UNCHANGED <<ticks, arg, myPred, charged>>  BY <1>8 DEF Die
    <3>. QED BY <2>1, <2>2, <2>4, <3>1 DEF TypeOK, AllEvents
  <2>. QED BY <1>8, <2>3, <2>4 DEF Die
<1>9. CASE Adjust
  <2>1. arg' \in [Levels -> 0 .. Modulus - 1]
    BY <1>9, <1>0 DEF Adjust, TypeOK
  <2>2. pc' \in [Levels -> {"ops", "adjust", "resolve", "store", "return"}]
    BY <1>9 DEF Adjust, TypeOK, Goto
  <2>. QED BY <1>9, <2>1, <2>2 DEF Adjust, TypeOK
<1>10. CASE Emit
  <2>1. Since(arg[depth]) \in Nat
    BY <1>10, SinceNat, SMTT(60) DEF Emit, AtStep, TypeOK, Levels
  <2>2. charged' \in [Accounts -> Nat]
    <3>1. "sampled" \in Accounts  BY DEF Accounts
    <3>2. charged["sampled"] + Since(arg[depth]) \in Nat
      BY <2>1, <3>1 DEF TypeOK
    <3>. QED BY <1>10, <3>2 DEF Emit, TypeOK, Charge
  <2>3. pc' \in [Levels -> {"ops", "adjust", "resolve", "store", "return"}]
    BY <1>10 DEF Emit, TypeOK, Goto
  <2>. QED BY <2>2, <2>3, <1>10 DEF Emit, TypeOK
<1>11. CASE Store
  BY <1>11, <1>0 DEF Store, TypeOK, Goto, AtStep, Levels
<1>12. CASE Return
  <2>1. CASE last[depth]
    <3>1. EndLoop \/ Pop  BY <1>12, <2>1 DEF Return
    <3>2. depth \in Levels /\ depth - 1 \in 0 .. MaxDepth
      BY <1>12, <1>0 DEF Return, Levels, TypeOK
    <3>3. Pop  BY <1>12, <2>1 DEF Return
    <3>4. 0 \in 0 .. Modulus - 1  OBVIOUS
    <3>. QED BY <1>12, <3>2, <3>3, <3>4 DEF Return, Pop, Goto, TypeOK
  <2>2. CASE ~last[depth]
    BY <1>12, <1>0, <2>2 DEF Return, TypeOK, Goto
  <2>. QED BY <2>1, <2>2
<1>. QED BY <1>1, <1>2, <1>3, <1>4, <1>5, <1>6, <1>7, <1>8, <1>9, <1>10, <1>11, <1>12
         DEF RunloopNext

(* Every variable of runloop() and collect_sample() keeps its type, for    *)
(* every width of the counter.                                             *)
THEOREM SamplerTypeCorrect == RunloopSpec => []TypeOK
BY TypeInit, TypeNext, PTL DEF RunloopSpec

-----------------------------------------------------------------------------
(* No tick is counted twice.                                               *)

LEMMA SpentNat == TypeOK => Spent \in Nat /\ \A a \in Accounts : charged[a] \in Nat
<1>. SUFFICES ASSUME TypeOK PROVE Spent \in Nat /\ \A a \in Accounts : charged[a] \in Nat
  OBVIOUS
<1>1. \A a \in Accounts : charged[a] \in Nat  BY DEF TypeOK
<1>2. {"sampled", "idle", "store"} \subseteq Accounts  BY DEF Accounts
<1>. QED BY <1>1, <1>2 DEF Spent

(* What a tick, or a sample, adds.                                         *)
LEMMA ChargeSpent ==
    ASSUME TypeOK, NEW a \in Accounts, NEW n \in Nat, Charge(a, n)
    PROVE  Spent' = IF a = "return" THEN Spent ELSE Spent + n
<1>1. {"sampled", "idle", "store"} \subseteq Accounts  BY DEF Accounts
<1>2. \A b \in Accounts : charged'[b] = IF b = a THEN charged[b] + n ELSE charged[b]
  BY DEF Charge, TypeOK
<1>3. \A b \in Accounts : charged[b] \in Nat  BY DEF TypeOK
<1>4. a \in {"sampled", "idle", "store", "return"}  BY DEF Accounts
<1>. QED BY <1>1, <1>2, <1>3, <1>4 DEF Spent

(* Levels as numbers, and what is known of each.                           *)
LEMMA LevelFacts ==
    TypeOK => /\ depth \in Nat /\ depth <= MaxDepth /\ ticks \in Nat
              /\ myPred \in Nat
              /\ \A d \in Levels : pred[d] \in Nat /\ arg[d] \in Nat
              /\ depth > 0 => depth \in Levels /\ 1 \in 1 .. depth
              /\ 1 .. depth \subseteq Levels
BY DepthAssumption, TicksAssumption DEF TypeOK, Levels

LEMMA AccountInit == RunloopInit => AccountInv
<1>. SUFFICES ASSUME RunloopInit PROVE AccountInv
  OBVIOUS
<1>1. TypeOK  BY TypeInit
<1>2. LoopInv  BY DEF RunloopInit, LoopInv, AtStep
<1>3. {"sampled", "idle", "store"} \subseteq Accounts  BY DEF Accounts
<1>4. SpentInv  BY <1>3 DEF RunloopInit, SpentInv, Spent
<1>. QED BY <1>1, <1>2, <1>4 DEF AccountInv

(* Ticks and events only add up.                                           *)
LEMMA Monotone ==
    ASSUME TypeOK, [RunloopNext]_runloopVars
    PROVE  (ticks < Modulus)' => ticks < Modulus
           /\ happened \subseteq happened'
<1>1. ticks' = ticks \/ ticks' = ticks + 1
  BY DEF RunloopNext, runloopVars, Tick, Start, Nest, LoopCheck, LoopEnd, Stop, Die, Adjust, Emit, Store,
         Return
<1>2. happened \subseteq happened'
  BY DEF RunloopNext, runloopVars, Tick, Start, Nest, LoopCheck, LoopEnd, Stop, Die, Adjust, Emit, Store,
         Return, EnterLoop
<1>. QED BY <1>1, <1>2, TicksAssumption DEF TypeOK

LEMMA AccountNext == AccountInv /\ [RunloopNext]_runloopVars => AccountInv'
<1>. SUFFICES ASSUME AccountInv, [RunloopNext]_runloopVars PROVE AccountInv'
  OBVIOUS
<1>. USE DepthAssumption, TicksAssumption
<1>t. TypeOK /\ TypeOK'  BY TypeNext DEF AccountInv
<1>. SUFFICES ASSUME Accountable' PROVE AccountInv'
  BY <1>t DEF AccountInv
<1>a. Accountable  BY <1>t, Monotone DEF Accountable
<1>c. Counter = ticks  BY <1>t, <1>a, CounterExact DEF TypeOK, Accountable
<1>s. Spent \in Nat  BY <1>t, SpentNat
<1>f. /\ depth \in Nat /\ ticks \in Nat /\ myPred \in Nat
      /\ \A d \in Levels : pred[d] \in Nat /\ arg[d] \in Nat
      /\ depth > 0 => depth \in Levels /\ 1 \in 1 .. depth
      /\ 1 .. depth \subseteq Levels
  BY <1>t, LevelFacts
<1>i. LoopInv /\ SpentInv  BY <1>a DEF AccountInv
<1>b. Spent <= ticks
  <2>1. depth > 0 => pred[1] <= ticks  BY <1>i, <1>f DEF LoopInv
  <2>. QED BY <2>1, <1>i, <1>f, <1>s DEF SpentInv, LoopInv
<1>1. CASE UNCHANGED runloopVars
  BY <1>1, <1>t, <1>i DEF runloopVars, AccountInv, LoopInv, SpentInv, Spent, AtStep, Finished
<1>2. CASE Tick
  <2>1. LoopInv'  BY <1>2, <1>i, <1>f DEF Tick, LoopInv, AtStep
  <2>2. \/ (depth = 0 \/ Finished \/ AtStep("store")) /\ Spent' = Spent + 1
        \/ Spent' = Spent
    <3>1. {"idle", "store", "return"} \subseteq Accounts  BY DEF Accounts
    <3>2. \/ (depth = 0 \/ Finished) /\ Charge("idle", 1)
          \/ AtStep("store") /\ Charge("store", 1)
          \/ Charge("return", 1)
          \/ UNCHANGED charged
      BY <1>2 DEF Tick
    <3>3. Charge("idle", 1) => Spent' = Spent + 1
      BY <1>t, <3>1, ChargeSpent
    <3>4. Charge("store", 1) => Spent' = Spent + 1
      BY <1>t, <3>1, ChargeSpent
    <3>5. Charge("return", 1) => Spent' = Spent
      BY <1>t, <3>1, ChargeSpent
    <3>6. UNCHANGED charged => Spent' = Spent  BY DEF Spent
    <3>. QED BY <3>2, <3>3, <3>4, <3>5, <3>6
  <2>3. SpentInv'
    <3>1. UNCHANGED <<depth, pc, pred, last, myPred>> /\ ticks' = ticks + 1
      BY <1>2 DEF Tick
    <3>2. (AtStep("store")' <=> AtStep("store")) /\ (Finished' <=> Finished)
      BY <3>1 DEF AtStep, Finished
    <3>3. CASE depth = 0 \/ AtStep("store") \/ Finished
      <4>1. Spent' <= ticks'  BY <3>1, <2>2, <1>b, <1>s, <1>f
      <4>. QED BY <4>1, <3>1, <3>2, <3>3 DEF SpentInv
    <3>4. CASE ~(depth = 0 \/ AtStep("store") \/ Finished)
      <4>1. Spent <= myPred \/ Spent <= pred[1]  BY <1>i, <3>4 DEF SpentInv
      <4>2. Spent' = Spent  BY <2>2, <3>4
      <4>. QED BY <4>1, <4>2, <3>1, <3>2, <3>4 DEF SpentInv
    <3>. QED BY <3>3, <3>4
  <2>. QED BY <1>t, <2>1, <2>3 DEF AccountInv
<1>3. CASE Start
  <2>0. /\ depth = 0 /\ depth' = 1 /\ UNCHANGED <<ticks, pc, arg, myPred>>
        /\ \A d \in Levels : pred'[d] = IF d = 1 THEN ticks ELSE pred[d]
        /\ 1 \in Levels /\ \A d \in 1 .. 1 : d = 1
    BY <1>3, <1>c, <1>t DEF Start, EnterLoop, TypeOK, Levels
  <2>1. LoopInv'
    <3>1. \A d \in Levels : pc[d] = "ops"  BY <2>0, <1>i DEF LoopInv, Levels
    <3>. QED BY <2>0, <3>1, <1>i, <1>f DEF LoopInv, AtStep
  <2>2. SpentInv'
    BY <1>3, <1>b, <1>f, <1>c, <1>i, <1>t DEF Start, EnterLoop, SpentInv, Spent, TypeOK, Finished, AtStep, LoopInv
  <2>. QED BY <1>t, <2>1, <2>2 DEF AccountInv
<1>4. CASE Nest
  <2>0. AtStep("ops") /\ EnterLoop(depth + 1, {"nest"})
    BY <1>4 DEF Nest, EnterLoop, Accountable
  <2>1. depth > 0 /\ pc[depth] = "ops" /\ depth + 1 \in Levels
    BY <1>4, <2>0, <1>f, <1>t DEF Nest, AtStep, Levels
  <2>2. pc[depth + 1] = "ops"  BY <2>1, <1>i, <1>f DEF LoopInv
  <2>3. /\ depth' = depth + 1
        /\ \A d \in Levels : pred'[d] = IF d = depth + 1 THEN ticks ELSE pred[d]
    BY <2>0, <2>1, <1>c, <1>t DEF EnterLoop, TypeOK
  <2>4. LoopInv'
    BY <1>4, <1>i, <1>f, <2>1, <2>2, <2>3 DEF Nest, LoopInv, AtStep
  <2>5. SpentInv'
    BY <1>4, <1>i, <1>f, <2>1, <2>2, <2>3 DEF Nest, SpentInv, Spent, AtStep, Finished
  <2>. QED BY <1>t, <2>4, <2>5 DEF AccountInv
<1>5. ASSUME AtStep("ops"), EndLoop, UNCHANGED <<ticks, myPred, charged>>
      PROVE  AccountInv'
  <2>1. depth \in Levels /\ depth > 0  BY <1>5, <1>f DEF AtStep
  <2>2. CASE Collect(TRUE)
    <3>1. LoopInv'
      BY <1>5, <1>i, <1>f, <1>t, <2>1, <2>2 DEF Collect, Goto, LoopInv, AtStep, TypeOK
    <3>2. SpentInv'
      BY <1>5, <1>i, <1>f, <1>t, <2>1, <2>2 DEF Collect, Goto, SpentInv, Spent, AtStep, Finished, TypeOK
    <3>. QED BY <1>t, <3>1, <3>2 DEF AccountInv
  <2>3. CASE Pop
    <3>1. LoopInv'
      BY <1>5, <1>i, <1>f, <1>t, <2>1, <2>3 DEF Pop, Goto, LoopInv, AtStep, TypeOK
    <3>2. SpentInv'
      BY <1>5, <1>b, <1>i, <1>f, <1>t, <2>1, <2>3 DEF Pop, Goto, SpentInv, Spent, AtStep, Finished, TypeOK, LoopInv
    <3>. QED BY <1>t, <3>1, <3>2 DEF AccountInv
  <2>. QED BY <1>5, <2>2, <2>3 DEF EndLoop
<1>6. CASE LoopEnd  BY <1>5, <1>6 DEF LoopEnd
<1>7. CASE LoopCheck
  <2>1. depth \in Levels /\ depth > 0  BY <1>7, <1>f DEF AtStep, LoopCheck
  <2>2. LoopInv'
    BY <1>7, <1>i, <1>f, <1>t, <2>1 DEF LoopCheck, Collect, Goto, LoopInv, AtStep, TypeOK
  <2>3. SpentInv'
    BY <1>7, <1>i, <1>f, <1>t, <2>1 DEF LoopCheck, Collect, Goto, SpentInv, Spent, AtStep, Finished, TypeOK
  <2>. QED BY <1>t, <2>2, <2>3 DEF AccountInv
<1>8. CASE Stop
  <2>1. CASE AtStep("ops") /\ EndLoop  BY <1>5, <1>8, <2>1 DEF Stop
  <2>2. CASE depth = 0 /\ UNCHANGED <<depth, pc, pred, arg, last>>
    BY <1>8, <2>2, <1>t, <1>i DEF Stop, AccountInv, LoopInv, SpentInv, Spent, AtStep, Finished
  <2>. QED BY <1>8, <2>1, <2>2 DEF Stop
<1>9. CASE Die
  <2>0. /\ depth \in Levels /\ depth > 0 /\ pc[depth] = "ops"
        /\ UNCHANGED <<ticks, arg, myPred, charged>>
        /\ pc' = [d \in Levels |-> IF d < depth' THEN pc[d] ELSE "ops"]
    BY <1>9, <1>f DEF Die, AtStep
  <2>1. CASE \E d \in 1 .. depth : EnterLoop(d, {"die"})
    <3>1. PICK k \in 1 .. depth : EnterLoop(k, {"die"})  BY <2>1
    <3>2. /\ depth' = k
          /\ \A d \in Levels : pred'[d] = IF d = k THEN ticks ELSE pred[d]
      BY <3>1, <1>c, <1>t DEF EnterLoop, TypeOK
    <3>3. \A d \in Levels : pc'[d] = "ops"  BY <2>0, <1>i DEF LoopInv
    <3>4. LoopInv'  BY <2>0, <3>2, <3>3, <1>i, <1>f DEF LoopInv, AtStep
    <3>5. SpentInv'
      BY <2>0, <3>2, <3>3, <1>b, <1>i, <1>f DEF SpentInv, Spent, AtStep, Finished
    <3>. QED BY <1>t, <3>4, <3>5 DEF AccountInv
  <2>2. CASE depth' = 0 /\ happened' = happened \cup {"die"} /\ UNCHANGED <<pred, valid>>
    <3>1. LoopInv'  BY <2>0, <2>2, <1>i, <1>f DEF LoopInv, AtStep
    <3>2. SpentInv'  BY <2>0, <2>2, <1>b DEF SpentInv, Spent
    <3>. QED BY <1>t, <3>1, <3>2 DEF AccountInv
  <2>. QED BY <1>9, <2>1, <2>2 DEF Die
<1>10. CASE Adjust
  <2>1. depth \in Levels /\ depth > 0  BY <1>10, <1>f DEF AtStep, Adjust
  <2>2. LoopInv'
    BY <1>10, <1>i, <1>f, <1>t, <2>1 DEF Adjust, Goto, LoopInv, AtStep, TypeOK
  <2>3. SpentInv'
    BY <1>10, <1>b, <1>i, <1>f, <1>t, <2>1 DEF Adjust, Goto, SpentInv, Spent, AtStep, Finished, TypeOK
  <2>. QED BY <1>t, <2>2, <2>3 DEF AccountInv
<1>11. CASE Emit
  <2>1. /\ depth \in Levels /\ depth > 0 /\ pc[depth] = "resolve"
        /\ UNCHANGED <<ticks, depth, pred, arg, last, myPred>>
        /\ pc' = [pc EXCEPT ![depth] = "store"]
    BY <1>11, <1>f DEF AtStep, Emit, Goto
  <2>2. pred[depth] <= arg[depth] /\ myPred <= arg[depth] /\ arg[depth] <= ticks
    BY <2>1, <1>i DEF LoopInv, AtStep
  <2>3. Since(arg[depth]) = ticks - arg[depth]
    BY <2>1, <2>2, <1>f, <1>t, <1>a, SinceExact DEF TypeOK, Accountable
  <2>4. Spent' = Spent + (ticks - arg[depth])
    <3>1. "sampled" \in Accounts  BY DEF Accounts
    <3>2. ticks - arg[depth] \in Nat  BY <2>1, <2>2, <1>f
    <3>3. Charge("sampled", ticks - arg[depth])  BY <1>11, <2>3 DEF Emit
    <3>. QED BY <1>t, <3>1, <3>2, <3>3, ChargeSpent
  <2>5. Spent <= arg[depth]
    <3>1. pred[1] <= pred[depth]  BY <2>1, <1>i, <1>f DEF LoopInv
    <3>2. Spent <= myPred \/ Spent <= pred[1]
      BY <2>1, <1>i DEF SpentInv, AtStep, Finished
    <3>. QED BY <2>1, <2>2, <3>1, <3>2, <1>f, <1>s
  <2>6. LoopInv'  BY <2>1, <1>i, <1>f, <1>t DEF LoopInv, AtStep, TypeOK
  <2>7. Spent' <= ticks'  BY <2>1, <2>4, <2>5, <1>f, <1>s
  <2>8. pc'[depth'] = "store"  BY <2>1, <1>t DEF TypeOK
  <2>9. SpentInv'  BY <2>1, <2>7, <2>8 DEF SpentInv, AtStep
  <2>. QED BY <1>t, <2>6, <2>9 DEF AccountInv
<1>12. CASE Store
  <2>1. depth \in Levels /\ depth > 0  BY <1>12, <1>f DEF AtStep, Store
  <2>2. LoopInv'
    BY <1>12, <1>i, <1>f, <1>t, <1>c, <2>1 DEF Store, Goto, LoopInv, AtStep, TypeOK
  <2>3. SpentInv'
    BY <1>12, <1>b, <1>i, <1>f, <1>t, <1>c, <2>1 DEF Store, Goto, SpentInv, Spent, AtStep, Finished, TypeOK
  <2>. QED BY <1>t, <2>2, <2>3 DEF AccountInv
<1>13. CASE Return
  <2>1. depth \in Levels /\ depth > 0  BY <1>13, <1>f DEF AtStep, Return
  <2>2. CASE last[depth]
    <3>1. LoopInv'
      BY <1>13, <1>i, <1>f, <1>t, <2>1, <2>2 DEF Return, Pop, Goto, LoopInv, AtStep, TypeOK
    <3>2. SpentInv'
      BY <1>13, <1>b, <1>i, <1>f, <1>t, <2>1, <2>2 DEF Return, Pop, Goto, SpentInv, Spent, AtStep, Finished, TypeOK, LoopInv
    <3>. QED BY <1>t, <3>1, <3>2 DEF AccountInv
  <2>3. CASE ~last[depth]
    <3>1. LoopInv'
      BY <1>13, <1>i, <1>f, <1>t, <1>c, <2>1, <2>3 DEF Return, Goto, LoopInv, AtStep, TypeOK
    <3>2. SpentInv'
      BY <1>13, <1>b, <1>i, <1>f, <1>t, <1>c, <2>1, <2>3 DEF Return, Goto, SpentInv, Spent, AtStep, Finished, TypeOK
    <3>. QED BY <1>t, <3>1, <3>2 DEF AccountInv
  <2>. QED BY <2>2, <2>3
<1>. QED BY <1>1, <1>2, <1>3, <1>4, <1>6, <1>7, <1>8, <1>9, <1>10, <1>11, <1>12, <1>13
         DEF RunloopNext

(* As long as counter did not wrap around and no overloaded &{} was called, *)
(* the weights of all samples never add up to more than the ticks, for     *)
(* every nesting depth, whatever dies, stops or fails to open.             *)
THEOREM NoTickTwice == RunloopSpec => []AttributedOnce
<1>1. RunloopInit => AccountInv  BY AccountInit
<1>2. AccountInv /\ [RunloopNext]_runloopVars => AccountInv'  BY AccountNext
<1>3. AccountInv => AttributedOnce
  <2>. SUFFICES ASSUME AccountInv, Accountable PROVE Spent <= ticks
    BY DEF AttributedOnce
  <2>0. LoopInv /\ SpentInv  BY DEF AccountInv
  <2>1. Spent \in Nat /\ ticks \in Nat /\ myPred \in Nat
    BY SpentNat, LevelFacts DEF AccountInv
  <2>2. depth > 0 => pred[1] \in Nat /\ pred[1] <= ticks
    BY <2>0, LevelFacts DEF AccountInv, LoopInv
  <2>3. depth \in Nat  BY LevelFacts DEF AccountInv
  <2>. QED BY <2>0, <2>1, <2>2, <2>3 DEF SpentInv, LoopInv
<1>. QED BY <1>1, <1>2, <1>3, PTL DEF RunloopSpec

-----------------------------------------------------------------------------
(* No tick is lost where nothing nests, dies or fails.                     *)

LEMMA ChargeTotal ==
    ASSUME TypeOK, NEW a \in Accounts, NEW n \in Nat, Charge(a, n)
    PROVE  Total' = Total + n
<1>1. charged["return"] \in Nat /\ "return" \in Accounts  BY DEF TypeOK, Accounts
<1>2. charged'["return"] = IF a = "return" THEN charged["return"] + n ELSE charged["return"]
  BY <1>1 DEF Charge, TypeOK
<1>3. Spent' = IF a = "return" THEN Spent ELSE Spent + n  BY ChargeSpent
<1>4. Spent \in Nat  BY SpentNat
<1>. QED BY <1>1, <1>2, <1>3, <1>4 DEF Total

LEMMA FlatInit == RunloopInit => FlatInv
<1>. SUFFICES ASSUME RunloopInit PROVE FlatInv
  OBVIOUS
<1>1. AccountInv  BY AccountInit
<1>2. Total = 0
  <2>1. {"sampled", "idle", "store", "return"} \subseteq Accounts  BY DEF Accounts
  <2>. QED BY <2>1 DEF RunloopInit, Total, Spent
<1>. QED BY <1>1, <1>2 DEF RunloopInit, FlatInv, LastRead, AtStep

LEMMA FlatNext == FlatInv /\ [RunloopNext]_runloopVars => FlatInv'
<1>. SUFFICES ASSUME FlatInv, [RunloopNext]_runloopVars PROVE FlatInv'
  OBVIOUS
<1>. USE DepthAssumption, TicksAssumption
<1>a. AccountInv /\ AccountInv'  BY AccountNext DEF FlatInv
<1>t. TypeOK /\ TypeOK'  BY <1>a DEF AccountInv
<1>. SUFFICES ASSUME Flat' PROVE FlatInv'
  BY <1>a DEF FlatInv
<1>h. Flat /\ happened' = {}  BY <1>t, Monotone DEF Flat
<1>l. LoopInv  BY <1>a, <1>h DEF AccountInv, Accountable, Flat
<1>c. Counter = ticks  BY <1>t, <1>h, CounterExact DEF TypeOK, Flat
<1>f. /\ depth \in {0, 1} /\ ticks \in Nat /\ myPred \in Nat
      /\ pred[1] \in Nat /\ arg[1] \in Nat /\ 1 \in Levels
  BY <1>t, <1>h, LevelFacts DEF FlatInv, Levels
<1>n. Total \in Nat
  <2>1. charged["return"] \in Nat  BY <1>t DEF TypeOK, Accounts
  <2>. QED BY <2>1, <1>t, SpentNat DEF Total
<1>i. /\ depth = 1 => valid
      /\ Total = LastRead /\ myPred <= LastRead
      /\ AtStep("resolve") => arg[1] = pred[1]
      /\ myPred <= ticks /\ pred[1] <= ticks
  BY <1>f, <1>h, <1>l DEF FlatInv, LoopInv
<1>k. UNCHANGED charged => Total' = Total  BY DEF Total, Spent
<1>. SUFFICES /\ depth' \in {0, 1} /\ (depth' = 1 => valid')
              /\ Total' = LastRead' /\ myPred' <= LastRead'
              /\ AtStep("resolve")' => arg'[1] = pred'[1]
  BY <1>a DEF FlatInv
<1>1. CASE UNCHANGED runloopVars
  BY <1>1, <1>i, <1>f, <1>k DEF runloopVars, LastRead, AtStep
<1>2. CASE Tick
  <2>1. UNCHANGED <<depth, pc, pred, arg, last, myPred, valid>> /\ ticks' = ticks + 1
    BY <1>2 DEF Tick
  <2>2. CASE depth = 0 \/ AtStep("store") \/ AtStep("return")
    <3>1. {"idle", "store", "return"} \subseteq Accounts  BY DEF Accounts
    <3>2. \E a \in Accounts : Charge(a, 1)
      BY <1>2, <1>f, <2>2, <3>1 DEF Tick, AtStep, Finished
    <3>3. Total' = Total + 1  BY <3>2, <1>t, ChargeTotal
    <3>. QED BY <2>1, <2>2, <3>3, <1>i, <1>f DEF LastRead, AtStep
  <2>3. CASE ~(depth = 0 \/ AtStep("store") \/ AtStep("return"))
    <3>1. UNCHANGED charged  BY <1>2, <1>f, <2>3 DEF Tick, AtStep, Finished
    <3>. QED BY <2>1, <2>3, <3>1, <1>k, <1>i, <1>f DEF LastRead, AtStep
  <2>. QED BY <2>2, <2>3
<1>3. CASE Start
  <2>1. /\ depth = 0 /\ depth' = 1 /\ valid' = TRUE /\ pred'[1] = ticks
        /\ pc'[1] = "ops" /\ UNCHANGED <<ticks, myPred, charged>>
    <3>1. pc[1] = "ops" /\ depth = 0  BY <1>3, <1>l, <1>f DEF Start, LoopInv
    <3>2. EnterLoop(1, {}) /\ UNCHANGED <<ticks, pc, myPred, charged>>  BY <1>3 DEF Start
    <3>3. valid' = TRUE  BY <3>2, <1>h DEF EnterLoop
    <3>4. depth' = 1 /\ pred'[1] = ticks  BY <3>2, <1>c, <1>f, <1>t DEF EnterLoop, TypeOK
    <3>. QED BY <3>1, <3>2, <3>3, <3>4
  <2>. QED BY <2>1, <1>k, <1>i, <1>f DEF LastRead, AtStep
<1>4. CASE Nest \/ Stop \/ Die
  BY <1>4, <1>h DEF Nest, Stop, Die, EnterLoop
<1>5. CASE LoopCheck
  <2>1. /\ depth = 1 /\ pc[1] = "ops" /\ pc'[1] = "adjust"
        /\ UNCHANGED <<depth, pred, arg, valid, ticks, myPred, charged>>
    BY <1>5, <1>f, <1>t DEF LoopCheck, Collect, Goto, AtStep, TypeOK
  <2>. QED BY <2>1, <1>k, <1>i, <1>f DEF LastRead, AtStep
<1>6. CASE LoopEnd
  <2>1. depth = 1 /\ pc[1] = "ops" /\ UNCHANGED <<ticks, myPred, valid, charged>>
    BY <1>6, <1>f DEF LoopEnd, AtStep
  <2>2. CASE Counter # pred[1]
    <3>1. pc'[1] = "adjust" /\ UNCHANGED <<depth, pred, arg>>
      BY <1>6, <2>1, <2>2, <1>f, <1>t DEF LoopEnd, EndLoop, Collect, Goto, TypeOK
    <3>. QED BY <2>1, <3>1, <1>k, <1>i, <1>f DEF LastRead, AtStep
  <2>3. CASE Counter = pred[1]
    <3>1. depth' = 0  BY <1>6, <2>1, <2>3 DEF LoopEnd, EndLoop, Pop
    <3>2. LastRead = ticks  BY <2>1, <2>3, <1>c DEF LastRead, AtStep
    <3>3. LastRead' = ticks /\ ~AtStep("resolve")'  BY <2>1, <3>1 DEF LastRead, AtStep
    <3>. QED BY <2>1, <3>1, <3>2, <3>3, <1>k, <1>i, <1>f
  <2>. QED BY <2>2, <2>3
<1>7. CASE Adjust
  <2>1. depth = 1 /\ pc[1] = "adjust" /\ valid /\ myPred <= pred[1]
    BY <1>7, <1>f, <1>i DEF Adjust, AtStep, LastRead
  <2>2. ~(myPred > pred[1])  BY <2>1, <1>f
  <2>3. /\ pc'[1] = "resolve" /\ arg'[1] = pred[1]
        /\ UNCHANGED <<ticks, depth, pred, last, myPred, valid, charged>>
    BY <1>7, <2>1, <2>2, <1>f, <1>t DEF Adjust, Goto, TypeOK
  <2>. QED BY <2>1, <2>3, <1>k, <1>i, <1>f DEF LastRead, AtStep
<1>8. CASE Emit
  <2>1. /\ depth = 1 /\ pc[1] = "resolve" /\ pc'[1] = "store"
        /\ UNCHANGED <<ticks, depth, pred, arg, last, myPred, valid>>
    BY <1>8, <1>f, <1>t DEF Emit, AtStep, Goto, TypeOK
  <2>2. arg[1] = pred[1] /\ arg[1] <= ticks  BY <2>1, <1>i DEF AtStep
  <2>3. Since(arg[1]) = ticks - arg[1]
    BY <2>2, <1>f, <1>t, <1>h, SinceExact DEF TypeOK, Flat
  <2>4. Total' = Total + (ticks - arg[1])
    <3>1. "sampled" \in Accounts  BY DEF Accounts
    <3>2. ticks - arg[1] \in Nat  BY <2>2, <1>f
    <3>3. Charge("sampled", ticks - arg[1])  BY <1>8, <2>1, <2>3 DEF Emit
    <3>. QED BY <1>t, <3>1, <3>2, <3>3, ChargeTotal
  <2>5. Total = pred[1]  BY <1>i, <2>1 DEF LastRead, AtStep
  <2>. QED BY <2>1, <2>2, <2>4, <2>5, <1>i, <1>f DEF LastRead, AtStep
<1>9. CASE Store
  <2>1. /\ depth = 1 /\ pc[1] = "store" /\ pc'[1] = "return" /\ myPred' = ticks
        /\ UNCHANGED <<ticks, depth, pred, arg, last, valid, charged>>
    BY <1>9, <1>f, <1>t, <1>c DEF Store, AtStep, Goto, TypeOK
  <2>. QED BY <2>1, <1>k, <1>i, <1>f DEF LastRead, AtStep
<1>10. CASE Return
  <2>1. depth = 1 /\ pc[1] = "return" /\ UNCHANGED <<ticks, myPred, valid, charged>>
    BY <1>10, <1>f DEF Return, AtStep
  <2>2. CASE last[1]
    <3>1. depth' = 0  BY <1>10, <2>1, <2>2 DEF Return, Pop
    <3>. QED BY <2>1, <3>1, <1>k, <1>i, <1>f DEF LastRead, AtStep
  <2>3. CASE ~last[1]
    <3>1. depth' = 1 /\ pc'[1] = "ops" /\ pred'[1] = ticks
      BY <1>10, <2>1, <2>3, <1>c, <1>f, <1>t DEF Return, Goto, TypeOK
    <3>. QED BY <2>1, <3>1, <1>k, <1>i, <1>f DEF LastRead, AtStep
  <2>. QED BY <2>2, <2>3
<1>. QED BY <1>1, <1>2, <1>3, <1>4, <1>5, <1>6, <1>7, <1>8, <1>9, <1>10 DEF RunloopNext

(* With one run loop at a time and nothing that failed so far, every tick  *)
(* up to the last read of counter is in a weight or passed between two of  *)
(* its reads.                                                              *)
THEOREM NoTickLost == RunloopSpec => []AllAttributed
<1>1. RunloopInit => FlatInv  BY FlatInit
<1>2. FlatInv /\ [RunloopNext]_runloopVars => FlatInv'  BY FlatNext
<1>3. FlatInv => AllAttributed
  BY DEF FlatInv, AllAttributed, LastRead, AtStep
<1>. QED BY <1>1, <1>2, <1>3, PTL DEF RunloopSpec

-----------------------------------------------------------------------------
(* The frames of samples                                                   *)


Pairs == Nat \X Nat

LEMMA Order ==
    /\ \A p \in Pairs : ~Inside(p, p)
    /\ \A p, q \in Pairs : Inside(p, q) \/ Inside(q, p) \/ p = q
    /\ \A p, q \in Pairs : ~(Inside(p, q) /\ Inside(q, p))
    /\ \A p, q, r \in Pairs : Inside(p, q) /\ Inside(q, r) => Inside(p, r)
<1>1. \A p \in Pairs : p[1] \in Nat /\ p[2] \in Nat /\ p = <<p[1], p[2]>>
    BY DEF Pairs
<1>2. \A p, q \in Pairs : Inside(p, q) \/ Inside(q, p) \/ p = q
    <2> TAKE p, q \in Pairs
    <2>1. p[1] \in Nat /\ p[2] \in Nat /\ q[1] \in Nat /\ q[2] \in Nat
        BY <1>1
    <2>2. p[1] = q[1] /\ p[2] = q[2] => p = q
        BY <1>1, Zenon
    <2> QED
        BY <2>1, <2>2 DEF Inside
<1> QED
    BY <1>1, <1>2 DEF Inside

LEMMA LeastExists ==
    ASSUME NEW T \in SUBSET Nat, T # {}
    PROVE  \E m \in T : \A i \in T : m <= i
<1>1. PICK m \in T : \A i \in T : <<i, m>> \notin OpToRel(<, Nat)
    BY NatLessThanWellFounded, WFMin, Zenon
<1>2. \A i \in T : ~(i < m)
    BY <1>1 DEF OpToRel
<1> QED
    BY <1>2

LEMMA HighestFacts ==
    ASSUME NEW n \in Nat, NEW S \in SUBSET (1 .. n)
    PROVE  /\ Highest(S) \in 0 .. n
           /\ Highest(S) # 0 => Highest(S) \in S
           /\ \A j \in S : j <= Highest(S)
<1>1. CASE S = {}
    BY <1>1 DEF Highest
<1>2. CASE S # {}
    <2> DEFINE T == {n - i : i \in S}
    <2>1. T \in SUBSET Nat /\ T # {}
        BY <1>2
    <2>2. PICK m \in T : \A i \in T : m <= i
        BY <2>1, LeastExists
    <2>3. PICK i \in S : m = n - i
        BY <2>2
    <2>4. \A j \in S : j <= i
        <3> TAKE j \in S
        <3>1. n - j \in T
            OBVIOUS
        <3>2. m <= n - j
            BY <2>2, <3>1
        <3> QED
            BY <2>3, <3>2
    <2>5. Highest(S) = CHOOSE k \in S : \A j \in S : j <= k
        BY <1>2 DEF Highest
    <2>6. Highest(S) \in S /\ \A j \in S : j <= Highest(S)
        BY <2>4, <2>5
    <2>7. Highest(S) \in 1 .. n
        BY <2>6
    <2> QED
        BY <2>6, <2>7
<1> QED
    BY <1>1, <1>2

-----------------------------------------------------------------------------
(* The context stacks                                                      *)

Stacks == Seq(Seq(ContextTypes)) \ {<<>>}

(* The context at p after a step.                                          *)
Now(p) == stacks'[p[1]][p[2]]

LEMMA PositionFacts ==
    ASSUME NEW st \in Stacks
    PROVE  LET P == UNION {{i} \X DOMAIN st[i] : i \in DOMAIN st} IN
           /\ P \subseteq Pairs
           /\ \A i, j : <<i, j>> \in P <=> (i \in 1 .. Len(st) /\ j \in 1 .. Len(st[i]))
           /\ \A p \in P : /\ p = <<p[1], p[2]>> /\ st[p[1]][p[2]] \in ContextTypes
                           /\ p[1] \in 1 .. Len(st) /\ p[2] \in 1 .. Len(st[p[1]])
           /\ Len(st) \in Nat \ {0}
           /\ \A i \in 1 .. Len(st) : st[i] \in Seq(ContextTypes) /\ Len(st[i]) \in Nat
<1> DEFINE P == UNION {{i} \X DOMAIN st[i] : i \in DOMAIN st}
<1>1. /\ DOMAIN st = 1 .. Len(st) /\ Len(st) \in Nat \ {0}
      /\ \A i \in 1 .. Len(st) : /\ st[i] \in Seq(ContextTypes) /\ Len(st[i]) \in Nat
                                 /\ DOMAIN st[i] = 1 .. Len(st[i])
    BY DEF Stacks
<1>2. \A i, j : <<i, j>> \in P <=> (i \in 1 .. Len(st) /\ j \in 1 .. Len(st[i]))
    BY <1>1
<1>3. \A p \in P : /\ p = <<p[1], p[2]>>
                   /\ p[1] \in 1 .. Len(st) /\ p[2] \in 1 .. Len(st[p[1]])
    BY <1>1
<1>4. \A p \in P : st[p[1]][p[2]] \in ContextTypes
    BY <1>1, <1>3
<1>5. P \subseteq Pairs
    BY <1>1, <1>3 DEF Pairs
<1> QED
    BY <1>1, <1>2, <1>3, <1>4, <1>5

LEMMA PositionsAre ==
    ASSUME stacks \in Stacks
    PROVE  /\ Positions \subseteq Pairs
           /\ \A i, j : <<i, j>> \in Positions <=> (i \in DOMAIN stacks /\ j \in 1 .. Len(stacks[i]))
           /\ \A p \in Positions : /\ p = <<p[1], p[2]>> /\ Cx(p) \in ContextTypes
                                   /\ p[1] \in DOMAIN stacks /\ p[2] \in 1 .. Len(stacks[p[1]])
           /\ DOMAIN stacks = 1 .. Len(stacks) /\ Len(stacks) \in Nat \ {0}
           /\ \A i \in DOMAIN stacks : stacks[i] \in Seq(ContextTypes) /\ Len(stacks[i]) \in Nat
           /\ top \in Seq(ContextTypes) /\ Len(top) \in Nat
<1>1. DOMAIN stacks = 1 .. Len(stacks)
    BY DEF Stacks
<1> QED
    BY <1>1, PositionFacts DEF Positions, Cx, top

(* A new innermost context.                                                *)
Pushed(p, cx) ==
    /\ p \in Pairs /\ p \notin Positions /\ p[1] = Len(stacks')
    /\ Positions' = Positions \cup {p}
    /\ Now(p) = cx
    /\ \A q \in Positions : Now(q) = Cx(q) /\ Inside(p, q)

(* The innermost context is gone.                                          *)
Popped(p) ==
    /\ p \in Positions
    /\ Positions' = Positions \ {p}
    /\ \A q \in Positions' : Now(q) = Cx(q) /\ Inside(p, q)

(* The context at p is at another statement.                               *)
Moved(p, line) ==
    /\ p \in Positions
    /\ Positions' = Positions
    /\ \A q \in Positions : Now(q) = IF q = p THEN [Cx(p) EXCEPT !.at = line] ELSE Cx(q)

LEMMA PushStep ==
    ASSUME stacks \in Stacks, NEW cx \in ContextTypes, Push(cx)
    PROVE  /\ Pushed(<<Len(stacks), Len(top) + 1>>, cx)
           /\ stacks' \in Stacks /\ Len(stacks') = Len(stacks)
           /\ \A i \in DOMAIN stacks' : i < Len(stacks') => stacks'[i] = stacks[i]
           /\ stacks'[Len(stacks)] # <<>>
           /\ Len(top) > 0 => stacks'[Len(stacks)][1] = top[1]
<1> DEFINE n == Len(stacks)
           p == <<n, Len(top) + 1>>
<1>1. n \in Nat /\ n \in 1 .. n /\ DOMAIN stacks = 1 .. n /\ top \in Seq(ContextTypes) /\ Len(top) \in Nat
    BY PositionsAre
<1>2. stacks' = [stacks EXCEPT ![n] = Append(top, cx)]
    BY DEF Push, top
<1>3. /\ Append(top, cx) \in Seq(ContextTypes) /\ Len(Append(top, cx)) = Len(top) + 1
      /\ Append(top, cx)[Len(top) + 1] = cx
      /\ \A j \in 1 .. Len(top) : Append(top, cx)[j] = top[j]
    BY <1>1
<1>4. /\ stacks' \in Stacks /\ Len(stacks') = n /\ stacks'[n] = Append(top, cx)
      /\ \A i \in 1 .. n : i # n => stacks'[i] = stacks[i]
    <2>1. stacks \in Seq(Seq(ContextTypes))
        BY DEF Stacks
    <2>2. stacks' \in Seq(Seq(ContextTypes)) /\ Len(stacks') = n
        BY <1>1, <1>2, <1>3, <2>1
    <2>3. stacks'[n] = Append(top, cx) /\ \A i \in 1 .. n : i # n => stacks'[i] = stacks[i]
        BY <1>1, <1>2
    <2>4. stacks' # <<>>
        BY <1>1, <2>2
    <2> QED
        BY <2>2, <2>3, <2>4 DEF Stacks
<1>5. \A i, j : <<i, j>> \in Positions' <=> (i \in 1 .. n /\ j \in 1 .. Len(stacks'[i]))
    BY <1>4, PositionFacts DEF Positions
<1>6. \A q \in Positions' : q \in Pairs /\ q = <<q[1], q[2]>>
    BY <1>4, PositionFacts DEF Positions
<1>7. p \in Positions' /\ p \in Pairs /\ p \notin Positions
    BY <1>1, <1>3, <1>4, <1>5, PositionsAre DEF top, Pairs
<1>8. ASSUME NEW q \in Positions
      PROVE  q \in Positions' /\ Now(q) = Cx(q) /\ Inside(p, q)
    <2>1. q = <<q[1], q[2]>> /\ q[1] \in 1 .. n /\ q[2] \in 1 .. Len(stacks[q[1]])
        BY <1>1, PositionsAre
    <2>2. CASE q[1] = n
        <3>1. q[2] \in 1 .. Len(top) /\ stacks[q[1]] = top
            BY <2>1, <2>2 DEF top
        <3>2. q[2] \in 1 .. Len(stacks'[n]) /\ stacks'[q[1]][q[2]] = stacks[q[1]][q[2]]
            <4>1. stacks'[n][q[2]] = top[q[2]]
                BY <1>3, <1>4, <3>1
            <4>2. Len(stacks'[n]) = Len(top) + 1
                BY <1>3, <1>4
            <4> QED
                BY <1>1, <2>2, <3>1, <4>1, <4>2
        <3>3. q \in Positions'
            BY <1>1, <1>5, <2>1, <2>2, <3>2
        <3> QED
            BY <1>1, <2>2, <3>1, <3>2, <3>3 DEF Now, Cx, Inside
    <2>3. CASE q[1] # n
        <3>1. stacks'[q[1]] = stacks[q[1]]
            BY <1>4, <2>1, <2>3
        <3>2. q \in Positions'
            BY <1>5, <2>1, <3>1
        <3> QED
            BY <1>1, <2>1, <2>3, <3>1, <3>2 DEF Now, Cx, Inside
    <2> QED
        BY <2>2, <2>3
<1>9. ASSUME NEW q \in Positions'
      PROVE  q \in Positions \cup {p}
    <2>1. q = <<q[1], q[2]>> /\ q[1] \in 1 .. n /\ q[2] \in 1 .. Len(stacks'[q[1]])
        BY <1>5, <1>6
    <2>2. CASE q[1] = n /\ q[2] = Len(top) + 1
        BY <2>1, <2>2
    <2>3. CASE q[1] = n /\ q[2] # Len(top) + 1
        <3>1. q[2] \in 1 .. Len(stacks[q[1]])
            BY <1>1, <1>3, <1>4, <2>1, <2>3 DEF top
        <3> QED
            BY <1>1, <2>1, <3>1, PositionsAre
    <2>4. CASE q[1] # n
        <3>1. stacks'[q[1]] = stacks[q[1]]
            BY <1>4, <2>1, <2>4
        <3> QED
            BY <1>1, <2>1, <3>1, PositionsAre
    <2> QED
        BY <2>2, <2>3, <2>4
<1>10. Now(p) = cx
    BY <1>3, <1>4 DEF Now
<1>11. Positions' = Positions \cup {p}
    BY <1>7, <1>8, <1>9
<1> HIDE DEF p
<1>12. p[1] = n
    BY DEF p
<1>13. Pushed(p, cx)
    BY <1>4, <1>7, <1>8, <1>10, <1>11, <1>12 DEF Pushed
<1> QED
    <2>1. \A i \in DOMAIN stacks' : i < Len(stacks') => stacks'[i] = stacks[i]
        <3>1. DOMAIN stacks' = 1 .. n
            BY <1>4 DEF Stacks
        <3>2. ASSUME NEW i \in 1 .. n, i < n
              PROVE  stacks'[i] = stacks[i]
            <4>1. n \in Nat
                BY <1>1
            <4>2. i # n
                BY <3>2, <4>1
            <4> QED
                BY <1>4, <4>2
        <3> QED
            BY <1>4, <3>1, <3>2
    <2>2. stacks'[n] # <<>>
        <3>1. Append(top, cx) # <<>>
            BY <1>1, <1>3
        <3> QED
            BY <1>4, <3>1, Zenon
    <2>3. Len(top) > 0 => stacks'[n][1] = top[1]
        <3>1. Len(top) > 0 => 1 \in 1 .. Len(top)
            BY <1>1
        <3> QED
            BY <1>3, <1>4, <3>1
    <2> QED
        BY <1>4, <1>13, <2>1, <2>2, <2>3 DEF p

LEMMA CallBackStep ==
    ASSUME stacks \in Stacks, NEW cx \in ContextTypes, stacks' = Append(stacks, <<cx>>)
    PROVE  /\ Pushed(<<Len(stacks) + 1, 1>>, cx)
           /\ stacks' \in Stacks /\ Len(stacks') = Len(stacks) + 1
           /\ \A i \in DOMAIN stacks' : i < Len(stacks') => stacks'[i] = stacks[i]
           /\ stacks'[Len(stacks')] = <<cx>>
<1> DEFINE n == Len(stacks) + 1
           p == <<n, 1>>
<1>1. /\ DOMAIN stacks = 1 .. Len(stacks) /\ Len(stacks) \in Nat \ {0} /\ n \in 1 .. n
      /\ stacks \in Seq(Seq(ContextTypes))
    BY PositionsAre DEF Stacks
<1>2. /\ <<cx>> \in Seq(ContextTypes) /\ Len(<<cx>>) = 1 /\ <<cx>>[1] = cx
    OBVIOUS
<1>3. /\ stacks' \in Seq(Seq(ContextTypes)) /\ Len(stacks') = n /\ stacks'[n] = <<cx>>
      /\ \A i \in 1 .. Len(stacks) : stacks'[i] = stacks[i]
    BY <1>1, <1>2
<1>4. stacks' \in Stacks
    <2>1. stacks' # <<>>
        BY <1>1, <1>3
    <2> QED
        BY <1>3, <2>1 DEF Stacks
<1>5. \A i, j : <<i, j>> \in Positions' <=> (i \in 1 .. n /\ j \in 1 .. Len(stacks'[i]))
    BY <1>3, <1>4, PositionFacts DEF Positions
<1>6. \A q \in Positions' : q \in Pairs /\ q = <<q[1], q[2]>>
    BY <1>4, PositionFacts DEF Positions
<1>7. p \in Positions' /\ p \in Pairs /\ p \notin Positions
    <2>1. 1 \in 1 .. Len(stacks'[n])
        BY <1>2, <1>3
    <2>2. p \in Positions'
        BY <1>1, <1>5, <2>1
    <2>3. n \notin DOMAIN stacks
        BY <1>1
    <2> QED
        BY <1>6, <2>2, <2>3, PositionsAre
<1>8. ASSUME NEW q \in Positions
      PROVE  q \in Positions' /\ Now(q) = Cx(q) /\ Inside(p, q)
    <2>1. q = <<q[1], q[2]>> /\ q[1] \in 1 .. Len(stacks) /\ q[2] \in 1 .. Len(stacks[q[1]])
        BY <1>1, PositionsAre
    <2>2. stacks'[q[1]] = stacks[q[1]] /\ q[1] \in 1 .. n /\ q[1] < n
        BY <1>1, <1>3, <2>1
    <2> QED
        BY <1>5, <2>1, <2>2 DEF Now, Cx, Inside
<1>9. ASSUME NEW q \in Positions'
      PROVE  q \in Positions \cup {p}
    <2>1. q = <<q[1], q[2]>> /\ q[1] \in 1 .. n /\ q[2] \in 1 .. Len(stacks'[q[1]])
        BY <1>5, <1>6
    <2>2. CASE q[1] = n
        <3>1. q[2] = 1
            BY <1>2, <1>3, <2>1, <2>2
        <3> QED
            BY <2>1, <2>2, <3>1
    <2>3. CASE q[1] # n
        <3>1. q[1] \in 1 .. Len(stacks)
            BY <1>1, <2>1, <2>3
        <3>2. stacks'[q[1]] = stacks[q[1]]
            BY <1>3, <3>1
        <3> QED
            BY <1>1, <2>1, <3>1, <3>2, PositionsAre
    <2> QED
        BY <2>2, <2>3
<1>10. Now(p) = cx
    BY <1>2, <1>3 DEF Now
<1>11. Positions' = Positions \cup {p}
    BY <1>7, <1>8, <1>9
<1>12. p[1] = n
    OBVIOUS
<1> HIDE DEF p
<1>13. Pushed(p, cx)
    BY <1>3, <1>7, <1>8, <1>10, <1>11, <1>12 DEF Pushed
<1>14. \A i \in DOMAIN stacks' : i < Len(stacks') => stacks'[i] = stacks[i]
    <2>1. DOMAIN stacks' = 1 .. n
        BY <1>3
    <2> QED
        BY <1>1, <1>3, <2>1
<1> QED
    BY <1>3, <1>4, <1>13, <1>14 DEF p

(* What Leave and NextState do to the stacks.                              *)
PopTop ==
    stacks' = IF Len(top) = 1 /\ Len(stacks) > 1
              THEN SubSeq(stacks, 1, Len(stacks) - 1)
              ELSE [stacks EXCEPT ![Len(stacks)] = SubSeq(@, 1, Len(@) - 1)]
SetAt(i, line) == stacks' = [stacks EXCEPT ![Len(stacks)][i].at = line]

LEMMA PopStep ==
    ASSUME stacks \in Stacks, Len(top) > 0, PopTop
    PROVE  /\ Popped(<<Len(stacks), Len(top)>>)
           /\ stacks' \in Stacks
           /\ Len(top) > 1 => Len(stacks') = Len(stacks)
           /\ \A i \in DOMAIN stacks' : i > 1 =>
                 /\ i \in DOMAIN stacks
                 /\ Len(stacks[i]) > 0 => stacks'[i] # <<>> /\ stacks'[i][1] = stacks[i][1]
<1> DEFINE n == Len(stacks)
           k == Len(top)
           p == <<n, k>>
<1>0. stacks \in Seq(Seq(ContextTypes)) /\ top \in Seq(ContextTypes)
    BY PositionsAre DEF Stacks
<1>1. /\ DOMAIN stacks = 1 .. n /\ n \in Nat /\ n > 0 /\ n \in 1 .. n
      /\ k \in Nat /\ k > 0 /\ k \in 1 .. k
    BY PositionsAre
<1>2. p \in Positions
    BY <1>1, PositionsAre DEF top
<1>3. CASE k = 1 /\ n > 1
    <2>1. stacks' = SubSeq(stacks, 1, n - 1)
        BY <1>3 DEF PopTop
    <2>2. /\ stacks' \in Seq(Seq(ContextTypes)) /\ Len(stacks') = n - 1
          /\ \A i \in 1 .. n - 1 : stacks'[i] = stacks[i]
        BY <1>0, <1>1, <1>3, <2>1
    <2>3. stacks' \in Stacks
        <3>1. stacks' # <<>>
            BY <1>1, <1>3, <2>2
        <3> QED
            BY <2>2, <3>1 DEF Stacks
    <2>4. \A i, j : <<i, j>> \in Positions' <=> (i \in 1 .. n - 1 /\ j \in 1 .. Len(stacks'[i]))
        BY <2>2, <2>3, PositionFacts DEF Positions
    <2>5. \A q \in Positions' : q \in Pairs /\ q = <<q[1], q[2]>>
        BY <2>3, PositionFacts DEF Positions
    <2>6. ASSUME NEW q \in Positions'
          PROVE  q \in Positions \ {p} /\ Now(q) = Cx(q) /\ Inside(p, q)
        <3>1. q = <<q[1], q[2]>> /\ q[1] \in 1 .. n - 1 /\ q[2] \in 1 .. Len(stacks'[q[1]])
            BY <2>4, <2>5
        <3>2. stacks'[q[1]] = stacks[q[1]] /\ q[1] \in 1 .. n /\ q[1] < n
            BY <1>1, <2>2, <3>1
        <3> QED
            BY <1>1, <3>1, <3>2, PositionsAre DEF Now, Cx, Inside
    <2>7. ASSUME NEW q \in Positions, q # p
          PROVE  q \in Positions'
        <3>1. q = <<q[1], q[2]>> /\ q[1] \in 1 .. n /\ q[2] \in 1 .. Len(stacks[q[1]])
            BY <1>1, PositionsAre
        <3>2. q[1] # n
            <4> SUFFICES ASSUME q[1] = n
                         PROVE  FALSE
                OBVIOUS
            <4>1. q[2] = 1
                BY <1>3, <3>1 DEF top
            <4> QED
                BY <1>3, <2>7, <3>1, <4>1
        <3>3. q[1] \in 1 .. n - 1 /\ stacks'[q[1]] = stacks[q[1]]
            BY <1>1, <2>2, <3>1, <3>2
        <3> QED
            BY <2>4, <3>1, <3>3
    <2>8. Positions' = Positions \ {p}
        BY <2>6, <2>7
    <2> HIDE DEF p
    <2>9. Popped(p)
        BY <1>2, <2>6, <2>8 DEF Popped
    <2>10. ASSUME NEW i \in DOMAIN stacks', i > 1
           PROVE  /\ i \in DOMAIN stacks
                  /\ Len(stacks[i]) > 0 => stacks'[i] # <<>> /\ stacks'[i][1] = stacks[i][1]
        <3>1. i \in 1 .. n - 1
            BY <2>2, <2>10
        <3>2. i \in 1 .. n
            BY <1>1, <3>1
        <3>3. stacks'[i] = stacks[i]
            BY <2>2, <3>1
        <3>4. Len(stacks[i]) > 0 => stacks[i] # <<>>
            OBVIOUS
        <3> QED
            BY <1>1, <3>2, <3>3, <3>4
    <2> QED
        BY <1>3, <2>3, <2>9, <2>10 DEF p
<1>4. CASE ~(k = 1 /\ n > 1)
    <2> DEFINE less == SubSeq(top, 1, k - 1)
    <2>1. stacks' = [stacks EXCEPT ![n] = less]
        BY <1>4 DEF top, PopTop
    <2>2. /\ less \in Seq(ContextTypes) /\ Len(less) = k - 1
          /\ \A j \in 1 .. k - 1 : less[j] = top[j]
        <3>1. \A j \in 1 .. k - 1 : top[j] \in ContextTypes
            BY <1>0, <1>1
        <3>2. /\ SubSeq(top, 1, k - 1) \in Seq(ContextTypes)
              /\ Len(SubSeq(top, 1, k - 1)) = IF 1 <= k - 1 THEN (k - 1) - 1 + 1 ELSE 0
              /\ \A j \in 1 .. (k - 1) - 1 + 1 : SubSeq(top, 1, k - 1)[j] = top[1 + j - 1]
            BY <1>1, <3>1, SubSeqProperties
        <3>3. \A j \in 1 .. k - 1 : j \in 1 .. (k - 1) - 1 + 1 /\ 1 + j - 1 = j
            BY <1>1
        <3>4. ASSUME NEW m \in Nat, m > 0
              PROVE  (IF 1 <= m - 1 THEN (m - 1) - 1 + 1 ELSE 0) = m - 1
            BY <3>4
        <3>5. \A j \in 1 .. k - 1 : SubSeq(top, 1, k - 1)[j] = top[j]
            BY <3>2, <3>3
        <3>6. Len(SubSeq(top, 1, k - 1)) = k - 1
            BY <1>1, <3>2, <3>4
        <3> QED
            BY <3>2, <3>5, <3>6
    <2>3. stacks' \in Seq(Seq(ContextTypes)) /\ Len(stacks') = n
        BY <1>0, <1>1, <2>1, <2>2
    <2>4. stacks'[n] = less /\ \A i \in 1 .. n : i # n => stacks'[i] = stacks[i]
        BY <1>1, <2>1
    <2> HIDE DEF less
    <2>5. stacks' \in Stacks
        <3>1. stacks' # <<>>
            BY <1>1, <2>3
        <3> QED
            BY <2>3, <3>1 DEF Stacks
    <2>6. \A i, j : <<i, j>> \in Positions' <=> (i \in 1 .. n /\ j \in 1 .. Len(stacks'[i]))
        BY <2>3, <2>5, PositionFacts DEF Positions
    <2>7. \A q \in Positions' : q \in Pairs /\ q = <<q[1], q[2]>>
        BY <2>5, PositionFacts DEF Positions
    <2>8. ASSUME NEW q \in Positions'
          PROVE  q \in Positions \ {p} /\ Now(q) = Cx(q) /\ Inside(p, q)
        <3>1. q = <<q[1], q[2]>> /\ q[1] \in 1 .. n /\ q[2] \in 1 .. Len(stacks'[q[1]])
            BY <2>6, <2>7
        <3>2. CASE q[1] = n
            <4>1. q[2] \in 1 .. k - 1 /\ stacks[q[1]] = top /\ stacks'[q[1]] = less
                BY <2>2, <2>4, <3>1, <3>2 DEF top
            <4>2. q[2] \in 1 .. Len(stacks[q[1]]) /\ q[2] < k
                BY <1>1, <4>1
            <4>3. less[q[2]] = top[q[2]]
                BY <2>2, <4>1
            <4> QED
                BY <1>1, <3>1, <3>2, <4>1, <4>2, <4>3, PositionsAre DEF Now, Cx, Inside
        <3>3. CASE q[1] # n
            <4>1. stacks'[q[1]] = stacks[q[1]] /\ q[1] < n
                BY <1>1, <2>4, <3>1, <3>3
            <4> QED
                BY <1>1, <3>1, <3>3, <4>1, PositionsAre DEF Now, Cx, Inside
        <3> QED
            BY <3>2, <3>3
    <2>9. ASSUME NEW q \in Positions, q # p
          PROVE  q \in Positions'
        <3>1. q = <<q[1], q[2]>> /\ q[1] \in 1 .. n /\ q[2] \in 1 .. Len(stacks[q[1]])
            BY <1>1, PositionsAre
        <3>2. CASE q[1] = n
            <4>1. q[2] \in 1 .. k /\ q[2] # k
                BY <2>9, <3>1, <3>2 DEF top
            <4>2. q[2] \in 1 .. Len(stacks'[q[1]])
                <5>1. Len(stacks'[q[1]]) = k - 1
                    BY <2>2, <2>4, <3>2
                <5> QED
                    BY <1>1, <4>1, <5>1
            <4> QED
                BY <2>6, <3>1, <4>2
        <3>3. CASE q[1] # n
            <4>1. stacks'[q[1]] = stacks[q[1]]
                BY <2>4, <3>1, <3>3
            <4> QED
                BY <2>6, <3>1, <4>1
        <3> QED
            BY <3>2, <3>3
    <2>10. Positions' = Positions \ {p}
        BY <2>8, <2>9
    <2> HIDE DEF p
    <2>11. Popped(p)
        BY <1>2, <2>8, <2>10 DEF Popped
    <2>12. ASSUME NEW i \in DOMAIN stacks', i > 1
           PROVE  /\ i \in DOMAIN stacks
                  /\ Len(stacks[i]) > 0 => stacks'[i] # <<>> /\ stacks'[i][1] = stacks[i][1]
        <3>1. i \in 1 .. n
            BY <2>3, <2>12
        <3>2. CASE i = n
            <4>1. n > 1 /\ k > 1
                <5>1. n > 1
                    BY <2>12, <3>2
                <5>2. n \in Nat /\ k \in Nat /\ k > 0
                    BY <1>1
                <5>3. k # 1
                    BY <1>4, <5>1
                <5> HIDE DEF n, k
                <5> QED
                    BY <5>1, <5>2, <5>3
            <4>2. 1 \in 1 .. k - 1
                BY <1>1, <4>1
            <4>3. less # <<>> /\ less[1] = top[1]
                BY <1>1, <2>2, <4>1, <4>2
            <4> QED
                BY <1>1, <2>4, <3>1, <3>2, <4>3 DEF top
        <3>3. CASE i # n
            <4>1. stacks'[i] = stacks[i]
                BY <2>4, <3>1, <3>3
            <4>2. Len(stacks[i]) > 0 => stacks[i] # <<>>
                OBVIOUS
            <4> QED
                BY <1>1, <3>1, <4>1, <4>2
        <3> QED
            BY <3>2, <3>3
    <2> QED
        BY <2>3, <2>5, <2>11, <2>12 DEF p
<1> QED
    BY <1>3, <1>4

LEMMA MoveStep ==
    ASSUME stacks \in Stacks, NEW i \in DOMAIN top, NEW line \in Statements \cup {Nowhere},
           SetAt(i, line)
    PROVE  /\ Moved(<<Len(stacks), i>>, line)
           /\ stacks' \in Stacks /\ Len(stacks') = Len(stacks)
           /\ \A j \in DOMAIN stacks' :
                 /\ j \in DOMAIN stacks /\ (stacks[j] # <<>> => stacks'[j] # <<>>)
                 /\ stacks[j] # <<>> => stacks'[j][1].type = stacks[j][1].type
<1> DEFINE n == Len(stacks)
           p == <<n, i>>
           new == [top EXCEPT ![i].at = line]
<1>1. /\ DOMAIN stacks = 1 .. n /\ n \in Nat /\ n > 0 /\ n \in 1 .. n
      /\ stacks \in Seq(Seq(ContextTypes)) /\ top \in Seq(ContextTypes)
      /\ Len(top) \in Nat /\ i \in 1 .. Len(top)
    BY PositionsAre DEF Stacks
<1>2. top[i] \in ContextTypes /\ [top[i] EXCEPT !.at = line] \in ContextTypes
    <2>1. top[i] \in ContextTypes
        BY <1>1
    <2> QED
        BY <2>1 DEF ContextTypes
<1>3. new = [top EXCEPT ![i] = [top[i] EXCEPT !.at = line]]
    BY <1>1
<1>4. /\ new \in Seq(ContextTypes) /\ Len(new) = Len(top)
      /\ \A j \in 1 .. Len(top) : new[j] = IF j = i THEN [top[i] EXCEPT !.at = line] ELSE top[j]
    BY <1>1, <1>2, <1>3
<1>5. stacks' = [stacks EXCEPT ![n] = new]
    BY <1>1 DEF top, SetAt
<1> HIDE DEF new
<1>6. /\ stacks' \in Seq(Seq(ContextTypes)) /\ Len(stacks') = n
      /\ \A j \in 1 .. n : stacks'[j] = IF j = n THEN new ELSE stacks[j]
    BY <1>1, <1>4, <1>5
<1>7. stacks' \in Stacks
    <2>1. n # 0
        BY <1>1
    <2>2. stacks' # <<>>
        BY <1>6, <2>1
    <2> QED
        BY <1>6, <2>2 DEF Stacks
<1>8. \A j, k : <<j, k>> \in Positions' <=> (j \in 1 .. n /\ k \in 1 .. Len(stacks'[j]))
    BY <1>6, <1>7, PositionFacts DEF Positions
<1>9. \A q \in Positions' : q = <<q[1], q[2]>>
    BY <1>7, PositionFacts DEF Positions
<1>10. \A j \in 1 .. n : Len(stacks'[j]) = Len(stacks[j])
    BY <1>4, <1>6 DEF top
<1>11. Positions' = Positions
    <2>1. ASSUME NEW q \in Positions'
          PROVE  q \in Positions
        <3>1. q = <<q[1], q[2]>> /\ q[1] \in 1 .. n /\ q[2] \in 1 .. Len(stacks[q[1]])
            BY <1>8, <1>9, <1>10
        <3> QED
            BY <1>1, <3>1, PositionsAre
    <2>2. \A q \in Positions : q \in Positions'
        BY <1>1, <1>8, <1>10, PositionsAre
    <2> QED
        BY <2>1, <2>2
<1>12. p \in Positions
    BY <1>1, PositionsAre DEF top
<1>13. ASSUME NEW q \in Positions
       PROVE  Now(q) = IF q = p THEN [Cx(p) EXCEPT !.at = line] ELSE Cx(q)
    <2>1. q = <<q[1], q[2]>> /\ q[1] \in 1 .. n /\ q[2] \in 1 .. Len(stacks[q[1]])
        BY <1>1, PositionsAre
    <2>2. CASE q[1] = n
        <3>1. q[2] \in 1 .. Len(top) /\ stacks'[q[1]] = new /\ stacks[q[1]] = top
            BY <1>6, <2>1, <2>2 DEF top
        <3>2. q = p <=> q[2] = i
            BY <2>1, <2>2
        <3>3. Cx(p) = top[i] /\ Cx(q) = top[q[2]] /\ Now(q) = new[q[2]]
            BY <3>1 DEF Cx, Now, top
        <3> QED
            BY <1>4, <3>1, <3>2, <3>3
    <2>3. CASE q[1] # n
        <3>1. q # p /\ stacks'[q[1]] = stacks[q[1]]
            BY <1>6, <2>1, <2>3
        <3> QED
            BY <3>1 DEF Now, Cx
    <2> QED
        BY <2>2, <2>3
<1> HIDE DEF p
<1>14. Moved(p, line)
    BY <1>11, <1>12, <1>13 DEF Moved
<1>15. ASSUME NEW j \in DOMAIN stacks'
       PROVE  /\ j \in DOMAIN stacks /\ (stacks[j] # <<>> => stacks'[j] # <<>>)
              /\ stacks[j] # <<>> => stacks'[j][1].type = stacks[j][1].type
    <2>1. j \in 1 .. n
        BY <1>6
    <2>2. CASE j = n
        <3>1. stacks'[j] = new /\ stacks[j] = top
            BY <1>6, <2>1, <2>2 DEF top
        <3>2. 1 \in 1 .. Len(top) /\ new # <<>>
            BY <1>1, <1>4
        <3>3. new[1].type = top[1].type
            <4>1. top[1] \in ContextTypes
                BY <1>1, <3>2
            <4> QED
                BY <1>2, <1>4, <3>2, <4>1 DEF ContextTypes
        <3> QED
            BY <1>1, <2>1, <3>1, <3>2, <3>3
    <2>3. CASE j # n
        BY <1>1, <1>6, <2>1, <2>3
    <2> QED
        BY <2>2, <2>3
<1> QED
    BY <1>6, <1>7, <1>14, <1>15 DEF p

-----------------------------------------------------------------------------
(* Contexts and their names                                                *)

LEMMA NameFacts ==
    ASSUME NEW cx \in ContextTypes, ContextOK(cx), cx.type \in Units
    PROVE  /\ Name(cx) \in (SubNames \cup {"eval", "require"}) \X Nat
           /\ Name(cx)[1] \notin {"compiling", "main"}
           /\ Name(cx)[1] = "DB" <=> cx.cv = "DB"
           /\ Name(cx)[1] = "eval" => cx.type = "eval" /\ cx.number = Name(cx)[2]
<1>1. cx.type \in {"sub", "eval", "require"} /\ cx.number \in Nat /\ cx.cv \in SubNames \cup {NoSub}
    BY DEF ContextTypes, Units
<1>2. CASE cx.type = "sub"
    <2>1. Name(cx) = <<cx.cv, 0>> /\ cx.cv \in SubNames
        BY <1>1, <1>2 DEF Name, ContextOK
    <2>2. cx.cv \notin {"compiling", "main", "eval"}
        BY <2>1, BoundAssumption DEF SubNames
    <2> QED
        BY <2>1, <2>2
<1>3. CASE cx.type # "sub"
    <2>1. Name(cx) = <<cx.type, cx.number>> /\ cx.cv = NoSub
        BY <1>3 DEF Name, ContextOK
    <2> QED
        <3>1. cx.type \in {"eval", "require"} /\ cx.cv # "DB"
            BY <1>1, <1>3, <2>1 DEF NoSub
        <3>2. Name(cx)[1] = cx.type /\ Name(cx)[2] = cx.number
            BY <2>1
        <3>3. Name(cx) \in (SubNames \cup {"eval", "require"}) \X Nat
            BY <1>1, <2>1, <3>1
        <3> QED
            BY <3>1, <3>2, <3>3
<1> QED
    BY <1>2, <1>3

LEMMA AtFacts ==
    ASSUME NEW cx \in ContextTypes, ContextOK(cx), cx.type \in Units, cx.at # Nowhere
    PROVE  /\ cx.at \in Statements /\ cx.at # Compiling
           /\ cx.at[1] = "DB" <=> cx.cv = "DB"
           /\ cx.at[1] = "eval" => cx.type = "eval" /\ cx.number = cx.at[2]
<1>1. cx.at \in Statements
    BY DEF ContextTypes
<1>2. cx.at[1] = Name(cx)[1] /\ cx.at[2] = Name(cx)[2]
    <2>1. <<cx.at[1], cx.at[2]>> = Name(cx)
        BY DEF ContextOK
    <2> QED
        BY <2>1
<1>3. cx.at # Compiling
    BY <1>2, NameFacts DEF Compiling
<1> QED
    BY <1>1, <1>2, <1>3, NameFacts

LEMMA CodeFacts ==
    ASSUME TypeInv
    PROVE  /\ stacks \in Stacks /\ Code \subseteq Positions /\ Positions \subseteq Pairs
           /\ \A p \in Positions : Cx(p) \in ContextTypes /\ ContextOK(Cx(p))
           /\ \A p \in Code : Cx(p).type \in Units
BY PositionsAre DEF TypeInv, StacksOK, Stacks, Code

LEMMA UnitFacts ==
    ASSUME TypeInv
    PROVE  /\ unit \in Nat
           /\ unit = 0 => Code = {} /\ UnitName = <<"main", 0>>
           /\ unit # 0 => /\ unit \in DOMAIN top /\ <<Len(stacks), unit>> \in Code
                          /\ Cx(<<Len(stacks), unit>>) = top[unit]
                          /\ Innermost(<<Len(stacks), unit>>)
                          /\ UnitName = Name(top[unit])
<1> DEFINE n == Len(stacks)
           S == {i \in DOMAIN top : top[i].type \in Units}
<1>1. /\ stacks \in Stacks /\ n \in Nat /\ n > 0 /\ n \in 1 .. n /\ DOMAIN stacks = 1 .. n
      /\ Len(top) \in Nat /\ DOMAIN top = 1 .. Len(top)
    BY CodeFacts, PositionsAre
<1>2. unit = Highest(S) /\ S \in SUBSET (1 .. Len(top))
    BY <1>1 DEF unit
<1> HIDE DEF S
<1>3. /\ unit \in 0 .. Len(top) /\ (unit # 0 => unit \in S)
      /\ \A j \in S : j <= unit
    BY <1>1, <1>2, HighestFacts
<1>4. ASSUME NEW p \in Code
      PROVE  /\ p \in Pairs /\ p[1] \in 1 .. n /\ p[2] \in 1 .. Len(stacks[p[1]])
             /\ p[1] = n => p[2] \in S
    <2>1. /\ p \in Positions /\ Cx(p).type \in Units /\ p \in Pairs
          /\ p[1] \in 1 .. n /\ p[2] \in 1 .. Len(stacks[p[1]])
        BY <1>1, CodeFacts, PositionsAre
    <2> QED
        BY <1>1, <2>1 DEF S, Cx, top
<1>5. CASE unit = 0
    <2>1. n = 1
        <3> SUFFICES ASSUME n > 1
                     PROVE  FALSE
            BY <1>1
        <3>1. top # <<>> /\ top[1].type = "sub"
            BY <1>1 DEF TypeInv, StacksOK, top
        <3>2. 1 \in 1 .. Len(top)
            BY <1>1, <3>1
        <3>3. 1 \in S
            BY <1>1, <3>1, <3>2 DEF S, Units
        <3> QED
            BY <1>3, <1>5, <3>3
    <2>2. Code = {}
        <3> SUFFICES ASSUME NEW p \in Code
                     PROVE  FALSE
            OBVIOUS
        <3>1. p[1] = n /\ p[2] \in S
            BY <1>1, <1>4, <2>1
        <3>2. p[2] \in 1 .. Len(top) /\ p[2] <= unit
            BY <1>2, <1>3, <3>1
        <3> QED
            BY <1>1, <1>5, <3>2
    <2> QED
        BY <1>5, <2>2 DEF UnitName
<1>6. CASE unit # 0
    <2> DEFINE u == <<n, unit>>
    <2>1. unit \in S /\ unit \in 1 .. Len(top)
        BY <1>3, <1>6
    <2>2. u \in Code /\ Cx(u) = top[unit]
        BY <1>1, <2>1, PositionsAre DEF S, Code, Cx, top
    <2>3. ASSUME NEW p \in Code, Inside(p, u)
          PROVE  FALSE
        <3>1. p[1] > n \/ (p[1] = n /\ p[2] > unit)
            BY <2>3 DEF Inside
        <3>2. p[1] = n /\ p[2] > unit /\ p[2] \in S
            BY <1>1, <1>4, <3>1
        <3>3. p[2] \in 1 .. Len(top) /\ p[2] <= unit
            BY <1>2, <1>3, <3>2
        <3> QED
            BY <1>1, <1>3, <3>2, <3>3
    <2>4. Innermost(u)
        BY <2>3 DEF Innermost
    <2> QED
        BY <1>1, <1>3, <1>6, <2>1, <2>2, <2>4 DEF UnitName
<1> QED
    BY <1>3, <1>5, <1>6

LEMMA DopoptoFacts ==
    ASSUME TypeInv, NEW si \in DOMAIN stacks, NEW from \in 0 .. Len(stacks[si])
    PROVE  /\ DopoptoSub(si, from) \in 0 .. from
           /\ DopoptoSub(si, from) # 0 =>
                 /\ <<si, DopoptoSub(si, from)>> \in Positions
                 /\ Cx(<<si, DopoptoSub(si, from)>>).type \in Units \cup {"try"}
           /\ \A j \in 1 .. from :
                 Cx(<<si, j>>).type \in Units \cup {"try"} => j <= DopoptoSub(si, from)
<1> DEFINE S == {i \in 1 .. from : stacks[si][i].type \in Units \cup {"try"}}
           n == DopoptoSub(si, from)
<1>1. from \in Nat /\ Len(stacks[si]) \in Nat
    BY CodeFacts, PositionsAre
<1>2. /\ n \in 0 .. from /\ (n # 0 => n \in S)
      /\ \A j \in S : j <= n
    BY <1>1, HighestFacts DEF DopoptoSub
<1> HIDE DEF n
<1>3. n # 0 => <<si, n>> \in Positions
    <2>1. n # 0 => n \in 1 .. Len(stacks[si])
        BY <1>1, <1>2
    <2> QED
        BY <2>1, CodeFacts, PositionsAre
<1>4. n # 0 => Cx(<<si, n>>).type \in Units \cup {"try"}
    BY <1>2 DEF Cx
<1>5. \A j \in 1 .. from : Cx(<<si, j>>).type \in Units \cup {"try"} => j <= n
    BY <1>2 DEF Cx
<1> QED
    BY <1>2, <1>3, <1>4, <1>5 DEF n

-----------------------------------------------------------------------------
(* A context is opened                                                     *)

(* What Call, CallBack, Begin, Require, Block and EvalString have in       *)
(* common.                                                                 *)
Opened(p, cx) ==
    /\ Pushed(p, cx) /\ cx \in ContextTypes
    /\ cx.oldcop = curcop /\ cx.at = Nowhere
    /\ cx.type = "sub" <=> cx.cv # NoSub
    /\ start = NoSub \/ (curcop = Compiling /\ cx.type = "sub")
    /\ IF cx.type = "sub" THEN start' = cx.cv /\ curcop' = curcop
       ELSE /\ start' = NoSub
            /\ curcop' = IF cx.type \in Units THEN Compiling ELSE curcop
    /\ debugging =>
          /\ start = NoSub /\ curcop # Compiling
          /\ IF UnitName[1] = "DB"
             THEN /\ p = <<Len(stacks), Len(top) + 1>>
                  /\ cx.type = "sub" /\ cx.cv # "DB"
             ELSE cx.type = "sub" => cx.cv = "DB"
    /\ cx.cv = "DB" => debugging
    /\ UNCHANGED <<main, debugging>>

(* Contexts stay what they are when evals get numbers.                     *)
LEMMA ContextStaysOK ==
    ASSUME NEW cx \in ContextTypes, ContextOK(cx), evalseq \in Nat, evalseq' \in Nat,
           evalseq <= evalseq'
    PROVE  ContextOK(cx)'
<1>1. cx.number \in Nat
    BY DEF ContextTypes
<1> QED
    BY <1>1 DEF ContextOK

LEMMA PushedStacksOK ==
    ASSUME TypeInv, NEW p, NEW cx \in ContextTypes, Pushed(p, cx),
           evalseq' \in Nat, evalseq <= evalseq', ContextOK(cx)',
           \A i \in DOMAIN stacks' : i > 1 => stacks'[i] # <<>> /\ stacks'[i][1].type = "sub",
           \A q \in Positions : Cx(q).text = cx.text => cx.text = NoText
    PROVE  StacksOK'
<1>1. \A q \in Positions : \A c \in ContextTypes : c = Cx(q) => ContextOK(c)'
    <2>1. ASSUME NEW c \in ContextTypes, ContextOK(c)
          PROVE  ContextOK(c)'
        BY <2>1, ContextStaysOK DEF TypeInv
    <2> QED
        BY <2>1, CodeFacts
<1>2. \A q \in Positions : Now(q) = Cx(q)
    BY DEF Pushed
<1>3. Positions' = Positions \cup {p} /\ Now(p) = cx
    BY DEF Pushed
<1>4. ASSUME NEW q \in Positions'
      PROVE  ContextOK(Cx(q))'
    <2>1. CASE q = p
        BY <1>3, <2>1 DEF Now, Cx, ContextOK
    <2>2. CASE q # p
        <3>1. q \in Positions /\ Now(q) = Cx(q) /\ Cx(q) \in ContextTypes
            BY <1>2, <1>3, <2>2, CodeFacts
        <3>2. \A c \in ContextTypes : c = Now(q) => ContextOK(c)'
            BY <1>1, <3>1
        <3> QED
            BY <3>1, <3>2 DEF Now, Cx, ContextOK
    <2> QED
        BY <2>1, <2>2
<1>5. ASSUME NEW q \in Positions', NEW r \in Positions',
             Now(q).text = Now(r).text, Now(q).text # NoText
      PROVE  q = r
    BY <1>2, <1>3, <1>5 DEF TypeInv, StacksOK
<1>6. \A q, r \in Positions' : (Cx(q).text = Cx(r).text /\ Cx(q).text # NoText)' => q = r
    BY <1>5 DEF Now, Cx
<1> QED
    BY <1>4, <1>6 DEF StacksOK

LEMMA PushTypes ==
    ASSUME TypeInv, NEW cx \in ContextTypes, Push(cx),
           evalseq' \in Nat, evalseq <= evalseq', ContextOK(cx)',
           \A q \in Positions : Cx(q).text = cx.text => cx.text = NoText
    PROVE  Pushed(<<Len(stacks), Len(top) + 1>>, cx) /\ stacks' \in Stacks /\ StacksOK'
<1>1. /\ Pushed(<<Len(stacks), Len(top) + 1>>, cx)
      /\ stacks' \in Stacks /\ Len(stacks') = Len(stacks)
      /\ \A i \in DOMAIN stacks' : i < Len(stacks') => stacks'[i] = stacks[i]
      /\ stacks'[Len(stacks)] # <<>>
      /\ Len(top) > 0 => stacks'[Len(stacks)][1] = top[1]
    BY PushStep, CodeFacts
<1>2. ASSUME NEW i \in DOMAIN stacks', i > 1
      PROVE  stacks'[i] # <<>> /\ stacks'[i][1].type = "sub"
    <2>1. DOMAIN stacks' = 1 .. Len(stacks) /\ DOMAIN stacks = 1 .. Len(stacks) /\ Len(stacks) \in Nat
        BY <1>1, CodeFacts, PositionsAre DEF Stacks
    <2>2. stacks[i] # <<>> /\ stacks[i][1].type = "sub"
        BY <1>2, <2>1 DEF TypeInv, StacksOK
    <2>3. CASE i = Len(stacks)
        <3>1. top # <<>> /\ Len(top) \in Nat /\ top \in Seq(ContextTypes)
            BY <2>2, <2>3, CodeFacts, PositionsAre DEF top
        <3>2. Len(top) > 0
            BY <3>1
        <3> QED
            BY <1>1, <2>2, <2>3, <3>2 DEF top
    <2>4. CASE i # Len(stacks)
        <3>1. i < Len(stacks')
            BY <1>1, <2>1, <2>4
        <3> QED
            BY <1>1, <2>2, <3>1
    <2> QED
        BY <2>3, <2>4
<1> QED
    BY <1>1, <1>2, PushedStacksOK

LEMMA CallBackTypes ==
    ASSUME TypeInv, NEW cx \in ContextTypes, stacks' = Append(stacks, <<cx>>), cx.type = "sub",
           evalseq' = evalseq, ContextOK(cx)', cx.text = NoText
    PROVE  Pushed(<<Len(stacks) + 1, 1>>, cx) /\ stacks' \in Stacks /\ StacksOK'
<1>1. /\ Pushed(<<Len(stacks) + 1, 1>>, cx)
      /\ stacks' \in Stacks /\ Len(stacks') = Len(stacks) + 1
      /\ \A i \in DOMAIN stacks' : i < Len(stacks') => stacks'[i] = stacks[i]
      /\ stacks'[Len(stacks')] = <<cx>>
    BY CallBackStep, CodeFacts
<1>2. ASSUME NEW i \in DOMAIN stacks', i > 1
      PROVE  stacks'[i] # <<>> /\ stacks'[i][1].type = "sub"
    <2>1. /\ DOMAIN stacks' = 1 .. Len(stacks) + 1 /\ DOMAIN stacks = 1 .. Len(stacks)
          /\ Len(stacks) \in Nat
        BY <1>1, CodeFacts, PositionsAre DEF Stacks
    <2>2. CASE i = Len(stacks')
        BY <1>1, <2>2
    <2>3. CASE i # Len(stacks')
        <3>1. i < Len(stacks') /\ i \in 1 .. Len(stacks)
            BY <1>1, <2>1, <2>3
        <3> QED
            BY <1>1, <1>2, <2>1, <3>1 DEF TypeInv, StacksOK
    <2> QED
        BY <2>2, <2>3
<1>3. evalseq \in Nat
    BY DEF TypeInv
<1> QED
    BY <1>1, <1>2, <1>3, PushedStacksOK

LEMMA OpenedLines ==
    ASSUME TypeInv, LinesInv, NEW p, NEW cx, Opened(p, cx)
    PROVE  LinesInv'
<1>1. /\ Positions' = Positions \cup {p} /\ p \notin Positions /\ Now(p) = cx
      /\ p \in Pairs /\ \A q \in Positions : Now(q) = Cx(q) /\ Inside(p, q)
    BY DEF Opened, Pushed
<1>2. Positions \subseteq Pairs /\ Code \subseteq Positions
    BY CodeFacts
<1>3. Code' = IF cx.type \in Units THEN Code \cup {p} ELSE Code
    <2>1. Code' = {q \in Positions' : Now(q).type \in Units}
        BY DEF Code, Now, Cx
    <2> QED
        BY <1>1, <2>1 DEF Code
<1>4. \A q \in Code : Now(q) = Cx(q) /\ Inside(p, q) /\ ~Inside(q, p)
    BY <1>1, <1>2, Order
<1>5. /\ \A q \in Code : Innermost(q) => IsAt(q, curcop)
      /\ Code = {} => MainAt(curcop)
    BY DEF LinesInv, Opened, JustCalled, IsAt
<1>6. \A q, line : q \in Code /\ IsAt(q, line) => line = IF Now(q).at = Nowhere THEN Compiling ELSE Now(q).at
    BY <1>4 DEF IsAt
<1>7. ASSUME NEW q \in Code', Innermost(q)'
      PROVE  IF start' = NoSub THEN IsAt(q, curcop)' ELSE JustCalled(q)'
    <2>1. CASE cx.type \in Units
        <3>1. q = p
            BY <1>3, <1>4, <1>7, <2>1 DEF Innermost
        <3>2. CASE cx.type = "sub"
            <4>1. start' # NoSub /\ start' = cx.cv /\ cx.oldcop = curcop'
                BY <3>2 DEF Opened
            <4>2. cx.at = Nowhere
                BY DEF Opened
            <4> QED
                BY <1>1, <3>1, <3>2, <4>1, <4>2 DEF JustCalled, Now, Cx
        <3>3. CASE cx.type # "sub"
            <4>1. start' = NoSub /\ curcop' = Compiling /\ cx.at = Nowhere
                BY <2>1, <3>3 DEF Opened
            <4> QED
                BY <1>1, <3>1, <4>1 DEF IsAt, Now, Cx
        <3> QED
            BY <3>2, <3>3
    <2>2. CASE cx.type \notin Units
        <3>1. q \in Code /\ Innermost(q)
            BY <1>3, <1>7, <2>2 DEF Innermost
        <3>2. start' = NoSub /\ curcop' = curcop
            BY <2>2 DEF Opened, Units
        <3> QED
            BY <1>5, <1>6, <3>1, <3>2 DEF IsAt, Now, Cx
    <2> QED
        BY <2>1, <2>2
<1>8. ASSUME NEW q \in Code', NEW r \in Code', Calls(q, r)'
      PROVE  IsAt(q, Cx(r).oldcop)'
    <2>1. Inside(r, q) /\ \A x \in Code' : ~(Inside(x, q) /\ Inside(r, x))
        BY <1>8 DEF Calls
    <2>2. q \in Code
        BY <1>3, <1>4, <2>1, Order, <1>1, <1>2
    <2>3. CASE r \in Code
        <3>1. Calls(q, r)
            BY <1>3, <2>1 DEF Calls
        <3>2. IsAt(q, Cx(r).oldcop)
            BY <2>2, <2>3, <3>1 DEF LinesInv
        <3> QED
            BY <1>4, <1>6, <2>2, <2>3, <3>2 DEF IsAt, Now, Cx
    <2>4. CASE r \notin Code
        <3>1. r = p
            BY <1>3, <2>4
        <3>2. Innermost(q)
            BY <1>3, <1>4, <2>1, <3>1 DEF Innermost
        <3>3. Now(r).oldcop = curcop
            BY <1>1, <3>1 DEF Opened
        <3> QED
            BY <1>5, <1>6, <2>2, <3>2, <3>3 DEF IsAt, Now, Cx
    <2> QED
        BY <2>3, <2>4
<1>9. ASSUME NEW q \in Code', Outermost(q)'
      PROVE  MainAt(Cx(q).oldcop)'
    <2>1. main' = main /\ \A x \in Code' : ~Inside(q, x)
        BY <1>9 DEF Outermost, Opened
    <2>2. CASE q \in Code
        <3>1. MainAt(Cx(q).oldcop)
            BY <1>3, <2>1, <2>2 DEF LinesInv, Outermost
        <3> QED
            BY <1>4, <2>1, <2>2, <3>1 DEF MainAt, Now, Cx
    <2>3. CASE q \notin Code
        <3>1. q = p /\ Code = {}
            BY <1>3, <1>4, <2>1, <2>3
        <3>2. Now(q).oldcop = curcop
            BY <1>1, <3>1 DEF Opened
        <3> QED
            BY <1>5, <2>1, <3>1, <3>2 DEF MainAt, Now, Cx
    <2> QED
        BY <2>2, <2>3
<1>10. ASSUME Code' = {}
       PROVE  MainAt(curcop)' /\ start' = NoSub
    <2>1. Code = {} /\ cx.type \notin Units
        BY <1>3, <1>10
    <2>2. start' = NoSub /\ curcop' = curcop /\ main' = main
        BY <2>1 DEF Opened, Units
    <2> QED
        BY <1>5, <2>1, <2>2 DEF MainAt
<1> QED
    BY <1>7, <1>8, <1>9, <1>10 DEF LinesInv

(* A call to &DB::sub that has called nothing is the innermost.            *)
LEMMA LastDebugger ==
    ASSUME TypeInv, NEW q \in Positions, Cx(q).cv = "DB", Above(q) \notin Positions,
           q[1] = Len(stacks)
    PROVE  q = <<Len(stacks), Len(top)>> /\ q \in Code /\ UnitName[1] = "DB"
<1>1. /\ q \in Pairs /\ q[1] \in Nat /\ q[2] \in Nat /\ q[2] \in 1 .. Len(top) /\ Len(top) \in Nat
      /\ q = <<q[1], q[2]>> /\ Len(stacks) \in DOMAIN stacks
      /\ Cx(q) \in ContextTypes /\ ContextOK(Cx(q))
    BY CodeFacts, PositionsAre DEF top, Pairs
<1>2. q[2] = Len(top)
    <2> SUFFICES ASSUME q[2] + 1 <= Len(top)
                 PROVE  FALSE
        BY <1>1
    <2>1. q[2] + 1 \in 1 .. Len(stacks[Len(stacks)])
        BY <1>1 DEF top
    <2>2. <<Len(stacks), q[2] + 1>> \in Positions
        BY <1>1, <2>1, CodeFacts, PositionsAre
    <2> QED
        BY <2>2 DEF Above
<1>3. q = <<Len(stacks), Len(top)>>
    BY <1>1, <1>2
<1>4. Cx(q).type = "sub" /\ q \in Code
    BY <1>1 DEF ContextOK, NoSub, Code, Units
<1>5. /\ unit \in Nat /\ unit # 0 /\ unit \in 1 .. Len(top)
      /\ Cx(<<Len(stacks), unit>>) = top[unit] /\ UnitName = Name(top[unit])
      /\ ~Inside(q, <<Len(stacks), unit>>)
    <2>1. unit # 0
        BY <1>4, UnitFacts
    <2>2. /\ unit \in Nat /\ unit \in DOMAIN top
          /\ Cx(<<Len(stacks), unit>>) = top[unit] /\ UnitName = Name(top[unit])
          /\ Innermost(<<Len(stacks), unit>>)
        BY <2>1, UnitFacts
    <2>3. DOMAIN top = 1 .. Len(top)
        BY CodeFacts, PositionsAre
    <2> QED
        BY <1>4, <2>1, <2>2, <2>3 DEF Innermost
<1>6. unit = Len(top)
    BY <1>1, <1>2, <1>5 DEF Inside
<1>7. UnitName = Name(Cx(q))
    BY <1>3, <1>5, <1>6
<1> QED
    BY <1>1, <1>3, <1>4, <1>7, NameFacts DEF Code

(* The current statement is in the debugger's own code.                    *)
LEMMA DebuggerRuns ==
    ASSUME TypeInv, LinesInv, start = NoSub, curcop # Compiling, UnitName[1] = "DB"
    PROVE  curcop[1] = "DB"
<1> DEFINE u == <<Len(stacks), unit>>
<1>1. unit # 0
    BY UnitFacts
<1>2. u \in Code /\ Innermost(u) /\ UnitName = Name(Cx(u))
    BY <1>1, UnitFacts
<1> HIDE DEF u
<1>3. IsAt(u, curcop)
    BY <1>2 DEF LinesInv
<1>4. Cx(u).at # Nowhere /\ curcop = Cx(u).at
    BY <1>3 DEF IsAt
<1>5. Cx(u) \in ContextTypes /\ ContextOK(Cx(u)) /\ Cx(u).type \in Units
    BY <1>2, CodeFacts
<1> QED
    BY <1>2, <1>4, <1>5, NameFacts, AtFacts

LEMMA OpenedDebug ==
    ASSUME TypeInv, LinesInv, DebugInv, NEW p, NEW cx, Opened(p, cx)
    PROVE  DebugInv'
<1>1. /\ Positions' = Positions \cup {p} /\ p \notin Positions /\ Now(p) = cx
      /\ p \in Pairs /\ \A q \in Positions : Now(q) = Cx(q) /\ Inside(p, q)
      /\ p[1] = Len(stacks') /\ debugging' = debugging
    BY DEF Opened, Pushed
<1>2. \A q \in Positions : q \in Pairs /\ q[1] \in Nat /\ q[2] \in Nat /\ q = <<q[1], q[2]>>
    BY CodeFacts DEF Pairs
<1>3. ASSUME NEW q \in Positions', Now(q).cv = "DB"
      PROVE  /\ debugging
             /\ IF Above(q) \in Positions'
                THEN Now(Above(q)).type = "sub" /\ Now(Above(q)).cv # "DB"
                ELSE q[1] = Len(stacks')
             /\ Now(q).at = Nowhere => start' # NoSub /\ Innermost(q)'
    <2>1. CASE q = p
        <3>1. Above(p) \notin Positions'
            <4>1. Above(p) \in Pairs /\ Inside(Above(p), p)
                BY <1>1 DEF Above, Pairs, Inside
            <4> QED
                BY <1>1, <1>2, <4>1, Order
        <3>2. debugging /\ start' # NoSub
            <4>1. cx.cv = "DB" /\ cx.type = "sub" /\ start' = cx.cv
                BY <1>1, <1>3, <2>1 DEF Opened, NoSub
            <4> QED
                BY <4>1 DEF Opened, NoSub
        <3>3. Innermost(q)'
            BY <1>1, <1>2, <2>1, Order DEF Innermost, Code
        <3> QED
            BY <1>1, <2>1, <3>1, <3>2, <3>3
    <2>2. CASE q # p
        <3>1. q \in Positions /\ Cx(q).cv = "DB" /\ Now(q) = Cx(q)
            BY <1>1, <1>3, <2>2
        <3>2. debugging /\ start = NoSub /\ Cx(q).at # Nowhere
            BY <3>1 DEF DebugInv, Opened
        <3>3. CASE Above(q) \in Positions
            BY <1>1, <3>1, <3>2, <3>3 DEF DebugInv
        <3>4. CASE Above(q) \notin Positions
            <4>1. q[1] = Len(stacks)
                BY <3>1, <3>4 DEF DebugInv
            <4>2. q = <<Len(stacks), Len(top)>> /\ UnitName[1] = "DB"
                BY <3>1, <3>4, <4>1, LastDebugger
            <4>3. p = Above(q) /\ cx.type = "sub" /\ cx.cv # "DB"
                BY <3>2, <4>2 DEF Opened, Above
            <4> QED
                BY <1>1, <3>1, <3>2, <4>3
        <3> QED
            BY <3>3, <3>4
    <2> QED
        BY <2>1, <2>2
<1>4. ASSUME debugging, start' # NoSub
      PROVE  InDebugger'
    <2>1. cx.type = "sub" /\ start' = cx.cv /\ curcop' = curcop
        BY <1>4 DEF Opened
    <2>2. CASE UnitName[1] = "DB"
        <3>1. start = NoSub /\ curcop # Compiling
            BY <1>4 DEF Opened
        <3> QED
            BY <2>1, <2>2, <3>1, DebuggerRuns DEF InDebugger
    <2>3. CASE UnitName[1] # "DB"
        BY <1>4, <2>1, <2>3 DEF Opened, InDebugger
    <2> QED
        BY <2>2, <2>3
<1> QED
    BY <1>1, <1>3, <1>4 DEF DebugInv, Now, Cx, Above

-----------------------------------------------------------------------------
(* The innermost context is left                                           *)

Closed(p) ==
    /\ Popped(p) /\ p = <<Len(stacks), Len(top)>>
    /\ start = NoSub /\ start' = NoSub
    /\ curcop' = IF Cx(p).type \in Units THEN Cx(p).oldcop ELSE curcop
    /\ Len(top) > 1 => Len(stacks') = Len(stacks)
    /\ UNCHANGED <<main, debugging>>

LEMMA LeaveCloses ==
    ASSUME TypeInv, Leave
    PROVE  Closed(<<Len(stacks), Len(top)>>) /\ stacks' \in Stacks /\ StacksOK'
<1> DEFINE p == <<Len(stacks), Len(top)>>
<1>1. /\ Popped(p) /\ stacks' \in Stacks
      /\ Len(top) > 1 => Len(stacks') = Len(stacks)
      /\ \A i \in DOMAIN stacks' : i > 1 =>
            /\ i \in DOMAIN stacks
            /\ Len(stacks[i]) > 0 => stacks'[i] # <<>> /\ stacks'[i][1] = stacks[i][1]
    <2>1. PopTop /\ Len(top) > 0
        BY DEF Leave, PopTop
    <2> QED
        BY <2>1, PopStep, CodeFacts
<1>2. Cx(p) = top[Len(top)]
    BY DEF Cx, top
<1>3. Closed(p)
    BY <1>1, <1>2 DEF Closed, Leave
<1>4. ASSUME NEW i \in DOMAIN stacks', i > 1
      PROVE  stacks'[i] # <<>> /\ stacks'[i][1].type = "sub"
    <2>1. stacks[i] # <<>> /\ stacks[i][1].type = "sub" /\ i \in DOMAIN stacks
        BY <1>1, <1>4 DEF TypeInv, StacksOK
    <2>2. stacks[i] \in Seq(ContextTypes)
        BY <2>1, CodeFacts, PositionsAre
    <2>3. Len(stacks[i]) > 0
        BY <2>1, <2>2
    <2> QED
        BY <1>1, <1>4, <2>1, <2>3
<1>5. ASSUME NEW q \in Positions'
      PROVE  q \in Positions /\ Now(q) = Cx(q) /\ Cx(q) \in ContextTypes /\ ContextOK(Cx(q))
    BY <1>1, CodeFacts DEF Popped
<1>6. evalseq' = evalseq
    BY DEF Leave
<1>7. ASSUME NEW q \in Positions'
      PROVE  ContextOK(Cx(q))'
    BY <1>5, <1>6 DEF ContextOK, Now, Cx, Name
<1>8. ASSUME NEW q \in Positions', NEW r \in Positions',
             Now(q).text = Now(r).text, Now(q).text # NoText
      PROVE  q = r
    BY <1>5, <1>8 DEF TypeInv, StacksOK
<1>9. \A q, r \in Positions' : (Cx(q).text = Cx(r).text /\ Cx(q).text # NoText)' => q = r
    BY <1>8 DEF Now, Cx
<1> QED
    BY <1>1, <1>3, <1>4, <1>7, <1>9 DEF StacksOK

LEMMA ClosedLines ==
    ASSUME TypeInv, LinesInv, NEW p, Closed(p)
    PROVE  LinesInv'
<1>1. /\ p \in Positions /\ Positions' = Positions \ {p}
      /\ \A q \in Positions' : Now(q) = Cx(q) /\ Inside(p, q)
      /\ start = NoSub /\ start' = NoSub /\ main' = main
    BY DEF Closed, Popped
<1>2. Positions \subseteq Pairs /\ Code \subseteq Positions
    BY CodeFacts
<1>3. Code' = Code \ {p}
    <2>1. Code' = {q \in Positions' : Now(q).type \in Units}
        BY DEF Code, Now, Cx
    <2> QED
        BY <1>1, <2>1 DEF Code
<1>4. \A q \in Code' : q \in Code /\ Now(q) = Cx(q) /\ Inside(p, q) /\ ~Inside(q, p)
    BY <1>1, <1>2, <1>3, Order
<1>5. \A q \in Code : Innermost(q) => IsAt(q, curcop)
    BY <1>1 DEF LinesInv
<1>6. ASSUME NEW q \in Code', Innermost(q)'
      PROVE  IsAt(q, curcop)'
    <2>1. CASE p \in Code
        <3>1. curcop' = Cx(p).oldcop
            BY <2>1 DEF Closed, Code
        <3>2. Calls(q, p)
            <4> SUFFICES ASSUME NEW r \in Code, Inside(r, q), Inside(p, r)
                         PROVE  FALSE
                BY <1>4 DEF Calls
            <4>1. r # p
                BY <1>1, <1>2, Order
            <4> QED
                BY <1>3, <1>6, <4>1 DEF Innermost
        <3>3. IsAt(q, Cx(p).oldcop)
            BY <1>4, <2>1, <3>2 DEF LinesInv
        <3> QED
            BY <1>4, <3>1, <3>3 DEF IsAt, Now, Cx
    <2>2. CASE p \notin Code
        <3>1. curcop' = curcop
            BY <1>1, <2>2 DEF Closed, Code
        <3>2. Innermost(q)
            BY <1>3, <1>6, <2>2 DEF Innermost
        <3>3. IsAt(q, curcop)
            BY <1>4, <1>5, <3>2
        <3> QED
            BY <1>4, <3>1, <3>3 DEF IsAt, Now, Cx
    <2> QED
        BY <2>1, <2>2
<1>7. ASSUME NEW q \in Code', NEW r \in Code', Calls(q, r)'
      PROVE  IsAt(q, Cx(r).oldcop)'
    <2>1. Calls(q, r)
        <3>1. Inside(r, q) /\ \A x \in Code' : ~(Inside(x, q) /\ Inside(r, x))
            BY <1>7 DEF Calls
        <3> QED
            BY <1>3, <1>4, <3>1 DEF Calls
    <2>2. IsAt(q, Cx(r).oldcop)
        BY <1>4, <2>1 DEF LinesInv
    <2> QED
        BY <1>4, <2>2 DEF IsAt, Now, Cx
<1>8. ASSUME NEW q \in Code', Outermost(q)'
      PROVE  MainAt(Cx(q).oldcop)'
    <2>1. Outermost(q)
        BY <1>3, <1>4, <1>8 DEF Outermost
    <2>2. MainAt(Cx(q).oldcop)
        BY <1>4, <2>1 DEF LinesInv
    <2> QED
        BY <1>1, <1>4, <2>2 DEF MainAt, Now, Cx
<1>9. ASSUME Code' = {}
      PROVE  MainAt(curcop)'
    <2>1. CASE p \in Code
        <3>1. Outermost(p)
            BY <1>1, <1>2, <1>3, <1>9, Order DEF Outermost
        <3>2. MainAt(Cx(p).oldcop) /\ curcop' = Cx(p).oldcop
            BY <2>1, <3>1 DEF LinesInv, Closed, Code
        <3> QED
            BY <1>1, <3>2 DEF MainAt
    <2>2. CASE p \notin Code
        <3>1. Code = {} /\ curcop' = curcop
            BY <1>1, <1>3, <1>9, <2>2 DEF Closed, Code
        <3> QED
            BY <1>1, <3>1 DEF MainAt, LinesInv
    <2> QED
        BY <2>1, <2>2
<1> QED
    BY <1>1, <1>6, <1>7, <1>8, <1>9 DEF LinesInv

LEMMA ClosedDebug ==
    ASSUME TypeInv, DebugInv, NEW p, Closed(p)
    PROVE  DebugInv'
<1>1. /\ p \in Positions /\ Positions' = Positions \ {p}
      /\ \A q \in Positions' : Now(q) = Cx(q) /\ Inside(p, q)
      /\ start = NoSub /\ start' = NoSub /\ debugging' = debugging
    BY DEF Closed, Popped
<1>2. ASSUME NEW q \in Positions', Now(q).cv = "DB"
      PROVE  /\ debugging
             /\ IF Above(q) \in Positions'
                THEN Now(Above(q)).type = "sub" /\ Now(Above(q)).cv # "DB"
                ELSE q[1] = Len(stacks')
             /\ Now(q).at # Nowhere
    <2>1. q \in Positions /\ q # p /\ Now(q) = Cx(q) /\ Cx(q).cv = "DB"
        BY <1>1, <1>2
    <2>2. debugging /\ Cx(q).at # Nowhere
        BY <1>1, <2>1 DEF DebugInv
    <2>3. CASE Above(q) \in Positions'
        BY <1>1, <2>1, <2>2, <2>3 DEF DebugInv
    <2>4. CASE Above(q) \notin Positions'
        <3>1. Above(q) \in Positions
            <4> SUFFICES ASSUME Above(q) \notin Positions
                         PROVE  FALSE
                OBVIOUS
            <4>1. q[1] = Len(stacks)
                BY <2>1 DEF DebugInv
            <4> QED
                BY <2>1, <4>1, LastDebugger DEF Closed
        <3>2. p = <<q[1], q[2] + 1>> /\ p = <<Len(stacks), Len(top)>>
            BY <1>1, <2>4, <3>1 DEF Above, Closed
        <3>3. q[1] = Len(stacks) /\ Len(top) = q[2] + 1
            BY <3>2
        <3>4. q[2] \in Nat /\ q[2] > 0
            BY <2>1, CodeFacts, PositionsAre
        <3>5. Len(top) > 1
            BY <3>3, <3>4
        <3> QED
            BY <2>2, <2>1, <2>4, <3>3, <3>5 DEF Closed
    <2> QED
        BY <2>3, <2>4
<1> QED
    BY <1>1, <1>2 DEF DebugInv, Now, Cx, Above

-----------------------------------------------------------------------------
(* A statement is reached                                                  *)

LEMMA StacksStay ==
    ASSUME StacksOK, UNCHANGED <<stacks, evalseq>>
    PROVE  StacksOK'
<1>1. Positions' = Positions /\ \A p : Cx(p)' = Cx(p)
    BY DEF Positions, Cx
<1>2. \A p : ContextOK(Cx(p))' = ContextOK(Cx(p))
    BY DEF ContextOK, Name, Cx
<1> QED
    BY <1>1, <1>2 DEF StacksOK

LEMMA NextStateMoves ==
    ASSUME TypeInv, NEW l \in Lines, NextState(l)
    PROVE  /\ stacks' \in Stacks /\ StacksOK' /\ Len(stacks') = Len(stacks)
           /\ curcop' \in Statements /\ curcop' \notin {Compiling, Nowhere}
           /\ IF Code = {} THEN main' = curcop' /\ UNCHANGED stacks /\ curcop'[1] = "main"
              ELSE /\ main' = main
                   /\ \E p \in Code : Innermost(p) /\ Moved(p, curcop')
<1>1. /\ curcop' = <<UnitName[1], UnitName[2], l>> /\ evalseq' = evalseq
      /\ IF unit = 0 THEN main' = curcop' /\ stacks' = stacks
         ELSE main' = main /\ SetAt(unit, curcop')
    BY DEF NextState, SetAt
<1>2. CASE unit = 0
    <2>1. Code = {} /\ curcop' = <<"main", 0, l>>
        BY <1>1, <1>2, UnitFacts
    <2>2. curcop' \in Statements /\ curcop' \notin {Compiling, Nowhere}
        BY <2>1 DEF Statements, Compiling, Nowhere
    <2>3. StacksOK'
        BY <1>1, <1>2, StacksStay DEF TypeInv
    <2> QED
        BY <1>1, <1>2, <2>1, <2>2, <2>3, CodeFacts
<1>3. CASE unit # 0
    <2> DEFINE p == <<Len(stacks), unit>>
    <2>1. /\ p \in Code /\ Cx(p) = top[unit] /\ Innermost(p) /\ UnitName = Name(Cx(p))
          /\ unit \in DOMAIN top
        BY <1>3, UnitFacts
    <2>2. Cx(p) \in ContextTypes /\ ContextOK(Cx(p)) /\ Cx(p).type \in Units
        BY <2>1, CodeFacts
    <2>3. /\ UnitName \in (SubNames \cup {"eval", "require"}) \X Nat
          /\ UnitName[1] \notin {"compiling", "main"}
        BY <2>1, <2>2, NameFacts
    <2>4. curcop' \in Statements /\ curcop' \notin {Compiling, Nowhere}
        <3>1. curcop'[1] # "nowhere"
            BY <1>1, <2>3, BoundAssumption DEF SubNames
        <3> QED
            BY <1>1, <2>3, <3>1 DEF Statements, Compiling, Nowhere
    <2>5. /\ Moved(p, curcop') /\ stacks' \in Stacks /\ Len(stacks') = Len(stacks)
          /\ \A j \in DOMAIN stacks' :
                /\ j \in DOMAIN stacks /\ (stacks[j] # <<>> => stacks'[j] # <<>>)
                /\ stacks[j] # <<>> => stacks'[j][1].type = stacks[j][1].type
        <3>1. SetAt(unit, curcop') /\ unit \in DOMAIN top /\ stacks \in Stacks
            BY <1>1, <1>3, <2>1, CodeFacts
        <3>2. ASSUME NEW line \in Statements \cup {Nowhere}, line = curcop'
              PROVE  SetAt(unit, line)
            BY <3>1, <3>2 DEF SetAt
        <3>3. ASSUME NEW line \in Statements \cup {Nowhere}, line = curcop'
              PROVE  Moved(p, line) /\ stacks' \in Stacks /\ Len(stacks') = Len(stacks)
                     /\ \A j \in DOMAIN stacks' :
                           /\ j \in DOMAIN stacks /\ (stacks[j] # <<>> => stacks'[j] # <<>>)
                           /\ stacks[j] # <<>> => stacks'[j][1].type = stacks[j][1].type
            BY <3>1, <3>2, <3>3, MoveStep
        <3> QED
            BY <2>4, <3>3
    <2>6. <<curcop'[1], curcop'[2]>> = Name(Cx(p))
        BY <1>1, <2>1, <2>3
    <2> HIDE DEF p
    <2>7. /\ Positions' = Positions /\ p \in Positions
          /\ \A q \in Positions : Now(q) = IF q = p THEN [Cx(p) EXCEPT !.at = curcop'] ELSE Cx(q)
        BY <2>5 DEF Moved
    <2>8. ASSUME NEW q \in Positions
          PROVE  ContextOK(Cx(q))' /\ Now(q).text = Cx(q).text
        <3>1. Cx(q) \in ContextTypes /\ ContextOK(Cx(q))
            BY CodeFacts
        <3>2. CASE q = p
            <4>1. /\ Now(q).at = curcop' /\ Now(q).type = Cx(p).type /\ Now(q).cv = Cx(p).cv
                  /\ Now(q).text = Cx(p).text /\ Now(q).number = Cx(p).number
                BY <2>7, <3>1, <3>2 DEF ContextTypes
            <4>2. Name(Now(q)) = Name(Cx(p))
                BY <4>1 DEF Name
            <4> QED
                BY <1>1, <2>6, <3>1, <3>2, <4>1, <4>2 DEF ContextOK, Now, Cx, Name
        <3>3. CASE q # p
            <4>1. Now(q) = Cx(q)
                BY <2>7, <3>3
            <4> QED
                BY <1>1, <3>1, <4>1 DEF ContextOK, Now, Cx, Name
        <3> QED
            BY <3>2, <3>3
    <2>9. ASSUME NEW j \in DOMAIN stacks', j > 1
          PROVE  stacks'[j] # <<>> /\ stacks'[j][1].type = "sub"
        BY <2>5, <2>9 DEF TypeInv, StacksOK
    <2>10. \A q, r \in Positions' : (Cx(q).text = Cx(r).text /\ Cx(q).text # NoText)' => q = r
        <3>1. \A q, r \in Positions : Now(q).text = Now(r).text /\ Now(q).text # NoText => q = r
            BY <2>8 DEF TypeInv, StacksOK
        <3> QED
            BY <2>7, <3>1 DEF Now, Cx
    <2>11. StacksOK'
        BY <2>7, <2>8, <2>9, <2>10 DEF StacksOK
    <2> QED
        BY <1>1, <1>3, <2>1, <2>4, <2>5, <2>11
<1> QED
    BY <1>2, <1>3

LEMMA NextStateLines ==
    ASSUME TypeInv, LinesInv, NEW l \in Lines, NextState(l)
    PROVE  LinesInv'
<1>1. /\ curcop' \notin {Compiling, Nowhere} /\ start' = NoSub
      /\ IF Code = {} THEN main' = curcop' /\ UNCHANGED stacks
         ELSE main' = main /\ \E p \in Code : Innermost(p) /\ Moved(p, curcop')
    BY NextStateMoves DEF NextState
<1>2. CASE Code = {}
    <2>1. Code' = {} /\ main' = curcop'
        BY <1>1, <1>2 DEF Code, Positions, Cx
    <2>2. MainAt(curcop)'
        BY <1>1, <2>1 DEF MainAt
    <2> QED
        BY <1>1, <2>1, <2>2 DEF LinesInv
<1>3. CASE Code # {}
    <2>1. PICK p \in Code : Innermost(p) /\ Moved(p, curcop')
        BY <1>1, <1>3
    <2>2. /\ Positions' = Positions /\ Positions \subseteq Pairs /\ Code \subseteq Positions
          /\ \A q \in Positions : Now(q) = IF q = p THEN [Cx(p) EXCEPT !.at = curcop'] ELSE Cx(q)
        BY <2>1, CodeFacts DEF Moved
    <2>3. /\ \A q \in Positions : Now(q).type = Cx(q).type /\ Now(q).oldcop = Cx(q).oldcop
          /\ \A q \in Positions : Now(q).at = IF q = p THEN curcop' ELSE Cx(q).at
        <3>1. \A q \in Positions : Cx(q) \in ContextTypes
            BY CodeFacts
        <3> QED
            BY <2>2, <3>1 DEF ContextTypes
    <2>4. Code' = Code
        <3>1. Code' = {q \in Positions' : Now(q).type \in Units}
            BY DEF Code, Now, Cx
        <3> QED
            BY <2>2, <2>3, <3>1 DEF Code
    <2>5. ASSUME NEW q \in Code', Innermost(q)'
          PROVE  IsAt(q, curcop)'
        <3>1. q = p
            BY <2>1, <2>2, <2>4, <2>5, Order DEF Innermost
        <3>2. Now(q).at = curcop'
            BY <2>1, <2>2, <2>3, <3>1
        <3> QED
            BY <1>1, <3>2 DEF IsAt, Now, Cx
    <2>6. ASSUME NEW q \in Code', NEW r \in Code', Calls(q, r)'
          PROVE  IsAt(q, Cx(r).oldcop)'
        <3>1. Calls(q, r) /\ q \in Code /\ r \in Code
            BY <2>4, <2>6 DEF Calls
        <3>2. q # p
            BY <2>1, <3>1 DEF Calls, Innermost
        <3>3. IsAt(q, Cx(r).oldcop)
            BY <3>1 DEF LinesInv
        <3>4. Now(q).at = Cx(q).at /\ Now(r).oldcop = Cx(r).oldcop
            BY <2>2, <2>3, <3>1, <3>2
        <3> QED
            BY <3>3, <3>4 DEF IsAt, Now, Cx
    <2>7. ASSUME NEW q \in Code', Outermost(q)'
          PROVE  MainAt(Cx(q).oldcop)'
        <3>1. q \in Code /\ Outermost(q)
            BY <2>4, <2>7 DEF Outermost
        <3>2. MainAt(Cx(q).oldcop) /\ Now(q).oldcop = Cx(q).oldcop
            BY <2>2, <2>3, <3>1 DEF LinesInv
        <3> QED
            BY <1>1, <1>3, <3>2 DEF MainAt, Now, Cx
    <2> QED
        BY <1>1, <1>3, <2>4, <2>5, <2>6, <2>7 DEF LinesInv
<1> QED
    BY <1>2, <1>3

LEMMA NextStateDebug ==
    ASSUME TypeInv, DebugInv, NEW l \in Lines, NextState(l)
    PROVE  DebugInv'
<1>1. /\ curcop' \notin {Compiling, Nowhere} /\ start' = NoSub /\ debugging' = debugging
      /\ Len(stacks') = Len(stacks)
      /\ IF Code = {} THEN UNCHANGED stacks
         ELSE \E p \in Code : Innermost(p) /\ Moved(p, curcop')
    BY NextStateMoves DEF NextState
<1>2. \A q \in Positions : Cx(q).cv = "DB" => q \in Code
    BY CodeFacts DEF ContextOK, NoSub, Code, Units
<1>3. CASE Code = {}
    <2>1. Positions' = Positions /\ \A q \in Positions : Now(q) = Cx(q)
        BY <1>1, <1>3 DEF Positions, Now, Cx
    <2>2. \A q \in Positions' : Now(q).cv # "DB"
        BY <1>2, <1>3, <2>1
    <2> QED
        BY <1>1, <2>2 DEF DebugInv, Now, Cx
<1>4. CASE Code # {}
    <2>1. PICK p \in Code : Innermost(p) /\ Moved(p, curcop')
        BY <1>1, <1>4
    <2>2. /\ Positions' = Positions /\ Positions \subseteq Pairs /\ Code \subseteq Positions
          /\ \A q \in Positions : Now(q) = IF q = p THEN [Cx(p) EXCEPT !.at = curcop'] ELSE Cx(q)
        BY <2>1, CodeFacts DEF Moved
    <2>3. /\ \A q \in Positions : Now(q).type = Cx(q).type /\ Now(q).cv = Cx(q).cv
          /\ \A q \in Positions : Now(q).at = IF q = p THEN curcop' ELSE Cx(q).at
        <3>1. \A q \in Positions : Cx(q) \in ContextTypes
            BY CodeFacts
        <3> QED
            BY <2>2, <3>1 DEF ContextTypes
    <2>4. ASSUME NEW q \in Positions', Now(q).cv = "DB"
          PROVE  /\ debugging
                 /\ IF Above(q) \in Positions'
                    THEN Now(Above(q)).type = "sub" /\ Now(Above(q)).cv # "DB"
                    ELSE q[1] = Len(stacks')
                 /\ Now(q).at # Nowhere
        <3>1. q \in Positions /\ Cx(q).cv = "DB" /\ q \in Code
            BY <1>2, <2>2, <2>3, <2>4
        <3>2. /\ debugging
              /\ IF Above(q) \in Positions
                 THEN Cx(Above(q)).type = "sub" /\ Cx(Above(q)).cv # "DB"
                 ELSE q[1] = Len(stacks)
              /\ Cx(q).at = Nowhere => Innermost(q)
            BY <3>1 DEF DebugInv
        <3>3. Now(q).at # Nowhere
            <4>1. CASE q = p
                BY <1>1, <2>3, <3>1, <4>1
            <4>2. CASE q # p
                <5>1. ~Innermost(q)
                    BY <2>1, <2>2, <3>1, <4>2, Order DEF Innermost
                <5> QED
                    BY <2>3, <3>1, <3>2, <4>2, <5>1
            <4> QED
                BY <4>1, <4>2
        <3> QED
            BY <1>1, <2>2, <2>3, <3>2, <3>3
    <2> QED
        BY <1>1, <2>4 DEF DebugInv, Now, Cx, Above
<1> QED
    BY <1>3, <1>4

(* Where nothing of the program changes.                                   *)
LEMMA ProgramStays ==
    ASSUME LinesInv, DebugInv, UNCHANGED <<stacks, curcop, start, main, debugging>>
    PROVE  LinesInv' /\ DebugInv'
<1>1. Positions' = Positions /\ \A p : Cx(p)' = Cx(p)
    BY DEF Positions, Cx
<1>2. Code' = Code
    BY <1>1 DEF Code
<1>3. LinesInv'
    BY <1>1, <1>2 DEF LinesInv, Innermost, Outermost, Calls, IsAt, MainAt, JustCalled
<1>4. DebugInv'
    BY <1>1, <1>2 DEF DebugInv, Above, Innermost, InDebugger
<1> QED
    BY <1>3, <1>4

-----------------------------------------------------------------------------
(* The actions that open a context                                         *)

LEMMA NewContext ==
    ASSUME TypeInv,
           NEW type \in Units \cup {"try", "block"}, NEW cv \in SubNames \cup {NoSub},
           NEW text \in Texts \cup {NoText}, NEW number \in Nat, NEW cx,
           cx = Context(type, cv, text, number)
    PROVE  /\ cx \in ContextTypes /\ cx.type = type /\ cx.cv = cv /\ cx.text = text
           /\ cx.number = number /\ cx.oldcop = curcop /\ cx.at = Nowhere
BY DEF Context, ContextTypes, TypeInv

LEMMA SubContext ==
    ASSUME TypeInv, NEW cv \in SubNames, NEW cx, cx = Sub(cv), evalseq' = evalseq
    PROVE  /\ cx \in ContextTypes /\ cx.type = "sub" /\ cx.cv = cv /\ cx.text = NoText
           /\ cx.number = 0 /\ cx.oldcop = curcop /\ cx.at = Nowhere
           /\ cv # NoSub /\ ContextOK(cx)'
<1>1. cv # NoSub
    BY BoundAssumption DEF SubNames, NoSub
<1>2. cx = Context("sub", cv, NoText, 0)
    BY DEF Sub
<1>3. /\ cx \in ContextTypes /\ cx.type = "sub" /\ cx.cv = cv /\ cx.text = NoText
      /\ cx.number = 0 /\ cx.oldcop = curcop /\ cx.at = Nowhere
    <2>1. "sub" \in Units \cup {"try", "block"} /\ cv \in SubNames \cup {NoSub}
        BY DEF Units
    <2> QED
        BY <1>2, <2>1, NewContext
<1>4. evalseq \in Nat
    BY DEF TypeInv
<1> QED
    BY <1>1, <1>3, <1>4 DEF ContextOK

LEMMA PlainContext ==
    ASSUME TypeInv, NEW type \in {"require", "try", "block"}, NEW cx,
           cx = Plain(type), evalseq' = evalseq
    PROVE  /\ cx \in ContextTypes /\ cx.type = type /\ cx.cv = NoSub /\ cx.text = NoText
           /\ cx.number = 0 /\ cx.oldcop = curcop /\ cx.at = Nowhere
           /\ ContextOK(cx)'
<1>1. cx = Context(type, NoSub, NoText, 0)
    BY DEF Plain
<1>2. /\ cx \in ContextTypes /\ cx.type = type /\ cx.cv = NoSub /\ cx.text = NoText
      /\ cx.number = 0 /\ cx.oldcop = curcop /\ cx.at = Nowhere
    <2>1. type \in Units \cup {"try", "block"}
        BY DEF Units
    <2> QED
        BY <1>1, <2>1, NewContext
<1>3. evalseq \in Nat
    BY DEF TypeInv
<1> QED
    BY <1>2, <1>3 DEF ContextOK

(* What the invariants need to know of a step that opens a context.        *)
Opens(p, cx) ==
    /\ Opened(p, cx) /\ stacks' \in Stacks /\ StacksOK'
    /\ curcop' \in Statements /\ start' \in SubNames \cup {NoSub}

LEMMA CallOpens ==
    ASSUME TypeInv, NEW f \in Subs, Call(f) \/ CallBack(f)
    PROVE  \E p, cx : Opens(p, cx) /\ cx.type = "sub" /\ cx.number = 0
<1>1. PICK cx : cx = Sub(Called(f))
    OBVIOUS
<1>2. /\ Runs /\ start' = Called(f) /\ evalseq' = evalseq
      /\ UNCHANGED <<curcop, main, debugging>>
    BY DEF Call, CallBack, RunsOwn
<1>3. Called(f) \in SubNames /\ f # "DB"
    BY BoundAssumption DEF Called, SubNames
<1>4. /\ cx \in ContextTypes /\ cx.type = "sub" /\ cx.cv = Called(f) /\ cx.text = NoText
      /\ cx.number = 0 /\ cx.oldcop = curcop /\ cx.at = Nowhere
      /\ Called(f) # NoSub /\ ContextOK(cx)'
    BY <1>1, <1>2, <1>3, SubContext
<1>5. evalseq \in Nat /\ curcop \in Statements /\ debugging \in BOOLEAN
    BY DEF TypeInv
<1>6. \E p : /\ Pushed(p, cx) /\ stacks' \in Stacks /\ StacksOK'
             /\ UnitName[1] = "DB" => p = <<Len(stacks), Len(top) + 1>>
    <2>1. CASE Call(f)
        <3>1. Push(cx)
            BY <1>1, <2>1 DEF Call
        <3>2. Pushed(<<Len(stacks), Len(top) + 1>>, cx) /\ stacks' \in Stacks /\ StacksOK'
            BY <1>2, <1>4, <1>5, <3>1, PushTypes
        <3> QED
            BY <3>2
    <2>2. CASE CallBack(f)
        <3>1. stacks' = Append(stacks, <<cx>>) /\ UnitName[1] # "DB"
            BY <1>1, <2>2 DEF CallBack, RunsOwn
        <3>2. Pushed(<<Len(stacks) + 1, 1>>, cx) /\ stacks' \in Stacks /\ StacksOK'
            BY <1>2, <1>4, <3>1, CallBackTypes
        <3> QED
            BY <3>1, <3>2
    <2> QED
        BY <2>1, <2>2
<1>7. PICK p : /\ Pushed(p, cx) /\ stacks' \in Stacks /\ StacksOK'
               /\ UnitName[1] = "DB" => p = <<Len(stacks), Len(top) + 1>>
    BY <1>6
<1>8. start = NoSub /\ curcop # Compiling
    BY <1>2 DEF Runs
<1>9. IF debugging /\ UnitName[1] # "DB" THEN cx.cv = "DB" ELSE cx.cv # "DB"
    BY <1>3, <1>4 DEF Called
<1>10. Opened(p, cx)
    BY <1>2, <1>4, <1>7, <1>8, <1>9 DEF Opened
<1> QED
    BY <1>2, <1>3, <1>4, <1>5, <1>7, <1>10 DEF Opens

LEMMA BeginOpens ==
    ASSUME TypeInv, Begin
    PROVE  \E p, cx : Opens(p, cx) /\ cx.type = "sub" /\ cx.number = 0
<1>1. PICK cx : cx = Sub("BEGIN")
    OBVIOUS
<1>2. /\ curcop = Compiling /\ ~debugging /\ start' = "BEGIN" /\ evalseq' = evalseq
      /\ UNCHANGED <<curcop, main, debugging>> /\ Push(cx)
    BY <1>1 DEF Begin
<1>3. "BEGIN" \in SubNames
    BY DEF SubNames
<1>4. /\ cx \in ContextTypes /\ cx.type = "sub" /\ cx.cv = "BEGIN" /\ cx.text = NoText
      /\ cx.number = 0 /\ cx.oldcop = curcop /\ cx.at = Nowhere
      /\ "BEGIN" # NoSub /\ ContextOK(cx)'
    BY <1>1, <1>2, <1>3, SubContext
<1>5. evalseq \in Nat /\ curcop \in Statements
    BY DEF TypeInv
<1>6. Pushed(<<Len(stacks), Len(top) + 1>>, cx) /\ stacks' \in Stacks /\ StacksOK'
    BY <1>2, <1>4, <1>5, PushTypes
<1>7. Opened(<<Len(stacks), Len(top) + 1>>, cx)
    BY <1>2, <1>4, <1>6 DEF Opened
<1> QED
    BY <1>2, <1>3, <1>4, <1>5, <1>6, <1>7 DEF Opens

LEMMA PlainOpens ==
    ASSUME TypeInv, Require \/ \E type \in {"try", "block"} : Block(type)
    PROVE  \E p, cx : Opens(p, cx) /\ cx.type # "eval" /\ cx.number = 0
<1>1. PICK type \in {"require", "try", "block"} :
          /\ RunsOwn /\ Push(Plain(type)) /\ evalseq' = evalseq
          /\ curcop' = IF type = "require" THEN Compiling ELSE curcop
          /\ UNCHANGED <<start, main, debugging>>
    <2>1. CASE Require
        BY <2>1 DEF Require
    <2>2. CASE \E type \in {"try", "block"} : Block(type)
        BY <2>2 DEF Block
    <2> QED
        BY <2>1, <2>2
<1>2. PICK cx : cx = Plain(type)
    OBVIOUS
<1>3. /\ cx \in ContextTypes /\ cx.type = type /\ cx.cv = NoSub /\ cx.text = NoText
      /\ cx.number = 0 /\ cx.oldcop = curcop /\ cx.at = Nowhere
      /\ ContextOK(cx)'
    BY <1>1, <1>2, PlainContext
<1>4. evalseq \in Nat /\ curcop \in Statements
    BY DEF TypeInv
<1>5. Pushed(<<Len(stacks), Len(top) + 1>>, cx) /\ stacks' \in Stacks /\ StacksOK'
    BY <1>1, <1>2, <1>3, <1>4, PushTypes
<1>6. start = NoSub /\ curcop # Compiling /\ UnitName[1] # "DB"
    BY <1>1 DEF RunsOwn, Runs
<1>7. cx.type # "sub" /\ cx.type # "eval" /\ (cx.type \in Units <=> type = "require")
    BY <1>3 DEF Units
<1>8. cx.cv # "DB"
    BY <1>3 DEF NoSub
<1>9. Opened(<<Len(stacks), Len(top) + 1>>, cx)
    BY <1>1, <1>3, <1>5, <1>6, <1>7, <1>8 DEF Opened
<1>10. curcop' \in Statements /\ start' = NoSub
    BY <1>1, <1>4, <1>6 DEF Statements
<1> QED
    BY <1>3, <1>5, <1>7, <1>9, <1>10 DEF Opens

LEMMA EvalOpens ==
    ASSUME TypeInv, NEW s \in Texts, EvalString(s)
    PROVE  \E p, cx : /\ Opens(p, cx) /\ cx.type = "eval" /\ cx.text = s
                      /\ cx.number = evalseq'
<1>1. /\ RunsOwn /\ evalseq' = evalseq + 1 /\ curcop' = Compiling
      /\ UNCHANGED <<start, main, debugging>>
      /\ \A p \in Positions : Cx(p).text # s
    BY DEF EvalString
<1>2. PICK cx : cx = Context("eval", NoSub, s, evalseq')
    OBVIOUS
<1>3. Push(cx)
    BY <1>2 DEF EvalString
<1>4. evalseq \in Nat /\ evalseq' \in Nat /\ evalseq' # 0 /\ evalseq <= evalseq' /\ evalseq' <= evalseq'
    BY <1>1 DEF TypeInv
<1>5. "eval" \in Units \cup {"try", "block"} /\ s # NoText
    BY BoundAssumption DEF Units, NoText
<1>6. /\ cx \in ContextTypes /\ cx.type = "eval" /\ cx.cv = NoSub /\ cx.text = s
      /\ cx.number = evalseq' /\ cx.oldcop = curcop /\ cx.at = Nowhere
    BY <1>2, <1>4, <1>5, NewContext
<1>7. ContextOK(cx)'
    BY <1>4, <1>5, <1>6 DEF ContextOK
<1>8. Pushed(<<Len(stacks), Len(top) + 1>>, cx) /\ stacks' \in Stacks /\ StacksOK'
    BY <1>1, <1>3, <1>4, <1>6, <1>7, PushTypes
<1>9. start = NoSub /\ curcop # Compiling /\ UnitName[1] # "DB"
    BY <1>1 DEF RunsOwn, Runs
<1>10. cx.cv # "DB" /\ cx.type # "sub" /\ cx.type \in Units
    BY <1>6 DEF NoSub, Units
<1>11. Opened(<<Len(stacks), Len(top) + 1>>, cx)
    BY <1>1, <1>6, <1>8, <1>9, <1>10 DEF Opened
<1>12. curcop' \in Statements /\ start' = NoSub
    BY <1>1, <1>9 DEF Statements
<1> QED
    BY <1>6, <1>8, <1>11, <1>12 DEF Opens

-----------------------------------------------------------------------------
(* The walk                                                                *)

(* What the walk has passed when it is at x, and the line it then knows.   *)
PassedBy(x) == {p \in Code : Inside(p, x)}
Known(S, line) ==
    \/ S = {} /\ line = curcop
    \/ \E q \in S : (\A r \in S : ~Inside(q, r)) /\ line = Cx(q).oldcop

LEMMA CodePosition ==
    ASSUME TypeInv, NEW p \in Positions
    PROVE  /\ p \in Pairs /\ p = <<p[1], p[2]>> /\ p[1] \in Nat /\ p[2] \in Nat /\ p[2] > 0
           /\ p[1] \in DOMAIN stacks /\ p[1] <= Len(stacks) /\ Len(stacks) \in Nat
           /\ Len(stacks[p[1]]) \in Nat /\ p[2] <= Len(stacks[p[1]])
           /\ p[2] \in 1 .. Len(stacks[p[1]]) /\ DOMAIN stacks = 1 .. Len(stacks)
BY CodeFacts, PositionsAre

(* The context that was called by one of &DB::sub is right above it.       *)
LEMMA DebuggerCalls ==
    ASSUME TypeInv, DebugInv, NEW a \in Positions, Cx(a).type \in Units \cup {"try"},
           NEW d, d = DopoptoSub(a[1], a[2] - 1), d # 0, Cx(<<a[1], d>>).cv = "DB"
    PROVE  debugging /\ Cx(a).type = "sub" /\ Cx(a).cv # "DB"
<1> DEFINE b == <<a[1], d>>
<1>1. /\ a[1] \in DOMAIN stacks /\ a[2] \in Nat /\ a[2] > 0 /\ a = <<a[1], a[2]>>
      /\ Len(stacks[a[1]]) \in Nat /\ a[2] <= Len(stacks[a[1]])
    BY CodePosition
<1>2. a[2] - 1 \in 0 .. Len(stacks[a[1]])
    BY <1>1
<1>3. /\ d \in 0 .. (a[2] - 1) /\ b \in Positions
      /\ \A j \in 1 .. (a[2] - 1) : Cx(<<a[1], j>>).type \in Units \cup {"try"} => j <= d
    BY <1>1, <1>2, DopoptoFacts
<1>4. d \in Nat /\ d + 1 <= a[2] /\ d + 1 \in 1 .. Len(stacks[a[1]])
    BY <1>1, <1>3
<1>5. Above(b) = <<a[1], d + 1>> /\ Above(b) \in Positions
    BY <1>1, <1>4, CodeFacts, PositionsAre DEF Above
<1> HIDE DEF b
<1>6. debugging /\ Cx(Above(b)).type = "sub" /\ Cx(Above(b)).cv # "DB"
    BY <1>3, <1>5 DEF DebugInv, b
<1>7. d + 1 = a[2]
    <2> SUFFICES ASSUME d + 1 # a[2]
                 PROVE  FALSE
        OBVIOUS
    <2>1. d + 1 \in 1 .. (a[2] - 1)
        BY <1>1, <1>4
    <2>2. Cx(<<a[1], d + 1>>).type \in Units \cup {"try"}
        BY <1>5, <1>6 DEF Units
    <2>3. d + 1 <= d
        BY <1>3, <2>1, <2>2
    <2> QED
        BY <1>4, <2>3
<1>8. Above(b) = a
    BY <1>1, <1>5, <1>7
<1> QED
    BY <1>6, <1>8

(* The next context of a stack.                                            *)
LEMMA NextDown ==
    ASSUME TypeInv, NEW a \in Positions, NEW b, b = <<a[1], DopoptoSub(a[1], a[2] - 1)>>
    PROVE  /\ PassedBy(b) = PassedBy(a) \cup (IF a \in Code THEN {a} ELSE {})
           /\ b[2] \in 0 .. Len(stacks[b[1]]) /\ b[1] = a[1]
           /\ b[2] # 0 => b \in Positions /\ Cx(b).type \in Units \cup {"try"}
<1> DEFINE d == DopoptoSub(a[1], a[2] - 1)
<1>1. /\ a[1] \in DOMAIN stacks /\ a[1] \in Nat /\ a[2] \in Nat /\ a[2] > 0 /\ a = <<a[1], a[2]>>
      /\ Len(stacks[a[1]]) \in Nat /\ a[2] <= Len(stacks[a[1]])
    BY CodePosition
<1>2. a[2] - 1 \in 0 .. Len(stacks[a[1]])
    BY <1>1
<1>3. /\ d \in 0 .. (a[2] - 1) /\ (d # 0 => <<a[1], d>> \in Positions)
      /\ (d # 0 => Cx(<<a[1], d>>).type \in Units \cup {"try"})
      /\ \A j \in 1 .. (a[2] - 1) : Cx(<<a[1], j>>).type \in Units \cup {"try"} => j <= d
    BY <1>1, <1>2, DopoptoFacts
<1> HIDE DEF d
<1>4. b = <<a[1], d>> /\ b[1] = a[1] /\ b[2] = d
    BY DEF d
<1>5. d \in Nat /\ d < a[2] /\ d \in 0 .. Len(stacks[a[1]])
    BY <1>1, <1>3
<1>6. ASSUME NEW p \in Code, Inside(p, b)
      PROVE  p \in PassedBy(a) \cup (IF a \in Code THEN {a} ELSE {})
    <2>1. /\ p = <<p[1], p[2]>> /\ p[1] \in Nat /\ p[2] \in Nat /\ p[2] > 0
          /\ Cx(p).type \in Units
        BY CodeFacts, CodePosition
    <2>2. CASE p[1] > a[1] \/ (p[1] = a[1] /\ p[2] > a[2])
        BY <2>2 DEF PassedBy, Inside
    <2>3. CASE p[1] = a[1] /\ p[2] = a[2]
        BY <1>1, <2>1, <2>3
    <2>4. CASE p[1] = a[1] /\ p[2] < a[2]
        <3>1. p[2] \in 1 .. (a[2] - 1) /\ p = <<a[1], p[2]>>
            BY <1>1, <2>1, <2>4
        <3>2. p[2] <= d
            BY <1>3, <2>1, <3>1
        <3> QED
            BY <1>1, <1>4, <1>5, <1>6, <2>1, <2>4, <3>2 DEF Inside
    <2> QED
        BY <1>1, <1>4, <1>6, <2>1, <2>2, <2>3, <2>4 DEF Inside
<1>7. ASSUME NEW p \in PassedBy(a) \cup (IF a \in Code THEN {a} ELSE {})
      PROVE  p \in Code /\ Inside(p, b)
    <2>1. p \in Code /\ (p = a \/ Inside(p, a))
        BY <1>7 DEF PassedBy
    <2>2. p[1] \in Nat /\ p[2] \in Nat
        BY <2>1, CodeFacts, CodePosition
    <2> QED
        BY <1>1, <1>4, <1>5, <2>1, <2>2 DEF Inside
<1> QED
    BY <1>3, <1>4, <1>5, <1>6, <1>7 DEF PassedBy

LEMMA SkipFacts ==
    ASSUME TypeInv, DebugInv, WalkInv, walk.state = "walking", NEW a, a = SkipStacks
    PROVE  /\ a[2] = 0 => Passed = Code
           /\ a[2] # 0 => /\ a \in Positions /\ Cx(a).type \in Units \cup {"try"}
                          /\ Passed = PassedBy(a)
                          /\ Cx(a).cv = "DB" => Innermost(a)
<1>1. /\ walk.si \in DOMAIN stacks /\ walk.cxix \in 0 .. Len(stacks[walk.si])
      /\ walk.cxix # 0 => Cx(At).type \in Units \cup {"try"}
      /\ walk.cxix # 0 /\ Cx(At).cv = "DB" => Innermost(At)
    BY DEF WalkInv
<1>2. /\ DOMAIN stacks = 1 .. Len(stacks) /\ Len(stacks) \in Nat
      /\ \A i \in DOMAIN stacks : Len(stacks[i]) \in Nat
    BY CodeFacts, PositionsAre
<1>3. walk.si \in Nat /\ walk.si > 0 /\ walk.si <= Len(stacks) /\ walk.cxix \in Nat
    BY <1>1, <1>2
<1>4. CASE walk.cxix > 0
    <2>1. a = At /\ a[2] = walk.cxix
        BY <1>4 DEF SkipStacks, At
    <2>2. At \in Positions
        <3>1. walk.cxix \in 1 .. Len(stacks[walk.si])
            BY <1>1, <1>2, <1>3, <1>4
        <3> QED
            BY <1>1, <3>1, CodeFacts, PositionsAre DEF At
    <2> QED
        BY <1>1, <1>3, <1>4, <2>1, <2>2 DEF Passed, PassedBy
<1>5. CASE walk.cxix = 0
    <2> DEFINE below == {i \in 1 .. walk.si - 1 : DopoptoSub(i, Len(stacks[i])) > 0}
               h == Highest(below)
               d == DopoptoSub(h, Len(stacks[h]))
    <2>1. /\ h \in 0 .. walk.si - 1 /\ (h # 0 => h \in below)
          /\ \A j \in below : j <= h
        <3>1. walk.si - 1 \in Nat /\ below \in SUBSET (1 .. walk.si - 1)
            BY <1>3
        <3> QED
            BY <3>1, HighestFacts
    <2>2. a = IF h = 0 THEN <<1, 0>> ELSE <<h, d>>
        BY <1>5 DEF SkipStacks
    <2>3. h \in Nat /\ h < walk.si /\ (h # 0 => h \in DOMAIN stacks)
        BY <1>2, <1>3, <2>1
    <2>4. ASSUME NEW p \in Code, p[1] < walk.si
          PROVE  p[1] <= h
        <3>1. /\ p[1] \in DOMAIN stacks /\ p[1] \in Nat /\ p[1] > 0 /\ p[2] \in Nat /\ p[2] > 0
              /\ p = <<p[1], p[2]>>
              /\ p[2] \in 1 .. Len(stacks[p[1]]) /\ Cx(p).type \in Units
              /\ Len(stacks[p[1]]) \in 0 .. Len(stacks[p[1]])
            BY <1>2, CodeFacts, CodePosition
        <3>2. /\ p[2] <= DopoptoSub(p[1], Len(stacks[p[1]]))
              /\ DopoptoSub(p[1], Len(stacks[p[1]])) \in 0 .. Len(stacks[p[1]])
            BY <3>1, DopoptoFacts
        <3>3. DopoptoSub(p[1], Len(stacks[p[1]])) > 0
            BY <3>1, <3>2
        <3>4. p[1] \in 1 .. walk.si - 1
            BY <1>3, <2>4, <3>1
        <3>5. p[1] \in below
            BY <3>3, <3>4
        <3> QED
            BY <2>1, <3>5
    <2> HIDE DEF below
    <2>5. \A p \in Code : p[1] \in Nat /\ p[2] \in Nat /\ p[1] > 0 /\ p[2] > 0
        BY CodeFacts, CodePosition
    <2>6. \A p \in Code : p \in Passed <=> p[1] >= walk.si
        BY <1>3, <1>5, <2>5 DEF Passed, Inside, At
    <2>7. CASE h = 0
        <3>1. a[2] = 0
            BY <2>2, <2>7
        <3>2. \A p \in Code : p[1] >= walk.si
            BY <1>3, <2>4, <2>5, <2>7
        <3>3. Passed = Code
            BY <2>6, <3>2 DEF Passed
        <3> QED
            BY <3>1, <3>3
    <2>8. CASE h # 0
        <3>1. a = <<h, d>> /\ a[1] = h /\ a[2] = d
            BY <2>2, <2>8
        <3>2. Len(stacks[h]) \in Nat /\ Len(stacks[h]) \in 0 .. Len(stacks[h])
            BY <1>2, <2>3, <2>8
        <3>3. /\ d \in 0 .. Len(stacks[h])
              /\ d # 0 => <<h, d>> \in Positions /\ Cx(<<h, d>>).type \in Units \cup {"try"}
              /\ \A j \in 1 .. Len(stacks[h]) :
                    Cx(<<h, j>>).type \in Units \cup {"try"} => j <= d
            BY <2>3, <2>8, <3>2, DopoptoFacts
        <3>4. d \in Nat /\ d > 0
            <4>1. d > 0
                BY <2>1, <2>8 DEF below
            <4> QED
                BY <3>2, <3>3, <4>1
        <3> HIDE DEF d, h
        <3>5. a \in Positions /\ Cx(a).type \in Units \cup {"try"}
            BY <3>1, <3>3, <3>4
        <3>6. ASSUME NEW p \in Code
              PROVE  p \in Passed <=> Inside(p, a)
            <4>1. /\ p[1] \in Nat /\ p[2] \in Nat /\ p = <<p[1], p[2]>>
                  /\ p[2] \in 1 .. Len(stacks[p[1]]) /\ Cx(p).type \in Units
                BY CodeFacts, CodePosition
            <4>2. p[1] = h => p[2] <= d
                BY <3>3, <4>1
            <4>3. p[1] < walk.si => p[1] <= h
                BY <2>4
            <4> QED
                BY <1>3, <2>3, <2>6, <3>1, <3>4, <4>1, <4>2, <4>3 DEF Inside
        <3>7. Passed = PassedBy(a)
            BY <3>6 DEF Passed, PassedBy
        <3>8. Cx(a).cv # "DB"
            <4> SUFFICES ASSUME Cx(a).cv = "DB"
                         PROVE  FALSE
                OBVIOUS
            <4>1. a[1] # Len(stacks)
                BY <1>3, <2>3, <3>1
            <4>2. Above(a) \in Positions /\ Cx(Above(a)).type = "sub"
                BY <3>5, <4>1 DEF DebugInv
            <4>3. Above(a) = <<h, d + 1>>
                BY <3>1 DEF Above
            <4>4. d + 1 \in 1 .. Len(stacks[h])
                BY <4>2, <4>3, CodeFacts, PositionsAre
            <4>5. d + 1 <= d
                BY <3>3, <4>2, <4>3, <4>4 DEF Units
            <4> QED
                BY <3>4, <4>5
        <3> QED
            BY <3>1, <3>4, <3>5, <3>7, <3>8
    <2> QED
        BY <2>7, <2>8
<1> QED
    BY <1>3, <1>4, <1>5

(* Where a context was called from, and where the walk goes from there.    *)
LEMMA CallerFacts ==
    ASSUME TypeInv, DebugInv, NEW a \in Positions, Cx(a).type \in Units \cup {"try"},
           ~(debugging /\ Cx(a).cv = "DB"),
           NEW c, c = <<a[1], CallerOf(a[1], a[2])>>,
           NEW b, b = <<a[1], DopoptoSub(a[1], c[2] - 1)>>
    PROVE  /\ c \in Positions
           /\ c = a \/ (debugging /\ Cx(c).cv = "DB" /\ a \in Code)
           /\ a \notin Code => PassedBy(b) = PassedBy(a)
           /\ a \in Code => /\ c \in Code /\ PassedBy(b) = PassedBy(a) \cup {a, c}
                            /\ \A q \in PassedBy(b) : ~Inside(c, q)
           /\ b[1] = a[1] /\ b[2] \in 0 .. Len(stacks[a[1]])
           /\ b[2] # 0 => Cx(b).type \in Units \cup {"try"} /\ Cx(b).cv # "DB"
<1> DEFINE d == DopoptoSub(a[1], a[2] - 1)
           n == <<a[1], d>>
<1>1. a \in Pairs /\ a = <<a[1], a[2]>> /\ Positions \subseteq Pairs /\ Code \subseteq Positions
    BY CodeFacts, CodePosition
<1>2. /\ PassedBy(n) = PassedBy(a) \cup (IF a \in Code THEN {a} ELSE {})
      /\ d \in 0 .. Len(stacks[a[1]])
      /\ d # 0 => n \in Positions /\ Cx(n).type \in Units \cup {"try"}
    BY NextDown
<1>3. d \in Nat
    BY <1>1, <1>2, CodePosition
<1>4. d # 0 /\ Cx(n).cv = "DB" => debugging /\ Cx(a).type = "sub" /\ Cx(a).cv # "DB"
    BY DebuggerCalls
<1>5. CallerOf(a[1], a[2]) = IF debugging /\ d > 0 /\ Cx(n).cv = "DB" THEN d ELSE a[2]
    BY DEF CallerOf, Cx
<1> HIDE DEF d
<1>6. \A q \in PassedBy(a) : Inside(q, a) /\ ~Inside(a, q) /\ q \in Code
    BY <1>1, Order DEF PassedBy
<1>7. CASE ~(d # 0 /\ Cx(n).cv = "DB")
    <2>1. c = a /\ b = n
        BY <1>1, <1>3, <1>5, <1>7 DEF d
    <2>2. b[1] = a[1] /\ b[2] = d
        BY <2>1
    <2>3. ~Inside(a, a)
        BY <1>1, Order
    <2> HIDE DEF n
    <2> QED
        BY <1>2, <1>6, <1>7, <2>1, <2>2, <2>3
<1>8. CASE d # 0 /\ Cx(n).cv = "DB"
    <2>1. c = n /\ debugging /\ d > 0 /\ c[1] = a[1] /\ c[2] = d
        BY <1>3, <1>4, <1>5, <1>8
    <2>2. c \in Positions /\ Cx(c).cv = "DB" /\ Cx(c).type \in Units \cup {"try"}
        BY <1>2, <1>8, <2>1
    <2>3. Cx(c).type = "sub" /\ c \in Code /\ a \in Code
        BY <1>1, <1>4, <1>8, <2>2, CodeFacts DEF ContextOK, NoSub, Code, Units
    <2>4. b = <<c[1], DopoptoSub(c[1], c[2] - 1)>>
        BY <2>1
    <2>5. /\ PassedBy(b) = PassedBy(c) \cup {c} /\ b[1] = c[1]
          /\ b[2] \in 0 .. Len(stacks[b[1]])
          /\ b[2] # 0 => b \in Positions /\ Cx(b).type \in Units \cup {"try"}
        BY <2>2, <2>3, <2>4, NextDown
    <2>6. PassedBy(c) = PassedBy(a) \cup {a}
        BY <1>2, <2>1, <2>3
    <2>7. b[2] # 0 => Cx(b).cv # "DB"
        <3>1. b = <<c[1], b[2]>> /\ b[2] = DopoptoSub(c[1], c[2] - 1)
            BY <2>4
        <3> QED
            BY <2>2, <3>1, DebuggerCalls
    <2>8. \A q \in PassedBy(b) : ~Inside(c, q)
        <3>1. \A q \in PassedBy(c) : Inside(q, c) /\ q \in Code
            BY DEF PassedBy
        <3> QED
            BY <1>1, <2>2, <2>5, <3>1, Order
    <2>9. PassedBy(b) = PassedBy(a) \cup {a, c}
        BY <2>5, <2>6
    <2> QED
        BY <2>1, <2>2, <2>3, <2>5, <2>7, <2>8, <2>9
<1> QED
    BY <1>7, <1>8

(* The line of the walk is where a context is, or it was just called.      *)
LEMMA LineFacts ==
    ASSUME TypeInv, LinesInv, NEW a \in Code, NEW line, Known(PassedBy(a), line)
    PROVE  IsAt(a, line) \/ (JustCalled(a) /\ line = curcop)
<1>1. CASE PassedBy(a) = {} /\ line = curcop
    <2>1. Innermost(a)
        BY <1>1 DEF PassedBy, Innermost
    <2> QED
        BY <1>1, <2>1 DEF LinesInv
<1>2. CASE \E q \in PassedBy(a) : (\A r \in PassedBy(a) : ~Inside(q, r)) /\ line = Cx(q).oldcop
    <2>1. PICK q \in PassedBy(a) : (\A r \in PassedBy(a) : ~Inside(q, r)) /\ line = Cx(q).oldcop
        BY <1>2
    <2>2. q \in Code /\ Calls(a, q)
        BY <2>1 DEF PassedBy, Calls
    <2> QED
        BY <2>1, <2>2 DEF LinesInv
<1> QED
    BY <1>1, <1>2 DEF Known

LEMMA MainLine ==
    ASSUME TypeInv, LinesInv, NEW line, Known(Code, line)
    PROVE  MainAt(line)
<1>1. CASE Code = {} /\ line = curcop
    BY <1>1 DEF LinesInv
<1>2. CASE \E q \in Code : (\A r \in Code : ~Inside(q, r)) /\ line = Cx(q).oldcop
    BY <1>2 DEF LinesInv, Outermost
<1> QED
    BY <1>1, <1>2 DEF Known

(* A call to &DB::sub is the innermost context only in the debugger.       *)
LEMMA InnermostDebugger ==
    ASSUME TypeInv, LinesInv, DebugInv, NEW a \in Code, Innermost(a), Cx(a).cv = "DB"
    PROVE  /\ InDebugger
           /\ start = NoSub => curcop[1] = "DB"
           /\ start # NoSub => Cx(a).oldcop = curcop
<1>1. Cx(a) \in ContextTypes /\ ContextOK(Cx(a)) /\ Cx(a).type \in Units /\ a \in Positions
    BY CodeFacts
<1>2. CASE start = NoSub
    <2>1. IsAt(a, curcop) /\ Cx(a).at # Nowhere
        BY <1>1, <1>2 DEF LinesInv, DebugInv
    <2>2. curcop = Cx(a).at
        BY <2>1 DEF IsAt
    <2> QED
        BY <1>1, <1>2, <2>1, <2>2, AtFacts DEF InDebugger
<1>3. CASE start # NoSub
    BY <1>3 DEF LinesInv, JustCalled, InDebugger
<1> QED
    BY <1>2, <1>3

-----------------------------------------------------------------------------
(* Counting frames                                                         *)

LEMMA EnteredFinite ==
    ASSUME TypeInv
    PROVE  /\ IsFiniteSet(Entered) /\ Cardinality(Entered) \in Nat
           /\ Entered \subseteq Code /\ Entered \subseteq Pairs
<1> DEFINE f == [i \in DOMAIN stacks |-> {i} \X DOMAIN stacks[i]]
           S == {{i} \X DOMAIN stacks[i] : i \in DOMAIN stacks}
<1>1. /\ DOMAIN stacks = 1 .. Len(stacks) /\ Len(stacks) \in Nat
      /\ \A i \in DOMAIN stacks : stacks[i] \in Seq(ContextTypes) /\ Len(stacks[i]) \in Nat
    BY CodeFacts, PositionsAre
<1>2. \A n \in Nat : IsFiniteSet(1 .. n)
    <2> TAKE n \in Nat
    <2>1. 1 \in Int /\ n \in Int
        OBVIOUS
    <2> QED
        BY <2>1, FS_Interval
<1>3. IsFiniteSet(DOMAIN stacks)
    BY <1>1, <1>2
<1>4. f \in Surjection(DOMAIN stacks, S)
    BY DEF Surjection
<1>5. IsFiniteSet(S)
    BY <1>3, <1>4, FS_Surjection, Zenon
<1>6. ASSUME NEW i \in DOMAIN stacks
      PROVE  IsFiniteSet({i} \X DOMAIN stacks[i])
    <2>1. DOMAIN stacks[i] = 1 .. Len(stacks[i])
        BY <1>1
    <2>2. IsFiniteSet(DOMAIN stacks[i])
        BY <1>1, <1>2, <2>1
    <2>3. IsFiniteSet({i})
        BY FS_Singleton
    <2> QED
        BY <2>2, <2>3, FS_Product
<1>7. IsFiniteSet(UNION S)
    BY <1>5, <1>6, FS_UNION
<1>8. Entered \subseteq UNION S
    BY DEF Entered, Positions
<1>9. IsFiniteSet(Entered)
    BY <1>7, <1>8, FS_Subset
<1> QED
    BY <1>9, FS_CardinalityType, CodeFacts DEF Entered, Code

(* The rank of a context that the walk has passed, that it is at, and that *)
(* it has not reached.                                                     *)
LEMMA RankFacts ==
    ASSUME TypeInv, NEW x \in Pairs, NEW T, T = Entered \cap PassedBy(x)
    PROVE  /\ IsFiniteSet(T) /\ Cardinality(T) \in Nat /\ Cardinality(T) <= Cardinality(Entered)
           /\ \A p \in T : Rank(p) \in 1 .. Cardinality(T)
           /\ x \in Entered => Rank(x) = Cardinality(T) + 1
           /\ \A p \in Entered \ T : Rank(p) \in Nat /\ Rank(p) > Cardinality(T)
<1> DEFINE U(p) == {q \in Entered : Inside(q, p)}
<1>1. /\ IsFiniteSet(Entered) /\ Cardinality(Entered) \in Nat
      /\ Entered \subseteq Code /\ Entered \subseteq Pairs
    BY EnteredFinite
<1>2. \A S \in SUBSET Entered :
         /\ IsFiniteSet(S) /\ Cardinality(S) \in Nat /\ Cardinality(S) <= Cardinality(Entered)
    BY <1>1, FS_Subset, FS_CardinalityType
<1>3. T \in SUBSET Entered /\ \A p : p \in T <=> p \in Entered /\ Inside(p, x)
    BY <1>1 DEF PassedBy
<1>4. \A p : Rank(p) = Cardinality(U(p)) + 1 /\ U(p) \in SUBSET Entered
    BY DEF Rank
<1>5. ASSUME NEW p \in T
      PROVE  Rank(p) \in 1 .. Cardinality(T)
    <2>1. U(p) \subseteq T \ {p}
        BY <1>1, <1>3, <1>5, Order
    <2>2. /\ IsFiniteSet(T) /\ Cardinality(T) \in Nat
          /\ Cardinality(U(p)) \in Nat /\ Cardinality(T \ {p}) \in Nat
        <3>1. T \ {p} \in SUBSET Entered
            BY <1>3
        <3> QED
            BY <1>2, <1>3, <1>4, <3>1
    <2>3. Cardinality(T \ {p}) = Cardinality(T) - 1 /\ IsFiniteSet(T \ {p})
        BY <1>5, <2>2, FS_RemoveElement
    <2>4. Cardinality(U(p)) <= Cardinality(T \ {p})
        BY <2>1, <2>3, FS_Subset
    <2> HIDE DEF U
    <2> QED
        BY <1>4, <2>2, <2>3, <2>4
<1>6. x \in Entered => Rank(x) = Cardinality(T) + 1
    <2>1. U(x) = T
        BY <1>3
    <2> QED
        BY <1>4, <2>1
<1>7. ASSUME NEW p \in Entered \ T
      PROVE  Rank(p) \in Nat /\ Rank(p) > Cardinality(T)
    <2>1. p = x \/ Inside(x, p)
        BY <1>1, <1>3, <1>7, Order
    <2>2. T \subseteq U(p)
        BY <1>1, <1>3, <2>1, Order
    <2>3. IsFiniteSet(U(p)) /\ Cardinality(U(p)) \in Nat /\ Cardinality(T) \in Nat
        BY <1>2, <1>3, <1>4
    <2>4. Cardinality(T) <= Cardinality(U(p))
        BY <2>2, <2>3, FS_Subset
    <2> HIDE DEF U
    <2> QED
        BY <1>4, <2>3, <2>4
<1> QED
    BY <1>2, <1>3, <1>5, <1>6, <1>7

(* The frames of the entered contexts that the walk has passed, and what   *)
(* FramesTrue says of all of them.                                         *)
FramesOf(x, frames) ==
    /\ Len(frames) = Cardinality(Entered \cap PassedBy(x))
    /\ \A p \in Entered \cap PassedBy(x) : frames[Rank(p)] = FrameOf(Cx(p), Cx(p).at)

All == Cardinality(Entered) + (IF main = Nowhere THEN 0 ELSE 1)
TrueUpTo(frames, limit) ==
    /\ Len(frames) = IF All < limit THEN All ELSE limit
    /\ \A p \in Entered : Rank(p) <= limit =>
          frames[Rank(p)] = FrameOf(Cx(p), Cx(p).at)
    /\ main # Nowhere /\ All <= limit => frames[All] = Frame("MAIN", NoSub, main)

LEMMA FramesGrow ==
    ASSUME TypeInv, NEW a \in Pairs, NEW b \in Pairs, NEW frames \in Seq(Frames),
           NEW new \in Seq(Frames), FramesOf(a, frames),
           Entered \cap PassedBy(b) = (Entered \cap PassedBy(a)) \cup (Entered \cap {a}),
           new = IF a \in Entered THEN Append(frames, FrameOf(Cx(a), Cx(a).at)) ELSE frames
    PROVE  FramesOf(b, new)
<1> DEFINE T == Entered \cap PassedBy(a)
<1>1. /\ IsFiniteSet(T) /\ Cardinality(T) \in Nat
      /\ \A p \in T : Rank(p) \in 1 .. Cardinality(T)
      /\ a \in Entered => Rank(a) = Cardinality(T) + 1
    BY RankFacts
<1>2. Len(frames) = Cardinality(T) /\ \A p \in T : frames[Rank(p)] = FrameOf(Cx(p), Cx(p).at)
    BY DEF FramesOf
<1>3. a \notin T
    BY Order DEF PassedBy
<1> HIDE DEF T
<1>4. CASE a \in Entered
    <2>1. Entered \cap PassedBy(b) = T \cup {a}
        BY <1>4 DEF T
    <2>2. Cardinality(T \cup {a}) = Cardinality(T) + 1
        BY <1>1, <1>3, FS_AddElement
    <2>3. new = Append(frames, FrameOf(Cx(a), Cx(a).at))
        BY <1>4
    <2>4. /\ Len(new) = Len(frames) + 1
          /\ new[Len(frames) + 1] = FrameOf(Cx(a), Cx(a).at)
          /\ \A i \in 1 .. Len(frames) : new[i] = frames[i]
        BY <2>3
    <2>5. \A p \in T \cup {a} : new[Rank(p)] = FrameOf(Cx(p), Cx(p).at)
        BY <1>1, <1>2, <1>4, <2>4
    <2> QED
        BY <1>2, <2>1, <2>2, <2>4, <2>5 DEF FramesOf
<1>5. CASE a \notin Entered
    <2>1. Entered \cap PassedBy(b) = T /\ new = frames
        BY <1>5 DEF T
    <2> QED
        BY <1>2, <2>1 DEF FramesOf
<1> QED
    BY <1>4, <1>5

(* At the depth, and at the main program.                                  *)
LEMMA DepthReached ==
    ASSUME TypeInv, NEW x \in Pairs, NEW frames, NEW limit \in Nat,
           FramesOf(x, frames), Len(frames) = limit
    PROVE  TrueUpTo(frames, limit)
<1> DEFINE T == Entered \cap PassedBy(x)
<1>1. /\ Cardinality(T) \in Nat /\ Cardinality(T) <= Cardinality(Entered)
      /\ \A p \in Entered \ T : Rank(p) \in Nat /\ Rank(p) > Cardinality(T)
    BY RankFacts
<1>2. Cardinality(T) = limit /\ \A p \in T : frames[Rank(p)] = FrameOf(Cx(p), Cx(p).at)
    BY DEF FramesOf
<1>3. Cardinality(Entered) \in Nat
    BY EnteredFinite
<1>4. All \in Nat /\ limit <= All /\ (main # Nowhere => limit < All)
    BY <1>1, <1>2, <1>3 DEF All
<1>5. ASSUME NEW p \in Entered, Rank(p) <= limit
      PROVE  p \in T
    <2> SUFFICES ASSUME p \notin T
                 PROVE  FALSE
        OBVIOUS
    <2>1. Rank(p) \in Nat /\ Rank(p) > limit
        BY <1>1, <1>2
    <2> QED
        BY <1>5, <2>1
<1> HIDE DEF T
<1>6. Len(frames) = IF All < limit THEN All ELSE limit
    BY <1>4
<1>7. ~(main # Nowhere /\ All <= limit)
    BY <1>4
<1> QED
    BY <1>2, <1>5, <1>6, <1>7 DEF TrueUpTo

LEMMA MainReached ==
    ASSUME TypeInv, NEW x \in Pairs, NEW frames \in Seq(Frames), NEW limit \in Nat, NEW new,
           FramesOf(x, frames), Code \subseteq PassedBy(x), Len(frames) < limit,
           new = IF main = Nowhere THEN frames
                 ELSE Append(frames, Frame("MAIN", NoSub, main)),
           new \in Seq(Frames)
    PROVE  TrueUpTo(new, limit)
<1>1. Entered \cap PassedBy(x) = Entered
    BY EnteredFinite
<1>2. /\ Cardinality(Entered) \in Nat
      /\ \A p \in Entered : Rank(p) \in 1 .. Cardinality(Entered)
    BY <1>1, RankFacts
<1>3. /\ Len(frames) = Cardinality(Entered)
      /\ \A p \in Entered : frames[Rank(p)] = FrameOf(Cx(p), Cx(p).at)
    BY <1>1 DEF FramesOf
<1>4. CASE main = Nowhere
    <2>1. All = Cardinality(Entered) /\ new = frames
        BY <1>2, <1>4 DEF All
    <2> QED
        BY <1>2, <1>3, <1>4, <2>1 DEF TrueUpTo
<1>5. CASE main # Nowhere
    <2>1. All = Len(frames) + 1 /\ Len(frames) \in Nat
        BY <1>2, <1>3, <1>5 DEF All
    <2>2. new = Append(frames, Frame("MAIN", NoSub, main))
        BY <1>5
    <2>3. /\ Len(new) = Len(frames) + 1
          /\ new[Len(frames) + 1] = Frame("MAIN", NoSub, main)
          /\ \A i \in 1 .. Len(frames) : new[i] = frames[i]
        BY <2>2
    <2>4. \A p \in Entered : new[Rank(p)] = FrameOf(Cx(p), Cx(p).at)
        BY <1>2, <1>3, <2>3
    <2>5. Len(new) = IF All < limit THEN All ELSE limit
        BY <2>1, <2>3
    <2> QED
        BY <2>1, <2>3, <2>4, <2>5 DEF TrueUpTo
<1> QED
    BY <1>4, <1>5

-----------------------------------------------------------------------------
(* Sources of evals                                                        *)

Collected == [evalseq : Nat, sub_gen : Nat, saved : BOOLEAN]

LEMMA EvalFacts ==
    ASSUME TypeInv, NEW p \in Positions, Cx(p).type = "eval"
    PROVE  /\ Cx(p).text \in Texts /\ Cx(p).number \in 1 .. evalseq /\ Cx(p).number # 0
           /\ Cx(p).number \in Nat
           /\ collected[Cx(p).text] \in Collected
           /\ \A q \in Positions : Cx(q).text = Cx(p).text => q = p
<1>1. Cx(p) \in ContextTypes /\ ContextOK(Cx(p)) /\ evalseq \in Nat
    BY CodeFacts DEF TypeInv
<1>2. Cx(p).text # NoText /\ Cx(p).number # 0 /\ Cx(p).number <= evalseq
    BY <1>1 DEF ContextOK
<1>3. Cx(p).text \in Texts /\ Cx(p).number \in Nat
    BY <1>1, <1>2 DEF ContextTypes
<1>4. collected[Cx(p).text] \in Collected
    BY <1>3 DEF TypeInv, Collected
<1>5. \A q \in Positions : Cx(q).text = Cx(p).text => q = p
    BY <1>2 DEF TypeInv, StacksOK
<1> QED
    BY <1>1, <1>2, <1>3, <1>4, <1>5

(* EvalsInv where nothing of the evals changes.                            *)
LEMMA EvalsKept ==
    ASSUME EvalsInv,
           \A p \in Positions' : Now(p).type = "eval" =>
              /\ p \in Positions /\ Cx(p).type = "eval" /\ Now(p).text = Cx(p).text
              /\ Now(p).number = Cx(p).number,
           \A n \in Ended' : n \in Ended,
           UNCHANGED <<sub_gen, source_code_kind, enabled, collected, hooked, sources, defined,
                       missed>>
    PROVE  EvalsInv'
<1>1. ASSUME NEW p \in Positions', Now(p).type = "eval"
      PROVE  Marked(Cx(p))' => MarkOK(Cx(p))'
    <2>1. /\ p \in Positions /\ Cx(p).type = "eval" /\ Now(p).text = Cx(p).text
          /\ Now(p).number = Cx(p).number
        BY <1>1
    <2>2. Marked(Cx(p)) => MarkOK(Cx(p))
        BY <2>1 DEF EvalsInv
    <2>3. Now(p) = Cx(p)'
        BY DEF Now, Cx
    <2> QED
        BY <2>1, <2>2, <2>3 DEF Marked, MarkOK
<1>2. SubsHaveSource'
    BY DEF EvalsInv, SubsHaveSource
<1> QED
    BY <1>1, <1>2 DEF EvalsInv, Now, Cx

LEMMA PlainOpenedEvals ==
    ASSUME TypeInv, EvalsInv, NEW p, NEW cx, Opened(p, cx), cx.type # "eval", cx.number = 0,
           UNCHANGED <<evalseq, sub_gen, source_code_kind, enabled, collected, hooked, sources,
                       defined, missed>>
    PROVE  EvalsInv'
<1>1. /\ Positions' = Positions \cup {p} /\ Now(p) = cx
      /\ \A q \in Positions : Now(q) = Cx(q)
    BY DEF Opened, Pushed
<1>2. \A n \in Ended' : n \in Ended
    <2>1. \A q \in Positions : Cx(q)' = Cx(q)
        BY <1>1 DEF Now, Cx
    <2> QED
        BY <1>1, <2>1 DEF Ended
<1>3. \A q \in Positions' : Now(q).type = "eval" => q \in Positions /\ Now(q) = Cx(q)
    BY <1>1
<1> QED
    BY <1>2, <1>3, EvalsKept

LEMMA NextStateEvals ==
    ASSUME TypeInv, EvalsInv, NEW l \in Lines, NextState(l)
    PROVE  EvalsInv'
<1>1. UNCHANGED <<evalseq, sub_gen, source_code_kind, enabled, collected, hooked, sources,
                  defined, missed>>
    BY DEF NextState
<1>2. /\ Positions' = Positions
      /\ \A q \in Positions : /\ Now(q).type = Cx(q).type /\ Now(q).text = Cx(q).text
                              /\ Now(q).number = Cx(q).number
    <2>1. CASE Code = {}
        <3>1. UNCHANGED stacks
            BY <2>1, NextStateMoves
        <3> QED
            BY <3>1 DEF Positions, Now, Cx
    <2>2. CASE Code # {}
        <3>1. PICK p \in Code : Moved(p, curcop')
            BY <2>2, NextStateMoves
        <3>2. \A q \in Positions : Cx(q) \in ContextTypes
            BY CodeFacts
        <3> QED
            BY <3>1, <3>2 DEF Moved, ContextTypes
    <2> QED
        BY <2>1, <2>2
<1>3. \A n \in Ended' : n \in Ended
    <2>1. \A q \in Positions : Cx(q)'.number = Cx(q).number
        BY <1>2 DEF Now, Cx
    <2> QED
        BY <1>1, <1>2, <2>1 DEF Ended
<1> QED
    BY <1>1, <1>2, <1>3, EvalsKept

LEMMA StillEvals ==
    ASSUME EvalsInv, UNCHANGED <<stacks, evalseq, sub_gen, source_code_kind, enabled, collected,
                                 hooked, sources, defined, missed>>
    PROVE  EvalsInv'
<1>1. Positions' = Positions /\ \A q \in Positions : Now(q) = Cx(q)
    BY DEF Positions, Now, Cx
<1>2. Ended' = Ended
    BY DEF Ended, Positions, Cx
<1> QED
    BY <1>1, <1>2, EvalsKept

LEMMA EvalOpenedEvals ==
    ASSUME TypeInv, EvalsInv, NEW s \in Texts, EvalString(s), NEW p, NEW cx, Opened(p, cx),
           cx.type = "eval", cx.text = s, cx.number = evalseq'
    PROVE  EvalsInv'
<1>1. /\ Positions' = Positions \cup {p} /\ Now(p) = cx
      /\ \A q \in Positions : Now(q) = Cx(q)
    BY DEF Opened, Pushed
<1>2. /\ evalseq' = evalseq + 1 /\ evalseq \in Nat
      /\ collected' = IF Marks THEN [collected EXCEPT ![s] = Overwritten(@)] ELSE collected
      /\ hooked' = IF Hooks THEN hooked \cup {evalseq'} ELSE hooked
      /\ UNCHANGED <<sub_gen, source_code_kind, enabled, sources, defined, missed>>
      /\ \A q \in Positions : Cx(q).text # s
      /\ defined \subseteq 1 .. evalseq /\ hooked \subseteq 1 .. evalseq
      /\ collected \in [Texts -> Collected] /\ sub_gen \in Nat
    BY DEF EvalString, TypeInv, Collected
<1>3. /\ Marks => collected'[s] = [evalseq |-> evalseq', sub_gen |-> sub_gen, saved |-> FALSE]
      /\ \A t \in Texts : t # s => collected'[t] = collected[t]
      /\ ~Marks => collected'[s] = collected[s]
    BY <1>2 DEF Overwritten
<1>4. \A t \in Texts : collected'[t].sub_gen <= sub_gen'
    BY <1>2, <1>3 DEF EvalsInv
<1>5. ASSUME NEW q \in Positions', Now(q).type = "eval"
      PROVE  Marked(Cx(q))' => MarkOK(Cx(q))'
    <2>1. Now(q) = Cx(q)'
        BY DEF Now, Cx
    <2>2. CASE q = p
        <3>1. evalseq' \notin hooked
            BY <1>2
        <3>2. Marked(Cx(q))' => Marks
            BY <1>1, <1>2, <2>1, <2>2, <3>1 DEF Marked, Hooks, Marks
        <3>3. evalseq' \notin defined
            BY <1>2
        <3> QED
            BY <1>1, <1>2, <1>3, <2>1, <2>2, <3>2, <3>3 DEF MarkOK
    <2>3. CASE q # p
        <3>1. q \in Positions /\ Now(q) = Cx(q)
            BY <1>1, <2>3
        <3>2. Marked(Cx(q)) => MarkOK(Cx(q))
            BY <1>5, <3>1 DEF EvalsInv
        <3>3. collected'[Cx(q).text] = collected[Cx(q).text]
            BY <1>2, <1>3, <1>5, <3>1, EvalFacts
        <3>4. Cx(q).number \in hooked' => Cx(q).number \in hooked
            <4>1. Cx(q).number \in Nat /\ Cx(q).number <= evalseq
                BY <1>5, <3>1, EvalFacts
            <4> QED
                BY <1>2, <4>1
        <3> QED
            BY <1>2, <2>1, <3>1, <3>2, <3>3, <3>4 DEF Marked, MarkOK
    <2> QED
        BY <2>2, <2>3
<1>6. SubsHaveSource'
    <2>1. ASSUME NEW n \in defined, n \in Ended', n \in hooked'
          PROVE  n \in Ended /\ n \in hooked
        <3>1. \A q \in Positions : Cx(q).number # n
            BY <1>1, <2>1 DEF Ended, Now, Cx
        <3>2. n \in 1 .. evalseq /\ n # evalseq'
            BY <1>2
        <3> QED
            BY <1>2, <2>1, <3>1, <3>2 DEF Ended
    <2> QED
        BY <1>2, <2>1 DEF EvalsInv, SubsHaveSource
<1> QED
    BY <1>2, <1>4, <1>5, <1>6 DEF EvalsInv, Now, Cx

LEMMA DefineSubEvals ==
    ASSUME TypeInv, EvalsInv, DefineSub
    PROVE  EvalsInv' /\ defined' \subseteq 1 .. evalseq
<1>1. /\ unit > 0 /\ top[unit].type = "eval"
      /\ sub_gen' = sub_gen + 1 /\ defined' = defined \cup {top[unit].number}
      /\ UNCHANGED <<stacks, evalseq, source_code_kind, enabled, collected, hooked, sources, missed>>
    BY DEF DefineSub
<1>2. Positions' = Positions /\ \A q : Cx(q)' = Cx(q)
    BY <1>1 DEF Positions, Cx
<1>3. PICK p \in Positions : Cx(p) = top[unit]
    <2>1. unit # 0
        BY <1>1, UnitFacts
    <2> QED
        BY <2>1, UnitFacts, CodeFacts
<1>4. Cx(p).number \in 1 .. evalseq /\ Cx(p).number \notin Ended /\ defined \subseteq 1 .. evalseq
    BY <1>1, <1>3, EvalFacts DEF Ended, TypeInv
<1>5. /\ sub_gen \in Nat
      /\ \A s \in Texts : collected[s] \in Collected /\ collected[s].sub_gen <= sub_gen
    BY DEF TypeInv, Collected, EvalsInv
<1>6. \A s \in Texts : collected[s].sub_gen <= sub_gen' /\ collected[s].sub_gen # sub_gen'
    BY <1>1, <1>5 DEF Collected
<1>7. ASSUME NEW q \in Positions', Cx(q).type = "eval"
      PROVE  Marked(Cx(q))' => MarkOK(Cx(q))'
    <2>1. Marked(Cx(q)) => MarkOK(Cx(q))
        BY <1>2, <1>7 DEF EvalsInv
    <2>2. Cx(q).text \in Texts
        BY <1>2, <1>7, EvalFacts
    <2> QED
        BY <1>1, <1>2, <1>6, <2>1, <2>2 DEF Marked, MarkOK
<1>8. Ended' = Ended
    BY <1>1, <1>2 DEF Ended
<1>9. SubsHaveSource'
    BY <1>1, <1>3, <1>4, <1>8 DEF EvalsInv, SubsHaveSource
<1> QED
    BY <1>1, <1>2, <1>3, <1>4, <1>6, <1>7, <1>9 DEF EvalsInv

LEMMA SetEnabledEvals ==
    ASSUME TypeInv, EvalsInv, SetEnabled
    PROVE  EvalsInv'
<1>1. /\ enabled \/ SwitchInside \/ ~InEval
      /\ enabled' = ~enabled
      /\ UNCHANGED <<stacks, evalseq, sub_gen, source_code_kind, collected, hooked, sources,
                     defined, missed>>
    BY DEF SetEnabled, perl
<1>2. Positions' = Positions /\ \A q : Cx(q)' = Cx(q)
    BY <1>1 DEF Positions, Cx
<1>3. ASSUME NEW q \in Positions', Cx(q).type = "eval"
      PROVE  Marked(Cx(q))' => MarkOK(Cx(q))'
    <2>1. Marked(Cx(q)) => MarkOK(Cx(q))
        BY <1>2, <1>3 DEF EvalsInv
    <2>2. Marked(Cx(q))' => Marked(Cx(q))
        <3>1. enabled \/ SwitchInside
            BY <1>1, <1>2, <1>3 DEF InEval
        <3> QED
            BY <1>1, <1>2, <3>1 DEF Marked
    <2> QED
        BY <1>1, <1>2, <2>1, <2>2 DEF MarkOK
<1>4. SubsHaveSource'
    BY <1>1, <1>2 DEF EvalsInv, SubsHaveSource, Ended
<1> QED
    BY <1>1, <1>2, <1>3, <1>4 DEF EvalsInv

(* Where source_code_kind may not change inside of an eval there is none.  *)
LEMMA SetSaveSourceEvals ==
    ASSUME TypeInv, EvalsInv, NEW kind \in Kinds, SetSaveSource(kind)
    PROVE  EvalsInv'
<1>1. /\ SwitchInside \/ ~InEval
      /\ UNCHANGED <<stacks, evalseq, sub_gen, enabled, collected, hooked, sources, defined,
                     missed>>
    BY DEF SetSaveSource, perl
<1>2. Positions' = Positions /\ \A q : Cx(q)' = Cx(q)
    BY <1>1 DEF Positions, Cx
<1>3. ASSUME NEW q \in Positions', Cx(q).type = "eval"
      PROVE  Marked(Cx(q))' => MarkOK(Cx(q))'
    <2>1. Marked(Cx(q)) => MarkOK(Cx(q))
        BY <1>2, <1>3 DEF EvalsInv
    <2>2. SwitchInside
        BY <1>1, <1>2, <1>3 DEF InEval
    <2>3. Marked(Cx(q))' => Marked(Cx(q))
        BY <1>1, <1>2, <2>2 DEF Marked
    <2> QED
        BY <1>1, <1>2, <2>1, <2>3 DEF MarkOK
<1>4. SubsHaveSource'
    BY <1>1, <1>2 DEF EvalsInv, SubsHaveSource, Ended
<1> QED
    BY <1>1, <1>2, <1>3, <1>4 DEF EvalsInv

(* An eval that has ended is saved when its number is one of those that    *)
(* defined a sub.                                                          *)
LEMMA LeaveEvals ==
    ASSUME TypeInv, EvalsInv, Leave, NEW p, Closed(p)
    PROVE  /\ EvalsInv' /\ collected' \in [Texts -> Collected] /\ sources' \subseteq Nat \X Nat
           /\ sources \subseteq sources' /\ missed' \subseteq hooked'
<1> DEFINE cx == Cx(p)
           c == collected[cx.text]
           n == cx.number
<1>1. /\ p \in Positions /\ Positions' = Positions \ {p} /\ p = <<Len(stacks), Len(top)>>
      /\ \A q \in Positions' : Now(q) = Cx(q)
    BY DEF Closed, Popped
<1>2. /\ WriteEvalIfNeeded(cx)
      /\ UNCHANGED <<evalseq, sub_gen, source_code_kind, enabled, hooked, defined>>
    <2>1. cx = top[Len(top)]
        BY <1>1 DEF Cx, top
    <2> QED
        BY <2>1 DEF Leave
<1>3. /\ collected \in [Texts -> Collected] /\ sources \subseteq Nat \X Nat
      /\ sub_gen \in Nat /\ evalseq \in Nat /\ missed \subseteq hooked
    BY DEF TypeInv, Collected
<1>4. \A q \in Positions' : q \in Positions /\ q # p /\ Cx(q)' = Cx(q)
    BY <1>1 DEF Now, Cx
<1>5. ASSUME NEW k \in Ended', k \in defined
      PROVE  k \in Ended \/ (k = n /\ cx.type = "eval")
    <2>1. k \in 1 .. evalseq /\ \A q \in Positions' : Cx(q).number # k
        BY <1>2, <1>4, <1>5 DEF Ended
    <2>2. CASE k = n
        <3>1. n # 0
            BY <1>3, <2>1, <2>2
        <3>2. cx.type = "eval"
            BY <1>1, <3>1, CodeFacts DEF ContextOK
        <3> QED
            BY <2>2, <3>2
    <2>3. CASE k # n
        BY <1>1, <2>1, <2>3 DEF Ended
    <2> QED
        BY <2>2, <2>3
<1> HIDE DEF cx
<1>6. CASE cx.type = "eval" /\ n \in hooked /\ c # Nothing
    <2>1. /\ cx.text \in Texts /\ n \in Nat /\ c \in Collected
          /\ \A q \in Positions : Cx(q).text = cx.text => q = p
        BY <1>1, <1>6, EvalFacts DEF cx
    <2>2. /\ collected' = [collected EXCEPT ![cx.text].saved = TRUE]
          /\ \/ /\ sources' = IF Needed(c) THEN sources \cup {<<c.evalseq, n>>} ELSE sources
                /\ missed' = missed
             \/ Needed(c) /\ missed' = missed \cup {n} /\ sources' = sources
        BY <1>2, <1>6 DEF WriteEvalIfNeeded
    <2>3. MarkOK(cx)
        BY <1>1, <1>6 DEF EvalsInv, Marked, cx
    <2>4. /\ c.evalseq = n /\ (c.saved => <<n, n>> \in sources)
          /\ n \in defined => c.sub_gen # sub_gen
        BY <2>3 DEF MarkOK
    <2>5. /\ \A t \in Texts : /\ t # cx.text => collected'[t] = collected[t]
                              /\ collected'[t].evalseq = collected[t].evalseq
                              /\ collected'[t].sub_gen = collected[t].sub_gen
          /\ collected' \in [Texts -> Collected]
        BY <1>3, <2>1, <2>2 DEF Collected
    <2>6. /\ sources \subseteq sources' /\ sources' \subseteq Nat \X Nat
          /\ \A x \in sources' : x \in sources \/ x = <<n, n>>
        BY <1>3, <2>1, <2>2, <2>4
    <2>7. /\ n \in defined /\ n \notin missed' => <<n, n>> \in sources'
          /\ missed \subseteq missed' /\ missed' \subseteq hooked
        BY <1>3, <1>6, <2>2, <2>4, <2>6 DEF Needed
    <2>8. ASSUME NEW q \in Positions', Cx(q).type = "eval"
          PROVE  Marked(Cx(q))' => MarkOK(Cx(q))'
        <3>1. Marked(Cx(q)) => MarkOK(Cx(q))
            BY <1>4, <2>8 DEF EvalsInv
        <3>2. collected'[Cx(q).text] = collected[Cx(q).text]
            <4>1. q \in Positions /\ Cx(q).text \in Texts /\ Cx(q).text # cx.text
                BY <1>4, <2>1, <2>8, EvalFacts
            <4> QED
                BY <2>5, <4>1
        <3> QED
            BY <1>2, <1>4, <2>6, <3>1, <3>2 DEF Marked, MarkOK
    <2>9. SubsHaveSource'
        BY <1>2, <1>5, <2>6, <2>7 DEF EvalsInv, SubsHaveSource
    <2>10. ~SwitchInside => \A x \in sources' : x[1] = x[2]
        BY <2>6 DEF EvalsInv
    <2>11. \A t \in Texts : collected'[t].sub_gen <= sub_gen'
        BY <1>2, <2>5 DEF EvalsInv
    <2> QED
        BY <1>2, <1>4, <2>5, <2>6, <2>7, <2>8, <2>9, <2>10, <2>11 DEF EvalsInv
<1>7. CASE ~(cx.type = "eval" /\ n \in hooked /\ c # Nothing)
    <2>1. UNCHANGED <<sources, collected, missed>>
        BY <1>2, <1>7 DEF WriteEvalIfNeeded
    <2>2. ASSUME NEW q \in Positions', Cx(q).type = "eval"
          PROVE  Marked(Cx(q))' => MarkOK(Cx(q))'
        <3>1. Marked(Cx(q)) => MarkOK(Cx(q))
            BY <1>4, <2>2 DEF EvalsInv
        <3> QED
            BY <1>2, <1>4, <2>1, <3>1 DEF Marked, MarkOK
    <2>3. ASSUME NEW k \in defined, k \in Ended', k \in hooked, k \notin missed
          PROVE  <<k, k>> \in sources
        <3>1. CASE k \in Ended
            BY <2>3, <3>1 DEF EvalsInv, SubsHaveSource
        <3>2. CASE k = n /\ cx.type = "eval"
            <4>1. n \in hooked /\ MarkOK(cx)
                BY <1>1, <2>3, <3>2 DEF EvalsInv, Marked, cx
            <4>2. c.evalseq = n /\ n # 0
                BY <1>1, <3>2, <4>1, EvalFacts DEF MarkOK, cx
            <4>3. c # Nothing
                BY <4>2 DEF Nothing
            <4> QED
                BY <1>7, <3>2, <4>1, <4>3
        <3> QED
            BY <1>5, <2>3, <3>1, <3>2
    <2>4. SubsHaveSource'
        BY <1>2, <2>1, <2>3 DEF SubsHaveSource
    <2> QED
        BY <1>2, <1>3, <1>4, <2>1, <2>2, <2>4 DEF EvalsInv
<1> QED
    BY <1>6, <1>7

(* An eval that the walk meets is saved under its number, when it is       *)
(* marked.                                                                 *)
LEMMA SaveEvals ==
    ASSUME TypeInv, EvalsInv, NEW p \in Positions, SaveEval(Cx(p)), enabled,
           UNCHANGED <<perl, source_code_kind, enabled, hooked, defined, missed>>
    PROVE  /\ EvalsInv' /\ collected' \in [Texts -> Collected] /\ sources' \subseteq Nat \X Nat
           /\ sources \subseteq sources'
           /\ ~SwitchInside /\ source_code_kind # "none" /\ Cx(p).type = "eval" =>
                 <<Cx(p).number, Cx(p).number>> \in sources'
<1> DEFINE cx == Cx(p)
           c == Attached(cx.text)
           n == cx.number
<1>1. /\ UNCHANGED <<stacks, evalseq, sub_gen>>
      /\ Positions' = Positions /\ \A q : Cx(q)' = Cx(q)
    BY DEF perl, Positions, Cx
<1>2. /\ collected \in [Texts -> Collected] /\ sources \subseteq Nat \X Nat
      /\ sub_gen \in Nat /\ evalseq \in Nat
    BY DEF TypeInv, Collected
<1>3. SaveEval(cx)
    OBVIOUS
<1> HIDE DEF cx
<1>4. CASE cx.type = "eval" /\ source_code_kind # "none"
    <2>1. /\ cx.text \in Texts /\ n \in Nat /\ n # 0 /\ collected[cx.text] \in Collected
          /\ \A q \in Positions : Cx(q).text = cx.text => q = p
        BY <1>4, EvalFacts DEF cx
    <2>2. /\ collected' = [collected EXCEPT ![cx.text] = [c EXCEPT !.saved = TRUE]]
          /\ sources' = IF c.saved THEN sources ELSE sources \cup {<<c.evalseq, n>>}
        BY <1>3, <1>4 DEF SaveEval
    <2>3. c \in Collected /\ c.sub_gen <= sub_gen
        BY <1>2, <2>1 DEF Attached, Collected, EvalsInv
    <2>4. /\ collected' \in [Texts -> Collected]
          /\ \A t \in Texts : t # cx.text => collected'[t] = collected[t]
          /\ collected'[cx.text].evalseq = c.evalseq /\ collected'[cx.text].sub_gen = c.sub_gen
        BY <1>2, <2>1, <2>2, <2>3 DEF Collected
    <2>5. sources \subseteq sources' /\ sources' \subseteq Nat \X Nat
        BY <1>2, <2>1, <2>2, <2>3 DEF Collected
    <2>6. ASSUME Marked(cx)
          PROVE  /\ c = collected[cx.text] /\ c.evalseq = n /\ <<n, n>> \in sources'
                 /\ n \in defined => c.sub_gen # sub_gen
                 /\ \A x \in sources' : x \in sources \/ x = <<n, n>>
        <3>1. MarkOK(cx)
            BY <1>4, <2>6 DEF EvalsInv, cx
        <3>2. /\ collected[cx.text].evalseq = n
              /\ collected[cx.text].saved => <<n, n>> \in sources
              /\ n \in defined => collected[cx.text].sub_gen # sub_gen
            BY <3>1 DEF MarkOK
        <3>3. c = collected[cx.text]
            BY <2>1, <3>2 DEF Attached, Nothing
        <3> HIDE DEF c
        <3> QED
            BY <2>2, <3>2, <3>3
    <2>7. ~SwitchInside => Marked(cx)
        BY <1>4 DEF Marked, EvalsInv, cx
    <2> HIDE DEF c
    <2>8. ASSUME NEW q \in Positions, Cx(q).type = "eval"
          PROVE  Marked(Cx(q))' => MarkOK(Cx(q))'
        <3>1. Marked(Cx(q)) => MarkOK(Cx(q))
            BY <2>8 DEF EvalsInv
        <3>2. Marked(Cx(q))' = Marked(Cx(q))
            BY <1>1 DEF Marked
        <3>3. CASE q = p
            <4>1. Cx(q)' = cx
                BY <1>1, <3>3 DEF cx
            <4>2. Marked(cx) => MarkOK(Cx(q))'
                BY <1>1, <2>4, <2>6, <4>1 DEF MarkOK
            <4> QED
                BY <3>1, <3>2, <3>3, <4>2 DEF cx
        <3>4. CASE q # p
            <4>1. Cx(q).text \in Texts /\ Cx(q).text # cx.text
                BY <2>1, <2>8, <3>4, EvalFacts
            <4>2. collected'[Cx(q).text] = collected[Cx(q).text]
                BY <2>4, <4>1
            <4> QED
                BY <1>1, <2>5, <3>1, <3>2, <4>2 DEF MarkOK
        <3> QED
            BY <3>3, <3>4
    <2>9. \A t \in Texts : collected'[t].sub_gen <= sub_gen'
        BY <1>1, <2>3, <2>4 DEF EvalsInv
    <2>10. ~SwitchInside => \A x \in sources' : x[1] = x[2]
        BY <2>6, <2>7 DEF EvalsInv
    <2>11. SubsHaveSource'
        BY <1>1, <2>5 DEF EvalsInv, SubsHaveSource, Ended
    <2>12. EvalsInv'
        BY <1>1, <2>8, <2>9, <2>10, <2>11 DEF EvalsInv
    <2> QED
        BY <2>4, <2>5, <2>6, <2>7, <2>12 DEF cx
<1>5. CASE ~(cx.type = "eval" /\ source_code_kind # "none")
    <2>1. UNCHANGED <<sources, collected>>
        BY <1>3, <1>5 DEF SaveEval
    <2>2. EvalsInv'
        BY <1>1, <2>1, StillEvals
    <2> QED
        BY <1>2, <1>5, <2>1, <2>2 DEF cx
<1> QED
    BY <1>4, <1>5

-----------------------------------------------------------------------------
(* Steps of the walk                                                       *)

LEMMA PerlStays ==
    ASSUME UNCHANGED perl
    PROVE  /\ Positions' = Positions /\ (\A q : Cx(q)' = Cx(q)) /\ Code' = Code
           /\ Entered' = Entered /\ (\A q : Rank(q)' = Rank(q))
           /\ InDebugger' = InDebugger /\ RecursiveEntry' = RecursiveEntry
           /\ (\A q : Innermost(q)' = Innermost(q)) /\ (\A x : PassedBy(x)' = PassedBy(x))
           /\ UNCHANGED <<stacks, curcop, start, main, evalseq, sub_gen, debugging>>
<1>1. UNCHANGED <<stacks, curcop, start, main, evalseq, sub_gen, debugging>>
    BY DEF perl
<1>2. Positions' = Positions /\ \A q : Cx(q)' = Cx(q)
    BY <1>1 DEF Positions, Cx
<1>3. Code' = Code /\ Entered' = Entered
    BY <1>2 DEF Code, Entered
<1>4. \A q : Rank(q)' = Rank(q) /\ Innermost(q)' = Innermost(q)
    BY <1>3 DEF Rank, Innermost
<1>5. \A x : PassedBy(x)' = PassedBy(x)
    BY <1>3 DEF PassedBy
<1>6. InDebugger' = InDebugger
    BY <1>1 DEF InDebugger
<1>7. RecursiveEntry' = RecursiveEntry
    BY <1>1, <1>2, <1>3 DEF RecursiveEntry
<1> QED
    BY <1>1, <1>2, <1>3, <1>4, <1>5, <1>6, <1>7

LEMMA WalkGoesOn ==
    ASSUME UNCHANGED perl, NEW b, b = At', walk'.state = "walking",
           b[1] \in DOMAIN stacks, b[2] \in 0 .. Len(stacks[b[1]]),
           b[2] # 0 => Cx(b).type \in Units \cup {"try"},
           b[2] # 0 /\ Cx(b).cv = "DB" => Innermost(b),
           walk'.depth = walk'.limit - Len(walk'.frames), walk'.depth > 0,
           Known(PassedBy(b), walk'.line) \/ (InDebugger /\ walk'.line[1] # "eval"),
           ~InDebugger /\ ~RecursiveEntry => FramesOf(b, walk'.frames)
    PROVE  WalkInv'
<1>1. /\ Positions' = Positions /\ (\A q : Cx(q)' = Cx(q)) /\ Code' = Code
      /\ Entered' = Entered /\ (\A q : Rank(q)' = Rank(q))
      /\ InDebugger' = InDebugger /\ RecursiveEntry' = RecursiveEntry
      /\ (\A q : Innermost(q)' = Innermost(q)) /\ (\A x : PassedBy(x)' = PassedBy(x))
      /\ stacks' = stacks /\ curcop' = curcop
    BY PerlStays
<1>2. walk'.si = b[1] /\ walk'.cxix = b[2]
    BY DEF At
<1>3. Passed' = PassedBy(b)
    BY <1>1 DEF Passed, PassedBy
<1>4. FramesTrue'
    BY DEF FramesTrue
<1>5. Known(PassedBy(b), walk'.line) => LineKnown'
    BY <1>1, <1>3 DEF Known, LineKnown
<1>6. FramesOf(b, walk'.frames) => FramesSoFar'
    BY <1>1, <1>3 DEF FramesOf, FramesSoFar
<1>7. Cx(At)' = Cx(b) /\ (Innermost(b) => Innermost(At)')
    <2>1. Cx(At)' = stacks'[At'[1]][At'[2]]
        BY DEF Cx
    <2>2. Innermost(b) = \A q \in Code : ~Inside(q, b)
        BY DEF Innermost
    <2>3. Innermost(At)' = \A q \in Code' : ~Inside(q, At')
        BY DEF Innermost, Inside
    <2> QED
        BY <1>1, <2>1, <2>2, <2>3 DEF Cx
<1> QED
    BY <1>1, <1>2, <1>4, <1>5, <1>6, <1>7 DEF WalkInv

LEMMA WalkEnds ==
    ASSUME UNCHANGED perl, walk'.state = "done",
           ~InDebugger /\ ~RecursiveEntry => TrueUpTo(walk'.frames, walk'.limit)
    PROVE  WalkInv'
<1>1. /\ (\A q : Cx(q)' = Cx(q))
      /\ Entered' = Entered /\ (\A q : Rank(q)' = Rank(q))
      /\ InDebugger' = InDebugger /\ RecursiveEntry' = RecursiveEntry
      /\ main' = main
    BY PerlStays
<1>2. FramesTrue'
    BY <1>1 DEF FramesTrue, TrueUpTo, All
<1> QED
    BY <1>2 DEF WalkInv

(* What is reported: the contexts that have been entered, each where it    *)
(* is.                                                                     *)
LEMMA ShownFacts ==
    ASSUME TypeInv, LinesInv, DebugInv, NEW a \in Positions,
           Cx(a).type \in Units \cup {"try"}, ~(debugging /\ Cx(a).cv = "DB"),
           NEW c, c = <<a[1], CallerOf(a[1], a[2])>>,
           NEW line, a \in Code => Known(PassedBy(a), line),
           ~InDebugger, ~RecursiveEntry
    PROVE  /\ Reported(Cx(a), Cx(c), line) <=> a \in Entered
           /\ a \in Entered => line = Cx(a).at
<1>1. Cx(a) \in ContextTypes /\ ContextOK(Cx(a))
    BY CodeFacts
<1>2. c = a \/ debugging
    BY CallerFacts
<1>3. debugging => start = NoSub
    BY DEF DebugInv
<1>4. Cx(a).cv # "DB"
    BY DEF DebugInv
<1>5. a \in Entered <=> a \in Code /\ Cx(a).at # Nowhere
    BY <1>4 DEF Entered, Code
<1>6. CASE a \notin Code
    BY <1>5, <1>6 DEF Code, Reported
<1>7. CASE a \in Code
    <2>1. Cx(a).type \in Units /\ Cx(a).type # "try"
        BY <1>7 DEF Code, Units
    <2>2. IsAt(a, line) \/ (JustCalled(a) /\ line = curcop)
        BY <1>7, LineFacts
    <2>3. CASE JustCalled(a) /\ line = curcop
        <3>1. Cx(a).at = Nowhere /\ line = Cx(a).oldcop /\ Cx(a).type = "sub" /\ start = Cx(a).cv
            BY <2>3 DEF JustCalled
        <3>2. start # NoSub
            BY <1>1, <3>1 DEF ContextOK
        <3>3. c = a
            BY <1>2, <1>3, <3>2
        <3> QED
            BY <1>5, <3>1, <3>3 DEF Reported
    <2>4. CASE IsAt(a, line) /\ Cx(a).at = Nowhere
        BY <1>5, <2>4 DEF IsAt, Reported
    <2>5. CASE IsAt(a, line) /\ Cx(a).at # Nowhere
        <3>1. line = Cx(a).at /\ a \in Entered
            BY <1>5, <1>7, <2>5 DEF IsAt
        <3>2. line # Compiling
            BY <1>1, <2>1, <2>5, <3>1, AtFacts
        <3>3. line # Cx(c).oldcop \/ Cx(a).type # "sub" \/ start # Cx(a).cv
            <4> SUFFICES ASSUME line = Cx(c).oldcop, Cx(a).type = "sub", start = Cx(a).cv
                         PROVE  FALSE
                OBVIOUS
            <4>1. start # NoSub
                BY <1>1 DEF ContextOK
            <4>2. c = a
                BY <1>2, <1>3, <4>1
            <4> QED
                BY <3>1, <4>1, <4>2 DEF RecursiveEntry
        <3> QED
            BY <2>1, <3>1, <3>2, <3>3 DEF Reported
    <2> QED
        BY <2>2, <2>3, <2>4, <2>5
<1> QED
    BY <1>6, <1>7

(* A frame at a statement of an eval is that of the eval.                  *)
LEMMA EvalFrame ==
    ASSUME TypeInv, LinesInv, DebugInv, NEW a \in Code, ~(debugging /\ Cx(a).cv = "DB"),
           NEW c, c = <<a[1], CallerOf(a[1], a[2])>>,
           NEW line, Known(PassedBy(a), line), Reported(Cx(a), Cx(c), line),
           line[1] = "eval"
    PROVE  Cx(a).type = "eval" /\ Cx(a).number = line[2]
<1>1. /\ Cx(a) \in ContextTypes /\ ContextOK(Cx(a)) /\ Cx(a).type \in Units /\ a \in Positions
      /\ Cx(a).type \in Units \cup {"try"}
    BY CodeFacts
<1>2. CASE IsAt(a, line)
    <2>1. Cx(a).at # Nowhere /\ line = Cx(a).at
        BY <1>2 DEF IsAt, Reported
    <2> QED
        BY <1>1, <2>1, AtFacts
<1>3. CASE JustCalled(a) /\ line = curcop
    <2>1. Cx(a).type = "sub" /\ start = Cx(a).cv /\ line = Cx(a).oldcop
        BY <1>3 DEF JustCalled
    <2>2. c # a
        BY <2>1 DEF Reported
    <2>3. debugging
        BY <1>1, <2>2, CallerFacts
    <2>4. start # NoSub /\ start # "DB"
        BY <1>1, <2>1, <2>3 DEF ContextOK
    <2>5. curcop[1] = "DB"
        BY <2>3, <2>4 DEF DebugInv, InDebugger
    <2> QED
        BY <1>3, <2>5
<1> QED
    BY <1>2, <1>3, LineFacts

LEMMA SampleWalks ==
    ASSUME TypeInv, NEW d \in Depths, Sample(d)
    PROVE  walk' \in Walks /\ enabled /\ WalkInv' /\ FramesSaved'
<1> DEFINE b == <<Len(stacks), DopoptoSub(Len(stacks), Len(top))>>
<1>1. /\ UNCHANGED perl /\ enabled
      /\ walk' = [state |-> "walking", si |-> b[1], cxix |-> b[2], line |-> curcop,
                  depth |-> d, limit |-> d, frames |-> <<>>]
    BY DEF Sample
<1>2. /\ Len(stacks) \in DOMAIN stacks /\ Len(stacks) \in Nat /\ Len(top) \in Nat
      /\ Len(top) \in 0 .. Len(stacks[Len(stacks)]) /\ Len(top) = Len(stacks[Len(stacks)])
    <2>1. DOMAIN stacks = 1 .. Len(stacks) /\ Len(stacks) \in Nat /\ Len(stacks) > 0 /\ Len(top) \in Nat
        BY CodeFacts, PositionsAre
    <2> QED
        BY <2>1 DEF top
<1>3. /\ b[1] \in DOMAIN stacks /\ b[2] \in 0 .. Len(stacks[b[1]]) /\ b[1] = Len(stacks)
      /\ b[2] # 0 => b \in Positions /\ Cx(b).type \in Units \cup {"try"}
      /\ \A j \in 1 .. Len(top) : Cx(<<Len(stacks), j>>).type \in Units \cup {"try"} => j <= b[2]
    BY <1>2, DopoptoFacts
<1> HIDE DEF b
<1>4. PassedBy(b) = {}
    <2> SUFFICES ASSUME NEW p \in Code, Inside(p, b)
                 PROVE  FALSE
        BY DEF PassedBy
    <2>1. /\ p = <<p[1], p[2]>> /\ p[1] \in Nat /\ p[2] \in Nat /\ p[1] <= Len(stacks)
          /\ p[2] \in 1 .. Len(stacks[p[1]]) /\ Cx(p).type \in Units
        BY CodeFacts, CodePosition
    <2>2. p[1] = Len(stacks) /\ p[2] > b[2]
        BY <1>2, <1>3, <2>1 DEF Inside
    <2>3. p[2] <= b[2]
        BY <1>2, <1>3, <2>1, <2>2
    <2>4. b[2] \in Nat
        BY <1>2, <1>3
    <2> QED
        BY <2>1, <2>2, <2>3, <2>4
<1>5. Innermost(b) /\ Known(PassedBy(b), curcop) /\ FramesOf(b, <<>>)
    <2>1. Innermost(b)
        BY <1>4 DEF PassedBy, Innermost
    <2>2. Known(PassedBy(b), curcop)
        BY <1>4 DEF Known
    <2>3. Cardinality({}) = 0 /\ Len(<<>>) = 0
        BY FS_EmptySet
    <2>4. Entered \cap PassedBy(b) = {}
        BY <1>4
    <2> QED
        BY <2>1, <2>2, <2>3, <2>4 DEF FramesOf
<1>6. d \in Nat /\ d > 0 /\ curcop \in Statements
    <2>1. Depths \subseteq Nat \ {0}
        BY BoundAssumption
    <2>2. d \in Nat /\ d # 0
        BY <2>1
    <2> QED
        BY <2>2 DEF TypeInv
<1>7. /\ walk'.state = "walking" /\ walk'.si = b[1] /\ walk'.cxix = b[2] /\ walk'.line = curcop
      /\ walk'.depth = d /\ walk'.limit = d /\ walk'.frames = <<>>
    BY <1>1
<1>8. b[1] \in Nat /\ b[2] \in Nat
    BY <1>2, <1>3
<1>9. walk' \in Walks
    <2>1. <<>> \in Seq(Frames)
        OBVIOUS
    <2> QED
        BY <1>1, <1>6, <1>8, <2>1 DEF Walks
<1>10. WalkInv'
    <2>1. b = At'
        <3>1. b = <<b[1], b[2]>>
            BY DEF b
        <3> QED
            BY <1>7, <3>1 DEF At
    <2>2. walk'.depth = walk'.limit - Len(walk'.frames) /\ walk'.depth > 0
        <3>1. Len(<<>>) = 0
            OBVIOUS
        <3> QED
            BY <1>6, <1>7, <3>1
    <2> QED
        BY <1>1, <1>3, <1>5, <1>7, <2>1, <2>2, WalkGoesOn
<1>11. FramesSaved'
    <2>1. DOMAIN walk'.frames = {}
        BY <1>7
    <2> QED
        BY <2>1 DEF FramesSaved
<1> QED
    BY <1>1, <1>9, <1>10, <1>11

(* Where the walk is.                                                      *)
LEMMA WalkFacts ==
    ASSUME TypeInv, DebugInv, WalkInv, walk.state = "walking", NEW a, a = SkipStacks
    PROVE  /\ walk \in Walks /\ enabled /\ walk # NoWalk
           /\ walk.limit \in Nat /\ walk.frames \in Seq(Frames) /\ walk.line \in Statements
           /\ Len(walk.frames) \in Nat /\ walk.depth \in Nat /\ walk.depth > 0
           /\ walk.depth = walk.limit - Len(walk.frames)
           /\ a[2] = 0 => /\ Known(Code, walk.line) \/ (InDebugger /\ walk.line[1] # "eval")
                          /\ ~InDebugger /\ ~RecursiveEntry =>
                                FramesOf(At, walk.frames) /\ Code \subseteq PassedBy(At)
           /\ a[2] # 0 =>
                 /\ a \in Positions /\ Cx(a).type \in Units \cup {"try"}
                 /\ Cx(a).cv = "DB" => Innermost(a)
                 /\ Known(PassedBy(a), walk.line) \/ (InDebugger /\ walk.line[1] # "eval")
                 /\ ~InDebugger /\ ~RecursiveEntry => FramesOf(a, walk.frames)
           /\ At \in Pairs
<1>1. walk \in Walks /\ enabled /\ walk # NoWalk
    BY DEF TypeInv, NoWalk
<1>2. /\ walk.limit \in Nat /\ walk.frames \in Seq(Frames) /\ walk.line \in Statements
      /\ walk.si \in Nat /\ walk.cxix \in Nat /\ walk.depth \in Nat
    BY <1>1 DEF Walks
<1>3. /\ walk.depth = walk.limit - Len(walk.frames) /\ walk.depth > 0
      /\ LineKnown \/ (InDebugger /\ walk.line[1] # "eval")
      /\ ~InDebugger /\ ~RecursiveEntry => FramesSoFar
    BY DEF WalkInv
<1>4. LineKnown => Known(Passed, walk.line)
    BY DEF LineKnown, Known
<1>5. Passed = PassedBy(At)
    BY DEF Passed, PassedBy
<1>6. FramesSoFar => \A x : Passed = PassedBy(x) => FramesOf(x, walk.frames)
    BY DEF FramesSoFar, FramesOf
<1>7. At \in Pairs
    BY <1>2 DEF At, Pairs
<1>8. Len(walk.frames) \in Nat
    BY <1>2
<1> QED
    BY <1>1, <1>2, <1>3, <1>4, <1>5, <1>6, <1>7, <1>8, SkipFacts

LEMMA SkipDebuggerWalks ==
    ASSUME TypeInv, LinesInv, DebugInv, WalkInv, FramesSaved, walk.state = "walking",
           NEW a, a = SkipStacks, a[2] # 0, SkipDebugger(a[1], a[2])
    PROVE  walk' \in Walks /\ WalkInv' /\ FramesSaved'
<1> DEFINE b == <<a[1], DopoptoSub(a[1], a[2] - 1)>>
<1>1. /\ walk \in Walks /\ walk # NoWalk /\ walk.depth > 0
      /\ walk.depth = walk.limit - Len(walk.frames)
      /\ a \in Positions /\ Cx(a).type \in Units \cup {"try"}
      /\ Cx(a).cv = "DB" => Innermost(a)
      /\ Known(PassedBy(a), walk.line) \/ (InDebugger /\ walk.line[1] # "eval")
    BY WalkFacts
<1>2. /\ UNCHANGED <<perl, source_code_kind, enabled, collected, hooked, sources, defined,
                     missed>>
      /\ debugging /\ Cx(a).cv = "DB"
      /\ walk' = [walk EXCEPT !.si = b[1], !.cxix = b[2]]
    BY DEF SkipDebugger, Cx
<1>3. a \in Code /\ a \in Pairs
    BY <1>1, <1>2, CodeFacts DEF ContextOK, NoSub, Code, Units
<1>4. /\ InDebugger /\ (start = NoSub => curcop[1] = "DB")
      /\ start # NoSub => Cx(a).oldcop = curcop
    BY <1>1, <1>2, <1>3, InnermostDebugger
<1>5. /\ PassedBy(b) = PassedBy(a) \cup {a}
      /\ b[2] \in 0 .. Len(stacks[b[1]]) /\ b[1] = a[1]
      /\ b[2] # 0 => b \in Positions /\ Cx(b).type \in Units \cup {"try"}
    BY <1>1, <1>3, NextDown
<1>6. PassedBy(a) = {}
    BY <1>1, <1>2 DEF PassedBy, Innermost
<1>7. b[2] # 0 => Cx(b).cv # "DB"
    BY <1>1, <1>2, DebuggerCalls
<1>8. a[1] \in DOMAIN stacks /\ a[1] \in Nat /\ Len(stacks[a[1]]) \in Nat
    BY <1>1, CodePosition
<1> HIDE DEF b
<1>9. b[1] \in Nat /\ b[2] \in Nat
    BY <1>5, <1>8
<1>10. /\ walk' \in Walks /\ walk'.state = "walking" /\ walk'.si = b[1] /\ walk'.cxix = b[2]
       /\ walk'.line = walk.line /\ walk'.depth = walk.depth /\ walk'.limit = walk.limit
       /\ walk'.frames = walk.frames
    BY <1>1, <1>2, <1>9 DEF Walks
<1>11. Known(PassedBy(b), walk.line) \/ (InDebugger /\ walk.line[1] # "eval")
    <2>1. CASE walk.line = curcop
        <3>1. CASE start = NoSub
            BY <1>4, <2>1, <3>1
        <3>2. CASE start # NoSub
            <4>1. PassedBy(b) = {a} /\ ~Inside(a, a)
                BY <1>3, <1>5, <1>6, Order
            <4> QED
                BY <1>4, <2>1, <3>2, <4>1 DEF Known
        <3> QED
            BY <3>1, <3>2
    <2>2. CASE walk.line # curcop
        BY <1>1, <1>6, <2>2 DEF Known
    <2> QED
        BY <2>1, <2>2
<1>12. b = At'
    <2>1. b = <<b[1], b[2]>>
        BY DEF b
    <2> QED
        BY <1>10, <2>1 DEF At
<1>13. WalkInv'
    BY <1>1, <1>2, <1>4, <1>5, <1>7, <1>8, <1>10, <1>11, <1>12, WalkGoesOn
<1>14. FramesSaved'
    BY <1>1, <1>2, <1>10 DEF FramesSaved
<1> QED
    BY <1>10, <1>13, <1>14

LEMMA FrameTypes ==
    ASSUME NEW cx \in ContextTypes, NEW line \in Statements
    PROVE  FrameOf(cx, line) \in Frames /\ FrameOf(cx, line)[3] = line
BY DEF FrameOf, Frame, Frames, ContextTypes, Units

LEMMA ReportWalks ==
    ASSUME TypeInv, LinesInv, DebugInv, WalkInv, EvalsInv, FramesSaved, walk.state = "walking",
           NEW a, a = SkipStacks, a[2] # 0, Report(a[1], a[2])
    PROVE  /\ walk' \in Walks /\ WalkInv' /\ FramesSaved' /\ EvalsInv'
           /\ collected' \in [Texts -> Collected] /\ sources' \subseteq Nat \X Nat
<1> DEFINE c == <<a[1], CallerOf(a[1], a[2])>>
           b == <<a[1], DopoptoSub(a[1], c[2] - 1)>>
           cx == Cx(a)
           shown == Reported(cx, Cx(c), walk.line)
           d == IF shown THEN walk.depth - 1 ELSE walk.depth
           frames == IF shown THEN Append(walk.frames, FrameOf(cx, walk.line)) ELSE walk.frames
           line == IF cx.type = "try" THEN walk.line ELSE Cx(c).oldcop
<1>1. /\ walk \in Walks /\ enabled /\ walk # NoWalk
      /\ walk.limit \in Nat /\ walk.frames \in Seq(Frames) /\ walk.line \in Statements
      /\ Len(walk.frames) \in Nat /\ walk.depth \in Nat /\ walk.depth > 0
      /\ walk.depth = walk.limit - Len(walk.frames)
      /\ a \in Positions /\ Cx(a).type \in Units \cup {"try"}
      /\ Known(PassedBy(a), walk.line) \/ (InDebugger /\ walk.line[1] # "eval")
      /\ ~InDebugger /\ ~RecursiveEntry => FramesOf(a, walk.frames)
    BY WalkFacts
<1>2. /\ UNCHANGED <<perl, source_code_kind, enabled, hooked, defined, missed>>
      /\ ~(debugging /\ cx.cv = "DB")
      /\ walk' = [walk EXCEPT !.si = a[1], !.depth = d, !.cxix = b[2], !.frames = frames,
                              !.line = line, !.state = IF d = 0 THEN "done" ELSE @]
      /\ SaveEval(cx)
    BY DEF Report, LastFrame, Cx
<1>3. /\ c \in Positions
      /\ a \notin Code => PassedBy(b) = PassedBy(a)
      /\ c = a \/ (debugging /\ Cx(c).cv = "DB" /\ a \in Code)
      /\ a \in Code => /\ c \in Code /\ PassedBy(b) = PassedBy(a) \cup {a, c}
                       /\ \A q \in PassedBy(b) : ~Inside(c, q)
      /\ b[1] = a[1] /\ b[2] \in 0 .. Len(stacks[a[1]])
      /\ b[2] # 0 => Cx(b).type \in Units \cup {"try"} /\ Cx(b).cv # "DB"
    BY <1>1, <1>2, CallerFacts
<1>4. /\ a \in Pairs /\ a[1] \in DOMAIN stacks /\ a[1] \in Nat /\ Len(stacks[a[1]]) \in Nat
      /\ cx \in ContextTypes /\ Cx(c) \in ContextTypes
    BY <1>1, <1>3, CodePosition, CodeFacts
<1>5. b[1] \in Nat /\ b[2] \in Nat /\ b \in Pairs
    <2>1. b[1] \in Nat /\ b[2] \in Nat
        BY <1>3, <1>4
    <2> QED
        BY <2>1 DEF Pairs
<1>6. FrameOf(cx, walk.line) \in Frames /\ FrameOf(cx, walk.line)[3] = walk.line
    BY <1>1, <1>4, FrameTypes
<1>7. /\ EvalsInv' /\ collected' \in [Texts -> Collected] /\ sources' \subseteq Nat \X Nat
      /\ sources \subseteq sources'
      /\ ~SwitchInside /\ source_code_kind # "none" /\ cx.type = "eval" =>
            <<cx.number, cx.number>> \in sources'
    BY <1>1, <1>2, SaveEvals
<1>8. a \in Code <=> cx.type # "try"
    BY <1>1 DEF Code, Units
<1>9. shown => cx.type # "try"
    BY DEF Reported
<1>10. line \in Statements
    BY <1>1, <1>4 DEF ContextTypes
<1>11. /\ frames \in Seq(Frames)
       /\ Len(frames) = IF shown THEN Len(walk.frames) + 1 ELSE Len(walk.frames)
       /\ \A i \in DOMAIN frames : \/ i \in DOMAIN walk.frames /\ frames[i] = walk.frames[i]
                                   \/ shown /\ frames[i] = FrameOf(cx, walk.line)
    BY <1>1, <1>6
<1>12. d \in Nat /\ d = walk.limit - Len(frames)
    BY <1>1, <1>11
<1>13. ~InDebugger /\ ~RecursiveEntry => FramesOf(b, frames)
    <2> SUFFICES ASSUME ~InDebugger, ~RecursiveEntry
                 PROVE  FramesOf(b, frames)
        OBVIOUS
    <2>1. Known(PassedBy(a), walk.line) /\ FramesOf(a, walk.frames)
        BY <1>1
    <2>2. (shown <=> a \in Entered) /\ (a \in Entered => walk.line = cx.at)
        BY <1>1, <1>2, <2>1, ShownFacts
    <2>3. frames = IF a \in Entered THEN Append(walk.frames, FrameOf(Cx(a), Cx(a).at))
                   ELSE walk.frames
        BY <2>2
    <2>4. Entered \cap PassedBy(b) = (Entered \cap PassedBy(a)) \cup (Entered \cap {a})
        <3>1. c # a => c \notin Entered
            BY <1>3 DEF Entered
        <3>2. Entered \subseteq Code
            BY EnteredFinite
        <3> HIDE DEF c, b
        <3> QED
            BY <1>3, <3>1, <3>2
    <2> HIDE DEF frames, b
    <2> QED
        BY <1>1, <1>4, <1>5, <1>11, <2>1, <2>3, <2>4, FramesGrow
<1>14. Known(PassedBy(b), line) \/ (InDebugger /\ line[1] # "eval")
    <2>1. CASE a \in Code
        <3>1. line = Cx(c).oldcop /\ c \in PassedBy(b) /\ \A q \in PassedBy(b) : ~Inside(c, q)
            BY <1>3, <1>8, <2>1
        <3> HIDE DEF c, b, line
        <3> QED
            BY <3>1 DEF Known
    <2>2. CASE a \notin Code
        <3>1. line = walk.line /\ PassedBy(b) = PassedBy(a)
            BY <1>3, <1>8, <2>2
        <3> QED
            BY <1>1, <3>1
    <2> QED
        BY <2>1, <2>2
<1>15. shown /\ walk.line[1] = "eval" => cx.type = "eval" /\ cx.number = walk.line[2]
    <2>1. CASE Known(PassedBy(a), walk.line)
        BY <1>2, <1>8, <1>9, <2>1, EvalFrame
    <2>2. CASE ~Known(PassedBy(a), walk.line)
        BY <1>1, <2>2
    <2> QED
        BY <2>1, <2>2
<1> HIDE DEF frames, line, d, shown
<1>16. FramesSaved'
    <2> SUFFICES ASSUME ~SwitchInside, source_code_kind # "none", NEW i \in DOMAIN frames,
                        frames[i][3][1] = "eval"
                 PROVE  <<frames[i][3][2], frames[i][3][2]>> \in sources'
        <3>1. walk'.frames = frames
            BY <1>1, <1>2 DEF Walks
        <3> QED
            BY <1>2, <3>1 DEF FramesSaved
    <2>1. CASE i \in DOMAIN walk.frames /\ frames[i] = walk.frames[i]
        BY <1>1, <1>7, <2>1 DEF FramesSaved
    <2>2. CASE shown /\ frames[i] = FrameOf(cx, walk.line)
        <3>1. frames[i][3] = walk.line
            BY <1>6, <2>2
        <3> QED
            BY <1>7, <1>15, <2>2, <3>1
    <2> QED
        BY <1>11, <2>1, <2>2
<1> HIDE DEF b
<1>17. /\ walk' \in Walks /\ walk'.si = b[1] /\ walk'.cxix = b[2] /\ walk'.line = line
       /\ walk'.depth = d /\ walk'.limit = walk.limit /\ walk'.frames = frames
       /\ walk'.state = IF d = 0 THEN "done" ELSE "walking"
    BY <1>1, <1>2, <1>3, <1>5, <1>10, <1>11, <1>12 DEF Walks
<1>18. WalkInv'
    <2>1. CASE d = 0
        <3>1. Len(frames) = walk.limit /\ walk.limit \in Nat
            BY <1>1, <1>11, <1>12, <2>1
        <3>2. ~InDebugger /\ ~RecursiveEntry => TrueUpTo(frames, walk.limit)
            BY <1>5, <1>13, <3>1, DepthReached
        <3> QED
            BY <1>2, <1>17, <2>1, <3>2, WalkEnds
    <2>2. CASE d # 0
        <3>1. b = At'
            <4>1. b = <<b[1], b[2]>>
                BY DEF b
            <4> QED
                BY <1>17, <4>1 DEF At
        <3>2. d > 0
            BY <1>12, <2>2
        <3> QED
            BY <1>2, <1>3, <1>4, <1>12, <1>13, <1>14, <1>17, <2>2, <3>1, <3>2, WalkGoesOn
    <2> QED
        BY <2>1, <2>2
<1> QED
    BY <1>7, <1>16, <1>17, <1>18

LEMMA ReportMainWalks ==
    ASSUME TypeInv, LinesInv, DebugInv, WalkInv, FramesSaved, walk.state = "walking",
           NEW a, a = SkipStacks, a[2] = 0, ReportMain
    PROVE  walk' \in Walks /\ WalkInv' /\ FramesSaved'
<1> DEFINE frames == IF walk.line # Compiling
                     THEN Append(walk.frames, Frame("MAIN", NoSub, walk.line)) ELSE walk.frames
<1>1. /\ walk \in Walks /\ enabled /\ walk # NoWalk
      /\ walk.limit \in Nat /\ walk.frames \in Seq(Frames) /\ walk.line \in Statements
      /\ Len(walk.frames) \in Nat /\ walk.depth \in Nat /\ walk.depth > 0
      /\ walk.depth = walk.limit - Len(walk.frames) /\ At \in Pairs
      /\ Known(Code, walk.line) \/ (InDebugger /\ walk.line[1] # "eval")
      /\ ~InDebugger /\ ~RecursiveEntry =>
            FramesOf(At, walk.frames) /\ Code \subseteq PassedBy(At)
    BY WalkFacts
<1>2. /\ UNCHANGED <<perl, source_code_kind, enabled, collected, hooked, sources, defined,
                     missed>>
      /\ walk' = [walk EXCEPT !.state = "done", !.frames = frames]
    BY DEF ReportMain
<1>3. Frame("MAIN", NoSub, walk.line) \in Frames /\ Frame("MAIN", NoSub, walk.line)[3] = walk.line
    BY <1>1 DEF Frame, Frames
<1>4. /\ frames \in Seq(Frames)
      /\ \A i \in DOMAIN frames : \/ i \in DOMAIN walk.frames /\ frames[i] = walk.frames[i]
                                  \/ frames[i] = Frame("MAIN", NoSub, walk.line)
    BY <1>1, <1>3
<1>5. main # Nowhere => main[1] = "main"
    BY DEF TypeInv
<1>6. MainAt(walk.line) => walk.line[1] # "eval"
    BY <1>5 DEF MainAt, Compiling
<1>7. walk.line[1] # "eval"
    BY <1>1, <1>6, MainLine
<1>8. ~InDebugger /\ ~RecursiveEntry => TrueUpTo(frames, walk.limit)
    <2> SUFFICES ASSUME ~InDebugger, ~RecursiveEntry
                 PROVE  TrueUpTo(frames, walk.limit)
        OBVIOUS
    <2>1. MainAt(walk.line)
        BY <1>1, MainLine
    <2>2. main # Nowhere => main # Compiling
        BY <1>5 DEF Compiling
    <2>3. frames = IF main = Nowhere THEN walk.frames
                   ELSE Append(walk.frames, Frame("MAIN", NoSub, main))
        BY <2>1, <2>2 DEF MainAt
    <2>4. Len(walk.frames) < walk.limit
        BY <1>1
    <2> HIDE DEF frames
    <2> QED
        BY <1>1, <1>4, <2>3, <2>4, MainReached
<1> HIDE DEF frames
<1>9. /\ walk' \in Walks /\ walk'.state = "done" /\ walk'.frames = frames
      /\ walk'.limit = walk.limit
    BY <1>1, <1>2, <1>4 DEF Walks
<1>10. WalkInv'
    BY <1>2, <1>8, <1>9, WalkEnds
<1>11. FramesSaved'
    <2> SUFFICES ASSUME ~SwitchInside, source_code_kind # "none", NEW i \in DOMAIN frames,
                        frames[i][3][1] = "eval"
                 PROVE  <<frames[i][3][2], frames[i][3][2]>> \in sources
        BY <1>2, <1>9 DEF FramesSaved
    <2>1. i \in DOMAIN walk.frames /\ frames[i] = walk.frames[i]
        BY <1>3, <1>4, <1>7
    <2> QED
        BY <1>1, <2>1 DEF FramesSaved
<1> QED
    BY <1>9, <1>10, <1>11

-----------------------------------------------------------------------------
(* The inductive invariant.                                                *)

LEMMA TypesKept ==
    ASSUME TypeInv, stacks' \in Stacks, StacksOK',
           curcop' \in Statements, start' \in SubNames \cup {NoSub},
           main' \in Statements \cup {Nowhere}, main' # Nowhere => main'[1] = "main",
           evalseq' \in Nat, sub_gen' \in Nat, enabled' \in BOOLEAN,
           collected' \in [Texts -> Collected], sources' \subseteq Nat \X Nat,
           hooked' \subseteq 1 .. evalseq', missed' \subseteq hooked',
           defined' \subseteq 1 .. evalseq', walk' = NoWalk \/ (walk' \in Walks /\ enabled'),
           source_code_kind' \in Kinds, UNCHANGED debugging
    PROVE  TypeInv'
BY DEF TypeInv, Stacks, Collected

(* What TypesKept asks of a step of the profiler, and of the program.      *)
LEMMA ProgramTypes ==
    ASSUME TypeInv
    PROVE  /\ stacks \in Stacks /\ StacksOK
           /\ curcop \in Statements /\ start \in SubNames \cup {NoSub}
           /\ main \in Statements \cup {Nowhere} /\ (main # Nowhere => main[1] = "main")
           /\ evalseq \in Nat /\ sub_gen \in Nat /\ enabled \in BOOLEAN
           /\ collected \in [Texts -> Collected] /\ sources \subseteq Nat \X Nat
           /\ defined \subseteq 1 .. evalseq /\ source_code_kind \in Kinds
           /\ hooked \subseteq 1 .. evalseq /\ missed \subseteq hooked
BY DEF TypeInv, Stacks, Collected

LEMMA NoWalkKeeps ==
    ASSUME walk' = NoWalk
    PROVE  WalkInv' /\ FramesSaved'
BY DEF NoWalk, WalkInv, FramesTrue, FramesSaved

LEMMA PerlTypes ==
    ASSUME TypeInv, UNCHANGED perl
    PROVE  /\ stacks' \in Stacks /\ StacksOK'
           /\ curcop' \in Statements /\ start' \in SubNames \cup {NoSub}
           /\ main' \in Statements \cup {Nowhere} /\ (main' # Nowhere => main'[1] = "main")
           /\ evalseq' \in Nat /\ sub_gen' \in Nat /\ debugging' = debugging
<1>1. UNCHANGED <<stacks, curcop, start, main, evalseq, sub_gen, debugging>>
    BY DEF perl
<1>2. StacksOK'
    BY <1>1, StacksStay DEF TypeInv
<1> QED
    BY <1>1, <1>2, ProgramTypes

LEMMA InitInv == Init => IInv
<1> SUFFICES ASSUME Init
             PROVE  IInv
    OBVIOUS
<1>1. stacks = << <<>> >> /\ curcop = Compiling /\ start = NoSub /\ main = Nowhere
    BY DEF Init
<1>2. Positions = {}
    BY <1>1 DEF Positions
<1>3. << <<>> >> \in Seq(Seq(ContextTypes)) /\ << <<>> >> # <<>>
    OBVIOUS
<1>4. StacksOK
    BY <1>1, <1>2 DEF StacksOK
<1>5. TypeInv
    <2>1. curcop \in Statements /\ start \in SubNames \cup {NoSub} /\ main = Nowhere
        BY <1>1 DEF Statements
    <2>2. /\ evalseq \in Nat /\ sub_gen \in Nat /\ debugging \in BOOLEAN
          /\ source_code_kind \in Kinds /\ enabled \in BOOLEAN
          /\ sources \subseteq Nat \X Nat /\ defined \subseteq 1 .. evalseq /\ walk = NoWalk
          /\ hooked \subseteq 1 .. evalseq /\ missed \subseteq hooked
        BY BoundAssumption DEF Init
    <2>3. collected \in [Texts -> [evalseq : Nat, sub_gen : Nat, saved : BOOLEAN]]
        BY DEF Init, Nothing
    <2> QED
        BY <1>1, <1>3, <1>4, <2>1, <2>2, <2>3 DEF TypeInv
<1>6. Code = {}
    BY <1>2 DEF Code
<1>7. LinesInv
    BY <1>1, <1>6 DEF LinesInv, MainAt
<1>8. DebugInv
    BY <1>1, <1>2 DEF DebugInv
<1>9. WalkInv /\ FramesSaved
    BY DEF Init, NoWalk, WalkInv, FramesTrue, FramesSaved
<1>10. EvalsInv
    <2>1. \A s \in Texts : collected[s].sub_gen = 0
        BY DEF Init, Nothing
    <2>2. sub_gen = 0 /\ sources = {} /\ defined = {}
        BY DEF Init
    <2> QED
        BY <1>2, <2>1, <2>2 DEF EvalsInv, SubsHaveSource
<1> QED
    BY <1>5, <1>7, <1>8, <1>9, <1>10 DEF IInv

LEMMA NextStateKeeps ==
    ASSUME IInv, NEW l \in Lines, NextState(l)
    PROVE  IInv'
<1>1. /\ TypeInv /\ LinesInv /\ DebugInv /\ EvalsInv
      /\ Idle /\ start' = NoSub
      /\ UNCHANGED <<evalseq, sub_gen, debugging, source_code_kind, enabled, collected,
                     hooked, sources, walk, defined, missed>>
    BY DEF IInv, NextState
<1>2. LinesInv' /\ DebugInv' /\ EvalsInv' /\ WalkInv' /\ FramesSaved'
    BY <1>1, NextStateLines, NextStateDebug, NextStateEvals, NoWalkKeeps DEF Idle
<1>3. /\ stacks' \in Stacks /\ StacksOK' /\ curcop' \in Statements
      /\ main' = main \/ (main' = curcop' /\ curcop'[1] = "main")
    BY <1>1, NextStateMoves
<1>4. TypeInv'
    <2>1. main' \in Statements \cup {Nowhere} /\ (main' # Nowhere => main'[1] = "main")
        BY <1>1, <1>3, ProgramTypes
    <2> QED
        BY <1>1, <1>3, <2>1, ProgramTypes, TypesKept DEF Idle
<1> QED
    BY <1>2, <1>4 DEF IInv

(* A context was opened, that of an eval or another one.                   *)
LEMMA OpensKeeps ==
    ASSUME IInv, NEW p, NEW cx, Opens(p, cx), Idle, EvalsInv', evalseq' \in Nat,
           evalseq <= evalseq', collected' \in [Texts -> Collected],
           hooked \subseteq hooked', hooked' \subseteq hooked \cup (1 .. evalseq'),
           UNCHANGED <<sub_gen, source_code_kind, enabled, sources, walk, defined, missed>>
    PROVE  IInv'
<1>1. TypeInv /\ LinesInv /\ DebugInv
    BY DEF IInv
<1>2. Opened(p, cx)
    BY DEF Opens
<1>3. LinesInv' /\ DebugInv' /\ WalkInv' /\ FramesSaved'
    BY <1>1, <1>2, OpenedLines, OpenedDebug, NoWalkKeeps DEF Idle
<1>4. UNCHANGED <<main, debugging>>
    BY <1>2 DEF Opened
<1>5. /\ defined' \subseteq 1 .. evalseq' /\ hooked' \subseteq 1 .. evalseq'
      /\ missed' \subseteq hooked'
    BY <1>1, ProgramTypes
<1>6. TypeInv'
    BY <1>1, <1>4, <1>5, ProgramTypes, TypesKept DEF Opens, Idle
<1> QED
    BY <1>3, <1>6 DEF IInv

LEMMA PlainOpensKeeps ==
    ASSUME IInv, NEW p, NEW cx, Opens(p, cx), cx.type # "eval", cx.number = 0, Idle,
           UNCHANGED <<evalseq, sub_gen, source_code_kind, enabled, collected, hooked, sources, walk,
                       defined, missed>>
    PROVE  IInv'
<1>1. TypeInv /\ EvalsInv
    BY DEF IInv
<1>2. EvalsInv'
    BY <1>1, PlainOpenedEvals DEF Opens
<1>3. evalseq' \in Nat /\ evalseq <= evalseq' /\ collected' \in [Texts -> Collected]
    BY <1>1, ProgramTypes
<1> QED
    BY <1>2, <1>3, OpensKeeps

LEMMA EvalKeeps ==
    ASSUME IInv, NEW s \in Texts, EvalString(s)
    PROVE  IInv'
<1>1. TypeInv /\ EvalsInv
    BY DEF IInv
<1>2. PICK p, cx : /\ Opens(p, cx) /\ cx.type = "eval" /\ cx.text = s
                   /\ cx.number = evalseq'
    BY <1>1, EvalOpens
<1>3. EvalsInv'
    BY <1>1, <1>2, EvalOpenedEvals DEF Opens
<1>4. /\ Idle /\ evalseq' = evalseq + 1
      /\ UNCHANGED <<sub_gen, source_code_kind, enabled, sources, walk, defined, missed>>
      /\ hooked' = IF Hooks THEN hooked \cup {evalseq'} ELSE hooked
      /\ collected' = IF Marks THEN [collected EXCEPT ![s] = Overwritten(@)] ELSE collected
    BY DEF EvalString, RunsOwn, Runs
<1>5. /\ evalseq' \in Nat /\ evalseq <= evalseq' /\ collected' \in [Texts -> Collected]
      /\ hooked \subseteq hooked' /\ hooked' \subseteq hooked \cup (1 .. evalseq')
    <2>1. evalseq \in Nat /\ sub_gen \in Nat /\ collected \in [Texts -> Collected]
        BY <1>1, ProgramTypes
    <2>2. Overwritten(collected[s]) \in Collected
        BY <1>4, <2>1 DEF Overwritten, Collected
    <2> QED
        BY <1>4, <2>1, <2>2
<1> QED
    BY <1>2, <1>3, <1>4, <1>5, OpensKeeps

LEMMA OpenKeeps ==
    ASSUME IInv,
           \/ \E f \in Subs : Call(f) \/ CallBack(f)
           \/ Begin \/ Require
           \/ \E type \in {"try", "block"} : Block(type)
    PROVE  IInv'
<1>1. /\ Idle
      /\ UNCHANGED <<evalseq, sub_gen, source_code_kind, enabled, collected, hooked, sources,
                     walk, defined, missed>>
    BY DEF Call, CallBack, Begin, Require, Block, RunsOwn, Runs
<1>2. TypeInv
    BY DEF IInv
<1>3. \E p, cx : Opens(p, cx) /\ cx.type # "eval" /\ cx.number = 0
    <2>1. CASE \E f \in Subs : Call(f) \/ CallBack(f)
        <3>1. \E p, cx : Opens(p, cx) /\ cx.type = "sub" /\ cx.number = 0
            BY <1>2, <2>1, CallOpens
        <3> QED
            BY <3>1
    <2>2. CASE Begin
        <3>1. \E p, cx : Opens(p, cx) /\ cx.type = "sub" /\ cx.number = 0
            BY <1>2, <2>2, BeginOpens
        <3> QED
            BY <3>1
    <2>3. CASE Require \/ \E type \in {"try", "block"} : Block(type)
        BY <1>2, <2>3, PlainOpens
    <2> QED
        BY <2>1, <2>2, <2>3
<1> QED
    BY <1>1, <1>3, PlainOpensKeeps

LEMMA LeaveKeeps ==
    ASSUME IInv, Leave
    PROVE  IInv'
<1> DEFINE p == <<Len(stacks), Len(top)>>
<1>1. TypeInv /\ LinesInv /\ DebugInv /\ EvalsInv
    BY DEF IInv
<1>2. Closed(p) /\ stacks' \in Stacks /\ StacksOK'
    BY <1>1, LeaveCloses
<1> HIDE DEF p
<1>3. LinesInv' /\ DebugInv'
    BY <1>1, <1>2, ClosedLines, ClosedDebug
<1>4. /\ EvalsInv' /\ collected' \in [Texts -> Collected] /\ sources' \subseteq Nat \X Nat
      /\ missed' \subseteq hooked'
    BY <1>1, <1>2, LeaveEvals
<1>5. /\ Idle
      /\ UNCHANGED <<start, main, evalseq, sub_gen, debugging, source_code_kind, enabled,
                     hooked, walk, defined>>
    BY DEF Leave
<1>6. WalkInv' /\ FramesSaved'
    BY <1>5, NoWalkKeeps DEF Idle
<1>7. curcop' \in Statements
    <2>1. p \in Positions /\ curcop' = IF Cx(p).type \in Units THEN Cx(p).oldcop ELSE curcop
        BY <1>2 DEF Closed, Popped
    <2>2. Cx(p).oldcop \in Statements
        BY <1>1, <2>1, CodeFacts DEF ContextTypes
    <2> QED
        BY <1>1, <2>1, <2>2, ProgramTypes
<1>8. TypeInv'
    BY <1>1, <1>2, <1>4, <1>5, <1>7, ProgramTypes, TypesKept DEF Idle
<1> QED
    BY <1>3, <1>4, <1>6, <1>8 DEF IInv

LEMMA DefineSubKeeps ==
    ASSUME IInv, DefineSub
    PROVE  IInv'
<1>1. TypeInv /\ LinesInv /\ DebugInv /\ EvalsInv
    BY DEF IInv
<1>2. /\ Idle /\ sub_gen' = sub_gen + 1
      /\ UNCHANGED <<stacks, curcop, start, main, evalseq, debugging, source_code_kind,
                     enabled, collected, hooked, sources, walk, missed>>
    BY DEF DefineSub
<1>3. LinesInv' /\ DebugInv' /\ WalkInv' /\ FramesSaved'
    BY <1>1, <1>2, ProgramStays, NoWalkKeeps DEF Idle
<1>4. EvalsInv' /\ defined' \subseteq 1 .. evalseq
    BY <1>1, DefineSubEvals
<1>5. StacksOK'
    BY <1>1, <1>2, StacksStay DEF TypeInv
<1>6. sub_gen' \in Nat
    BY <1>1, <1>2, ProgramTypes
<1>7. TypeInv'
    BY <1>1, <1>2, <1>4, <1>5, <1>6, ProgramTypes, TypesKept DEF Idle
<1> QED
    BY <1>3, <1>4, <1>7 DEF IInv

(* The program does not move: what is left are the profiler's variables.   *)
LEMMA ProfilerKeeps ==
    ASSUME IInv, UNCHANGED <<perl, hooked, defined, missed>>, source_code_kind' \in Kinds,
           enabled' \in BOOLEAN, collected' \in [Texts -> Collected],
           sources' \subseteq Nat \X Nat, walk' = NoWalk \/ (walk' \in Walks /\ enabled'),
           EvalsInv', WalkInv', FramesSaved'
    PROVE  IInv'
<1>1. TypeInv /\ LinesInv /\ DebugInv
    BY DEF IInv
<1>2. UNCHANGED <<stacks, curcop, start, main, evalseq, sub_gen, debugging>>
    BY DEF perl
<1>3. LinesInv' /\ DebugInv'
    BY <1>1, <1>2, ProgramStays
<1>4. TypeInv'
    <2>1. /\ stacks' \in Stacks /\ StacksOK'
          /\ curcop' \in Statements /\ start' \in SubNames \cup {NoSub}
          /\ main' \in Statements \cup {Nowhere} /\ (main' # Nowhere => main'[1] = "main")
          /\ evalseq' \in Nat /\ sub_gen' \in Nat /\ debugging' = debugging
        BY <1>1, PerlTypes
    <2>2. /\ defined' \subseteq 1 .. evalseq' /\ hooked' \subseteq 1 .. evalseq'
          /\ missed' \subseteq hooked'
        BY <1>1, <1>2, ProgramTypes
    <2> QED
        BY <1>1, <2>1, <2>2, TypesKept
<1> QED
    BY <1>3, <1>4 DEF IInv

LEMMA SetEnabledKeeps ==
    ASSUME IInv, SetEnabled
    PROVE  IInv'
<1>1. TypeInv /\ EvalsInv
    BY DEF IInv
<1>2. /\ Idle /\ enabled' = ~enabled
      /\ UNCHANGED <<perl, source_code_kind, collected, hooked, sources, walk, defined, missed>>
    BY DEF SetEnabled, RunsOwn, Runs
<1>3. EvalsInv' /\ WalkInv' /\ FramesSaved'
    BY <1>1, <1>2, SetEnabledEvals, NoWalkKeeps DEF Idle
<1>4. enabled' \in BOOLEAN /\ walk' = NoWalk
    BY <1>2 DEF Idle
<1> QED
    BY <1>1, <1>2, <1>3, <1>4, ProgramTypes, ProfilerKeeps

LEMMA SetSaveSourceKeeps ==
    ASSUME IInv, NEW kind \in Kinds, SetSaveSource(kind)
    PROVE  IInv'
<1>1. TypeInv /\ EvalsInv
    BY DEF IInv
<1>2. /\ Idle /\ source_code_kind' = kind
      /\ UNCHANGED <<perl, enabled, collected, hooked, sources, walk, defined, missed>>
    BY DEF SetSaveSource, RunsOwn, Runs
<1>3. EvalsInv' /\ WalkInv' /\ FramesSaved'
    BY <1>1, <1>2, SetSaveSourceEvals, NoWalkKeeps DEF Idle
<1>4. walk' = NoWalk
    BY <1>2 DEF Idle
<1> QED
    BY <1>1, <1>2, <1>3, <1>4, ProgramTypes, ProfilerKeeps

(* The steps of a sample that save no eval.                                *)
LEMMA LookingKeeps ==
    ASSUME IInv, UNCHANGED <<perl, source_code_kind, enabled, collected, hooked, sources, defined,
                             missed>>,
           walk' = NoWalk \/ (walk' \in Walks /\ enabled), WalkInv', FramesSaved'
    PROVE  IInv'
<1>1. TypeInv /\ EvalsInv
    BY DEF IInv
<1>2. UNCHANGED <<stacks, evalseq, sub_gen>>
    BY DEF perl
<1>3. EvalsInv'
    BY <1>1, <1>2, StillEvals
<1> QED
    BY <1>1, <1>3, ProgramTypes, ProfilerKeeps

LEMMA SampleKeeps ==
    ASSUME IInv, (\E d \in Depths : Sample(d)) \/ EndSample
    PROVE  IInv'
<1>1. CASE \E d \in Depths : Sample(d)
    <2>1. PICK d \in Depths : Sample(d)
        BY <1>1
    <2>2. walk' \in Walks /\ enabled /\ WalkInv' /\ FramesSaved'
        BY <2>1, SampleWalks DEF IInv
    <2>3. UNCHANGED <<perl, source_code_kind, enabled, collected, hooked, sources, defined,
                      missed>>
        BY <2>1 DEF Sample
    <2> QED
        BY <2>2, <2>3, LookingKeeps
<1>2. CASE EndSample
    <2>1. /\ walk' = NoWalk
          /\ UNCHANGED <<perl, source_code_kind, enabled, collected, hooked, sources, defined,
                         missed>>
        BY <1>2 DEF EndSample
    <2> QED
        BY <2>1, NoWalkKeeps, LookingKeeps
<1> QED
    BY <1>1, <1>2

LEMMA WalkKeeps ==
    ASSUME IInv, Walk
    PROVE  IInv'
<1>1. PICK a : a = SkipStacks
    OBVIOUS
<1>2. TypeInv /\ LinesInv /\ DebugInv /\ WalkInv /\ EvalsInv /\ FramesSaved
    BY DEF IInv
<1>3. walk.state = "walking"
    BY DEF Walk
<1>4. enabled
    BY <1>2, <1>3 DEF TypeInv, NoWalk
<1>5. CASE a[2] = 0 /\ ReportMain
    <2>1. walk' \in Walks /\ WalkInv' /\ FramesSaved'
        BY <1>1, <1>2, <1>3, <1>5, ReportMainWalks
    <2>2. UNCHANGED <<perl, source_code_kind, enabled, collected, hooked, sources, defined,
                      missed>>
        BY <1>5 DEF ReportMain
    <2> QED
        BY <1>4, <2>1, <2>2, LookingKeeps
<1>6. CASE a[2] # 0 /\ SkipDebugger(a[1], a[2])
    <2>1. walk' \in Walks /\ WalkInv' /\ FramesSaved'
        BY <1>1, <1>2, <1>3, <1>6, SkipDebuggerWalks
    <2>2. UNCHANGED <<perl, source_code_kind, enabled, collected, hooked, sources, defined,
                      missed>>
        BY <1>6 DEF SkipDebugger
    <2> QED
        BY <1>4, <2>1, <2>2, LookingKeeps
<1>7. CASE a[2] # 0 /\ Report(a[1], a[2])
    <2>1. /\ walk' \in Walks /\ WalkInv' /\ FramesSaved' /\ EvalsInv'
          /\ collected' \in [Texts -> Collected] /\ sources' \subseteq Nat \X Nat
        BY <1>1, <1>2, <1>3, <1>7, ReportWalks
    <2>2. UNCHANGED <<perl, source_code_kind, enabled, hooked, defined, missed>>
        BY <1>7 DEF Report
    <2>3. enabled' /\ enabled' \in BOOLEAN /\ source_code_kind' \in Kinds
        BY <1>2, <1>4, <2>2, ProgramTypes
    <2> QED
        BY <2>1, <2>2, <2>3, ProfilerKeeps
<1> QED
    BY <1>1, <1>5, <1>6, <1>7 DEF Walk

LEMMA StutterKeeps ==
    ASSUME IInv, UNCHANGED vars
    PROVE  IInv'
<1>1. UNCHANGED <<perl, source_code_kind, enabled, collected, hooked, sources, walk,
                  defined, missed>>
    BY DEF vars
<1>2. UNCHANGED <<stacks, curcop, start, main, evalseq, sub_gen, debugging>>
    BY <1>1 DEF perl
<1>3. WalkInv'
    <2>1. walk' = walk /\ At' = At /\ WalkInv
        BY <1>1 DEF At, IInv
    <2>2. CASE walk.state = "done"
        <3>1. ~InDebugger /\ ~RecursiveEntry => TrueUpTo(walk.frames, walk.limit)
            BY <2>1, <2>2 DEF WalkInv, FramesTrue, TrueUpTo, All
        <3> QED
            BY <1>1, <2>1, <2>2, <3>1, WalkEnds
    <2>3. CASE walk.state = "walking"
        <3>1. Known(PassedBy(At), walk.line) \/ (InDebugger /\ walk.line[1] # "eval")
            BY <2>1, <2>3 DEF WalkInv, LineKnown, Known, Passed, PassedBy
        <3>2. ~InDebugger /\ ~RecursiveEntry => FramesOf(At, walk.frames)
            BY <2>1, <2>3 DEF WalkInv, FramesSoFar, FramesOf, Passed, PassedBy
        <3>3. PICK b : b = At
            OBVIOUS
        <3>4. b = At' /\ b[1] = walk.si /\ b[2] = walk.cxix
            BY <2>1, <3>3 DEF At
        <3>5. /\ b[1] \in DOMAIN stacks /\ b[2] \in 0 .. Len(stacks[b[1]])
              /\ b[2] # 0 => Cx(b).type \in Units \cup {"try"}
              /\ b[2] # 0 /\ Cx(b).cv = "DB" => Innermost(b)
              /\ walk.depth = walk.limit - Len(walk.frames) /\ walk.depth > 0
            BY <2>1, <2>3, <3>3, <3>4 DEF WalkInv
        <3> QED
            BY <1>1, <2>1, <2>3, <3>1, <3>2, <3>3, <3>4, <3>5, WalkGoesOn
    <2>4. CASE walk = NoWalk
        BY <2>1, <2>4, NoWalkKeeps
    <2> QED
        BY <2>2, <2>3, <2>4 DEF IInv, TypeInv, Walks
<1>4. FramesSaved'
    BY <1>1 DEF IInv, FramesSaved
<1>5. walk' = NoWalk \/ (walk' \in Walks /\ enabled)
    BY <1>1 DEF IInv, TypeInv
<1> QED
    BY <1>1, <1>3, <1>4, <1>5, LookingKeeps

LEMMA NextInv == IInv /\ [Next]_vars => IInv'
<1> SUFFICES ASSUME IInv, [Next]_vars
             PROVE  IInv'
    OBVIOUS
<1>1. CASE \E l \in Lines : NextState(l)
    BY <1>1, NextStateKeeps
<1>2. CASE (\E f \in Subs : Call(f) \/ CallBack(f)) \/ Begin \/ Require
           \/ \E type \in {"try", "block"} : Block(type)
    BY <1>2, OpenKeeps
<1>3. CASE DefineSub
    BY <1>3, DefineSubKeeps
<1>4. CASE SetEnabled
    BY <1>4, SetEnabledKeeps
<1>5. CASE \E s \in Texts : EvalString(s)
    BY <1>5, EvalKeeps
<1>6. CASE Leave
    BY <1>6, LeaveKeeps
<1>7. CASE (\E d \in Depths : Sample(d)) \/ EndSample
    BY <1>7, SampleKeeps
<1>8. CASE Walk
    BY <1>8, WalkKeeps
<1>9. CASE \E kind \in Kinds : SetSaveSource(kind)
    BY <1>9, SetSaveSourceKeeps
<1>10. CASE UNCHANGED vars
    BY <1>10, StutterKeeps
<1> QED
    BY <1>1, <1>2, <1>3, <1>4, <1>5, <1>6, <1>7, <1>8, <1>9, <1>10 DEF Next

-----------------------------------------------------------------------------

(* The variables have their types: the context stacks are ones perl can    *)
(* have, and there is a sample only while profiling is enabled.            *)
THEOREM TypeCorrect == Spec => []TypeInv
<1>1. IInv => TypeInv
    BY DEF IInv
<1> QED
    BY <1>1, InitInv, NextInv, PTL DEF Spec

(* collect_trace(), tracecollector.cpp:174-262: whatever the program does, *)
(* and whatever the depth, a sample shows the subs, evals and files that   *)
(* have been entered, in order, each at the statement it is at; outside of *)
(* the debugger's own code and of recursive entries.                       *)
THEOREM FramesAreTrue == Spec => []FramesTrue
<1>1. IInv => FramesTrue
    BY DEF IInv, WalkInv
<1> QED
    BY <1>1, InitInv, NextInv, PTL DEF Spec

(* save_eval_once() and write_eval_if_needed(): every source is saved      *)
(* under the number of the eval it is the source of, and those of the      *)
(* evals of a sample are; for programs that switch neither the profile on  *)
(* nor save_source inside a string eval.                                   *)
THEOREM SampledEvalsAreSaved ==
    ASSUME ~SwitchInside
    PROVE  Spec => []SampledEvalsSaved
<1>1. IInv => SampledEvalsSaved
    BY DEF IInv, EvalsInv, FramesSaved, SampledEvalsSaved, NoWalk
<1> QED
    BY <1>1, InitInv, NextInv, PTL DEF Spec

(* enter_eval_hook() and write_eval_if_needed(): when an eval has ended    *)
(* that was entered with all_evals_always, or with all_evals and the       *)
(* profile enabled, and that defined subs, its source is there, whatever   *)
(* has been switched and evaluated meanwhile; if the trace could be opened *)
(* then.                                                                   *)
THEOREM SubsAlwaysHaveSource == Spec => []SubsHaveSource
<1>1. IInv => SubsHaveSource
    BY DEF IInv, EvalsInv
<1> QED
    BY <1>1, InitInv, NextInv, PTL DEF Spec
=============================================================================
