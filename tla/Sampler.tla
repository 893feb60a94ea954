------------------------------- MODULE Sampler -------------------------------
(***************************************************************************)
(* How one interpreter turns ticks of the global counter into samples      *)
(* (runloop() and collect_sample() in src/runloop.cpp).                    *)
(*                                                                         *)
(* A run loop remembers the counter in a local pred_counter, compares it   *)
(* after every op and, when it moved, writes a sample whose weight is the  *)
(* difference.  An op may call perl code again (tie, sort, XS callbacks):  *)
(* that starts an inner run loop with a pred_counter of its own, and       *)
(* MY_CXT.pred_counter tells the outer ones what was sampled inside.       *)
(*                                                                         *)
(* The counter thread runs concurrently: every read of counter is a step   *)
(* of its own.                                                             *)
(***************************************************************************)
EXTENDS Integers

CONSTANTS
    MaxDepth,   \* nesting of run loops
    MaxTicks,   \* ticks of the counter thread, a bound for TLC
    Modulus,    \* of counter, an unsigned int
    Events      \* what ops do, a subset of AllEvents

(* nest:     an op calls perl code                                         *)
(* overload: resolving the sub an op called runs perl code (overloaded &{})*)
(* die:      an op dies, the exception is caught somewhere outside         *)
(* stop:     an op closes the trace                                        *)
(* openfail: the trace file cannot be opened                               *)
AllEvents == {"nest", "overload", "die", "stop", "openfail"}

ASSUME DepthAssumption == MaxDepth \in Nat \ {0}
ASSUME TicksAssumption == MaxTicks \in Nat /\ Modulus \in Nat \ {0}
ASSUME EventsAssumption == Events \subseteq AllEvents

VARIABLES
    ticks,      \* ticks so far; counter is this number modulo Modulus
    depth,      \* active run loops; the innermost one runs
    pc,         \* what each run loop is doing
    pred,       \* its pred_counter
    arg,        \* the pred_counter inside its call of collect_sample()
    last,       \* that call is the one after the loop
    myPred,     \* MY_CXT.pred_counter
    valid,      \* trace->is_valid()
    charged,    \* history: where ticks went, see Charge
    happened    \* history: the events of AllEvents there were so far

runloopVars == <<ticks, depth, pc, pred, arg, last, myPred, valid, charged, happened>>

Levels == 1 .. MaxDepth
Counter == ticks % Modulus

(* Mutant of Since: the weight is a signed int.                            *)
SinceSigned(p) == Counter - p

Since(p) == (Counter - p) % Modulus        \* unsigned subtraction

(* sampled: in the weight of a sample                                      *)
(* idle:    while no run loop was active                                   *)
(* store:   after a weight was computed and before myPred was set          *)
(* return:  after that and before the run loop set pred                    *)
Accounts == {"sampled", "idle", "store", "return"}

TypeOK ==
    /\ ticks \in 0 .. MaxTicks
    /\ depth \in 0 .. MaxDepth
    /\ pc \in [Levels -> {"ops", "adjust", "resolve", "store", "return"}]
    /\ pred \in [Levels -> 0 .. Modulus - 1]
    /\ arg \in [Levels -> 0 .. Modulus - 1]
    /\ last \in [Levels -> BOOLEAN]
    /\ myPred \in 0 .. Modulus - 1
    /\ valid \in BOOLEAN
    /\ charged \in [Accounts -> Nat]
    /\ happened \subseteq AllEvents

RunloopInit ==
    /\ ticks = 0 /\ depth = 0 /\ myPred = 0 /\ valid = FALSE
    /\ pc = [d \in Levels |-> "ops"]
    /\ pred = [d \in Levels |-> 0]
    /\ arg = [d \in Levels |-> 0]
    /\ last = [d \in Levels |-> FALSE]
    /\ charged = [a \in Accounts |-> 0]
    /\ happened = {}

AtStep(label) == depth > 0 /\ pc[depth] = label
Goto(label) == pc' = [pc EXCEPT ![depth] = label]
Charge(account, n) == charged' = [charged EXCEPT ![account] = @ + n]

(* The outermost run loop is done and only has to return.                  *)
Finished == depth = 1 /\ pc[1] = "return" /\ last[1]

(* One tick of the counter thread.                                         *)
Tick ==
    /\ ticks < MaxTicks
    /\ ticks' = ticks + 1
    /\ IF depth = 0 \/ Finished THEN Charge("idle", 1)
       ELSE IF AtStep("store") THEN Charge("store", 1)
       ELSE IF AtStep("return") /\ ~last[depth] THEN Charge("return", 1)
       ELSE UNCHANGED charged
    /\ UNCHANGED <<depth, pc, pred, arg, last, myPred, valid, happened>>

-----------------------------------------------------------------------------
(* runloop()                                                               *)

(* CALLRUNOPS at level d after the given events: pred_counter = counter,   *)
(* and create_trace() opens a closed trace, which may fail.                *)
EnterLoop(d, events) ==
    /\ depth' = d
    /\ pred' = [pred EXCEPT ![d] = Counter]
    /\ \/ valid' = TRUE /\ happened' = happened \cup events
       \/ /\ "openfail" \in Events /\ ~valid /\ valid' = FALSE
          /\ happened' = happened \cup events \cup {"openfail"}

(* The profiled program starts, or is resumed.                             *)
Start ==
    /\ depth = 0
    /\ EnterLoop(1, {})
    /\ UNCHANGED <<ticks, pc, arg, last, myPred, charged>>

(* An op calls perl code, or resolving the called sub does.                *)
Nest ==
    /\ depth < MaxDepth
    /\ \/ "nest" \in Events /\ AtStep("ops") /\ EnterLoop(depth + 1, {"nest"})
       \/ "overload" \in Events /\ AtStep("resolve") /\ EnterLoop(depth + 1, {"overload"})
    /\ UNCHANGED <<ticks, pc, arg, last, myPred, charged>>

(* Calls collect_sample().                                                 *)
Collect(atEnd) ==
    /\ Goto("adjust")
    /\ last' = [last EXCEPT ![depth] = atEnd]
    /\ UNCHANGED <<depth, pred, arg>>

(* The run loop returns: its locals are gone.                              *)
Pop ==
    /\ depth' = depth - 1
    /\ Goto("ops")
    /\ pred' = [pred EXCEPT ![depth] = 0]
    /\ arg' = [arg EXCEPT ![depth] = 0]
    /\ last' = [last EXCEPT ![depth] = FALSE]

(* The check after an op.                                                  *)
LoopCheck ==
    /\ AtStep("ops") /\ Counter # pred[depth]
    /\ Collect(FALSE)
    /\ UNCHANGED <<ticks, myPred, valid, charged, happened>>

(* Mutant of EndLoop: the last sample of a run loop is forgotten.          *)
EndLoopUnsampled == Pop

(* An op returned NULL: the check after the loop.                          *)
EndLoop == IF Counter # pred[depth] THEN Collect(TRUE) ELSE Pop

LoopEnd ==
    /\ AtStep("ops")
    /\ EndLoop
    /\ UNCHANGED <<ticks, myPred, valid, charged, happened>>

(* stop_profile() closes the trace and ends the run loop it is called in.  *)
Stop ==
    /\ "stop" \in Events
    /\ \/ AtStep("ops") /\ EndLoop
       \/ depth = 0 /\ valid /\ UNCHANGED <<depth, pc, pred, arg, last>>
    /\ valid' = FALSE /\ happened' = happened \cup {"stop"}
    /\ UNCHANGED <<ticks, myPred, charged>>

(* The exception is caught in the code of the run loop at some level, which*)
(* is entered again, or outside of all of them.                            *)
Die ==
    /\ "die" \in Events /\ AtStep("ops")
    /\ \/ \E d \in 1 .. depth : EnterLoop(d, {"die"})
       \/ depth' = 0 /\ happened' = happened \cup {"die"} /\ UNCHANGED <<pred, valid>>
    /\ pc' = [d \in Levels |-> IF d < depth' THEN pc[d] ELSE "ops"]
    /\ last' = [d \in Levels |-> IF d < depth' THEN last[d] ELSE FALSE]
    /\ UNCHANGED <<ticks, arg, myPred, charged>>

-----------------------------------------------------------------------------
(* collect_sample()                                                        *)

(* Mutant of Adjust: what inner run loops sampled is not subtracted.       *)
AdjustIgnoresInner ==
    /\ AtStep("adjust")
    /\ arg' = [arg EXCEPT ![depth] = pred[depth]]
    /\ Goto(IF valid THEN "resolve" ELSE "return")
    /\ UNCHANGED <<ticks, depth, pred, last, myPred, valid, charged, happened>>

(* Nothing is sampled when the trace is closed, or when an inner run loop  *)
(* sampled up to now.                                                      *)
Adjust ==
    /\ AtStep("adjust")
    /\ LET from == IF myPred > pred[depth] THEN myPred ELSE pred[depth]
           done == myPred > pred[depth] /\ myPred = Counter
       IN  /\ arg' = [arg EXCEPT ![depth] = from]
           /\ Goto(IF valid /\ ~done THEN "resolve" ELSE "return")
    /\ UNCHANGED <<ticks, depth, pred, last, myPred, valid, charged, happened>>

(* start_sample(counter - pred_counter), add_frame() and end_sample().     *)
Emit ==
    /\ AtStep("resolve")
    /\ Charge("sampled", Since(arg[depth]))
    /\ Goto("store")
    /\ UNCHANGED <<ticks, depth, pred, arg, last, myPred, valid, happened>>

(* MY_CXT.pred_counter = counter.                                          *)
Store ==
    /\ AtStep("store")
    /\ myPred' = Counter
    /\ Goto("return")
    /\ UNCHANGED <<ticks, depth, pred, arg, last, valid, charged, happened>>

(* Back in runloop(): pred_counter = counter, or the end.                  *)
Return ==
    /\ AtStep("return")
    /\ IF last[depth] THEN Pop
       ELSE /\ pred' = [pred EXCEPT ![depth] = Counter]
            /\ Goto("ops")
            /\ UNCHANGED <<depth, arg, last>>
    /\ UNCHANGED <<ticks, myPred, valid, charged, happened>>

-----------------------------------------------------------------------------
RunloopNext ==
    \/ Tick
    \/ Start \/ Nest \/ LoopCheck \/ LoopEnd \/ Stop \/ Die
    \/ Adjust \/ Emit \/ Store \/ Return

RunloopSpec == RunloopInit /\ [][RunloopNext]_runloopVars

-----------------------------------------------------------------------------
(* Properties                                                              *)

(* Ticks that are in a weight, or that no weight may ever include.         *)
Spent == charged["sampled"] + charged["idle"] + charged["store"]
Total == Spent + charged["return"]

(* counter did not wrap around yet, and no overloaded &{} was called while  *)
(* a sample was collected.                                                 *)
Accountable == ticks < Modulus /\ "overload" \notin happened

(* No tick is in the weights of two samples, and none that passed while no *)
(* profiled code ran is in a weight: the weights never add up to more than *)
(* the ticks of the counter, however run loops nest, die and are stopped.  *)
AttributedOnce == Accountable => Spent <= ticks

(* One run loop at a time, in which nothing died and no trace was closed or*)
(* missing so far.                                                         *)
Flat == ticks < Modulus /\ happened = {}

(* No tick is dropped silently: when the run loop is back at executing ops,*)
(* every tick up to its pred_counter is in a weight, except those between  *)
(* two reads of counter inside collect_sample() and runloop().             *)
AllAttributed ==
    Flat /\ depth = 1 /\ AtStep("ops") /\ valid => Total = pred[1]

-----------------------------------------------------------------------------
(* The inductive invariant of SampleProofs.                                *)

(* Only the innermost run loop is inside collect_sample(); an inner run    *)
(* loop read counter after the outer ones.                                 *)
LoopInv ==
    /\ \A d \in Levels : d # depth => pc[d] = "ops"
    /\ \A d \in Levels : pred[d] <= ticks
    /\ \A d, e \in 1 .. depth : d <= e => pred[d] <= pred[e]
    /\ myPred <= ticks
    /\ AtStep("resolve") => pred[depth] <= arg[depth] /\ myPred <= arg[depth]
                        /\ arg[depth] <= ticks

(* What was spent was spent before the next weight starts.                 *)
SpentInv ==
    IF depth = 0 \/ AtStep("store") \/ Finished THEN Spent <= ticks
    ELSE Spent <= myPred \/ Spent <= pred[1]

AccountInv == TypeOK /\ (Accountable => LoopInv /\ SpentInv)

(* The same for AllAttributed: every tick up to the last one read is       *)
(* accounted for.                                                          *)
LastRead == IF depth = 0 \/ AtStep("store") \/ AtStep("return") THEN ticks ELSE pred[1]

FlatInv ==
    /\ AccountInv
    /\ Flat => /\ depth <= 1 /\ (depth = 1 => valid)
               /\ Total = LastRead /\ myPred <= LastRead
               /\ AtStep("resolve") => arg[1] = pred[1]
=============================================================================
