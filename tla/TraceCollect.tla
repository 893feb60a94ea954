---------------------------- MODULE TraceCollect ----------------------------
(***************************************************************************)
(* What a sample shows of the running program: collect_trace() of          *)
(* src/tracecollector.cpp walks Perl's context stacks, and saves the       *)
(* sources of the string evals it meets; enter_eval_hook() and             *)
(* write_eval_if_needed() of src/runloop.cpp mark evals when they start    *)
(* and save those that defined subs when they end.                         *)
(*                                                                         *)
(* The program calls subs, evaluates strings, loads files, runs BEGIN      *)
(* blocks while it compiles, and calls back from other stacks (ties,       *)
(* overloading).  This is the interpreter's part: the actions keep its     *)
(* context stacks as perl does.  A context remembers the statement that    *)
(* was current before it (oldcop); the walk has to find out from these     *)
(* where each sub and eval is.  Next to that, at keeps the truth.          *)
(***************************************************************************)
EXTENDS Integers, Sequences, FiniteSets

CONSTANTS
    Subs, Lines,
    Texts,        \* SVs that hold the source of a string eval
    Kinds,        \* values of source_code_kind
    Debugger,     \* whether calls go through &DB::sub, a set
    Depths,       \* values of stack_collect_depth
    SwitchInside, \* the program may switch the profile on, or source_code_kind,
                  \* inside a string eval
    OpenFails,    \* the trace may fail to open
    MaxContexts, MaxEvals, MaxSubs   \* bounds for TLC

ASSUME BoundAssumption ==
    /\ Kinds \subseteq {"none", "traced", "all", "always"}
    /\ Debugger \subseteq BOOLEAN /\ SwitchInside \in BOOLEAN /\ OpenFails \in BOOLEAN
    /\ Depths \subseteq Nat \ {0}
    /\ MaxContexts \in Nat /\ MaxEvals \in Nat /\ MaxSubs \in Nat
    /\ Subs \cap {"BEGIN", "DB", "main", "eval", "require", "compiling", "nowhere", "no sub"} = {}
    /\ "no text" \notin Texts

VARIABLES
    \* the interpreter
    stacks,      \* a sequence of context stacks, the current one last
    curcop,      \* PL_curcop, the current statement
    start,       \* the sub whose first op is PL_op, if one was just called
    main,        \* where the main program is
    evalseq,     \* PL_evalseq, the number of string evals
    sub_gen,     \* PL_breakable_sub_gen, the number of subs defined
    debugging,
    \* the profiler
    source_code_kind, enabled,
    collected,   \* the EvalCollected of each SV
    hooked,      \* evals with magic that calls write_eval_if_needed() at their end
    sources,     \* eval sources written: <<number, eval it is the source of>>
    walk,        \* the locals of collect_trace()
    \* history
    defined,     \* evals that defined a sub
    missed       \* evals whose source was to be written and the trace was not open

perl == <<stacks, curcop, start, main, evalseq, sub_gen, debugging>>
vars == <<perl, source_code_kind, enabled, collected, hooked, sources, walk, defined, missed>>

(* Statements: the unit of code, the number of the eval, the line.         *)
Compiling == <<"compiling", 0, 0>>
Nowhere == <<"nowhere", 0, 0>>
NoSub == "no sub"
NoText == "no text"

Nothing == [evalseq |-> 0, sub_gen |-> 0, saved |-> FALSE]
NoWalk == [state |-> "none"]

Init ==
    /\ stacks = << <<>> >> /\ curcop = Compiling /\ start = NoSub /\ main = Nowhere
    /\ evalseq = 0 /\ sub_gen = 0 /\ debugging \in Debugger
    /\ source_code_kind \in Kinds /\ enabled \in BOOLEAN
    /\ collected = [s \in Texts |-> Nothing]
    /\ hooked = {} /\ sources = {} /\ walk = NoWalk /\ defined = {} /\ missed = {}

-----------------------------------------------------------------------------
(* The context stacks                                                      *)

Context(type, cv, text, number) ==
    [type |-> type, cv |-> cv, text |-> text, number |-> number, oldcop |-> curcop,
     at |-> Nowhere]

Plain(type) == Context(type, NoSub, NoText, 0)
Sub(cv) == Context("sub", cv, NoText, 0)

(* Contexts with code of their own.                                        *)
Units == {"sub", "eval", "require"}

top == stacks[Len(stacks)]
Push(cx) == stacks' = [stacks EXCEPT ![Len(stacks)] = Append(@, cx)]

(* Where contexts are: the number of the stack, and the index there.       *)
Positions == UNION {{i} \X DOMAIN stacks[i] : i \in DOMAIN stacks}
Cx(p) == stacks[p[1]][p[2]]

(* p is called from q, or from something that was called from there.       *)
Inside(p, q) == p[1] > q[1] \/ (p[1] = q[1] /\ p[2] > q[2])

Highest(S) == IF S = {} THEN 0 ELSE CHOOSE i \in S : \A j \in S : j <= i

(* The innermost unit; other stacks begin with the context of a sub.       *)
unit == Highest({i \in DOMAIN top : top[i].type \in Units})
Name(cx) == IF cx.type = "sub" THEN <<cx.cv, 0>> ELSE <<cx.type, cx.number>>
UnitName == IF unit = 0 THEN <<"main", 0>> ELSE Name(top[unit])

Idle == walk = NoWalk
Room == Cardinality(Positions) < MaxContexts
Runs == Idle /\ start = NoSub /\ curcop # Compiling

(* &DB::sub does nothing but call.                                         *)
RunsOwn == Runs /\ UnitName[1] # "DB"

-----------------------------------------------------------------------------
(* The program                                                             *)

(* A nextstate op.                                                         *)
NextState(l) ==
    /\ Idle
    /\ curcop' = <<UnitName[1], UnitName[2], l>>
    /\ start' = NoSub
    /\ IF unit = 0 THEN main' = curcop' /\ UNCHANGED stacks
       ELSE /\ stacks' = [stacks EXCEPT ![Len(stacks)][unit].at = curcop']
            /\ UNCHANGED main
    /\ UNCHANGED <<evalseq, sub_gen, debugging, source_code_kind, enabled, collected,
                   hooked, sources, walk, defined, missed>>

(* With a debugger, calls outside of it are calls to &DB::sub, which makes *)
(* the call.                                                               *)
Called(f) == IF debugging /\ UnitName[1] # "DB" THEN "DB" ELSE f

Call(f) ==
    /\ Runs /\ Room
    /\ Push(Sub(Called(f))) /\ start' = Called(f)
    /\ UNCHANGED <<curcop, main, evalseq, sub_gen, debugging, source_code_kind, enabled,
                   collected, hooked, sources, walk, defined, missed>>

(* A call from a new stack (PUSHSTACKi).                                   *)
CallBack(f) ==
    /\ RunsOwn /\ Room
    /\ stacks' = Append(stacks, <<Sub(Called(f))>>) /\ start' = Called(f)
    /\ UNCHANGED <<curcop, main, evalseq, sub_gen, debugging, source_code_kind, enabled,
                   collected, hooked, sources, walk, defined, missed>>

Begin ==
    /\ Idle /\ Room /\ curcop = Compiling /\ ~debugging
    /\ Push(Sub("BEGIN")) /\ start' = "BEGIN"
    /\ UNCHANGED <<curcop, main, evalseq, sub_gen, debugging, source_code_kind, enabled,
                   collected, hooked, sources, walk, defined, missed>>

(* require and do FILE compile before they run.                            *)
Require ==
    /\ RunsOwn /\ Room
    /\ Push(Plain("require")) /\ curcop' = Compiling
    /\ UNCHANGED <<start, main, evalseq, sub_gen, debugging, source_code_kind, enabled,
                   collected, hooked, sources, walk, defined, missed>>

(* eval BLOCK ("try"), and what has no code of its own: loops, and the     *)
(* second entry of a sub for a code block in a regular expression.         *)
Block(type) ==
    /\ RunsOwn /\ Room
    /\ Push(Plain(type))
    /\ UNCHANGED <<curcop, start, main, evalseq, sub_gen, debugging, source_code_kind,
                   enabled, collected, hooked, sources, walk, defined, missed>>

(* A sub is defined while an eval is compiled.                             *)
DefineSub ==
    /\ Idle /\ curcop = Compiling /\ sub_gen < MaxSubs
    /\ unit > 0 /\ top[unit].type = "eval"
    /\ sub_gen' = sub_gen + 1
    /\ defined' = defined \cup {top[unit].number}
    /\ UNCHANGED <<stacks, curcop, start, main, evalseq, debugging, source_code_kind,
                   enabled, collected, hooked, sources, walk, missed>>

InEval == \E p \in Positions : Cx(p).type = "eval"

SetEnabled ==
    /\ RunsOwn
    /\ enabled \/ SwitchInside \/ ~InEval
    /\ enabled' = ~enabled
    /\ UNCHANGED <<perl, source_code_kind, collected, hooked, sources, walk, defined, missed>>

(* save_source()                                                           *)
SetSaveSource(kind) ==
    /\ RunsOwn /\ kind # source_code_kind
    /\ SwitchInside \/ ~InEval
    /\ source_code_kind' = kind
    /\ UNCHANGED <<perl, enabled, collected, hooked, sources, walk, defined, missed>>

-----------------------------------------------------------------------------
(* Sources of evals                                                        *)

(* Mutant of Overwritten: what was saved under the old number stays saved. *)
OverwrittenStale(old) == [old EXCEPT !.evalseq = evalseq', !.sub_gen = sub_gen]

Overwritten(old) == [evalseq |-> evalseq', sub_gen |-> sub_gen, saved |-> FALSE]

(* get_or_attach_evalcollected(); at the start of an eval the number may   *)
(* be overwritten.                                                         *)
Attached(text) ==
    IF collected[text] = Nothing
    THEN [evalseq |-> evalseq, sub_gen |-> sub_gen, saved |-> FALSE]
    ELSE collected[text]

(* enter_eval_hook(): whether the eval is marked, and whether it has magic *)
(* that calls write_eval_if_needed().                                      *)
Marks == source_code_kind # "none" /\ (source_code_kind = "always" \/ enabled)
Hooks == Marks /\ source_code_kind \in {"all", "always"}

(* A string eval: it has a number when its context is pushed.  No SV is    *)
(* evaluated inside its own eval (see tracecollector.cpp:157).             *)
EvalString(s) ==
    /\ RunsOwn /\ Room /\ evalseq < MaxEvals
    /\ \A p \in Positions : Cx(p).text # s
    /\ evalseq' = evalseq + 1
    /\ Push(Context("eval", NoSub, s, evalseq'))
    /\ hooked' = IF Hooks THEN hooked \cup {evalseq'} ELSE hooked
    /\ curcop' = Compiling
    /\ collected' =
         IF Marks THEN [collected EXCEPT ![s] = Overwritten(@)] ELSE collected
    /\ UNCHANGED <<start, main, sub_gen, debugging, source_code_kind, enabled, sources,
                   walk, defined, missed>>

(* Mutant of Needed: only an eval without subs is written.                 *)
NeededPlain(c) == ~c.saved /\ c.sub_gen = sub_gen

(* write_eval_if_needed(): subs may be called after their eval has ended.  *)
Needed(c) == ~c.saved /\ c.sub_gen # sub_gen

(* It counts as saved also if the trace is not open.                       *)
WriteEvalIfNeeded(cx) ==
    LET c == collected[cx.text] IN
    IF cx.type = "eval" /\ cx.number \in hooked /\ c # Nothing
    THEN /\ collected' = [collected EXCEPT ![cx.text].saved = TRUE]
         /\ \/ /\ sources' = IF Needed(c) THEN sources \cup {<<c.evalseq, cx.number>>}
                              ELSE sources
               /\ UNCHANGED missed
            \/ /\ OpenFails /\ Needed(c)
               /\ missed' = missed \cup {cx.number} /\ UNCHANGED sources
    ELSE UNCHANGED <<sources, collected, missed>>

(* The innermost context is left, with it an auxiliary stack that it is    *)
(* alone on.                                                               *)
Leave ==
    /\ Idle /\ start = NoSub /\ Len(top) > 0
    /\ LET cx == top[Len(top)] IN
       /\ cx.type = "sub" => curcop # Compiling
       /\ WriteEvalIfNeeded(cx)
       /\ curcop' = IF cx.type \in Units THEN cx.oldcop ELSE curcop
       /\ stacks' = IF Len(top) = 1 /\ Len(stacks) > 1
                    THEN SubSeq(stacks, 1, Len(stacks) - 1)
                    ELSE [stacks EXCEPT ![Len(stacks)] = SubSeq(@, 1, Len(@) - 1)]
    /\ UNCHANGED <<start, main, evalseq, sub_gen, debugging, source_code_kind, enabled,
                   hooked, walk, defined>>

-----------------------------------------------------------------------------
(* collect_trace()                                                         *)

(* S_dopoptosub_at(): the next context of a sub or an eval, 0 for none.    *)
DopoptoSub(si, from) ==
    Highest({i \in 1 .. from : stacks[si][i].type \in Units \cup {"try"}})

Sample(d) ==
    /\ Idle /\ enabled
    /\ walk' = [state |-> "walking", si |-> Len(stacks),
                cxix |-> DopoptoSub(Len(stacks), Len(top)),
                line |-> curcop, depth |-> d, limit |-> d, frames |-> <<>>]
    /\ UNCHANGED <<perl, source_code_kind, enabled, collected, hooked, sources, defined, missed>>

(* Skip over auxiliary stacks that are used up.                            *)
SkipStacks ==
    LET below == {i \in 1 .. walk.si - 1 : DopoptoSub(i, Len(stacks[i])) > 0}
        si == Highest(below)
    IN  IF walk.cxix > 0 THEN <<walk.si, walk.cxix>>
        ELSE IF si = 0 THEN <<1, 0>>
        ELSE <<si, DopoptoSub(si, Len(stacks[si]))>>

Frame(kind, cv, line) == <<kind, cv, line>>

FrameOf(cx, line) ==
    IF cx.type = "sub" THEN Frame("SUB", cx.cv, line)
    ELSE Frame(IF cx.type = "eval" THEN "EVAL" ELSE "MAIN", NoSub, line)

(* Mutant of Reported: frames that BEGIN blocks are called from are shown. *)
ReportedBegin(cx, caller, line) ==
    /\ line # caller.oldcop \/ cx.type # "sub" \/ start # cx.cv
    /\ cx.type # "try"

(* The context has been entered (its first statement was reached), it is   *)
(* not compiling, and it is not that of an eval BLOCK.                     *)
Reported(cx, caller, line) ==
    /\ line # caller.oldcop \/ cx.type # "sub" \/ start # cx.cv
    /\ line # Compiling
    /\ cx.type # "try"

(* save_eval_once()                                                        *)
SaveEval(cx) ==
    IF cx.type = "eval" /\ source_code_kind # "none"
    THEN LET c == Attached(cx.text) IN
         /\ collected' = [collected EXCEPT ![cx.text] = [c EXCEPT !.saved = TRUE]]
         /\ sources' = IF c.saved THEN sources
                       ELSE sources \cup {<<c.evalseq, cx.number>>}
    ELSE UNCHANGED <<collected, sources>>

(* The automatic calls to &DB::sub are not reported.                       *)
SkipDebugger(si, cxix) ==
    /\ debugging /\ stacks[si][cxix].cv = "DB"
    /\ walk' = [walk EXCEPT !.si = si, !.cxix = DopoptoSub(si, cxix - 1)]
    /\ UNCHANGED <<perl, source_code_kind, enabled, collected, hooked, sources, defined, missed>>

(* A sub called by &DB::sub was called from where that was.                *)
CallerOf(si, cxix) ==
    LET db == DopoptoSub(si, cxix - 1) IN
    IF debugging /\ db > 0 /\ stacks[si][db].cv = "DB" THEN db ELSE cxix

LastFrame(d) == d = 0

Report(si, cxix) ==
    /\ ~(debugging /\ stacks[si][cxix].cv = "DB")
    /\ LET cx == stacks[si][cxix]
           from == CallerOf(si, cxix)
           caller == stacks[si][from]
           shown == Reported(cx, caller, walk.line)
           d == IF shown THEN walk.depth - 1 ELSE walk.depth IN
       /\ walk' = [walk EXCEPT
              !.si = si, !.depth = d,
              !.cxix = DopoptoSub(si, from - 1),
              !.frames = IF shown THEN Append(@, FrameOf(cx, walk.line)) ELSE @,
              !.line = IF cx.type = "try" THEN @ ELSE caller.oldcop,
              !.state = IF LastFrame(d) THEN "done" ELSE @]
       /\ SaveEval(cx)
    /\ UNCHANGED <<perl, source_code_kind, enabled, hooked, defined, missed>>

(* Report main, unless it is compiling.                                    *)
ReportMain ==
    /\ walk' = [walk EXCEPT
           !.state = "done",
           !.frames = IF walk.line # Compiling
                      THEN Append(@, Frame("MAIN", NoSub, walk.line)) ELSE @]
    /\ UNCHANGED <<perl, source_code_kind, enabled, collected, hooked, sources, defined, missed>>

(* An iteration of the loop.                                               *)
Walk ==
    /\ walk.state = "walking"
    /\ LET at == SkipStacks IN
       IF at[2] = 0 THEN ReportMain
       ELSE SkipDebugger(at[1], at[2]) \/ Report(at[1], at[2])

EndSample ==
    /\ walk.state = "done"
    /\ walk' = NoWalk
    /\ UNCHANGED <<perl, source_code_kind, enabled, collected, hooked, sources, defined, missed>>

Next ==
    \/ \E l \in Lines : NextState(l)
    \/ \E f \in Subs : Call(f) \/ CallBack(f)
    \/ Begin \/ Require \/ DefineSub \/ SetEnabled
    \/ \E kind \in Kinds : SetSaveSource(kind)
    \/ \E type \in {"try", "block"} : Block(type)
    \/ \E s \in Texts : EvalString(s)
    \/ Leave
    \/ \E d \in Depths : Sample(d)
    \/ Walk \/ EndSample

Spec == Init /\ [][Next]_vars

-----------------------------------------------------------------------------
(* What is true                                                            *)

(* The subs, evals and files that have been entered.                       *)
Entered == {p \in Positions : Cx(p).type \in Units /\ Cx(p).cv # "DB" /\ Cx(p).at # Nowhere}

(* Which frame of a sample is that of p, the innermost is the first.       *)
Rank(p) == Cardinality({q \in Entered : Inside(q, p)}) + 1

(* A sub is about to be entered, and one of its callers is the same sub    *)
(* and has just called the next one from the statement of the same sub     *)
(* that had called it.                                                     *)
RecursiveEntry == start # NoSub /\ \E p \in Entered : Cx(p).cv = start /\ Cx(p).at = Cx(p).oldcop

InDebugger == curcop[1] = "DB" \/ start = "DB"

-----------------------------------------------------------------------------
(* A sample shows every sub, eval and file that has been entered and only  *)
(* these, each at the statement it is at, up to the depth; except in the   *)
(* debugger's own code and on a recursive entry.                           *)
FramesTrue ==
    walk.state = "done" /\ ~InDebugger /\ ~RecursiveEntry =>
        LET all == Cardinality(Entered) + (IF main = Nowhere THEN 0 ELSE 1)
        IN  /\ Len(walk.frames) = IF all < walk.limit THEN all ELSE walk.limit
            /\ \A p \in Entered : Rank(p) <= walk.limit =>
                  walk.frames[Rank(p)] = FrameOf(Cx(p), Cx(p).at)
            /\ main # Nowhere /\ all <= walk.limit =>
                  walk.frames[all] = Frame("MAIN", NoSub, main)

(* The evals of a sample are saved, each under its own number.             *)
SampledEvalsSaved ==
    /\ \A x \in sources : x[1] = x[2]
    /\ walk.state = "done" /\ source_code_kind # "none" =>
          \A i \in DOMAIN walk.frames :
              LET at == walk.frames[i][3] IN at[1] = "eval" => <<at[2], at[2]>> \in sources

(* Once an eval has ended that was entered with all_evals_always, or with  *)
(* all_evals while the profile was enabled, and that defined subs, its     *)
(* source is there for samples of these subs, if the trace could be        *)
(* opened; whatever has been sampled, switched and evaluated meanwhile.    *)
Ended == {n \in 1 .. evalseq : \A p \in Positions : Cx(p).number # n}
SubsHaveSource == \A n \in (defined \cap hooked \cap Ended) \ missed : <<n, n>> \in sources

-----------------------------------------------------------------------------
(* The inductive invariants of SampleProofs.                               *)

SubNames == Subs \cup {"BEGIN", "DB"}
Statements ==
    {Compiling} \cup ((SubNames \cup {"main", "eval", "require"}) \X Nat \X Lines)
ContextTypes ==
    [type : Units \cup {"try", "block"}, cv : SubNames \cup {NoSub},
     text : Texts \cup {NoText}, number : Nat, oldcop : Statements,
     at : Statements \cup {Nowhere}]
Frames == {"SUB", "EVAL", "MAIN"} \X (SubNames \cup {NoSub}) \X Statements
Walks ==
    [state : {"walking", "done"}, si : Nat, cxix : Nat, line : Statements, depth : Nat,
     limit : Nat \ {0}, frames : Seq(Frames)]

(* The fields of a context fit its type.                                   *)
ContextOK(cx) ==
    /\ cx.type = "sub" <=> cx.cv # NoSub
    /\ cx.type = "eval" <=> cx.text # NoText
    /\ cx.type = "eval" <=> cx.number # 0
    /\ cx.number <= evalseq
    /\ cx.at # Nowhere => <<cx.at[1], cx.at[2]>> = Name(cx)

(* Stacks but the first begin with a sub, no text is evaluated twice.      *)
StacksOK ==
    /\ \A i \in DOMAIN stacks : i > 1 => stacks[i] # <<>> /\ stacks[i][1].type = "sub"
    /\ \A p \in Positions : ContextOK(Cx(p))
    /\ \A p, q \in Positions : Cx(p).text = Cx(q).text /\ Cx(p).text # NoText => p = q

TypeInv ==
    /\ stacks \in Seq(Seq(ContextTypes)) /\ stacks # <<>>
    /\ curcop \in Statements /\ start \in SubNames \cup {NoSub}
    /\ main \in Statements \cup {Nowhere} /\ (main # Nowhere => main[1] = "main")
    /\ evalseq \in Nat /\ sub_gen \in Nat /\ debugging \in BOOLEAN
    /\ source_code_kind \in Kinds /\ enabled \in BOOLEAN
    /\ collected \in [Texts -> [evalseq : Nat, sub_gen : Nat, saved : BOOLEAN]]
    /\ sources \subseteq Nat \X Nat /\ defined \subseteq 1 .. evalseq
    /\ hooked \subseteq 1 .. evalseq /\ missed \subseteq hooked
    /\ walk = NoWalk \/ (walk \in Walks /\ enabled)
    /\ StacksOK

(* Contexts with code; p has called q.                                     *)
Code == {p \in Positions : Cx(p).type \in Units}
Innermost(p) == \A q \in Code : ~Inside(q, p)
Outermost(p) == \A q \in Code : ~Inside(p, q)
Calls(p, q) == Inside(q, p) /\ \A r \in Code : ~(Inside(r, p) /\ Inside(q, r))

(* The program is at this statement in p, or in the main program.          *)
IsAt(p, line) == line = IF Cx(p).at = Nowhere THEN Compiling ELSE Cx(p).at
MainAt(line) == line = IF main = Nowhere THEN Compiling ELSE main

(* A sub was called and its first statement not reached.                   *)
JustCalled(p) ==
    /\ Cx(p).type = "sub" /\ Cx(p).cv = start
    /\ Cx(p).at = Nowhere /\ Cx(p).oldcop = curcop

(* The statement a context remembers is where the next outer one is.       *)
LinesInv ==
    /\ \A p \in Code : Innermost(p) =>
          IF start = NoSub THEN IsAt(p, curcop) ELSE JustCalled(p)
    /\ \A p, q \in Code : Calls(p, q) => IsAt(p, Cx(q).oldcop)
    /\ \A p \in Code : Outermost(p) => MainAt(Cx(p).oldcop)
    /\ Code = {} => MainAt(curcop) /\ start = NoSub

(* &DB::sub calls subs, and nothing else.                                  *)
Above(p) == <<p[1], p[2] + 1>>
DebugInv ==
    /\ \A p \in Positions : Cx(p).cv = "DB" =>
          /\ debugging
          /\ IF Above(p) \in Positions
             THEN Cx(Above(p)).type = "sub" /\ Cx(Above(p)).cv # "DB"
             ELSE p[1] = Len(stacks)
          /\ Cx(p).at = Nowhere => start # NoSub /\ Innermost(p)
    /\ debugging /\ start # NoSub => InDebugger

(* The walk has passed these contexts; line is where the next is, but for  *)
(* the debugger's own code.                                                *)
At == <<walk.si, walk.cxix>>
Passed == {p \in Code : Inside(p, At)}
LineKnown ==
    \/ Passed = {} /\ walk.line = curcop
    \/ \E q \in Passed : (\A r \in Passed : ~Inside(q, r)) /\ walk.line = Cx(q).oldcop

(* Every entered context that was passed has its frame.                    *)
FramesSoFar ==
    /\ Len(walk.frames) = Cardinality(Entered \cap Passed)
    /\ \A p \in Entered \cap Passed : walk.frames[Rank(p)] = FrameOf(Cx(p), Cx(p).at)

WalkInv ==
    /\ FramesTrue
    /\ walk.state = "walking" =>
          /\ walk.si \in DOMAIN stacks /\ walk.cxix \in 0 .. Len(stacks[walk.si])
          /\ walk.cxix # 0 => Cx(At).type \in Units \cup {"try"}
          /\ walk.cxix # 0 /\ Cx(At).cv = "DB" => Innermost(At)
          /\ walk.depth = walk.limit - Len(walk.frames) /\ walk.depth > 0
          /\ LineKnown \/ (InDebugger /\ walk.line[1] # "eval")
          /\ ~InDebugger /\ ~RecursiveEntry => FramesSoFar

(* Evals whose text is marked with their number.                           *)
Marked(cx) ==
    cx.number \in hooked \/ (enabled /\ source_code_kind # "none" /\ ~SwitchInside)

MarkOK(cx) ==
    LET c == collected[cx.text] IN
    /\ c.evalseq = cx.number
    /\ c.saved => <<cx.number, cx.number>> \in sources
    /\ cx.number \in defined => c.sub_gen # sub_gen

EvalsInv ==
    /\ \A s \in Texts : collected[s].sub_gen <= sub_gen
    /\ \A p \in Positions : Cx(p).type = "eval" /\ Marked(Cx(p)) => MarkOK(Cx(p))
    /\ ~SwitchInside => \A x \in sources : x[1] = x[2]
    /\ SubsHaveSource

FramesSaved ==
    ~SwitchInside /\ walk # NoWalk /\ source_code_kind # "none" =>
        \A i \in DOMAIN walk.frames :
            LET at == walk.frames[i][3] IN at[1] = "eval" => <<at[2], at[2]>> \in sources

IInv == TypeInv /\ LinesInv /\ DebugInv /\ WalkInv /\ EvalsInv /\ FramesSaved
=============================================================================
