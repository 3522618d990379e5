------------------------------ MODULE RunTrace ------------------------------
(***************************************************************************)
(* The trace of a run (trace.go): a tree of spans that the run loop        *)
(* (run.go) builds while it executes, to which the traces of subagents     *)
(* (subagent.go) are grafted when they return.  TraceWalks reads it.       *)
(*                                                                         *)
(* Spans are numbered in the order they are made; their names and times    *)
(* are left out, except whether they have ended.  Runs are numbered in the *)
(* order they start, 1 being the caller's.  What the loop decides from     *)
(* (budgets, tokens, the breaker, threading) is a choice here: BudgetTree, *)
(* ToolFanout and Session model it.                                        *)
(***************************************************************************)
EXTENDS Integers, Sequences

CONSTANTS
    Configs,    \* what to try: Config.MaxSteps, Config.ParallelTools and a bound on runs
    CallLimits, \* bound: tool calls of one response in the caller's run, in a subagent's
    Repairs     \* Config.OutputRepairAttempts

ASSUME TraceAssumption ==
    /\ Configs \subseteq [runs : Nat \ {0}, steps : Nat \ {0}, parallel : BOOLEAN]
    /\ CallLimits \in [{"caller", "subagent"} -> Nat \ {0}] /\ Repairs \in Nat

VARIABLES
    config,     \* of every agent, the same
    spans,      \* every Span made: its kind, children, usage, error and whether it ended
    runs        \* every run: where it is, the spans it holds, and what it really did

traceVars == <<config, spans, runs>>

MaxRuns == config.runs
StepLimit == config.steps
Parallel == config.parallel

Runs == DOMAIN runs
NoSpan == 0

\* Nothing has happened in a run yet; a ledger to compare the trace with.
Nothing == [steps |-> 0, tools |-> 0, errors |-> 0, compactions |-> 0, usage |-> 0]

NewSpan(kind) == [kind |-> kind, kids |-> <<>>, used |-> 0, err |-> FALSE, open |-> TRUE]

\* child: the new span becomes the last child of its parent.
Child(sps, parent, kind) ==
    Append([sps EXCEPT ![parent].kids = Append(@, Len(sps) + 1)], NewSpan(kind))

\* graft: so does the root of a finished trace.
Graft(sps, parent, root) == [sps EXCEPT ![parent].kids = Append(@, root)]

\* end: the first end counts.
EndAll(sps, ids) == [i \in DOMAIN sps |-> IF i \in ids THEN [sps[i] EXCEPT !.open = FALSE] ELSE sps[i]]

\* Span.Error, of tool spans: the errors of the others are not told apart.
Fail(sps, id) == [sps EXCEPT ![id].err = TRUE]

\* A session's run, called by call c of run p (0: by the caller).
NewRun(root, p, c, canceled) ==
    [pc |-> "loop", root |-> root, parent |-> p, call |-> c, canceled |-> canceled, failed |-> FALSE,
     step |-> NoSpan, model |-> NoSpan, compact |-> NoSpan, repairs |-> Repairs,
     calls |-> <<>>, fatal |-> FALSE, did |-> Nothing]

InitTrace ==
    /\ config \in Configs
    /\ spans = <<NewSpan("run")>>
    /\ runs = <<NewRun(1, 0, 0, FALSE)>>

-----------------------------------------------------------------------------
(* The run loop                                                            *)

Live(r, pc) == runs[r].pc = pc

\* Session.usage, which res.Usage copies.
Used(r) == runs[r].did.usage

\* The top of an iteration: canceled, or out of budget, the run ends with an error.
StopAtTop(r) ==
    /\ Live(r, "loop")
    /\ runs[r].canceled \/ runs[r].did.steps < StepLimit
    /\ spans' = EndAll(spans, {runs[r].root})
    /\ runs' = [runs EXCEPT ![r] = [runs[r] EXCEPT !.pc = "done", !.failed = TRUE]]

\* Out of steps, it ends without one.
OutOfSteps(r) ==
    /\ Live(r, "loop")
    /\ ~runs[r].canceled
    /\ runs[r].did.steps = StepLimit
    /\ spans' = EndAll([spans EXCEPT ![runs[r].root].used = Used(r)], {runs[r].root})
    /\ runs' = [runs EXCEPT ![r] = [runs[r] EXCEPT !.pc = "done"]]

MayStep(r) == ~runs[r].canceled /\ runs[r].did.steps < StepLimit

\* maybeCompact, when the compactor asks for it; its model is called, and may fail.
StartCompaction(r) ==
    /\ Live(r, "loop") /\ MayStep(r)
    /\ \A q \in Runs : runs[q].did.compactions = 0      \* bound: one compaction
    /\ spans' = Child(spans, runs[r].root, "compaction")
    /\ runs' = [runs EXCEPT ![r] = [runs[r] EXCEPT !.did.compactions = @ + 1, !.pc = "compact",
                                                   !.compact = Len(spans) + 1]]

FinishCompaction(r) ==
    /\ Live(r, "compact")
    /\ spans' = EndAll(spans, {runs[r].compact})
    /\ runs' = [runs EXCEPT ![r] = [runs[r] EXCEPT !.pc = "request"]]

\* The spans of a step and of its model call.
OpenStep(r) ==
    /\ Live(r, "request") \/ (Live(r, "loop") /\ MayStep(r))
    /\ LET n == Len(spans)
       IN  /\ spans' = Child(Child(spans, runs[r].root, "step"), n + 1, "model")
           /\ runs' = [runs EXCEPT ![r] = [runs[r] EXCEPT !.did.steps = @ + 1, !.pc = "model",
                                                          !.step = n + 1, !.model = n + 2]]

\* A mutant of ModelFails: the span of the step is left open.
ModelFailsStepOpen(r) ==
    /\ Live(r, "model")
    /\ spans' = EndAll(spans, {runs[r].model, runs[r].root})
    /\ runs' = [runs EXCEPT ![r] = [runs[r] EXCEPT !.pc = "done", !.failed = TRUE]]

\* generate failed, after the retry without a thread if there was one.
ModelFails(r) ==
    /\ Live(r, "model")
    /\ spans' = EndAll(spans, {runs[r].model, runs[r].step, runs[r].root})
    /\ runs' = [runs EXCEPT ![r] = [runs[r] EXCEPT !.pc = "done", !.failed = TRUE]]

\* A response: every one reports a usage of 1.
Responded(r) == EndAll([spans EXCEPT ![runs[r].model].used = 1], {runs[r].model})

\* It is an answer: the run is over.
Answer(r) ==
    /\ Live(r, "model")
    /\ spans' = EndAll([Responded(r) EXCEPT ![runs[r].root].used = Used(r) + 1],
                       {runs[r].step, runs[r].root})
    /\ runs' = [runs EXCEPT ![r] = [runs[r] EXCEPT !.did.usage = @ + 1, !.pc = "done"]]

\* It is an answer that decodeOutput refuses: the model is asked again, or the run fails.
BadAnswer(r) ==
    /\ Live(r, "model")
    /\ \/ /\ runs[r].repairs > 0
          /\ spans' = EndAll(Responded(r), {runs[r].step})
          /\ runs' = [runs EXCEPT ![r] = [runs[r] EXCEPT !.did.usage = @ + 1, !.pc = "loop", !.repairs = @ - 1]]
       \/ /\ runs[r].repairs = 0
          /\ spans' = EndAll(Responded(r), {runs[r].step, runs[r].root})
          /\ runs' = [runs EXCEPT ![r] = [runs[r] EXCEPT !.did.usage = @ + 1, !.pc = "done", !.failed = TRUE]]

Todo == [state |-> "todo", span |-> NoSpan]

\* It asks for tools.
AskForTools(r) ==
    /\ Live(r, "model")
    /\ spans' = Responded(r)
    /\ \E n \in 1 .. CallLimits[IF r = 1 THEN "caller" ELSE "subagent"] :
          runs' = [runs EXCEPT ![r] = [runs[r] EXCEPT !.did.usage = @ + 1, !.pc = "tools",
                                                      !.calls = [c \in 1 .. n |-> Todo]]]

-----------------------------------------------------------------------------
(* Tool calls                                                              *)

\* runToolCalls: one after another up to a fatal one, or all at the same time.
MayCall(r, c) ==
    /\ Live(r, "tools")
    /\ runs[r].calls[c].state = "todo"
    /\ Parallel \/ (~runs[r].fatal /\ \A d \in 1 .. c - 1 : runs[r].calls[d].state = "done")

\* Call c of run x has a span, and an answer.
Begun(x, c, state, span) ==
    [x EXCEPT !.did.tools = @ + 1, !.calls[c] = [state |-> state, span |-> span]]
Replied(x, c, error) ==
    [x EXCEPT !.did.errors = @ + (IF error THEN 1 ELSE 0), !.calls[c].state = "done"]

\* invokeOne refuses it: unknown, disabled by the breaker, denied, or a task that does not parse.
Refuse(r, c) ==
    /\ MayCall(r, c)
    /\ spans' = LET s == Child(spans, runs[r].step, "tool")
                IN  EndAll(Fail(s, Len(s)), {Len(s)})
    /\ runs' = [runs EXCEPT ![r] = Replied(Begun(runs[r], c, "tool", Len(spans) + 1), c, TRUE)]

Invoke(r, c) ==
    /\ MayCall(r, c)
    /\ spans' = Child(spans, runs[r].step, "tool")
    /\ runs' = [runs EXCEPT ![r] = Begun(runs[r], c, "tool", Len(spans) + 1)]

\* A run and those below it share a context that is canceled.
Below(r) ==
    LET below[q \in Runs] == q = r \/ (runs[q].parent # 0 /\ below[runs[q].parent])
    IN  {q \in Runs : below[q]}

\* The tool returned; a fatal error cancels the calls next to it.
ToolReturns(r, c) ==
    /\ Live(r, "tools")
    /\ runs[r].calls[c].state = "tool"
    /\ \E outcome \in {"ok", "error", "fatal"} :
          /\ spans' = EndAll(IF outcome = "ok" THEN spans ELSE Fail(spans, runs[r].calls[c].span),
                             {runs[r].calls[c].span})
          /\ runs' = [q \in Runs |->
                IF q = r
                THEN [Replied(runs[r], c, outcome # "ok") EXCEPT !.fatal = @ \/ outcome = "fatal"]
                ELSE [runs[q] EXCEPT !.canceled = @ \/ (outcome = "fatal" /\ q \in Below(r))]]

\* invokeSub: a subagent runs in a session of its own, and makes a trace of its own.
InvokeSub(r, c) ==
    /\ MayCall(r, c)
    /\ Len(runs) < MaxRuns
    /\ LET n == Len(spans)
       IN  /\ spans' = Append(Child(spans, runs[r].step, "tool"), NewSpan("run"))
           /\ runs' = Append([runs EXCEPT ![r] = Begun(runs[r], c, "sub", n + 1)],
                             NewRun(n + 2, r, c, runs[r].canceled \/ runs[r].fatal))

\* It returned: its trace is grafted to the span of the call, also when it failed.
SubReturns(q) ==
    /\ runs[q].parent # 0
    /\ Live(q, "done")
    /\ LET r == runs[q].parent  c == runs[q].call  t == runs[r].calls[c].span
           grafted == Graft(spans, t, runs[q].root)
       IN  /\ runs[r].calls[c].state = "sub"
           /\ spans' = EndAll(IF runs[q].failed THEN Fail(grafted, t) ELSE grafted, {t})
           /\ runs' = [runs EXCEPT ![r] = Replied(runs[r], c, runs[q].failed), ![q].pc = "returned"]

\* All answered, or a fatal one among those made one after another: the step ends.
EndStep(r) ==
    /\ Live(r, "tools")
    /\ \/ \A c \in DOMAIN runs[r].calls : runs[r].calls[c].state = "done"
       \/ ~Parallel /\ runs[r].fatal
    /\ spans' = EndAll(spans, {runs[r].step} \cup (IF runs[r].fatal THEN {runs[r].root} ELSE {}))
    /\ runs' = [runs EXCEPT ![r] = [runs[r] EXCEPT !.pc = IF runs[r].fatal THEN "done" ELSE "loop",
                                                   !.failed = runs[r].fatal]]

-----------------------------------------------------------------------------
\* The caller cancels the context of every run.
Cancel ==
    /\ ~runs[1].canceled /\ runs[1].pc # "done"
    /\ runs' = [q \in Runs |-> [runs[q] EXCEPT !.canceled = TRUE]]
    /\ UNCHANGED spans

Returned == runs[1].pc = "done" /\ UNCHANGED <<spans, runs>>

Loop(r) ==
    \/ StopAtTop(r) \/ OutOfSteps(r)
    \/ StartCompaction(r) \/ FinishCompaction(r) \/ OpenStep(r)
    \/ ModelFails(r) \/ Answer(r) \/ BadAnswer(r) \/ AskForTools(r)
    \/ EndStep(r) \/ SubReturns(r)

Tools(r, c) == Refuse(r, c) \/ Invoke(r, c) \/ ToolReturns(r, c) \/ InvokeSub(r, c)

NextTrace ==
    /\ \/ \E r \in Runs : Loop(r) \/ \E c \in DOMAIN runs[r].calls : Tools(r, c)
       \/ Cancel
       \/ Returned
    /\ UNCHANGED config

TraceSpec == InitTrace /\ [][NextTrace]_traceVars

-----------------------------------------------------------------------------
(* Properties                                                              *)

Ended(i) == ~spans[i].open

\* Span i is child k of span p.
IsChild(p, k, i) == spans[p].kids[k] = i

\* Below a span that has ended none is open, so no span is added to one that has ended, a
\* span lies within the time of its parent, and a trace is whole on every path by which a
\* run returns.  When the caller's run has returned, all spans that it and all of its subagents
\* made have ended and are in its trace: each but the first is a child of one span, which was
\* made before it, once (trace.go child, graft; the deferred and the early ends in run.go).
SpansEnclosed ==
    /\ \A i \in DOMAIN spans : Ended(i) => \A k \in DOMAIN spans[i].kids : Ended(spans[i].kids[k])
    /\ Live(1, "done") =>
          \A i \in DOMAIN spans :
              /\ Ended(i)
              /\ i # 1 => \E p \in 1 .. i - 1 : \E k \in DOMAIN spans[p].kids :
                             \A q \in DOMAIN spans : \A l \in DOMAIN spans[q].kids :
                                 IsChild(q, l, i) <=> q = p /\ l = k

-----------------------------------------------------------------------------
(* The inductive invariant                                                 *)

Spans == [kind : {"run", "step", "model", "tool", "compaction"}, kids : Seq(Nat), used : Nat,
          err : BOOLEAN, open : BOOLEAN]

CallStates == [state : {"todo", "tool", "sub", "done"}, span : Nat]
Ledgers == [steps : Nat, tools : Nat, errors : Nat, compactions : Nat, usage : Nat]

RunStates ==
    [pc : {"loop", "compact", "request", "model", "tools", "done", "returned"}, root : Nat, parent : Nat,
     call : Nat, canceled : BOOLEAN, failed : BOOLEAN, step : Nat, model : Nat, compact : Nat,
     repairs : Nat, calls : Seq(CallStates), fatal : BOOLEAN, did : Ledgers]

TraceTypeOK ==
    /\ config \in Configs
    /\ spans \in Seq(Spans) /\ runs \in Seq(RunStates) /\ runs # <<>>

\* The calls of a run that have a span which has not ended.
Calling(x) == {c \in DOMAIN x.calls : x.calls[c].state \in {"tool", "sub"}}

\* The spans that run x has to end.
Holds(x) ==
    CASE x.pc \in {"loop", "request"} -> {x.root}
      [] x.pc = "compact" -> {x.root, x.compact}
      [] x.pc = "model" -> {x.root, x.step, x.model}
      [] x.pc = "tools" -> {x.root, x.step} \cup {x.calls[c].span : c \in Calling(x)}
      [] OTHER -> {}

\* Of those, j may be a child of i.
Under(x, i, j) ==
    /\ i \in Holds(x) /\ j \in Holds(x)
    /\ j # x.root
    /\ i = x.root \/ (i = x.step /\ j # x.step)

\* Of the spans sps exactly those of H are open, and their parents are as U says.
Marked(sps, H, U) ==
    /\ H \subseteq DOMAIN sps
    /\ \A i \in DOMAIN sps : sps[i].open <=> i \in H
    /\ \A i \in DOMAIN sps : \A k \in DOMAIN sps[i].kids :
          sps[i].kids[k] \in H => <<i, sps[i].kids[k]>> \in U

\* The spans sps are trees with roots R: a span is a root, or a child of one earlier span.
Forest(sps, R) ==
    /\ R \subseteq DOMAIN sps
    /\ \A p \in DOMAIN sps : \A k \in DOMAIN sps[p].kids :
          /\ sps[p].kids[k] \in DOMAIN sps \ R /\ sps[p].kids[k] > p
          /\ \A q \in DOMAIN sps : \A l \in DOMAIN sps[q].kids :
                sps[q].kids[l] = sps[p].kids[k] => q = p /\ l = k
    /\ \A i \in DOMAIN sps \ R :
          \E p \in DOMAIN sps : \E k \in DOMAIN sps[p].kids : sps[p].kids[k] = i

HeldSpans == UNION {Holds(runs[r]) : r \in Runs}
HeldPairs == {h \in HeldSpans \X HeldSpans : \E r \in Runs : Under(runs[r], h[1], h[2])}

\* The roots of runs whose traces are not part of another.
Roots == {runs[r].root : r \in {q \in Runs : runs[q].pc # "returned"}}

\* No two runs have to end one span, and none the root of another.
Apart ==
    \A r, q \in Runs : r # q =>
        /\ runs[r].root # runs[q].root /\ runs[r].root \notin Holds(runs[q])
        /\ Holds(runs[r]) \cap Holds(runs[q]) = {}

\* The spans of a run are made one after another.
Ordered(x) ==
    /\ x.pc = "compact" => x.root < x.compact
    /\ x.pc \in {"model", "tools"} => x.root < x.step
    /\ x.pc = "model" => x.step < x.model
    /\ x.pc = "tools" => /\ \A c \in Calling(x) : x.step < x.calls[c].span
                         /\ \A c, d \in Calling(x) : x.calls[c].span = x.calls[d].span => c = d

\* Without ParallelTools one call is made at a time, and none after a fatal one.
OneByOne(x) ==
    x.pc = "tools" /\ ~Parallel =>
        /\ \A c, d \in DOMAIN x.calls : d < c /\ x.calls[c].state # "todo" => x.calls[d].state = "done"
        /\ x.fatal => Calling(x) = {}

\* Run y was called by call y.call of x, which waits for it.
WaitsFor(x, y) ==
    /\ x.pc = "tools" /\ y.call \in DOMAIN x.calls
    /\ x.calls[y.call].state = "sub" /\ x.calls[y.call].span < y.root

\* A run that has not returned is waited for, by a call of its own.
Waiting ==
    /\ runs[1].parent = 0 /\ runs[1].pc # "returned"
    /\ \A q \in Runs \ {1} : runs[q].pc # "returned" =>
          /\ runs[q].parent \in 1 .. q - 1 /\ WaitsFor(runs[runs[q].parent], runs[q])
          /\ \A r \in Runs \ {1, q} : runs[r].pc # "returned" =>
                <<runs[q].parent, runs[q].call>> # <<runs[r].parent, runs[r].call>>

TraceIInv ==
    /\ TraceTypeOK
    /\ Marked(spans, HeldSpans, HeldPairs) /\ Forest(spans, Roots)
    /\ Apart /\ Waiting /\ runs[1].root = 1
    /\ \A r \in Runs : runs[r].root \in DOMAIN spans /\ Ordered(runs[r]) /\ OneByOne(runs[r])

=============================================================================
