----------------------------- MODULE ToolFanout -----------------------------
(***************************************************************************)
(* The tool calls of one run: runToolCalls and invokeOne of run.go, with   *)
(* the error counts of budgetTracker that carry the circuit breaker from   *)
(* one step of the run to the next.                                        *)
(*                                                                         *)
(* Every call of a response runs in a goroutine of its own when            *)
(* ParallelTools is set, at most MaxParallel at a time; otherwise the run  *)
(* goroutine makes them one after another.  Arguments and contents are     *)
(* left out: a call is its position in the response and a tool's name, a   *)
(* result is the kind of outcome it reports.                               *)
(***************************************************************************)
EXTENDS Integers, FiniteSets

CONSTANTS
    Tools,          \* names of the registered tools
    SubTools,       \* those that wrap a subagent (they cannot be fatal)
    Hanging,        \* those that return only once their context is canceled
    Unknown,        \* a name the model may use although no tool has it
    MaxCalls,       \* bound: tool calls in one response
    MaxRounds,      \* bound: responses with tool calls in the run
    ParallelTools,  \* Config.ParallelTools
    MaxParallel,    \* Agent.maxParallel()
    MaxToolErrors,  \* Config.MaxToolErrors (0: no circuit breaker)
    Approver        \* Config.Approve is set

ASSUME ToolsAssumption == SubTools \subseteq Tools /\ Hanging \subseteq Tools /\ Unknown \notin Tools
ASSUME CallsAssumption == MaxCalls \in Nat /\ MaxRounds \in Nat
ASSUME WidthAssumption == ParallelTools \in BOOLEAN /\ MaxParallel \in Nat \ {0}
ASSUME BreakerAssumption == MaxToolErrors \in Nat /\ Approver \in BOOLEAN

VARIABLES
    phase,      \* "check" (top of the loop), "model", "tools" (in runToolCalls) or "done"
    round,      \* responses with tool calls so far
    count,      \* len(calls)
    calls,      \* the name each call of the response asks for
    next,       \* the next call of the loop over calls
    pc,         \* where each call is in invokeOne
    outcome,    \* the outcome each call reported
    errs,       \* budgetTracker.toolErrors
    ctx,        \* the caller canceled the run's context
    cctx,       \* a fatal result canceled the fan-out's context
    out,        \* the messages runToolCalls returned last
    fatal       \* the call whose Fatal error it returned, 0 for none

vars == <<phase, round, count, calls, next, pc, outcome, errs, ctx, cctx, out, fatal>>

Calls == 1 .. MaxCalls
Names == Tools \cup {Unknown}

Stages == {"wait", "check", "approve", "notify", "invoke", "finished"}
Outcomes == {"none", "ok", "error", "unknown", "disabled", "denied", "fatal"}

\* Calls that hold a slot of the semaphore.
Active == {i \in Calls : pc[i] \in {"check", "approve", "notify", "invoke"}}

\* Calls of tool t that are past the circuit breaker and have not reported.
Admitted(t) == {i \in Calls : calls[i] = t /\ pc[i] \in {"approve", "notify", "invoke"}}

InParallel == ParallelTools /\ count > 1

\* The capacity of the semaphore of this fan-out, and of any.
Slots == IF InParallel THEN MaxParallel ELSE 1
Width == IF ParallelTools THEN MaxParallel ELSE 1

AnyFatal == \E i \in Calls : outcome[i] = "fatal"

\* A mutant of BreakerOpen: off by one.
BreakerOpenTooLate(t) == MaxToolErrors > 0 /\ errs[t] > MaxToolErrors

BreakerOpen(t) == MaxToolErrors > 0 /\ errs[t] >= MaxToolErrors

-----------------------------------------------------------------------------
Init ==
    /\ phase = "check"
    /\ round = 0
    /\ count = 0
    /\ calls = [i \in Calls |-> Unknown]
    /\ next = 1
    /\ pc = [i \in Calls |-> "wait"]
    /\ outcome = [i \in Calls |-> "none"]
    /\ errs = [t \in Tools |-> 0]
    /\ ctx = FALSE
    /\ cctx = FALSE
    /\ out = <<>>
    /\ fatal = 0

\* The top of the loop: a canceled context ends the run, as a limit may.
CheckRun ==
    /\ phase = "check"
    /\ \/ phase' = "done"
       \/ ~ctx /\ phase' = "model"
    /\ UNCHANGED <<round, count, calls, next, pc, outcome, errs, ctx, cctx, out, fatal>>

\* The model's response asks for n calls, named by names.  It may come although
\* the context was canceled meanwhile.
Respond(n, names) ==
    /\ phase = "model"
    /\ round < MaxRounds
    /\ round' = round + 1
    /\ count' = n
    /\ calls' = names
    /\ next' = 1
    /\ pc' = [i \in Calls |-> "wait"]
    /\ outcome' = [i \in Calls |-> "none"]
    /\ cctx' = FALSE
    /\ phase' = "tools"
    /\ UNCHANGED <<errs, ctx, out, fatal>>

\* The run ends without further tools: an answer, or an error of the model call.
EndRun ==
    /\ phase = "model"
    /\ phase' = "done"
    /\ UNCHANGED <<round, count, calls, next, pc, outcome, errs, ctx, cctx, out, fatal>>

\* The loop over calls takes a slot and starts the next one; one by one, it
\* stops at a fatal call.
StartCall ==
    /\ phase = "tools"
    /\ next <= count
    /\ Cardinality(Active) < Slots
    /\ InParallel \/ ~AnyFatal
    /\ pc' = [pc EXCEPT ![next] = "check"]
    /\ next' = next + 1
    /\ UNCHANGED <<phase, round, count, calls, outcome, errs, ctx, cctx, out, fatal>>

\* Call i reports outcome o and gives its slot back.
Report(i, o) ==
    /\ pc' = [pc EXCEPT ![i] = "finished"]
    /\ outcome' = [outcome EXCEPT ![i] = o]

\* invokeOne up to the approval: is there such a tool, is it disabled?
CheckCall(i) ==
    /\ pc[i] = "check"
    /\ \/ calls[i] = Unknown /\ Report(i, "unknown")
       \/ calls[i] \in Tools /\ BreakerOpen(calls[i]) /\ Report(i, "disabled")
       \/ /\ calls[i] \in Tools /\ ~BreakerOpen(calls[i])
          /\ pc' = [pc EXCEPT ![i] = IF Approver THEN "approve" ELSE "notify"]
          /\ outcome' = outcome
    /\ UNCHANGED <<phase, round, count, calls, next, errs, ctx, cctx, out, fatal>>

\* The approver decides.
ApproveCall(i) ==
    /\ pc[i] = "approve"
    /\ \/ Report(i, "denied")
       \/ pc' = [pc EXCEPT ![i] = "notify"] /\ outcome' = outcome
    /\ UNCHANGED <<phase, round, count, calls, next, errs, ctx, cctx, out, fatal>>

\* OnEvent has handled ToolCallStartedEvent; now the tool runs.
NotifiedCall(i) ==
    /\ pc[i] = "notify"
    /\ pc' = [pc EXCEPT ![i] = "invoke"]
    /\ UNCHANGED <<phase, round, count, calls, next, outcome, errs, ctx, cctx, out, fatal>>

\* A mutant of MayReturn: tools get a context that the caller cannot cancel.
MayReturnDetached(i) == pc[i] = "invoke" /\ (calls[i] \notin Hanging \/ cctx)

\* A tool returns by itself, or because its context was canceled.
MayReturn(i) == pc[i] = "invoke" /\ (calls[i] \notin Hanging \/ ctx \/ cctx)

\* The tool succeeds, or fails (a panic counts as a failure): a failure is noted.
ToolSucceeds(i) ==
    /\ MayReturn(i)
    /\ Report(i, "ok")
    /\ UNCHANGED <<phase, round, count, calls, next, errs, ctx, cctx, out, fatal>>

ToolFails(i) ==
    /\ MayReturn(i)
    /\ Report(i, "error")
    /\ errs' = [errs EXCEPT ![calls[i]] = @ + 1]
    /\ UNCHANGED <<phase, round, count, calls, next, ctx, cctx, out, fatal>>

\* A mutant of ToolFatal: the others are not canceled.
ToolFatalNoCancel(i) ==
    /\ MayReturn(i)
    /\ calls[i] \notin SubTools
    /\ Report(i, "fatal")
    /\ UNCHANGED <<phase, round, count, calls, next, errs, ctx, cctx, out, fatal>>

\* The tool returns Fatal, which cancels the others of a parallel fan-out.
ToolFatal(i) ==
    /\ MayReturn(i)
    /\ calls[i] \notin SubTools
    /\ Report(i, "fatal")
    /\ cctx' = (cctx \/ InParallel)
    /\ UNCHANGED <<phase, round, count, calls, next, errs, ctx, out, fatal>>

\* The messages runToolCalls returns, in the order of the calls: all of them,
\* or those up to the fatal one when they were made one by one.
Results == [i \in 1 .. next - 1 |-> [call |-> i, outcome |-> outcome[i]]]

\* The fatal error it returns is the one of the first such call.
FirstFatal ==
    IF AnyFatal
    THEN CHOOSE i \in Calls : outcome[i] = "fatal" /\ \A j \in Calls : outcome[j] = "fatal" => i <= j
    ELSE 0

\* runToolCalls returns when the loop is over and every goroutine has ended.
ReturnResults ==
    /\ phase = "tools"
    /\ next > count \/ (~InParallel /\ AnyFatal)
    /\ Active = {}
    /\ out' = Results
    /\ fatal' = FirstFatal
    /\ phase' = IF AnyFatal THEN "done" ELSE "check"
    /\ UNCHANGED <<round, count, calls, next, pc, outcome, errs, ctx, cctx>>

CallerCancels ==
    /\ ~ctx /\ phase # "done"
    /\ ctx' = TRUE
    /\ UNCHANGED <<phase, round, count, calls, next, pc, outcome, errs, cctx, out, fatal>>

Returned == phase = "done" /\ UNCHANGED vars

CallStep(i) ==
    \/ CheckCall(i)
    \/ ApproveCall(i)
    \/ NotifiedCall(i)
    \/ ToolSucceeds(i)
    \/ ToolFails(i)
    \/ ToolFatal(i)

LoopStep == CheckRun \/ StartCall \/ ReturnResults

ModelReturns ==
    \/ \E n \in 1 .. MaxCalls : \E names \in [Calls -> Names] :
          (\A i \in Calls : i > n => names[i] = Unknown) /\ Respond(n, names)
    \/ EndRun

Next ==
    \/ ModelReturns
    \/ LoopStep
    \/ \E i \in Calls : CallStep(i)
    \/ CallerCancels
    \/ Returned

Spec == Init /\ [][Next]_vars

\* Goroutines are scheduled, handlers, approvers and tools return; a tool in
\* Hanging and the model call need to do so only after a cancel, and nobody has
\* to cancel.
FairSpec ==
    /\ Spec
    /\ WF_vars(LoopStep)
    /\ WF_vars(ctx /\ ModelReturns)
    /\ \A i \in Calls : WF_vars(CallStep(i))

-----------------------------------------------------------------------------
(* Properties                                                              *)

\* TypeOK: the shape of the state.
TypeOK ==
    /\ phase \in {"check", "model", "tools", "done"}
    /\ round \in Nat
    /\ count \in 0 .. MaxCalls
    /\ calls \in [Calls -> Names]
    /\ next \in 1 .. MaxCalls + 1
    /\ pc \in [Calls -> Stages]
    /\ outcome \in [Calls -> Outcomes]
    /\ errs \in [Tools -> Nat]
    /\ ctx \in BOOLEAN
    /\ cctx \in BOOLEAN
    /\ fatal \in 0 .. MaxCalls

\* The circuit breaker of agent.go: a tool fails at most MaxToolErrors times,
\* and once more for each further call that was already past the breaker when
\* it opened, of which there are fewer than there are parallel slots.
BreakerBound ==
    MaxToolErrors > 0 => \A t \in Tools : errs[t] <= MaxToolErrors + Width - 1

\* As a fatal result cancels the rest, a fan-out with one always returns, even
\* if the other tools would wait for ever and the caller never gives up.
FatalEndsFanout == AnyFatal ~> (phase = "done")

\* A cancel of the caller ends the run wherever it comes: calls that hang or that
\* have not been started are not waited for beyond it, and no step follows.
CancelEndsRun == ctx ~> (phase = "done")

-----------------------------------------------------------------------------
(* The inductive invariant behind BreakerBound                             *)

SlotsBound == Cardinality(Active) <= Width

AdmittedBound ==
    MaxToolErrors > 0 =>
        \A t \in Tools : errs[t] + Cardinality(Admitted(t)) <= MaxToolErrors + Width - 1

\* Calls that the loop has not reached are waiting; between fan-outs none runs.
LoopShape ==
    /\ \A i \in Calls : (i >= next \/ i > count) => pc[i] \notin {"check", "approve", "notify", "invoke"}
    /\ phase # "tools" => Active = {}
    /\ \A i \in Calls : pc[i] \in {"approve", "notify", "invoke"} => calls[i] \in Tools

IInv == TypeOK /\ LoopShape /\ SlotsBound /\ AdmittedBound

=============================================================================
