----------------------------- MODULE BudgetTree -----------------------------
(***************************************************************************)
(* Hierarchical budgets: budget.go's budgetTracker, shared by the run loop *)
(* (run.go) and by the subagents it delegates to (subagent.go).            *)
(*                                                                         *)
(* A run is one activation of runWith.  Runs form a tree: run 0 is the     *)
(* caller's Send, and every other run is a slot in which its parent's tool *)
(* fan-out may start a subagent, as often as the parent's steps ask for    *)
(* it.  Siblings run concurrently when ParallelTools is set.               *)
(*                                                                         *)
(* What the model call says and what a tool does are left out: only the    *)
(* usage a call reports and the tools it asks for matter here.  Tokens and *)
(* cost obey the same rules and are the two members of Dims.               *)
(***************************************************************************)
EXTENDS Integers, FiniteSets, Functions

CONSTANTS
    N,              \* run slots are 0..N, slot 0 is the root run
    Parent,         \* Parent[r] is the run whose tool call starts run r
    Dims,           \* the budgeted dimensions: tokens, cost
    ReqLimit,       \* ReqLimit[r][d]: Config.Budget of r's agent (0: unlimited)
    ReqToolCalls,   \* ReqToolCalls[r]: Budget.MaxToolCalls of r's agent (0: unlimited)
    ReqTimeout,     \* ReqTimeout[r]: Budget.Timeout of r's agent (0: none)
    ReqDeadline,    \* ReqDeadline[r]: Budget.Deadline of r's agent (0: none)
    MaxUse,         \* the most that one model call reports in one dimension
    MaxSteps,       \* Config.MaxSteps
    MaxPlain,       \* bound: ordinary tool calls in one model response
    ParallelTools,  \* Config.ParallelTools
    MaxParallel,    \* Agent.maxParallel()
    MaxTime         \* bound: the clock stops here

Runs == 0 .. N
Root == 0

ASSUME NAssumption == N \in Nat
ASSUME ParentAssumption == Parent \in [1 .. N -> Runs] /\ \A r \in 1 .. N : Parent[r] < r
ASSUME RequestAssumption ==
    /\ ReqLimit \in [Runs -> [Dims -> Nat]]
    /\ ReqToolCalls \in [Runs -> Nat]
    /\ ReqTimeout \in [Runs -> Nat]
    /\ ReqDeadline \in [Runs -> Nat]
ASSUME UseAssumption == MaxUse \in Nat \ {0}
ASSUME BoundAssumption == MaxSteps \in Nat /\ MaxPlain \in Nat /\ MaxTime \in Nat
ASSUME ParallelAssumption == ParallelTools \in BOOLEAN /\ MaxParallel \in Nat \ {0}

VARIABLES
    pc,         \* "idle" (slot free), "check", "model", "tools" or "done"
    limit,      \* budgetTracker.b: MaxTotalTokens and MaxCostUSD in force
    used,       \* budgetTracker.used
    reserved,   \* budgetTracker.reservedTokens and reservedCost
    deadline,   \* budgetTracker.deadline, 0 for the zero time
    toolCalls,  \* budgetTracker.toolCalls
    step,       \* the loop counter of runWith
    spent,      \* Session.usage, which Result.Usage copies
    grant,      \* the grant invokeSub keeps until it settles the run
    subs,       \* subagent slots the last response asks for, not started yet
    plain,      \* ordinary tool calls the last response asks for, not made yet
    fatal,      \* a tool of this fan-out returned Fatal
    canceled,   \* the caller canceled the context given to the root run
    now,        \* the clock
    total       \* history variable: usage of a run and of all runs below it

vars == <<pc, limit, used, reserved, deadline, toolCalls, step, spent, grant,
          subs, plain, fatal, canceled, now, total>>

Usage == [Dims -> Nat]
Zero == [d \in Dims |-> 0]
Plus(a, b) == [d \in Dims |-> a[d] + b[d]]

Children(p) == {r \in 1 .. N : Parent[r] = p}

\* Above[r]: the runs that are waiting for run r's result.
Above[r \in Runs] == IF r = Root THEN {} ELSE {Parent[r]} \cup Above[Parent[r]]

\* Children of p whose invokeSub has not returned: each holds a semaphore slot.
InFlight(p) == {r \in Children(p) : pc[r] # "idle"}

Width == IF ParallelTools THEN MaxParallel ELSE 1

-----------------------------------------------------------------------------
(* Deadlines.  0 is Go's zero time.Time; the clock starts at 2, so that a  *)
(* moment "one second ago" is not the zero time.                           *)

Passed(t) == t # 0 /\ now > t

Earlier(s, t) == IF s = 0 THEN t ELSE IF t = 0 THEN s ELSE IF s < t THEN s ELSE t

\* The deadline newBudgetTracker computes from Budget.Deadline and Budget.Timeout.
TrackerDeadline(dl, timeout) == Earlier(dl, IF timeout > 0 THEN now + timeout ELSE 0)

\* ctx.Err() # nil in run r: its own deadline, one above it, the caller's
\* cancel, or the cancel of a fan-out above it in which a tool was fatal.
CtxErr(r) ==
    \/ canceled
    \/ Passed(deadline[r])
    \/ \E a \in Above[r] : Passed(deadline[a]) \/ (ParallelTools /\ fatal[a])

-----------------------------------------------------------------------------
(* budgetTracker                                                           *)

Limited(p, d) == limit[p][d] > 0

\* check: a limit of run r has been reached.
CheckFails(r) ==
    \/ Passed(deadline[r])
    \/ \E d \in Dims : Limited(r, d) /\ used[r][d] >= limit[r][d]
    \/ ReqToolCalls[r] > 0 /\ toolCalls[r] >= ReqToolCalls[r]

\* A mutant of Remaining: forgets what is reserved.
RemainingIgnoringSiblings(p, d) == limit[p][d] - used[p][d]

Remaining(p, d) == limit[p][d] - used[p][d] - reserved[p][d]

Exhausted(p) == \E d \in Dims : Limited(p, d) /\ Remaining(p, d) <= 0

\* childBudget, first result: the limits child r of p runs under.
ChildLimit(p, r) ==
    [d \in Dims |->
        LET want == ReqLimit[r][d]
            rem  == Remaining(p, d)
        IN  IF Limited(p, d) /\ rem > 0 /\ (want = 0 \/ want > rem) THEN rem ELSE want]

\* childBudget, second result: what p reserves until r is settled.
ChildGrant(p, r) ==
    [d \in Dims |-> IF Limited(p, d) /\ Remaining(p, d) > 0 THEN ChildLimit(p, r)[d] ELSE 0]

\* A mutant of ChildDeadline: an exhausted parent is not noticed.
ChildDeadlineNotExhausted(p, r) == Earlier(deadline[p], ReqDeadline[r])

\* A mutant of ChildDeadline: the parent's deadline is not inherited.
ChildDeadlineUnnested(p, r) == IF Exhausted(p) THEN now - 1 ELSE ReqDeadline[r]

\* childBudget: an exhausted parent hands out a deadline that has passed.
ChildDeadline(p, r) ==
    IF Exhausted(p) THEN now - 1 ELSE Earlier(deadline[p], ReqDeadline[r])

\* settleChild: what stays reserved once grant g is released, never below 0.
Release(res, g) == [d \in Dims |-> IF res[d] < g[d] THEN 0 ELSE res[d] - g[d]]

-----------------------------------------------------------------------------
(* The run loop and the subagent tool                                      *)

Init ==
    /\ now = 2
    /\ canceled = FALSE
    /\ pc = [r \in Runs |-> IF r = Root THEN "check" ELSE "idle"]
    /\ limit = ReqLimit
    /\ deadline = [r \in Runs |-> TrackerDeadline(ReqDeadline[r], ReqTimeout[r])]
    /\ used = [r \in Runs |-> Zero]
    /\ reserved = [r \in Runs |-> Zero]
    /\ spent = [r \in Runs |-> Zero]
    /\ grant = [r \in Runs |-> Zero]
    /\ total = [r \in Runs |-> Zero]
    /\ toolCalls = [r \in Runs |-> 0]
    /\ step = [r \in Runs |-> 0]
    /\ subs = [r \in Runs |-> {}]
    /\ plain = [r \in Runs |-> 0]
    /\ fatal = [r \in Runs |-> FALSE]

\* The top of the loop: context, step limit and budget, in that order.
CheckStep(r) ==
    /\ pc[r] = "check"
    /\ pc' = [pc EXCEPT ![r] =
                IF CtxErr(r) \/ step[r] >= MaxSteps \/ CheckFails(r) THEN "done" ELSE "model"]
    /\ UNCHANGED <<limit, used, reserved, deadline, toolCalls, step, spent, grant,
                   subs, plain, fatal, canceled, now, total>>

\* A model call returns usage u and asks for the subagents S and for n other
\* tools.  An answer that asks for nothing ends the run, unless its output has
\* to be repaired; how often it is repaired is left to MaxSteps.
Generate(r, u, S, n) ==
    /\ pc[r] = "model"
    /\ used' = [used EXCEPT ![r] = Plus(@, u)]
    /\ spent' = [spent EXCEPT ![r] = Plus(@, u)]
    /\ total' = [a \in Runs |-> IF a = r \/ a \in Above[r] THEN Plus(total[a], u) ELSE total[a]]
    /\ step' = [step EXCEPT ![r] = @ + 1]
    /\ subs' = [subs EXCEPT ![r] = S]
    /\ plain' = [plain EXCEPT ![r] = n]
    /\ \E next \in IF S = {} /\ n = 0 THEN {"done", "check"} ELSE {"tools"} :
          pc' = [pc EXCEPT ![r] = next]
    /\ UNCHANGED <<limit, reserved, deadline, toolCalls, grant, fatal, canceled, now>>

\* A mutant of GenerateFails: the call is tried again without counting a step.
GenerateFailsTriesAgain(r) ==
    /\ pc[r] = "model"
    /\ pc' = [pc EXCEPT ![r] = "check"]
    /\ UNCHANGED <<limit, used, reserved, deadline, toolCalls, step, spent, grant,
                   subs, plain, fatal, canceled, now, total>>

\* The model call fails, by itself or because its context ended.
GenerateFails(r) ==
    /\ pc[r] = "model"
    /\ pc' = [pc EXCEPT ![r] = "done"]
    /\ UNCHANGED <<limit, used, reserved, deadline, toolCalls, step, spent, grant,
                   subs, plain, fatal, canceled, now, total>>

\* A semaphore slot is free and, one call after another, nothing was fatal yet.
MayStart(p) ==
    /\ pc[p] = "tools"
    /\ Cardinality(InFlight(p)) < Width
    /\ ParallelTools \/ ~fatal[p]

\* A tool call that starts no subagent (an ordinary, unknown, denied or
\* disabled tool); f says whether it returned Fatal.
PlainTool(p, f) ==
    /\ MayStart(p)
    /\ plain[p] > 0
    /\ plain' = [plain EXCEPT ![p] = @ - 1]
    /\ toolCalls' = [toolCalls EXCEPT ![p] = @ + 1]
    /\ fatal' = [fatal EXCEPT ![p] = @ \/ f]
    /\ UNCHANGED <<pc, limit, used, reserved, deadline, step, spent, grant, subs,
                   canceled, now, total>>

\* invokeSub up to runWith: reserve the grant, open a session and a tracker.
InvokeSub(r) ==
    LET p == Parent[r] IN
    /\ MayStart(p)
    /\ r \in subs[p]
    /\ subs' = [subs EXCEPT ![p] = @ \ {r}, ![r] = {}]
    /\ toolCalls' = [toolCalls EXCEPT ![p] = @ + 1, ![r] = 0]
    /\ limit' = [limit EXCEPT ![r] = ChildLimit(p, r)]
    /\ grant' = [grant EXCEPT ![r] = ChildGrant(p, r)]
    /\ reserved' = [reserved EXCEPT ![p] = Plus(@, ChildGrant(p, r)), ![r] = Zero]
    /\ deadline' = [deadline EXCEPT ![r] = TrackerDeadline(ChildDeadline(p, r), ReqTimeout[r])]
    /\ used' = [used EXCEPT ![r] = Zero]
    /\ spent' = [spent EXCEPT ![r] = Zero]
    /\ total' = [total EXCEPT ![r] = Zero]
    /\ step' = [step EXCEPT ![r] = 0]
    /\ plain' = [plain EXCEPT ![r] = 0]
    /\ fatal' = [fatal EXCEPT ![r] = FALSE]
    /\ pc' = [pc EXCEPT ![r] = "check"]
    /\ UNCHANGED <<canceled, now>>

\* A mutant of SettleSub: the grant stays reserved.
SettleSubNeverReleases(r) ==
    LET p == Parent[r] IN
    /\ pc[r] = "done"
    /\ used' = [used EXCEPT ![p] = Plus(@, spent[r])]
    /\ pc' = [pc EXCEPT ![r] = "idle"]
    /\ UNCHANGED <<limit, deadline, toolCalls, step, spent, grant, reserved, subs, plain,
                   fatal, canceled, now, total>>

\* invokeSub after runWith: settleChild, whether the run failed or not.
SettleSub(r) ==
    LET p == Parent[r] IN
    /\ pc[r] = "done"
    /\ used' = [used EXCEPT ![p] = Plus(@, spent[r])]
    /\ reserved' = [reserved EXCEPT ![p] = Release(@, grant[r])]
    /\ pc' = [pc EXCEPT ![r] = "idle"]
    /\ UNCHANGED <<limit, deadline, toolCalls, step, spent, grant, subs, plain,
                   fatal, canceled, now, total>>

\* runToolCalls returns once every call it started has returned: all calls of
\* the response, or those up to a fatal one when they run one by one.
ToolsReturn(p) ==
    /\ pc[p] = "tools"
    /\ InFlight(p) = {}
    /\ (subs[p] = {} /\ plain[p] = 0) \/ (~ParallelTools /\ fatal[p])
    /\ subs' = [subs EXCEPT ![p] = {}]
    /\ plain' = [plain EXCEPT ![p] = 0]
    /\ pc' = [pc EXCEPT ![p] = IF fatal[p] THEN "done" ELSE "check"]
    /\ UNCHANGED <<limit, used, reserved, deadline, toolCalls, step, spent, grant,
                   fatal, canceled, now, total>>

\* The caller cancels, or time passes.
Cancel ==
    /\ ~canceled
    /\ pc[Root] # "done"
    /\ canceled' = TRUE
    /\ UNCHANGED <<pc, limit, used, reserved, deadline, toolCalls, step, spent, grant,
                   subs, plain, fatal, now, total>>

Tick ==
    /\ now < MaxTime
    /\ pc[Root] # "done"
    /\ now' = now + 1
    /\ UNCHANGED <<pc, limit, used, reserved, deadline, toolCalls, step, spent, grant,
                   subs, plain, fatal, canceled, total>>

Returned == pc[Root] = "done" /\ UNCHANGED vars

RunStep(r) ==
    \/ CheckStep(r)
    \/ \E u \in [Dims -> 0 .. MaxUse], S \in SUBSET Children(r), n \in 0 .. MaxPlain :
          Generate(r, u, S, n)
    \/ GenerateFails(r)
    \/ \E f \in BOOLEAN : PlainTool(r, f)
    \/ ToolsReturn(r)

SubStep(r) == InvokeSub(r) \/ SettleSub(r)

Next ==
    \/ \E r \in Runs : RunStep(r)
    \/ \E r \in 1 .. N : SubStep(r)
    \/ Cancel
    \/ Tick
    \/ Returned

Spec == Init /\ [][Next]_vars

\* Every goroutine is scheduled, and the model calls and tools it waits for
\* return (their contexts end at the latest when the caller gives up).
FairSpec ==
    /\ Spec
    /\ \A r \in Runs : WF_vars(RunStep(r))
    /\ \A r \in 1 .. N : WF_vars(SubStep(r))

-----------------------------------------------------------------------------
(* Properties                                                              *)

\* TypeOK: the shape of the state.
TypeOK ==
    /\ pc \in [Runs -> {"idle", "check", "model", "tools", "done"}]
    /\ limit \in [Runs -> Usage]
    /\ used \in [Runs -> Usage]
    /\ reserved \in [Runs -> Usage]
    /\ spent \in [Runs -> Usage]
    /\ grant \in [Runs -> Usage]
    /\ total \in [Runs -> Usage]
    /\ deadline \in [Runs -> Nat]
    /\ toolCalls \in [Runs -> Nat]
    /\ step \in [Runs -> Nat]
    /\ subs \in [Runs -> SUBSET (1 .. N)]
    /\ plain \in [Runs -> Nat]
    /\ fatal \in [Runs -> BOOLEAN]
    /\ canceled \in BOOLEAN
    /\ now \in Nat /\ now >= 2

\* The ledger: what a run has reserved is exactly the sum of the grants of the
\* subagents that have not settled, in every interleaving of a fan-out.
ReservedIsSumOfGrants ==
    \A p \in Runs, d \in Dims :
        pc[p] # "idle" =>
            reserved[p][d] = SumFunctionOnSet([r \in Runs |-> grant[r][d]], InFlight(p))

\* The slack childBudget's comment calls "inherent to rimeno's budgeting", made
\* exact: what a run has used plus what it has promised to subagents exceeds
\* its limit by less than one model call per concurrently running tool.
SpendWithinSlack ==
    \A p \in Runs, d \in Dims :
        (pc[p] # "idle" /\ Limited(p, d)) =>
            used[p][d] + reserved[p][d] <= limit[p][d] + Width * (MaxUse - 1)

\* A subagent never outspends the allowance carved for it by more than its last
\* model call, and one started by an exhausted parent spends nothing at all.
ChildWithinGrant ==
    \A r \in 1 .. N, d \in Dims :
        (pc[r] # "idle" /\ Limited(Parent[r], d)) =>
            IF grant[r][d] = 0 THEN spent[r][d] = 0
            ELSE spent[r][d] <= grant[r][d] + MaxUse - 1

\* The guard "never below 0" of settleChild never has to act: a subagent that
\* is still running has its whole grant reserved.
GrantStaysReserved ==
    \A r \in 1 .. N, d \in Dims :
        pc[r] # "idle" => grant[r][d] <= reserved[Parent[r]][d]

\* A parent whose deadline has passed has no subagent that believes it still
\* has time, whatever deadline and timeout the subagent was configured with.
DeadlineNested ==
    \A r \in 1 .. N :
        (pc[r] # "idle" /\ Passed(deadline[Parent[r]])) => Passed(deadline[r])

\* "Its usage rolls up into the parent's budget" (subagent.go): between fan-outs
\* a run's tracker has counted everything that was spent on its behalf.
UsageRollsUp ==
    \A p \in Runs :
        pc[p] \in {"check", "model", "done"} => used[p] = total[p]

\* Every Send returns: no fan-out waits for a subagent that will not settle.
Terminates == <>(pc[Root] = "done")

-----------------------------------------------------------------------------
(* The inductive invariant behind SpendWithinSlack, in named parts         *)

\* s holds the partial sums of w[1], ..., w[N].  They are described so that
\* changing one w[k] yields the new ones directly: as monotone, and flat where w
\* is 0.
PartialSums(s, w) ==
    /\ s[0] = 0
    /\ \A i \in 1 .. N : s[i] = s[i - 1] + w[i]
    /\ \A i, j \in Runs : i <= j => s[i] <= s[j]
    /\ \A i, j \in Runs : (i <= j /\ \A k \in i + 1 .. j : w[k] = 0) => s[i] = s[j]

\* t is the sum of w[1], ..., w[N].
IsSum(w, t) == \E s \in [Runs -> 0 .. t] : PartialSums(s, w) /\ s[N] = t

Outstanding(p, d) == [r \in 1 .. N |-> IF r \in InFlight(p) THEN grant[r][d] ELSE 0]

\* Children of p that p had allowance left for.
Funded(p, d) == {r \in InFlight(p) : grant[r][d] > 0}

\* Subagents run only while their parent waits in its fan-out, and a slot that
\* is still to be started is free.
TreeShape ==
    /\ \A r \in 1 .. N : pc[r] # "idle" => pc[Parent[r]] = "tools"
    /\ \A p \in Runs : \A r \in subs[p] : Parent[r] = p /\ pc[r] = "idle"
    /\ \A p \in Runs : subs[p] # {} => pc[p] = "tools"

SemaphoreBound == \A p \in Runs : Cardinality(InFlight(p)) <= Width

Ledger == \A p \in Runs, d \in Dims : IsSum(Outstanding(p, d), reserved[p][d])

\* SpendWithinSlack with the overspending of funded subagents set aside.
Potential ==
    \A p \in Runs, d \in Dims :
        (pc[p] # "idle" /\ Limited(p, d)) =>
            used[p][d] + reserved[p][d] + Cardinality(Funded(p, d)) * (MaxUse - 1)
                <= limit[p][d] + Width * (MaxUse - 1)

\* A run in its model call has passed check.
ModelBelowLimit ==
    \A p \in Runs, d \in Dims :
        (pc[p] = "model" /\ Limited(p, d)) => used[p][d] < limit[p][d]

SpentIsUsed == \A p \in Runs, d \in Dims : spent[p][d] <= used[p][d]

\* A child runs under its grant, or under a deadline that has passed.
ChildBound ==
    \A r \in 1 .. N, d \in Dims :
        (pc[r] # "idle" /\ Limited(Parent[r], d)) =>
            \/ /\ grant[r][d] > 0
               /\ limit[r][d] = grant[r][d]
               /\ spent[r][d] <= grant[r][d] + MaxUse - 1
            \/ /\ grant[r][d] = 0
               /\ spent[r][d] = 0
               /\ Passed(deadline[r])
               /\ pc[r] \in {"check", "done"}

IInv ==
    /\ TypeOK
    /\ TreeShape
    /\ SemaphoreBound
    /\ Ledger
    /\ Potential
    /\ ModelBelowLimit
    /\ SpentIsUsed
    /\ ChildBound

\* A subagent of a run with a deadline has one that is no later, or one that has passed: the
\* inductive invariant behind DeadlineNested, next to IInv.
DeadlineOrder ==
    \A r \in 1 .. N :
        (pc[r] # "idle" /\ deadline[Parent[r]] # 0) =>
            deadline[r] # 0 /\ (deadline[r] <= deadline[Parent[r]] \/ now > deadline[r])

=============================================================================
