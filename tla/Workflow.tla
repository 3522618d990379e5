------------------------------ MODULE Workflow ------------------------------
(***************************************************************************)
(* The workflow package: a graph of steps is validated and then run in     *)
(* waves (Workflow.validate and Workflow.Run of workflow.go).              *)
(*                                                                         *)
(* The graph is any function from steps to the names they depend on, so    *)
(* unknown names and cycles occur.  What a step computes is left out: it   *)
(* succeeds, which adds one unit of usage, or fails.  A list of            *)
(* dependencies is a set here; a name listed twice would be counted and    *)
(* discounted twice.                                                       *)
(***************************************************************************)
EXTENDS Integers, FiniteSets

CONSTANTS
    Steps,      \* names of the steps added to the workflow
    Missing,    \* a name that no step has
    Graphs,     \* the graphs to consider
    HangingSteps,    \* steps that return only once their context is canceled
    NoStep      \* no error yet

ASSUME StepsAssumption == IsFiniteSet(Steps) /\ Missing \notin Steps /\ NoStep \notin Steps
ASSUME GraphsAssumption == Graphs \subseteq [Steps -> SUBSET (Steps \cup {Missing})]
ASSUME HangingAssumption == HangingSteps \subseteq Steps

VARIABLES
    deps,       \* Step.DependsOn
    stage,      \* "names", "kahn", "collect", "wait" (in wg.Wait) or "done"
    indeg,      \* validate's indeg
    queue,      \* validate's queue
    visited,    \* the steps validate has taken from the queue
    done,       \* Run's done, also the keys of Result.Outputs and of State
    status,     \* of each step: "idle", "launched", "running", "ok", "failed"
    seen,       \* history variable: the outputs in State when the step began
    starts,     \* history variable: how often the step was launched
    firstErr,   \* the step whose error Run returns
    canceled,   \* who canceled cctx: "no", the "caller" or a failed "step"
    usage,      \* Result.Usage
    result      \* what Run returned

validateVars == <<indeg, queue, visited>>
runVars == <<done, status, seen, starts, firstErr, usage>>
workflowVars == <<deps, stage, validateVars, runVars, canceled, result>>

InitWorkflow ==
    /\ deps \in Graphs
    /\ stage = "names"
    /\ indeg = [s \in Steps |-> 0]
    /\ queue = {}
    /\ visited = {}
    /\ done = {}
    /\ status = [s \in Steps |-> "idle"]
    /\ seen = [s \in Steps |-> {}]
    /\ starts = [s \in Steps |-> 0]
    /\ firstErr = NoStep
    /\ canceled = "no"
    /\ usage = 0
    /\ result = "none"

Return(r) == stage' = "done" /\ result' = r

-----------------------------------------------------------------------------
(* validate                                                                *)

\* Every name must be known; then Kahn's algorithm starts from the steps that
\* depend on nothing.
CheckNames ==
    /\ stage = "names"
    /\ \/ /\ \E s \in Steps : ~ (deps[s] \subseteq Steps)
          /\ Return("unknown")
          /\ UNCHANGED validateVars
       \/ /\ \A s \in Steps : deps[s] \subseteq Steps
          /\ indeg' = [s \in Steps |-> Cardinality(deps[s])]
          /\ queue' = {s \in Steps : deps[s] = {}}
          /\ visited' = {}
          /\ stage' = "kahn"
          /\ UNCHANGED result
    /\ UNCHANGED <<deps, runVars, canceled>>

Dependents(n) == {m \in Steps : n \in deps[m]}

\* A mutant of Visit: a step is queued when its first dependency is visited.
VisitQueuesEarly(n) ==
    /\ stage = "kahn" /\ n \in queue
    /\ visited' = visited \cup {n}
    /\ indeg' = [m \in Steps |-> IF m \in Dependents(n) THEN indeg[m] - 1 ELSE indeg[m]]
    /\ queue' = (queue \ {n}) \cup (Dependents(n) \ visited)
    /\ UNCHANGED <<deps, stage, runVars, canceled, result>>

\* Take a step from the queue: a dependent it was the last dependency of is
\* queued.  The queue is filled in map order, so any of its steps may be next.
Visit(n) ==
    /\ stage = "kahn" /\ n \in queue
    /\ visited' = visited \cup {n}
    /\ indeg' = [m \in Steps |-> IF m \in Dependents(n) THEN indeg[m] - 1 ELSE indeg[m]]
    /\ queue' = (queue \ {n}) \cup {m \in Dependents(n) : indeg[m] = 1}
    /\ UNCHANGED <<deps, stage, runVars, canceled, result>>

\* A mutant of Validated: the count is not compared.
ValidatedUnchecked ==
    /\ stage = "kahn" /\ queue = {}
    /\ stage' = "collect" /\ UNCHANGED result
    /\ UNCHANGED <<deps, validateVars, runVars, canceled>>

Validated ==
    /\ stage = "kahn" /\ queue = {}
    /\ IF visited = Steps THEN stage' = "collect" /\ UNCHANGED result ELSE Return("cycle")
    /\ UNCHANGED <<deps, validateVars, runVars, canceled>>

-----------------------------------------------------------------------------
(* Run                                                                     *)

\* A mutant of Ready: one dependency is enough.
ReadyTooSoon == {s \in Steps \ done : deps[s] = {} \/ deps[s] \cap done # {}}

Ready == {s \in Steps \ done : deps[s] \subseteq done}

\* The top of the loop: finished, stuck, or a wave of everything that is ready.
Collect ==
    /\ stage = "collect"
    /\ \/ /\ Ready = {}
          /\ Return(IF done = Steps THEN "ok" ELSE "stuck")
          /\ UNCHANGED <<status, starts>>
       \/ /\ Ready # {}
          /\ status' = [s \in Steps |-> IF s \in Ready THEN "launched" ELSE status[s]]
          /\ starts' = [s \in Steps |-> IF s \in Ready THEN starts[s] + 1 ELSE starts[s]]
          /\ stage' = "wait"
          /\ UNCHANGED result
    /\ UNCHANGED <<deps, validateVars, done, seen, firstErr, usage, canceled>>

\* The goroutine of a step gets going and reads what is on the blackboard.
BeginStep(s) ==
    /\ status[s] = "launched"
    /\ status' = [status EXCEPT ![s] = "running"]
    /\ seen' = [seen EXCEPT ![s] = done]
    /\ UNCHANGED <<deps, stage, validateVars, done, starts, firstErr, usage, canceled, result>>

StepMayReturn(s) == status[s] = "running" /\ (s \notin HangingSteps \/ canceled # "no")

\* The step returns and, under the mutex, its output, usage and done are set.
StepSucceeds(s) ==
    /\ StepMayReturn(s)
    /\ status' = [status EXCEPT ![s] = "ok"]
    /\ done' = done \cup {s}
    /\ usage' = usage + 1
    /\ UNCHANGED <<deps, stage, validateVars, seen, starts, firstErr, canceled, result>>

\* A mutant of StepFails: the others are not canceled.
StepFailsWithoutCancel(s) ==
    /\ StepMayReturn(s)
    /\ status' = [status EXCEPT ![s] = "failed"]
    /\ firstErr' = IF firstErr = NoStep THEN s ELSE firstErr
    /\ UNCHANGED <<deps, stage, validateVars, done, seen, starts, usage, canceled, result>>

\* A mutant of StepFails: the last error wins.
StepFailsLastWins(s) ==
    /\ StepMayReturn(s)
    /\ status' = [status EXCEPT ![s] = "failed"]
    /\ firstErr' = s
    /\ canceled' = IF canceled = "no" THEN "step" ELSE canceled
    /\ UNCHANGED <<deps, stage, validateVars, done, seen, starts, usage, result>>

\* The step returns an error or panics: the first such step is remembered and
\* the others are canceled.  What it used is not reported.
StepFails(s) ==
    /\ StepMayReturn(s)
    /\ status' = [status EXCEPT ![s] = "failed"]
    /\ firstErr' = IF firstErr = NoStep THEN s ELSE firstErr
    /\ canceled' = IF firstErr = NoStep /\ canceled = "no" THEN "step" ELSE canceled
    /\ UNCHANGED <<deps, stage, validateVars, done, seen, starts, usage, result>>

Busy == {s \in Steps : status[s] \in {"launched", "running"}}

\* wg.Wait returns when the whole wave has.
EndWave ==
    /\ stage = "wait" /\ Busy = {}
    /\ IF firstErr = NoStep THEN stage' = "collect" /\ UNCHANGED result ELSE Return("error")
    /\ UNCHANGED <<deps, validateVars, runVars, canceled>>

CancelRun ==
    /\ canceled = "no" /\ stage # "done"
    /\ canceled' = "caller"
    /\ UNCHANGED <<deps, stage, validateVars, runVars, result>>

RunReturned == stage = "done" /\ UNCHANGED workflowVars

RunStep == CheckNames \/ Validated \/ Collect \/ EndWave

GoStep(s) == Visit(s) \/ BeginStep(s) \/ StepSucceeds(s) \/ StepFails(s)

NextWorkflow ==
    \/ RunStep
    \/ \E s \in Steps : GoStep(s)
    \/ CancelRun
    \/ RunReturned

WorkflowSpec == InitWorkflow /\ [][NextWorkflow]_workflowVars

\* Run and the goroutines of the steps are scheduled, and steps return; one in
\* HangingSteps does so only after a cancel, and nobody has to cancel.
FairWorkflow == WorkflowSpec /\ WF_workflowVars(RunStep) /\ \A s \in Steps : WF_workflowVars(GoStep(s))

-----------------------------------------------------------------------------
(* Properties                                                              *)

\* WorkflowTypeOK: the shape of the state.
WorkflowTypeOK ==
    /\ deps \in [Steps -> SUBSET (Steps \cup {Missing})]
    /\ stage \in {"names", "kahn", "collect", "wait", "done"}
    /\ indeg \in [Steps -> Nat]
    /\ queue \in SUBSET Steps
    /\ visited \in SUBSET Steps
    /\ done \in SUBSET Steps
    /\ status \in [Steps -> {"idle", "launched", "running", "ok", "failed"}]
    /\ seen \in [Steps -> SUBSET Steps]
    /\ starts \in [Steps -> Nat]
    /\ firstErr \in Steps \cup {NoStep}
    /\ canceled \in {"no", "caller", "step"}
    /\ usage \in Nat
    /\ result \in {"none", "unknown", "cycle", "ok", "stuck", "error"}

\* Steps that wait for each other: each of them depends on one of them.
Knot(K) == K \subseteq Steps /\ K # {} /\ \A s \in K : deps[s] \cap K # {}

Known == \A s \in Steps : deps[s] \subseteq Steps
Acyclic == \A K \in SUBSET Steps : ~Knot(K)

\* validate accepts exactly the graphs without unknown names and cycles, in
\* whatever order Kahn's queue is filled.
ValidateExact ==
    /\ (stage \in {"collect", "wait"} \/ result \in {"ok", "stuck", "error"}) => Known /\ Acyclic
    /\ result = "unknown" => ~Known
    /\ result = "cycle" => ~Acyclic

\* The error "no runnable steps" of Run is dead code: a graph that was accepted
\* always has a step to run until all are done.
NeverStuck == result # "stuck"

\* Whenever a step reads the blackboard, the outputs of all its dependencies
\* are there.
InputsReady == \A s \in Steps : status[s] \in {"running", "ok", "failed"} => deps[s] \subseteq seen[s]

\* No step is run twice, whatever waves it was ready in (workflow.go, Run).
RunsOnce == \A s \in Steps : starts[s] <= 1

\* The error Run returns is a cause and never a consequence of the cancel it
\* leads to: a step that returns only when it is canceled is named by it only if
\* the caller canceled, however the returns of a wave fall.
FailureIsCause == firstErr \in HangingSteps => canceled = "caller"

\* "The first step error cancels the rest and is returned (fail-fast)"
\* (workflow.go): also if the rest would never return by itself.
FailFast == (firstErr # NoStep) ~> (result = "error")

-----------------------------------------------------------------------------
(* The inductive invariant                                                 *)

\* indeg counts the dependencies that have not been visited.
IndegCounts == stage = "kahn" => \A s \in Steps : indeg[s] = Cardinality(deps[s] \ visited)

\* The queue holds exactly the steps whose dependencies are visited and that are
\* not visited themselves; a visited step has its dependencies visited.
QueueExact ==
    stage = "kahn" =>
        /\ queue = {s \in Steps \ visited : deps[s] \subseteq visited}
        /\ \A s \in visited : deps[s] \subseteq visited

\* Kahn's algorithm never enters a knot.
KnotsUnvisited ==
    stage = "kahn" => Known /\ \A K \in SUBSET Steps : Knot(K) => K \cap visited = {}

\* How waves, errors and the status of steps relate.
WaveShape ==
    /\ stage # "wait" => Busy = {}
    /\ stage \in {"names", "kahn", "collect"} => firstErr = NoStep
    /\ stage # "done" => result = "none"
    /\ \A s \in Steps :
          /\ status[s] = "launched" => deps[s] \subseteq done
          /\ status[s] = "ok" => s \in done
          /\ status[s] = "failed" => firstErr # NoStep
          /\ starts[s] = IF status[s] = "idle" THEN 0 ELSE 1

\* Only a failure that is kept cancels the others.
CancelHasCause == canceled = "step" => firstErr # NoStep

WorkflowIInv ==
    /\ WorkflowTypeOK
    /\ IndegCounts
    /\ QueueExact
    /\ KnotsUnvisited
    /\ ValidateExact
    /\ NeverStuck
    /\ WaveShape
    /\ InputsReady
    /\ CancelHasCause
    /\ FailureIsCause

=============================================================================
