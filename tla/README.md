# A TLA+ model of rimeno

rimeno is a Go library for LLM agents: an agent runs a loop of model calls and
tool calls over a session, may delegate to subagents, and is surrounded by
packages that reach the outside (model endpoints, MCP servers, shells, files,
JSON-RPC clients). This directory models the parts of it that keep state and
run concurrently, checks them with TLC on small instances, and proves the most
important results with TLAPS for all instances.

Paths below are relative to the repository root.

## 1. The system

| Component | State | Operations | Interacts with |
|---|---|---|---|
| Run loop (`run.go`) | step, repairs left, request | `Send`/`runWith`: check budget, compact, generate, append, call tools, repair | everything below |
| Session (`session.go`, `persistence.go`) | history, `lastResponseID`, `threadSentIdx`, `threadingDisabled` | `Send`, `Snapshot`, `ResumeSession` | run loop, under `Session.mu` |
| Compaction (`compaction.go`) | none (rewrites the history) | `maybeCompact`, `Compact` | run loop; drops the thread |
| Budgets (`budget.go`, `subagent.go`) | usage, reservations, deadline, tool calls, error counts | `check`, `record`, `childBudget`, `settleChild`, `invokeSub` | shared by a run and all its concurrent tool calls |
| Tool fan-out (`run.go`: `runToolCalls`, `invokeOne`) | results, semaphore, cancel | start, breaker, approve, emit, invoke, report | budgets, approver, `OnEvent`, tools |
| Workflows (`workflow/`) | graph, done, blackboard, first error | `validate`, `Run` | steps as goroutines, wave by wave |
| JSON-RPC server (`rpc/`) | session table, per-session mutex, write mutex | one goroutine per line: new, resume, prompt, snapshot, close, ping | sessions, client, host |
| MCP client (`mcp/`) | pending calls, write mutex, done | `call`, `readLoop`, `dispatch`, `Close` | server process over two pipes |
| Model client (`openai/`) | semaphore; attempt, previous wait | `Generate`/`do`, `nextWait`, `openSSE` | endpoint, shared by goroutines |
| Streams (`openai/stream.go`, `responses_stream.go`) | pieces so far, `done` | `Recv`, `finalChunk`, read by `generateStream` | endpoint, `OnEvent` |
| Memory stores (`memory/store*.go`) | cache and file per namespace | `Put`, `Delete`, `Get`, `Query`, `load`, `flush` | file system, restarts |
| Shared memory (`memory/`: handle, tools, compactor) | records of a namespace; a compaction in progress | `Remember`, `Recall`, `Forget`, the five tools, `Preamble`, `Compact` | store, histories of concurrent agents |
| Persistent shell (`sandbox/shell.go`) | process, token, lines, alive | `Exec`, `start`, kill, `Close` | operating system |
| One-shot sandboxes (`sandbox/local.go`, `docker.go`) | process, captured output; a container | `Create`, `Exec`, `Close` | operating system, docker daemon |
| Traces (`trace.go`, `otel/`) | a tree of spans | `child`, `end`, `graft`; `Summary`, `JSONL`, export | run loop, fan-out, subagents |
| Tools and output (`tool.go`, `output.go`, `agent.go`, `schema/`) | table of tools by name; repairs left | `New`, routing, `For`, `Validate`, `decodeOutput` | run loop, MCP tools |
| jev client (`jev/`) | attempt | `Decide`, `do` | its endpoint |
| Everything else | no state over several operations | events, metrics, dotenv, test model, CLI | not modelled (section 8) |

What is hard here, and hard to test:

* *Concurrent carving of one budget.* Siblings of a fan-out take shares of the
  same remainder, fail, time out, and give back; 0 means "unlimited", so a
  remainder of 0 needs care.
* *A counter read, then a long wait, then a write.* The breaker, the approver.
* *State split between two places.* Threading keeps a prefix of the history on
  the provider's server; compaction, repair, fallback and resume change the
  local half.
* *Waiting.* Fan-outs, waves, per-session mutexes, slots and pipes all make one
  goroutine wait for others which may never come back by themselves.
* *Late, duplicate and missing answers* of MCP servers and shells, and replies
  that come in pieces and stop anywhere.
* *A store read while others write it.* A compaction reads the shared memory
  after a model call during which other agents have gone on.
* *Stopping anywhere.* File store and resumed sessions.
* *Many ways out.* A run returns on ten paths, each of which has to end its own
  spans; a command ends, is killed, expires or is canceled, all at once.
* *The same thing judged twice.* A schema and a decoder both decide whether an
  answer fits a type; names are joined from prefixes and looked up again.

`PROJECT.json` lists these hazards line by line, with the property that covers
each.

## 2. Modules

| Module | Models | Extended by |
|---|---|---|
| `BudgetTree` | `budget.go`, `subagent.go`, the budget side of `runWith` | `MC_BudgetTree`, `BudgetTreeProofs` |
| `ToolFanout` | `runToolCalls`, `invokeOne`, `safeInvoke`, breaker | `MC_ToolFanout`, `FanoutProofs` |
| `Session` | `runWith` over the history, threading, compaction, repair, snapshot, resume | `ThreadedSession`, `SessionProofs` |
| `ThreadedSession` | refinement: threading on implements `Session` with threading off | `SessionProofs` |
| `Workflow` | `validate`, `Run` | `MC_Workflow`, `FanoutProofs` |
| `RpcServer` | one connection of `rpc/server.go` | `MC_RpcServer`, `RpcServerProofs` |
| `McpClient` | `mcp/jsonrpc.go`, `Client.Close` | `MC_McpClient`, `McpClientProofs` |
| `ModelClient` | `do`, `nextWait`, slots, `openSSE` | `MC_ModelClient`, `ModelCalls` |
| `DurableStore` | abstract: what a durable `memory.Store` promises | (instance in `FileStore`) |
| `FileStore` | `memory/store_file.go`; implements `DurableStore` | `MC_FileStore`, `MemoryStores`, `ServiceProofs` |
| `Stream` | `Recv` and `finalChunk` of both streams, `generateStream` | `ModelCalls` |
| `Decisions` | `Decide` and `do` of `jev/jev.go` | `ModelCalls` |
| `ModelCalls` | the choice between generating, streaming and deciding | `ServiceProofs` |
| `SharedMemory` | handle, in-memory store, tools, compactor and preamble of `memory/` | `MC_SharedMemory`, `ServiceProofs` |
| `MemoryStores` | the choice of a store: `FileStore`, or `SharedMemory` over the in-memory one | |
| `Shell` | `sandbox/shell.go` | `Sandboxes` |
| `OneShot` | `sandbox/local.go`, `sandbox/docker.go` | `Sandboxes` |
| `Sandboxes` | the choice of a provider | `SandboxProofs` |
| `RunTrace` | `trace.go`, the places in `run.go` and `subagent.go` that trace | `TraceWalks`, `SessionProofs` |
| `TraceWalks` | what reads a trace: `Summary`, `JSONL`, `otel/otel.go` | `MC_RunTrace` |
| `Schema` | `schema/`, `decodeOutput`: functions over types and JSON values | `Toolbox` |
| `Toolset` | `New`, typed and MCP tools, routing | `Toolbox`, `McpClientProofs` |
| `Toolbox` | `Toolset`, or structured output over `Schema` | `MC_Toolbox` |
| `InductionTheorems` | nothing of the code: lemmas about least numbers, sums and rankings | the proof modules |

`TraceWalks` and `Schema` walk trees with recursive operators, which the prover
does not take; that is why what builds a trace, and what makes a set of tools, are
modules of their own.

How state and actions correspond to the code (the map in `PROJECT.json` has the
lines):

* **BudgetTree.** A run is one activation of `runWith`; runs form a tree with
  the caller's `Send` at its root. `used`, `reserved`, `limit`, `deadline`,
  `toolCalls` are the fields of `budgetTracker`. Actions: `CheckStep` (top of
  the loop), `Generate` (which calls tools, ends the run or has its output repaired) and
  `GenerateFails`, `PlainTool`, `InvokeSub` (`childBudget`
  with its reservation), `SettleSub` (`settleChild`), `ToolsReturn`, `Cancel`,
  `Tick`. `spent`, `grant` and `total` are history variables. Time is discrete.
* **ToolFanout.** One goroutine per call with the points where it can be
  interrupted: `StartCall` (semaphore), `CheckCall` (breaker), `ApproveCall`,
  `NotifiedCall` (`OnEvent`), the three ends of a tool, and `ReturnResults`
  after `wg.Wait`. Around it, `CheckRun` is the top of the loop and `ModelReturns`
  the model call. `errs` carries over from one step of the run to the next.
* **Session.** `history` is a sequence of messages with roles and identities.
  `server` is the provider's half: response *n* stands for the messages the
  model was shown for it. `View` is what the model really sees for a request.
  `RecordReply` and `AskRepair` are the two places where a reply that does not fit
  changes the history, each under `Session.mu`; `Snapshot` may happen at any point
  (it only takes that mutex), `Resume` is a new process.
* **Workflow.** The graph is an initial choice, so one run covers every graph.
  `CheckNames`, `Visit`, `Validated` are `validate`; `Collect`, `BeginStep`,
  `StepSucceeds`, `StepFails`, `EndWave` are `Run`. `canceled` tells a cancel of the
  caller from one that a failed step led to.
* **RpcServer.** `ReadLine` starts a handler; a handler passes the stages
  start, lock, run, reply, done; a session is the request that opened it, and
  0 is the id of a line that names none. What the client sends is one of `Scripts`,
  a set of sequences of lines; it may stop anywhere in it.
* **McpClient.** Call: `Begin`, `LockWrite`, `WriteRequest`, `Select`, `Finish`.
  Reader: `ReadResponse`, `SendToCall` (outside the mutex), `ReadRequest`,
  `LockDecline`, `WriteDecline`, `ReadFails`. Pipes are bounded sequences; the
  server is external: it writes one of a set of habits for each request.
* **ModelClient.** `TakeSlot`, `Conclusive`, `Retry`, `Backoff` are the loop of
  `do`; `NextWaits` is the set of waits `nextWait` may return, `Override` the
  treatment of a `Retry-After` hint.
* **FileStore.** `Write` changes the map, `CreateTemp` and `Rename` are `flush`,
  `FlushFails` any of its errors, `Stop` the end of the process.
  `safeFilename` is modelled character by character class, since a property is
  about it.
* **Stream.** The reply and its division into frames are the server's choice.
  `RecvChat` and `RecvDelta` are one turn of `Recv`, with the event that
  `generateStream` emits for it; `RecvLast`, `RecvDone`, `RecvEOF` lead to
  `FinalChunk`; `RecvFailed` and `RecvError` are the errors. The frames of a chat
  stream are the reply; the completed frame of a Responses stream holds a reply of
  its own, whatever the deltas before it were. `Generated` is what the unstreamed
  call makes of the same reply.
* **SharedMemory.** One action per tool. A compaction is `BeginCompact` (count
  the system messages), `Summarize` (the inner compactor has returned), then
  `Inject` (read the store, place the block) or `CompactFails`; other agents act
  in between. A message carries the versions of the records it shows. `Query`
  and `Preamble` keep the ranking and the budget.
* **Shell.** A shell is its generation (process, token, channel, directory).
  `Exec` is `Call`, `Enter`/`Refuse`, `StartShell`, `WriteScript`, then
  `TakeLine`, `ShellGone` or `GiveUp`; the operating system is `Finishes`,
  `Backgrounds`, `Exits`.
* **OneShot.** A job is one `Exec` of the host sandbox; for docker, that of
  `Create`, `Exec` or `Close`, which run the docker command line. `Started`,
  `Expires`, `Canceled`, `Killed`, `Reaped` and `Returned` are `Exec` and
  `exec.Cmd`; `Prints`, `Forks`, `LetsGo`, `Ends` are the command's process and
  the descendants that keep its output, `Detaches` and `LeftEnds` those that do not,
  on the host or in the container, which `DaemonStarts`, `DaemonRemoves` and
  `InnerEnds` are about.
  Output is a count of bytes with the limit of `cappedBuffer`.
* **RunTrace.** `spans` is the tree under construction, `runs` where each
  `runWith` stands and what it really did. The actions are the places where a
  span is made, ended or failed (`OpenStep`, `Answer`, `BadAnswer`,
  `AskForTools`, `Refuse`, `Invoke`, `ToolReturns`, `InvokeSub`, `SubReturns`,
  ...) and the ways out (`StopAtTop`, `OutOfSteps`, `ModelFails`). `Summary`,
  `JSONL` and `Exported` of `TraceWalks` are the walks.
* **Schema.** Go types and JSON values are records. `For` (with `Build`,
  `BuildStruct`, `IsRequired`) makes the schema, `Validate` judges a value,
  `Decodes` is `encoding/json`. An embedded struct of an unexported type
  has promoted fields for the decoder and none for the schema (`Promotes`).
  `Means` is the reference: what the type and its tags say of a value, without
  schemas, deeply or with map values that are only decoded.
* **Toolset, Toolbox.** `Connect`, `ListPage` for each server, then `New` or
  `NewFails`, then `CallTool` by name; or, in `Toolbox`, an output type, and `Reply`
  until it fits or no further answer may be asked for (`attempts`, as configured).
* **Decisions.** `Decide`, `Post`, `Wait`; the waits so far tell the attempts.
* **ModelCalls, MemoryStores, Sandboxes.** In a behaviour the program uses one of
  the alternatives, as the configuration chooses; the others do not move.

## 3. What TLC checks

| Run | Bounds | Properties |
|---|---|---|
| `budget` | root and 2 siblings, 1 dimension, limit 2, model calls of up to 2 units, 2 tool calls, 2 steps, 1 plain tool, time up to 3 | `SpendWithinSlack`, `ReservedIsSumOfGrants`, `ChildWithinGrant`, `DeadlineNested`, `Terminates` |
| `budget_nested_rollup` | a chain of 3 agents | `UsageRollsUp` (violated, section 5) |
| `fanout` | 2 tools (one a subagent that may hang) and an unknown one, 3 calls, 2 steps, 2 slots, breaker at 1 | `BreakerBound`, `FatalEndsFanout`, `CancelEndsRun` |
| `session` | 2 Sends, 2 steps, 2 calls per step, 1 restart, `KeepRecent` 2 | `ModelSeesHistory`, `CallsAnswered`, `ImplementsPlain`, `SendReturns` |
| `workflow` | all 4096 graphs over 3 steps and an unknown name | `ValidateExact`, `NeverStuck`, `InputsReady`, `FailureIsCause`, `FailFast` |
| `rpc` | 8 scripts of up to 4 lines, 2 events per run | `SessionExclusive`, `ClosedStaysClosed`, `UpdatesGrouped`, `NotBlocked` |
| `mcp` | 2 calls, pipes of 1 message, 6 server habits | `OwnAnswer`, `CloseWakes` |
| `calls` | 2 callers, 1 stream, 1 slot, 2 retries, 4 hints; a stream of up to 2 pieces of text, of reasoning and of arguments, 2 calls, 3 finish reasons; a `Decide` with 0, 3 or -1 retries | `SlotsExact`, `WaitsBounded`, `SameAsGenerate`, `EveryCallReturns`, `StreamEnds` |
| `memory` | file store: 3 namespaces, 2 ids, 2 values, 3 writes, 2 restarts; shared: 2 agents (symmetric), 2 texts of cost 1 and 2, budget 4 with a header of 1, 3 tool calls, 2 compactions, `KeepRecent` 1 | `AcknowledgedSurvive`, `ImplementsStore`, `ImportantInView`, `BlockBeforeSummary` |
| `sandbox` | 3 calls, 2 persistent shells; or 3 jobs, output limit 2 of at most 3 bytes | `NoStrayLines`, `TimeoutKillsGroup`, `ResultHonest`, `EveryExecReturns` |
| `trace` | 3 runs of 1 step, tools in parallel or one by one, or 2 runs of 2 steps; 2 calls of the caller, 1 of a subagent; 1 repair | `SummaryExact`, `SpansEnclosed` |
| `tools` | 2 servers that send further pages while they have listed fewer than `MaxListed` = 1 names, prefixes that collide, 2 local tools, 2 calls; 21 types against all values of a set, 0, 1 or 2 repairs | `RoutesRight`, `OutputConforms` |

What the less obvious ones say:

* `ImplementsPlain`: a session with threading shows the model what one without
  threading would. `ImplementsStore`: the file store is a `DurableStore`.
* `CallsAnswered`: in every request calls and results pair up, with exactly three
  exceptions, which the code has: results that compaction cut off from their
  call, right behind the summary; at most one message per restart whose calls a
  snapshot left open; and, without `ParallelTools`, the calls behind a fatal one.
  In the last two the user's next message follows what answers there are. The
  run has `ParallelTools`; the proof in section 4 covers both.
* `CancelEndsRun`: once the caller has canceled, the run returns, wherever it is:
  between steps, in the model call, with calls that wait for a slot, an approval or
  a tool that hangs.
* `FailureIsCause`: the error of `Run` is never that of a step that failed only
  because the run was canceled, unless the caller canceled it.
* `NotBlocked`: every line is answered, but for prompts and snapshots that wait for
  an endless prompt on their own session. A close of that very session, a ping and
  a prompt on another session are answered.
* `UpdatesGrouped`: an update names its session but not its prompt; those of two
  prompts on one session never alternate.
* `SameAsGenerate`: a chat reply that arrived whole gives the response that
  `Generate` makes of it, whatever its frames, and what the host was shown is what
  is recorded, also of a stream that ended early. A Responses stream keeps the reply
  of its completed frame to the end. It does not say that the deltas of a Responses
  stream are that reply: they need not be (section 6).
* `BlockBeforeSummary`: a compaction puts its block before the summary that the inner
  compactor made and before every turn; it shows nothing that others replaced or
  forgot while the summary was made; the last turns stay, in their order.
* `ResultHonest`: an exit code is that of a process that ended by itself, with
  all its output up to the limit; in the container, too. It does not say that nothing
  of the command goes on: a process left behind that does not hold the output does,
  and so does in the container a command that was given up.
* `SummaryExact`: the numbers of a trace are what the run and the subagents that
  came back did, each counted once, and `JSONL` and the export have each of its
  spans once. `SpansEnclosed`: nothing open below an ended
  span, and every span made is in the finished trace once.
* `RoutesRight`: a name the model was shown reaches the tool it was shown for,
  and all listed tools were shown.
* `OutputConforms`: what means its type, deeply, is accepted, and what is accepted
  means its type, but for the values of maps, which are only decoded; and a run gives
  up after exactly the answers it may ask for. Types with fields of an unexported
  embedded struct are in the run, but excepted from the first sentence (section 6).

Why the bounds are enough for the cases of interest:

* two siblings are the least that can overcommit a budget, two steps the least
  in which a grant is given back and granted again; with a limit of 2 and model
  calls of up to 2 units the remainder is positive, exactly zero, and overdrawn, and
  a child may overspend its grant; the timeout of one child lies before its parent's
  deadline, and the deadline that the other asks for behind it;
* three calls on two slots: one waits while one is past the breaker and another
  fails; two steps let the breaker meet a tool that tripped earlier;
* two Sends with a restart reach every order of threaded reply, compaction,
  refused thread, fallback and resume, and a turn after a fatal tool;
* four lines are the least for a second session with a prompt beside an endless
  one, and for a close and a ping beside one; they also are two prompts and a
  snapshot, or a close among prompts, that wait for each other; a prompt or a
  second close with the stale id while another session opens. Two updates of each
  run are the least that could alternate;
* two calls and a server that repeats the answer to the previous request are
  the least in which an answer can reach the wrong call;
* two retries make `prev` the result of an earlier wait, and three are the least
  in which the waits of `Decide` double twice;
* two shells are the one that is given up and the one that replaces it; `create`,
  `exec` and `close` are all that a container sees, in every overlap;
* three runs form a chain and a fork, so a failed subagent is nested and has a
  sibling; two steps show spans of a finished step;
* two prefixes and names that join to the same one are the least collision; the
  types hold every kind, and each tag and each way to embed once, and the values
  every mistake one level deep;
* two pieces of each text show an order, and two calls let their pieces
  interleave; of the finish reasons two are known and one is not;
* two compactions are the least in which a block meets an earlier one, and three
  tool calls let a record be written, pushed out of the kept turns, and replaced
  or forgotten by the other agent while the summary is made. The budget holds
  both texts of the highest salience and not everything else, so that ranking
  and cutting matter. The agents are interchangeable and the run checks
  safety properties only (invariants, an action property that treats all agents
  alike, and `ImplementsStore`, which is not about agents), so the symmetry is sound.

Properties that hold by the shape of the model are not listed. Every property
of a run has a *mutant* in `PROJECT.json`: a variation of one mapped definition,
defined just before it in the module, under which the property is violated.

### Fairness

Each module's fair specification (`FairSpec`, `FairWorkflow`, `FairStream`) assumes weak fairness for its own goroutines: the Go
scheduler runs a goroutine that can go on. Two modules assume strong fairness:
`ModelClient` (in `ModelCalls`) for taking a slot, since senders on a Go channel
queue in order of arrival, and `Shell` (in `Sandboxes`) for the call that waits for the mutex, since `sync.Mutex`
hands over to waiters in starvation mode. Tools, model calls and steps are
assumed to return, except those in `Hanging` (and prompts that hang, and shell
commands), which return only when they are canceled, or never. `ToolFanout` assumes of
the model call only that it returns once its context is canceled. Nothing is
assumed of clients, callers, or MCP servers: nobody has to cancel, close, answer
or exit. In `McpClient` a running server goes on reading and writing, and
`onClose` kills one that does not exit. `Stream` assumes only that the reader
goes on once the body has ended or broken; nothing makes the server send or end.
`Decisions` assumes that a request ends (`http.Client.Timeout` is set) and that
timers fire; `OneShot` that timers fire and `exec.Cmd` does its part, but nothing
of commands and what they leave behind, so `EveryExecReturns` excepts an `Exec`
whose output a descendant still holds. `SharedMemory`, `FileStore`, `RunTrace`,
`Toolset` and `Toolbox` check no liveness.

Deadlock is checked in every run; states in which everything has returned have
an explicit stuttering step.

## 4. What TLAPS proves

All theorems hold for every value of the constants that the modules' named
assumptions admit.

**BudgetTreeProofs.** `SpendBound`: usage plus reservations of a run exceed its
limit by less than one model call per concurrently running tool, for any tree,
any number of dimensions and any width. This makes exact the slack that the
comment of `childBudget` calls inherent. It is not inductive: while a funded
child runs, it may overspend its grant by one call, and that must already be
accounted for. `Potential` therefore adds `MaxUse - 1` for each funded child in
flight; a child is funded only out of a positive remainder, so granting to it
spends one unit of slack which `SemaphoreBound` says is there. `Ledger` says
that `reserved` is the sum of outstanding grants, stated as the existence of
partial sums (`PartialSums`), with lemmas for adding and removing one summand
(`SumAdd`, `SumRemove`). `ReservedIsExact` says the same with the sum that TLC
computes, of which `InductionTheorems` shows that it is the one there is. `ChildBound` ties a child to its grant, or to a deadline that has
passed when nothing was left. From the same invariant follow `ChildBounded` (a
child started by an exhausted parent spends nothing) and `GrantReserved` (the
clamp at zero in `settleChild` never acts). `TypeCorrect` is proved first.
`DeadlinesNest` has an invariant of its own next to it, `DeadlineOrder`: a
subagent's deadline is no later than its parent's, or has passed already, which is
the case of a deadline made up for an exhausted budget.

**FanoutProofs.** About `ToolFanout`. `BreakerBounded`: a tool fails at most
`MaxToolErrors + width - 1` times. The invariant counts the calls that are past
the breaker but have not reported (`AdmittedBound`), which the semaphore bounds
(`SlotsBound`).

And about `Workflow`. `ValidationExact`: `validate` accepts exactly the graphs
with known names and no cycle. A cycle is stated as a *knot*, a nonempty set
each of whose members depends on a member, which needs no paths. Kahn's
invariant is `IndegCounts`, `QueueExact` and `KnotsUnvisited`; when the queue is
empty, the steps that were not visited form a knot (`LeftoverKnot`).
`RunNeverStuck` (in an accepted graph there is always a step to run,
`ReadyExists`), `InputsAreReady`, `StepsRunOnce`, and
`ErrorsAreCauses`: a context that the caller did not cancel was canceled for an error
that is there already (`CancelHasCause`), so a step that failed because of it is not
the first.

**SessionProofs.** `ModelSeesWholeHistory`: every request shows the model the
history, whole and once. The state is split: the provider holds a prefix for each
response, the session the id of the response to continue and how far it reaches.
`ThreadMatches` says the two fit, `RequestMatches` that a request in flight adds
exactly what is missing; both hold because compaction, fallback and resume drop
the thread. `ThreadingRefines` uses the same invariant to map each step of the
threaded session to a step of the plain one, or to a stutter (the refused thread).
`CallsAreAnswered` needs a second invariant, `PairInv`. `CallsAnswered` speaks of
the moments when the model is asked, but a snapshot may be taken at any other;
`WellMade` therefore describes every history there is, including the one in the
snapshot: each result stands behind its call with only results between, or right
behind the summary (`Placed`, which a second cut preserves), and each open message
is followed by the user or ends the history (`Interrupted`, `Pending`). With
`ParallelTools`, open messages are counted: the one whose tools are running does
not count (`GivenUp`), and a snapshot may hold one more than the restarts so far.

And about `RunTrace`. `SpansStayEnclosed`: nothing is open below an ended span, and a
finished trace is whole, for any number of runs, steps and calls, in parallel or one by
one, on every path by which a run returns. `TraceIInv` says why. `Holds` is what a run
has still to end, read off where it stands. `Marked`: the open spans are exactly those
some run holds, and an open child is under a span that the same run holds (`Under`), so
ending is a matter of one run; runs hold nothing in common (`Apart`). `Forest`: the
spans are trees, each span with one earlier parent, whose roots are the traces not
grafted yet. `Waiting`: a subagent that has not returned is waited for by a call of an
earlier run, and no two by the same call; so when the caller's run is over, the first
subagent that is not would be waited for by one that is over (`AllReturned`).
`OneByOne` is needed because without `ParallelTools` a fatal call ends the step while
others were never made: none of those has a span. The proof has one lemma per way the
tree changes (`MarkedChild`, `MarkedGraft`, `MarkedEnd`, `ForestChild`, ...), one about
runs that move (`RunsMove`), and one per action.

**RpcServerProofs.** `RunsAreExclusive` from `LocksExact`. `UpdatesAreGrouped`
from `StreamsExact`: updates are written by the line that holds the session's mutex,
and of a line that has given it back none is still to come. `ClosedIsClosed`
is the hard one, because an id leaves the table in one step, is acknowledged in
another, and is given out and stored in two. `Settled` says that nobody is still
about to store a session under an id; `TableExact`, that ids in the table and
ids on their way to an acknowledgement are settled, so a closed one stays absent.
It rests on `IdsExact`: no id is given out twice.

**McpClientProofs.** `AnswersReachTheirCalls`: a call returns its own answer,
and the reader never sends to a channel that is full, so that it cannot block
there. `IdsExact` makes ids name calls, `MessagesFaithful` follows them through
both pipes and the server, which may repeat or withhold answers, and `Routed` says
why one answer fits: a registered call has an empty channel, and the reader removes
it from the table before it sends. `PendingDoesNotGrow` comes with it.

And about `Toolset`. `CallsReachTheirTool`: whatever servers list and prefixes make of
it, a name the model was shown reaches the tool it was shown for. `ListedSoFar` follows
the lists from page to page and server to server (`Lists`: next to each other, in order);
`AgentMade` says that no name is in an agent's table twice.

**ServiceProofs.** About `FileStore`, under the assumption `NamesApart` that no two namespaces
share a file (section 6 says what happens otherwise). `NamesWithoutAwkward` shows
that ordinary names satisfy it. `AcknowledgedOnDisk`, by `CacheMatches` (a loaded
map and its file agree on the ids whose last write was acknowledged) and
`OpMatches` (what `Rename` is about to put on disk is what the caller wrote).
`StoreRefines`: every step of the file store is one of `DurableStore` or a stutter.

About `SharedMemory`. `BlocksComeBeforeSummaries` by `HistoryOK` (the instructions come
first), `BlocksOrdered` (blocks are among the leading system messages, none is newer than
the store, and one made now shows what is current) and `CompactionOK` (a compaction under
way has the head of the history it started from, with the summary behind it, wherever the
other agents are). `ImportantStaysInView` has the
hypothesis `BudgetHolds`: the budget is unlimited, or the lines of everything that
`remember` can file fit into it; a budget that does not hold the most important facts
shows only some of them, as it should. The ranking is a choice of an order, so the
proof shows that finitely many records with different times have one, and that what is
important comes first in it (`RecordsOK`); and that a part of a sum of costs is no more
than the sum. Both are inductions over finite sets, in `InductionTheorems`.

About `ModelCalls`. `SlotsHeldExactly` and half of `WaitsAreBounded` by the `IInv` of
`ModelClient`; the other half by `WaitsDouble` of `Decisions`: the waits are the first
one doubled again and again, so they add up to less than twice the last.
`StreamsAsGenerate`: `SentWithin` says how much of a chat reply is on its way,
`Accumulated` and `Shown` that the reader and the host have what was sent, in order,
each piece in its own call; `FinalMade`, that the final chunk of a chat stream is made
of that, and the one of a Responses stream of its completed frame, and that no other
replaces it.

**InductionTheorems.** The provers cannot use an induction rule with a predicate for a
parameter. They can use one with a *set*: `LeastOf` and `NatSetInduction` follow from
the well-foundedness of the natural numbers, and a proof by induction is one that the
set of numbers of which the claim holds is everything. From that follow that a sum over
a finite set is what its recursive definition says, and what it means to take a member
out (`SumType`, `SumSame`, ...); and that a finite set with a total order can be ranked.

**SandboxProofs.** About `Sandboxes`, whichever provider is chosen: the steps of
one do not disturb the invariant of the other. For the shell, `ShellShape` (only the
newest shell may have a process; the mutex belongs to the call in `Exec`) and
`ScriptShape` (a shell is idle and silent unless a call waits, and then it executes
that call's script or has printed that call's marker) give `NoLineIsStray`,
`GivenUpIsGone` and `ShellIsIdleOrAwaited`. For the one-shot sandboxes
`OneShotIInv` describes one job (`Concluded`, `ReapedRight`, `Captured`) and what
a job says about the container (`ContainerMatches`), and gives `ResultsAreHonest`.
The theorems do not use fairness, so they are stated of `SafetySpec` or follow from it.

**Only model-checked:**

* all liveness properties: `ENABLED` and fairness are out of this prover's reach;
* `SummaryExact` and `OutputConforms`, which walk traces, types and JSON values with
  recursive operators that the prover does not take.

## 5. A disagreement shown by a run

* `budget_nested_rollup`: a subagent reports only its own session's usage, so
  what *its* subagents spent never reaches the top. `UsageRollsUp` fails with two
  levels of subagents.

## 6. Disagreements met while modelling

The models contain this behaviour; no run is listed for it.

* `budget.go:9` says limits are enforced "after each model call"; `runWith` only
  checks before a step, so the tools of the call that used up the budget run.
* `agent.go:86`: "further calls to it are refused", but a call waiting for its
  approval when the breaker opens still runs. `BreakerBound` is what remains.
* `events.go:10`: events come "synchronously on the run goroutine"; with
  `ParallelTools` handlers overlap.
* `events.go:94`: `ErrorEvent` fires "when the run terminates with an error";
  it also fires before a repair.
* `message.go:31`: a tool message links "back to the ToolCall it answers";
  compaction (`compaction.go:99`) may cut between an assistant message and its
  tool results, and the next request then has a result without its call.
* `message.go:31` again: without `ParallelTools` a fatal tool ends the calls of its
  message (`runToolCalls`), and those behind it stay without an answer in the
  history that the next `Send` shows to the model.
* `workflow.go:91`: steps run "as soon as their dependencies complete"; they
  wait for the whole wave. `workflow.go:85`: usage "across all agent steps"
  lacks that of failed ones.
* `rpc/server.go:44`: the context is "canceled when the connection ends"; at the
  end of input `Serve` first waits for runs that nothing cancels.
* `mcp/jsonrpc.go:133`: a call waits for "the response, ctx, or connection
  close", but `write` looks at no context. Lines 96-97: requests are declined
  "instead of hanging the server", but the reader writes the decline itself, and
  with full pipes reader and server wait for each other.
* `openai/openai.go:38`: without jitter waits double; `nextWait` returns `Base`
  whenever the previous wait is `Base`, which is what it starts with, so they
  stay `Base`. Line 121: `WithMaxConcurrency` caps "requests"; streams take no
  slot (`SlotsExact` is about calls only).
* `openai/responses_stream.go:65-70`: what a Responses stream shows the host is not
  what it records. The deltas are handed on as they come, the message is that of
  `response.completed`, and in `responses_stream_test.go` the reasoning that was
  streamed is missing in it.
* `openai/stream.go:139`: a body that ends early without an error yields a
  successful response, of what has arrived (Chat Completions) or empty
  (Responses). The other way round, a read error after the final chunk discards
  a complete response (`run.go:291` reads on until `io.EOF`).
* `memory/store_file.go:15`: "one JSON file per namespace"; `safeFilename` is not
  injective, so namespaces `a/b` and `a_b` share a file and overwrite each
  other's acknowledged records. Run `memory` has namespaces with files of their
  own (`NamesApart`).
* `memory/compactor.go:68-72`: the block goes "before any summary the inner
  appends"; that is so of the summary just made (`BlockBeforeSummary`). The summaries
  and blocks of earlier compactions count as leading system messages and stay in
  front of the new block. `preamble.go:9`: "the Compactor can recognize it"; it
  does not, and old blocks pile up.
* `memory/tools.go:133`: an `update_todo` without id is "to create a new one"; the
  id is that of the content, so it may overwrite a todo whose text was changed
  since.
* `sandbox/shell.go:36`: a command that exits the shell terminates "its process
  group"; `Exec` only forgets the shell. Line 198: "Per-command" exports stay
  set in the shell.
* `sandbox/sandbox.go`: "Go errors are reserved for commands that could not run";
  a canceled one-shot command returns exit code -1 and no error, a timed-out one
  an error.
* `sandbox/local.go:101`: the timeout kills the process only and sets no
  `WaitDelay`, so `Exec` waits for descendants that hold its output. One that has redirected
  it goes on when `Exec` has returned, also after a timeout; likewise in a container
  (`sandbox/docker.go:129`), until `Close` removes that.
  `sandbox/docker.go`: only the client is killed, the command goes on in the
  container; a `Create` that is given up may leave a container behind; `Close`
  does not look at the exit code of `docker rm`.
* `trace.go`: `SpanModel` is "a single model call", but the span also covers the
  second call of the threading fallback. Calls of a compactor's model are in no
  trace and no budget. Spans are written without `Trace.mu`.
* `schema/validate.go:26` says the subset that `For` emits is supported, and
  `output.go:22-25` that an answer is validated against it; `For` emits
  `additionalProperties` for a map (`schema.go:89`), and `Validate` does not look at
  it, so that the values of a map are decoded only: a map of structs takes
  `{"e": {"a": null}}` although the struct requires a string for `a`. `schema.go:106` skips an
  embedded struct of an unexported type, whose fields `encoding/json` decodes all the
  same. An `enum` tag on a field that is not a string rejects every value, an embedded
  struct declared after a field of the same name replaces it, and arrays of bytes are
  described as base64 strings. Numbers such as `1.0` pass `Validate` for an integer and
  fail to decode. Run `tools` has maps of structs and such an embedded struct, and
  `OutputConforms` leaves open what the code leaves open there; it has no types with
  the other tags and collisions.
* `mcp/client.go:185`: `ListTools` goes on for as long as the server sends
  cursors.
* `jev/jev.go:130`: a negative `WithMaxRetries` sends nothing, and `Decide` then
  reports a decoding error.

## 7. Plan

Order: the run loop and what it shares between goroutines first (budgets,
fan-out, session), then the packages that wait for the outside (workflow, rpc,
mcp, model client), then storage and sandboxes, then what surrounds a run (traces,
tools, output). That is done. Next:

1. State the walks of `TraceWalks` as recursive functions over spans, numbered from the
   leaves, so that `SummaryExact` can be proved from `Forest`.
2. Compose more: `BudgetTree` and `ToolFanout`, so that a fan-out's calls are the
   subagents; `Session` with the compactor of `SharedMemory`; the classification
   of deadline errors in `classifyContextErr`, which needs both clocks.

## 8. Abstractions, and what is not modelled

* Texts, arguments, results, prompts, schemas and wire formats are left out;
  messages are identities with the links between them.
* Cost is an integer, though the code uses `float64`.
* The compactor acts whenever it likes, since sizes are not modelled.
* A snapshot that no restart can use any more is left out of `Session`.
* `FileStore` models the end of the process, not of the machine (no `fsync`).
* In `Stream` the server opens its tool calls in the order of their indices, and
  frames that do not parse, which `Recv` skips, are left out.
* In `SharedMemory` a rendered record is a cost per line, no two writes have the
  same time, and the hash of a record's content has no collisions.
* A dependency that a step lists twice is counted once in `Workflow`.
* In `OneShot` arguments, environment and directories are left out, and the exit
  codes are 0, not 0 and -1. A `docker exec` that nobody kills ends when its command
  does.
* In `RunTrace` what the loop decides from (budgets, the breaker, threading) is a
  choice; the modules above model it.
* In `Schema` no two fields of a struct have the same name, numbers are counted in
  halves, and the syntax of tags, descriptions
  and formats are left out.
* In `Decisions` a request and its answers are left out; the Duration of a wait
  overflows only after 36 retries, which would take years.
* Not modelled, as they convert data or do I/O without state over several
  operations: the encoding of requests and messages (`toWireMessages`,
  `toRespInput`, which drops empty assistant messages), questions and answers of
  jev, `OutputFromSchema`, logging and metrics of events, dotenv, the scripted
  test model, the command line, the examples.
