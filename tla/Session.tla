------------------------------ MODULE Session ------------------------------
(***************************************************************************)
(* A session and its run loop: runWith of run.go over the conversation of  *)
(* session.go, with Responses threading, compaction (compaction.go), output*)
(* repair, and snapshot and resume (persistence.go).                       *)
(*                                                                         *)
(* A message is its role and an identity; an assistant message also says   *)
(* how many tools it calls, a tool message which call it answers.  What    *)
(* the model replies, when it fails, and how large messages are (hence     *)
(* when the compactor acts) is left open.  Budgets are those of BudgetTree *)
(* and the fan-out that of ToolFanout: here a check fails or not, and the  *)
(* tool messages of a response arrive together, as runWith appends them.   *)
(***************************************************************************)
EXTENDS Integers, Sequences, FiniteSets

CONSTANTS
    ResponsesThreading, \* Config.ResponsesThreading with a model that threads
    Compaction,         \* Config.Compactor is set
    KeepRecent,         \* SummarizingCompactor.keepRecent()
    HasOutput,          \* Config.Output is set
    OutputRepairs,      \* Config.OutputRepairAttempts
    MaxSteps,           \* Config.MaxSteps
    ParallelTools,      \* Config.ParallelTools
    MaxCalls,           \* bound: tool calls in one response
    MaxTurns,           \* bound: Send calls
    MaxRestarts         \* bound: process restarts

ASSUME FlagAssumption == {ResponsesThreading, Compaction, HasOutput, ParallelTools} \subseteq BOOLEAN
ASSUME BoundAssumption ==
    /\ KeepRecent \in Nat \ {0} /\ OutputRepairs \in Nat /\ MaxSteps \in Nat
    /\ MaxCalls \in Nat /\ MaxTurns \in Nat /\ MaxRestarts \in Nat

VARIABLES
    history,            \* Session.history
    lastResponseID,     \* Session.lastResponseID, 0 for ""
    threadSentIdx,      \* Session.threadSentIdx
    threadingDisabled,  \* Session.threadingDisabled
    server,             \* the provider: server[id] is the context of response id
    pc,                 \* "idle", "top", "compact", "build", "model", "retry", "repair", "tools"
    step,               \* the loop counter of runWith
    repairsLeft,        \* runWith's repairsLeft
    request,            \* the request in flight: previous response and messages
    reason,             \* StopReason of the last Send
    fresh,              \* the next message identity
    turns,              \* Send calls so far
    restarts,           \* restarts so far
    snapshot            \* the SessionState the host keeps

sessionVars == <<history, lastResponseID, threadSentIdx, threadingDisabled>>
runVars == <<step, repairsLeft, reason>>
hostVars == <<turns, restarts, snapshot>>
vars == <<sessionVars, server, pc, runVars, request, fresh, hostVars>>

Message(role, id) == [role |-> role, id |-> id, asks |-> 0, answers |-> <<0, 0>>]
Assistant(id, n) == [role |-> "assistant", id |-> id, asks |-> n, answers |-> <<0, 0>>]
ToolResult(id, k) == [role |-> "tool", id |-> 0, asks |-> 0, answers |-> <<id, k>>]

Instructions == Message("system", 0)
NoRequest == [prev |-> 0, msgs |-> <<>>]

Suffix(s, n) == SubSeq(s, n + 1, Len(s))

-----------------------------------------------------------------------------
(* Responses threading                                                     *)

ThreadingActive == ResponsesThreading /\ ~threadingDisabled

FullRequest == [prev |-> 0, msgs |-> history]

\* buildRequestLocked: continue the last response with what is new, or send all.
BuildRequest ==
    IF ThreadingActive /\ lastResponseID # 0 /\ threadSentIdx <= Len(history)
    THEN [prev |-> lastResponseID, msgs |-> Suffix(history, threadSentIdx)]
    ELSE FullRequest

\* What the model is shown: the stored context, if any, and the messages sent.
View == (IF request.prev = 0 THEN <<>> ELSE server[request.prev]) \o request.msgs

-----------------------------------------------------------------------------
(* Compaction                                                              *)

\* The number of leading system messages, which Compact keeps.
Prefix == CHOOSE n \in 0 .. Len(history) :
              /\ \A i \in 1 .. n : history[i].role = "system"
              /\ n < Len(history) => history[n + 1].role # "system"

\* Compact: the prefix, a summary in place of the older messages, the last
\* KeepRecent ones; nothing changes while there are no more than those.
Compacted ==
    IF Len(history) - Prefix <= KeepRecent THEN history
    ELSE SubSeq(history, 1, Prefix) \o <<Message("system", fresh)>>
            \o Suffix(history, Len(history) - KeepRecent)

-----------------------------------------------------------------------------
Init ==
    /\ history = <<Instructions>>
    /\ lastResponseID = 0
    /\ threadSentIdx = 0
    /\ threadingDisabled = FALSE
    /\ server = <<>>
    /\ pc = "idle"
    /\ step = 0
    /\ repairsLeft = 0
    /\ request = NoRequest
    /\ reason = "none"
    /\ fresh = 1
    /\ turns = 0
    /\ restarts = 0
    /\ snapshot = <<Instructions>>

\* An agent with an output schema repairs at least once (New in agent.go).
InitialRepairs == IF HasOutput /\ OutputRepairs = 0 THEN 1 ELSE OutputRepairs

\* Send: append the user's message and enter the loop.
Send ==
    /\ pc = "idle" /\ turns < MaxTurns
    /\ turns' = turns + 1
    /\ history' = Append(history, Message("user", fresh))
    /\ fresh' = fresh + 1
    /\ step' = 0
    /\ repairsLeft' = InitialRepairs
    /\ reason' = "none"
    /\ pc' = "top"
    /\ UNCHANGED <<lastResponseID, threadSentIdx, threadingDisabled, server, request, restarts, snapshot>>

\* runWith returns, with an error or without.
EndRun(r) ==
    /\ reason' = r
    /\ pc' = "idle"
    /\ request' = NoRequest
    /\ UNCHANGED <<step, repairsLeft>>

\* The top of the loop: the context, then the step limit, then the budget.
TopOfLoop ==
    /\ pc = "top"
    /\ \/ \E r \in {"canceled", "budget"} : EndRun(r)
       \/ step >= MaxSteps /\ EndRun("max_steps")
       \/ /\ step < MaxSteps
          /\ pc' = "compact"
          /\ UNCHANGED <<runVars, request>>
    /\ UNCHANGED <<sessionVars, server, fresh, hostVars>>

\* maybeCompact: not due, or failed, or history replaced and the thread dropped.
NoCompaction ==
    /\ pc = "compact"
    /\ pc' = "build"
    /\ UNCHANGED <<sessionVars, server, runVars, request, fresh, hostVars>>

\* A mutant of Compact: the thread is not dropped.
CompactKeepsThread ==
    /\ pc = "compact" /\ Compaction
    /\ history' = Compacted
    /\ fresh' = fresh + 1
    /\ lastResponseID' = lastResponseID
    /\ threadSentIdx' = threadSentIdx
    /\ pc' = "build"
    /\ UNCHANGED <<threadingDisabled, server, runVars, request, hostVars>>

Compact ==
    /\ pc = "compact" /\ Compaction
    /\ history' = Compacted
    /\ fresh' = fresh + 1
    /\ lastResponseID' = 0
    /\ threadSentIdx' = 0
    /\ pc' = "build"
    /\ UNCHANGED <<threadingDisabled, server, runVars, request, hostVars>>

StartStep ==
    /\ pc = "build"
    /\ request' = BuildRequest
    /\ pc' = "model"
    /\ UNCHANGED <<sessionVars, server, runVars, fresh, hostVars>>

\* The provider refuses the previous response id: threading is switched off for
\* good and the same step is tried again with the whole history.
RejectThread ==
    /\ pc = "model" /\ request.prev # 0
    /\ threadingDisabled' = TRUE
    /\ lastResponseID' = 0
    /\ threadSentIdx' = 0
    /\ request' = FullRequest
    /\ pc' = "retry"
    /\ UNCHANGED <<history, server, runVars, fresh, hostVars>>

\* A mutant of GenerateFails: retries without a bound.
GenerateFailsRetriesForever ==
    /\ pc \in {"model", "retry"}
    /\ pc' = "build"
    /\ UNCHANGED <<sessionVars, server, runVars, request, fresh, hostVars>>

\* Any other failure of the call, a canceled context included.
GenerateFails ==
    /\ pc \in {"model", "retry"}
    /\ \E r \in {"error", "canceled", "budget"} : EndRun(r)
    /\ UNCHANGED <<sessionVars, server, fresh, hostVars>>

\* The part of the loop that every successful call goes through: record the
\* reply and, with threading, the response to continue.  withID says whether
\* the provider returned a response id.
RecordReply(reply, withID) ==
    /\ history' = Append(history, reply)
    /\ fresh' = fresh + 1
    /\ server' = Append(server, Append(View, reply))
    /\ lastResponseID' = IF ThreadingActive
                         THEN IF withID THEN Len(server) + 1 ELSE 0
                         ELSE lastResponseID
    /\ threadSentIdx' = IF ThreadingActive THEN Len(history) + 1 ELSE threadSentIdx
    /\ step' = step + 1
    /\ request' = NoRequest
    /\ UNCHANGED <<threadingDisabled, hostVars>>

\* The reply calls n tools.
ReplyWithCalls(n, withID) ==
    /\ pc \in {"model", "retry"} /\ n > 0
    /\ RecordReply(Assistant(fresh, n), withID)
    /\ pc' = "tools"
    /\ UNCHANGED <<repairsLeft, reason>>

\* The reply is the answer.
ReplyWithAnswer(withID) ==
    /\ pc \in {"model", "retry"}
    /\ RecordReply(Assistant(fresh, 0), withID)
    /\ pc' = "idle"
    /\ reason' = "stop"
    /\ UNCHANGED repairsLeft

\* The reply does not satisfy the output schema: ask for a repair, while any
\* attempt is left, or fail.
ReplyInvalid(withID) ==
    /\ pc \in {"model", "retry"} /\ HasOutput
    /\ RecordReply(Assistant(fresh, 0), withID)
    /\ \/ /\ repairsLeft > 0
          /\ repairsLeft' = repairsLeft - 1
          /\ pc' = "repair"
          /\ UNCHANGED reason
       \/ /\ repairsLeft = 0
          /\ pc' = "idle"
          /\ reason' = "error"
          /\ UNCHANGED repairsLeft

\* The repair prompt is appended once Session.mu is held again: the server has
\* not seen it, and a snapshot may be taken before it.
AskRepair ==
    /\ pc = "repair"
    /\ history' = Append(history, Message("user", fresh))
    /\ fresh' = fresh + 1
    /\ pc' = "top"
    /\ UNCHANGED <<lastResponseID, threadSentIdx, threadingDisabled, server, runVars, request,
                   hostVars>>

LastAssistant == history[Len(history)]

Answers(n) == [k \in 1 .. n |-> ToolResult(LastAssistant.id, k)]

\* runToolCalls returned the results of all calls of the reply.
ToolsAnswer ==
    /\ pc = "tools"
    /\ history' = history \o Answers(LastAssistant.asks)
    /\ pc' = "top"
    /\ UNCHANGED <<lastResponseID, threadSentIdx, threadingDisabled, server, runVars, request,
                   fresh, hostVars>>

\* A mutant of FatalStops: a parallel fan-out drops results.
FatalStopsAtOnce(n) == n \in 1 .. LastAssistant.asks

\* A tool was fatal: the run ends with the results there are, which is all of
\* them when the calls ran in parallel and else those up to the fatal one.
FatalStops(n) == n \in 1 .. LastAssistant.asks /\ (ParallelTools => n = LastAssistant.asks)

ToolsFatal ==
    /\ pc = "tools"
    /\ \E n \in 1 .. MaxCalls : FatalStops(n) /\ history' = history \o Answers(n)
    /\ EndRun("error")
    /\ UNCHANGED <<lastResponseID, threadSentIdx, threadingDisabled, server, fresh, hostVars>>

\* The host takes a snapshot.  Only Session.mu is needed for that, so it may
\* happen in the middle of a run.  One that no restart can use is left out.
Snapshot ==
    /\ restarts < MaxRestarts
    /\ snapshot # history
    /\ snapshot' = history
    /\ UNCHANGED <<sessionVars, server, pc, runVars, request, fresh, turns, restarts>>

\* A mutant of Resume: the thread outlives the history it belongs to.
ResumeKeepsThread ==
    /\ restarts < MaxRestarts
    /\ restarts' = restarts + 1
    /\ history' = snapshot
    /\ lastResponseID' = lastResponseID
    /\ threadSentIdx' = threadSentIdx
    /\ threadingDisabled' = threadingDisabled
    /\ pc' = "idle"
    /\ request' = NoRequest
    /\ reason' = "none"
    /\ UNCHANGED <<server, step, repairsLeft, fresh, turns, snapshot>>

\* The process stops at any point and a new one resumes from the snapshot.
Resume ==
    /\ restarts < MaxRestarts
    /\ restarts' = restarts + 1
    /\ history' = snapshot
    /\ lastResponseID' = 0
    /\ threadSentIdx' = 0
    /\ threadingDisabled' = FALSE
    /\ pc' = "idle"
    /\ request' = NoRequest
    /\ reason' = "none"
    /\ UNCHANGED <<server, step, repairsLeft, fresh, turns, snapshot>>

\* Nothing left to do within the bounds.
Quiet == pc = "idle" /\ turns = MaxTurns /\ UNCHANGED vars

RunStep ==
    \/ TopOfLoop
    \/ NoCompaction
    \/ Compact
    \/ StartStep
    \/ RejectThread
    \/ GenerateFails
    \/ \E withID \in BOOLEAN :
          \/ \E n \in 1 .. MaxCalls : ReplyWithCalls(n, withID)
          \/ ReplyWithAnswer(withID)
          \/ ReplyInvalid(withID)
    \/ AskRepair
    \/ ToolsAnswer
    \/ ToolsFatal

Next == Send \/ RunStep \/ Snapshot \/ Resume \/ Quiet

Spec == Init /\ [][Next]_vars

\* The run goroutine is scheduled, and model calls and tools return.
FairSpec == Spec /\ WF_vars(RunStep)

-----------------------------------------------------------------------------
(* Properties                                                              *)

Asking == pc \in {"model", "retry"}

Roles == {"system", "user", "assistant", "tool"}
Messages == [role : Roles, id : Nat, asks : Nat, answers : Nat \X Nat]

\* TypeOK: the shape of the state.
TypeOK ==
    /\ history \in Seq(Messages)
    /\ lastResponseID \in Nat
    /\ threadSentIdx \in Nat
    /\ threadingDisabled \in BOOLEAN
    /\ server \in Seq(Seq(Messages))
    /\ pc \in {"idle", "top", "compact", "build", "model", "retry", "repair", "tools"}
    /\ step \in Nat /\ repairsLeft \in Nat
    /\ request.prev \in Nat /\ request.msgs \in Seq(Messages)
    /\ reason \in {"none", "stop", "max_steps", "error", "canceled", "budget"}
    /\ fresh \in Nat /\ turns \in Nat /\ restarts \in Nat
    /\ snapshot \in Seq(Messages)

\* Threading never hides or repeats a message: whatever is sent, the model is
\* shown the session's whole history, with the agent's instructions first,
\* however often that was compacted or resumed.
ModelSeesHistory == Asking => View = history /\ history # <<>> /\ history[1] = Instructions

\* The calls of message i of history h are answered right behind it, in their order.
Answered(h, i) ==
    \A k \in 1 .. h[i].asks :
        i + k <= Len(h) /\ h[i + k].answers = <<h[i].id, k>>

Open(h) == {i \in 1 .. Len(h) : ~ Answered(h, i)}

\* The first n calls of message i are answered, none if calls run in parallel.
AnsweredUpTo(h, i, n) ==
    /\ \A k \in 1 .. n : h[i + k].answers = <<h[i].id, k>>
    /\ ParallelTools => n = 0

\* The user's next message follows what answers there are to message i.
Interrupted(h, i) ==
    \E n \in 0 .. h[i].asks - 1 :
        i + n < Len(h) /\ h[i + n + 1].role = "user" /\ AnsweredUpTo(h, i, n)

\* Message j answers the call that stands where it belongs, before it.
HasCall(j) ==
    LET i == j - history[j].answers[2]
    IN  i > 0 /\ history[i].role = "assistant" /\ history[i].id = history[j].answers[1]

\* Message j stands where Compact cut: only results lie between the leading
\* system messages and it.
AtCut(j) == \A i \in Prefix + 1 .. j : history[i].role = "tool"

\* Whenever the model is asked, calls and results pair up: each call is answered
\* once and in order (run.go), whatever was compacted, refused or resumed, with
\* the three exceptions the code has.  Compact (compaction.go) may cut a result
\* off from its call, only right behind the summary.  A snapshot (persistence.go)
\* may be taken while tools run: each restart leaves at most one message without
\* answers.  Calls made one after another end with a fatal one, and those behind
\* it have none (runToolCalls).  The user's next message follows what there is.
CallsAnswered ==
    Asking =>
        /\ \A j \in 1 .. Len(history) : history[j].role = "tool" => HasCall(j) \/ AtCut(j)
        /\ \A i \in Open(history) : Interrupted(history, i)
        /\ ParallelTools => Cardinality(Open(history)) <= restarts

\* Send returns, through any mix of tool rounds, repairs and retries.
SendReturns == (pc = "top") ~> (pc = "idle")

-----------------------------------------------------------------------------
(* The inductive invariant                                                 *)

\* Histories start with the agent's instructions, those that wait to be resumed too.
InstructionsFirst ==
    /\ history # <<>> /\ history[1] = Instructions
    /\ snapshot # <<>> /\ snapshot[1] = Instructions

\* The response to continue was given for the messages up to threadSentIdx.
ThreadMatches ==
    lastResponseID # 0 =>
        /\ lastResponseID <= Len(server) /\ threadSentIdx <= Len(history)
        /\ server[lastResponseID] = SubSeq(history, 1, threadSentIdx)

\* A request in flight shows the whole history; otherwise there is none.
RequestMatches ==
    /\ request.prev <= Len(server)
    /\ IF Asking THEN View = history ELSE request = NoRequest

IInv ==
    /\ TypeOK
    /\ InstructionsFirst
    /\ ThreadMatches
    /\ RequestMatches

-----------------------------------------------------------------------------
(* The inductive invariant behind CallsAnswered, next to IInv              *)

\* Message j answers a call of message i, with nothing but results between them.
CallOf(h, i, j) ==
    /\ h[i].role = "assistant" /\ h[j].answers = <<h[i].id, j - i>>
    /\ \A k \in i + 1 .. j : h[k].role = "tool"

\* Nothing but results lies between the leading system messages and message j.
BehindSummary(h, j) ==
    \E p \in 0 .. j - 1 : /\ \A k \in 1 .. p : h[k].role = "system"
                          /\ \A k \in p + 1 .. j : h[k].role = "tool"

Placed(h, j) == (\E i \in 1 .. j - 1 : CallOf(h, i, j)) \/ BehindSummary(h, j)

\* The history ends with what answers there are to message i.
Pending(h, i) == \E n \in 0 .. h[i].asks - 1 : i + n = Len(h) /\ AnsweredUpTo(h, i, n)

\* Of every history, one in a snapshot too.
WellMade(h) ==
    /\ \A i \in 1 .. Len(h) : h[i].role # "assistant" => h[i].asks = 0
    /\ \A j \in 1 .. Len(h) : h[j].role = "tool" => Placed(h, j)
    /\ \A i \in Open(h) : Interrupted(h, i) \/ Pending(h, i)

\* The open messages whose calls are not being made right now.
GivenUp == IF pc = "tools" THEN Open(history) \ {Len(history)} ELSE Open(history)

PairInv ==
    /\ WellMade(history) /\ WellMade(snapshot)
    /\ pc = "tools" => LastAssistant.role = "assistant"
    /\ pc # "idle" => \A i \in GivenUp : Interrupted(history, i)
    /\ ParallelTools => Cardinality(GivenUp) <= restarts /\ Cardinality(Open(snapshot)) <= restarts + 1

=============================================================================
