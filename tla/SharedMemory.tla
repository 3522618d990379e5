---------------------------- MODULE SharedMemory ----------------------------
(***************************************************************************)
(* The memory of a task, shared by concurrent agents: the handle           *)
(* (memory/handle.go) over the in-memory store (memory/store_mem.go,       *)
(* memory/store.go), the tools a model calls (memory/tools.go), and the    *)
(* compactor (memory/compactor.go, memory/preamble.go), which puts what the*)
(* store holds back into a history that was summarized.                    *)
(*                                                                         *)
(* An agent is one session with a handle of its own on the namespace.  A   *)
(* message is a tool call with its answer, a summary, or a recalled block; *)
(* of its text the model keeps which versions of which records it shows.   *)
(* A text stands for a record's text and tags.  CreatedAt and Data are left*)
(* out, nothing reads them; no two writes have the same time.              *)
(***************************************************************************)
EXTENDS Integers, Sequences, FiniteSets, Functions

CONSTANTS
    Agents,         \* sessions with a handle on the namespace
    Texts,          \* texts of records
    Kinds,          \* kinds the remember tool is given, "" for none
    Saliences,      \* saliences the remember tool is given, in percent
    LineCost,       \* approxTokens of the line of each text
    HeaderCost,     \* approxTokens(preambleHeader)
    PreambleBudget, \* WithPreambleBudget
    Limits,         \* limits the recall tool is given
    DefaultLimit,   \* defaultRecallLimit
    MaxLimit,       \* maxRecallLimit
    KeepRecent,     \* of the inner SummarizingCompactor
    MaxToolCalls,         \* bound: tool calls
    MaxCompactions  \* bound: compactions

ASSUME BudgetAssumption ==
    /\ HeaderCost \in Nat /\ PreambleBudget \in Nat /\ LineCost \in [Texts -> Nat]
    /\ KeepRecent \in Nat \ {0} /\ MaxToolCalls \in Nat /\ MaxCompactions \in Nat
ASSUME RecallAssumption ==
    MaxLimit \in Nat /\ DefaultLimit \in 1 .. MaxLimit /\ Limits \subseteq Int /\ Saliences \subseteq Int

VARIABLES
    recs,       \* the records of the namespace, by id
    now,        \* the clock: writes and deletions so far
    history,    \* each agent's messages
    phase,      \* of each agent: "running", or in Compact: "summarizing", "recalling"
    head,       \* Compact's count of leading system messages
    out,        \* what the inner compactor returned
    toolCalls, compactions \* counted against the bounds

compactVars == <<phase, head, out, compactions>>
memoryVars == <<recs, now, history, compactVars, toolCalls>>

Message(role, what, shows) == [role |-> role, what |-> what, shows |-> shows, at |-> now]
Instructions == [role |-> "system", what |-> "instructions", shows |-> {}, at |-> 0]

InitMemory ==
    /\ recs = [i \in {} |-> {}]
    /\ now = 0
    /\ history = [a \in Agents |-> <<Instructions>>]
    /\ phase = [a \in Agents |-> "running"]
    /\ head = [a \in Agents |-> 0]
    /\ out = [a \in Agents |-> <<>>]
    /\ toolCalls = 0 /\ compactions = 0

-----------------------------------------------------------------------------
(* The store                                                               *)

\* contentID: a hash of kind, text and tags, taken to be without collisions.
contentID(kind, text) == <<kind, text>>

effectiveSalience(s) == IF s <= 0 THEN 50 ELSE IF s > 100 THEN 100 ELSE s

matches(r, q) == (q.kinds = {} \/ r.kind \in q.kinds) /\ r.text \in q.texts

\* A mutant of Before: the newest first, whatever the salience.
BeforeByTime(i, j) == recs[i].updated > recs[j].updated

\* rank: by salience, then the newest first.  What a text query adds to the
\* score, it adds to every record that matches.
Before(i, j) ==
    LET si == effectiveSalience(recs[i].salience)
        sj == effectiveSalience(recs[j].salience)
    IN  si > sj \/ (si = sj /\ recs[i].updated > recs[j].updated)

Ranked(ids) ==
    CHOOSE q \in [1 .. Cardinality(ids) -> ids] : \A j, k \in DOMAIN q : j < k => Before(q[j], q[k])

\* Query: the ids of the matching records, ranked, at most q.limit of them.
Query(q) ==
    LET ranked == Ranked({i \in DOMAIN recs : matches(recs[i], q)})
    IN  IF q.limit > 0 /\ Len(ranked) > q.limit THEN SubSeq(ranked, 1, q.limit) ELSE ranked

Version(i) == <<i, recs[i].updated>>
Versions(ids) == {Version(ids[k]) : k \in 1 .. Len(ids)}

\* normalize: what Put stores; a record without a salience gets the middle one.
normalize(kind, text, salience, source) ==
    [kind |-> kind, text |-> text, salience |-> IF salience = 0 THEN 50 ELSE salience,
     source |-> source, updated |-> now + 1]

\* Put: the record replaces the one with its id.
Put(id, r) ==
    /\ recs' = [i \in DOMAIN recs \cup {id} |-> IF i = id THEN r ELSE recs[i]]
    /\ now' = now + 1

\* Remember: under the id given, or that of the content; the call shows it.
Remember(a, given, kind, text, salience) ==
    LET id == IF given = <<>> THEN contentID(kind, text) ELSE given
    IN  /\ Put(id, normalize(kind, text, salience, a))
        /\ history' = [history EXCEPT ![a] =
                          Append(history[a], Message("tool", "call", {<<id, now + 1>>}))]

-----------------------------------------------------------------------------
(* The tools                                                               *)

CanCall(a) == phase[a] = "running" /\ toolCalls < MaxToolCalls /\ toolCalls' = toolCalls + 1

\* What is remembered without a kind is a fact.
KindOr(kind) == IF kind = "" THEN "fact" ELSE kind

RememberTool(a, kind, text, salience) ==
    /\ CanCall(a)
    /\ Remember(a, <<>>, KindOr(kind), text, salience)
    /\ UNCHANGED compactVars

NoteTool(a, text) ==
    /\ CanCall(a)
    /\ Remember(a, <<>>, "note", text, 0)
    /\ UNCHANGED compactVars

\* Without an id the todo is filed under its content.
UpdateTodoTool(a, id, text) ==
    /\ CanCall(a)
    /\ Remember(a, id, "todo", text, 0)
    /\ UNCHANGED compactVars

RecallLimit(n) == IF n <= 0 THEN DefaultLimit ELSE IF n > MaxLimit THEN MaxLimit ELSE n

RecallTool(a, kinds, limit) ==
    /\ CanCall(a)
    /\ LET found == Query([kinds |-> kinds, texts |-> Texts, limit |-> RecallLimit(limit)])
       IN  history' = [history EXCEPT ![a] = Append(history[a], Message("tool", "call", Versions(found)))]
    /\ UNCHANGED <<recs, now, compactVars>>

\* Forget, Delete: what is not there is deleted too.
ForgetTool(a, id) ==
    /\ CanCall(a)
    /\ recs' = [j \in DOMAIN recs \ {id} |-> recs[j]]
    /\ now' = now + 1
    /\ history' = [history EXCEPT ![a] = Append(history[a], Message("tool", "call", {}))]
    /\ UNCHANGED compactVars

-----------------------------------------------------------------------------
(* The compactor                                                           *)

leadingSystem(msgs) ==
    CHOOSE n \in 0 .. Len(msgs) :
        /\ \A k \in 1 .. n : msgs[k].role = "system"
        /\ n < Len(msgs) => msgs[n + 1].role # "system"

\* Compact of the inner SummarizingCompactor.
Summarized(msgs) ==
    LET n == leadingSystem(msgs)
    IN  IF Len(msgs) - n <= KeepRecent THEN msgs
        ELSE SubSeq(msgs, 1, n) \o <<Message("system", "summary", {})>>
                \o SubSeq(msgs, Len(msgs) - KeepRecent + 1, Len(msgs))

\* The tokens that the header and the lines of the first n records take.
TokensUsed(found, n) == HeaderCost + SumFunction([k \in 1 .. n |-> LineCost[recs[found[k]].text]])

\* The first record is always taken.
FitsBudget(found, n) == \A k \in 2 .. n : PreambleBudget > 0 => TokensUsed(found, k) <= PreambleBudget

\* Preamble: the first ranked records, up to the one whose line would exceed the budget.
Preamble(q) ==
    LET found == Query(q)
        written == CHOOSE n \in 0 .. Len(found) :
                      FitsBudget(found, n) /\ (n < Len(found) => ~FitsBudget(found, n + 1))
    IN  SubSeq(found, 1, written)

Everything == [kinds |-> {}, texts |-> Texts, limit |-> 0]

\* Compact counts the instructions and calls the inner compactor, which asks its
\* model for a summary: other agents go on meanwhile.
BeginCompact(a) ==
    /\ phase[a] = "running" /\ compactions < MaxCompactions
    /\ compactions' = compactions + 1
    /\ head' = [head EXCEPT ![a] = leadingSystem(history[a])]
    /\ phase' = [phase EXCEPT ![a] = "summarizing"]
    /\ UNCHANGED <<recs, now, history, out, toolCalls>>

EndCompact(a) ==
    /\ phase' = [phase EXCEPT ![a] = "running"]
    /\ head' = [head EXCEPT ![a] = 0]
    /\ out' = [out EXCEPT ![a] = <<>>]
    /\ UNCHANGED <<recs, now, compactions, toolCalls>>

Summarize(a) ==
    /\ phase[a] = "summarizing"
    /\ out' = [out EXCEPT ![a] = Summarized(history[a])]
    /\ phase' = [phase EXCEPT ![a] = "recalling"]
    /\ UNCHANGED <<recs, now, history, head, compactions, toolCalls>>

\* The model or the store fails: maybeCompact keeps the history it has.
CompactFails(a) ==
    /\ phase[a] \in {"summarizing", "recalling"}
    /\ UNCHANGED history
    /\ EndCompact(a)

\* A mutant of Splice: the system messages are counted when the summary is there.
SpliceBehindSummary(msgs, n, block) ==
    LET k == leadingSystem(msgs)
    IN  SubSeq(msgs, 1, k) \o <<block>> \o SubSeq(msgs, k + 1, Len(msgs))

\* The block goes where the input's system messages ended.
Splice(msgs, n, block) ==
    LET k == IF n > Len(msgs) THEN leadingSystem(msgs) ELSE n
    IN  SubSeq(msgs, 1, k) \o <<block>> \o SubSeq(msgs, k + 1, Len(msgs))

\* The store is read after the summary is there; nothing to recall, no block.
Inject(a) ==
    /\ phase[a] = "recalling"
    /\ LET recalled == Versions(Preamble(Everything)) IN
          history' = [history EXCEPT ![a] =
                         IF recalled = {} THEN out[a]
                         ELSE Splice(out[a], head[a], Message("system", "block", recalled))]
    /\ EndCompact(a)

-----------------------------------------------------------------------------
Tool(a) ==
    \/ \E text \in Texts :
          \/ \E kind \in Kinds, salience \in Saliences : RememberTool(a, kind, text, salience)
          \/ NoteTool(a, text)
          \/ \E id \in {<<>>} \cup DOMAIN recs : UpdateTodoTool(a, id, text)
    \/ \E kinds \in {{}, {"fact"}}, limit \in Limits : RecallTool(a, kinds, limit)
    \/ \E id \in DOMAIN recs : ForgetTool(a, id)

Compaction(a) == BeginCompact(a) \/ Summarize(a) \/ Inject(a) \/ CompactFails(a)

\* Nothing left to do within the bounds.
Quiet == toolCalls = MaxToolCalls /\ (\A a \in Agents : phase[a] = "running") /\ UNCHANGED memoryVars

NextMemory == (\E a \in Agents : Tool(a) \/ Compaction(a)) \/ Quiet

MemorySpec == InitMemory /\ [][NextMemory]_memoryVars

-----------------------------------------------------------------------------
(* Properties                                                              *)

\* MemoryTypeOK: the shape of the state.
MemoryTypeOK ==
    /\ now \in Nat /\ toolCalls \in 0 .. MaxToolCalls /\ compactions \in 0 .. MaxCompactions
    /\ phase \in [Agents -> {"running", "summarizing", "recalling"}]
    /\ head \in [Agents -> Nat]
    /\ \A i \in DOMAIN recs : recs[i].source \in Agents /\ recs[i].updated \in 1 .. now

\* Compactor's promise, "durable facts are not lost": a record of the highest
\* salience that an agent wrote, and nobody has replaced or forgotten since, is
\* in front of that agent's model, in the call that wrote it or in a recalled
\* block.  However many other records there are, whoever writes them, and
\* whichever step of a compaction fails.  (The budget has to hold the records of
\* the highest salience.)
ImportantInView ==
    \A a \in Agents : \A i \in DOMAIN recs :
        (recs[i].source = a /\ effectiveSalience(recs[i].salience) = 100) =>
            \E k \in 1 .. Len(history[a]) : Version(i) \in history[a][k].shows

Current == {Version(i) : i \in DOMAIN recs}

\* The message at k in g is not the one that was there in h.
Fresh(g, h, k) == ~(k \in 1 .. Len(h) /\ g[k] = h[k])

\* The message at k in g is the one of h that is as far from the end.
Kept(g, h, k) == LET m == k + Len(h) - Len(g) IN m \in 1 .. Len(h) /\ g[k] = h[m]

\* g is h compacted, and there is something to recall if "something".
CompactedTo(h, g, current, something) ==
    /\ g[1] = Instructions
    /\ something => \E k \in 1 .. Len(g) : g[k].what = "block" /\ Fresh(g, h, k)
    /\ \A k \in 1 .. Len(g) : (g[k].what = "block" /\ Fresh(g, h, k)) =>
          /\ g[k].shows \subseteq current
          /\ \A j \in 1 .. Len(g) :
                g[j].role # "system" \/ (g[j].what = "summary" /\ Fresh(g, h, j)) => k < j
    /\ \A k \in 1 .. Len(g) : g[k].role # "system" => Kept(g, h, k)

\* A compaction that changes a history leaves the instructions in front and puts the
\* recalled block before the summary that the inner compactor made, which "we must not
\* sit behind" (Compact), and before every turn.  It puts one in whenever the store holds
\* anything, the block shows nothing that other agents replaced or forgot while the summary
\* was made, and the turns it keeps are the last ones in their order.  (Of the summaries
\* and blocks of earlier compactions it says nothing: they stay in front of the new block.)
BlockBeforeSummary ==
    [][\A a \in Agents : (phase[a] = "recalling" /\ history'[a] # history[a]) =>
          CompactedTo(history[a], history'[a], Current, DOMAIN recs # {})]_memoryVars

-----------------------------------------------------------------------------
(* The inductive invariant                                                 *)

RememberIDs == {contentID(KindOr(kind), text) : kind \in Kinds, text \in Texts}
RecordIDs == RememberIDs \cup {contentID(kind, text) : kind \in {"note", "todo"}, text \in Texts}

\* The budget holds the lines of all that the remember tool can file.
BudgetHolds ==
    \/ PreambleBudget = 0
    \/ /\ IsFiniteSet(RememberIDs)
       /\ HeaderCost + SumFunction([i \in RememberIDs |-> LineCost[i[2]]]) <= PreambleBudget

Messages ==
    [role : {"system", "tool"}, what : {"instructions", "call", "summary", "block"},
     shows : SUBSET (RecordIDs \X Nat), at : Nat]

\* Records are finitely many and written at different times; only what the remember tool filed, and
\* nobody filed anew, has the highest salience.
RecordsOK ==
    /\ IsFiniteSet(DOMAIN recs) /\ DOMAIN recs \subseteq RecordIDs
    /\ \A i \in DOMAIN recs :
          /\ recs[i].text \in Texts /\ recs[i].salience \in Int
          /\ \A j \in DOMAIN recs : recs[i].updated = recs[j].updated => i = j
          /\ effectiveSalience(recs[i].salience) = 100 => i \in RememberIDs /\ recs[i].text = i[2]

\* No message is newer than the store.
HistoryOK(h, t) ==
    h \in Seq(Messages) /\ h # <<>> /\ h[1] = Instructions /\ \A k \in 1 .. Len(h) : h[k].at <= t

\* The blocks in h are among the system messages at its front, the newest the last; what a block
\* shows that was recalled at time t is current.
BlocksOrdered(h, t, current) ==
    /\ h[1] = Instructions
    /\ \A k \in 1 .. Len(h) : h[k].what = "block" =>
          /\ \A j \in 1 .. k : h[j].role = "system" /\ (h[j].what = "block" => h[j].at <= h[k].at)
          /\ h[k].at = t => h[k].shows \subseteq current

BlocksInOrder == \A a \in Agents : BlocksOrdered(history[a], now, Current)

IsHead(n, h) ==
    /\ n \in 0 .. Len(h)
    /\ \A k \in 1 .. n : h[k].role = "system"
    /\ n < Len(h) => h[n + 1].role # "system"

\* o is what the inner compactor returned for h, of which it keeps the n messages at the
\* front and the last turns; it has no further block.
IsSummary(o, n, h, t) ==
    /\ HistoryOK(o, t)
    /\ n <= Len(o)
    /\ \A k \in 1 .. Len(o) :
          IF k <= n THEN o[k] = h[k]
          ELSE o[k].what # "block" /\ (o[k].role # "system" => Kept(o, h, k))

\* A compaction has counted the system messages of the history it works on.
CompactionOK ==
    \A a \in Agents :
        /\ phase[a] # "running" => IsHead(head[a], history[a])
        /\ phase[a] = "recalling" => IsSummary(out[a], head[a], history[a], now)

MemoryIInv ==
    /\ MemoryTypeOK
    /\ RecordsOK
    /\ history \in [Agents -> Seq(Messages)] /\ \A a \in Agents : HistoryOK(history[a], now)
    /\ out \in [Agents -> Seq(Messages)]
    /\ CompactionOK
    /\ BlocksInOrder

=============================================================================
