----------------------------- MODULE TraceWalks -----------------------------
(***************************************************************************)
(* The three walks over a trace (RunTrace): Summary, JSONL (trace.go) and  *)
(* the OpenTelemetry export (otel/otel.go).                                *)
(***************************************************************************)
EXTENDS RunTrace, FiniteSets, FiniteSetsExt, SequencesExt

\* The spans below and including id, in the order all three walks visit them.
RECURSIVE Walk(_, _, _)
Walk(id, parent, depth) ==
    <<[id |-> id, parent |-> parent, depth |-> depth]>> \o
        FlattenSeq([k \in DOMAIN spans[id].kids |-> Walk(spans[id].kids[k], id, depth + 1)])

\* JSONL, WriteTo: a line for every span, with its parent and its depth.
JSONL(root) == Walk(root, NoSpan, 0)

\* exportSpan: how many spans it started.
RECURSIVE Exported(_)
Exported(id) == 1 + FoldSeq(+, 0, [k \in DOMAIN spans[id].kids |-> Exported(spans[id].kids[k])])

\* A mutant of Counted: every span adds its usage, those of runs too.
CountedAlways(sp) == sp.used

\* What a span adds to the usage of a Summary: only model spans do.
Counted(sp) == IF sp.kind = "model" THEN sp.used ELSE 0

Summary(root) ==
    LET nodes == Walk(root, NoSpan, 0)
        Sp(k) == spans[nodes[k].id]
        Of(kind) == {k \in DOMAIN nodes : Sp(k).kind = kind}
    IN  [steps |-> Cardinality(Of("step")),
         models |-> Cardinality(Of("model")),
         tools |-> Cardinality(Of("tool")),
         errors |-> Cardinality({k \in Of("tool") : Sp(k).err}),
         compactions |-> Cardinality(Of("compaction")),
         subagents |-> Cardinality({k \in Of("run") : nodes[k].depth > 0}),
         usage |-> MapThenSumSet(LAMBDA k : Counted(Sp(k)), DOMAIN nodes)]

-----------------------------------------------------------------------------
(* Properties                                                              *)

\* The runs whose traces are part of the trace of r: itself and, through all of their
\* callers up to r, the subagents that have returned.
RECURSIVE Attached(_, _)
Attached(q, r) == q = r \/ (q > r /\ runs[q].pc = "returned" /\ Attached(runs[q].parent, r))

\* At any moment and for every run, the headline numbers of its trace are those of what
\* the run and the subagents that came back really did, each counted once: a failed, a
\* canceled and a nested subagent too, whatever order parallel calls end in
\* (trace.go Summary, graft; subagent.go invokeSub grafts before it looks at the error).
\* When the caller's run has returned, JSONL and the export show every span, once.
SummaryExact ==
    \A r \in Runs :
        LET part == {q \in Runs : Attached(q, r)}
            Total(F(_)) == MapThenSumSet(F, part)
            sum == Summary(runs[r].root)
        IN  /\ sum.usage = Total(Used)
            /\ sum.steps = Total(LAMBDA q : runs[q].did.steps) /\ sum.models = sum.steps
            /\ sum.tools = Total(LAMBDA q : runs[q].did.tools)
            /\ sum.errors = Total(LAMBDA q : runs[q].did.errors)
            /\ sum.compactions = Total(LAMBDA q : runs[q].did.compactions)
            /\ sum.subagents = Cardinality(part) - 1
            /\ r = 1 /\ Live(1, "done") =>
                  LET lines == JSONL(1)
                  IN  /\ Exported(1) = Len(spans) /\ Len(lines) = Len(spans)
                      /\ {lines[k].id : k \in DOMAIN lines} = DOMAIN spans

=============================================================================
