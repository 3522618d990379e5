--------------------------- MODULE MC_BudgetTree ---------------------------
(* Small trees of runs for TLC, and the ledger stated as a sum.            *)
EXTENDS BudgetTree

Tokens == {"tokens"}

\* Two subagents side by side below the root, and a chain of three runs.
Siblings == [r \in 1 .. 2 |-> 0]
Chain == [r \in 1 .. 2 |-> r - 1]

NoneN == [r \in 0 .. N |-> 0]

\* The root is limited; subagents ask for nothing in particular.
RootLimit4 == [r \in 0 .. N |-> [d \in Dims |-> IF r = 0 THEN 4 ELSE 0]]
\* The second subagent asks for less than what remains.
RootLimit2Second1 ==
    [r \in 0 .. N |-> [d \in Dims |-> IF r = 0 THEN 2 ELSE IF r = 2 THEN 1 ELSE 0]]

\* Two tool calls in the whole run; the root's deadline comes before those of
\* its subagents, of which one has a timeout and the other a deadline.
ToolLimit == [r \in 0 .. N |-> IF r = 0 THEN 2 ELSE 0]
FirstTimeout1 == [r \in 0 .. N |-> IF r = 1 THEN 1 ELSE 0]
RootDeadline2Second3 == [r \in 0 .. N |-> IF r = 0 THEN 2 ELSE IF r = 2 THEN 3 ELSE 0]

=============================================================================
