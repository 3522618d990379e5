---------------------------- MODULE MC_Workflow ----------------------------
(* Graphs for TLC: all graphs over three steps and an unknown name.        *)
EXTENDS Workflow

ThreeSteps == {"a", "b", "c"}
AllGraphs == [Steps -> SUBSET (Steps \cup {Missing})]

\* The step that may take for ever.
OnlyC == {"c"}
=============================================================================
