-------------------------- MODULE MC_SharedMemory --------------------------
(* Sizes for the models of SharedMemory that TLC checks.                   *)
EXTENDS SharedMemory, TLC

CONSTANTS short, long

ShortAndLong == {short, long}
CostOfText == [t \in ShortAndLong |-> IF t = short THEN 1 ELSE 2]

\* What the proof that important records stay in view takes for granted.
ASSUME BudgetAsProved == BudgetHolds

Swap == Permutations(Agents)
=============================================================================
