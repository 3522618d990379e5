---- MODULE MC_RunTrace ----
(***************************************************************************)
(* Three runs of one step, in a chain or side by side, with tools in       *)
(* parallel and one after another, and two runs of two steps.              *)
(***************************************************************************)
EXTENDS TraceWalks

MCConfigs ==
    {[runs |-> 3, steps |-> 1, parallel |-> TRUE],
     [runs |-> 3, steps |-> 1, parallel |-> FALSE],
     [runs |-> 2, steps |-> 2, parallel |-> FALSE]}

MCCallLimits == [caller |-> 2, subagent |-> 1]

====
