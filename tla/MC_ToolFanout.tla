--------------------------- MODULE MC_ToolFanout ---------------------------
(* Tool sets for TLC: a plain tool and a subagent, which may hang.        *)
EXTENDS ToolFanout

PlainAndSub == {"plain", "sub"}
OnlySub == {"sub"}
=============================================================================
