---------------------------- MODULE MC_RpcServer ----------------------------
(* What clients send in the models that TLC checks.                        *)
EXTENDS RpcServer

Line(method, id) == [method |-> method, id |-> id, note |-> FALSE, hangs |-> FALSE]

Endless(m) == [m EXCEPT !.hangs = TRUE]
Note(m) == [m EXCEPT !.note = TRUE]

\* Two sessions beside an endless prompt; prompts and a snapshot that wait for
\* each other; a close among prompts, or beside an endless one; a second close;
\* and lines that are refused.
Meetings ==
    {<<Line("open", 0), Line("open", 0), Endless(Line("prompt", 1)), Note(Line("prompt", 2))>>,
     <<Line("open", 0), Line("prompt", 1), Line("prompt", 1), Line("snapshot", 1)>>,
     <<Line("open", 0), Line("prompt", 1), Line("close", 1), Line("prompt", 1)>>,
     <<Line("open", 0), Line("prompt", 1), Line("close", 1), Line("snapshot", 1)>>,
     <<Line("open", 0), Endless(Line("prompt", 1)), Line("close", 1), Line("ping", 0)>>,
     <<Line("open", 0), Endless(Line("prompt", 1)), Line("snapshot", 1), Line("prompt", 1)>>,
     <<Line("open", 0), Line("close", 1), Line("open", 0), Line("close", 1)>>,
     <<Line("garbage", 0), Note(Line("invalid", 0))>>}
=============================================================================
