---------------------------- MODULE MC_McpClient ----------------------------
(* Servers for the models of McpClient that TLC checks.                    *)
EXTENDS McpClient

\* No answer, one, two, one that comes late, with other messages in between.
AllHabits ==
    {<<>>, <<"answer">>, <<"answer", "answer">>, <<"notify", "answer", "previous">>,
     <<"request", "answer">>, <<"garbage", "previous">>}
=============================================================================
