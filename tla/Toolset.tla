------------------------------ MODULE Toolset ------------------------------
(***************************************************************************)
(* What a model may call: typed tools (tool.go) and the tools of MCP       *)
(* servers (mcp/client.go: Connect, ListTools, Tools, CallTool) put        *)
(* together by New (agent.go), and calls routed by name (invokeOne in      *)
(* run.go).                                                                *)
(*                                                                         *)
(* The calls of an MCP client are those of McpClient, here one step that   *)
(* succeeds or fails; servers are external and may say anything.           *)
(***************************************************************************)
EXTENDS Integers, Sequences

CONSTANTS
    ToolNames,      \* names of tools, before a prefix
    LocalTools,     \* the names of the typed tools, a sequence
    NamePrefixes,   \* of each MCP server: WithToolNamePrefix
    Joined,         \* prefix and remote name put together
    Pages,          \* what a server may say a page of its tools is
    MaxListed,      \* bound: names after which a server sends its last page
    MaxLog          \* bound: tool calls

Servers == DOMAIN NamePrefixes

ASSUME ToolsAssumption ==
    /\ LocalTools \in Seq(ToolNames) /\ Pages \subseteq Seq(ToolNames)
    /\ Len(NamePrefixes) \in Nat /\ Servers = 1 .. Len(NamePrefixes)
    /\ DOMAIN Joined = {NamePrefixes[s] : s \in Servers} \X ToolNames
    /\ MaxListed \in Nat /\ MaxLog \in Nat

VARIABLES
    stage,      \* "connect", "list", "new", "run" or "failed"
    server,     \* the MCP server that is connected to, or listed
    infos,      \* ListTools: the remote names so far
    served,     \* history variable: the names that each server has sent
    tools,      \* Config.Tools
    defs,       \* Agent.toolDefs, which the model sees
    table,      \* Agent.tools
    log         \* the tool functions that were called, with the name the model used

setupVars == <<server, infos, served, tools, defs, table>>
toolVars == <<stage, setupVars, log>>

\* A tool: what the model knows it by, and what its Invoke reaches.
Tool(name, s, remote) == [name |-> name, server |-> s, remote |-> remote]
Local == 0

NothingYet ==
    /\ server = 1 /\ infos = <<>> /\ served = [s \in Servers |-> <<>>]
    /\ defs = <<>> /\ table = <<>> /\ log = <<>>

InitTools ==
    /\ NothingYet
    /\ stage = IF Servers = {} THEN "new" ELSE "connect"
    /\ tools = [i \in 1 .. Len(LocalTools) |-> Tool(LocalTools[i], Local, LocalTools[i])]

-----------------------------------------------------------------------------
(* MCP clients                                                             *)

\* A call fails: the server is gone or says so, the context is canceled, the result cannot
\* be decoded.  The program gives up.
CallFails ==
    /\ stage \in {"connect", "list"}
    /\ stage' = "failed"
    /\ UNCHANGED <<setupVars, log>>

\* Connect: initialize was answered and the notification sent.
Connect ==
    /\ stage = "connect"
    /\ stage' = "list"
    /\ UNCHANGED <<setupVars, log>>

\* wrap: the prefix is for the model, the server's own name for the server.
Wrap(s, remote) == Tool(Joined[<<NamePrefixes[s], remote>>], s, remote)

\* ListTools: a page and perhaps a cursor for the next; after the last one Tools wraps them
\* and the program goes on to the next server, or to New.
ListPage(page, more) ==
    /\ stage = "list"
    /\ more => Len(infos) < MaxListed
    /\ served' = [served EXCEPT ![server] = @ \o page]
    /\ LET all == infos \o page IN
          IF more
          THEN infos' = all /\ UNCHANGED <<stage, server, tools>>
          ELSE /\ infos' = <<>>
               /\ tools' = tools \o [i \in 1 .. Len(all) |-> Wrap(server, all[i])]
               /\ IF server < Len(NamePrefixes)
                  THEN server' = server + 1 /\ stage' = "connect"
                  ELSE stage' = "new" /\ UNCHANGED server
    /\ UNCHANGED <<defs, table, log>>

-----------------------------------------------------------------------------
(* New                                                                     *)

Duplicate == \E i, j \in 1 .. Len(tools) : i < j /\ tools[i].name = tools[j].name

\* The table is a map that is assigned to in order: of one name the last tool stays.
LastNamed(name) ==
    CHOOSE i \in 1 .. Len(tools) :
        tools[i].name = name /\ \A j \in 1 .. Len(tools) : tools[j].name = name => j <= i

Table == [name \in {tools[i].name : i \in 1 .. Len(tools)} |-> tools[LastNamed(name)]]

\* A mutant of Made: the last tool of a name wins.
MadeWithoutCheck(next) ==
    /\ stage = "new"
    /\ stage' = next /\ defs' = tools /\ table' = Table
    /\ UNCHANGED <<server, infos, served, tools, log>>

\* New makes an agent that goes on to next.
Made(next) ==
    /\ stage = "new"
    /\ ~Duplicate
    /\ stage' = next /\ defs' = tools /\ table' = Table
    /\ UNCHANGED <<server, infos, served, tools, log>>

New == Made("run")

\* No model, a nil tool, or two tools of one name.
NewFails ==
    /\ stage = "new"
    /\ stage' = "failed"
    /\ UNCHANGED <<setupVars, log>>

-----------------------------------------------------------------------------
(* Calls by name                                                           *)

\* Invoke: a typed tool whose arguments decode, or CallTool.  The server may run the tool
\* even if the call is given up, and its answer may be an error.
CallTool(name) ==
    /\ stage = "run" /\ Len(log) < MaxLog
    /\ name \in DOMAIN table
    /\ log' = Append(log, Tool(name, table[name].server, table[name].remote))
    /\ UNCHANGED <<stage, setupVars>>

\* No function is called: a name that is not in the table, arguments that do not decode, or a
\* request that does not reach the server.
CallNotMade ==
    /\ stage = "run"
    /\ UNCHANGED toolVars

GaveUp == stage = "failed" /\ UNCHANGED toolVars

-----------------------------------------------------------------------------

NextTools ==
    \/ CallFails \/ Connect
    \/ \E page \in Pages, more \in BOOLEAN : ListPage(page, more)
    \/ New \/ NewFails
    \/ \E name \in DOMAIN table : CallTool(name)
    \/ CallNotMade
    \/ GaveUp

ToolsSpec == InitTools /\ [][NextTools]_toolVars

-----------------------------------------------------------------------------
(* Properties                                                              *)

\* Of ts, the tools of server s are next to each other and are those of names, in order.
Lists(ts, s, names) ==
    \E o \in 0 .. Len(ts) :
        /\ \A d \in 1 .. Len(ts) : ts[d].server = s <=> d \in o + 1 .. o + Len(names)
        /\ o + Len(names) <= Len(ts)
        /\ \A i \in 1 .. Len(names) : ts[o + i].remote = names[i]

\* A name the model was shown reaches the tool the definition came from, on its own server and
\* under the server's own name, and no other; and it was shown all that the servers listed, on
\* however many pages, in order (mcp/client.go ListTools and wrap, agent.go New, run.go invokeOne).
RoutesRight ==
    stage = "run" =>
        /\ \A s \in Servers : Lists(defs, s, served[s])
        /\ \A i \in 1 .. Len(log) :
              /\ \E d \in 1 .. Len(defs) : defs[d] = log[i]
              /\ \A d \in 1 .. Len(defs) : defs[d].name = log[i].name => defs[d] = log[i]

-----------------------------------------------------------------------------
(* The inductive invariant                                                 *)

ShownNames == ToolNames \cup {Joined[p] : p \in DOMAIN Joined}
AllTools == [name : ShownNames, server : Nat, remote : ToolNames]

ToolsTypeOK ==
    /\ stage \in {"connect", "list", "new", "run", "failed"}
    /\ server \in Nat /\ (stage \in {"connect", "list"} => server \in Servers)
    /\ infos \in Seq(ToolNames) /\ served \in [Servers -> Seq(ToolNames)]
    /\ tools \in Seq(AllTools) /\ log \in Seq(AllTools)

\* While servers are listed, those before the one at work are in tools, the later ones are not.
ListedSoFar ==
    /\ stage \in {"connect", "list"} =>
          /\ served[server] = infos
          /\ \A s \in Servers : s < server => Lists(tools, s, served[s])
          /\ \A s \in Servers : s > server => served[s] = <<>>
          /\ \A d \in 1 .. Len(tools) : tools[d].server < server
    /\ stage \in {"new", "run"} => \A s \in Servers : Lists(tools, s, served[s])

\* What New made stays.
AgentMade ==
    IF stage = "run"
    THEN /\ defs = tools /\ ~Duplicate /\ table = Table
         /\ \A i \in 1 .. Len(log) : \E d \in 1 .. Len(tools) : tools[d] = log[i]
    ELSE log = <<>>

ToolsIInv == ToolsTypeOK /\ ListedSoFar /\ AgentMade

=============================================================================
