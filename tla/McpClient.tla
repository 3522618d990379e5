----------------------------- MODULE McpClient -----------------------------
(***************************************************************************)
(* The JSON-RPC client under the MCP client (mcp/jsonrpc.go): concurrent   *)
(* calls share one connection, and a single reader goroutine routes the    *)
(* responses by id.  Connect, ListTools, CallTool and Ping are sequences   *)
(* of calls.                                                               *)
(*                                                                         *)
(* The two pipes are bounded sequences of whole messages.  The server is   *)
(* external: one thread that reads a message, writes whatever its habit    *)
(* for it is, and reads the next.  What it answers is left out, but an     *)
(* answer remembers the call it was given for.                             *)
(***************************************************************************)
EXTENDS Integers, Sequences, FiniteSets

CONSTANTS
    Calls,      \* the calls made over the life of the client
    Reader,     \* the reader goroutine
    Nobody,     \* the write mutex is free; a message that belongs to no call
    Cap,        \* messages that fit into a pipe
    Habits,     \* what the server may write after reading a call
    Stdio       \* Close closes the server's input and ends the server

Kinds == {"answer", "previous", "request", "notify", "garbage"}

ASSUME NamesAssumption == Reader \notin Calls /\ Nobody \notin Calls /\ Reader # Nobody
ASSUME CallsAssumption == IsFiniteSet(Calls)
ASSUME CapAssumption == Cap \in Nat \ {0}
ASSUME HabitsAssumption == Habits \subseteq Seq(Kinds) /\ Stdio \in BOOLEAN

VARIABLES
    pc,         \* of a call: "idle", "write", "writing", "select" or "done"
    id,         \* its request id, 0 before it has one
    ctx,        \* its context was canceled
    chan,       \* its channel, of capacity one: the messages in it
    result,     \* how it returned, or the message it got
    nextID,     \* rpcClient.nextID
    pending,    \* rpcClient.pending: the ids that somebody waits for
    wmu,        \* rpcClient.wmu: who holds it
    done,       \* rpcClient.done was closed
    reader,     \* where the reader goroutine is
    sendTo,     \* the call whose channel it is about to write to
    held,       \* the message it is about to put there
    closing,    \* Client.Close was called
    toServer, toClient,     \* the pipes
    up,         \* the server runs
    owes        \* what the server writes before it reads again

callVars == <<pc, id, ctx, chan, result>>
clientVars == <<nextID, pending, wmu, done, reader, sendTo, held, closing>>
serverVars == <<toServer, toClient, up, owes>>
vars == <<callVars, clientVars, serverVars>>

Message(kind, i, c) == [kind |-> kind, id |-> i, of |-> c]
Outcome(kind) == Message(kind, 0, Nobody)

Init ==
    /\ pc = [c \in Calls |-> "idle"]
    /\ id = [c \in Calls |-> 0]
    /\ ctx = [c \in Calls |-> FALSE]
    /\ chan = [c \in Calls |-> <<>>]
    /\ result = [c \in Calls |-> Outcome("none")]
    /\ nextID = 0
    /\ pending = {}
    /\ wmu = Nobody
    /\ done = FALSE
    /\ reader = "read"
    /\ sendTo = Nobody
    /\ held = Outcome("none")
    /\ closing = FALSE
    /\ toServer = <<>> /\ toClient = <<>>
    /\ up = TRUE
    /\ owes = <<>>

-----------------------------------------------------------------------------
(* call                                                                    *)

\* A mutant of Begin: ids are the number of calls in flight.
BeginReusesIds(c) ==
    /\ pc[c] = "idle"
    /\ nextID' = nextID
    /\ id' = [id EXCEPT ![c] = Cardinality(pending) + 1]
    /\ pending' = pending \cup {Cardinality(pending) + 1}
    /\ pc' = [pc EXCEPT ![c] = "write"]
    /\ UNCHANGED <<ctx, chan, result, wmu, done, reader, sendTo, held, closing, serverVars>>

\* A fresh id, registered before the request is written.
Begin(c) ==
    /\ pc[c] = "idle"
    /\ nextID' = nextID + 1
    /\ id' = [id EXCEPT ![c] = nextID + 1]
    /\ pending' = pending \cup {nextID + 1}
    /\ pc' = [pc EXCEPT ![c] = "write"]
    /\ UNCHANGED <<ctx, chan, result, wmu, done, reader, sendTo, held, closing, serverVars>>

LockWrite(c) ==
    /\ pc[c] = "write" /\ wmu = Nobody
    /\ wmu' = c
    /\ pc' = [pc EXCEPT ![c] = "writing"]
    /\ UNCHANGED <<id, ctx, chan, result, nextID, pending, done, reader, sendTo, held, closing, serverVars>>

\* A write blocks while the pipe is full and fails when it is broken.
Broken == ~up \/ (Stdio /\ closing)
Room == ~Broken /\ Len(toServer) < Cap

WriteRequest(c) ==
    /\ pc[c] = "writing" /\ Room
    /\ toServer' = Append(toServer, Message("call", id[c], c))
    /\ wmu' = Nobody
    /\ pc' = [pc EXCEPT ![c] = "select"]
    /\ UNCHANGED <<id, ctx, chan, result, nextID, pending, done, reader, sendTo, held, closing, toClient, up, owes>>

\* The call returns; the deferred delete runs.
Finish(c, r) ==
    /\ result' = [result EXCEPT ![c] = r]
    /\ pc' = [pc EXCEPT ![c] = "done"]
    /\ pending' = pending \ {id[c]}

WriteFails(c) ==
    /\ pc[c] = "writing" /\ Broken
    /\ Finish(c, Outcome("error"))
    /\ wmu' = Nobody
    /\ UNCHANGED <<id, ctx, chan, nextID, done, reader, sendTo, held, closing, serverVars>>

\* A mutant of Select: the connection's end is not among the cases.
SelectWithoutDone(c) ==
    /\ pc[c] = "select"
    /\ \/ ctx[c] /\ Finish(c, Outcome("canceled")) /\ UNCHANGED chan
       \/ /\ chan[c] # <<>>
          /\ Finish(c, Head(chan[c]))
          /\ chan' = [chan EXCEPT ![c] = Tail(chan[c])]
    /\ UNCHANGED <<id, ctx, nextID, wmu, done, reader, sendTo, held, closing, serverVars>>

\* The select statement: any case that is ready may be taken.
Select(c) ==
    /\ pc[c] = "select"
    /\ \/ ctx[c] /\ Finish(c, Outcome("canceled")) /\ UNCHANGED chan
       \/ done /\ Finish(c, Outcome("closed")) /\ UNCHANGED chan
       \/ /\ chan[c] # <<>>
          /\ Finish(c, Head(chan[c]))
          /\ chan' = [chan EXCEPT ![c] = Tail(chan[c])]
    /\ UNCHANGED <<id, ctx, nextID, wmu, done, reader, sendTo, held, closing, serverVars>>

-----------------------------------------------------------------------------
(* readLoop and dispatch                                                   *)

Waiting(i) == {c \in Calls : id[c] = i}

\* A mutant of ReadResponse: the id stays registered.
ReadResponseKeepsPending ==
    /\ reader = "read" /\ toClient # <<>> /\ Head(toClient).kind = "answer"
    /\ toClient' = Tail(toClient)
    /\ LET i == Head(toClient).id IN
          /\ pending' = pending
          /\ IF i \in pending
             THEN /\ \E c \in Waiting(i) : sendTo' = c
                  /\ held' = Head(toClient) /\ reader' = "send"
             ELSE UNCHANGED <<sendTo, held, reader>>
    /\ UNCHANGED <<callVars, nextID, wmu, done, closing, toServer, up, owes>>

\* A response takes its id out of pending; nobody may be waiting for it.
ReadResponse ==
    /\ reader = "read" /\ toClient # <<>> /\ Head(toClient).kind = "answer"
    /\ toClient' = Tail(toClient)
    /\ LET i == Head(toClient).id IN
          /\ pending' = pending \ {i}
          /\ IF i \in pending
             THEN /\ \E c \in Waiting(i) : sendTo' = c
                  /\ held' = Head(toClient) /\ reader' = "send"
             ELSE UNCHANGED <<sendTo, held, reader>>
    /\ UNCHANGED <<callVars, nextID, wmu, done, closing, toServer, up, owes>>

\* ch <- msg, outside the lock: blocks while the channel is full.
SendToCall ==
    /\ reader = "send" /\ chan[sendTo] = <<>>
    /\ chan' = [chan EXCEPT ![sendTo] = <<held>>]
    /\ reader' = "read" /\ sendTo' = Nobody /\ held' = Outcome("none")
    /\ UNCHANGED <<pc, id, ctx, result, nextID, pending, wmu, done, closing, serverVars>>

\* Notifications go to the handler, whose panics are recovered; lines that are
\* not JSON are skipped.
ReadOther ==
    /\ reader = "read" /\ toClient # <<>> /\ Head(toClient).kind \in {"notify", "garbage"}
    /\ toClient' = Tail(toClient)
    /\ UNCHANGED <<callVars, clientVars, toServer, up, owes>>

\* A request of the server is declined, by the reader itself.
ReadRequest ==
    /\ reader = "read" /\ toClient # <<>> /\ Head(toClient).kind = "request"
    /\ toClient' = Tail(toClient)
    /\ reader' = "decline"
    /\ UNCHANGED <<callVars, nextID, pending, wmu, done, sendTo, held, closing, toServer, up, owes>>

LockDecline ==
    /\ reader = "decline" /\ wmu = Nobody
    /\ wmu' = Reader /\ reader' = "declining"
    /\ UNCHANGED <<callVars, nextID, pending, done, sendTo, held, closing, serverVars>>

WriteDecline ==
    /\ reader = "declining"
    /\ \/ Room /\ toServer' = Append(toServer, Message("decline", 0, Nobody))
       \/ Broken /\ UNCHANGED toServer
    /\ wmu' = Nobody /\ reader' = "read"
    /\ UNCHANGED <<callVars, nextID, pending, done, sendTo, held, closing, toClient, up, owes>>

\* The input ends: fail closes done, unless Close has.
ReadFails ==
    /\ reader = "read" /\ toClient = <<>> /\ ~up
    /\ done' = TRUE /\ reader' = "stopped"
    /\ UNCHANGED <<callVars, nextID, pending, wmu, sendTo, held, closing, serverVars>>

-----------------------------------------------------------------------------
(* The host and the server                                                 *)

Cancel(c) ==
    /\ ~ctx[c] /\ pc[c] \in {"write", "writing", "select"}
    /\ ctx' = [ctx EXCEPT ![c] = TRUE]
    /\ UNCHANGED <<pc, id, chan, result, clientVars, serverVars>>

\* Client.Close: done is closed and, for a subprocess, its standard input.
Close ==
    /\ ~closing
    /\ closing' = TRUE /\ done' = TRUE
    /\ UNCHANGED <<callVars, nextID, pending, wmu, reader, sendTo, held, serverVars>>

\* The answer to "previous" is the one for the call with the id before.
Written(kind, m) ==
    IF kind = "previous" /\ m.id > 1
    THEN Message("answer", m.id - 1, CHOOSE c \in Calls : id[c] = m.id - 1)
    ELSE Message(IF kind = "previous" THEN "garbage" ELSE kind, m.id, m.of)

ServerReads ==
    /\ up /\ owes = <<>> /\ toServer # <<>>
    /\ toServer' = Tail(toServer)
    /\ LET m == Head(toServer) IN
          IF m.kind = "call"
          THEN \E h \in Habits : owes' = [k \in DOMAIN h |-> Written(h[k], m)]
          ELSE UNCHANGED owes
    /\ UNCHANGED <<callVars, clientVars, toClient, up>>

ServerWrites ==
    /\ up /\ owes # <<>> /\ Len(toClient) < Cap
    /\ toClient' = Append(toClient, Head(owes))
    /\ owes' = Tail(owes)
    /\ UNCHANGED <<callVars, clientVars, toServer, up>>

\* The server exits, or onClose has it exit or kills it.
ServerExits ==
    /\ up
    /\ up' = FALSE /\ owes' = <<>> /\ toServer' = <<>>
    /\ UNCHANGED <<callVars, clientVars, toClient>>

-----------------------------------------------------------------------------

CallStep(c) ==
    \/ LockWrite(c)
    \/ WriteRequest(c)
    \/ WriteFails(c)
    \/ Select(c)

ReaderStep ==
    \/ ReadResponse
    \/ SendToCall
    \/ ReadOther
    \/ ReadRequest
    \/ LockDecline
    \/ WriteDecline
    \/ ReadFails

ServerStep == ServerReads \/ ServerWrites

Idle == (\A c \in Calls : pc[c] = "done") /\ UNCHANGED vars

Next ==
    \/ \E c \in Calls : Begin(c) \/ CallStep(c) \/ Cancel(c)
    \/ ReaderStep
    \/ Close
    \/ ServerStep
    \/ ServerExits
    \/ Idle

Spec == Init /\ [][Next]_vars

\* The client's goroutines are scheduled and mutexes are granted, and a server
\* that runs goes on reading and writing.  Nobody has to cancel, to close, to
\* answer or to exit; onClose kills a server that does not exit.
FairSpec ==
    /\ Spec
    /\ \A c \in Calls : WF_vars(CallStep(c))
    /\ WF_vars(ReaderStep)
    /\ WF_vars(ServerStep)
    /\ WF_vars(Stdio /\ closing /\ ServerExits)

-----------------------------------------------------------------------------
(* Properties                                                              *)

Messages ==
    [kind : {"call", "decline", "answer", "request", "notify", "garbage"}
            \cup {"none", "error", "canceled", "closed"},
     id : Nat, of : Calls \cup {Nobody}]

\* TypeOK: the shape of the state.
TypeOK ==
    /\ pc \in [Calls -> {"idle", "write", "writing", "select", "done"}]
    /\ id \in [Calls -> Nat]
    /\ ctx \in [Calls -> BOOLEAN]
    /\ chan \in [Calls -> Seq(Messages)]
    /\ result \in [Calls -> Messages]
    /\ nextID \in Nat
    /\ pending \in SUBSET Nat
    /\ wmu \in Calls \cup {Reader, Nobody}
    /\ done \in BOOLEAN /\ closing \in BOOLEAN /\ up \in BOOLEAN
    /\ reader \in {"read", "send", "decline", "declining", "stopped"}
    /\ sendTo \in Calls \cup {Nobody}
    /\ held \in Messages
    /\ toServer \in Seq(Messages) /\ toClient \in Seq(Messages) /\ owes \in Seq(Messages)

\* A call gets the answer that the server gave to it, also if the answers to
\* calls that were given up come late, twice or in another order; and however
\* they come, the channel the reader sends to has room, so the reader never
\* waits for a caller (dispatch in jsonrpc.go).
OwnAnswer ==
    /\ \A c \in Calls : result[c].kind = "answer" => result[c].of = c
    /\ reader = "send" => chan[sendTo] = <<>>

\* pending does not grow: a call that has returned is not in it.
NothingLeftPending == \A c \in Calls : pc[c] = "done" => id[c] \notin pending

\* Close "shuts down the client, waking any in-flight calls" (client.go), and so
\* does the end of the server, wherever the calls are.
CloseWakes == \A c \in Calls : (pc[c] \in {"write", "writing", "select"} /\ done) ~> (pc[c] = "done")

-----------------------------------------------------------------------------
(* The inductive invariant                                                 *)

InFlight(c) == pc[c] \in {"write", "writing", "select"}

\* Every id up to nextID belongs to one call.
IdsExact ==
    /\ \A c \in Calls : IF pc[c] = "idle" THEN id[c] = 0 ELSE id[c] \in 1 .. nextID
    /\ \A c, d \in Calls : (id[c] = id[d] /\ id[c] # 0) => c = d
    /\ \A i \in 1 .. nextID : \E c \in Calls : id[c] = i

\* Only calls in flight are registered.
PendingExact == \A i \in pending : \E c \in Calls : InFlight(c) /\ id[c] = i

\* A request and its answers carry the id of the call they belong to.
Faithful(m) == m.kind \in {"call", "answer"} => m.of \in Calls /\ m.id # 0 /\ id[m.of] = m.id

MessagesFaithful ==
    /\ \A k \in 1 .. Len(toServer) : Faithful(toServer[k])
    /\ \A k \in 1 .. Len(toClient) : Faithful(toClient[k])
    /\ \A k \in 1 .. Len(owes) : Faithful(owes[k])

\* A channel is empty while its call is registered; what is in it, or about to
\* be, answers its call.
Routed ==
    /\ reader = "send" => /\ sendTo \in Calls /\ id[sendTo] \notin pending /\ id[sendTo] # 0
                          /\ chan[sendTo] = <<>>
                          /\ held.kind = "answer" /\ held.of = sendTo
    /\ \A c \in Calls :
          /\ Len(chan[c]) <= 1
          /\ id[c] \in pending => chan[c] = <<>>
          /\ chan[c] # <<>> => chan[c][1].kind = "answer" /\ chan[c][1].of = c /\ id[c] # 0

IInv ==
    /\ TypeOK
    /\ IdsExact
    /\ PendingExact
    /\ MessagesFaithful
    /\ Routed
    /\ OwnAnswer
    /\ NothingLeftPending

=============================================================================
