----------------------------- MODULE RpcServer -----------------------------
(***************************************************************************)
(* One connection of the JSON-RPC server (rpc/server.go): the read loop of *)
(* Serve, a goroutine per message, the table of sessions and the mutex     *)
(* that serializes the prompts of a session.                               *)
(*                                                                         *)
(* A session is the request that opened it; its id is what the client      *)
(* knows.  A run is a number of events and an end (Session models what     *)
(* happens in between); whether it succeeds, fails or panics only changes  *)
(* the text of the reply.  initialize and ping are "ping", and session/new *)
(* and session/resume are "open": they differ in the history they start    *)
(* with.                                                                   *)
(***************************************************************************)
EXTENDS Integers, Sequences, FiniteSets

CONSTANTS
    MaxReqs,    \* bound: lines the client sends
    MaxEvents,  \* bound: events of one run
    Scripts     \* what the client may send, line by line; it may stop anywhere

Reqs == 1 .. MaxReqs
Ids == 1 .. MaxReqs         \* "sess-1", "sess-2", ...

Methods == {"ping", "open", "prompt", "snapshot", "close", "invalid", "garbage"}

\* A line: its method, the session id it names (0 for none), whether it is a
\* notification, and whether its run goes on until its context is canceled.
Lines == [method : Methods, id : Ids \cup {0}, note : BOOLEAN, hangs : BOOLEAN]

ASSUME BoundsAssumption == MaxReqs \in Nat /\ MaxEvents \in Nat
ASSUME ScriptsAssumption == Scripts \subseteq Seq(Lines)

VARIABLES
    serve,      \* "reading", "waiting" (in wg.Wait) or "returned"
    ctx,        \* the connection's context was canceled
    line,       \* the lines read so far
    pc,         \* where the goroutine of a line is
    seq,        \* conn.seq
    newID,      \* the id a line has allocated, 0 for none
    sessions,   \* conn.sessions: the session an id stands for, 0 for none
    target,     \* the session lookup gave to a line, 0 for none
    lock,       \* rpcSession.mu of each session: the line that holds it, 0 for none
    midRun,     \* the session is in the middle of a run
    torn,       \* history variable: a snapshot was taken in the middle of a run
    events,     \* events of the line's run so far
    out,        \* what was written: updates and replies, by line
    acked,      \* history variable: ids whose close was acknowledged
    ackedFor    \* history variable: acked when the line was read

vars == <<serve, ctx, line, pc, seq, newID, sessions, target, lock, midRun, torn, events, out,
          acked, ackedFor>>

Read == 1 .. Len(line)
Want(r) == line[r].method
Wrote(kind, r) == Append(out, [kind |-> kind, req |-> r])

Init ==
    /\ serve = "reading"
    /\ ctx = FALSE
    /\ line = <<>>
    /\ pc = [r \in Reqs |-> "unread"]
    /\ seq = 0
    /\ newID = [r \in Reqs |-> 0]
    /\ sessions = [i \in Ids \cup {0} |-> 0]
    /\ target = [r \in Reqs |-> 0]
    /\ lock = [r \in Reqs |-> 0]
    /\ midRun = [r \in Reqs |-> FALSE]
    /\ torn = FALSE
    /\ events = [r \in Reqs |-> 0]
    /\ out = <<>>
    /\ acked = {}
    /\ ackedFor = [r \in Reqs |-> {}]

-----------------------------------------------------------------------------
(* Serve                                                                   *)

\* A line arrives and gets a goroutine; a canceled context is noticed only now.
ReadLine(m) ==
    /\ serve = "reading" /\ Len(line) < MaxReqs
    /\ line' = Append(line, m)
    /\ pc' = [pc EXCEPT ![Len(line) + 1] = "start"]
    /\ ackedFor' = [ackedFor EXCEPT ![Len(line) + 1] = acked]
    /\ serve' = IF ctx THEN "waiting" ELSE "reading"
    /\ UNCHANGED <<ctx, seq, newID, sessions, target, lock, midRun, torn, events, out, acked>>

\* The client closes its end, or reading fails.
ReadFails ==
    /\ serve = "reading"
    /\ serve' = "waiting"
    /\ UNCHANGED <<ctx, line, pc, seq, newID, sessions, target, lock, midRun, torn, events, out,
                   acked, ackedFor>>

\* Every goroutine has ended; the deferred cancel runs.
ServeReturns ==
    /\ serve = "waiting"
    /\ \A r \in Read : pc[r] = "done"
    /\ serve' = "returned"
    /\ ctx' = TRUE
    /\ UNCHANGED <<line, pc, seq, newID, sessions, target, lock, midRun, torn, events, out, acked,
                   ackedFor>>

\* The host cancels the context it gave to Serve.
HostCancels ==
    /\ ~ctx /\ serve # "returned"
    /\ ctx' = TRUE
    /\ UNCHANGED <<serve, line, pc, seq, newID, sessions, target, lock, midRun, torn, events, out,
                   acked, ackedFor>>

-----------------------------------------------------------------------------
(* handleLine and the handlers                                             *)

\* No session is touched: initialize, ping, lines that are refused (bad JSON, a
\* wrong version, no such method, bad parameters), a factory that fails.
HandleSimple(r) ==
    /\ pc[r] = "start" /\ Want(r) \in {"ping", "invalid", "garbage", "open"}
    /\ pc' = [pc EXCEPT ![r] = "reply"]
    /\ UNCHANGED <<serve, ctx, line, seq, newID, sessions, target, lock, midRun, torn, events, out,
                   acked, ackedFor>>

\* buildAgent: the factory has succeeded, the session gets its id.
AllocateID(r) ==
    /\ pc[r] = "start" /\ Want(r) = "open"
    /\ seq' = seq + 1
    /\ newID' = [newID EXCEPT ![r] = seq + 1]
    /\ pc' = [pc EXCEPT ![r] = "store"]
    /\ UNCHANGED <<serve, ctx, line, sessions, target, lock, midRun, torn, events, out, acked, ackedFor>>

\* buildAgent ends: the configuration is invalid, or the session is stored.
StoreSession(r) ==
    /\ pc[r] = "store"
    /\ pc' = [pc EXCEPT ![r] = "reply"]
    /\ \/ UNCHANGED sessions
       \/ sessions' = [sessions EXCEPT ![newID[r]] = r]
    /\ UNCHANGED <<serve, ctx, line, seq, newID, target, lock, midRun, torn, events, out, acked, ackedFor>>

\* lookup for a prompt or a snapshot.
Lookup(r) ==
    /\ pc[r] = "start" /\ Want(r) \in {"prompt", "snapshot"}
    /\ LET s == sessions[line[r].id] IN
          /\ target' = [target EXCEPT ![r] = s]
          /\ pc' = [pc EXCEPT ![r] = IF s = 0 THEN "reply" ELSE "lock"]
    /\ UNCHANGED <<serve, ctx, line, seq, newID, sessions, lock, midRun, torn, events, out, acked,
                   ackedFor>>

\* A mutant of StartRun: the session's mutex is not taken.
StartRunUnlocked(r) ==
    /\ pc[r] = "lock" /\ Want(r) = "prompt"
    /\ lock' = lock
    /\ midRun' = [midRun EXCEPT ![target[r]] = TRUE]
    /\ pc' = [pc EXCEPT ![r] = "run"]
    /\ UNCHANGED <<serve, ctx, line, seq, newID, sessions, target, torn, events, out, acked, ackedFor>>

\* handlePrompt has the session to itself and calls Send.
StartRun(r) ==
    /\ pc[r] = "lock" /\ Want(r) = "prompt"
    /\ lock[target[r]] = 0
    /\ lock' = [lock EXCEPT ![target[r]] = r]
    /\ midRun' = [midRun EXCEPT ![target[r]] = TRUE]
    /\ pc' = [pc EXCEPT ![r] = "run"]
    /\ UNCHANGED <<serve, ctx, line, seq, newID, sessions, target, torn, events, out, acked, ackedFor>>

\* A mutant of EmitEvent: events are written by a goroutine of their own.
EmitEventAsync(r) ==
    /\ pc[r] \in {"run", "reply", "done"} /\ target[r] # 0 /\ events[r] < MaxEvents
    /\ events' = [events EXCEPT ![r] = @ + 1]
    /\ out' = Wrote("update", r)
    /\ UNCHANGED <<serve, ctx, line, pc, seq, newID, sessions, target, lock, midRun, torn, acked, ackedFor>>

\* OnEvent writes a session/update.
EmitEvent(r) ==
    /\ pc[r] = "run" /\ events[r] < MaxEvents
    /\ events' = [events EXCEPT ![r] = @ + 1]
    /\ out' = Wrote("update", r)
    /\ UNCHANGED <<serve, ctx, line, pc, seq, newID, sessions, target, lock, midRun, torn, acked, ackedFor>>

\* A mutant of EndRun: a panic leaves the mutex locked.
EndRunKeepsLock(r) ==
    /\ pc[r] = "run" /\ (~line[r].hangs \/ ctx)
    /\ midRun' = [midRun EXCEPT ![target[r]] = FALSE]
    /\ lock' = lock
    /\ pc' = [pc EXCEPT ![r] = "reply"]
    /\ UNCHANGED <<serve, ctx, line, seq, newID, sessions, target, torn, events, out, acked, ackedFor>>

\* Send returns, with or without an error, or panics: the mutex is released.
EndRun(r) ==
    /\ pc[r] = "run" /\ (~line[r].hangs \/ ctx)
    /\ midRun' = [midRun EXCEPT ![target[r]] = FALSE]
    /\ lock' = [lock EXCEPT ![target[r]] = 0]
    /\ pc' = [pc EXCEPT ![r] = "reply"]
    /\ UNCHANGED <<serve, ctx, line, seq, newID, sessions, target, torn, events, out, acked, ackedFor>>

\* handleSnapshot under the session's mutex.
TakeSnapshot(r) ==
    /\ pc[r] = "lock" /\ Want(r) = "snapshot"
    /\ lock[target[r]] = 0
    /\ torn' = (torn \/ midRun[target[r]])
    /\ pc' = [pc EXCEPT ![r] = "reply"]
    /\ UNCHANGED <<serve, ctx, line, seq, newID, sessions, target, lock, midRun, events, out, acked,
                   ackedFor>>

\* A mutant of CloseSession: the session stays in the table.
CloseSessionKeepsIt(r) ==
    /\ pc[r] = "start" /\ Want(r) = "close"
    /\ target' = [target EXCEPT ![r] = sessions[line[r].id]]
    /\ sessions' = sessions
    /\ pc' = [pc EXCEPT ![r] = "reply"]
    /\ UNCHANGED <<serve, ctx, line, seq, newID, lock, midRun, torn, events, out, acked, ackedFor>>

\* handleClose: remove the id; a run in progress goes on.
CloseSession(r) ==
    /\ pc[r] = "start" /\ Want(r) = "close"
    /\ target' = [target EXCEPT ![r] = sessions[line[r].id]]
    /\ sessions' = [sessions EXCEPT ![line[r].id] = 0]
    /\ pc' = [pc EXCEPT ![r] = "reply"]
    /\ UNCHANGED <<serve, ctx, line, seq, newID, lock, midRun, torn, events, out, acked, ackedFor>>

\* Notifications are not answered; a line that is not JSON always is.
Answered(r) == ~line[r].note \/ Want(r) = "garbage"

Reply(r) ==
    /\ pc[r] = "reply"
    /\ pc' = [pc EXCEPT ![r] = "done"]
    /\ out' = IF Answered(r) THEN Wrote("reply", r) ELSE out
    /\ acked' = IF Answered(r) /\ Want(r) = "close" /\ target[r] # 0
                THEN acked \cup {line[r].id} ELSE acked
    /\ UNCHANGED <<serve, ctx, line, seq, newID, sessions, target, lock, midRun, torn, events, ackedFor>>

Returned == serve = "returned" /\ UNCHANGED vars

HandlerStep(r) ==
    \/ HandleSimple(r)
    \/ AllocateID(r)
    \/ StoreSession(r)
    \/ Lookup(r)
    \/ StartRun(r)
    \/ EmitEvent(r)
    \/ EndRun(r)
    \/ TakeSnapshot(r)
    \/ CloseSession(r)
    \/ Reply(r)

Next ==
    \/ \E s \in Scripts :
          Len(line) < Len(s) /\ line = SubSeq(s, 1, Len(line)) /\ ReadLine(s[Len(line) + 1])
    \/ ReadFails
    \/ ServeReturns
    \/ HostCancels
    \/ \E r \in Reqs : HandlerStep(r)
    \/ Returned

Spec == Init /\ [][Next]_vars

\* Goroutines are scheduled, mutexes are granted and runs that do not hang end.
\* Nothing is assumed of the client or of the host.
FairSpec == Spec /\ WF_vars(ServeReturns) /\ \A r \in Reqs : WF_vars(HandlerStep(r))

-----------------------------------------------------------------------------
(* Properties                                                              *)

Stages == {"unread", "start", "store", "lock", "run", "reply", "done"}

\* TypeOK: the shape of the state.
TypeOK ==
    /\ serve \in {"reading", "waiting", "returned"}
    /\ ctx \in BOOLEAN /\ torn \in BOOLEAN
    /\ line \in Seq(Lines) /\ Len(line) <= MaxReqs
    /\ pc \in [Reqs -> Stages]
    /\ seq \in 0 .. MaxReqs
    /\ newID \in [Reqs -> 0 .. MaxReqs]
    /\ sessions \in [Ids \cup {0} -> 0 .. MaxReqs]
    /\ target \in [Reqs -> 0 .. MaxReqs]
    /\ lock \in [Reqs -> 0 .. MaxReqs]
    /\ midRun \in [Reqs -> BOOLEAN]
    /\ events \in [Reqs -> 0 .. MaxEvents]
    /\ out \in Seq([kind : {"update", "reply"}, req : Reqs])
    /\ acked \in SUBSET Ids
    /\ ackedFor \in [Reqs -> SUBSET Ids]

\* A Session is not safe for concurrent Send calls (session.go), and the server
\* never makes any, whatever is closed, opened and prompted at the same time;
\* nor does a snapshot handed to a client ever show half a run.
SessionExclusive ==
    /\ ~torn
    /\ \A r, q \in Read :
          (r # q /\ pc[r] = "run" /\ pc[q] = "run") => target[r] # target[q]

\* Once the client knows that a session is closed, nothing it sends reaches it.
ClosedStaysClosed ==
    \A r \in Read : target[r] # 0 => line[r].id \notin ackedFor[r]

\* Line r is a prompt or a snapshot that waits for a run of its own session, or
\* it is that run.  Only these take a session's mutex.
Behind(r) ==
    /\ r \in Read /\ Want(r) \in {"prompt", "snapshot"}
    /\ \E q \in Read : pc[q] = "run" /\ line[q].hangs /\ target[q] = target[r]

\* "a long-running prompt does not block other requests (a second session, a
\* ping, or a close)" (doc.go): a close is answered even beside an endless prompt
\* on its own session.
NotBlocked == \A r \in Reqs : (pc[r] = "start") ~> (pc[r] = "done" \/ Behind(r))

Updates == {k \in DOMAIN out : out[k].kind = "update"}

\* The updates k and l were written for the same session.
SameSession(k, l) == target[out[k].req] = target[out[l].req]

\* A session/update names its session and not the prompt it belongs to: those of
\* two prompts on one session never alternate, whichever lines are served at the
\* same time.  (They may precede the reply to the first of the two.)
UpdatesGrouped ==
    \A j, k, l \in Updates :
        (j < k /\ k < l /\ out[j].req = out[l].req /\ SameSession(j, k)) => out[k].req = out[j].req

-----------------------------------------------------------------------------
(* The inductive invariant                                                 *)

\* The goroutines of the lines read have started; what a line has found or
\* allocated it has found or allocated later.
Progress ==
    \A r \in Reqs :
        /\ pc[r] = "unread" <=> r > Len(line)
        /\ pc[r] \in {"unread", "start"} => target[r] = 0 /\ newID[r] = 0
        /\ pc[r] = "store" => newID[r] # 0
        /\ pc[r] \in {"lock", "run"} => target[r] # 0

\* A run holds the mutex of its session, and a session in a run is locked.
LocksExact ==
    /\ \A r \in Reqs : pc[r] = "run" => lock[target[r]] = r
    /\ \A s \in Reqs : midRun[s] => lock[s] # 0
    /\ ~torn

\* Ids are given out once, as many as seq says.
IdsExact ==
    /\ Cardinality({r \in Reqs : newID[r] # 0}) = seq
    /\ \A r \in Reqs : newID[r] <= seq
    /\ \A r, q \in Reqs : newID[r] = newID[q] /\ newID[r] # 0 => r = q

\* Nobody will store a session under id i any more.
Settled(i) == i \in 1 .. seq /\ \A r \in Reqs : pc[r] = "store" => newID[r] # i

\* An id in the table is settled, and so is one that was closed, which has left it.
TableExact ==
    /\ sessions[0] = 0
    /\ \A i \in Ids : sessions[i] # 0 => Settled(i)
    /\ \A i \in acked : Settled(i) /\ sessions[i] = 0
    /\ \A r \in Read : (Want(r) = "close" /\ target[r] # 0) =>
                           Settled(line[r].id) /\ sessions[line[r].id] = 0
    /\ \A r \in Reqs : ackedFor[r] \subseteq acked

\* What was written comes from a run; once another run of its session has written
\* something, that run is over.
StreamsExact ==
    /\ \A k \in Updates : pc[out[k].req] \in {"run", "reply", "done"}
    /\ \A j, k \in Updates :
          (j < k /\ SameSession(j, k) /\ out[j].req # out[k].req) =>
              pc[out[j].req] \in {"reply", "done"}

IInv ==
    /\ TypeOK
    /\ Progress
    /\ LocksExact
    /\ IdsExact
    /\ TableExact
    /\ StreamsExact
    /\ ClosedStaysClosed
    /\ UpdatesGrouped

=============================================================================
