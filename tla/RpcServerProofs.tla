-------------------------- MODULE RpcServerProofs --------------------------
(***************************************************************************)
(* Proofs about RpcServer, for any number of lines, whatever the client    *)
(* sends: a session has one run at a time and shows a whole one to a       *)
(* snapshot, a closed session is not reached any more, and the updates of  *)
(* two prompts on one session do not alternate.                            *)
(***************************************************************************)
EXTENDS RpcServer, FiniteSetTheorems, TLAPS

Records == [kind : {"update", "reply"}, req : Reqs]

\* What was written stays, and something is added at the end.
LEMMA WroteExact ==
    ASSUME TypeOK, NEW kind \in {"update", "reply"}, NEW r \in Reqs
    PROVE  /\ Wrote(kind, r) \in Seq(Records)
           /\ DOMAIN Wrote(kind, r) = 1 .. Len(out) + 1 /\ DOMAIN out = 1 .. Len(out) /\ Len(out) \in Nat
           /\ \A k \in 1 .. Len(out) : Wrote(kind, r)[k] = out[k]
           /\ Wrote(kind, r)[Len(out) + 1] = [kind |-> kind, req |-> r]
  <1>1. out \in Seq(Records) /\ [kind |-> kind, req |-> r] \in Records
    BY DEF TypeOK, Records
  <1> QED
    BY <1>1 DEF Wrote

\* What was written, and who wrote it.
LEMMA OutTyped ==
    ASSUME TypeOK
    PROVE  /\ DOMAIN out = 1 .. Len(out) /\ Len(out) \in Nat
           /\ \A k \in DOMAIN out : out[k].req \in Reqs
  <1>1. out \in Seq(Records)
    BY DEF TypeOK, Records
  <1>2. \A k \in DOMAIN out : out[k] \in Records
    BY <1>1
  <1> QED
    BY <1>1, <1>2 DEF Records

\* The lines read are lines; each names a session, or none.
LEMMA LinesTyped ==
    ASSUME TypeOK
    PROVE  Read \subseteq Reqs /\ \A r \in Read : line[r] \in Lines /\ line[r].id \in Ids \cup {0}
  <1>1. line \in Seq(Lines) /\ Len(line) \in Nat /\ Len(line) <= MaxReqs
    BY DEF TypeOK
  <1>2. \A r \in Read : line[r] \in Lines
    BY <1>1 DEF Read
  <1>3. Read \subseteq Reqs
    BY <1>1, BoundsAssumption DEF Read, Reqs
  <1> QED
    BY <1>2, <1>3 DEF Lines

\* A line in progress was read.
LEMMA InProgress ==
    ASSUME IInv, NEW r \in Reqs, pc[r] # "unread"
    PROVE  r \in Read /\ line[r].id \in Ids \cup {0}
  <1>1. r \in Read
    BY DEF IInv, TypeOK, Progress, Read, Reqs
  <1> QED
    BY <1>1, LinesTyped DEF IInv

\* A line that waits for a session or runs in it has one.
LEMMA HasTarget ==
    ASSUME IInv, NEW r \in Reqs, pc[r] \in {"lock", "run"}
    PROVE  target[r] \in Reqs
  <1>1. target[r] # 0
    BY DEF IInv, Progress
  <1>2. target[r] \in 0 .. MaxReqs
    BY DEF IInv, TypeOK
  <1> QED
    BY <1>1, <1>2, BoundsAssumption DEF Reqs

-----------------------------------------------------------------------------
(* Ids                                                                     *)

\* A request that starts has no id yet, so that not all ids are given out.
LEMMA IdLeft ==
    ASSUME IInv, NEW r \in Reqs, newID[r] = 0
    PROVE  /\ seq + 1 \in Ids
           /\ Cardinality({q \in Reqs : newID[q] # 0} \cup {r}) = seq + 1
  <1> DEFINE have == {q \in Reqs : newID[q] # 0}
  <1>1. IsFiniteSet(Reqs) /\ Cardinality(Reqs) = MaxReqs /\ MaxReqs \in Nat
    BY FS_Interval, BoundsAssumption DEF Reqs
  <1>2. have \cup {r} \subseteq Reqs /\ r \notin have
    OBVIOUS
  <1>3. IsFiniteSet(have) /\ Cardinality(have) = seq /\ seq \in Nat
    BY <1>1, FS_Subset DEF IInv, IdsExact, TypeOK
  <1>4. Cardinality(have \cup {r}) = seq + 1
    BY <1>2, <1>3, FS_AddElement
  <1>5. seq + 1 <= MaxReqs
    BY <1>1, <1>2, <1>4, FS_Subset
  <1> QED
    BY <1>1, <1>3, <1>4, <1>5 DEF Ids

-----------------------------------------------------------------------------
(* The invariant                                                           *)

\* No update is written, and the lines that have written some do not go back.
LEMMA StreamFrame ==
    ASSUME IInv, Updates' = Updates, \A k \in Updates : out'[k] = out[k],
           \A q \in Reqs : pc[q] \in {"run", "reply", "done"} =>
                             target'[q] = target[q] /\ pc'[q] \in {"run", "reply", "done"},
           \A q \in Reqs : pc[q] \in {"reply", "done"} => pc'[q] \in {"reply", "done"}
    PROVE  StreamsExact' /\ UpdatesGrouped'
  <1>1. \A k \in Updates : out[k].req \in Reqs
    BY OutTyped DEF IInv, Updates
  <1>2. \A k \in Updates : pc[out[k].req] \in {"run", "reply", "done"}
    BY DEF IInv, StreamsExact
  <1>3. \A j, k \in Updates : SameSession(j, k)' = SameSession(j, k)
    BY <1>1, <1>2 DEF SameSession
  <1>4. StreamsExact'
    BY <1>1, <1>2, <1>3 DEF IInv, StreamsExact
  <1>5. UpdatesGrouped'
    BY <1>1, <1>3 DEF IInv, UpdatesGrouped
  <1> QED
    BY <1>4, <1>5

\* A line is read.
LEMMA ReadLineInvariant ==
    ASSUME IInv, NEW m \in Lines, ReadLine(m)
    PROVE  IInv'
  <1> DEFINE n == Len(line) + 1
  <1>1. n \in Reqs /\ m \in Lines /\ Len(line) \in Nat
    BY BoundsAssumption DEF ReadLine, Reqs, IInv, TypeOK
  <1>2. /\ line' \in Seq(Lines) /\ Len(line') = n /\ line'[n] = m
        /\ \A r \in 1 .. Len(line) : line'[r] = line[r]
    BY <1>1 DEF ReadLine, IInv, TypeOK
  <1>3. /\ pc' = [pc EXCEPT ![n] = "start"] /\ ackedFor' = [ackedFor EXCEPT ![n] = acked]
        /\ serve' \in {"reading", "waiting", "returned"}
        /\ UNCHANGED <<ctx, seq, newID, sessions, target, lock, midRun, torn, events, out, acked>>
    BY DEF ReadLine
  <1>4. pc[n] = "unread" /\ target[n] = 0 /\ newID[n] = 0
    BY <1>1 DEF IInv, Progress
  <1> HIDE DEF n
  <1>5. Len(line) = n - 1 /\ Read' = Read \cup {n} /\ n \notin Read
    BY <1>1, <1>2 DEF n, Read
  <1>6. TypeOK'
    BY <1>1, <1>2, <1>3, <1>5 DEF IInv, TypeOK, Stages, Reqs
  <1>7. Progress'
    BY <1>1, <1>2, <1>3, <1>4, <1>5 DEF IInv, TypeOK, Progress, Reqs
  <1>8. LocksExact' /\ IdsExact'
    BY <1>1, <1>3, <1>4 DEF IInv, TypeOK, LocksExact, IdsExact
  <1>9. TableExact'
    <2>1. \A i : Settled(i) => Settled(i)'
      BY <1>1, <1>3, <1>4 DEF IInv, TypeOK, Settled
    <2>2. \A r \in Read' : (Want(r)' = "close" /\ target'[r] # 0) => r \in Read /\ Want(r) = "close" /\ target[r] # 0
                              /\ line'[r] = line[r]
      BY <1>2, <1>3, <1>4, <1>5 DEF Want, Read
    <2> QED
      BY <1>1, <1>3, <2>1, <2>2 DEF IInv, TypeOK, TableExact
  <1>10. StreamsExact' /\ UpdatesGrouped'
    BY <1>1, <1>3, <1>4, StreamFrame DEF IInv, TypeOK, Updates
  <1>11. ClosedStaysClosed'
    BY <1>1, <1>2, <1>3, <1>4, <1>5 DEF IInv, TypeOK, ClosedStaysClosed, Read
  <1> QED
    BY <1>6, <1>7, <1>8, <1>9, <1>10, <1>11 DEF IInv

\* A handler moves its line on: what it leaves alone, the invariant keeps.
LEMMA HandlerFrame ==
    ASSUME IInv, NEW r \in Reqs, pc[r] \notin {"unread", "done"}, NEW at \in Stages \ {"unread", "start"},
           pc' = [pc EXCEPT ![r] = at], UNCHANGED <<line, ackedFor>>
    PROVE  /\ pc' \in [Reqs -> Stages] /\ pc'[r] = at /\ \A q \in Reqs \ {r} : pc'[q] = pc[q]
           /\ Read' = Read /\ \A q \in Reqs : Want(q)' = Want(q)
           /\ (/\ UNCHANGED out
               /\ \A q \in Reqs : pc[q] \notin {"unread", "start"} => target'[q] = target[q]
               /\ pc[r] \in {"run", "reply"} => at \in {"reply", "done"})
                 => StreamsExact' /\ UpdatesGrouped'
           /\ UNCHANGED target => ClosedStaysClosed'
           /\ UNCHANGED newID => IdsExact' \/ seq' # seq
           /\ UNCHANGED <<seq, newID>> /\ at # "store" => \A i : Settled(i) => Settled(i)'
           /\ UNCHANGED <<lock, midRun, torn, target>> /\ at # "run" /\ pc[r] # "run" => LocksExact'
  <1>1. pc' \in [Reqs -> Stages] /\ pc'[r] = at /\ \A q \in Reqs \ {r} : pc'[q] = pc[q]
    BY DEF IInv, TypeOK
  <1>2. Read' = Read /\ \A q \in Reqs : Want(q)' = Want(q)
    BY DEF Read, Want
  <1>3. (/\ UNCHANGED out
         /\ \A q \in Reqs : pc[q] \notin {"unread", "start"} => target'[q] = target[q]
         /\ pc[r] \in {"run", "reply"} => at \in {"reply", "done"})
           => StreamsExact' /\ UpdatesGrouped'
    BY <1>1, StreamFrame DEF Updates
  <1>4. UNCHANGED target => ClosedStaysClosed'
    BY DEF IInv, ClosedStaysClosed, Read
  <1>5. UNCHANGED newID => IdsExact' \/ seq' # seq
    BY DEF IInv, IdsExact
  <1>6. UNCHANGED <<seq, newID>> /\ at # "store" => \A i : Settled(i) => Settled(i)'
    BY <1>1 DEF Settled
  <1>7. UNCHANGED <<lock, midRun, torn, target>> /\ at # "run" /\ pc[r] # "run" => LocksExact'
    BY <1>1 DEF IInv, LocksExact
  <1> QED
    BY <1>1, <1>2, <1>3, <1>4, <1>5, <1>6, <1>7

\* A handler that leaves the table, the targets and the acknowledgements alone.
LEMMA TableFrame ==
    ASSUME IInv, \A i : Settled(i) => Settled(i)', Read' = Read,
           UNCHANGED <<line, sessions, acked, target, ackedFor>>
    PROVE  TableExact'
  <1>1. \A r : Want(r)' = Want(r)
    BY DEF Want
  <1> QED
    BY <1>1 DEF IInv, TableExact

\* A line is answered without a session.
LEMMA HandleSimpleInvariant ==
    ASSUME IInv, NEW r \in Reqs, HandleSimple(r)
    PROVE  IInv'
  <1>1. /\ pc[r] = "start" /\ pc' = [pc EXCEPT ![r] = "reply"] /\ "reply" \in Stages \ {"unread", "start"}
        /\ UNCHANGED <<serve, ctx, line, seq, newID, sessions, target, lock, midRun, torn, events, out,
                       acked, ackedFor>>
    BY DEF HandleSimple, Stages
  <1>2. /\ pc' \in [Reqs -> Stages] /\ pc'[r] = "reply" /\ \A q \in Reqs \ {r} : pc'[q] = pc[q]
        /\ Read' = Read /\ StreamsExact' /\ UpdatesGrouped' /\ ClosedStaysClosed' /\ IdsExact'
        /\ LocksExact' /\ \A i : Settled(i) => Settled(i)'
    BY <1>1, HandlerFrame
  <1>3. TypeOK'
    BY <1>1, <1>2 DEF IInv, TypeOK
  <1>4. Progress'
    BY <1>1, <1>2 DEF IInv, Progress
  <1>5. TableExact'
    BY <1>1, <1>2, TableFrame
  <1> QED
    BY <1>2, <1>3, <1>4, <1>5 DEF IInv

\* An id is given out.
LEMMA AllocateIDInvariant ==
    ASSUME IInv, NEW r \in Reqs, AllocateID(r)
    PROVE  IInv'
  <1>1. /\ pc[r] = "start" /\ pc' = [pc EXCEPT ![r] = "store"] /\ "store" \in Stages \ {"unread", "start"}
        /\ seq' = seq + 1 /\ newID' = [newID EXCEPT ![r] = seq + 1]
        /\ UNCHANGED <<serve, ctx, line, sessions, target, lock, midRun, torn, events, out, acked, ackedFor>>
    BY DEF AllocateID, Stages
  <1>2. /\ pc' \in [Reqs -> Stages] /\ pc'[r] = "store" /\ \A q \in Reqs \ {r} : pc'[q] = pc[q]
        /\ Read' = Read /\ StreamsExact' /\ UpdatesGrouped' /\ ClosedStaysClosed' /\ LocksExact'
    BY <1>1, HandlerFrame
  <1>3. newID[r] = 0 /\ seq \in Nat
    BY <1>1 DEF IInv, Progress, TypeOK
  <1>4. /\ seq + 1 \in Ids
        /\ Cardinality({q \in Reqs : newID[q] # 0} \cup {r}) = seq + 1
    BY <1>3, IdLeft
  <1>5. /\ newID' \in [Reqs -> 0 .. MaxReqs] /\ newID'[r] = seq + 1
        /\ \A q \in Reqs \ {r} : newID'[q] = newID[q] /\ newID[q] <= seq
        /\ \A q \in Reqs : newID[q] \in Nat
    BY <1>1, <1>4 DEF IInv, TypeOK, IdsExact, Ids
  <1>6. TypeOK'
    BY <1>1, <1>2, <1>4, <1>5 DEF IInv, TypeOK, Ids
  <1>7. Progress'
    BY <1>1, <1>2, <1>3, <1>5 DEF IInv, Progress
  <1>8. IdsExact'
    <2>1. {q \in Reqs : newID'[q] # 0} = {q \in Reqs : newID[q] # 0} \cup {r}
      BY <1>3, <1>5
    <2>2. \A q \in Reqs : newID'[q] <= seq'
      BY <1>1, <1>3, <1>5
    <2>3. \A p, q \in Reqs : newID'[p] = newID'[q] /\ newID'[p] # 0 => p = q
      BY <1>3, <1>5 DEF IInv, IdsExact
    <2> QED
      BY <1>1, <1>4, <2>1, <2>2, <2>3 DEF IdsExact
  <1>9. \A i \in Ids \cup {0} : Settled(i) => Settled(i)'
    BY <1>1, <1>2, <1>3, <1>5 DEF Settled, Ids
  <1>10. TableExact'
    <2>1. \A q : Want(q)' = Want(q)
      BY <1>1 DEF Want
    <2>2. \A q \in Read : line[q].id \in Ids \cup {0}
      BY LinesTyped DEF IInv
    <2> QED
      BY <1>1, <1>2, <1>9, <2>1, <2>2 DEF IInv, TypeOK, TableExact
  <1> QED
    BY <1>2, <1>6, <1>7, <1>8, <1>10 DEF IInv

\* A session enters the table.
LEMMA StoreSessionInvariant ==
    ASSUME IInv, NEW r \in Reqs, StoreSession(r)
    PROVE  IInv'
  <1>1. /\ pc[r] = "store" /\ pc' = [pc EXCEPT ![r] = "reply"] /\ "reply" \in Stages \ {"unread", "start"}
        /\ sessions' = sessions \/ sessions' = [sessions EXCEPT ![newID[r]] = r]
        /\ UNCHANGED <<serve, ctx, line, seq, newID, target, lock, midRun, torn, events, out, acked, ackedFor>>
    BY DEF StoreSession, Stages
  <1>2. /\ pc' \in [Reqs -> Stages] /\ pc'[r] = "reply" /\ \A q \in Reqs \ {r} : pc'[q] = pc[q]
        /\ Read' = Read /\ StreamsExact' /\ UpdatesGrouped' /\ ClosedStaysClosed' /\ IdsExact'
        /\ LocksExact' /\ \A i : Settled(i) => Settled(i)'
    BY <1>1, HandlerFrame
  <1>3. newID[r] \in Ids /\ newID[r] \in 1 .. seq /\ newID[r] # 0 /\ seq \in Nat
    BY <1>1 DEF IInv, TypeOK, Progress, IdsExact, Ids
  <1>4. TypeOK'
    BY <1>1, <1>2 DEF IInv, TypeOK, Reqs
  <1>5. Progress'
    BY <1>1, <1>2 DEF IInv, Progress
  <1>6. TableExact'
    <2>1. CASE sessions' = sessions
      BY <1>1, <1>2, <2>1, TableFrame
    <2>2. CASE sessions' = [sessions EXCEPT ![newID[r]] = r]
      <3>1. ~Settled(newID[r]) /\ Settled(newID[r])'
        <4>1. \A q \in Reqs : newID[q] = newID[r] => q = r
          BY <1>3 DEF IInv, IdsExact, Ids
        <4> QED
          BY <1>1, <1>2, <1>3, <4>1 DEF Settled
      <3>2. \A i \in Ids \cup {0} : i # newID[r] => sessions'[i] = sessions[i]
        BY <2>2 DEF IInv, TypeOK
      <3>3. \A q : Want(q)' = Want(q)
        BY <1>1 DEF Want
      <3>4. \A q \in Read : line[q].id \in Ids \cup {0}
        BY LinesTyped DEF IInv
      <3>5. sessions'[0] = 0 /\ \A i \in Ids : sessions'[i] # 0 => Settled(i)'
        <4>1. sessions'[0] = sessions[0]
          BY <1>3, <3>2 DEF Ids
        <4>2. \A i \in Ids : i # newID[r] => sessions'[i] = sessions[i]
          BY <3>2
        <4> QED
          BY <1>1, <1>2, <3>1, <4>1, <4>2 DEF IInv, TableExact
      <3>6. \A i \in acked' : Settled(i)' /\ sessions'[i] = 0
        BY <1>1, <1>2, <3>1, <3>2 DEF IInv, TableExact, TypeOK
      <3>7. \A q \in Read : (Want(q) = "close" /\ target[q] # 0) =>
                                Settled(line[q].id)' /\ sessions'[line[q].id] = 0
        <4> SUFFICES ASSUME NEW q \in Read, Want(q) = "close", target[q] # 0
                     PROVE  Settled(line[q].id)' /\ sessions'[line[q].id] = 0
          BY <1>1
        <4>1. Settled(line[q].id) /\ sessions[line[q].id] = 0
          BY DEF IInv, TableExact
        <4> QED
          BY <1>1, <1>2, <3>1, <3>2, <3>4, <4>1
      <3> QED
        BY <1>1, <1>2, <3>3, <3>5, <3>6, <3>7 DEF IInv, TableExact
    <2> QED
      BY <1>1, <2>1, <2>2
  <1> QED
    BY <1>2, <1>4, <1>5, <1>6 DEF IInv

\* A prompt or a snapshot looks its session up.
LEMMA LookupInvariant ==
    ASSUME IInv, NEW r \in Reqs, Lookup(r)
    PROVE  IInv'
  <1> DEFINE found == sessions[line[r].id]
             at == IF found = 0 THEN "reply" ELSE "lock"
  <1>1. /\ pc[r] = "start" /\ pc' = [pc EXCEPT ![r] = at] /\ at \in Stages \ {"unread", "start"}
        /\ at \in {"reply", "lock"} /\ (at = "lock" => found # 0)
        /\ target' = [target EXCEPT ![r] = found] /\ Want(r) # "close"
        /\ UNCHANGED <<serve, ctx, line, seq, newID, sessions, lock, midRun, torn, events, out,
                       acked, ackedFor>>
    BY DEF Lookup, Stages
  <1>2. r \in Read /\ line[r].id \in Ids \cup {0}
    BY <1>1, InProgress
  <1>3. found \in 0 .. MaxReqs /\ (found # 0 => line[r].id \notin acked)
    BY <1>2 DEF IInv, TypeOK, TableExact
  <1> HIDE DEF found, at
  <1>5. target'[r] = found /\ \A q \in Reqs \ {r} : target'[q] = target[q]
    BY <1>1 DEF IInv, TypeOK
  <1>4. /\ pc' \in [Reqs -> Stages] /\ pc'[r] = at /\ \A q \in Reqs \ {r} : pc'[q] = pc[q]
        /\ Read' = Read /\ StreamsExact' /\ UpdatesGrouped' /\ IdsExact'
        /\ \A q \in Reqs : Want(q)' = Want(q)
        /\ \A i : Settled(i) => Settled(i)'
    BY <1>1, <1>5, HandlerFrame
  <1>6. TypeOK'
    BY <1>1, <1>3, <1>4 DEF IInv, TypeOK
  <1>7. Progress'
    BY <1>1, <1>4, <1>5 DEF IInv, Progress
  <1>8. LocksExact'
    BY <1>1, <1>4, <1>5 DEF IInv, LocksExact
  <1>9. Read \subseteq Reqs
    BY LinesTyped DEF IInv
  <1>10. \A q \in Read : (Want(q)' = "close" /\ target'[q] # 0) => Want(q) = "close" /\ target[q] # 0
    BY <1>1, <1>4, <1>5, <1>9
  <1>11. TableExact'
    BY <1>1, <1>4, <1>10 DEF IInv, TableExact
  <1>12. ClosedStaysClosed'
    BY <1>1, <1>3, <1>4, <1>5, <1>9 DEF IInv, ClosedStaysClosed, TableExact
  <1> QED
    BY <1>4, <1>6, <1>7, <1>8, <1>11, <1>12 DEF IInv

\* A prompt takes the mutex of its session and runs.
LEMMA StartRunInvariant ==
    ASSUME IInv, NEW r \in Reqs, StartRun(r)
    PROVE  IInv'
  <1> DEFINE s == target[r]
  <1>1. /\ pc[r] = "lock" /\ pc' = [pc EXCEPT ![r] = "run"] /\ "run" \in Stages \ {"unread", "start"}
        /\ lock[s] = 0 /\ lock' = [lock EXCEPT ![s] = r] /\ midRun' = [midRun EXCEPT ![s] = TRUE]
        /\ UNCHANGED <<serve, ctx, line, seq, newID, sessions, target, torn, events, out, acked, ackedFor>>
    BY DEF StartRun, Stages
  <1>2. s \in Reqs
    BY <1>1, HasTarget
  <1>3. /\ pc' \in [Reqs -> Stages] /\ pc'[r] = "run" /\ \A q \in Reqs \ {r} : pc'[q] = pc[q]
        /\ Read' = Read /\ StreamsExact' /\ UpdatesGrouped' /\ ClosedStaysClosed' /\ IdsExact'
        /\ \A i : Settled(i) => Settled(i)'
    BY <1>1, HandlerFrame
  <1>4. TypeOK'
    BY <1>1, <1>2, <1>3 DEF IInv, TypeOK, Reqs
  <1>5. Progress'
    BY <1>1, <1>3 DEF IInv, Progress
  <1>6. LocksExact'
    <2>1. \A q \in Reqs \ {r} : pc[q] = "run" => target[q] # s /\ target[q] \in Reqs
      BY <1>1, HasTarget DEF IInv, LocksExact, Reqs
    <2>2. /\ lock'[s] = r /\ midRun'[s] = TRUE
          /\ \A t \in Reqs \ {s} : lock'[t] = lock[t] /\ midRun'[t] = midRun[t]
      BY <1>1, <1>2 DEF IInv, TypeOK
    <2>3. \A q \in Reqs : pc'[q] = "run" => lock'[target'[q]] = q
      BY <1>1, <1>3, <2>1, <2>2 DEF IInv, LocksExact
    <2>4. \A t \in Reqs : midRun'[t] => lock'[t] # 0
      BY <2>2 DEF IInv, LocksExact, Reqs
    <2> QED
      BY <1>1, <2>3, <2>4 DEF IInv, LocksExact
  <1>7. TableExact'
    BY <1>1, <1>3, TableFrame
  <1> QED
    BY <1>3, <1>4, <1>5, <1>6, <1>7 DEF IInv

\* A run writes an update.
LEMMA EmitEventInvariant ==
    ASSUME IInv, NEW r \in Reqs, EmitEvent(r)
    PROVE  IInv'
  <1>1. /\ pc[r] = "run" /\ events[r] < MaxEvents /\ events' = [events EXCEPT ![r] = @ + 1]
        /\ out' = Wrote("update", r)
        /\ UNCHANGED <<serve, ctx, line, pc, seq, newID, sessions, target, lock, midRun, torn, acked, ackedFor>>
    BY DEF EmitEvent
  <1>2. /\ out' \in Seq(Records) /\ DOMAIN out' = 1 .. Len(out) + 1 /\ DOMAIN out = 1 .. Len(out)
        /\ \A k \in 1 .. Len(out) : out'[k] = out[k]
        /\ out'[Len(out) + 1] = [kind |-> "update", req |-> r] /\ Len(out) \in Nat
    BY <1>1, WroteExact DEF IInv
  <1>3. TypeOK'
    <2>1. events' \in [Reqs -> 0 .. MaxEvents]
      BY <1>1, BoundsAssumption DEF IInv, TypeOK
    <2> QED
      BY <1>1, <1>2, <2>1 DEF IInv, TypeOK, Records
  <1>4. Progress' /\ LocksExact' /\ IdsExact' /\ TableExact' /\ ClosedStaysClosed'
    BY <1>1 DEF IInv, Progress, LocksExact, IdsExact, TableExact, Settled, Want, ClosedStaysClosed, Read
  <1>5. /\ Len(out) + 1 \notin Updates /\ Updates' = Updates \cup {Len(out) + 1}
        /\ Updates \subseteq 1 .. Len(out) /\ \A k \in Updates : out'[k] = out[k] /\ out[k].req \in Reqs
        /\ out'[Len(out) + 1].req = r
    BY <1>2, OutTyped DEF Updates, IInv
  <1>7. \A k \in Updates : target[out[k].req] = target[r] /\ out[k].req # r => pc[out[k].req] \in {"reply", "done"}
    <2> SUFFICES ASSUME NEW k \in Updates, target[out[k].req] = target[r], out[k].req # r
                 PROVE  pc[out[k].req] \in {"reply", "done"}
      OBVIOUS
    <2>1. pc[out[k].req] \in {"run", "reply", "done"}
      BY DEF IInv, StreamsExact
    <2>2. pc[out[k].req] # "run"
      BY <1>1, <1>5 DEF IInv, LocksExact
    <2> QED
      BY <2>1, <2>2
  <1>6. StreamsExact' /\ UpdatesGrouped'
    <2>1. UNCHANGED <<pc, target>>
      BY <1>1
    <2>2. \A j, k \in Updates : SameSession(j, k)' = SameSession(j, k)
      BY <1>5, <2>1 DEF SameSession
    <2>3. StreamsExact'
      <3>1. \A k \in Updates' : pc'[out'[k].req] \in {"run", "reply", "done"}
        BY <1>1, <1>5, <2>1 DEF IInv, StreamsExact
      <3>2. ASSUME NEW j \in Updates', NEW k \in Updates', j < k, SameSession(j, k)', out'[j].req # out'[k].req
            PROVE  pc'[out'[j].req] \in {"reply", "done"}
        <4>1. j \in Updates
          BY <1>2, <1>5, <3>2
        <4>2. CASE k \in Updates
          BY <1>5, <2>1, <2>2, <3>2, <4>1, <4>2 DEF IInv, StreamsExact
        <4>3. CASE k = Len(out) + 1
          BY <1>5, <1>7, <2>1, <3>2, <4>1, <4>3 DEF SameSession
        <4> QED
          BY <1>5, <4>2, <4>3
      <3> QED
        BY <3>1, <3>2 DEF StreamsExact
    <2>4. ASSUME NEW j \in Updates', NEW k \in Updates', NEW l \in Updates', j < k, k < l,
                 out'[j].req = out'[l].req, SameSession(j, k)', out'[k].req # out'[j].req
          PROVE  FALSE
      <3>1. j \in Updates /\ k \in Updates
        BY <1>2, <1>5, <2>4
      <3>2. CASE l \in Updates
        BY <1>5, <2>2, <2>4, <3>1, <3>2 DEF IInv, UpdatesGrouped
      <3>3. CASE l = Len(out) + 1
        <4>1. pc[out[j].req] \in {"reply", "done"} /\ out[j].req = r
          BY <1>5, <2>2, <2>4, <3>1, <3>3 DEF IInv, StreamsExact
        <4> QED
          BY <1>1, <4>1
      <3> QED
        BY <1>5, <3>2, <3>3
    <2> QED
      BY <2>3, <2>4 DEF UpdatesGrouped
  <1> QED
    BY <1>3, <1>4, <1>6 DEF IInv

\* A run ends and releases the mutex.
LEMMA EndRunInvariant ==
    ASSUME IInv, NEW r \in Reqs, EndRun(r)
    PROVE  IInv'
  <1> DEFINE s == target[r]
  <1>1. /\ pc[r] = "run" /\ pc' = [pc EXCEPT ![r] = "reply"] /\ "reply" \in Stages \ {"unread", "start"}
        /\ lock' = [lock EXCEPT ![s] = 0] /\ midRun' = [midRun EXCEPT ![s] = FALSE]
        /\ UNCHANGED <<serve, ctx, line, seq, newID, sessions, target, torn, events, out, acked, ackedFor>>
    BY DEF EndRun, Stages
  <1>2. s \in Reqs
    BY <1>1, HasTarget
  <1>3. /\ pc' \in [Reqs -> Stages] /\ pc'[r] = "reply" /\ \A q \in Reqs \ {r} : pc'[q] = pc[q]
        /\ Read' = Read /\ StreamsExact' /\ UpdatesGrouped' /\ ClosedStaysClosed' /\ IdsExact'
        /\ \A i : Settled(i) => Settled(i)'
    BY <1>1, HandlerFrame
  <1>4. TypeOK'
    BY <1>1, <1>2, <1>3, BoundsAssumption DEF IInv, TypeOK
  <1>5. Progress'
    BY <1>1, <1>3 DEF IInv, Progress
  <1>6. LocksExact'
    <2>1. \A q \in Reqs \ {r} : pc[q] = "run" => target[q] # s /\ target[q] \in Reqs
      BY <1>1, HasTarget DEF IInv, LocksExact, Reqs
    <2>2. /\ midRun'[s] = FALSE
          /\ \A t \in Reqs \ {s} : lock'[t] = lock[t] /\ midRun'[t] = midRun[t]
      BY <1>1, <1>2 DEF IInv, TypeOK
    <2>3. \A q \in Reqs : pc'[q] = "run" => lock'[target'[q]] = q
      BY <1>1, <1>3, <2>1, <2>2 DEF IInv, LocksExact
    <2>4. \A t \in Reqs : midRun'[t] => lock'[t] # 0
      BY <2>2 DEF IInv, LocksExact
    <2> QED
      BY <1>1, <2>3, <2>4 DEF IInv, LocksExact
  <1>7. TableExact'
    BY <1>1, <1>3, TableFrame
  <1> QED
    BY <1>3, <1>4, <1>5, <1>6, <1>7 DEF IInv

\* A snapshot is taken while the session is free.
LEMMA TakeSnapshotInvariant ==
    ASSUME IInv, NEW r \in Reqs, TakeSnapshot(r)
    PROVE  IInv'
  <1>1. /\ pc[r] = "lock" /\ pc' = [pc EXCEPT ![r] = "reply"] /\ "reply" \in Stages \ {"unread", "start"}
        /\ lock[target[r]] = 0 /\ torn' = (torn \/ midRun[target[r]])
        /\ UNCHANGED <<serve, ctx, line, seq, newID, sessions, target, lock, midRun, events, out, acked, ackedFor>>
    BY DEF TakeSnapshot, Stages
  <1>2. UNCHANGED torn
    <2>1. target[r] \in Reqs
      BY <1>1, HasTarget
    <2>2. ~midRun[target[r]] /\ ~torn /\ torn \in BOOLEAN
      BY <1>1, <2>1 DEF IInv, LocksExact, TypeOK
    <2> QED
      BY <1>1, <2>2
  <1>3. /\ pc' \in [Reqs -> Stages] /\ pc'[r] = "reply" /\ \A q \in Reqs \ {r} : pc'[q] = pc[q]
        /\ Read' = Read /\ StreamsExact' /\ UpdatesGrouped' /\ ClosedStaysClosed' /\ IdsExact'
        /\ LocksExact' /\ \A i : Settled(i) => Settled(i)'
    BY <1>1, <1>2, HandlerFrame
  <1>4. TypeOK'
    BY <1>1, <1>2, <1>3 DEF IInv, TypeOK
  <1>5. Progress'
    BY <1>1, <1>3 DEF IInv, Progress
  <1>6. TableExact'
    BY <1>1, <1>3, TableFrame
  <1> QED
    BY <1>3, <1>4, <1>5, <1>6 DEF IInv

\* A session leaves the table; its id is settled.
LEMMA CloseSessionInvariant ==
    ASSUME IInv, NEW r \in Reqs, CloseSession(r)
    PROVE  IInv'
  <1> DEFINE i == line[r].id
             found == sessions[i]
  <1>1. /\ pc[r] = "start" /\ pc' = [pc EXCEPT ![r] = "reply"] /\ "reply" \in Stages \ {"unread", "start"}
        /\ target' = [target EXCEPT ![r] = found] /\ sessions' = [sessions EXCEPT ![i] = 0]
        /\ UNCHANGED <<serve, ctx, line, seq, newID, lock, midRun, torn, events, out, acked, ackedFor>>
    BY DEF CloseSession, Stages
  <1>2. r \in Read /\ i \in Ids \cup {0}
    BY <1>1, InProgress
  <1>3. found \in 0 .. MaxReqs /\ (found # 0 => i \notin acked /\ Settled(i))
    BY <1>2 DEF IInv, TypeOK, TableExact
  <1> HIDE DEF found
  <1>5. target'[r] = found /\ \A q \in Reqs \ {r} : target'[q] = target[q]
    BY <1>1 DEF IInv, TypeOK
  <1>4. /\ pc' \in [Reqs -> Stages] /\ pc'[r] = "reply" /\ \A q \in Reqs \ {r} : pc'[q] = pc[q]
        /\ Read' = Read /\ StreamsExact' /\ UpdatesGrouped' /\ IdsExact'
        /\ \A q \in Reqs : Want(q)' = Want(q)
        /\ \A j : Settled(j) => Settled(j)'
    BY <1>1, <1>5, HandlerFrame
  <1>6. TypeOK'
    <2>1. target' \in [Reqs -> 0 .. MaxReqs]
      BY <1>1, <1>3 DEF IInv, TypeOK
    <2>2. 0 \in 0 .. MaxReqs
      BY BoundsAssumption
    <2>3. sessions' \in [Ids \cup {0} -> 0 .. MaxReqs]
      BY <1>1, <2>2 DEF IInv, TypeOK
    <2> QED
      BY <1>1, <1>4, <2>1, <2>3 DEF IInv, TypeOK
  <1>7. Progress'
    BY <1>1, <1>4, <1>5 DEF IInv, Progress
  <1>8. LocksExact'
    BY <1>1, <1>4, <1>5 DEF IInv, LocksExact
  <1>9. Read \subseteq Reqs /\ \A q \in Read : line[q].id \in Ids \cup {0}
    BY LinesTyped DEF IInv
  <1>10. \A j \in Ids \cup {0} : sessions'[j] = IF j = i THEN 0 ELSE sessions[j]
    BY <1>1 DEF IInv, TypeOK
  <1>11. TableExact'
    <2>1. sessions'[0] = 0 /\ \A j \in Ids : sessions'[j] # 0 => Settled(j)'
      BY <1>4, <1>10 DEF IInv, TableExact
    <2>2. \A j \in acked' : Settled(j)' /\ sessions'[j] = 0
      BY <1>1, <1>4, <1>10 DEF IInv, TableExact, TypeOK
    <2>3. \A q \in Read : (Want(q) = "close" /\ target'[q] # 0) =>
                             Settled(line[q].id)' /\ sessions'[line[q].id] = 0
      <3> SUFFICES ASSUME NEW q \in Read, Want(q) = "close", target'[q] # 0
                   PROVE  Settled(line[q].id)' /\ sessions'[line[q].id] = 0
        BY <1>1
      <3>1. Settled(line[q].id) /\ (q = r \/ sessions[line[q].id] = 0)
        BY <1>3, <1>5, <1>9 DEF IInv, TableExact
      <3>2. line[q].id \in Ids \cup {0}
        BY <1>9
      <3>3. sessions'[line[q].id] = 0
        BY <1>10, <3>1, <3>2
      <3> QED
        BY <1>1, <1>4, <3>1, <3>3
    <2> QED
      BY <1>1, <1>4, <1>9, <2>1, <2>2, <2>3 DEF IInv, TableExact
  <1>12. ClosedStaysClosed'
    BY <1>1, <1>3, <1>4, <1>5, <1>9 DEF IInv, ClosedStaysClosed, TableExact
  <1> QED
    BY <1>4, <1>6, <1>7, <1>8, <1>11, <1>12 DEF IInv

\* A line is answered, or ends without an answer.
LEMMA ReplyInvariant ==
    ASSUME IInv, NEW r \in Reqs, Reply(r)
    PROVE  IInv'
  <1>1. /\ pc[r] = "reply" /\ pc' = [pc EXCEPT ![r] = "done"] /\ "done" \in Stages \ {"unread", "start"}
        /\ out' = out \/ out' = Wrote("reply", r)
        /\ acked' = acked \/ (Want(r) = "close" /\ target[r] # 0 /\ acked' = acked \cup {line[r].id})
        /\ UNCHANGED <<serve, ctx, line, seq, newID, sessions, target, lock, midRun, torn, events, ackedFor>>
    BY DEF Reply, Stages
  <1>2. r \in Read /\ line[r].id \in Ids \cup {0}
    BY <1>1, InProgress
  <1>3. /\ pc' \in [Reqs -> Stages] /\ pc'[r] = "done" /\ \A q \in Reqs \ {r} : pc'[q] = pc[q]
        /\ Read' = Read /\ ClosedStaysClosed' /\ IdsExact' /\ LocksExact'
        /\ \A q \in Reqs : Want(q)' = Want(q)
        /\ \A i : Settled(i) => Settled(i)'
    BY <1>1, HandlerFrame
  <1>4. Want(r) = "close" /\ target[r] # 0 => Settled(line[r].id) /\ sessions[line[r].id] = 0
    BY <1>2 DEF IInv, TableExact
  <1>5. Want(r) = "close" /\ target[r] # 0 => line[r].id \in Ids
    <2>1. ~Settled(0)
      BY DEF Settled
    <2> QED
      BY <1>2, <1>4, <2>1
  <1>6. out' \in Seq(Records)
    <2>1. out \in Seq(Records)
      BY DEF IInv, TypeOK, Records
    <2> QED
      BY <1>1, <2>1, WroteExact DEF IInv
  <1>7. TypeOK'
    <2>1. acked' \in SUBSET Ids
      BY <1>1, <1>5 DEF IInv, TypeOK
    <2> QED
      BY <1>1, <1>3, <1>6, <2>1 DEF IInv, TypeOK, Records
  <1>8. Progress'
    BY <1>1, <1>3 DEF IInv, Progress
  <1>9. TableExact'
    <2>1. \A i \in acked' : Settled(i)' /\ sessions'[i] = 0
      BY <1>1, <1>3, <1>4 DEF IInv, TableExact
    <2>2. Read \subseteq Reqs
      BY LinesTyped DEF IInv
    <2>3. \A q \in Reqs : ackedFor'[q] \subseteq acked'
      BY <1>1 DEF IInv, TableExact
    <2> QED
      BY <1>1, <1>3, <2>1, <2>2, <2>3 DEF IInv, TableExact
  <1>11. DOMAIN out = 1 .. Len(out) /\ Len(out) \in Nat
    BY OutTyped DEF IInv
  <1>12. Updates' = Updates /\ \A k \in Updates : out'[k] = out[k]
    <2>1. CASE out' = out
      BY <2>1 DEF Updates
    <2>2. CASE out' = Wrote("reply", r)
      <3>4. /\ DOMAIN out' = 1 .. Len(out) + 1
            /\ \A k \in 1 .. Len(out) : out'[k] = out[k]
            /\ out'[Len(out) + 1] = [kind |-> "reply", req |-> r]
        BY <2>2, WroteExact DEF IInv
      <3>1. /\ DOMAIN out' = 1 .. Len(out) + 1
            /\ \A k \in 1 .. Len(out) : out'[k] = out[k]
            /\ out'[Len(out) + 1].kind = "reply"
        BY <3>4
      <3>2. Updates' = {k \in 1 .. Len(out) + 1 : out'[k].kind = "update"}
        BY <3>1 DEF Updates
      <3>3. Updates = {k \in 1 .. Len(out) : out[k].kind = "update"}
        BY <1>11 DEF Updates
      <3> QED
        BY <1>11, <3>1, <3>2, <3>3
    <2> QED
      BY <1>1, <2>1, <2>2
  <1>13. StreamsExact' /\ UpdatesGrouped'
    BY <1>1, <1>3, <1>12, StreamFrame
  <1> QED
    BY <1>3, <1>7, <1>8, <1>9, <1>13 DEF IInv

\* Serve itself touches no session.
LEMMA ServeInvariant ==
    ASSUME IInv, ReadFails \/ ServeReturns \/ HostCancels \/ UNCHANGED vars
    PROVE  IInv'
  <1>1. /\ UNCHANGED <<line, pc, seq, newID, sessions, target, lock, midRun, torn, events, out, acked, ackedFor>>
        /\ serve' \in {"reading", "waiting", "returned"} /\ ctx' \in BOOLEAN
    BY DEF ReadFails, ServeReturns, HostCancels, vars, IInv, TypeOK
  <1>2. TypeOK'
    BY <1>1 DEF IInv, TypeOK
  <1>3. Progress' /\ LocksExact' /\ IdsExact' /\ TableExact' /\ ClosedStaysClosed'
    BY <1>1 DEF IInv, Progress, LocksExact, IdsExact, TableExact, Settled, Want, ClosedStaysClosed, Read
  <1>4. StreamsExact' /\ UpdatesGrouped'
    BY <1>1, StreamFrame DEF Updates
  <1> QED
    BY <1>2, <1>3, <1>4 DEF IInv

\* The inductive invariant: mutexes, ids, the table of sessions and the output agree with
\* where the goroutines are.
THEOREM InvariantHolds == Spec => []IInv
  <1>1. Init => IInv
    <2> SUFFICES ASSUME Init PROVE IInv
      OBVIOUS
    <2>1. 0 \in 0 .. MaxReqs /\ 0 \in 0 .. MaxEvents /\ Reqs \subseteq Nat \ {0}
      BY BoundsAssumption DEF Reqs
    <2>2. /\ line = <<>> /\ Len(line) = 0 /\ out = <<>> /\ DOMAIN out = {}
          /\ line \in Seq(Lines) /\ out \in Seq([kind : {"update", "reply"}, req : Reqs])
      BY DEF Init
    <2>3. TypeOK
      BY <2>1, <2>2, BoundsAssumption DEF Init, TypeOK, Stages
    <2>4. Progress /\ LocksExact
      BY <2>1, <2>2 DEF Init, Progress, LocksExact
    <2>5. IdsExact
      <3>1. {r \in Reqs : newID[r] # 0} = {}
        BY DEF Init
      <3>2. Cardinality({r \in Reqs : newID[r] # 0}) = 0
        BY <3>1, FS_EmptySet
      <3>3. seq = 0 /\ \A r \in Reqs : newID[r] = 0
        BY DEF Init
      <3> QED
        BY <3>2, <3>3 DEF IdsExact
    <2>6. Read = {}
      BY <2>2 DEF Read
    <2>7. TableExact
      BY <2>6 DEF Init, TableExact
    <2>8. StreamsExact /\ UpdatesGrouped
      BY <2>2 DEF StreamsExact, UpdatesGrouped, Updates
    <2>9. ClosedStaysClosed
      BY <2>6 DEF ClosedStaysClosed
    <2> QED
      BY <2>3, <2>4, <2>5, <2>7, <2>8, <2>9 DEF IInv
  <1>2. IInv /\ [Next]_vars => IInv'
    <2> SUFFICES ASSUME IInv, [Next]_vars PROVE IInv'
      OBVIOUS
    <2>1. ASSUME NEW r \in Reqs, HandlerStep(r)
          PROVE  IInv'
      BY <2>1, HandleSimpleInvariant, AllocateIDInvariant, StoreSessionInvariant, LookupInvariant,
         StartRunInvariant, EmitEventInvariant, EndRunInvariant, TakeSnapshotInvariant,
         CloseSessionInvariant, ReplyInvariant DEF HandlerStep
    <2>2. ASSUME NEW s \in Scripts, Len(line) < Len(s), ReadLine(s[Len(line) + 1])
          PROVE  IInv'
      <3>1. s \in Seq(Lines) /\ Len(line) \in Nat
        BY ScriptsAssumption DEF IInv, TypeOK
      <3>2. s[Len(line) + 1] \in Lines
        BY <2>2, <3>1
      <3> QED
        BY <2>2, <3>2, ReadLineInvariant
    <2> QED
      BY <2>1, <2>2, ServeInvariant DEF Next, Returned
  <1> QED
    BY <1>1, <1>2, PTL DEF Spec

\* A session never has two runs at a time, and no snapshot shows half a run, whatever is
\* opened, prompted and closed at the same time.
THEOREM RunsAreExclusive == Spec => []SessionExclusive
  <1>1. IInv => SessionExclusive
    BY LinesTyped DEF IInv, LocksExact, SessionExclusive
  <1> QED
    BY <1>1, InvariantHolds, PTL

\* A line sent after the acknowledgement of a close does not reach the closed session.
THEOREM ClosedIsClosed == Spec => []ClosedStaysClosed
  <1>1. IInv => ClosedStaysClosed
    BY DEF IInv
  <1> QED
    BY <1>1, InvariantHolds, PTL

\* The updates of two prompts on one session do not alternate.
THEOREM UpdatesAreGrouped == Spec => []UpdatesGrouped
  <1>1. IInv => UpdatesGrouped
    BY DEF IInv
  <1> QED
    BY <1>1, InvariantHolds, PTL

=============================================================================
