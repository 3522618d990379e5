-------------------------- MODULE McpClientProofs --------------------------
(***************************************************************************)
(* Proofs about McpClient, for any set of calls, any pipes and any habits  *)
(* of the server: a call gets its own answer or none, the reader never     *)
(* waits for a caller, and calls that have returned leave nothing behind.  *)
(* And about Toolset, for any servers, prefixes and pages: what the tools  *)
(* that such clients list become in an agent.                              *)
(***************************************************************************)
EXTENDS McpClient, Toolset, InductionTheorems, TLAPS

-----------------------------------------------------------------------------
(* Messages                                                                *)

AllFaithful(s) == \A k \in 1 .. Len(s) : Faithful(s[k])

\* Adding a message to a pipe, and taking the first one out.
LEMMA Pipes ==
    ASSUME NEW s \in Seq(Messages), AllFaithful(s)
    PROVE  /\ \A m \in Messages : Faithful(m) => Append(s, m) \in Seq(Messages) /\ AllFaithful(Append(s, m))
           /\ s # <<>> => /\ Head(s) \in Messages /\ Faithful(Head(s))
                          /\ Tail(s) \in Seq(Messages) /\ AllFaithful(Tail(s))
  <1>1. ASSUME NEW m \in Messages, Faithful(m)
        PROVE  Append(s, m) \in Seq(Messages) /\ AllFaithful(Append(s, m))
    <2>1. /\ Append(s, m) \in Seq(Messages) /\ Len(Append(s, m)) = Len(s) + 1 /\ Len(s) \in Nat
          /\ \A k \in 1 .. Len(s) : Append(s, m)[k] = s[k]
          /\ Append(s, m)[Len(s) + 1] = m
      OBVIOUS
    <2>2. \A k \in 1 .. Len(s) + 1 : k \in 1 .. Len(s) \/ k = Len(s) + 1
      BY <2>1
    <2> QED
      BY <1>1, <2>1, <2>2 DEF AllFaithful
  <1>2. ASSUME s # <<>>
        PROVE  /\ Head(s) \in Messages /\ Faithful(Head(s))
               /\ Tail(s) \in Seq(Messages) /\ AllFaithful(Tail(s))
    <2>1. /\ Len(s) \in Nat \ {0} /\ Head(s) = s[1] /\ s[1] \in Messages
          /\ Tail(s) \in Seq(Messages) /\ Len(Tail(s)) = Len(s) - 1
          /\ \A k \in 1 .. Len(s) - 1 : Tail(s)[k] = s[k + 1]
      BY <1>2
    <2>2. 1 \in 1 .. Len(s) /\ \A k \in 1 .. Len(s) - 1 : k + 1 \in 1 .. Len(s)
      BY <2>1
    <2> QED
      BY <2>1, <2>2 DEF AllFaithful
  <1> QED
    BY <1>1, <1>2

\* The messages the client makes are messages.
LEMMA MessagesMade ==
    /\ \A kind \in {"none", "error", "canceled", "closed"} :
          Outcome(kind) \in Messages /\ Outcome(kind).kind = kind
    /\ \A c \in Calls, i \in Nat :
          /\ Message("call", i, c) \in Messages
          /\ Message("call", i, c).id = i /\ Message("call", i, c).of = c
    /\ Message("decline", 0, Nobody) \in Messages /\ Faithful(Message("decline", 0, Nobody))
  BY DEF Message, Outcome, Messages, Faithful

\* What the server writes for a call is faithful, whichever habit it follows.
LEMMA WrittenFaithful ==
    ASSUME IInv, NEW m \in Messages, m.kind = "call", Faithful(m), NEW kind \in Kinds
    PROVE  Written(kind, m) \in Messages /\ Faithful(Written(kind, m))
  <1>1. m.of \in Calls /\ m.id \in Nat \ {0} /\ id[m.of] = m.id
    BY DEF Faithful, Messages
  <1>2. CASE kind = "previous" /\ m.id > 1
    <2>1. m.id <= nextID /\ nextID \in Nat
      BY <1>1 DEF IInv, IdsExact, TypeOK
    <2>2. m.id - 1 \in 1 .. nextID
      BY <1>1, <1>2, <2>1
    <2>3. PICK c \in Calls : id[c] = m.id - 1
      BY <2>2 DEF IInv, IdsExact
    <2> DEFINE d == CHOOSE e \in Calls : id[e] = m.id - 1
    <2>4. d \in Calls /\ id[d] = m.id - 1
      BY <2>3
    <2>5. Written(kind, m) = Message("answer", m.id - 1, d)
      BY <1>2 DEF Written
    <2> HIDE DEF d
    <2> QED
      BY <2>2, <2>4, <2>5, <1>1 DEF Message, Messages, Faithful
  <1>3. CASE ~(kind = "previous" /\ m.id > 1)
    <2>1. Written(kind, m) = Message(IF kind = "previous" THEN "garbage" ELSE kind, m.id, m.of)
      BY <1>3 DEF Written
    <2> QED
      BY <1>1, <2>1 DEF Message, Messages, Faithful, Kinds
  <1> QED
    BY <1>2, <1>3

-----------------------------------------------------------------------------
(* Calls                                                                   *)

\* A call gets an id nobody had.
LEMMA BeginInvariant ==
    ASSUME IInv, NEW c \in Calls, Begin(c)
    PROVE  IInv'
  <1> USE DEF serverVars
  <1>1. /\ pc[c] = "idle" /\ id[c] = 0 /\ nextID \in Nat /\ nextID' = nextID + 1
        /\ pending' = pending \cup {nextID + 1}
        /\ UNCHANGED <<ctx, chan, result, wmu, done, reader, sendTo, held, closing, toServer, toClient, up, owes>>
    BY DEF Begin, IInv, IdsExact, TypeOK
  <1>2. /\ id' \in [Calls -> Nat] /\ id'[c] = nextID + 1 /\ \A d \in Calls \ {c} : id'[d] = id[d]
        /\ pc' \in [Calls -> {"idle", "write", "writing", "select", "done"}]
        /\ pc'[c] = "write" /\ \A d \in Calls \ {c} : pc'[d] = pc[d]
    BY <1>1 DEF Begin, IInv, TypeOK
  <1>3. \A d \in Calls : id[d] \in Nat /\ id[d] <= nextID
    BY <1>1 DEF IInv, IdsExact, TypeOK
  <1>4. TypeOK'
    BY <1>1, <1>2 DEF IInv, TypeOK
  <1>5. IdsExact'
    <2>1. \A d \in Calls : IF pc'[d] = "idle" THEN id'[d] = 0 ELSE id'[d] \in 1 .. nextID'
      BY <1>1, <1>2, <1>3 DEF IInv, IdsExact
    <2>2. \A d, e \in Calls : (id'[d] = id'[e] /\ id'[d] # 0) => d = e
      BY <1>1, <1>2, <1>3 DEF IInv, IdsExact
    <2>3. \A i \in 1 .. nextID' : \E d \in Calls : id'[d] = i
      <3> SUFFICES ASSUME NEW i \in 1 .. nextID + 1
                   PROVE  \E d \in Calls : id'[d] = i
        BY <1>1
      <3>1. CASE i = nextID + 1
        BY <1>2, <3>1
      <3>2. CASE i # nextID + 1
        <4>1. i \in 1 .. nextID
          BY <1>1, <3>2
        <4>2. PICK d \in Calls : id[d] = i
          BY <4>1 DEF IInv, IdsExact
        <4> QED
          BY <1>1, <1>2, <4>1, <4>2
      <3> QED
        BY <3>1, <3>2
    <2> QED
      BY <2>1, <2>2, <2>3 DEF IdsExact
  <1>6. PendingExact'
    <2> SUFFICES ASSUME NEW i \in pending'
                 PROVE  \E d \in Calls : InFlight(d)' /\ id'[d] = i
      BY DEF PendingExact
    <2>1. CASE i = nextID + 1
      BY <1>2, <2>1 DEF InFlight
    <2>2. CASE i # nextID + 1
      <3>1. PICK d \in Calls : InFlight(d) /\ id[d] = i
        BY <1>1, <2>2 DEF IInv, PendingExact
      <3>2. d # c
        BY <1>1, <3>1 DEF InFlight
      <3> QED
        BY <1>2, <3>1, <3>2 DEF InFlight
    <2> QED
      BY <2>1, <2>2
  <1>7. MessagesFaithful'
    <2>1. \A m : Faithful(m) => Faithful(m)'
      BY <1>1, <1>2 DEF Faithful
    <2> QED
      BY <1>1, <2>1 DEF IInv, MessagesFaithful
  <1>8. Routed'
    <2>1. chan[c] = <<>> /\ (reader = "send" => sendTo \in Calls /\ sendTo # c)
      BY <1>1 DEF IInv, Routed
    <2>2. \A d \in Calls \ {c} : id'[d] \in pending' => id[d] \in pending
      BY <1>1, <1>2, <1>3
    <2> QED
      BY <1>1, <1>2, <1>3, <2>1, <2>2 DEF IInv, Routed
  <1>9. OwnAnswer'
    BY <1>1 DEF IInv, OwnAnswer
  <1>10. NothingLeftPending'
    BY <1>1, <1>2, <1>3 DEF IInv, NothingLeftPending
  <1> QED
    BY <1>4, <1>5, <1>6, <1>7, <1>8, <1>9, <1>10 DEF IInv

\* A call that is not yet over moves on.
LEMMA MovesOn ==
    ASSUME IInv, NEW c \in Calls, InFlight(c), NEW at \in {"write", "writing", "select"},
           pc' = [pc EXCEPT ![c] = at], UNCHANGED <<id, nextID, pending, result>>
    PROVE  /\ pc' \in [Calls -> {"idle", "write", "writing", "select", "done"}]
           /\ IdsExact' /\ PendingExact' /\ NothingLeftPending'
  <1>1. /\ pc' \in [Calls -> {"idle", "write", "writing", "select", "done"}]
        /\ pc'[c] = at /\ \A d \in Calls \ {c} : pc'[d] = pc[d]
    BY DEF IInv, TypeOK
  <1>2. \A d \in Calls : InFlight(d) => InFlight(d)'
    BY <1>1 DEF InFlight
  <1>3. \A d \in Calls : (pc'[d] = "idle" <=> pc[d] = "idle") /\ (pc'[d] = "done" => pc[d] = "done")
    BY <1>1 DEF InFlight
  <1>4. IdsExact'
    BY <1>3 DEF IInv, IdsExact
  <1>5. PendingExact'
    BY <1>2 DEF IInv, PendingExact
  <1>6. NothingLeftPending'
    BY <1>3 DEF IInv, NothingLeftPending
  <1> QED
    BY <1>1, <1>4, <1>5, <1>6

\* A call returns and its id is taken out of pending.
LEMMA Finishes ==
    ASSUME IInv, NEW c \in Calls, InFlight(c), NEW r \in Messages, Finish(c, r), UNCHANGED <<id, nextID>>
    PROVE  /\ pc' \in [Calls -> {"idle", "write", "writing", "select", "done"}]
           /\ result' \in [Calls -> Messages] /\ pending' \in SUBSET Nat /\ pending' \subseteq pending
           /\ result'[c] = r /\ \A d \in Calls \ {c} : result'[d] = result[d]
           /\ IdsExact' /\ PendingExact' /\ NothingLeftPending'
  <1>1. /\ pc' \in [Calls -> {"idle", "write", "writing", "select", "done"}]
        /\ pc'[c] = "done" /\ \A d \in Calls \ {c} : pc'[d] = pc[d]
        /\ result' \in [Calls -> Messages]
        /\ result'[c] = r /\ \A d \in Calls \ {c} : result'[d] = result[d]
        /\ pending' = pending \ {id[c]} /\ pending' \in SUBSET Nat
    BY DEF IInv, TypeOK, Finish
  <1>2. id[c] # 0
    BY DEF IInv, IdsExact, InFlight
  <1>3. IdsExact'
    BY <1>1 DEF IInv, IdsExact, InFlight
  <1>4. PendingExact'
    <2> SUFFICES ASSUME NEW i \in pending'
                 PROVE  \E d \in Calls : InFlight(d)' /\ id'[d] = i
      BY DEF PendingExact
    <2>1. PICK d \in Calls : InFlight(d) /\ id[d] = i
      BY <1>1 DEF IInv, PendingExact
    <2>2. d # c
      BY <1>1, <2>1
    <2> QED
      BY <1>1, <2>1, <2>2 DEF InFlight
  <1>5. NothingLeftPending'
    BY <1>1 DEF IInv, NothingLeftPending
  <1> QED
    BY <1>1, <1>3, <1>4, <1>5

\* The pipes stay faithful while no call gets an id.
LEMMA PipesFrame ==
    ASSUME IInv, UNCHANGED id, toServer' = toServer \/ AllFaithful(toServer'),
           toClient' = toClient \/ AllFaithful(toClient'), owes' = owes \/ AllFaithful(owes')
    PROVE  MessagesFaithful'
  <1>1. \A m : Faithful(m)' <=> Faithful(m)
    BY DEF Faithful
  <1> QED
    BY <1>1 DEF IInv, MessagesFaithful, AllFaithful

\* A call writes its request, or fails to, or is over: every step of a call keeps the invariant.
LEMMA CallStepInvariant ==
    ASSUME IInv, NEW c \in Calls, CallStep(c) \/ Cancel(c)
    PROVE  IInv'
  <1> USE DEF serverVars, clientVars
  <1>1. CASE LockWrite(c)
    <2>1. InFlight(c) /\ pc' = [pc EXCEPT ![c] = "writing"] /\ wmu' = c
          /\ UNCHANGED <<id, ctx, chan, result, nextID, pending, done, reader, sendTo, held, closing,
                         toServer, toClient, up, owes>>
      BY <1>1 DEF LockWrite, InFlight
    <2>2. /\ pc' \in [Calls -> {"idle", "write", "writing", "select", "done"}]
          /\ IdsExact' /\ PendingExact' /\ NothingLeftPending'
      BY <2>1, MovesOn
    <2>3. TypeOK'
      BY <2>1, <2>2 DEF IInv, TypeOK
    <2>4. MessagesFaithful'
      BY <2>1, PipesFrame
    <2> QED
      BY <2>1, <2>2, <2>3, <2>4 DEF IInv, Routed, OwnAnswer
  <1>2. CASE WriteRequest(c)
    <2>1. InFlight(c) /\ pc[c] = "writing" /\ pc' = [pc EXCEPT ![c] = "select"] /\ wmu' = Nobody
          /\ toServer' = Append(toServer, Message("call", id[c], c))
          /\ UNCHANGED <<id, ctx, chan, result, nextID, pending, done, reader, sendTo, held, closing,
                         toClient, up, owes>>
      BY <1>2 DEF WriteRequest, InFlight
    <2>2. /\ pc' \in [Calls -> {"idle", "write", "writing", "select", "done"}]
          /\ IdsExact' /\ PendingExact' /\ NothingLeftPending'
      BY <2>1, MovesOn
    <2>3. Message("call", id[c], c) \in Messages /\ Faithful(Message("call", id[c], c))
      <3>1. id[c] \in Nat /\ id[c] # 0
        BY <2>1 DEF IInv, TypeOK, IdsExact
      <3> QED
        BY <3>1, MessagesMade DEF Faithful
    <2>4. toServer \in Seq(Messages) /\ AllFaithful(toServer)
      BY DEF IInv, TypeOK, MessagesFaithful, AllFaithful
    <2>5. toServer' \in Seq(Messages) /\ AllFaithful(Append(toServer, Message("call", id[c], c)))
      BY <2>1, <2>3, <2>4, Pipes
    <2>6. TypeOK'
      BY <2>1, <2>2, <2>5 DEF IInv, TypeOK
    <2>7. MessagesFaithful'
      BY <2>1, <2>5, PipesFrame
    <2> QED
      BY <2>1, <2>2, <2>6, <2>7 DEF IInv, Routed, OwnAnswer
  <1>3. CASE WriteFails(c)
    <2>1. InFlight(c) /\ Finish(c, Outcome("error")) /\ wmu' = Nobody
          /\ UNCHANGED <<id, ctx, chan, nextID, done, reader, sendTo, held, closing,
                         toServer, toClient, up, owes>>
      BY <1>3 DEF WriteFails, InFlight
    <2>2. Outcome("error") \in Messages /\ Outcome("error").kind # "answer"
      BY MessagesMade
    <2>3. /\ pc' \in [Calls -> {"idle", "write", "writing", "select", "done"}]
          /\ result' \in [Calls -> Messages] /\ pending' \in SUBSET Nat /\ pending' \subseteq pending
          /\ result'[c] = Outcome("error") /\ \A d \in Calls \ {c} : result'[d] = result[d]
          /\ IdsExact' /\ PendingExact' /\ NothingLeftPending'
      BY <2>1, <2>2, Finishes
    <2>4. TypeOK'
      BY <2>1, <2>3 DEF IInv, TypeOK
    <2>5. MessagesFaithful'
      BY <2>1, PipesFrame
    <2>6. Routed' /\ OwnAnswer'
      BY <2>1, <2>2, <2>3 DEF IInv, Routed, OwnAnswer
    <2> QED
      BY <2>3, <2>4, <2>5, <2>6 DEF IInv
  <1>4. CASE Select(c)
    <2>1. InFlight(c)
          /\ UNCHANGED <<id, ctx, nextID, wmu, done, reader, sendTo, held, closing, toServer, toClient, up, owes>>
      BY <1>4 DEF Select, InFlight
    <2>2. PICK r : /\ Finish(c, r)
                   /\ \/ r \in {Outcome("canceled"), Outcome("closed")} /\ UNCHANGED chan
                      \/ chan[c] # <<>> /\ r = Head(chan[c]) /\ chan' = [chan EXCEPT ![c] = Tail(chan[c])]
      BY <1>4 DEF Select
    <2>3. /\ chan' \in [Calls -> Seq(Messages)] /\ r \in Messages /\ (r.kind = "answer" => r.of = c)
          /\ \A d \in Calls : chan'[d] = chan[d] \/ chan'[d] = <<>>
      <3>1. CASE r \in {Outcome("canceled"), Outcome("closed")} /\ UNCHANGED chan
        BY <3>1, MessagesMade DEF IInv, TypeOK
      <3>2. CASE chan[c] # <<>> /\ r = Head(chan[c]) /\ chan' = [chan EXCEPT ![c] = Tail(chan[c])]
        <4>1. chan[c] \in Seq(Messages) /\ Len(chan[c]) <= 1 /\ chan[c][1].of = c
          BY <3>2 DEF IInv, TypeOK, Routed
        <4>2. Head(chan[c]) \in Messages /\ Head(chan[c]) = chan[c][1] /\ Tail(chan[c]) = <<>>
              /\ Tail(chan[c]) \in Seq(Messages)
          BY <3>2, <4>1
        <4>3. /\ chan' \in [Calls -> Seq(Messages)] /\ chan'[c] = Tail(chan[c])
              /\ \A d \in Calls \ {c} : chan'[d] = chan[d]
          BY <3>2, <4>2 DEF IInv, TypeOK
        <4> QED
          BY <3>2, <4>1, <4>2, <4>3
      <3> QED
        BY <2>2, <3>1, <3>2
    <2>4. /\ pc' \in [Calls -> {"idle", "write", "writing", "select", "done"}]
          /\ result' \in [Calls -> Messages] /\ pending' \in SUBSET Nat /\ pending' \subseteq pending
          /\ result'[c] = r /\ \A d \in Calls \ {c} : result'[d] = result[d]
          /\ IdsExact' /\ PendingExact' /\ NothingLeftPending'
      BY <2>1, <2>2, <2>3, Finishes
    <2>5. TypeOK'
      BY <2>1, <2>3, <2>4 DEF IInv, TypeOK
    <2>6. MessagesFaithful'
      BY <2>1, PipesFrame
    <2>7. Routed'
      <3>1. \A d \in Calls : Len(chan'[d]) <= 1
        BY <2>3 DEF IInv, Routed
      <3> QED
        BY <2>1, <2>3, <2>4, <3>1 DEF IInv, Routed
    <2>8. OwnAnswer'
      BY <2>1, <2>3, <2>4 DEF IInv, Routed, OwnAnswer
    <2> QED
      BY <2>4, <2>5, <2>6, <2>7, <2>8 DEF IInv
  <1>5. CASE Cancel(c)
    <2>1. /\ ctx' \in [Calls -> BOOLEAN]
          /\ UNCHANGED <<pc, id, chan, result, clientVars, serverVars>>
      BY <1>5 DEF Cancel, IInv, TypeOK
    <2>2. TypeOK'
      BY <2>1 DEF IInv, TypeOK
    <2>3. MessagesFaithful'
      BY <2>1, PipesFrame
    <2> QED
      BY <2>1, <2>2, <2>3 DEF IInv, IdsExact, PendingExact, InFlight, Routed, OwnAnswer, NothingLeftPending
  <1> QED
    BY <1>1, <1>2, <1>3, <1>4, <1>5 DEF CallStep

-----------------------------------------------------------------------------
(* The reader                                                              *)

\* What the invariant says of the calls, while the calls do not move.
LEMMA CallsFrame ==
    ASSUME IInv, UNCHANGED <<pc, id, nextID>>, pending' \subseteq pending
    PROVE  IdsExact' /\ PendingExact' /\ NothingLeftPending'
  BY DEF IInv, IdsExact, PendingExact, InFlight, NothingLeftPending

\* A response is routed to the call it was given for, if that still waits.
LEMMA ReadResponseInvariant ==
    ASSUME IInv, ReadResponse
    PROVE  IInv'
  <1> DEFINE m == Head(toClient)
  <1>1. /\ reader = "read" /\ toClient # <<>> /\ m.kind = "answer" /\ toClient' = Tail(toClient)
        /\ pending' = pending \ {m.id}
        /\ UNCHANGED <<pc, id, ctx, chan, result, nextID, wmu, done, closing, toServer, up, owes>>
    BY DEF ReadResponse, callVars
  <1>2. toClient \in Seq(Messages) /\ AllFaithful(toClient)
    BY DEF IInv, TypeOK, MessagesFaithful, AllFaithful
  <1>3. m \in Messages /\ Faithful(m) /\ Tail(toClient) \in Seq(Messages) /\ AllFaithful(Tail(toClient))
    BY <1>1, <1>2, Pipes
  <1>4. \/ m.id \in pending /\ reader' = "send" /\ held' = m /\ \E c \in Waiting(m.id) : sendTo' = c
        \/ m.id \notin pending /\ UNCHANGED <<sendTo, held, reader>>
    BY DEF ReadResponse
  <1> HIDE DEF m
  <1>5. m.of \in Calls /\ m.id # 0 /\ id[m.of] = m.id
    BY <1>1, <1>3 DEF Faithful
  <1>6. IdsExact' /\ PendingExact' /\ NothingLeftPending'
    BY <1>1, CallsFrame
  <1>7. MessagesFaithful'
    BY <1>1, <1>3, PipesFrame
  <1>8. CASE m.id \in pending /\ reader' = "send" /\ held' = m /\ \E c \in Waiting(m.id) : sendTo' = c
    <2>1. sendTo' = m.of
      BY <1>5, <1>8 DEF Waiting, IInv, IdsExact
    <2>2. chan[m.of] = <<>>
      BY <1>5, <1>8 DEF IInv, Routed
    <2>3. TypeOK'
      BY <1>1, <1>3, <1>5, <1>8, <2>1 DEF IInv, TypeOK
    <2>4. Routed'
      BY <1>1, <1>5, <1>8, <2>1, <2>2 DEF IInv, Routed
    <2>5. OwnAnswer'
      BY <1>1, <2>1, <2>2 DEF IInv, OwnAnswer
    <2> QED
      BY <1>6, <1>7, <2>3, <2>4, <2>5 DEF IInv
  <1>9. CASE m.id \notin pending /\ UNCHANGED <<sendTo, held, reader>>
    <2>1. TypeOK'
      BY <1>1, <1>3, <1>9 DEF IInv, TypeOK
    <2> QED
      BY <1>1, <1>6, <1>7, <1>9, <2>1 DEF IInv, Routed, OwnAnswer
  <1> QED
    BY <1>4, <1>8, <1>9

\* The reader puts the answer into the channel of its call.
LEMMA SendToCallInvariant ==
    ASSUME IInv, SendToCall
    PROVE  IInv'
  <1>1. /\ reader = "send" /\ chan' = [chan EXCEPT ![sendTo] = <<held>>]
        /\ reader' = "read" /\ sendTo' = Nobody /\ held' = Outcome("none")
        /\ UNCHANGED <<pc, id, ctx, result, nextID, pending, wmu, done, closing, toServer, toClient, up, owes>>
    BY DEF SendToCall, serverVars
  <1>2. sendTo \in Calls /\ id[sendTo] \notin pending /\ id[sendTo] # 0 /\ held.kind = "answer"
        /\ held.of = sendTo /\ held \in Messages /\ <<held>> \in Seq(Messages)
    BY <1>1 DEF IInv, Routed, TypeOK
  <1>3. /\ chan' \in [Calls -> Seq(Messages)] /\ chan'[sendTo] = <<held>>
        /\ \A c \in Calls \ {sendTo} : chan'[c] = chan[c]
    BY <1>1, <1>2 DEF IInv, TypeOK
  <1>4. IdsExact' /\ PendingExact' /\ NothingLeftPending'
    BY <1>1, CallsFrame
  <1>5. MessagesFaithful'
    BY <1>1, PipesFrame
  <1>6. TypeOK'
    BY <1>1, <1>3, MessagesMade DEF IInv, TypeOK
  <1>7. Len(<<held>>) = 1 /\ <<held>>[1] = held
    OBVIOUS
  <1>8. Routed'
    BY <1>1, <1>2, <1>3, <1>7 DEF IInv, Routed
  <1>9. OwnAnswer'
    BY <1>1 DEF IInv, OwnAnswer
  <1> QED
    BY <1>4, <1>5, <1>6, <1>8, <1>9 DEF IInv

\* What neither routes an answer nor moves a call.
LEMMA QuietStep ==
    ASSUME IInv, TypeOK', MessagesFaithful', UNCHANGED <<pc, id, chan, result, nextID, pending>>,
           UNCHANGED <<reader, sendTo, held>> \/ reader' # "send"
    PROVE  IInv'
  <1>1. IdsExact' /\ PendingExact' /\ NothingLeftPending'
    BY CallsFrame
  <1> QED
    BY <1>1 DEF IInv, Routed, OwnAnswer

\* Every step of the reader keeps the invariant.
LEMMA ReaderStepInvariant ==
    ASSUME IInv, ReaderStep
    PROVE  IInv'
  <1> USE DEF callVars, clientVars, serverVars
  <1>1. toClient \in Seq(Messages) /\ AllFaithful(toClient) /\ toServer \in Seq(Messages) /\ AllFaithful(toServer)
    BY DEF IInv, TypeOK, MessagesFaithful, AllFaithful
  <1>2. toClient # <<>> => Tail(toClient) \in Seq(Messages) /\ AllFaithful(Tail(toClient))
    BY <1>1, Pipes
  <1>3. CASE ReadOther \/ ReadRequest
    <2>1. /\ toClient # <<>> /\ toClient' = Tail(toClient) /\ reader' \in {reader, "decline"}
          /\ UNCHANGED <<pc, id, ctx, chan, result, nextID, pending, wmu, done, sendTo, held, closing,
                         toServer, up, owes>>
      BY <1>3 DEF ReadOther, ReadRequest
    <2>2. TypeOK'
      BY <1>2, <2>1 DEF IInv, TypeOK
    <2>3. MessagesFaithful'
      BY <1>2, <2>1, PipesFrame
    <2> QED
      BY <2>1, <2>2, <2>3, QuietStep
  <1>4. CASE LockDecline \/ ReadFails
    <2>1. /\ reader' \in {"declining", "stopped"} /\ wmu' \in {wmu, Reader} /\ done' \in BOOLEAN
          /\ UNCHANGED <<pc, id, ctx, chan, result, nextID, pending, sendTo, held, closing,
                         toServer, toClient, up, owes>>
      BY <1>4 DEF LockDecline, ReadFails, IInv, TypeOK
    <2>2. TypeOK'
      BY <2>1 DEF IInv, TypeOK
    <2>3. MessagesFaithful'
      BY <2>1, PipesFrame
    <2> QED
      BY <2>1, <2>2, <2>3, QuietStep
  <1>5. CASE WriteDecline
    <2> DEFINE m == Message("decline", 0, Nobody)
    <2>1. /\ toServer' \in {toServer, Append(toServer, m)} /\ wmu' = Nobody /\ reader' = "read"
          /\ UNCHANGED <<pc, id, ctx, chan, result, nextID, pending, done, sendTo, held, closing,
                         toClient, up, owes>>
      BY <1>5 DEF WriteDecline
    <2>2. Append(toServer, m) \in Seq(Messages) /\ AllFaithful(Append(toServer, m))
      BY <1>1, MessagesMade, Pipes
    <2> HIDE DEF m
    <2>3. TypeOK'
      BY <1>1, <2>1, <2>2 DEF IInv, TypeOK
    <2>4. MessagesFaithful'
      BY <2>1, <2>2, MessagesMade, PipesFrame DEF m
    <2> QED
      BY <2>1, <2>3, <2>4, QuietStep
  <1> QED
    BY <1>3, <1>4, <1>5, ReadResponseInvariant, SendToCallInvariant DEF ReaderStep

-----------------------------------------------------------------------------
(* The host, the server and the theorems                                   *)

\* Closing the client, and whatever the server does, keeps the invariant.
LEMMA OutsideInvariant ==
    ASSUME IInv, Close \/ ServerStep \/ ServerExits \/ UNCHANGED vars
    PROVE  IInv'
  <1> USE DEF callVars, clientVars, serverVars
  <1>1. /\ toClient \in Seq(Messages) /\ AllFaithful(toClient) /\ toServer \in Seq(Messages)
        /\ AllFaithful(toServer) /\ owes \in Seq(Messages) /\ AllFaithful(owes)
    BY DEF IInv, TypeOK, MessagesFaithful, AllFaithful
  <1>2. CASE Close \/ UNCHANGED vars
    <2>1. /\ closing' \in BOOLEAN /\ done' \in BOOLEAN
          /\ UNCHANGED <<pc, id, ctx, chan, result, nextID, pending, wmu, reader, sendTo, held,
                         toServer, toClient, up, owes>>
      BY <1>2 DEF Close, vars, IInv, TypeOK
    <2>2. TypeOK'
      BY <2>1 DEF IInv, TypeOK
    <2>3. MessagesFaithful'
      BY <2>1, PipesFrame
    <2> QED
      BY <2>1, <2>2, <2>3, QuietStep
  <1>3. CASE ServerReads
    <2> DEFINE m == Head(toServer)
    <2>1. /\ toServer # <<>> /\ toServer' = Tail(toServer)
          /\ UNCHANGED <<pc, id, ctx, chan, result, nextID, pending, wmu, done, reader, sendTo, held, closing,
                         toClient, up>>
      BY <1>3 DEF ServerReads
    <2>2. m \in Messages /\ Faithful(m) /\ Tail(toServer) \in Seq(Messages) /\ AllFaithful(Tail(toServer))
      BY <1>1, <2>1, Pipes
    <2>3. \/ UNCHANGED owes
          \/ m.kind = "call" /\ \E h \in Habits : owes' = [k \in DOMAIN h |-> Written(h[k], m)]
      BY <1>3 DEF ServerReads
    <2> HIDE DEF m
    <2>4. owes' \in Seq(Messages) /\ (owes' = owes \/ \A k \in 1 .. Len(owes') : Faithful(owes'[k]))
      <3>1. CASE UNCHANGED owes
        BY <1>1, <3>1
      <3>2. CASE m.kind = "call" /\ \E h \in Habits : owes' = [k \in DOMAIN h |-> Written(h[k], m)]
        <4>1. PICK h \in Habits : owes' = [k \in DOMAIN h |-> Written(h[k], m)]
          BY <3>2
        <4>2. h \in Seq(Kinds) /\ DOMAIN h = 1 .. Len(h) /\ Len(h) \in Nat
          BY HabitsAssumption
        <4>3. \A k \in 1 .. Len(h) : Written(h[k], m) \in Messages /\ Faithful(Written(h[k], m))
          BY <2>2, <3>2, <4>2, WrittenFaithful
        <4>4. owes' \in Seq(Messages) /\ Len(owes') = Len(h)
          BY <4>1, <4>2, <4>3
        <4> QED
          BY <4>1, <4>2, <4>3, <4>4
      <3> QED
        BY <2>3, <3>1, <3>2
    <2>5. TypeOK'
      BY <2>1, <2>2, <2>4 DEF IInv, TypeOK
    <2>6. MessagesFaithful'
      BY <2>1, <2>2, <2>4, PipesFrame DEF AllFaithful
    <2> QED
      BY <2>1, <2>5, <2>6, QuietStep
  <1>4. CASE ServerWrites
    <2>1. /\ owes # <<>> /\ toClient' = Append(toClient, Head(owes)) /\ owes' = Tail(owes)
          /\ UNCHANGED <<pc, id, ctx, chan, result, nextID, pending, wmu, done, reader, sendTo, held, closing,
                         toServer, up>>
      BY <1>4 DEF ServerWrites
    <2>2. /\ Head(owes) \in Messages /\ Faithful(Head(owes))
          /\ Tail(owes) \in Seq(Messages) /\ AllFaithful(Tail(owes))
      BY <1>1, <2>1, Pipes
    <2>3. Append(toClient, Head(owes)) \in Seq(Messages) /\ AllFaithful(Append(toClient, Head(owes)))
      BY <1>1, <2>2, Pipes
    <2>4. TypeOK'
      BY <2>1, <2>2, <2>3 DEF IInv, TypeOK
    <2>5. MessagesFaithful'
      BY <2>1, <2>2, <2>3, PipesFrame
    <2> QED
      BY <2>1, <2>4, <2>5, QuietStep
  <1>5. CASE ServerExits
    <2>1. /\ up' = FALSE /\ owes' = <<>> /\ toServer' = <<>>
          /\ UNCHANGED <<pc, id, ctx, chan, result, nextID, pending, wmu, done, reader, sendTo, held, closing,
                         toClient>>
      BY <1>5 DEF ServerExits
    <2>2. <<>> \in Seq(Messages) /\ AllFaithful(<<>>)
      BY DEF AllFaithful
    <2>3. TypeOK'
      BY <2>1, <2>2 DEF IInv, TypeOK
    <2>4. MessagesFaithful'
      BY <2>1, <2>2, PipesFrame
    <2> QED
      BY <2>1, <2>3, <2>4, QuietStep
  <1> QED
    BY <1>2, <1>3, <1>4, <1>5 DEF ServerStep

\* The inductive invariant: ids, pending, the pipes, the channels and the results agree.
THEOREM InvariantHolds == Spec => []IInv
  <1>1. Init => IInv
    <2> SUFFICES ASSUME Init PROVE IInv
      OBVIOUS
    <2>1. Outcome("none") \in Messages /\ Outcome("none").kind = "none"
      BY MessagesMade
    <2>2. <<>> \in Seq(Messages) /\ Len(<<>>) = 0
      OBVIOUS
    <2>3. TypeOK
      BY <2>1, <2>2 DEF Init, TypeOK
    <2>4. IdsExact
      BY DEF Init, IdsExact
    <2>5. MessagesFaithful
      BY <2>2 DEF Init, MessagesFaithful
    <2>6. Routed
      BY <2>2 DEF Init, Routed
    <2>7. OwnAnswer
      BY <2>1 DEF Init, OwnAnswer
    <2> QED
      BY <2>3, <2>4, <2>5, <2>6, <2>7 DEF Init, IInv, PendingExact, NothingLeftPending
  <1>2. IInv /\ [Next]_vars => IInv'
    <2> SUFFICES ASSUME IInv, [Next]_vars PROVE IInv'
      OBVIOUS
    <2>1. ASSUME NEW c \in Calls, Begin(c) \/ CallStep(c) \/ Cancel(c)
          PROVE  IInv'
      BY <2>1, BeginInvariant, CallStepInvariant
    <2> QED
      BY <2>1, ReaderStepInvariant, OutsideInvariant DEF Next, Idle
  <1> QED
    BY <1>1, <1>2, PTL DEF Spec

\* Whatever the server answers, late, twice or out of order, a call returns its own answer,
\* and the reader goroutine is never held up by a channel that is full.
THEOREM AnswersReachTheirCalls == Spec => []OwnAnswer
  <1>1. IInv => OwnAnswer
    BY DEF IInv
  <1> QED
    BY <1>1, InvariantHolds, PTL

\* The table of pending calls holds calls in flight only: it does not grow with the calls made.
THEOREM PendingDoesNotGrow == Spec => []NothingLeftPending
  <1>1. IInv => NothingLeftPending
    BY DEF IInv
  <1> QED
    BY <1>1, InvariantHolds, PTL

-----------------------------------------------------------------------------
(* Toolset                                                                 *)

\* both is p and then q.
AreJoined(both, p, q) ==
    /\ Len(both) = Len(p) + Len(q)
    /\ \A k \in 1 .. Len(p) : both[k] = p[k]
    /\ \A k \in Nat : k > Len(p) /\ k <= Len(p) + Len(q) => k - Len(p) \in 1 .. Len(q) /\ both[k] = q[k - Len(p)]

\* Two lists put together.
LEMMA ListsJoined ==
    ASSUME NEW S, NEW p \in Seq(S), NEW q \in Seq(S)
    PROVE  p \o q \in Seq(S) /\ AreJoined(p \o q, p, q)
  BY DEF AreJoined

\* Tools of another server put behind them leave the tools of s where they are.
LEMMA ListsKept ==
    ASSUME NEW ts \in Seq(AllTools), NEW new \in Seq(AllTools), NEW s, NEW names \in Seq(ToolNames),
           Lists(ts, s, names), \A k \in 1 .. Len(new) : new[k].server # s
    PROVE  Lists(ts \o new, s, names)
  <1> DEFINE both == ts \o new
  <1>1. AreJoined(both, ts, new)
    BY ListsJoined
  <1>2. PICK o \in 0 .. Len(ts) :
           /\ \A d \in 1 .. Len(ts) : ts[d].server = s <=> d \in o + 1 .. o + Len(names)
           /\ o + Len(names) <= Len(ts)
           /\ \A i \in 1 .. Len(names) : ts[o + i].remote = names[i]
    BY DEF Lists
  <1>3. Len(ts) \in Nat /\ Len(new) \in Nat /\ Len(names) \in Nat
    OBVIOUS
  <1> HIDE DEF both
  <1>4. ASSUME NEW d \in 1 .. Len(both)
        PROVE  both[d].server = s <=> d \in o + 1 .. o + Len(names)
    <2>1. CASE d \in 1 .. Len(ts)
      BY <1>1, <1>2, <2>1 DEF AreJoined
    <2>2. CASE d > Len(ts)
      <3>1. d - Len(ts) \in 1 .. Len(new) /\ both[d] = new[d - Len(ts)]
        BY <1>1, <1>3, <2>2 DEF AreJoined
      <3>2. both[d].server # s
        BY <3>1
      <3>3. d \notin o + 1 .. o + Len(names)
        BY <1>2, <1>3, <2>2
      <3> QED
        BY <3>2, <3>3
    <2> QED
      BY <1>1, <1>3, <2>1, <2>2 DEF AreJoined
  <1>5. ASSUME NEW i \in 1 .. Len(names)
        PROVE  both[o + i].remote = names[i]
    <2>1. o + i \in 1 .. Len(ts)
      BY <1>2, <1>3
    <2> QED
      BY <1>1, <1>2, <2>1 DEF AreJoined
  <1>6. o \in 0 .. Len(both) /\ o + Len(names) <= Len(both)
    BY <1>1, <1>2, <1>3 DEF AreJoined
  <1> QED
    BY <1>4, <1>5, <1>6 DEF Lists, both

\* What Tools makes of a server's names, behind the tools of others.
LEMMA ListsAdded ==
    ASSUME NEW ts \in Seq(AllTools), NEW new \in Seq(AllTools), NEW s, NEW names \in Seq(ToolNames),
           \A k \in 1 .. Len(ts) : ts[k].server # s,
           Len(new) = Len(names), \A k \in 1 .. Len(names) : new[k].server = s /\ new[k].remote = names[k]
    PROVE  Lists(ts \o new, s, names)
  <1> DEFINE both == ts \o new
             o == Len(ts)
  <1>1. AreJoined(both, ts, new)
    BY ListsJoined
  <1>2. o \in Nat /\ Len(new) \in Nat /\ Len(names) \in Nat
    OBVIOUS
  <1> HIDE DEF both
  <1>3. ASSUME NEW d \in 1 .. Len(both)
        PROVE  both[d].server = s <=> d \in o + 1 .. o + Len(names)
    <2>1. CASE d \in 1 .. Len(ts)
      <3>1. d \notin o + 1 .. o + Len(names)
        BY <1>2, <2>1
      <3> QED
        BY <1>1, <2>1, <3>1 DEF AreJoined
    <2>2. CASE d > Len(ts)
      <3>1. d - Len(ts) \in 1 .. Len(new) /\ both[d] = new[d - Len(ts)] /\ d \in o + 1 .. o + Len(names)
        BY <1>1, <1>2, <2>2 DEF AreJoined
      <3>2. both[d].server = s
        BY <3>1
      <3> QED
        BY <3>1, <3>2
    <2> QED
      BY <1>1, <1>2, <2>1, <2>2 DEF AreJoined
  <1>4. ASSUME NEW i \in 1 .. Len(names)
        PROVE  both[o + i].remote = names[i]
    <2>1. o + i \in Nat /\ o + i > Len(ts) /\ o + i <= Len(ts) + Len(new) /\ (o + i) - Len(ts) = i
      BY <1>2
    <2>2. both[o + i] = new[i]
      BY <1>1, <2>1 DEF AreJoined
    <2> QED
      BY <2>2
  <1>5. o \in 0 .. Len(both) /\ o + Len(names) <= Len(both)
    BY <1>1, <1>2 DEF AreJoined
  <1> HIDE DEF o
  <1> QED
    BY <1>3, <1>4, <1>5 DEF Lists, both

\* wrap makes tools of the server.
LEMMA Wrapped ==
    ASSUME NEW s \in Servers, NEW all \in Seq(ToolNames)
    PROVE  LET new == [i \in 1 .. Len(all) |-> Wrap(s, all[i])] IN
           /\ new \in Seq(AllTools) /\ Len(new) = Len(all)
           /\ \A k \in 1 .. Len(all) : new[k].server = s /\ new[k].remote = all[k]
  <1> DEFINE new == [i \in 1 .. Len(all) |-> Wrap(s, all[i])]
  <1>1. s \in Nat /\ Len(all) \in Nat
    BY ToolsAssumption
  <1>2. ASSUME NEW k \in 1 .. Len(all)
        PROVE  Wrap(s, all[k]) \in AllTools /\ Wrap(s, all[k]).server = s /\ Wrap(s, all[k]).remote = all[k]
    <2>1. all[k] \in ToolNames
      OBVIOUS
    <2>2. <<NamePrefixes[s], all[k]>> \in DOMAIN Joined
      BY <2>1, ToolsAssumption
    <2>3. Joined[<<NamePrefixes[s], all[k]>>] \in ShownNames
      BY <2>2 DEF ShownNames
    <2> QED
      BY <1>1, <2>1, <2>3 DEF Wrap, Tool, AllTools
  <1>3. new \in [1 .. Len(all) -> AllTools]
    BY <1>2
  <1>4. new \in Seq(AllTools) /\ Len(new) = Len(all)
    BY <1>1, <1>3
  <1> QED
    BY <1>2, <1>4

\* The state at the start.
LEMMA ToolsInit ==
    ASSUME InitTools
    PROVE  ToolsIInv
  <1> DEFINE n == Len(LocalTools)
  <1>1. LocalTools \in Seq(ToolNames) /\ n \in Nat /\ Len(NamePrefixes) \in Nat /\ Servers = 1 .. Len(NamePrefixes)
    BY ToolsAssumption
  <1>2. \A i \in 1 .. n : /\ Tool(LocalTools[i], Local, LocalTools[i]) \in AllTools
                          /\ Tool(LocalTools[i], Local, LocalTools[i]).server = 0
    BY <1>1 DEF Tool, Local, AllTools, ShownNames
  <1>3. tools = [i \in 1 .. n |-> Tool(LocalTools[i], Local, LocalTools[i])]
    BY DEF InitTools
  <1>4. tools \in [1 .. n -> AllTools]
    BY <1>2, <1>3
  <1>5. tools \in Seq(AllTools) /\ Len(tools) = n
    BY <1>1, <1>4
  <1>6. \A d \in 1 .. Len(tools) : tools[d].server = 0
    BY <1>2, <1>3, <1>5
  <1>7. server = 1 /\ infos = <<>> /\ served = [s \in Servers |-> <<>>] /\ log = <<>>
        /\ stage = IF Servers = {} THEN "new" ELSE "connect"
    BY DEF InitTools, NothingYet
  <1>8. ToolsTypeOK
    BY <1>1, <1>5, <1>7 DEF ToolsTypeOK
  <1>9. stage # "run" /\ (stage = "new" => Servers = {})
    BY <1>7
  <1>10. ListedSoFar
    BY <1>1, <1>6, <1>7, <1>9 DEF ListedSoFar
  <1> QED
    BY <1>7, <1>8, <1>9, <1>10 DEF ToolsIInv, AgentMade

\* A page of a list.
LEMMA PageListed ==
    ASSUME ToolsIInv, NEW page \in Pages, NEW more \in BOOLEAN, ListPage(page, more)
    PROVE  ToolsIInv'
  <1> DEFINE all == infos \o page
  <1>1. /\ stage = "list" /\ server \in Servers /\ infos \in Seq(ToolNames) /\ page \in Seq(ToolNames)
        /\ served \in [Servers -> Seq(ToolNames)] /\ tools \in Seq(AllTools) /\ log \in Seq(AllTools)
        /\ served[server] = infos
        /\ \A s \in Servers : s < server => Lists(tools, s, served[s])
        /\ \A s \in Servers : s > server => served[s] = <<>>
        /\ \A d \in 1 .. Len(tools) : tools[d].server < server
        /\ log = <<>>
    BY ToolsAssumption DEF ListPage, ToolsIInv, ToolsTypeOK, ListedSoFar, AgentMade
  <1>2. Len(NamePrefixes) \in Nat /\ Servers = 1 .. Len(NamePrefixes)
    BY ToolsAssumption
  <1>3. all \in Seq(ToolNames)
    BY <1>1
  <1>4. /\ served'[server] = all /\ \A s \in Servers : s # server => served'[s] = served[s]
        /\ served' \in [Servers -> Seq(ToolNames)] /\ log' = log
    BY <1>1, <1>3 DEF ListPage
  <1>5. CASE more
    <2>1. infos' = all /\ stage' = stage /\ server' = server /\ tools' = tools
      BY <1>5 DEF ListPage
    <2>2. ToolsTypeOK'
      BY <1>1, <1>3, <1>4, <2>1 DEF ToolsIInv, ToolsTypeOK
    <2> HIDE DEF all
    <2>3. ListedSoFar'
      BY <1>1, <1>2, <1>4, <2>1 DEF ListedSoFar
    <2> QED
      BY <1>1, <1>4, <2>1, <2>2, <2>3 DEF ToolsIInv, AgentMade
  <1>6. CASE ~more
    <2> DEFINE new == [i \in 1 .. Len(all) |-> Wrap(server, all[i])]
    <2>1. /\ infos' = <<>> /\ tools' = tools \o new
          /\ IF server < Len(NamePrefixes) THEN server' = server + 1 /\ stage' = "connect"
             ELSE stage' = "new" /\ server' = server
      BY <1>6 DEF ListPage
    <2> HIDE DEF all
    <2>2. /\ new \in Seq(AllTools) /\ Len(new) = Len(all)
          /\ \A k \in 1 .. Len(all) : new[k].server = server /\ new[k].remote = all[k]
      BY <1>1, <1>3, Wrapped
    <2> HIDE DEF new
    <2>3. tools' \in Seq(AllTools)
      BY <1>1, <2>1, <2>2
    <2>4. ToolsTypeOK'
      BY <1>1, <1>2, <1>4, <2>1, <2>3 DEF ToolsIInv, ToolsTypeOK
    <2>5. ASSUME NEW s \in Servers, s <= server
          PROVE  Lists(tools', s, served'[s])
      <3>1. CASE s = server
        <4>1. \A k \in 1 .. Len(tools) : tools[k].server # server
          <5>1. \A k \in 1 .. Len(tools) : tools[k].server < server /\ tools[k] \in AllTools
            BY <1>1
          <5>2. \A t \in AllTools : t.server \in Nat
            BY DEF AllTools
          <5> QED
            BY <1>1, <1>2, <5>1, <5>2
        <4>2. Lists(tools \o new, server, all)
          BY <1>1, <1>3, <2>2, <4>1, ListsAdded
        <4> QED
          BY <1>4, <2>1, <3>1, <4>2
      <3>2. CASE s # server
        <4>1. s < server /\ Lists(tools, s, served[s]) /\ served[s] \in Seq(ToolNames)
          BY <1>1, <1>2, <2>5, <3>2
        <4>2. \A k \in 1 .. Len(new) : new[k].server # s
          BY <2>2, <3>2
        <4>3. Lists(tools \o new, s, served[s])
          BY <1>1, <2>2, <4>1, <4>2, ListsKept
        <4> QED
          BY <1>4, <2>1, <3>2, <4>3
      <3> QED
        BY <3>1, <3>2
    <2>6. \A d \in 1 .. Len(tools') : tools'[d].server <= server /\ tools'[d].server \in Nat
      <3>1. AreJoined(tools', tools, new)
        BY <1>1, <2>1, <2>2, ListsJoined
      <3>2. Len(tools) \in Nat /\ Len(new) \in Nat /\ server \in Nat
        BY <1>1, <1>2, <2>2
      <3>3. ASSUME NEW d \in 1 .. Len(tools')
            PROVE  tools'[d].server <= server /\ tools'[d].server \in Nat
        <4>1. CASE d \in 1 .. Len(tools)
          <5>1. tools[d].server < server /\ tools[d] \in AllTools
            BY <1>1, <4>1
          <5> QED
            BY <3>1, <3>2, <4>1, <5>1 DEF AllTools, AreJoined
        <4>2. CASE d > Len(tools)
          <5>1. d - Len(tools) \in 1 .. Len(new) /\ tools'[d] = new[d - Len(tools)]
            BY <3>1, <3>2, <4>2 DEF AreJoined
          <5>2. tools'[d].server = server
            BY <2>2, <5>1
          <5> QED
            BY <3>2, <5>2
        <4> QED
          BY <3>1, <3>2, <4>1, <4>2 DEF AreJoined
      <3> QED
        BY <3>3
    <2>7. ListedSoFar'
      <3>1. CASE server < Len(NamePrefixes)
        <4>1. server' = server + 1 /\ stage' = "connect" /\ server + 1 \in Servers
          BY <1>1, <1>2, <2>1, <3>1
        <4>2. served'[server'] = infos'
          <5>1. server + 1 # server /\ server + 1 > server
            BY <1>1, <1>2
          <5>2. served'[server + 1] = served[server + 1] /\ served[server + 1] = <<>>
            BY <1>1, <1>4, <4>1, <5>1
          <5> QED
            BY <2>1, <4>1, <5>2
        <4>3. \A s \in Servers : s < server' => Lists(tools', s, served'[s])
          BY <1>1, <1>2, <2>5, <4>1
        <4>4. \A s \in Servers : s > server' => served'[s] = <<>>
          BY <1>1, <1>2, <1>4, <4>1
        <4>5. \A d \in 1 .. Len(tools') : tools'[d].server < server'
          BY <1>1, <1>2, <2>6, <4>1
        <4> QED
          BY <4>1, <4>2, <4>3, <4>4, <4>5 DEF ListedSoFar
      <3>2. CASE ~(server < Len(NamePrefixes))
        <4>1. stage' = "new" /\ \A s \in Servers : s <= server
          BY <1>1, <1>2, <2>1, <3>2
        <4> QED
          BY <2>5, <4>1 DEF ListedSoFar
      <3> QED
        BY <3>1, <3>2
    <2>8. stage' # "run" /\ log' = <<>>
      BY <1>1, <1>4, <2>1
    <2> QED
      BY <2>4, <2>7, <2>8 DEF ToolsIInv, AgentMade
  <1> QED
    BY <1>5, <1>6

\* In the table that New made a name has the one tool that is called so.
LEMMA TableRoutes ==
    ASSUME tools \in Seq(AllTools), NEW name \in DOMAIN Table
    PROVE  /\ \E d \in 1 .. Len(tools) : Table[name] = tools[d]
           /\ Table[name].name = name
  <1> DEFINE T == {i \in 1 .. Len(tools) : tools[i].name = name}
             n == Len(tools)
  <1>1. PICK i \in 1 .. Len(tools) : tools[i].name = name
    BY DEF Table
  <1>2. \E k \in T : \A j \in T : j <= k
    <2> DEFINE U == {m \in Nat : n - m \in T}
    <2>1. n \in Nat /\ n - i \in Nat /\ n - (n - i) = i /\ i \in T
      BY <1>1
    <2>2. n - i \in U /\ U \subseteq Nat
      BY <2>1
    <2>3. PICK m \in U : \A y \in U : m <= y
      <3> HIDE DEF U
      <3> QED
        BY <2>2, LeastOf
    <2>4. n - m \in T
      BY <2>3
    <2>5. ASSUME NEW j \in T PROVE j <= n - m
      <3>1. j \in 1 .. n /\ n - j \in Nat /\ n - (n - j) = j
        BY <2>1
      <3>2. n - j \in U
        BY <3>1
      <3>3. m <= n - j /\ m \in Nat
        BY <2>3, <3>2
      <3> QED
        BY <2>1, <3>1, <3>3
    <2> QED
      BY <2>4, <2>5
  <1>3. \E k \in 1 .. Len(tools) : /\ tools[k].name = name
                                   /\ \A j \in 1 .. Len(tools) : tools[j].name = name => j <= k
    BY <1>2
  <1>4. LastNamed(name) \in 1 .. Len(tools) /\ tools[LastNamed(name)].name = name
    BY <1>3 DEF LastNamed
  <1>5. Table[name] = tools[LastNamed(name)]
    BY DEF Table
  <1> QED
    BY <1>4, <1>5

\* No step breaks the inductive invariant.
LEMMA ToolsStep ==
    ASSUME ToolsIInv, [NextTools]_toolVars
    PROVE  ToolsIInv'
  <1>1. CASE UNCHANGED toolVars
    <2>1. /\ stage' = stage /\ server' = server /\ infos' = infos /\ served' = served /\ tools' = tools
          /\ defs' = defs /\ table' = table /\ log' = log
      BY <1>1 DEF toolVars, setupVars
    <2>2. ToolsTypeOK' /\ ListedSoFar'
      BY <2>1 DEF ToolsIInv, ToolsTypeOK, ListedSoFar
    <2>3. Table' = Table /\ Duplicate' = Duplicate
      BY <2>1 DEF Table, Duplicate, LastNamed
    <2> QED
      BY <2>1, <2>2, <2>3 DEF ToolsIInv, AgentMade
  <1>2. CASE CallFails \/ NewFails
    <2>1. /\ stage # "run" /\ stage' = "failed" /\ server' = server /\ infos' = infos /\ served' = served /\ tools' = tools
          /\ log' = log
      BY <1>2 DEF CallFails, NewFails, setupVars
    <2> QED
      BY <2>1 DEF ToolsIInv, ToolsTypeOK, ListedSoFar, AgentMade
  <1>3. CASE Connect
    <2>1. /\ stage = "connect" /\ stage' = "list" /\ server' = server /\ infos' = infos /\ served' = served
          /\ tools' = tools /\ log' = log
      BY <1>3 DEF Connect, setupVars
    <2> QED
      BY <2>1 DEF ToolsIInv, ToolsTypeOK, ListedSoFar, AgentMade
  <1>4. ASSUME NEW page \in Pages, NEW more \in BOOLEAN, ListPage(page, more)
        PROVE  ToolsIInv'
    BY <1>4, PageListed
  <1>5. CASE New
    <2>1. /\ stage = "new" /\ stage' = "run" /\ defs' = tools /\ table' = Table /\ ~Duplicate
          /\ server' = server /\ infos' = infos /\ served' = served /\ tools' = tools /\ log' = log
      BY <1>5 DEF New, Made
    <2>2. log = <<>>
      BY <2>1 DEF ToolsIInv, AgentMade
    <2>3. ToolsTypeOK' /\ ListedSoFar'
      BY <2>1 DEF ToolsIInv, ToolsTypeOK, ListedSoFar
    <2>4. Table' = Table /\ Duplicate' = Duplicate
      BY <2>1 DEF Table, Duplicate, LastNamed
    <2>5. AgentMade'
      BY <2>1, <2>2, <2>4 DEF AgentMade
    <2> QED
      BY <2>3, <2>5 DEF ToolsIInv
  <1>6. ASSUME NEW name \in DOMAIN table, CallTool(name)
        PROVE  ToolsIInv'
    <2> DEFINE t == Tool(name, table[name].server, table[name].remote)
    <2>1. /\ stage = "run" /\ stage' = stage /\ log' = Append(log, t)
          /\ server' = server /\ infos' = infos /\ served' = served /\ tools' = tools /\ defs' = defs /\ table' = table
      BY <1>6 DEF CallTool, setupVars
    <2>2. /\ tools \in Seq(AllTools) /\ log \in Seq(AllTools) /\ table = Table /\ defs = tools /\ ~Duplicate
          /\ \A i \in 1 .. Len(log) : \E d \in 1 .. Len(tools) : tools[d] = log[i]
      BY <2>1 DEF ToolsIInv, ToolsTypeOK, AgentMade
    <2>3. (\E d \in 1 .. Len(tools) : table[name] = tools[d]) /\ table[name].name = name
      BY <2>2, TableRoutes
    <2>4. PICK d \in 1 .. Len(tools) : table[name] = tools[d]
      BY <2>3
    <2>5. tools[d] \in AllTools
      BY <2>2
    <2>6. t = tools[d]
      BY <2>3, <2>4, <2>5 DEF Tool, AllTools
    <2> HIDE DEF t
    <2>7. log' \in Seq(AllTools) /\ \A i \in 1 .. Len(log') : \E e \in 1 .. Len(tools) : tools[e] = log'[i]
      <3>1. log' \in Seq(AllTools) /\ Len(log') = Len(log) + 1 /\ log'[Len(log) + 1] = t
            /\ \A i \in 1 .. Len(log) : log'[i] = log[i]
        BY <2>1, <2>2, <2>5, <2>6
      <3>2. \A i \in 1 .. Len(log') : i \in 1 .. Len(log) \/ i = Len(log) + 1
        BY <2>2, <3>1
      <3> QED
        BY <2>2, <2>6, <3>1, <3>2
    <2>8. ToolsTypeOK' /\ ListedSoFar'
      BY <2>1, <2>7 DEF ToolsIInv, ToolsTypeOK, ListedSoFar
    <2>9. Table' = Table /\ Duplicate' = Duplicate
      BY <2>1 DEF Table, Duplicate, LastNamed
    <2>10. AgentMade'
      BY <2>1, <2>2, <2>7, <2>9 DEF AgentMade
    <2> QED
      BY <2>8, <2>10 DEF ToolsIInv
  <1> QED
    BY <1>1, <1>2, <1>3, <1>4, <1>5, <1>6 DEF NextTools, CallNotMade, GaveUp

\* The inductive invariant of the tools, for any servers, prefixes, lists and number of calls.
THEOREM ToolsInvariantHolds == ToolsSpec => []ToolsIInv
  <1>1. InitTools => ToolsIInv
    BY ToolsInit
  <1>2. ToolsIInv /\ [NextTools]_toolVars => ToolsIInv'
    BY ToolsStep
  <1> QED
    BY <1>1, <1>2, PTL DEF ToolsSpec

\* RoutesRight: whatever the servers list, on however many pages, and whichever names the prefixes
\* make of that, New refuses what is ambiguous and a call reaches the tool that the model was shown.
THEOREM CallsReachTheirTool == ToolsSpec => []RoutesRight
  <1>1. ToolsIInv => RoutesRight
    <2> SUFFICES ASSUME ToolsIInv, stage = "run"
                 PROVE  /\ \A s \in Servers : Lists(defs, s, served[s])
                        /\ \A i \in 1 .. Len(log) :
                              /\ \E d \in 1 .. Len(defs) : defs[d] = log[i]
                              /\ \A d \in 1 .. Len(defs) : defs[d].name = log[i].name => defs[d] = log[i]
      BY DEF RoutesRight
    <2>1. /\ defs = tools /\ ~Duplicate /\ \A i \in 1 .. Len(log) : \E d \in 1 .. Len(tools) : tools[d] = log[i]
          /\ \A s \in Servers : Lists(tools, s, served[s])
      BY DEF ToolsIInv, AgentMade, ListedSoFar
    <2>2. \A d, e \in 1 .. Len(tools) : tools[d].name = tools[e].name => d = e
      <3>1. tools \in Seq(AllTools)
        BY DEF ToolsIInv, ToolsTypeOK
      <3> QED
        BY <2>1, <3>1 DEF Duplicate
    <2> QED
      BY <2>1, <2>2
  <1> QED
    BY <1>1, ToolsInvariantHolds, PTL

=============================================================================
