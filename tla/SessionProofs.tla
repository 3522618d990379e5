---------------------------- MODULE SessionProofs ----------------------------
(***************************************************************************)
(* Proofs about Session and ThreadedSession, for every configuration of an *)
(* agent, any number of Sends, steps, tool calls and restarts: the model   *)
(* always sees the whole history, calls and results stay paired, and       *)
(* threading implements its absence.  And about RunTrace, for any number   *)
(* of runs, steps and calls: traces are whole.                             *)
(***************************************************************************)
EXTENDS ThreadedSession, RunTrace, InductionTheorems, SequenceTheorems, TLAPS

-----------------------------------------------------------------------------
(* Sequences and messages                                                  *)

\* Prefix counts the leading system messages.
LEMMA PrefixExact ==
    ASSUME history \in Seq(Messages)
    PROVE  /\ Prefix \in 0 .. Len(history)
           /\ \A i \in 1 .. Prefix : history[i].role = "system"
           /\ Prefix < Len(history) => history[Prefix + 1].role # "system"
  <1> DEFINE Stops == {i \in 1 .. Len(history) + 1 : i <= Len(history) => history[i].role # "system"}
  <1>1. Len(history) \in Nat
    OBVIOUS
  <1>2. Stops \in SUBSET Nat /\ Len(history) + 1 \in Stops
    BY <1>1
  <1>3. PICK m \in Stops : \A k \in Stops : m <= k
    BY <1>2, LeastOf
  <1>4. m - 1 \in 0 .. Len(history) /\ (m - 1 < Len(history) => history[m - 1 + 1].role # "system")
    BY <1>1, <1>3
  <1>5. \A i \in 1 .. m - 1 : history[i].role = "system"
    BY <1>1, <1>3
  <1> QED
    BY <1>4, <1>5 DEF Prefix

\* What lies behind the first n messages.
LEMMA SuffixExact ==
    ASSUME NEW s \in Seq(Messages), NEW n \in 0 .. Len(s)
    PROVE  /\ Suffix(s, n) \in Seq(Messages)
           /\ Len(Suffix(s, n)) = Len(s) - n
           /\ \A i \in 1 .. Len(s) - n : Suffix(s, n)[i] = s[n + i]
  <1>1. n + 1 \in Int /\ Len(s) \in Int /\ \A i \in n + 1 .. Len(s) : s[i] \in Messages
    OBVIOUS
  <1>2. /\ SubSeq(s, n + 1, Len(s)) \in Seq(Messages)
        /\ Len(SubSeq(s, n + 1, Len(s))) = IF n + 1 <= Len(s) THEN Len(s) - (n + 1) + 1 ELSE 0
        /\ \A i \in 1 .. Len(s) - (n + 1) + 1 : SubSeq(s, n + 1, Len(s))[i] = s[n + 1 + i - 1]
    BY <1>1, SubSeqProperties
  <1> QED
    BY <1>2 DEF Suffix

\* The first n messages.
LEMMA FrontExact ==
    ASSUME NEW s \in Seq(Messages), NEW n \in 0 .. Len(s)
    PROVE  /\ SubSeq(s, 1, n) \in Seq(Messages)
           /\ Len(SubSeq(s, 1, n)) = n
           /\ \A i \in 1 .. n : SubSeq(s, 1, n)[i] = s[i]
  <1>1. 1 \in Int /\ n \in Int /\ \A i \in 1 .. n : s[i] \in Messages
    OBVIOUS
  <1>2. /\ SubSeq(s, 1, n) \in Seq(Messages)
        /\ Len(SubSeq(s, 1, n)) = IF 1 <= n THEN n - 1 + 1 ELSE 0
        /\ \A i \in 1 .. n - 1 + 1 : SubSeq(s, 1, n)[i] = s[1 + i - 1]
    BY <1>1, SubSeqProperties
  <1> QED
    BY <1>2

\* A front and what lies behind it make up the whole.
LEMMA FrontAndSuffix ==
    ASSUME NEW s \in Seq(Messages), NEW n \in 0 .. Len(s)
    PROVE  SubSeq(s, 1, n) \o Suffix(s, n) = s
  <1>1. 1 \in 1 .. Len(s) + 1 /\ n \in 1 - 1 .. Len(s) /\ Len(s) \in n .. Len(s)
    OBVIOUS
  <1>2. SubSeq(s, 1, n) \o SubSeq(s, n + 1, Len(s)) = SubSeq(s, 1, Len(s))
    BY <1>1, ConcatAdjacentSubSeq
  <1> QED
    BY <1>2, SubSeqFull DEF Suffix

\* Adding messages leaves the fronts as they were.
LEMMA FrontOfLonger ==
    ASSUME NEW s \in Seq(Messages), NEW t \in Seq(Messages), NEW n \in 0 .. Len(s)
    PROVE  n \in 0 .. Len(s \o t) /\ SubSeq(s \o t, 1, n) = SubSeq(s, 1, n)
  <1>1. s \o t \in Seq(Messages) /\ Len(s \o t) = Len(s) + Len(t)
        /\ \A i \in 1 .. Len(s) + Len(t) : (s \o t)[i] = IF i <= Len(s) THEN s[i] ELSE t[i - Len(s)]
    BY ConcatProperties
  <1>2. n \in 0 .. Len(s \o t)
    BY <1>1
  <1>3. /\ SubSeq(s \o t, 1, n) \in Seq(Messages)
        /\ Len(SubSeq(s \o t, 1, n)) = n
        /\ \A i \in 1 .. n : SubSeq(s \o t, 1, n)[i] = (s \o t)[i]
    BY <1>1, <1>2, FrontExact
  <1>4. \A i \in 1 .. n : SubSeq(s \o t, 1, n)[i] = SubSeq(s, 1, n)[i]
    BY <1>1, <1>3, FrontExact
  <1>5. Len(SubSeq(s, 1, n)) = n /\ SubSeq(s, 1, n) \in Seq(Messages)
    BY FrontExact
  <1> QED
    BY <1>2, <1>3, <1>4, <1>5, SeqEqual

\* The messages the session makes are messages.
LEMMA MessagesMade ==
    /\ \A id \in Nat : Message("user", id) \in Messages /\ Message("system", id) \in Messages
    /\ \A id, n \in Nat : Assistant(id, n) \in Messages /\ ToolResult(id, n) \in Messages
  BY DEF Message, Assistant, ToolResult, Messages, Roles

\* The results of the last message's calls are messages.
LEMMA AnswersMade ==
    ASSUME history \in Seq(Messages), history # <<>>, NEW n \in Nat
    PROVE  Answers(n) \in Seq(Messages) /\ Len(Answers(n)) = n
  <1>1. LastAssistant \in Messages
    BY DEF LastAssistant
  <1>2. LastAssistant.id \in Nat
    BY <1>1 DEF Messages
  <1>3. \A k \in 1 .. n : ToolResult(LastAssistant.id, k) \in Messages
    BY <1>2, MessagesMade
  <1> QED
    BY <1>3 DEF Answers

-----------------------------------------------------------------------------
(* The steps that change the history                                       *)

\* What the model is shown is a sequence of messages.
LEMMA ViewType ==
    ASSUME TypeOK, request.prev <= Len(server)
    PROVE  View \in Seq(Messages)
  <1>1. request.prev # 0 => server[request.prev] \in Seq(Messages)
    BY DEF TypeOK
  <1>2. request.msgs \in Seq(Messages) /\ <<>> \in Seq(Messages)
    BY DEF TypeOK
  <1> QED
    BY <1>1, <1>2, ConcatProperties DEF View

\* A history is compacted to one that starts with the same message.
LEMMA CompactedExact ==
    ASSUME TypeOK, history # <<>>, history[1] = Instructions
    PROVE  Compacted \in Seq(Messages) /\ Compacted # <<>> /\ Compacted[1] = Instructions
  <1> DEFINE n == Len(history)
             front == SubSeq(history, 1, Prefix)
             note == <<Message("system", fresh)>>
             rest == Suffix(history, n - KeepRecent)
  <1>1. history \in Seq(Messages) /\ fresh \in Nat /\ KeepRecent \in Nat \ {0}
    BY BoundAssumption DEF TypeOK
  <1>2. CASE n - Prefix <= KeepRecent
    BY <1>1, <1>2 DEF Compacted
  <1>3. CASE ~(n - Prefix <= KeepRecent)
    <2>1. Prefix \in 0 .. n /\ (Prefix < n => history[Prefix + 1].role # "system")
      BY <1>1, PrefixExact
    <2>2. Prefix # 0
      BY <1>1, <2>1 DEF Instructions, Message
    <2>3. n - KeepRecent \in 0 .. n
      BY <1>1, <1>3, <2>1
    <2>4. front \in Seq(Messages) /\ Len(front) = Prefix /\ front[1] = history[1]
      BY <1>1, <2>1, <2>2, FrontExact
    <2>5. note \in Seq(Messages) /\ Len(note) = 1
      BY <1>1, MessagesMade
    <2>6. rest \in Seq(Messages)
      BY <1>1, <2>3, SuffixExact
    <2> HIDE DEF front, note, rest
    <2>7. /\ front \o note \in Seq(Messages) /\ Len(front \o note) = Prefix + 1
          /\ (front \o note)[1] = front[1]
      BY <2>1, <2>2, <2>4, <2>5, ConcatProperties
    <2>8. /\ front \o note \o rest \in Seq(Messages) /\ front \o note \o rest # <<>>
          /\ (front \o note \o rest)[1] = front[1]
      BY <2>1, <2>6, <2>7, ConcatProperties
    <2>9. Compacted = front \o note \o rest
      BY <1>3 DEF Compacted, front, note, rest
    <2> QED
      BY <2>4, <2>8, <2>9
  <1> QED
    BY <1>2, <1>3

\* Messages added to a history leave its beginning and the thread as they are.
LEMMA Extended ==
    ASSUME IInv, NEW more \in Seq(Messages), history' = history \o more,
           UNCHANGED <<lastResponseID, threadSentIdx, server, snapshot>>
    PROVE  history' \in Seq(Messages) /\ InstructionsFirst' /\ ThreadMatches'
  <1>1. history \in Seq(Messages) /\ history # <<>> /\ history[1] = Instructions
    BY DEF IInv, TypeOK, InstructionsFirst
  <1>2. /\ history' \in Seq(Messages) /\ Len(history') = Len(history) + Len(more)
        /\ history'[1] = history[1]
    BY <1>1, ConcatProperties
  <1>3. InstructionsFirst'
    BY <1>1, <1>2 DEF IInv, InstructionsFirst, Instructions
  <1>4. ThreadMatches'
    <2> SUFFICES ASSUME lastResponseID # 0 PROVE ThreadMatches'
      BY DEF ThreadMatches
    <2>1. threadSentIdx \in 0 .. Len(history)
      BY DEF IInv, TypeOK, ThreadMatches
    <2>2. threadSentIdx <= Len(history') /\ SubSeq(history', 1, threadSentIdx) = SubSeq(history, 1, threadSentIdx)
      BY <1>1, <2>1, FrontOfLonger
    <2> QED
      BY <2>2 DEF IInv, ThreadMatches
  <1> QED
    BY <1>2, <1>3, <1>4

\* A reply is recorded: the response to continue, if any, stands for the history up to it.
LEMMA Recorded ==
    ASSUME IInv, Asking, NEW reply \in Messages, NEW withID \in BOOLEAN, RecordReply(reply, withID)
    PROVE  /\ history' \in Seq(Messages) /\ server' \in Seq(Seq(Messages))
           /\ lastResponseID' \in Nat /\ threadSentIdx' \in Nat
           /\ InstructionsFirst' /\ ThreadMatches'
  <1>1. /\ history \in Seq(Messages) /\ history # <<>> /\ history[1] = Instructions
        /\ server \in Seq(Seq(Messages)) /\ lastResponseID \in Nat /\ threadSentIdx \in Nat
    BY DEF IInv, TypeOK, InstructionsFirst
  <1>2. View = history
    BY DEF IInv, RequestMatches
  <1>3. history' = Append(history, reply)
    BY DEF RecordReply
  <1>4. /\ history' \in Seq(Messages) /\ Len(history') = Len(history) + 1 /\ history'[1] = history[1]
        /\ history' = history \o <<reply>> /\ <<reply>> \in Seq(Messages)
    BY <1>1, <1>3, AppendProperties, AppendIsConcat
  <1>5. /\ server' = Append(server, history') /\ server' \in Seq(Seq(Messages))
        /\ Len(server') = Len(server) + 1
        /\ server'[Len(server) + 1] = history' /\ \A i \in 1 .. Len(server) : server'[i] = server[i]
    <2>1. server' = Append(server, history')
      BY <1>2, <1>3 DEF RecordReply
    <2> QED
      BY <1>1, <1>4, <2>1, AppendProperties
  <1>6. InstructionsFirst'
    <2>1. UNCHANGED snapshot
      BY DEF RecordReply, hostVars
    <2> QED
      BY <1>1, <1>4, <2>1 DEF IInv, InstructionsFirst, Instructions
  <1>7. lastResponseID' \in Nat /\ threadSentIdx' \in Nat /\ ThreadMatches'
    <2>1. CASE ThreadingActive /\ withID
      <3>1. lastResponseID' = Len(server) + 1 /\ threadSentIdx' = Len(history')
        BY <1>4, <2>1 DEF RecordReply
      <3>2. Len(history') \in Nat /\ SubSeq(history', 1, Len(history')) = history'
        BY <1>4, SubSeqFull
      <3> QED
        BY <1>1, <1>5, <3>1, <3>2 DEF ThreadMatches
    <2>2. CASE ThreadingActive /\ ~withID
      BY <1>1, <2>2 DEF RecordReply, ThreadMatches
    <2>3. CASE ~ThreadingActive
      <3>1. UNCHANGED <<lastResponseID, threadSentIdx>>
        BY <2>3 DEF RecordReply
      <3> SUFFICES ASSUME lastResponseID # 0
                   PROVE  ThreadMatches'
        BY <1>1, <3>1 DEF ThreadMatches
      <3>2. /\ lastResponseID \in 1 .. Len(server) /\ threadSentIdx \in 0 .. Len(history)
            /\ server[lastResponseID] = SubSeq(history, 1, threadSentIdx)
        BY <1>1 DEF IInv, ThreadMatches
      <3>3. /\ threadSentIdx <= Len(history')
            /\ SubSeq(history', 1, threadSentIdx) = SubSeq(history, 1, threadSentIdx)
        BY <1>1, <1>4, <3>2, FrontOfLonger
      <3> QED
        BY <1>5, <3>1, <3>2, <3>3 DEF ThreadMatches
    <2> QED
      BY <2>1, <2>2, <2>3
  <1> QED
    BY <1>4, <1>5, <1>6, <1>7

-----------------------------------------------------------------------------
(* The invariant                                                           *)

\* The loop of a run leaves the conversation alone, or extends it.
LEMMA RunStepInvariant ==
    ASSUME IInv, RunStep
    PROVE  IInv'
  <1> USE DEF sessionVars, runVars, hostVars
  <1>1. TypeOK /\ history \in Seq(Messages) /\ fresh \in Nat /\ history # <<>>
    BY DEF IInv, TypeOK, InstructionsFirst
  <1>2. NoRequest.prev = 0 /\ NoRequest.msgs \in Seq(Messages)
    BY DEF NoRequest
  <1>3. CASE TopOfLoop
    <2>1. UNCHANGED <<history, lastResponseID, threadSentIdx, server, snapshot>>
      BY <1>3 DEF TopOfLoop
    <2>2. request' = NoRequest /\ ~Asking'
      BY <1>3 DEF TopOfLoop, EndRun, IInv, RequestMatches, Asking
    <2>3. TypeOK'
      BY <1>1, <1>2, <1>3, <2>2 DEF TopOfLoop, EndRun, TypeOK
    <2> QED
      BY <1>2, <2>1, <2>2, <2>3 DEF IInv, TypeOK, InstructionsFirst, ThreadMatches, RequestMatches
  <1>4. CASE NoCompaction
    <2>1. request' = NoRequest /\ ~Asking'
      BY <1>4 DEF NoCompaction, IInv, RequestMatches, Asking
    <2>2. TypeOK'
      BY <1>1, <1>4 DEF NoCompaction, TypeOK
    <2> QED
      BY <1>2, <1>4, <2>1, <2>2
         DEF NoCompaction, IInv, TypeOK, InstructionsFirst, ThreadMatches, RequestMatches
  <1>5. CASE Compact
    <2>1. request' = NoRequest /\ ~Asking'
      BY <1>5 DEF Compact, IInv, RequestMatches, Asking
    <2>2. history' \in Seq(Messages) /\ history' # <<>> /\ history'[1] = Instructions
      BY <1>5, CompactedExact DEF Compact, IInv, InstructionsFirst
    <2>3. TypeOK'
      BY <1>1, <1>5, <2>2 DEF Compact, TypeOK
    <2> QED
      BY <1>2, <1>5, <2>1, <2>2, <2>3
         DEF Compact, IInv, TypeOK, InstructionsFirst, Instructions, ThreadMatches, RequestMatches
  <1>6. CASE StartStep
    <2>1. UNCHANGED <<history, lastResponseID, threadSentIdx, server, snapshot>> /\ Asking'
          /\ request' = BuildRequest
      BY <1>6 DEF StartStep, Asking
    <2>2. /\ request'.prev \in Nat /\ request'.prev <= Len(server) /\ request'.msgs \in Seq(Messages)
          /\ (IF request'.prev = 0 THEN <<>> ELSE server[request'.prev]) \o request'.msgs = history
      <3>1. CASE ThreadingActive /\ lastResponseID # 0 /\ threadSentIdx <= Len(history)
        <4>1. request'.prev = lastResponseID /\ request'.msgs = Suffix(history, threadSentIdx)
          BY <2>1, <3>1 DEF BuildRequest
        <4>2. threadSentIdx \in 0 .. Len(history) /\ lastResponseID \in Nat
          BY <1>1, <3>1 DEF TypeOK
        <4>3. lastResponseID <= Len(server) /\ server[lastResponseID] = SubSeq(history, 1, threadSentIdx)
          BY <3>1 DEF IInv, ThreadMatches
        <4> QED
          BY <1>1, <3>1, <4>1, <4>2, <4>3, SuffixExact, FrontAndSuffix
      <3>2. CASE ~(ThreadingActive /\ lastResponseID # 0 /\ threadSentIdx <= Len(history))
        <4>1. request'.prev = 0 /\ request'.msgs = history
          BY <2>1, <3>2 DEF BuildRequest, FullRequest
        <4>2. Len(server) \in Nat
          BY <1>1 DEF TypeOK
        <4> QED
          BY <1>1, <4>1, <4>2, ConcatEmptySeq
      <3> QED
        BY <3>1, <3>2
    <2>3. TypeOK'
      BY <1>1, <1>6, <2>2 DEF StartStep, TypeOK
    <2>4. RequestMatches'
      BY <2>1, <2>2 DEF RequestMatches, View
    <2> QED
      BY <2>1, <2>3, <2>4 DEF IInv, InstructionsFirst, ThreadMatches
  <1>7. CASE RejectThread
    <2>1. request'.prev = 0 /\ request'.msgs = history
      BY <1>7 DEF RejectThread, FullRequest
    <2>2. TypeOK'
      BY <1>1, <1>7, <2>1 DEF RejectThread, TypeOK
    <2>3. RequestMatches'
      <3>1. UNCHANGED <<history, server>> /\ Asking' /\ Len(server) \in Nat
        BY <1>1, <1>7 DEF RejectThread, Asking, TypeOK
      <3>2. View' = history
        BY <1>1, <2>1, ConcatEmptySeq DEF View
      <3> QED
        BY <2>1, <3>1, <3>2 DEF RequestMatches
    <2> QED
      BY <1>7, <2>2, <2>3 DEF RejectThread, IInv, InstructionsFirst, ThreadMatches
  <1>8. CASE GenerateFails
    <2>1. UNCHANGED <<history, lastResponseID, threadSentIdx, server, snapshot>>
      BY <1>8 DEF GenerateFails
    <2>2. request' = NoRequest /\ ~Asking'
      BY <1>8 DEF GenerateFails, EndRun, Asking
    <2>3. TypeOK'
      BY <1>1, <1>2, <1>8, <2>2 DEF GenerateFails, EndRun, TypeOK
    <2> QED
      BY <1>2, <2>1, <2>2, <2>3 DEF IInv, TypeOK, InstructionsFirst, ThreadMatches, RequestMatches
  <1>9. ASSUME Asking, NEW reply \in Messages, NEW withID \in BOOLEAN,
               RecordReply(reply, withID), pc' \in {"tools", "idle", "repair"},
               repairsLeft' \in Nat, reason' \in {"none", "stop", "max_steps", "error", "canceled", "budget"}
        PROVE  IInv'
    <2>1. /\ history' \in Seq(Messages) /\ server' \in Seq(Seq(Messages))
          /\ lastResponseID' \in Nat /\ threadSentIdx' \in Nat
          /\ InstructionsFirst' /\ ThreadMatches'
      BY <1>9, Recorded
    <2>2. request' = NoRequest /\ ~Asking'
      BY <1>9 DEF RecordReply, Asking
    <2>3. step' \in Nat /\ fresh' \in Nat /\ UNCHANGED <<threadingDisabled, turns, restarts, snapshot>>
      BY <1>1, <1>9 DEF RecordReply, TypeOK
    <2>4. TypeOK'
      BY <1>1, <1>2, <1>9, <2>1, <2>2, <2>3 DEF TypeOK
    <2> QED
      BY <1>2, <2>1, <2>2, <2>4 DEF IInv, TypeOK, RequestMatches
  <1>10. ASSUME NEW withID \in BOOLEAN, NEW n \in 1 .. MaxCalls, ReplyWithCalls(n, withID)
         PROVE  IInv'
    <2>1. Assistant(fresh, n) \in Messages
      BY <1>1, MessagesMade, BoundAssumption
    <2> QED
      BY <1>1, <1>9, <1>10, <2>1 DEF ReplyWithCalls, Asking, TypeOK
  <1>11. ASSUME NEW withID \in BOOLEAN, ReplyWithAnswer(withID)
         PROVE  IInv'
    <2>1. Assistant(fresh, 0) \in Messages
      BY <1>1, MessagesMade
    <2> QED
      BY <1>1, <1>9, <1>11, <2>1 DEF ReplyWithAnswer, Asking, TypeOK
  <1>12. ASSUME NEW withID \in BOOLEAN, ReplyInvalid(withID)
         PROVE  IInv'
    <2>1. Assistant(fresh, 0) \in Messages
      BY <1>1, MessagesMade
    <2>2. Asking /\ RecordReply(Assistant(fresh, 0), withID)
      BY <1>12 DEF ReplyInvalid, Asking
    <2>3. /\ pc' \in {"tools", "idle", "repair"} /\ repairsLeft' \in Nat
          /\ reason' \in {"none", "stop", "max_steps", "error", "canceled", "budget"}
      BY <1>1, <1>12 DEF ReplyInvalid, TypeOK
    <2> QED
      BY <1>9, <2>1, <2>2, <2>3
  <1>13. ASSUME NEW n \in Nat, history' = history \o Answers(n),
                UNCHANGED <<lastResponseID, threadSentIdx, threadingDisabled, server, fresh, hostVars, step, repairsLeft>>,
                pc' \in {"top", "idle"}, request' = NoRequest,
                reason' \in {"none", "stop", "max_steps", "error", "canceled", "budget"}
         PROVE  IInv'
    <2>1. Answers(n) \in Seq(Messages)
      BY <1>1, <1>13, AnswersMade
    <2>2. history' \in Seq(Messages) /\ InstructionsFirst' /\ ThreadMatches'
      BY <1>13, <2>1, Extended
    <2>3. TypeOK'
      BY <1>1, <1>2, <1>13, <2>2 DEF TypeOK
    <2>4. RequestMatches'
      BY <1>2, <1>13, <2>3 DEF RequestMatches, TypeOK, Asking
    <2> QED
      BY <2>2, <2>3, <2>4 DEF IInv
  <1>14. CASE ToolsAnswer
    <2>1. LastAssistant.asks \in Nat
      <3>1. LastAssistant \in Messages
        BY <1>1 DEF LastAssistant
      <3> QED
        BY <3>1 DEF Messages
    <2>2. request' = NoRequest
      BY <1>14 DEF ToolsAnswer, IInv, RequestMatches, Asking
    <2> QED
      BY <1>1, <1>13, <1>14, <2>1, <2>2 DEF ToolsAnswer, TypeOK
  <1>15. CASE ToolsFatal
    <2>1. PICK n \in 1 .. MaxCalls : history' = history \o Answers(n)
      BY <1>15 DEF ToolsFatal
    <2>2. n \in Nat
      BY BoundAssumption
    <2>3. /\ UNCHANGED <<lastResponseID, threadSentIdx, threadingDisabled, server, fresh, hostVars, step, repairsLeft>>
          /\ pc' = "idle" /\ request' = NoRequest /\ reason' = "error"
      BY <1>15 DEF ToolsFatal, EndRun
    <2> QED
      BY <1>13, <2>1, <2>2, <2>3
  <1>16. CASE AskRepair
    <2>1. Message("user", fresh) \in Messages
      BY <1>1, MessagesMade
    <2>2. history' = history \o <<Message("user", fresh)>> /\ <<Message("user", fresh)>> \in Seq(Messages)
      BY <1>1, <1>16, <2>1, AppendIsConcat DEF AskRepair
    <2>3. history' \in Seq(Messages) /\ InstructionsFirst' /\ ThreadMatches'
      BY <1>16, <2>2, Extended DEF AskRepair
    <2>4. TypeOK'
      BY <1>1, <1>16, <2>3 DEF AskRepair, TypeOK
    <2>5. RequestMatches'
      BY <1>1, <1>16, <2>4 DEF AskRepair, IInv, RequestMatches, TypeOK, Asking
    <2> QED
      BY <2>3, <2>4, <2>5 DEF IInv
  <1> QED
    BY <1>3, <1>4, <1>5, <1>6, <1>7, <1>8, <1>10, <1>11, <1>12, <1>14, <1>15, <1>16 DEF RunStep

\* The inductive invariant: the request in flight, the thread and the snapshot agree with
\* the history in every reachable state.
THEOREM InvariantHolds == Spec => []IInv
  <1>1. Init => IInv
    <2> SUFFICES ASSUME Init PROVE IInv
      OBVIOUS
    <2>1. Instructions \in Messages
      BY MessagesMade DEF Instructions
    <2>2. history = <<Instructions>> /\ snapshot = <<Instructions>> /\ server = <<>>
          /\ request = NoRequest /\ pc = "idle" /\ lastResponseID = 0
      BY DEF Init
    <2>3. NoRequest.prev = 0 /\ NoRequest.msgs = <<>>
      BY DEF NoRequest
    <2>4. TypeOK
      <3>1. <<Instructions>> \in Seq(Messages) /\ <<>> \in Seq(Seq(Messages)) /\ <<>> \in Seq(Messages)
        BY <2>1
      <3>2. /\ history \in Seq(Messages) /\ snapshot \in Seq(Messages) /\ server \in Seq(Seq(Messages))
            /\ request.prev \in Nat /\ request.msgs \in Seq(Messages)
        BY <2>2, <2>3, <3>1
      <3>3. /\ threadingDisabled \in BOOLEAN /\ threadSentIdx \in Nat /\ lastResponseID \in Nat
            /\ step \in Nat /\ repairsLeft \in Nat /\ fresh \in Nat /\ turns \in Nat /\ restarts \in Nat
            /\ pc = "idle" /\ reason = "none"
        BY DEF Init
      <3> QED
        BY <3>2, <3>3 DEF TypeOK
    <2>5. InstructionsFirst
      BY <2>2 DEF InstructionsFirst
    <2> QED
      BY <2>2, <2>3, <2>4, <2>5 DEF IInv, ThreadMatches, RequestMatches, Asking
  <1>2. IInv /\ [Next]_vars => IInv'
    <2> SUFFICES ASSUME IInv, [Next]_vars PROVE IInv'
      OBVIOUS
    <2> USE DEF sessionVars, runVars, hostVars
    <2>1. TypeOK /\ NoRequest.prev = 0 /\ NoRequest.msgs \in Seq(Messages)
      BY DEF IInv, NoRequest
    <2>2. CASE Send
      <3>1. Message("user", fresh) \in Messages
        BY <2>1, MessagesMade DEF TypeOK
      <3>2. history' = history \o <<Message("user", fresh)>> /\ <<Message("user", fresh)>> \in Seq(Messages)
        BY <2>1, <2>2, <3>1, AppendIsConcat DEF Send, TypeOK
      <3>3. history' \in Seq(Messages) /\ InstructionsFirst' /\ ThreadMatches'
        BY <2>2, <3>2, Extended DEF Send
      <3>4. TypeOK'
        BY <2>1, <2>2, <3>3, BoundAssumption DEF Send, TypeOK, InitialRepairs
      <3>5. RequestMatches'
        BY <2>1, <2>2, <3>4 DEF Send, IInv, RequestMatches, TypeOK, Asking
      <3> QED
        BY <3>3, <3>4, <3>5 DEF IInv
    <2>3. CASE RunStep
      BY <2>3, RunStepInvariant
    <2>4. CASE Snapshot
      <3>1. TypeOK'
        BY <2>1, <2>4 DEF Snapshot, TypeOK
      <3>2. RequestMatches'
        BY <2>4 DEF Snapshot, IInv, RequestMatches, Asking, View
      <3> QED
        BY <2>4, <3>1, <3>2 DEF Snapshot, IInv, InstructionsFirst, Instructions, ThreadMatches
    <2>5. CASE Resume
      <3>1. TypeOK'
        <4>1. restarts' \in Nat /\ request'.prev \in Nat /\ request'.msgs \in Seq(Messages)
          BY <2>1, <2>5 DEF Resume, TypeOK
        <4> QED
          BY <2>1, <2>5, <4>1 DEF Resume, TypeOK
      <3> QED
        BY <2>1, <2>5, <3>1
           DEF Resume, TypeOK, IInv, InstructionsFirst, Instructions, ThreadMatches, RequestMatches, Asking
    <2>6. CASE UNCHANGED vars
      <3>1. TypeOK'
        BY <2>1, <2>6 DEF vars, TypeOK
      <3>2. RequestMatches'
        BY <2>6 DEF vars, IInv, RequestMatches, Asking, View
      <3> QED
        BY <2>6, <3>1, <3>2 DEF vars, IInv, InstructionsFirst, Instructions, ThreadMatches
    <2> QED
      BY <2>2, <2>3, <2>4, <2>5, <2>6 DEF Next, Quiet
  <1> QED
    BY <1>1, <1>2, PTL DEF Spec

\* Whatever is continued, refused, compacted, repaired or resumed, each call of the model
\* shows it the session's whole history, instructions first.
THEOREM ModelSeesWholeHistory == Spec => []ModelSeesHistory
  <1>1. IInv => ModelSeesHistory
    BY DEF IInv, InstructionsFirst, RequestMatches, ModelSeesHistory
  <1> QED
    BY <1>1, InvariantHolds, PTL

-----------------------------------------------------------------------------
(* Calls and their results                                                 *)

\* The parts of the messages of a history.
LEMMA PartsOf ==
    ASSUME NEW h \in Seq(Messages), NEW i \in 1 .. Len(h)
    PROVE  h[i] \in Messages /\ h[i].asks \in Nat /\ h[i].id \in Nat
  <1>1. h[i] \in Messages
    OBVIOUS
  <1> QED
    BY <1>1 DEF Messages

\* The open messages of a history are finitely many, and ask for something.
LEMMA OpenFinite ==
    ASSUME NEW h \in Seq(Messages)
    PROVE  /\ IsFiniteSet(Open(h)) /\ Cardinality(Open(h)) \in Nat
           /\ \A i \in Open(h) : i \in 1 .. Len(h) /\ h[i].asks > 0
  <1>1. IsFiniteSet(1 .. Len(h)) /\ Open(h) \in SUBSET (1 .. Len(h))
    BY FS_Interval DEF Open
  <1>2. IsFiniteSet(Open(h))
    BY <1>1, FS_Subset
  <1>3. \A i \in Open(h) : h[i].asks > 0
    BY PartsOf DEF Open, Answered
  <1> QED
    BY <1>1, <1>2, <1>3, FS_CardinalityType

\* A smaller set of open messages is not larger.
LEMMA FewerOpen ==
    ASSUME NEW h \in Seq(Messages), NEW S \in SUBSET Open(h), NEW T \in SUBSET S
    PROVE  Cardinality(T) <= Cardinality(S) /\ Cardinality(T) \in Nat /\ Cardinality(S) \in Nat
  <1>1. IsFiniteSet(S)
    BY OpenFinite, FS_Subset
  <1>2. IsFiniteSet(T) /\ Cardinality(T) <= Cardinality(S)
    BY <1>1, FS_Subset
  <1> QED
    BY <1>1, <1>2, FS_CardinalityType

\* History g is h with the messages t added.
Extends(g, h, t) ==
    /\ g \in Seq(Messages) /\ Len(g) = Len(h) + Len(t)
    /\ \A i \in 1 .. Len(h) : g[i] = h[i]
    /\ \A k \in 1 .. Len(t) : g[Len(h) + k] = t[k]

\* What was answered, given up or in its place in h is so in g.
Keeps(g, h) ==
    /\ \A i \in Open(g) : i <= Len(h) => i \in Open(h)
    /\ \A i \in 1 .. Len(h) : Interrupted(h, i) => Interrupted(g, i)
    /\ \A j \in 1 .. Len(h) : Placed(h, j) => Placed(g, j)

\* Adding messages extends a history.
LEMMA Concatenated ==
    ASSUME NEW h \in Seq(Messages), NEW t \in Seq(Messages)
    PROVE  Extends(h \o t, h, t)
  BY ConcatProperties DEF Extends

\* A history that grows keeps what it has.
LEMMA Grown ==
    ASSUME NEW h \in Seq(Messages), NEW t \in Seq(Messages), NEW g, Extends(g, h, t)
    PROVE  Keeps(g, h)
  <1>1. /\ g \in Seq(Messages) /\ Len(g) = Len(h) + Len(t) /\ Len(h) \in Nat /\ Len(t) \in Nat
        /\ \A i \in 1 .. Len(h) : g[i] = h[i]
        /\ \A k \in 1 .. Len(t) : g[Len(h) + k] = t[k]
    BY DEF Extends
  <1>2. \A i \in 1 .. Len(h) : h[i].asks \in Nat
    BY PartsOf
  <1>3. ASSUME NEW i \in 1 .. Len(h), Answered(h, i)
        PROVE  Answered(g, i)
    <2> SUFFICES ASSUME NEW k \in 1 .. h[i].asks
                 PROVE  i + k <= Len(g) /\ g[i + k].answers = <<h[i].id, k>>
      BY <1>1 DEF Answered
    <2>1. i + k <= Len(h) /\ h[i + k].answers = <<h[i].id, k>>
      BY <1>3 DEF Answered
    <2>2. i + k \in 1 .. Len(h)
      BY <1>1, <1>2, <2>1
    <2> QED
      BY <1>1, <2>1, <2>2
  <1>4. \A i \in Open(g) : i <= Len(h) => i \in Open(h)
    BY <1>1, <1>3 DEF Open
  <1>5. ASSUME NEW i \in 1 .. Len(h), Interrupted(h, i)
        PROVE  Interrupted(g, i)
    <2>1. PICK n \in 0 .. h[i].asks - 1 :
              i + n < Len(h) /\ h[i + n + 1].role = "user" /\ AnsweredUpTo(h, i, n)
      BY <1>5 DEF Interrupted
    <2>2. g[i] = h[i] /\ n \in Nat /\ h[i].asks \in Nat
      BY <1>1, <1>2
    <2>3. \A k \in 1 .. n : i + k \in 1 .. Len(h) /\ g[i + k] = h[i + k]
      BY <1>1, <2>1, <2>2
    <2>4. i + n + 1 \in 1 .. Len(h) /\ g[i + n + 1] = h[i + n + 1]
      BY <1>1, <2>1, <2>2
    <2>5. AnsweredUpTo(g, i, n)
      BY <2>1, <2>2, <2>3 DEF AnsweredUpTo
    <2>6. i + n < Len(g) /\ g[i + n + 1].role = "user"
      BY <1>1, <2>1, <2>2, <2>4
    <2> QED
      BY <2>2, <2>5, <2>6 DEF Interrupted
  <1>6. ASSUME NEW j \in 1 .. Len(h), Placed(h, j)
        PROVE  Placed(g, j)
    <2>1. CASE \E i \in 1 .. j - 1 : CallOf(h, i, j)
      <3>1. PICK i \in 1 .. j - 1 : CallOf(h, i, j)
        BY <2>1
      <3>2. \A k \in i .. j : k \in 1 .. Len(h) /\ g[k] = h[k]
        BY <1>1
      <3>3. CallOf(g, i, j)
        BY <3>1, <3>2 DEF CallOf
      <3> QED
        BY <3>3 DEF Placed
    <2>2. CASE BehindSummary(h, j)
      <3>1. PICK p \in 0 .. j - 1 : /\ \A k \in 1 .. p : h[k].role = "system"
                                    /\ \A k \in p + 1 .. j : h[k].role = "tool"
        BY <2>2 DEF BehindSummary
      <3>2. \A k \in 1 .. j : g[k] = h[k]
        BY <1>1
      <3>3. (\A k \in 1 .. p : g[k].role = "system") /\ (\A k \in p + 1 .. j : g[k].role = "tool")
        <4>1. (\A k \in 1 .. p : k \in 1 .. j) /\ (\A k \in p + 1 .. j : k \in 1 .. j)
          OBVIOUS
        <4> QED
          BY <3>1, <3>2, <4>1
      <3>4. BehindSummary(g, j)
        BY <3>3 DEF BehindSummary
      <3> QED
        BY <3>4 DEF Placed
    <2> QED
      BY <1>6, <2>1, <2>2 DEF Placed
  <1> QED
    BY <1>4, <1>5, <1>6 DEF Keeps

\* The user's message interrupts what was pending.
LEMMA GrownByUser ==
    ASSUME NEW h \in Seq(Messages), WellMade(h), NEW t \in Seq(Messages), Len(t) = 1,
           t[1].role = "user", t[1].asks = 0, NEW g, Extends(g, h, t)
    PROVE  WellMade(g) /\ Open(g) \subseteq Open(h) /\ \A i \in Open(g) : Interrupted(g, i)
  <1>1. Len(h) \in Nat
    OBVIOUS
  <1>2. /\ g \in Seq(Messages) /\ Len(g) = Len(h) + 1
        /\ \A i \in 1 .. Len(h) : g[i] = h[i]
        /\ g[Len(h) + 1] = t[1]
        /\ \A i \in Open(g) : i <= Len(h) => i \in Open(h)
        /\ \A i \in 1 .. Len(h) : Interrupted(h, i) => Interrupted(g, i)
        /\ \A j \in 1 .. Len(h) : Placed(h, j) => Placed(g, j)
    <2>1. Keeps(g, h)
      BY Grown
    <2> QED
      BY <2>1 DEF Keeps, Extends
  <1>3. \A i \in Open(g) : i \in 1 .. Len(h) /\ i \in Open(h)
    <2> SUFFICES ASSUME NEW i \in Open(g) PROVE i \in 1 .. Len(h) /\ i \in Open(h)
      OBVIOUS
    <2>1. i \in 1 .. Len(g) /\ g[i].asks > 0
      BY <1>2, OpenFinite
    <2>2. i # Len(h) + 1
      BY <1>2, <2>1
    <2> QED
      BY <1>1, <1>2, <2>1, <2>2
  <1>4. ASSUME NEW i \in Open(g), Pending(h, i)
        PROVE  Interrupted(g, i)
    <2>1. PICK n \in 0 .. h[i].asks - 1 : i + n = Len(h) /\ AnsweredUpTo(h, i, n)
      BY <1>4 DEF Pending
    <2>2. i \in 1 .. Len(h) /\ n \in Nat /\ g[i] = h[i] /\ h[i].asks \in Nat
      BY <1>2, <1>3, PartsOf
    <2>3. \A k \in 1 .. n : i + k \in 1 .. Len(h) /\ g[i + k] = h[i + k]
      BY <1>1, <1>2, <2>1, <2>2
    <2>4. AnsweredUpTo(g, i, n)
      BY <2>1, <2>2, <2>3 DEF AnsweredUpTo
    <2>5. i + n < Len(g) /\ g[i + n + 1].role = "user"
      BY <1>1, <1>2, <2>1
    <2> QED
      BY <2>2, <2>4, <2>5 DEF Interrupted
  <1>5. \A i \in Open(g) : Interrupted(g, i)
    BY <1>2, <1>3, <1>4 DEF WellMade
  <1>6. \A i \in 1 .. Len(g) : g[i].role # "assistant" => g[i].asks = 0
    BY <1>1, <1>2 DEF WellMade
  <1>7. \A j \in 1 .. Len(g) : g[j].role = "tool" => Placed(g, j)
    BY <1>1, <1>2 DEF WellMade
  <1> QED
    BY <1>3, <1>5, <1>6, <1>7 DEF WellMade

\* A reply is open until its calls are made.
LEMMA GrownByReply ==
    ASSUME NEW h \in Seq(Messages), WellMade(h), \A i \in Open(h) : Interrupted(h, i),
           NEW t \in Seq(Messages), Len(t) = 1, t[1].role = "assistant", NEW g, Extends(g, h, t)
    PROVE  /\ WellMade(g) /\ Open(g) \ {Len(g)} \subseteq Open(h) /\ g[Len(g)] = t[1]
           /\ \A i \in Open(g) \ {Len(g)} : Interrupted(g, i)
           /\ t[1].asks = 0 => Len(g) \notin Open(g)
  <1>1. Len(h) \in Nat
    OBVIOUS
  <1>2. /\ g \in Seq(Messages) /\ Len(g) = Len(h) + 1
        /\ \A i \in 1 .. Len(h) : g[i] = h[i]
        /\ g[Len(h) + 1] = t[1]
        /\ \A i \in Open(g) : i <= Len(h) => i \in Open(h)
        /\ \A i \in 1 .. Len(h) : Interrupted(h, i) => Interrupted(g, i)
        /\ \A j \in 1 .. Len(h) : Placed(h, j) => Placed(g, j)
    <2>1. Keeps(g, h)
      BY Grown
    <2> QED
      BY <2>1 DEF Keeps, Extends
  <1>3. \A i \in Open(g) : i \in 1 .. Len(g) /\ g[i].asks > 0
    BY <1>2, OpenFinite
  <1>4. \A i \in Open(g) \ {Len(g)} : i \in 1 .. Len(h) /\ i \in Open(h) /\ Interrupted(g, i)
    BY <1>1, <1>2, <1>3
  <1>5. ASSUME Len(g) \in Open(g)
        PROVE  Pending(g, Len(g))
    <2>1. g[Len(g)].asks \in Nat /\ g[Len(g)].asks > 0
      BY <1>2, <1>3, <1>5, PartsOf
    <2>2. 0 \in 0 .. g[Len(g)].asks - 1 /\ AnsweredUpTo(g, Len(g), 0) /\ Len(g) + 0 = Len(g)
      BY <1>1, <1>2, <2>1 DEF AnsweredUpTo
    <2> QED
      BY <2>2 DEF Pending
  <1>6. \A i \in 1 .. Len(g) : g[i].role # "assistant" => g[i].asks = 0
    BY <1>1, <1>2 DEF WellMade
  <1>7. \A j \in 1 .. Len(g) : g[j].role = "tool" => Placed(g, j)
    BY <1>1, <1>2 DEF WellMade
  <1>8. WellMade(g)
    BY <1>4, <1>5, <1>6, <1>7 DEF WellMade
  <1>9. t[1].asks = 0 => Len(g) \notin Open(g)
    BY <1>2, <1>3
  <1> QED
    BY <1>2, <1>4, <1>8, <1>9

\* The results of the first n calls of the last message are in their places, and answer it
\* if they are all.
LEMMA GrownByResults ==
    ASSUME history \in Seq(Messages), history # <<>>, WellMade(history), LastAssistant.role = "assistant",
           \A i \in Open(history) \ {Len(history)} : Interrupted(history, i),
           NEW n \in 0 .. LastAssistant.asks, ParallelTools => n = LastAssistant.asks,
           NEW g, Extends(g, history, Answers(n))
    PROVE  /\ WellMade(g) /\ Open(g) \subseteq Open(history)
           /\ n = LastAssistant.asks => Len(history) \notin Open(g)
           /\ \A i \in Open(g) \ {Len(history)} : Interrupted(g, i)
  <1> DEFINE h == history
             last == Len(history)
             m == LastAssistant
  <1>1. last \in Nat \ {0} /\ m \in Messages /\ h[last] = m /\ m.asks \in Nat /\ n \in Nat
    BY PartsOf DEF LastAssistant
  <1>2. /\ Answers(n) \in Seq(Messages) /\ Len(Answers(n)) = n
        /\ \A k \in 1 .. n : Answers(n)[k] = ToolResult(m.id, k)
    BY <1>1, AnswersMade DEF Answers
  <1>3. /\ g \in Seq(Messages) /\ Len(g) = last + n
        /\ \A i \in 1 .. last : g[i] = h[i]
        /\ \A k \in 1 .. n : g[last + k] = ToolResult(m.id, k)
        /\ \A i \in Open(g) : i <= last => i \in Open(h)
        /\ \A i \in 1 .. last : Interrupted(h, i) => Interrupted(g, i)
        /\ \A j \in 1 .. last : Placed(h, j) => Placed(g, j)
    <2>1. Keeps(g, h)
      BY <1>2, Grown
    <2> QED
      BY <1>2, <2>1 DEF Keeps, Extends
  <1>4. g[last] = m
    <2>1. last \in 1 .. last
      BY <1>1
    <2> QED
      BY <1>1, <1>3, <2>1
  <1>5. \A i \in last + 1 .. Len(g) : /\ g[i].role = "tool" /\ g[i].asks = 0
                                     /\ g[i].answers = <<m.id, i - last>> /\ i - last \in 1 .. n
    <2> TAKE i \in last + 1 .. Len(g)
    <2>1. PICK k \in 1 .. n : i = last + k /\ i - last = k
      <3>1. i - last \in 1 .. n /\ i = last + (i - last)
        BY <1>1, <1>3
      <3> QED
        BY <3>1
    <2>2. g[i] = ToolResult(m.id, k) /\ k \in Nat
      BY <1>3, <2>1
    <2> QED
      BY <2>1, <2>2 DEF ToolResult
  <1>6. \A i \in Open(g) : i \in 1 .. last /\ i \in Open(h)
    <2> SUFFICES ASSUME NEW i \in Open(g) PROVE i \in 1 .. last /\ i \in Open(h)
      OBVIOUS
    <2>1. i \in 1 .. Len(g) /\ g[i].asks > 0
      BY <1>3, OpenFinite
    <2>2. i \notin last + 1 .. Len(g)
      BY <1>5, <2>1
    <2> QED
      BY <1>1, <1>3, <2>1, <2>2
  <1>7. n = m.asks => last \notin Open(g)
    <2> SUFFICES ASSUME n = m.asks PROVE Answered(g, last)
      BY DEF Open
    <2> SUFFICES ASSUME NEW k \in 1 .. m.asks
                 PROVE  last + k <= Len(g) /\ g[last + k].answers = <<m.id, k>>
      BY <1>4 DEF Answered
    <2>1. last + k \in last + 1 .. Len(g) /\ (last + k) - last = k
      BY <1>1, <1>3
    <2> QED
      BY <1>1, <1>3, <1>5, <2>1
  <1>8. ASSUME last \in Open(g)
        PROVE  Pending(g, last)
    <2>1. g[last] = m /\ n # m.asks
      BY <1>4, <1>7, <1>8
    <2>2. n \in 0 .. g[last].asks - 1 /\ last + n = Len(g) /\ ~ParallelTools
      BY <1>1, <1>3, <2>1
    <2>3. \A k \in 1 .. n : g[last + k].answers = <<m.id, k>>
      <3> TAKE k \in 1 .. n
      <3>1. last + k \in last + 1 .. Len(g) /\ (last + k) - last = k
        BY <1>1, <1>3
      <3> QED
        BY <1>5, <3>1
    <2>4. AnsweredUpTo(g, last, n)
      BY <2>1, <2>2, <2>3 DEF AnsweredUpTo
    <2> QED
      BY <2>2, <2>4 DEF Pending
  <1>9. \A i \in Open(g) \ {last} : Interrupted(g, i)
    BY <1>3, <1>6
  <1>10. \A i \in 1 .. Len(g) : g[i].role # "assistant" => g[i].asks = 0
    <2> SUFFICES ASSUME NEW i \in 1 .. Len(g), g[i].role # "assistant" PROVE g[i].asks = 0
      OBVIOUS
    <2>1. CASE i \in last + 1 .. Len(g)
      BY <1>5, <2>1
    <2>2. CASE i \in 1 .. last
      BY <1>3, <2>2 DEF WellMade
    <2> QED
      BY <1>1, <1>3, <2>1, <2>2
  <1>11. \A j \in 1 .. Len(g) : g[j].role = "tool" => Placed(g, j)
    <2> SUFFICES ASSUME NEW j \in 1 .. Len(g), g[j].role = "tool" PROVE Placed(g, j)
      OBVIOUS
    <2>1. CASE j \in last + 1 .. Len(g)
      <3>1. g[last] = m /\ last \in 1 .. j - 1
        BY <1>1, <1>3, <1>4, <2>1
      <3>2. g[j].answers = <<m.id, j - last>>
        BY <1>5, <2>1
      <3>3. \A k \in last + 1 .. j : g[k].role = "tool"
        <4> SUFFICES ASSUME NEW k \in last + 1 .. j PROVE g[k].role = "tool"
          OBVIOUS
        <4>1. k \in last + 1 .. Len(g)
          BY <1>1, <1>3
        <4> QED
          BY <1>5, <4>1
      <3>4. CallOf(g, last, j)
        BY <3>1, <3>2, <3>3 DEF CallOf
      <3> QED
        BY <3>1, <3>4 DEF Placed
    <2>2. CASE j \in 1 .. last
      BY <1>3, <2>2 DEF WellMade
    <2> QED
      BY <1>1, <1>3, <2>1, <2>2
  <1> QED
    BY <1>6, <1>7, <1>8, <1>9, <1>10, <1>11 DEF WellMade

\* Where the messages of a compacted history come from: the leading system messages, the
\* summary, and the most recent ones, d places further on.
LEMMA CompactedParts ==
    ASSUME TypeOK, ~(Len(history) - Prefix <= KeepRecent)
    PROVE  \E p, d \in Nat :
              /\ p + 1 + d < Len(history) /\ Len(Compacted) = Len(history) - d
              /\ Compacted \in Seq(Messages)
              /\ history[p + 1].role # "system"
              /\ \A i \in 1 .. p : Compacted[i] = history[i] /\ history[i].role = "system"
              /\ Compacted[p + 1].role = "system" /\ Compacted[p + 1].asks = 0
              /\ \A i \in p + 2 .. Len(Compacted) : Compacted[i] = history[i + d]
  <1> DEFINE n == Len(history)
             front == SubSeq(history, 1, Prefix)
             note == <<Message("system", fresh)>>
             rest == Suffix(history, n - KeepRecent)
             p == Prefix
             d == n - KeepRecent - Prefix - 1
  <1>1. history \in Seq(Messages) /\ fresh \in Nat /\ KeepRecent \in Nat \ {0} /\ n \in Nat
    BY BoundAssumption DEF TypeOK
  <1>2. /\ p \in 0 .. n /\ (p < n => history[p + 1].role # "system")
        /\ \A i \in 1 .. p : history[i].role = "system"
    BY <1>1, PrefixExact
  <1>3. p \in Nat /\ d \in Nat /\ p < n /\ p + 1 + d < n /\ n - KeepRecent \in 0 .. n
        /\ p + 1 + d = n - KeepRecent
    BY <1>1, <1>2
  <1>4. front \in Seq(Messages) /\ Len(front) = p /\ \A i \in 1 .. p : front[i] = history[i]
    BY <1>1, <1>2, FrontExact
  <1>5. note \in Seq(Messages) /\ Len(note) = 1 /\ note[1] = Message("system", fresh)
    BY <1>1, MessagesMade
  <1>6. rest \in Seq(Messages) /\ Len(rest) = KeepRecent
        /\ \A i \in 1 .. KeepRecent : rest[i] = history[n - KeepRecent + i]
    <2>1. n - (n - KeepRecent) = KeepRecent
      BY <1>1
    <2> QED
      BY <1>1, <1>3, <2>1, SuffixExact
  <1>7. Compacted = front \o note \o rest
    BY DEF Compacted
  <1> HIDE DEF front, note, rest, n, p, d
  <1>8. Extends(front \o note, front, note)
    BY <1>4, <1>5, Concatenated
  <1>9. front \o note \in Seq(Messages) /\ Len(front \o note) = p + 1
    BY <1>4, <1>5, <1>8 DEF Extends
  <1>10. Extends(Compacted, front \o note, rest)
    BY <1>6, <1>7, <1>9, Concatenated
  <1>11. Compacted \in Seq(Messages) /\ Len(Compacted) = p + 1 + KeepRecent
    BY <1>6, <1>9, <1>10 DEF Extends
  <1>12. Len(Compacted) = n - d
    BY <1>1, <1>3, <1>11
  <1>13. \A i \in 1 .. p + 1 : Compacted[i] = (front \o note)[i]
    BY <1>9, <1>10 DEF Extends
  <1>14. \A i \in 1 .. p : Compacted[i] = history[i]
    <2> TAKE i \in 1 .. p
    <2>1. i \in 1 .. p + 1 /\ i \in 1 .. Len(front)
      BY <1>3, <1>4
    <2>2. (front \o note)[i] = front[i]
      BY <1>8, <2>1 DEF Extends
    <2> QED
      BY <1>4, <1>13, <2>1, <2>2
  <1>15. Compacted[p + 1] = Message("system", fresh)
    <2>1. p + 1 \in 1 .. p + 1 /\ 1 \in 1 .. Len(note)
      BY <1>3, <1>5
    <2>2. (front \o note)[p + 1] = note[1]
      BY <1>4, <1>8, <2>1 DEF Extends
    <2> QED
      BY <1>5, <1>13, <2>1, <2>2
  <1>16. \A i \in p + 2 .. Len(Compacted) : Compacted[i] = history[i + d]
    <2> TAKE i \in p + 2 .. Len(Compacted)
    <2>1. PICK k \in 1 .. KeepRecent : i = p + 1 + k
      <3>1. i - (p + 1) \in 1 .. KeepRecent /\ i = p + 1 + (i - (p + 1))
        BY <1>1, <1>3, <1>11
      <3> QED
        BY <3>1
    <2>2. Compacted[i] = rest[k]
      BY <1>6, <1>9, <1>10, <2>1 DEF Extends
    <2>3. i + d = n - KeepRecent + k
      BY <1>1, <1>3, <2>1
    <2> QED
      BY <1>6, <2>2, <2>3
  <1>17. Compacted[p + 1].role = "system" /\ Compacted[p + 1].asks = 0
    BY <1>15 DEF Message
  <1>18. \A i \in 1 .. p : Compacted[i] = history[i] /\ history[i].role = "system"
    BY <1>2, <1>14
  <1> QED
    BY <1>2, <1>3, <1>11, <1>12, <1>16, <1>17, <1>18 DEF n

\* Compaction keeps calls and results together, but for results right behind the summary,
\* and opens no message.
LEMMA CompactedPairs ==
    ASSUME TypeOK, WellMade(history), \A i \in Open(history) : Interrupted(history, i)
    PROVE  /\ Compacted \in Seq(Messages) /\ WellMade(Compacted)
           /\ \A i \in Open(Compacted) : Interrupted(Compacted, i)
           /\ Cardinality(Open(Compacted)) <= Cardinality(Open(history))
  <1>1. history \in Seq(Messages) /\ Len(history) \in Nat
    BY DEF TypeOK
  <1>2. CASE Len(history) - Prefix <= KeepRecent
    BY <1>1, <1>2, OpenFinite DEF Compacted
  <1>3. CASE ~(Len(history) - Prefix <= KeepRecent)
    <2> DEFINE g == Compacted
               h == history
    <2>1. PICK p \in Nat, d \in Nat :
              /\ p + 1 + d < Len(h) /\ Len(g) = Len(h) - d
              /\ g \in Seq(Messages)
              /\ h[p + 1].role # "system"
              /\ \A i \in 1 .. p : g[i] = h[i] /\ h[i].role = "system"
              /\ g[p + 1].role = "system" /\ g[p + 1].asks = 0
              /\ \A i \in p + 2 .. Len(g) : g[i] = h[i + d]
      BY <1>3, CompactedParts
    <2> HIDE DEF g
    <2>2. \A i \in p + 2 .. Len(g) : i \in 1 .. Len(g) /\ i + d \in 1 .. Len(h) /\ g[i] = h[i + d]
      BY <1>1, <2>1
    <2>3. \A i \in 1 .. Len(g) : i \in p + 2 .. Len(g) \/ (g[i].role = "system" /\ g[i].asks = 0)
      <3> TAKE i \in 1 .. Len(g)
      <3>1. CASE i \in 1 .. p
        <4>1. i \in 1 .. Len(h) /\ g[i] = h[i] /\ h[i].role = "system"
          BY <1>1, <2>1, <3>1
        <4> QED
          BY <4>1 DEF WellMade
      <3>2. CASE i = p + 1
        BY <2>1, <3>2
      <3> QED
        BY <1>1, <2>1, <3>1, <3>2
    <2>4. \A i \in Open(g) : i \in p + 2 .. Len(g) /\ g[i].asks > 0
      BY <2>1, <2>3, OpenFinite
    <2>5. ASSUME NEW i \in p + 2 .. Len(g), Answered(h, i + d)
          PROVE  Answered(g, i)
      <3> SUFFICES ASSUME NEW k \in 1 .. g[i].asks
                   PROVE  i + k <= Len(g) /\ g[i + k].answers = <<g[i].id, k>>
        BY DEF Answered
      <3>1. g[i] = h[i + d] /\ g[i].asks \in Nat
        BY <2>1, <2>2, PartsOf
      <3>2. (i + d) + k <= Len(h) /\ h[(i + d) + k].answers = <<g[i].id, k>>
        BY <2>5, <3>1 DEF Answered
      <3>3. i + k \in p + 2 .. Len(g) /\ (i + k) + d = (i + d) + k
        BY <1>1, <2>1, <3>1, <3>2
      <3>4. g[i + k] = h[(i + k) + d]
        BY <2>2, <3>3
      <3> QED
        BY <3>2, <3>3, <3>4
    <2>6. \A i \in Open(g) : i + d \in Open(h)
      BY <2>2, <2>4, <2>5 DEF Open
    <2>7. ASSUME NEW i \in p + 2 .. Len(g), Interrupted(h, i + d)
          PROVE  Interrupted(g, i)
      <3>1. g[i] = h[i + d] /\ g[i].asks \in Nat
        BY <2>1, <2>2, PartsOf
      <3>2. PICK m \in 0 .. g[i].asks - 1 :
                (i + d) + m < Len(h) /\ h[(i + d) + m + 1].role = "user" /\ AnsweredUpTo(h, i + d, m)
        BY <2>7, <3>1 DEF Interrupted
      <3>3. m \in Nat /\ i \in Nat
        BY <2>1, <3>1
      <3>4. \A k \in 1 .. m + 1 : i + k \in p + 2 .. Len(g) /\ (i + k) + d = (i + d) + k
        BY <1>1, <2>1, <3>2, <3>3
      <3>5. \A k \in 1 .. m + 1 : g[i + k] = h[(i + d) + k]
        BY <2>2, <3>4
      <3>6. \A k \in 1 .. m : g[i + k].answers = <<g[i].id, k>>
        <4> TAKE k \in 1 .. m
        <4>1. h[(i + d) + k].answers = <<g[i].id, k>>
          BY <3>1, <3>2 DEF AnsweredUpTo
        <4>2. k \in 1 .. m + 1
          BY <3>3
        <4> QED
          BY <3>5, <4>1, <4>2
      <3>7. i + m + 1 \in p + 2 .. Len(g) /\ (i + m + 1) + d = (i + d) + m + 1
        BY <1>1, <2>1, <3>2, <3>3
      <3>8. i + m < Len(g) /\ g[i + m + 1].role = "user"
        <4>1. g[i + m + 1] = h[(i + d) + m + 1]
          BY <2>2, <3>7
        <4>2. i + m < Len(g)
          BY <2>1, <3>3, <3>7
        <4> QED
          BY <3>2, <4>1, <4>2
      <3>9. AnsweredUpTo(g, i, m)
        BY <3>2, <3>6 DEF AnsweredUpTo
      <3> QED
        BY <3>8, <3>9 DEF Interrupted
    <2>8. \A i \in Open(g) : Interrupted(g, i)
      BY <2>4, <2>6, <2>7
    <2>9. ASSUME NEW j \in p + 2 .. Len(g), \A k \in p + 1 + d + 1 .. j + d : h[k].role = "tool"
          PROVE  BehindSummary(g, j)
      <3>1. \A k \in p + 2 .. j : g[k].role = "tool"
        <4> TAKE k \in p + 2 .. j
        <4>1. k \in p + 2 .. Len(g) /\ k + d \in p + 1 + d + 1 .. j + d
          BY <1>1, <2>1
        <4> QED
          BY <2>2, <2>9, <4>1
      <3>2. \A k \in 1 .. p + 1 : g[k].role = "system"
        <4> TAKE k \in 1 .. p + 1
        <4>1. k \in 1 .. p \/ k = p + 1
          OBVIOUS
        <4> QED
          BY <2>1, <4>1
      <3>3. p + 1 \in 0 .. j - 1 /\ p + 1 + 1 = p + 2
        OBVIOUS
      <3> QED
        BY <3>1, <3>2, <3>3 DEF BehindSummary
    <2>10. ASSUME NEW j \in p + 2 .. Len(g), Placed(h, j + d)
           PROVE  Placed(g, j)
      <3>1. ASSUME NEW i \in 1 .. j + d - 1, CallOf(h, i, j + d)
            PROVE  Placed(g, j)
        <4>1. CASE i >= p + 2 + d
          <5>1. PICK l \in p + 2 .. j - 1 : i = l + d
            <6>1. i - d \in p + 2 .. j - 1 /\ i = (i - d) + d
              BY <2>1, <4>1
            <6> QED
              BY <6>1
          <5>2. l \in 1 .. j - 1 /\ l \in p + 2 .. Len(g) /\ (j + d) - i = j - l
            BY <1>1, <2>1, <5>1
          <5>3. g[l] = h[i] /\ g[j] = h[j + d]
            BY <2>2, <5>1, <5>2
          <5>4. \A k \in l + 1 .. j : g[k].role = "tool"
            <6> TAKE k \in l + 1 .. j
            <6>1. k \in p + 2 .. Len(g) /\ k + d \in i + 1 .. j + d
              BY <1>1, <2>1, <5>1
            <6> QED
              BY <2>2, <3>1, <6>1 DEF CallOf
          <5>5. CallOf(g, l, j)
            BY <3>1, <5>2, <5>3, <5>4 DEF CallOf
          <5> QED
            BY <5>2, <5>5 DEF Placed
        <4>2. CASE ~(i >= p + 2 + d)
          <5>1. \A k \in p + 1 + d + 1 .. j + d : k \in i + 1 .. j + d
            BY <2>1, <4>2
          <5>2. BehindSummary(g, j)
            BY <2>9, <3>1, <5>1 DEF CallOf
          <5> QED
            BY <5>2 DEF Placed
        <4> QED
          BY <4>1, <4>2
      <3>2. CASE BehindSummary(h, j + d)
        <4>1. PICK e \in Nat : e = j + d
          BY <2>1
        <4>2. BehindSummary(h, e)
          BY <3>2, <4>1
        <4>3. PICK q \in 0 .. e - 1 : /\ \A k \in 1 .. q : h[k].role = "system"
                                      /\ \A k \in q + 1 .. e : h[k].role = "tool"
          BY <4>2 DEF BehindSummary
        <4>4. ~(p + 1 \in 1 .. q)
          BY <2>1, <4>3
        <4>5. \A k \in p + 1 + d + 1 .. e : k \in q + 1 .. e
          BY <2>1, <4>4
        <4>6. BehindSummary(g, j)
          BY <2>9, <4>1, <4>3, <4>5
        <4> QED
          BY <4>6 DEF Placed
      <3> QED
        BY <2>10, <3>1, <3>2 DEF Placed
    <2>11. \A j \in 1 .. Len(g) : g[j].role = "tool" => Placed(g, j)
      BY <2>2, <2>3, <2>10 DEF WellMade
    <2>12. \A i \in 1 .. Len(g) : g[i].role # "assistant" => g[i].asks = 0
      BY <2>2, <2>3 DEF WellMade
    <2>13. WellMade(g)
      BY <2>8, <2>11, <2>12 DEF WellMade
    <2>14. Cardinality(Open(g)) <= Cardinality(Open(h))
      <3> DEFINE f == [i \in Open(g) |-> i + d]
      <3>1. f \in [Open(g) -> Open(h)]
        BY <2>6
      <3>2. \A a, b \in Open(g) : f[a] = f[b] => a = b
        BY <2>1, <2>4
      <3>3. f \in Injection(Open(g), Open(h))
        BY <3>1, <3>2 DEF Injection, IsInjective
      <3> HIDE DEF f
      <3> QED
        BY <1>1, <3>3, OpenFinite, FS_Injection
    <2> QED
      BY <2>1, <2>8, <2>13, <2>14 DEF g
  <1> QED
    BY <1>2, <1>3

\* The history changes and no message is given up.
LEMMA NewHistory ==
    ASSUME TypeOK, PairInv, history' \in Seq(Messages), WellMade(history'), UNCHANGED <<snapshot, restarts>>,
           pc' = "tools" => LastAssistant'.role = "assistant",
           pc' # "idle" => \A i \in GivenUp' : Interrupted(history', i),
           ParallelTools => Cardinality(GivenUp') <= Cardinality(GivenUp) /\ Cardinality(GivenUp') \in Nat
    PROVE  PairInv'
  <1>1. history \in Seq(Messages) /\ GivenUp \in SUBSET Open(history) /\ restarts \in Nat
    BY DEF TypeOK, GivenUp
  <1>2. Cardinality(GivenUp) \in Nat
    BY <1>1, FewerOpen
  <1>3. ParallelTools => Cardinality(GivenUp') <= restarts
    BY <1>1, <1>2 DEF PairInv
  <1>4. WellMade(snapshot') /\ Open(snapshot') = Open(snapshot)
    BY DEF PairInv
  <1> QED
    BY <1>3, <1>4 DEF PairInv

\* A step that leaves the history alone.
LEMMA SameHistory ==
    ASSUME TypeOK, PairInv, UNCHANGED <<history, snapshot, restarts>>, pc' # "idle" => pc # "idle",
           pc' = "tools" <=> pc = "tools"
    PROVE  PairInv'
  <1>1. history \in Seq(Messages) /\ GivenUp \in SUBSET Open(history)
    BY DEF TypeOK, GivenUp
  <1>2. GivenUp' = GivenUp /\ LastAssistant' = LastAssistant /\ WellMade(history')
    BY DEF GivenUp, LastAssistant, PairInv
  <1>3. Cardinality(GivenUp) \in Nat /\ Cardinality(GivenUp) <= Cardinality(GivenUp)
    BY <1>1, FewerOpen
  <1> QED
    BY <1>1, <1>2, <1>3, NewHistory DEF PairInv

\* A reply without calls, and one with them, is recorded.
LEMMA ReplyPairs ==
    ASSUME IInv, PairInv, Asking, NEW n \in Nat, NEW g, g = Append(history, Assistant(fresh, n))
    PROVE  /\ g \in Seq(Messages) /\ WellMade(g) /\ Open(g) \ {Len(g)} \subseteq GivenUp
           /\ g[Len(g)].role = "assistant" /\ GivenUp = Open(history)
           /\ \A i \in Open(g) \ {Len(g)} : Interrupted(g, i)
           /\ n = 0 => Len(g) \notin Open(g)
  <1> DEFINE t == <<Assistant(fresh, n)>>
  <1>1. history \in Seq(Messages) /\ fresh \in Nat
    BY DEF IInv, TypeOK
  <1>2. Assistant(fresh, n) \in Messages
    BY <1>1, MessagesMade
  <1>3. t \in Seq(Messages) /\ Len(t) = 1 /\ t[1].role = "assistant" /\ t[1].asks = n
    BY <1>2 DEF Assistant
  <1>4. g = history \o t
    BY <1>1, <1>2, AppendIsConcat
  <1> HIDE DEF t
  <1>5. Extends(g, history, t)
    BY <1>1, <1>3, <1>4, Concatenated
  <1>6. GivenUp = Open(history) /\ \A i \in Open(history) : Interrupted(history, i)
    BY DEF Asking, GivenUp, PairInv
  <1>7. /\ WellMade(g) /\ Open(g) \ {Len(g)} \subseteq Open(history) /\ g[Len(g)] = t[1]
        /\ \A i \in Open(g) \ {Len(g)} : Interrupted(g, i)
        /\ t[1].asks = 0 => Len(g) \notin Open(g)
    BY <1>1, <1>3, <1>5, <1>6, GrownByReply DEF PairInv
  <1>8. g \in Seq(Messages)
    BY <1>5 DEF Extends
  <1> QED
    BY <1>3, <1>6, <1>7, <1>8

\* Calls and results stay paired in every step.
LEMMA PairStep ==
    ASSUME IInv, PairInv, [Next]_vars
    PROVE  PairInv'
  <1> USE DEF sessionVars, runVars, hostVars
  <1>1. TypeOK /\ history \in Seq(Messages) /\ fresh \in Nat /\ history # <<>> /\ restarts \in Nat
        /\ snapshot \in Seq(Messages)
    BY DEF IInv, TypeOK, InstructionsFirst
  <1>2. GivenUp \in SUBSET Open(history) /\ WellMade(history)
    BY DEF GivenUp, PairInv
  <1>3. CASE TopOfLoop \/ NoCompaction \/ StartStep \/ RejectThread \/ GenerateFails
    <2>1. UNCHANGED <<history, snapshot, restarts>> /\ pc \notin {"idle", "tools"} /\ pc' # "tools"
      BY <1>3 DEF TopOfLoop, NoCompaction, StartStep, RejectThread, GenerateFails, EndRun
    <2> QED
      BY <1>1, <2>1, SameHistory
  <1>4. CASE UNCHANGED vars
    BY <1>1, <1>4, SameHistory DEF vars
  <1>5. CASE Send \/ AskRepair
    <2> DEFINE t == <<Message("user", fresh)>>
    <2>1. /\ pc \in {"idle", "repair"} /\ pc' = "top" /\ history' = Append(history, Message("user", fresh))
          /\ UNCHANGED <<snapshot, restarts>>
      BY <1>5 DEF Send, AskRepair
    <2>2. Message("user", fresh) \in Messages
      BY <1>1, MessagesMade
    <2>3. t \in Seq(Messages) /\ Len(t) = 1 /\ t[1].role = "user" /\ t[1].asks = 0
      BY <2>2 DEF Message
    <2>4. history' = history \o t
      BY <1>1, <2>1, <2>2, AppendIsConcat
    <2> HIDE DEF t
    <2>5. Extends(history', history, t)
      BY <1>1, <2>3, <2>4, Concatenated
    <2>6. history' \in Seq(Messages)
      BY <2>5 DEF Extends
    <2>7. WellMade(history') /\ Open(history') \subseteq Open(history)
          /\ \A i \in Open(history') : Interrupted(history', i)
      BY <1>1, <1>2, <2>3, <2>5, GrownByUser
    <2>8. GivenUp' = Open(history') /\ GivenUp = Open(history)
      BY <2>1 DEF GivenUp
    <2>9. Cardinality(GivenUp') <= Cardinality(GivenUp) /\ Cardinality(GivenUp') \in Nat
      BY <1>1, <2>7, <2>8, FewerOpen
    <2> QED
      BY <1>1, <2>1, <2>6, <2>7, <2>8, <2>9, NewHistory
  <1>6. CASE Compact
    <2>1. pc = "compact" /\ pc' = "build" /\ history' = Compacted /\ UNCHANGED <<snapshot, restarts>>
      BY <1>6 DEF Compact
    <2>2. GivenUp = Open(history) /\ \A i \in Open(history) : Interrupted(history, i)
      BY <2>1 DEF GivenUp, PairInv
    <2>3. /\ history' \in Seq(Messages) /\ WellMade(history')
          /\ \A i \in Open(history') : Interrupted(history', i)
          /\ Cardinality(Open(history')) <= Cardinality(Open(history))
      BY <1>1, <1>2, <2>1, <2>2, CompactedPairs
    <2>4. GivenUp' = Open(history') /\ Cardinality(Open(history')) \in Nat
      BY <2>1, <2>3, OpenFinite DEF GivenUp
    <2> QED
      BY <1>1, <2>1, <2>2, <2>3, <2>4, NewHistory
  <1>7. ASSUME NEW n \in 1 .. MaxCalls, NEW withID \in BOOLEAN, ReplyWithCalls(n, withID)
        PROVE  PairInv'
    <2>1. /\ Asking /\ pc' = "tools" /\ UNCHANGED <<snapshot, restarts>>
          /\ history' = Append(history, Assistant(fresh, n))
      BY <1>7 DEF ReplyWithCalls, RecordReply, Asking
    <2>2. n \in Nat
      BY BoundAssumption
    <2>3. /\ history' \in Seq(Messages) /\ WellMade(history')
          /\ Open(history') \ {Len(history')} \subseteq GivenUp
          /\ history'[Len(history')].role = "assistant"
          /\ \A i \in Open(history') \ {Len(history')} : Interrupted(history', i)
      BY <2>1, <2>2, ReplyPairs
    <2>4. GivenUp' = Open(history') \ {Len(history')} /\ LastAssistant' = history'[Len(history')]
      BY <2>1 DEF GivenUp, LastAssistant
    <2>5. Cardinality(GivenUp') <= Cardinality(GivenUp) /\ Cardinality(GivenUp') \in Nat
      BY <1>1, <1>2, <2>3, <2>4, FewerOpen
    <2> QED
      BY <1>1, <2>1, <2>3, <2>4, <2>5, NewHistory
  <1>8. ASSUME NEW withID \in BOOLEAN, ReplyWithAnswer(withID) \/ ReplyInvalid(withID)
        PROVE  PairInv'
    <2>1. /\ Asking /\ pc' \in {"idle", "repair"} /\ UNCHANGED <<snapshot, restarts>>
          /\ history' = Append(history, Assistant(fresh, 0))
      BY <1>8 DEF ReplyWithAnswer, ReplyInvalid, RecordReply, Asking
    <2>2. /\ history' \in Seq(Messages) /\ WellMade(history')
          /\ Open(history') \ {Len(history')} \subseteq GivenUp
          /\ \A i \in Open(history') \ {Len(history')} : Interrupted(history', i)
          /\ Len(history') \notin Open(history')
      BY <2>1, ReplyPairs
    <2>3. GivenUp' = Open(history') /\ GivenUp' \subseteq GivenUp
      BY <2>1, <2>2 DEF GivenUp
    <2>4. pc' # "idle" => \A i \in GivenUp' : Interrupted(history', i)
      BY <2>2, <2>3
    <2>5. Cardinality(GivenUp') <= Cardinality(GivenUp) /\ Cardinality(GivenUp') \in Nat
      BY <1>1, <1>2, <2>3, FewerOpen
    <2> QED
      BY <1>1, <2>1, <2>2, <2>4, <2>5, NewHistory
  <1>9. CASE ToolsAnswer \/ ToolsFatal
    <2>1. LastAssistant.asks \in Nat /\ LastAssistant.role = "assistant" /\ pc = "tools"
          /\ GivenUp = Open(history) \ {Len(history)}
      <3>1. pc = "tools" /\ Len(history) \in 1 .. Len(history)
        BY <1>1, <1>9 DEF ToolsAnswer, ToolsFatal
      <3> QED
        BY <1>1, <3>1, PartsOf DEF LastAssistant, GivenUp, PairInv
    <2>2. PICK n \in 0 .. LastAssistant.asks :
              /\ history' = history \o Answers(n) /\ (ParallelTools => n = LastAssistant.asks)
              /\ ToolsAnswer => n = LastAssistant.asks
      <3>1. CASE ToolsAnswer
        <4>1. LastAssistant.asks \in 0 .. LastAssistant.asks
          BY <2>1
        <4>2. history' = history \o Answers(LastAssistant.asks)
          BY <3>1 DEF ToolsAnswer
        <4> QED
          BY <4>1, <4>2, Zenon
      <3>2. CASE ToolsFatal /\ ~ToolsAnswer
        BY <2>1, <3>2 DEF ToolsFatal, FatalStops
      <3> QED
        BY <1>9, <3>1, <3>2
    <2>3. /\ UNCHANGED <<snapshot, restarts>> /\ pc' \in {"top", "idle"}
          /\ pc' # "idle" => n = LastAssistant.asks
      BY <1>9, <2>2 DEF ToolsAnswer, ToolsFatal, EndRun
    <2>4. Answers(n) \in Seq(Messages)
      BY <1>1, <2>1, AnswersMade
    <2>5. Extends(history', history, Answers(n))
      BY <1>1, <2>2, <2>4, Concatenated
    <2>6. \A i \in Open(history) \ {Len(history)} : Interrupted(history, i)
      BY <2>1 DEF PairInv
    <2>7. /\ WellMade(history') /\ Open(history') \subseteq Open(history)
          /\ n = LastAssistant.asks => Len(history) \notin Open(history')
          /\ \A i \in Open(history') \ {Len(history)} : Interrupted(history', i)
      BY <1>1, <1>2, <2>1, <2>2, <2>5, <2>6, GrownByResults
    <2>8. history' \in Seq(Messages)
      BY <2>5 DEF Extends
    <2>9. GivenUp' = Open(history')
      BY <2>3 DEF GivenUp
    <2>10. ParallelTools => GivenUp' \subseteq GivenUp
      BY <2>1, <2>2, <2>7, <2>9
    <2>11. ParallelTools => Cardinality(GivenUp') <= Cardinality(GivenUp) /\ Cardinality(GivenUp') \in Nat
      BY <1>1, <1>2, <2>10, FewerOpen
    <2>12. pc' # "idle" => \A i \in GivenUp' : Interrupted(history', i)
      BY <2>3, <2>7, <2>9
    <2> QED
      BY <1>1, <2>3, <2>7, <2>8, <2>11, <2>12, NewHistory
  <1>10. CASE Snapshot
    <2>1. snapshot' = history /\ UNCHANGED <<history, pc, restarts>>
      BY <1>10 DEF Snapshot
    <2>2. IsFiniteSet(Open(history)) /\ Cardinality(Open(history)) \in Nat
      BY <1>1, OpenFinite
    <2>3. Cardinality(Open(history)) <= Cardinality(GivenUp) + 1 /\ Cardinality(GivenUp) \in Nat
      <3>1. CASE pc = "tools"
        <4>1. GivenUp = Open(history) \ {Len(history)}
          BY <3>1 DEF GivenUp
        <4>2. /\ IsFiniteSet(GivenUp)
              /\ Cardinality(GivenUp) = IF Len(history) \in Open(history) THEN Cardinality(Open(history)) - 1
                                        ELSE Cardinality(Open(history))
          BY <2>2, <4>1, FS_RemoveElement
        <4>3. Cardinality(GivenUp) \in Nat
          BY <4>2, FS_CardinalityType
        <4> QED
          BY <2>2, <4>2, <4>3
      <3>2. CASE pc # "tools"
        BY <2>2, <3>2 DEF GivenUp
      <3> QED
        BY <3>1, <3>2
    <2>4. ParallelTools => Cardinality(Open(history)) <= restarts + 1
      BY <1>1, <2>2, <2>3 DEF PairInv
    <2>5. GivenUp' = GivenUp /\ LastAssistant' = LastAssistant
      BY <2>1 DEF GivenUp, LastAssistant
    <2> QED
      BY <1>2, <2>1, <2>4, <2>5 DEF PairInv
  <1>11. CASE Resume
    <2>1. history' = snapshot /\ snapshot' = snapshot /\ pc' = "idle" /\ restarts' = restarts + 1
      BY <1>11 DEF Resume
    <2>2. GivenUp' = Open(snapshot) /\ Cardinality(Open(snapshot)) \in Nat
      BY <1>1, <2>1, OpenFinite DEF GivenUp
    <2>3. ParallelTools => Cardinality(Open(snapshot)) <= restarts + 1
      BY DEF PairInv
    <2>4. ParallelTools => Cardinality(GivenUp') <= restarts' /\ Cardinality(Open(snapshot')) <= restarts' + 1
      BY <1>1, <2>1, <2>2, <2>3
    <2> QED
      BY <2>1, <2>4 DEF PairInv
  <1> QED
    BY <1>3, <1>4, <1>5, <1>6, <1>7, <1>8, <1>9, <1>10, <1>11 DEF Next, RunStep, Quiet

\* Whatever was compacted, refused, repaired, snapshot and resumed before a model call, each
\* tool call in the history it is shown is answered once and in order, but for those cut off by
\* a summary, a restart or a fatal tool; a restart leaves at most one message without answers.
THEOREM CallsAreAnswered == Spec => []CallsAnswered
  <1>1. Init => PairInv
    <2> SUFFICES ASSUME Init PROVE PairInv
      OBVIOUS
    <2>1. history = <<Instructions>> /\ snapshot = <<Instructions>> /\ pc = "idle" /\ restarts = 0
      BY DEF Init
    <2>2. Instructions \in Messages /\ Instructions.role = "system" /\ Instructions.asks = 0
      BY MessagesMade DEF Instructions, Message
    <2>3. history \in Seq(Messages) /\ Len(history) = 1 /\ history[1] = Instructions
      BY <2>1, <2>2
    <2>4. \A i \in 1 .. Len(history) : history[i].role = "system" /\ history[i].asks = 0
      BY <2>2, <2>3
    <2>5. Open(history) = {}
      BY <2>3, <2>4, OpenFinite
    <2>6. WellMade(history)
      BY <2>4, <2>5 DEF WellMade
    <2>7. GivenUp = {} /\ Open(snapshot) = {} /\ WellMade(snapshot)
      BY <2>1, <2>5, <2>6 DEF GivenUp
    <2> QED
      BY <2>1, <2>6, <2>7, FS_EmptySet DEF PairInv
  <1>2. IInv /\ PairInv /\ [Next]_vars => PairInv'
    BY PairStep
  <1>3. IInv /\ PairInv => CallsAnswered
    <2> SUFFICES ASSUME IInv, PairInv, Asking PROVE CallsAnswered
      BY DEF CallsAnswered
    <2>1. history \in Seq(Messages) /\ Len(history) \in Nat
      BY DEF IInv, TypeOK
    <2>2. GivenUp = Open(history) /\ \A i \in Open(history) : Interrupted(history, i)
      BY DEF Asking, GivenUp, PairInv
    <2>3. ParallelTools => Cardinality(Open(history)) <= restarts
      BY <2>2 DEF PairInv
    <2>4. ASSUME NEW j \in 1 .. Len(history), history[j].role = "tool"
          PROVE  HasCall(j) \/ AtCut(j)
      <3>1. Placed(history, j)
        BY <2>4 DEF PairInv, WellMade
      <3>2. ASSUME NEW i \in 1 .. j - 1, CallOf(history, i, j)
            PROVE  HasCall(j)
        <4>1. history[j].answers = <<history[i].id, j - i>> /\ history[i].role = "assistant"
          BY <3>2 DEF CallOf
        <4>2. history[j].answers[1] = history[i].id /\ history[j].answers[2] = j - i
          BY <4>1
        <4>3. j - history[j].answers[2] = i /\ i > 0
          BY <2>1, <4>2
        <4> QED
          BY <4>1, <4>2, <4>3 DEF HasCall
      <3>3. CASE BehindSummary(history, j)
        <4>1. PICK p \in 0 .. j - 1 : /\ \A k \in 1 .. p : history[k].role = "system"
                                      /\ \A k \in p + 1 .. j : history[k].role = "tool"
          BY <3>3 DEF BehindSummary
        <4>2. Prefix \in 0 .. Len(history) /\ (Prefix < Len(history) => history[Prefix + 1].role # "system")
          BY <2>1, PrefixExact
        <4>3. Prefix >= p
          BY <2>1, <4>1, <4>2
        <4>4. \A k \in Prefix + 1 .. j : k \in p + 1 .. j
          BY <4>2, <4>3
        <4> QED
          BY <4>1, <4>4 DEF AtCut
      <3> QED
        BY <3>1, <3>2, <3>3 DEF Placed
    <2> QED
      BY <2>2, <2>3, <2>4 DEF CallsAnswered
  <1> QED
    BY <1>1, <1>2, <1>3, InvariantHolds, PTL DEF Spec

-----------------------------------------------------------------------------
(* Threading implements its absence                                        *)

\* What the abstract session is shown is what its request carries.
LEMMA PlainView ==
    ASSUME View \in Seq(Messages)
    PROVE  Plain!View = View
  <1>1. Plain!View = <<>> \o View
    BY DEF Plain!View
  <1> QED
    BY <1>1, ConcatEmptySeq

\* Recording a reply is the same step of the abstract session: it shows the model the
\* same messages and never has a thread to continue.
LEMMA RecordReplyRefines ==
    ASSUME IInv, Asking, NEW reply, NEW withID \in BOOLEAN, RecordReply(reply, withID)
    PROVE  Plain!RecordReply(reply, withID)
  <1>1. View \in Seq(Messages)
    BY ViewType DEF IInv, RequestMatches
  <1>2. Plain!View = View
    BY <1>1, PlainView
  <1>3. View' = <<>>
    <2>1. request' = NoRequest
      BY DEF RecordReply
    <2>2. View' = <<>> \o <<>>
      BY <2>1 DEF View, NoRequest
    <2>3. <<>> \o <<>> = <<>>
      OBVIOUS
    <2> QED
      BY <2>2, <2>3
  <1>4. [prev |-> 0, msgs |-> View]' = Plain!NoRequest
    BY <1>3 DEF Plain!NoRequest
  <1>5. ~Plain!ThreadingActive
    BY DEF Plain!ThreadingActive
  <1>6. /\ history' = Append(history, reply) /\ fresh' = fresh + 1
        /\ server' = Append(server, Append(View, reply)) /\ step' = step + 1
        /\ UNCHANGED <<turns, restarts, snapshot>>
    BY DEF RecordReply, hostVars
  <1> QED
    BY <1>2, <1>4, <1>5, <1>6 DEF Plain!RecordReply, Plain!hostVars

\* Each step of a run is a step of the run without threading, or, when the provider
\* refuses the thread, no step at all.
LEMMA RunStepRefines ==
    ASSUME IInv, RunStep
    PROVE  Plain!RunStep \/ UNCHANGED Plain!vars
  <1> USE DEF sessionVars, runVars, hostVars, Plain!sessionVars, Plain!runVars, Plain!hostVars
  <1>1. View \in Seq(Messages) /\ (Asking => View = history)
    BY ViewType DEF IInv, RequestMatches
  <1>2. request' = NoRequest => [prev |-> 0, msgs |-> View]' = Plain!NoRequest
    <2> SUFFICES ASSUME request' = NoRequest PROVE View' = <<>>
      BY DEF Plain!NoRequest
    <2>1. View' = <<>> \o <<>>
      BY DEF View, NoRequest
    <2>2. <<>> \o <<>> = <<>>
      OBVIOUS
    <2> QED
      BY <2>1, <2>2
  <1>3. UNCHANGED <<request, server>> => View' = View
    BY DEF View
  <1>4. CASE TopOfLoop
    <2>1. UNCHANGED <<history, server, fresh, turns, restarts, snapshot>> /\ pc = "top"
      BY <1>4 DEF TopOfLoop
    <2>2. CASE \E r \in {"canceled", "budget"} : EndRun(r)
      BY <1>2, <2>1, <2>2 DEF EndRun, Plain!RunStep, Plain!TopOfLoop, Plain!EndRun
    <2>3. CASE step >= MaxSteps /\ EndRun("max_steps")
      BY <1>2, <2>1, <2>3 DEF EndRun, Plain!RunStep, Plain!TopOfLoop, Plain!EndRun
    <2>4. CASE step < MaxSteps /\ pc' = "compact" /\ UNCHANGED <<runVars, request>>
      BY <1>3, <2>1, <2>4 DEF Plain!RunStep, Plain!TopOfLoop
    <2> QED
      BY <1>4, <2>2, <2>3, <2>4 DEF TopOfLoop
  <1>5. CASE NoCompaction
    BY <1>3, <1>5 DEF NoCompaction, Plain!RunStep, Plain!NoCompaction
  <1>6. CASE Compact
    <2>1. Plain!Compacted = Compacted
      BY DEF Compacted, Prefix, Suffix, Message, Plain!Compacted, Plain!Prefix, Plain!Suffix, Plain!Message
    <2> QED
      BY <1>3, <1>6, <2>1 DEF Compact, Plain!RunStep, Plain!Compact
  <1>7. CASE StartStep
    <2>1. UNCHANGED <<history, server, step, repairsLeft, reason, fresh, turns, restarts, snapshot>>
          /\ pc = "build" /\ pc' = "model"
      BY <1>7 DEF StartStep
    <2>2. View' = history'
      BY <2>1, RunStepInvariant DEF IInv, RequestMatches, Asking
    <2>3. [prev |-> 0, msgs |-> View]' = Plain!BuildRequest
      BY <2>1, <2>2 DEF Plain!BuildRequest, Plain!ThreadingActive, Plain!FullRequest
    <2> QED
      BY <2>1, <2>3 DEF Plain!RunStep, Plain!StartStep
  <1>8. CASE RejectThread
    <2>1. UNCHANGED <<history, server, step, repairsLeft, reason, fresh, turns, restarts, snapshot>>
          /\ pc = "model" /\ pc' = "retry"
      BY <1>8 DEF RejectThread
    <2>2. View' = history' /\ View = history
      BY <1>1, <2>1, RunStepInvariant DEF IInv, RequestMatches, Asking
    <2> QED
      BY <2>1, <2>2 DEF Plain!vars
  <1>9. CASE GenerateFails
    <2>1. UNCHANGED <<history, server, fresh, turns, restarts, snapshot>> /\ pc \in {"model", "retry"}
      BY <1>9 DEF GenerateFails
    <2>2. PICK r \in {"error", "canceled", "budget"} : EndRun(r)
      BY <1>9 DEF GenerateFails
    <2>3. Plain!EndRun(r)
      BY <1>2, <2>2 DEF EndRun, Plain!EndRun
    <2> QED
      BY <2>1, <2>3 DEF Plain!RunStep, Plain!GenerateFails
  <1>10. ASSUME NEW withID \in BOOLEAN, NEW n \in 1 .. MaxCalls, ReplyWithCalls(n, withID)
         PROVE  Plain!RunStep
    <2>1. Plain!RecordReply(Assistant(fresh, n), withID)
      BY <1>10, RecordReplyRefines DEF ReplyWithCalls, Asking
    <2>2. Plain!ReplyWithCalls(n, withID)
      BY <1>10, <2>1 DEF ReplyWithCalls, Assistant, Plain!ReplyWithCalls, Plain!Assistant
    <2> QED
      BY <2>2 DEF Plain!RunStep
  <1>11. ASSUME NEW withID \in BOOLEAN, ReplyWithAnswer(withID)
         PROVE  Plain!RunStep
    <2>1. Plain!RecordReply(Assistant(fresh, 0), withID)
      BY <1>11, RecordReplyRefines DEF ReplyWithAnswer, Asking
    <2>2. Plain!ReplyWithAnswer(withID)
      BY <1>11, <2>1 DEF ReplyWithAnswer, Assistant, Plain!ReplyWithAnswer, Plain!Assistant
    <2> QED
      BY <2>2 DEF Plain!RunStep
  <1>12. ASSUME NEW withID \in BOOLEAN, ReplyInvalid(withID)
         PROVE  Plain!RunStep
    <2>1. Plain!RecordReply(Assistant(fresh, 0), withID)
      BY <1>12, RecordReplyRefines DEF ReplyInvalid, Asking
    <2>2. Plain!ReplyInvalid(withID)
      BY <1>12, <2>1 DEF ReplyInvalid, Assistant, Plain!ReplyInvalid, Plain!Assistant
    <2> QED
      BY <2>2 DEF Plain!RunStep
  <1>13. Plain!LastAssistant = LastAssistant /\ \A n : Plain!Answers(n) = Answers(n)
    BY DEF LastAssistant, Answers, ToolResult, Plain!LastAssistant, Plain!Answers, Plain!ToolResult
  <1>14. CASE ToolsAnswer
    BY <1>3, <1>13, <1>14 DEF ToolsAnswer, Plain!RunStep, Plain!ToolsAnswer
  <1>15. CASE ToolsFatal
    <2>1. Plain!EndRun("error")
      BY <1>2, <1>15 DEF ToolsFatal, EndRun, Plain!EndRun
    <2>2. \E n \in 1 .. MaxCalls : Plain!FatalStops(n) /\ history' = history \o Plain!Answers(n)
      BY <1>13, <1>15 DEF ToolsFatal, FatalStops, Plain!FatalStops
    <2> QED
      BY <1>15, <2>1, <2>2 DEF ToolsFatal, Plain!RunStep, Plain!ToolsFatal
  <1>16. CASE AskRepair
    BY <1>3, <1>16 DEF AskRepair, Message, Plain!RunStep, Plain!AskRepair, Plain!Message
  <1> QED
    BY <1>4, <1>5, <1>6, <1>7, <1>8, <1>9, <1>10, <1>11, <1>12, <1>14, <1>15, <1>16 DEF RunStep

\* Threading is an optimisation: with any configuration, a session that continues responses
\* on the server does what the session that sends its whole history every time does.
THEOREM ThreadingRefines == Spec => ImplementsPlain
  <1>1. Init => Plain!Init
    <2> SUFFICES ASSUME Init PROVE Plain!Init
      OBVIOUS
    <2>1. View = <<>>
      <3>1. View = <<>> \o <<>>
        BY DEF Init, View, NoRequest
      <3>2. <<>> \o <<>> = <<>>
        OBVIOUS
      <3> QED
        BY <3>1, <3>2
    <2> QED
      BY <2>1 DEF Init, Instructions, Message, Plain!Init, Plain!Instructions, Plain!Message, Plain!NoRequest
  <1>2. IInv /\ [Next]_vars => [Plain!Next]_(Plain!vars)
    <2> SUFFICES ASSUME IInv, [Next]_vars PROVE [Plain!Next]_(Plain!vars)
      OBVIOUS
    <2> USE DEF sessionVars, runVars, hostVars, Plain!sessionVars, Plain!runVars, Plain!hostVars
    <2>1. UNCHANGED <<request, server>> => View' = View
      BY DEF View
    <2>2. CASE Send
      <3>1. Plain!Send
        BY <2>1, <2>2 DEF Send, Message, InitialRepairs, Plain!Send, Plain!Message, Plain!InitialRepairs
      <3> QED
        BY <3>1 DEF Plain!Next
    <2>3. CASE RunStep
      BY <2>3, RunStepRefines DEF Plain!Next
    <2>4. CASE Snapshot
      <3>1. Plain!Snapshot
        BY <2>1, <2>4 DEF Snapshot, Plain!Snapshot
      <3> QED
        BY <3>1 DEF Plain!Next
    <2>5. CASE Resume
      <3>1. View' = <<>>
        <4>1. View' = <<>> \o <<>>
          BY <2>5 DEF Resume, View, NoRequest
        <4>2. <<>> \o <<>> = <<>>
          OBVIOUS
        <4> QED
          BY <4>1, <4>2
      <3>2. Plain!Resume
        BY <2>5, <3>1 DEF Resume, Plain!Resume, Plain!NoRequest
      <3> QED
        BY <3>2 DEF Plain!Next
    <2>6. CASE UNCHANGED vars
      BY <2>1, <2>6 DEF vars, Plain!vars
    <2> QED
      BY <2>2, <2>3, <2>4, <2>5, <2>6 DEF Next, Quiet
  <1> QED
    BY <1>1, <1>2, InvariantHolds, PTL DEF Spec, ImplementsPlain, Plain!Spec

-----------------------------------------------------------------------------
(* Traces: the spans of a run and of its subagents (RunTrace)              *)

\* s2 has the spans of s1 with the same children, and only those of E are ended.
Closes(s1, s2, E) ==
    /\ DOMAIN s2 = DOMAIN s1
    /\ \A i \in DOMAIN s1 : s2[i].kids = s1[i].kids /\ (s2[i].open <=> s1[i].open /\ i \notin E)

\* s2 has one child more, the last one of p, which is j.
Gains(s1, s2, p, j) ==
    /\ p \in DOMAIN s1 /\ DOMAIN s1 \subseteq DOMAIN s2
    /\ \A i \in DOMAIN s1 : s2[i].open <=> s1[i].open
    /\ \A i \in DOMAIN s1 \ {p} : s2[i].kids = s1[i].kids
    /\ \E n \in Nat : /\ DOMAIN s1[p].kids = 1 .. n /\ DOMAIN s2[p].kids = 1 .. n + 1
                      /\ \A k \in 1 .. n : s2[p].kids[k] = s1[p].kids[k]
                      /\ s2[p].kids[n + 1] = j

\* A new open span j.
Adds(s1, s2, j) ==
    /\ DOMAIN s2 = DOMAIN s1 \cup {j} /\ j \notin DOMAIN s1 /\ j \in Nat /\ \A i \in DOMAIN s1 : i < j
    /\ s2[j].open /\ s2[j].kids = <<>>

\* Ending spans, when none of their open children is left.
LEMMA MarkedEnd ==
    ASSUME NEW s1, NEW s2, NEW H, NEW U, NEW E, Marked(s1, H, U), Closes(s1, s2, E),
           \A i \in E, j \in H : <<i, j>> \in U => j \in E
    PROVE  Marked(s2, H \ E, U)
  BY DEF Marked, Closes

\* Where a child of the extended spans was before.
LEMMA ExtendedChildren ==
    ASSUME NEW s1, NEW s2, NEW p, NEW j, Gains(s1, s2, p, j), NEW i \in DOMAIN s1, NEW k \in DOMAIN s2[i].kids
    PROVE  \/ k \in DOMAIN s1[i].kids /\ s2[i].kids[k] = s1[i].kids[k]
           \/ i = p /\ k \notin DOMAIN s1[p].kids /\ s2[i].kids[k] = j
  <1> USE DEF Gains
  <1>1. CASE i # p
    BY <1>1
  <1>2. CASE i = p
    <2>1. PICK n \in Nat : /\ DOMAIN s1[p].kids = 1 .. n /\ DOMAIN s2[p].kids = 1 .. n + 1
                           /\ \A l \in 1 .. n : s2[p].kids[l] = s1[p].kids[l]
                           /\ s2[p].kids[n + 1] = j
      OBVIOUS
    <2>2. k \in 1 .. n \/ (k = n + 1 /\ k \notin 1 .. n)
      BY <1>2, <2>1
    <2> QED
      BY <1>2, <2>1, <2>2
  <1> QED
    BY <1>1, <1>2

\* And that they are still there, next to one new child.
LEMMA ExtendedKeeps ==
    ASSUME NEW s1, NEW s2, NEW p, NEW j, Gains(s1, s2, p, j)
    PROVE  /\ \A i \in DOMAIN s1 : \A k \in DOMAIN s1[i].kids : k \in DOMAIN s2[i].kids /\ s2[i].kids[k] = s1[i].kids[k]
           /\ \E k \in DOMAIN s2[p].kids : s2[p].kids[k] = j
           /\ \A k, l \in DOMAIN s2[p].kids : k \notin DOMAIN s1[p].kids /\ l \notin DOMAIN s1[p].kids => k = l
  <1> USE DEF Gains
  <1>1. PICK n \in Nat : /\ DOMAIN s1[p].kids = 1 .. n /\ DOMAIN s2[p].kids = 1 .. n + 1
                         /\ \A l \in 1 .. n : s2[p].kids[l] = s1[p].kids[l]
                         /\ s2[p].kids[n + 1] = j
    OBVIOUS
  <1>2. n + 1 \in 1 .. n + 1 /\ 1 .. n \subseteq 1 .. n + 1 /\ \A k \in 1 .. n + 1 : k \notin 1 .. n => k = n + 1
    OBVIOUS
  <1>3. \A i \in DOMAIN s1 : \A k \in DOMAIN s1[i].kids : k \in DOMAIN s2[i].kids /\ s2[i].kids[k] = s1[i].kids[k]
    BY <1>1, <1>2
  <1> QED
    BY <1>1, <1>2, <1>3

\* An open span under an open one.
LEMMA MarkedChild ==
    ASSUME NEW s1, NEW s2, NEW H, NEW U, NEW R, NEW p, NEW j, Marked(s1, H, U), Forest(s1, R),
           Gains(s1, s2, p, j), Adds(s1, s2, j)
    PROVE  Marked(s2, H \cup {j}, U \cup {<<p, j>>})
  <1>1. H \cup {j} \subseteq DOMAIN s2 /\ \A i \in DOMAIN s2 : s2[i].open <=> i \in H \cup {j}
    BY DEF Marked, Gains, Adds
  <1>2. ASSUME NEW i \in DOMAIN s2, NEW k \in DOMAIN s2[i].kids, s2[i].kids[k] \in H \cup {j}
        PROVE  <<i, s2[i].kids[k]>> \in U \cup {<<p, j>>}
    <2>1. CASE i = j
      BY <2>1 DEF Adds
    <2>2. CASE i \in DOMAIN s1
      <3>1. CASE k \in DOMAIN s1[i].kids /\ s2[i].kids[k] = s1[i].kids[k]
        <4>1. s1[i].kids[k] \in DOMAIN s1
          BY <2>2, <3>1 DEF Forest
        <4>2. s1[i].kids[k] \in H
          BY <1>2, <3>1, <4>1 DEF Adds
        <4> QED
          BY <2>2, <3>1, <4>2 DEF Marked
      <3> QED
        BY <2>2, <3>1, ExtendedChildren
    <2> QED
      BY <2>1, <2>2 DEF Adds
  <1> QED
    BY <1>1, <1>2 DEF Marked

\* The root of a new trace.
LEMMA MarkedRoot ==
    ASSUME NEW s1, NEW s2, NEW H, NEW U, NEW R, NEW j, Marked(s1, H, U), Forest(s1, R), Adds(s1, s2, j),
           \A i \in DOMAIN s1 : s2[i] = s1[i]
    PROVE  Marked(s2, H \cup {j}, U)
  <1>1. \A i \in DOMAIN s1 : \A k \in DOMAIN s1[i].kids : s1[i].kids[k] # j
    BY DEF Forest, Adds
  <1> QED
    BY <1>1 DEF Marked, Adds

\* A trace that has ended is grafted.
LEMMA MarkedGraft ==
    ASSUME NEW s1, NEW s2, NEW H, NEW U, NEW p, NEW j, Marked(s1, H, U),
           Gains(s1, s2, p, j), DOMAIN s2 = DOMAIN s1, j \notin H
    PROVE  Marked(s2, H, U)
  <1>1. H \subseteq DOMAIN s2 /\ \A i \in DOMAIN s2 : s2[i].open <=> i \in H
    BY DEF Marked, Gains
  <1>2. ASSUME NEW i \in DOMAIN s2, NEW k \in DOMAIN s2[i].kids, s2[i].kids[k] \in H
        PROVE  <<i, s2[i].kids[k]>> \in U
    <2>1. k \in DOMAIN s1[i].kids /\ s2[i].kids[k] = s1[i].kids[k]
      BY <1>2, ExtendedChildren
    <2> QED
      BY <1>2, <2>1 DEF Marked
  <1> QED
    BY <1>1, <1>2 DEF Marked

\* Only pairs of open spans count.
LEMMA MarkedMore ==
    ASSUME NEW s, NEW H, NEW U, NEW V, Marked(s, H, U), \A h \in U : h[2] \in H => h \in V
    PROVE  Marked(s, H, V)
  <1>1. \A i \in DOMAIN s : \A k \in DOMAIN s[i].kids : s[i].kids[k] \in H => <<i, s[i].kids[k]>>[2] \in H
    OBVIOUS
  <1> QED
    BY <1>1 DEF Marked

\* Ending spans leaves the trees alone.
LEMMA ForestEnd ==
    ASSUME NEW s1, NEW s2, NEW R, NEW E, Forest(s1, R), Closes(s1, s2, E)
    PROVE  Forest(s2, R)
  BY DEF Forest, Closes

\* A new span that is a child.
LEMMA ForestChild ==
    ASSUME NEW s1, NEW s2, NEW R, NEW p, NEW j, Forest(s1, R), Gains(s1, s2, p, j), Adds(s1, s2, j)
    PROVE  Forest(s2, R)
  <1>0. p \in DOMAIN s1 /\ p < j /\ j \notin R /\ j \in DOMAIN s2 \ R /\ R \subseteq DOMAIN s2
    BY DEF Forest, Gains, Adds
  <1>1. ASSUME NEW i \in DOMAIN s2, NEW k \in DOMAIN s2[i].kids
        PROVE  /\ i \in DOMAIN s1
               /\ \/ k \in DOMAIN s1[i].kids /\ s2[i].kids[k] = s1[i].kids[k]
                  \/ i = p /\ k \notin DOMAIN s1[p].kids /\ s2[i].kids[k] = j
    <2>1. i # j
      BY DEF Adds
    <2> QED
      BY <2>1, ExtendedChildren DEF Adds
  <1>2. ASSUME NEW i \in DOMAIN s2, NEW k \in DOMAIN s2[i].kids
        PROVE  /\ s2[i].kids[k] \in DOMAIN s2 \ R /\ s2[i].kids[k] > i
               /\ \A q \in DOMAIN s2 : \A l \in DOMAIN s2[q].kids : s2[q].kids[l] = s2[i].kids[k] => q = i /\ l = k
    <2>1. s2[i].kids[k] \in DOMAIN s2 \ R /\ s2[i].kids[k] > i
      BY <1>0, <1>1 DEF Forest, Gains
    <2>2. ASSUME NEW q \in DOMAIN s2, NEW l \in DOMAIN s2[q].kids, s2[q].kids[l] = s2[i].kids[k]
          PROVE  q = i /\ l = k
      <3>1. \A e \in DOMAIN s1 : \A m \in DOMAIN s1[e].kids : s1[e].kids[m] # j
        BY DEF Forest, Adds
      <3>2. CASE k \in DOMAIN s1[i].kids /\ s2[i].kids[k] = s1[i].kids[k]
        <4>1. l \in DOMAIN s1[q].kids /\ s2[q].kids[l] = s1[q].kids[l]
          BY <1>1, <2>2, <3>1, <3>2
        <4> QED
          BY <1>1, <2>2, <3>2, <4>1 DEF Forest
      <3>3. CASE i = p /\ k \notin DOMAIN s1[p].kids /\ s2[i].kids[k] = j
        <4>1. q = p /\ l \notin DOMAIN s1[p].kids
          BY <1>1, <2>2, <3>1, <3>3
        <4> QED
          BY <3>3, <4>1, ExtendedKeeps
      <3> QED
        BY <1>1, <3>2, <3>3
    <2> QED
      BY <2>1, <2>2
  <1>3. ASSUME NEW i \in DOMAIN s2 \ R
        PROVE  \E q \in DOMAIN s2 : \E k \in DOMAIN s2[q].kids : s2[q].kids[k] = i
    <2>1. CASE i = j
      BY <1>0, <2>1, ExtendedKeeps DEF Adds
    <2>2. CASE i \in DOMAIN s1
      <3>1. PICK q \in DOMAIN s1 : \E k \in DOMAIN s1[q].kids : s1[q].kids[k] = i
        BY <2>2 DEF Forest
      <3> QED
        BY <3>1, ExtendedKeeps DEF Adds
    <2> QED
      BY <2>1, <2>2 DEF Adds
  <1> QED
    BY <1>0, <1>2, <1>3 DEF Forest

\* A new span that is a root.
LEMMA ForestRoot ==
    ASSUME NEW s1, NEW s2, NEW R, NEW j, Forest(s1, R), Adds(s1, s2, j), \A i \in DOMAIN s1 : s2[i] = s1[i]
    PROVE  Forest(s2, R \cup {j})
  <1>1. \A i \in DOMAIN s2 : \A k \in DOMAIN s2[i].kids : i \in DOMAIN s1 /\ s2[i].kids[k] \in DOMAIN s1
    BY DEF Forest, Adds
  <1>2. \A i \in DOMAIN s2 \ (R \cup {j}) : \E q \in DOMAIN s2 : \E k \in DOMAIN s2[q].kids : s2[q].kids[k] = i
    BY DEF Forest, Adds
  <1> QED
    BY <1>1, <1>2 DEF Forest, Adds

\* A root becomes a child of a span before it.
LEMMA ForestGraft ==
    ASSUME NEW s1, NEW s2, NEW R, NEW p, NEW j \in R, Forest(s1, R), Gains(s1, s2, p, j),
           DOMAIN s2 = DOMAIN s1, j > p
    PROVE  Forest(s2, R \ {j})
  <1>0. p \in DOMAIN s1 /\ R \subseteq DOMAIN s2
    BY DEF Forest, Gains
  <1>1. ASSUME NEW i \in DOMAIN s2, NEW k \in DOMAIN s2[i].kids
        PROVE  \/ k \in DOMAIN s1[i].kids /\ s2[i].kids[k] = s1[i].kids[k]
               \/ i = p /\ k \notin DOMAIN s1[p].kids /\ s2[i].kids[k] = j
    BY ExtendedChildren
  <1>2. ASSUME NEW i \in DOMAIN s2, NEW k \in DOMAIN s2[i].kids
        PROVE  /\ s2[i].kids[k] \in DOMAIN s2 \ (R \ {j}) /\ s2[i].kids[k] > i
               /\ \A q \in DOMAIN s2 : \A l \in DOMAIN s2[q].kids : s2[q].kids[l] = s2[i].kids[k] => q = i /\ l = k
    <2>1. s2[i].kids[k] \in DOMAIN s2 \ (R \ {j}) /\ s2[i].kids[k] > i
      BY <1>0, <1>1 DEF Forest
    <2>2. ASSUME NEW q \in DOMAIN s2, NEW l \in DOMAIN s2[q].kids, s2[q].kids[l] = s2[i].kids[k]
          PROVE  q = i /\ l = k
      <3>1. \A e \in DOMAIN s1 : \A m \in DOMAIN s1[e].kids : s1[e].kids[m] # j
        BY DEF Forest
      <3>2. CASE k \in DOMAIN s1[i].kids /\ s2[i].kids[k] = s1[i].kids[k]
        <4>1. l \in DOMAIN s1[q].kids /\ s2[q].kids[l] = s1[q].kids[l]
          BY <1>1, <2>2, <3>1, <3>2
        <4> QED
          BY <1>1, <2>2, <3>2, <4>1 DEF Forest
      <3>3. CASE i = p /\ k \notin DOMAIN s1[p].kids /\ s2[i].kids[k] = j
        <4>1. q = p /\ l \notin DOMAIN s1[p].kids
          BY <1>1, <2>2, <3>1, <3>3
        <4> QED
          BY <3>3, <4>1, ExtendedKeeps
      <3> QED
        BY <1>1, <3>2, <3>3
    <2> QED
      BY <2>1, <2>2
  <1>3. ASSUME NEW i \in DOMAIN s2 \ (R \ {j})
        PROVE  \E q \in DOMAIN s2 : \E k \in DOMAIN s2[q].kids : s2[q].kids[k] = i
    <2>1. CASE i = j
      BY <1>0, <2>1, ExtendedKeeps
    <2>2. CASE i # j
      <3>1. PICK q \in DOMAIN s1 : \E k \in DOMAIN s1[q].kids : s1[q].kids[k] = i
        BY <2>2 DEF Forest
      <3> QED
        BY <3>1, ExtendedKeeps
    <2> QED
      BY <2>1, <2>2
  <1> QED
    BY <1>0, <1>2, <1>3 DEF Forest

\* Another child of p.
LEMMA KidAdded ==
    ASSUME NEW s \in Seq(Spans), NEW p \in DOMAIN s, NEW j \in Nat
    PROVE  LET t == [s EXCEPT ![p].kids = Append(@, j)]
           IN  t \in Seq(Spans) /\ Len(t) = Len(s) /\ DOMAIN t = DOMAIN s /\ Gains(s, t, p, j)
  <1> DEFINE t == [s EXCEPT ![p].kids = Append(@, j)]
             ks == Append(s[p].kids, j)
  <1>1. s[p] \in Spans /\ DOMAIN s = 1 .. Len(s) /\ Len(s) \in Nat
    OBVIOUS
  <1>2. s[p].kids \in Seq(Nat) /\ ks \in Seq(Nat)
    BY <1>1 DEF Spans
  <1>3. PICK n \in Nat : /\ DOMAIN s[p].kids = 1 .. n /\ DOMAIN ks = 1 .. n + 1
                         /\ \A k \in 1 .. n : ks[k] = s[p].kids[k]
                         /\ ks[n + 1] = j
    <2>1. Len(s[p].kids) \in Nat /\ DOMAIN s[p].kids = 1 .. Len(s[p].kids) /\ DOMAIN ks = 1 .. Len(s[p].kids) + 1
      BY <1>2
    <2> QED
      BY <1>2, <2>1
  <1> HIDE DEF ks
  <1>4. [s[p] EXCEPT !.kids = ks] \in Spans /\ [s[p] EXCEPT !.kids = ks].kids = ks
        /\ [s[p] EXCEPT !.kids = ks].open = s[p].open
    BY <1>1, <1>2 DEF Spans
  <1>5. t = [s EXCEPT ![p] = [s[p] EXCEPT !.kids = ks]]
    BY DEF ks
  <1>6. t \in Seq(Spans) /\ Len(t) = Len(s) /\ DOMAIN t = DOMAIN s
    BY <1>1, <1>4, <1>5
  <1>7. t[p].kids = ks /\ t[p].open = s[p].open /\ \A i \in DOMAIN s \ {p} : t[i] = s[i]
    BY <1>4, <1>5
  <1> HIDE DEF t
  <1>8. Gains(s, t, p, j)
    BY <1>3, <1>6, <1>7 DEF Gains
  <1> QED
    BY <1>6, <1>8 DEF t

\* A new span behind the others.
LEMMA SpanAdded ==
    ASSUME NEW s \in Seq(Spans), NEW kind \in {"run", "step", "model", "tool", "compaction"}
    PROVE  LET t == Append(s, NewSpan(kind))
           IN  /\ t \in Seq(Spans) /\ Len(t) = Len(s) + 1 /\ Adds(s, t, Len(s) + 1)
               /\ \A i \in DOMAIN s : t[i] = s[i]
  <1> DEFINE t == Append(s, NewSpan(kind))
  <1>1. NewSpan(kind) \in Spans /\ NewSpan(kind).open /\ NewSpan(kind).kids = <<>>
    BY DEF NewSpan, Spans
  <1>2. Len(s) \in Nat /\ DOMAIN s = 1 .. Len(s)
    OBVIOUS
  <1>3. t \in Seq(Spans) /\ Len(t) = Len(s) + 1 /\ DOMAIN t = 1 .. Len(s) + 1
        /\ t[Len(s) + 1] = NewSpan(kind) /\ \A i \in 1 .. Len(s) : t[i] = s[i]
    BY <1>1
  <1> HIDE DEF t
  <1>4. Adds(s, t, Len(s) + 1)
    BY <1>1, <1>2, <1>3 DEF Adds
  <1> QED
    BY <1>2, <1>3, <1>4 DEF t

\* child.
LEMMA ChildIs ==
    ASSUME NEW s \in Seq(Spans), NEW p \in DOMAIN s, NEW kind \in {"run", "step", "model", "tool", "compaction"}
    PROVE  LET t == Child(s, p, kind)
           IN  /\ t \in Seq(Spans) /\ Len(t) = Len(s) + 1
               /\ Gains(s, t, p, Len(s) + 1) /\ Adds(s, t, Len(s) + 1)
  <1> DEFINE n == Len(s) + 1
             u == [s EXCEPT ![p].kids = Append(@, n)]
             t == Append(u, NewSpan(kind))
  <1>1. n \in Nat
    OBVIOUS
  <1>2. u \in Seq(Spans) /\ Len(u) = Len(s) /\ DOMAIN u = DOMAIN s /\ Gains(s, u, p, n)
    BY <1>1, KidAdded
  <1> HIDE DEF u
  <1>3. t \in Seq(Spans) /\ Len(t) = Len(u) + 1 /\ Adds(u, t, Len(u) + 1) /\ \A i \in DOMAIN u : t[i] = u[i]
    BY <1>2, SpanAdded
  <1> HIDE DEF t
  <1>4. Gains(s, t, p, n) /\ Adds(s, t, n)
    BY <1>2, <1>3 DEF Gains, Adds
  <1>5. t = Child(s, p, kind)
    BY DEF t, u, Child
  <1> QED
    BY <1>2, <1>3, <1>4, <1>5

\* end.
LEMMA EndAllIs ==
    ASSUME NEW s \in Seq(Spans), NEW E
    PROVE  EndAll(s, E) \in Seq(Spans) /\ Len(EndAll(s, E)) = Len(s) /\ Closes(s, EndAll(s, E), E)
  <1> DEFINE t == EndAll(s, E)
             End(i) == IF i \in E THEN [s[i] EXCEPT !.open = FALSE] ELSE s[i]
  <1>1. Len(s) \in Nat /\ DOMAIN s = 1 .. Len(s) /\ \A i \in DOMAIN s : s[i] \in Spans
    OBVIOUS
  <1>2. \A i \in DOMAIN s : End(i) \in Spans /\ End(i).kids = s[i].kids /\ (End(i).open <=> s[i].open /\ i \notin E)
    BY <1>1 DEF Spans
  <1>3. t = [i \in 1 .. Len(s) |-> End(i)]
    BY <1>1 DEF EndAll
  <1> HIDE DEF t, End
  <1>4. t \in Seq(Spans) /\ Len(t) = Len(s) /\ DOMAIN t = DOMAIN s /\ \A i \in DOMAIN s : t[i] = End(i)
    BY <1>1, <1>2, <1>3
  <1> QED
    BY <1>2, <1>4 DEF Closes, t

\* What else is noted in a span.
LEMMA NoteIs ==
    ASSUME NEW s \in Seq(Spans), NEW p \in DOMAIN s
    PROVE  /\ Fail(s, p) \in Seq(Spans) /\ Len(Fail(s, p)) = Len(s) /\ Closes(s, Fail(s, p), {})
           /\ \A u \in Nat : LET t == [s EXCEPT ![p].used = u]
                             IN  t \in Seq(Spans) /\ Len(t) = Len(s) /\ Closes(s, t, {})
  <1>1. Len(s) \in Nat /\ DOMAIN s = 1 .. Len(s) /\ s[p] \in Spans
    OBVIOUS
  <1>2. ASSUME NEW y \in Spans, y.kids = s[p].kids, y.open = s[p].open
        PROVE  LET t == [s EXCEPT ![p] = y] IN t \in Seq(Spans) /\ Len(t) = Len(s) /\ Closes(s, t, {})
    BY <1>1, <1>2 DEF Closes
  <1>3. /\ [s[p] EXCEPT !.err = TRUE] \in Spans
        /\ [s[p] EXCEPT !.err = TRUE].kids = s[p].kids /\ [s[p] EXCEPT !.err = TRUE].open = s[p].open
    BY <1>1 DEF Spans
  <1>4. \A u \in Nat : /\ [s[p] EXCEPT !.used = u] \in Spans
                       /\ [s[p] EXCEPT !.used = u].kids = s[p].kids /\ [s[p] EXCEPT !.used = u].open = s[p].open
    BY <1>1 DEF Spans
  <1>5. Fail(s, p) = [s EXCEPT ![p] = [s[p] EXCEPT !.err = TRUE]]
    BY DEF Fail
  <1>6. ASSUME NEW u \in Nat
        PROVE  LET t == [s EXCEPT ![p].used = u] IN t \in Seq(Spans) /\ Len(t) = Len(s) /\ Closes(s, t, {})
    <2> DEFINE y == [s[p] EXCEPT !.used = u]
               t == [s EXCEPT ![p].used = u]
    <2>1. y \in Spans /\ y.kids = s[p].kids /\ y.open = s[p].open
      BY <1>4
    <2>2. t = [s EXCEPT ![p] = y]
      OBVIOUS
    <2> HIDE DEF y, t
    <2>3. t \in Seq(Spans) /\ Len(t) = Len(s) /\ Closes(s, t, {})
      BY <1>2, <2>1, <2>2
    <2> QED
      BY <2>3 DEF t
  <1>7. Fail(s, p) \in Seq(Spans) /\ Len(Fail(s, p)) = Len(s) /\ Closes(s, Fail(s, p), {})
    <2> DEFINE y == [s[p] EXCEPT !.err = TRUE]
    <2>1. y \in Spans /\ y.kids = s[p].kids /\ y.open = s[p].open
      BY <1>3
    <2> DEFINE t == [s EXCEPT ![p] = y]
    <2>2. Fail(s, p) = t
      BY <1>5
    <2> HIDE DEF y
    <2>3. t \in Seq(Spans) /\ Len(t) = Len(s) /\ Closes(s, t, {})
      BY <1>2, <2>1
    <2> HIDE DEF t
    <2> QED
      BY <2>2, <2>3
  <1> QED
    BY <1>6, <1>7

\* One change after another.
LEMMA ClosesTwice ==
    ASSUME NEW s1, NEW s2, NEW s3, NEW D, NEW E, Closes(s1, s2, D), Closes(s2, s3, E)
    PROVE  Closes(s1, s3, D \cup E)
  BY DEF Closes

-----------------------------------------------------------------------------

\* Run x is as it was, but may be canceled.
Same(x, y) ==
    /\ y.pc = x.pc /\ y.root = x.root /\ y.parent = x.parent /\ y.call = x.call /\ y.step = x.step
    /\ y.model = x.model /\ y.compact = x.compact /\ y.calls = x.calls /\ y.fatal = x.fatal

\* Run x goes on as y: the subagents it waits for, it still waits for.
Moved(x, y) ==
    /\ y.root = x.root /\ y.parent = x.parent /\ y.call = x.call
    /\ x.pc # "returned" /\ y.pc # "returned"
    /\ x.pc = "tools" => \A c \in DOMAIN x.calls : x.calls[c].state = "sub" =>
                            y.pc = "tools" /\ c \in DOMAIN y.calls /\ y.calls[c] = x.calls[c]
    /\ \A i, j \in Holds(x) : Under(x, i, j) /\ j \in Holds(y) => Under(y, i, j)

\* Only run r moves; it gets none but new spans.
Moves(r, N) ==
    /\ config' = config /\ runs' \in Seq(RunStates) /\ Len(runs') = Len(runs)
    /\ \A q \in Runs \ {r} : Same(runs[q], runs'[q])
    /\ Moved(runs[r], runs'[r])
    /\ N \cap DOMAIN spans = {} /\ Holds(runs'[r]) \subseteq Holds(runs[r]) \cup N
    /\ Ordered(runs'[r]) /\ OneByOne(runs[r])'

\* A run that is as it was holds the same spans.
LEMMA SameHolds ==
    ASSUME NEW x, NEW y, Same(x, y)
    PROVE  Holds(y) = Holds(x) /\ (Ordered(x) => Ordered(y)) /\ \A i, j : Under(y, i, j) <=> Under(x, i, j)
  <1>1. Holds(y) = Holds(x)
    BY DEF Same, Holds, Calling
  <1>2. Ordered(x) => Ordered(y)
    BY DEF Same, Ordered, Calling
  <1> QED
    BY <1>1, <1>2 DEF Under, Same

\* The sets of the inductive invariant, run by run.
LEMMA HeldFacts ==
    ASSUME TraceIInv
    PROVE  /\ \A r \in Runs : Holds(runs[r]) \subseteq DOMAIN spans
           /\ \A h \in HeldPairs : \E r \in Runs : Under(runs[r], h[1], h[2])
           /\ \A r \in Runs : \A i, j : Under(runs[r], i, j) => <<i, j>> \in HeldPairs
           /\ Runs = 1 .. Len(runs) /\ Len(runs) \in Nat \ {0} /\ DOMAIN spans = 1 .. Len(spans) /\ Len(spans) \in Nat
  <1>1. \A r \in Runs : Holds(runs[r]) \subseteq HeldSpans
    BY DEF HeldSpans
  <1>2. HeldSpans \subseteq DOMAIN spans
    BY DEF TraceIInv, Marked
  <1>3. Runs = 1 .. Len(runs) /\ Len(runs) \in Nat \ {0} /\ DOMAIN spans = 1 .. Len(spans) /\ Len(spans) \in Nat
    BY DEF TraceIInv, TraceTypeOK, Runs
  <1>4. ASSUME NEW r \in Runs, NEW i, NEW j, Under(runs[r], i, j)
        PROVE  <<i, j>> \in HeldPairs
    BY <1>1, <1>4 DEF HeldPairs, Under
  <1> QED
    BY <1>1, <1>2, <1>3, <1>4 DEF HeldPairs

\* A step of one run: what all of the runs hold after it, and that they are still apart and
\* waited for.
LEMMA RunsMove ==
    ASSUME TraceIInv, NEW r \in Runs, NEW N, Moves(r, N)
    PROVE  /\ Runs' = Runs /\ Apart' /\ Waiting' /\ Roots' = Roots /\ runs'[1].root = 1
           /\ \A q \in Runs : runs'[q].root = runs[q].root /\ Ordered(runs'[q]) /\ OneByOne(runs[q])'
           /\ HeldSpans' = (HeldSpans \ Holds(runs[r])) \cup Holds(runs'[r])
           /\ \A h \in HeldPairs : h[2] \in HeldSpans' => h \in HeldPairs'
           /\ \A h \in HeldPairs : h[1] \in Holds(runs[r]) => Under(runs[r], h[1], h[2])
  <1>1. Runs' = Runs /\ Runs = 1 .. Len(runs) /\ Len(runs) \in Nat \ {0} /\ 1 \in Runs
    BY HeldFacts DEF Moves, Runs
  <1>2. \A q \in Runs \ {r} : Holds(runs'[q]) = Holds(runs[q]) /\ \A i, j : Under(runs'[q], i, j) <=> Under(runs[q], i, j)
    BY SameHolds DEF Moves
  <1>3. \A q \in Runs : /\ runs'[q].root = runs[q].root /\ runs'[q].parent = runs[q].parent
                        /\ runs'[q].call = runs[q].call /\ (runs'[q].pc = "returned" <=> runs[q].pc = "returned")
    BY DEF Moves, Moved, Same
  <1>4. \A q \in Runs : Ordered(runs'[q]) /\ OneByOne(runs[q])'
    <2>1. ASSUME NEW q \in Runs \ {r}
          PROVE  OneByOne(runs[q])'
      <3>1. Same(runs[q], runs'[q]) /\ config' = config /\ OneByOne(runs[q])
        BY DEF Moves, TraceIInv
      <3> QED
        BY <3>1 DEF Same, OneByOne, Calling, Parallel
    <2>2. \A q \in Runs \ {r} : Ordered(runs'[q])
      BY SameHolds DEF Moves, TraceIInv
    <2> QED
      BY <2>1, <2>2 DEF Moves
  <1>5. \A q \in Runs \ {r} : Holds(runs[q]) \cap Holds(runs'[r]) = {} /\ Holds(runs[q]) \cap Holds(runs[r]) = {}
    BY HeldFacts DEF Moves, TraceIInv, Apart
  <1>6. Apart'
    <2>1. \A e, q \in Runs : e # q => /\ runs[e].root # runs[q].root /\ runs[e].root \notin Holds(runs[q])
                                     /\ Holds(runs[e]) \cap Holds(runs[q]) = {}
      BY DEF TraceIInv, Apart
    <2>2. \A e \in Runs \ {r} : runs[e].root \notin Holds(runs'[r])
      BY <2>1 DEF Moves, TraceIInv
    <2>3. \A e, q \in Runs : e # q => runs'[e].root \notin Holds(runs'[q])
      BY <1>2, <1>3, <2>1, <2>2
    <2>4. \A e, q \in Runs : e # q => Holds(runs'[e]) \cap Holds(runs'[q]) = {}
      BY <1>2, <1>5, <2>1
    <2> QED
      BY <1>1, <1>3, <2>1, <2>3, <2>4 DEF Apart
  <1>7. Roots' = Roots
    BY <1>1, <1>3 DEF Roots
  <1>8. HeldSpans' = (HeldSpans \ Holds(runs[r])) \cup Holds(runs'[r])
    <2>1. HeldSpans' = UNION {Holds(runs'[q]) : q \in Runs}
      BY <1>1 DEF HeldSpans
    <2>2. ASSUME NEW i
          PROVE  i \in HeldSpans' <=> i \in (HeldSpans \ Holds(runs[r])) \cup Holds(runs'[r])
      BY <1>2, <1>5, <2>1 DEF HeldSpans
    <2> QED
      BY <2>2
  <1>9. ASSUME NEW h \in HeldPairs, h[2] \in HeldSpans'
        PROVE  h \in HeldPairs'
    <2>1. PICK q \in Runs : Under(runs[q], h[1], h[2])
      BY HeldFacts
    <2>2. Under(runs'[q], h[1], h[2])
      <3>1. CASE q # r
        BY <1>2, <2>1, <3>1
      <3>2. CASE q = r
        <4>1. h[1] \in Holds(runs[r]) /\ h[2] \in Holds(runs[r])
          BY <2>1, <3>2 DEF Under
        <4>2. h[2] \in Holds(runs'[r])
          BY <1>9, <1>8, <4>1
        <4> QED
          BY <2>1, <3>2, <4>1, <4>2 DEF Moves, Moved
      <3> QED
        BY <3>1, <3>2
    <2>3. h[1] \in HeldSpans' /\ h[2] \in HeldSpans'
      BY <1>1, <2>2 DEF HeldSpans, Under
    <2>4. h = <<h[1], h[2]>>
      BY DEF HeldPairs
    <2>5. <<h[1], h[2]>> \in HeldPairs'
      BY <1>1, <2>2, <2>3 DEF HeldPairs
    <2> QED
      BY <2>4, <2>5
  <1>10. ASSUME NEW h \in HeldPairs, h[1] \in Holds(runs[r])
         PROVE  Under(runs[r], h[1], h[2])
    <2>1. PICK q \in Runs : Under(runs[q], h[1], h[2])
      BY HeldFacts
    <2> QED
      BY <1>5, <1>10, <2>1 DEF Under
  <1>11. \A x \in Runs, y \in Runs : WaitsFor(runs[x], runs[y]) => WaitsFor(runs'[x], runs'[y])
    BY <1>3 DEF WaitsFor, Moves, Moved, Same
  <1>12. Waiting'
    <2>1. Waiting
      BY DEF TraceIInv
    <2>2. runs'[1].parent = 0 /\ runs'[1].pc # "returned"
      BY <1>1, <1>3, <2>1 DEF Waiting
    <2>3. ASSUME NEW q \in Runs \ {1}, runs'[q].pc # "returned"
          PROVE  /\ runs'[q].parent \in 1 .. q - 1 /\ WaitsFor(runs'[runs'[q].parent], runs'[q])
                 /\ \A e \in Runs \ {1, q} : runs'[e].pc # "returned" =>
                       <<runs'[q].parent, runs'[q].call>> # <<runs'[e].parent, runs'[e].call>>
      <3>1. runs[q].pc # "returned"
        BY <1>3, <2>3
      <3>2. runs[q].parent \in 1 .. q - 1 /\ WaitsFor(runs[runs[q].parent], runs[q])
        BY <2>1, <3>1 DEF Waiting
      <3>3. runs[q].parent \in Runs
        BY <1>1, <3>2
      <3>4. runs'[q].parent = runs[q].parent
        BY <1>3
      <3>5. WaitsFor(runs'[runs'[q].parent], runs'[q])
        BY <1>11, <3>2, <3>3, <3>4
      <3>6. \A e \in Runs \ {1, q} : runs'[e].pc # "returned" =>
               <<runs'[q].parent, runs'[q].call>> # <<runs'[e].parent, runs'[e].call>>
        BY <1>3, <2>1, <3>1 DEF Waiting
      <3> QED
        BY <3>2, <3>4, <3>5, <3>6
    <2> QED
      BY <1>1, <2>2, <2>3 DEF Waiting
  <1>13. runs'[1].root = 1
    BY <1>1, <1>3 DEF TraceIInv
  <1> QED
    BY <1>1, <1>3, <1>4, <1>6, <1>7, <1>8, <1>9, <1>10, <1>12, <1>13

\* The parts of the inductive invariant, put together.
LEMMA TraceKept ==
    ASSUME TraceIInv, NEW r \in Runs, NEW N, Moves(r, N), spans' \in Seq(Spans), DOMAIN spans \subseteq DOMAIN spans',
           Marked(spans', HeldSpans', HeldPairs'), Forest(spans', Roots)
    PROVE  TraceIInv'
  <1>1. Runs' = Runs /\ Apart' /\ Waiting' /\ Roots' = Roots /\ runs'[1].root = 1
        /\ \A q \in Runs : runs'[q].root = runs[q].root /\ Ordered(runs'[q]) /\ OneByOne(runs[q])'
    BY RunsMove
  <1>2. TraceTypeOK'
    BY DEF Moves, TraceIInv, TraceTypeOK
  <1>3. \A q \in Runs : runs'[q].root \in DOMAIN spans'
    BY <1>1 DEF TraceIInv
  <1>4. \A q \in Runs' : (runs[q].root \in DOMAIN spans /\ Ordered(runs[q]) /\ OneByOne(runs[q]))'
    BY <1>1, <1>3
  <1> QED
    BY <1>1, <1>2, <1>4 DEF TraceIInv

\* A step that ends spans.
LEMMA EndsKeep ==
    ASSUME TraceIInv, NEW r \in Runs, Moves(r, {}), spans' \in Seq(Spans),
           Closes(spans, spans', Holds(runs[r]) \ Holds(runs'[r]))
    PROVE  TraceIInv'
  <1> DEFINE E == Holds(runs[r]) \ Holds(runs'[r])
             H == HeldSpans
             U == HeldPairs
  <1>1. /\ HeldSpans' = (H \ Holds(runs[r])) \cup Holds(runs'[r])
        /\ \A h \in U : h[2] \in HeldSpans' => h \in HeldPairs'
        /\ \A h \in U : h[1] \in Holds(runs[r]) => Under(runs[r], h[1], h[2])
    BY RunsMove
  <1>2. Holds(runs'[r]) \subseteq Holds(runs[r]) /\ Holds(runs[r]) \subseteq H
    BY DEF Moves, HeldSpans
  <1>3. HeldSpans' = H \ E
    BY <1>1, <1>2
  <1>4. ASSUME NEW i \in E, NEW j \in H, <<i, j>> \in U
        PROVE  j \in E
    <2>1. Under(runs[r], i, j)
      BY <1>1, <1>4
    <2>2. j \in Holds(runs'[r]) => Under(runs'[r], i, j)
      BY <2>1 DEF Moves, Moved, Under
    <2> QED
      BY <2>1, <2>2 DEF Under
  <1>5. Marked(spans, H, U) /\ Forest(spans, Roots)
    BY DEF TraceIInv
  <1>6. Closes(spans, spans', E)
    OBVIOUS
  <1> HIDE DEF E, H, U
  <1>7. Marked(spans', H \ E, U) /\ Forest(spans', Roots)
    BY <1>4, <1>5, <1>6, MarkedEnd, ForestEnd
  <1>8. Marked(spans', HeldSpans', HeldPairs')
    BY <1>1, <1>3, <1>7, MarkedMore
  <1> QED
    BY <1>6, <1>7, <1>8, TraceKept DEF Closes

\* A step that adds a span to one that is open.
LEMMA ChildKeeps ==
    ASSUME TraceIInv, NEW r \in Runs, Moves(r, {Len(spans) + 1}), NEW p \in Holds(runs[r]),
           NEW kind \in {"run", "step", "model", "tool", "compaction"}, spans' = Child(spans, p, kind),
           Holds(runs'[r]) = Holds(runs[r]) \cup {Len(spans) + 1}, Under(runs'[r], p, Len(spans) + 1)
    PROVE  TraceIInv'
  <1> DEFINE j == Len(spans) + 1
             H == HeldSpans
             U == HeldPairs
  <1>1. /\ HeldSpans' = (H \ Holds(runs[r])) \cup Holds(runs'[r]) /\ Runs' = Runs
        /\ \A h \in U : h[2] \in HeldSpans' => h \in HeldPairs'
    BY RunsMove
  <1>2. HeldSpans' = H \cup {j}
    BY <1>1 DEF HeldSpans
  <1>3. <<p, j>> \in HeldPairs'
    BY <1>1 DEF HeldPairs, HeldSpans, Under
  <1>4. spans \in Seq(Spans) /\ p \in DOMAIN spans /\ Marked(spans, H, U) /\ Forest(spans, Roots)
    BY HeldFacts DEF TraceIInv, TraceTypeOK
  <1>5. spans' \in Seq(Spans) /\ Gains(spans, spans', p, j) /\ Adds(spans, spans', j)
    BY <1>4, ChildIs
  <1> HIDE DEF j, H, U
  <1>6. Marked(spans', H \cup {j}, U \cup {<<p, j>>}) /\ Forest(spans', Roots)
    BY <1>4, <1>5, MarkedChild, ForestChild
  <1>7. \A h \in U \cup {<<p, j>>} : h[2] \in HeldSpans' => h \in HeldPairs'
    BY <1>1, <1>3
  <1>8. Marked(spans', HeldSpans', HeldPairs')
    <2>1. Marked(spans', HeldSpans', U \cup {<<p, j>>})
      BY <1>2, <1>6
    <2> QED
      BY <1>7, <2>1, MarkedMore
  <1> QED
    BY <1>5, <1>6, <1>8, TraceKept DEF Gains

-----------------------------------------------------------------------------

\* What a run has to end, by where it is.
LEMMA HoldsIs ==
    ASSUME NEW x \in RunStates
    PROVE  /\ x.pc \in {"loop", "request"} => Holds(x) = {x.root}
           /\ x.pc = "compact" => Holds(x) = {x.root, x.compact}
           /\ x.pc = "model" => Holds(x) = {x.root, x.step, x.model}
           /\ x.pc = "tools" => Holds(x) = {x.root, x.step} \cup {x.calls[c].span : c \in Calling(x)}
           /\ x.pc \in {"done", "returned"} => Holds(x) = {}
  BY DEF Holds

\* The parts of a run.
LEMMA Fields ==
    ASSUME NEW x \in RunStates
    PROVE  /\ x.root \in Nat /\ x.step \in Nat /\ x.model \in Nat /\ x.compact \in Nat /\ x.repairs \in Nat
           /\ x.calls \in Seq(CallStates) /\ x.did \in Ledgers /\ x.fatal \in BOOLEAN /\ x.canceled \in BOOLEAN
  BY DEF RunStates

\* What a run did, and a little more.
LEMMA Noted ==
    ASSUME NEW d \in Ledgers
    PROVE  /\ d.usage \in Nat /\ [d EXCEPT !.usage = @ + 1] \in Ledgers /\ [d EXCEPT !.steps = @ + 1] \in Ledgers
           /\ [d EXCEPT !.tools = @ + 1] \in Ledgers /\ [d EXCEPT !.compactions = @ + 1] \in Ledgers
           /\ [d EXCEPT !.tools = @ + 1, !.errors = @ + 1] \in Ledgers
           /\ \A n \in Nat : [d EXCEPT !.errors = @ + n] \in Ledgers
  <1>1. /\ d.usage \in Nat /\ d.steps + 1 \in Nat /\ d.tools + 1 \in Nat /\ d.errors + 1 \in Nat
        /\ d.compactions + 1 \in Nat /\ d.usage + 1 \in Nat /\ \A n \in Nat : d.errors + n \in Nat
    BY DEF Ledgers
  <1>2. \A k \in Nat : [d EXCEPT !.usage = k] \in Ledgers /\ [d EXCEPT !.steps = k] \in Ledgers
    BY DEF Ledgers
  <1>3. \A k \in Nat : [d EXCEPT !.tools = k] \in Ledgers /\ [d EXCEPT !.compactions = k] \in Ledgers
    BY DEF Ledgers
  <1>4. \A k \in Nat : [d EXCEPT !.errors = k] \in Ledgers
    BY DEF Ledgers
  <1>5. \A k, l \in Nat : [d EXCEPT !.tools = k, !.errors = l] \in Ledgers
    BY DEF Ledgers
  <1>6. [d EXCEPT !.tools = @ + 1, !.errors = @ + 1] \in Ledgers
    BY <1>1, <1>5 DEF Ledgers
  <1>7. [d EXCEPT !.usage = @ + 1] \in Ledgers /\ [d EXCEPT !.steps = @ + 1] \in Ledgers
    BY <1>1, <1>2
  <1>8. [d EXCEPT !.tools = @ + 1] \in Ledgers /\ [d EXCEPT !.compactions = @ + 1] \in Ledgers
    BY <1>1, <1>3
  <1>9. ASSUME NEW n \in Nat PROVE [d EXCEPT !.errors = @ + n] \in Ledgers
    BY <1>1, <1>4
  <1> QED
    BY <1>1, <1>6, <1>7, <1>8, <1>9

\* A run that made no calls leaves where it was with nothing but its root.
LEMMA SimplyMoved ==
    ASSUME NEW x, NEW y, y.root = x.root, y.parent = x.parent, y.call = x.call,
           x.pc # "returned", y.pc # "returned", x.pc # "tools" \/ Calling(x) = {}, Holds(y) \subseteq {x.root}
    PROVE  Moved(x, y)
  BY DEF Moved, Under, Calling

\* A step of one run.
LEMMA OneMoves ==
    ASSUME TraceIInv, NEW r \in Runs, NEW y \in RunStates, runs' = [runs EXCEPT ![r] = y], config' = config,
           Moved(runs[r], y), NEW N, N \cap DOMAIN spans = {}, Holds(y) \subseteq Holds(runs[r]) \cup N,
           Ordered(y), OneByOne(y)
    PROVE  Moves(r, N) /\ runs'[r] = y
  <1>1. runs \in Seq(RunStates) /\ r \in DOMAIN runs
    BY DEF TraceIInv, TraceTypeOK, Runs
  <1>2. runs' \in Seq(RunStates) /\ Len(runs') = Len(runs) /\ runs'[r] = y /\ \A q \in DOMAIN runs \ {r} : runs'[q] = runs[q]
    BY <1>1
  <1>3. \A q \in Runs \ {r} : Same(runs[q], runs'[q])
    BY <1>2 DEF Same, Runs
  <1>4. OneByOne(runs[r])'
    BY <1>2 DEF OneByOne, Parallel, Calling
  <1> QED
    BY <1>2, <1>3, <1>4 DEF Moves

\* The run is one.
LEMMA RunTyped ==
    ASSUME TraceIInv, NEW r \in Runs
    PROVE  /\ runs[r] \in RunStates /\ Ordered(runs[r]) /\ OneByOne(runs[r]) /\ runs[r].root \in Nat \ {0}
           /\ spans \in Seq(Spans) /\ Holds(runs[r]) \subseteq DOMAIN spans /\ runs[r].root \in DOMAIN spans
           /\ \A i \in DOMAIN spans : spans[i] \in Spans
  <1>1. runs \in Seq(RunStates) /\ spans \in Seq(Spans) /\ runs[r].root \in DOMAIN spans
    BY DEF TraceIInv, TraceTypeOK
  <1>2. DOMAIN spans = 1 .. Len(spans)
    BY <1>1
  <1> QED
    BY <1>1, <1>2, HeldFacts DEF TraceIInv, Runs

\* A step of one run that ends spans.
LEMMA OneEnds ==
    ASSUME TraceIInv, config' = config, NEW r \in Runs, NEW y \in RunStates, runs' = [runs EXCEPT ![r] = y],
           Moved(runs[r], y), Holds(y) \subseteq Holds(runs[r]), Ordered(y), OneByOne(y),
           NEW E, E = Holds(runs[r]) \ Holds(y), spans' \in Seq(Spans), Closes(spans, spans', E)
    PROVE  TraceIInv'
  <1>1. Holds(y) \subseteq Holds(runs[r]) \cup {} /\ {} \cap DOMAIN spans = {}
    OBVIOUS
  <1>2. Moves(r, {}) /\ runs'[r] = y
    BY <1>1, OneMoves
  <1> QED
    BY <1>2, EndsKeep

\* One that returns.
LEMMA OneReturns ==
    ASSUME TraceIInv, config' = config, NEW r \in Runs, NEW y \in RunStates, runs' = [runs EXCEPT ![r] = y],
           y.pc = "done", y.root = runs[r].root, y.parent = runs[r].parent, y.call = runs[r].call,
           runs[r].pc # "returned", runs[r].pc # "tools" \/ Calling(runs[r]) = {},
           spans' \in Seq(Spans), Closes(spans, spans', Holds(runs[r]))
    PROVE  TraceIInv'
  <1>1. Holds(y) = {} /\ Ordered(y) /\ OneByOne(y)
    BY HoldsIs DEF Ordered, OneByOne
  <1>2. Moved(runs[r], y)
    BY <1>1, SimplyMoved
  <1> QED
    BY <1>1, <1>2, OneEnds

\* One that goes back to the top of the loop, or on to its next request.
LEMMA OneLoops ==
    ASSUME TraceIInv, config' = config, NEW r \in Runs, NEW y \in RunStates, runs' = [runs EXCEPT ![r] = y],
           y.pc \in {"loop", "request"}, y.root = runs[r].root, y.parent = runs[r].parent, y.call = runs[r].call,
           runs[r].pc \in {"compact", "model"} \/ (runs[r].pc = "tools" /\ Calling(runs[r]) = {}),
           spans' \in Seq(Spans), Closes(spans, spans', Holds(runs[r]) \ {runs[r].root})
    PROVE  TraceIInv'
  <1>1. Holds(y) = {y.root} /\ Ordered(y) /\ OneByOne(y)
    BY HoldsIs DEF Ordered, OneByOne
  <1>2. Moved(runs[r], y)
    BY <1>1, SimplyMoved
  <1>3. runs[r].root \in Holds(runs[r])
    BY RunTyped, HoldsIs
  <1> QED
    BY <1>1, <1>2, <1>3, OneEnds

\* Each action of the run loop keeps the invariant: a run that stops at the top of its loop,
LEMMA StopAtTopStep ==
    ASSUME TraceIInv, config' = config, NEW r \in Runs, StopAtTop(r)
    PROVE  TraceIInv'
  <1> DEFINE x == runs[r]
             y == [x EXCEPT !.pc = "done", !.failed = TRUE]
  <1>1. x \in RunStates /\ x.pc = "loop" /\ spans \in Seq(Spans)
    BY RunTyped DEF StopAtTop, Live
  <1>2. y \in RunStates /\ y.pc = "done" /\ y.root = x.root /\ y.parent = x.parent /\ y.call = x.call
    BY <1>1 DEF RunStates
  <1>3. runs' = [runs EXCEPT ![r] = y] /\ spans' = EndAll(spans, {x.root})
    BY DEF StopAtTop
  <1>4. Holds(x) = {x.root}
    BY <1>1, HoldsIs
  <1> HIDE DEF y
  <1>5. spans' \in Seq(Spans) /\ Closes(spans, spans', Holds(x))
    BY <1>1, <1>3, <1>4, EndAllIs
  <1> QED
    BY <1>1, <1>2, <1>3, <1>5, OneReturns

\* one that is out of steps,
LEMMA OutOfStepsStep ==
    ASSUME TraceIInv, config' = config, NEW r \in Runs, OutOfSteps(r)
    PROVE  TraceIInv'
  <1> DEFINE x == runs[r]
             y == [x EXCEPT !.pc = "done"]
             s == [spans EXCEPT ![x.root].used = Used(r)]
  <1>1. x \in RunStates /\ x.pc = "loop" /\ spans \in Seq(Spans) /\ x.root \in DOMAIN spans
    BY RunTyped DEF OutOfSteps, Live
  <1>2. y \in RunStates /\ y.pc = "done" /\ y.root = x.root /\ y.parent = x.parent /\ y.call = x.call
    BY <1>1 DEF RunStates
  <1>3. Used(r) \in Nat
    BY <1>1, Fields, Noted DEF Used
  <1>4. runs' = [runs EXCEPT ![r] = y] /\ spans' = EndAll(s, {x.root})
    BY DEF OutOfSteps
  <1>5. Holds(x) = {x.root}
    BY <1>1, HoldsIs
  <1>6. s \in Seq(Spans) /\ Closes(spans, s, {})
    <2> HIDE DEF x
    <2> QED
      BY <1>1, <1>3, NoteIs
  <1> HIDE DEF y, s
  <1>7. spans' \in Seq(Spans) /\ Closes(spans, spans', {} \cup {x.root})
    BY <1>4, <1>6, EndAllIs, ClosesTwice
  <1>8. Closes(spans, spans', Holds(x))
    BY <1>5, <1>7
  <1> QED
    BY <1>1, <1>2, <1>4, <1>7, <1>8, OneReturns

\* one whose compaction ends,
LEMMA FinishCompactionStep ==
    ASSUME TraceIInv, config' = config, NEW r \in Runs, FinishCompaction(r)
    PROVE  TraceIInv'
  <1> DEFINE x == runs[r]
             y == [x EXCEPT !.pc = "request"]
  <1>1. x \in RunStates /\ x.pc = "compact" /\ spans \in Seq(Spans) /\ x.root < x.compact
    BY RunTyped DEF FinishCompaction, Live, Ordered
  <1>2. y \in RunStates /\ y.pc = "request" /\ y.root = x.root /\ y.parent = x.parent /\ y.call = x.call
    BY <1>1 DEF RunStates
  <1>3. runs' = [runs EXCEPT ![r] = y] /\ spans' = EndAll(spans, {x.compact})
    BY DEF FinishCompaction
  <1>4. Holds(x) \ {x.root} = {x.compact}
    <2>1. x.root \in Nat /\ x.compact \in Nat
      BY <1>1 DEF RunStates
    <2> QED
      BY <1>1, <2>1, HoldsIs
  <1> HIDE DEF y
  <1>5. spans' \in Seq(Spans) /\ Closes(spans, spans', Holds(x) \ {x.root})
    BY <1>1, <1>3, <1>4, EndAllIs
  <1> QED
    BY <1>1, <1>2, <1>3, <1>5, OneLoops

\* one whose model failed, which ends three spans,
LEMMA ModelFailsStep ==
    ASSUME TraceIInv, config' = config, NEW r \in Runs, ModelFails(r)
    PROVE  TraceIInv'
  <1> DEFINE x == runs[r]
             y == [x EXCEPT !.pc = "done", !.failed = TRUE]
  <1>1. x \in RunStates /\ x.pc = "model" /\ spans \in Seq(Spans)
    BY RunTyped DEF ModelFails, Live
  <1>2. y \in RunStates /\ y.pc = "done" /\ y.root = x.root /\ y.parent = x.parent /\ y.call = x.call
    BY <1>1 DEF RunStates
  <1>3. runs' = [runs EXCEPT ![r] = y] /\ spans' = EndAll(spans, {x.model, x.step, x.root})
    BY DEF ModelFails
  <1>4. Holds(x) = {x.model, x.step, x.root}
    BY <1>1, HoldsIs
  <1> HIDE DEF y
  <1>5. spans' \in Seq(Spans) /\ Closes(spans, spans', Holds(x))
    BY <1>1, <1>3, <1>4, EndAllIs
  <1> QED
    BY <1>1, <1>2, <1>3, <1>5, OneReturns

\* A response came: the span of the model call has ended.
LEMMA ModelResponded ==
    ASSUME TraceIInv, NEW r \in Runs, Live(r, "model")
    PROVE  LET x == runs[r] IN
           /\ x \in RunStates /\ x.pc = "model" /\ Used(r) + 1 \in Nat
           /\ Responded(r) \in Seq(Spans) /\ Closes(spans, Responded(r), {x.model})
           /\ x.root \in DOMAIN Responded(r)
           /\ Holds(x) = {x.root, x.step, x.model} /\ x.root # x.step /\ x.step # x.model /\ x.root # x.model
  <1> DEFINE x == runs[r]
             s == [spans EXCEPT ![x.model].used = 1]
  <1>1. x \in RunStates /\ x.pc = "model" /\ spans \in Seq(Spans) /\ Ordered(x) /\ Holds(x) \subseteq DOMAIN spans
    BY RunTyped DEF Live
  <1>2. Holds(x) = {x.root, x.step, x.model} /\ Used(r) + 1 \in Nat
    <2>1. Holds(x) = {x.root, x.step, x.model}
      BY <1>1, HoldsIs
    <2>2. Used(r) \in Nat
      BY <1>1, Fields, Noted DEF Used
    <2> QED
      BY <2>1, <2>2
  <1>3. x.root # x.step /\ x.step # x.model /\ x.root # x.model
    <2>1. x.root \in Nat /\ x.step \in Nat /\ x.model \in Nat /\ x.root < x.step /\ x.step < x.model
      BY <1>1 DEF RunStates, Ordered
    <2> QED
      BY <2>1
  <1>4. s \in Seq(Spans) /\ Closes(spans, s, {})
    <2> HIDE DEF x
    <2> QED
      BY <1>1, <1>2, NoteIs
  <1>5. Responded(r) = EndAll(s, {x.model})
    BY DEF Responded
  <1> HIDE DEF s, x
  <1>6. Responded(r) \in Seq(Spans) /\ Closes(spans, Responded(r), {} \cup {x.model})
    BY <1>4, <1>5, EndAllIs, ClosesTwice
  <1>7. {} \cup {x.model} = {x.model}
    OBVIOUS
  <1>8. Closes(spans, Responded(r), {x.model})
    BY <1>6, <1>7
  <1>9. x.root \in DOMAIN Responded(r)
    BY <1>1, <1>2, <1>8 DEF Closes
  <1> QED
    BY <1>1, <1>2, <1>3, <1>6, <1>8, <1>9 DEF x

\* one that has its answer,
LEMMA AnswerStep ==
    ASSUME TraceIInv, config' = config, NEW r \in Runs, Answer(r)
    PROVE  TraceIInv'
  <1> DEFINE x == runs[r]
             d == [x.did EXCEPT !.usage = @ + 1]
             y == [x EXCEPT !.did = d, !.pc = "done"]
             s == [Responded(r) EXCEPT ![x.root].used = Used(r) + 1]
  <1>1. /\ x \in RunStates /\ x.pc = "model" /\ Used(r) + 1 \in Nat
        /\ Responded(r) \in Seq(Spans) /\ Closes(spans, Responded(r), {x.model}) /\ x.root \in DOMAIN Responded(r)
        /\ Holds(x) = {x.root, x.step, x.model}
    BY ModelResponded DEF Answer
  <1>2. y \in RunStates /\ y.pc = "done" /\ y.root = x.root /\ y.parent = x.parent /\ y.call = x.call
    <2>1. d \in Ledgers
      BY <1>1, Fields, Noted
    <2> HIDE DEF d
    <2> QED
      BY <1>1, <2>1 DEF RunStates
  <1>3. runs' = [runs EXCEPT ![r] = y] /\ spans' = EndAll(s, {x.step, x.root})
    BY DEF Answer
  <1>4. s \in Seq(Spans) /\ Closes(Responded(r), s, {})
    <2> HIDE DEF x
    <2> QED
      BY <1>1, NoteIs
  <1> HIDE DEF y, s
  <1>5. spans' \in Seq(Spans) /\ Closes(spans, spans', ({x.model} \cup {}) \cup {x.step, x.root})
    <2>1. Closes(spans, s, {x.model} \cup {})
      BY <1>1, <1>4, ClosesTwice
    <2> QED
      BY <1>3, <1>4, <2>1, EndAllIs, ClosesTwice
  <1>6. Closes(spans, spans', Holds(x))
    <2>1. Holds(x) = ({x.model} \cup {}) \cup {x.step, x.root}
      BY <1>1
    <2> QED
      BY <1>5, <2>1
  <1> QED
    BY <1>1, <1>2, <1>3, <1>5, <1>6, OneReturns

\* one whose answer is refused,
LEMMA BadAnswerStep ==
    ASSUME TraceIInv, config' = config, NEW r \in Runs, BadAnswer(r)
    PROVE  TraceIInv'
  <1> DEFINE x == runs[r]
  <1>1. /\ x \in RunStates /\ x.pc = "model"
        /\ Responded(r) \in Seq(Spans) /\ Closes(spans, Responded(r), {x.model})
        /\ Holds(x) = {x.root, x.step, x.model} /\ x.root # x.step /\ x.step # x.model /\ x.root # x.model
    BY ModelResponded DEF BadAnswer
  <1>2. CASE /\ x.repairs > 0 /\ spans' = EndAll(Responded(r), {x.step})
             /\ runs' = [runs EXCEPT ![r] = [runs[r] EXCEPT !.did.usage = @ + 1, !.pc = "loop", !.repairs = @ - 1]]
    <2> DEFINE d == [x.did EXCEPT !.usage = @ + 1]
               y == [x EXCEPT !.did = d, !.pc = "loop", !.repairs = @ - 1]
    <2>1. y \in RunStates /\ y.pc = "loop" /\ y.root = x.root /\ y.parent = x.parent /\ y.call = x.call
      <3>0. x.repairs \in Nat /\ x.repairs > 0 /\ d \in Ledgers
        BY <1>1, <1>2, Fields, Noted
      <3> HIDE DEF d
      <3>1. x.repairs \in Nat /\ x.repairs - 1 \in Nat /\ d \in Ledgers
        BY <3>0
      <3> QED
        BY <1>1, <3>1 DEF RunStates
    <2>2. runs' = [runs EXCEPT ![r] = y]
      BY <1>2
    <2> HIDE DEF y
    <2>3. spans' \in Seq(Spans) /\ Closes(spans, spans', {x.model} \cup {x.step})
      BY <1>1, <1>2, EndAllIs, ClosesTwice
    <2>4. Closes(spans, spans', Holds(x) \ {x.root})
      <3>1. Holds(x) \ {x.root} = {x.model} \cup {x.step}
        BY <1>1
      <3> QED
        BY <2>3, <3>1
    <2> QED
      BY <1>1, <2>1, <2>2, <2>3, <2>4, OneLoops
  <1>3. CASE /\ x.repairs = 0 /\ spans' = EndAll(Responded(r), {x.step, x.root})
             /\ runs' = [runs EXCEPT ![r] = [runs[r] EXCEPT !.did.usage = @ + 1, !.pc = "done", !.failed = TRUE]]
    <2> DEFINE d == [x.did EXCEPT !.usage = @ + 1]
               y == [x EXCEPT !.did = d, !.pc = "done", !.failed = TRUE]
    <2>1. y \in RunStates /\ y.pc = "done" /\ y.root = x.root /\ y.parent = x.parent /\ y.call = x.call
      <3>1. d \in Ledgers
        BY <1>1, Fields, Noted
      <3> HIDE DEF d
      <3> QED
        BY <1>1, <3>1 DEF RunStates
    <2>2. runs' = [runs EXCEPT ![r] = y]
      BY <1>3
    <2> HIDE DEF y
    <2>3. spans' \in Seq(Spans) /\ Closes(spans, spans', {x.model} \cup {x.step, x.root})
      BY <1>1, <1>3, EndAllIs, ClosesTwice
    <2>4. Closes(spans, spans', Holds(x))
      <3>1. Holds(x) = {x.model} \cup {x.step, x.root}
        BY <1>1
      <3> QED
        BY <2>3, <3>1
    <2> QED
      BY <1>1, <2>1, <2>2, <2>3, <2>4, OneReturns
  <1> QED
    BY <1>2, <1>3 DEF BadAnswer

\* one that is asked for tools,
LEMMA AskForToolsStep ==
    ASSUME TraceIInv, config' = config, NEW r \in Runs, AskForTools(r)
    PROVE  TraceIInv'
  <1> DEFINE x == runs[r]
             d == [x.did EXCEPT !.usage = @ + 1]
  <1>1. /\ x \in RunStates /\ x.pc = "model"
        /\ Responded(r) \in Seq(Spans) /\ Closes(spans, Responded(r), {x.model})
        /\ Holds(x) = {x.root, x.step, x.model} /\ x.root # x.step /\ x.step # x.model /\ x.root # x.model
    BY ModelResponded DEF AskForTools
  <1>2. PICK n \in Nat : runs' = [runs EXCEPT ![r] = [runs[r] EXCEPT !.did.usage = @ + 1, !.pc = "tools",
                                                                  !.calls = [c \in 1 .. n |-> Todo]]]
    <2>1. \A m \in Int : 1 .. m \subseteq Nat
      OBVIOUS
    <2>2. CallLimits["caller"] \in Nat /\ CallLimits["subagent"] \in Nat
      BY TraceAssumption
    <2>3. \A k \in 1 .. CallLimits[IF r = 1 THEN "caller" ELSE "subagent"] : k \in Nat
      BY <2>2
    <2> QED
      BY <2>3 DEF AskForTools
  <1> DEFINE cs == [c \in 1 .. n |-> Todo]
             y == [x EXCEPT !.did = d, !.pc = "tools", !.calls = cs]
  <1>3. d \in Ledgers
    BY <1>1, Fields, Noted
  <1>4. cs \in Seq(CallStates) /\ \A c \in DOMAIN cs : cs[c].state = "todo"
    BY DEF CallStates, Todo, NoSpan
  <1>5. runs' = [runs EXCEPT ![r] = y] /\ spans' = Responded(r)
    BY <1>2 DEF AskForTools
  <1> HIDE DEF d, cs
  <1>6. /\ y \in RunStates /\ y.pc = "tools" /\ y.root = x.root /\ y.parent = x.parent /\ y.call = x.call
        /\ y.step = x.step /\ y.calls = cs
    BY <1>1, <1>3, <1>4 DEF RunStates
  <1> HIDE DEF y
  <1>7. Calling(y) = {}
    BY <1>4, <1>6 DEF Calling
  <1>8. Holds(y) = {x.root, x.step}
    BY <1>6, <1>7, HoldsIs
  <1>9. Ordered(x)
    BY RunTyped
  <1>10. Ordered(y)
    BY <1>1, <1>6, <1>7, <1>9 DEF Ordered
  <1>11. OneByOne(y)
    BY <1>4, <1>6, <1>7 DEF OneByOne
  <1>12. Moved(x, y)
    BY <1>1, <1>6, <1>8 DEF Moved, Under
  <1>13. {x.model} = Holds(x) \ Holds(y) /\ Holds(y) \subseteq Holds(x)
    BY <1>1, <1>8
  <1> QED
    BY <1>1, <1>5, <1>6, <1>10, <1>11, <1>12, <1>13, OneEnds

\* one whose step ends, in which no call is left that has a span to end,
LEMMA EndStepStep ==
    ASSUME TraceIInv, config' = config, NEW r \in Runs, EndStep(r)
    PROVE  TraceIInv'
  <1> DEFINE x == runs[r]
             y == [x EXCEPT !.pc = IF x.fatal THEN "done" ELSE "loop", !.failed = x.fatal]
  <1>1. x \in RunStates /\ x.pc = "tools" /\ spans \in Seq(Spans) /\ OneByOne(x) /\ Ordered(x)
    BY RunTyped DEF EndStep, Live
  <1>2. Calling(x) = {}
    BY <1>1 DEF EndStep, OneByOne, Calling
  <1>3. x.fatal \in BOOLEAN /\ x.root # x.step
    <2>1. x.root \in Nat /\ x.step \in Nat /\ x.root < x.step /\ x.fatal \in BOOLEAN
      BY <1>1, Fields DEF Ordered
    <2> QED
      BY <2>1
  <1>4. Holds(x) = {x.root, x.step}
    BY <1>1, <1>2, HoldsIs
  <1>5. /\ runs' = [runs EXCEPT ![r] = y]
        /\ spans' = EndAll(spans, {x.step} \cup (IF x.fatal THEN {x.root} ELSE {}))
    BY DEF EndStep
  <1>6. y \in RunStates /\ y.root = x.root /\ y.parent = x.parent /\ y.call = x.call
        /\ y.pc = IF x.fatal THEN "done" ELSE "loop"
    BY <1>1, <1>3 DEF RunStates
  <1> HIDE DEF y
  <1>7. CASE x.fatal
    <2>1. {x.step} \cup (IF x.fatal THEN {x.root} ELSE {}) = Holds(x)
      BY <1>4, <1>7
    <2>2. spans' \in Seq(Spans) /\ Closes(spans, spans', Holds(x))
      BY <1>1, <1>5, <2>1, EndAllIs
    <2> QED
      BY <1>1, <1>2, <1>5, <1>6, <1>7, <2>2, OneReturns
  <1>8. CASE ~x.fatal
    <2>1. {x.step} \cup (IF x.fatal THEN {x.root} ELSE {}) = Holds(x) \ {x.root}
      BY <1>3, <1>4, <1>8
    <2>2. spans' \in Seq(Spans) /\ Closes(spans, spans', Holds(x) \ {x.root})
      BY <1>1, <1>5, <2>1, EndAllIs
    <2> QED
      BY <1>1, <1>2, <1>5, <1>6, <1>8, <2>2, OneLoops
  <1> QED
    BY <1>7, <1>8

\* Run x as it is in the middle of its calls, and y, of which only call c and what it did differ.
OneCall(x, y, c, z) ==
    /\ x \in RunStates /\ y \in RunStates /\ x.pc = "tools" /\ y.pc = "tools"
    /\ y.root = x.root /\ y.parent = x.parent /\ y.call = x.call /\ y.step = x.step
    /\ c \in DOMAIN x.calls /\ z \in CallStates /\ y.calls = [x.calls EXCEPT ![c] = z]

\* The calls of a run of which one changed.
LEMMA CallChanged ==
    ASSUME NEW x, NEW y, NEW c, NEW z, OneCall(x, y, c, z)
    PROVE  /\ DOMAIN y.calls = DOMAIN x.calls /\ y.calls[c] = z /\ \A e \in DOMAIN x.calls \ {c} : y.calls[e] = x.calls[e]
           /\ z.state \in {"tool", "sub"} => Calling(y) = Calling(x) \cup {c}
           /\ z.state \in {"todo", "done"} => Calling(y) = Calling(x) \ {c}
           /\ z.state \in {"todo", "tool", "sub", "done"} /\ z.span \in Nat
  <1>1. x.calls \in Seq(CallStates) /\ z.state \in {"todo", "tool", "sub", "done"} /\ z.span \in Nat
    BY Fields DEF OneCall, CallStates
  <1>2. DOMAIN y.calls = DOMAIN x.calls /\ y.calls[c] = z /\ \A e \in DOMAIN x.calls \ {c} : y.calls[e] = x.calls[e]
    BY <1>1 DEF OneCall
  <1>3. \A e \in DOMAIN x.calls \ {c} : e \in Calling(y) <=> e \in Calling(x)
    BY <1>2 DEF Calling
  <1>4. c \in Calling(y) <=> z.state \in {"tool", "sub"}
    BY <1>2 DEF Calling, OneCall
  <1>5. Calling(x) \subseteq DOMAIN x.calls /\ Calling(y) \subseteq DOMAIN x.calls /\ c \in DOMAIN x.calls
    BY <1>2 DEF Calling, OneCall
  <1> QED
    BY <1>1, <1>2, <1>3, <1>4, <1>5

\* Such a run still waits for its subagents.
LEMMA CallMoved ==
    ASSUME NEW x, NEW y, NEW c, NEW z, OneCall(x, y, c, z), x.calls[c].state # "sub"
    PROVE  Moved(x, y)
  <1>1. x.root \in Holds(y) /\ x.step \in Holds(y)
    BY HoldsIs DEF OneCall
  <1>2. \A e \in DOMAIN x.calls : x.calls[e].state = "sub" => e \in DOMAIN y.calls /\ y.calls[e] = x.calls[e]
    BY CallChanged
  <1> QED
    BY <1>1, <1>2 DEF Moved, Under, OneCall

\* A compaction gets a span,
LEMMA StartCompactionStep ==
    ASSUME TraceIInv, config' = config, NEW r \in Runs, StartCompaction(r)
    PROVE  TraceIInv'
  <1> DEFINE x == runs[r]
             d == [x.did EXCEPT !.compactions = @ + 1]
             j == Len(spans) + 1
             y == [x EXCEPT !.did = d, !.pc = "compact", !.compact = j]
  <1>1. x \in RunStates /\ x.pc = "loop" /\ x.root \in DOMAIN spans /\ spans \in Seq(Spans)
    BY RunTyped DEF StartCompaction, Live
  <1>2. d \in Ledgers
    BY <1>1, Fields, Noted
  <1>3. runs' = [runs EXCEPT ![r] = y] /\ spans' = Child(spans, x.root, "compaction")
    BY DEF StartCompaction
  <1>4. j \in Nat /\ j \notin DOMAIN spans /\ x.root \in Nat /\ x.root < j
    BY <1>1
  <1> HIDE DEF d, j
  <1>5. /\ y \in RunStates /\ y.pc = "compact" /\ y.root = x.root /\ y.parent = x.parent /\ y.call = x.call
        /\ y.compact = j
    BY <1>1, <1>2, <1>4 DEF RunStates
  <1> HIDE DEF y
  <1>6. Holds(x) = {x.root} /\ Holds(y) = {x.root, j}
    BY <1>1, <1>5, HoldsIs
  <1>7. Ordered(y) /\ OneByOne(y)
    BY <1>4, <1>5 DEF Ordered, OneByOne
  <1>8. Moved(x, y) /\ Under(y, x.root, j)
    BY <1>1, <1>4, <1>5, <1>6 DEF Moved, Under
  <1>9. {j} \cap DOMAIN spans = {} /\ Holds(y) \subseteq Holds(x) \cup {j} /\ Holds(y) = Holds(x) \cup {j}
    BY <1>4, <1>6
  <1>10. Moves(r, {j}) /\ runs'[r] = y
    BY <1>3, <1>5, <1>7, <1>8, <1>9, OneMoves
  <1> QED
    BY <1>3, <1>6, <1>8, <1>9, <1>10, ChildKeeps DEF j

\* a step and its model call get two,
LEMMA OpenStepStep ==
    ASSUME TraceIInv, config' = config, NEW r \in Runs, OpenStep(r)
    PROVE  TraceIInv'
  <1> DEFINE x == runs[r]
             d == [x.did EXCEPT !.steps = @ + 1]
             j == Len(spans) + 1
             k == Len(spans) + 2
             y == [x EXCEPT !.did = d, !.pc = "model", !.step = j, !.model = k]
             t == Child(spans, x.root, "step")
             H == HeldSpans
             U == HeldPairs
  <1>1. /\ x \in RunStates /\ x.pc \in {"loop", "request"} /\ x.root \in DOMAIN spans /\ spans \in Seq(Spans)
        /\ Marked(spans, H, U) /\ Forest(spans, Roots)
    BY RunTyped DEF OpenStep, Live, TraceIInv
  <1>2. d \in Ledgers
    BY <1>1, Fields, Noted
  <1>3. runs' = [runs EXCEPT ![r] = y] /\ spans' = Child(t, j, "model")
    BY DEF OpenStep
  <1>4. /\ j \in Nat /\ k \in Nat /\ {j, k} \cap DOMAIN spans = {} /\ j # k /\ j < k
        /\ x.root \in Nat /\ x.root < j /\ x.root # k
    BY <1>1
  <1>5. t \in Seq(Spans) /\ Len(t) + 1 = k /\ Gains(spans, t, x.root, j) /\ Adds(spans, t, j)
    <2>1. t \in Seq(Spans) /\ Len(t) = Len(spans) + 1 /\ Gains(spans, t, x.root, j) /\ Adds(spans, t, j)
      BY <1>1, ChildIs
    <2>2. Len(spans) \in Nat
      BY <1>1
    <2> QED
      BY <2>1, <2>2
  <1> HIDE DEF t, d, j, k
  <1>6. j \in DOMAIN t
    BY <1>5 DEF Adds
  <1>7. spans' \in Seq(Spans) /\ Gains(t, spans', j, k) /\ Adds(t, spans', k)
    BY <1>3, <1>5, <1>6, ChildIs
  <1>8. /\ y \in RunStates /\ y.pc = "model" /\ y.root = x.root /\ y.parent = x.parent /\ y.call = x.call
        /\ y.step = j /\ y.model = k
    BY <1>1, <1>2, <1>4 DEF RunStates
  <1> HIDE DEF y
  <1>9. Holds(x) = {x.root} /\ Holds(y) = {x.root, j, k}
    BY <1>1, <1>8, HoldsIs
  <1>10. Ordered(y) /\ OneByOne(y)
    BY <1>4, <1>8 DEF Ordered, OneByOne
  <1>11. Moved(x, y) /\ Under(y, x.root, j) /\ Under(y, j, k)
    BY <1>1, <1>4, <1>8, <1>9 DEF Moved, Under
  <1>12. Holds(y) \subseteq Holds(x) \cup {j, k} /\ Holds(y) = Holds(x) \cup {j, k}
    BY <1>9
  <1>13. Moves(r, {j, k}) /\ runs'[r] = y
    BY <1>3, <1>4, <1>8, <1>10, <1>11, <1>12, OneMoves
  <1>14. /\ HeldSpans' = (H \ Holds(x)) \cup Holds(y) /\ Runs' = Runs
         /\ \A h \in U : h[2] \in HeldSpans' => h \in HeldPairs'
    BY <1>13, RunsMove
  <1>15. HeldSpans' = (H \cup {j}) \cup {k}
    BY <1>12, <1>14 DEF HeldSpans
  <1>16. <<x.root, j>> \in HeldPairs' /\ <<j, k>> \in HeldPairs'
    <2>1. {x.root, j, k} \subseteq HeldSpans'
      BY <1>9, <1>14
    <2> QED
      BY <1>11, <1>13, <1>14, <2>1 DEF HeldPairs
  <1> HIDE DEF H, U
  <1>17. Marked(t, H \cup {j}, U \cup {<<x.root, j>>}) /\ Forest(t, Roots)
    BY <1>1, <1>5, MarkedChild, ForestChild
  <1>18. Marked(spans', (H \cup {j}) \cup {k}, (U \cup {<<x.root, j>>}) \cup {<<j, k>>}) /\ Forest(spans', Roots)
    BY <1>7, <1>17, MarkedChild, ForestChild
  <1>19. \A h \in (U \cup {<<x.root, j>>}) \cup {<<j, k>>} : h[2] \in HeldSpans' => h \in HeldPairs'
    BY <1>14, <1>16
  <1>20. Marked(spans', HeldSpans', HeldPairs')
    <2>1. Marked(spans', HeldSpans', (U \cup {<<x.root, j>>}) \cup {<<j, k>>})
      BY <1>15, <1>18
    <2> QED
      BY <1>19, <2>1, MarkedMore
  <1>21. DOMAIN spans \subseteq DOMAIN spans'
    BY <1>5, <1>7 DEF Gains
  <1> QED
    BY <1>7, <1>13, <1>18, <1>20, <1>21, TraceKept

\* A call gets a span.
LEMMA BegunIs ==
    ASSUME NEW x \in RunStates, x.pc = "tools", NEW c \in DOMAIN x.calls,
           NEW state \in {"tool", "sub"}, NEW span \in Nat
    PROVE  /\ OneCall(x, Begun(x, c, state, span), c, [state |-> state, span |-> span])
           /\ Begun(x, c, state, span).fatal = x.fatal
  <1> DEFINE d == [x.did EXCEPT !.tools = @ + 1]
             w == [x EXCEPT !.did = d]
             z == [state |-> state, span |-> span]
             cs == [w.calls EXCEPT ![c] = z]
             y == [w EXCEPT !.calls = cs]
  <1>1. d \in Ledgers
    BY Fields, Noted
  <1>2. Begun(x, c, state, span) = y
    BY DEF Begun
  <1> HIDE DEF d
  <1>3. /\ w \in RunStates /\ w.pc = x.pc /\ w.root = x.root /\ w.parent = x.parent /\ w.call = x.call
        /\ w.step = x.step /\ w.calls = x.calls /\ w.fatal = x.fatal
    BY <1>1 DEF RunStates
  <1>4. z \in CallStates
    BY DEF CallStates
  <1> HIDE DEF w, z
  <1>5. cs \in Seq(CallStates) /\ cs = [x.calls EXCEPT ![c] = z]
    BY <1>3, <1>4, Fields
  <1> HIDE DEF cs
  <1>6. /\ y \in RunStates /\ y.pc = w.pc /\ y.root = w.root /\ y.parent = w.parent /\ y.call = w.call
        /\ y.step = w.step /\ y.calls = cs /\ y.fatal = w.fatal
    BY <1>3, <1>5 DEF RunStates
  <1> HIDE DEF y
  <1> QED
    BY <1>2, <1>3, <1>4, <1>5, <1>6 DEF OneCall, z

\* A call gets an answer.
LEMMA RepliedIs ==
    ASSUME NEW x \in RunStates, x.pc = "tools", NEW c \in DOMAIN x.calls, NEW error
    PROVE  /\ OneCall(x, Replied(x, c, error), c, [x.calls[c] EXCEPT !.state = "done"])
           /\ [x.calls[c] EXCEPT !.state = "done"].state = "done"
           /\ Replied(x, c, error).fatal = x.fatal
  <1> DEFINE d == [x.did EXCEPT !.errors = @ + (IF error THEN 1 ELSE 0)]
             w == [x EXCEPT !.did = d]
             z == [x.calls[c] EXCEPT !.state = "done"]
             v == [w.calls[c] EXCEPT !.state = "done"]
             cs == [w.calls EXCEPT ![c] = v]
             y == [w EXCEPT !.calls = cs]
  <1>1. d \in Ledgers
    BY Fields, Noted
  <1>2. Replied(x, c, error) = y
    BY DEF Replied
  <1> HIDE DEF d
  <1>3. /\ w \in RunStates /\ w.pc = x.pc /\ w.root = x.root /\ w.parent = x.parent /\ w.call = x.call
        /\ w.step = x.step /\ w.calls = x.calls /\ w.fatal = x.fatal
    BY <1>1 DEF RunStates
  <1>4. z \in CallStates /\ z.state = "done" /\ v = z
    <2>1. x.calls \in Seq(CallStates)
      BY Fields
    <2>2. x.calls[c] \in CallStates
      BY <2>1
    <2>3. z \in CallStates /\ z.state = "done"
      BY <2>2 DEF CallStates
    <2> HIDE DEF w
    <2>4. v = z
      BY <1>3
    <2> QED
      BY <2>3, <2>4
  <1> HIDE DEF w, z, v
  <1>5. cs \in Seq(CallStates) /\ cs = [x.calls EXCEPT ![c] = z]
    BY <1>3, <1>4, Fields
  <1> HIDE DEF cs
  <1>6. /\ y \in RunStates /\ y.pc = w.pc /\ y.root = w.root /\ y.parent = w.parent /\ y.call = w.call
        /\ y.step = w.step /\ y.calls = cs /\ y.fatal = w.fatal
    BY <1>3, <1>5 DEF RunStates
  <1> HIDE DEF y
  <1> QED
    BY <1>2, <1>3, <1>4, <1>5, <1>6 DEF OneCall, z

\* What a call that may be made is.
LEMMA MayCallIs ==
    ASSUME TraceIInv, NEW r \in Runs, NEW c \in DOMAIN runs[r].calls, MayCall(r, c)
    PROVE  /\ runs[r] \in RunStates /\ runs[r].pc = "tools" /\ runs[r].calls[c].state = "todo"
           /\ c \notin Calling(runs[r]) /\ runs[r].step \in Holds(runs[r]) /\ runs[r].step \in DOMAIN spans
           /\ spans \in Seq(Spans) /\ Len(spans) + 1 \in Nat /\ Len(spans) + 1 \notin DOMAIN spans
           /\ Holds(runs[r]) \subseteq DOMAIN spans
           /\ \A i \in DOMAIN spans : i < Len(spans) + 1 /\ i \in Nat
  <1> DEFINE x == runs[r]
  <1>1. x \in RunStates /\ x.pc = "tools" /\ x.calls[c].state = "todo" /\ spans \in Seq(Spans) /\ Holds(x) \subseteq DOMAIN spans
    BY RunTyped DEF MayCall, Live
  <1>2. c \notin Calling(x)
    BY <1>1 DEF Calling
  <1>3. x.step \in Holds(x)
    BY <1>1, HoldsIs
  <1>4. Len(spans) \in Nat /\ DOMAIN spans = 1 .. Len(spans)
    BY <1>1
  <1>5. Len(spans) + 1 \in Nat /\ Len(spans) + 1 \notin DOMAIN spans /\ \A i \in DOMAIN spans : i < Len(spans) + 1 /\ i \in Nat
    BY <1>4
  <1> QED
    BY <1>1, <1>2, <1>3, <1>5

\* The calls are still made one by one.
LEMMA OneByOneCalls ==
    ASSUME TraceIInv, NEW r \in Runs, NEW c \in DOMAIN runs[r].calls, MayCall(r, c),
           NEW y, NEW z, OneCall(runs[r], y, c, z), z.state # "todo", y.fatal = runs[r].fatal
    PROVE  OneByOne(y)
  <1> DEFINE x == runs[r]
  <1>1. OneByOne(x) /\ x.pc = "tools" /\ y.pc = "tools" /\ x.calls[c].state = "todo"
    BY RunTyped, MayCallIs DEF OneCall
  <1>2. DOMAIN y.calls = DOMAIN x.calls /\ y.calls[c] = z /\ \A e \in DOMAIN x.calls \ {c} : y.calls[e] = x.calls[e]
    BY CallChanged
  <1>3. SUFFICES ASSUME ~Parallel
                 PROVE  /\ \A e, d \in DOMAIN y.calls : d < e /\ y.calls[e].state # "todo" => y.calls[d].state = "done"
                        /\ y.fatal => Calling(y) = {}
    BY DEF OneByOne
  <1>4. ~x.fatal /\ \A d \in 1 .. c - 1 : x.calls[d].state = "done"
    BY <1>3 DEF MayCall
  <1>5. \A e, d \in DOMAIN x.calls : d < e /\ x.calls[e].state # "todo" => x.calls[d].state = "done"
    BY <1>1, <1>3 DEF OneByOne
  <1>6. \A d \in DOMAIN x.calls : d \in Nat \ {0}
    <2>1. x.calls \in Seq(CallStates)
      BY RunTyped, Fields
    <2> QED
      BY <2>1
  <1>7. ASSUME NEW e \in DOMAIN y.calls, NEW d \in DOMAIN y.calls, d < e, y.calls[e].state # "todo"
        PROVE  y.calls[d].state = "done"
    <2>1. CASE e = c
      <3>1. d \in 1 .. c - 1 /\ d # c
        BY <1>2, <1>6, <1>7, <2>1
      <3> QED
        BY <1>2, <1>4, <1>7, <3>1
    <2>2. CASE e # c
      <3>1. x.calls[d].state = "done"
        BY <1>2, <1>5, <1>7, <2>2
      <3>2. d # c
        BY <1>1, <3>1
      <3> QED
        BY <1>2, <1>7, <3>1, <3>2
    <2> QED
      BY <2>1, <2>2
  <1> QED
    BY <1>4, <1>7

\* Call c gets span j, and an answer later.
LEMMA CallBegins ==
    ASSUME TraceIInv, NEW r \in Runs, NEW c \in DOMAIN runs[r].calls, MayCall(r, c), NEW state \in {"tool", "sub"}
    PROVE  LET x == runs[r]  j == Len(spans) + 1  y == Begun(x, c, state, j) IN
           /\ OneCall(x, y, c, [state |-> state, span |-> j])
           /\ Holds(y) = Holds(x) \cup {j} /\ Ordered(y) /\ OneByOne(y) /\ Moved(x, y) /\ Under(y, x.step, j)
  <1> DEFINE x == runs[r]
             j == Len(spans) + 1
             z == [state |-> state, span |-> j]
             y == Begun(x, c, state, j)
  <1>1. /\ x \in RunStates /\ x.pc = "tools" /\ x.calls[c].state = "todo" /\ c \notin Calling(x)
        /\ x.step \in Holds(x) /\ x.step \in DOMAIN spans /\ j \in Nat /\ j \notin DOMAIN spans
        /\ Holds(x) \subseteq DOMAIN spans /\ \A i \in DOMAIN spans : i < j /\ i \in Nat
    BY MayCallIs
  <1>2. OneCall(x, y, c, z) /\ y.fatal = x.fatal
    BY <1>1, BegunIs
  <1>3. z.state = state /\ z.span = j
    OBVIOUS
  <1> HIDE DEF j, y, z
  <1>4. DOMAIN y.calls = DOMAIN x.calls /\ y.calls[c] = z /\ Calling(y) = Calling(x) \cup {c}
        /\ \A e \in DOMAIN x.calls \ {c} : y.calls[e] = x.calls[e]
    BY <1>2, <1>3, CallChanged
  <1>5. Holds(y) = Holds(x) \cup {j}
    <2>1. Holds(x) = {x.root, x.step} \cup {x.calls[e].span : e \in Calling(x)}
      BY <1>1, HoldsIs
    <2>2. Holds(y) = {x.root, x.step} \cup {y.calls[e].span : e \in Calling(y)}
      BY <1>2, HoldsIs DEF OneCall
    <2>3. \A e \in Calling(x) : y.calls[e].span = x.calls[e].span
      BY <1>1, <1>4 DEF Calling
    <2> QED
      BY <1>3, <1>4, <2>1, <2>2, <2>3
  <1>6. Ordered(y)
    <2>1. Ordered(x)
      BY RunTyped
    <2>2. \A e \in Calling(x) : e # c /\ y.calls[e].span = x.calls[e].span /\ x.calls[e].span \in Holds(x)
      BY <1>1, <1>4, HoldsIs DEF Calling
    <2>3. \A e \in Calling(x) : x.calls[e].span # j /\ x.step < x.calls[e].span
      BY <1>1, <2>1, <2>2 DEF Ordered
    <2>4. x.step < j /\ x.root < x.step
      BY <1>1, <2>1 DEF Ordered
    <2>5. \A e \in Calling(y) : y.step < y.calls[e].span
      BY <1>2, <1>3, <1>4, <2>2, <2>3, <2>4 DEF OneCall
    <2>6. \A e, f \in Calling(y) : y.calls[e].span = y.calls[f].span => e = f
      BY <1>1, <1>3, <1>4, <2>1, <2>2, <2>3 DEF Ordered
    <2> QED
      BY <1>2, <2>4, <2>5, <2>6 DEF Ordered, OneCall
  <1>7. OneByOne(y)
    BY <1>2, <1>3, OneByOneCalls
  <1>8. Moved(x, y)
    BY <1>1, <1>2, CallMoved
  <1>9. Under(y, x.step, j)
    <2>1. x.root \in DOMAIN spans
      BY RunTyped
    <2> QED
      BY <1>1, <1>2, <1>5, <2>1 DEF Under, OneCall
  <1> QED
    BY <1>2, <1>5, <1>6, <1>7, <1>8, <1>9 DEF y, z, j

\* A tool that is called,
LEMMA InvokeStep ==
    ASSUME TraceIInv, config' = config, NEW r \in Runs, NEW c \in DOMAIN runs[r].calls, Invoke(r, c)
    PROVE  TraceIInv'
  <1> DEFINE x == runs[r]
             j == Len(spans) + 1
             y == Begun(x, c, "tool", j)
  <1>1. /\ OneCall(x, y, c, [state |-> "tool", span |-> j])
        /\ Holds(y) = Holds(x) \cup {j} /\ Ordered(y) /\ OneByOne(y) /\ Moved(x, y) /\ Under(y, x.step, j)
    BY CallBegins DEF Invoke
  <1>2. x.step \in Holds(x) /\ j \notin DOMAIN spans
    BY MayCallIs DEF Invoke
  <1>3. runs' = [runs EXCEPT ![r] = y] /\ spans' = Child(spans, x.step, "tool")
    BY DEF Invoke
  <1> HIDE DEF y, j
  <1>4. y \in RunStates /\ {j} \cap DOMAIN spans = {} /\ Holds(y) \subseteq Holds(x) \cup {j}
    BY <1>1, <1>2 DEF OneCall
  <1>5. Moves(r, {j}) /\ runs'[r] = y
    BY <1>1, <1>3, <1>4, OneMoves
  <1> QED
    BY <1>1, <1>2, <1>3, <1>5, ChildKeeps DEF j

\* and one that is not: its span ends in the step that makes it.
LEMMA RefuseStep ==
    ASSUME TraceIInv, config' = config, NEW r \in Runs, NEW c \in DOMAIN runs[r].calls, Refuse(r, c)
    PROVE  TraceIInv'
  <1> DEFINE x == runs[r]
             j == Len(spans) + 1
             b == Begun(x, c, "tool", j)
             y == Replied(b, c, TRUE)
             z == [b.calls[c] EXCEPT !.state = "done"]
             s == Child(spans, x.step, "tool")
             H == HeldSpans
             U == HeldPairs
  <1>1. /\ x \in RunStates /\ x.pc = "tools" /\ c \notin Calling(x) /\ x.calls[c].state = "todo"
        /\ x.step \in Holds(x) /\ x.step \in DOMAIN spans /\ spans \in Seq(Spans) /\ j \in Nat /\ j \notin DOMAIN spans
        /\ Marked(spans, H, U) /\ Forest(spans, Roots) /\ MayCall(r, c)
    BY MayCallIs DEF Refuse, TraceIInv
  <1>2. OneCall(x, b, c, [state |-> "tool", span |-> j]) /\ b.fatal = x.fatal
    BY <1>1, BegunIs
  <1>3. s \in Seq(Spans) /\ Len(s) = j /\ Gains(spans, s, x.step, j) /\ Adds(spans, s, j)
    BY <1>1, ChildIs
  <1>4. runs' = [runs EXCEPT ![r] = y] /\ spans' = EndAll(Fail(s, Len(s)), {Len(s)})
    BY DEF Refuse
  <1> HIDE DEF b, s, j
  <1>5. OneCall(b, y, c, z) /\ z.state = "done" /\ y.fatal = b.fatal
    <2>1. b \in RunStates /\ b.pc = "tools" /\ c \in DOMAIN b.calls
      BY <1>2, CallChanged DEF OneCall
    <2> QED
      BY <2>1, RepliedIs
  <1> HIDE DEF y, z
  <1>6. OneCall(x, y, c, z)
    BY <1>2, <1>5 DEF OneCall
  <1>7. Calling(y) = Calling(x) /\ \A e \in DOMAIN x.calls \ {c} : y.calls[e] = x.calls[e]
    <2>1. Calling(y) = Calling(x) \ {c} /\ \A e \in DOMAIN x.calls \ {c} : y.calls[e] = x.calls[e]
      <3> HIDE DEF x
      <3> QED
        BY <1>5, <1>6, CallChanged
    <2> QED
      BY <1>1, <2>1
  <1>8. \A e \in Calling(x) : y.calls[e] = x.calls[e]
    BY <1>1, <1>7 DEF Calling
  <1>9. Holds(y) = Holds(x)
    <2>1. Holds(x) = {x.root, x.step} \cup {x.calls[e].span : e \in Calling(x)}
      BY <1>1, HoldsIs
    <2>2. Holds(y) = {x.root, x.step} \cup {y.calls[e].span : e \in Calling(y)}
      BY <1>6, HoldsIs DEF OneCall
    <2> QED
      BY <1>7, <1>8, <2>1, <2>2
  <1>10. Ordered(y)
    <2>1. Ordered(x)
      BY RunTyped
    <2> QED
      BY <1>6, <1>7, <1>8, <2>1 DEF Ordered, OneCall
  <1>11. OneByOne(y)
    BY <1>1, <1>2, <1>5, <1>6, OneByOneCalls
  <1>12. Moved(x, y)
    BY <1>1, <1>6, CallMoved
  <1>13. Moves(r, {}) /\ runs'[r] = y
    <2>1. y \in RunStates /\ {} \cap DOMAIN spans = {} /\ Holds(y) \subseteq Holds(x) \cup {}
      BY <1>6, <1>9 DEF OneCall
    <2> QED
      BY <1>4, <1>10, <1>11, <1>12, <2>1, OneMoves
  <1>14. HeldSpans' = H /\ \A h \in U : h[2] \in H => h \in HeldPairs'
    <2>1. /\ HeldSpans' = (H \ Holds(x)) \cup Holds(y)
          /\ \A h \in U : h[2] \in HeldSpans' => h \in HeldPairs'
      BY <1>13, RunsMove
    <2>2. Holds(x) \subseteq H
      BY DEF HeldSpans
    <2> QED
      BY <1>9, <2>1, <2>2
  <1>15. H \subseteq DOMAIN spans /\ \A h \in U : h[1] \in DOMAIN spans /\ h[2] \in DOMAIN spans
    BY <1>1 DEF Marked, HeldPairs
  <1> HIDE DEF H, U
  <1>16. spans' \in Seq(Spans) /\ Closes(s, spans', {} \cup {j})
    <2>1. j \in DOMAIN s
      BY <1>3 DEF Adds
    <2>2. Fail(s, j) \in Seq(Spans) /\ Closes(s, Fail(s, j), {})
      BY <1>3, <2>1, NoteIs
    <2>3. spans' = EndAll(Fail(s, j), {j})
      BY <1>3, <1>4
    <2> QED
      BY <2>2, <2>3, EndAllIs, ClosesTwice
  <1>17. Marked(s, H \cup {j}, U \cup {<<x.step, j>>}) /\ Forest(s, Roots)
    BY <1>1, <1>3, MarkedChild, ForestChild
  <1>18. \A i \in {} \cup {j}, l \in H \cup {j} : <<i, l>> \in U \cup {<<x.step, j>>} => l \in {} \cup {j}
    BY <1>1, <1>15
  <1>19. Marked(spans', (H \cup {j}) \ ({} \cup {j}), U \cup {<<x.step, j>>}) /\ Forest(spans', Roots)
    BY <1>16, <1>17, <1>18, MarkedEnd, ForestEnd
  <1>20. Marked(spans', HeldSpans', HeldPairs')
    <2>1. (H \cup {j}) \ ({} \cup {j}) = H
      BY <1>1, <1>15
    <2>2. Marked(spans', H, U \cup {<<x.step, j>>})
      BY <1>19, <2>1
    <2>3. \A h \in U \cup {<<x.step, j>>} : h[2] \in H => h \in HeldPairs'
      BY <1>1, <1>14, <1>15
    <2>4. Marked(spans', H, HeldPairs')
      BY <2>2, <2>3, MarkedMore
    <2> QED
      BY <1>14, <2>4
  <1>21. DOMAIN spans \subseteq DOMAIN spans'
    BY <1>3, <1>16 DEF Gains, Closes
  <1> QED
    BY <1>13, <1>16, <1>19, <1>20, <1>21, TraceKept

\* Call c has its answer.
LEMMA CallEnds ==
    ASSUME TraceIInv, NEW r \in Runs, NEW c \in Calling(runs[r]), NEW y, NEW z, OneCall(runs[r], y, c, z), z.state = "done"
    PROVE  LET x == runs[r]  t == runs[r].calls[c].span IN
           /\ t \in Holds(x) /\ Holds(y) = Holds(x) \ {t} /\ t # x.root /\ t # x.step /\ Ordered(y) /\ OneByOne(y)
           /\ Calling(y) = Calling(x) \ {c}
  <1> DEFINE x == runs[r]
             t == x.calls[c].span
  <1>1. x \in RunStates /\ x.pc = "tools" /\ Ordered(x) /\ OneByOne(x)
    BY RunTyped DEF OneCall
  <1>2. Calling(y) = Calling(x) \ {c} /\ DOMAIN y.calls = DOMAIN x.calls
        /\ \A e \in DOMAIN x.calls \ {c} : y.calls[e] = x.calls[e]
    BY CallChanged
  <1>3. \A e \in Calling(y) : y.calls[e] = x.calls[e] /\ e \in DOMAIN x.calls /\ e \in Calling(x)
    BY <1>2 DEF Calling
  <1>4. \A e \in Calling(x) : x.calls[e].span \in Nat /\ e \in DOMAIN x.calls /\ e \in Nat
    <2>1. x.calls \in Seq(CallStates)
      BY <1>1, Fields
    <2>2. \A e \in DOMAIN x.calls : x.calls[e] \in CallStates /\ e \in Nat
      BY <2>1
    <2> QED
      BY <2>2 DEF Calling, CallStates
  <1>5. t # x.root /\ t # x.step /\ \A e \in Calling(x) : x.calls[e].span = t => e = c
    <2>1. x.root \in Nat /\ x.step \in Nat /\ t \in Nat
      BY <1>1, <1>4, Fields
    <2>2. x.root < x.step /\ x.step < t /\ \A e \in Calling(x) : x.calls[e].span = t => e = c
      BY <1>1 DEF Ordered
    <2> HIDE DEF t
    <2> QED
      BY <2>1, <2>2
  <1>6. Holds(x) = {x.root, x.step} \cup {x.calls[e].span : e \in Calling(x)}
    BY <1>1, HoldsIs
  <1>7. Holds(y) = {x.root, x.step} \cup {y.calls[e].span : e \in Calling(y)}
    BY HoldsIs DEF OneCall
  <1>8. Holds(y) = Holds(x) \ {t} /\ t \in Holds(x)
    <2>1. \A i : i \in Holds(y) <=> i \in Holds(x) /\ i # t
      BY <1>2, <1>3, <1>5, <1>6, <1>7
    <2> QED
      BY <1>6, <2>1
  <1>9. Ordered(y)
    BY <1>1, <1>3 DEF Ordered, OneCall
  <1>10. OneByOne(y)
    <2>1. SUFFICES ASSUME ~Parallel
                   PROVE  /\ \A e, d \in DOMAIN y.calls : d < e /\ y.calls[e].state # "todo" => y.calls[d].state = "done"
                          /\ Calling(y) = {}
      BY DEF OneByOne
    <2>2. \A e, d \in DOMAIN x.calls : d < e /\ x.calls[e].state # "todo" => x.calls[d].state = "done"
      BY <1>1, <2>1 DEF OneByOne
    <2>3. y.calls[c].state = "done" /\ x.calls[c].state # "todo" /\ x.calls[c].state # "done"
      BY CallChanged DEF Calling
    <2>4. \A e, d \in DOMAIN y.calls : d < e /\ y.calls[e].state # "todo" => y.calls[d].state = "done"
      BY <1>2, <2>2, <2>3
    <2>5. ASSUME NEW e \in Calling(y) PROVE FALSE
      <3>1. e \in DOMAIN x.calls /\ e # c /\ x.calls[e].state # "todo" /\ x.calls[e].state # "done" /\ e \in Nat
        BY <1>2, <1>3, <1>4, <2>5 DEF Calling
      <3>2. e < c \/ c < e
        <4>1. c \in Nat
          BY <1>4
        <4> QED
          BY <3>1, <4>1
      <3>3. c \in DOMAIN x.calls
        BY DEF Calling
      <3> QED
        BY <2>2, <2>3, <3>1, <3>2, <3>3
    <2> QED
      BY <2>4, <2>5
  <1> QED
    BY <1>2, <1>5, <1>8, <1>9, <1>10

\* A tool returns, and a fatal error cancels the runs below the others.
LEMMA ToolReturnsStep ==
    ASSUME TraceIInv, config' = config, NEW r \in Runs, NEW c \in DOMAIN runs[r].calls, ToolReturns(r, c)
    PROVE  TraceIInv'
  <1> DEFINE x == runs[r]
             t == x.calls[c].span
             z == [x.calls[c] EXCEPT !.state = "done"]
  <1>1. PICK outcome \in {"ok", "error", "fatal"} :
          /\ spans' = EndAll(IF outcome = "ok" THEN spans ELSE Fail(spans, t), {t})
          /\ runs' = [q \in Runs |->
                IF q = r
                THEN [Replied(x, c, outcome # "ok") EXCEPT !.fatal = @ \/ outcome = "fatal"]
                ELSE [runs[q] EXCEPT !.canceled = @ \/ (outcome = "fatal" /\ q \in Below(r))]]
    BY DEF ToolReturns
  <1> DEFINE a == Replied(x, c, outcome # "ok")
             f == a.fatal \/ outcome = "fatal"
             y == [a EXCEPT !.fatal = f]
             Other(q) == [runs[q] EXCEPT !.canceled = @ \/ (outcome = "fatal" /\ q \in Below(r))]
  <1>2. x \in RunStates /\ x.pc = "tools" /\ x.calls[c].state = "tool" /\ c \in Calling(x) /\ spans \in Seq(Spans)
    BY RunTyped DEF ToolReturns, Live, Calling
  <1>3. OneCall(x, a, c, z) /\ z.state = "done"
    BY <1>2, RepliedIs
  <1>4. runs' = [q \in Runs |-> IF q = r THEN y ELSE Other(q)]
    BY <1>1
  <1> HIDE DEF a, z
  <1>5. OneCall(x, y, c, z)
    <2>1. a \in RunStates /\ f \in BOOLEAN
      BY <1>3, Fields DEF OneCall
    <2> HIDE DEF f
    <2>2. /\ y \in RunStates /\ y.pc = a.pc /\ y.root = a.root /\ y.parent = a.parent /\ y.call = a.call
          /\ y.step = a.step /\ y.calls = a.calls
      BY <2>1 DEF RunStates
    <2> QED
      BY <1>3, <2>2 DEF OneCall
  <1> HIDE DEF y
  <1>6. /\ t \in Holds(x) /\ Holds(y) = Holds(x) \ {t} /\ Ordered(y) /\ OneByOne(y)
    <2>1. c \in Calling(runs[r]) /\ OneCall(runs[r], y, c, z) /\ z.state = "done"
      BY <1>2, <1>3, <1>5
    <2> HIDE DEF z
    <2> QED
      BY <2>1, CallEnds
  <1>7. Moved(x, y)
    BY <1>2, <1>5, CallMoved
  <1>8. ASSUME NEW q \in Runs
        PROVE  Other(q) \in RunStates /\ Same(runs[q], Other(q))
    <2> DEFINE g == runs[q].canceled \/ (outcome = "fatal" /\ q \in Below(r))
               w == runs[q]
    <2>1. w \in RunStates /\ g \in BOOLEAN
      BY RunTyped, Fields
    <2>2. Other(q) = [w EXCEPT !.canceled = g]
      OBVIOUS
    <2> HIDE DEF g, w, Other
    <2>3. Other(q) \in RunStates /\ Same(w, Other(q))
      BY <2>1, <2>2 DEF RunStates, Same
    <2> QED
      BY <2>3 DEF w
  <1> HIDE DEF Other
  <1>9. Moves(r, {}) /\ runs'[r] = y
    <2>1. Runs = 1 .. Len(runs) /\ Len(runs) \in Nat
      BY HeldFacts
    <2>2. y \in RunStates
      BY <1>5 DEF OneCall
    <2>3. runs' \in Seq(RunStates) /\ Len(runs') = Len(runs)
      BY <1>4, <1>8, <2>1, <2>2
    <2>4. runs'[r] = y /\ \A q \in Runs \ {r} : runs'[q] = Other(q)
      BY <1>4
    <2>5. OneByOne(runs[r])'
      BY <1>6, <2>4 DEF OneByOne, Parallel, Calling
    <2> QED
      BY <1>6, <1>7, <1>8, <2>3, <2>4, <2>5 DEF Moves
  <1>10. spans' \in Seq(Spans) /\ Closes(spans, spans', {t})
    <2> DEFINE s == IF outcome = "ok" THEN spans ELSE Fail(spans, t)
    <2>1. t \in DOMAIN spans
      BY <1>6, RunTyped
    <2>2. s \in Seq(Spans) /\ Closes(spans, s, {})
      <3>1. CASE outcome = "ok"
        BY <1>2, <3>1 DEF Closes
      <3>2. CASE outcome # "ok"
        <4>1. s = Fail(spans, t)
          BY <3>2
        <4> HIDE DEF t, s
        <4> QED
          BY <1>2, <2>1, <4>1, NoteIs
      <3> QED
        BY <3>1, <3>2
    <2>3. spans' = EndAll(s, {t})
      BY <1>1
    <2> HIDE DEF s, t
    <2>4. spans' \in Seq(Spans) /\ Closes(s, spans', {t})
      BY <2>2, <2>3, EndAllIs
    <2>5. Closes(spans, spans', {} \cup {t})
      BY <2>2, <2>4, ClosesTwice
    <2>6. {} \cup {t} = {t}
      OBVIOUS
    <2> QED
      BY <2>4, <2>5, <2>6
  <1>11. Holds(x) \ Holds(runs'[r]) = {t}
    BY <1>6, <1>9
  <1> QED
    BY <1>9, <1>10, <1>11, EndsKeep

\* A step that only cancels runs.
LEMMA CancelStep ==
    ASSUME TraceIInv, config' = config, UNCHANGED spans,
           UNCHANGED runs \/ runs' = [q \in Runs |-> [runs[q] EXCEPT !.canceled = TRUE]]
    PROVE  TraceIInv'
  <1> DEFINE Other(q) == [runs[q] EXCEPT !.canceled = TRUE]
  <1>1. Runs = 1 .. Len(runs) /\ Len(runs) \in Nat /\ 1 \in Runs
    BY HeldFacts
  <1>2. ASSUME NEW q \in Runs
        PROVE  Other(q) \in RunStates /\ Same(runs[q], Other(q))
    <2> DEFINE w == runs[q]
    <2>1. w \in RunStates
      BY RunTyped
    <2> HIDE DEF w
    <2>2. [w EXCEPT !.canceled = TRUE] \in RunStates /\ Same(w, [w EXCEPT !.canceled = TRUE])
      BY <2>1 DEF RunStates, Same
    <2> QED
      BY <2>2 DEF w
  <1>3. runs' \in Seq(RunStates) /\ Len(runs') = Len(runs) /\ \A q \in Runs : Same(runs[q], runs'[q])
    <2>1. CASE UNCHANGED runs
      <3>1. \A q \in Runs : Same(runs[q], runs[q])
        BY DEF Same
      <3> QED
        BY <2>1, <3>1 DEF TraceIInv, TraceTypeOK
    <2>2. CASE runs' = [q \in Runs |-> Other(q)]
      <3> HIDE DEF Other
      <3>1. runs' \in Seq(RunStates) /\ Len(runs') = Len(runs)
        BY <1>1, <1>2, <2>2
      <3> QED
        BY <1>2, <2>2, <3>1
    <2> QED
      BY <2>1, <2>2
  <1>4. Holds(runs'[1]) = Holds(runs[1]) /\ Ordered(runs'[1]) /\ \A i, j : Under(runs'[1], i, j) <=> Under(runs[1], i, j)
    BY <1>1, <1>3, SameHolds, RunTyped
  <1>5. Moved(runs[1], runs'[1])
    <2>1. runs[1].pc # "returned" /\ Same(runs[1], runs'[1])
      BY <1>1, <1>3 DEF TraceIInv, Waiting
    <2> QED
      BY <1>4, <2>1 DEF Same, Moved
  <1>6. OneByOne(runs[1])'
    <2>1. Same(runs[1], runs'[1]) /\ OneByOne(runs[1])
      BY <1>1, <1>3, RunTyped
    <2> QED
      BY <2>1 DEF Same, OneByOne, Calling, Parallel
  <1>7. Moves(1, {})
    BY <1>3, <1>4, <1>5, <1>6 DEF Moves
  <1>8. Closes(spans, spans', Holds(runs[1]) \ Holds(runs'[1])) /\ spans' \in Seq(Spans)
    BY <1>4 DEF Closes, TraceIInv, TraceTypeOK
  <1> QED
    BY <1>1, <1>7, <1>8, EndsKeep

\* A subagent starts: the run of a new trace, waited for by the call.
LEMMA InvokeSubStep ==
    ASSUME TraceIInv, config' = config, NEW r \in Runs, NEW c \in DOMAIN runs[r].calls, InvokeSub(r, c)
    PROVE  TraceIInv'
  <1> DEFINE x == runs[r]
             j == Len(spans) + 1
             k == Len(spans) + 2
             m == Len(runs) + 1
             y == Begun(x, c, "sub", j)
             w == NewRun(k, r, c, x.canceled \/ x.fatal)
             t == Child(spans, x.step, "tool")
             H == HeldSpans
             U == HeldPairs
  <1>1. /\ x \in RunStates /\ x.pc = "tools" /\ x.calls[c].state = "todo" /\ x.step \in Holds(x)
        /\ x.step \in DOMAIN spans /\ spans \in Seq(Spans) /\ j \in Nat /\ j \notin DOMAIN spans
        /\ Marked(spans, H, U) /\ Forest(spans, Roots)
    BY MayCallIs DEF InvokeSub, TraceIInv
  <1>2. /\ OneCall(x, y, c, [state |-> "sub", span |-> j])
        /\ Holds(y) = Holds(x) \cup {j} /\ Ordered(y) /\ OneByOne(y) /\ Moved(x, y) /\ Under(y, x.step, j)
    BY CallBegins DEF InvokeSub
  <1>3. runs' = Append([runs EXCEPT ![r] = y], w) /\ spans' = Append(t, NewSpan("run"))
    BY DEF InvokeSub
  <1>4. k \in Nat /\ k \notin DOMAIN spans /\ j < k /\ j # k
    BY <1>1
  <1>5. t \in Seq(Spans) /\ Len(t) + 1 = k /\ Gains(spans, t, x.step, j) /\ Adds(spans, t, j)
    <2>1. t \in Seq(Spans) /\ Len(t) = Len(spans) + 1 /\ Gains(spans, t, x.step, j) /\ Adds(spans, t, j)
      BY <1>1, ChildIs
    <2>2. Len(spans) \in Nat
      BY <1>1
    <2> QED
      BY <2>1, <2>2
  <1> HIDE DEF t
  <1>6. spans' \in Seq(Spans) /\ Adds(t, spans', k) /\ \A i \in DOMAIN t : spans'[i] = t[i]
    BY <1>3, <1>5, SpanAdded
  <1>7. /\ Runs = 1 .. Len(runs) /\ Len(runs) \in Nat \ {0} /\ m \in Nat /\ m \notin Runs /\ 1 \in Runs
        /\ r \in 1 .. m - 1 /\ r \in Nat /\ runs \in Seq(RunStates) /\ c \in Nat
    <2>1. x.calls \in Seq(CallStates)
      BY <1>1, Fields
    <2>2. c \in Nat
      BY <2>1
    <2> QED
      BY <2>2, HeldFacts DEF TraceIInv, TraceTypeOK
  <1>8. /\ w \in RunStates /\ w.pc = "loop" /\ w.root = k /\ w.parent = r /\ w.call = c
    <2>1. Repairs \in Nat /\ <<>> \in Seq(CallStates) /\ Nothing \in Ledgers /\ NoSpan \in Nat
      BY TraceAssumption DEF Nothing, Ledgers, NoSpan
    <2>2. (x.canceled \/ x.fatal) \in BOOLEAN
      OBVIOUS
    <2> QED
      BY <1>4, <1>7, <2>1, <2>2 DEF NewRun, RunStates
  <1> HIDE DEF w, y
  <1>9. Holds(w) = {k} /\ Ordered(w) /\ OneByOne(w) /\ \A h, i : ~Under(w, h, i)
    BY <1>8, HoldsIs DEF Ordered, OneByOne, Under
  <1>10. /\ runs' \in Seq(RunStates) /\ Runs' = Runs \cup {m} /\ runs'[m] = w /\ runs'[r] = y
         /\ \A q \in Runs \ {r} : runs'[q] = runs[q]
    <2> DEFINE f == [runs EXCEPT ![r] = y]
    <2>1. f \in Seq(RunStates) /\ Len(f) = Len(runs) /\ f[r] = y /\ \A q \in Runs \ {r} : f[q] = runs[q]
      BY <1>2, <1>7 DEF OneCall, Runs
    <2>2. runs' = Append(f, w)
      BY <1>3
    <2> HIDE DEF f
    <2>3. runs' \in Seq(RunStates) /\ Len(runs') = m /\ runs'[m] = w /\ \A q \in 1 .. Len(runs) : runs'[q] = f[q]
      BY <1>7, <1>8, <2>1, <2>2
    <2>4. DOMAIN runs' = 1 .. m /\ 1 .. m = (1 .. Len(runs)) \cup {m}
      BY <1>7, <2>3
    <2> QED
      BY <1>7, <2>1, <2>3, <2>4 DEF Runs
  <1>11. \A q \in Runs : /\ runs'[q].root = runs[q].root /\ runs'[q].parent = runs[q].parent
                         /\ runs'[q].call = runs[q].call /\ (runs'[q].pc = "returned" <=> runs[q].pc = "returned")
    BY <1>2, <1>10 DEF Moved
  <1> HIDE DEF j, k, m
  <1>12. HeldSpans' = (H \cup {j}) \cup {k}
    <2>1. \A i : i \in HeldSpans' <=> \E q \in Runs \cup {m} : i \in Holds(runs'[q])
      BY <1>10 DEF HeldSpans
    <2>2. \A i : i \in H <=> \E q \in Runs : i \in Holds(runs[q])
      BY DEF HeldSpans
    <2>3. \A q \in Runs : Holds(runs'[q]) = IF q = r THEN Holds(runs[q]) \cup {j} ELSE Holds(runs[q])
      BY <1>2, <1>10
    <2>4. Holds(runs'[m]) = {k}
      BY <1>9, <1>10
    <2> HIDE DEF H
    <2>5. \A i : i \in HeldSpans' <=> i \in (H \cup {j}) \cup {k}
      BY <2>1, <2>2, <2>3, <2>4
    <2> QED
      BY <2>5
  <1>13. ASSUME NEW q \in Runs, NEW h, NEW i, Under(runs'[q], h, i)
         PROVE  <<h, i>> \in HeldPairs'
    <2>1. h \in HeldSpans' /\ i \in HeldSpans'
      BY <1>10, <1>13 DEF Under, HeldSpans
    <2> QED
      BY <1>10, <1>13, <2>1 DEF HeldPairs
  <1>14. <<x.step, j>> \in HeldPairs'
    BY <1>2, <1>10, <1>13
  <1>15. ASSUME NEW h \in U
         PROVE  h \in HeldPairs'
    <2>1. PICK q \in Runs : Under(runs[q], h[1], h[2])
      BY HeldFacts
    <2>2. Under(runs'[q], h[1], h[2])
      <3>1. CASE q # r
        BY <1>10, <2>1, <3>1
      <3>2. CASE q = r
        BY <1>2, <1>10, <2>1, <3>2 DEF Moved, Under
      <3> QED
        BY <3>1, <3>2
    <2>3. h = <<h[1], h[2]>>
      BY DEF HeldPairs
    <2> QED
      BY <1>13, <2>2, <2>3
  <1>16. Apart'
    <2>1. \A e, q \in Runs : e # q => /\ runs[e].root # runs[q].root /\ runs[e].root \notin Holds(runs[q])
                                     /\ Holds(runs[e]) \cap Holds(runs[q]) = {}
      BY DEF TraceIInv, Apart
    <2>2. \A e \in Runs : runs[e].root \in DOMAIN spans /\ Holds(runs[e]) \subseteq DOMAIN spans
      BY RunTyped
    <2>3. \A e, q \in Runs : e # q => /\ runs'[e].root # runs'[q].root /\ runs'[e].root \notin Holds(runs'[q])
                                     /\ Holds(runs'[e]) \cap Holds(runs'[q]) = {}
      <3>1. \A e \in Runs \ {r} : Holds(runs'[e]) = Holds(runs[e])
        BY <1>10
      <3>2. Holds(runs'[r]) = Holds(runs[r]) \cup {j}
        BY <1>2, <1>10
      <3>3. \A e, q \in Runs : e # q => Holds(runs'[e]) \cap Holds(runs'[q]) = {}
        BY <1>1, <2>1, <2>2, <3>1, <3>2
      <3>4. \A e, q \in Runs : e # q => runs'[e].root \notin Holds(runs'[q])
        BY <1>1, <1>11, <2>1, <2>2, <3>1, <3>2
      <3> QED
        BY <1>11, <2>1, <3>3, <3>4
    <2>4. \A e \in Runs : runs'[e].root # k /\ k \notin Holds(runs'[e])
      BY <1>2, <1>4, <1>10, <1>11, <2>2
    <2>5. runs'[m].root = k /\ Holds(runs'[m]) = {k}
      BY <1>8, <1>9, <1>10
    <2>6. \A e, q \in Runs \cup {m} : e # q => /\ runs'[e].root # runs'[q].root /\ runs'[e].root \notin Holds(runs'[q])
                                              /\ Holds(runs'[e]) \cap Holds(runs'[q]) = {}
      BY <2>3, <2>4, <2>5
    <2> QED
      BY <1>10, <2>6 DEF Apart
  <1>17. Waiting'
    <2>1. /\ runs[1].parent = 0 /\ runs[1].pc # "returned"
          /\ \A q \in Runs \ {1} : runs[q].pc # "returned" =>
                /\ runs[q].parent \in 1 .. q - 1 /\ WaitsFor(runs[runs[q].parent], runs[q])
                /\ \A e \in Runs \ {1, q} : runs[e].pc # "returned" =>
                      <<runs[q].parent, runs[q].call>> # <<runs[e].parent, runs[e].call>>
      BY DEF TraceIInv, Waiting
    <2>2. runs'[1].parent = 0 /\ runs'[1].pc # "returned"
      BY <1>7, <1>11, <2>1
    <2>3. ASSUME NEW q \in Runs \ {1}, runs[q].pc # "returned"
          PROVE  runs[q].parent \in Runs /\ <<runs[q].parent, runs[q].call>> # <<r, c>>
                 /\ WaitsFor(runs'[runs[q].parent], runs'[q])
      <3>1. runs[q].parent \in 1 .. q - 1 /\ WaitsFor(runs[runs[q].parent], runs[q])
        BY <2>1, <2>3
      <3>2. runs[q].parent \in Runs
        BY <1>7, <3>1
      <3>3. <<runs[q].parent, runs[q].call>> # <<r, c>>
        BY <1>1, <3>1 DEF WaitsFor
      <3>4. WaitsFor(runs'[runs[q].parent], runs'[q])
        <4>1. CASE runs[q].parent = r
          BY <1>1, <1>2, <1>10, <1>11, <3>1, <4>1 DEF WaitsFor, Moved
        <4>2. CASE runs[q].parent # r
          BY <1>10, <1>11, <3>1, <3>2, <4>2 DEF WaitsFor
        <4> QED
          BY <4>1, <4>2
      <3> QED
        BY <3>2, <3>3, <3>4
    <2>4. WaitsFor(y, w)
      <3>1. c \in DOMAIN y.calls /\ y.calls[c] = [state |-> "sub", span |-> j]
        BY <1>2, CallChanged
      <3> QED
        BY <1>2, <1>4, <1>8, <3>1 DEF WaitsFor, OneCall
    <2>5. ASSUME NEW q \in (Runs \cup {m}) \ {1}, runs'[q].pc # "returned"
          PROVE  /\ runs'[q].parent \in 1 .. q - 1 /\ WaitsFor(runs'[runs'[q].parent], runs'[q])
                 /\ \A e \in (Runs \cup {m}) \ {1, q} : runs'[e].pc # "returned" =>
                       <<runs'[q].parent, runs'[q].call>> # <<runs'[e].parent, runs'[e].call>>
      <3>1. CASE q = m
        <4>1. runs'[q].parent = r /\ runs'[q].call = c /\ WaitsFor(runs'[r], runs'[q]) /\ r \in 1 .. q - 1
          BY <1>7, <1>8, <1>10, <2>4, <3>1
        <4>2. ASSUME NEW e \in Runs \ {1}, runs'[e].pc # "returned"
              PROVE  <<r, c>> # <<runs'[e].parent, runs'[e].call>>
          BY <1>11, <2>3, <4>2
        <4> QED
          BY <3>1, <4>1, <4>2
      <3>2. CASE q \in Runs \ {1}
        <4>1. runs[q].pc # "returned" /\ runs'[q].parent = runs[q].parent /\ runs'[q].call = runs[q].call
          BY <1>11, <2>5, <3>2
        <4>2. runs'[q].parent \in 1 .. q - 1
          BY <2>1, <3>2, <4>1
        <4>3. WaitsFor(runs'[runs'[q].parent], runs'[q]) /\ <<runs[q].parent, runs[q].call>> # <<r, c>>
          BY <2>3, <3>2, <4>1
        <4>4. \A e \in Runs \ {1, q} : runs'[e].pc # "returned" =>
                 <<runs'[q].parent, runs'[q].call>> # <<runs'[e].parent, runs'[e].call>>
          BY <1>11, <2>1, <3>2, <4>1
        <4>5. runs'[m].parent = r /\ runs'[m].call = c
          BY <1>8, <1>10
        <4> QED
          BY <4>1, <4>2, <4>3, <4>4, <4>5
      <3> QED
        BY <2>5, <3>1, <3>2
    <2> QED
      BY <1>10, <2>2, <2>5 DEF Waiting
  <1>18. Roots' = Roots \cup {k}
    <2>1. \A i : i \in Roots' <=> \E q \in Runs \cup {m} : runs'[q].pc # "returned" /\ i = runs'[q].root
      BY <1>10 DEF Roots
    <2>2. \A i : i \in Roots <=> \E q \in Runs : runs[q].pc # "returned" /\ i = runs[q].root
      BY DEF Roots
    <2>3. runs'[m].pc # "returned" /\ runs'[m].root = k
      BY <1>8, <1>10
    <2>4. \A i : i \in Roots' <=> i \in Roots \cup {k}
      BY <1>11, <2>1, <2>2, <2>3
    <2> QED
      BY <2>4
  <1>19. ASSUME NEW q \in Runs'
         PROVE  (runs[q].root \in DOMAIN spans /\ Ordered(runs[q]) /\ OneByOne(runs[q]))'
    <2>1. DOMAIN spans \subseteq DOMAIN spans' /\ k \in DOMAIN spans'
      BY <1>5, <1>6 DEF Adds
    <2>2. CASE q = m
      BY <1>8, <1>9, <1>10, <2>1, <2>2 DEF OneByOne, Calling, Parallel
    <2>3. CASE q = r
      <3>1. runs'[q] = y /\ runs'[q].root \in DOMAIN spans'
        BY <1>10, <1>11, <2>1, <2>3, RunTyped
      <3> QED
        BY <1>2, <3>1 DEF OneByOne, Calling, Parallel
    <2>4. CASE q \in Runs \ {r}
      <3>1. runs'[q] = runs[q] /\ runs[q].root \in DOMAIN spans /\ Ordered(runs[q]) /\ OneByOne(runs[q])
        BY <1>10, <2>4, RunTyped
      <3> QED
        BY <2>1, <3>1 DEF OneByOne, Calling, Parallel
    <2> QED
      BY <1>10, <2>2, <2>3, <2>4
  <1>20. runs'[1].root = 1
    BY <1>7, <1>11 DEF TraceIInv
  <1>21. TraceTypeOK'
    <2>1. runs' # <<>>
      BY <1>7, <1>10 DEF Runs
    <2> QED
      BY <1>6, <1>10, <2>1 DEF TraceIInv, TraceTypeOK
  <1> HIDE DEF H, U
  <1>22. Marked(t, H \cup {j}, U \cup {<<x.step, j>>}) /\ Forest(t, Roots)
    BY <1>1, <1>5, MarkedChild, ForestChild
  <1>23. Marked(spans', (H \cup {j}) \cup {k}, U \cup {<<x.step, j>>}) /\ Forest(spans', Roots \cup {k})
    BY <1>6, <1>22, MarkedRoot, ForestRoot
  <1>24. Marked(spans', HeldSpans', HeldPairs')
    <2>1. Marked(spans', HeldSpans', U \cup {<<x.step, j>>})
      BY <1>12, <1>23
    <2>2. \A h \in U \cup {<<x.step, j>>} : h[2] \in HeldSpans' => h \in HeldPairs'
      BY <1>14, <1>15
    <2> QED
      BY <2>1, <2>2, MarkedMore
  <1>25. Forest(spans', Roots')
    BY <1>18, <1>23
  <1> QED
    BY <1>16, <1>17, <1>19, <1>20, <1>21, <1>24, <1>25 DEF TraceIInv

\* It returns: its trace, which has ended, becomes part of that of its caller.
LEMMA SubReturnsStep ==
    ASSUME TraceIInv, config' = config, NEW q \in Runs, SubReturns(q)
    PROVE  TraceIInv'
  <1> DEFINE w == runs[q]
             p == w.parent
             c == w.call
             x == runs[p]
             t == x.calls[c].span
             y == Replied(x, c, w.failed)
             v == [w EXCEPT !.pc = "returned"]
             z == [x.calls[c] EXCEPT !.state = "done"]
             g == Graft(spans, t, w.root)
             H == HeldSpans
             U == HeldPairs
  <1>1. /\ runs[1].parent = 0 /\ runs[1].pc # "returned"
        /\ \A e \in Runs \ {1} : runs[e].pc # "returned" =>
              /\ runs[e].parent \in 1 .. e - 1 /\ WaitsFor(runs[runs[e].parent], runs[e])
              /\ \A f \in Runs \ {1, e} : runs[f].pc # "returned" =>
                    <<runs[e].parent, runs[e].call>> # <<runs[f].parent, runs[f].call>>
    BY DEF TraceIInv, Waiting
  <1>2. /\ w \in RunStates /\ w.pc = "done" /\ w.root \in DOMAIN spans /\ spans \in Seq(Spans) /\ w.root \in Nat
        /\ q # 1 /\ Marked(spans, H, U) /\ Forest(spans, Roots)
    BY <1>1, RunTyped DEF SubReturns, Live, TraceIInv
  <1>3. /\ p \in 1 .. q - 1 /\ WaitsFor(x, w)
        /\ \A f \in Runs \ {1, q} : runs[f].pc # "returned" => <<p, c>> # <<runs[f].parent, runs[f].call>>
    BY <1>1, <1>2
  <1>4. p \in Runs /\ p # q /\ Runs = 1 .. Len(runs) /\ Len(runs) \in Nat \ {0} /\ 1 \in Runs /\ runs \in Seq(RunStates)
    BY <1>3, HeldFacts DEF TraceIInv, TraceTypeOK
  <1>5. /\ x \in RunStates /\ x.pc = "tools" /\ c \in DOMAIN x.calls /\ x.calls[c].state = "sub" /\ t < w.root
        /\ c \in Calling(x)
    BY <1>3, <1>4, RunTyped DEF WaitsFor, Calling
  <1>6. OneCall(x, y, c, z) /\ z.state = "done"
    BY <1>5, RepliedIs
  <1>7. /\ spans' = EndAll(IF w.failed THEN Fail(g, t) ELSE g, {t})
        /\ runs' = [runs EXCEPT ![p] = y, ![q].pc = "returned"]
    BY DEF SubReturns
  <1> HIDE DEF y, z, g
  <1>8. /\ t \in Holds(x) /\ Holds(y) = Holds(x) \ {t} /\ t # x.root /\ t # x.step /\ Ordered(y) /\ OneByOne(y)
    <2>1. c \in Calling(runs[p]) /\ OneCall(runs[p], y, c, z) /\ z.state = "done" /\ p \in Runs
      BY <1>4, <1>5, <1>6
    <2> HIDE DEF p, c
    <2> QED
      BY <2>1, CallEnds
  <1>9. v \in RunStates /\ v.pc = "returned" /\ v.root = w.root /\ v.parent = w.parent /\ v.call = w.call
    BY <1>2 DEF RunStates
  <1>10. /\ runs' \in Seq(RunStates) /\ Len(runs') = Len(runs) /\ runs'[p] = y /\ runs'[q] = v
         /\ \A e \in Runs \ {p, q} : runs'[e] = runs[e]
    <2> DEFINE f == [runs EXCEPT ![p] = y]
    <2>1. y \in RunStates
      BY <1>6 DEF OneCall
    <2>2. f \in Seq(RunStates) /\ Len(f) = Len(runs) /\ f[p] = y /\ \A e \in Runs \ {p} : f[e] = runs[e]
      BY <1>4, <2>1 DEF Runs
    <2>3. runs' = [f EXCEPT ![q] = [f[q] EXCEPT !.pc = "returned"]]
      BY <1>7
    <2>4. [f[q] EXCEPT !.pc = "returned"] = v
      BY <1>4, <2>2
    <2> HIDE DEF f, v, p
    <2>5. runs' = [f EXCEPT ![q] = v] /\ q \in DOMAIN f
      <3>1. DOMAIN f = 1 .. Len(f)
        BY <2>2
      <3>2. q \in DOMAIN f
        BY <1>4, <2>2, <3>1
      <3> QED
        BY <2>3, <2>4, <3>2
    <2> QED
      BY <1>4, <1>9, <2>2, <2>5
  <1> HIDE DEF v
  <1>11. Runs' = Runs /\ Holds(w) = {} /\ Holds(runs'[q]) = {} /\ Ordered(v) /\ OneByOne(v)
    BY <1>2, <1>4, <1>9, <1>10, HoldsIs DEF Runs, Ordered, OneByOne
  <1>12. \A e \in Runs : /\ runs'[e].root = runs[e].root /\ runs'[e].parent = runs[e].parent
                         /\ runs'[e].call = runs[e].call
                         /\ (runs'[e].pc = "returned" <=> runs[e].pc = "returned" \/ e = q)
    BY <1>4, <1>6, <1>9, <1>10 DEF OneCall
  <1>13. \A e, f \in Runs : e # f => /\ runs[e].root # runs[f].root /\ runs[e].root \notin Holds(runs[f])
                                   /\ Holds(runs[e]) \cap Holds(runs[f]) = {}
    BY DEF TraceIInv, Apart
  <1>14. \A e \in Runs : Holds(runs'[e]) = Holds(runs[e]) \ {t}
    <2>1. \A e \in Runs \ {p} : t \notin Holds(runs[e])
      BY <1>4, <1>8, <1>13
    <2>2. ASSUME NEW e \in Runs PROVE Holds(runs'[e]) = Holds(runs[e]) \ {t}
      <3>1. CASE e = p
        BY <1>8, <1>10, <3>1
      <3>2. CASE e = q
        BY <1>11, <3>2
      <3>3. CASE e \in Runs \ {p, q}
        BY <1>10, <2>1, <3>3
      <3> QED
        BY <3>1, <3>2, <3>3
    <2> QED
      BY <2>2
  <1>15. HeldSpans' = H \ {t}
    <2>1. \A i : i \in HeldSpans' <=> \E e \in Runs : i \in Holds(runs'[e])
      BY <1>11 DEF HeldSpans
    <2>2. \A i : i \in H <=> \E e \in Runs : i \in Holds(runs[e])
      BY DEF HeldSpans
    <2> HIDE DEF H
    <2>3. \A i : i \in HeldSpans' <=> i \in H \ {t}
      BY <1>14, <2>1, <2>2
    <2> QED
      BY <2>3
  <1>16. ASSUME NEW h \in U, h[2] \in HeldSpans'
         PROVE  h \in HeldPairs'
    <2>1. PICK e \in Runs : Under(runs[e], h[1], h[2])
      BY HeldFacts
    <2>2. Under(runs'[e], h[1], h[2])
      <3>1. CASE e = p
        <4>1. h[2] \in Holds(y) /\ x.root \in Holds(y) /\ x.step \in Holds(y)
          <5>1. h[2] # t
            BY <1>15, <1>16
          <5>2. x.root \in Holds(x) /\ x.step \in Holds(x)
            BY <1>5, HoldsIs
          <5> QED
            BY <1>8, <2>1, <3>1, <5>1, <5>2 DEF Under
        <4>2. Under(y, h[1], h[2])
          BY <1>6, <2>1, <3>1, <4>1 DEF Under, OneCall
        <4> QED
          BY <1>10, <3>1, <4>2
      <3>2. CASE e = q
        BY <1>11, <2>1, <3>2 DEF Under
      <3>3. CASE e \in Runs \ {p, q}
        BY <1>10, <2>1, <3>3
      <3> QED
        BY <3>1, <3>2, <3>3
    <2>3. h[1] \in HeldSpans' /\ h[2] \in HeldSpans'
      BY <1>11, <2>2 DEF HeldSpans, Under
    <2>4. h = <<h[1], h[2]>>
      BY DEF HeldPairs
    <2>5. <<h[1], h[2]>> \in HeldPairs'
      BY <1>11, <2>2, <2>3 DEF HeldPairs
    <2> QED
      BY <2>4, <2>5
  <1>17. Apart'
    <2>1. \A e, f \in Runs : e # f => /\ runs'[e].root # runs'[f].root /\ runs'[e].root \notin Holds(runs'[f])
                                    /\ Holds(runs'[e]) \cap Holds(runs'[f]) = {}
      BY <1>12, <1>13, <1>14
    <2> QED
      BY <1>11, <2>1 DEF Apart
  <1>18. Waiting'
    <2>1. runs'[1].parent = 0 /\ runs'[1].pc # "returned"
      BY <1>1, <1>2, <1>4, <1>12
    <2>2. ASSUME NEW e \in Runs \ {1}, runs'[e].pc # "returned"
          PROVE  /\ runs'[e].parent \in 1 .. e - 1 /\ WaitsFor(runs'[runs'[e].parent], runs'[e])
                 /\ \A f \in Runs \ {1, e} : runs'[f].pc # "returned" =>
                       <<runs'[e].parent, runs'[e].call>> # <<runs'[f].parent, runs'[f].call>>
      <3>1. /\ runs[e].pc # "returned" /\ e # q /\ runs'[e].parent = runs[e].parent /\ runs'[e].call = runs[e].call
            /\ runs'[e].root = runs[e].root
        BY <1>12, <2>2
      <3>2. runs[e].parent \in 1 .. e - 1 /\ WaitsFor(runs[runs[e].parent], runs[e])
        BY <1>1, <3>1
      <3>3. \A f \in Runs \ {1, e} : runs'[f].pc # "returned" =>
               <<runs'[e].parent, runs'[e].call>> # <<runs'[f].parent, runs'[f].call>>
        BY <1>1, <1>12, <3>1
      <3>4. runs[e].parent \in Runs
        BY <1>4, <3>2
      <3>5. WaitsFor(runs'[runs[e].parent], runs'[e])
        <4>1. CASE runs[e].parent = p
          <5>1. runs[e].call # c
            BY <1>3, <3>1, <4>1
          <5>2. \A d \in DOMAIN x.calls \ {c} : y.calls[d] = x.calls[d] /\ d \in DOMAIN y.calls
            <6> HIDE DEF x, c
            <6> QED
              BY <1>6, CallChanged
          <5>3. y.pc = "tools" /\ runs'[p] = y
            BY <1>6, <1>10 DEF OneCall
          <5>4. WaitsFor(x, runs[e])
            BY <3>2, <4>1
          <5>5. WaitsFor(y, runs'[e])
            <6> HIDE DEF x, c
            <6> QED
              BY <3>1, <5>1, <5>2, <5>3, <5>4 DEF WaitsFor
          <5> QED
            BY <4>1, <5>3, <5>5
        <4>2. CASE runs[e].parent = q
          BY <1>2, <3>2, <4>2 DEF WaitsFor
        <4>3. CASE runs[e].parent \in Runs \ {p, q}
          <5>1. runs'[runs[e].parent] = runs[runs[e].parent]
            BY <1>10, <4>3
          <5> QED
            BY <3>1, <3>2, <5>1 DEF WaitsFor
        <4> QED
          BY <3>4, <4>1, <4>2, <4>3
      <3> QED
        BY <3>1, <3>2, <3>3, <3>5
    <2> QED
      BY <1>11, <2>1, <2>2 DEF Waiting
  <1>19. Roots' = Roots \ {w.root} /\ w.root \in Roots
    <2>1. \A i : i \in Roots' <=> \E e \in Runs : runs'[e].pc # "returned" /\ i = runs'[e].root
      BY <1>11 DEF Roots
    <2>2. \A i : i \in Roots <=> \E e \in Runs : runs[e].pc # "returned" /\ i = runs[e].root
      BY DEF Roots
    <2>3. \A i : i \in Roots' <=> i \in Roots \ {w.root}
      BY <1>12, <1>13, <2>1, <2>2
    <2>4. w.root \in Roots
      BY <1>2, <2>2
    <2> QED
      BY <2>3, <2>4
  <1>20. t \in DOMAIN spans /\ w.root \notin H
    <2>1. t \in DOMAIN spans
      BY <1>4, <1>8, RunTyped
    <2>2. \A e \in Runs : w.root \notin Holds(runs[e])
      BY <1>11, <1>13
    <2> QED
      BY <2>1, <2>2 DEF HeldSpans
  <1>21. \A i \in {t}, j \in H : <<i, j>> \in U => j \in {t}
    <2>1. ASSUME NEW j \in H, <<t, j>> \in U PROVE FALSE
      <3>1. PICK e \in Runs : Under(runs[e], t, j)
        BY <2>1 DEF HeldPairs
      <3>2. e = p
        BY <1>4, <1>8, <1>13, <3>1 DEF Under
      <3> QED
        BY <1>8, <3>1, <3>2 DEF Under
    <2> QED
      BY <2>1
  <1> DEFINE b == IF w.failed THEN Fail(g, t) ELSE g
  <1>22. /\ g \in Seq(Spans) /\ DOMAIN g = DOMAIN spans /\ Gains(spans, g, t, w.root)
         /\ spans' \in Seq(Spans) /\ Closes(g, spans', {t}) /\ DOMAIN spans' = DOMAIN spans
    <2>1. g = [spans EXCEPT ![t].kids = Append(@, w.root)]
      BY DEF Graft, g
    <2> HIDE DEF t, w
    <2>2. g \in Seq(Spans) /\ DOMAIN g = DOMAIN spans /\ Gains(spans, g, t, w.root)
      BY <1>2, <1>20, <2>1, KidAdded
    <2>3. b \in Seq(Spans) /\ Closes(g, b, {})
      <3>1. CASE ~w.failed
        BY <2>2, <3>1 DEF Closes
      <3>2. CASE w.failed
        <4>1. b = Fail(g, t) /\ t \in DOMAIN g
          BY <1>20, <2>2, <3>2
        <4> HIDE DEF b
        <4> QED
          BY <2>2, <4>1, NoteIs
      <3> QED
        BY <3>1, <3>2
    <2>4. spans' = EndAll(b, {t})
      BY <1>7 DEF t, w
    <2> HIDE DEF b
    <2>5. spans' \in Seq(Spans) /\ Closes(b, spans', {t})
      BY <2>3, <2>4, EndAllIs
    <2>6. Closes(g, spans', {} \cup {t}) /\ {} \cup {t} = {t}
      BY <2>3, <2>5, ClosesTwice
    <2>7. DOMAIN spans' = DOMAIN spans /\ Closes(g, spans', {t})
      BY <2>2, <2>6 DEF Closes
    <2> QED
      BY <2>2, <2>5, <2>7
  <1>23. ASSUME NEW e \in Runs'
         PROVE  (runs[e].root \in DOMAIN spans /\ Ordered(runs[e]) /\ OneByOne(runs[e]))'
    <2>1. runs'[e].root \in DOMAIN spans'
      BY <1>11, <1>12, <1>22, RunTyped
    <2>2. CASE e = p
      BY <1>8, <1>10, <2>1, <2>2 DEF OneByOne, Calling, Parallel
    <2>3. CASE e = q
      BY <1>10, <1>11, <2>1, <2>3 DEF OneByOne, Calling, Parallel
    <2>4. CASE e \in Runs \ {p, q}
      <3>1. runs'[e] = runs[e] /\ Ordered(runs[e]) /\ OneByOne(runs[e])
        BY <1>10, <2>4, RunTyped
      <3> QED
        BY <2>1, <3>1 DEF OneByOne, Calling, Parallel
    <2> QED
      BY <1>11, <2>2, <2>3, <2>4
  <1>24. runs'[1].root = 1
    BY <1>4, <1>12 DEF TraceIInv
  <1>25. TraceTypeOK'
    <2>1. runs' # <<>>
      BY <1>4, <1>11 DEF Runs
    <2> QED
      BY <1>10, <1>22, <2>1 DEF TraceIInv, TraceTypeOK
  <1> HIDE DEF H, U, t, w
  <1>26. Marked(g, H, U) /\ Forest(g, Roots \ {w.root})
    <2>1. w.root > t
      BY <1>5
    <2> QED
      BY <1>2, <1>19, <1>20, <1>22, <2>1, MarkedGraft, ForestGraft
  <1>27. Marked(spans', H \ {t}, U) /\ Forest(spans', Roots \ {w.root})
    BY <1>21, <1>22, <1>26, MarkedEnd, ForestEnd
  <1>28. Marked(spans', HeldSpans', HeldPairs')
    <2>1. Marked(spans', HeldSpans', U)
      BY <1>15, <1>27
    <2> QED
      BY <1>16, <2>1, MarkedMore
  <1>29. Forest(spans', Roots')
    BY <1>19, <1>27
  <1> QED
    BY <1>17, <1>18, <1>23, <1>24, <1>25, <1>28, <1>29 DEF TraceIInv

\* One run, which holds its root.
LEMMA TraceInit == InitTrace => TraceIInv
  <1> SUFFICES ASSUME InitTrace
               PROVE  TraceIInv
    OBVIOUS
  <1> DEFINE w == NewRun(1, 0, 0, FALSE)
             u == NewSpan("run")
  <1>1. config \in Configs /\ spans = <<u>> /\ runs = <<w>>
    BY DEF InitTrace
  <1>2. w \in RunStates /\ w.pc = "loop" /\ w.root = 1 /\ w.parent = 0
    <2>1. Repairs \in Nat /\ <<>> \in Seq(CallStates) /\ Nothing \in Ledgers /\ NoSpan \in Nat
      BY TraceAssumption DEF Nothing, Ledgers, NoSpan
    <2> QED
      BY <2>1 DEF NewRun, RunStates
  <1>3. u \in Spans /\ u.open /\ u.kids = <<>>
    BY DEF NewSpan, Spans
  <1> HIDE DEF w, u
  <1>4. spans \in Seq(Spans) /\ runs \in Seq(RunStates) /\ DOMAIN spans = {1} /\ Runs = {1} /\ runs # <<>>
        /\ spans[1] = u /\ runs[1] = w
    BY <1>1, <1>2, <1>3 DEF Runs
  <1>5. Holds(w) = {1} /\ Ordered(w) /\ OneByOne(w)
    BY <1>2, HoldsIs DEF Ordered, OneByOne
  <1>6. HeldSpans = {1} /\ Roots = {1}
    BY <1>2, <1>4, <1>5 DEF HeldSpans, Roots
  <1>7. Marked(spans, HeldSpans, HeldPairs) /\ Forest(spans, Roots)
    BY <1>3, <1>4, <1>6 DEF Marked, Forest
  <1>8. Apart /\ Waiting
    BY <1>2, <1>4 DEF Apart, Waiting
  <1> QED
    BY <1>1, <1>2, <1>4, <1>5, <1>7, <1>8 DEF TraceIInv, TraceTypeOK

\* The inductive invariant of traces: the spans that are open are exactly those that the runs
\* hold, and the traces of subagents that have not returned are trees of their own.
THEOREM TraceInvariantHolds == TraceSpec => []TraceIInv
  <1>1. TraceIInv /\ [NextTrace]_traceVars => TraceIInv'
    <2> SUFFICES ASSUME TraceIInv, [NextTrace]_traceVars
                 PROVE  TraceIInv'
      OBVIOUS
    <2>1. CASE UNCHANGED traceVars
      BY <2>1, CancelStep DEF traceVars
    <2>2. ASSUME config' = config, NEW r \in Runs, Loop(r)
          PROVE  TraceIInv'
      <3>1. CASE StopAtTop(r)
        BY <2>2, <3>1, StopAtTopStep
      <3>2. CASE OutOfSteps(r)
        BY <2>2, <3>2, OutOfStepsStep
      <3>3. CASE StartCompaction(r)
        BY <2>2, <3>3, StartCompactionStep
      <3>4. CASE FinishCompaction(r)
        BY <2>2, <3>4, FinishCompactionStep
      <3>5. CASE OpenStep(r)
        BY <2>2, <3>5, OpenStepStep
      <3>6. CASE ModelFails(r)
        BY <2>2, <3>6, ModelFailsStep
      <3>7. CASE Answer(r)
        BY <2>2, <3>7, AnswerStep
      <3>8. CASE BadAnswer(r)
        BY <2>2, <3>8, BadAnswerStep
      <3>9. CASE AskForTools(r)
        BY <2>2, <3>9, AskForToolsStep
      <3>10. CASE EndStep(r)
        BY <2>2, <3>10, EndStepStep
      <3>11. CASE SubReturns(r)
        BY <2>2, <3>11, SubReturnsStep
      <3> QED
        BY <2>2, <3>1, <3>2, <3>3, <3>4, <3>5, <3>6, <3>7, <3>8, <3>9, <3>10, <3>11 DEF Loop
    <2>3. ASSUME config' = config, NEW r \in Runs, NEW c \in DOMAIN runs[r].calls, Tools(r, c)
          PROVE  TraceIInv'
      <3>1. CASE Refuse(r, c)
        BY <2>3, <3>1, RefuseStep
      <3>2. CASE Invoke(r, c)
        BY <2>3, <3>2, InvokeStep
      <3>3. CASE ToolReturns(r, c)
        BY <2>3, <3>3, ToolReturnsStep
      <3>4. CASE InvokeSub(r, c)
        BY <2>3, <3>4, InvokeSubStep
      <3> QED
        BY <2>3, <3>1, <3>2, <3>3, <3>4 DEF Tools
    <2>4. CASE config' = config /\ (Cancel \/ Returned)
      BY <2>4, CancelStep DEF Cancel, Returned
    <2> QED
      BY <2>1, <2>2, <2>3, <2>4 DEF NextTrace
  <1> QED
    BY <1>1, TraceInit, PTL DEF TraceSpec

\* When the caller's run is over, so are those of all subagents: the first one that is not
\* would be waited for by an earlier run that is not over either.
LEMMA AllReturned ==
    ASSUME TraceIInv, runs[1].pc = "done"
    PROVE  HeldSpans = {} /\ Roots = {1}
  <1>1. Runs = 1 .. Len(runs) /\ Len(runs) \in Nat \ {0} /\ 1 \in Runs /\ Waiting /\ runs[1].root = 1
    BY HeldFacts DEF TraceIInv
  <1> DEFINE T == {q \in Runs \ {1} : runs[q].pc # "returned"}
  <1>2. ASSUME T # {} PROVE FALSE
    <2>1. T \subseteq Nat
      BY <1>1
    <2>2. PICK m \in T : \A e \in T : m <= e
      BY <1>2, <2>1, LeastOf
    <2>3. runs[m].parent \in 1 .. m - 1 /\ runs[runs[m].parent].pc = "tools"
      BY <1>1, <2>2 DEF Waiting, WaitsFor
    <2>4. runs[m].parent \in T
      BY <1>1, <2>3
    <2>5. m \in Nat /\ m <= runs[m].parent
      BY <2>1, <2>2, <2>4
    <2> QED
      BY <2>3, <2>5
  <1>3. \A q \in Runs : runs[q].pc \in {"done", "returned"} /\ (q = 1 <=> runs[q].pc # "returned")
    BY <1>1, <1>2
  <1>4. \A q \in Runs : Holds(runs[q]) = {}
    BY <1>3, RunTyped, HoldsIs
  <1> QED
    BY <1>1, <1>3, <1>4 DEF HeldSpans, Roots

\* Traces are whole: below a span that has ended none is open, whatever the runs do and in
\* whatever order; and when the caller's run has returned all spans have ended and are in
\* its trace, once (run.go, subagent.go, trace.go).
THEOREM SpansStayEnclosed == TraceSpec => []SpansEnclosed
  <1>1. TraceIInv => SpansEnclosed
    <2> SUFFICES ASSUME TraceIInv PROVE SpansEnclosed
      OBVIOUS
    <2>1. Marked(spans, HeldSpans, HeldPairs) /\ Forest(spans, Roots)
      BY DEF TraceIInv
    <2>2. ASSUME NEW i \in DOMAIN spans, Ended(i), NEW k \in DOMAIN spans[i].kids
          PROVE  Ended(spans[i].kids[k])
      <3>1. spans[i].kids[k] \in DOMAIN spans
        BY <2>1 DEF Forest
      <3>2. spans[i].kids[k] \in HeldSpans => i \in HeldSpans
        BY <2>1 DEF Marked, HeldPairs
      <3> QED
        BY <2>1, <2>2, <3>1, <3>2 DEF Marked, Ended
    <2>3. ASSUME Live(1, "done"), NEW i \in DOMAIN spans
          PROVE  /\ Ended(i)
                 /\ i # 1 => \E p \in 1 .. i - 1 : \E k \in DOMAIN spans[p].kids :
                                \A q \in DOMAIN spans : \A l \in DOMAIN spans[q].kids :
                                    IsChild(q, l, i) <=> q = p /\ l = k
      <3>1. HeldSpans = {} /\ Roots = {1}
        BY <2>3, AllReturned DEF Live
      <3>2. Ended(i)
        BY <2>1, <3>1 DEF Marked, Ended
      <3>3. ASSUME i # 1
            PROVE  \E p \in 1 .. i - 1 : \E k \in DOMAIN spans[p].kids :
                      \A q \in DOMAIN spans : \A l \in DOMAIN spans[q].kids : IsChild(q, l, i) <=> q = p /\ l = k
        <4>0. PICK p \in DOMAIN spans : \E k \in DOMAIN spans[p].kids : spans[p].kids[k] = i
          BY <2>1, <3>1, <3>3 DEF Forest
        <4>1. PICK k \in DOMAIN spans[p].kids : spans[p].kids[k] = i
          BY <4>0
        <4>2. p < i /\ \A q \in DOMAIN spans : \A l \in DOMAIN spans[q].kids : spans[q].kids[l] = i => q = p /\ l = k
          BY <2>1, <4>1 DEF Forest
        <4>3. DOMAIN spans = 1 .. Len(spans) /\ Len(spans) \in Nat
          BY HeldFacts
        <4>4. p \in 1 .. i - 1
          BY <4>2, <4>3
        <4>5. \A q \in DOMAIN spans : \A l \in DOMAIN spans[q].kids : IsChild(q, l, i) <=> q = p /\ l = k
          BY <4>1, <4>2 DEF IsChild
        <4> QED
          BY <4>4, <4>5
      <3> QED
        BY <3>2, <3>3
    <2> QED
      BY <2>2, <2>3 DEF SpansEnclosed
  <1> QED
    BY <1>1, TraceInvariantHolds, PTL

=============================================================================
