------------------------------- MODULE Stream -------------------------------
(***************************************************************************)
(* A streamed completion: Recv and finalChunk of openai/stream.go (Chat    *)
(* Completions) and openai/responses_stream.go (Responses), read to the end*)
(* by generateStream of run.go.                                            *)
(*                                                                         *)
(* The server is external.  For Chat Completions it has a reply and sends  *)
(* it in pieces, in any order that keeps the pieces of one text, and the   *)
(* first frames of the tool calls, in sequence.  For Responses the reply   *)
(* comes whole in the last frame; deltas come before it, as many as the    *)
(* server likes, and need not be what the reply holds.  The body may end   *)
(* or break anywhere.  A text is the sequence of its pieces.  Blank lines, *)
(* comments and frames that do not parse are skipped by Recv and left out  *)
(* here, as are a response's id and model name.                            *)
(***************************************************************************)
EXTENDS Integers, Sequences

CONSTANTS
    MaxText,        \* bound: pieces of text in a reply, and text deltas
    MaxReasoning,   \* bound: the same for reasoning
    MaxCalls,       \* bound: tool calls
    MaxArgs,        \* bound: pieces of the arguments of a call
    Finishes        \* the finish reasons of the provider

ASSUME BoundsAssumption == {MaxText, MaxReasoning, MaxCalls, MaxArgs} \subseteq Nat

VARIABLES
    api,        \* Client.useResponses: "chat" or "responses"
    reply,      \* what the server has to say
    sent,       \* how much was sent in pieces
    body,       \* the response body: "open", "ended" or "broken"
    acc,        \* what the chat stream has accumulated
    done,       \* stream.done, respStream.done
    deltas,     \* TextDeltaEvents
    thoughts,   \* ReasoningDeltaEvents
    final,      \* generateStream's final
    outcome     \* "none" while generateStream runs, then "ok" or "error"

hostVars == <<deltas, thoughts, final, outcome>>
streamVars == <<api, reply, sent, body, acc, done, hostVars>>

Calls == 1 .. MaxCalls

Pieces(n) == [k \in 1 .. n |-> k]
NoCall == [id |-> 0, args |-> <<>>]
NoFinish == ""      \* the finish reason before the provider names one
NoResponse == [text |-> <<>>, reasoning |-> <<>>, calls |-> <<>>, stop |-> "none", usage |-> 0]

Replies ==
    [text : 0 .. MaxText, reasoning : 0 .. MaxReasoning,
     args : UNION {[1 .. n -> 0 .. MaxArgs] : n \in 0 .. MaxCalls},
     finish : Finishes, usage : 0 .. 1]

-----------------------------------------------------------------------------
(* A response                                                              *)

mapStop(f) == IF f = "function_call" THEN "tool_calls"
              ELSE IF f \in {"stop", "tool_calls", "length", "content_filter"} THEN f
              ELSE "stop"

respStop(calls) == IF calls = <<>> THEN "stop" ELSE "tool_calls"

ReplyCalls == [c \in 1 .. Len(reply.args) |-> [id |-> c, args |-> Pieces(reply.args[c])]]

\* parseRespMessage: the items of the output in a Responses reply.
parseRespMessage ==
    [text |-> Pieces(reply.text), reasoning |-> Pieces(reply.reasoning), calls |-> ReplyCalls,
     stop |-> respStop(ReplyCalls), usage |-> reply.usage]

\* assistantText: the content or, if there is none and no call, the reasoning.
assistantText(text, reasoning, calls) ==
    IF text = <<>> /\ calls = <<>> THEN reasoning ELSE text

\* What Generate makes of the same reply when it is not streamed.
Generated ==
    IF api = "responses" THEN parseRespMessage
    ELSE [text |-> assistantText(Pieces(reply.text), Pieces(reply.reasoning), ReplyCalls),
          reasoning |-> Pieces(reply.reasoning), calls |-> ReplyCalls,
          stop |-> mapStop(reply.finish), usage |-> reply.usage]

-----------------------------------------------------------------------------
(* The server                                                              *)

InitStream ==
    /\ api \in {"chat", "responses"}
    /\ reply \in Replies
    /\ sent = [text |-> 0, reasoning |-> 0, args |-> [c \in Calls |-> -1],
               finish |-> FALSE, usage |-> 0, last |-> FALSE]
    /\ body = "open"
    /\ acc = [text |-> <<>>, reasoning |-> <<>>, toolCalls |-> [c \in Calls |-> NoCall],
              order |-> <<>>, finish |-> NoFinish, usage |-> 0]
    /\ done = FALSE
    /\ deltas = <<>> /\ thoughts = <<>>
    /\ final = NoResponse
    /\ outcome = "none"

\* A data frame: a piece of text, one of reasoning and one of a call (0: none of
\* that), the finish reason and the usage.
Frames == [text : 0 .. 1, reasoning : 0 .. 1, call : 0 .. MaxCalls, finish : BOOLEAN, usage : 0 .. 1]

\* The first frame of a call names it; each further one has a piece of arguments.
SentAfter(f) ==
    [text |-> sent.text + f.text, reasoning |-> sent.reasoning + f.reasoning,
     args |-> [c \in Calls |-> sent.args[c] + (IF f.call = c THEN 1 ELSE 0)],
     finish |-> sent.finish \/ f.finish, usage |-> sent.usage + f.usage, last |-> FALSE]

ContentSent(s) ==
    /\ s.text = reply.text /\ s.reasoning = reply.reasoning
    /\ \A c \in 1 .. Len(reply.args) : s.args[c] = reply.args[c]

Reading == body = "open" /\ outcome = "none" /\ ~sent.last

\* A chat server may send f: the finish reason and the usage come with the last
\* piece or after it.
MaySend(f) ==
    /\ Reading
    /\ SentAfter(f) # sent
    /\ SentAfter(f).text <= reply.text
    /\ SentAfter(f).reasoning <= reply.reasoning
    /\ SentAfter(f).usage <= reply.usage
    /\ f.call # 0 =>
          /\ f.call <= Len(reply.args)
          /\ sent.args[f.call] < reply.args[f.call]
          /\ f.call > 1 => sent.args[f.call - 1] >= 0
    /\ (f.finish \/ f.usage = 1) => ContentSent(SentAfter(f))
    /\ f.finish => ~sent.finish

\* The body ends, after the last frame or before it, or reading it fails: the
\* connection is lost, a line is too long, the context is canceled.
BodyEnds(how) ==
    /\ body = "open" /\ outcome = "none"
    /\ body' = how
    /\ UNCHANGED <<api, reply, sent, acc, done, hostVars>>

-----------------------------------------------------------------------------
(* Recv of the chat stream                                                 *)

\* A mutant of Merge: arguments are replaced, not appended.
MergeReplaces(calls, c, first, piece) ==
    [calls EXCEPT ![c] = [id |-> IF first THEN c ELSE calls[c].id,
                          args |-> IF first THEN calls[c].args ELSE <<piece>>]]

\* A delta of call c: its identity if the frame has one, its arguments appended.
Merge(calls, c, first, piece) ==
    [calls EXCEPT ![c] = [id |-> IF first THEN c ELSE calls[c].id,
                          args |-> IF first THEN calls[c].args ELSE Append(calls[c].args, piece)]]

Extend(s, more, piece) == IF more = 1 THEN Append(s, piece) ELSE s

InOrder(c) == \E k \in 1 .. Len(acc.order) : acc.order[k] = c

RecvChat(f) ==
    /\ api = "chat" /\ MaySend(f)
    /\ sent' = SentAfter(f)
    /\ acc' = [text |-> Extend(acc.text, f.text, sent.text + 1),
               reasoning |-> Extend(acc.reasoning, f.reasoning, sent.reasoning + 1),
               toolCalls |-> IF f.call = 0 THEN acc.toolCalls
                             ELSE Merge(acc.toolCalls, f.call, sent.args[f.call] = -1,
                                        sent.args[f.call] + 1),
               order |-> IF f.call = 0 \/ InOrder(f.call) THEN acc.order
                         ELSE Append(acc.order, f.call),
               finish |-> IF f.finish THEN reply.finish ELSE acc.finish,
               usage |-> IF f.usage = 1 THEN reply.usage ELSE acc.usage]
    /\ deltas' = Extend(deltas, f.text, sent.text + 1)
    /\ thoughts' = Extend(thoughts, f.reasoning, sent.reasoning + 1)
    /\ UNCHANGED <<api, reply, body, done, final, outcome>>

\* finalChunk: the response assembled from what has arrived.
ChatFinal ==
    LET calls == [k \in 1 .. Len(acc.order) |-> acc.toolCalls[acc.order[k]]]
    IN  [text |-> assistantText(acc.text, acc.reasoning, calls),
         reasoning |-> acc.reasoning, calls |-> calls,
         stop |-> mapStop(acc.finish), usage |-> acc.usage]

-----------------------------------------------------------------------------
(* Recv of the Responses stream                                            *)

\* Deltas are shown and not kept: nothing ties them to the reply.
RecvDelta(f) ==
    /\ api = "responses" /\ Reading
    /\ f.text + f.reasoning = 1 /\ f.call = 0 /\ ~f.finish /\ f.usage = 0
    /\ SentAfter(f).text <= MaxText /\ SentAfter(f).reasoning <= MaxReasoning
    /\ sent' = SentAfter(f)
    /\ deltas' = Extend(deltas, f.text, sent.text + 1)
    /\ thoughts' = Extend(thoughts, f.reasoning, sent.reasoning + 1)
    /\ UNCHANGED <<api, reply, body, acc, done, final, outcome>>

\* finalChunk: what response.completed holds; finalChunk(nil) parses an empty
\* response.
RespFinal(completed) ==
    IF completed THEN parseRespMessage ELSE [NoResponse EXCEPT !.stop = respStop(<<>>)]

\* "error" or "response.failed": Recv fails, and generateStream with it.
RecvFailed ==
    /\ api = "responses" /\ Reading
    /\ outcome' = "error"
    /\ UNCHANGED <<api, reply, sent, body, acc, done, deltas, thoughts, final>>

-----------------------------------------------------------------------------
(* The end of either stream                                                *)

\* A mutant of FinalChunk: done is not set.
FinalChunkAgain(r) ==
    /\ final' = r
    /\ UNCHANGED <<done, outcome>>

\* finalChunk, as generateStream sees it: the first time a chunk with the
\* response, later io.EOF, on which generateStream returns what it has.
FinalChunk(r) ==
    \/ /\ ~done
       /\ done' = TRUE
       /\ final' = r
       /\ UNCHANGED outcome
    \/ /\ done
       /\ outcome' = IF final = NoResponse THEN "error" ELSE "ok"
       /\ UNCHANGED <<done, final>>

\* [DONE] after a whole chat reply, or response.completed (or incomplete).
RecvLast ==
    /\ Reading
    /\ api = "chat" => ContentSent(sent) /\ sent.finish /\ sent.usage = reply.usage
    /\ sent' = [sent EXCEPT !.last = TRUE]
    /\ FinalChunk(IF api = "chat" THEN ChatFinal ELSE RespFinal(TRUE))
    /\ UNCHANGED <<api, reply, body, acc, deltas, thoughts>>

\* The [DONE] that a server may send after response.completed.
RecvDone ==
    /\ api = "responses" /\ body = "open" /\ outcome = "none" /\ sent.last
    /\ FinalChunk(RespFinal(FALSE))
    /\ UNCHANGED <<api, reply, sent, body, acc, deltas, thoughts>>

\* Scan reports the end of the body.
RecvEOF ==
    /\ body = "ended" /\ outcome = "none"
    /\ FinalChunk(IF api = "chat" THEN ChatFinal ELSE RespFinal(FALSE))
    /\ UNCHANGED <<api, reply, sent, body, acc, deltas, thoughts>>

\* Scan fails, also after the final chunk: generateStream returns the error.
RecvError ==
    /\ body = "broken" /\ outcome = "none"
    /\ outcome' = "error"
    /\ UNCHANGED <<api, reply, sent, body, acc, done, deltas, thoughts, final>>

Returned == outcome # "none" /\ UNCHANGED streamVars

Recv == RecvFailed \/ RecvLast \/ RecvDone \/ RecvEOF \/ RecvError \/ (\E f \in Frames : RecvChat(f) \/ RecvDelta(f))

NextStream == Recv \/ (\E how \in {"ended", "broken"} : BodyEnds(how)) \/ Returned

StreamSpec == InitStream /\ [][NextStream]_streamVars

\* The reading goroutine is scheduled.  Nothing makes the server send or end.
FairStream == StreamSpec /\ WF_streamVars(RecvEOF \/ RecvError)

-----------------------------------------------------------------------------
(* Properties                                                              *)

\* StreamTypeOK: the shape of the state.
StreamTypeOK ==
    /\ api \in {"chat", "responses"} /\ reply \in Replies
    /\ body \in {"open", "ended", "broken"} /\ outcome \in {"none", "ok", "error"}
    /\ done \in BOOLEAN
    /\ acc.text \in Seq(Nat) /\ acc.order \in Seq(Calls)

\* Stream in place of Generate makes no difference to a reply that arrived whole
\* (rimeno.StreamingModel).  A chat stream assembles what Generate would have
\* returned, in whatever frames and with the calls' pieces interleaved, and what
\* the host was shown is what is recorded, also by a stream that ended early: the
\* text deltas add up to the text of the response, or there were none and the text
\* is the reasoning.  A Responses stream keeps the reply of its completed frame
\* through the [DONE] and the end of the body that follow; whether its deltas were
\* that reply is up to the server.
SameAsGenerate ==
    outcome = "ok" =>
        /\ sent.last => final = Generated
        /\ api = "chat" =>
              /\ thoughts = final.reasoning
              /\ \/ deltas = final.text
                 \/ deltas = <<>> /\ final.calls = <<>> /\ final.text = thoughts

\* generateStream reads on after the final chunk; once the body is over, it
\* returns.
StreamEnds == (body # "open") ~> (outcome # "none")

-----------------------------------------------------------------------------
(* The inductive invariant                                                 *)

SentStates ==
    [text : Nat, reasoning : Nat, args : [Calls -> Int], finish : BOOLEAN, usage : Nat, last : BOOLEAN]

\* A chat server sends nothing but its reply.
SentWithin ==
    /\ sent \in SentStates
    /\ \A c \in Calls : sent.args[c] >= -1
    /\ api = "chat" =>
          /\ sent.text <= reply.text /\ sent.reasoning <= reply.reasoning /\ sent.usage <= reply.usage
          /\ \A c \in Calls :
                sent.args[c] >= 0 => c <= Len(reply.args) /\ sent.args[c] <= reply.args[c]

\* The host was shown what was sent.
Shown == deltas = Pieces(sent.text) /\ thoughts = Pieces(sent.reasoning)

\* The chat stream has put together what was sent.
Accumulated ==
    /\ acc.text = deltas /\ acc.reasoning = thoughts
    /\ acc.toolCalls = [c \in Calls |-> IF sent.args[c] = -1 THEN NoCall
                                        ELSE [id |-> c, args |-> Pieces(sent.args[c])]]
    /\ \E n \in 0 .. MaxCalls : acc.order = Pieces(n) /\ \A c \in Calls : sent.args[c] >= 0 <=> c <= n
    /\ acc.finish = IF sent.finish THEN reply.finish ELSE NoFinish
    /\ acc.usage = IF sent.usage = 1 THEN reply.usage ELSE 0

\* The last frame of a chat stream comes when the rest was sent; the last frame, or the end of
\* the body, makes the final chunk, and no other replaces it.
FinalMade ==
    /\ sent.last => /\ done
                    /\ api = "chat" => ContentSent(sent) /\ sent.finish /\ sent.usage = reply.usage
    /\ done => sent.last \/ body # "open"
    /\ done /\ api = "chat" => final = ChatFinal
    /\ sent.last /\ api = "responses" => final = RespFinal(TRUE)
    /\ outcome = "ok" => done

StreamIInv ==
    /\ StreamTypeOK
    /\ SentWithin
    /\ Shown
    /\ api = "chat" => Accumulated
    /\ FinalMade
=============================================================================
