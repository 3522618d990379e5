---------------------------- MODULE ModelClient ----------------------------
(***************************************************************************)
(* The HTTP client of the openai package: the retry loop of do, its waits, *)
(* and the limit on concurrent requests, for goroutines that share one     *)
(* Client.  Streams (openSSE) use the same endpoint.                       *)
(*                                                                         *)
(* Durations are integers; a sleep ends at some time, so only the length   *)
(* that was asked for is recorded.  A response is one of the classes that  *)
(* do tells apart.                                                         *)
(***************************************************************************)
EXTENDS Integers, Sequences, FiniteSets

CONSTANTS
    Callers,        \* goroutines that call Generate once
    Streamers,      \* goroutines that call Stream once
    MaxConcurrency, \* WithMaxConcurrency; 0 is no limit
    Base, Cap,      \* Backoff.Base and Backoff.Cap
    MaxRetries,     \* Backoff.MaxRetries
    Jitter,         \* Backoff.Jitter
    Hints           \* what parseRetryAfter may return, absurd values included

ASSUME CallersAssumption == IsFiniteSet(Callers) /\ Callers \cap Streamers = {}
ASSUME LimitAssumption == MaxConcurrency \in Nat /\ MaxRetries \in Nat
ASSUME BackoffAssumption == Base \in Nat \ {0} /\ Cap \in Nat \ {0} /\ Jitter \in BOOLEAN
ASSUME HintsAssumption == Hints \subseteq Int

VARIABLES
    pc,         \* "idle", "slot", "send" (a request is in flight), "backoff", "stream", "done"
    ctx,        \* the caller's context was canceled
    sem,        \* who holds a slot
    attempt,    \* do's loop variable
    prev,       \* the last computed wait, the seed of the next
    waits,      \* history variable: the waits before the attempts so far
    result      \* "none", "ok", "rejected", "exhausted" or "canceled"

vars == <<pc, ctx, sem, attempt, prev, waits, result>>

Everyone == Callers \cup Streamers

Init ==
    /\ pc = [c \in Everyone |-> "idle"]
    /\ ctx = [c \in Everyone |-> FALSE]
    /\ sem = {}
    /\ attempt = [c \in Callers |-> 0]
    /\ prev = [c \in Callers |-> Base]
    /\ waits = [c \in Callers |-> <<>>]
    /\ result = [c \in Everyone |-> "none"]

-----------------------------------------------------------------------------
(* nextWait                                                                *)

AtMost(limit, d) == IF d > limit THEN limit ELSE d

\* What 3 * prev leaves to choose from, at least Base itself.
JitterRange(p) == Base .. (IF 3 * p > Base THEN 3 * p ELSE Base)

\* The waits that may follow p, in the absence of a hint.
NextWaits(p) ==
    IF Jitter THEN {AtMost(Cap, d) : d \in JitterRange(p)}
    ELSE {AtMost(Cap, IF p <= Base THEN Base ELSE 2 * p)}

\* A mutant of Override: the hint is taken as it is.
OverrideUnclamped(h) == h

\* The wait a Retry-After asks for, 0 for none.
Override(h) == IF h > 0 THEN AtMost(Cap, h) ELSE 0

-----------------------------------------------------------------------------
(* do                                                                      *)

Limited == MaxConcurrency > 0

Call(c) ==
    /\ pc[c] = "idle"
    /\ pc' = [pc EXCEPT ![c] = "slot"]
    /\ UNCHANGED <<ctx, sem, attempt, prev, waits, result>>

\* c.sem <- struct{}{}, and the first request goes out.
TakeSlot(c) ==
    /\ pc[c] = "slot"
    /\ Limited => Cardinality(sem) < MaxConcurrency
    /\ sem' = IF Limited THEN sem \cup {c} ELSE sem
    /\ pc' = [pc EXCEPT ![c] = "send"]
    /\ UNCHANGED <<ctx, attempt, prev, waits, result>>

\* A mutant of Finish: the slot is given back on success only.
FinishKeepsSlot(c, r) ==
    /\ pc' = [pc EXCEPT ![c] = "done"]
    /\ result' = [result EXCEPT ![c] = r]
    /\ sem' = IF r = "ok" THEN sem \ {c} ELSE sem

\* do returns; the deferred receive frees the slot.
Finish(c, r) ==
    /\ pc' = [pc EXCEPT ![c] = "done"]
    /\ result' = [result EXCEPT ![c] = r]
    /\ sem' = sem \ {c}

NoSlot(c) ==
    /\ pc[c] = "slot" /\ Limited /\ ctx[c]
    /\ Finish(c, "canceled")
    /\ UNCHANGED <<ctx, attempt, prev, waits>>

\* A 2xx with valid JSON, or a status that is not worth a retry.
Conclusive(c) ==
    /\ pc[c] = "send"
    /\ \E r \in {"ok", "rejected"} : Finish(c, r)
    /\ UNCHANGED <<ctx, attempt, prev, waits>>

\* A network error (a canceled request included), a truncated 2xx, a 429 or a
\* 5xx: wait and try again, as a hint says or else as nextWait does.
Retry(c) ==
    /\ pc[c] = "send"
    /\ \/ /\ attempt[c] = MaxRetries
          /\ Finish(c, "exhausted")
          /\ UNCHANGED <<attempt, prev, waits>>
       \/ /\ attempt[c] < MaxRetries
          /\ attempt' = [attempt EXCEPT ![c] = @ + 1]
          /\ \/ \E h \in Hints :
                   /\ Override(h) > 0
                   /\ waits' = [waits EXCEPT ![c] = Append(@, Override(h))]
                   /\ UNCHANGED prev
             \/ \E w \in NextWaits(prev[c]) :
                   /\ prev' = [prev EXCEPT ![c] = w]
                   /\ waits' = [waits EXCEPT ![c] = Append(@, w)]
          /\ pc' = [pc EXCEPT ![c] = "backoff"]
          /\ UNCHANGED <<sem, result>>
    /\ UNCHANGED ctx

\* The select of the wait: the timer or the context.
Backoff(c) ==
    /\ pc[c] = "backoff"
    /\ \/ pc' = [pc EXCEPT ![c] = "send"] /\ UNCHANGED <<sem, result>>
       \/ ctx[c] /\ Finish(c, "canceled")
    /\ UNCHANGED <<ctx, attempt, prev, waits>>

-----------------------------------------------------------------------------
(* Stream                                                                  *)

\* openSSE: the request goes out at once.
OpenStream(c) ==
    /\ pc[c] = "idle"
    /\ pc' = [pc EXCEPT ![c] = "stream"]
    /\ UNCHANGED <<ctx, sem, attempt, prev, waits, result>>

\* It is refused, or read to its end.
EndStream(c) ==
    /\ pc[c] = "stream"
    /\ \E r \in {"ok", "rejected"} : result' = [result EXCEPT ![c] = r]
    /\ pc' = [pc EXCEPT ![c] = "done"]
    /\ UNCHANGED <<ctx, sem, attempt, prev, waits>>

Cancel(c) ==
    /\ ~ctx[c] /\ pc[c] \in {"slot", "send", "backoff", "stream"}
    /\ ctx' = [ctx EXCEPT ![c] = TRUE]
    /\ UNCHANGED <<pc, sem, attempt, prev, waits, result>>

Idle == (\A c \in Everyone : pc[c] = "done") /\ UNCHANGED vars

CallStep(c) == NoSlot(c) \/ Conclusive(c) \/ Retry(c) \/ Backoff(c)

Next ==
    \/ \E c \in Callers : Call(c) \/ TakeSlot(c) \/ CallStep(c)
    \/ \E c \in Streamers : OpenStream(c) \/ EndStream(c)
    \/ \E c \in Everyone : Cancel(c)
    \/ Idle

Spec == Init /\ [][Next]_vars

\* Requests end (http.Client has a timeout), timers fire, and a goroutine that
\* waits on a channel gets its turn: senders queue in the order they came.
FairSpec ==
    /\ Spec
    /\ \A c \in Callers : WF_vars(CallStep(c)) /\ SF_vars(TakeSlot(c))

-----------------------------------------------------------------------------
(* Properties                                                              *)

\* TypeOK: the shape of the state.
TypeOK ==
    /\ pc \in [Everyone -> {"idle", "slot", "send", "backoff", "stream", "done"}]
    /\ ctx \in [Everyone -> BOOLEAN]
    /\ sem \in SUBSET Callers
    /\ attempt \in [Callers -> 0 .. MaxRetries]
    /\ prev \in [Callers -> Nat]
    /\ waits \in [Callers -> Seq(Nat)]
    /\ result \in [Everyone -> {"none", "ok", "rejected", "exhausted", "canceled"}]

\* "A request holds one slot for the whole of its retry sequence" (openai.go),
\* and no longer, however it ends; so callers are never more than the slots.
SlotsExact ==
    Limited => /\ sem = {c \in Callers : pc[c] \in {"send", "backoff"}}
               /\ Cardinality(sem) <= MaxConcurrency

\* No wait is longer than the ceiling, whatever the hint says; none is shorter
\* than the floor unless a hint says so.
WaitsInRange ==
    \A c \in Callers : \A k \in 1 .. Len(waits[c]) :
        /\ waits[c][k] <= Cap
        /\ waits[c][k] >= AtMost(Cap, Base) \/ waits[c][k] \in Hints

\* Transient failures are reported only after the initial attempt and exactly
\* MaxRetries retries.
GivesUpLast == \A c \in Callers : result[c] = "exhausted" => Len(waits[c]) = MaxRetries

\* Every call returns: slots come free, also those of calls that are given up.
CallsReturn == \A c \in Callers : (pc[c] = "slot") ~> (pc[c] = "done")

-----------------------------------------------------------------------------
(* The inductive invariant                                                 *)

\* Each attempt after the first was preceded by one wait.
AttemptsCounted ==
    \A c \in Callers :
        /\ Len(waits[c]) = attempt[c]
        /\ pc[c] \in {"idle", "slot"} => attempt[c] = 0

IInv ==
    /\ TypeOK
    /\ SlotsExact
    /\ AttemptsCounted
    /\ WaitsInRange
    /\ GivesUpLast

=============================================================================
