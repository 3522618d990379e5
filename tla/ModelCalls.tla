---------------------------- MODULE ModelCalls ----------------------------
(***************************************************************************)
(* The calls to endpoints.  For a step's call of its model (generate in    *)
(* run.go), Config.Stream decides between Generate, whose callers share    *)
(* the client's slots and retries, and a stream, of which one is followed  *)
(* frame by frame; the jev client has an endpoint of its own.  In a        *)
(* behaviour only the use that was chosen happens.                         *)
(***************************************************************************)
EXTENDS MC_ModelClient, Stream, Decisions

VARIABLE use        \* "generate", "stream" or "decide"

callVars == <<use, vars, streamVars, decideVars>>

ChooseCalls ==
    /\ use \in {"generate", "stream", "decide"}
    /\ Init
    /\ InitStream
    /\ InitDecisions
    /\ use # "stream" => api = "chat" /\ reply = CHOOSE r \in Replies : TRUE
    /\ use # "decide" => retries = 0

Generating == use = "generate" /\ Next /\ UNCHANGED <<use, streamVars, decideVars>>

Streaming == use = "stream" /\ NextStream /\ UNCHANGED <<use, vars, decideVars>>

Deciding == use = "decide" /\ NextDecisions /\ UNCHANGED <<use, vars, streamVars>>

\* As in ModelClient and Stream; a request to the jev endpoint ends, and timers fire.
CallsSpec ==
    /\ ChooseCalls /\ [][Generating \/ Streaming \/ Deciding]_callVars
    /\ \A c \in Callers :
          WF_vars(use = "generate" /\ CallStep(c)) /\ SF_vars(use = "generate" /\ TakeSlot(c))
    /\ WF_streamVars(use = "stream" /\ (RecvEOF \/ RecvError))
    /\ \A d \in Deciders : WF_decideVars(use = "decide" /\ (Post(d) \/ Wait(d)))

-----------------------------------------------------------------------------

\* Retries wait as they are meant to, whatever an endpoint says: those of the model client
\* between floor and ceiling (nextWait and Retry-After in openai.go), those of the jev client
\* as often as WithMaxRetries says and together no longer than a doubling allows (jev.go).
WaitsBounded == WaitsInRange /\ RetriesMade

\* Every call returns, through retries, waits for a slot and cancels (do in openai.go and in
\* jev.go).
EveryCallReturns == CallsReturn /\ DecideReturns

=============================================================================
