------------------------------ MODULE Decisions ------------------------------
(***************************************************************************)
(* The client of the jev protocol (jev/jev.go): Decide posts a request and *)
(* tries again after failures that may pass, waiting twice as long before  *)
(* each further attempt.  What is asked and answered is left out.          *)
(***************************************************************************)
EXTENDS Integers, Sequences, Functions

CONSTANTS
    Deciders,       \* concurrent calls of Decide
    RetryCounts,    \* what WithMaxRetries may set
    FirstWait       \* Client.backoff

ASSUME DecisionsAssumption == RetryCounts \subseteq Int /\ FirstWait \in Nat \ {0}

VARIABLES
    retries,        \* Client.maxRetries
    decide          \* of each call: where it is, its waits so far, and what it returned

decideVars == <<retries, decide>>

InitDecisions ==
    /\ retries \in RetryCounts
    /\ decide = [d \in Deciders |-> [pc |-> "idle", canceled |-> FALSE, waits |-> <<>>, result |-> "none"]]

\* No connection, a 2xx whose body is cut off or is not JSON, a 429, a 5xx.
Transient == {"network", "cut", "garbled", "throttled", "fault"}

\* Answers, JSON that is not a Response, and any other status.
Final == {"answers", "undecodable", "refused"}

Returns(d, r) == decide' = [decide EXCEPT ![d].pc = "done", ![d].result = r]

\* Decide: without questions or an address it fails; with a negative number of retries do
\* posts nothing, returns no body, and that cannot be decoded.
Decide(d) ==
    /\ decide[d].pc = "idle"
    /\ \/ Returns(d, "invalid")
       \/ retries < 0 /\ Returns(d, "undecodable")
       \/ retries >= 0 /\ decide' = [decide EXCEPT ![d].pc = "post"]
    /\ UNCHANGED retries

\* The backoff, shifted left by n.
Doubled[n \in Nat] == IF n = 0 THEN FirstWait ELSE 2 * Doubled[n - 1]

\* The wait before attempt n + 1.
WaitBefore(n) == Doubled[n - 1]

\* A mutant of Post: one retry is not made.
PostOnceLess(d) ==
    /\ decide[d].pc = "post"
    /\ \E r \in Transient \cup Final :
          LET n == Len(decide[d].waits)
          IN  IF r \in Transient /\ n + 1 < retries
              THEN decide' = [decide EXCEPT ![d].pc = "wait", ![d].waits = Append(@, WaitBefore(n + 1))]
              ELSE Returns(d, r)
    /\ UNCHANGED retries

\* An attempt: what may pass is tried again until no retry is left; then the last
\* failure is returned.
Post(d) ==
    /\ decide[d].pc = "post"
    /\ \E r \in Transient \cup Final :
          LET n == Len(decide[d].waits)
          IN  IF r \in Transient /\ n < retries
              THEN decide' = [decide EXCEPT ![d].pc = "wait", ![d].waits = Append(@, WaitBefore(n + 1))]
              ELSE Returns(d, r)
    /\ UNCHANGED retries

\* The select between two attempts.
Wait(d) ==
    /\ decide[d].pc = "wait"
    /\ \/ decide' = [decide EXCEPT ![d].pc = "post"]
       \/ decide[d].canceled /\ Returns(d, "canceled")
    /\ UNCHANGED retries

CancelDecide(d) ==
    /\ decide[d].pc \in {"post", "wait"} /\ ~decide[d].canceled
    /\ decide' = [decide EXCEPT ![d].canceled = TRUE]
    /\ UNCHANGED retries

Decided == (\A d \in Deciders : decide[d].pc = "done") /\ UNCHANGED decideVars

NextDecisions ==
    \/ \E d \in Deciders : Decide(d) \/ Post(d) \/ Wait(d) \/ CancelDecide(d)
    \/ Decided

-----------------------------------------------------------------------------
(* Properties                                                              *)

\* Decide gives up on what may pass only after all its retries, and after waiting, all
\* together, for less than twice the last wait.
RetriesMade ==
    \A d \in Deciders :
        LET w == decide[d].waits
        IN  /\ decide[d].result \in Transient => Len(w) = retries
            /\ w # <<>> => SumFunction(w) = 2 * w[Len(w)] - FirstWait

\* Every Decide returns, whatever the endpoint does.
DecideReturns == \A d \in Deciders : (decide[d].pc = "post") ~> (decide[d].pc = "done")

-----------------------------------------------------------------------------
(* The inductive invariant                                                 *)

Decision ==
    [pc : {"idle", "post", "wait", "done"}, canceled : BOOLEAN, waits : Seq(Nat),
     result : Transient \cup Final \cup {"none", "invalid", "canceled"}]

\* The waits double, and there are no more than retries.
WaitsDouble ==
    \A d \in Deciders :
        LET w == decide[d].waits
        IN  /\ \A k \in 1 .. Len(w) : w[k] = Doubled[k - 1]
            /\ w # <<>> => Len(w) <= retries
            /\ decide[d].pc = "idle" => w = <<>>

\* What has returned stays as it is.
ResultLast ==
    \A d \in Deciders :
        /\ decide[d].pc # "done" => decide[d].result = "none"
        /\ decide[d].pc \in {"post", "wait"} => retries >= 0

DecisionsIInv ==
    /\ retries \in Int /\ decide \in [Deciders -> Decision]
    /\ WaitsDouble
    /\ ResultLast
    /\ RetriesMade

=============================================================================
