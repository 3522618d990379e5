-------------------------- MODULE ThreadedSession --------------------------
(***************************************************************************)
(* Threading is an optimisation: a session that continues responses on the *)
(* server implements the session that sends its whole history every time.  *)
(* The abstract session is Session itself with ResponsesThreading off.     *)
(***************************************************************************)
EXTENDS Session

\* The abstract request carries what the model is really shown; the abstract
\* session has no thread, and takes a refused thread for a call in progress.
Plain == INSTANCE Session WITH
    ResponsesThreading <- FALSE,
    lastResponseID     <- 0,
    threadSentIdx      <- 0,
    threadingDisabled  <- FALSE,
    request            <- [prev |-> 0, msgs |-> View],
    pc                 <- IF pc = "retry" THEN "model" ELSE pc

\* ImplementsPlain: every behaviour of a session with Responses threading, seen
\* through View, is a behaviour of the session without it.
ImplementsPlain == Plain!Spec
=============================================================================
