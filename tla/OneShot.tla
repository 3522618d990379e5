------------------------------ MODULE OneShot ------------------------------
(***************************************************************************)
(* The sandboxes that start a process for every command: on the host       *)
(* (sandbox/local.go), and in a container driven through the docker        *)
(* command line, itself run by a host sandbox (sandbox/docker.go).         *)
(*                                                                         *)
(* A call is one Exec of the host sandbox: for docker, that of Create, of  *)
(* Exec and of Close.  Output is counted in bytes.  The process, its       *)
(* descendants and the docker daemon are external, and so is exec.Cmd,     *)
(* whose Run waits for the process and for everyone who holds the other    *)
(* end of its pipes.  A process that the command left behind with its      *)
(* output redirected is nobody's concern: it goes on after Exec returned,  *)
(* on the host or in the container.                                        *)
(***************************************************************************)
EXTENDS Integers, FiniteSets

CONSTANTS
    Jobs,       \* Exec calls of the host sandbox, made concurrently
    Creator,    \* docker: the one made by Create
    Closer,     \* docker: the one made by Close
    Limit,      \* MaxOutputBytes
    MaxOutput   \* bound: bytes a command writes

ASSUME JobsAssumption ==
    /\ IsFiniteSet(Jobs) /\ {Creator, Closer} \subseteq Jobs /\ Creator # Closer
    /\ Limit \in Nat \ {0} /\ MaxOutput \in Nat

VARIABLES
    provider,   \* "local", "docker", or another one that is not modelled here
    job,        \* the calls
    box,        \* the container: "none", "up" or "gone"
    inner,      \* the calls whose command runs in the container
    left        \* the calls that left a process behind, with its output redirected

oneShotVars == <<provider, job, box, inner, left>>

\* Exec before it is called.
NoJob ==
    [pc |-> "idle", ctx |-> "live", proc |-> "none", held |-> FALSE, hit |-> FALSE, err |-> "none",
     written |-> 0, buf |-> 0, truncated |-> FALSE, result |-> "none"]

InitOneShot ==
    /\ job = [c \in Jobs |-> NoJob]
    /\ box = "none" /\ inner = {} /\ left = {}

Docker == provider = "docker"

\* Create returned a sandbox.
Created == job[Creator].result = "ok"

-----------------------------------------------------------------------------
(* Exec                                                                    *)

\* The program makes the call: with docker, the container comes first; a sandbox on the host
\* has nothing to create or to close.
MayCall(c) ==
    /\ job[c].pc = "idle"
    /\ IF Docker THEN c = Creator \/ Created ELSE c \notin {Creator, Closer}

\* No command, one that checkAllowed refuses, no image, or a process that does not start.
Refused(c) ==
    /\ MayCall(c)
    /\ job' = [job EXCEPT ![c].pc = "done", ![c].result = "error"]
    /\ UNCHANGED <<provider, box, inner, left>>

Started(c) ==
    /\ MayCall(c)
    /\ job' = [job EXCEPT ![c].pc = "run", ![c].proc = "running"]
    /\ UNCHANGED <<provider, box, inner, left>>

\* WithTimeout, or the caller's context, which Close does not have.
Expires(c) ==
    /\ job[c].pc = "run" /\ job[c].ctx = "live"
    /\ job' = [job EXCEPT ![c].ctx = "timeout"]
    /\ UNCHANGED <<provider, box, inner, left>>

Canceled(c) ==
    /\ job[c].pc = "run" /\ job[c].ctx = "live"
    /\ ~(Docker /\ c = Closer)
    /\ job' = [job EXCEPT ![c].ctx = "canceled"]
    /\ UNCHANGED <<provider, box, inner, left>>

\* CommandContext kills the process, and nothing else, when the context is done.  A
\* process that has just ended can still be hit.
Killed(c) ==
    /\ job[c].ctx # "live" /\ ~job[c].hit
    /\ job[c].proc = "running" \/ (job[c].proc \in {"exit0", "exit1"} /\ job[c].err = "none")
    /\ job' = [job EXCEPT ![c].hit = TRUE,
                          ![c].proc = IF @ = "running" THEN "killed" ELSE @]
    /\ UNCHANGED <<provider, box, inner, left>>

\* cmd.Wait: how the process ended; that it was hit matters only if it ended well.
Reaped(c) ==
    /\ job[c].pc = "run" /\ job[c].err = "none"
    /\ job[c].proc \in {"exit0", "exit1", "killed"}
    /\ job' = [job EXCEPT ![c].err = CASE job[c].proc # "exit0" -> "exit"
                                       [] job[c].proc = "exit0" /\ job[c].hit -> "ctx"
                                       [] OTHER -> "nil"]
    /\ UNCHANGED <<provider, box, inner, left>>

\* What Exec makes of it: a deadline first, then an exit code, -1 for a signal.
Outcome(j) ==
    CASE j.ctx = "timeout" -> "timeout"
      [] j.ctx # "timeout" /\ j.err = "exit" -> IF j.proc = "exit1" THEN "code" ELSE "code-1"
      [] j.ctx # "timeout" /\ j.err = "ctx" -> "error"
      [] OTHER -> "ok"

\* A mutant of Returned: nobody waits for the output to end.
ReturnedAtOnce(c) ==
    /\ job[c].pc = "run" /\ job[c].err # "none"
    /\ job' = [job EXCEPT ![c].pc = "done", ![c].result = Outcome(job[c])]
    /\ UNCHANGED <<provider, box, inner, left>>

\* cmd.Run returns when the process is reaped and its output has ended.
Returned(c) ==
    /\ job[c].pc = "run" /\ job[c].err # "none" /\ ~job[c].held
    /\ job' = [job EXCEPT ![c].pc = "done", ![c].result = Outcome(job[c])]
    /\ UNCHANGED <<provider, box, inner, left>>

\* cappedBuffer.Write, of n bytes.
Write(j, n) ==
    LET remaining == Limit - j.buf
    IN  CASE remaining <= 0 -> [j EXCEPT !.truncated = TRUE]
          [] remaining > 0 /\ n > remaining -> [j EXCEPT !.buf = @ + remaining, !.truncated = TRUE]
          [] OTHER -> [j EXCEPT !.buf = @ + n]

-----------------------------------------------------------------------------
(* Processes and the daemon                                                *)

\* The process, or who holds its pipe, writes.  (What docker run and rm print is not followed.)
Prints(c) ==
    /\ job[c].pc = "run"
    /\ job[c].proc = "running" \/ job[c].held
    /\ Docker => c \in inner
    /\ \E n \in 1 .. 2 :
          /\ job[c].written + n <= MaxOutput
          /\ job' = [job EXCEPT ![c] = [Write(job[c], n) EXCEPT !.written = @ + n]]
    /\ UNCHANGED <<provider, box, inner, left>>

\* A command on the host leaves a process behind that keeps its standard output.
Forks(c) ==
    /\ provider = "local"
    /\ job[c].proc = "running" /\ ~job[c].held
    /\ job' = [job EXCEPT ![c].held = TRUE]
    /\ UNCHANGED <<provider, box, inner, left>>

LetsGo(c) ==
    /\ job[c].held
    /\ job' = [job EXCEPT ![c].held = FALSE]
    /\ UNCHANGED <<provider, box, inner, left>>

\* docker run: the daemon starts the container; docker exec: the command in it.
DaemonStarts(c) ==
    /\ Docker /\ job[c].proc = "running" /\ c # Closer
    /\ \/ c = Creator /\ box = "none" /\ box' = "up" /\ UNCHANGED inner
       \/ c # Creator /\ box = "up" /\ inner' = inner \cup {c} /\ UNCHANGED box
    /\ UNCHANGED <<provider, job, left>>

\* docker rm -f: the container goes with all that runs in it.
DaemonRemoves(c) ==
    /\ Docker /\ job[c].proc = "running" /\ c = Closer /\ box = "up"
    /\ box' = "gone" /\ inner' = {} /\ left' = {}
    /\ UNCHANGED <<provider, job>>

\* The process ends by itself.  docker ends well only if what it asked for was done; for
\* exec that is when the command in the container ends.
Ends(c) ==
    /\ job[c].proc = "running"
    /\ \E code \in {"exit0", "exit1"} :
          /\ Docker /\ code = "exit0" =>
                CASE c = Creator -> box = "up"
                  [] c = Closer -> box = "gone"
                  [] OTHER -> c \in inner
          /\ job' = [job EXCEPT ![c].proc = code]
    /\ inner' = inner \ {c}
    /\ UNCHANGED <<provider, box, left>>

\* A command, on the host or in the container, leaves a process behind that does not keep its
\* output; nothing waits for it and no signal is meant for it.
Detaches(c) ==
    /\ IF Docker THEN c \in inner ELSE job[c].proc = "running"
    /\ c \notin left
    /\ left' = left \cup {c}
    /\ UNCHANGED <<provider, job, box, inner>>

LeftEnds(c) ==
    /\ c \in left
    /\ left' = left \ {c}
    /\ UNCHANGED <<provider, job, box, inner>>

\* A command whose docker exec was killed goes on in the container, until it ends.
InnerEnds(c) ==
    /\ c \in inner /\ job[c].proc # "running"
    /\ inner' = inner \ {c}
    /\ UNCHANGED <<provider, job, box, left>>

-----------------------------------------------------------------------------

ExecStep(c) == Killed(c) \/ Reaped(c) \/ Returned(c)

SystemStep(c) ==
    \/ Prints(c) \/ Forks(c) \/ LetsGo(c) \/ Ends(c) \/ Detaches(c) \/ LeftEnds(c)
    \/ DaemonStarts(c) \/ DaemonRemoves(c) \/ InnerEnds(c)

NoMoreCalls == (\A c \in Jobs : job[c].pc # "run") /\ UNCHANGED oneShotVars

NextOneShot ==
    \/ \E c \in Jobs :
          \/ Refused(c) \/ Started(c) \/ Expires(c) \/ Canceled(c)
          \/ ExecStep(c) \/ SystemStep(c)
    \/ NoMoreCalls

-----------------------------------------------------------------------------
(* Properties                                                              *)

Smaller(a, b) == IF a < b THEN a ELSE b

\* What Exec returns is true of the command.  An exit code is that of a process that ended
\* by itself, in the container too, with nobody left to add to the output, and all of that
\* up to the limit was captured, and marked if there was more.  A sandbox that Create returned
\* has a container, and a docker rm that ends well leaves nothing in it.  Not all of the
\* command is over when Exec has returned: a process that it left behind and that does not hold
\* its output goes on, on the host or in the container, and so does in the container the
\* command itself, if its time was up or its caller gave up.
ResultHonest ==
    \A c \in Jobs : job[c].pc = "done" =>
        LET j == job[c]
        IN  /\ j.result \in {"ok", "code"} =>
                  /\ j.proc = (IF j.result = "ok" THEN "exit0" ELSE "exit1")
                  /\ c \notin inner
            /\ j.proc # "running" /\ ~j.held
            /\ j.buf = Smaller(j.written, Limit) /\ (j.truncated <=> j.written > Limit)
            /\ c \in inner => (j.result \in {"timeout", "code-1"} /\ box = "up")
            /\ (Docker /\ c = Creator /\ j.result = "ok") => box # "none"
            /\ (Docker /\ c = Closer /\ j.result = "ok") => (box = "gone" /\ inner = {} /\ left = {})

\* An Exec returns, at the latest soon after its timeout, unless somebody whom the command
\* left behind holds its output: CommandContext kills the process only, and WaitDelay is
\* not set.
OneShotReturns == \A c \in Jobs : (job[c].pc = "run") ~> (job[c].pc = "done" \/ job[c].held)

-----------------------------------------------------------------------------
(* The inductive invariant                                                 *)

JobStates ==
    [pc : {"idle", "run", "done"}, ctx : {"live", "timeout", "canceled"},
     proc : {"none", "running", "exit0", "exit1", "killed"}, held : BOOLEAN, hit : BOOLEAN,
     err : {"none", "exit", "ctx", "nil"}, written : Nat, buf : Nat, truncated : BOOLEAN,
     result : {"none", "ok", "code", "code-1", "timeout", "error"}]

\* The shape of the state.
OneShotTypeOK ==
    /\ provider \in {"shell", "local", "docker"}
    /\ job \in [Jobs -> JobStates]
    /\ box \in {"none", "up", "gone"}
    /\ inner \in SUBSET Jobs /\ left \in SUBSET Jobs

\* A call has returned what it made of the way its process ended, or was refused.
Concluded(j) ==
    /\ j.pc = "idle" => j = NoJob
    /\ j.pc = "run" => j.proc # "none"
    /\ j.pc = "done" => \/ j.err # "none" /\ j.result = Outcome(j)
                        \/ j.proc = "none" /\ j.result = "error"
    /\ j.proc = "running" \/ j.held => j.pc = "run"

\* The process was reaped as it ended.
ReapedRight(j) ==
    /\ j.proc \in {"none", "running"} => j.err = "none"
    /\ j.err = "exit" => j.proc \in {"exit1", "killed"}
    /\ j.err \in {"ctx", "nil"} => j.proc = "exit0"

\* The buffer holds what fits into it.
Captured(j) == j.buf = Smaller(j.written, Limit) /\ (j.truncated <=> j.written > Limit)

\* Commands run in a container that is up, for docker processes that have not ended; docker
\* has ended well only if the daemon did what it asked for.
ContainerMatches ==
    /\ \A c \in inner : /\ Docker /\ box = "up" /\ c \notin {Creator, Closer}
                        /\ job[c].proc \in {"running", "killed"}
    /\ Docker /\ left # {} => box = "up"
    /\ Docker /\ job[Creator].proc = "exit0" => box # "none"
    /\ Docker /\ job[Closer].proc = "exit0" => box = "gone"

OneShotIInv ==
    /\ OneShotTypeOK
    /\ \A c \in Jobs : Concluded(job[c]) /\ ReapedRight(job[c]) /\ Captured(job[c])
    /\ ContainerMatches

=============================================================================
