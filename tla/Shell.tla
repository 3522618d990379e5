------------------------------- MODULE Shell -------------------------------
(***************************************************************************)
(* The persistent shell sandbox (sandbox/shell.go): one shell process that *)
(* serves Exec calls one after another, is killed with its process group   *)
(* when a command takes too long, and is replaced by the next Exec.        *)
(*                                                                         *)
(* Shells are numbered by their generation, which stands for the process,  *)
(* its random token, its channel of lines and its temporary directory.     *)
(* What commands print and the variables they export are left out; a       *)
(* command may finish, never finish, exit the shell, and leave a process   *)
(* in the background.                                                      *)
(***************************************************************************)
EXTENDS Integers, Sequences, FiniteSets

CONSTANTS
    Calls,      \* Exec calls, made concurrently
    MaxGens,    \* bound: shells started
    Nobody      \* the mutex is free

Gens == 1 .. MaxGens

ASSUME CallsAssumption == IsFiniteSet(Calls) /\ Nobody \notin Calls
ASSUME BoundAssumption == MaxGens \in Nat \ {0}

VARIABLES
    pc,         \* of a call: "idle", "exec" (wants the mutex), "script", "wait" or "done"
    ctx,        \* its context was canceled
    marker,     \* its marker: the shell's token and the call's number
    result,     \* "none", "ok", "error", "exited", "timeout" or "canceled"
    mu,         \* persistentShell.mu: who holds it
    gen,        \* persistentShell.cmd, token, lines: the shell they belong to
    alive,      \* persistentShell.alive
    counter,    \* persistentShell.counter
    dirs,       \* the temporary directories there are
    procs,      \* the shell processes that run
    kids,       \* the shells that have background processes running
    running,    \* of a shell: the marker of the script it executes
    lines       \* of a shell: its channel of lines

callVars == <<pc, ctx, marker, result>>
sandboxVars == <<mu, gen, alive, counter, dirs>>
systemVars == <<procs, kids, running, lines>>
vars == <<callVars, sandboxVars, systemVars>>

NoMarker == <<0, 0>>

\* Create has started the first shell.
Init ==
    /\ pc = [c \in Calls |-> "idle"]
    /\ ctx = [c \in Calls |-> FALSE]
    /\ marker = [c \in Calls |-> NoMarker]
    /\ result = [c \in Calls |-> "none"]
    /\ mu = Nobody
    /\ gen = 1 /\ alive = TRUE /\ counter = 0
    /\ dirs = {1} /\ procs = {1} /\ kids = {}
    /\ running = [g \in Gens |-> NoMarker]
    /\ lines = [g \in Gens |-> <<>>]

Return(c, r) ==
    /\ pc' = [pc EXCEPT ![c] = "done"]
    /\ result' = [result EXCEPT ![c] = r]
    /\ mu' = Nobody

-----------------------------------------------------------------------------
(* Exec                                                                    *)

Call(c) ==
    /\ pc[c] = "idle"
    /\ pc' = [pc EXCEPT ![c] = "exec"]
    /\ UNCHANGED <<ctx, marker, result, sandboxVars, systemVars>>

\* start: the directory of a dead shell is removed before a new one is made.
StartShell ==
    /\ gen < MaxGens
    /\ gen' = gen + 1
    /\ alive' = TRUE
    /\ procs' = procs \cup {gen + 1}
    /\ dirs' = (dirs \ {gen}) \cup {gen + 1}

\* The mutex is taken; a shell that is not alive is replaced; the call gets its
\* marker.
Enter(c) ==
    /\ pc[c] = "exec" /\ mu = Nobody
    /\ mu' = c
    /\ IF alive THEN UNCHANGED <<gen, alive, procs, dirs>> ELSE StartShell
    /\ counter' = counter + 1
    /\ marker' = [marker EXCEPT ![c] = <<gen', counter + 1>>]
    /\ pc' = [pc EXCEPT ![c] = "script"]
    /\ UNCHANGED <<ctx, result, kids, running, lines>>

\* An empty command, or a new shell is needed and cannot be started.
Refuse(c) ==
    /\ pc[c] = "exec" /\ mu = Nobody
    /\ UNCHANGED dirs \/ (~alive /\ dirs' = dirs \ {gen})
    /\ pc' = [pc EXCEPT ![c] = "done"]
    /\ result' = [result EXCEPT ![c] = "error"]
    /\ UNCHANGED <<ctx, marker, mu, gen, alive, counter, systemVars>>

\* A mutant of KillShell: the group is spared.
KillShellOnly ==
    /\ procs' = procs \ {gen}
    /\ kids' = kids
    /\ alive' = FALSE

\* killLocked: the shell and its process group.
KillShell ==
    /\ procs' = procs \ {gen}
    /\ kids' = kids \ {gen}
    /\ alive' = FALSE

\* The script goes to the shell's standard input; writing to a shell that is
\* gone fails.
WriteScript(c) ==
    /\ pc[c] = "script"
    /\ \/ /\ gen \in procs
          /\ running' = [running EXCEPT ![gen] = marker[c]]
          /\ pc' = [pc EXCEPT ![c] = "wait"]
          /\ UNCHANGED <<result, mu, alive, procs, kids>>
       \/ /\ gen \notin procs
          /\ KillShell
          /\ Return(c, "error")
          /\ UNCHANGED running
    /\ UNCHANGED <<ctx, marker, gen, counter, dirs, lines>>

\* A line arrives: the call's own marker ends it, any other is skipped.
TakeLine(c) ==
    /\ pc[c] = "wait" /\ lines[gen] # <<>>
    /\ lines' = [lines EXCEPT ![gen] = Tail(@)]
    /\ IF Head(lines[gen]) = marker[c]
       THEN Return(c, "ok")
       ELSE UNCHANGED <<pc, result, mu>>
    /\ UNCHANGED <<ctx, marker, gen, alive, counter, dirs, procs, kids, running>>

\* The channel is closed: the shell has exited.
ShellGone(c) ==
    /\ pc[c] = "wait" /\ lines[gen] = <<>> /\ gen \notin procs
    /\ alive' = FALSE
    /\ Return(c, "exited")
    /\ UNCHANGED <<ctx, marker, gen, counter, dirs, systemVars>>

\* A mutant of GiveUp: the shell is left alone.
GiveUpOnly(c) ==
    /\ pc[c] = "wait"
    /\ \E r \in {"canceled", "timeout"} : (r = "canceled" => ctx[c]) /\ Return(c, r)
    /\ UNCHANGED <<ctx, marker, gen, alive, counter, dirs, systemVars>>

\* A mutant of GiveUp: there is no timer.
GiveUpOnCancel(c) ==
    /\ pc[c] = "wait" /\ ctx[c]
    /\ KillShell
    /\ Return(c, "canceled")
    /\ UNCHANGED <<ctx, marker, gen, counter, dirs, running, lines>>

\* The context is canceled or the timer fires.
GiveUp(c) ==
    /\ pc[c] = "wait"
    /\ KillShell
    /\ \E r \in {"canceled", "timeout"} : (r = "canceled" => ctx[c]) /\ Return(c, r)
    /\ UNCHANGED <<ctx, marker, gen, counter, dirs, running, lines>>

\* Close, which may be followed by other calls.
Close ==
    /\ mu = Nobody
    /\ KillShell
    /\ dirs' = dirs \ {gen}
    /\ UNCHANGED <<callVars, mu, gen, counter, running, lines>>

Cancel(c) ==
    /\ ~ctx[c] /\ pc[c] \in {"exec", "script", "wait"}
    /\ ctx' = [ctx EXCEPT ![c] = TRUE]
    /\ UNCHANGED <<pc, marker, result, sandboxVars, systemVars>>

-----------------------------------------------------------------------------
(* The shell process                                                       *)

\* The command ends and the marker is printed.
Finishes(g) ==
    /\ g \in procs /\ running[g] # NoMarker
    /\ lines' = [lines EXCEPT ![g] = Append(@, running[g])]
    /\ running' = [running EXCEPT ![g] = NoMarker]
    /\ UNCHANGED <<callVars, sandboxVars, procs, kids>>

\* The command starts something in the background.
Backgrounds(g) ==
    /\ g \in procs /\ running[g] # NoMarker
    /\ kids' = kids \cup {g}
    /\ UNCHANGED <<callVars, sandboxVars, procs, running, lines>>

\* "exit", or the shell is killed from outside.
Exits(g) ==
    /\ g \in procs
    /\ procs' = procs \ {g}
    /\ running' = [running EXCEPT ![g] = NoMarker]
    /\ UNCHANGED <<callVars, sandboxVars, kids, lines>>

-----------------------------------------------------------------------------

CallStep(c) ==
    \/ Enter(c)
    \/ Refuse(c)
    \/ WriteScript(c)
    \/ TakeLine(c)
    \/ ShellGone(c)
    \/ GiveUp(c)

ShellStep(g) == Finishes(g) \/ Backgrounds(g) \/ Exits(g)

Next ==
    \/ \E c \in Calls : Call(c) \/ CallStep(c) \/ Cancel(c)
    \/ \E g \in Gens : ShellStep(g)
    \/ Close

Spec == Init /\ [][Next]_vars

\* Goroutines are scheduled, the mutex is granted in turn and timers fire; a
\* command may run for ever.
FairSpec == Spec /\ \A c \in Calls : SF_vars(CallStep(c))

-----------------------------------------------------------------------------
(* Properties                                                              *)

Markers == (0 .. MaxGens) \X Nat

\* TypeOK: the shape of the state.
TypeOK ==
    /\ pc \in [Calls -> {"idle", "exec", "script", "wait", "done"}]
    /\ ctx \in [Calls -> BOOLEAN]
    /\ marker \in [Calls -> Markers]
    /\ result \in [Calls -> {"none", "ok", "error", "exited", "timeout", "canceled"}]
    /\ mu \in Calls \cup {Nobody}
    /\ gen \in Gens /\ alive \in BOOLEAN /\ counter \in Nat
    /\ dirs \in SUBSET Gens /\ procs \in SUBSET Gens /\ kids \in SUBSET Gens
    /\ running \in [Gens -> Markers]
    /\ lines \in [Gens -> Seq(Markers)]

\* A "stray line (should not happen)" (shell.go) does not happen: a waiting call
\* reads no marker but its own, whatever was given up before.
NoStrayLines ==
    \A c \in Calls : (pc[c] = "wait" /\ lines[gen] # <<>>) => Head(lines[gen]) = marker[c]

\* There is never more than one shell process, and never more than its one
\* temporary directory.
OneShell == Cardinality(procs) <= 1 /\ Cardinality(dirs) <= 1

\* A shell that executes something has a call waiting for it: what was given up
\* does not go on in a shell that serves the next call.
NothingLeftRunning ==
    \A g \in procs : running[g] # NoMarker =>
        \E c \in Calls : pc[c] = "wait" /\ marker[c] = running[g]

\* A command that exceeds its timeout "terminates the shell (and its process
\* group)" (shell.go), and so does one whose call is canceled.
TimeoutKillsGroup ==
    \A c \in Calls : result[c] \in {"timeout", "canceled"} =>
        marker[c][1] \notin procs \cup kids

\* Every Exec returns, whatever the commands do.
ExecReturns == \A c \in Calls : (pc[c] = "exec") ~> (pc[c] = "done")

-----------------------------------------------------------------------------
(* The inductive invariant                                                 *)

Holds(c) == pc[c] \in {"script", "wait"}

\* Only the current shell runs, and only while it is believed alive; the mutex
\* belongs to the one call in Exec.
ShellShape ==
    /\ procs \subseteq {gen} /\ dirs \subseteq {gen}
    /\ procs # {} => alive
    /\ \A c \in Calls : Holds(c) <=> mu = c
    /\ \A c \in Calls : Holds(c) => alive /\ marker[c][1] = gen
    /\ \A c \in Calls : marker[c][1] <= gen /\ (pc[c] # "done" => result[c] = "none")
    /\ \A g \in Gens : g > gen => running[g] = NoMarker /\ lines[g] = <<>>

\* While no call waits, a shell that is alive has nothing to execute and nothing
\* to say; while one does, the shell executes its script or has printed its marker.
ScriptShape ==
    /\ (alive /\ \A c \in Calls : pc[c] # "wait") => running[gen] = NoMarker /\ lines[gen] = <<>>
    /\ \A c \in Calls : pc[c] = "wait" =>
          \/ running[gen] = marker[c] /\ lines[gen] = <<>>
          \/ running[gen] = NoMarker /\ lines[gen] \in {<<>>, <<marker[c]>>}

IInv ==
    /\ TypeOK
    /\ ShellShape
    /\ ScriptShape
    /\ TimeoutKillsGroup

=============================================================================
