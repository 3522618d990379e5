----------------------------- MODULE Sandboxes -----------------------------
(***************************************************************************)
(* The program picks a Provider, and its calls of the run_command tool     *)
(* (sandbox/tool.go) go to the sandbox it creates: the persistent shell,   *)
(* one process for each command on the host, or one in a container.  The   *)
(* other sandboxes do not exist in that run.                               *)
(***************************************************************************)
EXTENDS Shell, OneShot

allVars == <<vars, oneShotVars>>

\* Provider.Create.
Choose ==
    /\ Init
    /\ InitOneShot
    /\ provider \in {"shell", "local", "docker"}

ShellExec == provider = "shell" /\ Next /\ UNCHANGED oneShotVars

OneShotExec == provider # "shell" /\ NextOneShot /\ UNCHANGED vars

Exec == ShellExec \/ OneShotExec

SafetySpec == Choose /\ [][Exec]_allVars

\* As in Shell; timers fire and os/exec does its part; a process and its descendants may
\* run for ever.
SandboxSpec ==
    /\ SafetySpec
    /\ \A c \in Calls : SF_vars(provider = "shell" /\ CallStep(c))
    /\ \A c \in Jobs : WF_oneShotVars(Expires(c)) /\ WF_oneShotVars(ExecStep(c))

-----------------------------------------------------------------------------

\* Every Exec returns, whatever the command does (sandbox/shell.go, local.go, docker.go); that
\* of a one-shot sandbox may have to wait for processes the command left behind with its
\* output open.
EveryExecReturns == ExecReturns /\ OneShotReturns

=============================================================================
