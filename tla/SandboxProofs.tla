--------------------------- MODULE SandboxProofs ---------------------------
(***************************************************************************)
(* Proofs about the sandboxes, for any number of concurrent calls, shells  *)
(* and bytes: no stray lines and no survivors of a timeout in the shell,   *)
(* and honest results from the sandboxes that start a process per command. *)
(***************************************************************************)
EXTENDS Sandboxes, FiniteSetTheorems, TLAPS

-----------------------------------------------------------------------------
(* The shell                                                               *)

\* Two calls never hold the shell at once.
LEMMA HolderUnique ==
    ASSUME IInv, NEW c \in Calls, NEW d \in Calls, Holds(c), Holds(d)
    PROVE  c = d
  BY DEF IInv, ShellShape

\* A call returns and gives the mutex back: nobody waits any more.
LEMMA Returns ==
    ASSUME IInv, NEW c \in Calls, Holds(c), NEW r \in {"ok", "error", "exited", "timeout", "canceled"},
           Return(c, r)
    PROVE  /\ pc' \in [Calls -> {"idle", "exec", "script", "wait", "done"}]
           /\ result' \in [Calls -> {"none", "ok", "error", "exited", "timeout", "canceled"}]
           /\ mu' = Nobody /\ pc'[c] = "done" /\ result'[c] = r
           /\ \A d \in Calls \ {c} : pc'[d] = pc[d] /\ result'[d] = result[d]
           /\ \A d \in Calls : ~Holds(d)' /\ pc'[d] # "wait"
  <1>1. /\ pc' \in [Calls -> {"idle", "exec", "script", "wait", "done"}]
        /\ result' \in [Calls -> {"none", "ok", "error", "exited", "timeout", "canceled"}]
        /\ mu' = Nobody /\ pc'[c] = "done" /\ result'[c] = r
        /\ \A d \in Calls \ {c} : pc'[d] = pc[d] /\ result'[d] = result[d]
    BY DEF Return, IInv, TypeOK
  <1>2. \A d \in Calls : ~Holds(d)' /\ pc'[d] # "wait"
    BY <1>1, HolderUnique DEF Holds
  <1> QED
    BY <1>1, <1>2

\* A shell is started in the place of a dead one; a call enters.
LEMMA EnterInvariant ==
    ASSUME IInv, NEW c \in Calls, Enter(c)
    PROVE  IInv'
  <1>1. /\ pc[c] = "exec" /\ mu = Nobody /\ mu' = c /\ counter' = counter + 1
        /\ UNCHANGED <<ctx, result, kids, running, lines>>
    BY DEF Enter
  <1>2. gen \in Gens /\ gen' \in Gens /\ gen \in Nat /\ gen' \in {gen, gen + 1} /\ alive' = TRUE
    BY BoundAssumption DEF Enter, StartShell, IInv, TypeOK, Gens
  <1>3. /\ pc' \in [Calls -> {"idle", "exec", "script", "wait", "done"}]
        /\ pc'[c] = "script" /\ \A d \in Calls \ {c} : pc'[d] = pc[d]
    BY DEF Enter, IInv, TypeOK
  <1>4. <<gen', counter + 1>> \in Markers /\ <<gen', counter + 1>>[1] = gen'
    BY <1>2, BoundAssumption DEF Markers, Gens, IInv, TypeOK
  <1>5. /\ marker' \in [Calls -> Markers] /\ marker'[c][1] = gen'
        /\ \A d \in Calls \ {c} : marker'[d] = marker[d]
    BY <1>4 DEF Enter, IInv, TypeOK
  <1>6. \A d \in Calls : ~Holds(d) /\ pc[d] # "wait"
    BY <1>1, CallsAssumption DEF IInv, ShellShape, Holds
  <1>7. /\ procs' \subseteq {gen'} /\ dirs' \subseteq {gen'} /\ procs' \subseteq procs \cup {gen'}
        /\ gen' = gen => alive /\ procs' = procs
    <2>1. CASE alive
      BY <2>1 DEF Enter, IInv, ShellShape
    <2>2. CASE ~alive
      <3>1. gen' = gen + 1 /\ procs' = procs \cup {gen + 1} /\ dirs' = (dirs \ {gen}) \cup {gen + 1}
        BY <2>2 DEF Enter, StartShell
      <3>2. procs = {} /\ dirs \subseteq {gen} /\ gen + 1 # gen
        BY <1>2, <2>2 DEF IInv, ShellShape
      <3> QED
        BY <3>1, <3>2
    <2> QED
      BY <2>1, <2>2
  <1>8. TypeOK'
    BY <1>1, <1>2, <1>3, <1>5, <1>7 DEF IInv, TypeOK
  <1>9. \A d \in Calls : marker'[d][1] \in Nat /\ marker[d][1] \in Nat
    BY <1>5, BoundAssumption DEF IInv, TypeOK, Markers
  <1>10. ShellShape'
    <2>1. \A d \in Calls : Holds(d)' <=> d = c
      BY <1>3, <1>6 DEF Holds
    <2>2. \A d \in Calls : marker'[d][1] <= gen' /\ (pc'[d] # "done" => result'[d] = "none")
      <3> SUFFICES ASSUME NEW d \in Calls
                   PROVE  marker'[d][1] <= gen' /\ (pc'[d] # "done" => result'[d] = "none")
        OBVIOUS
      <3>1. CASE d = c
        BY <1>1, <1>2, <1>5, <3>1 DEF IInv, ShellShape
      <3>2. CASE d # c
        BY <1>1, <1>2, <1>3, <1>5, <1>9, <3>2 DEF IInv, ShellShape
      <3> QED
        BY <3>1, <3>2
    <2>3. \A g \in Gens : g > gen' => running'[g] = NoMarker /\ lines'[g] = <<>>
      BY <1>1, <1>2 DEF IInv, ShellShape, Gens
    <2> QED
      BY <1>1, <1>2, <1>5, <1>7, <2>1, <2>2, <2>3 DEF ShellShape
  <1>11. ScriptShape'
    <2>1. \A d \in Calls : pc'[d] # "wait"
      BY <1>3, <1>6
    <2>2. running[gen'] = NoMarker /\ lines[gen'] = <<>>
      BY <1>2, <1>6, <1>7 DEF IInv, ShellShape, ScriptShape
    <2> QED
      BY <1>1, <2>1, <2>2 DEF ScriptShape
  <1>12. TimeoutKillsGroup'
    <2> SUFFICES ASSUME NEW d \in Calls, result[d] \in {"timeout", "canceled"}
                 PROVE  marker'[d][1] \notin procs' \cup kids'
      BY <1>1 DEF TimeoutKillsGroup
    <2>1. d # c /\ marker[d][1] <= gen /\ marker[d][1] \notin procs \cup kids
      BY <1>1 DEF IInv, ShellShape, TimeoutKillsGroup
    <2>2. CASE gen' = gen
      BY <1>1, <1>5, <1>7, <2>1, <2>2
    <2>3. CASE gen' # gen
      BY <1>1, <1>2, <1>5, <1>7, <1>9, <2>1, <2>3
    <2> QED
      BY <2>2, <2>3
  <1> QED
    BY <1>8, <1>10, <1>11, <1>12 DEF IInv

\* A call that holds the shell returns; the shell is killed, gone or idle.
LEMMA ReturnInvariant ==
    ASSUME IInv, NEW c \in Calls, Holds(c), NEW r \in {"ok", "error", "exited", "timeout", "canceled"},
           Return(c, r), UNCHANGED <<ctx, marker, gen, counter, dirs, running>>,
           procs' \subseteq procs, kids' \subseteq kids, lines' \in [Gens -> Seq(Markers)],
           \A g \in Gens : g > gen => lines'[g] = lines[g],
           alive' \in BOOLEAN, procs' # {} => alive',
           r \in {"timeout", "canceled"} => gen \notin procs' \cup kids',
           alive' => running[gen] = NoMarker /\ lines'[gen] = <<>>
    PROVE  IInv'
  <1>1. /\ pc' \in [Calls -> {"idle", "exec", "script", "wait", "done"}]
        /\ result' \in [Calls -> {"none", "ok", "error", "exited", "timeout", "canceled"}]
        /\ mu' = Nobody /\ pc'[c] = "done" /\ result'[c] = r
        /\ \A d \in Calls \ {c} : pc'[d] = pc[d] /\ result'[d] = result[d]
        /\ \A d \in Calls : ~Holds(d)' /\ pc'[d] # "wait"
    BY Returns
  <1>2. TypeOK'
    BY <1>1 DEF IInv, TypeOK
  <1>3. ShellShape'
    BY <1>1, CallsAssumption DEF IInv, ShellShape
  <1>4. ScriptShape'
    BY <1>1 DEF ScriptShape
  <1>5. TimeoutKillsGroup'
    BY <1>1 DEF IInv, ShellShape, TimeoutKillsGroup
  <1> QED
    BY <1>2, <1>3, <1>4, <1>5 DEF IInv

\* Every step of a call of the shell sandbox keeps the invariant.
LEMMA CallStepInvariant ==
    ASSUME IInv, NEW c \in Calls, Call(c) \/ CallStep(c) \/ Cancel(c)
    PROVE  IInv'
  <1> USE DEF sandboxVars, systemVars
  <1>1. CASE Call(c)
    <2>1. /\ pc[c] = "idle" /\ UNCHANGED <<ctx, marker, result, sandboxVars, systemVars>>
          /\ pc' \in [Calls -> {"idle", "exec", "script", "wait", "done"}]
          /\ pc'[c] = "exec" /\ \A d \in Calls \ {c} : pc'[d] = pc[d]
      BY <1>1 DEF Call, IInv, TypeOK
    <2>2. \A d \in Calls : (Holds(d)' <=> Holds(d)) /\ (pc'[d] = "wait" <=> pc[d] = "wait")
                           /\ (pc'[d] = "done" <=> pc[d] = "done")
      BY <2>1 DEF Holds
    <2>3. TypeOK'
      BY <2>1 DEF IInv, TypeOK
    <2> QED
      BY <2>1, <2>2, <2>3 DEF IInv, ShellShape, ScriptShape, TimeoutKillsGroup
  <1>2. CASE Refuse(c)
    <2>1. /\ pc[c] = "exec" /\ UNCHANGED <<ctx, marker, mu, gen, alive, counter, systemVars>>
          /\ dirs' \subseteq dirs
          /\ pc' \in [Calls -> {"idle", "exec", "script", "wait", "done"}]
          /\ pc'[c] = "done" /\ \A d \in Calls \ {c} : pc'[d] = pc[d]
          /\ result' \in [Calls -> {"none", "ok", "error", "exited", "timeout", "canceled"}]
          /\ result'[c] = "error" /\ \A d \in Calls \ {c} : result'[d] = result[d]
      BY <1>2 DEF Refuse, IInv, TypeOK
    <2>2. \A d \in Calls : (Holds(d)' <=> Holds(d)) /\ (pc'[d] = "wait" <=> pc[d] = "wait")
                           /\ (pc'[d] # "done" => pc[d] # "done" /\ d # c)
      BY <2>1 DEF Holds
    <2>3. TypeOK'
      BY <2>1 DEF IInv, TypeOK
    <2>4. ShellShape'
      BY <2>1, <2>2 DEF IInv, ShellShape
    <2>5. ScriptShape'
      BY <2>1, <2>2 DEF IInv, ScriptShape
    <2>6. TimeoutKillsGroup'
      BY <2>1 DEF IInv, TimeoutKillsGroup
    <2> QED
      BY <2>3, <2>4, <2>5, <2>6 DEF IInv
  <1>3. CASE WriteScript(c)
    <2>1. pc[c] = "script" /\ Holds(c) /\ UNCHANGED <<ctx, marker, gen, counter, dirs, lines>>
      BY <1>3 DEF WriteScript, Holds
    <2>2. gen \in Gens /\ gen \in Nat /\ alive /\ marker[c] \in Markers
          /\ \A d \in Calls : pc[d] # "wait"
      BY <2>1, HolderUnique DEF IInv, ShellShape, TypeOK, Gens, Holds
    <2>3. running[gen] = NoMarker /\ lines[gen] = <<>>
      BY <2>2 DEF IInv, ScriptShape
    <2>4. CASE gen \in procs /\ running' = [running EXCEPT ![gen] = marker[c]]
               /\ pc' = [pc EXCEPT ![c] = "wait"] /\ UNCHANGED <<result, mu, alive, procs, kids>>
      <3>1. /\ pc' \in [Calls -> {"idle", "exec", "script", "wait", "done"}]
            /\ pc'[c] = "wait" /\ \A d \in Calls \ {c} : pc'[d] = pc[d]
            /\ running' \in [Gens -> Markers] /\ running'[gen] = marker[c]
            /\ \A g \in Gens \ {gen} : running'[g] = running[g]
        BY <2>2, <2>4 DEF IInv, TypeOK
      <3>2. \A d \in Calls : (Holds(d)' <=> Holds(d)) /\ (pc'[d] = "wait" <=> d = c)
                             /\ (pc'[d] = "done" <=> pc[d] = "done")
        BY <2>1, <2>2, <3>1 DEF Holds
      <3>3. TypeOK'
        BY <2>1, <2>4, <3>1 DEF IInv, TypeOK
      <3>4. ShellShape'
        <4>1. \A g \in Gens : g > gen' => running'[g] = NoMarker /\ lines'[g] = <<>>
          <5> SUFFICES ASSUME NEW g \in Gens, g > gen
                       PROVE  running'[g] = NoMarker /\ lines'[g] = <<>>
            BY <2>1
          <5>1. g # gen
            BY <2>2 DEF Gens
          <5>2. running[g] = NoMarker /\ lines[g] = <<>>
            BY DEF IInv, ShellShape
          <5> QED
            BY <2>1, <3>1, <5>1, <5>2
        <4> QED
          BY <2>1, <2>4, <3>2, <4>1 DEF IInv, ShellShape
      <3>5. ScriptShape'
        BY <2>1, <2>3, <3>1, <3>2 DEF ScriptShape
      <3>6. TimeoutKillsGroup'
        BY <2>1, <2>4 DEF IInv, TimeoutKillsGroup
      <3> QED
        BY <3>3, <3>4, <3>5, <3>6 DEF IInv
    <2>5. CASE gen \notin procs /\ KillShell /\ Return(c, "error") /\ UNCHANGED running
      <3>1. procs' = {} /\ kids' \subseteq kids /\ alive' = FALSE
        BY <2>5 DEF KillShell, IInv, ShellShape
      <3>2. lines' \in [Gens -> Seq(Markers)] /\ procs' \subseteq procs
        BY <2>1, <3>1 DEF IInv, TypeOK
      <3> QED
        BY <2>1, <2>5, <3>1, <3>2, ReturnInvariant
    <2> QED
      BY <1>3, <2>4, <2>5 DEF WriteScript
  <1>4. CASE TakeLine(c)
    <2>1. pc[c] = "wait" /\ Holds(c) /\ lines[gen] # <<>> /\ lines' = [lines EXCEPT ![gen] = Tail(@)]
          /\ UNCHANGED <<ctx, marker, gen, alive, counter, dirs, procs, kids, running>>
      BY <1>4 DEF TakeLine, Holds
    <2>2. gen \in Gens /\ gen \in Nat /\ running[gen] = NoMarker /\ lines[gen] = <<marker[c]>>
      BY <2>1 DEF IInv, ScriptShape, TypeOK, Gens
    <2>3. Head(lines[gen]) = marker[c] /\ Tail(lines[gen]) = <<>> /\ <<>> \in Seq(Markers)
      BY <2>2
    <2>4. Return(c, "ok")
      BY <1>4, <2>3 DEF TakeLine
    <2>5. /\ lines' \in [Gens -> Seq(Markers)] /\ lines'[gen] = <<>>
          /\ \A g \in Gens \ {gen} : lines'[g] = lines[g]
      BY <2>1, <2>2, <2>3 DEF IInv, TypeOK
    <2>6. alive' \in BOOLEAN /\ (procs' # {} => alive') /\ procs' \subseteq procs /\ kids' \subseteq kids
      BY <2>1 DEF IInv, TypeOK, ShellShape
    <2>7. \A g \in Gens : g > gen => lines'[g] = lines[g]
      BY <2>2, <2>5
    <2> QED
      BY <2>1, <2>2, <2>4, <2>5, <2>6, <2>7, ReturnInvariant
  <1>5. CASE ShellGone(c)
    <2>1. Holds(c) /\ gen \notin procs /\ alive' = FALSE /\ Return(c, "exited")
          /\ UNCHANGED <<ctx, marker, gen, counter, dirs, systemVars>>
      BY <1>5 DEF ShellGone, Holds
    <2>2. procs' = {} /\ lines' \in [Gens -> Seq(Markers)]
      BY <2>1 DEF IInv, ShellShape, TypeOK
    <2> QED
      BY <2>1, <2>2, ReturnInvariant
  <1>6. CASE GiveUp(c)
    <2>1. Holds(c) /\ KillShell /\ UNCHANGED <<ctx, marker, gen, counter, dirs, running, lines>>
      BY <1>6 DEF GiveUp, Holds
    <2>2. PICK r \in {"canceled", "timeout"} : Return(c, r)
      BY <1>6 DEF GiveUp
    <2>3. procs' = {} /\ kids' \subseteq kids /\ gen \notin kids' /\ alive' = FALSE
          /\ lines' \in [Gens -> Seq(Markers)]
      BY <2>1 DEF KillShell, IInv, ShellShape, TypeOK
    <2> QED
      BY <2>1, <2>2, <2>3, ReturnInvariant
  <1>7. CASE Cancel(c)
    <2>1. ctx' \in [Calls -> BOOLEAN] /\ UNCHANGED <<pc, marker, result, sandboxVars, systemVars>>
      BY <1>7 DEF Cancel, IInv, TypeOK
    <2>2. TypeOK'
      BY <2>1 DEF IInv, TypeOK
    <2> QED
      BY <2>1, <2>2 DEF IInv, ShellShape, Holds, ScriptShape, TimeoutKillsGroup
  <1> QED
    BY <1>1, <1>2, <1>3, <1>4, <1>5, <1>6, <1>7, EnterInvariant DEF CallStep

\* The shell process itself, and Close, keep it.
LEMMA ShellStepInvariant ==
    ASSUME IInv, (\E g \in Gens : ShellStep(g)) \/ Close
    PROVE  IInv'
  <1> USE DEF callVars, sandboxVars
  <1>1. ASSUME NEW g \in Gens, Finishes(g)
        PROVE  IInv'
    <2>1. /\ g = gen /\ gen \in Gens /\ alive /\ running[gen] # NoMarker /\ gen \in Nat
          /\ lines' = [lines EXCEPT ![gen] = Append(@, running[gen])]
          /\ running' = [running EXCEPT ![gen] = NoMarker]
          /\ UNCHANGED <<callVars, sandboxVars, procs, kids>>
      <3>1. g \in procs /\ gen \in Gens /\ gen \in Nat
        BY <1>1, BoundAssumption DEF Finishes, IInv, TypeOK, Gens
      <3>2. g = gen /\ alive
        BY <3>1 DEF IInv, ShellShape
      <3> QED
        BY <1>1, <3>1, <3>2 DEF Finishes
    <2>2. PICK c \in Calls : pc[c] = "wait"
      BY <2>1 DEF IInv, ScriptShape
    <2>3. running[gen] = marker[c] /\ lines[gen] = <<>> /\ marker[c] \in Markers
      BY <2>1, <2>2 DEF IInv, ScriptShape, TypeOK
    <2>4. Append(lines[gen], running[gen]) = <<marker[c]>> /\ <<marker[c]>> \in Seq(Markers)
      BY <2>3
    <2>5. NoMarker \in Markers
      BY BoundAssumption DEF NoMarker, Markers
    <2>6. /\ lines' \in [Gens -> Seq(Markers)] /\ lines'[gen] = <<marker[c]>>
          /\ running' \in [Gens -> Markers] /\ running'[gen] = NoMarker
          /\ \A h \in Gens \ {gen} : lines'[h] = lines[h] /\ running'[h] = running[h]
      BY <2>1, <2>4, <2>5 DEF IInv, TypeOK
    <2>7. TypeOK'
      BY <2>1, <2>6 DEF IInv, TypeOK
    <2>8. \A d \in Calls : pc[d] = "wait" => d = c
      BY <2>2, HolderUnique DEF Holds
    <2>9. ShellShape'
      <3>1. \A h \in Gens : h > gen' => running'[h] = NoMarker /\ lines'[h] = <<>>
        BY <2>1, <2>6 DEF IInv, ShellShape
      <3> QED
        BY <2>1, <3>1 DEF IInv, ShellShape, Holds
    <2>10. ScriptShape'
      BY <2>1, <2>2, <2>6, <2>8 DEF ScriptShape
    <2> QED
      BY <2>1, <2>7, <2>9, <2>10 DEF IInv, TimeoutKillsGroup
  <1>2. ASSUME NEW g \in Gens, Backgrounds(g)
        PROVE  IInv'
    <2>1. g \in procs /\ kids' = kids \cup {g} /\ UNCHANGED <<callVars, sandboxVars, procs, running, lines>>
      BY <1>2 DEF Backgrounds
    <2>2. TypeOK'
      BY <2>1 DEF IInv, TypeOK
    <2> QED
      BY <2>1, <2>2 DEF IInv, ShellShape, Holds, ScriptShape, TimeoutKillsGroup
  <1>3. ASSUME NEW g \in Gens, Exits(g)
        PROVE  IInv'
    <2>1. /\ g = gen /\ gen \in Nat /\ procs' = procs \ {g} /\ running' = [running EXCEPT ![g] = NoMarker]
          /\ UNCHANGED <<callVars, sandboxVars, kids, lines>>
      <3>1. g \in procs /\ gen \in Nat
        BY <1>3, BoundAssumption DEF Exits, IInv, TypeOK, Gens
      <3> QED
        BY <1>3, <3>1 DEF Exits, IInv, ShellShape
    <2>2. NoMarker \in Markers
      BY BoundAssumption DEF NoMarker, Markers
    <2>3. running' \in [Gens -> Markers] /\ running'[gen] = NoMarker
          /\ \A h \in Gens \ {gen} : running'[h] = running[h]
      BY <1>3, <2>1, <2>2 DEF IInv, TypeOK
    <2>4. TypeOK'
      BY <2>1, <2>3 DEF IInv, TypeOK
    <2>5. ShellShape'
      <3>1. \A h \in Gens : h > gen' => running'[h] = NoMarker /\ lines'[h] = <<>>
        BY <2>1, <2>3 DEF IInv, ShellShape
      <3> QED
        BY <2>1, <3>1 DEF IInv, ShellShape, Holds
    <2>6. ScriptShape'
      BY <2>1, <2>3 DEF IInv, ScriptShape
    <2> QED
      BY <2>1, <2>4, <2>5, <2>6 DEF IInv, TimeoutKillsGroup
  <1>4. CASE Close
    <2>1. mu = Nobody /\ procs' = {} /\ kids' \subseteq kids /\ alive' = FALSE /\ dirs' \subseteq dirs
          /\ UNCHANGED <<callVars, mu, gen, counter, running, lines>>
      BY <1>4 DEF Close, KillShell, IInv, ShellShape
    <2>2. \A c \in Calls : ~Holds(c) /\ pc[c] # "wait"
      BY <2>1, CallsAssumption DEF IInv, ShellShape, Holds
    <2>3. TypeOK'
      BY <2>1 DEF IInv, TypeOK
    <2> QED
      BY <2>1, <2>2, <2>3 DEF IInv, ShellShape, Holds, ScriptShape, TimeoutKillsGroup
  <1> QED
    BY <1>1, <1>2, <1>3, <1>4 DEF ShellStep

-----------------------------------------------------------------------------
(* A process per command                                                   *)

Sound(j) == Concluded(j) /\ ReapedRight(j) /\ Captured(j)

\* A step that changes one call, and neither the container nor what runs in it, keeps the
\* invariant if the call stays sound and its process does not end.
LEMMA OneJob ==
    ASSUME OneShotIInv, NEW c \in Jobs, NEW j \in JobStates, job' = [job EXCEPT ![c] = j], Sound(j),
           j.proc = "exit0" => job[c].proc = "exit0",
           j.proc # job[c].proc => j.proc = "killed" \/ c \notin inner,
           UNCHANGED <<provider, box, inner, left>>
    PROVE  OneShotIInv'
  <1>1. job' \in [Jobs -> JobStates] /\ job'[c] = j /\ \A d \in Jobs \ {c} : job'[d] = job[d]
    BY DEF OneShotIInv, OneShotTypeOK
  <1>2. OneShotTypeOK'
    BY <1>1 DEF OneShotIInv, OneShotTypeOK
  <1>3. \A d \in Jobs : Concluded(job'[d]) /\ ReapedRight(job'[d]) /\ Captured(job'[d])
    BY <1>1 DEF OneShotIInv, Sound
  <1>4. inner \subseteq Jobs /\ Creator \in Jobs /\ Closer \in Jobs
    BY JobsAssumption DEF OneShotIInv, OneShotTypeOK
  <1>5. \A d \in Jobs : job'[d].proc = "exit0" => job[d].proc = "exit0"
    BY <1>1
  <1>6. ContainerMatches'
    BY <1>1, <1>4, <1>5 DEF OneShotIInv, ContainerMatches, Docker
  <1> QED
    BY <1>2, <1>3, <1>6 DEF OneShotIInv

\* A call and what the invariant says of it.
LEMMA JobSound ==
    ASSUME OneShotIInv, NEW c \in Jobs
    PROVE  job[c] \in JobStates /\ Sound(job[c])
  BY DEF OneShotIInv, OneShotTypeOK, Sound

\* Two states of a call that differ in what was written only.
Alike(k, j) ==
    /\ k.pc = j.pc /\ k.ctx = j.ctx /\ k.proc = j.proc /\ k.held = j.held /\ k.hit = j.hit
    /\ k.err = j.err /\ k.result = j.result

\* A write leaves in the buffer what fits of all that was written, and the rest of the call
\* as it was.
LEMMA WriteExact ==
    ASSUME NEW j \in JobStates, Captured(j), NEW n \in 1 .. 2
    PROVE  LET k == [Write(j, n) EXCEPT !.written = @ + n]
           IN  k \in JobStates /\ Captured(k) /\ Alike(k, j)
  <1> DEFINE w == Write(j, n)
             k == [w EXCEPT !.written = @ + n]
  <1>1. /\ j.buf \in Nat /\ j.written \in Nat /\ j.truncated \in BOOLEAN
        /\ Limit \in Nat /\ n \in Nat \ {0}
    BY JobsAssumption DEF JobStates
  <1>2. j.buf = Smaller(j.written, Limit) /\ (j.truncated <=> j.written > Limit)
    BY DEF Captured
  <1>3. /\ w \in JobStates /\ Alike(w, j) /\ w.written = j.written
        /\ w.buf = Smaller(j.written + n, Limit) /\ (w.truncated <=> j.written + n > Limit)
    <2>1. CASE Limit - j.buf <= 0
      <3>1. w = [j EXCEPT !.truncated = TRUE]
        BY <1>1, <2>1 DEF Write
      <3>2. w \in JobStates /\ Alike(w, j) /\ w.written = j.written /\ w.buf = j.buf /\ w.truncated = TRUE
        BY <3>1 DEF JobStates, Alike
      <3>3. j.buf = Smaller(j.written + n, Limit) /\ j.written + n > Limit
        BY <1>1, <1>2, <2>1 DEF Smaller
      <3> QED
        BY <3>2, <3>3
    <2>2. CASE Limit - j.buf > 0 /\ n > Limit - j.buf
      <3>1. w = [j EXCEPT !.buf = j.buf + (Limit - j.buf), !.truncated = TRUE]
        BY <1>1, <2>2 DEF Write, JobStates
      <3>2. j.buf + (Limit - j.buf) = Smaller(j.written + n, Limit) /\ j.written + n > Limit
            /\ j.buf + (Limit - j.buf) \in Nat
        BY <1>1, <1>2, <2>2 DEF Smaller
      <3>3. w \in JobStates /\ Alike(w, j) /\ w.written = j.written
            /\ w.buf = j.buf + (Limit - j.buf) /\ w.truncated = TRUE
        BY <3>1, <3>2 DEF JobStates, Alike
      <3> QED
        BY <3>2, <3>3
    <2>3. CASE Limit - j.buf > 0 /\ ~(n > Limit - j.buf)
      <3>1. w = [j EXCEPT !.buf = j.buf + n]
        BY <1>1, <2>3 DEF Write, JobStates
      <3>2. j.buf + n = Smaller(j.written + n, Limit) /\ (j.truncated <=> j.written + n > Limit)
            /\ j.buf + n \in Nat
        BY <1>1, <1>2, <2>3 DEF Smaller
      <3>3. w \in JobStates /\ Alike(w, j) /\ w.written = j.written
            /\ w.buf = j.buf + n /\ w.truncated = j.truncated
        BY <3>1, <3>2 DEF JobStates, Alike
      <3> QED
        BY <3>2, <3>3
    <2> QED
      BY <1>1, <2>1, <2>2, <2>3
  <1> HIDE DEF w
  <1>4. k \in JobStates /\ Alike(k, w) /\ k.written = j.written + n /\ k.buf = w.buf
        /\ k.truncated = w.truncated
    <2>1. j.written + n \in Nat
      BY <1>1
    <2>2. k = [w EXCEPT !.written = j.written + n]
      BY <1>3 DEF JobStates
    <2> QED
      BY <1>3, <2>1, <2>2 DEF JobStates, Alike
  <1>5. Captured(k) /\ Alike(k, j)
    BY <1>3, <1>4 DEF Captured, Alike
  <1> QED
    BY <1>4, <1>5 DEF w

\* Exec itself: the call, its context, the end of its process and its return.
LEMMA ExecInvariant ==
    ASSUME OneShotIInv, NEW c \in Jobs,
           Refused(c) \/ Started(c) \/ Expires(c) \/ Canceled(c) \/ Killed(c) \/ Reaped(c) \/ Returned(c)
    PROVE  OneShotIInv'
  <1> DEFINE j == job[c]
  <1>1. j \in JobStates /\ Sound(j) /\ job \in [Jobs -> JobStates]
    BY JobSound DEF OneShotIInv, OneShotTypeOK
  <1>2. inner \subseteq Jobs /\ (c \in inner => j.proc \in {"running", "killed"})
    BY DEF OneShotIInv, OneShotTypeOK, ContainerMatches
  <1>3. CASE Refused(c)
    <2> DEFINE k == [j EXCEPT !.pc = "done", !.result = "error"]
    <2>1. job' = [job EXCEPT ![c] = k] /\ UNCHANGED <<provider, box, inner, left>> /\ j = NoJob
      BY <1>1, <1>3 DEF Refused, MayCall, Sound, Concluded
    <2>2. j.proc = "none" /\ j.held = FALSE /\ j.err = "none" /\ j.buf = 0 /\ j.written = 0
          /\ j.truncated = FALSE
      BY <2>1 DEF NoJob
    <2>3. k \in JobStates /\ k.pc = "done" /\ k.proc = "none" /\ k.held = FALSE /\ k.err = "none"
          /\ k.result = "error" /\ k.buf = 0 /\ k.written = 0 /\ k.truncated = FALSE /\ j.proc = "none"
      BY <1>1, <2>2 DEF JobStates
    <2> HIDE DEF k
    <2>4. Sound(k)
      BY <2>3, JobsAssumption DEF Sound, Concluded, ReapedRight, Captured, Smaller
    <2> QED
      BY <1>1, <2>1, <2>3, <2>4, OneJob
  <1>4. CASE Started(c)
    <2> DEFINE k == [j EXCEPT !.pc = "run", !.proc = "running"]
    <2>1. job' = [job EXCEPT ![c] = k] /\ UNCHANGED <<provider, box, inner, left>> /\ j = NoJob
      BY <1>1, <1>4 DEF Started, MayCall, Sound, Concluded
    <2>2. j.proc = "none" /\ j.held = FALSE /\ j.err = "none" /\ j.buf = 0 /\ j.written = 0
          /\ j.truncated = FALSE
      BY <2>1 DEF NoJob
    <2>3. k \in JobStates /\ k.pc = "run" /\ k.proc = "running" /\ k.held = FALSE /\ k.err = "none"
          /\ k.buf = 0 /\ k.written = 0 /\ k.truncated = FALSE /\ c \notin inner
      BY <1>1, <1>2, <2>2 DEF JobStates
    <2> HIDE DEF k
    <2>4. Sound(k)
      BY <2>3, JobsAssumption DEF Sound, Concluded, ReapedRight, Captured, Smaller
    <2> QED
      BY <1>1, <2>1, <2>3, <2>4, OneJob
  <1>5. CASE Expires(c) \/ Canceled(c)
    <2>1. PICK x \in {"timeout", "canceled"} : job' = [job EXCEPT ![c].ctx = x]
      BY <1>5 DEF Expires, Canceled
    <2> DEFINE k == [j EXCEPT !.ctx = x]
    <2>2. job' = [job EXCEPT ![c] = k] /\ UNCHANGED <<provider, box, inner, left>> /\ j.pc = "run"
      BY <1>1, <1>5, <2>1 DEF Expires, Canceled
    <2>3. k \in JobStates /\ Sound(k) /\ k.proc = j.proc
      BY <1>1, <2>2 DEF JobStates, Sound, Concluded, ReapedRight, Captured
    <2> QED
      BY <1>1, <2>2, <2>3, OneJob
  <1>6. CASE Killed(c)
    <2> DEFINE p == IF j.proc = "running" THEN "killed" ELSE j.proc
               k == [j EXCEPT !.hit = TRUE, !.proc = p]
    <2>1. job' = [job EXCEPT ![c] = k] /\ UNCHANGED <<provider, box, inner, left>>
          /\ j.err = "none" /\ j.proc \in {"running", "exit0", "exit1"}
      BY <1>1, <1>6 DEF Killed, Sound, ReapedRight, JobStates
    <2>2. j.pc = "run"
      <3>1. NoJob.proc = "none"
        BY DEF NoJob
      <3>2. j.pc # "idle"
        BY <1>1, <2>1, <3>1 DEF Sound, Concluded
      <3>3. j.pc # "done"
        BY <1>1, <2>1 DEF Sound, Concluded
      <3> QED
        BY <1>1, <3>2, <3>3 DEF JobStates
    <2>3. k \in JobStates /\ Sound(k) /\ k.proc = p
      BY <1>1, <2>1, <2>2 DEF JobStates, Sound, Concluded, ReapedRight, Captured
    <2>4. (k.proc = "exit0" => j.proc = "exit0") /\ (k.proc # j.proc => k.proc = "killed")
      BY <2>3
    <2> HIDE DEF k
    <2> QED
      BY <1>1, <2>1, <2>3, <2>4, OneJob
  <1>7. CASE Reaped(c)
    <2> DEFINE e == CASE j.proc # "exit0" -> "exit"
                      [] j.proc = "exit0" /\ j.hit -> "ctx"
                      [] OTHER -> "nil"
               k == [j EXCEPT !.err = e]
    <2>1. job' = [job EXCEPT ![c] = k] /\ UNCHANGED <<provider, box, inner, left>>
          /\ j.pc = "run" /\ j.proc \in {"exit0", "exit1", "killed"}
      BY <1>1, <1>7 DEF Reaped
    <2>2. /\ e \in {"exit", "ctx", "nil"} /\ (e = "exit" => j.proc # "exit0")
          /\ (e \in {"ctx", "nil"} => j.proc = "exit0")
      OBVIOUS
    <2> HIDE DEF e
    <2>3. k \in JobStates /\ Sound(k) /\ k.proc = j.proc
      BY <1>1, <2>1, <2>2 DEF JobStates, Sound, Concluded, ReapedRight, Captured
    <2> QED
      BY <1>1, <2>1, <2>3, OneJob
  <1>8. CASE Returned(c)
    <2> DEFINE k == [j EXCEPT !.pc = "done", !.result = Outcome(j)]
    <2>1. job' = [job EXCEPT ![c] = k] /\ UNCHANGED <<provider, box, inner, left>>
          /\ j.pc = "run" /\ j.err # "none" /\ ~j.held
      BY <1>1, <1>8 DEF Returned
    <2>2. Outcome(j) \in {"ok", "code", "code-1", "timeout", "error"}
      BY DEF Outcome
    <2>3. k.ctx = j.ctx /\ k.err = j.err /\ k.proc = j.proc /\ k.pc = "done" /\ k.result = Outcome(j)
          /\ k.held = j.held /\ k.buf = j.buf /\ k.written = j.written /\ k.truncated = j.truncated
      BY <1>1 DEF JobStates
    <2>4. Outcome(k) = Outcome(j)
      BY <2>3 DEF Outcome
    <2>5. k \in JobStates
      BY <1>1, <2>2 DEF JobStates
    <2> HIDE DEF k
    <2>6. Sound(k)
      BY <1>1, <2>1, <2>3, <2>4 DEF Sound, Concluded, ReapedRight, Captured
    <2> QED
      BY <1>1, <2>1, <2>3, <2>5, <2>6, OneJob
  <1> QED
    BY <1>3, <1>4, <1>5, <1>6, <1>7, <1>8

\* A step that changes no call, but the container or what runs in it.
LEMMA SameJobs ==
    ASSUME OneShotIInv, UNCHANGED <<provider, job>>, box' \in {"none", "up", "gone"},
           inner' \in SUBSET Jobs, left' \in SUBSET Jobs, ContainerMatches'
    PROVE  OneShotIInv'
  <1>1. OneShotTypeOK'
    BY DEF OneShotIInv, OneShotTypeOK
  <1>2. \A c \in Jobs : Concluded(job'[c]) /\ ReapedRight(job'[c]) /\ Captured(job'[c])
    BY DEF OneShotIInv
  <1> QED
    BY <1>1, <1>2 DEF OneShotIInv

\* The processes and the daemon keep it.
LEMMA SystemInvariant ==
    ASSUME OneShotIInv, NEW c \in Jobs, SystemStep(c)
    PROVE  OneShotIInv'
  <1> DEFINE j == job[c]
  <1>1. j \in JobStates /\ Sound(j) /\ job \in [Jobs -> JobStates] /\ ContainerMatches
    BY JobSound DEF OneShotIInv, OneShotTypeOK
  <1>2. box \in {"none", "up", "gone"} /\ inner \in SUBSET Jobs /\ left \in SUBSET Jobs
        /\ {Creator, Closer} \subseteq Jobs /\ Creator # Closer
    BY JobsAssumption DEF OneShotIInv, OneShotTypeOK
  <1>3. CASE Prints(c)
    <2>1. PICK n \in 1 .. 2 : job' = [job EXCEPT ![c] = [Write(job[c], n) EXCEPT !.written = @ + n]]
      BY <1>3 DEF Prints
    <2> DEFINE k == [Write(j, n) EXCEPT !.written = @ + n]
    <2>2. job' = [job EXCEPT ![c] = k] /\ UNCHANGED <<provider, box, inner, left>> /\ j.pc = "run"
      BY <1>3, <2>1 DEF Prints
    <2>3. k \in JobStates /\ Captured(k) /\ Alike(k, j)
      BY <1>1, WriteExact DEF Sound
    <2> HIDE DEF k
    <2>4. Sound(k) /\ k.proc = j.proc
      BY <1>1, <2>2, <2>3 DEF Alike, Sound, Concluded, ReapedRight
    <2> QED
      BY <1>1, <2>2, <2>3, <2>4, OneJob
  <1>4. CASE Forks(c) \/ LetsGo(c)
    <2>1. PICK b \in BOOLEAN : job' = [job EXCEPT ![c].held = b]
      BY <1>4 DEF Forks, LetsGo
    <2> DEFINE k == [j EXCEPT !.held = b]
    <2>2. job' = [job EXCEPT ![c] = k] /\ UNCHANGED <<provider, box, inner, left>> /\ j.pc = "run"
      BY <1>1, <1>4, <2>1 DEF Forks, LetsGo, Sound, Concluded
    <2>3. k \in JobStates /\ k.proc = j.proc /\ k.pc = j.pc /\ k.err = j.err /\ k.buf = j.buf
          /\ k.written = j.written /\ k.truncated = j.truncated
      BY <1>1 DEF JobStates
    <2> HIDE DEF k
    <2>4. Sound(k)
      BY <1>1, <2>2, <2>3 DEF Sound, Concluded, ReapedRight, Captured
    <2> QED
      BY <1>1, <2>2, <2>3, <2>4, OneJob
  <1>5. CASE Ends(c)
    <2>1. PICK code \in {"exit0", "exit1"} :
              /\ Docker /\ code = "exit0" =>
                    CASE c = Creator -> box = "up"
                      [] c = Closer -> box = "gone"
                      [] OTHER -> c \in inner
              /\ job' = [job EXCEPT ![c].proc = code]
      BY <1>5 DEF Ends
    <2> DEFINE k == [j EXCEPT !.proc = code]
    <2>2. job' = [job EXCEPT ![c] = k] /\ inner' = inner \ {c} /\ UNCHANGED <<provider, box, left>>
          /\ j.proc = "running" /\ j.pc = "run" /\ j.err = "none"
      BY <1>1, <1>5, <2>1 DEF Ends, Sound, Concluded, ReapedRight
    <2>3. k \in JobStates /\ k.proc = code /\ k.pc = j.pc /\ k.err = j.err /\ k.held = j.held
          /\ k.buf = j.buf /\ k.written = j.written /\ k.truncated = j.truncated
      BY <1>1 DEF JobStates
    <2> HIDE DEF k
    <2>4. Sound(k)
      BY <1>1, <2>2, <2>3 DEF Sound, Concluded, ReapedRight, Captured
    <2>5. job' \in [Jobs -> JobStates] /\ job'[c] = k /\ \A d \in Jobs \ {c} : job'[d] = job[d]
      BY <1>1, <2>2, <2>3
    <2>6. OneShotTypeOK'
      BY <1>2, <2>2, <2>5 DEF OneShotIInv, OneShotTypeOK
    <2>7. \A d \in Jobs : Concluded(job'[d]) /\ ReapedRight(job'[d]) /\ Captured(job'[d])
      BY <2>4, <2>5 DEF OneShotIInv, Sound
    <2>8. ContainerMatches'
      <3>1. \A d \in inner' : Docker' /\ box' = "up" /\ d \notin {Creator, Closer}
                              /\ job'[d].proc \in {"running", "killed"}
        BY <1>1, <1>2, <2>2, <2>5 DEF ContainerMatches, Docker
      <3>2. Docker' /\ job'[Creator].proc = "exit0" => box' # "none"
        BY <1>1, <1>2, <2>1, <2>2, <2>3, <2>5 DEF ContainerMatches, Docker
      <3>3. Docker' /\ job'[Closer].proc = "exit0" => box' = "gone"
        BY <1>1, <1>2, <2>1, <2>2, <2>3, <2>5 DEF ContainerMatches, Docker
      <3>4. Docker' /\ left' # {} => box' = "up"
        BY <1>1, <2>2 DEF ContainerMatches, Docker
      <3> QED
        BY <3>1, <3>2, <3>3, <3>4 DEF ContainerMatches
    <2> QED
      BY <2>6, <2>7, <2>8 DEF OneShotIInv
  <1>6. CASE DaemonStarts(c)
    <2>1. UNCHANGED <<provider, job, left>> /\ Docker /\ j.proc = "running" /\ c # Closer
      BY <1>6 DEF DaemonStarts
    <2>2. \/ c = Creator /\ box = "none" /\ box' = "up" /\ inner' = inner
          \/ c # Creator /\ box = "up" /\ inner' = inner \cup {c} /\ box' = box
      BY <1>6 DEF DaemonStarts
    <2>3. ContainerMatches'
      BY <1>1, <2>1, <2>2 DEF ContainerMatches, Docker
    <2> QED
      BY <1>2, <2>1, <2>2, <2>3, SameJobs
  <1>7. CASE DaemonRemoves(c)
    <2>1. UNCHANGED <<provider, job>> /\ box' = "gone" /\ inner' = {} /\ left' = {}
      BY <1>7 DEF DaemonRemoves
    <2>2. ContainerMatches'
      BY <2>1 DEF ContainerMatches
    <2> QED
      BY <2>1, <2>2, SameJobs
  <1>8. CASE InnerEnds(c)
    <2>1. UNCHANGED <<provider, job, box, left>> /\ inner' = inner \ {c}
      BY <1>8 DEF InnerEnds
    <2>2. ContainerMatches'
      BY <1>1, <2>1 DEF ContainerMatches, Docker
    <2> QED
      BY <1>2, <2>1, <2>2, SameJobs
  <1>9. CASE Detaches(c) \/ LeftEnds(c)
    <2>1. /\ UNCHANGED <<provider, job, box, inner>>
          /\ left' \in SUBSET Jobs
          /\ Docker /\ left' # {} => c \in inner \/ left # {}
      BY <1>2, <1>9 DEF Detaches, LeftEnds
    <2>2. ContainerMatches'
      BY <1>1, <2>1 DEF ContainerMatches, Docker
    <2> QED
      BY <1>2, <2>1, <2>2, SameJobs
  <1> QED
    BY <1>3, <1>4, <1>5, <1>6, <1>7, <1>8, <1>9 DEF SystemStep

-----------------------------------------------------------------------------
(* Theorems                                                                *)

\* The inductive invariants of the shell and of the one-shot sandboxes hold in every run,
\* whichever the program picks.
THEOREM InvariantHolds == SafetySpec => [](IInv /\ OneShotIInv)
  <1>1. Choose => IInv
    <2> SUFFICES ASSUME Init PROVE IInv
      BY DEF Choose
    <2>1. 1 \in Gens /\ NoMarker \in Markers /\ <<>> \in Seq(Markers)
      BY BoundAssumption DEF Gens, NoMarker, Markers
    <2>2. \A c \in Calls : marker[c] = <<0, 0>> /\ marker[c][1] = 0
      BY DEF Init, NoMarker
    <2>3. TypeOK
      BY <2>1 DEF Init, TypeOK
    <2>4. ShellShape
      BY <2>2, CallsAssumption DEF Init, ShellShape, Holds
    <2>5. ScriptShape /\ TimeoutKillsGroup
      BY <2>1 DEF Init, ScriptShape, TimeoutKillsGroup
    <2> QED
      BY <2>3, <2>4, <2>5 DEF IInv
  <1>2. Choose => OneShotIInv
    <2> SUFFICES ASSUME Choose PROVE OneShotIInv
      OBVIOUS
    <2>1. NoJob \in JobStates /\ NoJob.proc = "none" /\ NoJob.pc = "idle"
      BY DEF NoJob, JobStates
    <2>2. Concluded(NoJob) /\ ReapedRight(NoJob) /\ Captured(NoJob)
      BY JobsAssumption DEF NoJob, Concluded, ReapedRight, Captured, Smaller
    <2>3. job = [c \in Jobs |-> NoJob] /\ box = "none" /\ inner = {} /\ left = {}
          /\ provider \in {"shell", "local", "docker"}
      BY DEF Choose, InitOneShot
    <2>4. OneShotTypeOK
      BY <2>1, <2>3 DEF OneShotTypeOK
    <2>5. ContainerMatches
      BY <2>1, <2>3, JobsAssumption DEF ContainerMatches
    <2> QED
      BY <2>2, <2>3, <2>4, <2>5 DEF OneShotIInv
  <1>3. IInv /\ OneShotIInv /\ [Exec]_allVars => (IInv /\ OneShotIInv)'
    <2> SUFFICES ASSUME IInv, OneShotIInv, [Exec]_allVars
                 PROVE  IInv' /\ OneShotIInv'
      OBVIOUS
    <2>1. ASSUME UNCHANGED vars PROVE IInv'
      BY <2>1 DEF vars, callVars, sandboxVars, systemVars, IInv, TypeOK, ShellShape, ScriptShape, Holds,
                  TimeoutKillsGroup
    <2>2. ASSUME UNCHANGED oneShotVars PROVE OneShotIInv'
      <3>1. UNCHANGED <<provider, job, box, inner, left>>
        BY <2>2 DEF oneShotVars
      <3>2. ContainerMatches'
        BY <3>1 DEF OneShotIInv, ContainerMatches, Docker
      <3> QED
        BY <3>1, <3>2, SameJobs DEF OneShotIInv, OneShotTypeOK
    <2>3. CASE ShellExec
      <3>1. IInv'
        BY <2>3, CallStepInvariant, ShellStepInvariant DEF ShellExec, Next
      <3> QED
        BY <2>2, <2>3, <3>1 DEF ShellExec
    <2>4. CASE OneShotExec
      <3>1. CASE NoMoreCalls
        BY <2>1, <2>2, <2>4, <3>1 DEF NoMoreCalls, OneShotExec
      <3>2. ASSUME NEW c \in Jobs, Refused(c) \/ Started(c) \/ Expires(c) \/ Canceled(c)
                                   \/ ExecStep(c) \/ SystemStep(c)
            PROVE  OneShotIInv'
        BY <3>2, ExecInvariant, SystemInvariant DEF ExecStep
      <3> QED
        BY <2>1, <2>4, <3>1, <3>2 DEF OneShotExec, NextOneShot
    <2>5. CASE UNCHANGED allVars
      BY <2>1, <2>2, <2>5 DEF allVars
    <2> QED
      BY <2>3, <2>4, <2>5 DEF Exec
  <1> QED
    BY <1>1, <1>2, <1>3, PTL DEF SafetySpec

\* Whatever was given up, canceled or killed before, and however many calls are concurrent, a
\* call that waits for the shell reads no marker but its own.
THEOREM NoLineIsStray == SandboxSpec => []NoStrayLines
  <1>1. IInv => NoStrayLines
    <2> SUFFICES ASSUME IInv, NEW c \in Calls, pc[c] = "wait", lines[gen] # <<>>
                 PROVE  Head(lines[gen]) = marker[c]
      BY DEF NoStrayLines
    <2>1. lines[gen] = <<marker[c]>>
      BY DEF IInv, ScriptShape
    <2> QED
      BY <2>1
  <1> QED
    BY <1>1, InvariantHolds, PTL DEF SandboxSpec

\* The shell that served a call given up on, and all it started in its process group, is gone
\* for good.
THEOREM GivenUpIsGone == SandboxSpec => []TimeoutKillsGroup
  <1>1. IInv => TimeoutKillsGroup
    BY DEF IInv
  <1> QED
    BY <1>1, InvariantHolds, PTL DEF SandboxSpec

\* There is at most one shell and one temporary directory, and the shell executes nothing but
\* what a call waits for.
THEOREM ShellIsIdleOrAwaited == SandboxSpec => [](OneShell /\ NothingLeftRunning)
  <1>1. IInv => OneShell
    <2> SUFFICES ASSUME IInv PROVE OneShell
      OBVIOUS
    <2>1. \A S : S \subseteq {gen} => Cardinality(S) <= 1
      <3> SUFFICES ASSUME NEW S, S \subseteq {gen} PROVE Cardinality(S) <= 1
        OBVIOUS
      <3>1. S = {} \/ S = {gen}
        OBVIOUS
      <3> QED
        BY <3>1, FS_EmptySet, FS_Singleton
    <2> QED
      BY <2>1 DEF IInv, ShellShape, OneShell
  <1>2. IInv => NothingLeftRunning
    <2> SUFFICES ASSUME IInv, NEW g \in procs, running[g] # NoMarker
                 PROVE  \E c \in Calls : pc[c] = "wait" /\ marker[c] = running[g]
      BY DEF NothingLeftRunning
    <2>1. g = gen /\ alive
      BY DEF IInv, ShellShape
    <2>2. PICK c \in Calls : pc[c] = "wait"
      BY <2>1 DEF IInv, ScriptShape
    <2> QED
      BY <2>1, <2>2 DEF IInv, ScriptShape
  <1> QED
    BY <1>1, <1>2, InvariantHolds, PTL DEF SandboxSpec

\* What an Exec of the host or of the container returns is true of its command, for any limit
\* on the output and any number of concurrent commands: the exit code, the output, and what
\* docker said of the container.  Processes left behind are in the state and may go on.
THEOREM ResultsAreHonest == SandboxSpec => []ResultHonest
  <1>1. OneShotIInv => ResultHonest
    <2> SUFFICES ASSUME OneShotIInv, NEW c \in Jobs, job[c].pc = "done"
                 PROVE  LET j == job[c]
                        IN  /\ j.result \in {"ok", "code"} =>
                                  /\ j.proc = (IF j.result = "ok" THEN "exit0" ELSE "exit1")
                                  /\ c \notin inner
                            /\ j.proc # "running" /\ ~j.held
                            /\ j.buf = Smaller(j.written, Limit) /\ (j.truncated <=> j.written > Limit)
                            /\ c \in inner => (j.result \in {"timeout", "code-1"} /\ box = "up")
                            /\ (Docker /\ c = Creator /\ j.result = "ok") => box # "none"
                            /\ (Docker /\ c = Closer /\ j.result = "ok") =>
                                  (box = "gone" /\ inner = {} /\ left = {})
      BY DEF ResultHonest
    <2> DEFINE j == job[c]
    <2>1. j \in JobStates /\ Sound(j) /\ ContainerMatches
      BY JobSound DEF OneShotIInv
    <2>2. j.proc # "running" /\ ~j.held
      BY <2>1 DEF Sound, Concluded
    <2>3. j.result = "ok" => j.proc = "exit0"
      BY <2>1 DEF Sound, Concluded, ReapedRight, Outcome, JobStates
    <2>4. j.result = "code" => j.proc = "exit1"
      BY <2>1 DEF Sound, Concluded, ReapedRight, Outcome, JobStates
    <2>5. j.proc = "killed" => j.result \in {"timeout", "code-1"}
      BY <2>1 DEF Sound, Concluded, ReapedRight, Outcome, JobStates
    <2>6. c \in inner => j.proc = "killed" /\ box = "up" /\ c \notin {Creator, Closer}
      BY <2>1, <2>2 DEF ContainerMatches
    <2>7. (Docker /\ c = Creator /\ j.result = "ok") => box # "none"
      BY <2>1, <2>3 DEF ContainerMatches
    <2>8. (Docker /\ c = Closer /\ j.result = "ok") => box = "gone" /\ inner = {} /\ left = {}
      BY <2>1, <2>3 DEF ContainerMatches
    <2>9. j.buf = Smaller(j.written, Limit) /\ (j.truncated <=> j.written > Limit)
      BY <2>1 DEF Sound, Captured
    <2> QED
      BY <2>2, <2>3, <2>4, <2>5, <2>6, <2>7, <2>8, <2>9
  <1> QED
    BY <1>1, InvariantHolds, PTL DEF SandboxSpec

=============================================================================
