------------------------------ MODULE Toolbox ------------------------------
(***************************************************************************)
(* What a model may call and what it may answer: an agent with tools       *)
(* (Toolset), or one with a structured output (output.go), whose model is  *)
(* asked again when its answer does not fit.                               *)
(***************************************************************************)
EXTENDS Toolset, Schema

CONSTANTS
    OutputTypes,    \* types to try with OutputOf
    Replies,        \* JSON values a model answers with
    RepairConfigs   \* Config.OutputRepairAttempts

ASSUME RepairsAssumption == RepairConfigs \subseteq Int

VARIABLES
    output,     \* Config.Output's type
    attempts,   \* Config.OutputRepairAttempts
    repairs,    \* repairsLeft
    reply,      \* the model's last answer
    asked       \* how many answers it gave

outputVars == <<output, attempts, repairs, reply, asked>>
vars == <<toolVars, outputVars>>

None == [t |-> "none"]

Init ==
    /\ reply = None /\ asked = 0 /\ repairs = 0
    /\ \/ /\ InitTools
          /\ output = None /\ attempts = 0
       \/ /\ NothingYet
          /\ stage = "new"
          /\ tools = <<>>
          /\ output \in {T \in OutputTypes : For(T) # Unsupported}    \* OutputOf panics otherwise
          /\ attempts \in RepairConfigs

-----------------------------------------------------------------------------
(* Structured output                                                       *)

DefaultRepairs(n) == IF n = 0 THEN 1 ELSE n

\* New of an agent with an output; one repair unless the program says otherwise.
NewOutput ==
    /\ Made("answer")
    /\ repairs' = DefaultRepairs(attempts)
    /\ UNCHANGED <<output, attempts, reply, asked>>

\* The model answers; what does not fit is sent back until no repair is left.
Reply(v) ==
    /\ stage = "answer"
    /\ reply' = v /\ asked' = asked + 1
    /\ IF DecodeOutput(output, v)
       THEN stage' = "done" /\ UNCHANGED repairs
       ELSE IF repairs > 0
            THEN repairs' = repairs - 1 /\ UNCHANGED stage
            ELSE stage' = "failed" /\ UNCHANGED repairs
    /\ UNCHANGED <<setupVars, log, output, attempts>>

Finished == stage \in {"done", "failed"} /\ UNCHANGED vars

-----------------------------------------------------------------------------

Next ==
    \/ output = None /\ NextTools /\ UNCHANGED outputVars
    \/ /\ output # None
       /\ \/ NewOutput
          \/ NewFails /\ UNCHANGED outputVars
          \/ \E v \in Replies : Reply(v)
          \/ Finished

Spec == Init /\ [][Next]_vars

-----------------------------------------------------------------------------
(* Properties                                                              *)

\* Further answers a model may be asked for: as many as the program said, one if it did
\* not say, none if it said a negative number.
Allowed(n) == IF n = 0 THEN 1 ELSE IF n < 0 THEN 0 ELSE n

\* Result.Output is there when the model's last answer means what the type and its tags
\* say, and only then (output.go, schema, decodeOutput in run.go); and a run gives up on its
\* output after all the answers it may ask for, and asks for no more (New in agent.go,
\* runWith).  Two things are left open, because the code does not do them: the values of a map
\* have to mean their type for the answer to be sure of being taken, but are only decoded
\* (schema.go emits additionalProperties, validate.go does not read it), and nothing is said of
\* a type with fields of an unexported embedded struct, which its schema does not have.
OutputConforms ==
    /\ (output # None /\ reply # None /\ ~Promotes(output)) =>
          /\ Means(output, NoTag, reply, TRUE) => stage = "done"
          /\ stage = "done" => Means(output, NoTag, reply, FALSE)
    /\ (stage = "done" /\ output # None) => reply # None
    /\ asked <= 1 + Allowed(attempts)
    /\ (stage = "failed" /\ asked > 0) => asked = 1 + Allowed(attempts)

=============================================================================
