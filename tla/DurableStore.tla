---------------------------- MODULE DurableStore ----------------------------
(***************************************************************************)
(* What a host may rely on from a durable memory.Store: what is read, what *)
(* survives a restart, and how the two come to differ.  A write is visible *)
(* at once; it becomes durable when it is acknowledged, together with      *)
(* everything visible in its namespace; a write that fails stays visible   *)
(* until a restart takes it away or a later write makes it durable.        *)
(***************************************************************************)
CONSTANTS Namespaces, IDs, Values, NoRecord

VARIABLES
    visible,    \* what Get and Query find: a value or NoRecord
    durable     \* what they would find after a restart

Contents == [IDs -> Values \cup {NoRecord}]
Empty == [i \in IDs |-> NoRecord]

Init ==
    /\ visible = [n \in Namespaces |-> Empty]
    /\ durable = [n \in Namespaces |-> Empty]

\* Put a record, or delete one (v is NoRecord).
Write(n, i, v) ==
    /\ visible' = [visible EXCEPT ![n] = [visible[n] EXCEPT ![i] = v]]
    /\ UNCHANGED durable

Commit(n) ==
    /\ durable' = [durable EXCEPT ![n] = visible[n]]
    /\ UNCHANGED visible

Restart ==
    /\ visible' = durable
    /\ UNCHANGED durable

Next ==
    \/ \E n \in Namespaces, i \in IDs, v \in Values \cup {NoRecord} : Write(n, i, v)
    \/ \E n \in Namespaces : Commit(n)
    \/ Restart

Spec == Init /\ [][Next]_<<visible, durable>>

=============================================================================
