----------------------------- MODULE FileStore -----------------------------
(***************************************************************************)
(* The file-backed memory.Store (memory/store_file.go): a file of records  *)
(* per namespace, a cache that is filled on first use, writes that replace *)
(* the file by a temporary one, and a process that may stop at any point.  *)
(*                                                                         *)
(* A record is its value; a namespace without a file and an empty file     *)
(* read alike.  The mutex is held for a whole operation, so operations     *)
(* overlap only with the end of the process.                               *)
(***************************************************************************)
EXTENDS Integers, Sequences

CONSTANTS
    Namespaces,     \* names of namespaces: sequences of characters
    IDs,            \* Record.ID
    Values,         \* what a record holds
    NoRecord,       \* the id is not in the map
    MaxOps,         \* bound: writes
    MaxStops        \* bound: restarts of the process

ASSUME RecordsAssumption == NoRecord \notin Values
ASSUME FileBoundsAssumption == MaxOps \in Nat /\ MaxStops \in Nat

Awkward == {"/", "\\", ":", "*", "?", "\"", "<", ">", "|", " "}

\* safeFilename: awkward characters become underscores.
safeFilename(ns) ==
    IF ns = <<>> THEN <<"_", "d", "e", "f", "a", "u", "l", "t">>
    ELSE [k \in 1 .. Len(ns) |-> IF ns[k] \in Awkward THEN "_" ELSE ns[k]]

Files == {safeFilename(n) : n \in Namespaces}

VARIABLES
    loaded,     \* the namespaces that are in the cache
    cache,      \* their records
    disk,       \* the records in each file
    op,         \* the write in progress: its phase, namespace, id and value
    sure,       \* history variable: the ids whose last write was acknowledged
    acked,      \* history variable: their values
    ops, stops  \* counted against the bounds

fileVars == <<loaded, cache, disk, op, sure, acked, ops, stops>>

Contents == [IDs -> Values \cup {NoRecord}]
Empty == [i \in IDs |-> NoRecord]

NoOp == [phase |-> "none", ns |-> <<>>, id |-> NoRecord, value |-> NoRecord]

InitFiles ==
    /\ loaded = {}
    /\ cache = [n \in Namespaces |-> Empty]
    /\ disk = [f \in Files |-> Empty]
    /\ op = NoOp
    /\ sure = [n \in Namespaces |-> IDs]
    /\ acked = [n \in Namespaces |-> Empty]
    /\ ops = 0 /\ stops = 0

-----------------------------------------------------------------------------
(* load, Get and Query                                                     *)

\* The map load returns: the cached one, or the file's.
Loaded(n) == IF n \in loaded THEN cache[n] ELSE disk[safeFilename(n)]

\* A mutant of Read: a namespace is read into the cache again and again.
ReadAlways(n) ==
    /\ op = NoOp
    /\ loaded' = loaded \cup {n}
    /\ cache' = [cache EXCEPT ![n] = disk[safeFilename(n)]]
    /\ UNCHANGED <<disk, op, sure, acked, ops, stops>>

\* Get and Query load the namespace; one that cannot be read changes nothing.
Read(n) ==
    /\ op = NoOp
    /\ loaded' = loaded \cup {n}
    /\ cache' = [cache EXCEPT ![n] = Loaded(n)]
    /\ UNCHANGED <<disk, op, sure, acked, ops, stops>>

-----------------------------------------------------------------------------
(* Put and Delete                                                          *)

\* The map is changed before anything is written; v is NoRecord for Delete, and
\* deleting what is not there only loads.
Write(n, i, v) ==
    /\ op = NoOp /\ ops < MaxOps
    /\ ops' = ops + 1
    /\ loaded' = loaded \cup {n}
    /\ cache' = [cache EXCEPT ![n] = [Loaded(n) EXCEPT ![i] = v]]
    /\ IF v = NoRecord /\ Loaded(n)[i] = NoRecord
       THEN UNCHANGED <<op, sure>>
       ELSE /\ op' = [phase |-> "create", ns |-> n, id |-> i, value |-> v]
            /\ sure' = [sure EXCEPT ![n] = sure[n] \ {i}]
    /\ UNCHANGED <<disk, acked, stops>>

\* flush: the temporary file is there and filled.
CreateTemp ==
    /\ op.phase = "create"
    /\ op' = [op EXCEPT !.phase = "rename"]
    /\ UNCHANGED <<loaded, cache, disk, sure, acked, ops, stops>>

\* A mutant of Rename: the old file is truncated and written in place, in two steps.
RenameInPlace ==
    /\ op.phase \in {"rename", "fill"}
    /\ LET f == safeFilename(op.ns) IN
          IF op.phase = "rename"
          THEN /\ disk' = [disk EXCEPT ![f] = Empty]
               /\ op' = [op EXCEPT !.phase = "fill"]
               /\ UNCHANGED <<sure, acked>>
          ELSE /\ disk' = [disk EXCEPT ![f] = cache[op.ns]]
               /\ op' = NoOp
               /\ sure' = [sure EXCEPT ![op.ns] = sure[op.ns] \cup {op.id}]
               /\ acked' = [acked EXCEPT ![op.ns] = [acked[op.ns] EXCEPT ![op.id] = op.value]]
    /\ UNCHANGED <<loaded, cache, ops, stops>>

\* It takes the place of the namespace's file; the write is acknowledged.
Rename ==
    /\ op.phase = "rename"
    /\ disk' = [disk EXCEPT ![safeFilename(op.ns)] = cache[op.ns]]
    /\ op' = NoOp
    /\ sure' = [sure EXCEPT ![op.ns] = sure[op.ns] \cup {op.id}]
    /\ acked' = [acked EXCEPT ![op.ns] = [acked[op.ns] EXCEPT ![op.id] = op.value]]
    /\ UNCHANGED <<loaded, cache, ops, stops>>

\* A step of flush fails: the temporary file is removed, the error returned.
FlushFails ==
    /\ op.phase \in {"create", "rename"}
    /\ op' = NoOp
    /\ UNCHANGED <<loaded, cache, disk, sure, acked, ops, stops>>

\* The process stops, and another one opens the directory.  What was in the
\* cache is gone; a temporary file would stay, and nobody looks at it.
Stop ==
    /\ stops < MaxStops
    /\ stops' = stops + 1
    /\ loaded' = {}
    /\ cache' = [n \in Namespaces |-> Empty]
    /\ op' = NoOp
    /\ UNCHANGED <<disk, sure, acked, ops>>

Bounded == ops = MaxOps /\ op = NoOp /\ UNCHANGED fileVars

NextFiles ==
    \/ \E n \in Namespaces : Read(n)
    \/ \E n \in Namespaces, i \in IDs, v \in Values \cup {NoRecord} : Write(n, i, v)
    \/ CreateTemp
    \/ Rename
    \/ FlushFails
    \/ Stop
    \/ Bounded

FileSpec == InitFiles /\ [][NextFiles]_fileVars

-----------------------------------------------------------------------------
(* Properties                                                              *)

Phases == {"none", "create", "rename"}

\* FileTypeOK: the shape of the state.
FileTypeOK ==
    /\ loaded \in SUBSET Namespaces
    /\ cache \in [Namespaces -> Contents]
    /\ disk \in [Files -> Contents]
    /\ op \in [phase : Phases, ns : Namespaces \cup {<<>>}, id : IDs \cup {NoRecord},
               value : Values \cup {NoRecord}]
    /\ sure \in [Namespaces -> SUBSET IDs]
    /\ acked \in [Namespaces -> Contents]
    /\ ops \in 0 .. MaxOps /\ stops \in 0 .. MaxStops

\* "persisting each namespace as a JSON file. It makes a run resumable across
\* process restarts" (store_file.go): what was acknowledged is on disk, unless a
\* later write of the same record was attempted.
AcknowledgedSurvive ==
    \A n \in Namespaces : \A i \in sure[n] : disk[safeFilename(n)][i] = acked[n][i]

\* The contract, over what load would find and what is in the files.
Contract == INSTANCE DurableStore WITH
    visible <- [n \in Namespaces |-> Loaded(n)],
    durable <- [n \in Namespaces |-> disk[safeFilename(n)]]

\* The file store does what a durable store promises: what is read and what
\* survives change together with the writes, commits and restarts only.
ImplementsStore == Contract!Spec

\* What the implementation needs of the names: no two share a file.
NamesApart ==
    \A m, n \in Namespaces : safeFilename(m) = safeFilename(n) => m = n

-----------------------------------------------------------------------------
(* The inductive invariant, for names that are apart                       *)

\* A write in progress has changed the cache, and only that.
OpMatches ==
    IF op.phase = "none" THEN op = NoOp
    ELSE /\ op.ns \in loaded /\ op.id \in IDs
         /\ cache[op.ns][op.id] = op.value

\* The cache and the file differ only where a write was not acknowledged.
CacheMatches ==
    \A n \in loaded : \A i \in sure[n] : cache[n][i] = disk[safeFilename(n)][i]

FileIInv ==
    /\ FileTypeOK
    /\ OpMatches
    /\ CacheMatches
    /\ AcknowledgedSurvive

=============================================================================
