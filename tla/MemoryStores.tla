--------------------------- MODULE MemoryStores ---------------------------
(***************************************************************************)
(* The store under the memory of a program (memory/memory.go Store): the   *)
(* file store, followed write by write through crashes, or one that keeps  *)
(* its records in the process, with what agents do to it through the tools *)
(* and the compactor.  In a behaviour only the one that was chosen exists. *)
(***************************************************************************)
EXTENDS MC_FileStore, MC_SharedMemory

VARIABLE store      \* "file" or "process"

storeVars == <<store, fileVars, memoryVars>>

ChooseStore ==
    /\ store \in {"file", "process"}
    /\ InitFiles
    /\ InitMemory

OnFile == store = "file" /\ NextFiles /\ UNCHANGED <<store, memoryVars>>

InProcess == store = "process" /\ NextMemory /\ UNCHANGED <<store, fileVars>>

StoresSpec == ChooseStore /\ [][OnFile \/ InProcess]_storeVars

=============================================================================
