-------------------------- MODULE ServiceProofs --------------------------
(***************************************************************************)
(* Proofs about what the runs of agents use beside each other: the memory, *)
(* on files (FileStore) and shared in a process (SharedMemory), and the    *)
(* calls to endpoints (ModelCalls: the model client, its streams and the   *)
(* jev client).  For any number of records, writes, restarts, agents,      *)
(* compactions, calls and retries.                                         *)
(***************************************************************************)
EXTENDS FileStore, SharedMemory, ModelCalls, InductionTheorems, FiniteSetTheorems, SequenceTheorems,
        TLAPS

-----------------------------------------------------------------------------
(* FileStore.  The proofs need one thing of the names of namespaces, that  *)
(* no two share a file (NamesApart), and say so; safeFilename does not     *)
(* ensure it, and NamesWithoutAwkward says for which names it holds.       *)

\* A name that has no awkward character is its own file name.
LEMMA OwnName ==
    ASSUME NEW C, NEW n \in Seq(C), n # <<>>, \A k \in 1 .. Len(n) : n[k] \notin Awkward
    PROVE  safeFilename(n) = n
  <1>1. safeFilename(n) = [k \in 1 .. Len(n) |-> n[k]]
    BY DEF safeFilename
  <1> QED
    BY <1>1

\* Names that are not empty and have no awkward character never share a file.
THEOREM NamesWithoutAwkward ==
    ASSUME NEW C, Namespaces \subseteq Seq(C),
           \A n \in Namespaces : n # <<>> /\ \A k \in 1 .. Len(n) : n[k] \notin Awkward
    PROVE  NamesApart
  <1>1. \A n \in Namespaces : safeFilename(n) = n
    BY OwnName
  <1> QED
    BY <1>1 DEF NamesApart

-----------------------------------------------------------------------------
(* The maps of the store                                                   *)

\* load finds records, in the cache or in the file.
LEMMA LoadedType ==
    ASSUME FileTypeOK, NEW n \in Namespaces
    PROVE  Loaded(n) \in Contents /\ safeFilename(n) \in Files
  BY DEF FileTypeOK, Loaded, Files

\* Changing one record of a namespace changes no other.
LEMMA ChangedRecord ==
    ASSUME NEW c \in Contents, NEW i \in IDs, NEW v \in Values \cup {NoRecord}
    PROVE  /\ [c EXCEPT ![i] = v] \in Contents
           /\ [c EXCEPT ![i] = v][i] = v
           /\ \A j \in IDs \ {i} : [c EXCEPT ![i] = v][j] = c[j]
  BY DEF Contents

-----------------------------------------------------------------------------
(* The invariant                                                           *)

\* Every operation, every failure and every restart keeps the invariant.
LEMMA NextKeepsInvariant ==
    ASSUME NamesApart, FileIInv, [NextFiles]_fileVars
    PROVE  FileIInv'
  <1> USE DEF FileIInv
  <1>1. Empty \in Contents /\ NoOp \in [phase : Phases, ns : Namespaces \cup {<<>>},
                                        id : IDs \cup {NoRecord}, value : Values \cup {NoRecord}]
    BY DEF Empty, Contents, NoOp, Phases
  <1>2. ASSUME NEW n \in Namespaces, Read(n)
        PROVE  FileIInv'
    <2>1. FileTypeOK'
      BY <1>2, LoadedType DEF Read, FileTypeOK
    <2>2. cache'[n] = Loaded(n) /\ \A m \in Namespaces \ {n} : cache'[m] = cache[m]
      BY <1>2 DEF Read, FileTypeOK
    <2>3. OpMatches'
      BY <1>2 DEF Read, OpMatches, NoOp
    <2>4. CacheMatches'
      BY <1>2, <2>2 DEF Read, CacheMatches, Loaded, FileTypeOK
    <2>5. AcknowledgedSurvive'
      BY <1>2 DEF Read, AcknowledgedSurvive
    <2> QED
      BY <2>1, <2>3, <2>4, <2>5
  <1>3. ASSUME NEW n \in Namespaces, NEW i \in IDs, NEW v \in Values \cup {NoRecord}, Write(n, i, v)
        PROVE  FileIInv'
    <2> DEFINE new == [Loaded(n) EXCEPT ![i] = v]
               missing == v = NoRecord /\ Loaded(n)[i] = NoRecord
    <2>1. Loaded(n) \in Contents
      BY LoadedType
    <2>2. new \in Contents /\ new[i] = v /\ \A j \in IDs \ {i} : new[j] = Loaded(n)[j]
      BY <2>1, ChangedRecord
    <2>3. /\ cache' = [cache EXCEPT ![n] = new] /\ loaded' = loaded \cup {n} /\ op = NoOp
          /\ ops < MaxOps /\ ops' = ops + 1 /\ UNCHANGED <<disk, acked, stops>>
      BY <1>3 DEF Write
    <2>4. \/ missing /\ UNCHANGED <<op, sure>>
          \/ /\ ~missing /\ op' = [phase |-> "create", ns |-> n, id |-> i, value |-> v]
             /\ sure' = [sure EXCEPT ![n] = sure[n] \ {i}]
      BY <1>3 DEF Write
    <2> HIDE DEF new
    <2>5. cache'[n] = new /\ \A m \in Namespaces \ {n} : cache'[m] = cache[m]
      BY <2>3 DEF FileTypeOK
    <2>6. cache' \in [Namespaces -> Contents] /\ ops' \in 0 .. MaxOps
      BY <2>2, <2>3, FileBoundsAssumption DEF FileTypeOK
    <2>7. sure' \in [Namespaces -> SUBSET IDs]
          /\ \A m \in Namespaces : sure'[m] \subseteq sure[m] /\ sure'[m] \subseteq IDs
      BY <2>4 DEF FileTypeOK
    <2>8. FileTypeOK'
      BY <2>3, <2>4, <2>6, <2>7 DEF FileTypeOK, Phases
    <2>9. OpMatches'
      BY <2>2, <2>3, <2>4, <2>5 DEF OpMatches, NoOp
    <2>10. \A j \in sure'[n] : new[j] = Loaded(n)[j]
      BY <2>2, <2>4, <2>7 DEF FileTypeOK
    <2>11. \A j \in sure'[n] : new[j] = disk[safeFilename(n)][j]
      BY <2>7, <2>10 DEF CacheMatches, Loaded
    <2>12. CacheMatches'
      BY <2>3, <2>5, <2>7, <2>11 DEF CacheMatches, FileTypeOK
    <2>13. AcknowledgedSurvive'
      BY <2>3, <2>7 DEF AcknowledgedSurvive
    <2> QED
      BY <2>8, <2>9, <2>12, <2>13
  <1>4. CASE CreateTemp
    <2>1. FileTypeOK'
      BY <1>4 DEF CreateTemp, FileTypeOK, Phases
    <2>2. OpMatches'
      BY <1>4 DEF CreateTemp, OpMatches, FileTypeOK
    <2> QED
      BY <1>4, <2>1, <2>2 DEF CreateTemp, CacheMatches, AcknowledgedSurvive
  <1>5. CASE Rename
    <2> DEFINE n == op.ns
               i == op.id
    <2>1. n \in loaded /\ n \in Namespaces /\ i \in IDs /\ cache[n][i] = op.value
          /\ op.value \in Values \cup {NoRecord}
      BY <1>5 DEF Rename, OpMatches, FileTypeOK
    <2>2. /\ disk' = [disk EXCEPT ![safeFilename(n)] = cache[n]] /\ op' = NoOp
          /\ sure' = [sure EXCEPT ![n] = sure[n] \cup {i}]
          /\ acked' = [acked EXCEPT ![n] = [acked[n] EXCEPT ![i] = op.value]]
          /\ UNCHANGED <<loaded, cache, ops, stops>>
      BY <1>5 DEF Rename
    <2> HIDE DEF n, i
    <2>3. disk'[safeFilename(n)] = cache[n]
      BY <2>1, <2>2, LoadedType DEF FileTypeOK
    <2>4. \A m \in Namespaces \ {n} : disk'[safeFilename(m)] = disk[safeFilename(m)]
      BY <2>1, <2>2, LoadedType DEF FileTypeOK, NamesApart
    <2>5. /\ sure'[n] = sure[n] \cup {i} /\ \A m \in Namespaces \ {n} : sure'[m] = sure[m]
          /\ \A m \in Namespaces \ {n} : acked'[m] = acked[m]
      BY <2>1, <2>2 DEF FileTypeOK
    <2>6. acked'[n] \in Contents /\ acked'[n][i] = op.value /\ \A j \in IDs \ {i} : acked'[n][j] = acked[n][j]
      <3>1. acked[n] \in Contents /\ acked'[n] = [acked[n] EXCEPT ![i] = op.value]
        BY <2>1, <2>2 DEF FileTypeOK
      <3> QED
        BY <2>1, <3>1, ChangedRecord
    <2>7. FileTypeOK'
      <3>1. acked' \in [Namespaces -> Contents]
        BY <2>1, <2>2, <2>6 DEF FileTypeOK
      <3>2. sure' \in [Namespaces -> SUBSET IDs]
        BY <2>1, <2>2 DEF FileTypeOK
      <3>3. disk' \in [Files -> Contents]
        BY <2>1, <2>2 DEF FileTypeOK
      <3> QED
        BY <1>1, <2>2, <3>1, <3>2, <3>3 DEF FileTypeOK
    <2>8. OpMatches'
      BY <2>2 DEF OpMatches, NoOp
    <2>9. CacheMatches'
      BY <2>1, <2>2, <2>3, <2>4, <2>5 DEF CacheMatches, FileTypeOK
    <2>10. \A j \in sure[n] : cache[n][j] = acked[n][j]
      BY <2>1 DEF CacheMatches, AcknowledgedSurvive, FileTypeOK
    <2>11. \A j \in sure'[n] : disk'[safeFilename(n)][j] = acked'[n][j]
      <3> SUFFICES ASSUME NEW j \in sure'[n]
                   PROVE  cache[n][j] = acked'[n][j]
        BY <2>3
      <3>1. CASE j = i
        BY <2>1, <2>6, <3>1 DEF n, i
      <3>2. CASE j # i
        <4>1. j \in sure[n] /\ j \in IDs
          BY <2>1, <2>5, <3>2 DEF FileTypeOK
        <4> QED
          BY <2>6, <2>10, <3>2, <4>1
      <3> QED
        BY <3>1, <3>2
    <2>12. AcknowledgedSurvive'
      BY <2>4, <2>5, <2>11 DEF AcknowledgedSurvive
    <2> QED
      BY <2>7, <2>8, <2>9, <2>12
  <1>6. CASE FlushFails
    BY <1>1, <1>6 DEF FlushFails, FileTypeOK, OpMatches, NoOp, CacheMatches, AcknowledgedSurvive
  <1>7. CASE Stop
    <2>1. FileTypeOK'
      BY <1>1, <1>7, FileBoundsAssumption DEF Stop, FileTypeOK
    <2> QED
      BY <1>7, <2>1 DEF Stop, OpMatches, NoOp, CacheMatches, AcknowledgedSurvive
  <1>8. CASE UNCHANGED fileVars
    BY <1>8 DEF fileVars, FileTypeOK, OpMatches, CacheMatches, AcknowledgedSurvive
  <1> QED
    BY <1>2, <1>3, <1>4, <1>5, <1>6, <1>7, <1>8 DEF NextFiles, Bounded

\* The inductive invariant: types, the write in progress, the cache and the files agree.
THEOREM FileInvariantHolds ==
    ASSUME NamesApart
    PROVE  FileSpec => []FileIInv
  <1>1. InitFiles => FileIInv
    <2> SUFFICES ASSUME InitFiles PROVE FileIInv
      OBVIOUS
    <2>1. Empty \in Contents /\ \A i \in IDs : Empty[i] = NoRecord
      BY DEF Empty, Contents
    <2>2. FileTypeOK
      BY <2>1, FileBoundsAssumption DEF InitFiles, FileTypeOK, NoOp, Phases
    <2>3. \A n \in Namespaces : safeFilename(n) \in Files
      BY DEF Files
    <2>4. AcknowledgedSurvive
      BY <2>1, <2>3 DEF InitFiles, AcknowledgedSurvive
    <2> QED
      BY <2>2, <2>4 DEF InitFiles, FileIInv, OpMatches, NoOp, CacheMatches
  <1>2. FileIInv /\ [NextFiles]_fileVars => FileIInv'
    BY NextKeepsInvariant
  <1> QED
    BY <1>1, <1>2, PTL DEF FileSpec

\* What Put and Delete acknowledged is in the file whenever the process stops, also after
\* failed writes, reloads and earlier restarts.
THEOREM AcknowledgedOnDisk ==
    ASSUME NamesApart
    PROVE  FileSpec => []AcknowledgedSurvive
  <1>1. FileIInv => AcknowledgedSurvive
    BY DEF FileIInv
  <1> QED
    BY <1>1, FileInvariantHolds, PTL

-----------------------------------------------------------------------------
(* The file store implements the durable store                             *)

\* Each step of the file store is a write, a commit or a restart of the durable store, or
\* changes neither what is read nor what survives.
LEMMA NextRefines ==
    ASSUME NamesApart, FileIInv, [NextFiles]_fileVars
    PROVE  [Contract!Next]_<<[n \in Namespaces |-> Loaded(n)],
                             [n \in Namespaces |-> disk[safeFilename(n)]]>>
  <1> DEFINE visible == [n \in Namespaces |-> Loaded(n)]
             durable == [n \in Namespaces |-> disk[safeFilename(n)]]
  <1>1. \A n \in Namespaces : Loaded(n)' = IF n \in loaded' THEN cache'[n] ELSE disk'[safeFilename(n)]
    BY DEF Loaded
  <1>2. UNCHANGED <<disk, loaded, cache>> => UNCHANGED <<visible, durable>>
    BY DEF Loaded
  <1>3. ASSUME NEW n \in Namespaces, Read(n)
        PROVE  UNCHANGED <<visible, durable>>
    <2>1. \A m \in Namespaces : Loaded(m)' = Loaded(m)
      BY <1>1, <1>3 DEF Read, Loaded, FileIInv, FileTypeOK
    <2> QED
      BY <1>3, <2>1 DEF Read
  <1>4. ASSUME NEW n \in Namespaces, NEW i \in IDs, NEW v \in Values \cup {NoRecord}, Write(n, i, v)
        PROVE  Contract!Next
    <2>1. Loaded(n)' = [Loaded(n) EXCEPT ![i] = v]
      BY <1>1, <1>4 DEF Write, FileIInv, FileTypeOK
    <2>2. \A m \in Namespaces \ {n} : Loaded(m)' = Loaded(m)
      BY <1>1, <1>4 DEF Write, Loaded, FileIInv, FileTypeOK
    <2>3. visible' = [visible EXCEPT ![n] = [visible[n] EXCEPT ![i] = v]]
      BY <2>1, <2>2
    <2>4. UNCHANGED durable
      BY <1>4 DEF Write
    <2>5. Contract!Write(n, i, v)
      BY <2>3, <2>4 DEF Contract!Write
    <2> QED
      BY <2>5 DEF Contract!Next
  <1>5. CASE Rename
    <2> DEFINE n == op.ns
    <2>1. n \in loaded /\ n \in Namespaces
      BY <1>5 DEF Rename, FileIInv, OpMatches, FileTypeOK
    <2>2. disk' = [disk EXCEPT ![safeFilename(n)] = cache[n]] /\ UNCHANGED <<loaded, cache>>
      BY <1>5 DEF Rename
    <2> HIDE DEF n
    <2>3. disk'[safeFilename(n)] = cache[n] /\ Loaded(n) = cache[n]
      BY <2>1, <2>2, LoadedType DEF FileIInv, FileTypeOK, Loaded
    <2>4. \A m \in Namespaces \ {n} : disk'[safeFilename(m)] = disk[safeFilename(m)]
      BY <2>1, <2>2, LoadedType DEF FileIInv, FileTypeOK, NamesApart
    <2>5. \A m \in Namespaces : Loaded(m)' = Loaded(m)
      BY <1>1, <2>1, <2>2, <2>3, <2>4 DEF Loaded
    <2>6. UNCHANGED visible
      BY <2>5
    <2>7. durable' = [durable EXCEPT ![n] = visible[n]]
      BY <2>1, <2>3, <2>4
    <2>8. Contract!Commit(n)
      BY <2>6, <2>7 DEF Contract!Commit
    <2> QED
      BY <2>1, <2>8 DEF Contract!Next
  <1>6. CASE Stop
    <2>1. \A m \in Namespaces : Loaded(m)' = disk[safeFilename(m)]
      BY <1>1, <1>6 DEF Stop
    <2>2. visible' = durable
      BY <2>1
    <2>3. UNCHANGED durable
      BY <1>6 DEF Stop
    <2>4. Contract!Restart
      BY <2>2, <2>3 DEF Contract!Restart
    <2> QED
      BY <2>4 DEF Contract!Next
  <1>7. CASE CreateTemp \/ FlushFails \/ UNCHANGED fileVars
    BY <1>2, <1>7 DEF CreateTemp, FlushFails, fileVars
  <1> QED
    BY <1>3, <1>4, <1>5, <1>6, <1>7 DEF NextFiles, Bounded

\* The file store is a durable store: what is read and what survives a restart change only
\* by whole writes, by commits of a whole namespace and by restarts.
THEOREM StoreRefines ==
    ASSUME NamesApart
    PROVE  FileSpec => ImplementsStore
  <1>1. InitFiles => Contract!Init
    <2> SUFFICES ASSUME InitFiles PROVE Contract!Init
      OBVIOUS
    <2>1. \A n \in Namespaces : Loaded(n) = Empty /\ disk[safeFilename(n)] = Empty
      BY DEF InitFiles, Loaded, Files
    <2> QED
      BY <2>1 DEF Contract!Init, Contract!Empty, Empty
  <1>2. FileIInv /\ [NextFiles]_fileVars
          => [Contract!Next]_<<[n \in Namespaces |-> Loaded(n)],
                               [n \in Namespaces |-> disk[safeFilename(n)]]>>
    BY NextRefines
  <1> QED
    BY <1>1, <1>2, FileInvariantHolds, PTL DEF FileSpec, ImplementsStore, Contract!Spec

-----------------------------------------------------------------------------
(* ModelClient                                                             *)

\* A wait without a hint lies between floor and ceiling, whatever was waited before.
LEMMA NextWaitsInRange ==
    ASSUME NEW p \in Nat, NEW w \in NextWaits(p)
    PROVE  w \in Nat /\ w <= Cap /\ w >= AtMost(Cap, Base)
  <1> USE BackoffAssumption
  <1>1. CASE Jitter
    <2>1. PICK d \in JitterRange(p) : w = AtMost(Cap, d)
      BY <1>1 DEF NextWaits
    <2>2. d \in Int /\ d >= Base
      BY DEF JitterRange
    <2> QED
      BY <2>1, <2>2 DEF AtMost
  <1>2. CASE ~Jitter
    BY <1>2 DEF NextWaits, AtMost
  <1> QED
    BY <1>1, <1>2

\* A hint is followed up to the ceiling.
LEMMA OverrideInRange ==
    ASSUME NEW h \in Hints, Override(h) > 0
    PROVE  /\ Override(h) \in Nat /\ Override(h) <= Cap
           /\ Override(h) >= AtMost(Cap, Base) \/ Override(h) \in Hints
  BY BackoffAssumption, HintsAssumption DEF Override, AtMost

\* A further wait within the range keeps all of them there.
LEMMA WaitAppended ==
    ASSUME IInv, NEW c \in Callers, NEW w \in Nat, w <= Cap,
           w >= AtMost(Cap, Base) \/ w \in Hints,
           attempt[c] < MaxRetries,
           attempt' = [attempt EXCEPT ![c] = @ + 1],
           waits' = [waits EXCEPT ![c] = Append(@, w)]
    PROVE  /\ attempt' \in [Callers -> 0 .. MaxRetries] /\ waits' \in [Callers -> Seq(Nat)]
           /\ \A b \in Callers : Len(waits'[b]) = attempt'[b]
           /\ WaitsInRange'
  <1> USE DEF IInv, TypeOK
  <1>1. attempt' \in [Callers -> 0 .. MaxRetries] /\ waits' \in [Callers -> Seq(Nat)]
    BY LimitAssumption
  <1>2. /\ Len(waits'[c]) = Len(waits[c]) + 1 /\ waits'[c][Len(waits[c]) + 1] = w
        /\ \A k \in 1 .. Len(waits[c]) : waits'[c][k] = waits[c][k]
    OBVIOUS
  <1>3. \A b \in Callers : b # c => waits'[b] = waits[b] /\ attempt'[b] = attempt[b]
    OBVIOUS
  <1>4. \A b \in Callers : Len(waits'[b]) = attempt'[b]
    BY <1>2, <1>3 DEF AttemptsCounted
  <1>5. ASSUME NEW b \in Callers, NEW k \in 1 .. Len(waits'[b])
        PROVE  /\ waits'[b][k] <= Cap
               /\ waits'[b][k] >= AtMost(Cap, Base) \/ waits'[b][k] \in Hints
    <2>1. CASE b # c
      BY <1>3, <2>1 DEF WaitsInRange
    <2>2. CASE b = c /\ k = Len(waits[c]) + 1
      BY <1>2, <2>2
    <2>3. CASE b = c /\ k # Len(waits[c]) + 1
      <3>1. k \in 1 .. Len(waits[c])
        BY <1>2, <2>3
      <3> QED
        BY <1>2, <2>3, <3>1 DEF WaitsInRange
    <2> QED
      BY <2>1, <2>2, <2>3
  <1> QED
    BY <1>1, <1>4, <1>5 DEF WaitsInRange

\* A call that returns gives its slot back, if it has one.
LEMMA FinishFreesSlot ==
    ASSUME IInv, NEW c \in Callers, pc[c] \in {"slot", "send", "backoff"}, NEW r, Finish(c, r)
    PROVE  /\ pc' \in [Everyone -> {"idle", "slot", "send", "backoff", "stream", "done"}]
           /\ sem' \in SUBSET Callers /\ SlotsExact'
           /\ \A b \in Callers : pc'[b] \in {"idle", "slot"} => pc[b] = pc'[b]
  <1> USE DEF IInv, TypeOK, Finish, Everyone
  <1>1. /\ pc' \in [Everyone -> {"idle", "slot", "send", "backoff", "stream", "done"}]
        /\ sem' \in SUBSET Callers
        /\ \A b \in Callers : pc'[b] \in {"idle", "slot"} => pc[b] = pc'[b]
    OBVIOUS
  <1>2. ASSUME Limited
        PROVE  /\ sem' = {b \in Callers : pc'[b] \in {"send", "backoff"}}
               /\ Cardinality(sem') <= MaxConcurrency
    <2>1. sem' = {b \in Callers : pc'[b] \in {"send", "backoff"}}
      BY <1>2 DEF SlotsExact
    <2>2. IsFiniteSet(sem)
      BY CallersAssumption, FS_Subset
    <2>3. Cardinality(sem') <= Cardinality(sem) /\ Cardinality(sem') \in Nat /\ Cardinality(sem) \in Nat
      BY <2>2, FS_Subset, FS_CardinalityType
    <2> QED
      BY <1>2, <2>1, <2>3, LimitAssumption DEF SlotsExact
  <1> QED
    BY <1>1, <1>2 DEF SlotsExact

\* Every step of a call, of a stream or of who cancels them keeps the invariant.
LEMMA ClientStep ==
    ASSUME IInv, [Next]_vars
    PROVE  IInv'
  <1> USE DEF IInv, TypeOK, Everyone
  <1>1. ASSUME NEW c \in Callers, Call(c) PROVE IInv'
    BY <1>1 DEF Call, SlotsExact, AttemptsCounted, WaitsInRange, GivesUpLast
  <1>2. ASSUME NEW c \in Callers, TakeSlot(c) PROVE IInv'
    <2> USE <1>2 DEF TakeSlot
    <2>1. TypeOK' /\ AttemptsCounted' /\ WaitsInRange' /\ GivesUpLast'
      BY DEF AttemptsCounted, WaitsInRange, GivesUpLast
    <2>2. ASSUME Limited
          PROVE  /\ sem' = {b \in Callers : pc'[b] \in {"send", "backoff"}}
                 /\ Cardinality(sem') <= MaxConcurrency
      <3>1. sem' = sem \cup {c}
        BY <2>2
      <3>2. sem' = {b \in Callers : pc'[b] \in {"send", "backoff"}}
        BY <2>2, <3>1 DEF SlotsExact
      <3>3. IsFiniteSet(sem) /\ c \notin sem
        BY <2>2, CallersAssumption, FS_Subset DEF SlotsExact
      <3>4. Cardinality(sem') = Cardinality(sem) + 1 /\ Cardinality(sem) \in Nat
        BY <3>1, <3>3, FS_AddElement, FS_CardinalityType
      <3> QED
        BY <2>2, <3>2, <3>4, LimitAssumption
    <2> QED
      BY <2>1, <2>2 DEF SlotsExact
  <1>3. ASSUME NEW c \in Callers, NoSlot(c) PROVE IInv'
    BY <1>3, FinishFreesSlot DEF NoSlot, Finish, AttemptsCounted, WaitsInRange, GivesUpLast
  <1>4. ASSUME NEW c \in Callers, Conclusive(c) PROVE IInv'
    <2> USE <1>4
    <2>1. PICK r \in {"ok", "rejected"} : Finish(c, r)
      BY DEF Conclusive
    <2> QED
      BY <2>1, FinishFreesSlot DEF Conclusive, Finish, AttemptsCounted, WaitsInRange, GivesUpLast
  <1>5. ASSUME NEW c \in Callers, Retry(c) PROVE IInv'
    <2>1. CASE /\ attempt[c] = MaxRetries /\ Finish(c, "exhausted")
               /\ UNCHANGED <<attempt, prev, waits, ctx>>
      BY <1>5, <2>1, FinishFreesSlot
         DEF Retry, Finish, AttemptsCounted, WaitsInRange, GivesUpLast
    <2>2. CASE /\ attempt[c] < MaxRetries
               /\ attempt' = [attempt EXCEPT ![c] = @ + 1]
               /\ \/ \E h \in Hints :
                        /\ Override(h) > 0
                        /\ waits' = [waits EXCEPT ![c] = Append(@, Override(h))]
                        /\ UNCHANGED prev
                  \/ \E w \in NextWaits(prev[c]) :
                        /\ prev' = [prev EXCEPT ![c] = w]
                        /\ waits' = [waits EXCEPT ![c] = Append(@, w)]
               /\ pc' = [pc EXCEPT ![c] = "backoff"]
               /\ UNCHANGED <<sem, result, ctx>>
      <3> USE <2>2
      <3>1. PICK w \in Nat : /\ w <= Cap /\ (w >= AtMost(Cap, Base) \/ w \in Hints)
                             /\ waits' = [waits EXCEPT ![c] = Append(@, w)]
                             /\ prev' \in [Callers -> Nat]
        BY NextWaitsInRange, OverrideInRange
      <3>2. /\ attempt' \in [Callers -> 0 .. MaxRetries] /\ waits' \in [Callers -> Seq(Nat)]
            /\ \A b \in Callers : Len(waits'[b]) = attempt'[b]
            /\ WaitsInRange'
        BY <3>1, WaitAppended
      <3>3. pc[c] = "send" /\ attempt[c] < MaxRetries
        BY <1>5 DEF Retry
      <3>4. TypeOK'
        BY <3>1, <3>2
      <3>5. SlotsExact'
        BY <3>3 DEF SlotsExact
      <3>6. AttemptsCounted'
        BY <3>2, <3>3 DEF AttemptsCounted
      <3>7. GivesUpLast'
        <4>1. \A b \in Callers : b # c => waits'[b] = waits[b]
          OBVIOUS
        <4>2. result[c] # "exhausted"
          BY <3>3, LimitAssumption DEF GivesUpLast, AttemptsCounted
        <4> QED
          BY <4>1, <4>2 DEF GivesUpLast
      <3> QED
        BY <3>2, <3>4, <3>5, <3>6, <3>7
    <2> QED
      BY <1>5, <2>1, <2>2 DEF Retry
  <1>6. ASSUME NEW c \in Callers, Backoff(c) PROVE IInv'
    <2>1. CASE pc' = [pc EXCEPT ![c] = "send"] /\ UNCHANGED <<sem, result>>
      BY <1>6, <2>1 DEF Backoff, SlotsExact, AttemptsCounted, WaitsInRange, GivesUpLast
    <2>2. CASE Finish(c, "canceled")
      BY <1>6, <2>2, FinishFreesSlot
         DEF Backoff, Finish, AttemptsCounted, WaitsInRange, GivesUpLast
    <2> QED
      BY <1>6, <2>1, <2>2 DEF Backoff
  <1>7. ASSUME NEW c \in Streamers, OpenStream(c) \/ EndStream(c) PROVE IInv'
    BY <1>7, CallersAssumption
       DEF OpenStream, EndStream, SlotsExact, AttemptsCounted, WaitsInRange, GivesUpLast
  <1>8. ASSUME NEW c \in Everyone, Cancel(c) PROVE IInv'
    BY <1>8 DEF Cancel, SlotsExact, AttemptsCounted, WaitsInRange, GivesUpLast
  <1>9. CASE UNCHANGED vars
    BY <1>9 DEF vars, SlotsExact, AttemptsCounted, WaitsInRange, GivesUpLast
  <1> QED
    BY <1>1, <1>2, <1>3, <1>4, <1>5, <1>6, <1>7, <1>8, <1>9 DEF Next, CallStep, Idle

-----------------------------------------------------------------------------
(* Stream                                                                  *)

\* The next piece makes a text one piece longer.
LEMMA NextPiece ==
    ASSUME NEW n \in Nat
    PROVE  /\ Extend(Pieces(n), 0, n + 1) = Pieces(n)
           /\ Extend(Pieces(n), 1, n + 1) = Pieces(n + 1)
           /\ Append(Pieces(n), n + 1) = Pieces(n + 1)
  <1>1. Pieces(n) \in Seq(Nat) /\ Len(Pieces(n)) = n /\ \A k \in 1 .. n : Pieces(n)[k] = k
    BY DEF Pieces
  <1>2. Pieces(n + 1) \in Seq(Nat) /\ Len(Pieces(n + 1)) = n + 1
        /\ \A k \in 1 .. n + 1 : Pieces(n + 1)[k] = k
    BY DEF Pieces
  <1>3. Append(Pieces(n), n + 1) = Pieces(n + 1)
    <2>1. /\ Append(Pieces(n), n + 1) \in Seq(Nat)
          /\ Len(Append(Pieces(n), n + 1)) = n + 1
          /\ \A k \in 1 .. n + 1 : Append(Pieces(n), n + 1)[k] = k
      BY <1>1
    <2> QED
      BY <1>2, <2>1, SeqEqual
  <1> QED
    BY <1>3 DEF Extend

\* The pieces of a text are numbered.
LEMMA PiecesAre ==
    ASSUME NEW n \in Nat
    PROVE  /\ Pieces(n) \in Seq(Nat) /\ Len(Pieces(n)) = n /\ \A k \in 1 .. n : Pieces(n)[k] = k
           /\ Pieces(n) = <<>> <=> n = 0
  <1>1. Pieces(n) \in Seq(Nat) /\ Len(Pieces(n)) = n /\ \A k \in 1 .. n : Pieces(n)[k] = k
    BY DEF Pieces
  <1>2. Pieces(n) = <<>> <=> n = 0
    BY <1>1, EmptySeq
  <1> QED
    BY <1>1, <1>2

\* A reply is bounded, and its calls are a sequence.
LEMMA ReplyType ==
    ASSUME reply \in Replies
    PROVE  /\ reply.text \in Nat /\ reply.reasoning \in Nat /\ reply.usage \in 0 .. 1
           /\ reply.args \in Seq(Nat) /\ Len(reply.args) <= MaxCalls
           /\ MaxCalls \in Nat
  <1>1. MaxText \in Nat /\ MaxReasoning \in Nat /\ MaxCalls \in Nat /\ MaxArgs \in Nat
    BY BoundsAssumption
  <1>2. /\ reply.text \in 0 .. MaxText /\ reply.reasoning \in 0 .. MaxReasoning
        /\ reply.usage \in 0 .. 1
        /\ reply.args \in UNION {[1 .. n -> 0 .. MaxArgs] : n \in 0 .. MaxCalls}
    BY DEF Replies
  <1>3. PICK n \in 0 .. MaxCalls : reply.args \in [1 .. n -> 0 .. MaxArgs]
    BY <1>2
  <1>4. reply.args \in [1 .. n -> Nat] /\ n \in Nat
    BY <1>1, <1>3
  <1>5. reply.args \in Seq(Nat) /\ Len(reply.args) = n
    BY <1>4
  <1> QED
    BY <1>1, <1>2, <1>3, <1>5

\* Nothing has been sent, and nothing told.
LEMMA StreamInit ==
    ASSUME InitStream
    PROVE  StreamIInv
  <1> USE DEF InitStream
  <1>1. Pieces(0) = <<>>
    BY PiecesAre
  <1>2. StreamTypeOK
    <2>1. acc.text = <<>> /\ acc.order = <<>>
      OBVIOUS
    <2>2. acc.text \in Seq(Nat) /\ acc.order \in Seq(Calls)
      BY <2>1
    <2> QED
      BY <2>2 DEF StreamTypeOK
  <1>3. reply.text \in Nat /\ reply.reasoning \in Nat /\ reply.usage \in 0 .. 1
    BY ReplyType
  <1>4. SentWithin
    BY <1>3 DEF SentWithin, SentStates
  <1>5. Shown
    BY <1>1 DEF Shown
  <1>6. Accumulated
    <2>1. 0 \in 0 .. MaxCalls /\ acc.order = Pieces(0) /\ \A c \in Calls : sent.args[c] >= 0 <=> c <= 0
      BY <1>1, BoundsAssumption DEF Calls
    <2> QED
      BY <2>1 DEF Accumulated
  <1>7. FinalMade
    BY DEF FinalMade
  <1> QED
    BY <1>2, <1>4, <1>5, <1>6, <1>7 DEF StreamIInv

\* A frame that is sent and received.
LEMMA FrameReceived ==
    ASSUME StreamIInv, NEW f \in Frames, api = "chat" => MaySend(f), sent' = SentAfter(f),
           deltas' = Extend(deltas, f.text, sent.text + 1),
           thoughts' = Extend(thoughts, f.reasoning, sent.reasoning + 1),
           UNCHANGED <<api, reply>>
    PROVE  SentWithin' /\ Shown' /\ ~sent'.last
  <1> USE DEF StreamIInv
  <1>1. f.text \in 0 .. 1 /\ f.reasoning \in 0 .. 1 /\ f.call \in 0 .. MaxCalls /\ f.finish \in BOOLEAN
        /\ f.usage \in 0 .. 1
    BY DEF Frames
  <1>2. reply.args \in Seq(Nat)
    BY ReplyType DEF StreamTypeOK
  <1>3. sent \in SentStates
    BY DEF SentWithin
  <1>4. sent' \in SentStates /\ ~sent'.last
    BY <1>1, <1>3 DEF SentAfter, SentStates
  <1>5. /\ sent'.text = sent.text + f.text /\ sent'.reasoning = sent.reasoning + f.reasoning
        /\ sent'.usage = sent.usage + f.usage
        /\ \A c \in Calls : sent'.args[c] = sent.args[c] + (IF f.call = c THEN 1 ELSE 0)
    BY DEF SentAfter
  <1>6. SentWithin'
    <2>1. ASSUME NEW c \in Calls PROVE sent'.args[c] >= -1
      <3>1. sent.args[c] \in Int /\ sent.args[c] >= -1
        BY <1>3 DEF SentWithin, SentStates
      <3> QED
        BY <1>5, <3>1
    <2>2. ASSUME api = "chat"
          PROVE  /\ sent'.text <= reply.text /\ sent'.reasoning <= reply.reasoning
                 /\ sent'.usage <= reply.usage
      BY <2>2 DEF MaySend
    <2>3. ASSUME api = "chat", NEW c \in Calls, sent'.args[c] >= 0
          PROVE  c <= Len(reply.args) /\ sent'.args[c] <= reply.args[c]
      <3>1. sent.args[c] \in Int /\ sent.args[c] >= -1
        BY <1>3 DEF SentWithin, SentStates
      <3>2. CASE f.call = c
        <4>1. f.call # 0
          BY <3>2 DEF Calls
        <4>2. c <= Len(reply.args) /\ sent.args[c] < reply.args[c] /\ reply.args[c] \in Int
          BY <1>2, <2>3, <3>2, <4>1, BoundsAssumption DEF MaySend, Calls
        <4> QED
          BY <1>5, <3>1, <3>2, <4>2
      <3>3. CASE f.call # c
        BY <1>5, <2>3, <3>1, <3>3 DEF SentWithin
      <3> QED
        BY <3>2, <3>3
    <2> QED
      BY <1>4, <2>1, <2>2, <2>3 DEF SentWithin
  <1>7. Shown'
    <2>1. sent.text \in Nat /\ sent.reasoning \in Nat
      BY <1>3 DEF SentStates
    <2>2. Extend(deltas, f.text, sent.text + 1) = Pieces(sent.text + f.text)
      <3>1. (f.text = 0 /\ sent.text + f.text = sent.text) \/ f.text = 1
        BY <1>1, <2>1
      <3> QED
        BY <2>1, <3>1, NextPiece DEF Shown
    <2>3. Extend(thoughts, f.reasoning, sent.reasoning + 1) = Pieces(sent.reasoning + f.reasoning)
      <3>1. (f.reasoning = 0 /\ sent.reasoning + f.reasoning = sent.reasoning) \/ f.reasoning = 1
        BY <1>1, <2>1
      <3> QED
        BY <2>1, <3>1, NextPiece DEF Shown
    <2> QED
      BY <1>5, <2>2, <2>3 DEF Shown
  <1> QED
    BY <1>4, <1>6, <1>7

\* The calls a chat stream has put together, after a frame.
LEMMA CallsMerged ==
    ASSUME StreamIInv, api = "chat", NEW f \in Frames, RecvChat(f)
    PROVE  /\ acc'.toolCalls = [c \in Calls |-> IF sent'.args[c] = -1 THEN NoCall
                                                ELSE [id |-> c, args |-> Pieces(sent'.args[c])]]
           /\ \E n \in 0 .. MaxCalls :
                 acc'.order = Pieces(n) /\ \A c \in Calls : sent'.args[c] >= 0 <=> c <= n
           /\ acc'.order \in Seq(Calls)
  <1> DEFINE Assembled(a) == [c \in Calls |-> IF a[c] = -1 THEN NoCall ELSE [id |-> c, args |-> Pieces(a[c])]]
  <1>1. MaySend(f) /\ f.call \in 0 .. MaxCalls
    BY DEF RecvChat, Frames
  <1>2. acc.toolCalls = Assembled(sent.args)
    BY DEF StreamIInv, Accumulated
  <1>3. PICK n \in 0 .. MaxCalls : acc.order = Pieces(n) /\ \A c \in Calls : sent.args[c] >= 0 <=> c <= n
    BY DEF StreamIInv, Accumulated
  <1>4. sent.args \in [Calls -> Int] /\ \A c \in Calls : sent.args[c] >= -1
    BY DEF StreamIInv, SentWithin, SentStates
  <1>5. sent'.args = [c \in Calls |-> sent.args[c] + (IF f.call = c THEN 1 ELSE 0)]
    BY DEF RecvChat, SentAfter
  <1>6. n \in Nat /\ MaxCalls \in Nat
    BY BoundsAssumption
  <1>7. acc.order \in Seq(Calls) /\ Len(acc.order) = n /\ \A k \in 1 .. n : acc.order[k] = k
    BY <1>3, <1>6, PiecesAre DEF StreamIInv, StreamTypeOK
  <1>8. CASE f.call = 0
    <2>1. sent'.args = sent.args
      <3>1. \A c \in Calls : f.call # c
        BY <1>8 DEF Calls
      <3>2. \A c \in Calls : sent'.args[c] = sent.args[c]
        BY <1>4, <1>5, <3>1
      <3> QED
        BY <1>4, <1>5, <3>2
    <2>2. acc'.toolCalls = acc.toolCalls /\ acc'.order = acc.order
      BY <1>8 DEF RecvChat
    <2> QED
      BY <1>2, <1>3, <1>7, <2>1, <2>2
  <1>9. CASE f.call # 0
    <2> DEFINE c == f.call
               first == sent.args[c] = -1
    <2>1. c \in Calls
      BY <1>1, <1>9 DEF Calls
    <2>2. sent'.args[c] = sent.args[c] + 1 /\ \A b \in Calls : b # c => sent'.args[b] = sent.args[b]
      BY <1>4, <1>5, <2>1
    <2>3. acc'.toolCalls = Merge(acc.toolCalls, c, first, sent.args[c] + 1)
      BY <1>9 DEF RecvChat
    <2>4. ASSUME NEW b \in Calls
          PROVE  acc'.toolCalls[b] = Assembled(sent'.args)[b]
      <3>1. CASE b # c
        BY <1>2, <2>1, <2>2, <2>3, <3>1 DEF Merge
      <3>2. CASE b = c /\ first
        <4>1. acc.toolCalls[c] = NoCall
          BY <1>2, <2>1, <3>2
        <4>2. acc'.toolCalls[c] = [id |-> c, args |-> <<>>]
          BY <1>2, <2>1, <2>3, <3>2, <4>1 DEF Merge, NoCall
        <4>3. sent'.args[c] = 0 /\ Pieces(0) = <<>>
          BY <2>2, <3>2, PiecesAre
        <4> QED
          BY <2>1, <3>2, <4>2, <4>3
      <3>3. CASE b = c /\ ~first
        <4>1. sent.args[c] \in Nat
          BY <1>4, <2>1, <3>3
        <4>2. acc.toolCalls[c] = [id |-> c, args |-> Pieces(sent.args[c])]
          BY <1>2, <2>1, <3>3
        <4>3. acc'.toolCalls[c] = [id |-> c, args |-> Append(Pieces(sent.args[c]), sent.args[c] + 1)]
          <5>1. acc.toolCalls[c].id = c /\ acc.toolCalls[c].args = Pieces(sent.args[c])
            BY <4>2
          <5>2. acc'.toolCalls[c] = [id |-> acc.toolCalls[c].id,
                                     args |-> Append(acc.toolCalls[c].args, sent.args[c] + 1)]
            BY <1>2, <2>1, <2>3, <3>3 DEF Merge
          <5> QED
            BY <5>1, <5>2
        <4>4. Append(Pieces(sent.args[c]), sent.args[c] + 1) = Pieces(sent.args[c] + 1)
          BY <4>1, NextPiece
        <4> QED
          BY <2>1, <2>2, <3>3, <4>1, <4>3, <4>4
      <3> QED
        BY <3>1, <3>2, <3>3
    <2>5. acc'.toolCalls = Assembled(sent'.args)
      <3>1. DOMAIN acc'.toolCalls = Calls /\ acc'.toolCalls = [b \in Calls |-> acc'.toolCalls[b]]
        BY <1>2, <2>3 DEF Merge
      <3> QED
        BY <2>4, <3>1
    <2>6. CASE first
      <3>1. c = n + 1
        <4>1. ~(c <= n)
          BY <1>3, <2>1, <2>6
        <4>2. c > 1 => sent.args[c - 1] >= 0 /\ c - 1 \in Calls
          <5>1. c > 1 => sent.args[c - 1] >= 0
            BY <1>1, <1>9 DEF MaySend
          <5>2. c > 1 => c - 1 \in Calls
            BY <1>6, <2>1 DEF Calls
          <5> QED
            BY <5>1, <5>2
        <4>3. c > 1 => c - 1 <= n
          BY <1>3, <4>2
        <4> QED
          BY <1>6, <2>1, <4>1, <4>3 DEF Calls
      <3>2. ~InOrder(c)
        BY <1>7, <3>1 DEF InOrder
      <3>3. acc'.order = Append(acc.order, c)
        BY <1>9, <3>2 DEF RecvChat
      <3>4. acc'.order = Pieces(n + 1) /\ n + 1 \in 0 .. MaxCalls
        <4>1. acc'.order = Append(Pieces(n), n + 1)
          BY <1>3, <3>1, <3>3
        <4>2. n + 1 \in 0 .. MaxCalls
          BY <1>6, <2>1, <3>1 DEF Calls
        <4> QED
          BY <1>6, <4>1, <4>2, NextPiece
      <3>5. \A b \in Calls : sent'.args[b] >= 0 <=> b <= n + 1
        BY <1>3, <1>6, <2>1, <2>2, <2>6, <3>1 DEF Calls
      <3>6. acc'.order \in Seq(Calls)
        BY <1>7, <2>1, <3>3
      <3> QED
        BY <2>5, <3>4, <3>5, <3>6
    <2>7. CASE ~first
      <3>1. sent.args[c] >= 0
        BY <1>4, <2>1, <2>7
      <3>2. c <= n
        BY <1>3, <2>1, <3>1
      <3>3. InOrder(c)
        BY <1>7, <2>1, <3>2 DEF InOrder, Calls
      <3>4. acc'.order = acc.order
        BY <3>3 DEF RecvChat
      <3>5. \A b \in Calls : sent'.args[b] >= 0 <=> b <= n
        <4>1. sent'.args[c] >= 0
          BY <1>4, <2>1, <2>2, <3>1
        <4> QED
          BY <1>3, <2>2, <3>2, <4>1
      <3> QED
        BY <1>3, <1>7, <2>5, <3>4, <3>5
    <2> QED
      BY <2>6, <2>7
  <1> QED
    BY <1>8, <1>9

\* While frames may come, the final chunk was not made.
LEMMA FrameKeepsFinal ==
    ASSUME StreamIInv, body = "open", ~sent.last, UNCHANGED <<api, body, done, outcome>>, ~sent'.last
    PROVE  ~done /\ FinalMade'
  <1>1. ~done /\ outcome # "ok"
    BY DEF StreamIInv, FinalMade
  <1> QED
    BY <1>1 DEF FinalMade

\* A frame of a chat stream keeps the invariant,
LEMMA ChatStep ==
    ASSUME StreamIInv, NEW f \in Frames, RecvChat(f)
    PROVE  StreamIInv'
  <1>1. /\ api = "chat" /\ MaySend(f) /\ sent' = SentAfter(f)
        /\ body = "open" /\ ~sent.last
        /\ deltas' = Extend(deltas, f.text, sent.text + 1)
        /\ thoughts' = Extend(thoughts, f.reasoning, sent.reasoning + 1)
        /\ UNCHANGED <<api, reply, body, done, final, outcome>>
    BY DEF RecvChat, MaySend, Reading
  <1>2. SentWithin' /\ Shown' /\ ~sent'.last
    BY <1>1, FrameReceived
  <1>3. FinalMade'
    BY <1>1, <1>2, FrameKeepsFinal
  <1>4. acc.text = deltas /\ acc.reasoning = thoughts
    BY <1>1 DEF StreamIInv, Accumulated
  <1>5. acc'.text = deltas' /\ acc'.reasoning = thoughts'
    BY <1>4 DEF RecvChat
  <1>6. acc'.finish = (IF sent'.finish THEN reply'.finish ELSE NoFinish)
    <2>1. acc.finish = (IF sent.finish THEN reply.finish ELSE NoFinish)
      BY <1>1 DEF StreamIInv, Accumulated
    <2>2. acc'.finish = IF f.finish THEN reply.finish ELSE acc.finish
      BY DEF RecvChat
    <2>3. sent'.finish = (sent.finish \/ f.finish)
      BY <1>1 DEF SentAfter
    <2> QED
      BY <1>1, <2>1, <2>2, <2>3
  <1>7. acc'.usage = (IF sent'.usage = 1 THEN reply'.usage ELSE 0)
    <2>1. acc.usage = (IF sent.usage = 1 THEN reply.usage ELSE 0)
      BY <1>1 DEF StreamIInv, Accumulated
    <2>2. acc'.usage = IF f.usage = 1 THEN reply.usage ELSE acc.usage
      BY DEF RecvChat
    <2>3. sent'.usage = sent.usage + f.usage /\ f.usage \in 0 .. 1 /\ sent.usage \in Nat
      BY <1>1 DEF SentAfter, Frames, StreamIInv, SentWithin, SentStates
    <2>4. sent.usage + f.usage <= reply.usage /\ reply.usage \in 0 .. 1
      BY <1>1, ReplyType DEF MaySend, SentAfter, StreamIInv, StreamTypeOK
    <2> QED
      BY <1>1, <2>1, <2>2, <2>3, <2>4
  <1>8. /\ acc'.toolCalls = [c \in Calls |-> IF sent'.args[c] = -1 THEN NoCall
                                             ELSE [id |-> c, args |-> Pieces(sent'.args[c])]]
        /\ \E n \in 0 .. MaxCalls :
              acc'.order = Pieces(n) /\ \A c \in Calls : sent'.args[c] >= 0 <=> c <= n
        /\ acc'.order \in Seq(Calls)
    BY <1>1, CallsMerged
  <1>9. Accumulated'
    BY <1>5, <1>6, <1>7, <1>8 DEF Accumulated
  <1>10. acc'.text \in Seq(Nat)
    <2>1. sent'.text \in Nat /\ deltas' = Pieces(sent'.text)
      BY <1>2 DEF SentWithin, SentStates, Shown
    <2> QED
      BY <1>5, <2>1, PiecesAre
  <1>11. StreamTypeOK'
    BY <1>1, <1>8, <1>10 DEF StreamIInv, StreamTypeOK
  <1> QED
    BY <1>2, <1>3, <1>9, <1>11 DEF StreamIInv

\* and so does a delta of a responses stream.
LEMMA DeltaStep ==
    ASSUME StreamIInv, NEW f \in Frames, RecvDelta(f)
    PROVE  StreamIInv'
  <1>1. /\ api = "responses" /\ sent' = SentAfter(f)
        /\ body = "open" /\ ~sent.last
        /\ deltas' = Extend(deltas, f.text, sent.text + 1)
        /\ thoughts' = Extend(thoughts, f.reasoning, sent.reasoning + 1)
        /\ UNCHANGED <<api, reply, body, acc, done, final, outcome>>
    BY DEF RecvDelta, Reading
  <1>2. SentWithin' /\ Shown' /\ ~sent'.last
    BY <1>1, FrameReceived
  <1>3. FinalMade'
    BY <1>1, <1>2, FrameKeepsFinal
  <1>4. StreamTypeOK'
    BY <1>1 DEF StreamIInv, StreamTypeOK
  <1> QED
    BY <1>1, <1>2, <1>3, <1>4 DEF StreamIInv

\* What no frame changes stays as it was when the stream ends.
LEMMA NothingNew ==
    ASSUME StreamIInv, UNCHANGED <<api, reply, acc, deltas, thoughts>>,
           sent' = sent \/ sent' = [sent EXCEPT !.last = TRUE]
    PROVE  /\ SentWithin' /\ Shown' /\ (api' = "chat" => Accumulated')
           /\ sent'.text = sent.text /\ sent'.reasoning = sent.reasoning /\ sent'.args = sent.args
           /\ sent'.finish = sent.finish /\ sent'.usage = sent.usage
           /\ ChatFinal' = ChatFinal /\ parseRespMessage' = parseRespMessage
           /\ ContentSent(sent)' = ContentSent(sent)
  <1>1. sent \in SentStates
    BY DEF StreamIInv, SentWithin
  <1>2. /\ sent'.text = sent.text /\ sent'.reasoning = sent.reasoning /\ sent'.args = sent.args
        /\ sent'.finish = sent.finish /\ sent'.usage = sent.usage /\ sent' \in SentStates
    BY <1>1 DEF SentStates
  <1>3. SentWithin'
    BY <1>2 DEF StreamIInv, SentWithin
  <1>4. Shown'
    BY <1>2 DEF StreamIInv, Shown
  <1>5. api' = "chat" => Accumulated'
    BY <1>2 DEF StreamIInv, Accumulated
  <1>6. ChatFinal' = ChatFinal /\ parseRespMessage' = parseRespMessage
    BY DEF ChatFinal, parseRespMessage, ReplyCalls
  <1>7. ContentSent(sent)' = ContentSent(sent)
    BY <1>2 DEF ContentSent
  <1> QED
    BY <1>2, <1>3, <1>4, <1>5, <1>6, <1>7

\* Every step of a stream keeps the invariant: frames, other events, errors and the end.
LEMMA StreamStep ==
    ASSUME StreamIInv, [NextStream]_streamVars
    PROVE  StreamIInv'
  <1>1. ASSUME NEW f \in Frames, RecvChat(f) \/ RecvDelta(f) PROVE StreamIInv'
    BY <1>1, ChatStep, DeltaStep
  <1>2. ASSUME NEW how \in {"ended", "broken"}, BodyEnds(how) PROVE StreamIInv'
    <2> USE <1>2 DEF BodyEnds, hostVars
    <2>1. /\ SentWithin' /\ Shown' /\ (api' = "chat" => Accumulated')
          /\ ChatFinal' = ChatFinal /\ parseRespMessage' = parseRespMessage
          /\ ContentSent(sent)' = ContentSent(sent)
      BY NothingNew
    <2>2. FinalMade'
      BY <2>1 DEF StreamIInv, FinalMade, RespFinal
    <2>3. StreamTypeOK'
      BY DEF StreamIInv, StreamTypeOK
    <2> QED
      BY <2>1, <2>2, <2>3 DEF StreamIInv
  <1>3. ASSUME RecvFailed \/ RecvError PROVE StreamIInv'
    <2>1. UNCHANGED <<api, reply, sent, body, acc, done, deltas, thoughts, final>> /\ outcome' = "error"
      BY <1>3 DEF RecvFailed, RecvError
    <2>2. /\ SentWithin' /\ Shown' /\ (api' = "chat" => Accumulated')
          /\ ChatFinal' = ChatFinal /\ parseRespMessage' = parseRespMessage
          /\ ContentSent(sent)' = ContentSent(sent)
      BY <2>1, NothingNew
    <2>3. FinalMade'
      BY <2>1, <2>2 DEF StreamIInv, FinalMade, RespFinal
    <2>4. StreamTypeOK'
      BY <2>1 DEF StreamIInv, StreamTypeOK
    <2> QED
      BY <2>2, <2>3, <2>4 DEF StreamIInv
  <1>4. ASSUME RecvLast PROVE StreamIInv'
    <2>1. /\ body = "open" /\ outcome = "none" /\ ~sent.last
          /\ api = "chat" => ContentSent(sent) /\ sent.finish /\ sent.usage = reply.usage
          /\ sent' = [sent EXCEPT !.last = TRUE]
          /\ UNCHANGED <<api, reply, body, acc, deltas, thoughts>>
      BY <1>4 DEF RecvLast, Reading
    <2>2. ~done
      BY <2>1 DEF StreamIInv, FinalMade
    <2>3. /\ done' = TRUE /\ outcome' = outcome
          /\ final' = IF api = "chat" THEN ChatFinal ELSE RespFinal(TRUE)
      BY <1>4, <2>2 DEF RecvLast, FinalChunk
    <2>4. /\ SentWithin' /\ Shown' /\ (api' = "chat" => Accumulated')
          /\ sent'.text = sent.text /\ sent'.reasoning = sent.reasoning
          /\ sent'.finish = sent.finish /\ sent'.usage = sent.usage
          /\ ChatFinal' = ChatFinal /\ parseRespMessage' = parseRespMessage
          /\ ContentSent(sent)' = ContentSent(sent)
      BY <2>1, NothingNew
    <2>5. sent'.last = TRUE
      BY <2>1 DEF StreamIInv, SentWithin, SentStates
    <2>6. FinalMade'
      BY <2>1, <2>3, <2>4, <2>5 DEF FinalMade, RespFinal
    <2>7. StreamTypeOK'
      BY <2>1, <2>3 DEF StreamIInv, StreamTypeOK
    <2> QED
      BY <2>4, <2>6, <2>7 DEF StreamIInv
  <1>5. ASSUME RecvDone \/ RecvEOF PROVE StreamIInv'
    <2>1. /\ UNCHANGED <<api, reply, sent, body, acc, deltas, thoughts>>
          /\ sent.last \/ body = "ended"
      BY <1>5 DEF RecvDone, RecvEOF
    <2>2. /\ SentWithin' /\ Shown' /\ (api' = "chat" => Accumulated')
          /\ ChatFinal' = ChatFinal /\ parseRespMessage' = parseRespMessage
          /\ ContentSent(sent)' = ContentSent(sent)
      BY <2>1, NothingNew
    <2>3. CASE done
      <3>1. done' = done /\ final' = final /\ outcome' \in {"error", "ok"}
        BY <1>5, <2>3 DEF RecvDone, RecvEOF, FinalChunk
      <3>2. FinalMade'
        BY <2>1, <2>2, <2>3, <3>1 DEF StreamIInv, FinalMade, RespFinal
      <3>3. StreamTypeOK'
        BY <2>1, <3>1 DEF StreamIInv, StreamTypeOK
      <3> QED
        BY <2>2, <3>2, <3>3 DEF StreamIInv
    <2>4. CASE ~done
      <3>1. ~sent.last /\ RecvEOF
        BY <1>5, <2>4 DEF StreamIInv, FinalMade, RecvDone
      <3>2. /\ done' = TRUE /\ outcome' = outcome
            /\ final' = IF api = "chat" THEN ChatFinal ELSE RespFinal(FALSE)
        BY <2>4, <3>1 DEF RecvEOF, FinalChunk
      <3>3. FinalMade'
        BY <2>1, <2>2, <3>1, <3>2 DEF StreamIInv, FinalMade
      <3>4. StreamTypeOK'
        BY <2>1, <3>2 DEF StreamIInv, StreamTypeOK
      <3> QED
        BY <2>2, <3>3, <3>4 DEF StreamIInv
    <2> QED
      BY <2>3, <2>4
  <1>6. ASSUME Returned \/ UNCHANGED streamVars PROVE StreamIInv'
    <2>1. UNCHANGED <<api, reply, sent, body, acc, done, deltas, thoughts, final, outcome>>
      BY <1>6 DEF Returned, streamVars, hostVars
    <2>2. /\ SentWithin' /\ Shown' /\ (api' = "chat" => Accumulated')
          /\ ChatFinal' = ChatFinal /\ parseRespMessage' = parseRespMessage
          /\ ContentSent(sent)' = ContentSent(sent)
      BY <2>1, NothingNew
    <2>3. FinalMade'
      BY <2>1, <2>2 DEF StreamIInv, FinalMade, RespFinal
    <2>4. StreamTypeOK'
      BY <2>1 DEF StreamIInv, StreamTypeOK
    <2> QED
      BY <2>2, <2>3, <2>4 DEF StreamIInv
  <1> QED
    BY <1>1, <1>2, <1>3, <1>4, <1>5, <1>6 DEF NextStream, Recv

\* The calls of a reply that arrived whole are the calls of the reply.
LEMMA WholeReply ==
    ASSUME StreamIInv, api = "chat", sent.last
    PROVE  ChatFinal = Generated
  <1>1. /\ reply.text \in Nat /\ reply.reasoning \in Nat /\ reply.usage \in 0 .. 1
        /\ reply.args \in Seq(Nat) /\ Len(reply.args) <= MaxCalls /\ MaxCalls \in Nat
    BY ReplyType DEF StreamIInv, StreamTypeOK
  <1>2. ContentSent(sent) /\ sent.finish /\ sent.usage = reply.usage
    BY DEF StreamIInv, FinalMade
  <1>3. Accumulated /\ Shown /\ SentWithin
    BY DEF StreamIInv
  <1>4. acc.text = Pieces(reply.text) /\ acc.reasoning = Pieces(reply.reasoning)
    BY <1>2, <1>3 DEF Accumulated, Shown, ContentSent
  <1>5. acc.finish = reply.finish /\ acc.usage = reply.usage
    BY <1>1, <1>2, <1>3 DEF Accumulated
  <1>6. PICK n \in 0 .. MaxCalls : acc.order = Pieces(n) /\ \A c \in Calls : sent.args[c] >= 0 <=> c <= n
    BY <1>3 DEF Accumulated
  <1>7. n = Len(reply.args)
    <2>1. n >= Len(reply.args)
      <3>1. CASE Len(reply.args) = 0
        BY <1>1, <3>1
      <3>2. CASE Len(reply.args) # 0
        <4>1. Len(reply.args) \in 1 .. Len(reply.args) /\ Len(reply.args) \in Calls
          BY <1>1, <3>2 DEF Calls
        <4>2. sent.args[Len(reply.args)] >= 0
          BY <1>1, <1>2, <4>1 DEF ContentSent
        <4> QED
          BY <1>6, <4>1, <4>2
      <3> QED
        BY <3>1, <3>2
    <2>2. n <= Len(reply.args)
      <3>1. CASE n = 0
        BY <1>1, <3>1
      <3>2. CASE n # 0
        <4>1. n \in Calls
          BY <1>1, <3>2 DEF Calls
        <4> QED
          BY <1>3, <1>6, <4>1 DEF SentWithin
      <3> QED
        BY <3>1, <3>2
    <2> QED
      BY <1>1, <2>1, <2>2
  <1>8. n \in Nat /\ Len(acc.order) = n /\ \A k \in 1 .. n : acc.order[k] = k
    BY <1>1, <1>6, PiecesAre
  <1>9. ASSUME NEW k \in 1 .. n
        PROVE  acc.toolCalls[acc.order[k]] = [id |-> k, args |-> Pieces(reply.args[k])]
    <2>1. k \in Calls /\ acc.order[k] = k
      BY <1>1, <1>8 DEF Calls
    <2>2. sent.args[k] = reply.args[k] /\ reply.args[k] \in Nat
      BY <1>1, <1>2, <1>7 DEF ContentSent
    <2> QED
      BY <1>3, <2>1, <2>2 DEF Accumulated
  <1> DEFINE calls == [k \in 1 .. Len(acc.order) |-> acc.toolCalls[acc.order[k]]]
  <1>10. calls = ReplyCalls
    BY <1>7, <1>8, <1>9 DEF ReplyCalls
  <1>11. ChatFinal = [text |-> assistantText(acc.text, acc.reasoning, calls),
                      reasoning |-> acc.reasoning, calls |-> calls,
                      stop |-> mapStop(acc.finish), usage |-> acc.usage]
    BY DEF ChatFinal
  <1> HIDE DEF calls
  <1> QED
    BY <1>4, <1>5, <1>10, <1>11 DEF Generated

\* Under the invariant a stream that ended well has the message that Generate would return.
LEMMA StreamSame ==
    ASSUME StreamIInv
    PROVE  SameAsGenerate
  <1> SUFFICES ASSUME outcome = "ok"
               PROVE  /\ sent.last => final = Generated
                      /\ api = "chat" =>
                            /\ thoughts = final.reasoning
                            /\ \/ deltas = final.text
                               \/ deltas = <<>> /\ final.calls = <<>> /\ final.text = thoughts
    BY DEF SameAsGenerate
  <1>1. done
    BY DEF StreamIInv, FinalMade
  <1>2. CASE api = "chat"
    <2>1. final = ChatFinal /\ acc.text = deltas /\ acc.reasoning = thoughts
      BY <1>1, <1>2 DEF StreamIInv, FinalMade, Accumulated
    <2>2. sent.last => final = Generated
      BY <1>2, <2>1, WholeReply
    <2> DEFINE calls == [k \in 1 .. Len(acc.order) |-> acc.toolCalls[acc.order[k]]]
    <2>3. /\ final.reasoning = thoughts /\ final.calls = calls
          /\ final.text = assistantText(deltas, thoughts, calls)
      BY <2>1 DEF ChatFinal
    <2> HIDE DEF calls
    <2> QED
      BY <2>2, <2>3 DEF assistantText
  <1>3. CASE api # "chat" /\ sent.last
    <2>1. api = "responses"
      BY <1>3 DEF StreamIInv, StreamTypeOK
    <2>2. final = parseRespMessage
      BY <1>3, <2>1 DEF StreamIInv, FinalMade, RespFinal
    <2> QED
      BY <2>1, <2>2 DEF Generated
  <1> QED
    BY <1>2, <1>3

-----------------------------------------------------------------------------
(* Decisions                                                               *)

\* The first waits, up to the one before attempt n + 2.
IsDoubling(h, n) == /\ h \in [0 .. n -> Nat] /\ h[0] = FirstWait
                    /\ \A k \in 0 .. n : k # n => h[k + 1] = 2 * h[k]

\* For any number of waits there is one way to double them.
LEMMA DoublingExists ==
    ASSUME NEW n \in Nat
    PROVE  \E h : IsDoubling(h, n)
  <1> DEFINE M == {m \in Nat : \E h : IsDoubling(h, m)}
  <1>1. 0 \in M
    <2> DEFINE h == [k \in 0 .. 0 |-> FirstWait]
    <2>1. IsDoubling(h, 0)
      BY DecisionsAssumption DEF IsDoubling
    <2> QED
      BY <2>1
  <1>2. ASSUME NEW m \in Nat, m \in M
        PROVE  m + 1 \in M
    <2>1. PICK h : IsDoubling(h, m)
      BY <1>2
    <2> DEFINE g == [k \in 0 .. m + 1 |-> IF k = m + 1 THEN 2 * h[m] ELSE h[k]]
    <2>2. g \in [0 .. m + 1 -> Nat] /\ g[0] = FirstWait /\ g[m + 1] = 2 * h[m]
      BY <2>1 DEF IsDoubling
    <2>3. \A k \in 0 .. m : g[k] = h[k]
      BY <2>1
    <2>4. ASSUME NEW k \in 0 .. m + 1, k # m + 1
          PROVE  g[k + 1] = 2 * g[k]
      <3> HIDE DEF g
      <3>1. k \in 0 .. m /\ (k # m => k + 1 \in 0 .. m)
        BY <2>4
      <3>2. CASE k = m
        BY <2>2, <2>3, <3>1, <3>2
      <3>3. CASE k # m
        BY <2>1, <2>3, <3>1, <3>3 DEF IsDoubling
      <3> QED
        BY <3>2, <3>3
    <2> HIDE DEF g
    <2>5. IsDoubling(g, m + 1)
      BY <2>2, <2>4 DEF IsDoubling
    <2> QED
      BY <2>5
  <1> HIDE DEF M
  <1>3. n \in M
    BY <1>1, <1>2, NatSetInduction
  <1> QED
    BY <1>3 DEF M

\* The doubled back-off is the same however far it is computed.
LEMMA DoublingUnique ==
    ASSUME NEW n \in Nat, NEW g, NEW h, NEW m \in Nat, n <= m, IsDoubling(g, n), IsDoubling(h, m)
    PROVE  g[n] = h[n]
  <1> DEFINE M == {k \in Nat : k <= n => g[k] = h[k]}
  <1>1. 0 \in M
    BY DEF IsDoubling
  <1>2. ASSUME NEW k \in Nat, k \in M
        PROVE  k + 1 \in M
    <2>1. CASE k + 1 <= n
      <3>1. k \in 0 .. n /\ k # n /\ k \in 0 .. m /\ k # m
        BY <2>1
      <3>2. g[k + 1] = 2 * g[k] /\ h[k + 1] = 2 * h[k] /\ g[k] = h[k]
        BY <1>2, <2>1, <3>1 DEF IsDoubling
      <3> QED
        BY <3>2
    <2>2. CASE ~(k + 1 <= n)
      BY <2>2
    <2> QED
      BY <2>1, <2>2
  <1> HIDE DEF M
  <1>3. n \in M
    BY <1>1, <1>2, NatSetInduction
  <1> QED
    BY <1>3 DEF M

\* What the shift of do computes: each wait is twice the one before.
LEMMA DoubledStep ==
    /\ Doubled[0] = FirstWait
    /\ \A n \in Nat : Doubled[n] \in Nat /\ Doubled[n + 1] = 2 * Doubled[n]
  <1> DEFINE pick(n) == CHOOSE h : IsDoubling(h, n)
             g == [n \in Nat |-> pick(n)[n]]
             Rec(f) == f = [n \in Nat |-> IF n = 0 THEN FirstWait ELSE 2 * f[n - 1]]
  <1>1. ASSUME NEW n \in Nat PROVE IsDoubling(pick(n), n)
    BY DoublingExists
  <1> HIDE DEF pick
  <1>2. g[0] = FirstWait
    BY <1>1 DEF IsDoubling
  <1>3. ASSUME NEW n \in Nat PROVE g[n + 1] = 2 * g[n] /\ g[n] \in Nat
    <2>1. IsDoubling(pick(n), n) /\ IsDoubling(pick(n + 1), n + 1)
      BY <1>1
    <2>2. pick(n)[n] = pick(n + 1)[n]
      BY <2>1, DoublingUnique
    <2>3. pick(n + 1)[n + 1] = 2 * pick(n + 1)[n] /\ pick(n)[n] \in Nat
      BY <2>1 DEF IsDoubling
    <2> QED
      BY <2>2, <2>3
  <1>4. Rec(g)
    <2>1. ASSUME NEW n \in Nat PROVE g[n] = IF n = 0 THEN FirstWait ELSE 2 * g[n - 1]
      <3>1. CASE n = 0
        BY <1>2, <3>1
      <3>2. CASE n # 0
        <4>1. n - 1 \in Nat /\ (n - 1) + 1 = n
          BY <3>2
        <4>2. g[(n - 1) + 1] = 2 * g[n - 1]
          BY <1>3, <4>1
        <4> HIDE DEF g
        <4> QED
          BY <3>2, <4>1, <4>2
      <3> QED
        BY <3>1, <3>2
    <2>2. g = [n \in Nat |-> g[n]]
      OBVIOUS
    <2> HIDE DEF g
    <2> QED
      BY <2>1, <2>2
  <1> HIDE DEF g
  <1>5. Doubled = CHOOSE f : Rec(f)
    BY DEF Doubled
  <1>6. Rec(Doubled)
    <2> HIDE DEF Rec
    <2> QED
      BY <1>4, <1>5
  <1>7. /\ Doubled[0] = FirstWait
        /\ \A n \in Nat : n # 0 => Doubled[n] = 2 * Doubled[n - 1]
    BY <1>6
  <1>8. ASSUME NEW n \in Nat PROVE Doubled[n + 1] = 2 * Doubled[n]
    BY <1>7
  <1> DEFINE M == {n \in Nat : Doubled[n] \in Nat}
  <1>9. 0 \in M
    BY <1>7, DecisionsAssumption
  <1>10. \A n \in Nat : n \in M => n + 1 \in M
    BY <1>8
  <1>11. \A n \in Nat : n \in M
    <2> HIDE DEF M
    <2> QED
      BY <1>9, <1>10, NatSetInduction
  <1> QED
    BY <1>7, <1>8, <1>11

\* A further wait adds itself to the sum.
LEMMA SumAppended ==
    ASSUME NEW w \in Seq(Nat), NEW x \in Nat
    PROVE  SumFunction(Append(w, x)) = SumFunction(w) + x /\ SumFunction(w) \in Nat
  <1> DEFINE n == Len(w)
             v == Append(w, x)
  <1>1. /\ n \in Nat /\ DOMAIN w = 1 .. n /\ v \in Seq(Nat) /\ DOMAIN v = 1 .. n + 1 /\ v[n + 1] = x
        /\ \A k \in 1 .. n : v[k] = w[k] /\ w[k] \in Nat
        /\ \A k \in 1 .. n + 1 : v[k] \in Nat
    OBVIOUS
  <1>2. n + 1 \in 1 .. n + 1 /\ (1 .. n + 1) \ {n + 1} = 1 .. n
    BY <1>1
  <1>3. IsFiniteSet(1 .. n) /\ IsFiniteSet(1 .. n + 1)
    BY <1>1, FS_Interval
  <1> HIDE DEF n, v
  <1>4. SumFunctionOnSet(v, 1 .. n + 1) = v[n + 1] + SumFunctionOnSet(v, 1 .. n)
    BY <1>1, <1>2, <1>3, SumTerm
  <1>5. SumFunctionOnSet(v, 1 .. n) = SumFunctionOnSet(w, 1 .. n)
    BY <1>1, <1>3, SumSame
  <1>6. SumFunctionOnSet(w, 1 .. n) \in Nat
    BY <1>1, <1>3, SumType
  <1> QED
    BY <1>1, <1>4, <1>5, <1>6 DEF SumFunction, v

\* A wait that is twice the last one keeps the waits doubling, and their sum below twice it.
LEMMA WaitDoubles ==
    ASSUME NEW w \in Seq(Nat), \A k \in 1 .. Len(w) : w[k] = Doubled[k - 1],
           w # <<>> => SumFunction(w) = 2 * w[Len(w)] - FirstWait,
           NEW v, v = Append(w, WaitBefore(Len(w) + 1))
    PROVE  /\ v \in Seq(Nat) /\ Len(v) = Len(w) + 1 /\ v # <<>>
           /\ \A k \in 1 .. Len(v) : v[k] = Doubled[k - 1]
           /\ SumFunction(v) = 2 * v[Len(v)] - FirstWait
  <1> DEFINE n == Len(w)
             x == Doubled[n]
  <1>1. n \in Nat /\ WaitBefore(n + 1) = x /\ x \in Nat /\ FirstWait \in Nat
    BY DoubledStep, DecisionsAssumption DEF WaitBefore
  <1>2. v = Append(w, x) /\ v \in Seq(Nat) /\ Len(v) = n + 1 /\ v[n + 1] = x /\ v # <<>>
    BY <1>1
  <1>3. ASSUME NEW k \in 1 .. Len(v) PROVE v[k] = Doubled[k - 1]
    <2>1. CASE k = n + 1
      BY <1>1, <1>2, <2>1
    <2>2. CASE k # n + 1
      <3>1. k \in 1 .. n
        BY <1>1, <1>2, <2>2
      <3>2. v[k] = w[k]
        BY <1>2, <3>1
      <3> QED
        BY <3>1, <3>2
    <2> QED
      BY <2>1, <2>2
  <1> HIDE DEF x
  <1>4. SumFunction(v) = SumFunction(w) + x /\ SumFunction(w) \in Nat
    BY <1>1, <1>2, SumAppended
  <1>5. SumFunction(w) + x = 2 * x - FirstWait
    <2>1. CASE w = <<>>
      <3>1. DOMAIN w = {} /\ n = 0
        BY <2>1
      <3>2. SumFunction(w) = 0
        BY <3>1, SumEmpty DEF SumFunction
      <3>3. x = FirstWait
        BY <3>1, DoubledStep DEF x
      <3> QED
        BY <1>1, <3>2, <3>3
    <2>2. CASE w # <<>>
      <3>1. n \in 1 .. Len(w) /\ n - 1 \in Nat /\ (n - 1) + 1 = n
        BY <2>2
      <3>2. w[n] = Doubled[n - 1] /\ w[n] \in Nat
        BY <3>1
      <3>3. x = 2 * w[n]
        BY <3>1, <3>2, DoubledStep DEF x
      <3>4. SumFunction(w) = 2 * w[n] - FirstWait
        BY <2>2
      <3> QED
        BY <1>1, <3>2, <3>3, <3>4
    <2> QED
      BY <2>1, <2>2
  <1> QED
    BY <1>2, <1>3, <1>4, <1>5

\* No Decide has begun.
LEMMA DecisionsInit ==
    ASSUME InitDecisions
    PROVE  DecisionsIInv
  <1> USE DEF InitDecisions
  <1>1. retries \in Int /\ decide \in [Deciders -> Decision]
    BY DecisionsAssumption DEF Decision
  <1>2. \A d \in Deciders : decide[d].waits = <<>> /\ decide[d].result = "none" /\ decide[d].pc = "idle"
    OBVIOUS
  <1>3. WaitsDouble /\ ResultLast /\ RetriesMade
    BY <1>2 DEF WaitsDouble, ResultLast, RetriesMade, Transient
  <1> QED
    BY <1>1, <1>3 DEF DecisionsIInv

\* A step of one Decide that leaves its waits alone: it is enough to look at what it returned.
LEMMA DecisionKept ==
    ASSUME DecisionsIInv, NEW d \in Deciders, NEW e \in Decision, decide' = [decide EXCEPT ![d] = e],
           UNCHANGED retries, e.waits = decide[d].waits,
           e.pc # "idle", e.pc # "done" => e.result = "none",
           e.pc \in {"post", "wait"} => retries >= 0,
           e.result \in Transient => Len(e.waits) = retries
    PROVE  DecisionsIInv'
  <1>1. retries' \in Int /\ decide' \in [Deciders -> Decision]
    BY DEF DecisionsIInv
  <1>2. decide'[d] = e /\ \A b \in Deciders : b # d => decide'[b] = decide[b]
    BY DEF DecisionsIInv
  <1>3. WaitsDouble'
    BY <1>2 DEF DecisionsIInv, WaitsDouble
  <1>4. ResultLast'
    BY <1>2 DEF DecisionsIInv, ResultLast
  <1>5. RetriesMade'
    BY <1>2 DEF DecisionsIInv, RetriesMade
  <1> QED
    BY <1>1, <1>3, <1>4, <1>5 DEF DecisionsIInv

\* Every step of a Decide, and of who cancels it, keeps the invariant.
LEMMA DecisionsStep ==
    ASSUME DecisionsIInv, [NextDecisions]_decideVars
    PROVE  DecisionsIInv'
  <1>0. \A d \in Deciders : /\ decide[d] \in Decision /\ decide[d].waits \in Seq(Nat)
                            /\ decide \in [Deciders -> Decision]
    BY DEF DecisionsIInv, Decision
  <1>1. ASSUME NEW d \in Deciders, NEW r \in Final \cup Transient \cup {"invalid", "canceled"},
               Returns(d, r), UNCHANGED retries, r \in Transient => Len(decide[d].waits) = retries
        PROVE  DecisionsIInv'
    <2> DEFINE e == [decide[d] EXCEPT !.pc = "done", !.result = r]
    <2>1. decide' = [decide EXCEPT ![d] = e]
      BY <1>0, <1>1 DEF Returns
    <2>2. e \in Decision /\ e.waits = decide[d].waits /\ e.pc = "done" /\ e.result = r
      BY <1>0 DEF Decision
    <2> HIDE DEF e
    <2> QED
      BY <1>1, <2>1, <2>2, DecisionKept
  <1>2. ASSUME NEW d \in Deciders, NEW p \in {"post"}, retries >= 0, decide[d].pc # "done",
               decide' = [decide EXCEPT ![d].pc = p], UNCHANGED retries
        PROVE  DecisionsIInv'
    <2> DEFINE e == [decide[d] EXCEPT !.pc = p]
    <2>1. decide' = [decide EXCEPT ![d] = e]
      BY <1>0, <1>2
    <2>2. e \in Decision /\ e.waits = decide[d].waits /\ e.pc = p /\ e.result = decide[d].result
      BY <1>0 DEF Decision
    <2>3. decide[d].result = "none"
      BY <1>2 DEF DecisionsIInv, ResultLast
    <2> HIDE DEF e
    <2> QED
      BY <1>2, <2>1, <2>2, <2>3, DecisionKept DEF Transient
  <1>3. ASSUME NEW d \in Deciders, Decide(d) PROVE DecisionsIInv'
    <2>1. CASE Returns(d, "invalid")
      BY <1>1, <1>3, <2>1 DEF Decide, Transient
    <2>2. CASE Returns(d, "undecodable")
      BY <1>1, <1>3, <2>2 DEF Decide, Transient, Final
    <2>3. CASE retries >= 0 /\ decide' = [decide EXCEPT ![d].pc = "post"]
      BY <1>2, <1>3, <2>3 DEF Decide
    <2> QED
      BY <1>3, <2>1, <2>2, <2>3 DEF Decide
  <1>4. ASSUME NEW d \in Deciders, Post(d) PROVE DecisionsIInv'
    <2> DEFINE w == decide[d].waits
    <2>1. decide[d].pc = "post" /\ retries' = retries
      BY <1>4 DEF Post
    <2>2. PICK r \in Transient \cup Final :
             IF r \in Transient /\ Len(w) < retries
             THEN decide' = [decide EXCEPT ![d].pc = "wait", ![d].waits = Append(@, WaitBefore(Len(w) + 1))]
             ELSE Returns(d, r)
      BY <1>4 DEF Post
    <2>3. retries \in Int /\ retries >= 0 /\ w \in Seq(Nat) /\ (w # <<>> => Len(w) <= retries)
      BY <1>0, <2>1 DEF DecisionsIInv, ResultLast, WaitsDouble
    <2>4. CASE r \in Transient /\ Len(w) < retries
      <3> DEFINE v == Append(w, WaitBefore(Len(w) + 1))
                 e == [decide[d] EXCEPT !.pc = "wait", !.waits = v]
      <3>1. /\ \A k \in 1 .. Len(w) : w[k] = Doubled[k - 1]
            /\ w # <<>> => SumFunction(w) = 2 * w[Len(w)] - FirstWait
        BY DEF DecisionsIInv, WaitsDouble, RetriesMade
      <3>2. /\ v \in Seq(Nat) /\ Len(v) = Len(w) + 1 /\ v # <<>>
            /\ \A k \in 1 .. Len(v) : v[k] = Doubled[k - 1]
            /\ SumFunction(v) = 2 * v[Len(v)] - FirstWait
        <4> HIDE DEF w, v
        <4> QED
          BY <2>3, <3>1, WaitDoubles DEF v
      <3>3. decide' = [decide EXCEPT ![d] = e]
        BY <1>0, <2>2, <2>4
      <3>4. decide[d].result = "none"
        BY <2>1 DEF DecisionsIInv, ResultLast
      <3>5. e \in Decision /\ e.waits = v /\ e.pc = "wait" /\ e.result = "none"
        <4> HIDE DEF v
        <4> QED
          BY <1>0, <3>2, <3>4 DEF Decision
      <3> HIDE DEF v, e, w
      <3>6. decide' \in [Deciders -> Decision]
        BY <1>0, <3>3, <3>5
      <3>7. decide'[d] = e /\ \A b \in Deciders : b # d => decide'[b] = decide[b]
        BY <1>0, <3>3
      <3>8. Len(v) <= retries
        BY <2>3, <2>4, <3>2
      <3>9. WaitsDouble'
        <4>1. ASSUME NEW b \in Deciders, b = d
              PROVE  /\ \A k \in 1 .. Len(decide'[b].waits) : decide'[b].waits[k] = Doubled[k - 1]
                     /\ Len(decide'[b].waits) <= retries' /\ decide'[b].pc # "idle"
          BY <2>1, <3>2, <3>5, <3>7, <3>8, <4>1
        <4> QED
          BY <2>1, <3>7, <4>1 DEF DecisionsIInv, WaitsDouble
      <3>10. ResultLast'
        BY <2>1, <2>3, <3>5, <3>7 DEF DecisionsIInv, ResultLast
      <3>11. RetriesMade'
        <4>1. "none" \notin Transient
          BY DEF Transient
        <4> QED
          BY <2>1, <3>2, <3>5, <3>7, <4>1 DEF DecisionsIInv, RetriesMade
      <3> QED
        BY <2>1, <3>6, <3>9, <3>10, <3>11 DEF DecisionsIInv
    <2>5. CASE ~(r \in Transient /\ Len(w) < retries)
      <3>1. Returns(d, r) /\ (r \in Transient => Len(w) = retries)
        <4>1. r \in Transient => ~(Len(w) < retries)
          BY <2>5
        <4>2. Len(w) <= retries /\ Len(w) \in Nat
          BY <2>3
        <4> QED
          BY <2>2, <2>3, <2>5, <4>1, <4>2
      <3> QED
        BY <1>1, <2>1, <3>1
    <2> QED
      BY <2>4, <2>5
  <1>5. ASSUME NEW d \in Deciders, Wait(d) PROVE DecisionsIInv'
    <2>1. retries >= 0 /\ decide[d].pc = "wait" /\ retries' = retries
      BY <1>5 DEF Wait, DecisionsIInv, ResultLast
    <2>2. CASE decide' = [decide EXCEPT ![d].pc = "post"]
      BY <1>2, <2>1, <2>2
    <2>3. CASE Returns(d, "canceled")
      BY <1>1, <2>1, <2>3 DEF Transient
    <2> QED
      BY <1>5, <2>2, <2>3 DEF Wait
  <1>6. ASSUME NEW d \in Deciders, CancelDecide(d) PROVE DecisionsIInv'
    <2> DEFINE e == [decide[d] EXCEPT !.canceled = TRUE]
    <2>1. /\ decide' = [decide EXCEPT ![d] = e] /\ retries' = retries
          /\ decide[d].pc \in {"post", "wait"}
      BY <1>0, <1>6 DEF CancelDecide
    <2>2. /\ e \in Decision /\ e.waits = decide[d].waits /\ e.pc = decide[d].pc
          /\ e.result = decide[d].result
      BY <1>0 DEF Decision
    <2>3. decide[d].result = "none" /\ retries >= 0
      BY <2>1 DEF DecisionsIInv, ResultLast
    <2> HIDE DEF e
    <2> QED
      BY <2>1, <2>2, <2>3, DecisionKept DEF Transient
  <1>7. ASSUME UNCHANGED decideVars PROVE DecisionsIInv'
    BY <1>7 DEF decideVars, DecisionsIInv, WaitsDouble, ResultLast, RetriesMade
  <1> QED
    BY <1>3, <1>4, <1>5, <1>6, <1>7 DEF NextDecisions, Decided

-----------------------------------------------------------------------------
(* ModelCalls                                                              *)

\* No call has been made and every slot is free.
LEMMA ClientInit ==
    ASSUME Init
    PROVE  IInv
  <1> USE DEF Init, Everyone
  <1>1. TypeOK
    BY BackoffAssumption, LimitAssumption DEF TypeOK
  <1>2. SlotsExact
    BY FS_EmptySet, LimitAssumption DEF SlotsExact
  <1>3. AttemptsCounted /\ WaitsInRange /\ GivesUpLast
    BY DEF AttemptsCounted, WaitsInRange, GivesUpLast
  <1> QED
    BY <1>1, <1>2, <1>3 DEF IInv

\* The inductive invariants of the model client, of a stream and of the jev client hold in every
\* state of the calls to endpoints, of any number of callers (run.go generate, jev.go Decide).
THEOREM CallsInvariantHolds == CallsSpec => [](IInv /\ StreamIInv /\ DecisionsIInv)
  <1>1. ChooseCalls => IInv /\ StreamIInv /\ DecisionsIInv
    BY ClientInit, StreamInit, DecisionsInit DEF ChooseCalls
  <1>2. IInv /\ StreamIInv /\ DecisionsIInv /\ [Generating \/ Streaming \/ Deciding]_callVars
           => (IInv /\ StreamIInv /\ DecisionsIInv)'
    <2> SUFFICES ASSUME IInv, StreamIInv, DecisionsIInv, [Generating \/ Streaming \/ Deciding]_callVars
                 PROVE  IInv' /\ StreamIInv' /\ DecisionsIInv'
      OBVIOUS
    <2>1. [Next]_vars /\ [NextStream]_streamVars /\ [NextDecisions]_decideVars
      BY DEF Generating, Streaming, Deciding, callVars
    <2> QED
      BY <2>1, ClientStep, StreamStep, DecisionsStep
  <1> QED
    BY <1>1, <1>2, PTL DEF CallsSpec

\* The client's semaphore (do in openai.go): for any number of callers, whatever each meets and
\* whenever it is canceled, the slots taken are exactly those of the calls that hold one, and
\* never more than MaxConcurrency.
THEOREM SlotsHeldExactly == CallsSpec => []SlotsExact
  <1>1. IInv => SlotsExact
    BY DEF IInv
  <1> QED
    BY <1>1, CallsInvariantHolds, PTL

\* Whatever an endpoint says, and for any number of retries: the model client waits between floor
\* and ceiling (nextWait, openai.go); the jev client makes all its retries before it gives up on
\* what may pass, and its waits add up to less than twice the last one (do, jev.go).
THEOREM WaitsAreBounded == CallsSpec => []WaitsBounded
  <1>1. IInv /\ DecisionsIInv => WaitsBounded
    BY DEF IInv, DecisionsIInv, WaitsBounded
  <1> QED
    BY <1>1, CallsInvariantHolds, PTL

\* A streamed reply of any length, in any frames, that arrived whole is the response that
\* Generate would have returned, and a chat stream recorded what the host was shown, even if it
\* ended early (Recv, finalChunk, generateStream).
THEOREM StreamsAsGenerate == CallsSpec => []SameAsGenerate
  BY CallsInvariantHolds, StreamSame, PTL

-----------------------------------------------------------------------------
(* SharedMemory                                                            *)

\* Every salience counts as one between 1 and 100.
LEMMA SalienceRange ==
    ASSUME NEW s \in Int
    PROVE  effectiveSalience(s) \in 1 .. 100
  BY DEF effectiveSalience

\* rank is a strict total order: no two records were written at the same time.
LEMMA RankOrders ==
    ASSUME MemoryTypeOK, RecordsOK, NEW ids \in SUBSET DOMAIN recs
    PROVE  Orders({p \in ids \X ids : Before(p[1], p[2])}, ids)
  <1> DEFINE R == {p \in ids \X ids : Before(p[1], p[2])}
             sal(i) == effectiveSalience(recs[i].salience)
  <1>1. \A i \in ids : sal(i) \in Int /\ recs[i].updated \in Int
    BY SalienceRange DEF MemoryTypeOK, RecordsOK
  <1>2. \A i, j \in ids : recs[i].updated = recs[j].updated => i = j
    BY DEF RecordsOK
  <1>3. \A i, j \in ids :
            Before(i, j) <=> (sal(i) > sal(j) \/ (sal(i) = sal(j) /\ recs[i].updated > recs[j].updated))
    BY DEF Before
  <1>4. \A i, j \in ids : <<i, j>> \in R <=> Before(i, j)
    OBVIOUS
  <1> HIDE DEF R, sal
  <1>5. \A i \in ids : <<i, i>> \notin R
    BY <1>1, <1>3, <1>4
  <1>6. \A i, j \in ids : i # j => <<i, j>> \in R \/ <<j, i>> \in R
    BY <1>1, <1>2, <1>3, <1>4
  <1>7. \A i, j, k \in ids : <<i, j>> \in R /\ <<j, k>> \in R => <<i, k>> \in R
    BY <1>1, <1>3, <1>4
  <1> QED
    BY <1>5, <1>6, <1>7 DEF Orders, R

\* q lists ids, each once, in the order of rank.
IsRanking(q, ids) ==
    /\ q \in Seq(ids)
    /\ \A j, k \in 1 .. Len(q) : j < k => Before(q[j], q[k])
    /\ \A j, k \in 1 .. Len(q) : q[j] = q[k] => j = k
    /\ \A i \in ids : \E k \in 1 .. Len(q) : q[k] = i

\* Ranked returns every record once, in the order of rank.
LEMMA RankedAll ==
    ASSUME MemoryTypeOK, RecordsOK, NEW ids \in SUBSET DOMAIN recs
    PROVE  IsRanking(Ranked(ids), ids)
  <1> DEFINE R == {p \in ids \X ids : Before(p[1], p[2])}
             n == Cardinality(ids)
             q == Ranked(ids)
  <1>1. IsFiniteSet(ids)
    BY FS_Subset DEF RecordsOK
  <1>2. n \in Nat
    BY <1>1, FS_CardinalityType
  <1>3. Orders(R, ids)
    BY RankOrders
  <1>4. \A i, j \in ids : <<i, j>> \in R <=> Before(i, j)
    OBVIOUS
  <1> HIDE DEF R
  <1>5. \E u \in [1 .. n -> ids] : \A j, k \in DOMAIN u : j < k => <<u[j], u[k]>> \in R
    BY <1>1, <1>3, SortedExists
  <1>6. \E u \in [1 .. n -> ids] : \A j, k \in DOMAIN u : j < k => Before(u[j], u[k])
    BY <1>4, <1>5
  <1>7. q \in [1 .. n -> ids] /\ \A j, k \in DOMAIN q : j < k => Before(q[j], q[k])
    BY <1>6 DEF Ranked
  <1> HIDE DEF q
  <1>8. \A j, k \in DOMAIN q : q[j] = q[k] => j = k
    <2> SUFFICES ASSUME NEW j \in 1 .. n, NEW k \in 1 .. n, j < k, q[j] = q[k] PROVE FALSE
      BY <1>7
    <2>1. <<q[j], q[k]>> \in R /\ q[k] \in ids
      BY <1>4, <1>7
    <2> QED
      BY <1>3, <2>1 DEF Orders
  <1>9. \A i \in ids : \E k \in 1 .. n : q[k] = i
    BY <1>1, <1>7, <1>8, SortedIsAll
  <1> HIDE DEF n
  <1>10. q \in Seq(ids) /\ Len(q) = n /\ DOMAIN q = 1 .. n
    BY <1>2, <1>7
  <1> QED
    BY <1>7, <1>8, <1>9, <1>10 DEF q, IsRanking

\* Query returns records of the store.
LEMMA QueryFound ==
    ASSUME MemoryTypeOK, RecordsOK, NEW q, q.limit \in Int
    PROVE  Query(q) \in Seq(DOMAIN recs)
  <1> DEFINE ids == {i \in DOMAIN recs : matches(recs[i], q)}
             w == Ranked(ids)
  <1>1. w \in Seq(ids) /\ ids \subseteq DOMAIN recs
    BY RankedAll DEF IsRanking
  <1>2. w \in Seq(DOMAIN recs)
    <2> DEFINE D == DOMAIN recs
    <2>1. ids \subseteq D
      OBVIOUS
    <2> HIDE DEF ids, w, D
    <2>2. w \in Seq(D)
      BY <1>1, <2>1
    <2> QED
      BY <2>2 DEF D
  <1>3. Query(q) = IF q.limit > 0 /\ Len(w) > q.limit THEN SubSeq(w, 1, q.limit) ELSE w
    BY DEF Query
  <1> HIDE DEF w
  <1>4. \A m \in Int : m > 0 /\ Len(w) > m => SubSeq(w, 1, m) \in Seq(DOMAIN recs)
    <2> DEFINE D == DOMAIN recs
    <2>1. w \in Seq(D)
      BY <1>2
    <2> HIDE DEF D
    <2>2. \A m \in Int : m > 0 /\ Len(w) > m => SubSeq(w, 1, m) \in Seq(D)
      BY <2>1
    <2> QED
      BY <2>2 DEF D
  <1> QED
    BY <1>2, <1>3, <1>4

\* What Preamble takes: there is a last record that the budget holds.
LEMMA PreambleTaken ==
    ASSUME NEW found \in Seq(DOMAIN recs)
    PROVE  \E n \in 0 .. Len(found) : FitsBudget(found, n) /\ (n < Len(found) => ~FitsBudget(found, n + 1))
  <1> DEFINE T == {n \in 0 .. Len(found) : ~FitsBudget(found, n)}
  <1>1. FitsBudget(found, 0)
    BY DEF FitsBudget
  <1>2. CASE T = {}
    <2>1. Len(found) \in 0 .. Len(found)
      OBVIOUS
    <2>2. FitsBudget(found, Len(found))
      BY <1>2, <2>1
    <2> QED
      BY <2>1, <2>2
  <1>3. CASE T # {}
    <2>1. PICK m \in T : \A y \in T : m <= y
      <3>1. T \subseteq Nat
        OBVIOUS
      <3> HIDE DEF T
      <3> QED
        BY <1>3, <3>1, LeastOf
    <2>2. m \in 1 .. Len(found) /\ ~FitsBudget(found, m)
      BY <1>1, <2>1
    <2>3. m - 1 \in 0 .. Len(found) /\ m - 1 \notin T /\ (m - 1) + 1 = m
      BY <2>1, <2>2
    <2> QED
      BY <2>2, <2>3
  <1> QED
    BY <1>2, <1>3

\* Preamble(Everything): from the first of all the records in the order of rank, as many as the budget holds.
LEMMA PreambleIs ==
    ASSUME MemoryTypeOK, RecordsOK
    PROVE  LET found == Ranked(DOMAIN recs) IN
           \E n \in 0 .. Len(found) :
              /\ Preamble(Everything) = SubSeq(found, 1, n)
              /\ n < Len(found) => ~FitsBudget(found, n + 1)
              /\ DOMAIN recs # {} => n # 0 /\ Len(found) # 0
  <1> DEFINE found == Ranked(DOMAIN recs)
  <1>1. {i \in DOMAIN recs : matches(recs[i], Everything)} = DOMAIN recs
    BY DEF matches, Everything, RecordsOK
  <1>2. Query(Everything) = found
    <2>1. ~(Everything.limit > 0)
      BY DEF Everything
    <2> QED
      BY <1>1, <2>1 DEF Query
  <1>3. found \in Seq(DOMAIN recs)
    BY RankedAll DEF IsRanking
  <1> HIDE DEF found
  <1> DEFINE w == CHOOSE n \in 0 .. Len(found) :
                     FitsBudget(found, n) /\ (n < Len(found) => ~FitsBudget(found, n + 1))
  <1>4. w \in 0 .. Len(found) /\ (w < Len(found) => ~FitsBudget(found, w + 1))
    BY <1>3, PreambleTaken
  <1>5. Preamble(Everything) = SubSeq(found, 1, w)
    BY <1>2 DEF Preamble
  <1> HIDE DEF w
  <1>6. DOMAIN recs # {} => Len(found) # 0
    BY <1>3, RankedAll DEF found, IsRanking
  <1>7. FitsBudget(found, 1)
    BY DEF FitsBudget
  <1>8. DOMAIN recs # {} => w # 0
    BY <1>3, <1>4, <1>6, <1>7
  <1> QED
    BY <1>4, <1>5, <1>6, <1>8 DEF found

\* A record of the highest salience is ranked after others of the highest salience only.
LEMMA HighestFirst ==
    ASSUME MemoryTypeOK, RecordsOK, NEW i \in DOMAIN recs, NEW j \in DOMAIN recs,
           effectiveSalience(recs[i].salience) = 100, Before(j, i)
    PROVE  effectiveSalience(recs[j].salience) = 100
  <1>1. effectiveSalience(recs[j].salience) \in 1 .. 100
    BY SalienceRange DEF RecordsOK
  <1> QED
    BY <1>1 DEF Before

\* When the budget holds all that the remember tool can file, Preamble shows every record of the
\* highest salience.
LEMMA PreambleShows ==
    ASSUME MemoryTypeOK, RecordsOK, BudgetHolds, NEW i \in DOMAIN recs,
           effectiveSalience(recs[i].salience) = 100
    PROVE  Version(i) \in Versions(Preamble(Everything))
  <1> DEFINE D == DOMAIN recs
             found == Ranked(D)
             f == [x \in RememberIDs |-> LineCost[x[2]]]
  <1>1. /\ found \in Seq(D)
        /\ \A j, k \in 1 .. Len(found) : j < k => Before(found[j], found[k])
        /\ \A j, k \in 1 .. Len(found) : found[j] = found[k] => j = k
        /\ \A x \in D : \E k \in 1 .. Len(found) : found[k] = x
    <2>1. D \in SUBSET DOMAIN recs
      OBVIOUS
    <2> HIDE DEF D
    <2>2. IsRanking(found, D)
      BY <2>1, RankedAll
    <2> HIDE DEF found
    <2> QED
      BY <2>2 DEF IsRanking
  <1>2. PICK n \in 0 .. Len(found) : /\ Preamble(Everything) = SubSeq(found, 1, n)
                                     /\ n < Len(found) => ~FitsBudget(found, n + 1)
    BY PreambleIs
  <1> HIDE DEF found
  <1>3. PICK m \in 1 .. Len(found) : found[m] = i
    BY <1>1
  <1>4. \A k \in 1 .. m : found[k] \in RememberIDs /\ recs[found[k]].text = found[k][2]
    <2> SUFFICES ASSUME NEW k \in 1 .. m
                 PROVE  found[k] \in RememberIDs /\ recs[found[k]].text = found[k][2]
      OBVIOUS
    <2>1. k \in 1 .. Len(found) /\ found[k] \in DOMAIN recs /\ (k = m \/ k < m)
      <3>1. k \in 1 .. Len(found) /\ (k = m \/ k < m)
        BY <1>3
      <3>2. found \in Seq(D)
        BY <1>1
      <3> HIDE DEF D
      <3>3. found[k] \in D
        BY <3>1, <3>2
      <3> QED
        BY <3>1, <3>3 DEF D
    <2>2. k < m => Before(found[k], i)
      BY <1>1, <1>3, <2>1
    <2>3. effectiveSalience(recs[found[k]].salience) = 100
      BY <1>3, <2>1, <2>2, HighestFirst
    <2> QED
      BY <2>1, <2>3 DEF RecordsOK
  <1>5. ASSUME PreambleBudget > 0, NEW k \in 1 .. m
        PROVE  TokensUsed(found, k) <= PreambleBudget
    <2> DEFINE q == [x \in 1 .. k |-> found[x]]
               F == [x \in 1 .. k |-> f[q[x]]]
               T == {q[x] : x \in 1 .. k}
    <2>1. k \in Nat /\ \A x \in 1 .. k : x \in 1 .. m /\ x \in 1 .. Len(found)
      BY <1>3
    <2>2. q \in [1 .. k -> RememberIDs] /\ \A x, y \in 1 .. k : q[x] = q[y] => x = y
      BY <1>1, <1>4, <2>1
    <2>3. \A x \in RememberIDs : x[2] \in Texts
      BY DEF RememberIDs, contentID
    <2>4. \A x \in RememberIDs : f[x] \in Nat
      BY <2>3, BudgetAssumption
    <2>5. IsFiniteSet(RememberIDs) /\ HeaderCost + SumFunction(f) <= PreambleBudget
      BY <1>5 DEF BudgetHolds
    <2>6. SumFunction(f) = SumFunctionOnSet(f, RememberIDs)
      BY DEF SumFunction
    <2>7. [x \in 1 .. k |-> LineCost[recs[found[x]].text]] = F
      BY <1>4, <2>1
    <2>8. TokensUsed(found, k) = HeaderCost + SumFunctionOnSet(F, 1 .. k)
      BY <2>7 DEF TokensUsed, SumFunction
    <2> HIDE DEF f
    <2>9. IsFiniteSet(T) /\ SumFunctionOnSet(F, 1 .. k) = SumFunctionOnSet(f, T)
      <3>1. \A x \in RememberIDs : f[x] \in Int
        BY <2>4
      <3>2. \A x \in 1 .. k : F[x] = f[q[x]]
        OBVIOUS
      <3>3. \A y : y \in T <=> \E x \in 1 .. k : q[x] = y
        OBVIOUS
      <3> HIDE DEF q, F, T
      <3>4. Places(RememberIDs, f, k, q, F, T)
        BY <2>1, <2>2, <3>1, <3>2, <3>3 DEF Places
      <3> QED
        BY <3>4, SumOfPlaces
    <2>10. T \in SUBSET RememberIDs
      BY <2>2
    <2> HIDE DEF T, F, q
    <2>11. SumFunctionOnSet(f, T) <= SumFunctionOnSet(f, RememberIDs)
      BY <2>4, <2>5, <2>10, SumPart
    <2>12. SumFunctionOnSet(f, T) \in Nat /\ SumFunctionOnSet(f, RememberIDs) \in Nat
      BY <2>4, <2>5, <2>9, <2>10, SumType
    <2> QED
      BY <2>5, <2>6, <2>8, <2>9, <2>11, <2>12, BudgetAssumption
  <1>6. m <= n
    <2> SUFFICES ASSUME n < m PROVE FALSE
      BY <1>2, <1>3
    <2>1. n < Len(found) /\ \A k \in 2 .. n + 1 : k \in 1 .. m
      BY <1>2, <1>3
    <2>2. FitsBudget(found, n + 1)
      BY <1>5, <2>1 DEF FitsBudget
    <2> QED
      BY <1>2, <2>1, <2>2
  <1>7. /\ m \in 1 .. Len(SubSeq(found, 1, n))
        /\ SubSeq(found, 1, n)[m] = i
    BY <1>1, <1>2, <1>3, <1>6
  <1> QED
    BY <1>2, <1>7 DEF Versions
-----------------------------------------------------------------------------
(* Histories                                                               *)

\* What is in two sequences put together.
LEMMA Joined ==
    ASSUME NEW S, NEW s \in Seq(S), NEW z \in Seq(S)
    PROVE  /\ s \o z \in Seq(S) /\ Len(s \o z) = Len(s) + Len(z)
           /\ \A k \in 1 .. Len(s) : (s \o z)[k] = s[k]
           /\ \A k \in 1 .. Len(z) : (s \o z)[Len(s) + k] = z[k]
  <1>1. \A k \in 1 .. Len(z) : /\ Len(s) + k \in 1 .. Len(s) + Len(z) /\ ~(Len(s) + k <= Len(s))
                              /\ (Len(s) + k) - Len(s) = k
    OBVIOUS
  <1> QED
    BY <1>1

\* leadingSystem finds where the system messages at the front end.
LEMMA HeadFound ==
    ASSUME NEW h \in Seq(Messages)
    PROVE  IsHead(leadingSystem(h), h)
  <1> DEFINE T == {n \in 0 .. Len(h) : n < Len(h) => h[n + 1].role # "system"}
  <1>1. T \subseteq Nat /\ Len(h) \in T
    OBVIOUS
  <1>2. PICK n \in T : \A m \in T : n <= m
    <2> HIDE DEF T
    <2> QED
      BY <1>1, LeastOf
  <1>3. \A k \in 1 .. n : h[k].role = "system"
    <2> SUFFICES ASSUME NEW k \in 1 .. n, h[k].role # "system" PROVE FALSE
      OBVIOUS
    <2>1. k - 1 \in 0 .. Len(h) /\ (k - 1) + 1 = k /\ k - 1 < n
      BY <1>2
    <2>2. k - 1 \in T
      BY <2>1
    <2>3. n \in Nat /\ k \in Nat
      BY <1>2
    <2> HIDE DEF T
    <2>4. n <= k - 1
      BY <1>2, <2>2
    <2> QED
      BY <2>1, <2>3, <2>4
  <1>4. \E m \in 0 .. Len(h) : /\ \A k \in 1 .. m : h[k].role = "system"
                               /\ m < Len(h) => h[m + 1].role # "system"
    BY <1>2, <1>3
  <1> QED
    BY <1>4 DEF leadingSystem, IsHead

\* They end at one place.
LEMMA HeadUnique ==
    ASSUME NEW h \in Seq(Messages), NEW m, NEW n, IsHead(m, h), IsHead(n, h)
    PROVE  m = n
  <1>1. m \in Nat /\ n \in Nat
    BY DEF IsHead
  <1>2. ~(m < n)
    <2> SUFFICES ASSUME m < n PROVE FALSE
      OBVIOUS
    <2>1. m + 1 \in 1 .. n /\ m < Len(h)
      BY <1>1 DEF IsHead
    <2> QED
      BY <2>1 DEF IsHead
  <1>3. ~(n < m)
    <2> SUFFICES ASSUME n < m PROVE FALSE
      OBVIOUS
    <2>1. n + 1 \in 1 .. m /\ n < Len(h)
      BY <1>1 DEF IsHead
    <2> QED
      BY <2>1 DEF IsHead
  <1> QED
    BY <1>1, <1>2, <1>3

\* A history begins with a system message, and no block is after the system messages.
LEMMA HeadOfHistory ==
    ASSUME NEW t \in Nat, NEW h, HistoryOK(h, t), NEW V, BlocksOrdered(h, t, V), NEW n, IsHead(n, h)
    PROVE  n \in 1 .. Len(h) /\ \A k \in 1 .. Len(h) : k > n => h[k].what # "block"
  <1>0. h \in Seq(Messages) /\ Len(h) \in Nat /\ Len(h) > 0 /\ n \in 0 .. Len(h)
    BY DEF HistoryOK, IsHead
  <1>1. h[1].role = "system"
    BY DEF HistoryOK, Instructions
  <1>2. n # 0
    BY <1>0, <1>1 DEF IsHead
  <1>3. ASSUME NEW k \in 1 .. Len(h), k > n, h[k].what = "block"
        PROVE  FALSE
    <2>1. n < Len(h) /\ n + 1 \in 1 .. k
      BY <1>0, <1>3
    <2> QED
      BY <1>3, <2>1 DEF BlocksOrdered, IsHead
  <1> QED
    BY <1>0, <1>2, <1>3

\* A call that an agent's model made is put at the end of its history.
LEMMA CallAppended ==
    ASSUME NEW t \in Nat, NEW h, HistoryOK(h, t), NEW V, BlocksOrdered(h, t, V),
           NEW m \in Messages, m.what = "call", m.at <= t,
           NEW u, NEW W, (u = t /\ W = V) \/ u = t + 1
    PROVE  /\ HistoryOK(h, u) /\ BlocksOrdered(h, u, W)
           /\ HistoryOK(Append(h, m), u) /\ BlocksOrdered(Append(h, m), u, W)
  <1> DEFINE g == Append(h, m)
  <1>1. /\ h \in Seq(Messages) /\ Len(h) \in Nat /\ Len(h) > 0
        /\ \A k \in 1 .. Len(h) : h[k].at <= t /\ h[k].at \in Nat
    <2>1. h \in Seq(Messages) /\ h # <<>> /\ \A k \in 1 .. Len(h) : h[k].at <= t
      BY DEF HistoryOK
    <2>2. Len(h) \in Nat /\ Len(h) > 0 /\ \A k \in 1 .. Len(h) : h[k] \in Messages
      BY <2>1
    <2>3. \A x \in Messages : x.at \in Nat
      BY DEF Messages
    <2> QED
      BY <2>1, <2>2, <2>3
  <1>2. /\ g \in Seq(Messages) /\ Len(g) = Len(h) + 1 /\ g[Len(h) + 1] = m
        /\ \A k \in 1 .. Len(h) : g[k] = h[k]
    BY <1>1
  <1>3. u \in Nat /\ t <= u /\ m.at \in Nat
    BY DEF Messages
  <1>4. \A k \in 1 .. Len(h) : h[k].at <= u /\ (h[k].at = u => u = t /\ W = V)
    BY <1>1, <1>3
  <1>5. HistoryOK(h, u) /\ BlocksOrdered(h, u, W)
    BY <1>1, <1>4 DEF HistoryOK, BlocksOrdered
  <1> HIDE DEF g
  <1>6. \A k \in 1 .. Len(g) : k \in 1 .. Len(h) \/ k = Len(h) + 1
    BY <1>1, <1>2
  <1>7. HistoryOK(g, u)
    <2>1. g[1] = h[1] /\ g # <<>>
      BY <1>1, <1>2
    <2>2. \A k \in 1 .. Len(g) : g[k].at <= u
      BY <1>2, <1>3, <1>4, <1>6
    <2> QED
      BY <1>2, <2>1, <2>2 DEF HistoryOK
  <1>8. BlocksOrdered(g, u, W)
    <2>1. g[1] = Instructions
      BY <1>7 DEF HistoryOK
    <2>2. ASSUME NEW k \in 1 .. Len(g), g[k].what = "block"
          PROVE  /\ \A j \in 1 .. k : g[j].role = "system" /\ (g[j].what = "block" => g[j].at <= g[k].at)
                 /\ g[k].at = u => g[k].shows \subseteq W
      <3>1. k \in 1 .. Len(h) /\ g[k] = h[k]
        BY <1>2, <1>6, <2>2
      <3>2. \A j \in 1 .. k : j \in 1 .. Len(h) /\ g[j] = h[j]
        BY <1>2, <3>1
      <3> QED
        BY <1>5, <2>2, <3>1, <3>2 DEF BlocksOrdered
    <2> QED
      BY <2>1, <2>2 DEF BlocksOrdered
  <1> QED
    BY <1>5, <1>7, <1>8 DEF g

\* The inner compactor keeps the system messages and the last turns, and brings in no block.
LEMMA SummaryOK ==
    ASSUME now \in Nat, NEW h, HistoryOK(h, now), NEW V, BlocksOrdered(h, now, V), NEW n, IsHead(n, h)
    PROVE  IsSummary(Summarized(h), n, h, now)
  <1>1. h \in Seq(Messages) /\ leadingSystem(h) = n
    BY HeadFound, HeadUnique DEF HistoryOK
  <1>2. n \in 1 .. Len(h) /\ Len(h) \in Nat /\ \A k \in 1 .. Len(h) : k > n => h[k].what # "block"
    BY <1>1, HeadOfHistory
  <1>3. CASE Len(h) - n <= KeepRecent
    <2>1. Summarized(h) = h
      BY <1>1, <1>3 DEF Summarized
    <2>2. \A k \in 1 .. Len(h) : Kept(h, h, k)
      BY <1>2 DEF Kept
    <2> QED
      BY <1>2, <2>1, <2>2 DEF IsSummary
  <1>4. CASE ~(Len(h) - n <= KeepRecent)
    <2> DEFINE m == Message("system", "summary", {})
               a == SubSeq(h, 1, n)
               z == SubSeq(h, Len(h) - KeepRecent + 1, Len(h))
               s == a \o <<m>>
               o == s \o z
    <2>1. Summarized(h) = o
      BY <1>1, <1>4 DEF Summarized
    <2>2. m \in Messages /\ m.what = "summary" /\ m.role = "system" /\ m.at = now
      BY DEF Message, Messages
    <2>3. a \in Seq(Messages) /\ Len(a) = n /\ \A k \in 1 .. n : a[k] = h[k]
      BY <1>1, <1>2
    <2>4. KeepRecent \in Nat /\ Len(h) - KeepRecent + 1 \in 1 .. Len(h) /\ Len(h) - KeepRecent > n
      BY <1>2, <1>4, BudgetAssumption
    <2>5. /\ z \in Seq(Messages) /\ Len(z) = KeepRecent
          /\ \A k \in 1 .. KeepRecent : z[k] = h[Len(h) - KeepRecent + k]
      BY <1>1, <2>4
    <2>6. \A k \in 1 .. KeepRecent : Len(h) - KeepRecent + k \in 1 .. Len(h) /\ Len(h) - KeepRecent + k > n
      BY <1>2, <2>4
    <2> HIDE DEF m, a, z
    <2>7. /\ s \in Seq(Messages) /\ Len(s) = n + 1 /\ s[n + 1] = m /\ \A k \in 1 .. n : s[k] = h[k]
      BY <1>2, <2>2, <2>3
    <2> HIDE DEF s
    <2>8. /\ o \in Seq(Messages) /\ Len(o) = n + 1 + KeepRecent
          /\ \A k \in 1 .. n + 1 : o[k] = s[k]
          /\ \A k \in 1 .. KeepRecent : o[n + 1 + k] = z[k]
      <3>1. n + 1 \in Nat /\ KeepRecent \in Nat
        BY <1>2, <2>4
      <3>2. s \in Seq(Messages) /\ z \in Seq(Messages)
        BY <2>5, <2>7
      <3>3. /\ o \in Seq(Messages) /\ Len(o) = Len(s) + Len(z)
            /\ \A k \in 1 .. Len(s) : o[k] = s[k]
            /\ \A k \in 1 .. Len(z) : o[Len(s) + k] = z[k]
        BY <3>2, Joined
      <3>4. Len(s) = n + 1 /\ Len(z) = KeepRecent
        BY <2>5, <2>7
      <3> HIDE DEF o
      <3> QED
        BY <3>1, <3>3, <3>4
    <2> HIDE DEF o
    <2>9. ASSUME NEW k \in 1 .. Len(o)
          PROVE  /\ o[k].at <= now
                 /\ IF k <= n THEN o[k] = h[k]
                    ELSE o[k].what # "block" /\ (o[k].role # "system" => Kept(o, h, k))
      <3>1. CASE k \in 1 .. n
        <4>1. k \in 1 .. n + 1 /\ k \in 1 .. Len(h) /\ k <= n
          BY <1>2, <3>1
        <4>2. o[k] = h[k]
          BY <2>7, <2>8, <3>1, <4>1
        <4> QED
          BY <4>1, <4>2 DEF HistoryOK
      <3>2. CASE k = n + 1
        <4>1. k \in 1 .. n + 1 /\ ~(k <= n)
          BY <1>2, <3>2
        <4>2. o[k] = m
          BY <2>7, <2>8, <3>2, <4>1
        <4> QED
          BY <2>2, <4>1, <4>2
      <3>3. CASE k > n + 1
        <4> DEFINE x == k - (n + 1)
                   y == Len(h) - KeepRecent + x
        <4>1. x \in 1 .. KeepRecent /\ n + 1 + x = k /\ ~(k <= n)
          BY <1>2, <2>4, <2>8, <3>3
        <4> HIDE DEF x
        <4>2. o[k] = z[x] /\ z[x] = h[y] /\ y \in 1 .. Len(h) /\ y > n
          BY <2>5, <2>6, <2>8, <4>1
        <4>3. y = k + Len(h) - Len(o)
          <5>1. /\ Len(o) = n + 1 + KeepRecent /\ n + 1 + x = k /\ Len(h) \in Nat /\ n \in Nat
                /\ KeepRecent \in Nat /\ x \in Nat
            BY <1>2, <2>4, <2>8, <4>1
          <5> HIDE DEF o
          <5> QED
            BY <5>1
        <4> HIDE DEF y
        <4>4. h[y].at <= now /\ h[y].what # "block" /\ Kept(o, h, k)
          BY <1>2, <4>2, <4>3 DEF HistoryOK, Kept
        <4> QED
          BY <4>1, <4>2, <4>4
      <3> QED
        BY <1>2, <2>8, <3>1, <3>2, <3>3
    <2>10. Len(o) > 0 /\ n <= Len(o) /\ 1 \in 1 .. Len(o) /\ 1 <= n
      BY <1>2, <2>4, <2>8
    <2>11. o[1] = Instructions /\ o # <<>>
      BY <2>8, <2>9, <2>10 DEF HistoryOK
    <2> QED
      BY <2>1, <2>8, <2>9, <2>10, <2>11 DEF IsSummary, HistoryOK
  <1> QED
    BY <1>3, <1>4

\* A block that shows what is current.
IsBlock(m, t, V) ==
    m \in Messages /\ m.role = "system" /\ m.what = "block" /\ m.at = t /\ m.shows \subseteq V

Holds(g, m) == \E k \in 1 .. Len(g) : g[k] = m

\* The messages of g: the first n of h, m, and then no block and the last turns of h.
IsSpliced(g, h, n, m) ==
    /\ n + 1 \in 1 .. Len(g) /\ g[n + 1] = m
    /\ \A k \in 1 .. n : g[k] = h[k]
    /\ \A k \in 1 .. Len(g) : k > n + 1 => g[k].what # "block" /\ (g[k].role # "system" => Kept(g, h, k))

\* A block of what is current is put where the system messages ended.
LEMMA BlockSpliced ==
    ASSUME NEW t \in Nat, NEW h, HistoryOK(h, t), NEW V, BlocksOrdered(h, t, V), NEW n, IsHead(n, h),
           NEW o, IsSummary(o, n, h, t), NEW m, IsBlock(m, t, V)
    PROVE  /\ HistoryOK(Splice(o, n, m), t) /\ BlocksOrdered(Splice(o, n, m), t, V)
           /\ Holds(Splice(o, n, m), m) /\ IsSpliced(Splice(o, n, m), h, n, m)
  <1>0. m \in Messages /\ m.role = "system" /\ m.what = "block" /\ m.at = t /\ m.shows \subseteq V
    BY DEF IsBlock
  <1>1. n \in 1 .. Len(h) /\ o \in Seq(Messages) /\ Len(o) \in Nat /\ n <= Len(o) /\ n \in Nat
    BY HeadOfHistory DEF HistoryOK, IsSummary
  <1> DEFINE a == SubSeq(o, 1, n)
             z == SubSeq(o, n + 1, Len(o))
             s == a \o <<m>>
             g == s \o z
  <1>2. Splice(o, n, m) = g
    <2>1. ~(n > Len(o))
      BY <1>1
    <2> QED
      BY <2>1, Zenon DEF Splice
  <1>3. a \in Seq(Messages) /\ Len(a) = n /\ \A k \in 1 .. n : a[k] = o[k]
    BY <1>1
  <1>4. z \in Seq(Messages) /\ Len(z) = Len(o) - n /\ \A k \in 1 .. Len(o) - n : z[k] = o[n + k]
    BY <1>1
  <1> HIDE DEF a, z
  <1>5. s \in Seq(Messages) /\ Len(s) = n + 1 /\ s[n + 1] = m /\ \A k \in 1 .. n : s[k] = o[k]
    BY <1>0, <1>1, <1>3
  <1> HIDE DEF s
  <1>6. /\ g \in Seq(Messages) /\ Len(g) = Len(o) + 1
        /\ \A k \in 1 .. n + 1 : g[k] = s[k]
        /\ \A k \in 1 .. Len(o) - n : g[n + 1 + k] = z[k]
    <2>1. n + 1 \in Nat /\ Len(o) - n \in Nat /\ n + 1 + (Len(o) - n) = Len(o) + 1
      BY <1>1
    <2> QED
      BY <1>4, <1>5, <2>1, Joined
  <1> HIDE DEF g
  <1>7. \A k \in 1 .. n : g[k] = o[k] /\ g[k] = h[k]
    <2> SUFFICES ASSUME NEW k \in 1 .. n PROVE g[k] = o[k] /\ g[k] = h[k]
      OBVIOUS
    <2>1. k \in 1 .. n + 1 /\ k \in 1 .. Len(o) /\ k <= n
      BY <1>1
    <2>2. g[k] = s[k] /\ s[k] = o[k]
      BY <1>5, <1>6, <2>1
    <2>3. o[k] = h[k]
      BY <2>1 DEF IsSummary
    <2> QED
      BY <2>2, <2>3
  <1>8. n + 1 \in 1 .. Len(g) /\ g[n + 1] = m
    BY <1>1, <1>5, <1>6
  <1>9. ASSUME NEW k \in 1 .. Len(g), k > n + 1
        PROVE  /\ k - 1 \in 1 .. Len(o) /\ g[k] = o[k - 1]
               /\ o[k - 1].what # "block" /\ (o[k - 1].role # "system" => Kept(o, h, k - 1))
    <2> DEFINE x == k - (n + 1)
    <2>1. x \in 1 .. Len(o) - n /\ n + 1 + x = k /\ n + x = k - 1 /\ k - 1 \in 1 .. Len(o) /\ ~(k - 1 <= n)
      <3>1. Len(g) = Len(o) + 1 /\ Len(o) \in Nat /\ n \in Nat /\ n <= Len(o)
        BY <1>1, <1>6
      <3>2. k \in Nat /\ k > n + 1 /\ k <= Len(o) + 1
        BY <1>9, <3>1
      <3> QED
        BY <3>1, <3>2
    <2> HIDE DEF x
    <2>2. g[k] = z[x] /\ z[x] = o[k - 1]
      BY <1>4, <1>6, <2>1
    <2> QED
      BY <2>1, <2>2 DEF IsSummary
  <1>10. \A k \in 1 .. Len(g) : k \in 1 .. n \/ k = n + 1 \/ k > n + 1
    BY <1>1, <1>6
  <1>11. \A k \in 1 .. n : k \in 1 .. Len(h) /\ k \in 1 .. Len(o) /\ h[k].role = "system"
    BY <1>1 DEF IsHead
  <1>12. HistoryOK(g, t)
    <2>1. ASSUME NEW k \in 1 .. Len(g) PROVE g[k].at <= t
      <3>1. CASE k \in 1 .. n
        BY <1>7, <1>11, <3>1 DEF HistoryOK
      <3>2. CASE k = n + 1
        BY <1>0, <1>8, <3>2
      <3>3. CASE k > n + 1
        BY <1>9, <3>3 DEF HistoryOK, IsSummary
      <3> QED
        BY <1>10, <3>1, <3>2, <3>3
    <2>2. 1 \in 1 .. n /\ g # <<>>
      BY <1>1, <1>6
    <2>3. g[1] = Instructions
      BY <1>7, <2>2 DEF HistoryOK
    <2> QED
      BY <1>6, <2>1, <2>2, <2>3 DEF HistoryOK
  <1>13. ASSUME NEW k \in 1 .. Len(g), g[k].what = "block"
         PROVE  /\ \A j \in 1 .. k : g[j].role = "system" /\ (g[j].what = "block" => g[j].at <= g[k].at)
                /\ g[k].at = t => g[k].shows \subseteq V
    <2>1. CASE k \in 1 .. n
      <3>1. \A j \in 1 .. k : j \in 1 .. n
        BY <1>1, <2>1
      <3>2. g[k] = h[k] /\ \A j \in 1 .. k : g[j] = h[j]
        BY <1>7, <2>1, <3>1
      <3>3. k \in 1 .. Len(h) /\ h[k].what = "block"
        BY <1>11, <1>13, <2>1, <3>2
      <3> QED
        BY <3>2, <3>3 DEF BlocksOrdered
    <2>2. CASE k = n + 1
      <3>1. \A j \in 1 .. k : j \in 1 .. n \/ j = n + 1
        BY <1>1, <2>2
      <3>2. ASSUME NEW j \in 1 .. k
            PROVE  g[j].role = "system" /\ g[j].at <= t
        <4>1. j \in 1 .. Len(g)
          OBVIOUS
        <4>2. g[j].at <= t
          BY <1>12, <4>1 DEF HistoryOK
        <4>3. g[j].role = "system"
          BY <1>0, <1>7, <1>8, <1>11, <3>1
        <4> QED
          BY <4>2, <4>3
      <3> QED
        BY <1>0, <1>8, <2>2, <3>2
    <2>3. CASE k > n + 1
      BY <1>9, <1>13, <2>3
    <2> QED
      BY <1>10, <2>1, <2>2, <2>3
  <1>14. BlocksOrdered(g, t, V)
    BY <1>12, <1>13 DEF BlocksOrdered, HistoryOK
  <1>15. IsSpliced(g, h, n, m)
    <2>1. ASSUME NEW k \in 1 .. Len(g), k > n + 1, Kept(o, h, k - 1) PROVE Kept(g, h, k)
      <3>1. Len(h) \in Nat /\ k \in Nat /\ (k - 1) + Len(h) - Len(o) = k + Len(h) - Len(g)
        BY <1>1, <1>6 DEF HistoryOK
      <3> QED
        BY <1>9, <2>1, <3>1 DEF Kept
    <2> QED
      BY <1>7, <1>8, <1>9, <2>1 DEF IsSpliced
  <1> QED
    BY <1>2, <1>8, <1>12, <1>14, <1>15 DEF Holds

\* A history with the summary and the block in it is compacted as it should be,
LEMMA BlockAhead ==
    ASSUME NEW t \in Nat, NEW h, HistoryOK(h, t), NEW V, BlocksOrdered(h, t, V), NEW n, IsHead(n, h),
           NEW m, IsBlock(m, t, V), NEW g, HistoryOK(g, t), IsSpliced(g, h, n, m), NEW some \in BOOLEAN
    PROVE  CompactedTo(h, g, V, some)
  <1>1. n \in 1 .. Len(h) /\ Len(h) \in Nat /\ g \in Seq(Messages) /\ Len(g) \in Nat /\ n \in Nat
        /\ h \in Seq(Messages) /\ \A k \in 1 .. Len(h) : k > n => h[k].what # "block"
    <2>1. n \in 1 .. Len(h) /\ \A k \in 1 .. Len(h) : k > n => h[k].what # "block"
      BY HeadOfHistory
    <2>2. h \in Seq(Messages) /\ g \in Seq(Messages)
      BY DEF HistoryOK
    <2>3. Len(h) \in Nat /\ Len(g) \in Nat
      BY <2>2
    <2> QED
      BY <2>1, <2>2, <2>3
  <1>2. m.role = "system" /\ m.what = "block" /\ m.shows \subseteq V
    BY DEF IsBlock
  <1>3. n + 1 \in 1 .. Len(g) /\ g[n + 1] = m
    BY DEF IsSpliced
  <1>4. Fresh(g, h, n + 1)
    <2> SUFFICES ASSUME n + 1 \in 1 .. Len(h) PROVE g[n + 1] # h[n + 1]
      BY DEF Fresh
    <2>1. n + 1 > n
      BY <1>1
    <2>2. h[n + 1].what # "block"
      BY <1>1, <2>1
    <2> QED
      BY <1>2, <1>3, <2>2
  <1>5. ASSUME NEW k \in 1 .. Len(g), k <= n
        PROVE  k \in 1 .. Len(h) /\ g[k] = h[k] /\ g[k].role = "system" /\ ~Fresh(g, h, k)
    <2>1. k \in 1 .. n /\ k \in 1 .. Len(h)
      BY <1>1, <1>5
    <2>2. g[k] = h[k]
      BY <2>1 DEF IsSpliced
    <2>3. h[k].role = "system"
      BY <2>1 DEF IsHead
    <2> QED
      BY <2>1, <2>2, <2>3 DEF Fresh
  <1>6. ASSUME NEW k \in 1 .. Len(g), k > n + 1
        PROVE  g[k].what # "block" /\ (g[k].role # "system" => Kept(g, h, k))
    BY <1>6 DEF IsSpliced
  <1>7. \A k \in 1 .. Len(g) : k <= n \/ k = n + 1 \/ k > n + 1
    BY <1>1
  <1>8. ASSUME NEW k \in 1 .. Len(g), g[k].what = "block", Fresh(g, h, k)
        PROVE  /\ g[k].shows \subseteq V
               /\ \A j \in 1 .. Len(g) :
                     g[j].role # "system" \/ (g[j].what = "summary" /\ Fresh(g, h, j)) => k < j
    <2>1. k = n + 1
      BY <1>5, <1>6, <1>7, <1>8
    <2>2. ASSUME NEW j \in 1 .. Len(g), g[j].role # "system" \/ (g[j].what = "summary" /\ Fresh(g, h, j))
          PROVE  k < j
      <3>1. ~(j <= n)
        BY <1>5, <2>2
      <3>2. j # n + 1
        BY <1>2, <1>3, <2>2
      <3> QED
        BY <1>7, <2>1, <3>1, <3>2
    <2> QED
      BY <1>2, <1>3, <2>1, <2>2
  <1>9. ASSUME NEW k \in 1 .. Len(g), g[k].role # "system" PROVE Kept(g, h, k)
    BY <1>2, <1>3, <1>5, <1>6, <1>7, <1>9
  <1> QED
    BY <1>2, <1>3, <1>4, <1>8, <1>9 DEF CompactedTo, HistoryOK

\* and so is one with the summary only, when there is nothing to recall.
LEMMA NoBlock ==
    ASSUME NEW t \in Nat, NEW h, HistoryOK(h, t), NEW V, BlocksOrdered(h, t, V), NEW n, IsHead(n, h),
           NEW o, IsSummary(o, n, h, t)
    PROVE  CompactedTo(h, o, V, FALSE)
  <1>1. n \in 1 .. Len(h) /\ Len(h) \in Nat /\ Len(o) \in Nat /\ n \in Nat
    BY HeadOfHistory DEF HistoryOK, IsSummary
  <1>2. ASSUME NEW k \in 1 .. Len(o), k <= n
        PROVE  k \in 1 .. Len(h) /\ o[k] = h[k] /\ o[k].role = "system"
    <2>1. k \in 1 .. n /\ k \in 1 .. Len(h)
      BY <1>1, <1>2
    <2>2. o[k] = h[k]
      BY <1>2 DEF IsSummary
    <2> QED
      BY <2>1, <2>2 DEF IsHead
  <1>3. ASSUME NEW k \in 1 .. Len(o), ~(k <= n)
        PROVE  o[k].what # "block" /\ (o[k].role # "system" => Kept(o, h, k))
    BY <1>3 DEF IsSummary
  <1>4. \A k \in 1 .. Len(o) : ~(o[k].what = "block" /\ Fresh(o, h, k))
    BY <1>2, <1>3 DEF Fresh
  <1>5. \A k \in 1 .. Len(o) : o[k].role # "system" => Kept(o, h, k)
    BY <1>2, <1>3
  <1> QED
    BY <1>4, <1>5 DEF CompactedTo, HistoryOK, IsSummary

\* What the inner compactor returned is in order too, for when there is nothing to recall.
LEMMA SummaryInOrder ==
    ASSUME NEW t \in Nat, NEW h, HistoryOK(h, t), NEW V, BlocksOrdered(h, t, V), NEW n, IsHead(n, h),
           NEW o, IsSummary(o, n, h, t)
    PROVE  BlocksOrdered(o, t, V)
  <1>1. n \in 1 .. Len(h) /\ o \in Seq(Messages) /\ Len(o) \in Nat /\ n <= Len(o) /\ n \in Nat
    BY HeadOfHistory DEF HistoryOK, IsSummary
  <1>2. ASSUME NEW k \in 1 .. Len(o), o[k].what = "block"
        PROVE  /\ \A j \in 1 .. k : o[j].role = "system" /\ (o[j].what = "block" => o[j].at <= o[k].at)
               /\ o[k].at = t => o[k].shows \subseteq V
    <2>1. k <= n /\ o[k] = h[k] /\ k \in 1 .. Len(h)
      BY <1>1, <1>2 DEF IsSummary
    <2>2. \A j \in 1 .. k : j \in 1 .. Len(o) /\ j <= n
      BY <1>1, <2>1
    <2>3. \A j \in 1 .. k : o[j] = h[j]
      BY <2>2 DEF IsSummary
    <2> QED
      BY <1>2, <2>1, <2>3 DEF BlocksOrdered
  <1> QED
    BY <1>2 DEF BlocksOrdered, HistoryOK, IsSummary
-----------------------------------------------------------------------------
(* Steps                                                                   *)

\* A tool call puts a message at the end of one history, and moves the clock when it changes the store.
LEMMA ToolCalled ==
    ASSUME MemoryIInv, NEW a \in Agents, phase[a] = "running",
           NEW m \in Messages, m.what = "call", m.at <= now,
           history' = [history EXCEPT ![a] = Append(history[a], m)],
           UNCHANGED compactVars, (now' = now /\ recs' = recs) \/ now' = now + 1
    PROVE  /\ history' \in [Agents -> Seq(Messages)]
           /\ \A b \in Agents : HistoryOK(history[b], now)'
           /\ out' \in [Agents -> Seq(Messages)]
           /\ CompactionOK'
           /\ BlocksInOrder'
  <1>1. /\ history \in [Agents -> Seq(Messages)] /\ out \in [Agents -> Seq(Messages)] /\ now \in Nat
        /\ \A b \in Agents : HistoryOK(history[b], now) /\ BlocksOrdered(history[b], now, Current)
    BY DEF MemoryIInv, MemoryTypeOK, BlocksInOrder
  <1>2. phase' = phase /\ head' = head /\ out' = out /\ compactions' = compactions
    BY DEF compactVars
  <1>3. history'[a] = Append(history[a], m) /\ \A b \in Agents : b # a => history'[b] = history[b]
    BY <1>1
  <1>4. (now' = now /\ Current' = Current) \/ now' = now + 1
    BY DEF Current, Version
  <1>5. ASSUME NEW b \in Agents
        PROVE  /\ HistoryOK(history'[b], now') /\ BlocksOrdered(history'[b], now', Current')
               /\ history'[b] \in Seq(Messages)
    <2>1. CASE b = a
      <3>1. HistoryOK(history'[b], now') /\ BlocksOrdered(history'[b], now', Current')
        BY <1>1, <1>3, <1>4, <2>1, CallAppended
      <3> QED
        BY <3>1 DEF HistoryOK
    <2>2. CASE b # a
      <3>1. HistoryOK(history'[b], now') /\ BlocksOrdered(history'[b], now', Current')
        BY <1>1, <1>3, <1>4, <2>2, CallAppended
      <3> QED
        BY <3>1 DEF HistoryOK
    <2> QED
      BY <2>1, <2>2
  <1>6. CompactionOK'
    <2> SUFFICES ASSUME NEW b \in Agents, phase[b] # "running"
                 PROVE  /\ IsHead(head[b], history'[b])
                        /\ phase[b] = "recalling" => IsSummary(out[b], head[b], history'[b], now')
      BY <1>2 DEF CompactionOK
    <2>1. b # a /\ history'[b] = history[b]
      BY <1>3
    <2>2. /\ IsHead(head[b], history[b])
          /\ phase[b] = "recalling" => IsSummary(out[b], head[b], history[b], now)
      BY DEF MemoryIInv, CompactionOK
    <2>3. HistoryOK(out[b], now) => HistoryOK(out[b], now')
      <3> SUFFICES ASSUME HistoryOK(out[b], now) PROVE HistoryOK(out[b], now')
        OBVIOUS
      <3> DEFINE o == out[b]
      <3>1. o \in Seq(Messages) /\ \A k \in 1 .. Len(o) : o[k].at <= now
        BY DEF HistoryOK
      <3>2. \A k \in 1 .. Len(o) : o[k].at \in Nat
        <4>1. \A k \in 1 .. Len(o) : o[k] \in Messages
          BY <3>1
        <4> QED
          BY <4>1 DEF Messages
      <3> HIDE DEF o
      <3>3. \A k \in 1 .. Len(o) : o[k].at <= now'
        BY <1>1, <1>4, <3>1, <3>2
      <3> QED
        BY <3>3 DEF HistoryOK, o
    <2> QED
      BY <2>1, <2>2, <2>3 DEF IsSummary
  <1> QED
    BY <1>1, <1>2, <1>5, <1>6 DEF BlocksInOrder

\* Put keeps the records apart by the times they were written at.
LEMMA RecordPut ==
    ASSUME MemoryTypeOK, RecordsOK, NEW id \in RecordIDs, NEW r, Put(id, r),
           r.source \in Agents, r.updated = now + 1, r.text \in Texts, r.salience \in Int,
           effectiveSalience(r.salience) = 100 => id \in RememberIDs /\ r.text = id[2]
    PROVE  /\ RecordsOK' /\ now' = now + 1 /\ now' \in Nat
           /\ \A i \in DOMAIN recs' : recs'[i].source \in Agents /\ recs'[i].updated \in 1 .. now'
           /\ id \in DOMAIN recs' /\ recs'[id] = r
           /\ \A i \in DOMAIN recs' : i # id => i \in DOMAIN recs /\ recs'[i] = recs[i]
  <1>1. /\ DOMAIN recs' = DOMAIN recs \cup {id} /\ recs'[id] = r
        /\ \A i \in DOMAIN recs' : i # id => i \in DOMAIN recs /\ recs'[i] = recs[i]
        /\ now' = now + 1
    BY DEF Put
  <1>2. now \in Nat /\ \A i \in DOMAIN recs : recs[i].source \in Agents /\ recs[i].updated \in 1 .. now
    BY DEF MemoryTypeOK
  <1>3. IsFiniteSet(DOMAIN recs') /\ DOMAIN recs' \subseteq RecordIDs
    <2>1. IsFiniteSet(DOMAIN recs) /\ DOMAIN recs \subseteq RecordIDs
      BY DEF RecordsOK
    <2> QED
      BY <1>1, <2>1, FS_AddElement
  <1>4. ASSUME NEW i \in DOMAIN recs'
        PROVE  /\ recs'[i].source \in Agents /\ recs'[i].updated \in 1 .. now'
               /\ recs'[i].text \in Texts /\ recs'[i].salience \in Int
               /\ effectiveSalience(recs'[i].salience) = 100 => i \in RememberIDs /\ recs'[i].text = i[2]
    <2>1. CASE i = id
      BY <1>1, <1>2, <2>1
    <2>2. CASE i # id
      <3>1. i \in DOMAIN recs /\ recs'[i] = recs[i]
        BY <1>1, <2>2
      <3>2. recs[i].updated \in 1 .. now'
        BY <1>1, <1>2, <3>1
      <3> QED
        BY <1>2, <3>1, <3>2 DEF RecordsOK
    <2> QED
      BY <2>1, <2>2
  <1>5. ASSUME NEW i \in DOMAIN recs', NEW j \in DOMAIN recs', recs'[i].updated = recs'[j].updated
        PROVE  i = j
    <2>1. \A k \in DOMAIN recs' : k # id => k \in DOMAIN recs /\ recs'[k] = recs[k] /\ recs'[k].updated # now + 1
      BY <1>1, <1>2
    <2>2. CASE i = id \/ j = id
      BY <1>1, <1>5, <2>1, <2>2
    <2>3. CASE i # id /\ j # id
      BY <1>5, <2>1, <2>3 DEF RecordsOK
    <2> QED
      BY <2>2, <2>3
  <1> QED
    BY <1>1, <1>2, <1>3, <1>4, <1>5 DEF RecordsOK

\* What the remember tool files under, and the id that a todo may be given, are ids of records.
LEMMA FiledUnder ==
    ASSUME NEW text \in Texts
    PROVE  /\ \A kind \in Kinds : contentID(KindOr(kind), text) \in RememberIDs
           /\ \A kind \in Kinds : contentID(KindOr(kind), text) \in RecordIDs
           /\ contentID("note", text) \in RecordIDs /\ contentID("todo", text) \in RecordIDs
           /\ \A kind : contentID(kind, text)[2] = text
  BY DEF RememberIDs, RecordIDs, contentID

\* How Remember is called, under which id it files the record, and that it has the highest salience
\* only under the id of its content.
IsFiled(given, kind, text, salience) ==
    LET id == IF given = <<>> THEN contentID(kind, text) ELSE given IN
    /\ text \in Texts /\ salience \in Int
    /\ id \in RecordIDs
    /\ salience # 0 => id \in RememberIDs /\ id[2] = text

\* A record is filed, and the call that files it shows it.
LEMMA Filed ==
    ASSUME MemoryIInv, NEW a \in Agents, CanCall(a), UNCHANGED compactVars,
           NEW given, NEW kind, NEW text, NEW salience, IsFiled(given, kind, text, salience),
           Remember(a, given, kind, text, salience)
    PROVE  /\ MemoryIInv'
           /\ ImportantInView => ImportantInView'
  <1> DEFINE id == IF given = <<>> THEN contentID(kind, text) ELSE given
             r == normalize(kind, text, salience, a)
             m == Message("tool", "call", {<<id, now + 1>>})
  <1>1. Put(id, r) /\ history' = [history EXCEPT ![a] = Append(history[a], m)]
    BY DEF Remember
  <1>2. id \in RecordIDs /\ text \in Texts /\ salience \in Int
        /\ (salience # 0 => id \in RememberIDs /\ id[2] = text)
    BY DEF IsFiled
  <1>3. now \in Nat /\ phase[a] = "running" /\ toolCalls' \in 0 .. MaxToolCalls
    BY BudgetAssumption DEF MemoryIInv, MemoryTypeOK, CanCall
  <1>4. /\ r.source = a /\ r.updated = now + 1 /\ r.text = text /\ r.salience \in Int
        /\ effectiveSalience(r.salience) = 100 => salience # 0
    BY <1>2 DEF normalize, effectiveSalience
  <1> HIDE DEF id
  <1>5. m \in Messages /\ m.what = "call" /\ m.at = now /\ <<id, now + 1>> \in m.shows
    BY <1>2, <1>3 DEF Message, Messages
  <1> HIDE DEF r, m
  <1>6. /\ RecordsOK' /\ now' = now + 1 /\ now' \in Nat
        /\ \A i \in DOMAIN recs' : recs'[i].source \in Agents /\ recs'[i].updated \in 1 .. now'
        /\ id \in DOMAIN recs' /\ recs'[id] = r
        /\ \A i \in DOMAIN recs' : i # id => i \in DOMAIN recs /\ recs'[i] = recs[i]
    BY <1>1, <1>2, <1>4, RecordPut DEF MemoryIInv
  <1>7. /\ history' \in [Agents -> Seq(Messages)] /\ \A b \in Agents : HistoryOK(history[b], now)'
        /\ out' \in [Agents -> Seq(Messages)] /\ CompactionOK' /\ BlocksInOrder'
    <2>1. m.at <= now
      BY <1>3, <1>5
    <2> QED
      BY <1>1, <1>3, <1>5, <1>6, <2>1, ToolCalled
  <1>8. MemoryTypeOK'
    BY <1>3, <1>6 DEF MemoryIInv, MemoryTypeOK, compactVars
  <1>9. MemoryIInv'
    BY <1>6, <1>7, <1>8 DEF MemoryIInv
  <1>10. ASSUME ImportantInView, NEW b \in Agents, NEW i \in DOMAIN recs', recs'[i].source = b,
                effectiveSalience(recs'[i].salience) = 100
         PROVE  \E k \in 1 .. Len(history'[b]) : <<i, recs'[i].updated>> \in history'[b][k].shows
    <2>1. /\ history \in [Agents -> Seq(Messages)]
          /\ Len(history'[a]) = Len(history[a]) + 1 /\ history'[a][Len(history[a]) + 1] = m
          /\ \A k \in 1 .. Len(history[a]) : history'[a][k] = history[a][k]
          /\ b # a => history'[b] = history[b]
      BY <1>1, <1>5 DEF MemoryIInv
    <2>2. Len(history[a]) \in Nat
      BY <2>1
    <2>3. CASE i = id
      <3>1. b = a /\ recs'[i].updated = now + 1
        BY <1>4, <1>6, <1>10, <2>3
      <3> QED
        BY <1>5, <2>1, <2>2, <2>3, <3>1
    <2>4. CASE i # id
      <3>1. i \in DOMAIN recs /\ recs'[i] = recs[i]
        BY <1>6, <2>4
      <3>2. PICK k \in 1 .. Len(history[b]) : <<i, recs[i].updated>> \in history[b][k].shows
        BY <1>10, <3>1 DEF ImportantInView, Version
      <3>3. k \in 1 .. Len(history'[b]) /\ history'[b][k] = history[b][k]
        BY <2>1, <2>2
      <3> QED
        BY <3>1, <3>2, <3>3
    <2> QED
      BY <2>3, <2>4
  <1>11. ImportantInView => ImportantInView'
    BY <1>10 DEF ImportantInView, Version
  <1> QED
    BY <1>9, <1>11

\* A call that files nothing shows what it shows, and takes at most records from the store.
LEMMA CalledOnly ==
    ASSUME MemoryIInv, NEW a \in Agents, CanCall(a), UNCHANGED compactVars,
           NEW m \in Messages, m.what = "call", m.at <= now,
           history' = [history EXCEPT ![a] = Append(history[a], m)],
           (now' = now /\ recs' = recs) \/ now' = now + 1,
           DOMAIN recs' \subseteq DOMAIN recs, \A i \in DOMAIN recs' : recs'[i] = recs[i]
    PROVE  /\ MemoryIInv'
           /\ ImportantInView => ImportantInView'
  <1>1. now \in Nat /\ phase[a] = "running" /\ toolCalls' \in 0 .. MaxToolCalls /\ now' \in Nat /\ now <= now'
    BY BudgetAssumption DEF MemoryIInv, MemoryTypeOK, CanCall
  <1>2. /\ history' \in [Agents -> Seq(Messages)] /\ \A b \in Agents : HistoryOK(history[b], now)'
        /\ out' \in [Agents -> Seq(Messages)] /\ CompactionOK' /\ BlocksInOrder'
    BY <1>1, ToolCalled
  <1>3. RecordsOK'
    <2>1. RecordsOK
      BY DEF MemoryIInv
    <2>2. IsFiniteSet(DOMAIN recs')
      BY <2>1, FS_Subset DEF RecordsOK
    <2> QED
      BY <2>1, <2>2 DEF RecordsOK
  <1>4. MemoryTypeOK'
    <2>1. ASSUME NEW i \in DOMAIN recs' PROVE recs'[i].source \in Agents /\ recs'[i].updated \in 1 .. now'
      <3>1. recs[i].source \in Agents /\ recs[i].updated \in 1 .. now /\ recs'[i] = recs[i]
        BY DEF MemoryIInv, MemoryTypeOK
      <3> QED
        BY <1>1, <3>1
    <2> QED
      BY <1>1, <2>1 DEF MemoryIInv, MemoryTypeOK, compactVars
  <1>5. MemoryIInv'
    BY <1>2, <1>3, <1>4 DEF MemoryIInv
  <1>6. ASSUME ImportantInView, NEW b \in Agents, NEW i \in DOMAIN recs', recs'[i].source = b,
               effectiveSalience(recs'[i].salience) = 100
        PROVE  \E k \in 1 .. Len(history'[b]) : <<i, recs'[i].updated>> \in history'[b][k].shows
    <2>1. /\ history \in [Agents -> Seq(Messages)]
          /\ Len(history'[a]) = Len(history[a]) + 1
          /\ \A k \in 1 .. Len(history[a]) : history'[a][k] = history[a][k]
          /\ b # a => history'[b] = history[b]
      BY DEF MemoryIInv
    <2>2. Len(history[a]) \in Nat
      BY <2>1
    <2>3. i \in DOMAIN recs /\ recs'[i] = recs[i]
      OBVIOUS
    <2>4. PICK k \in 1 .. Len(history[b]) : <<i, recs[i].updated>> \in history[b][k].shows
      BY <1>6, <2>3 DEF ImportantInView, Version
    <2>5. k \in 1 .. Len(history'[b]) /\ history'[b][k] = history[b][k]
      BY <2>1, <2>2
    <2> QED
      BY <2>3, <2>4, <2>5
  <1>7. ImportantInView => ImportantInView'
    BY <1>6 DEF ImportantInView, Version
  <1> QED
    BY <1>5, <1>7

\* The tools of an agent.
LEMMA ToolStep ==
    ASSUME MemoryIInv, NEW a \in Agents, Tool(a)
    PROVE  /\ MemoryIInv'
           /\ ImportantInView => ImportantInView'
  <1>1. ASSUME NEW text \in Texts, NEW kind \in Kinds, NEW salience \in Saliences,
               RememberTool(a, kind, text, salience)
        PROVE  MemoryIInv' /\ (ImportantInView => ImportantInView')
    <2>1. IsFiled(<<>>, KindOr(kind), text, salience)
      BY FiledUnder, RecallAssumption DEF IsFiled
    <2> QED
      BY <1>1, <2>1, Filed DEF RememberTool
  <1>2. ASSUME NEW text \in Texts, NoteTool(a, text)
        PROVE  MemoryIInv' /\ (ImportantInView => ImportantInView')
    <2>1. IsFiled(<<>>, "note", text, 0)
      BY FiledUnder DEF IsFiled
    <2> QED
      BY <1>2, <2>1, Filed DEF NoteTool
  <1>3. ASSUME NEW text \in Texts, NEW id \in {<<>>} \cup DOMAIN recs, UpdateTodoTool(a, id, text)
        PROVE  MemoryIInv' /\ (ImportantInView => ImportantInView')
    <2>1. DOMAIN recs \subseteq RecordIDs
      BY DEF MemoryIInv, RecordsOK
    <2>2. IsFiled(id, "todo", text, 0)
      BY <2>1, FiledUnder DEF IsFiled
    <2> QED
      BY <1>3, <2>2, Filed DEF UpdateTodoTool
  <1>4. ASSUME NEW kinds \in {{}, {"fact"}}, NEW limit \in Limits, RecallTool(a, kinds, limit)
        PROVE  MemoryIInv' /\ (ImportantInView => ImportantInView')
    <2> DEFINE q == [kinds |-> kinds, texts |-> Texts, limit |-> RecallLimit(limit)]
               found == Query(q)
               m == Message("tool", "call", Versions(found))
    <2>1. q.limit \in Int
      BY RecallAssumption DEF RecallLimit
    <2>2. found \in Seq(DOMAIN recs)
      <3> HIDE DEF q
      <3> QED
        BY <2>1, QueryFound DEF MemoryIInv
    <2> HIDE DEF found
    <2>3. Versions(found) \subseteq RecordIDs \X Nat
      BY <2>2 DEF Versions, Version, MemoryIInv, MemoryTypeOK, RecordsOK
    <2>4. m \in Messages /\ m.what = "call" /\ m.at <= now
      BY <2>3 DEF Message, Messages, MemoryIInv, MemoryTypeOK
    <2>5. /\ CanCall(a) /\ history' = [history EXCEPT ![a] = Append(history[a], m)]
          /\ recs' = recs /\ now' = now /\ UNCHANGED compactVars
      BY <1>4 DEF RecallTool, found
    <2> HIDE DEF m
    <2> QED
      BY <2>4, <2>5, CalledOnly
  <1>5. ASSUME NEW id \in DOMAIN recs, ForgetTool(a, id)
        PROVE  MemoryIInv' /\ (ImportantInView => ImportantInView')
    <2> DEFINE m == Message("tool", "call", {})
    <2>1. m \in Messages /\ m.what = "call" /\ m.at <= now
      BY DEF Message, Messages, MemoryIInv, MemoryTypeOK
    <2>2. /\ CanCall(a) /\ history' = [history EXCEPT ![a] = Append(history[a], m)]
          /\ now' = now + 1 /\ UNCHANGED compactVars
          /\ DOMAIN recs' \subseteq DOMAIN recs /\ \A i \in DOMAIN recs' : recs'[i] = recs[i]
      BY <1>5 DEF ForgetTool
    <2> HIDE DEF m
    <2> QED
      BY <2>1, <2>2, CalledOnly
  <1> QED
    BY <1>1, <1>2, <1>3, <1>4, <1>5 DEF Tool

\* Histories that only a compaction of a touches: what there is to show of the others.
LEMMA CompactionKeeps ==
    ASSUME MemoryIInv, NEW a \in Agents, recs' = recs, now' = now, toolCalls' = toolCalls,
           compactions' \in 0 .. MaxCompactions,
           NEW h, history' = [history EXCEPT ![a] = h], HistoryOK(h, now), BlocksOrdered(h, now, Current),
           NEW p \in {"running", "summarizing", "recalling"}, phase' = [phase EXCEPT ![a] = p],
           NEW n \in Nat, head' = [head EXCEPT ![a] = n],
           NEW o \in Seq(Messages), out' = [out EXCEPT ![a] = o],
           p # "running" => IsHead(n, h),
           p = "recalling" => IsSummary(o, n, h, now)
    PROVE  MemoryIInv'
  <1>1. /\ history'[a] = h /\ phase'[a] = p /\ head'[a] = n /\ out'[a] = o
        /\ \A b \in Agents : b # a => /\ history'[b] = history[b] /\ phase'[b] = phase[b]
                                      /\ head'[b] = head[b] /\ out'[b] = out[b]
    BY DEF MemoryIInv, MemoryTypeOK
  <1>2. MemoryTypeOK'
    BY DEF MemoryIInv, MemoryTypeOK
  <1>3. RecordsOK'
    BY DEF MemoryIInv, RecordsOK
  <1>4. history' \in [Agents -> Seq(Messages)] /\ out' \in [Agents -> Seq(Messages)]
    BY DEF MemoryIInv, HistoryOK
  <1>5. Current' = Current
    BY DEF Current, Version
  <1>6. \A b \in Agents : HistoryOK(history'[b], now') /\ BlocksOrdered(history'[b], now', Current')
    BY <1>1, <1>5 DEF MemoryIInv, BlocksInOrder
  <1>7. CompactionOK'
    <2>1. ASSUME NEW b \in Agents
          PROVE  /\ phase'[b] # "running" => IsHead(head'[b], history'[b])
                 /\ phase'[b] = "recalling" => IsSummary(out'[b], head'[b], history'[b], now')
      <3>1. CASE b = a
        BY <1>1, <3>1
      <3>2. CASE b # a
        BY <1>1, <3>2 DEF MemoryIInv, CompactionOK, IsSummary
      <3> QED
        BY <3>1, <3>2
    <2> QED
      BY <2>1 DEF CompactionOK, IsSummary
  <1> QED
    BY <1>2, <1>3, <1>4, <1>6, <1>7 DEF MemoryIInv, BlocksInOrder

\* The steps of a compaction.
LEMMA CompactionStep ==
    ASSUME MemoryIInv, NEW a \in Agents, Compaction(a)
    PROVE  /\ MemoryIInv'
           /\ BudgetHolds /\ ImportantInView => ImportantInView'
  <1> DEFINE h == history[a]
  <1>1. /\ h \in Seq(Messages) /\ HistoryOK(h, now) /\ BlocksOrdered(h, now, Current) /\ now \in Nat
        /\ head[a] \in Nat /\ out[a] \in Seq(Messages) /\ compactions \in 0 .. MaxCompactions
        /\ history \in [Agents -> Seq(Messages)] /\ phase \in [Agents -> {"running", "summarizing", "recalling"}]
        /\ head \in [Agents -> Nat] /\ out \in [Agents -> Seq(Messages)]
    BY DEF MemoryIInv, MemoryTypeOK, BlocksInOrder
  <1>2. /\ phase[a] # "running" => IsHead(head[a], h)
        /\ phase[a] = "recalling" => IsSummary(out[a], head[a], h, now)
    BY DEF MemoryIInv, CompactionOK, IsSummary
  <1>3. /\ history = [history EXCEPT ![a] = h] /\ out = [out EXCEPT ![a] = out[a]]
        /\ head = [head EXCEPT ![a] = head[a]]
    BY <1>1
  <1> HIDE DEF h
  <1>4. history' = history /\ recs' = recs => (ImportantInView => ImportantInView')
    BY DEF ImportantInView, Version
  <1>5. CASE BeginCompact(a)
    <2> DEFINE n == leadingSystem(h)
    <2>1. /\ compactions' \in 0 .. MaxCompactions /\ recs' = recs /\ now' = now /\ toolCalls' = toolCalls
          /\ history' = history /\ out' = out /\ phase' = [phase EXCEPT ![a] = "summarizing"]
          /\ head' = [head EXCEPT ![a] = n]
      BY <1>1, <1>5, BudgetAssumption DEF BeginCompact, h
    <2>2. IsHead(n, h)
      BY <1>1, HeadFound
    <2>3. n \in Nat
      BY <2>2 DEF IsHead
    <2> HIDE DEF n
    <2>4. MemoryIInv'
      BY <1>1, <1>3, <2>1, <2>2, <2>3, CompactionKeeps
    <2> QED
      BY <1>4, <2>1, <2>4
  <1>6. CASE Summarize(a)
    <2> DEFINE o == Summarized(h)
    <2>1. /\ compactions' \in 0 .. MaxCompactions /\ recs' = recs /\ now' = now /\ toolCalls' = toolCalls
          /\ history' = history /\ head' = head /\ phase' = [phase EXCEPT ![a] = "recalling"]
          /\ out' = [out EXCEPT ![a] = o] /\ phase[a] = "summarizing"
      BY <1>1, <1>6 DEF Summarize, h
    <2>2. IsHead(head[a], h)
      BY <1>2, <2>1
    <2>3. IsSummary(o, head[a], h, now)
      BY <1>1, <2>2, SummaryOK
    <2> HIDE DEF o
    <2>4. o \in Seq(Messages)
      BY <2>3 DEF IsSummary, HistoryOK
    <2>5. MemoryIInv'
      BY <1>1, <1>3, <2>1, <2>2, <2>3, <2>4, CompactionKeeps
    <2> QED
      BY <1>4, <2>1, <2>5
  <1>7. ASSUME EndCompact(a), NEW g, history' = [history EXCEPT ![a] = g],
               HistoryOK(g, now), BlocksOrdered(g, now, Current)
        PROVE  MemoryIInv'
    <2>1. /\ compactions' \in 0 .. MaxCompactions /\ recs' = recs /\ now' = now /\ toolCalls' = toolCalls
          /\ phase' = [phase EXCEPT ![a] = "running"] /\ head' = [head EXCEPT ![a] = 0]
          /\ out' = [out EXCEPT ![a] = <<>>] /\ <<>> \in Seq(Messages) /\ 0 \in Nat
      BY <1>1, <1>7 DEF EndCompact
    <2> QED
      BY <1>7, <2>1, CompactionKeeps
  <1>8. CASE CompactFails(a)
    <2>1. EndCompact(a) /\ history' = history /\ recs' = recs
      BY <1>8 DEF CompactFails, EndCompact
    <2>2. MemoryIInv'
      BY <1>1, <1>3, <1>7, <2>1
    <2> QED
      BY <1>4, <2>1, <2>2
  <1>9. CASE Inject(a)
    <2> DEFINE recalled == Versions(Preamble(Everything))
               m == Message("system", "block", recalled)
               g == IF recalled = {} THEN out[a] ELSE Splice(out[a], head[a], m)
    <2>1. /\ phase[a] = "recalling" /\ history' = [history EXCEPT ![a] = g] /\ EndCompact(a) /\ recs' = recs
      BY <1>9 DEF Inject, EndCompact
    <2>2. IsHead(head[a], h) /\ IsSummary(out[a], head[a], h, now)
      BY <1>2, <2>1
    <2>3. recalled \subseteq Current /\ recalled \subseteq RecordIDs \X Nat
      <3> DEFINE found == Ranked(DOMAIN recs)
      <3>1. found \in Seq(DOMAIN recs)
        BY RankedAll DEF MemoryIInv, IsRanking
      <3>2. PICK n \in 0 .. Len(found) : Preamble(Everything) = SubSeq(found, 1, n)
        BY PreambleIs DEF MemoryIInv
      <3> HIDE DEF found
      <3>3. \A k \in 1 .. Len(SubSeq(found, 1, n)) : SubSeq(found, 1, n)[k] \in DOMAIN recs
        BY <3>1, <3>2
      <3>4. recalled \subseteq Current
        BY <3>2, <3>3 DEF Versions, Current
      <3>5. Current \subseteq RecordIDs \X Nat
        BY DEF Current, Version, MemoryIInv, MemoryTypeOK, RecordsOK
      <3> QED
        BY <3>4, <3>5
    <2> HIDE DEF recalled
    <2>4. m \in Messages /\ m.role = "system" /\ m.what = "block" /\ m.at = now /\ m.shows = recalled
      BY <1>1, <2>3 DEF Message, Messages
    <2> HIDE DEF m
    <2>5. /\ HistoryOK(g, now) /\ BlocksOrdered(g, now, Current)
          /\ recalled # {} => \E k \in 1 .. Len(g) : g[k] = m
      <3>1. CASE recalled = {}
        <4>1. HistoryOK(out[a], now) /\ BlocksOrdered(out[a], now, Current)
          BY <1>1, <2>2, SummaryInOrder DEF IsSummary
        <4> QED
          BY <3>1, <4>1
      <3>2. CASE recalled # {}
        <4>1. g = Splice(out[a], head[a], m)
          BY <3>2
        <4> HIDE DEF g
        <4>2. /\ HistoryOK(g, now) /\ BlocksOrdered(g, now, Current)
              /\ \E k \in 1 .. Len(g) : g[k] = m
          <5>1. IsBlock(m, now, Current)
            BY <2>3, <2>4 DEF IsBlock
          <5>2. HistoryOK(g, now) /\ BlocksOrdered(g, now, Current) /\ Holds(g, m)
            BY <1>1, <2>2, <4>1, <5>1, BlockSpliced
          <5> QED
            BY <5>2 DEF Holds
        <4> QED
          BY <4>2
      <3> QED
        BY <3>1, <3>2
    <2> HIDE DEF g
    <2>6. MemoryIInv'
      BY <1>7, <2>1, <2>5
    <2>7. ASSUME BudgetHolds, ImportantInView, NEW b \in Agents, NEW i \in DOMAIN recs, recs[i].source = b,
                 effectiveSalience(recs[i].salience) = 100
          PROVE  \E k \in 1 .. Len(history'[b]) : Version(i) \in history'[b][k].shows
      <3>1. CASE b = a
        <4>1. Version(i) \in recalled
          BY <2>7, PreambleShows DEF MemoryIInv, recalled
        <4>2. history'[b] = g
          BY <1>1, <2>1, <3>1
        <4> QED
          BY <2>4, <2>5, <4>1, <4>2
      <3>2. CASE b # a
        <4>1. history'[b] = history[b]
          BY <1>1, <2>1, <3>2
        <4> QED
          BY <2>7, <4>1 DEF ImportantInView
      <3> QED
        BY <3>1, <3>2
    <2>8. BudgetHolds /\ ImportantInView => ImportantInView'
      BY <2>1, <2>7 DEF ImportantInView, Version
    <2> QED
      BY <2>6, <2>8
  <1> QED
    BY <1>5, <1>6, <1>8, <1>9 DEF Compaction

\* No step breaks the inductive invariant, nor takes an important record out of view.
LEMMA MemoryStep ==
    ASSUME MemoryIInv, [NextMemory]_memoryVars
    PROVE  /\ MemoryIInv'
           /\ BudgetHolds /\ ImportantInView => ImportantInView'
  <1>1. CASE UNCHANGED memoryVars
    <2>1. /\ recs' = recs /\ now' = now /\ history' = history /\ phase' = phase /\ head' = head /\ out' = out
          /\ toolCalls' = toolCalls /\ compactions' = compactions
      BY <1>1 DEF memoryVars, compactVars
    <2>2. MemoryTypeOK'
      BY <2>1 DEF MemoryIInv, MemoryTypeOK
    <2>3. RecordsOK'
      BY <2>1 DEF MemoryIInv, RecordsOK
    <2>4. CompactionOK'
      BY <2>1 DEF MemoryIInv, CompactionOK
    <2>5. BlocksInOrder'
      BY <2>1 DEF MemoryIInv, BlocksInOrder, Current, Version
    <2>6. ImportantInView => ImportantInView'
      BY <2>1 DEF ImportantInView, Version
    <2> QED
      BY <2>1, <2>2, <2>3, <2>4, <2>5, <2>6 DEF MemoryIInv
  <1>2. CASE Quiet
    BY <1>1, <1>2 DEF Quiet
  <1>3. ASSUME NEW a \in Agents, Tool(a)
        PROVE  MemoryIInv' /\ (BudgetHolds /\ ImportantInView => ImportantInView')
    BY <1>3, ToolStep
  <1>4. ASSUME NEW a \in Agents, Compaction(a)
        PROVE  MemoryIInv' /\ (BudgetHolds /\ ImportantInView => ImportantInView')
    BY <1>4, CompactionStep
  <1> QED
    BY <1>1, <1>2, <1>3, <1>4 DEF NextMemory

\* A compaction that ends puts the block where it belongs.
LEMMA CompactionPlaces ==
    ASSUME MemoryIInv, [NextMemory]_memoryVars, NEW a \in Agents, phase[a] = "recalling", history'[a] # history[a]
    PROVE  CompactedTo(history[a], history'[a], Current, DOMAIN recs # {})
  <1> DEFINE h == history[a]
             recalled == Versions(Preamble(Everything))
             m == Message("system", "block", recalled)
             g == IF recalled = {} THEN out[a] ELSE Splice(out[a], head[a], m)
             n == head[a]
  <1>1. /\ HistoryOK(h, now) /\ BlocksOrdered(h, now, Current) /\ now \in Nat
        /\ history \in [Agents -> Seq(Messages)]
        /\ IsHead(n, h) /\ IsSummary(out[a], n, h, now)
    BY DEF MemoryIInv, MemoryTypeOK, BlocksInOrder, CompactionOK
  <1>2. history'[a] = g
    <2>1. ~UNCHANGED memoryVars /\ ~Quiet
      <3>1. UNCHANGED memoryVars => history' = history
        BY DEF memoryVars
      <3> QED
        BY <3>1 DEF Quiet
    <2>2. PICK b \in Agents : Tool(b) \/ Compaction(b)
      BY <2>1 DEF NextMemory
    <2>3. CASE Tool(b)
      <3>1. phase[b] = "running"
        BY <2>3 DEF Tool, RememberTool, NoteTool, UpdateTodoTool, RecallTool, ForgetTool, CanCall
      <3>2. \E x : history' = [history EXCEPT ![b] = x]
        BY <2>3 DEF Tool, RememberTool, NoteTool, UpdateTodoTool, RecallTool, ForgetTool, Remember
      <3>3. b # a
        BY <3>1
      <3> QED
        BY <1>1, <3>2, <3>3
    <2>4. CASE Compaction(b)
      <3>1. Inject(b)
        BY <2>4 DEF Compaction, BeginCompact, Summarize, CompactFails
      <3>2. \E x : history' = [history EXCEPT ![b] = x]
        BY <3>1 DEF Inject
      <3>3. b = a
        BY <1>1, <3>2
      <3> QED
        BY <1>1, <3>1, <3>3 DEF Inject
    <2> QED
      BY <2>2, <2>3, <2>4
  <1>3. /\ recalled \subseteq Current /\ recalled \subseteq RecordIDs \X Nat
        /\ DOMAIN recs # {} => recalled # {}
    <2> DEFINE found == Ranked(DOMAIN recs)
    <2>1. found \in Seq(DOMAIN recs)
      BY RankedAll DEF MemoryIInv, IsRanking
    <2>2. PICK w \in 0 .. Len(found) : /\ Preamble(Everything) = SubSeq(found, 1, w)
                                       /\ DOMAIN recs # {} => w # 0 /\ Len(found) # 0
      BY PreambleIs DEF MemoryIInv
    <2> HIDE DEF found
    <2> DEFINE s == SubSeq(found, 1, w)
    <2>3. s \in Seq(DOMAIN recs) /\ Len(s) = w /\ w \in Nat
      BY <2>1, <2>2
    <2>4. recalled = {Version(s[k]) : k \in 1 .. Len(s)}
      <3>1. Preamble(Everything) = s
        BY <2>2
      <3> HIDE DEF s
      <3> QED
        BY <3>1 DEF Versions
    <2> HIDE DEF s, recalled
    <2>5. recalled \subseteq Current
      BY <2>3, <2>4 DEF Current
    <2>6. DOMAIN recs # {} => recalled # {}
      <3> SUFFICES ASSUME DOMAIN recs # {} PROVE recalled # {}
        OBVIOUS
      <3>1. 1 \in 1 .. Len(s)
        <4>1. w # 0
          BY <2>2
        <4> QED
          BY <2>3, <4>1
      <3>2. Version(s[1]) \in recalled
        BY <2>4, <3>1
      <3> QED
        BY <3>2
    <2>7. Current \subseteq RecordIDs \X Nat
      BY DEF Current, Version, MemoryIInv, MemoryTypeOK, RecordsOK
    <2> QED
      BY <2>5, <2>6, <2>7
  <1> HIDE DEF recalled, h, n
  <1>4. CASE recalled = {}
    <2>1. CompactedTo(h, out[a], Current, FALSE)
      BY <1>1, NoBlock
    <2>2. (DOMAIN recs # {}) = FALSE
      BY <1>3, <1>4
    <2> QED
      BY <1>2, <1>4, <2>1, <2>2 DEF h
  <1>5. CASE recalled # {}
    <2>1. IsBlock(m, now, Current)
      BY <1>1, <1>3 DEF IsBlock, Message, Messages
    <2>2. g = Splice(out[a], n, m)
      BY <1>5 DEF n
    <2> HIDE DEF m, g
    <2>3. HistoryOK(g, now) /\ IsSpliced(g, h, n, m)
      BY <1>1, <2>1, <2>2, BlockSpliced
    <2>4. \A some \in BOOLEAN : CompactedTo(h, g, Current, some)
      BY <1>1, <2>1, <2>3, BlockAhead
    <2> QED
      BY <1>2, <2>4 DEF h
  <1> QED
    BY <1>4, <1>5

\* The state at the start.
LEMMA MemoryInit ==
    ASSUME InitMemory
    PROVE  MemoryIInv /\ ImportantInView
  <1>1. DOMAIN recs = {}
    BY DEF InitMemory
  <1>2. MemoryTypeOK
    BY <1>1, BudgetAssumption DEF InitMemory, MemoryTypeOK
  <1>3. RecordsOK
    BY <1>1, FS_EmptySet DEF RecordsOK
  <1>4. Instructions \in Messages /\ Instructions.at = 0 /\ Instructions.what = "instructions"
    BY DEF Instructions, Messages
  <1>5. ASSUME NEW a \in Agents
        PROVE  /\ history[a] \in Seq(Messages) /\ HistoryOK(history[a], now)
               /\ BlocksOrdered(history[a], now, Current)
    <2>1. history[a] = <<Instructions>> /\ now = 0
      BY DEF InitMemory
    <2>2. /\ <<Instructions>> \in Seq(Messages) /\ <<Instructions>> # <<>> /\ <<Instructions>>[1] = Instructions
          /\ Len(<<Instructions>>) = 1 /\ \A k \in 1 .. 1 : <<Instructions>>[k] = Instructions
      BY <1>4
    <2>3. HistoryOK(<<Instructions>>, 0)
      BY <1>4, <2>2 DEF HistoryOK
    <2>4. BlocksOrdered(<<Instructions>>, 0, Current)
      BY <1>4, <2>2 DEF BlocksOrdered
    <2> QED
      BY <2>1, <2>2, <2>3, <2>4
  <1>6. history \in [Agents -> Seq(Messages)] /\ out \in [Agents -> Seq(Messages)]
    BY <1>5 DEF InitMemory
  <1>7. CompactionOK
    BY DEF InitMemory, CompactionOK
  <1> QED
    BY <1>1, <1>2, <1>3, <1>5, <1>6, <1>7 DEF MemoryIInv, BlocksInOrder, ImportantInView

\* The inductive invariant of the memory, for any number of agents, records, calls and compactions,
\* and any budget.
THEOREM MemoryInvariantHolds == MemorySpec => []MemoryIInv
  <1>1. InitMemory => MemoryIInv
    BY MemoryInit
  <1>2. MemoryIInv /\ [NextMemory]_memoryVars => MemoryIInv'
    BY MemoryStep
  <1> QED
    BY <1>1, <1>2, PTL DEF MemorySpec

\* BlockBeforeSummary, whatever the agents write and forget while a summary is made: Compactor.Compact
\* puts the recalled block before the new summary and the turns, and shows the store as it is when
\* the compaction ends.
THEOREM BlocksComeBeforeSummaries == MemorySpec => BlockBeforeSummary
  <1>1. MemoryIInv /\ [NextMemory]_memoryVars =>
            [\A a \in Agents : (phase[a] = "recalling" /\ history'[a] # history[a]) =>
                CompactedTo(history[a], history'[a], Current, DOMAIN recs # {})]_memoryVars
    BY CompactionPlaces
  <1> QED
    BY <1>1, MemoryInvariantHolds, PTL DEF MemorySpec, BlockBeforeSummary

\* ImportantInView: compacting an agent's history never takes what it remembered with the highest
\* salience out of its model's view, when the preamble's budget is unlimited or holds the lines of
\* all that can be remembered.
THEOREM ImportantStaysInView ==
    ASSUME BudgetHolds
    PROVE  MemorySpec => []ImportantInView
  <1>1. InitMemory => MemoryIInv /\ ImportantInView
    BY MemoryInit
  <1>2. MemoryIInv /\ ImportantInView /\ [NextMemory]_memoryVars => (MemoryIInv /\ ImportantInView)'
    BY MemoryStep
  <1> QED
    BY <1>1, <1>2, PTL DEF MemorySpec

=============================================================================
