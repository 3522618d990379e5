---------------------------- MODULE FanoutProofs ----------------------------
(***************************************************************************)
(* Proofs about the two fan-outs: the tool calls of a step (ToolFanout),   *)
(* for every set of tools, every number of calls and of parallel slots, and*)
(* every threshold of the circuit breaker; and the waves of a workflow     *)
(* (Workflow), for every finite set of steps and every graph over them:    *)
(* validate is exact, an accepted graph is run to its end, and steps find  *)
(* their inputs.                                                           *)
(***************************************************************************)
EXTENDS ToolFanout, Workflow, FiniteSetTheorems, WellFoundedInduction, TLAPS

-----------------------------------------------------------------------------
(* ToolFanout                                                              *)

\* The semaphore of a fan-out is never wider than the configured one.
LEMMA SlotsType == Slots \in Nat /\ Slots <= Width /\ Width \in Nat /\ Width >= 1
  BY WidthAssumption DEF Slots, Width, InParallel

\* Active and Admitted are finite sets of calls, the second within the first.
LEMMA ActiveFinite ==
    /\ IsFiniteSet(Active) /\ Cardinality(Active) \in Nat
    /\ \A t \in Tools : /\ Admitted(t) \in SUBSET Active
                        /\ IsFiniteSet(Admitted(t)) /\ Cardinality(Admitted(t)) \in Nat
  <1>1. IsFiniteSet(Calls)
    BY FS_Interval, CallsAssumption DEF Calls
  <1>2. Active \in SUBSET Calls /\ \A t \in Tools : Admitted(t) \in SUBSET Active
    BY DEF Active, Admitted
  <1>3. IsFiniteSet(Active) /\ Cardinality(Active) \in Nat
    BY <1>1, <1>2, FS_Subset, FS_CardinalityType
  <1> QED
    BY <1>2, <1>3, FS_Subset, FS_CardinalityType

\* The error a fan-out returns is that of one of its calls.
LEMMA FirstFatalIsCall ==
    ASSUME AnyFatal
    PROVE  FirstFatal \in Calls /\ outcome[FirstFatal] = "fatal"
  <1> DEFINE F == {i \in Calls : outcome[i] = "fatal"}
  <1>1. F # {} /\ F \in SUBSET Nat
    BY CallsAssumption DEF AnyFatal, Calls
  <1>2. PICK m \in F : \A j \in F : m <= j
    <2> DEFINE R == OpToRel(<, Nat)
    <2>1. IsWellFoundedOn(R, Nat)
      BY NatLessThanWellFounded
    <2>2. \A a, b \in Nat : a < b => <<a, b>> \in R
      BY DEF OpToRel
    <2> HIDE DEF R
    <2> HIDE DEF F
    <2>3. PICK x \in F : \A y \in F : ~(<<y, x>> \in R)
      BY <1>1, <2>1, WFMin
    <2>4. \A y \in F : x <= y
      <3> SUFFICES ASSUME NEW y \in F PROVE x <= y
        OBVIOUS
      <3>1. x \in Nat /\ y \in Nat
        BY <1>1
      <3>2. ~(y < x)
        BY <2>2, <2>3, <3>1
      <3> QED
        BY <3>1, <3>2
    <2> QED
      BY <2>4
  <1>3. \E i \in Calls : outcome[i] = "fatal" /\ \A j \in Calls : outcome[j] = "fatal" => i <= j
    BY <1>2
  <1> QED
    BY <1>3 DEF FirstFatal

\* TypeOK holds in every reachable state.
THEOREM TypeCorrect == Spec => []TypeOK
  <1> USE CallsAssumption DEF Calls
  <1>1. Init => TypeOK
    <2> SUFFICES ASSUME Init PROVE TypeOK
      OBVIOUS
    <2>1. calls \in [Calls -> Names] /\ pc \in [Calls -> Stages] /\ outcome \in [Calls -> Outcomes]
      BY DEF Init, Names, Stages, Outcomes
    <2>2. errs \in [Tools -> Nat]
      BY DEF Init
    <2>3. round \in Nat /\ count \in 0 .. MaxCalls /\ next \in 1 .. MaxCalls + 1 /\ fatal \in 0 .. MaxCalls
      BY DEF Init
    <2> QED
      BY <2>1, <2>2, <2>3 DEF Init, TypeOK
  <1>2. TypeOK /\ [Next]_vars => TypeOK'
    <2> SUFFICES ASSUME TypeOK, [Next]_vars PROVE TypeOK'
      OBVIOUS
    <2> USE DEF TypeOK
    <2>1. ASSUME NEW n \in 1 .. MaxCalls, NEW names \in [Calls -> Names], Respond(n, names)
          PROVE  TypeOK'
      <3>1. pc' \in [Calls -> Stages] /\ outcome' \in [Calls -> Outcomes]
        BY <2>1 DEF Respond, Stages, Outcomes
      <3>2. round' \in Nat /\ count' \in 0 .. MaxCalls /\ next' \in 1 .. MaxCalls + 1
        BY <2>1 DEF Respond
      <3>3. calls' \in [Calls -> Names]
        BY <2>1 DEF Respond
      <3> QED
        BY <2>1, <3>1, <3>2, <3>3 DEF Respond
    <2>2. CASE CheckRun \/ EndRun
      BY <2>2 DEF CheckRun, EndRun
    <2>3. CASE StartCall
      BY <2>3 DEF StartCall, Stages
    <2>4. CASE ReturnResults
      <3>1. fatal' \in 0 .. MaxCalls
        <4>1. fatal' = FirstFatal
          BY <2>4 DEF ReturnResults
        <4>2. CASE ~AnyFatal
          BY <4>1, <4>2 DEF FirstFatal
        <4>3. CASE AnyFatal
          BY <4>1, <4>3, FirstFatalIsCall
        <4> QED
          BY <4>2, <4>3
      <3> QED
        BY <2>4, <3>1 DEF ReturnResults
    <2>5. ASSUME NEW i \in Calls, CallStep(i) PROVE TypeOK'
      <3> USE DEF Report, Stages, Outcomes
      <3>1. CASE CheckCall(i)
        BY <3>1 DEF CheckCall
      <3>2. CASE ApproveCall(i)
        BY <3>2 DEF ApproveCall
      <3>3. CASE NotifiedCall(i)
        BY <3>3 DEF NotifiedCall
      <3>4. CASE ToolSucceeds(i)
        BY <3>4 DEF ToolSucceeds
      <3>5. CASE ToolFails(i)
        <4>1. errs' = [errs EXCEPT ![calls[i]] = @ + 1]
          BY <3>5 DEF ToolFails
        <4>2. \A t \in Tools : errs[t] + 1 \in Nat
          OBVIOUS
        <4>3. errs' \in [Tools -> Nat]
          BY <4>1, <4>2
        <4> QED
          BY <3>5, <4>3 DEF ToolFails
      <3>6. CASE ToolFatal(i)
        <4>1. cctx' \in BOOLEAN
          BY <3>6, WidthAssumption DEF ToolFatal
        <4> QED
          BY <3>6, <4>1 DEF ToolFatal
      <3> QED
        BY <2>5, <3>1, <3>2, <3>3, <3>4, <3>5, <3>6 DEF CallStep
    <2>6. CASE CallerCancels
      BY <2>6 DEF CallerCancels
    <2>7. CASE UNCHANGED vars
      BY <2>7 DEF vars
    <2> QED
      BY <2>1, <2>2, <2>3, <2>4, <2>5, <2>6, <2>7 DEF Next, LoopStep, ModelReturns, Returned
  <1> QED
    BY <1>1, <1>2, PTL DEF Spec

-----------------------------------------------------------------------------
(* The circuit breaker                                                     *)

\* When a call leaves its slot the other calls keep theirs.
LEMMA SlotReleased ==
    ASSUME IInv, NEW i \in Calls, pc' = [pc EXCEPT ![i] = "finished"], calls' = calls
    PROVE  /\ Active' = Active \ {i}
           /\ \A t \in Tools : Admitted(t)' = Admitted(t) \ {i}
           /\ SlotsBound'
           /\ \A t \in Tools : Cardinality(Admitted(t)') <= Cardinality(Admitted(t))
           /\ \A t \in Tools : i \in Admitted(t) =>
                 Cardinality(Admitted(t)') = Cardinality(Admitted(t)) - 1
  <1>1. Active' = Active \ {i} /\ \A t \in Tools : Admitted(t)' = Admitted(t) \ {i}
    BY DEF Active, Admitted, IInv, TypeOK
  <1>2. Cardinality(Active') <= Cardinality(Active) /\ Cardinality(Active') \in Int
    BY <1>1, ActiveFinite, FS_RemoveElement
  <1>3. SlotsBound'
    BY <1>2, ActiveFinite, SlotsType DEF IInv, SlotsBound, Width
  <1>4. ASSUME NEW t \in Tools
        PROVE  /\ Cardinality(Admitted(t)') <= Cardinality(Admitted(t))
               /\ i \in Admitted(t) => Cardinality(Admitted(t)') = Cardinality(Admitted(t)) - 1
    <2>1. IsFiniteSet(Admitted(t)) /\ Cardinality(Admitted(t)) \in Nat /\ Admitted(t)' = Admitted(t) \ {i}
      BY <1>1, ActiveFinite
    <2>2. Cardinality(Admitted(t) \ {i}) = IF i \in Admitted(t) THEN Cardinality(Admitted(t)) - 1
                                                              ELSE Cardinality(Admitted(t))
      BY <2>1, FS_RemoveElement
    <2> QED
      BY <2>1, <2>2
  <1> QED
    BY <1>1, <1>3, <1>4

\* A call that moves on past the breaker keeps its slot.
LEMMA SlotKept ==
    ASSUME IInv, NEW i \in Calls, NEW s \in {"approve", "notify", "invoke"},
           pc[i] \in {"check", "approve", "notify"}, pc' = [pc EXCEPT ![i] = s], calls' = calls
    PROVE  /\ Active' = Active
           /\ SlotsBound'
           /\ \A t \in Tools : Admitted(t)' = IF calls[i] = t THEN Admitted(t) \cup {i} ELSE Admitted(t)
  BY DEF Active, Admitted, IInv, TypeOK, SlotsBound, Width

\* LoopShape survives a step of one call that holds a slot.
LEMMA CallShape ==
    ASSUME IInv, NEW i \in Active, NEW s \in Stages, pc' = [pc EXCEPT ![i] = s],
           s \in {"approve", "notify", "invoke"} => calls[i] \in Tools,
           UNCHANGED <<calls, next, count, phase>>
    PROVE  LoopShape'
  <1>1. i \in Calls /\ phase = "tools" /\ ~(i >= next \/ i > count)
    BY DEF IInv, LoopShape, Active
  <1> QED
    BY <1>1 DEF IInv, LoopShape, TypeOK, Active

\* The circuit-breaker invariant holds in every reachable state.
THEOREM InvariantHolds == Spec => []IInv
  <1>1. Init /\ TypeOK => IInv
    <2> SUFFICES ASSUME Init, TypeOK PROVE IInv
      OBVIOUS
    <2>1. Active = {} /\ \A t \in Tools : Admitted(t) = {}
      BY DEF Init, Active, Admitted
    <2>2. SlotsBound
      BY <2>1, FS_EmptySet, SlotsType DEF SlotsBound
    <2>3. AdmittedBound
      <3> SUFFICES ASSUME MaxToolErrors > 0, NEW t \in Tools
                   PROVE  errs[t] + Cardinality(Admitted(t)) <= MaxToolErrors + Width - 1
        BY DEF AdmittedBound
      <3>1. errs[t] = 0 /\ Cardinality(Admitted(t)) = 0
        BY <2>1, FS_EmptySet DEF Init
      <3> QED
        BY <3>1, SlotsType, BreakerAssumption
    <2>4. LoopShape
      BY <2>1 DEF LoopShape, Init
    <2> QED
      BY <2>2, <2>3, <2>4 DEF IInv
  <1>2. TypeOK' /\ IInv /\ [Next]_vars => IInv'
    <2> SUFFICES ASSUME TypeOK', IInv, [Next]_vars PROVE IInv'
      OBVIOUS
    <2>1. ASSUME NEW n \in 1 .. MaxCalls, NEW names \in [Calls -> Names], Respond(n, names)
          PROVE  IInv'
      <3>1. Active' = {} /\ \A t \in Tools : Admitted(t)' = {}
        BY <2>1 DEF Respond, Active, Admitted
      <3>2. SlotsBound'
        BY <3>1, FS_EmptySet, SlotsType DEF SlotsBound, Width
      <3>3. AdmittedBound'
        <4> SUFFICES ASSUME MaxToolErrors > 0, NEW t \in Tools
                     PROVE  errs'[t] + Cardinality(Admitted(t)') <= MaxToolErrors + Width - 1
          BY DEF AdmittedBound, Width
        <4>1. Cardinality(Admitted(t)') = 0 /\ errs' = errs
          BY <2>1, <3>1, FS_EmptySet DEF Respond
        <4>2. errs[t] + Cardinality(Admitted(t)) <= MaxToolErrors + Width - 1 /\ errs[t] \in Nat
          BY DEF IInv, AdmittedBound, TypeOK
        <4> QED
          BY <4>1, <4>2, ActiveFinite, SlotsType, BreakerAssumption
      <3>4. LoopShape'
        BY <2>1, <3>1 DEF LoopShape, Respond
      <3> QED
        BY <3>2, <3>3, <3>4 DEF IInv
    <2>2. CASE StartCall
      <3>1. next \in Calls /\ next <= count
        BY <2>2, CallsAssumption DEF StartCall, IInv, TypeOK, Calls
      <3>2. Active' = Active \cup {next} /\ next \notin Active
        BY <2>2, <3>1 DEF StartCall, Active, IInv, TypeOK, LoopShape
      <3>3. \A t \in Tools : Admitted(t)' = Admitted(t)
        BY <2>2, <3>1, <3>2 DEF StartCall, Active, Admitted, IInv, TypeOK
      <3>4. SlotsBound'
        <4>1. Cardinality(Active') = Cardinality(Active) + 1
          BY <3>2, ActiveFinite, FS_AddElement
        <4>2. Cardinality(Active) < Slots
          BY <2>2 DEF StartCall
        <4> QED
          BY <4>1, <4>2, ActiveFinite, SlotsType DEF SlotsBound, Width
      <3>5. AdmittedBound'
        BY <2>2, <3>3 DEF StartCall, IInv, AdmittedBound, Width
      <3>6. LoopShape'
        BY <2>2, <3>1, CallsAssumption DEF StartCall, IInv, LoopShape, TypeOK, Active, Calls
      <3> QED
        BY <3>4, <3>5, <3>6 DEF IInv
    <2>3. ASSUME NEW i \in Calls, CallStep(i) PROVE IInv'
      <3>1. i \in Active
        BY <2>3 DEF CallStep, CheckCall, ApproveCall, NotifiedCall, ToolSucceeds, ToolFails,
                    ToolFatal, MayReturn, Active
      <3>2. CASE pc' = [pc EXCEPT ![i] = "finished"] /\ UNCHANGED <<calls, errs, next, count, phase>>
        <4>1. LoopShape'
          BY <3>1, <3>2, CallShape DEF Stages
        <4>2. AdmittedBound'
          <5> SUFFICES ASSUME MaxToolErrors > 0, NEW t \in Tools
                       PROVE  errs'[t] + Cardinality(Admitted(t)') <= MaxToolErrors + Width - 1
            BY DEF AdmittedBound, Width
          <5>1. Cardinality(Admitted(t)') <= Cardinality(Admitted(t))
            BY <3>2, SlotReleased
          <5>2. errs[t] + Cardinality(Admitted(t)) <= MaxToolErrors + Width - 1 /\ errs[t] \in Nat
            BY DEF IInv, AdmittedBound, TypeOK
          <5>3. Cardinality(Admitted(t)') \in Nat
            <6>1. Admitted(t)' = Admitted(t) \ {i}
              BY <3>2, SlotReleased
            <6> QED
              BY <6>1, ActiveFinite, FS_RemoveElement, FS_CardinalityType
          <5> QED
            BY <3>2, <5>1, <5>2, <5>3, ActiveFinite, SlotsType, BreakerAssumption
        <4> QED
          BY <3>2, <4>1, <4>2, SlotReleased DEF IInv
      <3>3. CASE ToolFails(i)
        <4>1. /\ pc' = [pc EXCEPT ![i] = "finished"] /\ UNCHANGED <<calls, next, count, phase>>
              /\ pc[i] = "invoke" /\ errs' = [errs EXCEPT ![calls[i]] = @ + 1]
          BY <3>3 DEF ToolFails, Report, MayReturn
        <4>2. calls[i] \in Tools /\ i \in Admitted(calls[i])
          BY <4>1 DEF IInv, LoopShape, Admitted
        <4>3. LoopShape'
          BY <3>1, <4>1, CallShape DEF Stages
        <4>4. AdmittedBound'
          <5> SUFFICES ASSUME MaxToolErrors > 0, NEW t \in Tools
                       PROVE  errs'[t] + Cardinality(Admitted(t)') <= MaxToolErrors + Width - 1
            BY DEF AdmittedBound, Width
          <5>1. errs[t] + Cardinality(Admitted(t)) <= MaxToolErrors + Width - 1 /\ errs[t] \in Nat
            BY DEF IInv, AdmittedBound, TypeOK
          <5>2. Cardinality(Admitted(t)) \in Nat
            BY ActiveFinite
          <5>3. CASE t = calls[i]
            <6>1. Cardinality(Admitted(t)') = Cardinality(Admitted(t)) - 1
              BY <4>1, <4>2, <5>3, SlotReleased
            <6>2. errs'[t] = errs[t] + 1
              BY <4>1, <5>3 DEF IInv, TypeOK
            <6> QED
              BY <5>1, <5>2, <6>1, <6>2, SlotsType, BreakerAssumption
          <5>4. CASE t # calls[i]
            <6>1. Admitted(t)' = Admitted(t)
              <7>1. Admitted(t)' = Admitted(t) \ {i} /\ i \notin Admitted(t)
                BY <4>1, <5>4, SlotReleased DEF Admitted
              <7> QED
                BY <7>1
            <6>2. errs'[t] = errs[t]
              BY <4>1, <5>4 DEF IInv, TypeOK
            <6> QED
              BY <5>1, <6>1, <6>2
          <5> QED
            BY <5>3, <5>4
        <4> QED
          BY <4>1, <4>3, <4>4, SlotReleased DEF IInv
      <3>4. CASE CheckCall(i) /\ calls[i] \in Tools /\ ~BreakerOpen(calls[i])
                 /\ pc' = [pc EXCEPT ![i] = IF Approver THEN "approve" ELSE "notify"]
        <4>1. PICK s \in {"approve", "notify"} : pc' = [pc EXCEPT ![i] = s]
          BY <3>4
        <4>2. pc[i] = "check" /\ UNCHANGED <<calls, next, count, phase, errs>>
          BY <3>4 DEF CheckCall
        <4>3. LoopShape'
          BY <3>1, <3>4, <4>1, <4>2, CallShape DEF Stages
        <4>4. SlotsBound'
          BY <4>1, <4>2, SlotKept
        <4>5. \A t \in Tools : Admitted(t)' = IF calls[i] = t THEN Admitted(t) \cup {i} ELSE Admitted(t)
          BY <4>1, <4>2, SlotKept
        <4>6. AdmittedBound'
          <5> SUFFICES ASSUME MaxToolErrors > 0, NEW t \in Tools
                       PROVE  errs'[t] + Cardinality(Admitted(t)') <= MaxToolErrors + Width - 1
            BY DEF AdmittedBound, Width
          <5>1. CASE t # calls[i]
            BY <4>2, <4>5, <5>1 DEF IInv, AdmittedBound
          <5>2. CASE t = calls[i]
            <6>1. errs[t] < MaxToolErrors /\ errs[t] \in Nat
              BY <3>4, <5>2, BreakerAssumption DEF BreakerOpen, IInv, TypeOK
            <6>2. Admitted(t) \cup {i} \in SUBSET Active
              BY <3>1, ActiveFinite
            <6>3. Cardinality(Admitted(t)') <= Cardinality(Active) /\ Cardinality(Admitted(t)') \in Nat
              BY <4>5, <5>2, <6>2, ActiveFinite, FS_Subset, FS_CardinalityType
            <6>4. Cardinality(Active) <= Width
              BY DEF IInv, SlotsBound
            <6> QED
              BY <4>2, <6>1, <6>3, <6>4, ActiveFinite, SlotsType, BreakerAssumption
          <5> QED
            BY <5>1, <5>2
        <4> QED
          BY <4>3, <4>4, <4>6 DEF IInv
      <3>5. CASE /\ pc[i] \in {"approve", "notify"} /\ UNCHANGED <<calls, next, count, phase, errs>>
                 /\ \E s \in {"notify", "invoke"} : pc' = [pc EXCEPT ![i] = s]
        <4>1. PICK s \in {"notify", "invoke"} : pc' = [pc EXCEPT ![i] = s]
          BY <3>5
        <4>2. LoopShape'
          BY <3>1, <3>5, <4>1, CallShape DEF Stages, IInv, LoopShape
        <4>3. \A t \in Tools : Admitted(t)' = Admitted(t)
          <5>1. \A t \in Tools : Admitted(t)' = IF calls[i] = t THEN Admitted(t) \cup {i} ELSE Admitted(t)
            BY <3>5, <4>1, SlotKept
          <5>2. i \in Admitted(calls[i])
            BY <3>5 DEF Admitted
          <5> QED
            BY <5>1, <5>2
        <4>4. SlotsBound'
          BY <3>5, <4>1, SlotKept
        <4>5. AdmittedBound'
          BY <3>5, <4>3 DEF IInv, AdmittedBound, Width
        <4> QED
          BY <4>2, <4>4, <4>5 DEF IInv
      <3> QED
        BY <2>3, <3>2, <3>3, <3>4, <3>5
        DEF CallStep, CheckCall, ApproveCall, NotifiedCall, ToolSucceeds, ToolFatal, Report
    <2>4. CASE CheckRun \/ ReturnResults \/ EndRun \/ CallerCancels \/ UNCHANGED vars
      <3>1. UNCHANGED <<pc, calls, errs, next, count>>
        BY <2>4 DEF CheckRun, ReturnResults, EndRun, CallerCancels, vars
      <3>2. Active' = Active /\ \A t \in Tools : Admitted(t)' = Admitted(t)
        BY <3>1 DEF Active, Admitted
      <3>3. phase' # "tools" => Active = {}
        BY <2>4 DEF CheckRun, ReturnResults, EndRun, CallerCancels, vars, IInv, LoopShape
      <3>4. LoopShape'
        BY <3>1, <3>2, <3>3 DEF IInv, LoopShape
      <3>5. SlotsBound' /\ AdmittedBound'
        BY <3>1, <3>2 DEF IInv, SlotsBound, AdmittedBound, Width
      <3> QED
        BY <3>4, <3>5 DEF IInv
    <2> QED
      BY <2>1, <2>2, <2>3, <2>4 DEF Next, LoopStep, ModelReturns, Returned
  <1> QED
    BY <1>1, <1>2, TypeCorrect, PTL DEF Spec

\* The circuit breaker's bound on the failures of one tool, for every number of
\* parallel slots and every threshold.
THEOREM BreakerBounded == Spec => []BreakerBound
  <1>1. IInv => BreakerBound
    <2> SUFFICES ASSUME IInv, MaxToolErrors > 0, NEW t \in Tools
                 PROVE  errs[t] <= MaxToolErrors + Width - 1
      BY DEF BreakerBound
    <2>1. errs[t] + Cardinality(Admitted(t)) <= MaxToolErrors + Width - 1 /\ errs[t] \in Nat
      BY DEF IInv, AdmittedBound, TypeOK
    <2> QED
      BY <2>1, ActiveFinite, SlotsType, BreakerAssumption
  <1> QED
    BY <1>1, InvariantHolds, PTL

-----------------------------------------------------------------------------
(* Workflow                                                                *)

\* Taking one element away from what is left lowers indeg by one.
LEMMA Discount ==
    ASSUME NEW D, NEW V, NEW n, IsFiniteSet(D), n \in D, n \notin V
    PROVE  /\ Cardinality(D \ (V \cup {n})) = Cardinality(D \ V) - 1
           /\ Cardinality(D \ V) \in Nat
           /\ Cardinality(D \ V) > 0
           /\ Cardinality(D \ V) = 1 <=> D \subseteq V \cup {n}
<1>1. IsFiniteSet(D \ V)
  BY FS_Subset, D \ V \subseteq D
<1>2. (D \ V) \ {n} = D \ (V \cup {n})
  OBVIOUS
<1>3. n \in D \ V
  OBVIOUS
<1>4. Cardinality(D \ (V \cup {n})) = Cardinality(D \ V) - 1
  BY <1>1, <1>2, <1>3, FS_RemoveElement
<1>5. IsFiniteSet(D \ (V \cup {n}))
  BY FS_Subset, D \ (V \cup {n}) \subseteq D
<1>6. Cardinality(D \ V) \in Nat /\ Cardinality(D \ (V \cup {n})) \in Nat
  BY <1>1, <1>5, FS_CardinalityType
<1>7. Cardinality(D \ (V \cup {n})) = 0 <=> D \ (V \cup {n}) = {}
  BY <1>5, FS_EmptySet
<1> QED
  BY <1>4, <1>6, <1>7

\* A graph that is accepted has something ready until all is done.
LEMMA ReadyExists ==
    ASSUME deps \in [Steps -> SUBSET (Steps \cup {Missing})], done \in SUBSET Steps,
           Known, Acyclic, Ready = {}
    PROVE  done = Steps
<1> SUFFICES ASSUME done # Steps PROVE FALSE
  OBVIOUS
<1> DEFINE K == Steps \ done
<1>1. K \subseteq Steps /\ K # {}
  OBVIOUS
<1>2. ASSUME NEW s \in K PROVE deps[s] \cap K # {}
  <2>1. ~ (deps[s] \subseteq done)
    BY DEF Ready
  <2>2. deps[s] \subseteq Steps
    BY DEF Known
  <2> QED
    BY <2>1, <2>2
<1> QED
  BY <1>1, <1>2 DEF Acyclic, Knot

\* When the queue is empty, the steps not visited form a knot.
LEMMA LeftoverKnot ==
    ASSUME deps \in [Steps -> SUBSET (Steps \cup {Missing})], visited \in SUBSET Steps,
           Known, queue = {}, queue = {s \in Steps \ visited : deps[s] \subseteq visited},
           visited # Steps
    PROVE  Knot(Steps \ visited)
<1>1. ASSUME NEW s \in Steps \ visited PROVE deps[s] \cap (Steps \ visited) # {}
  <2>1. ~ (deps[s] \subseteq visited)
    OBVIOUS
  <2>2. deps[s] \subseteq Steps
    BY DEF Known
  <2> QED
    BY <2>1, <2>2
<1> QED
  BY <1>1 DEF Knot

\* Nothing has run yet.
LEMMA InitIInv == InitWorkflow => WorkflowIInv
<1> SUFFICES ASSUME InitWorkflow PROVE WorkflowIInv
  OBVIOUS
<1>1. WorkflowTypeOK
  BY StepsAssumption, GraphsAssumption DEF InitWorkflow, WorkflowTypeOK
<1>2. IndegCounts /\ QueueExact /\ KnotsUnvisited /\ ValidateExact /\ NeverStuck
  BY DEF InitWorkflow, IndegCounts, QueueExact, KnotsUnvisited, ValidateExact, NeverStuck
<1>3. WaveShape /\ InputsReady
  BY DEF InitWorkflow, WaveShape, InputsReady, Busy
<1>4. CancelHasCause /\ FailureIsCause
  BY HangingAssumption, StepsAssumption DEF InitWorkflow, CancelHasCause, FailureIsCause
<1> QED
  BY <1>1, <1>2, <1>3, <1>4 DEF WorkflowIInv

\* The type invariant is preserved by every step.
LEMMA TypeStep == ASSUME WorkflowIInv, [NextWorkflow]_workflowVars PROVE WorkflowTypeOK'
<1> USE DEF WorkflowIInv, WorkflowTypeOK, validateVars, runVars, Return
<1>1. CASE CheckNames
  <2>1. CASE stage' = "kahn"
    <3>1. ASSUME NEW s \in Steps, deps[s] \subseteq Steps PROVE Cardinality(deps[s]) \in Nat
      BY <3>1, StepsAssumption, FS_Subset, FS_CardinalityType
    <3> QED
      BY <1>1, <2>1, <3>1 DEF CheckNames
  <2>2. CASE stage' # "kahn"
    BY <1>1, <2>2 DEF CheckNames
  <2> QED
    BY <2>1, <2>2
<1>2. ASSUME NEW n \in Steps, Visit(n) PROVE WorkflowTypeOK'
  <2>1. ASSUME NEW m \in Dependents(n) PROVE indeg[m] - 1 \in Nat
    <3>1. IsFiniteSet(deps[m]) /\ n \in deps[m] /\ n \notin visited
      BY <1>2, StepsAssumption, FS_Subset DEF Visit, QueueExact, KnotsUnvisited, Known, Dependents
    <3>2. Cardinality(deps[m] \ visited) \in Nat /\ Cardinality(deps[m] \ visited) > 0
      BY <3>1, Discount
    <3>3. indeg[m] = Cardinality(deps[m] \ visited)
      BY <1>2 DEF Visit, IndegCounts, Dependents
    <3> QED
      BY <3>2, <3>3
  <2> QED
    BY <1>2, <2>1 DEF Visit, Dependents
<1>3. CASE Validated
  BY <1>3 DEF Validated
<1>4. CASE Collect
  BY <1>4 DEF Collect
<1>5. CASE EndWave
  BY <1>5 DEF EndWave
<1>6. ASSUME NEW s \in Steps, BeginStep(s) \/ StepSucceeds(s) PROVE WorkflowTypeOK'
  BY <1>6 DEF BeginStep, StepSucceeds
<1>9. ASSUME NEW s \in Steps, StepFails(s) PROVE WorkflowTypeOK'
  <2>1. canceled' \in {"no", "caller", "step"}
    BY <1>9, Zenon DEF StepFails
  <2> QED
    BY <1>9, <2>1 DEF StepFails
<1>7. CASE CancelRun
  BY <1>7 DEF CancelRun
<1>8. CASE UNCHANGED workflowVars
  BY <1>8 DEF workflowVars
<1> QED
  BY <1>1, <1>2, <1>3, <1>4, <1>5, <1>6, <1>7, <1>8, <1>9
  DEF NextWorkflow, RunStep, GoStep, RunReturned

\* Kahn's algorithm: counts, queue and knots.
LEMMA KahnStep ==
    ASSUME WorkflowIInv, [NextWorkflow]_workflowVars
    PROVE  IndegCounts' /\ QueueExact' /\ KnotsUnvisited'
<1> USE DEF WorkflowIInv, WorkflowTypeOK, validateVars, runVars, Return
<1>1. CASE CheckNames
  <2>1. \A s \in Steps : deps[s] \ {} = deps[s]
    OBVIOUS
  <2>2. IndegCounts'
    BY <1>1, <2>1 DEF CheckNames, IndegCounts
  <2>3. QueueExact' /\ KnotsUnvisited'
    BY <1>1 DEF CheckNames, QueueExact, KnotsUnvisited, Known, Knot
  <2> QED
    BY <2>2, <2>3
<1>2. ASSUME NEW n \in Steps, Visit(n) PROVE IndegCounts' /\ QueueExact' /\ KnotsUnvisited'
  <2> USE <1>2 DEF Visit
  <2>1. n \in Steps /\ n \notin visited /\ deps[n] \subseteq visited /\ Known
    BY DEF QueueExact, KnotsUnvisited
  <2>2. ASSUME NEW m \in Steps
        PROVE  /\ indeg'[m] = Cardinality(deps[m] \ visited')
               /\ n \in deps[m] => (indeg[m] = 1 <=> deps[m] \subseteq visited')
               /\ n \in deps[m] => ~ (deps[m] \subseteq visited)
    <3>1. IsFiniteSet(deps[m])
      BY <2>1, StepsAssumption, FS_Subset DEF Known
    <3>2. CASE n \in deps[m]
      <4>1. /\ Cardinality(deps[m] \ (visited \cup {n})) = Cardinality(deps[m] \ visited) - 1
            /\ Cardinality(deps[m] \ visited) = 1 <=> deps[m] \subseteq visited \cup {n}
        BY <2>1, <3>1, <3>2, Discount
      <4>2. indeg[m] = Cardinality(deps[m] \ visited) /\ indeg'[m] = indeg[m] - 1
        BY <3>2 DEF IndegCounts, Dependents
      <4>3. visited' = visited \cup {n} /\ ~ (deps[m] \subseteq visited)
        BY <2>1, <3>2
      <4> QED
        BY <4>1, <4>2, <4>3
    <3>3. CASE n \notin deps[m]
      <4>1. deps[m] \ visited = deps[m] \ (visited \cup {n})
        BY <3>3
      <4> QED
        BY <3>3, <4>1 DEF IndegCounts, Dependents
    <3> QED
      BY <3>2, <3>3
  <2>3. IndegCounts'
    BY <2>2 DEF IndegCounts
  <2>4. QueueExact'
    <3>1. ASSUME NEW s \in Steps
          PROVE  s \in queue' <=> (s \notin visited' /\ deps[s] \subseteq visited')
      <4>1. s \in queue <=> (s \notin visited /\ deps[s] \subseteq visited)
        BY DEF QueueExact
      <4>2. CASE n \in deps[s]
        <5>1. s \notin visited /\ s # n
          <6>1. s # n
            BY <2>1, <4>2
          <6>2. ASSUME s \in visited PROVE FALSE
            BY <2>1, <4>2, <6>2 DEF QueueExact
          <6> QED
            BY <6>1, <6>2
        <5> QED
          BY <2>2, <4>1, <4>2, <5>1 DEF Dependents
      <4>3. CASE n \notin deps[s]
        BY <4>1, <4>3 DEF Dependents
      <4> QED
        BY <4>2, <4>3
    <3>2. queue' \in SUBSET Steps
      BY DEF Dependents
    <3>3. queue' = {s \in Steps \ visited' : deps'[s] \subseteq visited'}
      BY <3>1, <3>2
    <3>4. \A s \in visited' : deps'[s] \subseteq visited'
      BY <2>1 DEF QueueExact
    <3> QED
      BY <3>3, <3>4 DEF QueueExact
  <2>5. KnotsUnvisited'
    <3>1. ASSUME NEW K \in SUBSET Steps, Knot(K) PROVE n \notin K
      <4>1. K \cap visited = {}
        BY <3>1 DEF KnotsUnvisited
      <4>2. n \in K => deps[n] \cap K # {}
        BY <3>1 DEF Knot
      <4> QED
        BY <2>1, <4>1, <4>2
    <3>2. Known'
      BY <2>1 DEF Known
    <3>3. ASSUME NEW K \in SUBSET Steps, Knot(K)' PROVE K \cap visited' = {}
      <4>1. Knot(K)
        BY <3>3 DEF Knot
      <4> QED
        BY <3>1, <4>1 DEF KnotsUnvisited
    <3> QED
      BY <3>2, <3>3 DEF KnotsUnvisited
  <2> QED
    BY <2>3, <2>4, <2>5
<1>3. CASE Validated \/ Collect \/ EndWave
  BY <1>3 DEF Validated, Collect, EndWave, IndegCounts, QueueExact, KnotsUnvisited
<1>4. ASSUME NEW s \in Steps, BeginStep(s) \/ StepSucceeds(s) \/ StepFails(s)
      PROVE  IndegCounts' /\ QueueExact' /\ KnotsUnvisited'
  BY <1>4 DEF BeginStep, StepSucceeds, StepFails, IndegCounts, QueueExact, KnotsUnvisited, Known, Knot
<1>5. CASE CancelRun
  BY <1>5 DEF CancelRun, IndegCounts, QueueExact, KnotsUnvisited, Known, Knot
<1>6. CASE UNCHANGED workflowVars
  BY <1>6 DEF workflowVars, IndegCounts, QueueExact, KnotsUnvisited, Known, Knot
<1> QED
  BY <1>1, <1>2, <1>3, <1>4, <1>5, <1>6 DEF NextWorkflow, RunStep, GoStep, RunReturned

\* What validate accepts and rejects.
LEMMA ValidateStep == ASSUME WorkflowIInv, [NextWorkflow]_workflowVars PROVE ValidateExact'
<1> USE DEF WorkflowIInv, WorkflowTypeOK, validateVars, runVars, Return
<1>1. CASE CheckNames
  BY <1>1 DEF CheckNames, ValidateExact, WaveShape, Known
<1>2. CASE Validated
  <2> USE <1>2 DEF Validated
  <2>1. Known /\ UNCHANGED deps
    BY DEF KnotsUnvisited
  <2>2. CASE visited = Steps
    <3>1. Acyclic
      <4> SUFFICES ASSUME NEW K \in SUBSET Steps, Knot(K) PROVE FALSE
        BY DEF Acyclic
      <4>1. K # {} /\ K \cap visited = {}
        BY DEF Knot, KnotsUnvisited
      <4> QED
        BY <2>2, <4>1
    <3>2. Known' /\ Acyclic'
      BY <2>1, <3>1 DEF Known, Acyclic, Knot
    <3>3. result' = "none"
      BY <2>2 DEF WaveShape
    <3> QED
      BY <2>2, <3>2, <3>3 DEF ValidateExact
  <2>3. CASE visited # Steps
    <3>1. Knot(Steps \ visited)
      BY <2>1, <2>3, LeftoverKnot DEF QueueExact
    <3>4. deps' = deps /\ Steps \ visited \in SUBSET Steps
      BY <2>1
    <3>5. Knot(Steps \ visited)'
      BY <3>1, <3>4 DEF Knot
    <3>2. ~Acyclic'
      BY <3>4, <3>5, Zenon DEF Acyclic
    <3> QED
      BY <2>3, <3>2 DEF ValidateExact
  <2> QED
    BY <2>2, <2>3
<1>3. CASE Collect \/ EndWave
  <2>1. Known /\ Acyclic /\ UNCHANGED deps
    BY <1>3 DEF Collect, EndWave, ValidateExact
  <2>2. Known' /\ Acyclic'
    BY <2>1 DEF Known, Acyclic, Knot
  <2>3. result' \notin {"unknown", "cycle"}
    BY <1>3 DEF Collect, EndWave, WaveShape
  <2> QED
    BY <2>2, <2>3 DEF ValidateExact
<1>4. CASE UNCHANGED <<deps, stage, result>>
  BY <1>4 DEF ValidateExact, Known, Acyclic, Knot
<1>5. ASSUME NEW s \in Steps, GoStep(s) PROVE UNCHANGED <<deps, stage, result>>
  BY <1>5 DEF GoStep, Visit, BeginStep, StepSucceeds, StepFails
<1>6. CASE CancelRun \/ UNCHANGED workflowVars
  BY <1>4, <1>6 DEF CancelRun, workflowVars
<1> QED
  BY <1>1, <1>2, <1>3, <1>4, <1>5, <1>6 DEF NextWorkflow, RunStep, RunReturned

\* Waves, and what they find on the blackboard.
LEMMA WaveStep == ASSUME WorkflowIInv, [NextWorkflow]_workflowVars PROVE NeverStuck' /\ WaveShape' /\ InputsReady'
<1> USE DEF WorkflowIInv, WorkflowTypeOK, validateVars, runVars, Return
<1>1. CASE CheckNames \/ Validated
  BY <1>1 DEF CheckNames, Validated, NeverStuck, WaveShape, InputsReady, Busy
<1>2. CASE Collect
  <2>1. Known /\ Acyclic
    BY <1>2 DEF Collect, ValidateExact
  <2>2. Ready = {} => done = Steps
    BY <2>1, ReadyExists
  <2>3. NeverStuck'
    BY <1>2, <2>2 DEF Collect, NeverStuck
  <2>4. \A s \in Ready : status[s] = "idle"
    BY <1>2 DEF Collect, WaveShape, Ready, Busy
  <2>5. WaveShape'
    BY <1>2, <2>4 DEF Collect, WaveShape, Ready, Busy
  <2>6. InputsReady'
    BY <1>2, <2>4 DEF Collect, InputsReady, Ready
  <2> QED
    BY <2>3, <2>5, <2>6
<1>3. CASE EndWave
  BY <1>3 DEF EndWave, NeverStuck, WaveShape, InputsReady, Busy
<1>4. ASSUME NEW n \in Steps, Visit(n) PROVE NeverStuck' /\ WaveShape' /\ InputsReady'
  BY <1>4 DEF Visit, NeverStuck, WaveShape, InputsReady, Busy
<1>5. ASSUME NEW s \in Steps, BeginStep(s) PROVE NeverStuck' /\ WaveShape' /\ InputsReady'
  BY <1>5 DEF BeginStep, NeverStuck, WaveShape, InputsReady, Busy
<1>6. ASSUME NEW s \in Steps, StepSucceeds(s) PROVE NeverStuck' /\ WaveShape' /\ InputsReady'
  BY <1>6 DEF StepSucceeds, StepMayReturn, NeverStuck, WaveShape, InputsReady, Busy
<1>7. ASSUME NEW s \in Steps, StepFails(s) PROVE NeverStuck' /\ WaveShape' /\ InputsReady'
  BY <1>7, StepsAssumption DEF StepFails, StepMayReturn, NeverStuck, WaveShape, InputsReady, Busy
<1>8. CASE CancelRun \/ UNCHANGED workflowVars
  BY <1>8 DEF CancelRun, workflowVars, NeverStuck, WaveShape, InputsReady, Busy
<1> QED
  BY <1>1, <1>2, <1>3, <1>4, <1>5, <1>6, <1>7, <1>8 DEF NextWorkflow, RunStep, GoStep, RunReturned

\* A step that only a cancel ends fails first only after a cancel of the caller: one by a step
\* comes with an error that is kept.
LEMMA CauseStep ==
    ASSUME WorkflowIInv, [NextWorkflow]_workflowVars
    PROVE  CancelHasCause' /\ FailureIsCause'
<1>4. /\ canceled = "step" => firstErr # NoStep
      /\ firstErr \in HangingSteps => canceled = "caller"
      /\ canceled \in {"no", "caller", "step"}
  BY DEF WorkflowIInv, WorkflowTypeOK, CancelHasCause, FailureIsCause
<1> USE DEF CancelHasCause, FailureIsCause
<1>1. ASSUME NEW s \in Steps, StepFails(s) PROVE CancelHasCause' /\ FailureIsCause'
  <2>1. /\ s # NoStep
        /\ s \in HangingSteps => canceled # "no"
        /\ firstErr' = IF firstErr = NoStep THEN s ELSE firstErr
        /\ canceled' = IF firstErr = NoStep /\ canceled = "no" THEN "step" ELSE canceled
    BY <1>1, StepsAssumption DEF StepFails, StepMayReturn
  <2> QED
    BY <1>4, <2>1
<1>2. CASE CancelRun
  BY <1>2, <1>4 DEF CancelRun, runVars
<1>3. CASE UNCHANGED <<firstErr, canceled>>
  BY <1>3, <1>4
<1> QED
  BY <1>1, <1>2, <1>3 DEF NextWorkflow, RunStep, GoStep, CheckNames, Validated, Collect, EndWave,
     Visit, BeginStep, StepSucceeds, RunReturned, workflowVars, runVars

\* The inductive invariant holds, whatever the graph.
THEOREM WorkflowInvariantHolds == WorkflowSpec => []WorkflowIInv
<1>1. WorkflowIInv /\ [NextWorkflow]_workflowVars => WorkflowIInv'
  BY TypeStep, KahnStep, ValidateStep, WaveStep, CauseStep DEF WorkflowIInv
<1> QED
  BY InitIInv, <1>1, PTL DEF WorkflowSpec

\* validate accepts exactly the graphs without unknown names and cycles.
THEOREM ValidationExact == WorkflowSpec => []ValidateExact
<1>1. WorkflowIInv => ValidateExact
  BY DEF WorkflowIInv
<1> QED
  BY WorkflowInvariantHolds, <1>1, PTL

\* Run never returns "no runnable steps".
THEOREM RunNeverStuck == WorkflowSpec => []NeverStuck
<1>1. WorkflowIInv => NeverStuck
  BY DEF WorkflowIInv
<1> QED
  BY WorkflowInvariantHolds, <1>1, PTL

\* A step that runs finds the outputs of all its dependencies.
THEOREM InputsAreReady == WorkflowSpec => []InputsReady
<1>1. WorkflowIInv => InputsReady
  BY DEF WorkflowIInv
<1> QED
  BY WorkflowInvariantHolds, <1>1, PTL

\* No step is run twice.
THEOREM StepsRunOnce == WorkflowSpec => []RunsOnce
<1>1. WorkflowIInv => RunsOnce
  BY DEF WorkflowIInv, WaveShape, RunsOnce
<1> QED
  BY WorkflowInvariantHolds, <1>1, PTL

\* A step that only a cancel ends is never the error of a run that the caller let go on.
THEOREM ErrorsAreCauses == WorkflowSpec => []FailureIsCause
<1>1. WorkflowIInv => FailureIsCause
  BY DEF WorkflowIInv
<1> QED
  BY WorkflowInvariantHolds, <1>1, PTL
=============================================================================
