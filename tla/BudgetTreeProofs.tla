-------------------------- MODULE BudgetTreeProofs --------------------------
(***************************************************************************)
(* Proofs about BudgetTree, for every tree of runs, every configuration of *)
(* budgets and every number of parallel tools.                             *)
(***************************************************************************)
EXTENDS BudgetTree, InductionTheorems, FiniteSetTheorems, TLAPS

\* A run's parent is a run.
LEMMA ParentIsRun == \A r \in 1 .. N : r \in Runs /\ Parent[r] \in Runs /\ Parent[r] # r
  BY NAssumption, ParentAssumption DEF Runs

-----------------------------------------------------------------------------
(* Type correctness                                                        *)

\* Usages are closed under addition and under the release of a grant.
LEMMA UsageClosed ==
    /\ Zero \in Usage
    /\ \A a, b \in Usage : Plus(a, b) \in Usage
    /\ \A a, b \in Usage : Release(a, b) \in Usage
  BY DEF Zero, Usage, Plus, Release

\* The limits and the grant that childBudget computes are usages.
LEMMA ChildBudgetType ==
    ASSUME TypeOK, NEW p \in Runs, NEW r \in Runs
    PROVE  ChildLimit(p, r) \in Usage /\ ChildGrant(p, r) \in Usage
  <1>1. \A d \in Dims : limit[p][d] \in Nat /\ used[p][d] \in Nat /\ reserved[p][d] \in Nat
    BY DEF TypeOK, Usage
  <1>2. \A d \in Dims : Remaining(p, d) \in Int
    BY <1>1 DEF Remaining
  <1>3. ChildLimit(p, r) \in Usage
    BY <1>1, <1>2, RequestAssumption DEF ChildLimit, Usage
  <1>4. ChildGrant(p, r) \in Usage
    BY <1>3 DEF ChildGrant, Usage
  <1> QED
    BY <1>3, <1>4

\* Every deadline a tracker computes is a moment or the zero time.
LEMMA DeadlineType ==
    ASSUME TypeOK
    PROVE  /\ \A s, t \in Nat : Earlier(s, t) \in Nat
           /\ \A s, t \in Nat : TrackerDeadline(s, t) \in Nat
           /\ \A p, r \in Runs : ChildDeadline(p, r) \in Nat
  <1>1. now \in Nat /\ now >= 2 /\ deadline \in [Runs -> Nat]
    BY DEF TypeOK
  <1>2. \A s, t \in Nat : Earlier(s, t) \in Nat
    BY DEF Earlier
  <1>3. \A s, t \in Nat : TrackerDeadline(s, t) \in Nat
    BY <1>1 DEF TrackerDeadline, Earlier
  <1>4. \A p, r \in Runs : ChildDeadline(p, r) \in Nat
    BY <1>1, <1>2, RequestAssumption DEF ChildDeadline
  <1> QED
    BY <1>2, <1>3, <1>4

\* TypeOK holds in every reachable state, whatever the constants are.
THEOREM TypeCorrect == Spec => []TypeOK
  <1>1. Init => TypeOK
    <2> SUFFICES ASSUME Init PROVE TypeOK
      OBVIOUS
    <2>1. now \in Nat /\ now >= 2
      BY DEF Init
    <2>2. deadline \in [Runs -> Nat]
      BY RequestAssumption DEF Init, TrackerDeadline, Earlier
    <2> QED
      BY <2>1, <2>2, UsageClosed, RequestAssumption DEF Init, TypeOK, Usage
  <1>2. TypeOK /\ [Next]_vars => TypeOK'
    <2> SUFFICES ASSUME TypeOK, [Next]_vars PROVE TypeOK'
      OBVIOUS
    <2> USE DEF TypeOK
    <2>1. ASSUME NEW r \in Runs, CheckStep(r) PROVE TypeOK'
      BY <2>1 DEF CheckStep
    <2>2. ASSUME NEW r \in Runs, NEW u \in [Dims -> 0 .. MaxUse],
                 NEW S \in SUBSET Children(r), NEW n \in 0 .. MaxPlain, Generate(r, u, S, n)
          PROVE  TypeOK'
      <3>1. u \in Usage
        BY UseAssumption DEF Usage
      <3>2. S \in SUBSET (1 .. N)
        BY DEF Children
      <3>3. total' \in [Runs -> Usage]
        BY <2>2, <3>1, UsageClosed DEF Generate
      <3>4. used' \in [Runs -> Usage] /\ spent' \in [Runs -> Usage]
        BY <2>2, <3>1, UsageClosed DEF Generate
      <3>5. step' \in [Runs -> Nat] /\ subs' \in [Runs -> SUBSET (1 .. N)]
        BY <2>2, <3>2 DEF Generate
      <3>6. plain' \in [Runs -> Nat]
        BY <2>2, BoundAssumption DEF Generate
      <3>7. pc' \in [Runs -> {"idle", "check", "model", "tools", "done"}]
        BY <2>2 DEF Generate
      <3> QED
        BY <2>2, <3>3, <3>4, <3>5, <3>6, <3>7 DEF Generate
    <2>3. ASSUME NEW r \in Runs, GenerateFails(r) PROVE TypeOK'
      BY <2>3 DEF GenerateFails
    <2>4. ASSUME NEW r \in Runs, NEW f \in BOOLEAN, PlainTool(r, f) PROVE TypeOK'
      <3>1. plain' \in [Runs -> Nat] /\ toolCalls' \in [Runs -> Nat]
        BY <2>4 DEF PlainTool
      <3>2. fatal' \in [Runs -> BOOLEAN]
        BY <2>4, Zenon DEF PlainTool
      <3> QED
        BY <2>4, <3>1, <3>2 DEF PlainTool
    <2>5. ASSUME NEW r \in Runs, ToolsReturn(r) PROVE TypeOK'
      BY <2>5 DEF ToolsReturn
    <2>6. ASSUME NEW r \in 1 .. N, InvokeSub(r) PROVE TypeOK'
      <3>1. r \in Runs /\ Parent[r] \in Runs
        BY ParentIsRun
      <3>2. ChildLimit(Parent[r], r) \in Usage /\ ChildGrant(Parent[r], r) \in Usage
        BY <3>1, ChildBudgetType
      <3>3. TrackerDeadline(ChildDeadline(Parent[r], r), ReqTimeout[r]) \in Nat
        BY <3>1, DeadlineType, RequestAssumption
      <3>4. reserved' \in [Runs -> Usage]
        BY <2>6, <3>1, <3>2, UsageClosed DEF InvokeSub
      <3>5. /\ limit' \in [Runs -> Usage] /\ grant' \in [Runs -> Usage]
            /\ used' \in [Runs -> Usage] /\ spent' \in [Runs -> Usage]
            /\ total' \in [Runs -> Usage]
        BY <2>6, <3>1, <3>2, UsageClosed DEF InvokeSub
      <3>6. deadline' \in [Runs -> Nat]
        BY <2>6, <3>1, <3>3 DEF InvokeSub
      <3>8. toolCalls' \in [Runs -> Nat]
        <4>1. \A p \in Runs : [toolCalls EXCEPT ![p] = @ + 1] \in [Runs -> Nat]
          OBVIOUS
        <4>2. toolCalls' = [[toolCalls EXCEPT ![Parent[r]] = @ + 1] EXCEPT ![r] = 0]
          BY <2>6 DEF InvokeSub
        <4> QED
          BY <3>1, <4>1, <4>2
      <3>9. step' \in [Runs -> Nat] /\ plain' \in [Runs -> Nat]
        BY <2>6, <3>1 DEF InvokeSub
      <3>7. /\ subs' \in [Runs -> SUBSET (1 .. N)] /\ fatal' \in [Runs -> BOOLEAN]
            /\ pc' \in [Runs -> {"idle", "check", "model", "tools", "done"}]
        BY <2>6, <3>1 DEF InvokeSub
      <3> QED
        BY <2>6, <3>4, <3>5, <3>6, <3>7, <3>8, <3>9 DEF InvokeSub
    <2>7. ASSUME NEW r \in 1 .. N, SettleSub(r) PROVE TypeOK'
      <3>1. r \in Runs /\ Parent[r] \in Runs
        BY ParentIsRun
      <3> QED
        BY <2>7, <3>1, UsageClosed DEF SettleSub
    <2>8. CASE Cancel
      BY <2>8 DEF Cancel
    <2>9. CASE Tick
      BY <2>9 DEF Tick
    <2>10. CASE UNCHANGED vars
      BY <2>10 DEF vars
    <2> QED
      BY <2>1, <2>2, <2>3, <2>4, <2>5, <2>6, <2>7, <2>8, <2>9, <2>10
      DEF Next, RunStep, SubStep, Returned
  <1> QED
    BY <1>1, <1>2, PTL DEF Spec

-----------------------------------------------------------------------------
(* Sums over the run slots                                                 *)

\* Nothing outstanding sums to nothing, and only to that.
LEMMA SumOfNothing ==
    ASSUME NEW w \in [1 .. N -> Nat], \A k \in 1 .. N : w[k] = 0
    PROVE  IsSum(w, 0) /\ \A t \in Nat : IsSum(w, t) => t = 0
  <1> USE NAssumption DEF Runs
  <1>1. IsSum(w, 0)
    <2> DEFINE s == [i \in Runs |-> 0]
    <2>1. s \in [Runs -> 0 .. 0] /\ s[0] = 0 /\ s[N] = 0
      OBVIOUS
    <2>2. \A i \in 1 .. N : s[i] = s[i - 1] + w[i]
      OBVIOUS
    <2>3. \A i, j \in Runs : s[i] <= s[j] /\ s[i] = s[j]
      OBVIOUS
    <2>4. PartialSums(s, w)
      BY <2>1, <2>2, <2>3 DEF PartialSums
    <2> QED
      BY <2>1, <2>4 DEF IsSum
  <1>2. ASSUME NEW t \in Nat, IsSum(w, t) PROVE t = 0
    <2>1. PICK s \in [Runs -> 0 .. t] :
            /\ s[0] = 0
            /\ s[N] = t
            /\ \A i, j \in Runs : (i <= j /\ \A k \in i + 1 .. j : w[k] = 0) => s[i] = s[j]
      BY <1>2 DEF IsSum, PartialSums
    <2> QED
      BY <2>1
  <1> QED
    BY <1>1, <1>2

\* A summand is at most the sum, and taking it out lowers the sum by it.
LEMMA SumRemove ==
    ASSUME NEW w \in [1 .. N -> Nat], NEW t \in Nat, IsSum(w, t), NEW n \in 1 .. N
    PROVE  w[n] <= t /\ IsSum([w EXCEPT ![n] = 0], t - w[n])
  <1> USE NAssumption DEF Runs
  <1>1. PICK s \in [Runs -> 0 .. t] :
            /\ s[0] = 0
            /\ s[N] = t
            /\ \A i \in 1 .. N : s[i] = s[i - 1] + w[i]
            /\ \A i, j \in Runs : i <= j => s[i] <= s[j]
            /\ \A i, j \in Runs : (i <= j /\ \A k \in i + 1 .. j : w[k] = 0) => s[i] = s[j]
    BY DEF IsSum, PartialSums
  <1>2. \A i \in Runs : s[i] \in Nat
    OBVIOUS
  <1>3. n - 1 \in Runs /\ n \in Runs /\ N \in Runs /\ s[n] = s[n - 1] + w[n]
    BY <1>1
  <1>4. w[n] <= t
    BY <1>1, <1>2, <1>3
  <1> DEFINE v == [w EXCEPT ![n] = 0]
             z == [i \in Runs |-> IF i >= n THEN s[i] - w[n] ELSE s[i]]
  <1>5. \A i \in Runs : i >= n => s[i] - w[n] >= s[n - 1]
    BY <1>1, <1>2, <1>3
  <1>6. \A i \in Runs : i < n => s[i] <= s[n - 1]
    BY <1>1, <1>2, <1>3
  <1>7. z \in [Runs -> 0 .. t - w[n]]
    <2> SUFFICES ASSUME NEW i \in Runs PROVE z[i] \in 0 .. t - w[n]
      OBVIOUS
    <2>1. s[i] <= t
      OBVIOUS
    <2>2. s[n - 1] <= t - w[n]
      BY <1>1, <1>2, <1>3
    <2>3. CASE i >= n
      BY <1>2, <1>3, <1>5, <2>1, <2>3
    <2>4. CASE i < n
      BY <1>2, <1>3, <1>6, <2>2, <2>4
    <2> QED
      BY <2>3, <2>4
  <1>8. z[0] = 0 /\ z[N] = t - w[n]
    BY <1>1
  <1>9. \A i \in 1 .. N : z[i] = z[i - 1] + v[i]
    <2> SUFFICES ASSUME NEW i \in 1 .. N PROVE z[i] = z[i - 1] + v[i]
      OBVIOUS
    <2>1. i \in Runs /\ i - 1 \in Runs /\ s[i] = s[i - 1] + w[i]
      BY <1>1
    <2> QED
      BY <2>1, <1>2, <1>3
  <1>10. ASSUME NEW i \in Runs, NEW j \in Runs, i <= j PROVE z[i] <= z[j]
    <2>1. s[i] <= s[j] /\ s[i] \in Nat /\ s[j] \in Nat /\ w[n] \in Nat
      BY <1>1, <1>2, <1>10
    <2>2. CASE i < n /\ j >= n
      BY <1>2, <1>3, <1>5, <1>6, <2>1, <2>2
    <2>3. CASE ~(i < n /\ j >= n)
      BY <1>10, <2>1, <2>3
    <2> QED
      BY <2>2, <2>3
  <1>11. ASSUME NEW i \in Runs, NEW j \in Runs, i <= j, \A k \in i + 1 .. j : v[k] = 0
         PROVE  z[i] = z[j]
    <2>1. CASE j < n \/ i >= n
      <3>1. \A k \in i + 1 .. j : w[k] = 0
        BY <1>11, <2>1
      <3>2. s[i] = s[j]
        BY <1>1, <1>11, <3>1
      <3> QED
        BY <1>11, <2>1, <3>2
    <2>2. CASE i < n /\ n <= j
      <3>1. s[i] = s[n - 1]
        BY <1>1, <1>3, <1>11, <2>2
      <3>2. s[n] = s[j]
        BY <1>1, <1>3, <1>11, <2>2
      <3> QED
        BY <1>2, <1>3, <2>2, <3>1, <3>2
    <2> QED
      BY <2>1, <2>2
  <1>12. IsSum(v, t - w[n])
    <2> HIDE DEF z, v, Runs
    <2>1. PartialSums(z, v)
      BY <1>8, <1>9, <1>10, <1>11 DEF PartialSums
    <2> QED
      BY <1>7, <1>8, <2>1 DEF IsSum
  <1> QED
    BY <1>4, <1>12

\* Adding a summand raises the sum by it.
LEMMA SumAdd ==
    ASSUME NEW w \in [1 .. N -> Nat], NEW t \in Nat, IsSum(w, t),
           NEW n \in 1 .. N, w[n] = 0, NEW g \in Nat
    PROVE  IsSum([w EXCEPT ![n] = g], t + g)
  <1> USE NAssumption DEF Runs
  <1>1. PICK s \in [Runs -> 0 .. t] :
            /\ s[0] = 0
            /\ s[N] = t
            /\ \A i \in 1 .. N : s[i] = s[i - 1] + w[i]
            /\ \A i, j \in Runs : i <= j => s[i] <= s[j]
            /\ \A i, j \in Runs : (i <= j /\ \A k \in i + 1 .. j : w[k] = 0) => s[i] = s[j]
    BY DEF IsSum, PartialSums
  <1>2. \A i \in Runs : s[i] \in Nat /\ s[i] <= t
    OBVIOUS
  <1> DEFINE v == [w EXCEPT ![n] = g]
             z == [i \in Runs |-> IF i >= n THEN s[i] + g ELSE s[i]]
  <1>3. z \in [Runs -> 0 .. t + g]
    BY <1>2
  <1>4. z[0] = 0 /\ z[N] = t + g
    BY <1>1
  <1>5. \A i \in 1 .. N : z[i] = z[i - 1] + v[i]
    <2> SUFFICES ASSUME NEW i \in 1 .. N PROVE z[i] = z[i - 1] + v[i]
      OBVIOUS
    <2>1. i \in Runs /\ i - 1 \in Runs /\ s[i] = s[i - 1] + w[i]
      BY <1>1
    <2> QED
      BY <2>1, <1>2
  <1>6. \A i, j \in Runs : i <= j => z[i] <= z[j]
    BY <1>1, <1>2
  <1>7. ASSUME NEW i \in Runs, NEW j \in Runs, i <= j, \A k \in i + 1 .. j : v[k] = 0
        PROVE  z[i] = z[j]
    <2>1. CASE j < n \/ i >= n
      <3>1. \A k \in i + 1 .. j : w[k] = 0
        BY <1>7, <2>1
      <3>2. s[i] = s[j]
        BY <1>1, <1>7, <3>1
      <3> QED
        BY <1>7, <2>1, <3>2
    <2>2. CASE i < n /\ n <= j
      <3>1. g = 0
        BY <1>7, <2>2
      <3>2. \A k \in i + 1 .. j : w[k] = 0
        BY <1>7, <2>2
      <3>3. s[i] = s[j]
        BY <1>1, <1>7, <3>2
      <3> QED
        BY <1>2, <2>2, <3>1, <3>3
    <2> QED
      BY <2>1, <2>2
  <1> HIDE DEF z, v, Runs
  <1>8. IsSum(v, t + g)
    <2>1. PartialSums(z, v)
      BY <1>4, <1>5, <1>6, <1>7 DEF PartialSums
    <2> QED
      BY <1>3, <1>4, <2>1 DEF IsSum
  <1> QED
    BY <1>8 DEF v

-----------------------------------------------------------------------------
(* The reservation ledger and the spending bound                           *)

\* Width is a positive number of slots.
LEMMA WidthType == Width \in Nat /\ Width >= 1
  BY ParallelAssumption DEF Width

\* InFlight and Funded are finite, so that their cardinalities are numbers.
LEMMA InFlightFinite ==
    \A p \in Runs :
        /\ IsFiniteSet(InFlight(p))
        /\ Cardinality(InFlight(p)) \in Nat
        /\ \A d \in Dims : /\ IsFiniteSet(Funded(p, d))
                           /\ Cardinality(Funded(p, d)) \in Nat
                           /\ Cardinality(Funded(p, d)) <= Cardinality(InFlight(p))
  <1> SUFFICES ASSUME NEW p \in Runs
               PROVE  /\ IsFiniteSet(InFlight(p))
                      /\ Cardinality(InFlight(p)) \in Nat
                      /\ \A d \in Dims : /\ IsFiniteSet(Funded(p, d))
                                         /\ Cardinality(Funded(p, d)) \in Nat
                                         /\ Cardinality(Funded(p, d)) <= Cardinality(InFlight(p))
    OBVIOUS
  <1>1. IsFiniteSet(1 .. N)
    BY FS_Interval, NAssumption
  <1>2. InFlight(p) \in SUBSET (1 .. N)
    BY DEF InFlight, Children
  <1>3. IsFiniteSet(InFlight(p)) /\ Cardinality(InFlight(p)) \in Nat
    BY <1>1, <1>2, FS_Subset, FS_CardinalityType
  <1>4. \A d \in Dims : Funded(p, d) \in SUBSET InFlight(p)
    BY DEF Funded
  <1> QED
    BY <1>3, <1>4, FS_Subset, FS_CardinalityType

\* What is outstanding of a run is a function to numbers, so sums apply to it.
LEMMA OutstandingType ==
    ASSUME TypeOK
    PROVE  \A p \in Runs, d \in Dims : Outstanding(p, d) \in [1 .. N -> Nat]
  <1>1. \A r \in 1 .. N, d \in Dims : grant[r][d] \in Nat
    BY ParentIsRun DEF TypeOK, Usage
  <1> QED
    BY <1>1 DEF Outstanding

\* A step that leaves the trackers alone and starts or ends no run leaves the
\* ledger and the potential alone.
LEMMA TrackersUntouched ==
    ASSUME IInv, UNCHANGED <<limit, used, reserved, spent, grant>>,
           \A r \in Runs : pc'[r] = "idle" <=> pc[r] = "idle"
    PROVE  SemaphoreBound' /\ Ledger' /\ Potential' /\ SpentIsUsed'
  <1>1. \A p \in Runs : InFlight(p)' = InFlight(p)
    BY ParentIsRun DEF InFlight, Children
  <1>2. \A p \in Runs, d \in Dims : Outstanding(p, d)' = Outstanding(p, d)
    BY <1>1 DEF Outstanding
  <1>3. \A p \in Runs, d \in Dims : Funded(p, d)' = Funded(p, d)
    BY <1>1 DEF Funded
  <1>4. SemaphoreBound'
    BY <1>1 DEF IInv, SemaphoreBound
  <1>5. Ledger'
    BY <1>2 DEF IInv, Ledger
  <1>6. Potential'
    BY <1>3 DEF IInv, Potential, Limited
  <1>7. SpentIsUsed'
    BY DEF IInv, SpentIsUsed
  <1> QED
    BY <1>4, <1>5, <1>6, <1>7

\* Passing the checks at the top of the loop: a run enters its model call below
\* its limits, and one whose deadline has passed does not enter it.
LEMMA CheckStepInv ==
    ASSUME IInv, NEW q \in Runs, CheckStep(q)
    PROVE  /\ TreeShape' /\ SemaphoreBound' /\ Ledger' /\ Potential'
           /\ ModelBelowLimit' /\ SpentIsUsed' /\ ChildBound'
  <1> USE DEF IInv
  <1>1. pc \in [Runs -> {"idle", "check", "model", "tools", "done"}]
    BY DEF TypeOK
  <1>2. pc[q] = "check" /\ pc'[q] \in {"model", "done"}
    BY <1>1 DEF CheckStep
  <1>3. \A r \in Runs : r # q => pc'[r] = pc[r]
    BY <1>1 DEF CheckStep
  <1>4. SemaphoreBound' /\ Ledger' /\ Potential' /\ SpentIsUsed'
    BY <1>2, <1>3, TrackersUntouched DEF CheckStep
  <1>5. TreeShape'
    BY <1>2, <1>3, ParentIsRun DEF TreeShape, CheckStep
  <1>6. ModelBelowLimit'
    <2> SUFFICES ASSUME NEW p \in Runs, NEW d \in Dims, pc'[p] = "model", Limited(p, d)'
                 PROVE  used'[p][d] < limit'[p][d]
      BY DEF ModelBelowLimit
    <2>1. used[p][d] \in Nat /\ limit[p][d] \in Nat
      BY DEF TypeOK, Usage
    <2>2. CASE p # q
      BY <1>3, <2>2 DEF ModelBelowLimit, Limited, CheckStep
    <2>3. CASE p = q
      <3>1. ~CheckFails(q)
        BY <1>1, <2>3 DEF CheckStep
      <3> QED
        BY <2>1, <2>3, <3>1 DEF CheckFails, CheckStep, Limited
    <2> QED
      BY <2>2, <2>3
  <1>7. ChildBound'
    <2>1. Passed(deadline[q]) => pc'[q] = "done"
      BY <1>1 DEF CheckStep, CtxErr
    <2> QED
      BY <1>2, <1>3, <2>1, ParentIsRun DEF ChildBound, CheckStep, Limited, Passed
  <1> QED
    BY <1>4, <1>5, <1>6, <1>7

\* Steps that change neither trackers nor model calls: a failed call, an
\* ordinary tool, the end of a fan-out, a cancel and the clock.
LEMMA QuietStepInv ==
    ASSUME IInv,
           \/ \E q \in Runs : \/ GenerateFails(q)
                              \/ \E f \in BOOLEAN : PlainTool(q, f)
                              \/ ToolsReturn(q)
           \/ Cancel \/ Tick \/ UNCHANGED vars
    PROVE  /\ TreeShape' /\ SemaphoreBound' /\ Ledger' /\ Potential'
           /\ ModelBelowLimit' /\ SpentIsUsed' /\ ChildBound'
  <1> USE DEF IInv
  <1>1. pc \in [Runs -> {"idle", "check", "model", "tools", "done"}] /\ now \in Nat
        /\ deadline \in [Runs -> Nat] /\ subs \in [Runs -> SUBSET (1 .. N)]
    BY DEF TypeOK
  <1>2. UNCHANGED <<limit, used, reserved, spent, grant, deadline>>
    BY DEF GenerateFails, PlainTool, ToolsReturn, Cancel, Tick, vars
  <1>3. \A r \in Runs : pc'[r] = pc[r] \/ (pc[r] = "model" /\ pc'[r] = "done")
                        \/ (pc[r] = "tools" /\ pc'[r] \in {"check", "done"} /\ InFlight(r) = {} /\ subs'[r] = {})
    <2>1. ASSUME NEW q \in Runs, GenerateFails(q)
          PROVE  \A r \in Runs : pc'[r] = pc[r] \/ (pc[r] = "model" /\ pc'[r] = "done")
      BY <1>1, <2>1 DEF GenerateFails
    <2>2. ASSUME NEW q \in Runs, ToolsReturn(q)
          PROVE  \A r \in Runs : pc'[r] = pc[r] \/ (pc[r] = "tools" /\ pc'[r] \in {"check", "done"}
                                                    /\ InFlight(r) = {} /\ subs'[r] = {})
      BY <1>1, <2>2 DEF ToolsReturn
    <2>3. (Cancel \/ Tick \/ UNCHANGED vars \/ \E q \in Runs, f \in BOOLEAN : PlainTool(q, f)) => pc' = pc
      BY DEF Cancel, Tick, vars, PlainTool
    <2> QED
      BY <2>1, <2>2, <2>3
  <1>4. \A r \in Runs : subs'[r] = subs[r] \/ subs'[r] = {}
    BY <1>1 DEF GenerateFails, PlainTool, ToolsReturn, Cancel, Tick, vars
  <1>5. now' \in Nat /\ now' >= now
    BY <1>1 DEF GenerateFails, PlainTool, ToolsReturn, Cancel, Tick, vars
  <1>6. SemaphoreBound' /\ Ledger' /\ Potential' /\ SpentIsUsed'
    <2>1. \A r \in Runs : pc'[r] = "idle" <=> pc[r] = "idle"
      BY <1>3
    <2> QED
      BY <1>2, <2>1, TrackersUntouched
  <1>7. TreeShape'
    <2>1. \A r \in 1 .. N : pc'[r] # "idle" => pc'[Parent[r]] = "tools"
      <3> SUFFICES ASSUME NEW r \in 1 .. N, pc'[r] # "idle" PROVE pc'[Parent[r]] = "tools"
        OBVIOUS
      <3>1. r \in InFlight(Parent[r]) /\ pc[Parent[r]] = "tools"
        BY <1>3, ParentIsRun DEF TreeShape, InFlight, Children
      <3> QED
        BY <1>3, <3>1, ParentIsRun
    <2>2. \A p \in Runs : \A r \in subs'[p] : Parent[r] = p /\ pc'[r] = "idle"
      <3> SUFFICES ASSUME NEW p \in Runs, NEW r \in subs'[p] PROVE Parent[r] = p /\ pc'[r] = "idle"
        OBVIOUS
      <3>1. r \in subs[p] /\ r \in 1 .. N
        BY <1>1, <1>4
      <3>2. Parent[r] = p /\ pc[r] = "idle" /\ r \in Runs
        BY <3>1, ParentIsRun DEF TreeShape
      <3> QED
        BY <1>3, <3>2
    <2>3. \A p \in Runs : subs'[p] # {} => pc'[p] = "tools"
      <3> SUFFICES ASSUME NEW p \in Runs, subs'[p] # {} PROVE pc'[p] = "tools"
        OBVIOUS
      <3>1. pc[p] = "tools"
        BY <1>4 DEF TreeShape
      <3> QED
        BY <1>3, <3>1
    <2> QED
      BY <2>1, <2>2, <2>3 DEF TreeShape
  <1>8. ModelBelowLimit'
    BY <1>2, <1>3 DEF ModelBelowLimit, Limited
  <1>9. ChildBound'
    <2> SUFFICES ASSUME NEW r \in 1 .. N, NEW d \in Dims, pc'[r] # "idle", Limited(Parent[r], d)'
                 PROVE  \/ /\ grant'[r][d] > 0
                           /\ limit'[r][d] = grant'[r][d]
                           /\ spent'[r][d] <= grant'[r][d] + MaxUse - 1
                        \/ /\ grant'[r][d] = 0
                           /\ spent'[r][d] = 0
                           /\ Passed(deadline[r])'
                           /\ pc'[r] \in {"check", "done"}
      BY DEF ChildBound
    <2>1. r \in Runs /\ pc[r] # "idle" /\ Limited(Parent[r], d)
      BY <1>2, <1>3, ParentIsRun DEF Limited
    <2>2. Passed(deadline[r]) => Passed(deadline[r])'
      BY <1>1, <1>2, <1>5, <2>1 DEF Passed
    <2> QED
      BY <1>2, <1>3, <2>1, <2>2 DEF ChildBound
  <1> QED
    BY <1>6, <1>7, <1>8, <1>9

\* A run that is not in its fan-out has no subagent and nothing reserved.
LEMMA NothingInFlight ==
    ASSUME IInv, NEW p \in Runs, pc[p] # "tools"
    PROVE  /\ InFlight(p) = {}
           /\ \A d \in Dims : /\ Funded(p, d) = {}
                              /\ Outstanding(p, d) = [r \in 1 .. N |-> 0]
                              /\ reserved[p][d] = 0
  <1>1. InFlight(p) = {}
    BY DEF IInv, TreeShape, InFlight, Children
  <1>2. \A d \in Dims : Funded(p, d) = {} /\ Outstanding(p, d) = [r \in 1 .. N |-> 0]
    BY <1>1 DEF Funded, Outstanding
  <1>3. ASSUME NEW d \in Dims PROVE reserved[p][d] = 0
    <2>1. reserved[p][d] \in Nat
      BY DEF IInv, TypeOK, Usage
    <2>2. IsSum([r \in 1 .. N |-> 0], reserved[p][d])
      BY <1>2 DEF IInv, Ledger
    <2> DEFINE w == [r \in 1 .. N |-> 0]
    <2>3. w \in [1 .. N -> Nat] /\ \A k \in 1 .. N : w[k] = 0
      OBVIOUS
    <2> HIDE DEF w
    <2>4. \A t \in Nat : IsSum(w, t) => t = 0
      BY <2>3, SumOfNothing
    <2> QED
      BY <2>1, <2>2, <2>4 DEF w
  <1> QED
    BY <1>1, <1>2, <1>3

\* Multiplying by a number keeps an order.
LEMMA TimesMonotone ==
    ASSUME NEW a \in Nat, NEW b \in Nat, NEW m \in Nat, a <= b
    PROVE  a * m <= b * m /\ a * m \in Nat /\ b * m \in Nat
  OBVIOUS

\* A model call is made below the limit and reports at most MaxUse.
LEMMA GenerateInv ==
    ASSUME IInv, TypeOK', NEW q \in Runs, NEW u \in [Dims -> 0 .. MaxUse],
           NEW S \in SUBSET Children(q), NEW n \in 0 .. MaxPlain, Generate(q, u, S, n)
    PROVE  /\ TreeShape' /\ SemaphoreBound' /\ Ledger' /\ Potential'
           /\ ModelBelowLimit' /\ SpentIsUsed' /\ ChildBound'
  <1> USE DEF IInv
  <1>1. pc \in [Runs -> {"idle", "check", "model", "tools", "done"}]
        /\ used \in [Runs -> Usage] /\ spent \in [Runs -> Usage]
        /\ subs \in [Runs -> SUBSET (1 .. N)]
    BY DEF TypeOK
  <1>2. pc[q] = "model" /\ pc'[q] \in {"tools", "done", "check"} /\ (S # {} => pc'[q] = "tools")
    BY <1>1 DEF Generate
  <1>3. \A r \in Runs : r # q => pc'[r] = pc[r] /\ used'[r] = used[r] /\ spent'[r] = spent[r]
                                 /\ subs'[r] = subs[r]
    BY <1>1 DEF Generate
  <1>4. UNCHANGED <<limit, reserved, grant, deadline, now>>
    BY DEF Generate
  <1>5. \A d \in Dims : /\ used'[q][d] = used[q][d] + u[d] /\ spent'[q][d] = spent[q][d] + u[d]
                        /\ used[q][d] \in Nat /\ spent[q][d] \in Nat /\ u[d] \in 0 .. MaxUse
    BY <1>1 DEF Generate, Plus, Usage
  <1>6. \A r \in Runs : pc'[r] = "idle" <=> pc[r] = "idle"
    BY <1>2, <1>3
  <1>7. \A p \in Runs : InFlight(p)' = InFlight(p)
    BY <1>6, ParentIsRun DEF InFlight, Children
  <1>8. \A p \in Runs, d \in Dims : Outstanding(p, d)' = Outstanding(p, d) /\ Funded(p, d)' = Funded(p, d)
    BY <1>4, <1>7 DEF Outstanding, Funded
  <1>9. SemaphoreBound'
    BY <1>7 DEF SemaphoreBound
  <1>10. Ledger'
    BY <1>4, <1>8 DEF Ledger
  <1>11. Potential'
    <2> SUFFICES ASSUME NEW p \in Runs, NEW d \in Dims, pc'[p] # "idle", Limited(p, d)'
                 PROVE  used'[p][d] + reserved'[p][d] + Cardinality(Funded(p, d)') * (MaxUse - 1)
                            <= limit'[p][d] + Width * (MaxUse - 1)
      BY DEF Potential
    <2>1. CASE p # q
      BY <1>3, <1>4, <1>8, <2>1 DEF Potential, Limited
    <2>2. CASE p = q
      <3>1. Funded(q, d)' = {} /\ reserved'[q][d] = 0
        BY <1>2, <1>4, <1>8, NothingInFlight
      <3>2. Cardinality(Funded(q, d)') = 0
        BY <3>1, FS_EmptySet
      <3>3. used[q][d] < limit[q][d] /\ limit[q][d] \in Nat
        BY <1>2, <1>4, <2>2 DEF ModelBelowLimit, Limited, TypeOK, Usage
      <3>4. MaxUse - 1 \in Nat
        BY UseAssumption
      <3>5. 1 * (MaxUse - 1) <= Width * (MaxUse - 1) /\ Width * (MaxUse - 1) \in Nat
        BY <3>4, WidthType, TimesMonotone
      <3>6. used[q][d] + u[d] <= limit[q][d] + (MaxUse - 1)
        BY <1>5, <3>3, UseAssumption
      <3>7. 0 * (MaxUse - 1) = 0 /\ 1 * (MaxUse - 1) = MaxUse - 1
        BY <3>4
      <3> DEFINE slack == Width * (MaxUse - 1)
      <3>8. slack \in Nat /\ MaxUse - 1 <= slack
        BY <3>5, <3>7
      <3> HIDE DEF slack
      <3>9. used[q][d] + u[d] + 0 + 0 <= limit[q][d] + slack
        BY <1>5, <3>3, <3>4, <3>6, <3>8
      <3> QED
        BY <1>4, <1>5, <2>2, <3>1, <3>2, <3>7, <3>9 DEF slack
    <2> QED
      BY <2>1, <2>2
  <1>12. ModelBelowLimit'
    BY <1>2, <1>3, <1>4 DEF ModelBelowLimit, Limited
  <1>13. SpentIsUsed'
    BY <1>3, <1>5 DEF SpentIsUsed
  <1>14. ChildBound'
    <2> SUFFICES ASSUME NEW r \in 1 .. N, NEW d \in Dims, pc'[r] # "idle", Limited(Parent[r], d)'
                 PROVE  \/ /\ grant'[r][d] > 0
                           /\ limit'[r][d] = grant'[r][d]
                           /\ spent'[r][d] <= grant'[r][d] + MaxUse - 1
                        \/ /\ grant'[r][d] = 0
                           /\ spent'[r][d] = 0
                           /\ Passed(deadline[r])'
                           /\ pc'[r] \in {"check", "done"}
      BY DEF ChildBound
    <2>1. r \in Runs /\ pc[r] # "idle" /\ Limited(Parent[r], d)
      BY <1>4, <1>6, ParentIsRun DEF Limited
    <2>2. CASE r # q
      BY <1>3, <1>4, <2>1, <2>2 DEF ChildBound, Passed
    <2>3. CASE r = q
      <3>1. grant[q][d] > 0 /\ limit[q][d] = grant[q][d]
        BY <1>2, <2>1, <2>3 DEF ChildBound
      <3>2. used[q][d] < limit[q][d] /\ spent[q][d] <= used[q][d] /\ limit[q][d] \in Nat
        BY <1>2, <3>1 DEF ModelBelowLimit, Limited, SpentIsUsed, TypeOK, Usage
      <3>3. spent[q][d] + u[d] <= limit[q][d] + MaxUse - 1
        BY <1>5, <3>2, UseAssumption
      <3> QED
        BY <1>4, <1>5, <2>3, <3>1, <3>3
    <2> QED
      BY <2>2, <2>3
  <1>15. TreeShape'
    <2>1. \A r \in 1 .. N : pc'[r] # "idle" => pc'[Parent[r]] = "tools"
      BY <1>2, <1>3, <1>6, ParentIsRun DEF TreeShape
    <2>2. subs'[q] = S
      BY <1>1 DEF Generate
    <2>3. \A p \in Runs : \A r \in subs'[p] : Parent[r] = p /\ pc'[r] = "idle"
      <3> SUFFICES ASSUME NEW p \in Runs, NEW r \in subs'[p] PROVE Parent[r] = p /\ pc'[r] = "idle"
        OBVIOUS
      <3>1. CASE p = q
        <4>1. r \in Children(q) /\ r \notin InFlight(q)
          BY <1>2, <2>2, <3>1, NothingInFlight
        <4> QED
          BY <1>6, <3>1, <4>1, ParentIsRun DEF Children, InFlight
      <3>2. CASE p # q
        <4>1. r \in subs[p] /\ r \in 1 .. N
          BY <1>1, <1>3, <3>2
        <4> QED
          BY <1>6, <4>1, ParentIsRun DEF TreeShape
      <3> QED
        BY <3>1, <3>2
    <2>4. \A p \in Runs : subs'[p] # {} => pc'[p] = "tools"
      BY <1>2, <1>3, <2>2 DEF TreeShape
    <2> QED
      BY <2>1, <2>3, <2>4 DEF TreeShape
  <1> QED
    BY <1>9, <1>10, <1>11, <1>12, <1>13, <1>14, <1>15

\* What childBudget grants fits into what remains; when nothing remains it
\* grants nothing and the child's deadline has passed.
LEMMA GrantFits ==
    ASSUME TypeOK, NEW p \in Runs, NEW r \in Runs, NEW d \in Dims
    PROVE  /\ ChildGrant(p, r)[d] \in Nat
           /\ ~Limited(p, d) => ChildGrant(p, r)[d] = 0
           /\ (Limited(p, d) /\ Remaining(p, d) > 0) =>
                 /\ ChildGrant(p, r)[d] > 0
                 /\ ChildGrant(p, r)[d] <= Remaining(p, d)
                 /\ ChildLimit(p, r)[d] = ChildGrant(p, r)[d]
           /\ (Limited(p, d) /\ Remaining(p, d) <= 0) =>
                 /\ ChildGrant(p, r)[d] = 0
                 /\ Passed(TrackerDeadline(ChildDeadline(p, r), ReqTimeout[r]))
  <1>1. Remaining(p, d) \in Int /\ ReqLimit[r][d] \in Nat
    BY RequestAssumption DEF TypeOK, Usage, Remaining
  <1>2. ChildGrant(p, r)[d] \in Nat
    BY ChildBudgetType DEF Usage
  <1>3. ~Limited(p, d) => ChildGrant(p, r)[d] = 0
    BY DEF ChildGrant
  <1>4. ASSUME Limited(p, d), Remaining(p, d) > 0
        PROVE  /\ ChildGrant(p, r)[d] > 0
               /\ ChildGrant(p, r)[d] <= Remaining(p, d)
               /\ ChildLimit(p, r)[d] = ChildGrant(p, r)[d]
    BY <1>1, <1>4 DEF ChildGrant, ChildLimit
  <1>5. ASSUME Limited(p, d), Remaining(p, d) <= 0
        PROVE  /\ ChildGrant(p, r)[d] = 0
               /\ Passed(TrackerDeadline(ChildDeadline(p, r), ReqTimeout[r]))
    <2>1. ChildGrant(p, r)[d] = 0
      BY <1>1, <1>5 DEF ChildGrant
    <2>2. ChildDeadline(p, r) = now - 1
      BY <1>5 DEF ChildDeadline, Exhausted
    <2>3. now \in Nat /\ now >= 2 /\ ReqTimeout[r] \in Nat
      BY RequestAssumption DEF TypeOK
    <2>4. TrackerDeadline(now - 1, ReqTimeout[r]) = now - 1
      BY <2>3 DEF TrackerDeadline, Earlier
    <2> QED
      BY <2>1, <2>2, <2>3, <2>4 DEF Passed
  <1> QED
    BY <1>2, <1>3, <1>4, <1>5

\* Starting a subagent reserves its grant and takes a semaphore slot.
LEMMA InvokeSubInv ==
    ASSUME IInv, NEW q \in 1 .. N, InvokeSub(q)
    PROVE  /\ TreeShape' /\ SemaphoreBound' /\ Ledger' /\ Potential'
           /\ ModelBelowLimit' /\ SpentIsUsed' /\ ChildBound'
  <1> USE DEF IInv
  <1>1. PICK p \in Runs : p = Parent[q]
    BY ParentIsRun
  <1>2. q \in Runs /\ q # p
    BY <1>1, ParentIsRun
  <1>3. /\ pc \in [Runs -> {"idle", "check", "model", "tools", "done"}]
        /\ limit \in [Runs -> Usage] /\ used \in [Runs -> Usage] /\ reserved \in [Runs -> Usage]
        /\ spent \in [Runs -> Usage] /\ grant \in [Runs -> Usage]
        /\ deadline \in [Runs -> Nat] /\ subs \in [Runs -> SUBSET (1 .. N)]
    BY DEF TypeOK
  <1>4. pc[p] = "tools" /\ Cardinality(InFlight(p)) < Width /\ q \in subs[p] /\ pc[q] = "idle"
    BY <1>1 DEF InvokeSub, MayStart, TreeShape
  <1> DEFINE g == ChildGrant(p, q)
             l == ChildLimit(p, q)
             t == TrackerDeadline(ChildDeadline(p, q), ReqTimeout[q])
  <1>5. /\ pc' = [pc EXCEPT ![q] = "check"]
        /\ limit' = [limit EXCEPT ![q] = l]
        /\ grant' = [grant EXCEPT ![q] = g]
        /\ deadline' = [deadline EXCEPT ![q] = t]
        /\ used' = [used EXCEPT ![q] = Zero]
        /\ spent' = [spent EXCEPT ![q] = Zero]
        /\ reserved' = [reserved EXCEPT ![p] = Plus(@, g), ![q] = Zero]
        /\ subs' = [subs EXCEPT ![p] = @ \ {q}, ![q] = {}]
        /\ now' = now
    BY <1>1 DEF InvokeSub
  <1>6. \A x \in Runs : x # q => /\ pc'[x] = pc[x] /\ limit'[x] = limit[x] /\ grant'[x] = grant[x]
                                 /\ deadline'[x] = deadline[x] /\ used'[x] = used[x]
                                 /\ spent'[x] = spent[x]
    BY <1>3, <1>5
  <1>7. /\ pc'[q] = "check" /\ limit'[q] = l /\ grant'[q] = g /\ deadline'[q] = t
        /\ used'[q] = Zero /\ spent'[q] = Zero /\ reserved'[q] = Zero /\ subs'[q] = {}
    BY <1>2, <1>3, <1>5
  <1>8. /\ reserved'[p] = Plus(reserved[p], g) /\ subs'[p] = subs[p] \ {q}
        /\ \A x \in Runs : x # p /\ x # q => reserved'[x] = reserved[x] /\ subs'[x] = subs[x]
    BY <1>2, <1>3, <1>5
  <1>9. \A d \in Dims : /\ g[d] \in Nat
                        /\ ~Limited(p, d) => g[d] = 0
                        /\ (Limited(p, d) /\ Remaining(p, d) > 0) =>
                              g[d] > 0 /\ g[d] <= Remaining(p, d) /\ l[d] = g[d]
                        /\ (Limited(p, d) /\ Remaining(p, d) <= 0) => g[d] = 0 /\ Passed(t)
    BY <1>2, GrantFits
  <1> HIDE DEF g, l, t
  <1>10. InFlight(p)' = InFlight(p) \cup {q} /\ q \notin InFlight(p)
    BY <1>1, <1>4, <1>6, <1>7, ParentIsRun DEF InFlight, Children
  <1>11. \A x \in Runs : x # p => InFlight(x)' = InFlight(x)
    BY <1>1, <1>6, ParentIsRun DEF InFlight, Children
  <1>12. InFlight(q) = {} /\ \A d \in Dims : Funded(q, d) = {} /\ Outstanding(q, d) = [r \in 1 .. N |-> 0]
    BY <1>2, <1>4, NothingInFlight
  <1>13. Cardinality(InFlight(p)') = Cardinality(InFlight(p)) + 1
    BY <1>10, InFlightFinite, FS_AddElement
  <1>14. SemaphoreBound'
    <2>1. Cardinality(InFlight(p)') <= Width
      BY <1>4, <1>13, InFlightFinite, WidthType
    <2> QED
      BY <1>11, <2>1 DEF SemaphoreBound
  <1>15. \A x \in Runs, d \in Dims : x # p => Outstanding(x, d)' = Outstanding(x, d)
                                             /\ Funded(x, d)' = Funded(x, d)
    <2> SUFFICES ASSUME NEW x \in Runs, NEW d \in Dims, x # p
                 PROVE  Outstanding(x, d)' = Outstanding(x, d) /\ Funded(x, d)' = Funded(x, d)
      OBVIOUS
    <2>1. \A r \in InFlight(x) : r # q /\ r \in Runs
      BY <1>1, ParentIsRun DEF InFlight, Children
    <2>2. \A r \in InFlight(x) : grant'[r] = grant[r]
      BY <1>6, <2>1
    <2> QED
      BY <1>11, <2>2 DEF Outstanding, Funded
  <1>16. \A d \in Dims : Outstanding(p, d)' = [Outstanding(p, d) EXCEPT ![q] = g[d]]
                         /\ Outstanding(p, d)[q] = 0
    BY <1>2, <1>6, <1>7, <1>10, ParentIsRun DEF Outstanding
  <1>17. Ledger'
    <2> SUFFICES ASSUME NEW x \in Runs, NEW d \in Dims
                 PROVE  IsSum(Outstanding(x, d)', reserved'[x][d])
      BY DEF Ledger
    <2>1. CASE x = p
      <3>1. reserved[p][d] \in Nat /\ reserved'[p][d] = reserved[p][d] + g[d]
        BY <1>3, <1>8 DEF Plus, Usage
      <3>2. Outstanding(p, d) \in [1 .. N -> Nat] /\ IsSum(Outstanding(p, d), reserved[p][d])
        BY OutstandingType DEF Ledger
      <3>3. IsSum([Outstanding(p, d) EXCEPT ![q] = g[d]], reserved[p][d] + g[d])
        BY <1>9, <1>16, <3>1, <3>2, SumAdd
      <3> QED
        BY <1>16, <2>1, <3>1, <3>3
    <2>2. CASE x = q
      <3> DEFINE w == [r \in 1 .. N |-> 0]
      <3>1. w \in [1 .. N -> Nat] /\ \A k \in 1 .. N : w[k] = 0
        OBVIOUS
      <3>2. Outstanding(q, d)' = w
        BY <1>2, <1>12, <1>15
      <3> HIDE DEF w
      <3>3. IsSum(w, 0)
        BY <3>1, SumOfNothing
      <3>4. reserved'[q][d] = 0
        BY <1>7 DEF Zero
      <3> QED
        BY <2>2, <3>2, <3>3, <3>4
    <2>3. CASE x # p /\ x # q
      BY <1>8, <1>15, <2>3 DEF Ledger
    <2> QED
      BY <2>1, <2>2, <2>3
  <1>18. Potential'
    <2> SUFFICES ASSUME NEW x \in Runs, NEW d \in Dims, pc'[x] # "idle", Limited(x, d)'
                 PROVE  used'[x][d] + reserved'[x][d] + Cardinality(Funded(x, d)') * (MaxUse - 1)
                            <= limit'[x][d] + Width * (MaxUse - 1)
      BY DEF Potential
    <2>1. MaxUse - 1 \in Nat
      BY UseAssumption
    <2>2. CASE x = p
      <3>1. /\ used'[p][d] = used[p][d] /\ limit'[p][d] = limit[p][d] /\ Limited(p, d)
            /\ reserved'[p][d] = reserved[p][d] + g[d]
        BY <1>2, <1>6, <1>8, <2>2 DEF Limited, Plus
      <3>2. used[p][d] \in Nat /\ limit[p][d] \in Nat /\ reserved[p][d] \in Nat /\ g[d] \in Nat
        BY <1>3, <1>9 DEF Usage
      <3>3. CASE Remaining(p, d) > 0
        <4>1. used[p][d] + reserved[p][d] + g[d] <= limit[p][d]
          BY <1>9, <3>1, <3>2, <3>3 DEF Remaining
        <4>2. Funded(p, d)' \in SUBSET (InFlight(p)')
          BY DEF Funded
        <4>3. IsFiniteSet(InFlight(p)') /\ Cardinality(InFlight(p)') <= Width
          <5>1. IsFiniteSet(InFlight(p)')
            BY <1>10, InFlightFinite, FS_AddElement
          <5>2. Cardinality(InFlight(p)') <= Width
            BY <1>14 DEF SemaphoreBound
          <5> QED
            BY <5>1, <5>2
        <4>4. Cardinality(Funded(p, d)') \in Nat /\ Cardinality(Funded(p, d)') <= Width
          <5>1. IsFiniteSet(Funded(p, d)') /\ Cardinality(Funded(p, d)') <= Cardinality(InFlight(p)')
            BY <4>2, <4>3, FS_Subset
          <5>2. Cardinality(Funded(p, d)') \in Nat /\ Cardinality(InFlight(p)') \in Nat
            BY <4>3, <5>1, FS_CardinalityType
          <5> QED
            BY <4>3, <5>1, <5>2, WidthType
        <4>5. /\ Cardinality(Funded(p, d)') * (MaxUse - 1) <= Width * (MaxUse - 1)
              /\ Cardinality(Funded(p, d)') * (MaxUse - 1) \in Nat
              /\ Width * (MaxUse - 1) \in Nat
          BY <2>1, <4>4, WidthType, TimesMonotone
        <4> DEFINE a == Cardinality(Funded(p, d)') * (MaxUse - 1)
                   b == Width * (MaxUse - 1)
        <4>6. a \in Nat /\ b \in Nat /\ a <= b
          BY <4>5
        <4> HIDE DEF a, b
        <4>7. used[p][d] + (reserved[p][d] + g[d]) + a <= limit[p][d] + b
          BY <3>2, <4>1, <4>6
        <4> QED
          BY <2>2, <3>1, <4>7 DEF a, b
      <3>4. CASE Remaining(p, d) <= 0
        <4>1. g[d] = 0
          BY <1>9, <3>1, <3>4
        <4>2. Funded(p, d)' = Funded(p, d)
          BY <1>2, <1>6, <1>7, <1>10, <4>1, ParentIsRun DEF Funded, InFlight, Children
        <4>3. used[p][d] + reserved[p][d] + Cardinality(Funded(p, d)) * (MaxUse - 1)
                <= limit[p][d] + Width * (MaxUse - 1)
          BY <1>4, <3>1 DEF Potential
        <4>4. reserved'[p][d] = reserved[p][d]
          BY <3>1, <3>2, <4>1
        <4> QED
          BY <2>2, <3>1, <4>2, <4>3, <4>4
      <3>5. Remaining(p, d) \in Int
        BY <3>2 DEF Remaining
      <3> QED
        BY <3>3, <3>4, <3>5
    <2>3. CASE x = q
      <3>1. Cardinality(Funded(q, d)') = 0
        BY <1>2, <1>12, <1>15, FS_EmptySet
      <3>2. used'[q][d] = 0 /\ reserved'[q][d] = 0
        BY <1>7 DEF Zero
      <3>3. l[d] \in Nat
        BY <1>2, ChildBudgetType DEF l, Usage
      <3>4. 0 * (MaxUse - 1) = 0
        BY <2>1
      <3>5. Width * (MaxUse - 1) \in Nat
        BY <2>1, WidthType, TimesMonotone
      <3> QED
        BY <1>7, <2>3, <3>1, <3>2, <3>3, <3>4, <3>5
    <2>4. CASE x # p /\ x # q
      BY <1>6, <1>8, <1>15, <2>4 DEF Potential, Limited
    <2> QED
      BY <2>2, <2>3, <2>4
  <1>19. ModelBelowLimit'
    BY <1>6, <1>7 DEF ModelBelowLimit, Limited
  <1>20. SpentIsUsed'
    BY <1>6, <1>7 DEF SpentIsUsed, Zero
  <1>21. ChildBound'
    <2> SUFFICES ASSUME NEW r \in 1 .. N, NEW d \in Dims, pc'[r] # "idle", Limited(Parent[r], d)'
                 PROVE  \/ /\ grant'[r][d] > 0
                           /\ limit'[r][d] = grant'[r][d]
                           /\ spent'[r][d] <= grant'[r][d] + MaxUse - 1
                        \/ /\ grant'[r][d] = 0
                           /\ spent'[r][d] = 0
                           /\ Passed(deadline[r])'
                           /\ pc'[r] \in {"check", "done"}
      BY DEF ChildBound
    <2>1. CASE r = q
      <3>1. Limited(p, d) /\ spent'[q][d] = 0 /\ Remaining(p, d) \in Int
        <4>1. Limited(p, d)
          BY <1>1, <1>2, <1>6, <2>1 DEF Limited
        <4>2. spent'[q][d] = 0
          BY <1>7 DEF Zero
        <4>3. Remaining(p, d) \in Int
          BY <1>3 DEF Remaining, Usage
        <4> QED
          BY <4>1, <4>2, <4>3
      <3>2. Passed(t) => Passed(deadline[q])'
        BY <1>5, <1>7 DEF Passed
      <3> QED
        BY <1>7, <1>9, <2>1, <3>1, <3>2, UseAssumption
    <2>2. CASE r # q
      <3>1. r \in Runs /\ pc[r] # "idle"
        BY <1>6, <2>2, ParentIsRun
      <3>2. Parent[r] # q /\ Parent[r] \in Runs
        BY <1>4, <3>1, ParentIsRun DEF TreeShape
      <3>3. Limited(Parent[r], d)
        BY <1>6, <3>2 DEF Limited
      <3> QED
        BY <1>5, <1>6, <2>2, <3>1, <3>3 DEF ChildBound, Passed
    <2> QED
      BY <2>1, <2>2
  <1>22. TreeShape'
    <2>1. \A r \in 1 .. N : pc'[r] # "idle" => pc'[Parent[r]] = "tools"
      <3> SUFFICES ASSUME NEW r \in 1 .. N, pc'[r] # "idle" PROVE pc'[Parent[r]] = "tools"
        OBVIOUS
      <3>1. CASE r = q
        BY <1>1, <1>2, <1>4, <1>6, <3>1
      <3>2. CASE r # q
        <4>1. pc[Parent[r]] = "tools"
          BY <1>6, <3>2, ParentIsRun DEF TreeShape
        <4> QED
          BY <1>4, <1>6, <4>1, ParentIsRun
      <3> QED
        BY <3>1, <3>2
    <2>2. \A x \in Runs : \A r \in subs'[x] : Parent[r] = x /\ pc'[r] = "idle"
      <3> SUFFICES ASSUME NEW x \in Runs, NEW r \in subs'[x] PROVE Parent[r] = x /\ pc'[r] = "idle"
        OBVIOUS
      <3>1. x # q /\ r \in subs[x] /\ r \in 1 .. N
        BY <1>3, <1>7, <1>8
      <3>2. Parent[r] = x /\ pc[r] = "idle" /\ r \in Runs
        BY <3>1, ParentIsRun DEF TreeShape
      <3>3. r # q
        BY <1>1, <1>8, <3>2
      <3> QED
        BY <1>6, <3>2, <3>3
    <2>3. \A x \in Runs : subs'[x] # {} => pc'[x] = "tools"
      BY <1>4, <1>6, <1>7, <1>8 DEF TreeShape
    <2> QED
      BY <2>1, <2>2, <2>3 DEF TreeShape
  <1> QED
    BY <1>14, <1>17, <1>18, <1>19, <1>20, <1>21, <1>22

\* Settling a subagent replaces its grant by what it spent.
LEMMA SettleSubInv ==
    ASSUME IInv, NEW q \in 1 .. N, SettleSub(q)
    PROVE  /\ TreeShape' /\ SemaphoreBound' /\ Ledger' /\ Potential'
           /\ ModelBelowLimit' /\ SpentIsUsed' /\ ChildBound'
  <1> USE DEF IInv
  <1>1. PICK p \in Runs : p = Parent[q]
    BY ParentIsRun
  <1>2. q \in Runs /\ q # p
    BY <1>1, ParentIsRun
  <1>3. /\ pc \in [Runs -> {"idle", "check", "model", "tools", "done"}]
        /\ limit \in [Runs -> Usage] /\ used \in [Runs -> Usage] /\ reserved \in [Runs -> Usage]
        /\ spent \in [Runs -> Usage] /\ grant \in [Runs -> Usage]
        /\ subs \in [Runs -> SUBSET (1 .. N)]
    BY DEF TypeOK
  <1>4. pc[q] = "done" /\ pc[p] = "tools"
    BY <1>1 DEF SettleSub, TreeShape
  <1>5. /\ pc' = [pc EXCEPT ![q] = "idle"]
        /\ used' = [used EXCEPT ![p] = Plus(@, spent[q])]
        /\ reserved' = [reserved EXCEPT ![p] = Release(@, grant[q])]
        /\ UNCHANGED <<limit, deadline, spent, grant, subs, now>>
    BY <1>1 DEF SettleSub
  <1>6. /\ \A x \in Runs : x # q => pc'[x] = pc[x]
        /\ \A x \in Runs : x # p => used'[x] = used[x] /\ reserved'[x] = reserved[x]
        /\ pc'[q] = "idle"
    BY <1>2, <1>3, <1>5
  <1>7. InFlight(p)' = InFlight(p) \ {q} /\ q \in InFlight(p)
    BY <1>1, <1>2, <1>4, <1>6, ParentIsRun DEF InFlight, Children
  <1>8. \A x \in Runs : x # p => InFlight(x)' = InFlight(x)
    BY <1>1, <1>6, ParentIsRun DEF InFlight, Children
  <1>9. \A x \in Runs, d \in Dims : x # p => Outstanding(x, d)' = Outstanding(x, d)
                                            /\ Funded(x, d)' = Funded(x, d)
    BY <1>5, <1>8 DEF Outstanding, Funded
  <1>10. \A d \in Dims : /\ Outstanding(p, d)' = [Outstanding(p, d) EXCEPT ![q] = 0]
                         /\ Outstanding(p, d)[q] = grant[q][d]
    BY <1>5, <1>7 DEF Outstanding
  <1>11. \A d \in Dims : /\ used[p][d] \in Nat /\ reserved[p][d] \in Nat /\ limit[p][d] \in Nat
                         /\ spent[q][d] \in Nat /\ grant[q][d] \in Nat
    BY <1>2, <1>3 DEF Usage
  <1>12. ASSUME NEW d \in Dims
         PROVE  /\ grant[q][d] <= reserved[p][d]
                /\ IsSum([Outstanding(p, d) EXCEPT ![q] = 0], reserved[p][d] - grant[q][d])
    <2>1. Outstanding(p, d) \in [1 .. N -> Nat] /\ IsSum(Outstanding(p, d), reserved[p][d])
      BY OutstandingType DEF Ledger
    <2>2. Outstanding(p, d)[q] = grant[q][d] /\ reserved[p][d] \in Nat
      BY <1>10, <1>11
    <2> DEFINE w == Outstanding(p, d)
    <2> HIDE DEF w
    <2>3. w[q] <= reserved[p][d] /\ IsSum([w EXCEPT ![q] = 0], reserved[p][d] - w[q])
      BY <2>1, <2>2, SumRemove DEF w
    <2> QED
      BY <2>2, <2>3 DEF w
  <1>13. \A d \in Dims : /\ reserved'[p][d] = reserved[p][d] - grant[q][d]
                         /\ used'[p][d] = used[p][d] + spent[q][d]
    <2> SUFFICES ASSUME NEW d \in Dims
                 PROVE  /\ reserved'[p][d] = reserved[p][d] - grant[q][d]
                        /\ used'[p][d] = used[p][d] + spent[q][d]
      OBVIOUS
    <2>1. reserved'[p] = Release(reserved[p], grant[q]) /\ used'[p] = Plus(used[p], spent[q])
      BY <1>3, <1>5
    <2>2. ~(reserved[p][d] < grant[q][d])
      <3>1. grant[q][d] <= reserved[p][d]
        BY <1>12
      <3>2. grant[q][d] \in Nat /\ reserved[p][d] \in Nat
        BY <1>11
      <3> QED
        BY <3>1, <3>2
    <2> QED
      BY <2>1, <2>2 DEF Release, Plus
  <1>14. SemaphoreBound'
    <2>1. Cardinality(InFlight(p)') <= Width
      <3>1. Cardinality(InFlight(p)') = Cardinality(InFlight(p)) - 1
        BY <1>7, InFlightFinite, FS_RemoveElement
      <3> QED
        BY <3>1, InFlightFinite, WidthType DEF SemaphoreBound
    <2> QED
      BY <1>8, <2>1 DEF SemaphoreBound
  <1>15. Ledger'
    BY <1>6, <1>9, <1>10, <1>12, <1>13 DEF Ledger
  <1>16. Potential'
    <2> SUFFICES ASSUME NEW x \in Runs, NEW d \in Dims, pc'[x] # "idle", Limited(x, d)'
                 PROVE  used'[x][d] + reserved'[x][d] + Cardinality(Funded(x, d)') * (MaxUse - 1)
                            <= limit'[x][d] + Width * (MaxUse - 1)
      BY DEF Potential
    <2>1. CASE x # p
      BY <1>5, <1>6, <1>9, <2>1 DEF Potential, Limited
    <2>2. CASE x = p
      <3>1. Limited(p, d) /\ limit'[p][d] = limit[p][d]
        BY <1>5, <2>2 DEF Limited
      <3>2. used[p][d] + reserved[p][d] + Cardinality(Funded(p, d)) * (MaxUse - 1)
                <= limit[p][d] + Width * (MaxUse - 1)
        BY <1>4, <3>1 DEF Potential
      <3>3. MaxUse - 1 \in Nat /\ Width \in Nat /\ Cardinality(Funded(p, d)) \in Nat
        BY UseAssumption, WidthType, InFlightFinite
      <3>4. CASE grant[q][d] > 0
        <4>1. spent[q][d] <= grant[q][d] + MaxUse - 1
          BY <1>1, <1>4, <3>1, <3>4 DEF ChildBound
        <4>2. Funded(p, d)' = Funded(p, d) \ {q} /\ q \in Funded(p, d)
          BY <1>5, <1>7, <3>4 DEF Funded
        <4>3. Cardinality(Funded(p, d)') = Cardinality(Funded(p, d)) - 1
          BY <4>2, InFlightFinite, FS_RemoveElement
        <4> DEFINE c == Cardinality(Funded(p, d))
                   m == MaxUse - 1
        <4>4. c \in Nat /\ m \in Nat /\ (c - 1) * m = c * m - m /\ c * m \in Nat /\ Width * m \in Nat
          BY <3>3
        <4>5. used[p][d] + reserved[p][d] + c * m <= limit[p][d] + Width * m
          BY <3>2
        <4>6. spent[q][d] <= grant[q][d] + m
          BY <1>11, <4>1, UseAssumption
        <4>7. Cardinality(Funded(p, d)') * (MaxUse - 1) = c * m - m
          BY <4>3, <4>4
        <4> HIDE DEF c, m
        <4>8. used[p][d] + spent[q][d] + (reserved[p][d] - grant[q][d]) + (c * m - m)
                <= limit[p][d] + Width * m
          <5> DEFINE cm == c * m
                     wm == Width * m
          <5>1. cm \in Nat /\ wm \in Nat /\ m \in Nat
                /\ used[p][d] + reserved[p][d] + cm <= limit[p][d] + wm
            BY <4>4, <4>5
          <5> HIDE DEF cm, wm
          <5>2. used[p][d] + spent[q][d] + (reserved[p][d] - grant[q][d]) + (cm - m)
                  <= limit[p][d] + wm
            BY <1>11, <4>6, <5>1
          <5> QED
            BY <5>2 DEF cm, wm
        <4> QED
          BY <1>13, <2>2, <3>1, <4>7, <4>8 DEF m
      <3>5. CASE ~(grant[q][d] > 0)
        <4>1. spent[q][d] = 0 /\ grant[q][d] = 0
          BY <1>1, <1>4, <3>1, <3>5 DEF ChildBound
        <4>2. Funded(p, d)' = Funded(p, d)
          BY <1>5, <1>7, <3>5 DEF Funded
        <4>3. used'[p][d] = used[p][d] /\ reserved'[p][d] = reserved[p][d]
          BY <1>11, <1>13, <4>1
        <4> QED
          BY <2>2, <3>1, <3>2, <4>2, <4>3
      <3> QED
        BY <3>4, <3>5
    <2> QED
      BY <2>1, <2>2
  <1>17. ModelBelowLimit'
    BY <1>4, <1>5, <1>6 DEF ModelBelowLimit, Limited
  <1>18. SpentIsUsed'
    <2>1. \A x \in Runs, d \in Dims : spent[x][d] \in Nat /\ used[x][d] \in Nat
      BY <1>3 DEF Usage
    <2> QED
      BY <1>5, <1>6, <1>11, <1>13, <2>1 DEF SpentIsUsed
  <1>19. ChildBound'
    BY <1>5, <1>6, ParentIsRun DEF ChildBound, Limited, Passed
  <1>20. TreeShape'
    <2>1. \A r \in 1 .. N : pc'[r] # "idle" => pc'[Parent[r]] = "tools"
      <3> SUFFICES ASSUME NEW r \in 1 .. N, pc'[r] # "idle" PROVE pc'[Parent[r]] = "tools"
        OBVIOUS
      <3>1. pc[Parent[r]] = "tools"
        BY <1>6, ParentIsRun DEF TreeShape
      <3> QED
        BY <1>4, <1>6, <3>1, ParentIsRun
    <2>2. \A x \in Runs : \A r \in subs'[x] : Parent[r] = x /\ pc'[r] = "idle"
      <3> SUFFICES ASSUME NEW x \in Runs, NEW r \in subs'[x] PROVE Parent[r] = x /\ pc'[r] = "idle"
        OBVIOUS
      <3>1. r \in subs[x] /\ r \in Runs
        BY <1>3, <1>5, ParentIsRun
      <3> QED
        BY <1>6, <3>1 DEF TreeShape
    <2>3. \A x \in Runs : subs'[x] # {} => pc'[x] = "tools"
      BY <1>4, <1>5, <1>6 DEF TreeShape
    <2> QED
      BY <2>1, <2>2, <2>3 DEF TreeShape
  <1> QED
    BY <1>14, <1>15, <1>16, <1>17, <1>18, <1>19, <1>20

\* The inductive invariant holds initially: no subagent, nothing reserved.
LEMMA InitInv == Init /\ TypeOK => IInv
  <1> SUFFICES ASSUME Init, TypeOK PROVE IInv
    OBVIOUS
  <1>1. \A r \in 1 .. N : pc[r] = "idle"
    BY NAssumption DEF Init, Runs, Root
  <1>2. \A p \in Runs : InFlight(p) = {}
    BY <1>1 DEF InFlight, Children
  <1>3. TreeShape
    BY <1>1 DEF TreeShape, Init
  <1>4. SemaphoreBound
    BY <1>2, FS_EmptySet, WidthType DEF SemaphoreBound
  <1>5. Ledger
    <2> SUFFICES ASSUME NEW p \in Runs, NEW d \in Dims
                 PROVE  IsSum(Outstanding(p, d), reserved[p][d])
      BY DEF Ledger
    <2>1. Outstanding(p, d) \in [1 .. N -> Nat] /\ \A k \in 1 .. N : Outstanding(p, d)[k] = 0
      BY <1>2 DEF Outstanding
    <2>2. reserved[p][d] = 0
      BY DEF Init, Zero
    <2> QED
      BY <2>1, <2>2, SumOfNothing
  <1>6. Potential
    <2> SUFFICES ASSUME NEW p \in Runs, NEW d \in Dims
                 PROVE  used[p][d] + reserved[p][d] + Cardinality(Funded(p, d)) * (MaxUse - 1)
                            <= limit[p][d] + Width * (MaxUse - 1)
      BY DEF Potential
    <2>1. used[p][d] = 0 /\ reserved[p][d] = 0
      BY DEF Init, Zero
    <2>2. Cardinality(Funded(p, d)) = 0
      BY <1>2, FS_EmptySet DEF Funded
    <2>3. limit[p][d] \in Nat /\ MaxUse - 1 \in Nat
      BY UseAssumption DEF TypeOK, Usage
    <2>4. Width * (MaxUse - 1) \in Nat /\ 0 * (MaxUse - 1) = 0
      BY <2>3, WidthType, TimesMonotone
    <2> QED
      BY <2>1, <2>2, <2>3, <2>4
  <1>7. ModelBelowLimit /\ SpentIsUsed /\ ChildBound
    BY <1>1 DEF ModelBelowLimit, SpentIsUsed, ChildBound, Init, Zero
  <1> QED
    BY <1>3, <1>4, <1>5, <1>6, <1>7 DEF IInv

\* The inductive invariant holds in every reachable state.
THEOREM InvariantHolds == Spec => []IInv
  <1>1. TypeOK' /\ IInv /\ [Next]_vars => IInv'
    <2> SUFFICES ASSUME TypeOK', IInv, [Next]_vars PROVE IInv'
      OBVIOUS
    <2>1. CASE \/ \E q \in Runs : \/ GenerateFails(q)
                                  \/ \E f \in BOOLEAN : PlainTool(q, f)
                                  \/ ToolsReturn(q)
               \/ Cancel \/ Tick \/ UNCHANGED vars
      BY <2>1, QuietStepInv DEF IInv
    <2>2. ASSUME NEW q \in Runs, CheckStep(q) PROVE IInv'
      BY <2>2, CheckStepInv DEF IInv
    <2>3. ASSUME NEW q \in Runs, NEW u \in [Dims -> 0 .. MaxUse],
                 NEW S \in SUBSET Children(q), NEW n \in 0 .. MaxPlain, Generate(q, u, S, n)
          PROVE  IInv'
      BY <2>3, GenerateInv DEF IInv
    <2>4. ASSUME NEW q \in 1 .. N, InvokeSub(q) PROVE IInv'
      BY <2>4, InvokeSubInv DEF IInv
    <2>5. ASSUME NEW q \in 1 .. N, SettleSub(q) PROVE IInv'
      BY <2>5, SettleSubInv DEF IInv
    <2> QED
      BY <2>1, <2>2, <2>3, <2>4, <2>5 DEF Next, RunStep, SubStep, Returned
  <1> QED
    BY <1>1, InitInv, TypeCorrect, PTL DEF Spec

\* The spending bound of budget.go, for every tree and every budget: used plus
\* reserved exceeds a limit by less than one model call per parallel tool.
THEOREM SpendBound == Spec => []SpendWithinSlack
  <1>1. IInv => SpendWithinSlack
    <2> SUFFICES ASSUME IInv, NEW p \in Runs, NEW d \in Dims, pc[p] # "idle", Limited(p, d)
                 PROVE  used[p][d] + reserved[p][d] <= limit[p][d] + Width * (MaxUse - 1)
      BY DEF SpendWithinSlack
    <2>1. used[p][d] + reserved[p][d] + Cardinality(Funded(p, d)) * (MaxUse - 1)
            <= limit[p][d] + Width * (MaxUse - 1)
      BY DEF IInv, Potential
    <2>2. used[p][d] \in Nat /\ reserved[p][d] \in Nat /\ limit[p][d] \in Nat
      BY DEF IInv, TypeOK, Usage
    <2>3. Cardinality(Funded(p, d)) \in Nat /\ MaxUse - 1 \in Nat
      BY InFlightFinite, UseAssumption
    <2>4. Cardinality(Funded(p, d)) * (MaxUse - 1) \in Nat /\ Width * (MaxUse - 1) \in Nat
      BY <2>3, WidthType, TimesMonotone
    <2> QED
      BY <2>1, <2>2, <2>4
  <1> QED
    BY <1>1, InvariantHolds, PTL

\* A subagent overspends its grant by less than one model call, and an
\* exhausted parent's subagent spends nothing.
THEOREM ChildBounded == Spec => []ChildWithinGrant
  <1>1. IInv => ChildWithinGrant
    BY DEF IInv, ChildBound, ChildWithinGrant
  <1> QED
    BY <1>1, InvariantHolds, PTL

\* While a subagent runs its whole grant is reserved, so that settleChild's
\* guard against a negative reservation never acts.
THEOREM GrantReserved == Spec => []GrantStaysReserved
  <1>1. IInv => GrantStaysReserved
    <2> SUFFICES ASSUME IInv, NEW r \in 1 .. N, NEW d \in Dims, pc[r] # "idle"
                 PROVE  grant[r][d] <= reserved[Parent[r]][d]
      BY DEF GrantStaysReserved
    <2>1. PICK p \in Runs : p = Parent[r]
      BY ParentIsRun
    <2>2. Outstanding(p, d)[r] = grant[r][d]
      BY <2>1 DEF Outstanding, InFlight, Children
    <2>3. Outstanding(p, d) \in [1 .. N -> Nat] /\ IsSum(Outstanding(p, d), reserved[p][d])
      BY OutstandingType DEF IInv, Ledger
    <2>4. reserved[p][d] \in Nat
      BY DEF IInv, TypeOK, Usage
    <2>5. Outstanding(p, d)[r] <= reserved[p][d]
      BY <2>3, <2>4, SumRemove
    <2> QED
      BY <2>1, <2>2, <2>5
  <1> QED
    BY <1>1, InvariantHolds, PTL

-----------------------------------------------------------------------------
(* Deadlines                                                               *)

\* A step that leaves the deadlines alone, does not turn the clock back and starts no run.
LEMMA SameDeadlines ==
    ASSUME TypeOK, TypeOK', DeadlineOrder, deadline' = deadline, now' >= now,
           \A r \in 1 .. N : pc'[r] # "idle" => pc[r] # "idle"
    PROVE  DeadlineOrder'
  <1> SUFFICES ASSUME NEW r \in 1 .. N, pc[r] # "idle", deadline[Parent[r]] # 0
               PROVE  deadline[r] # 0 /\ (deadline[r] <= deadline[Parent[r]] \/ now' > deadline[r])
    BY DEF DeadlineOrder
  <1>1. now \in Nat /\ now' \in Nat /\ deadline[r] \in Nat
    BY ParentIsRun DEF TypeOK
  <1> QED
    BY <1>1 DEF DeadlineOrder

\* The deadline a subagent's tracker gets is one that has passed, if the parent is exhausted,
\* and no later than the parent's otherwise.
LEMMA TrackerNested ==
    ASSUME TypeOK, NEW p \in Runs, NEW r \in Runs, deadline[p] # 0
    PROVE  LET t == TrackerDeadline(ChildDeadline(p, r), ReqTimeout[r])
           IN  t # 0 /\ (t <= deadline[p] \/ now > t)
  <1>1. now \in Nat /\ now >= 2 /\ deadline[p] \in Nat /\ ReqDeadline[r] \in Nat /\ ReqTimeout[r] \in Nat
    BY RequestAssumption DEF TypeOK
  <1>2. PICK c \in Nat : c = ChildDeadline(p, r)
    BY DeadlineType
  <1>3. c # 0 /\ (c <= deadline[p] \/ now > c)
    BY <1>1, <1>2 DEF ChildDeadline, Earlier
  <1>4. PICK t \in Nat : t = TrackerDeadline(c, ReqTimeout[r])
    BY <1>1, DeadlineType
  <1>5. t # 0 /\ t <= c
    BY <1>1, <1>3, <1>4 DEF TrackerDeadline, Earlier
  <1> QED
    BY <1>1, <1>2, <1>3, <1>4, <1>5

\* No subagent works on after the deadline of the run that waits for it: a deadline is handed
\* down the tree by childBudget, for every tree and every configuration.
THEOREM DeadlinesNest == Spec => []DeadlineNested
  <1>1. Init => DeadlineOrder
    BY ParentIsRun DEF Init, DeadlineOrder, Root
  <1>2. IInv /\ TypeOK' /\ DeadlineOrder /\ [Next]_vars => DeadlineOrder'
    <2> SUFFICES ASSUME IInv, TypeOK', DeadlineOrder, [Next]_vars PROVE DeadlineOrder'
      OBVIOUS
    <2> USE DEF IInv
    <2>1. now \in Nat /\ pc \in [Runs -> {"idle", "check", "model", "tools", "done"}]
      BY DEF TypeOK
    <2>2. ASSUME NEW q \in Runs, RunStep(q) PROVE DeadlineOrder'
      <3>1. deadline' = deadline /\ now' = now
        BY <2>2 DEF RunStep, CheckStep, Generate, GenerateFails, PlainTool, ToolsReturn
      <3>2. pc[q] # "idle" /\ \A r \in Runs \ {q} : pc'[r] = pc[r]
        BY <2>1, <2>2 DEF RunStep, CheckStep, Generate, GenerateFails, PlainTool, MayStart, ToolsReturn
      <3>3. \A r \in 1 .. N : pc'[r] # "idle" => pc[r] # "idle"
        BY <3>2, ParentIsRun
      <3> QED
        BY <2>1, <3>1, <3>3, SameDeadlines
    <2>3. ASSUME NEW q \in 1 .. N, SettleSub(q) PROVE DeadlineOrder'
      <3>1. deadline' = deadline /\ now' = now /\ pc' = [pc EXCEPT ![q] = "idle"]
        BY <2>3 DEF SettleSub
      <3>2. \A r \in 1 .. N : pc'[r] # "idle" => pc[r] # "idle"
        BY <2>1, <3>1, ParentIsRun
      <3> QED
        BY <2>1, <3>1, <3>2, SameDeadlines
    <2>4. CASE Cancel \/ Tick \/ UNCHANGED vars
      <3>1. deadline' = deadline /\ now' \in {now, now + 1} /\ pc' = pc
        BY <2>4 DEF Cancel, Tick, vars
      <3> QED
        BY <2>1, <3>1, SameDeadlines
    <2>5. ASSUME NEW q \in 1 .. N, InvokeSub(q) PROVE DeadlineOrder'
      <3> DEFINE p == Parent[q]
                 t == TrackerDeadline(ChildDeadline(p, q), ReqTimeout[q])
      <3>1. q \in Runs /\ p \in Runs /\ p # q
        BY ParentIsRun
      <3>2. /\ q \in subs[p] /\ pc' = [pc EXCEPT ![q] = "check"] /\ now' = now
            /\ deadline' = [deadline EXCEPT ![q] = t]
        BY <2>5 DEF InvokeSub
      <3>3. pc[q] = "idle" /\ deadline \in [Runs -> Nat]
        BY <3>1, <3>2 DEF TreeShape, TypeOK
      <3> HIDE DEF t
      <3>4. deadline'[q] = t /\ \A r \in Runs \ {q} : deadline'[r] = deadline[r] /\ pc'[r] = pc[r]
        BY <2>1, <3>1, <3>2, <3>3
      <3>5. ASSUME NEW r \in 1 .. N, pc'[r] # "idle", deadline'[Parent[r]] # 0
            PROVE  deadline'[r] # 0 /\ (deadline'[r] <= deadline'[Parent[r]] \/ now' > deadline'[r])
        <4>1. CASE r = q
          <5>1. deadline'[p] = deadline[p] /\ deadline[p] # 0
            BY <3>1, <3>4, <3>5, <4>1
          <5>2. t # 0 /\ (t <= deadline[p] \/ now > t)
            BY <3>1, <5>1, TrackerNested DEF t
          <5> QED
            BY <3>2, <3>4, <4>1, <5>1, <5>2
        <4>2. CASE r # q
          <5>1. pc[r] # "idle" /\ Parent[r] # q
            BY <3>3, <3>4, <3>5, <4>2, ParentIsRun DEF TreeShape
          <5>2. deadline'[r] = deadline[r] /\ deadline'[Parent[r]] = deadline[Parent[r]]
            BY <3>4, <4>2, <5>1, ParentIsRun
          <5> QED
            BY <3>2, <3>5, <5>1, <5>2 DEF DeadlineOrder
        <4> QED
          BY <4>1, <4>2
      <3> QED
        BY <3>5 DEF DeadlineOrder
    <2> QED
      BY <2>2, <2>3, <2>4, <2>5 DEF Next, SubStep, Returned
  <1>3. TypeOK /\ DeadlineOrder => DeadlineNested
    <2> SUFFICES ASSUME TypeOK, DeadlineOrder, NEW r \in 1 .. N, pc[r] # "idle", Passed(deadline[Parent[r]])
                 PROVE  Passed(deadline[r])
      BY DEF DeadlineNested
    <2>1. now \in Nat /\ deadline[r] \in Nat /\ deadline[Parent[r]] \in Nat
      BY ParentIsRun DEF TypeOK
    <2> QED
      BY <2>1 DEF Passed, DeadlineOrder
  <1> QED
    BY <1>1, <1>2, <1>3, InvariantHolds, TypeCorrect, PTL DEF Spec

\* A ledger's partial sums are the sums over the subagents in flight that they pass.
LEMMA LedgerSum ==
    ASSUME TypeOK, Ledger, NEW p \in Runs, NEW d \in Dims
    PROVE  reserved[p][d] = SumFunctionOnSet([r \in Runs |-> grant[r][d]], InFlight(p))
  <1> DEFINE g == [r \in Runs |-> grant[r][d]]
             w == Outstanding(p, d)
             F(k) == InFlight(p) \cap 1 .. k
  <1>1. InFlight(p) \subseteq 1 .. N /\ N \in Nat /\ Runs = 0 .. N
    BY NAssumption DEF InFlight, Children, Runs
  <1>2. PICK s \in [Runs -> 0 .. reserved[p][d]] : PartialSums(s, w) /\ s[N] = reserved[p][d]
    <2>1. IsSum(w, reserved[p][d])
      BY DEF Ledger
    <2> HIDE DEF w
    <2> QED
      BY <2>1 DEF IsSum
  <1>3. \A x \in 1 .. N : g[x] \in Int
    BY <1>1 DEF TypeOK, Usage
  <1>4. ASSUME NEW k \in Nat PROVE IsFiniteSet(F(k))
    <2>1. IsFiniteSet(1 .. k) /\ F(k) \in SUBSET (1 .. k)
      BY FS_Interval
    <2> HIDE DEF F
    <2> QED
      BY <2>1, FS_Subset
  <1> DEFINE M == {k \in Nat : k <= N => s[k] = SumFunctionOnSet(g, F(k))}
  <1>5. 0 \in M
    <2>1. F(0) = {}
      OBVIOUS
    <2>2. SumFunctionOnSet(g, F(0)) = 0
      BY <2>1, SumEmpty
    <2> QED
      BY <1>2, <2>2 DEF PartialSums
  <1>6. ASSUME NEW k \in Nat, k \in M
        PROVE  k + 1 \in M
    <2>1. CASE k + 1 <= N
      <3>1. k + 1 \in 1 .. N /\ s[k + 1] = s[k] + w[k + 1] /\ s[k] = SumFunctionOnSet(g, F(k))
        <4>1. k + 1 \in 1 .. N /\ (k + 1) - 1 = k /\ k <= N
          BY <1>1, <2>1
        <4>2. s[k + 1] = s[(k + 1) - 1] + w[k + 1]
          BY <1>2, <4>1 DEF PartialSums
        <4> QED
          BY <1>6, <4>1, <4>2
      <3>2. CASE k + 1 \in InFlight(p)
        <4>1. w[k + 1] = g[k + 1]
          BY <1>1, <3>1, <3>2 DEF Outstanding
        <4>2. k + 1 \in F(k + 1) /\ F(k + 1) \ {k + 1} = F(k)
          <5>1. k + 1 \in 1 .. k + 1 /\ \A x \in 1 .. k + 1 : x # k + 1 <=> x \in 1 .. k
            OBVIOUS
          <5>2. \A x \in 1 .. k : x \in 1 .. k + 1 /\ x # k + 1
            OBVIOUS
          <5> QED
            BY <3>2, <5>1, <5>2, Zenon
        <4>3. IsFiniteSet(F(k + 1)) /\ \A x \in F(k + 1) : g[x] \in Int
          <5>1. k + 1 \in Nat
            OBVIOUS
          <5>2. IsFiniteSet(F(k + 1))
            BY <1>4, <5>1
          <5>3. \A x \in F(k + 1) : g[x] \in Int
            BY <1>1, <1>3
          <5> QED
            BY <5>2, <5>3
        <4>4. g[k + 1] \in Int /\ SumFunctionOnSet(g, F(k)) \in Int
          BY <1>1, <1>3, <1>4, <3>1, SumType
        <4> HIDE DEF g, F, w
        <4>5. SumFunctionOnSet(g, F(k + 1)) = g[k + 1] + SumFunctionOnSet(g, F(k))
          BY <4>2, <4>3, SumTerm
        <4> QED
          BY <3>1, <4>1, <4>4, <4>5
      <3>3. CASE k + 1 \notin InFlight(p)
        <4>1. w[k + 1] = 0 /\ F(k + 1) = F(k)
          BY <3>1, <3>3 DEF Outstanding
        <4>2. SumFunctionOnSet(g, F(k)) \in Int
          BY <1>1, <1>3, <1>4, SumType
        <4> HIDE DEF g, F, w
        <4> QED
          BY <3>1, <4>1, <4>2
      <3> QED
        BY <3>2, <3>3
    <2>2. CASE ~(k + 1 <= N)
      BY <2>2
    <2> QED
      BY <2>1, <2>2
  <1>7. N \in M
    <2> HIDE DEF M
    <2> QED
      BY <1>1, <1>5, <1>6, NatSetInduction
  <1>8. F(N) = InFlight(p)
    BY <1>1
  <1>9. s[N] = SumFunctionOnSet(g, F(N))
    BY <1>1, <1>7
  <1> QED
    BY <1>2, <1>8, <1>9

\* What a run has reserved is the sum of the grants of its subagents in flight, for any tree,
\* any requests and any interleaving (childBudget and settle of budget.go).
THEOREM ReservedIsExact == Spec => []ReservedIsSumOfGrants
  <1>1. IInv => ReservedIsSumOfGrants
    BY LedgerSum DEF IInv, ReservedIsSumOfGrants
  <1> QED
    BY <1>1, InvariantHolds, PTL

=============================================================================
