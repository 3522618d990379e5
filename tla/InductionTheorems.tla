------------------------- MODULE InductionTheorems -------------------------
(***************************************************************************)
(* Induction over the natural numbers, for sets in place of predicates, and*)
(* what follows from it about the sums that the properties speak of.       *)
(***************************************************************************)
EXTENDS Integers, FiniteSets, Functions, FiniteSetTheorems, WellFoundedInduction, TLAPS

\* Numbers of which there is one have a least one.
LEMMA LeastOf ==
    ASSUME NEW T, T \subseteq Nat, T # {}
    PROVE  \E x \in T : \A y \in T : x <= y
  <1> DEFINE R == {ss \in Nat \X Nat : ss[1] < ss[2]}
  <1>1. R = OpToRel(<, Nat)
    BY DEF OpToRel
  <1>2. IsWellFoundedOn(R, Nat)
    BY <1>1, NatLessThanWellFounded
  <1>3. PICK x \in T : \A y \in T : ~ (<<y, x>> \in R)
    BY <1>2, WFMin
  <1>4. ASSUME NEW y \in T PROVE x <= y
    <2>1. <<y, x>> \in Nat \X Nat /\ <<y, x>>[1] = y /\ <<y, x>>[2] = x
      OBVIOUS
    <2>2. ~(y < x)
      BY <1>3, <2>1
    <2> QED
      BY <2>2
  <1> QED
    BY <1>4

\* Induction: a set with 0 that is closed under successor has all natural numbers.
LEMMA NatSetInduction ==
    ASSUME NEW S, 0 \in S, \A n \in Nat : n \in S => n + 1 \in S
    PROVE  \A n \in Nat : n \in S
  <1> SUFFICES ASSUME NEW n \in Nat, n \notin S PROVE FALSE
    OBVIOUS
  <1>1. PICK m \in Nat \ S : \A y \in Nat \ S : m <= y
    BY LeastOf
  <1>2. m - 1 \in Nat /\ m - 1 \notin Nat \ S
    BY <1>1
  <1> QED
    BY <1>1, <1>2

-----------------------------------------------------------------------------
(* SumFunctionOnSet of the community modules, and the recursive function   *)
(* it takes the sum from.                                                  *)

Pick(s) == CHOOSE x \in s : TRUE

SumStep(f, g, s) == IF s = {} THEN 0 ELSE f[Pick(s)] + g[s \ {Pick(s)}]

IsSumFcn(f, g, D) == g = [s \in D |-> SumStep(f, g, s)]

SumFcn(f, S) == CHOOSE g : IsSumFcn(f, g, SUBSET S)

\* The sum of the community modules is one value of that function.
LEMMA SumIs ==
    ASSUME NEW f, NEW S
    PROVE  SumFunctionOnSet(f, S) = SumFcn(f, S)[S]
  BY DEF SumFunctionOnSet, FoldFunctionOnSet, MapThenFoldSet, SumFcn, IsSumFcn, SumStep, Pick

\* A subset of a finite set, and what is left when one member is taken out.
LEMMA PickOne ==
    ASSUME NEW S, IsFiniteSet(S), NEW s \in SUBSET S
    PROVE  /\ IsFiniteSet(s) /\ Cardinality(s) \in Nat /\ Cardinality(s) <= Cardinality(S)
           /\ s = {} <=> Cardinality(s) = 0
           /\ s # {} => Pick(s) \in s
           /\ \A x \in s : Cardinality(s \ {x}) = Cardinality(s) - 1 /\ s \ {x} \in SUBSET S
  <1>1. IsFiniteSet(s) /\ Cardinality(s) <= Cardinality(S)
    BY FS_Subset
  <1>2. Cardinality(s) \in Nat
    BY <1>1, FS_CardinalityType
  <1>3. s = {} <=> Cardinality(s) = 0
    BY <1>1, FS_EmptySet
  <1>4. s # {} => Pick(s) \in s
    BY DEF Pick
  <1>5. \A x \in s : Cardinality(s \ {x}) = Cardinality(s) - 1
    BY <1>1, FS_RemoveElement
  <1> QED
    BY <1>1, <1>2, <1>3, <1>4, <1>5

\* The recursion is well defined on the subsets of a finite set.
LEMMA SumFcnExists ==
    ASSUME NEW f, NEW S, IsFiniteSet(S)
    PROVE  IsSumFcn(f, SumFcn(f, S), SUBSET S)
  <1> DEFINE Upto(n) == {s \in SUBSET S : Cardinality(s) <= n}
             M == {n \in Nat : \E g : IsSumFcn(f, g, Upto(n))}
  <1>1. 0 \in M
    <2> DEFINE g0 == [s \in Upto(0) |-> 0]
    <2>1. \A s \in Upto(0) : s = {}
      BY PickOne
    <2>2. \A s \in Upto(0) : SumStep(f, g0, s) = 0
      BY <2>1 DEF SumStep
    <2>3. g0 = [s \in Upto(0) |-> SumStep(f, g0, s)]
      BY <2>2
    <2> QED
      BY <2>3 DEF IsSumFcn
  <1>2. ASSUME NEW n \in Nat, n \in M
        PROVE  n + 1 \in M
    <2>1. PICK g : IsSumFcn(f, g, Upto(n))
      BY <1>2
    <2> DEFINE h == [s \in Upto(n + 1) |-> SumStep(f, g, s)]
    <2>2. ASSUME NEW s \in Upto(n + 1)
          PROVE  SumStep(f, g, s) = SumStep(f, h, s)
      <3>1. CASE s = {}
        BY <3>1 DEF SumStep
      <3>2. CASE s # {}
        <4> DEFINE t == s \ {Pick(s)}
        <4>1. t \in SUBSET S /\ Cardinality(t) <= n /\ Cardinality(t) \in Nat
          BY <1>2, <3>2, PickOne
        <4>2. t \in Upto(n) /\ t \in Upto(n + 1)
          BY <1>2, <4>1
        <4>3. h[t] = SumStep(f, g, t)
          BY <4>2
        <4>4. g[t] = SumStep(f, g, t)
          BY <2>1, <4>2 DEF IsSumFcn
        <4> QED
          BY <3>2, <4>3, <4>4 DEF SumStep
      <3> QED
        BY <3>1, <3>2
    <2>3. h = [s \in Upto(n + 1) |-> SumStep(f, h, s)]
      BY <2>2
    <2> QED
      <3> HIDE DEF h, Upto
      <3>1. IsSumFcn(f, h, Upto(n + 1)) /\ n + 1 \in Nat
        BY <1>2, <2>3 DEF IsSumFcn
      <3> QED
        BY <3>1
  <1>3. \A n \in Nat : n \in M
    <2> HIDE DEF M
    <2> QED
      BY <1>1, <1>2, NatSetInduction
  <1>4. Cardinality(S) \in Nat /\ Upto(Cardinality(S)) = SUBSET S
    BY PickOne
  <1>5. \E g : IsSumFcn(f, g, SUBSET S)
    BY <1>3, <1>4
  <1> QED
    BY <1>5 DEF SumFcn

\* g sums f over the subsets of S.
Sums(g, f, S) ==
    \A s \in SUBSET S : /\ s = {} => g[s] = 0
                        /\ s # {} => g[s] = f[Pick(s)] + g[s \ {Pick(s)}]

\* How a subset of a finite set shrinks.
Shrinks(S) ==
    \A s \in SUBSET S :
        /\ Cardinality(s) \in Nat /\ (s = {} <=> Cardinality(s) = 0)
        /\ s # {} => Pick(s) \in s
        /\ \A x \in s : Cardinality(s \ {x}) = Cardinality(s) - 1

\* Every finite set shrinks so.
LEMMA SubsetsShrink ==
    ASSUME NEW S, IsFiniteSet(S)
    PROVE  Shrinks(S)
  BY PickOne DEF Shrinks

\* The recursive function is defined: it adds one member at a time.
LEMMA SumFcnSums ==
    ASSUME NEW f, NEW S, IsFiniteSet(S)
    PROVE  Sums(SumFcn(f, S), f, S)
  <1> DEFINE g == SumFcn(f, S)
  <1>1. IsSumFcn(f, g, SUBSET S)
    BY SumFcnExists
  <1> HIDE DEF g
  <1>2. \A s \in SUBSET S : g[s] = SumStep(f, g, s)
    BY <1>1 DEF IsSumFcn
  <1>3. Sums(g, f, S)
    BY <1>2 DEF SumStep, Sums
  <1> QED
    BY <1>3 DEF g

\* Sums of numbers are numbers,
LEMMA SumsType ==
    ASSUME NEW S, Shrinks(S), NEW f, NEW g, Sums(g, f, S), NEW N \in {Nat, Int}, \A x \in S : f[x] \in N
    PROVE  \A s \in SUBSET S : g[s] \in N
  <1> DEFINE M == {n \in Nat : \A s \in SUBSET S : Cardinality(s) = n => g[s] \in N}
  <1>1. 0 \in M
    <2>1. \A s \in SUBSET S : Cardinality(s) = 0 => g[s] = 0
      BY DEF Shrinks, Sums
    <2>2. 0 \in N
      OBVIOUS
    <2> QED
      BY <2>1, <2>2
  <1>2. ASSUME NEW n \in Nat, n \in M
        PROVE  n + 1 \in M
    <2>1. ASSUME NEW s \in SUBSET S, Cardinality(s) = n + 1
          PROVE  g[s] \in N
      <3>1. /\ s # {} /\ Pick(s) \in s /\ s \ {Pick(s)} \in SUBSET S
            /\ Cardinality(s \ {Pick(s)}) = n
        BY <2>1 DEF Shrinks
      <3>2. f[Pick(s)] \in N /\ g[s \ {Pick(s)}] \in N
        BY <1>2, <3>1
      <3>3. g[s] = f[Pick(s)] + g[s \ {Pick(s)}]
        BY <3>1 DEF Sums
      <3> QED
        BY <3>2, <3>3
    <2> QED
      BY <2>1
  <1>3. \A n \in Nat : n \in M
    <2> HIDE DEF M
    <2> QED
      BY <1>1, <1>2, NatSetInduction
  <1> QED
    BY <1>3 DEF Shrinks

\* Any element may be taken first.
LEMMA SumsAny ==
    ASSUME NEW S, Shrinks(S), NEW f, NEW g, Sums(g, f, S), \A x \in S : f[x] \in Int
    PROVE  \A s \in SUBSET S : \A x \in s : g[s] = f[x] + g[s \ {x}]
  <1> DEFINE M == {n \in Nat : \A s \in SUBSET S :
                                  Cardinality(s) = n => \A x \in s : g[s] = f[x] + g[s \ {x}]}
  <1>0. \A s \in SUBSET S : g[s] \in Int
    BY SumsType
  <1>1. 0 \in M
    BY DEF Shrinks
  <1>2. ASSUME NEW n \in Nat, n \in M
        PROVE  n + 1 \in M
    <2>1. ASSUME NEW s \in SUBSET S, Cardinality(s) = n + 1, NEW x \in s
          PROVE  g[s] = f[x] + g[s \ {x}]
      <3> DEFINE p == Pick(s)
      <3>1. s # {} /\ p \in s
        BY DEF Shrinks
      <3>2. g[s] = f[p] + g[s \ {p}]
        BY <3>1 DEF Sums
      <3>3. CASE x = p
        BY <3>2, <3>3
      <3>4. CASE x # p
        <4> HIDE DEF p
        <4>1. /\ s \ {p} \in SUBSET S /\ Cardinality(s \ {p}) = n /\ x \in s \ {p}
              /\ s \ {x} \in SUBSET S /\ Cardinality(s \ {x}) = n /\ p \in s \ {x}
          BY <2>1, <3>1, <3>4 DEF Shrinks
        <4>2. g[s \ {p}] = f[x] + g[(s \ {p}) \ {x}]
          BY <1>2, <4>1
        <4>3. g[s \ {x}] = f[p] + g[(s \ {x}) \ {p}]
          BY <1>2, <4>1
        <4>4. (s \ {p}) \ {x} = (s \ {x}) \ {p} /\ (s \ {p}) \ {x} \in SUBSET S
          OBVIOUS
        <4> DEFINE rest == g[(s \ {p}) \ {x}]
        <4>5. f[x] \in Int /\ f[p] \in Int /\ rest \in Int
          BY <1>0, <3>1, <4>4
        <4>6. g[s] = f[p] + (f[x] + rest) /\ g[s \ {x}] = f[p] + rest
          BY <3>2, <4>2, <4>3, <4>4
        <4> HIDE DEF rest
        <4> QED
          BY <4>5, <4>6
      <3> QED
        BY <3>3, <3>4
    <2> QED
      BY <2>1
  <1>3. \A n \in Nat : n \in M
    <2> HIDE DEF M
    <2> QED
      BY <1>1, <1>2, NatSetInduction
  <1>4. ASSUME NEW s \in SUBSET S, NEW x \in s
        PROVE  g[s] = f[x] + g[s \ {x}]
    <2>1. Cardinality(s) \in M
      BY <1>3 DEF Shrinks
    <2> QED
      BY <2>1
  <1> QED
    BY <1>4

\* Only the values on the set count.
LEMMA SumsSame ==
    ASSUME NEW S, Shrinks(S), NEW f, NEW g, Sums(g, f, S),
           NEW T, S \subseteq T, NEW e, NEW h, Sums(h, e, T), \A x \in S : f[x] = e[x]
    PROVE  \A s \in SUBSET S : g[s] = h[s]
  <1> DEFINE M == {n \in Nat : \A s \in SUBSET S : Cardinality(s) = n => g[s] = h[s]}
  <1>1. 0 \in M
    BY DEF Shrinks, Sums
  <1>2. ASSUME NEW n \in Nat, n \in M
        PROVE  n + 1 \in M
    <2>1. ASSUME NEW s \in SUBSET S, Cardinality(s) = n + 1
          PROVE  g[s] = h[s]
      <3>1. /\ s # {} /\ Pick(s) \in s /\ s \ {Pick(s)} \in SUBSET S
            /\ Cardinality(s \ {Pick(s)}) = n
        BY <2>1 DEF Shrinks
      <3>2. g[s] = f[Pick(s)] + g[s \ {Pick(s)}]
        BY <3>1 DEF Sums
      <3>3. h[s] = e[Pick(s)] + h[s \ {Pick(s)}]
        BY <3>1 DEF Sums
      <3>4. f[Pick(s)] = e[Pick(s)]
        BY <3>1
      <3>5. g[s \ {Pick(s)}] = h[s \ {Pick(s)}]
        BY <1>2, <3>1
      <3> QED
        BY <3>2, <3>3, <3>4, <3>5
    <2> QED
      BY <2>1
  <1>3. \A n \in Nat : n \in M
    <2> HIDE DEF M
    <2> QED
      BY <1>1, <1>2, NatSetInduction
  <1> QED
    BY <1>3 DEF Shrinks

-----------------------------------------------------------------------------

\* The sum over no members,
LEMMA SumEmpty ==
    ASSUME NEW f
    PROVE  SumFunctionOnSet(f, {}) = 0
  BY FS_EmptySet, SumIs, SumFcnSums DEF Sums

\* of natural numbers, or of integers,
LEMMA SumType ==
    ASSUME NEW S, IsFiniteSet(S), NEW N \in {Nat, Int}, NEW f, \A x \in S : f[x] \in N
    PROVE  SumFunctionOnSet(f, S) \in N
  <1>1. Shrinks(S) /\ Sums(SumFcn(f, S), f, S)
    BY SubsetsShrink, SumFcnSums
  <1>2. SumFcn(f, S)[S] \in N
    BY <1>1, SumsType
  <1> QED
    BY <1>2, SumIs

\* and of functions that agree.
LEMMA SumSame ==
    ASSUME NEW S, IsFiniteSet(S), NEW f, NEW h, \A x \in S : f[x] = h[x]
    PROVE  SumFunctionOnSet(f, S) = SumFunctionOnSet(h, S)
  <1>1. Shrinks(S) /\ Sums(SumFcn(f, S), f, S) /\ Sums(SumFcn(h, S), h, S)
    BY SubsetsShrink, SumFcnSums
  <1>2. SumFcn(f, S)[S] = SumFcn(h, S)[S]
    BY <1>1, SumsSame
  <1> QED
    BY <1>2, SumIs

\* A sum is one of its terms and the sum of the others.
LEMMA SumTerm ==
    ASSUME NEW S, IsFiniteSet(S), NEW f, \A x \in S : f[x] \in Int, NEW x \in S
    PROVE  SumFunctionOnSet(f, S) = f[x] + SumFunctionOnSet(f, S \ {x})
  <1> DEFINE T == S \ {x}
  <1>0. IsFiniteSet(T)
    BY FS_RemoveElement
  <1>1. Shrinks(S) /\ Sums(SumFcn(f, S), f, S)
    BY SubsetsShrink, SumFcnSums
  <1>2. Shrinks(T) /\ Sums(SumFcn(f, T), f, T)
    BY <1>0, SubsetsShrink, SumFcnSums
  <1>3. SumFcn(f, S)[S] = f[x] + SumFcn(f, S)[T]
    BY <1>1, SumsAny
  <1>4. T \subseteq S
    OBVIOUS
  <1> HIDE DEF T
  <1> DEFINE g == SumFcn(f, T)
             h == SumFcn(f, S)
             e == f
  <1>5. Sums(g, f, T) /\ Sums(h, e, S) /\ \A y \in T : f[y] = e[y]
    BY <1>1, <1>2
  <1> HIDE DEF g, h, e
  <1>6. \A s \in SUBSET T : g[s] = h[s]
    BY <1>2, <1>4, <1>5, SumsSame
  <1>7. g[T] = h[T]
    BY <1>6
  <1> QED
    BY <1>3, <1>7, SumIs DEF T, g, h

\* A part of what is summed, when no value is negative, comes to no more than the whole.
LEMMA SumPart ==
    ASSUME NEW S, IsFiniteSet(S), NEW f, \A x \in S : f[x] \in Nat, NEW T \in SUBSET S
    PROVE  SumFunctionOnSet(f, T) <= SumFunctionOnSet(f, S)
  <1> DEFINE g == SumFcn(f, S)
             M == {n \in Nat : \A s \in SUBSET S : Cardinality(s) = n => \A t \in SUBSET s : g[t] <= g[s]}
  <1>1. Shrinks(S) /\ Sums(g, f, S)
    BY SubsetsShrink, SumFcnSums
  <1> HIDE DEF g
  <1>2. \A s \in SUBSET S : g[s] \in Nat
    BY <1>1, SumsType
  <1>3. \A s \in SUBSET S : \A x \in s : g[s] = f[x] + g[s \ {x}]
    <2>1. \A x \in S : f[x] \in Int
      OBVIOUS
    <2> HIDE DEF M
    <2>2. ASSUME NEW s \in SUBSET S, NEW x \in s
          PROVE  g[s] = f[x] + g[s \ {x}]
      BY <1>1, <2>1, SumsAny
    <2> QED
      BY <2>2
  <1>4. 0 \in M
    <2>1. ASSUME NEW s \in SUBSET S, Cardinality(s) = 0, NEW t \in SUBSET s
          PROVE  g[t] <= g[s]
      <3>1. s = {} /\ t = {}
        BY <1>1, <2>1 DEF Shrinks
      <3>2. t = s /\ g[s] \in Nat
        BY <1>2, <3>1
      <3> QED
        BY <3>2
    <2> QED
      BY <2>1
  <1>5. ASSUME NEW n \in Nat, n \in M
        PROVE  n + 1 \in M
    <2>1. ASSUME NEW s \in SUBSET S, Cardinality(s) = n + 1, NEW t \in SUBSET s
          PROVE  g[t] <= g[s]
      <3>1. CASE t = s
        BY <1>2, <3>1
      <3>2. CASE t # s
        <4>1. PICK x \in s : x \notin t
          BY <3>2
        <4>2. s \ {x} \in SUBSET S /\ Cardinality(s \ {x}) = n /\ t \in SUBSET (s \ {x}) /\ t \in SUBSET S
          BY <1>1, <2>1, <4>1 DEF Shrinks
        <4>3. g[t] <= g[s \ {x}]
          BY <1>5, <4>2
        <4>4. g[s] = f[x] + g[s \ {x}] /\ f[x] \in Nat
          BY <1>3
        <4>5. g[t] \in Nat /\ g[s \ {x}] \in Nat
          BY <1>2, <4>2
        <4> QED
          BY <4>3, <4>4, <4>5
      <3> QED
        BY <3>1, <3>2
    <2> QED
      BY <2>1
  <1>6. \A n \in Nat : n \in M
    <2> HIDE DEF M
    <2> QED
      BY <1>4, <1>5, NatSetInduction
  <1>7. g[T] <= g[S]
    <2>1. Cardinality(S) \in M
      BY <1>1, <1>6 DEF Shrinks
    <2> QED
      BY <2>1
  <1>8. g[T] = SumFcn(f, T)[T]
    <2>1. IsFiniteSet(T)
      BY FS_Subset
    <2> DEFINE d == SumFcn(f, T)
    <2>2. Shrinks(T) /\ Sums(d, f, T)
      BY <2>1, SubsetsShrink, SumFcnSums
    <2> HIDE DEF d
    <2> DEFINE e == f
    <2>3. Sums(g, e, S) /\ (\A x \in T : f[x] = e[x]) /\ T \subseteq S
      BY <1>1
    <2> HIDE DEF e
    <2>4. \A s \in SUBSET T : d[s] = g[s]
      BY <2>2, <2>3, SumsSame
    <2> QED
      BY <2>4 DEF d
  <1> QED
    BY <1>7, <1>8, SumIs DEF g

\* F lists the values of f at n different elements of S, those of T.
Places(S, f, n, q, F, T) ==
    /\ \A x \in S : f[x] \in Int
    /\ n \in Nat /\ q \in [1 .. n -> S] /\ \A j, k \in 1 .. n : q[j] = q[k] => j = k
    /\ \A k \in 1 .. n : F[k] = f[q[k]]
    /\ \A x : x \in T <=> \E k \in 1 .. n : q[k] = x

\* The values in a list add up to the sum over the elements they belong to.
LEMMA SumOfPlaces ==
    ASSUME NEW S, NEW f, NEW n, NEW q, NEW F, NEW T, Places(S, f, n, q, F, T)
    PROVE  IsFiniteSet(T) /\ SumFunctionOnSet(F, 1 .. n) = SumFunctionOnSet(f, T)
  <1> USE DEF Places
  <1> DEFINE Q(m) == {q[k] : k \in 1 .. m}
             M == {m \in Nat : m <= n => /\ IsFiniteSet(Q(m))
                                         /\ SumFunctionOnSet(F, 1 .. m) = SumFunctionOnSet(f, Q(m))}
  <1>1. 0 \in M
    <2>1. 1 .. 0 = {} /\ Q(0) = {}
      OBVIOUS
    <2>2. SumFunctionOnSet(F, 1 .. 0) = 0 /\ SumFunctionOnSet(f, Q(0)) = 0 /\ IsFiniteSet(Q(0))
      BY <2>1, SumEmpty, FS_EmptySet
    <2> QED
      BY <2>2
  <1>2. ASSUME NEW m \in Nat, m \in M
        PROVE  m + 1 \in M
    <2> HIDE DEF Q
    <2> SUFFICES ASSUME m + 1 <= n
                 PROVE  /\ IsFiniteSet(Q(m + 1))
                        /\ SumFunctionOnSet(F, 1 .. m + 1) = SumFunctionOnSet(f, Q(m + 1))
      OBVIOUS
    <2> USE DEF Q
    <2>1. IsFiniteSet(Q(m)) /\ SumFunctionOnSet(F, 1 .. m) = SumFunctionOnSet(f, Q(m))
      BY <1>2
    <2>2. /\ m + 1 \in 1 .. n /\ m + 1 \in 1 .. m + 1 /\ (1 .. m + 1) \ {m + 1} = 1 .. m
          /\ \A k \in 1 .. m + 1 : k \in 1 .. n
          /\ \A k \in 1 .. m + 1 : k = m + 1 \/ k \in 1 .. m
          /\ \A k \in 1 .. m : k \in 1 .. m + 1 /\ k # m + 1
      OBVIOUS
    <2>3. Q(m + 1) = Q(m) \cup {q[m + 1]} /\ q[m + 1] \notin Q(m) /\ Q(m + 1) \subseteq S /\ q[m + 1] \in S
      BY <2>2
    <2>4. Q(m + 1) \ {q[m + 1]} = Q(m) /\ q[m + 1] \in Q(m + 1)
      BY <2>3
    <2>5. F[m + 1] = f[q[m + 1]] /\ \A k \in 1 .. m + 1 : F[k] \in Int
      BY <2>2
    <2>6. IsFiniteSet(1 .. m + 1)
      BY FS_Interval
    <2> HIDE DEF Q
    <2>7. IsFiniteSet(Q(m + 1))
      BY <2>1, <2>3, FS_AddElement
    <2>8. SumFunctionOnSet(F, 1 .. m + 1) = F[m + 1] + SumFunctionOnSet(F, 1 .. m)
      <3> DEFINE I == 1 .. m + 1
      <3>1. IsFiniteSet(I) /\ m + 1 \in I /\ \A k \in I : F[k] \in Int
        BY <2>2, <2>5, <2>6
      <3> HIDE DEF I
      <3>2. SumFunctionOnSet(F, I) = F[m + 1] + SumFunctionOnSet(F, I \ {m + 1})
        BY <3>1, SumTerm
      <3> QED
        BY <2>2, <3>2 DEF I
    <2>9. SumFunctionOnSet(f, Q(m + 1)) = f[q[m + 1]] + SumFunctionOnSet(f, Q(m))
      <3>1. \A x \in Q(m + 1) : f[x] \in Int
        BY <2>3
      <3> QED
        BY <2>4, <2>7, <3>1, SumTerm
    <2> QED
      BY <2>1, <2>5, <2>7, <2>8, <2>9
  <1>3. \A m \in Nat : m \in M
    <2> HIDE DEF M
    <2> QED
      BY <1>1, <1>2, NatSetInduction
  <1>4. n \in M
    BY <1>3
  <1>5. T = Q(n)
    OBVIOUS
  <1> HIDE DEF Q
  <1> QED
    BY <1>4, <1>5

-----------------------------------------------------------------------------
(* A finite set can be sorted by any strict total order.                   *)

Orders(R, S) ==
    /\ \A x \in S : <<x, x>> \notin R
    /\ \A x, y \in S : x # y => <<x, y>> \in R \/ <<y, x>> \in R
    /\ \A x, y, z \in S : <<x, y>> \in R /\ <<y, z>> \in R => <<x, z>> \in R

\* An element's place is one more than the number of those before it.
LEMMA SortedExists ==
    ASSUME NEW S, IsFiniteSet(S), NEW R, Orders(R, S)
    PROVE  \E q \in [1 .. Cardinality(S) -> S] : \A j, k \in DOMAIN q : j < k => <<q[j], q[k]>> \in R
  <1> DEFINE n == Cardinality(S)
             P(x) == {y \in S : <<y, x>> \in R}
             r == [x \in S |-> Cardinality(P(x)) + 1]
  <1>1. ASSUME NEW x \in S
        PROVE  r[x] \in 1 .. n
    <2>1. P(x) \in SUBSET S /\ x \notin P(x)
      BY DEF Orders
    <2> HIDE DEF P
    <2>2. /\ IsFiniteSet(P(x)) /\ Cardinality(P(x)) <= n
          /\ (n = Cardinality(P(x)) => S = P(x))
      BY <2>1, FS_Subset
    <2>3. Cardinality(P(x)) \in Nat /\ n \in Nat
      BY <2>2, FS_CardinalityType
    <2>4. Cardinality(P(x)) # n
      BY <2>1, <2>2
    <2> QED
      BY <2>2, <2>3, <2>4
  <1>2. ASSUME NEW x \in S, NEW y \in S, <<x, y>> \in R
        PROVE  r[x] < r[y]
    <2>1. P(x) \in SUBSET P(y) /\ x \in P(y) /\ x \notin P(x) /\ P(y) \in SUBSET S
      BY <1>2 DEF Orders
    <2> HIDE DEF P
    <2>2. IsFiniteSet(P(y))
      BY <2>1, FS_Subset
    <2>3. /\ IsFiniteSet(P(x)) /\ Cardinality(P(x)) <= Cardinality(P(y))
          /\ (Cardinality(P(y)) = Cardinality(P(x)) => P(y) = P(x))
      BY <2>1, <2>2, FS_Subset
    <2>4. Cardinality(P(x)) \in Nat /\ Cardinality(P(y)) \in Nat
      BY <2>2, <2>3, FS_CardinalityType
    <2>5. Cardinality(P(x)) # Cardinality(P(y))
      BY <2>1, <2>3
    <2> QED
      BY <2>3, <2>4, <2>5
  <1>3. n \in Nat
    BY FS_CardinalityType
  <1>4. r \in [S -> 1 .. n]
    BY <1>1
  <1>5. IsFiniteSet(1 .. n) /\ Cardinality(1 .. n) = n
    BY <1>3, FS_Interval
  <1> HIDE DEF r, n
  <1>6. \A x, y \in S : r[x] = r[y] => x = y
    <2> SUFFICES ASSUME NEW x \in S, NEW y \in S, x # y PROVE r[x] # r[y]
      OBVIOUS
    <2>1. r[x] < r[y] \/ r[y] < r[x]
      BY <1>2 DEF Orders
    <2> QED
      BY <1>1, <2>1
  <1>7. r \in Injection(S, 1 .. n)
    BY <1>4, <1>6 DEF Injection, IsInjective
  <1>8. \A k \in 1 .. n : \E x \in S : r[x] = k
    <2>1. Cardinality(S) = Cardinality(1 .. n)
      BY <1>5 DEF n
    <2>2. r \in Surjection(S, 1 .. n)
      BY <1>5, <1>7, <2>1, FS_Injection
    <2> QED
      BY <2>2 DEF Surjection
  <1> DEFINE q == [k \in 1 .. n |-> CHOOSE x \in S : r[x] = k]
  <1>9. \A k \in 1 .. n : q[k] \in S /\ r[q[k]] = k
    BY <1>8
  <1>10. q \in [1 .. n -> S] /\ DOMAIN q = 1 .. n
    BY <1>9
  <1> HIDE DEF q
  <1>11. ASSUME NEW j \in 1 .. n, NEW k \in 1 .. n, j < k
         PROVE  <<q[j], q[k]>> \in R
    <2>1. q[j] \in S /\ q[k] \in S /\ r[q[j]] = j /\ r[q[k]] = k
      BY <1>9
    <2>2. q[j] # q[k] /\ ~(r[q[k]] < r[q[j]])
      BY <1>11, <2>1
    <2>3. <<q[k], q[j]>> \notin R
      BY <1>2, <2>1, <2>2
    <2> QED
      BY <2>1, <2>2, <2>3 DEF Orders
  <1>12. q \in [1 .. Cardinality(S) -> S]
    BY <1>10 DEF n
  <1> QED
    BY <1>10, <1>11, <1>12

\* What is sorted by an order is the whole set, and everything once.
LEMMA SortedIsAll ==
    ASSUME NEW S, IsFiniteSet(S), NEW q \in [1 .. Cardinality(S) -> S],
           \A j, k \in DOMAIN q : q[j] = q[k] => j = k
    PROVE  \A x \in S : \E k \in 1 .. Cardinality(S) : q[k] = x
  <1> DEFINE n == Cardinality(S)
  <1>1. n \in Nat
    BY FS_CardinalityType
  <1>2. Cardinality(1 .. n) = Cardinality(S)
    BY <1>1, FS_Interval
  <1>3. q \in Injection(1 .. n, S)
    BY DEF Injection, IsInjective
  <1> HIDE DEF n
  <1>4. q \in Surjection(1 .. n, S)
    BY <1>2, <1>3, FS_Injection
  <1> QED
    BY <1>4 DEF Surjection, n

=============================================================================
