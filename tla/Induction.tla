------------------------------ MODULE Induction ------------------------------
(***************************************************************************)
(* Induction in first-order form: the property that an induction is about  *)
(* is given as the set of the values that have it, and the step of a       *)
(* recursive definition as a function.                                     *)
(***************************************************************************)
EXTENDS Integers, FiniteSets, FiniteSetTheorems, WellFoundedInduction, TLAPS

\* Every nonempty set of naturals has a least element.
LEMMA LeastNatural ==
    ASSUME NEW T \in SUBSET Nat, T # {}
    PROVE  \E m \in T : \A k \in T : m <= k
<1>1. PICK m \in T : \A k \in T : ~(<<k, m>> \in OpToRel(<, Nat))
  BY WFMin, NatLessThanWellFounded
<1>2. ASSUME NEW k \in T PROVE m <= k
  <2>1. <<k, m>> \in Nat \X Nat
    OBVIOUS
  <2>2. ~(k < m)
    BY <1>1, <2>1 DEF OpToRel
  <2> QED
    BY <2>2
<1> QED
  BY <1>2

\* Induction up to n.
LEMMA UpTo ==
    ASSUME NEW n \in Nat, NEW P, 0 \in P, \A i \in 0..(n - 1) : i \in P => (i + 1) \in P
    PROVE  0..n \subseteq P
<1> DEFINE T == {i \in 0..n : i \notin P}
<1> SUFFICES ASSUME T # {} PROVE FALSE
  OBVIOUS
<1>0. T \in SUBSET Nat
  OBVIOUS
<1> HIDE DEF T
<1>1. PICK m \in T : \A k \in T : m <= k
  BY <1>0, LeastNatural
<1> USE DEF T
<1>2. m \in 0..n /\ m # 0 /\ m \notin P
  OBVIOUS
<1>3. m - 1 \in 0..(n - 1) /\ m - 1 \notin T
  BY <1>1, <1>2
<1>4. m - 1 \in P
  BY <1>3
<1>5. (m - 1) + 1 \in P
  BY <1>3, <1>4
<1>6. (m - 1) + 1 = m
  BY <1>2
<1> QED
  BY <1>2, <1>5, <1>6

\* The values f takes on 0..n in S start with init and follow step.
IsStep(step, n, S) == step \in [S \X (1..n) -> S]

Follows(f, n, S, init, step) ==
    /\ f \in [0..n -> S]
    /\ f[0] = init
    /\ \A i \in 1..n : f[i] = step[<<f[i - 1], i>>]

\* There is a function on 0..n for every first value and step function.
LEMMA Recursion ==
    ASSUME NEW n \in Nat, NEW S, NEW init \in S, NEW step, IsStep(step, n, S)
    PROVE  \E f : Follows(f, n, S, init, step)
<1> USE DEF IsStep
<1> DEFINE Starts(f, m) == /\ f \in [0..m -> S]
                           /\ f[0] = init
                           /\ \A i \in 1..m : f[i] = step[<<f[i - 1], i>>]
           P == {m \in 0..n : \E f : Starts(f, m)}
<1>1. 0 \in P
  <2> DEFINE f == [i \in 0..0 |-> init]
  <2>1. f \in [0..0 -> S] /\ f[0] = init /\ 1..0 = {} /\ 0 \in 0..n
    OBVIOUS
  <2>2. Starts(f, 0)
    BY <2>1
  <2> QED
    BY <2>1, <2>2
<1>2. ASSUME NEW m \in 0..(n - 1), m \in P PROVE m + 1 \in P
  <2>1. PICK f : Starts(f, m)
    BY <1>2
  <2> DEFINE g == [i \in 0..(m + 1) |-> IF i <= m THEN f[i] ELSE step[<<f[m], m + 1>>]]
  <2>2. f[m] \in S /\ m + 1 \in 1..n /\ m \in Nat
    BY <2>1
  <2>3. step[<<f[m], m + 1>>] \in S
    BY <2>2
  <2>4. g \in [0..(m + 1) -> S]
    BY <2>1, <2>2, <2>3
  <2>5. g[0] = init
    BY <2>1, <2>2
  <2>6. ASSUME NEW i \in 1..(m + 1) PROVE g[i] = step[<<g[i - 1], i>>]
    <3>1. CASE i <= m
      <4>1. i \in 1..m /\ i - 1 \in 0..m
        BY <2>2, <3>1
      <4>2. g[i] = f[i] /\ g[i - 1] = f[i - 1]
        BY <2>2, <4>1
      <4> QED
        BY <2>1, <4>1, <4>2
    <3>2. CASE i = m + 1
      <4>1. i \in 0..(m + 1) /\ ~(i <= m) /\ i - 1 = m /\ i - 1 \in 0..(m + 1) /\ i - 1 <= m
        BY <2>2, <3>2
      <4>2. g[i] = step[<<f[m], m + 1>>] /\ g[i - 1] = f[m]
        BY <4>1
      <4> QED
        BY <3>2, <4>2
    <3> QED
      BY <2>2, <3>1, <3>2
  <2> HIDE DEF g
  <2>7. Starts(g, m + 1)
    BY <2>4, <2>5, <2>6
  <2> QED
    BY <2>2, <2>7
<1> HIDE DEF P
<1>3. 0..n \subseteq P
  BY <1>1, <1>2, UpTo
<1>4. n \in P
  BY <1>3
<1> QED
  BY <1>4 DEF P, Follows

\* Two functions on 0..n start alike and stay alike.
Alike(f, g, n) ==
    /\ f = [i \in 0..n |-> f[i]]
    /\ g = [i \in 0..n |-> g[i]]
    /\ f[0] = g[0]
    /\ \A i \in 1..n : f[i - 1] = g[i - 1] => f[i] = g[i]

\* Such functions are equal.
LEMMA SameFunction ==
    ASSUME NEW n \in Nat, NEW f, NEW g, Alike(f, g, n)
    PROVE  f = g
<1> USE DEF Alike
<1> DEFINE P == {i \in 0..n : f[i] = g[i]}
<1>1. 0 \in P
  OBVIOUS
<1>2. ASSUME NEW i \in 0..(n - 1), i \in P PROVE i + 1 \in P
  <2>1. i + 1 \in 1..n /\ (i + 1) - 1 = i /\ i + 1 \in 0..n
    OBVIOUS
  <2> QED
    BY <1>2, <2>1
<1> HIDE DEF P
<1>3. 0..n \subseteq P
  BY <1>1, <1>2, UpTo
<1> QED
  BY <1>3 DEF P

\* A set of finite sets that holds the empty set, and with a set every larger one
\* of S by one element, holds S.
LEMMA SetInduction ==
    ASSUME NEW S, IsFiniteSet(S), NEW P, {} \in P,
           \A T \in SUBSET S : \A x \in S \ T : T \in P => T \cup {x} \in P
    PROVE  SUBSET S \subseteq P
<1> DEFINE Bad == {T \in SUBSET S : T \notin P}
<1> SUFFICES ASSUME Bad # {} PROVE FALSE
  OBVIOUS
<1>1. Bad \subseteq FiniteSubsetsOf(S)
  BY FS_Subset DEF FiniteSubsetsOf
<1>2. PICK T \in Bad : \A U \in Bad : ~(<<U, T>> \in StrictSubsetOrdering(S))
  BY <1>1, WFMin, FS_StrictSubsetOrderingWellFounded
<1>3. PICK x \in T : TRUE
  OBVIOUS
<1>4. T \ {x} \in SUBSET S /\ x \in S \ (T \ {x}) /\ (T \ {x}) \cup {x} = T
  OBVIOUS
<1>5. T \ {x} \in Bad
  BY <1>4
<1>6. <<T \ {x}, T>> \in StrictSubsetOrdering(S)
  BY <1>3, <1>4 DEF StrictSubsetOrdering
<1> QED
  BY <1>2, <1>5, <1>6

\* A set of finite sets that holds the empty set, and every subset of S of which it holds
\* all but one element, holds S.
LEMMA TakeInduction ==
    ASSUME NEW S, IsFiniteSet(S), NEW P, {} \in P,
           \A T \in SUBSET S : T # {} => \E x \in T : T \ {x} \in P => T \in P
    PROVE  SUBSET S \subseteq P
<1> DEFINE Bad == {T \in SUBSET S : T \notin P}
<1> SUFFICES ASSUME Bad # {} PROVE FALSE
  OBVIOUS
<1>1. Bad \subseteq FiniteSubsetsOf(S)
  BY FS_Subset DEF FiniteSubsetsOf
<1>2. PICK T \in Bad : \A U \in Bad : ~(<<U, T>> \in StrictSubsetOrdering(S))
  BY <1>1, WFMin, FS_StrictSubsetOrderingWellFounded
<1>3. PICK x \in T : T \ {x} \in P => T \in P
  OBVIOUS
<1>4. T \ {x} \in SUBSET S /\ T \ {x} \subseteq T /\ T \ {x} # T
  BY <1>3
<1>5. T \ {x} \in Bad
  BY <1>3, <1>4
<1>6. <<T \ {x}, T>> \in StrictSubsetOrdering(S)
  BY <1>4 DEF StrictSubsetOrdering
<1> QED
  BY <1>2, <1>5, <1>6

=============================================================================
