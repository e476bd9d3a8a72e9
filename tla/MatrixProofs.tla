---------------------------- MODULE MatrixProofs ----------------------------
(***************************************************************************)
(* Proofs about GF16 and Matrix for every width, irreducible polynomial,   *)
(* generator and size of registers: the field is a field, every kernel     *)
(* computes its products, and row operations are linear combinations.      *)
(***************************************************************************)
EXTENDS Matrix, Induction, SequenceTheorems

(***************************************************************************)
(* Sums                                                                    *)
(***************************************************************************)

\* Sums are associative and commutative, and everything is its own inverse.
LEMMA PlusAlgebra ==
    ASSUME NEW a, NEW b, NEW c
    PROVE  /\ Plus(a, b) = Plus(b, a)
           /\ Plus(Plus(a, b), c) = Plus(a, Plus(b, c))
           /\ Plus(a, a) = {}
           /\ Plus(a, {}) = a
           /\ Plus({}, a) = a
           /\ Plus(a, Plus(a, b)) = b
           /\ Plus(a, b) = {} => a = b
  BY DEF Plus

\* Sums stay in a set of words.
LEMMA PlusType ==
    ASSUME NEW S, NEW a \in SUBSET S, NEW b \in SUBSET S
    PROVE  Plus(a, b) \in SUBSET S
  BY DEF Plus

\* In particular sums of elements are elements.
LEMMA PlusElement ==
    ASSUME NEW a \in T, NEW b \in T
    PROVE  Plus(a, b) \in T
  BY PlusType DEF T

\* The parity of a symmetric difference.
LEMMA PlusParity ==
    ASSUME NEW A, NEW B, IsFiniteSet(A), IsFiniteSet(B)
    PROVE  /\ IsFiniteSet(Plus(A, B))
           /\ Cardinality(A) \in Nat /\ Cardinality(B) \in Nat /\ Cardinality(Plus(A, B)) \in Nat
           /\ Cardinality(Plus(A, B)) % 2 = 1 <=>
                 (Cardinality(A) % 2 = 1 /\ Cardinality(B) % 2 # 1)
                 \/ (Cardinality(A) % 2 # 1 /\ Cardinality(B) % 2 = 1)
  <1>1. IsFiniteSet(A \ B) /\ Cardinality(A \ B) = Cardinality(A) - Cardinality(A \cap B)
    BY FS_Difference
  <1>2. IsFiniteSet(B \ A) /\ Cardinality(B \ A) = Cardinality(B) - Cardinality(B \cap A)
    BY FS_Difference
  <1>3. IsFiniteSet(A \cap B) /\ B \cap A = A \cap B
    BY FS_Intersection
  <1>4. (A \ B) \cap (B \ A) = {} /\ Plus(A, B) = (A \ B) \cup (B \ A)
    BY DEF Plus
  <1>5. /\ IsFiniteSet(Plus(A, B))
        /\ Cardinality(Plus(A, B)) = Cardinality(A \ B) + Cardinality(B \ A) - Cardinality({})
    BY <1>1, <1>2, <1>4, FS_Union
  <1>6. /\ Cardinality(A) \in Nat /\ Cardinality(B) \in Nat /\ Cardinality(A \cap B) \in Nat
        /\ Cardinality({}) = 0 /\ Cardinality(Plus(A, B)) \in Nat
    BY <1>3, <1>5, FS_CardinalityType, FS_EmptySet
  <1>7. Cardinality(Plus(A, B)) = Cardinality(A) + Cardinality(B) - 2 * Cardinality(A \cap B)
    <2>1. Cardinality(B \ A) = Cardinality(B) - Cardinality(A \cap B)
      BY <1>2, <1>3
    <2>2. Cardinality(Plus(A, B))
            = (Cardinality(A) - Cardinality(A \cap B)) + (Cardinality(B) - Cardinality(A \cap B)) - 0
      BY <1>1, <1>5, <1>6, <2>1
    <2>. QED BY <1>6, <2>2
  <1>. QED BY <1>5, <1>6, <1>7

\* The sum is an element.
LEMMA SumType ==
    ASSUME NEW f, NEW S
    PROVE  Sum2(f, S) \in T
  BY DEF Sum2, T

\* The sum depends on the values alone.
LEMMA SumSame ==
    ASSUME NEW f, NEW h, NEW S, \A i \in S : f[i] = h[i]
    PROVE  Sum2(f, S) = Sum2(h, S)
  <1>1. \A b : {i \in S : b \in f[i]} = {i \in S : b \in h[i]}
    OBVIOUS
  <1>. QED BY <1>1 DEF Sum2

\* The sum of nothing is zero.
LEMMA SumEmpty ==
    ASSUME NEW f
    PROVE  Sum2(f, {}) = {}
  <1>1. \A b : {i \in {} : b \in f[i]} = {}
    OBVIOUS
  <1>2. Cardinality({}) = 0
    BY FS_EmptySet
  <1>. QED BY <1>1, <1>2 DEF Sum2

\* The sum of one element.
LEMMA SumOne ==
    ASSUME NEW f, NEW x, f[x] \in T
    PROVE  Sum2(f, {x}) = f[x]
  <1>1. \A b : {i \in {x} : b \in f[i]} = IF b \in f[x] THEN {x} ELSE {}
    OBVIOUS
  <1>2. Cardinality({}) = 0 /\ Cardinality({x}) = 1
    BY FS_EmptySet, FS_Singleton
  <1>3. \A b \in 0..Width - 1 : Cardinality({i \in {x} : b \in f[i]}) % 2 = 1 <=> b \in f[x]
    BY <1>1, <1>2
  <1>. QED BY <1>3 DEF Sum2, T

\* A sum over a symmetric difference is a sum of sums.
LEMMA SumOver ==
    ASSUME NEW f, NEW S, NEW R, IsFiniteSet(S), IsFiniteSet(R)
    PROVE  Sum2(f, Plus(S, R)) = Plus(Sum2(f, S), Sum2(f, R))
  <1>. DEFINE Has(U, b) == {i \in U : b \in f[i]}
  <1>1. ASSUME NEW b \in 0..Width - 1
        PROVE  b \in Sum2(f, Plus(S, R)) <=> b \in Plus(Sum2(f, S), Sum2(f, R))
    <2>1. Has(Plus(S, R), b) = Plus(Has(S, b), Has(R, b))
      BY DEF Plus
    <2>2. IsFiniteSet(Has(S, b)) /\ IsFiniteSet(Has(R, b))
      BY FS_Subset
    <2>3. \A U : b \in Sum2(f, U) <=> Cardinality(Has(U, b)) % 2 = 1
      BY <1>1 DEF Sum2
    <2>. HIDE DEF Has
    <2>4. Cardinality(Plus(Has(S, b), Has(R, b))) % 2 = 1 <=>
             (Cardinality(Has(S, b)) % 2 = 1 /\ Cardinality(Has(R, b)) % 2 # 1)
             \/ (Cardinality(Has(S, b)) % 2 # 1 /\ Cardinality(Has(R, b)) % 2 = 1)
      BY <2>2, PlusParity
    <2>5. b \in Sum2(f, Plus(S, R)) <=>
             (b \in Sum2(f, S) /\ b \notin Sum2(f, R)) \/ (b \notin Sum2(f, S) /\ b \in Sum2(f, R))
      BY <2>1, <2>3, <2>4
    <2>. QED BY <2>5 DEF Plus
  <1>2. Sum2(f, Plus(S, R)) \subseteq 0..Width - 1 /\ Plus(Sum2(f, S), Sum2(f, R)) \subseteq 0..Width - 1
    BY SumType, PlusType DEF T
  <1>. QED BY <1>1, <1>2

\* One more element adds its value.
LEMMA SumAdd ==
    ASSUME NEW f, NEW S, IsFiniteSet(S), NEW x, x \notin S, f[x] \in T
    PROVE  Sum2(f, S \cup {x}) = Plus(Sum2(f, S), f[x])
  <1>1. S \cup {x} = Plus(S, {x})
    BY DEF Plus
  <1>2. IsFiniteSet({x})
    BY FS_Singleton
  <1>. QED BY <1>1, <1>2, SumOver, SumOne

\* A sum of sums, term by term.
LEMMA SumPlus ==
    ASSUME NEW f, NEW h, NEW k, NEW S, IsFiniteSet(S),
           \A i \in S : k[i] = Plus(f[i], h[i])
    PROVE  Sum2(k, S) = Plus(Sum2(f, S), Sum2(h, S))
  <1>. DEFINE Has(d, b) == {i \in S : b \in d[i]}
  <1>1. ASSUME NEW b \in 0..Width - 1
        PROVE  b \in Sum2(k, S) <=> b \in Plus(Sum2(f, S), Sum2(h, S))
    <2>1. Has(k, b) = Plus(Has(f, b), Has(h, b))
      BY DEF Plus
    <2>2. IsFiniteSet(Has(f, b)) /\ IsFiniteSet(Has(h, b))
      BY FS_Subset
    <2>3. \A d : b \in Sum2(d, S) <=> Cardinality(Has(d, b)) % 2 = 1
      BY <1>1 DEF Sum2
    <2>. HIDE DEF Has
    <2>4. Cardinality(Plus(Has(f, b), Has(h, b))) % 2 = 1 <=>
             (Cardinality(Has(f, b)) % 2 = 1 /\ Cardinality(Has(h, b)) % 2 # 1)
             \/ (Cardinality(Has(f, b)) % 2 # 1 /\ Cardinality(Has(h, b)) % 2 = 1)
      BY <2>2, PlusParity
    <2>5. b \in Sum2(k, S) <=>
             (b \in Sum2(f, S) /\ b \notin Sum2(h, S)) \/ (b \notin Sum2(f, S) /\ b \in Sum2(h, S))
      BY <2>1, <2>3, <2>4
    <2>. QED BY <2>5 DEF Plus
  <1>2. Sum2(k, S) \subseteq 0..Width - 1 /\ Plus(Sum2(f, S), Sum2(h, S)) \subseteq 0..Width - 1
    BY SumType, PlusType DEF T
  <1>. QED BY <1>1, <1>2

\* A sum of zeros is zero.
LEMMA SumZero ==
    ASSUME NEW f, NEW S, \A i \in S : f[i] = {}
    PROVE  Sum2(f, S) = {}
  <1>1. \A b : {i \in S : b \in f[i]} = {}
    OBVIOUS
  <1>2. Cardinality({}) = 0
    BY FS_EmptySet
  <1>. QED BY <1>1, <1>2 DEF Sum2

\* A sum may be taken over other names of its terms.
Renamed(h, f, p, S) == \A i \in S : h[i] = f[p[i]]

LEMMA SumReindex ==
    ASSUME NEW S, NEW R, IsFiniteSet(S), NEW p \in Bijection(S, R), NEW f, NEW h,
           Renamed(h, f, p, S)
    PROVE  Sum2(h, S) = Sum2(f, R)
  <1>. USE DEF Renamed
  <1>1. ASSUME NEW b
        PROVE  Cardinality({i \in S : b \in h[i]}) = Cardinality({j \in R : b \in f[j]})
    <2>. DEFINE A == {i \in S : b \in h[i]}
                B == {j \in R : b \in f[j]}
                q == [i \in A |-> p[i]]
    <2>1. IsFiniteSet(A)
      BY FS_Subset
    <2>2. /\ p \in [S -> R]
          /\ \A x, y \in S : p[x] = p[y] => x = y
          /\ \A y \in R : \E x \in S : p[x] = y
      BY DEF Bijection, Injection, Surjection, IsInjective
    <2>3. q \in [A -> B] /\ \A x, y \in A : q[x] = q[y] => x = y
      BY <2>2
    <2>4. \A y \in B : \E x \in A : q[x] = y
      BY <2>2
    <2>5. q \in Bijection(A, B)
      BY <2>3, <2>4 DEF Bijection, Injection, Surjection, IsInjective
    <2>6. ExistsBijection(A, B)
      BY <2>5 DEF ExistsBijection
    <2>. QED BY <2>1, <2>6, FS_Bijection
  <1>. QED BY <1>1 DEF Sum2

\* What takes sums to sums takes any sum to the sum of the images.
Additive(L) ==
    /\ L \in [T -> T]
    /\ \A a, b \in T : L[Plus(a, b)] = Plus(L[a], L[b])

LEMMA AdditiveZero ==
    ASSUME NEW L, Additive(L)
    PROVE  {} \in T /\ L[{}] = {}
  <1>1. {} \in T /\ Plus({}, {}) = {}
    BY PlusAlgebra DEF T
  <1>2. L[{}] = Plus(L[{}], L[{}])
    BY <1>1 DEF Additive
  <1>. QED BY <1>1, <1>2, PlusAlgebra

Images(h, f, L, S) == \A i \in S : f[i] \in T /\ h[i] = L[f[i]]

LEMMA SumImage ==
    ASSUME NEW L, Additive(L), NEW S, IsFiniteSet(S), NEW f, NEW h, Images(h, f, L, S)
    PROVE  Sum2(h, S) = L[Sum2(f, S)]
  <1>. DEFINE P == {U \in SUBSET S : Sum2(h, U) = L[Sum2(f, U)]}
  <1>1. {} \in P
    BY SumEmpty, AdditiveZero
  <1>2. ASSUME NEW U \in SUBSET S, NEW x \in S \ U, U \in P PROVE U \cup {x} \in P
    <2>1. IsFiniteSet(U)
      BY FS_Subset
    <2>2. f[x] \in T /\ h[x] = L[f[x]] /\ h[x] \in T /\ x \notin U
      BY DEF Additive, Images
    <2>3. Sum2(f, U \cup {x}) = Plus(Sum2(f, U), f[x])
      BY <2>1, <2>2, SumAdd
    <2>4. Sum2(h, U \cup {x}) = Plus(Sum2(h, U), h[x])
      BY <2>1, <2>2, SumAdd
    <2>5. L[Plus(Sum2(f, U), f[x])] = Plus(L[Sum2(f, U)], L[f[x]])
      BY <2>2, SumType DEF Additive
    <2>. QED BY <1>2, <2>2, <2>3, <2>4, <2>5
  <1>. HIDE DEF P
  <1>3. SUBSET S \subseteq P
    BY <1>1, <1>2, SetInduction
  <1>4. S \in P
    BY <1>3
  <1>. QED BY <1>4 DEF P

\* The order of two sums may be exchanged.
LEMMA SumExchange ==
    ASSUME NEW S, NEW R, IsFiniteSet(S), IsFiniteSet(R),
           NEW F, \A i \in S, j \in R : F[<<i, j>>] \in T
    PROVE  Sum2([i \in S |-> Sum2([j \in R |-> F[<<i, j>>]], R)], S)
             = Sum2([j \in R |-> Sum2([i \in S |-> F[<<i, j>>]], S)], R)
  <1>. DEFINE row(i) == Sum2([j \in R |-> F[<<i, j>>]], R)
              col(U) == [j \in R |-> Sum2([i \in S |-> F[<<i, j>>]], U)]
              rows == [i \in S |-> row(i)]
              P == {U \in SUBSET S : Sum2(rows, U) = Sum2(col(U), R)}
  <1>1. {} \in P
    <2>1. \A j \in R : col({})[j] = {}
      BY SumEmpty
    <2>. QED BY <2>1, SumEmpty, SumZero
  <1>2. ASSUME NEW U \in SUBSET S, NEW x \in S \ U, U \in P PROVE U \cup {x} \in P
    <2>1. IsFiniteSet(U)
      BY FS_Subset
    <2>2. rows[x] = row(x) /\ rows[x] \in T
      BY SumType
    <2>3. Sum2(rows, U \cup {x}) = Plus(Sum2(rows, U), row(x))
      <3>. HIDE DEF rows, row
      <3>. QED BY <1>2, <2>1, <2>2, SumAdd
    <2>. DEFINE new == [k \in R |-> F[<<x, k>>]]
    <2>4. ASSUME NEW j \in R PROVE col(U \cup {x})[j] = Plus(col(U)[j], new[j])
      <3>. DEFINE c == [i \in S |-> F[<<i, j>>]]
      <3>1. c[x] = F[<<x, j>>] /\ c[x] \in T
        OBVIOUS
      <3>. HIDE DEF c
      <3>2. Sum2(c, U \cup {x}) = Plus(Sum2(c, U), c[x])
        BY <1>2, <2>1, <3>1, SumAdd
      <3>. QED BY <3>1, <3>2 DEF c
    <2>6. row(x) = Sum2(new, R)
      OBVIOUS
    <2>. DEFINE before == col(U)
                after == col(U \cup {x})
    <2>8. \A j \in R : after[j] = Plus(before[j], new[j])
      BY <2>4
    <2>. HIDE DEF col, rows, row, new
    <2>7. Sum2(after, R) = Plus(Sum2(before, R), Sum2(new, R))
      <3>. HIDE DEF before, after
      <3>. QED BY <2>8, SumPlus
    <2>5. Sum2(col(U \cup {x}), R) = Plus(Sum2(col(U), R), row(x))
      BY <2>6, <2>7
    <2>. QED BY <1>2, <2>3, <2>5
  <1>. HIDE DEF P
  <1>3. SUBSET S \subseteq P
    BY <1>1, <1>2, SetInduction
  <1>4. S \in P
    BY <1>3
  <1>. QED BY <1>4 DEF P

(***************************************************************************)
(* Shifts                                                                  *)
(***************************************************************************)

\* The widths of elements, bytes and nibbles.
LEMMA Widths ==
    /\ nibbleBits \in Nat \ {0} /\ byteBits = 2 * nibbleBits /\ Width = 4 * nibbleBits
    /\ byteBits \in Nat \ {0} /\ Width \in Nat /\ Width >= 4
    /\ IsFiniteSet(0..Width - 1)
  <1>1. Width \in Nat \ {0} /\ Width % 4 = 0
    BY FieldAssumption
  <1>2. Width - 1 \in Int
    BY <1>1
  <1>3. IsFiniteSet(0..Width - 1)
    BY <1>2, FS_Interval
  <1>. QED BY <1>1, <1>3 DEF nibbleBits, byteBits

\* The bits of a word that is shifted.
LEMMA LeftMember ==
    ASSUME NEW a \in SUBSET Int, NEW n \in Int
    PROVE  \A i : i \in ShiftLeft(a, n) <=> i \in Int /\ i - n \in a
  <1>1. ASSUME NEW i \in ShiftLeft(a, n) PROVE i \in Int /\ i - n \in a
    <2>1. PICK j \in a : i = j + n
      BY DEF ShiftLeft
    <2>. QED BY <2>1
  <1>2. ASSUME NEW i \in Int, i - n \in a PROVE i \in ShiftLeft(a, n)
    <2>1. i = (i - n) + n
      OBVIOUS
    <2>. QED BY <1>2, <2>1 DEF ShiftLeft
  <1>. QED BY <1>1, <1>2

LEMMA RightMember ==
    ASSUME NEW a \in SUBSET Int, NEW n \in Int
    PROVE  \A i : i \in ShiftRight(a, n) <=> i \in Nat /\ i + n \in a
  <1>1. ASSUME NEW i \in ShiftRight(a, n) PROVE i \in Nat /\ i + n \in a
    <2>1. PICK j \in a : j >= n /\ i = j - n
      BY DEF ShiftRight
    <2>. QED BY <2>1
  <1>2. ASSUME NEW i \in Nat, i + n \in a PROVE i \in ShiftRight(a, n)
    <2>1. i = (i + n) - n /\ i + n >= n
      OBVIOUS
    <2>. QED BY <1>2, <2>1 DEF ShiftRight
  <1>. QED BY <1>1, <1>2

\* A step of the multiplication: an element for an element, and additive.
LEMMA ShiftPolyFacts ==
    ASSUME NEW a \in T, NEW b \in T
    PROVE  /\ ShiftPoly(a) \in T
           /\ ShiftPoly(Plus(a, b)) = Plus(ShiftPoly(a), ShiftPoly(b))
           /\ multByTwo(a) = ShiftPoly(a)
  <1>. DEFINE last(c) == IF Width - 1 \in c THEN Polynomial ELSE {}
  <1>0. /\ Width \in Nat /\ Width >= 4 /\ Polynomial \in SUBSET (0..Width) /\ Width \in Polynomial
        /\ a \in SUBSET Int /\ b \in SUBSET Int /\ Plus(a, b) \in SUBSET Int /\ Plus(a, b) \in T
    BY Widths, FieldAssumption DEF T, Plus
  <1>1. \A c \in SUBSET Int : \A i : i \in ShiftLeft(c, 1) <=> i \in Int /\ i - 1 \in c
    BY LeftMember
  <1>2. \A c : ShiftPoly(c) = Plus(ShiftLeft(c, 1), last(c))
    BY PlusAlgebra DEF ShiftPoly
  <1>3. ASSUME NEW c \in T PROVE ShiftPoly(c) \in T
    <2>0. c \in SUBSET Int /\ c \subseteq 0..Width - 1
      BY DEF T
    <2>1. ASSUME NEW i \in ShiftPoly(c) PROVE i \in 0..Width - 1
      <3>1. i \in ShiftLeft(c, 1) \/ i \in last(c)
        BY <1>2 DEF Plus
      <3>2. i \in 0..Width
        <4>1. CASE i \in ShiftLeft(c, 1)
          <5>1. i \in Int /\ i - 1 \in c
            BY <1>1, <2>0, <4>1
          <5>2. i - 1 \in 0..Width - 1
            BY <2>0, <5>1
          <5>. QED BY <1>0, <5>1, <5>2
        <4>2. CASE i \in last(c)
          BY <1>0, <4>2
        <4>. QED BY <3>1, <4>1, <4>2
      <3>3. i # Width
        <4>1. Width \in ShiftLeft(c, 1) <=> Width - 1 \in c
          BY <1>0, <1>1, <2>0
        <4>2. Width \in last(c) <=> Width - 1 \in c
          BY <1>0
        <4>. QED BY <1>2, <4>1, <4>2 DEF Plus
      <3>. QED BY <1>0, <3>2, <3>3
    <2>. QED BY <2>1 DEF T
  <1>4. ShiftLeft(Plus(a, b), 1) = Plus(ShiftLeft(a, 1), ShiftLeft(b, 1))
    BY <1>0, <1>1 DEF Plus
  <1>5. last(Plus(a, b)) = Plus(last(a), last(b))
    BY DEF Plus
  <1>6. multByTwo(a) = ShiftPoly(a)
    <2>1. \A i : i \in ShiftLeft(a \ {Width - 1}, 1) <=> i \in Int /\ i - 1 \in a /\ i # Width
      BY <1>0, LeftMember
    <2>2. CASE Width - 1 \in a
      <3>1. multByTwo(a) = Plus(ShiftLeft(a \ {Width - 1}, 1), Polynomial \ {Width})
        BY <2>2 DEF multByTwo
      <3>2. ShiftPoly(a) = Plus(ShiftLeft(a, 1), Polynomial)
        BY <2>2 DEF ShiftPoly
      <3>3. Width \in ShiftLeft(a, 1) /\ ShiftLeft(a \ {Width - 1}, 1) = ShiftLeft(a, 1) \ {Width}
        BY <1>0, <1>1, <2>1, <2>2
      <3>. QED BY <1>0, <3>1, <3>2, <3>3 DEF Plus
    <2>3. CASE Width - 1 \notin a
      <3>1. a \ {Width - 1} = a
        BY <2>3
      <3>. QED BY <2>3, <3>1, PlusAlgebra DEF multByTwo, ShiftPoly
    <2>. QED BY <2>2, <2>3
  <1>. HIDE DEF last
  <1>7. Plus(Plus(ShiftLeft(a, 1), ShiftLeft(b, 1)), Plus(last(a), last(b)))
          = Plus(Plus(ShiftLeft(a, 1), last(a)), Plus(ShiftLeft(b, 1), last(b)))
    BY DEF Plus
  <1>. QED BY <1>2, <1>3, <1>4, <1>5, <1>6, <1>7

(***************************************************************************)
(* The product by shifting and adding                                      *)
(***************************************************************************)

\* The elements that timesPoly adds up.
Shifts(f, t) ==
    /\ f \in [0..Width -> T]
    /\ f[0] = t
    /\ \A i \in 1..Width : f[i] = ShiftPoly(f[i - 1])

\* A recursive definition by a step that keeps elements has one solution.
LEMMA ShiftsExist ==
    ASSUME NEW t \in T
    PROVE  \E f : /\ Shifts(f, t)
                  /\ \A h : h = [n \in 0..Width |-> IF n = 0 THEN t ELSE ShiftPoly(h[n - 1])] <=> h = f
  <1>. DEFINE step == [x \in T \X (1..Width) |-> ShiftPoly(x[1])]
              Eq(h) == h = [n \in 0..Width |-> IF n = 0 THEN t ELSE ShiftPoly(h[n - 1])]
  <1>1. Width \in Nat
    BY Widths
  <1>2. IsStep(step, Width, T)
    BY ShiftPolyFacts DEF IsStep
  <1>3. \A v \in T : \A i \in 1..Width : step[<<v, i>>] = ShiftPoly(v)
    OBVIOUS
  <1>. HIDE DEF step
  <1>4. PICK f : Follows(f, Width, T, t, step)
    BY <1>1, <1>2, Recursion
  <1>5. Shifts(f, t)
    <2>1. f \in [0..Width -> T] /\ f[0] = t
      BY <1>4 DEF Follows
    <2>2. ASSUME NEW i \in 1..Width PROVE f[i] = ShiftPoly(f[i - 1])
      <3>1. f[i - 1] \in T
        BY <1>1, <2>1
      <3>. QED BY <1>3, <1>4, <3>1 DEF Follows
    <2>. QED BY <2>1, <2>2 DEF Shifts
  <1>6. Eq(f)
    BY <1>1, <1>5 DEF Shifts
  <1>7. ASSUME NEW h, Eq(h) PROVE h = f
    <2>1. h = [i \in 0..Width |-> h[i]] /\ h[0] = t
      BY <1>1, <1>7
    <2>2. \A i \in 1..Width : h[i] = ShiftPoly(h[i - 1])
      BY <1>1, <1>7
    <2>3. f = [i \in 0..Width |-> f[i]] /\ f[0] = t
      BY <1>5 DEF Shifts
    <2>4. \A i \in 1..Width : f[i - 1] = h[i - 1] => f[i] = h[i]
      BY <1>5, <2>2 DEF Shifts
    <2>5. Alike(f, h, Width)
      BY <2>1, <2>3, <2>4 DEF Alike
    <2>. QED BY <1>1, <2>5, SameFunction
  <1>. HIDE DEF Eq
  <1>8. \A h : Eq(h) <=> h = f
    BY <1>6, <1>7
  <1>. QED BY <1>5, <1>8 DEF Eq

\* The product adds the shifts at the bits of the other factor.
LEMMA PolyShifts ==
    ASSUME NEW t \in T
    PROVE  \E f : Shifts(f, t) /\ \A u : timesPoly(t, u) = Sum2(f, u)
  <1>. DEFINE Eq(h) == h = [n \in 0..Width |-> IF n = 0 THEN t ELSE ShiftPoly(h[n - 1])]
  <1>1. PICK f : Shifts(f, t) /\ \A h : Eq(h) <=> h = f
    BY ShiftsExist
  <1>2. \A u : timesPoly(t, u) = Sum2(CHOOSE h : Eq(h), u)
    BY DEF timesPoly
  <1>. HIDE DEF Eq
  <1>3. (CHOOSE h : Eq(h)) = f
    BY <1>1
  <1>. QED BY <1>1, <1>2, <1>3

\* Two lists of shifts that start alike stay alike.
LEMMA ShiftsSame ==
    ASSUME NEW t \in T, NEW f, NEW h, Shifts(f, t), Shifts(h, t)
    PROVE  f = h
  <1>1. Width \in Nat
    BY Widths
  <1>2. Alike(f, h, Width)
    BY DEF Alike, Shifts
  <1>. QED BY <1>1, <1>2, SameFunction

\* The bits of an element are finitely many.
LEMMA BitsFinite ==
    ASSUME NEW u \in T
    PROVE  IsFiniteSet(u)
  BY Widths, FS_Subset DEF T

\* Products are elements, and additive in both factors.
LEMMA PolyType ==
    ASSUME NEW t \in T, NEW u \in T
    PROVE  timesPoly(t, u) \in T
  <1>1. PICK f : Shifts(f, t) /\ \A x : timesPoly(t, x) = Sum2(f, x)
    BY PolyShifts
  <1>. QED BY <1>1, SumType

LEMMA PolyPlusRight ==
    ASSUME NEW t \in T, NEW u \in T, NEW v \in T
    PROVE  timesPoly(t, Plus(u, v)) = Plus(timesPoly(t, u), timesPoly(t, v))
  <1>1. PICK f : Shifts(f, t) /\ \A x : timesPoly(t, x) = Sum2(f, x)
    BY PolyShifts
  <1>2. IsFiniteSet(u) /\ IsFiniteSet(v)
    BY BitsFinite
  <1>. QED BY <1>1, <1>2, SumOver

LEMMA PolyPlusLeft ==
    ASSUME NEW t \in T, NEW u \in T, NEW v \in T
    PROVE  timesPoly(Plus(t, u), v) = Plus(timesPoly(t, v), timesPoly(u, v))
  <1>0. Plus(t, u) \in T /\ Width \in Nat
    BY PlusType, Widths DEF T
  <1>1. PICK f : Shifts(f, t) /\ \A x : timesPoly(t, x) = Sum2(f, x)
    BY PolyShifts
  <1>2. PICK h : Shifts(h, u) /\ \A x : timesPoly(u, x) = Sum2(h, x)
    BY PolyShifts
  <1>3. PICK k : Shifts(k, Plus(t, u)) /\ \A x : timesPoly(Plus(t, u), x) = Sum2(k, x)
    BY <1>0, PolyShifts
  <1>. DEFINE P == {i \in 0..Width : k[i] = Plus(f[i], h[i])}
  <1>4. 0 \in P
    BY <1>0, <1>1, <1>2, <1>3 DEF Shifts
  <1>5. ASSUME NEW i \in 0..(Width - 1), i \in P PROVE i + 1 \in P
    <2>1. i + 1 \in 1..Width /\ (i + 1) - 1 = i /\ i + 1 \in 0..Width /\ i \in 0..Width
      BY <1>0
    <2>2. f[i] \in T /\ h[i] \in T
      BY <1>1, <1>2, <2>1 DEF Shifts
    <2>3. f[i + 1] = ShiftPoly(f[i]) /\ h[i + 1] = ShiftPoly(h[i]) /\ k[i + 1] = ShiftPoly(Plus(f[i], h[i]))
      BY <1>1, <1>2, <1>3, <1>5, <2>1 DEF Shifts
    <2>. QED BY <2>1, <2>2, <2>3, ShiftPolyFacts
  <1>. HIDE DEF P
  <1>6. 0..Width \subseteq P
    BY <1>0, <1>4, <1>5, UpTo
  <1>7. \A i \in v : k[i] = Plus(f[i], h[i])
    BY <1>0, <1>6 DEF P, T
  <1>8. IsFiniteSet(v)
    BY BitsFinite
  <1>. QED BY <1>1, <1>2, <1>3, <1>7, <1>8, SumPlus

\* The product with zero.
LEMMA PolyZero ==
    ASSUME NEW t \in T
    PROVE  /\ zero \in T
           /\ timesPoly(t, zero) = zero /\ timesPoly(zero, t) = zero
  <1>1. {} \in T /\ Plus({}, {}) = {}
    BY PlusAlgebra DEF T
  <1>2. timesPoly(t, {}) = Plus(timesPoly(t, {}), timesPoly(t, {}))
    BY <1>1, PolyPlusRight
  <1>3. timesPoly({}, t) = Plus(timesPoly({}, t), timesPoly({}, t))
    BY <1>1, PolyPlusLeft
  <1>. QED BY <1>1, <1>2, <1>3, PlusAlgebra DEF zero

\* A shift of a factor shifts the product.
LEMMA PolyShiftLeft ==
    ASSUME NEW t \in T, NEW u \in T
    PROVE  timesPoly(ShiftPoly(t), u) = ShiftPoly(timesPoly(t, u))
  <1>0. ShiftPoly(t) \in T /\ Width \in Nat
    BY ShiftPolyFacts, Widths
  <1>1. PICK f : Shifts(f, t) /\ \A x : timesPoly(t, x) = Sum2(f, x)
    BY PolyShifts
  <1>2. PICK h : Shifts(h, ShiftPoly(t)) /\ \A x : timesPoly(ShiftPoly(t), x) = Sum2(h, x)
    BY <1>0, PolyShifts
  <1>. DEFINE P == {i \in 0..Width : h[i] = ShiftPoly(f[i])}
  <1>3. 0 \in P
    BY <1>0, <1>1, <1>2 DEF Shifts
  <1>4. ASSUME NEW i \in 0..(Width - 1), i \in P PROVE i + 1 \in P
    <2>1. i + 1 \in 1..Width /\ (i + 1) - 1 = i /\ i + 1 \in 0..Width /\ i \in 0..Width
      BY <1>0
    <2>2. f[i + 1] = ShiftPoly(f[i]) /\ h[i + 1] = ShiftPoly(h[i])
      BY <1>1, <1>2, <2>1 DEF Shifts
    <2>. QED BY <1>4, <2>1, <2>2
  <1>. HIDE DEF P
  <1>5. 0..Width \subseteq P
    BY <1>0, <1>3, <1>4, UpTo
  <1>. DEFINE L == [x \in T |-> ShiftPoly(x)]
  <1>6. Additive(L)
    BY ShiftPolyFacts, PlusType DEF Additive, T
  <1>7. \A i \in u : f[i] \in T /\ h[i] = L[f[i]]
    BY <1>0, <1>1, <1>5 DEF P, T, Shifts
  <1>8. IsFiniteSet(u)
    BY BitsFinite
  <1>9. L[Sum2(f, u)] = ShiftPoly(Sum2(f, u))
    BY SumType
  <1>. HIDE DEF L
  <1>10. Sum2(h, u) = L[Sum2(f, u)]
    BY <1>6, <1>7, <1>8, SumImage DEF Images
  <1>. QED BY <1>1, <1>2, <1>9, <1>10

\* The element with one bit, and the product with it.
LEMMA PolyBit ==
    ASSUME NEW t \in T
    PROVE  /\ timesPoly(t, {0}) = t
           /\ \A i \in 0..(Width - 2) :
                 timesPoly(t, {i + 1}) = ShiftPoly(timesPoly(t, {i}))
  <1>0. Width \in Nat /\ Width >= 4
    BY Widths
  <1>1. PICK f : Shifts(f, t) /\ \A x : timesPoly(t, x) = Sum2(f, x)
    BY PolyShifts
  <1>2. ASSUME NEW i \in 0..Width PROVE timesPoly(t, {i}) = f[i]
    BY <1>1, SumOne DEF Shifts
  <1>3. timesPoly(t, {0}) = t
    BY <1>0, <1>1, <1>2 DEF Shifts
  <1>4. ASSUME NEW i \in 0..(Width - 2)
        PROVE  timesPoly(t, {i + 1}) = ShiftPoly(timesPoly(t, {i}))
    <2>1. i \in 0..Width /\ i + 1 \in 1..Width /\ i + 1 \in 0..Width /\ (i + 1) - 1 = i
      BY <1>0
    <2>2. f[i + 1] = ShiftPoly(f[i])
      BY <1>1, <2>1 DEF Shifts
    <2>. QED BY <1>2, <2>1, <2>2
  <1>. QED BY <1>3, <1>4

\* Shifting the element of one bit.
LEMMA ShiftBit ==
    ASSUME NEW i \in 0..(Width - 2)
    PROVE  {i} \in T /\ {i + 1} \in T /\ ShiftPoly({i}) = {i + 1}
  <1>0. Width \in Nat /\ Width >= 4
    BY Widths
  <1>1. {i} \in T /\ {i + 1} \in T /\ Width - 1 # i
    BY <1>0 DEF T
  <1>2. ShiftLeft({i}, 1) = {i + 1}
    BY DEF ShiftLeft
  <1>. QED BY <1>1, <1>2 DEF ShiftPoly

\* What holds of zero and of one, of the next bit with a bit and of sums, holds of
\* every element.
LEMMA Spanned ==
    ASSUME NEW P, {} \in P, {0} \in P,
           \A i \in 0..(Width - 2) : {i} \in P => {i + 1} \in P,
           \A u, v \in P : Plus(u, v) \in P
    PROVE  T \subseteq P
  <1>0. Width \in Nat /\ Width >= 4 /\ Width - 1 \in Nat /\ IsFiniteSet(0..Width - 1)
    BY Widths
  <1>. DEFINE Q == {i \in 0..Width - 1 : {i} \in P}
  <1>1. 0 \in Q
    BY <1>0
  <1>2. ASSUME NEW i \in 0..((Width - 1) - 1), i \in Q PROVE i + 1 \in Q
    BY <1>0, <1>2
  <1>. HIDE DEF Q
  <1>3. 0..Width - 1 \subseteq Q
    BY <1>0, <1>1, <1>2, UpTo
  <1>4. \A i \in 0..Width - 1 : {i} \in P
    BY <1>3 DEF Q
  <1>. DEFINE S == 0..Width - 1
  <1>5. ASSUME NEW U \in SUBSET S, NEW x \in S \ U, U \in P
        PROVE  U \cup {x} \in P
    <2>1. U \cup {x} = Plus(U, {x})
      BY DEF Plus
    <2>. QED BY <1>4, <1>5, <2>1
  <1>7. IsFiniteSet(S)
    BY <1>0
  <1>6. SUBSET S \subseteq P
    <2>. HIDE DEF S
    <2>. QED BY <1>5, <1>7, SetInduction
  <1>. QED BY <1>6 DEF T

\* One is the unit.
LEMMA PolyOne ==
    ASSUME NEW u \in T
    PROVE  /\ one \in T /\ one # zero
           /\ timesPoly(u, one) = u /\ timesPoly(one, u) = u
  <1>0. Width \in Nat /\ Width >= 4 /\ {0} \in T
    BY Widths DEF T
  <1>1. PICK f : Shifts(f, {0}) /\ \A x : timesPoly({0}, x) = Sum2(f, x)
    BY <1>0, PolyShifts
  <1>. DEFINE P == {i \in 0..Width - 1 : f[i] = {i}}
  <1>2. 0 \in P
    BY <1>0, <1>1 DEF Shifts
  <1>3. ASSUME NEW i \in 0..((Width - 1) - 1), i \in P PROVE i + 1 \in P
    <2>1. i + 1 \in 1..Width /\ (i + 1) - 1 = i /\ i + 1 \in 0..Width - 1 /\ i \in 0..(Width - 2)
      BY <1>0
    <2>2. f[i + 1] = ShiftPoly(f[i]) /\ f[i] = {i}
      BY <1>1, <1>3, <2>1 DEF Shifts
    <2>. QED BY <2>1, <2>2, ShiftBit
  <1>. HIDE DEF P
  <1>4. 0..Width - 1 \subseteq P
    BY <1>0, <1>2, <1>3, UpTo
  <1>5. \A i \in 0..Width - 1 : f[i] = {i}
    BY <1>4 DEF P
  <1>6. u \subseteq 0..Width - 1
    BY DEF T
  <1>8. Cardinality({}) = 0 /\ \A b : Cardinality({b}) = 1
    BY FS_EmptySet, FS_Singleton
  <1>9. ASSUME NEW b \in 0..Width - 1
        PROVE  Cardinality({i \in u : b \in f[i]}) % 2 = 1 <=> b \in u
    <2>1. \A i \in u : b \in f[i] <=> i = b
      BY <1>5, <1>6
    <2>2. CASE b \in u
      <3>1. {i \in u : b \in f[i]} = {b}
        BY <2>1, <2>2
      <3>2. Cardinality({i \in u : b \in f[i]}) = 1
        BY <1>8, <3>1
      <3>. QED BY <2>2, <3>2
    <2>3. CASE b \notin u
      <3>1. {i \in u : b \in f[i]} = {}
        BY <2>1, <2>3
      <3>2. Cardinality({i \in u : b \in f[i]}) = 0
        BY <1>8, <3>1
      <3>. QED BY <2>3, <3>2
    <2>. QED BY <2>2, <2>3
  <1>10. Sum2(f, u) = u
    BY <1>6, <1>9 DEF Sum2
  <1>11. timesPoly(u, {0}) = u
    BY PolyBit
  <1>. QED BY <1>0, <1>1, <1>10, <1>11 DEF one, zero

\* The product is commutative.
LEMMA PolyCommutes ==
    ASSUME NEW t \in T, NEW u \in T
    PROVE  timesPoly(t, u) = timesPoly(u, t)
  <1>. DEFINE P == {v \in T : timesPoly(t, v) = timesPoly(v, t)}
  <1>1. {} \in P
    BY PolyZero DEF zero
  <1>2. {0} \in P
    BY PolyOne DEF one
  <1>3. ASSUME NEW i \in 0..(Width - 2), {i} \in P PROVE {i + 1} \in P
    <2>1. {i} \in T /\ {i + 1} \in T /\ ShiftPoly({i}) = {i + 1}
      BY ShiftBit
    <2>2. timesPoly(t, {i + 1}) = ShiftPoly(timesPoly(t, {i}))
      BY PolyBit
    <2>3. timesPoly(ShiftPoly({i}), t) = ShiftPoly(timesPoly({i}, t))
      BY <2>1, PolyShiftLeft
    <2>. QED BY <1>3, <2>1, <2>2, <2>3
  <1>4. ASSUME NEW v \in P, NEW w \in P PROVE Plus(v, w) \in P
    <2>1. Plus(v, w) \in T
      BY PlusType DEF T
    <2>2. timesPoly(t, Plus(v, w)) = Plus(timesPoly(t, v), timesPoly(t, w))
      BY PolyPlusRight
    <2>3. timesPoly(Plus(v, w), t) = Plus(timesPoly(v, t), timesPoly(w, t))
      BY PolyPlusLeft
    <2>. QED BY <2>1, <2>2, <2>3
  <1>. HIDE DEF P
  <1>5. T \subseteq P
    BY <1>1, <1>2, <1>3, <1>4, Spanned
  <1>. QED BY <1>5 DEF P

\* The product is associative.
LEMMA PolyAssociates ==
    ASSUME NEW t \in T, NEW u \in T, NEW w \in T
    PROVE  timesPoly(timesPoly(t, u), w) = timesPoly(t, timesPoly(u, w))
  <1>. DEFINE P == {v \in T : timesPoly(timesPoly(t, u), v) = timesPoly(t, timesPoly(u, v))}
  <1>0. timesPoly(t, u) \in T
    BY PolyType
  <1>1. {} \in P
    BY <1>0, PolyZero DEF zero
  <1>2. {0} \in P
    BY <1>0, PolyOne DEF one
  <1>3. ASSUME NEW i \in 0..(Width - 2), {i} \in P PROVE {i + 1} \in P
    <2>1. {i} \in T /\ {i + 1} \in T
      BY ShiftBit
    <2>2. timesPoly(timesPoly(t, u), {i + 1}) = ShiftPoly(timesPoly(timesPoly(t, u), {i}))
      BY <1>0, PolyBit
    <2>. DEFINE x == timesPoly(u, {i})
    <2>3. x \in T /\ timesPoly(u, {i + 1}) = ShiftPoly(x) /\ ShiftPoly(x) \in T
      BY <2>1, PolyType, PolyBit, ShiftPolyFacts
    <2>4. timesPoly(timesPoly(t, u), {i}) = timesPoly(t, x)
      BY <1>3
    <2>. HIDE DEF x
    <2>5. timesPoly(t, ShiftPoly(x)) = timesPoly(ShiftPoly(x), t)
      BY <2>3, PolyCommutes
    <2>6. timesPoly(ShiftPoly(x), t) = ShiftPoly(timesPoly(x, t))
      BY <2>3, PolyShiftLeft
    <2>7. timesPoly(x, t) = timesPoly(t, x)
      BY <2>3, PolyCommutes
    <2>. QED BY <2>1, <2>2, <2>3, <2>4, <2>5, <2>6, <2>7
  <1>4. ASSUME NEW v \in P, NEW y \in P PROVE Plus(v, y) \in P
    <2>1. Plus(v, y) \in T
      BY PlusType DEF T
    <2>2. timesPoly(timesPoly(t, u), Plus(v, y))
            = Plus(timesPoly(timesPoly(t, u), v), timesPoly(timesPoly(t, u), y))
      BY <1>0, PolyPlusRight
    <2>3. timesPoly(u, Plus(v, y)) = Plus(timesPoly(u, v), timesPoly(u, y))
      BY PolyPlusRight
    <2>4. timesPoly(u, v) \in T /\ timesPoly(u, y) \in T
      BY PolyType
    <2>5. timesPoly(t, Plus(timesPoly(u, v), timesPoly(u, y)))
            = Plus(timesPoly(t, timesPoly(u, v)), timesPoly(t, timesPoly(u, y)))
      BY <2>4, PolyPlusRight
    <2>. QED BY <2>1, <2>2, <2>3, <2>5
  <1>. HIDE DEF P
  <1>5. T \subseteq P
    BY <1>1, <1>2, <1>3, <1>4, Spanned
  <1>. QED BY <1>5 DEF P

(***************************************************************************)
(* Powers and logarithms                                                   *)
(***************************************************************************)

\* The remainder is what is left of a multiple.
LEMMA RemainderIs ==
    ASSUME NEW m \in Nat \ {0}, NEW q \in Int, NEW r \in 0..m - 1
    PROVE  (m * q + r) % m = r
  <1>. DEFINE x == m * q + r
              d == x \div m
              e == x % m
  <1>1. x \in Int /\ d \in Int /\ e \in 0..m - 1 /\ x = m * d + e
    OBVIOUS
  <1>2. m * (d - q) = r - e
    BY <1>1
  <1>. HIDE DEF x, d, e
  <1>3. CASE d - q >= 1
    <2>1. m * (d - q) >= m
      BY <1>1, <1>3
    <2>. QED BY <1>1, <1>2, <2>1
  <1>4. CASE d - q <= -1
    <2>1. m * (d - q) <= -m
      BY <1>1, <1>4
    <2>. QED BY <1>1, <1>2, <2>1
  <1>5. CASE d = q
    BY <1>1, <1>2, <1>5 DEF e, x
  <1>. QED BY <1>1, <1>3, <1>4, <1>5

\* A number is its quotient and its remainder.
LEMMA Remainder ==
    ASSUME NEW m \in Nat \ {0}, NEW x \in Nat
    PROVE  x \div m \in Int /\ x % m \in 0..m - 1 /\ x = m * (x \div m) + (x % m)
  OBVIOUS

\* A remainder may be taken before an addition.
LEMMA RemainderPlus ==
    ASSUME NEW m \in Nat \ {0}, NEW x \in Nat, NEW y \in Nat
    PROVE  ((x % m) + y) % m = (x + y) % m
  <1>. DEFINE r == x % m
              q == x \div m
              e == (r + y) % m
              d == (r + y) \div m
  <1>1. q \in Int /\ r \in 0..m - 1 /\ x = m * q + r
    BY Remainder
  <1>2. r + y \in Nat
    BY <1>1
  <1>. HIDE DEF r, q
  <1>3. d \in Int /\ e \in 0..m - 1 /\ r + y = m * d + e
    BY <1>2, Remainder
  <1>. HIDE DEF d, e
  <1>4. x + y = m * (q + d) + e
    BY <1>1, <1>3
  <1>. DEFINE k == q + d
  <1>5. k \in Int
    BY <1>1, <1>3
  <1>. HIDE DEF k
  <1>6. (m * k + e) % m = e
    BY <1>3, <1>5, RemainderIs
  <1>. QED BY <1>4, <1>6 DEF e, r, k

\* The number of elements.
LEMMA OrderFacts ==
    /\ order \in Nat /\ order >= 3
    /\ IsFiniteSet(T) /\ Cardinality(T) = order
  <1>1. IsFiniteSet(0..Width - 1) /\ Cardinality(0..Width - 1) = Width
    <2>1. Width \in Nat /\ Width >= 4 /\ Width - 1 \in Int
      BY Widths
    <2>2. IsFiniteSet(0..Width - 1)
          /\ Cardinality(0..Width - 1) = IF 0 > Width - 1 THEN 0 ELSE (Width - 1) - 0 + 1
      BY <2>1, FS_Interval
    <2>. QED BY <2>1, <2>2
  <1>2. IsFiniteSet(T) /\ Cardinality(T) = order
    <2>. DEFINE S == 0..Width - 1
    <2>1. IsFiniteSet(S) /\ Cardinality(S) = Width
      BY <1>1
    <2>2. T = SUBSET S
      BY DEF T
    <2>. HIDE DEF S
    <2>3. IsFiniteSet(SUBSET S) /\ Cardinality(SUBSET S) = 2^Cardinality(S)
      BY <2>1, FS_SUBSET
    <2>. QED BY <2>1, <2>2, <2>3 DEF order
  <1>3. order \in Nat
    BY <1>2, FS_CardinalityType
  <1>4. order >= 3
    <2>. DEFINE b == {0}
                c == {1}
    <2>1. {{}, b, c} \in SUBSET T /\ b # {} /\ c # {} /\ b # c
      BY Widths DEF T
    <2>. HIDE DEF b, c
    <2>2. Cardinality({{}, b, c}) <= order
      BY <1>2, <2>1, FS_Subset
    <2>3. Cardinality({{}}) = 1 /\ IsFiniteSet({{}}) /\ b \notin {{}} /\ c \notin {{}} \cup {b}
      BY <2>1, FS_Singleton
    <2>4. Cardinality({{}} \cup {b}) = 1 + 1 /\ IsFiniteSet({{}} \cup {b})
      BY <2>3, FS_AddElement
    <2>5. Cardinality(({{}} \cup {b}) \cup {c}) = (1 + 1) + 1
      BY <2>3, <2>4, FS_AddElement
    <2>6. ({{}} \cup {b}) \cup {c} = {{}, b, c}
      OBVIOUS
    <2>7. Cardinality({{}, b, c}) = 3
      BY <2>5, <2>6
    <2>. QED BY <1>3, <2>2, <2>7
  <1>. QED BY <1>2, <1>3, <1>4

\* A table is the function it is filled with.
LEMMA TableIs == \A f : Table(f) = f
  BY DEF Table

\* The table of powers: what init fills it with.
LEMMA ExpRuns ==
    /\ expTable \in [0..order - 2 -> T]
    /\ expTable[0] = one
    /\ \A p \in 1..order - 2 : expTable[p] = timesPoly(expTable[p - 1], g)
  <1>. DEFINE n == order - 2
              step == [x \in T \X (1..n) |-> timesPoly(x[1], g)]
              Eq(h) == h = [p \in 0..n |-> IF p = 0 THEN one ELSE timesPoly(h[p - 1], g)]
  <1>0. n \in Nat /\ g \in T /\ one \in T
    BY OrderFacts, FieldAssumption, PolyOne
  <1>1. expTable = CHOOSE h : Eq(h)
    BY TableIs DEF expTable
  <1>. HIDE DEF n
  <1>2. IsStep(step, n, T)
    BY <1>0, PolyType DEF IsStep
  <1>3. \A v \in T : \A i \in 1..n : step[<<v, i>>] = timesPoly(v, g)
    OBVIOUS
  <1>. HIDE DEF step
  <1>4. PICK f : Follows(f, n, T, one, step)
    BY <1>0, <1>2, Recursion
  <1>5. f \in [0..n -> T] /\ f[0] = one
    BY <1>4 DEF Follows
  <1>6. ASSUME NEW i \in 1..n PROVE f[i] = timesPoly(f[i - 1], g)
    <2>1. f[i - 1] \in T
      BY <1>0, <1>5
    <2>. QED BY <1>3, <1>4, <2>1 DEF Follows
  <1>7. Eq(f)
    BY <1>0, <1>5, <1>6
  <1>8. ASSUME NEW h, Eq(h) PROVE h = f
    <2>1. h = [i \in 0..n |-> h[i]] /\ h[0] = one
      BY <1>0, <1>8
    <2>2. \A i \in 1..n : h[i] = timesPoly(h[i - 1], g)
      BY <1>0, <1>8
    <2>3. f = [i \in 0..n |-> f[i]] /\ \A i \in 1..n : f[i - 1] = h[i - 1] => f[i] = h[i]
      BY <1>5, <1>6, <2>2
    <2>4. Alike(f, h, n)
      BY <1>5, <2>1, <2>3 DEF Alike
    <2>. QED BY <1>0, <2>4, SameFunction
  <1>. HIDE DEF Eq
  <1>9. expTable = f
    BY <1>1, <1>7, <1>8
  <1>. QED BY <1>5, <1>6, <1>9 DEF n

\* The powers of the generator are the elements but zero, each of them once.
LEMMA ExpOnce ==
    /\ order - 2 \in Nat \ {0} /\ order - 1 \in Nat \ {0}
    /\ expTable \in [0..order - 2 -> T \ {zero}]
    /\ \A x \in T \ {zero} : \E p \in 0..order - 2 : expTable[p] = x
    /\ \A p, q \in 0..order - 2 : expTable[p] = expTable[q] => p = q
  <1>. DEFINE S == 0..order - 2
              R == T \ {zero}
  <1>0. order - 2 \in Nat \ {0} /\ order - 1 \in Nat \ {0} /\ zero \in T
    <2>1. zero \in T
      BY DEF T, zero
    <2>. QED BY <2>1, OrderFacts
  <1>1. {expTable[p] : p \in S} = R
    BY FieldAssumption
  <1>2. expTable \in [S -> R] /\ \A x \in R : \E p \in S : expTable[p] = x
    BY <1>1, ExpRuns
  <1>3. IsFiniteSet(S) /\ Cardinality(S) = order - 1
    <2>1. IsFiniteSet(S) /\ Cardinality(S) = IF 0 > order - 2 THEN 0 ELSE (order - 2) - 0 + 1
      BY <1>0, FS_Interval
    <2>. QED BY <1>0, <2>1, OrderFacts
  <1>4. Cardinality(R) = order - 1
    BY <1>0, OrderFacts, FS_RemoveElement
  <1>. HIDE DEF S, R
  <1>5. expTable \in Surjection(S, R)
    BY <1>2 DEF Surjection
  <1>6. expTable \in Injection(S, R)
    BY <1>3, <1>4, <1>5, FS_SurjSameCardinalityImpliesInj
  <1>7. \A p, q \in S : expTable[p] = expTable[q] => p = q
    BY <1>6 DEF Injection, IsInjective
  <1>. QED BY <1>0, <1>2, <1>7 DEF S, R

\* Every element but zero has a logarithm.
LEMMA LogFacts ==
    ASSUME NEW x \in T, x # zero
    PROVE  logTable[x] \in 0..order - 2 /\ expTable[logTable[x]] = x
  <1>1. \E p \in 0..order - 2 : expTable[p] = x
    BY ExpOnce
  <1>2. logTable[x] = CHOOSE p \in 0..order - 2 : expTable[p] = x
    BY TableIs DEF logTable
  <1>. QED BY <1>1, <1>2

\* After the last power comes the first one: init ends with x = 1.
LEMMA ExpWraps == timesPoly(expTable[order - 2], g) = one
  <1>. DEFINE n == order - 2
              E == expTable
  <1>0. /\ n \in Nat \ {0} /\ g \in T /\ one \in T /\ zero \in T /\ one # zero
        /\ \A p \in 0..n : E[p] \in T /\ E[p] # zero
    BY ExpOnce, FieldAssumption, PolyOne, PolyZero
  <1>1. /\ E[0] = one /\ \A p \in 1..n : E[p] = timesPoly(E[p - 1], g)
        /\ \A p, q \in 0..n : E[p] = E[q] => p = q
        /\ \A x \in T : x # zero => \E p \in 0..n : E[p] = x
    BY ExpRuns, ExpOnce
  <1>. HIDE DEF n, E
  <1>2. E[1] = g /\ 1 \in 0..n /\ 0 \in 0..n
    <2>1. E[1] = timesPoly(E[1 - 1], g) /\ 1 - 1 = 0
      BY <1>0, <1>1
    <2>. QED BY <1>0, <1>1, <2>1, PolyOne
  <1>3. g # zero /\ g # one
    BY <1>0, <1>1, <1>2
  <1>4. PICK h \in T : timesPoly(h, g) = one
    <2>1. Plus(g, one) \in T /\ Plus(g, one) # zero
      BY <1>0, <1>3, PlusType, PlusAlgebra DEF T, zero
    <2>2. PICK k \in 0..n : E[k] = Plus(g, one)
      BY <1>1, <2>1
    <2>3. k # 0
      <3>1. SUFFICES ASSUME Plus(g, one) = one PROVE FALSE
        BY <1>1, <2>2
      <3>2. Plus(one, Plus(g, one)) = g /\ Plus(one, one) = {}
        BY PlusAlgebra
      <3>. QED BY <1>3, <3>1, <3>2 DEF zero
    <2>4. k \in 1..n /\ k - 1 \in 0..n
      BY <1>0, <2>2, <2>3
    <2>5. E[k - 1] \in T /\ Plus(g, one) = timesPoly(E[k - 1], g)
      BY <1>0, <1>1, <2>2, <2>4
    <2>6. timesPoly(Plus(one, E[k - 1]), g) = Plus(timesPoly(one, g), timesPoly(E[k - 1], g))
      BY <1>0, <2>5, PolyPlusLeft
    <2>7. Plus(g, Plus(g, one)) = one /\ timesPoly(one, g) = g
      BY <1>0, PlusAlgebra, PolyOne
    <2>8. Plus(one, E[k - 1]) \in T
      BY <1>0, <2>5, PlusElement
    <2>. QED BY <2>5, <2>6, <2>7, <2>8
  <1>5. \A x \in T : timesPoly(timesPoly(x, g), h) = x
    <2>1. timesPoly(g, h) = one
      BY <1>0, <1>4, PolyCommutes
    <2>. QED BY <1>0, <2>1, PolyAssociates, PolyOne
  <1>. DEFINE y == timesPoly(E[n], g)
  <1>6. y \in T /\ n \in 0..n
    BY <1>0, PolyType
  <1>7. y # zero
    <2>1. timesPoly(y, h) = E[n]
      BY <1>0, <1>5, <1>6
    <2>2. timesPoly(zero, h) = zero
      BY <1>4, PolyZero
    <2>. QED BY <1>0, <1>6, <2>1, <2>2
  <1>8. PICK q \in 0..n : E[q] = y
    BY <1>1, <1>6, <1>7
  <1>9. q = 0
    <2>1. SUFFICES ASSUME q # 0 PROVE FALSE
      OBVIOUS
    <2>2. q \in 1..n /\ q - 1 \in 0..n /\ q - 1 # n
      BY <1>0, <1>8, <2>1
    <2>3. timesPoly(E[q - 1], g) = timesPoly(E[n], g)
      BY <1>1, <1>8, <2>2
    <2>4. E[q - 1] = E[n]
      BY <1>0, <1>5, <1>6, <2>2, <2>3
    <2>. QED BY <1>1, <1>6, <2>2, <2>4
  <1>. QED BY <1>1, <1>8, <1>9 DEF n, E

\* Powers multiply by adding their exponents.
LEMMA ExpPlus ==
    ASSUME NEW a \in 0..order - 2, NEW c \in 0..order - 2
    PROVE  /\ (a + c) % (order - 1) \in 0..order - 2
           /\ timesPoly(expTable[a], expTable[c]) = expTable[(a + c) % (order - 1)]
  <1>. DEFINE n == order - 2
              m == order - 1
              E == expTable
              P == {b \in 0..n : timesPoly(E[a], E[b]) = E[(a + b) % m]}
  <1>0. /\ n \in Nat \ {0} /\ m \in Nat \ {0} /\ m - 1 = n /\ g \in T /\ a \in 0..n /\ a \in Nat
        /\ \A p \in 0..n : E[p] \in T
    BY ExpOnce, FieldAssumption, OrderFacts
  <1>1. /\ E[0] = one /\ \A p \in 1..n : E[p] = timesPoly(E[p - 1], g)
        /\ timesPoly(E[n], g) = one
    BY ExpRuns, ExpWraps
  <1>. HIDE DEF n, m, E
  <1>2. ASSUME NEW x \in Nat PROVE x % m \in 0..n
    BY <1>0, Remainder
  <1>3. ASSUME NEW x \in 0..n PROVE x % m = x
    <2>1. (m * 0 + x) % m = x
      BY <1>0, RemainderIs
    <2>. QED BY <1>0, <2>1
  <1>4. ASSUME NEW x \in 0..n PROVE timesPoly(E[x], g) = E[(x + 1) % m]
    <2>1. CASE x = n
      <3>1. (m * 1 + 0) % m = 0
        BY <1>0, RemainderIs
      <3>2. x + 1 = m * 1 + 0
        BY <1>0, <2>1
      <3>. QED BY <1>1, <2>1, <3>1, <3>2
    <2>2. CASE x # n
      <3>1. x + 1 \in 1..n /\ x + 1 \in 0..n /\ (x + 1) - 1 = x
        BY <1>0, <2>2
      <3>. QED BY <1>1, <1>3, <3>1
    <2>. QED BY <2>1, <2>2
  <1>5. 0 \in P
    <2>1. timesPoly(E[a], E[0]) = E[a] /\ (a + 0) % m = a /\ 0 \in 0..n
      BY <1>0, <1>1, <1>3, PolyOne
    <2>. QED BY <2>1
  <1>6. ASSUME NEW b \in 0..(n - 1), b \in P PROVE b + 1 \in P
    <2>1. b \in 0..n /\ b + 1 \in 1..n /\ b + 1 \in 0..n /\ (b + 1) - 1 = b /\ b \in Nat
      BY <1>0
    <2>2. E[b + 1] = timesPoly(E[b], g)
      BY <1>1, <2>1
    <2>3. timesPoly(E[a], timesPoly(E[b], g)) = timesPoly(timesPoly(E[a], E[b]), g)
      BY <1>0, <2>1, PolyAssociates
    <2>. DEFINE x == (a + b) % m
    <2>4. x \in 0..n /\ timesPoly(E[a], E[b]) = E[x]
      BY <1>0, <1>2, <1>6, <2>1
    <2>5. timesPoly(E[x], g) = E[(x + 1) % m]
      BY <1>4, <2>4
    <2>6. (x + 1) % m = ((a + b) + 1) % m
      BY <1>0, <2>1, RemainderPlus
    <2>7. (a + b) + 1 = a + (b + 1)
      BY <1>0, <2>1
    <2>. QED BY <2>1, <2>2, <2>3, <2>4, <2>5, <2>6, <2>7
  <1>. HIDE DEF P
  <1>7. 0..n \subseteq P
    BY <1>0, <1>5, <1>6, UpTo
  <1>8. c \in P /\ c \in Nat
    BY <1>0, <1>7 DEF n
  <1>9. (a + c) % m \in 0..n
    BY <1>0, <1>2, <1>8
  <1>. QED BY <1>8, <1>9 DEF P, n, m, E

\* The product of the tables is the product of the field.
THEOREM TimesIsProduct ==
    ASSUME NEW t \in T, NEW u \in T
    PROVE  Times(t, u) = timesPoly(t, u)
  <1>1. CASE t = zero \/ u = zero
    BY <1>1, PolyZero DEF Times
  <1>2. CASE t # zero /\ u # zero
    <2>1. /\ logTable[t] \in 0..order - 2 /\ expTable[logTable[t]] = t
          /\ logTable[u] \in 0..order - 2 /\ expTable[logTable[u]] = u
      BY <1>2, LogFacts
    <2>2. timesPoly(expTable[logTable[t]], expTable[logTable[u]])
            = expTable[(logTable[t] + logTable[u]) % (order - 1)]
      BY <2>1, ExpPlus
    <2>. QED BY <1>2, <2>1, <2>2 DEF Times
  <1>. QED BY <1>1, <1>2

\* A product is zero only if a factor is.
LEMMA NoZeroDivisors ==
    ASSUME NEW t \in T, NEW u \in T, timesPoly(t, u) = zero
    PROVE  t = zero \/ u = zero
  <1>1. SUFFICES ASSUME t # zero, u # zero PROVE FALSE
    OBVIOUS
  <1>2. /\ logTable[t] \in 0..order - 2 /\ expTable[logTable[t]] = t
        /\ logTable[u] \in 0..order - 2 /\ expTable[logTable[u]] = u
    BY <1>1, LogFacts
  <1>. DEFINE p == (logTable[t] + logTable[u]) % (order - 1)
  <1>3. p \in 0..order - 2 /\ timesPoly(expTable[logTable[t]], expTable[logTable[u]]) = expTable[p]
    BY <1>2, ExpPlus
  <1>4. expTable[p] # zero
    BY <1>3, ExpOnce
  <1>. QED BY <1>2, <1>3, <1>4

\* Inverses and quotients.
LEMMA InverseFacts ==
    ASSUME NEW u \in T, u # zero
    PROVE  /\ InverseOf(u) \in T /\ InverseOf(u) # zero
           /\ timesPoly(InverseOf(u), u) = one
           /\ \A t \in T : Div(t, u) \in T /\ timesPoly(Div(t, u), u) = t
  <1>. DEFINE m == order - 1
              l == logTable[u]
              E == expTable
  <1>0. /\ m \in Nat \ {0} /\ order - 2 = m - 1 /\ l \in 0..m - 1 /\ E[l] = u /\ E[0] = one
        /\ \A p \in 0..m - 1 : E[p] \in T /\ E[p] # zero
        /\ \A a, c \in 0..m - 1 : timesPoly(E[a], E[c]) = E[(a + c) % m]
    <2>1. m \in Nat \ {0} /\ order - 2 = m - 1
      BY ExpOnce, OrderFacts
    <2>. QED BY <2>1, LogFacts, ExpOnce, ExpRuns, ExpPlus
  <1>. HIDE DEF m, l, E
  <1>1. ASSUME NEW x \in Nat
        PROVE  x % m \in 0..m - 1 /\ timesPoly(E[x % m], u) = E[(x + l) % m]
    <2>1. x % m \in 0..m - 1
      BY <1>0, Remainder
    <2>2. timesPoly(E[x % m], E[l]) = E[((x % m) + l) % m]
      BY <1>0, <2>1
    <2>4. l \in Nat
      BY <1>0
    <2>3. ((x % m) + l) % m = (x + l) % m
      BY <1>0, <2>4, RemainderPlus
    <2>. QED BY <1>0, <2>1, <2>2, <2>3
  <1>2. ASSUME NEW p \in 0..m - 1 PROVE (p + m) % m = p
    <2>1. PICK q \in Int : q = 1
      OBVIOUS
    <2>2. (m * q + p) % m = p
      BY <1>0, RemainderIs
    <2>3. m * q + p = p + m
      BY <1>0, <2>1
    <2>. QED BY <2>2, <2>3
  <1>3. /\ InverseOf(u) \in T /\ InverseOf(u) # zero
        /\ timesPoly(InverseOf(u), u) = one
    <2>1. m - l \in Nat /\ (m - l) + l = 0 + m /\ 0 \in 0..m - 1
      BY <1>0
    <2>2. (m - l) % m \in 0..m - 1 /\ timesPoly(E[(m - l) % m], u) = E[(0 + m) % m]
      BY <1>1, <2>1
    <2>3. InverseOf(u) = E[(m - l) % m]
      BY DEF InverseOf, m, l, E
    <2>. QED BY <1>0, <1>2, <2>1, <2>2, <2>3
  <1>4. ASSUME NEW t \in T PROVE Div(t, u) \in T /\ timesPoly(Div(t, u), u) = t
    <2>1. CASE t = zero
      BY <2>1, PolyZero DEF Div
    <2>2. CASE t # zero
      <3>. DEFINE k == logTable[t]
      <3>1. k \in 0..m - 1 /\ E[k] = t
        BY <1>0, <2>2, LogFacts DEF E
      <3>2. Div(t, u) = E[(k - l + m) % m]
        <4>1. \A a, b \in Int : a - b + order - 1 = a - b + (order - 1)
          BY OrderFacts
        <4>. QED BY <1>0, <2>2, <3>1, <4>1 DEF Div, m, l, E
      <3>. HIDE DEF k
      <3>3. k - l + m \in Nat /\ (k - l + m) + l = k + m
        BY <1>0, <3>1
      <3>4. /\ (k - l + m) % m \in 0..m - 1
            /\ timesPoly(E[(k - l + m) % m], u) = E[(k + m) % m]
        BY <1>1, <3>3
      <3>. QED BY <1>0, <1>2, <3>1, <3>2, <3>4
    <2>. QED BY <2>1, <2>2
  <1>. QED BY <1>3, <1>4

\* Powers.
LEMMA PowFacts ==
    ASSUME NEW t \in T, NEW p \in Nat
    PROVE  /\ Pow(t, p) \in T
           /\ Pow(t, 0) = one
           /\ Pow(t, p + 1) = timesPoly(Pow(t, p), t)
  <1>. DEFINE m == order - 1
              l == logTable[t]
              E == expTable
  <1>0. zero \in T /\ one \in T
    BY PolyZero, PolyOne
  <1>1. CASE t = zero
    <2>1. p + 1 # 0
      OBVIOUS
    <2>2. timesPoly(Pow(t, p), zero) = zero
      BY <1>0, <1>1, PolyZero DEF Pow
    <2>. QED BY <1>0, <1>1, <2>1, <2>2 DEF Pow
  <1>2. CASE t # zero
    <2>0. /\ m \in Nat \ {0} /\ order - 2 = m - 1 /\ l \in 0..m - 1 /\ E[l] = t /\ E[0] = one
          /\ \A q \in 0..m - 1 : E[q] \in T
          /\ \A a, c \in 0..m - 1 : timesPoly(E[a], E[c]) = E[(a + c) % m]
      <3>1. m \in Nat \ {0} /\ order - 2 = m - 1
        BY ExpOnce, OrderFacts
      <3>. QED BY <1>2, <3>1, LogFacts, ExpOnce, ExpRuns, ExpPlus
    <2>1. \A q \in Nat : Pow(t, q) = E[(l * q) % m]
      BY <1>2 DEF Pow
    <2>. HIDE DEF m, l, E
    <2>2. l * p \in Nat /\ l * (p + 1) = l * p + l /\ l * 0 = 0
      BY <2>0
    <2>3. (l * p) % m \in 0..m - 1
      BY <2>0, <2>2, Remainder
    <2>4. (((l * p) % m) + l) % m = (l * p + l) % m
      <3>1. l \in Nat
        BY <2>0
      <3>. DEFINE x == l * p
      <3>2. x \in Nat
        BY <2>2
      <3>. HIDE DEF x
      <3>3. ((x % m) + l) % m = (x + l) % m
        BY <2>0, <3>1, <3>2, RemainderPlus
      <3>. QED BY <3>3 DEF x
    <2>5. 0 % m = 0
      <3>1. (m * 0 + 0) % m = 0
        BY <2>0, RemainderIs
      <3>. QED BY <2>0, <3>1
    <2>6. Pow(t, 0) = one
      BY <2>0, <2>1, <2>2, <2>5
    <2>7. Pow(t, p + 1) = E[(((l * p) % m) + l) % m]
      BY <2>1, <2>2, <2>4
    <2>8. Pow(t, p) = E[(l * p) % m]
      BY <2>1
    <2>9. timesPoly(E[(l * p) % m], E[l]) = E[(((l * p) % m) + l) % m]
      BY <2>0, <2>3
    <2>. QED BY <2>0, <2>3, <2>6, <2>7, <2>8, <2>9
  <1>. QED BY <1>1, <1>2

(***************************************************************************)
(* Bytes and nibbles                                                       *)
(***************************************************************************)

\* The bits of the bytes of an element, and of the element of two bytes.
LEMMA ByteMember ==
    ASSUME NEW t \in T
    PROVE  /\ \A i : i \in ByteOf(t, 0) <=> i \in 0..byteBits - 1 /\ i \in t
           /\ \A i : i \in ByteOf(t, 1) <=> i \in Nat /\ i + byteBits \in t
           /\ \A h \in {0, 1} : ByteOf(t, h) \in Byte
  <1>0. t \in SUBSET Int /\ byteBits \in Nat /\ Width = 2 * byteBits /\ t \in SUBSET (0..Width - 1)
    BY Widths DEF T
  <1>1. \A i : i \in ByteOf(t, 0) <=> i \in 0..byteBits - 1 /\ i \in t
    BY DEF ByteOf
  <1>2. \A i : i \in ShiftRight(t, byteBits) <=> i \in Nat /\ i + byteBits \in t
    BY <1>0, RightMember
  <1>3. \A i : i \in ByteOf(t, 1) <=> i \in Nat /\ i + byteBits \in t
    BY <1>2 DEF ByteOf
  <1>4. ASSUME NEW i \in ByteOf(t, 1) PROVE i \in 0..byteBits - 1
    <2>1. i \in Nat /\ i + byteBits \in 0..Width - 1
      BY <1>0, <1>3
    <2>. QED BY <1>0, <2>1
  <1>5. ByteOf(t, 0) \in Byte /\ ByteOf(t, 1) \in Byte
    BY <1>1, <1>4 DEF Byte
  <1>. QED BY <1>1, <1>3, <1>5

LEMMA FromBytesMember ==
    ASSUME NEW low \in Byte, NEW high \in Byte
    PROVE  /\ \A i : i \in FromBytes(low, high) <=> i \in low \/ (i \in Int /\ i - byteBits \in high)
           /\ FromBytes(low, high) \in T
  <1>0. /\ low \in SUBSET (0..byteBits - 1) /\ high \in SUBSET (0..byteBits - 1)
        /\ high \in SUBSET Int /\ byteBits \in Nat /\ Width = 2 * byteBits
    BY Widths DEF Byte
  <1>1. \A i : i \in ShiftLeft(high, byteBits) <=> i \in Int /\ i - byteBits \in high
    BY <1>0, LeftMember
  <1>2. \A i : i \in FromBytes(low, high) <=> i \in low \/ (i \in Int /\ i - byteBits \in high)
    BY <1>1 DEF FromBytes
  <1>3. ASSUME NEW i \in FromBytes(low, high) PROVE i \in 0..Width - 1
    <2>1. CASE i \in low
      BY <1>0, <2>1
    <2>2. CASE i \in Int /\ i - byteBits \in high
      <3>1. i - byteBits \in 0..byteBits - 1
        BY <1>0, <2>2
      <3>. QED BY <1>0, <2>2, <3>1
    <2>. QED BY <1>2, <2>1, <2>2
  <1>. QED BY <1>2, <1>3 DEF T

\* Taking apart and putting together are inverse to each other.
LEMMA BytesOfElement ==
    ASSUME NEW t \in T
    PROVE  FromBytes(ByteOf(t, 0), ByteOf(t, 1)) = t
  <1>0. byteBits \in Nat /\ Width = 2 * byteBits /\ t \in SUBSET (0..Width - 1)
    BY Widths DEF T
  <1>1. ByteOf(t, 0) \in Byte /\ ByteOf(t, 1) \in Byte
    BY ByteMember
  <1>2. ASSUME NEW i
        PROVE  i \in FromBytes(ByteOf(t, 0), ByteOf(t, 1)) <=>
                  \/ i \in 0..byteBits - 1 /\ i \in t
                  \/ i \in Int /\ i - byteBits \in Nat /\ (i - byteBits) + byteBits \in t
    BY <1>1, FromBytesMember, ByteMember
  <1>3. ASSUME NEW i \in t PROVE i \in FromBytes(ByteOf(t, 0), ByteOf(t, 1))
    <2>1. i \in Int /\ i \in 0..Width - 1 /\ (i - byteBits) + byteBits = i
      BY <1>0
    <2>2. i \in 0..byteBits - 1 \/ i - byteBits \in Nat
      BY <1>0, <2>1
    <2>. QED BY <1>2, <2>1, <2>2
  <1>4. ASSUME NEW i \in FromBytes(ByteOf(t, 0), ByteOf(t, 1)) PROVE i \in t
    <2>1. i \in Int => (i - byteBits) + byteBits = i
      BY <1>0
    <2>. QED BY <1>2, <2>1
  <1>. QED BY <1>3, <1>4

LEMMA ElementOfBytes ==
    ASSUME NEW low \in Byte, NEW high \in Byte
    PROVE  /\ ByteOf(FromBytes(low, high), 0) = low
           /\ ByteOf(FromBytes(low, high), 1) = high
  <1>0. /\ low \in SUBSET (0..byteBits - 1) /\ high \in SUBSET (0..byteBits - 1) /\ byteBits \in Nat
        /\ FromBytes(low, high) \in T
    BY Widths, FromBytesMember DEF Byte
  <1>1. ASSUME NEW i \in 0..byteBits - 1 PROVE i \in FromBytes(low, high) <=> i \in low
    <2>1. i - byteBits \notin 0..byteBits - 1
      BY <1>0
    <2>. QED BY <1>0, <2>1, FromBytesMember
  <1>2. ByteOf(FromBytes(low, high), 0) = low
    BY <1>0, <1>1, ByteMember
  <1>3. ASSUME NEW i \in Nat PROVE i + byteBits \in FromBytes(low, high) <=> i \in high
    <2>1. i + byteBits \notin 0..byteBits - 1 /\ i + byteBits \in Int /\ (i + byteBits) - byteBits = i
      BY <1>0
    <2>. QED BY <1>0, <2>1, FromBytesMember
  <1>4. \A i \in high : i \in Nat
    BY <1>0
  <1>5. ByteOf(FromBytes(low, high), 1) = high
    BY <1>0, <1>3, <1>4, ByteMember
  <1>. QED BY <1>2, <1>5

\* The bytes of a sum.
LEMMA ByteOfPlus ==
    ASSUME NEW a \in T, NEW b \in T, NEW h \in {0, 1}
    PROVE  ByteOf(Plus(a, b), h) = Plus(ByteOf(a, h), ByteOf(b, h))
  <1>1. Plus(a, b) \in T
    BY PlusElement
  <1>2. CASE h = 0
    BY <1>2 DEF ByteOf, Plus
  <1>3. CASE h = 1
    <2>1. /\ \A i : i \in ByteOf(a, 1) <=> i \in Nat /\ i + byteBits \in a
          /\ \A i : i \in ByteOf(b, 1) <=> i \in Nat /\ i + byteBits \in b
          /\ \A i : i \in ByteOf(Plus(a, b), 1) <=> i \in Nat /\ i + byteBits \in Plus(a, b)
      BY <1>1, ByteMember
    <2>2. \A i : i \in ByteOf(Plus(a, b), 1) <=> i \in Plus(ByteOf(a, 1), ByteOf(b, 1))
      BY <2>1 DEF Plus
    <2>3. ByteOf(Plus(a, b), 1) = Plus(ByteOf(a, 1), ByteOf(b, 1))
      BY <2>2
    <2>. QED BY <1>3, <2>3
  <1>. QED BY <1>2, <1>3

\* An element is the sum of its bytes in their places.
LEMMA ElementIsSum ==
    ASSUME NEW t \in T
    PROVE  /\ t = Plus(ShiftLeft(ByteOf(t, 0), 0), ShiftLeft(ByteOf(t, 1), byteBits))
           /\ IsFiniteSet(ShiftLeft(ByteOf(t, 0), 0))
           /\ IsFiniteSet(ShiftLeft(ByteOf(t, 1), byteBits))
  <1>0. /\ byteBits \in Nat /\ ByteOf(t, 0) \in SUBSET (0..byteBits - 1)
        /\ ByteOf(t, 1) \in SUBSET (0..byteBits - 1)
    BY Widths, ByteMember DEF Byte
  <1>1. \A i : i \in ShiftLeft(ByteOf(t, 0), 0) <=> i \in Int /\ i - 0 \in ByteOf(t, 0)
    BY <1>0, LeftMember
  <1>2. \A i : i \in ShiftLeft(ByteOf(t, 1), byteBits) <=> i \in Int /\ i - byteBits \in ByteOf(t, 1)
    BY <1>0, LeftMember
  <1>3. ShiftLeft(ByteOf(t, 0), 0) = ByteOf(t, 0)
    BY <1>0, <1>1
  <1>4. ByteOf(t, 0) \cup ShiftLeft(ByteOf(t, 1), byteBits) = t
    BY BytesOfElement DEF FromBytes
  <1>5. ASSUME NEW i \in ByteOf(t, 0), i \in ShiftLeft(ByteOf(t, 1), byteBits) PROVE FALSE
    <2>1. i \in 0..byteBits - 1 /\ i - byteBits \in 0..byteBits - 1
      BY <1>0, <1>2, <1>5
    <2>. QED BY <1>0, <2>1
  <1>6. t = Plus(ByteOf(t, 0), ShiftLeft(ByteOf(t, 1), byteBits))
    BY <1>4, <1>5 DEF Plus
  <1>7. ByteOf(t, 0) \in SUBSET t /\ ShiftLeft(ByteOf(t, 1), byteBits) \in SUBSET t /\ IsFiniteSet(t)
    BY <1>4, BitsFinite
  <1>. QED BY <1>3, <1>6, <1>7, FS_Subset

\* Nibble k of an element, and that nibble in its place.
NibbleAt(v, k) ==
    IF k = 0 THEN NibbleOf(ByteOf(v, 0), 0)
    ELSE IF k = 1 THEN NibbleOf(ByteOf(v, 0), 1)
    ELSE IF k = 2 THEN NibbleOf(ByteOf(v, 1), 0)
    ELSE NibbleOf(ByteOf(v, 1), 1)

Placed(v, k) == ShiftLeft(NibbleAt(v, k), k * nibbleBits)

LEMMA NibbleMember ==
    ASSUME NEW v \in T, NEW k \in 0..3
    PROVE  /\ \A i : i \in NibbleAt(v, k) <=> i \in 0..nibbleBits - 1 /\ i + k * nibbleBits \in v
           /\ NibbleAt(v, k) \in Nibble
  <1>. DEFINE q == nibbleBits
  <1>0. /\ q \in Nat \ {0} /\ byteBits = 2 * q /\ Width = 4 * q
        /\ \A i : i \in ByteOf(v, 0) <=> i \in 0..byteBits - 1 /\ i \in v
        /\ \A i : i \in ByteOf(v, 1) <=> i \in Nat /\ i + byteBits \in v
        /\ ByteOf(v, 0) \in SUBSET (0..byteBits - 1) /\ ByteOf(v, 1) \in SUBSET (0..byteBits - 1)
        /\ ByteOf(v, 0) \in SUBSET Int /\ ByteOf(v, 1) \in SUBSET Int
    BY Widths, ByteMember DEF Byte
  <1>1. ASSUME NEW b \in SUBSET (0..byteBits - 1)
        PROVE  /\ \A i : i \in NibbleOf(b, 0) <=> i \in 0..q - 1 /\ i \in b
               /\ \A i : i \in NibbleOf(b, 1) <=> i \in 0..q - 1 /\ i + q \in b
    <2>1. \A i : i \in ShiftRight(b, q) <=> i \in Nat /\ i + q \in b
      BY <1>0, RightMember
    <2>2. \A i \in Nat : i + q \in b => i \in 0..q - 1
      <3>1. ASSUME NEW i \in Nat, i + q \in b PROVE i \in 0..q - 1
        <4>1. i + q \in 0..byteBits - 1
          BY <3>1
        <4>. QED BY <1>0, <4>1
      <3>. QED BY <3>1
    <2>. QED BY <2>1, <2>2 DEF NibbleOf
  <1>2. ASSUME NEW i \in 0..q - 1
        PROVE  /\ i \in NibbleOf(ByteOf(v, 0), 0) <=> i + 0 * q \in v
               /\ i \in NibbleOf(ByteOf(v, 0), 1) <=> i + 1 * q \in v
               /\ i \in NibbleOf(ByteOf(v, 1), 0) <=> i + 2 * q \in v
               /\ i \in NibbleOf(ByteOf(v, 1), 1) <=> i + 3 * q \in v
    <2>1. i \in 0..byteBits - 1 /\ i + q \in 0..byteBits - 1 /\ i \in Nat /\ i + q \in Nat
      BY <1>0
    <2>2. /\ i + 0 * q = i /\ i + 1 * q = i + q /\ i + 2 * q = i + byteBits
          /\ i + 3 * q = (i + q) + byteBits
      BY <1>0
    <2>3. i \in NibbleOf(ByteOf(v, 0), 0) <=> i \in v
      BY <1>0, <1>1, <2>1
    <2>4. i \in NibbleOf(ByteOf(v, 0), 1) <=> i + q \in v
      BY <1>0, <1>1, <2>1
    <2>5. i \in NibbleOf(ByteOf(v, 1), 0) <=> i + byteBits \in v
      BY <1>0, <1>1, <2>1
    <2>6. i \in NibbleOf(ByteOf(v, 1), 1) <=> (i + q) + byteBits \in v
      BY <1>0, <1>1, <2>1
    <2>. QED BY <2>2, <2>3, <2>4, <2>5, <2>6
  <1>3. k = 0 \/ k = 1 \/ k = 2 \/ k = 3
    OBVIOUS
  <1>4. NibbleAt(v, k) \subseteq 0..q - 1
    BY <1>0, <1>1, <1>3 DEF NibbleAt
  <1>5. ASSUME NEW i \in 0..q - 1 PROVE i \in NibbleAt(v, k) <=> i + k * q \in v
    BY <1>2, <1>3 DEF NibbleAt
  <1>. QED BY <1>4, <1>5 DEF Nibble

LEMMA PlacedMember ==
    ASSUME NEW v \in T, NEW k \in 0..3
    PROVE  /\ \A i : i \in Placed(v, k) <=> i \in v /\ k * nibbleBits <= i /\ i < k * nibbleBits + nibbleBits
           /\ Placed(v, k) \in T
  <1>. DEFINE q == nibbleBits
              o == k * q
  <1>0. q \in Nat /\ o \in Nat /\ v \in SUBSET (0..Width - 1) /\ Width \in Nat
    BY Widths DEF T
  <1>1. /\ \A i : i \in NibbleAt(v, k) <=> i \in 0..q - 1 /\ i + o \in v
        /\ NibbleAt(v, k) \in SUBSET Int
    BY <1>0, NibbleMember
  <1>2. \A i : i \in Placed(v, k) <=> i \in Int /\ i - o \in NibbleAt(v, k)
    BY <1>0, <1>1, LeftMember DEF Placed
  <1>. HIDE DEF o
  <1>3. ASSUME NEW i PROVE i \in Placed(v, k) <=> i \in v /\ o <= i /\ i < o + q
    <2>1. CASE i \in Int
      <3>1. (i - o) + o = i /\ (i - o \in 0..q - 1 <=> o <= i /\ i < o + q)
        BY <1>0, <2>1
      <3>2. i \in Placed(v, k) <=> i - o \in NibbleAt(v, k)
        BY <1>2, <2>1
      <3>3. i - o \in NibbleAt(v, k) <=> i - o \in 0..q - 1 /\ (i - o) + o \in v
        BY <1>1
      <3>4. i - o \in NibbleAt(v, k) <=> o <= i /\ i < o + q /\ i \in v
        BY <3>1, <3>3
      <3>. QED BY <3>2, <3>4
    <2>2. CASE i \notin Int
      <3>1. i \notin v
        <4>1. i \in 0..Width - 1 => i \in Int
          OBVIOUS
        <4>. QED BY <1>0, <2>2, <4>1
      <3>2. i \notin Placed(v, k)
        BY <1>2, <2>2
      <3>. QED BY <3>1, <3>2
    <2>. QED BY <2>1, <2>2
  <1>. QED BY <1>0, <1>3 DEF T, o

\* An element is the sum of its nibbles in their places.
LEMMA ElementOfNibbles ==
    ASSUME NEW v \in T
    PROVE  v = Plus(Plus(Placed(v, 0), Placed(v, 1)), Plus(Placed(v, 2), Placed(v, 3)))
  <1>. DEFINE q == nibbleBits
  <1>0. q \in Nat /\ Width = 4 * q /\ v \in SUBSET (0..Width - 1)
    BY Widths DEF T
  <1>1. ASSUME NEW i \in v
        PROVE  /\ i \in Placed(v, 0) <=> i < q
               /\ i \in Placed(v, 1) <=> q <= i /\ i < 2 * q
               /\ i \in Placed(v, 2) <=> 2 * q <= i /\ i < 3 * q
               /\ i \in Placed(v, 3) <=> 3 * q <= i
    <2>1. i \in 0..4 * q - 1
      BY <1>0
    <2>2. \A k \in 0..3 : i \in Placed(v, k) <=> k * q <= i /\ i < k * q + q
      BY PlacedMember
    <2>. HIDE DEF q
    <2>. QED BY <1>0, <2>1, <2>2
  <1>2. \A k \in 0..3 : Placed(v, k) \subseteq v
    BY PlacedMember
  <1>3. ASSUME NEW i \in v
        PROVE  i \in Plus(Plus(Placed(v, 0), Placed(v, 1)), Plus(Placed(v, 2), Placed(v, 3)))
    <2>1. i \in Int
      BY <1>0
    <2>2. i < q \/ (q <= i /\ i < 2 * q) \/ (2 * q <= i /\ i < 3 * q) \/ 3 * q <= i
      BY <1>0, <2>1
    <2>3. /\ i \in Placed(v, 0) \/ i \in Placed(v, 1) \/ i \in Placed(v, 2) \/ i \in Placed(v, 3)
          /\ i \in Placed(v, 0) => i \notin Placed(v, 1) /\ i \notin Placed(v, 2) /\ i \notin Placed(v, 3)
          /\ i \in Placed(v, 1) => i \notin Placed(v, 2) /\ i \notin Placed(v, 3)
          /\ i \in Placed(v, 2) => i \notin Placed(v, 3)
      BY <1>0, <1>1, <2>1, <2>2
    <2>. QED BY <2>3 DEF Plus
  <1>4. Plus(Plus(Placed(v, 0), Placed(v, 1)), Plus(Placed(v, 2), Placed(v, 3))) \subseteq v
    BY <1>2 DEF Plus
  <1>. QED BY <1>3, <1>4

(***************************************************************************)
(* The scalar kernels                                                      *)
(***************************************************************************)

\* The tables filled by doubling hold the sums of the shifts of c.
LEMMA CalcTable ==
    ASSUME NEW c \in T, NEW f, Shifts(f, c)
    PROVE  calcTable(c) = [s0 |-> [v \in Byte |-> Sum2(f, ShiftLeft(v, 0))],
                           s8 |-> [v \in Byte |-> Sum2(f, ShiftLeft(v, byteBits))]]
  <1>. DEFINE Eq(h) == h = [i \in 0..Width |-> IF i = 0 THEN c ELSE multByTwo(h[i - 1])]
  <1>1. Width \in Nat
    BY Widths
  <1>2. ASSUME NEW i \in 1..Width PROVE i - 1 \in 0..Width /\ f[i] = multByTwo(f[i - 1])
    <2>1. i - 1 \in 0..Width /\ f[i - 1] \in T /\ f[i] = ShiftPoly(f[i - 1])
      BY <1>1 DEF Shifts
    <2>. QED BY <2>1, ShiftPolyFacts
  <1>3. Eq(f)
    <2>1. f = [i \in 0..Width |-> f[i]] /\ f[0] = c
      BY DEF Shifts
    <2>2. ASSUME NEW i \in 0..Width PROVE f[i] = IF i = 0 THEN c ELSE multByTwo(f[i - 1])
      <3>1. CASE i = 0
        BY <2>1, <3>1
      <3>2. CASE i # 0
        <4>1. i \in 1..Width
          BY <1>1, <3>2
        <4>. QED BY <1>2, <3>2, <4>1
      <3>. QED BY <3>1, <3>2
    <2>. QED BY <2>1, <2>2
  <1>4. ASSUME NEW h, Eq(h) PROVE h = f
    <2>1. h = [i \in 0..Width |-> h[i]] /\ h[0] = c
      BY <1>1, <1>4
    <2>2. \A i \in 1..Width : h[i] = multByTwo(h[i - 1])
      BY <1>1, <1>4
    <2>3. f = [i \in 0..Width |-> f[i]] /\ f[0] = c
      BY DEF Shifts
    <2>4. \A i \in 1..Width : f[i - 1] = h[i - 1] => f[i] = h[i]
      BY <1>2, <2>2
    <2>5. Alike(f, h, Width)
      BY <2>1, <2>3, <2>4 DEF Alike
    <2>. QED BY <1>1, <2>5, SameFunction
  <1>5. calcTable(c) =
          [s0 |-> Table([v \in Byte |-> Sum2(CHOOSE h : Eq(h), ShiftLeft(v, 0))]),
           s8 |-> Table([v \in Byte |-> Sum2(CHOOSE h : Eq(h), ShiftLeft(v, byteBits))])]
    BY DEF calcTable
  <1>. HIDE DEF Eq
  <1>6. (CHOOSE h : Eq(h)) = f
    BY <1>3, <1>4
  <1>. QED BY <1>5, <1>6, TableIs

\* A product through the table of the coefficient.
LEMMA TableProduct ==
    ASSUME NEW c \in T, NEW v \in T
    PROVE  Plus(mulTables[c].s0[ByteOf(v, 0)], mulTables[c].s8[ByteOf(v, 1)]) = timesPoly(c, v)
  <1>1. PICK f : Shifts(f, c) /\ \A u : timesPoly(c, u) = Sum2(f, u)
    BY PolyShifts
  <1>2. mulTables[c] = calcTable(c)
    BY TableIs DEF mulTables
  <1>3. ByteOf(v, 0) \in Byte /\ ByteOf(v, 1) \in Byte
    BY ByteMember
  <1>4. /\ mulTables[c].s0[ByteOf(v, 0)] = Sum2(f, ShiftLeft(ByteOf(v, 0), 0))
        /\ mulTables[c].s8[ByteOf(v, 1)] = Sum2(f, ShiftLeft(ByteOf(v, 1), byteBits))
    BY <1>1, <1>2, <1>3, CalcTable
  <1>5. timesPoly(c, v) = Sum2(f, Plus(ShiftLeft(ByteOf(v, 0), 0), ShiftLeft(ByteOf(v, 1), byteBits)))
    BY <1>1, ElementIsSum
  <1>. QED BY <1>4, <1>5, ElementIsSum, SumOver

\* Both ways of the scalar kernel compute the product.
LEMMA ScalarProduct ==
    ASSUME NEW c \in T, c # zero, NEW n \in Int, NEW v \in T
    PROVE  mulScalar(c, n, v) = timesPoly(c, v)
  <1>1. CASE n > smallSliceBytes
    BY <1>1, TableProduct DEF mulScalar
  <1>2. CASE ~(n > smallSliceBytes)
    <2>1. mulScalar(c, n, v) = Times(c, v)
      BY <1>2 DEF mulScalar, Times
    <2>. QED BY <2>1, TimesIsProduct
  <1>. QED BY <1>1, <1>2

(***************************************************************************)
(* The vector kernels                                                      *)
(***************************************************************************)

\* The entries of the table of products with nibbles.
LEMMA NibbleTable ==
    ASSUME NEW c \in T, NEW h \in {0, 1}, NEW k \in 0..3, NEW v \in T
    PROVE  mulTable64[<<c, h, k, NibbleAt(v, k)>>] = ByteOf(timesPoly(c, Placed(v, k)), h)
  <1>1. NibbleAt(v, k) \in Nibble /\ Placed(v, k) \in T
    BY NibbleMember, PlacedMember
  <1>2. <<c, h, k, NibbleAt(v, k)>> \in T \X (0..1) \X (0..3) \X Nibble
    BY <1>1
  <1>3. mulTable64[<<c, h, k, NibbleAt(v, k)>>] = ByteOf(Times(c, Placed(v, k)), h)
    BY <1>2, TableIs DEF mulTable64, Placed
  <1>. QED BY <1>1, <1>3, TimesIsProduct

\* A byte of a product is the sum of four table entries.
LEMMA NibbleProduct ==
    ASSUME NEW c \in T, NEW h \in {0, 1}, NEW v \in T
    PROVE  mulAltMapByte(c, h, ByteOf(v, 0), ByteOf(v, 1)) = ByteOf(timesPoly(c, v), h)
  <1>. DEFINE p(k) == timesPoly(c, Placed(v, k))
  <1>1. \A k \in 0..3 : Placed(v, k) \in T /\ p(k) \in T
    BY PlacedMember, PolyType
  <1>2. \A k \in 0..3 : mulTable64[<<c, h, k, NibbleAt(v, k)>>] = ByteOf(p(k), h)
    BY NibbleTable
  <1>3. mulAltMapByte(c, h, ByteOf(v, 0), ByteOf(v, 1)) =
          Plus(Plus(ByteOf(p(0), h), ByteOf(p(1), h)), Plus(ByteOf(p(2), h), ByteOf(p(3), h)))
    <2>1. /\ NibbleAt(v, 0) = NibbleOf(ByteOf(v, 0), 0) /\ NibbleAt(v, 1) = NibbleOf(ByteOf(v, 0), 1)
          /\ NibbleAt(v, 2) = NibbleOf(ByteOf(v, 1), 0) /\ NibbleAt(v, 3) = NibbleOf(ByteOf(v, 1), 1)
      BY DEF NibbleAt
    <2>. QED BY <1>2, <2>1 DEF mulAltMapByte
  <1>4. Placed(v, 0) \in T /\ Placed(v, 1) \in T /\ Placed(v, 2) \in T /\ Placed(v, 3) \in T
    BY <1>1
  <1>5. Plus(Placed(v, 0), Placed(v, 1)) \in T /\ Plus(Placed(v, 2), Placed(v, 3)) \in T
    BY <1>4, PlusElement
  <1>6. timesPoly(c, v) = Plus(Plus(p(0), p(1)), Plus(p(2), p(3)))
    BY <1>4, <1>5, ElementOfNibbles, PolyPlusRight
  <1>. HIDE DEF p
  <1>7. p(0) \in T /\ p(1) \in T /\ p(2) \in T /\ p(3) \in T
    BY <1>1
  <1>8. Plus(p(0), p(1)) \in T /\ Plus(p(2), p(3)) \in T
    BY <1>7, PlusElement
  <1>. QED BY <1>3, <1>6, <1>7, <1>8, ByteOfPlus

LEMMA QuotientIs ==
    ASSUME NEW m \in Nat \ {0}, NEW q \in Int, NEW r \in 0..m - 1
    PROVE  (m * q + r) \div m = q /\ (m * q + r) % m = r
  <1>. DEFINE x == m * q + r
  <1>1. x \in Int
    OBVIOUS
  <1>2. x \div m \in Int /\ x = m * (x \div m) + (x % m)
    BY <1>1
  <1>3. x % m = r
    BY RemainderIs
  <1>. DEFINE y == x \div m
  <1>4. y \in Int /\ m * q = m * y
    BY <1>2, <1>3
  <1>. HIDE DEF x, y
  <1>5. q = y
    BY <1>4
  <1>. QED BY <1>3, <1>5 DEF x, y

\* The words of a block are unpacked to where they were packed from.
LEMMA LanesReturn ==
    ASSUME NEW cpu \in CPUs, NEW w \in 0..(BlockOf(cpu) \div 2) - 1
    PROVE  standardToAltMap(cpu, altToStandardMap(cpu, w)) = w
  <1>. DEFINE L == laneWords
              n == Lanes(cpu)
              N == n * L
              reg == w \div N
              r == w % N
              l == r \div L
              k == r % L
              q == altToStandardMap(cpu, w)
  <1>1. L \in Nat \ {0} /\ laneBytes = 2 * L
    BY FieldAssumption DEF laneWords, elementBytes
  <1>2. n = 1 \/ n = 2
    BY DEF Lanes
  <1>3. N \in Nat \ {0} /\ 0 <= w /\ w < 2 * N /\ w \in Int
    BY <1>1, <1>2 DEF BlockOf
  <1>4. q = l * 2 * L + k + (1 - reg) * L
    BY DEF altToStandardMap
  <1>. HIDE DEF L, n
  <1>5. N = IF n = 1 THEN L ELSE 2 * L
    BY <1>1, <1>2
  <1>. HIDE DEF N
  <1>6. r \in 0..N - 1 /\ w = N * reg + r /\ reg \in Int
    BY <1>3
  <1>. HIDE DEF reg, r
  <1>7. (reg = 0 /\ w = r) \/ (reg = 1 /\ w = N + r)
    <2>1. reg = 0 \/ reg = 1
      BY <1>3, <1>6
    <2>. QED BY <1>3, <1>6, <2>1
  <1>8. k \in 0..L - 1 /\ r = L * l + k /\ l \in Int
    BY <1>1, <1>6
  <1>. HIDE DEF l, k
  <1>9. (l = 0 /\ r = k) \/ (n = 2 /\ l = 1 /\ r = L + k)
    <2>1. r < 2 * L /\ 0 <= r /\ r \in Int
      BY <1>1, <1>2, <1>5, <1>6
    <2>2. l = 0 \/ l = 1
      BY <1>1, <1>8, <2>1
    <2>. QED BY <1>1, <1>2, <1>5, <1>6, <1>8, <2>2
  <1>. HIDE DEF q
  <1>10. standardToAltMap(cpu, q) =
           IF (q % (2 * L)) < L THEN (n + (q \div (2 * L))) * L + (q % (2 * L))
           ELSE ((q \div (2 * L)) - 1) * L + (q % (2 * L))
    BY DEF standardToAltMap, L, n
  <1>11. CASE reg = 1
    <2>1. q = (2 * L) * l + k /\ k \in 0..(2 * L) - 1
      BY <1>1, <1>4, <1>8, <1>9, <1>11
    <2>2. q \div (2 * L) = l /\ q % (2 * L) = k
      BY <1>1, <1>8, <2>1, QuotientIs
    <2>3. standardToAltMap(cpu, q) = (n + l) * L + k
      BY <1>1, <1>8, <1>10, <2>2
    <2>4. (n + l) * L + k = w
      <3>1. n * L = N
        BY DEF N
      <3>2. w = n * L + r
        BY <1>7, <1>11, <3>1
      <3>. QED BY <1>1, <1>2, <1>8, <1>9, <3>2
    <2>. QED BY <2>3, <2>4 DEF q
  <1>12. CASE reg = 0
    <2>1. q = (2 * L) * l + (k + L) /\ k + L \in 0..(2 * L) - 1
      BY <1>1, <1>4, <1>8, <1>9, <1>12
    <2>2. q \div (2 * L) = l /\ q % (2 * L) = k + L
      <3>. DEFINE e == k + L
                  M == 2 * L
      <3>1. M \in Nat \ {0} /\ e \in 0..M - 1 /\ q = M * l + e
        BY <1>1, <2>1
      <3>. HIDE DEF e, M
      <3>2. (M * l + e) \div M = l /\ (M * l + e) % M = e
        BY <1>8, <3>1, QuotientIs
      <3>. QED BY <3>1, <3>2 DEF e, M
    <2>3. standardToAltMap(cpu, q) = (l - 1) * L + (k + L)
      BY <1>1, <1>8, <1>10, <2>2
    <2>4. (l - 1) * L + (k + L) = w
      BY <1>1, <1>7, <1>8, <1>9, <1>12
    <2>. QED BY <2>3, <2>4 DEF q
  <1>. QED BY <1>7, <1>11, <1>12

\* A vector kernel computes the product of every element of its blocks.
LEMMA VectorProduct ==
    ASSUME NEW cpu \in CPUs, NEW c \in T, NEW in, NEW first \in Int, NEW i \in Int,
           Element(in, i) \in T
    PROVE  mulVector(cpu, c, in, first, i) = timesPoly(c, Element(in, i))
  <1>. DEFINE words == BlockOf(cpu) \div 2
              w == (i - first) % words
              v == Element(in, i - w + standardToAltMap(cpu, altToStandardMap(cpu, w)))
              t == timesPoly(c, Element(in, i))
  <1>1. words \in Nat \ {0}
    <2>1. laneBytes \in Nat \ {0} /\ (Lanes(cpu) = 1 \/ Lanes(cpu) = 2)
      BY FieldAssumption DEF Lanes
    <2>. QED BY <2>1 DEF BlockOf
  <1>2. w \in 0..words - 1
    BY <1>1
  <1>3. standardToAltMap(cpu, altToStandardMap(cpu, w)) = w
    BY <1>2, LanesReturn
  <1>4. i - w + w = i
    BY <1>1, <1>2
  <1>5. v = Element(in, i)
    BY <1>3, <1>4
  <1>6. mulVector(cpu, c, in, first, i) =
          FromBytes(mulAltMapByte(c, 0, ByteOf(v, 0), ByteOf(v, 1)),
                    mulAltMapByte(c, 1, ByteOf(v, 0), ByteOf(v, 1)))
    BY DEF mulVector
  <1>. HIDE DEF v
  <1>7. mulVector(cpu, c, in, first, i) = FromBytes(ByteOf(t, 0), ByteOf(t, 1))
    BY <1>5, <1>6, NibbleProduct
  <1>. QED BY <1>7, PolyType, BytesOfElement

\* Whatever part of the slice an element lies in, the kernel of that part
\* computes its product.
LEMMA BulkProduct ==
    ASSUME NEW cpu \in CPUs, NEW c \in T, c # zero, NEW in, Len(in) \in Nat, NEW i \in Int,
           Element(in, i) \in T
    PROVE  mulBulk(cpu, c, in, i) = timesPoly(c, Element(in, i))
  <1>. DEFINE v == vectorBytes(cpu, Len(in))
  <1>1. v.avx2 \in Int /\ v.ssse3 \in Int
    <2>1. BlockOf("avx2") \in Nat \ {0} /\ BlockOf("ssse3") \in Nat \ {0}
      BY FieldAssumption DEF BlockOf, Lanes
    <2>. QED BY <2>1 DEF vectorBytes
  <1>2. mulBulk(cpu, c, in, i) =
          IF 2 * i < v.avx2 THEN mulVector("avx2", c, in, 0, i)
          ELSE IF 2 * i < v.avx2 + v.ssse3 THEN mulVector("ssse3", c, in, v.avx2 \div 2, i)
          ELSE mulScalar(c, Len(in) - v.avx2 - v.ssse3, Element(in, i))
    BY DEF mulBulk
  <1>. HIDE DEF v
  <1>3. "avx2" \in CPUs /\ "ssse3" \in CPUs /\ v.avx2 \div 2 \in Int /\ Len(in) - v.avx2 - v.ssse3 \in Int
    BY <1>1 DEF CPUs
  <1>4. mulVector("avx2", c, in, 0, i) = timesPoly(c, Element(in, i))
    BY <1>3, VectorProduct
  <1>5. mulVector("ssse3", c, in, v.avx2 \div 2, i) = timesPoly(c, Element(in, i))
    BY <1>3, VectorProduct
  <1>6. mulScalar(c, Len(in) - v.avx2 - v.ssse3, Element(in, i)) = timesPoly(c, Element(in, i))
    BY <1>3, ScalarProduct
  <1>. QED BY <1>2, <1>4, <1>5, <1>6

(***************************************************************************)
(* Slices                                                                  *)
(***************************************************************************)

\* The elements of a slice of an even number of bytes.
LEMMA SliceElements ==
    ASSUME NEW n \in Nat, n % 2 = 0, NEW in \in [1..n -> Byte]
    PROVE  /\ in \in Seq(Byte) /\ Len(in) = n /\ DOMAIN in = 1..n
           /\ \A i \in 0..(n \div 2) - 1 : /\ Element(in, i) \in T
                                           /\ ByteOf(Element(in, i), 0) = in[2 * i + 1]
                                           /\ ByteOf(Element(in, i), 1) = in[2 * i + 2]
           /\ \A k \in 1..n : /\ (k - 1) \div 2 \in 0..(n \div 2) - 1
                              /\ (k - 1) % 2 \in {0, 1}
                              /\ in[k] = ByteOf(Element(in, (k - 1) \div 2), (k - 1) % 2)
  <1>1. in \in Seq(Byte) /\ Len(in) = n /\ DOMAIN in = 1..n
    OBVIOUS
  <1>2. ASSUME NEW i \in 0..(n \div 2) - 1
        PROVE  /\ Element(in, i) \in T
               /\ ByteOf(Element(in, i), 0) = in[2 * i + 1]
               /\ ByteOf(Element(in, i), 1) = in[2 * i + 2]
    <2>1. 2 * i + 1 \in 1..n /\ 2 * i + 2 \in 1..n
      OBVIOUS
    <2>2. in[2 * i + 1] \in Byte /\ in[2 * i + 2] \in Byte
      BY <2>1
    <2>. QED BY <2>2, FromBytesMember, ElementOfBytes DEF Element
  <1>3. ASSUME NEW k \in 1..n
        PROVE  /\ (k - 1) \div 2 \in 0..(n \div 2) - 1
               /\ (k - 1) % 2 \in {0, 1}
               /\ in[k] = ByteOf(Element(in, (k - 1) \div 2), (k - 1) % 2)
    <2>. DEFINE i == (k - 1) \div 2
    <2>1. i \in 0..(n \div 2) - 1 /\ (k - 1) % 2 \in {0, 1}
      OBVIOUS
    <2>2. \/ (k - 1) % 2 = 0 /\ k = 2 * i + 1
          \/ (k - 1) % 2 = 1 /\ k = 2 * i + 2
      OBVIOUS
    <2>. QED BY <1>2, <2>1, <2>2
  <1>. QED BY <1>1, <1>2, <1>3

\* The bytes of a product.
LEMMA ProductByte ==
    ASSUME NEW cpu \in CPUs, NEW c \in T, c # zero,
           NEW n \in Nat, n % 2 = 0, NEW in \in [1..n -> Byte], NEW k \in 1..n
    PROVE  productByte(cpu, c, in, k) =
             ByteOf(timesPoly(c, Element(in, (k - 1) \div 2)), (k - 1) % 2)
  <1>1. Len(in) \in Nat /\ (k - 1) \div 2 \in Int /\ Element(in, (k - 1) \div 2) \in T
    BY SliceElements
  <1>. QED BY <1>1, BulkProduct DEF productByte

\* The bytes of a sequence of elements, and its elements again.
LEMMA BytesFacts ==
    ASSUME NEW m \in Nat, NEW ts \in [1..m -> T]
    PROVE  /\ Bytes(ts) \in [1..2 * m -> Byte] /\ 2 * m \in Nat /\ (2 * m) % 2 = 0 /\ (2 * m) \div 2 = m
           /\ \A k \in 1..2 * m : Bytes(ts)[k] = ByteOf(ts[((k - 1) \div 2) + 1], (k - 1) % 2)
           /\ \A i \in 0..m - 1 : Element(Bytes(ts), i) = ts[i + 1]
  <1>. DEFINE b == [k \in 1..2 * m |-> ByteOf(ts[(k + 1) \div 2], (k - 1) % 2)]
  <1>0. 2 * m \in Nat /\ (2 * m) % 2 = 0 /\ (2 * m) \div 2 = m /\ Len(ts) = m
    OBVIOUS
  <1>1. \A k \in 1..2 * m : /\ (k + 1) \div 2 = ((k - 1) \div 2) + 1 /\ (k + 1) \div 2 \in 1..m
                            /\ (k - 1) % 2 \in {0, 1}
    OBVIOUS
  <1>2. b \in [1..2 * m -> Byte]
    BY <1>1, ByteMember
  <1>3. Bytes(ts) = SubSeq(b, 1, Len(b))
    BY <1>0 DEF Bytes, Stored
  <1>4. SubSeq(b, 1, Len(b)) = b
    <2>. HIDE DEF b
    <2>. QED BY <1>0, <1>2
  <1>5. \A k \in 1..2 * m : Bytes(ts)[k] = ByteOf(ts[((k - 1) \div 2) + 1], (k - 1) % 2)
    BY <1>1, <1>3, <1>4
  <1>6. ASSUME NEW i \in 0..m - 1 PROVE Element(Bytes(ts), i) = ts[i + 1]
    <2>1. /\ 2 * i + 1 \in 1..2 * m /\ ((2 * i + 1) - 1) \div 2 = i /\ ((2 * i + 1) - 1) % 2 = 0
          /\ 2 * i + 2 \in 1..2 * m /\ ((2 * i + 2) - 1) \div 2 = i /\ ((2 * i + 2) - 1) % 2 = 1
          /\ i + 1 \in 1..m
      OBVIOUS
    <2>2. Bytes(ts)[2 * i + 1] = ByteOf(ts[i + 1], 0) /\ Bytes(ts)[2 * i + 2] = ByteOf(ts[i + 1], 1)
      BY <1>5, <2>1
    <2>. QED BY <2>1, <2>2, BytesOfElement DEF Element
  <1>. QED BY <1>0, <1>2, <1>3, <1>4, <1>5, <1>6

LEMMA ElementsFacts ==
    ASSUME NEW m \in Nat, NEW ts \in [1..m -> T]
    PROVE  Elements(Bytes(ts)) = ts
  <1>1. Bytes(ts) \in [1..2 * m -> Byte] /\ (2 * m) \div 2 = m /\ Len(Bytes(ts)) = 2 * m
    BY BytesFacts
  <1>2. [i \in 1..m |-> Element(Bytes(ts), i - 1)] = ts
    <2>1. ASSUME NEW i \in 1..m PROVE Element(Bytes(ts), i - 1) = ts[i]
      <3>1. i - 1 \in 0..m - 1 /\ (i - 1) + 1 = i
        OBVIOUS
      <3>2. Element(Bytes(ts), i - 1) = ts[(i - 1) + 1]
        BY <3>1, BytesFacts
      <3>. QED BY <3>1, <3>2
    <2>. QED BY <2>1
  <1>3. SubSeq(ts, 1, Len(ts)) = ts
    OBVIOUS
  <1>. QED BY <1>1, <1>2, <1>3 DEF Elements, Stored

\* A sequence of bytes is given by what its bytes are.
LEMMA SameBytes ==
    ASSUME NEW m \in Nat, NEW ts \in [1..m -> T], NEW b, NEW n \in Nat, n = 2 * m,
           b = [k \in 1..n |-> ByteOf(ts[((k - 1) \div 2) + 1], (k - 1) % 2)]
    PROVE  b = Bytes(ts) /\ Stored(b) = b
  <1>1. /\ Bytes(ts) \in [1..n -> Byte]
        /\ \A k \in 1..n : Bytes(ts)[k] = ByteOf(ts[((k - 1) \div 2) + 1], (k - 1) % 2)
    BY BytesFacts
  <1>2. b = Bytes(ts)
    BY <1>1
  <1>3. SubSeq(Bytes(ts), 1, Len(Bytes(ts))) = Bytes(ts)
    BY <1>1
  <1>. QED BY <1>2, <1>3 DEF Stored

\* The product with a slice by the definition of the field, and its sum with
\* another slice.
SliceProduct(c, n, in) == Bytes([k \in 1..n \div 2 |-> timesPoly(c, Element(in, k - 1))])

SliceSum(c, n, in, out) ==
    Bytes([k \in 1..n \div 2 |-> Plus(timesPoly(c, Element(in, k - 1)), Element(out, k - 1))])

\* The product of a slice with an element, whatever the processor and the length:
\* its elements are the products of the elements (MulByteSliceLE).
THEOREM MulSliceProduct ==
    ASSUME NEW cpu \in CPUs, NEW c \in T, NEW n \in Nat, n % 2 = 0, NEW in \in [1..n -> Byte]
    PROVE  MulByteSliceLE(cpu, c, in) = SliceProduct(c, n, in)
  <1>. DEFINE m == n \div 2
              ts == [k \in 1..m |-> timesPoly(c, Element(in, k - 1))]
              b == [k \in 1..n |-> ByteOf(ts[((k - 1) \div 2) + 1], (k - 1) % 2)]
  <1>1. m \in Nat /\ n = 2 * m /\ DOMAIN in = 1..n
    OBVIOUS
  <1>2. \A k \in 1..m : k - 1 \in 0..m - 1
    BY <1>1
  <1>3. ts \in [1..m -> T]
    BY <1>2, SliceElements, PolyType
  <1>4. ASSUME NEW k \in 1..n
        PROVE  /\ b[k] = ByteOf(timesPoly(c, Element(in, (k - 1) \div 2)), (k - 1) % 2)
               /\ (k - 1) % 2 \in {0, 1} /\ Element(in, (k - 1) \div 2) \in T
    <2>1. (k - 1) \div 2 \in 0..m - 1 /\ (k - 1) % 2 \in {0, 1} /\ Element(in, (k - 1) \div 2) \in T
      BY SliceElements
    <2>2. ((k - 1) \div 2) + 1 \in 1..m /\ (((k - 1) \div 2) + 1) - 1 = (k - 1) \div 2
      BY <1>1, <2>1
    <2>. QED BY <2>1, <2>2
  <1>5. b = Bytes(ts) /\ Stored(b) = b
    <2>. HIDE DEF ts, m
    <2>. QED BY <1>1, <1>3, SameBytes
  <1>6. CASE c = zero
    <2>1. ASSUME NEW k \in 1..n PROVE b[k] = zero
      <3>1. b[k] = ByteOf(zero, (k - 1) % 2)
        BY <1>4, <1>6, PolyZero
      <3>2. ByteOf(zero, 0) = zero /\ ByteOf(zero, 1) = zero
        BY DEF ByteOf, ShiftRight, zero
      <3>. QED BY <1>4, <3>1, <3>2
    <2>2. b = [k \in 1..n |-> zero]
      BY <2>1
    <2>. QED BY <1>1, <1>5, <1>6, <2>2 DEF MulByteSliceLE, SliceProduct
  <1>7. CASE c # zero
    <2>1. \A k \in 1..n : productByte(cpu, c, in, k) = b[k]
      BY <1>4, <1>7, ProductByte
    <2>2. b = [k \in 1..n |-> productByte(cpu, c, in, k)]
      BY <2>1
    <2>. QED BY <1>1, <1>5, <1>7, <2>2 DEF MulByteSliceLE, SliceProduct
  <1>. QED BY <1>6, <1>7

\* The product is added to what the slice holds (MulAndAddByteSliceLE).
THEOREM MulAndAddSliceProduct ==
    ASSUME NEW cpu \in CPUs, NEW c \in T, NEW n \in Nat, n % 2 = 0,
           NEW in \in [1..n -> Byte], NEW out \in [1..n -> Byte]
    PROVE  /\ MulAndAddByteSliceLE(cpu, c, in, out) = SliceSum(c, n, in, out)
           /\ SliceSum(c, n, in, out) \in [1..n -> Byte]
           /\ \A k \in 1..n : SliceSum(c, n, in, out)[k] = Plus(SliceProduct(c, n, in)[k], out[k])
  <1>. DEFINE m == n \div 2
              ps == [k \in 1..m |-> timesPoly(c, Element(in, k - 1))]
              ts == [k \in 1..m |-> Plus(timesPoly(c, Element(in, k - 1)), Element(out, k - 1))]
              b == [k \in 1..n |-> ByteOf(ts[((k - 1) \div 2) + 1], (k - 1) % 2)]
              P(k) == ByteOf(timesPoly(c, Element(in, (k - 1) \div 2)), (k - 1) % 2)
  <1>1. m \in Nat /\ n = 2 * m /\ DOMAIN in = 1..n
    OBVIOUS
  <1>2. \A k \in 1..m : /\ k - 1 \in 0..m - 1
                        /\ timesPoly(c, Element(in, k - 1)) \in T /\ Element(out, k - 1) \in T
    BY <1>1, SliceElements, PolyType
  <1>3. ts \in [1..m -> T] /\ ps \in [1..m -> T]
    BY <1>2, PlusElement
  <1>4. ASSUME NEW k \in 1..n
        PROVE  b[k] = Plus(P(k), out[k]) /\ Bytes(ps)[k] = P(k)
    <2>. DEFINE i == (k - 1) \div 2
    <2>1. /\ i \in 0..m - 1 /\ (k - 1) % 2 \in {0, 1}
          /\ Element(in, i) \in T /\ Element(out, i) \in T
          /\ out[k] = ByteOf(Element(out, i), (k - 1) % 2)
      BY SliceElements
    <2>2. i + 1 \in 1..m /\ (i + 1) - 1 = i
      BY <1>1, <2>1
    <2>3. ts[i + 1] = Plus(timesPoly(c, Element(in, i)), Element(out, i)) /\ ps[i + 1] = timesPoly(c, Element(in, i))
      BY <2>2
    <2>4. Bytes(ps)[k] = ByteOf(ps[i + 1], (k - 1) % 2)
      <3>. HIDE DEF ps, m
      <3>. QED BY <1>1, <1>3, BytesFacts
    <2>. HIDE DEF ts, ps, i
    <2>5. b[k] = ByteOf(Plus(timesPoly(c, Element(in, i)), Element(out, i)), (k - 1) % 2)
      BY <2>3 DEF i
    <2>. QED BY <2>1, <2>3, <2>4, <2>5, PolyType, ByteOfPlus DEF i
  <1>5. b = Bytes(ts) /\ Stored(b) = b
    <2>. HIDE DEF ts, m
    <2>. QED BY <1>1, <1>3, SameBytes
  <1>. HIDE DEF ps, ts
  <1>6. ASSUME c = zero PROVE MulAndAddByteSliceLE(cpu, c, in, out) = SliceSum(c, n, in, out)
    <2>1. ASSUME NEW k \in 1..n PROVE b[k] = out[k]
      <3>1. P(k) = ByteOf(zero, (k - 1) % 2) /\ (k - 1) % 2 \in {0, 1}
        BY <1>6, SliceElements, PolyZero
      <3>2. ByteOf(zero, 0) = zero /\ ByteOf(zero, 1) = zero
        BY DEF ByteOf, ShiftRight, zero
      <3>3. P(k) = {}
        BY <3>1, <3>2 DEF zero
      <3>. HIDE DEF P, b
      <3>4. b[k] = Plus({}, out[k])
        BY <1>4, <3>3
      <3>5. Plus({}, out[k]) = out[k]
        BY PlusAlgebra
      <3>. QED BY <3>4, <3>5
    <2>2. b = out
      BY <2>1
    <2>. QED BY <1>5, <1>6, <2>2 DEF MulAndAddByteSliceLE, SliceSum, ts
  <1>7. ASSUME c # zero PROVE MulAndAddByteSliceLE(cpu, c, in, out) = SliceSum(c, n, in, out)
    <2>1. \A k \in 1..n : productByte(cpu, c, in, k) = P(k)
      BY <1>7, ProductByte
    <2>. HIDE DEF P, b
    <2>2. b = [k \in 1..n |-> Plus(productByte(cpu, c, in, k), out[k])]
      <3>1. b = [k \in 1..n |-> b[k]]
        BY DEF b
      <3>. QED BY <1>4, <2>1, <3>1
    <2>. QED BY <1>1, <1>5, <1>7, <2>2 DEF MulAndAddByteSliceLE, SliceSum, ts
  <1>8. MulAndAddByteSliceLE(cpu, c, in, out) = SliceSum(c, n, in, out)
    BY <1>6, <1>7
  <1>9. SliceSum(c, n, in, out) = b /\ SliceProduct(c, n, in) = Bytes(ps)
    BY <1>5 DEF SliceSum, SliceProduct, ts, ps
  <1>10. b \in [1..n -> Byte]
    BY <1>1, <1>3, <1>5, BytesFacts
  <1>11. \A k \in 1..n : b[k] = Plus(Bytes(ps)[k], out[k])
    <2>. HIDE DEF b, P
    <2>. QED BY <1>4
  <1>. HIDE DEF b
  <1>. QED BY <1>8, <1>9, <1>10, <1>11

(***************************************************************************)
(* Rows and matrices                                                       *)
(***************************************************************************)
Matrices(n, m) == [1..n -> [1..m -> T]]

\* Scaling and adding rows through the kernels.
LEMMA RowProducts ==
    ASSUME NEW cpu \in CPUs, NEW c \in T, NEW m \in Nat, NEW a \in [1..m -> T], NEW b \in [1..m -> T]
    PROVE  /\ Elements(MulByteSliceLE(cpu, c, Bytes(a))) = [j \in 1..m |-> timesPoly(c, a[j])]
           /\ Elements(MulAndAddByteSliceLE(cpu, c, Bytes(a), Bytes(b))) =
                [j \in 1..m |-> Plus(timesPoly(c, a[j]), b[j])]
  <1>. DEFINE n == 2 * m
              ps == [j \in 1..m |-> timesPoly(c, a[j])]
              ss == [j \in 1..m |-> Plus(timesPoly(c, a[j]), b[j])]
  <1>1. /\ Bytes(a) \in [1..n -> Byte] /\ Bytes(b) \in [1..n -> Byte]
        /\ n \in Nat /\ n % 2 = 0 /\ n \div 2 = m
    BY BytesFacts
  <1>2. ps \in [1..m -> T] /\ ss \in [1..m -> T]
    BY PolyType, PlusElement
  <1>3. ASSUME NEW j \in 1..m PROVE Element(Bytes(a), j - 1) = a[j] /\ Element(Bytes(b), j - 1) = b[j]
    <2>1. j - 1 \in 0..m - 1 /\ (j - 1) + 1 = j
      OBVIOUS
    <2>2. Element(Bytes(a), j - 1) = a[(j - 1) + 1] /\ Element(Bytes(b), j - 1) = b[(j - 1) + 1]
      BY <2>1, BytesFacts
    <2>. QED BY <2>1, <2>2
  <1>4. MulByteSliceLE(cpu, c, Bytes(a)) = Bytes([k \in 1..m |-> timesPoly(c, Element(Bytes(a), k - 1))])
    <2>. DEFINE A == Bytes(a)
    <2>1. A \in [1..n -> Byte]
      BY <1>1
    <2>. HIDE DEF n, A
    <2>2. MulByteSliceLE(cpu, c, A) = SliceProduct(c, n, A)
      BY <1>1, <2>1, MulSliceProduct
    <2>. QED BY <1>1, <2>2 DEF A, SliceProduct
  <1>5. MulAndAddByteSliceLE(cpu, c, Bytes(a), Bytes(b)) =
          Bytes([k \in 1..m |-> Plus(timesPoly(c, Element(Bytes(a), k - 1)), Element(Bytes(b), k - 1))])
    <2>. DEFINE A == Bytes(a)
                B == Bytes(b)
    <2>1. A \in [1..n -> Byte] /\ B \in [1..n -> Byte]
      BY <1>1
    <2>. HIDE DEF n, A, B
    <2>2. MulAndAddByteSliceLE(cpu, c, A, B) = SliceSum(c, n, A, B)
      BY <1>1, <2>1, MulAndAddSliceProduct
    <2>. QED BY <1>1, <2>2 DEF A, B, SliceSum
  <1>6. /\ [k \in 1..m |-> timesPoly(c, Element(Bytes(a), k - 1))] = ps
        /\ [k \in 1..m |-> Plus(timesPoly(c, Element(Bytes(a), k - 1)), Element(Bytes(b), k - 1))] = ss
    BY <1>3
  <1>. HIDE DEF ps, ss
  <1>7. Elements(Bytes(ps)) = ps /\ Elements(Bytes(ss)) = ss
    BY <1>2, ElementsFacts
  <1>. QED BY <1>4, <1>5, <1>6, <1>7 DEF ps, ss

\* Row i becomes row p times s and row p becomes row i.
Exchanged(x, n, m, i, p, s) ==
    [k \in 1..n |-> IF k = i THEN [j \in 1..m |-> timesPoly(s, x[p][j])]
                    ELSE IF k = p THEN x[i] ELSE x[k]]

\* The rows of Dest get row src added, times their entry of column col of y.
Eliminated(x, y, n, m, Dest, src, col) ==
    [j \in 1..n |-> IF j \in Dest
                    THEN [k \in 1..m |-> Plus(timesPoly(y[j][col], x[src][k]), x[j][k])]
                    ELSE x[j]]

\* A pivot row is swapped in and scaled.
LEMMA PivotedRows ==
    ASSUME NEW cpu \in CPUs, NEW n \in Nat, NEW m \in Nat, NEW x \in Matrices(n, m),
           NEW i \in 1..n, NEW p \in 1..n, NEW u \in T, u # zero
    PROVE  /\ pivoted(cpu, x, i, p, u) = Exchanged(x, n, m, i, p, InverseOf(u))
           /\ pivoted(cpu, x, i, p, u) \in Matrices(n, m)
  <1>. DEFINE c == InverseOf(u)
              row == [j \in 1..m |-> timesPoly(c, x[p][j])]
              s == swapRows(x, i, p)
  <1>1. c \in T
    BY InverseFacts
  <1>2. x \in [1..n -> [1..m -> T]] /\ x[p] \in [1..m -> T]
    BY DEF Matrices
  <1>3. s[i] = x[p] /\ s \in [1..n -> [1..m -> T]] /\ \A k \in 1..n \ {i} : s[k] = IF k = p THEN x[i] ELSE x[k]
    BY <1>2 DEF swapRows
  <1>4. Elements(MulByteSliceLE(cpu, c, Bytes(s[i]))) = row
    <2>. DEFINE a == x[p]
    <2>1. a \in [1..m -> T] /\ s[i] = a
      BY <1>2, <1>3
    <2>. HIDE DEF s, a, c
    <2>2. Elements(MulByteSliceLE(cpu, c, Bytes(a))) = [j \in 1..m |-> timesPoly(c, a[j])]
      BY <1>1, <2>1, RowProducts
    <2>. QED BY <2>1, <2>2 DEF a
  <1>5. row \in [1..m -> T]
    BY <1>1, <1>2, PolyType
  <1>6. pivoted(cpu, x, i, p, u) = [s EXCEPT ![i] = row]
    BY <1>4 DEF pivoted, scaleRow
  <1>. HIDE DEF s, row
  <1>7. [s EXCEPT ![i] = row] = [k \in 1..n |-> IF k = i THEN row ELSE IF k = p THEN x[i] ELSE x[k]]
    BY <1>3
  <1>8. [s EXCEPT ![i] = row] \in [1..n -> [1..m -> T]]
    BY <1>3, <1>5
  <1>. QED BY <1>6, <1>7, <1>8 DEF row, Matrices, Exchanged

\* Multiples of a row are added to others.
LEMMA AddedRows ==
    ASSUME NEW cpu \in CPUs, NEW n \in Nat, NEW m \in Nat, NEW d \in Nat,
           NEW x \in Matrices(n, m), NEW y \in Matrices(n, d),
           NEW Dest, NEW src \in 1..n, NEW col \in 1..d
    PROVE  /\ addScaledRows(cpu, x, y, Dest, src, col) = Eliminated(x, y, n, m, Dest, src, col)
           /\ addScaledRows(cpu, x, y, Dest, src, col) \in Matrices(n, m)
  <1>. DEFINE sum(j) == [k \in 1..m |-> Plus(timesPoly(y[j][col], x[src][k]), x[j][k])]
              res == [j \in 1..n |-> IF j \in Dest THEN sum(j) ELSE x[j]]
  <1>1. x \in [1..n -> [1..m -> T]] /\ \A j \in 1..n : x[j] \in [1..m -> T] /\ y[j][col] \in T
    BY DEF Matrices
  <1>2. \A j \in 1..n : sum(j) \in [1..m -> T]
    BY <1>1, PolyType, PlusElement
  <1>3. ASSUME NEW j \in 1..n, y[j][col] # zero
        PROVE  Elements(MulAndAddByteSliceLE(cpu, y[j][col], Bytes(x[src]), Bytes(x[j]))) = sum(j)
    <2>. DEFINE a == x[src]
                b == x[j]
                c == y[j][col]
    <2>1. a \in [1..m -> T] /\ b \in [1..m -> T] /\ c \in T
      BY <1>1
    <2>. HIDE DEF a, b, c
    <2>2. Elements(MulAndAddByteSliceLE(cpu, c, Bytes(a), Bytes(b))) =
            [k \in 1..m |-> Plus(timesPoly(c, a[k]), b[k])]
      BY <2>1, RowProducts
    <2>. QED BY <2>2 DEF a, b, c
  <1>4. ASSUME NEW j \in 1..n, y[j][col] = zero PROVE sum(j) = x[j]
    <2>1. ASSUME NEW k \in 1..m PROVE Plus(timesPoly(y[j][col], x[src][k]), x[j][k]) = x[j][k]
      <3>1. timesPoly(y[j][col], x[src][k]) = {}
        BY <1>1, <1>4, PolyZero DEF zero
      <3>. QED BY <3>1, PlusAlgebra
    <2>. QED BY <1>1, <2>1
  <1>. HIDE DEF sum
  <1>5. addScaledRows(cpu, x, y, Dest, src, col) = res
    <2>1. DOMAIN x = 1..n
      BY <1>1
    <2>. QED BY <1>3, <1>4, <2>1 DEF addScaledRows
  <1>6. res \in [1..n -> [1..m -> T]]
    BY <1>1, <1>2
  <1>. QED BY <1>5, <1>6 DEF Matrices, sum, Eliminated

(***************************************************************************)
(* Products of rows and vectors                                            *)
(***************************************************************************)
Dot(a, v, m) == Sum2([j \in 1..m |-> timesPoly(a[j], v[j])], 1..m)

LEMMA DotType ==
    ASSUME NEW a, NEW v, NEW m
    PROVE  Dot(a, v, m) \in T
  BY SumType DEF Dot

\* Multiplication by one element is additive.
LEMMA TimesAdditive ==
    ASSUME NEW c \in T
    PROVE  Additive([x \in T |-> timesPoly(c, x)])
  BY PolyType, PolyPlusRight, PlusElement DEF Additive

LEMMA DotScaled ==
    ASSUME NEW c \in T, NEW m \in Nat, NEW a \in [1..m -> T], NEW v \in [1..m -> T]
    PROVE  Dot([j \in 1..m |-> timesPoly(c, a[j])], v, m) = timesPoly(c, Dot(a, v, m))
  <1>. DEFINE L == [x \in T |-> timesPoly(c, x)]
              f == [j \in 1..m |-> timesPoly(a[j], v[j])]
              h == [j \in 1..m |-> timesPoly([i \in 1..m |-> timesPoly(c, a[i])][j], v[j])]
  <1>1. Additive(L) /\ IsFiniteSet(1..m)
    BY TimesAdditive, FS_Interval
  <1>2. ASSUME NEW j \in 1..m PROVE f[j] \in T /\ h[j] = L[f[j]]
    <2>1. f[j] = timesPoly(a[j], v[j]) /\ h[j] = timesPoly(timesPoly(c, a[j]), v[j])
      OBVIOUS
    <2>2. f[j] \in T
      BY <2>1, PolyType
    <2>3. L[f[j]] = timesPoly(c, f[j])
      BY <2>2
    <2>4. timesPoly(timesPoly(c, a[j]), v[j]) = timesPoly(c, timesPoly(a[j], v[j]))
      BY PolyAssociates
    <2>. HIDE DEF f, h, L
    <2>. QED BY <2>1, <2>2, <2>3, <2>4
  <1>. HIDE DEF f, h, L
  <1>3. Sum2(h, 1..m) = L[Sum2(f, 1..m)]
    BY <1>1, <1>2, SumImage DEF Images
  <1>4. Sum2(f, 1..m) \in T
    BY SumType
  <1>. QED BY <1>3, <1>4 DEF Dot, f, h, L

LEMMA DotAdded ==
    ASSUME NEW m \in Nat, NEW a \in [1..m -> T], NEW b \in [1..m -> T], NEW v \in [1..m -> T]
    PROVE  Dot([j \in 1..m |-> Plus(a[j], b[j])], v, m) = Plus(Dot(a, v, m), Dot(b, v, m))
  <1>. DEFINE f == [j \in 1..m |-> timesPoly(a[j], v[j])]
              h == [j \in 1..m |-> timesPoly(b[j], v[j])]
              k == [j \in 1..m |-> timesPoly([i \in 1..m |-> Plus(a[i], b[i])][j], v[j])]
  <1>1. IsFiniteSet(1..m)
    BY FS_Interval
  <1>2. \A j \in 1..m : k[j] = Plus(f[j], h[j])
    BY PolyPlusLeft
  <1>. HIDE DEF f, h, k
  <1>3. Sum2(k, 1..m) = Plus(Sum2(f, 1..m), Sum2(h, 1..m))
    BY <1>1, <1>2, SumPlus
  <1>. QED BY <1>3 DEF Dot, f, h, k

Combined(c, a, b, m) == [j \in 1..m |-> Plus(timesPoly(c, a[j]), b[j])]

LEMMA DotCombined ==
    ASSUME NEW c \in T, NEW m \in Nat, NEW a \in [1..m -> T], NEW b \in [1..m -> T], NEW v \in [1..m -> T]
    PROVE  Dot(Combined(c, a, b, m), v, m) = Plus(timesPoly(c, Dot(a, v, m)), Dot(b, v, m))
  <1>. DEFINE s == [j \in 1..m |-> timesPoly(c, a[j])]
  <1>1. s \in [1..m -> T]
    BY PolyType
  <1>2. Combined(c, a, b, m) = [j \in 1..m |-> Plus(s[j], b[j])]
    BY DEF Combined
  <1>3. Dot(s, v, m) = timesPoly(c, Dot(a, v, m))
    BY DotScaled
  <1>. HIDE DEF s
  <1>4. Dot([j \in 1..m |-> Plus(s[j], b[j])], v, m) = Plus(Dot(s, v, m), Dot(b, v, m))
    BY <1>1, DotAdded
  <1>. QED BY <1>2, <1>3, <1>4

\* Of a sum with a single term that is not zero.
LEMMA SumSingle ==
    ASSUME NEW S, IsFiniteSet(S), NEW x \in S, NEW f, f[x] \in T, \A i \in S \ {x} : f[i] = {}
    PROVE  Sum2(f, S) = f[x]
  <1>1. S = (S \ {x}) \cup {x} /\ x \notin S \ {x}
    OBVIOUS
  <1>2. IsFiniteSet(S \ {x})
    BY FS_Subset
  <1>. DEFINE R == S \ {x}
  <1>. HIDE DEF R
  <1>3. Sum2(f, R) = {}
    BY SumZero DEF R
  <1>4. Sum2(f, R \cup {x}) = Plus(Sum2(f, R), f[x])
    BY <1>1, <1>2, SumAdd DEF R
  <1>. QED BY <1>1, <1>3, <1>4, PlusAlgebra DEF R

\* A row of the identity picks an entry.
LEMMA DotUnit ==
    ASSUME NEW m \in Nat, NEW i \in 1..m, NEW a \in [1..m -> T], NEW v \in [1..m -> T],
           a[i] = one, \A j \in 1..m \ {i} : a[j] = zero
    PROVE  Dot(a, v, m) = v[i]
  <1>. DEFINE f == [j \in 1..m |-> timesPoly(a[j], v[j])]
  <1>1. f[i] = v[i] /\ v[i] \in T
    BY PolyOne
  <1>2. \A j \in 1..m \ {i} : f[j] = {}
    BY PolyZero DEF zero
  <1>3. IsFiniteSet(1..m)
    BY FS_Interval
  <1>. HIDE DEF f
  <1>4. Sum2(f, 1..m) = f[i]
    BY <1>1, <1>2, <1>3, SumSingle
  <1>. QED BY <1>1, <1>4 DEF Dot, f

\* What a change of one entry of the vector does.
LEMMA DotChanged ==
    ASSUME NEW m \in Nat, NEW i \in 1..m, NEW a \in [1..m -> T], NEW v \in [1..m -> T], NEW d \in T
    PROVE  Dot(a, [v EXCEPT ![i] = Plus(@, d)], m) = Plus(Dot(a, v, m), timesPoly(a[i], d))
  <1>. DEFINE w == [v EXCEPT ![i] = Plus(@, d)]
              f == [j \in 1..m |-> timesPoly(a[j], v[j])]
              h == [j \in 1..m |-> IF j = i THEN timesPoly(a[i], d) ELSE {}]
              k == [j \in 1..m |-> timesPoly(a[j], w[j])]
  <1>1. IsFiniteSet(1..m)
    BY FS_Interval
  <1>2. ASSUME NEW j \in 1..m PROVE k[j] = Plus(f[j], h[j])
    <2>1. CASE j = i
      <3>1. k[i] = timesPoly(a[i], Plus(v[i], d))
        OBVIOUS
      <3>2. timesPoly(a[i], Plus(v[i], d)) = Plus(timesPoly(a[i], v[i]), timesPoly(a[i], d))
        BY PolyPlusRight
      <3>. QED BY <2>1, <3>1, <3>2
    <2>2. CASE j # i
      BY <2>2, PlusAlgebra
    <2>. QED BY <2>1, <2>2
  <1>3. h[i] = timesPoly(a[i], d) /\ h[i] \in T /\ \A j \in 1..m \ {i} : h[j] = {}
    BY PolyType
  <1>. HIDE DEF f, h, k
  <1>4. Sum2(k, 1..m) = Plus(Sum2(f, 1..m), Sum2(h, 1..m))
    BY <1>1, <1>2, SumPlus
  <1>5. Sum2(h, 1..m) = h[i]
    BY <1>1, <1>3, SumSingle
  <1>. QED BY <1>3, <1>4, <1>5 DEF Dot, f, k

(***************************************************************************)
(* Row reduction                                                           *)
(***************************************************************************)

\* X and Y satisfy the equations of the rows of l and r.
Solves(l, r, n, d, X, Y) == \A i \in 1..n : Dot(l[i], X, n) = Dot(r[i], Y, d)

Kills(l, n, v) == \A i \in 1..n : Dot(l[i], v, n) = zero

\* The columns before c have a one on the diagonal and zeros below.
Echelon(l, n, c) ==
    \A j \in 1..c - 1 : l[j][j] = one /\ \A i \in j + 1..n : l[i][j] = zero

\* The columns before c have zeros above the diagonal.
Cleared(l, c) == \A j \in 1..c - 1 : \A i \in 1..j - 1 : l[i][j] = zero

\* A pivot is swapped in and scaled: the solutions stay, and no new vector is
\* taken to zero.
LEMMA PivotStep ==
    ASSUME NEW cpu \in CPUs, NEW n \in Nat, NEW d \in Nat, NEW l \in Matrices(n, n), NEW r \in Matrices(n, d),
           NEW c \in 1..n, NEW p \in 1..n, NEW u \in T, u # zero,
           NEW lp, lp = pivoted(cpu, l, c, p, u), NEW rp, rp = pivoted(cpu, r, c, p, u)
    PROVE  /\ \A X \in [1..n -> T], Y \in [1..d -> T] : Solves(l, r, n, d, X, Y) => Solves(lp, rp, n, d, X, Y)
           /\ \A v \in [1..n -> T] : Kills(lp, n, v) => Kills(l, n, v)
  <1>. DEFINE s == InverseOf(u)
              Row(x, m) == [j \in 1..m |-> timesPoly(s, x[p][j])]
  <1>1. s \in T /\ s # zero
    BY InverseFacts
  <1>2. /\ \A i \in 1..n : l[i] \in [1..n -> T] /\ r[i] \in [1..d -> T]
    BY DEF Matrices
  <1>3. lp = [k \in 1..n |-> IF k = c THEN Row(l, n) ELSE IF k = p THEN l[c] ELSE l[k]]
    BY PivotedRows DEF Exchanged
  <1>4. rp = [k \in 1..n |-> IF k = c THEN Row(r, d) ELSE IF k = p THEN r[c] ELSE r[k]]
    BY PivotedRows DEF Exchanged
  <1>5. ASSUME NEW X \in [1..n -> T] PROVE Dot(Row(l, n), X, n) = timesPoly(s, Dot(l[p], X, n))
    <2>. DEFINE a == l[p]
    <2>1. a \in [1..n -> T]
      BY <1>2
    <2>. HIDE DEF a, s
    <2>2. Dot([j \in 1..n |-> timesPoly(s, a[j])], X, n) = timesPoly(s, Dot(a, X, n))
      BY <1>1, <2>1, DotScaled
    <2>. QED BY <2>2 DEF a
  <1>6. ASSUME NEW Y \in [1..d -> T] PROVE Dot(Row(r, d), Y, d) = timesPoly(s, Dot(r[p], Y, d))
    <2>. DEFINE a == r[p]
    <2>1. a \in [1..d -> T]
      BY <1>2
    <2>. HIDE DEF a, s
    <2>2. Dot([j \in 1..d |-> timesPoly(s, a[j])], Y, d) = timesPoly(s, Dot(a, Y, d))
      BY <1>1, <2>1, DotScaled
    <2>. QED BY <2>2 DEF a
  <1>. HIDE DEF Row, s
  <1>7. /\ lp[c] = Row(l, n) /\ rp[c] = Row(r, d)
        /\ p # c => lp[p] = l[c] /\ rp[p] = r[c]
        /\ \A i \in 1..n \ {c, p} : lp[i] = l[i] /\ rp[i] = r[i]
    BY <1>3, <1>4
  <1>8. ASSUME NEW X \in [1..n -> T], NEW Y \in [1..d -> T], Solves(l, r, n, d, X, Y)
        PROVE  Solves(lp, rp, n, d, X, Y)
    <2>1. ASSUME NEW i \in 1..n PROVE Dot(lp[i], X, n) = Dot(rp[i], Y, d)
      <3>1. CASE i = c
        BY <1>5, <1>6, <1>7, <1>8, <3>1 DEF Solves
      <3>2. CASE i # c /\ i = p
        BY <1>7, <1>8, <3>2 DEF Solves
      <3>3. CASE i # c /\ i # p
        BY <1>7, <1>8, <3>3 DEF Solves
      <3>. QED BY <3>1, <3>2, <3>3
    <2>. QED BY <2>1 DEF Solves
  <1>9. ASSUME NEW v \in [1..n -> T], Kills(lp, n, v) PROVE Kills(l, n, v)
    <2>1. timesPoly(s, Dot(l[p], v, n)) = zero
      BY <1>5, <1>7, <1>9 DEF Kills
    <2>2. Dot(l[p], v, n) = zero
      BY <1>1, <2>1, DotType, NoZeroDivisors
    <2>3. ASSUME NEW i \in 1..n PROVE Dot(l[i], v, n) = zero
      <3>1. CASE i = p
        BY <2>2, <3>1
      <3>2. CASE i = c /\ i # p
        BY <1>7, <1>9, <3>2 DEF Kills
      <3>3. CASE i # c /\ i # p
        BY <1>7, <1>9, <3>3 DEF Kills
      <3>. QED BY <3>1, <3>2, <3>3
    <2>. QED BY <2>3 DEF Kills
  <1>. QED BY <1>8, <1>9

\* So does adding multiples of a row to others.
LEMMA AddStep ==
    ASSUME NEW cpu \in CPUs, NEW n \in Nat, NEW d \in Nat, NEW l \in Matrices(n, n), NEW r \in Matrices(n, d),
           NEW c \in 1..n, NEW Dest, c \notin Dest,
           NEW la, la = addScaledRows(cpu, l, l, Dest, c, c), NEW ra, ra = addScaledRows(cpu, r, l, Dest, c, c)
    PROVE  /\ \A X \in [1..n -> T], Y \in [1..d -> T] : Solves(l, r, n, d, X, Y) => Solves(la, ra, n, d, X, Y)
           /\ \A v \in [1..n -> T] : Kills(la, n, v) => Kills(l, n, v)
  <1>. DEFINE Row(x, m, i) == [k \in 1..m |-> Plus(timesPoly(l[i][c], x[c][k]), x[i][k])]
  <1>1. \A i \in 1..n : l[i] \in [1..n -> T] /\ r[i] \in [1..d -> T] /\ l[i][c] \in T
    BY DEF Matrices
  <1>2. la = [i \in 1..n |-> IF i \in Dest THEN Row(l, n, i) ELSE l[i]]
    <2>1. la = Eliminated(l, l, n, n, Dest, c, c)
      BY AddedRows
    <2>. QED BY <2>1 DEF Eliminated
  <1>3. ra = [i \in 1..n |-> IF i \in Dest THEN Row(r, d, i) ELSE r[i]]
    <2>1. ra = Eliminated(r, l, n, d, Dest, c, c)
      BY AddedRows
    <2>. QED BY <2>1 DEF Eliminated
  <1>4. ASSUME NEW X \in [1..n -> T], NEW i \in 1..n
        PROVE  Dot(Row(l, n, i), X, n) = Plus(timesPoly(l[i][c], Dot(l[c], X, n)), Dot(l[i], X, n))
    <2>. DEFINE a == l[c]
                b == l[i]
                s == l[i][c]
    <2>1. a \in [1..n -> T] /\ b \in [1..n -> T] /\ s \in T
      BY <1>1
    <2>. HIDE DEF a, b, s
    <2>2. Dot(Combined(s, a, b, n), X, n) = Plus(timesPoly(s, Dot(a, X, n)), Dot(b, X, n))
      BY <2>1, DotCombined
    <2>. QED BY <2>2 DEF a, b, s, Combined
  <1>5. ASSUME NEW Y \in [1..d -> T], NEW i \in 1..n
        PROVE  Dot(Row(r, d, i), Y, d) = Plus(timesPoly(l[i][c], Dot(r[c], Y, d)), Dot(r[i], Y, d))
    <2>. DEFINE a == r[c]
                b == r[i]
                s == l[i][c]
    <2>1. a \in [1..d -> T] /\ b \in [1..d -> T] /\ s \in T
      BY <1>1
    <2>. HIDE DEF a, b, s
    <2>2. Dot(Combined(s, a, b, d), Y, d) = Plus(timesPoly(s, Dot(a, Y, d)), Dot(b, Y, d))
      BY <2>1, DotCombined
    <2>. QED BY <2>2 DEF a, b, s, Combined
  <1>. HIDE DEF Row
  <1>6. ASSUME NEW X \in [1..n -> T], NEW Y \in [1..d -> T], Solves(l, r, n, d, X, Y)
        PROVE  Solves(la, ra, n, d, X, Y)
    <2>1. ASSUME NEW i \in 1..n PROVE Dot(la[i], X, n) = Dot(ra[i], Y, d)
      <3>0. Dot(l[i], X, n) = Dot(r[i], Y, d) /\ Dot(l[c], X, n) = Dot(r[c], Y, d)
        BY <1>6 DEF Solves
      <3>1. CASE i \in Dest
        BY <1>2, <1>3, <1>4, <1>5, <3>0, <3>1
      <3>2. CASE i \notin Dest
        BY <1>2, <1>3, <3>0, <3>2
      <3>. QED BY <3>1, <3>2
    <2>. QED BY <2>1 DEF Solves
  <1>7. ASSUME NEW v \in [1..n -> T], Kills(la, n, v) PROVE Kills(l, n, v)
    <2>1. Dot(l[c], v, n) = zero
      BY <1>2, <1>7 DEF Kills
    <2>2. ASSUME NEW i \in 1..n PROVE Dot(l[i], v, n) = zero
      <3>0. Dot(la[i], v, n) = zero
        BY <1>7 DEF Kills
      <3>1. CASE i \in Dest
        <4>1. Plus(timesPoly(l[i][c], zero), Dot(l[i], v, n)) = zero
          BY <1>2, <1>4, <2>1, <3>0, <3>1
        <4>2. timesPoly(l[i][c], zero) = {}
          BY <1>1, PolyZero DEF zero
        <4>. QED BY <4>1, <4>2, PlusAlgebra
      <3>2. CASE i \notin Dest
        BY <1>2, <3>0, <3>2
      <3>. QED BY <3>1, <3>2
    <2>. QED BY <2>2 DEF Kills
  <1>. QED BY <1>6, <1>7

\* A column of convertToRowEchelonForm extends the echelon by that column.
LEMMA EchelonStep ==
    ASSUME NEW cpu \in CPUs, NEW n \in Nat, NEW l \in Matrices(n, n),
           NEW c \in 1..n, NEW p \in c..n, l[p][c] # zero, Echelon(l, n, c),
           NEW lp, lp = pivoted(cpu, l, c, p, l[p][c]),
           NEW la, la = addScaledRows(cpu, lp, lp, c + 1..n, c, c)
    PROVE  Echelon(la, n, c + 1)
  <1>. DEFINE u == l[p][c]
              s == InverseOf(u)
  <1>0. p \in 1..n /\ c \in Int /\ n \in Int
    OBVIOUS
  <1>1. \A i, j \in 1..n : l[i][j] \in T
    BY DEF Matrices
  <1>2. u \in T /\ u # zero /\ s \in T /\ timesPoly(s, u) = one
    BY <1>0, <1>1, InverseFacts
  <1>3. /\ lp = [k \in 1..n |-> IF k = c THEN [j \in 1..n |-> timesPoly(s, l[p][j])]
                                ELSE IF k = p THEN l[c] ELSE l[k]]
        /\ lp \in Matrices(n, n)
    <2>. HIDE DEF u, s
    <2>1. lp = pivoted(cpu, l, c, p, u)
      BY DEF u
    <2>2. lp = Exchanged(l, n, n, c, p, s) /\ lp \in Matrices(n, n)
      BY <1>0, <1>2, <2>1, PivotedRows DEF s
    <2>. QED BY <2>2 DEF Exchanged
  <1>. HIDE DEF u, s
  <1>4. /\ la = [i \in 1..n |-> IF i \in c + 1..n
                                THEN [k \in 1..n |-> Plus(timesPoly(lp[i][c], lp[c][k]), lp[i][k])]
                                ELSE lp[i]]
    <2>1. lp \in Matrices(n, n)
      BY <1>3
    <2>2. la = Eliminated(lp, lp, n, n, c + 1..n, c, c)
      BY <2>1, AddedRows
    <2>. QED BY <2>2 DEF Eliminated
  <1>5. \A j \in 1..n : lp[c][j] = timesPoly(s, l[p][j])
    BY <1>3
  <1>6. lp[c][c] = one
    BY <1>2, <1>5 DEF u
  <1>7. \A i, j \in 1..n : lp[i][j] \in T
    BY <1>3 DEF Matrices
  <1>8. \A i \in 1..c : la[i] = lp[i]
    BY <1>0, <1>4
  <1>9. \A i \in 1..c - 1 : lp[i] = l[i]
    BY <1>0, <1>3
  <1>10. ASSUME NEW i \in c + 1..n, NEW j \in 1..n
         PROVE  la[i][j] = Plus(timesPoly(lp[i][c], lp[c][j]), lp[i][j])
    BY <1>0, <1>4
  \* Below the pivot the column is cleared.
  <1>11. ASSUME NEW i \in c + 1..n PROVE la[i][c] = zero
    <2>1. i \in 1..n /\ lp[i][c] \in T
      BY <1>0, <1>7
    <2>2. la[i][c] = Plus(lp[i][c], lp[i][c])
      BY <1>6, <1>10, <2>1, PolyOne
    <2>. QED BY <2>2, PlusAlgebra DEF zero
  \* The columns before it keep their zeros.
  <1>12. ASSUME NEW j \in 1..c - 1, NEW i \in j + 1..n PROVE la[i][j] = zero
    <2>0. j \in 1..n /\ i \in 1..n /\ c \in j + 1..n /\ p \in j + 1..n
      BY <1>0
    <2>1. \A k \in j + 1..n : l[k][j] = zero
      BY DEF Echelon
    <2>2. lp[c][j] = zero
      BY <1>2, <1>5, <2>0, <2>1, PolyZero
    <2>3. lp[i][j] = zero
      BY <1>3, <2>0, <2>1, <2>2
    <2>4. CASE i \in c + 1..n
      <3>1. la[i][j] = Plus(timesPoly(lp[i][c], zero), zero)
        BY <1>10, <2>0, <2>2, <2>3, <2>4
      <3>2. timesPoly(lp[i][c], zero) = zero
        BY <1>7, <2>0, PolyZero
      <3>. QED BY <3>1, <3>2, PlusAlgebra DEF zero
    <2>5. CASE i \notin c + 1..n
      BY <1>8, <2>0, <2>3, <2>5
    <2>. QED BY <2>4, <2>5
  <1>13. ASSUME NEW j \in 1..c - 1 PROVE la[j][j] = one
    <2>1. l[j][j] = one /\ j \in 1..c
      BY <1>0 DEF Echelon
    <2>. QED BY <1>8, <1>9, <2>1
  <1>14. la[c][c] = one
    BY <1>0, <1>6, <1>8
  <1>15. ASSUME NEW j \in 1..(c + 1) - 1
         PROVE  la[j][j] = one /\ \A i \in j + 1..n : la[i][j] = zero
    <2>1. j = c \/ j \in 1..c - 1
      BY <1>0
    <2>. QED BY <1>11, <1>12, <1>13, <1>14, <2>1
  <1>. QED BY <1>15 DEF Echelon

\* A column of convertToReducedRowEchelonForm is cleared above the diagonal.
LEMMA ReducedStep ==
    ASSUME NEW cpu \in CPUs, NEW n \in Nat, NEW l \in Matrices(n, n), NEW c \in 1..n,
           Echelon(l, n, n + 1), Cleared(l, c),
           NEW la, la = addScaledRows(cpu, l, l, 1..c - 1, c, c)
    PROVE  Echelon(la, n, n + 1) /\ Cleared(la, c + 1)
  <1>0. c \in Int /\ n \in Int
    OBVIOUS
  <1>1. \A i, j \in 1..n : l[i][j] \in T
    BY DEF Matrices
  <1>2. la = [i \in 1..n |-> IF i \in 1..c - 1
                             THEN [k \in 1..n |-> Plus(timesPoly(l[i][c], l[c][k]), l[i][k])]
                             ELSE l[i]]
    <2>1. la = Eliminated(l, l, n, n, 1..c - 1, c, c)
      BY AddedRows
    <2>. QED BY <2>1 DEF Eliminated
  <1>3. ASSUME NEW i \in 1..c - 1, NEW j \in 1..n
        PROVE  la[i][j] = Plus(timesPoly(l[i][c], l[c][j]), l[i][j])
    BY <1>0, <1>2
  <1>4. \A j \in 1..n : l[j][j] = one /\ \A i \in j + 1..n : l[i][j] = zero
    BY <1>0 DEF Echelon
  \* Row c has zeros before the diagonal, so nothing changes there.
  <1>5. ASSUME NEW i \in 1..n, NEW j \in 1..c - 1 PROVE la[i][j] = l[i][j]
    <2>1. CASE i \in 1..c - 1
      <3>1. j \in 1..n /\ c \in j + 1..n
        BY <1>0
      <3>2. l[c][j] = zero
        BY <1>4, <3>1
      <3>3. timesPoly(l[i][c], zero) = {}
        BY <1>1, PolyZero DEF zero
      <3>4. la[i][j] = Plus({}, l[i][j])
        BY <1>3, <2>1, <3>1, <3>2, <3>3
      <3>. QED BY <3>4, PlusAlgebra
    <2>2. CASE i \notin 1..c - 1
      BY <1>2, <2>2
    <2>. QED BY <2>1, <2>2
  <1>6. \A i \in c..n : la[i] = l[i]
    BY <1>0, <1>2
  <1>7. ASSUME NEW i \in 1..c - 1 PROVE la[i][c] = zero
    <2>1. i \in 1..n /\ l[i][c] \in T /\ l[c][c] = one
      BY <1>0, <1>1, <1>4
    <2>2. la[i][c] = Plus(l[i][c], l[i][c])
      BY <1>3, <2>1, PolyOne
    <2>. QED BY <2>2, PlusAlgebra DEF zero
  <1>8. ASSUME NEW j \in 1..n PROVE la[j][j] = one
    <2>1. j \in 1..c - 1 \/ j \in c..n
      BY <1>0
    <2>. QED BY <1>4, <1>5, <1>6, <2>1
  <1>9. ASSUME NEW j \in 1..n, NEW i \in j + 1..n PROVE la[i][j] = zero
    <2>1. i \in 1..n /\ (j \in 1..c - 1 \/ i \in c..n)
      BY <1>0
    <2>2. l[i][j] = zero
      BY <1>4
    <2>. QED BY <1>5, <1>6, <2>1, <2>2
  <1>10. Echelon(la, n, n + 1)
    <2>1. \A j \in 1..(n + 1) - 1 : j \in 1..n
      BY <1>0
    <2>. QED BY <1>8, <1>9, <2>1 DEF Echelon
  <1>11. ASSUME NEW j \in 1..(c + 1) - 1, NEW i \in 1..j - 1 PROVE la[i][j] = zero
    <2>1. i \in 1..n /\ ((j \in 1..c - 1) \/ (j = c /\ i \in 1..c - 1))
      BY <1>0
    <2>2. j \in 1..c - 1 => l[i][j] = zero
      BY DEF Cleared
    <2>. QED BY <1>5, <1>7, <2>1, <2>2
  <1>. QED BY <1>10, <1>11 DEF Cleared

\* With every column reduced the solution can be read off.
LEMMA ReducedSolution ==
    ASSUME NEW n \in Nat, NEW d \in Nat, NEW l \in Matrices(n, n), NEW r,
           Echelon(l, n, n + 1), Cleared(l, n + 1),
           NEW X \in [1..n -> T], NEW Y, Solves(l, r, n, d, X, Y), NEW i \in 1..n
    PROVE  X[i] = Dot(r[i], Y, d)
  <1>0. n \in Int /\ i \in Int /\ l[i] \in [1..n -> T]
    BY DEF Matrices
  <1>1. l[i][i] = one
    BY <1>0 DEF Echelon
  <1>2. ASSUME NEW j \in 1..n \ {i} PROVE l[i][j] = zero
    <2>1. j \in 1..(n + 1) - 1 /\ (i \in j + 1..n \/ i \in 1..j - 1)
      BY <1>0
    <2>. QED BY <2>1 DEF Echelon, Cleared
  <1>3. Dot(l[i], X, n) = X[i]
    BY <1>0, <1>1, <1>2, DotUnit
  <1>. QED BY <1>3 DEF Solves

\* Without a pivot some vector that is not zero is taken to zero: its entry c is
\* one, the later ones are zero, and the earlier ones are found row by row, from
\* the last to the first.
LEMMA NoPivot ==
    ASSUME NEW n \in Nat, NEW l \in Matrices(n, n), NEW c \in 1..n, Echelon(l, n, c),
           \A i \in c..n : l[i][c] = zero
    PROVE  \E v \in [1..n -> T] : v[c] = one /\ Kills(l, n, v)
  <1>. DEFINE Ends(v) == v[c] = one /\ \A j \in c + 1..n : v[j] = zero
              P == {k \in 0..c - 1 : \E v \in [1..n -> T] :
                        Ends(v) /\ \A i \in c - k..c - 1 : Dot(l[i], v, n) = zero}
  <1>0. n \in Int /\ c \in Int /\ c - 1 \in Nat /\ \A i \in 1..n : l[i] \in [1..n -> T]
    BY DEF Matrices
  <1>1. 0 \in P
    <2>. DEFINE v == [j \in 1..n |-> IF j = c THEN one ELSE zero]
    <2>1. v \in [1..n -> T] /\ Ends(v)
      BY <1>0, PolyOne, PolyZero
    <2>2. c - 0..c - 1 = {}
      BY <1>0
    <2>. HIDE DEF v, Ends
    <2>. QED BY <1>0, <2>1, <2>2
  <1>2. ASSUME NEW k \in 0..(c - 1) - 1, k \in P PROVE k + 1 \in P
    <2>. DEFINE q == c - (k + 1)
    <2>1. PICK v \in [1..n -> T] : Ends(v) /\ \A i \in c - k..c - 1 : Dot(l[i], v, n) = zero
      BY <1>2
    <2>2. q \in 1..n /\ q < c /\ q \in 1..c - 1 /\ k + 1 \in 0..c - 1
      BY <1>0
    <2>. DEFINE d == Dot(l[q], v, n)
                w == [v EXCEPT ![q] = Plus(@, d)]
    <2>3. d \in T
      BY DotType
    <2>4. l[q][q] = one /\ \A i \in q + 1..n : l[i][q] = zero
      BY <2>2 DEF Echelon
    <2>. HIDE DEF q, d
    <2>5. w \in [1..n -> T] /\ Ends(w)
      <3>1. v[q] \in T /\ Plus(v[q], d) \in T
        BY <2>2, <2>3, PlusElement
      <3>2. w \in [1..n -> T] /\ \A j \in 1..n \ {q} : w[j] = v[j]
        BY <2>2, <3>1
      <3>3. c \in 1..n \ {q} /\ \A j \in c + 1..n : j \in 1..n \ {q}
        BY <1>0, <2>2
      <3>. HIDE DEF w
      <3>. QED BY <2>1, <3>2, <3>3
    <2>. HIDE DEF Ends, w
    <2>6. ASSUME NEW i \in 1..n PROVE Dot(l[i], w, n) = Plus(Dot(l[i], v, n), timesPoly(l[i][q], d))
      <3>. DEFINE a == l[i]
      <3>1. a \in [1..n -> T]
        BY <1>0
      <3>. HIDE DEF a
      <3>2. Dot(a, w, n) = Plus(Dot(a, v, n), timesPoly(a[q], d))
        BY <2>2, <2>3, <3>1, DotChanged DEF w
      <3>. QED BY <3>2 DEF a
    <2>7. Dot(l[q], w, n) = zero
      <3>1. Dot(l[q], w, n) = Plus(d, d)
        BY <2>2, <2>3, <2>4, <2>6, PolyOne DEF d
      <3>. QED BY <3>1, PlusAlgebra DEF zero
    <2>8. ASSUME NEW i \in c - k..c - 1 PROVE Dot(l[i], w, n) = zero
      <3>1. i \in 1..n /\ i \in q + 1..n
        BY <1>0, <2>2 DEF q
      <3>2. Dot(l[i], w, n) = Plus(zero, timesPoly(zero, d))
        BY <2>1, <2>4, <2>6, <3>1
      <3>3. timesPoly(zero, d) = zero
        BY <2>3, PolyZero
      <3>. QED BY <3>2, <3>3, PlusAlgebra DEF zero
    <2>9. ASSUME NEW i \in c - (k + 1)..c - 1 PROVE Dot(l[i], w, n) = zero
      <3>1. i = q \/ i \in c - k..c - 1
        BY <1>0 DEF q
      <3>. QED BY <2>7, <2>8, <3>1
    <2>. QED BY <2>2, <2>5, <2>9
  <1>. HIDE DEF P
  <1>3. 0..c - 1 \subseteq P
    BY <1>0, <1>1, <1>2, UpTo
  <1>4. c - 1 \in P
    BY <1>0, <1>3
  <1>5. PICK v \in [1..n -> T] : Ends(v) /\ \A i \in c - (c - 1)..c - 1 : Dot(l[i], v, n) = zero
    BY <1>4 DEF P
  <1>6. ASSUME NEW i \in c..n PROVE Dot(l[i], v, n) = zero
    <2>. DEFINE f == [j \in 1..n |-> timesPoly(l[i][j], v[j])]
    <2>1. ASSUME NEW j \in 1..n PROVE f[j] = {}
      <3>0. i \in 1..n /\ l[i][j] \in T /\ v[j] \in T
        BY <1>0
      <3>1. CASE j \in 1..c - 1
        <4>1. i \in j + 1..n
          BY <1>0, <3>1
        <4>2. l[i][j] = zero
          BY <3>1, <4>1 DEF Echelon
        <4>. QED BY <3>0, <4>2, PolyZero DEF zero
      <3>2. CASE j = c
        BY <3>0, <3>2, PolyZero DEF zero
      <3>3. CASE j \in c + 1..n
        <4>1. v[j] = zero
          BY <1>5, <3>3
        <4>. QED BY <3>0, <4>1, PolyZero DEF zero
      <3>4. j \in 1..c - 1 \/ j = c \/ j \in c + 1..n
        BY <1>0
      <3>. QED BY <3>1, <3>2, <3>3, <3>4
    <2>. HIDE DEF f
    <2>2. Sum2(f, 1..n) = {}
      BY <2>1, SumZero
    <2>. QED BY <2>2 DEF Dot, f, zero
  <1>7. ASSUME NEW i \in 1..n PROVE Dot(l[i], v, n) = zero
    <2>1. i \in c - (c - 1)..c - 1 \/ i \in c..n
      BY <1>0
    <2>. QED BY <1>5, <1>6, <2>1
  <1>. QED BY <1>5, <1>7 DEF Kills

=============================================================================
