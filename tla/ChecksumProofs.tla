--------------------------- MODULE ChecksumProofs ---------------------------
(***************************************************************************)
(* Proofs about the algorithms of Checksum for every width, polynomial,    *)
(* block size and set of blocks: rolling a CRC gives the CRC of the next   *)
(* window, and a lookup finds the blocks of a CRC and no others.           *)
(***************************************************************************)
EXTENDS Checksum, Induction

Word == SUBSET CrcOnes

(***************************************************************************)
(* Sums of words                                                           *)
(***************************************************************************)

\* Words and bytes are closed under sums.
LEMMA XorType ==
    ASSUME NEW S, NEW a \in SUBSET S, NEW b \in SUBSET S
    PROVE  CrcXor(a, b) \in SUBSET S
  BY DEF CrcXor

\* Sums are associative and commutative, and every word is its own inverse.
LEMMA XorAlgebra ==
    ASSUME NEW a, NEW b, NEW c
    PROVE  /\ CrcXor(a, b) = CrcXor(b, a)
           /\ CrcXor(CrcXor(a, b), c) = CrcXor(a, CrcXor(b, c))
           /\ CrcXor(a, a) = {}
           /\ CrcXor(a, {}) = a
           /\ CrcXor({}, a) = a
           /\ CrcXor(a, CrcXor(a, b)) = b
  BY DEF CrcXor

\* The sum of two sums is taken part by part.
LEMMA XorSwap ==
    ASSUME NEW a, NEW b, NEW c, NEW d
    PROVE  CrcXor(CrcXor(a, b), CrcXor(c, d)) = CrcXor(CrcXor(a, c), CrcXor(b, d))
  BY DEF CrcXor

\* The complement of a word is its sum with the word of ones.
LEMMA ComplementXor ==
    ASSUME NEW c \in Word
    PROVE  /\ Complement(c) = CrcXor(CrcOnes, c)
           /\ Complement(c) \in Word
           /\ Complement(Complement(c)) = c
  BY DEF Complement, CrcXor, Word

\* A byte is a word, and there is more than nothing in both.
LEMMA WidthFacts ==
    /\ ByteBits \in Nat \ {0} /\ CrcBytes \in Nat \ {0} /\ CrcBits \in Nat \ {0}
    /\ ByteBits <= CrcBits
    /\ SUBSET ByteOnes \subseteq Word
    /\ {} \in Word /\ {} \in SUBSET ByteOnes /\ CrcOnes \in Word /\ ByteOnes \in SUBSET ByteOnes
<1>1. ByteBits \in Nat \ {0} /\ CrcBytes \in Nat \ {0}
  BY ChecksumAssumption
<1>2. ByteBits * CrcBytes \in Nat /\ ByteBits * CrcBytes >= ByteBits
  BY <1>1
<1>3. CrcBits \in Nat \ {0} /\ ByteBits <= CrcBits
  BY <1>1, <1>2 DEF CrcBits
<1>4. ByteOnes \subseteq CrcOnes
  BY <1>1, <1>3 DEF ByteOnes, CrcOnes
<1> QED
  BY <1>1, <1>3, <1>4 DEF Word

\* What is in a shifted word.
LEMMA ShiftMember ==
    ASSUME NEW c \in Word, NEW n \in Nat, NEW i
    PROVE  i \in ShiftRight(c, n) <=> i \in Nat /\ i + n \in c
<1>1. \A j \in c : j \in Nat
  BY DEF Word, CrcOnes
<1>2. ASSUME i \in ShiftRight(c, n) PROVE i \in Nat /\ i + n \in c
  <2>1. PICK j \in c : j >= n /\ i = j - n
    BY <1>2 DEF ShiftRight
  <2> QED
    BY <1>1, <2>1
<1>3. ASSUME i \in Nat, i + n \in c PROVE i \in ShiftRight(c, n)
  <2>1. i + n >= n /\ i = (i + n) - n
    BY <1>3
  <2> QED
    BY <1>3, <2>1 DEF ShiftRight
<1> QED
  BY <1>2, <1>3

\* A shifted word is a word.
LEMMA ShiftType ==
    ASSUME NEW c \in Word, NEW n \in Nat
    PROVE  ShiftRight(c, n) \in Word
<1>1. ASSUME NEW i \in ShiftRight(c, n) PROVE i \in CrcOnes
  <2>1. i \in Nat /\ i + n \in CrcOnes
    BY ShiftMember DEF Word
  <2> QED
    BY <2>1, WidthFacts DEF CrcOnes
<1> QED
  BY <1>1 DEF Word

\* Shifting is linear.
LEMMA ShiftXor ==
    ASSUME NEW a \in Word, NEW b \in Word, NEW n \in Nat
    PROVE  ShiftRight(CrcXor(a, b), n) = CrcXor(ShiftRight(a, n), ShiftRight(b, n))
<1>1. CrcXor(a, b) \in Word
  BY XorType DEF Word
<1>2. \A i : i \in ShiftRight(CrcXor(a, b), n) <=> i \in Nat /\ i + n \in CrcXor(a, b)
  BY <1>1, ShiftMember
<1>3. \A i : i \in ShiftRight(a, n) <=> i \in Nat /\ i + n \in a
  BY ShiftMember
<1>4. \A i : i \in ShiftRight(b, n) <=> i \in Nat /\ i + n \in b
  BY ShiftMember
<1> QED
  BY <1>2, <1>3, <1>4 DEF CrcXor

\* A step of the division is linear.
LEMMA DivideFacts ==
    ASSUME NEW a \in Word, NEW b \in Word
    PROVE  /\ DivideBit(a) \in Word
           /\ DivideBit(CrcXor(a, b)) = CrcXor(DivideBit(a), DivideBit(b))
<1> DEFINE P(c) == IF 0 \in c THEN Polynomial ELSE {}
<1>1. \A c : P(c) \in Word
  BY ChecksumAssumption DEF Word
<1>2. DivideBit(a) \in Word
  BY <1>1, ShiftType, XorType DEF DivideBit, Word
<1>3. P(CrcXor(a, b)) = CrcXor(P(a), P(b))
  BY DEF CrcXor
<1>4. ShiftRight(CrcXor(a, b), 1) = CrcXor(ShiftRight(a, 1), ShiftRight(b, 1))
  BY ShiftXor
<1>5. DivideBit(CrcXor(a, b))
        = CrcXor(CrcXor(ShiftRight(a, 1), ShiftRight(b, 1)), CrcXor(P(a), P(b)))
  BY <1>3, <1>4 DEF DivideBit
<1>6. DivideBit(a) = CrcXor(ShiftRight(a, 1), P(a)) /\ DivideBit(b) = CrcXor(ShiftRight(b, 1), P(b))
  BY DEF DivideBit
<1> HIDE DEF P
<1> QED
  BY <1>2, <1>5, <1>6, XorSwap

(***************************************************************************)
(* The table of bytes                                                      *)
(***************************************************************************)
Divides(f, b) ==
    /\ f \in [0..ByteBits -> Word]
    /\ f[0] = b
    /\ \A i \in 1..ByteBits : f[i] = DivideBit(f[i - 1])

\* An entry of the table is the last of the words its byte is divided into.
LEMMA TableEntry ==
    ASSUME NEW b \in SUBSET ByteOnes
    PROVE  \E f : Divides(f, b) /\ IEEETable[b] = f[ByteBits]
<1> DEFINE step == [x \in Word \X (1..ByteBits) |-> DivideBit(x[1])]
           Eq(g) == g = [n \in 0..ByteBits |-> IF n = 0 THEN b ELSE DivideBit(g[n - 1])]
<1>1. b \in Word /\ ByteBits \in Nat
  BY WidthFacts
<1>2. IsStep(step, ByteBits, Word)
  BY DivideFacts DEF IsStep
<1>3. \A v \in Word : \A i \in 1..ByteBits : step[<<v, i>>] = DivideBit(v)
  OBVIOUS
<1> HIDE DEF step
<1>4. PICK f : Follows(f, ByteBits, Word, b, step)
  BY <1>1, <1>2, Recursion
<1>5. Divides(f, b)
  <2>1. f \in [0..ByteBits -> Word] /\ f[0] = b
    BY <1>4 DEF Follows
  <2>2. ASSUME NEW i \in 1..ByteBits PROVE f[i] = DivideBit(f[i - 1])
    <3>1. f[i - 1] \in Word
      BY <1>1, <2>1
    <3> QED
      BY <1>3, <1>4, <3>1 DEF Follows
  <2> QED
    BY <2>1, <2>2 DEF Divides
<1>6. Eq(f)
  BY <1>1, <1>5 DEF Divides
<1>7. ASSUME NEW g, Eq(g) PROVE g = f
  <2>1. g = [i \in 0..ByteBits |-> g[i]] /\ g[0] = b
    BY <1>1, <1>7
  <2>2. \A i \in 1..ByteBits : g[i] = DivideBit(g[i - 1])
    BY <1>1, <1>7
  <2>3. f = [i \in 0..ByteBits |-> f[i]] /\ f[0] = b
    BY <1>5 DEF Divides
  <2>4. \A i \in 1..ByteBits : f[i - 1] = g[i - 1] => f[i] = g[i]
    BY <1>5, <2>2 DEF Divides
  <2>5. Alike(f, g, ByteBits)
    BY <2>1, <2>3, <2>4 DEF Alike
  <2> QED
    BY <1>1, <2>5, SameFunction
<1>8. IEEETable[b] = (CHOOSE g : Eq(g))[ByteBits]
  BY DEF IEEETable
<1> HIDE DEF Eq
<1>9. (CHOOSE g : Eq(g)) = f
  BY <1>6, <1>7
<1> QED
  BY <1>5, <1>8, <1>9

\* The table of bytes is linear.
LEMMA TableFacts ==
    ASSUME NEW a \in SUBSET ByteOnes, NEW b \in SUBSET ByteOnes
    PROVE  /\ IEEETable[a] \in Word
           /\ IEEETable[CrcXor(a, b)] = CrcXor(IEEETable[a], IEEETable[b])
<1> DEFINE c == CrcXor(a, b)
<1>0. c \in SUBSET ByteOnes /\ ByteBits \in Nat
  BY XorType, WidthFacts
<1>1. PICK f : Divides(f, a) /\ IEEETable[a] = f[ByteBits]
  BY TableEntry
<1>2. PICK g : Divides(g, b) /\ IEEETable[b] = g[ByteBits]
  BY TableEntry
<1>3. PICK h : Divides(h, c) /\ IEEETable[c] = h[ByteBits]
  BY <1>0, TableEntry
<1> DEFINE P == {i \in 0..ByteBits : h[i] = CrcXor(f[i], g[i])}
<1>4. 0 \in P
  BY <1>0, <1>1, <1>2, <1>3 DEF Divides
<1>5. ASSUME NEW i \in 0..(ByteBits - 1), i \in P PROVE i + 1 \in P
  <2>1. i + 1 \in 1..ByteBits /\ (i + 1) - 1 = i /\ i + 1 \in 0..ByteBits /\ i \in 0..ByteBits
    BY <1>0
  <2>2. f[i] \in Word /\ g[i] \in Word
    BY <1>1, <1>2, <2>1 DEF Divides
  <2>3. /\ f[i + 1] = DivideBit(f[i]) /\ g[i + 1] = DivideBit(g[i])
        /\ h[i + 1] = DivideBit(CrcXor(f[i], g[i]))
    BY <1>1, <1>2, <1>3, <1>5, <2>1 DEF Divides
  <2> QED
    BY <2>1, <2>2, <2>3, DivideFacts
<1> HIDE DEF P
<1>6. 0..ByteBits \subseteq P
  BY <1>0, <1>4, <1>5, UpTo
<1>7. ByteBits \in P /\ ByteBits \in 0..ByteBits
  BY <1>0, <1>6
<1> QED
  BY <1>1, <1>2, <1>3, <1>7 DEF P, Divides

\* The table has no entry but zero for zero.
LEMMA TableZero == IEEETable[{}] = {}
<1>1. {} \in SUBSET ByteOnes /\ CrcXor({}, {}) = {}
  BY XorAlgebra
<1>2. IEEETable[{}] = CrcXor(IEEETable[{}], IEEETable[{}])
  BY <1>1, TableFacts
<1> QED
  BY <1>2, XorAlgebra

AddByte(t, b) == simpleUpdate[<<t, b>>]

\* One more byte: the register is linear in what it was and in the byte.
LEMMA UpdateFacts ==
    ASSUME NEW t \in Word, NEW b \in SUBSET ByteOnes
    PROVE  /\ AddByte(t, b) \in Word
           /\ AddByte(t, b) = CrcXor(IEEETable[CrcXor(t \cap ByteOnes, b)], ShiftRight(t, ByteBits))
           /\ \A u \in Word, c \in SUBSET ByteOnes :
                 AddByte(CrcXor(t, u), CrcXor(b, c)) = CrcXor(AddByte(t, b), AddByte(u, c))
<1> DEFINE low(x, y) == CrcXor(x \cap ByteOnes, y)
<1>1. \A x, y : y \in SUBSET ByteOnes => low(x, y) \in SUBSET ByteOnes
  BY DEF CrcXor
<1>2. \A x \in Word : \A y \in SUBSET ByteOnes :
         AddByte(x, y) = CrcXor(IEEETable[low(x, y)], ShiftRight(x, ByteBits))
  BY DEF AddByte, simpleUpdate, Word
<1>3. AddByte(t, b) \in Word
  <2>1. IEEETable[low(t, b)] \in Word /\ ShiftRight(t, ByteBits) \in Word
    BY <1>1, TableFacts, ShiftType, WidthFacts
  <2>2. AddByte(t, b) = CrcXor(IEEETable[low(t, b)], ShiftRight(t, ByteBits))
    BY <1>2
  <2> HIDE DEF low
  <2>3. CrcXor(IEEETable[low(t, b)], ShiftRight(t, ByteBits)) \in Word
    BY <2>1, XorType DEF Word
  <2> QED
    BY <2>2, <2>3
<1>4. ASSUME NEW u \in Word, NEW c \in SUBSET ByteOnes
      PROVE  AddByte(CrcXor(t, u), CrcXor(b, c)) = CrcXor(AddByte(t, b), AddByte(u, c))
  <2>1. CrcXor(t, u) \in Word /\ CrcXor(b, c) \in SUBSET ByteOnes
    BY XorType DEF Word
  <2>2. low(CrcXor(t, u), CrcXor(b, c)) = CrcXor(low(t, b), low(u, c))
    BY DEF CrcXor
  <2>3. low(t, b) \in SUBSET ByteOnes /\ low(u, c) \in SUBSET ByteOnes
    BY <1>1
  <2>6. /\ AddByte(t, b) = CrcXor(IEEETable[low(t, b)], ShiftRight(t, ByteBits))
        /\ AddByte(u, c) = CrcXor(IEEETable[low(u, c)], ShiftRight(u, ByteBits))
    BY <1>2
  <2>7. AddByte(CrcXor(t, u), CrcXor(b, c))
          = CrcXor(IEEETable[low(CrcXor(t, u), CrcXor(b, c))], ShiftRight(CrcXor(t, u), ByteBits))
    BY <1>2, <2>1
  <2> HIDE DEF low
  <2>4. IEEETable[low(CrcXor(t, u), CrcXor(b, c))]
          = CrcXor(IEEETable[low(t, b)], IEEETable[low(u, c)])
    BY <2>2, <2>3, TableFacts
  <2>5. ShiftRight(CrcXor(t, u), ByteBits)
          = CrcXor(ShiftRight(t, ByteBits), ShiftRight(u, ByteBits))
    BY ShiftXor, WidthFacts
  <2> QED
    BY <2>4, <2>5, <2>6, <2>7, XorSwap
<1> QED
  BY <1>2, <1>3, <1>4

\* The same, all values given.
LEMMA UpdateXor ==
    ASSUME NEW t \in Word, NEW u \in Word, NEW b \in SUBSET ByteOnes, NEW c \in SUBSET ByteOnes
    PROVE  AddByte(CrcXor(t, u), CrcXor(b, c)) = CrcXor(AddByte(t, b), AddByte(u, c))
  BY UpdateFacts

(***************************************************************************)
(* The register                                                            *)
(***************************************************************************)
ByteSeq == Seq(SUBSET ByteOnes)

\* The words the register holds while it takes the bytes a.
Runs(f, init, a) ==
    /\ f \in [0..Len(a) -> Word]
    /\ f[0] = init
    /\ \A i \in 1..Len(a) : f[i] = AddByte(f[i - 1], a[i])

\* The register ends with the last of those words.
LEMMA RegisterRuns ==
    ASSUME NEW init \in Word, NEW a \in ByteSeq
    PROVE  \E f : Runs(f, init, a) /\ Register(init, a) = f[Len(a)]
<1> DEFINE n == Len(a)
           step == [x \in Word \X (1..n) |-> AddByte(x[1], a[x[2]])]
           Eq(g) == g = [i \in 0..n |-> IF i = 0 THEN init ELSE AddByte(g[i - 1], a[i])]
<1>1. n \in Nat /\ \A i \in 1..n : a[i] \in SUBSET ByteOnes
  BY DEF ByteSeq
<1> HIDE DEF n
<1>2. IsStep(step, n, Word)
  BY <1>1, UpdateFacts DEF IsStep
<1>3. \A v \in Word : \A i \in 1..n : step[<<v, i>>] = AddByte(v, a[i])
  OBVIOUS
<1> HIDE DEF step
<1>4. PICK f : Follows(f, n, Word, init, step)
  BY <1>1, <1>2, Recursion
<1>5. f \in [0..n -> Word] /\ f[0] = init /\ f = [i \in 0..n |-> f[i]]
  BY <1>4 DEF Follows
<1>6. ASSUME NEW i \in 1..n PROVE f[i] = AddByte(f[i - 1], a[i])
  <2>1. f[i - 1] \in Word
    BY <1>1, <1>5
  <2> QED
    BY <1>3, <1>4, <2>1 DEF Follows
<1>7. Eq(f)
  BY <1>1, <1>5, <1>6
<1>8. ASSUME NEW g, Eq(g) PROVE g = f
  <2>1. g = [i \in 0..n |-> g[i]] /\ g[0] = init
    BY <1>1, <1>8
  <2>2. \A i \in 1..n : g[i] = AddByte(g[i - 1], a[i])
    BY <1>1, <1>8
  <2>3. Alike(f, g, n)
    BY <1>5, <1>6, <2>1, <2>2 DEF Alike
  <2> QED
    BY <1>1, <2>3, SameFunction
<1>9. Register(init, a) = (CHOOSE g : Eq(g))[n]
  BY DEF Register, AddByte, n
<1> HIDE DEF Eq
<1>10. (CHOOSE g : Eq(g)) = f
  BY <1>7, <1>8
<1> QED
  BY <1>5, <1>6, <1>9, <1>10 DEF Runs, n

\* Any such words end with the register.
LEMMA RegisterIs ==
    ASSUME NEW init \in Word, NEW a \in ByteSeq, NEW f, Runs(f, init, a)
    PROVE  Register(init, a) = f[Len(a)] /\ Register(init, a) \in Word
<1>1. PICK g : Runs(g, init, a) /\ Register(init, a) = g[Len(a)]
  BY RegisterRuns
<1>2. Len(a) \in Nat
  BY DEF ByteSeq
<1>3. Alike(f, g, Len(a))
  BY <1>1 DEF Alike, Runs
<1>4. f = g
  BY <1>2, <1>3, SameFunction
<1>5. f[Len(a)] \in Word
  BY <1>2 DEF Runs
<1> QED
  BY <1>1, <1>4, <1>5

\* The register holds a word.
LEMMA RegisterType ==
    ASSUME NEW init \in Word, NEW a \in ByteSeq
    PROVE  Register(init, a) \in Word
  BY RegisterRuns, RegisterIs

\* The bytes c are the sums of the bytes of a and b.
SumOf(c, a, b) ==
    /\ Len(a) = Len(c) /\ Len(b) = Len(c)
    /\ \A k \in 1..Len(c) : c[k] = CrcXor(a[k], b[k])

\* The register is linear in its first value and the bytes together.
LEMMA RegisterXor ==
    ASSUME NEW s \in Word, NEW t \in Word,
           NEW a \in ByteSeq, NEW b \in ByteSeq, NEW c \in ByteSeq, SumOf(c, a, b)
    PROVE  Register(CrcXor(s, t), c) = CrcXor(Register(s, a), Register(t, b))
<1> DEFINE n == Len(c)
<1>0. n \in Nat /\ Len(a) = n /\ Len(b) = n /\ CrcXor(s, t) \in Word
  BY XorType DEF ByteSeq, SumOf, Word
<1>1. PICK f : Runs(f, s, a) /\ Register(s, a) = f[Len(a)]
  BY RegisterRuns
<1>2. PICK g : Runs(g, t, b) /\ Register(t, b) = g[Len(b)]
  BY RegisterRuns
<1>3. PICK h : Runs(h, CrcXor(s, t), c) /\ Register(CrcXor(s, t), c) = h[Len(c)]
  BY <1>0, RegisterRuns
<1> DEFINE P == {i \in 0..n : h[i] = CrcXor(f[i], g[i])}
<1>4. 0 \in P
  BY <1>0, <1>1, <1>2, <1>3 DEF Runs
<1>5. ASSUME NEW i \in 0..(n - 1), i \in P PROVE i + 1 \in P
  <2>1. i + 1 \in 1..n /\ (i + 1) - 1 = i /\ i + 1 \in 0..n /\ i \in 0..n
    BY <1>0
  <2>2. f[i] \in Word /\ g[i] \in Word
    BY <1>0, <1>1, <1>2, <2>1 DEF Runs
  <2>3. a[i + 1] \in SUBSET ByteOnes /\ b[i + 1] \in SUBSET ByteOnes
    BY <1>0, <2>1 DEF ByteSeq
  <2>4. f[i + 1] = AddByte(f[i], a[i + 1]) /\ g[i + 1] = AddByte(g[i], b[i + 1])
    BY <1>0, <1>1, <1>2, <2>1 DEF Runs
  <2>5. h[i + 1] = AddByte(CrcXor(f[i], g[i]), CrcXor(a[i + 1], b[i + 1]))
    BY <1>3, <1>5, <2>1 DEF Runs, SumOf
  <2>6. h[i + 1] = CrcXor(AddByte(f[i], a[i + 1]), AddByte(g[i], b[i + 1]))
    BY <2>2, <2>3, <2>5, UpdateXor
  <2> QED
    BY <2>1, <2>4, <2>6
<1> HIDE DEF P
<1>6. 0..n \subseteq P
  BY <1>0, <1>4, <1>5, UpTo
<1>7. n \in P
  BY <1>0, <1>6
<1> QED
  BY <1>0, <1>1, <1>2, <1>3, <1>7 DEF P

\* The bytes a without the first, and without the last.
IsTail(r, a) == Len(a) = Len(r) + 1 /\ \A k \in 1..Len(r) : r[k] = a[k + 1]

IsFront(r, a) == Len(a) = Len(r) + 1 /\ \A k \in 1..Len(r) : r[k] = a[k]

\* The register takes the first byte first.
LEMMA RegisterFirst ==
    ASSUME NEW s \in Word, NEW a \in ByteSeq, NEW r \in ByteSeq, IsTail(r, a)
    PROVE  Register(s, a) = Register(AddByte(s, a[1]), r)
<1> DEFINE n == Len(r)
<1>0. n \in Nat /\ Len(a) = n + 1
  BY DEF ByteSeq, IsTail
<1>1. PICK f : Runs(f, s, a) /\ Register(s, a) = f[Len(a)]
  BY RegisterRuns
<1> DEFINE g == [i \in 0..n |-> f[i + 1]]
<1>2. f \in [0..n + 1 -> Word]
  BY <1>0, <1>1 DEF Runs
<1>3. g \in [0..n -> Word]
  BY <1>0, <1>2
<1>4. f[1] = AddByte(s, a[1]) /\ f[1] \in Word
  <2>1. 1 \in 1..Len(a) /\ 1 - 1 = 0 /\ 1 \in 0..n + 1
    BY <1>0
  <2> QED
    BY <1>1, <1>2, <2>1 DEF Runs
<1>5. ASSUME NEW i \in 1..n PROVE g[i] = AddByte(g[i - 1], r[i])
  <2>1. i + 1 \in 1..Len(a) /\ (i + 1) - 1 = i /\ i - 1 \in 0..n /\ (i - 1) + 1 = i /\ i \in 0..n
    BY <1>0
  <2>2. f[i + 1] = AddByte(f[i], a[i + 1])
    BY <1>1, <2>1 DEF Runs
  <2>3. g[i] = f[i + 1] /\ g[i - 1] = f[i] /\ r[i] = a[i + 1]
    BY <2>1 DEF IsTail
  <2> QED
    BY <2>2, <2>3
<1>6. g[0] = f[1] /\ g[n] = f[n + 1]
  BY <1>0
<1> HIDE DEF g
<1>7. Runs(g, AddByte(s, a[1]), r)
  BY <1>3, <1>4, <1>5, <1>6 DEF Runs
<1>8. Register(AddByte(s, a[1]), r) = g[Len(r)]
  BY <1>4, <1>7, RegisterIs
<1> QED
  BY <1>0, <1>1, <1>6, <1>8

\* The register takes the last byte last.
LEMMA RegisterLast ==
    ASSUME NEW s \in Word, NEW a \in ByteSeq, NEW r \in ByteSeq, IsFront(r, a)
    PROVE  Register(s, a) = AddByte(Register(s, r), a[Len(a)])
<1> DEFINE n == Len(r)
<1>0. n \in Nat /\ Len(a) = n + 1
  BY DEF ByteSeq, IsFront
<1>1. PICK f : Runs(f, s, a) /\ Register(s, a) = f[Len(a)]
  BY RegisterRuns
<1> DEFINE g == [i \in 0..n |-> f[i]]
<1>2. f \in [0..n + 1 -> Word]
  BY <1>0, <1>1 DEF Runs
<1>3. g \in [0..n -> Word]
  BY <1>0, <1>2
<1>5. ASSUME NEW i \in 1..n PROVE g[i] = AddByte(g[i - 1], r[i])
  <2>1. i \in 1..Len(a) /\ i - 1 \in 0..n /\ i \in 0..n
    BY <1>0
  <2>2. f[i] = AddByte(f[i - 1], a[i])
    BY <1>1, <2>1 DEF Runs
  <2>3. g[i] = f[i] /\ g[i - 1] = f[i - 1] /\ r[i] = a[i]
    BY <2>1 DEF IsFront
  <2> QED
    BY <2>2, <2>3
<1>6. g[0] = s /\ g[n] = f[n]
  BY <1>0, <1>1 DEF Runs
<1> HIDE DEF g
<1>7. Runs(g, s, r)
  BY <1>3, <1>5, <1>6 DEF Runs
<1>8. Register(s, r) = g[Len(r)]
  BY <1>7, RegisterIs
<1>9. n + 1 \in 1..Len(a) /\ (n + 1) - 1 = n
  BY <1>0
<1>10. f[n + 1] = AddByte(f[n], a[n + 1])
  BY <1>1, <1>9 DEF Runs
<1> QED
  BY <1>0, <1>1, <1>6, <1>8, <1>10

(***************************************************************************)
(* The window mask                                                         *)
(***************************************************************************)
BlockZeros == [i \in 1..sliceByteCount |-> {}]

MaskBytes == [Zeros EXCEPT ![1] = ByteOnes, ![CrcBytes + 1] = ByteOnes]

\* The bytes the tables are computed from.
LEMMA ZeroFacts ==
    /\ sliceByteCount \in Nat /\ CrcBytes <= sliceByteCount
    /\ BlockZeros \in ByteSeq /\ Len(BlockZeros) = sliceByteCount
    /\ Zeros \in ByteSeq /\ Len(Zeros) = sliceByteCount + 1
    /\ IsTail(BlockZeros, Zeros)
    /\ \A b \in SUBSET ByteOnes :
          /\ [Zeros EXCEPT ![1] = b] \in ByteSeq
          /\ IsTail(BlockZeros, [Zeros EXCEPT ![1] = b])
    /\ MaskBytes \in ByteSeq /\ Len(MaskBytes) = sliceByteCount + 1
    /\ MaskBytes[1] = ByteOnes /\ MaskBytes[CrcBytes + 1] = ByteOnes
    /\ \A i \in 1..sliceByteCount + 1 : i # 1 /\ i # CrcBytes + 1 => MaskBytes[i] = {}
<1>1. sliceByteCount \in Nat /\ CrcBytes <= sliceByteCount /\ CrcBytes \in Nat \ {0}
  BY SizeAssumption, ChecksumAssumption
<1>2. BlockZeros \in [1..sliceByteCount -> SUBSET ByteOnes] /\ \A i \in 1..sliceByteCount : BlockZeros[i] = {}
  BY DEF BlockZeros
<1>3. Zeros \in [1..sliceByteCount + 1 -> SUBSET ByteOnes] /\ \A i \in 1..sliceByteCount + 1 : Zeros[i] = {}
  BY DEF Zeros
<1>4. BlockZeros \in ByteSeq /\ Len(BlockZeros) = sliceByteCount
  BY <1>1, <1>2 DEF ByteSeq
<1>5. Zeros \in ByteSeq /\ Len(Zeros) = sliceByteCount + 1
  BY <1>1, <1>3 DEF ByteSeq
<1>13. \A k \in 1..sliceByteCount : k + 1 \in 1..sliceByteCount + 1 /\ k + 1 # 1
  BY <1>1
<1>6. IsTail(BlockZeros, Zeros)
  BY <1>2, <1>3, <1>4, <1>5, <1>13 DEF IsTail
<1>7. ASSUME NEW b \in SUBSET ByteOnes
      PROVE  [Zeros EXCEPT ![1] = b] \in ByteSeq /\ IsTail(BlockZeros, [Zeros EXCEPT ![1] = b])
  <2> DEFINE z == [Zeros EXCEPT ![1] = b]
  <2>1. z \in [1..sliceByteCount + 1 -> SUBSET ByteOnes]
    BY <1>3
  <2>2. \A i \in 1..sliceByteCount + 1 : i # 1 => z[i] = {}
    BY <1>3
  <2> HIDE DEF z
  <2>3. z \in ByteSeq /\ Len(z) = sliceByteCount + 1
    BY <1>1, <2>1 DEF ByteSeq
  <2>4. \A k \in 1..sliceByteCount : BlockZeros[k] = z[k + 1]
    BY <1>2, <1>13, <2>2
  <2>5. IsTail(BlockZeros, z)
    BY <1>4, <2>3, <2>4 DEF IsTail
  <2> QED
    BY <2>3, <2>5 DEF z
<1>8. MaskBytes \in [1..sliceByteCount + 1 -> SUBSET ByteOnes]
  BY <1>3, WidthFacts DEF MaskBytes
<1>9. MaskBytes \in ByteSeq /\ Len(MaskBytes) = sliceByteCount + 1
  BY <1>1, <1>8 DEF ByteSeq
<1>10. 1 \in 1..sliceByteCount + 1 /\ CrcBytes + 1 \in 1..sliceByteCount + 1 /\ CrcBytes + 1 # 1
  BY <1>1
<1>11. MaskBytes[1] = ByteOnes /\ MaskBytes[CrcBytes + 1] = ByteOnes
  BY <1>3, <1>10 DEF MaskBytes
<1>12. \A i \in 1..sliceByteCount + 1 : i # 1 /\ i # CrcBytes + 1 => MaskBytes[i] = {}
  BY <1>3, <1>10 DEF MaskBytes
<1> QED
  BY <1>1, <1>4, <1>5, <1>6, <1>7, <1>9, <1>11, <1>12

\* The bits by which the registers with and without the leader differ after j
\* bytes of zeros: byte CrcBytes - 1 - j.
Band(j) == {i \in CrcOnes : CrcBits - ByteBits * (j + 1) <= i /\ i < CrcBits - ByteBits * j}

\* The difference starts in the last byte, moves down one byte at a time, and
\* is taken out when it has reached the first.
LEMMA BandFacts ==
    /\ Band(0) = CrcXor(AddByte(CrcOnes, ByteOnes), CrcOnes)
    /\ \A j \in 0..CrcBytes - 2 : Band(j) \in Word /\ AddByte(Band(j), {}) = Band(j + 1)
    /\ Band(CrcBytes - 1) \in Word /\ AddByte(Band(CrcBytes - 1), ByteOnes) = {}
<1>0. /\ ByteBits \in Nat \ {0} /\ CrcBytes \in Nat \ {0} /\ CrcBits \in Nat \ {0}
      /\ ByteBits <= CrcBits /\ CrcOnes \in Word /\ ByteOnes \in SUBSET ByteOnes /\ {} \in SUBSET ByteOnes
  BY WidthFacts
<1>1. ASSUME NEW j \in Nat PROVE Band(j) \in Word
  BY DEF Band, Word
<1>2. Band(0) = CrcXor(AddByte(CrcOnes, ByteOnes), CrcOnes)
  <2>1. AddByte(CrcOnes, ByteOnes)
          = CrcXor(IEEETable[CrcXor(CrcOnes \cap ByteOnes, ByteOnes)], ShiftRight(CrcOnes, ByteBits))
    BY <1>0, UpdateFacts
  <2>2. CrcXor(CrcOnes \cap ByteOnes, ByteOnes) = {}
    BY <1>0 DEF CrcXor, CrcOnes, ByteOnes
  <2>3. AddByte(CrcOnes, ByteOnes) = ShiftRight(CrcOnes, ByteBits)
    BY <2>1, <2>2, TableZero, XorAlgebra
  <2>4. \A i : i \in ShiftRight(CrcOnes, ByteBits) <=> i \in Nat /\ i + ByteBits \in CrcOnes
    BY <1>0, ShiftMember
  <2>5. \A i : i \in ShiftRight(CrcOnes, ByteBits) <=> i \in CrcOnes /\ i < CrcBits - ByteBits
    BY <1>0, <2>4 DEF CrcOnes
  <2>6. \A i : i \in Band(0) <=> i \in CrcOnes /\ CrcBits - ByteBits <= i
    <3>1. ByteBits * (0 + 1) = ByteBits /\ ByteBits * 0 = 0
      BY <1>0
    <3> QED
      BY <1>0, <3>1 DEF Band, CrcOnes
  <2>7. \A i \in CrcOnes : CrcBits - ByteBits <= i <=> ~(i < CrcBits - ByteBits)
    BY <1>0 DEF CrcOnes
  <2> QED
    BY <2>3, <2>5, <2>6, <2>7 DEF CrcXor
<1>3. ASSUME NEW j \in 0..CrcBytes - 2 PROVE AddByte(Band(j), {}) = Band(j + 1)
  <2>1. j \in Nat /\ CrcBytes - (j + 2) \in Nat /\ j + 1 \in Nat
    BY <1>0
  <2> DEFINE k == CrcBytes - (j + 2)
             low == ByteBits * j
             rest == ByteBits * k
  <2>2. rest \in Nat /\ low \in Nat
    BY <1>0, <2>1
  <2>3. /\ ByteBits * (j + 1) = low + ByteBits
        /\ ByteBits * ((j + 1) + 1) = low + ByteBits + ByteBits
    BY <1>0, <2>1
  <2>4. CrcBits = low + ByteBits + ByteBits + rest
    <3>1. CrcBytes = (j + 2) + k
      BY <1>0, <2>1
    <3>2. ByteBits * ((j + 2) + k) = ByteBits * (j + 2) + ByteBits * k
      BY <1>0, <2>1
    <3> QED
      BY <1>0, <2>1, <2>3, <3>1, <3>2 DEF CrcBits
  <2> HIDE DEF low, rest, k
  <2>5. \A i : i \in Band(j) <=> i \in Nat /\ rest + ByteBits <= i /\ i < rest + ByteBits + ByteBits
    BY <1>0, <2>2, <2>3, <2>4 DEF Band, CrcOnes, low
  <2>6. \A i : i \in Band(j + 1) <=> i \in Nat /\ rest <= i /\ i < rest + ByteBits
    BY <1>0, <2>2, <2>3, <2>4 DEF Band, CrcOnes
  <2>7. Band(j) \cap ByteOnes = {}
    BY <1>0, <2>2, <2>5 DEF ByteOnes
  <2>8. AddByte(Band(j), {}) = CrcXor(IEEETable[CrcXor(Band(j) \cap ByteOnes, {})], ShiftRight(Band(j), ByteBits))
    BY <1>0, <1>1, <2>1, UpdateFacts
  <2>12. CrcXor(Band(j) \cap ByteOnes, {}) = {}
    BY <2>7, XorAlgebra
  <2>9. AddByte(Band(j), {}) = ShiftRight(Band(j), ByteBits)
    <3>1. AddByte(Band(j), {}) = CrcXor({}, ShiftRight(Band(j), ByteBits))
      BY <2>8, <2>12, TableZero
    <3> QED
      BY <3>1, XorAlgebra
  <2>10. \A i : i \in ShiftRight(Band(j), ByteBits) <=> i \in Nat /\ i + ByteBits \in Band(j)
    BY <1>0, <1>1, <2>1, ShiftMember
  <2>11. \A i : i \in ShiftRight(Band(j), ByteBits) <=> i \in Nat /\ rest <= i /\ i < rest + ByteBits
    BY <1>0, <2>2, <2>5, <2>10
  <2> QED
    BY <2>6, <2>9, <2>11
<1>4. AddByte(Band(CrcBytes - 1), ByteOnes) = {}
  <2>1. CrcBytes - 1 \in Nat
    BY <1>0
  <2>2. CrcBits - ByteBits * ((CrcBytes - 1) + 1) = 0
    <3>1. (CrcBytes - 1) + 1 = CrcBytes
      BY <1>0
    <3> QED
      BY <1>0, <3>1 DEF CrcBits
  <2>3. CrcBits - ByteBits * (CrcBytes - 1) = ByteBits
    BY <1>0, <2>1 DEF CrcBits
  <2>4. \A i : i \in Band(CrcBytes - 1) <=> i \in CrcOnes /\ 0 <= i /\ i < ByteBits
    BY <2>2, <2>3 DEF Band
  <2>5. Band(CrcBytes - 1) = ByteOnes
    <3>1. \A i : i \in CrcOnes /\ 0 <= i /\ i < ByteBits <=> i \in ByteOnes
      BY <1>0 DEF ByteOnes, CrcOnes
    <3> QED
      BY <2>4, <3>1
  <2>6. ByteOnes \in Word
    BY <1>1, <2>1, <2>5
  <2>7. AddByte(ByteOnes, ByteOnes) = CrcXor(IEEETable[CrcXor(ByteOnes \cap ByteOnes, ByteOnes)], ShiftRight(ByteOnes, ByteBits))
    BY <1>0, <2>6, UpdateFacts
  <2>8. ShiftRight(ByteOnes, ByteBits) = {}
    <3>1. \A i : i \in ShiftRight(ByteOnes, ByteBits) <=> i \in Nat /\ i + ByteBits \in ByteOnes
      BY <1>0, <2>6, ShiftMember
    <3> QED
      BY <1>0, <3>1 DEF ByteOnes
  <2>9. ByteOnes \cap ByteOnes = ByteOnes
    OBVIOUS
  <2>10. CrcXor(ByteOnes, ByteOnes) = {} /\ CrcXor({}, {}) = {}
    BY XorAlgebra
  <2> QED
    BY <2>5, <2>7, <2>8, <2>9, <2>10, TableZero
<1>5. CrcBytes - 1 \in Nat /\ \A j \in 0..CrcBytes - 2 : j \in Nat
  BY <1>0
<1> QED
  BY <1>1, <1>2, <1>3, <1>4, <1>5

\* The mask's bytes leave the register as the zeros without a leader do.
LEMMA MaskRegister == Register(CrcOnes, MaskBytes) = Register(CrcOnes, BlockZeros)
<1> DEFINE n == sliceByteCount
           last == CrcBytes - 1
<1>0. /\ n \in Nat /\ last \in Nat /\ last < n /\ CrcBytes = last + 1
      /\ CrcOnes \in Word /\ ByteOnes \in SUBSET ByteOnes /\ {} \in SUBSET ByteOnes
  BY ZeroFacts, WidthFacts
<1>1. /\ Len(MaskBytes) = n + 1 /\ MaskBytes \in ByteSeq
      /\ MaskBytes[1] = ByteOnes /\ MaskBytes[last + 2] = ByteOnes
      /\ \A i \in 1..n + 1 : i # 1 /\ i # last + 2 => MaskBytes[i] = {}
  <2>1. CrcBytes + 1 = last + 2
    BY <1>0
  <2> QED
    BY <2>1, ZeroFacts
<1>2. Len(BlockZeros) = n /\ BlockZeros \in ByteSeq /\ \A i \in 1..n : BlockZeros[i] = {}
  BY ZeroFacts DEF BlockZeros
<1>3. /\ Band(0) = CrcXor(AddByte(CrcOnes, ByteOnes), CrcOnes)
      /\ \A j \in 0..last - 1 : Band(j) \in Word /\ AddByte(Band(j), {}) = Band(j + 1)
      /\ Band(last) \in Word /\ AddByte(Band(last), ByteOnes) = {}
  <2>1. CrcBytes - 2 = last - 1
    BY <1>0
  <2> QED
    BY <2>1, BandFacts
<1>4. PICK f : Runs(f, CrcOnes, MaskBytes) /\ Register(CrcOnes, MaskBytes) = f[Len(MaskBytes)]
  BY <1>0, <1>1, RegisterRuns
<1>5. PICK g : Runs(g, CrcOnes, BlockZeros) /\ Register(CrcOnes, BlockZeros) = g[Len(BlockZeros)]
  BY <1>0, <1>2, RegisterRuns
<1> HIDE DEF n, last
<1>6. /\ f \in [0..n + 1 -> Word] /\ f[0] = CrcOnes
      /\ \A i \in 1..n + 1 : f[i] = AddByte(f[i - 1], MaskBytes[i])
  BY <1>1, <1>4 DEF Runs
<1>7. /\ g \in [0..n -> Word] /\ g[0] = CrcOnes
      /\ \A i \in 1..n : g[i] = AddByte(g[i - 1], {})
  BY <1>2, <1>5 DEF Runs
<1> DEFINE Differ(j) == IF j <= last THEN f[j + 1] = CrcXor(Band(j), g[j]) ELSE f[j + 1] = g[j]
           P == {j \in 0..n : Differ(j)}
<1>8. 0 \in P
  <2>1. 0 <= last /\ 0 \in 0..n /\ 1 \in 1..n + 1 /\ 1 - 1 = 0 /\ 0 + 1 = 1
    BY <1>0
  <2>2. f[1] = AddByte(CrcOnes, ByteOnes)
    BY <1>1, <1>6, <2>1
  <2>3. CrcXor(CrcXor(AddByte(CrcOnes, ByteOnes), CrcOnes), CrcOnes) = AddByte(CrcOnes, ByteOnes)
    BY DEF CrcXor
  <2> QED
    BY <1>3, <1>7, <2>1, <2>2, <2>3
<1>9. ASSUME NEW j \in 0..(n - 1), j \in P PROVE j + 1 \in P
  <2>1. /\ j + 1 \in 0..n /\ j + 1 \in 1..n /\ j \in 0..n /\ (j + 1) - 1 = j
        /\ (j + 1) + 1 \in 1..n + 1 /\ ((j + 1) + 1) - 1 = j + 1 /\ j + 1 \in 0..n + 1
        /\ (j + 1) + 1 # 1
    BY <1>0
  <2>2. g[j] \in Word /\ f[j + 1] \in Word /\ g[j + 1] = AddByte(g[j], {})
    BY <1>7, <1>6, <2>1
  <2>3. f[(j + 1) + 1] = AddByte(f[j + 1], MaskBytes[(j + 1) + 1])
    BY <1>6, <2>1
  <2>4. CASE j < last
    <3>1. j <= last /\ j + 1 <= last /\ (j + 1) + 1 # last + 2 /\ j \in 0..last - 1
      BY <1>0, <2>4
    <3>2. f[j + 1] = CrcXor(Band(j), g[j]) /\ MaskBytes[(j + 1) + 1] = {} /\ CrcXor({}, {}) = {}
      BY <1>1, <1>9, <2>1, <3>1, XorAlgebra
    <3>3. AddByte(CrcXor(Band(j), g[j]), CrcXor({}, {})) = CrcXor(AddByte(Band(j), {}), AddByte(g[j], {}))
      BY <1>0, <1>3, <2>2, <3>1, UpdateXor
    <3>4. f[(j + 1) + 1] = CrcXor(Band(j + 1), g[j + 1])
      BY <1>3, <2>2, <2>3, <3>1, <3>2, <3>3
    <3> QED
      BY <2>1, <3>1, <3>4
  <2>5. CASE j = last
    <3>1. j <= last /\ ~(j + 1 <= last) /\ (j + 1) + 1 = last + 2
      BY <1>0, <2>5
    <3>2. f[j + 1] = CrcXor(Band(j), g[j]) /\ MaskBytes[(j + 1) + 1] = ByteOnes /\ CrcXor(ByteOnes, {}) = ByteOnes
      BY <1>1, <1>9, <2>1, <3>1, XorAlgebra
    <3>3. AddByte(CrcXor(Band(j), g[j]), CrcXor(ByteOnes, {})) = CrcXor(AddByte(Band(j), ByteOnes), AddByte(g[j], {}))
      BY <1>0, <1>3, <2>2, <2>5, UpdateXor
    <3>4. f[(j + 1) + 1] = CrcXor({}, g[j + 1])
      BY <1>3, <2>2, <2>3, <2>5, <3>2, <3>3
    <3> QED
      BY <2>1, <3>1, <3>4, XorAlgebra
  <2>6. CASE j > last
    <3>1. ~(j <= last) /\ ~(j + 1 <= last) /\ (j + 1) + 1 # last + 2
      BY <1>0, <2>6
    <3>2. f[j + 1] = g[j] /\ MaskBytes[(j + 1) + 1] = {}
      BY <1>1, <1>9, <2>1, <3>1
    <3> QED
      BY <2>1, <2>2, <2>3, <3>1, <3>2
  <2> QED
    BY <1>0, <2>4, <2>5, <2>6
<1>10. \A j \in P : Differ(j)
  OBVIOUS
<1> HIDE DEF P
<1>11. 0..n \subseteq P
  BY <1>0, <1>8, <1>9, UpTo
<1>12. n \in P /\ ~(n <= last)
  BY <1>0, <1>11
<1>13. f[n + 1] = g[n]
  BY <1>10, <1>12
<1> QED
  BY <1>1, <1>2, <1>4, <1>5, <1>13

(***************************************************************************)
(* The table of leaders                                                    *)
(***************************************************************************)

\* What is left of a leader x after a block of zeros.
Left(x) == Register(AddByte(CrcOnes, x), BlockZeros)

\* Leaders leave what their bits leave, and what the first value leaves once more.
LEMMA LeftFacts ==
    ASSUME NEW x \in SUBSET ByteOnes, NEW y \in SUBSET ByteOnes
    PROVE  /\ Left(x) \in Word
           /\ Left(CrcXor(x, y)) = CrcXor(CrcXor(Left(x), Left(y)), Left({}))
           /\ ChecksumBits([Zeros EXCEPT ![1] = x]) = CrcXor(CrcOnes, Left(x))
<1>0. /\ CrcOnes \in Word /\ {} \in SUBSET ByteOnes /\ CrcXor(x, y) \in SUBSET ByteOnes
      /\ BlockZeros \in ByteSeq /\ SumOf(BlockZeros, BlockZeros, BlockZeros)
  <2>1. SumOf(BlockZeros, BlockZeros, BlockZeros)
    BY ZeroFacts, XorAlgebra DEF SumOf, BlockZeros
  <2> QED
    BY <2>1, WidthFacts, ZeroFacts, XorType
<1>1. \A z \in SUBSET ByteOnes : AddByte(CrcOnes, z) \in Word
  BY <1>0, UpdateFacts
<1>2. \A z \in SUBSET ByteOnes : Left(z) \in Word
  BY <1>0, <1>1, RegisterType DEF Left
<1>3. ASSUME NEW u \in SUBSET ByteOnes, NEW v \in SUBSET ByteOnes
      PROVE  Register(CrcXor(AddByte(CrcOnes, u), AddByte(CrcOnes, v)), BlockZeros)
               = CrcXor(Left(u), Left(v))
  BY <1>0, <1>1, RegisterXor DEF Left
<1>4. CrcXor(AddByte(CrcOnes, CrcXor(x, y)), AddByte(CrcOnes, {}))
        = CrcXor(AddByte(CrcOnes, x), AddByte(CrcOnes, y))
  <2>1. /\ AddByte(CrcXor(CrcOnes, CrcOnes), CrcXor(CrcXor(x, y), {}))
              = CrcXor(AddByte(CrcOnes, CrcXor(x, y)), AddByte(CrcOnes, {}))
        /\ AddByte(CrcXor(CrcOnes, CrcOnes), CrcXor(x, y))
              = CrcXor(AddByte(CrcOnes, x), AddByte(CrcOnes, y))
    BY <1>0, UpdateXor
  <2>2. CrcXor(CrcXor(x, y), {}) = CrcXor(x, y)
    BY XorAlgebra
  <2> QED
    BY <2>1, <2>2
<1>5. CrcXor(Left(CrcXor(x, y)), Left({})) = CrcXor(Left(x), Left(y))
  <2>1. Register(CrcXor(AddByte(CrcOnes, CrcXor(x, y)), AddByte(CrcOnes, {})), BlockZeros)
          = CrcXor(Left(CrcXor(x, y)), Left({}))
    BY <1>0, <1>3
  <2>2. Register(CrcXor(AddByte(CrcOnes, x), AddByte(CrcOnes, y)), BlockZeros)
          = CrcXor(Left(x), Left(y))
    BY <1>3
  <2> QED
    BY <1>4, <2>1, <2>2
<1>6. CrcXor(CrcXor(Left(CrcXor(x, y)), Left({})), Left({})) = Left(CrcXor(x, y))
  BY XorAlgebra
<1>7. ChecksumBits([Zeros EXCEPT ![1] = x]) = CrcXor(CrcOnes, Left(x))
  <2> DEFINE z == [Zeros EXCEPT ![1] = x]
  <2>1. z \in ByteSeq /\ IsTail(BlockZeros, z) /\ z[1] = x
    <3>1. 1 \in 1..sliceByteCount + 1
      BY ZeroFacts
    <3> QED
      BY <3>1, ZeroFacts DEF Zeros
  <2> HIDE DEF z
  <2>2. Register(CrcOnes, z) = Left(x)
    BY <1>0, <2>1, RegisterFirst DEF Left
  <2>3. Complement(Left(x)) = CrcXor(CrcOnes, Left(x))
    BY <1>2, ComplementXor
  <2> QED
    BY <2>2, <2>3 DEF ChecksumBits, z
<1> QED
  BY <1>2, <1>5, <1>6, <1>7

SumRecord == [crc : Word, odd : BOOLEAN]

\* One more bit of b is summed.
AddBase(s, b, i) ==
    IF i \in b THEN [crc |-> CrcXor(s.crc, baseTable[i]), odd |-> ~s.odd] ELSE s

Sums(f, b) ==
    /\ f \in [0..ByteBits -> SumRecord]
    /\ f[0] = [crc |-> {}, odd |-> FALSE]
    /\ \A n \in 1..ByteBits : f[n] = AddBase(f[n - 1], b, n - 1)

\* The base table holds the CRCs of the single bits.
LEMMA BaseTableFacts ==
    ASSUME NEW i \in ByteOnes
    PROVE  baseTable[i] = CrcXor(CrcOnes, Left({i})) /\ baseTable[i] \in Word
<1>1. {i} \in SUBSET ByteOnes /\ CrcOnes \in Word
  BY WidthFacts
<1>2. baseTable[i] = CrcXor(CrcOnes, Left({i})) /\ Left({i}) \in Word
  BY <1>1, LeftFacts DEF baseTable
<1>3. CrcXor(CrcOnes, Left({i})) \in Word
  BY <1>1, <1>2, XorType DEF Word
<1> QED
  BY <1>2, <1>3

\* The sum of base CRCs is the last of the sums of the bits so far.
LEMMA BaseSumRuns ==
    ASSUME NEW b \in SUBSET ByteOnes
    PROVE  \E f : Sums(f, b) /\ BaseSum(b) = f[ByteBits]
<1> DEFINE N == ByteBits
           init == [crc |-> {}, odd |-> FALSE]
           step == [x \in SumRecord \X (1..N) |-> AddBase(x[1], b, x[2] - 1)]
           Eq(g) == g = [n \in 0..N |-> IF n = 0 THEN init ELSE AddBase(g[n - 1], b, n - 1)]
<1>1. N \in Nat /\ init \in SumRecord
  BY WidthFacts DEF SumRecord
<1>2. ASSUME NEW s \in SumRecord, NEW i \in 1..N PROVE AddBase(s, b, i - 1) \in SumRecord
  <2>1. CASE i - 1 \in b
    <3>1. i - 1 \in ByteOnes
      BY <2>1
    <3>2. baseTable[i - 1] \in Word /\ s.crc \in Word /\ s.odd \in BOOLEAN
      BY <3>1, BaseTableFacts DEF SumRecord
    <3>3. CrcXor(s.crc, baseTable[i - 1]) \in Word
      BY <3>2, XorType DEF Word
    <3> QED
      BY <2>1, <3>2, <3>3 DEF AddBase, SumRecord
  <2>2. CASE i - 1 \notin b
    BY <2>2 DEF AddBase
  <2> QED
    BY <2>1, <2>2
<1>3. IsStep(step, N, SumRecord)
  BY <1>2 DEF IsStep
<1>4. \A v \in SumRecord : \A i \in 1..N : step[<<v, i>>] = AddBase(v, b, i - 1)
  OBVIOUS
<1> HIDE DEF step
<1>5. PICK f : Follows(f, N, SumRecord, init, step)
  BY <1>1, <1>3, Recursion
<1>6. f \in [0..N -> SumRecord] /\ f[0] = init /\ f = [i \in 0..N |-> f[i]]
  BY <1>5 DEF Follows
<1>7. ASSUME NEW i \in 1..N PROVE f[i] = AddBase(f[i - 1], b, i - 1)
  <2>1. f[i - 1] \in SumRecord
    BY <1>1, <1>6
  <2> QED
    BY <1>4, <1>5, <2>1 DEF Follows
<1>8. Eq(f)
  BY <1>1, <1>6, <1>7
<1>9. ASSUME NEW g, Eq(g) PROVE g = f
  <2>1. g = [i \in 0..N |-> g[i]] /\ g[0] = init
    BY <1>1, <1>9
  <2>2. ASSUME NEW i \in 1..N PROVE g[i] = AddBase(g[i - 1], b, i - 1)
    <3>1. i \in 0..N /\ i # 0
      BY <1>1
    <3> QED
      BY <1>9, <3>1
  <2>3. Alike(f, g, N)
    BY <1>6, <1>7, <2>1, <2>2 DEF Alike
  <2> QED
    BY <1>1, <2>3, SameFunction
<1>10. BaseSum(b) = (CHOOSE g : Eq(g))[N]
  BY DEF BaseSum, AddBase
<1> HIDE DEF Eq
<1>11. (CHOOSE g : Eq(g)) = f
  BY <1>8, <1>9
<1>12. Sums(f, b)
  BY <1>6, <1>7 DEF Sums
<1> QED
  BY <1>10, <1>11, <1>12

\* The table takes out of a CRC what the old leader left, and puts the first value
\* of the register back.
LEMMA LeaderTable ==
    ASSUME NEW b \in SUBSET ByteOnes
    PROVE  crcOldLeaderMaskedTable[b] = CrcXor(Left(b), Register(CrcOnes, BlockZeros))
<1> DEFINE N == ByteBits
           Low(n) == {i \in b : i < n}
           Right(s, x) == s.crc = IF s.odd THEN CrcXor(CrcOnes, Left(x)) ELSE CrcXor(Left(x), Left({}))
<1>0. N \in Nat /\ CrcOnes \in Word /\ {} \in SUBSET ByteOnes /\ \A i \in b : i \in 0..N - 1
  BY WidthFacts DEF ByteOnes
<1>1. PICK f : Sums(f, b) /\ BaseSum(b) = f[N]
  BY BaseSumRuns
<1> DEFINE P == {n \in 0..N : Right(f[n], Low(n))}
<1>2. 0 \in P
  <2>1. Low(0) = {} /\ 0 \in 0..N
    BY <1>0
  <2>2. f[0].crc = {} /\ f[0].odd = FALSE
    BY <1>1 DEF Sums
  <2>3. CrcXor(Left({}), Left({})) = {}
    BY XorAlgebra
  <2> QED
    BY <2>1, <2>2, <2>3
<1>3. ASSUME NEW n \in 0..(N - 1), n \in P PROVE n + 1 \in P
  <2>1. n + 1 \in 0..N /\ n + 1 \in 1..N /\ (n + 1) - 1 = n /\ n \in ByteOnes /\ n \in 0..N
    BY <1>0 DEF ByteOnes
  <2>2. f[n + 1] = AddBase(f[n], b, n) /\ f[n] \in SumRecord
    BY <1>1, <2>1 DEF Sums
  <2>5. \A i \in b : i < n + 1 <=> i < n \/ i = n
    BY <1>0, <2>1
  <2>3. CASE n \in b
    <3>0. ~(n < n)
      BY <2>1
    <3>1. Low(n + 1) = CrcXor(Low(n), {n})
      BY <2>3, <2>5, <3>0 DEF CrcXor
    <3>2. Low(n) \in SUBSET ByteOnes /\ {n} \in SUBSET ByteOnes
      BY <2>1
    <3> HIDE DEF Low
    <3>3. Left(Low(n + 1)) = CrcXor(CrcXor(Left(Low(n)), Left({n})), Left({}))
      BY <3>1, <3>2, LeftFacts
    <3>4. f[n + 1].crc = CrcXor(f[n].crc, baseTable[n]) /\ f[n + 1].odd = ~f[n].odd
      BY <2>2, <2>3 DEF AddBase
    <3>5. f[n + 1].crc = CrcXor(f[n].crc, CrcXor(CrcOnes, Left({n})))
      BY <2>1, <3>4, BaseTableFacts
    <3>6. CASE f[n].odd
      <4>1. f[n].crc = CrcXor(CrcOnes, Left(Low(n)))
        BY <1>3, <3>6
      <4>2. CrcXor(CrcXor(CrcOnes, Left(Low(n))), CrcXor(CrcOnes, Left({n})))
              = CrcXor(CrcXor(CrcXor(Left(Low(n)), Left({n})), Left({})), Left({}))
        BY DEF CrcXor
      <4>3. ~f[n + 1].odd
        BY <3>4, <3>6
      <4> QED
        BY <2>1, <3>3, <3>5, <4>1, <4>2, <4>3
    <3>7. CASE ~f[n].odd
      <4>1. f[n].crc = CrcXor(Left(Low(n)), Left({}))
        BY <1>3, <3>7
      <4>2. CrcXor(CrcXor(Left(Low(n)), Left({})), CrcXor(CrcOnes, Left({n})))
              = CrcXor(CrcOnes, CrcXor(CrcXor(Left(Low(n)), Left({n})), Left({})))
        BY DEF CrcXor
      <4>3. f[n + 1].odd
        BY <3>4, <3>7
      <4> QED
        BY <2>1, <3>3, <3>5, <4>1, <4>2, <4>3
    <3> QED
      BY <3>6, <3>7
  <2>4. CASE n \notin b
    <3>1. Low(n + 1) = Low(n)
      BY <2>4, <2>5
    <3>2. f[n + 1] = f[n]
      BY <2>2, <2>4 DEF AddBase
    <3> QED
      BY <1>3, <2>1, <3>1, <3>2
  <2> QED
    BY <2>3, <2>4
<1>4. \A n \in P : Right(f[n], Low(n))
  OBVIOUS
<1>5. Low(N) = b
  BY <1>0
<1> HIDE DEF P
<1>6. 0..N \subseteq P
  BY <1>0, <1>2, <1>3, UpTo
<1>7. N \in P
  BY <1>0, <1>6
<1>8. Right(BaseSum(b), b)
  BY <1>1, <1>4, <1>5, <1>7
<1>9. crc0 = CrcXor(CrcOnes, Left({}))
  <2>1. [Zeros EXCEPT ![1] = {}] = Zeros
    BY DEF Zeros
  <2> QED
    BY <1>0, <2>1, LeftFacts DEF crc0
<1> DEFINE Z == Register(CrcOnes, BlockZeros)
<1>10. crcWindowMask = CrcXor(CrcOnes, Z)
  <2>1. Z \in Word /\ crcWindowMask = Complement(Z)
    BY <1>0, MaskRegister, RegisterType, ZeroFacts DEF crcWindowMask, ChecksumBits, MaskBytes
  <2> QED
    BY <2>1, ComplementXor
<1> HIDE DEF Z, Low
<1>11. crcOldLeaderMaskedTable[b]
         = CrcXor(CrcXor(BaseSum(b).crc, IF BaseSum(b).odd THEN {} ELSE crc0), crcWindowMask)
  BY DEF crcOldLeaderMaskedTable
<1>12. CASE BaseSum(b).odd
  <2>1. crcOldLeaderMaskedTable[b] = CrcXor(CrcXor(CrcXor(CrcOnes, Left(b)), {}), CrcXor(CrcOnes, Z))
    BY <1>8, <1>10, <1>11, <1>12
  <2>2. CrcXor(CrcXor(CrcXor(CrcOnes, Left(b)), {}), CrcXor(CrcOnes, Z)) = CrcXor(Left(b), Z)
    BY DEF CrcXor
  <2> QED
    BY <2>1, <2>2 DEF Z
<1>13. CASE ~BaseSum(b).odd
  <2>1. crcOldLeaderMaskedTable[b]
          = CrcXor(CrcXor(CrcXor(Left(b), Left({})), CrcXor(CrcOnes, Left({}))), CrcXor(CrcOnes, Z))
    BY <1>8, <1>9, <1>10, <1>11, <1>13
  <2>2. CrcXor(CrcXor(CrcXor(Left(b), Left({})), CrcXor(CrcOnes, Left({}))), CrcXor(CrcOnes, Z))
          = CrcXor(Left(b), Z)
    BY DEF CrcXor
  <2> QED
    BY <2>1, <2>2 DEF Z
<1> QED
  BY <1>12, <1>13

(***************************************************************************)
(* The rolling window                                                      *)
(***************************************************************************)
WindowCells == [1..sliceByteCount -> Byte]

\* The bits of a window.
LEMMA BitsFacts ==
    ASSUME NEW u \in WindowCells
    PROVE  /\ Bits(u) \in ByteSeq /\ Len(Bits(u)) = sliceByteCount
           /\ \A k \in 1..sliceByteCount : Bits(u)[k] = BitsOf[u[k]] /\ BitsOf[u[k]] \in SUBSET ByteOnes
<1>1. sliceByteCount \in Nat /\ Len(u) = sliceByteCount
  BY ZeroFacts DEF WindowCells
<1>2. \A c \in Byte : BitsOf[c] \in SUBSET ByteOnes
  BY DEF BitsOf
<1>3. \A k \in 1..sliceByteCount : Bits(u)[k] = BitsOf[u[k]] /\ BitsOf[u[k]] \in SUBSET ByteOnes
  BY <1>1, <1>2 DEF Bits, WindowCells
<1>4. Bits(u) = [k \in 1..sliceByteCount |-> BitsOf[u[k]]]
  BY <1>1 DEF Bits
<1>5. Bits(u) \in [1..sliceByteCount -> SUBSET ByteOnes]
  BY <1>3, <1>4
<1> QED
  BY <1>1, <1>3, <1>5 DEF ByteSeq

\* The CRC of a window is a word.
LEMMA ChecksumType ==
    ASSUME NEW u \in WindowCells
    PROVE  /\ ChecksumIEEE(u) \in SUBSET CrcOnes
           /\ ChecksumIEEE(u) = CrcXor(CrcOnes, Register(CrcOnes, Bits(u)))
           /\ Complement(ChecksumIEEE(u)) = Register(CrcOnes, Bits(u))
<1>1. Register(CrcOnes, Bits(u)) \in Word
  BY BitsFacts, WidthFacts, RegisterType
<1> QED
  BY <1>1, ComplementXor DEF ChecksumIEEE, ChecksumBits, Word

\* The window v starts one cell after the window u.
IsNext(u, v) == \A k \in 1..sliceByteCount - 1 : v[k] = u[k + 1]

\* crc32Window.update: the CRC of a window, the cell that leaves it and the cell that
\* enters give the CRC of the next window, for every block size that newCRC32Window
\* allows, every width and every polynomial.
THEOREM UpdateRolls ==
    ASSUME NEW u \in WindowCells, NEW v \in WindowCells, IsNext(u, v)
    PROVE  Update(ChecksumIEEE(u), u[1], v[sliceByteCount]) = ChecksumIEEE(v)
<1> DEFINE n == sliceByteCount
           ubits == Bits(u)
           vbits == Bits(v)
           all == [k \in 1..n + 1 |-> IF k <= n THEN ubits[k] ELSE vbits[n]]
           old == BitsOf[u[1]]
           new == BitsOf[v[n]]
           U == Register(CrcOnes, ubits)
           V == Register(CrcOnes, vbits)
           A == Register(CrcOnes, all)
           Z == Register(CrcOnes, BlockZeros)
<1>0. n \in Nat \ {0} /\ 1 \in 1..n /\ n \in 1..n /\ CrcOnes \in Word
  BY SizeAssumption, WidthFacts
<1>1. /\ ubits \in ByteSeq /\ Len(ubits) = n /\ vbits \in ByteSeq /\ Len(vbits) = n
      /\ \A k \in 1..n : ubits[k] \in SUBSET ByteOnes /\ vbits[k] \in SUBSET ByteOnes
  BY BitsFacts
<1>2. old \in SUBSET ByteOnes /\ new \in SUBSET ByteOnes /\ ubits[1] = old /\ vbits[n] = new
  BY <1>0, BitsFacts
<1>3. \A k \in 1..n - 1 : vbits[k] = ubits[k + 1]
  <2>1. \A k \in 1..n - 1 : k \in 1..n /\ k + 1 \in 1..n
    BY <1>0
  <2> QED
    BY <2>1, BitsFacts DEF IsNext
<1>4. ChecksumIEEE(u) \in Word /\ Complement(ChecksumIEEE(u)) = U /\ ChecksumIEEE(v) = CrcXor(CrcOnes, V)
  BY ChecksumType DEF Word
<1>5. BlockZeros \in ByteSeq /\ Len(BlockZeros) = n /\ \A k \in 1..n : BlockZeros[k] = {}
  BY ZeroFacts DEF BlockZeros
<1>6. all \in ByteSeq /\ Len(all) = n + 1
  <2>1. all \in [1..n + 1 -> SUBSET ByteOnes]
    BY <1>0, <1>1
  <2> HIDE DEF all
  <2> QED
    BY <1>0, <2>1 DEF ByteSeq
<1>7. all[1] = old /\ all[n + 1] = new
  BY <1>0, <1>2
<1>8. IsFront(ubits, all)
  <2>1. \A k \in 1..n : ubits[k] = all[k]
    BY <1>0
  <2> HIDE DEF all, ubits
  <2> QED
    BY <1>1, <1>6, <2>1 DEF IsFront
<1>9. IsTail(vbits, all)
  <2>1. ASSUME NEW k \in 1..n PROVE vbits[k] = all[k + 1]
    <3>1. CASE k = n
      BY <1>0, <1>2, <1>7, <3>1
    <3>2. CASE k \in 1..n - 1
      <4>1. k + 1 \in 1..n + 1 /\ k + 1 <= n
        BY <1>0, <3>2
      <4> QED
        BY <1>3, <3>2, <4>1
    <3> QED
      BY <1>0, <3>1, <3>2
  <2> HIDE DEF all, vbits
  <2> QED
    BY <1>1, <1>6, <2>1 DEF IsTail
<1> HIDE DEF n, ubits, vbits, all, old, new
<1>10. A = AddByte(U, new)
  BY <1>0, <1>1, <1>6, <1>7, <1>8, RegisterLast
<1>11. A = Register(AddByte(CrcOnes, old), vbits)
  BY <1>0, <1>1, <1>6, <1>7, <1>9, RegisterFirst
<1>12. U \in Word /\ V \in Word /\ A \in Word /\ Z \in Word /\ AddByte(CrcOnes, old) \in Word
  BY <1>0, <1>1, <1>2, <1>5, <1>6, RegisterType, UpdateFacts
<1>13. V = CrcXor(A, CrcXor(Left(old), Z))
  <2> DEFINE w == AddByte(CrcOnes, old)
             d == CrcXor(w, CrcOnes)
  <2>1. d \in Word /\ CrcXor(w, d) = CrcOnes
    BY <1>0, <1>12, XorType, XorAlgebra DEF Word
  <2>2. SumOf(vbits, vbits, BlockZeros) /\ SumOf(BlockZeros, BlockZeros, BlockZeros)
    BY <1>1, <1>5, XorAlgebra DEF SumOf
  <2>3. Register(d, BlockZeros) = CrcXor(Left(old), Z)
    BY <1>0, <1>5, <1>12, <2>2, RegisterXor DEF Left
  <2> HIDE DEF d
  <2>4. Register(CrcXor(w, d), vbits) = CrcXor(Register(w, vbits), Register(d, BlockZeros))
    BY <1>1, <1>5, <1>12, <2>1, <2>2, RegisterXor
  <2> QED
    BY <1>11, <2>1, <2>3, <2>4
<1>14. Update(ChecksumIEEE(u), u[1], v[sliceByteCount])
         = CrcXor(Complement(AddByte(U, new)), crcOldLeaderMaskedTable[old])
  BY <1>4 DEF Update, AddByte, old, new, n
<1>15. Complement(A) = CrcXor(CrcOnes, A)
  BY <1>12, ComplementXor
<1>16. crcOldLeaderMaskedTable[old] = CrcXor(Left(old), Z)
  BY <1>2, LeaderTable
<1> HIDE DEF A, V, Z
<1>17. CrcXor(CrcXor(CrcOnes, A), CrcXor(Left(old), Z)) = CrcXor(CrcOnes, CrcXor(A, CrcXor(Left(old), Z)))
  BY XorAlgebra
<1> QED
  BY <1>4, <1>10, <1>13, <1>14, <1>15, <1>16, <1>17

(***************************************************************************)
(* The size of the lookup table                                            *)
(***************************************************************************)

\* The cells of a block are bytes.
LEMMA BlockType ==
    ASSUME NEW b \in Blocks
    PROVE  Block(b) \in WindowCells
<1>1. \E f \in Protected : b[1] = f
  BY DEF Blocks
<1>2. Content[b[1]] \in Seq(Byte)
  BY <1>1, ContentAssumption
<1>3. \A p : Cell(Content[b[1]], p) \in Byte
  BY <1>2, ContentAssumption DEF Cell
<1> QED
  BY <1>3 DEF Block, ReadAt, WindowCells

\* The checksums are finitely many words.
LEMMA ChecksumMapFacts ==
    /\ DOMAIN checksumMap \subseteq Word
    /\ IsFiniteSet(DOMAIN checksumMap)
    /\ numEntries \in Nat
<1> DEFINE sum == [b \in Listed |-> ChecksumIEEE(Block(b))]
           D == {ChecksumIEEE(Block(b)) : b \in Listed}
<1>1. DOMAIN checksumMap = D
  BY DEF checksumMap
<1>2. \A b \in Listed : ChecksumIEEE(Block(b)) \in Word
  BY BlockType, ChecksumType DEF Listed, Word
<1>3. IsFiniteSet(Listed)
  BY BlocksAssumption, FS_Subset DEF Listed
<1>4. sum \in Surjection(Listed, D)
  BY DEF Surjection
<1>5. IsFiniteSet(D)
  BY <1>3, <1>4, FS_Surjection
<1>6. Cardinality(D) \in Nat
  BY <1>5, FS_CardinalityType
<1> QED
  BY <1>1, <1>2, <1>5, <1>6 DEF numEntries

\* Sizes double.
LEMMA SizesFacts ==
    \A n \in 0..numEntries : Sizes[n] \in Nat /\ Sizes[n] >= 4 * (n + 1)
<1> DEFINE N == numEntries
           step == [x \in Nat \X (1..N) |-> 2 * x[1]]
           Eq(g) == g = [n \in 0..N |-> IF n = 0 THEN minTableSize ELSE 2 * g[n - 1]]
<1>1. N \in Nat /\ minTableSize \in Nat /\ minTableSize >= 4
  BY ChecksumMapFacts, ChecksumAssumption
<1> HIDE DEF N
<1>2. IsStep(step, N, Nat)
  BY DEF IsStep
<1>3. \A v \in Nat : \A i \in 1..N : step[<<v, i>>] = 2 * v
  OBVIOUS
<1> HIDE DEF step
<1>4. PICK f : Follows(f, N, Nat, minTableSize, step)
  BY <1>1, <1>2, Recursion
<1>5. f \in [0..N -> Nat] /\ f[0] = minTableSize /\ f = [i \in 0..N |-> f[i]]
  BY <1>4 DEF Follows
<1>6. ASSUME NEW i \in 1..N PROVE f[i] = 2 * f[i - 1]
  <2>1. f[i - 1] \in Nat
    BY <1>1, <1>5
  <2> QED
    BY <1>3, <1>4, <2>1 DEF Follows
<1>7. Eq(f)
  <2>1. ASSUME NEW i \in 0..N PROVE f[i] = IF i = 0 THEN minTableSize ELSE 2 * f[i - 1]
    <3>1. CASE i = 0
      BY <1>5, <3>1
    <3>2. CASE i \in 1..N
      BY <1>6, <3>2
    <3> QED
      BY <1>1, <3>1, <3>2
  <2> QED
    BY <1>5, <2>1
<1>8. ASSUME NEW g, Eq(g) PROVE g = f
  <2>1. g = [i \in 0..N |-> g[i]] /\ g[0] = minTableSize
    BY <1>1, <1>8
  <2>2. \A i \in 1..N : g[i] = 2 * g[i - 1]
    BY <1>1, <1>8
  <2>3. Alike(f, g, N)
    BY <1>5, <1>6, <2>1, <2>2 DEF Alike
  <2> QED
    BY <1>1, <2>3, SameFunction
<1>9. Sizes = CHOOSE g : Eq(g)
  BY DEF Sizes, N
<1> HIDE DEF Eq
<1>10. Sizes = f
  BY <1>7, <1>8, <1>9
<1> DEFINE P == {n \in 0..N : f[n] >= 4 * (n + 1)}
<1>11. 0 \in P
  BY <1>1, <1>5
<1>12. ASSUME NEW n \in 0..(N - 1), n \in P PROVE n + 1 \in P
  <2>1. n + 1 \in 1..N /\ n + 1 \in 0..N /\ (n + 1) - 1 = n /\ n \in 0..N
    BY <1>1
  <2>2. f[n + 1] = 2 * f[n] /\ f[n] \in Nat /\ f[n] >= 4 * (n + 1)
    BY <1>5, <1>6, <1>12, <2>1
  <2> QED
    BY <2>1, <2>2
<1>13. \A n \in P : f[n] >= 4 * (n + 1)
  OBVIOUS
<1> HIDE DEF P
<1>14. 0..N \subseteq P
  BY <1>1, <1>11, <1>12, UpTo
<1> QED
  BY <1>5, <1>10, <1>13, <1>14 DEF N

\* The least element of a nonempty set of naturals.
LEMMA MinFacts ==
    ASSUME NEW T \in SUBSET Nat, T # {}
    PROVE  Min(T) \in T /\ \A k \in T : Min(T) <= k
<1>1. \E m \in T : \A k \in T : m <= k
  BY LeastNatural
<1> QED
  BY <1>1 DEF Min

\* newCRCLookupTable: at most a quarter of the slots is taken.
LEMMA TableSizeFacts == TableSize \in Nat \ {0} /\ TableSize >= 4 * numEntries /\ numEntries < TableSize
<1> DEFINE T == {s \in {Sizes[n] : n \in 0..numEntries} : s >= numEntries * 4}
<1>1. numEntries \in Nat /\ numEntries \in 0..numEntries /\ 0 \in 0..numEntries
  BY ChecksumMapFacts
<1>2. T \in SUBSET Nat
  BY SizesFacts
<1>3. Sizes[numEntries] \in T
  <2>1. Sizes[numEntries] >= numEntries * 4
    BY <1>1, SizesFacts
  <2> QED
    BY <1>1, <2>1
<1>4. \A s \in T : s >= 4 /\ s >= numEntries * 4
  <2>1. \A n \in 0..numEntries : Sizes[n] >= 4
    BY <1>1, SizesFacts
  <2> QED
    BY <2>1
<1> HIDE DEF T
<1>5. Min(T) \in T
  BY <1>2, <1>3, MinFacts
<1>6. TableSize \in T
  BY <1>5 DEF TableSize, T
<1> QED
  BY <1>1, <1>2, <1>4, <1>6

(***************************************************************************)
(* Probing                                                                 *)
(***************************************************************************)

\* The number of a word is a natural number.
LEMMA NumberType ==
    ASSUME NEW c \in Word
    PROVE  NumberOf[c] \in Nat
<1> DEFINE N == CrcBits
           Next1(v, n) == 2 * v + (IF CrcBits - n \in c THEN 1 ELSE 0)
           step == [x \in Nat \X (1..N) |-> Next1(x[1], x[2])]
           Eq(g) == g = [n \in 0..N |-> IF n = 0 THEN 0 ELSE Next1(g[n - 1], n)]
<1>1. N \in Nat
  BY WidthFacts
<1>9. NumberOf[c] = (CHOOSE g : Eq(g))[N]
  BY DEF NumberOf, Word
<1>0. \A v \in Nat : \A i \in 1..N : Next1(v, i) \in Nat
  OBVIOUS
<1> HIDE DEF N, Next1
<1>2. IsStep(step, N, Nat)
  BY <1>0 DEF IsStep
<1>3. \A v \in Nat : \A i \in 1..N : step[<<v, i>>] = Next1(v, i)
  OBVIOUS
<1> HIDE DEF step
<1>4. PICK f : Follows(f, N, Nat, 0, step)
  BY <1>1, <1>2, Recursion
<1>5. f \in [0..N -> Nat] /\ f[0] = 0 /\ f = [i \in 0..N |-> f[i]]
  BY <1>4 DEF Follows
<1>6. ASSUME NEW i \in 1..N PROVE f[i] = Next1(f[i - 1], i)
  <2>1. f[i - 1] \in Nat
    BY <1>1, <1>5
  <2> QED
    BY <1>3, <1>4, <2>1 DEF Follows
<1>7. Eq(f)
  BY <1>1, <1>5, <1>6
<1>8. ASSUME NEW g, Eq(g) PROVE g = f
  <2>1. g = [i \in 0..N |-> g[i]] /\ g[0] = 0
    BY <1>1, <1>8
  <2>2. \A i \in 1..N : g[i] = Next1(g[i - 1], i)
    BY <1>1, <1>8
  <2>3. Alike(f, g, N)
    BY <1>5, <1>6, <2>1, <2>2 DEF Alike
  <2> QED
    BY <1>1, <2>3, SameFunction
<1> HIDE DEF Eq
<1>10. (CHOOSE g : Eq(g)) = f
  BY <1>7, <1>8
<1>11. f[N] \in Nat
  BY <1>1, <1>5
<1>12. NumberOf[c] = f[N]
  BY <1>9, <1>10
<1> QED
  BY <1>11, <1>12

\* The remainder is what is left of a multiple.
LEMMA RemainderIs ==
    ASSUME NEW m \in Nat \ {0}, NEW q \in Int, NEW r \in 0..m - 1
    PROVE  (m * q + r) % m = r
<1> DEFINE x == m * q + r
           d == x \div m
           e == x % m
<1>1. x \in Int /\ d \in Int /\ e \in 0..m - 1 /\ x = m * d + e
  OBVIOUS
<1>2. m * (d - q) = r - e
  BY <1>1
<1> HIDE DEF x, d, e
<1>3. CASE d - q >= 1
  <2>1. m * (d - q) >= m
    BY <1>1, <1>3
  <2> QED
    BY <1>1, <1>2, <2>1
<1>4. CASE d - q <= -1
  <2>1. m * (d - q) <= -m
    BY <1>1, <1>4
  <2> QED
    BY <1>1, <1>2, <2>1
<1>5. CASE d = q
  BY <1>1, <1>2, <1>5 DEF e, x
<1> QED
  BY <1>1, <1>3, <1>4, <1>5

\* A number is its quotient and its remainder.
LEMMA Remainder ==
    ASSUME NEW m \in Nat \ {0}, NEW x \in Nat
    PROVE  x \div m \in Int /\ x % m \in 0..m - 1 /\ x = m * (x \div m) + (x % m)
  OBVIOUS

Slots == 0..TableSize - 1

\* Every probe is in the table, and probing comes to every slot.
LEMMA SlotFacts ==
    ASSUME NEW c \in Word
    PROVE  /\ \A k \in Slots : Slot(c, k) \in Slots
           /\ \A i \in Slots : \E k \in Slots : Slot(c, k) = i
<1> DEFINE m == TableSize
           x == NumberOf[c]
           q == x \div m
           h == x % m
<1>1. m \in Nat \ {0} /\ x \in Nat
  BY TableSizeFacts, NumberType
<1>2. q \in Int /\ h \in 0..m - 1 /\ x = m * q + h
  BY <1>1, Remainder
<1>3. ASSUME NEW k \in Slots PROVE Slot(c, k) \in Slots
  BY <1>1 DEF Slot, Slots
<1> HIDE DEF q, h
<1>4. ASSUME NEW i \in Slots PROVE \E k \in Slots : Slot(c, k) = i
  <2>0. i \in 0..m - 1
    BY DEF Slots
  <2>1. CASE i >= h
    <3>1. i - h \in Slots
      BY <1>1, <1>2, <2>0, <2>1 DEF Slots
    <3>2. x + (i - h) = m * q + i
      BY <1>1, <1>2, <2>0
    <3>3. (m * q + i) % m = i
      BY <1>1, <1>2, <2>0, RemainderIs
    <3> QED
      BY <3>1, <3>2, <3>3 DEF Slot
  <2>2. CASE i < h
    <3>1. (i - h) + m \in Slots
      BY <1>1, <1>2, <2>0, <2>2 DEF Slots
    <3>2. x + ((i - h) + m) = m * (q + 1) + i /\ q + 1 \in Int
      BY <1>1, <1>2, <2>0
    <3>3. (m * (q + 1) + i) % m = i
      BY <1>1, <2>0, <3>2, RemainderIs
    <3> QED
      BY <3>1, <3>2, <3>3 DEF Slot
  <2> QED
    BY <1>2, <2>0, <2>1, <2>2
<1> QED
  BY <1>3, <1>4

\* The k-th probe for c is the first that is free or holds c.
Stops(t, c, k) ==
    /\ t[Slot(c, k)] \subseteq {c}
    /\ \A j \in 0..k - 1 : ~(t[Slot(c, j)] \subseteq {c})

\* Probing stops at the first slot that is free or holds c, if there is one.
LEMMA ProbeFacts ==
    ASSUME NEW t, NEW c \in Word, NEW i \in Slots, t[i] \subseteq {c}
    PROVE  \E k \in Slots : Stops(t, c, k) /\ Probe(t, c) = Slot(c, k)
<1> DEFINE T == {k \in Slots : t[Slot(c, k)] \subseteq {c}}
<1>0. TableSize \in Nat \ {0}
  BY TableSizeFacts
<1>1. T \in SUBSET Nat /\ T # {}
  <2>1. \E k \in Slots : Slot(c, k) = i
    BY SlotFacts
  <2> QED
    BY <1>0, <2>1 DEF Slots
<1>2. PICK m \in T : \A k \in T : m <= k
  <2> HIDE DEF T
  <2> QED
    BY <1>1, LeastNatural
<1>3. \A j \in 0..m - 1 : j \in Slots /\ ~(m <= j)
  BY <1>0, <1>2 DEF Slots
<1>4. Stops(t, c, m) /\ m \in Slots
  BY <1>2, <1>3 DEF Stops
<1>5. Probe(t, c) = Slot(c, CHOOSE k \in Slots : Stops(t, c, k))
  BY DEF Probe, Stops, Slots
<1>6. (CHOOSE k \in Slots : Stops(t, c, k)) \in Slots
      /\ Stops(t, c, CHOOSE k \in Slots : Stops(t, c, k))
  BY <1>4
<1> QED
  BY <1>5, <1>6

\* There is only one such probe.
LEMMA StopsOnce ==
    ASSUME NEW t, NEW c, NEW j \in Slots, NEW k \in Slots, Stops(t, c, j), Stops(t, c, k)
    PROVE  j = k
<1>1. TableSize \in Nat \ {0}
  BY TableSizeFacts
<1>2. j \in Int /\ k \in Int /\ 0 <= j /\ 0 <= k
  BY <1>1 DEF Slots
<1>3. CASE j < k
  <2>1. j \in 0..k - 1
    BY <1>2, <1>3
  <2> QED
    BY <2>1 DEF Stops
<1>4. CASE k < j
  <2>1. k \in 0..j - 1
    BY <1>2, <1>4
  <2> QED
    BY <2>1 DEF Stops
<1> QED
  BY <1>2, <1>3, <1>4

(***************************************************************************)
(* The filled table                                                        *)
(***************************************************************************)
Table == [Slots -> SUBSET Word]

Insert(t, c) == [t EXCEPT ![Probe(t, c)] = {c}]

Used(t) == {i \in Slots : t[i] # {}}

\* The table t holds the words C, each where probing for it stops, and at most n
\* slots are taken.
Holds(t, C, n) ==
    /\ t \in Table
    /\ \A i \in Slots : t[i] = {} \/ \E c \in C : t[i] = {c}
    /\ \A c \in C : \E k \in Slots : Stops(t, c, k) /\ t[Slot(c, k)] = {c}
    /\ IsFiniteSet(Used(t)) /\ Cardinality(Used(t)) <= n

\* A table that is not full has a free slot.
LEMMA FreeSlot ==
    ASSUME NEW t, NEW C, NEW n \in Nat, n < TableSize, Holds(t, C, n)
    PROVE  \E i \in Slots : t[i] = {}
<1>1. SUFFICES ASSUME \A i \in Slots : t[i] # {} PROVE FALSE
  OBVIOUS
<1>2. Used(t) = Slots
  BY <1>1 DEF Used
<1>3. Cardinality(Slots) = TableSize /\ TableSize \in Nat
  <2>1. 0 \in Int /\ TableSize - 1 \in Int /\ TableSize \in Nat \ {0}
    BY TableSizeFacts
  <2>2. Cardinality(0..TableSize - 1) = IF 0 > TableSize - 1 THEN 0 ELSE (TableSize - 1) - 0 + 1
    BY <2>1, FS_Interval
  <2> QED
    BY <2>1, <2>2 DEF Slots
<1> QED
  BY <1>2, <1>3 DEF Holds

\* A word that is inserted is found, and so is every other.
LEMMA InsertHolds ==
    ASSUME NEW t, NEW C \in SUBSET Word, NEW n \in Nat, n < TableSize, Holds(t, C, n),
           NEW c \in Word, c \notin C
    PROVE  Holds(Insert(t, c), C \cup {c}, n + 1)
<1> DEFINE p == Probe(t, c)
           u == Insert(t, c)
<1>1. PICK i \in Slots : t[i] = {}
  BY FreeSlot
<1>2. t[i] \subseteq {c}
  BY <1>1
<1>3. PICK k \in Slots : Stops(t, c, k) /\ p = Slot(c, k)
  BY <1>2, ProbeFacts
<1>4. p \in Slots /\ t[p] \subseteq {c}
  BY <1>3, SlotFacts DEF Stops
<1> HIDE DEF p
<1>5. t[p] = {}
  <2>1. t[p] = {} \/ \E d \in C : t[p] = {d}
    BY <1>4 DEF Holds
  <2> QED
    BY <1>4, <2>1
<1>6. u \in Table /\ u[p] = {c} /\ \A j \in Slots : j # p => u[j] = t[j]
  <2>1. t \in [Slots -> SUBSET Word] /\ {c} \in SUBSET Word
    BY DEF Holds, Table
  <2>2. u = [t EXCEPT ![p] = {c}]
    BY DEF Insert, p
  <2> QED
    BY <1>4, <2>1, <2>2 DEF Table
<1> HIDE DEF u
<1>7. \A j \in Slots : u[j] = {} \/ \E d \in C \cup {c} : u[j] = {d}
  <2> SUFFICES ASSUME NEW j \in Slots PROVE u[j] = {} \/ \E d \in C \cup {c} : u[j] = {d}
    OBVIOUS
  <2>1. CASE j = p
    BY <1>6, <2>1
  <2>2. CASE j # p
    <3>1. t[j] = {} \/ \E d \in C : t[j] = {d}
      BY DEF Holds
    <3> QED
      BY <1>6, <2>2, <3>1
  <2> QED
    BY <2>1, <2>2
<1>0. TableSize \in Nat \ {0}
  BY TableSizeFacts
<1> DEFINE Here(d, m) == t[Slot(d, m)] = {d} \/ (d = c /\ m = k)
<1>8. ASSUME NEW d \in Word, NEW m \in Slots, Stops(t, d, m), Here(d, m)
      PROVE  Stops(u, d, m) /\ u[Slot(d, m)] = {d}
  <2>1. \A j \in 0..m - 1 : j \in Slots
    BY <1>0 DEF Slots
  <2>2. \A j \in 0..m - 1 : Slot(d, j) \in Slots /\ Slot(d, j) # p
    BY <1>5, <1>8, <2>1, SlotFacts DEF Stops
  <2>3. \A j \in 0..m - 1 : ~(u[Slot(d, j)] \subseteq {d})
    BY <1>6, <1>8, <2>2 DEF Stops
  <2>4. u[Slot(d, m)] = {d}
    <3>1. CASE d = c /\ m = k
      BY <1>3, <1>6, <3>1
    <3>2. CASE t[Slot(d, m)] = {d}
      <4>1. Slot(d, m) \in Slots /\ Slot(d, m) # p
        BY <1>5, <3>2, SlotFacts
      <4> QED
        BY <1>6, <3>2, <4>1
    <3> QED
      BY <1>8, <3>1, <3>2
  <2> QED
    BY <2>3, <2>4 DEF Stops
<1>9. \A d \in C \cup {c} : \E m \in Slots : Stops(u, d, m) /\ u[Slot(d, m)] = {d}
  <2>1. ASSUME NEW d \in C PROVE \E m \in Slots : Stops(u, d, m) /\ u[Slot(d, m)] = {d}
    <3>1. PICK m \in Slots : Stops(t, d, m) /\ t[Slot(d, m)] = {d}
      BY DEF Holds
    <3>4. d \in Word
      OBVIOUS
    <3>2. Here(d, m)
      BY <3>1
    <3> HIDE DEF Here
    <3>3. Stops(u, d, m) /\ u[Slot(d, m)] = {d}
      BY <1>8, <3>1, <3>2, <3>4
    <3> QED
      BY <3>3
  <2>2. Stops(u, c, k) /\ u[Slot(c, k)] = {c}
    BY <1>3, <1>8
  <2> QED
    BY <2>1, <2>2
<1>10. IsFiniteSet(Used(u)) /\ Cardinality(Used(u)) <= n + 1
  <2>1. IsFiniteSet(Used(t)) /\ Cardinality(Used(t)) <= n
    BY DEF Holds
  <2>2. Used(u) \in SUBSET (Used(t) \cup {p})
    BY <1>6 DEF Used
  <2>3. /\ IsFiniteSet(Used(t) \cup {p})
        /\ Cardinality(Used(t) \cup {p}) = IF p \in Used(t) THEN Cardinality(Used(t)) ELSE Cardinality(Used(t)) + 1
    BY <2>1, FS_AddElement
  <2>4. IsFiniteSet(Used(u)) /\ Cardinality(Used(u)) <= Cardinality(Used(t) \cup {p})
    BY <2>2, <2>3, FS_Subset
  <2>5. Cardinality(Used(t)) \in Nat /\ Cardinality(Used(u)) \in Nat
    BY <2>1, <2>4, FS_CardinalityType
  <2> QED
    BY <2>1, <2>3, <2>4, <2>5
<1> QED
  BY <1>6, <1>7, <1>9, <1>10 DEF Holds, u

\* The empty table holds nothing.
LEMMA EmptyHolds == Holds([i \in Slots |-> {}], {}, 0)
<1>1. Used([i \in Slots |-> {}]) = {}
  BY DEF Used
<1>2. IsFiniteSet({}) /\ Cardinality({}) <= 0
  BY FS_EmptySet
<1> QED
  BY <1>1, <1>2 DEF Holds, Table

\* An order of the checksums names every one of them once.
LEMMA OrderFacts ==
    ASSUME NEW order \in SetToSeqs(DOMAIN checksumMap)
    PROVE  /\ order \in [1..numEntries -> DOMAIN checksumMap]
           /\ Len(order) = numEntries
           /\ \A i, j \in 1..numEntries : i # j => order[i] # order[j]
           /\ \A c \in DOMAIN checksumMap : \E i \in 1..numEntries : order[i] = c
<1> DEFINE D == DOMAIN checksumMap
           N == numEntries
<1>1. order \in [1..N -> D] /\ \A i, j \in 1..N : i # j => order[i] # order[j]
  BY DEF SetToSeqs, numEntries
<1>2. N \in Nat /\ IsFiniteSet(D) /\ Cardinality(D) = N
  BY ChecksumMapFacts DEF numEntries
<1>3. IsFiniteSet(1..N) /\ Cardinality(1..N) = N
  <2>1. 1 \in Int /\ N \in Int
    BY <1>2
  <2>2. IsFiniteSet(1..N) /\ Cardinality(1..N) = IF 1 > N THEN 0 ELSE N - 1 + 1
    BY <2>1, FS_Interval
  <2> QED
    BY <1>2, <2>2
<1>4. order \in Injection(1..N, D)
  BY <1>1 DEF Injection, IsInjective
<1>5. order \in Surjection(1..N, D)
  BY <1>2, <1>3, <1>4, FS_Injection
<1>6. Len(order) = N
  BY <1>1, <1>2
<1> QED
  BY <1>1, <1>5, <1>6 DEF Surjection

Fills(f, order) ==
    /\ f \in [0..numEntries -> Table]
    /\ f[0] = [i \in Slots |-> {}]
    /\ \A n \in 1..numEntries : f[n] = Insert(f[n - 1], order[n])

\* The filled table is the last of the tables after each insertion.
LEMMA FilledRuns ==
    ASSUME NEW order \in SetToSeqs(DOMAIN checksumMap)
    PROVE  \E f : Fills(f, order) /\ Filled(order) = f[numEntries]
<1> DEFINE N == numEntries
           init == [i \in Slots |-> {}]
           step == [x \in Table \X (1..N) |-> Insert(x[1], order[x[2]])]
           Eq(g) == g = [n \in 0..N |-> IF n = 0 THEN init ELSE Insert(g[n - 1], order[n])]
<1>1. N \in Nat /\ init \in Table /\ Len(order) = N
  BY ChecksumMapFacts, OrderFacts DEF Table
<1>2. ASSUME NEW t \in Table, NEW i \in 1..N PROVE Insert(t, order[i]) \in Table
  <2>1. {order[i]} \in SUBSET Word
    BY OrderFacts, ChecksumMapFacts
  <2> QED
    BY <2>1 DEF Insert, Table
<1>9. Filled(order) = (CHOOSE g : Eq(g))[N]
  BY <1>1 DEF Filled, Insert, Slots
<1> HIDE DEF N, init
<1>3. IsStep(step, N, Table)
  BY <1>2 DEF IsStep
<1>4. \A v \in Table : \A i \in 1..N : step[<<v, i>>] = Insert(v, order[i])
  OBVIOUS
<1> HIDE DEF step
<1>5. PICK f : Follows(f, N, Table, init, step)
  BY <1>1, <1>3, Recursion
<1>6. f \in [0..N -> Table] /\ f[0] = init /\ f = [i \in 0..N |-> f[i]]
  BY <1>5 DEF Follows
<1>7. ASSUME NEW i \in 1..N PROVE f[i] = Insert(f[i - 1], order[i])
  <2>1. f[i - 1] \in Table
    BY <1>1, <1>6
  <2> QED
    BY <1>4, <1>5, <2>1 DEF Follows
<1>8. Eq(f)
  BY <1>1, <1>6, <1>7
<1>10. ASSUME NEW g, Eq(g) PROVE g = f
  <2>1. g = [i \in 0..N |-> g[i]] /\ g[0] = init
    BY <1>1, <1>10
  <2>2. \A i \in 1..N : g[i] = Insert(g[i - 1], order[i])
    BY <1>1, <1>10
  <2>3. Alike(f, g, N)
    BY <1>6, <1>7, <2>1, <2>2 DEF Alike
  <2> QED
    BY <1>1, <2>3, SameFunction
<1> HIDE DEF Eq
<1>11. (CHOOSE g : Eq(g)) = f
  BY <1>8, <1>10
<1>12. Fills(f, order)
  BY <1>6, <1>7 DEF Fills, N, init
<1>13. Filled(order) = f[N]
  BY <1>9, <1>11
<1> QED
  BY <1>12, <1>13 DEF N

\* Every table that newCRCLookupTable may build holds the checksums, and is not full.
LEMMA TableHolds ==
    ASSUME NEW t \in newCRCLookupTables
    PROVE  Holds(t, DOMAIN checksumMap, numEntries)
<1> DEFINE N == numEntries
<1>1. PICK order \in SetToSeqs(DOMAIN checksumMap) : t = Filled(order)
  BY DEF newCRCLookupTables
<1>2. PICK f : Fills(f, order) /\ Filled(order) = f[N]
  BY FilledRuns
<1>3. /\ order \in [1..N -> DOMAIN checksumMap]
      /\ \A i, j \in 1..N : i # j => order[i] # order[j]
      /\ \A c \in DOMAIN checksumMap : \E i \in 1..N : order[i] = c
  BY OrderFacts
<1>4. N \in Nat /\ N < TableSize /\ TableSize \in Nat /\ DOMAIN checksumMap \subseteq Word
  BY ChecksumMapFacts, TableSizeFacts
<1> HIDE DEF N
<1> DEFINE C(n) == {order[i] : i \in 1..n}
           P == {n \in 0..N : Holds(f[n], C(n), n)}
<1>5. 0 \in P
  <2>1. C(0) = {} /\ 0 \in 0..N
    BY <1>4
  <2> HIDE DEF C
  <2>2. f[0] = [i \in Slots |-> {}]
    BY <1>2 DEF Fills, N
  <2> QED
    BY <2>1, <2>2, EmptyHolds
<1>6. ASSUME NEW n \in 0..(N - 1), n \in P PROVE n + 1 \in P
  <2>1. /\ n + 1 \in 1..N /\ n + 1 \in 0..N /\ (n + 1) - 1 = n /\ n \in Nat /\ n < TableSize
        /\ \A i \in 1..n : i \in 1..N /\ i # n + 1
        /\ \A i \in 1..n + 1 : i \in 1..n \/ i = n + 1
        /\ \A i \in 1..n : i \in 1..n + 1
        /\ n + 1 \in 1..n + 1
    BY <1>4
  <2> DEFINE c == order[n + 1]
  <2>2. c \in Word /\ c \notin C(n) /\ C(n) \in SUBSET Word
    BY <1>3, <1>4, <2>1
  <2>3. C(n + 1) = C(n) \cup {c}
    BY <2>1
  <2>4. f[n + 1] = Insert(f[n], c)
    BY <1>2, <2>1 DEF Fills, N
  <2>5. Holds(f[n], C(n), n)
    BY <1>6
  <2> HIDE DEF C, c
  <2>6. Holds(Insert(f[n], c), C(n) \cup {c}, n + 1)
    BY <2>1, <2>2, <2>5, InsertHolds
  <2> QED
    BY <2>1, <2>3, <2>4, <2>6
<1>7. \A n \in P : Holds(f[n], C(n), n)
  OBVIOUS
<1>8. C(N) = DOMAIN checksumMap
  BY <1>3
<1> HIDE DEF P, C
<1>9. 0..N \subseteq P
  BY <1>4, <1>5, <1>6, UpTo
<1>10. N \in P
  BY <1>4, <1>9
<1> QED
  BY <1>1, <1>2, <1>7, <1>8, <1>10 DEF N

\* crcLookupTable.Lookup: in whatever order the checksums were inserted, a lookup
\* finds the blocks of a CRC of the set and nothing for any other CRC.
THEOREM LookupFindsAll ==
    ASSUME NEW t \in newCRCLookupTables, NEW c \in SUBSET CrcOnes
    PROVE  Lookup(t, c) = IF c \in DOMAIN checksumMap THEN checksumMap[c] ELSE {}
<1>0. c \in Word /\ numEntries \in Nat /\ numEntries < TableSize
  BY ChecksumMapFacts, TableSizeFacts DEF Word
<1>1. Holds(t, DOMAIN checksumMap, numEntries)
  BY TableHolds
<1>2. CASE c \in DOMAIN checksumMap
  <2>1. PICK k \in Slots : Stops(t, c, k) /\ t[Slot(c, k)] = {c}
    BY <1>1, <1>2 DEF Holds
  <2>2. Slot(c, k) \in Slots /\ t[Slot(c, k)] \subseteq {c}
    BY <1>0, <2>1, SlotFacts
  <2>3. PICK m \in Slots : Stops(t, c, m) /\ Probe(t, c) = Slot(c, m)
    BY <1>0, <2>2, ProbeFacts
  <2>4. m = k
    BY <2>1, <2>3, StopsOnce
  <2>5. c \in t[Probe(t, c)]
    BY <2>1, <2>3, <2>4
  <2> QED
    BY <1>2, <2>5 DEF Lookup
<1>3. CASE c \notin DOMAIN checksumMap
  <2>1. PICK i \in Slots : t[i] = {}
    BY <1>0, <1>1, FreeSlot
  <2>2. t[i] \subseteq {c}
    BY <2>1
  <2>3. PICK m \in Slots : Stops(t, c, m) /\ Probe(t, c) = Slot(c, m)
    BY <1>0, <2>2, ProbeFacts
  <2>4. Slot(c, m) \in Slots
    BY <1>0, SlotFacts
  <2>5. t[Slot(c, m)] = {} \/ \E d \in DOMAIN checksumMap : t[Slot(c, m)] = {d}
    BY <1>1, <2>4 DEF Holds
  <2>6. c \notin t[Probe(t, c)]
    BY <1>3, <2>3, <2>5
  <2> QED
    BY <1>3, <2>6 DEF Lookup
<1> QED
  BY <1>2, <1>3

=============================================================================
