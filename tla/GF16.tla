-------------------------------- MODULE GF16 --------------------------------
(***************************************************************************)
(* Package gf16: the field GF(2^Width) and the kernels that multiply a     *)
(* slice of bytes by one element.  The code has Width = 16; every table    *)
(* and kernel is written for any width that is a multiple of four, so that *)
(* GF(2^4) can be checked in full.  An element, a byte and a nibble are    *)
(* the sets of their one bits; an element is two bytes, little-endian, a   *)
(* byte two nibbles.  cpu is what the processor offers: "scalar", "ssse3"  *)
(* or "avx2".                                                              *)
(***************************************************************************)
EXTENDS Integers, Sequences, SequencesExt, FiniteSetsExt

CONSTANTS
    Width,           \* bits of an element
    Polynomial,      \* the full irreducible polynomial, 0x1100b in the code
    g,               \* the generator the tables are built with
    laneBytes,       \* bytes of a lane of a vector register
    smallSliceBytes  \* up to here the scalar kernels build no table

order == 2^Width

T == SUBSET (0..Width - 1)

byteBits == Width \div 2

Byte == SUBSET (0..byteBits - 1)

nibbleBits == Width \div 4

Nibble == SUBSET (0..nibbleBits - 1)

zero == {}

one == {0}

CPUs == {"scalar", "ssse3", "avx2"}

elementBytes == 2

\* A block is two registers; a register of AVX2 has two lanes.
Lanes(cpu) == IF cpu = "avx2" THEN 2 ELSE 1

BlockOf(cpu) == 2 * Lanes(cpu) * laneBytes

\* KernelBlockBytes
blockBytes(cpu) == IF cpu = "scalar" THEN elementBytes ELSE BlockOf(cpu)

\* The same function and the same sequence.  TLC computes their members once, as
\* the code does when it fills a table or a slice.
Table(f) == CHOOSE h \in {f} : h = f

Stored(s) == SubSeq(s, 1, Len(s))

(***************************************************************************)
(* Elements                                                                *)
(***************************************************************************)
ShiftLeft(a, n) == {i + n : i \in a}

ShiftRight(a, n) == {i - n : i \in {j \in a : j >= n}}

Plus(a, b) == (a \ b) \cup (b \ a)

\* The sum of f[i] for the i of a set: the bits of an odd number of them.
Sum2(f, S) == {b \in 0..Width - 1 : Cardinality({i \in S : b \in f[i]}) % 2 = 1}

multByTwo(p) ==
    Plus(ShiftLeft(p \ {Width - 1}, 1),
         IF Width - 1 \in p THEN Polynomial \ {Width} ELSE {})

\* timesPoly: shift and add, with the full polynomial.
ShiftPoly(a) ==
    IF Width - 1 \in a THEN Plus(ShiftLeft(a, 1), Polynomial) ELSE ShiftLeft(a, 1)

timesPoly(t, u) ==
    LET shifted[n \in 0..Width] == IF n = 0 THEN t ELSE ShiftPoly(shifted[n - 1])
    IN  Sum2(shifted, u)

\* init: the powers of g and their logarithms.
expTable ==
    LET power[p \in 0..order - 2] == IF p = 0 THEN one ELSE timesPoly(power[p - 1], g)
    IN  Table(power)

logTable == Table([x \in T \ {zero} |-> CHOOSE p \in 0..order - 2 : expTable[p] = x])

\* init panics unless the powers of g are all different.
ASSUME FieldAssumption ==
    /\ Width \in Nat \ {0} /\ Width % 4 = 0
    /\ Polynomial \in SUBSET (0..Width) /\ Width \in Polynomial
    /\ g \in T
    /\ {expTable[p] : p \in 0..order - 2} = T \ {zero}
    /\ laneBytes \in Nat \ {0} /\ laneBytes % elementBytes = 0
    /\ smallSliceBytes \in Nat

Times(t, u) ==
    IF t = zero \/ u = zero THEN zero
    ELSE expTable[(logTable[t] + logTable[u]) % (order - 1)]

InverseOf(t) == expTable[(order - 1 - logTable[t]) % (order - 1)]

Div(t, u) ==
    IF t = zero THEN zero ELSE expTable[(logTable[t] - logTable[u] + order - 1) % (order - 1)]

Pow(t, p) ==
    IF t = zero THEN IF p = 0 THEN one ELSE zero
    ELSE expTable[(logTable[t] * p) % (order - 1)]

(***************************************************************************)
(* Slices of bytes.  Element i of a slice is its bytes 2i and 2i+1.        *)
(***************************************************************************)
FromBytes(low, high) == low \cup ShiftLeft(high, byteBits)

Element(s, i) == FromBytes(s[2 * i + 1], s[2 * i + 2])

ByteOf(t, h) == IF h = 0 THEN t \cap (0..byteBits - 1) ELSE ShiftRight(t, byteBits)

\* castTToByteSlice, and the way back.
Bytes(ts) == Stored([k \in 1..2 * Len(ts) |-> ByteOf(ts[(k + 1) \div 2], (k - 1) % 2)])

Elements(s) == Stored([i \in 1..Len(s) \div 2 |-> Element(s, i - 1)])

(***************************************************************************)
(* The scalar kernels                                                      *)
(***************************************************************************)

\* Mutant: the table of the high byte starts again at the coefficient.
calcTableRestarted(c) ==
    LET coeff[i \in 0..Width] == IF i = 0 THEN c ELSE multByTwo(coeff[i - 1])
        Half(first) == [v \in Byte |-> Sum2(coeff, v)]
    IN  [s0 |-> Table(Half(0)), s8 |-> Table(Half(byteBits))]

\* Products of c with every low and every high byte, by doubling c.
calcTable(c) ==
    LET coeff[i \in 0..Width] == IF i = 0 THEN c ELSE multByTwo(coeff[i - 1])
        Half(first) == [v \in Byte |-> Sum2(coeff, ShiftLeft(v, first))]
    IN  [s0 |-> Table(Half(0)), s8 |-> Table(Half(byteBits))]

\* The code fills the table at every call; it depends on c alone.
mulTables == Table([c \in T |-> calcTable(c)])

\* mulScalarByteSliceLE on n bytes: a short slice goes through the logarithms.
mulScalar(c, n, v) ==
    IF n > smallSliceBytes
    THEN Plus(mulTables[c].s0[ByteOf(v, 0)], mulTables[c].s8[ByteOf(v, 1)])
    ELSE IF v = zero THEN zero
    ELSE expTable[(logTable[c] + logTable[v]) % (order - 1)]

(***************************************************************************)
(* The vector kernels.  A block is loaded into two registers, repacked     *)
(* lane by lane into a plane of low and a plane of high bytes, multiplied  *)
(* by nibble lookups, and unpacked.                                        *)
(***************************************************************************)
laneWords == laneBytes \div 2

\* By coefficient, half of the product, nibble of the factor and its value.
mulTable64 ==
    Table([x \in T \X (0..1) \X (0..3) \X Nibble |->
              ByteOf(Times(x[1], ShiftLeft(x[4], x[3] * nibbleBits)), x[2])])

NibbleOf(b, h) == IF h = 0 THEN b \cap (0..nibbleBits - 1) ELSE ShiftRight(b, nibbleBits)

\* VPACKUSWB: in every lane the words of the second register come first.
standardToAltMap(cpu, q) ==
    LET l == q \div (2 * laneWords)
        k == q % (2 * laneWords)
    IN  IF k < laneWords THEN (Lanes(cpu) + l) * laneWords + k
        ELSE (l - 1) * laneWords + k

\* Mutant: the two halves are stored in the order of the registers.
altToStandardSwapped(cpu, w) ==
    LET reg == w \div (Lanes(cpu) * laneWords)
        r   == w % (Lanes(cpu) * laneWords)
    IN  (r \div laneWords) * 2 * laneWords + (r % laneWords) + reg * laneWords

\* VPUNPCKLBW and VPUNPCKHBW, stored in swapped order: the first half of the
\* block comes from the upper half of every lane.
altToStandardMap(cpu, w) ==
    LET reg == w \div (Lanes(cpu) * laneWords)
        r   == w % (Lanes(cpu) * laneWords)
    IN  (r \div laneWords) * 2 * laneWords + (r % laneWords) + (1 - reg) * laneWords

\* One byte of a product, from the nibbles of the low and the high byte.
mulAltMapByte(c, h, low, high) ==
    LET s(nibble, v) == mulTable64[<<c, h, nibble, v>>] IN
    Plus(Plus(s(0, NibbleOf(low, 0)), s(1, NibbleOf(low, 1))),
         Plus(s(2, NibbleOf(high, 0)), s(3, NibbleOf(high, 1))))

\* MulByteSliceLE_AVX2 and mulSliceSSSE3: element i of a slice whose blocks
\* start at element first.
mulVector(cpu, c, in, first, i) ==
    LET words == BlockOf(cpu) \div 2
        w     == (i - first) % words
        v     == Element(in, i - w + standardToAltMap(cpu, altToStandardMap(cpu, w)))
    IN  FromBytes(mulAltMapByte(c, 0, ByteOf(v, 0), ByteOf(v, 1)),
                  mulAltMapByte(c, 1, ByteOf(v, 0), ByteOf(v, 1)))

(***************************************************************************)
(* Dispatch                                                                *)
(***************************************************************************)

\* Of n bytes, whole blocks for the widest kernel, and what is left for the next.
vectorBytes(cpu, n) ==
    LET a == IF cpu = "avx2" THEN n - (n % BlockOf("avx2")) ELSE 0
    IN  [avx2 |-> a,
         ssse3 |-> IF cpu = "scalar" THEN 0 ELSE (n - a) - ((n - a) % BlockOf("ssse3"))]

\* Element i of the product of c with a slice.
mulBulk(cpu, c, in, i) ==
    LET v == vectorBytes(cpu, Len(in)) IN
    IF 2 * i < v.avx2 THEN mulVector("avx2", c, in, 0, i)
    ELSE IF 2 * i < v.avx2 + v.ssse3 THEN mulVector("ssse3", c, in, v.avx2 \div 2, i)
    ELSE mulScalar(c, Len(in) - v.avx2 - v.ssse3, Element(in, i))

\* Byte k of the product.
productByte(cpu, c, in, k) == ByteOf(mulBulk(cpu, c, in, (k - 1) \div 2), (k - 1) % 2)

MulByteSliceLE(cpu, c, in) ==
    IF c = zero THEN [k \in DOMAIN in |-> zero]
    ELSE Stored([k \in DOMAIN in |-> productByte(cpu, c, in, k)])

MulAndAddByteSliceLE(cpu, c, in, out) ==
    IF c = zero THEN out
    ELSE Stored([k \in DOMAIN in |-> Plus(productByte(cpu, c, in, k), out[k])])

=============================================================================
