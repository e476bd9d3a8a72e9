------------------------------ MODULE Checksum ------------------------------
(***************************************************************************)
(* The two algorithms that make the block scan fast: the CRC of a window   *)
(* that slides one byte at a time (checksummer.go) and the open-addressing *)
(* table from CRCs to blocks (crc_table.go).  A byte and a CRC are the     *)
(* sets of their one bits.  The widths are parameters: the code has bytes  *)
(* of 8 bits, a CRC of 4 bytes and tables of at least 16 slots; a byte of  *)
(* 2 bits and a CRC of 2 bytes already give collisions of CRCs and of      *)
(* slots.                                                                  *)
(***************************************************************************)
EXTENDS Par2Set, SequencesExt, FiniteSetsExt

CONSTANTS
    ByteBits,       \* bits of a byte
    CrcBytes,       \* bytes of a CRC
    Polynomial,     \* of the CRC, bits reversed
    minTableSize    \* slots of the smallest table, a power of two

ByteOnes == 0..ByteBits - 1

CrcBits == ByteBits * CrcBytes

CrcOnes == 0..CrcBits - 1

\* newCRC32Window refuses a window shorter than the CRC.
ASSUME ChecksumAssumption ==
    /\ ByteBits \in Nat \ {0} /\ CrcBytes \in Nat \ {0}
    /\ Byte \subseteq 0..2^ByteBits - 1
    /\ Polynomial \in SUBSET CrcOnes
    /\ minTableSize \in Nat /\ minTableSize >= 4
    /\ sliceByteCount >= CrcBytes

(***************************************************************************)
(* hash/crc32.  The register holds the complement of the CRC.              *)
(***************************************************************************)
CrcXor(a, b) == (a \ b) \cup (b \ a)

Complement(c) == CrcOnes \ c

ShiftRight(c, n) == {i - n : i \in {j \in c : j >= n}}

DivideBit(c) == CrcXor(ShiftRight(c, 1), IF 0 \in c THEN Polynomial ELSE {})

IEEETable ==
    [b \in SUBSET ByteOnes |->
        LET divided[n \in 0..ByteBits] == IF n = 0 THEN b ELSE DivideBit(divided[n - 1])
        IN  divided[ByteBits]]

\* The register x[1] after one more byte x[2].
simpleUpdate ==
    [x \in (SUBSET CrcOnes) \X (SUBSET ByteOnes) |->
        CrcXor(IEEETable[CrcXor(x[1] \cap ByteOnes, x[2])], ShiftRight(x[1], ByteBits))]

\* The register after the bytes a, from init on.
Register(init, a) ==
    LET register[n \in 0..Len(a)] ==
            IF n = 0 THEN init ELSE simpleUpdate[<<register[n - 1], a[n]>>]
    IN  register[Len(a)]

ChecksumBits(a) == Complement(Register(CrcOnes, a))

BitsOf == [b \in Byte |-> {i \in ByteOnes : (b \div 2^i) % 2 = 1}]

Bits(s) == [k \in 1..Len(s) |-> BitsOf[s[k]]]

ChecksumIEEE(s) == ChecksumBits(Bits(s))

(***************************************************************************)
(* The rolling window                                                      *)
(***************************************************************************)
Zeros == [i \in 1..sliceByteCount + 1 |-> {}]

crc0 == ChecksumBits(Zeros)

\* newCRC32Window, a[0] = a[4] = 0xff: what the initial register value leaves
\* in the CRC of a window with its leader, against that of one without.
crcWindowMask ==
    ChecksumBits([Zeros EXCEPT ![1] = ByteOnes, ![CrcBytes + 1] = ByteOnes])

baseTable == [i \in ByteOnes |-> ChecksumBits([Zeros EXCEPT ![1] = {i}])]

\* The sum of the base CRCs of the bits of b, and whether their number is odd.
BaseSum(b) ==
    LET sum[n \in 0..ByteBits] ==
            IF n = 0 THEN [crc |-> {}, odd |-> FALSE]
            ELSE IF n - 1 \in b
            THEN [crc |-> CrcXor(sum[n - 1].crc, baseTable[n - 1]), odd |-> ~sum[n - 1].odd]
            ELSE sum[n - 1]
    IN  sum[ByteBits]

\* Mutant: crc0 is left in the sum when it should cancel.
OldLeaderMaskedTableOdd ==
    [b \in SUBSET ByteOnes |->
        CrcXor(CrcXor(BaseSum(b).crc, IF BaseSum(b).odd THEN crc0 ELSE {}), crcWindowMask)]

\* maskedTable: crc0 is summed in when an even number of CRCs was.
crcOldLeaderMaskedTable ==
    [b \in SUBSET ByteOnes |->
        CrcXor(CrcXor(BaseSum(b).crc, IF BaseSum(b).odd THEN {} ELSE crc0), crcWindowMask)]

\* crc32Window.update
Update(crc, oldLeader, newTrailer) ==
    CrcXor(Complement(simpleUpdate[<<Complement(crc), BitsOf[newTrailer]>>]),
           crcOldLeaderMaskedTable[BitsOf[oldLeader]])

(***************************************************************************)
(* The lookup table.  A slot is empty or holds the CRC of its entry; the   *)
(* blocks of an entry are those of its CRC.                                *)
(***************************************************************************)
Listed == {b \in Blocks : b[1] \in fileChecksums}

\* buildLookupTable, computed once.
checksumMap ==
    [c \in {ChecksumIEEE(Block(b)) : b \in Listed} |->
        {b \in Listed : ChecksumIEEE(Block(b)) = c}]

numEntries == Cardinality(DOMAIN checksumMap)

\* The smallest size, doubled as often as may be needed.
Sizes ==
    LET size[n \in 0..numEntries] == IF n = 0 THEN minTableSize ELSE 2 * size[n - 1]
    IN  size

\* The first size that is four times the entries.
TableSize == Min({s \in {Sizes[n] : n \in 0..numEntries} : s >= numEntries * 4})

\* The number a CRC is.
NumberOf ==
    [c \in SUBSET CrcOnes |->
        LET number[n \in 0..CrcBits] ==
                IF n = 0 THEN 0
                ELSE 2 * number[n - 1] + (IF CrcBits - n \in c THEN 1 ELSE 0)
        IN  number[CrcBits]]

Slot(c, k) == (NumberOf[c] + k) % TableSize

\* Linear probing: the first slot of c's sequence that is free or holds c.
Probe(t, c) ==
    Slot(c, CHOOSE k \in 0..TableSize - 1 :
                /\ t[Slot(c, k)] \subseteq {c}
                /\ \A j \in 0..k - 1 : ~(t[Slot(c, j)] \subseteq {c}))

\* The table after the entries are inserted in the order given.
Filled(order) ==
    LET filled[n \in 0..Len(order)] ==
            IF n = 0 THEN [i \in 0..TableSize - 1 |-> {}]
            ELSE [filled[n - 1] EXCEPT ![Probe(filled[n - 1], order[n])] = {order[n]}]
    IN  filled[Len(order)]

\* The entries come in the order a Go map gives, which is any order.
newCRCLookupTables == {Filled(order) : order \in SetToSeqs(DOMAIN checksumMap)}

\* Mutant: the entry is looked for at its home slot only.
LookupHome(t, c) == IF c \in t[Slot(c, 0)] THEN checksumMap[c] ELSE {}

Lookup(t, c) == IF c \in t[Probe(t, c)] THEN checksumMap[c] ELSE {}

=============================================================================
