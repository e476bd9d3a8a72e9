----------------------------- MODULE CoderProofs -----------------------------
(***************************************************************************)
(* Proofs about Coder, for every number and length of blocks, limit,       *)
(* processor and number of goroutines: the ranges of the goroutines        *)
(* partition the chunk, a call that returns no error has restored every    *)
(* byte of every block, and one that fails fails for a reason.             *)
(***************************************************************************)
EXTENDS Coder, MatrixProofs

\* Even numbers, in the form the code tests them (validateSlicePair).
Even(a) == a % 2 = 0

(***************************************************************************)
(* Arithmetic                                                              *)
(***************************************************************************)

\* Division leaves a remainder below the divisor.
LEMMA DivideFacts ==
    ASSUME NEW a \in Nat, NEW d \in Nat \ {0}
    PROVE  /\ a \div d \in Nat /\ a % d \in Nat
           /\ (a \div d) * d <= a /\ a < (a \div d) * d + d
           /\ a = (a \div d) * d + (a % d) /\ a % d < d
  OBVIOUS

\* Multiples of a number are ordered as their factors.
LEMMA MultiplesOrdered ==
    ASSUME NEW i \in Nat, NEW j \in Nat, NEW d \in Nat, i <= j
    PROVE  i * d <= j * d
  <1>1. PICK k \in Nat : j = i + k
    BY j - i \in Nat
  <1>2. j * d = i * d + k * d /\ k * d >= 0
    BY <1>1
  <1>. QED BY <1>2

\* Twice a number is even.
LEMMA TwiceEven == \A x \in Int : Even(2 * x)
  BY DEF Even

\* Sums and differences of even numbers are even.
LEMMA SumEven ==
    \A x, y \in Int : Even(x) /\ Even(y) => Even(x + y) /\ Even(x - y)
  BY DEF Even

\* A multiple of an even number is even.
LEMMA MultipleEven ==
    ASSUME NEW k \in Nat, NEW d \in Nat, Even(d)
    PROVE  k * d \in Nat /\ Even(k * d)
  <1>1. PICK h \in Nat : d = 2 * h
    BY d \div 2 \in Nat DEF Even
  <1>2. k * d = 2 * (k * h) /\ k * h \in Nat
    BY <1>1
  <1>3. Even(2 * (k * h))
    BY <1>2, TwiceEven
  <1>. QED BY <1>2, <1>3

(***************************************************************************)
(* Cutting a length into parts of equal size but for the last one          *)
(***************************************************************************)

\* The last part starts before the end, and the parts reach it.
LEMMA PartCount ==
    ASSUME NEW length \in Nat \ {0}, NEW size \in Nat \ {0}
    PROVE  LET count == (length + size - 1) \div size
           IN  /\ count \in Nat \ {0}
               /\ (count - 1) * size < length /\ length <= count * size
  <1>. DEFINE count == (length + size - 1) \div size
  <1>1. /\ count \in Nat
        /\ count * size <= length + size - 1
        /\ length + size - 1 < count * size + size
    BY DivideFacts, length + size - 1 \in Nat
  <1>2. count # 0
    BY <1>1
  <1>3. (count - 1) * size = count * size - size
    BY <1>1
  <1>. QED BY <1>1, <1>2, <1>3

\* Every place lies in one part.
LEMMA PartOfPlace ==
    ASSUME NEW length \in Nat \ {0}, NEW size \in Nat \ {0}, NEW p \in 0..length - 1
    PROVE  LET count == (length + size - 1) \div size
           IN  \E i \in 0..count - 1 :
                  /\ i * size <= p /\ p < i * size + size
                  /\ \A j \in 0..count - 1 : j * size <= p /\ p < j * size + size => j = i
  <1>. DEFINE count == (length + size - 1) \div size
  <1>. DEFINE i == p \div size
  <1>1. count \in Nat \ {0} /\ length <= count * size
    BY PartCount
  <1>2. i \in Nat /\ i * size <= p /\ p < i * size + size
    BY DivideFacts
  <1>3. i < count
    <2>1. SUFFICES ASSUME count <= i PROVE FALSE
      BY <1>1, <1>2
    <2>2. count * size <= i * size
      BY <1>1, <1>2, <2>1, MultiplesOrdered
    <2>. QED BY <1>1, <1>2, <2>2
  <1>4. ASSUME NEW j \in 0..count - 1, j * size <= p, p < j * size + size
        PROVE  j = i
    <2>. HIDE DEF i, count
    <2>1. CASE j < i
      <3>1. (j + 1) * size <= i * size
        BY <1>2, <1>4, <2>1, MultiplesOrdered
      <3>2. (j + 1) * size = j * size + size
        BY <1>4
      <3>. QED BY <1>2, <1>4, <3>1, <3>2
    <2>2. CASE i < j
      <3>1. (i + 1) * size <= j * size
        BY <1>1, <1>2, <1>4, <2>2, MultiplesOrdered
      <3>2. (i + 1) * size = i * size + size
        BY <1>2
      <3>. QED BY <1>2, <1>4, <3>1, <3>2
    <2>. QED BY <1>1, <1>2, <1>4, <2>1, <2>2
  <1>5. i \in 0..count - 1
    BY <1>1, <1>2, <1>3
  <1>. HIDE DEF i, count
  <1>6. \E x \in 0..count - 1 :
          /\ x * size <= p /\ p < x * size + size
          /\ \A j \in 0..count - 1 : j * size <= p /\ p < j * size + size => j = x
    <2>. WITNESS i \in 0..count - 1
    <2>. QED BY <1>2, <1>4
  <1>. QED BY <1>6 DEF count

(***************************************************************************)
(* Chunks                                                                  *)
(***************************************************************************)

\* Every chunk size that computeChunkSize returns is positive and even, so that
\* the kernels accept the slices of a chunk.
THEOREM ChunkSizeEven ==
    ASSUME NEW limit \in Nat, NEW total \in Nat \ {0}, NEW unusable \in Nat,
           NEW bytes \in Nat
    PROVE  LET size == computeChunkSize(limit, total, unusable, bytes)
           IN  size \in Nat \ {0} /\ Even(size)
  <1>. DEFINE least == Least(limit \div (total + unusable), bytes)
  <1>1. least \in Nat
    BY DivideFacts, total + unusable \in Nat \ {0} DEF Least
  <1>2. chunkAlign \in Nat \ {0} /\ Even(chunkAlign)
    BY SplitAssumption DEF Even
  <1>3. least \div chunkAlign \in Nat
    BY <1>1, <1>2, DivideFacts
  <1>4. (least \div chunkAlign) * chunkAlign \in Nat /\ Even((least \div chunkAlign) * chunkAlign)
    BY <1>2, <1>3, MultipleEven
  <1>. HIDE DEF least
  <1>5. LET size == Greatest((least \div chunkAlign) * chunkAlign, chunkAlign)
        IN  size \in Nat \ {0} /\ Even(size)
    BY <1>2, <1>4 DEF Greatest
  <1>. QED BY <1>5 DEF computeChunkSize, least

\* The chunks of a slice of even length are even and not empty, and every one but
\* the last is a whole chunk (executeChunk).
THEOREM ChunkLengths ==
    ASSUME NEW bytes \in Nat \ {0}, Even(bytes),
           NEW size \in Nat \ {0}, Even(size),
           NEW index \in 0..numChunks(bytes, size) - 1
    PROVE  LET length == currChunkSize(bytes, size, index)
           IN  length \in 1..size /\ Even(length)
  <1>. DEFINE count == numChunks(bytes, size)
  <1>1. /\ count \in Nat \ {0}
        /\ (count - 1) * size < bytes /\ bytes <= count * size
    BY PartCount DEF numChunks
  <1>2. CASE index # count - 1
    BY <1>2 DEF currChunkSize, Even
  <1>3. CASE index = count - 1
    <2>. HIDE DEF count
    <2>1. index \in Nat /\ index * size \in Nat /\ Even(index * size)
      BY <1>1, <1>3, MultipleEven
    <2>2. index * size = count * size - size
      BY <1>1, <1>3
    <2>3. bytes - index * size \in 1..size
      BY <1>1, <1>3, <2>1, <2>2
    <2>4. Even(bytes - index * size)
      BY <2>1, SumEven
    <2>. QED BY <1>3, <2>3, <2>4 DEF currChunkSize, count
  <1>. QED BY <1>2, <1>3

(***************************************************************************)
(* Ranges                                                                  *)
(***************************************************************************)

\* A goroutine's share is positive and even.
LEMMA SplitEven ==
    ASSUME NEW length \in Nat, NEW workers \in Nat \ {0},
           NEW kernelBlock \in Nat, Even(kernelBlock)
    PROVE  LET split == splitForBlock(length, workers, kernelBlock)
           IN  split \in Nat \ {0} /\ Even(split)
  <1>. DEFINE block == Greatest(kernelBlock, minSplitBytes)
  <1>. DEFINE split == Greatest((length + workers - 1) \div workers, block)
  <1>. DEFINE whole == split \div block
  <1>1. block \in Nat \ {0} /\ Even(block)
    BY SplitAssumption DEF Greatest, Even
  <1>2. split \in Nat \ {0} /\ split >= block
    <2>. HIDE DEF block
    <2>1. (length + workers - 1) \div workers \in Nat
      BY DivideFacts, length + workers - 1 \in Nat
    <2>. QED BY <1>1, <2>1 DEF Greatest
  <1>. HIDE DEF split, block
  <1>3. whole \in Nat /\ split % block \in Nat /\ split = whole * block + (split % block)
    BY <1>1, <1>2, DivideFacts
  <1>4. CASE split % block = 0
    <2>1. split = whole * block
      BY <1>1, <1>3, <1>4
    <2>2. Even(split)
      BY <1>1, <1>3, <2>1, MultipleEven
    <2>. QED BY <1>2, <1>4, <2>2 DEF splitForBlock, split, block
  <1>5. CASE split % block # 0
    <2>1. (whole + 1) * block = whole * block + block
      BY <1>1, <1>3
    <2>2. split + (block - (split % block)) = (whole + 1) * block
      BY <1>1, <1>2, <1>3, <2>1
    <2>3. (whole + 1) * block \in Nat /\ Even((whole + 1) * block)
      <3>1. whole + 1 \in Nat
        BY <1>3
      <3>. HIDE DEF whole
      <3>. QED BY <1>1, <3>1, MultipleEven
    <2>4. split + (block - (split % block)) # 0
      BY <1>1, <1>2, <1>3, DivideFacts
    <2>. QED BY <1>5, <2>2, <2>3, <2>4 DEF splitForBlock, split, block
  <1>. QED BY <1>4, <1>5

\* Whatever the number of goroutines and the block of the kernel, the ranges of a
\* slice of even length share no byte, leave none out, and none is empty or odd
\* (applyMatrixParallelData).
THEOREM RangesExact ==
    ASSUME NEW length \in Nat \ {0}, Even(length),
           NEW workers \in Nat \ {0},
           NEW kernelBlock \in Nat, Even(kernelBlock)
    PROVE  Partitions(length, splitForBlock(length, workers, kernelBlock))
  <1>. DEFINE split == splitForBlock(length, workers, kernelBlock)
  <1>. DEFINE count == numRanges(length, split)
  <1>1. split \in Nat \ {0} /\ Even(split)
    BY SplitEven
  <1>. HIDE DEF split
  <1>2. count \in Nat \ {0} /\ (count - 1) * split < length
    BY <1>1, PartCount DEF numRanges
  <1>3. ASSUME NEW i \in 0..count - 1
        PROVE  /\ rangeStart(split, i) < rangeEnd(length, split, i)
               /\ Even(rangeEnd(length, split, i) - rangeStart(split, i))
    <2>. HIDE DEF count
    <2>0. i \in Nat
      BY <1>2
    <2>1. i \in Nat /\ i * split \in Nat /\ Even(i * split)
      BY <1>1, <2>0, MultipleEven
    <2>2. i * split <= (count - 1) * split
      BY <1>1, <1>2, <2>1, MultiplesOrdered
    <2>3. i * split < length /\ (count - 1) * split \in Nat
      BY <1>1, <1>2, <2>1, <2>2
    <2>4. Even(length - i * split)
      BY <2>1, SumEven
    <2>5. i * split + split - i * split = split
      BY <1>1, <2>1
    <2>. QED BY <1>1, <2>1, <2>3, <2>4, <2>5 DEF rangeStart, rangeEnd, Least
  <1>4. ASSUME NEW p \in 0..length - 1
        PROVE  \E i \in 0..count - 1 :
                  /\ rangeStart(split, i) <= p /\ p < rangeEnd(length, split, i)
                  /\ \A j \in 0..count - 1 :
                       (rangeStart(split, j) <= p /\ p < rangeEnd(length, split, j)) => j = i
    <2>1. PICK i \in 0..count - 1 :
             /\ i * split <= p /\ p < i * split + split
             /\ \A j \in 0..count - 1 : j * split <= p /\ p < j * split + split => j = i
      BY <1>1, PartOfPlace DEF numRanges
    <2>. HIDE DEF count
    <2>2. \A j \in 0..count - 1 : j * split \in Nat
      BY <1>1, <1>2
    <2>3. rangeStart(split, i) <= p /\ p < rangeEnd(length, split, i)
      BY <1>1, <2>1, <2>2 DEF rangeStart, rangeEnd, Least
    <2>4. ASSUME NEW j \in 0..count - 1,
                 rangeStart(split, j) <= p, p < rangeEnd(length, split, j)
          PROVE  j = i
      <3>1. j * split <= p /\ p < j * split + split
        BY <1>1, <2>2, <2>4 DEF rangeStart, rangeEnd, Least
      <3>. QED BY <2>1, <3>1
    <2>. QED BY <2>3, <2>4
  <1>5. Partitions(length, split)
    BY <1>3, <1>4 DEF Partitions, Even
  <1>. QED BY <1>5 DEF split

(***************************************************************************)
(* The environment of a call                                               *)
(***************************************************************************)

\* What a call is given is what the program can give it.
EnvOK ==
    /\ cpu \in CPUs
    /\ memoryLimit \in MemoryLimits
    /\ missing \in Losses
    /\ available \in Recoveries
    /\ chunkIdx \in 0..numChunks(sliceByteCount, chunkSize) - 1

\* The counts and lengths of the recovery set are numbers.
LEMMA SetSizes ==
    /\ dataShards \in Nat \ {0}
    /\ sliceByteCount \in Nat \ {0} /\ Even(sliceByteCount)
    /\ numGoroutines \in Nat \ {0}
  <1>1. TrueData \in Seq(Seq(Byte)) /\ Len(TrueData) > 0
    BY CoderAssumption DEF dataShards
  <1>2. TrueData[1] \in Seq(Byte)
    BY <1>1
  <1>3. Len(TrueData) \in Nat /\ Len(TrueData[1]) \in Nat
    BY <1>1, <1>2
  <1>4. dataShards \in Nat /\ sliceByteCount \in Nat
    BY <1>3 DEF dataShards, sliceByteCount
  <1>5. dataShards > 0 /\ sliceByteCount > 0 /\ sliceByteCount % 2 = 0
    BY CoderAssumption
  <1>6. numGoroutines \in Nat \ {0}
    BY CoderAssumption
  <1>. QED BY <1>4, <1>5, <1>6 DEF Even

\* There are finitely many missing blocks.
LEMMA MissingCounted == EnvOK => numMissing \in Nat
  <1>1. SUFFICES ASSUME missing \subseteq 1..dataShards PROVE Cardinality(missing) \in Nat
    BY CoderAssumption DEF EnvOK, numMissing
  <1>2. IsFiniteSet(1..dataShards)
    BY SetSizes, FS_Interval
  <1>. QED BY <1>1, <1>2, FS_Subset, FS_CardinalityType

\* Every kernel works on blocks of an even number of bytes.
LEMMA BlockEven == ASSUME NEW c \in CPUs PROVE blockBytes(c) \in Nat /\ Even(blockBytes(c))
  <1>1. laneBytes \in Nat
    BY FieldAssumption
  <1>2. Lanes(c) \in Nat
    BY DEF Lanes
  <1>3. Lanes(c) * laneBytes \in Nat /\ BlockOf(c) = 2 * (Lanes(c) * laneBytes)
    BY <1>1, <1>2 DEF BlockOf
  <1>4. Even(BlockOf(c)) /\ BlockOf(c) \in Nat
    BY <1>3, TwiceEven
  <1>. QED BY <1>4 DEF blockBytes, elementBytes, Even

\* A chunk is not empty and of even length.
LEMMA ChunkEven == EnvOK => dataLength \in Nat \ {0} /\ Even(dataLength)
  <1>. SUFFICES ASSUME EnvOK PROVE dataLength \in Nat \ {0} /\ Even(dataLength)
    OBVIOUS
  <1>1. memoryLimit \in Nat
    BY CoderAssumption DEF EnvOK
  <1>2. chunkSize \in Nat \ {0} /\ Even(chunkSize)
    BY <1>1, SetSizes, MissingCounted, ChunkSizeEven DEF chunkSize
  <1>3. dataLength \in 1..chunkSize /\ Even(dataLength)
    BY <1>2, SetSizes, ChunkLengths DEF dataLength, EnvOK
  <1>. QED BY <1>2, <1>3

\* So the ranges are exact.
LEMMA SplitExact == EnvOK => Partitions(dataLength, Split)
  BY ChunkEven, SetSizes, BlockEven, RangesExact DEF EnvOK, Split

\* What a call was given never changes.
LEMMA EnvKept == Next => UNCHANGED env
  BY DEF Next, Reconstruct, ReturnAtOnce, Analyze, EchelonColumn, Singular, ReducedColumn,
         ApplyRow, Join, Cancel, Returned, vars

\* What a call is given fits in every state.
LEMMA EnvInvariant == Spec => []EnvOK
  <1>1. Init => EnvOK
    BY DEF Init, EnvOK
  <1>2. EnvOK /\ [Next]_vars => EnvOK'
    <2>1. EnvOK /\ UNCHANGED env => EnvOK'
      BY DEF EnvOK, env, chunkSize, numMissing
    <2>2. UNCHANGED vars => UNCHANGED env
      BY DEF vars
    <2>. QED BY <2>1, <2>2, EnvKept
  <1>. QED BY <1>1, <1>2, PTL DEF Spec

\* The ranges of the goroutines share no byte and leave none out, and none is
\* empty or of odd length, in every call (applyMatrixParallelData).
THEOREM RangesPartitionAlways == Spec => []RangesPartition
  <1>1. EnvOK => RangesPartition
    BY SplitExact DEF RangesPartition
  <1>. QED BY <1>1, EnvInvariant, PTL

(***************************************************************************)
(* The product                                                             *)
(***************************************************************************)

\* While the goroutines run, the buffers have their shape, and until the context
\* is done the rows a goroutine has passed are computed in its range.
RowsInv ==
    /\ EnvOK
    /\ stage = "applying" =>
          /\ nextRow \in [Ranges -> Nat]
          /\ DOMAIN reconstructed = 1..numMissing
          /\ \A i \in 1..numMissing : DOMAIN reconstructed[i] = 1..dataLength
          /\ ~cancelled => \A r \in Ranges, i \in 1..numMissing : i < nextRow[r] => RowDone(r, i)
    /\ ProductWhole

\* The ends of a range are places of the chunk.
LEMMA RangeTypes ==
    ASSUME EnvOK, NEW r \in Ranges
    PROVE  /\ dataLength \in Nat \ {0}
           /\ rangeStart(Split, r) \in Nat
           /\ rangeEnd(dataLength, Split, r) \in Nat
           /\ rangeEnd(dataLength, Split, r) <= dataLength
  <1>1. dataLength \in Nat \ {0}
    BY ChunkEven
  <1>2. Split \in Nat \ {0}
    BY <1>1, SetSizes, BlockEven, SplitEven DEF EnvOK, Split
  <1>3. r \in Nat
    BY DEF Ranges
  <1>. QED BY <1>1, <1>2, <1>3 DEF rangeStart, rangeEnd, Least

\* Two ranges have no place in common, and a range lies in the chunk.
LEMMA RangesApart ==
    ASSUME EnvOK, NEW r \in Ranges, NEW q \in Ranges,
           NEW k \in rangeStart(Split, r) + 1..rangeEnd(dataLength, Split, r),
           k \in rangeStart(Split, q) + 1..rangeEnd(dataLength, Split, q)
    PROVE  q = r
  <1>1. Partitions(dataLength, Split) /\ dataLength \in Nat \ {0}
    BY SplitExact, ChunkEven
  <1>4. rangeStart(Split, r) \in Nat /\ rangeStart(Split, q) \in Nat
    BY RangeTypes
  <1>5. rangeEnd(dataLength, Split, r) \in Nat /\ rangeEnd(dataLength, Split, r) <= dataLength
    BY RangeTypes
  <1>6. rangeEnd(dataLength, Split, q) \in Nat
    BY RangeTypes
  <1>7. k - 1 \in 0..dataLength - 1
    BY <1>1, <1>4, <1>5
  <1>8. /\ rangeStart(Split, r) <= k - 1 /\ k - 1 < rangeEnd(dataLength, Split, r)
        /\ rangeStart(Split, q) <= k - 1 /\ k - 1 < rangeEnd(dataLength, Split, q)
    BY <1>4, <1>5, <1>6
  <1>9. PICK i \in Ranges : \A j \in Ranges :
          (rangeStart(Split, j) <= k - 1 /\ k - 1 < rangeEnd(dataLength, Split, j)) => j = i
    BY <1>1, <1>7 DEF Partitions, Ranges
  <1>. QED BY <1>8, <1>9

\* The sizes of a call, and a row that is computed, depend on these alone.
LEMMA SizesKept ==
    ASSUME UNCHANGED env
    PROVE  /\ numMissing' = numMissing /\ dataLength' = dataLength
           /\ Split' = Split /\ Ranges' = Ranges
  BY DEF env, numMissing, dataLength, chunkSize, Split, Ranges

\* A row that is done stays done while neither rows nor right side change.
LEMMA RowKept ==
    ASSUME UNCHANGED <<env, right, rows, reconstructed>>, NEW r, NEW i
    PROVE  RowDone(r, i) => RowDone(r, i)'
  BY SizesKept DEF RowDone, RowByte, env

\* A goroutine that does a row computes it in its range, and disturbs neither
\* the other ranges nor the other rows.
LEMMA ApplyRowDone ==
    ASSUME RowsInv, NEW r0 \in Ranges, ApplyRow(r0), ~cancelled,
           NEW r \in Ranges, NEW i \in 1..numMissing, i < nextRow'[r]
    PROVE  RowDone(r, i)'
  <1>. DEFINE from == rangeStart(Split, r0)
              to   == rangeEnd(dataLength, Split, r0)
              i0   == nextRow[r0]
  <1>1. UNCHANGED env /\ right' = right /\ rows' = rows /\ cpu' = cpu
    BY DEF ApplyRow, work, env
  <1>2. /\ dataLength' = dataLength /\ Split' = Split
        /\ \A x, a, b, c : RowByte(x, a, b, c)' = RowByte(x, a, b, c)
    BY <1>1, SizesKept DEF RowByte
  <1>3. /\ nextRow \in [Ranges -> Nat]
        /\ DOMAIN reconstructed = 1..numMissing
        /\ DOMAIN reconstructed[i] = 1..dataLength
        /\ i < nextRow[r] => RowDone(r, i)
    BY DEF RowsInv, ApplyRow
  <1>4. /\ nextRow' = [nextRow EXCEPT ![r0] = @ + 1]
        /\ reconstructed' = [reconstructed EXCEPT ![i0] =
              [k \in DOMAIN @ |-> IF k \in from + 1..to
                                  THEN RowByte(i0, from, to, k - from) ELSE @[k]]]
    BY DEF ApplyRow
  <1>5. numMissing \in Nat /\ i \in Nat /\ i0 \in Nat
    BY <1>3, MissingCounted DEF RowsInv
  <1>6. SUFFICES ASSUME NEW k \in rangeStart(Split, r) + 1..rangeEnd(dataLength, Split, r)
                 PROVE  reconstructed'[i][k] =
                          RowByte(i, rangeStart(Split, r), rangeEnd(dataLength, Split, r),
                                  k - rangeStart(Split, r))
    BY <1>2 DEF RowDone
  <1>7. k \in 1..dataLength
    BY <1>6, RangeTypes DEF RowsInv
  <1>8. CASE i = i0 /\ r = r0
    <2>1. reconstructed'[i][k] = RowByte(i0, from, to, k - from)
      BY <1>3, <1>4, <1>6, <1>7, <1>8
    <2>. QED BY <1>8, <2>1
  <1>9. CASE i = i0 /\ r # r0
    <2>1. k \notin from + 1..to
      BY <1>6, <1>9, RangesApart DEF RowsInv
    <2>2. reconstructed'[i][k] = reconstructed[i][k]
      BY <1>3, <1>4, <1>7, <1>9, <2>1
    <2>3. nextRow'[r] = nextRow[r]
      BY <1>3, <1>4, <1>9
    <2>. QED BY <1>3, <2>2, <2>3 DEF RowDone
  <1>10. CASE i # i0
    <2>1. reconstructed'[i] = reconstructed[i]
      BY <1>3, <1>4, <1>10
    <2>2. i < nextRow[r]
      BY <1>3, <1>4, <1>5, <1>10
    <2>. QED BY <1>3, <2>1, <2>2 DEF RowDone
  <1>. QED BY <1>8, <1>9, <1>10

\* Every step keeps the invariant.
LEMMA RowsStep == RowsInv /\ [Next]_vars => RowsInv'
  <1>. SUFFICES ASSUME RowsInv, [Next]_vars PROVE RowsInv'
    OBVIOUS
  <1>. USE DEF RowsInv
  <1>1. UNCHANGED env
    BY EnvKept DEF vars
  <1>2. EnvOK'
    BY <1>1 DEF EnvOK, env, chunkSize, numMissing
  <1>3. numMissing' = numMissing /\ dataLength' = dataLength /\ Ranges' = Ranges
    BY <1>1, SizesKept
  <1>4. missing' = missing
    BY <1>1 DEF env
  <1>5. CASE ReturnAtOnce
    BY <1>2, <1>4, <1>5 DEF ReturnAtOnce, Return, ProductWhole
  <1>6. CASE Analyze
    BY <1>2, <1>6 DEF Analyze, ProductWhole
  <1>7. CASE EchelonColumn
    BY <1>2, <1>7 DEF EchelonColumn, NextColumn, ProductWhole
  <1>8. CASE Singular
    BY <1>2, <1>8 DEF Singular, Return, ProductWhole
  <1>9. CASE ReducedColumn
    <2>1. stage' # "returned"
      BY <1>9 DEF ReducedColumn, NextColumn
    <2>2. /\ nextRow' = [r \in Ranges |-> 1]
          /\ reconstructed' = [i \in 1..numMissing |-> [k \in 1..dataLength |-> zero]]
      BY <1>9 DEF ReducedColumn
    <2>3. \A r \in Ranges, i \in 1..numMissing : ~(i < nextRow'[r])
      BY <2>2, MissingCounted
    <2>4. ProductWhole'
      BY <2>1 DEF ProductWhole
    <2>. QED BY <1>2, <1>3, <2>2, <2>3, <2>4
  <1>10. ASSUME NEW r0 \in DOMAIN nextRow, ApplyRow(r0) PROVE RowsInv'
    <2>1. stage = "applying" /\ stage' = "applying" /\ cancelled' = cancelled
      BY <1>10 DEF ApplyRow
    <2>2. r0 \in Ranges /\ nextRow \in [Ranges -> Nat]
      BY <1>10, <2>1
    <2>3. nextRow' \in [Ranges -> Nat]
      BY <1>10, <2>2, MissingCounted DEF ApplyRow
    <2>4. /\ DOMAIN reconstructed' = 1..numMissing
          /\ \A i \in 1..numMissing : DOMAIN reconstructed'[i] = 1..dataLength
      BY <1>10, <2>1 DEF ApplyRow
    <2>5. ~cancelled' => \A r \in Ranges, i \in 1..numMissing :
                            i < nextRow'[r] => RowDone(r, i)'
      BY <1>10, <2>1, <2>2, ApplyRowDone
    <2>6. ProductWhole'
      BY <2>1 DEF ProductWhole
    <2>. QED BY <1>2, <1>3, <2>3, <2>4, <2>5, <2>6
  <1>11. CASE Join
    <2>1. stage' = "returned" /\ UNCHANGED <<right, rows, reconstructed>>
      BY <1>11 DEF Join, Return, work
    <2>2. ASSUME err' = "none", NEW r \in Ranges, NEW i \in 1..numMissing
          PROVE  RowDone(r, i)'
      <3>1. ~cancelled /\ stage = "applying" /\ nextRow \in [Ranges -> Nat]
        BY <1>11, <2>2 DEF Join, RangesDone, Return
      <3>2. nextRow[r] > numMissing
        BY <1>11, <3>1 DEF Join, RangesDone
      <3>3. i < nextRow[r]
        BY <3>1, <3>2, MissingCounted
      <3>4. RowDone(r, i)
        BY <3>1, <3>3
      <3>. QED BY <1>1, <2>1, <3>4, RowKept
    <2>3. ProductWhole'
      BY <1>3, <2>2 DEF ProductWhole
    <2>. QED BY <1>2, <2>1, <2>3
  <1>12. CASE Cancel
    <2>1. cancelled' /\ stage' = stage /\ stage # "returned" /\ UNCHANGED <<nextRow, reconstructed>>
      BY <1>12 DEF Cancel
    <2>2. ProductWhole'
      BY <2>1 DEF ProductWhole
    <2>. QED BY <1>2, <1>3, <2>1, <2>2
  <1>13. CASE UNCHANGED vars
    <2>1. UNCHANGED <<nextRow, right, rows, reconstructed, stage, cancelled, err>>
      BY <1>13 DEF vars, work
    <2>2. \A r \in Ranges, i \in 1..numMissing : RowDone(r, i) => RowDone(r, i)'
      BY <1>1, <2>1, RowKept
    <2>3. ProductWhole'
      BY <1>3, <1>4, <2>1, <2>2 DEF ProductWhole
    <2>. QED BY <1>2, <1>3, <2>1, <2>2, <2>3
  <1>. QED BY <1>5, <1>6, <1>7, <1>8, <1>9, <1>10, <1>11, <1>12, <1>13
          DEF Next, Reconstruct, Returned

\* A call that returns no error has computed every byte of every missing block,
\* each by the goroutine of its range, whenever the context was cancelled
\* (Coder.Reconstruct).
THEOREM ProductWholeAlways == Spec => []ProductWhole
  <1>1. Init => RowsInv
    BY DEF Init, RowsInv, EnvOK, ProductWhole
  <1>2. RowsInv => ProductWhole
    BY DEF RowsInv
  <1>. QED BY <1>1, <1>2, RowsStep, PTL DEF Spec

(***************************************************************************)
(* Sets in ascending order                                                 *)
(***************************************************************************)

\* Ascending lists the members of a set, each once.
LEMMA AscendingFacts ==
    ASSUME NEW S \in SUBSET Nat, IsFiniteSet(S)
    PROVE  /\ Cardinality(S) \in Nat
           /\ Ascending(S) \in Bijection(1..Cardinality(S), S)
  <1>. DEFINE below(x) == {y \in S : y < x}
              n == Cardinality(S)
              rank == [x \in S |-> Cardinality(below(x))]
  <1>1. n \in Nat
    BY FS_CardinalityType
  <1>2. ASSUME NEW x \in S PROVE IsFiniteSet(below(x)) /\ rank[x] \in 0..n - 1
    <2>1. below(x) \subseteq S \ {x} /\ IsFiniteSet(S \ {x}) /\ IsFiniteSet(below(x))
      BY FS_Subset
    <2>2. Cardinality(S \ {x}) = n - 1
      BY FS_RemoveElement
    <2>3. Cardinality(below(x)) \in Nat /\ Cardinality(below(x)) <= n - 1
      BY <2>1, <2>2, FS_Subset, FS_CardinalityType
    <2>. QED BY <1>1, <2>1, <2>3
  <1>3. ASSUME NEW x \in S, NEW z \in S, x < z PROVE rank[x] < rank[z]
    <2>0. x \in Nat /\ z \in Nat /\ \A y \in S : y \in Nat
      OBVIOUS
    <2>1. below(x) \subseteq below(z) \ {x} /\ x \in below(z)
      <3>1. ASSUME NEW y \in below(x) PROVE y \in below(z) /\ y # x
        <4>1. y \in S /\ y \in Nat /\ y < x
          BY <2>0
        <4>2. y < z /\ y # x
          BY <1>3, <2>0, <4>1
        <4>. QED BY <4>1, <4>2
      <3>2. x \in below(z)
        BY <1>3
      <3>. HIDE DEF below
      <3>. QED BY <3>1, <3>2
    <2>2. IsFiniteSet(below(z)) /\ IsFiniteSet(below(z) \ {x}) /\ IsFiniteSet(below(x))
      BY <1>2, FS_Subset
    <2>3. Cardinality(below(z) \ {x}) = Cardinality(below(z)) - 1
      BY <2>1, <2>2, FS_RemoveElement
    <2>4. Cardinality(below(x)) <= Cardinality(below(z) \ {x})
      BY <2>1, <2>2, FS_Subset
    <2>5. Cardinality(below(x)) \in Nat /\ Cardinality(below(z)) \in Nat
      BY <2>2, FS_CardinalityType
    <2>. HIDE DEF below
    <2>. QED BY <2>3, <2>4, <2>5
  <1>4. rank \in [S -> 0..n - 1]
    BY <1>2
  <1>5. \A x \in S : rank[x] = Cardinality({y \in S : y < x})
    OBVIOUS
  <1>. HIDE DEF rank, below
  <1>6. \A x, z \in S : rank[x] = rank[z] => x = z
    <2>. SUFFICES ASSUME NEW x \in S, NEW z \in S, rank[x] = rank[z] PROVE x = z
      OBVIOUS
    <2>1. x \in Nat /\ z \in Nat /\ rank[x] \in Int
      BY <1>2
    <2>2. x < z \/ z < x \/ x = z
      BY <2>1
    <2>. QED BY <1>3, <2>1, <2>2
  <1>7. rank \in Injection(S, 0..n - 1)
    BY <1>4, <1>6 DEF Injection, IsInjective
  <1>8. IsFiniteSet(0..n - 1) /\ Cardinality(0..n - 1) = n
    <2>. HIDE DEF n
    <2>1. IsFiniteSet(0..n - 1) /\ Cardinality(0..n - 1) = IF 0 > n - 1 THEN 0 ELSE (n - 1) - 0 + 1
      BY <1>1, FS_Interval
    <2>. QED BY <1>1, <2>1
  <1>9. rank \in Surjection(S, 0..n - 1)
    BY <1>7, <1>8, FS_Injection
  <1>10. \A k \in 0..n - 1 : \E x \in S : rank[x] = k
    BY <1>9 DEF Surjection
  <1>11. Ascending(S) = [k \in 1..n |-> CHOOSE x \in S : rank[x] = k - 1]
    <2>. DEFINE A(k) == CHOOSE x \in S : Cardinality({y \in S : y < x}) = k - 1
                B(k) == CHOOSE x \in S : rank[x] = k - 1
    <2>1. \A k \in 1..n : A(k) = B(k)
      BY <1>5
    <2>2. Ascending(S) = [k \in 1..n |-> A(k)]
      BY DEF Ascending
    <2>. HIDE DEF A, B
    <2>3. Ascending(S) = [k \in 1..n |-> B(k)]
      BY <2>1, <2>2
    <2>. QED BY <2>3 DEF B
  <1>. DEFINE a == Ascending(S)
  <1>12. ASSUME NEW k \in 1..n PROVE a[k] \in S /\ rank[a[k]] = k - 1
    <2>1. k - 1 \in 0..n - 1
      BY <1>1
    <2>2. \E x \in S : rank[x] = k - 1
      BY <1>10, <2>1
    <2>3. a[k] = CHOOSE x \in S : rank[x] = k - 1
      BY <1>11
    <2>. QED BY <2>2, <2>3
  <1>13. a = [k \in 1..n |-> a[k]]
    BY <1>11
  <1>. HIDE DEF a, n
  <1>14. a \in [1..n -> S]
    BY <1>12, <1>13
  <1>15. ASSUME NEW k \in 1..n, NEW q \in 1..n, a[k] = a[q] PROVE k = q
    <2>1. k - 1 = q - 1
      BY <1>12, <1>15
    <2>. QED BY <1>1, <2>1
  <1>16. ASSUME NEW x \in S PROVE \E k \in 1..n : a[k] = x
    <2>1. rank[x] + 1 \in 1..n /\ (rank[x] + 1) - 1 = rank[x]
      BY <1>1, <1>2
    <2>2. a[rank[x] + 1] \in S /\ rank[a[rank[x] + 1]] = rank[x]
      BY <1>12, <2>1
    <2>3. a[rank[x] + 1] = x
      BY <1>6, <2>2
    <2>. QED BY <2>1, <2>3
  <1>17. a \in Bijection(1..n, S)
    BY <1>14, <1>15, <1>16 DEF Bijection, Injection, IsInjective, Surjection
  <1>. QED BY <1>1, <1>17 DEF a, n

\* What a bijection is, without its name.
LEMMA BijectionIs ==
    ASSUME NEW S, NEW R, NEW f
    PROVE  f \in Bijection(S, R) <=>
             /\ f \in [S -> R]
             /\ \A x, y \in S : f[x] = f[y] => x = y
             /\ \A r \in R : \E x \in S : f[x] = r
  BY DEF Bijection, Injection, IsInjective, Surjection

\* A finite set of numbers has a greatest one.
LEMMA GreatestMember ==
    ASSUME NEW S \in SUBSET Nat, IsFiniteSet(S), S # {}
    PROVE  Max(S) \in S /\ \A y \in S : y <= Max(S)
  <1>. DEFINE P == {U \in SUBSET S : U # {} => \E x \in U : \A y \in U : x >= y}
  <1>1. {} \in P
    OBVIOUS
  <1>2. ASSUME NEW U \in SUBSET S, NEW z \in S \ U, U \in P PROVE U \cup {z} \in P
    <2>1. CASE U = {}
      BY <2>1
    <2>2. CASE U # {}
      <3>1. PICK x \in U : \A y \in U : x >= y
        BY <1>2, <2>2
      <3>2. x \in Nat /\ z \in Nat /\ \A y \in U : y \in Nat
        OBVIOUS
      <3>3. CASE x >= z
        BY <3>1, <3>3
      <3>4. CASE z > x
        <4>1. \A y \in U \cup {z} : z >= y
          BY <3>1, <3>2, <3>4
        <4>. QED BY <4>1
      <3>. QED BY <3>2, <3>3, <3>4
    <2>. QED BY <2>1, <2>2
  <1>. HIDE DEF P
  <1>3. SUBSET S \subseteq P
    BY <1>1, <1>2, SetInduction
  <1>4. \E x \in S : \A y \in S : x >= y
    BY <1>3 DEF P
  <1>5. Max(S) \in S /\ \A y \in S : Max(S) >= y
    BY <1>4 DEF Max
  <1>. QED BY <1>5

(***************************************************************************)
(* The recovery blocks                                                     *)
(***************************************************************************)

\* A function on 1..n is the sequence that Stored returns.
LEMMA StoredIs ==
    ASSUME NEW n \in Nat, NEW S, NEW f \in [1..n -> S]
    PROVE  Stored(f) = f /\ Len(f) = n /\ DOMAIN f = 1..n /\ f \in Seq(S)
  BY DEF Stored

LEMMA BlocksTyped ==
    /\ DOMAIN TrueData = 1..dataShards
    /\ \A i \in 1..dataShards : TrueData[i] \in [1..sliceByteCount -> Byte]
  <1>1. TrueData \in Seq(Seq(Byte))
    BY CoderAssumption
  <1>2. DOMAIN TrueData = 1..dataShards
    BY <1>1 DEF dataShards
  <1>. QED BY <1>2, CoderAssumption

\* The generators are elements.
LEMMA GeneratorsTyped == generators \in [1..dataShards -> T]
  <1>. DEFINE logs == Ascending(generatorLogs)
              f == [j \in 1..dataShards |-> Pow({1}, logs[j])]
  <1>1. generatorLogs \in SUBSET Nat /\ IsFiniteSet(generatorLogs)
    <2>1. order \in Nat
      BY OrderFacts
    <2>2. generatorLogs \subseteq 0..order - 1
      BY DEF generatorLogs
    <2>3. IsFiniteSet(0..order - 1)
      BY <2>1, FS_Interval
    <2>4. \A i \in 0..order - 1 : i \in Nat
      OBVIOUS
    <2>. QED BY <2>2, <2>3, <2>4, FS_Subset
  <1>2. /\ Cardinality(generatorLogs) \in Nat /\ dataShards <= Cardinality(generatorLogs)
        /\ logs \in [1..Cardinality(generatorLogs) -> generatorLogs]
    BY <1>1, AscendingFacts, BijectionIs, CoderAssumption
  <1>3. ASSUME NEW j \in 1..dataShards PROVE logs[j] \in Nat
    <2>1. j \in 1..Cardinality(generatorLogs)
      BY <1>2, SetSizes
    <2>. HIDE DEF logs
    <2>. QED BY <1>1, <1>2, <2>1
  <1>4. {1} \in T
    BY Widths DEF T
  <1>5. f \in [1..dataShards -> T]
    BY <1>3, <1>4, PowFacts
  <1>6. generators = Stored(f)
    BY DEF generators
  <1>. HIDE DEF f
  <1>. QED BY <1>5, <1>6, SetSizes, StoredIs

\* The powers by their definition.
LEMMA PolyPowIs ==
    ASSUME NEW t \in T, NEW p \in Nat
    PROVE  PolyPow(t, p) = Pow(t, p)
  <1>. DEFINE Eq(h) == h = [k \in 0..p |-> IF k = 0 THEN one ELSE timesPoly(h[k - 1], t)]
              f == [k \in 0..p |-> Pow(t, k)]
  <1>1. ASSUME NEW k \in 1..p PROVE k - 1 \in 0..p /\ f[k] = timesPoly(f[k - 1], t)
    <2>1. k - 1 \in Nat /\ k - 1 \in 0..p /\ (k - 1) + 1 = k /\ k \in 0..p
      OBVIOUS
    <2>2. Pow(t, (k - 1) + 1) = timesPoly(Pow(t, k - 1), t)
      BY <2>1, PowFacts
    <2>. QED BY <2>1, <2>2
  <1>2. f[0] = one /\ f = [k \in 0..p |-> f[k]]
    BY PowFacts
  <1>. HIDE DEF f
  <1>3. Eq(f)
    <2>1. ASSUME NEW k \in 0..p PROVE f[k] = IF k = 0 THEN one ELSE timesPoly(f[k - 1], t)
      <3>1. k = 0 \/ k \in 1..p
        OBVIOUS
      <3>. QED BY <1>1, <1>2, <3>1
    <2>. QED BY <1>2, <2>1
  <1>4. ASSUME NEW h, Eq(h) PROVE h = f
    <2>1. h = [k \in 0..p |-> h[k]] /\ h[0] = one
      BY <1>4
    <2>2. \A k \in 1..p : h[k] = timesPoly(h[k - 1], t)
      BY <1>4
    <2>3. \A k \in 1..p : h[k - 1] = f[k - 1] => h[k] = f[k]
      BY <1>1, <2>2
    <2>4. Alike(h, f, p)
      BY <1>2, <2>1, <2>3 DEF Alike
    <2>. QED BY <2>4, SameFunction
  <1>5. PolyPow(t, p) = (CHOOSE h : Eq(h))[p]
    BY DEF PolyPow
  <1>. HIDE DEF Eq
  <1>6. (CHOOSE h : Eq(h)) = f
    BY <1>3, <1>4
  <1>7. f[p] = Pow(t, p)
    BY DEF f
  <1>. QED BY <1>5, <1>6, <1>7

\* The coefficient of block j in the recovery block of exponent e.
Coefficient(e, j) == Pow(generators[j], e)

LEMMA CoefficientTyped ==
    ASSUME NEW e \in Exponents, NEW j \in 1..dataShards
    PROVE  Coefficient(e, j) \in T
  <1>1. e \in Nat /\ generators[j] \in T
    BY CoderAssumption, GeneratorsTyped
  <1>. QED BY <1>1, PowFacts DEF Coefficient

\* The matrix has the coefficients of every exponent in its row.
LEMMA ParityEntries ==
    ASSUME NEW e \in Exponents, NEW j \in 1..dataShards
    PROVE  parityMatrix[e + 1][j] = Coefficient(e, j)
  <1>. DEFINE count == Max(Exponents) + 1
              row(i) == [k \in 1..dataShards |-> Pow(generators[k], i - 1)]
              f == [i \in 1..count |-> row(i)]
  <1>1. Exponents \in SUBSET Nat /\ IsFiniteSet(Exponents) /\ Exponents # {}
    BY CoderAssumption
  <1>2. Max(Exponents) \in Exponents /\ e <= Max(Exponents)
    BY <1>1, GreatestMember
  <1>3. count \in Nat /\ e + 1 \in 1..count /\ (e + 1) - 1 = e /\ e \in Nat /\ Max(Exponents) \in Nat
    <2>. DEFINE x == Max(Exponents)
    <2>1. x \in Nat /\ e \in Nat /\ e <= x
      BY <1>1, <1>2
    <2>. HIDE DEF x
    <2>2. x + 1 \in Nat /\ e + 1 \in 1..x + 1 /\ (e + 1) - 1 = e
      BY <2>1
    <2>. QED BY <2>1, <2>2 DEF x
  <1>. HIDE DEF count
  <1>4. ASSUME NEW i \in 1..count PROVE row(i) \in [1..dataShards -> T] /\ Stored(row(i)) = row(i)
    <2>1. i - 1 \in Nat
      BY <1>3
    <2>2. row(i) \in [1..dataShards -> T]
      BY <2>1, GeneratorsTyped, PowFacts
    <2>. HIDE DEF row
    <2>. QED BY <2>2, SetSizes, StoredIs
  <1>5. DOMAIN generators = 1..dataShards
    BY GeneratorsTyped
  <1>6. parityMatrix = Stored([i \in 1..count |-> Stored(row(i))])
    BY <1>5 DEF parityMatrix, VandermondeMatrix, count
  <1>. HIDE DEF row
  <1>7. [i \in 1..count |-> Stored(row(i))] = f
    BY <1>4
  <1>8. f \in [1..count -> [1..dataShards -> T]]
    BY <1>4
  <1>9. f[e + 1] = row(e + 1)
    BY <1>3
  <1>. HIDE DEF f
  <1>10. parityMatrix = f
    <2>. DEFINE R == [1..dataShards -> T]
    <2>1. f \in [1..count -> R] /\ count \in Nat
      BY <1>3, <1>8
    <2>. HIDE DEF R
    <2>2. Stored(f) = f
      BY <2>1, StoredIs
    <2>. QED BY <1>6, <1>7, <2>2
  <1>11. row(e + 1)[j] = Pow(generators[j], e)
    BY <1>3 DEF row
  <1>. QED BY <1>9, <1>10, <1>11 DEF Coefficient

\* The contributions of the blocks to element i of the recovery block of e.
Contribution(e, i) ==
    [j \in 1..dataShards |-> timesPoly(Coefficient(e, j), Element(TrueData[j], i))]

LEMMA ContributionTyped ==
    ASSUME NEW e \in Exponents, NEW i \in 0..(sliceByteCount \div 2) - 1
    PROVE  /\ Contribution(e, i) \in [1..dataShards -> T]
           /\ \A j \in 1..dataShards : Element(TrueData[j], i) \in T
  <1>1. \A j \in 1..dataShards : Element(TrueData[j], i) \in T
    BY BlocksTyped, SetSizes, SliceElements DEF Even
  <1>. QED BY <1>1, CoefficientTyped, PolyType DEF Contribution

\* A recovery block is a slice, and its elements are the sums of the contributions.
LEMMA RecoveryElements ==
    ASSUME NEW e \in Exponents
    PROVE  /\ RecoveryBlock[e] \in [1..sliceByteCount -> Byte]
           /\ \A i \in 0..(sliceByteCount \div 2) - 1 :
                 Element(RecoveryBlock[e], i) = Sum2(Contribution(e, i), 1..dataShards)
  <1>. DEFINE m == sliceByteCount \div 2
              sum(i) == Sum2(Contribution(e, i), 1..dataShards)
              ts == [i \in 1..m |-> sum(i - 1)]
  <1>1. e \in Nat /\ m \in Nat /\ sliceByteCount = 2 * m
    BY CoderAssumption, SetSizes DEF Even
  <1>2. ts \in [1..m -> T]
    BY SumType
  <1>3. RecoveryBlock[e] = Bytes(ts)
    <2>. DEFINE C(i) == [j \in 1..dataShards |->
                            timesPoly(PolyPow(generators[j], e), Element(TrueData[j], i - 1))]
    <2>1. \A j \in 1..dataShards : PolyPow(generators[j], e) = Coefficient(e, j)
      BY <1>1, GeneratorsTyped, PolyPowIs DEF Coefficient
    <2>2. \A i \in 1..m : C(i) = Contribution(e, i - 1)
      BY <2>1 DEF Contribution
    <2>3. RecoveryBlock[e] = Bytes([i \in 1..m |-> Sum2(C(i), 1..dataShards)])
      BY DEF RecoveryBlock
    <2>. HIDE DEF C, m
    <2>4. [i \in 1..m |-> Sum2(C(i), 1..dataShards)] = ts
      BY <2>2
    <2>. QED BY <2>3, <2>4
  <1>4. ASSUME NEW i \in 0..m - 1 PROVE i + 1 \in 1..m /\ ts[i + 1] = sum(i)
    <2>1. i + 1 \in 1..m /\ (i + 1) - 1 = i
      BY <1>1
    <2>. HIDE DEF sum
    <2>. QED BY <2>1
  <1>. HIDE DEF ts, m
  <1>5. Bytes(ts) \in [1..2 * m -> Byte] /\ \A i \in 0..m - 1 : Element(Bytes(ts), i) = ts[i + 1]
    BY <1>1, <1>2, BytesFacts
  <1>. QED BY <1>1, <1>3, <1>4, <1>5 DEF m

(***************************************************************************)
(* Chunks and ranges as slices                                             *)
(***************************************************************************)

\* A part of a slice that starts at an element.
LEMMA SubSlice ==
    ASSUME NEW N \in Nat, NEW s \in [1..N -> Byte], NEW h \in Nat, NEW len \in Nat, 2 * h + len <= N
    PROVE  LET sub == SubSeq(s, 2 * h + 1, 2 * h + len)
           IN  /\ sub \in [1..len -> Byte]
               /\ \A k \in 1..len : sub[k] = s[2 * h + k]
               /\ \A e \in Nat : 2 * e + 2 <= len => Element(sub, e) = Element(s, h + e)
  <1>. DEFINE a == 2 * h + 1
              b == 2 * h + len
              sub == SubSeq(s, a, b)
  <1>1. s \in Seq(Byte) /\ Len(s) = N /\ a \in 1..N + 1 /\ b \in a - 1..N /\ b - a + 1 = len
    OBVIOUS
  <1>2. sub = [k \in 1..len |-> s[2 * h + k]]
    <2>1. sub = [k \in 1..b - a + 1 |-> s[k + a - 1]]
      BY <1>1
    <2>2. \A k \in 1..len : k + a - 1 = 2 * h + k
      OBVIOUS
    <2>. HIDE DEF a, b, sub
    <2>. QED BY <1>1, <2>1, <2>2
  <1>3. \A k \in 1..len : 2 * h + k \in 1..N
    OBVIOUS
  <1>4. sub \in [1..len -> Byte] /\ \A k \in 1..len : sub[k] = s[2 * h + k]
    <2>. HIDE DEF sub
    <2>. QED BY <1>2, <1>3
  <1>5. ASSUME NEW e \in Nat, 2 * e + 2 <= len PROVE Element(sub, e) = Element(s, h + e)
    <2>1. 2 * e + 1 \in 1..len /\ 2 * e + 2 \in 1..len
      BY <1>5
    <2>2. 2 * h + (2 * e + 1) = 2 * (h + e) + 1 /\ 2 * h + (2 * e + 2) = 2 * (h + e) + 2
      OBVIOUS
    <2>. HIDE DEF sub
    <2>3. sub[2 * e + 1] = s[2 * (h + e) + 1] /\ sub[2 * e + 2] = s[2 * (h + e) + 2]
      BY <1>4, <2>1, <2>2
    <2>. QED BY <2>3 DEF Element
  <1>. QED BY <1>4, <1>5

\* The element the chunk starts at.
chunkElement == (chunkIdx * chunkSize) \div 2

\* A chunk lies in its block and starts at an element.
LEMMA ChunkFits ==
    ASSUME EnvOK
    PROVE  /\ chunkElement \in Nat /\ chunkIdx * chunkSize = 2 * chunkElement
           /\ dataLength \in Nat \ {0} /\ dataLength % 2 = 0 /\ dataLength <= chunkSize /\ chunkSize \in Nat
           /\ 2 * chunkElement + dataLength <= sliceByteCount
  <1>. DEFINE count == numChunks(sliceByteCount, chunkSize)
              i == chunkIdx
              c == chunkSize
              S == sliceByteCount
  <1>1. memoryLimit \in Nat
    BY CoderAssumption DEF EnvOK
  <1>2. c \in Nat \ {0} /\ Even(c)
    BY <1>1, SetSizes, MissingCounted, ChunkSizeEven DEF chunkSize
  <1>3. dataLength \in 1..c /\ Even(dataLength)
    BY <1>2, SetSizes, ChunkLengths DEF dataLength, EnvOK
  <1>4. count \in Nat \ {0} /\ (count - 1) * c < S /\ S \in Nat
    <2>. HIDE DEF c, S
    <2>1. S \in Nat \ {0}
      BY SetSizes DEF S
    <2>2. /\ (S + c - 1) \div c \in Nat \ {0}
          /\ (((S + c - 1) \div c) - 1) * c < S
      BY <1>2, <2>1, PartCount
    <2>. QED BY <2>1, <2>2 DEF numChunks, c, S
  <1>5. i \in 0..count - 1
    BY DEF EnvOK
  <1>6. dataLength = IF i = count - 1 THEN S - i * c ELSE c
    BY DEF dataLength, currChunkSize
  <1>. HIDE DEF count, i, c, S
  <1>7. i \in Nat /\ i * c \in Nat /\ Even(i * c)
    <2>1. i \in Nat
      BY <1>4, <1>5
    <2>. QED BY <1>2, <2>1, MultipleEven
  <1>8. i * c + dataLength <= S
    <2>1. CASE i = count - 1
      BY <1>4, <1>6, <1>7, <2>1
    <2>2. CASE i # count - 1
      <3>1. i + 1 \in Nat /\ count - 1 \in Nat /\ i + 1 <= count - 1
        BY <1>4, <1>5, <1>7, <2>2
      <3>2. (i + 1) * c <= (count - 1) * c
        BY <1>2, <3>1, MultiplesOrdered
      <3>3. (i + 1) * c = i * c + c
        BY <1>2, <1>7
      <3>. QED BY <1>2, <1>4, <1>6, <1>7, <2>2, <3>1, <3>2, <3>3
    <2>. QED BY <2>1, <2>2
  <1>. DEFINE o == i * c
  <1>9. o \in Nat /\ o % 2 = 0 /\ o + dataLength <= S
    BY <1>7, <1>8 DEF Even
  <1>10. o = chunkIdx * chunkSize
    BY DEF i, c
  <1>. HIDE DEF o
  <1>11. o \div 2 \in Nat /\ o = 2 * (o \div 2)
    BY <1>9
  <1>. QED BY <1>2, <1>3, <1>9, <1>10, <1>11 DEF chunkElement, Even, c, S

\* The chunk of a slice, and its elements.
LEMMA ChunkSlice ==
    ASSUME EnvOK, NEW s \in [1..sliceByteCount -> Byte]
    PROVE  /\ ChunkOf(s) \in [1..dataLength -> Byte]
           /\ \A e \in 0..(dataLength \div 2) - 1 :
                 /\ Element(ChunkOf(s), e) = Element(s, chunkElement + e)
                 /\ chunkElement + e \in 0..(sliceByteCount \div 2) - 1
  <1>. DEFINE h == chunkElement
              len == dataLength
              N == sliceByteCount
  <1>1. h \in Nat /\ len \in Nat /\ N \in Nat /\ 2 * h + len <= N /\ len % 2 = 0
    BY ChunkFits, SetSizes
  <1>2. ChunkOf(s) = SubSeq(s, 2 * h + 1, 2 * h + len)
    BY ChunkFits DEF ChunkOf
  <1>. HIDE DEF h, len, N
  <1>3. s \in [1..N -> Byte]
    BY DEF N
  <1>. DEFINE sub == SubSeq(s, 2 * h + 1, 2 * h + len)
  <1>4. /\ sub \in [1..len -> Byte]
        /\ \A e \in Nat : 2 * e + 2 <= len => Element(sub, e) = Element(s, h + e)
    BY <1>1, <1>3, SubSlice
  <1>. HIDE DEF sub
  <1>5. ASSUME NEW e \in 0..(len \div 2) - 1
        PROVE  Element(sub, e) = Element(s, h + e) /\ h + e \in 0..(N \div 2) - 1
    <2>1. e \in Nat /\ 2 * e + 2 <= len
      BY <1>1
    <2>2. h + e \in Nat /\ 2 * (h + e) + 2 <= N
      BY <1>1, <2>1
    <2>3. h + e \in 0..(N \div 2) - 1
      BY <1>1, <2>2
    <2>. QED BY <1>4, <2>1, <2>3
  <1>. QED BY <1>2, <1>4, <1>5 DEF h, len, N, sub

(***************************************************************************)
(* The equations                                                           *)
(***************************************************************************)
numAvailable == dataShards - numMissing

\* What analyzeShards returns: the missing and the available blocks, each once,
\* a recovery block for every missing one, and their slices.
Analyzed ==
    /\ rows.missing \in Bijection(1..numMissing, missing)
    /\ rows.available \in Bijection(1..numAvailable, (1..dataShards) \ missing)
    /\ rows.usedParity \in [1..numMissing -> Exponents]
    /\ \A j \in 1..numAvailable : rows.input[j] = ChunkOf(TrueData[rows.available[j]])
    /\ \A i \in 1..numMissing :
          rows.input[numAvailable + i] = ChunkOf(RecoveryBlock[rows.usedParity[i]])

\* What the matrices are applied to at element e, and what shall come out.
Input(e) == [j \in 1..dataShards |-> Element(rows.input[j], e)]

Solution(e) == [k \in 1..numMissing |-> Element(ChunkOf(TrueData[rows.missing[k]]), e)]

chunkElements == 0..(dataLength \div 2) - 1

LEMMA Counts ==
    ASSUME EnvOK
    PROVE  /\ missing \in SUBSET (1..dataShards) /\ available \in SUBSET Exponents
           /\ IsFiniteSet(missing) /\ IsFiniteSet((1..dataShards) \ missing) /\ IsFiniteSet(available)
           /\ numMissing \in Nat /\ numAvailable \in Nat /\ dataShards \in Nat
           /\ Cardinality((1..dataShards) \ missing) = numAvailable
           /\ Cardinality(available) \in Nat
           /\ missing # {} => numMissing >= 1
  <1>1. missing \in SUBSET (1..dataShards) /\ available \in SUBSET Exponents
    BY CoderAssumption DEF EnvOK
  <1>2. IsFiniteSet(1..dataShards) /\ Cardinality(1..dataShards) = dataShards /\ dataShards \in Nat
    BY SetSizes, FS_Interval
  <1>3. IsFiniteSet(missing) /\ IsFiniteSet((1..dataShards) \ missing)
    BY <1>1, <1>2, FS_Subset
  <1>4. IsFiniteSet(available)
    BY <1>1, CoderAssumption, FS_Subset
  <1>5. Cardinality((1..dataShards) \ missing) = dataShards - Cardinality((1..dataShards) \cap missing)
    BY <1>2, <1>3, FS_Difference
  <1>6. (1..dataShards) \cap missing = missing
    BY <1>1
  <1>7. Cardinality((1..dataShards) \ missing) = numAvailable
    BY <1>5, <1>6 DEF numMissing, numAvailable
  <1>8. numMissing \in Nat /\ numAvailable \in Nat /\ Cardinality(available) \in Nat
    BY <1>3, <1>4, <1>7, FS_CardinalityType DEF numMissing
  <1>9. missing # {} => numMissing # 0
    BY <1>3, FS_EmptySet DEF numMissing
  <1>. QED BY <1>1, <1>2, <1>3, <1>4, <1>7, <1>8, <1>9

\* analyzeShards does what Analyzed says.
LEMMA AnalyzeShards ==
    ASSUME EnvOK, Cardinality(available) >= numMissing,
           NEW x, x = analyzeShards,
           \A i \in (1..dataShards) \ missing : data[i] = ChunkOf(TrueData[i])
    PROVE  /\ x.missing \in Bijection(1..numMissing, missing)
           /\ x.available \in Bijection(1..numAvailable, (1..dataShards) \ missing)
           /\ x.usedParity \in [1..numMissing -> Exponents]
           /\ \A j \in 1..numAvailable : x.input[j] = ChunkOf(TrueData[x.available[j]])
           /\ \A i \in 1..numMissing :
                 x.input[numAvailable + i] = ChunkOf(RecoveryBlock[x.usedParity[i]])
  <1>. DEFINE A == (1..dataShards) \ missing
              avail == Ascending(A)
              sorted == Ascending(available)
              used == SubSeq(sorted, 1, numMissing)
              f == [j \in 1..Len(avail) |-> data[avail[j]]]
              h == [j \in 1..Len(used) |-> ChunkOf(RecoveryBlock[used[j]])]
  <1>1. x = [available |-> avail, missing |-> Ascending(missing), usedParity |-> used, input |-> f \o h]
    BY DEF analyzeShards
  <1>2. Ascending(missing) \in Bijection(1..numMissing, missing)
    <2>1. missing \in SUBSET Nat /\ IsFiniteSet(missing)
      BY Counts
    <2>. QED BY <2>1, AscendingFacts DEF numMissing
  <1>3. avail \in Bijection(1..numAvailable, A)
    <2>1. A \in SUBSET Nat /\ IsFiniteSet(A) /\ Cardinality(A) = numAvailable
      BY Counts
    <2>. HIDE DEF A
    <2>2. Ascending(A) \in Bijection(1..Cardinality(A), A)
      BY <2>1, AscendingFacts
    <2>. QED BY <2>1, <2>2
  <1>4. sorted \in [1..Cardinality(available) -> available]
    <2>1. available \in SUBSET Nat /\ IsFiniteSet(available)
      BY Counts, CoderAssumption
    <2>. QED BY <2>1, AscendingFacts, BijectionIs
  <1>. HIDE DEF A, avail, sorted
  <1>5. avail \in [1..numAvailable -> A] /\ Len(avail) = numAvailable
    <2>1. avail \in [1..numAvailable -> A]
      BY <1>3, BijectionIs
    <2>. QED BY <2>1, Counts
  <1>6. used \in [1..numMissing -> available] /\ Len(used) = numMissing
    <2>. DEFINE m == Cardinality(available)
                n == numMissing
    <2>1. m \in Nat /\ n \in Nat /\ n <= m /\ sorted \in [1..m -> available]
      BY <1>4, Counts
    <2>. HIDE DEF m, n
    <2>2. SubSeq(sorted, 1, n) \in [1..n -> available] /\ Len(SubSeq(sorted, 1, n)) = n
      <3>1. sorted \in Seq(available) /\ Len(sorted) = m /\ 1 \in 1..m + 1 /\ n \in 0..m
        BY <2>1
      <3>2. SubSeq(sorted, 1, n) = [k \in 1..n |-> sorted[k]]
        <4>1. SubSeq(sorted, 1, n) = [k \in 1..n - 1 + 1 |-> sorted[k + 1 - 1]]
          BY <2>1, <3>1
        <4>2. n - 1 + 1 = n /\ \A k \in 1..n : k + 1 - 1 = k
          BY <2>1
        <4>. QED BY <4>1, <4>2
      <3>3. \A k \in 1..n : sorted[k] \in available
        BY <2>1
      <3>4. SubSeq(sorted, 1, n) \in [1..n -> available]
        BY <3>2, <3>3
      <3>. QED BY <2>1, <3>4
    <2>. QED BY <2>2 DEF n
  <1>7. used \in [1..numMissing -> Exponents]
    BY <1>6, Counts
  <1>. HIDE DEF used
  <1>8. ASSUME NEW j \in 1..numAvailable PROVE f[j] = ChunkOf(TrueData[avail[j]])
    <2>1. avail[j] \in A
      BY <1>5
    <2>. QED BY <1>5, <2>1 DEF A
  <1>9. \A i \in 1..numMissing : h[i] = ChunkOf(RecoveryBlock[used[i]])
    BY <1>6
  <1>10. /\ \A j \in 1..numAvailable : (f \o h)[j] = f[j]
         /\ \A i \in 1..numMissing : (f \o h)[numAvailable + i] = h[i]
    <2>. DEFINE a == numAvailable
                n == numMissing
    <2>1. a \in Nat /\ n \in Nat /\ f = [j \in 1..a |-> f[j]] /\ h = [j \in 1..n |-> h[j]]
      BY <1>5, <1>6, Counts
    <2>. HIDE DEF a, n, f, h
    <2>2. Len(f) = a /\ Len(h) = n
      BY <2>1
    <2>3. f \o h = [k \in 1..a + n |-> IF k <= a THEN f[k] ELSE h[k - a]]
      BY <2>1, <2>2
    <2>4. \A j \in 1..a : (f \o h)[j] = f[j]
      BY <2>1, <2>3
    <2>5. \A i \in 1..n : a + i \in 1..a + n /\ ~(a + i <= a) /\ (a + i) - a = i
      BY <2>1
    <2>6. \A i \in 1..n : (f \o h)[a + i] = h[i]
      BY <2>3, <2>5
    <2>. QED BY <2>4, <2>6 DEF a, n
  <1>. DEFINE in == f \o h
  <1>11. /\ x.missing = Ascending(missing) /\ x.available = avail
         /\ x.usedParity = used /\ x.input = in
    BY <1>1
  <1>. HIDE DEF f, h
  <1>12. /\ \A j \in 1..numAvailable : in[j] = ChunkOf(TrueData[avail[j]])
         /\ \A i \in 1..numMissing : in[numAvailable + i] = ChunkOf(RecoveryBlock[used[i]])
    BY <1>8, <1>9, <1>10
  <1>. HIDE DEF in
  <1>. QED BY <1>2, <1>3, <1>7, <1>11, <1>12 DEF A

\* The slices the matrix is applied to have the length of the chunk.
LEMMA InputTyped ==
    ASSUME EnvOK, Analyzed
    PROVE  /\ \A j \in 1..dataShards : rows.input[j] \in [1..dataLength -> Byte]
           /\ \A k \in 1..numMissing : rows.missing[k] \in missing /\ rows.missing[k] \in 1..dataShards
           /\ \A e \in chunkElements : /\ Input(e) \in [1..dataShards -> T]
                                       /\ Solution(e) \in [1..numMissing -> T]
  <1>1. \A k \in 1..numMissing : rows.missing[k] \in missing /\ rows.missing[k] \in 1..dataShards
    BY Counts, BijectionIs DEF Analyzed
  <1>2. \A j \in 1..numAvailable : rows.available[j] \in 1..dataShards
    BY Counts, BijectionIs DEF Analyzed
  <1>3. \A i \in 1..dataShards : ChunkOf(TrueData[i]) \in [1..dataLength -> Byte]
    BY BlocksTyped, ChunkSlice
  <1>4. \A e \in Exponents : ChunkOf(RecoveryBlock[e]) \in [1..dataLength -> Byte]
    BY RecoveryElements, ChunkSlice
  <1>5. ASSUME NEW j \in 1..dataShards PROVE rows.input[j] \in [1..dataLength -> Byte]
    <2>1. CASE j \in 1..numAvailable
      BY <1>2, <1>3, <2>1 DEF Analyzed
    <2>2. CASE j \notin 1..numAvailable
      <3>1. j - numAvailable \in 1..numMissing /\ numAvailable + (j - numAvailable) = j
        BY <2>2, Counts DEF numAvailable
      <3>2. rows.usedParity[j - numAvailable] \in Exponents
        BY <3>1 DEF Analyzed
      <3>3. rows.input[numAvailable + (j - numAvailable)] =
              ChunkOf(RecoveryBlock[rows.usedParity[j - numAvailable]])
        BY <3>1 DEF Analyzed
      <3>. QED BY <1>4, <3>1, <3>2, <3>3
    <2>. QED BY <2>1, <2>2
  <1>6. dataLength \in Nat /\ dataLength % 2 = 0
    BY ChunkFits
  <1>7. \A s \in [1..dataLength -> Byte] : \A e \in chunkElements : Element(s, e) \in T
    BY <1>6, SliceElements DEF chunkElements
  <1>8. ASSUME NEW e \in chunkElements
        PROVE  Input(e) \in [1..dataShards -> T] /\ Solution(e) \in [1..numMissing -> T]
    <2>1. Input(e) \in [1..dataShards -> T]
      BY <1>5, <1>7 DEF Input
    <2>2. \A k \in 1..numMissing : Element(ChunkOf(TrueData[rows.missing[k]]), e) \in T
      BY <1>1, <1>3, <1>7
    <2>. QED BY <2>1, <2>2 DEF Solution
  <1>. QED BY <1>1, <1>5, <1>8

\* The matrices that the reduction starts with.
LEMMA StartTyped ==
    ASSUME EnvOK, Analyzed
    PROVE  /\ \A i, k \in 1..numMissing :
                 Unknowns(rows)[i][k] = Coefficient(rows.usedParity[i], rows.missing[k])
           /\ \A i \in 1..numMissing, j \in 1..dataShards :
                 Knowns(rows)[i][j] =
                    IF j <= numAvailable THEN Coefficient(rows.usedParity[i], rows.available[j])
                    ELSE IF i = j - numAvailable THEN one ELSE zero
           /\ Unknowns(rows) \in Matrices(numMissing, numMissing)
           /\ Knowns(rows) \in Matrices(numMissing, dataShards)
  <1>. DEFINE n == numMissing
              u == rows.usedParity
              m == rows.missing
              v == rows.available
  <1>0. n \in Nat /\ numAvailable \in Nat /\ dataShards \in Nat /\ numAvailable + n = dataShards
    BY Counts DEF numAvailable
  <1>1. /\ u \in [1..n -> Exponents] /\ m \in [1..n -> missing]
        /\ v \in [1..numAvailable -> (1..dataShards) \ missing] /\ missing \in SUBSET (1..dataShards)
    <2>1. m \in Bijection(1..n, missing) /\ v \in Bijection(1..numAvailable, (1..dataShards) \ missing)
      BY DEF Analyzed
    <2>2. u \in [1..n -> Exponents] /\ missing \in SUBSET (1..dataShards)
      BY Counts DEF Analyzed
    <2>. HIDE DEF u, m, v, n
    <2>3. m \in [1..n -> missing]
      BY <2>1, BijectionIs
    <2>4. v \in [1..numAvailable -> (1..dataShards) \ missing]
      BY <2>1, BijectionIs
    <2>. QED BY <2>2, <2>3, <2>4
  <1>2. Len(u) = n /\ Len(m) = n /\ Len(v) = numAvailable
    <2>. HIDE DEF u, m, v, n
    <2>. QED BY <1>0, <1>1
  <1>3. \A i, k \in 1..n : parityMatrix[u[i] + 1][m[k]] = Coefficient(u[i], m[k]) /\ Coefficient(u[i], m[k]) \in T
    BY <1>1, ParityEntries, CoefficientTyped
  <1>4. \A i \in 1..n, j \in 1..numAvailable :
          parityMatrix[u[i] + 1][v[j]] = Coefficient(u[i], v[j]) /\ Coefficient(u[i], v[j]) \in T
    BY <1>1, ParityEntries, CoefficientTyped
  <1>5. Unknowns(rows) = [i \in 1..n |-> [k \in 1..n |-> parityMatrix[u[i] + 1][m[k]]]]
    BY <1>2 DEF Unknowns
  <1>6. Knowns(rows) = [i \in 1..n |-> [j \in 1..dataShards |->
            IF j <= numAvailable THEN parityMatrix[u[i] + 1][v[j]]
            ELSE IF i = j - numAvailable THEN one ELSE zero]]
    BY <1>2 DEF Knowns
  <1>. HIDE DEF u, m, v, n
  <1>7. \A i, k \in 1..n : Unknowns(rows)[i][k] = Coefficient(u[i], m[k])
    BY <1>3, <1>5
  <1>8. Unknowns(rows) \in [1..n -> [1..n -> T]]
    BY <1>3, <1>5
  <1>9. ASSUME NEW i \in 1..n, NEW j \in 1..dataShards
        PROVE  /\ Knowns(rows)[i][j] = IF j <= numAvailable THEN Coefficient(u[i], v[j])
                                       ELSE IF i = j - numAvailable THEN one ELSE zero
               /\ Knowns(rows)[i][j] \in T
    <2>1. Knowns(rows)[i][j] = IF j <= numAvailable THEN parityMatrix[u[i] + 1][v[j]]
                               ELSE IF i = j - numAvailable THEN one ELSE zero
      BY <1>6
    <2>2. j <= numAvailable => j \in 1..numAvailable
      BY <1>0
    <2>3. one \in T /\ zero \in T
      BY Widths DEF T, one, zero
    <2>. QED BY <1>4, <2>1, <2>2, <2>3
  <1>10. Knowns(rows) \in [1..n -> [1..dataShards -> T]]
    <2>1. Knowns(rows) = [i \in 1..n |-> [j \in 1..dataShards |-> Knowns(rows)[i][j]]]
      BY <1>6
    <2>. QED BY <1>9, <2>1
  <1>. QED BY <1>7, <1>8, <1>9, <1>10 DEF Matrices, u, m, v, n

\* The missing blocks solve the equations that the reduction starts with: what a
\* recovery block sums up, less the available blocks, is the sum of the missing.
LEMMA StartSolves ==
    ASSUME EnvOK, Analyzed, NEW e \in chunkElements
    PROVE  Solves(Unknowns(rows), Knowns(rows), numMissing, dataShards, Solution(e), Input(e))
  <1>. DEFINE n == numMissing
              a == numAvailable
              d == dataShards
              u == rows.usedParity
              m == rows.missing
              v == rows.available
              E == chunkElement + e
              A == (1..d) \ missing
  <1>0. /\ n \in Nat /\ a \in Nat /\ d \in Nat /\ a + n = d /\ missing \in SUBSET (1..d)
        /\ IsFiniteSet(1..d) /\ IsFiniteSet(missing) /\ IsFiniteSet(A)
    <2>1. /\ n \in Nat /\ a \in Nat /\ d \in Nat /\ missing \in SUBSET (1..d)
          /\ IsFiniteSet(missing) /\ IsFiniteSet(A)
      BY Counts
    <2>2. a + n = d
      BY <2>1 DEF numAvailable
    <2>. HIDE DEF d
    <2>3. IsFiniteSet(1..d)
      BY <2>1, FS_Interval
    <2>. QED BY <2>1, <2>2, <2>3
  <1>1. /\ u \in [1..n -> Exponents] /\ m \in Bijection(1..n, missing)
        /\ v \in Bijection(1..a, A)
    BY DEF Analyzed
  <1>2. m \in [1..n -> missing] /\ v \in [1..a -> A]
    <2>. HIDE DEF m, v, n, a, A
    <2>. QED BY <1>1, BijectionIs
  <1>3. e \in 0..(dataLength \div 2) - 1
    BY DEF chunkElements
  <1>4. E \in 0..(sliceByteCount \div 2) - 1 /\ \A j \in 1..d : Element(ChunkOf(TrueData[j]), e) = Element(TrueData[j], E)
    <2>1. 1 \in 1..d
      BY SetSizes
    <2>. QED BY <1>3, <2>1, BlocksTyped, ChunkSlice
  <1>5. SUFFICES ASSUME NEW i \in 1..n
                 PROVE  Dot(Unknowns(rows)[i], Solution(e), n) = Dot(Knowns(rows)[i], Input(e), d)
    BY DEF Solves
  <1>. DEFINE F == Contribution(u[i], E)
              H == [k \in 1..n |-> timesPoly(Unknowns(rows)[i][k], Solution(e)[k])]
              G == [j \in 1..d |-> timesPoly(Knowns(rows)[i][j], Input(e)[j])]
  <1>6. u[i] \in Exponents
    BY <1>1
  <1>7. /\ F \in [1..d -> T]
        /\ \A j \in 1..d : F[j] = timesPoly(Coefficient(u[i], j), Element(TrueData[j], E))
    <2>1. F \in [1..d -> T]
      BY <1>4, <1>6, ContributionTyped
    <2>. QED BY <2>1 DEF Contribution
  <1>8. ASSUME NEW k \in 1..n PROVE H[k] = F[m[k]]
    <2>1. m[k] \in 1..d
      BY <1>0, <1>2
    <2>2. Solution(e)[k] = Element(TrueData[m[k]], E)
      BY <1>4, <2>1 DEF Solution
    <2>3. Unknowns(rows)[i][k] = Coefficient(u[i], m[k])
      BY StartTyped
    <2>. QED BY <1>7, <2>1, <2>2, <2>3
  <1>9. ASSUME NEW j \in 1..a PROVE G[j] = F[v[j]]
    <2>1. v[j] \in 1..d /\ j \in 1..d /\ j <= a
      BY <1>0, <1>2
    <2>2. rows.input[j] = ChunkOf(TrueData[v[j]])
      BY DEF Analyzed
    <2>3. Input(e)[j] = Element(TrueData[v[j]], E)
      BY <1>4, <2>1, <2>2 DEF Input
    <2>4. Knowns(rows)[i][j] = Coefficient(u[i], v[j])
      BY <2>1, StartTyped
    <2>. QED BY <1>7, <2>1, <2>3, <2>4
  <1>10. G[a + i] = Sum2(F, 1..d)
    <2>1. a + i \in 1..d /\ ~(a + i <= a) /\ (a + i) - a = i
      BY <1>0
    <2>2. rows.input[a + i] = ChunkOf(RecoveryBlock[u[i]])
      BY DEF Analyzed
    <2>3. Input(e)[a + i] = Element(RecoveryBlock[u[i]], E)
      <3>1. RecoveryBlock[u[i]] \in [1..sliceByteCount -> Byte]
        BY <1>6, RecoveryElements
      <3>2. Element(ChunkOf(RecoveryBlock[u[i]]), e) = Element(RecoveryBlock[u[i]], E)
        BY <1>3, <3>1, ChunkSlice
      <3>. QED BY <2>1, <2>2, <3>2 DEF Input
    <2>4. Element(RecoveryBlock[u[i]], E) = Sum2(F, 1..d)
      BY <1>4, <1>6, RecoveryElements
    <2>5. Knowns(rows)[i][a + i] = one
      BY <2>1, StartTyped
    <2>. QED BY <2>1, <2>3, <2>4, <2>5, SumType, PolyOne
  <1>11. ASSUME NEW j \in (a + 1..d) \ {a + i} PROVE G[j] = {}
    <2>1. j \in 1..d /\ ~(j <= a) /\ i # j - a
      BY <1>0
    <2>2. Knowns(rows)[i][j] = zero
      BY <2>1, StartTyped
    <2>3. Input(e)[j] \in T
      BY <2>1, InputTyped
    <2>. QED BY <2>1, <2>2, <2>3, PolyZero DEF zero
  <1>. DEFINE B == a + 1..d
  <1>12. /\ IsFiniteSet(1..a) /\ IsFiniteSet(B) /\ a + i \in B /\ IsFiniteSet(1..n)
         /\ 1..d = Plus(1..a, B) /\ 1..d = Plus(A, missing)
    <2>1. IsFiniteSet(1..a) /\ IsFiniteSet(B) /\ IsFiniteSet(1..n)
      BY <1>0, FS_Interval
    <2>2. a + i \in B /\ 1..d = (1..a) \cup B /\ (1..a) \cap B = {}
      BY <1>0
    <2>3. 1..d = Plus(1..a, B)
      BY <2>2 DEF Plus
    <2>4. 1..d = Plus(A, missing)
      BY <1>0 DEF Plus
    <2>. QED BY <2>1, <2>2, <2>3, <2>4
  <1>13. Dot(Unknowns(rows)[i], Solution(e), n) = Sum2(H, 1..n)
         /\ Dot(Knowns(rows)[i], Input(e), d) = Sum2(G, 1..d)
    BY DEF Dot
  <1>. HIDE DEF F, G, H, B, A, E, n, a, d, u, m, v
  <1>14. Sum2(H, 1..n) = Sum2(F, missing)
    <2>. DEFINE N == 1..n
    <2>1. m \in Bijection(N, missing) /\ IsFiniteSet(N) /\ Renamed(H, F, m, N)
      BY <1>1, <1>8, <1>12 DEF Renamed
    <2>. HIDE DEF N
    <2>2. Sum2(H, N) = Sum2(F, missing)
      BY <2>1, SumReindex
    <2>. QED BY <2>2 DEF N
  <1>15. Sum2(G, 1..a) = Sum2(F, A)
    <2>. DEFINE N == 1..a
    <2>1. v \in Bijection(N, A) /\ IsFiniteSet(N) /\ Renamed(G, F, v, N)
      BY <1>1, <1>9, <1>12 DEF Renamed
    <2>. HIDE DEF N
    <2>2. Sum2(G, N) = Sum2(F, A)
      BY <2>1, SumReindex
    <2>. QED BY <2>2 DEF N
  <1>16. Sum2(G, B) = Sum2(F, 1..d)
    <2>1. G[a + i] \in T
      BY <1>10, SumType
    <2>2. \A j \in B \ {a + i} : G[j] = {}
      BY <1>11 DEF B
    <2>. QED BY <1>10, <1>12, <2>1, <2>2, SumSingle
  <1>17. Sum2(G, 1..d) = Plus(Sum2(F, A), Sum2(F, 1..d))
    BY <1>12, <1>15, <1>16, SumOver
  <1>18. Sum2(F, 1..d) = Plus(Sum2(F, A), Sum2(F, missing))
    BY <1>0, <1>12, SumOver
  <1>. QED BY <1>13, <1>14, <1>17, <1>18, PlusAlgebra

(***************************************************************************)
(* The product of a range                                                  *)
(***************************************************************************)

\* A range starts at an element and holds whole elements.
LEMMA RangeEven ==
    ASSUME EnvOK, NEW r \in Ranges
    PROVE  /\ rangeStart(Split, r) \in Nat /\ Even(rangeStart(Split, r))
           /\ rangeEnd(dataLength, Split, r) \in Nat
           /\ rangeStart(Split, r) < rangeEnd(dataLength, Split, r)
           /\ rangeEnd(dataLength, Split, r) <= dataLength
           /\ Even(rangeEnd(dataLength, Split, r) - rangeStart(Split, r))
  <1>1. /\ rangeStart(Split, r) \in Nat /\ rangeEnd(dataLength, Split, r) \in Nat
        /\ rangeEnd(dataLength, Split, r) <= dataLength /\ dataLength \in Nat \ {0}
    BY RangeTypes
  <1>2. Split \in Nat \ {0} /\ Even(Split)
    BY <1>1, SetSizes, BlockEven, SplitEven DEF EnvOK, Split
  <1>3. r \in Nat
    BY DEF Ranges
  <1>4. Even(rangeStart(Split, r))
    BY <1>2, <1>3, MultipleEven DEF rangeStart
  <1>5. /\ rangeStart(Split, r) < rangeEnd(dataLength, Split, r)
        /\ (rangeEnd(dataLength, Split, r) - rangeStart(Split, r)) % 2 = 0
    BY SplitExact DEF Partitions, Ranges
  <1>. QED BY <1>1, <1>4, <1>5 DEF Even

\* The bytes of an element are additive.
LEMMA ByteAdditive ==
    ASSUME NEW h \in {0, 1}
    PROVE  Additive([x \in T |-> ByteOf(x, h)])
  <1>1. Byte \subseteq T
    BY Widths DEF Byte, T
  <1>. QED BY <1>1, ByteMember, ByteOfPlus, PlusElement DEF Additive

\* A byte of a row of the product is the byte of the row applied to the input.
LEMMA RowByteIs ==
    ASSUME EnvOK, Analyzed, right \in Matrices(numMissing, dataShards),
           NEW i \in 1..numMissing, NEW r \in Ranges,
           NEW k \in rangeStart(Split, r) + 1..rangeEnd(dataLength, Split, r)
    PROVE  /\ k \in 1..dataLength
           /\ (k - 1) \div 2 \in chunkElements
           /\ RowByte(i, rangeStart(Split, r), rangeEnd(dataLength, Split, r), k - rangeStart(Split, r))
                = ByteOf(Dot(right[i], Input((k - 1) \div 2), dataShards), (k - 1) % 2)
  <1>. DEFINE from == rangeStart(Split, r)
              to == rangeEnd(dataLength, Split, r)
              f == from \div 2
              len == to - from
              q == k - from
              e == (k - 1) \div 2
              h == (k - 1) % 2
              d == dataShards
              a == right[i]
  <1>0. dataLength \in Nat \ {0} /\ dataLength % 2 = 0
    BY ChunkFits
  <1>1. from \in Nat /\ from % 2 = 0 /\ to \in Nat /\ from < to /\ to <= dataLength /\ (to - from) % 2 = 0
    BY RangeEven DEF Even
  <1>2. k \in from + 1..to
    OBVIOUS
  <1>3. RowByte(i, from, to, k - from) =
          Sum2([j \in 1..d |-> IF a[j] = zero THEN zero
                               ELSE productByte(cpu, a[j], SubSeq(rows.input[j], from + 1, to), q)], 1..d)
    BY DEF RowByte
  <1>. HIDE DEF from, to
  <1>4. f \in Nat /\ from = 2 * f /\ len \in Nat /\ len % 2 = 0 /\ q \in 1..len /\ to = 2 * f + len
    BY <1>1, <1>2
  <1>5. /\ (q - 1) \div 2 \in Nat /\ 2 * ((q - 1) \div 2) + 2 <= len
        /\ f + ((q - 1) \div 2) = e /\ (q - 1) % 2 = h /\ h \in {0, 1}
    BY <1>1, <1>2, <1>4
  <1>6. e \in 0..(dataLength \div 2) - 1 /\ k \in 1..dataLength
    BY <1>0, <1>1, <1>2
  <1>7. a \in [1..d -> T] /\ d \in Nat
    BY SetSizes DEF Matrices
  <1>. DEFINE F == [j \in 1..d |-> timesPoly(a[j], Input(e)[j])]
              L == [x \in T |-> ByteOf(x, h)]
              H == [j \in 1..d |-> IF a[j] = zero THEN zero
                                   ELSE productByte(cpu, a[j], SubSeq(rows.input[j], from + 1, to), q)]
  <1>8. Input(e) \in [1..d -> T] /\ \A j \in 1..d : rows.input[j] \in [1..dataLength -> Byte]
    BY <1>6, InputTyped DEF chunkElements
  <1>9. ASSUME NEW j \in 1..d PROVE F[j] \in T /\ H[j] = L[F[j]]
    <2>. DEFINE s == rows.input[j]
                sub == SubSeq(s, 2 * f + 1, 2 * f + len)
    <2>0. Input(e)[j] = Element(s, e)
      BY DEF Input
    <2>1. F[j] = timesPoly(a[j], Element(s, e)) /\ Element(s, e) \in T /\ F[j] \in T
      BY <1>7, <1>8, <2>0, PolyType
    <2>2. L[F[j]] = ByteOf(timesPoly(a[j], Element(s, e)), h)
      BY <2>1
    <2>3. CASE a[j] = zero
      <3>1. H[j] = zero
        BY <2>3
      <3>2. ByteOf(zero, 0) = zero /\ ByteOf(zero, 1) = zero
        BY DEF ByteOf, ShiftRight, zero
      <3>3. L[F[j]] = ByteOf(zero, h)
        BY <2>1, <2>2, <2>3, PolyZero
      <3>. QED BY <1>5, <2>1, <3>1, <3>2, <3>3
    <2>4. CASE a[j] # zero
      <3>1. H[j] = productByte(cpu, a[j], sub, q)
        BY <1>4, <2>4
      <3>2. s \in [1..dataLength -> Byte] /\ dataLength \in Nat /\ 2 * f + len <= dataLength
        BY <1>0, <1>1, <1>4, <1>8
      <3>. HIDE DEF s, e, f, len, q, h
      <3>3. /\ sub \in [1..len -> Byte]
            /\ \A x \in Nat : 2 * x + 2 <= len => Element(sub, x) = Element(s, f + x)
        BY <1>4, <3>2, SubSlice
      <3>4. Element(sub, (q - 1) \div 2) = Element(s, e)
        BY <1>5, <3>3
      <3>5. cpu \in CPUs /\ a[j] \in T
        BY <1>7 DEF EnvOK
      <3>. HIDE DEF sub, a
      <3>6. productByte(cpu, a[j], sub, q) = ByteOf(timesPoly(a[j], Element(sub, (q - 1) \div 2)), (q - 1) % 2)
        BY <1>4, <2>4, <3>3, <3>5, ProductByte
      <3>. QED BY <1>5, <2>1, <2>2, <3>1, <3>4, <3>6
    <2>. QED BY <2>1, <2>3, <2>4
  <1>10. Additive(L) /\ IsFiniteSet(1..d)
    <2>. HIDE DEF h, d
    <2>1. h \in {0, 1} /\ d \in Nat
      BY <1>5, <1>7
    <2>2. Additive(L)
      BY <2>1, ByteAdditive
    <2>3. IsFiniteSet(1..d)
      BY <2>1, FS_Interval
    <2>. QED BY <2>2, <2>3
  <1>11. Dot(a, Input(e), d) = Sum2(F, 1..d) /\ Sum2(F, 1..d) \in T
    BY SumType DEF Dot
  <1>12. L[Sum2(F, 1..d)] = ByteOf(Sum2(F, 1..d), h)
    BY <1>11
  <1>. HIDE DEF F, H, L
  <1>13. Sum2(H, 1..d) = L[Sum2(F, 1..d)]
    <2>. DEFINE N == 1..d
    <2>1. IsFiniteSet(N) /\ Additive(L) /\ Images(H, F, L, N)
      BY <1>9, <1>10 DEF Images
    <2>. HIDE DEF N
    <2>2. Sum2(H, N) = L[Sum2(F, N)]
      BY <2>1, SumImage
    <2>. QED BY <2>2 DEF N
  <1>14. RowByte(i, from, to, k - from) = Sum2(H, 1..d)
    BY <1>3 DEF H
  <1>. QED BY <1>6, <1>11, <1>12, <1>13, <1>14 DEF from, to, chunkElements

(***************************************************************************)
(* The kernels                                                             *)
(***************************************************************************)

\* The table of the products holds them.
LEMMA PolyProductIs ==
    ASSUME NEW t \in T, NEW u \in T
    PROVE  PolyProduct[<<t, u>>] = timesPoly(t, u)
  <1>1. PolyProduct = [x \in T \X T |-> timesPoly(x[1], x[2])]
    BY TableIs DEF PolyProduct
  <1>2. <<t, u>> \in T \X T
    OBVIOUS
  <1>. QED BY <1>1, <1>2

LEMMA KernelsRight == EnvOK => KernelsAgree
  <1>. DEFINE N == sliceByteCount
              R(c, i) == [k \in 1..N \div 2 |-> PolyProduct[<<c, Element(TrueData[i], k - 1)>>]]
  <1>. SUFFICES ASSUME EnvOK PROVE KernelsAgree
    OBVIOUS
  <1>0. cpu \in CPUs /\ N \in Nat /\ N % 2 = 0 /\ DOMAIN TrueData = 1..dataShards /\ 1 \in 1..dataShards
    BY SetSizes, BlocksTyped DEF EnvOK, Even
  <1>1. ASSUME NEW c \in T, NEW i \in DOMAIN TrueData
        PROVE  /\ MulByteSliceLE(cpu, c, TrueData[i]) = Bytes(R(c, i))
               /\ MulAndAddByteSliceLE(cpu, c, TrueData[i], TrueData[1]) =
                     [k \in 1..N |-> Plus(Bytes(R(c, i))[k], TrueData[1][k])]
    <2>. DEFINE in == TrueData[i]
                out == TrueData[1]
    <2>1. in \in [1..N -> Byte] /\ out \in [1..N -> Byte]
      BY <1>0, BlocksTyped
    <2>2. ASSUME NEW k \in 1..N \div 2
          PROVE  PolyProduct[<<c, Element(in, k - 1)>>] = timesPoly(c, Element(in, k - 1))
      <3>1. k - 1 \in 0..(N \div 2) - 1
        BY <1>0
      <3>2. Element(in, k - 1) \in T
        BY <1>0, <2>1, <3>1, SliceElements
      <3>. QED BY <3>2, PolyProductIs
    <2>3. R(c, i) = [k \in 1..N \div 2 |-> timesPoly(c, Element(in, k - 1))]
      BY <2>2
    <2>4. Bytes(R(c, i)) = SliceProduct(c, N, in)
      BY <2>3 DEF SliceProduct
    <2>. HIDE DEF in, out, N, R
    <2>5. MulByteSliceLE(cpu, c, in) = SliceProduct(c, N, in)
      BY <1>0, <2>1, MulSliceProduct
    <2>6. /\ MulAndAddByteSliceLE(cpu, c, in, out) = SliceSum(c, N, in, out)
          /\ SliceSum(c, N, in, out) \in [1..N -> Byte]
          /\ \A k \in 1..N : SliceSum(c, N, in, out)[k] = Plus(SliceProduct(c, N, in)[k], out[k])
      BY <1>0, <2>1, MulAndAddSliceProduct
    <2>7. SliceSum(c, N, in, out) = [k \in 1..N |-> Plus(Bytes(R(c, i))[k], out[k])]
      BY <2>4, <2>6
    <2>. QED BY <2>4, <2>5, <2>6, <2>7 DEF in, out
  <1>2. ASSUME NEW t \in T, NEW u \in T
        PROVE  /\ Times(t, u) = PolyProduct[<<t, u>>]
               /\ u # zero => /\ PolyProduct[<<Div(t, u), u>>] = t
                              /\ PolyProduct[<<InverseOf(u), u>>] = one
    <2>1. Times(t, u) = PolyProduct[<<t, u>>]
      BY PolyProductIs, TimesIsProduct
    <2>. QED BY <2>1, InverseFacts, PolyProductIs
  <1>3. ASSUME NEW t \in T, NEW p \in 0..order - 1 PROVE Pow(t, p + 1) = PolyProduct[<<Pow(t, p), t>>]
    <2>1. p \in Nat
      OBVIOUS
    <2>. QED BY <2>1, PowFacts, PolyProductIs
  <1>. QED BY <1>1, <1>2, <1>3 DEF KernelsAgree

\* On every processor, for every coefficient and every data block, the kernels
\* and the scalar operations compute the products of the field
\* (gf16.MulByteSliceLE, MulAndAddByteSliceLE, Times, Div, Inverse, Pow).
THEOREM KernelsAgreeAlways == Spec => []KernelsAgree
  BY EnvInvariant, KernelsRight, PTL

(***************************************************************************)
(* The reduction                                                           *)
(***************************************************************************)

\* The matrices are typed, the true blocks solve their equations, and a vector
\* they take to zero is one that the chosen rows take to zero.
Reduces(l, r) ==
    /\ l \in Matrices(numMissing, numMissing)
    /\ r \in Matrices(numMissing, dataShards)
    /\ \A e \in chunkElements : Solves(l, r, numMissing, dataShards, Solution(e), Input(e))
    /\ \A v \in [1..numMissing -> T] :
          Kills(l, numMissing, v) => Kills(Unknowns(rows), numMissing, v)

LEMMA StartReduces ==
    ASSUME EnvOK, Analyzed
    PROVE  Reduces(Unknowns(rows), Knowns(rows))
  BY StartTyped, StartSolves DEF Reduces

\* A pivot that is swapped in and scaled keeps what the matrices mean.
LEMMA PivotReduces ==
    ASSUME EnvOK, Analyzed, NEW l, NEW r, Reduces(l, r),
           NEW c \in 1..numMissing, NEW p \in 1..numMissing, NEW u \in T, u # zero
    PROVE  Reduces(pivoted(cpu, l, c, p, u), pivoted(cpu, r, c, p, u))
  <1>. DEFINE n == numMissing
              d == dataShards
              lp == pivoted(cpu, l, c, p, u)
              rp == pivoted(cpu, r, c, p, u)
  <1>1. n \in Nat /\ d \in Nat /\ cpu \in CPUs
    BY Counts DEF EnvOK
  <1>2. l \in Matrices(n, n) /\ r \in Matrices(n, d)
    BY DEF Reduces
  <1>3. c \in 1..n /\ p \in 1..n
    OBVIOUS
  <1>. HIDE DEF n, d
  <1>4. lp \in Matrices(n, n) /\ rp \in Matrices(n, d)
    BY <1>1, <1>2, <1>3, PivotedRows
  <1>5. /\ \A X \in [1..n -> T], Y \in [1..d -> T] : Solves(l, r, n, d, X, Y) => Solves(lp, rp, n, d, X, Y)
        /\ \A v \in [1..n -> T] : Kills(lp, n, v) => Kills(l, n, v)
    BY <1>1, <1>2, <1>3, PivotStep
  <1>. HIDE DEF lp, rp
  <1>6. \A e \in chunkElements : Solution(e) \in [1..n -> T] /\ Input(e) \in [1..d -> T]
    BY InputTyped DEF n, d
  <1>. QED BY <1>4, <1>5, <1>6 DEF Reduces, n, d, lp, rp

\* So does adding a row to others.
LEMMA AddReduces ==
    ASSUME EnvOK, Analyzed, NEW l, NEW r, Reduces(l, r),
           NEW c \in 1..numMissing, NEW Dest, c \notin Dest
    PROVE  Reduces(addScaledRows(cpu, l, l, Dest, c, c), addScaledRows(cpu, r, l, Dest, c, c))
  <1>. DEFINE n == numMissing
              d == dataShards
              la == addScaledRows(cpu, l, l, Dest, c, c)
              ra == addScaledRows(cpu, r, l, Dest, c, c)
  <1>1. n \in Nat /\ d \in Nat /\ cpu \in CPUs
    BY Counts DEF EnvOK
  <1>2. l \in Matrices(n, n) /\ r \in Matrices(n, d)
    BY DEF Reduces
  <1>3. c \in 1..n
    OBVIOUS
  <1>. HIDE DEF n, d
  <1>4. la \in Matrices(n, n) /\ ra \in Matrices(n, d)
    BY <1>1, <1>2, <1>3, AddedRows
  <1>5. /\ \A X \in [1..n -> T], Y \in [1..d -> T] : Solves(l, r, n, d, X, Y) => Solves(la, ra, n, d, X, Y)
        /\ \A v \in [1..n -> T] : Kills(la, n, v) => Kills(l, n, v)
    BY <1>1, <1>2, <1>3, AddStep
  <1>. HIDE DEF la, ra
  <1>6. \A e \in chunkElements : Solution(e) \in [1..n -> T] /\ Input(e) \in [1..d -> T]
    BY InputTyped DEF n, d
  <1>. QED BY <1>4, <1>5, <1>6 DEF Reduces, n, d, la, ra

\* The least member of a set of numbers.
LEMMA LeastMember ==
    ASSUME NEW S \in SUBSET Nat, S # {}
    PROVE  Min(S) \in S
  <1>1. \E x \in S : \A y \in S : x <= y
    BY LeastNatural
  <1>. QED BY <1>1 DEF Min

\* The least pivot is a row of the matrix at or below the diagonal.
LEMMA PivotFound ==
    ASSUME NEW n \in Nat, NEW l \in Matrices(n, n), NEW c \in 1..n
    PROVE  /\ pivotRows(l, c) # {} =>
                 /\ Min(pivotRows(l, c)) \in c..n
                 /\ l[Min(pivotRows(l, c))][c] # zero /\ l[Min(pivotRows(l, c))][c] \in T
           /\ pivotRows(l, c) = {} => \A i \in c..n : l[i][c] = zero
  <1>1. DOMAIN l = 1..n /\ \A i \in 1..n : l[i][c] \in T
    BY DEF Matrices
  <1>2. pivotRows(l, c) = {j \in 1..n : j >= c /\ l[j][c] # zero}
    BY <1>1 DEF pivotRows
  <1>3. pivotRows(l, c) \in SUBSET Nat
    BY <1>2
  <1>4. pivotRows(l, c) # {} => Min(pivotRows(l, c)) \in pivotRows(l, c)
    BY <1>3, LeastMember
  <1>5. ASSUME NEW p \in pivotRows(l, c) PROVE p \in c..n /\ l[p][c] # zero /\ l[p][c] \in T
    BY <1>1, <1>2
  <1>6. ASSUME pivotRows(l, c) = {}, NEW i \in c..n PROVE l[i][c] = zero
    BY <1>2, <1>6
  <1>. QED BY <1>4, <1>5, <1>6

\* A column of convertToRowEchelonForm.
LEMMA EchelonReduces ==
    ASSUME EnvOK, Analyzed, NEW l, NEW r, Reduces(l, r), NEW c \in 1..numMissing,
           Echelon(l, numMissing, c), pivotRows(l, c) # {},
           NEW p, p = Min(pivotRows(l, c)),
           NEW lp, lp = pivoted(cpu, l, c, p, l[p][c]), NEW rp, rp = pivoted(cpu, r, c, p, l[p][c])
    PROVE  LET la == addScaledRows(cpu, lp, lp, c + 1..numMissing, c, c)
               ra == addScaledRows(cpu, rp, lp, c + 1..numMissing, c, c)
           IN  Reduces(la, ra) /\ Echelon(la, numMissing, c + 1)
  <1>. DEFINE n == numMissing
              u == l[p][c]
  <1>1. n \in Nat /\ l \in Matrices(n, n) /\ c \in 1..n /\ cpu \in CPUs
    BY Counts DEF EnvOK, Reduces
  <1>2. p \in c..n /\ u # zero /\ u \in T
    <2>. HIDE DEF n
    <2>. QED BY <1>1, PivotFound
  <1>3. p \in 1..n
    BY <1>1, <1>2
  <1>. HIDE DEF u
  <1>4. Reduces(lp, rp)
    BY <1>2, <1>3, PivotReduces DEF u
  <1>. DEFINE Dest == c + 1..n
  <1>5. c \notin Dest
    BY <1>1
  <1>. HIDE DEF Dest
  <1>6. Reduces(addScaledRows(cpu, lp, lp, Dest, c, c), addScaledRows(cpu, rp, lp, Dest, c, c))
    BY <1>4, <1>5, AddReduces
  <1>. HIDE DEF n
  <1>7. Echelon(l, n, c) /\ l[p][c] # zero
    BY <1>2 DEF u, n
  <1>8. Echelon(addScaledRows(cpu, lp, lp, c + 1..n, c, c), n, c + 1)
    BY <1>1, <1>2, <1>7, EchelonStep
  <1>. QED BY <1>6, <1>8 DEF Dest, n

\* A column of convertToReducedRowEchelonForm.
LEMMA ReducedReduces ==
    ASSUME EnvOK, Analyzed, NEW l, NEW r, Reduces(l, r), NEW c \in 1..numMissing,
           Echelon(l, numMissing, numMissing + 1), Cleared(l, c)
    PROVE  LET la == addScaledRows(cpu, l, l, 1..c - 1, c, c)
               ra == addScaledRows(cpu, r, l, 1..c - 1, c, c)
           IN  /\ Reduces(la, ra)
               /\ Echelon(la, numMissing, numMissing + 1) /\ Cleared(la, c + 1)
  <1>. DEFINE n == numMissing
  <1>1. n \in Nat /\ l \in Matrices(n, n) /\ c \in 1..n /\ cpu \in CPUs
    BY Counts DEF EnvOK, Reduces
  <1>. DEFINE Dest == 1..c - 1
  <1>2. c \notin Dest
    BY <1>1
  <1>. HIDE DEF Dest
  <1>3. Reduces(addScaledRows(cpu, l, l, Dest, c, c), addScaledRows(cpu, r, l, Dest, c, c))
    BY <1>2, AddReduces
  <1>4. Echelon(l, n, n + 1)
    OBVIOUS
  <1>. HIDE DEF n
  <1>5. /\ Echelon(addScaledRows(cpu, l, l, 1..c - 1, c, c), n, n + 1)
        /\ Cleared(addScaledRows(cpu, l, l, 1..c - 1, c, c), c + 1)
    BY <1>1, <1>4, ReducedStep
  <1>. QED BY <1>3, <1>5 DEF Dest, n

\* No pivot: the chosen rows are dependent.
LEMMA SingularDependent ==
    ASSUME EnvOK, Analyzed, NEW l, NEW r, Reduces(l, r), NEW c \in 1..numMissing,
           Echelon(l, numMissing, c), pivotRows(l, c) = {}
    PROVE  Dependent(Unknowns(rows))
  <1>. DEFINE n == numMissing
              x == Unknowns(rows)
              nil == [j \in 1..n |-> zero]
  <1>1. n \in Nat /\ l \in Matrices(n, n) /\ c \in 1..n /\ Echelon(l, n, c)
    BY Counts DEF Reduces
  <1>. HIDE DEF n
  <1>2. \E v \in [1..n -> T] : v[c] = one /\ Kills(l, n, v)
    BY <1>1, PivotFound, NoPivot
  <1>3. PICK v \in [1..n -> T] : v[c] = one /\ Kills(l, n, v)
    BY <1>2
  <1>4. Kills(x, n, v)
    BY <1>3 DEF Reduces, n
  <1>5. x \in [1..n -> [1..n -> T]]
    BY StartTyped DEF Matrices, n
  <1>. HIDE DEF x
  <1>6. Len(x) = n
    BY <1>1, <1>5
  <1>7. v # nil
    <2>1. nil[c] = zero
      BY <1>1
    <2>2. one # zero
      BY DEF one, zero
    <2>. HIDE DEF nil
    <2>. QED BY <1>3, <2>1, <2>2
  <1>8. ASSUME NEW i \in 1..n
        PROVE  Sum2([j \in 1..n |-> PolyProduct[<<x[i][j], v[j]>>]], 1..n) = zero
    <2>1. \A j \in 1..n : PolyProduct[<<x[i][j], v[j]>>] = timesPoly(x[i][j], v[j])
      BY <1>5, PolyProductIs
    <2>2. [j \in 1..n |-> PolyProduct[<<x[i][j], v[j]>>]] = [j \in 1..n |-> timesPoly(x[i][j], v[j])]
      BY <2>1
    <2>3. Dot(x[i], v, n) = zero
      BY <1>4 DEF Kills
    <2>. QED BY <2>2, <2>3 DEF Dot
  <1>9. Dependent(x)
    <2>1. v \in [1..Len(x) -> T] \ {[j \in 1..Len(x) |-> zero]}
      BY <1>6, <1>7
    <2>. QED BY <1>6, <1>8, <2>1 DEF Dependent
  <1>. QED BY <1>9 DEF x

\* Rows that are done in every range are the missing blocks.
LEMMA RowsTrue ==
    ASSUME EnvOK, Analyzed, Reduces(left, right),
           Echelon(left, numMissing, numMissing + 1), Cleared(left, numMissing + 1),
           NEW i \in 1..numMissing, reconstructed[i] \in [1..dataLength -> Byte],
           \A r \in Ranges : RowDone(r, i)
    PROVE  reconstructed[i] = ChunkOf(TrueData[rows.missing[i]])
  <1>. DEFINE n == numMissing
              d == dataShards
              s == ChunkOf(TrueData[rows.missing[i]])
  <1>1. n \in Nat /\ d \in Nat /\ i \in 1..n
    BY Counts
  <1>2. s \in [1..dataLength -> Byte]
    BY InputTyped, BlocksTyped, ChunkSlice
  <1>3. dataLength \in Nat /\ dataLength % 2 = 0
    BY ChunkFits
  <1>4. right \in Matrices(n, d) /\ left \in Matrices(n, n)
    BY DEF Reduces
  <1>5. ASSUME NEW e \in chunkElements PROVE Dot(right[i], Input(e), d) = Element(s, e)
    <2>. DEFINE X == Solution(e)
                Y == Input(e)
    <2>1. X \in [1..n -> T] /\ Solves(left, right, n, d, X, Y) /\ X[i] = Element(s, e)
      BY InputTyped DEF Reduces, Solution
    <2>2. Echelon(left, n, n + 1) /\ Cleared(left, n + 1)
      OBVIOUS
    <2>. HIDE DEF X, Y, n, d, s
    <2>3. X[i] = Dot(right[i], Y, d)
      BY <1>1, <1>4, <2>1, <2>2, ReducedSolution
    <2>. QED BY <2>1, <2>3 DEF Y
  <1>6. ASSUME NEW k \in 1..dataLength PROVE reconstructed[i][k] = s[k]
    <2>1. PICK r \in Ranges : k \in rangeStart(Split, r) + 1..rangeEnd(dataLength, Split, r)
      <3>1. k - 1 \in 0..dataLength - 1
        BY <1>3
      <3>2. PICK r \in Ranges : rangeStart(Split, r) <= k - 1 /\ k - 1 < rangeEnd(dataLength, Split, r)
        BY <3>1, SplitExact DEF Partitions, Ranges
      <3>3. rangeStart(Split, r) \in Nat /\ rangeEnd(dataLength, Split, r) \in Nat /\ k \in Nat
        BY RangeTypes
      <3>. QED BY <3>2, <3>3
    <2>2. /\ (k - 1) \div 2 \in chunkElements
          /\ RowByte(i, rangeStart(Split, r), rangeEnd(dataLength, Split, r), k - rangeStart(Split, r))
                = ByteOf(Dot(right[i], Input((k - 1) \div 2), d), (k - 1) % 2)
      BY <1>4, <2>1, RowByteIs
    <2>3. reconstructed[i][k] =
            RowByte(i, rangeStart(Split, r), rangeEnd(dataLength, Split, r), k - rangeStart(Split, r))
      BY <2>1 DEF RowDone
    <2>. HIDE DEF s
    <2>4. s[k] = ByteOf(Element(s, (k - 1) \div 2), (k - 1) % 2)
      BY <1>2, <1>3, SliceElements
    <2>. QED BY <1>5, <2>2, <2>3, <2>4
  <1>. DEFINE x == reconstructed[i]
  <1>7. x \in [1..dataLength -> Byte] /\ \A k \in 1..dataLength : x[k] = s[k]
    BY <1>6
  <1>. HIDE DEF s, x
  <1>8. x = s
    <2>1. x = [k \in 1..dataLength |-> x[k]] /\ s = [k \in 1..dataLength |-> s[k]]
      BY <1>2, <1>7
    <2>2. [k \in 1..dataLength |-> x[k]] = [k \in 1..dataLength |-> s[k]]
      BY <1>7
    <2>. QED BY <2>1, <2>2
  <1>. QED BY <1>8 DEF s, x

(***************************************************************************)
(* Reconstruct, from its call to its return                                *)
(***************************************************************************)

\* The blocks as they were given to Reconstruct, and as they shall be.
Located == [i \in 1..dataShards |-> IF i \in missing THEN Nil ELSE ChunkOf(TrueData[i])]

Whole == [i \in 1..dataShards |-> ChunkOf(TrueData[i])]

\* The rows of the product hold bytes, and no goroutine is past the last row.
RowsTyped ==
    /\ \A r \in DOMAIN nextRow : nextRow[r] \in 1..numMissing + 1
    /\ \A i \in DOMAIN reconstructed : reconstructed[i] \in [1..dataLength -> Byte]

\* The blocks are those of the call until it returns without an error.
DataInv ==
    /\ stage \in {"called", "echelon", "reduced", "applying", "returned"}
    /\ err \in {"none", "cancelled", "notEnough", "singular"}
    /\ stage # "returned" => data = Located /\ err = "none"
    /\ stage = "returned" => data = IF err = "none" THEN Whole ELSE Located

\* While the matrix is inverted and applied, its two sides are row equivalent to
\* those that analyzeShards chose, and the columns behind are done.
MatrixInv ==
    stage \in {"echelon", "reduced", "applying"} =>
        /\ missing # {} /\ column \in 1..numMissing
        /\ Analyzed /\ Reduces(left, right)
        /\ stage = "echelon" => Echelon(left, numMissing, column)
        /\ stage = "reduced" => Echelon(left, numMissing, numMissing + 1) /\ Cleared(left, column)
        /\ stage = "applying" => /\ Echelon(left, numMissing, numMissing + 1)
                                 /\ Cleared(left, numMissing + 1)

SolveInv == RowsInv /\ RowsTyped /\ DataInv /\ MatrixInv /\ FailureExplained

\* What a call was given and chose keeps its meaning.
LEMMA MeaningKept ==
    ASSUME UNCHANGED env
    PROVE  /\ numMissing' = numMissing /\ dataLength' = dataLength /\ chunkElements' = chunkElements
           /\ missing' = missing /\ available' = available
           /\ \A s : ChunkOf(s)' = ChunkOf(s)
           /\ Located' = Located /\ Whole' = Whole
           /\ numAvailable' = numAvailable
  <1>1. /\ numMissing' = numMissing /\ dataLength' = dataLength
        /\ missing' = missing /\ available' = available /\ chunkIdx' = chunkIdx /\ chunkSize' = chunkSize
    BY DEF env, numMissing, dataLength, chunkSize
  <1>2. \A s : ChunkOf(s)' = ChunkOf(s)
    BY <1>1 DEF ChunkOf
  <1>. QED BY <1>1, <1>2 DEF Located, Whole, numAvailable, chunkElements

LEMMA ChoiceKept ==
    ASSUME UNCHANGED <<env, rows>>
    PROVE  /\ Analyzed => Analyzed'
           /\ Reduces(left', right') => Reduces(left, right)'
           /\ Unknowns(rows)' = Unknowns(rows)
           /\ \A e : Input(e)' = Input(e) /\ Solution(e)' = Solution(e)
  <1>1. /\ rows' = rows /\ numMissing' = numMissing /\ missing' = missing
        /\ chunkElements' = chunkElements /\ numAvailable' = numAvailable
        /\ \A s : ChunkOf(s)' = ChunkOf(s)
    BY MeaningKept
  <1>2. Analyzed => Analyzed'
    BY <1>1 DEF Analyzed
  <1>3. Unknowns(rows)' = Unknowns(rows)
    BY <1>1 DEF Unknowns
  <1>4. \A e : Input(e)' = Input(e) /\ Solution(e)' = Solution(e)
    BY <1>1 DEF Input, Solution
  <1>5. Reduces(left', right') => Reduces(left, right)'
    BY <1>1, <1>3, <1>4 DEF Reduces
  <1>. QED BY <1>2, <1>3, <1>4, <1>5

LEMMA SolveInit == Init => SolveInv
  <1>. SUFFICES ASSUME Init PROVE SolveInv
    OBVIOUS
  <1>1. RowsInv
    BY DEF Init, RowsInv, EnvOK, ProductWhole
  <1>2. DOMAIN nextRow = {} /\ DOMAIN reconstructed = {}
    BY DEF Init
  <1>3. RowsTyped
    BY <1>2 DEF RowsTyped
  <1>4. DataInv
    BY DEF Init, DataInv, Located
  <1>5. MatrixInv
    BY DEF Init, MatrixInv
  <1>6. FailureExplained
    BY DEF Init, FailureExplained
  <1>. QED BY <1>1, <1>3, <1>4, <1>5, <1>6 DEF SolveInv

\* The start of the reduction, as a formula.
LEMMA StartFormula == EnvOK /\ Analyzed => Reduces(Unknowns(rows), Knowns(rows))
  BY StartReduces

\* analyzeShards chooses the equations that the true blocks solve.
LEMMA AnalyzeStep ==
    ASSUME RowsInv, RowsInv', DataInv, Analyze
    PROVE  MatrixInv'
  <1>1. EnvOK /\ EnvOK' /\ UNCHANGED env
    BY DEF RowsInv, Analyze
  <1>2. data = Located /\ stage' = "echelon" /\ missing # {} /\ column' = 1
        /\ Cardinality(available) >= numMissing /\ rows' = analyzeShards
        /\ left' = Unknowns(rows') /\ right' = Knowns(rows')
    BY DEF DataInv, Analyze
  <1>3. \A i \in (1..dataShards) \ missing : data[i] = ChunkOf(TrueData[i])
    BY <1>2 DEF Located
  <1>4. /\ rows'.missing \in Bijection(1..numMissing, missing)
        /\ rows'.available \in Bijection(1..numAvailable, (1..dataShards) \ missing)
        /\ rows'.usedParity \in [1..numMissing -> Exponents]
        /\ \A j \in 1..numAvailable : rows'.input[j] = ChunkOf(TrueData[rows'.available[j]])
        /\ \A i \in 1..numMissing :
              rows'.input[numAvailable + i] = ChunkOf(RecoveryBlock[rows'.usedParity[i]])
    BY <1>1, <1>2, <1>3, AnalyzeShards
  <1>5. Analyzed'
    BY <1>1, <1>4, MeaningKept DEF Analyzed
  <1>6. (EnvOK /\ Analyzed => Reduces(Unknowns(rows), Knowns(rows)))'
    BY StartFormula, PTL
  <1>7. Unknowns(rows)' = left' /\ Knowns(rows)' = right'
    BY <1>2 DEF Unknowns, Knowns
  <1>8. Reduces(left, right)'
    BY <1>1, <1>5, <1>6, <1>7 DEF Reduces
  <1>9. column' \in 1..numMissing' /\ missing' # {} /\ Echelon(left', numMissing', column')
    <2>1. numMissing >= 1 /\ numMissing \in Nat /\ numMissing' = numMissing /\ missing' = missing
      BY <1>1, <1>2, Counts, MeaningKept
    <2>2. 1..column' - 1 = {}
      BY <1>2
    <2>. QED BY <1>2, <2>1, <2>2 DEF Echelon
  <1>. QED BY <1>2, <1>5, <1>8, <1>9 DEF MatrixInv

\* A column of the row echelon form.
LEMMA EchelonStepKeeps ==
    ASSUME RowsInv, MatrixInv, EchelonColumn
    PROVE  MatrixInv'
  <1>. DEFINE n == numMissing
              p == Min(pivotRows(left, column))
              lp == pivoted(cpu, left, column, p, left[p][column])
              rp == pivoted(cpu, right, column, p, left[p][column])
  <1>1. /\ EnvOK /\ UNCHANGED <<env, rows>> /\ stage = "echelon" /\ missing # {} /\ column \in 1..n
        /\ Analyzed /\ Reduces(left, right) /\ Echelon(left, n, column) /\ pivotRows(left, column) # {}
    BY DEF RowsInv, MatrixInv, EchelonColumn
  <1>2. /\ left' = addScaledRows(cpu, lp, lp, column + 1..n, column, column)
        /\ right' = addScaledRows(cpu, rp, lp, column + 1..n, column, column)
        /\ column' = IF column = n THEN 1 ELSE column + 1
        /\ stage' = IF column = n THEN "reduced" ELSE "echelon"
    BY <1>1 DEF EchelonColumn, NextColumn
  <1>. HIDE DEF n, p
  <1>3. Reduces(left', right') /\ Echelon(left', n, column + 1)
    BY <1>1, <1>2, EchelonReduces DEF n, p
  <1>4. n \in Nat /\ numMissing' = n /\ missing' = missing
    BY <1>1, Counts, MeaningKept DEF n
  <1>5. Analyzed' /\ Reduces(left, right)'
    BY <1>1, <1>3, ChoiceKept
  <1>6. CASE column = n
    <2>1. column' = 1 /\ stage' = "reduced" /\ Echelon(left', n, n + 1)
      BY <1>2, <1>3, <1>6
    <2>2. 1 \in 1..n /\ 1..1 - 1 = {}
      BY <1>1, <1>4
    <2>3. Cleared(left', 1)
      BY <2>2 DEF Cleared
    <2>. QED BY <1>1, <1>4, <1>5, <2>1, <2>2, <2>3 DEF MatrixInv
  <1>7. CASE column # n
    <2>1. column' = column + 1 /\ stage' = "echelon" /\ Echelon(left', n, column')
      BY <1>2, <1>3, <1>7
    <2>2. column + 1 \in 1..n
      BY <1>1, <1>4, <1>7
    <2>. QED BY <1>1, <1>4, <1>5, <2>1, <2>2 DEF MatrixInv
  <1>. QED BY <1>6, <1>7

\* A column of the reduced row echelon form.
LEMMA ReducedStepKeeps ==
    ASSUME RowsInv, MatrixInv, ReducedColumn
    PROVE  MatrixInv'
  <1>. DEFINE n == numMissing
  <1>1. /\ EnvOK /\ UNCHANGED <<env, rows>> /\ stage = "reduced" /\ missing # {} /\ column \in 1..n
        /\ Analyzed /\ Reduces(left, right) /\ Echelon(left, n, n + 1) /\ Cleared(left, column)
    BY DEF RowsInv, MatrixInv, ReducedColumn
  <1>2. /\ left' = addScaledRows(cpu, left, left, 1..column - 1, column, column)
        /\ right' = addScaledRows(cpu, right, left, 1..column - 1, column, column)
        /\ column' = IF column = n THEN 1 ELSE column + 1
        /\ stage' = IF column = n THEN "applying" ELSE "reduced"
    BY <1>1 DEF ReducedColumn, NextColumn
  <1>. HIDE DEF n
  <1>3. Reduces(left', right') /\ Echelon(left', n, n + 1) /\ Cleared(left', column + 1)
    BY <1>1, <1>2, ReducedReduces DEF n
  <1>4. n \in Nat /\ numMissing' = n /\ missing' = missing
    BY <1>1, Counts, MeaningKept DEF n
  <1>5. Analyzed' /\ Reduces(left, right)'
    BY <1>1, <1>3, ChoiceKept
  <1>6. CASE column = n
    <2>1. column' = 1 /\ stage' = "applying" /\ Cleared(left', n + 1)
      BY <1>2, <1>3, <1>6
    <2>2. 1 \in 1..n
      BY <1>1, <1>4
    <2>. QED BY <1>1, <1>3, <1>4, <1>5, <2>1, <2>2 DEF MatrixInv
  <1>7. CASE column # n
    <2>1. column' = column + 1 /\ stage' = "reduced" /\ Cleared(left', column')
      BY <1>2, <1>3, <1>7
    <2>2. column + 1 \in 1..n
      BY <1>1, <1>4, <1>7
    <2>. QED BY <1>1, <1>3, <1>4, <1>5, <2>1, <2>2 DEF MatrixInv
  <1>. QED BY <1>6, <1>7

\* A goroutine writes bytes and does not pass the last row.
LEMMA ApplyRowTyped ==
    ASSUME RowsInv, RowsTyped, MatrixInv, NEW r \in DOMAIN nextRow, ApplyRow(r)
    PROVE  RowsTyped'
  <1>. DEFINE n == numMissing
              from == rangeStart(Split, r)
              to   == rangeEnd(dataLength, Split, r)
              i    == nextRow[r]
  <1>1. /\ EnvOK /\ Analyzed /\ right \in Matrices(n, dataShards) /\ UNCHANGED env
        /\ nextRow \in [Ranges -> Nat] /\ DOMAIN reconstructed = 1..n
    BY DEF RowsInv, MatrixInv, ApplyRow, Reduces
  <1>2. n \in Nat /\ numMissing' = n /\ dataLength' = dataLength
    BY <1>1, Counts, MeaningKept
  <1>3. i \in 1..n /\ r \in Ranges
    BY <1>1, <1>2 DEF RowsTyped, ApplyRow
  <1>. HIDE DEF n
  <1>4. \A q \in DOMAIN nextRow' : nextRow'[q] \in 1..n + 1
    <2>1. \A q \in DOMAIN nextRow : nextRow[q] \in 1..n + 1
      BY DEF RowsTyped, n
    <2>2. nextRow' = [nextRow EXCEPT ![r] = n + 1] \/ nextRow' = [nextRow EXCEPT ![r] = i + 1]
      BY DEF ApplyRow, n
    <2>3. n + 1 \in 1..n + 1 /\ i + 1 \in 1..n + 1
      BY <1>2, <1>3
    <2>. HIDE DEF i
    <2>. QED BY <1>1, <2>1, <2>2, <2>3
  <1>5. ASSUME NEW q \in DOMAIN reconstructed' PROVE reconstructed'[q] \in [1..dataLength -> Byte]
    <2>1. \A x \in 1..n : reconstructed[x] \in [1..dataLength -> Byte]
      BY <1>1 DEF RowsTyped
    <2>2. CASE cancelled
      BY <1>1, <1>5, <2>1, <2>2 DEF ApplyRow
    <2>3. CASE ~cancelled
      <3>. DEFINE old == reconstructed[i]
                  new == [k \in DOMAIN old |-> IF k \in from + 1..to
                                               THEN RowByte(i, from, to, k - from) ELSE old[k]]
      <3>1. reconstructed' = [reconstructed EXCEPT ![i] = new]
        BY <2>3 DEF ApplyRow
      <3>2. old \in [1..dataLength -> Byte]
        BY <1>3, <2>1
      <3>3. ASSUME NEW k \in from + 1..to PROVE RowByte(i, from, to, k - from) \in Byte
        <4>1. /\ k \in 1..dataLength
              /\ RowByte(i, from, to, k - from) =
                   ByteOf(Dot(right[i], Input((k - 1) \div 2), dataShards), (k - 1) % 2)
          BY <1>1, <1>3, RowByteIs DEF n
        <4>2. (k - 1) % 2 \in {0, 1}
          BY <1>1, <4>1, ChunkFits
        <4>. QED BY <4>1, <4>2, DotType, ByteMember
      <3>. HIDE DEF old, from, to, i
      <3>4. new \in [1..dataLength -> Byte]
        BY <3>2, <3>3
      <3>. HIDE DEF new
      <3>. QED BY <1>1, <1>5, <2>1, <3>1, <3>4
    <2>. QED BY <2>2, <2>3
  <1>. QED BY <1>2, <1>4, <1>5 DEF RowsTyped

\* When every range is done the missing blocks are restored to their true bytes.
LEMMA JoinRestores ==
    ASSUME RowsInv, RowsTyped, DataInv, MatrixInv, RangesDone, ~cancelled
    PROVE  Restored = Whole
  <1>. DEFINE m == rows.missing
              n == numMissing
  <1>1. /\ stage = "applying" /\ EnvOK /\ Analyzed /\ Reduces(left, right) /\ data = Located
        /\ Echelon(left, n, n + 1) /\ Cleared(left, n + 1)
        /\ nextRow \in [Ranges -> Nat] /\ DOMAIN reconstructed = 1..n
    BY DEF RangesDone, RowsInv, MatrixInv, DataInv
  <1>2. n \in Nat /\ m \in Bijection(1..n, missing)
    BY <1>1, Counts DEF Analyzed
  <1>3. /\ m \in [1..n -> missing] /\ \A x, y \in 1..n : m[x] = m[y] => x = y
        /\ \A q \in missing : \E x \in 1..n : m[x] = q
    <2>. HIDE DEF m, n
    <2>. QED BY <1>2, BijectionIs
  <1>4. ASSUME NEW i \in 1..n PROVE reconstructed[i] = ChunkOf(TrueData[m[i]])
    <2>1. reconstructed[i] \in [1..dataLength -> Byte]
      BY <1>1 DEF RowsTyped
    <2>2. ASSUME NEW r \in Ranges PROVE RowDone(r, i)
      <3>1. nextRow[r] > n /\ nextRow[r] \in Nat
        BY <1>1 DEF RangesDone
      <3>2. i < nextRow[r]
        BY <1>2, <3>1
      <3>. QED BY <1>1, <3>2 DEF RowsInv
    <2>. QED BY <1>1, <2>1, <2>2, RowsTrue
  <1>5. ASSUME NEW q \in missing
        PROVE  reconstructed[CHOOSE k \in DOMAIN m : m[k] = q] = ChunkOf(TrueData[q])
    <2>. DEFINE k == CHOOSE k \in DOMAIN m : m[k] = q
    <2>. HIDE DEF m
    <2>1. DOMAIN m = 1..n
      BY <1>3
    <2>2. k \in 1..n /\ m[k] = q
      BY <1>3, <2>1
    <2>. HIDE DEF k
    <2>3. reconstructed[k] = ChunkOf(TrueData[q])
      BY <1>4, <2>2
    <2>. QED BY <2>3 DEF k
  <1>6. \A q \in (1..dataShards) \ missing : data[q] = ChunkOf(TrueData[q])
    BY <1>1 DEF Located
  <1>. QED BY <1>5, <1>6 DEF Restored, Whole

\* What stays when a step leaves the reduction alone.
LEMMA MatrixKept ==
    ASSUME MatrixInv, UNCHANGED <<env, work>>, stage' = stage \/ stage' = "returned"
    PROVE  MatrixInv'
  <1>1. /\ UNCHANGED <<env, rows>> /\ left' = left /\ right' = right /\ column' = column
        /\ numMissing' = numMissing /\ missing' = missing
    BY MeaningKept DEF work
  <1>2. CASE stage' = "returned"
    BY <1>2 DEF MatrixInv
  <1>3. CASE stage' = stage /\ stage \in {"echelon", "reduced", "applying"}
    <2>1. Analyzed' /\ Reduces(left, right)'
      BY <1>1, <1>3, ChoiceKept DEF MatrixInv
    <2>. QED BY <1>1, <1>3, <2>1 DEF MatrixInv
  <1>4. CASE stage' = stage /\ stage \notin {"echelon", "reduced", "applying"}
    BY <1>4 DEF MatrixInv
  <1>. QED BY <1>2, <1>3, <1>4

\* Every step keeps the invariant.
LEMMA SolveStep == SolveInv /\ [Next]_vars => SolveInv'
  <1>. SUFFICES ASSUME SolveInv, [Next]_vars PROVE SolveInv'
    OBVIOUS
  <1>0. RowsInv /\ RowsTyped /\ DataInv /\ MatrixInv /\ FailureExplained /\ RowsInv'
    BY RowsStep DEF SolveInv
  <1>1. UNCHANGED env
    BY EnvKept DEF vars
  <1>2. /\ numMissing' = numMissing /\ dataLength' = dataLength /\ missing' = missing
        /\ available' = available /\ Located' = Located /\ Whole' = Whole
    BY <1>1, MeaningKept
  <1>3. ASSUME UNCHANGED <<nextRow, reconstructed>> PROVE RowsTyped'
    BY <1>0, <1>2, <1>3 DEF RowsTyped
  <1>4. CASE ReturnAtOnce
    <2>1. /\ UNCHANGED <<env, work, nextRow, reconstructed, data, cancelled>>
          /\ stage = "called" /\ stage' = "returned"
      BY <1>4 DEF ReturnAtOnce, Return
    <2>2. /\ err' \in {"none", "cancelled", "notEnough"}
          /\ err' = "none" => missing = {}
          /\ err' = "notEnough" => Cardinality(available) < numMissing
          /\ err' = "cancelled" => cancelled
      BY <1>4 DEF ReturnAtOnce, Return
    <2>3. data = Located /\ (missing = {} => Located = Whole)
      BY <1>0, <2>1 DEF DataInv, Located, Whole
    <2>4. DataInv'
      BY <1>2, <2>1, <2>2, <2>3 DEF DataInv
    <2>5. MatrixInv'
      BY <1>0, <2>1, MatrixKept
    <2>6. FailureExplained'
      BY <1>2, <2>1, <2>2 DEF FailureExplained
    <2>. QED BY <1>0, <1>3, <2>1, <2>4, <2>5, <2>6 DEF SolveInv
  <1>5. ASSUME UNCHANGED <<data, err>>, stage # "returned", stage' # "returned",
               stage' \in {"called", "echelon", "reduced", "applying"}
        PROVE  DataInv' /\ FailureExplained'
    BY <1>0, <1>2, <1>5 DEF DataInv, FailureExplained
  <1>6. CASE Analyze
    <2>1. UNCHANGED <<nextRow, reconstructed, data, err>> /\ stage = "called" /\ stage' = "echelon"
      BY <1>6 DEF Analyze
    <2>2. MatrixInv'
      BY <1>0, <1>6, AnalyzeStep
    <2>. QED BY <1>0, <1>3, <1>5, <2>1, <2>2 DEF SolveInv
  <1>7. CASE EchelonColumn
    <2>1. /\ UNCHANGED <<nextRow, reconstructed, data, err>>
          /\ stage = "echelon" /\ stage' \in {"echelon", "reduced"}
      BY <1>7 DEF EchelonColumn, NextColumn
    <2>2. MatrixInv'
      BY <1>0, <1>7, EchelonStepKeeps
    <2>. QED BY <1>0, <1>3, <1>5, <2>1, <2>2 DEF SolveInv
  <1>8. CASE Singular
    <2>1. /\ UNCHANGED <<env, work, nextRow, reconstructed, data, cancelled>>
          /\ stage = "echelon" /\ stage' = "returned" /\ err' = "singular"
      BY <1>8 DEF Singular, Return
    <2>2. DataInv'
      BY <1>0, <1>2, <2>1 DEF DataInv
    <2>3. MatrixInv'
      BY <1>0, <2>1, MatrixKept
    <2>4. Dependent(Unknowns(rows))
      <3>1. /\ EnvOK /\ Analyzed /\ Reduces(left, right) /\ column \in 1..numMissing
            /\ Echelon(left, numMissing, column) /\ pivotRows(left, column) = {}
        BY <1>0, <1>8, <2>1 DEF RowsInv, MatrixInv, Singular
      <3>. QED BY <3>1, SingularDependent
    <2>5. Unknowns(rows)' = Unknowns(rows)
      BY <2>1, ChoiceKept DEF work
    <2>6. FailureExplained'
      <3>1. Dependent(Unknowns(rows))'
        BY <2>4, <2>5 DEF Dependent
      <3>. QED BY <2>1, <3>1 DEF FailureExplained
    <2>. QED BY <1>0, <1>3, <2>1, <2>2, <2>3, <2>6 DEF SolveInv
  <1>9. CASE ReducedColumn
    <2>1. /\ UNCHANGED <<data, err>> /\ stage = "reduced" /\ stage' \in {"reduced", "applying"}
          /\ nextRow' = [r \in Ranges |-> 1]
          /\ reconstructed' = [i \in 1..numMissing |-> [k \in 1..dataLength |-> zero]]
      BY <1>9 DEF ReducedColumn, NextColumn
    <2>2. MatrixInv'
      BY <1>0, <1>9, ReducedStepKeeps
    <2>3. numMissing \in Nat /\ 1 \in 1..numMissing + 1 /\ zero \in Byte
      BY <1>0, MissingCounted DEF RowsInv, zero, Byte
    <2>4. RowsTyped'
      BY <1>2, <2>1, <2>3 DEF RowsTyped
    <2>. QED BY <1>0, <1>5, <2>1, <2>2, <2>4 DEF SolveInv
  <1>10. ASSUME NEW r \in DOMAIN nextRow, ApplyRow(r) PROVE SolveInv'
    <2>1. UNCHANGED <<env, work, data, err>> /\ stage = "applying" /\ stage' = "applying"
      BY <1>10 DEF ApplyRow
    <2>2. MatrixInv'
      BY <1>0, <2>1, MatrixKept
    <2>3. RowsTyped'
      BY <1>0, <1>10, ApplyRowTyped
    <2>. QED BY <1>0, <1>5, <2>1, <2>2, <2>3 DEF SolveInv
  <1>11. CASE Join
    <2>1. /\ UNCHANGED <<env, work, nextRow, reconstructed, cancelled>>
          /\ stage = "applying" /\ stage' = "returned" /\ RangesDone
      BY <1>11 DEF Join, RangesDone, Return
    <2>2. data = Located
      BY <1>0, <2>1 DEF DataInv
    <2>3. MatrixInv'
      BY <1>0, <2>1, MatrixKept
    <2>4. CASE cancelled
      <3>1. err' = "cancelled" /\ data' = data /\ cancelled'
        BY <1>11, <2>1, <2>4 DEF Join, Return
      <3>2. DataInv' /\ FailureExplained'
        BY <1>2, <2>1, <2>2, <3>1 DEF DataInv, FailureExplained
      <3>. QED BY <1>0, <1>3, <2>1, <2>3, <3>2 DEF SolveInv
    <2>5. CASE ~cancelled
      <3>1. err' = "none" /\ data' = Restored
        BY <1>11, <2>1, <2>5 DEF Join, Return
      <3>2. Restored = Whole
        BY <1>0, <2>1, <2>5, JoinRestores
      <3>3. DataInv' /\ FailureExplained'
        BY <1>2, <2>1, <3>1, <3>2 DEF DataInv, FailureExplained
      <3>. QED BY <1>0, <1>3, <2>1, <2>3, <3>3 DEF SolveInv
    <2>. QED BY <2>4, <2>5
  <1>12. CASE Cancel
    <2>1. UNCHANGED <<env, work, nextRow, reconstructed, data, err, stage>> /\ stage # "returned"
      BY <1>12 DEF Cancel
    <2>2. MatrixInv'
      BY <1>0, <2>1, MatrixKept
    <2>3. stage \in {"called", "echelon", "reduced", "applying"}
      BY <1>0, <2>1 DEF DataInv
    <2>. QED BY <1>0, <1>3, <1>5, <2>1, <2>2, <2>3 DEF SolveInv
  <1>13. CASE UNCHANGED vars
    <2>1. UNCHANGED <<env, work, nextRow, reconstructed, data, err, stage, cancelled>>
      BY <1>13 DEF vars
    <2>2. MatrixInv'
      BY <1>0, <2>1, MatrixKept
    <2>3. DataInv'
      BY <1>0, <1>2, <2>1 DEF DataInv
    <2>4. Unknowns(rows)' = Unknowns(rows)
      BY <2>1, ChoiceKept DEF work
    <2>5. Dependent(Unknowns(rows)) => Dependent(Unknowns(rows))'
      BY <2>4 DEF Dependent
    <2>6. FailureExplained'
      BY <1>0, <1>2, <2>1, <2>5 DEF FailureExplained
    <2>. QED BY <1>0, <1>3, <2>1, <2>2, <2>3, <2>6 DEF SolveInv
  <1>. QED BY <1>4, <1>6, <1>7, <1>8, <1>9, <1>10, <1>11, <1>12, <1>13
          DEF Next, Reconstruct, Returned

LEMMA SolveAlways == Spec => []SolveInv
  BY SolveInit, SolveStep, PTL DEF Spec

\* A call that returns no error has restored every missing block to its true
\* bytes and left the others alone: on every processor, for every chunk, field,
\* set of losses and recovery blocks, and whenever the context was cancelled
\* (Coder.Reconstruct).
THEOREM ReconstructTrueAlways == Spec => []ReconstructTrue
  <1>1. SolveInv => ReconstructTrue
    BY DEF SolveInv, DataInv, ReconstructTrue, Whole
  <1>. QED BY <1>1, SolveAlways, PTL

\* A reconstruction is refused only for a reason; in particular no invertible
\* matrix is called singular (convertToRowEchelonForm).
THEOREM FailureExplainedAlways == Spec => []FailureExplained
  <1>1. SolveInv => FailureExplained
    BY DEF SolveInv
  <1>. QED BY <1>1, SolveAlways, PTL

\* The variables of Reconstruct keep their types, and no slice that reaches a
\* kernel has an odd length (validateSlicePair).
THEOREM CoderTypeOKAlways == Spec => []CoderTypeOK
  <1>1. SolveInv => CoderTypeOK
    <2>. SUFFICES ASSUME SolveInv PROVE CoderTypeOK
      OBVIOUS
    <2>1. EnvOK /\ RowsTyped /\ DataInv
      BY DEF SolveInv, RowsInv
    <2>2. cpu \in CPUs /\ missing \subseteq 1..dataShards /\ available \subseteq Exponents
      BY <2>1, Counts DEF EnvOK
    <2>3. /\ dataLength \in Nat \ {0} /\ chunkSize \in Nat /\ dataLength <= chunkSize
          /\ dataLength % 2 = 0
      BY <2>1, ChunkFits
    <2>4. dataLength \in 1..chunkSize /\ dataLength % 2 = 0
      BY <2>3
    <2>5. ASSUME NEW i \in 1..dataShards PROVE Len(data[i]) \in {0, dataLength}
      <3>1. data[i] = Nil \/ data[i] = ChunkOf(TrueData[i])
        BY <2>1 DEF DataInv, Located, Whole
      <3>2. ChunkOf(TrueData[i]) \in [1..dataLength -> Byte]
        BY <2>1, BlocksTyped, ChunkSlice
      <3>3. Len(ChunkOf(TrueData[i])) = dataLength
        BY <2>3, <3>2
      <3>4. Len(Nil) = 0
        BY DEF Nil
      <3>. QED BY <3>1, <3>3, <3>4
    <2>. QED BY <2>1, <2>2, <2>4, <2>5 DEF CoderTypeOK, RowsTyped, DataInv
  <1>. QED BY <1>1, SolveAlways, PTL

=============================================================================
