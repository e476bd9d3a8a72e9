----------------------------- MODULE WorkSplit -----------------------------
(***************************************************************************)
(* How a repair cuts its work: a block into the chunks that fit in memory  *)
(* (repair.go), and a chunk into the ranges that goroutines multiply       *)
(* (rs.go).  The code has chunkAlign = minSplitBytes = 16.                 *)
(***************************************************************************)
EXTENDS Integers

CONSTANTS
    chunkAlign,     \* a chunk is a multiple of this, but for the last one
    minSplitBytes   \* a goroutine gets at least this much

ASSUME SplitAssumption ==
    /\ chunkAlign \in Nat \ {0} /\ chunkAlign % 2 = 0
    /\ minSplitBytes \in Nat \ {0} /\ minSplitBytes % 2 = 0

Least(a, b) == IF a <= b THEN a ELSE b

Greatest(a, b) == IF a >= b THEN a ELSE b

(***************************************************************************)
(* Chunks                                                                  *)
(***************************************************************************)

\* Mutant: the share is not rounded to whole elements.
computeChunkSizeUnaligned(memoryLimit, totalDataShards, unusableDataShards, sliceByteCount) ==
    Greatest(Least(memoryLimit \div (totalDataShards + unusableDataShards),
                   sliceByteCount), chunkAlign)

computeChunkSize(memoryLimit, totalDataShards, unusableDataShards, sliceByteCount) ==
    LET chunkSize == Least(memoryLimit \div (totalDataShards + unusableDataShards),
                           sliceByteCount)
    IN  Greatest((chunkSize \div chunkAlign) * chunkAlign, chunkAlign)

numChunks(sliceByteCount, chunkSize) == (sliceByteCount + chunkSize - 1) \div chunkSize

currChunkSize(sliceByteCount, chunkSize, chunkIdx) ==
    IF chunkIdx = numChunks(sliceByteCount, chunkSize) - 1
    THEN sliceByteCount - chunkIdx * chunkSize ELSE chunkSize

(***************************************************************************)
(* Ranges                                                                  *)
(***************************************************************************)

\* A share rounded up to a whole block of the kernel.
splitForBlock(dataLength, numGoroutines, kernelBlock) ==
    LET block == Greatest(kernelBlock, minSplitBytes)
        split == Greatest((dataLength + numGoroutines - 1) \div numGoroutines, block)
    IN  IF split % block # 0 THEN split + (block - (split % block)) ELSE split

numRanges(dataLength, split) == (dataLength + split - 1) \div split

rangeStart(split, i) == i * split

\* Mutant: a range ends one element early.
rangeEndShort(dataLength, split, i) == Least(i * split + split - 2, dataLength)

rangeEnd(dataLength, split, i) == Least(i * split + split, dataLength)

\* The ranges share no byte and leave none out, and none is empty or odd.
Partitions(dataLength, split) ==
    /\ \A i \in 0..numRanges(dataLength, split) - 1 :
          /\ rangeStart(split, i) < rangeEnd(dataLength, split, i)
          /\ (rangeEnd(dataLength, split, i) - rangeStart(split, i)) % 2 = 0
    /\ \A p \in 0..dataLength - 1 :
          \E i \in 0..numRanges(dataLength, split) - 1 :
             /\ rangeStart(split, i) <= p /\ p < rangeEnd(dataLength, split, i)
             /\ \A j \in 0..numRanges(dataLength, split) - 1 :
                   (rangeStart(split, j) <= p /\ p < rangeEnd(dataLength, split, j)) => j = i

=============================================================================
