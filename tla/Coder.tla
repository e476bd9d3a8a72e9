-------------------------------- MODULE Coder --------------------------------
(***************************************************************************)
(* rs.Coder.Reconstruct as executeChunk calls it, for one chunk of the     *)
(* blocks: the rows of the recovery matrix are chosen, the matrix is       *)
(* inverted, and goroutines multiply disjoint ranges of the chunk while    *)
(* the context may be cancelled.  The recovery blocks are what any PAR2    *)
(* client wrote, computed here from the definition of the field.           *)
(***************************************************************************)
EXTENDS Matrix, WorkSplit

CONSTANTS
    TrueData,       \* the data blocks: a sequence of slices of equal length
    Exponents,      \* exponents that recovery blocks may have
    Losses,         \* the sets of data blocks that may be missing
    Recoveries,     \* the sets of exponents that may be loaded
    MemoryLimits,   \* values of the memory limit
    numGoroutines   \* DecoderOptions.NumGoroutines

dataShards == Len(TrueData)

sliceByteCount == Len(TrueData[1])

(***************************************************************************)
(* The recovery set                                                        *)
(***************************************************************************)
Ascending(S) ==
    [k \in 1..Cardinality(S) |-> CHOOSE x \in S : Cardinality({y \in S : y < x}) = k - 1]

OrderPrimes ==
    {p \in 2..order - 1 : (order - 1) % p = 0 /\ \A q \in 2..p - 1 : p % q # 0}

generatorLogs == {i \in 0..order - 1 : \A p \in OrderPrimes : i % p # 0}

\* initGenerators: powers of two of full order.
generators ==
    LET logs == Ascending(generatorLogs)
    IN  Stored([j \in 1..dataShards |-> Pow({1}, logs[j])])

\* NewCoderPAR2Vandermonde refuses more data blocks than there are generators.
ASSUME CoderAssumption ==
    /\ TrueData \in Seq(Seq(Byte)) /\ dataShards > 0
    /\ sliceByteCount > 0 /\ sliceByteCount % 2 = 0
    /\ \A i \in DOMAIN TrueData : TrueData[i] \in [1..sliceByteCount -> Byte]
    /\ dataShards <= Cardinality(generatorLogs)
    /\ Exponents \in SUBSET Nat \ {{}} /\ IsFiniteSet(Exponents)
    /\ Losses \subseteq SUBSET (1..dataShards)
    /\ Recoveries \subseteq SUBSET Exponents
    /\ MemoryLimits \subseteq Nat
    /\ numGoroutines \in Nat \ {0}

VARIABLES
    cpu,            \* what the processor offers
    memoryLimit,
    chunkIdx,       \* the chunk that is reconstructed
    missing,        \* the data blocks that are not located
    available,      \* exponents of the recovery blocks at hand
    data,           \* activeDataShards; Nil where the block is missing
    rows,           \* what analyzeShards returned: the rows it chose, and the input
    left, right,    \* the matrices m and n being reduced; n becomes the reconstruction matrix
    column,         \* the column that is reduced
    nextRow,        \* by range, the row its goroutine comes to
    reconstructed,  \* reconstructedData
    cancelled,      \* the context is done
    stage,          \* "called", "echelon", "reduced", "applying" or "returned"
    err             \* what Reconstruct returned

env == <<cpu, memoryLimit, chunkIdx, missing, available>>

work == <<column, rows, left, right>>

vars == <<stage, nextRow, work, env, data, reconstructed, cancelled, err>>

Nil == <<>>

(***************************************************************************)
(* The recovery blocks                                                     *)
(***************************************************************************)

\* The definition of a recovery block, byte by byte, by polynomial arithmetic.
PolyPow(t, p) ==
    LET power[k \in 0..p] == IF k = 0 THEN one ELSE timesPoly(power[k - 1], t)
    IN  power[p]

RecoveryBlock ==
    [e \in Exponents |->
        Bytes([i \in 1..sliceByteCount \div 2 |->
            Sum2([j \in 1..dataShards |->
                     timesPoly(PolyPow(generators[j], e), Element(TrueData[j], i - 1))],
                 1..dataShards)])]

\* NewCoderPAR2Vandermonde: a row for every exponent up to the highest loaded.
parityMatrix ==
    VandermondeMatrix(Max(Exponents) + 1, generators)

(***************************************************************************)
(* The chunk                                                               *)
(***************************************************************************)
numMissing == Cardinality(missing)

chunkSize == computeChunkSize(memoryLimit, dataShards, numMissing, sliceByteCount)

dataLength == currChunkSize(sliceByteCount, chunkSize, chunkIdx)

\* The chunk of a block that is at hand.
ChunkOf(s) == SubSeq(s, chunkIdx * chunkSize + 1, chunkIdx * chunkSize + dataLength)

(***************************************************************************)
(* analyzeShards and makeReconstructionMatrix                              *)
(***************************************************************************)
\* analyzeShards: the first recovery blocks in the order of their exponents are
\* used, one for every missing block.
analyzeShards ==
    LET avail == Ascending((1..dataShards) \ missing)
        used  == SubSeq(Ascending(available), 1, numMissing)
    IN  [available |-> avail, missing |-> Ascending(missing), usedParity |-> used,
         input |-> [j \in 1..Len(avail) |-> data[avail[j]]]
                       \o [j \in 1..Len(used) |-> ChunkOf(RecoveryBlock[used[j]])]]

\* The columns of the missing blocks in the chosen rows.
Unknowns(a) ==
    [i \in 1..Len(a.usedParity) |->
        [j \in 1..Len(a.missing) |-> parityMatrix[a.usedParity[i] + 1][a.missing[j]]]]

\* The columns of the available blocks, and the identity for the recovery blocks.
Knowns(a) ==
    [i \in 1..Len(a.usedParity) |->
        [j \in 1..dataShards |->
            IF j <= Len(a.available) THEN parityMatrix[a.usedParity[i] + 1][a.available[j]]
            ELSE IF i = j - Len(a.available) THEN one ELSE zero]]

(***************************************************************************)
(* Reconstruct                                                             *)
(***************************************************************************)
Return(e) ==
    /\ stage' = "returned"
    /\ err' = e

\* The context is done, no block is missing, or too few recovery blocks.
ReturnAtOnce ==
    /\ stage = "called"
    /\ \/ cancelled /\ Return("cancelled")
       \/ ~cancelled /\ missing = {} /\ Return("none")
       \/ /\ ~cancelled /\ Cardinality(available) < numMissing
          /\ Return("notEnough")
    /\ UNCHANGED <<env, data, work, nextRow, reconstructed, cancelled>>

\* analyzeShards, and the two matrices of makeReconstructionMatrix.
Analyze ==
    /\ stage = "called" /\ ~cancelled
    /\ missing # {} /\ Cardinality(available) >= numMissing
    /\ rows' = analyzeShards
    /\ left' = Unknowns(rows') /\ right' = Knowns(rows')
    /\ column' = 1
    /\ stage' = "echelon"
    /\ UNCHANGED <<env, data, nextRow, reconstructed, cancelled, err>>

\* Mutant: the last column is never seen to be the last.
NextColumnWraps(then) ==
    /\ column' = IF column = numMissing THEN 1 ELSE column + 1
    /\ stage' = IF column > numMissing THEN then ELSE stage

NextColumn(then) ==
    /\ column' = IF column = numMissing THEN 1 ELSE column + 1
    /\ stage' = IF column = numMissing THEN then ELSE stage

\* A column of convertToRowEchelonForm: a pivot is found, swapped in and scaled,
\* and the rows below it are cleared.
EchelonColumn ==
    /\ stage = "echelon"
    /\ pivotRows(left, column) # {}
    /\ \E p \in {Min(pivotRows(left, column))} :
       \E lp \in {pivoted(cpu, left, column, p, left[p][column])},
          rp \in {pivoted(cpu, right, column, p, left[p][column])} :
          /\ left' = addScaledRows(cpu, lp, lp, column + 1..numMissing, column, column)
          /\ right' = addScaledRows(cpu, rp, lp, column + 1..numMissing, column, column)
    /\ NextColumn("reduced")
    /\ UNCHANGED <<env, data, rows, nextRow, reconstructed, cancelled, err>>

Singular ==
    /\ stage = "echelon"
    /\ pivotRows(left, column) = {}
    /\ Return("singular")
    /\ UNCHANGED <<env, data, work, nextRow, reconstructed, cancelled>>

\* perGoroutineSplit; below two ranges no goroutine is started, which makes no
\* difference.
Split == splitForBlock(dataLength, numGoroutines, blockBytes(cpu))

Ranges == 0..numRanges(dataLength, Split) - 1

\* A column of convertToReducedRowEchelonForm; after the last one the buffers are
\* made and the goroutines started.
ReducedColumn ==
    /\ stage = "reduced"
    /\ left' = addScaledRows(cpu, left, left, 1..column - 1, column, column)
    /\ right' = addScaledRows(cpu, right, left, 1..column - 1, column, column)
    /\ NextColumn("applying")
    /\ nextRow' = [r \in Ranges |-> 1]
    /\ reconstructed' = [i \in 1..numMissing |-> [k \in 1..dataLength |-> zero]]
    /\ UNCHANGED <<env, data, rows, cancelled, err>>

\* Byte k of row i of the product, over the bytes from + 1 .. to: the first input
\* is multiplied into the output, the others are added.
RowByte(i, from, to, k) ==
    Sum2([j \in 1..dataShards |->
             IF right[i][j] = zero THEN zero
             ELSE productByte(cpu, right[i][j], SubSeq(rows.input[j], from + 1, to), k)],
         1..dataShards)

\* applyMatrixSlice: the goroutine of range r does one row, or sees that the
\* context is done and leaves the rest.
ApplyRow(r) ==
    /\ stage = "applying"
    /\ nextRow[r] <= numMissing
    /\ IF cancelled
       THEN /\ nextRow' = [nextRow EXCEPT ![r] = numMissing + 1]
            /\ UNCHANGED reconstructed
       ELSE \E from \in {rangeStart(Split, r)}, to \in {rangeEnd(dataLength, Split, r)} :
            /\ nextRow' = [nextRow EXCEPT ![r] = @ + 1]
            /\ reconstructed' = [reconstructed EXCEPT ![nextRow[r]] =
                  [k \in DOMAIN @ |-> IF k \in from + 1..to
                                      THEN RowByte(nextRow[r], from, to, k - from) ELSE @[k]]]
    /\ UNCHANGED <<env, data, work, cancelled, stage, err>>

\* Row i of range r of the product has been computed.
RowDone(r, i) ==
    \A k \in rangeStart(Split, r) + 1..rangeEnd(dataLength, Split, r) :
        reconstructed[i][k] = RowByte(i, rangeStart(Split, r), rangeEnd(dataLength, Split, r),
                                      k - rangeStart(Split, r))

\* The missing blocks get the rows of the product.
Restored ==
    [i \in 1..dataShards |->
        IF i \in missing
        THEN reconstructed[CHOOSE k \in DOMAIN rows.missing : rows.missing[k] = i]
        ELSE data[i]]

RangesDone ==
    /\ stage = "applying"
    /\ \A r \in DOMAIN nextRow : nextRow[r] > numMissing

\* Mutant: the context is not looked at again after wg.Wait.
JoinUnchecked ==
    /\ RangesDone
    /\ Return("none") /\ data' = Restored
    /\ UNCHANGED <<env, work, nextRow, reconstructed, cancelled>>

\* wg.Wait, and ctx.Err: ranges may have been left undone.
Join ==
    /\ RangesDone
    /\ IF cancelled THEN Return("cancelled") /\ UNCHANGED data
       ELSE Return("none") /\ data' = Restored
    /\ UNCHANGED <<env, work, nextRow, reconstructed, cancelled>>

Cancel ==
    /\ ~cancelled /\ stage # "returned"
    /\ cancelled' = TRUE
    /\ UNCHANGED <<env, data, work, nextRow, reconstructed, stage, err>>

Init ==
    /\ cpu \in CPUs
    /\ memoryLimit \in MemoryLimits
    /\ missing \in Losses
    /\ available \in Recoveries
    /\ chunkIdx \in 0..numChunks(sliceByteCount, chunkSize) - 1
    /\ data = [i \in 1..dataShards |-> IF i \in missing THEN Nil ELSE ChunkOf(TrueData[i])]
    /\ rows = [available |-> <<>>, missing |-> <<>>, usedParity |-> <<>>, input |-> <<>>]
    /\ left = <<>> /\ right = <<>> /\ column = 1
    /\ nextRow = <<>>
    /\ reconstructed = <<>>
    /\ cancelled = FALSE
    /\ stage = "called"
    /\ err = "none"

Reconstruct ==
    \/ ReturnAtOnce \/ Analyze \/ EchelonColumn \/ Singular \/ ReducedColumn
    \/ (\E r \in DOMAIN nextRow : ApplyRow(r))
    \/ Join

Returned == stage = "returned" /\ UNCHANGED vars

Next == Reconstruct \/ Cancel \/ Returned

\* The goroutines are scheduled, so some step of the call happens until it has
\* returned: weak fairness of Reconstruct, which is enabled exactly until then.
Fairness == []<>(stage = "returned") \/ []<><<Reconstruct>>_vars

Spec == Init /\ [][Next]_vars /\ Fairness

(***************************************************************************)
(* Properties                                                              *)
(***************************************************************************)

\* Every variable has its type; in particular no slice has an odd length, at
\* which the kernels panic (validateSlicePair).
CoderTypeOK ==
    /\ cpu \in CPUs /\ missing \subseteq 1..dataShards /\ available \subseteq Exponents
    /\ dataLength \in 1..chunkSize /\ dataLength % 2 = 0
    /\ \A i \in 1..dataShards : Len(data[i]) \in {0, dataLength}
    /\ \A r \in DOMAIN nextRow : nextRow[r] \in 1..numMissing + 1
    /\ \A i \in DOMAIN reconstructed :
          reconstructed[i] \in [1..dataLength -> Byte]
    /\ stage \in {"called", "echelon", "reduced", "applying", "returned"}
    /\ err \in {"none", "cancelled", "notEnough", "singular"}

\* Reconstruct returns no error only if every block holds its true bytes: on
\* every processor, for every chunk, whatever is missing and loaded, and
\* whenever the context was cancelled (Coder.Reconstruct).
ReconstructTrue ==
    (stage = "returned" /\ err = "none") =>
        \A i \in 1..dataShards : data[i] = ChunkOf(TrueData[i])

\* Reconstruct returns no error only if every goroutine did every row of its
\* range: each byte is the product of its own range, and no other goroutine's
\* (applyMatrixParallelData, ctx.Err after wg.Wait).
ProductWhole ==
    (stage = "returned" /\ err = "none" /\ missing # {}) =>
        \A r \in Ranges, i \in 1..numMissing : RowDone(r, i)

\* Products by the definition of the field.
PolyProduct == Table([x \in T \X T |-> timesPoly(x[1], x[2])])

\* A square matrix takes some vector to zero that is not zero.
Dependent(x) ==
    \E v \in [1..Len(x) -> T] \ {[j \in 1..Len(x) |-> zero]} :
        \A i \in 1..Len(x) :
            Sum2([j \in 1..Len(x) |-> PolyProduct[<<x[i][j], v[j]>>]], 1..Len(x)) = zero

\* A reconstruction fails only for a reason: the chosen rows really are
\* dependent, there really is too little parity, or the call was cancelled
\* (convertToRowEchelonForm finds a pivot whenever there is one).
FailureExplained ==
    /\ err = "singular" => Dependent(Unknowns(rows))
    /\ err = "notEnough" => Cardinality(available) < numMissing
    /\ err = "cancelled" => cancelled

\* Every kernel of this processor computes the products of the field, for every
\* coefficient and on slices that need blocks and a tail, and so do the scalar
\* operations (MulByteSliceLE, MulAndAddByteSliceLE, Times, Div, Inverse, Pow).
KernelsAgree ==
    (stage = "called" /\ ~cancelled /\ missing = {}) =>
        /\ \A c \in T, i \in DOMAIN TrueData :
              LET product == Bytes([k \in 1..sliceByteCount \div 2 |->
                                       PolyProduct[<<c, Element(TrueData[i], k - 1)>>]])
              IN  /\ MulByteSliceLE(cpu, c, TrueData[i]) = product
                  /\ MulAndAddByteSliceLE(cpu, c, TrueData[i], TrueData[1]) =
                        [k \in 1..sliceByteCount |-> Plus(product[k], TrueData[1][k])]
        /\ \A t, u \in T :
              /\ Times(t, u) = PolyProduct[<<t, u>>]
              /\ u # zero => /\ PolyProduct[<<Div(t, u), u>>] = t
                             /\ PolyProduct[<<InverseOf(u), u>>] = one
        /\ \A t \in T, p \in 0..order - 1 : Pow(t, p + 1) = PolyProduct[<<Pow(t, p), t>>]

\* The ranges of the goroutines share no byte and leave none out, and none is
\* empty or of odd length (applyMatrixParallelData).
RangesPartition ==
    stage = "applying" => Partitions(dataLength, Split)

\* Every call returns (the barrier of applyMatrixParallelData is reached).
CallReturns == <>(stage = "returned")

\* Enough recovery blocks suffice: what ShardCounts.RepairPossible promises.
EnoughParitySuffices ==
    (stage = "returned" /\ ~cancelled /\ numMissing <= Cardinality(available))
        => err = "none"

=============================================================================
