------------------------------- MODULE Matrix -------------------------------
(***************************************************************************)
(* rs/matrix.go: the Vandermonde matrix of PAR2 and row reduction.  A      *)
(* matrix is a sequence of rows.  Row operations go through the slice      *)
(* kernels, with the row as its bytes, so they depend on the processor.    *)
(***************************************************************************)
EXTENDS GF16

\* NewVandermondeMatrix: row i, counted from 0, holds the i-th powers.
VandermondeMatrix(count, bases) ==
    Stored([i \in 1..count |-> Stored([j \in DOMAIN bases |-> Pow(bases[j], i - 1)])])

swapRows(m, i, j) == [m EXCEPT ![i] = m[j], ![j] = m[i]]

scaleRow(cpu, m, i, c) == [m EXCEPT ![i] = Elements(MulByteSliceLE(cpu, c, Bytes(@)))]

\* The rows of Dest get their entry of column col in m, times row src, added.
addScaledRows(cpu, x, m, Dest, src, col) ==
    [j \in DOMAIN x |->
        IF j \in Dest /\ m[j][col] # zero
        THEN Elements(MulAndAddByteSliceLE(cpu, m[j][col], Bytes(x[src]), Bytes(x[j])))
        ELSE x[j]]

\* Mutant: the pivot is looked for on the diagonal only.
pivotRowsDiagonal(m, i) == {j \in {i} : m[j][i] # zero}

pivotRows(m, i) == {j \in DOMAIN m : j >= i /\ m[j][i] # zero}

\* Mutant: row i is scaled without being swapped.
pivotedUnswapped(cpu, x, i, p, pivot) == scaleRow(cpu, x, i, InverseOf(pivot))

\* Row i of both matrices is swapped with row p and scaled to a pivot of 1.
pivoted(cpu, x, i, p, pivot) == scaleRow(cpu, swapRows(x, i, p), i, InverseOf(pivot))

=============================================================================
