------------------------------ MODULE MCCoder ------------------------------
(***************************************************************************)
(* Reconstruction over GF(2^4): elements of two bytes of two bits, vector  *)
(* blocks of eight and four bytes, five data blocks of seven elements.     *)
(***************************************************************************)
EXTENDS Coder

\* Together the blocks hold every element of the field.
MCData ==
    LET b(n) == << {}, {0}, {1}, {0, 1} >>[n + 1]
        bytes(s) == [k \in DOMAIN s |-> b(s[k])]
    IN  << bytes(<<1, 0, 2, 3, 3, 1, 0, 2, 1, 1, 2, 0, 3, 3>>),
           bytes(<<0, 1, 1, 3, 2, 2, 3, 0, 0, 3, 1, 2, 2, 1>>),
           bytes(<<3, 2, 0, 0, 1, 0, 2, 2, 3, 1, 0, 1, 1, 3>>),
           bytes(<<2, 0, 3, 3, 0, 2, 1, 1, 2, 3, 3, 0, 0, 1>>),
           bytes(<<1, 2, 0, 0, 3, 3, 2, 1, 0, 0, 1, 3, 2, 2>>) >>

\* Up to three blocks are missing; 1, 3 and 5 need a pivot off the diagonal.
MCLosses == {S \in SUBSET (1..5) : Cardinality(S) <= 3}

MCExponents == 0..6

\* x^4 + x + 1, and the generator 3 of the code.
MCPolynomial == {0, 1, 4}

MCGenerator == {0, 1}

\* Rows 0 and 5 are dependent in the columns of blocks 1 and 3.
MCRecoveries == SUBSET {0, 1, 5, 6}

=============================================================================
