----------------------------- MODULE MCBlockScan -----------------------------
(***************************************************************************)
(* Small scans: blocks of three cells and chunks of five, so that chunks   *)
(* cut blocks and windows cross chunks.  With the CRC of BlockScan.cfg     *)
(* blocks 112 and 221 have the same CRC, and the padded block 310 has      *)
(* another one with the same home slot, the last of the table.             *)
(***************************************************************************)
EXTENDS BlockScan

Pair == <<"A", "B">>

PairContent == [A |-> <<1, 1, 2, 2, 2, 1>>, B |-> <<3, 1>>]

\* Every file of five or eight cells over two values that could be left of A, the
\* ones of eight with its second block somewhere.
Shapes == {[A |-> a, B |-> Absent, C |-> Absent] :
              a \in [1..5 -> {1, 2}] \cup
                    {e \in [1..8 -> {1, 2}] :
                        \E i \in 0..5 : SubSeq(e, i + 1, i + 3) = <<2, 2, 1>>}}

\* Shifted, cut and mixed content in both files and a candidate.
Mixtures ==
    {[A |-> <<2, 1, 1, 2, 2, 1>>, B |-> <<3, 1, 2>>, C |-> <<2, 2, 1>>],
     [A |-> <<1, 1, 2, 2, 1>>, B |-> Absent, C |-> <<2, 2, 1, 3, 1>>],
     [A |-> <<1, 1, 2, 2, 2, 1>>, B |-> Absent, C |-> <<1, 3, 1, 0>>]}

MCDisks == Shapes \cup Mixtures

=============================================================================
