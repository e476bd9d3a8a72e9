------------------------------ MODULE MCEngine ------------------------------
(***************************************************************************)
(* Small recovery sets for model checking Engine.                          *)
(***************************************************************************)
EXTENDS Engine

\* Two files whose blocks of two cells are 12 10 and 21 22: "A" ends in a
\* padded block, and its blocks also occur off the grid of the other's.
AB == <<"A", "B">>

ABContent == [A |-> <<1, 2, 1>>, B |-> <<2, 1, 2, 2>>]

\* Intact, missing, one wrong cell, cut short, followed by extra bytes, empty,
\* shifted, and holding the other file.  The candidate is a copy of one of the
\* files, a copy with a zero appended, or holds the last block of each.
ABDisk ==
    [A |-> {Absent, <<1, 2, 1>>, <<1, 2, 2>>, <<1, 2>>, <<1, 2, 1, 2>>, <<>>,
            <<2, 1, 2, 2>>},
     B |-> {Absent, <<2, 1, 2, 2>>, <<2, 1, 0, 2>>, <<0, 2, 1, 2, 2>>, <<1, 2, 1>>},
     C |-> {Absent, <<1, 2, 1>>, <<2, 1, 2, 2>>, <<1, 0, 2, 2>>, <<1, 2, 1, 0>>}]

\* Three files of one quick key, two of them equal, and no checksums for the
\* third: prescanCandidateMatches indexes only the last missing one.
ABE == <<"A", "B", "E">>

TwinsContent == [A |-> <<1, 2>>, B |-> <<1, 2>>, E |-> <<1, 1>>]

TwinsDisk ==
    [A |-> {Absent, <<1, 2>>, <<2, 2>>},
     B |-> {Absent, <<2, 1, 2>>},
     E |-> {Absent, <<1, 2>>},
     C |-> {Absent, <<1, 2>>, <<1, 1>>},
     D |-> {<<1, 2>>, <<1, 1, 1, 2>>}]

\* Whole blocks of three cells only, and no candidates; repair chunks of one
\* or two cells, so that the last chunk may be shorter than the others.
AlignedContent == [A |-> <<1, 2, 1, 1, 1, 2>>, B |-> <<2, 1, 1, 2, 2, 2>>]

AlignedDisk ==
    [A |-> {Absent, <<1, 2, 1, 1, 1, 2>>, <<1, 2, 1, 1, 0, 2>>, <<1, 2, 1, 1>>,
            <<0, 1, 2, 1, 1, 1, 2>>, <<1, 2, 1, 1, 1, 2, 2>>, <<2, 1, 1, 2, 2, 2>>, <<>>},
     B |-> {Absent, <<2, 1, 1, 2, 2, 2>>, <<2, 1, 1, 2, 1, 2>>, <<1, 2, 1, 1, 2, 2, 2>>,
            <<2, 2, 2, 2, 1, 1>>, <<1, 2, 1, 1, 1, 2>>, <<1, 2, 1>>}]

\* "A" holds the bytes of "B", "B" is gone, and "C" is a copy of "A".
PairContent == [A |-> <<1, 2>>, B |-> <<2, 1>>]

OverwriteDisk == [A |-> {<<2, 1>>}, B |-> {Absent}, C |-> {<<1, 2>>}]

\* The two files hold each other's bytes.
SwappedDisk == [A |-> {<<2, 1>>}, B |-> {<<1, 2>>}]

\* Two equal files, one missing, the other also given as a candidate.
TwinContent == [A |-> <<1, 2>>, B |-> <<1, 2>>]

TwinDisk == [A |-> {Absent}, B |-> {<<1, 2>>}]

\* A block of "B" is damaged.
TornDisk == [A |-> {<<1, 2, 1>>}, B |-> {<<2, 1, 0, 2>>}]

\* "A" is followed by an extra byte and a block of "B" is damaged.
TrailingDisk == [A |-> {<<1, 2, 1, 2>>}, B |-> {<<2, 1, 0, 2>>}]

=============================================================================
