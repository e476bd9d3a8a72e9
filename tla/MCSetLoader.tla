----------------------------- MODULE MCSetLoader -----------------------------
(***************************************************************************)
(* Small sets for model checking SetLoader: FileIDs of two bytes, two      *)
(* files and an empty one, an index and two volumes, another set's volume  *)
(* with a name that extends this set's, and packets of every kind.         *)
(***************************************************************************)
EXTENDS SetLoader

\* "X" comes before "Y" by its last byte and after it by its first.
X == <<1, 0>>
Y == <<0, 1>>
Z == <<0, 0>>

Parts == {".", "..", "a", "b", "..c", "D:", "e1", "e2", "?"}

\* Two accented names become the same one.
AsciiParts == [p \in Parts |-> IF p \in {"e1", "e2"} THEN "?" ELSE p]

Name(parts) == [abs |-> FALSE, parts |-> parts]

Pkt(set, body) == [readable |-> TRUE, set |-> set, body |-> body]

Torn(set, body) == [readable |-> FALSE, set |-> set, body |-> body]

Main(slice, ids, n) ==
    [type |-> "main", framed |-> TRUE, slice |-> slice, ids |-> ids, setCount |-> n]

Desc(id, size, name) ==
    [type |-> "desc", framed |-> TRUE, id |-> id, computed |-> id, size |-> size, name |-> name]

Ifsc(id, n) == [type |-> "ifsc", framed |-> TRUE, id |-> id, pairs |-> n]

Recv(e) == [type |-> "recv", framed |-> TRUE, exponent |-> e, len |-> 4]

Other == [type |-> "other"]

M == Pkt("own", Main(4, <<X, Y>>, 2))
DX == Pkt("own", Desc(X, 5, Name(<<"a">>)))
DY == Pkt("own", Desc(Y, 4, Name(<<"a", "..", "b">>)))

\* The recovery set is Z and Y, X is not in it.
MixedIndex ==
    <<Pkt("own", Main(4, <<Z, Y, X>>, 2)), DX, DY, Pkt("own", Desc(Z, 3, Name(<<"e1">>)))>>

\* Indexes that load: packets in any order, a volume as index that repeats
\* them, an empty file in the set, a foreign packet between them, a file that
\* is listed after the recovery set and sorts into it, no packet.
GoodIndexes ==
    {<<M, DY, DX, Pkt("own", Ifsc(X, 2)), Pkt("own", Recv(0))>>,
     <<DY, M, DY, Pkt("own", Recv(1)), DX, M, Pkt("own", Other)>>,
     <<Pkt("own", Main(4, <<Z, X, Y>>, 3)), Pkt("own", Desc(Z, 0, Name(<<"..">>))), DY, DX>>,
     <<M, Pkt("alien", Main(3, <<Y, X>>, 2)), DX, DY>>,
     MixedIndex,
     <<>>}

\* Indexes that do not: a torn packet, an unsorted set, a slice of no legal
\* size, an ID that is not computed from its packet, names that leave the
\* directory, a body of no legal length, no checksums, too large an exponent.
BadIndexes ==
    {<<M, Torn("own", Other), DX>>,
     <<Pkt("own", Main(4, <<Y, X>>, 2))>>,
     <<Pkt("own", Main(6, <<X>>, 1))>>,
     <<Pkt("own", [Desc(X, 5, Name(<<"a">>)) EXCEPT !.computed = Y])>>,
     <<Pkt("own", Desc(X, 5, Name(<<"a", "..", "..", "b">>)))>>,
     <<Pkt("own", Desc(X, 5, Name(<<".", "..c">>)))>>,
     <<Pkt("own", Desc(X, 5, Name(<<"D:", "b">>)))>>,
     <<Pkt("own", Desc(X, 5, [abs |-> TRUE, parts |-> <<"a">>]))>>,
     <<Pkt("own", [Main(4, <<X>>, 1) EXCEPT !.framed = FALSE])>>,
     <<Pkt("own", Ifsc(X, 0))>>,
     <<Pkt("own", Recv(4))>>}

\* Volumes: whole, torn half-way, with foreign and repeated packets, with an
\* illegal exponent, with a bad description, which a volume does not parse.
Volumes ==
    {<<M, Pkt("own", Recv(1)), Pkt("own", Recv(2))>>,
     <<Pkt("own", Recv(1)), Torn("own", Recv(2)), Pkt("own", Recv(3))>>,
     <<Pkt("alien", Recv(3)), Pkt("own", Recv(2)), Pkt("own", Recv(2))>>,
     <<Pkt("own", Recv(0)), Pkt("own", Recv(4)), Pkt("own", Recv(1))>>,
     <<Pkt("own", [Desc(X, 5, Name(<<"..">>)) EXCEPT !.framed = FALSE]), Pkt("own", Recv(3))>>}

IndexName == <<"set", ".par2">>
VolName == <<"set", ".vol0", ".par2">>
Vol2Name == <<"set", ".vol1", ".par2">>
AlienName == <<"set", "2", ".par2">>
DataName == <<"set", ".dat">>

Dir(i, v, w) ==
    (IndexName :> i) @@ (VolName :> v) @@ (Vol2Name :> w) @@ (DataName :> <<>>)
        @@ (AlienName :> <<Pkt("alien", Recv(0)), Pkt("alien", Recv(3))>>)

MCDirectories ==
    {Dir(i, v, w) : i \in GoodIndexes, v \in Volumes, w \in Volumes}
        \cup {Dir(i, v, v) : i \in BadIndexes, v \in {<<Pkt("own", Recv(1))>>}}

MCIndexes == {IndexName, VolName}

=============================================================================
