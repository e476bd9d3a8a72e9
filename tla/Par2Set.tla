------------------------------- MODULE Par2Set -------------------------------
(***************************************************************************)
(* The recovery set a Decoder holds once its packets are loaded, and the   *)
(* disk it works on.  A file is a sequence of cells (bytes, of which only  *)
(* equality matters), a block is sliceByteCount cells.  MD5 and CRC32      *)
(* comparisons are comparisons of the contents they are computed from.     *)
(***************************************************************************)
EXTENDS Integers, Sequences, FiniteSets

CONSTANTS
    Byte,           \* values of a cell; 0 is the padding of a last block
    Names,          \* paths inside the sandbox root
    Absent,         \* what the disk holds under a name that has no file
    protectedFiles, \* Decoder.protectedFiles: names in FileID order
    candidateFiles, \* Decoder.candidateFiles: names given with -candidate
    Content,        \* the protected contents, by protected name
    fileChecksums,  \* protected files whose IFSC packet was loaded
    sliceByteCount, \* cells in a block
    quickHashSize   \* cells covered by FileDescPacket.SixteenKHash

Protected == {protectedFiles[i] : i \in DOMAIN protectedFiles}

FileContent == {Absent} \cup Seq(Byte)

ASSUME NamesAssumption ==
    /\ "" \notin Names
    /\ protectedFiles \in Seq(Names)
    /\ \A i, j \in DOMAIN protectedFiles :
          protectedFiles[i] = protectedFiles[j] => i = j
    /\ candidateFiles \subseteq Names
    /\ fileChecksums \subseteq Protected

\* A zero-byte file is never protected: ParseFileDescPacket drops it.
ASSUME ContentAssumption ==
    /\ Byte \subseteq Nat
    /\ 0 \in Byte
    /\ Absent \notin Seq(Byte)
    /\ Content \in [Protected -> Seq(Byte) \ {<<>>}]

ASSUME SizeAssumption ==
    /\ sliceByteCount \in Nat \ {0}
    /\ quickHashSize \in Nat \ {0}

(***************************************************************************)
(* Blocks.  Block i of file f covers the cells i*sliceByteCount + 1 ...    *)
(***************************************************************************)

\* initFileIntegrity: the number of blocks of a protected file.
Shards(f) == (Len(Content[f]) + sliceByteCount - 1) \div sliceByteCount

Blocks == UNION {{<<f, i>> : i \in 0..Shards(f) - 1} : f \in Protected}

\* initFileIntegrity refuses a set of more blocks than PAR2 allows.
ASSUME BlocksAssumption ==
    /\ IsFiniteSet(Blocks)
    /\ Cardinality(Blocks) \in 1..32768

\* A cell of a file, zero past its end.
Cell(s, p) == IF p \in DOMAIN s THEN s[p] ELSE 0

\* ReadAt into a zeroed buffer of n cells.
ReadAt(s, off, n) == [k \in 1..n |-> Cell(s, off + k)]

\* What block b must hold: the last block of a file is padded with zeros.
Block(b) == ReadAt(Content[b[1]], b[2] * sliceByteCount, sliceByteCount)

(***************************************************************************)
(* Locations.  A FileID names a file either as a protected file or as a    *)
(* candidate: AddCandidateFile gives a candidate a synthetic ID, so a path *)
(* that is both has two IDs.                                               *)
(***************************************************************************)
FileID == [kind : {"none", "file", "cand"}, name : Names \cup {""}]

FileIDOf(f) == [kind |-> "file", name |-> f]

CandidateID(c) == [kind |-> "cand", name |-> c]

Location == [id : FileID, off : Int]

\* initFileIntegrity: a block that has not been found (the zero FileID).
NotFound == [id |-> [kind |-> "none", name |-> ""], off |-> -1]

\* Where block b is when its file lies whole and in order in file id.
InPlaceIn(id, b) == [id |-> id, off |-> b[2] * sliceByteCount]

=============================================================================
