------------------------------- MODULE Packet -------------------------------
(***************************************************************************)
(* PAR2 packets as packet.go parses them.  A packet is a record; the       *)
(* fields that only decide whether its body has a legal length are one     *)
(* flag, framed, and the ways a packet cannot be read at all (no magic,    *)
(* illegal length, over the limit, cut short, wrong hash) are another,     *)
(* readable.                                                               *)
(***************************************************************************)
EXTENDS Integers, Sequences, FiniteSets, SequencesExt

CONSTANTS
    IDBytes,        \* bytes of a FileID, 16 in the format
    MaxByte,        \* the largest value of such a byte
    MaxExponent,    \* the largest recovery exponent accepted, 32767
    RawParts,       \* path components as they stand in a packet
    Decoded,        \* the ASCII form of each of them
    DotDotParts,    \* components that begin with ".."
    DriveParts      \* components whose second character is a colon

ASSUME PacketAssumption ==
    /\ IDBytes \in Nat \ {0}
    /\ MaxByte \in Nat
    /\ MaxExponent \in Nat
    /\ {".", ".."} \subseteq RawParts
    /\ ".." \in DotDotParts
    /\ "." \notin DotDotParts \cup DriveParts
    /\ DOMAIN Decoded = RawParts
    /\ \A p \in RawParts : (p \in {".", ".."}) => Decoded[p] = p

FileID == [1..IDBytes -> 0..MaxByte]

(***************************************************************************)
(* FileIDs are compared from their last byte down.                         *)
(***************************************************************************)

FileIDLess(a, b) ==
    \E i \in 1..IDBytes : a[i] < b[i] /\ \A j \in (i + 1)..IDBytes : a[j] = b[j]

\* validateFileIDSorted: no element is less than its predecessor.
FileIDSorted(ids) ==
    \A i \in 1..(Len(ids) - 1) : ~FileIDLess(ids[i + 1], ids[i])

(***************************************************************************)
(* File names.  A raw name is a sequence of components and whether it      *)
(* starts at the root; a cleaned one is a sequence, or Rejected.           *)
(***************************************************************************)
Rejected == "rejected"

\* path.Clean, one component at a time.
CleanPart(abs, done, p) ==
    IF p = "." THEN done
    ELSE IF p # ".." THEN Append(done, p)
    ELSE IF done # <<>> /\ Last(done) # ".." THEN Front(done)
    ELSE IF abs THEN done ELSE Append(done, "..")

Clean(abs, parts) ==
    FoldLeft(LAMBDA done, p : CleanPart(abs, done, p), <<>>, parts)

\* DecodeNullPaddedASCIIString, then DefangPath; "a/../b" and "b" are one file.
DefangPath(raw) ==
    LET cleaned == Clean(raw.abs, [i \in DOMAIN raw.parts |-> Decoded[raw.parts[i]]])
    IN  IF \/ raw.abs
           \/ cleaned # <<>> /\ cleaned[1] \in DotDotParts \cup DriveParts
        THEN Rejected ELSE cleaned

(***************************************************************************)
(* Bodies.  A parser returns an error where ParseOK is false.              *)
(***************************************************************************)
RecoverySet(main) == SubSeq(main.ids, 1, main.setCount)

\* Mutant: any block size but zero is accepted.
ParseMainUnaligned(b) ==
    b.slice > 0 /\ b.setCount <= Len(b.ids) /\ FileIDSorted(RecoverySet(b))

ParseMain(b) ==
    /\ b.slice > 0 /\ b.slice % 4 = 0
    /\ b.setCount <= Len(b.ids)
    /\ FileIDSorted(RecoverySet(b))

\* computed is the ID of the hash, size and name in the body (computeFileID).
\* A file of no bytes is dropped before its name is looked at.
ParseFileDesc(b) ==
    /\ b.computed = b.id
    /\ b.size = 0 \/ DefangPath(b.name) # Rejected

ParseIFSC(b) == b.pairs > 0

ParseRecovery(b) == b.exponent <= MaxExponent

\* The values the fields of a body can have.
BodyType(b) ==
    /\ b.type = "main" => b.slice \in Nat /\ b.setCount \in Nat /\ b.ids \in Seq(FileID)
    /\ b.type = "desc" => b.id \in FileID /\ b.size \in Nat
    /\ b.type = "ifsc" => b.id \in FileID /\ b.pairs \in Nat
    /\ b.type = "recv" => b.exponent \in Nat /\ b.len \in Nat

\* A packet of another type is not parsed at all.
ParseOK(b) ==
    /\ b.type # "other" => b.framed
    /\ b.type = "main" => ParseMain(b)
    /\ b.type = "desc" => ParseFileDesc(b)
    /\ b.type = "ifsc" => ParseIFSC(b)
    /\ b.type = "recv" => ParseRecovery(b)

=============================================================================
