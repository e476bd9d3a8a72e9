------------------------------ MODULE SetLoader ------------------------------
(***************************************************************************)
(* NewDecoder: the index file is read packet by packet, then every volume  *)
(* of the set that the directory lists, in no particular order.  An error  *)
(* in the index fails the load; an error in a volume ends that volume only *)
(* and keeps the recovery blocks read before it.                           *)
(***************************************************************************)
EXTENDS Packet, Functions

CONSTANTS
    Directories,    \* the directories a load may find: names to packets
    Indexes,        \* the names it may be given
    SetIDs,         \* recovery set IDs, none of them all zero
    VolumeTags,     \* the ".volNN+MM" of a file name
    MaxFaults,      \* bound on files that cannot be opened or listed
    Interrupts      \* whether the context may be cancelled

\* File names are sequences of tokens.
Par2Ext == ".par2"

NoSet == "noset"

NoShard == -1

NoFile == <<>>

ASSUME LoaderAssumption ==
    /\ NoSet \notin SetIDs
    /\ NoFile \notin Indexes
    /\ \A d \in Directories :
          /\ NoFile \notin DOMAIN d /\ IsFiniteSet(DOMAIN d)
          /\ \A n \in DOMAIN d :
                /\ n \in Seq(Range(n))
                /\ Len(d[n]) \in Nat /\ DOMAIN d[n] = 1..Len(d[n])
                /\ \A i \in DOMAIN d[n] :
                      d[n][i].set \in SetIDs /\ BodyType(d[n][i].body)
    /\ MaxFaults \in Nat
    /\ Interrupts \in BOOLEAN

VARIABLES
    dir,            \* what the directory holds, never written here
    index,          \* the file the load was asked for
    phase,          \* "index", "list", "volumes", "loaded" or "failed"
    entries,        \* directory entries not yet looked at
    cur,            \* the file being streamed, or NoFile
    pos,            \* its next packet
    recoverySetID,
    sliceByteCount,
    protectedFiles, \* FileDescPackets
    fileChecksums,  \* the number of checksums of each file
    parityShards,   \* by exponent, the length of the block or NoShard
    parityFileBlocks,
    unread,         \* files and lists that could not be opened
    cancelled       \* the context is done

state == <<recoverySetID, sliceByteCount, protectedFiles, fileChecksums,
           parityShards, parityFileBlocks>>

vars == <<dir, index, phase, entries, cur, pos, state, unread, cancelled>>

Exponents == 0..MaxExponent

(***************************************************************************)
(* Which entries are volumes                                               *)
(***************************************************************************)
DropLast(name, tokens) ==
    IF name # <<>> /\ Last(name) \in tokens THEN Front(name) ELSE name

\* Mutant: the tag of a volume given as the index stays in the prefix.
setBaseNameTagged(name) == DropLast(name, {Par2Ext})

setBaseName(name) == DropLast(DropLast(name, {Par2Ext}), VolumeTags)

IsVolume(name) ==
    /\ name # index
    /\ Last(name) = Par2Ext
    /\ IsPrefix(setBaseName(index), name)

(***************************************************************************)
(* streamPAR2Packets                                                       *)
(***************************************************************************)
Streaming == cur # NoFile

InIndex == cur = index

AtPacket == Streaming /\ pos <= Len(dir[cur]) /\ ~cancelled

P == dir[cur][pos]

\* Mutant: only the index is checked for packets of another set.
OwnInIndex(p) == cur = index => recoverySetID \in {NoSet, p.set}

\* The first packet that can be read gives the set its ID.
Own(p) == recoverySetID \in {NoSet, p.set}

AdoptSet == recoverySetID' = IF P.readable /\ Own(P) THEN P.set ELSE recoverySetID

\* Only recovery packets matter in a volume.
Handled(p) == InIndex \/ p.body.type = "recv"

Accepted(p) == p.readable /\ (Own(p) /\ Handled(p) => ParseOK(p.body))

\* The stream ends with an error, which fails the load in the index only.
StreamFails ==
    /\ phase' = IF InIndex THEN "failed" ELSE phase
    /\ cur' = NoFile
    /\ UNCHANGED <<dir, index, entries, pos, sliceByteCount, protectedFiles,
                   fileChecksums, parityShards, parityFileBlocks, unread, cancelled>>

\* Mutant: the error of a volume is returned.
VolumeErrorReturned ==
    /\ AtPacket /\ ~Accepted(P)
    /\ AdoptSet
    /\ phase' = "failed"
    /\ cur' = NoFile
    /\ UNCHANGED <<dir, index, entries, pos, sliceByteCount, protectedFiles,
                   fileChecksums, parityShards, parityFileBlocks, unread, cancelled>>

PacketFails ==
    /\ AtPacket /\ ~Accepted(P)
    /\ AdoptSet
    /\ StreamFails

\* The context is looked at before every packet.
StreamCancelled ==
    /\ Streaming /\ cancelled
    /\ StreamFails
    /\ UNCHANGED recoverySetID

\* Packets of another set are skipped, and those a volume only repeats.
SkipPacket ==
    /\ AtPacket /\ Accepted(P)
    /\ ~(Own(P) /\ Handled(P))
    /\ AdoptSet
    /\ pos' = pos + 1
    /\ UNCHANGED <<dir, index, phase, entries, cur, sliceByteCount, protectedFiles,
                   fileChecksums, parityShards, parityFileBlocks, unread, cancelled>>

(***************************************************************************)
(* handlePacket and the handler of loadSingleVolumeFile                    *)
(***************************************************************************)
Described(id) == \E i \in DOMAIN protectedFiles : protectedFiles[i].id = id

\* Mutant: a description that is repeated is appended again.
AppendAlways(b) ==
    IF b.size = 0 THEN protectedFiles
    ELSE Append(protectedFiles, [id |-> b.id, size |-> b.size, name |-> DefangPath(b.name)])

\* A file of no bytes is left out, a repeated description ignored.
AppendFile(b) ==
    IF b.size = 0 \/ Described(b.id) THEN protectedFiles
    ELSE Append(protectedFiles, [id |-> b.id, size |-> b.size, name |-> DefangPath(b.name)])

\* Mutant: a block is counted for its file also when another file had it.
CountAlways(b) ==
    /\ parityShards' = [parityShards EXCEPT
                          ![b.exponent] = IF @ = NoShard THEN b.len ELSE @]
    /\ parityFileBlocks' = [parityFileBlocks EXCEPT ![cur] = @ + 1]

\* A recovery block is kept unless its exponent is taken.
KeepBlock(b) ==
    IF parityShards[b.exponent] = NoShard
    THEN /\ parityShards' = [parityShards EXCEPT ![b.exponent] = b.len]
         /\ parityFileBlocks' = [parityFileBlocks EXCEPT ![cur] = @ + 1]
    ELSE UNCHANGED <<parityShards, parityFileBlocks>>

HandlePacket ==
    /\ AtPacket /\ Accepted(P)
    /\ Own(P) /\ Handled(P)
    /\ AdoptSet
    /\ LET b == P.body IN
       /\ sliceByteCount' = IF b.type = "main" THEN b.slice ELSE sliceByteCount
       /\ protectedFiles' = IF b.type = "desc" THEN AppendFile(b) ELSE protectedFiles
       /\ fileChecksums' = IF b.type = "ifsc" THEN [fileChecksums EXCEPT ![b.id] = b.pairs]
                           ELSE fileChecksums
       /\ IF b.type = "recv" THEN KeepBlock(b)
          ELSE UNCHANGED <<parityShards, parityFileBlocks>>
    /\ pos' = pos + 1
    /\ UNCHANGED <<dir, index, phase, entries, cur, unread, cancelled>>

(***************************************************************************)
(* loadIndexFile and loadVolumeFiles                                       *)
(***************************************************************************)
AtEnd == Streaming /\ pos > Len(dir[cur]) /\ ~cancelled

\* Mutant: the files stay in the order of their packets.
IndexDoneUnsorted ==
    /\ AtEnd /\ InIndex
    /\ phase' = "list" /\ cur' = NoFile
    /\ UNCHANGED <<dir, index, entries, pos, state, unread, cancelled>>

\* The files in the order of their IDs.
SortFiles(files) ==
    LET perm == CHOOSE p \in Bijection(DOMAIN files, DOMAIN files) :
                  \A i, j \in DOMAIN files :
                      i < j => ~FileIDLess(files[p[j]].id, files[p[i]].id)
    IN  [i \in DOMAIN files |-> files[perm[i]]]

\* The files are sorted once the index has been read to its end.
IndexDone ==
    /\ AtEnd /\ InIndex
    /\ protectedFiles' = SortFiles(protectedFiles)
    /\ phase' = "list" /\ cur' = NoFile
    /\ UNCHANGED <<dir, index, entries, pos, recoverySetID, sliceByteCount,
                   fileChecksums, parityShards, parityFileBlocks, unread, cancelled>>

VolumeDone ==
    /\ AtEnd /\ ~InIndex
    /\ cur' = NoFile
    /\ UNCHANGED <<dir, index, phase, entries, pos, state, unread, cancelled>>

ListDirectory ==
    /\ phase = "list"
    /\ phase' = "volumes"
    /\ entries' = DOMAIN dir
    /\ UNCHANGED <<dir, index, cur, pos, state, unread, cancelled>>

AtEntry(n) == phase = "volumes" /\ ~Streaming /\ n \in entries /\ ~cancelled

\* Mutant: an entry is never done with.
OpenVolumeAgain(n) ==
    /\ AtEntry(n) /\ IsVolume(n)
    /\ cur' = n /\ pos' = 1
    /\ UNCHANGED <<dir, index, phase, entries, state, unread, cancelled>>

OpenVolume(n) ==
    /\ AtEntry(n) /\ IsVolume(n)
    /\ cur' = n /\ pos' = 1
    /\ entries' = entries \ {n}
    /\ UNCHANGED <<dir, index, phase, state, unread, cancelled>>

PassEntry(n) ==
    /\ AtEntry(n) /\ ~IsVolume(n)
    /\ entries' = entries \ {n}
    /\ UNCHANGED <<dir, index, phase, cur, pos, state, unread, cancelled>>

\* A file, or the directory, that cannot be opened or is over the size limit.
OpenFails(n) ==
    /\ Cardinality(unread) < MaxFaults
    /\ unread' = unread \cup {n}
    /\ \/ /\ phase = "index" /\ n = index /\ pos = 1
          /\ phase' = "failed" /\ cur' = NoFile
          /\ UNCHANGED entries
       \/ /\ phase = "list" /\ n = NoFile
          /\ phase' = "failed"
          /\ UNCHANGED <<cur, entries>>
       \/ /\ AtEntry(n) /\ IsVolume(n)
          /\ entries' = entries \ {n}
          /\ UNCHANGED <<phase, cur>>
    /\ UNCHANGED <<dir, index, pos, state, cancelled>>

\* The context is looked at before every entry, a volume or not.
EntryCancelled ==
    /\ phase = "volumes" /\ ~Streaming /\ entries # {} /\ cancelled
    /\ phase' = "failed"
    /\ UNCHANGED <<dir, index, entries, cur, pos, state, unread, cancelled>>

Loaded ==
    /\ phase = "volumes" /\ ~Streaming /\ entries = {}
    /\ phase' = "loaded"
    /\ UNCHANGED <<dir, index, entries, cur, pos, state, unread, cancelled>>

Cancel ==
    /\ Interrupts /\ ~cancelled /\ phase \notin {"loaded", "failed"}
    /\ cancelled' = TRUE
    /\ UNCHANGED <<dir, index, phase, entries, cur, pos, state, unread>>

Init ==
    /\ dir \in Directories
    /\ index \in Indexes \cap DOMAIN dir
    /\ phase = "index" /\ cur = index /\ pos = 1
    /\ entries = {}
    /\ recoverySetID = NoSet
    /\ sliceByteCount = 0
    /\ protectedFiles = <<>>
    /\ fileChecksums = [id \in FileID |-> 0]
    /\ parityShards = [e \in Exponents |-> NoShard]
    /\ parityFileBlocks = [n \in DOMAIN dir |-> 0]
    /\ unread = {}
    /\ cancelled = FALSE

StreamNext ==
    PacketFails \/ StreamCancelled \/ SkipPacket \/ HandlePacket \/ IndexDone \/ VolumeDone

LoadNext ==
    \/ StreamNext
    \/ ListDirectory
    \/ \E n \in DOMAIN dir : OpenVolume(n) \/ PassEntry(n)
    \/ \E n \in DOMAIN dir \cup {NoFile} : OpenFails(n)
    \/ EntryCancelled
    \/ Loaded

Stopped == phase \in {"loaded", "failed"} /\ UNCHANGED vars

Next == LoadNext \/ Cancel \/ Stopped

\* NewDecoder runs in one goroutine, which is scheduled while it can run.
Spec == Init /\ [][Next]_vars /\ WF_vars(LoadNext)

(***************************************************************************)
(* Properties                                                              *)
(***************************************************************************)

\* Every variable has its type; blocks are whole words, and every protected
\* file has bytes and a name inside the directory.
LoaderTypeOK ==
    /\ phase \in {"index", "list", "volumes", "loaded", "failed"}
    /\ entries \subseteq DOMAIN dir
    /\ cur \in DOMAIN dir \cup {NoFile}
    /\ pos \in Nat \ {0}
    /\ recoverySetID \in SetIDs \cup {NoSet}
    /\ sliceByteCount \in Nat /\ sliceByteCount % 4 = 0
    /\ \A i \in DOMAIN protectedFiles :
          /\ protectedFiles[i].id \in FileID
          /\ protectedFiles[i].size > 0
          /\ protectedFiles[i].name # Rejected
    /\ fileChecksums \in [FileID -> Nat]
    /\ parityShards \in [Exponents -> Nat \cup {NoShard}]
    /\ parityFileBlocks \in [DOMAIN dir -> Nat]
    /\ unread \subseteq DOMAIN dir \cup {NoFile}
    /\ cancelled \in BOOLEAN

\* A packet no reader of file n stops at, once the set has its ID.
Passes(n, p) ==
    /\ p.readable
    /\ p.set = recoverySetID /\ (n = index \/ p.body.type = "recv") => ParseOK(p.body)

\* The recovery blocks of file n before the first packet that stops its reader.
Offered(n) ==
    {e \in Exponents :
        \E i \in DOMAIN dir[n] :
            /\ \A j \in 1..i : Passes(n, dir[n][j])
            /\ dir[n][i].set = recoverySetID
            /\ dir[n][i].body.type = "recv" /\ dir[n][i].body.exponent = e}

\* The files named like the index but for a volume tag.
Siblings ==
    {n \in DOMAIN dir :
        \E base \in {SubSeq(n, 1, k) : k \in 0..Len(n)} :
            {n, index} \subseteq {base \o <<Par2Ext>>}
                                  \cup {base \o <<tag, Par2Ext>> : tag \in VolumeTags}}

\* No recovery block of another set, or of a packet behind the first error of its
\* file, is ever kept, whichever file gave the set its ID (streamPAR2Packets).
NoForeignBlock ==
    \A e \in Exponents : parityShards[e] # NoShard => \E n \in DOMAIN dir : e \in Offered(n)

\* Whatever the order of the directory and wherever volumes are damaged, a
\* load that returns has the recovery blocks that precede the first error of
\* each file of the set: a damaged volume takes nothing from its siblings, and a
\* volume given as the index finds the others (loadVolumeFiles).
BlocksFound ==
    (phase = "loaded" /\ ~cancelled) =>
        \A n \in Siblings \ unread : \A e \in Offered(n) : parityShards[e] # NoShard

\* The Main packets and descriptions of this set in the index.
OwnBodies(type) ==
    {p.body : p \in {q \in Range(dir[index]) : q.set = recoverySetID /\ q.body.type = type}}

\* An index with one Main packet, once or more, that lists different files, in
\* its recovery set or not, and describes each of them, once or more.
Consistent ==
    \E m \in OwnBodies("main") :
        /\ OwnBodies("main") = {m}
        /\ Range(m.ids) = {b.id : b \in OwnBodies("desc")}
        /\ IsInjective(m.ids)
        /\ \A b, c \in OwnBodies("desc") : b.id = c.id => b = c

NotEmpty(id) == \E b \in OwnBodies("desc") : b.id = id /\ b.size > 0

\* The rows of the Reed-Solomon matrix follow protectedFiles: after a load from
\* a consistent index they are the files that the Main packet lists, each once,
\* without the empty ones, and those of its recovery set are in its order,
\* whatever the order and number of the packets that describe them.
RowsMatchMain ==
    phase = "loaded" /\ Consistent =>
        \A m \in OwnBodies("main") :
            LET row(i) == protectedFiles[i].id
                set == RecoverySet(m)
            IN
            /\ {row(i) : i \in DOMAIN protectedFiles} = {id \in Range(m.ids) : NotEmpty(id)}
            /\ \A i, j \in DOMAIN protectedFiles :
                  i < j =>
                     /\ row(i) # row(j)
                     /\ {row(i), row(j)} \subseteq Range(set) =>
                           \E k, l \in DOMAIN set : k < l /\ set[k] = row(i) /\ set[l] = row(j)

\* The blocks counted per file add up to the recovery blocks that can be used.
BlocksAccounted ==
    FoldFunction(+, 0, parityFileBlocks)
        = Cardinality({e \in Exponents : parityShards[e] # NoShard})

\* A load fails only for its index, its directory or its context: nothing in a
\* volume can fail it.
VolumesNeverFail ==
    phase = "failed" =>
        \/ cancelled
        \/ unread \cap {index, NoFile} # {}
        \/ \E i \in DOMAIN dir[index] : ~Passes(index, dir[index][i])

\* Every load returns.
LoadEnds == <>(phase \in {"loaded", "failed"})

=============================================================================
