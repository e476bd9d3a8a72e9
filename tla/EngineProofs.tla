---------------------------- MODULE EngineProofs ----------------------------
(***************************************************************************)
(* Proofs that the safety properties of Engine hold for every recovery     *)
(* set, disk, number of files, faults, crashes and runs, provided that no  *)
(* protected file is itself given as a candidate.                          *)
(***************************************************************************)
EXTENDS Engine, FiniteSetTheorems, TLAPS

(***************************************************************************)
(* The inductive invariant                                                 *)
(***************************************************************************)

\* A FileID of a file: it has a name, a candidate's is one of the candidates.
GoodID(id) ==
    /\ id \in FileID
    /\ id.name \in Names
    /\ id.kind = "cand" => id.name \in candidateFiles

\* Every block has a location, and one that has been found is in a file.
GoodLocs(l) ==
    /\ l \in [Blocks -> Location]
    /\ \A b \in Blocks : l[b].off # -1 => GoodID(l[b].id)

\* The source of a planned rename is an exact copy, or is gone.
RenameInv ==
    \A f \in Protected :
        renameSource[f] # "" => disk[renameSource[f]] \in {Content[f], Absent}

\* A file recorded as verified is intact, verification settles every file, and
\* a rename is planned only for a file that is missing or wrong.
DamageInv ==
    \A f \in Protected :
        /\ damage[f] = "none" => Healthy(f)
        /\ pc \in RepairPhases \cup {"dispatch"} => damage[f] # "unchecked"
        /\ renameSource[f] # "" =>
              /\ pc \in {"protected", "scan", "post"} => damage[f] = "missing"
              /\ pc \in RepairPhases \cup {"dispatch"} => damage[f] \in RebuildDamage

\* What the worker of a rebuilt file has established so far.
FinishInv ==
    \A f \in Protected :
        /\ pc \in VerifyPhases \cup {"dispatch", "rename", "plan"} =>
              temp[f] = Absent
        /\ pc \in VerifyPhases \cup {"dispatch", "rename", "plan", "chunk"} =>
              finish[f] = "idle"
        /\ (pc = "finish" /\ finish[f] = "truncate") => temp[f] # Absent
        /\ finish[f] \in {"hash", "ok"} => f \in synced
        /\ finish[f] = "ok" => temp[f] \in {Content[f], Absent}

\* From the last chunk on, every file is intact or about to be replaced by its
\* protected content.
InstallInv ==
    /\ pc = "finish" => \A f \in Protected : temp[f] # Absent \/ Healthy(f)
    /\ pc = "install" =>
          /\ \A f \in Protected : temp[f] # Absent => finish[f] = "ok"
          /\ \A f \in Protected : temp[f] # Absent \/ Healthy(f)
          /\ \A i \in DOMAIN protectedFiles : i < idx => Healthy(protectedFiles[i])
    /\ (pc = "close" /\ ~repairErr) => \A f \in Protected : Healthy(f)

ExitInv == exitCode # Running => pc = "exit"

IInv ==
    /\ TypeOK
    /\ GoodLocs(locs)
    /\ RenameInv
    /\ DamageInv
    /\ FinishInv
    /\ InstallInv
    /\ ExitInv
    /\ volatile = {}
    /\ NeverTorn
    /\ SuccessMeansHealthy
    /\ CandidateMovedNotLost
    /\ NoTempLeft

\* The one thing asked of the command line: no protected file is also given
\* as a candidate.  Without it SuccessMeansHealthy does not hold.
NoProtectedCandidate == candidateFiles \cap Protected = {}

(***************************************************************************)
(* Lemmas about the recovery set                                           *)
(***************************************************************************)

\* A protected name is a name, and its content is a nonempty file.
LEMMA ProtectedFacts ==
    /\ Protected \subseteq Names
    /\ \A i \in DOMAIN protectedFiles : protectedFiles[i] \in Protected
    /\ \A f \in Protected : /\ Content[f] \in Seq(Byte)
                            /\ Content[f] \in FileContent
                            /\ Content[f] # Absent
                            /\ Len(Content[f]) \in Nat
    /\ DOMAIN protectedFiles = 1..Len(protectedFiles)
    /\ Len(protectedFiles) \in Nat
<1>1. protectedFiles \in Seq(Names)
  BY NamesAssumption
<1>2. DOMAIN protectedFiles = 1..Len(protectedFiles) /\ Len(protectedFiles) \in Nat
  BY <1>1
<1>3. \A i \in DOMAIN protectedFiles : protectedFiles[i] \in Names
  BY <1>1
<1>4. Protected \subseteq Names
  BY <1>3 DEF Protected
<1>5. \A i \in DOMAIN protectedFiles : protectedFiles[i] \in Protected
  BY DEF Protected
<1>6. ASSUME NEW f \in Protected
      PROVE  /\ Content[f] \in Seq(Byte)
             /\ Content[f] \in FileContent
             /\ Content[f] # Absent
             /\ Len(Content[f]) \in Nat
  <2>1. Content[f] \in Seq(Byte)
    BY ContentAssumption
  <2> QED
    BY <2>1, ContentAssumption DEF FileContent
<1> QED
  BY <1>2, <1>4, <1>5, <1>6

\* Reading a file never yields anything but cells, inside it or past its end.
LEMMA CellType ==
    ASSUME NEW s \in Seq(Byte), NEW p \in Int
    PROVE  Cell(s, p) \in Byte
  BY ContentAssumption DEF Cell

\* A read of n cells is a file of n cells, whatever the offset.
LEMMA ReadAtType ==
    ASSUME NEW s \in Seq(Byte), NEW off \in Int, NEW n \in Nat
    PROVE  ReadAt(s, off, n) \in Seq(Byte)
<1>1. \A k \in 1..n : Cell(s, off + k) \in Byte
  BY CellType
<1> QED
  BY <1>1 DEF ReadAt

\* A quotient rounded down, times the divisor, does not exceed the dividend.
LEMMA DivBounds ==
    ASSUME NEW a \in Nat, NEW n \in Nat \ {0}
    PROVE  /\ a \div n \in Nat
           /\ n * (a \div n) <= a
           /\ a < n * (a \div n) + n
  OBVIOUS

\* An offset inside m blocks of n cells lies in one of those m blocks.
LEMMA DivUpper ==
    ASSUME NEW a \in Nat, NEW n \in Nat \ {0}, NEW m \in Nat, a < m * n
    PROVE  a \div n \in 0..(m - 1)
<1> DEFINE q == a \div n
<1>1. q \in Nat /\ n * q <= a
  BY DivBounds
<1>2. ASSUME q >= m PROVE FALSE
  <2>1. n * q >= n * m
    BY <1>1, <1>2
  <2> QED
    BY <1>1, <2>1
<1> QED
  BY <1>1, <1>2

\* A protected file has at least one block.
LEMMA ShardsType ==
    ASSUME NEW f \in Protected
    PROVE  Shards(f) \in Nat \ {0}
<1> DEFINE a == Len(Content[f]) + sliceByteCount - 1
<1>1. Len(Content[f]) \in Nat \ {0}
  BY ContentAssumption
<1>2. a \in Nat /\ a >= sliceByteCount /\ sliceByteCount \in Nat \ {0}
  BY <1>1, SizeAssumption
<1> HIDE DEF a
<1>3. a \div sliceByteCount \in Nat
  BY <1>2
<1>4. a \div sliceByteCount # 0
  BY <1>2, DivBounds
<1> QED
  BY <1>3, <1>4 DEF Shards, a

\* A block is a protected file and the number of a shard of it.
LEMMA BlockFacts ==
    /\ \A b \in Blocks : b[1] \in Protected /\ b[2] \in Nat
    /\ \A f \in Protected : \A i \in 0..(Shards(f) - 1) : <<f, i>> \in Blocks
  BY DEF Blocks

\* Locations at a block's own offset, in a file that has a name.
LEMMA InPlaceType ==
    ASSUME NEW b \in Blocks, NEW id, GoodID(id)
    PROVE  /\ InPlaceIn(id, b) \in Location
           /\ GoodID(InPlaceIn(id, b).id)
<1>1. b[2] * sliceByteCount \in Int
  BY BlockFacts, SizeAssumption
<1>2. InPlaceIn(id, b).id = id
  BY DEF InPlaceIn
<1> QED
  BY <1>1, <1>2 DEF InPlaceIn, Location, GoodID

\* Protected files and candidates have FileIDs that name a file.
LEMMA IDType ==
    /\ \A f \in Protected : GoodID(FileIDOf(f))
    /\ \A c \in candidateFiles : GoodID(CandidateID(c))
  BY ProtectedFacts, NamesAssumption DEF GoodID, FileIDOf, CandidateID, FileID

\* The prescans and the renames set the locations of whole files.
LEMMA RelocateGood ==
    ASSUME GoodLocs(locs), NEW S \in SUBSET Protected, NEW home,
           \A f \in S : GoodID(home[f])
    PROVE  GoodLocs(Relocate(S, home))
<1> DEFINE l == Relocate(S, home)
<1>1. ASSUME NEW b \in Blocks
      PROVE  l[b] \in Location /\ (l[b].off # -1 => GoodID(l[b].id))
  <2>1. CASE b[1] \in S
    BY <2>1, InPlaceType DEF Relocate
  <2>2. CASE b[1] \notin S
    BY <2>2 DEF Relocate, GoodLocs
  <2> QED
    BY <2>1, <2>2
<1>2. l \in [Blocks -> Location]
  BY <1>1 DEF Relocate
<1> QED
  BY <1>1, <1>2 DEF GoodLocs

\* Locations stay in files when they follow a renamed candidate
\* (renameMisnamedFiles).
LEMMA RemapGood ==
    ASSUME GoodLocs(locs), NEW f \in Protected, NEW c
    PROVE  GoodLocs(RemapCandidate(c, f))
<1> DEFINE l == RemapCandidate(c, f)
<1>1. ASSUME NEW b \in Blocks
      PROVE  l[b] \in Location /\ (l[b].off # -1 => GoodID(l[b].id))
  <2>1. CASE b[1] = f
    BY <2>1, InPlaceType, IDType DEF RemapCandidate
  <2>2. CASE b[1] # f
    <3>1. locs[b] \in Location
      BY DEF GoodLocs
    <3>2. [locs[b] EXCEPT !.id = FileIDOf(f)] \in Location
      BY <3>1, IDType DEF Location, GoodID
    <3>3. [locs[b] EXCEPT !.id = FileIDOf(f)].id = FileIDOf(f)
      BY <3>1 DEF Location
    <3> QED
      BY <2>2, <3>1, <3>2, <3>3, IDType DEF RemapCandidate, GoodLocs
  <2> QED
    BY <2>1, <2>2
<1>2. l \in [Blocks -> Location]
  BY <1>1 DEF RemapCandidate
<1> QED
  BY <1>1, <1>2 DEF GoodLocs

\* The block scan leaves every block located in a file it read, where it was
\* before, or not found.
LEMMA ScanGood ==
    ASSUME GoodLocs(locs), NEW d,
           NEW l \in ScanOutcomes(d, ScanSources(d, damage, resolved), locs)
    PROVE  GoodLocs(l)
<1> DEFINE sources == ScanSources(d, damage, resolved)
           choices == ScanChoices(d, sources, locs)
<1>1. \A id \in sources : GoodID(id)
  BY IDType DEF ScanSources
<1>2. ASSUME NEW b \in Blocks, NEW loc \in Matches(d, sources, b)
      PROVE  loc \in Location /\ GoodID(loc.id)
  <2>1. PICK id \in sources : loc.id = id /\ loc \in [id : {id}, off : Int]
    BY DEF Matches
  <2> QED
    BY <1>1, <2>1 DEF Location, GoodID
<1>3. NotFound \in Location /\ NotFound.off = -1
  BY DEF NotFound, Location, FileID
<1>4. \A c \in choices : c[2] \in Location /\ (c[2].off # -1 => GoodID(c[2].id))
  <2> TAKE c \in choices
  <2>1. CASE c \in UNION {{b} \X Matches(d, sources, b) : b \in Unlocated(locs)}
    <3>1. PICK b \in Unlocated(locs) : c \in {b} \X Matches(d, sources, b)
      BY <2>1
    <3>2. b \in Blocks /\ c[2] \in Matches(d, sources, b)
      BY <3>1 DEF Unlocated
    <3> QED
      BY <1>2, <3>2
  <2>2. CASE c \in {<<b, NotFound>> :
                      b \in {a \in Unlocated(locs) : MayMiss(d, sources, a)}}
    <3>1. c[2] = NotFound
      BY <2>2
    <3> QED
      BY <1>3, <3>1
  <2> QED
    BY <2>1, <2>2 DEF ScanChoices
<1>5. l \in OutcomesOf(choices, locs)
  BY DEF ScanOutcomes
<1>6. PICK q \in [Unlocated(locs) -> {c[2] : c \in choices}] :
         l = [b \in Blocks |-> IF b \in Unlocated(locs) THEN q[b] ELSE locs[b]]
  BY <1>5 DEF OutcomesOf
<1> HIDE DEF choices
<1>7. ASSUME NEW b \in Blocks
      PROVE  l[b] \in Location /\ (l[b].off # -1 => GoodID(l[b].id))
  <2>1. CASE b \in Unlocated(locs)
    BY <1>4, <1>6, <2>1
  <2>2. CASE b \notin Unlocated(locs)
    BY <1>6, <2>2 DEF GoodLocs
  <2> QED
    BY <2>1, <2>2
<1>8. l \in [Blocks -> Location]
  BY <1>6, <1>7
<1> QED
  BY <1>7, <1>8 DEF GoodLocs

(***************************************************************************)
(* Lemmas about the rebuild                                                *)
(***************************************************************************)

\* computeChunkSize never returns zero, so that the chunk loop ends.
LEMMA ChunkSizeType == ChunkSize \in Nat \ {0}
<1> DEFINE denom == Cardinality(Blocks) + Cardinality(UnusableData)
           size == MinOf(memoryLimit \div denom, sliceByteCount)
<1>1. Cardinality(UnusableData) \in Nat
  BY BlocksAssumption, FS_Subset, FS_CardinalityType DEF UnusableData
<1>2. denom \in Nat \ {0}
  <2>1. PICK m \in 1..32768 : Cardinality(Blocks) = m
    BY BlocksAssumption
  <2>2. PICK u \in Nat : Cardinality(UnusableData) = u
    BY <1>1
  <2>3. m + u \in Nat \ {0}
    BY SMT
  <2> QED
    BY <2>1, <2>2, <2>3
<1> HIDE DEF denom
<1>3. memoryLimit \div denom \in Nat
  BY <1>2, DivBounds, RepairAssumption
<1>4. size \in Nat
  BY <1>3, SizeAssumption DEF MinOf
<1> HIDE DEF size
<1>5. size \div ChunkAlign \in Nat
  BY <1>4, DivBounds, RepairAssumption
<1>6. (size \div ChunkAlign) * ChunkAlign \in Nat
  BY <1>5, RepairAssumption
<1>7. MaxOf((size \div ChunkAlign) * ChunkAlign, ChunkAlign) \in Nat \ {0}
  BY <1>6, RepairAssumption DEF MaxOf
<1> QED
  BY <1>7 DEF ChunkSize, size, denom

\* A chunk covers cells of the block only; the last one is cut at its end.
LEMMA ChunkCellsType ==
    ASSUME chunkIdx \in Nat
    PROVE  /\ ChunkCells \subseteq 1..sliceByteCount
           /\ MinOf((chunkIdx + 1) * ChunkSize, sliceByteCount) \in 0..sliceByteCount
<1>1. chunkIdx * ChunkSize \in Nat /\ (chunkIdx + 1) * ChunkSize \in Nat
  BY ChunkSizeType
<1>2. MinOf((chunkIdx + 1) * ChunkSize, sliceByteCount) \in 0..sliceByteCount
  BY <1>1, SizeAssumption DEF MinOf
<1> QED
  BY <1>1, <1>2, SizeAssumption DEF ChunkCells

\* executeChunk writes cells and nothing else into a block.
LEMMA ShardCellType ==
    ASSUME TypeOK, GoodLocs(locs), ~SourceMissing,
           NEW b \in Blocks, NEW k \in ChunkCells, NEW g \in Reconstructions
    PROVE  ShardCell(b, k, g) \in Byte
<1>1. k \in 1..sliceByteCount /\ k \in Int
  <2>1. chunkIdx \in Nat
    BY DEF TypeOK
  <2> QED
    BY <2>1, ChunkCellsType, SizeAssumption
<1>2. CASE b \in Located
  <2>1. disk[SourceName(b)] \in Seq(Byte)
    BY <1>2 DEF TypeOK, GoodLocs, GoodID, Located, SourceMissing, SourceName, FileContent
  <2>2. locs[b].off + k \in Int
    BY <1>1 DEF GoodLocs, Location
  <2> QED
    BY <1>2, <2>1, <2>2, CellType DEF ShardCell, ReadCell
<1>3. CASE b \notin Located /\ k \in GarbledCells
  <2>1. b \in UnusableData
    BY <1>3 DEF Located, UnusableData
  <2> QED
    BY <1>3, <2>1 DEF ShardCell, Reconstructions
<1>4. CASE b \notin Located /\ k \notin GarbledCells
  <2>1. Content[b[1]] \in Seq(Byte) /\ b[2] * sliceByteCount + k \in Int
    BY <1>1, BlockFacts, ProtectedFacts, SizeAssumption
  <2>2. Block(b)[k] = Cell(Content[b[1]], b[2] * sliceByteCount + k)
    BY <1>1 DEF Block, ReadAt
  <2> QED
    BY <1>4, <2>1, <2>2, CellType DEF ShardCell
<1> QED
  BY <1>2, <1>3, <1>4

\* A temp file is a file: no chunk, and no hole it leaves, makes it anything else.
LEMMA WriteBlocksType ==
    ASSUME TypeOK, GoodLocs(locs), ~SourceMissing,
           NEW f \in Protected, NEW g \in Reconstructions
    PROVE  WriteBlocks(f, g) \in Seq(Byte)
<1> DEFINE old == IF temp[f] = Absent THEN <<>> ELSE temp[f]
           end == MinOf((chunkIdx + 1) * ChunkSize, sliceByteCount)
           n == (Shards(f) - 1) * sliceByteCount + end
           b(p) == <<f, (p - 1) \div sliceByteCount>>
           k(p) == ((p - 1) % sliceByteCount) + 1
           w(p) == IF k(p) \in ChunkCells THEN ShardCell(b(p), k(p), g) ELSE Cell(old, p)
<1>1. old \in Seq(Byte)
  <2>1. temp[f] \in FileContent
    BY DEF TypeOK
  <2>2. <<>> \in Seq(Byte)
    OBVIOUS
  <2> QED
    BY <2>1, <2>2 DEF FileContent
<1>2. end \in 0..sliceByteCount
  <2>1. chunkIdx \in Nat
    BY DEF TypeOK
  <2> QED
    BY <2>1, ChunkCellsType
<1>3. /\ n \in Nat
      /\ \A p \in 1..n : p - 1 \in Nat /\ p - 1 < Shards(f) * sliceByteCount
  <2> HIDE DEF end
  <2>1. (Shards(f) - 1) * sliceByteCount \in Nat
    BY ShardsType, SizeAssumption
  <2>2. Shards(f) * sliceByteCount = (Shards(f) - 1) * sliceByteCount + sliceByteCount
    BY ShardsType, SizeAssumption
  <2> QED
    BY <1>2, <2>1, <2>2, SizeAssumption
<1> HIDE DEF n
<1>4. ASSUME NEW p \in 1..n PROVE w(p) \in Byte
  <2>1. (p - 1) \div sliceByteCount \in 0..(Shards(f) - 1)
    BY <1>3, ShardsType, SizeAssumption, DivUpper
  <2>2. b(p) \in Blocks
    BY <2>1, BlockFacts
  <2>3. CASE k(p) \in ChunkCells
    BY <2>2, <2>3, ShardCellType
  <2>4. CASE k(p) \notin ChunkCells
    <3> HIDE DEF old
    <3>1. p \in Int
      OBVIOUS
    <3>2. Cell(old, p) \in Byte
      BY <1>1, <3>1, CellType
    <3> QED
      BY <2>4, <3>2
  <2> QED
    BY <2>3, <2>4
<1>5. WriteBlocks(f, g) = [p \in 1..n |-> w(p)]
  BY DEF WriteBlocks, n
<1> HIDE DEF w
<1> QED
  BY <1>3, <1>4, <1>5

(***************************************************************************)
(* The initial states                                                      *)
(***************************************************************************)
LEMMA NewRunFacts ==
    /\ [b \in Blocks |-> NotFound] \in [Blocks -> Location]
    /\ GoodLocs([b \in Blocks |-> NotFound])
<1>1. NotFound \in Location /\ NotFound.off = -1
  BY DEF NotFound, Location, FileID
<1> QED
  BY <1>1 DEF GoodLocs

\* A running program has not reported success.
LEMMA RunningNotZero == Running # 0
  BY DEF Running

\* The invariant holds when the first run starts.
LEMMA InitInv ==
    ASSUME Init
    PROVE  IInv
<1>1. /\ disk \in [Names -> FileContent] /\ orig = disk
      /\ cmd \in Commands /\ parityShards \in ParityShards
  BY EngineAssumption DEF Init
<1>2. faults = 0 /\ runs = 1 /\ crashes = 0 /\ volatile = {} /\ idx = 1 /\ chunkIdx = 0
  BY DEF Init, NewPipeline
<1>3. /\ damage = [f \in Protected |-> "unchecked"]
      /\ renameSource = [f \in Protected |-> ""]
      /\ locs = [b \in Blocks |-> NotFound] /\ resolved = {}
      /\ pc = "init" /\ exitCode = Running /\ cancelled = FALSE
  BY DEF Init, NewRun
<1>4. /\ temp = [f \in Protected |-> Absent] /\ finish = [f \in Protected |-> "idle"]
      /\ synced = {} /\ repairErr = FALSE
  BY DEF Init, NewPipeline
<1>5. TypeOK
  <2>1. /\ damage \in [Protected -> Damage] /\ finish \in [Protected -> FinishStates]
        /\ temp \in [Protected -> FileContent]
        /\ renameSource \in [Protected -> candidateFiles \cup {""}]
        /\ locs \in [Blocks -> Location]
    BY <1>3, <1>4, NewRunFacts DEF Damage, FinishStates, FileContent
  <2>2. /\ idx \in 1..(Len(protectedFiles) + 1) /\ chunkIdx \in Nat
        /\ faults \in 0..MaxFaults /\ crashes \in 0..MaxCrashes /\ runs \in Nat
    BY <1>2, ProtectedFacts, BoundAssumption, EngineAssumption
  <2>3. /\ pc \in VerifyPhases /\ exitCode \in ExitCodes \cup {Running}
        /\ cancelled \in BOOLEAN /\ repairErr \in BOOLEAN
        /\ resolved \subseteq candidateFiles /\ synced \subseteq Protected
        /\ volatile \subseteq Names
    BY <1>2, <1>3, <1>4 DEF VerifyPhases
  <2> QED
    BY <1>1, <2>1, <2>2, <2>3 DEF TypeOK
<1>6. GoodLocs(locs)
  BY <1>3, NewRunFacts
<1>7. RenameInv /\ DamageInv /\ FinishInv /\ InstallInv /\ ExitInv
  BY <1>3, <1>4 DEF RenameInv, DamageInv, FinishInv, InstallInv, ExitInv, RepairPhases
<1>8. NeverTorn /\ CandidateMovedNotLost
  BY <1>1 DEF NeverTorn, CandidateMovedNotLost
<1>9. SuccessMeansHealthy
  BY <1>3, RunningNotZero DEF SuccessMeansHealthy
<1>10. NoTempLeft
  BY <1>3 DEF NoTempLeft
<1> QED
  BY <1>2, <1>5, <1>6, <1>7, <1>8, <1>9, <1>10 DEF IInv

(***************************************************************************)
(* The verification phases                                                 *)
(***************************************************************************)

\* What a phase must still show once it is known to leave the disk alone.
LEMMA VerifyPhase ==
    ASSUME IInv, pc \in VerifyPhases, pc' \in VerifyPhases \cup {"dispatch"},
           UNCHANGED <<disk, exitCode, cancelled, pipelineVars, envVars>>,
           damage' \in [Protected -> Damage],
           renameSource' \in [Protected -> candidateFiles \cup {""}],
           GoodLocs(locs'), resolved' \subseteq candidateFiles,
           faults' \in 0..MaxFaults,
           RenameInv', DamageInv'
    PROVE  IInv'
<1> USE DEF pipelineVars, envVars
<1>1. TypeOK'
  BY DEF IInv, TypeOK, GoodLocs
<1>2. GoodLocs(locs)'
  BY DEF GoodLocs
<1>3. FinishInv'
  BY DEF IInv, FinishInv, VerifyPhases
<1>4. InstallInv' /\ ExitInv'
  BY DEF IInv, InstallInv, ExitInv, VerifyPhases
<1>5. NeverTorn' /\ SuccessMeansHealthy' /\ CandidateMovedNotLost'
  BY DEF IInv, NeverTorn, SuccessMeansHealthy, CandidateMovedNotLost, Healthy
<1>6. NoTempLeft'
  BY DEF NoTempLeft, VerifyPhases
<1> QED
  BY <1>1, <1>2, <1>3, <1>4, <1>5, <1>6 DEF IInv

\* The bound on I/O errors.
LEMMA FaultType ==
    ASSUME faults \in 0..MaxFaults
    PROVE  /\ Fault => faults' \in 0..MaxFaults
           /\ \A S, bad : (bad \in FaultSets(S) /\ Charge(bad)) => faults' \in 0..MaxFaults
<1>1. Fault => faults' \in 0..MaxFaults
  BY BoundAssumption DEF Fault
<1>2. ASSUME NEW S, NEW bad, bad \in FaultSets(S), Charge(bad)
      PROVE  faults' \in 0..MaxFaults
  <2>1. CASE bad = {}
    BY <1>2, <2>1 DEF Charge
  <2>2. CASE bad # {}
    <3>1. faults < MaxFaults
      BY <1>2, <2>2 DEF FaultSets
    <3> QED
      BY <1>2, <2>2, <3>1, BoundAssumption DEF Charge
  <2> QED
    BY <2>1, <2>2
<1> QED
  BY <1>1, <1>2

\* initFileIntegrity forgets every location and plans nothing.
LEMMA InitFileIntegrityStep ==
    ASSUME IInv, InitFileIntegrity, UNCHANGED <<cancelled, pipelineVars, envVars>>
    PROVE  IInv'
<1> USE DEF InitFileIntegrity
<1>1. pc \in VerifyPhases /\ pc' \in VerifyPhases /\ pc' = "exist"
  BY DEF VerifyPhases
<1>2. /\ damage' \in [Protected -> Damage]
      /\ renameSource' \in [Protected -> candidateFiles \cup {""}]
  BY DEF Damage
<1>3. GoodLocs(locs')
  BY NewRunFacts
<1>4. RenameInv' /\ DamageInv'
  BY <1>1 DEF RenameInv, DamageInv, RepairPhases
<1>5. resolved' \subseteq candidateFiles /\ faults' \in 0..MaxFaults
  BY DEF IInv, TypeOK
<1> QED
  BY <1>1, <1>2, <1>3, <1>4, <1>5, VerifyPhase

\* checkFileExistence records as missing only names that hold no file.
LEMMA CheckFileExistenceStep ==
    ASSUME IInv, CheckFileExistence, UNCHANGED <<cancelled, pipelineVars, envVars>>
    PROVE  IInv'
<1> USE DEF CheckFileExistence
<1>1. pc \in VerifyPhases /\ pc' \in VerifyPhases /\ pc' = "candidates"
  BY DEF VerifyPhases
<1>2. damage' \in [Protected -> Damage]
  BY DEF IInv, TypeOK, Damage
<1>3. RenameInv'
  BY DEF IInv, RenameInv
<1>4. DamageInv'
  BY <1>1 DEF IInv, DamageInv, RepairPhases, Healthy
<1>5. /\ renameSource' \in [Protected -> candidateFiles \cup {""}]
      /\ GoodLocs(locs') /\ resolved' \subseteq candidateFiles
      /\ faults' \in 0..MaxFaults
  BY DEF IInv, TypeOK
<1> QED
  BY <1>1, <1>2, <1>3, <1>4, <1>5, VerifyPhase

\* A candidate is taken for a missing file only after its full hash.
LEMMA PrescanCandidateMatchesStep ==
    ASSUME IInv, PrescanCandidateMatches, UNCHANGED <<cancelled, pipelineVars, envVars>>
    PROVE  IInv'
<1>1. /\ pc \in VerifyPhases /\ pc' \in VerifyPhases /\ pc' = "protected"
      /\ UNCHANGED <<disk, damage, exitCode>>
  BY DEF PrescanCandidateMatches, VerifyPhases
<1> DEFINE Hit(bad) == {f \in Protected : PerfectMatches(f, bad) # {}}
<1>2. PICK bad \in FaultSets(candidateFiles), atOpen \in BOOLEAN :
      \E source \in [Protected -> candidateFiles \cup {""}] :
         /\ \A f \in Protected :
               IF f \in Hit(bad) THEN source[f] \in PerfectMatches(f, bad)
                                ELSE source[f] = ""
         /\ renameSource' = source
         /\ locs' = Relocate(Hit(bad), [f \in Hit(bad) |-> CandidateID(source[f])])
         /\ resolved' =
               IF MissingFiles = {} THEN {}
               ELSE {c \in candidateFiles : disk[c] = Absent}
                    \cup (IF atOpen THEN bad ELSE {})
                    \cup UNION {PerfectMatches(f, bad) : f \in Hit(bad)}
         /\ Charge(bad)
  BY DEF PrescanCandidateMatches
<1>3. \A f \in Protected : renameSource'[f] # "" =>
         /\ renameSource'[f] \in candidateFiles
         /\ disk[renameSource'[f]] = Content[f]
         /\ damage[f] = "missing"
  <2> SUFFICES ASSUME NEW f \in Protected, renameSource'[f] # ""
               PROVE  /\ renameSource'[f] \in candidateFiles
                      /\ disk[renameSource'[f]] = Content[f]
                      /\ damage[f] = "missing"
    OBVIOUS
  <2>1. renameSource'[f] \in PerfectMatches(f, bad)
    BY <1>2
  <2>2. f \in MissingFiles
    BY <2>1 DEF PerfectMatches, MissingByQuickKey
  <2> QED
    BY <2>1, <2>2 DEF PerfectMatches, MissingFiles
<1>4. GoodLocs(locs')
  <2>1. \A f \in Hit(bad) : GoodID(CandidateID(renameSource'[f]))
    BY <1>2, IDType DEF PerfectMatches
  <2>2. locs' = Relocate(Hit(bad), [f \in Hit(bad) |-> CandidateID(renameSource'[f])])
    BY <1>2
  <2>3. GoodLocs(locs) /\ Hit(bad) \in SUBSET Protected
    BY DEF IInv
  <2> HIDE DEF Hit
  <2> QED
    BY <2>1, <2>2, <2>3, RelocateGood
<1>5. resolved' \subseteq candidateFiles
  <2>1. \A f \in Protected : PerfectMatches(f, bad) \subseteq candidateFiles
    BY DEF PerfectMatches
  <2>2. bad \subseteq candidateFiles
    BY <1>2 DEF FaultSets
  <2> QED
    BY <1>2, <2>1, <2>2
<1>6. faults' \in 0..MaxFaults
  BY <1>2, FaultType DEF IInv, TypeOK
<1>7. renameSource' \in [Protected -> candidateFiles \cup {""}]
  BY <1>2
<1>8. RenameInv'
  BY <1>1, <1>3 DEF RenameInv
<1>9. DamageInv'
  BY <1>1, <1>3 DEF IInv, DamageInv, RepairPhases, Healthy
<1>10. damage' \in [Protected -> Damage]
  BY <1>1 DEF IInv, TypeOK
<1> QED
  BY <1>1, <1>4, <1>5, <1>6, <1>7, <1>8, <1>9, <1>10, VerifyPhase

\* prescanProtectedMatches declares a file verified only if it is intact.
LEMMA PrescanProtectedMatchesStep ==
    ASSUME IInv, PrescanProtectedMatches, UNCHANGED <<cancelled, pipelineVars, envVars>>
    PROVE  IInv'
<1>1. /\ pc = "protected" /\ pc \in VerifyPhases
      /\ pc' \in VerifyPhases /\ pc' = "scan"
      /\ UNCHANGED <<disk, renameSource, resolved, exitCode>>
  BY DEF PrescanProtectedMatches, VerifyPhases
<1>2. PICK bad \in FaultSets(Protected) :
         LET Intact == {f \in Protected \ bad :
                           damage[f] # "missing" /\ disk[f] = Content[f]}
         IN  /\ damage' = [f \in Protected |->
                              IF f \in Intact THEN "none" ELSE damage[f]]
             /\ locs' = Relocate(Intact, [f \in Intact |-> FileIDOf(f)])
             /\ Charge(bad)
  BY DEF PrescanProtectedMatches
<1> DEFINE Intact == {f \in Protected \ bad :
                         damage[f] # "missing" /\ disk[f] = Content[f]}
<1>3. damage' \in [Protected -> Damage]
  BY <1>2 DEF IInv, TypeOK, Damage
<1>4. GoodLocs(locs')
  <2>1. \A f \in Intact : GoodID(FileIDOf(f))
    BY IDType
  <2>2. locs' = Relocate(Intact, [f \in Intact |-> FileIDOf(f)])
    BY <1>2
  <2>3. GoodLocs(locs) /\ Intact \in SUBSET Protected
    BY DEF IInv
  <2> HIDE DEF Intact
  <2> QED
    BY <2>1, <2>2, <2>3, RelocateGood
<1>5. RenameInv'
  BY <1>1 DEF IInv, RenameInv
<1>6. DamageInv'
  <2>1. \A f \in Protected : damage'[f] = "none" => Healthy(f)'
    BY <1>1, <1>2 DEF IInv, DamageInv, Healthy
  <2>2. \A f \in Protected : renameSource[f] # "" => damage'[f] = "missing"
    BY <1>1, <1>2 DEF IInv, DamageInv
  <2> QED
    BY <1>1, <2>1, <2>2 DEF DamageInv, RepairPhases
<1>7. /\ renameSource' \in [Protected -> candidateFiles \cup {""}]
      /\ resolved' \subseteq candidateFiles
  BY <1>1 DEF IInv, TypeOK
<1>8. faults' \in 0..MaxFaults
  BY <1>2, FaultType DEF IInv, TypeOK
<1> QED
  BY <1>1, <1>3, <1>4, <1>5, <1>6, <1>7, <1>8, VerifyPhase

\* The block scan leaves every location in a file and never records a file as
\* verified.
LEMMA ScanStep ==
    ASSUME IInv, Scan, UNCHANGED <<cancelled, pipelineVars, envVars>>
    PROVE  IInv'
<1>1. /\ pc = "scan" /\ pc \in VerifyPhases
      /\ pc' \in VerifyPhases /\ pc' = "post"
      /\ UNCHANGED <<disk, renameSource, resolved, exitCode, faults>>
  BY DEF Scan, VerifyPhases
<1>2. GoodLocs(locs')
  <2>1. locs' \in ScanOutcomes(disk, ScanSources(disk, damage, resolved), locs)
    BY DEF Scan
  <2> QED
    BY <2>1, ScanGood DEF IInv
<1>3. damage' = [f \in Protected |->
                   IF /\ damage[f] \notin {"missing", "none"}
                      /\ Len(disk[f]) # Len(Content[f])
                   THEN "wrongSize" ELSE damage[f]]
  BY DEF Scan
<1>4. damage' \in [Protected -> Damage]
  BY <1>3 DEF IInv, TypeOK, Damage
<1>5. RenameInv'
  BY <1>1 DEF IInv, RenameInv
<1>6. DamageInv'
  <2>1. \A f \in Protected : damage'[f] = "none" => Healthy(f)'
    BY <1>1, <1>3 DEF IInv, DamageInv, Healthy
  <2>2. \A f \in Protected : renameSource[f] # "" => damage'[f] = "missing"
    BY <1>1, <1>3 DEF IInv, DamageInv
  <2> QED
    BY <1>1, <2>1, <2>2 DEF DamageInv, RepairPhases
<1>7. /\ renameSource' \in [Protected -> candidateFiles \cup {""}]
      /\ resolved' \subseteq candidateFiles /\ faults' \in 0..MaxFaults
  BY <1>1 DEF IInv, TypeOK
<1> QED
  BY <1>1, <1>2, <1>4, <1>5, <1>6, <1>7, VerifyPhase

\* What verifyProtectedFilesHashes concludes about one file.
LEMMA PostScanFileFacts ==
    ASSUME IInv, pc = "post", NEW f \in Protected, NEW bad, NEW atOpen \in BOOLEAN
    PROVE  LET r == PostScanFile(f, bad, atOpen) IN
           /\ r[1] \in Damage \ {"unchecked"}
           /\ r[1] = "none" => Healthy(f)
           /\ r[2] \in candidateFiles \cup {""}
           /\ r[2] # "" => r[1] \in RebuildDamage
           /\ r[2] # "" => disk[r[2]] \in {Content[f], Absent}
<1>1. /\ damage[f] \in Damage
      /\ renameSource[f] \in candidateFiles \cup {""}
      /\ damage[f] = "none" => Healthy(f)
      /\ renameSource[f] # "" => damage[f] = "missing"
      /\ renameSource[f] # "" => disk[renameSource[f]] \in {Content[f], Absent}
  BY DEF IInv, TypeOK, DamageInv, RenameInv
<1>2. LET c == DetectRenameCandidate(f, bad) IN
      /\ c \in candidateFiles \cup {""}
      /\ c # "" => disk[c] = Content[f]
  <2> DEFINE id == locs[<<f, 0>>].id
  <2>1. ASSUME id.kind = "cand", AllShardsIn(f, id)
        PROVE  id.name \in candidateFiles
    <3>1. <<f, 0>> \in Blocks
      BY ShardsType, BlockFacts
    <3>2. locs[<<f, 0>>] = InPlaceIn(id, <<f, 0>>)
      BY <2>1, <3>1 DEF AllShardsIn
    <3>3. InPlaceIn(id, <<f, 0>>).off = 0
      BY SizeAssumption DEF InPlaceIn
    <3>4. locs[<<f, 0>>].off = 0
      BY <3>2, <3>3
    <3>5. GoodID(id)
      BY <3>1, <3>4 DEF IInv, GoodLocs
    <3> QED
      BY <2>1, <3>5 DEF GoodID
  <2> QED
    BY <2>1 DEF DetectRenameCandidate
<1>3. /\ SingleFileHash(f, bad, atOpen) \in Damage \ {"unchecked"}
      /\ SingleFileHash(f, bad, atOpen) = "none" => Healthy(f)
  BY DEF SingleFileHash, Damage, Healthy
<1> QED
  BY <1>1, <1>2, <1>3 DEF PostScanFile, Damage, RebuildDamage

\* postScanVerify settles every file: verified only if intact, a rename only
\* from an exact copy.
LEMMA PostScanVerifyStep ==
    ASSUME IInv, PostScanVerify, UNCHANGED <<cancelled, pipelineVars, envVars>>
    PROVE  IInv'
<1>1. /\ pc = "post" /\ pc \in VerifyPhases /\ pc' = "dispatch"
      /\ UNCHANGED <<disk, locs, resolved, exitCode>>
  BY DEF PostScanVerify, VerifyPhases
<1>2. PICK bad \in FaultSets(Names), atOpen \in BOOLEAN :
         /\ damage' = [f \in Protected |-> PostScanFile(f, bad, atOpen)[1]]
         /\ renameSource' = [f \in Protected |-> PostScanFile(f, bad, atOpen)[2]]
         /\ Charge(bad)
  BY DEF PostScanVerify
<1>3. \A f \in Protected :
         /\ damage'[f] \in Damage \ {"unchecked"}
         /\ damage'[f] = "none" => Healthy(f)
         /\ renameSource'[f] \in candidateFiles \cup {""}
         /\ renameSource'[f] # "" => damage'[f] \in RebuildDamage
         /\ renameSource'[f] # "" => disk[renameSource'[f]] \in {Content[f], Absent}
  BY <1>1, <1>2, PostScanFileFacts
<1>4. /\ damage' \in [Protected -> Damage]
      /\ renameSource' \in [Protected -> candidateFiles \cup {""}]
  BY <1>2, <1>3
<1>5. RenameInv'
  BY <1>1, <1>3 DEF RenameInv
<1>6. DamageInv'
  BY <1>1, <1>3 DEF DamageInv, Healthy
<1>7. /\ GoodLocs(locs') /\ resolved' \subseteq candidateFiles
      /\ faults' \in 0..MaxFaults
  BY <1>1, <1>2, FaultType DEF IInv, TypeOK
<1> QED
  BY <1>1, <1>4, <1>5, <1>6, <1>7, VerifyPhase

(***************************************************************************)
(* Steps that end the run or the repair                                    *)
(***************************************************************************)

\* What does not depend on the phase survives a step that leaves the disk alone.
LEMMA DiskUntouched ==
    ASSUME IInv, UNCHANGED <<disk, orig>>
    PROVE  /\ NeverTorn' /\ CandidateMovedNotLost'
           /\ UNCHANGED renameSource => RenameInv'
<1>1. NeverTorn'
  BY DEF IInv, NeverTorn
<1>2. CandidateMovedNotLost'
  BY DEF IInv, CandidateMovedNotLost, Healthy
<1>3. UNCHANGED renameSource => RenameInv'
  BY DEF IInv, RenameInv
<1> QED
  BY <1>1, <1>2, <1>3

\* A process that exits with no temp files and claims success only of an
\* intact set keeps the invariant.
LEMMA ExitStep ==
    ASSUME IInv, NEW code \in ExitCodes, Exit(code),
           code = 0 => \A f \in Protected : Healthy(f),
           temp' = [f \in Protected |-> Absent],
           chunkIdx' \in Nat, faults' \in 0..MaxFaults,
           UNCHANGED <<disk, integrityVars, resolved, cancelled, idx, finish, synced,
                       volatile, repairErr, envVars>>
    PROVE  IInv'
<1> USE DEF integrityVars, envVars
<1>1. pc' = "exit" /\ exitCode' = code
  BY DEF Exit
<1>2. TypeOK'
  <2>1. temp' \in [Protected -> FileContent]
    BY DEF FileContent
  <2> QED
    BY <1>1, <2>1 DEF IInv, TypeOK
<1>3. GoodLocs(locs)' /\ volatile' = {}
  BY DEF IInv, GoodLocs
<1>4. DamageInv' /\ FinishInv' /\ InstallInv' /\ ExitInv'
  BY <1>1 DEF IInv, DamageInv, FinishInv, InstallInv, ExitInv, Healthy,
              VerifyPhases, RepairPhases
<1>5. SuccessMeansHealthy'
  BY <1>1 DEF SuccessMeansHealthy, Healthy
<1>6. NoTempLeft'
  BY DEF NoTempLeft, Rebuilt
<1> QED
  BY <1>2, <1>3, <1>4, <1>5, <1>6, DiskUntouched DEF IInv

\* In the phases before the rebuild there is no temp file.
LEMMA NoTempYet ==
    ASSUME IInv, pc \in VerifyPhases \cup {"dispatch", "rename", "plan"}
    PROVE  temp = [f \in Protected |-> Absent]
  BY DEF IInv, TypeOK, FinishInv

\* ShardCounts: when nothing is counted as damaged, every file is intact.
LEMMA NothingToRepair ==
    ASSUME IInv, pc \in RepairPhases \cup {"dispatch"}, ~RepairNeeded
    PROVE  \A f \in Protected : Healthy(f)
<1> SUFFICES ASSUME NEW f \in Protected PROVE Healthy(f)
  OBVIOUS
<1>1. renameSource[f] = "" /\ damage[f] \notin RebuildDamage
  BY DEF RepairNeeded, RenamesNeeded, FilesNeedingRebuild
<1>2. damage[f] \in Damage /\ damage[f] # "unchecked"
  BY DEF IInv, TypeOK, DamageInv
<1>3. damage[f] = "none"
  BY <1>1, <1>2 DEF Damage, RebuildDamage
<1> QED
  BY <1>3 DEF IInv, DamageInv

\* A verification that fails exits with status 4 and claims nothing.
LEMMA VerifyFailsStep ==
    ASSUME IInv, VerifyFails, UNCHANGED <<cancelled, pipelineVars, envVars>>
    PROVE  IInv'
<1>1. temp' = [f \in Protected |-> Absent]
  BY NoTempYet DEF VerifyFails, pipelineVars
<1>2. faults' \in 0..MaxFaults
  BY FaultType DEF IInv, TypeOK, VerifyFails
<1>3. 4 \in ExitCodes /\ 4 # 0
  BY DEF ExitCodes
<1>4. chunkIdx' \in Nat
  BY DEF IInv, TypeOK, pipelineVars
<1> QED
  BY <1>1, <1>2, <1>3, <1>4, ExitStep DEF VerifyFails, pipelineVars

\* verify reports success only when nothing is damaged, missing or misnamed.
LEMMA HandleVerifyCommandStep ==
    ASSUME IInv, HandleVerifyCommand
    PROVE  IInv'
<1> DEFINE code == IF ~RepairNeeded THEN 0 ELSE IF RepairPossible THEN 1 ELSE 2
<1>1. pc = "dispatch" /\ Exit(code)
  BY DEF HandleVerifyCommand
<1>2. UNCHANGED <<disk, integrityVars, resolved, cancelled, faults, pipelineVars, envVars>>
  BY DEF HandleVerifyCommand
<1>3. code \in ExitCodes
  BY DEF ExitCodes
<1>4. code = 0 => \A f \in Protected : Healthy(f)
  BY <1>1, NothingToRepair
<1>5. temp' = [f \in Protected |-> Absent]
  BY <1>1, <1>2, NoTempYet DEF pipelineVars
<1>6. chunkIdx' \in Nat /\ faults' \in 0..MaxFaults
  BY <1>2 DEF IInv, TypeOK, pipelineVars
<1> HIDE DEF code
<1> QED
  BY <1>1, <1>2, <1>3, <1>4, <1>5, <1>6, ExitStep DEF pipelineVars

\* Repair returns an error, with or without new temp files: the deferred close
\* is next.
LEMMA FailStep ==
    ASSUME IInv, Fail, pc \in RepairPhases,
           faults' \in 0..MaxFaults,
           temp' = temp \/ (pc = "chunk" /\ temp' \in [Protected -> FileContent]),
           UNCHANGED <<disk, integrityVars, resolved, exitCode, cancelled, idx, chunkIdx,
                       finish, synced, volatile, envVars>>
    PROVE  IInv'
<1> USE DEF integrityVars, envVars
<1>1. pc' = "close" /\ repairErr' = TRUE
  BY DEF Fail
<1>2. TypeOK'
  <2>1. temp' \in [Protected -> FileContent]
    BY DEF IInv, TypeOK
  <2> QED
    BY <1>1, <2>1 DEF IInv, TypeOK, RepairPhases
<1>3. GoodLocs(locs)' /\ volatile' = {}
  BY DEF IInv, GoodLocs
<1>4. DamageInv'
  BY <1>1 DEF IInv, DamageInv, Healthy, RepairPhases
<1>5. FinishInv'
  BY <1>1 DEF IInv, FinishInv, VerifyPhases
<1>6. InstallInv' /\ NoTempLeft'
  BY <1>1 DEF InstallInv, NoTempLeft
<1>7. ExitInv' /\ SuccessMeansHealthy'
  <2>1. exitCode = Running
    BY DEF IInv, ExitInv, RepairPhases
  <2> QED
    BY <2>1, RunningNotZero DEF ExitInv, SuccessMeansHealthy
<1> QED
  BY <1>2, <1>3, <1>4, <1>5, <1>6, <1>7, DiskUntouched DEF IInv

(***************************************************************************)
(* The repair                                                              *)
(***************************************************************************)

\* repair without need of it reports success of an intact set.
LEMMA HandleRepairCommandStep ==
    ASSUME IInv, HandleRepairCommand
    PROVE  IInv'
<1>1. /\ pc = "dispatch"
      /\ UNCHANGED <<disk, integrityVars, resolved, cancelled, faults, pipelineVars, envVars>>
  BY DEF HandleRepairCommand
<1>2. chunkIdx' \in Nat /\ faults' \in 0..MaxFaults /\ 0 \in ExitCodes /\ 2 \in ExitCodes
  BY <1>1 DEF IInv, TypeOK, pipelineVars, ExitCodes
<1>3. temp' = [f \in Protected |-> Absent]
  BY <1>1, NoTempYet DEF pipelineVars
<1>4. CASE ~RepairNeeded
  <2>1. Exit(0) /\ \A f \in Protected : Healthy(f)
    BY <1>1, <1>4, NothingToRepair DEF HandleRepairCommand
  <2> QED
    BY <1>1, <1>2, <1>3, <2>1, ExitStep DEF pipelineVars
<1>5. CASE RepairNeeded /\ ~RepairPossible
  <2>1. Exit(2)
    BY <1>5 DEF HandleRepairCommand
  <2> QED
    BY <1>1, <1>2, <1>3, <2>1, ExitStep DEF pipelineVars
<1>6. CASE RepairNeeded /\ RepairPossible
  <2> USE DEF integrityVars, envVars, pipelineVars
  <2>1. pc' = "rename" /\ UNCHANGED exitCode
    BY <1>6 DEF HandleRepairCommand
  <2>2. TypeOK'
    BY <1>1, <2>1 DEF IInv, TypeOK, RepairPhases
  <2>3. GoodLocs(locs)' /\ volatile' = {}
    BY <1>1 DEF IInv, GoodLocs
  <2>4. DamageInv'
    BY <1>1, <2>1 DEF IInv, DamageInv, Healthy, RepairPhases
  <2>5. FinishInv' /\ InstallInv' /\ NoTempLeft'
    BY <1>1, <2>1 DEF IInv, FinishInv, InstallInv, NoTempLeft
  <2>6. ExitInv' /\ SuccessMeansHealthy'
    BY <1>1, <2>1, RunningNotZero DEF IInv, ExitInv, SuccessMeansHealthy
  <2> QED
    BY <1>1, <2>2, <2>3, <2>4, <2>5, <2>6, DiskUntouched DEF IInv
<1> QED
  BY <1>4, <1>5, <1>6

\* A loop over protectedFiles stays inside it, or one past its end.
LEMMA NextIndex ==
    ASSUME NEW i \in DOMAIN protectedFiles
    PROVE  i + 1 \in 1..(Len(protectedFiles) + 1)
<1>1. Len(protectedFiles) \in Nat /\ DOMAIN protectedFiles = 1..Len(protectedFiles)
  BY ProtectedFacts
<1> QED
  BY <1>1

\* The part of a rename step that does not depend on what is renamed.
LEMMA RenameLoop ==
    ASSUME IInv, RenameMisnamedFiles, UNCHANGED <<cancelled, envVars>>,
           disk' \in [Names -> FileContent],
           damage' \in [Protected -> Damage],
           renameSource' \in [Protected -> candidateFiles \cup {""}],
           GoodLocs(locs'), volatile' = {}, faults' \in 0..MaxFaults,
           RenameInv', DamageInv', NeverTorn', CandidateMovedNotLost'
    PROVE  IInv'
<1> USE DEF envVars
<1>1. /\ pc = "rename" /\ pc' \in {"rename", "plan"}
      /\ idx \in DOMAIN protectedFiles /\ idx' = idx + 1
      /\ UNCHANGED <<resolved, exitCode, chunkIdx, temp, finish, synced, repairErr>>
  BY DEF RenameMisnamedFiles
<1>2. idx' \in 1..(Len(protectedFiles) + 1)
  BY <1>1, NextIndex
<1>3. TypeOK'
  BY <1>1, <1>2 DEF IInv, TypeOK, GoodLocs, RepairPhases
<1>4. GoodLocs(locs)'
  BY DEF GoodLocs
<1>5. FinishInv' /\ InstallInv' /\ NoTempLeft'
  BY <1>1 DEF IInv, FinishInv, InstallInv, NoTempLeft
<1>6. ExitInv' /\ SuccessMeansHealthy'
  BY <1>1, RunningNotZero DEF IInv, ExitInv, SuccessMeansHealthy
<1> QED
  BY <1>3, <1>4, <1>5, <1>6 DEF IInv

\* A rename moves an exact copy onto a damaged name; a failed one leaves the
\* damage recorded.
LEMMA RenameMisnamedFilesStep ==
    ASSUME NoProtectedCandidate, IInv, RenameMisnamedFiles, UNCHANGED <<cancelled, envVars>>
    PROVE  IInv'
<1> DEFINE f == protectedFiles[idx]
           c == renameSource[f]
<1>1. /\ pc = "rename" /\ pc' \in {"rename", "plan"} /\ f \in Protected
      /\ orig' = orig
  BY ProtectedFacts DEF RenameMisnamedFiles, envVars
<1>2. /\ disk \in [Names -> FileContent] /\ damage \in [Protected -> Damage]
      /\ renameSource \in [Protected -> candidateFiles \cup {""}]
      /\ GoodLocs(locs) /\ volatile = {} /\ faults \in 0..MaxFaults
      /\ RenameInv /\ DamageInv /\ NeverTorn /\ CandidateMovedNotLost
  BY DEF IInv, TypeOK
<1>3. CASE c = "" /\ UNCHANGED <<disk, integrityVars, volatile, faults>>
  <2>1. DamageInv'
    BY <1>1, <1>2, <1>3 DEF DamageInv, Healthy, integrityVars, RepairPhases
  <2> QED
    BY <1>2, <1>3, <2>1, DiskUntouched, RenameLoop, <1>1 DEF integrityVars
<1>4. CASE c # "" /\ RenameFile(f)
  <2>1. /\ c \in candidateFiles /\ c \in Names /\ c \notin Protected
        /\ f \in Names /\ c # f
    BY <1>1, <1>2, <1>4, ProtectedFacts, NamesAssumption DEF NoProtectedCandidate
  <2>2. disk[c] = Content[f]
    BY <1>1, <1>2, <1>4 DEF RenameInv, RenameFile
  <2>3. /\ disk' = [disk EXCEPT ![f] = disk[c], ![c] = Absent]
        /\ damage' = [damage EXCEPT ![f] = "none"]
        /\ renameSource' = [renameSource EXCEPT ![f] = ""]
        /\ locs' = RemapCandidate(c, f)
        /\ volatile' = volatile \ {f} /\ UNCHANGED faults
    BY <1>4 DEF RenameFile
  <2>4. /\ disk'[f] = Content[f] /\ disk'[c] = Absent
        /\ \A n \in Names \ {f, c} : disk'[n] = disk[n]
    BY <1>2, <2>1, <2>2, <2>3
  <2>5. /\ disk' \in [Names -> FileContent] /\ damage' \in [Protected -> Damage]
        /\ renameSource' \in [Protected -> candidateFiles \cup {""}]
        /\ volatile' = {} /\ faults' \in 0..MaxFaults
    BY <1>2, <2>1, <2>2, <2>3, ProtectedFacts DEF FileContent, Damage
  <2>6. GoodLocs(locs')
    BY <1>1, <1>2, <2>3, RemapGood
  <2>7. RenameInv'
    <3> SUFFICES ASSUME NEW g \in Protected, renameSource'[g] # ""
                 PROVE  disk'[renameSource'[g]] \in {Content[g], Absent}
      BY DEF RenameInv
    <3>1. g # f /\ renameSource'[g] = renameSource[g]
      BY <1>1, <1>2, <2>3
    <3>2. renameSource[g] \in candidateFiles /\ renameSource[g] # f
      BY <1>1, <1>2, <3>1 DEF NoProtectedCandidate
    <3>3. CASE renameSource[g] = c
      BY <2>4, <3>1, <3>3
    <3>4. CASE renameSource[g] # c
      BY <1>2, <2>4, <3>1, <3>2, <3>4, NamesAssumption DEF RenameInv
    <3> QED
      BY <3>3, <3>4
  <2>8. \A g \in Protected : disk'[g] = IF g = f THEN Content[f] ELSE disk[g]
    BY <2>1, <2>4, ProtectedFacts
  <2>9. DamageInv'
    BY <1>1, <1>2, <2>3, <2>8 DEF DamageInv, Healthy, RepairPhases, Damage
  <2>10. NeverTorn'
    BY <1>1, <1>2, <2>8 DEF NeverTorn
  <2>11. CandidateMovedNotLost'
    <3> SUFFICES ASSUME NEW e \in candidateFiles \ Protected
                 PROVE  \/ disk'[e] = orig[e]
                        \/ /\ disk'[e] = Absent
                           /\ \E g \in Protected : Healthy(g)' /\ disk'[g] = orig[e]
      BY <1>1 DEF CandidateMovedNotLost
    <3> HIDE DEF f, c
    <3>1. CASE e = c
      <4>1. disk[e] = orig[e] \/ disk[e] = Absent
        BY <1>2 DEF CandidateMovedNotLost
      <4>2. Content[f] # Absent
        BY <1>1, ProtectedFacts
      <4>3. disk'[f] = orig[e]
        BY <2>2, <2>4, <3>1, <4>1, <4>2
      <4> QED
        BY <1>1, <2>4, <3>1, <4>3 DEF Healthy
    <3>2. CASE e # c
      <4>1. disk'[e] = disk[e]
        BY <1>1, <2>4, <3>2, NamesAssumption
      <4>2. \A g \in Protected : Healthy(g) => Healthy(g)' /\ disk'[g] = disk[g]
        BY <2>8 DEF Healthy
      <4> QED
        BY <1>2, <4>1, <4>2 DEF CandidateMovedNotLost
    <3> QED
      BY <3>1, <3>2
  <2> QED
    BY <2>5, <2>6, <2>7, <2>9, <2>10, <2>11, RenameLoop
<1>5. CASE c # "" /\ RenameFails(f)
  <2>1. /\ renameSource' = [renameSource EXCEPT ![f] = ""]
        /\ UNCHANGED <<disk, damage, locs, volatile>>
    BY <1>5 DEF RenameFails
  <2>2. faults' \in 0..MaxFaults
    BY <1>2, <1>5, FaultType DEF RenameFails
  <2>3. renameSource' \in [Protected -> candidateFiles \cup {""}]
    BY <1>2, <2>1
  <2>4. RenameInv' /\ DamageInv'
    BY <1>1, <1>2, <2>1 DEF RenameInv, DamageInv, Healthy, RepairPhases
  <2> QED
    BY <1>1, <1>2, <2>1, <2>2, <2>3, <2>4, DiskUntouched, RenameLoop
<1> QED
  BY <1>3, <1>4, <1>5 DEF RenameMisnamedFiles

\* Repair returns early only when the renames left nothing to do or there is
\* not enough parity.
LEMMA PlanRepairStep ==
    ASSUME IInv, PlanRepair, UNCHANGED <<cancelled, envVars>>
    PROVE  IInv'
<1>1. /\ pc = "plan" /\ pc \in RepairPhases /\ chunkIdx' = 0
      /\ UNCHANGED <<disk, integrityVars, resolved, faults, idx, temp, finish,
                     synced, volatile, repairErr>>
  BY DEF PlanRepair, RepairPhases
<1>2. chunkIdx' \in Nat /\ faults' \in 0..MaxFaults /\ 0 \in ExitCodes /\ 2 \in ExitCodes
  BY <1>1 DEF IInv, TypeOK, ExitCodes
<1>3. temp' = [f \in Protected |-> Absent]
  BY <1>1, NoTempYet
<1>4. CASE ~RepairNeeded
  <2>1. Exit(0) /\ \A f \in Protected : Healthy(f)
    BY <1>1, <1>4, NothingToRepair DEF PlanRepair
  <2> QED
    BY <1>1, <1>2, <1>3, <2>1, ExitStep
<1>5. CASE RepairNeeded /\ (~RepairPossible \/ parityShards.short)
  <2>1. Exit(2)
    BY <1>5 DEF PlanRepair
  <2> QED
    BY <1>1, <1>2, <1>3, <2>1, ExitStep
<1>6. CASE RepairNeeded /\ ~(~RepairPossible \/ parityShards.short)
  <2> USE DEF integrityVars, envVars
  <2>1. pc' = "chunk" /\ UNCHANGED exitCode
    BY <1>6 DEF PlanRepair
  <2>2. TypeOK'
    BY <1>1, <1>2, <2>1 DEF IInv, TypeOK, RepairPhases
  <2>3. GoodLocs(locs)' /\ volatile' = {}
    BY <1>1 DEF IInv, GoodLocs
  <2>4. DamageInv'
    BY <1>1, <2>1 DEF IInv, DamageInv, Healthy, RepairPhases
  <2>5. FinishInv' /\ InstallInv' /\ NoTempLeft'
    BY <1>1, <2>1 DEF IInv, FinishInv, InstallInv, NoTempLeft, VerifyPhases
  <2>6. ExitInv' /\ SuccessMeansHealthy'
    BY <1>1, <2>1, RunningNotZero DEF IInv, ExitInv, SuccessMeansHealthy
  <2> QED
    BY <1>1, <2>2, <2>3, <2>4, <2>5, <2>6, DiskUntouched DEF IInv
<1> QED
  BY <1>4, <1>5, <1>6

\* A chunk writes temp files only.
LEMMA ExecuteChunkStep ==
    ASSUME IInv, ExecuteChunk, UNCHANGED <<cancelled, envVars>>
    PROVE  IInv'
<1> USE DEF integrityVars, envVars
<1>1. /\ pc = "chunk" /\ chunkIdx' = chunkIdx + 1
      /\ UNCHANGED <<disk, integrityVars, resolved, pc, exitCode, faults, idx,
                     finish, synced, volatile, repairErr>>
  BY DEF ExecuteChunk
<1>2. temp' \in [Protected -> FileContent]
  <2>1. PICK g \in Reconstructions :
           temp' = [f \in Protected |->
                      IF f \in NeedsWrite THEN WriteBlocks(f, g) ELSE temp[f]]
    BY DEF ExecuteChunk
  <2>2. TypeOK /\ GoodLocs(locs) /\ ~SourceMissing
    BY DEF IInv, ExecuteChunk
  <2>3. \A f \in Protected : WriteBlocks(f, g) \in FileContent
    BY <2>2, WriteBlocksType DEF FileContent
  <2>4. \A f \in Protected : temp[f] \in FileContent
    BY <2>2 DEF TypeOK
  <2> QED
    BY <2>1, <2>3, <2>4
<1>3. TypeOK'
  <2>1. chunkIdx \in Nat
    BY DEF IInv, TypeOK
  <2>2. chunkIdx' \in Nat
    BY <1>1, <2>1
  <2> QED
    BY <1>1, <1>2, <2>2 DEF IInv, TypeOK
<1>4. GoodLocs(locs)' /\ volatile' = {}
  BY <1>1 DEF IInv, GoodLocs
<1>5. DamageInv'
  BY <1>1 DEF IInv, DamageInv, Healthy
<1>6. FinishInv'
  BY <1>1 DEF IInv, FinishInv, VerifyPhases
<1>7. InstallInv' /\ NoTempLeft'
  BY <1>1 DEF InstallInv, NoTempLeft
<1>8. ExitInv' /\ SuccessMeansHealthy'
  BY <1>1, RunningNotZero DEF IInv, ExitInv, SuccessMeansHealthy
<1> QED
  BY <1>1, <1>3, <1>4, <1>5, <1>6, <1>7, <1>8, DiskUntouched DEF IInv

\* A chunk that fails makes the repair return an error.
LEMMA ExecuteChunkFailsStep ==
    ASSUME IInv, ExecuteChunkFails, UNCHANGED <<cancelled, envVars>>
    PROVE  IInv'
<1>1. faults' \in 0..MaxFaults
  BY FaultType DEF IInv, TypeOK, ExecuteChunkFails
<1> QED
  BY <1>1, FailStep DEF ExecuteChunkFails, RepairPhases

\* So does one whose writer fails, which leaves the temp files it created.
LEMMA WriteChunkFailsStep ==
    ASSUME IInv, WriteChunkFails, UNCHANGED <<cancelled, envVars>>
    PROVE  IInv'
<1>1. faults' \in 0..MaxFaults
  BY FaultType DEF IInv, TypeOK, WriteChunkFails
<1>2. temp' \in [Protected -> FileContent]
  <2>1. PICK g \in Reconstructions, i \in DOMAIN protectedFiles, created \in BOOLEAN :
           temp' = [f \in Protected |->
              LET j == CHOOSE k \in DOMAIN protectedFiles : protectedFiles[k] = f IN
              IF f \in NeedsWrite /\ j < i THEN WriteBlocks(f, g)
              ELSE IF j = i /\ created /\ temp[f] = Absent THEN <<>> ELSE temp[f]]
    BY DEF WriteChunkFails
  <2>2. TypeOK /\ GoodLocs(locs) /\ ~SourceMissing
    BY DEF IInv, WriteChunkFails
  <2>3. \A f \in Protected : WriteBlocks(f, g) \in FileContent
    BY <2>2, WriteBlocksType DEF FileContent
  <2>4. \A f \in Protected : temp[f] \in FileContent
    BY <2>2 DEF TypeOK
  <2>5. <<>> \in FileContent
    BY DEF FileContent
  <2> QED
    BY <2>1, <2>3, <2>4, <2>5
<1> QED
  BY <1>1, <1>2, FailStep DEF WriteChunkFails, RepairPhases

\* buildNeedsWrite leaves out no damaged file, so a file without a temp file at
\* the end of the chunks is intact.
LEMMA ChunksDoneStep ==
    ASSUME IInv, ChunksDone, UNCHANGED <<cancelled, envVars>>
    PROVE  IInv'
<1> USE DEF integrityVars, envVars
<1>1. /\ pc = "chunk" /\ pc \in RepairPhases
      /\ UNCHANGED <<disk, integrityVars, resolved, exitCode, faults, idx, chunkIdx,
                     temp, finish, synced, volatile>>
  BY DEF ChunksDone, RepairPhases
<1>2. CASE \E f \in NeedsWrite : temp[f] = Absent
  <2>1. Fail /\ faults' \in 0..MaxFaults
    BY <1>1, <1>2 DEF ChunksDone, IInv, TypeOK
  <2> QED
    BY <1>1, <2>1, FailStep
<1>3. CASE ~ \E f \in NeedsWrite : temp[f] = Absent
  <2>1. pc' = "finish" /\ UNCHANGED repairErr
    BY <1>3 DEF ChunksDone
  <2>2. TypeOK'
    BY <1>1, <2>1 DEF IInv, TypeOK, RepairPhases
  <2>3. GoodLocs(locs)' /\ volatile' = {}
    BY <1>1 DEF IInv, GoodLocs
  <2>4. DamageInv'
    BY <1>1, <2>1 DEF IInv, DamageInv, Healthy, RepairPhases
  <2>5. FinishInv' /\ NoTempLeft'
    BY <1>1, <2>1 DEF IInv, FinishInv, NoTempLeft, VerifyPhases
  <2>6. ASSUME NEW f \in Protected, temp[f] = Absent PROVE Healthy(f)
    <3>1. f \notin NeedsWrite
      BY <1>3, <2>6
    <3>2. damage[f] = "none"
      BY <1>1, <3>1 DEF IInv, TypeOK, DamageInv, NeedsWrite, Damage, RebuildDamage
    <3> QED
      BY <3>2 DEF IInv, DamageInv
  <2>7. InstallInv'
    BY <1>1, <2>1, <2>6 DEF InstallInv, Healthy
  <2>8. ExitInv' /\ SuccessMeansHealthy'
    BY <1>1, <2>1, RunningNotZero DEF IInv, ExitInv, SuccessMeansHealthy
  <2> QED
    BY <1>1, <2>2, <2>3, <2>4, <2>5, <2>7, <2>8, DiskUntouched DEF IInv
<1> QED
  BY <1>2, <1>3

(***************************************************************************)
(* The workers that finish the rebuilt files                               *)
(***************************************************************************)

\* What a worker's step on file f must still show.
LEMMA FinishWorker ==
    ASSUME IInv, NEW f \in Protected, NEW from, NEW to \in FinishStates,
           FinishStep(f, from, to), UNCHANGED <<cancelled, envVars>>,
           temp' \in [Protected -> FileContent], synced' \subseteq Protected,
           faults' \in 0..MaxFaults,
           \A g \in Protected : temp[g] # Absent => temp'[g] # Absent,
           \A g \in Protected \ {f} : temp'[g] = temp[g] /\ (g \in synced' <=> g \in synced),
           to = "truncate" => temp'[f] # Absent,
           to \in {"hash", "ok"} => f \in synced',
           to = "ok" => temp'[f] \in {Content[f], Absent}
    PROVE  IInv'
<1> USE DEF integrityVars, envVars
<1>1. /\ pc = "finish" /\ pc' = "finish"
      /\ finish' = [finish EXCEPT ![f] = to]
      /\ UNCHANGED <<disk, integrityVars, resolved, exitCode, idx, chunkIdx, volatile,
                     repairErr>>
  BY DEF FinishStep
<1>2. TypeOK'
  BY <1>1 DEF IInv, TypeOK
<1>3. GoodLocs(locs)' /\ volatile' = {}
  BY <1>1 DEF IInv, GoodLocs
<1>4. DamageInv'
  BY <1>1 DEF IInv, DamageInv, Healthy
<1>5. FinishInv'
  <2> SUFFICES ASSUME NEW g \in Protected
               PROVE  /\ finish'[g] = "truncate" => temp'[g] # Absent
                      /\ finish'[g] \in {"hash", "ok"} => g \in synced'
                      /\ finish'[g] = "ok" => temp'[g] \in {Content[g], Absent}
    BY <1>1 DEF FinishInv, VerifyPhases
  <2>1. finish \in [Protected -> FinishStates]
    BY DEF IInv, TypeOK
  <2>2. CASE g = f
    BY <1>1, <2>1, <2>2
  <2>3. CASE g # f
    BY <1>1, <2>1, <2>3 DEF IInv, FinishInv
  <2> QED
    BY <2>2, <2>3
<1>6. InstallInv' /\ NoTempLeft'
  BY <1>1 DEF IInv, InstallInv, NoTempLeft, Healthy
<1>7. ExitInv' /\ SuccessMeansHealthy'
  BY <1>1, RunningNotZero DEF IInv, ExitInv, SuccessMeansHealthy
<1> QED
  BY <1>1, <1>2, <1>3, <1>4, <1>5, <1>6, <1>7, DiskUntouched DEF IInv

\* A worker reaches "ok" only with a flushed temp file of the right content.
LEMMA FinishRebuiltFileStep ==
    ASSUME IInv, FinishRebuiltFile, UNCHANGED <<cancelled, envVars>>
    PROVE  IInv'
<1>1. PICK f \in Protected :
         \/ FinishStart(f) \/ FinishTruncate(f) \/ FinishSync(f)
         \/ FinishHash(f) \/ FinishFails(f)
  BY DEF FinishRebuiltFile
<1>2. /\ temp \in [Protected -> FileContent] /\ synced \subseteq Protected
      /\ faults \in 0..MaxFaults
  BY DEF IInv, TypeOK
<1>3. {"truncate", "sync", "hash", "ok", "err"} \subseteq FinishStates
  BY DEF FinishStates
<1>4. CASE FinishStart(f)
  <2>1. FinishStep(f, "idle", "truncate") /\ UNCHANGED <<temp, synced, faults>>
    BY <1>4 DEF FinishStart
  <2>2. temp'[f] # Absent
    BY <1>4, <2>1 DEF FinishStart, Rebuilt
  <2> QED
    BY <1>2, <1>3, <2>1, <2>2, FinishWorker
<1>5. CASE FinishTruncate(f)
  <2>1. /\ FinishStep(f, "truncate", "sync")
        /\ temp' = [temp EXCEPT ![f] = ReadAt(temp[f], 0, Len(Content[f]))]
        /\ synced' = synced \ {f} /\ UNCHANGED faults
    BY <1>5 DEF FinishTruncate
  <2>2. temp[f] \in Seq(Byte)
    BY <1>2, <2>1 DEF IInv, FinishInv, FinishStep, FileContent
  <2>3. ReadAt(temp[f], 0, Len(Content[f])) \in Seq(Byte)
    BY <2>2, ReadAtType, ProtectedFacts
  <2>4. temp' \in [Protected -> FileContent] /\ temp'[f] # Absent
    BY <1>2, <2>1, <2>3, ContentAssumption DEF FileContent
  <2>5. \A g \in Protected \ {f} : temp'[g] = temp[g] /\ (g \in synced' <=> g \in synced)
    BY <1>2, <2>1
  <2> QED
    BY <1>2, <1>3, <2>1, <2>4, <2>5, FinishWorker
<1>6. CASE FinishSync(f)
  <2>1. /\ FinishStep(f, "sync", "hash")
        /\ synced' = synced \cup {f} /\ UNCHANGED <<temp, faults>>
    BY <1>6 DEF FinishSync
  <2> QED
    BY <1>2, <1>3, <2>1, FinishWorker
<1>7. CASE FinishHash(f)
  <2> DEFINE to == IF temp[f] = Content[f] THEN "ok" ELSE "err"
  <2>1. FinishStep(f, "hash", to) /\ UNCHANGED <<temp, synced, faults>>
    BY <1>7 DEF FinishHash
  <2>2. f \in synced'
    BY <2>1 DEF IInv, FinishInv, FinishStep
  <2>3. /\ to \in FinishStates /\ to # "truncate"
        /\ to = "ok" => temp'[f] = Content[f]
    BY <1>3, <2>1
  <2> HIDE DEF to
  <2> QED
    BY <1>2, <2>1, <2>2, <2>3, FinishWorker
<1>8. CASE FinishFails(f)
  <2>1. FinishStep(f, finish[f], "err") /\ Fault /\ UNCHANGED <<temp, synced>>
    BY <1>8 DEF FinishFails
  <2>2. faults' \in 0..MaxFaults
    BY <1>2, <2>1, FaultType
  <2> QED
    BY <1>2, <1>3, <2>1, <2>2, FinishWorker
<1> QED
  BY <1>1, <1>4, <1>5, <1>6, <1>7, <1>8

\* Installation starts only when every worker has passed.
LEMMA FinishJoinStep ==
    ASSUME IInv, FinishJoin, UNCHANGED <<cancelled, envVars>>
    PROVE  IInv'
<1> USE DEF integrityVars, envVars
<1>1. /\ pc = "finish" /\ pc \in RepairPhases
      /\ UNCHANGED <<disk, integrityVars, resolved, exitCode, chunkIdx, temp, finish,
                     synced, volatile>>
  BY DEF FinishJoin, RepairPhases
<1>2. CASE Fail /\ UNCHANGED idx /\ faults' \in 0..MaxFaults
  BY <1>1, <1>2, FailStep
<1>3. CASE /\ \A f \in Rebuilt : finish[f] = "ok"
           /\ pc' = "install" /\ idx' = 1 /\ UNCHANGED <<repairErr, faults>>
  <2>1. idx' \in 1..(Len(protectedFiles) + 1)
    <3>1. Len(protectedFiles) \in Nat
      BY ProtectedFacts
    <3> QED
      BY <1>3, <3>1
  <2>2. TypeOK'
    BY <1>1, <1>3, <2>1 DEF IInv, TypeOK, RepairPhases
  <2>3. GoodLocs(locs)' /\ volatile' = {}
    BY <1>1 DEF IInv, GoodLocs
  <2>4. DamageInv'
    BY <1>1, <1>3 DEF IInv, DamageInv, Healthy, RepairPhases
  <2>5. FinishInv' /\ NoTempLeft'
    BY <1>1, <1>3 DEF IInv, FinishInv, NoTempLeft, VerifyPhases
  <2>6. InstallInv'
    <3>1. \A f \in Protected : temp[f] # Absent => finish[f] = "ok"
      BY <1>3 DEF Rebuilt
    <3>2. \A f \in Protected : temp[f] # Absent \/ Healthy(f)
      BY <1>1 DEF IInv, InstallInv
    <3>3. \A i \in DOMAIN protectedFiles : ~(i < 1)
      BY ProtectedFacts
    <3> QED
      BY <1>1, <1>3, <3>1, <3>2, <3>3 DEF InstallInv, Healthy
  <2>7. ExitInv' /\ SuccessMeansHealthy'
    BY <1>1, RunningNotZero DEF IInv, ExitInv, SuccessMeansHealthy
  <2> QED
    BY <1>1, <2>2, <2>3, <2>4, <2>5, <2>6, <2>7, DiskUntouched DEF IInv
<1> QED
  BY <1>2, <1>3, FaultType DEF FinishJoin, IInv, TypeOK

(***************************************************************************)
(* The installation                                                        *)
(***************************************************************************)

\* The barrier before install: a temp file that is still there is right.
LEMMA TempsReady ==
    ASSUME IInv, pc = "install", NEW f \in Protected, temp[f] # Absent
    PROVE  temp[f] = Content[f] /\ f \in synced
<1>1. finish[f] = "ok"
  BY DEF IInv, InstallInv
<1> QED
  BY <1>1 DEF IInv, FinishInv

\* Each rename of install replaces a file by its protected content.
LEMMA InstallStep ==
    ASSUME NoProtectedCandidate, IInv, Install, UNCHANGED <<cancelled, envVars>>
    PROVE  IInv'
<1>0. PICK f \in Protected : f = protectedFiles[idx]
  BY ProtectedFacts DEF Install
<1>1. /\ pc = "install" /\ idx \in DOMAIN protectedFiles
      /\ idx' = idx + 1
      /\ pc' = IF idx = Len(protectedFiles) THEN "close" ELSE "install"
      /\ UNCHANGED <<integrityVars, resolved, exitCode, faults, chunkIdx, finish,
                     synced, repairErr, cancelled, envVars>>
  BY DEF Install
<1>2. /\ disk \in [Names -> FileContent] /\ temp \in [Protected -> FileContent]
      /\ volatile = {} /\ f \in Names
  BY <1>1, ProtectedFacts DEF IInv, TypeOK
<1>3. /\ disk' = [disk EXCEPT ![f] = Content[f]]
      /\ temp' = [temp EXCEPT ![f] = Absent]
      /\ volatile' = {}
  <2>1. CASE f \in Rebuilt
    <3>1. temp[f] = Content[f] /\ f \in synced
      BY <1>1, <2>1, TempsReady DEF Rebuilt
    <3> QED
      BY <1>0, <1>2, <2>1, <3>1 DEF Install
  <2>2. CASE f \notin Rebuilt
    <3>1. temp[f] = Absent /\ disk[f] = Content[f]
      BY <1>1, <2>2 DEF IInv, InstallInv, Rebuilt, Healthy
    <3>2. UNCHANGED <<disk, temp, volatile>>
      BY <1>0, <2>2 DEF Install
    <3> QED
      BY <1>2, <3>1, <3>2
  <2> QED
    BY <2>1, <2>2
<1> USE DEF integrityVars, envVars
<1>4. TypeOK'
  <2>1. idx' \in 1..(Len(protectedFiles) + 1)
    BY <1>1, NextIndex
  <2>2. disk' \in [Names -> FileContent] /\ temp' \in [Protected -> FileContent]
    BY <1>1, <1>2, <1>3, ProtectedFacts DEF FileContent
  <2>3. pc' \in RepairPhases
    BY <1>1 DEF RepairPhases
  <2> QED
    BY <1>1, <1>3, <2>1, <2>2, <2>3 DEF IInv, TypeOK
<1>5. GoodLocs(locs)'
  BY <1>1 DEF IInv, GoodLocs
<1>6. /\ \A g \in Protected : Healthy(g) => Healthy(g)'
      /\ Healthy(f)'
      /\ \A c \in candidateFiles : disk'[c] = disk[c]
  <2>1. \A g \in Protected : disk'[g] = IF g = f THEN Content[f] ELSE disk[g]
    BY <1>2, <1>3, ProtectedFacts
  <2>2. \A c \in candidateFiles : disk'[c] = disk[c]
    BY <1>2, <1>3, NamesAssumption DEF NoProtectedCandidate
  <2> QED
    BY <2>1, <2>2 DEF Healthy
<1>7. RenameInv'
  <2>1. \A g \in Protected : renameSource[g] # "" => renameSource[g] \in candidateFiles
    BY DEF IInv, TypeOK
  <2> QED
    BY <1>1, <1>6, <2>1 DEF IInv, RenameInv
<1>8. DamageInv'
  BY <1>1, <1>6 DEF IInv, DamageInv, RepairPhases
<1>9. FinishInv'
  BY <1>1, <1>2, <1>3 DEF IInv, FinishInv, VerifyPhases
<1>10. InstallInv'
  <2>1. \A g \in Protected : temp'[g] # Absent => temp[g] # Absent /\ finish'[g] = "ok"
    BY <1>1, <1>2, <1>3 DEF IInv, InstallInv
  <2>2. \A g \in Protected : temp'[g] # Absent \/ Healthy(g)'
    <3>1. \A g \in Protected \ {f} : temp'[g] = temp[g]
      BY <1>2, <1>3
    <3>2. \A g \in Protected : temp[g] # Absent \/ Healthy(g)
      BY <1>1 DEF IInv, InstallInv
    <3> QED
      BY <1>6, <3>1, <3>2
  <2>3. \A i \in DOMAIN protectedFiles : i < idx' => Healthy(protectedFiles[i])'
    <3> SUFFICES ASSUME NEW i \in DOMAIN protectedFiles, i < idx'
                 PROVE  Healthy(protectedFiles[i])'
      OBVIOUS
    <3>1. i \in Int /\ idx \in Int
      BY <1>1, ProtectedFacts
    <3>2. CASE i < idx
      BY <1>1, <1>6, <3>2, ProtectedFacts DEF IInv, InstallInv
    <3>3. CASE i = idx
      BY <1>0, <1>6, <3>3
    <3> QED
      BY <1>1, <3>1, <3>2, <3>3
  <2>4. CASE pc' = "install"
    BY <2>1, <2>2, <2>3, <2>4 DEF InstallInv
  <2>5. CASE pc' = "close"
    <3>1. idx = Len(protectedFiles)
      BY <1>1, <2>5
    <3>2. \A i \in DOMAIN protectedFiles : i < idx'
      BY <1>1, <3>1, ProtectedFacts
    <3>3. \A g \in Protected : Healthy(g)'
      BY <2>3, <3>2 DEF Protected
    <3> QED
      BY <2>5, <3>3 DEF InstallInv
  <2> QED
    BY <1>1, <2>4, <2>5
<1>11. ExitInv' /\ SuccessMeansHealthy' /\ NoTempLeft'
  BY <1>1, RunningNotZero DEF IInv, ExitInv, SuccessMeansHealthy, NoTempLeft
<1>12. NeverTorn'
  BY <1>1, <1>2, <1>3, ProtectedFacts DEF IInv, NeverTorn
<1>13. CandidateMovedNotLost'
  <2>1. \A g \in Protected : Healthy(g) => disk'[g] = disk[g]
    BY <1>6 DEF Healthy
  <2> QED
    BY <1>1, <1>6, <2>1 DEF IInv, CandidateMovedNotLost
<1> QED
  BY <1>3, <1>4, <1>5, <1>7, <1>8, <1>9, <1>10, <1>11, <1>12, <1>13 DEF IInv

\* An installation that fails half-way makes the repair return an error.
LEMMA InstallFailsStep ==
    ASSUME IInv, InstallFails, UNCHANGED <<cancelled, envVars>>
    PROVE  IInv'
<1>1. faults' \in 0..MaxFaults
  BY FaultType DEF IInv, TypeOK, InstallFails
<1> QED
  BY <1>1, FailStep DEF InstallFails, RepairPhases

\* close removes what temp files are left before the process exits.
LEMMA CloseStep ==
    ASSUME IInv, Close, UNCHANGED <<cancelled, envVars>>
    PROVE  IInv'
<1> DEFINE code == IF repairErr THEN 2 ELSE 0
<1>1. /\ pc = "close" /\ Exit(code) /\ temp' = [f \in Protected |-> Absent]
      /\ UNCHANGED <<disk, integrityVars, resolved, faults, idx, chunkIdx, finish,
                     synced, volatile, repairErr>>
  BY DEF Close
<1>2. code \in ExitCodes /\ chunkIdx' \in Nat /\ faults' \in 0..MaxFaults
  BY <1>1 DEF IInv, TypeOK, ExitCodes
<1>3. code = 0 => \A f \in Protected : Healthy(f)
  BY <1>1 DEF IInv, InstallInv
<1> HIDE DEF code
<1> QED
  BY <1>1, <1>2, <1>3, ExitStep

(***************************************************************************)
(* The user and the machine                                                *)
(***************************************************************************)

\* An interrupt only cancels the context.
LEMMA InterruptStep ==
    ASSUME IInv, Interrupt
    PROVE  IInv'
<1> USE DEF integrityVars, envVars, pipelineVars
<1>1. /\ cancelled' = TRUE
      /\ UNCHANGED <<disk, integrityVars, resolved, pc, exitCode, faults,
                     pipelineVars, envVars>>
  BY DEF Interrupt
<1>2. TypeOK'
  BY <1>1 DEF IInv, TypeOK
<1>3. GoodLocs(locs)' /\ volatile' = {}
  BY <1>1 DEF IInv, GoodLocs
<1>4. DamageInv' /\ FinishInv'
  BY <1>1 DEF IInv, DamageInv, FinishInv, Healthy
<1>5. InstallInv'
  BY <1>1 DEF IInv, InstallInv, Healthy
<1>6. ExitInv' /\ SuccessMeansHealthy' /\ NoTempLeft'
  BY <1>1 DEF IInv, ExitInv, SuccessMeansHealthy, NoTempLeft, Rebuilt, Healthy
<1> QED
  BY <1>1, <1>2, <1>3, <1>4, <1>5, <1>6, DiskUntouched DEF IInv

\* No file is ever in place before it is flushed, so a crash changes no file.
LEMMA CrashStep ==
    ASSUME IInv, Crash
    PROVE  IInv' /\ UNCHANGED disk
<1> USE DEF integrityVars
<1>1. /\ crashes < MaxCrashes /\ crashes' = crashes + 1
      /\ volatile' = {} /\ pc' = "crashed" /\ exitCode' = Running
      /\ UNCHANGED <<integrityVars, resolved, cancelled, faults, idx, chunkIdx, temp,
                     finish, synced, repairErr, cmd, runs, orig, parityShards>>
  BY DEF Crash
<1>2. UNCHANGED disk
  BY DEF Crash, IInv, TypeOK
<1>3. TypeOK'
  <2>1. crashes \in 0..MaxCrashes
    BY DEF IInv, TypeOK
  <2>2. crashes' \in 0..MaxCrashes
    BY <1>1, <2>1, EngineAssumption
  <2> QED
    BY <1>1, <1>2, <2>2 DEF IInv, TypeOK
<1>4. GoodLocs(locs)'
  BY <1>1 DEF IInv, GoodLocs
<1>5. DamageInv' /\ FinishInv' /\ InstallInv' /\ NoTempLeft'
  BY <1>1, <1>2 DEF IInv, DamageInv, FinishInv, InstallInv, NoTempLeft, Healthy,
                    VerifyPhases, RepairPhases
<1>6. ExitInv' /\ SuccessMeansHealthy'
  BY <1>1, RunningNotZero DEF ExitInv, SuccessMeansHealthy
<1> QED
  BY <1>1, <1>2, <1>3, <1>4, <1>5, <1>6, DiskUntouched DEF IInv

\* A new run starts from the disk the last one left.
LEMMA RerunStep ==
    ASSUME IInv, Rerun
    PROVE  IInv'
<1>1. /\ runs' = runs + 1 /\ cmd' \in Commands
      /\ UNCHANGED <<disk, faults, volatile, crashes, orig, parityShards>>
  BY DEF Rerun
<1>2. /\ damage' = [f \in Protected |-> "unchecked"]
      /\ renameSource' = [f \in Protected |-> ""]
      /\ locs' = [b \in Blocks |-> NotFound] /\ resolved' = {}
      /\ pc' = "init" /\ exitCode' = Running /\ cancelled' = FALSE
  BY DEF Rerun, NewRun
<1>3. /\ idx' = 1 /\ chunkIdx' = 0
      /\ temp' = [f \in Protected |-> Absent] /\ finish' = [f \in Protected |-> "idle"]
      /\ synced' = {} /\ repairErr' = FALSE
  BY DEF Rerun, NewPipeline
<1>4. TypeOK'
  <2>1. /\ damage' \in [Protected -> Damage] /\ finish' \in [Protected -> FinishStates]
        /\ temp' \in [Protected -> FileContent]
        /\ renameSource' \in [Protected -> candidateFiles \cup {""}]
        /\ locs' \in [Blocks -> Location]
    BY <1>2, <1>3, NewRunFacts DEF Damage, FinishStates, FileContent
  <2>2. idx' \in 1..(Len(protectedFiles) + 1) /\ chunkIdx' \in Nat
    BY <1>3, ProtectedFacts
  <2>3. runs \in Nat
    BY DEF IInv, TypeOK
  <2>4. runs' \in Nat
    BY <1>1, <2>3
  <2>5. /\ pc' \in VerifyPhases /\ exitCode' \in ExitCodes \cup {Running}
        /\ cancelled' \in BOOLEAN /\ repairErr' \in BOOLEAN
        /\ resolved' \subseteq candidateFiles /\ synced' \subseteq Protected
    BY <1>2, <1>3 DEF VerifyPhases
  <2> QED
    BY <1>1, <2>1, <2>2, <2>4, <2>5 DEF IInv, TypeOK
<1>5. GoodLocs(locs)' /\ volatile' = {}
  BY <1>1, <1>2, NewRunFacts DEF IInv, GoodLocs
<1>6. RenameInv' /\ DamageInv' /\ FinishInv' /\ InstallInv' /\ ExitInv'
  BY <1>2, <1>3 DEF RenameInv, DamageInv, FinishInv, InstallInv, ExitInv, RepairPhases
<1>7. SuccessMeansHealthy'
  BY <1>2, RunningNotZero DEF SuccessMeansHealthy
<1>8. NoTempLeft'
  BY <1>2 DEF NoTempLeft
<1> QED
  BY <1>1, <1>4, <1>5, <1>6, <1>7, <1>8, DiskUntouched DEF IInv

\* A step that changes nothing keeps the invariant.
LEMMA StutterStep ==
    ASSUME IInv, UNCHANGED vars
    PROVE  IInv'
<1> USE DEF vars, integrityVars, envVars, pipelineVars
<1>1. TypeOK' /\ GoodLocs(locs)' /\ volatile' = {}
  BY DEF IInv, TypeOK, GoodLocs
<1>2. DamageInv' /\ FinishInv' /\ InstallInv'
  BY DEF IInv, DamageInv, FinishInv, InstallInv, Healthy
<1>3. ExitInv' /\ SuccessMeansHealthy' /\ NoTempLeft'
  BY DEF IInv, ExitInv, SuccessMeansHealthy, NoTempLeft, Rebuilt, Healthy
<1> QED
  BY <1>1, <1>2, <1>3, DiskUntouched DEF IInv

(***************************************************************************)
(* The invariant is inductive                                              *)
(***************************************************************************)
LEMMA VerifyNextStep ==
    ASSUME IInv, VerifyNext, UNCHANGED <<cancelled, pipelineVars, envVars>>
    PROVE  IInv'
<1>1. CASE InitFileIntegrity BY <1>1, InitFileIntegrityStep
<1>2. CASE CheckFileExistence BY <1>2, CheckFileExistenceStep
<1>3. CASE PrescanCandidateMatches BY <1>3, PrescanCandidateMatchesStep
<1>4. CASE PrescanProtectedMatches BY <1>4, PrescanProtectedMatchesStep
<1>5. CASE Scan BY <1>5, ScanStep
<1>6. CASE PostScanVerify BY <1>6, PostScanVerifyStep
<1>7. CASE VerifyFails BY <1>7, VerifyFailsStep
<1> QED
  BY <1>1, <1>2, <1>3, <1>4, <1>5, <1>6, <1>7 DEF VerifyNext

\* Every step of the repair keeps the invariant.
LEMMA RepairNextStep ==
    ASSUME NoProtectedCandidate, IInv, RepairNext, UNCHANGED <<cancelled, envVars>>
    PROVE  IInv'
<1>1. CASE RenameMisnamedFiles BY <1>1, RenameMisnamedFilesStep
<1>2. CASE PlanRepair BY <1>2, PlanRepairStep
<1>3. CASE ExecuteChunk BY <1>3, ExecuteChunkStep
<1>4. CASE ExecuteChunkFails BY <1>4, ExecuteChunkFailsStep
<1>11. CASE WriteChunkFails BY <1>11, WriteChunkFailsStep
<1>5. CASE ChunksDone BY <1>5, ChunksDoneStep
<1>6. CASE FinishRebuiltFile BY <1>6, FinishRebuiltFileStep
<1>7. CASE FinishJoin BY <1>7, FinishJoinStep
<1>8. CASE Install BY <1>8, InstallStep
<1>9. CASE InstallFails BY <1>9, InstallFailsStep
<1>10. CASE Close BY <1>10, CloseStep
<1> QED
  BY <1>1, <1>2, <1>3, <1>4, <1>5, <1>6, <1>7, <1>8, <1>9, <1>10, <1>11 DEF RepairNext

\* Every step of the program, the user and the machine keeps the invariant.
LEMMA NextStep ==
    ASSUME NoProtectedCandidate, IInv, [Next]_vars
    PROVE  IInv'
<1>1. CASE VerifyNext /\ UNCHANGED <<cancelled, pipelineVars, envVars>>
  BY <1>1, VerifyNextStep
<1>2. CASE HandleVerifyCommand BY <1>2, HandleVerifyCommandStep
<1>3. CASE HandleRepairCommand BY <1>3, HandleRepairCommandStep
<1>4. CASE RepairNext /\ UNCHANGED <<cancelled, envVars>> BY <1>4, RepairNextStep
<1>5. CASE Interrupt BY <1>5, InterruptStep
<1>6. CASE Crash BY <1>6, CrashStep
<1>7. CASE Rerun BY <1>7, RerunStep
<1>8. CASE Stopped BY <1>8, StutterStep DEF Stopped
<1>9. CASE UNCHANGED vars BY <1>9, StutterStep
<1> QED
  BY <1>1, <1>2, <1>3, <1>4, <1>5, <1>6, <1>7, <1>8, <1>9 DEF Next, ProgramNext

\* The invariant holds in every reachable state.
LEMMA Inductive ==
    ASSUME NoProtectedCandidate
    PROVE  Spec => []IInv
<1>1. Init => IInv
  BY InitInv
<1>2. IInv /\ [Next]_vars => IInv'
  BY NextStep
<1> QED
  BY <1>1, <1>2, PTL DEF Spec

(***************************************************************************)
(* Theorems                                                                *)
(***************************************************************************)

\* Every variable keeps its type: the prescans and the scan record only blocks,
\* candidates and files that exist, and the rebuild writes only cells.
THEOREM TypeCorrect ==
    ASSUME NoProtectedCandidate
    PROVE  Spec => []TypeOK
<1>1. IInv => TypeOK
  BY DEF IInv
<1> QED
  BY <1>1, Inductive, PTL

\* Exit status 0 (handleVerifyCommand, handleRepairCommand) means that every
\* protected file is intact, after any errors, interrupts, crashes and reruns.
THEOREM SuccessIsTrue ==
    ASSUME NoProtectedCandidate
    PROVE  Spec => []SuccessMeansHealthy
<1>1. IInv => SuccessMeansHealthy
  BY DEF IInv
<1> QED
  BY <1>1, Inductive, PTL

\* A protected name never holds anything but what it held at first or its
\* protected content, whatever crashes (finishRebuiltFile, install).
THEOREM NoTornFile ==
    ASSUME NoProtectedCandidate
    PROVE  Spec => []NeverTorn
<1>1. IInv => NeverTorn
  BY DEF IInv
<1> QED
  BY <1>1, Inductive, PTL

\* A candidate is renamed only to become the file it is a copy of
\* (renameMisnamedFiles), and no other step touches it.
THEOREM CandidatesSafe ==
    ASSUME NoProtectedCandidate
    PROVE  Spec => []CandidateMovedNotLost
<1>1. IInv => CandidateMovedNotLost
  BY DEF IInv
<1> QED
  BY <1>1, Inductive, PTL

\* Renames are planned only for files that are missing or wrong, from exact
\* copies (prescanCandidateMatches, verifyProtectedFilesHashes).
THEOREM RenamesSound ==
    ASSUME NoProtectedCandidate
    PROVE  Spec => []RenamePlanSound
<1>1. IInv => RenamePlanSound
  <2> SUFFICES ASSUME IInv, pc \in RepairPhases \cup {"dispatch"}, NEW f \in RenamesNeeded
               PROVE  /\ damage[f] \in RebuildDamage
                      /\ \/ disk[renameSource[f]] = Content[f]
                         \/ disk[renameSource[f]] = Absent
    BY DEF RenamePlanSound
  <2>1. f \in Protected /\ renameSource[f] # ""
    BY DEF RenamesNeeded
  <2> QED
    BY <2>1 DEF IInv, DamageInv, RenameInv
<1> QED
  BY <1>1, Inductive, PTL

\* Whatever way a run ends, its temp files are gone (repairPipeline.close).
THEOREM TempsRemoved ==
    ASSUME NoProtectedCandidate
    PROVE  Spec => []NoTempLeft
<1>1. IInv => NoTempLeft
  BY DEF IInv
<1> QED
  BY <1>1, Inductive, PTL

\* The barrier of finishRebuiltFiles: the first rename of install happens only
\* when every rebuilt file has passed its hash.
THEOREM VerifiedBeforeInstall ==
    ASSUME NoProtectedCandidate
    PROVE  Spec => AllVerifiedBeforeInstall
<1>1. IInv /\ [Next]_vars =>
         [(pc = "install" /\ disk' # disk) =>
             \A f \in Protected : Healthy(f) \/ temp[f] = Content[f]]_vars
  <2> SUFFICES ASSUME IInv, pc = "install", NEW f \in Protected
               PROVE  Healthy(f) \/ temp[f] = Content[f]
    OBVIOUS
  <2>1. CASE temp[f] = Absent
    BY <2>1 DEF IInv, InstallInv
  <2>2. CASE temp[f] # Absent
    BY <2>2, TempsReady
  <2> QED
    BY <2>1, <2>2
<1> QED
  BY <1>1, Inductive, PTL DEF Spec, AllVerifiedBeforeInstall

\* Only a rename of a misnamed file and an installation change the disk, and
\* both give a protected name its protected content.
LEMMA GoodStep ==
    ASSUME NoProtectedCandidate, IInv, [Next]_vars, NEW f \in Protected, Healthy(f)
    PROVE  Healthy(f)'
<1>1. CASE UNCHANGED disk
  BY <1>1 DEF Healthy
<1>2. CASE RenameMisnamedFiles
  <2>1. PICK g \in Protected : g = protectedFiles[idx]
    BY <1>2, ProtectedFacts DEF RenameMisnamedFiles
  <2>2. CASE UNCHANGED disk
    BY <2>2 DEF Healthy
  <2>3. CASE renameSource[g] # "" /\ RenameFile(g)
    <3>1. PICK c \in candidateFiles : c = renameSource[g]
      BY <2>3 DEF IInv, TypeOK
    <3>2. disk[c] = Content[g]
      BY <2>3, <3>1 DEF IInv, RenameInv, RenameFile
    <3>3. disk' = [disk EXCEPT ![g] = disk[c], ![c] = Absent]
      BY <2>3, <3>1 DEF RenameFile
    <3>4. f # c /\ f \in Names /\ disk \in [Names -> FileContent]
      BY ProtectedFacts DEF IInv, TypeOK, NoProtectedCandidate
    <3> QED
      BY <3>2, <3>3, <3>4 DEF Healthy
  <2> QED
    BY <1>2, <2>1, <2>2, <2>3 DEF RenameMisnamedFiles, RenameFails
<1>3. CASE Install
  <2>1. PICK g \in Protected : g = protectedFiles[idx]
    BY <1>3, ProtectedFacts DEF Install
  <2>2. CASE g \in Rebuilt
    <3>1. temp[g] = Content[g]
      BY <1>3, <2>2, TempsReady DEF Install, Rebuilt
    <3>2. disk' = [disk EXCEPT ![g] = Content[g]]
      BY <1>3, <2>1, <2>2, <3>1 DEF Install
    <3> QED
      BY <3>2, ProtectedFacts DEF IInv, TypeOK, Healthy
  <2>3. CASE g \notin Rebuilt
    BY <1>3, <2>1, <2>3 DEF Install, Healthy
  <2> QED
    BY <2>2, <2>3
<1>4. CASE Crash
  BY <1>4, <1>1, CrashStep
<1>5. CASE VerifyNext
  <2>1. UNCHANGED disk
    BY <1>5 DEF VerifyNext, InitFileIntegrity, CheckFileExistence, VerifyFails,
                PrescanCandidateMatches, PrescanProtectedMatches, Scan, PostScanVerify
  <2> QED
    BY <1>1, <2>1
<1>6. CASE RepairNext
  <2>1. UNCHANGED disk \/ RenameMisnamedFiles \/ Install
    BY <1>6 DEF RepairNext, PlanRepair, ExecuteChunk, ExecuteChunkFails, WriteChunkFails, ChunksDone,
                FinishRebuiltFile, FinishStart, FinishTruncate, FinishSync, FinishHash,
                FinishFails, FinishStep, FinishJoin, InstallFails, Close
  <2> QED
    BY <1>1, <1>2, <1>3, <2>1
<1>7. CASE HandleVerifyCommand \/ HandleRepairCommand \/ Interrupt \/ Rerun \/ UNCHANGED vars
  <2>1. UNCHANGED disk
    BY <1>7 DEF HandleVerifyCommand, HandleRepairCommand, Interrupt, Rerun, vars
  <2> QED
    BY <1>1, <2>1
<1> QED
  BY <1>4, <1>5, <1>6, <1>7 DEF Next, ProgramNext, Stopped

\* No step, a crash included, damages a protected file that is intact.
THEOREM IntactStaysIntact ==
    ASSUME NoProtectedCandidate
    PROVE  Spec => GoodStaysGood
<1>1. IInv /\ [Next]_vars => [\A f \in Protected : Healthy(f) => Healthy(f)']_vars
  BY GoodStep
<1> QED
  BY <1>1, Inductive, PTL DEF Spec, GoodStaysGood

=============================================================================
