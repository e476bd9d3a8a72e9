------------------------------- MODULE Repair -------------------------------
(***************************************************************************)
(* Decoder.Repair: misnamed files are renamed, then every file that needs  *)
(* it is rebuilt in a temp file chunk by chunk, the temp files are         *)
(* finished by concurrent workers, and only when all of them pass their    *)
(* hash are they renamed over their targets, one after the other.          *)
(***************************************************************************)
EXTENDS Decoder

CONSTANTS
    memoryLimit,    \* DecoderOptions.MemoryLimit, in cells
    ChunkAlign,     \* alignment of a repair chunk (16 bytes in the code)
    numGoroutines   \* DecoderOptions.NumGoroutines

ASSUME RepairAssumption ==
    /\ memoryLimit \in Nat
    /\ ChunkAlign \in Nat \ {0}
    /\ numGoroutines \in Nat \ {0}

VARIABLES
    idx,            \* position in protectedFiles of the loop that runs
    chunkIdx,       \* chunks executed
    temp,           \* the temp file a protected file is rebuilt in
    finish,         \* where finishRebuiltFile is for each file
    synced,         \* temp files whose content has been flushed
    volatile,       \* names whose content would not survive a power loss
    repairErr       \* Repair is returning an error

pipelineVars == <<idx, chunkIdx, temp, finish, synced, volatile, repairErr>>

RepairPhases == {"rename", "plan", "chunk", "finish", "install", "close"}

FinishStates == {"idle", "truncate", "sync", "hash", "ok", "err"}

\* repairPipeline.close is deferred: every return with an error reaches it.
Fail == pc' = "close" /\ repairErr' = TRUE

(***************************************************************************)
(* renameMisnamedFiles                                                     *)
(***************************************************************************)

\* Mutant: the blocks of other files keep pointing at the candidate.
RemapCandidateOwnOnly(c, f) ==
    [b \in Blocks |-> IF b[1] = f THEN InPlaceIn(FileIDOf(f), b) ELSE locs[b]]

\* Locations inside the renamed candidate c follow it to its new name f, and
\* those of f itself are in place.
RemapCandidate(c, f) ==
    [b \in Blocks |->
        IF b[1] = f THEN InPlaceIn(FileIDOf(f), b)
        ELSE IF locs[b].id = CandidateID(c) /\ locs[b].off # -1
        THEN [locs[b] EXCEPT !.id = FileIDOf(f)]
        ELSE locs[b]]

RenameFile(f) ==
    LET c == renameSource[f] IN
    /\ disk[c] # Absent
    /\ disk' = [disk EXCEPT ![f] = disk[c], ![c] = Absent]
    /\ volatile' = volatile \ {f}
    /\ locs' = RemapCandidate(c, f)
    /\ damage' = [damage EXCEPT ![f] = "none"]
    /\ renameSource' = [renameSource EXCEPT ![f] = ""]
    /\ UNCHANGED faults

\* Mutant: a failed rename leaves the file marked as healthy.
RenameFailsMarksHealthy(f) ==
    /\ renameSource' = [renameSource EXCEPT ![f] = ""]
    /\ damage' = [damage EXCEPT ![f] = "none"]
    /\ locs' = RemapCandidate(renameSource[f], f)
    /\ IF disk[renameSource[f]] = Absent THEN UNCHANGED faults ELSE Fault
    /\ UNCHANGED <<disk, volatile>>

\* The directory cannot be made or the rename fails (for one, because an
\* earlier rename took the same source): the file is left to the rebuild.
RenameFails(f) ==
    /\ renameSource' = [renameSource EXCEPT ![f] = ""]
    /\ IF disk[renameSource[f]] = Absent THEN UNCHANGED faults ELSE Fault
    /\ UNCHANGED <<disk, damage, locs, volatile>>

RenameMisnamedFiles ==
    /\ pc = "rename"
    /\ idx \in DOMAIN protectedFiles
    /\ LET f == protectedFiles[idx] IN
          \/ /\ renameSource[f] = ""
             /\ UNCHANGED <<disk, integrityVars, volatile, faults>>
          \/ renameSource[f] # "" /\ RenameFile(f)
          \/ renameSource[f] # "" /\ RenameFails(f)
    /\ idx' = idx + 1
    /\ pc' = IF idx = Len(protectedFiles) THEN "plan" ELSE "rename"
    /\ UNCHANGED <<resolved, exitCode, chunkIdx, temp, finish, synced, repairErr>>

(***************************************************************************)
(* planRepair                                                              *)
(***************************************************************************)
MaxOf(a, b) == IF a >= b THEN a ELSE b

\* computeChunkSize
ChunkSize ==
    LET denom == Cardinality(Blocks) + Cardinality(UnusableData)
        size  == MinOf(memoryLimit \div denom, sliceByteCount)
    IN  MaxOf((size \div ChunkAlign) * ChunkAlign, ChunkAlign)

\* Mutant: the last, shorter chunk is not counted.
NumChunksRoundedDown == sliceByteCount \div ChunkSize

NumChunks == (sliceByteCount + ChunkSize - 1) \div ChunkSize

\* buildNeedsWrite
NeedsWrite ==
    {f \in Protected : \/ damage[f] \in RebuildDamage
                       \/ ~AllShardsIn(f, FileIDOf(f))}

\* Repair after the renames, up to the pipeline: done, refused, or planned.
PlanRepair ==
    /\ pc = "plan"
    /\ IF ~RepairNeeded THEN Exit(0)
       ELSE IF ~RepairPossible \/ parityShards.short THEN Exit(2)
       ELSE pc' = "chunk" /\ UNCHANGED exitCode
    /\ chunkIdx' = 0
    /\ UNCHANGED <<disk, integrityVars, resolved, faults, idx, temp, finish,
                   synced, volatile, repairErr>>

(***************************************************************************)
(* executeChunk                                                            *)
(***************************************************************************)
Located == {b \in Blocks : locs[b].off # -1}

\* Where the blocks are read from (buildFileIDToFilenameMap and getSource).
SourceName(b) == locs[b].id.name

SourceMissing == \E b \in Located : disk[SourceName(b)] = Absent

\* A cell of a located block as it is read now: zero only past the end of file.
ReadCell(b, k) == Cell(disk[SourceName(b)], locs[b].off + k)

\* The cells of a block that the current chunk covers; the last chunk is cut.
ChunkCells ==
    (chunkIdx * ChunkSize + 1)..MinOf((chunkIdx + 1) * ChunkSize, sliceByteCount)

\* Cells where a located block no longer reads as the block the parity was
\* computed from.
GarbledCells ==
    {k \in ChunkCells : \E b \in Located : ReadCell(b, k) # Block(b)[k]}

\* Coder.Reconstruct works cell by cell: it returns the true cell of a missing
\* block when all located blocks read true there, and some value otherwise.
Reconstructions == [UnusableData \X GarbledCells -> Byte]

ShardCell(b, k, g) ==
    IF b \in Located THEN ReadCell(b, k)
    ELSE IF k \in GarbledCells THEN g[<<b, k>>]
    ELSE Block(b)[k]

\* Mutant: blocks that were reconstructed are not written.
WriteBlocksLocatedOnly(f, g) ==
    LET old == IF temp[f] = Absent THEN <<>> ELSE temp[f]
        end == MinOf((chunkIdx + 1) * ChunkSize, sliceByteCount)
    IN  [p \in 1..((Shards(f) - 1) * sliceByteCount + end) |->
            LET b == <<f, (p - 1) \div sliceByteCount>>
                k == ((p - 1) % sliceByteCount) + 1
            IN  IF k \in ChunkCells /\ b \in Located
                THEN ShardCell(b, k, g) ELSE Cell(old, p)]

\* The temp file of f after the chunk's WriteAt of every block of f: holes
\* that no chunk has written yet read as zero.
WriteBlocks(f, g) ==
    LET old == IF temp[f] = Absent THEN <<>> ELSE temp[f]
        end == MinOf((chunkIdx + 1) * ChunkSize, sliceByteCount)
    IN  [p \in 1..((Shards(f) - 1) * sliceByteCount + end) |->
            LET b == <<f, (p - 1) \div sliceByteCount>>
                k == ((p - 1) % sliceByteCount) + 1
            IN  IF k \in ChunkCells THEN ShardCell(b, k, g) ELSE Cell(old, p)]

\* Mutant: the chunk loop does not advance.
ExecuteChunkForever ==
    /\ pc = "chunk" /\ chunkIdx < NumChunks
    /\ ~cancelled /\ ~SourceMissing
    /\ \E g \in Reconstructions :
          temp' = [f \in Protected |->
                      IF f \in NeedsWrite THEN WriteBlocks(f, g) ELSE temp[f]]
    /\ UNCHANGED <<disk, integrityVars, resolved, pc, exitCode, faults, idx,
                   chunkIdx, finish, synced, volatile, repairErr>>

ExecuteChunk ==
    /\ pc = "chunk" /\ chunkIdx < NumChunks
    /\ ~cancelled /\ ~SourceMissing
    /\ \E g \in Reconstructions :
          temp' = [f \in Protected |->
                      IF f \in NeedsWrite THEN WriteBlocks(f, g) ELSE temp[f]]
    /\ chunkIdx' = chunkIdx + 1
    /\ UNCHANGED <<disk, integrityVars, resolved, pc, exitCode, faults, idx,
                   finish, synced, volatile, repairErr>>

\* The matrix of the lost blocks may have no pivot.  Every chunk has the same
\* matrix, and no coefficient is zero: one lost block is always reconstructed.
MayBeSingular ==
    parityShards.dependent /\ chunkIdx = 0 /\ Cardinality(UnusableData) > 1

\* The chunk fails before its writer starts: the context is cancelled, a source
\* is gone, Reconstruct finds the matrix singular, or a source cannot be opened
\* or read.  (The coder itself is always built: the counts are within its limits.)
ExecuteChunkFails ==
    /\ pc = "chunk" /\ chunkIdx < NumChunks
    /\ \/ (cancelled \/ SourceMissing \/ MayBeSingular) /\ UNCHANGED faults
       \/ ~cancelled /\ ~SourceMissing /\ Fault
    /\ Fail
    /\ UNCHANGED <<disk, integrityVars, resolved, exitCode, idx, chunkIdx, temp,
                   finish, synced, volatile>>

\* A temp file cannot be created or written: the files before it have this
\* chunk's blocks, and its own temp file may exist by now.  How far the writes
\* to it got makes no difference, close removes it unread.
WriteChunkFails ==
    /\ pc = "chunk" /\ chunkIdx < NumChunks
    /\ ~cancelled /\ ~SourceMissing
    /\ Fault /\ Fail
    /\ \E g \in Reconstructions, i \in DOMAIN protectedFiles, created \in BOOLEAN :
          /\ protectedFiles[i] \in NeedsWrite
          /\ temp' = [f \in Protected |->
                LET j == CHOOSE k \in DOMAIN protectedFiles : protectedFiles[k] = f IN
                IF f \in NeedsWrite /\ j < i THEN WriteBlocks(f, g)
                ELSE IF j = i /\ created /\ temp[f] = Absent THEN <<>> ELSE temp[f]]
    /\ UNCHANGED <<disk, integrityVars, resolved, exitCode, idx, chunkIdx, finish,
                   synced, volatile>>

\* install: every file marked for writing must have a temp file.
ChunksDone ==
    /\ pc = "chunk" /\ chunkIdx = NumChunks
    /\ IF \E f \in NeedsWrite : temp[f] = Absent
       THEN Fail
       ELSE pc' = "finish" /\ UNCHANGED repairErr
    /\ UNCHANGED <<disk, integrityVars, resolved, exitCode, faults, idx, chunkIdx,
                   temp, finish, synced, volatile>>

(***************************************************************************)
(* finishRebuiltFiles: one worker per rebuilt file, started in order, at   *)
(* most numGoroutines at a time.                                           *)
(***************************************************************************)
Rebuilt == {f \in Protected : temp[f] # Absent}

Active == {f \in Protected : finish[f] \in {"truncate", "sync", "hash"}}

\* f's turn: every rebuilt file before it has been started.
Turn(f) ==
    \A i, j \in DOMAIN protectedFiles :
        (i < j /\ protectedFiles[j] = f /\ protectedFiles[i] \in Rebuilt)
            => finish[protectedFiles[i]] # "idle"

FinishStep(f, from, to) ==
    /\ pc = "finish"
    /\ finish[f] = from
    /\ finish' = [finish EXCEPT ![f] = to]
    /\ UNCHANGED <<disk, integrityVars, resolved, pc, exitCode, idx, chunkIdx,
                   volatile, repairErr>>

FinishStart(f) ==
    /\ f \in Rebuilt /\ Turn(f)
    /\ Cardinality(Active) < numGoroutines
    /\ FinishStep(f, "idle", "truncate")
    /\ UNCHANGED <<temp, synced, faults>>

\* Mutant: the hash follows the truncation, the flush is left out.
FinishTruncateNoSync(f) ==
    /\ FinishStep(f, "truncate", "hash")
    /\ temp' = [temp EXCEPT ![f] = ReadAt(temp[f], 0, Len(Content[f]))]
    /\ synced' = synced \ {f}
    /\ UNCHANGED faults

FinishTruncate(f) ==
    /\ FinishStep(f, "truncate", "sync")
    /\ temp' = [temp EXCEPT ![f] = ReadAt(temp[f], 0, Len(Content[f]))]
    /\ synced' = synced \ {f}
    /\ UNCHANGED faults

\* Mutant: the flush is a no-op.
FinishSyncNothing(f) ==
    /\ FinishStep(f, "sync", "hash")
    /\ UNCHANGED <<temp, synced, faults>>

FinishSync(f) ==
    /\ FinishStep(f, "sync", "hash")
    /\ synced' = synced \cup {f}
    /\ UNCHANGED <<temp, faults>>

\* Mutant: the hash is not compared.
FinishHashUnchecked(f) ==
    /\ FinishStep(f, "hash", "ok")
    /\ UNCHANGED <<temp, synced, faults>>

FinishHash(f) ==
    /\ FinishStep(f, "hash", IF temp[f] = Content[f] THEN "ok" ELSE "err")
    /\ UNCHANGED <<temp, synced, faults>>

\* Truncate, Sync or the read for the hash fails.
FinishFails(f) ==
    /\ f \in Active
    /\ FinishStep(f, finish[f], "err")
    /\ Fault
    /\ UNCHANGED <<temp, synced>>

FinishRebuiltFile ==
    \E f \in Protected :
        \/ FinishStart(f) \/ FinishTruncate(f) \/ FinishSync(f)
        \/ FinishHash(f) \/ FinishFails(f)

\* Mutant: one file that passed is enough.
FinishJoinAnyOk ==
    /\ pc = "finish"
    /\ \A f \in Rebuilt : finish[f] \in {"ok", "err"}
    /\ IF \E f \in Rebuilt : finish[f] = "ok"
       THEN pc' = "install" /\ idx' = 1 /\ UNCHANGED repairErr
       ELSE Fail /\ UNCHANGED idx
    /\ UNCHANGED <<disk, integrityVars, resolved, exitCode, faults, chunkIdx, temp,
                   finish, synced, volatile>>

\* wg.Wait and errors.Join; then the handles are closed, which may fail.
FinishJoin ==
    /\ pc = "finish"
    /\ \A f \in Rebuilt : finish[f] \in {"ok", "err"}
    /\ \/ /\ \A f \in Rebuilt : finish[f] = "ok"
          /\ pc' = "install" /\ idx' = 1
          /\ UNCHANGED <<repairErr, faults>>
       \/ /\ \E f \in Rebuilt : finish[f] = "err"
          /\ Fail /\ UNCHANGED <<idx, faults>>
       \/ /\ \A f \in Rebuilt : finish[f] = "ok"
          /\ Fail /\ Fault /\ UNCHANGED idx
    /\ UNCHANGED <<disk, integrityVars, resolved, exitCode, chunkIdx, temp, finish,
                   synced, volatile>>

(***************************************************************************)
(* install: the renames, and close                                         *)
(***************************************************************************)

\* Rename of a temp file over its target, or nothing for a file not rebuilt.
Install ==
    /\ pc = "install"
    /\ idx \in DOMAIN protectedFiles
    /\ LET f == protectedFiles[idx] IN
       IF f \in Rebuilt
       THEN /\ disk' = [disk EXCEPT ![f] = temp[f]]
            /\ temp' = [temp EXCEPT ![f] = Absent]
            /\ volatile' = IF f \in synced THEN volatile \ {f} ELSE volatile \cup {f}
       ELSE UNCHANGED <<disk, temp, volatile>>
    /\ idx' = idx + 1
    /\ pc' = IF idx = Len(protectedFiles) THEN "close" ELSE "install"
    /\ UNCHANGED <<integrityVars, resolved, exitCode, faults, chunkIdx, finish,
                   synced, repairErr>>

\* Mutant: the error of a failed rename is dropped.
InstallFailsSilently ==
    /\ pc = "install"
    /\ idx \in DOMAIN protectedFiles
    /\ protectedFiles[idx] \in Rebuilt
    /\ pc' = "close" /\ Fault
    /\ UNCHANGED <<disk, integrityVars, resolved, exitCode, idx, chunkIdx, temp,
                   finish, synced, volatile, repairErr>>

\* Stat, Chmod or Rename fails; the files before it stay replaced.
InstallFails ==
    /\ pc = "install"
    /\ idx \in DOMAIN protectedFiles
    /\ protectedFiles[idx] \in Rebuilt
    /\ Fail /\ Fault
    /\ UNCHANGED <<disk, integrityVars, resolved, exitCode, idx, chunkIdx, temp,
                   finish, synced, volatile>>

\* Mutant: an error returns before the temp files are removed.
CloseKeepsTemps ==
    /\ pc = "close"
    /\ temp' = IF repairErr THEN temp ELSE [f \in Protected |-> Absent]
    /\ Exit(IF repairErr THEN 2 ELSE 0)
    /\ UNCHANGED <<disk, integrityVars, resolved, faults, idx, chunkIdx, finish,
                   synced, volatile, repairErr>>

\* Mutant: a failed repair exits with the status of a bad command line.
CloseBadStatus ==
    /\ pc = "close"
    /\ temp' = [f \in Protected |-> Absent]
    /\ Exit(IF repairErr THEN 3 ELSE 0)
    /\ UNCHANGED <<disk, integrityVars, resolved, faults, idx, chunkIdx, finish,
                   synced, volatile, repairErr>>

\* repairPipeline.close removes the temp files left; handleRepairCommand exits.
Close ==
    /\ pc = "close"
    /\ temp' = [f \in Protected |-> Absent]
    /\ Exit(IF repairErr THEN 2 ELSE 0)
    /\ UNCHANGED <<disk, integrityVars, resolved, faults, idx, chunkIdx, finish,
                   synced, volatile, repairErr>>

RepairNext ==
    \/ RenameMisnamedFiles \/ PlanRepair
    \/ ExecuteChunk \/ ExecuteChunkFails \/ WriteChunkFails \/ ChunksDone
    \/ FinishRebuiltFile \/ FinishJoin
    \/ Install \/ InstallFails \/ Close

=============================================================================
