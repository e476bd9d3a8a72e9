------------------------------- MODULE Engine -------------------------------
(***************************************************************************)
(* The program as a user runs it: runCLI verifies the set, then dispatches *)
(* the command; an interrupt cancels the context, a crash or power loss    *)
(* stops the process anywhere, and the user may run it again.              *)
(***************************************************************************)
EXTENDS Verify, Repair

CONSTANTS
    DiskStates,     \* for each name, the contents it may start with
    Commands,       \* subcommands the user may run
    MaxCrashes,     \* bound on crashes
    MaxRuns,        \* bound on runs of the program
    Interrupts      \* whether the user may interrupt the program

ASSUME EngineAssumption ==
    /\ DOMAIN DiskStates = Names
    /\ \A n \in Names : DiskStates[n] \subseteq FileContent
    /\ Commands \subseteq {"verify", "repair"}
    /\ MaxCrashes \in Nat
    /\ MaxRuns \in Nat
    /\ Interrupts \in BOOLEAN

VARIABLES
    cmd,            \* the subcommand of the current run
    runs,           \* runs started
    crashes,        \* crashes so far
    orig            \* history: the disk before the first run

envVars == <<cmd, runs, crashes, orig, parityShards>>

vars == <<disk, integrityVars, resolved, pc, exitCode, cancelled, faults,
          pipelineVars, envVars>>

\* A run starts: packets loaded, candidates registered, nothing verified yet.
NewRun(dam, ren, loc, res, at, code, cancel) ==
    /\ dam = [f \in Protected |-> "unchecked"]
    /\ ren = [f \in Protected |-> ""]
    /\ loc = [b \in Blocks |-> NotFound]
    /\ res = {}
    /\ at = "init"
    /\ code = Running
    /\ cancel = FALSE

NewPipeline(i, chunk, tmp, fin, syn, err) ==
    /\ i = 1
    /\ chunk = 0
    /\ tmp = [f \in Protected |-> Absent]
    /\ fin = [f \in Protected |-> "idle"]
    /\ syn = {}
    /\ err = FALSE

Init ==
    /\ disk \in {d \in [Names -> UNION {DiskStates[n] : n \in Names}] :
                    \A n \in Names : d[n] \in DiskStates[n]}
    /\ orig = disk
    /\ cmd \in Commands
    /\ parityShards \in ParityShards
    /\ faults = 0
    /\ runs = 1
    /\ crashes = 0
    /\ volatile = {}
    /\ NewRun(damage, renameSource, locs, resolved, pc, exitCode, cancelled)
    /\ NewPipeline(idx, chunkIdx, temp, finish, synced, repairErr)

(***************************************************************************)
(* runCLI after VerifyScans                                                *)
(***************************************************************************)

\* handleVerifyCommand
HandleVerifyCommand ==
    /\ pc = "dispatch" /\ cmd = "verify"
    /\ Exit(IF ~RepairNeeded THEN 0 ELSE IF RepairPossible THEN 1 ELSE 2)
    /\ UNCHANGED <<disk, integrityVars, resolved, cancelled, faults, pipelineVars,
                   envVars>>

\* handleRepairCommand, up to the call of Repair
HandleRepairCommand ==
    /\ pc = "dispatch" /\ cmd = "repair"
    /\ IF ~RepairNeeded THEN Exit(0)
       ELSE IF ~RepairPossible THEN Exit(2)
       ELSE pc' = "rename" /\ UNCHANGED exitCode
    /\ UNCHANGED <<disk, integrityVars, resolved, cancelled, faults, pipelineVars,
                   envVars>>

(***************************************************************************)
(* The user and the machine                                                *)
(***************************************************************************)

\* signal.NotifyContext: an interrupt cancels the context.
Interrupt ==
    /\ Interrupts
    /\ pc \notin {"exit", "crashed"} /\ ~cancelled
    /\ cancelled' = TRUE
    /\ UNCHANGED <<disk, integrityVars, resolved, pc, exitCode, faults,
                   pipelineVars, envVars>>

\* The process is killed or the machine loses power.  A file whose content
\* was not flushed before it was renamed into place comes back empty.
Crash ==
    /\ pc # "crashed" /\ crashes < MaxCrashes
    /\ crashes' = crashes + 1
    /\ disk' = [n \in Names |-> IF n \in volatile THEN <<>> ELSE disk[n]]
    /\ volatile' = {}
    /\ pc' = "crashed"
    /\ exitCode' = Running
    /\ UNCHANGED <<integrityVars, resolved, cancelled, faults, idx, chunkIdx, temp,
                   finish, synced, repairErr, cmd, runs, orig, parityShards>>

\* The user runs the program again.  Temp files a crash left behind have
\* random names and are never opened again.
Rerun ==
    /\ pc \in {"exit", "crashed"} /\ runs < MaxRuns
    /\ runs' = runs + 1
    /\ cmd' \in Commands
    /\ NewRun(damage', renameSource', locs', resolved', pc', exitCode', cancelled')
    /\ NewPipeline(idx', chunkIdx', temp', finish', synced', repairErr')
    /\ UNCHANGED <<disk, faults, volatile, crashes, orig, parityShards>>

Stopped == pc \in {"exit", "crashed"} /\ UNCHANGED vars

ProgramNext ==
    \/ VerifyNext /\ UNCHANGED <<cancelled, pipelineVars, envVars>>
    \/ HandleVerifyCommand \/ HandleRepairCommand
    \/ RepairNext /\ UNCHANGED <<cancelled, envVars>>

Next == ProgramNext \/ Interrupt \/ Crash \/ Rerun \/ Stopped

Spec == Init /\ [][Next]_vars

\* The program keeps running: the Go scheduler and the file system always let
\* its next step happen.  Nothing is assumed of the user or of crashes.
FairSpec == Spec /\ WF_vars(ProgramNext)

(***************************************************************************)
(* Properties                                                              *)
(***************************************************************************)

\* Every variable has its type.
TypeOK ==
    /\ disk \in [Names -> FileContent]
    /\ damage \in [Protected -> Damage]
    /\ renameSource \in [Protected -> candidateFiles \cup {""}]
    /\ locs \in [Blocks -> Location]
    /\ resolved \subseteq candidateFiles
    /\ parityShards \in ParityShards
    /\ pc \in VerifyPhases \cup {"dispatch", "exit", "crashed"} \cup RepairPhases
    /\ exitCode \in ExitCodes \cup {Running}
    /\ cancelled \in BOOLEAN
    /\ faults \in 0..MaxFaults
    /\ idx \in 1..(Len(protectedFiles) + 1)
    /\ chunkIdx \in Nat
    /\ temp \in [Protected -> FileContent]
    /\ finish \in [Protected -> FinishStates]
    /\ synced \subseteq Protected
    /\ volatile \subseteq Names
    /\ repairErr \in BOOLEAN
    /\ cmd \in Commands
    /\ runs \in Nat
    /\ crashes \in 0..MaxCrashes
    /\ orig \in [Names -> FileContent]

Healthy(f) == disk[f] = Content[f]

\* Exit status 0 means that every protected file is intact under its own name:
\* "All protected files are healthy and verified." (handleVerifyCommand) and
\* "All files verified." (handleRepairCommand), whatever errors, interrupts,
\* crashes and earlier runs came before.
SuccessMeansHealthy == exitCode = 0 => \A f \in Protected : Healthy(f)

\* A protected name holds, at every moment and after every crash, either what
\* it held before the first run or its protected content: a rebuilt file is
\* flushed and verified before it takes its name (finishRebuiltFile, install).
NeverTorn == \A f \in Protected : disk[f] \in {orig[f], Content[f]}

\* A protected file that is intact is never damaged, moved or emptied by any
\* later step, a crash included.
GoodStaysGood ==
    [][\A f \in Protected : Healthy(f) => Healthy(f)']_vars

\* A candidate that is no protected file either keeps its bytes or has become
\* the protected file it is an exact copy of (renameMisnamedFiles).
CandidateMovedNotLost ==
    \A c \in candidateFiles \ Protected :
        \/ disk[c] = orig[c]
        \/ /\ disk[c] = Absent
           /\ \E f \in Protected : Healthy(f) /\ disk[f] = orig[c]

\* "A hash mismatch installs nothing": when a file is replaced by its rebuilt
\* version, every file of the rebuild is either in place or ready and right.
AllVerifiedBeforeInstall ==
    [][(pc = "install" /\ disk' # disk) =>
          \A f \in Protected : Healthy(f) \/ temp[f] = Content[f]]_vars

\* A planned rename is only ever recorded for a file that is missing or wrong
\* under its own name, and its source is an exact copy unless an earlier rename
\* took it (fileIntegrityState.RenameSource).
RenamePlanSound ==
    pc \in RepairPhases \cup {"dispatch"} =>
        \A f \in RenamesNeeded :
            /\ damage[f] \in RebuildDamage
            /\ \/ disk[renameSource[f]] = Content[f]
               \/ disk[renameSource[f]] = Absent

(***************************************************************************)
(* What a verification could know of the blocks, read from the disk and    *)
(* not from the locations it recorded.                                     *)
(***************************************************************************)
PresentFiles ==
    {FileIDOf(f) : f \in {g \in Protected : disk[g] # Absent}}
    \cup {CandidateID(c) : c \in {n \in candidateFiles : disk[n] # Absent}}

\* Blocks that no file has, at any offset, and whose own file has no copy.
LostBlocks ==
    {b \in Blocks :
        /\ ~Healthy(b[1])
        /\ \A c \in candidateFiles : disk[c] # Content[b[1]]
        /\ Matches(disk, PresentFiles, b) = {}}

\* Files that are scanned in any case: not intact, and no candidate that is a
\* copy of a protected file.
ScannedFiles ==
    {FileIDOf(f) : f \in {g \in Protected : disk[g] # Absent /\ ~Healthy(g)}}
    \cup {CandidateID(c) : c \in {n \in candidateFiles \ Protected :
             disk[n] # Absent /\ \A f \in Protected : disk[n] # Content[f]}}

\* Blocks of a damaged file that lie at no multiple of the block size in any of
\* those: the others are always found.
UnsureBlocks ==
    {b \in Blocks :
        /\ ~Healthy(b[1])
        /\ \A loc \in Matches(disk, ScannedFiles, b) : ~OnGrid(loc.off)}

\* The exit status of verify is true of the disk.  1, "repair is possible", is
\* said only if the recovery blocks are at least as many as the blocks that no
\* file has.  Without I/O errors, 0 is said exactly if every file is intact, and
\* 2 only if the recovery blocks are fewer than the blocks that are not at a
\* multiple of the block size where the scan looks (handleVerifyCommand).
VerifyExitTruthful ==
    (pc = "exit" /\ cmd = "verify") =>
        /\ exitCode = 1 => parityShards.count >= Cardinality(LostBlocks)
        /\ (exitCode # 4 /\ faults = 0) =>
              /\ exitCode = 0 <=> \A f \in Protected : Healthy(f)
              /\ exitCode = 2 => parityShards.count < Cardinality(UnsureBlocks)

\* A process that exits leaves no temp file of its own behind, however the
\* repair ended (repairPipeline.close).
NoTempLeft == pc = "exit" => Rebuilt = {}

\* Every located block still reads, with repair's own reads, as the block that
\* the parity was computed from: "repair never overwrites bytes it may still
\* read" (repairPipeline).
LocatedBlocksReadable ==
    pc = "chunk" =>
        \A b \in Located :
            /\ disk[SourceName(b)] # Absent
            /\ \A k \in 1..sliceByteCount : ReadCell(b, k) = Block(b)[k]

\* Locations follow a renamed candidate, so that a rebuild never opens a path
\* that the renames emptied (renameMisnamedFiles).
SourcesExist == pc = "chunk" => ~SourceMissing

\* The recovery blocks are as good as ShardCounts takes them for: each has the
\* length of a block, and no rows of them are dependent.
SoundParity == ~parityShards.short /\ ~parityShards.dependent

\* Once the program has said that repair is possible and started it, the repair
\* ends in success, with three exceptions: an I/O error, an interrupt, and
\* recovery blocks that RepairPossible counts and the repair cannot use
\* (SoundParity), because one has a wrong length or because their rows in the
\* matrix are dependent.
PossibleMeansRepaired ==
    [][(/\ pc \in RepairPhases /\ pc' = "exit"
        /\ faults = 0 /\ ~cancelled /\ SoundParity) => exitCode' = 0]_vars

\* The same of any recovery blocks that can be loaded: "Repair is REQUIRED and
\* POSSIBLE." (handleVerifyCommand) counts them whatever their length.
CountedParitySuffices ==
    [][(/\ pc \in RepairPhases /\ pc' = "exit"
        /\ faults = 0 /\ ~cancelled) => exitCode' = 0]_vars

\* "a repair that returns an error, including on cancellation, leaves every
\* original untouched" (repairPipeline).
ErrorLeavesOriginals ==
    [][(pc = "close" /\ exitCode' = 2 /\ runs = 1) =>
          \A f \in Protected : disk[f] = orig[f]]_vars

\* A repair whose located blocks all read true, from recovery blocks whose rows
\* are independent, ends with every file intact, unless an I/O error, an
\* interrupt or a crash stops it.
SoundPlanRepairs ==
    (pc = "chunk" /\ chunkIdx = 0 /\ ~SourceMissing /\ SoundParity
        /\ \A b \in Located, k \in 1..sliceByteCount : ReadCell(b, k) = Block(b)[k])
    ~> (\/ exitCode = 0 /\ \A f \in Protected : Healthy(f)
        \/ faults > 0 \/ cancelled \/ pc = "crashed")

\* Every run ends.
Terminates == <>[](pc \in {"exit", "crashed"})

=============================================================================
