------------------------------- MODULE Decoder -------------------------------
(***************************************************************************)
(* The state of one run of the program that its phases share: the disk,    *)
(* Decoder.fileIntegrity split into three functions, the parity loaded,    *)
(* and the shard counts computed from them.                                *)
(***************************************************************************)
EXTENDS Par2Set

CONSTANTS
    MaxParity,      \* recovery blocks a set may have (a bound)
    MaxFaults       \* I/O errors a behaviour may have (a bound)

ASSUME BoundAssumption == MaxParity \in Nat /\ MaxFaults \in Nat

VARIABLES
    disk,           \* what each name in the sandbox holds
    damage,         \* fileIntegrityState.Damage
    renameSource,   \* fileIntegrityState.RenameSource, "" for none
    locs,           \* fileIntegrityState.ShardLocations
    resolved,       \* candidates the block scan skips (resolvedCandidates)
    parityShards,   \* the recovery blocks loaded (ParityShards)
    pc,             \* the phase the program is in
    exitCode,       \* the process's exit status once pc = "exit"
    cancelled,      \* the context was cancelled by an interrupt
    faults          \* I/O errors so far

integrityVars == <<damage, renameSource, locs>>

Damage == {"unchecked", "none", "missing", "wrongSize", "wrongHash"}

\* How many recovery blocks there are, whether one has a wrong length, and
\* whether some of their rows in the matrix are linearly dependent.
ParityShards ==
    {p \in [count : 0..MaxParity, short : BOOLEAN, dependent : BOOLEAN] :
        /\ p.short => p.count > 0
        /\ p.dependent => p.count > 1}

Running == -1

ExitCodes == {0, 1, 2, 4}

\* The damage recorded when fileIntegrityState.needsRebuild is true.
RebuildDamage == {"missing", "wrongSize", "wrongHash"}

(***************************************************************************)
(* I/O errors.  One step of the model reads several files; an error hits   *)
(* at most one of them, while the bound on errors lasts.                   *)
(***************************************************************************)
Fault == faults < MaxFaults /\ faults' = faults + 1

FaultSets(S) == {{}} \cup {{n} : n \in IF faults < MaxFaults THEN S ELSE {}}

Charge(bad) == faults' = IF bad = {} THEN faults ELSE faults + 1

(***************************************************************************)
(* ShardCounts                                                             *)
(***************************************************************************)
UnusableData == {b \in Blocks : locs[b].off = -1}

RenamesNeeded == {f \in Protected : renameSource[f] # ""}

\* Mutant: only missing files are counted.
FilesNeedingRebuildMissingOnly ==
    {f \in Protected : renameSource[f] = "" /\ damage[f] = "missing"}

FilesNeedingRebuild ==
    {f \in Protected : renameSource[f] = "" /\ damage[f] \in RebuildDamage}

RepairNeeded ==
    UnusableData # {} \/ RenamesNeeded # {} \/ FilesNeedingRebuild # {}

\* Mutant: as many recovery blocks as lost blocks are taken for too few.
RepairPossibleStrict == parityShards.count > Cardinality(UnusableData)

RepairPossible == parityShards.count >= Cardinality(UnusableData)

\* Every block of f lies at its own offset in file id.
AllShardsIn(f, id) ==
    \A b \in Blocks : b[1] = f => locs[b] = InPlaceIn(id, b)

\* Every block of a file in S is located at its own offset in home[f].
Relocate(S, home) ==
    [b \in Blocks |-> IF b[1] \in S THEN InPlaceIn(home[b[1]], b) ELSE locs[b]]

MinOf(a, b) == IF a <= b THEN a ELSE b

Exit(code) == pc' = "exit" /\ exitCode' = code

=============================================================================
