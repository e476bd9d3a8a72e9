# A TLA+ model of par2engine

par2engine verifies a directory against a PAR2 recovery set and repairs it: it
loads the set from its `.par2` files, finds the blocks of the protected files
wherever they are on disk, renames misnamed files, rebuilds damaged ones with
Reed-Solomon and replaces them only after their hash is right.  This directory
models that engine from the packets to the field arithmetic, checks it with TLC
on small sets and proves its main safety properties with TLAPS.

Paths below are relative to the repository (`src/`).

## 1. The system

| Component | State it keeps | Operations | Interacts with | Model |
|---|---|---|---|---|
| Packet format, `par2/packet.go` | none | parse packets, clean file names, order FileIDs | set loading | `Packet` |
| Set loading, `par2/decoder.go` | `recoverySetID`, `sliceByteCount`, `protectedFiles`, `fileChecksums`, `parityShards` | `NewDecoder`, `loadIndexFile`, `loadVolumeFiles`, `streamPAR2Packets`, `handlePacket` | fills the Decoder | `SetLoader` |
| Verification, `par2/scan.go` | `fileIntegrity`: damage, rename source and block locations per file | `VerifyScans` and its phases | block scan, disk | `Verify` |
| Block scan, `par2/scan.go` | semaphore, `matchChan`, `reported` flags, claimed grid blocks per chunk | `scan`, `scanFileChunks`, `scanChunk`, `claimGrid`, `matchBlock`, `scanLastPartialBlock` | goroutines share the channel, the flags and `d.mu` | `BlockScan`, contract in `ScanContract` and `ScanSpec` |
| CRC table and window, `par2/crc_table.go`, `checksummer.go` | table | `newCRC32Window`, `update`, `newCRCLookupTable`, `Lookup` | block scan | `Checksum` |
| Progress, `par2/scan.go`, `cmd/gopar/main.go` | a bounded channel | `scanProgress.add`, `newProgressReporter` | workers send while they hold the semaphore | `BlockScan` |
| Repair, `par2/repair.go` | plan, temp files, open handles | `renameMisnamedFiles`, `planRepair`, `executeChunk`, `finishRebuiltFiles`, `install`, `close` | disk, coder | `Repair`, sizes in `WorkSplit` |
| Shard counts, `par2/decoder.go` | none | `RepairNeeded`, `RepairPossible` | verification to command line and repair | `Decoder` |
| Reed-Solomon, `rs/` | matrices, output buffers | `Reconstruct` | repair calls it once per chunk; its goroutines share the buffers | `Coder`, `Matrix`, `WorkSplit` |
| GF(2^16), `gf16/` | tables | slice kernels and scalar operations | coder | `GF16` |
| Command line, `cmd/gopar/main.go` | exit code, context | `runCLI`, `handleVerifyCommand`, `handleRepairCommand`, interrupt | all of the above | `Engine` |
| Test-data generator, `cmd/genperf` | none | | | not modelled |

What is hard here, and what makes each part correct:

* *Set loading.*  Packets arrive in any order, repeated, corrupt, or of another
  set; volumes arrive in directory order; the index may be a volume or empty.
  Only the set's own blocks may be kept, a damaged volume must cost nothing but
  what follows its damage, and `protectedFiles` must be the Main packet's files in
  its order, because they decide the rows of the matrix.
* *Block scan.*  Chunk workers, two bounded channels, a collector and a reporter
  run concurrently, with a flag that lets workers skip windows.  No block may be
  lost between flag and location; a window at a chunk boundary is looked at
  once; the rolled CRC is that of the window after any jump; a jump may hide only
  what the code's own rule (#41, #44) accepts; an error or a cancellation never
  passes for a result; the scan ends.
* *Verification.*  Five phases write the same integrity record, any read may
  fail, and quick keys collide.  A file is declared good only if it is, a rename
  is planned only from an exact copy, and "possible" or not is said from a count of
  lost blocks that the disk bears out.
* *Repair.*  It moves and replaces the very files it reads from, in the presence
  of I/O errors, interrupts and power loss.  No protected name ever holds
  anything but its original or its true content; nothing is installed before
  everything is verified; no candidate is lost; no temp file stays behind.
* *Coder.*  Goroutines that see a cancellation silently leave rows undone; work
  is cut by memory limit, goroutine and vector width.  A call without error
  restored the true bytes on every processor; an error has its reason.
* *Program.*  Exit status 0 must mean that every file is intact, after any
  history of errors, crashes and reruns.

`PROJECT.json` lists the hazards with the line where each one bites.

## 2. Modules

```
Par2Set            the set and the disk: contents, blocks, locations (constants)
├── ScanContract   what a scan may find and what it may overlook
│   ├── ScanSpec   the scan as an abstract two-state machine
│   └── BlockScan  the concurrent scan; EXTENDS Checksum, implements ScanSpec ── MCBlockScan
│       BlockScanProofs theorems about BlockScan, the refinement among them
├── Checksum       rolling CRC and open-addressing table
│   ChecksumProofs theorems about both
└── Decoder        shared state of one run, shard counts, I/O errors
    ├── Verify     VerifyScans, phase by phase (uses ScanContract)
    └── Repair     Repair, from the renames to close
        Engine     EXTENDS Verify, Repair: command, interrupt, crash, rerun ── MCEngine
        EngineProofs   theorems about Engine
        RepairProofs   more of them: verify's exit status, and what a repair reads back

Packet             what the parsers accept
└── SetLoader      NewDecoder, packet by packet                             ── MCSetLoader
    SetLoaderProofs    theorems about SetLoader

GF16               field, scalar and vector kernels, dispatch
└── Matrix         Vandermonde matrix and row operations
    MatrixProofs       the field, the kernels, and what row operations keep
WorkSplit          chunks of a block, ranges of a chunk
└── Coder          Reconstruct; EXTENDS Matrix, WorkSplit                   ── MCCoder
    CoderProofs        theorems about WorkSplit and Coder

Induction          least numbers, recursive functions, induction over sets
```

**Data.**  In the scan and the engine a file is a sequence of cells, a block is
`sliceByteCount` cells, the last block of a file is padded with zeros.  MD5
comparisons are comparisons of contents.  A path given both as protected file and
as candidate has two `FileID`s, as in the code.  Absence of a file is the model
value `Absent`.  Widths are parameters: `Checksum` has bytes of `ByteBits` bits
and a CRC of `CrcBytes` bytes, `GF16` elements of `Width` bits in two bytes.  In
`Checksum` a byte or a CRC is the set of its one-bits (`BitsOf` gives that of a
byte, `NumberOf` the number a CRC is), so that `^`, `>>` and `byte(t)` are a
symmetric difference, a shift and an intersection.  `GF16` does the same with
elements, bytes and nibbles; the polynomial is the set of its exponents.

**SetLoader and Packet.**  A directory maps names (sequences of tokens, so that
prefixes and tags mean what they mean in the code) to sequences of packets.  A
packet is a record with its set ID, a body, and a flag for everything that makes
it unreadable (no magic, illegal length, over the limit, cut short, wrong hash);
`framed` stands for the length checks of the body.  One action handles one packet:
`HandlePacket`, `SkipPacket` (another set, or a type a volume does not need),
`PacketFails`; others open a file, pass over an entry, end a stream, or meet an
error or a cancellation.  File names are cleaned component by component, with the
ASCII conversion, before they are accepted.  `IndexDone` includes the sort,
as a permutation that puts no file after one with a larger ID.

**Verify.**  One action per phase of `VerifyScans`: `InitFileIntegrity`,
`CheckFileExistence`, `PrescanCandidateMatches` (candidates in any order, because
they are kept in a map), `PrescanProtectedMatches`, `Scan`, `PostScanVerify`, and
`VerifyFails` for every return with an error.  A phase is one step because no
phase writes to the disk and no other goroutine of the program runs meanwhile,
except inside `Scan`, which is the subject of `BlockScan`.  Within a phase at
most one file is unreadable.

**ScanContract, Checksum and BlockScan.**  The contract says where a block may be
located after a scan: at a true match, or nowhere if each of its matches lies off
the block grid and is either inside a claimed grid block or explained by a jump;
no block explains two jumps.  `Verify!Scan` takes any outcome the contract allows.
`BlockScan` has one worker per chunk (and one, of index -1, for the last partial
block of each file), with the semaphore, the grid pass, the slide, the
compare-and-swap on the flag, the send and the progress update as separate steps,
the collector, the reporter of the command line program, the closing of the
channel, read errors and cancellation, which a slide notices only at its periodic
checks.  Every worker carries the CRC it has rolled, and looks it up in a table
that was filled in any order, as a Go map gives.  TLC checks on every
interleaving of the instance that it implements `ScanSpec`, and the safety part is
proved for all of them.  The size check of `scanFile`, which touches
only the damage field, is part of `Verify!Scan`.

**Repair.**  `RenameMisnamedFiles` is one rename per step, in `protectedFiles`
order.  `PlanRepair` is everything up to the pipeline, `ExecuteChunk` one chunk
(read, reconstruct, write every block of every rebuilt file).  `ExecuteChunkFails`
is a chunk that fails before it writes (cancelled, a source that is gone or cannot
be read, a singular matrix), `WriteChunkFails` one that fails at some file, with the
chunk written to the files before it and perhaps a new, empty or partly written temp
file of its own.  A located block is
read as `executeChunk` reads it, now and from disk; `Coder.Reconstruct` returns
the true cell of a missing block where all located blocks read true and an
arbitrary value where some do not.  Finishing has one worker per file with
truncate, flush and hash as separate steps; `Install` is one rename per step.  A
temp file's content counts as durable only after the flush: a crash empties a
file installed without it.

**GF16, Matrix, WorkSplit and Coder.**  `Coder` is one call of `Reconstruct` for
one chunk, the way `executeChunk` makes it, for any processor, memory limit, loss
and set of loaded recovery blocks.  Shard analysis, each column of the two passes
of Gaussian elimination, each row of each goroutine and the barrier are steps, and
the context may be cancelled between any two.  All arithmetic goes through the
kernels of `GF16`: log tables below the small-slice threshold, `calcTable` above,
and the nibble lookups between the lane-wise packing and unpacking of the vector
kernels.  Recovery blocks are defined apart from them, by polynomial arithmetic.
`WorkSplit` cuts blocks into chunks and chunks into ranges.

**Engine.**  `Init` is a loaded set, any disk of the instance, any parity
(`ParityShards`: how many recovery blocks, whether one has a wrong length, whether
their rows are dependent; the last two are no I/O errors, and `SoundParity` names
their absence); a run
is verify or repair; `Interrupt` cancels the context, `Crash` stops the process
anywhere, `Rerun` starts the program again on what is left.  What `Engine` takes
from the other models is their result: `SetLoader` gives it a set, `Coder` the
specification of a reconstruction (`ReconstructTrue`; `FailureExplained`, so that a
matrix may be singular only if rows are dependent, `MayBeSingular`), `BlockScan` the
contract.

## 3. Runs

| Run | Instance | Checks |
|---|---|---|
| `block_scan` | blocks of 3, chunks of 5, two workers, channels of 1; a CRC of 4 bits in which two blocks collide and two CRCs share the last slot of the table; every file of 5 cells and every file of 8 cells with a block of the set over two values, and shifted, cut and mixed files with a candidate; one read error, cancellation | types, no reported block lost, windows looked at once, every CRC right, every lookup complete, every location true, refinement of `ScanSpec`, the scan ends and the progress channel drains |
| `engine_faults` | two files and a candidate, 175 disks, both commands, up to `MaxParity` parity blocks, one I/O error, an interrupt | types, truth of exit codes 0, 1 and 2, candidates, rename plans, temp files, verification before installation |
| `engine_crash` | three files of one quick key (two equal, one without checksums), two candidates, a crash, an I/O error, an interrupt, two runs, fairness | never torn, success is health, good stays good, competing renames and their fallback, every run ends, sound plans repair |
| `engine_aligned` | whole blocks of 3, chunks of 1 or 2, no candidates | located blocks stay readable, possible repairs succeed if the recovery blocks are sound |
| `set_loader` | 6 good and 11 bad indexes, one of the good ones with files outside the recovery set, 25 pairs of volumes, a foreign set whose name extends this one's, an index or a volume as the index, one file that cannot be opened, cancellation | types, no foreign block, no block lost, rows the files of the Main packet in its order, blocks accounted for, volumes never fail a load, the load ends |
| `coder` | GF(2^4), 5 blocks of 7 elements, every loss of up to 3, every set of recovery blocks among exponents 0, 1, 5, 6, two memory limits (one chunk, several), three processors, two goroutines, cancellation | types, true bytes or an explained error, whole products, kernels against the field, ranges, the call returns |

The bounds are small because the interesting cases are.  A chunk of five cuts
blocks of three, a channel of one blocks its senders, two workers race, and eight
cells are the shortest file with a window in its second chunk.  Two files and one
candidate already give every relation between source, target and candidate (own
name, other's content, copy, missing), one error reaches every error path, and a
second run starts from every state the first can leave.  Two volumes meet in both
orders, and each bad index fails for its own reason.  GF(2^4) has the zero,
non-generators and dependent rows that GF(2^16) has; blocks of seven elements
leave a remainder to the second vector kernel and a tail to the scalar one; a loss
of three can need a pivot off the diagonal.  Deadlock is checked in every run: a
stopped program takes an explicit step that changes nothing.

**Fairness.**  `FairSpec` asks weak fairness of the program's next step only, the
Go scheduler's promise that a runnable goroutine runs; nothing is asked of the
user, of interrupts or of crashes.  `SetLoader` asks the same of the load.
`BlockScan` asks it of the scan together with the reporter, a goroutine of the
same program.  `Coder` asks it of the steps of the call; there weak fairness is
spelled out as infinitely many such steps unless the call has returned, because
the steps are enabled exactly until then.

**What verify says.**  `VerifyExitTruthful` compares the exit status with the disk
and not with the locations that were recorded.  Exit 1, "possible", may be said only
if the recovery blocks are at least as many as `LostBlocks`, which no file has at any
offset.  Without I/O errors exit 0 is said exactly if all files are intact, and exit
2 only if the recovery blocks are fewer than `UnsureBlocks`: the scan may overlook a
block off the grid, so it may call a repair impossible that is not, but never
because of a block at a multiple of the block size in a file that it scans.  A repair
that is said to be possible then succeeds (`PossibleMeansRepaired`) unless an I/O
error or an interrupt stops it or the recovery blocks are not sound; the third
exception is what `short_parity` and `singular_rows` are about.

### What the violation runs show

* `rename_overwrites`: phase 0 renames a candidate over a wrong protected file
  that holds the only located blocks of another file (`par2/scan.go:839`).
* `protected_candidate`: an intact protected file also given with `-candidate` is
  moved to a missing twin and the program reports success (`par2/scan.go:614`;
  the block scan excludes such candidates, the prescan does not).  In the same
  situation blocks located under the protected ID are not remapped after the
  rename (`par2/scan.go:854`), so a rebuild that needs them cannot open its source.
* `trailing_bytes`: a padded last block is matched by its protected length and
  read with the bytes that follow it on disk (`par2/repair.go:377`), so a repair
  announced as possible fails; nothing is damaged by it.
* `partial_install`: a failing rename in `install` leaves earlier files replaced,
  against the comment on `repairPipeline`.
* `singular_rows`: as many recovery blocks as missing blocks do not always
  suffice, because rows of the PAR2 matrix can be dependent (`rs/matrix.go:174`);
  `analyzeShards` takes the first loaded rows and tries no others, while the
  program announces the repair as possible by counting.
* `short_parity`: one recovery block of a wrong length counts in `RepairPossible` and
  makes every repair fail (`par2/repair.go:171`), which had been announced as possible.

Two more departures are in the model and not the subject of a run.  Files listed
after the recovery set in the Main packet, for which no parity exists, become rows of
the matrix and shift the rows after them (`par2/decoder.go:323`); `RowsMatchMain` and
its theorem include such an index and say which rows a load makes of it.  And the
recovery buffers of a repair, one per exponent up to the highest, are not in the
formula that keeps its buffers within the memory limit (`par2/repair.go:188`, against
the comment above it).

The passing runs state what the code keeps: without candidates, with whole blocks
and sound recovery blocks (`engine_aligned`), with candidates that are not protected
names (the other engine runs), and that a failed reconstruction really had dependent rows (`coder`).

## 4. Proofs

`EngineProofs` proves for every set, disk, chunk size, number of goroutines and
bound, from the assumptions of the modules and from the hypothesis
`NoProtectedCandidate` (no candidate is a protected name; `protected_candidate`
shows that it is needed):

| Theorem | Property |
|---|---|
| `TypeCorrect` | `TypeOK` |
| `SuccessIsTrue` | `SuccessMeansHealthy` |
| `NoTornFile` | `NeverTorn` |
| `CandidatesSafe` | `CandidateMovedNotLost` |
| `RenamesSound` | `RenamePlanSound` |
| `TempsRemoved` | `NoTempLeft` |
| `VerifiedBeforeInstall` | `AllVerifiedBeforeInstall` |
| `IntactStaysIntact` | `GoodStaysGood` |

None of the properties is inductive.  The inductive invariant `IInv` adds: what a
location may name (`GoodLocs`), because reading and writing chunks is typed only
then; that the source of a planned rename is an exact copy or gone (`RenameInv`);
that a file recorded as verified is intact, that verification leaves no file
unchecked and plans renames for damaged files only (`DamageInv`); what the worker
of each rebuilt file has established about its temp file (`FinishInv`: flushed
from "hash" on, right at "ok"); that from the last chunk on every file is intact
or has a temp file, and that during installation each such temp file has passed
(`InstallInv`, the barrier of `finishRebuiltFiles`); that only a process that has
exited has a status (`ExitInv`); and that no name ever holds unflushed content.
There is one lemma per action, and `Inductive` combines them.  `NoTornFile` and
`IntactStaysIntact` rest on `Crash`, where a rename is durable once it is made: the
code flushes a file before its rename and never the directory after it.

`RepairProofs` goes on from `IInv`, under `NoProtectedCandidate` for the first two
and `CleanSet` for the others:

| Theorem | Property |
|---|---|
| `VerifyTellsTheTruth` | `VerifyExitTruthful` |
| `RebuildSourcesExist` | `SourcesExist` |
| `ReadsStayTrue` | `LocatedBlocksReadable` |
| `PossibleRepairSucceeds` | `PossibleMeansRepaired` |

`PlanInv` relates the locations to the files that exist at every phase, through
each rename and its fallback.  `VerifyTellsTheTruth` adds `TruthInv`: no phase locates
a block that no file has (`LostInv`), and as long as no read failed the scan skips
only candidates that are gone or copies (`ResolvedInv`) and leaves only blocks
unlocated that it may overlook (`SureInv`); the counts that `RepairPossible` compares
then lie between those of `LostBlocks` and `UnsureBlocks`.  `CleanSet` says that a file which ends in a padded
block is not followed by extra bytes on disk, and that a candidate which copies a
protected file cannot take the place of something else; `trailing_bytes` and
`rename_overwrites` are what happens without it, and the instance of
`engine_aligned` satisfies it.  With it every located block reads true until the
installation (`ReadInv`), every chunk written so far is right in every temp file
(`ChunkInv`), and so the hash of a rebuilt file fails only if an error was met
(`RepairInv`).  `PossibleRepairSucceeds` has the exceptions of
`PossibleMeansRepaired`: an I/O error, an interrupt, recovery blocks that are not
sound.

`ChecksumProofs` proves for every width, polynomial, block size and set:

* `UpdateRolls`: the CRC that `crc32Window.update` makes from the CRC of a window,
  the byte that leaves and the byte that enters is the CRC of the next window.  The
  register is linear over symmetric difference (`RegisterXor`); what a leading byte
  contributes is a sum of `baseTable` entries, corrected by `crc0` for an even
  number of them (`BaseSumRuns`), and `crcWindowMask` is the part of the initial
  value (`MaskRegister`).
* `LookupFindsAll`: in a table filled in any order, `Lookup` returns the blocks of a
  CRC and of no other.  The table is never full (`TableSizeFacts`), so probing stops
  (`ProbeFacts`), and what was inserted is found through every later insertion
  (`InsertHolds`).

The tables and registers are recursive functions; `Induction` has the facts that
carry first-order induction over them and over finite sets (a function that
satisfies a recursion exists, two that do are equal, sets of naturals have least
elements).

`BlockScanProofs` proves, for every disk, chunk size, number of workers and
capacity of the channels:

| Theorem | Property |
|---|---|
| `ScanTypeCorrect` | `ScanTypeOK` |
| `ReportedNeverLost` | `ReportedNotLost` |
| `CrcAlwaysRight` | `RollingCrcRight` |
| `LookupAlwaysComplete` | `LookupComplete` |
| `LocationsAlwaysTrue` | `LocationsTrue` |
| `ChunksAlwaysDisjoint` | `ChunksDisjoint` |
| `ScanImplements` | `ImplementsScan`, given `ProgressDrained` |

`ScanInv` says of every worker alone that it is in its chunk, that its CRC is that
of its window (by `UpdateRolls`) and that it reports and sends only what the window
holds (`WorkerOK`); that matches in the channel and locations are true; and that no
reported block is lost.  The refinement needs completeness as well: `ScanComplete`
says that as long as no read failed and the context is not done there is a function
from reported blocks to the windows that were the first to report them, such that
every window a worker has left behind is `Handled`: all its blocks are reported, or
it is off the grid and lies in a claimed block or within a jump from such a first
window (`Progress`).  The order of the two passes enters here: a sliding worker
that is first to report a block is off the grid because the grid was seen before.
When all workers are done and the channel is empty, that function is the
explanation of jumps that `ScanContract` asks for (`DoneOutcome`).  That the scan
returns at all is liveness and stays with TLC, which is why `ScanImplements` has
`ProgressDrained` as a hypothesis.  `Verify!Scan` takes exactly the outcomes of this
contract, so the engine's theorems hold of the concurrent scan wherever it starts as
`BlockScan` does: from `PrescanLocs(disk)`, with no candidate resolved and no error in
the prescans.  The engine also enters `Scan` with blocks located in a candidate, with
resolved candidates and with an intact file whose prescan failed; for those states
the contract is taken from the code without a refinement.

`SetLoaderProofs` proves every safety property of the load for every directory,
name, set of IDs and bound (`RowsMatchMain` speaks of loads from a consistent index:
one Main packet, which lists different files, and the description of each of them):

| Theorem | Property |
|---|---|
| `LoadTypeCorrect` | `LoaderTypeOK` |
| `VolumesNeverFailAlways` | `VolumesNeverFail` |
| `NoForeignBlockAlways` | `NoForeignBlock` |
| `BlocksFoundAlways` | `BlocksFound` |
| `BlocksAlwaysAccounted` | `BlocksAccounted` |
| `RowsAlwaysMatchMain` | `RowsMatchMain` |

The only assumption is `LoaderAssumption`: a directory is finite, its files are
sequences of packets with proper set IDs, and the fields of a body have the values
their bytes can have.  What belongs to the set depends on its ID, which may be
adopted in the middle of the load; so the invariant `LoadInv` adds that the packets
behind the reader are ones it does not stop at under the present ID, that nothing
has been read or kept while there is no ID (`PassedInv`), and that phase and current
file agree (`PhaseInv`).  On it rest:

* `KeptInv`, for `BlocksFound`: the blocks behind the reader are kept, and so are all
  that the files read to their end offer; a file that ended before the set had an ID
  offers nothing under any ID (`Barren`).  That every file named like the index is
  opened is a fact about names (`SiblingIsVolume`).
* `AccountInv`, for `BlocksAccounted`: a count goes up by one exactly when an exponent
  is taken, and the fold over the counts with it (`SumRaised`).
* `TypeInv` and `RowsInv`, for `RowsMatchMain`: the files are those that the packets read
  so far describe, each once, and after the index they are in order.  This needs that
  `FileIDLess` is a strict total order for IDs of any number of bytes (`LessTotal`,
  `LessOrder`), that a sorting permutation exists (`SortingExists`), and that IDs that
  pass `validateFileIDSorted` and differ are in strict order (`SortedStrictly`).

`MatrixProofs` proves, for every width that is a multiple of four, every polynomial
and generator with which `init` does not panic, every lane size and small-slice
threshold:

* `TimesIsProduct`: adding logarithms gives the product that shift-and-add
  (`timesPoly`) defines.  `timesPoly` is a sum over the bits of one factor of
  shifts of the other, so it is additive in both (`SumImage`), commutes and
  associates (`PolyCommutes`, `PolyAssociates`); every element other than zero is a
  power of the generator and the powers repeat with period `order - 1`, so
  exponents add (`ExpPlus`), inverses exist (`InverseFacts`) and `Pow` is repeated
  multiplication (`PowFacts`).
* `MulSliceProduct` and `MulAndAddSliceProduct`: on every processor the slice kernels
  compute the product of each element with the coefficient, and its sum with the
  output, for every even length, whichever kernels share the slice.  The scalar
  tables hold the sums of doublings (`CalcTable`); the four nibble products add up
  to the product (`NibbleProduct`); unpacking undoes packing (`LanesReturn`).
* what the row operations do, through the kernels and the bytes of a row: each is a
  linear combination of rows (`PivotedRows`, `AddedRows`), so they keep every
  solution of the equations and take no new vector to zero (`PivotStep`, `AddStep`);
  a column that is reduced stays so (`EchelonStep`, `ReducedStep`); the right side
  of a reduced system is its solution (`ReducedSolution`), and a column without a
  pivot has a vector that the left side takes to zero (`NoPivot`).

`CoderProofs` first proves, for every value, that chunk sizes are positive and even
(`ChunkSizeEven`), that every chunk has an even length of at most the chunk size
(`ChunkLengths`), and that the ranges of the goroutines are a partition into
nonempty ranges of even length (`RangesExact`).  They need only that the two
alignment constants are even and rest on Euclidean division.  Then, for every field,
set of blocks, loss, set of loaded exponents, memory limit, chunk, processor and
number of goroutines:

| Theorem | Property |
|---|---|
| `RangesPartitionAlways` | `RangesPartition` |
| `ProductWholeAlways` | `ProductWhole` |
| `KernelsAgreeAlways` | `KernelsAgree` |
| `CoderTypeOKAlways` | `CoderTypeOK` |
| `FailureExplainedAlways` | `FailureExplained` |
| `ReconstructTrueAlways` | `ReconstructTrue` |

The assumptions are those of the modules: the field's (`FieldAssumption`) and
`CoderAssumption`: blocks of one even length, no more of them than there are
generators, natural exponents.  `RowsInv` says that until the context is done the
rows a goroutine has passed are computed in its range; a row of another range does
not disturb them because ranges are disjoint, which is where `RangesExact` enters.
`ReconstructTrue` is about what elimination computes, so `SolveInv` adds
`MatrixInv`: from `analyzeShards` on the missing and the available blocks are listed
once each (`Analyzed`), and for every element of the chunk the true missing blocks
solve the equations between the two matrices (`Reduces`): at the start because a
recovery block is a sum over all blocks (`StartSolves`), later because every column
keeps it.  It adds that the columns behind are reduced, and that a vector the left
matrix takes to zero is one that the chosen rows take to zero, which turns a missing
pivot into dependent rows (`SingularDependent`).  At the barrier the matrix is the
identity, every byte of every range is a byte of the product (`RowByteIs`), the
ranges cover the chunk, and the rows are the missing blocks (`RowsTrue`).

Only model-checked: liveness (`Terminates`, `SoundPlanRepairs`, `LoadEnds`,
`CallReturns`, `ProgressDrained`), which is beyond the prover.  Every safety
property that a passing run checks is also a theorem.

## 5. Assumptions

* Nobody else writes to the directory while the program runs; removing a temp file
  in `close` succeeds; temp names are fresh.
* A rename is atomic, and durable once made.  `install` never flushes the directory,
  so on a file system that may undo a rename after a power loss `NeverTorn` and
  `GoodStaysGood` say nothing about what comes back.
* Hash equality is content equality.
* In `Engine` and `BlockScan` the recovery set is within PAR2's limits, its file
  names are distinct, and an IFSC packet has one checksum per block.  Recovery blocks
  of a wrong length and dependent rows are in `Engine`; the files of a set are all in
  its recovery set there.
* `RowsMatchMain` is stated for a consistent index: one Main packet, which lists
  different files, in its recovery set or not, all described in the index.
* A set ID is not all zeros (`LoaderAssumption`): zeros are the code's mark for "no ID
  yet" (`par2/decoder.go:278`), and an ID is an MD5 hash.

## 6. Not modelled

* The bytes of a packet: magic, lengths and hashes are flags of a packet, because
  every failure of them has the same effect.
* The registers of the vector kernels: their instructions are modelled by the
  permutation and the lookups they perform.  TLC checks the field of width 4, since
  the tables of GF(2^16) have 65536 entries; the proofs are for every width.
* `GenerateParity`, `Matrix.Inverse`, identity matrices: used by tests only.
* Flag parsing, glob expansion, the sandbox, permissions, logging, profiling and
  percentages: no state that a property depends on.
* `cmd/genperf`: a generator of test data.
* A Decoder that a library user scans or repairs twice, IFSC packets with more
  checksums than blocks, and descriptions with one cleaned name: listed as hazards with a note, since the engine model starts
  from a regular set.

## 7. Plan

1. Done: the set and the scan contract, verification, repair, the program, the
   concurrent scan and its refinement; set loading and packets; the CRC window and
   table; the coder, the field and the split of work; the progress channel; the
   theorems of section 4.
2. Compose `SetLoader` with `Engine`, so that irregular sets (equal names, surplus
   checksums, files outside the recovery set) reach verification and repair.
3. Start `BlockScan` from every state in which the engine enters the scan.
4. The library interface: repeated `VerifyScans` and `Repair` on one Decoder.
