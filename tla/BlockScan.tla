------------------------------ MODULE BlockScan ------------------------------
(***************************************************************************)
(* blockScanner.scan in detail: one worker per chunk of every scanned      *)
(* file, a semaphore, the bounded channel of matches and the collector     *)
(* that writes locations.  A chunk worker first claims the windows on the  *)
(* block grid, then slides through what is not claimed, and reports its    *)
(* progress before it gives the semaphore back.  A worker of index -1      *)
(* stands for the last partial block of its file.                          *)
(***************************************************************************)
EXTENDS ScanContract, Checksum

CONSTANTS
    scanChunkSize,  \* cells of a chunk
    numGoroutines,  \* capacity of the semaphore
    matchChanCap,   \* capacity of matchChan
    progressChanCap, \* capacity of the caller's progress channel
    ctxCheckPeriod, \* a sliding worker looks at the context this often
    ScanDisks,      \* the disks a scan may find
    MaxFaults,      \* bound on read errors
    Interrupts      \* whether the context may be cancelled

ASSUME ScanAssumption ==
    /\ {scanChunkSize, numGoroutines, matchChanCap, progressChanCap, ctxCheckPeriod}
          \subseteq Nat \ {0}
    /\ ScanDisks \subseteq [Names -> FileContent]
    /\ MaxFaults \in Nat
    /\ Interrupts \in BOOLEAN

VARIABLES
    disk,           \* never written by the scan
    table,          \* lookupTable, never written by the scan
    locs,           \* ShardLocations, written by the collector only
    reported,       \* blocks whose checksumLocation.reported flag is set
    matchChan,      \* matchEvents sent and not yet collected
    progressChan,   \* number of progress updates sent and not yet reported
    worker,         \* the state of every worker
    readErrors,     \* workers that failed to read
    cancelled,      \* the context is done
    scanState       \* "scanning", "closed" (the channel), "done", "failed"

vars == <<disk, table, locs, reported, matchChan, progressChan, worker, readErrors,
          cancelled, scanState>>

\* What a step of a worker on its own windows leaves alone.
others == <<disk, table, locs, progressChan, readErrors, cancelled, scanState>>

(***************************************************************************)
(* Chunks                                                                  *)
(***************************************************************************)
bs == sliceByteCount

FileSize(id) == Len(disk[id.name])

\* scanFileChunks; an empty file is not scanned at all.
Workers ==
    UNION {{id} \X (-1..((FileSize(id) + scanChunkSize - 1) \div scanChunkSize - 1)) :
              id \in {s \in SourcesOf(disk) : FileSize(s) > 0}}

ChunkStart(w) == w[2] * scanChunkSize

\* Mutants: chunks overlap by one cell too many, or by one too few.
LastWindowOverlap(w) == Min({ChunkStart(w) + scanChunkSize + bs, FileSize(w[1])}) - bs

LastWindowGap(w) == Min({ChunkStart(w) + scanChunkSize + bs - 2, FileSize(w[1])}) - bs

\* The last window that starts in the chunk: chunks overlap by bs - 1 cells.
LastWindow(w) == Min({ChunkStart(w) + scanChunkSize + bs - 1, FileSize(w[1])}) - bs

\* Mutant: the chunk's start is rounded down.
FirstAlignedDown(w) == ((ChunkStart(w) - 1) \div bs) * bs

FirstAligned(w) == ((ChunkStart(w) + bs - 1) \div bs) * bs

BlockStart(p) == (p \div bs) * bs

\* The cells a worker looks at: a window of the file, or its padded last block.
Window(w, p) ==
    IF w[2] >= 0 THEN ReadAt(disk[w[1].name], p, bs)
    ELSE [k \in 1..bs |-> IF p + k <= PartialLength(disk, w[1])
                          THEN Cell(disk[w[1].name], p + k) ELSE 0]

(***************************************************************************)
(* A worker: its phase, the offset and the CRC of its window, the grid     *)
(* blocks it claimed, whether it looks at the context on its way to this   *)
(* window, and where it is in matchBlock: the matched blocks it has not    *)
(* come to, the one it has flagged and must send, and reportedNew.         *)
(***************************************************************************)
NoBlock == <<>>

Idle == [phase |-> "wait", pos |-> 0, crc |-> {}, claimed |-> {}, checks |-> FALSE,
         todo |-> {}, sending |-> NoBlock, reportedNew |-> FALSE]

AtWindow(w) ==
    /\ worker[w].phase \in {"grid", "slide", "last"}
    /\ worker[w].todo = {} /\ worker[w].sending = NoBlock

Holding == {w \in DOMAIN worker : worker[w].phase \in {"grid", "slide", "progress"}}

Finished == [Idle EXCEPT !.phase = "done"]

\* initProgress: there is progress to report if a protected file is scanned.
HasProgress == \E id \in SourcesOf(disk) : id.kind = "file"

\* scanChunk returned without an error.
ChunkScanned == IF HasProgress THEN [Idle EXCEPT !.phase = "progress"] ELSE Finished

\* The worker comes to the window at p, whose CRC is c.
ComeTo(r, phase, p, c) ==
    [r EXCEPT !.phase = phase, !.pos = p, !.crc = c, !.checks = FALSE, !.todo = {},
              !.sending = NoBlock, !.reportedNew = FALSE]

\* Where the slide goes on: at p, or at the next block that is not claimed.
Unclaimed(claimed, p) ==
    IF BlockStart(p) \notin claimed THEN p
    ELSE Min({e \in {c + bs : c \in claimed} \ claimed : e > p})

\* The context is checked every ctxCheckPeriod cells of the slide, also at the
\* claimed blocks that are hopped over between p and q.
ChecksContext(w, claimed, p, q) ==
    \E o \in {p, q} \cup {c \in claimed : p < c /\ c < q} :
        (o - ChunkStart(w)) % ctxCheckPeriod = 0

\* One step past a window that was looked at (justMissed), the CRC is rolled.
SlideFrom(w, r, p, justMissed) ==
    LET q == Unclaimed(r.claimed, p)
    IN  IF q > LastWindow(w) THEN ChunkScanned
        ELSE [ComeTo(r, "slide", q,
                     IF justMissed /\ q = p
                     THEN Update(r.crc, Window(w, q - 1)[1], Window(w, q)[bs])
                     ELSE ChecksumIEEE(Window(w, q)))
              EXCEPT !.checks = ChecksContext(w, r.claimed, p, q)]

\* The grid pass goes on at p, or ends and the slide starts.
GridFrom(w, r, p) ==
    IF p > LastWindow(w) THEN SlideFrom(w, r, ChunkStart(w), FALSE)
    ELSE ComeTo(r, "grid", p, ChecksumIEEE(Window(w, p)))

\* The window of worker w holds the block expected at its offset.
InPlace(w, matched, p) ==
    \E b \in matched : b[2] = p \div bs /\ (w[1].kind = "cand" \/ b[1] = w[1].name)

Claim(r, inPlace) ==
    IF inPlace THEN [r EXCEPT !.claimed = @ \cup {r.pos}] ELSE r

\* Mutant: every match jumps a block, also one that was reported before.
AdvanceAlwaysJumps(w, r, inPlace) ==
    IF r.phase = "grid" THEN GridFrom(w, Claim(r, inPlace), r.pos + bs)
    ELSE IF r.phase = "last" THEN Finished
    ELSE IF r.sending # NoBlock THEN SlideFrom(w, r, r.pos + bs, FALSE)
    ELSE SlideFrom(w, r, r.pos + 1, TRUE)

\* After matchBlock: a match not reported before jumps a block, when sliding.
Advance(w, r, inPlace) ==
    IF r.phase = "grid" THEN GridFrom(w, Claim(r, inPlace), r.pos + bs)
    ELSE IF r.phase = "last" THEN Finished
    ELSE IF r.reportedNew THEN SlideFrom(w, r, r.pos + bs, FALSE)
    ELSE SlideFrom(w, r, r.pos + 1, TRUE)

(***************************************************************************)
(* Lookup                                                                  *)
(***************************************************************************)
Found(w) == Lookup(table, worker[w].crc)

\* Off the grid, a CRC of which every block has been reported is not hashed.
Skipped(w, p) == p % bs # 0 /\ Found(w) \subseteq reported

\* The blocks of that CRC whose MD5 confirms them.
Hashed(w, p) == {b \in Found(w) : Block(b) = Window(w, p)}

\* Mutant: the CRC is taken for the block.
MatchedUnhashed(w, p) == IF Skipped(w, p) THEN {} ELSE Found(w)

Matched(w, p) == IF Skipped(w, p) THEN {} ELSE Hashed(w, p)

(***************************************************************************)
(* Steps of the workers                                                    *)
(***************************************************************************)
Become(w, r) == worker' = [worker EXCEPT ![w] = r]

\* The semaphore is taken and the chunk read; a chunk shorter than a block has
\* no window.
Acquire(w) ==
    /\ w[2] >= 0
    /\ worker[w].phase = "wait"
    /\ Cardinality(Holding) < numGoroutines
    /\ Become(w, IF LastWindow(w) < ChunkStart(w) THEN ChunkScanned
                 ELSE GridFrom(w, Idle, FirstAligned(w)))
    /\ UNCHANGED <<others, reported, matchChan>>

ChunksFinished(w) ==
    \A v \in DOMAIN worker : (v[1] = w[1] /\ v # w) => worker[v].phase = "done"

\* scanLastPartialBlock, once every chunk of the file is done without error.
StartLast(w) ==
    /\ w[2] = -1
    /\ worker[w].phase = "wait"
    /\ ChunksFinished(w)
    /\ LET n == PartialLength(disk, w[1]) IN
       Become(w, IF n % bs = 0 \/ \E v \in readErrors : v[1] = w[1] THEN Finished
                 ELSE ComeTo(Idle, "last", LastBlockStart(n),
                             ChecksumIEEE(Window(w, LastBlockStart(n)))))
    /\ UNCHANGED <<others, reported, matchChan>>

\* A read fails: scanFileChunks and scanLastPartialBlock return the error.
ReadFails(w) ==
    /\ Cardinality(readErrors) < MaxFaults
    /\ \/ /\ w[2] >= 0 /\ worker[w].phase = "wait"
          /\ Cardinality(Holding) < numGoroutines
       \/ w[2] = -1 /\ worker[w].phase = "last" /\ AtWindow(w)
    /\ readErrors' = readErrors \cup {w}
    /\ Become(w, Finished)
    /\ UNCHANGED <<disk, table, locs, reported, matchChan, progressChan, cancelled, scanState>>

SeesCancel(w) == cancelled /\ worker[w].checks

\* A worker that waits for the semaphore, or that was never spawned, or whose
\* file was never opened (then all its chunks are abandoned first), or that
\* checks the context, returns without an error.
Abandon(w) ==
    /\ \/ /\ cancelled /\ worker[w].phase = "wait"
          /\ w[2] = -1 => ChunksFinished(w)
          /\ Become(w, Finished)
       \/ /\ AtWindow(w) /\ SeesCancel(w)
          /\ Become(w, ChunkScanned)
    /\ UNCHANGED <<others, reported, matchChan>>

\* matchBlock up to its loop; a window that is no block is passed at once.
Look(w) ==
    /\ AtWindow(w) /\ ~SeesCancel(w)
    /\ \E r \in {worker[w]}, m \in {Matched(w, worker[w].pos)} :
          Become(w, IF m = {} THEN Advance(w, r, FALSE) ELSE [r EXCEPT !.todo = m])
    /\ UNCHANGED <<others, reported, matchChan>>

\* One round of matchBlock's loop: the flag is set by compare-and-swap...
Report(w, b) ==
    /\ b \in worker[w].todo /\ worker[w].sending = NoBlock
    /\ reported' = reported \cup {b}
    /\ Become(w, [worker[w] EXCEPT !.todo = @ \ {b}, !.sending = b,
                                   !.reportedNew = @ \/ b \notin reported])
    /\ UNCHANGED <<others, matchChan>>

\* Mutant: a match is dropped when the channel is full.
SendOrDrop(w) ==
  \E r \in {worker[w]} :
    /\ r.sending # NoBlock
    /\ matchChan' = IF Len(matchChan) >= matchChanCap THEN matchChan
                    ELSE Append(matchChan,
                           [block |-> r.sending, loc |-> [id |-> w[1], off |-> r.pos]])
    /\ \E inPlace \in {InPlace(w, Hashed(w, r.pos), r.pos)} :
          Become(w, IF r.todo # {} THEN [r EXCEPT !.sending = NoBlock]
                    ELSE Advance(w, r, inPlace))
    /\ UNCHANGED <<others, reported>>

\* ...and the match is sent, which waits while the channel is full.
Send(w) ==
  \E r \in {worker[w]} :
    /\ r.sending # NoBlock
    /\ Len(matchChan) < matchChanCap
    /\ matchChan' = Append(matchChan,
                           [block |-> r.sending, loc |-> [id |-> w[1], off |-> r.pos]])
    /\ \E inPlace \in {InPlace(w, Hashed(w, r.pos), r.pos)} :
          Become(w, IF r.todo # {} THEN [r EXCEPT !.sending = NoBlock]
                    ELSE Advance(w, r, inPlace))
    /\ UNCHANGED <<others, reported>>

\* scanProgress.add, which waits while the caller has not drained its channel;
\* only then does the worker give the semaphore back.
AddProgress(w) ==
    /\ worker[w].phase = "progress"
    /\ progressChan < progressChanCap
    /\ progressChan' = progressChan + 1
    /\ Become(w, Finished)
    /\ UNCHANGED <<disk, table, locs, reported, matchChan, readErrors, cancelled, scanState>>

(***************************************************************************)
(* The collector, the caller's reporter, and scan itself                   *)
(***************************************************************************)

\* The first match of a block wins.
Collect ==
    /\ matchChan # <<>>
    /\ LET m == Head(matchChan) IN
       locs' = IF locs[m.block].off = -1 THEN [locs EXCEPT ![m.block] = m.loc] ELSE locs
    /\ matchChan' = Tail(matchChan)
    /\ UNCHANGED <<disk, table, reported, progressChan, worker, readErrors, cancelled,
                   scanState>>

\* Mutant: once the context is done the reporter takes no update.
DrainUntilCancelled ==
    /\ progressChan > 0
    /\ progressChan' = IF cancelled THEN progressChan ELSE progressChan - 1
    /\ UNCHANGED <<disk, table, locs, reported, matchChan, worker, readErrors, cancelled,
                   scanState>>

\* newProgressReporter: one update is taken.  The reporter goes on until the
\* channel is closed and empty, which is after VerifyScans returned.
Drain ==
    /\ progressChan > 0
    /\ progressChan' = progressChan - 1
    /\ UNCHANGED <<disk, table, locs, reported, matchChan, worker, readErrors, cancelled,
                   scanState>>

\* scanWg.Wait, then close(matchChan).
CloseChan ==
    /\ scanState = "scanning"
    /\ \A w \in DOMAIN worker : worker[w].phase = "done"
    /\ scanState' = "closed"
    /\ UNCHANGED <<disk, table, locs, reported, matchChan, progressChan, worker, readErrors,
                   cancelled>>

\* Mutant: the error of a chunk is not passed on.
ReturnNoError ==
    /\ scanState = "closed" /\ matchChan = <<>>
    /\ scanState' = IF cancelled THEN "failed" ELSE "done"
    /\ UNCHANGED <<disk, table, locs, reported, matchChan, progressChan, worker, readErrors,
                   cancelled>>

\* collectorWg.Wait; VerifyScans returns an error if the context is done.
Return ==
    /\ scanState = "closed" /\ matchChan = <<>>
    /\ scanState' = IF readErrors # {} \/ cancelled THEN "failed" ELSE "done"
    /\ UNCHANGED <<disk, table, locs, reported, matchChan, progressChan, worker, readErrors,
                   cancelled>>

Cancel ==
    /\ Interrupts /\ ~cancelled /\ scanState \in {"scanning", "closed"}
    /\ cancelled' = TRUE
    /\ UNCHANGED <<disk, table, locs, reported, matchChan, progressChan, worker, readErrors,
                   scanState>>

Init ==
    /\ disk \in ScanDisks
    /\ table \in newCRCLookupTables
    /\ locs = PrescanLocs(disk)
    /\ reported = {}
    /\ matchChan = <<>>
    /\ progressChan = IF HasProgress THEN 1 ELSE 0
    /\ worker = [w \in Workers |-> Idle]
    /\ readErrors = {}
    /\ cancelled = FALSE
    /\ scanState = "scanning"

WorkerNext ==
    \E w \in DOMAIN worker :
        \/ Acquire(w) \/ StartLast(w) \/ ReadFails(w) \/ Abandon(w) \/ Look(w)
        \/ (\E b \in worker[w].todo : Report(w, b))
        \/ Send(w) \/ AddProgress(w)

ScanNext == WorkerNext \/ Collect \/ CloseChan \/ Return

Stopped ==
    /\ scanState \in {"done", "failed"} /\ progressChan = 0
    /\ UNCHANGED vars

Next == ScanNext \/ Drain \/ Cancel \/ Stopped

\* Every goroutine that can run is scheduled, the reporter of the command line
\* program among them, so some step of the program happens.
Spec == Init /\ [][Next]_vars /\ WF_vars(ScanNext \/ Drain)

(***************************************************************************)
(* Properties                                                              *)
(***************************************************************************)

\* Every variable has its type.
ScanTypeOK ==
    /\ locs \in [Blocks -> Location]
    /\ reported \subseteq Blocks
    /\ \A i \in DOMAIN matchChan :
          matchChan[i] \in [block : Blocks, loc : Location]
    /\ progressChan \in 0..progressChanCap
    /\ worker \in [Workers -> [phase : {"wait", "grid", "slide", "progress", "last", "done"},
                               pos : Nat, crc : SUBSET CrcOnes, claimed : SUBSET Nat,
                               checks : BOOLEAN, todo : SUBSET Blocks,
                               sending : Blocks \cup {NoBlock},
                               reportedNew : BOOLEAN]]
    /\ readErrors \subseteq Workers
    /\ scanState \in {"scanning", "closed", "done", "failed"}

\* A block whose flag is set is never lost between the flag and the location:
\* it is located, in the channel, or about to be sent.  Otherwise the windows
\* that allReported skips would hide the block for good (matchBlock).
ReportedNotLost ==
    \A b \in reported :
        \/ locs[b].off # -1
        \/ \E i \in DOMAIN matchChan : matchChan[i].block = b
        \/ \E w \in DOMAIN worker : worker[w].sending = b

\* A window is looked at by one worker of its file only: sliding workers never
\* leave their chunk, and a claimed grid block lies in the chunk that claimed it.
ChunksDisjoint ==
    \A v, w \in DOMAIN worker :
        (v[1] = w[1] /\ v # w) =>
            /\ worker[v].claimed \cap worker[w].claimed = {}
            /\ {worker[v].phase, worker[w].phase} \subseteq {"grid", "slide"}
                   => worker[v].pos # worker[w].pos

\* Whatever was skipped, jumped or claimed on the way, the CRC a worker looks up
\* is that of its window, although most are rolled from the one before
\* (scanChunk's justMissed, crc32Window.update).
RollingCrcRight ==
    \A w \in DOMAIN worker :
        AtWindow(w) => worker[w].crc = ChecksumIEEE(Window(w, worker[w].pos))

\* In whatever order the entries were inserted, a lookup finds all the blocks of
\* a CRC, also past slots taken by other CRCs (crcLookupTable.Lookup).
LookupComplete ==
    \A c \in SUBSET CrcOnes :
        Lookup(table, c) = IF c \in DOMAIN checksumMap THEN checksumMap[c] ELSE {}

\* A location is written only where its block is: every one is that of the phases
\* before the scan, or that of a window of a scanned file that holds the block,
\* also when the scan is cancelled or fails (matchBlock, the collector).
LocationsTrue ==
    \A b \in Blocks :
        \/ locs[b] = PrescanLocs(disk)[b]
        \/ /\ PrescanLocs(disk)[b] = NotFound
           /\ locs[b].id \in SourcesOf(disk)
           /\ MatchesAt(disk, locs[b].id, locs[b].off, b)

\* The updates sent while the semaphore is held never stop the scan, cancelled
\* or not: it returns, and the reporter sees the channel empty.
ProgressDrained == <>[](scanState \in {"done", "failed"} /\ progressChan = 0)

\* The concurrent scan does what ScanSpec says: it returns, and unless a read
\* failed or the context was cancelled, it leaves every block that was located
\* where it was and every other block at a true match or missing with reason.
S == INSTANCE ScanSpec WITH
        scanState <- IF scanState = "closed" THEN "scanning" ELSE scanState,
        result <- IF scanState = "done" THEN locs ELSE PrescanLocs(disk)

ImplementsScan == S!SSpec

=============================================================================
