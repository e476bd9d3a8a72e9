---------------------------- MODULE ScanContract ----------------------------
(***************************************************************************)
(* What blockScanner.scan promises, with no word on chunks, goroutines or  *)
(* the order of its findings.  It is the step the verification phase takes *)
(* (module Verify) and the specification the concurrent scan is checked    *)
(* against (module BlockScan).                                             *)
(***************************************************************************)
EXTENDS Par2Set

\* The files the scan reads: protected files that do not skip the block scan
\* (skipsBlockScan), and candidates that exist and are neither resolved nor
\* the name of a protected file.
ScanSources(d, damage, resolved) ==
    {FileIDOf(f) : f \in {g \in Protected : damage[g] \notin {"missing", "none"}}}
    \cup {CandidateID(c) : c \in {n \in candidateFiles \ (resolved \cup Protected) :
                                     d[n] # Absent}}

(***************************************************************************)
(* How the phases before it leave things when none of them meets an error  *)
(* and no candidate is a copy of a missing file: missing and intact files  *)
(* are settled, the rest is left to the scan.                              *)
(***************************************************************************)
PrescanDamage(d) ==
    [f \in Protected |-> IF d[f] = Absent THEN "missing"
                         ELSE IF d[f] = Content[f] THEN "none" ELSE "unchecked"]

PrescanLocs(d) ==
    [b \in Blocks |-> IF d[b[1]] = Content[b[1]]
                      THEN InPlaceIn(FileIDOf(b[1]), b) ELSE NotFound]

SourcesOf(d) == ScanSources(d, PrescanDamage(d), {})

(***************************************************************************)
(* Windows and matches.  d is the disk, id a scanned file, off the offset  *)
(* of a window in it.                                                      *)
(***************************************************************************)

\* Mutant: the comparison stops short of the whole block.
FullWindowFirstCell(d, id, off, b) ==
    /\ b[1] \in fileChecksums
    /\ off + sliceByteCount <= Len(d[id.name])
    /\ Cell(d[id.name], off + 1) = Block(b)[1]

\* The window lies inside the file and holds block b.
FullWindow(d, id, off, b) ==
    /\ b[1] \in fileChecksums
    /\ off + sliceByteCount <= Len(d[id.name])
    /\ ReadAt(d[id.name], off, sliceByteCount) = Block(b)

\* The length the last partial block is cut at: the protected length for a
\* protected file, the length on disk for a candidate.
PartialLength(d, id) ==
    IF id.kind = "file" THEN Len(Content[id.name]) ELSE Len(d[id.name])

LastBlockStart(n) ==
    ((n + sliceByteCount - 1) \div sliceByteCount - 1) * sliceByteCount

\* scanLastPartialBlock: the cells up to the partial length, padded with zeros.
PartialWindow(d, id, off, b) ==
    LET n == PartialLength(d, id) IN
    /\ b[1] \in fileChecksums
    /\ n % sliceByteCount # 0
    /\ off = LastBlockStart(n)
    /\ d[id.name] # <<>>
    /\ Block(b) = [k \in 1..sliceByteCount |->
                      IF off + k <= n THEN Cell(d[id.name], off + k) ELSE 0]

MatchesAt(d, id, off, b) ==
    FullWindow(d, id, off, b) \/ PartialWindow(d, id, off, b)

\* Every place of block b in the scanned files.
Matches(d, sources, b) ==
    UNION {{[id |-> id, off |-> o] :
              o \in {p \in 0..(Len(d[id.name]) + PartialLength(d, id)) :
                        MatchesAt(d, id, p, b)}} : id \in sources}

(***************************************************************************)
(* What the scan may overlook.  A window on the block grid, and the last   *)
(* partial block, are always looked at.  A window off the grid is skipped  *)
(* when the grid block it starts in holds the block expected there, or     *)
(* when a sliding worker jumps over it.  A jump starts at a window off the *)
(* grid, less than a block before it, that is the first anywhere to report *)
(* some block, so no block explains two jumps.                             *)
(***************************************************************************)
OnGrid(off) == off % sliceByteCount = 0

\* claimGrid: the grid window at off holds the block expected at its offset.
Claimed(d, id, off) ==
    \E b \in Blocks :
        /\ b[2] = off \div sliceByteCount
        /\ id.kind = "cand" \/ b[1] = id.name
        /\ FullWindow(d, id, off, b)

\* The windows and blocks a jump over loc may come from.
Jumps(d, loc) ==
    {j \in {[id |-> loc.id, off |-> p] :
                p \in (loc.off - sliceByteCount + 1)..(loc.off - 1)} \X Blocks :
        /\ j[1].off >= 0 /\ ~OnGrid(j[1].off)
        /\ FullWindow(d, loc.id, j[1].off, j[2])}

\* Only a jump hides a match at loc: it is in no claimed grid block.
NeedsJump(d, loc) ==
    ~Claimed(d, loc.id, (loc.off \div sliceByteCount) * sliceByteCount)

MayMiss(d, sources, b) ==
    \A loc \in Matches(d, sources, b) :
        ~OnGrid(loc.off) /\ (NeedsJump(d, loc) => Jumps(d, loc) # {})

Unlocated(locs) == {b \in Blocks : locs[b].off = -1}

\* The matches that jumps hid, if the scan ends with the locations l, can be
\* traced to jumps that each reported a block of their own first.
JumpsExplain(d, sources, l) ==
    LET Hidden == {loc \in UNION {Matches(d, sources, b) : b \in Unlocated(l)} :
                      NeedsJump(d, loc)}
    IN  \E h \in [Hidden -> UNION {Jumps(d, loc) : loc \in Hidden}] :
            /\ \A loc \in Hidden : h[loc] \in Jumps(d, loc) /\ l[h[loc][2]].off # -1
            /\ \A x, y \in Hidden : h[x][2] = h[y][2] => h[x][1] = h[y][1]

\* Where the scan may leave a block that had no location: at a true match, or
\* missing if all its matches could be overlooked.
ScanChoices(d, sources, locs) ==
    (UNION {{b} \X Matches(d, sources, b) : b \in Unlocated(locs)})
    \cup {<<b, NotFound>> : b \in {c \in Unlocated(locs) : MayMiss(d, sources, c)}}

\* What was located stays, and every other block gets one of its choices.
OutcomesOf(choices, locs) ==
    {[b \in Blocks |-> IF b \in Unlocated(locs) THEN p[b] ELSE locs[b]] :
        p \in {q \in [Unlocated(locs) -> {c[2] : c \in choices}] :
                  \A b \in Unlocated(locs) : <<b, q[b]>> \in choices}}

\* The locations the scan may end with.  (The choices are bound by a set so
\* that they are computed once.)
ScanOutcomes(d, sources, locs) ==
    UNION {{l \in OutcomesOf(choices, locs) : JumpsExplain(d, sources, l)} :
              choices \in {ScanChoices(d, sources, locs)}}

=============================================================================
