--------------------------- MODULE BlockScanProofs ---------------------------
(***************************************************************************)
(* Proofs about the concurrent block scan, for every set of files, every   *)
(* disk, every size of blocks, chunks and channels and every number of     *)
(* workers.  What a worker may be (WorkerOK) is a predicate of the disk,   *)
(* the worker and its record, so that the steps of the workers are shown   *)
(* one record at a time.                                                   *)
(***************************************************************************)
EXTENDS BlockScan, ChecksumProofs

(***************************************************************************)
(* Files, chunks and windows of a disk d                                   *)
(***************************************************************************)
GoodDisk(d) == d \in [Names -> FileContent]

WorkersOf(d) ==
    UNION {{id} \X (-1..((Len(d[id.name]) + scanChunkSize - 1) \div scanChunkSize - 1)) :
              id \in {s \in SourcesOf(d) : Len(d[s.name]) > 0}}

LastOf(d, w) == Min({ChunkStart(w) + scanChunkSize + bs - 1, Len(d[w[1].name])}) - bs

WindowOf(d, w, p) ==
    IF w[2] >= 0 THEN ReadAt(d[w[1].name], p, bs)
    ELSE [k \in 1..bs |-> IF p + k <= PartialLength(d, w[1])
                          THEN Cell(d[w[1].name], p + k) ELSE 0]

\* They are the ones of the disk that is scanned.
LEMMA OfDisk ==
    /\ Workers = WorkersOf(disk)
    /\ \A w : LastWindow(w) = LastOf(disk, w)
    /\ \A w, p : Window(w, p) = WindowOf(disk, w, p)
  BY DEF Workers, WorkersOf, FileSize, LastWindow, LastOf, Window, WindowOf

\* The sizes are positive.
LEMMA Sizes1 == bs \in Nat \ {0} /\ scanChunkSize \in Nat \ {0} /\ progressChanCap \in Nat \ {0}
  BY SizeAssumption, ScanAssumption DEF bs

\* Protected files and candidates have names.
LEMMA NamesFacts == Protected \subseteq Names /\ candidateFiles \subseteq Names
<1>1. protectedFiles \in Seq(Names) /\ candidateFiles \subseteq Names
  BY NamesAssumption
<1> QED
  BY <1>1 DEF Protected

\* A scanned file has a name and is there.
LEMMA SourceFacts ==
    ASSUME NEW d, GoodDisk(d), NEW id \in SourcesOf(d)
    PROVE  /\ id \in FileID /\ id.name \in Names /\ id.kind \in {"file", "cand"}
           /\ d[id.name] \in Seq(Byte) /\ Len(d[id.name]) \in Nat
           /\ id.kind = "file" => id.name \in Protected
<1>1. Protected \subseteq Names /\ candidateFiles \subseteq Names
  BY NamesFacts
<1>2. CASE \E f \in Protected : id = FileIDOf(f) /\ PrescanDamage(d)[f] \notin {"missing", "none"}
  <2>1. PICK f \in Protected : id = FileIDOf(f) /\ PrescanDamage(d)[f] \notin {"missing", "none"}
    BY <1>2
  <2>2. d[f] # Absent
    BY <2>1 DEF PrescanDamage
  <2>3. d[f] \in Seq(Byte)
    BY <1>1, <2>2 DEF GoodDisk, FileContent
  <2>4. id.name = f /\ id.kind = "file" /\ id \in FileID
    BY <1>1, <2>1 DEF FileIDOf, FileID
  <2> QED
    BY <1>1, <2>3, <2>4
<1>3. CASE \E c \in candidateFiles : id = CandidateID(c) /\ d[c] # Absent
  <2>1. PICK c \in candidateFiles : id = CandidateID(c) /\ d[c] # Absent
    BY <1>3
  <2>2. d[c] \in Seq(Byte)
    BY <1>1, <2>1 DEF GoodDisk, FileContent
  <2>3. id.name = c /\ id.kind = "cand" /\ id \in FileID
    BY <1>1, <2>1 DEF CandidateID, FileID
  <2> QED
    BY <1>1, <2>2, <2>3
<1> QED
  BY <1>2, <1>3 DEF SourcesOf, ScanSources

\* A worker is a chunk of a scanned file, or the file's last partial block.
LEMMA WorkerFacts ==
    ASSUME NEW d, GoodDisk(d), NEW w \in WorkersOf(d)
    PROVE  /\ w[1] \in SourcesOf(d) /\ Len(d[w[1].name]) > 0 /\ w = <<w[1], w[2]>>
           /\ w[2] \in Int /\ w[2] >= -1
           /\ w[2] >= 0 => ChunkStart(w) \in Nat
<1>1. PICK id \in SourcesOf(d) :
         /\ Len(d[id.name]) > 0
         /\ w \in {id} \X (-1..((Len(d[id.name]) + scanChunkSize - 1) \div scanChunkSize - 1))
  BY DEF WorkersOf
<1>2. Len(d[id.name]) \in Nat
  BY SourceFacts
<1>3. (Len(d[id.name]) + scanChunkSize - 1) \div scanChunkSize - 1 \in Int
  BY <1>2, Sizes1
<1>4. w[1] = id /\ w[2] \in Int /\ w[2] >= -1 /\ w = <<w[1], w[2]>>
  BY <1>1, <1>3
<1>5. w[2] >= 0 => w[2] * scanChunkSize \in Nat
  BY <1>4, Sizes1
<1> QED
  BY <1>1, <1>4, <1>5 DEF ChunkStart

\* The last window of a chunk starts in the chunk and ends in the file.
LEMMA LastFacts ==
    ASSUME NEW d, GoodDisk(d), NEW w \in WorkersOf(d), w[2] >= 0
    PROVE  /\ LastOf(d, w) \in Int
           /\ LastOf(d, w) < ChunkStart(w) + scanChunkSize
           /\ LastOf(d, w) + bs <= Len(d[w[1].name])
           /\ \A o \in Int : /\ o < ChunkStart(w) + scanChunkSize
                             /\ o + bs <= Len(d[w[1].name])
                             => o <= LastOf(d, w)
<1> DEFINE a == ChunkStart(w) + scanChunkSize + bs - 1
           n == Len(d[w[1].name])
           T == {a, n}
<1>1. ChunkStart(w) \in Nat /\ n \in Nat /\ bs \in Nat \ {0} /\ scanChunkSize \in Nat \ {0}
  BY WorkerFacts, SourceFacts, Sizes1
<1>2. T \in SUBSET Nat /\ T # {}
  BY <1>1
<1>3. Min(T) \in T /\ \A k \in T : Min(T) <= k
  <2> HIDE DEF T
  <2> QED
    BY <1>2, MinFacts
<1>4. LastOf(d, w) = Min(T) - bs
  BY DEF LastOf
<1> DEFINE m == Min(T)
<1>5. (m = a \/ m = n) /\ m <= a /\ m <= n
  BY <1>3
<1> HIDE DEF m, T
<1>6. LastOf(d, w) = m - bs
  BY <1>4 DEF m
<1> QED
  BY <1>1, <1>5, <1>6

\* A window is a block of cells.
LEMMA WindowType ==
    ASSUME NEW d, GoodDisk(d), NEW w \in WorkersOf(d), NEW p \in Int
    PROVE  WindowOf(d, w, p) \in WindowCells
<1>1. d[w[1].name] \in Seq(Byte) /\ 0 \in Byte
  BY WorkerFacts, SourceFacts, ContentAssumption
<1>2. \A q : Cell(d[w[1].name], q) \in Byte
  BY <1>1 DEF Cell
<1> QED
  BY <1>1, <1>2 DEF WindowOf, ReadAt, WindowCells, bs

\* The next window of a chunk starts one cell later.
LEMMA WindowNext ==
    ASSUME NEW d, NEW w, w[2] >= 0, NEW p \in Int
    PROVE  IsNext(WindowOf(d, w, p), WindowOf(d, w, p + 1))
<1>1. bs = sliceByteCount /\ bs \in Nat \ {0}
  BY Sizes1 DEF bs
<1>2. ASSUME NEW k \in 1..bs - 1 PROVE WindowOf(d, w, p + 1)[k] = WindowOf(d, w, p)[k + 1]
  <2>1. k \in 1..bs /\ k + 1 \in 1..bs /\ (p + 1) + k = p + (k + 1)
    BY <1>1
  <2>2. WindowOf(d, w, p + 1)[k] = Cell(d[w[1].name], (p + 1) + k)
    BY <2>1 DEF WindowOf, ReadAt
  <2>3. WindowOf(d, w, p)[k + 1] = Cell(d[w[1].name], p + (k + 1))
    BY <2>1 DEF WindowOf, ReadAt
  <2> QED
    BY <2>1, <2>2, <2>3
<1> QED
  BY <1>1, <1>2 DEF IsNext

(***************************************************************************)
(* Workers                                                                 *)
(***************************************************************************)
WorkerRecord ==
    [phase : {"wait", "grid", "slide", "progress", "last", "done"},
     pos : Nat, crc : SUBSET CrcOnes, claimed : SUBSET Nat,
     checks : BOOLEAN, todo : SUBSET Blocks,
     sending : Blocks \cup {NoBlock}, reportedNew : BOOLEAN]

Looking == {"grid", "slide", "last"}

\* The blocks of the set that the window at p holds.
HeldAt(d, w, p) == {b \in Listed : Block(b) = WindowOf(d, w, p)}

\* A worker stays in its chunk, or at its file's last partial block, has the CRC of
\* its window, and is about to report and to send what its window holds.
WorkerOK(d, w, r) ==
    /\ r \in WorkerRecord
    /\ r.claimed # {} => w[2] >= 0 /\ r.claimed \subseteq ChunkStart(w)..LastOf(d, w)
    /\ r.phase \in {"grid", "slide"} => w[2] >= 0 /\ r.pos \in ChunkStart(w)..LastOf(d, w)
    /\ r.phase = "last" =>
          /\ w[2] = -1
          /\ PartialLength(d, w[1]) % bs # 0
          /\ r.pos = LastBlockStart(PartialLength(d, w[1]))
    /\ r.phase \in Looking => r.crc = ChecksumIEEE(WindowOf(d, w, r.pos))
    /\ r.phase \notin Looking => r.todo = {} /\ r.sending = NoBlock
    /\ r.todo \subseteq HeldAt(d, w, r.pos)
    /\ r.sending # NoBlock => r.sending \in HeldAt(d, w, r.pos)

\* The start of the block a cell is in.
LEMMA BlockStartFacts ==
    ASSUME NEW p \in Nat
    PROVE  BlockStart(p) \in Nat /\ BlockStart(p) <= p /\ p < BlockStart(p) + bs
<1> DEFINE q == p \div bs
           r == p % bs
<1>0. bs \in Nat \ {0}
  BY Sizes1
<1>1. q \in Int /\ r \in 0..bs - 1 /\ p = bs * q + r
  BY <1>0, Remainder
<1>2. q >= 0
  BY <1>0
<1>3. BlockStart(p) = q * bs
  BY DEF BlockStart
<1> HIDE DEF q, r
<1>4. q * bs = bs * q /\ q * bs \in Nat
  BY <1>0, <1>1, <1>2
<1> QED
  BY <1>0, <1>1, <1>3, <1>4

\* The slide goes on at p or later.
LEMMA UnclaimedFacts ==
    ASSUME NEW claimed, NEW lo \in Nat, NEW hi \in Int, claimed \subseteq lo..hi, NEW p \in Nat
    PROVE  Unclaimed(claimed, p) \in Nat /\ Unclaimed(claimed, p) >= p
<1>0. bs \in Nat \ {0}
  BY Sizes1
<1>1. CASE BlockStart(p) \notin claimed
  BY <1>1 DEF Unclaimed
<1>2. CASE BlockStart(p) \in claimed
  <2> DEFINE T == {e \in {c + bs : c \in claimed} \ claimed : e > p}
             D == {hi - c : c \in {x \in claimed : x >= BlockStart(p)}}
  <2>1. \A c \in claimed : c \in Nat /\ c <= hi
    OBVIOUS
  <2>2. BlockStart(p) \in Nat /\ BlockStart(p) <= p /\ p < BlockStart(p) + bs
    BY BlockStartFacts
  <2>3. D \in SUBSET Nat /\ D # {}
    BY <1>2, <2>1, <2>2
  <2>4. PICK m \in D : \A k \in D : m <= k
    <3> HIDE DEF D
    <3> QED
      BY <2>3, LeastNatural
  <2>5. PICK c \in claimed : c >= BlockStart(p) /\ m = hi - c
    BY <2>4
  <2>6. c + bs > p /\ c + bs \in Nat
    BY <1>0, <2>1, <2>2, <2>5
  <2>7. c + bs \notin claimed
    <3> SUFFICES ASSUME c + bs \in claimed PROVE FALSE
      OBVIOUS
    <3>1. c + bs >= BlockStart(p)
      BY <1>0, <2>1, <2>2, <2>5
    <3>2. hi - (c + bs) \in D
      BY <3>1
    <3>3. m <= hi - (c + bs)
      BY <2>4, <3>2
    <3> QED
      BY <1>0, <2>1, <2>5, <3>3
  <2>8. T \in SUBSET Nat /\ c + bs \in T
    <3>1. \A x \in claimed : x + bs \in Nat
      BY <1>0, <2>1
    <3> QED
      BY <2>6, <2>7, <3>1
  <2>9. \A e \in T : e > p
    OBVIOUS
  <2>10. Unclaimed(claimed, p) = Min(T)
    BY <1>2 DEF Unclaimed
  <2> HIDE DEF T
  <2>11. Min(T) \in T
    BY <2>8, MinFacts
  <2>12. Unclaimed(claimed, p) \in T
    BY <2>10, <2>11
  <2>13. Unclaimed(claimed, p) \in Nat /\ Unclaimed(claimed, p) > p
    BY <2>8, <2>9, <2>12
  <2> QED
    BY <2>13
<1> QED
  BY <1>1, <1>2

\* Records that look at nothing.
LEMMA IdleOK ==
    ASSUME NEW d, NEW w
    PROVE  WorkerOK(d, w, Idle) /\ WorkerOK(d, w, Finished) /\ WorkerOK(d, w, ChunkScanned)
<1>1. Idle \in WorkerRecord /\ Finished \in WorkerRecord /\ ChunkScanned \in WorkerRecord
  BY DEF Idle, Finished, ChunkScanned, WorkerRecord
<1>2. \A r \in {Idle, Finished, ChunkScanned} :
         r.claimed = {} /\ r.phase \in {"wait", "done", "progress"} /\ r.todo = {} /\ r.sending = NoBlock
  BY DEF Idle, Finished, ChunkScanned
<1> QED
  BY <1>1, <1>2 DEF WorkerOK, Looking

\* A worker that comes to a window of its own with the right CRC.
LEMMA ComeToOK ==
    ASSUME NEW d, GoodDisk(d), NEW w \in WorkersOf(d), NEW r, WorkerOK(d, w, r),
           NEW phase \in Looking, NEW p \in Nat, NEW c, c = ChecksumIEEE(WindowOf(d, w, p)),
           phase \in {"grid", "slide"} => w[2] >= 0 /\ p \in ChunkStart(w)..LastOf(d, w),
           phase = "last" => /\ w[2] = -1
                             /\ PartialLength(d, w[1]) % bs # 0
                             /\ p = LastBlockStart(PartialLength(d, w[1])),
           NEW chk \in BOOLEAN
    PROVE  /\ WorkerOK(d, w, ComeTo(r, phase, p, c))
           /\ WorkerOK(d, w, [ComeTo(r, phase, p, c) EXCEPT !.checks = chk])
<1>1. c \in SUBSET CrcOnes
  <2>1. WindowOf(d, w, p) \in WindowCells
    BY WindowType
  <2> QED
    BY <2>1, ChecksumType
<1>2. r \in WorkerRecord
  BY DEF WorkerOK
<1> DEFINE s == ComeTo(r, phase, p, c)
           t == [s EXCEPT !.checks = chk]
<1>3. \A x \in {s, t} :
        /\ x \in WorkerRecord
        /\ x.phase = phase /\ x.pos = p /\ x.crc = c /\ x.claimed = r.claimed
        /\ x.todo = {} /\ x.sending = NoBlock
  BY <1>1, <1>2 DEF ComeTo, WorkerRecord, Looking
<1> HIDE DEF s, t
<1>4. \A x \in {s, t} : WorkerOK(d, w, x)
  BY <1>3 DEF WorkerOK
<1> QED
  BY <1>4 DEF s, t

\* The slide goes on from p: a worker comes to a window of its chunk or is done, and
\* a CRC that is rolled is that of the window it is rolled to.
LEMMA SlideFromOK ==
    ASSUME GoodDisk(disk), NEW w \in WorkersOf(disk), w[2] >= 0,
           NEW r, WorkerOK(disk, w, r), NEW p \in Nat, p >= ChunkStart(w),
           NEW justMissed \in BOOLEAN,
           justMissed => r.phase = "slide" /\ p = r.pos + 1
    PROVE  WorkerOK(disk, w, SlideFrom(w, r, p, justMissed))
<1> DEFINE q == Unclaimed(r.claimed, p)
           chk == ChecksContext(w, r.claimed, p, q)
           c == IF justMissed /\ q = p THEN Update(r.crc, Window(w, q - 1)[1], Window(w, q)[bs])
                ELSE ChecksumIEEE(Window(w, q))
<1>0. ChunkStart(w) \in Nat /\ LastOf(disk, w) \in Int
  BY WorkerFacts, LastFacts
<1>1. r.claimed \subseteq ChunkStart(w)..LastOf(disk, w)
  BY DEF WorkerOK
<1>2. q \in Nat /\ q >= p
  BY <1>0, <1>1, UnclaimedFacts
<1>3. chk \in BOOLEAN
  BY DEF ChecksContext
<1> HIDE DEF q, chk
<1>4. SlideFrom(w, r, p, justMissed)
        = IF q > LastOf(disk, w) THEN ChunkScanned
          ELSE [ComeTo(r, "slide", q, c) EXCEPT !.checks = chk]
  BY OfDisk DEF SlideFrom, q, chk
<1>5. c = ChecksumIEEE(WindowOf(disk, w, q))
  <2>1. CASE justMissed /\ q = p
    <3>1. r.pos \in Nat /\ q = r.pos + 1 /\ q - 1 = r.pos /\ r.crc = ChecksumIEEE(WindowOf(disk, w, r.pos))
      BY <1>2, <2>1 DEF WorkerOK, WorkerRecord, Looking
    <3> DEFINE u == WindowOf(disk, w, r.pos)
               v == WindowOf(disk, w, q)
    <3>2. u \in WindowCells /\ v \in WindowCells /\ IsNext(u, v)
      BY <1>2, <3>1, WindowType, WindowNext
    <3>3. c = Update(ChecksumIEEE(u), u[1], v[sliceByteCount])
      BY <2>1, <3>1, OfDisk DEF bs
    <3> HIDE DEF u, v
    <3>4. Update(ChecksumIEEE(u), u[1], v[sliceByteCount]) = ChecksumIEEE(v)
      BY <3>2, UpdateRolls
    <3> QED
      BY <3>3, <3>4 DEF v
  <2>2. CASE ~(justMissed /\ q = p)
    BY <2>2, OfDisk
  <2> QED
    BY <2>1, <2>2
<1> HIDE DEF c
<1>6. CASE q > LastOf(disk, w)
  BY <1>4, <1>6, IdleOK
<1>7. CASE ~(q > LastOf(disk, w))
  <2>1. q \in ChunkStart(w)..LastOf(disk, w) /\ "slide" \in Looking
    BY <1>0, <1>2, <1>7 DEF Looking
  <2>2. WorkerOK(disk, w, [ComeTo(r, "slide", q, c) EXCEPT !.checks = chk])
    BY <1>2, <1>3, <1>5, <2>1, ComeToOK
  <2> QED
    BY <1>4, <1>7, <2>2
<1> QED
  BY <1>6, <1>7

\* The grid pass goes on at p, or the slide starts.
LEMMA GridFromOK ==
    ASSUME GoodDisk(disk), NEW w \in WorkersOf(disk), w[2] >= 0,
           NEW r, WorkerOK(disk, w, r), NEW p \in Nat, p >= ChunkStart(w)
    PROVE  WorkerOK(disk, w, GridFrom(w, r, p))
<1>0. ChunkStart(w) \in Nat /\ LastOf(disk, w) \in Int
  BY WorkerFacts, LastFacts
<1>1. CASE p > LastOf(disk, w)
  <2>1. GridFrom(w, r, p) = SlideFrom(w, r, ChunkStart(w), FALSE)
    BY <1>1, OfDisk DEF GridFrom
  <2>2. ChunkStart(w) >= ChunkStart(w) /\ FALSE \in BOOLEAN
    BY <1>0
  <2>3. WorkerOK(disk, w, SlideFrom(w, r, ChunkStart(w), FALSE))
    BY <1>0, <2>2, SlideFromOK
  <2> QED
    BY <2>1, <2>3
<1>2. CASE ~(p > LastOf(disk, w))
  <2>1. GridFrom(w, r, p) = ComeTo(r, "grid", p, ChecksumIEEE(WindowOf(disk, w, p)))
    BY <1>2, OfDisk DEF GridFrom
  <2>2. p \in ChunkStart(w)..LastOf(disk, w) /\ "grid" \in Looking
    BY <1>0, <1>2 DEF Looking
  <2>3. WorkerOK(disk, w, ComeTo(r, "grid", p, ChecksumIEEE(WindowOf(disk, w, p))))
    BY <2>2, ComeToOK
  <2> QED
    BY <2>1, <2>3
<1> QED
  BY <1>1, <1>2

\* A claimed window on the grid is one of the worker's chunk.
LEMMA ClaimOK ==
    ASSUME NEW d, NEW w, NEW r, WorkerOK(d, w, r), r.phase = "grid", NEW inPlace \in BOOLEAN
    PROVE  WorkerOK(d, w, Claim(r, inPlace))
<1> DEFINE s == Claim(r, inPlace)
<1>0. r \in WorkerRecord /\ r.pos \in Nat /\ r.claimed \in SUBSET Nat
  BY DEF WorkerOK, WorkerRecord
<1>1. w[2] >= 0 /\ r.pos \in ChunkStart(w)..LastOf(d, w)
  BY DEF WorkerOK
<1>2. CASE inPlace
  <2>1. /\ s \in WorkerRecord /\ s.claimed = r.claimed \cup {r.pos} /\ s.phase = r.phase
        /\ s.pos = r.pos /\ s.crc = r.crc /\ s.todo = r.todo /\ s.sending = r.sending
    BY <1>0, <1>2 DEF Claim, WorkerRecord
  <2>2. r.claimed \cup {r.pos} \subseteq ChunkStart(w)..LastOf(d, w)
    BY <1>1 DEF WorkerOK
  <2> HIDE DEF s
  <2>3. WorkerOK(d, w, s)
    BY <1>1, <2>1, <2>2 DEF WorkerOK
  <2> QED
    BY <2>3 DEF s
<1>3. CASE ~inPlace
  BY <1>3 DEF Claim
<1> QED
  BY <1>2, <1>3

\* After matchBlock the worker is at another window of its own, or is done.
LEMMA AdvanceOK ==
    ASSUME GoodDisk(disk), NEW w \in WorkersOf(disk), NEW r, WorkerOK(disk, w, r),
           r.phase \in Looking, NEW inPlace \in BOOLEAN
    PROVE  WorkerOK(disk, w, Advance(w, r, inPlace))
<1>0. r \in WorkerRecord /\ r.pos \in Nat /\ r.claimed \in SUBSET Nat /\ bs \in Nat \ {0}
  BY Sizes1 DEF WorkerOK, WorkerRecord
<1>1. CASE r.phase = "grid"
  <2>1. w[2] >= 0 /\ r.pos \in ChunkStart(w)..LastOf(disk, w) /\ ChunkStart(w) \in Nat
    BY <1>1, WorkerFacts DEF WorkerOK
  <2> DEFINE s == Claim(r, inPlace)
  <2>2. WorkerOK(disk, w, s)
    BY <1>1, ClaimOK
  <2>3. r.pos + bs \in Nat /\ r.pos + bs >= ChunkStart(w)
    BY <1>0, <2>1
  <2>4. Advance(w, r, inPlace) = GridFrom(w, s, r.pos + bs)
    BY <1>1 DEF Advance
  <2> HIDE DEF s
  <2>5. WorkerOK(disk, w, GridFrom(w, s, r.pos + bs))
    BY <2>1, <2>2, <2>3, GridFromOK
  <2> QED
    BY <2>4, <2>5
<1>2. CASE r.phase = "last"
  BY <1>2, IdleOK DEF Advance
<1>3. CASE r.phase = "slide"
  <2>1. w[2] >= 0 /\ r.pos \in ChunkStart(w)..LastOf(disk, w) /\ ChunkStart(w) \in Nat
    BY <1>3, WorkerFacts DEF WorkerOK
  <2>2. /\ r.pos + bs \in Nat /\ r.pos + bs >= ChunkStart(w)
        /\ r.pos + 1 \in Nat /\ r.pos + 1 >= ChunkStart(w)
    BY <1>0, <2>1
  <2>3. /\ WorkerOK(disk, w, SlideFrom(w, r, r.pos + bs, FALSE))
        /\ WorkerOK(disk, w, SlideFrom(w, r, r.pos + 1, TRUE))
    BY <1>3, <2>1, <2>2, SlideFromOK
  <2> QED
    BY <1>3, <2>3 DEF Advance
<1> QED
  BY <1>1, <1>2, <1>3 DEF Looking

\* What a window holds is at its offset.
LEMMA HeldMatches ==
    ASSUME NEW d, GoodDisk(d), NEW w \in WorkersOf(d), NEW r, WorkerOK(d, w, r),
           r.phase \in Looking, NEW b \in HeldAt(d, w, r.pos)
    PROVE  /\ b \in Blocks /\ w[1] \in SourcesOf(d) /\ w[1] \in FileID /\ r.pos \in Nat
           /\ MatchesAt(d, w[1], r.pos, b)
<1>1. b \in Blocks /\ b[1] \in fileChecksums /\ Block(b) = WindowOf(d, w, r.pos)
  BY DEF HeldAt, Listed
<1>2. w[1] \in SourcesOf(d) /\ w[1] \in FileID /\ d[w[1].name] \in Seq(Byte) /\ Len(d[w[1].name]) > 0
  BY WorkerFacts, SourceFacts
<1>3. r.pos \in Nat
  BY DEF WorkerOK, WorkerRecord
<1>4. CASE r.phase \in {"grid", "slide"}
  <2>1. w[2] >= 0 /\ r.pos \in ChunkStart(w)..LastOf(d, w) /\ bs \in Nat \ {0}
    BY <1>4, Sizes1 DEF WorkerOK
  <2>2. LastOf(d, w) \in Int /\ LastOf(d, w) + bs <= Len(d[w[1].name]) /\ Len(d[w[1].name]) \in Nat
    BY <1>2, <2>1, LastFacts, SourceFacts
  <2>3. r.pos + bs <= Len(d[w[1].name])
    <3>1. r.pos <= LastOf(d, w)
      BY <2>1, <1>3
    <3> QED
      BY <1>3, <2>1, <2>2, <3>1
  <2>4. FullWindow(d, w[1], r.pos, b)
    BY <1>1, <2>1, <2>3 DEF FullWindow, WindowOf, bs
  <2> QED
    BY <1>1, <1>2, <1>3, <2>4 DEF MatchesAt
<1>5. CASE r.phase = "last"
  <2>1. w[2] = -1 /\ PartialLength(d, w[1]) % bs # 0 /\ r.pos = LastBlockStart(PartialLength(d, w[1]))
    BY <1>5 DEF WorkerOK
  <2>2. d[w[1].name] # <<>>
    BY <1>2
  <2>3. ~(w[2] >= 0)
    BY <2>1
  <2>4. PartialWindow(d, w[1], r.pos, b)
    BY <1>1, <2>1, <2>2, <2>3 DEF PartialWindow, WindowOf, bs
  <2> QED
    BY <1>1, <1>2, <1>3, <2>4 DEF MatchesAt
<1> QED
  BY <1>4, <1>5 DEF Looking

(***************************************************************************)
(* The invariant                                                           *)
(***************************************************************************)
WorkersInv(d, wk) ==
    /\ wk \in [WorkersOf(d) -> WorkerRecord]
    /\ \A w \in WorkersOf(d) : WorkerOK(d, w, wk[w])

\* A place where block b is, in a file that is scanned.
TruePlace(d, loc, b) ==
    loc \in Location /\ loc.id \in SourcesOf(d) /\ loc.off \in Nat /\ MatchesAt(d, loc.id, loc.off, b)

Match(d) == {m \in [block : Blocks, loc : Location] : TruePlace(d, m.loc, m.block)}

LocsInv(d, l) ==
    /\ l \in [Blocks -> Location]
    /\ \A b \in Blocks : \/ l[b] = PrescanLocs(d)[b]
                         \/ PrescanLocs(d)[b] = NotFound /\ TruePlace(d, l[b], b)

NotLost(l, rep, chan, wk) ==
    \A b \in rep :
        \/ l[b].off # -1
        \/ \E i \in DOMAIN chan : chan[i].block = b
        \/ \E w \in DOMAIN wk : wk[w].sending = b

ScanInv ==
    /\ GoodDisk(disk) /\ table \in newCRCLookupTables
    /\ WorkersInv(disk, worker)
    /\ LocsInv(disk, locs)
    /\ reported \in SUBSET Blocks
    /\ matchChan \in Seq(Match(disk))
    /\ NotLost(locs, reported, matchChan, worker)
    /\ progressChan \in 0..progressChanCap
    /\ readErrors \in SUBSET WorkersOf(disk)
    /\ scanState \in {"scanning", "closed", "done", "failed"}

\* Before the scan: nothing is reported and every worker waits.
LEMMA ScanInit == Init => ScanInv
<1> SUFFICES ASSUME Init PROVE ScanInv
  OBVIOUS
<1>1. GoodDisk(disk) /\ table \in newCRCLookupTables
  BY ScanAssumption DEF Init, GoodDisk
<1>2. WorkersInv(disk, worker)
  <2>1. worker = [w \in WorkersOf(disk) |-> Idle]
    BY OfDisk DEF Init
  <2>2. \A w : WorkerOK(disk, w, Idle)
    BY IdleOK
  <2>3. Idle \in WorkerRecord
    BY <2>2 DEF WorkerOK
  <2> QED
    BY <2>1, <2>2, <2>3 DEF WorkersInv
<1>3. LocsInv(disk, locs)
  <2>1. ASSUME NEW b \in Blocks PROVE PrescanLocs(disk)[b] \in Location
    <3>1. b[1] \in Names /\ b[2] * sliceByteCount \in Int
      <4>1. PICK f \in Protected : b \in {<<f, i>> : i \in 0..Shards(f) - 1}
        BY DEF Blocks
      <4>2. b[1] = f /\ b[2] \in Int
        BY <4>1
      <4>3. f \in Names
        BY NamesFacts
      <4> QED
        BY <4>2, <4>3, SizeAssumption
    <3>2. InPlaceIn(FileIDOf(b[1]), b) \in Location
      BY <3>1 DEF InPlaceIn, FileIDOf, Location, FileID
    <3>3. NotFound \in Location
      BY DEF NotFound, Location, FileID
    <3> QED
      BY <3>2, <3>3 DEF PrescanLocs
  <2>2. PrescanLocs(disk) \in [Blocks -> Location]
    BY <2>1 DEF PrescanLocs
  <2> QED
    BY <2>2 DEF Init, LocsInv
<1>4. progressChan \in 0..progressChanCap
  BY Sizes1 DEF Init
<1> QED
  BY <1>1, <1>2, <1>3, <1>4 DEF Init, ScanInv, NotLost

\* A worker's new record fits, and the others are as they were.
LEMMA BecomeOK ==
    ASSUME ScanInv, disk' = disk, NEW w \in WorkersOf(disk), NEW r, WorkerOK(disk, w, r), Become(w, r)
    PROVE  /\ WorkersInv(disk', worker')
           /\ DOMAIN worker' = DOMAIN worker /\ worker'[w] = r
           /\ \A v \in DOMAIN worker : v # w => worker'[v] = worker[v]
<1>1. worker \in [WorkersOf(disk) -> WorkerRecord] /\ \A v \in WorkersOf(disk) : WorkerOK(disk, v, worker[v])
  BY DEF ScanInv, WorkersInv
<1>2. worker' = [worker EXCEPT ![w] = r] /\ r \in WorkerRecord
  BY DEF Become, WorkerOK
<1>3. worker' \in [WorkersOf(disk) -> WorkerRecord] /\ worker'[w] = r
      /\ \A v \in DOMAIN worker : v # w => worker'[v] = worker[v]
  BY <1>1, <1>2
<1>4. \A v \in WorkersOf(disk) : WorkerOK(disk, v, worker'[v])
  BY <1>1, <1>3
<1> QED
  BY <1>1, <1>3, <1>4 DEF WorkersInv

\* A worker that was sending nothing leaves no block behind.
LEMMA QuietStep ==
    ASSUME ScanInv, NEW w \in WorkersOf(disk), NEW r, WorkerOK(disk, w, r), Become(w, r),
           worker[w].sending = NoBlock, readErrors' \in SUBSET WorkersOf(disk),
           progressChan' \in 0..progressChanCap,
           UNCHANGED <<disk, table, locs, reported, matchChan, scanState>>
    PROVE  ScanInv'
<1>0. /\ disk' = disk /\ table' = table /\ locs' = locs /\ reported' = reported
      /\ matchChan' = matchChan /\ scanState' = scanState
  OBVIOUS
<1>1. /\ WorkersInv(disk', worker') /\ DOMAIN worker' = DOMAIN worker
      /\ \A v \in DOMAIN worker : v # w => worker'[v] = worker[v]
  BY <1>0, BecomeOK
<1>2. NoBlock \notin Blocks
  BY DEF NoBlock, Blocks
<1>3. NotLost(locs, reported, matchChan, worker')
  <2>1. ASSUME NEW b \in reported, NEW v \in DOMAIN worker, worker[v].sending = b
        PROVE  worker'[v].sending = b
    <3>1. b # NoBlock
      BY <1>2 DEF ScanInv
    <3> QED
      BY <1>1, <2>1, <3>1
  <2> QED
    BY <1>1, <2>1 DEF ScanInv, NotLost
<1> QED
  BY <1>0, <1>1, <1>3 DEF ScanInv

\* What a worker looks at, and that it sends nothing otherwise.
LEMMA WorkerState ==
    ASSUME ScanInv, NEW w \in DOMAIN worker
    PROVE  /\ w \in WorkersOf(disk) /\ GoodDisk(disk) /\ WorkerOK(disk, w, worker[w])
           /\ worker[w] \in WorkerRecord
           /\ worker[w].phase \notin Looking => worker[w].sending = NoBlock /\ worker[w].todo = {}
<1>1. w \in WorkersOf(disk) /\ GoodDisk(disk)
  BY DEF ScanInv, WorkersInv
<1>2. WorkerOK(disk, w, worker[w])
  BY <1>1 DEF ScanInv, WorkersInv
<1> QED
  BY <1>1, <1>2 DEF WorkerOK

\* The first window on the grid.
LEMMA FirstAlignedFacts ==
    ASSUME NEW w, ChunkStart(w) \in Nat
    PROVE  FirstAligned(w) \in Nat /\ FirstAligned(w) >= ChunkStart(w)
<1> DEFINE x == ChunkStart(w) + bs - 1
<1>0. bs \in Nat \ {0} /\ x \in Nat
  BY Sizes1
<1> HIDE DEF x
<1>1. BlockStart(x) \in Nat /\ x < BlockStart(x) + bs
  BY <1>0, BlockStartFacts
<1>2. FirstAligned(w) = BlockStart(x)
  BY DEF FirstAligned, BlockStart, x
<1> QED
  BY <1>0, <1>1, <1>2 DEF x

\* The last partial block starts in the file.
LEMMA LastBlockFacts ==
    ASSUME NEW n \in Nat, n % bs # 0
    PROVE  LastBlockStart(n) \in Nat
<1> DEFINE x == n + bs - 1
           q == x \div bs
<1>0. bs \in Nat \ {0} /\ bs = sliceByteCount
  BY Sizes1 DEF bs
<1>1. n # 0
  BY <1>0
<1>2. x \in Nat /\ x >= bs
  BY <1>0, <1>1
<1>3. q \in Int /\ x % bs \in 0..bs - 1 /\ x = bs * q + (x % bs)
  BY <1>0, <1>2, Remainder
<1>4. q >= 1
  BY <1>0, <1>2
<1>5. LastBlockStart(n) = (q - 1) * bs
  BY <1>0 DEF LastBlockStart
<1> HIDE DEF q
<1>6. (q - 1) * bs \in Nat
  BY <1>0, <1>3, <1>4
<1> QED
  BY <1>5, <1>6

(***************************************************************************)
(* One lemma for every action                                              *)
(***************************************************************************)

\* The semaphore is taken.
LEMMA AcquireStep == ASSUME ScanInv, NEW w \in DOMAIN worker, Acquire(w) PROVE ScanInv'
<1> DEFINE r == IF LastWindow(w) < ChunkStart(w) THEN ChunkScanned ELSE GridFrom(w, Idle, FirstAligned(w))
<1>1. w \in WorkersOf(disk) /\ GoodDisk(disk) /\ worker[w].sending = NoBlock
  BY WorkerState DEF Acquire, Looking
<1>2. w[2] >= 0 /\ Become(w, r) /\ UNCHANGED <<others, reported, matchChan>>
  BY DEF Acquire
<1>3. ChunkStart(w) \in Nat
  BY <1>1, <1>2, WorkerFacts
<1>4. WorkerOK(disk, w, ChunkScanned) /\ WorkerOK(disk, w, Idle)
  BY IdleOK
<1>5. WorkerOK(disk, w, GridFrom(w, Idle, FirstAligned(w)))
  BY <1>1, <1>2, <1>3, <1>4, FirstAlignedFacts, GridFromOK
<1>6. WorkerOK(disk, w, r)
  BY <1>4, <1>5
<1> HIDE DEF r
<1>7. readErrors' \in SUBSET WorkersOf(disk) /\ progressChan' \in 0..progressChanCap
  BY <1>2 DEF others, ScanInv
<1>8. UNCHANGED <<disk, table, locs, reported, matchChan, scanState>>
  BY <1>2 DEF others
<1> QED
  BY <1>1, <1>2, <1>6, <1>7, <1>8, QuietStep

\* The length a partial block is cut at.
LEMMA PartialLengthFacts ==
    ASSUME NEW d, GoodDisk(d), NEW id \in SourcesOf(d)
    PROVE  PartialLength(d, id) \in Nat
<1>1. id.kind = "file" => Content[id.name] \in Seq(Byte)
  BY SourceFacts, ContentAssumption
<1>2. Len(d[id.name]) \in Nat
  BY SourceFacts
<1> QED
  BY <1>1, <1>2 DEF PartialLength

\* The last partial block is read.
LEMMA StartLastStep == ASSUME ScanInv, NEW w \in DOMAIN worker, StartLast(w) PROVE ScanInv'
<1> DEFINE n == PartialLength(disk, w[1])
           at == ComeTo(Idle, "last", LastBlockStart(n), ChecksumIEEE(Window(w, LastBlockStart(n))))
           r == IF n % bs = 0 \/ \E v \in readErrors : v[1] = w[1] THEN Finished ELSE at
<1>1. w \in WorkersOf(disk) /\ GoodDisk(disk) /\ worker[w].sending = NoBlock
  BY WorkerState DEF StartLast, Looking
<1>2. w[2] = -1 /\ Become(w, r) /\ UNCHANGED <<others, reported, matchChan>>
  BY DEF StartLast
<1>3. n \in Nat
  BY <1>1, WorkerFacts, PartialLengthFacts
<1>4. WorkerOK(disk, w, Finished) /\ WorkerOK(disk, w, Idle)
  BY IdleOK
<1>5. n % bs # 0 => WorkerOK(disk, w, at)
  <2> SUFFICES ASSUME n % bs # 0 PROVE WorkerOK(disk, w, at)
    OBVIOUS
  <2>1. LastBlockStart(n) \in Nat
    BY <1>3, LastBlockFacts
  <2>2. ChecksumIEEE(Window(w, LastBlockStart(n))) = ChecksumIEEE(WindowOf(disk, w, LastBlockStart(n)))
    BY OfDisk
  <2>3. "last" \in Looking /\ FALSE \in BOOLEAN /\ "last" \notin {"grid", "slide"}
    BY DEF Looking
  <2> QED
    BY <1>1, <1>2, <1>4, <2>1, <2>2, <2>3, ComeToOK
<1>6. WorkerOK(disk, w, r)
  BY <1>4, <1>5
<1> HIDE DEF r
<1>7. readErrors' \in SUBSET WorkersOf(disk) /\ progressChan' \in 0..progressChanCap
  BY <1>2 DEF others, ScanInv
<1>8. UNCHANGED <<disk, table, locs, reported, matchChan, scanState>>
  BY <1>2 DEF others
<1> QED
  BY <1>1, <1>2, <1>6, <1>7, <1>8, QuietStep

\* A read fails.
LEMMA ReadFailsStep == ASSUME ScanInv, NEW w \in DOMAIN worker, ReadFails(w) PROVE ScanInv'
<1>1. w \in WorkersOf(disk) /\ GoodDisk(disk) /\ worker[w].sending = NoBlock
  BY WorkerState DEF ReadFails, AtWindow, Looking
<1>2. Become(w, Finished) /\ WorkerOK(disk, w, Finished)
  BY IdleOK DEF ReadFails
<1>3. readErrors' \in SUBSET WorkersOf(disk) /\ progressChan' \in 0..progressChanCap
  BY <1>1 DEF ReadFails, ScanInv
<1>4. UNCHANGED <<disk, table, locs, reported, matchChan, scanState>>
  BY DEF ReadFails
<1> QED
  BY <1>1, <1>2, <1>3, <1>4, QuietStep

\* A worker gives up.
LEMMA AbandonStep == ASSUME ScanInv, NEW w \in DOMAIN worker, Abandon(w) PROVE ScanInv'
<1>1. w \in WorkersOf(disk) /\ GoodDisk(disk) /\ worker[w].sending = NoBlock
  BY WorkerState DEF Abandon, AtWindow, Looking
<1>2. PICK r \in {Finished, ChunkScanned} : Become(w, r)
  BY DEF Abandon
<1>3. WorkerOK(disk, w, r)
  BY <1>2, IdleOK
<1>4. readErrors' \in SUBSET WorkersOf(disk) /\ progressChan' \in 0..progressChanCap
  BY DEF Abandon, others, ScanInv
<1>5. UNCHANGED <<disk, table, locs, reported, matchChan, scanState>>
  BY DEF Abandon, others
<1> QED
  BY <1>1, <1>2, <1>3, <1>4, <1>5, QuietStep

\* What a lookup finds and MD5 confirms is in the window.
LEMMA MatchedFacts ==
    ASSUME ScanInv, NEW w \in DOMAIN worker, worker[w].phase \in Looking
    PROVE  /\ Found(w) \subseteq Listed
           /\ Hashed(w, worker[w].pos) = HeldAt(disk, w, worker[w].pos)
           /\ Matched(w, worker[w].pos) \subseteq HeldAt(disk, w, worker[w].pos)
<1> DEFINE c == worker[w].crc
           win == WindowOf(disk, w, worker[w].pos)
<1>1. w \in WorkersOf(disk) /\ GoodDisk(disk) /\ worker[w].pos \in Nat /\ c = ChecksumIEEE(win)
  BY WorkerState DEF WorkerOK, WorkerRecord
<1>2. c \in SUBSET CrcOnes /\ table \in newCRCLookupTables
  BY WorkerState DEF WorkerRecord, ScanInv
<1>3. Found(w) = IF c \in DOMAIN checksumMap THEN checksumMap[c] ELSE {}
  BY <1>2, LookupFindsAll DEF Found
<1> HIDE DEF c
<1>4. Found(w) = {b \in Listed : ChecksumIEEE(Block(b)) = c}
  <2>1. CASE c \in DOMAIN checksumMap
    BY <1>3, <2>1 DEF checksumMap
  <2>2. CASE c \notin DOMAIN checksumMap
    <3>1. \A b \in Listed : ChecksumIEEE(Block(b)) # c
      BY <2>2 DEF checksumMap
    <3> QED
      BY <1>3, <2>2, <3>1
  <2> QED
    BY <2>1, <2>2
<1>5. Window(w, worker[w].pos) = win
  BY OfDisk
<1> HIDE DEF win
<1>6. Hashed(w, worker[w].pos) = HeldAt(disk, w, worker[w].pos)
  <2>1. \A b \in Listed : Block(b) = win => ChecksumIEEE(Block(b)) = c
    BY <1>1
  <2>2. Hashed(w, worker[w].pos) = {b \in Found(w) : Block(b) = win}
    BY <1>5 DEF Hashed
  <2>3. HeldAt(disk, w, worker[w].pos) = {b \in Listed : Block(b) = win}
    BY DEF HeldAt, win
  <2> QED
    BY <1>4, <2>1, <2>2, <2>3
<1> QED
  BY <1>4, <1>6 DEF Matched

\* A window is looked up.
LEMMA LookStep == ASSUME ScanInv, NEW w \in DOMAIN worker, Look(w) PROVE ScanInv'
<1> DEFINE m == Matched(w, worker[w].pos)
           r == IF m = {} THEN Advance(w, worker[w], FALSE) ELSE [worker[w] EXCEPT !.todo = m]
<1>1. /\ w \in WorkersOf(disk) /\ GoodDisk(disk) /\ worker[w].phase \in Looking
      /\ worker[w].sending = NoBlock /\ WorkerOK(disk, w, worker[w]) /\ worker[w] \in WorkerRecord
  BY WorkerState DEF Look, AtWindow, Looking
<1>2. Become(w, r) /\ UNCHANGED <<others, reported, matchChan>>
  BY DEF Look
<1>3. m \subseteq HeldAt(disk, w, worker[w].pos)
  BY <1>1, MatchedFacts
<1>4. m \subseteq Blocks
  BY <1>3 DEF HeldAt, Listed
<1>5. WorkerOK(disk, w, Advance(w, worker[w], FALSE))
  BY <1>1, AdvanceOK
<1> HIDE DEF m
<1>6. WorkerOK(disk, w, [worker[w] EXCEPT !.todo = m])
  <2> DEFINE s == [worker[w] EXCEPT !.todo = m]
             o == worker[w]
  <2>1. /\ s \in WorkerRecord /\ s.claimed = o.claimed /\ s.phase = o.phase /\ s.pos = o.pos
        /\ s.crc = o.crc /\ s.todo = m /\ s.sending = o.sending
    BY <1>1, <1>4 DEF WorkerRecord
  <2> HIDE DEF s
  <2>2. WorkerOK(disk, w, s)
    BY <1>1, <1>3, <2>1 DEF WorkerOK
  <2> QED
    BY <2>2 DEF s
<1>7. WorkerOK(disk, w, r)
  BY <1>5, <1>6
<1> HIDE DEF r
<1>8. readErrors' \in SUBSET WorkersOf(disk) /\ progressChan' \in 0..progressChanCap
  BY <1>2 DEF others, ScanInv
<1>9. UNCHANGED <<disk, table, locs, reported, matchChan, scanState>>
  BY <1>2 DEF others
<1> QED
  BY <1>1, <1>2, <1>7, <1>8, <1>9, QuietStep

\* A match is flagged.
LEMMA ReportStep ==
    ASSUME ScanInv, NEW w \in DOMAIN worker, NEW b, Report(w, b) PROVE ScanInv'
<1> DEFINE o == worker[w]
           r == [o EXCEPT !.todo = @ \ {b}, !.sending = b, !.reportedNew = @ \/ b \notin reported]
<1>1. /\ w \in WorkersOf(disk) /\ GoodDisk(disk) /\ WorkerOK(disk, w, o) /\ o \in WorkerRecord
      /\ o.phase \in Looking
  BY WorkerState DEF Report
<1>2. b \in o.todo /\ o.sending = NoBlock /\ reported' = reported \cup {b} /\ Become(w, r)
      /\ UNCHANGED <<others, matchChan>>
  BY DEF Report
<1>3. b \in Blocks /\ o.todo \subseteq HeldAt(disk, w, o.pos)
  BY <1>1, <1>2 DEF WorkerRecord, WorkerOK
<1>4. WorkerOK(disk, w, r)
  <2>1. o.reportedNew \in BOOLEAN /\ o.todo \ {b} \in SUBSET Blocks
    BY <1>1 DEF WorkerRecord
  <2>2. (o.reportedNew \/ b \notin reported) \in BOOLEAN
    BY <2>1
  <2>3. /\ r \in WorkerRecord /\ r.claimed = o.claimed /\ r.phase = o.phase /\ r.pos = o.pos
        /\ r.crc = o.crc /\ r.todo = o.todo \ {b} /\ r.sending = b
    BY <1>1, <1>3, <2>1, <2>2 DEF WorkerRecord
  <2> HIDE DEF r, o
  <2> QED
    BY <1>1, <1>2, <1>3, <2>3 DEF WorkerOK
<1>5. r.sending = b
  BY <1>1 DEF WorkerRecord
<1> HIDE DEF r
<1>6. /\ disk' = disk /\ table' = table /\ locs' = locs /\ matchChan' = matchChan
      /\ progressChan' = progressChan /\ readErrors' = readErrors /\ scanState' = scanState
  BY <1>2 DEF others
<1>7. /\ WorkersInv(disk', worker') /\ DOMAIN worker' = DOMAIN worker /\ worker'[w] = r
      /\ \A v \in DOMAIN worker : v # w => worker'[v] = worker[v]
  BY <1>1, <1>2, <1>4, <1>6, BecomeOK
<1>8. NoBlock \notin Blocks
  BY DEF NoBlock, Blocks
<1>9. NotLost(locs, reported', matchChan, worker')
  <2>1. ASSUME NEW c \in reported, NEW v \in DOMAIN worker, worker[v].sending = c
        PROVE  worker'[v].sending = c
    <3>1. c # NoBlock
      BY <1>8 DEF ScanInv
    <3> QED
      BY <1>2, <1>7, <2>1, <3>1
  <2>2. worker'[w].sending = b /\ w \in DOMAIN worker'
    BY <1>5, <1>7
  <2>3. NotLost(locs, reported, matchChan, worker')
    BY <1>7, <2>1 DEF ScanInv, NotLost
  <2> QED
    BY <1>2, <2>2, <2>3 DEF NotLost
<1>10. reported' \in SUBSET Blocks
  BY <1>2, <1>3 DEF ScanInv
<1> QED
  BY <1>6, <1>7, <1>9, <1>10 DEF ScanInv

\* A match is sent.
LEMMA SendStep == ASSUME ScanInv, NEW w \in DOMAIN worker, Send(w) PROVE ScanInv'
<1> DEFINE o == worker[w]
           e == [block |-> o.sending, loc |-> [id |-> w[1], off |-> o.pos]]
           inPlace == InPlace(w, Hashed(w, o.pos), o.pos)
           r == IF o.todo # {} THEN [o EXCEPT !.sending = NoBlock] ELSE Advance(w, o, inPlace)
<1>1. /\ o.sending # NoBlock /\ matchChan' = Append(matchChan, e) /\ Become(w, r)
      /\ UNCHANGED <<others, reported>>
  BY DEF Send
<1>2. /\ w \in WorkersOf(disk) /\ GoodDisk(disk) /\ WorkerOK(disk, w, o) /\ o \in WorkerRecord
      /\ o.phase \in Looking
  BY <1>1, WorkerState
<1>3. inPlace \in BOOLEAN
  BY DEF InPlace
<1> HIDE DEF inPlace
<1>4. o.sending \in HeldAt(disk, w, o.pos)
  BY <1>1, <1>2 DEF WorkerOK
<1>5. e \in Match(disk) /\ e.block = o.sending
  <2>1. /\ o.sending \in Blocks /\ w[1] \in SourcesOf(disk) /\ w[1] \in FileID /\ o.pos \in Nat
        /\ MatchesAt(disk, w[1], o.pos, o.sending)
    BY <1>2, <1>4, HeldMatches
  <2>2. [id |-> w[1], off |-> o.pos] \in Location
    BY <2>1 DEF Location
  <2> QED
    BY <2>1, <2>2 DEF Match, TruePlace
<1>6. WorkerOK(disk, w, [o EXCEPT !.sending = NoBlock])
  <2> DEFINE s == [o EXCEPT !.sending = NoBlock]
  <2>1. /\ s \in WorkerRecord /\ s.claimed = o.claimed /\ s.phase = o.phase /\ s.pos = o.pos
        /\ s.crc = o.crc /\ s.todo = o.todo /\ s.sending = NoBlock
    BY <1>2 DEF WorkerRecord
  <2> HIDE DEF s, o
  <2>2. WorkerOK(disk, w, s)
    BY <1>2, <2>1 DEF WorkerOK
  <2> QED
    BY <2>2 DEF s
<1>7. WorkerOK(disk, w, Advance(w, o, inPlace))
  BY <1>2, <1>3, AdvanceOK
<1>8. WorkerOK(disk, w, r)
  BY <1>6, <1>7
<1> HIDE DEF r
<1>9. /\ disk' = disk /\ table' = table /\ locs' = locs /\ reported' = reported
      /\ progressChan' = progressChan /\ readErrors' = readErrors /\ scanState' = scanState
  BY <1>1 DEF others
<1>10. /\ WorkersInv(disk', worker') /\ DOMAIN worker' = DOMAIN worker
       /\ \A v \in DOMAIN worker : v # w => worker'[v] = worker[v]
  BY <1>1, <1>2, <1>8, <1>9, BecomeOK
<1> HIDE DEF e
<1>11. /\ matchChan \in Seq(Match(disk)) /\ matchChan' \in Seq(Match(disk))
       /\ Len(matchChan) \in Nat /\ Len(matchChan') = Len(matchChan) + 1
       /\ matchChan'[Len(matchChan) + 1] = e
       /\ \A i \in 1..Len(matchChan) : matchChan'[i] = matchChan[i]
  BY <1>1, <1>5 DEF ScanInv
<1>12. /\ \A i \in DOMAIN matchChan : i \in DOMAIN matchChan' /\ matchChan'[i] = matchChan[i]
       /\ Len(matchChan) + 1 \in DOMAIN matchChan'
  BY <1>11
<1>13. NotLost(locs, reported, matchChan', worker')
  <2> SUFFICES ASSUME NEW b \in reported
               PROVE  \/ locs[b].off # -1
                      \/ \E i \in DOMAIN matchChan' : matchChan'[i].block = b
                      \/ \E v \in DOMAIN worker' : worker'[v].sending = b
    BY DEF NotLost
  <2>1. CASE locs[b].off # -1
    BY <2>1
  <2>2. CASE \E i \in DOMAIN matchChan : matchChan[i].block = b
    BY <1>12, <2>2
  <2>3. CASE \E v \in DOMAIN worker : worker[v].sending = b
    <3>1. PICK v \in DOMAIN worker : worker[v].sending = b
      BY <2>3
    <3>2. CASE v = w
      BY <1>5, <1>11, <1>12, <3>1, <3>2
    <3>3. CASE v # w
      BY <1>10, <3>1, <3>3
    <3> QED
      BY <3>2, <3>3
  <2> QED
    BY <2>1, <2>2, <2>3 DEF ScanInv, NotLost
<1> QED
  BY <1>9, <1>10, <1>11, <1>13 DEF ScanInv

\* Progress is reported.
LEMMA AddProgressStep == ASSUME ScanInv, NEW w \in DOMAIN worker, AddProgress(w) PROVE ScanInv'
<1>1. w \in WorkersOf(disk) /\ GoodDisk(disk) /\ worker[w].sending = NoBlock
  BY WorkerState DEF AddProgress, Looking
<1>2. Become(w, Finished) /\ WorkerOK(disk, w, Finished)
  BY IdleOK DEF AddProgress
<1>3. readErrors' \in SUBSET WorkersOf(disk) /\ progressChan' \in 0..progressChanCap
  BY Sizes1 DEF AddProgress, ScanInv
<1>4. UNCHANGED <<disk, table, locs, reported, matchChan, scanState>>
  BY DEF AddProgress
<1> QED
  BY <1>1, <1>2, <1>3, <1>4, QuietStep

\* A match is collected.
LEMMA CollectStep == ASSUME ScanInv, Collect PROVE ScanInv'
<1> DEFINE m == Head(matchChan)
<1>1. /\ matchChan # <<>> /\ matchChan' = Tail(matchChan)
      /\ locs' = IF locs[m.block].off = -1 THEN [locs EXCEPT ![m.block] = m.loc] ELSE locs
      /\ UNCHANGED <<disk, table, reported, progressChan, worker, readErrors, cancelled, scanState>>
  BY DEF Collect
<1>2. /\ matchChan \in Seq(Match(disk)) /\ m \in Match(disk) /\ m = matchChan[1]
      /\ matchChan' \in Seq(Match(disk)) /\ Len(matchChan) \in Nat /\ Len(matchChan) > 0
      /\ Len(matchChan') = Len(matchChan) - 1
      /\ \A i \in 1..Len(matchChan) - 1 : matchChan'[i] = matchChan[i + 1]
  BY <1>1 DEF ScanInv
<1> HIDE DEF m
<1>3. m.block \in Blocks /\ m.loc \in Location /\ TruePlace(disk, m.loc, m.block)
  BY <1>2 DEF Match
<1>4. m.loc.off \in Nat
  BY <1>3 DEF TruePlace
<1>5. locs \in [Blocks -> Location]
      /\ \A b \in Blocks : \/ locs[b] = PrescanLocs(disk)[b]
                           \/ PrescanLocs(disk)[b] = NotFound /\ TruePlace(disk, locs[b], b)
  BY DEF ScanInv, LocsInv
<1>6. /\ locs' \in [Blocks -> Location]
      /\ \A b \in Blocks : locs'[b] = IF b = m.block /\ locs[b].off = -1 THEN m.loc ELSE locs[b]
  BY <1>1, <1>3, <1>5
<1>7. LocsInv(disk, locs')
  <2>1. ASSUME NEW b \in Blocks, locs[b].off = -1 PROVE PrescanLocs(disk)[b] = NotFound
    <3>1. CASE locs[b] = PrescanLocs(disk)[b]
      <4>1. CASE PrescanLocs(disk)[b] = InPlaceIn(FileIDOf(b[1]), b)
        <5>1. PrescanLocs(disk)[b].off = b[2] * sliceByteCount
          BY <4>1 DEF InPlaceIn
        <5>2. b[2] \in Nat
          BY DEF Blocks
        <5>3. b[2] * sliceByteCount \in Nat
          BY <5>2, SizeAssumption
        <5> QED
          BY <2>1, <3>1, <5>1, <5>3
      <4> QED
        BY <4>1 DEF PrescanLocs
    <3>2. CASE TruePlace(disk, locs[b], b)
      BY <2>1, <3>2 DEF TruePlace
    <3> QED
      BY <1>5, <3>1, <3>2
  <2>2. ASSUME NEW b \in Blocks
        PROVE  \/ locs'[b] = PrescanLocs(disk)[b]
               \/ PrescanLocs(disk)[b] = NotFound /\ TruePlace(disk, locs'[b], b)
    <3>1. CASE b = m.block /\ locs[b].off = -1
      BY <1>3, <1>6, <2>1, <3>1
    <3>2. CASE ~(b = m.block /\ locs[b].off = -1)
      BY <1>5, <1>6, <3>2
    <3> QED
      BY <3>1, <3>2
  <2> QED
    BY <1>6, <2>2 DEF LocsInv
<1>8. \A b \in Blocks : locs[b].off # -1 => locs'[b].off # -1
  BY <1>6
<1>9. locs'[m.block].off # -1
  BY <1>3, <1>4, <1>6
<1>10. NotLost(locs', reported, matchChan', worker)
  <2> SUFFICES ASSUME NEW b \in reported
               PROVE  \/ locs'[b].off # -1
                      \/ \E i \in DOMAIN matchChan' : matchChan'[i].block = b
                      \/ \E v \in DOMAIN worker : worker[v].sending = b
    BY DEF NotLost
  <2>0. b \in Blocks
    BY DEF ScanInv
  <2>1. CASE locs[b].off # -1
    BY <1>8, <2>0, <2>1
  <2>2. CASE \E i \in DOMAIN matchChan : matchChan[i].block = b
    <3>1. PICK i \in DOMAIN matchChan : matchChan[i].block = b
      BY <2>2
    <3>2. CASE i = 1
      BY <1>2, <1>9, <3>1, <3>2
    <3>3. CASE i # 1
      <4>1. i - 1 \in 1..Len(matchChan) - 1 /\ (i - 1) + 1 = i /\ i - 1 \in DOMAIN matchChan'
        BY <1>2, <3>3
      <4> QED
        BY <1>2, <3>1, <4>1
    <3> QED
      BY <3>2, <3>3
  <2>3. CASE \E v \in DOMAIN worker : worker[v].sending = b
    BY <2>3
  <2> QED
    BY <2>1, <2>2, <2>3 DEF ScanInv, NotLost
<1> QED
  BY <1>1, <1>2, <1>7, <1>10 DEF ScanInv

\* The other steps leave workers, channel and locations alone.
LEMMA OtherStep ==
    ASSUME ScanInv, CloseChan \/ Return \/ Drain \/ Cancel \/ UNCHANGED vars
    PROVE  ScanInv'
<1>1. UNCHANGED <<disk, table, locs, reported, matchChan, worker, readErrors>>
  BY DEF CloseChan, Return, Drain, Cancel, vars
<1>2. scanState' \in {"scanning", "closed", "done", "failed"}
  BY DEF ScanInv, CloseChan, Return, Drain, Cancel, vars
<1>3. progressChan' \in 0..progressChanCap
  <2>1. progressChan \in 0..progressChanCap /\ progressChanCap \in Nat
    BY Sizes1 DEF ScanInv
  <2>2. progressChan' = progressChan \/ (progressChan > 0 /\ progressChan' = progressChan - 1)
    BY DEF CloseChan, Return, Drain, Cancel, vars
  <2> QED
    BY <2>1, <2>2
<1> QED
  BY <1>1, <1>2, <1>3 DEF ScanInv

\* Every step preserves the invariant.
LEMMA ScanStep == ScanInv /\ [Next]_vars => ScanInv'
<1> SUFFICES ASSUME ScanInv, [Next]_vars PROVE ScanInv'
  OBVIOUS
<1>1. CASE WorkerNext
  <2>1. PICK w \in DOMAIN worker :
           \/ Acquire(w) \/ StartLast(w) \/ ReadFails(w) \/ Abandon(w) \/ Look(w)
           \/ (\E b \in worker[w].todo : Report(w, b))
           \/ Send(w) \/ AddProgress(w)
    BY <1>1 DEF WorkerNext
  <2> QED
    BY <2>1, AcquireStep, StartLastStep, ReadFailsStep, AbandonStep, LookStep, ReportStep,
       SendStep, AddProgressStep
<1>2. CASE Collect
  BY <1>2, CollectStep
<1>3. CASE CloseChan \/ Return \/ Drain \/ Cancel \/ UNCHANGED vars
  BY <1>3, OtherStep
<1> QED
  BY <1>1, <1>2, <1>3 DEF Next, ScanNext, Stopped

\* The invariant holds throughout.
LEMMA ScanInvariant == Spec => []ScanInv
  BY ScanInit, ScanStep, PTL DEF Spec

(***************************************************************************)
(* What it says                                                            *)
(***************************************************************************)

\* Every variable has its type, in every scan.
THEOREM ScanTypeCorrect == Spec => []ScanTypeOK
<1>1. ScanInv => ScanTypeOK
  <2> SUFFICES ASSUME ScanInv PROVE ScanTypeOK
    OBVIOUS
  <2>1. worker \in [Workers -> WorkerRecord] /\ readErrors \subseteq Workers
    BY OfDisk DEF ScanInv, WorkersInv
  <2>2. \A i \in DOMAIN matchChan : matchChan[i] \in [block : Blocks, loc : Location]
    <3>1. \A i \in DOMAIN matchChan : matchChan[i] \in Match(disk)
      BY DEF ScanInv
    <3> QED
      BY <3>1 DEF Match
  <2> QED
    BY <2>1, <2>2 DEF ScanInv, LocsInv, ScanTypeOK, WorkerRecord
<1> QED
  BY <1>1, ScanInvariant, PTL

\* matchBlock and the collector: a block that is flagged is located, in the channel or
\* about to be sent, however many workers and whatever the size of the channel.
THEOREM ReportedNeverLost == Spec => []ReportedNotLost
<1>1. ScanInv => ReportedNotLost
  BY DEF ScanInv, NotLost, ReportedNotLost
<1> QED
  BY <1>1, ScanInvariant, PTL

\* crc32Window in scanChunk: the CRC a worker looks up is that of its window, whatever
\* it skipped, jumped or claimed on the way, for every width and polynomial.
THEOREM CrcAlwaysRight == Spec => []RollingCrcRight
<1>1. ScanInv => RollingCrcRight
  <2> SUFFICES ASSUME ScanInv, NEW w \in DOMAIN worker, AtWindow(w)
               PROVE  worker[w].crc = ChecksumIEEE(Window(w, worker[w].pos))
    BY DEF RollingCrcRight
  <2>1. WorkerOK(disk, w, worker[w]) /\ worker[w].phase \in Looking
    BY WorkerState DEF AtWindow, Looking
  <2> QED
    BY <2>1, OfDisk DEF WorkerOK
<1> QED
  BY <1>1, ScanInvariant, PTL

\* crcLookupTable: a lookup finds all the blocks of a CRC, for every set of blocks and
\* every order of insertion.
THEOREM LookupAlwaysComplete == Spec => []LookupComplete
<1>1. ScanInv => LookupComplete
  <2> SUFFICES ASSUME ScanInv, NEW c \in SUBSET CrcOnes
               PROVE  Lookup(table, c) = IF c \in DOMAIN checksumMap THEN checksumMap[c] ELSE {}
    BY DEF LookupComplete
  <2>1. table \in newCRCLookupTables
    BY DEF ScanInv
  <2> QED
    BY <2>1, LookupFindsAll
<1> QED
  BY <1>1, ScanInvariant, PTL

\* The collector: no location is ever written where the block is not.
THEOREM LocationsAlwaysTrue == Spec => []LocationsTrue
<1>1. ScanInv => LocationsTrue
  BY DEF ScanInv, LocsInv, TruePlace, LocationsTrue
<1> QED
  BY <1>1, ScanInvariant, PTL

\* Chunks of a file have no window in common.
LEMMA ChunksApart ==
    ASSUME NEW d, GoodDisk(d), NEW v \in WorkersOf(d), NEW w \in WorkersOf(d),
           v[1] = w[1], v # w, v[2] >= 0, w[2] >= 0
    PROVE  (ChunkStart(v)..LastOf(d, v)) \cap (ChunkStart(w)..LastOf(d, w)) = {}
<1>1. /\ v[2] \in Int /\ w[2] \in Int /\ v = <<v[1], v[2]>> /\ w = <<w[1], w[2]>>
      /\ ChunkStart(v) \in Nat /\ ChunkStart(w) \in Nat
  BY WorkerFacts
<1>2. v[2] # w[2]
  BY <1>1
<1>3. /\ LastOf(d, v) \in Int /\ LastOf(d, v) < ChunkStart(v) + scanChunkSize
      /\ LastOf(d, w) \in Int /\ LastOf(d, w) < ChunkStart(w) + scanChunkSize
  BY LastFacts
<1>4. ASSUME NEW i \in Nat, NEW j \in Nat, i < j
      PROVE  i * scanChunkSize + scanChunkSize <= j * scanChunkSize
  <2>1. j - (i + 1) \in Nat /\ scanChunkSize \in Nat
    BY <1>4, Sizes1
  <2>2. (j - (i + 1)) * scanChunkSize \in Nat
    BY <2>1
  <2>3. (j - (i + 1)) * scanChunkSize = j * scanChunkSize - (i * scanChunkSize + scanChunkSize)
    BY <2>1
  <2>4. j * scanChunkSize \in Int /\ i * scanChunkSize \in Int
    BY <2>1
  <2> QED
    BY <2>1, <2>2, <2>3, <2>4
<1>5. CASE v[2] < w[2]
  <2>1. ChunkStart(v) + scanChunkSize <= ChunkStart(w)
    BY <1>1, <1>4, <1>5 DEF ChunkStart
  <2> QED
    BY <1>1, <1>3, <2>1, Sizes1
<1>6. CASE w[2] < v[2]
  <2>1. ChunkStart(w) + scanChunkSize <= ChunkStart(v)
    BY <1>1, <1>4, <1>6 DEF ChunkStart
  <2> QED
    BY <1>1, <1>3, <2>1, Sizes1
<1> QED
  BY <1>1, <1>2, <1>5, <1>6

\* scanFileChunks: no window is looked at by two workers and no grid block is claimed
\* by two, for every size of blocks, chunks and files.
THEOREM ChunksAlwaysDisjoint == Spec => []ChunksDisjoint
<1>1. ScanInv => ChunksDisjoint
  <2> SUFFICES ASSUME ScanInv, NEW v \in DOMAIN worker, NEW w \in DOMAIN worker, v[1] = w[1], v # w
               PROVE  /\ worker[v].claimed \cap worker[w].claimed = {}
                      /\ {worker[v].phase, worker[w].phase} \subseteq {"grid", "slide"}
                            => worker[v].pos # worker[w].pos
    BY DEF ChunksDisjoint
  <2>1. /\ GoodDisk(disk) /\ v \in WorkersOf(disk) /\ w \in WorkersOf(disk)
        /\ WorkerOK(disk, v, worker[v]) /\ WorkerOK(disk, w, worker[w])
    BY WorkerState
  <2>2. v[2] >= 0 /\ w[2] >= 0 =>
          (ChunkStart(v)..LastOf(disk, v)) \cap (ChunkStart(w)..LastOf(disk, w)) = {}
    BY <2>1, ChunksApart
  <2>3. worker[v].claimed \cap worker[w].claimed = {}
    BY <2>1, <2>2 DEF WorkerOK
  <2>4. ASSUME {worker[v].phase, worker[w].phase} \subseteq {"grid", "slide"}
        PROVE  worker[v].pos # worker[w].pos
    BY <2>1, <2>2, <2>4 DEF WorkerOK
  <2> QED
    BY <2>3, <2>4
<1> QED
  BY <1>1, ScanInvariant, PTL

(***************************************************************************)
(* The grid                                                                *)
(***************************************************************************)

\* The quotient is what a number is a multiple of.
LEMMA QuotientIs ==
    ASSUME NEW m \in Nat \ {0}, NEW q \in Nat, NEW r \in 0..m - 1
    PROVE  (m * q + r) \div m = q /\ (m * q + r) % m = r
<1> DEFINE x == m * q + r
<1>1. x \in Nat
  OBVIOUS
<1>2. x % m = r
  BY RemainderIs
<1>3. x \div m \in Int /\ x = m * (x \div m) + (x % m)
  <2> HIDE DEF x
  <2> QED
    BY <1>1, Remainder
<1> DEFINE d == x \div m
<1>4. m * (d - q) = 0 /\ d \in Int
  BY <1>2, <1>3
<1> HIDE DEF d
<1>5. d = q
  BY <1>4
<1> QED
  BY <1>2, <1>5 DEF d

\* A cell is on the grid if it starts its block; the next on the grid is a block on.
LEMMA GridFacts ==
    ASSUME NEW a \in Nat
    PROVE  /\ OnGrid(a) <=> \E k \in Nat : a = bs * k
           /\ OnGrid(a) <=> BlockStart(a) = a
           /\ OnGrid(BlockStart(a))
           /\ OnGrid(a) => OnGrid(a + bs)
           /\ \A o \in Nat : OnGrid(a) /\ OnGrid(o) /\ a < o => a + bs <= o
           /\ BlockStart(a + 1) \in {BlockStart(a), BlockStart(a) + bs}
           /\ BlockStart(a + 1) = BlockStart(a) + bs => BlockStart(a + 1) = a + 1
<1>0. bs \in Nat \ {0} /\ bs = sliceByteCount
  BY Sizes1 DEF bs
<1>1. ASSUME NEW b \in Nat
      PROVE  /\ b \div bs \in Nat /\ b % bs \in 0..bs - 1 /\ b = bs * (b \div bs) + (b % bs)
             /\ BlockStart(b) = bs * (b \div bs)
             /\ OnGrid(b) <=> b % bs = 0
  <2>1. b \div bs \in Int /\ b % bs \in 0..bs - 1 /\ b = bs * (b \div bs) + (b % bs)
    BY <1>0, Remainder
  <2>2. b \div bs >= 0
    BY <1>0
  <2>3. (b \div bs) * bs = bs * (b \div bs)
    BY <1>0, <2>1
  <2> QED
    BY <1>0, <2>1, <2>2, <2>3 DEF BlockStart, OnGrid
<1>2. ASSUME NEW b \in Nat
      PROVE  OnGrid(b) <=> \E k \in Nat : b = bs * k
  <2>1. ASSUME OnGrid(b) PROVE \E k \in Nat : b = bs * k
    <3> DEFINE q == b \div bs
    <3>1. q \in Nat /\ b = bs * q + 0
      BY <1>1, <2>1
    <3> HIDE DEF q
    <3>2. b = bs * q
      BY <1>0, <3>1
    <3> QED
      BY <3>1, <3>2
  <2>2. ASSUME NEW k \in Nat, b = bs * k PROVE OnGrid(b)
    <3>1. bs * k + 0 = b /\ 0 \in 0..bs - 1
      BY <1>0, <2>2
    <3>2. (bs * k + 0) % bs = 0
      BY <1>0, <3>1, QuotientIs
    <3> QED
      BY <1>1, <3>1, <3>2
  <2> QED
    BY <2>1, <2>2
<1>3. OnGrid(a) <=> BlockStart(a) = a
  <2> DEFINE q == a \div bs
             r == a % bs
  <2>1. /\ q \in Nat /\ r \in 0..bs - 1 /\ a = bs * q + r /\ BlockStart(a) = bs * q
        /\ OnGrid(a) <=> r = 0
    BY <1>1
  <2> HIDE DEF q, r
  <2>2. bs * q \in Nat
    BY <1>0, <2>1
  <2> QED
    BY <1>0, <2>1, <2>2
<1>4. OnGrid(BlockStart(a))
  <2>1. BlockStart(a) \in Nat /\ a \div bs \in Nat /\ BlockStart(a) = bs * (a \div bs)
    BY <1>1, BlockStartFacts
  <2> QED
    BY <1>2, <2>1
<1>5. ASSUME OnGrid(a) PROVE OnGrid(a + bs)
  <2>1. PICK k \in Nat : a = bs * k
    BY <1>2, <1>5
  <2>2. a + bs = bs * (k + 1) /\ k + 1 \in Nat /\ a + bs \in Nat
    BY <1>0, <2>1
  <2> QED
    BY <1>2, <2>2
<1>6. ASSUME NEW o \in Nat, OnGrid(a), OnGrid(o), a < o PROVE a + bs <= o
  <2>1. PICK k \in Nat : a = bs * k
    BY <1>2, <1>6
  <2>2. PICK j \in Nat : o = bs * j
    BY <1>2, <1>6
  <2>3. bs * (j - k) > 0 /\ j - k \in Int
    BY <1>0, <1>6, <2>1, <2>2
  <2>4. j - k >= 1
    BY <1>0, <2>3
  <2>5. bs * (j - k) >= bs
    BY <1>0, <2>3, <2>4
  <2>6. bs * (j - k) = o - a
    BY <1>0, <2>1, <2>2
  <2> QED
    BY <1>0, <2>5, <2>6
<1>7. /\ BlockStart(a + 1) \in {BlockStart(a), BlockStart(a) + bs}
      /\ BlockStart(a + 1) = BlockStart(a) + bs => BlockStart(a + 1) = a + 1
  <2> DEFINE q == a \div bs
             r == a % bs
  <2>1. q \in Nat /\ r \in 0..bs - 1 /\ a = bs * q + r /\ BlockStart(a) = bs * q /\ a + 1 \in Nat
    BY <1>1
  <2> HIDE DEF q, r
  <2>2. bs * q \in Nat /\ bs * (q + 1) = bs * q + bs
    BY <1>0, <2>1
  <2>3. CASE r < bs - 1
    <3>1. r + 1 \in 0..bs - 1 /\ a + 1 = bs * q + (r + 1)
      BY <1>0, <2>1, <2>2, <2>3
    <3>2. (a + 1) \div bs = q
      BY <1>0, <2>1, <3>1, QuotientIs
    <3>3. BlockStart(a + 1) = bs * q
      BY <1>1, <2>1, <3>2
    <3> QED
      BY <1>0, <2>1, <2>2, <3>3
  <2>4. CASE r = bs - 1
    <3>1. 0 \in 0..bs - 1 /\ a + 1 = bs * (q + 1) + 0 /\ q + 1 \in Nat
      BY <1>0, <2>1, <2>2, <2>4
    <3>4. (bs * (q + 1) + 0) \div bs = q + 1
      BY <1>0, <3>1, QuotientIs
    <3>2. (a + 1) \div bs = q + 1
      BY <3>1, <3>4
    <3>3. BlockStart(a + 1) = bs * (q + 1)
      BY <1>1, <2>1, <3>2
    <3> QED
      BY <1>0, <2>1, <2>2, <3>1, <3>3
  <2> QED
    BY <1>0, <2>1, <2>3, <2>4
<1> QED
  BY <1>2, <1>3, <1>4, <1>5, <1>6, <1>7

\* What the slide hops over lies in claimed blocks.
LEMMA UnclaimedSkips ==
    ASSUME NEW claimed, NEW lo \in Nat, NEW hi \in Int, claimed \subseteq lo..hi,
           NEW p \in Nat, NEW o \in Nat, p <= o, o < Unclaimed(claimed, p)
    PROVE  BlockStart(o) \in claimed
<1> DEFINE q == Unclaimed(claimed, p)
           E == {e \in {c + bs : c \in claimed} \ claimed : e > p}
           Bad == {x \in p..o : BlockStart(x) \notin claimed}
<1>0. bs \in Nat \ {0} /\ q \in Nat
  BY Sizes1, UnclaimedFacts
<1>1. BlockStart(p) \in claimed /\ q = Min(E)
  <2>1. BlockStart(p) \notin claimed => q = p
    BY DEF Unclaimed
  <2>2. BlockStart(p) \in claimed
    BY <1>0, <2>1
  <2> QED
    BY <2>2 DEF Unclaimed
<1>2. E \in SUBSET Nat
  BY <1>0
<1>3. \A e \in E : q <= e
  <2> SUFFICES ASSUME NEW e \in E PROVE q <= e
    OBVIOUS
  <2> HIDE DEF E, q
  <2> QED
    BY <1>1, <1>2, MinFacts
<1> SUFFICES ASSUME BlockStart(o) \notin claimed PROVE FALSE
  OBVIOUS
<1>4. Bad \in SUBSET Nat /\ o \in Bad
  OBVIOUS
<1> HIDE DEF q
<1>5. PICK m \in Bad : \A k \in Bad : m <= k
  <2> HIDE DEF Bad
  <2> QED
    BY <1>4, LeastNatural
<1>6. m \in p..o /\ BlockStart(m) \notin claimed
  BY <1>5
<1>7. m # p
  BY <1>1, <1>6
<1>8. m - 1 \in p..o /\ m - 1 \in Nat /\ (m - 1) + 1 = m /\ ~(m <= m - 1) /\ m > p
  BY <1>6, <1>7
<1>9. BlockStart(m - 1) \in claimed
  BY <1>5, <1>8
<1>10. BlockStart(m) = BlockStart(m - 1) + bs /\ BlockStart(m) = m
  <2>1. BlockStart((m - 1) + 1) \in {BlockStart(m - 1), BlockStart(m - 1) + bs}
        /\ (BlockStart((m - 1) + 1) = BlockStart(m - 1) + bs => BlockStart((m - 1) + 1) = (m - 1) + 1)
    BY <1>8, GridFacts
  <2> QED
    BY <1>6, <1>8, <1>9, <2>1
<1>11. m \in E
  BY <1>6, <1>8, <1>9, <1>10
<1>12. q <= m
  BY <1>3, <1>11
<1> QED
  BY <1>0, <1>6, <1>12 DEF q

(***************************************************************************)
(* What a scan without errors has looked at.  F[b] is the window that was  *)
(* the first to report block b.                                            *)
(***************************************************************************)
Place(w, p) == [id |-> w[1], off |-> p]

\* Every block the window at o holds is reported.
Seen(d, w, o, rep) == HeldAt(d, w, o) \subseteq rep

\* A worker jumped over o from a window that was the first to report a block.
Jumped(d, w, o, rep, F) ==
    \E p \in (o - bs + 1)..(o - 1) :
        /\ p >= 0 /\ ~OnGrid(p)
        /\ \E c \in rep : c \in Blocks /\ FullWindow(d, w[1], p, c) /\ F[c] = Place(w, p)

\* The window at o is looked at, or off the grid and skipped with reason.
Handled(d, w, o, rep, F) ==
    \/ Seen(d, w, o, rep)
    \/ ~OnGrid(o) /\ (Claimed(d, w[1], BlockStart(o)) \/ Jumped(d, w, o, rep, F))

GridSeen(d, w, hi, rep) ==
    \A o \in ChunkStart(w)..LastOf(d, w) : OnGrid(o) /\ o < hi => Seen(d, w, o, rep)

Passed(d, w, hi, rep, F) ==
    \A o \in ChunkStart(w)..LastOf(d, w) : o < hi => Handled(d, w, o, rep, F)

\* A worker that jumps does so off the grid, from a first report.
JumpReady(d, w, p, rep, F) ==
    ~OnGrid(p) /\ \E c \in rep : c \in HeldAt(d, w, p) /\ F[c] = Place(w, p)

\* How far a worker is, and that it has left nothing out so far.
Progress(d, w, r, rep, F) ==
    /\ \A c \in r.claimed : OnGrid(c) /\ Claimed(d, w[1], c)
    /\ r.todo # {} \/ r.sending # NoBlock => HeldAt(d, w, r.pos) \subseteq rep \cup r.todo
    /\ r.todo = {} /\ r.sending = NoBlock => ~r.reportedNew
    /\ r.phase = "grid" => OnGrid(r.pos) /\ GridSeen(d, w, r.pos, rep)
    /\ r.phase = "slide" =>
          /\ GridSeen(d, w, LastOf(d, w) + 1, rep)
          /\ Passed(d, w, r.pos, rep, F)
          /\ r.reportedNew => JumpReady(d, w, r.pos, rep, F)
    /\ r.phase \in {"progress", "done"} /\ w[2] >= 0 => Passed(d, w, LastOf(d, w) + 1, rep, F)
    /\ r.phase \in {"progress", "done"} /\ w[2] = -1 /\ PartialLength(d, w[1]) % bs # 0 =>
          Seen(d, w, LastBlockStart(PartialLength(d, w[1])), rep)

\* More is reported, and what was reported was reported where it was.
Extends(rep, F, rep2, F2) == rep \subseteq rep2 /\ \A c \in rep : F2[c] = F[c]

\* Nothing is undone by further reports.
LEMMA ProgressGrows ==
    ASSUME NEW d, NEW w, NEW r, NEW rep, NEW F, NEW rep2, NEW F2, Extends(rep, F, rep2, F2),
           Progress(d, w, r, rep, F)
    PROVE  Progress(d, w, r, rep2, F2)
<1>1. rep \subseteq rep2 /\ \A c \in rep : F2[c] = F[c]
  BY DEF Extends
<1>2. \A o : Seen(d, w, o, rep) => Seen(d, w, o, rep2)
  BY <1>1 DEF Seen
<1>3. \A o : Jumped(d, w, o, rep, F) => Jumped(d, w, o, rep2, F2)
  BY <1>1 DEF Jumped
<1>4. \A o : Handled(d, w, o, rep, F) => Handled(d, w, o, rep2, F2)
  BY <1>2, <1>3 DEF Handled
<1>5. \A hi : GridSeen(d, w, hi, rep) => GridSeen(d, w, hi, rep2)
  BY <1>2 DEF GridSeen
<1>6. \A hi : Passed(d, w, hi, rep, F) => Passed(d, w, hi, rep2, F2)
  BY <1>4 DEF Passed
<1>7. \A p : JumpReady(d, w, p, rep, F) => JumpReady(d, w, p, rep2, F2)
  BY <1>1 DEF JumpReady
<1> QED
  BY <1>1, <1>2, <1>5, <1>6, <1>7 DEF Progress

\* In a chunk, the blocks a window holds are the ones it matches in full.
LEMMA HeldFull ==
    ASSUME NEW d, GoodDisk(d), NEW w \in WorkersOf(d), w[2] >= 0,
           NEW p \in ChunkStart(w)..LastOf(d, w), NEW b \in Blocks
    PROVE  b \in HeldAt(d, w, p) <=> FullWindow(d, w[1], p, b)
<1>1. /\ LastOf(d, w) \in Int /\ LastOf(d, w) + bs <= Len(d[w[1].name]) /\ ChunkStart(w) \in Nat
      /\ Len(d[w[1].name]) \in Nat /\ bs \in Nat
  BY LastFacts, WorkerFacts, SourceFacts, Sizes1
<1>2. p + bs <= Len(d[w[1].name])
  BY <1>1
<1> QED
  BY <1>2 DEF HeldAt, Listed, FullWindow, WindowOf, bs

\* The blocks a worker has claimed.
ClaimsTrue(d, w, r) == \A c \in r.claimed : OnGrid(c) /\ Claimed(d, w[1], c)

\* The slide goes on from p, before which nothing was left out.
LEMMA SlideFromProgress ==
    ASSUME GoodDisk(disk), NEW w \in WorkersOf(disk), w[2] >= 0, NEW r, WorkerOK(disk, w, r),
           NEW p \in Nat, p >= ChunkStart(w), NEW justMissed \in BOOLEAN, NEW rep, NEW F,
           ClaimsTrue(disk, w, r), GridSeen(disk, w, LastOf(disk, w) + 1, rep),
           Passed(disk, w, p, rep, F)
    PROVE  Progress(disk, w, SlideFrom(w, r, p, justMissed), rep, F)
<1> DEFINE q == Unclaimed(r.claimed, p)
           last == LastOf(disk, w)
           c == IF justMissed /\ q = p THEN Update(r.crc, Window(w, q - 1)[1], Window(w, q)[bs])
                ELSE ChecksumIEEE(Window(w, q))
           chk == ChecksContext(w, r.claimed, p, q)
           s == [ComeTo(r, "slide", q, c) EXCEPT !.checks = chk]
<1>0. ChunkStart(w) \in Nat /\ last \in Int
  BY WorkerFacts, LastFacts
<1>1. r.claimed \subseteq ChunkStart(w)..last
  BY DEF WorkerOK
<1>2. q \in Nat /\ q >= p
  BY <1>0, <1>1, UnclaimedFacts
<1>3. Passed(disk, w, q, rep, F)
  <2> SUFFICES ASSUME NEW o \in ChunkStart(w)..last, o < q PROVE Handled(disk, w, o, rep, F)
    BY DEF Passed
  <2>0. o \in Nat /\ o < last + 1
    BY <1>0
  <2>1. CASE o < p
    BY <2>1 DEF Passed
  <2>2. CASE p <= o
    <3>1. BlockStart(o) \in r.claimed
      BY <1>0, <1>1, <2>0, <2>2, UnclaimedSkips
    <3>2. Claimed(disk, w[1], BlockStart(o))
      BY <3>1 DEF ClaimsTrue
    <3>3. CASE OnGrid(o)
      BY <2>0, <3>3 DEF GridSeen, Handled
    <3>4. CASE ~OnGrid(o)
      BY <3>2, <3>4 DEF Handled
    <3> QED
      BY <3>3, <3>4
  <2> QED
    BY <2>0, <2>1, <2>2
<1>4. SlideFrom(w, r, p, justMissed) = IF q > last THEN ChunkScanned ELSE s
  BY OfDisk DEF SlideFrom
<1> HIDE DEF c, chk, q
<1>5. CASE q > last
  <2>1. Passed(disk, w, last + 1, rep, F)
    <3> SUFFICES ASSUME NEW o \in ChunkStart(w)..last PROVE Handled(disk, w, o, rep, F)
      BY DEF Passed
    <3>1. o < q
      BY <1>0, <1>2, <1>5
    <3> QED
      BY <1>3, <3>1 DEF Passed
  <2>2. /\ ChunkScanned.claimed = {} /\ ChunkScanned.todo = {} /\ ChunkScanned.sending = NoBlock
        /\ ~ChunkScanned.reportedNew /\ ChunkScanned.phase \in {"progress", "done"}
    BY DEF ChunkScanned, Finished, Idle
  <2>3. w[2] # -1
    OBVIOUS
  <2> HIDE DEF last
  <2>4. Progress(disk, w, ChunkScanned, rep, F)
    BY <2>1, <2>2, <2>3 DEF Progress, last
  <2> QED
    BY <1>4, <1>5, <2>4
<1>6. CASE ~(q > last)
  <2>1. r \in WorkerRecord
    BY DEF WorkerOK
  <2>2. /\ s.claimed = r.claimed /\ s.todo = {} /\ s.sending = NoBlock /\ ~s.reportedNew
        /\ s.phase = "slide" /\ s.pos = q
    BY <2>1 DEF ComeTo, WorkerRecord
  <2> HIDE DEF s
  <2>3. Progress(disk, w, s, rep, F)
    BY <1>3, <2>2 DEF Progress, ClaimsTrue
  <2> QED
    BY <1>4, <1>6, <2>3
<1> QED
  BY <1>5, <1>6

\* The grid pass goes on at p, before which no window on the grid was left out.
LEMMA GridFromProgress ==
    ASSUME GoodDisk(disk), NEW w \in WorkersOf(disk), w[2] >= 0, NEW r, WorkerOK(disk, w, r),
           NEW p \in Nat, p >= ChunkStart(w), NEW rep, NEW F,
           ClaimsTrue(disk, w, r), OnGrid(p), GridSeen(disk, w, p, rep)
    PROVE  Progress(disk, w, GridFrom(w, r, p), rep, F)
<1>0. ChunkStart(w) \in Nat /\ LastOf(disk, w) \in Int
  BY WorkerFacts, LastFacts
<1>1. CASE p > LastOf(disk, w)
  <2>1. GridFrom(w, r, p) = SlideFrom(w, r, ChunkStart(w), FALSE)
    BY <1>1, OfDisk DEF GridFrom
  <2>2. GridSeen(disk, w, LastOf(disk, w) + 1, rep)
    <3>1. \A o \in ChunkStart(w)..LastOf(disk, w) : o < p
      BY <1>0, <1>1
    <3> QED
      BY <3>1 DEF GridSeen
  <2>3. Passed(disk, w, ChunkStart(w), rep, F)
    <3>1. \A o \in ChunkStart(w)..LastOf(disk, w) : ~(o < ChunkStart(w))
      BY <1>0
    <3> QED
      BY <3>1 DEF Passed
  <2>4. ChunkStart(w) >= ChunkStart(w) /\ FALSE \in BOOLEAN
    BY <1>0
  <2>5. Progress(disk, w, SlideFrom(w, r, ChunkStart(w), FALSE), rep, F)
    BY <1>0, <2>2, <2>3, <2>4, SlideFromProgress
  <2> QED
    BY <2>1, <2>5
<1>2. CASE ~(p > LastOf(disk, w))
  <2> DEFINE s == ComeTo(r, "grid", p, ChecksumIEEE(Window(w, p)))
  <2>1. GridFrom(w, r, p) = s
    BY <1>2, OfDisk DEF GridFrom
  <2>2. r \in WorkerRecord
    BY DEF WorkerOK
  <2>3. /\ s.claimed = r.claimed /\ s.todo = {} /\ s.sending = NoBlock /\ ~s.reportedNew
        /\ s.phase = "grid" /\ s.pos = p
    BY <2>2 DEF ComeTo, WorkerRecord
  <2> HIDE DEF s
  <2>4. Progress(disk, w, s, rep, F)
    BY <2>3 DEF Progress, ClaimsTrue
  <2> QED
    BY <2>1, <2>4
<1> QED
  BY <1>1, <1>2

\* After a window all of whose blocks are reported, nothing is left out either.
LEMMA AdvanceProgress ==
    ASSUME GoodDisk(disk), NEW w \in WorkersOf(disk), NEW r, WorkerOK(disk, w, r),
           r.phase \in Looking, NEW inPlace \in BOOLEAN, NEW rep, NEW F,
           Progress(disk, w, r, rep, F), Seen(disk, w, r.pos, rep),
           inPlace /\ r.phase = "grid" => Claimed(disk, w[1], r.pos)
    PROVE  Progress(disk, w, Advance(w, r, inPlace), rep, F)
<1> DEFINE last == LastOf(disk, w)
<1>0. r \in WorkerRecord /\ r.pos \in Nat /\ r.claimed \in SUBSET Nat /\ bs \in Nat \ {0}
  BY Sizes1 DEF WorkerOK, WorkerRecord
<1>1. ClaimsTrue(disk, w, r)
  BY DEF Progress, ClaimsTrue
<1>2. CASE r.phase = "grid"
  <2>1. w[2] >= 0 /\ r.pos \in ChunkStart(w)..last /\ ChunkStart(w) \in Nat /\ last \in Int
    BY <1>2, WorkerFacts, LastFacts DEF WorkerOK
  <2>2. OnGrid(r.pos) /\ GridSeen(disk, w, r.pos, rep)
    BY <1>2 DEF Progress
  <2> DEFINE s == Claim(r, inPlace)
  <2>3. WorkerOK(disk, w, s)
    BY <1>2, ClaimOK
  <2>4. ClaimsTrue(disk, w, s)
    <3>1. s.claimed \subseteq r.claimed \cup {r.pos} /\ (~inPlace => s.claimed = r.claimed)
      BY <1>0 DEF Claim, WorkerRecord
    <3> HIDE DEF s
    <3> QED
      BY <1>1, <1>2, <2>2, <3>1 DEF ClaimsTrue
  <2>5. r.pos + bs \in Nat /\ r.pos + bs >= ChunkStart(w)
    BY <1>0, <2>1
  <2>6. OnGrid(r.pos + bs)
    BY <1>0, <2>2, GridFacts
  <2>7. GridSeen(disk, w, r.pos + bs, rep)
    <3> SUFFICES ASSUME NEW o \in ChunkStart(w)..last, OnGrid(o), o < r.pos + bs
                 PROVE  Seen(disk, w, o, rep)
      BY DEF GridSeen
    <3>1. o \in Nat
      BY <2>1
    <3>2. ~(r.pos < o)
      <4>1. OnGrid(r.pos) /\ OnGrid(o) /\ r.pos < o => r.pos + bs <= o
        BY <1>0, <3>1, GridFacts
      <4> QED
        BY <1>0, <2>2, <3>1, <4>1
    <3>3. o < r.pos \/ o = r.pos
      BY <1>0, <3>1, <3>2
    <3> QED
      BY <2>2, <3>3 DEF GridSeen
  <2>8. Advance(w, r, inPlace) = GridFrom(w, s, r.pos + bs)
    BY <1>2 DEF Advance
  <2> HIDE DEF s
  <2>9. Progress(disk, w, GridFrom(w, s, r.pos + bs), rep, F)
    BY <2>1, <2>3, <2>4, <2>5, <2>6, <2>7, GridFromProgress
  <2> QED
    BY <2>8, <2>9
<1>3. CASE r.phase = "last"
  <2>1. w[2] = -1 /\ r.pos = LastBlockStart(PartialLength(disk, w[1])) /\ ~(w[2] >= 0)
    BY <1>3 DEF WorkerOK
  <2>2. Advance(w, r, inPlace) = Finished
    BY <1>3 DEF Advance
  <2>3. /\ Finished.claimed = {} /\ Finished.todo = {} /\ Finished.sending = NoBlock
        /\ ~Finished.reportedNew /\ Finished.phase = "done"
    BY DEF Finished, Idle
  <2> HIDE DEF last
  <2>4. Progress(disk, w, Finished, rep, F)
    BY <2>1, <2>3 DEF Progress
  <2> QED
    BY <2>2, <2>4
<1>4. CASE r.phase = "slide"
  <2>1. w[2] >= 0 /\ r.pos \in ChunkStart(w)..last /\ ChunkStart(w) \in Nat /\ last \in Int
    BY <1>4, WorkerFacts, LastFacts DEF WorkerOK
  <2>2. /\ GridSeen(disk, w, last + 1, rep) /\ Passed(disk, w, r.pos, rep, F)
        /\ r.reportedNew => JumpReady(disk, w, r.pos, rep, F)
    BY <1>4 DEF Progress
  <2>3. /\ r.pos + bs \in Nat /\ r.pos + bs >= ChunkStart(w)
        /\ r.pos + 1 \in Nat /\ r.pos + 1 >= ChunkStart(w)
    BY <1>0, <2>1
  <2>4. Passed(disk, w, r.pos + 1, rep, F)
    <3> SUFFICES ASSUME NEW o \in ChunkStart(w)..last, o < r.pos + 1
                 PROVE  Handled(disk, w, o, rep, F)
      BY DEF Passed
    <3>1. o < r.pos \/ o = r.pos
      BY <1>0, <2>1
    <3> QED
      BY <2>2, <3>1 DEF Passed, Handled
  <2>5. CASE r.reportedNew
    <3>1. PICK c \in rep : c \in HeldAt(disk, w, r.pos) /\ F[c] = Place(w, r.pos)
      BY <2>2, <2>5 DEF JumpReady
    <3>2. ~OnGrid(r.pos)
      BY <2>2, <2>5 DEF JumpReady
    <3>3. c \in Blocks
      BY <3>1 DEF HeldAt, Listed
    <3>4. FullWindow(disk, w[1], r.pos, c)
      BY <2>1, <3>1, <3>3, HeldFull
    <3>5. Passed(disk, w, r.pos + bs, rep, F)
      <4> SUFFICES ASSUME NEW o \in ChunkStart(w)..last, o < r.pos + bs
                   PROVE  Handled(disk, w, o, rep, F)
        BY DEF Passed
      <4>0. o \in Nat /\ o < last + 1
        BY <2>1
      <4>1. CASE o < r.pos + 1
        BY <2>4, <4>1 DEF Passed
      <4>2. CASE ~(o < r.pos + 1)
        <5>1. r.pos \in (o - bs + 1)..(o - 1) /\ r.pos >= 0
          BY <1>0, <4>0, <4>2
        <5>2. Jumped(disk, w, o, rep, F)
          BY <3>1, <3>2, <3>3, <3>4, <5>1 DEF Jumped
        <5>3. OnGrid(o) => Seen(disk, w, o, rep)
          BY <2>2, <4>0 DEF GridSeen
        <5> QED
          BY <5>2, <5>3 DEF Handled
      <4> QED
        BY <4>1, <4>2
    <3>6. Progress(disk, w, SlideFrom(w, r, r.pos + bs, FALSE), rep, F)
      BY <1>1, <2>1, <2>2, <2>3, <3>5, SlideFromProgress
    <3>7. Advance(w, r, inPlace) = SlideFrom(w, r, r.pos + bs, FALSE)
      BY <1>4, <2>5 DEF Advance
    <3> QED
      BY <3>6, <3>7
  <2>6. CASE ~r.reportedNew
    <3>1. Progress(disk, w, SlideFrom(w, r, r.pos + 1, TRUE), rep, F)
      BY <1>1, <2>1, <2>2, <2>3, <2>4, SlideFromProgress
    <3>2. Advance(w, r, inPlace) = SlideFrom(w, r, r.pos + 1, TRUE)
      BY <1>4, <2>6 DEF Advance
    <3> QED
      BY <3>1, <3>2
  <2> QED
    BY <2>5, <2>6
<1> QED
  BY <1>2, <1>3, <1>4 DEF Looking

(***************************************************************************)
(* As long as no read failed and the context is not done, nothing is left  *)
(* out; and a scan that is done met no error and has collected everything. *)
(***************************************************************************)
Thorough(d, wk, rep, F) == \A w \in WorkersOf(d) : Progress(d, w, wk[w], rep, F)

Complete(d, wk, rep) == \E F : Thorough(d, wk, rep, F)

Faultless == ~cancelled /\ readErrors = {}

AllDone(wk) == \A w \in DOMAIN wk : wk[w].phase = "done"

ScanComplete ==
    /\ Faultless => Complete(disk, worker, reported)
    /\ scanState \in {"closed", "done", "failed"} => AllDone(worker)
    /\ scanState = "done" => Faultless /\ matchChan = <<>>

\* The first window on the grid of a chunk has none before it.
LEMMA FirstOnGrid ==
    ASSUME NEW w, ChunkStart(w) \in Nat
    PROVE  /\ OnGrid(FirstAligned(w))
           /\ \A o \in Nat : OnGrid(o) /\ o >= ChunkStart(w) => ~(o < FirstAligned(w))
<1> DEFINE x == ChunkStart(w) + bs - 1
<1>0. bs \in Nat \ {0} /\ x \in Nat
  BY Sizes1
<1>1. FirstAligned(w) = BlockStart(x)
  BY DEF FirstAligned, BlockStart
<1>2. BlockStart(x) \in Nat /\ BlockStart(x) <= x /\ OnGrid(BlockStart(x))
  <2> HIDE DEF x
  <2> QED
    BY <1>0, BlockStartFacts, GridFacts
<1>3. ASSUME NEW o \in Nat, OnGrid(o), o >= ChunkStart(w), o < BlockStart(x) PROVE FALSE
  <2> DEFINE a == BlockStart(x)
  <2>1. a \in Nat /\ OnGrid(a) /\ o < a /\ a <= ChunkStart(w) + bs - 1
    BY <1>2, <1>3
  <2> HIDE DEF a
  <2>2. o + bs <= a
    BY <1>3, <2>1, GridFacts
  <2> QED
    BY <1>0, <1>3, <2>1, <2>2
<1> QED
  BY <1>1, <1>2, <1>3

\* A worker that waits, or whose chunk has no window, has left nothing out.
LEMMA IdleProgress ==
    ASSUME NEW d, NEW w, NEW rep, NEW F
    PROVE  /\ Progress(d, w, Idle, rep, F)
           /\ w[2] >= 0 /\ Passed(d, w, LastOf(d, w) + 1, rep, F)
                => Progress(d, w, ChunkScanned, rep, F) /\ Progress(d, w, Finished, rep, F)
           /\ w[2] = -1 /\ (PartialLength(d, w[1]) % bs # 0 =>
                                Seen(d, w, LastBlockStart(PartialLength(d, w[1])), rep))
                => Progress(d, w, ChunkScanned, rep, F) /\ Progress(d, w, Finished, rep, F)
<1>1. \A r \in {Idle, Finished, ChunkScanned} :
        r.claimed = {} /\ r.todo = {} /\ r.sending = NoBlock /\ ~r.reportedNew
  BY DEF Idle, Finished, ChunkScanned
<1>2. /\ Idle.phase = "wait" /\ Finished.phase = "done"
      /\ ChunkScanned.phase \in {"progress", "done"}
  BY DEF Idle, Finished, ChunkScanned
<1>3. w[2] >= 0 => w[2] # -1
  OBVIOUS
<1>4. Progress(d, w, Idle, rep, F)
  BY <1>1, <1>2 DEF Progress
<1>5. ASSUME NEW r \in {Finished, ChunkScanned}, w[2] >= 0, Passed(d, w, LastOf(d, w) + 1, rep, F)
      PROVE  Progress(d, w, r, rep, F)
  BY <1>1, <1>2, <1>3, <1>5 DEF Progress
<1>6. ASSUME NEW r \in {Finished, ChunkScanned}, w[2] = -1,
             PartialLength(d, w[1]) % bs # 0 =>
                 Seen(d, w, LastBlockStart(PartialLength(d, w[1])), rep)
      PROVE  Progress(d, w, r, rep, F)
  BY <1>1, <1>2, <1>3, <1>6 DEF Progress
<1> QED
  BY <1>4, <1>5, <1>6

\* One worker has gone on and the others have not moved.
LEMMA CompleteOf ==
    ASSUME ScanInv, disk' = disk, NEW w \in WorkersOf(disk), NEW r, WorkerOK(disk, w, r), Become(w, r),
           NEW F, Thorough(disk, worker, reported, F),
           NEW F2, Extends(reported, F, reported', F2), Progress(disk, w, r, reported', F2)
    PROVE  Complete(disk', worker', reported')
<1>1. /\ DOMAIN worker' = DOMAIN worker /\ worker'[w] = r /\ DOMAIN worker = WorkersOf(disk)
      /\ \A v \in DOMAIN worker : v # w => worker'[v] = worker[v]
  BY BecomeOK DEF ScanInv, WorkersInv
<1>2. \A v \in WorkersOf(disk) : Progress(disk, v, worker[v], reported, F)
  BY DEF Thorough
<1>3. \A v \in WorkersOf(disk) : Progress(disk, v, worker[v], reported', F2)
  BY <1>2, ProgressGrows
<1>4. \A v \in WorkersOf(disk) : Progress(disk, v, worker'[v], reported', F2)
  BY <1>1, <1>3
<1>5. Thorough(disk, worker', reported', F2)
  BY <1>4 DEF Thorough
<1> QED
  BY <1>5 DEF Complete

\* The same reports by the same windows.
LEMMA SameReports == ASSUME NEW rep, NEW F PROVE Extends(rep, F, rep, F)
  BY DEF Extends

\* The grid pass of a chunk starts.
LEMMA AcquireComplete ==
    ASSUME ScanInv, NEW w \in DOMAIN worker, Acquire(w), Complete(disk, worker, reported)
    PROVE  Complete(disk', worker', reported')
<1> DEFINE r == IF LastWindow(w) < ChunkStart(w) THEN ChunkScanned ELSE GridFrom(w, Idle, FirstAligned(w))
<1>1. w \in WorkersOf(disk) /\ GoodDisk(disk)
  BY WorkerState
<1>2. w[2] >= 0 /\ Become(w, r) /\ disk' = disk /\ reported' = reported
  BY DEF Acquire, others
<1>3. ChunkStart(w) \in Nat /\ LastOf(disk, w) \in Int
  BY <1>1, <1>2, WorkerFacts, LastFacts
<1>4. WorkerOK(disk, w, ChunkScanned) /\ WorkerOK(disk, w, Idle)
  BY IdleOK
<1>5. FirstAligned(w) \in Nat /\ FirstAligned(w) >= ChunkStart(w) /\ OnGrid(FirstAligned(w))
  BY <1>3, FirstAlignedFacts, FirstOnGrid
<1>6. WorkerOK(disk, w, GridFrom(w, Idle, FirstAligned(w)))
  BY <1>1, <1>2, <1>3, <1>4, <1>5, GridFromOK
<1>7. WorkerOK(disk, w, r)
  BY <1>4, <1>6
<1>8. PICK F : Thorough(disk, worker, reported, F)
  BY DEF Complete
<1>9. Progress(disk, w, r, reported, F)
  <2>1. CASE LastOf(disk, w) < ChunkStart(w)
    <3>1. \A o : ~(o \in ChunkStart(w)..LastOf(disk, w))
      BY <1>3, <2>1
    <3>2. Passed(disk, w, LastOf(disk, w) + 1, reported, F)
      BY <3>1 DEF Passed
    <3> QED
      BY <1>2, <2>1, <3>2, IdleProgress, OfDisk
  <2>2. CASE ~(LastOf(disk, w) < ChunkStart(w))
    <3>1. ClaimsTrue(disk, w, Idle)
      BY DEF ClaimsTrue, Idle
    <3>2. GridSeen(disk, w, FirstAligned(w), reported)
      <4>1. \A o \in ChunkStart(w)..LastOf(disk, w) : o \in Nat /\ o >= ChunkStart(w)
        BY <1>3
      <4>2. \A o \in ChunkStart(w)..LastOf(disk, w) : OnGrid(o) => ~(o < FirstAligned(w))
        BY <1>3, <4>1, FirstOnGrid
      <4> QED
        BY <4>2 DEF GridSeen
    <3>3. Progress(disk, w, GridFrom(w, Idle, FirstAligned(w)), reported, F)
      BY <1>1, <1>2, <1>4, <1>5, <3>1, <3>2, GridFromProgress
    <3> QED
      BY <2>2, <3>3, OfDisk
  <2> QED
    BY <2>1, <2>2
<1> HIDE DEF r
<1> QED
  BY <1>1, <1>2, <1>7, <1>8, <1>9, SameReports, CompleteOf

\* The last partial block is looked at if there is one.
LEMMA StartLastComplete ==
    ASSUME ScanInv, NEW w \in DOMAIN worker, StartLast(w), readErrors = {},
           Complete(disk, worker, reported)
    PROVE  Complete(disk', worker', reported')
<1> DEFINE n == PartialLength(disk, w[1])
           at == ComeTo(Idle, "last", LastBlockStart(n), ChecksumIEEE(Window(w, LastBlockStart(n))))
           r == IF n % bs = 0 THEN Finished ELSE at
<1>1. w \in WorkersOf(disk) /\ GoodDisk(disk)
  BY WorkerState
<1>2. w[2] = -1 /\ Become(w, r) /\ disk' = disk /\ reported' = reported
  BY DEF StartLast, others
<1>3. PICK F : Thorough(disk, worker, reported, F)
  BY DEF Complete
<1>4. WorkerOK(disk, w, r)
  <2>1. ScanInv'
    BY StartLastStep
  <2>2. WorkerOK(disk, w, worker'[w])
    BY <1>1, <1>2, <2>1 DEF ScanInv, WorkersInv
  <2>3. worker'[w] = r
    BY <1>1, <1>2 DEF Become, ScanInv, WorkersInv
  <2> QED
    BY <2>2, <2>3
<1>5. Progress(disk, w, r, reported, F)
  <2>1. CASE n % bs = 0
    BY <1>2, <2>1, IdleProgress
  <2>2. CASE n % bs # 0
    <3>1. /\ at.claimed = {} /\ at.todo = {} /\ at.sending = NoBlock /\ ~at.reportedNew
          /\ at.phase = "last"
      BY DEF ComeTo, Idle
    <3> HIDE DEF at
    <3>2. Progress(disk, w, at, reported, F)
      BY <3>1 DEF Progress
    <3> QED
      BY <2>2, <3>2
  <2> QED
    BY <2>1, <2>2
<1> HIDE DEF r
<1> QED
  BY <1>1, <1>2, <1>3, <1>4, <1>5, SameReports, CompleteOf

\* A window that is passed at once holds nothing that is not reported.
LEMMA LookComplete ==
    ASSUME ScanInv, NEW w \in DOMAIN worker, Look(w), Complete(disk, worker, reported)
    PROVE  Complete(disk', worker', reported')
<1> DEFINE o == worker[w]
           m == Matched(w, o.pos)
           r == IF m = {} THEN Advance(w, o, FALSE) ELSE [o EXCEPT !.todo = m]
           held == HeldAt(disk, w, o.pos)
<1>1. /\ w \in WorkersOf(disk) /\ GoodDisk(disk) /\ o.phase \in Looking
      /\ o.todo = {} /\ o.sending = NoBlock /\ WorkerOK(disk, w, o) /\ o \in WorkerRecord
  BY WorkerState DEF Look, AtWindow, Looking
<1>2. Become(w, r) /\ disk' = disk /\ reported' = reported
  BY DEF Look, others
<1>3. PICK F : Thorough(disk, worker, reported, F)
  BY DEF Complete
<1>4. Progress(disk, w, o, reported, F)
  BY <1>1, <1>3 DEF Thorough
<1>5. WorkerOK(disk, w, r)
  <2>1. ScanInv'
    BY LookStep
  <2>2. WorkerOK(disk, w, worker'[w])
    BY <1>1, <1>2, <2>1 DEF ScanInv, WorkersInv
  <2>3. worker'[w] = r
    BY <1>1, <1>2 DEF Become, ScanInv, WorkersInv
  <2> QED
    BY <2>2, <2>3
<1>6. m = held \/ (m = {} /\ held \subseteq reported)
  <2>1. Hashed(w, o.pos) = held
    BY <1>1, MatchedFacts
  <2>2. Hashed(w, o.pos) \subseteq Found(w)
    BY DEF Hashed
  <2> QED
    BY <2>1, <2>2 DEF Matched, Skipped
<1>7. Progress(disk, w, r, reported, F)
  <2>1. CASE m = {}
    <3>1. Seen(disk, w, o.pos, reported)
      BY <1>6, <2>1 DEF Seen
    <3>2. Progress(disk, w, Advance(w, o, FALSE), reported, F)
      BY <1>1, <1>4, <3>1, AdvanceProgress
    <3> QED
      BY <2>1, <3>2
  <2>2. CASE m # {}
    <3> DEFINE s == [o EXCEPT !.todo = m]
    <3>1. m = held
      BY <1>6, <2>2
    <3>2. /\ s.claimed = o.claimed /\ s.phase = o.phase /\ s.pos = o.pos /\ s.todo = m
          /\ s.sending = o.sending /\ s.reportedNew = o.reportedNew
      BY <1>1 DEF WorkerRecord
    <3>3. ~o.reportedNew
      BY <1>1, <1>4 DEF Progress
    <3> HIDE DEF s, m, o
    <3>4. Progress(disk, w, s, reported, F)
      BY <1>1, <1>4, <2>2, <3>1, <3>2, <3>3 DEF Progress, Looking
    <3> QED
      BY <2>2, <3>4 DEF s
  <2> QED
    BY <2>1, <2>2
<1> HIDE DEF r
<1> QED
  BY <1>1, <1>2, <1>3, <1>5, <1>7, SameReports, CompleteOf

\* The window that is first to report a block is remembered; a sliding worker that is
\* first is off the grid, since the grid was seen before.
LEMMA ReportComplete ==
    ASSUME ScanInv, NEW w \in DOMAIN worker, NEW b, Report(w, b), Complete(disk, worker, reported)
    PROVE  Complete(disk', worker', reported')
<1> DEFINE o == worker[w]
           r == [o EXCEPT !.todo = @ \ {b}, !.sending = b, !.reportedNew = @ \/ b \notin reported]
<1>1. /\ w \in WorkersOf(disk) /\ GoodDisk(disk) /\ WorkerOK(disk, w, o) /\ o \in WorkerRecord
      /\ o.phase \in Looking
  BY WorkerState DEF Report
<1>2. /\ b \in o.todo /\ o.sending = NoBlock /\ reported' = reported \cup {b} /\ Become(w, r)
      /\ disk' = disk
  BY DEF Report, others
<1>3. b \in Blocks /\ b \in HeldAt(disk, w, o.pos) /\ reported \subseteq Blocks
  BY <1>1, <1>2 DEF WorkerRecord, WorkerOK, ScanInv
<1>4. PICK F : Thorough(disk, worker, reported, F)
  BY DEF Complete
<1> DEFINE F2 == [c \in Blocks |-> IF c \in reported THEN F[c] ELSE Place(w, o.pos)]
<1>5. Extends(reported, F, reported', F2)
  BY <1>2, <1>3 DEF Extends
<1>6. Progress(disk, w, o, reported, F)
  BY <1>1, <1>4 DEF Thorough
<1>7. b \notin reported => F2[b] = Place(w, o.pos)
  BY <1>3
<1> HIDE DEF F2
<1>8. Progress(disk, w, o, reported', F2)
  BY <1>5, <1>6, ProgressGrows
<1>9. WorkerOK(disk, w, r)
  <2>1. ScanInv'
    BY ReportStep
  <2>2. WorkerOK(disk, w, worker'[w])
    BY <1>1, <1>2, <2>1 DEF ScanInv, WorkersInv
  <2>3. worker'[w] = r
    BY <1>1, <1>2 DEF Become, ScanInv, WorkersInv
  <2> QED
    BY <2>2, <2>3
<1>10. /\ r.claimed = o.claimed /\ r.phase = o.phase /\ r.pos = o.pos
       /\ r.todo = o.todo \ {b} /\ r.sending = b
       /\ r.reportedNew <=> (o.reportedNew \/ b \notin reported)
  BY <1>1 DEF WorkerRecord
<1>11. ASSUME o.phase = "slide", b \notin reported PROVE JumpReady(disk, w, o.pos, reported', F2)
  <2>1. o.pos \in ChunkStart(w)..LastOf(disk, w) /\ w[2] >= 0
    BY <1>1, <1>11 DEF WorkerOK
  <2>2. o.pos < LastOf(disk, w) + 1
    BY <1>1, <2>1, WorkerFacts, LastFacts
  <2>3. GridSeen(disk, w, LastOf(disk, w) + 1, reported)
    BY <1>6, <1>11 DEF Progress
  <2>4. ~OnGrid(o.pos)
    BY <1>3, <1>11, <2>1, <2>2, <2>3 DEF GridSeen, Seen
  <2> QED
    BY <1>2, <1>3, <1>7, <1>11, <2>4 DEF JumpReady
<1>12. NoBlock \notin Blocks
  BY DEF NoBlock, Blocks
<1> HIDE DEF r, o
<1>13. Progress(disk, w, r, reported', F2)
  <2>1. HeldAt(disk, w, o.pos) \subseteq reported' \cup (o.todo \ {b})
    BY <1>2, <1>8 DEF Progress
  <2>2. o.phase = "slide" /\ r.reportedNew => JumpReady(disk, w, o.pos, reported', F2)
    BY <1>8, <1>10, <1>11 DEF Progress
  <2>3. r.sending # NoBlock
    BY <1>3, <1>10, <1>12
  <2>4. o.phase \notin {"progress", "done"}
    BY <1>1 DEF Looking
  <2> QED
    BY <1>8, <1>10, <2>1, <2>2, <2>3, <2>4 DEF Progress
<1> QED
  BY <1>1, <1>2, <1>4, <1>5, <1>9, <1>13, CompleteOf

\* A worker goes on when every block of its window is reported, and claims a window
\* on the grid only if it holds the block expected there.
LEMMA SendComplete ==
    ASSUME ScanInv, NEW w \in DOMAIN worker, Send(w), Complete(disk, worker, reported)
    PROVE  Complete(disk', worker', reported')
<1> DEFINE o == worker[w]
           inPlace == InPlace(w, Hashed(w, o.pos), o.pos)
           r == IF o.todo # {} THEN [o EXCEPT !.sending = NoBlock] ELSE Advance(w, o, inPlace)
<1>1. o.sending # NoBlock /\ Become(w, r) /\ disk' = disk /\ reported' = reported
  BY DEF Send, others
<1>2. /\ w \in WorkersOf(disk) /\ GoodDisk(disk) /\ WorkerOK(disk, w, o) /\ o \in WorkerRecord
      /\ o.phase \in Looking
  BY <1>1, WorkerState
<1>3. inPlace \in BOOLEAN
  BY DEF InPlace
<1>4. PICK F : Thorough(disk, worker, reported, F)
  BY DEF Complete
<1>5. Progress(disk, w, o, reported, F)
  BY <1>2, <1>4 DEF Thorough
<1>6. WorkerOK(disk, w, r)
  <2>1. ScanInv'
    BY SendStep
  <2>2. WorkerOK(disk, w, worker'[w])
    BY <1>1, <1>2, <2>1 DEF ScanInv, WorkersInv
  <2>3. worker'[w] = r
    BY <1>1, <1>2 DEF Become, ScanInv, WorkersInv
  <2> QED
    BY <2>2, <2>3
<1>7. inPlace /\ o.phase = "grid" => Claimed(disk, w[1], o.pos)
  <2> SUFFICES ASSUME inPlace, o.phase = "grid" PROVE Claimed(disk, w[1], o.pos)
    OBVIOUS
  <2>1. Hashed(w, o.pos) = HeldAt(disk, w, o.pos)
    BY <1>2, MatchedFacts
  <2>2. PICK b \in HeldAt(disk, w, o.pos) :
           b[2] = o.pos \div bs /\ (w[1].kind = "cand" \/ b[1] = w[1].name)
    BY <2>1 DEF InPlace
  <2>3. w[2] >= 0 /\ o.pos \in ChunkStart(w)..LastOf(disk, w)
    BY <1>2 DEF WorkerOK
  <2>4. b \in Blocks
    BY <2>2 DEF HeldAt, Listed
  <2>5. FullWindow(disk, w[1], o.pos, b)
    BY <1>2, <2>2, <2>3, <2>4, HeldFull
  <2> QED
    BY <2>2, <2>4, <2>5 DEF Claimed, bs
<1> HIDE DEF inPlace
<1>8. Progress(disk, w, r, reported, F)
  <2>1. CASE o.todo # {}
    <3> DEFINE s == [o EXCEPT !.sending = NoBlock]
    <3>1. /\ s.claimed = o.claimed /\ s.phase = o.phase /\ s.pos = o.pos /\ s.todo = o.todo
          /\ s.sending = NoBlock /\ s.reportedNew = o.reportedNew
      BY <1>2 DEF WorkerRecord
    <3> HIDE DEF s, o
    <3>2. Progress(disk, w, s, reported, F)
      BY <1>2, <1>5, <2>1, <3>1 DEF Progress, Looking
    <3> QED
      BY <2>1, <3>2 DEF s
  <2>2. CASE o.todo = {}
    <3>1. Seen(disk, w, o.pos, reported)
      BY <1>1, <1>5, <2>2 DEF Progress, Seen
    <3>2. Progress(disk, w, Advance(w, o, inPlace), reported, F)
      BY <1>2, <1>3, <1>5, <1>7, <3>1, AdvanceProgress
    <3> QED
      BY <2>2, <3>2
  <2> QED
    BY <2>1, <2>2
<1> HIDE DEF r
<1> QED
  BY <1>1, <1>2, <1>4, <1>6, <1>8, SameReports, CompleteOf

\* What a chunk's worker did does not change when it reports its progress.
LEMMA AddProgressComplete ==
    ASSUME ScanInv, NEW w \in DOMAIN worker, AddProgress(w), Complete(disk, worker, reported)
    PROVE  Complete(disk', worker', reported')
<1>1. w \in WorkersOf(disk) /\ worker[w].phase = "progress"
  BY WorkerState DEF AddProgress
<1>2. Become(w, Finished) /\ WorkerOK(disk, w, Finished) /\ disk' = disk /\ reported' = reported
  BY IdleOK DEF AddProgress
<1>3. PICK F : Thorough(disk, worker, reported, F)
  BY DEF Complete
<1>4. Progress(disk, w, worker[w], reported, F)
  BY <1>1, <1>3 DEF Thorough
<1>5. w[2] \in Int /\ w[2] >= -1
  BY <1>1, WorkerFacts DEF ScanInv
<1>6. w[2] >= 0 \/ w[2] = -1
  BY <1>5
<1>7. Progress(disk, w, Finished, reported, F)
  BY <1>1, <1>4, <1>6, IdleProgress DEF Progress
<1> QED
  BY <1>1, <1>2, <1>3, <1>7, SameReports, CompleteOf

\* A step of a worker: it was not done, and unless it fails or gives up, nothing is
\* left out.
LEMMA WorkerComplete ==
    ASSUME ScanInv, ScanComplete, WorkerNext
    PROVE  ScanComplete'
<1>1. PICK w \in DOMAIN worker :
         \/ Acquire(w) \/ StartLast(w) \/ ReadFails(w) \/ Abandon(w) \/ Look(w)
         \/ (\E b \in worker[w].todo : Report(w, b))
         \/ Send(w) \/ AddProgress(w)
  BY DEF WorkerNext
<1>2. worker[w].phase # "done"
  <2>1. worker[w].phase = "done" => worker[w].todo = {} /\ worker[w].sending = NoBlock
    BY WorkerState DEF Looking
  <2> QED
    BY <1>1, <2>1 DEF Acquire, StartLast, ReadFails, Abandon, Look, Send, AddProgress, AtWindow
<1>3. scanState \notin {"closed", "done", "failed"}
  BY <1>2 DEF ScanComplete, AllDone
<1>4. scanState' = scanState /\ cancelled' = cancelled /\ disk' = disk
  BY <1>1 DEF Acquire, StartLast, ReadFails, Abandon, Look, Report, Send, AddProgress, others
<1>5. ASSUME Faultless' PROVE Complete(disk', worker', reported')
  <2>1. ~cancelled /\ readErrors' = {}
    BY <1>4, <1>5 DEF Faultless
  <2>2. ~ReadFails(w)
    BY <2>1 DEF ReadFails
  <2>3. ~Abandon(w)
    BY <2>1 DEF Abandon, SeesCancel
  <2>4. readErrors = {}
    BY <1>1, <2>1, <2>2, <2>3 DEF Acquire, StartLast, Look, Report, Send, AddProgress, others
  <2>5. Complete(disk, worker, reported)
    BY <2>1, <2>4 DEF ScanComplete, Faultless
  <2>6. CASE Acquire(w)
    BY <2>5, <2>6, AcquireComplete
  <2>7. CASE StartLast(w)
    BY <2>4, <2>5, <2>7, StartLastComplete
  <2>8. CASE Look(w)
    BY <2>5, <2>8, LookComplete
  <2>9. CASE \E b \in worker[w].todo : Report(w, b)
    BY <2>5, <2>9, ReportComplete
  <2>10. CASE Send(w)
    BY <2>5, <2>10, SendComplete
  <2>11. CASE AddProgress(w)
    BY <2>5, <2>11, AddProgressComplete
  <2> QED
    BY <1>1, <2>2, <2>3, <2>6, <2>7, <2>8, <2>9, <2>10, <2>11
<1> QED
  BY <1>3, <1>4, <1>5 DEF ScanComplete

\* The steps of the collector, the reporter and scan itself.
LEMMA OtherComplete ==
    ASSUME ScanInv, ScanComplete,
           Collect \/ CloseChan \/ Return \/ Drain \/ Cancel \/ UNCHANGED vars
    PROVE  ScanComplete'
<1>1. disk' = disk /\ worker' = worker /\ reported' = reported /\ readErrors' = readErrors
  BY DEF Collect, CloseChan, Return, Drain, Cancel, vars
<1>2. Faultless' => Faultless
  BY <1>1 DEF Faultless, Collect, CloseChan, Return, Drain, Cancel, vars
<1>3. scanState' \in {"closed", "done", "failed"} => AllDone(worker')
  <2>1. CASE CloseChan
    BY <1>1, <2>1 DEF CloseChan, AllDone
  <2>2. CASE Return
    BY <1>1, <2>2 DEF Return, ScanComplete
  <2>3. CASE scanState' = scanState
    BY <1>1, <2>3 DEF ScanComplete
  <2> QED
    BY <2>1, <2>2, <2>3 DEF Collect, Drain, Cancel, vars
<1>4. scanState' = "done" => Faultless' /\ matchChan' = <<>>
  <2>1. CASE Return
    BY <2>1 DEF Return, Faultless
  <2>2. CASE CloseChan \/ Cancel
    BY <2>2 DEF CloseChan, Cancel
  <2>3. CASE Collect \/ Drain \/ UNCHANGED vars
    BY <2>3 DEF Collect, Drain, vars, ScanComplete, Faultless
  <2> QED
    BY <2>1, <2>2, <2>3
<1> QED
  BY <1>1, <1>2, <1>3, <1>4 DEF ScanComplete

\* Nothing is left out along any behaviour without faults.
LEMMA CompleteInvariant == Spec => [](ScanInv /\ ScanComplete)
<1>1. Init => ScanComplete
  <2> SUFFICES ASSUME Init PROVE ScanComplete
    OBVIOUS
  <2>1. worker = [w \in WorkersOf(disk) |-> Idle] /\ scanState = "scanning"
    BY OfDisk DEF Init
  <2>2. Thorough(disk, worker, reported, <<>>)
    BY <2>1, IdleProgress DEF Thorough
  <2> QED
    BY <2>1, <2>2 DEF ScanComplete, Complete
<1>2. ScanInv /\ ScanComplete /\ [Next]_vars => (ScanInv /\ ScanComplete)'
  <2> SUFFICES ASSUME ScanInv, ScanComplete, [Next]_vars PROVE ScanInv' /\ ScanComplete'
    OBVIOUS
  <2>1. ScanInv'
    BY ScanStep
  <2>2. WorkerNext => ScanComplete'
    BY WorkerComplete
  <2>3. Collect \/ CloseChan \/ Return \/ Drain \/ Cancel \/ UNCHANGED vars => ScanComplete'
    BY OtherComplete
  <2> QED
    BY <2>1, <2>2, <2>3 DEF Next, ScanNext, Stopped
<1> QED
  BY <1>1, <1>2, ScanInit, PTL DEF Spec

(***************************************************************************)
(* What a scan that is done leaves                                         *)
(***************************************************************************)

\* Every window of a scanned file belongs to a chunk.
LEMMA ChunkOf ==
    ASSUME NEW d, GoodDisk(d), NEW id \in SourcesOf(d), NEW off \in Nat,
           off + bs <= Len(d[id.name])
    PROVE  \E w \in WorkersOf(d) : w[1] = id /\ w[2] >= 0 /\ off \in ChunkStart(w)..LastOf(d, w)
<1> DEFINE n == Len(d[id.name])
           k == off \div scanChunkSize
           m == (n + scanChunkSize - 1) \div scanChunkSize
           w == <<id, k>>
<1>0. n \in Nat /\ bs \in Nat \ {0} /\ scanChunkSize \in Nat \ {0} /\ n > 0
  BY SourceFacts, Sizes1
<1>1. k \in Nat /\ off % scanChunkSize \in 0..scanChunkSize - 1
      /\ off = scanChunkSize * k + (off % scanChunkSize)
  <2>1. k \in Int /\ off % scanChunkSize \in 0..scanChunkSize - 1
        /\ off = scanChunkSize * k + (off % scanChunkSize)
    BY <1>0, Remainder
  <2>2. k >= 0
    BY <1>0
  <2> QED
    BY <2>1, <2>2
<1> DEFINE x == n + scanChunkSize - 1
           s == off % scanChunkSize
           t == x % scanChunkSize
<1>2. x \in Nat /\ m = x \div scanChunkSize
  BY <1>0
<1> HIDE DEF x, m
<1>3. m \in Int /\ t \in 0..scanChunkSize - 1 /\ x = scanChunkSize * m + t
  BY <1>0, <1>2, Remainder
<1> HIDE DEF k, s, t
<1>4. s \in 0..scanChunkSize - 1 /\ off = scanChunkSize * k + s
  BY <1>1 DEF s
<1>5. /\ off + bs <= n /\ s \in Nat /\ s < scanChunkSize /\ t \in Nat /\ t < scanChunkSize
      /\ off = scanChunkSize * k + s /\ n + scanChunkSize - 1 = scanChunkSize * m + t
  BY <1>0, <1>3, <1>4 DEF x
<1> HIDE DEF n
<1>6. k <= m - 1
  <2>1. scanChunkSize * (m - k) > 0
    <3>1. scanChunkSize * (m - k) = scanChunkSize * m - scanChunkSize * k
      BY <1>0, <1>1, <1>2
    <3>2. scanChunkSize * m \in Int /\ scanChunkSize * k \in Int
      BY <1>0, <1>1, <1>2
    <3> QED
      BY <1>0, <1>5, <3>1, <3>2
  <2>2. m - k \in Int
    BY <1>1, <1>2
  <2>3. m - k > 0
    BY <1>0, <2>1, <2>2
  <2> QED
    BY <1>1, <1>2, <2>3
<1>7. k \in -1..(m - 1)
  BY <1>1, <1>2, <1>6
<1>8. w \in WorkersOf(d)
  <2>1. w \in {id} \X (-1..(m - 1)) /\ Len(d[id.name]) > 0
    BY <1>0, <1>7 DEF n
  <2> HIDE DEF w
  <2>2. w \in {id} \X (-1..((Len(d[id.name]) + scanChunkSize - 1) \div scanChunkSize - 1))
    BY <2>1 DEF m, n
  <2> QED
    BY <2>1, <2>2 DEF WorkersOf
<1>9. w[1] = id /\ w[2] = k /\ w[2] >= 0
  BY <1>1
<1>10. ChunkStart(w) = k * scanChunkSize
  BY DEF ChunkStart
<1>11. k * scanChunkSize = scanChunkSize * k /\ scanChunkSize * k \in Nat
  BY <1>0, <1>1
<1>12. off >= ChunkStart(w) /\ off < ChunkStart(w) + scanChunkSize /\ ChunkStart(w) \in Nat
  BY <1>0, <1>5, <1>10, <1>11
<1> HIDE DEF w
<1>13. off <= LastOf(d, w) /\ LastOf(d, w) \in Int
  <2>1. off + bs <= Len(d[w[1].name])
    BY <1>5, <1>9 DEF n
  <2> QED
    BY <1>8, <1>9, <1>12, <2>1, LastFacts
<1>14. off \in ChunkStart(w)..LastOf(d, w)
  BY <1>12, <1>13
<1> QED
  BY <1>8, <1>9, <1>14

\* Every scanned file that is not empty has a worker for its last partial block.
LEMMA LastWorker ==
    ASSUME NEW d, GoodDisk(d), NEW id \in SourcesOf(d), d[id.name] # <<>>
    PROVE  <<id, -1>> \in WorkersOf(d)
<1> DEFINE n == Len(d[id.name])
           m == (n + scanChunkSize - 1) \div scanChunkSize
<1>0. n \in Nat /\ d[id.name] \in Seq(Byte) /\ scanChunkSize \in Nat \ {0}
  BY SourceFacts, Sizes1
<1>1. n > 0
  BY <1>0
<1>2. m \in Int /\ m >= 0
  <2>1. n + scanChunkSize - 1 \in Nat
    BY <1>0, <1>1
  <2> DEFINE x == n + scanChunkSize - 1
  <2>2. m = x \div scanChunkSize
    OBVIOUS
  <2> HIDE DEF x, n
  <2>3. x \div scanChunkSize \in Int /\ x \div scanChunkSize >= 0
    BY <1>0, <2>1 DEF x
  <2> QED
    BY <2>2, <2>3
<1>3. -1 \in -1..(m - 1)
  <2> HIDE DEF m
  <2> QED
    BY <1>2
<1> QED
  BY <1>1, <1>3 DEF WorkersOf

\* A jump over loc from a window that was the first to report its block.
FirstJump(d, loc, rep, F, j) == j \in Jumps(d, loc) /\ j[2] \in rep /\ F[j[2]] = j[1]

\* A match of a block that was not reported was skipped with reason.
LEMMA MissedFacts ==
    ASSUME NEW d, GoodDisk(d), NEW wk, DOMAIN wk = WorkersOf(d), NEW rep, NEW F,
           Thorough(d, wk, rep, F), AllDone(wk),
           NEW b \in Blocks, b \notin rep, NEW loc \in Matches(d, SourcesOf(d), b)
    PROVE  ~OnGrid(loc.off) /\ (NeedsJump(d, loc) => \E j : FirstJump(d, loc, rep, F, j))
<1>0. PICK id \in SourcesOf(d) :
         \E off \in 0..(Len(d[id.name]) + PartialLength(d, id)) :
            MatchesAt(d, id, off, b) /\ loc = [id |-> id, off |-> off]
  BY DEF Matches
<1>1. PICK off \in 0..(Len(d[id.name]) + PartialLength(d, id)) :
         MatchesAt(d, id, off, b) /\ loc = [id |-> id, off |-> off]
  BY <1>0
<1>2. off \in Nat /\ loc.id = id /\ loc.off = off
  BY <1>1, SourceFacts, PartialLengthFacts
<1>3. \A w \in WorkersOf(d) : Progress(d, w, wk[w], rep, F) /\ wk[w].phase = "done"
  BY DEF Thorough, AllDone
<1>4. CASE PartialWindow(d, id, off, b)
  <2> DEFINE w == <<id, -1>>
  <2>1. /\ b[1] \in fileChecksums /\ PartialLength(d, id) % bs # 0
        /\ off = LastBlockStart(PartialLength(d, id)) /\ d[id.name] # <<>>
        /\ Block(b) = [k \in 1..bs |-> IF off + k <= PartialLength(d, id)
                                       THEN Cell(d[id.name], off + k) ELSE 0]
    BY <1>4 DEF PartialWindow, bs
  <2>2. w \in WorkersOf(d) /\ w[1] = id /\ w[2] = -1 /\ ~(w[2] >= 0)
    BY <2>1, LastWorker
  <2> HIDE DEF w
  <2>3. b \in HeldAt(d, w, off)
    BY <2>1, <2>2 DEF HeldAt, Listed, WindowOf
  <2>4. Seen(d, w, off, rep)
    BY <1>3, <2>1, <2>2 DEF Progress
  <2> QED
    BY <2>3, <2>4 DEF Seen
<1>5. CASE FullWindow(d, id, off, b)
  <2>1. off + bs <= Len(d[id.name])
    BY <1>5 DEF FullWindow, bs
  <2>2. PICK w \in WorkersOf(d) : w[1] = id /\ w[2] >= 0 /\ off \in ChunkStart(w)..LastOf(d, w)
    BY <1>2, <2>1, ChunkOf
  <2>3. b \in HeldAt(d, w, off)
    BY <1>5, <2>2, HeldFull
  <2>4. Passed(d, w, LastOf(d, w) + 1, rep, F)
    BY <1>3, <2>2 DEF Progress
  <2>5. off < LastOf(d, w) + 1
    BY <1>2, <2>2, LastFacts
  <2>6. Handled(d, w, off, rep, F) /\ ~Seen(d, w, off, rep)
    BY <2>2, <2>3, <2>4, <2>5 DEF Passed, Seen
  <2>7. ~OnGrid(off) /\ (Claimed(d, id, BlockStart(off)) \/ Jumped(d, w, off, rep, F))
    BY <2>2, <2>6 DEF Handled
  <2>8. ASSUME NeedsJump(d, loc) PROVE \E j : FirstJump(d, loc, rep, F, j)
    <3>1. ~Claimed(d, id, BlockStart(off))
      BY <1>2, <2>8 DEF NeedsJump, BlockStart, bs
    <3>2. PICK p \in (off - bs + 1)..(off - 1) :
             /\ p >= 0 /\ ~OnGrid(p)
             /\ \E c \in rep : c \in Blocks /\ FullWindow(d, w[1], p, c) /\ F[c] = Place(w, p)
      BY <2>7, <3>1 DEF Jumped
    <3>3. PICK c \in rep : c \in Blocks /\ FullWindow(d, w[1], p, c) /\ F[c] = Place(w, p)
      BY <3>2
    <3> DEFINE at == [id |-> id, off |-> p]
               j == <<at, c>>
    <3>4. j[1] = at /\ j[2] = c /\ at.off = p /\ F[c] = at
      BY <2>2, <3>3 DEF Place
    <3>5. j \in {[id |-> loc.id, off |-> q] :
                    q \in (loc.off - sliceByteCount + 1)..(loc.off - 1)} \X Blocks
      BY <1>2, <3>2, <3>3 DEF bs
    <3>6. j[1].off >= 0 /\ ~OnGrid(j[1].off) /\ FullWindow(d, loc.id, j[1].off, j[2])
      BY <1>2, <2>2, <3>2, <3>3, <3>4
    <3> HIDE DEF j
    <3>7. j \in Jumps(d, loc)
      BY <3>5, <3>6 DEF Jumps
    <3>8. FirstJump(d, loc, rep, F, j)
      BY <3>3, <3>4, <3>7 DEF FirstJump
    <3> QED
      BY <3>8
  <2> QED
    BY <1>2, <2>7, <2>8
<1> QED
  BY <1>1, <1>4, <1>5 DEF MatchesAt

\* A true place is one of the places the contract enumerates.
LEMMA PlaceMatches ==
    ASSUME NEW d, GoodDisk(d), NEW b \in Blocks, NEW loc, TruePlace(d, loc, b)
    PROVE  loc \in Matches(d, SourcesOf(d), b)
<1> DEFINE id == loc.id
           off == loc.off
           n == Len(d[id.name])
           pl == PartialLength(d, id)
<1>1. loc \in Location /\ id \in SourcesOf(d) /\ off \in Nat /\ MatchesAt(d, id, off, b)
  BY DEF TruePlace
<1>2. n \in Nat /\ pl \in Nat /\ bs \in Nat \ {0}
  BY <1>1, SourceFacts, PartialLengthFacts, Sizes1
<1>3. off <= n + pl
  <2>1. CASE FullWindow(d, id, off, b)
    <3>1. off + bs <= n
      BY <2>1 DEF FullWindow, bs
    <3> QED
      BY <1>1, <1>2, <3>1
  <2>2. CASE PartialWindow(d, id, off, b)
    <3>1. off = LastBlockStart(pl)
      BY <2>2 DEF PartialWindow
    <3> DEFINE x == pl + bs - 1
               q == x \div bs
               r == x % bs
    <3>2. x \in Nat
      BY <1>2
    <3>3. LastBlockStart(pl) = (q - 1) * bs
      BY DEF LastBlockStart, bs
    <3> HIDE DEF x
    <3>4. q \in Int /\ r \in 0..bs - 1 /\ x = bs * q + r
      BY <1>2, <3>2, Remainder
    <3> HIDE DEF q, r
    <3>5. (q - 1) * bs = bs * q - bs /\ bs * q \in Int
      BY <1>2, <3>4
    <3>6. off <= pl
      BY <1>1, <1>2, <3>1, <3>3, <3>4, <3>5 DEF x
    <3> QED
      BY <1>1, <1>2, <3>6
  <2> QED
    BY <1>1, <2>1, <2>2 DEF MatchesAt
<1>4. off \in 0..(n + pl)
  BY <1>1, <1>2, <1>3
<1>5. loc = [id |-> id, off |-> off]
  BY <1>1 DEF Location
<1>6. off \in {p \in 0..(Len(d[id.name]) + PartialLength(d, id)) : MatchesAt(d, id, p, b)}
  BY <1>1, <1>4
<1> HIDE DEF id, off
<1> QED
  BY <1>1, <1>5, <1>6 DEF Matches

\* A block has no location before the scan exactly if it is not found.
LEMMA PrescanUnlocated ==
    ASSUME NEW d, NEW b \in Blocks
    PROVE  b \in Unlocated(PrescanLocs(d)) <=> PrescanLocs(d)[b] = NotFound
<1>1. NotFound.off = -1
  BY DEF NotFound
<1>2. b[2] \in Nat
  BY DEF Blocks
<1>3. b[2] * sliceByteCount \in Nat
  BY <1>2, SizeAssumption
<1>4. InPlaceIn(FileIDOf(b[1]), b).off # -1
  BY <1>3 DEF InPlaceIn
<1>5. PrescanLocs(d)[b] \in {NotFound, InPlaceIn(FileIDOf(b[1]), b)}
  BY DEF PrescanLocs
<1> QED
  BY <1>1, <1>4, <1>5 DEF Unlocated

\* The matches that jumps hid are explained by the windows that first reported a block.
LEMMA Explained ==
    ASSUME NEW d, NEW l, NEW rep, NEW F,
           \A b \in rep : l[b].off # -1,
           \A b \in Unlocated(l) : \A loc \in Matches(d, SourcesOf(d), b) :
               NeedsJump(d, loc) => \E j : FirstJump(d, loc, rep, F, j)
    PROVE  JumpsExplain(d, SourcesOf(d), l)
<1> DEFINE Hidden == {loc \in UNION {Matches(d, SourcesOf(d), b) : b \in Unlocated(l)} :
                         NeedsJump(d, loc)}
           h == [loc \in Hidden |-> CHOOSE j : FirstJump(d, loc, rep, F, j)]
<1>1. \A loc \in Hidden : \E j : FirstJump(d, loc, rep, F, j)
  OBVIOUS
<1> HIDE DEF Hidden
<1>2. \A loc \in Hidden : FirstJump(d, loc, rep, F, h[loc])
  BY <1>1
<1>3. h \in [Hidden -> UNION {Jumps(d, loc) : loc \in Hidden}]
  <2>1. \A loc \in Hidden : h[loc] \in UNION {Jumps(d, x) : x \in Hidden}
    BY <1>2 DEF FirstJump
  <2> QED
    BY <2>1
<1> HIDE DEF h
<1>4. \A loc \in Hidden : h[loc] \in Jumps(d, loc) /\ l[h[loc][2]].off # -1
  BY <1>2 DEF FirstJump
<1>5. \A x, y \in Hidden : h[x][2] = h[y][2] => h[x][1] = h[y][1]
  BY <1>2 DEF FirstJump
<1> QED
  BY <1>3, <1>4, <1>5 DEF JumpsExplain, Hidden

\* Locations that are each a choice, and explain their jumps, are an outcome.
LEMMA OutcomeIs ==
    ASSUME NEW d, NEW l \in [Blocks -> Location], NEW p \in [Blocks -> Location],
           \A b \in Blocks \ Unlocated(p) : l[b] = p[b],
           \A b \in Unlocated(p) : <<b, l[b]>> \in ScanChoices(d, SourcesOf(d), p),
           JumpsExplain(d, SourcesOf(d), l)
    PROVE  l \in ScanOutcomes(d, SourcesOf(d), p)
<1> DEFINE C == ScanChoices(d, SourcesOf(d), p)
           q == [b \in Unlocated(p) |-> l[b]]
<1>1. \A b \in Unlocated(p) : q[b] = l[b] /\ <<b, l[b]>> \in C
  OBVIOUS
<1> HIDE DEF C
<1>2. ASSUME NEW b \in Unlocated(p) PROVE l[b] \in {c[2] : c \in C}
  <2> DEFINE e == <<b, l[b]>>
  <2>1. e \in C /\ e[2] = l[b]
    BY <1>1
  <2> HIDE DEF e
  <2> QED
    BY <2>1
<1>3. q \in [Unlocated(p) -> {c[2] : c \in C}]
  BY <1>2
<1>4. l = [b \in Blocks |-> IF b \in Unlocated(p) THEN q[b] ELSE p[b]]
  <2>1. \A b \in Blocks : l[b] = IF b \in Unlocated(p) THEN q[b] ELSE p[b]
    BY <1>1
  <2> QED
    BY <2>1
<1> HIDE DEF q
<1>5. l \in OutcomesOf(C, p)
  BY <1>1, <1>3, <1>4 DEF OutcomesOf
<1> QED
  BY <1>5 DEF ScanOutcomes, C

\* A scan that is done leaves locations the contract allows.
LEMMA DoneOutcome ==
    ASSUME ScanInv, Complete(disk, worker, reported), AllDone(worker), matchChan = <<>>
    PROVE  locs \in ScanOutcomes(disk, SourcesOf(disk), PrescanLocs(disk))
<1> DEFINE P == PrescanLocs(disk)
<1>1. GoodDisk(disk) /\ DOMAIN worker = WorkersOf(disk) /\ reported \subseteq Blocks
  BY DEF ScanInv, WorkersInv
<1>2. /\ locs \in [Blocks -> Location]
      /\ \A b \in Blocks : locs[b] = P[b] \/ (P[b] = NotFound /\ TruePlace(disk, locs[b], b))
  BY DEF ScanInv, LocsInv
<1>3. P \in [Blocks -> Location]
  <2>1. \A b \in Blocks : locs[b] # P[b] => P[b] = NotFound
    BY <1>2
  <2>2. NotFound \in Location
    BY DEF NotFound, Location, FileID
  <2>3. \A b \in Blocks : P[b] \in Location
    BY <1>2, <2>1, <2>2
  <2>4. P = [b \in Blocks |-> P[b]]
    BY DEF PrescanLocs
  <2> HIDE DEF P
  <2> QED
    BY <2>3, <2>4
<1>4. PICK F : Thorough(disk, worker, reported, F)
  BY DEF Complete
<1>5. \A b \in reported : locs[b].off # -1
  <2> SUFFICES ASSUME NEW b \in reported, locs[b].off = -1 PROVE FALSE
    OBVIOUS
  <2>1. \A i \in DOMAIN matchChan : FALSE
    OBVIOUS
  <2>2. \A v \in DOMAIN worker : worker[v].sending = NoBlock
    <3> SUFFICES ASSUME NEW v \in DOMAIN worker PROVE worker[v].sending = NoBlock
      OBVIOUS
    <3>1. worker[v].phase = "done"
      BY DEF AllDone
    <3> QED
      BY <3>1, WorkerState DEF Looking
  <2>3. b # NoBlock
    BY <1>1 DEF NoBlock, Blocks
  <2> QED
    BY <2>1, <2>2, <2>3 DEF ScanInv, NotLost
<1>6. ASSUME NEW b \in Blocks, b \notin reported, NEW loc \in Matches(disk, SourcesOf(disk), b)
      PROVE  /\ ~OnGrid(loc.off)
             /\ NeedsJump(disk, loc) => \E j : FirstJump(disk, loc, reported, F, j)
  BY <1>1, <1>4, <1>6, MissedFacts
<1>7. \A b \in Unlocated(locs) : b \in Blocks /\ b \notin reported
  BY <1>5 DEF Unlocated
<1>8. JumpsExplain(disk, SourcesOf(disk), locs)
  BY <1>5, <1>6, <1>7, Explained
<1>9. \A b \in Blocks : b \in Unlocated(P) <=> P[b] = NotFound
  BY PrescanUnlocated
<1> HIDE DEF P
<1>10. ASSUME NEW b \in Blocks \ Unlocated(P) PROVE locs[b] = P[b]
  BY <1>2, <1>9
<1>11. ASSUME NEW b \in Unlocated(P) PROVE <<b, locs[b]>> \in ScanChoices(disk, SourcesOf(disk), P)
  <2>0. b \in Blocks /\ P[b] = NotFound
    BY <1>9 DEF Unlocated
  <2>1. CASE locs[b] = NotFound
    <3>0. NotFound.off = -1
      BY DEF NotFound
    <3>1. b \notin reported
      BY <1>5, <2>1, <3>0
    <3>2. \A loc \in Matches(disk, SourcesOf(disk), b) :
             ~OnGrid(loc.off) /\ (NeedsJump(disk, loc) => Jumps(disk, loc) # {})
      BY <1>6, <2>0, <3>1 DEF FirstJump
    <3>3. MayMiss(disk, SourcesOf(disk), b)
      BY <3>2 DEF MayMiss
    <3> QED
      BY <2>1, <3>3 DEF ScanChoices
  <2>2. CASE TruePlace(disk, locs[b], b)
    <3>1. locs[b] \in Matches(disk, SourcesOf(disk), b)
      BY <1>1, <2>0, <2>2, PlaceMatches
    <3> QED
      BY <3>1 DEF ScanChoices
  <2> QED
    BY <1>2, <2>0, <2>1, <2>2
<1>12. locs \in ScanOutcomes(disk, SourcesOf(disk), P)
  BY <1>2, <1>3, <1>8, <1>10, <1>11, OutcomeIs
<1> QED
  BY <1>12 DEF P

(***************************************************************************)
(* The refinement of ScanSpec                                              *)
(***************************************************************************)

\* The instance's operators are the ones of ScanContract.
LEMMA SameOperators ==
    /\ S!Blocks = Blocks /\ S!SourcesOf(disk) = SourcesOf(disk) /\ S!NotFound = NotFound
    /\ S!PrescanLocs(disk) = PrescanLocs(disk)
<1>1. S!Protected = Protected
  BY DEF S!Protected, Protected
<1>2. \A f : S!Shards(f) = Shards(f)
  BY DEF S!Shards, Shards
<1>3. S!Blocks = Blocks
  BY <1>1, <1>2 DEF S!Blocks, Blocks
<1>4. S!NotFound = NotFound
  BY DEF S!NotFound, NotFound
<1>5. \A f, b : S!FileIDOf(f) = FileIDOf(f) /\ S!CandidateID(f) = CandidateID(f)
                /\ S!InPlaceIn(f, b) = InPlaceIn(f, b)
  BY DEF S!FileIDOf, FileIDOf, S!CandidateID, CandidateID, S!InPlaceIn, InPlaceIn
<1>6. S!PrescanDamage(disk) = PrescanDamage(disk)
  BY <1>1 DEF S!PrescanDamage, PrescanDamage
<1>7. S!PrescanLocs(disk) = PrescanLocs(disk)
  BY <1>3, <1>4, <1>5 DEF S!PrescanLocs, PrescanLocs
<1>8. S!SourcesOf(disk) = SourcesOf(disk)
  BY <1>1, <1>5, <1>6 DEF S!SourcesOf, SourcesOf, S!ScanSources, ScanSources
<1> QED
  BY <1>3, <1>4, <1>7, <1>8

\* So are its windows and matches.
LEMMA SameMatches ==
    ASSUME NEW d
    PROVE  /\ \A id, o, b : S!FullWindow(d, id, o, b) <=> FullWindow(d, id, o, b)
           /\ \A s, b : S!Matches(d, s, b) = Matches(d, s, b)
<1>1. \A s, o, n : S!ReadAt(s, o, n) = ReadAt(s, o, n)
  BY DEF S!ReadAt, ReadAt, S!Cell, Cell
<1>2. \A b : S!Block(b) = Block(b)
  BY <1>1 DEF S!Block, Block
<1>3. \A id, o, b : S!FullWindow(d, id, o, b) <=> FullWindow(d, id, o, b)
  BY <1>1, <1>2 DEF S!FullWindow, FullWindow
<1>4. \A id : S!PartialLength(d, id) = PartialLength(d, id)
  BY DEF S!PartialLength, PartialLength
<1>5. \A id, o, b : S!PartialWindow(d, id, o, b) <=> PartialWindow(d, id, o, b)
  BY <1>2, <1>4 DEF S!PartialWindow, PartialWindow, S!LastBlockStart, LastBlockStart, S!Cell, Cell
<1>6. \A id, o, b : S!MatchesAt(d, id, o, b) <=> MatchesAt(d, id, o, b)
  BY <1>3, <1>5 DEF S!MatchesAt, MatchesAt
<1>7. ASSUME NEW s, NEW b PROVE S!Matches(d, s, b) = Matches(d, s, b)
  <2> DEFINE X(id) == {[id |-> id, off |-> o] :
                         o \in {p \in 0..(Len(d[id.name]) + S!PartialLength(d, id)) :
                                  S!MatchesAt(d, id, p, b)}}
             Y(id) == {[id |-> id, off |-> o] :
                         o \in {p \in 0..(Len(d[id.name]) + PartialLength(d, id)) :
                                  MatchesAt(d, id, p, b)}}
  <2>1. \A id : X(id) = Y(id)
    BY <1>4, <1>6
  <2>2. S!Matches(d, s, b) = UNION {X(id) : id \in s} /\ Matches(d, s, b) = UNION {Y(id) : id \in s}
    BY DEF S!Matches, Matches
  <2> HIDE DEF X, Y
  <2> QED
    BY <2>1, <2>2
<1> QED
  BY <1>3, <1>7

\* And its outcomes.
LEMMA SameOutcomes ==
    ASSUME NEW d, NEW s, NEW p
    PROVE  S!ScanOutcomes(d, s, p) = ScanOutcomes(d, s, p)
<1>1. S!Blocks = Blocks /\ S!NotFound = NotFound
  BY SameOperators
<1>2. /\ \A id, o, b : S!FullWindow(d, id, o, b) <=> FullWindow(d, id, o, b)
      /\ \A b : S!Matches(d, s, b) = Matches(d, s, b)
  BY SameMatches
<1>3. \A o : S!OnGrid(o) <=> OnGrid(o)
  BY DEF S!OnGrid, OnGrid
<1>4. \A id, o : S!Claimed(d, id, o) <=> Claimed(d, id, o)
  BY <1>1, <1>2 DEF S!Claimed, Claimed
<1>5. \A loc : S!NeedsJump(d, loc) <=> NeedsJump(d, loc)
  BY <1>4 DEF S!NeedsJump, NeedsJump
<1>6. \A loc : S!Jumps(d, loc) = Jumps(d, loc)
  BY <1>1, <1>2, <1>3 DEF S!Jumps, Jumps
<1>7. \A b : S!MayMiss(d, s, b) <=> MayMiss(d, s, b)
  BY <1>2, <1>3, <1>5, <1>6 DEF S!MayMiss, MayMiss
<1>8. \A l : S!Unlocated(l) = Unlocated(l)
  BY <1>1 DEF S!Unlocated, Unlocated
<1>9. ASSUME NEW l PROVE S!JumpsExplain(d, s, l) <=> JumpsExplain(d, s, l)
  <2> DEFINE H == {loc \in UNION {Matches(d, s, b) : b \in Unlocated(l)} : NeedsJump(d, loc)}
             G == {loc \in UNION {S!Matches(d, s, b) : b \in S!Unlocated(l)} : S!NeedsJump(d, loc)}
             A == UNION {Jumps(d, loc) : loc \in H}
             B == UNION {S!Jumps(d, loc) : loc \in G}
  <2>1. G = H
    BY <1>2, <1>5, <1>8
  <2>2. B = A
    BY <1>6, <2>1
  <2>3. JumpsExplain(d, s, l) <=>
          \E h \in [H -> A] :
            /\ \A loc \in H : h[loc] \in Jumps(d, loc) /\ l[h[loc][2]].off # -1
            /\ \A x, y \in H : h[x][2] = h[y][2] => h[x][1] = h[y][1]
    BY DEF JumpsExplain
  <2>4. S!JumpsExplain(d, s, l) <=>
          \E h \in [G -> B] :
            /\ \A loc \in G : h[loc] \in S!Jumps(d, loc) /\ l[h[loc][2]].off # -1
            /\ \A x, y \in G : h[x][2] = h[y][2] => h[x][1] = h[y][1]
    BY DEF S!JumpsExplain
  <2> HIDE DEF A, B, G, H
  <2> QED
    BY <1>6, <2>1, <2>2, <2>3, <2>4
<1>10. S!ScanChoices(d, s, p) = ScanChoices(d, s, p)
  <2>1. /\ UNION {{b} \X S!Matches(d, s, b) : b \in S!Unlocated(p)}
             = UNION {{b} \X Matches(d, s, b) : b \in Unlocated(p)}
    BY <1>2, <1>8
  <2>2. {<<b, S!NotFound>> : b \in {c \in S!Unlocated(p) : S!MayMiss(d, s, c)}}
          = {<<b, NotFound>> : b \in {c \in Unlocated(p) : MayMiss(d, s, c)}}
    BY <1>1, <1>7, <1>8
  <2> QED
    BY <2>1, <2>2 DEF S!ScanChoices, ScanChoices
<1>11. \A C : S!OutcomesOf(C, p) = OutcomesOf(C, p)
  BY <1>1, <1>8 DEF S!OutcomesOf, OutcomesOf
<1>12. \A C : {l \in S!OutcomesOf(C, p) : S!JumpsExplain(d, s, l)}
            = {l \in OutcomesOf(C, p) : JumpsExplain(d, s, l)}
  BY <1>9, <1>11
<1> QED
  BY <1>10, <1>12 DEF S!ScanOutcomes, ScanOutcomes

\* A step of the scan is a step of ScanSpec or changes nothing that it sees.
LEMMA StepRefines ==
    ASSUME ScanInv, ScanComplete, [Next]_vars
    PROVE  [S!Returns \/ S!Fails]_(S!svars)
<1> DEFINE state == IF scanState = "closed" THEN "scanning" ELSE scanState
           result == IF scanState = "done" THEN locs ELSE PrescanLocs(disk)
<1>1. disk' = disk
  BY DEF Next, ScanNext, WorkerNext, Stopped, vars, Acquire, StartLast, ReadFails, Abandon, Look,
         Report, Send, AddProgress, Collect, CloseChan, Return, Drain, Cancel, others
<1>2. CASE Return
  <2>1. scanState = "closed" /\ matchChan = <<>> /\ locs' = locs
        /\ scanState' = IF readErrors # {} \/ cancelled THEN "failed" ELSE "done"
    BY <1>2 DEF Return
  <2>2. CASE readErrors # {} \/ cancelled
    BY <1>1, <2>1, <2>2 DEF S!Fails
  <2>3. CASE ~(readErrors # {} \/ cancelled)
    <3>1. locs \in ScanOutcomes(disk, SourcesOf(disk), PrescanLocs(disk))
      BY <2>1, <2>3, DoneOutcome DEF ScanComplete, Faultless
    <3>2. locs \in S!ScanOutcomes(disk, S!SourcesOf(disk), PrescanLocs(disk))
      BY <3>1, SameOperators, SameOutcomes
    <3>3. S!Returns
      BY <1>1, <2>1, <2>3, <3>2, SameOperators DEF S!Returns
    <3> QED
      BY <3>3
  <2> QED
    BY <2>2, <2>3
<1>3. CASE ~Return
  <2>1. state' = state
    BY <1>3 DEF Next, ScanNext, WorkerNext, Stopped, vars, Acquire, StartLast, ReadFails, Abandon,
           Look, Report, Send, AddProgress, Collect, CloseChan, Drain, Cancel, others
  <2>2. scanState = "done" => locs' = locs
    <3> SUFFICES ASSUME scanState = "done" PROVE locs' = locs
      OBVIOUS
    <3>1. ~Collect
      BY DEF ScanComplete, Collect
    <3> QED
      BY <1>3, <3>1 DEF Next, ScanNext, WorkerNext, Stopped, vars, Acquire, StartLast, ReadFails,
           Abandon, Look, Report, Send, AddProgress, CloseChan, Drain, Cancel, others
  <2>3. scanState' = "done" <=> scanState = "done"
    BY <2>1
  <2>4. PrescanLocs(disk)' = PrescanLocs(disk)
    BY <1>1 DEF PrescanLocs
  <2>5. result' = result
    BY <2>2, <2>3, <2>4
  <2> QED
    BY <1>1, <2>1, <2>5 DEF S!svars
<1> QED
  BY <1>2, <1>3

\* The concurrent scan does what ScanSpec says, given that it returns (ProgressDrained):
\* whatever the workers interleave, skip, jump over or find twice, a scan that is done
\* has left every block at its location before the scan, at a true match, or missing
\* with a reason the contract allows (blockScanner.scan).
THEOREM ScanImplements == Spec /\ ProgressDrained => ImplementsScan
<1>1. Init => S!SInit
  <2> SUFFICES ASSUME Init PROVE S!SInit
    OBVIOUS
  <2>1. disk \in ScanDisks /\ scanState = "scanning"
    BY DEF Init
  <2> QED
    BY <2>1, SameOperators DEF S!SInit
<1>2. ScanInv /\ ScanComplete /\ [Next]_vars => [S!Returns \/ S!Fails]_(S!svars)
  BY StepRefines
<1>3. (scanState \in {"done", "failed"} /\ progressChan = 0)
        => (IF scanState = "closed" THEN "scanning" ELSE scanState) # "scanning"
  OBVIOUS
<1> QED
  BY <1>1, <1>2, <1>3, CompleteInvariant, PTL DEF Spec, ProgressDrained, ImplementsScan, S!SSpec

=============================================================================
