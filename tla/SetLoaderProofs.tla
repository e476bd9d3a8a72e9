--------------------------- MODULE SetLoaderProofs ---------------------------
(***************************************************************************)
(* Proofs about SetLoader, for every directory: nothing in a volume fails  *)
(* a load, and no recovery block is kept that the set does not offer.      *)
(***************************************************************************)
EXTENDS SetLoader, Induction, SequenceTheorems, TLAPS

\* The phases of a load and the file it is reading agree.
PhaseInv ==
    /\ dir \in Directories /\ index \in DOMAIN dir /\ index # NoFile
    /\ pos \in Nat \ {0}
    /\ cur \in DOMAIN dir \cup {NoFile}
    /\ cur = index <=> phase = "index"
    /\ phase \in {"list", "loaded", "failed"} => cur = NoFile
    /\ DOMAIN parityShards = Exponents

\* The packets behind the reader are ones it does not stop at, and none has been
\* read while the set has no ID.
PassedInv ==
    /\ Streaming => \A j \in 1..pos - 1 : Passes(cur, dir[cur][j])
    /\ recoverySetID = NoSet =>
          /\ Streaming => pos = 1
          /\ \A e \in Exponents : parityShards[e] = NoShard

LoadInv == PhaseInv /\ PassedInv /\ NoForeignBlock /\ VolumesNeverFail

(***************************************************************************)
(* One packet                                                              *)
(***************************************************************************)

\* The packet that is read is one of its file.
LEMMA PacketOfFile ==
    ASSUME PhaseInv, AtPacket
    PROVE  cur \in DOMAIN dir /\ pos \in DOMAIN dir[cur] /\ P.set \in SetIDs /\ P.set # NoSet
  <1>1. cur \in DOMAIN dir /\ dir \in Directories
    BY DEF PhaseInv, AtPacket, Streaming
  <1>2. pos \in DOMAIN dir[cur]
    BY <1>1, LoaderAssumption DEF PhaseInv, AtPacket
  <1>. QED BY <1>1, <1>2, LoaderAssumption DEF P

\* The ID of the set changes only when it had none.
LEMMA SetIDKept ==
    ASSUME AdoptSet, recoverySetID # NoSet
    PROVE  recoverySetID' = recoverySetID
  BY DEF AdoptSet, Own

\* A packet the reader accepts passes, and leaves the set with an ID.
LEMMA AcceptedPasses ==
    ASSUME PhaseInv, AtPacket, Accepted(P), AdoptSet, index' = index,
           NEW f, f = cur, NEW p, p = P
    PROVE  /\ recoverySetID' # NoSet /\ Passes(f, p)'
           /\ Own(p) => p.set = recoverySetID'
  <1>1. p.readable /\ p.set # NoSet /\ (Own(p) /\ Handled(p) => ParseOK(p.body))
    BY PacketOfFile DEF Accepted
  <1>2. recoverySetID' = IF Own(p) THEN p.set ELSE recoverySetID
    BY <1>1 DEF AdoptSet
  <1>3. p.set = recoverySetID' => Own(p)
    BY <1>2 DEF Own
  <1>4. f = index \/ p.body.type = "recv" => Handled(p)
    BY DEF Handled, InIndex
  <1>. QED BY <1>1, <1>2, <1>3, <1>4 DEF Passes, Own

\* What a file offers, and which packets pass, depends on the ID of the set alone.
LEMMA OfferedKept ==
    ASSUME UNCHANGED <<dir, index, recoverySetID>>, NEW f
    PROVE  Offered(f)' = Offered(f) /\ \A p : Passes(f, p)' = Passes(f, p)
  BY DEF Offered, Passes

\* Steps that read no packet keep what has been said of packets.
LEMMA QuietStep ==
    ASSUME LoadInv, UNCHANGED <<dir, index, recoverySetID, parityShards>>,
           \/ cur' = NoFile
           \/ cur' = cur /\ pos' = pos
           \/ pos' = 1
    PROVE  PassedInv' /\ NoForeignBlock'
  <1>1. NoForeignBlock'
    BY OfferedKept DEF LoadInv, NoForeignBlock
  <1>2. Streaming' => \A j \in 1..pos' - 1 : Passes(cur, dir[cur][j])'
    BY OfferedKept DEF LoadInv, PassedInv, Streaming, Passes
  <1>3. recoverySetID' = NoSet => /\ Streaming' => pos' = 1
                                  /\ \A e \in Exponents : parityShards'[e] = NoShard
    BY DEF LoadInv, PassedInv, Streaming
  <1>. QED BY <1>1, <1>2, <1>3 DEF PassedInv

\* The set gets its ID before it gets a recovery block, so none is lost by it.
LEMMA AdoptKeeps ==
    ASSUME LoadInv, AdoptSet, UNCHANGED <<dir, index, parityShards>>
    PROVE  /\ NoForeignBlock'
           /\ recoverySetID' = NoSet => \A e \in Exponents : parityShards'[e] = NoShard
  <1>1. CASE recoverySetID # NoSet
    BY <1>1, SetIDKept, OfferedKept DEF LoadInv, NoForeignBlock
  <1>2. CASE recoverySetID = NoSet
    BY <1>2 DEF LoadInv, PassedInv, NoForeignBlock
  <1>. QED BY <1>1, <1>2

\* The reader stops at a packet: the load fails if the packet is the index's.
LEMMA PacketFailsStep == ASSUME LoadInv, PacketFails PROVE LoadInv'
  <1>1. UNCHANGED <<dir, index, pos, parityShards, unread, cancelled>> /\ cur' = NoFile
    BY DEF PacketFails, StreamFails
  <1>2. PhaseInv'
    BY <1>1 DEF LoadInv, PhaseInv, PacketFails, StreamFails, InIndex, AtPacket, Streaming
  <1>3. NoForeignBlock' /\ PassedInv'
    BY <1>1, AdoptKeeps DEF PacketFails, PassedInv, Streaming
  <1>4. VolumesNeverFail'
    <2>1. SUFFICES ASSUME phase' = "failed"
                   PROVE  \E i \in DOMAIN dir[index] : ~Passes(index, dir[index][i])'
      BY <1>1 DEF VolumesNeverFail
    <2>2. cur = index
      BY <2>1 DEF LoadInv, PhaseInv, PacketFails, StreamFails, InIndex, AtPacket, Streaming
    <2>3. pos \in DOMAIN dir[index] /\ P = dir[index][pos]
      BY <2>2, PacketOfFile DEF LoadInv, PacketFails, P
    <2>4. ~Passes(index, dir[index][pos])'
      BY <1>1, <2>2, <2>3 DEF PacketFails, Accepted, AdoptSet, Own, Handled, Passes, P
    <2>. QED BY <1>1, <2>3, <2>4
  <1>. QED BY <1>2, <1>3, <1>4 DEF LoadInv

\* The reader goes past a packet it accepts.
LEMMA PassStep ==
    ASSUME LoadInv, AtPacket, Accepted(P), AdoptSet, pos' = pos + 1,
           UNCHANGED <<dir, index, phase, cur, unread, cancelled>>,
           DOMAIN parityShards' = Exponents, NoForeignBlock'
    PROVE  LoadInv'
  <1>1. PhaseInv'
    BY DEF LoadInv, PhaseInv
  <1>2. PICK f, d, q : f = cur /\ d = dir[f] /\ q = pos
    OBVIOUS
  <1>3. recoverySetID' # NoSet /\ Passes(f, d[q])'
    BY <1>2, AcceptedPasses DEF LoadInv, P
  <1>4. ASSUME NEW j \in 1..q - 1 PROVE Passes(f, d[j])'
    <2>1. q # 1 /\ Passes(f, d[j])
      BY <1>2, <1>4 DEF LoadInv, PhaseInv, PassedInv, AtPacket
    <2>2. recoverySetID' = recoverySetID
      BY <1>2, <2>1, SetIDKept DEF LoadInv, PassedInv, AtPacket
    <2>. QED BY <2>1, <2>2, OfferedKept
  <1>5. PassedInv'
    <2>1. \A j \in 1..pos' - 1 : j = q \/ j \in 1..q - 1
      BY <1>2 DEF LoadInv, PhaseInv
    <2>2. \A j \in 1..pos' - 1 : Passes(f, d[j])'
      BY <1>3, <1>4, <2>1
    <2>3. cur' = f /\ dir'[cur'] = d
      BY <1>2
    <2>. QED BY <1>3, <2>2, <2>3 DEF PassedInv
  <1>6. VolumesNeverFail'
    BY DEF LoadInv, PhaseInv, VolumesNeverFail, AtPacket, Streaming
  <1>. QED BY <1>1, <1>5, <1>6 DEF LoadInv

\* A recovery block that is kept is one its file offers.
LEMMA HandleStep == ASSUME LoadInv, HandlePacket PROVE LoadInv'
  <1>1. /\ AtPacket /\ Accepted(P) /\ AdoptSet /\ pos' = pos + 1 /\ Own(P)
        /\ UNCHANGED <<dir, index, phase, cur, unread, cancelled>>
    BY DEF HandlePacket
  <1>2. PICK f, d, q, p : f = cur /\ d = dir[f] /\ q = pos /\ p = P
    OBVIOUS
  <1>3. recoverySetID' # NoSet /\ Passes(f, p)' /\ p.set = recoverySetID'
    BY <1>1, <1>2, AcceptedPasses DEF LoadInv
  <1>4. f \in DOMAIN dir /\ q \in DOMAIN d /\ p = d[q] /\ q \in Nat \ {0}
    BY <1>1, <1>2, PacketOfFile DEF LoadInv, PhaseInv, P
  <1>5. DOMAIN parityShards = Exponents
    BY DEF LoadInv, PhaseInv
  <1>6. CASE p.body.type # "recv" \/ parityShards' = parityShards
    <2>1. parityShards' = parityShards
      BY <1>2, <1>6 DEF HandlePacket
    <2>. QED BY <1>1, <1>5, <2>1, AdoptKeeps, PassStep
  <1>7. CASE p.body.type = "recv" /\ parityShards' # parityShards
    <2>. DEFINE x == p.body.exponent
    <2>1. parityShards' = [parityShards EXCEPT ![x] = p.body.len]
      BY <1>2, <1>7 DEF HandlePacket, KeepBlock
    <2>2. DOMAIN parityShards' = Exponents
      BY <1>5, <2>1
    <2>3. \A j \in 1..q : Passes(f, d[j])'
      <3>1. ASSUME NEW j \in 1..q - 1 PROVE Passes(f, d[j])'
        <4>1. q # 1 /\ Passes(f, d[j])
          BY <1>1, <1>2, <3>1 DEF LoadInv, PhaseInv, PassedInv, AtPacket
        <4>2. recoverySetID' = recoverySetID
          BY <1>1, <1>2, <4>1, SetIDKept DEF LoadInv, PassedInv, AtPacket
        <4>. QED BY <1>1, <4>1, <4>2, OfferedKept
      <3>2. \A j \in 1..q : j = q \/ j \in 1..q - 1
        BY <1>4
      <3>. QED BY <1>3, <1>4, <3>1, <3>2
    <2>4. x \in Exponents => x \in Offered(f)'
      BY <1>1, <1>2, <1>3, <1>4, <1>7, <2>3 DEF Offered
    <2>5. ASSUME NEW e \in Exponents, parityShards'[e] # NoShard
          PROVE  \E n \in DOMAIN dir : e \in Offered(n)'
      <3>1. CASE e = x
        BY <1>4, <2>4, <3>1
      <3>2. CASE e # x
        <4>1. parityShards[e] # NoShard
          BY <1>5, <2>1, <2>5, <3>2
        <4>2. recoverySetID # NoSet
          BY <4>1 DEF LoadInv, PassedInv
        <4>3. \A n : Offered(n)' = Offered(n)
          BY <1>1, <4>2, SetIDKept, OfferedKept
        <4>. QED BY <4>1, <4>3 DEF LoadInv, NoForeignBlock
      <3>. QED BY <3>1, <3>2
    <2>6. NoForeignBlock'
      BY <1>1, <2>5 DEF NoForeignBlock
    <2>. QED BY <1>1, <2>2, <2>6, PassStep
  <1>. QED BY <1>6, <1>7

\* Steps that read no packet.
LEMMA OtherStep ==
    ASSUME LoadInv,
           \/ StreamCancelled \/ IndexDone \/ VolumeDone \/ ListDirectory
           \/ \E n \in DOMAIN dir : OpenVolume(n) \/ PassEntry(n)
           \/ \E n \in DOMAIN dir \cup {NoFile} : OpenFails(n)
           \/ EntryCancelled \/ Loaded \/ Cancel \/ UNCHANGED vars
    PROVE  LoadInv'
  <1>. USE DEF Streaming, InIndex, AtEnd, AtEntry, state
  <1>1. UNCHANGED <<dir, index, recoverySetID, parityShards>>
    BY DEF StreamCancelled, StreamFails, IndexDone, VolumeDone, ListDirectory, OpenVolume,
           PassEntry, OpenFails, EntryCancelled, Loaded, Cancel, vars
  <1>2. cur' = NoFile \/ (cur' = cur /\ pos' = pos) \/ pos' = 1
    BY DEF StreamCancelled, StreamFails, IndexDone, VolumeDone, ListDirectory, OpenVolume,
           PassEntry, OpenFails, EntryCancelled, Loaded, Cancel, vars
  <1>3. PassedInv' /\ NoForeignBlock'
    BY <1>1, <1>2, QuietStep
  <1>4. PhaseInv'
    <2>1. CASE IndexDone
      <3>1. phase' = "list" /\ cur' = NoFile /\ pos' = pos
        BY <2>1 DEF IndexDone
      <3>. QED BY <1>1, <3>1 DEF LoadInv, PhaseInv
    <2>2. CASE ~IndexDone
      BY <1>1, <2>2
         DEF LoadInv, PhaseInv, StreamCancelled, StreamFails, VolumeDone, ListDirectory,
             OpenVolume, IsVolume, PassEntry, OpenFails, EntryCancelled, Loaded, Cancel, vars
    <2>. QED BY <2>1, <2>2
  <1>5. phase' = "failed" =>
           \/ cancelled'
           \/ unread' \cap {index, NoFile} # {}
           \/ phase = "failed" /\ UNCHANGED <<cancelled, unread>>
    BY DEF LoadInv, PhaseInv, StreamCancelled, StreamFails, IndexDone, VolumeDone,
           ListDirectory, OpenVolume, PassEntry, OpenFails, EntryCancelled, Loaded, Cancel, vars
  <1>6. VolumesNeverFail'
    BY <1>1, <1>5, OfferedKept DEF LoadInv, VolumesNeverFail
  <1>. QED BY <1>3, <1>4, <1>6 DEF LoadInv

\* The loader's invariant holds in every state.
LEMMA LoadInvariant == Spec => []LoadInv
  <1>1. Init => LoadInv
    <2>. SUFFICES ASSUME Init PROVE LoadInv
      OBVIOUS
    <2>1. PhaseInv
      BY LoaderAssumption DEF Init, PhaseInv
    <2>2. PassedInv /\ NoForeignBlock /\ VolumesNeverFail
      BY DEF Init, PassedInv, NoForeignBlock, VolumesNeverFail, Streaming
    <2>. QED BY <2>1, <2>2 DEF LoadInv
  <1>2. LoadInv /\ [Next]_vars => LoadInv'
    <2>. SUFFICES ASSUME LoadInv, [Next]_vars PROVE LoadInv'
      OBVIOUS
    <2>1. CASE SkipPacket
      <3>1. DOMAIN parityShards' = Exponents /\ NoForeignBlock'
        BY <2>1, AdoptKeeps DEF SkipPacket, LoadInv, PhaseInv
      <3>. QED BY <2>1, <3>1, PassStep DEF SkipPacket
    <2>. QED BY <2>1, PacketFailsStep, HandleStep, OtherStep
            DEF Next, LoadNext, StreamNext, Stopped
  <1>. QED BY <1>1, <1>2, PTL DEF Spec

\* A load fails only for its index, its directory or its context, in every
\* directory: nothing a volume holds can fail it (loadVolumeFiles).
THEOREM VolumesNeverFailAlways == Spec => []VolumesNeverFail
  <1>1. LoadInv => VolumesNeverFail
    BY DEF LoadInv
  <1>. QED BY <1>1, LoadInvariant, PTL

\* No recovery block of another set, or of a packet behind the first error of its
\* file, is ever kept (streamPAR2Packets, loadSingleVolumeFile).
THEOREM NoForeignBlockAlways == Spec => []NoForeignBlock
  <1>1. LoadInv => NoForeignBlock
    BY DEF LoadInv
  <1>. QED BY <1>1, LoadInvariant, PTL

(***************************************************************************)
(* Which files are volumes                                                 *)
(***************************************************************************)

\* A name without one of the tokens at its end is a prefix of the name.
LEMMA DropKeepsPrefix ==
    ASSUME NEW T, NEW s \in Seq(T), NEW tokens
    PROVE  /\ DropLast(s, tokens) \in Seq(T)
           /\ Len(DropLast(s, tokens)) <= Len(s)
           /\ \A i \in 1..Len(DropLast(s, tokens)) : DropLast(s, tokens)[i] = s[i]
  <1>1. CASE s # <<>> /\ Last(s) \in tokens
    <2>1. DropLast(s, tokens) = SubSeq(s, 1, Len(s) - 1)
      BY <1>1 DEF DropLast, Front
    <2>2. Len(s) \in Nat \ {0}
      BY <1>1
    <2>. QED BY <2>1, <2>2
  <1>2. CASE ~(s # <<>> /\ Last(s) \in tokens)
    BY <1>2 DEF DropLast
  <1>. QED BY <1>1, <1>2

\* A name with a token at its end, and without it again.
LEMMA DropAppended ==
    ASSUME NEW T, NEW s \in Seq(T), NEW t \in T, NEW tokens, t \in tokens
    PROVE  /\ s \o <<t>> \in Seq(T) /\ Last(s \o <<t>>) = t
           /\ DropLast(s \o <<t>>, tokens) = s
  <1>. DEFINE r == s \o <<t>>
  <1>1. r \in Seq(T) /\ Len(r) = Len(s) + 1 /\ r # <<>>
    OBVIOUS
  <1>2. r[Len(s) + 1] = t
    OBVIOUS
  <1>3. SubSeq(r, 1, Len(s)) = s
    OBVIOUS
  <1>4. Last(r) = t
    BY <1>1, <1>2 DEF Last
  <1>5. Front(r) = s
    BY <1>1, <1>3 DEF Front
  <1>. QED BY <1>1, <1>4, <1>5 DEF DropLast

\* A file of the set but for the index is a volume.
LEMMA SiblingIsVolume ==
    ASSUME dir \in Directories, index \in DOMAIN dir, NEW n \in Siblings, n # index
    PROVE  IsVolume(n)
  <1>. DEFINE T == Range(n) \cup Range(index) \cup VolumeTags \cup {Par2Ext}
  <1>1. n \in Seq(Range(n)) /\ index \in Seq(Range(index)) /\ n \in DOMAIN dir
    BY LoaderAssumption DEF Siblings
  <1>2. n \in Seq(T) /\ index \in Seq(T)
    BY <1>1
  <1>3. VolumeTags \subseteq T /\ Par2Ext \in T
    OBVIOUS
  <1>4. PICK k \in 0..Len(n) :
           {n, index} \subseteq {SubSeq(n, 1, k) \o <<Par2Ext>>}
              \cup {SubSeq(n, 1, k) \o <<tag, Par2Ext>> : tag \in VolumeTags}
    BY DEF Siblings
  <1>5. PICK base : base = SubSeq(n, 1, k)
    OBVIOUS
  <1>. HIDE DEF T
  <1>6. base \in Seq(T) /\ Len(base) <= Len(n) /\ \A i \in 1..Len(base) : base[i] = n[i]
    BY <1>2, <1>4, <1>5
  <1>7. ASSUME NEW tag \in VolumeTags
        PROVE  base \o <<tag, Par2Ext>> = (base \o <<tag>>) \o <<Par2Ext>>
    BY <1>3, <1>6
  <1>8. ASSUME NEW m \in {n, index}
        PROVE  /\ Last(m) = Par2Ext
               /\ DropLast(m, {Par2Ext}) \in {base} \cup {base \o <<tag>> : tag \in VolumeTags}
    <2>1. CASE m = base \o <<Par2Ext>>
      BY <1>3, <1>6, <2>1, DropAppended
    <2>2. ASSUME NEW tag \in VolumeTags, m = base \o <<tag, Par2Ext>>
          PROVE  Last(m) = Par2Ext /\ DropLast(m, {Par2Ext}) = base \o <<tag>>
      <3>1. PICK s : s = base \o <<tag>>
        OBVIOUS
      <3>2. s \in Seq(T)
        BY <1>3, <1>6, <3>1, DropAppended
      <3>3. m = s \o <<Par2Ext>>
        BY <1>7, <2>2, <3>1
      <3>4. Last(m) = Par2Ext /\ DropLast(m, {Par2Ext}) = s
        BY <1>3, <3>2, <3>3, DropAppended
      <3>. QED BY <3>1, <3>4
    <2>. QED BY <1>4, <1>5, <2>1, <2>2
  <1>9. PICK b : b = setBaseName(index)
    OBVIOUS
  <1>10. b \in Seq(T) /\ Len(b) <= Len(base) /\ \A i \in 1..Len(b) : b[i] = base[i]
    <2>1. CASE DropLast(index, {Par2Ext}) = base
      <3>1. b = DropLast(base, VolumeTags)
        BY <1>9, <2>1 DEF setBaseName
      <3>. QED BY <1>6, <3>1, DropKeepsPrefix
    <2>2. ASSUME NEW tag \in VolumeTags, DropLast(index, {Par2Ext}) = base \o <<tag>>
          PROVE  b = base
      <3>1. b = DropLast(base \o <<tag>>, VolumeTags)
        BY <1>9, <2>2 DEF setBaseName
      <3>. QED BY <1>3, <1>6, <3>1, DropAppended
    <2>3. b = base => b \in Seq(T) /\ Len(b) <= Len(base) /\ \A i \in 1..Len(b) : b[i] = base[i]
      BY <1>6
    <2>4. DropLast(index, {Par2Ext}) \in {base} \cup {base \o <<tag>> : tag \in VolumeTags}
      BY <1>8
    <2>. QED BY <2>1, <2>2, <2>3, <2>4
  <1>11. IsPrefix(b, n)
    BY <1>2, <1>6, <1>10 DEF IsPrefix
  <1>. QED BY <1>8, <1>9, <1>11 DEF IsVolume

(***************************************************************************)
(* What has been kept of the files that have been read                     *)
(***************************************************************************)

\* Nothing can be read of file n, whatever the ID of the set.
Barren(n) == DOMAIN dir[n] # {} => ~dir[n][1].readable

\* All that file n offers has been kept; while the set has no ID it offers nothing.
Kept(n) ==
    /\ \A e \in Offered(n) : parityShards[e] # NoShard
    /\ recoverySetID = NoSet => Barren(n)

\* The reader of file n has ended, for another reason than an interrupt.
HasBeenRead(n) ==
    /\ n # cur /\ n \notin unread
    /\ \/ n = index /\ phase \in {"list", "volumes", "loaded"}
       \/ IsVolume(n) /\ phase \in {"volumes", "loaded"} /\ n \notin entries

\* The recovery block in packet p, if it is one of this set, has been kept.
BlockKept(p) ==
    p.set = recoverySetID /\ p.body.type = "recv" => parityShards[p.body.exponent] # NoShard

KeptInv ==
    ~cancelled =>
        /\ Streaming => \A i \in 1..pos - 1 : BlockKept(dir[cur][i])
        /\ \A n \in DOMAIN dir : HasBeenRead(n) => Kept(n)
        /\ phase = "loaded" => entries = {}

\* A step keeps the recovery blocks that there are.
BlocksStay ==
    \A e \in Exponents : parityShards[e] # NoShard => parityShards'[e] # NoShard

\* What was kept of a file stays kept, also when the set gets its ID.
LEMMA KeptStays ==
    ASSUME LoadInv, UNCHANGED <<dir, index>>, AdoptSet \/ UNCHANGED recoverySetID,
           BlocksStay, NEW n \in DOMAIN dir, Kept(n)
    PROVE  Kept(n)'
  <1>1. CASE recoverySetID' = recoverySetID
    <2>1. Offered(n)' = Offered(n) /\ Offered(n) \subseteq Exponents
      BY <1>1, OfferedKept DEF Offered
    <2>. QED BY <1>1, <2>1 DEF Kept, Barren, BlocksStay
  <1>2. CASE recoverySetID' # recoverySetID
    <2>1. recoverySetID = NoSet
      BY <1>2, SetIDKept
    <2>2. recoverySetID' # NoSet
      BY <1>2, <2>1
    <2>3. \A i \in DOMAIN dir[n] : 1 \in 1..i /\ i \in 1..i
      BY LoaderAssumption DEF LoadInv, PhaseInv
    <2>4. \A i \in DOMAIN dir[n] : ~Passes(n, dir[n][1])'
      BY <2>1 DEF Kept, Barren, Passes
    <2>5. Offered(n)' = {}
      BY <2>3, <2>4 DEF Offered
    <2>. QED BY <2>2, <2>5 DEF Kept
  <1>. QED BY <1>1, <1>2

\* The packets that have been read stay kept while the reader goes on.
LEMMA ReadStays ==
    ASSUME LoadInv, Streaming, UNCHANGED <<dir, cur>>, AdoptSet \/ UNCHANGED recoverySetID,
           BlocksStay, NEW i \in 1..pos - 1, pos <= Len(dir[cur]) + 1, BlockKept(dir[cur][i])
    PROVE  BlockKept(dir[cur][i])'
  <1>1. recoverySetID' = recoverySetID
    BY SetIDKept DEF LoadInv, PhaseInv, PassedInv
  <1>2. PICK p : p = dir[cur][i]
    OBVIOUS
  <1>3. cur \in DOMAIN dir /\ i \in DOMAIN dir[cur] /\ dir \in Directories
    BY LoaderAssumption DEF LoadInv, PhaseInv, Streaming
  <1>4. ASSUME p.body.type = "recv", p.set = recoverySetID PROVE p.body.exponent \in Exponents
    <2>1. p.body.exponent \in Nat
      BY <1>2, <1>3, <1>4, LoaderAssumption DEF BodyType
    <2>2. Passes(cur, p)
      BY <1>2 DEF LoadInv, PassedInv
    <2>3. p.body.exponent <= MaxExponent
      BY <1>4, <2>2 DEF Passes, ParseOK, ParseRecovery
    <2>. QED BY <2>1, <2>3, PacketAssumption DEF Exponents
  <1>5. BlockKept(p)'
    BY <1>1, <1>2, <1>4 DEF BlockKept, BlocksStay
  <1>. QED BY <1>2, <1>5

\* A file whose reader ends, at its end or at a packet that does not pass, has had
\* all it offers kept.
LEMMA EndKept ==
    ASSUME LoadInv, KeptInv, ~cancelled, Streaming, UNCHANGED <<dir, index, parityShards>>,
           \/ AtEnd /\ UNCHANGED recoverySetID
           \/ PacketFails,
           NEW n, n = cur
    PROVE  Kept(n)'
  <1>1. n \in DOMAIN dir /\ dir \in Directories /\ pos \in Nat \ {0}
    BY DEF LoadInv, PhaseInv, Streaming
  <1>2. PICK d : d = dir[n] /\ DOMAIN d = 1..Len(d) /\ Len(d) \in Nat
    BY <1>1, LoaderAssumption
  <1>3. ASSUME NEW i \in DOMAIN d, \A j \in 1..i : Passes(n, d[j])' PROVE i \in 1..pos - 1
    <2>1. CASE AtEnd
      BY <1>1, <1>2, <1>3, <2>1 DEF AtEnd
    <2>2. CASE PacketFails
      <3>1. PICK q : q = pos
        OBVIOUS
      <3>2. ~Passes(n, d[q])'
        BY <1>2, <2>2, <3>1 DEF PacketFails, Accepted, AdoptSet, Own, Handled, InIndex, Passes, P
      <3>3. q \notin 1..i
        BY <1>3, <3>2
      <3>. QED BY <1>1, <1>2, <1>3, <3>1, <3>3
    <2>. QED BY <2>1, <2>2
  <1>4. ASSUME NEW e \in Offered(n)' PROVE parityShards'[e] # NoShard
    <2>1. PICK i \in DOMAIN d :
             /\ \A j \in 1..i : Passes(n, d[j])'
             /\ d[i].set = recoverySetID'
             /\ d[i].body.type = "recv" /\ d[i].body.exponent = e
      BY <1>2, <1>4 DEF Offered
    <2>2. i \in 1..pos - 1
      BY <1>3, <2>1
    <2>3. BlockKept(d[i])
      BY <1>2, <2>2 DEF KeptInv
    <2>4. recoverySetID' = recoverySetID
      BY <1>1, <2>2, SetIDKept DEF LoadInv, PassedInv, PacketFails
    <2>. QED BY <2>1, <2>3, <2>4 DEF BlockKept
  <1>5. ASSUME recoverySetID' = NoSet PROVE Barren(n)
    <2>1. recoverySetID = NoSet
      BY <1>5, SetIDKept DEF PacketFails
    <2>2. pos = 1
      BY <2>1 DEF LoadInv, PassedInv
    <2>3. CASE AtEnd
      BY <1>2, <2>2, <2>3 DEF AtEnd, Barren
    <2>4. CASE PacketFails
      <3>1. AtPacket /\ AdoptSet
        BY <2>4 DEF PacketFails
      <3>2. P.set # NoSet /\ P = d[1]
        BY <1>2, <2>2, <3>1, PacketOfFile DEF LoadInv, P
      <3>3. ~d[1].readable
        BY <1>5, <2>1, <3>1, <3>2 DEF AdoptSet, Own
      <3>. QED BY <1>2, <3>3 DEF Barren
    <2>. QED BY <2>3, <2>4
  <1>6. Barren(n) => Barren(n)'
    BY DEF Barren
  <1>. QED BY <1>4, <1>5, <1>6 DEF Kept

\* What a step leaves to show: the files it makes read, and the packets behind a reader
\* that has moved.
LEMMA KeptStep ==
    ASSUME LoadInv, KeptInv, UNCHANGED <<dir, index>>, ~cancelled',
           cancelled' = cancelled, AdoptSet \/ UNCHANGED recoverySetID, BlocksStay,
           \A n \in DOMAIN dir : HasBeenRead(n)' => HasBeenRead(n) \/ Kept(n)',
           Streaming' => \A i \in 1..pos' - 1 : BlockKept(dir[cur][i])',
           phase' = "loaded" => entries' = {}
    PROVE  KeptInv'
  <1>1. ASSUME NEW n \in DOMAIN dir, HasBeenRead(n)' PROVE Kept(n)'
    <2>1. CASE HasBeenRead(n)
      <3>1. Kept(n)
        BY <2>1 DEF KeptInv
      <3>. QED BY <3>1, KeptStays
    <2>. QED BY <1>1, <2>1
  <1>. QED BY <1>1 DEF KeptInv

\* A packet that is read is handled or skipped: its block, if it has one, is kept.
LEMMA PacketKept ==
    ASSUME LoadInv, KeptInv, SkipPacket \/ HandlePacket
    PROVE  KeptInv'
  <1>. SUFFICES ASSUME ~cancelled' PROVE KeptInv'
    BY DEF KeptInv
  <1>1. /\ AtPacket /\ Accepted(P) /\ AdoptSet /\ pos' = pos + 1
        /\ UNCHANGED <<dir, index, phase, entries, cur, unread, cancelled>>
    BY DEF SkipPacket, HandlePacket
  <1>2. PICK f, d, q, p : f = cur /\ d = dir[f] /\ q = pos /\ p = P
    OBVIOUS
  <1>3. /\ f \in DOMAIN dir /\ q \in DOMAIN d /\ p = d[q] /\ q \in Nat \ {0} /\ dir \in Directories
        /\ DOMAIN parityShards = Exponents /\ Len(d) \in Nat /\ DOMAIN d = 1..Len(d)
    BY <1>1, <1>2, PacketOfFile, LoaderAssumption DEF LoadInv, PhaseInv, P
  <1>4. p.set = recoverySetID' => Own(p)
    BY <1>2 DEF AdoptSet, Own, SkipPacket, HandlePacket
  <1>5. ASSUME p.body.type = "recv" PROVE p.body.exponent \in Nat /\ p.body.len \in Nat
    BY <1>2, <1>3, <1>5, LoaderAssumption DEF BodyType
  <1>6. BlocksStay /\ BlockKept(p)'
    <2>1. CASE SkipPacket
      <3>1. parityShards' = parityShards /\ ~(Own(p) /\ Handled(p))
        BY <1>2, <2>1 DEF SkipPacket
      <3>. QED BY <1>4, <3>1 DEF BlocksStay, BlockKept, Handled
    <2>2. CASE HandlePacket /\ p.body.type # "recv"
      BY <1>2, <2>2 DEF BlocksStay, BlockKept, HandlePacket
    <2>3. CASE HandlePacket /\ p.body.type = "recv"
      <3>1. p.body.exponent \in Exponents
        BY <1>1, <1>2, <1>5, <2>3, PacketAssumption
           DEF HandlePacket, Accepted, ParseOK, ParseRecovery, Exponents
      <3>2. KeepBlock(p.body)
        BY <1>2, <2>3 DEF HandlePacket
      <3>. QED BY <1>3, <1>5, <2>3, <3>1, <3>2 DEF KeepBlock, BlocksStay, BlockKept, NoShard
    <2>. QED BY <2>1, <2>2, <2>3
  <1>7. ASSUME NEW i \in 1..pos' - 1 PROVE BlockKept(d[i])'
    <2>1. CASE i = q
      BY <1>3, <1>6, <2>1
    <2>2. CASE i # q
      <3>1. i \in 1..pos - 1 /\ pos <= Len(dir[cur]) + 1
        BY <1>1, <1>2, <1>3, <2>2
      <3>2. BlockKept(dir[cur][i])
        BY <1>1, <3>1 DEF KeptInv, AtPacket
      <3>3. BlockKept(dir[cur][i])'
        BY <1>1, <1>6, <3>1, <3>2, ReadStays DEF AtPacket
      <3>. QED BY <1>1, <1>2, <3>3
    <2>. QED BY <2>1, <2>2
  <1>8. \A n \in DOMAIN dir : HasBeenRead(n)' => HasBeenRead(n)
    BY <1>1 DEF HasBeenRead, IsVolume, setBaseName, DropLast
  <1>9. cur' = f /\ dir'[f] = d
    BY <1>1, <1>2
  <1>10. Streaming' => \A i \in 1..pos' - 1 : BlockKept(dir[cur][i])'
    BY <1>7, <1>9
  <1>11. phase' = "loaded" => entries' = {}
    BY <1>1 DEF KeptInv
  <1>. QED BY <1>1, <1>6, <1>8, <1>10, <1>11, KeptStep

\* A reader that ends has had all its file offers kept.
LEMMA EndStep ==
    ASSUME LoadInv, KeptInv, PacketFails \/ IndexDone \/ VolumeDone
    PROVE  KeptInv'
  <1>. SUFFICES ASSUME ~cancelled' PROVE KeptInv'
    BY DEF KeptInv
  <1>1. /\ Streaming /\ cur' = NoFile /\ cancelled' = cancelled
        /\ UNCHANGED <<dir, index, entries, pos, parityShards, unread>>
    BY DEF PacketFails, StreamFails, IndexDone, VolumeDone, AtPacket, AtEnd, state
  <1>2. AdoptSet \/ UNCHANGED recoverySetID
    BY DEF PacketFails, IndexDone, VolumeDone, state
  <1>3. PacketFails \/ (AtEnd /\ UNCHANGED recoverySetID)
    BY DEF IndexDone, VolumeDone, state
  <1>4. PICK f : f = cur
    OBVIOUS
  <1>5. Kept(f)'
    BY <1>1, <1>3, <1>4, EndKept
  <1>6. /\ phase' \in {"volumes", "loaded"} => phase' = phase
        /\ phase' = "list" => cur = index
    BY <1>1 DEF PacketFails, StreamFails, IndexDone, VolumeDone, LoadInv, PhaseInv, InIndex, Streaming
  <1>7. \A n \in DOMAIN dir : IsVolume(n)' => IsVolume(n)
    BY <1>1 DEF IsVolume, setBaseName, DropLast
  <1>8. ASSUME NEW n \in DOMAIN dir, HasBeenRead(n)' PROVE HasBeenRead(n) \/ Kept(n)'
    <2>1. CASE n = f
      BY <1>5, <2>1
    <2>2. CASE n # f
      BY <1>1, <1>4, <1>6, <1>7, <1>8, <2>2 DEF HasBeenRead, IsVolume, LoadInv, PhaseInv, Streaming
    <2>. QED BY <2>1, <2>2
  <1>9. BlocksStay /\ ~Streaming' /\ (phase' = "loaded" => entries' = {})
    BY <1>1, <1>6 DEF BlocksStay, Streaming, KeptInv
  <1>. QED BY <1>1, <1>2, <1>8, <1>9, KeptStep

\* Steps between the readers of two files make none read that offers something.
LEMMA BetweenStep ==
    ASSUME LoadInv, KeptInv,
           \/ StreamCancelled \/ ListDirectory
           \/ \E n \in DOMAIN dir : OpenVolume(n) \/ PassEntry(n)
           \/ \E n \in DOMAIN dir \cup {NoFile} : OpenFails(n)
           \/ EntryCancelled \/ Loaded \/ Cancel \/ UNCHANGED vars
    PROVE  KeptInv'
  <1>. SUFFICES ASSUME ~cancelled' PROVE KeptInv'
    BY DEF KeptInv
  <1>. USE DEF Streaming, AtEntry, state
  <1>1. /\ UNCHANGED <<dir, index, recoverySetID, parityShards, cancelled>>
        /\ ~StreamCancelled /\ ~Cancel
    BY DEF StreamCancelled, StreamFails, ListDirectory, OpenVolume, PassEntry, OpenFails,
           EntryCancelled, Loaded, Cancel, vars
  <1>2. \A n \in DOMAIN dir : IsVolume(n)' = IsVolume(n)
    BY <1>1 DEF IsVolume, setBaseName, DropLast
  <1>3. \/ cur' = cur /\ pos' = pos
        \/ cur' = NoFile
        \/ pos' = 1
    BY <1>1 DEF ListDirectory, OpenVolume, PassEntry, OpenFails, EntryCancelled, Loaded, vars
  <1>4. Streaming' => \A i \in 1..pos' - 1 : BlockKept(dir[cur][i])'
    BY <1>1, <1>3 DEF KeptInv, BlockKept
  <1>5. phase' = "loaded" => entries' = {}
    BY <1>1 DEF ListDirectory, OpenVolume, PassEntry, OpenFails, EntryCancelled, Loaded, vars,
                KeptInv
  <1>6. ASSUME NEW n \in DOMAIN dir, HasBeenRead(n)' PROVE HasBeenRead(n)
    <2>1. n # NoFile /\ index # NoFile
      BY LoaderAssumption DEF LoadInv, PhaseInv
    <2>2. CASE ListDirectory
      BY <1>1, <1>2, <1>6, <2>1, <2>2 DEF ListDirectory, HasBeenRead, LoadInv, PhaseInv
    <2>3. ASSUME NEW m \in DOMAIN dir, OpenVolume(m) \/ PassEntry(m) PROVE HasBeenRead(n)
      BY <1>1, <1>2, <1>6, <2>1, <2>3 DEF OpenVolume, PassEntry, HasBeenRead, LoadInv, PhaseInv
    <2>4. ASSUME NEW m \in DOMAIN dir \cup {NoFile}, OpenFails(m) PROVE HasBeenRead(n)
      BY <1>1, <1>2, <1>6, <2>1, <2>4 DEF OpenFails, HasBeenRead, LoadInv, PhaseInv
    <2>5. CASE EntryCancelled \/ Loaded \/ UNCHANGED vars
      BY <1>1, <1>2, <1>6, <2>1, <2>5 DEF EntryCancelled, Loaded, vars, HasBeenRead, LoadInv, PhaseInv
    <2>. QED BY <1>1, <2>2, <2>3, <2>4, <2>5
  <1>7. BlocksStay
    BY <1>1 DEF BlocksStay
  <1>. QED BY <1>1, <1>4, <1>5, <1>6, <1>7, KeptStep

\* The blocks of the files that have been read are kept in every state.
LEMMA KeptInvariant == Spec => []KeptInv
  <1>1. Init => KeptInv
    <2>. SUFFICES ASSUME Init PROVE KeptInv
      OBVIOUS
    <2>1. \A n \in DOMAIN dir : ~HasBeenRead(n)
      BY DEF Init, HasBeenRead
    <2>2. 1..pos - 1 = {} /\ phase # "loaded"
      BY DEF Init
    <2>. QED BY <2>1, <2>2 DEF KeptInv
  <1>2. LoadInv /\ KeptInv /\ [Next]_vars => KeptInv'
    BY PacketKept, EndStep, BetweenStep DEF Next, LoadNext, StreamNext, Stopped
  <1>. QED BY <1>1, <1>2, LoadInvariant, PTL DEF Spec

\* Whatever the directory holds and in whatever order it is listed, a load that returns
\* without an interrupt has every recovery block that precedes the first error of a file of
\* the set that could be opened (loadIndexFile, loadVolumeFiles, setBaseName).
THEOREM BlocksFoundAlways == Spec => []BlocksFound
  <1>1. LoadInv /\ KeptInv => BlocksFound
    <2>. SUFFICES ASSUME LoadInv, KeptInv, phase = "loaded", ~cancelled,
                         NEW n \in Siblings \ unread
                  PROVE  \A e \in Offered(n) : parityShards[e] # NoShard
      BY DEF BlocksFound
    <2>1. n \in DOMAIN dir /\ n # NoFile /\ cur = NoFile /\ entries = {}
      BY LoaderAssumption DEF Siblings, LoadInv, PhaseInv, KeptInv
    <2>2. n = index \/ IsVolume(n)
      BY SiblingIsVolume DEF LoadInv, PhaseInv
    <2>3. HasBeenRead(n)
      BY <2>1, <2>2 DEF HasBeenRead
    <2>. QED BY <2>1, <2>3 DEF KeptInv, Kept
  <1>. QED BY <1>1, LoadInvariant, KeptInvariant, PTL

(***************************************************************************)
(* The sum of a function's values                                          *)
(***************************************************************************)

Pick(s) == CHOOSE x \in s : TRUE

\* g has the sum of f's values over every subset of S, one value at a time.
Summing(g, f, S) ==
    g = [s \in SUBSET S |-> IF s = {} THEN 0 ELSE f[Pick(s)] + g[s \ {Pick(s)}]]

\* There is such a g for every f on a finite set, built up by cardinality.
LEMMA SumsExist ==
    ASSUME NEW S, IsFiniteSet(S), NEW f
    PROVE  \E g : Summing(g, f, S)
  <1>. DEFINE Small(n) == {s \in SUBSET S : Cardinality(s) <= n}
              Part(g, n) == g = [s \in Small(n) |->
                                   IF s = {} THEN 0 ELSE f[Pick(s)] + g[s \ {Pick(s)}]]
              N == Cardinality(S)
              Q == {n \in 0..N : \E g : Part(g, n)}
  <1>1. N \in Nat /\ \A s \in SUBSET S : IsFiniteSet(s) /\ Cardinality(s) \in Nat /\ Cardinality(s) <= N
    BY FS_CardinalityType, FS_Subset
  <1>2. \A s \in SUBSET S : s # {} =>
           /\ Pick(s) \in s /\ s \ {Pick(s)} \in SUBSET S
           /\ Cardinality(s \ {Pick(s)}) = Cardinality(s) - 1
    BY <1>1, FS_RemoveElement DEF Pick
  <1>3. 0 \in Q
    <2>. DEFINE g == [s \in Small(0) |-> 0]
    <2>1. \A s \in Small(0) : s = {}
      BY <1>1, FS_EmptySet
    <2>2. Part(g, 0)
      BY <2>1
    <2>. HIDE DEF g, N
    <2>3. 0 \in 0..N
      BY <1>1
    <2>. QED BY <2>2, <2>3
  <1>4. ASSUME NEW n \in 0..N - 1, n \in Q PROVE n + 1 \in Q
    <2>1. PICK g : Part(g, n)
      BY <1>4
    <2>. DEFINE h == [s \in Small(n + 1) |->
                        IF s = {} THEN 0 ELSE f[Pick(s)] + g[s \ {Pick(s)}]]
    <2>. HIDE DEF Small
    <2>2. ASSUME NEW s \in Small(n + 1), s # {}
          PROVE  s \ {Pick(s)} \in Small(n) /\ s \ {Pick(s)} \in Small(n + 1)
      BY <1>1, <1>2, <2>2 DEF Small
    <2>3. \A s \in Small(n) : h[s] = g[s]
      <3>1. Small(n) \subseteq Small(n + 1)
        BY <1>1 DEF Small
      <3>. QED BY <2>1, <3>1
    <2>4. \A s \in Small(n + 1) : s # {} => g[s \ {Pick(s)}] = h[s \ {Pick(s)}]
      BY <2>2, <2>3
    <2>5. h = [s \in Small(n + 1) |->
                 IF s = {} THEN 0 ELSE f[Pick(s)] + h[s \ {Pick(s)}]]
      BY <2>4
    <2>. HIDE DEF h
    <2>6. Part(h, n + 1)
      BY <2>5
    <2>. HIDE DEF N, Part
    <2>7. n + 1 \in 0..N
      BY <1>1
    <2>. QED BY <2>6, <2>7
  <1>5. N \in Q
    <2>. HIDE DEF Q
    <2>1. 0..N \subseteq Q
      BY <1>1, <1>3, <1>4, UpTo
    <2>. QED BY <1>1, <2>1
  <1>6. Small(N) = SUBSET S
    BY <1>1
  <1>. QED BY <1>5, <1>6 DEF Summing

\* Raising one value by one raises the sum by one.
LEMMA SumRaised ==
    ASSUME NEW S, IsFiniteSet(S), NEW f \in [S -> Nat], NEW c \in S
    PROVE  LET sum(h) == FoldFunction(+, 0, h)
           IN  sum(f) \in Nat /\ sum([f EXCEPT ![c] = @ + 1]) = sum(f) + 1
  <1>. DEFINE h == [f EXCEPT ![c] = @ + 1]
              Sums(k) == CHOOSE g : Summing(g, k, S)
              a == Sums(f)
              b == Sums(h)
              Up(s) == IF c \in s THEN 1 ELSE 0
              Q == {s \in SUBSET S : a[s] \in Nat /\ b[s] = a[s] + Up(s)}
  <1>1. DOMAIN f = S /\ DOMAIN h = S /\ \A x \in S : h[x] = f[x] + Up({x})
    OBVIOUS
  <1>2. FoldFunction(+, 0, f) = a[S] /\ FoldFunction(+, 0, h) = b[S]
    BY <1>1 DEF FoldFunction, FoldFunctionOnSet, MapThenFoldSet, Summing, Pick
  <1>3. Summing(a, f, S) /\ Summing(b, h, S)
    BY SumsExist
  <1>. HIDE DEF a, b, h
  <1>4. {} \in Q
    BY <1>3 DEF Summing
  <1>5. ASSUME NEW s \in SUBSET S, s # {} PROVE \E x \in s : s \ {x} \in Q => s \in Q
    <2>1. PICK x : x = Pick(s) /\ x \in s
      BY <1>5 DEF Pick
    <2>2. a[s] = f[x] + a[s \ {x}] /\ b[s] = h[x] + b[s \ {x}]
      BY <1>3, <1>5, <2>1 DEF Summing
    <2>3. f[x] \in Nat /\ h[x] = f[x] + Up({x})
      BY <1>1, <2>1
    <2>4. Up({x}) + Up(s \ {x}) = Up(s) /\ Up({x}) \in Nat
      BY <2>1
    <2>. HIDE DEF Up
    <2>5. Up(s \ {x}) \in Nat
      BY DEF Up
    <2>6. ASSUME s \ {x} \in Q PROVE s \in Q
      BY <2>2, <2>3, <2>4, <2>5, <2>6
    <2>. QED BY <2>1, <2>6
  <1>. HIDE DEF Q
  <1>6. SUBSET S \subseteq Q
    BY <1>4, <1>5, TakeInduction
  <1>7. S \in Q
    BY <1>6
  <1>. QED BY <1>2, <1>7 DEF Q, h

\* The sum of zeros is zero.
LEMMA SumOfZeros ==
    ASSUME NEW S, IsFiniteSet(S)
    PROVE  FoldFunction(+, 0, [x \in S |-> 0]) = 0
  <1>. DEFINE f == [x \in S |-> 0]
              a == CHOOSE g : Summing(g, f, S)
              Q == {s \in SUBSET S : a[s] = 0}
  <1>1. DOMAIN f = S /\ \A x \in S : f[x] = 0
    OBVIOUS
  <1>. HIDE DEF f
  <1>2. FoldFunction(+, 0, f) = a[S]
    BY <1>1 DEF FoldFunction, FoldFunctionOnSet, MapThenFoldSet, Summing, Pick
  <1>3. Summing(a, f, S)
    BY SumsExist
  <1>. HIDE DEF a
  <1>4. {} \in Q
    BY <1>3 DEF Summing
  <1>5. ASSUME NEW s \in SUBSET S, s # {} PROVE \E x \in s : s \ {x} \in Q => s \in Q
    <2>1. PICK x : x = Pick(s) /\ x \in s
      BY <1>5 DEF Pick
    <2>2. a[s] = f[x] + a[s \ {x}]
      BY <1>3, <1>5, <2>1 DEF Summing
    <2>. QED BY <1>1, <2>1, <2>2
  <1>. HIDE DEF Q
  <1>6. S \in Q
    BY <1>4, <1>5, TakeInduction
  <1>. QED BY <1>2, <1>6 DEF Q, f

(***************************************************************************)
(* The recovery blocks counted per file                                    *)
(***************************************************************************)

\* The exponents that are taken.
Taken == {e \in Exponents : parityShards[e] # NoShard}

Total(f) == FoldFunction(+, 0, f)

AccountInv ==
    /\ parityFileBlocks \in [DOMAIN dir -> Nat]
    /\ Total(parityFileBlocks) = Cardinality(Taken)

\* A block is counted for its file when, and only when, its exponent was free.
LEMMA CountStep ==
    ASSUME LoadInv, AccountInv, HandlePacket
    PROVE  AccountInv'
  <1>1. /\ AtPacket /\ Accepted(P) /\ Own(P) /\ Handled(P)
        /\ UNCHANGED <<dir, index, cur>>
    BY DEF HandlePacket
  <1>2. PICK p, S, f, T : p = P /\ S = DOMAIN dir /\ f = parityFileBlocks /\ T = Taken
    OBVIOUS
  <1>3. /\ cur \in S /\ pos \in DOMAIN dir[cur] /\ dir \in Directories
        /\ DOMAIN parityShards = Exponents /\ IsFiniteSet(S)
    BY <1>1, <1>2, PacketOfFile, LoaderAssumption DEF LoadInv, PhaseInv
  <1>4. f \in [S -> Nat]
    BY <1>2 DEF AccountInv
  <1>5. Total(f) = Cardinality(T)
    BY <1>2 DEF AccountInv
  <1>6. CASE UNCHANGED <<parityShards, parityFileBlocks>>
    BY <1>1, <1>6 DEF AccountInv, Taken
  <1>7. CASE ~UNCHANGED <<parityShards, parityFileBlocks>>
    <2>1. p.body.type = "recv" /\ KeepBlock(p.body)
      BY <1>2, <1>7 DEF HandlePacket
    <2>2. PICK x : x = p.body.exponent
      OBVIOUS
    <2>3. p.body.exponent \in Nat /\ p.body.len \in Nat
      BY <1>2, <1>3, <2>1, LoaderAssumption DEF P, BodyType
    <2>4. x \in Exponents
      BY <1>1, <1>2, <2>1, <2>2, <2>3, PacketAssumption
         DEF Accepted, ParseOK, ParseRecovery, Exponents
    <2>5. /\ parityShards[x] = NoShard
          /\ parityShards' = [parityShards EXCEPT ![x] = p.body.len]
          /\ parityFileBlocks' = [f EXCEPT ![cur] = @ + 1]
      BY <1>2, <1>7, <2>1, <2>2 DEF KeepBlock
    <2>6. Taken' = T \cup {x} /\ x \notin T
      BY <1>2, <1>3, <2>3, <2>4, <2>5 DEF Taken, NoShard
    <2>7. IsFiniteSet(T)
      <3>1. IsFiniteSet(0..MaxExponent)
        BY FS_Interval, PacketAssumption
      <3>2. T \subseteq 0..MaxExponent
        BY <1>2 DEF Taken, Exponents
      <3>. QED BY <3>1, <3>2, FS_Subset
    <2>8. Cardinality(Taken') = Cardinality(T) + 1
      BY <2>6, <2>7, FS_AddElement
    <2>9. Total(parityFileBlocks') = Total(f) + 1
      BY <1>3, <1>4, <2>5, SumRaised DEF Total
    <2>10. parityFileBlocks' \in [S -> Nat]
      BY <1>3, <1>4, <2>5
    <2>11. dir' = dir
      BY <1>1
    <2>. QED BY <1>2, <1>5, <2>8, <2>9, <2>10, <2>11 DEF AccountInv
  <1>. QED BY <1>6, <1>7

\* For every directory, the blocks counted per file add up to the recovery blocks that can
\* be used, whichever files repeat them (handlePacket, loadSingleVolumeFile).
THEOREM BlocksAlwaysAccounted == Spec => []BlocksAccounted
  <1>1. Init => AccountInv
    <2>. SUFFICES ASSUME Init PROVE AccountInv
      OBVIOUS
    <2>1. dir \in Directories /\ parityFileBlocks = [n \in DOMAIN dir |-> 0]
      BY DEF Init
    <2>2. Total(parityFileBlocks) = 0
      BY <2>1, SumOfZeros, LoaderAssumption DEF Total
    <2>3. Taken = {}
      BY DEF Init, Taken
    <2>4. Cardinality({}) = 0
      BY FS_EmptySet
    <2>5. parityFileBlocks \in [DOMAIN dir -> Nat]
      BY <2>1
    <2>. QED BY <2>2, <2>3, <2>4, <2>5 DEF AccountInv
  <1>2. LoadInv /\ AccountInv /\ [Next]_vars => AccountInv'
    <2>. SUFFICES ASSUME LoadInv, AccountInv, [Next]_vars PROVE AccountInv'
      OBVIOUS
    <2>1. CASE HandlePacket
      BY <2>1, CountStep
    <2>2. CASE ~HandlePacket
      <3>1. UNCHANGED <<dir, parityShards, parityFileBlocks>>
        BY <2>2 DEF Next, LoadNext, StreamNext, PacketFails, StreamFails, StreamCancelled,
                    SkipPacket, IndexDone, VolumeDone, ListDirectory, OpenVolume, PassEntry,
                    OpenFails, EntryCancelled, Loaded, Cancel, Stopped, vars, state
      <3>. QED BY <3>1 DEF AccountInv, Taken
    <2>. QED BY <2>1, <2>2
  <1>3. AccountInv => BlocksAccounted
    BY DEF AccountInv, Total, Taken, BlocksAccounted
  <1>. QED BY <1>1, <1>2, <1>3, LoadInvariant, PTL DEF Spec

(***************************************************************************)
(* The order of FileIDs                                                    *)
(***************************************************************************)

\* Two IDs that differ have a last byte in which they do.
LEMMA LastDifference ==
    ASSUME NEW a \in FileID, NEW b \in FileID, a # b
    PROVE  \E i \in 1..IDBytes : a[i] # b[i] /\ \A j \in (i + 1)..IDBytes : a[j] = b[j]
  <1>. DEFINE D == {k \in 0..IDBytes - 1 : a[IDBytes - k] # b[IDBytes - k]}
  <1>0. a = [i \in 1..IDBytes |-> a[i]] /\ b = [i \in 1..IDBytes |-> b[i]]
    BY DEF FileID
  <1>1. PICK i \in 1..IDBytes : a[i] # b[i]
    BY <1>0
  <1>2. IDBytes - i \in D /\ D \in SUBSET Nat
    BY <1>1, PacketAssumption
  <1>. HIDE DEF D
  <1>3. PICK m \in D : \A k \in D : m <= k
    BY <1>2, LeastNatural
  <1>. USE DEF D
  <1>4. IDBytes - m \in 1..IDBytes /\ a[IDBytes - m] # b[IDBytes - m] /\ m \in Nat
    BY PacketAssumption
  <1>5. ASSUME NEW j \in (IDBytes - m + 1)..IDBytes PROVE a[j] = b[j]
    <2>1. IDBytes - j \in 0..IDBytes - 1 /\ IDBytes - (IDBytes - j) = j /\ ~(m <= IDBytes - j)
      BY <1>4, PacketAssumption
    <2>. QED BY <1>3, <2>1
  <1>. QED BY <1>4, <1>5

\* FileIDLess is a strict total order.
LEMMA LessTotal ==
    ASSUME NEW a \in FileID, NEW b \in FileID, a # b
    PROVE  FileIDLess(a, b) \/ FileIDLess(b, a)
  <1>1. PICK i \in 1..IDBytes : a[i] # b[i] /\ \A j \in (i + 1)..IDBytes : a[j] = b[j]
    BY LastDifference
  <1>2. a[i] \in Nat /\ b[i] \in Nat
    BY PacketAssumption DEF FileID
  <1>3. a[i] < b[i] \/ b[i] < a[i]
    BY <1>1, <1>2
  <1>. QED BY <1>1, <1>3 DEF FileIDLess

\* No ID is less than itself, and less than is transitive.
LEMMA LessOrder ==
    /\ \A a \in FileID : ~FileIDLess(a, a)
    /\ \A a, b, c \in FileID : FileIDLess(a, b) /\ FileIDLess(b, c) => FileIDLess(a, c)
  <1>1. ASSUME NEW a \in FileID PROVE ~FileIDLess(a, a)
    BY PacketAssumption DEF FileID, FileIDLess
  <1>2. ASSUME NEW a \in FileID, NEW b \in FileID, NEW c \in FileID,
               FileIDLess(a, b), FileIDLess(b, c)
        PROVE  FileIDLess(a, c)
    <2>1. PICK i \in 1..IDBytes : a[i] < b[i] /\ \A j \in (i + 1)..IDBytes : a[j] = b[j]
      BY <1>2 DEF FileIDLess
    <2>2. PICK k \in 1..IDBytes : b[k] < c[k] /\ \A j \in (k + 1)..IDBytes : b[j] = c[j]
      BY <1>2 DEF FileIDLess
    <2>3. \A x \in 1..IDBytes : a[x] \in Nat /\ b[x] \in Nat /\ c[x] \in Nat
      BY PacketAssumption DEF FileID
    <2>4. IDBytes \in Nat
      BY PacketAssumption
    <2>5. CASE i <= k
      <3>1. a[k] < c[k]
        BY <2>1, <2>2, <2>3, <2>4, <2>5
      <3>2. \A j \in (k + 1)..IDBytes : j \in (i + 1)..IDBytes
        BY <2>4, <2>5
      <3>. QED BY <2>1, <2>2, <3>1, <3>2 DEF FileIDLess
    <2>6. CASE k < i
      <3>1. a[i] < c[i]
        BY <2>1, <2>2, <2>3, <2>4, <2>6
      <3>2. \A j \in (i + 1)..IDBytes : j \in (k + 1)..IDBytes
        BY <2>4, <2>6
      <3>. QED BY <2>1, <2>2, <3>1, <3>2 DEF FileIDLess
    <2>. QED BY <2>5, <2>6
  <1>. QED BY <1>1, <1>2

(***************************************************************************)
(* Sorting                                                                 *)
(***************************************************************************)

\* R orders the elements of S strictly, if not all of them.
StrictOrder(R, S) ==
    /\ \A x \in S : <<x, x>> \notin R
    /\ \A x, y, z \in S : <<x, y>> \in R /\ <<y, z>> \in R => <<x, z>> \in R

\* Every finite set that is not empty has an element that none exceeds.
LEMMA MaximalExists ==
    ASSUME NEW S, IsFiniteSet(S), S # {}, NEW R, StrictOrder(R, S)
    PROVE  \E x \in S : \A y \in S : <<x, y>> \notin R
  <1>. DEFINE Top(T) == \E x \in T : \A y \in T : <<x, y>> \notin R
              Q == {T \in SUBSET S : T = {} \/ Top(T)}
  <1>1. {} \in Q
    OBVIOUS
  <1>2. ASSUME NEW T \in SUBSET S, NEW x \in S \ T, T \in Q PROVE T \cup {x} \in Q
    <2>1. CASE T = {}
      BY <2>1 DEF StrictOrder
    <2>2. ASSUME NEW m \in T, \A y \in T : <<m, y>> \notin R PROVE Top(T \cup {x})
      <3>1. CASE <<m, x>> \in R
        BY <2>2, <3>1 DEF StrictOrder
      <3>2. CASE <<m, x>> \notin R
        BY <2>2, <3>2
      <3>. QED BY <3>1, <3>2
    <2>. QED BY <1>2, <2>1, <2>2
  <1>. HIDE DEF Q
  <1>3. S \in Q
    BY <1>1, <1>2, SetInduction
  <1>. QED BY <1>3 DEF Q

\* The numbers of T can be listed so that none exceeds a later one.
LEMMA SortingExists ==
    ASSUME NEW N \in Nat, NEW R, StrictOrder(R, 1..N)
    PROVE  \E p \in Bijection(1..N, 1..N) :
              \A i, j \in 1..N : i < j => <<p[j], p[i]>> \notin R
  <1>. DEFINE Sorts(p, n, T) == /\ p \in Bijection(1..n, T)
                                /\ \A i, j \in 1..n : i < j => <<p[j], p[i]>> \notin R
              Q == {n \in 0..N : \A T \in SUBSET (1..N) :
                                    Cardinality(T) = n => \E p : Sorts(p, n, T)}
  <1>1. IsFiniteSet(1..N) /\ Cardinality(1..N) = N
    BY FS_Interval
  <1>2. \A T \in SUBSET (1..N) : IsFiniteSet(T)
    BY <1>1, FS_Subset
  <1>3. 0 \in Q
    <2>1. ASSUME NEW T \in SUBSET (1..N), Cardinality(T) = 0 PROVE \E p : Sorts(p, 0, T)
      <3>1. T = {}
        BY <1>2, <2>1, FS_EmptySet
      <3>. DEFINE p == [i \in 1..0 |-> i]
      <3>2. 1..0 = {}
        OBVIOUS
      <3>3. Sorts(p, 0, T)
        BY <3>1, <3>2 DEF Bijection, Injection, Surjection, IsInjective
      <3>. QED BY <3>3
    <2>. QED BY <2>1
  <1>4. ASSUME NEW n \in 0..N - 1, n \in Q PROVE n + 1 \in Q
    <2>1. ASSUME NEW T \in SUBSET (1..N), Cardinality(T) = n + 1
          PROVE  \E p : Sorts(p, n + 1, T)
      <3>1. IsFiniteSet(T) /\ T # {}
        BY <1>2, <2>1, FS_EmptySet
      <3>2. PICK x \in T : \A y \in T : <<x, y>> \notin R
        <4>1. StrictOrder(R, T)
          BY DEF StrictOrder
        <4>. QED BY <3>1, <4>1, MaximalExists
      <3>3. Cardinality(T \ {x}) = n
        BY <2>1, <3>1, <3>2, FS_RemoveElement
      <3>4. PICK p : Sorts(p, n, T \ {x})
        BY <1>4, <3>3
      <3>5. /\ p \in [1..n -> T \ {x}]
            /\ \A i, j \in 1..n : p[i] = p[j] => i = j
            /\ \A y \in T \ {x} : \E i \in 1..n : p[i] = y
            /\ \A i, j \in 1..n : i < j => <<p[j], p[i]>> \notin R
        BY <3>4 DEF Bijection, Injection, Surjection, IsInjective
      <3>6. PICK q : q = [i \in 1..n + 1 |-> IF i = n + 1 THEN x ELSE p[i]]
        OBVIOUS
      <3>7. q \in [1..n + 1 -> T] /\ q[n + 1] = x /\ \A i \in 1..n : q[i] = p[i]
        BY <3>5, <3>6
      <3>8. \A i \in 1..n + 1 : i = n + 1 \/ i \in 1..n
        OBVIOUS
      <3>9. \A i \in 1..n : i \in 1..n + 1 /\ q[i] # x
        BY <3>5, <3>7
      <3>10. \A i, j \in 1..n + 1 : q[i] = q[j] => i = j
        BY <3>5, <3>7, <3>8, <3>9
      <3>11. \A y \in T : \E i \in 1..n + 1 : q[i] = y
        <4>1. n + 1 \in 1..n + 1
          OBVIOUS
        <4>. QED BY <3>5, <3>7, <3>9, <4>1
      <3>12. ASSUME NEW i \in 1..n + 1, NEW j \in 1..n + 1, i < j PROVE <<q[j], q[i]>> \notin R
        <4>1. i \in 1..n
          BY <3>12
        <4>2. CASE j = n + 1
          BY <3>2, <3>7, <4>2
        <4>3. CASE j \in 1..n
          BY <3>5, <3>7, <3>12, <4>1, <4>3
        <4>. QED BY <3>8, <4>2, <4>3
      <3>13. Sorts(q, n + 1, T)
        BY <3>7, <3>10, <3>11, <3>12 DEF Bijection, Injection, Surjection, IsInjective
      <3>. QED BY <3>13
    <2>. HIDE DEF Sorts
    <2>2. n + 1 \in 0..N
      OBVIOUS
    <2>. QED BY <2>1, <2>2
  <1>. HIDE DEF Q
  <1>5. 0..N \subseteq Q
    BY <1>3, <1>4, UpTo
  <1>6. N \in Q
    BY <1>5
  <1>7. \E p : Sorts(p, N, 1..N)
    BY <1>1, <1>6 DEF Q
  <1>. QED BY <1>7

\* The files are permuted, and none comes after one with a larger ID.
LEMMA SortFilesFacts ==
    ASSUME NEW files, NEW n \in Nat, DOMAIN files = 1..n,
           \A i \in 1..n : files[i].id \in FileID
    PROVE  LET sorted == SortFiles(files)
           IN  /\ sorted = [i \in 1..n |-> sorted[i]]
               /\ \E p \in Bijection(1..n, 1..n) : \A i \in 1..n : sorted[i] = files[p[i]]
               /\ \A i, j \in 1..n : i < j => ~FileIDLess(sorted[j].id, sorted[i].id)
  <1>. DEFINE R == {r \in (1..n) \X (1..n) : FileIDLess(files[r[1]].id, files[r[2]].id)}
              Right(p) == /\ p \in Bijection(1..n, 1..n)
                          /\ \A i, j \in 1..n :
                                i < j => ~FileIDLess(files[p[j]].id, files[p[i]].id)
  <1>1. StrictOrder(R, 1..n)
    <2>1. \A x, y \in 1..n : <<x, y>> \in R <=> FileIDLess(files[x].id, files[y].id)
      OBVIOUS
    <2>. HIDE DEF R
    <2>. QED BY <2>1, LessOrder DEF StrictOrder
  <1>2. \E p : Right(p)
    <2>1. PICK p \in Bijection(1..n, 1..n) :
             \A i, j \in 1..n : i < j => <<p[j], p[i]>> \notin R
      <3>. HIDE DEF R
      <3>. QED BY <1>1, SortingExists
    <2>2. \A i \in 1..n : p[i] \in 1..n
      BY DEF Bijection, Injection
    <2>3. Right(p)
      BY <2>1, <2>2
    <2>. QED BY <2>3
  <1>3. PICK perm : /\ Right(perm)
                    /\ SortFiles(files) = [i \in 1..n |-> files[perm[i]]]
    <2>. DEFINE c == CHOOSE p \in Bijection(1..n, 1..n) :
                        \A i, j \in 1..n :
                            i < j => ~FileIDLess(files[p[j]].id, files[p[i]].id)
    <2>1. Right(c)
      BY <1>2
    <2>2. SortFiles(files) = [i \in 1..n |-> files[c[i]]]
      BY DEF SortFiles
    <2>. QED BY <2>1, <2>2
  <1>. QED BY <1>3

(***************************************************************************)
(* The files of the set                                                    *)
(***************************************************************************)

\* The files are a sequence without repetition.
TypeInv ==
    /\ LoaderTypeOK
    /\ protectedFiles \in Seq(Range(protectedFiles))
    /\ \A i, j \in DOMAIN protectedFiles : protectedFiles[i].id = protectedFiles[j].id => i = j

\* A function on the numbers up to n is a sequence.
LEMMA FunctionIsSequence ==
    ASSUME NEW n \in Nat, NEW t, t = [i \in 1..n |-> t[i]]
    PROVE  t \in Seq(Range(t)) /\ DOMAIN t = 1..n
  <1>1. DOMAIN t = 1..n
    OBVIOUS
  <1>2. \A i \in 1..n : t[i] \in Range(t)
    BY <1>1 DEF Range
  <1>3. t \in [1..n -> Range(t)]
    BY <1>2
  <1>. QED BY <1>1, <1>3

\* A sequence with one more element.
LEMMA AppendFacts ==
    ASSUME NEW s, s \in Seq(Range(s)), NEW e
    PROVE  /\ Len(s) \in Nat /\ DOMAIN s = 1..Len(s)
           /\ Append(s, e) \in Seq(Range(Append(s, e)))
           /\ DOMAIN Append(s, e) = 1..Len(s) + 1
           /\ Append(s, e)[Len(s) + 1] = e
           /\ \A i \in DOMAIN s : Append(s, e)[i] = s[i]
  <1>. DEFINE T == Range(s) \cup {e}
              t == Append(s, e)
  <1>1. s \in Seq(T) /\ e \in T
    OBVIOUS
  <1>. HIDE DEF T
  <1>2. t \in Seq(T) /\ Len(t) = Len(s) + 1 /\ Len(s) \in Nat
    BY <1>1
  <1>3. DOMAIN s = 1..Len(s) /\ DOMAIN t = 1..Len(s) + 1
    BY <1>1, <1>2
  <1>4. t[Len(s) + 1] = e
    BY <1>1
  <1>5. \A i \in 1..Len(s) : t[i] = s[i]
    BY <1>1
  <1>6. t \in Seq(Range(t))
    BY <1>2, SeqOfRange
  <1>. HIDE DEF t
  <1>7. \A i \in DOMAIN s : t[i] = s[i]
    BY <1>3, <1>5
  <1>. QED BY <1>2, <1>3, <1>4, <1>6, <1>7 DEF t

\* What a description adds to the files: nothing, or one file with an ID of its own.
LEMMA AppendFileFacts ==
    ASSUME TypeInv, NEW b, b.type = "desc", BodyType(b), ParseOK(b), protectedFiles' = AppendFile(b)
    PROVE  /\ protectedFiles' \in Seq(Range(protectedFiles'))
           /\ \A i \in DOMAIN protectedFiles' :
                 /\ protectedFiles'[i].id \in FileID
                 /\ protectedFiles'[i].size > 0
                 /\ protectedFiles'[i].name # Rejected
           /\ \A i, j \in DOMAIN protectedFiles' :
                 protectedFiles'[i].id = protectedFiles'[j].id => i = j
           /\ \A id : Described(id)' <=> Described(id) \/ (id = b.id /\ b.size > 0)
  <1>1. b.id \in FileID /\ b.size \in Nat
    BY DEF BodyType
  <1>2. CASE b.size = 0 \/ Described(b.id)
    <2>1. protectedFiles' = protectedFiles
      BY <1>2 DEF AppendFile
    <2>. QED BY <1>1, <1>2, <2>1 DEF TypeInv, LoaderTypeOK, Described
  <1>3. CASE b.size # 0 /\ ~Described(b.id)
    <2>1. PICK f : f = [id |-> b.id, size |-> b.size, name |-> DefangPath(b.name)]
      OBVIOUS
    <2>2. f.id = b.id /\ f.size > 0 /\ f.name # Rejected
      BY <1>1, <1>3, <2>1 DEF ParseOK, ParseFileDesc
    <2>3. PICK s, t : s = protectedFiles /\ t = protectedFiles' /\ t = Append(s, f)
      BY <1>3, <2>1 DEF AppendFile
    <2>4. /\ Len(s) \in Nat /\ DOMAIN s = 1..Len(s)
          /\ t \in Seq(Range(t)) /\ DOMAIN t = 1..Len(s) + 1
          /\ t[Len(s) + 1] = f /\ \A i \in DOMAIN s : t[i] = s[i]
      <3>1. s \in Seq(Range(s))
        BY <2>3 DEF TypeInv
      <3>2. t = Append(s, f)
        BY <2>3
      <3>3. Len(s) \in Nat /\ DOMAIN s = 1..Len(s)
        BY <3>1, AppendFacts
      <3>4. t \in Seq(Range(t))
        BY <3>1, <3>2, AppendFacts
      <3>5. DOMAIN t = 1..Len(s) + 1
        BY <3>1, <3>2, AppendFacts
      <3>6. t[Len(s) + 1] = f
        BY <3>1, <3>2, AppendFacts
      <3>7. \A i \in DOMAIN s : t[i] = s[i]
        BY <3>1, <3>2, AppendFacts
      <3>. QED BY <3>3, <3>4, <3>5, <3>6, <3>7
    <2>5. DOMAIN t = DOMAIN s \cup {Len(s) + 1} /\ Len(s) + 1 \notin DOMAIN s
      BY <2>4
    <2>6. \A i \in DOMAIN s : s[i].id \in FileID /\ s[i].size > 0 /\ s[i].name # Rejected
      BY <2>3 DEF TypeInv, LoaderTypeOK
    <2>7. \A i \in DOMAIN s : s[i].id # b.id
      BY <1>3, <2>3 DEF Described
    <2>8. \A i, j \in DOMAIN s : s[i].id = s[j].id => i = j
      BY <2>3 DEF TypeInv
    <2>9. \A i \in DOMAIN t : t[i].id \in FileID /\ t[i].size > 0 /\ t[i].name # Rejected
      BY <1>1, <2>2, <2>4, <2>5, <2>6
    <2>10. \A i, j \in DOMAIN t : t[i].id = t[j].id => i = j
      BY <2>2, <2>4, <2>5, <2>7, <2>8
    <2>11. ASSUME NEW id PROVE Described(id)' <=> Described(id) \/ (id = b.id /\ b.size > 0)
      <3>1. Described(id)' <=> \E i \in DOMAIN t : t[i].id = id
        BY <2>3 DEF Described
      <3>2. Described(id) <=> \E i \in DOMAIN s : s[i].id = id
        BY <2>3 DEF Described
      <3>3. b.size > 0
        BY <1>1, <1>3
      <3>. QED BY <2>2, <2>4, <2>5, <3>1, <3>2, <3>3
    <2>. QED BY <2>3, <2>4, <2>9, <2>10, <2>11
  <1>. QED BY <1>2, <1>3

\* Sorting keeps the files and their number.
LEMMA SortStep ==
    ASSUME TypeInv, protectedFiles' = SortFiles(protectedFiles)
    PROVE  /\ protectedFiles' \in Seq(Range(protectedFiles'))
           /\ \A i \in DOMAIN protectedFiles' :
                 /\ protectedFiles'[i].id \in FileID
                 /\ protectedFiles'[i].size > 0
                 /\ protectedFiles'[i].name # Rejected
           /\ \A i, j \in DOMAIN protectedFiles' :
                 protectedFiles'[i].id = protectedFiles'[j].id => i = j
           /\ \A i, j \in DOMAIN protectedFiles' :
                 i < j => ~FileIDLess(protectedFiles'[j].id, protectedFiles'[i].id)
           /\ \A id : Described(id)' <=> Described(id)
  <1>1. PICK s, t : s = protectedFiles /\ t = protectedFiles' /\ t = SortFiles(s)
    OBVIOUS
  <1>2. PICK n \in Nat : DOMAIN s = 1..n
    BY <1>1 DEF TypeInv
  <1>3. \A i \in 1..n : s[i].id \in FileID /\ s[i].size > 0 /\ s[i].name # Rejected
    BY <1>1, <1>2 DEF TypeInv, LoaderTypeOK
  <1>4. \A i, j \in 1..n : s[i].id = s[j].id => i = j
    BY <1>1, <1>2 DEF TypeInv
  <1>5. /\ t = [i \in 1..n |-> t[i]]
        /\ \E p \in Bijection(1..n, 1..n) : \A i \in 1..n : t[i] = s[p[i]]
        /\ \A i, j \in 1..n : i < j => ~FileIDLess(t[j].id, t[i].id)
    BY <1>1, <1>2, <1>3, SortFilesFacts
  <1>6. PICK p : p \in Bijection(1..n, 1..n) /\ \A i \in 1..n : t[i] = s[p[i]]
    BY <1>5
  <1>7. /\ \A i \in 1..n : p[i] \in 1..n
        /\ \A i, j \in 1..n : p[i] = p[j] => i = j
        /\ \A k \in 1..n : \E i \in 1..n : p[i] = k
    BY <1>6 DEF Bijection, Injection, Surjection, IsInjective
  <1>8. DOMAIN t = 1..n
    BY <1>5
  <1>9. t \in Seq(Range(t))
    BY <1>5, FunctionIsSequence
  <1>a. \A i \in 1..n : t[i] = s[p[i]]
    BY <1>6
  <1>10. ASSUME NEW i \in 1..n PROVE t[i].id \in FileID /\ t[i].size > 0 /\ t[i].name # Rejected
    <2>1. p[i] \in 1..n /\ t[i] = s[p[i]]
      BY <1>7, <1>a
    <2>. QED BY <1>3, <2>1
  <1>11. ASSUME NEW i \in 1..n, NEW j \in 1..n, t[i].id = t[j].id PROVE i = j
    <2>1. p[i] \in 1..n /\ t[i] = s[p[i]] /\ p[j] \in 1..n /\ t[j] = s[p[j]]
      BY <1>7, <1>a
    <2>2. p[i] = p[j]
      BY <1>4, <1>11, <2>1
    <2>. QED BY <1>7, <2>2
  <1>12. ASSUME NEW id PROVE Described(id)' <=> Described(id)
    <2>1. Described(id)' <=> \E i \in 1..n : t[i].id = id
      BY <1>1, <1>8 DEF Described
    <2>2. Described(id) <=> \E i \in 1..n : s[i].id = id
      BY <1>1, <1>2 DEF Described
    <2>3. ASSUME NEW i \in 1..n, t[i].id = id PROVE s[p[i]].id = id /\ p[i] \in 1..n
      BY <1>7, <1>a, <2>3
    <2>4. ASSUME NEW k \in 1..n, s[k].id = id PROVE \E i \in 1..n : t[i].id = id
      <3>1. PICK i \in 1..n : p[i] = k
        BY <1>7
      <3>2. t[i] = s[k]
        BY <1>a, <3>1
      <3>. QED BY <2>4, <3>2
    <2>. QED BY <2>1, <2>2, <2>3, <2>4
  <1>. QED BY <1>1, <1>5, <1>8, <1>9, <1>10, <1>11, <1>12

\* The type invariant but for the files.
PlainType ==
    /\ phase \in {"index", "list", "volumes", "loaded", "failed"}
    /\ entries \subseteq DOMAIN dir
    /\ cur \in DOMAIN dir \cup {NoFile}
    /\ pos \in Nat \ {0}
    /\ recoverySetID \in SetIDs \cup {NoSet}
    /\ sliceByteCount \in Nat /\ sliceByteCount % 4 = 0
    /\ fileChecksums \in [FileID -> Nat]
    /\ parityShards \in [Exponents -> Nat \cup {NoShard}]
    /\ parityFileBlocks \in [DOMAIN dir -> Nat]
    /\ unread \subseteq DOMAIN dir \cup {NoFile}
    /\ cancelled \in BOOLEAN

FilesType ==
    /\ \A i \in DOMAIN protectedFiles :
          /\ protectedFiles[i].id \in FileID
          /\ protectedFiles[i].size > 0
          /\ protectedFiles[i].name # Rejected
    /\ protectedFiles \in Seq(Range(protectedFiles))
    /\ \A i, j \in DOMAIN protectedFiles : protectedFiles[i].id = protectedFiles[j].id => i = j

\* The two together.
LEMMA TypeParts == TypeInv <=> PlainType /\ FilesType
  BY DEF TypeInv, LoaderTypeOK, PlainType, FilesType

\* The body that is handled is of its type, and was parsed.
LEMMA HandledBody ==
    ASSUME LoadInv, HandlePacket
    PROVE  BodyType(P.body) /\ ParseOK(P.body)
  <1>1. AtPacket /\ Accepted(P) /\ Own(P) /\ Handled(P)
    BY DEF HandlePacket
  <1>2. cur \in DOMAIN dir /\ pos \in DOMAIN dir[cur] /\ dir \in Directories
    BY <1>1, PacketOfFile DEF LoadInv, PhaseInv
  <1>. QED BY <1>1, <1>2, LoaderAssumption DEF P, Accepted

\* Handling a packet keeps the types: a block size that is not a multiple of four, a name
\* outside the directory and an exponent over the limit stop its parser.
LEMMA HandleType == ASSUME LoadInv, TypeInv, HandlePacket PROVE TypeInv'
  <1>1. PICK b : b = P.body
    OBVIOUS
  <1>2. BodyType(b) /\ ParseOK(b)
    BY <1>1, HandledBody
  <1>3. /\ AtPacket /\ AdoptSet /\ pos' = pos + 1
        /\ UNCHANGED <<dir, index, phase, entries, cur, unread, cancelled>>
        /\ sliceByteCount' = IF b.type = "main" THEN b.slice ELSE sliceByteCount
        /\ protectedFiles' = IF b.type = "desc" THEN AppendFile(b) ELSE protectedFiles
        /\ fileChecksums' = IF b.type = "ifsc" THEN [fileChecksums EXCEPT ![b.id] = b.pairs]
                            ELSE fileChecksums
        /\ IF b.type = "recv" THEN KeepBlock(b)
           ELSE UNCHANGED <<parityShards, parityFileBlocks>>
    BY <1>1 DEF HandlePacket
  <1>4. PlainType /\ FilesType /\ cur \in DOMAIN dir /\ P.set \in SetIDs
    BY <1>3, TypeParts, PacketOfFile DEF LoadInv
  <1>5. recoverySetID' \in SetIDs \cup {NoSet}
    BY <1>3, <1>4 DEF AdoptSet, PlainType
  <1>6. sliceByteCount' \in Nat /\ sliceByteCount' % 4 = 0
    BY <1>2, <1>3, <1>4 DEF PlainType, BodyType, ParseOK, ParseMain
  <1>7. fileChecksums' \in [FileID -> Nat]
    BY <1>2, <1>3, <1>4 DEF PlainType, BodyType
  <1>8. parityShards' \in [Exponents -> Nat \cup {NoShard}]
    BY <1>2, <1>3, <1>4 DEF PlainType, BodyType, KeepBlock
  <1>9. parityFileBlocks' \in [DOMAIN dir -> Nat]
    BY <1>3, <1>4 DEF PlainType, KeepBlock
  <1>10. PlainType'
    BY <1>3, <1>4, <1>5, <1>6, <1>7, <1>8, <1>9 DEF PlainType
  <1>11. FilesType'
    <2>1. CASE b.type = "desc"
      BY <1>2, <1>3, <2>1, AppendFileFacts DEF FilesType
    <2>2. CASE b.type # "desc"
      <3>1. protectedFiles' = protectedFiles
        BY <1>3, <2>2
      <3>. QED BY <1>4, <3>1 DEF FilesType
    <2>. QED BY <2>1, <2>2
  <1>12. (PlainType /\ FilesType)' => TypeInv'
    BY TypeParts, PTL
  <1>. QED BY <1>10, <1>11, <1>12

\* The other steps keep them too.
LEMMA OtherType ==
    ASSUME LoadInv, TypeInv, [Next]_vars, ~HandlePacket
    PROVE  TypeInv'
  <1>1. PlainType /\ FilesType
    BY TypeParts
  <1>2. FilesType'
    <2>1. CASE IndexDone
      BY <2>1, SortStep DEF IndexDone, FilesType
    <2>2. CASE ~IndexDone
      <3>1. UNCHANGED protectedFiles
        BY <2>2 DEF Next, LoadNext, StreamNext, PacketFails, StreamFails, StreamCancelled,
                    SkipPacket, VolumeDone, ListDirectory, OpenVolume, PassEntry,
                    OpenFails, EntryCancelled, Loaded, Cancel, Stopped, vars, state
      <3>. QED BY <1>1, <3>1 DEF FilesType
    <2>. QED BY <2>1, <2>2
  <1>3. PlainType'
    <2>1. CASE PacketFails \/ SkipPacket
      <3>1. recoverySetID' \in SetIDs \cup {NoSet}
        BY <1>1, <2>1, PacketOfFile DEF PacketFails, SkipPacket, AdoptSet, LoadInv, PlainType
      <3>. QED BY <1>1, <2>1, <3>1 DEF PlainType, PacketFails, StreamFails, SkipPacket
    <2>2. CASE IndexDone
      BY <1>1, <2>2 DEF PlainType, IndexDone
    <2>3. CASE ~(PacketFails \/ SkipPacket \/ IndexDone)
      <3>. USE DEF Next, LoadNext, StreamNext, StreamFails, StreamCancelled,
                   VolumeDone, ListDirectory, OpenVolume, PassEntry, AtEntry,
                   OpenFails, EntryCancelled, Loaded, Cancel, Stopped, vars, state
      <3>1. UNCHANGED <<dir, recoverySetID, sliceByteCount, fileChecksums, parityShards,
                        parityFileBlocks>>
        BY <2>3
      <3>2. phase' \in {"index", "list", "volumes", "loaded", "failed"} /\ cancelled' \in BOOLEAN
        BY <1>1, <2>3 DEF PlainType
      <3>3. entries' \subseteq DOMAIN dir /\ unread' \subseteq DOMAIN dir \cup {NoFile}
        BY <1>1, <2>3 DEF PlainType
      <3>4. cur' \in DOMAIN dir \cup {NoFile} /\ pos' \in Nat \ {0}
        BY <1>1, <2>3 DEF PlainType
      <3>. QED BY ONLY <1>1, <3>1, <3>2, <3>3, <3>4 DEF PlainType
    <2>. QED BY <2>1, <2>2, <2>3
  <1>4. (PlainType /\ FilesType)' => TypeInv'
    BY TypeParts, PTL
  <1>. QED BY <1>2, <1>3, <1>4

\* The types hold in every state.
LEMMA TypeInvariant == Spec => []TypeInv
  <1>1. Init => TypeInv
    <2>. SUFFICES ASSUME Init PROVE TypeInv
      OBVIOUS
    <2>1. PlainType
      <3>1. fileChecksums \in [FileID -> Nat] /\ parityFileBlocks \in [DOMAIN dir -> Nat]
        BY DEF Init
      <3>2. parityShards \in [Exponents -> Nat \cup {NoShard}]
        BY DEF Init
      <3>3. 0 % 4 = 0
        OBVIOUS
      <3>4. index \in DOMAIN dir
        BY DEF Init
      <3>5. /\ phase = "index" /\ cur = index /\ pos = 1 /\ entries = {} /\ unread = {}
            /\ recoverySetID = NoSet /\ sliceByteCount = 0
        BY DEF Init
      <3>6. cancelled \in BOOLEAN
        BY DEF Init
      <3>. QED BY ONLY <3>1, <3>2, <3>3, <3>4, <3>5, <3>6 DEF PlainType
    <2>2. FilesType
      <3>1. protectedFiles = <<>> /\ DOMAIN <<>> = {}
        BY DEF Init
      <3>2. <<>> \in Seq(Range(<<>>))
        OBVIOUS
      <3>. QED BY <3>1, <3>2 DEF FilesType
    <2>. QED BY <2>1, <2>2, TypeParts
  <1>2. LoadInv /\ TypeInv /\ [Next]_vars => TypeInv'
    BY HandleType, OtherType
  <1>. QED BY <1>1, <1>2, LoadInvariant, PTL DEF Spec

\* For every directory: block sizes are whole words, every protected file has bytes and a
\* name inside the directory, and no file is appended twice (ParseMainPacket,
\* ParseFileDescPacket, handlePacket).
THEOREM LoadTypeCorrect == Spec => []LoaderTypeOK
  <1>1. TypeInv => LoaderTypeOK
    BY DEF TypeInv
  <1>. QED BY <1>1, TypeInvariant, PTL

(***************************************************************************)
(* The rows of the matrix                                                  *)
(***************************************************************************)

\* Packet p describes file id of this set, which has bytes.
Describes(p, id) ==
    p.set = recoverySetID /\ p.body.type = "desc" /\ p.body.id = id /\ p.body.size > 0

\* The files are those that the packets read from the index describe; once it has been
\* read, all its packets pass and the files are in order.
RowsInv ==
    /\ phase # "failed" =>
          \A id : Described(id) <=> \E k \in DOMAIN dir[index] :
                                       (phase = "index" => k < pos) /\ Describes(dir[index][k], id)
    /\ phase \in {"list", "volumes", "loaded"} =>
          /\ \A i, j \in DOMAIN protectedFiles :
                i < j => ~FileIDLess(protectedFiles[j].id, protectedFiles[i].id)
          /\ \A k \in DOMAIN dir[index] : recoverySetID # NoSet /\ Passes(index, dir[index][k])

\* A packet of the index adds the file it describes.
LEMMA IndexPacketRows ==
    ASSUME LoadInv, TypeInv, RowsInv, SkipPacket \/ HandlePacket, cur = index
    PROVE  RowsInv'
  <1>1. /\ AtPacket /\ Accepted(P) /\ AdoptSet /\ pos' = pos + 1
        /\ UNCHANGED <<dir, index, phase, cur>> /\ phase = "index"
    BY DEF SkipPacket, HandlePacket, LoadInv, PhaseInv
  <1>2. PICK d, q, p : d = dir[index] /\ q = pos /\ p = P
    OBVIOUS
  <1>3. /\ q \in DOMAIN d /\ p = d[q] /\ q \in Nat \ {0} /\ Len(d) \in Nat /\ DOMAIN d = 1..Len(d)
        /\ BodyType(p.body)
    BY <1>1, <1>2, PacketOfFile, LoaderAssumption DEF LoadInv, PhaseInv, P
  <1>4. ASSUME NEW k \in DOMAIN d, k < q, NEW id
        PROVE  Describes(d[k], id)' <=> Describes(d[k], id)
    <2>1. recoverySetID # NoSet
      BY <1>1, <1>2, <1>3, <1>4 DEF LoadInv, PassedInv, AtPacket
    <2>2. recoverySetID' = recoverySetID
      BY <1>1, <2>1, SetIDKept
    <2>. QED BY <2>2 DEF Describes
  <1>5. p.set = recoverySetID' => Own(p)
    BY <1>2 DEF AdoptSet, Own, SkipPacket, HandlePacket
  <1>6. ASSUME NEW id PROVE Described(id)' <=> Described(id) \/ Describes(p, id)'
    <2>1. CASE SkipPacket
      <3>1. protectedFiles' = protectedFiles /\ ~(Own(p) /\ Handled(p))
        BY <1>2, <2>1 DEF SkipPacket
      <3>. QED BY <1>5, <3>1 DEF Described, Describes, Handled, InIndex
    <2>2. CASE HandlePacket /\ p.body.type # "desc"
      <3>1. protectedFiles' = protectedFiles
        BY <1>2, <2>2 DEF HandlePacket
      <3>. QED BY <2>2, <3>1 DEF Described, Describes
    <2>3. CASE HandlePacket /\ p.body.type = "desc"
      <3>1. protectedFiles' = AppendFile(p.body) /\ ParseOK(p.body)
        BY <1>2, <2>3, HandledBody DEF HandlePacket
      <3>2. Described(id)' <=> Described(id) \/ (id = p.body.id /\ p.body.size > 0)
        BY <1>3, <2>3, <3>1, AppendFileFacts
      <3>3. p.set = recoverySetID'
        BY <1>1, <1>2, <2>3, AcceptedPasses DEF HandlePacket, LoadInv
      <3>. QED BY <2>3, <3>2, <3>3 DEF Describes
    <2>. QED BY <2>1, <2>2, <2>3
  <1>7. ASSUME NEW id
        PROVE  Described(id)' <=> \E k \in DOMAIN d : k < q + 1 /\ Describes(d[k], id)'
    <2>1. Described(id) <=> \E k \in DOMAIN d : k < q /\ Describes(d[k], id)
      BY <1>1, <1>2 DEF RowsInv
    <2>2. \A k \in DOMAIN d : k < q + 1 <=> k < q \/ k = q
      BY <1>3
    <2>. QED BY <1>3, <1>4, <1>6, <2>1, <2>2
  <1>. QED BY <1>1, <1>2, <1>7 DEF RowsInv

\* The reader of the index ends: the files are put in order.
LEMMA IndexDoneRows ==
    ASSUME LoadInv, TypeInv, RowsInv, IndexDone
    PROVE  RowsInv'
  <1>1. /\ AtEnd /\ cur = index /\ phase' = "list" /\ phase = "index"
        /\ UNCHANGED <<dir, index, recoverySetID>> /\ protectedFiles' = SortFiles(protectedFiles)
    BY DEF IndexDone, InIndex, LoadInv, PhaseInv
  <1>2. PICK d : d = dir[index] /\ Len(d) \in Nat /\ DOMAIN d = 1..Len(d)
    BY LoaderAssumption DEF LoadInv, PhaseInv
  <1>3. pos \in Nat /\ pos > Len(d)
    BY <1>1, <1>2 DEF AtEnd, LoadInv, PhaseInv
  <1>4. \A k \in DOMAIN d : k < pos /\ k \in 1..pos - 1
    BY <1>2, <1>3
  <1>5. ASSUME NEW k \in DOMAIN d PROVE recoverySetID # NoSet /\ Passes(index, d[k])
    <2>1. pos # 1
      BY <1>2, <1>3
    <2>. QED BY <1>1, <1>2, <1>4, <2>1 DEF LoadInv, PassedInv, AtEnd
  <1>6. \A id : Described(id)' <=> Described(id)
    BY <1>1, SortStep
  <1>7. \A i, j \in DOMAIN protectedFiles' :
           i < j => ~FileIDLess(protectedFiles'[j].id, protectedFiles'[i].id)
    BY <1>1, SortStep
  <1>8. ASSUME NEW id
        PROVE  Described(id)' <=> \E k \in DOMAIN d : Describes(d[k], id)'
    <2>1. Described(id) <=> \E k \in DOMAIN d : k < pos /\ Describes(d[k], id)
      BY <1>1, <1>2 DEF RowsInv
    <2>2. \A k \in DOMAIN d : Describes(d[k], id)' <=> Describes(d[k], id)
      BY <1>1 DEF Describes
    <2>. QED BY <1>4, <1>6, <2>1, <2>2
  <1>9. \A k \in DOMAIN d : recoverySetID' # NoSet /\ Passes(index, d[k])'
    BY <1>1, <1>5 DEF Passes
  <1>. QED BY <1>1, <1>2, <1>7, <1>8, <1>9 DEF RowsInv

\* Nothing else touches the files: the set has its ID unless the index is empty.
LEMMA OtherRows ==
    ASSUME LoadInv, TypeInv, RowsInv, [Next]_vars, ~IndexDone,
           ~((SkipPacket \/ HandlePacket) /\ cur = index)
    PROVE  RowsInv'
  <1>. USE DEF Streaming, InIndex, AtEntry, AtEnd, AtPacket, state
  <1>1. UNCHANGED <<dir, index, protectedFiles>>
    <2>1. CASE HandlePacket
      <3>1. P.body.type = "recv"
        BY <2>1 DEF HandlePacket, Handled
      <3>. QED BY <2>1, <3>1 DEF HandlePacket
    <2>2. CASE ~HandlePacket
      BY <2>2 DEF Next, LoadNext, StreamNext, PacketFails, StreamFails, StreamCancelled,
                  SkipPacket, VolumeDone, ListDirectory, OpenVolume, PassEntry,
                  OpenFails, EntryCancelled, Loaded, Cancel, Stopped, vars
    <2>. QED BY <2>1, <2>2
  <1>2. AdoptSet \/ UNCHANGED recoverySetID
    BY DEF Next, LoadNext, StreamNext, PacketFails, StreamFails, StreamCancelled,
           SkipPacket, HandlePacket, VolumeDone, ListDirectory, OpenVolume, PassEntry,
           OpenFails, EntryCancelled, Loaded, Cancel, Stopped, vars
  <1>3. \/ phase' = "failed"
        \/ phase = "index" /\ UNCHANGED <<phase, pos, recoverySetID>>
        \/ phase \in {"list", "volumes", "loaded"} /\ phase' \in {"list", "volumes", "loaded"}
    <2>1. phase \in {"index", "list", "volumes", "loaded", "failed"}
      BY DEF TypeInv, LoaderTypeOK
    <2>. QED
      BY <2>1 DEF Next, LoadNext, StreamNext, PacketFails, StreamFails, StreamCancelled,
             SkipPacket, HandlePacket, VolumeDone, ListDirectory, OpenVolume, PassEntry,
             OpenFails, EntryCancelled, Loaded, Cancel, Stopped, vars, LoadInv, PhaseInv
  <1>4. CASE phase' = "failed"
    BY <1>4 DEF RowsInv
  <1>5. CASE phase = "index" /\ UNCHANGED <<phase, pos, recoverySetID>>
    BY <1>1, <1>5 DEF RowsInv, Described, Describes
  <1>6. CASE phase \in {"list", "volumes", "loaded"} /\ phase' \in {"list", "volumes", "loaded"}
    <2>1. CASE recoverySetID' = recoverySetID
      BY <1>1, <1>6, <2>1 DEF RowsInv, Described, Describes, Passes
    <2>2. CASE recoverySetID' # recoverySetID
      <3>1. recoverySetID = NoSet
        BY <1>2, <2>2, SetIDKept
      <3>2. DOMAIN dir[index] = {}
        BY <1>6, <3>1 DEF RowsInv
      <3>. QED BY <1>1, <1>6, <3>2 DEF RowsInv, Described
    <2>. QED BY <2>1, <2>2
  <1>. QED BY <1>3, <1>4, <1>5, <1>6

\* The files follow the packets of the index in every state.
LEMMA RowsInvariant == Spec => []RowsInv
  <1>1. Init => RowsInv
    <2>. SUFFICES ASSUME Init PROVE RowsInv
      OBVIOUS
    <2>1. dir \in Directories /\ index \in DOMAIN dir /\ pos = 1 /\ phase = "index"
      BY DEF Init
    <2>2. \A k \in DOMAIN dir[index] : ~(k < pos)
      BY <2>1, LoaderAssumption
    <2>3. \A id : ~Described(id)
      <3>1. protectedFiles = <<>> /\ DOMAIN <<>> = {}
        BY DEF Init
      <3>. QED BY <3>1 DEF Described
    <2>. QED BY <2>1, <2>2, <2>3 DEF RowsInv
  <1>2. LoadInv /\ TypeInv /\ RowsInv /\ [Next]_vars => RowsInv'
    BY IndexPacketRows, IndexDoneRows, OtherRows
  <1>. QED BY <1>1, <1>2, LoadInvariant, TypeInvariant, PTL DEF Spec

\* IDs that differ and of which none is less than its predecessor are in strict order.
LEMMA SortedStrictly ==
    ASSUME NEW ids \in Seq(FileID), FileIDSorted(ids), IsInjective(ids)
    PROVE  \A k, l \in DOMAIN ids : k < l => FileIDLess(ids[k], ids[l])
  <1>1. Len(ids) \in Nat /\ DOMAIN ids = 1..Len(ids) /\ \A k \in DOMAIN ids : ids[k] \in FileID
    OBVIOUS
  <1>2. ASSUME NEW k \in DOMAIN ids, k + 1 \in DOMAIN ids PROVE FileIDLess(ids[k], ids[k + 1])
    <2>1. ids[k] # ids[k + 1]
      BY <1>1, <1>2 DEF IsInjective
    <2>2. ~FileIDLess(ids[k + 1], ids[k])
      BY <1>1, <1>2 DEF FileIDSorted
    <2>. QED BY <1>1, <1>2, <2>1, <2>2, LessTotal
  <1>3. SUFFICES ASSUME NEW k \in DOMAIN ids
                 PROVE  \A l \in DOMAIN ids : k < l => FileIDLess(ids[k], ids[l])
    OBVIOUS
  <1>. DEFINE n == Len(ids)
              Q == {x \in 0..n : x > k => FileIDLess(ids[k], ids[x])}
  <1>4. 0 \in Q
    BY <1>1
  <1>5. ASSUME NEW x \in 0..n - 1, x \in Q PROVE x + 1 \in Q
    <2>1. CASE x + 1 <= k
      BY <1>1, <2>1
    <2>2. CASE x = k
      BY <1>1, <1>2, <2>2
    <2>3. CASE x > k
      <3>1. x \in DOMAIN ids /\ x + 1 \in DOMAIN ids
        BY <1>1, <2>3
      <3>2. FileIDLess(ids[k], ids[x]) /\ FileIDLess(ids[x], ids[x + 1])
        BY <1>2, <1>5, <2>3, <3>1
      <3>3. FileIDLess(ids[k], ids[x + 1])
        BY <1>1, <3>1, <3>2, LessOrder
      <3>. QED BY <1>1, <3>3
    <2>. QED BY <1>1, <2>1, <2>2, <2>3
  <1>. HIDE DEF Q
  <1>6. 0..n \subseteq Q
    BY <1>1, <1>4, <1>5, UpTo
  <1>. QED BY <1>1, <1>6 DEF Q

\* For every directory: after a load from an index with one Main packet that lists different
\* files and describes each of them, the rows of the matrix are the files listed that have
\* bytes, each once, with the recovery set's in the order of the Main packet
\* (ParseMainPacket, handlePacket, loadIndexFile).
THEOREM RowsAlwaysMatchMain == Spec => []RowsMatchMain
  <1>1. LoadInv /\ TypeInv /\ RowsInv => RowsMatchMain
    <2>. SUFFICES ASSUME LoadInv, TypeInv, RowsInv, phase = "loaded", Consistent,
                         NEW m \in OwnBodies("main"), NEW set, set = RecoverySet(m)
                  PROVE  LET row(i) == protectedFiles[i].id IN
                         /\ {row(i) : i \in DOMAIN protectedFiles}
                               = {id \in Range(m.ids) : NotEmpty(id)}
                         /\ \A i, j \in DOMAIN protectedFiles :
                               i < j =>
                                  /\ row(i) # row(j)
                                  /\ {row(i), row(j)} \subseteq Range(set) =>
                                        \E k, l \in DOMAIN set :
                                           k < l /\ set[k] = row(i) /\ set[l] = row(j)
      BY DEF RowsMatchMain
    <2>1. PICK d : d = dir[index] /\ Len(d) \in Nat /\ DOMAIN d = 1..Len(d)
      BY LoaderAssumption DEF LoadInv, PhaseInv
    <2>2. \A k \in DOMAIN d : BodyType(d[k].body)
      BY <2>1, LoaderAssumption DEF LoadInv, PhaseInv
    <2>3. \A type, b : b \in OwnBodies(type) <=>
             \E k \in DOMAIN d : d[k].set = recoverySetID /\ d[k].body.type = type /\ d[k].body = b
      BY <2>1 DEF OwnBodies, Range
    <2>4. PICK k0 \in DOMAIN d :
             d[k0].set = recoverySetID /\ d[k0].body.type = "main" /\ d[k0].body = m
      BY <2>3
    <2>5. BodyType(m) /\ ParseOK(m) /\ m.type = "main"
      BY <2>1, <2>2, <2>4 DEF RowsInv, Passes
    <2>6. /\ m.ids \in Seq(FileID) /\ m.setCount \in Nat /\ m.setCount <= Len(m.ids)
          /\ FileIDSorted(set)
      BY <2>5 DEF BodyType, ParseOK, ParseMain
    <2>7. Range(m.ids) = {b.id : b \in OwnBodies("desc")} /\ IsInjective(m.ids)
      BY DEF Consistent
    <2>8. /\ set \in Seq(FileID) /\ DOMAIN set = 1..m.setCount
          /\ \A k \in 1..m.setCount : k \in DOMAIN m.ids /\ set[k] = m.ids[k]
      BY <2>6 DEF RecoverySet
    <2>9. \A k, l \in DOMAIN set : k < l => FileIDLess(set[k], set[l])
      <3>1. IsInjective(set)
        BY <2>7, <2>8 DEF IsInjective
      <3>. QED BY <2>6, <2>8, <3>1, SortedStrictly
    <2>10. \A id : Described(id) <=> NotEmpty(id)
      <3>1. \A id : Described(id) <=> \E k \in DOMAIN d : Describes(d[k], id)
        BY <2>1 DEF RowsInv
      <3>2. \A id : NotEmpty(id) <=> \E k \in DOMAIN d : Describes(d[k], id)
        BY <2>3 DEF NotEmpty, Describes
      <3>. QED BY <3>1, <3>2
    <2>11. \A id : NotEmpty(id) => id \in Range(m.ids)
      BY <2>7 DEF NotEmpty
    <2>12. {protectedFiles[i].id : i \in DOMAIN protectedFiles}
              = {id \in Range(m.ids) : NotEmpty(id)}
      BY <2>10, <2>11 DEF Described
    <2>13. ASSUME NEW i \in DOMAIN protectedFiles, NEW j \in DOMAIN protectedFiles, i < j
           PROVE  /\ protectedFiles[i].id # protectedFiles[j].id
                  /\ {protectedFiles[i].id, protectedFiles[j].id} \subseteq Range(set) =>
                        \E k, l \in DOMAIN set :
                           k < l /\ set[k] = protectedFiles[i].id /\ set[l] = protectedFiles[j].id
      <3>1. i \in Nat /\ j \in Nat
        BY LenProperties DEF TypeInv
      <3>2. protectedFiles[i].id # protectedFiles[j].id
        BY <2>13, <3>1 DEF TypeInv
      <3>3. ASSUME {protectedFiles[i].id, protectedFiles[j].id} \subseteq Range(set)
            PROVE  \E k, l \in DOMAIN set :
                      k < l /\ set[k] = protectedFiles[i].id /\ set[l] = protectedFiles[j].id
        <4>1. PICK k \in DOMAIN set, l \in DOMAIN set :
                 set[k] = protectedFiles[i].id /\ set[l] = protectedFiles[j].id
          BY <3>3 DEF Range
        <4>2. ~FileIDLess(set[l], set[k])
          BY <2>13, <4>1 DEF RowsInv
        <4>3. k # l
          BY <3>2, <4>1
        <4>4. k \in Nat /\ l \in Nat
          BY <2>6, <2>8
        <4>5. k < l
          BY <2>9, <4>2, <4>3, <4>4
        <4>. QED BY <4>1, <4>5
      <3>. QED BY <3>2, <3>3
    <2>. QED BY <2>12, <2>13
  <1>. QED BY <1>1, LoadInvariant, TypeInvariant, RowsInvariant, PTL

=============================================================================
