---------------------------- MODULE RepairProofs ----------------------------
(***************************************************************************)
(* Proofs about what a verification finds and what a repair makes of it:   *)
(* verify tells the truth both ways, the sources of a rebuild exist, and a *)
(* repair that is possible succeeds.                                       *)
(***************************************************************************)
EXTENDS EngineProofs

(***************************************************************************)
(* The plan: what is known about damage and locations while the disk is    *)
(* the one that was verified.                                              *)
(***************************************************************************)
PlanPhases == VerifyPhases \cup {"dispatch", "rename", "plan", "chunk"}

\* A FileID of a file that is there; a protected file and a candidate are told
\* apart by their kind.
Present(d, id) ==
    /\ id.kind \in {"file", "cand"}
    /\ id.kind = "file" => id.name \in Protected
    /\ id.kind = "cand" => id.name \in candidateFiles
    /\ d[id.name] # Absent

\* A located block is in a file that exists.
SourceInv ==
    pc \in PlanPhases => \A b \in Blocks : locs[b].off # -1 => Present(disk, locs[b].id)

\* What is recorded as missing is missing, and nothing else.
MissingInv ==
    /\ pc = "exist" => \A f \in Protected : damage[f] # "missing"
    /\ pc \in {"candidates", "protected", "scan"} =>
          \A f \in Protected : damage[f] = "missing" <=> disk[f] = Absent

\* Unless a read failed, an intact file is recorded as such once the protected
\* files have been looked at.
HealthInv ==
    (faults = 0 /\ pc \in {"scan", "post", "dispatch"}) =>
        \A f \in Protected : Healthy(f) =>
            /\ damage[f] = "none"
            /\ \A b \in Blocks : b[1] = f => locs[b].off # -1

\* Only the repair command repairs.
CmdInv == pc \in RepairPhases => cmd = "repair"

PlanInv == SourceInv /\ MissingInv /\ HealthInv /\ CmdInv

\* A match lies in a file that is scanned.
LEMMA MatchSource ==
    ASSUME NEW d, NEW sources, NEW b, NEW loc \in Matches(d, sources, b)
    PROVE  loc.id \in sources /\ loc.off \in Nat /\ MatchesAt(d, loc.id, loc.off, b)
<1>1. PICK id \in sources :
         \E o \in 0..(Len(d[id.name]) + PartialLength(d, id)) :
             loc = [id |-> id, off |-> o] /\ MatchesAt(d, id, o, b)
  BY DEF Matches
<1> QED
  BY <1>1

\* The scan moves no block that was located, finds others only in the files that
\* it reads, and leaves unlocated only what it may miss.
LEMMA ScanOutcomeFacts ==
    ASSUME NEW d, NEW sources, NEW l \in ScanOutcomes(d, sources, locs), NEW b \in Blocks
    PROVE  /\ locs[b].off # -1 => l[b] = locs[b]
           /\ l[b].off # -1 /\ locs[b].off = -1 => l[b] \in Matches(d, sources, b)
           /\ l[b].off = -1 => locs[b].off = -1 /\ MayMiss(d, sources, b)
<1> DEFINE choices == ScanChoices(d, sources, locs)
<1>1. PICK q \in [Unlocated(locs) -> {c[2] : c \in choices}] :
         /\ \A a \in Unlocated(locs) : <<a, q[a]>> \in choices
         /\ l = [a \in Blocks |-> IF a \in Unlocated(locs) THEN q[a] ELSE locs[a]]
  <2>1. l \in OutcomesOf(choices, locs)
    BY DEF ScanOutcomes
  <2> QED
    BY <2>1 DEF OutcomesOf
<1>2. CASE locs[b].off # -1
  BY <1>1, <1>2 DEF Unlocated
<1>3. CASE locs[b].off = -1
  <2>1. b \in Unlocated(locs) /\ l[b] = q[b] /\ <<b, l[b]>> \in choices
    BY <1>1, <1>3 DEF Unlocated
  <2>2. l[b] \in Matches(d, sources, b) \/ (l[b] = NotFound /\ MayMiss(d, sources, b))
    BY <2>1 DEF ScanChoices
  <2>3. NotFound.off = -1
    BY DEF NotFound
  <2>4. l[b] \in Matches(d, sources, b) => l[b].off # -1
    BY MatchSource
  <2> QED
    BY <1>3, <2>2, <2>3, <2>4
<1> QED
  BY <1>2, <1>3

\* The phases of the verification keep what the repair plan rests on.
LEMMA PlanVerifyStep ==
    ASSUME IInv, PlanInv, VerifyNext, UNCHANGED <<cancelled, pipelineVars, envVars>>
    PROVE  PlanInv'
<1> USE DEF integrityVars, envVars
<1>0. disk' = disk /\ cmd' = cmd
  BY DEF VerifyNext, InitFileIntegrity, CheckFileExistence, VerifyFails,
         PrescanCandidateMatches, PrescanProtectedMatches, Scan, PostScanVerify
<1>a. \A f \in Protected : Healthy(f) => disk[f] # Absent
  BY ProtectedFacts DEF Healthy
<1>b. \A f \in Protected : Healthy(f)' = Healthy(f)
  BY <1>0 DEF Healthy
<1>c. \A id : Present(disk, id) => Present(disk', id)
  BY <1>0 DEF Present
<1>d. faults \in Nat
  <2>1. faults \in 0..MaxFaults
    BY DEF IInv, TypeOK
  <2> QED
    BY <2>1, BoundAssumption
<1>1. CASE InitFileIntegrity
  <2>1. /\ pc' = "exist" /\ \A b \in Blocks : locs'[b].off = -1
        /\ \A f \in Protected : damage'[f] # "missing"
    BY <1>1 DEF InitFileIntegrity, NotFound
  <2> QED
    BY <2>1 DEF PlanInv, SourceInv, MissingInv, HealthInv, CmdInv, RepairPhases
<1>2. CASE CheckFileExistence
  <2>1. pc = "exist" /\ pc' = "candidates" /\ locs' = locs
    BY <1>2 DEF CheckFileExistence
  <2>2. \A f \in Protected : damage'[f] = "missing" <=> disk[f] = Absent
    BY <1>2 DEF CheckFileExistence, PlanInv, MissingInv
  <2> QED
    BY <1>0, <1>c, <2>1, <2>2 DEF PlanInv, SourceInv, MissingInv, HealthInv, CmdInv,
          RepairPhases, PlanPhases, VerifyPhases
<1>3. CASE PrescanCandidateMatches
  <2>1. pc = "candidates" /\ pc' = "protected" /\ damage' = damage
    BY <1>3 DEF PrescanCandidateMatches
  <2>2. PICK bad, source, Hit :
           /\ Hit = {f \in Protected : PerfectMatches(f, bad) # {}}
           /\ \A f \in Hit : source[f] \in PerfectMatches(f, bad)
           /\ locs' = Relocate(Hit, [f \in Hit |-> CandidateID(source[f])])
    BY <1>3 DEF PrescanCandidateMatches
  <2>3. \A f \in Hit : f \in Protected /\ Present(disk, CandidateID(source[f]))
    BY <2>2, ProtectedFacts DEF PerfectMatches, Present, CandidateID
  <2>4. ASSUME NEW b \in Blocks, locs'[b].off # -1 PROVE Present(disk, locs'[b].id)
    <3>1. CASE b[1] \in Hit
      BY <2>2, <2>3, <3>1 DEF Relocate, InPlaceIn
    <3>2. CASE b[1] \notin Hit
      BY <2>1, <2>2, <2>4, <3>2 DEF Relocate, PlanInv, SourceInv, PlanPhases, VerifyPhases
    <3> QED
      BY <3>1, <3>2
  <2> QED
    BY <1>0, <1>c, <2>1, <2>4
       DEF PlanInv, SourceInv, MissingInv, HealthInv, CmdInv, RepairPhases
<1>4. CASE PrescanProtectedMatches
  <2>1. pc = "protected" /\ pc' = "scan"
    BY <1>4 DEF PrescanProtectedMatches
  <2>2. PICK bad, Intact :
           /\ bad \in FaultSets(Protected)
           /\ Intact = {f \in Protected \ bad : damage[f] # "missing" /\ disk[f] = Content[f]}
           /\ damage' = [f \in Protected |-> IF f \in Intact THEN "none" ELSE damage[f]]
           /\ locs' = Relocate(Intact, [f \in Intact |-> FileIDOf(f)])
           /\ Charge(bad)
    BY <1>4 DEF PrescanProtectedMatches
  <2>3. \A f \in Intact : f \in Protected /\ Present(disk, FileIDOf(f))
    BY <2>2, ProtectedFacts DEF Present, FileIDOf
  <2>4. ASSUME NEW b \in Blocks, locs'[b].off # -1 PROVE Present(disk, locs'[b].id)
    <3>1. CASE b[1] \in Intact
      BY <2>2, <2>3, <3>1 DEF Relocate, InPlaceIn
    <3>2. CASE b[1] \notin Intact
      BY <2>1, <2>2, <2>4, <3>2 DEF Relocate, PlanInv, SourceInv, PlanPhases, VerifyPhases
    <3> QED
      BY <3>1, <3>2
  <2>5. \A f \in Protected : damage[f] = "missing" <=> disk[f] = Absent
    BY <2>1 DEF PlanInv, MissingInv
  <2>6. \A f \in Protected : damage'[f] = "missing" <=> disk[f] = Absent
    BY <2>2, <2>5, ProtectedFacts
  <2>7. faults' = 0 => \A f \in Protected : Healthy(f) => f \in Intact
    BY <1>a, <1>d, <2>2, <2>5 DEF Charge, Healthy
  <2>8. ASSUME NEW b \in Blocks, b[1] \in Intact PROVE locs'[b].off # -1
    <3>1. \A n, size \in Nat : n * size \in Nat
      OBVIOUS
    <3>2. b[2] * sliceByteCount \in Nat
      BY <3>1, BlockFacts, SizeAssumption
    <3>3. locs'[b].off = b[2] * sliceByteCount
      BY <2>2, <2>8 DEF Relocate, InPlaceIn
    <3> QED
      BY <3>2, <3>3
  <2> QED
    BY <1>0, <1>b, <1>c, <2>1, <2>2, <2>4, <2>6, <2>7, <2>8
       DEF PlanInv, SourceInv, MissingInv, HealthInv, CmdInv, RepairPhases
<1>5. CASE Scan
  <2>1. pc = "scan" /\ pc' = "post" /\ faults' = faults
    BY <1>5 DEF Scan
  <2>2. locs' \in ScanOutcomes(disk, ScanSources(disk, damage, resolved), locs)
    BY <1>5 DEF Scan
  <2>3. \A id \in ScanSources(disk, damage, resolved) : Present(disk, id)
    BY <2>1 DEF ScanSources, Present, FileIDOf, CandidateID, PlanInv, MissingInv
  <2>4. ASSUME NEW b \in Blocks, locs'[b].off # -1 PROVE Present(disk, locs'[b].id)
    <3>1. CASE locs[b].off # -1
      BY <2>1, <2>2, <3>1, ScanOutcomeFacts DEF PlanInv, SourceInv, PlanPhases, VerifyPhases
    <3>2. CASE locs[b].off = -1
      BY <2>2, <2>3, <2>4, <3>2, ScanOutcomeFacts, MatchSource
    <3> QED
      BY <3>1, <3>2
  <2>5. \A b \in Blocks : locs[b].off # -1 => locs'[b].off # -1
    BY <2>2, ScanOutcomeFacts
  <2>6. \A f \in Protected : damage[f] = "none" => damage'[f] = "none"
    BY <1>5 DEF Scan
  <2>7. HealthInv'
    BY <1>b, <2>1, <2>5, <2>6 DEF PlanInv, HealthInv
  <2> QED
    BY <1>0, <1>c, <2>1, <2>4, <2>7
       DEF PlanInv, SourceInv, MissingInv, CmdInv, RepairPhases
<1>6. CASE PostScanVerify
  <2>1. pc = "post" /\ pc' = "dispatch" /\ locs' = locs
    BY <1>6 DEF PostScanVerify
  <2>2. PICK bad, atOpen :
           /\ damage' = [f \in Protected |-> PostScanFile(f, bad, atOpen)[1]]
           /\ Charge(bad)
    BY <1>6 DEF PostScanVerify
  <2>3. faults' = 0 => faults = 0
    BY <1>d, <2>2 DEF Charge
  <2>4. \A f \in Protected : damage[f] = "none" => damage'[f] = "none"
    BY <2>2 DEF PostScanFile
  <2>5. HealthInv'
    BY <1>b, <2>1, <2>3, <2>4 DEF PlanInv, HealthInv
  <2> QED
    BY <1>0, <1>c, <2>1, <2>5
       DEF PlanInv, SourceInv, MissingInv, CmdInv, RepairPhases,
           PlanPhases, VerifyPhases
<1>7. CASE VerifyFails
  <2>1. pc' = "exit" /\ exitCode' = 4
    BY <1>7 DEF VerifyFails, Exit
  <2> QED
    BY <2>1
       DEF PlanInv, SourceInv, MissingInv, HealthInv, CmdInv,
           RepairPhases, PlanPhases, VerifyPhases
<1> QED
  BY <1>1, <1>2, <1>3, <1>4, <1>5, <1>6, <1>7 DEF VerifyNext

\* A rename takes the locations in the candidate along, and fills a name.
LEMMA PlanRenameStep ==
    ASSUME NoProtectedCandidate, IInv, PlanInv, RenameMisnamedFiles,
           UNCHANGED <<cancelled, envVars>>
    PROVE  PlanInv'
<1>1. pc = "rename" /\ pc' \in {"rename", "plan"} /\ cmd' = cmd
  BY DEF RenameMisnamedFiles, envVars
<1>2. PICK f \in Protected : f = protectedFiles[idx]
  BY ProtectedFacts DEF RenameMisnamedFiles
<1>3. \A b \in Blocks : locs[b].off # -1 => Present(disk, locs[b].id)
  BY <1>1 DEF PlanInv, SourceInv, PlanPhases
<1>4. \A b \in Blocks : locs'[b].off # -1 => Present(disk', locs'[b].id)
  <2>1. CASE disk' = disk /\ locs' = locs
    BY <1>3, <2>1 DEF Present
  <2>2. CASE renameSource[f] # "" /\ RenameFile(f)
    <3>1. PICK c \in candidateFiles : c = renameSource[f]
      BY <2>2 DEF IInv, TypeOK
    <3>2. /\ disk[c] # Absent
          /\ disk' = [disk EXCEPT ![f] = disk[c], ![c] = Absent]
          /\ locs' = RemapCandidate(c, f)
      BY <2>2, <3>1 DEF RenameFile
    <3>3. c \notin Protected /\ disk \in [Names -> FileContent] /\ f \in Names /\ c \in Names
      BY ProtectedFacts, NamesAssumption DEF NoProtectedCandidate, IInv, TypeOK
    <3>4. Present(disk', FileIDOf(f))
      BY <3>2, <3>3 DEF Present, FileIDOf
    <3>5. ASSUME NEW id, Present(disk, id), id # CandidateID(c), id \in FileID PROVE Present(disk', id)
      <4>1. id.name # c
        BY <3>3, <3>5 DEF Present, CandidateID, FileID
      <4>2. id.name \in Names
        BY <3>5, ProtectedFacts, NamesAssumption DEF Present
      <4> QED
        BY <3>2, <3>3, <3>5, <4>1, <4>2 DEF Present
    <3>6. ASSUME NEW b \in Blocks, locs'[b].off # -1 PROVE Present(disk', locs'[b].id)
      <4>1. locs[b] \in Location
        BY DEF IInv, GoodLocs
      <4>2. CASE b[1] = f
        BY <3>2, <3>4, <4>2 DEF RemapCandidate, InPlaceIn
      <4>3. CASE b[1] # f /\ locs[b].id = CandidateID(c) /\ locs[b].off # -1
        <5>1. locs'[b] = [locs[b] EXCEPT !.id = FileIDOf(f)]
          BY <3>2, <4>3 DEF RemapCandidate
        <5>2. locs'[b].id = FileIDOf(f)
          BY <4>1, <5>1 DEF Location
        <5> QED
          BY <3>4, <5>2
      <4>4. CASE b[1] # f /\ ~(locs[b].id = CandidateID(c) /\ locs[b].off # -1)
        <5>1. locs'[b] = locs[b]
          BY <3>2, <4>4 DEF RemapCandidate
        <5>2. locs[b].id \in FileID
          BY <4>1 DEF Location
        <5> QED
          BY <1>3, <3>5, <3>6, <4>4, <5>1, <5>2
      <4> QED
        BY <4>2, <4>3, <4>4
    <3> QED
      BY <3>6
  <2> QED
    BY <1>2, <2>1, <2>2 DEF RenameMisnamedFiles, RenameFails, integrityVars
<1> QED
  BY <1>1, <1>4
     DEF PlanInv, SourceInv, MissingInv, HealthInv, CmdInv, RepairPhases

\* The other steps leave the plan alone or end it.
LEMMA PlanOtherStep ==
    ASSUME IInv, PlanInv,
           \/ HandleVerifyCommand \/ HandleRepairCommand \/ Interrupt \/ Crash \/ Rerun
           \/ UNCHANGED vars
           \/ /\ RepairNext /\ ~RenameMisnamedFiles /\ UNCHANGED <<cancelled, envVars>>
    PROVE  PlanInv'
<1>0. CASE HandleVerifyCommand
  <2>1. pc' = "exit"
    BY <1>0 DEF HandleVerifyCommand, Exit
  <2> QED
    BY <2>1 DEF PlanInv, SourceInv, MissingInv, HealthInv, CmdInv,
                PlanPhases, VerifyPhases, RepairPhases
<1>1. CASE HandleRepairCommand
  <2>1. /\ pc = "dispatch" /\ pc' \in {"exit", "rename"}
        /\ UNCHANGED <<disk, locs, cmd>> /\ cmd = "repair"
    BY <1>1 DEF HandleRepairCommand, Exit, integrityVars, envVars
  <2> QED
    BY <2>1 DEF PlanInv, SourceInv, MissingInv, HealthInv, CmdInv,
                Present, PlanPhases, VerifyPhases, RepairPhases
<1>2. CASE Interrupt \/ UNCHANGED vars
  <2>1. UNCHANGED <<pc, disk, locs, damage, faults, cmd, exitCode>>
    BY <1>2 DEF Interrupt, vars, integrityVars, envVars
  <2> QED
    BY <2>1 DEF PlanInv, SourceInv, MissingInv, HealthInv, CmdInv,
                Present, Healthy
<1>3. CASE Crash
  <2>1. pc' = "crashed"
    BY <1>3 DEF Crash
  <2> QED
    BY <2>1 DEF PlanInv, SourceInv, MissingInv, HealthInv, CmdInv,
                PlanPhases, VerifyPhases, RepairPhases
<1>4. CASE Rerun
  <2>1. pc' = "init" /\ \A b \in Blocks : locs'[b].off = -1
    BY <1>4 DEF Rerun, NewRun, NotFound
  <2> QED
    BY <2>1 DEF PlanInv, SourceInv, MissingInv, HealthInv, CmdInv,
                RepairPhases
<1>5. CASE RepairNext /\ ~RenameMisnamedFiles /\ UNCHANGED <<cancelled, envVars>>
  <2>1. /\ pc \in RepairPhases
        /\ pc' \in {"chunk", "finish", "install", "close", "exit"}
        /\ pc' = "chunk" => pc \in {"plan", "chunk"} /\ UNCHANGED <<disk, locs>>
    BY <1>5 DEF RepairNext, PlanRepair, ExecuteChunk, ExecuteChunkFails, WriteChunkFails,
                ChunksDone, FinishRebuiltFile, FinishStart, FinishTruncate, FinishSync, FinishHash,
                FinishFails, FinishStep, FinishJoin, Install, InstallFails, Close, Fail, Exit,
                RepairPhases, integrityVars
  <2>2. cmd = "repair" /\ cmd' = cmd
    BY <1>5, <2>1 DEF PlanInv, CmdInv, envVars
  <2>3. SourceInv'
    BY <2>1 DEF PlanInv, SourceInv, Present, PlanPhases, VerifyPhases, RepairPhases
  <2> QED
    BY <2>1, <2>2, <2>3
       DEF PlanInv, MissingInv, HealthInv, CmdInv, RepairPhases
<1> QED
  BY <1>0, <1>1, <1>2, <1>3, <1>4, <1>5

\* What the repair plan rests on holds in every state.
LEMMA PlanInvariant ==
    ASSUME NoProtectedCandidate
    PROVE  Spec => []PlanInv
<1>1. Init => PlanInv
  <2> SUFFICES ASSUME Init PROVE PlanInv
    OBVIOUS
  <2>1. pc = "init" /\ \A b \in Blocks : locs[b].off = -1
    BY DEF Init, NewRun, NotFound
  <2> QED
    BY <2>1 DEF PlanInv, SourceInv, MissingInv, HealthInv, CmdInv,
                RepairPhases
<1>2. IInv /\ PlanInv /\ [Next]_vars => PlanInv'
  BY PlanVerifyStep, PlanRenameStep, PlanOtherStep
     DEF Next, ProgramNext, Stopped
<1> QED
  BY <1>1, <1>2, Inductive, PTL DEF Spec

(***************************************************************************)
(* What a verification says of the blocks                                  *)
(***************************************************************************)

\* No block that is nowhere on the disk is ever given a location.
LostInv ==
    pc \in VerifyPhases \cup {"dispatch"} =>
        \A b \in Blocks : locs[b].off # -1 => b \notin LostBlocks

\* Unless a read failed, the scan skips only candidates that are not there and
\* candidates that are copies of protected files.
ResolvedInv ==
    (faults = 0 /\ pc \in {"protected", "scan"}) =>
        \A c \in resolved : disk[c] = Absent \/ \E f \in Protected : disk[c] = Content[f]

\* Unless a read failed, only blocks that the scan may miss are unlocated.
SureInv ==
    (faults = 0 /\ pc \in {"post", "dispatch"}) =>
        \A b \in Blocks : locs[b].off = -1 => b \in UnsureBlocks

TruthInv == LostInv /\ ResolvedInv /\ SureInv /\ VerifyExitTruthful

\* More files have more matches.
LEMMA MatchesMono ==
    ASSUME NEW d, NEW b, NEW few, NEW many, few \subseteq many
    PROVE  Matches(d, few, b) \subseteq Matches(d, many, b)
  BY DEF Matches

\* What could be known of the blocks depends on the disk alone.
LEMMA SameDisk ==
    ASSUME disk' = disk
    PROVE  UNCHANGED <<LostBlocks, UnsureBlocks>>
<1>1. \A f : Healthy(f)' = Healthy(f)
  BY DEF Healthy
<1>2. UNCHANGED <<PresentFiles, ScannedFiles>>
  BY <1>1 DEF PresentFiles, ScannedFiles
<1> QED
  BY <1>1, <1>2 DEF LostBlocks, UnsureBlocks

\* The files that are scanned in any case are scanned, and only files that are
\* there are.
LEMMA SourcesBetween ==
    ASSUME NoProtectedCandidate, IInv, PlanInv, TruthInv, pc = "scan"
    PROVE  LET sources == ScanSources(disk, damage, resolved) IN
           /\ sources \subseteq PresentFiles
           /\ faults = 0 => ScannedFiles \subseteq sources
<1>1. \A f \in Protected : damage[f] = "missing" <=> disk[f] = Absent
  BY DEF PlanInv, MissingInv
<1>2. \A f \in Protected : damage[f] = "none" => Healthy(f)
  BY DEF IInv, DamageInv
<1>3. faults = 0 =>
         \A c \in resolved : disk[c] = Absent \/ \E f \in Protected : disk[c] = Content[f]
  BY DEF TruthInv, ResolvedInv
<1>4. {g \in Protected : damage[g] \notin {"missing", "none"}}
         \subseteq {g \in Protected : disk[g] # Absent}
  BY <1>1
<1>5. {g \in Protected : disk[g] # Absent /\ ~Healthy(g)}
         \subseteq {g \in Protected : damage[g] \notin {"missing", "none"}}
  BY <1>1, <1>2
<1>6. faults = 0 =>
         {n \in candidateFiles \ Protected :
             disk[n] # Absent /\ \A f \in Protected : disk[n] # Content[f]}
         \subseteq {n \in candidateFiles \ (resolved \cup Protected) : disk[n] # Absent}
  BY <1>3
<1> QED
  BY <1>4, <1>5, <1>6 DEF ScanSources, PresentFiles, ScannedFiles

\* The phases of the verification locate only blocks that some file has and,
\* without I/O errors, every block that they are sure to find.
LEMMA TruthVerifyStep ==
    ASSUME NoProtectedCandidate, IInv, PlanInv, TruthInv,
           VerifyNext, UNCHANGED <<cancelled, pipelineVars, envVars>>
    PROVE  TruthInv'
<1> USE DEF integrityVars
<1>0. /\ disk' = disk /\ pc \in VerifyPhases
      /\ pc' \in VerifyPhases \cup {"dispatch"} \/ (pc' = "exit" /\ exitCode' = 4)
  BY DEF VerifyNext, InitFileIntegrity, CheckFileExistence, VerifyFails, Exit, VerifyPhases,
         PrescanCandidateMatches, PrescanProtectedMatches, Scan, PostScanVerify
<1>a. LostBlocks' = LostBlocks /\ UnsureBlocks' = UnsureBlocks
  BY <1>0, SameDisk
<1>b. VerifyExitTruthful'
  BY <1>0 DEF VerifyExitTruthful, VerifyPhases
<1>c. \A b \in Blocks : locs[b].off # -1 => b \notin LostBlocks
  BY <1>0 DEF TruthInv, LostInv
<1>d. faults \in Nat /\ (faults' = 0 => faults = 0)
  <2>1. faults \in 0..MaxFaults
    BY DEF IInv, TypeOK
  <2>2. faults \in Nat
    BY <2>1, BoundAssumption
  <2>3. faults' = faults \/ faults' = faults + 1
    BY DEF VerifyNext, InitFileIntegrity, CheckFileExistence, PrescanCandidateMatches,
           PrescanProtectedMatches, Scan, PostScanVerify, VerifyFails, Charge, Fault
  <2> QED
    BY <2>2, <2>3
<1>1. CASE InitFileIntegrity
  <2>1. pc' = "exist" /\ \A b \in Blocks : locs'[b].off = -1
    BY <1>1 DEF InitFileIntegrity, NotFound
  <2> QED
    BY <1>b, <2>1 DEF TruthInv, LostInv, ResolvedInv, SureInv
<1>2. CASE CheckFileExistence
  <2>1. pc' = "candidates" /\ locs' = locs
    BY <1>2 DEF CheckFileExistence
  <2> QED
    BY <1>a, <1>b, <1>c, <2>1 DEF TruthInv, LostInv, ResolvedInv, SureInv
<1>3. CASE PrescanCandidateMatches
  <2>1. pc' = "protected"
    BY <1>3 DEF PrescanCandidateMatches
  <2>2. PICK bad, atOpen, source, Hit :
           /\ Hit = {f \in Protected : PerfectMatches(f, bad) # {}}
           /\ \A f \in Hit : source[f] \in PerfectMatches(f, bad)
           /\ locs' = Relocate(Hit, [f \in Hit |-> CandidateID(source[f])])
           /\ resolved' =
                IF MissingFiles = {} THEN {}
                ELSE {c \in candidateFiles : disk[c] = Absent}
                     \cup (IF atOpen THEN bad ELSE {})
                     \cup UNION {PerfectMatches(f, bad) : f \in Hit}
           /\ Charge(bad)
    BY <1>3 DEF PrescanCandidateMatches
  <2>3. \A f \in Hit : f \in Protected /\ \E c \in candidateFiles : disk[c] = Content[f]
    BY <2>2 DEF PerfectMatches
  <2>4. ASSUME NEW b \in Blocks, locs'[b].off # -1 PROVE b \notin LostBlocks
    <3>1. CASE b[1] \in Hit
      BY <2>3, <3>1 DEF LostBlocks
    <3>2. CASE b[1] \notin Hit
      BY <1>c, <2>2, <2>4, <3>2 DEF Relocate
    <3> QED
      BY <3>1, <3>2
  <2>5. faults' = 0 => bad = {}
    <3>1. Charge(bad) /\ faults \in Nat
      BY <1>d, <2>2
    <3>2. bad # {} => faults' = faults + 1
      BY <3>1 DEF Charge
    <3> QED
      BY <3>1, <3>2
  <2>6. ASSUME faults' = 0, NEW c \in resolved'
        PROVE  disk[c] = Absent \/ \E f \in Protected : disk[c] = Content[f]
    BY <2>2, <2>5, <2>6 DEF PerfectMatches
  <2> QED
    BY <1>0, <1>a, <1>b, <2>1, <2>4, <2>6 DEF TruthInv, LostInv, ResolvedInv, SureInv
<1>4. CASE PrescanProtectedMatches
  <2>1. pc = "protected" /\ pc' = "scan" /\ resolved' = resolved
    BY <1>4 DEF PrescanProtectedMatches
  <2>2. PICK bad, Intact :
           /\ Intact = {f \in Protected \ bad : damage[f] # "missing" /\ disk[f] = Content[f]}
           /\ locs' = Relocate(Intact, [f \in Intact |-> FileIDOf(f)])
    BY <1>4 DEF PrescanProtectedMatches
  <2>3. ASSUME NEW b \in Blocks, locs'[b].off # -1 PROVE b \notin LostBlocks
    <3>1. CASE b[1] \in Intact
      BY <2>2, <3>1 DEF LostBlocks, Healthy
    <3>2. CASE b[1] \notin Intact
      BY <1>c, <2>2, <2>3, <3>2 DEF Relocate
    <3> QED
      BY <3>1, <3>2
  <2>4. ResolvedInv'
    BY <1>0, <1>d, <2>1 DEF TruthInv, ResolvedInv
  <2> QED
    BY <1>a, <1>b, <2>1, <2>3, <2>4 DEF TruthInv, LostInv, SureInv
<1>5. CASE Scan
  <2> DEFINE sources == ScanSources(disk, damage, resolved)
  <2>1. pc = "scan" /\ pc' = "post" /\ locs' \in ScanOutcomes(disk, sources, locs)
    BY <1>5 DEF Scan
  <2>2. sources \subseteq PresentFiles /\ (faults = 0 => ScannedFiles \subseteq sources)
    BY <2>1, SourcesBetween
  <2>3. ASSUME NEW b \in Blocks, locs'[b].off # -1 PROVE b \notin LostBlocks
    <3>1. CASE locs[b].off # -1
      BY <1>c, <3>1
    <3>2. CASE locs[b].off = -1
      <4>1. locs'[b] \in Matches(disk, sources, b)
        BY <2>1, <2>3, <3>2, ScanOutcomeFacts
      <4>2. locs'[b] \in Matches(disk, PresentFiles, b)
        BY <2>2, <4>1, MatchesMono
      <4> QED
        BY <4>2 DEF LostBlocks
    <3> QED
      BY <3>1, <3>2
  <2>4. ASSUME faults' = 0, NEW b \in Blocks, locs'[b].off = -1 PROVE b \in UnsureBlocks
    <3>1. locs[b].off = -1 /\ MayMiss(disk, sources, b)
      BY <2>1, <2>4, ScanOutcomeFacts
    <3>2. b[1] \in Protected /\ ~Healthy(b[1])
      BY <1>d, <2>1, <2>4, <3>1, BlockFacts DEF PlanInv, HealthInv
    <3>3. \A loc \in Matches(disk, ScannedFiles, b) : ~OnGrid(loc.off)
      <4>1. Matches(disk, ScannedFiles, b) \subseteq Matches(disk, sources, b)
        BY <1>d, <2>2, <2>4, MatchesMono
      <4> QED
        BY <3>1, <4>1 DEF MayMiss
    <3> QED
      BY <3>2, <3>3 DEF UnsureBlocks
  <2> QED
    BY <1>a, <1>b, <2>1, <2>3, <2>4 DEF TruthInv, LostInv, ResolvedInv, SureInv
<1>6. CASE PostScanVerify
  <2>1. pc = "post" /\ pc' = "dispatch" /\ locs' = locs
    BY <1>6 DEF PostScanVerify
  <2>2. SureInv'
    BY <1>a, <1>d, <2>1 DEF TruthInv, SureInv
  <2> QED
    BY <1>a, <1>b, <1>c, <2>1, <2>2 DEF TruthInv, LostInv, ResolvedInv
<1>7. CASE VerifyFails
  <2>1. pc' = "exit"
    BY <1>7 DEF VerifyFails, Exit
  <2> QED
    BY <1>b, <2>1 DEF TruthInv, LostInv, ResolvedInv, SureInv, VerifyPhases
<1> QED
  BY <1>1, <1>2, <1>3, <1>4, <1>5, <1>6, <1>7 DEF VerifyNext

\* verify says 0 when, and only when, nothing is counted as damaged; the blocks
\* it counts are all that no file has, and none that it is sure to find.
LEMMA TruthVerifyCommandStep ==
    ASSUME IInv, PlanInv, TruthInv, HandleVerifyCommand
    PROVE  TruthInv'
<1>1. /\ pc = "dispatch" /\ pc' = "exit" /\ UNCHANGED <<disk, faults, cmd, parityShards>>
      /\ exitCode' = IF ~RepairNeeded THEN 0 ELSE IF RepairPossible THEN 1 ELSE 2
  BY DEF HandleVerifyCommand, Exit, envVars
<1>2. ASSUME faults = 0, \A f \in Protected : Healthy(f) PROVE ~RepairNeeded
  <2>1. \A f \in Protected : /\ damage[f] = "none"
                             /\ \A b \in Blocks : b[1] = f => locs[b].off # -1
    BY <1>1, <1>2 DEF PlanInv, HealthInv
  <2>2. UnusableData = {}
    BY <2>1, BlockFacts DEF UnusableData
  <2>3. RenamesNeeded = {}
    BY <1>1, <2>1 DEF IInv, DamageInv, RebuildDamage, RenamesNeeded
  <2>4. FilesNeedingRebuild = {}
    BY <2>1 DEF FilesNeedingRebuild, RebuildDamage
  <2> QED
    BY <2>2, <2>3, <2>4 DEF RepairNeeded
<1>3. ~RepairNeeded => \A f \in Protected : Healthy(f)
  BY <1>1, NothingToRepair
<1>4. parityShards.count \in Nat
  <2>1. parityShards.count \in 0..MaxParity
    BY DEF IInv, TypeOK, ParityShards
  <2> QED
    BY <2>1, BoundAssumption
<1>5. /\ IsFiniteSet(UnusableData) /\ IsFiniteSet(UnsureBlocks) /\ IsFiniteSet(LostBlocks)
      /\ LostBlocks \subseteq UnusableData
      /\ faults = 0 => UnusableData \subseteq UnsureBlocks
  <2>1. UnusableData \subseteq Blocks /\ UnsureBlocks \subseteq Blocks /\ LostBlocks \subseteq Blocks
    BY DEF UnusableData, UnsureBlocks, LostBlocks
  <2>2. IsFiniteSet(UnusableData) /\ IsFiniteSet(UnsureBlocks) /\ IsFiniteSet(LostBlocks)
    BY <2>1, BlocksAssumption, FS_Subset
  <2>3. LostBlocks \subseteq UnusableData
    BY <1>1, <2>1 DEF TruthInv, LostInv, UnusableData
  <2>4. faults = 0 => UnusableData \subseteq UnsureBlocks
    BY <1>1 DEF TruthInv, SureInv, UnusableData
  <2> QED
    BY <2>2, <2>3, <2>4
<1>6. /\ Cardinality(UnusableData) \in Nat /\ Cardinality(UnsureBlocks) \in Nat
      /\ Cardinality(LostBlocks) \in Nat
      /\ Cardinality(LostBlocks) <= Cardinality(UnusableData)
      /\ faults = 0 => Cardinality(UnusableData) <= Cardinality(UnsureBlocks)
  BY <1>5, FS_Subset, FS_CardinalityType
<1>7. VerifyExitTruthful'
  <2>1. (\A f \in Protected : Healthy(f))' = (\A f \in Protected : Healthy(f))
    BY <1>1 DEF Healthy
  <2>2. LostBlocks' = LostBlocks /\ UnsureBlocks' = UnsureBlocks
    BY <1>1, SameDisk
  <2>3. exitCode' = 1 => parityShards.count >= Cardinality(LostBlocks)
    BY <1>1, <1>4, <1>6 DEF RepairPossible
  <2>4. (exitCode' = 2 /\ faults = 0) => parityShards.count < Cardinality(UnsureBlocks)
    BY <1>1, <1>4, <1>6 DEF RepairPossible
  <2>5. faults = 0 => (exitCode' = 0 <=> \A f \in Protected : Healthy(f))
    BY <1>1, <1>2, <1>3
  <2> QED
    BY <1>1, <2>1, <2>2, <2>3, <2>4, <2>5 DEF VerifyExitTruthful
<1> QED
  BY <1>1, <1>7 DEF TruthInv, LostInv, ResolvedInv, SureInv, VerifyPhases

\* No other step is part of a verification.
LEMMA TruthOtherStep ==
    ASSUME PlanInv, TruthInv,
           \/ HandleRepairCommand \/ Interrupt \/ Crash \/ Rerun \/ UNCHANGED vars
           \/ RepairNext /\ UNCHANGED <<cancelled, envVars>>
    PROVE  TruthInv'
<1>1. CASE Interrupt \/ UNCHANGED vars
  <2>1. UNCHANGED <<pc, disk, locs, resolved, faults, cmd, exitCode, parityShards>>
    BY <1>1 DEF Interrupt, vars, integrityVars, envVars
  <2>2. LostBlocks' = LostBlocks /\ UnsureBlocks' = UnsureBlocks
    BY <2>1, SameDisk
  <2>3. \A f : Healthy(f)' = Healthy(f)
    BY <2>1 DEF Healthy
  <2>4. LostInv' /\ ResolvedInv' /\ SureInv'
    BY <2>1, <2>2 DEF TruthInv, LostInv, ResolvedInv, SureInv
  <2>5. VerifyExitTruthful'
    BY <2>1, <2>2, <2>3 DEF TruthInv, VerifyExitTruthful
  <2> QED
    BY <2>4, <2>5 DEF TruthInv
<1>2. CASE HandleRepairCommand \/ (RepairNext /\ UNCHANGED <<cancelled, envVars>>)
  <2>1. pc' \in RepairPhases \cup {"exit"} /\ pc \in RepairPhases \cup {"dispatch"}
    <3>1. CASE HandleRepairCommand
      BY <3>1 DEF HandleRepairCommand, Exit, RepairPhases
    <3>2. CASE RenameMisnamedFiles \/ PlanRepair \/ ExecuteChunk
      BY <3>2 DEF RenameMisnamedFiles, PlanRepair, ExecuteChunk, Exit, RepairPhases
    <3>3. CASE ExecuteChunkFails \/ WriteChunkFails \/ ChunksDone
      BY <3>3 DEF ExecuteChunkFails, WriteChunkFails, ChunksDone, Fail, RepairPhases
    <3>4. CASE FinishRebuiltFile
      BY <3>4 DEF FinishRebuiltFile, FinishStart, FinishTruncate, FinishSync, FinishHash,
                  FinishFails, FinishStep, RepairPhases
    <3>5. CASE FinishJoin \/ Install \/ InstallFails \/ Close
      BY <3>5 DEF FinishJoin, Install, InstallFails, Close, Fail, Exit, RepairPhases
    <3> QED
      BY <1>2, <3>1, <3>2, <3>3, <3>4, <3>5 DEF RepairNext
  <2>2. cmd' = "repair"
    BY <1>2, <2>1 DEF HandleRepairCommand, PlanInv, CmdInv, envVars, RepairNext,
       RenameMisnamedFiles, PlanRepair, ExecuteChunk, ExecuteChunkFails, WriteChunkFails,
       ChunksDone, FinishRebuiltFile, FinishStart, FinishTruncate, FinishSync, FinishHash,
       FinishFails, FinishStep, FinishJoin, Install, InstallFails, Close
  <2> QED
    BY <2>1, <2>2
       DEF TruthInv, LostInv, ResolvedInv, SureInv, VerifyExitTruthful, VerifyPhases, RepairPhases
<1>3. CASE Crash
  <2>1. pc' = "crashed"
    BY <1>3 DEF Crash
  <2> QED
    BY <2>1 DEF TruthInv, LostInv, ResolvedInv, SureInv, VerifyExitTruthful, VerifyPhases
<1>4. CASE Rerun
  <2>1. pc' = "init" /\ \A b \in Blocks : locs'[b].off = -1
    BY <1>4 DEF Rerun, NewRun, NotFound
  <2> QED
    BY <2>1 DEF TruthInv, LostInv, ResolvedInv, SureInv, VerifyExitTruthful
<1> QED
  BY <1>1, <1>2, <1>3, <1>4

\* The exit status of verify is true of the disk, for every set and every disk
\* on which no protected file is given as a candidate (VerifyScans,
\* handleVerifyCommand).  1 is said only if there are at least as many recovery
\* blocks as blocks that no file has, I/O errors or not.  If no I/O error
\* happened and the verification ended, 0 is said exactly if every file is
\* intact, and 2 only if the recovery blocks are fewer than the blocks that the
\* scan is not sure to find.
THEOREM VerifyTellsTheTruth ==
    ASSUME NoProtectedCandidate
    PROVE  Spec => []VerifyExitTruthful
<1>1. Init => TruthInv
  <2> SUFFICES ASSUME Init PROVE TruthInv
    OBVIOUS
  <2>1. pc = "init" /\ \A b \in Blocks : locs[b].off = -1
    BY DEF Init, NewRun, NotFound
  <2> QED
    BY <2>1 DEF TruthInv, LostInv, ResolvedInv, SureInv, VerifyExitTruthful
<1>2. IInv /\ PlanInv /\ TruthInv /\ [Next]_vars => TruthInv'
  BY TruthVerifyStep, TruthVerifyCommandStep, TruthOtherStep DEF Next, ProgramNext, Stopped
<1>3. TruthInv => VerifyExitTruthful
  BY DEF TruthInv
<1> QED
  BY <1>1, <1>2, <1>3, Inductive, PlanInvariant, PTL DEF Spec

\* A rebuild never opens a path that the renames emptied: every located block
\* is in a file that exists (renameMisnamedFiles, buildFileIDToFilenameMap).
THEOREM RebuildSourcesExist ==
    ASSUME NoProtectedCandidate
    PROVE  Spec => []SourcesExist
<1>1. PlanInv => SourcesExist
  BY DEF PlanInv, SourceInv, SourcesExist, SourceMissing, Located, SourceName, Present,
         PlanPhases
<1> QED
  BY <1>1, PlanInvariant, PTL

(***************************************************************************)
(* Reading back what was found                                             *)
(***************************************************************************)

\* The sets and disks on which a located block always reads true: besides
\* NoProtectedCandidate, a file that ends in a padded block is not followed by
\* extra bytes on disk, and a candidate that is a copy of a protected file
\* cannot be renamed over something else.  The runs trailing_bytes and
\* rename_overwrites show what happens on other disks.
CleanSet ==
    /\ NoProtectedCandidate
    /\ \A f \in Protected :
          \/ Len(Content[f]) % sliceByteCount = 0
          \/ \A d \in DiskStates[f] : d = Absent \/ Len(d) <= Len(Content[f])
    /\ \A f \in Protected, c \in candidateFiles :
          Content[f] \in DiskStates[c] => DiskStates[f] \subseteq {Absent, Content[f]}

OrigInv == \A n \in Names : orig[n] \in DiskStates[n]

\* The cells of the file name from off on are those of block b.
ReadsAs(d, loc, b) ==
    \A k \in 1..sliceByteCount : Cell(d[loc.id.name], loc.off + k) = Block(b)[k]

\* A located block reads as itself, while the disk may still be read for it.
ReadInv ==
    pc \in PlanPhases => \A b \in Blocks : locs[b].off # -1 => ReadsAs(disk, locs[b], b)

\* A block at its own offset in a copy of its file reads as itself.
LEMMA InPlaceReads ==
    ASSUME NEW d, NEW id, NEW b \in Blocks, d[id.name] = Content[b[1]]
    PROVE  ReadsAs(d, InPlaceIn(id, b), b)
  BY SizeAssumption DEF ReadsAs, InPlaceIn, Block, ReadAt

\* What a clean set says about the disk at any time: only the names of files
\* that were missing or intact can be the target of a rename.
LEMMA CleanDisk ==
    ASSUME CleanSet, IInv, OrigInv
    PROVE  /\ \A f \in Protected :
                 \/ Len(Content[f]) % sliceByteCount = 0
                 \/ disk[f] = Absent
                 \/ Len(disk[f]) <= Len(Content[f])
           /\ \A f \in Protected, c \in candidateFiles :
                 disk[c] = Content[f] => disk[f] \in {Absent, Content[f]}
<1>1. ASSUME NEW f \in Protected, Len(Content[f]) % sliceByteCount # 0, disk[f] # Absent
      PROVE  Len(disk[f]) <= Len(Content[f])
  <2>1. CASE disk[f] = Content[f]
    BY <2>1, ProtectedFacts
  <2>2. CASE disk[f] = orig[f]
    <3>1. orig[f] \in DiskStates[f]
      BY ProtectedFacts DEF OrigInv
    <3> QED
      BY <1>1, <2>2, <3>1 DEF CleanSet
  <2> QED
    BY <2>1, <2>2 DEF IInv, NeverTorn
<1>2. ASSUME NEW f \in Protected, NEW c \in candidateFiles, disk[c] = Content[f]
      PROVE  disk[f] \in {Absent, Content[f]}
  <2>1. c \in candidateFiles \ Protected /\ disk[c] # Absent
    BY <1>2, ProtectedFacts DEF CleanSet, NoProtectedCandidate
  <2>2. orig[c] = Content[f]
    BY <1>2, <2>1 DEF IInv, CandidateMovedNotLost
  <2>3. Content[f] \in DiskStates[c] /\ orig[f] \in DiskStates[f]
    BY <2>2, ProtectedFacts, NamesAssumption DEF OrigInv
  <2>4. orig[f] \in {Absent, Content[f]}
    BY <2>3 DEF CleanSet
  <2> QED
    BY <2>4 DEF IInv, NeverTorn
<1> QED
  BY <1>1, <1>2

\* Where the scan finds a block, repair's reads find it too: the cells that a
\* partial window takes for zero are past the end of the file.
LEMMA MatchReads ==
    ASSUME CleanSet, IInv, OrigInv, NEW id, Present(disk, id),
           NEW off \in Nat, NEW b \in Blocks, MatchesAt(disk, id, off, b)
    PROVE  ReadsAs(disk, [id |-> id, off |-> off], b)
<1> DEFINE s == disk[id.name]
<1>1. s \in Seq(Byte)
  BY ProtectedFacts, NamesAssumption DEF Present, IInv, TypeOK, FileContent
<1>2. DOMAIN s = 1..Len(s) /\ Len(s) \in Nat
  BY <1>1
<1> SUFFICES ASSUME NEW k \in 1..sliceByteCount PROVE Cell(s, off + k) = Block(b)[k]
  BY DEF ReadsAs
<1>3. CASE FullWindow(disk, id, off, b)
  BY <1>3 DEF FullWindow, ReadAt
<1>4. CASE PartialWindow(disk, id, off, b)
  <2> DEFINE n == PartialLength(disk, id)
  <2>1. /\ n % sliceByteCount # 0
        /\ Block(b) = [j \in 1..sliceByteCount |-> IF off + j <= n THEN Cell(s, off + j) ELSE 0]
    BY <1>4 DEF PartialWindow
  <2>2. Block(b)[k] = IF off + k <= n THEN Cell(s, off + k) ELSE 0
    BY <2>1
  <2>3. n \in Nat /\ Len(s) <= n
    <3>1. CASE id.kind = "file"
      <4>1. n = Len(Content[id.name]) /\ id.name \in Protected /\ s # Absent
        BY <3>1 DEF Present, PartialLength
      <4> QED
        BY <2>1, <4>1, CleanDisk, ProtectedFacts
    <3>2. CASE id.kind # "file"
      BY <1>2, <3>2 DEF PartialLength
    <3> QED
      BY <3>1, <3>2
  <2>4. CASE off + k <= n
    BY <2>2, <2>4
  <2>5. CASE ~(off + k <= n)
    <3>1. off + k \notin DOMAIN s
      BY <1>2, <2>3, <2>5, SizeAssumption
    <3> QED
      BY <2>2, <2>5, <3>1 DEF Cell
  <2> QED
    BY <2>4, <2>5
<1> QED
  BY <1>3, <1>4 DEF MatchesAt

\* The phases of the verification locate only blocks that can be read back.
LEMMA ReadVerifyStep ==
    ASSUME CleanSet, IInv, PlanInv, OrigInv, ReadInv,
           VerifyNext, UNCHANGED <<cancelled, pipelineVars, envVars>>
    PROVE  ReadInv'
<1> USE DEF integrityVars, envVars
<1>0. disk' = disk /\ pc \in PlanPhases
  BY DEF VerifyNext, InitFileIntegrity, CheckFileExistence, VerifyFails, PrescanCandidateMatches,
         PrescanProtectedMatches, Scan, PostScanVerify, PlanPhases, VerifyPhases
<1> SUFFICES ASSUME NEW b \in Blocks, pc' \in PlanPhases, locs'[b].off # -1
             PROVE  ReadsAs(disk, locs'[b], b)
  BY <1>0 DEF ReadInv, ReadsAs
<1>1. locs[b].off # -1 => ReadsAs(disk, locs[b], b)
  BY <1>0 DEF ReadInv
<1>2. CASE InitFileIntegrity
  BY <1>2 DEF InitFileIntegrity, NotFound
<1>3. CASE CheckFileExistence \/ PostScanVerify
  BY <1>1, <1>3 DEF CheckFileExistence, PostScanVerify
<1>4. CASE PrescanCandidateMatches
  <2>1. PICK bad, source, Hit :
           /\ Hit = {f \in Protected : PerfectMatches(f, bad) # {}}
           /\ \A f \in Hit : source[f] \in PerfectMatches(f, bad)
           /\ locs' = Relocate(Hit, [f \in Hit |-> CandidateID(source[f])])
    BY <1>4 DEF PrescanCandidateMatches
  <2>2. CASE b[1] \in Hit
    <3>1. disk[CandidateID(source[b[1]]).name] = Content[b[1]]
      BY <2>1, <2>2 DEF PerfectMatches, CandidateID
    <3>2. locs'[b] = InPlaceIn(CandidateID(source[b[1]]), b)
      BY <2>1, <2>2 DEF Relocate
    <3> QED
      BY <3>1, <3>2, InPlaceReads
  <2>3. CASE b[1] \notin Hit
    BY <1>1, <2>1, <2>3 DEF Relocate
  <2> QED
    BY <2>2, <2>3
<1>5. CASE PrescanProtectedMatches
  <2>1. PICK bad, Intact :
           /\ Intact = {f \in Protected \ bad : damage[f] # "missing" /\ disk[f] = Content[f]}
           /\ locs' = Relocate(Intact, [f \in Intact |-> FileIDOf(f)])
    BY <1>5 DEF PrescanProtectedMatches
  <2>2. CASE b[1] \in Intact
    <3>1. disk[FileIDOf(b[1]).name] = Content[b[1]]
      BY <2>1, <2>2 DEF FileIDOf
    <3>2. locs'[b] = InPlaceIn(FileIDOf(b[1]), b)
      BY <2>1, <2>2 DEF Relocate
    <3> QED
      BY <3>1, <3>2, InPlaceReads
  <2>3. CASE b[1] \notin Intact
    BY <1>1, <2>1, <2>3 DEF Relocate
  <2> QED
    BY <2>2, <2>3
<1>6. CASE Scan
  <2>1. pc = "scan" /\ locs' \in ScanOutcomes(disk, ScanSources(disk, damage, resolved), locs)
    BY <1>6 DEF Scan
  <2>2. \A id \in ScanSources(disk, damage, resolved) : Present(disk, id)
    BY <2>1 DEF ScanSources, Present, FileIDOf, CandidateID, PlanInv, MissingInv
  <2>3. CASE locs[b].off # -1
    BY <1>1, <2>1, <2>3, ScanOutcomeFacts
  <2>4. CASE locs[b].off = -1
    <3>1. locs'[b] \in Matches(disk, ScanSources(disk, damage, resolved), b)
      BY <2>1, <2>4, ScanOutcomeFacts
    <3>2. PICK id \in ScanSources(disk, damage, resolved) :
             \E o \in Nat : locs'[b] = [id |-> id, off |-> o] /\ MatchesAt(disk, id, o, b)
      <4>1. PICK id \in ScanSources(disk, damage, resolved) :
               \E o \in 0..(Len(disk[id.name]) + PartialLength(disk, id)) :
                   locs'[b] = [id |-> id, off |-> o] /\ MatchesAt(disk, id, o, b)
        BY <3>1 DEF Matches
      <4> QED
        BY <4>1
    <3> QED
      BY <2>2, <3>2, MatchReads
  <2> QED
    BY <2>3, <2>4
<1>7. CASE VerifyFails
  BY <1>7 DEF VerifyFails, Exit, PlanPhases, VerifyPhases
<1> QED
  BY <1>2, <1>3, <1>4, <1>5, <1>6, <1>7 DEF VerifyNext

\* On a clean set a rename fills a missing name or replaces equal bytes, so that
\* no location goes wrong.
LEMMA ReadRenameStep ==
    ASSUME CleanSet, IInv, PlanInv, OrigInv, ReadInv, RenameMisnamedFiles
    PROVE  ReadInv'
<1>1. pc = "rename" /\ pc \in PlanPhases
  BY DEF RenameMisnamedFiles, PlanPhases
<1>2. PICK f \in Protected : f = protectedFiles[idx]
  BY ProtectedFacts DEF RenameMisnamedFiles
<1>3. \A b \in Blocks : locs[b].off # -1 => ReadsAs(disk, locs[b], b) /\ Present(disk, locs[b].id)
  BY <1>1 DEF ReadInv, PlanInv, SourceInv
<1> SUFFICES ASSUME NEW b \in Blocks, locs'[b].off # -1 PROVE ReadsAs(disk', locs'[b], b)
  BY DEF ReadInv
<1>4. CASE disk' = disk /\ locs' = locs
  BY <1>3, <1>4
<1>5. CASE renameSource[f] # "" /\ RenameFile(f)
  <2>1. PICK c \in candidateFiles : c = renameSource[f]
    BY <1>5 DEF IInv, TypeOK
  <2>2. /\ disk[c] # Absent
        /\ disk' = [disk EXCEPT ![f] = disk[c], ![c] = Absent]
        /\ locs' = RemapCandidate(c, f)
    BY <1>5, <2>1 DEF RenameFile
  <2>3. c # f /\ disk \in [Names -> FileContent] /\ f \in Names /\ c \in Names
        /\ c \notin Protected /\ f \notin candidateFiles
    BY ProtectedFacts, NamesAssumption DEF CleanSet, NoProtectedCandidate, IInv, TypeOK
  <2>4. disk[c] = Content[f]
    BY <1>5, <2>1, <2>2 DEF IInv, RenameInv
  <2>5. disk'[f] = Content[f] /\ \A n \in Names \ {f, c} : disk'[n] = disk[n]
    BY <2>2, <2>3, <2>4
  <2>6. CASE b[1] = f
    <3>1. disk'[FileIDOf(f).name] = Content[b[1]]
      BY <2>5, <2>6 DEF FileIDOf
    <3>2. locs'[b] = InPlaceIn(FileIDOf(f), b)
      BY <2>2, <2>6 DEF RemapCandidate
    <3> QED
      BY <3>1, <3>2, InPlaceReads
  <2>7. CASE b[1] # f /\ locs[b].id = CandidateID(c) /\ locs[b].off # -1
    <3>1. locs'[b] = [locs[b] EXCEPT !.id = FileIDOf(f)] /\ locs[b] \in Location
      BY <2>2, <2>7 DEF RemapCandidate, IInv, GoodLocs
    <3>2. locs'[b].id.name = f /\ locs'[b].off = locs[b].off /\ locs[b].id.name = c
      BY <2>7, <3>1 DEF Location, FileIDOf, CandidateID
    <3> QED
      BY <1>3, <2>4, <2>5, <2>7, <3>2 DEF ReadsAs
  <2>8. CASE b[1] # f /\ ~(locs[b].id = CandidateID(c) /\ locs[b].off # -1)
    <3>1. locs'[b] = locs[b] /\ locs[b].off # -1 /\ locs[b].id # CandidateID(c)
      BY <2>2, <2>8 DEF RemapCandidate
    <3>2. Present(disk, locs[b].id) /\ locs[b].id \in FileID
      BY <1>3, <3>1 DEF IInv, GoodLocs, GoodID
    <3>3. locs[b].id.name # c
      BY <2>3, <3>1, <3>2 DEF Present, CandidateID, FileID
    <3>4. locs[b].id.name \in Names
      BY <3>2, ProtectedFacts, NamesAssumption DEF Present
    <3>5. disk'[locs[b].id.name] = disk[locs[b].id.name]
      <4>1. CASE locs[b].id.name = f
        BY <2>4, <2>5, <3>2, <4>1, CleanDisk DEF Present
      <4>2. CASE locs[b].id.name # f
        BY <2>5, <3>3, <3>4, <4>2
      <4> QED
        BY <4>1, <4>2
    <3> QED
      BY <1>3, <3>1, <3>5 DEF ReadsAs
  <2> QED
    BY <2>6, <2>7, <2>8
<1> QED
  BY <1>2, <1>4, <1>5 DEF RenameMisnamedFiles, RenameFails, integrityVars

\* The other steps change neither the disk nor the locations, or end the plan.
LEMMA ReadOtherStep ==
    ASSUME OrigInv, ReadInv,
           \/ HandleVerifyCommand \/ HandleRepairCommand \/ Interrupt \/ Crash \/ Rerun
           \/ UNCHANGED vars
           \/ /\ RepairNext /\ ~RenameMisnamedFiles /\ UNCHANGED <<cancelled, envVars>>
    PROVE  ReadInv'
<1> USE DEF integrityVars, envVars
<1>1. CASE HandleVerifyCommand \/ HandleRepairCommand \/ Interrupt \/ UNCHANGED vars
  <2>1. disk' = disk /\ locs' = locs /\ (pc' \in PlanPhases => pc \in PlanPhases)
    BY <1>1 DEF HandleVerifyCommand, HandleRepairCommand, Interrupt, vars, PlanPhases
  <2> QED
    BY <2>1 DEF ReadInv
<1>2. CASE Crash
  BY <1>2 DEF Crash, ReadInv, PlanPhases, VerifyPhases
<1>3. CASE Rerun
  BY <1>3 DEF Rerun, NewRun, NotFound, ReadInv
<1>4. CASE RepairNext /\ ~RenameMisnamedFiles /\ UNCHANGED <<cancelled, envVars>>
  <2>1. CASE PlanRepair \/ ExecuteChunk
    <3>1. disk' = disk /\ locs' = locs /\ pc \in PlanPhases
      BY <2>1 DEF PlanRepair, ExecuteChunk, PlanPhases
    <3> QED
      BY <3>1 DEF ReadInv
  <2>2. CASE \/ ExecuteChunkFails \/ WriteChunkFails \/ ChunksDone
             \/ FinishJoin \/ InstallFails \/ Install \/ Close
    <3>1. pc' \notin PlanPhases
      BY <2>2 DEF ExecuteChunkFails, WriteChunkFails, ChunksDone, FinishJoin, InstallFails, Install, Close,
                  Fail, Exit, PlanPhases, VerifyPhases
    <3> QED
      BY <3>1 DEF ReadInv
  <2>3. CASE FinishRebuiltFile
    <3>1. pc' \notin PlanPhases
      BY <2>3 DEF FinishRebuiltFile, FinishStart, FinishTruncate, FinishSync, FinishHash,
                  FinishFails, FinishStep, PlanPhases, VerifyPhases
    <3> QED
      BY <3>1 DEF ReadInv
  <2> QED
    BY <1>4, <2>1, <2>2, <2>3 DEF RepairNext
<1> QED
  BY <1>1, <1>2, <1>3, <1>4

\* Nothing changes what the disk held at first.
LEMMA OrigStep ==
    ASSUME [Next]_vars
    PROVE  orig' = orig
  BY DEF Next, ProgramNext, HandleVerifyCommand, HandleRepairCommand, Interrupt, Crash, Rerun,
         Stopped, vars, envVars

\* Blocks that were located can be read back, in every state.
LEMMA ReadInvariant ==
    ASSUME CleanSet
    PROVE  Spec => [](IInv /\ PlanInv /\ OrigInv /\ ReadInv)
<1>0. NoProtectedCandidate
  BY DEF CleanSet
<1>1. Init => OrigInv /\ ReadInv
  <2> SUFFICES ASSUME Init PROVE OrigInv /\ ReadInv
    OBVIOUS
  <2>1. \A b \in Blocks : locs[b].off = -1
    BY DEF Init, NewRun, NotFound
  <2> QED
    BY <2>1 DEF Init, OrigInv, ReadInv
<1>2. IInv /\ PlanInv /\ OrigInv /\ ReadInv /\ [Next]_vars => OrigInv' /\ ReadInv'
  <2> SUFFICES ASSUME IInv, PlanInv, OrigInv, ReadInv, [Next]_vars PROVE OrigInv' /\ ReadInv'
    OBVIOUS
  <2>1. OrigInv'
    BY OrigStep DEF OrigInv
  <2>2. ReadInv'
    BY ReadVerifyStep, ReadRenameStep, ReadOtherStep DEF Next, ProgramNext, Stopped
  <2> QED
    BY <2>1, <2>2
<1>3. Spec => []IInv
  BY <1>0, Inductive
<1>4. Spec => []PlanInv
  BY <1>0, PlanInvariant
<1> QED
  BY <1>1, <1>2, <1>3, <1>4, PTL DEF Spec

\* "repair never overwrites bytes it may still read" (repairPipeline): on every
\* clean set, all through the chunks, every located block reads as the block that
\* the parity was computed from.
THEOREM ReadsStayTrue ==
    ASSUME CleanSet
    PROVE  Spec => []LocatedBlocksReadable
<1>1. PlanInv /\ ReadInv => LocatedBlocksReadable
  BY DEF PlanInv, SourceInv, ReadInv, ReadsAs, LocatedBlocksReadable, Located, SourceName,
         ReadCell, Present, PlanPhases
<1> QED
  BY <1>1, ReadInvariant, PTL

(***************************************************************************)
(* A possible repair succeeds                                              *)
(***************************************************************************)

\* What may stop a repair that was planned.
Excused == faults > 0 \/ cancelled \/ parityShards.dependent

\* What was possible when the command was dispatched stays so: a rename finds
\* blocks and loses none.
PossibleInv == pc \in {"rename", "plan"} => RepairPossible

\* The cells of every block that the first chunks cover are written, and right.
ChunkInv ==
    pc = "chunk" =>
        /\ chunkIdx <= NumChunks
        /\ \A f \in Protected \ NeedsWrite : temp[f] = Absent
        /\ \A f \in NeedsWrite : chunkIdx > 0 =>
              /\ temp[f] # Absent
              /\ DOMAIN temp[f] = 1..((Shards(f) - 1) * sliceByteCount
                                        + MinOf(chunkIdx * ChunkSize, sliceByteCount))
              /\ \A p \in DOMAIN temp[f] :
                    ((p - 1) % sliceByteCount) + 1 <= chunkIdx * ChunkSize =>
                        temp[f][p] = Cell(Content[f], p)

\* A rebuilt file starts with its protected content, and is that content once
\* it is cut to length.
RebuiltInv ==
    pc = "finish" =>
        \A f \in Rebuilt :
            /\ finish[f] \in {"idle", "truncate"} =>
                  \A p \in 1..Len(Content[f]) : Cell(temp[f], p) = Content[f][p]
            /\ finish[f] \in {"sync", "hash"} => temp[f] = Content[f]
            /\ finish[f] = "err" => Excused

ErrInv == repairErr => Excused

RepairInv == PossibleInv /\ ChunkInv /\ RebuiltInv /\ ErrInv

\* Chunks of c cells: enough of them cover a block of n.
LEMMA ChunksCover ==
    ASSUME NEW n \in Nat \ {0}, NEW c \in Nat \ {0}
    PROVE  /\ (n + c - 1) \div c \in Nat \ {0}
           /\ ((n + c - 1) \div c) * c >= n
<1> DEFINE q == (n + c - 1) \div c
<1>1. n + c - 1 \in Nat /\ n + c - 1 >= c
  OBVIOUS
<1>2. q \in Nat /\ c * q <= n + c - 1 /\ n + c - 1 < c * q + c
  BY <1>1, DivBounds
<1> HIDE DEF q
<1>3. c * q >= n /\ c * q = q * c
  BY <1>2
<1>4. q # 0
  BY <1>2, <1>3
<1> QED
  BY <1>2, <1>3, <1>4 DEF q

\* The cells of a protected file lie in its blocks.
LEMMA ContentInShards ==
    ASSUME NEW f \in Protected
    PROVE  Len(Content[f]) <= Shards(f) * sliceByteCount
<1>1. Len(Content[f]) \in Nat \ {0}
  BY ContentAssumption
<1> QED
  BY <1>1, ChunksCover, SizeAssumption DEF Shards

\* Cell p of a file is cell k of its block q.
LEMMA CellOfBlock ==
    ASSUME NEW m \in Nat \ {0}, NEW p \in 1..(m * sliceByteCount)
    PROVE  /\ (p - 1) \div sliceByteCount \in 0..(m - 1)
           /\ ((p - 1) % sliceByteCount) + 1 \in 1..sliceByteCount
           /\ p = ((p - 1) \div sliceByteCount) * sliceByteCount + ((p - 1) % sliceByteCount) + 1
           /\ p <= (m - 1) * sliceByteCount + ((p - 1) % sliceByteCount) + 1
<1> DEFINE q == (p - 1) \div sliceByteCount
           r == (p - 1) % sliceByteCount
<1>1. p - 1 \in Nat /\ p - 1 < m * sliceByteCount /\ sliceByteCount \in Nat \ {0}
  BY SizeAssumption
<1>2. q \in 0..(m - 1)
  BY <1>1, DivUpper
<1>3. r \in 0..(sliceByteCount - 1) /\ p - 1 = sliceByteCount * q + r
  BY <1>1
<1> HIDE DEF q, r
<1>4. q * sliceByteCount <= (m - 1) * sliceByteCount
  BY <1>1, <1>2
<1>5. q * sliceByteCount = sliceByteCount * q /\ q * sliceByteCount \in Nat
      /\ (m - 1) * sliceByteCount \in Nat
  BY <1>1, <1>2
<1>6. r + 1 \in 1..sliceByteCount /\ p = q * sliceByteCount + r + 1
  BY <1>1, <1>3, <1>5
<1>7. p <= (m - 1) * sliceByteCount + r + 1
  BY <1>3, <1>4, <1>5, <1>6
<1> QED
  BY <1>2, <1>6, <1>7 DEF q, r

\* What executeChunk writes for a block, when all located blocks read true, is
\* the block.
LEMMA ShardCellTrue ==
    ASSUME ReadInv, pc = "chunk", chunkIdx \in Nat,
           NEW b \in Blocks, NEW k \in ChunkCells, NEW g
    PROVE  ShardCell(b, k, g) = Cell(Content[b[1]], b[2] * sliceByteCount + k)
<1>1. k \in 1..sliceByteCount
  BY ChunkCellsType
<1>2. Block(b)[k] = Cell(Content[b[1]], b[2] * sliceByteCount + k)
  BY <1>1 DEF Block, ReadAt
<1>3. \A a \in Located : ReadCell(a, k) = Block(a)[k]
  BY <1>1 DEF ReadInv, ReadsAs, Located, ReadCell, SourceName, PlanPhases
<1>4. k \notin GarbledCells
  BY <1>3 DEF GarbledCells
<1> QED
  BY <1>2, <1>3, <1>4 DEF ShardCell

\* Writing a chunk leaves the cells of the chunks so far right (writeChunk).
LEMMA ChunkWrite ==
    ASSUME IInv, ReadInv, ChunkInv, pc = "chunk", NEW f \in NeedsWrite, NEW g
    PROVE  LET w == WriteBlocks(f, g)
               end == MinOf((chunkIdx + 1) * ChunkSize, sliceByteCount)
           IN  /\ DOMAIN w = 1..((Shards(f) - 1) * sliceByteCount + end)
               /\ \A p \in DOMAIN w :
                     ((p - 1) % sliceByteCount) + 1 <= (chunkIdx + 1) * ChunkSize =>
                         w[p] = Cell(Content[f], p)
<1> DEFINE old == IF temp[f] = Absent THEN <<>> ELSE temp[f]
           end == MinOf((chunkIdx + 1) * ChunkSize, sliceByteCount)
           n == (Shards(f) - 1) * sliceByteCount + end
           b(p) == <<f, (p - 1) \div sliceByteCount>>
           k(p) == ((p - 1) % sliceByteCount) + 1
           w(p) == IF k(p) \in ChunkCells THEN ShardCell(b(p), k(p), g) ELSE Cell(old, p)
<1>0. f \in Protected
  BY DEF NeedsWrite
<1>1. chunkIdx \in Nat
  BY DEF IInv, TypeOK
<1>2. end \in 0..sliceByteCount
  BY <1>1, ChunkCellsType
<1>3. PICK c \in Nat \ {0} : c = ChunkSize
  BY ChunkSizeType
<1>4. chunkIdx * c \in Nat /\ (chunkIdx + 1) * c \in Nat /\ chunkIdx * c <= (chunkIdx + 1) * c
  BY <1>1
<1>5. WriteBlocks(f, g) = [p \in 1..n |-> w(p)]
  BY DEF WriteBlocks
<1>6. Shards(f) \in Nat \ {0} /\ sliceByteCount \in Nat \ {0}
  BY <1>0, ShardsType, SizeAssumption
<1>7. n \in Nat /\ n <= Shards(f) * sliceByteCount
  <2> HIDE DEF end
  <2>1. (Shards(f) - 1) * sliceByteCount \in Nat
    BY <1>6
  <2>2. Shards(f) * sliceByteCount = (Shards(f) - 1) * sliceByteCount + sliceByteCount
    BY <1>6
  <2> QED
    BY <1>2, <1>6, <2>1, <2>2
<1>8. ASSUME NEW p \in 1..n, k(p) <= (chunkIdx + 1) * ChunkSize PROVE w(p) = Cell(Content[f], p)
  <2>1. p \in 1..(Shards(f) * sliceByteCount)
    <3> HIDE DEF n
    <3> QED BY <1>6, <1>7
  <2>2. /\ (p - 1) \div sliceByteCount \in 0..(Shards(f) - 1)
        /\ k(p) \in 1..sliceByteCount
        /\ p = ((p - 1) \div sliceByteCount) * sliceByteCount + k(p)
        /\ p <= (Shards(f) - 1) * sliceByteCount + k(p)
    <3>1. ((p - 1) % sliceByteCount) \in Int /\ ((p - 1) \div sliceByteCount) \in Int
      BY <1>6, <2>1
    <3>2. ((p - 1) \div sliceByteCount) * sliceByteCount \in Int
          /\ (Shards(f) - 1) * sliceByteCount \in Int
      BY <1>6, <3>1
    <3> QED
      BY <1>6, <2>1, <3>1, <3>2, CellOfBlock
  <2>3. b(p) \in Blocks
    BY <1>0, <2>2, BlockFacts
  <2>4. CASE k(p) \in ChunkCells
    <3>1. ShardCell(b(p), k(p), g)
             = Cell(Content[b(p)[1]], b(p)[2] * sliceByteCount + k(p))
      BY <1>1, <2>3, <2>4, ShardCellTrue
    <3>2. b(p)[1] = f /\ b(p)[2] = (p - 1) \div sliceByteCount
      OBVIOUS
    <3> QED
      BY <2>2, <2>4, <3>1, <3>2
  <2>5. CASE k(p) \notin ChunkCells
    <3> HIDE DEF k, b
    <3>1. k(p) <= chunkIdx * c
      BY <1>3, <1>4, <1>6, <1>8, <2>2, <2>5 DEF ChunkCells, MinOf
    <3>2. chunkIdx > 0
      BY <1>1, <1>3, <2>2, <3>1
    <3>3. k(p) <= MinOf(chunkIdx * c, sliceByteCount) /\ MinOf(chunkIdx * c, sliceByteCount) \in Nat
      BY <1>4, <1>6, <2>2, <3>1 DEF MinOf
    <3>4. (Shards(f) - 1) * sliceByteCount \in Int
      BY <1>6
    <3>5. p \in 1..((Shards(f) - 1) * sliceByteCount + MinOf(chunkIdx * c, sliceByteCount))
      BY <2>1, <2>2, <3>3, <3>4
    <3>6. /\ temp[f] # Absent /\ p \in DOMAIN temp[f]
          /\ (((p - 1) % sliceByteCount) + 1 <= chunkIdx * c => temp[f][p] = Cell(Content[f], p))
      BY <1>3, <3>2, <3>5 DEF ChunkInv
    <3>7. temp[f][p] = Cell(Content[f], p)
      BY <3>1, <3>6 DEF k
    <3> QED
      BY <2>5, <3>6, <3>7 DEF Cell
  <2> QED
    BY <2>4, <2>5
<1> HIDE DEF n, w
<1>9. DOMAIN WriteBlocks(f, g) = 1..n /\ \A p \in 1..n : WriteBlocks(f, g)[p] = w(p)
  BY <1>5
<1> QED
  BY <1>8, <1>9 DEF n

\* Faults are only ever added, so that an excuse lasts as long as the run.
LEMMA ExcuseLasts ==
    ASSUME IInv, RepairNext, UNCHANGED <<cancelled, envVars>>
    PROVE  (Excused => Excused') /\ faults \in Nat
<1>1. faults \in Nat
  <2>1. faults \in 0..MaxFaults
    BY DEF IInv, TypeOK
  <2> QED
    BY <2>1, BoundAssumption
<1>2. faults' = faults \/ faults' = faults + 1
  <2>1. CASE FinishRebuiltFile
    BY <2>1 DEF FinishRebuiltFile, FinishStart, FinishTruncate, FinishSync, FinishHash,
                FinishFails, Fault
  <2>2. CASE RenameMisnamedFiles
    BY <2>2 DEF RenameMisnamedFiles, RenameFile, RenameFails, Fault
  <2>3. CASE PlanRepair \/ ExecuteChunk \/ ExecuteChunkFails \/ WriteChunkFails \/ ChunksDone
    BY <2>3 DEF PlanRepair, ExecuteChunk, ExecuteChunkFails, WriteChunkFails, ChunksDone, Fault
  <2>4. CASE FinishJoin \/ Install \/ InstallFails \/ Close
    BY <2>4 DEF FinishJoin, Install, InstallFails, Close, Fault
  <2> QED
    BY <2>1, <2>2, <2>3, <2>4 DEF RepairNext
<1> QED
  BY <1>1, <1>2 DEF Excused, envVars

\* A rename locates blocks and loses none.
LEMMA RepairRenameStep ==
    ASSUME IInv, RepairInv, RenameMisnamedFiles, UNCHANGED <<cancelled, envVars>>
    PROVE  RepairInv'
<1>1. /\ pc = "rename" /\ pc' \in {"rename", "plan"} /\ parityShards' = parityShards
      /\ repairErr' = repairErr
  BY DEF RenameMisnamedFiles, envVars
<1>2. PICK f \in Protected : f = protectedFiles[idx]
  BY ProtectedFacts DEF RenameMisnamedFiles
<1>3. \A b \in Blocks : locs'[b].off = -1 => locs[b].off = -1
  <2>1. CASE locs' = locs
    BY <2>1
  <2>2. CASE RenameFile(f)
    <3> SUFFICES ASSUME NEW b \in Blocks, locs[b].off # -1 PROVE locs'[b].off # -1
      OBVIOUS
    <3>1. locs' = RemapCandidate(renameSource[f], f) /\ locs[b] \in Location
      BY <2>2 DEF RenameFile, IInv, GoodLocs
    <3>2. InPlaceIn(FileIDOf(f), b).off # -1
      BY BlockFacts, SizeAssumption DEF InPlaceIn
    <3>3. [locs[b] EXCEPT !.id = FileIDOf(f)].off = locs[b].off
      BY <3>1 DEF Location
    <3> QED
      BY <3>1, <3>2, <3>3 DEF RemapCandidate
  <2> QED
    BY <1>2, <2>1, <2>2 DEF RenameMisnamedFiles, RenameFails, integrityVars
<1>4. UnusableData' \subseteq UnusableData /\ IsFiniteSet(UnusableData)
  <2>1. UnusableData \subseteq Blocks /\ UnusableData' \subseteq UnusableData
    BY <1>3 DEF UnusableData
  <2> QED
    BY <2>1, BlocksAssumption, FS_Subset
<1>5. /\ Cardinality(UnusableData') <= Cardinality(UnusableData)
      /\ Cardinality(UnusableData) \in Nat /\ Cardinality(UnusableData') \in Nat
  BY <1>4, FS_Subset, FS_CardinalityType
<1>6. parityShards.count \in Nat
  <2>1. parityShards.count \in 0..MaxParity
    BY DEF IInv, TypeOK, ParityShards
  <2> QED
    BY <2>1, BoundAssumption
<1>7. PossibleInv'
  BY <1>1, <1>5, <1>6 DEF RepairInv, PossibleInv, RepairPossible
<1>8. ErrInv'
  BY <1>1, ExcuseLasts DEF RepairInv, ErrInv, RepairNext
<1> QED
  BY <1>1, <1>7, <1>8 DEF RepairInv, ChunkInv, RebuiltInv

\* The plan of a repair starts it at its first chunk.
LEMMA RepairPlanStep ==
    ASSUME IInv, RepairInv, PlanRepair, UNCHANGED <<cancelled, envVars>>
    PROVE  RepairInv'
<1>1. /\ pc = "plan" /\ pc' \in {"exit", "chunk"} /\ chunkIdx' = 0
      /\ UNCHANGED <<temp, repairErr, faults, cancelled, damage, locs, parityShards>>
  BY DEF PlanRepair, Exit, integrityVars, envVars
<1>2. NumChunks' \in Nat
  <2>1. UNCHANGED <<UnusableData, ChunkSize, NumChunks>>
    BY <1>1 DEF UnusableData, ChunkSize, NumChunks
  <2>2. NumChunks \in Nat
    BY ChunkSizeType, SizeAssumption, ChunksCover DEF NumChunks
  <2> QED
    BY <2>1, <2>2
<1>3. \A f \in Protected : temp'[f] = Absent
  BY <1>1 DEF IInv, FinishInv
<1>4. ChunkInv'
  BY <1>1, <1>2, <1>3 DEF ChunkInv, NeedsWrite
<1> QED
  BY <1>1, <1>4 DEF RepairInv, PossibleInv, RebuiltInv, ErrInv, Excused

\* The whole of a temp file, once the last chunk is written.
LEMMA AllChunksWritten ==
    ASSUME IInv, ChunkInv, pc = "chunk", chunkIdx = NumChunks, NEW f \in NeedsWrite
    PROVE  /\ temp[f] # Absent
           /\ \A p \in 1..Len(Content[f]) : Cell(temp[f], p) = Content[f][p]
<1>0. f \in Protected
  BY DEF NeedsWrite
<1>1. PICK c \in Nat \ {0} : c = ChunkSize
  BY ChunkSizeType
<1>2. chunkIdx \in Nat \ {0} /\ chunkIdx * c >= sliceByteCount
  BY <1>1, SizeAssumption, ChunksCover DEF NumChunks
<1>3. MinOf(chunkIdx * c, sliceByteCount) = sliceByteCount
  BY <1>2, SizeAssumption DEF MinOf
<1>4. Shards(f) \in Nat \ {0} /\ sliceByteCount \in Nat \ {0} /\ Len(Content[f]) \in Nat
  BY <1>0, ShardsType, SizeAssumption, ProtectedFacts
<1>5. (Shards(f) - 1) * sliceByteCount + sliceByteCount = Shards(f) * sliceByteCount
  BY <1>4
<1>6. /\ temp[f] # Absent
      /\ DOMAIN temp[f] = 1..(Shards(f) * sliceByteCount)
      /\ \A p \in DOMAIN temp[f] :
            ((p - 1) % sliceByteCount) + 1 <= chunkIdx * c => temp[f][p] = Cell(Content[f], p)
  BY <1>1, <1>2, <1>3, <1>5 DEF ChunkInv
<1>7. ASSUME NEW p \in 1..Len(Content[f]) PROVE Cell(temp[f], p) = Content[f][p]
  <2>1. p \in 1..(Shards(f) * sliceByteCount)
    BY <1>0, <1>4, ContentInShards
  <2>2. ((p - 1) % sliceByteCount) + 1 \in 1..sliceByteCount
    BY <1>4, <2>1, CellOfBlock
  <2>3. ((p - 1) % sliceByteCount) + 1 <= chunkIdx * c
    BY <1>2, <1>4, <2>2
  <2>4. temp[f][p] = Cell(Content[f], p) /\ p \in DOMAIN temp[f]
    BY <1>6, <2>1, <2>3
  <2>5. p \in DOMAIN Content[f]
    BY <1>0, ProtectedFacts
  <2> QED
    BY <2>4, <2>5 DEF Cell
<1> QED
  BY <1>6, <1>7

\* A chunk covers the next cells of every block; the last one leaves none.
LEMMA RepairChunkStep ==
    ASSUME IInv, PlanInv, ReadInv, RepairInv,
           ExecuteChunk \/ ExecuteChunkFails \/ WriteChunkFails \/ ChunksDone,
           UNCHANGED <<cancelled, envVars>>
    PROVE  RepairInv'
<1>1. pc = "chunk" /\ UNCHANGED <<damage, locs, finish>>
  BY DEF ExecuteChunk, ExecuteChunkFails, WriteChunkFails, ChunksDone, integrityVars
<1>2. UNCHANGED <<NeedsWrite, ChunkSize, NumChunks>>
  BY <1>1 DEF NeedsWrite, AllShardsIn, UnusableData, ChunkSize, NumChunks
<1>3. chunkIdx \in Nat /\ ChunkSize \in Nat \ {0} /\ NumChunks \in Nat \ {0}
  BY ChunkSizeType, SizeAssumption, ChunksCover DEF IInv, TypeOK, NumChunks
<1>4. Excused => Excused'
  BY ExcuseLasts DEF RepairNext
<1>5. CASE ExecuteChunk
  <2>1. pc' = "chunk" /\ chunkIdx' = chunkIdx + 1 /\ chunkIdx < NumChunks /\ repairErr' = repairErr
    BY <1>1, <1>5 DEF ExecuteChunk
  <2>2. PICK g : temp' = [f \in Protected |->
                             IF f \in NeedsWrite THEN WriteBlocks(f, g) ELSE temp[f]]
    BY <1>5 DEF ExecuteChunk
  <2>3. ASSUME NEW f \in NeedsWrite
        PROVE  /\ temp'[f] # Absent
               /\ DOMAIN temp'[f] = 1..((Shards(f) - 1) * sliceByteCount
                                          + MinOf((chunkIdx + 1) * ChunkSize, sliceByteCount))
               /\ \A p \in DOMAIN temp'[f] :
                     ((p - 1) % sliceByteCount) + 1 <= (chunkIdx + 1) * ChunkSize =>
                         temp'[f][p] = Cell(Content[f], p)
    <3>1. f \in Protected /\ temp'[f] = WriteBlocks(f, g)
      BY <2>2 DEF NeedsWrite
    <3>2. temp'[f] # Absent
      <4>1. PICK h \in Reconstructions :
               temp' = [e \in Protected |->
                           IF e \in NeedsWrite THEN WriteBlocks(e, h) ELSE temp[e]]
        BY <1>5 DEF ExecuteChunk
      <4>2. temp'[f] = WriteBlocks(f, h)
        BY <3>1, <4>1
      <4>3. TypeOK /\ GoodLocs(locs) /\ ~SourceMissing
        BY <1>5 DEF IInv, ExecuteChunk
      <4> QED
        BY <3>1, <4>2, <4>3, WriteBlocksType, ContentAssumption
    <3> QED
      BY <1>1, <3>1, <3>2, ChunkWrite DEF RepairInv
  <2>4. \A f \in Protected \ NeedsWrite : temp'[f] = Absent
    BY <1>1, <2>2 DEF RepairInv, ChunkInv
  <2>5. chunkIdx' <= NumChunks
    BY <1>3, <2>1
  <2>6. ChunkInv'
    BY <1>2, <2>1, <2>3, <2>4, <2>5 DEF ChunkInv
  <2> QED
    BY <1>4, <2>1, <2>6 DEF RepairInv, PossibleInv, RebuiltInv, ErrInv
<1>6. CASE ExecuteChunkFails \/ WriteChunkFails
  <2>1. ~SourceMissing
    BY <1>1 DEF PlanInv, SourceInv, SourceMissing, Located, SourceName, Present, PlanPhases
  <2>2. pc' = "close" /\ (cancelled \/ parityShards.dependent \/ faults' = faults + 1)
    BY <1>6, <2>1 DEF ExecuteChunkFails, WriteChunkFails, MayBeSingular, Fault, Fail
  <2>3. faults \in Nat /\ (Excused => Excused')
    BY ExcuseLasts DEF RepairNext
  <2>4. Excused'
    BY <2>2, <2>3 DEF Excused
  <2> QED
    BY <2>2, <2>4 DEF RepairInv, PossibleInv, ChunkInv, RebuiltInv, ErrInv
<1>7. CASE ChunksDone
  <2>1. chunkIdx = NumChunks /\ temp' = temp
    BY <1>7 DEF ChunksDone
  <2>2. \A f \in NeedsWrite : /\ temp[f] # Absent
                              /\ \A p \in 1..Len(Content[f]) : Cell(temp[f], p) = Content[f][p]
    BY <1>1, <2>1, AllChunksWritten DEF RepairInv
  <2>3. pc' = "finish" /\ repairErr' = repairErr
    BY <1>7, <2>2 DEF ChunksDone
  <2>4. \A f \in Protected : finish'[f] = "idle"
    BY <1>1 DEF IInv, FinishInv
  <2>5. \A f \in Protected : temp[f] # Absent => f \in NeedsWrite
    BY <1>1 DEF RepairInv, ChunkInv
  <2>6. RebuiltInv'
    BY <2>1, <2>2, <2>4, <2>5 DEF RebuiltInv, Rebuilt
  <2> QED
    BY <1>4, <2>3, <2>6 DEF RepairInv, PossibleInv, ChunkInv, ErrInv
<1> QED
  BY <1>5, <1>6, <1>7

\* A worker cuts a file that starts with its protected content to its length,
\* and then finds its hash right.
LEMMA RepairFinishStep ==
    ASSUME IInv, RepairInv, FinishRebuiltFile, UNCHANGED <<cancelled, envVars>>
    PROVE  RepairInv'
<1>1. PICK f \in Protected :
         FinishStart(f) \/ FinishTruncate(f) \/ FinishSync(f) \/ FinishHash(f) \/ FinishFails(f)
  BY DEF FinishRebuiltFile
<1>2. pc = "finish" /\ pc' = "finish" /\ repairErr' = repairErr
  BY <1>1 DEF FinishStart, FinishTruncate, FinishSync, FinishHash, FinishFails, FinishStep
<1>3. Excused => Excused'
  BY ExcuseLasts DEF RepairNext
<1>5. /\ finish \in [Protected -> FinishStates] /\ temp \in [Protected -> FileContent]
  BY DEF IInv, TypeOK
<1>4. \A e \in Protected \ {f} : temp'[e] = temp[e] /\ finish'[e] = finish[e]
  <2>1. \E to : finish' = [finish EXCEPT ![f] = to]
    BY <1>1 DEF FinishStart, FinishTruncate, FinishSync, FinishHash, FinishFails, FinishStep
  <2>2. temp' = temp \/ \E t : temp' = [temp EXCEPT ![f] = t]
    BY <1>1 DEF FinishStart, FinishTruncate, FinishSync, FinishHash, FinishFails
  <2> QED
    BY <1>5, <2>1, <2>2
<1>6. temp[f] # Absent =>
         /\ finish[f] \in {"idle", "truncate"} =>
               \A p \in 1..Len(Content[f]) : Cell(temp[f], p) = Content[f][p]
         /\ finish[f] \in {"sync", "hash"} => temp[f] = Content[f]
         /\ finish[f] = "err" => Excused
  BY <1>2 DEF RepairInv, RebuiltInv, Rebuilt
<1>7. temp'[f] # Absent =>
         /\ finish'[f] \in {"idle", "truncate"} =>
               \A p \in 1..Len(Content[f]) : Cell(temp'[f], p) = Content[f][p]
         /\ finish'[f] \in {"sync", "hash"} => temp'[f] = Content[f]
         /\ finish'[f] = "err" => Excused'
  <2>1. CASE FinishStart(f)
    BY <1>5, <1>6, <2>1 DEF FinishStart, FinishStep
  <2>2. CASE FinishTruncate(f)
    <3>1. /\ finish[f] = "truncate" /\ finish'[f] = "sync"
          /\ temp'[f] = ReadAt(temp[f], 0, Len(Content[f]))
      BY <1>5, <2>2 DEF FinishTruncate, FinishStep
    <3>2. \A p \in 1..Len(Content[f]) : Cell(temp[f], p) = Content[f][p]
      BY <1>2, <1>6, <3>1 DEF IInv, FinishInv
    <3>3. temp'[f] = [p \in 1..Len(Content[f]) |-> Content[f][p]]
      BY <3>1, <3>2, ProtectedFacts DEF ReadAt
    <3>4. temp'[f] = Content[f]
      BY <3>3, ProtectedFacts
    <3> QED
      BY <3>1, <3>4
  <2>3. CASE FinishSync(f)
    BY <1>5, <1>6, <2>3 DEF FinishSync, FinishStep
  <2>4. CASE FinishHash(f)
    <3>1. /\ finish[f] = "hash" /\ temp'[f] = temp[f]
          /\ finish'[f] = IF temp[f] = Content[f] THEN "ok" ELSE "err"
      BY <1>5, <2>4 DEF FinishHash, FinishStep
    <3> QED
      BY <1>6, <3>1
  <2>5. CASE FinishFails(f)
    <3>1. finish'[f] = "err" /\ faults' = faults + 1
      BY <1>5, <2>5 DEF FinishFails, FinishStep, Fault
    <3>2. Excused'
      BY <3>1, ExcuseLasts DEF Excused, RepairNext
    <3> QED
      BY <3>1, <3>2
  <2> QED
    BY <1>1, <2>1, <2>2, <2>3, <2>4, <2>5
<1>8. RebuiltInv'
  BY <1>2, <1>3, <1>4, <1>7 DEF RepairInv, RebuiltInv, Rebuilt
<1> QED
  BY <1>2, <1>3, <1>8 DEF RepairInv, PossibleInv, ChunkInv, ErrInv

\* The end of a repair: an error has an excuse.
LEMMA RepairEndStep ==
    ASSUME IInv, RepairInv, FinishJoin \/ Install \/ InstallFails \/ Close,
           UNCHANGED <<cancelled, envVars>>
    PROVE  RepairInv'
<1>1. pc' \in {"install", "close", "exit"}
  BY DEF FinishJoin, Install, InstallFails, Close, Fail, Exit
<1>2. (Excused => Excused') /\ faults \in Nat
  BY ExcuseLasts DEF RepairNext
<1>3. ErrInv'
  <2>1. CASE FinishJoin
    <3>1. CASE \E f \in Rebuilt : finish[f] = "err"
      <4>1. Excused
        BY <2>1, <3>1 DEF FinishJoin, RepairInv, RebuiltInv
      <4> QED
        BY <1>2, <4>1 DEF ErrInv
    <3>2. CASE ~ \E f \in Rebuilt : finish[f] = "err"
      <4>1. repairErr' = repairErr \/ faults' = faults + 1
        BY <2>1, <3>2 DEF FinishJoin, Fault
      <4>2. faults' = faults + 1 => Excused'
        BY <1>2 DEF Excused
      <4> QED
        BY <1>2, <4>1, <4>2 DEF RepairInv, ErrInv
    <3> QED
      BY <3>1, <3>2
  <2>2. CASE Install \/ Close
    BY <1>2, <2>2 DEF Install, Close, RepairInv, ErrInv
  <2>3. CASE InstallFails
    BY <1>2, <2>3 DEF InstallFails, Fault, Excused, ErrInv
  <2> QED
    BY <2>1, <2>2, <2>3
<1> QED
  BY <1>1, <1>3 DEF RepairInv, PossibleInv, ChunkInv, RebuiltInv

\* The steps that are not the repair's: it starts only when it is possible.
LEMMA RepairOutsideStep ==
    ASSUME IInv, RepairInv,
           \/ VerifyNext /\ UNCHANGED <<cancelled, pipelineVars, envVars>>
           \/ HandleVerifyCommand \/ HandleRepairCommand \/ Interrupt \/ Crash \/ Rerun
           \/ UNCHANGED vars
    PROVE  RepairInv'
<1> USE DEF integrityVars, envVars, pipelineVars
<1>0. faults \in Nat
  <2>1. faults \in 0..MaxFaults
    BY DEF IInv, TypeOK
  <2> QED
    BY <2>1, BoundAssumption
<1>1. CASE VerifyNext /\ UNCHANGED <<cancelled, pipelineVars, envVars>>
  <2>1. pc' \in VerifyPhases \cup {"dispatch", "exit"} /\ UNCHANGED <<repairErr, cancelled, parityShards>>
    BY <1>1 DEF VerifyNext, InitFileIntegrity, CheckFileExistence, PrescanCandidateMatches,
                PrescanProtectedMatches, Scan, PostScanVerify, VerifyFails, Exit, VerifyPhases
  <2>2. faults' = faults \/ faults' = faults + 1
    BY <1>1 DEF VerifyNext, InitFileIntegrity, CheckFileExistence, PrescanCandidateMatches,
                PrescanProtectedMatches, Scan, PostScanVerify, VerifyFails, Charge, Fault
  <2>3. ErrInv'
    BY <1>0, <2>1, <2>2 DEF RepairInv, ErrInv, Excused
  <2> QED
    BY <2>1, <2>3 DEF RepairInv, PossibleInv, ChunkInv, RebuiltInv, VerifyPhases
<1>2. CASE HandleVerifyCommand \/ HandleRepairCommand
  <2>1. /\ pc' \in {"exit", "rename"} /\ UNCHANGED <<repairErr, cancelled, faults, locs, parityShards>>
        /\ pc' = "rename" => RepairPossible
    BY <1>2 DEF HandleVerifyCommand, HandleRepairCommand, Exit
  <2> QED
    BY <2>1 DEF RepairInv, PossibleInv, ChunkInv, RebuiltInv, ErrInv, Excused,
                RepairPossible, UnusableData
<1>3. CASE Interrupt \/ UNCHANGED vars
  <2>1. /\ UNCHANGED <<pc, repairErr, faults, locs, damage, parityShards, chunkIdx, temp, finish>>
        /\ cancelled => cancelled'
    BY <1>3 DEF Interrupt, vars
  <2>2. UNCHANGED <<NeedsWrite, ChunkSize, NumChunks, RepairPossible, Rebuilt>>
    BY <2>1 DEF NeedsWrite, AllShardsIn, UnusableData, ChunkSize, NumChunks, RepairPossible, Rebuilt
  <2>3. Excused => Excused'
    BY <2>1 DEF Excused
  <2>4. PossibleInv' /\ ErrInv'
    BY <2>1, <2>2, <2>3 DEF RepairInv, PossibleInv, ErrInv
  <2>5. ChunkInv'
    BY <2>1, <2>2 DEF RepairInv, ChunkInv
  <2>6. RebuiltInv'
    BY <2>1, <2>2, <2>3 DEF RepairInv, RebuiltInv
  <2> QED
    BY <2>4, <2>5, <2>6 DEF RepairInv
<1>4. CASE Crash
  BY <1>4 DEF Crash, RepairInv, PossibleInv, ChunkInv, RebuiltInv, ErrInv, Excused
<1>5. CASE Rerun
  BY <1>5 DEF Rerun, NewRun, NewPipeline, RepairInv, PossibleInv, ChunkInv, RebuiltInv, ErrInv
<1> QED
  BY <1>1, <1>2, <1>3, <1>4, <1>5

\* The temporary files of a repair are right up to its chunk, in every state.
LEMMA RepairInvariant ==
    ASSUME CleanSet
    PROVE  Spec => [](IInv /\ PlanInv /\ RepairInv)
<1>1. Init => RepairInv
  BY DEF Init, NewRun, NewPipeline, RepairInv, PossibleInv, ChunkInv, RebuiltInv, ErrInv
<1>2. IInv /\ PlanInv /\ ReadInv /\ RepairInv /\ [Next]_vars => RepairInv'
  BY RepairRenameStep, RepairPlanStep, RepairChunkStep, RepairFinishStep, RepairEndStep,
     RepairOutsideStep DEF Next, ProgramNext, RepairNext, Stopped
<1> QED
  BY <1>1, <1>2, ReadInvariant, PTL DEF Spec

\* On a clean set, once the program has said that repair is possible and started
\* it, the repair ends in success unless an I/O error or an interrupt stops it or
\* the recovery blocks it counted are not sound (SoundParity: one has a wrong
\* length, or their rows are dependent): the chunks cover every cell, the workers
\* find every hash right, and nothing that the renames, the chunks or the installs
\* do makes it fail (Decoder.Repair).
THEOREM PossibleRepairSucceeds ==
    ASSUME CleanSet
    PROVE  Spec => PossibleMeansRepaired
<1>1. IInv /\ PlanInv /\ RepairInv /\ [Next]_vars =>
         [(/\ pc \in RepairPhases /\ pc' = "exit"
           /\ faults = 0 /\ ~cancelled /\ SoundParity) => exitCode' = 0]_vars
  <2> SUFFICES ASSUME IInv, RepairInv, [Next]_vars, pc \in RepairPhases, pc' = "exit",
                      faults = 0, ~cancelled, SoundParity
               PROVE  exitCode' = 0
    OBVIOUS
  <2>1. ~repairErr
    BY DEF RepairInv, ErrInv, Excused, SoundParity
  <2>2. PlanRepair \/ Close
    <3>1. RepairNext
      BY DEF Next, ProgramNext, VerifyNext, InitFileIntegrity, CheckFileExistence,
             PrescanCandidateMatches, PrescanProtectedMatches, Scan, PostScanVerify, VerifyFails,
             HandleVerifyCommand, HandleRepairCommand, Interrupt, Crash, Rerun, NewRun, Stopped, vars,
             RepairPhases, VerifyPhases
    <3>2. CASE \/ RenameMisnamedFiles \/ ExecuteChunk \/ ExecuteChunkFails
               \/ WriteChunkFails \/ ChunksDone
      BY <3>2 DEF RenameMisnamedFiles, ExecuteChunk, ExecuteChunkFails, WriteChunkFails,
                  ChunksDone, Fail
    <3>3. CASE FinishRebuiltFile
      BY <3>3 DEF FinishRebuiltFile, FinishStart, FinishTruncate, FinishSync, FinishHash,
                  FinishFails, FinishStep
    <3>4. CASE FinishJoin \/ Install \/ InstallFails
      BY <3>4 DEF FinishJoin, Install, InstallFails, Fail
    <3> QED
      BY <3>1, <3>2, <3>3, <3>4 DEF RepairNext
  <2>3. CASE PlanRepair
    BY <2>3 DEF PlanRepair, Exit, RepairInv, PossibleInv, SoundParity
  <2>4. CASE Close
    BY <2>1, <2>4 DEF Close, Exit
  <2> QED
    BY <2>2, <2>3, <2>4
<1> QED
  BY <1>1, RepairInvariant, PTL DEF Spec, PossibleMeansRepaired

=============================================================================
