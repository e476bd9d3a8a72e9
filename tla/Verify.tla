------------------------------- MODULE Verify -------------------------------
(***************************************************************************)
(* Decoder.VerifyScans: the phases that establish, for every protected     *)
(* file, what is wrong with it and where its blocks are.  Each phase is    *)
(* one action; nothing of it is visible to anyone before it ends, and no   *)
(* phase writes to the disk.                                               *)
(***************************************************************************)
EXTENDS Decoder, ScanContract

VerifyPhases == {"init", "exist", "candidates", "protected", "scan", "post"}

\* initFileIntegrity
InitFileIntegrity ==
    /\ pc = "init" /\ ~cancelled
    /\ damage' = [f \in Protected |-> "unchecked"]
    /\ renameSource' = [f \in Protected |-> ""]
    /\ locs' = [b \in Blocks |-> NotFound]
    /\ pc' = "exist"
    /\ UNCHANGED <<disk, resolved, exitCode, faults>>

\* checkFileExistence
CheckFileExistence ==
    /\ pc = "exist" /\ ~cancelled
    /\ damage' = [f \in Protected |->
                     IF disk[f] = Absent THEN "missing" ELSE damage[f]]
    /\ pc' = "candidates"
    /\ UNCHANGED <<disk, renameSource, locs, resolved, exitCode, faults>>

(***************************************************************************)
(* prescanCandidateMatches                                                 *)
(***************************************************************************)

\* quickKey: the length and the first cells of a content.
QuickKey(s) == <<Len(s), SubSeq(s, 1, MinOf(quickHashSize, Len(s)))>>

MissingFiles == {f \in Protected : damage[f] = "missing"}

\* missingByQuickKey keeps one file per key: the last in protectedFiles order.
MissingByQuickKey ==
    {protectedFiles[i] : i \in
        {j \in DOMAIN protectedFiles :
            /\ protectedFiles[j] \in MissingFiles
            /\ \A k \in DOMAIN protectedFiles :
                  (k > j /\ protectedFiles[k] \in MissingFiles) =>
                      QuickKey(Content[protectedFiles[k]]) #
                          QuickKey(Content[protectedFiles[j]])}}

\* Mutant: the quick key is taken for a match, the full hash is not computed.
PerfectMatchesQuickOnly(f, bad) ==
    IF f \in MissingByQuickKey
    THEN {c \in candidateFiles \ bad :
             disk[c] # Absent /\ QuickKey(disk[c]) = QuickKey(Content[f])}
    ELSE {}

\* Candidates whose full content is that of the missing file f.
PerfectMatches(f, bad) ==
    IF f \in MissingByQuickKey
    THEN {c \in candidateFiles \ bad : disk[c] = Content[f]}
    ELSE {}

\* The candidates are visited in map order, so of several perfect matches any
\* may be the last to write RenameSource.  A candidate that cannot be opened
\* is resolved, one that fails later is left to the block scan.
PrescanCandidateMatches ==
    /\ pc = "candidates" /\ ~cancelled
    /\ \E bad \in FaultSets(candidateFiles), atOpen \in BOOLEAN :
       \E source \in [Protected -> candidateFiles \cup {""}] :
          LET Hit == {f \in Protected : PerfectMatches(f, bad) # {}} IN
          /\ MissingFiles = {} => bad = {}
          /\ \A f \in Protected :
                IF f \in Hit THEN source[f] \in PerfectMatches(f, bad)
                             ELSE source[f] = ""
          /\ renameSource' = source
          /\ locs' = Relocate(Hit, [f \in Hit |-> CandidateID(source[f])])
          /\ resolved' =
                IF MissingFiles = {} THEN {}
                ELSE {c \in candidateFiles : disk[c] = Absent}
                     \cup (IF atOpen THEN bad ELSE {})
                     \cup UNION {PerfectMatches(f, bad) : f \in Hit}
          /\ Charge(bad)
    /\ pc' = "protected"
    /\ UNCHANGED <<disk, damage, exitCode>>

\* prescanProtectedMatches.  A file that cannot be read is left to the scan.
PrescanProtectedMatches ==
    /\ pc = "protected" /\ ~cancelled
    /\ \E bad \in FaultSets(Protected) :
          LET Intact == {f \in Protected \ bad :
                            damage[f] # "missing" /\ disk[f] = Content[f]} IN
          /\ damage' = [f \in Protected |->
                           IF f \in Intact THEN "none" ELSE damage[f]]
          /\ locs' = Relocate(Intact, [f \in Intact |-> FileIDOf(f)])
          /\ Charge(bad)
    /\ pc' = "scan"
    /\ UNCHANGED <<disk, renameSource, resolved, exitCode>>

(***************************************************************************)
(* blockScanner.scan                                                       *)
(***************************************************************************)

\* scanFile: the size of every scanned protected file is checked too.
Scan ==
    /\ pc = "scan" /\ ~cancelled
    /\ locs' \in ScanOutcomes(disk, ScanSources(disk, damage, resolved), locs)
    /\ damage' = [f \in Protected |->
                     IF /\ damage[f] \notin {"missing", "none"}
                        /\ Len(disk[f]) # Len(Content[f])
                     THEN "wrongSize" ELSE damage[f]]
    /\ pc' = "post"
    /\ UNCHANGED <<disk, renameSource, resolved, exitCode, faults>>

(***************************************************************************)
(* postScanVerify                                                          *)
(***************************************************************************)

\* Mutant: consecutive blocks are taken for a copy, the file is not hashed.
DetectRenameCandidateUnhashed(f, bad) ==
    LET id == locs[<<f, 0>>].id IN
    IF id.kind = "cand" /\ id.name # f /\ AllShardsIn(f, id) THEN id.name ELSE ""

\* detectRenameCandidate: the candidate whose content is exactly that of f.
DetectRenameCandidate(f, bad) ==
    LET id == locs[<<f, 0>>].id IN
    IF /\ id.kind = "cand"
       /\ id.name # f
       /\ AllShardsIn(f, id)
       /\ id.name \notin bad
       /\ disk[id.name] = Content[f]
    THEN id.name ELSE ""

\* verifySingleFileHash
SingleFileHash(f, bad, atOpen) ==
    IF f \in bad THEN (IF atOpen THEN "missing" ELSE "wrongHash")
    ELSE IF disk[f] = Content[f] THEN "none" ELSE "wrongHash"

\* Mutant: a rename is planned without recording the damage.
PostScanFileNoDamage(f, bad, atOpen) ==
    IF damage[f] \in {"none", "wrongSize"} \/ renameSource[f] # ""
    THEN <<damage[f], renameSource[f]>>
    ELSE IF damage[f] # "missing" /\ AllShardsIn(f, FileIDOf(f))
    THEN <<SingleFileHash(f, bad, atOpen), "">>
    ELSE <<damage[f], DetectRenameCandidate(f, bad)>>

\* verifyProtectedFilesHashes, one file: its damage and its rename source.
PostScanFile(f, bad, atOpen) ==
    IF damage[f] \in {"none", "wrongSize"} \/ renameSource[f] # ""
    THEN <<damage[f], renameSource[f]>>
    ELSE IF damage[f] = "missing"
    THEN <<"missing", DetectRenameCandidate(f, bad)>>
    ELSE IF AllShardsIn(f, FileIDOf(f))
    THEN <<SingleFileHash(f, bad, atOpen), "">>
    ELSE <<"wrongHash", DetectRenameCandidate(f, bad)>>

PostScanVerify ==
    /\ pc = "post" /\ ~cancelled
    /\ \E bad \in FaultSets(Names), atOpen \in BOOLEAN :
          /\ damage' = [f \in Protected |-> PostScanFile(f, bad, atOpen)[1]]
          /\ renameSource' = [f \in Protected |-> PostScanFile(f, bad, atOpen)[2]]
          /\ Charge(bad)
    /\ pc' = "dispatch"
    /\ UNCHANGED <<disk, locs, resolved, exitCode>>

\* VerifyScans returns an error: opening or scanning a file failed, or the
\* context was cancelled at some point of it.
VerifyFails ==
    /\ pc \in VerifyPhases
    /\ IF cancelled THEN UNCHANGED faults ELSE pc \in {"exist", "scan"} /\ Fault
    /\ Exit(4)
    /\ UNCHANGED <<disk, integrityVars, resolved>>

VerifyNext ==
    \/ InitFileIntegrity \/ CheckFileExistence \/ PrescanCandidateMatches
    \/ PrescanProtectedMatches \/ Scan \/ PostScanVerify \/ VerifyFails

=============================================================================
