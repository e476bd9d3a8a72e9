------------------------------ MODULE ScanSpec ------------------------------
(***************************************************************************)
(* The block scan as its caller sees it: it runs for a while and then      *)
(* either returns an error or leaves locations that ScanContract allows.   *)
(***************************************************************************)
EXTENDS ScanContract

CONSTANT ScanDisks  \* the disks a scan may find

VARIABLES
    disk,
    scanState,      \* "scanning", "done" or "failed"
    result          \* the locations, as they are when the scan returns

SInit ==
    /\ disk \in ScanDisks
    /\ scanState = "scanning"
    /\ result = PrescanLocs(disk)

Returns ==
    /\ scanState = "scanning"
    /\ scanState' = "done"
    /\ result' \in ScanOutcomes(disk, SourcesOf(disk), result)
    /\ UNCHANGED disk

Fails ==
    /\ scanState = "scanning"
    /\ scanState' = "failed"
    /\ UNCHANGED <<disk, result>>

svars == <<disk, scanState, result>>

SSpec == SInit /\ [][Returns \/ Fails]_svars /\ <>(scanState # "scanning")

=============================================================================
