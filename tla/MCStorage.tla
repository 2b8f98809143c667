----------------------------- MODULE MCStorage -----------------------------
(* Small instances of the three components that keep rows and files.  They *)
(* share nothing: a behaviour is about one of them, the others rest.       *)
EXTENDS KvCache, PrepareCommit, SessionFiles, TLC

CONSTANTS r1, r2, l1, l2, modelA, modelB,  \* KvCache
          p1, p2                           \* SessionFiles

VARIABLE component

storageVars == <<component, kvVars, commitVars, filesVars>>

StorageInit ==
    /\ component \in {"rows", "sidecar", "sessions"}
    /\ KvInit /\ CommitInit /\ FilesInit
    /\ component # "sidecar" => live = NoFiles
    /\ component # "sessions" => ~HasFile("heat") /\ ~HasFile("session")

RowsStep == component = "rows" /\ KvNext /\ UNCHANGED <<component, commitVars, filesVars>>
SidecarStep == component = "sidecar" /\ CommitNext /\ UNCHANGED <<component, kvVars, filesVars>>
SessionsStep == component = "sessions" /\ FilesNext /\ UNCHANGED <<component, kvVars, commitVars>>

StorageNext == RowsStep \/ SidecarStep \/ SessionsStep

StorageSpec == StorageInit /\ [][StorageNext]_storageVars

StorageSymmetry ==
    Permutations(Rows) \cup Permutations(Layers) \cup Permutations(Bindings)

\* Lengths within the capacity and pages of finite rows; files that hold what a
\* run can have written.
StorageTypeOK == KvTypeOK /\ CommitTypeOK /\ FilesTypeOK
=============================================================================
