--------------------------- MODULE PrepareCommit ---------------------------
(***************************************************************************)
(* How bridge-prepare replaces a sidecar: prepare_sidecar writes a data    *)
(* file and its manifest under temporary names, verifies them, and         *)
(* commit_outputs moves the old pair aside, the new pair in, and undoes    *)
(* what it did when a rename fails.  Every file operation may fail and     *)
(* the process may die between any two of them; runs follow one another.   *)
(*                                                                         *)
(* A file's contents are the run that wrote it, so a data file and a       *)
(* manifest belong together when they are equal.                           *)
(***************************************************************************)
EXTENDS Naturals

CONSTANTS MaxRuns,  \* bound: runs of prepare_sidecar on the same two targets
          Old,      \* the writer of what is there at the start
          None      \* no such file

\* In the order in which they start.
Runs == 1..MaxRuns

ASSUME CommitAssumption == MaxRuns \in Nat /\ Old \notin Runs /\ None \notin Runs \cup {Old}

VARIABLES live,    \* the targets: data and manifest
          temp,    \* temp[r]: the temporary pair of run r
          backup,  \* backup[r]: where run r moves the old pair
          pc, overwrite,
          before,  \* ghost: the targets when run r started
          current, \* ghost: the writer of the last complete pair
          undone   \* ghost: every undo step of run r has worked

commitVars == <<live, temp, backup, pc, overwrite, before, current, undone>>

Names == {"data", "manifest"}
NoFiles == [n \in Names |-> None]
Final == {"idle", "ok", "failed", "crashed"}

\* A pair from an earlier version, or one file of it, or nothing.
CommitInit ==
    /\ live \in [Names -> {Old, None}]
    /\ temp = [r \in Runs |-> NoFiles]
    /\ backup = [r \in Runs |-> NoFiles]
    /\ pc = [r \in Runs |-> "idle"]
    /\ overwrite = [r \in Runs |-> FALSE]
    /\ before = [r \in Runs |-> NoFiles]
    /\ current = IF live = [n \in Names |-> Old] THEN Old ELSE None
    /\ undone = [r \in Runs |-> TRUE]

At(r, label) == pc[r] = label
Goto(r, label) == pc' = [pc EXCEPT ![r] = label]
Exists(n) == live[n] # None

-----------------------------------------------------------------------------
(* Up to the commit. *)

ChecksNothing(r, o) == TRUE  \* mutant: the targets are not inspected
\* validate_output_targets.
TargetsAllowed(r, o) == o \/ \A n \in Names : ~Exists(n)

Start(r, o) ==
    /\ At(r, "idle")
    /\ \A q \in 1..(r - 1) : pc[q] \in Final \ {"idle"}
    /\ overwrite' = [overwrite EXCEPT ![r] = o]
    /\ before' = [before EXCEPT ![r] = live]
    /\ Goto(r, IF TargetsAllowed(r, o) THEN "write" ELSE "failed")
    /\ UNCHANGED <<live, temp, backup, current, undone>>

\* The data is written, then the manifest; an error, a cancellation or a failed
\* verification leaves through the drop of TemporaryOutputs.
SharedWrite(r, n, next) ==  \* mutant: temporary names without the nonce
    /\ temp' = [q \in Runs |-> [temp[q] EXCEPT ![n] = r]]
    /\ Goto(r, next)
    /\ UNCHANGED <<live, backup, overwrite, before, current, undone>>
Write(r, n, next) ==
    /\ temp' = [temp EXCEPT ![r][n] = r]
    /\ Goto(r, next)
    /\ UNCHANGED <<live, backup, overwrite, before, current, undone>>

WriteData(r) == At(r, "write") /\ Write(r, "data", "writeManifest")
WriteManifest(r) == At(r, "writeManifest") /\ Write(r, "manifest", "verify")

Verified(r) ==
    /\ At(r, "verify")
    /\ Goto(r, "backupData")
    /\ UNCHANGED <<live, temp, backup, overwrite, before, current, undone>>

GiveUp(r) ==
    /\ pc[r] \in {"write", "writeManifest", "verify"}
    /\ Goto(r, "dropTemps")
    /\ UNCHANGED <<live, temp, backup, overwrite, before, current, undone>>

-----------------------------------------------------------------------------
(* commit_outputs. *)

BackedUp(r, n) == backup[r][n] # None

\* fs::rename from the target to its backup, where overwriting; else skipped.
\* A rename that fails for the manifest undoes the one of the data.
KeepManifest(r, n) == n = "data" /\ overwrite[r] /\ Exists(n)  \* mutant of MustBackUp
MustBackUp(r, n) == overwrite[r] /\ Exists(n)

RemoveFirst(r, n, here, next, onError) ==  \* mutant: the old file is removed
    /\ At(r, here)
    /\ live' = IF MustBackUp(r, n) THEN [live EXCEPT ![n] = None] ELSE live
    /\ Goto(r, next)
    /\ UNCHANGED <<temp, backup, overwrite, before, current, undone>>
BackUp(r, n, here, next, onError) ==
    /\ At(r, here)
    /\ \/ /\ MustBackUp(r, n)
          /\ backup' = [backup EXCEPT ![r][n] = live[n]]
          /\ live' = [live EXCEPT ![n] = None]
          /\ Goto(r, next)
       \/ /\ ~MustBackUp(r, n)
          /\ Goto(r, next)
          /\ UNCHANGED <<live, backup>>
       \/ /\ MustBackUp(r, n)
          /\ Goto(r, onError)
          /\ UNCHANGED <<live, backup>>
    /\ UNCHANGED <<temp, overwrite, before, current, undone>>

BackUpData(r)     == BackUp(r, "data", "backupData", "backupManifest", "dropTemps")
BackUpManifest(r) == BackUp(r, "manifest", "backupManifest", "commitData", "restoreDataOnly")

\* fs::rename from the temporary name to the target, replacing what is there.
Commit(r, n, here, next, onError) ==
    /\ At(r, here)
    /\ \/ /\ live' = [live EXCEPT ![n] = temp[r][n]]
          /\ temp' = [temp EXCEPT ![r][n] = None]
          /\ current' = IF n = "manifest" THEN r ELSE current
          /\ Goto(r, next)
       \/ /\ Goto(r, onError)
          /\ UNCHANGED <<live, temp, current>>
    /\ UNCHANGED <<backup, overwrite, before, undone>>

CommitData(r)     == Commit(r, "data", "commitData", "commitManifest", "restoreData")
CommitManifest(r) == Commit(r, "manifest", "commitManifest", "cleanData", "removeData")

\* The committed data is withdrawn when its manifest cannot follow.
RemoveData(r) ==
    /\ At(r, "removeData")
    /\ \/ /\ live' = [live EXCEPT !["data"] = None]
          /\ UNCHANGED undone
       \/ /\ undone' = [undone EXCEPT ![r] = FALSE]
          /\ UNCHANGED live
    /\ Goto(r, "restoreData")
    /\ UNCHANGED <<temp, backup, overwrite, before, current>>

\* restore_backups: both renames are tried, their errors are dropped.
Restore(r, n, here, next) ==
    /\ At(r, here)
    /\ \/ /\ BackedUp(r, n)
          /\ live' = [live EXCEPT ![n] = backup[r][n]]
          /\ backup' = [backup EXCEPT ![r][n] = None]
          /\ UNCHANGED undone
       \/ /\ BackedUp(r, n)
          /\ undone' = [undone EXCEPT ![r] = FALSE]
          /\ UNCHANGED <<live, backup>>
       \/ /\ ~BackedUp(r, n)
          /\ UNCHANGED <<live, backup, undone>>
    /\ Goto(r, next)
    /\ UNCHANGED <<temp, overwrite, before, current>>

RestoreDataOnly(r) == Restore(r, "data", "restoreDataOnly", "dropTemps")
RestoreData(r)     == Restore(r, "data", "restoreData", "restoreManifest")
RestoreManifest(r) == Restore(r, "manifest", "restoreManifest", "dropTemps")

\* Both names are new: the backups go, as far as they can be removed.
Clean(r, n, here, next) ==
    /\ At(r, here)
    /\ \/ backup' = [backup EXCEPT ![r][n] = None]
       \/ UNCHANGED backup
    /\ Goto(r, next)
    /\ UNCHANGED <<live, temp, overwrite, before, current, undone>>

CleanData(r)     == Clean(r, "data", "cleanData", "cleanManifest")
CleanManifest(r) == Clean(r, "manifest", "cleanManifest", "ok")

\* TemporaryOutputs::drop while armed: each file is removed if it can be.
DropTemps(r) ==
    /\ At(r, "dropTemps")
    /\ \E gone \in SUBSET Names :
          temp' = [temp EXCEPT ![r] = [n \in Names |-> IF n \in gone THEN None ELSE @[n]]]
    /\ Goto(r, "failed")
    /\ UNCHANGED <<live, backup, overwrite, before, current, undone>>

\* Nothing runs when the process dies; the next run knows nothing of it.
Crash(r) ==
    /\ pc[r] \notin Final
    /\ Goto(r, "crashed")
    /\ UNCHANGED <<live, temp, backup, overwrite, before, current, undone>>

Step(r) ==
    \/ \E o \in BOOLEAN : Start(r, o)
    \/ WriteData(r) \/ WriteManifest(r) \/ Verified(r) \/ GiveUp(r)
    \/ BackUpData(r) \/ BackUpManifest(r)
    \/ CommitData(r) \/ CommitManifest(r)
    \/ RemoveData(r)
    \/ RestoreDataOnly(r) \/ RestoreData(r) \/ RestoreManifest(r)
    \/ CleanData(r) \/ CleanManifest(r)
    \/ DropTemps(r)

CommitNext == \E r \in Runs : Step(r) \/ Crash(r)

CommitSpec == CommitInit /\ [][CommitNext]_commitVars

-----------------------------------------------------------------------------
(* Properties. *)

Contents == Runs \cup {Old, None}
Labels == Final \cup
    {"write", "writeManifest", "verify", "backupData", "backupManifest",
     "commitData", "commitManifest", "removeData", "restoreDataOnly",
     "restoreData", "restoreManifest", "cleanData", "cleanManifest", "dropTemps"}

\* The variables have the values the code can give them, and a run writes under
\* its own temporary names only what it has written itself.
CommitTypeOK ==
    /\ live \in [Names -> Contents]
    /\ temp \in [Runs -> [Names -> Contents]]
    /\ \A r \in Runs, n \in Names : temp[r][n] \in {r, None}
    /\ backup \in [Runs -> [Names -> Contents]]
    /\ pc \in [Runs -> Labels]
    /\ overwrite \in [Runs -> BOOLEAN]
    /\ before \in [Runs -> [Names -> Contents]]
    /\ current \in Contents /\ undone \in [Runs -> BOOLEAN]

\* Whoever opens the targets at any moment, during a commit, after a failed one
\* or after a crash, never meets a manifest beside another run's data file,
\* unless an undo step has failed as well.
PairNeverMixed ==
    (\A r \in Runs : undone[r]) /\ (\A n \in Names : Exists(n)) =>
        live["data"] = live["manifest"]

\* However many operations fail, wherever the process dies and whatever runs
\* come after, both files of the last complete pair exist somewhere, in place or
\* in a backup, until a newer pair is complete.
NothingLost ==
    current # None =>
        \A n \in Names : live[n] = current \/ \E r \in Runs : backup[r][n] = current

\* A run that returns has replaced both files or, when its undo steps worked,
\* left both as it found them.
AllOrNothing ==
    [][\A r \in Runs :
          /\ pc'[r] = "ok" /\ pc[r] # "ok" => live' = [n \in Names |-> r]
          /\ pc'[r] = "failed" /\ pc[r] # "failed" /\ undone[r] =>
                live' = before'[r]]_commitVars
=============================================================================
