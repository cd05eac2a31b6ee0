---------------------------- MODULE SyncDirectory ----------------------------
(***************************************************************************)
(* sync_model of sync.py over the inventory of Inventory: a directory is   *)
(* brought to the published version in a staging directory beside it, from *)
(* hard links to its own files where they still serve and downloads where  *)
(* not, and then takes the place of the old one by two renames.            *)
(*                                                                         *)
(* A call may fail, be cancelled or die with its process at any await; the *)
(* next call finds what it left.  Calls for one directory follow each      *)
(* other: nothing in the code keeps two of them apart.                     *)
(***************************************************************************)
EXTENDS Inventory

CONSTANTS InitialDirectories  \* what the destination may be before the first call

ASSUME InitialAssumption == InitialDirectories \subseteq Directories

VARIABLES
    pc,          \* what sync_model is about to do
    rehash,      \* its arguments
    delete,
    todo,        \* snapshot files, then extra files, it has still to stage
    destination, \* the three directories: files, sums, and whether they are there
    staging,
    backup,
    linked       \* staged files that are the same inode as the destination's

fsVars   == <<destination, staging, backup, linked>>
callVars == <<pc, rehash, delete, todo>>
syncVars == <<remoteVars, walkVars, callVars, fsVars>>

\* A file that a download was writing when it ended.
Partial == "partial"

NoFiles == [n \in Names |-> "none"]
Absent  == [there |-> FALSE, files |-> NoFiles, sums |-> "none"]
Tree(d) == [there |-> TRUE, files |-> d.files, sums |-> d.sums]

Want(n) == Manifest[manifest][n]
Extras  == {n \in Names \ Listed(manifest) : destination.files[n] # "none"}

\* What readers find, once they look at the backup when the destination is missing
\* (as the next call does).
Visible ==
    LET d == IF destination.there THEN destination ELSE backup
    IN  [files |-> d.files, sums |-> d.sums]

SyncTypeOK ==
    /\ pc \in {"idle", "inventory", "files", "extras", "prune", "swap", "swap2",
               "restore", "cleanup"}
    /\ todo \subseteq Names /\ linked \subseteq Names
    /\ \A d \in {destination, staging, backup} :
          /\ d.there \in BOOLEAN /\ d.sums \in Versions \cup {"none"}
          /\ d.files \in [Names -> Contents \cup {"none", Partial}]
    /\ ~ destination.there => backup.there
    /\ \A n \in linked : staging.files[n] = Visible.files[n]

-----------------------------------------------------------------------------
\* _prepare_sync_paths: put a backup back whose renames were cut short, refuse a
\* backup of unknown origin, and reuse the staging directory of an earlier call.
Call ==
    /\ pc = "idle"
    /\ IF destination.there
       THEN ~ backup.there /\ UNCHANGED <<destination, backup>>
       ELSE destination' = backup /\ backup' = Absent
    /\ staging' = Tree(staging)
    /\ pc' = "inventory" /\ FreshWalk("list")
    /\ UNCHANGED <<remoteVars, rehash, delete, todo, linked>>

\* What a call keeps in memory is gone; what it did to the file system is not.
Over ==
    /\ pc' = "idle" /\ rehash' = FALSE /\ delete' = FALSE /\ todo' = {}
    /\ FreshWalk("idle")

\* Any failure the steps below do not name (a request, the file system, a callback), a
\* cancellation, or the end of the process.
Interrupted ==
    /\ pc # "idle"
    /\ Over
    /\ UNCHANGED <<remoteVars, fsVars>>

ReadInventory ==
    /\ pc = "inventory"
    /\ WalkStep
    /\ UNCHANGED <<callVars, fsVars>>

InventoryFails ==
    /\ pc = "inventory" /\ stage = "failed"
    /\ Over
    /\ UNCHANGED <<remoteVars, fsVars>>

\* From here on the arguments of the call are read.
InventoryDone ==
    /\ pc = "inventory" /\ stage = "done"
    /\ pc' = "files" /\ todo' = Listed(manifest)
    /\ rehash' \in BOOLEAN /\ delete' \in BOOLEAN
    /\ UNCHANGED <<remoteVars, walkVars, fsVars>>

-----------------------------------------------------------------------------
(* One file of the snapshot.                                               *)

StagedServes(n) == staging.files[n] = Want(n)

\* The local copy is taken without a look at its bytes when both manifests agree.
Mutant_TrustManifest(n) ==
    destination.files[n] # "none" /\ (SameEntry(destination, manifest, n)
                                        \/ destination.files[n] = Want(n))
LocalServes(n) ==
    /\ destination.files[n] # "none"
    /\ (~ rehash /\ SameEntry(destination, manifest, n)) \/ destination.files[n] = Want(n)

Staged(n) == todo' = todo \ {n} /\ UNCHANGED <<remoteVars, walkVars, pc, rehash, delete>>

KeepStaged(n) ==
    /\ pc = "files" /\ n \in todo
    /\ StagedServes(n)
    /\ Staged(n)
    /\ UNCHANGED fsVars

\* _link_or_copy: a copy where the file system has no hard links.
LinkOrCopy(n) ==
    /\ staging' = [staging EXCEPT !.files[n] = destination.files[n]]
    /\ linked' = linked \cup {n} \/ linked' = linked \ {n}
    /\ UNCHANGED <<destination, backup>>

LinkLocal(n) ==
    /\ pc = "files" /\ n \in todo
    /\ ~ StagedServes(n) /\ LocalServes(n)
    /\ LinkOrCopy(n)
    /\ Staged(n)

\* The staged name is removed before it is written, so that a link left by an earlier
\* call is not written through.
Mutant_NotRemoved(n) == linked
Unlinked(n) == linked \ {n}

WriteStaged(n, c) ==
    /\ staging' = [staging EXCEPT !.files[n] = c]
    /\ linked' = Unlinked(n)
    /\ destination' = IF n \in Unlinked(n) THEN [destination EXCEPT !.files[n] = c]
                      ELSE destination
    /\ UNCHANGED backup

MustDownload(n) ==
    pc = "files" /\ n \in todo /\ ~ StagedServes(n) /\ ~ LocalServes(n)

\* pull_file_with_state: the object must be the one of the snapshot, and hash.
Downloads(n) == object[n] = sources[n] /\ object[n] = Want(n)

Download(n) ==
    /\ MustDownload(n) /\ Downloads(n)
    /\ WriteStaged(n, object[n])
    /\ Staged(n)

DownloadFails(n) ==
    /\ MustDownload(n)
    /\ \E c \in {"none", Partial} : WriteStaged(n, c)
    /\ Over
    /\ UNCHANGED remoteVars

FilesDone ==
    /\ pc = "files" /\ todo = {}
    /\ pc' = "extras" /\ todo' = IF delete THEN {} ELSE Extras
    /\ UNCHANGED <<remoteVars, walkVars, rehash, delete, fsVars>>

-----------------------------------------------------------------------------
(* Files the manifest does not list, the metadata, and the swap.           *)

\* os.link refuses a name that an interrupted call has already linked.
LinkExtra(n) ==
    /\ pc = "extras" /\ n \in todo /\ staging.files[n] = "none"
    /\ LinkOrCopy(n)
    /\ Staged(n)

ExtraIsThere(n) ==
    /\ pc = "extras" /\ n \in todo /\ staging.files[n] # "none"
    /\ Over
    /\ UNCHANGED <<remoteVars, fsVars>>

WriteSums ==
    /\ pc = "extras" /\ todo = {}
    /\ staging' = [staging EXCEPT !.sums = manifest]
    /\ pc' = "prune"
    /\ UNCHANGED <<remoteVars, walkVars, rehash, delete, todo, destination, backup, linked>>

Desired == Listed(manifest) \cup (IF delete THEN {} ELSE Extras)

Prune ==
    /\ pc = "prune"
    /\ staging' = [staging EXCEPT !.files =
                      [n \in Names |-> IF n \in Desired THEN @[n] ELSE "none"]]
    /\ linked' = linked \cap Desired
    /\ pc' = "swap"
    /\ UNCHANGED <<remoteVars, walkVars, rehash, delete, todo, destination, backup>>

\* _replace_directory: destination to backup, staging to destination, and when the
\* second rename fails the backup back again; then the backup goes, file by file.
Mutant_RemoveFirst ==
    /\ pc = "swap"
    /\ backup' = Absent /\ destination' = Absent
    /\ pc' = "swap2"
    /\ UNCHANGED <<remoteVars, walkVars, rehash, delete, todo, staging, linked>>
MoveAside ==
    /\ pc = "swap"
    /\ backup' = destination /\ destination' = Absent
    /\ pc' = "swap2"
    /\ UNCHANGED <<remoteVars, walkVars, rehash, delete, todo, staging, linked>>

MoveIn ==
    /\ pc = "swap2"
    /\ \/ /\ destination' = staging /\ staging' = Absent /\ linked' = {}
          /\ pc' = "cleanup"
       \/ pc' = "restore" /\ UNCHANGED <<destination, staging, linked>>
    /\ UNCHANGED <<remoteVars, walkVars, rehash, delete, todo, backup>>

Restore ==
    /\ pc = "restore"
    /\ destination' = backup /\ backup' = Absent
    /\ Over
    /\ UNCHANGED <<remoteVars, staging, linked>>

RemoveBackup ==
    /\ pc = "cleanup"
    /\ \/ /\ \E n \in Names : /\ backup.files[n] # "none"
                              /\ backup' = [backup EXCEPT !.files[n] = "none"]
          /\ UNCHANGED <<callVars, walkVars>>
       \/ backup' = Absent /\ Over
    /\ UNCHANGED <<remoteVars, destination, staging, linked>>

\* An operator inspects and removes what an interrupted call left behind.
OperatorRemovesBackup ==
    /\ pc = "idle" /\ destination.there /\ backup.there
    /\ backup' = Absent
    /\ UNCHANGED <<remoteVars, walkVars, callVars, destination, staging, linked>>

OperatorRemovesStaging ==
    /\ pc = "idle" /\ staging.there
    /\ staging' = Absent /\ linked' = {}
    /\ UNCHANGED <<remoteVars, walkVars, callVars, destination, backup>>

-----------------------------------------------------------------------------
SyncInit ==
    /\ InventoryInit
    /\ pc = "idle" /\ rehash = FALSE /\ delete = FALSE /\ todo = {}
    /\ \E d \in InitialDirectories : destination = Tree(d)
    /\ staging = Absent /\ backup = Absent /\ linked = {}

FileStep(n) ==
    KeepStaged(n) \/ LinkLocal(n) \/ Download(n) \/ DownloadFails(n) \/ LinkExtra(n)
      \/ ExtraIsThere(n)

SyncStep ==
    \/ ReadInventory \/ InventoryFails \/ InventoryDone
    \/ (\E n \in Names : FileStep(n))
    \/ FilesDone \/ WriteSums \/ Prune \/ MoveAside \/ MoveIn \/ Restore \/ RemoveBackup

SyncNext ==
    \/ Call \/ SyncStep \/ Interrupted
    \/ OperatorRemovesBackup \/ OperatorRemovesStaging
    \/ PublisherStep /\ UNCHANGED <<callVars, fsVars>>

SyncSpec == SyncInit /\ [][SyncNext]_syncVars

\* Awaited requests and threads return.
FairSyncSpec == SyncSpec /\ WF_syncVars(SyncStep)

-----------------------------------------------------------------------------
(* Properties.                                                             *)

Reader == INSTANCE ModelDirectory WITH directory <- Visible

\* src/README.md:89: a synchronisation "builds a hidden sibling replacement directory".
\* Wherever calls are cut short, the visible directory goes only from the old one to a
\* complete new one.
ImplementsDirectory == Reader!DirectorySpec

\* A call with rehash publishes nothing it has not hashed: the new directory is sound.
RehashIsSound == pc = "cleanup" /\ rehash => Sound(destination)

\* A call comes to an end, also with a server that repeats its cursors or lists a
\* prefix under itself.
SyncEnds == pc # "idle" ~> pc = "idle"
=============================================================================
