----------------------------- MODULE SyncProofs -----------------------------
(***************************************************************************)
(* Proofs about SyncDirectory, for every set of names, contents, versions  *)
(* and prefixes: its types, that a snapshot is one version, that a rehash  *)
(* is sound, and that sync_model implements ModelDirectory.                *)
(*                                                                         *)
(* The invariant has three parts: what the requests of the walk have       *)
(* established (WalkInv), which of the three directories are there in      *)
(* which phase (DirectoryInv), and what each phase of a call knows about   *)
(* the staging directory (StagingInv).                                     *)
(***************************************************************************)
EXTENDS SyncDirectory, TLAPS

WalkInv ==
    /\ object \in [Names -> Contents \cup {"none"}] /\ sums \in Versions
    /\ checksummed \in BOOLEAN
    /\ manifest \in Versions \cup {"none"}
    /\ stage \in {"list", "sums", "source"} => sources = NoSources
    /\ sources \in [Names -> Contents \cup {"none"}]
    /\ stage \in {"source", "access", "done"} =>
           manifest \in Versions /\ listed = Listed(manifest)
    /\ stage \in {"access", "done"} =>
           /\ Describes(Manifest[manifest][SourceName], listed)
           /\ \A n \in listed : sources[n] # "none" /\ checksummed =>
                                    sources[n] = Manifest[manifest][n]
    /\ stage = "done" => \A n \in listed : sources[n] # "none"

Trees == [there : BOOLEAN, files : [Names -> Contents \cup {"none", Partial}],
          sums : Versions \cup {"none"}]

Filling == {"files", "extras", "prune", "swap"}

DirectoryInv ==
    /\ pc \in Filling \cup {"idle", "inventory", "swap2", "restore", "cleanup"}
    /\ rehash \in BOOLEAN /\ delete \in BOOLEAN
    /\ todo \subseteq Names /\ linked \subseteq Names
    /\ destination \in Trees /\ staging \in Trees /\ backup \in Trees
    /\ ~ destination.there => backup.there
    /\ pc \in Filling \cup {"inventory"} => destination.there /\ ~ backup.there
    /\ pc \in {"swap2", "restore"} => ~ destination.there
    /\ pc = "cleanup" => destination.there
    /\ pc \in Filling \cup {"inventory", "swap2"} => staging.there
    /\ \A n \in linked : staging.files[n] = Visible.files[n]

\* A listed file is staged: it has the bytes of the manifest, or it was taken on the
\* word of both manifests.
Good(n) ==
    \/ staging.files[n] = Want(n)
    \/ /\ ~ rehash /\ SameEntry(Visible, manifest, n)
       /\ Visible.files[n] # "none" /\ staging.files[n] = Visible.files[n]

StagingInv ==
    /\ pc \in Filling \cup {"swap2"} => manifest \in Versions
    /\ pc = "files" => \A n \in Listed(manifest) \ todo : Good(n)
    /\ pc \in {"extras", "prune", "swap", "swap2"} => \A n \in Listed(manifest) : Good(n)
    /\ pc = "extras" /\ ~ delete =>
           \A n \in Names \ (Listed(manifest) \cup todo) :
               Visible.files[n] # "none" => staging.files[n] = Visible.files[n]
    /\ pc = "prune" /\ ~ delete =>
           \A n \in Names \ Listed(manifest) :
               Visible.files[n] # "none" => staging.files[n] = Visible.files[n]
    /\ pc \in {"swap", "swap2"} =>
           \/ \A n \in Names \ Listed(manifest) : staging.files[n] = Visible.files[n]
           \/ \A n \in Names \ Listed(manifest) : staging.files[n] = "none"
    /\ pc \in {"prune", "swap", "swap2"} => staging.sums = manifest
    /\ pc = "cleanup" /\ rehash => Sound(destination)

SyncInv == WalkInv /\ DirectoryInv /\ StagingInv

-----------------------------------------------------------------------------
(* The walk.                                                               *)

LEMMA ListedFacts ==
    \A v \in Versions : /\ Listed(v) \subseteq Names
                        /\ \A n \in Listed(v) : Manifest[v][n] \in Contents
<1> SUFFICES ASSUME NEW v \in Versions
             PROVE  /\ Listed(v) \subseteq Names
                    /\ \A n \in Listed(v) : Manifest[v][n] \in Contents
    OBVIOUS
<1>1. PICK S \in SUBSET Names : Manifest[v] \in [S -> Contents]
    BY ManifestAssumption
<1> QED BY <1>1 DEF Listed

LEMMA WalkStarts == InventoryInit => WalkInv
<1> SUFFICES ASSUME InventoryInit PROVE WalkInv
    OBVIOUS
<1>1. object \in [Names -> Contents \cup {"none"}]
    BY ListedFacts, PrefixAssumption DEF InventoryInit
<1> QED BY <1>1, PrefixAssumption DEF InventoryInit, WalkInv, NoSources

\* Every request of the walk keeps what the earlier ones established.
LEMMA WalkStepKeeps == WalkInv /\ WalkStep => WalkInv'
<1> SUFFICES ASSUME WalkInv, WalkStep PROVE WalkInv'
    OBVIOUS
<1>1. CASE \E p \in Prefixes : PopPrefix(p)
    BY <1>1 DEF WalkInv, PopPrefix, remoteVars, Describes
<1>2. CASE ListPage
    <2>1. stage = "list" /\ stage' \in {"list", "failed"}
        BY <1>2 DEF ListPage
    <2>2. UNCHANGED <<object, sums, checksummed, manifest, sources>>
        BY <1>2 DEF ListPage, remoteVars
    <2> QED BY <2>1, <2>2 DEF WalkInv, NoSources
<1>3. CASE ListingEnds
    BY <1>3 DEF WalkInv, ListingEnds, remoteVars, listingVars, NoSources
<1>4. CASE ReadSums
    BY <1>4 DEF WalkInv, ReadSums, remoteVars, listingVars, NoSources
<1>5. CASE ReadSource
    <2>1. listed = Listed(manifest) /\ manifest \in Versions /\ sources = NoSources
        BY <1>5 DEF WalkInv, ReadSource
    <2>2. \A n \in listed : sources[n] = "none"
        BY <2>1, ListedFacts DEF NoSources
    <2> QED BY <1>5, <2>1, <2>2
            DEF WalkInv, ReadSource, remoteVars, listingVars, Describes
<1>6. CASE \E n \in Names : Access(n)
    <2>1. PICK n \in Names : Access(n)
        BY <1>6
    <2>2. /\ listed = Listed(manifest) /\ manifest \in Versions
          /\ Describes(Manifest[manifest][SourceName], listed)
        BY <2>1 DEF WalkInv, Access
    <2>3. UNCHANGED <<object, sums, checksummed, listed, manifest>>
        BY <2>1 DEF Access, remoteVars, listingVars
    <2>4. Describes(Manifest[manifest][SourceName], listed)'
        BY <2>2, <2>3 DEF Describes
    <2>5. CASE stage' = "failed" /\ UNCHANGED sources
        BY <2>5, <2>3 DEF WalkInv
    <2>6. CASE /\ ~ Contradicts(n) /\ object[n] # "none"
               /\ sources' = [sources EXCEPT ![n] = object[n]]
               /\ stage' = IF \A m \in Listed(manifest) : sources'[m] # "none"
                           THEN "done" ELSE "access"
        <3>1. sources' \in [Names -> Contents \cup {"none"}]
            BY <2>6 DEF WalkInv
        <3>2. \A m \in listed : sources'[m] # "none" /\ checksummed =>
                                    sources'[m] = Manifest[manifest][m]
            BY <2>6, <2>1, <2>2, ListedFacts DEF WalkInv, Access, Contradicts
        <3> QED BY <2>6, <2>2, <2>3, <2>4, <3>1, <3>2 DEF WalkInv
    <2> QED BY <2>1, <2>5, <2>6 DEF Access
<1> QED BY <1>1, <1>2, <1>3, <1>4, <1>5, <1>6 DEF WalkStep

LEMMA PublisherKeeps == WalkInv /\ PublisherStep => WalkInv'
<1> SUFFICES ASSUME WalkInv, PublisherStep PROVE WalkInv'
    OBVIOUS
<1>1. CASE PublishSums
    BY <1>1, PrefixAssumption
    DEF WalkInv, PublishSums, walkVars, listingVars, Describes
<1>2. CASE \E n \in Names : PublishObject(n)
    <2>1. PICK n \in Names : PublishObject(n)
        BY <1>2
    <2>2. Uploaded(n) \in Contents \cup {"none"}
        BY ListedFacts, PrefixAssumption DEF Uploaded
    <2>3. object' \in [Names -> Contents \cup {"none"}]
        BY <2>1, <2>2 DEF PublishObject, WalkInv
    <2> QED BY <2>1, <2>3 DEF PublishObject, WalkInv, walkVars, listingVars, Describes
<1> QED BY <1>1, <1>2 DEF PublisherStep

LEMMA FreshWalkKeeps ==
    ASSUME WalkInv, UNCHANGED remoteVars, FreshWalk("list") \/ FreshWalk("idle")
    PROVE  WalkInv'
BY DEF WalkInv, remoteVars, FreshWalk, NoSources

LEMMA WalkKept ==
    ASSUME WalkInv, UNCHANGED <<remoteVars, walkVars>>
    PROVE  WalkInv'
BY DEF WalkInv, remoteVars, walkVars, listingVars, Describes

-----------------------------------------------------------------------------
(* The directories.  Each lemma takes one step of sync_model, and shows    *)
(* that the invariant is kept and what readers see is not changed.         *)

Keeps == DirectoryInv' /\ StagingInv' /\ UNCHANGED Visible

LEMMA DirectoriesStart == SyncInit => DirectoryInv /\ StagingInv
<1> SUFFICES ASSUME SyncInit PROVE DirectoryInv /\ StagingInv
    OBVIOUS
<1>1. Absent \in Trees
    BY DEF Absent, NoFiles, Trees
<1>2. \A d \in InitialDirectories : Tree(d) \in Trees
    BY InitialAssumption DEF Directories, Tree, Trees
<1>3. destination \in Trees /\ destination.there
    BY <1>2 DEF SyncInit, Tree
<1> QED BY <1>1, <1>3 DEF SyncInit, DirectoryInv, StagingInv, Filling, Absent

\* A call that ends anywhere leaves the directories as they are.
LEMMA OverKeeps ==
    ASSUME DirectoryInv, Over, UNCHANGED fsVars
    PROVE  Keeps
BY DEF DirectoryInv, StagingInv, Keeps, Over, fsVars, Filling, Visible, Trees

LEMMA CallKeeps == DirectoryInv /\ Call => Keeps
<1> SUFFICES ASSUME DirectoryInv, Call PROVE Keeps
    OBVIOUS
<1>1. Absent \in Trees /\ Tree(staging) \in Trees
    BY DEF Absent, NoFiles, Trees, Tree, DirectoryInv
<1>2. destination' \in Trees /\ backup' \in Trees /\ destination'.there /\ ~ backup'.there
    <2>1. CASE destination.there
        BY <2>1 DEF Call, DirectoryInv
    <2>2. CASE ~ destination.there
        <3>1. destination' = backup /\ backup' = Absent /\ backup.there
            BY <2>2 DEF Call, DirectoryInv
        <3> QED BY <3>1, <1>1 DEF DirectoryInv, Absent
    <2> QED BY <2>1, <2>2
<1>3. UNCHANGED Visible
    BY <1>2 DEF Call, DirectoryInv, Visible
<1>4. staging' \in Trees /\ staging'.there /\ staging'.files = staging.files
    BY <1>1 DEF Call, Tree
<1>5. /\ pc' = "inventory" /\ linked' = linked
      /\ rehash' = rehash /\ delete' = delete /\ todo' = todo
    BY DEF Call
<1>6. DirectoryInv'
    BY <1>2, <1>3, <1>4, <1>5 DEF DirectoryInv, Filling
<1> QED BY <1>3, <1>5, <1>6 DEF Keeps, StagingInv, Filling

LEMMA InventoryKeeps == DirectoryInv /\ ReadInventory => Keeps
BY DEF DirectoryInv, StagingInv, Keeps, ReadInventory, callVars, fsVars, Filling, Visible

LEMMA InventoryDoneKeeps == WalkInv /\ DirectoryInv /\ InventoryDone => Keeps
<1> SUFFICES ASSUME WalkInv, DirectoryInv, InventoryDone PROVE Keeps
    OBVIOUS
<1>1. UNCHANGED <<destination, staging, backup, linked, manifest>>
    BY DEF InventoryDone, fsVars, walkVars
<1>2. /\ pc = "inventory" /\ pc' = "files" /\ todo' = Listed(manifest)
      /\ rehash' \in BOOLEAN /\ delete' \in BOOLEAN
      /\ manifest \in Versions
    BY DEF InventoryDone, WalkInv
<1>3. UNCHANGED Visible
    BY <1>1 DEF Visible
<1>4. DirectoryInv'
    BY <1>1, <1>2, <1>3, ListedFacts DEF DirectoryInv, Filling
<1> QED BY <1>1, <1>2, <1>3, <1>4 DEF Keeps, StagingInv, Filling

-----------------------------------------------------------------------------
(* Files that are staged.                                                  *)

\* What a step may do to one file of the staging directory.
StagesFile(n, c) ==
    /\ staging' = [staging EXCEPT !.files[n] = c]
    /\ linked' \subseteq linked \cup {n}
    /\ n \in linked' => c = Visible.files[n]
    /\ UNCHANGED <<destination, backup>>

LEMMA StagedFile ==
    ASSUME DirectoryInv, NEW n \in Names, NEW c \in Contents \cup {"none", Partial},
           StagesFile(n, c)
    PROVE  /\ staging' \in Trees /\ staging'.there = staging.there
           /\ staging'.sums = staging.sums
           /\ staging'.files[n] = c
           /\ \A m \in Names \ {n} : staging'.files[m] = staging.files[m]
           /\ UNCHANGED Visible
           /\ linked' \subseteq Names
           /\ \A m \in linked' : staging'.files[m] = Visible.files[m]
<1>1. /\ staging' \in Trees /\ staging'.there = staging.there
      /\ staging'.sums = staging.sums
      /\ staging'.files[n] = c
      /\ \A m \in Names \ {n} : staging'.files[m] = staging.files[m]
    BY DEF StagesFile, DirectoryInv, Trees
<1>2. UNCHANGED Visible
    BY DEF StagesFile, Visible
<1>3. linked' \subseteq Names
    BY DEF StagesFile, DirectoryInv
<1>4. ASSUME NEW m \in linked' PROVE staging'.files[m] = Visible.files[m]
    BY <1>1, <1>3, <1>4 DEF StagesFile, DirectoryInv
<1> QED BY <1>1, <1>2, <1>3, <1>4

\* A file of the manifest that is staged well completes its part of the invariant.
LEMMA StagedWell ==
    ASSUME DirectoryInv, StagingInv, NEW n \in Names,
           NEW c \in Contents \cup {"none", Partial},
           StagesFile(n, c), pc = "files", UNCHANGED <<pc, rehash, delete, manifest>>,
           todo' = todo \ {n},
           n \in Listed(manifest) =>
               \/ c = Want(n)
               \/ /\ ~ rehash /\ SameEntry(Visible, manifest, n)
                  /\ Visible.files[n] # "none" /\ c = Visible.files[n]
    PROVE  Keeps
<1>1. DirectoryInv'
    BY StagedFile DEF DirectoryInv, Filling, StagesFile
<1>2. manifest \in Versions /\ Listed(manifest) \subseteq Names
    BY ListedFacts DEF StagingInv, Filling
<1>3. ASSUME NEW m \in Listed(manifest) \ todo' PROVE Good(m)'
    <2>1. CASE m = n
        BY <2>1, <1>2, <1>3, StagedFile DEF Good, Want
    <2>2. CASE m # n
        <3>1. Good(m) /\ m \in Names
            BY <2>2, <1>2, <1>3 DEF StagingInv
        <3>2. staging'.files[m] = staging.files[m] /\ UNCHANGED Visible
            BY <3>1, <2>2, StagedFile
        <3> QED BY <3>1, <3>2 DEF Good, Want
    <2> QED BY <2>1, <2>2
<1> QED BY <1>1, <1>2, <1>3, StagedFile DEF Keeps, StagingInv, Filling

LEMMA KeepStagedKeeps ==
    ASSUME DirectoryInv, StagingInv, NEW n \in Names, KeepStaged(n)
    PROVE  Keeps
<1>1. /\ pc = "files" /\ staging.files[n] = Want(n) /\ todo' = todo \ {n}
      /\ UNCHANGED <<pc, rehash, delete, manifest, destination, staging, backup, linked>>
    BY DEF KeepStaged, StagedServes, Staged, fsVars, walkVars
<1>2. UNCHANGED Visible
    BY <1>1 DEF Visible
<1>3. DirectoryInv'
    BY <1>1, <1>2 DEF DirectoryInv, Filling
<1>4. ASSUME NEW m \in Listed(manifest) \ todo' PROVE Good(m)'
    BY <1>1, <1>2, <1>4 DEF StagingInv, Good, Want
<1> QED BY <1>1, <1>2, <1>3, <1>4 DEF Keeps, StagingInv, Filling

LEMMA LinkLocalKeeps ==
    ASSUME DirectoryInv, StagingInv, NEW n \in Names, LinkLocal(n)
    PROVE  Keeps
<1> DEFINE c == destination.files[n]
<1>1. /\ pc = "files" /\ todo' = todo \ {n}
      /\ UNCHANGED <<pc, rehash, delete, manifest>>
    BY DEF LinkLocal, Staged, walkVars
<1>2. destination.there /\ Visible.files = destination.files
                        /\ Visible.sums = destination.sums
    BY <1>1 DEF DirectoryInv, Filling, Visible
<1>3. c \in Contents \cup {"none", Partial}
    BY DEF DirectoryInv, Trees
<1>4. StagesFile(n, c)
    BY <1>2 DEF LinkLocal, LinkOrCopy, StagesFile
<1>5. \/ c = Want(n)
      \/ /\ ~ rehash /\ SameEntry(Visible, manifest, n)
         /\ Visible.files[n] # "none" /\ c = Visible.files[n]
    BY <1>2 DEF LinkLocal, LocalServes, SameEntry
<1> QED BY <1>1, <1>3, <1>4, <1>5, StagedWell

\* A download writes a new file, never one that readers see.
LEMMA WriteStagesFile ==
    ASSUME DirectoryInv, NEW n \in Names, NEW c, WriteStaged(n, c)
    PROVE  StagesFile(n, c)
BY DEF WriteStaged, Unlinked, StagesFile

LEMMA DownloadKeeps ==
    ASSUME WalkInv, DirectoryInv, StagingInv, NEW n \in Names, Download(n)
    PROVE  Keeps
<1>1. /\ pc = "files" /\ todo' = todo \ {n}
      /\ UNCHANGED <<pc, rehash, delete, manifest>>
    BY DEF Download, MustDownload, Staged, walkVars
<1>2. object[n] \in Contents \cup {"none", Partial} /\ object[n] = Want(n)
    BY DEF WalkInv, Download, Downloads
<1>3. StagesFile(n, object[n])
    BY WriteStagesFile DEF Download
<1> QED BY <1>1, <1>2, <1>3, StagedWell

LEMMA DownloadFailsKeeps ==
    ASSUME DirectoryInv, NEW n \in Names, DownloadFails(n)
    PROVE  Keeps
<1>1. PICK c \in {"none", Partial} : WriteStaged(n, c)
    BY DEF DownloadFails
<1>2. StagesFile(n, c)
    BY <1>1, WriteStagesFile
<1>3. /\ pc' = "idle" /\ rehash' = FALSE /\ delete' = FALSE /\ todo' = {}
      /\ UNCHANGED <<destination, backup>>
    BY <1>2 DEF DownloadFails, Over, StagesFile
<1>4. DirectoryInv'
    BY <1>2, <1>3, StagedFile DEF DirectoryInv, Filling
<1> QED BY <1>2, <1>3, <1>4, StagedFile DEF Keeps, StagingInv, Filling

-----------------------------------------------------------------------------
(* From the extra files to the swap.                                       *)

LEMMA FilesDoneKeeps == DirectoryInv /\ StagingInv /\ FilesDone => Keeps
<1> SUFFICES ASSUME DirectoryInv, StagingInv, FilesDone PROVE Keeps
    OBVIOUS
<1>1. /\ pc = "files" /\ todo = {} /\ pc' = "extras"
      /\ todo' = (IF delete THEN {} ELSE Extras)
      /\ UNCHANGED <<rehash, delete, manifest, destination, staging, backup, linked>>
    BY DEF FilesDone, fsVars, walkVars
<1>2. UNCHANGED Visible
    BY <1>1 DEF Visible
<1>3. Visible.files = destination.files
    BY <1>1 DEF DirectoryInv, Filling, Visible
<1>4. DirectoryInv'
    BY <1>1, <1>2 DEF DirectoryInv, Filling, Extras
<1>5. ASSUME NEW n \in Listed(manifest) PROVE Good(n)'
    BY <1>1, <1>2 DEF StagingInv, Good, Want
<1>6. ASSUME ~ delete, NEW n \in Names \ (Listed(manifest) \cup todo')
      PROVE  Visible.files[n] = "none"
    BY <1>1, <1>3, <1>6 DEF Extras
<1> QED BY <1>1, <1>2, <1>4, <1>5, <1>6 DEF Keeps, StagingInv, Filling

\* An extra file is a copy of the one that readers see.
LEMMA LinkExtraKeeps ==
    ASSUME DirectoryInv, StagingInv, NEW n \in Names, LinkExtra(n)
    PROVE  Keeps
<1> DEFINE c == destination.files[n]
<1>1. /\ pc = "extras" /\ n \in todo /\ todo' = todo \ {n}
      /\ staging.files[n] = "none"
      /\ UNCHANGED <<pc, rehash, delete, manifest>>
    BY DEF LinkExtra, Staged, walkVars
<1>2. Visible.files = destination.files
    BY <1>1 DEF DirectoryInv, Filling, Visible
<1>3. c \in Contents \cup {"none", Partial}
    BY DEF DirectoryInv, Trees
<1>4. StagesFile(n, c)
    BY <1>2 DEF LinkExtra, LinkOrCopy, StagesFile
<1>5. DirectoryInv'
    BY <1>1, <1>3, <1>4, StagedFile DEF DirectoryInv, Filling, StagesFile
<1>6. manifest \in Versions /\ Listed(manifest) \subseteq Names
    BY <1>1, ListedFacts DEF StagingInv, Filling
<1>7. ASSUME NEW m \in Listed(manifest) PROVE Good(m)'
    <2>1. Good(m) /\ Want(m) # "none"
        BY <1>1, <1>6, ListedFacts, ManifestAssumption DEF StagingInv, Want
    <2>2. m # n
        BY <2>1, <1>1 DEF Good
    <2>3. staging'.files[m] = staging.files[m] /\ UNCHANGED Visible
        BY <2>2, <1>3, <1>4, <1>6, StagedFile
    <2> QED BY <2>1, <2>3, <1>1 DEF Good, Want
<1>8. ASSUME ~ delete, NEW m \in Names \ (Listed(manifest) \cup todo'),
             Visible.files[m] # "none"
      PROVE  staging'.files[m] = Visible.files[m]
    BY <1>1, <1>2, <1>3, <1>4, <1>8, StagedFile DEF StagingInv
<1> QED BY <1>1, <1>3, <1>4, <1>5, <1>6, <1>7, <1>8, StagedFile
        DEF Keeps, StagingInv, Filling

LEMMA WriteSumsKeeps == DirectoryInv /\ StagingInv /\ WriteSums => Keeps
<1> SUFFICES ASSUME DirectoryInv, StagingInv, WriteSums PROVE Keeps
    OBVIOUS
<1>1. /\ pc = "extras" /\ todo = {} /\ pc' = "prune"
      /\ staging' = [staging EXCEPT !.sums = manifest]
      /\ UNCHANGED <<rehash, delete, todo, manifest, destination, backup, linked>>
    BY DEF WriteSums, walkVars
<1>2. manifest \in Versions
    BY <1>1 DEF StagingInv, Filling
<1>3. /\ staging' \in Trees /\ staging'.there = staging.there
      /\ staging'.files = staging.files /\ staging'.sums = manifest
    BY <1>1, <1>2 DEF DirectoryInv, Trees
<1>4. UNCHANGED Visible
    BY <1>1 DEF Visible
<1>5. DirectoryInv'
    BY <1>1, <1>3, <1>4 DEF DirectoryInv, Filling
<1>6. ASSUME NEW n \in Listed(manifest) PROVE Good(n)'
    BY <1>1, <1>3, <1>4 DEF StagingInv, Good, Want
<1> QED BY <1>1, <1>2, <1>3, <1>4, <1>5, <1>6 DEF Keeps, StagingInv, Filling

LEMMA PruneKeeps == DirectoryInv /\ StagingInv /\ Prune => Keeps
<1> SUFFICES ASSUME DirectoryInv, StagingInv, Prune PROVE Keeps
    OBVIOUS
<1>1. /\ pc = "prune" /\ pc' = "swap" /\ linked' = linked \cap Desired
      /\ UNCHANGED <<rehash, delete, todo, manifest, destination, backup>>
    BY DEF Prune, walkVars
<1>2. staging' = [staging EXCEPT !.files =
                     [n \in Names |-> IF n \in Desired THEN staging.files[n] ELSE "none"]]
    BY DEF Prune
<1>3. /\ staging' \in Trees /\ staging'.there = staging.there
      /\ staging'.sums = staging.sums
      /\ \A n \in Names : staging'.files[n] =
             IF n \in Desired THEN staging.files[n] ELSE "none"
    BY <1>2 DEF DirectoryInv, Trees
<1>4. UNCHANGED Visible /\ Visible.files = destination.files
    BY <1>1 DEF Visible, DirectoryInv, Filling
<1>5. ASSUME NEW n \in linked' PROVE staging'.files[n] = Visible.files[n]
    <2>1. n \in linked /\ n \in Desired /\ n \in Names
        BY <1>1, <1>5 DEF DirectoryInv
    <2> QED BY <2>1, <1>3 DEF DirectoryInv
<1>6. DirectoryInv'
    BY <1>1, <1>3, <1>4, <1>5 DEF DirectoryInv, Filling
<1>7. manifest \in Versions /\ Listed(manifest) \subseteq Names
    BY <1>1, ListedFacts DEF StagingInv, Filling
<1>8. ASSUME NEW n \in Listed(manifest) PROVE Good(n)'
    <2>1. staging'.files[n] = staging.files[n]
        BY <1>3, <1>7 DEF Desired
    <2> QED BY <2>1, <1>1, <1>4 DEF StagingInv, Good, Want
<1>9. \/ \A n \in Names \ Listed(manifest) : staging'.files[n] = Visible.files[n]
      \/ \A n \in Names \ Listed(manifest) : staging'.files[n] = "none"
    <2>1. CASE delete
        BY <2>1, <1>3 DEF Desired
    <2>2. CASE ~ delete
        <3>1. ASSUME NEW n \in Names \ Listed(manifest)
              PROVE  staging'.files[n] = Visible.files[n]
            BY <2>2, <1>1, <1>3, <1>4 DEF Desired, Extras, StagingInv
        <3> QED BY <3>1
    <2> QED BY <2>1, <2>2
<1> QED BY <1>1, <1>3, <1>4, <1>6, <1>7, <1>8, <1>9 DEF Keeps, StagingInv, Filling

LEMMA MoveAsideKeeps == DirectoryInv /\ StagingInv /\ MoveAside => Keeps
<1> SUFFICES ASSUME DirectoryInv, StagingInv, MoveAside PROVE Keeps
    OBVIOUS
<1>1. /\ pc = "swap" /\ pc' = "swap2"
      /\ backup' = destination /\ destination' = Absent
      /\ UNCHANGED <<rehash, delete, todo, manifest, staging, linked>>
    BY DEF MoveAside, walkVars
<1>2. Absent \in Trees /\ ~ Absent.there
    BY DEF Absent, NoFiles, Trees
<1>3. destination.there
    BY <1>1 DEF DirectoryInv, Filling
<1>4. UNCHANGED Visible
    BY <1>1, <1>2, <1>3 DEF Visible
<1>5. DirectoryInv'
    BY <1>1, <1>2, <1>3, <1>4 DEF DirectoryInv, Filling
<1>6. ASSUME NEW n \in Listed(manifest) PROVE Good(n)'
    BY <1>1, <1>4 DEF StagingInv, Good, Want
<1> QED BY <1>1, <1>4, <1>5, <1>6 DEF Keeps, StagingInv, Filling

LEMMA RestoreKeeps == DirectoryInv /\ Restore => Keeps
<1> SUFFICES ASSUME DirectoryInv, Restore PROVE Keeps
    OBVIOUS
<1>1. /\ pc = "restore" /\ pc' = "idle" /\ rehash' = FALSE /\ delete' = FALSE
      /\ todo' = {} /\ destination' = backup /\ backup' = Absent
      /\ UNCHANGED <<staging, linked>>
    BY DEF Restore, Over
<1>2. Absent \in Trees /\ ~ Absent.there
    BY DEF Absent, NoFiles, Trees
<1>3. ~ destination.there /\ backup.there
    BY <1>1 DEF DirectoryInv
<1>4. UNCHANGED Visible
    BY <1>1, <1>3 DEF Visible
<1>5. DirectoryInv'
    BY <1>1, <1>2, <1>3, <1>4 DEF DirectoryInv, Filling
<1> QED BY <1>1, <1>4, <1>5 DEF Keeps, StagingInv, Filling

LEMMA RemoveBackupKeeps == DirectoryInv /\ StagingInv /\ RemoveBackup => Keeps
<1> SUFFICES ASSUME DirectoryInv, StagingInv, RemoveBackup PROVE Keeps
    OBVIOUS
<1>1. pc = "cleanup" /\ UNCHANGED <<destination, staging, linked>>
    BY DEF RemoveBackup
<1>2. destination.there
    BY <1>1 DEF DirectoryInv
<1>3. UNCHANGED Visible
    BY <1>1, <1>2 DEF Visible
<1>4. backup' \in Trees
    <2>1. Absent \in Trees
        BY DEF Absent, NoFiles, Trees
    <2>2. ASSUME NEW n \in Names, backup' = [backup EXCEPT !.files[n] = "none"]
          PROVE  backup' \in Trees
        BY <2>2 DEF DirectoryInv, Trees
    <2> QED BY <2>1, <2>2 DEF RemoveBackup
<1>5. CASE UNCHANGED <<callVars, walkVars>>
    <2>1. UNCHANGED <<pc, rehash, delete, todo>>
        BY <1>5 DEF callVars
    <2>2. DirectoryInv'
        BY <1>1, <1>2, <1>3, <1>4, <2>1 DEF DirectoryInv, Filling
    <2> QED BY <1>1, <1>3, <2>1, <2>2 DEF Keeps, StagingInv, Filling
<1>6. CASE Over
    <2>1. pc' = "idle" /\ rehash' = FALSE /\ delete' = FALSE /\ todo' = {}
        BY <1>6 DEF Over
    <2>2. DirectoryInv'
        BY <1>1, <1>2, <1>3, <1>4, <2>1 DEF DirectoryInv, Filling
    <2> QED BY <1>3, <2>1, <2>2 DEF Keeps, StagingInv, Filling
<1> QED BY <1>5, <1>6 DEF RemoveBackup

LEMMA OperatorKeeps ==
    DirectoryInv /\ StagingInv /\ (OperatorRemovesBackup \/ OperatorRemovesStaging) => Keeps
<1> SUFFICES ASSUME DirectoryInv, StagingInv,
                    OperatorRemovesBackup \/ OperatorRemovesStaging
             PROVE  Keeps
    OBVIOUS
<1>1. Absent \in Trees /\ ~ Absent.there
    BY DEF Absent, NoFiles, Trees
<1>2. /\ pc = "idle" /\ UNCHANGED <<pc, rehash, delete, todo, destination>>
      /\ \/ /\ destination.there /\ backup' = Absent /\ UNCHANGED <<staging, linked>>
         \/ staging' = Absent /\ linked' = {} /\ UNCHANGED backup
    BY DEF OperatorRemovesBackup, OperatorRemovesStaging, callVars
<1>3. UNCHANGED Visible
    BY <1>2 DEF Visible
<1>4. DirectoryInv'
    BY <1>1, <1>2, <1>3 DEF DirectoryInv, Filling
<1> QED BY <1>2, <1>3, <1>4 DEF Keeps, StagingInv, Filling

-----------------------------------------------------------------------------
(* The one step that readers see.                                          *)

\* What is moved in is complete, and sound after a rehash.
LEMMA MovedIn ==
    ASSUME DirectoryInv, StagingInv, pc = "swap2"
    PROVE  /\ Reader!Replaces(Visible, manifest, [files |-> staging.files,
                                                  sums |-> staging.sums])
           /\ rehash => Sound(staging)
<1>1. manifest \in Versions /\ staging.sums = manifest
    BY DEF StagingInv
<1>2. \A n \in Listed(manifest) : Good(n)
    BY DEF StagingInv
<1>3. \/ \A n \in Names \ Listed(manifest) : staging.files[n] = Visible.files[n]
      \/ \A n \in Names \ Listed(manifest) : staging.files[n] = "none"
    BY DEF StagingInv
<1>4. Reader!Replaces(Visible, manifest, [files |-> staging.files, sums |-> staging.sums])
    <2> DEFINE new == [files |-> staging.files, sums |-> staging.sums]
    <2>1. new.files = staging.files /\ new.sums = manifest
        BY <1>1
    <2>2. Reader!Listed(manifest) = Listed(manifest)
        BY DEF Reader!Listed, Listed
    <2>3. ASSUME NEW n \in Listed(manifest)
          PROVE  \/ new.files[n] = Manifest[manifest][n]
                 \/ /\ Reader!SameEntry(Visible, manifest, n)
                    /\ Visible.files[n] # "none" /\ new.files[n] = Visible.files[n]
        <3>1. Good(n)
            BY <1>2
        <3>2. SameEntry(Visible, manifest, n) => Reader!SameEntry(Visible, manifest, n)
            BY DEF SameEntry, Reader!SameEntry, Listed, Reader!Listed
        <3> QED BY <2>1, <3>1, <3>2 DEF Good, Want
    <2>4. \/ \A n \in Names \ Listed(manifest) : new.files[n] = Visible.files[n]
          \/ \A n \in Names \ Listed(manifest) : new.files[n] = "none"
        BY <1>3, <2>1
    <2> HIDE DEF new
    <2>5. Reader!Replaces(Visible, manifest, new)
        BY <2>1, <2>2, <2>3, <2>4 DEF Reader!Replaces
    <2> QED BY <2>5 DEF new
<1>5. rehash => Sound(staging)
    BY <1>1, <1>2 DEF Sound, Good, Want
<1> QED BY <1>4, <1>5

LEMMA MoveInKeeps ==
    ASSUME DirectoryInv, StagingInv, MoveIn
    PROVE  /\ DirectoryInv' /\ StagingInv'
           /\ UNCHANGED Visible \/ Reader!Replace
<1>1. CASE pc' = "restore" /\ UNCHANGED <<destination, staging, linked>>
    <2>1. pc = "swap2" /\ UNCHANGED <<rehash, delete, todo, backup>>
        BY DEF MoveIn
    <2>2. UNCHANGED Visible
        BY <2>1, <1>1 DEF Visible
    <2> QED BY <2>1, <2>2, <1>1 DEF DirectoryInv, StagingInv, Filling
<1>2. CASE /\ destination' = staging /\ staging' = Absent /\ linked' = {}
           /\ pc' = "cleanup"
    <2>1. pc = "swap2" /\ UNCHANGED <<rehash, delete, todo, backup>>
        BY DEF MoveIn
    <2>2. Absent \in Trees
        BY DEF Absent, NoFiles, Trees
    <2>3. staging.there /\ manifest \in Versions
        BY <2>1 DEF DirectoryInv, StagingInv, Filling
    <2>4. Visible' = [files |-> staging.files, sums |-> staging.sums]
        BY <1>2, <2>3 DEF Visible
    <2>5. Reader!Replace
        BY <2>1, <2>3, <2>4, MovedIn DEF Reader!Replace
    <2>6. DirectoryInv'
        BY <1>2, <2>1, <2>2, <2>3 DEF DirectoryInv, Filling
    <2>7. StagingInv'
        BY <1>2, <2>1, MovedIn DEF StagingInv, Sound, Filling
    <2> QED BY <2>5, <2>6, <2>7
<1> QED BY <1>1, <1>2 DEF MoveIn

-----------------------------------------------------------------------------
(* Every step, and the theorems.                                           *)

LEMMA DirectoriesKeep ==
    ASSUME WalkInv, DirectoryInv, StagingInv, SyncNext
    PROVE  /\ DirectoryInv' /\ StagingInv'
           /\ UNCHANGED Visible \/ Reader!Replace
<1>1. CASE Call
    BY <1>1, CallKeeps DEF Keeps
<1>2. CASE ReadInventory
    BY <1>2, InventoryKeeps DEF Keeps
<1>3. CASE InventoryFails
    BY <1>3, OverKeeps DEF InventoryFails, Keeps
<1>4. CASE InventoryDone
    BY <1>4, InventoryDoneKeeps DEF Keeps
<1>5. CASE \E n \in Names : FileStep(n)
    <2>1. PICK n \in Names : FileStep(n)
        BY <1>5
    <2>2. CASE ExtraIsThere(n)
        BY <2>2, OverKeeps DEF ExtraIsThere, Keeps
    <2> QED BY <2>1, <2>2, KeepStagedKeeps, LinkLocalKeeps, DownloadKeeps,
               DownloadFailsKeeps, LinkExtraKeeps DEF FileStep, Keeps
<1>6. CASE FilesDone \/ WriteSums \/ Prune
    BY <1>6, FilesDoneKeeps, WriteSumsKeeps, PruneKeeps DEF Keeps
<1>7. CASE MoveAside \/ Restore \/ RemoveBackup
    BY <1>7, MoveAsideKeeps, RestoreKeeps, RemoveBackupKeeps DEF Keeps
<1>8. CASE MoveIn
    BY <1>8, MoveInKeeps
<1>9. CASE Interrupted
    BY <1>9, OverKeeps DEF Interrupted, Keeps
<1>10. CASE OperatorRemovesBackup \/ OperatorRemovesStaging
    BY <1>10, OperatorKeeps DEF Keeps
<1>11. CASE PublisherStep /\ UNCHANGED <<callVars, fsVars>>
    <2>1. UNCHANGED <<pc, rehash, delete, todo, destination, staging, backup, linked>>
        BY <1>11 DEF callVars, fsVars
    <2>2. UNCHANGED manifest
        BY <1>11 DEF PublisherStep, PublishSums, PublishObject, walkVars
    <2> QED BY <2>1, <2>2 DEF DirectoryInv, StagingInv, Visible, Good, Want
<1> QED BY <1>1, <1>2, <1>3, <1>4, <1>5, <1>6, <1>7, <1>8, <1>9, <1>10, <1>11
        DEF SyncNext, SyncStep

LEMMA WalkKeeps ==
    ASSUME WalkInv, SyncNext
    PROVE  WalkInv'
<1>1. CASE WalkStep
    BY <1>1, WalkStepKeeps
<1>2. CASE PublisherStep
    BY <1>2, PublisherKeeps
<1>3. CASE UNCHANGED remoteVars /\ (FreshWalk("list") \/ FreshWalk("idle"))
    BY <1>3, FreshWalkKeeps
<1>4. CASE UNCHANGED <<remoteVars, walkVars>>
    BY <1>4, WalkKept
<1>5. CASE Call \/ Interrupted \/ InventoryFails \/ Restore
    BY <1>3, <1>5 DEF Call, Interrupted, InventoryFails, Restore, Over
<1>6. CASE \E n \in Names : FileStep(n)
    BY <1>3, <1>4, <1>6
       DEF FileStep, KeepStaged, LinkLocal, Download, DownloadFails, LinkExtra,
           ExtraIsThere, Staged, Over
<1>7. CASE RemoveBackup
    BY <1>3, <1>4, <1>7 DEF RemoveBackup, Over
<1>8. CASE InventoryDone \/ FilesDone \/ WriteSums \/ Prune \/ MoveAside \/ MoveIn
              \/ OperatorRemovesBackup \/ OperatorRemovesStaging
    BY <1>4, <1>8 DEF InventoryDone, FilesDone, WriteSums, Prune, MoveAside, MoveIn,
                      OperatorRemovesBackup, OperatorRemovesStaging
<1> QED BY <1>1, <1>2, <1>5, <1>6, <1>7, <1>8 DEF SyncNext, SyncStep, ReadInventory

LEMMA StutterKeeps == SyncInv /\ UNCHANGED syncVars => SyncInv' /\ UNCHANGED Visible
<1> SUFFICES ASSUME SyncInv, UNCHANGED syncVars PROVE SyncInv' /\ UNCHANGED Visible
    OBVIOUS
<1>1. WalkInv'
    BY WalkKept DEF SyncInv, syncVars
<1>2. UNCHANGED <<pc, rehash, delete, todo, destination, staging, backup, linked, manifest>>
    BY DEF syncVars, callVars, fsVars, walkVars
<1>3. UNCHANGED Visible
    BY <1>2 DEF Visible
<1> QED BY <1>1, <1>2, <1>3 DEF SyncInv, DirectoryInv, StagingInv, Good, Want

\* The invariant the theorems below rest on.
THEOREM SyncInvariant == SyncSpec => []SyncInv
<1>1. SyncInit => SyncInv
    BY WalkStarts, DirectoriesStart DEF SyncInit, SyncInv
<1>2. SyncInv /\ [SyncNext]_syncVars => SyncInv'
    BY DirectoriesKeep, WalkKeeps, StutterKeeps DEF SyncInv
<1> QED BY <1>1, <1>2, PTL DEF SyncSpec

\* sync_model keeps its three directories apart: one of destination and backup is always
\* there, and a staged hard link is never written through.
THEOREM SyncTypes == SyncSpec => []SyncTypeOK
<1>1. SyncInv => SyncTypeOK
    BY DEF SyncInv, DirectoryInv, SyncTypeOK, Trees, Filling
<1> QED BY <1>1, SyncInvariant, PTL

\* A snapshot is one published version, whatever a publisher does between the requests.
THEOREM SnapshotsAreOne == SyncSpec => []SnapshotIsOneManifest
<1>1. SyncInv => SnapshotIsOneManifest
    BY DEF SyncInv, WalkInv, SnapshotIsOneManifest
<1> QED BY <1>1, SyncInvariant, PTL

\* A call with rehash publishes a directory whose listed files all hash to its SHA256SUMS.
THEOREM RehashSound == SyncSpec => []RehashIsSound
<1>1. SyncInv => RehashIsSound
    BY DEF SyncInv, StagingInv, RehashIsSound
<1> QED BY <1>1, SyncInvariant, PTL

\* Readers see the old directory or a complete new one, wherever calls are cut short.
THEOREM SyncImplementsDirectory == SyncSpec => ImplementsDirectory
<1>1. SyncInit => Reader!DirectoryInit
    <2> SUFFICES ASSUME SyncInit PROVE Reader!DirectoryInit
        OBVIOUS
    <2>1. PICK d \in InitialDirectories : destination = Tree(d)
        BY DEF SyncInit
    <2>2. d \in Directories
        BY InitialAssumption
    <2>3. Visible = [files |-> d.files, sums |-> d.sums]
        BY <2>1 DEF Visible, Tree
    <2> QED BY <2>2, <2>3 DEF Reader!DirectoryInit, Reader!Directories, Directories
<1>2. SyncInv /\ [SyncNext]_syncVars => [Reader!Replace]_Visible
    BY DirectoriesKeep, StutterKeeps DEF SyncInv
<1>3. SyncSpec => Reader!DirectorySpec
    BY <1>1, <1>2, SyncInvariant, PTL DEF SyncSpec, Reader!DirectorySpec
<1> QED BY <1>3 DEF ImplementsDirectory
=============================================================================
