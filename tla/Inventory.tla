------------------------------ MODULE Inventory ------------------------------
(***************************************************************************)
(* snapshot_model of snapshot.py with list_all, read_small and access of   *)
(* client.py: a client reads the inventory of a model by many requests,    *)
(* prefix by prefix, page by page and file by file, while a publisher      *)
(* replaces the model object by object.                                    *)
(*                                                                         *)
(* The server is external: it lists what it has under a prefix in pages    *)
(* of any size, and it may repeat a cursor or list a prefix under itself.  *)
(* Sizes only add refusals and are left out: all objects of one name have  *)
(* the same size here, so that a hash alone tells them apart.  A request   *)
(* that fails ends the call, which is a step of the caller.                *)
(***************************************************************************)
EXTENDS Manifests

CONSTANTS
    SourceName,   \* .source.json
    Prefixes,     \* the prefixes of the model's names
    Root,         \* the empty prefix
    PrefixOf,     \* the prefix each name is listed under
    Old, New,     \* the version the model has, and the one that replaces it
    Faults        \* what the server may do: "repeat" a cursor or a prefix

ASSUME PrefixAssumption ==
    /\ Root \in Prefixes /\ SourceName \in Names
    /\ PrefixOf \in [Names -> Prefixes]
    /\ {Old, New} \subseteq Versions
ASSUME FaultsAssumption == Faults \subseteq {"repeat"}

VARIABLES
    object,      \* the objects the server has
    sums,        \* its SHA256SUMS
    checksummed, \* whether access answers carry a checksum
    stage,       \* what snapshot_model is about to do
    pending,     \* prefixes to list
    visited,     \* prefixes listed
    prefix,      \* the prefix of the listing in progress, or "none"
    cursor,      \* where its next page starts: the names already returned
    seen,        \* its seen_cursors
    listed,      \* the names found so far
    duplicate,   \* some name was found twice
    manifest,    \* the SHA256SUMS read
    sources      \* the object each access answer described

remoteVars  == <<object, sums, checksummed>>
listingVars == <<pending, visited, prefix, cursor, seen, listed, duplicate>>
walkVars    == <<stage, listingVars, manifest, sources>>

NoSources == [n \in Names |-> "none"]

\* The local variables of snapshot_model as a call begins (and after it).
FreshWalk(s) ==
    /\ stage' = s
    /\ pending' = {Root} /\ visited' = {} /\ prefix' = "none"
    /\ cursor' = {} /\ seen' = {} /\ listed' = {} /\ duplicate' = FALSE
    /\ manifest' = "none" /\ sources' = NoSources

InventoryInit ==
    /\ object = [n \in Names |-> IF n \in Listed(Old) THEN Manifest[Old][n] ELSE "none"]
    /\ sums = Old /\ checksummed \in BOOLEAN
    /\ stage = "idle"
    /\ pending = {Root} /\ visited = {} /\ prefix = "none"
    /\ cursor = {} /\ seen = {} /\ listed = {} /\ duplicate = FALSE
    /\ manifest = "none" /\ sources = NoSources

-----------------------------------------------------------------------------
(* The walk over the listing.                                              *)

PopPrefix(p) ==
    /\ stage = "list" /\ prefix = "none" /\ p \in pending
    /\ pending' = pending \ {p}
    /\ IF p \in visited THEN UNCHANGED <<visited, prefix, cursor, seen>>
       ELSE visited' = visited \cup {p} /\ prefix' = p /\ cursor' = {} /\ seen' = {}
    /\ UNCHANGED <<remoteVars, stage, listed, duplicate, manifest, sources>>

Present(p)  == {n \in Names : PrefixOf[n] = p /\ object[n] # "none"}
Children(p) == IF p = Root THEN {PrefixOf[n] : n \in {m \in Names : object[m] # "none"}} \ {Root}
               ELSE {}

Mutant_NeverSeen(c) == FALSE
SeenCursor(c) == c \in seen

\* One page: some objects and child prefixes, and the cursor of the next page.
ListPage ==
    /\ stage = "list" /\ prefix # "none"
    /\ \E page \in SUBSET (Present(prefix) \ cursor) :
          /\ listed' = listed \cup page
          /\ duplicate' = (duplicate \/ page \cap listed # {})
          /\ \E more \in {{}} \cup IF "repeat" \in Faults THEN {{prefix} \ {Root}} ELSE {} :
                pending' = pending \cup Children(prefix) \cup more
          /\ \/ /\ page = Present(prefix) \ cursor
                /\ prefix' = "none"
                /\ UNCHANGED <<stage, cursor, seen>>
             \/ \E next \in {cursor \cup page} \cup (IF "repeat" \in Faults THEN seen ELSE {}) :
                /\ page # {} \/ next \in seen
                /\ IF SeenCursor(next) THEN stage' = "failed" /\ UNCHANGED <<cursor, seen>>
                   ELSE cursor' = next /\ seen' = seen \cup {next} /\ UNCHANGED stage
                /\ UNCHANGED prefix
    /\ UNCHANGED <<remoteVars, visited, manifest, sources>>

\* Only now are duplicates and a missing .source.json noticed.
ListingEnds ==
    /\ stage = "list" /\ prefix = "none" /\ pending = {}
    /\ stage' = IF duplicate \/ SourceName \notin listed THEN "failed" ELSE "sums"
    /\ UNCHANGED <<remoteVars, listingVars, manifest, sources>>

-----------------------------------------------------------------------------
(* The metadata files and the access answers.                              *)

ReadSums ==
    /\ stage = "sums"
    /\ manifest' = sums
    /\ stage' = IF Listed(sums) = listed THEN "source" ELSE "failed"
    /\ UNCHANGED <<remoteVars, listingVars, sources>>

\* The inventory inside .source.json, that of the version it was written for.
Describes(document, names) ==
    \E v \in Versions : /\ SourceName \in Listed(v) /\ Manifest[v][SourceName] = document
                        /\ Listed(v) = names

ReadSource ==
    /\ stage = "source"
    /\ stage' = IF /\ Describes(object[SourceName], listed)
                   /\ object[SourceName] = Manifest[manifest][SourceName]
                THEN "access" ELSE "failed"
    /\ UNCHANGED <<remoteVars, listingVars, manifest, sources>>

Mutant_NothingCompared(n) == FALSE
Contradicts(n) == checksummed /\ object[n] # Manifest[manifest][n]

Access(n) ==
    /\ stage = "access" /\ n \in Listed(manifest) /\ sources[n] = "none"
    /\ IF object[n] = "none" \/ Contradicts(n)
       THEN stage' = "failed" /\ UNCHANGED sources
       ELSE /\ sources' = [sources EXCEPT ![n] = object[n]]
            /\ stage' = IF \A m \in Listed(manifest) : sources'[m] # "none"
                        THEN "done" ELSE "access"
    /\ UNCHANGED <<remoteVars, listingVars, manifest>>

WalkStep ==
    \/ (\E p \in Prefixes : PopPrefix(p)) \/ ListPage \/ ListingEnds
    \/ ReadSums \/ ReadSource \/ (\E n \in Names : Access(n))

-----------------------------------------------------------------------------
(* The publisher.                                                          *)

Uploaded(n) == IF n \in Listed(New) THEN Manifest[New][n] ELSE "none"

PublishObject(n) ==
    /\ object[n] # Uploaded(n)
    /\ object' = [object EXCEPT ![n] = Uploaded(n)]
    /\ UNCHANGED <<sums, checksummed, walkVars>>

PublishSums ==
    /\ sums # New /\ sums' = New
    /\ UNCHANGED <<object, checksummed, walkVars>>

PublisherStep == PublishSums \/ \E n \in Names : PublishObject(n)

-----------------------------------------------------------------------------
\* A snapshot is one published version, however the requests that gathered it
\* interleave with its replacement: the names found are those its SHA256SUMS lists,
\* its .source.json is that version's, and where the provider gives checksums every
\* source that will be downloaded is the object the manifest means (snapshot.py:147).
SnapshotIsOneManifest ==
    stage = "done" =>
        /\ manifest \in Versions /\ listed = Listed(manifest)
        /\ Describes(Manifest[manifest][SourceName], listed)
        /\ \A n \in listed : IF checksummed THEN sources[n] = Manifest[manifest][n]
                             ELSE sources[n] # "none"
=============================================================================
