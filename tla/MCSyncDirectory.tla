-------------------------- MODULE MCSyncDirectory ---------------------------
(***************************************************************************)
(* An instance of SyncDirectory for TLC: version 2 changes .source.json,   *)
(* keeps one file and drops another, which lies under a prefix.            *)
(***************************************************************************)
EXTENDS SyncDirectory, TLC

ThreeNames    == {"source", "kept", "sub/dropped"}
TwoVersions   == {"v1", "v2"}
SomeContents  == {"s1", "s2", "k", "d", "other"}
TwoManifests  ==
    [v1 |-> ("source" :> "s1" @@ "kept" :> "k" @@ "sub/dropped" :> "d"),
     v2 |-> ("source" :> "s2" @@ "kept" :> "k")]
TwoPrefixes   == {"", "sub/"}
PrefixOfNames == [n \in ThreeNames |-> IF n = "sub/dropped" THEN "sub/" ELSE ""]

\* The first version, sound or with a changed file, with or without its SHA256SUMS.
FirstDirectories ==
    {d \in Directories :
        /\ d.files["source"] = "s1" /\ d.files["sub/dropped"] = "d"
        /\ d.files["kept"] \in {"k", "other"}
        /\ d.sums \in {"none", "v1"}}
=============================================================================
