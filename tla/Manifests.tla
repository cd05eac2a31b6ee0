------------------------------ MODULE Manifests ------------------------------
(***************************************************************************)
(* Model directories as SHA256SUMS describes them: a file is named, a      *)
(* content is what its SHA-256 tells apart, a version is a manifest.       *)
(***************************************************************************)

CONSTANTS
    Names,     \* the files a model directory may hold, metadata apart
    Contents,  \* what can be in a file
    Versions,  \* the published manifests
    Manifest   \* what each of them lists

ASSUME ManifestAssumption ==
    /\ DOMAIN Manifest = Versions
    /\ \A v \in Versions : \E S \in SUBSET Names : Manifest[v] \in [S -> Contents]
    /\ "none" \notin Contents \cup Versions

Listed(v) == DOMAIN Manifest[v]

Directories == [files : [Names -> Contents \cup {"none"}], sums : Versions \cup {"none"}]

\* Every file the directory's own SHA256SUMS lists hashes to its entry.
Sound(d) ==
    d.sums \in Versions /\ \A n \in Listed(d.sums) : d.files[n] = Manifest[d.sums][n]

\* The old directory's SHA256SUMS gives the file the hash the new one gives it.
SameEntry(d, v, n) ==
    /\ d.sums \in Versions /\ n \in Listed(d.sums)
    /\ Manifest[d.sums][n] = Manifest[v][n]
=============================================================================
