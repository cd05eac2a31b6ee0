--------------------------- MODULE ModelDirectory ---------------------------
(***************************************************************************)
(* What a synchronisation promises to those who read a model directory:    *)
(* the directory they see changes in one step, from the old one to a       *)
(* complete new one.                                                       *)
(***************************************************************************)

EXTENDS Manifests

VARIABLE directory

\* The new directory has the files of v: what the manifest says, or the old copy
\* when both manifests agree on it.  Files it does not list are all kept or all gone.
Replaces(d, v, new) ==
    /\ new.sums = v
    /\ \A n \in Listed(v) :
           \/ new.files[n] = Manifest[v][n]
           \/ SameEntry(d, v, n) /\ d.files[n] # "none" /\ new.files[n] = d.files[n]
    /\ \/ \A n \in Names \ Listed(v) : new.files[n] = d.files[n]
       \/ \A n \in Names \ Listed(v) : new.files[n] = "none"

DirectoryInit == directory \in Directories

Replace == \E v \in Versions : Replaces(directory, v, directory')

DirectorySpec == DirectoryInit /\ [][Replace]_directory
=============================================================================
