SPECIFICATION FairSyncSpec
CONSTANTS
    Names <- ThreeNames
    Contents <- SomeContents
    Versions <- TwoVersions
    Manifest <- TwoManifests
    SourceName = "source"
    Prefixes <- TwoPrefixes
    Root = ""
    PrefixOf <- PrefixOfNames
    Old = "v1"
    New = "v2"
    Faults = {"repeat"}
    InitialDirectories <- FirstDirectories
INVARIANTS
    SyncTypeOK
    SnapshotIsOneManifest
    RehashIsSound
PROPERTIES
    ImplementsDirectory
    SyncEnds
CHECK_DEADLOCK FALSE
