SPECIFICATION Spec
CONSTANTS
    Sessions = {s1, s2}
    Keep = Keep
    Patches <- MCPatches
    Titles = {"a", "b"}
    Weights <- MCWeights
    Listed = {"constraints"}
    Linked = {"technologies"}
    Files = {f1}
    Seeds <- MCSeeds
    MaxRequests = 3
SYMMETRY Symmetry
INVARIANTS RowsAndVersionsFit FilesAccounted
PROPERTIES AloneKeepsGraph RecordsAreKept
\* The bounds on requests stop the instance, not the program.
CHECK_DEADLOCK FALSE
