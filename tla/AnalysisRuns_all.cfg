SPECIFICATION Spec
CONSTANTS
    Sessions = {s1, s2}
    bare = bare
    full = full
    Contents = {bare, full}
    Bare = {bare}
    Ready = {full}
    Notes = {"none", "some"}
    Fields = {"risks", "scope"}
    Types = {"ESSAY"}
    Edits <- MCEdits
    Keep = Keep
    Seeds <- MCSeeds
    MaxRequests = 3
    MaxMoves = 2
SYMMETRY Symmetry
INVARIANTS AnalysesAreWhatTheySay OutcomesAreTrue
PROPERTIES RequestsKeepToThemselves
\* The bounds on requests stop the instance, not the program.
CHECK_DEADLOCK FALSE
