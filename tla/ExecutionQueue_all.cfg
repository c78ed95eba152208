SPECIFICATION Spec
CONSTANTS
    Jobs = {j1}
    Workers = {w1, w2}
    Clients = {c1, c2}
    Results = {"SUCCEEDED"}
    Duds = {"FAILED"}
    Reaps = {TRUE}
    MaxAttempts = 2
    MaxNumber = 2
    MaxClaims = 2
SYMMETRY Symmetry
INVARIANTS TypeOK ClaimedOncePerQueueing EndedJobIsAccounted RunsAlone RecoverySafe
PROPERTIES EndedJobStays
\* Every client serves one request: when all are served and the job has ended, the workers wait.
CHECK_DEADLOCK FALSE
