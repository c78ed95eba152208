SPECIFICATION Spec
CONSTANTS
    Jobs = {j1}
    Workers = {w1}
    Clients = {c1}
    Results = {"SUCCEEDED"}
    Duds = {"FAILED"}
    Reaps = {TRUE}
    MaxAttempts = 2
    MaxNumber = 2
    MaxClaims = 2
SYMMETRY Symmetry
INVARIANTS OneSandboxPerJob
\* Every client serves one request: when all are served and the job has ended, the workers wait.
CHECK_DEADLOCK FALSE
