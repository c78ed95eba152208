SPECIFICATION Spec
CONSTANTS
    Session = {s1, s2, s3, s4}
    NoSession = NoSession
    Requests = {"start", "pause", "cancel", "resume", "resolve", "recover", "boot"}
    ResumeOffered = {"STARTING", "WAITING_FOR_USER", "PAUSED", "BLOCKED"}
    MaxIterations = 2
    MaxToolCalls = 0
    MaxQuestions = 2
SYMMETRY Symmetry
INVARIANTS TypeOK WaitingHasQuestion ClosedRunHasNoQuestion
           OneWriterUnlessStray BudgetUnlessStray
PROPERTY SweepParks
\* Every session serves one request: when all are served the instance stops.
CHECK_DEADLOCK FALSE
