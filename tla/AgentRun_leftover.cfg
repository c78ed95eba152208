SPECIFICATION Spec
CONSTANTS
    Session = {s1, s2, s3, s4}
    NoSession = NoSession
    Requests = {"start", "resume", "resolve"}
    ResumeOffered = {"WAITING_FOR_USER", "PAUSED", "BLOCKED"}
    MaxIterations = 3
    MaxToolCalls = 1
    MaxQuestions = 2
SYMMETRY Symmetry
INVARIANTS StepWriterIsClaimant
\* Every session serves one request: when all are served the instance stops.
CHECK_DEADLOCK FALSE
