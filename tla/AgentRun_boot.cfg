SPECIFICATION Spec
CONSTANTS
    Session = {s1, s2}
    NoSession = NoSession
    Requests = {"start", "boot"}
    ResumeOffered = {"WAITING_FOR_USER", "PAUSED", "BLOCKED"}
    MaxIterations = 2
    MaxToolCalls = 1
    MaxQuestions = 1
PROPERTY BootSweepParks
\* Every session serves one request: when all are served the instance stops.
CHECK_DEADLOCK FALSE
