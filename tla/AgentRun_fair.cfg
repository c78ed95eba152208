SPECIFICATION FairSpec
CONSTANTS
    Session = {s1, s2, s3}
    NoSession = NoSession
    Requests = {"start", "pause", "cancel", "resume", "resolve", "recover"}
    ResumeOffered = {"WAITING_FOR_USER", "PAUSED", "BLOCKED"}
    MaxIterations = 2
    MaxToolCalls = 1
    MaxQuestions = 1
PROPERTY RequestsFinish
\* Every session serves one request: when all are served the instance stops.
CHECK_DEADLOCK FALSE
