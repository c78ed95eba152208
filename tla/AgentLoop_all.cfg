SPECIFICATION FairSpec
CONSTANTS
    Tasks <- TwoTasks
    Submit = {2}
    Decisions = {"fail", "tool", "sandbox", "draft", "ask", "block", "complete", "review", "pause", "overspend", "no provider"}
    Supervised = TRUE
    MaxIterations = 3
    MaxAttempts = 2
    MaxFailures = 2
    MaxDrafts = 1
    MaxArtifacts = 1
    MaxStepTools = 1
    MaxRunTools = 2
    MaxRuns = 2
    MaxAside = 1
INVARIANTS WorkFitsPlan DecisionsFallWhereTheyMay StatusTellsWhoWorks
PROPERTIES WorkIsKept FollowsLifecycle LoopEnds
\* A plan whose runs are all finished has nothing left to do.
CHECK_DEADLOCK FALSE
