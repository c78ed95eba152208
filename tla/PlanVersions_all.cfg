SPECIFICATION Spec
CONSTANTS
    Sessions = {s1, s2, s3}
    Keys = {k1}
    NoKey = NoKey
    Proposals <- MCProposals
    FallbackEnabled = FALSE
    MaxMilestones = 2
    MaxRequests = 5
    MaxListed = 2
    MaxAnalyses = 2
SYMMETRY Symmetry
INVARIANTS PlansAreSound KeyHasOneOutcome
PROPERTIES MadeByPeopleIsKept CurrentUnlessMoved HistoryKept
\* The bounds on versions, edits and analyses stop the instance, not the program.
CHECK_DEADLOCK FALSE
