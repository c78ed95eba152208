SPECIFICATION SequentialSpec
CONSTANTS
    Analyses <- MCAnalyses
    MaxOrientation = 2
    MaxRequirement = 2
    MaxVerification = 2
    MaxTasks = 6
    Nodes = {1, 2, 3}
    Missing = 0
    Registry <- MCRegistry
    Offered <- MCOffered
    Unknown = "none"
    Granted <- MCGranted
    RiskCeiling = 2
    MaxStepTools = 2
    MaxRunTools = 3
    MaxSteps = 2
    MaxLosses = 1
    Numbers <- MCNumbers
    Systems <- MCSystems
    Lists <- MCLists
    MaxFactored = 240
    MaxUnknowns = 3
    MaxCount = 3
    MaxValue = 10
    DisplayLimit = 40
    FloatDigits = 3
    Exponents <- MCExponents
    MaxDenominator = 10
    Places = 2
    Works <- MCWorks
    Limits = {2000, 3000, 5000, 24000}
    Drafts <- MCDrafts
    MaxDrafts = 2
    Keys = {k1}
    ContentHash = ContentHash
    NoKey = NoKey
    MaxRows = 2
    MaxNumber = 3
    MaxDecisions = 2
INVARIANTS
    PlanFitsContract SearchIsRight OrderIsRight
    CatalogueIsTheBoundary CallsAreAccounted CalculationsAreExact ContextIsBounded
    RevisionMeansSchema ChainIsPassable
\* Every part is an algorithm that ends.
CHECK_DEADLOCK FALSE
