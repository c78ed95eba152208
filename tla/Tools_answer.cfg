SPECIFICATION ToolsSpec
CONSTANTS
    Registry <- MCRegistry
    Offered <- MCOffered
    Unknown = "none"
    Granted <- MCGranted
    RiskCeiling = 2
    MaxStepTools = 2
    MaxRunTools = 3
    MaxSteps = 2
    MaxLosses = 1
INVARIANTS AnswerIsFedBack
\* A run that has used its allowance stops.
CHECK_DEADLOCK FALSE
