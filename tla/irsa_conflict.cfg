\* Without any failure.
SPECIFICATION Spec
CONSTANTS
    FaultKinds = {}
    MaxFaults = 0
    MaxOps = 2
    ResourceARNs <- MCArns
    EmptyAction = ""
    StatementChoices <- MCStatements
PROPERTIES CreatedSaIsOurs
CHECK_DEADLOCK FALSE
