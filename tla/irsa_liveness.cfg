\* Every kind of failure; a valid and an invalid statement.
SPECIFICATION FairSpec
CONSTANTS
    FaultKinds = {"api", "crash"}
    MaxFaults = 1
    MaxOps = 2
    ResourceARNs <- MCArns
    EmptyAction = ""
    StatementChoices <- MCStatements
INVARIANTS RestsConverged NothingForgotten
PROPERTIES EventuallyConverged DeletionCompletes
CHECK_DEADLOCK FALSE
