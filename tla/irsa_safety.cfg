\* Every kind of failure; three acts of others, so a resource may be re-created.
SPECIFICATION Spec
CONSTANTS
    FaultKinds = {"api", "crash"}
    MaxFaults = 1
    MaxOps = 3
    ResourceARNs <- MCArns
    EmptyAction = ""
    StatementChoices <- MCOne
INVARIANTS TypeOK IInv
PROPERTIES NoOrphans ArnKept ForeignSaSpared
CHECK_DEADLOCK FALSE
