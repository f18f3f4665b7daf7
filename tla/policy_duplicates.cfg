\* No failure at all: a statement that names an action twice.
SPECIFICATION Spec
CONSTANTS
    FaultKinds = {}
    MaxFaults = 0
    MaxOps = 3
    ResourceARNs <- MCArns
    EmptyAction = ""
    StatementChoices <- MCDuplicateStatements
    AcceptedStatements <- MCAccepted
    Roles = {r1}
    Users = {}
    NameTooLong = FALSE
    MaxVersions = 2
PROPERTIES OkGrantsTheSpec
CHECK_DEADLOCK FALSE
