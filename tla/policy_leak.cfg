\* No failure at all: a resource deleted before its ARN is recorded.
SPECIFICATION Spec
CONSTANTS
    FaultKinds = {}
    MaxFaults = 0
    MaxOps = 3
    ResourceARNs <- MCArns
    EmptyAction = ""
    StatementChoices <- MCOne
    AcceptedStatements <- MCAccepted
    Roles = {r1}
    Users = {}
    NameTooLong = FALSE
    MaxVersions = 2
PROPERTIES NothingLeaks
CHECK_DEADLOCK FALSE
