\* Every kind of failure; two roles and a user to attach the policy to.
SPECIFICATION FairSpec
CONSTANTS
    FaultKinds = {"api", "iam", "crash"}
    MaxFaults = 1
    MaxOps = 4
    ResourceARNs <- MCArns
    EmptyAction = ""
    StatementChoices <- MCTwo
    AcceptedStatements <- MCAccepted
    Roles = {r1, r2}
    Users = {u1}
    NameTooLong = FALSE
    MaxVersions = 2
PROPERTIES EventuallyConverged DeletionCompletes
CHECK_DEADLOCK FALSE
