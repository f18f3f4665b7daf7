\* Every kind of failure; everything that others may do.
SPECIFICATION FairSpec
CONSTANTS
    FaultKinds = {"api", "iam", "crash"}
    MaxFaults = 1
    MaxOps = 4
    RoleName = r1
    ForeignPolicies = {p1}
    ServiceAccountNames = {"sa"}
    NameTooLong = FALSE
INVARIANTS RestsConverged NothingForgotten
PROPERTIES EventuallyConverged DeletionCompletes
CHECK_DEADLOCK FALSE
