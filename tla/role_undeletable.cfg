\* The name of the role is too long for IAM; the process may stop.
SPECIFICATION FairSpec
CONSTANTS
    FaultKinds = {"crash"}
    MaxFaults = 1
    MaxOps = 3
    RoleName = r1
    ForeignPolicies = {p1}
    ServiceAccountNames = {"sa"}
    NameTooLong = TRUE
PROPERTIES DeletionCompletes
CHECK_DEADLOCK FALSE
