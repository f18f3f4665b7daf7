\* Nothing fails.
SPECIFICATION Spec
CONSTANTS
    FaultKinds = {}
    MaxFaults = 0
    MaxOps = 4
    RoleName = r1
    ForeignPolicies = {p1}
    ServiceAccountNames = {"sa"}
    NameTooLong = FALSE
PROPERTIES SuccessorSpared
CHECK_DEADLOCK FALSE
