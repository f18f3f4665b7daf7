\* Nothing fails; somebody deletes the IAM role by hand.
SPECIFICATION Spec
CONSTANTS
    FaultKinds = {}
    MaxFaults = 0
    MaxOps = 4
    RoleName = r1
    ForeignPolicies = {p1}
    ServiceAccountNames = {"sa"}
    NameTooLong = FALSE
INVARIANTS NeverPanics
CHECK_DEADLOCK FALSE
