\* Every kind of failure; everything that others may do.
SPECIFICATION Spec
CONSTANTS
    FaultKinds = {"api", "iam", "crash"}
    MaxFaults = 1
    MaxOps = 4
    RoleName = r1
    ForeignPolicies = {p1}
    ServiceAccountNames <- MCNames
    NameTooLong = FALSE
INVARIANTS TypeOK ArnIsReal IInv DeletionPursued
PROPERTIES FinalizerGuardsIam NothingLeaksUnlessMeddled OkIsTrue IsManaged
CHECK_DEADLOCK FALSE
