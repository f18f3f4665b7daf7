\* Every kind of failure; two roles and a user; everything the users may do.
SPECIFICATION Spec
CONSTANTS
    FaultKinds = {"api", "iam", "crash"}
    MaxFaults = 2
    MaxOps = 4
    ResourceARNs <- MCArns
    EmptyAction = ""
    StatementChoices <- MCStatements
    AcceptedStatements <- MCAccepted
    Roles = {r1, r2}
    Users = {u1}
    NameTooLong = FALSE
    MaxVersions = 2
INVARIANTS TypeOK ArnIsReal IInv TargetInv DeletionPursued RoomIsMade ShownInv RestsConverged NothingForgotten
PROPERTIES FinalizerGuardsIam FinalizedCleanly OkIsTrue SuccessorSparedUnlessFaults IsManaged IsShared FinalizerSparesTheLive
CHECK_DEADLOCK FALSE
