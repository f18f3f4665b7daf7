---------------------------- MODULE RoleRestProofs ----------------------------
(***************************************************************************)
(* What is true of a Role when nothing is left to do: nothing was          *)
(* forgotten on the way.                                                   *)
(*                                                                         *)
(* As in PolicyRestProofs, a late worker will be followed by another one,  *)
(* and the status that ends a reconciliation without a retry is news.  The *)
(* Role reconciler goes on after some of its reports, so the invariant     *)
(* also follows the words from step to step: the report that comes after   *)
(* an ARN was found follows an update or an error, and the reconciliation  *)
(* that ends without a word has found the ARN of the role in its copy.     *)
(* Again what is said of the status holds unless the last reconciliation   *)
(* ignored that an update failed; no deletion is forgotten, even then.     *)
(***************************************************************************)
EXTENDS RoleControllerProofs

-----------------------------------------------------------------------------
(* The calls to AWS *)

(* The worker calls AWS and goes on, or returns.  It returns only to be    *)
(* back, or when it has found its copy "created", with its ARNs and with   *)
(* its policy attached.                                                    *)
QuietStep ==
    /\ Busy /\ UnchangedCluster /\ MovesOn(RoleSpecs, Steps, Policies) /\ (queued => queued')
    /\ WordsFit(worker)' /\ worker'.pc # "found"
    /\ LastWord' => (dropped \/ Stirring \/ worker'.status # worker.obj.status) /\ ~worker.obj.deleting
    /\ worker' = Idle =>
         \/ queued'
         \/ /\ Alive(worker.obj) /\ worker.obj.status.condition = CrOK
            /\ worker.obj.spec.roleArn # "" /\ worker.obj.spec.policyArn # ""
            /\ Untouched' => iamRole' /\ RoleName \in attached'

(* An idle worker has said nothing. *)
LEMMA IdleFits == worker' = Idle => WordsFit(worker)' /\ worker'.pc # "found" /\ ~LastWord'
<1>1. worker' = Idle => worker'.pc = "idle"
  BY IdleType
<1> QED
  BY <1>1 DEF WordsFit, Heading, AttachSteps, LastWord

(* Nor has one at a step that no word leads to. *)
LEMMA SilentFits ==
  ASSUME worker'.pc \notin {"idle", "status", "found", "getArn", "setArn"} \cup AttachSteps
  PROVE  WordsFit(worker)' /\ worker'.pc # "found" /\ ~LastWord'
  BY DEF WordsFit, Heading, LastWord

(* Going to another step is quiet, if what it needs was seen. *)
LEMMA GotoIsQuiet ==
  ASSUME IInv, Busy, UnchangedCluster, NEW pc \in Steps \ {"found"}, Goto(pc),
         pc \in {"getArn", "setArn"} => worker.obj.spec.roleArn = "",
         pc \in AttachSteps /\ ~NeedsOk(worker.obj) => worker.obj.spec.roleArn # ""
  PROVE  QuietStep
<1>1. /\ MovesOn(RoleSpecs, Steps, Policies) /\ Heading(worker') = pc
      /\ worker'.pc = pc /\ worker'.obj = worker.obj /\ worker'.pc # "status"
      /\ queued' = queued
  BY Goes DEF Goto
<1>2. pc # "idle"
  BY DEF Steps
<1>3. WordsFit(worker)'
  BY <1>1 DEF WordsFit
<1> QED
  BY <1>1, <1>2, <1>3, IdleType DEF QuietStep, LastWord

(* So is a report that fits. *)
LEMMA ReportIsQuiet ==
  ASSUME IInv, Busy, UnchangedCluster, NEW status \in Statuses,
         NEW next \in Steps \cup {"return", "requeue", "ifFailed", "deleteCR"},
         Report(status, next), next \notin {"getArn", "setArn"},
         next = "found" => status.condition = CrError,
         next \in AttachSteps => status.condition = CrProgressing,
         next \in {"return", "ifFailed"} =>
           (dropped \/ Stirring \/ status # worker.obj.status) /\ ~worker.obj.deleting
  PROVE  QuietStep
<1>1. /\ MovesOn(RoleSpecs, Steps, Policies)
      /\ worker'.pc = "status" /\ worker'.status = status /\ worker'.next = next
      /\ queued' = queued
  BY OwnSteps, ReportMoves DEF Report
<1>2. Heading(worker') = next
  BY <1>1 DEF Heading
<1>3. WordsFit(worker)'
  BY <1>1, <1>2 DEF WordsFit, AttachSteps
<1> QED
  BY <1>1, <1>3, IdleType DEF QuietStep, LastWord

(* An error is retried. *)
LEMMA FailIsQuiet ==
  ASSUME IInv, Busy, UnchangedCluster, NEW reason \in Reasons, Fail(reason)
  PROVE  QuietStep
<1>1. Error(reason) \in Statuses /\ Report(Error(reason), "requeue")
  BY StatusTypes DEF Fail
<1>2. "requeue" \notin AttachSteps
  BY DEF AttachSteps
<1> QED
  BY <1>1, <1>2, ReportIsQuiet

(* And so is a return that asks for it. *)
LEMMA RetryIsQuiet ==
  ASSUME IInv, Busy, UnchangedCluster, Return(TRUE)
  PROVE  QuietStep
<1>1. MovesOn(RoleSpecs, Steps, Policies) /\ worker' = Idle /\ queued'
  BY OwnSteps, ReturnMoves DEF Return
<1> QED
  BY <1>1, IdleFits DEF QuietStep

(* The steps and the statuses of the reports. *)
LEMMA RoleNames ==
    /\ \A pc \in {"getArn", "setArn", "create", "setPolicyArn", "panicked"} :
         pc \in Steps \ {"found"} /\ pc \notin AttachSteps
    /\ \A pc \in {"listAttached", "attachPolicy", "attached"} :
         pc \in Steps \ {"found"} /\ pc \in AttachSteps /\ pc \notin {"getArn", "setArn"}
    /\ {"found", "getPolicy", "attach", "attached", "deleteRole", "detach"} \subseteq Steps
    /\ \A pc \in {"found", "return", "ifFailed", "deleteRole", "deleteCR"} : pc \notin AttachSteps
  BY DEF Steps, AttachSteps

LEMMA RoleStatuses ==
    /\ \A reason \in {"passed validation", "role found", "role created", "policy attached"} :
         Progress(reason) \in Statuses /\ Progress(reason).condition = CrProgressing
    /\ \A reason \in {"invalid", "get failed"} :
         Error(reason) \in Statuses /\ Error(reason).condition = CrError
    /\ \A reason \in {"none attached", "still attached", "role deleted"} :
         Deleting(reason) \in Statuses
    /\ \A reason \in {"check failed", "create failed", "list failed", "attach failed"} :
         reason \in Reasons
    /\ AllDone \in Statuses /\ AllDone.condition = CrOK
<1>1. AllDone \in Statuses /\ AllDone.condition = CrOK
  BY StatusTypes DEF AllDone, NewStatus
<1> QED
  BY <1>1, ReasonsGiven, StatusTypes

-----------------------------------------------------------------------------
(* reconcilerRoutine, but for the updates of the ARNs *)

LEMMA AdmissionStepIsQuiet ==
  ASSUME IInv, AdmissionStep
  PROVE  QuietStep
<1>1. /\ Busy /\ UnchangedCluster /\ worker.obj.status.condition = CrSubmitted
      /\ ~worker.obj.deleting
      /\ Report(Progress("passed validation"), "ifFailed") \/ Report(Error("invalid"), "ifFailed")
  BY DEF AdmissionStep, Admission, Busy, Registered
<1>2. CrSubmitted # CrProgressing /\ CrSubmitted # CrError
  BY DEF CrSubmitted, CrProgressing, CrError
<1> QED
  BY <1>1, <1>2, RoleNames, RoleStatuses, ReportIsQuiet

LEMMA RoleExistsIsQuiet ==
  ASSUME IInv, RoleExists
  PROVE  QuietStep
<1>1. /\ Busy /\ UnchangedCluster /\ worker.obj.spec.roleArn = ""
      /\ Fail("check failed") \/ Goto("getArn") \/ Goto("create")
  BY DEF RoleExists, Busy
<1> QED
  BY <1>1, RoleNames, RoleStatuses, GotoIsQuiet, FailIsQuiet

LEMMA GetRoleARNIsQuiet ==
  ASSUME IInv, WordsFit(worker), GetRoleARN
  PROVE  QuietStep
<1>1. /\ Busy /\ UnchangedCluster /\ worker.pc = "getArn"
      /\ Goto("setArn") \/ Report(Error("get failed"), "found")
  BY DEF GetRoleARN, Busy
<1>2. worker.obj.spec.roleArn = ""
  BY <1>1 DEF WordsFit, Heading
<1>3. CASE Goto("setArn")
  BY <1>1, <1>2, <1>3, RoleNames, GotoIsQuiet
<1>4. CASE Report(Error("get failed"), "found")
  BY <1>1, <1>4, RoleNames, RoleStatuses, ReportIsQuiet
<1> QED
  BY <1>1, <1>3, <1>4

LEMMA RoleFoundIsQuiet ==
  ASSUME IInv, ~dropped => FoundIsNew, RoleFound
  PROVE  QuietStep
<1>1. /\ Busy /\ UnchangedCluster /\ worker.pc = "found" /\ Report(Progress("role found"), "return")
  BY DEF RoleFound, Busy
<1>2. CrProgressing # CrError
  BY DEF CrProgressing, CrError
<1>3. dropped \/ Stirring \/ Progress("role found") # worker.obj.status
  BY <1>1, <1>2, RoleStatuses DEF FoundIsNew
<1>4. ~worker.obj.deleting
  <2>1. Heading(worker) = "found" /\ Heading(worker) \in RoutineSteps
    BY <1>1 DEF Heading, RoutineSteps
  <2> QED
    BY <2>1, InRoutineSteps DEF Registered
<1> QED
  BY <1>1, <1>3, <1>4, RoleNames, RoleStatuses, ReportIsQuiet

LEMMA CreateRoleIsQuiet ==
  ASSUME IInv, CreateRole
  PROVE  QuietStep
<1>1. PICK next \in {"getPolicy", "attach"} :
        /\ Busy /\ UnchangedCluster
        /\ Report(Progress("role created"), next) \/ Fail("create failed")
  BY DEF CreateRole, Busy, Onward
<1>2. CASE Report(Progress("role created"), next)
  BY <1>1, <1>2, RoleNames, RoleStatuses, ReportIsQuiet
<1>3. CASE Fail("create failed")
  BY <1>1, <1>3, RoleStatuses, FailIsQuiet
<1> QED
  BY <1>1, <1>2, <1>3

LEMMA GetPolicyIsQuiet ==
  ASSUME IInv, GetPolicy
  PROVE  QuietStep
<1>1. Busy /\ UnchangedCluster /\ (Goto("setPolicyArn") \/ Return(TRUE))
  BY AtStep DEF GetPolicy
<1> QED
  BY <1>1, RoleNames, GotoIsQuiet, RetryIsQuiet

LEMMA RoleStillExistsIsQuiet ==
  ASSUME IInv, WordsFit(worker), RoleStillExists
  PROVE  QuietStep
<1>1. /\ Busy /\ UnchangedCluster /\ At("attach")
      /\ Fail("check failed") \/ Goto("listAttached") \/ Goto("panicked")
  BY AtStep DEF RoleStillExists
<1>2. ~NeedsOk(worker.obj) => worker.obj.spec.roleArn # ""
  BY <1>1 DEF At, WordsFit, AttachSteps
<1> QED
  BY <1>1, <1>2, RoleNames, RoleStatuses, GotoIsQuiet, FailIsQuiet

LEMMA GetAttachedRolePoliciesARNsIsQuiet ==
  ASSUME IInv, WordsFit(worker), GetAttachedRolePoliciesARNs
  PROVE  QuietStep
<1>1. /\ Busy /\ UnchangedCluster /\ worker.pc = "listAttached"
      /\ Fail("list failed") \/ Goto("attachPolicy") \/ Goto("attached")
  BY DEF GetAttachedRolePoliciesARNs, Busy
<1>2. ~NeedsOk(worker.obj) => worker.obj.spec.roleArn # ""
  BY <1>1 DEF WordsFit, AttachSteps
<1> QED
  BY <1>1, <1>2, RoleNames, RoleStatuses, GotoIsQuiet, FailIsQuiet

LEMMA AttachRolePolicyIsQuiet ==
  ASSUME IInv, AttachRolePolicy
  PROVE  QuietStep
<1>1. /\ Busy /\ UnchangedCluster
      /\ Report(Progress("policy attached"), "attached") \/ Fail("attach failed")
  BY DEF AttachRolePolicy, Busy
<1> QED
  BY <1>1, RoleNames, RoleStatuses, ReportIsQuiet, FailIsQuiet

(* The only return for good: the copy says "created" already, and the      *)
(* policy was found attached.                                              *)
LEMMA RoutineEndsIsQuiet ==
  ASSUME IInv, WordsFit(worker), RoutineEnds
  PROVE  QuietStep
<1>1. /\ Busy /\ UnchangedCluster /\ worker.pc = "attached" /\ UNCHANGED iamVars
      /\ \/ NeedsOk(worker.obj) /\ Report(AllDone, "return")
         \/ ~NeedsOk(worker.obj) /\ Return(FALSE)
  BY DEF RoutineEnds, Busy
<1>2. /\ Registered(worker.obj) /\ worker.obj.spec.policyArn # ""
      /\ Untouched => iamRole /\ RoleName \in attached
  <2>1. Heading(worker) = "attached"
    BY <1>1 DEF Heading
  <2> QED
    BY <2>1 DEF IInv, StepsJustified, AboutToBeOk
<1>3. CASE NeedsOk(worker.obj) /\ Report(AllDone, "return")
  <2>1. AllDone # worker.obj.status
    BY <1>3, RoleStatuses DEF NeedsOk
  <2> QED
    BY <1>1, <1>2, <1>3, <2>1, RoleNames, RoleStatuses, ReportIsQuiet DEF Registered
<1>4. CASE ~NeedsOk(worker.obj) /\ Return(FALSE)
  <2>1. MovesOn(RoleSpecs, Steps, Policies) /\ worker' = Idle /\ (queued => queued')
    BY <1>4, OwnSteps, ReturnMoves DEF Return
  <2>2. worker.obj.exists /\ worker.obj.spec.roleArn # "" /\ worker.obj.status.condition = CrOK
    BY <1>1, <1>4, OwnSteps DEF Busy, WordsFit, AttachSteps, NeedsOk
  <2>3. Untouched' => iamRole' /\ RoleName \in attached'
    BY <1>1, <1>2, RoleStays
  <2> QED
    BY <1>1, <1>2, <2>1, <2>2, <2>3, IdleFits DEF QuietStep, Registered, Alive
<1> QED
  BY <1>1, <1>3, <1>4

LEMMA RoutineIsQuiet ==
  ASSUME IInv, ~dropped => FoundIsNew, WordsFit(worker), RoutineStep,
         ~SetRoleArnField, ~SetPolicyArnField
  PROVE  QuietStep
  BY AdmissionStepIsQuiet, RoleExistsIsQuiet, GetRoleARNIsQuiet, RoleFoundIsQuiet,
     CreateRoleIsQuiet, GetPolicyIsQuiet, RoleStillExistsIsQuiet,
     GetAttachedRolePoliciesARNsIsQuiet, AttachRolePolicyIsQuiet, RoutineEndsIsQuiet
     DEF RoutineStep

-----------------------------------------------------------------------------
(* The finalizer *)

LEMMA ListAttachedIsQuiet ==
  ASSUME IInv, ListAttached
  PROVE  QuietStep
<1>1. /\ Busy /\ UnchangedCluster
      /\ \/ Report(Deleting("none attached"), "deleteRole")
         \/ /\ worker' = [worker EXCEPT !.pc = "status", !.next = "detach",
                                        !.status = Deleting("still attached"),
                                        !.todo = AttachedPolicies]
            /\ UNCHANGED queued
         \/ Return(TRUE)
  BY DEF ListAttached, Busy
<1>2. CASE Report(Deleting("none attached"), "deleteRole")
  BY <1>1, <1>2, RoleNames, RoleStatuses, ReportIsQuiet
<1>3. CASE /\ worker' = [worker EXCEPT !.pc = "status", !.next = "detach",
                                       !.status = Deleting("still attached"),
                                       !.todo = AttachedPolicies]
           /\ UNCHANGED queued
  <2>1. AttachedPolicies \subseteq Policies
    BY Halves DEF IamTypes, AttachedPolicies, Policies
  <2>2. worker \in Workers(RoleSpecs, Steps, Policies) /\ queued \in BOOLEAN
    BY OwnSteps DEF ReconcilerTypes
  <2>3. "detach" \in Steps /\ Deleting("still attached") \in Statuses
    BY RoleNames, RoleStatuses
  <2>4. /\ worker' \in Workers(RoleSpecs, Steps, Policies) /\ queued' \in BOOLEAN
        /\ worker'.pc = "status" /\ worker'.next = "detach" /\ worker'.obj = worker.obj
    BY <1>3, <2>1, <2>2, <2>3 DEF Workers, CommonSteps
  <2>5. WordsFit(worker)'
    BY <2>4 DEF WordsFit, Heading, AttachSteps
  <2> QED
    BY <1>1, <1>3, <2>4, <2>5, IdleType DEF QuietStep, MovesOn, LastWord
<1>4. CASE Return(TRUE)
  BY <1>1, <1>4, RetryIsQuiet
<1> QED
  BY <1>1, <1>2, <1>3, <1>4

LEMMA DetachRolePolicyIsQuiet ==
  ASSUME IInv, DetachRolePolicy
  PROVE  QuietStep
<1>1. PICK p \in worker.todo :
        worker' = [worker EXCEPT !.todo = @ \ {p},
                                 !.pc = IF worker.todo = {p} THEN "list" ELSE @]
  BY DEF DetachRolePolicy
<1>2. worker.pc = "detach" /\ Busy /\ UnchangedCluster /\ queued' = queued
  BY DEF DetachRolePolicy, Busy
<1>3. worker \in Workers(RoleSpecs, Steps, Policies) /\ queued \in BOOLEAN
  BY OwnSteps DEF ReconcilerTypes
<1>4. /\ worker' \in Workers(RoleSpecs, Steps, Policies)
      /\ worker'.pc \in {"detach", "list"} /\ worker'.obj = worker.obj
  <2>1. PICK pc \in {"detach", "list"} :
          worker' = [worker EXCEPT !.todo = worker.todo \ {p}, !.pc = pc]
    BY <1>1, <1>2
  <2>2. pc \in CommonSteps \cup Steps
    BY DEF Steps
  <2> QED
    BY <1>3, <2>1, <2>2 DEF Workers
<1>5. WordsFit(worker)' /\ ~LastWord' /\ worker'.pc # "found"
  BY <1>4, SilentFits DEF AttachSteps
<1> QED
  BY <1>2, <1>3, <1>4, <1>5, IdleType DEF QuietStep, MovesOn

LEMMA DeleteRoleIsQuiet ==
  ASSUME IInv, DeleteRole
  PROVE  QuietStep
<1>1. /\ Busy /\ UnchangedCluster
      /\ Report(Deleting("role deleted"), "deleteCR") \/ Return(TRUE)
  BY DEF DeleteRole, Busy
<1> QED
  BY <1>1, RoleNames, RoleStatuses, ReportIsQuiet, RetryIsQuiet

-----------------------------------------------------------------------------
(* What pursues a deletion *)

(* The routine works for a copy that is not to be deleted. *)
LEMMA RoutineStaysOut ==
  ASSUME IInv, RoutineStep
  PROVE  Busy /\ ~worker.obj.deleting
<1>1. CASE AdmissionStep \/ RoleExists
  BY <1>1 DEF AdmissionStep, Admission, RoleExists, InRoutine, Registered, Busy
<1>2. CASE GetPolicy \/ RoleStillExists
  <2>1. Busy /\ Registered(worker.obj)
    BY <1>2, AtStep DEF GetPolicy, RoleStillExists
  <2> QED
    BY <2>1 DEF Registered
<1>3. CASE GetRoleARN \/ SetRoleArnField \/ RoleFound \/ CreateRole \/ SetPolicyArnField
           \/ GetAttachedRolePoliciesARNs \/ AttachRolePolicy \/ RoutineEnds
  <2>1. worker.pc \in RoutineSteps /\ worker.pc # "status"
    BY <1>3 DEF GetRoleARN, SetRoleArnField, RoleFound, CreateRole, SetPolicyArnField,
       GetAttachedRolePoliciesARNs, AttachRolePolicy, RoutineEnds, RoutineSteps, AttachSteps
  <2>2. Heading(worker) = worker.pc
    BY <2>1 DEF Heading
  <2> QED
    BY <2>1, <2>2, InRoutineSteps DEF Registered
<1> QED
  BY <1>1, <1>2, <1>3 DEF RoutineStep

(* A step that leaves the cluster alone keeps what stirs. *)
LEMMA UnchangedStirs ==
  ASSUME UnchangedCluster, queued => queued'
  PROVE  KeepsStirring
  BY DEF UnchangedCluster, UnchangedWorld, Hold, KeepsStirring, Stirring

(* The routine goes on with its copy, or returns. *)
LEMMA RoutineGoesOn ==
  ASSUME IInv, RoutineStep, ~SetRoleArnField, ~SetPolicyArnField
  PROVE  KeepsStirring /\ (worker'.obj = worker.obj \/ worker' = Idle)
<1>1. worker \in Workers(RoleSpecs, Steps, Policies)
  BY OwnSteps DEF ReconcilerTypes
<1>2. /\ UnchangedCluster
      /\ \/ \E status, next : Report(status, next)
         \/ \E reason : Fail(reason)
         \/ \E pc : Goto(pc)
         \/ \E requeue : Return(requeue)
  BY DEF RoutineStep, AdmissionStep, Admission, RoleExists, GetRoleARN, RoleFound, CreateRole,
     GetPolicy, RoleStillExists, GetAttachedRolePoliciesARNs, AttachRolePolicy, RoutineEnds
<1>3. ASSUME NEW status, NEW next, Report(status, next)
      PROVE  worker'.obj = worker.obj /\ queued' = queued
  BY <1>1, <1>3 DEF Report, Workers
<1>4. ASSUME NEW pc, Goto(pc)
      PROVE  worker'.obj = worker.obj /\ queued' = queued
  BY <1>1, <1>4 DEF Goto, Workers
<1>5. /\ worker'.obj = worker.obj \/ worker' = Idle
      /\ queued => queued'
  BY <1>2, <1>3, <1>4 DEF Fail, Return
<1> QED
  BY <1>2, <1>5, UnchangedStirs

(* The two ARNs are set in a live copy. *)
LEMMA SettingPursues ==
  ASSUME IInv, DeletionPursued, SetRoleArnField \/ SetPolicyArnField
  PROVE  DeletionPursued'
<1>1. /\ Half /\ Busy /\ ~worker.obj.deleting
      /\ worker \in Workers(RoleSpecs, Steps, Policies) /\ resource \in Resources(RoleSpecs)
  BY Halves, OwnSteps, FieldTypes, RoutineStaysOut DEF RoutineStep, ReconcilerTypes
<1>2. ASSUME NEW new, NEW applied \in BOOLEAN, NEW ok \in BOOLEAN,
             \/ new = [resource EXCEPT !.spec.roleArn = "arn"]
             \/ new = [resource EXCEPT !.spec.policyArn = "arn"],
             Update(new, applied, ok), HoldUpdated(ok), queued => queued',
             worker' = Idle \/ worker'.obj = IF ok THEN resource' ELSE worker.obj
      PROVE  DeletionPursued'
  <2>1. resource.exists => new.deleting = resource.deleting
    <3>1. resource.exists => resource \in StoredResources(RoleSpecs)
      BY <1>1, StoredExists
    <3> QED
      BY <1>2, <3>1 DEF StoredResources, RoleSpecs
  <2>2. /\ ok => applied
        /\ applied => resource.exists /\ Agrees(resource, worker.obj) /\ resource' = Stored(new)
    BY <1>1, <1>2, UpdateFacts DEF Half
  <2>3. Busy' => ~worker'.obj.deleting
    <3>1. worker' = Idle => ~Busy'
      BY IdleType DEF Busy
    <3>2. ok => ~resource'.deleting
      BY <1>1, <2>1, <2>2 DEF Stored, Agrees
    <3> QED
      BY <1>1, <1>2, <3>1, <3>2
  <2> QED
    BY <1>1, <1>2, <2>3, UpdatingStirs, LivePursues
<1>3. CASE SetRoleArnField
  <2>1. PICK applied \in BOOLEAN, ok \in BOOLEAN :
          /\ Update([resource EXCEPT !.spec.roleArn = "arn"], applied, ok)
          /\ worker' = [worker EXCEPT !.pc = IF ok THEN "found" ELSE "status", !.next = "found",
                                      !.obj = IF ok THEN resource' ELSE @,
                                      !.status = IF ok THEN @ ELSE Error("set failed")]
          /\ HoldUpdated(ok)
    BY <1>3 DEF SetRoleArnField
  <2>2. worker \in [pc : CommonSteps \cup Steps, obj : Resources(RoleSpecs), status : Statuses,
                    next : Steps \cup {"return", "requeue", "ifFailed", "deleteCR"},
                    todo : SUBSET Policies]
    BY <1>1 DEF Workers
  <2>3. worker'.obj = IF ok THEN resource' ELSE worker.obj
    BY <2>1, <2>2
  <2>4. queued' = queued
    BY <1>3 DEF SetRoleArnField
  <2> DEFINE new == [resource EXCEPT !.spec.roleArn = "arn"]
  <2>5. new = [resource EXCEPT !.spec.roleArn = "arn"] /\ Update(new, applied, ok) /\ HoldUpdated(ok)
    BY <2>1, Zenon
  <2> HIDE DEF new
  <2> QED
    BY <1>2, <2>3, <2>4, <2>5
<1>4. CASE SetPolicyArnField
  <2>1. PICK applied \in BOOLEAN, ok \in BOOLEAN :
          /\ Update([resource EXCEPT !.spec.policyArn = "arn"], applied, ok)
          /\ IF ok THEN /\ worker' = [worker EXCEPT !.pc = "status", !.next = "requeue",
                                                    !.obj = resource',
                                                    !.status = Progress("policy found")]
                        /\ UNCHANGED queued
                   ELSE Return(TRUE)
          /\ HoldUpdated(ok)
    BY <1>4 DEF SetPolicyArnField
  <2>2. /\ ok => worker'.obj = resource' /\ queued' = queued
        /\ ~ok => worker' = Idle /\ queued'
    BY <1>1, <2>1 DEF Workers, Return
  <2> DEFINE new == [resource EXCEPT !.spec.policyArn = "arn"]
  <2>3. new = [resource EXCEPT !.spec.policyArn = "arn"] /\ Update(new, applied, ok) /\ HoldUpdated(ok)
    BY <2>1, Zenon
  <2> HIDE DEF new
  <2>4. worker' = Idle \/ worker'.obj = IF ok THEN resource' ELSE worker.obj
    BY <2>2
  <2> QED
    BY <1>2, <2>2, <2>3, <2>4
<1> QED
  BY <1>3, <1>4

(* The finalizer returns only to be back. *)
LEMMA FinalizerPursues ==
  ASSUME IInv, DeletionPursued, FinalizerStep
  PROVE  DeletionPursued'
<1>1. QuietStep
  BY ListAttachedIsQuiet, DetachRolePolicyIsQuiet, DeleteRoleIsQuiet DEF FinalizerStep
<1>2. /\ ReconcilerInv(RoleSpecs, Steps, Policies) /\ Busy
      /\ MovesOn(RoleSpecs, Steps, Policies) /\ UnchangedCluster /\ (queued => queued')
      /\ worker' = Idle => queued' \/ ~worker.obj.deleting
      /\ LastWord' => ~worker.obj.deleting
  BY <1>1, Halves DEF Half, QuietStep, Alive
<1> QED
  BY <1>2, MovingPursues

(* Every step keeps DeletionPursued. *)
LEMMA NextPursues ==
  ASSUME IInv, DeletionPursued, [Next]_vars
  PROVE  DeletionPursued'
<1>1. ReconcilerInv(RoleSpecs, Steps, Policies)
  BY Halves DEF Half
<1>2. CASE LifecycleStep
  BY <1>1, <1>2, LifecyclePursues
<1>3. CASE RoutineStep
  <2>1. CASE SetRoleArnField \/ SetPolicyArnField
    BY <2>1, SettingPursues
  <2>2. CASE ~SetRoleArnField /\ ~SetPolicyArnField
    <3>1. KeepsStirring /\ (worker'.obj = worker.obj \/ worker' = Idle)
      BY <1>3, <2>2, RoutineGoesOn
    <3>2. ~worker.obj.deleting /\ (worker' = Idle => ~Busy')
      BY <1>3, RoutineStaysOut, IdleType DEF Busy
    <3> QED
      BY <3>1, <3>2, LivePursues
  <2> QED
    BY <2>1, <2>2
<1>4. CASE FinalizerStep
  BY <1>4, FinalizerPursues
<1>5. CASE InformerStep
  BY <1>1, <1>5, InformingPursues DEF InformerStep, Crash, Recovery
<1>6. CASE UserStep
  <2>1. worker' = worker /\ holders' = {}
    BY <1>6 DEF UserStep, CreateResource, RequestDeletion, Act
  <2> QED
    BY <2>1, OthersPursue DEF Stirring
<1>7. CASE OutsideStep
  <2>1. UNCHANGED <<resource, holders, event, queued, worker>>
    BY <1>7 DEF OutsideStep, PolicyMade, PolicyShown, PolicyForgotten, PolicyDetached,
     PolicyDeleted, OnAws!Make, OnAws!Show, OnAws!Forget, OnAws!Detach, OnAws!Delete,
     AttachForeign, DeleteIamRole, reconcilerVars, ActOnAws, ActElsewhere, Act
  <2> QED
    BY <2>1, OthersPursue DEF Stirring
<1>8. CASE UNCHANGED vars
  <2>1. UNCHANGED <<resource, holders, event, queued, worker>>
    BY <1>8 DEF vars, reconcilerVars
  <2> QED
    BY <2>1, OthersPursue DEF Stirring
<1> QED
  BY <1>2, <1>3, <1>4, <1>5, <1>6, <1>7, <1>8 DEF Next, ReconcilerStep

(***************************************************************************)
(* A Role that is to be deleted has a worker that knows of it, or will     *)
(* have one, whatever calls fail and wherever the process stops or panics: *)
(* so none is left half deleted at rest.                                   *)
(***************************************************************************)
THEOREM DeletionIsPursued == Spec => []DeletionPursued
<1>1. IInv /\ DeletionPursued /\ [Next]_vars => DeletionPursued'
  BY NextPursues
<1>2. Init => DeletionPursued
  BY InitPursues DEF Init
<1> QED
  BY <1>1, <1>2, Invariance, PTL DEF Spec

-----------------------------------------------------------------------------
(* What keeps NothingForgotten *)

(* While something stirs, nothing is forgotten yet. *)
LEMMA StirringRemembers ==
  ASSUME LateIsWoken', Stirring', WordsFit(worker)'
  PROVE  NothingForgotten'
  BY DEF NothingForgotten, LastWordIsNew, FoundIsNew, Rests, Quiescent, Stirring

(* Nor is it after an ignored failure, as long as no deletion is.          *)
LEMMA DroppedRemembers ==
  ASSUME LateIsWoken', DeletionPursued', dropped', WordsFit(worker)'
  PROVE  NothingForgotten'
<1>1. Quiescent' => ~resource'.deleting
  BY DEF DeletionPursued, Quiescent, Stirring, Busy
<1> QED
  BY <1>1 DEF NothingForgotten, Rests, Alive

(* Nor is it when no resource is left, and no worker. *)
LEMMA NothingLeftToForget ==
  ASSUME LateIsWoken', worker' = Idle, ~resource'.exists
  PROVE  NothingForgotten'
  BY IdleFits DEF NothingForgotten, LastWordIsNew, FoundIsNew, Rests

(* A quiet step: when nothing stirs after it, the worker has had the       *)
(* stored resource all the time.                                           *)
LEMMA QuietStepRemembers ==
  ASSUME IInv, NothingForgotten, DeletionPursued', QuietStep
  PROVE  NothingForgotten'
<1>1. /\ ReconcilerInv(RoleSpecs, Steps, Policies) /\ LateIsWoken /\ Busy
      /\ MovesOn(RoleSpecs, Steps, Policies) /\ UnchangedCluster /\ (queued => queued')
  BY Halves DEF Half, NothingForgotten, QuietStep
<1>2. LateIsWoken' /\ KeepsStirring /\ WordsFit(worker)'
  BY <1>1, MovingWakes DEF QuietStep
<1>3. CASE Stirring' \/ dropped'
  BY <1>2, <1>3, StirringRemembers, DroppedRemembers
<1>4. CASE ~Stirring' /\ ~dropped'
  <2>0. ~dropped
    BY <1>1, <1>4 DEF UnchangedCluster
  <2>1. ~Stirring /\ resource' = resource /\ worker.obj = resource
    BY <1>1, <1>2, <1>4, <2>0, StillWorkerHolds
  <2>2. LastWordIsNew' /\ FoundIsNew'
    BY <2>0, <2>1 DEF LastWordIsNew, FoundIsNew, QuietStep
  <2>3. ASSUME Quiescent' PROVE Alive(resource') /\ (Untouched' => Converged')
    <3>1. worker' = Idle /\ ~queued'
      BY <1>1, <2>3 DEF MovesOn, Quiescent
    <3> QED
      BY <2>1, <3>1 DEF QuietStep, Converged
  <2> QED
    BY <1>2, <2>2, <2>3 DEF NothingForgotten, Rests, Alive, Untouched
<1> QED
  BY <1>3, <1>4

(* The ARN of the role is set once: its update makes a new version, or is  *)
(* a conflict with one.                                                    *)
LEMMA SettingRemembers ==
  ASSUME IInv, NothingForgotten, DeletionPursued', SetRoleArnField
  PROVE  NothingForgotten'
<1> DEFINE new == [resource EXCEPT !.spec.roleArn = "arn"]
<1>1. PICK applied \in BOOLEAN, ok \in BOOLEAN :
        /\ Update(new, applied, ok)
        /\ worker' = [worker EXCEPT !.pc = IF ok THEN "found" ELSE "status", !.next = "found",
                                    !.obj = IF ok THEN resource' ELSE @,
                                    !.status = IF ok THEN @ ELSE Error("set failed")]
        /\ HoldUpdated(ok) /\ Ignored
  BY DEF SetRoleArnField
<1>2. /\ Half /\ Busy /\ LateIsWoken /\ queued' = queued /\ worker.obj.spec.roleArn = ""
      /\ Registered(worker.obj)
  <2>1. Heading(worker) = "setArn" /\ worker.pc = "setArn" /\ Heading(worker) \in RoutineSteps
    BY DEF SetRoleArnField, Heading, RoutineSteps
  <2> QED
    BY <2>1, Halves, InRoutineSteps DEF SetRoleArnField, NothingForgotten, WordsFit
<1>3. /\ worker \in Workers(RoleSpecs, Steps, Policies) /\ resource \in Resources(RoleSpecs)
  BY OwnSteps, FieldTypes DEF ReconcilerTypes
<1>4. /\ worker'.pc = IF ok THEN "found" ELSE "status"
      /\ worker'.next = "found" /\ (ok => worker'.obj = resource')
      /\ ~ok => worker'.status = Error("set failed")
  <2>1. worker \in [pc : CommonSteps \cup Steps, obj : Resources(RoleSpecs), status : Statuses,
                    next : Steps \cup {"return", "requeue", "ifFailed", "deleteCR"},
                    todo : SUBSET Policies]
    BY <1>3 DEF Workers
  <2> QED
    BY <1>1, <2>1
<1>5. resource.exists => new.deleting = resource.deleting /\ new.spec.roleArn = "arn"
  <2>1. resource.exists => resource \in StoredResources(RoleSpecs)
    BY <1>3, StoredExists
  <2> QED
    BY <2>1 DEF StoredResources, RoleSpecs
<1> HIDE DEF new
<1>6. Update(new, applied, ok) /\ HoldUpdated(ok) /\ Ignored
  BY <1>1, Zenon
<1>7. /\ ok => applied
      /\ applied => resource.exists /\ Agrees(resource, worker.obj) /\ resource' = Stored(new)
  BY <1>2, <1>6, UpdateFacts DEF Half
<1>8. worker'.pc # "idle"
  BY <1>4
<1>9. /\ LateIsWoken' /\ KeepsStirring
      /\ ~dropped' /\ ~Stirring' => ok
  BY <1>2, <1>4, <1>6, <1>8, UpdatingWakes DEF Half
<1>10. ASSUME ~Stirring', ~dropped' PROVE FALSE
  <2>0. ~dropped
    BY <1>6, <1>10, Zenon DEF Ignored
  <2>1. resource' = resource /\ worker.obj = resource
    BY <1>2, <1>9, <1>10, <2>0, StillWorkerHolds
  <2>2. resource' = new
    BY <1>2, <1>5, <1>7, <1>9, <1>10 DEF Stored, Agrees, Registered
  <2> QED
    BY <1>2, <1>5, <1>7, <1>9, <1>10, <2>1, <2>2
<1>11. WordsFit(worker)'
  <2>1. Error("set failed").condition = CrError
    BY StatusTypes, ReasonsGiven
  <2> QED
    BY <1>4, <2>1 DEF WordsFit, Heading, AttachSteps
<1> QED
  BY <1>9, <1>10, <1>11, StirringRemembers, DroppedRemembers

(* Without the ARN of the policy the worker tries again; with it, it says  *)
(* so and comes back.                                                      *)
LEMMA SettingPolicyRemembers ==
  ASSUME IInv, NothingForgotten, SetPolicyArnField
  PROVE  NothingForgotten'
<1> DEFINE new == [resource EXCEPT !.spec.policyArn = "arn"]
<1>1. PICK applied \in BOOLEAN, ok \in BOOLEAN :
        /\ Update(new, applied, ok)
        /\ IF ok THEN /\ worker' = [worker EXCEPT !.pc = "status", !.next = "requeue", !.obj = resource',
                                                  !.status = Progress("policy found")]
                      /\ UNCHANGED queued
                 ELSE Return(TRUE)
        /\ HoldUpdated(ok)
  BY DEF SetPolicyArnField
<1>2. Half /\ Busy /\ LateIsWoken /\ worker \in Workers(RoleSpecs, Steps, Policies)
  BY Halves, OwnSteps DEF SetPolicyArnField, Busy, NothingForgotten, ReconcilerTypes
<1> HIDE DEF new
<1>3. Update(new, applied, ok) /\ HoldUpdated(ok)
  BY <1>1, Zenon
<1>4. /\ ok => /\ worker'.pc = "status" /\ worker'.next = "requeue"
               /\ worker'.obj = resource' /\ queued' = queued
      /\ ~ok => worker' = Idle /\ queued'
  BY <1>1, <1>2 DEF Workers, Return
<1>5. /\ queued => queued'
      /\ worker' = Idle \/ (worker'.pc # "idle" /\ (ok => worker'.obj = resource'))
      /\ worker' = Idle \/ ok
  BY <1>4
<1>6. /\ LateIsWoken' /\ KeepsStirring
  BY <1>2, <1>3, <1>5, UpdatingWakes DEF Half
<1>7. CASE ok
  BY <1>4, <1>6, <1>7 DEF NothingForgotten, LastWordIsNew, LastWord, FoundIsNew, WordsFit, Heading,
     AttachSteps, Rests, Quiescent
<1>8. CASE ~ok
  BY <1>4, <1>6, <1>8, IdleFits, StirringRemembers DEF Stirring
<1> QED
  BY <1>7, <1>8

(* The common steps: a last word that says nothing new about the stored    *)
(* resource is never left to say, and a worker that goes on has its last   *)
(* word in its copy.                                                       *)
LEMMA LifecycleRemembers ==
  ASSUME IInv, NothingForgotten, DeletionPursued', LifecycleStep
  PROVE  NothingForgotten'
<1>1. /\ ReconcilerInv(RoleSpecs, Steps, Policies) /\ LateIsWoken
      /\ ~dropped => LastWordIsNew /\ FoundIsNew
      /\ WordsFit(worker)
  BY Halves DEF Half, NothingForgotten
<1>2. /\ LateIsWoken'
      /\ \/ worker' = Idle
         \/ worker'.pc \in {"got", "removeFinalizer"}
         \/ /\ worker.pc = "status" /\ worker'.pc = worker.next
            /\ worker.next \in Steps \cup {"deleteCR"}
            /\ worker'.obj.status = worker.status /\ Agrees(worker'.obj, worker.obj)
      /\ Busy => (dropped => dropped')
      /\ worker' = Idle /\ ~Stirring' /\ ~dropped' =>
           \/ ~resource'.exists
           \/ LastWord /\ ~Stirring /\ resource' = resource /\ worker.status = resource.status
  BY <1>1, LifecycleWakes
<1>3. CASE worker'.pc \in {"got", "removeFinalizer"}
  <2>1. WordsFit(worker)' /\ worker'.pc # "found" /\ ~LastWord'
    BY <1>3, SilentFits DEF AttachSteps
  <2> QED
    BY <1>2, <1>3, <2>1 DEF NothingForgotten, LastWordIsNew, FoundIsNew, Rests, Quiescent
<1>4. CASE worker' = Idle
  <2>1. Stirring' \/ dropped' \/ ~resource'.exists
    <3>1. LastWord => Busy
      BY DEF LastWord, Busy
    <3> QED
      BY <1>1, <1>2, <1>4, <3>1 DEF LastWordIsNew
  <2> QED
    BY <1>2, <1>4, <2>1, IdleFits, StirringRemembers, DroppedRemembers, NothingLeftToForget
<1>5. CASE /\ worker.pc = "status" /\ worker'.pc = worker.next
           /\ worker.next \in Steps \cup {"deleteCR"}
           /\ worker'.obj.status = worker.status /\ Agrees(worker'.obj, worker.obj)
  <2>1. worker'.pc \notin {"idle", "status"}
    BY <1>5 DEF Steps
  <2>2. Heading(worker') = worker.next /\ Heading(worker) = worker.next
    BY <1>5, <2>1 DEF Heading
  <2>3. worker'.obj.spec = worker.obj.spec
    BY <1>5 DEF Agrees
  <2>4. CrProgressing # CrOK
    BY DEF CrProgressing, CrOK
  <2>5. WordsFit(worker)'
    BY <1>1, <1>5, <2>1, <2>2, <2>3, <2>4 DEF WordsFit, NeedsOk
  <2>6. FoundIsNew'
    BY <1>1, <1>5 DEF FoundIsNew, WordsFit
  <2> QED
    BY <1>2, <2>1, <2>5, <2>6 DEF NothingForgotten, LastWordIsNew, LastWord, Rests, Quiescent
<1> QED
  BY <1>2, <1>3, <1>4, <1>5

(* A process that starts again finds every resource. *)
LEMMA RestartRemembers ==
  ASSUME Restart
  PROVE  NothingForgotten'
<1>1. LateIsWoken' /\ worker' = Idle /\ (~Stirring' => ~resource'.exists)
  BY RestartWakes
<1> QED
  BY <1>1, IdleFits, StirringRemembers, NothingLeftToForget

(* The informer and the process stir, unless there is nothing to find. *)
LEMMA InformerRemembers ==
  ASSUME NothingForgotten, InformerStep
  PROVE  NothingForgotten'
<1>1. CASE CacheSync \/ Enqueue
  <2>1. LateIsWoken' /\ Stirring' /\ UNCHANGED <<resource, worker>>
    BY <1>1, InformingWakes DEF NothingForgotten
  <2>2. WordsFit(worker)'
    BY <2>1 DEF NothingForgotten
  <2> QED
    BY <2>1, <2>2, StirringRemembers
<1> QED
  BY <1>1, RestartRemembers DEF InformerStep, Crash, Recovery

(* The users change the resource, which stirs. *)
LEMMA UserRemembers ==
  ASSUME NothingForgotten, UserStep
  PROVE  NothingForgotten'
<1>1. LateIsWoken' /\ Stirring' /\ worker' = worker
  BY ActingWakes DEF UserStep, CreateResource, RequestDeletion
<1>2. WordsFit(worker)'
  BY <1>1 DEF NothingForgotten
<1> QED
  BY <1>1, <1>2, StirringRemembers

(* A step that leaves the resource, the worker and its role alone, or      *)
(* tells what it did.                                                      *)
LEMMA ElsewhereRemembers ==
  ASSUME NothingForgotten, UNCHANGED <<resource, holders, event, queued, worker, dropped>>,
         Untouched' => Untouched /\ UNCHANGED <<iamRole, attached>>
  PROVE  NothingForgotten'
<1>1. LateIsWoken'
  BY ElsewhereWakes DEF NothingForgotten, Stirring
<1>2. WordsFit(worker)'
  BY DEF NothingForgotten
<1>3. ~dropped' => LastWordIsNew' /\ FoundIsNew'
  BY DEF NothingForgotten, LastWordIsNew, LastWord, FoundIsNew, Stirring
<1>4. Rests'
  BY DEF NothingForgotten, Rests, Quiescent, Converged, Alive
<1> QED
  BY <1>1, <1>2, <1>3, <1>4 DEF NothingForgotten

(* The Policy's side and those who work on AWS by hand. *)
LEMMA OutsideRemembers ==
  ASSUME NothingForgotten, OutsideStep
  PROVE  NothingForgotten'
<1>1. UNCHANGED <<resource, holders, event, queued, worker, dropped>>
  BY DEF OutsideStep, PolicyMade, PolicyShown, PolicyForgotten, PolicyDetached,
     PolicyDeleted, OnAws!Make, OnAws!Show, OnAws!Forget, OnAws!Detach, OnAws!Delete,
     AttachForeign, DeleteIamRole, reconcilerVars, ActOnAws, ActElsewhere, Act
<1>2. Untouched' => Untouched /\ UNCHANGED <<iamRole, attached>>
  BY DEF OutsideStep, PolicyMade, PolicyShown, PolicyForgotten, PolicyDetached,
     PolicyDeleted, OnAws!Make, OnAws!Show, OnAws!Forget, OnAws!Detach, OnAws!Delete,
     AttachForeign, DeleteIamRole, reconcilerVars, ActOnAws, Untouched, roleVars
<1> QED
  BY <1>1, <1>2, ElsewhereRemembers

(* Nothing is forgotten at the start. *)
LEMMA InitRemembers == Init => NothingForgotten
<1> SUFFICES ASSUME Init PROVE NothingForgotten
  OBVIOUS
<1>1. LateIsWoken /\ worker.pc = "idle" /\ ~resource.exists
  BY InitWakes DEF Init
<1> QED
  BY <1>1 DEF NothingForgotten, LastWordIsNew, LastWord, FoundIsNew, WordsFit, Heading, AttachSteps,
     Rests

(* Every step keeps NothingForgotten. *)
LEMMA NextRemembers ==
  ASSUME IInv, NothingForgotten, DeletionPursued', [Next]_vars
  PROVE  NothingForgotten'
<1>1. CASE LifecycleStep
  BY <1>1, LifecycleRemembers
<1>2. CASE RoutineStep
  <2>1. (~dropped => FoundIsNew) /\ WordsFit(worker)
    BY DEF NothingForgotten
  <2> QED
    BY <1>2, <2>1, SettingRemembers, SettingPolicyRemembers, RoutineIsQuiet, QuietStepRemembers
<1>3. CASE FinalizerStep
  BY <1>3, ListAttachedIsQuiet, DetachRolePolicyIsQuiet, DeleteRoleIsQuiet, QuietStepRemembers
     DEF FinalizerStep
<1>4. CASE UNCHANGED vars
  <2>1. UNCHANGED <<resource, holders, event, queued, worker, dropped>> /\ (Untouched' = Untouched)
        /\ UNCHANGED <<iamRole, attached>>
    BY <1>4 DEF vars, reconcilerVars, iamVars, roleVars, policyVars, Untouched
  <2> QED
    BY <2>1, ElsewhereRemembers
<1> QED
  BY <1>1, <1>2, <1>3, <1>4, InformerRemembers, UserRemembers, OutsideRemembers
     DEF Next, ReconcilerStep

-----------------------------------------------------------------------------
(***************************************************************************)
(* Whatever the worker of the Role reconciler leaves undone, something     *)
(* will bring it back: late copies, lost replies, failures, crashes and    *)
(* panics notwithstanding, unless its last reconciliation ignored that an  *)
(* update failed.                                                          *)
(***************************************************************************)
THEOREM NothingIsForgotten == Spec => []NothingForgotten
<1>1. IInv /\ NothingForgotten /\ DeletionPursued' /\ [Next]_vars => NothingForgotten'
  BY NextRemembers
<1> QED
  BY <1>1, InitRemembers, Invariance, DeletionIsPursued, PTL DEF Spec

(***************************************************************************)
(* So when nothing is left to do, no deletion of the Role is pending, and, *)
(* unless others took the role or its policy away on AWS or the last       *)
(* reconciliation ignored that an update failed, it is "created", carries  *)
(* both ARNs, and has its policy attached on AWS.                          *)
(***************************************************************************)
THEOREM RestIsConverged == Spec => []RestsConverged
<1>1. NothingForgotten => RestsConverged
  BY DEF NothingForgotten, Rests, RestsConverged
<1> QED
  BY <1>1, NothingIsForgotten, PTL

=============================================================================
