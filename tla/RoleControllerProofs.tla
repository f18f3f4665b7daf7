------------------------ MODULE RoleControllerProofs ------------------------
(***************************************************************************)
(* Theorems about RoleController, for every number of the others' acts and *)
(* of failures, every set of policies and of service account names.        *)
(*                                                                         *)
(* As in PolicyControllerProofs, all of them follow from one inductive     *)
(* invariant, IInv, of which ReconcilerProofs keeps the half that speaks   *)
(* of the copies; here one lemma per action keeps the other half: where    *)
(* the IAM role may exist, and what the worker has established at each     *)
(* step.  The last section shows that the reconciler does to the AWS       *)
(* policy only what PolicyOnAws lets it.                                   *)
(***************************************************************************)
EXTENDS RoleController, ReconcilerProofs

-----------------------------------------------------------------------------
(* The two halves of the invariant *)

(* The half that ReconcilerProofs speaks of. *)
Half == ReconcilerInv(RoleSpecs, Steps, Policies)

(* The types of what is on AWS and of the Policy's side. *)
IamTypes ==
    /\ iamRole \in BOOLEAN
    /\ foreign \subseteq ForeignPolicies
    /\ attached \subseteq {RoleName}
    /\ iamPolicy \in BOOLEAN
    /\ policyArn \in {"", "arn"}
    /\ deeds \subseteq {"policy", "attach", "delete"}

(* IInv is made of the two halves. *)
LEMMA Halves == IInv <=> Half /\ IamTypes /\ RoleJustified /\ StepsJustified
<1>1. Steps \cap CommonSteps = {}
  BY DEF Steps, CommonSteps
<1> QED
  BY <1>1 DEF IInv, TypeOK, Half, IamTypes, ReconcilerInv, StepsJustified

(* The same after a step. *)
LEMMA HalvesNext ==
  ASSUME Half', IamTypes', RoleJustified', StepsJustified'
  PROVE  IInv'
  BY DEF IInv, TypeOK, Half, IamTypes, ReconcilerInv

(* The worker has a copy when it calls AWS. *)
LEMMA OwnSteps ==
  ASSUME IInv
  PROVE  /\ ReconcilerTypes(RoleSpecs, Steps, Policies) /\ faults \in 0..MaxFaults
         /\ worker.obj \in Resources(RoleSpecs)
         /\ worker.obj.exists => worker.obj.spec \in RoleSpecs
         /\ worker.pc # "idle" => Busy /\ worker.obj.exists
<1>1. Half
  BY Halves
<1>2. worker.obj \in Resources(RoleSpecs)
  BY <1>1, FieldTypes DEF Half, ReconcilerInv
<1>3. worker.obj.exists => worker.obj.spec \in RoleSpecs
  BY <1>2, ResourceFields
<1> QED
  BY <1>1, <1>2, <1>3 DEF Half, ReconcilerInv, ReconcilerTypes, CopiesInv, CopiesTruthful, Busy

(* A call to AWS keeps the invariant when it keeps the two parts of the    *)
(* second half.                                                            *)
LEMMA AwsStepKeeps ==
  ASSUME IInv, Busy, MovesOn(RoleSpecs, Steps, Policies), faults' \in 0..MaxFaults,
         UnchangedCluster, IamTypes', RoleJustified', StepsJustified'
  PROVE  IInv'
<1>1. Half
  BY Halves
<1>2. ReconcilerTypes(RoleSpecs, Steps, Policies)' /\ CopiesInv'
  BY <1>1, MovingKeeps DEF Half
<1>3. Half'
  BY <1>1, <1>2 DEF Half, ReconcilerInv, StepsJustified
<1> QED
  BY <1>3, HalvesNext

(* Nothing changes on AWS and in the resource: nothing is to be justified. *)
LEMMA RoleStays ==
  ASSUME IInv, UNCHANGED iamVars
  PROVE  /\ IamTypes' /\ (AttachedPolicies' = AttachedPolicies) /\ (Untouched' = Untouched)
         /\ UNCHANGED <<iamRole, foreign, attached, deeds>>
         /\ resource' = resource => RoleJustified'
<1>1. UNCHANGED <<iamRole, foreign, attached, iamPolicy, policyArn, deeds>>
  BY DEF iamVars, roleVars, policyVars
<1>2. IamTypes /\ RoleJustified
  BY Halves
<1>3. IamTypes'
  BY <1>1, <1>2 DEF IamTypes
<1>4. AttachedPolicies' = AttachedPolicies /\ Untouched' = Untouched
  BY <1>1 DEF AttachedPolicies, Untouched
<1>5. resource' = resource => RoleJustified'
  BY <1>1, <1>2, <1>4 DEF RoleJustified, ArnIsReal, Alive
<1> QED
  BY <1>1, <1>3, <1>4, <1>5

(* A step of the worker that decides and changes nothing. *)
LEMMA DecisionKeeps ==
  ASSUME IInv, Busy, MovesOn(RoleSpecs, Steps, Policies), faults' \in 0..MaxFaults,
         UnchangedCluster, UNCHANGED iamVars, StepsJustified'
  PROVE  IInv'
<1>1. resource' = resource
  BY DEF UnchangedCluster
<1> QED
  BY <1>1, RoleStays, AwsStepKeeps

-----------------------------------------------------------------------------
(* Where a worker may go *)

(* An idle worker has nothing to justify. *)
LEMMA IdleJustified == worker' = Idle => StepsJustified'
<1> SUFFICES ASSUME worker' = Idle PROVE StepsJustified'
  OBVIOUS
<1>1. worker'.pc = "idle"
  BY DEF Idle
<1>2. Heading(worker') = "idle"
  BY <1>1 DEF Heading
<1> QED
  BY <1>1, <1>2 DEF StepsJustified, CommonStepsJustified, AboutToBeOk,
     RoutineSteps, AttachSteps, FinalizerSteps

(* Nor has one that ends with a report of something else than "created". *)
LEMMA ReportJustified ==
  ASSUME worker'.pc = "status", worker'.obj.finalizer,
         worker'.next \in {"return", "requeue", "ifFailed"}, worker'.status.condition # CrOK
  PROVE  StepsJustified'
<1>1. Heading(worker') \in {"return", "requeue", "ifFailed"}
  BY DEF Heading
<1> QED
  BY <1>1 DEF StepsJustified, CommonStepsJustified, AboutToBeOk,
     RoutineSteps, AttachSteps, FinalizerSteps

(* A step of the routine that is not about the attachment. *)
LEMMA RoutineJustified ==
  ASSUME Registered(worker'.obj),
         Heading(worker') \in {"getArn", "setArn", "found", "create", "getPolicy", "setPolicyArn"},
         worker'.pc = "status" => worker'.status.condition # CrOK,
         Heading(worker') = "setArn" => iamRole' \/ "delete" \in deeds'
  PROVE  StepsJustified'
<1>1. worker'.pc = "status" => worker'.obj.finalizer /\ worker'.next # "deleteCR"
  BY DEF Registered, Heading
<1>2. worker'.pc \notin {"deleteCR", "removeFinalizer"}
  BY DEF Heading
<1> QED
  BY <1>1, <1>2 DEF StepsJustified, CommonStepsJustified, AboutToBeOk,
     RoutineSteps, AttachSteps, FinalizerSteps

(* A step of the routine that is about the attachment. *)
LEMMA AttachJustified ==
  ASSUME Registered(worker'.obj), worker'.obj.spec.policyArn # "",
         Heading(worker') \in AttachSteps,
         worker'.pc = "status" => worker'.status.condition # CrOK,
         Heading(worker') = "attached" /\ Untouched' => iamRole' /\ RoleName \in attached'
  PROVE  StepsJustified'
<1>1. worker'.pc = "status" => worker'.obj.finalizer /\ worker'.next # "deleteCR"
  BY DEF Registered, Heading, AttachSteps
<1>2. worker'.pc \notin {"deleteCR", "removeFinalizer"}
  BY DEF Heading, AttachSteps
<1>3. Heading(worker') \notin FinalizerSteps \cup {"deleteCR", "removeFinalizer", "setArn"}
  BY DEF AttachSteps, FinalizerSteps
<1> QED
  BY <1>1, <1>2, <1>3 DEF StepsJustified, CommonStepsJustified, AboutToBeOk,
     RoutineSteps, FinalizerSteps

(* A step of the finalizer. *)
LEMMA FinalizerJustified ==
  ASSUME ExecutesFinalizer(worker'.obj), Heading(worker') \in FinalizerSteps \cup {"deleteCR"},
         worker'.pc = "status" => worker'.status.condition # CrOK,
         Heading(worker') = "deleteRole" => "attach" \in deeds' \/ AttachedPolicies' = {},
         Heading(worker') = "deleteCR" => "attach" \in deeds' \/ ~iamRole'
  PROVE  StepsJustified'
<1>1. worker'.pc = "status" => worker'.obj.finalizer
  BY DEF ExecutesFinalizer
<1>2. Heading(worker') # "setArn" /\ Heading(worker') \notin RoutineSteps \cup {"removeFinalizer"}
  BY DEF Heading, FinalizerSteps, RoutineSteps, AttachSteps
<1> QED
  BY <1>1, <1>2 DEF StepsJustified, CommonStepsJustified, AboutToBeOk, RoutineSteps, AttachSteps

(* Reporting an error ends the reconciliation. *)
LEMMA FailJustified ==
  ASSUME IInv, worker.obj.finalizer, NEW reason \in Reasons, Fail(reason)
  PROVE  MovesOn(RoleSpecs, Steps, Policies) /\ StepsJustified'
<1>1. /\ MovesOn(RoleSpecs, Steps, Policies)
      /\ worker'.pc = "status" /\ worker'.obj = worker.obj
      /\ worker'.status.condition = CrError /\ worker'.next = "requeue"
  BY OwnSteps, FailMoves
<1>2. CrError # CrOK
  BY DEF CrError, CrOK
<1> QED
  BY <1>1, <1>2, ReportJustified

(* So does a return. *)
LEMMA ReturnJustified ==
  ASSUME IInv, NEW requeue \in BOOLEAN, Return(requeue)
  PROVE  MovesOn(RoleSpecs, Steps, Policies) /\ StepsJustified'
  BY OwnSteps, ReturnMoves, IdleJustified

(* Any other report tells where the worker goes. *)
LEMMA ReportGoes ==
  ASSUME IInv, NEW reason \in Reasons,
         NEW next \in Steps \cup {"return", "requeue", "ifFailed", "deleteCR"},
         Report(Progress(reason), next) \/ Report(Error(reason), next) \/ Report(Deleting(reason), next)
  PROVE  /\ MovesOn(RoleSpecs, Steps, Policies)
         /\ worker'.pc = "status" /\ worker'.obj = worker.obj /\ Heading(worker') = next
         /\ worker'.next = next /\ worker'.status.condition # CrOK
<1>1. /\ Progress(reason) \in Statuses /\ Progress(reason).condition = CrProgressing
      /\ Error(reason) \in Statuses /\ Error(reason).condition = CrError
      /\ Deleting(reason) \in Statuses /\ Deleting(reason).condition = CrDeleting
  BY StatusTypes
<1>2. CrError # CrOK /\ CrProgressing # CrOK /\ CrDeleting # CrOK
  BY DEF CrError, CrOK, CrProgressing, CrDeleting
<1>3. ASSUME NEW status \in {Progress(reason), Error(reason), Deleting(reason)},
             Report(status, next)
      PROVE  /\ MovesOn(RoleSpecs, Steps, Policies)
             /\ worker'.pc = "status" /\ worker'.obj = worker.obj
             /\ worker'.status = status /\ worker'.next = next
  <2>1. status \in Statuses
    BY <1>1
  <2> QED
    BY <1>3, <2>1, OwnSteps, ReportMoves
<1> QED
  BY <1>1, <1>2, <1>3 DEF Heading

(* Going to a step without a report. *)
LEMMA Goes ==
  ASSUME IInv, NEW pc \in Steps, Goto(pc)
  PROVE  /\ MovesOn(RoleSpecs, Steps, Policies)
         /\ worker'.pc = pc /\ worker'.obj = worker.obj /\ Heading(worker') = pc
         /\ worker'.pc # "status"
<1>1. pc \in CommonSteps \cup Steps /\ pc # "idle" /\ pc # "status"
  BY DEF Steps
<1>2. MovesOn(RoleSpecs, Steps, Policies) /\ worker'.pc = pc /\ worker'.obj = worker.obj
  BY <1>1, OwnSteps, GotoMoves
<1> QED
  BY <1>1, <1>2 DEF Heading

(* The answers of IAM about the role. *)
LEMMA AnswerAboutRoleType ==
  ASSUME faults \in 0..MaxFaults, NEW ok \in BOOLEAN, AnswerAboutRole(ok)
  PROVE  faults' \in 0..MaxFaults
  BY AnswerType DEF AnswerAboutRole

-----------------------------------------------------------------------------
(* reconcilerRoutine: the role on AWS *)

(* The reasons that the reports give. *)
LEMMA ReasonsGiven ==
    {"passed validation", "invalid", "check failed", "get failed", "set failed", "role found",
     "role created", "create failed", "policy found", "list failed", "policy attached",
     "attach failed", "none attached", "still attached", "role deleted"} \subseteq Reasons
  BY DEF Reasons

(* admissionStep only reports. *)
LEMMA AdmissionStepKeeps == IInv /\ AdmissionStep => IInv'
<1> SUFFICES ASSUME IInv, AdmissionStep PROVE IInv'
  OBVIOUS
<1>1. /\ Busy /\ worker.obj.finalizer /\ UnchangedCluster /\ faults' = faults /\ UNCHANGED iamVars
      /\ Report(Progress("passed validation"), "ifFailed") \/ Report(Error("invalid"), "ifFailed")
  BY DEF AdmissionStep, Admission, Busy, Registered
<1>2. MovesOn(RoleSpecs, Steps, Policies) /\ StepsJustified'
  BY <1>1, ReasonsGiven, ReportGoes, ReportJustified
<1> QED
  BY <1>1, <1>2, OwnSteps, DecisionKeeps

(* RoleExists only decides between reading the ARN and creating the role. *)
LEMMA RoleExistsKeeps == IInv /\ RoleExists => IInv'
<1> SUFFICES ASSUME IInv, RoleExists PROVE IInv'
  OBVIOUS
<1>1. PICK ok \in BOOLEAN :
        AnswerAboutRole(ok) /\ (Fail("check failed") \/ Goto("getArn") \/ Goto("create"))
  BY DEF RoleExists
<1>2. /\ Busy /\ Registered(worker.obj) /\ worker.obj.finalizer
      /\ UnchangedCluster /\ UNCHANGED iamVars
  BY DEF RoleExists, Busy, InRoutine, Registered
<1>3. faults' \in 0..MaxFaults
  BY <1>1, OwnSteps, AnswerAboutRoleType
<1>4. MovesOn(RoleSpecs, Steps, Policies) /\ StepsJustified'
  <2>1. CASE Fail("check failed")
    BY <1>2, <2>1, ReasonsGiven, FailJustified
  <2>2. CASE Goto("getArn") \/ Goto("create")
    <3>1. "getArn" \in Steps /\ "create" \in Steps
      BY DEF Steps
    <3> QED
      BY <1>2, <2>2, <3>1, Goes, RoutineJustified
  <2> QED
    BY <1>1, <2>1, <2>2
<1> QED
  BY <1>2, <1>3, <1>4, DecisionKeeps

(* The steps of the routine start from a live copy with the finalizer. *)
LEMMA InRoutineSteps ==
  ASSUME IInv, Heading(worker) \in RoutineSteps
  PROVE  Busy /\ Registered(worker.obj) /\ worker.obj.finalizer
<1>1. Registered(worker.obj)
  BY DEF IInv, StepsJustified
<1>2. worker.pc # "idle"
  BY DEF Heading, RoutineSteps, AttachSteps
<1> QED
  BY <1>1, <1>2 DEF Busy, Registered

(* The ARN is only written for a role that IAM answers with. *)
LEMMA GetRoleARNKeeps == IInv /\ GetRoleARN => IInv'
<1> SUFFICES ASSUME IInv, GetRoleARN PROVE IInv'
  OBVIOUS
<1>1. PICK ok \in BOOLEAN :
        /\ AnswerAboutRole(ok)
        /\ (iamRole /\ Goto("setArn")) \/ Report(Error("get failed"), "found")
  BY DEF GetRoleARN
<1>2. /\ Busy /\ Registered(worker.obj) /\ UnchangedCluster /\ UNCHANGED iamVars
      /\ iamRole' = iamRole
  <2>1. Heading(worker) \in RoutineSteps
    BY DEF GetRoleARN, Heading, RoutineSteps
  <2> QED
    BY <2>1, InRoutineSteps, RoleStays DEF GetRoleARN
<1>3. faults' \in 0..MaxFaults
  BY <1>1, OwnSteps, AnswerAboutRoleType
<1>4. MovesOn(RoleSpecs, Steps, Policies) /\ StepsJustified'
  <2>1. "setArn" \in Steps /\ "found" \in Steps
    BY DEF Steps
  <2>2. CASE iamRole /\ Goto("setArn")
    BY <1>2, <2>1, <2>2, Goes, RoutineJustified
  <2>3. CASE Report(Error("get failed"), "found")
    <3>1. /\ MovesOn(RoleSpecs, Steps, Policies)
          /\ worker'.obj = worker.obj /\ Heading(worker') = "found"
          /\ worker'.status.condition # CrOK
      BY <2>1, <2>3, ReasonsGiven, ReportGoes
    <3> QED
      BY <1>2, <3>1, RoutineJustified
  <2> QED
    BY <1>1, <2>2, <2>3
<1> QED
  BY <1>2, <1>3, <1>4, DecisionKeeps

(* setRoleArnField and setPolicyArnFieldIfPossible change one ARN. *)
LEMMA ArnEdits ==
  ASSUME IInv, resource.exists, NEW new,
         \/ new = [resource EXCEPT !.spec.roleArn = "arn"]
         \/ new = [resource EXCEPT !.spec.policyArn = "arn"]
  PROVE  /\ new \in Resources(RoleSpecs) /\ new.exists /\ new.uid = resource.uid
         /\ new.deleting = resource.deleting /\ new.finalizer = resource.finalizer
         /\ new.status = resource.status
         /\ \/ new = [resource EXCEPT !.spec.roleArn = "arn"]
            \/ new.spec.roleArn = resource.spec.roleArn /\ new.spec.policyArn # ""
<1>1. resource \in StoredResources(RoleSpecs) /\ resource \in Resources(RoleSpecs)
  BY OwnSteps, FieldTypes, StoredExists
<1>2. PICK spec \in RoleSpecs :
        /\ new = [resource EXCEPT !.spec = spec]
        /\ \/ new = [resource EXCEPT !.spec.roleArn = "arn"]
           \/ spec.roleArn = resource.spec.roleArn /\ spec.policyArn # ""
  <2>1. CASE new = [resource EXCEPT !.spec.roleArn = "arn"]
    <3>1. [resource.spec EXCEPT !.roleArn = "arn"] \in RoleSpecs
      BY <1>1 DEF StoredResources, RoleSpecs
    <3>2. new = [resource EXCEPT !.spec = [resource.spec EXCEPT !.roleArn = "arn"]]
      BY <1>1, <2>1 DEF StoredResources
    <3> QED
      BY <2>1, <3>1, <3>2
  <2>2. CASE new = [resource EXCEPT !.spec.policyArn = "arn"]
    <3> DEFINE spec == [resource.spec EXCEPT !.policyArn = "arn"]
    <3>1. /\ spec \in RoleSpecs
          /\ spec.roleArn = resource.spec.roleArn /\ spec.policyArn # ""
      BY <1>1 DEF StoredResources, RoleSpecs
    <3>2. new = [resource EXCEPT !.spec = spec]
      BY <1>1, <2>2 DEF StoredResources
    <3> HIDE DEF spec
    <3> QED
      BY <3>1, <3>2
  <2> QED
    BY <2>1, <2>2
<1>3. \A s : s = [resource EXCEPT !.spec = spec] =>
        /\ s \in Resources(RoleSpecs) /\ s.exists /\ s.uid = resource.uid
        /\ s.deleting = resource.deleting /\ s.finalizer = resource.finalizer
        /\ s.status = resource.status /\ s.spec = spec
  BY <1>1, SpecEdit
<1> QED
  BY <1>2, <1>3

(* Recording an ARN keeps a live resource with its finalizer; it may be   *)
(* recorded for a role that exists.                                       *)
LEMMA RecordingKeeps ==
  ASSUME IInv, Busy, Registered(worker.obj), UNCHANGED iamVars,
         NEW new, NEW applied \in BOOLEAN, NEW ok \in BOOLEAN,
         Update(new, applied, ok), HoldUpdated(ok), Retried \/ Ignored,
         resource.exists =>
           /\ new \in Resources(RoleSpecs) /\ new.exists /\ new.uid = resource.uid
           /\ new.deleting = resource.deleting /\ new.finalizer = resource.finalizer
           /\ iamRole \/ "delete" \in deeds \/ new.spec.roleArn = resource.spec.roleArn,
         worker' \in Workers(RoleSpecs, Steps, Policies), queued' \in BOOLEAN,
         \/ worker' = Idle
         \/ worker'.pc # "idle" /\ worker'.obj = IF ok THEN resource' ELSE worker.obj,
         StepsJustified'
  PROVE  IInv'
<1>1. Half /\ RoleJustified
  BY Halves
<1>2. /\ applied => resource.exists /\ Agrees(resource, worker.obj) /\ resource' = Stored(new)
      /\ ~applied => resource' = resource
  BY <1>1, UpdateFacts DEF Half
<1>3. applied => new.finalizer
  BY <1>2 DEF Agrees, Registered
<1>4. /\ ReconcilerTypes(RoleSpecs, Steps, Policies)' /\ CopiesInv'
      /\ applied => resource' = new
  BY <1>1, <1>2, <1>3, UpdatingKeeps DEF Half, Agrees
<1>5. Half'
  BY <1>1, <1>4 DEF Half, ReconcilerInv, StepsJustified
<1>6. RoleJustified'
  BY <1>1, <1>2, <1>3, <1>4, RoleStays DEF RoleJustified, ArnIsReal, Alive
<1> QED
  BY <1>5, <1>6, RoleStays, HalvesNext

(* setRoleArnField writes the ARN of a role that was found. *)
LEMMA SetRoleArnFieldKeeps == IInv /\ SetRoleArnField => IInv'
<1> SUFFICES ASSUME IInv, SetRoleArnField PROVE IInv'
  OBVIOUS
<1> DEFINE new == [resource EXCEPT !.spec.roleArn = "arn"]
<1>1. PICK applied \in BOOLEAN, ok \in BOOLEAN :
        /\ Update(new, applied, ok)
        /\ worker' = [worker EXCEPT !.pc = IF ok THEN "found" ELSE "status", !.next = "found",
                                    !.obj = IF ok THEN resource' ELSE @,
                                    !.status = IF ok THEN @ ELSE Error("set failed")]
        /\ HoldUpdated(ok) /\ Ignored
  BY DEF SetRoleArnField
<1>2. /\ Busy /\ Registered(worker.obj) /\ UNCHANGED iamVars
      /\ (iamRole \/ "delete" \in deeds) /\ queued' = queued
      /\ Half /\ ReconcilerTypes(RoleSpecs, Steps, Policies) /\ resource \in Resources(RoleSpecs)
  <2>1. Heading(worker) = "setArn" /\ Heading(worker) \in RoutineSteps
    BY DEF SetRoleArnField, Heading, RoutineSteps
  <2> QED
    BY <2>1, InRoutineSteps, Halves, OwnSteps, FieldTypes DEF SetRoleArnField, StepsJustified
<1>3. resource.exists =>
        /\ new \in Resources(RoleSpecs) /\ new.exists /\ new.uid = resource.uid
        /\ new.deleting = resource.deleting /\ new.finalizer = resource.finalizer
  BY ArnEdits
<1> HIDE DEF new
<1>4. /\ ok => applied
      /\ applied => resource.exists /\ Agrees(resource, worker.obj) /\ resource' = Stored(new)
      /\ ~applied => resource' = resource
  BY <1>1, <1>2, UpdateFacts DEF Half
<1>5. applied => resource' = new
  BY <1>2, <1>3, <1>4 DEF Agrees, Registered, Stored
<1>6. /\ worker' \in Workers(RoleSpecs, Steps, Policies)
      /\ worker'.pc = IF ok THEN "found" ELSE "status"
      /\ worker'.next = "found" /\ worker'.obj = IF ok THEN resource' ELSE worker.obj
      /\ ~ok => worker'.status.condition # CrOK
  <2>1. Error("set failed") \in Statuses /\ Error("set failed").condition # CrOK
    BY StatusTypes, ReasonsGiven DEF CrError, CrOK
  <2>2. worker \in Workers(RoleSpecs, Steps, Policies) /\ resource' \in Resources(RoleSpecs)
    BY <1>2, <1>3, <1>4, <1>5 DEF ReconcilerTypes
  <2>3. "found" \in Steps
    BY DEF Steps
  <2>4. CASE ok
    <3>1. worker' = [worker EXCEPT !.pc = "found", !.next = "found", !.obj = resource']
      <4>1. worker \in [pc : CommonSteps \cup Steps, obj : Resources(RoleSpecs), status : Statuses,
                        next : Steps \cup {"return", "requeue", "ifFailed", "deleteCR"},
                        todo : SUBSET Policies]
        BY <2>2 DEF Workers
      <4> QED
        BY <1>1, <2>4, <4>1
    <3> QED
      BY <2>2, <2>3, <2>4, <3>1 DEF Workers
  <2>5. CASE ~ok
    <3>1. worker' = [worker EXCEPT !.pc = "status", !.next = "found", !.status = Error("set failed")]
      <4>1. worker \in [pc : CommonSteps \cup Steps, obj : Resources(RoleSpecs), status : Statuses,
                        next : Steps \cup {"return", "requeue", "ifFailed", "deleteCR"},
                        todo : SUBSET Policies]
        BY <2>2 DEF Workers
      <4> QED
        BY <1>1, <2>5, <4>1
    <3> QED
      BY <2>1, <2>2, <2>3, <2>5, <3>1 DEF Workers, CommonSteps
  <2> QED
    BY <2>4, <2>5
<1>7. StepsJustified'
  <2>1. Heading(worker') = "found" /\ Registered(worker'.obj)
    BY <1>2, <1>3, <1>4, <1>5, <1>6 DEF Heading, Registered, Agrees
  <2> QED
    BY <1>6, <2>1, RoutineJustified
<1>8. queued' \in BOOLEAN
  BY <1>2 DEF ReconcilerTypes
<1>9. worker'.pc # "idle"
  BY <1>6
<1>10. Update(new, applied, ok) /\ HoldUpdated(ok) /\ (Retried \/ Ignored)
  BY <1>1, Zenon
<1>11. resource.exists =>
         /\ new \in Resources(RoleSpecs) /\ new.exists /\ new.uid = resource.uid
         /\ new.deleting = resource.deleting /\ new.finalizer = resource.finalizer
         /\ iamRole \/ "delete" \in deeds \/ new.spec.roleArn = resource.spec.roleArn
  BY <1>2, <1>3
<1> QED
  BY <1>2, <1>6, <1>7, <1>8, <1>9, <1>10, <1>11, RecordingKeeps

(* Whatever came of it, "role found" is reported. *)
LEMMA RoleFoundKeeps == IInv /\ RoleFound => IInv'
<1> SUFFICES ASSUME IInv, RoleFound PROVE IInv'
  OBVIOUS
<1>1. /\ Busy /\ worker.obj.finalizer
  <2>1. Heading(worker) \in RoutineSteps
    BY DEF RoleFound, Heading, RoutineSteps
  <2> QED
    BY <2>1, InRoutineSteps
<1>2. MovesOn(RoleSpecs, Steps, Policies) /\ StepsJustified'
  BY <1>1, ReasonsGiven, ReportGoes, ReportJustified DEF RoleFound
<1> QED
  BY <1>1, <1>2, OwnSteps, DecisionKeeps DEF RoleFound

(* The role is created for a resource that is stored with its finalizer. *)
LEMMA CreateRoleKeeps == IInv /\ CreateRole => IInv'
<1> SUFFICES ASSUME IInv, CreateRole PROVE IInv'
  OBVIOUS
<1>1. PICK applied \in BOOLEAN, ok \in BOOLEAN :
        /\ Call("iam", ~NameTooLong, applied, ok)
        /\ iamRole' = (iamRole \/ applied)
        /\ IF ok THEN Report(Progress("role created"), Onward(worker.obj)) ELSE Fail("create failed")
  BY DEF CreateRole
<1>2. /\ Busy /\ Registered(worker.obj) /\ worker.obj.finalizer /\ UnchangedCluster
      /\ UNCHANGED <<foreign, attached, iamPolicy, policyArn, deeds>>
  <2>1. Heading(worker) \in RoutineSteps
    BY DEF CreateRole, Heading, RoutineSteps
  <2> QED
    BY <2>1, InRoutineSteps DEF CreateRole, policyVars
<1>3. faults' \in 0..MaxFaults
  BY <1>1, OwnSteps, FaultType DEF Call
<1>4. MovesOn(RoleSpecs, Steps, Policies) /\ StepsJustified'
  <2>1. CASE ok /\ worker.obj.spec.policyArn = ""
    <3>1. Onward(worker.obj) = "getPolicy" /\ "getPolicy" \in Steps
      BY <2>1 DEF Onward, Steps
    <3> QED
      BY <1>1, <1>2, <2>1, <3>1, ReasonsGiven, ReportGoes, RoutineJustified
  <2>2. CASE ok /\ worker.obj.spec.policyArn # ""
    <3>1. Onward(worker.obj) = "attach" /\ "attach" \in Steps /\ "attach" \in AttachSteps
      BY <2>2 DEF Onward, Steps, AttachSteps
    <3> QED
      BY <1>1, <1>2, <2>2, <3>1, ReasonsGiven, ReportGoes, AttachJustified
  <2>3. CASE ~ok
    BY <1>1, <1>2, <2>3, ReasonsGiven, FailJustified
  <2> QED
    BY <2>1, <2>2, <2>3
<1>5. IamTypes'
  BY <1>1, <1>2, Halves DEF IamTypes
<1>6. RoleJustified'
  <2>1. RoleJustified /\ AttachedPolicies' = AttachedPolicies /\ resource' = resource
    BY <1>2, Halves DEF AttachedPolicies, UnchangedCluster
  <2>2. resource.exists /\ resource.finalizer
    BY <1>2 DEF IInv, CopiesInv, CopiesTruthful, FinalizerStays, Registered
  <2> QED
    BY <1>1, <1>2, <2>1, <2>2 DEF RoleJustified, ArnIsReal, Alive
<1> QED
  BY <1>2, <1>3, <1>4, <1>5, <1>6, AwsStepKeeps

-----------------------------------------------------------------------------
(* reconcilerRoutine: the policy of the role *)

(* The two ways to reach a step that follows the role. *)
LEMMA AtStep ==
  ASSUME IInv, NEW step \in {"getPolicy", "attach"}, At(step)
  PROVE  /\ Busy /\ Registered(worker.obj) /\ worker.obj.finalizer
         /\ step = "attach" => worker.obj.spec.policyArn # ""
<1>1. CASE worker.pc = step
  <2>1. Heading(worker) = step /\ Heading(worker) \in RoutineSteps
    BY <1>1 DEF Heading, RoutineSteps, AttachSteps
  <2>2. step = "attach" => worker.obj.spec.policyArn # ""
    BY <2>1 DEF IInv, StepsJustified, AttachSteps
  <2> QED
    BY <2>1, <2>2, InRoutineSteps
<1>2. CASE worker.pc = "got" /\ InRoutine(worker.obj) /\ Onward(worker.obj) = step
  BY <1>2 DEF Busy, InRoutine, Registered, Onward
<1> QED
  BY <1>1, <1>2 DEF At

(* getPolicy reads the cache only. *)
LEMMA GetPolicyKeeps == IInv /\ GetPolicy => IInv'
<1> SUFFICES ASSUME IInv, GetPolicy PROVE IInv'
  OBVIOUS
<1>1. /\ Busy /\ Registered(worker.obj) /\ UnchangedCluster /\ UNCHANGED iamVars /\ faults' = faults
      /\ Goto("setPolicyArn") \/ Return(TRUE)
  BY AtStep DEF GetPolicy
<1>2. MovesOn(RoleSpecs, Steps, Policies) /\ StepsJustified'
  <2>1. "setPolicyArn" \in Steps
    BY DEF Steps
  <2> QED
    BY <1>1, <2>1, Goes, RoutineJustified, ReturnJustified
<1> QED
  BY <1>1, <1>2, OwnSteps, DecisionKeeps

(* setPolicyArnFieldIfPossible records the ARN of the Policy in the copy and *)
(* the resource, and touches nothing else.                                   *)
LEMMA SetPolicyArnFieldKeeps == IInv /\ SetPolicyArnField => IInv'
<1> SUFFICES ASSUME IInv, SetPolicyArnField PROVE IInv'
  OBVIOUS
<1> DEFINE new == [resource EXCEPT !.spec.policyArn = "arn"]
<1>1. PICK applied \in BOOLEAN, ok \in BOOLEAN :
        /\ Update(new, applied, ok)
        /\ IF ok THEN /\ worker' = [worker EXCEPT !.pc = "status", !.next = "requeue", !.obj = resource',
                                                  !.status = Progress("policy found")]
                      /\ UNCHANGED queued
                 ELSE Return(TRUE)
        /\ HoldUpdated(ok) /\ Retried
  BY DEF SetPolicyArnField
<1>2. /\ Busy /\ Registered(worker.obj) /\ UNCHANGED iamVars
      /\ Half /\ ReconcilerTypes(RoleSpecs, Steps, Policies) /\ resource \in Resources(RoleSpecs)
  <2>1. worker.pc = "setPolicyArn" /\ Heading(worker) \in RoutineSteps
    BY DEF SetPolicyArnField, Heading, RoutineSteps
  <2> QED
    BY <2>1, InRoutineSteps, Halves, OwnSteps, FieldTypes DEF SetPolicyArnField
<1>3. resource.exists =>
        /\ new \in Resources(RoleSpecs) /\ new.exists /\ new.uid = resource.uid
        /\ new.deleting = resource.deleting /\ new.finalizer = resource.finalizer
        /\ new.spec.roleArn = resource.spec.roleArn
  <2>1. ASSUME resource.exists PROVE new.spec.roleArn = resource.spec.roleArn
    <3>1. resource \in StoredResources(RoleSpecs)
      BY <1>2, <2>1, StoredExists
    <3> QED
      BY <3>1 DEF StoredResources, RoleSpecs
  <2>2. resource.exists =>
          /\ new \in Resources(RoleSpecs) /\ new.exists /\ new.uid = resource.uid
          /\ new.deleting = resource.deleting /\ new.finalizer = resource.finalizer
    BY ArnEdits
  <2> HIDE DEF new
  <2> QED
    BY <2>1, <2>2
<1> HIDE DEF new
<1>4. Update(new, applied, ok) /\ HoldUpdated(ok) /\ (Retried \/ Ignored)
  BY <1>1, Zenon
<1>5. /\ ok => applied
      /\ applied => resource.exists /\ Agrees(resource, worker.obj) /\ resource' = Stored(new)
  BY <1>2, <1>4, UpdateFacts DEF Half
<1>6. applied => resource' = new
  BY <1>2, <1>3, <1>5 DEF Agrees, Registered, Stored
<1>7. /\ worker' \in Workers(RoleSpecs, Steps, Policies) /\ queued' \in BOOLEAN
      /\ \/ worker' = Idle
         \/ worker'.pc # "idle" /\ worker'.obj = IF ok THEN resource' ELSE worker.obj
      /\ StepsJustified'
  <2>1. CASE ok
    <3>1. /\ worker' = [worker EXCEPT !.pc = "status", !.next = "requeue", !.obj = resource',
                                      !.status = Progress("policy found")]
          /\ queued' = queued
      BY <1>1, <2>1
    <3>2. /\ Progress("policy found") \in Statuses
          /\ Progress("policy found").condition # CrOK
      BY StatusTypes, ReasonsGiven DEF CrProgressing, CrOK
    <3>3. worker \in Workers(RoleSpecs, Steps, Policies) /\ queued \in BOOLEAN
      BY <1>2 DEF ReconcilerTypes
    <3>4. resource' \in Resources(RoleSpecs) /\ resource'.finalizer
      BY <1>2, <1>3, <1>5, <1>6, <2>1 DEF Agrees, Registered
    <3>5. /\ worker' \in Workers(RoleSpecs, Steps, Policies)
          /\ worker'.pc = "status" /\ worker'.next = "requeue" /\ worker'.obj = resource'
          /\ worker'.status = Progress("policy found")
      BY <3>1, <3>2, <3>3, <3>4 DEF Workers, CommonSteps
    <3>6. StepsJustified'
      BY <3>2, <3>4, <3>5, ReportJustified
    <3> QED
      BY <2>1, <3>1, <3>3, <3>5, <3>6
  <2>2. CASE ~ok
    <3>1. Return(TRUE)
      BY <1>1, <2>2
    <3> QED
      BY <1>2, <3>1, ReturnMoves, IdleJustified DEF MovesOn
  <2> QED
    BY <2>1, <2>2
<1> QED
  BY <1>2, <1>3, <1>4, <1>7, RecordingKeeps

(* A process that panics has nothing left to justify. *)
LEMMA PanicJustified ==
  ASSUME worker'.pc = "panicked"
  PROVE  StepsJustified'
<1>1. Heading(worker') = "panicked"
  BY DEF Heading
<1> QED
  BY <1>1 DEF StepsJustified, CommonStepsJustified, AboutToBeOk,
     RoutineSteps, AttachSteps, FinalizerSteps

(* attachPolicyToRoleIfNeeded starts with a role that has its policy's ARN. *)
LEMMA RoleStillExistsKeeps == IInv /\ RoleStillExists => IInv'
<1> SUFFICES ASSUME IInv, RoleStillExists PROVE IInv'
  OBVIOUS
<1>1. PICK ok \in BOOLEAN :
        AnswerAboutRole(ok) /\ (Fail("check failed") \/ Goto("listAttached") \/ Goto("panicked"))
  BY DEF RoleStillExists
<1>2. /\ Busy /\ Registered(worker.obj) /\ worker.obj.finalizer /\ worker.obj.spec.policyArn # ""
      /\ UnchangedCluster /\ UNCHANGED iamVars
  BY AtStep DEF RoleStillExists
<1>3. faults' \in 0..MaxFaults
  BY <1>1, OwnSteps, AnswerAboutRoleType
<1>4. MovesOn(RoleSpecs, Steps, Policies) /\ StepsJustified'
  <2>1. "listAttached" \in Steps /\ "panicked" \in Steps /\ "listAttached" \in AttachSteps
    BY DEF Steps, AttachSteps
  <2>2. CASE Fail("check failed")
    BY <1>2, <2>2, ReasonsGiven, FailJustified
  <2>3. CASE Goto("listAttached")
    BY <1>2, <2>1, <2>3, Goes, AttachJustified
  <2>4. CASE Goto("panicked")
    BY <2>1, <2>4, Goes, PanicJustified
  <2> QED
    BY <1>1, <2>2, <2>3, <2>4
<1> QED
  BY <1>2, <1>3, <1>4, DecisionKeeps

(* The steps of the attachment have the policy's ARN. *)
LEMMA InAttachSteps ==
  ASSUME IInv, Heading(worker) \in AttachSteps
  PROVE  /\ Busy /\ Registered(worker.obj) /\ worker.obj.finalizer
         /\ worker.obj.spec.policyArn # ""
<1>1. Heading(worker) \in RoutineSteps
  BY DEF RoutineSteps
<1> QED
  BY <1>1, InRoutineSteps DEF IInv, StepsJustified

(* What is attached is attached to a role that exists. *)
LEMMA AttachedToRole ==
  ASSUME IInv, AlreadyAttached
  PROVE  iamRole /\ RoleName \in attached
<1>1. IamTypes /\ RoleJustified
  BY Halves
<1>2. "arn" \notin foreign
  BY <1>1, RoleAssumption DEF IamTypes
<1> QED
  BY <1>1, <1>2 DEF AlreadyAttached, AttachedPolicies, RoleJustified

(* GetAttachedRolePoliciesARNs finds the policy attached, or it is attached next. *)
LEMMA GetAttachedRolePoliciesARNsKeeps == IInv /\ GetAttachedRolePoliciesARNs => IInv'
<1> SUFFICES ASSUME IInv, GetAttachedRolePoliciesARNs PROVE IInv'
  OBVIOUS
<1>1. PICK ok \in BOOLEAN :
        /\ AnswerAboutRole(ok)
        /\ Fail("list failed") \/ Goto("attachPolicy") \/ (AlreadyAttached /\ Goto("attached"))
  BY DEF GetAttachedRolePoliciesARNs
<1>2. /\ Busy /\ Registered(worker.obj) /\ worker.obj.finalizer /\ worker.obj.spec.policyArn # ""
      /\ UnchangedCluster /\ UNCHANGED iamVars
      /\ UNCHANGED <<iamRole, attached>>
  <2>1. Heading(worker) \in AttachSteps
    BY DEF GetAttachedRolePoliciesARNs, Heading, AttachSteps
  <2> QED
    BY <2>1, InAttachSteps, RoleStays DEF GetAttachedRolePoliciesARNs
<1>3. faults' \in 0..MaxFaults
  BY <1>1, OwnSteps, AnswerAboutRoleType
<1>4. MovesOn(RoleSpecs, Steps, Policies) /\ StepsJustified'
  <2>1. /\ "attachPolicy" \in Steps /\ "attached" \in Steps
        /\ "attachPolicy" \in AttachSteps /\ "attached" \in AttachSteps
    BY DEF Steps, AttachSteps
  <2>2. CASE Fail("list failed")
    BY <1>2, <2>2, ReasonsGiven, FailJustified
  <2>3. CASE Goto("attachPolicy")
    BY <1>2, <2>1, <2>3, Goes, AttachJustified
  <2>4. CASE AlreadyAttached /\ Goto("attached")
    BY <1>2, <2>1, <2>4, AttachedToRole, Goes, AttachJustified
  <2> QED
    BY <1>1, <2>2, <2>3, <2>4
<1> QED
  BY <1>2, <1>3, <1>4, DecisionKeeps

(* AttachRolePolicy answers with a success only when the role is there. *)
LEMMA AttachRolePolicyKeeps == IInv /\ AttachRolePolicy => IInv'
<1> SUFFICES ASSUME IInv, AttachRolePolicy PROVE IInv'
  OBVIOUS
<1>1. PICK applied \in BOOLEAN, ok \in BOOLEAN :
        /\ Call("iam", iamRole /\ iamPolicy, applied, ok)
        /\ attached' = IF applied THEN attached \cup {RoleName} ELSE attached
        /\ IF ok THEN Report(Progress("policy attached"), "attached") ELSE Fail("attach failed")
  BY DEF AttachRolePolicy
<1>2. /\ Busy /\ Registered(worker.obj) /\ worker.obj.finalizer /\ worker.obj.spec.policyArn # ""
      /\ UnchangedCluster /\ UNCHANGED <<iamRole, foreign, iamPolicy, policyArn, deeds>>
  <2>1. Heading(worker) \in AttachSteps
    BY DEF AttachRolePolicy, Heading, AttachSteps
  <2> QED
    BY <2>1, InAttachSteps DEF AttachRolePolicy, policyVars
<1>3. /\ faults' \in 0..MaxFaults
      /\ applied => iamRole
      /\ ok => applied
  BY <1>1, OwnSteps, FaultType DEF Call
<1>4. MovesOn(RoleSpecs, Steps, Policies) /\ StepsJustified'
  <2>1. "attached" \in Steps /\ "attached" \in AttachSteps
    BY DEF Steps, AttachSteps
  <2>2. CASE ok
    <3>1. iamRole' /\ RoleName \in attached'
      BY <1>1, <1>2, <1>3, <2>2
    <3> QED
      BY <1>1, <1>2, <2>1, <2>2, <3>1, ReasonsGiven, ReportGoes, AttachJustified
  <2>3. CASE ~ok
    BY <1>1, <1>2, <2>3, ReasonsGiven, FailJustified
  <2> QED
    BY <2>2, <2>3
<1>5. IamTypes' /\ resource' = resource /\ IamTypes /\ RoleJustified
  BY <1>1, <1>2, Halves DEF IamTypes, UnchangedCluster
<1>6. AttachedPolicies' # {} => iamRole'
  <2>1. AttachedPolicies # {} => iamRole
    BY <1>5 DEF RoleJustified
  <2>2. CASE applied
    BY <1>2, <1>3, <2>2
  <2>3. CASE ~applied
    BY <1>1, <1>2, <2>1, <2>3 DEF AttachedPolicies
  <2> QED
    BY <2>2, <2>3
<1>7. RoleJustified'
  BY <1>2, <1>5, <1>6 DEF RoleJustified, ArnIsReal, Alive
<1> QED
  BY <1>2, <1>3, <1>4, <1>5, <1>7, AwsStepKeeps

(* "created" is reported for what was found or made just before. *)
LEMMA RoutineEndsKeeps == IInv /\ RoutineEnds => IInv'
<1> SUFFICES ASSUME IInv, RoutineEnds PROVE IInv'
  OBVIOUS
<1>1. /\ Busy /\ Registered(worker.obj) /\ worker.obj.spec.policyArn # ""
      /\ Untouched => iamRole /\ RoleName \in attached
      /\ UnchangedCluster /\ UNCHANGED iamVars /\ faults' = faults
      /\ Report(AllDone, "return") \/ Return(FALSE)
      /\ UNCHANGED <<iamRole, attached>> /\ Untouched' = Untouched
  <2>1. Heading(worker) = "attached" /\ Heading(worker) \in AttachSteps
    BY DEF RoutineEnds, Heading, AttachSteps
  <2>2. Registered(worker.obj) /\ (Untouched => iamRole /\ RoleName \in attached)
    BY <2>1 DEF IInv, StepsJustified, AboutToBeOk
  <2> QED
    BY <2>1, <2>2, InAttachSteps, RoleStays DEF RoutineEnds
<1>2. MovesOn(RoleSpecs, Steps, Policies) /\ StepsJustified'
  <2>1. CASE Report(AllDone, "return")
    <3>1. AllDone \in Statuses /\ "return" \in Steps \cup {"return", "requeue", "ifFailed", "deleteCR"}
      BY StatusTypes
    <3>2. /\ MovesOn(RoleSpecs, Steps, Policies) /\ worker'.pc = "status"
          /\ worker'.obj = worker.obj /\ worker'.next = "return"
      BY <2>1, <3>1, OwnSteps, ReportMoves
    <3>3. Heading(worker') = "return" /\ worker'.obj.finalizer
      BY <1>1, <3>2 DEF Heading, Registered
    <3>4. AboutToBeOk(worker)' => /\ Registered(worker'.obj) /\ worker'.obj.spec.policyArn # ""
                                  /\ Untouched' => iamRole' /\ RoleName \in attached'
      BY <1>1, <3>2
    <3> QED
      BY <3>2, <3>3, <3>4 DEF StepsJustified, CommonStepsJustified, RoutineSteps,
         AttachSteps, FinalizerSteps
  <2>2. CASE Return(FALSE)
    BY <2>2, ReturnJustified
  <2> QED
    BY <1>1, <2>1, <2>2
<1> QED
  BY <1>1, <1>2, OwnSteps, DecisionKeeps

-----------------------------------------------------------------------------
(* The finalizer *)

(* The steps of the finalizer start from a deleting copy. *)
LEMMA InFinalizerSteps ==
  ASSUME IInv, \/ Heading(worker) \in FinalizerSteps
               \/ worker.pc = "got" /\ ExecutesFinalizer(worker.obj)
  PROVE  Busy /\ ExecutesFinalizer(worker.obj)
  BY DEF IInv, StepsJustified, Heading, FinalizerSteps, Busy

(* The finalizer goes on to delete the role when nothing is attached. *)
LEMMA ListAttachedKeeps == IInv /\ ListAttached => IInv'
<1> SUFFICES ASSUME IInv, ListAttached PROVE IInv'
  OBVIOUS
<1>1. PICK ok \in BOOLEAN :
        /\ AnswerAboutRole(ok)
        /\ \/ NothingAttached(ok) /\ Report(Deleting("none attached"), "deleteRole")
           \/ /\ worker' = [worker EXCEPT !.pc = "status", !.next = "detach",
                                          !.status = Deleting("still attached"),
                                          !.todo = AttachedPolicies]
              /\ UNCHANGED queued
           \/ Return(TRUE)
  BY DEF ListAttached
<1>2. /\ Busy /\ ExecutesFinalizer(worker.obj) /\ UnchangedCluster /\ UNCHANGED iamVars
      /\ AttachedPolicies' = AttachedPolicies
  <2>1. \/ Heading(worker) \in FinalizerSteps
        \/ worker.pc = "got" /\ ExecutesFinalizer(worker.obj)
    BY DEF ListAttached, Heading, FinalizerSteps
  <2> QED
    BY <2>1, InFinalizerSteps, RoleStays DEF ListAttached
<1>3. faults' \in 0..MaxFaults
  BY <1>1, OwnSteps, AnswerAboutRoleType
<1>4. MovesOn(RoleSpecs, Steps, Policies) /\ StepsJustified'
  <2>1. /\ "deleteRole" \in Steps /\ "detach" \in Steps
        /\ "deleteRole" \in FinalizerSteps /\ "detach" \in FinalizerSteps
    BY DEF Steps, FinalizerSteps
  <2>2. CASE NothingAttached(ok) /\ Report(Deleting("none attached"), "deleteRole")
    <3>1. AttachedPolicies' = {}
      BY <1>2, <2>2 DEF NothingAttached
    <3>2. /\ MovesOn(RoleSpecs, Steps, Policies) /\ worker'.pc = "status"
          /\ worker'.obj = worker.obj /\ Heading(worker') = "deleteRole"
          /\ worker'.status.condition # CrOK
      BY <2>1, <2>2, ReasonsGiven, ReportGoes
    <3> QED
      BY <1>2, <2>1, <3>1, <3>2, FinalizerJustified
  <2>3. CASE /\ worker' = [worker EXCEPT !.pc = "status", !.next = "detach",
                                         !.status = Deleting("still attached"),
                                         !.todo = AttachedPolicies]
             /\ UNCHANGED queued
    <3>1. /\ Deleting("still attached") \in Statuses
          /\ Deleting("still attached").condition # CrOK
      BY StatusTypes, ReasonsGiven DEF CrDeleting, CrOK
    <3>2. AttachedPolicies \subseteq Policies
      BY Halves DEF IamTypes, AttachedPolicies, Policies
    <3>3. worker \in Workers(RoleSpecs, Steps, Policies) /\ queued \in BOOLEAN
      BY OwnSteps DEF ReconcilerTypes
    <3>4. /\ worker' \in Workers(RoleSpecs, Steps, Policies) /\ queued' \in BOOLEAN
          /\ worker'.pc = "status" /\ worker'.next = "detach" /\ worker'.obj = worker.obj
          /\ worker'.status = Deleting("still attached")
      BY <2>1, <2>3, <3>1, <3>2, <3>3 DEF Workers, CommonSteps
    <3>5. Heading(worker') = "detach"
      BY <3>4 DEF Heading
    <3> QED
      BY <1>2, <2>1, <3>1, <3>4, <3>5, FinalizerJustified DEF MovesOn
  <2>4. CASE Return(TRUE)
    BY <2>4, ReturnJustified
  <2> QED
    BY <1>1, <2>2, <2>3, <2>4
<1> QED
  BY <1>2, <1>3, <1>4, DecisionKeeps

(* DetachRolePolicy only takes attachments away. *)
LEMMA DetachRolePolicyKeeps == IInv /\ DetachRolePolicy => IInv'
<1> SUFFICES ASSUME IInv, DetachRolePolicy PROVE IInv'
  OBVIOUS
<1>1. PICK p \in worker.todo, applied \in BOOLEAN, ok \in BOOLEAN :
        /\ Call("iam", p \in AttachedPolicies, applied, ok)
        /\ foreign'  = IF applied THEN foreign \ {p} ELSE foreign
        /\ attached' = IF applied /\ p = "arn" THEN attached \ {RoleName} ELSE attached
        /\ worker' = [worker EXCEPT !.todo = @ \ {p},
                                    !.pc = IF worker.todo = {p} THEN "list" ELSE @]
  BY DEF DetachRolePolicy
<1>2. /\ worker.pc = "detach" /\ Busy /\ ExecutesFinalizer(worker.obj) /\ UnchangedCluster
      /\ UNCHANGED <<iamRole, iamPolicy, policyArn, deeds, queued>>
  <2>1. Heading(worker) \in FinalizerSteps
    BY DEF DetachRolePolicy, Heading, FinalizerSteps
  <2> QED
    BY <2>1, InFinalizerSteps DEF DetachRolePolicy, policyVars
<1>3. /\ foreign' \subseteq foreign /\ attached' \subseteq attached
      /\ AttachedPolicies' \subseteq AttachedPolicies
  <2>1. foreign' \subseteq foreign /\ attached' \subseteq attached
    BY <1>1
  <2> QED
    BY <2>1 DEF AttachedPolicies
<1>4. /\ worker' \in Workers(RoleSpecs, Steps, Policies) /\ queued' \in BOOLEAN
      /\ worker'.pc \in {"detach", "list"} /\ worker'.obj = worker.obj
  <2>1. worker \in Workers(RoleSpecs, Steps, Policies) /\ queued \in BOOLEAN
    BY OwnSteps DEF ReconcilerTypes
  <2>2. PICK pc \in {"detach", "list"} :
          worker' = [worker EXCEPT !.todo = worker.todo \ {p}, !.pc = pc]
    BY <1>1, <1>2
  <2>3. pc \in CommonSteps \cup Steps
    BY DEF Steps
  <2> QED
    BY <1>2, <2>1, <2>2, <2>3 DEF Workers
<1>5. faults' \in 0..MaxFaults
  BY <1>1, OwnSteps, FaultType DEF Call
<1>6. MovesOn(RoleSpecs, Steps, Policies) /\ StepsJustified'
  <2>1. Heading(worker') \in FinalizerSteps /\ Heading(worker') # "deleteRole"
        /\ Heading(worker') # "deleteCR" /\ worker'.pc # "status"
    BY <1>4 DEF Heading, FinalizerSteps
  <2> QED
    BY <1>2, <1>4, <2>1, FinalizerJustified DEF MovesOn
<1>7. IamTypes' /\ resource' = resource /\ RoleJustified
  BY <1>2, <1>3, Halves DEF IamTypes, UnchangedCluster
<1>8. RoleJustified'
  BY <1>2, <1>3, <1>7 DEF RoleJustified, ArnIsReal, Alive
<1> QED
  BY <1>2, <1>5, <1>6, <1>7, <1>8, AwsStepKeeps

(* DeleteRole does not hit the role of a live resource: a successor of the *)
(* deleting copy has no finalizer yet, and no ARN.                         *)
LEMMA DeleteRoleKeeps == IInv /\ DeleteRole => IInv'
<1> SUFFICES ASSUME IInv, DeleteRole PROVE IInv'
  OBVIOUS
<1>1. PICK applied \in BOOLEAN, ok \in BOOLEAN :
        /\ Call("iam", ~NameTooLong, applied, ok)
        /\ iamRole' = (iamRole /\ ~(applied /\ AttachedPolicies = {}))
        /\ IF ok THEN Report(Deleting("role deleted"), "deleteCR") ELSE Return(TRUE)
  BY DEF DeleteRole
<1>2. /\ Busy /\ ExecutesFinalizer(worker.obj) /\ UnchangedCluster
      /\ UNCHANGED <<foreign, attached, iamPolicy, policyArn, deeds>>
      /\ "attach" \in deeds \/ AttachedPolicies = {}
  <2>1. Heading(worker) = "deleteRole" /\ Heading(worker) \in FinalizerSteps
    BY DEF DeleteRole, Heading, FinalizerSteps
  <2>2. "attach" \in deeds \/ AttachedPolicies = {}
    BY <2>1 DEF IInv, StepsJustified
  <2> QED
    BY <2>1, <2>2, InFinalizerSteps DEF DeleteRole, policyVars
<1>3. faults' \in 0..MaxFaults /\ (ok => applied)
  BY <1>1, OwnSteps, FaultType DEF Call
<1>4. MovesOn(RoleSpecs, Steps, Policies) /\ StepsJustified'
  <2>1. CASE ok
    <3>1. "attach" \in deeds' \/ ~iamRole'
      BY <1>1, <1>2, <1>3, <2>1
    <3>2. "deleteCR" \notin FinalizerSteps \cup {"deleteRole"}
      BY DEF FinalizerSteps
    <3>3. /\ MovesOn(RoleSpecs, Steps, Policies) /\ worker'.pc = "status"
          /\ worker'.obj = worker.obj /\ Heading(worker') = "deleteCR"
          /\ worker'.status.condition # CrOK
      BY <1>1, <2>1, ReasonsGiven, ReportGoes
    <3> QED
      BY <1>2, <3>1, <3>2, <3>3, FinalizerJustified
  <2>2. CASE ~ok
    BY <1>1, <2>2, ReturnJustified
  <2> QED
    BY <2>1, <2>2
<1>5. IamTypes' /\ resource' = resource /\ RoleJustified /\ AttachedPolicies' = AttachedPolicies
  BY <1>1, <1>2, Halves DEF IamTypes, UnchangedCluster, AttachedPolicies
<1>6. ~(Alive(resource) /\ resource.spec.roleArn # "")
  BY <1>2, <1>5 DEF IInv, CopiesInv, CopiesTruthful, DoomedStays, SuccessorIsNew, Alive,
         ExecutesFinalizer, RoleJustified
<1>7. RoleJustified'
  BY <1>1, <1>2, <1>5, <1>6 DEF RoleJustified, ArnIsReal, Alive
<1> QED
  BY <1>2, <1>3, <1>4, <1>5, <1>7, AwsStepKeeps

-----------------------------------------------------------------------------
(* The common steps *)

(* What was established survives the report of it. *)
LEMMA ResumeJustified ==
  ASSUME StepsJustified, CommonStepsJustified', UNCHANGED iamVars,
         worker.pc = "status", worker'.pc = worker.next,
         worker.next \in Steps \cup {"deleteCR"}, Agrees(worker'.obj, worker.obj)
  PROVE  StepsJustified'
<1>1. worker'.pc # "status" /\ worker'.pc # "removeFinalizer"
  BY DEF Steps
<1>2. Heading(worker') = Heading(worker) /\ Heading(worker) # "removeFinalizer"
  BY <1>1 DEF Heading
<1>3. /\ UNCHANGED <<iamRole, foreign, attached, deeds>>
      /\ (AttachedPolicies' = AttachedPolicies) /\ (Untouched' = Untouched)
  BY DEF iamVars, roleVars, policyVars, AttachedPolicies, Untouched
<1>4. AboutToBeOk(worker') => AboutToBeOk(worker)
  BY <1>1, <1>2 DEF AboutToBeOk
<1>5. /\ Registered(worker.obj) => Registered(worker'.obj)
      /\ ExecutesFinalizer(worker.obj) => ExecutesFinalizer(worker'.obj)
      /\ worker'.obj.spec = worker.obj.spec
  BY DEF Agrees, Registered, ExecutesFinalizer
<1> QED
  BY <1>2, <1>3, <1>4, <1>5 DEF StepsJustified

(* The common steps of the worker leave AWS alone. *)
LEMMA LifecycleStepKeeps == IInv /\ LifecycleStep /\ UNCHANGED iamVars => IInv'
<1> SUFFICES ASSUME IInv, LifecycleStep, UNCHANGED iamVars PROVE IInv'
  OBVIOUS
<1>1. Half /\ RoleJustified /\ StepsJustified
  BY Halves
<1>2. /\ IamTypes' /\ (AttachedPolicies' = AttachedPolicies)
      /\ UNCHANGED <<iamRole, foreign, attached, deeds>>
  BY RoleStays
<1>3. Half' /\ LifecycleOutcome(Steps)
  BY <1>1, LifecycleKeeps DEF Half
<1>4. CommonStepsJustified'
  BY <1>3 DEF Half, ReconcilerInv
<1>5. StepsJustified'
  <2>1. CASE worker'.pc \in {"idle", "got"}
    <3>1. Heading(worker') \in {"idle", "got"} /\ worker'.pc # "status"
      BY <2>1 DEF Heading
    <3> QED
      BY <1>4, <3>1 DEF StepsJustified, AboutToBeOk, RoutineSteps, AttachSteps, FinalizerSteps
  <2>2. CASE /\ worker.pc = "status" /\ worker'.pc = worker.next
             /\ worker.next \in Steps \cup {"deleteCR"} /\ Agrees(worker'.obj, worker.obj)
    BY <1>1, <1>4, <2>2, ResumeJustified
  <2>3. CASE worker.pc = "deleteCR" /\ worker'.pc = "removeFinalizer" /\ worker'.obj = worker.obj
    <3>1. Heading(worker') = "removeFinalizer" /\ worker'.pc # "status" /\ Heading(worker) = "deleteCR"
      BY <2>3 DEF Heading
    <3>2. "attach" \in deeds \/ ~iamRole
      BY <1>1, <3>1 DEF StepsJustified
    <3> QED
      BY <1>2, <1>4, <3>1, <3>2
         DEF StepsJustified, AboutToBeOk, RoutineSteps, AttachSteps, FinalizerSteps
  <2> QED
    BY <1>3, <2>1, <2>2, <2>3 DEF LifecycleOutcome
<1>6. RoleJustified'
  <2>1. /\ resource'.exists =>
             /\ resource.exists /\ resource'.spec = resource.spec
             /\ resource.finalizer => resource'.finalizer
             /\ resource.deleting => resource'.deleting
        /\ Vanishes /\ resource.finalizer => worker.pc = "removeFinalizer"
    BY <1>3 DEF LifecycleOutcome
  <2>2. worker.pc = "removeFinalizer" => "attach" \in deeds \/ ~iamRole
    BY <1>1 DEF StepsJustified, Heading
  <2>3. iamRole' => "attach" \in deeds' \/ (resource'.exists /\ resource'.finalizer)
    BY <1>1, <1>2, <2>1, <2>2 DEF RoleJustified, Vanishes
  <2> QED
    BY <1>1, <1>2, <2>1, <2>3 DEF RoleJustified, ArnIsReal, Alive
<1> QED
  BY <1>2, <1>3, <1>5, <1>6, HalvesNext

-----------------------------------------------------------------------------
(* The informer, the users and the others *)

(* A worker that waits, or stops, keeps what it has established, as long as *)
(* the others note what they take away.                                     *)
LEMMA WaitingJustified ==
  ASSUME IInv, Half', worker' = worker \/ worker' = Idle, deeds \subseteq deeds',
         iamRole' => iamRole,
         iamRole => iamRole' \/ "delete" \in deeds',
         \/ attached \subseteq attached'
         \/ "policy" \in deeds' \/ "delete" \in deeds',
         AttachedPolicies' \subseteq AttachedPolicies \/ "attach" \in deeds'
  PROVE  StepsJustified'
<1>1. CASE worker' = worker
  <2>1. StepsJustified /\ CommonStepsJustified'
    BY DEF IInv, Half, ReconcilerInv
  <2>2. Heading(worker') = Heading(worker) /\ (AboutToBeOk(worker') <=> AboutToBeOk(worker))
    BY <1>1
  <2>3. Untouched' => /\ Untouched /\ (iamRole => iamRole') /\ attached \subseteq attached'
    BY DEF Untouched
  <2>4. AboutToBeOk(worker') => /\ worker'.obj.spec.policyArn # ""
                                /\ Untouched' => iamRole' /\ RoleName \in attached'
    BY <1>1, <2>1, <2>2, <2>3 DEF StepsJustified
  <2> QED
    BY <1>1, <2>1, <2>2, <2>4 DEF StepsJustified
<1> QED
  BY <1>1, IdleJustified

(* When AWS stays as it is, only the resource is to be justified. *)
LEMMA ClusterStepKeeps ==
  ASSUME IInv, Half', UNCHANGED iamVars, worker' = worker \/ worker' = Idle, RoleJustified'
  PROVE  IInv'
<1>1. /\ IamTypes' /\ (AttachedPolicies' = AttachedPolicies)
      /\ UNCHANGED <<iamRole, foreign, attached, deeds>>
  BY RoleStays
<1>2. StepsJustified'
  BY <1>1, WaitingJustified
<1> QED
  BY <1>1, <1>2, HalvesNext

(* The informer and the process leave the resource and AWS alone. *)
LEMMA InformerStepKeeps == IInv /\ InformerStep => IInv'
<1> SUFFICES ASSUME IInv, InformerStep PROVE IInv'
  OBVIOUS
<1>1. Half /\ UNCHANGED iamVars /\ faults \in 0..MaxFaults
  BY Halves, OwnSteps DEF InformerStep
<1>2. Half' /\ resource' = resource /\ (worker' = worker \/ worker' = Idle)
  <2>1. CASE CacheSync
    BY <1>1, <2>1, CacheSyncKeeps DEF Half, CacheSync
  <2>2. CASE Enqueue
    BY <1>1, <2>2, EnqueueKeeps DEF Half, Enqueue
  <2>3. CASE Crash \/ Recovery
    <3>1. faults' \in 0..MaxFaults /\ Restart
      BY <1>1, <2>3, FaultType DEF Crash, Recovery
    <3> QED
      BY <1>1, <3>1, RestartKeeps DEF Half, Restart
  <2> QED
    BY <2>1, <2>2, <2>3 DEF InformerStep
<1>3. RoleJustified'
  BY <1>1, <1>2, RoleStays
<1> QED
  BY <1>1, <1>2, <1>3, ClusterStepKeeps

(* The users create the resource without an ARN, and ask for its deletion. *)
LEMMA UserStepKeeps == IInv /\ UserStep => IInv'
<1> SUFFICES ASSUME IInv, UserStep PROVE IInv'
  OBVIOUS
<1>1. Half /\ RoleJustified /\ UNCHANGED iamVars
  BY Halves DEF UserStep
<1>2. /\ AttachedPolicies' = AttachedPolicies
      /\ UNCHANGED <<iamRole, foreign, attached, deeds>>
  BY <1>1, RoleStays
<1>3. ASSUME NEW n \in ServiceAccountNames, CreateResource(NewRoleSpec(n)) PROVE IInv'
  <2>1. NewRoleSpec(n) \in RoleSpecs /\ NewRoleSpec(n).roleArn = ""
    BY DEF NewRoleSpec, RoleSpec, RoleSpecs
  <2>2. Half' /\ worker' = worker /\ resource'.spec = NewRoleSpec(n)
    BY <1>1, <1>3, <2>1, CreateResourceKeeps DEF Half
  <2>3. ~resource.exists
    BY <1>3 DEF CreateResource
  <2>4. RoleJustified'
    BY <1>1, <1>2, <2>1, <2>2, <2>3 DEF RoleJustified, ArnIsReal
  <2> QED
    BY <1>1, <2>2, <2>4, ClusterStepKeeps
<1>4. CASE RequestDeletion
  <2>1. /\ Half' /\ worker' = worker
        /\ resource'.exists => resource'.deleting /\ resource'.spec = resource.spec
        /\ resource'.exists <=> resource.finalizer
        /\ resource.finalizer => resource'.finalizer
    BY <1>1, <1>4, RequestDeletionKeeps DEF Half
  <2>2. RoleJustified'
    BY <1>1, <1>2, <2>1 DEF RoleJustified, ArnIsReal, Alive
  <2> QED
    BY <1>1, <2>1, <2>2, ClusterStepKeeps
<1> QED
  BY <1>3, <1>4 DEF UserStep

(* What the others do on AWS leaves the cluster alone and is noted. *)
LEMMA ActOnAwsKeeps ==
  ASSUME IInv, NEW deed \in SUBSET {"policy", "attach", "delete"}, ActOnAws(deed),
         iamRole' \in BOOLEAN, foreign' \subseteq ForeignPolicies, attached' \subseteq {RoleName},
         iamPolicy' \in BOOLEAN, policyArn' \in {"", "arn"},
         iamRole' => iamRole,
         iamRole => iamRole' \/ "delete" \in deeds',
         attached \subseteq attached' \/ "policy" \in deeds' \/ "delete" \in deeds',
         AttachedPolicies' \subseteq AttachedPolicies \/ "attach" \in deeds',
         AttachedPolicies' # {} => iamRole',
         foreign' # {} => "attach" \in deeds'
  PROVE  IInv'
<1>1. Half /\ IamTypes /\ RoleJustified
  BY Halves
<1>2. Half' /\ UNCHANGED <<resource, worker>>
  BY <1>1, ActElsewhereKeeps DEF Half, ActOnAws
<1>3. deeds' = deeds \cup deed /\ deeds \subseteq deeds'
  BY DEF ActOnAws
<1>4. IamTypes'
  BY <1>1, <1>3 DEF IamTypes
<1>5. StepsJustified'
  BY <1>2, <1>3, WaitingJustified
<1>6. RoleJustified'
  BY <1>1, <1>2, <1>3 DEF RoleJustified, ArnIsReal, Alive
<1> QED
  BY <1>2, <1>4, <1>5, <1>6, HalvesNext

(* The cache learns of what became of the Policy, and nothing else moves. *)
LEMMA NewsKeeps == IInv /\ (PolicyShown \/ PolicyForgotten) => IInv'
<1> SUFFICES ASSUME IInv, PolicyShown \/ PolicyForgotten PROVE IInv'
  OBVIOUS
<1>1. /\ UNCHANGED <<resource, cache, holders, event, queued, worker, dropped, ops, faults>>
      /\ UNCHANGED roleVars /\ UNCHANGED <<iamPolicy, deeds>> /\ policyArn' \in {"", "arn"}
  BY DEF PolicyShown, PolicyForgotten, OnAws!Show, OnAws!Forget, reconcilerVars, roleVars
<1>2. /\ Half /\ IamTypes /\ RoleJustified /\ ReconcilerTypes(RoleSpecs, Steps, Policies)
      /\ faults \in 0..MaxFaults
  BY Halves, OwnSteps
<1>3. /\ ops' \in 0..MaxOps /\ ops <= ops' /\ event' \in BOOLEAN /\ queued' \in BOOLEAN
      /\ faults' \in 0..MaxFaults
  <2>1. /\ ops \in 0..MaxOps /\ ops \in Nat /\ event \in BOOLEAN /\ queued \in BOOLEAN
        /\ faults \in 0..MaxFaults
    BY <1>2, FieldTypes DEF ReconcilerTypes
  <2>2. ops' = ops /\ event' = event /\ queued' = queued /\ faults' = faults
    BY <1>1
  <2> QED
    BY <2>1, <2>2
<1>4. Half'
  BY <1>1, <1>2, <1>3, ElsewhereKeeps DEF Half
<1>5. /\ UNCHANGED <<iamRole, foreign, attached, iamPolicy, deeds, resource, worker>>
      /\ AttachedPolicies' = AttachedPolicies
  BY <1>1 DEF roleVars, AttachedPolicies
<1>6. IamTypes'
  BY <1>1, <1>2, <1>5 DEF IamTypes
<1>7. RoleJustified'
  BY <1>2, <1>5 DEF RoleJustified, ArnIsReal, Alive
<1>8. StepsJustified'
  BY <1>4, <1>5, WaitingJustified
<1> QED
  BY <1>4, <1>6, <1>7, <1>8, HalvesNext

(* The Policy's side and those who work by hand. *)
LEMMA OutsideStepKeeps == IInv /\ OutsideStep => IInv'
<1> SUFFICES ASSUME IInv, OutsideStep PROVE IInv'
  OBVIOUS
<1>1. IamTypes /\ RoleJustified
  BY Halves
<1>2. CASE PolicyShown \/ PolicyForgotten
  BY <1>2, NewsKeeps
<1>3. CASE PolicyMade \/ PolicyDeleted
  <2>1. /\ UNCHANGED <<iamRole, foreign, attached>>
        /\ iamPolicy' \in BOOLEAN /\ policyArn' = policyArn
    BY <1>3 DEF PolicyMade, PolicyDeleted, OnAws!Make, OnAws!Delete
  <2>2. PICK deed \in SUBSET {"policy", "attach", "delete"} : ActOnAws(deed)
    BY <1>3 DEF PolicyMade, PolicyDeleted
  <2>3. deeds' = deeds \cup deed /\ AttachedPolicies' = AttachedPolicies
    BY <2>1, <2>2 DEF ActOnAws, AttachedPolicies
  <2>4. /\ AttachedPolicies' # {} => iamRole'
        /\ foreign' # {} => "attach" \in deeds'
    BY <1>1, <2>1, <2>3 DEF RoleJustified
  <2> QED
    BY <1>1, <2>1, <2>2, <2>3, <2>4, ActOnAwsKeeps DEF IamTypes
<1>4. CASE PolicyDetached
  <2>1. /\ ActOnAws({"policy"}) /\ deeds' = deeds \cup {"policy"} /\ attached' \subseteq attached
        /\ UNCHANGED <<iamRole, foreign, iamPolicy, policyArn>>
    BY <1>4 DEF PolicyDetached, OnAws!Detach, ActOnAws
  <2>2. AttachedPolicies' \subseteq AttachedPolicies
    BY <2>1 DEF AttachedPolicies
  <2>3. /\ AttachedPolicies' # {} => iamRole'
        /\ foreign' # {} => "attach" \in deeds'
    BY <1>1, <2>1, <2>2 DEF RoleJustified
  <2>4. {"policy"} \in SUBSET {"policy", "attach", "delete"}
    OBVIOUS
  <2> QED
    BY <1>1, <2>1, <2>2, <2>3, <2>4, ActOnAwsKeeps DEF IamTypes
<1>5. CASE AttachForeign
  <2>1. PICK p \in ForeignPolicies : foreign' = foreign \cup {p}
    BY <1>5 DEF AttachForeign
  <2>2. /\ ActOnAws({"attach"}) /\ deeds' = deeds \cup {"attach"} /\ iamRole
        /\ UNCHANGED <<iamRole, attached, iamPolicy, policyArn>>
    BY <1>5 DEF AttachForeign, ActOnAws
  <2>3. {"attach"} \in SUBSET {"policy", "attach", "delete"}
    OBVIOUS
  <2>4. foreign' \subseteq ForeignPolicies
    BY <1>1, <2>1 DEF IamTypes
  <2>5. /\ iamRole' \in BOOLEAN /\ attached' \subseteq {RoleName}
        /\ iamPolicy' \in BOOLEAN /\ policyArn' \in {"", "arn"}
    BY <1>1, <2>2 DEF IamTypes
  <2>6. iamRole' /\ attached \subseteq attached' /\ "attach" \in deeds'
    BY <2>2
  <2> QED
    BY <2>2, <2>3, <2>4, <2>5, <2>6, ActOnAwsKeeps
<1>6. CASE DeleteIamRole
  <2>1. /\ ActOnAws({"delete"}) /\ deeds' = deeds \cup {"delete"}
        /\ iamRole' = FALSE /\ foreign' = {} /\ attached' = attached \ {RoleName}
        /\ UNCHANGED <<iamPolicy, policyArn>>
    BY <1>6 DEF DeleteIamRole, ActOnAws
  <2>2. AttachedPolicies' = {}
    BY <2>1 DEF AttachedPolicies
  <2>3. {"delete"} \in SUBSET {"policy", "attach", "delete"}
    OBVIOUS
  <2>4. foreign' \subseteq ForeignPolicies /\ attached' \subseteq {RoleName}
    BY <1>1, <2>1 DEF IamTypes
  <2> QED
    BY <1>1, <2>1, <2>2, <2>3, <2>4, ActOnAwsKeeps DEF IamTypes
<1> QED
  BY <1>2, <1>3, <1>4, <1>5, <1>6 DEF OutsideStep

-----------------------------------------------------------------------------
(* The inductive invariant *)

(* Nothing exists at the start. *)
LEMMA InitIInv == Init => IInv
<1> SUFFICES ASSUME Init PROVE IInv
  OBVIOUS
<1>1. /\ InitReconciler /\ iamRole = FALSE /\ foreign = {} /\ attached = {}
      /\ iamPolicy = FALSE /\ policyArn = "" /\ deeds = {}
  BY DEF Init
<1>2. Steps \cap CommonSteps = {}
  BY DEF Steps, CommonSteps
<1>3. Half
  BY <1>1, <1>2, InitKeeps DEF Half
<1>4. IamTypes
  BY <1>1 DEF IamTypes
<1>5. resource = NoResource /\ worker.pc = "idle"
  BY <1>1 DEF InitReconciler, Idle
<1>6. RoleJustified
  <2>1. AttachedPolicies = {}
    BY <1>1 DEF AttachedPolicies
  <2> QED
    BY <1>1, <1>5, <2>1, NoResourceFields DEF RoleJustified, ArnIsReal, Alive
<1>7. StepsJustified
  <2>1. Heading(worker) = "idle"
    BY <1>5 DEF Heading
  <2> QED
    BY <1>5, <2>1 DEF StepsJustified, CommonStepsJustified, AboutToBeOk,
       RoutineSteps, AttachSteps, FinalizerSteps
<1> QED
  BY <1>3, <1>4, <1>6, <1>7, Halves

(* A stuttering step changes nothing. *)
LEMMA StutterKeeps == IInv /\ UNCHANGED vars => IInv'
<1> SUFFICES ASSUME IInv, UNCHANGED vars PROVE IInv'
  OBVIOUS
<1>1. /\ UNCHANGED <<resource, cache, holders, event, queued, worker, dropped, ops, faults>>
      /\ UNCHANGED iamVars
  BY DEF vars, reconcilerVars
<1>2. Half /\ ReconcilerTypes(RoleSpecs, Steps, Policies)
  BY Halves, OwnSteps
<1>3. /\ ops' \in 0..MaxOps /\ ops <= ops' /\ event' \in BOOLEAN /\ queued' \in BOOLEAN
      /\ faults' \in 0..MaxFaults
  <2>1. ops \in Nat
    BY <1>2, FieldTypes
  <2> QED
    BY <1>1, <1>2, <2>1 DEF ReconcilerTypes
<1>4. Half'
  BY <1>1, <1>2, <1>3, ElsewhereKeeps DEF Half
<1> QED
  BY <1>1, <1>4, RoleStays, ClusterStepKeeps

(* Every action keeps the inductive invariant. *)
LEMMA NextKeeps == IInv /\ Next => IInv'
<1> SUFFICES ASSUME IInv, Next PROVE IInv'
  OBVIOUS
<1>1. CASE LifecycleStep /\ UNCHANGED iamVars
  BY <1>1, LifecycleStepKeeps
<1>2. CASE RoutineStep
  BY <1>2, AdmissionStepKeeps, RoleExistsKeeps, GetRoleARNKeeps, SetRoleArnFieldKeeps,
     RoleFoundKeeps, CreateRoleKeeps, GetPolicyKeeps, SetPolicyArnFieldKeeps,
     RoleStillExistsKeeps, GetAttachedRolePoliciesARNsKeeps, AttachRolePolicyKeeps,
     RoutineEndsKeeps DEF RoutineStep
<1>3. CASE FinalizerStep
  BY <1>3, ListAttachedKeeps, DetachRolePolicyKeeps, DeleteRoleKeeps DEF FinalizerStep
<1> QED
  BY <1>1, <1>2, <1>3, InformerStepKeeps, UserStepKeeps, OutsideStepKeeps
     DEF Next, ReconcilerStep

(***************************************************************************)
(* IInv holds in every reachable state: each remote call of the Role       *)
(* reconciler is made only once what justifies it has been established,    *)
(* by the worker's late copy or by an answer of AWS, whatever the others   *)
(* have done since.                                                        *)
(***************************************************************************)
THEOREM Invariance == Spec => []IInv
<1>1. IInv /\ [Next]_vars => IInv'
  BY NextKeeps, StutterKeeps
<1> QED
  BY <1>1, InitIInv, PTL DEF Spec

(* Every variable of the Role reconciler keeps its type. *)
THEOREM TypeCorrect == Spec => []TypeOK
<1>1. IInv => TypeOK
  BY DEF IInv
<1> QED
  BY <1>1, Invariance, PTL

(***************************************************************************)
(* A Role that nobody has asked to delete keeps the IAM role its ARN       *)
(* names, unless somebody deleted it by hand: the finalizer of a           *)
(* predecessor never destroys it.                                          *)
(***************************************************************************)
THEOREM ArnStaysReal == Spec => []ArnIsReal
<1>1. IInv => ArnIsReal
  BY DEF IInv, RoleJustified
<1> QED
  BY <1>1, Invariance, PTL

-----------------------------------------------------------------------------
(* The action properties *)

(* Only CreateRole makes the IAM role exist. *)
LEMMA WhoCreatesRole ==
  ASSUME [Next]_vars, ~iamRole, iamRole'
  PROVE  CreateRole
<1>1. ~UNCHANGED iamVars /\ ~UNCHANGED roleVars /\ iamRole' # iamRole
  BY DEF iamVars, roleVars
<1>2. CASE UNCHANGED vars
  BY <1>1, <1>2 DEF vars
<1>3. CASE RoutineStep
  BY <1>1, <1>3 DEF RoutineStep, AdmissionStep, RoleExists, GetRoleARN, SetRoleArnField, RoleFound,
     GetPolicy, SetPolicyArnField, RoleStillExists, GetAttachedRolePoliciesARNs,
     AttachRolePolicy, RoutineEnds
<1>4. CASE FinalizerStep
  BY <1>1, <1>4 DEF FinalizerStep, ListAttached, DetachRolePolicy, DeleteRole
<1>5. CASE OutsideStep
  BY <1>1, <1>5 DEF OutsideStep, PolicyMade, PolicyShown, PolicyForgotten, PolicyDetached,
     PolicyDeleted, OnAws!Make, OnAws!Show, OnAws!Forget, OnAws!Detach, OnAws!Delete,
     AttachForeign, DeleteIamRole, reconcilerVars
<1> QED
  BY <1>1, <1>2, <1>3, <1>4, <1>5 DEF Next, ReconcilerStep, InformerStep, UserStep

(* Only a worker whose copy is registered makes the IAM role. *)
LEMMA CreatingIsGuarded ==
  ASSUME IInv, [Next]_vars, ~iamRole, iamRole'
  PROVE  resource.exists /\ resource.finalizer
<1>1. CreateRole
  BY WhoCreatesRole
<1>2. Heading(worker) \in RoutineSteps
  BY <1>1 DEF CreateRole, Heading, RoutineSteps
<1>3. Busy /\ Registered(worker.obj)
  BY <1>2, InRoutineSteps
<1> QED
  BY <1>3 DEF Registered, IInv, CopiesInv, CopiesTruthful, FinalizerStays

(***************************************************************************)
(* The Role reconciler creates an IAM role only while the resource is      *)
(* stored with the finalizer that will clean it up.                        *)
(***************************************************************************)
THEOREM CreationIsGuarded == Spec => FinalizerGuardsIam
<1>1. IInv /\ [Next]_vars =>
        [~iamRole /\ iamRole' => resource.exists /\ resource.finalizer]_vars
  BY CreatingIsGuarded
<1> QED
  BY <1>1, Invariance, PTL DEF Spec, FinalizerGuardsIam

(* Recording an ARN neither removes the resource nor writes a status. *)
LEMMA RecordingStays ==
  ASSUME IInv, SetRoleArnField \/ SetPolicyArnField
  PROVE  /\ resource.exists => resource'.exists
         /\ resource'.status = resource.status
<1>1. Half /\ Registered(worker.obj)
  <2>1. Heading(worker) \in RoutineSteps
    BY DEF SetRoleArnField, SetPolicyArnField, Heading, RoutineSteps
  <2> QED
    BY <2>1, Halves, InRoutineSteps
<1>2. ASSUME NEW new, NEW applied \in BOOLEAN, NEW ok \in BOOLEAN, Update(new, applied, ok),
             resource.exists =>
               new.exists /\ new.status = resource.status /\ new.deleting = resource.deleting
      PROVE  /\ resource.exists => resource'.exists
             /\ resource'.status = resource.status
  <2>1. /\ applied => resource.exists /\ Agrees(resource, worker.obj) /\ resource' = Stored(new)
        /\ ~applied => resource' = resource
    BY <1>1, <1>2, UpdateFacts DEF Half
  <2> QED
    BY <1>1, <1>2, <2>1 DEF Stored, Agrees, Registered
<1>3. CASE SetRoleArnField
  <2> DEFINE new == [resource EXCEPT !.spec.roleArn = "arn"]
  <2>1. PICK applied \in BOOLEAN, ok \in BOOLEAN :
          /\ Update(new, applied, ok)
          /\ worker' = [worker EXCEPT !.pc = IF ok THEN "found" ELSE "status", !.next = "found",
                                      !.obj = IF ok THEN resource' ELSE @,
                                      !.status = IF ok THEN @ ELSE Error("set failed")]
          /\ HoldUpdated(ok)
    BY <1>3 DEF SetRoleArnField
  <2>2. resource.exists =>
          new.exists /\ new.status = resource.status /\ new.deleting = resource.deleting
    BY ArnEdits
  <2> HIDE DEF new
  <2>3. Update(new, applied, ok)
    BY <2>1, Zenon
  <2> QED
    BY <1>2, <2>2, <2>3
<1>4. CASE SetPolicyArnField
  <2> DEFINE new == [resource EXCEPT !.spec.policyArn = "arn"]
  <2>1. PICK applied \in BOOLEAN, ok \in BOOLEAN : Update(new, applied, ok)
    BY <1>4 DEF SetPolicyArnField
  <2>2. resource.exists =>
          new.exists /\ new.status = resource.status /\ new.deleting = resource.deleting
    BY ArnEdits
  <2> HIDE DEF new
  <2> QED
    BY <1>2, <2>1, <2>2
<1> QED
  BY <1>3, <1>4

(* Apart from the worker's common steps, nothing removes a resource that   *)
(* has its finalizer, and nothing writes a status.                         *)
LEMMA WhoChangesResource ==
  ASSUME IInv, [Next]_vars
  PROVE  \/ LifecycleOutcome(Steps)
         \/ /\ resource.exists /\ resource.finalizer => resource'.exists
            /\ resource'.exists => resource'.status \in {resource.status, NoStatus}
<1>1. Half
  BY Halves
<1>2. CASE LifecycleStep
  BY <1>1, <1>2, LifecycleKeeps DEF Half
<1>3. CASE resource' = resource
  BY <1>3
<1>4. CASE SetRoleArnField \/ SetPolicyArnField
  BY <1>4, RecordingStays
<1>5. CASE RequestDeletion
  BY <1>1, <1>5, RequestDeletionKeeps DEF Half
<1>6. ASSUME NEW n \in ServiceAccountNames, CreateResource(NewRoleSpec(n))
      PROVE  ~resource.exists /\ resource'.status = NoStatus
  BY <1>6, NoResourceFields DEF CreateResource, NewResource, NoResource
<1>7. CASE UserStep
  BY <1>5, <1>6, <1>7 DEF UserStep
<1>8. CASE RoutineStep
  BY <1>3, <1>4, <1>8 DEF RoutineStep, AdmissionStep, Admission, RoleExists, GetRoleARN, RoleFound,
     CreateRole, GetPolicy, RoleStillExists, GetAttachedRolePoliciesARNs, AttachRolePolicy,
     RoutineEnds, UnchangedCluster
<1>9. CASE FinalizerStep
  BY <1>3, <1>9 DEF FinalizerStep, ListAttached, DetachRolePolicy, DeleteRole, UnchangedCluster
<1>10. CASE InformerStep
  BY <1>3, <1>10 DEF InformerStep, CacheSync, Enqueue, Crash, Recovery, Restart
<1>11. CASE OutsideStep
  BY <1>3, <1>11 DEF OutsideStep, PolicyMade, PolicyShown, PolicyForgotten, PolicyDetached,
     PolicyDeleted, OnAws!Make, OnAws!Show, OnAws!Forget, OnAws!Detach, OnAws!Delete,
     AttachForeign, DeleteIamRole, reconcilerVars, ActOnAws, ActElsewhere
<1>12. CASE UNCHANGED vars
  BY <1>3, <1>12 DEF vars, reconcilerVars
<1> QED
  BY <1>2, <1>7, <1>8, <1>9, <1>10, <1>11, <1>12 DEF Next, ReconcilerStep

(***************************************************************************)
(* A resource vanishes only once its IAM role is gone, whatever failed in  *)
(* the finalizer on the way, unless somebody attached a policy by hand.    *)
(***************************************************************************)
THEOREM NothingIsLeft == Spec => NothingLeaksUnlessMeddled
<1>1. ASSUME IInv, [Next]_vars, Vanishes, "attach" \notin deeds
      PROVE  ~iamRole
  <2>1. RoleJustified /\ StepsJustified
    BY <1>1 DEF IInv
  <2>2. CASE ~resource.finalizer
    BY <1>1, <2>1, <2>2 DEF RoleJustified
  <2>3. CASE resource.finalizer
    <3>1. LifecycleOutcome(Steps)
      BY <1>1, <2>3, WhoChangesResource DEF Vanishes
    <3>2. worker.pc = "removeFinalizer"
      BY <1>1, <2>3, <3>1 DEF LifecycleOutcome
    <3> QED
      BY <1>1, <2>1, <3>2 DEF StepsJustified, Heading
  <2> QED
    BY <2>2, <2>3
<1>2. IInv /\ [Next]_vars => [Vanishes /\ "attach" \notin deeds => ~iamRole]_vars
  BY <1>1
<1> QED
  BY <1>2, Invariance, PTL DEF Spec, NothingLeaksUnlessMeddled

(***************************************************************************)
(* When "created" is written on a resource, its policy is attached to its  *)
(* IAM role on AWS, although that was found out some steps before, unless  *)
(* the Policy's own finalizer, or somebody by hand, has taken it away.     *)
(***************************************************************************)
THEOREM CreatedIsTrue == Spec => OkIsTrue
<1>1. ASSUME IInv, [Next]_vars,
             resource.status.condition # CrOK, resource'.status.condition = CrOK
      PROVE  /\ resource'.spec.policyArn # ""
             /\ Untouched => iamRole /\ RoleName \in attached
  <2>1. resource'.exists
    <3>1. resource' \in Resources(RoleSpecs)
      <4>1. IInv'
        BY <1>1, NextKeeps, StutterKeeps
      <4> QED
        BY <4>1 DEF IInv, TypeOK, ReconcilerTypes
    <3>2. NoResource.status.condition # CrOK
      BY NoResourceFields DEF CrSubmitted, CrOK
    <3> QED
      BY <1>1, <3>1, <3>2, ResourceFields
  <2>2. resource'.status \notin {resource.status, NoStatus}
    BY <1>1, NoResourceFields DEF CrSubmitted, CrOK
  <2>3. LifecycleOutcome(Steps)
    BY <1>1, <2>1, <2>2, WhoChangesResource
  <2>4. /\ worker.pc = "status" /\ resource'.status = worker.status
        /\ resource'.spec = worker.obj.spec
    BY <1>1, <2>1, <2>3 DEF LifecycleOutcome
  <2> QED
    BY <1>1, <2>4 DEF IInv, StepsJustified, AboutToBeOk
<1>2. IInv /\ [Next]_vars =>
        [resource.status.condition # CrOK /\ resource'.status.condition = CrOK =>
            /\ resource'.spec.policyArn # ""
            /\ Untouched => iamRole /\ RoleName \in attached]_vars
  BY <1>1
<1> QED
  BY <1>2, Invariance, PTL DEF Spec, OkIsTrue

-----------------------------------------------------------------------------
(* The refinement *)

\* What else changes the stored resource: the ARN of its role or of its policy
\* is recorded, its owner makes it.
Recording ==
    /\ Alive(resource) /\ resource.finalizer /\ (iamRole \/ "delete" \in deeds)
    /\ resource' = [resource EXCEPT !.spec.roleArn = "arn"]
Rewriting ==
    /\ resource.exists
    /\ resource' = [resource EXCEPT !.spec.policyArn = "arn"]
Creating ==
    /\ ~resource.exists
    /\ \E n \in ServiceAccountNames : resource' = NewResource(ops + 1, NewRoleSpec(n))

(* An update of the worker's goes to a resource its copy agrees with. *)
LEMMA UpdateGoesToCopy ==
  ASSUME IInv, Registered(worker.obj),
         NEW new, NEW applied \in BOOLEAN, NEW ok \in BOOLEAN, Update(new, applied, ok),
         resource.exists => new.deleting = resource.deleting
  PROVE  \/ resource' = resource
         \/ Alive(resource) /\ resource.finalizer /\ resource' = new
<1>1. Half
  BY Halves
<1>2. /\ applied => resource.exists /\ Agrees(resource, worker.obj) /\ resource' = Stored(new)
      /\ ~applied => resource' = resource
  BY <1>1, UpdateFacts DEF Half
<1> QED
  BY <1>2 DEF Agrees, Registered, Alive, Stored

(* The ARNs are recorded for the stored resource. *)
LEMMA SettingRecords ==
  ASSUME IInv, SetRoleArnField \/ SetPolicyArnField
  PROVE  resource' = resource \/ Recording \/ Rewriting
<1>1. Registered(worker.obj)
  <2>1. Heading(worker) \in RoutineSteps
    BY DEF SetRoleArnField, SetPolicyArnField, Heading, RoutineSteps
  <2> QED
    BY <2>1, InRoutineSteps
<1>2. CASE SetRoleArnField
  <2> DEFINE new == [resource EXCEPT !.spec.roleArn = "arn"]
  <2>1. PICK applied \in BOOLEAN, ok \in BOOLEAN :
          /\ Update(new, applied, ok)
          /\ worker' = [worker EXCEPT !.pc = IF ok THEN "found" ELSE "status", !.next = "found",
                                      !.obj = IF ok THEN resource' ELSE @,
                                      !.status = IF ok THEN @ ELSE Error("set failed")]
          /\ HoldUpdated(ok)
    BY <1>2 DEF SetRoleArnField
  <2>2. resource.exists => new.deleting = resource.deleting
    BY ArnEdits
  <2>3. iamRole \/ "delete" \in deeds
    BY <1>2 DEF SetRoleArnField, IInv, StepsJustified, Heading
  <2>4. new = [resource EXCEPT !.spec.roleArn = "arn"]
    OBVIOUS
  <2> HIDE DEF new
  <2>5. Update(new, applied, ok)
    BY <2>1, Zenon
  <2> QED
    BY <1>1, <2>2, <2>3, <2>4, <2>5, UpdateGoesToCopy DEF Recording
<1>3. CASE SetPolicyArnField
  <2> DEFINE new == [resource EXCEPT !.spec.policyArn = "arn"]
  <2>1. PICK applied \in BOOLEAN, ok \in BOOLEAN : Update(new, applied, ok)
    BY <1>3 DEF SetPolicyArnField
  <2>2. resource.exists => new.deleting = resource.deleting
    BY ArnEdits
  <2>3. new = [resource EXCEPT !.spec.policyArn = "arn"]
    OBVIOUS
  <2> HIDE DEF new
  <2> QED
    BY <1>1, <2>1, <2>2, <2>3, UpdateGoesToCopy DEF Rewriting, Alive
<1> QED
  BY <1>2, <1>3

(* No step changes both the stored resource and the IAM role. *)
LEMMA ResourceChanges ==
  ASSUME IInv, [Next]_vars
  PROVE  \/ resource' = resource
         \/ /\ Holding \/ Reporting \/ Dooming \/ Releasing
               \/ Recording \/ Rewriting \/ Creating
            /\ iamRole' = iamRole /\ deeds' = deeds
<1>1. Half
  BY Halves
<1>2. CASE LifecycleStep /\ UNCHANGED iamVars
  BY <1>1, <1>2, LifecycleChanges DEF Half, iamVars, roleVars, policyVars
<1>3. CASE SetRoleArnField \/ SetPolicyArnField
  <2>1. iamRole' = iamRole /\ deeds' = deeds
    BY <1>3 DEF SetRoleArnField, SetPolicyArnField, iamVars, roleVars, policyVars
  <2> QED
    BY <1>3, <2>1, SettingRecords
<1>4. CASE UserStep
  <2>1. iamRole' = iamRole /\ deeds' = deeds
    BY <1>4 DEF UserStep, iamVars, roleVars, policyVars
  <2> QED
    BY <1>4, <2>1 DEF UserStep, CreateResource, RequestDeletion, Creating, Dooming
<1>5. CASE RoutineStep
  BY <1>3, <1>5 DEF RoutineStep, AdmissionStep, Admission, RoleExists, GetRoleARN, RoleFound,
     CreateRole, GetPolicy, RoleStillExists, GetAttachedRolePoliciesARNs, AttachRolePolicy,
     RoutineEnds, UnchangedCluster
<1>6. CASE FinalizerStep
  BY <1>6 DEF FinalizerStep, ListAttached, DetachRolePolicy, DeleteRole, UnchangedCluster
<1>7. CASE InformerStep
  BY <1>7 DEF InformerStep, CacheSync, Enqueue, Crash, Recovery, Restart
<1>8. CASE OutsideStep
  BY <1>8 DEF OutsideStep, PolicyMade, PolicyShown, PolicyForgotten, PolicyDetached,
     PolicyDeleted, OnAws!Make, OnAws!Show, OnAws!Forget, OnAws!Detach, OnAws!Delete,
     AttachForeign, DeleteIamRole, reconcilerVars, ActOnAws, ActElsewhere
<1>9. CASE UNCHANGED vars
  BY <1>9 DEF vars, reconcilerVars
<1> QED
  BY <1>2, <1>4, <1>5, <1>6, <1>7, <1>8, <1>9 DEF Next, ReconcilerStep

(* What was done by hand stays done. *)
LEMMA DeedsStay ==
  ASSUME [Next]_vars
  PROVE  deeds \subseteq deeds'
<1>1. CASE deeds' = deeds
  BY <1>1
<1>2. CASE OutsideStep
  BY <1>2 DEF OutsideStep, PolicyMade, PolicyShown, PolicyForgotten, PolicyDetached,
     PolicyDeleted, OnAws!Make, OnAws!Show, OnAws!Forget, OnAws!Detach, OnAws!Delete,
     AttachForeign, DeleteIamRole, reconcilerVars, ActOnAws
<1>3. CASE UNCHANGED policyVars \/ UNCHANGED iamVars \/ UNCHANGED vars
  BY <1>1, <1>3 DEF policyVars, iamVars, vars
<1>4. CASE RoutineStep
  BY <1>3, <1>4 DEF RoutineStep, AdmissionStep, RoleExists, GetRoleARN, SetRoleArnField, RoleFound,
     CreateRole, GetPolicy, SetPolicyArnField, RoleStillExists, GetAttachedRolePoliciesARNs,
     AttachRolePolicy, RoutineEnds
<1>5. CASE FinalizerStep
  BY <1>3, <1>5 DEF FinalizerStep, ListAttached, DetachRolePolicy, DeleteRole
<1> QED
  BY <1>2, <1>3, <1>4, <1>5 DEF Next, ReconcilerStep, InformerStep, UserStep

(* What the others see of these changes.                                   *)
LEMMA SeenChanges ==
  ASSUME NEW r \in Resources(RoleSpecs), r.exists, NEW s
  PROVE  /\ s = [r EXCEPT !.finalizer = TRUE] => Seen(s) = Seen(r) \cup {"held"}
         /\ s = [r EXCEPT !.deleting = TRUE] => Seen(s) = Seen(r) \cup {"deleting"}
         /\ s = [r EXCEPT !.spec.roleArn = "arn"] => Seen(s) = Seen(r) \cup {"recorded"}
         /\ \A x \in Statuses : s = [r EXCEPT !.status = x] =>
              /\ x.condition = CrOK => Seen(s) = Seen(r) \cup {"ok"}
              /\ x.condition # CrOK => Seen(s) = Seen(r) \ {"ok"}
         /\ s = [r EXCEPT !.spec.policyArn = "arn"] => Seen(s) = Seen(r)
<1>1. r.spec \in RoleSpecs /\ r \in StoredResources(RoleSpecs)
  BY StoredExists, ResourceFields
<1>2. ASSUME s = [r EXCEPT !.finalizer = TRUE] PROVE Seen(s) = Seen(r) \cup {"held"}
  <2>1. /\ s.exists /\ s.deleting = r.deleting /\ s.finalizer
        /\ s.spec = r.spec /\ s.status = r.status
    BY <1>2, FinalizerEdit
  <2> QED
    BY <2>1 DEF Seen, Marks
<1>3. ASSUME s = [r EXCEPT !.deleting = TRUE] PROVE Seen(s) = Seen(r) \cup {"deleting"}
  <2>1. /\ s.exists /\ s.deleting /\ s.finalizer = r.finalizer
        /\ s.spec = r.spec /\ s.status = r.status
    BY <1>3, DeletingEdit
  <2> QED
    BY <2>1 DEF Seen, Marks
<1>4. ASSUME s = [r EXCEPT !.spec.roleArn = "arn"] PROVE Seen(s) = Seen(r) \cup {"recorded"}
  BY <1>1, <1>4 DEF Seen, Marks, StoredResources, RoleSpecs
<1>5. ASSUME NEW x \in Statuses, s = [r EXCEPT !.status = x]
      PROVE  /\ x.condition = CrOK => Seen(s) = Seen(r) \cup {"ok"}
             /\ x.condition # CrOK => Seen(s) = Seen(r) \ {"ok"}
  <2>1. /\ s.exists /\ s.deleting = r.deleting /\ s.finalizer = r.finalizer
        /\ s.spec = r.spec /\ s.status = x
    BY <1>5, StatusEdit
  <2> QED
    BY <2>1 DEF Seen, Marks
<1>6. ASSUME s = [r EXCEPT !.spec.policyArn = "arn"] PROVE Seen(s) = Seen(r)
  BY <1>1, <1>6 DEF Seen, Marks, StoredResources, RoleSpecs
<1> QED
  BY <1>2, <1>3, <1>4, <1>5, <1>6

(* They see nothing of an absent resource, and of a new one its existence. *)
LEMMA SeenEnds ==
    /\ Seen(NoResource) = {}
    /\ \A uid, n : Seen(NewResource(uid, NewRoleSpec(n))) = {"exists"}
<1>1. CrSubmitted # CrOK
  BY DEF CrSubmitted, CrOK
<1>2. Seen(NoResource) = {}
  BY <1>1, NoResourceFields DEF Seen, Marks
<1>3. ASSUME NEW uid, NEW n PROVE Seen(NewResource(uid, NewRoleSpec(n))) = {"exists"}
  <2> DEFINE r == NewResource(uid, NewRoleSpec(n))
  <2>1. r.exists /\ ~r.deleting /\ ~r.finalizer /\ r.spec.roleArn = "" /\ r.status = NoStatus
    BY NoResourceFields DEF NewResource, NoResource, NewRoleSpec, RoleSpec
  <2> HIDE DEF r
  <2>2. Seen(r) = {"exists"}
    BY <1>1, <2>1, NoResourceFields DEF Seen, Marks
  <2> QED
    BY <2>2 DEF r
<1> QED
  BY <1>2, <1>3

(* The marks that the refinement asks about.                               *)
LEMMA SeenMarks ==
    /\ "exists" \in Seen(resource) <=> resource.exists
    /\ "held" \in Seen(resource) <=> resource.finalizer
    /\ "deleting" \in Seen(resource) <=> resource.deleting
    /\ "recorded" \in Seen(resource) <=> resource.exists /\ resource.spec.roleArn # ""
  BY DEF Seen, Marks

(* A step that leaves the resource is somebody's work by hand, makes the   *)
(* IAM role while the finalizer holds the resource, or takes it away while *)
(* no live resource has recorded it. *)
LEMMA IamStepIsManaged ==
  ASSUME IInv, IInv', [Next]_vars, resource' = resource
  PROVE  [Managed!Next]_(Managed!vars)
<1> DEFINE meddled == deeds \cap {"attach", "delete"} # {}
<1>1. iamRole \in BOOLEAN /\ iamRole' \in BOOLEAN /\ Seen(resource)' = Seen(resource)
  BY DEF IInv, TypeOK, Seen
<1>2. meddled => meddled'
  BY DeedsStay
<1>3. CASE meddled'
  BY <1>1, <1>3 DEF Managed!Next, Managed!OthersStep, Managed!Meddle
<1>4. CASE ~meddled' /\ iamRole' = iamRole
  BY <1>1, <1>2, <1>4 DEF Managed!vars
<1>5. CASE ~meddled' /\ ~iamRole /\ iamRole'
  <2>1. resource.exists /\ resource.finalizer
    BY <1>5, CreatingIsGuarded
  <2> QED
    BY <1>1, <1>2, <1>5, <2>1, SeenMarks
       DEF Managed!Next, Managed!ReconcilerStep, Managed!Is, Managed!Make
<1>6. CASE ~meddled' /\ iamRole /\ ~iamRole'
  <2>1. "delete" \notin deeds'
    BY <1>6
  <2>2. resource.exists /\ resource.spec.roleArn # "" => resource.deleting
    BY <1>6, <2>1 DEF IInv, RoleJustified, ArnIsReal, Alive
  <2> QED
    BY <1>1, <1>2, <1>6, <2>2, SeenMarks
       DEF Managed!Next, Managed!ReconcilerStep, Managed!Is, Managed!Undo
<1> QED
  BY <1>1, <1>3, <1>4, <1>5, <1>6

(* A change of the stored resource is one of those the others count on.    *)
LEMMA ResourceStepIsManaged ==
  ASSUME IInv, iamRole' = iamRole, deeds' = deeds,
         Holding \/ Reporting \/ Dooming \/ Releasing \/ Recording \/ Rewriting \/ Creating
  PROVE  [Managed!Next]_(Managed!vars)
<1>1. /\ resource \in Resources(RoleSpecs) /\ worker.status \in Statuses
      /\ StepsJustified
  BY Halves, FieldTypes DEF Half, ReconcilerInv
<1>2. CASE Holding
  <2>1. Seen(resource)' = Seen(resource) \cup {"held"} /\ resource.exists /\ ~resource.deleting
    BY <1>1, <1>2, SeenChanges DEF Holding, Alive
  <2> QED
    BY <1>1, <2>1, SeenMarks DEF Managed!Next, Managed!ReconcilerStep, Managed!Is, Managed!Hold
<1>3. CASE Reporting
  <2>1. /\ resource.exists /\ Agrees(resource, worker.obj) /\ worker.pc = "status"
        /\ worker.status.condition = CrOK => Seen(resource)' = Seen(resource) \cup {"ok"}
        /\ worker.status.condition # CrOK => Seen(resource)' = Seen(resource) \ {"ok"}
    BY <1>1, <1>3, SeenChanges DEF Reporting
  <2>2. CASE worker.status.condition = CrOK
    <3>1. Registered(worker.obj)
      BY <1>1, <2>1, <2>2 DEF StepsJustified, AboutToBeOk
    <3>2. resource.exists /\ resource.finalizer /\ ~resource.deleting
      BY <2>1, <3>1 DEF Agrees, Registered
    <3> QED
      BY <1>1, <2>1, <2>2, <3>2, SeenMarks
         DEF Managed!Next, Managed!ReconcilerStep, Managed!Is, Managed!Report, Managed!Kept
  <2>3. CASE worker.status.condition # CrOK
    BY <1>1, <2>1, <2>3 DEF Managed!Next, Managed!ReconcilerStep, Managed!Is, Managed!Falter
  <2> QED
    BY <2>2, <2>3
<1>4. CASE Dooming
  <2>1. resource.exists /\ resource' = Deleted(resource)
    BY <1>4 DEF Dooming
  <2>2. Seen(resource)' = IF resource.finalizer THEN Seen(resource) \cup {"deleting"} ELSE {}
    BY <1>1, <2>1, SeenChanges, SeenEnds DEF Deleted
  <2> QED
    BY <1>1, <2>1, <2>2, SeenMarks
       DEF Managed!Next, Managed!OthersStep, Managed!Is, Managed!Doom, Managed!Absent
<1>5. CASE Releasing
  <2>1. /\ Seen(resource)' = {} /\ resource.deleting
        /\ worker.pc = "removeFinalizer" /\ Agrees(resource, worker.obj)
    BY <1>5, SeenEnds DEF Releasing
  <2>2. iamRole => deeds \cap {"attach", "delete"} # {}
    BY <1>1, <2>1 DEF StepsJustified, Heading
  <2> QED
    BY <1>1, <2>1, <2>2, SeenMarks
       DEF Managed!Next, Managed!ReconcilerStep, Managed!Is, Managed!Release, Managed!Absent
<1>6. CASE Recording
  <2>1. /\ Seen(resource)' = Seen(resource) \cup {"recorded"}
        /\ iamRole \/ deeds \cap {"attach", "delete"} # {}
        /\ resource.exists /\ resource.finalizer /\ ~resource.deleting
    BY <1>1, <1>6, SeenChanges DEF Recording, Alive
  <2> QED
    BY <1>1, <2>1, SeenMarks
       DEF Managed!Next, Managed!ReconcilerStep, Managed!Is, Managed!Record, Managed!Kept
<1>7. CASE Rewriting
  <2>1. Seen(resource)' = Seen(resource)
    BY <1>1, <1>7, SeenChanges DEF Rewriting
  <2> QED
    BY <1>1, <2>1 DEF Managed!vars
<1>8. CASE Creating
  <2>1. Seen(resource)' = {"exists"} /\ ~resource.exists
    BY <1>8, SeenEnds DEF Creating
  <2> QED
    BY <1>1, <2>1, SeenMarks DEF Managed!Next, Managed!OthersStep, Managed!Is, Managed!Appear
<1> QED
  BY <1>2, <1>3, <1>4, <1>5, <1>6, <1>7, <1>8

(***************************************************************************)
(* The Role reconciler implements ManagedResource: with its cache, its     *)
(* queue, its lost calls, its crashes and its panic, it takes no step on   *)
(* the Role and on the IAM role that the other controllers do not count    *)
(* on.                                                                     *)
(***************************************************************************)
THEOREM Refinement == Spec => IsManaged
<1>1. Init => Managed!Init
  <2> SUFFICES ASSUME Init PROVE Managed!Init
    OBVIOUS
  <2>1. resource = NoResource /\ iamRole = FALSE /\ deeds = {}
    BY DEF Init, InitReconciler
  <2>2. Seen(resource) = {}
    BY <2>1, SeenEnds
  <2> QED
    BY <2>1, <2>2 DEF Managed!Init, Managed!Absent
<1>2. IInv /\ IInv' /\ [Next]_vars => [Managed!Next]_(Managed!vars)
  BY ResourceChanges, IamStepIsManaged, ResourceStepIsManaged
<1> QED
  BY <1>1, <1>2, Invariance, PTL DEF Spec, IsManaged, Managed!Spec

-----------------------------------------------------------------------------
(* The AWS policy that the Role shares *)

(* What the worker does to the AWS policy: it attaches it or detaches it. *)
LEMMA RoleStepIsShared ==
  ASSUME ReconcilerStep
  PROVE  UNCHANGED OnAws!vars \/ OnAws!Attach(RoleName) \/ OnAws!Detach(RoleName)
<1>1. CASE UNCHANGED iamVars
  BY <1>1 DEF iamVars, roleVars, policyVars, OnAws!vars
<1>2. CASE AttachRolePolicy
  <2>1. /\ attached' = attached \/ (iamPolicy /\ attached' = attached \cup {RoleName})
        /\ UNCHANGED policyVars
    <3>1. PICK applied \in BOOLEAN, ok \in BOOLEAN :
            /\ Call("iam", iamRole /\ iamPolicy, applied, ok)
            /\ attached' = IF applied THEN attached \cup {RoleName} ELSE attached
      BY <1>2 DEF AttachRolePolicy
    <3>2. applied => iamPolicy
      BY <3>1 DEF Call
    <3> QED
      BY <1>2, <3>1, <3>2 DEF AttachRolePolicy
  <2> QED
    BY <2>1 DEF OnAws!Attach, OnAws!vars, policyVars
<1>3. CASE DetachRolePolicy
  <2>1. /\ attached' = attached \/ attached' = attached \ {RoleName}
        /\ UNCHANGED policyVars
    BY <1>3 DEF DetachRolePolicy
  <2> QED
    BY <2>1 DEF OnAws!Detach, OnAws!vars, policyVars
<1>4. CASE CreateRole \/ DeleteRole
  BY <1>4 DEF CreateRole, DeleteRole, OnAws!vars, policyVars
<1>5. CASE RoutineStep
  BY <1>1, <1>2, <1>4, <1>5 DEF RoutineStep, AdmissionStep, RoleExists, GetRoleARN, SetRoleArnField,
     RoleFound, GetPolicy, SetPolicyArnField, RoleStillExists, GetAttachedRolePoliciesARNs,
     RoutineEnds
<1>6. CASE FinalizerStep
  BY <1>1, <1>3, <1>4, <1>6 DEF FinalizerStep, ListAttached
<1> QED
  BY <1>1, <1>5, <1>6 DEF ReconcilerStep

(* The Policy's side is what the contract says, and a role that somebody   *)
(* deletes by hand is detached first.                                      *)
LEMMA OutsideStepIsShared ==
  ASSUME OutsideStep
  PROVE  [OnAws!Next]_(OnAws!vars)
<1>1. CASE PolicyMade \/ PolicyShown \/ PolicyForgotten \/ PolicyDeleted
  BY <1>1 DEF PolicyMade, PolicyShown, PolicyForgotten, PolicyDeleted, OnAws!Next
<1>2. CASE PolicyDetached
  BY <1>2 DEF PolicyDetached, OnAws!Next
<1>3. CASE AttachForeign
  BY <1>3 DEF AttachForeign, OnAws!vars
<1>4. CASE DeleteIamRole
  <2>1. OnAws!Detach(RoleName)
    BY <1>4 DEF DeleteIamRole, OnAws!Detach
  <2> QED
    BY <2>1 DEF OnAws!Next
<1> QED
  BY <1>1, <1>2, <1>3, <1>4 DEF OutsideStep

(***************************************************************************)
(* The Role reconciler keeps to what it shares with the Policy reconciler: *)
(* it attaches the AWS policy only while that is there, detaches it, and   *)
(* makes, deletes and records nothing for it.                              *)
(***************************************************************************)
THEOREM AwsPolicyIsShared == Spec => IsShared
<1>1. Init => OnAws!Init
  BY DEF Init, OnAws!Init
<1>2. [Next]_vars => [OnAws!Next]_(OnAws!vars)
  <2> SUFFICES ASSUME [Next]_vars PROVE [OnAws!Next]_(OnAws!vars)
    OBVIOUS
  <2>1. CASE ReconcilerStep
    BY <2>1, RoleStepIsShared DEF OnAws!Next
  <2>2. CASE InformerStep \/ UserStep \/ UNCHANGED vars
    BY <2>2 DEF InformerStep, UserStep, vars, iamVars, roleVars, policyVars, OnAws!vars
  <2> QED
    BY <2>1, <2>2, OutsideStepIsShared DEF Next
<1> QED
  BY <1>1, <1>2, PTL DEF Spec, IsShared, OnAws!Spec

=============================================================================
