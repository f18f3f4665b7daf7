----------------------- MODULE PolicyControllerProofs -----------------------
(***************************************************************************)
(* Theorems about PolicyController, for every number of users' actions and *)
(* of failures, every set of statements and of roles.                      *)
(*                                                                         *)
(* All of them follow from one inductive invariant, IInv.  ReconcilerProofs *)
(* keeps the half of it that speaks of the stored resource and its copies; *)
(* here one lemma per action of the controller keeps the other half: what  *)
(* an ARN says of AWS, and what the worker has established at each step.   *)
(***************************************************************************)
EXTENDS PolicyController, ReconcilerProofs

USE DEF UpdateSteps, FinalizerSteps

-----------------------------------------------------------------------------
(* The two halves of the invariant *)

(* The half that ReconcilerProofs speaks of. *)
Half == ReconcilerInv(PolicySpecs, Steps, Items)

(* What IInv says of the AWS policy. *)
IamTypes ==
    /\ iamPolicy \in IamPolicies
    /\ attached \subseteq Entities

(* IInv is made of the two halves. *)
LEMMA Halves == IInv <=> Half /\ IamTypes /\ ArnJustified /\ StepsJustified
<1>1. Steps \cap CommonSteps = {}
  BY DEF Steps, CommonSteps
<1> QED
  BY <1>1 DEF IInv, TypeOK, Half, IamTypes, ReconcilerInv, StepsJustified

(* The same after a step. *)
LEMMA HalvesNext ==
  ASSUME Half', IamTypes', ArnJustified', StepsJustified'
  PROVE  IInv'
  BY DEF IInv, TypeOK, Half, IamTypes, ReconcilerInv

(* The limit on the versions leaves room for the default one. *)
LEMMA VersionRange ==
    /\ MaxVersions \in Nat /\ 0 \in 0..(MaxVersions - 1)
    /\ \A old \in 0..(MaxVersions - 1) :
         /\ old + 1 < MaxVersions => old + 1 \in 0..(MaxVersions - 1)
         /\ old > 0 => old - 1 \in 0..(MaxVersions - 1)
         /\ 1..old \subseteq 1..(MaxVersions - 1)
<1>1. MaxVersions \in Nat /\ MaxVersions >= 2
  BY PolicyAssumption
<1> QED
  BY <1>1

(* The states of the AWS policy. *)
LEMMA IamPolicyTypes ==
    /\ NoIamPolicy \in IamPolicies /\ ~NoIamPolicy.exists
    /\ \A s \in StatementChoices, old \in 0..(MaxVersions - 1) :
         IamPolicy(s, old) \in IamPolicies /\ IamPolicy(s, old).exists
    /\ \A p \in IamPolicies : p.old > 0 =>
         /\ [p EXCEPT !.old = @ - 1] \in IamPolicies
         /\ [p EXCEPT !.old = @ - 1].exists = p.exists
         /\ [p EXCEPT !.old = @ - 1].document = p.document
  BY VersionRange DEF NoIamPolicy, IamPolicy, IamPolicies

(* The worker has a copy with a finalizer when it calls AWS. *)
LEMMA OwnSteps ==
  ASSUME IInv
  PROVE  /\ ReconcilerTypes(PolicySpecs, Steps, Items) /\ faults \in 0..MaxFaults
         /\ worker.obj \in Resources(PolicySpecs)
         /\ worker.obj.exists => worker.obj.spec \in PolicySpecs
         /\ worker.pc # "idle" => Busy /\ worker.obj.exists
<1>1. Half
  BY Halves
<1>2. worker.obj \in Resources(PolicySpecs)
  BY <1>1, FieldTypes DEF Half, ReconcilerInv
<1>3. worker.obj.exists => worker.obj.spec \in PolicySpecs
  BY <1>2, ResourceFields
<1> QED
  BY <1>1, <1>2, <1>3 DEF Half, ReconcilerInv, ReconcilerTypes, CopiesInv, CopiesTruthful, Busy

(* A call to AWS keeps the invariant when the ARN stays real and the       *)
(* worker's next step is justified.                                        *)
LEMMA AwsStepKeeps ==
  ASSUME IInv, Busy, MovesOn(PolicySpecs, Steps, Items), faults' \in 0..MaxFaults,
         UnchangedCluster, IamTypes', StepsJustified',
         Alive(resource) /\ HasArn => (iamPolicy.exists => iamPolicy'.exists)
  PROVE  IInv'
<1>1. Half /\ ArnJustified
  BY Halves
<1>2. /\ ReconcilerTypes(PolicySpecs, Steps, Items)' /\ CopiesInv' /\ resource' = resource
  BY <1>1, MovingKeeps DEF Half
<1>3. Half'
  BY <1>1, <1>2 DEF Half, ReconcilerInv, StepsJustified
<1>4. ArnJustified'
  BY <1>1, <1>2 DEF ArnJustified, ArnIsReal, HasArn, Alive
<1> QED
  BY <1>3, <1>4, HalvesNext

(* An idle worker has nothing to justify. *)
LEMMA IdleJustified == worker' = Idle => StepsJustified'
<1>1. worker' = Idle => worker'.pc = "idle"
  BY DEF Idle
<1> QED
  BY <1>1 DEF StepsJustified, CommonStepsJustified

(* Nor has a worker that reports something else than "created". *)
LEMMA ReportJustified ==
  ASSUME worker'.pc = "status", worker'.obj.finalizer,
         worker'.next \in {"return", "requeue", "ifFailed"}, worker'.status.condition # CrOK
  PROVE  StepsJustified'
  BY DEF StepsJustified, CommonStepsJustified

(* Reporting an error is one of these reports. *)
LEMMA FailJustified ==
  ASSUME IInv, worker.obj.finalizer, NEW reason \in Reasons, Fail(reason)
  PROVE  MovesOn(PolicySpecs, Steps, Items) /\ StepsJustified'
<1>1. /\ MovesOn(PolicySpecs, Steps, Items)
      /\ worker'.pc = "status" /\ worker'.obj = worker.obj
      /\ worker'.status.condition = CrError /\ worker'.next = "requeue"
  BY OwnSteps, FailMoves
<1>2. CrError # CrOK
  BY DEF CrError, CrOK
<1> QED
  BY <1>1, <1>2, ReportJustified

(* And so is reporting progress. *)
LEMMA ProgressJustified ==
  ASSUME IInv, worker.obj.finalizer, NEW reason \in Reasons,
         NEW next \in {"return", "requeue", "ifFailed"},
         Report(Progress(reason), next) \/ Report(Error(reason), next)
  PROVE  MovesOn(PolicySpecs, Steps, Items) /\ StepsJustified'
<1>1. /\ Progress(reason) \in Statuses /\ Progress(reason).condition = CrProgressing
      /\ Error(reason) \in Statuses /\ Error(reason).condition = CrError
  BY StatusTypes
<1>2. CrError # CrOK /\ CrProgressing # CrOK
  BY DEF CrError, CrOK, CrProgressing
<1>3. next \in Steps \cup {"return", "requeue", "ifFailed", "deleteCR"}
  OBVIOUS
<1>4. ASSUME NEW status \in {Progress(reason), Error(reason)}, Report(status, next)
      PROVE  /\ MovesOn(PolicySpecs, Steps, Items)
             /\ worker'.pc = "status" /\ worker'.obj = worker.obj
             /\ worker'.status = status /\ worker'.next = next
  <2>1. status \in Statuses
    BY <1>1
  <2> QED
    BY <1>3, <1>4, <2>1, OwnSteps, ReportMoves
<1> QED
  BY <1>1, <1>2, <1>4, ReportJustified

-----------------------------------------------------------------------------
(* reconcilerRoutine *)

(* admissionStep only reports. *)
LEMMA AdmissionStepKeeps == IInv /\ AdmissionStep => IInv'
<1> SUFFICES ASSUME IInv, AdmissionStep PROVE IInv'
  OBVIOUS
<1>1. /\ Busy /\ worker.obj.finalizer /\ UnchangedCluster /\ faults' = faults
      /\ UNCHANGED <<iamPolicy, attached>>
      /\ Report(Progress("passed validation"), "ifFailed") \/ Report(Error("invalid"), "ifFailed")
  BY DEF AdmissionStep, Admission, Busy, Registered, iamVars
<1>2. MovesOn(PolicySpecs, Steps, Items) /\ StepsJustified'
  <2>1. "passed validation" \in Reasons /\ "invalid" \in Reasons
    BY DEF Reasons
  <2> QED
    BY <1>1, <2>1, ProgressJustified
<1>3. IamTypes'
  BY <1>1, Halves DEF IamTypes
<1> QED
  BY <1>1, <1>2, <1>3, OwnSteps, AwsStepKeeps

(* GetPolicyARN only decides between setting the ARN and creating the policy. *)
LEMMA GetPolicyARNKeeps == IInv /\ GetPolicyARN => IInv'
<1> SUFFICES ASSUME IInv, GetPolicyARN PROVE IInv'
  OBVIOUS
<1>1. PICK ok \in BOOLEAN :
        Answer("iam", ok) /\ Goto(IF FoundPolicy(ok) THEN "setArn" ELSE "create")
  BY DEF GetPolicyARN
<1>2. /\ Busy /\ InRoutine(worker.obj) /\ UnchangedCluster /\ UNCHANGED <<iamPolicy, attached>>
  BY DEF GetPolicyARN, Busy, iamVars
<1>3. faults' \in 0..MaxFaults
  BY <1>1, OwnSteps, AnswerType
<1>4. /\ MovesOn(PolicySpecs, Steps, Items) /\ worker'.obj = worker.obj
      /\ worker'.pc = IF FoundPolicy(ok) THEN "setArn" ELSE "create"
  <2>1. (IF FoundPolicy(ok) THEN "setArn" ELSE "create") \in CommonSteps \cup Steps
    BY DEF Steps
  <2> QED
    BY <1>1, <2>1, OwnSteps, GotoMoves
<1>5. StepsJustified'
  BY <1>2, <1>4 DEF StepsJustified, CommonStepsJustified, FoundPolicy
<1>6. IamTypes'
  BY <1>2, Halves DEF IamTypes
<1> QED
  BY <1>2, <1>3, <1>4, <1>5, <1>6, AwsStepKeeps

(* CreatePolicy makes an AWS policy exist, which no copy speaks of yet. *)
LEMMA CreatePolicyKeeps == IInv /\ CreatePolicy => IInv'
<1> SUFFICES ASSUME IInv, CreatePolicy PROVE IInv'
  OBVIOUS
<1>1. PICK applied \in BOOLEAN, ok \in BOOLEAN :
        /\ Call("iam", worker.obj.spec.statement \in AcceptedStatements, applied, ok)
        /\ iamPolicy' = IF applied /\ ~iamPolicy.exists THEN IamPolicy(worker.obj.spec.statement, 0)
                                                       ELSE iamPolicy
        /\ IF ok THEN Report(Progress("policy created"), "requeue") ELSE Fail("create failed")
  BY DEF CreatePolicy
<1>2. /\ Busy /\ worker.obj.finalizer /\ UnchangedCluster /\ attached' = attached
      /\ worker.obj.spec.statement \in StatementChoices
  BY OwnSteps DEF CreatePolicy, Busy, IInv, StepsJustified, InRoutine, Registered, PolicySpecs
<1>3. faults' \in 0..MaxFaults
  BY <1>1, OwnSteps, FaultType DEF Call
<1>4. MovesOn(PolicySpecs, Steps, Items) /\ StepsJustified'
  <2>1. "policy created" \in Reasons /\ "create failed" \in Reasons
    BY DEF Reasons
  <2> QED
    BY <1>1, <1>2, <2>1, ProgressJustified, FailJustified
<1>5. IamTypes' /\ (iamPolicy.exists => iamPolicy'.exists)
  BY <1>1, <1>2, Halves, IamPolicyTypes, VersionRange DEF IamTypes
<1> QED
  BY <1>2, <1>3, <1>4, <1>5, AwsStepKeeps

(* UpdatePolicy looks for room. *)
LEMMA ListPolicyVersionsKeeps == IInv /\ ListPolicyVersions => IInv'
<1> SUFFICES ASSUME IInv, ListPolicyVersions PROVE IInv'
  OBVIOUS
<1>1. PICK ok \in BOOLEAN :
        Answer("iam", ok) /\ (Fail("update failed") \/ Goto("trim") \/ Goto("newVersion"))
  BY DEF ListPolicyVersions
<1>2. /\ Busy /\ InRoutine(worker.obj) /\ worker.obj.finalizer /\ UnchangedCluster
      /\ UNCHANGED <<iamPolicy, attached>>
  BY DEF ListPolicyVersions, Busy, iamVars, IInv, StepsJustified, InRoutine, Registered
<1>3. faults' \in 0..MaxFaults
  BY <1>1, OwnSteps, AnswerType
<1>4. ASSUME NEW pc \in {"trim", "newVersion"}, Goto(pc)
      PROVE  MovesOn(PolicySpecs, Steps, Items) /\ StepsJustified'
  <2>1. pc \in CommonSteps \cup Steps /\ pc # "idle"
    BY DEF Steps
  <2>2. MovesOn(PolicySpecs, Steps, Items) /\ worker'.pc = pc /\ worker'.obj = worker.obj
    BY <1>4, <2>1, OwnSteps, GotoMoves
  <2> QED
    BY <1>2, <2>2 DEF StepsJustified, CommonStepsJustified
<1>5. MovesOn(PolicySpecs, Steps, Items) /\ StepsJustified'
  BY <1>1, <1>2, <1>4, FailJustified DEF Reasons
<1>6. IamTypes'
  BY <1>2, Halves DEF IamTypes
<1> QED
  BY <1>2, <1>3, <1>5, <1>6, AwsStepKeeps

(* Making room keeps the default version of the AWS policy. *)
LEMMA DeleteOldestPolicyVersionKeeps == IInv /\ DeleteOldestPolicyVersion => IInv'
<1> SUFFICES ASSUME IInv, DeleteOldestPolicyVersion PROVE IInv'
  OBVIOUS
<1>1. PICK applied \in BOOLEAN, ok \in BOOLEAN :
        /\ Call("iam", iamPolicy.old > 0, applied, ok)
        /\ iamPolicy' = IF applied THEN [iamPolicy EXCEPT !.old = @ - 1] ELSE iamPolicy
        /\ IF ok THEN Goto("newVersion") ELSE Fail("update failed")
  BY DEF DeleteOldestPolicyVersion
<1>2. /\ Busy /\ InRoutine(worker.obj) /\ worker.obj.finalizer /\ UnchangedCluster
      /\ attached' = attached /\ IamTypes
  BY Halves DEF DeleteOldestPolicyVersion, Busy, IInv, StepsJustified, InRoutine, Registered
<1>3. faults' \in 0..MaxFaults /\ (applied => iamPolicy.old > 0)
  BY <1>1, OwnSteps, FaultType DEF Call
<1>4. MovesOn(PolicySpecs, Steps, Items) /\ StepsJustified'
  <2>1. CASE ok
    <3>1. "newVersion" \in CommonSteps \cup Steps /\ Goto("newVersion")
      BY <1>1, <2>1 DEF Steps
    <3>2. MovesOn(PolicySpecs, Steps, Items) /\ worker'.pc = "newVersion" /\ worker'.obj = worker.obj
      BY <3>1, OwnSteps, GotoMoves
    <3> QED
      BY <1>2, <3>2 DEF StepsJustified, CommonStepsJustified
  <2>2. CASE ~ok
    BY <1>1, <1>2, <2>2, FailJustified DEF Reasons
  <2> QED
    BY <2>1, <2>2
<1>5. IamTypes' /\ (iamPolicy.exists => iamPolicy'.exists)
  BY <1>1, <1>2, <1>3, IamPolicyTypes DEF IamTypes
<1> QED
  BY <1>2, <1>3, <1>4, <1>5, AwsStepKeeps

(* The new version becomes the default one of an AWS policy that exists. *)
LEMMA CreatePolicyVersionKeeps == IInv /\ CreatePolicyVersion => IInv'
<1> SUFFICES ASSUME IInv, CreatePolicyVersion PROVE IInv'
  OBVIOUS
<1>1. PICK applied \in BOOLEAN, ok \in BOOLEAN :
        /\ Call("iam", VersionAccepted(worker.obj.spec.statement), applied, ok)
        /\ iamPolicy' = IF applied THEN IamPolicy(worker.obj.spec.statement, iamPolicy.old + 1)
                                   ELSE iamPolicy
        /\ IF ok THEN Report(Progress("policy updated"), "requeue") ELSE Fail("update failed")
  BY DEF CreatePolicyVersion
<1>2. /\ Busy /\ worker.obj.finalizer /\ UnchangedCluster /\ attached' = attached
      /\ worker.obj.spec.statement \in StatementChoices /\ IamTypes
  BY OwnSteps, Halves DEF CreatePolicyVersion, Busy, IInv, StepsJustified, InRoutine, Registered,
     PolicySpecs
<1>3. faults' \in 0..MaxFaults /\ (applied => iamPolicy.old + 1 < MaxVersions)
  BY <1>1, OwnSteps, FaultType DEF Call, VersionAccepted
<1>4. MovesOn(PolicySpecs, Steps, Items) /\ StepsJustified'
  <2>1. "policy updated" \in Reasons /\ "update failed" \in Reasons
    BY DEF Reasons
  <2> QED
    BY <1>1, <1>2, <2>1, ProgressJustified, FailJustified
<1>5. IamTypes' /\ (iamPolicy.exists => iamPolicy'.exists)
  <2>1. iamPolicy.old \in 0..(MaxVersions - 1)
    BY <1>2 DEF IamTypes, IamPolicies
  <2>2. applied => iamPolicy.old + 1 \in 0..(MaxVersions - 1)
    BY <1>3, <2>1, VersionRange
  <2> QED
    BY <1>1, <1>2, <2>2, IamPolicyTypes DEF IamTypes
<1> QED
  BY <1>2, <1>3, <1>4, <1>5, AwsStepKeeps

(* setPolicyArnField writes an ARN for a policy that was found, on a live *)
(* resource with its finalizer.                                           *)
LEMMA SetPolicyArnFieldKeeps == IInv /\ SetPolicyArnField => IInv'
<1> SUFFICES ASSUME IInv, SetPolicyArnField PROVE IInv'
  OBVIOUS
<1> DEFINE new == [resource EXCEPT !.spec.arn = "arn"]
<1>1. PICK applied \in BOOLEAN, ok \in BOOLEAN :
        /\ Update(new, applied, ok)
        /\ worker' = [worker EXCEPT !.pc = "status", !.next = "return",
                                    !.obj = IF ok THEN resource' ELSE @,
                                    !.status = Progress("policy found")]
        /\ HoldUpdated(ok) /\ Ignored
  BY DEF SetPolicyArnField
<1>2. /\ Busy /\ InRoutine(worker.obj) /\ iamPolicy.exists /\ queued' = queued
      /\ UNCHANGED <<iamPolicy, attached>> /\ Half /\ ArnJustified
      /\ resource \in Resources(PolicySpecs) /\ queued \in BOOLEAN
  BY Halves, FieldTypes DEF SetPolicyArnField, iamVars, Busy, StepsJustified, Half, ReconcilerInv,
         ReconcilerTypes
<1>3. resource.exists =>
        /\ new \in Resources(PolicySpecs) /\ new.exists /\ new.uid = resource.uid
        /\ new.deleting = resource.deleting /\ new.finalizer = resource.finalizer
  <2>1. ASSUME resource.exists
        PROVE  /\ resource.spec \in PolicySpecs
               /\ new = [resource EXCEPT !.spec = [resource.spec EXCEPT !.arn = "arn"]]
    <3>1. resource \in StoredResources(PolicySpecs)
      BY <1>2, <2>1, StoredExists
    <3> QED
      BY <3>1 DEF StoredResources
  <2>2. \A spec \in PolicySpecs : [spec EXCEPT !.arn = "arn"] \in PolicySpecs
    BY DEF PolicySpecs
  <2> HIDE DEF new
  <2> QED
    BY <1>2, <2>1, <2>2, SpecEdit
<1> HIDE DEF new
<1>4. /\ ok => applied
      /\ applied => resource.exists /\ Agrees(resource, worker.obj) /\ resource' = Stored(new)
      /\ ~applied => resource' = resource
  BY <1>1, <1>2, UpdateFacts DEF Half
<1>5. applied => new.finalizer /\ ~resource.deleting /\ resource' = new
  BY <1>2, <1>3, <1>4 DEF Agrees, InRoutine, Registered, Stored
<1>6. /\ worker' \in Workers(PolicySpecs, Steps, Items)
      /\ worker'.pc = "status" /\ worker'.next = "return"
      /\ worker'.status = Progress("policy found")
      /\ worker'.obj = IF ok THEN resource' ELSE worker.obj
  <2>1. Progress("policy found") \in Statuses
    BY StatusTypes DEF Reasons
  <2>2. worker \in Workers(PolicySpecs, Steps, Items) /\ resource' \in Resources(PolicySpecs)
    BY <1>2, <1>3, <1>4, <1>5, OwnSteps DEF ReconcilerTypes
  <2> QED
    BY <1>1, <2>1, <2>2 DEF Workers, CommonSteps
<1>7. ReconcilerTypes(PolicySpecs, Steps, Items)' /\ CopiesInv'
  BY <1>1, <1>2, <1>3, <1>4, <1>5, <1>6, UpdatingKeeps DEF Half, Agrees
<1>8. worker'.obj.finalizer
  BY <1>2, <1>4, <1>5, <1>6 DEF InRoutine, Registered
<1>9. StepsJustified'
  <2>1. Progress("policy found").condition # CrOK
    BY DEF Progress, NewStatus, CrProgressing, CrOK
  <2> QED
    BY <1>6, <1>8, <2>1, ReportJustified
<1>10. ArnJustified'
  BY <1>2, <1>3, <1>4, <1>5 DEF ArnJustified, ArnIsReal, HasArn
<1>11. Half' /\ IamTypes'
  BY <1>2, <1>7, <1>9, Halves DEF Half, ReconcilerInv, StepsJustified, IamTypes
<1> QED
  BY <1>9, <1>10, <1>11, HalvesNext

(* GetStatement reports "created" only for a spec that is the same on AWS. *)
LEMMA GetStatementKeeps == IInv /\ GetStatement => IInv'
<1> SUFFICES ASSUME IInv, GetStatement PROVE IInv'
  OBVIOUS
<1>1. PICK ok \in BOOLEAN :
        /\ Answer("iam", ok)
        /\ \/ Fail("get failed")
           \/ Goto("update")
           \/ SameOnAws(worker.obj) /\ Report(AllDone, "return")
           \/ Return(FALSE)
  BY DEF GetStatement
<1>2. /\ Busy /\ InRoutine(worker.obj) /\ worker.obj.finalizer /\ UnchangedCluster
      /\ UNCHANGED <<iamPolicy, attached>> /\ worker.obj.spec.arn # ""
  BY DEF GetStatement, Busy, iamVars, InRoutine, Registered
<1>3. faults' \in 0..MaxFaults
  BY <1>1, OwnSteps, AnswerType
<1>4. MovesOn(PolicySpecs, Steps, Items) /\ StepsJustified'
  <2>1. CASE Fail("get failed")
    <3>1. "get failed" \in Reasons
      BY DEF Reasons
    <3> QED
      BY <1>2, <2>1, <3>1, FailJustified
  <2>2. CASE Goto("update")
    <3>1. "update" \in CommonSteps \cup Steps
      BY DEF Steps
    <3>2. MovesOn(PolicySpecs, Steps, Items) /\ worker'.pc = "update" /\ worker'.obj = worker.obj
      BY <2>2, <3>1, OwnSteps, GotoMoves
    <3> QED
      BY <1>2, <3>2 DEF StepsJustified, CommonStepsJustified
  <2>3. CASE SameOnAws(worker.obj) /\ Report(AllDone, "return")
    <3>1. AllDone \in Statuses
      BY StatusTypes
    <3>2. "return" \in Steps \cup {"return", "requeue", "ifFailed", "deleteCR"}
      OBVIOUS
    <3>3. /\ MovesOn(PolicySpecs, Steps, Items) /\ worker'.pc = "status"
          /\ worker'.obj = worker.obj /\ worker'.next = "return"
      BY <2>3, <3>1, <3>2, OwnSteps, ReportMoves
    <3> QED
      BY <1>2, <2>3, <3>3 DEF StepsJustified, CommonStepsJustified, SameOnAws, InRoutine
  <2>4. CASE Return(FALSE)
    BY <2>4, OwnSteps, ReturnMoves, IdleJustified
  <2> QED
    BY <1>1, <2>1, <2>2, <2>3, <2>4
<1>5. IamTypes'
  BY <1>2, Halves DEF IamTypes
<1> QED
  BY <1>2, <1>3, <1>4, <1>5, AwsStepKeeps

-----------------------------------------------------------------------------
(* The finalizer *)

(* Without an ARN the finalizer is removed at once. *)
LEMMA NothingToUndoKeeps == IInv /\ NothingToUndo => IInv'
<1> SUFFICES ASSUME IInv, NothingToUndo PROVE IInv'
  OBVIOUS
<1>1. /\ Busy /\ ExecutesFinalizer(worker.obj) /\ worker.obj.spec.arn = "" /\ UnchangedCluster
      /\ UNCHANGED <<iamPolicy, attached, faults>> /\ Goto("removeFinalizer")
  BY DEF NothingToUndo, Busy, iamVars
<1>2. /\ MovesOn(PolicySpecs, Steps, Items) /\ worker'.obj = worker.obj
      /\ worker'.pc = "removeFinalizer"
  <2>1. "removeFinalizer" \in CommonSteps \cup Steps
    BY DEF CommonSteps
  <2> QED
    BY <1>1, <2>1, OwnSteps, GotoMoves
<1>3. StepsJustified' /\ IamTypes'
  BY <1>1, <1>2, Halves DEF StepsJustified, CommonStepsJustified, IamTypes
<1> QED
  BY <1>1, <1>2, <1>3, OwnSteps, AwsStepKeeps

(* PolicyExists skips the deletion only when the AWS policy is absent. *)
LEMMA PolicyExistsKeeps == IInv /\ PolicyExists => IInv'
<1> SUFFICES ASSUME IInv, PolicyExists PROVE IInv'
  OBVIOUS
<1>1. PICK ok \in BOOLEAN :
        Answer("iam", ok) /\ Goto(IF CertainlyAbsent(ok) THEN "removeFinalizer" ELSE "list")
  BY DEF PolicyExists
<1>2. /\ Busy /\ ExecutesFinalizer(worker.obj) /\ UnchangedCluster
      /\ UNCHANGED <<iamPolicy, attached>>
  BY DEF PolicyExists, Busy, iamVars
<1>3. faults' \in 0..MaxFaults
  BY <1>1, OwnSteps, AnswerType
<1>4. /\ MovesOn(PolicySpecs, Steps, Items) /\ worker'.obj = worker.obj
      /\ worker'.pc = IF CertainlyAbsent(ok) THEN "removeFinalizer" ELSE "list"
  <2>1. (IF CertainlyAbsent(ok) THEN "removeFinalizer" ELSE "list") \in CommonSteps \cup Steps
    BY DEF Steps, CommonSteps
  <2> QED
    BY <1>1, <2>1, OwnSteps, GotoMoves
<1>5. StepsJustified' /\ IamTypes'
  BY <1>2, <1>4, Halves DEF StepsJustified, CommonStepsJustified, IamTypes, CertainlyAbsent
<1> QED
  BY <1>2, <1>3, <1>4, <1>5, AwsStepKeeps

(* Going on with DeletePolicy asks for no more than a deleting resource. *)
LEMMA DeletionJustified ==
  ASSUME ExecutesFinalizer(worker.obj), worker'.obj = worker.obj,
         worker'.pc \in FinalizerSteps
         \/ (worker'.pc = "deleteCR" /\ ~iamPolicy'.exists)
  PROVE  StepsJustified'
  BY DEF StepsJustified, CommonStepsJustified

(* The listing of DeletePolicy chooses its next call. *)
LEMMA ListEntitiesForPolicyKeeps == IInv /\ ListEntitiesForPolicy => IInv'
<1> SUFFICES ASSUME IInv, ListEntitiesForPolicy PROVE IInv'
  OBVIOUS
<1>1. PICK ok \in BOOLEAN :
        /\ Answer("iam", ok)
        /\ \/ ~iamPolicy.exists /\ Goto("deleteCR")
           \/ Goto("delete")
           \/ worker' = [worker EXCEPT !.pc = "detach", !.todo = AttachedRoles] /\ UNCHANGED queued
           \/ Fail("delete failed")
  BY DEF ListEntitiesForPolicy
<1>2. /\ Busy /\ ExecutesFinalizer(worker.obj) /\ worker.obj.finalizer /\ UnchangedCluster
      /\ UNCHANGED <<iamPolicy, attached>> /\ IamTypes
  BY Halves DEF ListEntitiesForPolicy, Busy, iamVars, StepsJustified, ExecutesFinalizer
<1>3. faults' \in 0..MaxFaults
  BY <1>1, OwnSteps, AnswerType
<1>4. MovesOn(PolicySpecs, Steps, Items) /\ StepsJustified'
  <2>1. "deleteCR" \in CommonSteps \cup Steps /\ "delete" \in CommonSteps \cup Steps
    BY DEF CommonSteps, Steps
  <2>2. CASE (~iamPolicy.exists /\ Goto("deleteCR")) \/ Goto("delete")
    BY <1>2, <2>1, <2>2, OwnSteps, GotoMoves, DeletionJustified
  <2>3. CASE worker' = [worker EXCEPT !.pc = "detach", !.todo = AttachedRoles] /\ UNCHANGED queued
    <3>1. AttachedRoles \subseteq Items
      BY DEF AttachedRoles, Items
    <3>2. /\ MovesOn(PolicySpecs, Steps, Items)
          /\ worker'.pc = "detach" /\ worker'.obj = worker.obj
      BY <2>3, <3>1, OwnSteps DEF MovesOn, ReconcilerTypes, Workers, Steps
    <3> QED
      BY <1>2, <3>2, DeletionJustified
  <2>4. CASE Fail("delete failed")
    BY <1>2, <2>4, FailJustified DEF Reasons
  <2> QED
    BY <1>1, <2>2, <2>3, <2>4
<1>5. IamTypes'
  BY <1>2 DEF IamTypes
<1> QED
  BY <1>2, <1>3, <1>4, <1>5, AwsStepKeeps

(* DetachRolePolicy changes the attachments only. *)
LEMMA DetachRolePolicyKeeps == IInv /\ DetachRolePolicy => IInv'
<1> SUFFICES ASSUME IInv, DetachRolePolicy PROVE IInv'
  OBVIOUS
<1>1. PICK role \in worker.todo, applied \in BOOLEAN, ok \in BOOLEAN :
        /\ Call("iam", role \in attached, applied, ok)
        /\ attached' = IF applied THEN attached \ {role} ELSE attached
        /\ IF ok THEN worker' = [worker EXCEPT !.pc = "delete", !.todo = {}] /\ UNCHANGED queued
                 ELSE Fail("delete failed")
  BY DEF DetachRolePolicy
<1>2. /\ Busy /\ ExecutesFinalizer(worker.obj) /\ worker.obj.finalizer /\ UnchangedCluster
      /\ iamPolicy' = iamPolicy /\ IamTypes
  BY Halves DEF DetachRolePolicy, Busy, StepsJustified, ExecutesFinalizer
<1>3. faults' \in 0..MaxFaults
  BY <1>1, OwnSteps, FaultType DEF Call
<1>4. MovesOn(PolicySpecs, Steps, Items) /\ StepsJustified'
  <2>1. CASE ok
    <3>1. /\ MovesOn(PolicySpecs, Steps, Items)
          /\ worker'.pc = "delete" /\ worker'.obj = worker.obj
      BY <1>1, <2>1, OwnSteps DEF MovesOn, ReconcilerTypes, Workers, Steps
    <3> QED
      BY <1>2, <3>1, DeletionJustified
  <2>2. CASE ~ok
    <3>1. "delete failed" \in Reasons
      BY DEF Reasons
    <3> QED
      BY <1>1, <1>2, <2>2, <3>1, FailJustified
  <2> QED
    BY <2>1, <2>2
<1>5. IamTypes'
  BY <1>1, <1>2 DEF IamTypes
<1> QED
  BY <1>2, <1>3, <1>4, <1>5, AwsStepKeeps

(* The listing of the versions chooses the next call, too. *)
LEMMA ListVersionsToDeleteKeeps == IInv /\ ListVersionsToDelete => IInv'
<1> SUFFICES ASSUME IInv, ListVersionsToDelete PROVE IInv'
  OBVIOUS
<1>1. PICK ok \in BOOLEAN :
        /\ Answer("iam", ok)
        /\ \/ ~iamPolicy.exists /\ Goto("deleteCR")
           \/ Goto("deletePolicy")
           \/ worker' = [worker EXCEPT !.pc = "purge", !.todo = OldVersions] /\ UNCHANGED queued
           \/ Fail("delete failed")
  BY DEF ListVersionsToDelete
<1>2. /\ Busy /\ ExecutesFinalizer(worker.obj) /\ worker.obj.finalizer /\ UnchangedCluster
      /\ UNCHANGED <<iamPolicy, attached>> /\ IamTypes
  BY Halves DEF ListVersionsToDelete, Busy, iamVars, StepsJustified, ExecutesFinalizer
<1>3. faults' \in 0..MaxFaults
  BY <1>1, OwnSteps, AnswerType
<1>4. MovesOn(PolicySpecs, Steps, Items) /\ StepsJustified'
  <2>1. /\ "deleteCR" \in CommonSteps \cup Steps /\ "deletePolicy" \in CommonSteps \cup Steps
        /\ "deletePolicy" \in FinalizerSteps
    BY DEF CommonSteps, Steps
  <2>2. CASE (~iamPolicy.exists /\ Goto("deleteCR")) \/ Goto("deletePolicy")
    BY <1>2, <2>1, <2>2, OwnSteps, GotoMoves, DeletionJustified
  <2>3. CASE worker' = [worker EXCEPT !.pc = "purge", !.todo = OldVersions] /\ UNCHANGED queued
    <3>1. OldVersions \subseteq Items
      BY <1>2, VersionRange DEF OldVersions, Items, IamTypes, IamPolicies
    <3>2. /\ MovesOn(PolicySpecs, Steps, Items)
          /\ worker'.pc = "purge" /\ worker'.obj = worker.obj
      BY <2>3, <3>1, OwnSteps DEF MovesOn, ReconcilerTypes, Workers, Steps
    <3> QED
      BY <1>2, <3>2, DeletionJustified
  <2>4. CASE Fail("delete failed")
    BY <1>2, <2>4, FailJustified DEF Reasons
  <2> QED
    BY <1>1, <2>2, <2>3, <2>4
<1>5. IamTypes'
  BY <1>2 DEF IamTypes
<1> QED
  BY <1>2, <1>3, <1>4, <1>5, AwsStepKeeps

(* Deleting the versions keeps the default one. *)
LEMMA DeletePolicyVersionKeeps == IInv /\ DeletePolicyVersion => IInv'
<1> SUFFICES ASSUME IInv, DeletePolicyVersion PROVE IInv'
  OBVIOUS
<1>1. PICK version \in worker.todo, applied \in BOOLEAN, ok \in BOOLEAN :
        /\ Call("iam", iamPolicy.old > 0, applied, ok)
        /\ iamPolicy' = IF applied THEN [iamPolicy EXCEPT !.old = @ - 1] ELSE iamPolicy
        /\ worker' = [worker EXCEPT !.todo = @ \ {version},
                                    !.pc = IF worker.todo = {version} THEN "deletePolicy" ELSE @]
  BY DEF DeletePolicyVersion
<1>2. /\ Busy /\ ExecutesFinalizer(worker.obj) /\ UnchangedCluster /\ worker.pc = "purge"
      /\ attached' = attached /\ queued' = queued /\ IamTypes
  BY Halves DEF DeletePolicyVersion, Busy, StepsJustified
<1>3. faults' \in 0..MaxFaults /\ (applied => iamPolicy.old > 0)
  BY <1>1, OwnSteps, FaultType DEF Call
<1>4. /\ MovesOn(PolicySpecs, Steps, Items)
      /\ worker'.pc \in {"purge", "deletePolicy"} /\ worker'.obj = worker.obj
  <2>1. worker \in Workers(PolicySpecs, Steps, Items) /\ queued \in BOOLEAN
    BY OwnSteps DEF ReconcilerTypes
  <2>2. /\ worker' \in Workers(PolicySpecs, Steps, Items)
        /\ worker'.pc \in {"purge", "deletePolicy"} /\ worker'.obj = worker.obj
    BY <1>1, <1>2, <2>1 DEF Workers, Steps
  <2> QED
    BY <1>2, <2>1, <2>2 DEF MovesOn
<1>5. StepsJustified'
  BY <1>2, <1>4, DeletionJustified
<1>6. IamTypes' /\ (iamPolicy.exists => iamPolicy'.exists)
  BY <1>1, <1>2, <1>3, IamPolicyTypes DEF IamTypes
<1> QED
  BY <1>2, <1>3, <1>4, <1>5, <1>6, AwsStepKeeps

(* The AWS policy is deleted for a resource that is not stored alive; a *)
(* successor of that resource has no ARN yet.                           *)
LEMMA DeletePolicyKeeps == IInv /\ DeletePolicy => IInv'
<1> SUFFICES ASSUME IInv, DeletePolicy PROVE IInv'
  OBVIOUS
<1>1. PICK applied \in BOOLEAN, ok \in BOOLEAN :
        /\ Call("iam", attached = {} /\ iamPolicy.old = 0, applied, ok)
        /\ iamPolicy' = IF applied THEN NoIamPolicy ELSE iamPolicy
        /\ IF ok THEN Goto("deleteCR") ELSE Fail("delete failed")
  BY DEF DeletePolicy
<1>2. /\ Busy /\ ExecutesFinalizer(worker.obj) /\ worker.obj.finalizer /\ UnchangedCluster
      /\ attached' = attached /\ IamTypes /\ CopiesTruthful /\ ArnJustified
  BY Halves DEF DeletePolicy, Busy, StepsJustified, ExecutesFinalizer, IInv, CopiesInv
<1>3. faults' \in 0..MaxFaults /\ (ok => applied)
  BY <1>1, OwnSteps, FaultType DEF Call
<1>4. NoIamPolicy \in IamPolicies
      /\ ~NoIamPolicy.exists
  BY IamPolicyTypes
<1>5. MovesOn(PolicySpecs, Steps, Items) /\ StepsJustified'
  <2>1. CASE ok
    <3>1. "deleteCR" \in CommonSteps \cup Steps
      BY DEF CommonSteps
    <3>2. ~iamPolicy'.exists
      BY <1>1, <1>3, <1>4, <2>1
    <3> QED
      BY <1>1, <1>2, <2>1, <3>1, <3>2, OwnSteps, GotoMoves, DeletionJustified
  <2>2. CASE ~ok
    <3>1. "delete failed" \in Reasons
      BY DEF Reasons
    <3> QED
      BY <1>1, <1>2, <2>2, <3>1, FailJustified
  <2> QED
    BY <2>1, <2>2
<1>6. IamTypes'
  BY <1>1, <1>2, <1>4 DEF IamTypes
<1>7. ~(Alive(resource) /\ HasArn)
  BY <1>2 DEF CopiesTruthful, DoomedStays, SuccessorIsNew, Alive, ExecutesFinalizer,
         ArnJustified, HasArn
<1> QED
  BY <1>2, <1>3, <1>5, <1>6, <1>7, AwsStepKeeps

-----------------------------------------------------------------------------
(* The common steps, the informer and the users *)

(* The common steps of the worker leave AWS alone. *)
LEMMA LifecycleStepKeeps == IInv /\ LifecycleStep /\ UNCHANGED iamVars => IInv'
<1> SUFFICES ASSUME IInv, LifecycleStep, UNCHANGED iamVars PROVE IInv'
  OBVIOUS
<1>1. /\ Half /\ IamTypes /\ ArnJustified /\ StepsJustified
      /\ iamPolicy' = iamPolicy /\ attached' = attached
  BY Halves DEF iamVars
<1>2. Half' /\ LifecycleOutcome(Steps)
  BY <1>1, LifecycleKeeps DEF Half
<1>3. IamTypes' /\ ArnJustified'
  BY <1>1, <1>2 DEF IamTypes, LifecycleOutcome, ArnJustified, ArnIsReal, HasArn
<1>4. CommonStepsJustified'
  BY <1>2 DEF Half, ReconcilerInv
<1>5. StepsJustified'
  <2>1. CASE worker'.pc \in {"idle", "got"}
    BY <1>4, <2>1 DEF StepsJustified
  <2>2. CASE worker.pc = "status" /\ worker.next \in Steps \cup {"deleteCR"}
    BY <1>1, <2>2 DEF StepsJustified, Steps
  <2>3. CASE worker.pc = "deleteCR" /\ worker'.pc = "removeFinalizer" /\ worker'.obj = worker.obj
    BY <1>1, <1>4, <2>3 DEF StepsJustified
  <2> QED
    BY <1>2, <2>1, <2>2, <2>3 DEF LifecycleOutcome
<1> QED
  BY <1>2, <1>3, <1>5, HalvesNext

(* A step of others that leaves the resource alone, or whose change is less *)
(* than the ARN and the finalizer.                                          *)
LEMMA OthersKeep ==
  ASSUME IInv, Half', IamTypes', worker' = worker \/ worker' = Idle, iamPolicy' = iamPolicy,
         HasArn' => HasArn /\ resource'.finalizer,
         Alive(resource') => Alive(resource) \/ resource'.spec.arn = ""
  PROVE  IInv'
<1>1. ArnJustified /\ StepsJustified
  BY DEF IInv
<1>2. ArnJustified'
  BY <1>1 DEF ArnJustified, ArnIsReal, HasArn, Alive
<1>3. StepsJustified'
  <2>1. CASE worker' = worker
    <3>1. CommonStepsJustified'
      BY DEF Half, ReconcilerInv
    <3> QED
      BY <1>1, <2>1, <3>1 DEF StepsJustified, SameOnAws
  <2> QED
    BY <2>1, IdleJustified
<1> QED
  BY <1>2, <1>3, HalvesNext

(* The informer and the process leave the resource and AWS alone. *)
LEMMA InformerStepKeeps == IInv /\ InformerStep => IInv'
<1> SUFFICES ASSUME IInv, InformerStep PROVE IInv'
  OBVIOUS
<1>1. Half /\ IamTypes /\ ArnJustified /\ iamPolicy' = iamPolicy /\ attached' = attached
  BY Halves DEF InformerStep, iamVars
<1>2. Half' /\ resource' = resource /\ (worker' = worker \/ worker' = Idle)
  <2>1. CASE CacheSync
    BY <1>1, <2>1, CacheSyncKeeps DEF Half, CacheSync
  <2>2. CASE Enqueue
    BY <1>1, <2>2, EnqueueKeeps DEF Half, Enqueue
  <2>3. CASE Crash
    <3>1. faults' \in 0..MaxFaults
      BY <2>3, OwnSteps, FaultType DEF Crash
    <3> QED
      BY <1>1, <2>3, <3>1, RestartKeeps DEF Half, Crash, Restart
  <2> QED
    BY <2>1, <2>2, <2>3 DEF InformerStep
<1>3. IamTypes'
  BY <1>1 DEF IamTypes
<1> QED
  BY <1>1, <1>2, <1>3, OthersKeep DEF HasArn, ArnJustified

(* The owner and others with kubectl change the resource, others attach and *)
(* detach the AWS policy.                                                   *)
LEMMA UserStepKeeps == IInv /\ UserStep => IInv'
<1> SUFFICES ASSUME IInv, UserStep PROVE IInv'
  OBVIOUS
<1>1. Half /\ IamTypes /\ ArnJustified /\ ReconcilerTypes(PolicySpecs, Steps, Items)
  BY Halves, OwnSteps
<1>2. ASSUME NEW s \in StatementChoices, SetStatement(s) PROVE IInv'
  <2>1. resource.exists => resource.spec \in PolicySpecs
    BY <1>1, FieldTypes, ResourceFields
  <2>2. resource.exists
    BY <1>2 DEF SetStatement
  <2> DEFINE spec == [resource.spec EXCEPT !.statement = s]
  <2>3. spec \in PolicySpecs /\ spec.arn = resource.spec.arn
    BY <2>1, <2>2 DEF PolicySpecs
  <2>4. ChangeSpec(spec) /\ iamPolicy' = iamPolicy /\ attached' = attached
    BY <1>2 DEF SetStatement, iamVars
  <2> HIDE DEF spec
  <2>5. /\ Half' /\ worker' = worker /\ resource'.exists /\ resource'.finalizer = resource.finalizer
        /\ resource'.deleting = resource.deleting /\ resource'.spec = spec
    BY <1>1, <2>3, <2>4, ChangeSpecKeeps DEF Half
  <2>6. IamTypes'
    BY <1>1, <2>4 DEF IamTypes
  <2> QED
    BY <1>1, <2>2, <2>3, <2>4, <2>5, <2>6, OthersKeep DEF HasArn, ArnJustified, Alive
<1>3. ASSUME NEW s \in StatementChoices, CreateResource(PolicySpec("", s)), UNCHANGED iamVars
      PROVE  IInv'
  <2>1. PolicySpec("", s) \in PolicySpecs /\ PolicySpec("", s).arn = ""
    BY DEF PolicySpec, PolicySpecs
  <2>2. Half' /\ worker' = worker /\ resource'.spec = PolicySpec("", s)
    BY <1>1, <1>3, <2>1, CreateResourceKeeps DEF Half
  <2>3. IamTypes' /\ iamPolicy' = iamPolicy
    BY <1>1, <1>3 DEF IamTypes, iamVars
  <2> QED
    BY <2>1, <2>2, <2>3, OthersKeep DEF HasArn
<1>4. ASSUME RequestDeletion, UNCHANGED iamVars PROVE IInv'
  <2>1. /\ Half' /\ worker' = worker /\ resource.exists
        /\ resource'.exists => resource'.deleting /\ resource'.spec = resource.spec
        /\ resource'.exists <=> resource.finalizer
        /\ resource.finalizer => resource'.finalizer
    BY <1>1, <1>4, RequestDeletionKeeps DEF Half, RequestDeletion
  <2>2. IamTypes' /\ iamPolicy' = iamPolicy
    BY <1>1, <1>4 DEF IamTypes, iamVars
  <2> QED
    BY <2>1, <2>2, OthersKeep DEF HasArn, Alive
<1>5. ASSUME NEW entity \in Entities, Attach(entity) \/ Detach(entity) PROVE IInv'
  <2>1. ActElsewhere /\ iamPolicy' = iamPolicy /\ IamTypes'
    BY <1>1, <1>5 DEF Attach, Detach, IamTypes
  <2>2. Half' /\ resource' = resource /\ worker' = worker
    BY <1>1, <2>1, ActElsewhereKeeps DEF Half
  <2> QED
    BY <1>1, <2>1, <2>2, OthersKeep DEF HasArn, ArnJustified
<1> QED
  BY <1>2, <1>3, <1>4, <1>5 DEF UserStep

-----------------------------------------------------------------------------
(* The inductive invariant *)

(* Nothing exists at the start. *)
LEMMA InitIInv == Init => IInv
<1> SUFFICES ASSUME Init PROVE IInv
  OBVIOUS
<1>1. InitReconciler /\ iamPolicy = NoIamPolicy /\ attached = {}
  BY DEF Init
<1>2. Steps \cap CommonSteps = {}
  BY DEF Steps, CommonSteps
<1>3. Half
  BY <1>1, <1>2, InitKeeps DEF Half
<1>4. IamTypes
  BY <1>1, IamPolicyTypes DEF IamTypes
<1>5. resource = NoResource /\ worker.pc = "idle"
  BY <1>1 DEF InitReconciler, Idle
<1>6. ArnJustified
  BY <1>5, NoResourceFields DEF ArnJustified, ArnIsReal, HasArn
<1>7. StepsJustified
  BY <1>5 DEF StepsJustified, CommonStepsJustified
<1> QED
  BY <1>3, <1>4, <1>6, <1>7, Halves

(* A stuttering step changes nothing. *)
LEMMA StutterKeeps == IInv /\ UNCHANGED vars => IInv'
<1> SUFFICES ASSUME IInv, UNCHANGED vars PROVE IInv'
  OBVIOUS
<1>1. /\ UNCHANGED <<resource, cache, holders, event, queued, worker, dropped, ops, faults>>
      /\ iamPolicy' = iamPolicy /\ attached' = attached
  BY DEF vars, reconcilerVars, iamVars
<1>2. Half /\ IamTypes /\ ArnJustified /\ ReconcilerTypes(PolicySpecs, Steps, Items)
  BY Halves, OwnSteps
<1>3. /\ ops' \in 0..MaxOps /\ ops <= ops' /\ event' \in BOOLEAN /\ queued' \in BOOLEAN
      /\ faults' \in 0..MaxFaults
  <2>1. ops \in Nat
    BY <1>2, FieldTypes
  <2> QED
    BY <1>1, <1>2, <2>1 DEF ReconcilerTypes
<1>4. Half'
  BY <1>1, <1>2, <1>3, ElsewhereKeeps DEF Half
<1>5. IamTypes'
  BY <1>1, <1>2 DEF IamTypes
<1> QED
  BY <1>1, <1>2, <1>4, <1>5, OthersKeep DEF HasArn, ArnJustified

(* Every action keeps the inductive invariant. *)
LEMMA NextKeeps == IInv /\ Next => IInv'
<1> SUFFICES ASSUME IInv, Next PROVE IInv'
  OBVIOUS
<1>1. CASE LifecycleStep /\ UNCHANGED iamVars
  BY <1>1, LifecycleStepKeeps
<1>2. CASE RoutineStep
  BY <1>2, AdmissionStepKeeps, GetPolicyARNKeeps, CreatePolicyKeeps, SetPolicyArnFieldKeeps,
     GetStatementKeeps, ListPolicyVersionsKeeps, DeleteOldestPolicyVersionKeeps,
     CreatePolicyVersionKeeps DEF RoutineStep
<1>3. CASE FinalizerStep
  BY <1>3, NothingToUndoKeeps, PolicyExistsKeeps, ListEntitiesForPolicyKeeps,
     DetachRolePolicyKeeps, ListVersionsToDeleteKeeps, DeletePolicyVersionKeeps, DeletePolicyKeeps
     DEF FinalizerStep
<1> QED
  BY <1>1, <1>2, <1>3, InformerStepKeeps, UserStepKeeps DEF Next, ReconcilerStep

(***************************************************************************)
(* IInv holds in every reachable state: the copies that the cache and the  *)
(* worker of the Policy reconciler hold are late but never wrong about the *)
(* incarnation, its finalizer and its deletion, and each remote call is    *)
(* made only once what justifies it has been established.                  *)
(***************************************************************************)
THEOREM Invariance == Spec => []IInv
<1>1. IInv /\ [Next]_vars => IInv'
  BY NextKeeps, StutterKeeps
<1> QED
  BY <1>1, InitIInv, PTL DEF Spec

(* Every variable of the Policy reconciler keeps its type.  *)
THEOREM TypeCorrect == Spec => []TypeOK
<1>1. IInv => TypeOK
  BY DEF IInv
<1> QED
  BY <1>1, Invariance, PTL

(***************************************************************************)
(* A Policy that nobody has asked to delete keeps the AWS policy its ARN   *)
(* names, whatever the finalizer of a predecessor still had to do.         *)
(***************************************************************************)
THEOREM ArnStaysReal == Spec => []ArnIsReal
<1>1. IInv => ArnIsReal
  BY DEF IInv, ArnJustified
<1> QED
  BY <1>1, Invariance, PTL

-----------------------------------------------------------------------------
(* The action properties *)

(* Which steps touch the AWS policy. *)
LEMMA WhoChangesIam ==
  ASSUME [Next]_vars
  PROVE  \/ iamPolicy' = iamPolicy
         \/ CreatePolicy \/ DeletePolicy
         \/ CreatePolicyVersion \/ DeleteOldestPolicyVersion \/ DeletePolicyVersion
<1>1. CASE UNCHANGED vars
  BY <1>1 DEF vars, iamVars
<1>2. CASE UNCHANGED iamVars
  BY <1>2 DEF iamVars
<1>3. CASE RoutineStep
  BY <1>3 DEF RoutineStep, AdmissionStep, GetPolicyARN, SetPolicyArnField, GetStatement,
     ListPolicyVersions, iamVars
<1>4. CASE FinalizerStep
  BY <1>4 DEF FinalizerStep, NothingToUndo, PolicyExists, ListEntitiesForPolicy, DetachRolePolicy,
     ListVersionsToDelete, iamVars
<1>5. CASE UserStep
  BY <1>5 DEF UserStep, SetStatement, Attach, Detach, iamVars
<1> QED
  BY <1>1, <1>2, <1>3, <1>4, <1>5 DEF Next, ReconcilerStep, InformerStep

(* Adding and deleting versions does not make a policy. *)
LEMMA VersionsBelongToAPolicy ==
  ASSUME IInv, CreatePolicyVersion \/ DeleteOldestPolicyVersion \/ DeletePolicyVersion
  PROVE  ~iamPolicy.exists => ~iamPolicy'.exists
<1>1. iamPolicy \in IamPolicies
  BY Halves DEF IamTypes
<1>2. CASE CreatePolicyVersion
  <2>1. PICK applied \in BOOLEAN, ok \in BOOLEAN :
          /\ Call("iam", VersionAccepted(worker.obj.spec.statement), applied, ok)
          /\ iamPolicy' = IF applied THEN IamPolicy(worker.obj.spec.statement, iamPolicy.old + 1)
                                     ELSE iamPolicy
    BY <1>2 DEF CreatePolicyVersion
  <2> QED
    BY <2>1 DEF Call, VersionAccepted
<1>3. CASE DeleteOldestPolicyVersion \/ DeletePolicyVersion
  <2>1. iamPolicy' = [iamPolicy EXCEPT !.old = @ - 1] \/ iamPolicy' = iamPolicy
    BY <1>3 DEF DeleteOldestPolicyVersion, DeletePolicyVersion
  <2> QED
    BY <1>1, <2>1 DEF IamPolicies
<1> QED
  BY <1>2, <1>3

(* Only a worker whose copy is registered makes the AWS policy.            *)
LEMMA CreatingIsGuarded ==
  ASSUME IInv, [Next]_vars, ~iamPolicy.exists, iamPolicy'.exists
  PROVE  /\ resource.exists /\ resource.finalizer
         /\ Busy /\ ~worker.obj.deleting /\ resource.uid = worker.obj.uid
<1>1. ~CreatePolicyVersion /\ ~DeleteOldestPolicyVersion /\ ~DeletePolicyVersion
  BY VersionsBelongToAPolicy
<1>2. ~DeletePolicy
  <2>1. DeletePolicy => iamPolicy' = NoIamPolicy \/ iamPolicy' = iamPolicy
    BY DEF DeletePolicy
  <2>2. ~NoIamPolicy.exists
    BY DEF NoIamPolicy
  <2> QED
    BY <2>1, <2>2
<1>3. CreatePolicy
  BY <1>1, <1>2, WhoChangesIam
<1>4. InRoutine(worker.obj) /\ Busy
  BY <1>3 DEF CreatePolicy, IInv, StepsJustified, Busy
<1> QED
  BY <1>4 DEF InRoutine, Registered, IInv, CopiesInv, CopiesTruthful, FinalizerStays

(***************************************************************************)
(* The Policy reconciler creates an AWS policy only while the resource is  *)
(* stored with the finalizer that will clean it up.                        *)
(***************************************************************************)
THEOREM CreationIsGuarded == Spec => FinalizerGuardsIam
<1>1. IInv /\ [Next]_vars =>
        [~iamPolicy.exists /\ iamPolicy'.exists => resource.exists /\ resource.finalizer]_vars
  BY CreatingIsGuarded
<1> QED
  BY <1>1, Invariance, PTL DEF Spec, FinalizerGuardsIam

(* Apart from the worker's common steps, nothing removes a resource that   *)
(* has its finalizer, and nothing writes a status.                         *)
LEMMA WhoChangesResource ==
  ASSUME IInv, [Next]_vars
  PROVE  \/ LifecycleOutcome(Steps)
         \/ /\ resource.exists /\ resource.finalizer => resource'.exists
            /\ resource'.exists => resource'.status \in {resource.status, NoStatus}
<1>1. Half /\ resource \in Resources(PolicySpecs) /\ ReconcilerTypes(PolicySpecs, Steps, Items)
  BY Halves, FieldTypes DEF Half, ReconcilerInv
<1>2. CASE LifecycleStep
  BY <1>1, <1>2, LifecycleKeeps DEF Half
<1>3. CASE resource' = resource
  BY <1>3
<1>4. CASE SetPolicyArnField
  <2> DEFINE new == [resource EXCEPT !.spec.arn = "arn"]
  <2>1. PICK applied \in BOOLEAN, ok \in BOOLEAN : Update(new, applied, ok)
    BY <1>4 DEF SetPolicyArnField
  <2>2. /\ applied => resource.exists /\ Agrees(resource, worker.obj) /\ resource' = Stored(new)
        /\ ~applied => resource' = resource
    BY <1>1, <2>1, UpdateFacts DEF Half
  <2>3. InRoutine(worker.obj)
    BY <1>4 DEF SetPolicyArnField, IInv, StepsJustified
  <2>4. resource.exists =>
          new.exists /\ new.status = resource.status /\ new.deleting = resource.deleting
    <3>1. resource.exists => resource \in StoredResources(PolicySpecs)
      BY <1>1, StoredExists
    <3> QED
      BY <3>1 DEF StoredResources
  <2> HIDE DEF new
  <2> QED
    BY <2>2, <2>3, <2>4 DEF Stored, Agrees, InRoutine, Registered
<1>5. CASE RequestDeletion
  BY <1>1, <1>5, RequestDeletionKeeps DEF Half
<1>6. ASSUME NEW s \in StatementChoices, SetStatement(s)
      PROVE  resource'.exists /\ resource'.status = resource.status
  <2>1. resource.exists => resource \in StoredResources(PolicySpecs)
    BY <1>1, StoredExists
  <2> QED
    BY <1>6, <2>1 DEF SetStatement, ChangeSpec, StoredResources
<1>7. ASSUME NEW s \in StatementChoices, CreateResource(PolicySpec("", s))
      PROVE  ~resource.exists /\ resource'.status = NoStatus
  BY <1>7, NoResourceFields DEF CreateResource, NewResource, NoResource
<1>8. CASE UserStep
  BY <1>3, <1>5, <1>6, <1>7, <1>8 DEF UserStep, Attach, Detach, ActElsewhere
<1>9. CASE RoutineStep
  BY <1>3, <1>4, <1>9 DEF RoutineStep, AdmissionStep, Admission, GetPolicyARN, CreatePolicy,
     GetStatement, ListPolicyVersions, DeleteOldestPolicyVersion, CreatePolicyVersion, UnchangedCluster
<1>10. CASE FinalizerStep
  BY <1>3, <1>10 DEF FinalizerStep, NothingToUndo, PolicyExists, ListEntitiesForPolicy,
     DetachRolePolicy, ListVersionsToDelete, DeletePolicyVersion, DeletePolicy, UnchangedCluster
<1>11. CASE InformerStep
  BY <1>3, <1>11 DEF InformerStep, CacheSync, Enqueue, Crash, Restart
<1>12. CASE UNCHANGED vars
  BY <1>3, <1>12 DEF vars, reconcilerVars
<1> QED
  BY <1>2, <1>8, <1>9, <1>10, <1>11, <1>12 DEF Next, ReconcilerStep

(* Whoever removes a resource with an ARN has seen that its AWS policy is  *)
(* gone.                                                                   *)
LEMMA VanishingIsClean ==
  ASSUME IInv, [Next]_vars, Vanishes, HasArn
  PROVE  ~iamPolicy.exists
<1>1. resource.finalizer /\ StepsJustified
  BY DEF IInv, ArnJustified
<1>2. LifecycleOutcome(Steps)
  BY <1>1, WhoChangesResource DEF Vanishes
<1>3. worker.pc = "removeFinalizer" /\ resource.spec = worker.obj.spec
  BY <1>1, <1>2 DEF LifecycleOutcome
<1> QED
  BY <1>1, <1>3 DEF StepsJustified, HasArn

(***************************************************************************)
(* A resource that carries an ARN vanishes only once its AWS policy is     *)
(* gone, whatever failed in the finalizer on the way.                      *)
(***************************************************************************)
THEOREM FinalizationIsClean == Spec => FinalizedCleanly
<1>1. IInv /\ [Next]_vars => [Vanishes /\ HasArn => ~iamPolicy.exists]_vars
  BY VanishingIsClean
<1> QED
  BY <1>1, Invariance, PTL DEF Spec, FinalizedCleanly

(***************************************************************************)
(* When "created" is written on a resource, AWS holds a policy that the    *)
(* controller finds equal to the stored spec, although it compared a copy  *)
(* of the spec with an earlier answer of AWS.                              *)
(***************************************************************************)
THEOREM CreatedIsTrue == Spec => OkIsTrue
<1>1. ASSUME IInv, [Next]_vars, BecomesOk
      PROVE  SameOnAws(resource')
  <2>1. resource'.exists
    <3>1. resource' \in Resources(PolicySpecs)
      <4>1. IInv'
        BY <1>1, NextKeeps, StutterKeeps
      <4> QED
        BY <4>1 DEF IInv, TypeOK, ReconcilerTypes
    <3>2. NoResource.status.condition # CrOK
      BY NoResourceFields DEF CrSubmitted, CrOK
    <3> QED
      BY <1>1, <3>1, <3>2, ResourceFields DEF BecomesOk
  <2>2. resource'.status \notin {resource.status, NoStatus}
    BY <1>1, NoResourceFields DEF BecomesOk, CrSubmitted, CrOK
  <2>3. LifecycleOutcome(Steps)
    BY <1>1, <2>1, <2>2, WhoChangesResource
  <2>4. /\ worker.pc = "status" /\ resource'.status = worker.status
        /\ resource'.spec = worker.obj.spec
    BY <1>1, <2>1, <2>3 DEF LifecycleOutcome, BecomesOk
  <2> QED
    BY <1>1, <2>4 DEF IInv, StepsJustified, BecomesOk, SameOnAws
<1>2. IInv /\ [Next]_vars => [BecomesOk => SameOnAws(resource')]_vars
  BY <1>1
<1> QED
  BY <1>2, Invariance, PTL DEF Spec, OkIsTrue

-----------------------------------------------------------------------------
(* The refinement *)

\* What else changes the stored resource: its ARN is recorded, its owner writes
\* its statement or makes it.
Recording ==
    /\ Alive(resource) /\ resource.finalizer /\ iamPolicy.exists
    /\ resource' = [resource EXCEPT !.spec.arn = "arn"]
Rewriting ==
    /\ resource.exists
    /\ \E s \in StatementChoices :
         resource' = [resource EXCEPT !.spec = [resource.spec EXCEPT !.statement = s]]
Creating ==
    /\ ~resource.exists
    /\ \E s \in StatementChoices : resource' = NewResource(ops + 1, PolicySpec("", s))

(* The ARN is recorded for the stored resource, which the worker's copy    *)
(* agrees with.                                                            *)
LEMMA SettingRecords ==
  ASSUME IInv, SetPolicyArnField
  PROVE  resource' = resource \/ Recording
<1> DEFINE new == [resource EXCEPT !.spec.arn = "arn"]
<1>1. PICK applied \in BOOLEAN, ok \in BOOLEAN : Update(new, applied, ok)
  BY DEF SetPolicyArnField
<1>2. Half /\ resource \in Resources(PolicySpecs)
  BY Halves, FieldTypes DEF Half, ReconcilerInv
<1>3. resource.exists => new.deleting = resource.deleting
  <2>1. resource.exists => resource \in StoredResources(PolicySpecs)
    BY <1>2, StoredExists
  <2> QED
    BY <2>1 DEF StoredResources
<1>4. new = [resource EXCEPT !.spec.arn = "arn"]
  OBVIOUS
<1> HIDE DEF new
<1>5. /\ applied => resource.exists /\ Agrees(resource, worker.obj) /\ resource' = Stored(new)
      /\ ~applied => resource' = resource
  BY <1>1, <1>2, UpdateFacts DEF Half
<1>6. Registered(worker.obj) /\ iamPolicy.exists
  BY DEF SetPolicyArnField, IInv, StepsJustified, InRoutine
<1>7. applied => Alive(resource) /\ resource.finalizer /\ resource' = new
  BY <1>3, <1>5, <1>6 DEF Agrees, Registered, Alive, Stored
<1> QED
  BY <1>4, <1>5, <1>6, <1>7 DEF Recording

(* No step changes both the stored resource and the AWS policy.            *)
LEMMA ResourceChanges ==
  ASSUME IInv, [Next]_vars
  PROVE  \/ resource' = resource
         \/ /\ \/ Holding \/ Reporting \/ Releasing
               \/ Recording \/ Rewriting \/ Creating
               \/ Dooming /\ (RequestDeletion \/ worker.pc = "deleteCR")
            /\ iamPolicy' = iamPolicy
<1>1. Half
  BY Halves
<1>2. CASE LifecycleStep /\ UNCHANGED iamVars
  BY <1>1, <1>2, LifecycleChanges DEF Half, iamVars
<1>3. CASE SetPolicyArnField
  BY <1>3, SettingRecords DEF SetPolicyArnField, iamVars
<1>4. CASE RequestDeletion /\ UNCHANGED iamVars
  BY <1>4 DEF RequestDeletion, Dooming, iamVars
<1>5. ASSUME NEW s \in StatementChoices, SetStatement(s)
      PROVE  Rewriting /\ iamPolicy' = iamPolicy
  BY <1>5 DEF SetStatement, ChangeSpec, Rewriting, iamVars
<1>6. ASSUME NEW s \in StatementChoices, CreateResource(PolicySpec("", s)), UNCHANGED iamVars
      PROVE  Creating /\ iamPolicy' = iamPolicy
  BY <1>6 DEF CreateResource, Creating, iamVars
<1>7. CASE UserStep
  BY <1>4, <1>5, <1>6, <1>7 DEF UserStep, Attach, Detach, ActElsewhere
<1>8. CASE RoutineStep
  BY <1>3, <1>8 DEF RoutineStep, AdmissionStep, Admission, GetPolicyARN, CreatePolicy,
     GetStatement, ListPolicyVersions, DeleteOldestPolicyVersion, CreatePolicyVersion, UnchangedCluster
<1>9. CASE FinalizerStep
  BY <1>9 DEF FinalizerStep, NothingToUndo, PolicyExists, ListEntitiesForPolicy,
     DetachRolePolicy, ListVersionsToDelete, DeletePolicyVersion, DeletePolicy, UnchangedCluster
<1>10. CASE InformerStep
  BY <1>10 DEF InformerStep, CacheSync, Enqueue, Crash, Restart
<1>11. CASE UNCHANGED vars
  BY <1>11 DEF vars, reconcilerVars
<1> QED
  BY <1>2, <1>7, <1>8, <1>9, <1>10, <1>11 DEF Next, ReconcilerStep

(* What the others see of these changes.                                   *)
LEMMA SeenChanges ==
  ASSUME NEW r \in Resources(PolicySpecs), r.exists, NEW s
  PROVE  /\ s = [r EXCEPT !.finalizer = TRUE] => Seen(s) = Seen(r) \cup {"held"}
         /\ s = [r EXCEPT !.deleting = TRUE] => Seen(s) = Seen(r) \cup {"deleting"}
         /\ s = [r EXCEPT !.spec.arn = "arn"] => Seen(s) = Seen(r) \cup {"recorded"}
         /\ \A x \in Statuses : s = [r EXCEPT !.status = x] =>
              /\ x.condition = CrOK => Seen(s) = Seen(r) \cup {"ok"}
              /\ x.condition # CrOK => Seen(s) = Seen(r) \ {"ok"}
         /\ \A x \in StatementChoices :
              s = [r EXCEPT !.spec = [r.spec EXCEPT !.statement = x]] => Seen(s) = Seen(r)
<1>1. r.spec \in PolicySpecs /\ r \in StoredResources(PolicySpecs)
  BY StoredExists, ResourceFields
<1>2. ASSUME s = [r EXCEPT !.finalizer = TRUE] PROVE Seen(s) = Seen(r) \cup {"held"}
  <2>1. /\ s.exists /\ s.deleting = r.deleting /\ s.finalizer
        /\ s.spec = r.spec /\ s.status = r.status
    BY <1>2, FinalizerEdit
  <2> QED
    BY <2>1 DEF Seen, Marks
<1>3. ASSUME s = [r EXCEPT !.deleting = TRUE] PROVE Seen(s) = Seen(r) \cup {"deleting"}
  <2>1. /\ s.exists /\ s.deleting /\ s.finalizer = r.finalizer
        /\ s.spec = r.spec /\ s.status = r.status
    BY <1>3, DeletingEdit
  <2> QED
    BY <2>1 DEF Seen, Marks
<1>4. ASSUME s = [r EXCEPT !.spec.arn = "arn"] PROVE Seen(s) = Seen(r) \cup {"recorded"}
  BY <1>1, <1>4 DEF Seen, Marks, StoredResources, PolicySpecs
<1>5. ASSUME NEW x \in Statuses, s = [r EXCEPT !.status = x]
      PROVE  /\ x.condition = CrOK => Seen(s) = Seen(r) \cup {"ok"}
             /\ x.condition # CrOK => Seen(s) = Seen(r) \ {"ok"}
  <2>1. /\ s.exists /\ s.deleting = r.deleting /\ s.finalizer = r.finalizer
        /\ s.spec = r.spec /\ s.status = x
    BY <1>5, StatusEdit
  <2> QED
    BY <2>1 DEF Seen, Marks
<1>6. ASSUME NEW x \in StatementChoices, s = [r EXCEPT !.spec = [r.spec EXCEPT !.statement = x]]
      PROVE  Seen(s) = Seen(r)
  BY <1>1, <1>6 DEF Seen, Marks, StoredResources, PolicySpecs
<1> QED
  BY <1>2, <1>3, <1>4, <1>5, <1>6

(* They see nothing of an absent resource, and of a new one its existence. *)
LEMMA SeenEnds ==
    /\ Seen(NoResource) = {}
    /\ \A uid, s : Seen(NewResource(uid, PolicySpec("", s))) = {"exists"}
<1>1. CrSubmitted # CrOK
  BY DEF CrSubmitted, CrOK
<1>2. Seen(NoResource) = {}
  BY <1>1, NoResourceFields DEF Seen, Marks
<1>3. ASSUME NEW uid, NEW s PROVE Seen(NewResource(uid, PolicySpec("", s))) = {"exists"}
  <2> DEFINE r == NewResource(uid, PolicySpec("", s))
  <2>1. r.exists /\ ~r.deleting /\ ~r.finalizer /\ r.spec.arn = "" /\ r.status = NoStatus
    BY NoResourceFields DEF NewResource, NoResource, PolicySpec
  <2> HIDE DEF r
  <2>2. Seen(r) = {"exists"}
    BY <1>1, <2>1, NoResourceFields DEF Seen, Marks
  <2> QED
    BY <2>2 DEF r
<1> QED
  BY <1>2, <1>3

(* The marks that the refinement asks about.                               *)
LEMMA SeenMarks ==
    /\ "exists" \in Seen(resource) <=> resource.exists
    /\ "held" \in Seen(resource) <=> resource.finalizer
    /\ "deleting" \in Seen(resource) <=> resource.deleting
    /\ "recorded" \in Seen(resource) <=> HasArn
  BY DEF Seen, Marks, HasArn

(* A step that leaves the resource makes the AWS policy while the          *)
(* finalizer holds the resource, or takes it away while no live resource   *)
(* has recorded it.                                                        *)
LEMMA IamStepIsManaged ==
  ASSUME IInv, IInv', [Next]_vars, resource' = resource
  PROVE  [Managed!Next]_(Managed!vars)
<1>1. iamPolicy \in IamPolicies /\ iamPolicy' \in IamPolicies
  BY DEF IInv, TypeOK
<1>2. iamPolicy.exists \in BOOLEAN /\ iamPolicy'.exists \in BOOLEAN
  BY <1>1 DEF IamPolicies
<1>3. Seen(resource)' = Seen(resource)
  BY DEF Seen
<1>4. CASE iamPolicy'.exists = iamPolicy.exists
  BY <1>3, <1>4 DEF Managed!vars
<1>5. CASE ~iamPolicy.exists /\ iamPolicy'.exists
  <2>1. resource.exists /\ resource.finalizer
    BY <1>5, CreatingIsGuarded
  <2> QED
    BY <1>2, <1>3, <1>5, <2>1, SeenMarks DEF Managed!Next, Managed!ReconcilerStep, Managed!Is, Managed!Make
<1>6. CASE iamPolicy.exists /\ ~iamPolicy'.exists
  <2>1. HasArn => resource.deleting
    BY <1>6 DEF IInv, ArnJustified, ArnIsReal, HasArn
  <2> QED
    BY <1>2, <1>3, <1>6, <2>1, SeenMarks DEF Managed!Next, Managed!ReconcilerStep, Managed!Is, Managed!Undo
<1> QED
  BY <1>2, <1>4, <1>5, <1>6

(* A change of the stored resource is one of those the others count on.    *)
LEMMA ResourceStepIsManaged ==
  ASSUME IInv, iamPolicy' = iamPolicy,
         Holding \/ Reporting \/ Dooming \/ Releasing \/ Recording \/ Rewriting \/ Creating
  PROVE  [Managed!Next]_(Managed!vars)
<1>1. /\ resource \in Resources(PolicySpecs) /\ worker.status \in Statuses
      /\ iamPolicy'.exists = iamPolicy.exists /\ StepsJustified /\ ArnJustified
  BY Halves, FieldTypes DEF Half, ReconcilerInv
<1>2. CASE Holding
  <2>1. Seen(resource)' = Seen(resource) \cup {"held"} /\ resource.exists /\ ~resource.deleting
    BY <1>1, <1>2, SeenChanges DEF Holding, Alive
  <2> QED
    BY <1>1, <2>1, SeenMarks DEF Managed!Next, Managed!ReconcilerStep, Managed!Is, Managed!Hold
<1>3. CASE Reporting
  <2>1. /\ resource.exists /\ Agrees(resource, worker.obj) /\ worker.pc = "status"
        /\ worker.status.condition = CrOK => Seen(resource)' = Seen(resource) \cup {"ok"}
        /\ worker.status.condition # CrOK => Seen(resource)' = Seen(resource) \ {"ok"}
    BY <1>1, <1>3, SeenChanges DEF Reporting
  <2>2. CASE worker.status.condition = CrOK
    <3>1. Registered(worker.obj) /\ worker.obj.spec.arn # ""
      BY <1>1, <2>1, <2>2 DEF StepsJustified
    <3>2. resource.exists /\ resource.finalizer /\ ~resource.deleting /\ HasArn
      BY <2>1, <3>1 DEF Agrees, Registered, HasArn
    <3> QED
      BY <1>1, <2>1, <2>2, <3>2, SeenMarks
         DEF Managed!Next, Managed!ReconcilerStep, Managed!Is, Managed!Report, Managed!Kept
  <2>3. CASE worker.status.condition # CrOK
    BY <1>1, <2>1, <2>3 DEF Managed!Next, Managed!ReconcilerStep, Managed!Is, Managed!Falter
  <2> QED
    BY <2>2, <2>3
<1>4. CASE Dooming
  <2>1. resource.exists /\ resource' = Deleted(resource)
    BY <1>4 DEF Dooming
  <2>2. Seen(resource)' = IF resource.finalizer THEN Seen(resource) \cup {"deleting"} ELSE {}
    BY <1>1, <2>1, SeenChanges, SeenEnds DEF Deleted
  <2> QED
    BY <1>1, <2>1, <2>2, SeenMarks
       DEF Managed!Next, Managed!OthersStep, Managed!Is, Managed!Doom, Managed!Absent
<1>5. CASE Releasing
  <2>1. /\ Seen(resource)' = {} /\ resource.deleting
        /\ worker.pc = "removeFinalizer" /\ Agrees(resource, worker.obj)
    BY <1>5, SeenEnds DEF Releasing
  <2>2. ~(HasArn /\ iamPolicy.exists)
    BY <1>1, <2>1 DEF StepsJustified, Agrees, HasArn
  <2> QED
    BY <1>1, <2>1, <2>2, SeenMarks
       DEF Managed!Next, Managed!ReconcilerStep, Managed!Is, Managed!Release, Managed!Absent
<1>6. CASE Recording
  <2>1. /\ Seen(resource)' = Seen(resource) \cup {"recorded"} /\ iamPolicy.exists
        /\ resource.exists /\ resource.finalizer /\ ~resource.deleting
    BY <1>1, <1>6, SeenChanges DEF Recording, Alive
  <2> QED
    BY <1>1, <2>1, SeenMarks
       DEF Managed!Next, Managed!ReconcilerStep, Managed!Is, Managed!Record, Managed!Kept
<1>7. CASE Rewriting
  <2>1. Seen(resource)' = Seen(resource)
    BY <1>1, <1>7, SeenChanges DEF Rewriting
  <2> QED
    BY <1>1, <2>1 DEF Managed!vars
<1>8. CASE Creating
  <2>1. Seen(resource)' = {"exists"} /\ ~resource.exists
    BY <1>8, SeenEnds DEF Creating
  <2> QED
    BY <1>1, <2>1, SeenMarks DEF Managed!Next, Managed!OthersStep, Managed!Is, Managed!Appear
<1> QED
  BY <1>2, <1>3, <1>4, <1>5, <1>6, <1>7, <1>8

(***************************************************************************)
(* The Policy reconciler implements ManagedResource: with its cache, its   *)
(* queue, its lost calls and its crashes, it takes no step on the Policy   *)
(* and on the AWS policy that the other controllers do not count on.       *)
(***************************************************************************)
THEOREM Refinement == Spec => IsManaged
<1>1. Init => Managed!Init
  <2> SUFFICES ASSUME Init PROVE Managed!Init
    OBVIOUS
  <2>1. resource = NoResource /\ iamPolicy = NoIamPolicy
    BY DEF Init, InitReconciler
  <2>2. Seen(resource) = {}
    BY <2>1, SeenEnds
  <2>3. iamPolicy.exists = FALSE
    BY <2>1 DEF NoIamPolicy
  <2> QED
    BY <2>2, <2>3 DEF Managed!Init, Managed!Absent
<1>2. IInv /\ IInv' /\ [Next]_vars => [Managed!Next]_(Managed!vars)
  BY ResourceChanges, IamStepIsManaged, ResourceStepIsManaged
<1> QED
  BY <1>1, <1>2, Invariance, PTL DEF Spec, IsManaged, Managed!Spec

=============================================================================
