--------------------------- MODULE PolicyRestProofs ---------------------------
(***************************************************************************)
(* What a worker that acts on late copies leaves behind.                   *)
(*                                                                         *)
(* Nothing is forgotten.  NothingForgotten says that a late worker will be *)
(* followed by another one, and that the status that ends a reconciliation *)
(* without a retry makes a new version of the resource, which brings an    *)
(* event.  So the last reconciliation of all had the stored resource,      *)
(* found it the same on AWS, and had nothing to say.  When it ignored that *)
(* an update failed (dropped), the worker could not tell whether its copy  *)
(* was late, and the resource may keep a status that is no longer true.    *)
(*                                                                         *)
(* No deletion is forgotten, even then: a finalizer comes back until it is *)
(* through (DeletionPursued), so what is at rest is not being deleted.     *)
(*                                                                         *)
(* An update finds room for the version it makes (RoomIsMade).             *)
(*                                                                         *)
(* And nobody else is hit.  TargetInv says that the delete by name is on   *)
(* its way only while what it is meant for is still stored.  What the      *)
(* cache shows of the AWS policy is true, or harmless (ShownInv), and so   *)
(* those who attach it can count on what PolicyOnAws promises.             *)
(***************************************************************************)
EXTENDS PolicyControllerProofs

USE DEF UpdateSteps, FinalizerSteps

-----------------------------------------------------------------------------
(* The calls to AWS *)

(* The worker calls AWS and goes on or returns.  It returns only when it   *)
(* has found its copy the same on AWS with nothing to say, and its last    *)
(* word is something new about its copy, which is not to be deleted.       *)
QuietStep ==
    /\ Busy /\ UnchangedCluster /\ MovesOn(PolicySpecs, Steps, Items) /\ (queued => queued')
    /\ worker'.pc = "setArn" => worker.obj.spec.arn = ""
    /\ LastWord' => worker'.status # worker.obj.status /\ ~worker.obj.deleting
    /\ worker' = Idle =>
         /\ Alive(worker.obj) /\ worker.obj.status.condition = CrOK
         /\ worker.obj.spec.arn # "" /\ SameOnAws(worker.obj) /\ iamPolicy' = iamPolicy

(* The steps and the reasons of the errors. *)
LEMMA PolicyNames ==
    /\ \A pc \in {"setArn", "create", "update", "trim", "newVersion", "removeFinalizer",
                   "list", "deleteCR", "delete", "deletePolicy"} :
         pc \in CommonSteps \cup Steps /\ pc \notin {"idle", "status"}
    /\ \A reason \in {"passed validation", "invalid", "policy created", "policy updated",
                       "create failed", "get failed", "update failed", "delete failed"} :
         reason \in Reasons
<1>1. \A pc \in {"setArn", "create", "update", "trim", "newVersion", "removeFinalizer",
                "list", "deleteCR", "delete", "deletePolicy"} :
        pc \in CommonSteps \cup Steps /\ pc \notin {"idle", "status"}
  BY DEF CommonSteps, Steps
<1>2. \A reason \in {"passed validation", "invalid", "policy created", "policy updated",
                     "create failed", "get failed", "update failed", "delete failed"} :
        reason \in Reasons
  BY DEF Reasons
<1> QED
  BY <1>1, <1>2

(* Going to another step is quiet. *)
LEMMA GotoIsQuiet ==
  ASSUME IInv, Busy, UnchangedCluster, NEW pc \in CommonSteps \cup Steps,
         pc \notin {"idle", "status"}, Goto(pc),
         pc = "setArn" => worker.obj.spec.arn = ""
  PROVE  QuietStep
<1>1. /\ MovesOn(PolicySpecs, Steps, Items) /\ worker'.pc = pc /\ worker'.obj = worker.obj
      /\ queued' = queued
  BY OwnSteps, GotoMoves DEF Goto
<1> QED
  BY <1>1, IdleType DEF QuietStep, LastWord

(* So is a report that is retried, or that is new. *)
LEMMA ReportIsQuiet ==
  ASSUME IInv, Busy, UnchangedCluster, NEW status \in Statuses,
         NEW next \in {"return", "requeue", "ifFailed"}, Report(status, next),
         next = "requeue" \/ (status # worker.obj.status /\ ~worker.obj.deleting)
  PROVE  QuietStep
<1>1. next \in Steps \cup {"return", "requeue", "ifFailed", "deleteCR"}
  OBVIOUS
<1>2. /\ MovesOn(PolicySpecs, Steps, Items)
      /\ worker'.pc = "status" /\ worker'.status = status /\ worker'.next = next
      /\ queued' = queued
  BY <1>1, OwnSteps, ReportMoves DEF Report
<1> QED
  BY <1>2, IdleType DEF QuietStep, LastWord

(* And an error is retried. *)
LEMMA FailIsQuiet ==
  ASSUME IInv, Busy, UnchangedCluster, NEW reason \in Reasons, Fail(reason)
  PROVE  QuietStep
<1>1. Error(reason) \in Statuses /\ Report(Error(reason), "requeue")
  BY StatusTypes DEF Fail
<1> QED
  BY <1>1, ReportIsQuiet

(* The routine does not lead to the finalizer. *)
LEMMA RoutineStaysOut ==
  ASSUME IInv, RoutineStep
  PROVE  Busy /\ ~worker.obj.deleting
<1>1. worker.pc \in {"got", "create", "setArn", "update", "trim", "newVersion"}
  BY DEF RoutineStep, AdmissionStep, Admission, GetPolicyARN, CreatePolicy, SetPolicyArnField,
     GetStatement, ListPolicyVersions, DeleteOldestPolicyVersion, CreatePolicyVersion
<1>2. worker.pc = "got" => Registered(worker.obj)
  BY DEF RoutineStep, AdmissionStep, Admission, GetPolicyARN, CreatePolicy, SetPolicyArnField,
     GetStatement, ListPolicyVersions, DeleteOldestPolicyVersion, CreatePolicyVersion, InRoutine
<1>3. worker.pc # "got" => InRoutine(worker.obj)
  BY <1>1 DEF IInv, StepsJustified
<1> QED
  BY <1>1, <1>2, <1>3 DEF Busy, InRoutine, Registered

(* reconcilerRoutine, but for the update of the ARN. *)
LEMMA RoutineIsQuiet ==
  ASSUME IInv, RoutineStep, ~SetPolicyArnField
  PROVE  QuietStep
<1>1. CASE AdmissionStep
  <2>1. /\ Busy /\ UnchangedCluster /\ worker.obj.status.condition = CrSubmitted
        /\ Report(Progress("passed validation"), "ifFailed") \/ Report(Error("invalid"), "ifFailed")
    BY <1>1 DEF AdmissionStep, Admission, Busy
  <2>2. /\ Progress("passed validation") \in Statuses /\ Error("invalid") \in Statuses
        /\ Progress("passed validation").condition = CrProgressing
        /\ Error("invalid").condition = CrError
    BY PolicyNames, StatusTypes
  <2>3. CrSubmitted # CrProgressing /\ CrSubmitted # CrError
    BY DEF CrSubmitted, CrProgressing, CrError
  <2> QED
    BY <2>1, <2>2, <2>3, RoutineStaysOut, ReportIsQuiet
<1>2. CASE GetPolicyARN
  <2>1. /\ Busy /\ UnchangedCluster /\ worker.obj.spec.arn = ""
        /\ Goto("setArn") \/ Goto("create")
    BY <1>2 DEF GetPolicyARN, Busy
  <2> QED
    BY <2>1, PolicyNames, GotoIsQuiet
<1>3. CASE CreatePolicy
  <2>1. /\ Busy /\ UnchangedCluster
        /\ Report(Progress("policy created"), "requeue") \/ Fail("create failed")
    BY <1>3 DEF CreatePolicy, Busy
  <2>2. Progress("policy created") \in Statuses /\ "create failed" \in Reasons
    BY PolicyNames, StatusTypes
  <2> QED
    BY <2>1, <2>2, ReportIsQuiet, FailIsQuiet
<1>4. CASE GetStatement
  <2>1. /\ Busy /\ UnchangedCluster /\ iamPolicy' = iamPolicy
        /\ InRoutine(worker.obj) /\ worker.obj.spec.arn # "" /\ worker.obj.exists
        /\ \/ Fail("get failed")
           \/ Goto("update")
           \/ NeedsOk(worker.obj) /\ Report(AllDone, "return")
           \/ SameOnAws(worker.obj) /\ ~NeedsOk(worker.obj) /\ Return(FALSE)
    BY <1>4, OwnSteps DEF GetStatement, Busy, iamVars
  <2>2. CASE Fail("get failed")
    BY <2>1, <2>2, PolicyNames, FailIsQuiet
  <2>3. CASE Goto("update")
    BY <2>1, <2>3, PolicyNames, GotoIsQuiet
  <2>4. CASE NeedsOk(worker.obj) /\ Report(AllDone, "return")
    <3>1. AllDone \in Statuses /\ AllDone.condition = CrOK
      BY StatusTypes DEF AllDone, NewStatus
    <3> QED
      BY <2>1, <2>4, <3>1, RoutineStaysOut, ReportIsQuiet DEF NeedsOk
  <2>5. CASE SameOnAws(worker.obj) /\ ~NeedsOk(worker.obj) /\ Return(FALSE)
    <3>1. MovesOn(PolicySpecs, Steps, Items) /\ worker' = Idle /\ (queued => queued')
      BY <2>5, OwnSteps, ReturnMoves DEF Return
    <3>2. worker'.pc = "idle"
      BY <3>1, IdleType
    <3> QED
      BY <2>1, <2>5, <3>1, <3>2 DEF QuietStep, LastWord, NeedsOk, InRoutine, Registered, Alive
  <2> QED
    BY <2>1, <2>2, <2>3, <2>4, <2>5
<1>5. CASE ListPolicyVersions
  <2>1. /\ Busy /\ UnchangedCluster
        /\ Fail("update failed") \/ Goto("trim") \/ Goto("newVersion")
    BY <1>5 DEF ListPolicyVersions, Busy
  <2> QED
    BY <2>1, PolicyNames, GotoIsQuiet, FailIsQuiet
<1>6. CASE DeleteOldestPolicyVersion
  <2>1. Busy /\ UnchangedCluster /\ (Goto("newVersion") \/ Fail("update failed"))
    BY <1>6 DEF DeleteOldestPolicyVersion, Busy
  <2> QED
    BY <2>1, PolicyNames, GotoIsQuiet, FailIsQuiet
<1>7. CASE CreatePolicyVersion
  <2>1. /\ Busy /\ UnchangedCluster
        /\ Report(Progress("policy updated"), "requeue") \/ Fail("update failed")
    BY <1>7 DEF CreatePolicyVersion, Busy
  <2>2. Progress("policy updated") \in Statuses /\ "update failed" \in Reasons
    BY PolicyNames, StatusTypes
  <2> QED
    BY <2>1, <2>2, ReportIsQuiet, FailIsQuiet
<1> QED
  BY <1>1, <1>2, <1>3, <1>4, <1>5, <1>6, <1>7 DEF RoutineStep

(* The finalizer. *)
LEMMA FinalizerIsQuiet ==
  ASSUME IInv, FinalizerStep
  PROVE  QuietStep
<1>1. ASSUME Busy, UnchangedCluster,
             \/ Fail("delete failed")
             \/ \E pc \in {"removeFinalizer", "list", "deleteCR", "delete", "deletePolicy"} : Goto(pc)
      PROVE  QuietStep
  <2>1. CASE Fail("delete failed")
    BY <1>1, <2>1, PolicyNames, FailIsQuiet
  <2>2. ASSUME NEW pc \in {"removeFinalizer", "list", "deleteCR", "delete", "deletePolicy"}, Goto(pc)
        PROVE  QuietStep
    <3>1. pc \in CommonSteps \cup Steps /\ pc \notin {"idle", "status"} /\ pc # "setArn"
      BY PolicyNames
    <3> QED
      BY <1>1, <2>2, <3>1, GotoIsQuiet
  <2> QED
    BY <1>1, <2>1, <2>2
<1>2. ASSUME Busy, UnchangedCluster, queued' = queued,
             NEW pc \in FinalizerSteps, NEW todo \in SUBSET Items,
             worker' = [worker EXCEPT !.pc = pc, !.todo = todo]
      PROVE  QuietStep
  <2>1. worker \in Workers(PolicySpecs, Steps, Items) /\ queued \in BOOLEAN
    BY OwnSteps DEF ReconcilerTypes
  <2>2. worker' \in Workers(PolicySpecs, Steps, Items) /\ worker'.pc = pc /\ worker'.obj = worker.obj
    BY <1>2, <2>1 DEF Workers, Steps
  <2>3. MovesOn(PolicySpecs, Steps, Items)
    BY <1>2, <2>1, <2>2 DEF MovesOn
  <2> QED
    BY <1>2, <2>2, <2>3, IdleType DEF QuietStep, LastWord
<1>3. IamTypes
  BY Halves
<1>4. CASE NothingToUndo
  BY <1>1, <1>4 DEF NothingToUndo, Busy
<1>5. CASE PolicyExists
  BY <1>1, <1>5 DEF PolicyExists, Busy
<1>6. CASE ListEntitiesForPolicy
  <2>1. AttachedRoles \in SUBSET Items
    BY DEF AttachedRoles, Items
  <2>2. /\ Busy /\ UnchangedCluster
        /\ \/ Goto("deleteCR") \/ Goto("delete") \/ Fail("delete failed")
           \/ worker' = [worker EXCEPT !.pc = "detach", !.todo = AttachedRoles] /\ queued' = queued
    BY <1>6 DEF ListEntitiesForPolicy, Busy
  <2> QED
    BY <1>1, <1>2, <2>1, <2>2
<1>7. CASE DetachRolePolicy
  <2>1. /\ Busy /\ UnchangedCluster
        /\ \/ worker' = [worker EXCEPT !.pc = "delete", !.todo = {}] /\ queued' = queued
           \/ Fail("delete failed")
    BY <1>7 DEF DetachRolePolicy, Busy
  <2> QED
    BY <1>1, <1>2, <2>1
<1>8. CASE ListVersionsToDelete
  <2>1. OldVersions \in SUBSET Items
    BY <1>3, VersionRange DEF OldVersions, Items, IamTypes, IamPolicies
  <2>2. /\ Busy /\ UnchangedCluster
        /\ \/ Goto("deleteCR") \/ Goto("deletePolicy") \/ Fail("delete failed")
           \/ worker' = [worker EXCEPT !.pc = "purge", !.todo = OldVersions] /\ queued' = queued
    BY <1>8 DEF ListVersionsToDelete, Busy
  <2> QED
    BY <1>1, <1>2, <2>1, <2>2
<1>9. CASE DeletePolicyVersion
  <2>1. PICK version \in worker.todo :
          worker' = [worker EXCEPT !.todo = @ \ {version},
                                   !.pc = IF worker.todo = {version} THEN "deletePolicy" ELSE @]
    BY <1>9 DEF DeletePolicyVersion
  <2> DEFINE pc == IF worker.todo = {version} THEN "deletePolicy" ELSE "purge"
             todo == worker.todo \ {version}
  <2>2. worker.pc = "purge" /\ Busy /\ UnchangedCluster /\ queued' = queued
    BY <1>9 DEF DeletePolicyVersion, Busy
  <2>3. worker.todo \in SUBSET Items
    BY OwnSteps DEF ReconcilerTypes, Workers
  <2>4. pc \in FinalizerSteps /\ todo \in SUBSET Items
    BY <2>3
  <2>5. worker' = [worker EXCEPT !.pc = pc, !.todo = todo]
    <3>1. worker \in Workers(PolicySpecs, Steps, Items)
      BY OwnSteps DEF ReconcilerTypes
    <3> QED
      BY <2>1, <2>2, <3>1 DEF Workers
  <2> HIDE DEF pc, todo
  <2> QED
    BY <1>2, <2>2, <2>4, <2>5
<1>10. CASE DeletePolicy
  BY <1>1, <1>10 DEF DeletePolicy, Busy
<1> QED
  BY <1>4, <1>5, <1>6, <1>7, <1>8, <1>9, <1>10 DEF FinalizerStep

-----------------------------------------------------------------------------
(* What pursues a deletion *)

(* A quiet step does not forget the deletion its worker knows of. *)
LEMMA QuietStepPursues ==
  ASSUME IInv, DeletionPursued, QuietStep
  PROVE  DeletionPursued'
<1>1. /\ ReconcilerInv(PolicySpecs, Steps, Items) /\ Busy
      /\ MovesOn(PolicySpecs, Steps, Items) /\ UnchangedCluster /\ (queued => queued')
      /\ worker' = Idle => ~worker.obj.deleting
      /\ LastWord' => ~worker.obj.deleting
  BY Halves DEF Half, QuietStep, Alive
<1> QED
  BY <1>1, MovingPursues

(* The ARN is set in a live copy. *)
LEMMA SettingStaysLive ==
  ASSUME IInv, SetPolicyArnField
  PROVE  ~worker'.obj.deleting
<1> DEFINE new == [resource EXCEPT !.spec.arn = "arn"]
<1>1. PICK applied \in BOOLEAN, ok \in BOOLEAN :
        /\ Update(new, applied, ok)
        /\ worker' = [worker EXCEPT !.pc = "status", !.next = "return",
                                    !.obj = IF ok THEN resource' ELSE @,
                                    !.status = Progress("policy found")]
  BY DEF SetPolicyArnField
<1>2. Half /\ ~worker.obj.deleting
  <2>1. RoutineStep
    BY DEF RoutineStep
  <2> QED
    BY <2>1, Halves, RoutineStaysOut
<1>3. worker \in Workers(PolicySpecs, Steps, Items) /\ resource \in Resources(PolicySpecs)
  BY OwnSteps, FieldTypes DEF ReconcilerTypes
<1>4. worker'.obj = IF ok THEN resource' ELSE worker.obj
  BY <1>1, <1>3 DEF Workers
<1>5. resource.exists => new.deleting = resource.deleting
  <2>1. resource.exists => resource \in StoredResources(PolicySpecs)
    BY <1>3, StoredExists
  <2> QED
    BY <2>1 DEF StoredResources, PolicySpecs
<1> HIDE DEF new
<1>6. /\ ok => applied
      /\ applied => resource.exists /\ Agrees(resource, worker.obj) /\ resource' = Stored(new)
  BY <1>1, <1>2, UpdateFacts DEF Half
<1> QED
  BY <1>2, <1>4, <1>5, <1>6 DEF Stored, Agrees

(* And so it does not forget a deletion. *)
LEMMA SettingPursues ==
  ASSUME IInv, DeletionPursued, SetPolicyArnField
  PROVE  DeletionPursued'
<1> DEFINE new == [resource EXCEPT !.spec.arn = "arn"]
<1>1. PICK applied \in BOOLEAN, ok \in BOOLEAN :
        /\ Update(new, applied, ok)
        /\ worker' = [worker EXCEPT !.pc = "status", !.next = "return",
                                    !.obj = IF ok THEN resource' ELSE @,
                                    !.status = Progress("policy found")]
        /\ HoldUpdated(ok)
  BY DEF SetPolicyArnField
<1>2. Half /\ Busy /\ queued' = queued /\ ~worker.obj.deleting
  <2>1. RoutineStep
    BY DEF RoutineStep
  <2> QED
    BY <2>1, Halves, RoutineStaysOut DEF SetPolicyArnField
<1>3. worker \in Workers(PolicySpecs, Steps, Items)
  BY OwnSteps DEF ReconcilerTypes
<1>4. worker'.pc = "status" /\ worker'.obj = IF ok THEN resource' ELSE worker.obj
  BY <1>1, <1>3 DEF Workers
<1> HIDE DEF new
<1>5. ~worker'.obj.deleting
  BY SettingStaysLive
<1> QED
  BY <1>1, <1>2, <1>5, UpdatingStirs, LivePursues

(* The finalizer too is registered in a live copy. *)
LEMMA RegisteringStaysLive ==
  ASSUME IInv, RegisterFinalizer
  PROVE  \/ worker' = [worker EXCEPT !.obj = resource'] /\ ~resource'.deleting
         \/ worker' = Idle
<1> DEFINE new == [resource EXCEPT !.finalizer = TRUE]
<1>1. PICK applied \in BOOLEAN, ok \in BOOLEAN :
        /\ Update(new, applied, ok)
        /\ IF ok THEN worker' = [worker EXCEPT !.obj = resource'] ELSE Return(TRUE)
  BY DEF RegisterFinalizer
<1>2. Half /\ ~worker.obj.deleting /\ resource \in Resources(PolicySpecs)
  BY Halves, OwnSteps, FieldTypes DEF RegisterFinalizer
<1>3. new = [resource EXCEPT !.finalizer = TRUE]
  OBVIOUS
<1> HIDE DEF new
<1>4. /\ ok => applied
      /\ applied => resource.exists /\ Agrees(resource, worker.obj) /\ resource' = Stored(new)
  BY <1>1, <1>2, UpdateFacts DEF Half
<1>5. resource.exists => new.deleting = resource.deleting
  BY <1>2, <1>3, FinalizerEdit
<1>6. ok => ~resource'.deleting
  BY <1>2, <1>4, <1>5 DEF Stored, Agrees
<1> QED
  BY <1>1, <1>6 DEF Return

(* Every step keeps DeletionPursued. *)
LEMMA NextPursues ==
  ASSUME IInv, DeletionPursued, [Next]_vars
  PROVE  DeletionPursued'
<1>1. ReconcilerInv(PolicySpecs, Steps, Items)
  BY Halves DEF Half
<1>2. CASE LifecycleStep
  BY <1>1, <1>2, LifecyclePursues
<1>3. CASE RoutineStep
  BY <1>3, SettingPursues, RoutineIsQuiet, QuietStepPursues
<1>4. CASE FinalizerStep
  BY <1>4, FinalizerIsQuiet, QuietStepPursues
<1>5. CASE InformerStep
  BY <1>1, <1>5, InformingPursues DEF InformerStep, Crash
<1>6. CASE UserStep
  <2>1. /\ worker' = worker /\ UNCHANGED <<event, queued>>
        /\ holders' = {} \/ UNCHANGED <<resource, holders>>
    BY <1>6 DEF UserStep, SetStatement, ChangeSpec, CreateResource, RequestDeletion, Attach, Detach,
       ActElsewhere, Act
  <2> QED
    BY <2>1, OthersPursue DEF Stirring
<1>7. CASE UNCHANGED vars
  <2>1. UNCHANGED <<resource, holders, event, queued, worker>>
    BY <1>7 DEF vars, reconcilerVars
  <2> QED
    BY <2>1, OthersPursue DEF Stirring
<1> QED
  BY <1>2, <1>3, <1>4, <1>5, <1>6, <1>7 DEF Next, ReconcilerStep

(***************************************************************************)
(* A Policy that is to be deleted has a worker that knows of it, or will   *)
(* have one, whatever calls fail and wherever the process stops: so none   *)
(* is left half deleted at rest.                                           *)
(***************************************************************************)
THEOREM DeletionIsPursued == Spec => []DeletionPursued
<1>1. IInv /\ DeletionPursued /\ [Next]_vars => DeletionPursued'
  BY NextPursues
<1>2. Init => DeletionPursued
  BY InitPursues DEF Init
<1> QED
  BY <1>1, <1>2, Invariance, PTL DEF Spec

-----------------------------------------------------------------------------
(* What keeps NothingForgotten *)

(* While something stirs, nothing is forgotten yet. *)
LEMMA StirringRemembers ==
  ASSUME LateIsWoken', Stirring', worker'.pc = "setArn" => worker'.obj.spec.arn = ""
  PROVE  NothingForgotten'
  BY DEF NothingForgotten, LastWordIsNew, RestsConverged, Quiescent, Stirring

(* Nor is it after an ignored failure, as long as no deletion is.          *)
LEMMA DroppedRemembers ==
  ASSUME LateIsWoken', DeletionPursued', dropped', worker'.pc = "setArn" => worker'.obj.spec.arn = ""
  PROVE  NothingForgotten'
<1>1. Quiescent' => ~resource'.deleting
  BY DEF DeletionPursued, Quiescent, Stirring, Busy
<1> QED
  BY <1>1 DEF NothingForgotten, RestsConverged, Alive

(* Nor is it when no resource is left, and no worker. *)
LEMMA NothingLeftToForget ==
  ASSUME LateIsWoken', worker' = Idle, ~resource'.exists
  PROVE  NothingForgotten'
<1>1. worker'.pc = "idle"
  BY IdleType
<1> QED
  BY <1>1 DEF NothingForgotten, LastWordIsNew, LastWord, RestsConverged

(* A quiet step: when nothing stirs after it, the worker has had the       *)
(* stored resource all the time.                                           *)
LEMMA QuietStepRemembers ==
  ASSUME IInv, NothingForgotten, DeletionPursued', QuietStep
  PROVE  NothingForgotten'
<1>1. /\ ReconcilerInv(PolicySpecs, Steps, Items) /\ LateIsWoken /\ Busy
      /\ MovesOn(PolicySpecs, Steps, Items) /\ UnchangedCluster /\ (queued => queued')
  BY Halves DEF Half, NothingForgotten, QuietStep
<1>2. LateIsWoken' /\ KeepsStirring
  BY <1>1, MovingWakes
<1>3. worker'.pc = "setArn" => worker'.obj.spec.arn = ""
  BY <1>1, IdleType DEF MovesOn, QuietStep
<1>4. CASE Stirring' \/ dropped'
  BY <1>2, <1>3, <1>4, StirringRemembers, DroppedRemembers
<1>5. CASE ~Stirring' /\ ~dropped'
  <2>0. dropped' = dropped
    BY <1>1 DEF UnchangedCluster
  <2>1. resource' = resource /\ worker.obj = resource
    BY <1>1, <1>2, <1>5, <2>0, StillWorkerHolds
  <2>2. LastWordIsNew'
    BY <2>1 DEF LastWordIsNew, QuietStep
  <2>3. ASSUME Quiescent' PROVE Alive(resource') /\ Converged'
    <3>1. worker' = Idle
      BY <1>1, <2>3 DEF MovesOn, Quiescent
    <3> QED
      BY <2>1, <3>1 DEF QuietStep, Converged, SameOnAws
  <2> QED
    BY <1>2, <1>3, <2>2, <2>3 DEF NothingForgotten, RestsConverged, Alive
<1> QED
  BY <1>4, <1>5

(* The ARN is set once: its update makes a new version, or is a conflict   *)
(* with one.                                                               *)
LEMMA SettingRemembers ==
  ASSUME IInv, NothingForgotten, DeletionPursued', SetPolicyArnField
  PROVE  NothingForgotten'
<1> DEFINE new == [resource EXCEPT !.spec.arn = "arn"]
<1>1. PICK applied \in BOOLEAN, ok \in BOOLEAN :
        /\ Update(new, applied, ok)
        /\ worker' = [worker EXCEPT !.pc = "status", !.next = "return",
                                    !.obj = IF ok THEN resource' ELSE @,
                                    !.status = Progress("policy found")]
        /\ HoldUpdated(ok) /\ Ignored
  BY DEF SetPolicyArnField
<1>2. /\ Half /\ Busy /\ LateIsWoken /\ queued' = queued /\ worker.obj.spec.arn = ""
      /\ Registered(worker.obj)
  BY Halves DEF SetPolicyArnField, Busy, NothingForgotten, StepsJustified, InRoutine
<1>3. /\ worker \in Workers(PolicySpecs, Steps, Items) /\ resource \in Resources(PolicySpecs)
  BY OwnSteps, <1>2, FieldTypes DEF ReconcilerTypes
<1>4. worker'.pc = "status" /\ (ok => worker'.obj = resource')
  BY <1>1, <1>3 DEF Workers
<1>5. resource.exists => /\ new.deleting = resource.deleting
                         /\ new.spec.arn = "arn"
  <2>1. resource.exists => resource \in StoredResources(PolicySpecs)
    BY <1>3, StoredExists
  <2> QED
    BY <2>1 DEF StoredResources, PolicySpecs
<1> HIDE DEF new
<1>6. /\ ok => applied
      /\ applied => resource.exists /\ Agrees(resource, worker.obj) /\ resource' = Stored(new)
  BY <1>1, <1>2, UpdateFacts DEF Half
<1>7. /\ LateIsWoken' /\ KeepsStirring
      /\ ~dropped' /\ ~Stirring' => ok
  BY <1>1, <1>2, <1>4, UpdatingWakes DEF Half
<1>8. ASSUME ~Stirring', ~dropped' PROVE FALSE
  <2>0. ~dropped
    BY <1>1, <1>8, Zenon DEF Ignored
  <2>1. resource' = resource /\ worker.obj = resource
    BY <1>2, <1>7, <1>8, <2>0, StillWorkerHolds
  <2>2. resource' = new
    BY <1>2, <1>5, <1>6, <1>7, <1>8 DEF Stored, Agrees, Registered
  <2> QED
    BY <1>2, <1>5, <1>6, <1>7, <1>8, <2>1, <2>2
<1> QED
  BY <1>4, <1>7, <1>8, StirringRemembers, DroppedRemembers

(* The common steps: a last word that says nothing new about the stored    *)
(* resource is never left to say.                                          *)
LEMMA LifecycleRemembers ==
  ASSUME IInv, NothingForgotten, DeletionPursued', LifecycleStep
  PROVE  NothingForgotten'
<1>1. /\ ReconcilerInv(PolicySpecs, Steps, Items) /\ LateIsWoken /\ (~dropped => LastWordIsNew)
      /\ worker.pc = "status" => worker.next \in {"return", "requeue", "ifFailed"}
  BY Halves DEF Half, NothingForgotten, StepsJustified
<1>2. /\ LateIsWoken'
      /\ \/ worker' = Idle
         \/ worker'.pc \in {"got", "removeFinalizer"}
         \/ worker.pc = "status" /\ worker.next \in Steps \cup {"deleteCR"}
      /\ Busy => (dropped => dropped')
      /\ worker' = Idle /\ ~Stirring' /\ ~dropped' =>
           \/ ~resource'.exists
           \/ LastWord /\ ~Stirring /\ resource' = resource /\ worker.status = resource.status
  BY <1>1, LifecycleWakes
<1>3. worker' = Idle \/ worker'.pc \in {"got", "removeFinalizer"}
  <2>1. {"return", "requeue", "ifFailed"} \cap (Steps \cup {"deleteCR"}) = {}
    BY DEF Steps
  <2> QED
    BY <1>1, <1>2, <2>1
<1>4. CASE worker'.pc \in {"got", "removeFinalizer"}
  BY <1>2, <1>4 DEF NothingForgotten, LastWordIsNew, LastWord, RestsConverged, Quiescent
<1>5. CASE worker' = Idle
  <2>1. worker'.pc = "idle"
    BY <1>5, IdleType
  <2>2. Stirring' \/ dropped' \/ ~resource'.exists
    <3>1. LastWord => Busy
      BY DEF LastWord, Busy
    <3> QED
      BY <1>1, <1>2, <1>5, <3>1 DEF LastWordIsNew
  <2> QED
    BY <1>2, <1>5, <2>1, <2>2, StirringRemembers, DroppedRemembers, NothingLeftToForget
<1> QED
  BY <1>3, <1>4, <1>5

(* The informer and the process stir, unless there is nothing to find. *)
LEMMA InformerRemembers ==
  ASSUME NothingForgotten, InformerStep
  PROVE  NothingForgotten'
<1>1. CASE CacheSync \/ Enqueue
  <2>1. LateIsWoken' /\ Stirring' /\ UNCHANGED <<resource, worker>>
    BY <1>1, InformingWakes DEF NothingForgotten
  <2> QED
    BY <2>1, StirringRemembers DEF NothingForgotten
<1>2. CASE Crash
  <2>1. /\ LateIsWoken' /\ worker' = Idle /\ worker'.pc = "idle"
        /\ ~Stirring' => ~resource'.exists
    BY <1>2, RestartWakes, IdleType DEF Crash
  <2> QED
    BY <2>1, StirringRemembers, NothingLeftToForget
<1> QED
  BY <1>1, <1>2 DEF InformerStep

(* A step that leaves the resource, the worker and AWS alone. *)
LEMMA ElsewhereRemembers ==
  ASSUME NothingForgotten,
         UNCHANGED <<resource, holders, event, queued, worker, dropped, iamPolicy>>
  PROVE  NothingForgotten'
<1>1. LateIsWoken'
  BY ElsewhereWakes DEF NothingForgotten, Stirring
<1> QED
  BY <1>1 DEF NothingForgotten, LastWordIsNew, LastWord, Stirring, RestsConverged, Quiescent,
     Converged, SameOnAws

(* The users change the resource, which stirs, or the roles that the AWS   *)
(* policy is attached to, which nobody compares.                           *)
LEMMA UserRemembers ==
  ASSUME NothingForgotten, UserStep
  PROVE  NothingForgotten'
<1>1. CASE Act /\ holders' = {}
  <2>1. LateIsWoken' /\ Stirring' /\ worker' = worker
    BY <1>1, ActingWakes
  <2> QED
    BY <2>1, StirringRemembers DEF NothingForgotten
<1>2. CASE ActElsewhere /\ iamPolicy' = iamPolicy
  BY <1>2, ElsewhereRemembers DEF ActElsewhere, Act
<1> QED
  BY <1>1, <1>2 DEF UserStep, SetStatement, ChangeSpec, CreateResource, RequestDeletion, Attach, Detach

(* Nothing is forgotten at the start. *)
LEMMA InitRemembers == Init => NothingForgotten
<1> SUFFICES ASSUME Init PROVE NothingForgotten
  OBVIOUS
<1>1. LateIsWoken /\ worker.pc = "idle" /\ ~resource.exists
  BY InitWakes DEF Init
<1> QED
  BY <1>1 DEF NothingForgotten, LastWordIsNew, LastWord, RestsConverged

(* Every step keeps NothingForgotten. *)
LEMMA NextRemembers ==
  ASSUME IInv, NothingForgotten, DeletionPursued', [Next]_vars
  PROVE  NothingForgotten'
<1>1. CASE LifecycleStep
  BY <1>1, LifecycleRemembers
<1>2. CASE RoutineStep
  BY <1>2, SettingRemembers, RoutineIsQuiet, QuietStepRemembers
<1>3. CASE FinalizerStep
  BY <1>3, FinalizerIsQuiet, QuietStepRemembers
<1>4. CASE UNCHANGED vars
  BY <1>4, ElsewhereRemembers DEF vars, reconcilerVars, iamVars
<1> QED
  BY <1>1, <1>2, <1>3, <1>4, InformerRemembers, UserRemembers DEF Next, ReconcilerStep

-----------------------------------------------------------------------------
(***************************************************************************)
(* Whatever the worker of the Policy reconciler leaves undone, something   *)
(* will bring it back: late copies, lost replies, failures and crashes     *)
(* notwithstanding, unless its last reconciliation ignored that an update  *)
(* failed.                                                                 *)
(***************************************************************************)
THEOREM NothingIsForgotten == Spec => []NothingForgotten
<1>1. IInv /\ NothingForgotten /\ DeletionPursued' /\ [Next]_vars => NothingForgotten'
  BY NextRemembers
<1> QED
  BY <1>1, InitRemembers, Invariance, DeletionIsPursued, PTL DEF Spec

(***************************************************************************)
(* So when nothing is left to do, a Policy that is stored is not being     *)
(* deleted, and, unless the last reconciliation ignored that an update     *)
(* failed, it is "created", carries its ARN, and AWS holds a policy that   *)
(* says the same as its spec.                                              *)
(***************************************************************************)
THEOREM RestIsConverged == Spec => []RestsConverged
<1>1. NothingForgotten => RestsConverged
  BY DEF NothingForgotten
<1> QED
  BY <1>1, NothingIsForgotten, PTL

-----------------------------------------------------------------------------
(* The room for a version *)

(* Only a listing that finds room, or a deletion that makes it, leads to   *)
(* the step that makes a version.                                          *)
LEMMA ComingToNewVersion ==
  ASSUME IInv, [Next]_vars, worker'.pc = "newVersion"
  PROVE  \/ ListPolicyVersions /\ ~IsFull
         \/ DeleteOldestPolicyVersion /\ iamPolicy.old > 0
               /\ iamPolicy' = [iamPolicy EXCEPT !.old = @ - 1]
         \/ worker.pc = "newVersion" /\ iamPolicy' = iamPolicy
<1>1. worker \in Workers(PolicySpecs, Steps, Items) /\ Half /\ StepsJustified
  BY OwnSteps, Halves DEF ReconcilerTypes
<1>2. Idle.pc = "idle"
  BY DEF Idle
<1>3. /\ \A pc : Goto(pc) => worker'.pc = pc
      /\ \A status, next : ~Report(status, next)
      /\ \A reason : ~Fail(reason)
      /\ \A requeue : ~Return(requeue)
  BY <1>1, <1>2 DEF Workers, Goto, Report, Fail, Return
<1>4. \A pc, todo : worker' = [worker EXCEPT !.pc = pc, !.todo = todo] => worker'.pc = pc
  BY <1>1 DEF Workers
<1>5. ~LifecycleStep
  <2>1. LifecycleStep => LifecycleOutcome(Steps)
    BY <1>1, LifecycleKeeps DEF Half
  <2>2. worker.pc = "status" => worker.next \notin Steps \cup {"deleteCR"}
    BY <1>1 DEF StepsJustified, Steps, UpdateSteps, FinalizerSteps
  <2> QED
    BY <2>1, <2>2 DEF LifecycleOutcome
<1>6. ~AdmissionStep /\ ~GetPolicyARN /\ ~CreatePolicy /\ ~GetStatement /\ ~CreatePolicyVersion
  BY <1>3 DEF AdmissionStep, Admission, GetPolicyARN, CreatePolicy, GetStatement, CreatePolicyVersion
<1>7. ~SetPolicyArnField
  BY <1>1 DEF SetPolicyArnField, Workers
<1>8. ListPolicyVersions => ~IsFull
  <2>1. ListPolicyVersions => Goto(IF IsFull THEN "trim" ELSE "newVersion")
    BY <1>3, Zenon DEF ListPolicyVersions
  <2>2. ~Goto("trim")
    BY <1>3
  <2> QED
    BY <2>1, <2>2
<1>9. DeleteOldestPolicyVersion => /\ iamPolicy.old > 0
                                  /\ iamPolicy' = [iamPolicy EXCEPT !.old = @ - 1]
  BY <1>3 DEF DeleteOldestPolicyVersion, Call
<1>10. ~FinalizerStep
  <2>1. ~NothingToUndo /\ ~PolicyExists /\ ~DeletePolicy
    BY <1>3 DEF NothingToUndo, PolicyExists, DeletePolicy
  <2>2. ~ListEntitiesForPolicy /\ ~DetachRolePolicy /\ ~ListVersionsToDelete
    BY <1>3, <1>4 DEF ListEntitiesForPolicy, DetachRolePolicy, ListVersionsToDelete
  <2>3. ~DeletePolicyVersion
    BY <1>1 DEF DeletePolicyVersion, Workers
  <2> QED
    BY <2>1, <2>2, <2>3 DEF FinalizerStep
<1>11. InformerStep => worker.pc = "newVersion" /\ iamPolicy' = iamPolicy
  BY <1>2 DEF InformerStep, CacheSync, Enqueue, Crash, Restart, iamVars
<1>12. UserStep => worker.pc = "newVersion" /\ iamPolicy' = iamPolicy
  BY DEF UserStep, SetStatement, ChangeSpec, CreateResource, RequestDeletion, Attach, Detach,
     ActElsewhere, Act, iamVars
<1>13. UNCHANGED vars => worker.pc = "newVersion" /\ iamPolicy' = iamPolicy
  BY DEF vars, reconcilerVars, iamVars
<1> QED
  BY <1>5, <1>6, <1>7, <1>8, <1>9, <1>10, <1>11, <1>12, <1>13
  DEF Next, ReconcilerStep, RoutineStep

(* Every step keeps RoomIsMade. *)
LEMMA NextMakesRoom ==
  ASSUME IInv, RoomIsMade, [Next]_vars
  PROVE  RoomIsMade'
<1> SUFFICES ASSUME worker'.pc = "newVersion"
             PROVE  iamPolicy'.old + 1 < MaxVersions
  BY DEF RoomIsMade
<1>1. iamPolicy \in IamPolicies /\ iamPolicy.old \in 0..(MaxVersions - 1) /\ MaxVersions \in Nat
  BY Halves, PolicyAssumption DEF IamTypes, IamPolicies
<1>2. CASE ListPolicyVersions /\ ~IsFull
  <2>1. iamPolicy' = iamPolicy
    BY <1>2 DEF ListPolicyVersions, iamVars
  <2>2. ~(iamPolicy.old + 1 >= MaxVersions)
    BY <1>2 DEF IsFull
  <2>3. iamPolicy.old + 1 < MaxVersions
    BY <1>1, <2>2
  <2> QED
    BY <2>1, <2>3
<1>3. CASE DeleteOldestPolicyVersion /\ iamPolicy.old > 0
             /\ iamPolicy' = [iamPolicy EXCEPT !.old = @ - 1]
  <2>1. iamPolicy'.old = iamPolicy.old - 1
    BY <1>1, <1>3 DEF IamPolicies
  <2> QED
    BY <1>1, <2>1
<1>4. CASE worker.pc = "newVersion" /\ iamPolicy' = iamPolicy
  BY <1>4 DEF RoomIsMade
<1> QED
  BY <1>2, <1>3, <1>4, ComingToNewVersion

(***************************************************************************)
(* UpdatePolicy makes a version only where there is room for one, whatever *)
(* limit AWS sets and wherever an earlier update broke off.                *)
(***************************************************************************)
THEOREM RoomIsAlwaysMade == Spec => []RoomIsMade
<1>1. IInv /\ RoomIsMade /\ [Next]_vars => RoomIsMade'
  BY NextMakesRoom
<1>2. Init => RoomIsMade
  <2>1. Idle.pc = "idle"
    BY DEF Idle
  <2> QED
    BY <2>1 DEF Init, InitReconciler, RoomIsMade
<1> QED
  BY <1>1, <1>2, Invariance, PTL DEF Spec

-----------------------------------------------------------------------------
(* The delete by name *)

\* At most one more failure.
Grown == faults' = faults \/ faults' = faults + 1

(* Failures are only counted up. *)
LEMMA FaultsGrow ==
  ASSUME IInv, [Next]_vars, faults' = 0
  PROVE  faults = 0
<1>1. faults \in Nat
  BY OwnSteps, FaultsAssumption
<1>2. LifecycleStep => Grown
  BY DEF LifecycleStep, Reconcile, RegisterFinalizer, UpdateStatus, DeleteResource, RemoveFinalizer,
     Update, Call, Fault, Grown
<1>3. RoutineStep => Grown
  BY DEF RoutineStep, AdmissionStep, Admission, GetPolicyARN, CreatePolicy, SetPolicyArnField,
     GetStatement, ListPolicyVersions, DeleteOldestPolicyVersion, CreatePolicyVersion,
     Update, Answer, Call, Fault, Grown
<1>4. FinalizerStep => Grown
  BY DEF FinalizerStep, NothingToUndo, PolicyExists, ListEntitiesForPolicy, DetachRolePolicy,
     ListVersionsToDelete, DeletePolicyVersion, DeletePolicy, Answer, Call, Fault, Grown
<1>5. InformerStep => Grown
  BY DEF InformerStep, CacheSync, Enqueue, Crash, Fault, Grown
<1>6. UserStep => Grown
  BY DEF UserStep, SetStatement, ChangeSpec, CreateResource, RequestDeletion, Attach, Detach,
     ActElsewhere, Act, Grown
<1>7. UNCHANGED vars => Grown
  BY DEF vars, reconcilerVars, Grown
<1>8. Grown
  BY <1>2, <1>3, <1>4, <1>5, <1>6, <1>7 DEF Next, ReconcilerStep
<1> QED
  BY <1>1, <1>8 DEF Grown

(* What leaves the incarnation, its deletion and its ARN in place. *)
LEMMA ChangesInPlace ==
  ASSUME IInv, resource.exists, Holding \/ Reporting \/ Recording \/ Rewriting
  PROVE  /\ resource'.exists /\ resource'.uid = resource.uid
         /\ resource'.deleting = resource.deleting
         /\ resource.spec.arn # "" => resource'.spec.arn # ""
<1>1. resource \in StoredResources(PolicySpecs)
  <2>1. resource \in Resources(PolicySpecs)
    BY OwnSteps, FieldTypes
  <2> QED
    BY <2>1, StoredExists
<1>2. CASE Holding \/ Reporting
  BY <1>1, <1>2 DEF Holding, Reporting, StoredResources
<1>3. CASE Recording
  BY <1>1, <1>3 DEF Recording, StoredResources, PolicySpecs
<1>4. CASE Rewriting
  <2>1. PICK s \in StatementChoices :
          resource' = [resource EXCEPT !.spec = [resource.spec EXCEPT !.statement = s]]
    BY <1>4 DEF Rewriting
  <2>2. [resource.spec EXCEPT !.statement = s].arn = resource.spec.arn
    BY <1>1 DEF StoredResources, PolicySpecs
  <2> QED
    BY <1>1, <2>1, <2>2 DEF StoredResources
<1> QED
  BY <1>2, <1>3, <1>4

(* What a copy says of its incarnation stays true of the stored resource,  *)
(* as long as the AWS policy is not made while the copy is outdated.       *)
LEMMA TargetStaysOn ==
  ASSUME IInv, [Next]_vars,
         NEW copy \in Resources(PolicySpecs), copy.exists, copy.uid <= ops,
         DoomedStays(copy, resource), TargetStays(copy),
         ~iamPolicy.exists /\ iamPolicy'.exists => ~copy.deleting \/ resource.uid = copy.uid
  PROVE  /\ ArnStays(copy, resource')
         /\ StaysWithPolicy(copy, resource', iamPolicy'.exists)
<1>1. /\ ArnStays(copy, resource) /\ StaysWithPolicy(copy, resource, iamPolicy.exists)
  BY DEF TargetStays
<1>2. CASE resource' = resource
  <2>1. ~iamPolicy.exists /\ iamPolicy'.exists => resource.exists
    BY CreatingIsGuarded
  <2> QED
    BY <1>1, <1>2, <2>1 DEF ArnStays, StaysWithPolicy
<1>3. CASE resource.exists /\ (Holding \/ Reporting \/ Recording \/ Rewriting) /\ iamPolicy' = iamPolicy
  BY <1>1, <1>3, ChangesInPlace DEF ArnStays, StaysWithPolicy
<1>4. CASE ~resource.exists /\ iamPolicy' = iamPolicy /\ Creating
  <2>1. resource'.uid = ops + 1
    BY <1>4 DEF Creating, NewResource, NoResource
  <2>2. ops \in Nat /\ copy.uid \in Nat
    BY OwnSteps, FieldTypes, ResourceFields
  <2>3. resource'.uid # copy.uid
    BY <2>1, <2>2
  <2> QED
    BY <1>1, <1>4, <2>3 DEF ArnStays, StaysWithPolicy
<1>5. CASE resource.exists /\ iamPolicy' = iamPolicy /\ (Releasing \/ Dooming)
  <2>1. resource' = NoResource \/ (resource'.exists /\ resource'.uid = resource.uid
                                      /\ resource'.spec = resource.spec)
    <3>1. resource \in Resources(PolicySpecs)
      BY OwnSteps, FieldTypes
    <3>2. CASE Dooming
      BY <1>5, <3>1, <3>2, DeletedFields DEF Dooming
    <3> QED
      BY <1>5, <3>2 DEF Releasing
  <2>2. ~resource'.exists => Vanishes
    BY <1>5 DEF Vanishes
  <2>3. resource.exists /\ resource.spec.arn # "" /\ ~resource'.exists => ~iamPolicy.exists
    BY <2>2, VanishingIsClean DEF HasArn
  <2>4. CASE resource' = NoResource
    BY <1>1, <1>5, <2>3, <2>4, NoResourceFields DEF ArnStays, StaysWithPolicy
  <2>5. CASE resource'.exists /\ resource'.uid = resource.uid /\ resource'.spec = resource.spec
    BY <1>1, <1>5, <2>5 DEF ArnStays, StaysWithPolicy
  <2> QED
    BY <2>1, <2>4, <2>5
<1>6. Holding \/ Reporting \/ Recording \/ Rewriting \/ Releasing \/ Dooming => resource.exists
  BY DEF Holding, Reporting, Recording, Rewriting, Releasing, Dooming, Alive
<1>7. Creating => ~resource.exists
  BY DEF Creating
<1> QED
  BY <1>2, <1>3, <1>4, <1>5, <1>6, <1>7, ResourceChanges

(* Where the copies come from: the cache's is the stored resource, and the *)
(* worker's is its own, the cache's, or what it has just stored.           *)
LEMMA CopiesFollow ==
  ASSUME IInv, [Next]_vars
  PROVE  /\ cache' = cache \/ cache' = resource'
         /\ Busy' => \/ Busy /\ worker'.obj = worker.obj
                     \/ cache.exists /\ worker'.obj = cache
                     \/ worker'.obj = resource' /\ ~worker'.obj.deleting
<1>1. ReconcilerTypes(PolicySpecs, Steps, Items) /\ worker \in Workers(PolicySpecs, Steps, Items)
  BY OwnSteps DEF ReconcilerTypes
<1>2. worker' = Idle => ~Busy'
  BY IdleType DEF Busy
<1>3. CASE LifecycleStep
  <2>1. cache' = cache
    BY <1>3 DEF LifecycleStep, Reconcile, RegisterFinalizer, UpdateStatus, DeleteResource,
       RemoveFinalizer, HoldUpdated, UnchangedWorld
  <2>2. CASE Reconcile
    <3>1. worker' = IF cache.exists THEN [Idle EXCEPT !.pc = "got", !.obj = cache] ELSE Idle
      BY <2>2 DEF Reconcile
    <3>2. [Idle EXCEPT !.pc = "got", !.obj = cache].obj = cache
      BY DEF Idle
    <3> QED
      BY <1>2, <2>1, <3>1, <3>2
  <2>3. CASE RegisterFinalizer
    <3>1. \/ worker' = [worker EXCEPT !.obj = resource'] /\ ~resource'.deleting
          \/ worker' = Idle
      BY <2>3, RegisteringStaysLive
    <3> QED
      BY <1>1, <1>2, <2>1, <3>1 DEF Workers
  <2>4. CASE UpdateStatus
    <3>1. worker.next \in {"return", "requeue", "ifFailed"}
      BY <2>4 DEF UpdateStatus, IInv, StepsJustified
    <3>2. worker' = Idle
      BY <2>4, <3>1 DEF UpdateStatus, Resume, Return
    <3> QED
      BY <1>2, <2>1, <3>2
  <2>5. CASE DeleteResource \/ RemoveFinalizer
    <3>1. worker' = [worker EXCEPT !.pc = "removeFinalizer"] \/ worker' = Idle
      BY <2>5 DEF DeleteResource, RemoveFinalizer, Goto, Return
    <3>2. Busy
      BY <2>5 DEF DeleteResource, RemoveFinalizer, Busy
    <3> QED
      BY <1>1, <1>2, <2>1, <3>1, <3>2 DEF Workers
  <2> QED
    BY <1>3, <2>2, <2>3, <2>4, <2>5 DEF LifecycleStep
<1>4. ASSUME QuietStep PROVE cache' = cache /\ (Busy' => Busy /\ worker'.obj = worker.obj)
  BY <1>2, <1>4 DEF QuietStep, MovesOn, UnchangedCluster, UnchangedWorld
<1>5. CASE SetPolicyArnField
  <2>1. PICK ok \in BOOLEAN :
          worker' = [worker EXCEPT !.pc = "status", !.next = "return",
                                   !.obj = IF ok THEN resource' ELSE @,
                                   !.status = Progress("policy found")]
    BY <1>5 DEF SetPolicyArnField
  <2>2. cache' = cache /\ Busy
    BY <1>5 DEF SetPolicyArnField, HoldUpdated, UnchangedWorld, Busy
  <2>3. worker'.obj = worker.obj \/ worker'.obj = resource'
    BY <1>1, <2>1 DEF Workers
  <2> QED
    BY <1>5, <2>2, <2>3, SettingStaysLive
<1>6. CASE RoutineStep \/ FinalizerStep
  BY <1>4, <1>5, <1>6, RoutineIsQuiet, FinalizerIsQuiet
<1>7. CASE InformerStep
  BY <1>2, <1>7 DEF InformerStep, CacheSync, Enqueue, Crash, Restart, Busy
<1>8. CASE UserStep
  BY <1>8 DEF UserStep, SetStatement, ChangeSpec, CreateResource, RequestDeletion, Attach, Detach,
     ActElsewhere, Act, Busy
<1>9. CASE UNCHANGED vars
  BY <1>9 DEF vars, reconcilerVars, Busy
<1> QED
  BY <1>3, <1>6, <1>7, <1>8, <1>9 DEF Next, ReconcilerStep

(* A finalizer that found the AWS policy works on the stored incarnation,  *)
(* as long as no call has failed.                                          *)
LEMMA TargetIsStored ==
  ASSUME IInv, IInv', TargetInv, [Next]_vars, faults' = 0,
         worker'.pc \in FinalizerSteps \cup {"deleteCR"}
  PROVE  resource'.exists /\ resource'.uid = worker'.obj.uid
<1>1. faults = 0
  BY FaultsGrow
<1>2. ExecutesFinalizer(worker'.obj) /\ worker'.obj.deleting
  BY DEF IInv, StepsJustified, CommonStepsJustified, ExecutesFinalizer
<1>3. worker.pc \in FinalizerSteps \cup {"deleteCR"} => resource.exists /\ resource.uid = worker.obj.uid
  BY <1>1 DEF TargetInv
<1>4. CASE LifecycleStep
  <2>1. LifecycleOutcome(Steps)
    BY <1>4, Halves, LifecycleKeeps DEF Half
  <2>2. worker.pc = "status" => worker.next \notin Steps \cup {"deleteCR"}
    BY DEF IInv, StepsJustified, Steps
  <2> QED
    BY <2>1, <2>2 DEF LifecycleOutcome
<1>5. CASE RoutineStep
  <2>1. CASE SetPolicyArnField
    <3>1. worker'.pc = "status"
      BY <2>1, OwnSteps DEF SetPolicyArnField, ReconcilerTypes, Workers
    <3> QED
      BY <3>1
  <2>2. CASE ~SetPolicyArnField
    <3>1. worker' = Idle \/ worker'.obj = worker.obj
      BY <1>5, <2>2, RoutineIsQuiet DEF QuietStep, MovesOn
    <3> QED
      BY <1>2, <1>5, <3>1, RoutineStaysOut, IdleType
  <2> QED
    BY <2>1, <2>2
<1>6. CASE FinalizerStep
  <2>1. resource' = resource /\ worker'.obj = worker.obj
    BY <1>6, FinalizerIsQuiet, IdleType DEF QuietStep, MovesOn, UnchangedCluster
  <2>2. CASE worker.pc \in FinalizerSteps
    BY <1>3, <2>1, <2>2
  <2>3. CASE NothingToUndo
    <3>1. worker'.pc = "removeFinalizer"
      BY <2>3, OwnSteps DEF NothingToUndo, Goto, ReconcilerTypes, Workers
    <3> QED
      BY <3>1
  <2>4. CASE PolicyExists
    <3>1. PICK ok \in BOOLEAN :
            Answer("iam", ok) /\ Goto(IF CertainlyAbsent(ok) THEN "removeFinalizer" ELSE "list")
      BY <2>4 DEF PolicyExists
    <3>2. ok
      BY <1>1, <3>1 DEF Answer, Fault
    <3>3. worker'.pc = IF CertainlyAbsent(ok) THEN "removeFinalizer" ELSE "list"
      BY <3>1, OwnSteps DEF Goto, ReconcilerTypes, Workers
    <3>4. iamPolicy.exists
      BY <3>2, <3>3 DEF CertainlyAbsent
    <3>5. Busy /\ worker.obj.deleting /\ worker.obj.spec.arn # ""
      BY <2>4 DEF PolicyExists, Busy, ExecutesFinalizer
    <3> QED
      BY <2>1, <3>4, <3>5 DEF TargetInv, TargetStays, StaysWithPolicy
  <2> QED
    BY <1>6, <2>2, <2>3, <2>4 DEF FinalizerStep, ListEntitiesForPolicy, DetachRolePolicy,
       ListVersionsToDelete, DeletePolicyVersion, DeletePolicy
<1>7. CASE resource' = resource /\ worker' = worker
  BY <1>3, <1>7
<1>8. CASE InformerStep
  <2>1. resource' = resource /\ (worker' = worker \/ worker' = Idle)
    BY <1>8 DEF InformerStep, CacheSync, Enqueue, Crash, Restart
  <2> QED
    BY <1>7, <2>1, IdleType
<1>9. CASE UserStep
  <2>1. worker' = worker
    BY <1>9 DEF UserStep, SetStatement, ChangeSpec, CreateResource, RequestDeletion, Attach, Detach,
       ActElsewhere, Act
  <2>2. Busy /\ resource.exists /\ resource.uid = worker.obj.uid
    BY <1>3, <2>1 DEF Busy
  <2>3. resource.deleting
    BY <1>2, <2>1, <2>2 DEF IInv, CopiesInv, CopiesTruthful, DoomedStays, Alive
  <2>4. resource' = resource \/ Rewriting
    BY <1>9, <2>2, <2>3 DEF UserStep, SetStatement, ChangeSpec, CreateResource, RequestDeletion,
       Attach, Detach, ActElsewhere, Rewriting
  <2> QED
    BY <2>1, <2>2, <2>4, ChangesInPlace
<1>10. CASE UNCHANGED vars
  BY <1>7, <1>10 DEF vars, reconcilerVars
<1> QED
  BY <1>4, <1>5, <1>6, <1>8, <1>9, <1>10 DEF Next, ReconcilerStep

(* Every step keeps TargetInv. *)
LEMMA NextKeepsTarget ==
  ASSUME IInv, IInv', TargetInv, [Next]_vars
  PROVE  TargetInv'
<1>1. /\ cache \in Resources(PolicySpecs) /\ worker.obj \in Resources(PolicySpecs)
      /\ cache.uid \in Nat /\ worker.obj.uid \in Nat /\ resource.uid \in Nat
      /\ UidsOrdered /\ CopiesTruthful
  BY OwnSteps, FieldTypes DEF IInv, CopiesInv
<1>2. Busy' => worker'.obj.exists
  BY DEF IInv, CopiesInv, CopiesTruthful
<1>3. ~iamPolicy.exists /\ iamPolicy'.exists =>
        Busy /\ ~worker.obj.deleting /\ resource.exists /\ resource.uid = worker.obj.uid
  BY CreatingIsGuarded
<1>4. cache.exists => /\ ArnStays(cache, resource')
                      /\ StaysWithPolicy(cache, resource', iamPolicy'.exists)
  <2>1. ASSUME cache.exists
        PROVE  /\ TargetStays(cache) /\ DoomedStays(cache, resource) /\ cache.uid <= ops
               /\ ~iamPolicy.exists /\ iamPolicy'.exists => resource.uid = cache.uid
    BY <1>1, <1>3, <2>1 DEF TargetInv, CopiesTruthful, UidsOrdered
  <2> QED
    BY <1>1, <2>1, TargetStaysOn
<1>5. Busy => /\ ArnStays(worker.obj, resource')
              /\ StaysWithPolicy(worker.obj, resource', iamPolicy'.exists)
  <2>1. ASSUME Busy
        PROVE  /\ TargetStays(worker.obj) /\ DoomedStays(worker.obj, resource) /\ worker.obj.uid <= ops
               /\ worker.obj.exists
    BY <1>1, <2>1 DEF TargetInv, CopiesTruthful, UidsOrdered
  <2> QED
    BY <1>1, <1>3, <2>1, TargetStaysOn
<1>6. resource'.exists => /\ ArnStays(resource', resource')
                          /\ StaysWithPolicy(resource', resource', iamPolicy'.exists)
  BY DEF ArnStays, StaysWithPolicy
<1>7. /\ cache' = cache \/ cache' = resource'
      /\ Busy' => \/ Busy /\ worker'.obj = worker.obj
                  \/ cache.exists /\ worker'.obj = cache
                  \/ worker'.obj = resource'
  BY CopiesFollow
<1>8. cache'.exists => /\ ArnStays(cache', resource')
                       /\ StaysWithPolicy(cache', resource', iamPolicy'.exists)
  BY <1>4, <1>6, <1>7
<1>9. Busy' => /\ ArnStays(worker'.obj, resource')
               /\ StaysWithPolicy(worker'.obj, resource', iamPolicy'.exists)
  BY <1>2, <1>4, <1>5, <1>6, <1>7
<1>10. faults' = 0 /\ worker'.pc \in FinalizerSteps \cup {"deleteCR"} =>
         resource'.exists /\ resource'.uid = worker'.obj.uid
  BY TargetIsStored
<1> QED
  BY <1>8, <1>9, <1>10 DEF TargetInv, TargetStays, ArnStays, StaysWithPolicy

(* There is no copy at the start. *)
LEMMA InitTarget == Init => TargetInv
<1> SUFFICES ASSUME Init PROVE TargetInv
  OBVIOUS
<1>1. ~cache.exists /\ worker.pc = "idle"
  BY NoResourceFields, IdleType DEF Init, InitReconciler
<1> QED
  BY <1>1 DEF TargetInv, Busy

(***************************************************************************)
(* TargetInv holds in every reachable state: what a copy says of its       *)
(* incarnation stays true, a deleting Policy with an ARN is not replaced   *)
(* while its AWS policy is there, and while no call has failed the delete  *)
(* by name is on its way only to the incarnation it is meant for.          *)
(***************************************************************************)
THEOREM TargetIsKept == Spec => []TargetInv
<1>1. IInv /\ TargetInv /\ [Next]_vars => TargetInv'
  BY NextKeeps, StutterKeeps, NextKeepsTarget
<1> QED
  BY <1>1, InitTarget, Invariance, PTL DEF Spec

(***************************************************************************)
(* While no call has failed, the Policy reconciler never deletes a         *)
(* resource that no user asked to delete: its delete goes by name, but the *)
(* incarnation it is meant for is still stored.                            *)
(***************************************************************************)
THEOREM SuccessorIsSpared == Spec => SuccessorSparedUnlessFaults
<1>1. ASSUME IInv, TargetInv, [Next]_vars, Alive(resource), ~Alive(resource'), faults' = 0
      PROVE  RequestDeletion
  <2>1. faults = 0
    BY <1>1, FaultsGrow
  <2>2. ~Holding /\ ~Reporting /\ ~Recording /\ ~Rewriting
    BY <1>1, ChangesInPlace DEF Alive
  <2>3. ~Creating /\ ~Releasing /\ resource' # resource
    BY <1>1 DEF Creating, Releasing, Alive
  <2>4. RequestDeletion \/ worker.pc = "deleteCR"
    BY <1>1, <2>2, <2>3, ResourceChanges
  <2>5. worker.pc = "deleteCR" =>
          /\ resource.uid = worker.obj.uid /\ worker.obj.deleting /\ Busy
    BY <1>1, <2>1 DEF TargetInv, IInv, StepsJustified, CommonStepsJustified, ExecutesFinalizer, Busy
  <2>6. worker.pc = "deleteCR" => ~Alive(resource)
    BY <1>1, <2>5 DEF IInv, CopiesInv, CopiesTruthful, DoomedStays
  <2> QED
    BY <1>1, <2>4, <2>6
<1>2. IInv /\ TargetInv /\ [Next]_vars =>
        [Alive(resource) /\ ~Alive(resource') /\ faults' = 0 => RequestDeletion]_vars
  BY <1>1
<1> QED
  BY <1>2, TargetIsKept, Invariance, PTL DEF Spec, SuccessorSparedUnlessFaults

-----------------------------------------------------------------------------
(* What the cache shows *)

(* The ARN of the stored resource appears for an AWS policy that is there, *)
(* and goes with the resource.                                             *)
LEMMA ArnComesAndGoes ==
  ASSUME IInv, [Next]_vars, HasArn # HasArn'
  PROVE  /\ iamPolicy'.exists = iamPolicy.exists
         /\ HasArn => Vanishes
         /\ HasArn' => iamPolicy.exists
<1>1. resource \in Resources(PolicySpecs) /\ iamPolicy' = iamPolicy /\ resource' # resource
  BY OwnSteps, FieldTypes, ResourceChanges DEF HasArn
<1>2. resource.exists => resource \in StoredResources(PolicySpecs)
  BY <1>1, StoredExists
<1>3. CASE Holding \/ Reporting \/ Rewriting
  <2>1. resource.exists /\ resource'.exists /\ (HasArn => HasArn')
    BY <1>3, ChangesInPlace DEF Holding, Reporting, Rewriting, Alive, HasArn
  <2>2. ASSUME Holding \/ Reporting PROVE HasArn' => HasArn
    <3>1. resource'.spec = resource.spec
      BY <1>2, <2>1, <2>2 DEF Holding, Reporting, StoredResources
    <3> QED
      BY <2>1, <3>1 DEF HasArn
  <2>3. ASSUME NEW s \in StatementChoices,
               resource' = [resource EXCEPT !.spec = [resource.spec EXCEPT !.statement = s]]
        PROVE  HasArn' => HasArn
    <3>1. [resource.spec EXCEPT !.statement = s].arn = resource.spec.arn
      BY <1>2, <2>1 DEF StoredResources, PolicySpecs
    <3> QED
      BY <1>2, <2>1, <2>3, <3>1 DEF StoredResources, HasArn
  <2>4. HasArn' => HasArn
    BY <1>3, <2>2, <2>3 DEF Rewriting
  <2>5. HasArn \in BOOLEAN /\ HasArn' \in BOOLEAN
    BY DEF HasArn
  <2> QED
    BY <2>1, <2>4, <2>5
<1>4. CASE Recording
  BY <1>1, <1>4, ChangesInPlace DEF Recording, Alive, HasArn
<1>5. CASE Creating
  <2>1. PICK s \in StatementChoices : resource' = NewResource(ops + 1, PolicySpec("", s))
    BY <1>5 DEF Creating
  <2>2. resource'.spec.arn = ""
    BY <2>1 DEF NewResource, NoResource, PolicySpec
  <2> QED
    BY <1>5, <2>2 DEF Creating, HasArn
<1>6. CASE Releasing
  BY <1>1, <1>6, NoResourceFields DEF Releasing, Vanishes, HasArn
<1>7. CASE Dooming
  <2>1. resource.exists /\ resource' = Deleted(resource)
    BY <1>7 DEF Dooming
  <2>2. resource' = NoResource \/ (resource'.exists /\ resource'.spec = resource.spec)
    BY <1>1, <2>1, DeletedFields
  <2>3. ~resource'.exists /\ HasArn /\ ~HasArn'
    BY <2>1, <2>2, NoResourceFields DEF HasArn
  <2> QED
    BY <1>1, <2>1, <2>3 DEF Vanishes
<1> QED
  BY <1>1, <1>3, <1>4, <1>5, <1>6, <1>7, ResourceChanges

(* An AWS policy goes by DeletePolicy, with no role attached.              *)
LEMMA OnlyDeletePolicyRemoves ==
  ASSUME IInv, [Next]_vars, iamPolicy.exists, ~iamPolicy'.exists
  PROVE  DeletePolicy /\ attached = {}
<1>1. iamPolicy \in IamPolicies
  BY Halves DEF IamTypes
<1>2. ~CreatePolicy
  BY DEF CreatePolicy
<1>3. ~CreatePolicyVersion
  <2>1. CreatePolicyVersion =>
          \/ iamPolicy' = IamPolicy(worker.obj.spec.statement, iamPolicy.old + 1)
          \/ iamPolicy' = iamPolicy
    BY DEF CreatePolicyVersion
  <2> QED
    BY <2>1 DEF IamPolicy
<1>4. ~DeleteOldestPolicyVersion /\ ~DeletePolicyVersion
  <2>1. DeleteOldestPolicyVersion \/ DeletePolicyVersion =>
          iamPolicy' = [iamPolicy EXCEPT !.old = @ - 1] \/ iamPolicy' = iamPolicy
    BY DEF DeleteOldestPolicyVersion, DeletePolicyVersion
  <2> QED
    BY <1>1, <2>1 DEF IamPolicies
<1>5. DeletePolicy
  BY <1>2, <1>3, <1>4, WhoChangesIam
<1>6. PICK applied \in BOOLEAN, ok \in BOOLEAN :
        /\ Call("iam", attached = {} /\ iamPolicy.old = 0, applied, ok)
        /\ iamPolicy' = IF applied THEN NoIamPolicy ELSE iamPolicy
  BY <1>5 DEF DeletePolicy
<1>7. attached = {}
  BY <1>6 DEF Call
<1> QED
  BY <1>5, <1>7

(* The copies show the same incarnation as the stored resource, if the     *)
(* worker's does.                                                          *)
LEMMA CacheShowsTheStored ==
  ASSUME IInv, Busy, cache.exists, resource.exists, resource.uid = worker.obj.uid
  PROVE  cache.uid = resource.uid
<1>1. cache.uid \in Nat /\ worker.obj.uid \in Nat /\ resource.uid \in Nat
  BY OwnSteps, FieldTypes
<1>2. cache.uid <= resource.uid /\ worker.obj.uid <= cache.uid
  BY DEF IInv, CopiesInv, UidsOrdered
<1> QED
  BY <1>1, <1>2

(* An AWS policy is made only while neither the stored resource nor the    *)
(* cache shows an ARN.                                                     *)
LEMMA MakingIsUnseen ==
  ASSUME IInv, TargetInv, ShownInv, [Next]_vars, ~iamPolicy.exists, iamPolicy'.exists
  PROVE  ~HasArn /\ ShownArn(cache) = ""
<1>1. Busy /\ ~worker.obj.deleting /\ resource.exists /\ resource.uid = worker.obj.uid
  BY CreatingIsGuarded
<1>2. ~HasArn
  BY <1>1 DEF ShownInv
<1>3. ASSUME ShownArn(cache) # "" PROVE FALSE
  <2>1. cache.exists /\ cache.spec.arn # ""
    BY <1>3 DEF ShownArn
  <2>2. ArnStays(cache, resource) /\ cache.uid = resource.uid
    BY <1>1, <2>1, CacheShowsTheStored DEF TargetInv, TargetStays
  <2> QED
    BY <1>1, <1>2, <2>1, <2>2 DEF ArnStays, HasArn
<1> QED
  BY <1>2, <1>3

(* A finalizer goes beyond its first step only for a copy with an ARN.     *)
LEMMA FinalizersHaveArns ==
  ASSUME IInv, IInv', ShownInv, [Next]_vars, worker'.pc \in FinalizerSteps
  PROVE  worker'.obj.spec.arn # ""
<1>1. worker'.obj.deleting
  BY DEF IInv, StepsJustified, ExecutesFinalizer
<1>2. worker.pc \in FinalizerSteps => worker.obj.spec.arn # ""
  BY DEF ShownInv
<1>3. CASE LifecycleStep
  <2>1. LifecycleOutcome(Steps)
    BY <1>3, Halves, LifecycleKeeps DEF Half
  <2>2. worker.pc = "status" => worker.next \notin Steps \cup {"deleteCR"}
    BY DEF IInv, StepsJustified, Steps
  <2> QED
    BY <2>1, <2>2 DEF LifecycleOutcome
<1>4. CASE RoutineStep
  <2>1. ~SetPolicyArnField
    BY <1>1, SettingStaysLive
  <2>2. worker' = Idle \/ worker'.obj = worker.obj
    BY <1>4, <2>1, RoutineIsQuiet DEF QuietStep, MovesOn
  <2> QED
    BY <1>1, <1>4, <2>2, RoutineStaysOut, IdleType
<1>5. CASE FinalizerStep
  <2>1. worker'.obj = worker.obj
    BY <1>5, FinalizerIsQuiet, IdleType DEF QuietStep, MovesOn
  <2>2. CASE NothingToUndo
    <3>1. worker'.pc = "removeFinalizer"
      BY <2>2, OwnSteps DEF NothingToUndo, Goto, ReconcilerTypes, Workers
    <3> QED
      BY <3>1
  <2>3. CASE PolicyExists
    BY <2>1, <2>3 DEF PolicyExists
  <2> QED
    BY <1>2, <1>5, <2>1, <2>2, <2>3 DEF FinalizerStep, ListEntitiesForPolicy, DetachRolePolicy,
       ListVersionsToDelete, DeletePolicyVersion, DeletePolicy
<1>6. CASE worker' = worker \/ worker' = Idle
  BY <1>2, <1>6, IdleType
<1>7. CASE InformerStep \/ UserStep \/ UNCHANGED vars
  <2>1. worker' = worker \/ worker' = Idle
    BY <1>7 DEF InformerStep, CacheSync, Enqueue, Crash, Restart, UserStep, SetStatement,
       ChangeSpec, CreateResource, RequestDeletion, Attach, Detach, ActElsewhere, Act,
       vars, reconcilerVars
  <2> QED
    BY <1>6, <2>1
<1> QED
  BY <1>3, <1>4, <1>5, <1>7 DEF Next, ReconcilerStep

(* What the worker's copy shows of the stored incarnation. *)
ShownToWorker ==
    Busy /\ resource.exists /\ resource.uid = worker.obj.uid =>
        /\ ShowsTheEnd(worker.obj) => ShowsTheEnd(cache)
        /\ ~worker.obj.deleting /\ HasArn => iamPolicy.exists

(* A finalizer deletes the AWS policy that the stored resource names, and  *)
(* the cache shows that this one is to be deleted.                         *)
LEMMA RemovalIsShown ==
  ASSUME IInv, TargetInv, ShownInv, [Next]_vars, iamPolicy.exists, ~iamPolicy'.exists
  PROVE  /\ Busy /\ worker.obj.deleting /\ ShowsTheEnd(cache)
         /\ UNCHANGED <<resource, cache>> /\ (Busy' => worker'.obj = worker.obj)
<1>1. worker.pc = "deletePolicy" /\ UNCHANGED <<resource, cache>> /\ FinalizerStep
  BY OnlyDeletePolicyRemoves DEF DeletePolicy, UnchangedCluster, UnchangedWorld, FinalizerStep
<1>2. /\ Busy /\ worker.obj.exists /\ worker.obj.deleting /\ worker.obj.spec.arn # ""
      /\ TargetStays(worker.obj)
  BY <1>1, OwnSteps DEF IInv, StepsJustified, ExecutesFinalizer, ShownInv, TargetInv, Busy
<1>3. resource.exists /\ resource.uid = worker.obj.uid
  BY <1>2 DEF TargetStays, StaysWithPolicy
<1>4. ShowsTheEnd(cache)
  BY <1>2, <1>3 DEF ShownInv, ShowsTheEnd
<1>5. Busy' => worker'.obj = worker.obj
  <2>1. worker' = Idle => ~Busy'
    BY IdleType DEF Busy
  <2> QED
    BY <1>1, <2>1, FinalizerIsQuiet DEF QuietStep, MovesOn
<1> QED
  BY <1>1, <1>2, <1>4, <1>5

(* While the AWS policy of a stored ARN is gone, the cache shows the end.  *)
LEMMA GoneIsShown ==
  ASSUME IInv, IInv', TargetInv, ShownInv, [Next]_vars, HasArn', ~iamPolicy'.exists
  PROVE  ShowsTheEnd(cache')
<1>1. resource'.exists /\ resource'.deleting /\ resource'.spec.arn # ""
  BY DEF IInv, ArnJustified, ArnIsReal, HasArn
<1>2. CASE iamPolicy.exists
  <2>1. ShowsTheEnd(cache) /\ cache' = cache
    BY <1>2, RemovalIsShown
  <2> QED
    BY <2>1
<1>3. CASE ~iamPolicy.exists
  <2>1. HasArn
    BY <1>3, ArnComesAndGoes
  <2>2. ShowsTheEnd(cache)
    BY <1>3, <2>1 DEF ShownInv
  <2>3. cache' = cache \/ cache' = resource'
    BY CopiesFollow
  <2>4. ShowsTheEnd(resource')
    BY <1>1 DEF ShowsTheEnd
  <2> QED
    BY <2>2, <2>3, <2>4
<1> QED
  BY <1>2, <1>3

(* The cache shows an ARN that is not stored only when there is no AWS     *)
(* policy.                                                                 *)
LEMMA LateArnNamesNothing ==
  ASSUME IInv, TargetInv, ShownInv, [Next]_vars, ShownArn(cache') # "", ~HasArn'
  PROVE  ~iamPolicy'.exists
<1>1. cache' = cache
  <2>1. cache' = resource' => ShownArn(cache') = ""
    BY DEF ShownArn, HasArn
  <2> QED
    BY <2>1, CopiesFollow
<1>2. CASE HasArn
  BY <1>2, ArnComesAndGoes, VanishingIsClean
<1>3. CASE ~HasArn
  BY <1>1, <1>3, MakingIsUnseen DEF ShownInv
<1> QED
  BY <1>2, <1>3

(* And the worker's copy is no wiser than the cache. *)
LEMMA WorkerIsShown ==
  ASSUME IInv, IInv', TargetInv, TargetInv', ShownInv, [Next]_vars
  PROVE  ShownToWorker'
<1> SUFFICES ASSUME Busy', resource'.exists, resource'.uid = worker'.obj.uid
             PROVE  /\ ShowsTheEnd(worker'.obj) => ShowsTheEnd(cache')
                    /\ ~worker'.obj.deleting /\ HasArn' => iamPolicy'.exists
  BY DEF ShownToWorker
<1>1. /\ cache' = cache \/ cache' = resource'
      /\ \/ Busy /\ worker'.obj = worker.obj
         \/ cache.exists /\ worker'.obj = cache
         \/ worker'.obj = resource' /\ ~worker'.obj.deleting
  BY CopiesFollow
<1>2. ShowsTheEnd(worker'.obj) => ShowsTheEnd(resource')
  BY DEF ShowsTheEnd, TargetInv, TargetStays, ArnStays, IInv, CopiesInv, CopiesTruthful,
     DoomedStays, Alive
<1>3. HasArn' /\ ~iamPolicy'.exists => ShowsTheEnd(cache')
  BY GoneIsShown
<1>4. CASE Busy /\ worker'.obj = worker.obj
  <2>1. worker.obj.uid \in Nat /\ worker.obj.uid <= ops /\ ops \in Nat
    BY <1>4, OwnSteps, FieldTypes DEF IInv, CopiesInv, UidsOrdered
  <2>2. resource.exists /\ resource.uid = worker.obj.uid
    <3>1. CASE Creating
      <4>1. resource'.uid = ops + 1
        BY <3>1 DEF Creating, NewResource, NoResource
      <4> QED
        BY <1>4, <2>1, <4>1
    <3>2. CASE Holding \/ Reporting \/ Recording \/ Rewriting
      BY <1>4, <3>2, ChangesInPlace DEF Holding, Reporting, Recording, Rewriting, Alive
    <3>3. CASE Releasing
      BY <3>3, NoResourceFields DEF Releasing
    <3>4. CASE Dooming
      <4>1. resource \in Resources(PolicySpecs)
        BY OwnSteps, FieldTypes
      <4> QED
        BY <1>4, <3>4, <4>1, DeletedFields, NoResourceFields DEF Dooming
    <3>5. CASE resource' = resource
      BY <1>4, <3>5
    <3> QED
      BY <3>1, <3>2, <3>3, <3>4, <3>5, ResourceChanges
  <2>3. ShowsTheEnd(worker.obj) => ShowsTheEnd(cache)
    BY <1>4, <2>2 DEF ShownInv
  <2>4. ~worker.obj.deleting /\ HasArn' => iamPolicy'.exists
    <3>1. SUFFICES ASSUME ~worker.obj.deleting, HasArn', ~iamPolicy'.exists PROVE FALSE
      OBVIOUS
    <3>2. ~iamPolicy.exists
      BY <3>1, RemovalIsShown
    <3>3. HasArn
      BY <3>1, <3>2, ArnComesAndGoes
    <3> QED
      BY <1>4, <2>2, <3>1, <3>2, <3>3 DEF ShownInv
  <2> QED
    BY <1>1, <1>2, <1>4, <2>3, <2>4
<1>5. CASE worker'.obj = cache
  <2>1. ShowsTheEnd(worker'.obj) => ShowsTheEnd(cache')
    BY <1>1, <1>2, <1>5
  <2>2. HasArn' /\ ~iamPolicy'.exists => worker'.obj.deleting
    <3>1. SUFFICES ASSUME HasArn', ~iamPolicy'.exists PROVE worker'.obj.deleting
      OBVIOUS
    <3>2. CASE iamPolicy.exists
      BY <1>5, <3>1, <3>2, RemovalIsShown DEF ShowsTheEnd
    <3>3. CASE ~iamPolicy.exists
      <4>1. HasArn
        BY <3>1, <3>3, ArnComesAndGoes
      <4> QED
        BY <1>5, <3>3, <4>1 DEF ShownInv, ShowsTheEnd
    <3> QED
      BY <3>2, <3>3
  <2> QED
    BY <2>1, <2>2
<1>6. CASE worker'.obj = resource' /\ ~worker'.obj.deleting
  <2>1. HasArn' => iamPolicy'.exists
    BY <1>6 DEF IInv, ArnJustified, ArnIsReal
  <2> QED
    BY <1>6, <2>1 DEF ShowsTheEnd
<1> QED
  BY <1>1, <1>4, <1>5, <1>6

(* Every step keeps ShownInv. *)
LEMMA NextKeepsShown ==
  ASSUME IInv, IInv', TargetInv, TargetInv', ShownInv, [Next]_vars
  PROVE  ShownInv'
<1>1. HasArn' /\ ~iamPolicy'.exists => ShowsTheEnd(cache')
  BY GoneIsShown
<1>2. ShownArn(cache') # "" /\ ~HasArn' => ~iamPolicy'.exists
  BY LateArnNamesNothing
<1>3. worker'.pc \in FinalizerSteps => worker'.obj.spec.arn # ""
  BY FinalizersHaveArns
<1>4. ShownToWorker'
  BY WorkerIsShown
<1> QED
  BY <1>1, <1>2, <1>3, <1>4 DEF ShownInv, ShownToWorker, ShownArn, ShowsTheEnd

(* The cache shows nothing at the start. *)
LEMMA InitShown == Init => ShownInv
<1> SUFFICES ASSUME Init PROVE ShownInv
  OBVIOUS
<1>1. ~resource.exists /\ ~cache.exists /\ worker.pc = "idle"
  BY NoResourceFields, IdleType DEF Init, InitReconciler
<1> QED
  BY <1>1 DEF ShownInv, HasArn, ShownArn, Busy

(***************************************************************************)
(* ShownInv holds in every reachable state: the cache forgets the ARN of a *)
(* Policy only after its AWS policy is gone, and an ARN that it shows too  *)
(* long names nothing.                                                     *)
(***************************************************************************)
THEOREM CacheShowsTheTruth == Spec => []ShownInv
<1>1. IInv /\ IInv' /\ TargetInv /\ TargetInv' /\ ShownInv /\ [Next]_vars => ShownInv'
  BY NextKeepsShown
<1> QED
  BY <1>1, InitShown, TargetIsKept, Invariance, PTL DEF Spec

-----------------------------------------------------------------------------
(* What the Policy shares with those who attach it *)

(* The watch and a restart show those who attach the AWS policy that its   *)
(* ARN has come or gone.                                                   *)
LEMMA InformerStepIsShared ==
  ASSUME IInv, ShownInv, InformerStep
  PROVE  UNCHANGED OnAws!vars \/ OnAws!Show \/ OnAws!Forget
<1>1. /\ UNCHANGED <<resource, iamPolicy, attached>>
      /\ cache' = cache \/ cache' = resource
  BY DEF InformerStep, CacheSync, Enqueue, Crash, Restart, iamVars
<1>2. CASE ShownArn(cache') = ShownArn(cache)
  BY <1>1, <1>2 DEF OnAws!vars
<1>3. CASE ShownArn(cache') # ShownArn(cache)
  <2>1. cache' = resource
    BY <1>1, <1>3
  <2>2. ShownArn(cache) \in {"", "arn"} /\ ShownArn(cache') \in {"", "arn"}
    <3>1. /\ cache \in Resources(PolicySpecs) /\ resource \in Resources(PolicySpecs)
      BY OwnSteps, FieldTypes
    <3>2. /\ cache.exists => cache.spec \in PolicySpecs
          /\ resource.exists => resource.spec \in PolicySpecs
      BY <3>1, ResourceFields
    <3> QED
      BY <2>1, <3>2 DEF ShownArn, PolicySpecs
  <2>3. CASE ShownArn(cache) = "" /\ ShownArn(cache') = "arn"
    <3>1. HasArn /\ ~ShowsTheEnd(cache)
      BY <2>1, <2>3 DEF ShownArn, HasArn, ShowsTheEnd
    <3>2. iamPolicy.exists
      BY <3>1 DEF ShownInv
    <3> QED
      BY <1>1, <2>3, <3>2 DEF OnAws!Show
  <2>4. CASE ShownArn(cache) = "arn" /\ ShownArn(cache') = ""
    <3>1. ~HasArn
      BY <2>1, <2>4 DEF ShownArn, HasArn
    <3>2. ~iamPolicy.exists
      BY <2>4, <3>1 DEF ShownInv
    <3> QED
      BY <1>1, <2>4, <3>2 DEF OnAws!Forget
  <2>5. \/ ShownArn(cache) = "" /\ ShownArn(cache') = "arn"
        \/ ShownArn(cache) = "arn" /\ ShownArn(cache') = ""
    BY <1>3, <2>2
  <2> QED
    BY <2>3, <2>4, <2>5
<1> QED
  BY <1>2, <1>3

(* Nor does anything else change the cache. *)
LEMMA OthersLeaveTheCache ==
  ASSUME IInv, ReconcilerStep \/ UserStep
  PROVE  cache' = cache
<1>1. LifecycleStep => cache' = cache
  BY DEF LifecycleStep, Reconcile, RegisterFinalizer, UpdateStatus, DeleteResource,
     RemoveFinalizer, HoldUpdated, UnchangedWorld
<1>2. SetPolicyArnField => cache' = cache
  BY DEF SetPolicyArnField, HoldUpdated, UnchangedWorld
<1>3. RoutineStep \/ FinalizerStep => cache' = cache
  BY <1>2, RoutineIsQuiet, FinalizerIsQuiet DEF QuietStep, UnchangedCluster, UnchangedWorld
<1>4. UserStep => cache' = cache
  BY DEF UserStep, SetStatement, ChangeSpec, CreateResource, RequestDeletion, Attach, Detach,
     ActElsewhere, Act
<1> QED
  BY <1>1, <1>3, <1>4 DEF ReconcilerStep

(* The users attach the AWS policy while it is there; they and the         *)
(* finalizer detach it.                                                    *)
LEMMA WhoAttaches ==
  ASSUME IInv, ReconcilerStep \/ UserStep, attached' # attached
  PROVE  /\ iamPolicy' = iamPolicy
         /\ \E entity \in Entities : \/ iamPolicy.exists /\ attached' = attached \cup {entity}
                                    \/ attached' = attached \ {entity}
<1>1. ~UNCHANGED iamVars
  BY DEF iamVars
<1>2. CASE UserStep
  BY <1>1, <1>2 DEF UserStep, SetStatement, Attach, Detach
<1>3. CASE DetachRolePolicy
  <2>1. PICK role \in worker.todo, applied \in BOOLEAN, ok \in BOOLEAN :
          /\ Call("iam", role \in attached, applied, ok)
          /\ attached' = IF applied THEN attached \ {role} ELSE attached
    BY <1>3 DEF DetachRolePolicy
  <2>2. attached' = attached \ {role} /\ role \in attached
    BY <2>1 DEF Call
  <2>3. role \in Entities
    BY <2>2, Halves DEF IamTypes
  <2> QED
    BY <1>3, <2>2, <2>3 DEF DetachRolePolicy
<1>4. CASE RoutineStep
  BY <1>1, <1>4 DEF RoutineStep, AdmissionStep, GetPolicyARN, CreatePolicy, SetPolicyArnField,
     GetStatement, ListPolicyVersions, DeleteOldestPolicyVersion, CreatePolicyVersion
<1>5. CASE FinalizerStep
  BY <1>1, <1>3, <1>5 DEF FinalizerStep, NothingToUndo, PolicyExists, ListEntitiesForPolicy,
     ListVersionsToDelete, DeletePolicyVersion, DeletePolicy
<1> QED
  BY <1>1, <1>2, <1>4, <1>5 DEF ReconcilerStep

(* What the reconciler and the users do to the AWS policy. *)
LEMMA OtherStepsAreShared ==
  ASSUME IInv, IInv', TargetInv, ShownInv, ReconcilerStep \/ UserStep
  PROVE  [OnAws!Next]_(OnAws!vars)
<1>1. cache' = cache /\ [Next]_vars
  BY OthersLeaveTheCache DEF Next
<1>2. iamPolicy.exists \in BOOLEAN /\ iamPolicy'.exists \in BOOLEAN
  BY Halves DEF IInv, TypeOK, IamPolicies
<1>3. CASE attached' # attached
  <2>1. PICK entity \in Entities : \/ iamPolicy.exists /\ attached' = attached \cup {entity}
                                   \/ attached' = attached \ {entity}
    BY <1>3, WhoAttaches
  <2>2. iamPolicy' = iamPolicy
    BY <1>3, WhoAttaches
  <2>3. OnAws!Attach(entity) \/ OnAws!Detach(entity)
    BY <1>1, <2>1, <2>2 DEF OnAws!Attach, OnAws!Detach
  <2> QED
    BY <2>3 DEF OnAws!Next
<1>4. CASE attached' = attached
  <2>1. CASE iamPolicy'.exists = iamPolicy.exists
    BY <1>1, <1>4, <2>1 DEF OnAws!vars
  <2>2. CASE iamPolicy'.exists /\ ~iamPolicy.exists
    <3>1. ShownArn(cache) = ""
      BY <1>1, <2>2, MakingIsUnseen
    <3> QED
      BY <1>1, <1>2, <1>4, <2>2, <3>1 DEF OnAws!Next, OnAws!Make
  <2>3. CASE ~iamPolicy'.exists /\ iamPolicy.exists
    <3>1. attached = {}
      BY <1>1, <2>3, OnlyDeletePolicyRemoves
    <3> QED
      BY <1>1, <1>2, <1>4, <2>3, <3>1 DEF OnAws!Next, OnAws!Delete
  <2> QED
    BY <1>2, <2>1, <2>2, <2>3
<1> QED
  BY <1>3, <1>4

(***************************************************************************)
(* The Policy reconciler implements PolicyOnAws: those who read the ARN in *)
(* the cache and attach the AWS policy see it appear once the policy is    *)
(* there and leave once it is gone; no policy is deleted that is attached, *)
(* and none is made while the cache shows the ARN of another.              *)
(***************************************************************************)
THEOREM AwsPolicyIsShared == Spec => IsShared
<1>1. Init => OnAws!Init
  <2> SUFFICES ASSUME Init PROVE OnAws!Init
    OBVIOUS
  <2>1. cache = NoResource /\ iamPolicy.exists = FALSE /\ attached = {}
    BY DEF Init, InitReconciler, NoIamPolicy
  <2> QED
    BY <2>1, NoResourceFields DEF ShownArn, OnAws!Init
<1>2. IInv /\ IInv' /\ TargetInv /\ ShownInv /\ [Next]_vars => [OnAws!Next]_(OnAws!vars)
  <2> SUFFICES ASSUME IInv, IInv', TargetInv, ShownInv, [Next]_vars
               PROVE  [OnAws!Next]_(OnAws!vars)
    OBVIOUS
  <2>1. CASE InformerStep
    BY <2>1, InformerStepIsShared DEF OnAws!Next
  <2>2. CASE UNCHANGED vars
    BY <2>2 DEF vars, reconcilerVars, iamVars, OnAws!vars
  <2> QED
    BY <2>1, <2>2, OtherStepsAreShared DEF Next
<1> QED
  BY <1>1, <1>2, CacheShowsTheTruth, TargetIsKept, Invariance, PTL DEF Spec, IsShared, OnAws!Spec

(***************************************************************************)
(* The finalizer changes nothing on AWS while a live resource has recorded *)
(* its ARN: a worker that is late by an incarnation is past its first step *)
(* only as long as the successor has neither finalizer nor ARN.            *)
(***************************************************************************)
THEOREM TheLiveAreSpared == Spec => FinalizerSparesTheLive
<1>1. ASSUME IInv, FinalizerStep, Alive(resource), HasArn
      PROVE  UNCHANGED iamVars
  <2>1. CASE NothingToUndo \/ PolicyExists
    BY <2>1 DEF NothingToUndo, PolicyExists
  <2>2. CASE worker.pc \in FinalizerSteps
    <3>1. Busy /\ worker.obj.deleting
      BY <1>1, <2>2 DEF IInv, StepsJustified, ExecutesFinalizer, Busy
    <3>2. resource.uid # worker.obj.uid
      BY <1>1, <3>1 DEF IInv, CopiesInv, CopiesTruthful, DoomedStays
    <3>3. ~resource.finalizer
      BY <1>1, <3>1, <3>2 DEF IInv, CopiesInv, CopiesTruthful, SuccessorIsNew, HasArn
    <3> QED
      BY <1>1, <3>3 DEF IInv, ArnJustified
  <2> QED
    BY <1>1, <2>1, <2>2 DEF FinalizerStep, ListEntitiesForPolicy, DetachRolePolicy,
       ListVersionsToDelete, DeletePolicyVersion, DeletePolicy
<1>2. IInv => [FinalizerStep /\ Alive(resource) /\ HasArn => UNCHANGED iamVars]_vars
  BY <1>1
<1> QED
  BY <1>2, Invariance, PTL DEF FinalizerSparesTheLive

=============================================================================
