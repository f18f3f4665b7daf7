-------------------------- MODULE PolicyController --------------------------
(***************************************************************************)
(* The Policy reconciler (controllers/policy_controller.go) with the IAM   *)
(* calls it makes (aws/aws.go), for one Policy resource and the AWS policy *)
(* that carries its name.                                                  *)
(*                                                                         *)
(* Abstractions, beside those of Reconciler: the ARN is "" or "arn", as    *)
(* the name and path determine it; of the versions of an AWS policy that   *)
(* are not its default one, only the number is kept; IAM reads see every   *)
(* completed write.                                                        *)
(***************************************************************************)
EXTENDS Reconciler, Statements, FiniteSets

CONSTANTS
    StatementChoices,   \* the statements users write
    AcceptedStatements, \* the statements whose document IAM accepts
    Roles,              \* the IAM roles the policy may be attached to
    Users,              \* the IAM users and groups it may be attached to
    NameTooLong,        \* TRUE if AwsName is longer than the 64 characters accepted
    MaxVersions         \* how many versions a policy may have on AWS (5, scaled down)

ASSUME PolicyAssumption == NameTooLong \in BOOLEAN /\ MaxVersions \in Nat \ {0, 1}

VARIABLES
    iamPolicy,   \* the AWS policy under the resource's name and path
    attached     \* the IAM roles, users and groups it is attached to

iamVars == <<iamPolicy, attached>>
vars    == <<reconcilerVars, iamVars>>

-----------------------------------------------------------------------------
(* Data *)

PolicySpec(arn, statement) == [arn |-> arn, statement |-> statement]

\* The default version of an AWS policy, and how many versions it has besides.
NoIamPolicy               == [exists |-> FALSE, document |-> <<>>, old |-> 0]
IamPolicy(statement, old) == [exists |-> TRUE, document |-> NewPolicyDocument(statement), old |-> old]

Validate(p) == ValidStatements(p.spec.statement) /\ ~NameTooLong

-----------------------------------------------------------------------------
(* reconcilerRoutine *)

AdmissionStep == Admission(Validate(worker.obj)) /\ UNCHANGED iamVars

\* A mutant: an error of the listing is taken for a policy.
FoundOrFailed(ok) == ~ok \/ iamPolicy.exists

\* An error of the listing is answered like an empty listing.
FoundPolicy(ok) == ok /\ iamPolicy.exists

GetPolicyARN ==
    /\ worker.pc = "got"
    /\ InRoutine(worker.obj)
    /\ worker.obj.spec.arn = ""
    /\ \E ok \in BOOLEAN :
         /\ Answer("iam", ok)
         /\ Goto(IF FoundPolicy(ok) THEN "setArn" ELSE "create")
    /\ UnchangedCluster /\ UNCHANGED iamVars

\* A conflict (the name is taken) is answered like a success.  IAM judges the
\* document by rules of its own: the routine runs on what validation refused too.
CreatePolicy ==
    /\ worker.pc = "create"
    /\ \E applied, ok \in BOOLEAN :
         /\ Call("iam", worker.obj.spec.statement \in AcceptedStatements, applied, ok)
         /\ iamPolicy' = IF applied /\ ~iamPolicy.exists THEN IamPolicy(worker.obj.spec.statement, 0)
                                                         ELSE iamPolicy
         /\ IF ok THEN Report(Progress("policy created"), "requeue")
                  ELSE Fail("create failed")
    /\ UNCHANGED attached /\ UnchangedCluster

\* The outcome of the update is ignored; only a status update can follow, which
\* sends nothing of the spec, so the local copy keeps its ARN when it fails.
SetPolicyArnField ==
    /\ worker.pc = "setArn"
    /\ \E applied, ok \in BOOLEAN :
         /\ Update([resource EXCEPT !.spec.arn = "arn"], applied, ok)
         /\ worker' = [worker EXCEPT !.pc = "status", !.next = "return",
                                     !.obj = IF ok THEN resource' ELSE @,
                                     !.status = Progress("policy found")]
         /\ HoldUpdated(ok) /\ Ignored
    /\ UNCHANGED queued /\ UNCHANGED iamVars

\* The policy AWS holds is the one the copy asks for.
SameOnAws(p) ==
    iamPolicy.exists /\ StatementEquals(p.spec.statement, StatementSpecs(iamPolicy.document))

GetStatement ==
    /\ worker.pc = "got"
    /\ InRoutine(worker.obj)
    /\ worker.obj.spec.arn # ""
    /\ \E ok \in BOOLEAN :
         /\ Answer("iam", ok)
         /\ \/ ~FoundPolicy(ok) /\ Fail("get failed")
            \/ FoundPolicy(ok) /\ ~SameOnAws(worker.obj) /\ Goto("update")
            \/ ok /\ SameOnAws(worker.obj) /\ NeedsOk(worker.obj) /\ Report(AllDone, "return")
            \/ ok /\ SameOnAws(worker.obj) /\ ~NeedsOk(worker.obj) /\ Return(FALSE)
    /\ UnchangedCluster /\ UNCHANGED iamVars

\* A mutant: no version is ever deleted.
NeverFull == FALSE

\* The policy has as many versions as IAM accepts.
IsFull == iamPolicy.old + 1 >= MaxVersions

\* UpdatePolicy makes room for a new version first.
ListPolicyVersions ==
    /\ worker.pc = "update"
    /\ \E ok \in BOOLEAN :
         /\ Answer("iam", ok)
         /\ \/ ~FoundPolicy(ok) /\ Fail("update failed")
            \/ FoundPolicy(ok) /\ Goto(IF IsFull THEN "trim" ELSE "newVersion")
    /\ UnchangedCluster /\ UNCHANGED iamVars

DeleteOldestPolicyVersion ==
    /\ worker.pc = "trim"
    /\ \E applied, ok \in BOOLEAN :
         /\ Call("iam", iamPolicy.old > 0, applied, ok)
         /\ iamPolicy' = IF applied THEN [iamPolicy EXCEPT !.old = @ - 1] ELSE iamPolicy
         /\ IF ok THEN Goto("newVersion") ELSE Fail("update failed")
    /\ UNCHANGED attached /\ UnchangedCluster

\* IAM takes a document that it accepts for a policy that has room.
VersionAccepted(statement) ==
    iamPolicy.exists /\ iamPolicy.old + 1 < MaxVersions /\ statement \in AcceptedStatements

CreatePolicyVersion ==
    /\ worker.pc = "newVersion"
    /\ \E applied, ok \in BOOLEAN :
         /\ Call("iam", VersionAccepted(worker.obj.spec.statement), applied, ok)
         /\ iamPolicy' = IF applied THEN IamPolicy(worker.obj.spec.statement, iamPolicy.old + 1)
                                    ELSE iamPolicy
         /\ IF ok THEN Report(Progress("policy updated"), "requeue")
                  ELSE Fail("update failed")
    /\ UNCHANGED attached /\ UnchangedCluster

-----------------------------------------------------------------------------
(* The finalizer *)

\* Without an ARN there is nothing to undo on AWS.
NothingToUndo ==
    /\ worker.pc = "got"
    /\ ExecutesFinalizer(worker.obj)
    /\ worker.obj.spec.arn = ""
    /\ Goto("removeFinalizer")
    /\ UNCHANGED faults /\ UnchangedCluster /\ UNCHANGED iamVars

\* Mutants: an error is taken for an absence; the policy is never looked for.
AbsentOrFailed(ok) == ~ok \/ ~iamPolicy.exists
NeverAbsent(ok) == FALSE

\* Only a certain absence skips the deletion.
CertainlyAbsent(ok) == ok /\ ~iamPolicy.exists

PolicyExists ==
    /\ worker.pc = "got"
    /\ ExecutesFinalizer(worker.obj)
    /\ worker.obj.spec.arn # ""
    /\ \E ok \in BOOLEAN :
         /\ Answer("iam", ok)
         /\ Goto(IF CertainlyAbsent(ok) THEN "removeFinalizer" ELSE "list")
    /\ UnchangedCluster /\ UNCHANGED iamVars

(***************************************************************************)
(* DeletePolicy gets the policy (an error other than "not found" is        *)
(* ignored) and lists what it is attached to: an absent policy is a        *)
(* success at once, and more than one role an error.  It does not look at  *)
(* the users and the groups.                                               *)
(***************************************************************************)
AttachedRoles == attached \cap Roles

ListEntitiesForPolicy ==
    /\ worker.pc = "list"
    /\ \E ok \in BOOLEAN :
         /\ Answer("iam", ok)
         /\ \/ ok /\ ~iamPolicy.exists /\ Goto("deleteCR")
            \/ ok /\ iamPolicy.exists /\ AttachedRoles = {} /\ Goto("delete")
            \/ /\ ok /\ iamPolicy.exists /\ Cardinality(AttachedRoles) = 1
               /\ worker' = [worker EXCEPT !.pc = "detach", !.todo = AttachedRoles]
               /\ UNCHANGED queued
            \/ /\ ~ok \/ (iamPolicy.exists /\ Cardinality(AttachedRoles) > 1)
               /\ Fail("delete failed")
    /\ UnchangedCluster /\ UNCHANGED iamVars

DetachRolePolicy ==
    /\ worker.pc = "detach"
    /\ \E role \in worker.todo, applied, ok \in BOOLEAN :
         /\ Call("iam", role \in attached, applied, ok)
         /\ attached' = IF applied THEN attached \ {role} ELSE attached
         /\ IF ok THEN worker' = [worker EXCEPT !.pc = "delete", !.todo = {}] /\ UNCHANGED queued
                  ELSE Fail("delete failed")
    /\ UNCHANGED iamPolicy /\ UnchangedCluster

\* Mutants: the versions are left in place; the default one is not skipped.
NoVersions  == {}
AllVersions == 0..iamPolicy.old

\* The versions that are not the default one.
OldVersions == 1..iamPolicy.old

\* The versions are listed.  An error is returned when IAM has not answered at
\* all; when IAM has answered it, the list is taken for empty.
ListVersionsToDelete ==
    /\ worker.pc = "delete"
    /\ \E ok \in BOOLEAN :
         /\ Answer("iam", ok)
         /\ \/ ok /\ ~iamPolicy.exists /\ Goto("deleteCR")
            \/ /\ ok /\ iamPolicy.exists /\ OldVersions # {}
               /\ worker' = [worker EXCEPT !.pc = "purge", !.todo = OldVersions]
               /\ UNCHANGED queued
            \/ ok /\ iamPolicy.exists /\ OldVersions = {} /\ Goto("deletePolicy")
            \/ ~ok /\ (Goto("deletePolicy") \/ Fail("delete failed"))
    /\ UnchangedCluster /\ UNCHANGED iamVars

\* Each version is deleted, and the outcome ignored.
DeletePolicyVersion ==
    /\ worker.pc = "purge"
    /\ \E version \in worker.todo, applied, ok \in BOOLEAN :
         /\ Call("iam", iamPolicy.old > 0, applied, ok)
         /\ iamPolicy' = IF applied THEN [iamPolicy EXCEPT !.old = @ - 1] ELSE iamPolicy
         /\ worker' = [worker EXCEPT !.todo = @ \ {version},
                                     !.pc = IF worker.todo = {version} THEN "deletePolicy" ELSE @]
    /\ UNCHANGED <<attached, queued>> /\ UnchangedCluster

\* IAM deletes a policy that has one version and is attached to nothing; an
\* absent policy is a success.
DeletePolicy ==
    /\ worker.pc = "deletePolicy"
    /\ \E applied, ok \in BOOLEAN :
         /\ Call("iam", attached = {} /\ iamPolicy.old = 0, applied, ok)
         /\ iamPolicy' = IF applied THEN NoIamPolicy ELSE iamPolicy
         /\ IF ok THEN Goto("deleteCR") ELSE Fail("delete failed")
    /\ UNCHANGED attached /\ UnchangedCluster

-----------------------------------------------------------------------------
(* The users: the owner of the Policy (the IamRoleServiceAccount           *)
(* reconciler), and those who attach the AWS policy (the Role reconciler,  *)
(* people with the AWS console).                                           *)

Entities == Roles \cup Users

\* The owner's update sends a whole cached copy; the version guards the rest.
SetStatement(statement) ==
    /\ resource.exists
    /\ ChangeSpec([resource.spec EXCEPT !.statement = statement])
    /\ UNCHANGED iamVars

Attach(entity) ==
    /\ ActElsewhere
    /\ iamPolicy.exists
    /\ entity \notin attached
    /\ attached' = attached \cup {entity}
    /\ UNCHANGED iamPolicy

Detach(entity) ==
    /\ ActElsewhere
    /\ entity \in attached
    /\ attached' = attached \ {entity}
    /\ UNCHANGED iamPolicy

-----------------------------------------------------------------------------
Init == InitReconciler /\ iamPolicy = NoIamPolicy /\ attached = {}

RoutineStep ==
    \/ AdmissionStep
    \/ GetPolicyARN \/ CreatePolicy \/ SetPolicyArnField
    \/ GetStatement
    \/ ListPolicyVersions \/ DeleteOldestPolicyVersion \/ CreatePolicyVersion

FinalizerStep ==
    \/ NothingToUndo \/ PolicyExists
    \/ ListEntitiesForPolicy \/ DetachRolePolicy
    \/ ListVersionsToDelete \/ DeletePolicyVersion \/ DeletePolicy

ReconcilerStep == (LifecycleStep /\ UNCHANGED iamVars) \/ RoutineStep \/ FinalizerStep

InformerStep == (CacheSync \/ Enqueue \/ Crash) /\ UNCHANGED iamVars

UserStep ==
    \/ \E s \in StatementChoices : SetStatement(s) \/ (CreateResource(PolicySpec("", s)) /\ UNCHANGED iamVars)
    \/ RequestDeletion /\ UNCHANGED iamVars
    \/ \E entity \in Entities : Attach(entity) \/ Detach(entity)

Next == ReconcilerStep \/ InformerStep \/ UserStep

Spec == Init /\ [][Next]_vars

(***************************************************************************)
(* A queued key is eventually taken by one of the ten workers, every call  *)
(* returns, and the watch delivers; users, faults and crashes owe nothing. *)
(***************************************************************************)
FairSpec ==
    /\ Spec
    /\ WF_vars(ReconcilerStep)
    /\ WF_vars(CacheSync /\ UNCHANGED iamVars)
    /\ WF_vars(Enqueue /\ UNCHANGED iamVars)

-----------------------------------------------------------------------------
(* Properties *)

PolicySpecs == [arn : {"", "arn"}, statement : StatementChoices]

UpdateSteps    == {"update", "trim", "newVersion"}
FinalizerSteps == {"list", "detach", "delete", "purge", "deletePolicy"}

Steps == {"create", "setArn"} \cup UpdateSteps \cup FinalizerSteps

IamPolicies ==
    [exists : BOOLEAN, document : {NewPolicyDocument(s) : s \in StatementChoices} \cup {<<>>},
     old : 0..(MaxVersions - 1)]

\* What a finalizer goes through one by one: roles, and versions that are not
\* the default one.
Items == Roles \cup 1..(MaxVersions - 1)

TypeOK ==
    /\ ReconcilerTypes(PolicySpecs, Steps, Items)
    /\ iamPolicy \in IamPolicies
    /\ attached \subseteq Entities

\* The stored resource carries an ARN.
HasArn == resource.exists /\ resource.spec.arn # ""

(***************************************************************************)
(* The AWS policy is only ever created while the resource is stored with   *)
(* the finalizer that will clean it up, although the worker decides on a   *)
(* cached copy (registerFinalizerIfNeeded before reconcilerRoutine).       *)
(***************************************************************************)
FinalizerGuardsIam ==
    [][~iamPolicy.exists /\ iamPolicy'.exists => resource.exists /\ resource.finalizer]_vars

(***************************************************************************)
(* A resource that carries an ARN vanishes only once its AWS policy is     *)
(* gone, whatever failed on the way (executeFinalizerIfPresent).           *)
(***************************************************************************)
FinalizedCleanly == [][Vanishes /\ HasArn => ~iamPolicy.exists]_vars

(***************************************************************************)
(* A resource nobody asked to delete keeps the AWS policy its ARN names:   *)
(* the finalizer of a predecessor never destroys it.                       *)
(***************************************************************************)
ArnIsReal == HasArn /\ ~resource.deleting => iamPolicy.exists

(***************************************************************************)
(* A version is only ever made for a policy that has room for it, however  *)
(* many updates came before and wherever one of them broke off             *)
(* (deleteOldestPolicyVersionIfNeeded, at most MaxVersions).               *)
(***************************************************************************)
RoomIsMade == worker.pc = "newVersion" => iamPolicy.old + 1 < MaxVersions

\* "created" is written.
BecomesOk == resource.status.condition # CrOK /\ resource'.status.condition = CrOK

(***************************************************************************)
(* The finalizer leaves the AWS policy that a live resource has recorded   *)
(* alone, with its versions and its attachments, although it works on a    *)
(* copy and may be late by an incarnation (executeFinalizerIfPresent).     *)
(***************************************************************************)
FinalizerSparesTheLive ==
    [][FinalizerStep /\ Alive(resource) /\ HasArn => UNCHANGED iamVars]_vars

(***************************************************************************)
(* When "created" is written on a resource, AWS holds a policy that the    *)
(* controller finds equal to the spec stored at that moment, although the  *)
(* comparison was made before, on a copy (reconcilerRoutine).              *)
(***************************************************************************)
OkIsTrue == [][BecomesOk => SameOnAws(resource')]_vars

(***************************************************************************)
(* What is written as "created" grants on AWS exactly the actions of the   *)
(* spec (the "meaningful difference" that IsSame is there to detect).      *)
(***************************************************************************)
OkGrantsTheSpec ==
    [][BecomesOk => Grants(NewPolicyDocument(resource'.spec.statement)) = Grants(iamPolicy.document)]_vars

(***************************************************************************)
(* The reconciler never deletes a resource that no user asked to delete:   *)
(* its own delete, by name, does not hit a successor while no call has     *)
(* failed.                                                                 *)
(***************************************************************************)
SuccessorSparedUnlessFaults ==
    [][Alive(resource) /\ ~Alive(resource') /\ faults' = 0 => RequestDeletion]_vars

Converged ==
    /\ resource.status.condition = CrOK
    /\ resource.spec.arn # ""
    /\ SameOnAws(resource)

(***************************************************************************)
(* When nothing is left to do - no worker, no key in the queue, no event   *)
(* on its way - no deletion is pending, and the resource and AWS agree,    *)
(* unless the last reconciliation ignored that an update failed:           *)
(* "converge to the policy.Spec", "for whatever condition"                 *)
(* (reconcilerRoutine).                                                    *)
(***************************************************************************)
RestsConverged ==
    Quiescent /\ resource.exists => Alive(resource) /\ (~dropped => Converged)

(***************************************************************************)
(* No AWS policy outlives its resource (the finalizer's purpose).          *)
(***************************************************************************)
NothingLeaks == [][Vanishes => ~iamPolicy.exists]_vars

(***************************************************************************)
(* Once the users and the failures stop, a resource that nobody deletes    *)
(* and whose statement IAM accepts reaches "created" with its ARN and its  *)
(* policy on AWS, unless the last reconciliation ignored that an update    *)
(* failed.                                                                 *)
(***************************************************************************)
EventuallyConverged ==
    <>[](Alive(resource) /\ resource.spec.statement \in AcceptedStatements /\ ~dropped => Converged)

\* DeletePolicy gives up: the policy has several roles, or users and groups,
\* which it leaves alone.
Undeletable == Cardinality(AttachedRoles) > 1 \/ attached \cap Users # {}

(***************************************************************************)
(* A deletion that was asked for completes, whatever failed on the way and *)
(* whatever the policy was attached to meanwhile, unless it is left        *)
(* attached to several roles or to a user or group for good                *)
(* (executeFinalizerIfPresent, DeletePolicy).                              *)
(***************************************************************************)
DeletionCompletes == resource.deleting ~> (~resource.deleting \/ []Undeletable)

-----------------------------------------------------------------------------
(* The abstract specification *)

\* A Policy as the others see it.
Seen(p) == Marks(p, p.exists /\ p.spec.arn # "")

Managed == INSTANCE ManagedResource WITH
    resource <- Seen(resource), made <- iamPolicy.exists, meddled <- FALSE,
    OkNeedsArn <- TRUE

(***************************************************************************)
(* Late copies, lost replies and crashes notwithstanding, a Policy and its *)
(* AWS policy take only the steps that the other controllers count on: the *)
(* finalizer comes first, an ARN is recorded once and for something that   *)
(* exists, "created" is said only of a Policy that has one and that nobody *)
(* deletes, and a Policy goes after what its ARN names.                    *)
(***************************************************************************)
IsManaged == Managed!Spec

\* The ARN in a copy of a Policy.
ShownArn(p) == IF p.exists THEN p.spec.arn ELSE ""

OnAws == INSTANCE PolicyOnAws WITH made <- iamPolicy.exists, arn <- ShownArn(cache)

(***************************************************************************)
(* Those who read the ARN in the cache and attach the AWS policy see it    *)
(* change as they count on: the ARN appears when the policy is there, and  *)
(* leaves after it; a policy that is attached is not deleted, and another  *)
(* is not made while the cache still shows the ARN of a predecessor.       *)
(***************************************************************************)
IsShared == OnAws!Spec

-----------------------------------------------------------------------------
(* The inductive invariant behind the safety properties *)

\* What the worker has established when it reaches a step.
StepsJustified ==
    /\ CommonStepsJustified
    /\ worker.pc \in {"create", "setArn"} \cup UpdateSteps => InRoutine(worker.obj)
    /\ worker.pc \in FinalizerSteps => ExecutesFinalizer(worker.obj)
    /\ worker.pc = "setArn" => iamPolicy.exists
    /\ worker.pc \in {"deleteCR", "removeFinalizer"} =>
           ~iamPolicy.exists \/ worker.obj.spec.arn = ""
    /\ worker.pc = "status" => worker.next \in {"return", "requeue", "ifFailed"}
    /\ worker.pc = "status" /\ worker.status.condition = CrOK =>
           Registered(worker.obj) /\ worker.obj.spec.arn # "" /\ SameOnAws(worker.obj)

\* The finalizer comes before the ARN, and the AWS policy too.
ArnJustified == (HasArn => resource.finalizer) /\ ArnIsReal

IInv == TypeOK /\ CopiesInv /\ ArnJustified /\ StepsJustified

-----------------------------------------------------------------------------
(* The inductive invariant behind SuccessorSparedUnlessFaults: the delete  *)
(* by name is on its way only while what it is meant for is still there.   *)

\* An incarnation keeps its ARN.
ArnStays(copy, r) == r.exists /\ r.uid = copy.uid /\ copy.spec.arn # "" => r.spec.arn # ""

\* A deleting incarnation with an ARN stays as long as there is an AWS policy.
StaysWithPolicy(copy, r, made) ==
    copy.deleting /\ copy.spec.arn # "" /\ made => r.exists /\ r.uid = copy.uid

\* What the finalizer works on.
TargetStays(copy) == ArnStays(copy, resource) /\ StaysWithPolicy(copy, resource, iamPolicy.exists)

TargetInv ==
    /\ cache.exists => TargetStays(cache)
    /\ Busy => TargetStays(worker.obj)
    /\ faults = 0 /\ worker.pc \in FinalizerSteps \cup {"deleteCR"} =>
           resource.exists /\ resource.uid = worker.obj.uid

-----------------------------------------------------------------------------
(* The inductive invariant behind IsShared: what the cache shows.          *)

\* A copy that shows the ARN of a Policy which is being deleted.
ShowsTheEnd(copy) == copy.exists /\ copy.deleting /\ copy.spec.arn # ""

ShownInv ==
    /\ HasArn /\ ~iamPolicy.exists => ShowsTheEnd(cache)
    /\ ShownArn(cache) # "" /\ ~HasArn => ~iamPolicy.exists
    /\ worker.pc \in FinalizerSteps => worker.obj.spec.arn # ""
    /\ Busy /\ resource.exists /\ resource.uid = worker.obj.uid =>
           /\ ShowsTheEnd(worker.obj) => ShowsTheEnd(cache)
           /\ ~worker.obj.deleting /\ HasArn => iamPolicy.exists

-----------------------------------------------------------------------------
(* The inductive invariant behind what is said of a resource at rest:      *)
(* while no failure was ignored, the outcome of an update tells the worker *)
(* whether its copy was the latest.                                        *)

NothingForgotten ==
    /\ LateIsWoken
    /\ ~dropped => LastWordIsNew
    /\ worker.pc = "setArn" => worker.obj.spec.arn = ""
    /\ RestsConverged

=============================================================================
