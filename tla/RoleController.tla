--------------------------- MODULE RoleController ---------------------------
(***************************************************************************)
(* The Role reconciler (controllers/role_controller.go) with the IAM calls *)
(* it makes (aws/aws.go), for one Role resource, the IAM role that carries *)
(* its name, and the Policy of the same name, which others reconcile.      *)
(*                                                                         *)
(* Abstractions, beside those of Reconciler: an ARN is "" or the one that  *)
(* its name determines; the trust policy and the permissions boundary are  *)
(* left out; IAM reads see every completed write.                          *)
(***************************************************************************)
EXTENDS Reconciler

CONSTANTS
    RoleName,              \* the name of the IAM role
    ForeignPolicies,       \* the policies that others may attach to it
    ServiceAccountNames,   \* the service account names users write
    NameTooLong            \* TRUE if AwsName is longer than the 64 characters accepted

ASSUME RoleAssumption == NameTooLong \in BOOLEAN /\ "arn" \notin ForeignPolicies

VARIABLES
    iamRole,     \* the IAM role exists
    foreign,     \* the policies of others that are attached to it
    attached,    \* the IAM roles the operator's policy is attached to
    iamPolicy,   \* the operator's policy is on AWS
    policyArn,   \* the ARN in the cached Policy, "" if there is none
    deeds        \* what others have done to the IAM role and its policy

roleVars   == <<iamRole, foreign, attached>>
policyVars == <<iamPolicy, policyArn, deeds>>
iamVars    == <<roleVars, policyVars>>
vars       == <<reconcilerVars, iamVars>>

-----------------------------------------------------------------------------
(* Data *)

RoleSpec(serviceAccountName, roleArn, policyArn_) ==
    [serviceAccountName |-> serviceAccountName, roleArn |-> roleArn, policyArn |-> policyArn_]

NewRoleSpec(serviceAccountName) == RoleSpec(serviceAccountName, "", "")

Validate(r) == r.spec.serviceAccountName # "" /\ ~NameTooLong

\* A mutant: the policies are listed by their names.
ListedByName == foreign \cup (attached \cap {RoleName})

\* What IAM lists as attached to the role.
AttachedPolicies == foreign \cup (IF RoleName \in attached THEN {"arn"} ELSE {})

\* IAM refuses every call about a role whose name is too long.
AnswerAboutRole(ok) == IF NameTooLong THEN ~ok /\ UNCHANGED faults ELSE Answer("iam", ok)

-----------------------------------------------------------------------------
(* reconcilerRoutine: the role on AWS *)

AdmissionStep == Admission(Validate(worker.obj)) /\ UNCHANGED iamVars

\* A mutant: the role is not looked up, its ARN follows from its name.
RoleAssumed ==
    /\ worker.pc = "got"
    /\ InRoutine(worker.obj)
    /\ worker.obj.spec.roleArn = ""
    /\ Goto("setArn")
    /\ UNCHANGED faults /\ UnchangedCluster /\ UNCHANGED iamVars

RoleExists ==
    /\ worker.pc = "got"
    /\ InRoutine(worker.obj)
    /\ worker.obj.spec.roleArn = ""
    /\ \E ok \in BOOLEAN :
         /\ AnswerAboutRole(ok)
         /\ \/ ~ok /\ Fail("check failed")
            \/ ok /\ iamRole /\ Goto("getArn")
            \/ ok /\ ~iamRole /\ Goto("create")
    /\ UnchangedCluster /\ UNCHANGED iamVars

\* setRoleArnField reports its failures itself, and its caller then reports
\* success in any case; an event is counted on to go on.
GetRoleARN ==
    /\ worker.pc = "getArn"
    /\ \E ok \in BOOLEAN :
         /\ AnswerAboutRole(ok)
         /\ \/ ok /\ iamRole /\ Goto("setArn")
            \/ ~(ok /\ iamRole) /\ Report(Error("get failed"), "found")
    /\ UnchangedCluster /\ UNCHANGED iamVars

SetRoleArnField ==
    /\ worker.pc = "setArn"
    /\ \E applied, ok \in BOOLEAN :
         /\ Update([resource EXCEPT !.spec.roleArn = "arn"], applied, ok)
         /\ worker' = [worker EXCEPT !.pc = IF ok THEN "found" ELSE "status", !.next = "found",
                                     !.obj = IF ok THEN resource' ELSE @,
                                     !.status = IF ok THEN @ ELSE Error("set failed")]
         /\ HoldUpdated(ok) /\ Ignored
    /\ UNCHANGED queued /\ UNCHANGED iamVars

RoleFound ==
    /\ worker.pc = "found"
    /\ Report(Progress("role found"), "return")
    /\ UNCHANGED faults /\ UnchangedCluster /\ UNCHANGED iamVars

\* The reconciliation goes on with the policy, without the ARN of the new role.
Onward(obj) == IF obj.spec.policyArn = "" THEN "getPolicy" ELSE "attach"

\* A conflict (the name is taken) is answered like a success.
CreateRole ==
    /\ worker.pc = "create"
    /\ \E applied, ok \in BOOLEAN :
         /\ Call("iam", ~NameTooLong, applied, ok)
         /\ iamRole' = (iamRole \/ applied)
         /\ IF ok THEN Report(Progress("role created"), Onward(worker.obj))
                  ELSE Fail("create failed")
    /\ UNCHANGED <<foreign, attached>> /\ UNCHANGED policyVars /\ UnchangedCluster

-----------------------------------------------------------------------------
(* reconcilerRoutine: the policy of the role *)

\* The worker is at the given step, with a role that has its ARN or was created.
At(step) ==
    \/ worker.pc = step
    \/ /\ worker.pc = "got"
       /\ InRoutine(worker.obj)
       /\ worker.obj.spec.roleArn # ""
       /\ Onward(worker.obj) = step

\* The ARN is taken from the cached Policy; without one, try again.
GetPolicy ==
    /\ At("getPolicy")
    /\ IF policyArn # "" THEN Goto("setPolicyArn") ELSE Return(TRUE)
    /\ UNCHANGED faults /\ UnchangedCluster /\ UNCHANGED iamVars

SetPolicyArnField ==
    /\ worker.pc = "setPolicyArn"
    /\ \E applied, ok \in BOOLEAN :
         /\ Update([resource EXCEPT !.spec.policyArn = "arn"], applied, ok)
         /\ IF ok THEN /\ worker' = [worker EXCEPT !.pc = "status", !.next = "requeue", !.obj = resource',
                                                   !.status = Progress("policy found")]
                       /\ UNCHANGED queued
                  ELSE Return(TRUE)
         /\ HoldUpdated(ok) /\ Retried
    /\ UNCHANGED iamVars

\* attachPolicyToRoleIfNeeded looks for the role first.  Without it, the message
\* it makes dereferences a nil error: the process panics.
RoleStillExists ==
    /\ At("attach")
    /\ \E ok \in BOOLEAN :
         /\ AnswerAboutRole(ok)
         /\ \/ ~ok /\ Fail("check failed")
            \/ ok /\ iamRole /\ Goto("listAttached")
            \/ ok /\ ~iamRole /\ Goto("panicked")
    /\ UnchangedCluster /\ UNCHANGED iamVars

\* A mutant: any policy counts as the operator's.
SomethingAttached == AttachedPolicies # {}

AlreadyAttached == "arn" \in AttachedPolicies

GetAttachedRolePoliciesARNs ==
    /\ worker.pc = "listAttached"
    /\ \E ok \in BOOLEAN :
         /\ AnswerAboutRole(ok)
         /\ \/ ~ok /\ Fail("list failed")
            \/ ok /\ ~AlreadyAttached /\ Goto("attachPolicy")
            \/ ok /\ AlreadyAttached /\ Goto("attached")
    /\ UnchangedCluster /\ UNCHANGED iamVars

AttachRolePolicy ==
    /\ worker.pc = "attachPolicy"
    /\ \E applied, ok \in BOOLEAN :
         /\ Call("iam", iamRole /\ iamPolicy, applied, ok)
         /\ attached' = IF applied THEN attached \cup {RoleName} ELSE attached
         /\ IF ok THEN Report(Progress("policy attached"), "attached")
                  ELSE Fail("attach failed")
    /\ UNCHANGED <<iamRole, foreign>> /\ UNCHANGED policyVars /\ UnchangedCluster

RoutineEnds ==
    /\ worker.pc = "attached"
    /\ IF NeedsOk(worker.obj) THEN Report(AllDone, "return") ELSE Return(FALSE)
    /\ UNCHANGED faults /\ UnchangedCluster /\ UNCHANGED iamVars

-----------------------------------------------------------------------------
(* The finalizer *)

\* A mutant: an error of the listing is answered like an empty listing.
NothingListed(ok) == ~ok \/ AttachedPolicies = {}

NothingAttached(ok) == ok /\ AttachedPolicies = {}

\* The head of the loop that waits until nothing is attached.
ListAttached ==
    /\ worker.pc = "list" \/ (worker.pc = "got" /\ ExecutesFinalizer(worker.obj))
    /\ \E ok \in BOOLEAN :
         /\ AnswerAboutRole(ok)
         /\ \/ NothingAttached(ok) /\ Report(Deleting("none attached"), "deleteRole")
            \/ /\ ok /\ AttachedPolicies # {}
               /\ worker' = [worker EXCEPT !.pc = "status", !.next = "detach",
                                           !.status = Deleting("still attached"),
                                           !.todo = AttachedPolicies]
               /\ UNCHANGED queued
            \/ ~ok /\ ~NothingAttached(ok) /\ Return(TRUE)
    /\ UnchangedCluster /\ UNCHANGED iamVars

\* Each policy that was listed is detached, and the outcome ignored; after a
\* while the loop lists again.
DetachRolePolicy ==
    /\ worker.pc = "detach"
    /\ \E p \in worker.todo, applied, ok \in BOOLEAN :
         /\ Call("iam", p \in AttachedPolicies, applied, ok)
         /\ foreign'  = IF applied THEN foreign \ {p} ELSE foreign
         /\ attached' = IF applied /\ p = "arn" THEN attached \ {RoleName} ELSE attached
         /\ worker' = [worker EXCEPT !.todo = @ \ {p},
                                     !.pc = IF worker.todo = {p} THEN "list" ELSE @]
    /\ UNCHANGED <<iamRole, queued>> /\ UNCHANGED policyVars /\ UnchangedCluster

\* An absent role is a success, and so is a conflict (a policy is attached).
DeleteRole ==
    /\ worker.pc = "deleteRole"
    /\ \E applied, ok \in BOOLEAN :
         /\ Call("iam", ~NameTooLong, applied, ok)
         /\ iamRole' = (iamRole /\ ~(applied /\ AttachedPolicies = {}))
         /\ IF ok THEN Report(Deleting("role deleted"), "deleteCR") ELSE Return(TRUE)
    /\ UNCHANGED <<foreign, attached>> /\ UNCHANGED policyVars /\ UnchangedCluster

-----------------------------------------------------------------------------
(* The Policy's side, and those who work on AWS by hand *)

ActOnAws(deed) == ActElsewhere /\ deeds' = deeds \cup deed

\* What the Policy reconciler lets the others see of its AWS policy.
OnAws == INSTANCE PolicyOnAws WITH
    Entities <- {RoleName}, made <- iamPolicy, arn <- policyArn

PolicyMade == ActOnAws({}) /\ OnAws!Make /\ UNCHANGED <<iamRole, foreign>>

\* The cache learns of the ARN, and that the Policy is gone, later.
PolicyShown ==
    /\ OnAws!Show
    /\ UNCHANGED reconcilerVars /\ UNCHANGED <<iamRole, foreign, deeds>>

PolicyForgotten ==
    /\ OnAws!Forget
    /\ UNCHANGED reconcilerVars /\ UNCHANGED <<iamRole, foreign, deeds>>

\* The finalizer of the Policy detaches the role, then deletes the policy.
PolicyDetached ==
    /\ ActOnAws({"policy"})
    /\ attached # {}
    /\ OnAws!Detach(RoleName)
    /\ UNCHANGED <<iamRole, foreign>>

PolicyDeleted == ActOnAws({"policy"}) /\ OnAws!Delete /\ UNCHANGED <<iamRole, foreign>>

AttachForeign ==
    /\ ActOnAws({"attach"})
    /\ iamRole
    /\ \E p \in ForeignPolicies \ foreign : foreign' = foreign \cup {p}
    /\ UNCHANGED <<iamRole, attached, iamPolicy, policyArn>>

DeleteIamRole ==
    /\ ActOnAws({"delete"})
    /\ iamRole
    /\ iamRole' = FALSE
    /\ foreign' = {}
    /\ attached' = attached \ {RoleName}
    /\ UNCHANGED <<iamPolicy, policyArn>>

-----------------------------------------------------------------------------
Init ==
    /\ InitReconciler
    /\ iamRole = FALSE
    /\ foreign = {}
    /\ attached = {}
    /\ iamPolicy = FALSE
    /\ policyArn = ""
    /\ deeds = {}

RoutineStep ==
    \/ AdmissionStep
    \/ RoleExists \/ GetRoleARN \/ SetRoleArnField \/ RoleFound \/ CreateRole
    \/ GetPolicy \/ SetPolicyArnField
    \/ RoleStillExists \/ GetAttachedRolePoliciesARNs \/ AttachRolePolicy \/ RoutineEnds

FinalizerStep == ListAttached \/ DetachRolePolicy \/ DeleteRole

ReconcilerStep == (LifecycleStep /\ UNCHANGED iamVars) \/ RoutineStep \/ FinalizerStep

\* A process that panicked is started again.
Recovery == worker.pc = "panicked" /\ Restart /\ UNCHANGED faults

InformerStep == (CacheSync \/ Enqueue \/ Crash \/ Recovery) /\ UNCHANGED iamVars

UserStep ==
    /\ \/ \E n \in ServiceAccountNames : CreateResource(NewRoleSpec(n))
       \/ RequestDeletion
    /\ UNCHANGED iamVars

OutsideStep ==
    \/ PolicyMade \/ PolicyShown \/ PolicyDetached \/ PolicyDeleted \/ PolicyForgotten
    \/ AttachForeign \/ DeleteIamRole

Next == ReconcilerStep \/ InformerStep \/ UserStep \/ OutsideStep

Spec == Init /\ [][Next]_vars

(***************************************************************************)
(* As in PolicyController: keys are taken, calls return, the watch         *)
(* delivers; and a process that panicked is started again.                 *)
(***************************************************************************)
FairSpec ==
    /\ Spec
    /\ WF_vars(ReconcilerStep)
    /\ WF_vars(CacheSync /\ UNCHANGED iamVars)
    /\ WF_vars(Enqueue /\ UNCHANGED iamVars)
    /\ WF_vars(Recovery /\ UNCHANGED iamVars)

-----------------------------------------------------------------------------
(* Properties *)

RoleSpecs ==
    [serviceAccountName : ServiceAccountNames, roleArn : {"", "arn"}, policyArn : {"", "arn"}]

Steps == {"getArn", "setArn", "found", "create", "getPolicy", "setPolicyArn",
          "attach", "listAttached", "attachPolicy", "attached", "panicked",
          "list", "detach", "deleteRole"}

\* What may be attached to the role.
Policies == ForeignPolicies \cup {"arn"}

TypeOK ==
    /\ ReconcilerTypes(RoleSpecs, Steps, Policies)
    /\ iamRole \in BOOLEAN
    /\ foreign \subseteq ForeignPolicies
    /\ attached \subseteq {RoleName}
    /\ iamPolicy \in BOOLEAN
    /\ policyArn \in {"", "arn"}
    /\ deeds \subseteq {"policy", "attach", "delete"}

\* Nobody but the Role reconciler took the role or its policy away on AWS.
Untouched == deeds \cap {"policy", "delete"} = {}

(***************************************************************************)
(* The IAM role is only ever created while the resource is stored with the *)
(* finalizer that will clean it up, although the worker decides on a       *)
(* cached copy (registerFinalizerIfNeeded before reconcilerRoutine).       *)
(***************************************************************************)
FinalizerGuardsIam == [][~iamRole /\ iamRole' => resource.exists /\ resource.finalizer]_vars

(***************************************************************************)
(* A resource vanishes only once its IAM role is gone, whatever failed on  *)
(* the way, unless somebody attached a policy by hand                      *)
(* (executeFinalizerIfPresent).                                            *)
(***************************************************************************)
NothingLeaksUnlessMeddled == [][Vanishes /\ "attach" \notin deeds => ~iamRole]_vars

(***************************************************************************)
(* A resource nobody asked to delete keeps the IAM role its ARN names,     *)
(* unless somebody deleted it by hand: the finalizer of a predecessor      *)
(* never destroys it.                                                      *)
(***************************************************************************)
ArnIsReal ==
    Alive(resource) /\ resource.spec.roleArn # "" /\ "delete" \notin deeds => iamRole

(***************************************************************************)
(* When "created" is written on a resource, its policy is attached to its  *)
(* IAM role on AWS, although that was found out before; only the Policy's  *)
(* own finalizer, or somebody by hand, may have undone it meanwhile.       *)
(***************************************************************************)
OkIsTrue ==
    [][resource.status.condition # CrOK /\ resource'.status.condition = CrOK =>
          /\ resource'.spec.policyArn # ""
          /\ Untouched => iamRole /\ RoleName \in attached]_vars

(***************************************************************************)
(* The reconciler never deletes a resource that no user asked to delete:   *)
(* its own delete, by name, does not hit a successor.                      *)
(***************************************************************************)
SuccessorSpared == [][Alive(resource) /\ ~Alive(resource') => RequestDeletion]_vars

(***************************************************************************)
(* The process survives whatever it finds on AWS                           *)
(* (attachPolicyToRoleIfNeeded).                                           *)
(***************************************************************************)
NeverPanics == worker.pc # "panicked"

\* What the Role needs of its Policy is there.
PolicyIsReady == policyArn # "" /\ iamPolicy

Converged ==
    /\ resource.status.condition = CrOK
    /\ resource.spec.roleArn # "" /\ resource.spec.policyArn # ""
    /\ iamRole
    /\ RoleName \in attached

(***************************************************************************)
(* When nothing is left to do - no worker, no key in the queue, no event   *)
(* on its way - no deletion is pending, and a Role whose Policy is ready   *)
(* agrees with AWS, unless the last reconciliation ignored that an update  *)
(* failed: the routine makes "the aws IAM role, with it's attachment       *)
(* converge to the role.Spec".                                             *)
(***************************************************************************)
RestsConverged ==
    Quiescent /\ resource.exists =>
        Alive(resource) /\ (PolicyIsReady /\ Untouched /\ ~dropped => Converged)

(***************************************************************************)
(* Once the users and the failures stop, a Role that nobody deletes, with  *)
(* its Policy ready, reaches "created" with its ARNs and with its policy   *)
(* attached on AWS, unless the last reconciliation ignored that an update  *)
(* failed.                                                                 *)
(***************************************************************************)
EventuallyConverged ==
    <>[](Alive(resource) /\ PolicyIsReady /\ Untouched /\ ~dropped => Converged)

(***************************************************************************)
(* A deletion that was asked for completes.                                *)
(***************************************************************************)
DeletionCompletes == resource.deleting ~> ~resource.deleting

-----------------------------------------------------------------------------
(* The abstract specification *)

\* A Role as the others see it.
Seen(r) == Marks(r, r.exists /\ r.spec.roleArn # "")

Managed == INSTANCE ManagedResource WITH
    resource <- Seen(resource), made <- iamRole,
    meddled <- deeds \cap {"attach", "delete"} # {}, OkNeedsArn <- FALSE

(***************************************************************************)
(* Late copies, lost replies and crashes notwithstanding, a Role and its   *)
(* IAM role take only the steps that the other controllers count on: the   *)
(* finalizer comes first, an ARN is recorded once and for something that   *)
(* exists, "created" is said only of a Role that nobody deletes, and a     *)
(* Role goes after what its ARN names.                                     *)
(***************************************************************************)
IsManaged == Managed!Spec

(***************************************************************************)
(* The AWS policy of a Role changes only as the Policy reconciler counts   *)
(* on: the Role reconciler attaches it while it is there, detaches it, and *)
(* does nothing else to it.                                                *)
(***************************************************************************)
IsShared == OnAws!Spec

-----------------------------------------------------------------------------
(* The inductive invariant behind the safety properties *)

\* The step that a worker is at, or goes to once it has reported.
Heading(w) == IF w.pc = "status" THEN w.next ELSE w.pc

AttachSteps    == {"attach", "listAttached", "attachPolicy", "attached"}
RoutineSteps   == AttachSteps \cup {"getArn", "setArn", "found", "create", "getPolicy", "setPolicyArn"}
FinalizerSteps == {"list", "detach", "deleteRole"}

\* "created" is about to be reported, or will be.
AboutToBeOk(w) == Heading(w) = "attached" \/ (w.pc = "status" /\ w.status.condition = CrOK)

\* What the worker has established when it reaches a step.
StepsJustified ==
    /\ CommonStepsJustified
    /\ Heading(worker) \in RoutineSteps => Registered(worker.obj)
    /\ Heading(worker) \in FinalizerSteps => ExecutesFinalizer(worker.obj)
    /\ Heading(worker) \in AttachSteps => worker.obj.spec.policyArn # ""
    /\ Heading(worker) = "setArn" => iamRole \/ "delete" \in deeds
    /\ AboutToBeOk(worker) => /\ Registered(worker.obj) /\ worker.obj.spec.policyArn # ""
                              /\ Untouched => iamRole /\ RoleName \in attached
    /\ Heading(worker) = "deleteRole" => "attach" \in deeds \/ AttachedPolicies = {}
    /\ Heading(worker) \in {"deleteCR", "removeFinalizer"} => "attach" \in deeds \/ ~iamRole

\* The finalizer comes before the role on AWS, and the role before its ARN and
\* before its attachments.
RoleJustified ==
    /\ resource.exists /\ resource.spec.roleArn # "" => resource.finalizer
    /\ iamRole => "attach" \in deeds \/ (resource.exists /\ resource.finalizer)
    /\ ArnIsReal
    /\ AttachedPolicies # {} => iamRole
    /\ foreign # {} => "attach" \in deeds

IInv == TypeOK /\ CopiesInv /\ RoleJustified /\ StepsJustified

-----------------------------------------------------------------------------
(* The inductive invariant behind what is said of a resource at rest:      *)
(* while no failure was ignored, the outcome of an update tells the worker *)
(* whether its copy was the latest.                                        *)

\* What the worker says and what it has seen, from step to step.
WordsFit(w) ==
    /\ w.pc = "status" /\ w.next = "found" => w.status.condition = CrError
    /\ w.pc = "status" /\ w.next \in AttachSteps => w.status.condition = CrProgressing
    /\ Heading(w) \in {"getArn", "setArn"} => w.obj.spec.roleArn = ""
    /\ w.pc \in AttachSteps /\ ~NeedsOk(w.obj) => w.obj.spec.roleArn # ""

\* "role found" is said after an update of the ARN or after an error.
FoundIsNew == worker.pc = "found" => Stirring \/ worker.obj.status.condition = CrError

\* Whether its Policy is ready or not: without its ARN the worker tries again.
Rests == Quiescent /\ resource.exists => Alive(resource) /\ (Untouched /\ ~dropped => Converged)

NothingForgotten ==
    /\ LateIsWoken
    /\ ~dropped => LastWordIsNew /\ FoundIsNew
    /\ WordsFit(worker)
    /\ Rests

=============================================================================
