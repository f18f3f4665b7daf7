# The irsa-operator, in TLA+

The irsa-operator gives pods of an EKS cluster an IAM role: a user writes an
`IamRoleServiceAccount`, and the operator makes of it a policy and a role on AWS
and a service account in the cluster. This directory holds its formal model: the
TLA+ modules, the configurations that check them with TLC, and the proofs that
TLAPS checks.

All paths below are relative to `src/`.

## 1. The system

| Component | State it keeps | Operations |
|---|---|---|
| IamRoleServiceAccount reconciler, `controllers/iamroleserviceaccount_controller.go` | the status and finalizer of its resource; the Policy, the Role and the ServiceAccount it owns | `Reconcile`, `admissionStep`, `reconcilerRoutine` (create or update the Policy, create the Role, create the ServiceAccount), `executeFinalizerIfPresent` |
| Policy reconciler, `controllers/policy_controller.go` | the ARN, status and finalizer of a Policy; the AWS policy | `Reconcile`, `admissionStep`, `reconcilerRoutine`, `executeFinalizerIfPresent` |
| Role reconciler, `controllers/role_controller.go` | the ARNs, status and finalizer of a Role; the IAM role and its attachments | the same four, and `attachPolicyToRoleIfNeeded` |
| AWS manager, `aws/aws.go`, `aws/types.go` | none: a layer over IAM that decides which errors are successes | `GetStatement`, `UpdatePolicy`, `CreatePolicy`, `PolicyExists`, `GetPolicyARN`, `DeletePolicy`, `RoleExists`, `GetRoleARN`, `GetAttachedRolePoliciesARNs`, `CreateRole`, `DetachRolePolicy`, `AttachRolePolicy`, `DeleteRole` |
| Resources, `api/v1alpha1/*_types.go` | the specs and the statuses | validation, comparison of statements, names on AWS |
| Manager, `main.go` | the caches and the work queues of controller-runtime | starts the three controllers, ten workers each |

The components never call each other. They interact through the resources on the
API server (the IamRoleServiceAccount reconciler writes the Policy's statements,
the Role reconciler reads the Policy's ARN, both through the cache), through IAM
(the Policy's finalizer detaches the role that the Role reconciler attached), and
through events: a change of a resource reaches the informer's cache, and then,
later, the work queue of its controller; a change of an owned resource also
reaches the queue of the IamRoleServiceAccount.

### What is hard

* A reconciliation starts from the **cached** copy of its resource. Between two
  of its remote calls the resource may be changed, deleted, or deleted and
  created again. Updates carry the resource version of the copy; deletions and
  IAM calls carry nothing.
* Any call may **fail** before or after its effect. The code retries some
  failures (`Requeue: true`), drops others (most status updates,
  `setPolicyArnField`, `setRoleArnField`) and counts on an event instead.
* The process may **stop** between two calls, and one path stops it by a panic.
* What is **found on AWS** may have been left by an earlier attempt, or by an
  earlier resource of the same name.
* Two finalizers **undo** what two reconcilers did, in any order.

### What makes each component correct

* Policy: the AWS policy follows the spec; "created" is only written when it
  does; the AWS policy goes with the resource; a finalizer never destroys what
  belongs to a successor.
* Role: the same for the IAM role and its attachment; no role is left behind; the
  controller survives whatever IAM answers.
* AWS manager: an error is never taken for an absence, nor an absence for a
  presence, where something is created or destroyed because of it; an AWS policy
  never needs a sixth version.
* IamRoleServiceAccount: the three resources exist when it is "created"; a
  service account of somebody else is neither taken over nor deleted; the whole
  disappears when it is deleted.
* Statements and names: two statements are equal when they grant the same; two
  resources have different names on AWS.

## 2. The modules

| Module | What it models |
|---|---|
| `Services` | a call to the API server or to IAM: its effect, its answer, and how it may fail (external) |
| `Reconciler` | what the three controllers have in common: one resource, its copy in the cache, the work queue, the worker, and the steps whose code is the same |
| `Statements` | the validation and the comparison of statements (`policy_types.go`), and their conversions to and from the documents of IAM (`aws/types.go`) |
| `PolicyController` | the Policy reconciler with the IAM calls it makes, for one Policy |
| `RoleController` | the Role reconciler with the IAM calls it makes, for one Role and the Policy of its name |
| `IrsaController` | the IamRoleServiceAccount reconciler, for one resource and the Policy, the Role and the ServiceAccount it makes; the other controllers and the garbage collector act on these |
| `ManagedResource` | an abstract specification: what the reconciler of a Policy or of a Role promises to the others |
| `PolicyOnAws` | an abstract specification: the AWS policy between the Policy reconciler, which makes and deletes it, and the Role reconciler, which attaches it |
| `MCPolicyController`, `MCRoleController`, `MCIrsaController` | the small instances that TLC checks |
| `ReconcilerProofs` | the lemmas about the common part |
| `PolicyControllerProofs`, `RoleControllerProofs`, `IrsaControllerProofs` | the theorems about the three reconcilers |
| `PolicyRestProofs`, `RoleRestProofs`, `IrsaRestProofs` | the theorems about what is true when a reconciler rests, and about successors of one name |
| `StatementsProofs` | the theorems about the comparison of statements |

The three controllers extend `Reconciler`, which extends `Services`.

**How they compose.** The product of the three controllers, each with its cache,
queue and worker, is far beyond TLC. They are linked by what each may rely on
instead. `PolicyController` and `RoleController` are shown to implement
`ManagedResource`, where a resource and its counterpart on AWS change only in the
ways that the others may count on. `IrsaController` takes exactly these changes
for what the two controllers do to the Policy and the Role: `RecordArn` is
`Record`, `ReportOk` is `Report`, `Falter` is `Falter`, `Release` is `Release`,
and `Deletions` follows `Doom`, where the resource has an ARN or is "created" only
after its finalizer (`Hold`). In the other direction, the users of
`PolicyController` and `RoleController` may do all that `IrsaController` does to a
Policy or a Role, at any time: create it, write its statements, delete it. They
leave the ARN as it is, and `ArnKept` says that `IrsaController` does. What is
assumed of liveness is stated by properties as well: the fairness of `Release`
rests on `DeletionCompletes` of the two controllers, and so on what these except: a Policy
that is left attached to several roles, or to users or groups, and a Role whose name
is too long, are never let go. These links with `IrsaController` are an
argument about the modules, each half of which is checked; that the halves fit is
not a theorem of its own.

Between the Policy and the Role stands `PolicyOnAws`. `PolicyController` implements it,
with the ARN in its cache, which is the one that the Role reconciler reads.
`RoleController` does not describe the Policy's side again: its actions of the Policy
are those of `PolicyOnAws`, and its own steps are shown to be the others of it. So each
of the two may count on exactly what the other has been proved to do.

### Reconciler

One resource is enough: two resources share nothing but AWS names, which are a
question of their own. One worker is enough: the work queue never gives a key to
two workers at once. The variables are the stored `resource`, its copy in the
`cache`, the set of `holders` of its latest version, whether an `event` is on
its way to the work queue, whether the key is `queued`, and the `worker`: a
program counter, the copy it works on, the status it is about to write and what
comes after it. `ops` and `faults` count what the bounds bound.

`dropped` is a history variable: whether the last reconciliation has ignored that an
update failed. The Policy and the Role reconciler look at the outcome of few of their
updates: after most of their status updates, and after `setPolicyArnField` and
`setRoleArnField`, they go on in any case (`Ignored`); after the others they ask for
a requeue (`Retried`). No action reads `dropped`; the properties that say
where a reconciler comes to rest need it, because a Policy or a Role whose last status
update failed and was ignored does stay short of "created" until something else
happens to it. A conflict is no failure here: it means that the
resource has changed, and so that an event will come.

Every remote call is one action, so that everything else may happen between two
calls of a reconciliation.

| Program counter | Action | Code |
|---|---|---|
| `idle` | `Reconcile` | the head of `Reconcile`, `getPolicyFromReq`, `getRoleFromReq` (a read of the cache) |
| `got` | `RegisterFinalizer`, `Admission` | `registerFinalizerIfNeeded`, `admissionStep` |
| `status` | `UpdateStatus` | `updateStatus`, and what follows it: a return with or without requeue, or the next step |
| `deleteCR`, `removeFinalizer` | `DeleteResource`, `RemoveFinalizer` | the end of `executeFinalizerIfPresent` |

Around the worker: `CacheSync` and `Enqueue` (the informer, and its event
handler, which runs later in a goroutine of its own), `Crash` (the process stops
anywhere and starts again), and the others, who create a resource, change its
spec and ask for its deletion (the IamRoleServiceAccount reconciler, the garbage
collector, somebody with kubectl).

### PolicyController

It adds the AWS policy under the resource's name (`iamPolicy`) and what it is
`attached` to: roles, and users or groups, at which the finalizer does not look.
Which documents IAM accepts (`AcceptedStatements`) is a constant of its own, as the
routine runs on statements that validation has refused.

| Program counter | Action | Code |
|---|---|---|
| `got` | `AdmissionStep`, `GetPolicyARN`, `GetStatement`, `NothingToUndo`, `PolicyExists` | the branches of `Reconcile`, `reconcilerRoutine` and `executeFinalizerIfPresent` |
| `create`, `setArn` | `CreatePolicy`, `SetPolicyArnField` | the calls of `reconcilerRoutine` |
| `update`, `trim`, `newVersion` | `ListPolicyVersions`, `DeleteOldestPolicyVersion`, `CreatePolicyVersion` | `UpdatePolicy` of `aws.go` |
| `list`, `detach`, `delete`, `purge`, `deletePolicy` | `ListEntitiesForPolicy`, `DetachRolePolicy`, `ListVersionsToDelete`, `DeletePolicyVersion`, `DeletePolicy` | `DeletePolicy` of `aws.go` |

Users change the statements, and attach the AWS policy to roles, users and groups,
and detach it (the Role reconciler, somebody with the AWS console).

### RoleController

It adds the IAM role of the resource's name (`iamRole`), the policies of others
attached to it (`foreign`), the roles the operator's policy is `attached` to, and
the Policy's side as the Role reconciler sees it: whether the policy is on AWS
(`iamPolicy`) and the ARN in the cached Policy (`policyArn`).

| Program counter | Action | Code |
|---|---|---|
| `got` | `AdmissionStep`, `RoleExists`, `GetPolicy`, `RoleStillExists`, `ListAttached` | the branches of `Reconcile`, `reconcilerRoutine` and `executeFinalizerIfPresent` |
| `getArn`, `setArn`, `found` | `GetRoleARN`, `SetRoleArnField`, `RoleFound` | `setRoleArnField`, and the report that follows it in any case |
| `create` | `CreateRole` | `createRoleOnAws` |
| `getPolicy`, `setPolicyArn` | `GetPolicy`, `SetPolicyArnField` | `setPolicyArnFieldIfPossible` |
| `attach`, `listAttached`, `attachPolicy`, `attached` | `RoleStillExists`, `GetAttachedRolePoliciesARNs`, `AttachRolePolicy`, `RoutineEnds` | `attachPolicyToRoleIfNeeded`, and the end of the routine |
| `panicked` | `Recovery` | the nil error that `attachPolicyToRoleIfNeeded` formats, and the restart of the process |
| `list`, `detach`, `deleteRole` | `ListAttached`, `DetachRolePolicy`, `DeleteRole` | `executeFinalizerIfPresent` |

The others are the Policy's side (`PolicyMade`, `PolicyShown`, `PolicyDetached`,
`PolicyDeleted`, `PolicyForgotten`: what the Policy reconciler does to AWS, and
what the cache shows of it, later; the two that are only news, `PolicyShown` and
`PolicyForgotten`, are not counted by `MaxOps`), and people with the AWS console
(`AttachForeign`, `DeleteIamRole`). `deeds` remembers which of them have taken
something from the role or added to it, so that a property can say what it holds
against: it is a history variable, and no action of the operator reads it.

### IrsaController

It adds the three `children` (the Policy, the Role and the ServiceAccount on the
API server), their copies in the caches (`seen`), the kinds with a change that
the owner has not heard of (`news`), and `deeds`, a history variable: whether the
operator has ever made a service account, and whether somebody has removed one
that was not the operator's.

| Program counter | Action | Code |
|---|---|---|
| `got` | `AdmissionStep` | `admissionStep`, with the check of the service account's name |
| `got` | `PolicyAlreadyExists`, `CreatePolicy` | `policyAlreadyExists`, `createPolicy` |
| `updatePolicy` | `UpdatePolicyIfNeeded`, `PolicyVanished` | `updatePolicyIfNeeded`: a second read of the cache, and a guarded update of the whole spec |
| `checkRole` | `RoleAlreadyExists`, `CreateRole` | `reconcilerRoutine`, `createRole` |
| `checkSa` | `SaAlreadyExists`, `SaMissing` | `saWithNameExistsInNs`, `roleIsOk`, `policyIsOK` |
| `createSa` | `CreateServiceAccount`, `RoleNotReady` | `createServiceAccount` |
| `got` | `SaNotOurs`, `DeleteSa` | `executeFinalizerIfPresent` |

Around it: `ChildSync` brings a cache up to date and enqueues the owner
(`SetupWithManager` with `Owns`); `Collect` is the garbage collector, which
deletes what has lost its owner; `RecordArn`, `ReportOk`, `Falter` and `Release`
are the two other controllers; `DeleteChild` and `CreateForeignSa` are people with
kubectl, the latter making a service account of the name that the operator
does not own.

### ManagedResource

The resource is the set of marks that the others see on it: stored (`exists`),
held by its finalizer (`held`), on its way out (`deleting`), with its ARN
(`recorded`), reported as created (`ok`). Beside it, whether the counterpart on
AWS is `made`, and whether somebody has `meddled` with it by hand. There is
neither a cache nor a failure in it. `Seen` of each controller is the refinement
mapping (with `Marks` of `Reconciler`), and `IsManaged` the property: a late copy,
a lost reply or a crash never makes the resource and AWS take another step. A
Policy is "created" only with its ARN, a Role perhaps without (`OkNeedsArn`).

### PolicyOnAws

Three things: whether the AWS policy is `made`, what it is `attached` to, and the
`arn` in the cached Policy. The Policy's side is `Make`, `Show`, `Delete` and `Forget`:
an ARN is shown for the first time when it names something, and stays until there is
nothing left to name; what is attached is not deleted; and no policy is made while
the ARN of another is still shown. `Attach` and `Detach` belong to the Role, to the
Policy's finalizer and to people with the AWS console. In both controllers the
instance is called `OnAws`, and the property `IsShared`. In `PolicyController`, `made` is
`iamPolicy.exists` and `arn` is what the cache shows (`ShownArn`); in
`RoleController` they are the variables `iamPolicy` and `policyArn`, for the one role.

### What is abstracted

* Resource versions: `holders` is the set of those, the cache or the worker, that
  hold the latest version. A guarded write succeeds exactly for a member. A write
  that changes nothing makes no new version.
* An ARN is `""` or `"arn"`: the name and the path determine it.
* The reason of a status is a fixed text, without the error or the count in it.
  This matters little: two writes of an equal error make one event less here than
  with the request identifier that IAM puts into its errors, and a failed call is
  retried by a requeue, not by that event.
* The cache moves to the latest version at once, skipping the ones between. A
  copy that is not the latest is stale in the same way whichever it is. A stale
  cache is what makes a reconciliation start from an old copy; the reconciler's
  read of it never fails.
* An AWS policy is the document of its default version and the number of its
  other versions; the one that is deleted when it is full is one of these. An IAM
  role is its existence and its attachments, without its trust policy and its
  permissions boundary, which are written when it is created and never again.
* What IAM accepts is not what validation accepts: the constant
  `AcceptedStatements` says for each statement whether IAM takes its document. In
  `IrsaController`, which sees neither IAM nor the conditions of the Policy in detail,
  only validation is left.
* A document is a sequence of statements with their effect. Its encoding (JSON,
  URL) is left out: it is a bijection.
* In `IrsaController`, of a Policy and a Role only whether they are "created",
  and two versions of one with the same content are not told apart.
* IAM reads see every completed write.
* The informers' resync every ten hours is left out: the properties say what
  holds without waiting for it. The delay of the work queue before a retry is
  left out as well: a retry may come at any time.

### Bounds

`MaxOps` bounds the actions of the others and `MaxFaults` the failures and
crashes together; they are guards of `Act` and `Fault`. Nothing else needs one.

Policy: four actions are enough to create a Policy, attach its AWS policy, delete
it, and create a successor; two failures are enough to lose a reply and to crash
before the retry. Two roles let the finalizer meet a policy attached to more than
one, and a user one that is attached to something it does not look at. The
statements are one that validation and IAM accept, one that only validation refuses
(its resource is no ARN) and one that only IAM refuses. For liveness, the first two of
these: four actions are enough to change the statement and change it back, to
attach the policy twice and delete the Policy, or to attach it, delete it and
detach it again; one failure is enough to lose any call of the routine or of the
finalizer. `MaxVersions` is IAM's five, scaled down to two: with two, the
first update fills the policy and the second one must make room.

Role: four actions are enough to create a Role, make its Policy ready, delete the
Role and create a successor, or to have a person interfere instead; one failure
is enough to lose a reply at any call. One foreign policy shows all that several would: the
finalizer detaches what it listed one by one. The service account names are a
valid one and the empty one, which validation refuses.

IamRoleServiceAccount: for safety three actions of others, so that a resource may
be deleted and created again, or a service account of somebody else come in
between and go, and one failure or crash; for liveness two actions, with a valid
and an invalid statement, and one failure of any kind. What the two other
controllers and the garbage collector do is not counted, except `Falter`.

### Fairness

`FairSpec` adds weak fairness of the reconciler's steps, of the cache and of the
delivery of events: the work queue hands out its keys, every call returns, and
the watch delivers. In `RoleController` it adds that a process that panicked is
started again (the deployment's container restarts). In `IrsaController` it adds
the delivery of each cache (`ChildSync`), the garbage collector (`Collect`), and
that the other controllers let go of what is deleted (`Release`: their
`DeletionCompletes`, with the exceptions that these state). That they ever report "created" is not assumed: the
properties say what follows once they have. Nothing is assumed of the users, of
failures or of crashes; their bounds say that they stop.

The configurations say `CHECK_DEADLOCK FALSE` because the system rightly rests:
once the others and the failures have stopped and the resource has converged,
nothing is enabled.

## 3. The runs

| Run | Shows |
|---|---|
| `policy_safety` | with any two failures or crashes: types, the inductive invariants (`IInv`, `TargetInv`, `ShownInv`), no deletion is forgotten (`DeletionPursued`), a version is made only where there is room (`RoomIsMade`), what the reconciler writes, creates and deletes is right (`ArnIsReal`, `FinalizerGuardsIam`, `FinalizedCleanly`, `OkIsTrue`, `SuccessorSparedUnlessFaults`, `FinalizerSparesTheLive`), the abstract specifications are implemented (`IsManaged`, `IsShared`), and the reconciler does not rest before the Policy is "created" and as its spec says (`RestsConverged`, and the invariant behind it, `NothingForgotten`), unless the last reconciliation ignored that an update failed |
| `policy_liveness` | with any failure or crash: a Policy converges, with the same "unless" (`EventuallyConverged`), although it may be full; and a deletion completes (`DeletionCompletes`), although the policy may be attached and detached meanwhile and its old versions are in the way, unless it is left attached to several roles, or to a user or a group |
| `policy_leak` | finding: a Policy deleted between the creation of its AWS policy and the recording of its ARN leaves the AWS policy behind |
| `policy_duplicates` | finding: a statement that names an action twice equals a larger one |
| `role_safety` | with any failure or crash, and whatever others do on AWS: types, the inductive invariant, no deletion is forgotten (`DeletionPursued`), what the reconciler writes, creates and leaves is right (`ArnIsReal`, `FinalizerGuardsIam`, `NothingLeaksUnlessMeddled`, `OkIsTrue`), and the abstract specification is implemented (`IsManaged`) |
| `role_liveness` | with any failure or crash: a deletion completes, and a Role whose Policy is ready converges, and nothing rests before (`EventuallyConverged`, `DeletionCompletes`, `RestsConverged`, `NothingForgotten`), unless the last reconciliation ignored that an update failed |
| `role_panic` | finding: a Role whose IAM role was deleted by hand stops the process, and again after each restart |
| `role_successor` | finding: the finalizer's deletion by name reaches a successor, without any failure |
| `role_undeletable` | finding: a Role whose name is too long for IAM passes no validation and can never be deleted |
| `irsa_safety` | with any failure or crash: types, the inductive invariant; nothing is made for a resource that is gone (`NoOrphans`), no recorded ARN is taken back (`ArnKept`), and no service account of somebody else is deleted (`ForeignSaSpared`) |
| `irsa_liveness` | with any failure or crash: the Policy and the Role are made and follow the spec, a service account of its own and "created" follow once these are ready, unless there is one of somebody else, a deletion completes, and nothing rests before, although several steps count on an event to come (`RestsConverged`, `NothingForgotten`) |
| `irsa_conflict` | finding: a resource that conflicts with a service account of somebody else is reported "created" all the same |

Every passing run has every kind of failure that its calls can meet. What the Policy and the
Role reconciler owe after a failure depends on whether they heed it: one
that asks for a requeue converges all the same, and one that ignores it
(`dropped`) may stay short of "created" until another event or the informers'
resync, ten hours later. A later reconciliation that ignores nothing ends
that, whatever started it. Deletions are owed in any case, for no failure of
a finalizer is ignored, and so is all that `irsa_liveness` says, because the
IamRoleServiceAccount reconciler asks for a requeue after each failure
(`~dropped` in its `NothingForgotten`).

`DeletionCompletes` of the Policy has an exception that `DeletePolicy` makes: it
refuses a policy that is attached to several roles and detaches none of them, and it
does not look at the users and the groups, with which IAM refuses the deletion. As
long as that lasts the Policy stays; once somebody detaches what is too much, the
finalizer, which is run again and again, gets through (`Undeletable`).

`IsShared` of the Role is in no run: half of it is taken from `PolicyOnAws`, and no
slip in `role_controller.go` could break the other half, since IAM itself attaches
only what exists. It is proved, to show that the two modules fit.

The properties of the Role say what they hold against: `NothingLeaksUnlessMeddled`
does not hold once somebody attaches a policy by hand between the listing and the
deletion, because `DeleteRole` answers a conflict like a success; `OkIsTrue` and
`EventuallyConverged` ask that nobody took the role or its policy away: a Policy
that is deleted and created again is not attached again, as no event of a Policy
reaches the Role. In the same way `ForeignSaSpared` speaks of a service account
that was there before the operator made one: the owner is checked on a cached
copy and the deletion goes by name, so one that takes the place of the operator's
own in between may go. And `Completed`, which is "created" with a service account
that the resource itself owns, is asked only where admission would let it pass
(`CanComplete`): the spec is valid, no service account of somebody else has the name
(`Conflicts`; what becomes of such a resource is the finding of `irsa_conflict`), and
nobody has removed one, since its disappearance is no event for the
IamRoleServiceAccount.

## 4. What is proved

For every value of the constants:

| Module | Theorem | Property |
|---|---|---|
| `PolicyControllerProofs` | `Invariance`, `TypeCorrect` | `IInv`, `TypeOK` |
| | `ArnStaysReal` | `ArnIsReal`: a live Policy keeps the AWS policy its ARN names |
| | `CreationIsGuarded` | `FinalizerGuardsIam`: no AWS policy is created without the finalizer that undoes it |
| | `FinalizationIsClean` | `FinalizedCleanly`: a Policy with an ARN goes after its AWS policy |
| | `CreatedIsTrue` | `OkIsTrue`: "created" is written only when it is so |
| | `Refinement` | `IsManaged`: the Policy reconciler implements `ManagedResource` |
| `RoleControllerProofs` | `Invariance`, `TypeCorrect` | `IInv`, `TypeOK` |
| | `ArnStaysReal` | `ArnIsReal`: a live Role keeps the IAM role its ARN names |
| | `CreationIsGuarded` | `FinalizerGuardsIam`: no IAM role is created without the finalizer that undoes it |
| | `NothingIsLeft` | `NothingLeaksUnlessMeddled`: a Role goes after its IAM role |
| | `CreatedIsTrue` | `OkIsTrue`: "created" is written only while the policy is attached |
| | `Refinement` | `IsManaged`: the Role reconciler implements `ManagedResource` |
| | `AwsPolicyIsShared` | `IsShared`: the Role reconciler does to the AWS policy only what `PolicyOnAws` lets it |
| `IrsaControllerProofs` | `Invariance`, `TypeCorrect` | `IInv`, `TypeOK` |
| | `NothingIsOrphaned` | `NoOrphans`: what is made belongs to a resource that is stored with its finalizer |
| | `ArnIsKept` | `ArnKept`: a recorded ARN is not taken back |
| | `ForeignIsSpared` | `ForeignSaSpared`: a service account of somebody else is not deleted |
| `PolicyRestProofs` | `NothingIsForgotten` | `NothingForgotten`: a Policy at rest is as its reconciler wants it, and a late worker is followed by another |
| | `RestIsConverged` | `RestsConverged`: a Policy rests only when it is "created" and as its spec says, or gone, unless the last reconciliation ignored that an update failed |
| | `SuccessorIsSpared` | `SuccessorSparedUnlessFaults`: a finalizer that no failure disturbed leaves the AWS policy of a successor alone |
| | `TargetIsKept` | `TargetInv`: a late copy's incarnation keeps its ARN, and stays stored, once it is to be deleted, while its AWS policy is there |
| | `CacheShowsTheTruth` | `ShownInv`: what the cached Policy shows of the AWS policy is true, or too late to do harm |
| | `AwsPolicyIsShared` | `IsShared`: the Policy reconciler implements `PolicyOnAws` |
| | `TheLiveAreSpared` | `FinalizerSparesTheLive`: the finalizer changes nothing on AWS while a live Policy has recorded its ARN, whatever fails |
| | `DeletionIsPursued` | `DeletionPursued`: a deletion has a worker that knows of it, or will have one, whatever fails |
| | `RoomIsAlwaysMade` | `RoomIsMade`: a version is made only for a policy that has room for it, whatever the limit |
| `RoleRestProofs` | `DeletionIsPursued` | `DeletionPursued`: the same of the Role |
| | `NothingIsForgotten`, `RestIsConverged` | `NothingForgotten`, `RestsConverged`: the same of the Role, with its Policy ready and untouched by others |
| `IrsaRestProofs` | `NothingIsForgotten`, `RestIsConverged` | `NothingForgotten`, `RestsConverged`: the same of the IamRoleServiceAccount and what it makes, whatever fails |
| `StatementsProofs` | `WrittenIsFoundEqual` | what is written on AWS is found equal when it is read back |
| | `EqualGrantsTheSame` | statements found equal grant the same, if the spec names no resource twice and no action twice |

The assumptions are those of the modules (`FaultsAssumption`, `OpsAssumption`,
`PolicyAssumption`, `RoleAssumption`): the bounds are natural numbers, the faults
are of the three kinds, a name is too long or not, the operator's policy is
none of the others', and a policy may have two versions at least. No theorem assumes
anything about failures beyond what its property itself says: every call to the API server and to IAM may fail in every
way, and the process may stop anywhere.

None of these properties is inductive. All of them speak of the stored resource,
while the worker acts on a copy of it. `IInv` has two halves.

The first, `CopiesInv` with the types and `CommonStepsJustified`, is common to
the controllers and says what a copy is worth:

* `CopiesCurrent`: whoever may write holds the stored metadata and spec.
* `UidsOrdered`: the incarnation of the worker's copy is not newer than the
  cache's, nor the cache's newer than the stored one.
* `CopiesTruthful`: a live copy with the finalizer means that this incarnation is
  stored with its finalizer (nobody but the worker removes it, and only in a
  deletion); a deleting copy means that this incarnation is not stored alive; and
  another incarnation than the worker's copy has no finalizer yet, because only
  this worker, after reading it, could register one.

The second is the controller's own. For the Policy, `ArnJustified` (the finalizer
comes before the ARN, and the ARN after the AWS policy). For the Role,
`RoleJustified`: the IAM role exists only while the Role is stored with its
finalizer, and what is attached is attached to a role that exists; each part says
which of the others' `deeds` ends it. And for both `StepsJustified`: what the
worker has established when it reaches each call. The Role's also covers the
steps that a worker goes to after a report (`Heading`), since its routine goes on
after most of them. For the IamRoleServiceAccount, `ChildrenJustified`: what is
gone has left nothing, and nobody but the operator owns a service account.

`ReconcilerProofs` proves the first half once for all controllers. The stored
resource and its copies change in few ways: the worker goes on or returns
(`MovingKeeps`), it updates the resource (`UpdatingKeeps`), somebody changes it
(`EvolvingKeepsCopies`), or it is removed (`RemovingKeepsCopies`); one lemma for
each, and then one for each action of `Reconciler`, with the outcome that the
second half needs (`LifecycleOutcome`). The proof modules of the three
controllers add one lemma per action of their reconciler, for both halves. The
action properties follow from `IInv` and from which actions change what is on AWS
and the resource.

The two `Refinement` theorems rest on the same invariant. No action changes both
the resource and AWS, so a step is one of two kinds. A step that changes the
resource maps to one abstract step (`SeenChanges`, `SeenEnds`,
`ResourceStepIsManaged`): the lifecycle's updates are those of the holder of the
latest version, whose copy `CopiesTruthful` and `StepsJustified` describe; an ARN
is recorded with `ArnJustified` after the step, which says that there is something
on AWS. A step that changes AWS is `Make`, `Undo` or `Meddle`
(`IamStepIsManaged`), by `IInv` before and after it.

`EqualGrantsTheSame` is the positive side of `policy_duplicates`. The comparison
maps every statement of one policy to an equal one of the other; when the spec
names nothing twice the map is injective, between lists of one length, and so
reaches them all. The same argument holds for the actions of two statements.

What is true **at rest** is a matter of safety: liveness says that the reconciler
comes to rest, and these theorems that it may. `RestsConverged` speaks of a quiet
moment (the worker idle, nothing queued, no event on its way, the cache current), and
nothing about the moments before follows from it, so `NothingForgotten` says
what every moment owes to the next. A moment is `Stirring` when the key is queued,
an event is on its way or the cache is behind. Then

* `LateIsWoken`: a worker whose copy is no longer the latest may do
  nothing more and return, but the controller is `Stirring`, so that another comes
  after it; and one that has the latest version and has ignored no failure has the stored
  resource itself;
* `LastWord`, `LastWordIsNew`: a reconciliation that ends without asking for a
  requeue ends in a status update, and one that succeeds there has made a new
  version, whose event starts the next one. Only a status that was there
  already makes none, and so each place that writes one must have found
  something new (`FoundIsNew`, `WordsFit` of the Role), or leave a resource as it
  should be. This is asked of a worker that has ignored no failure (`~dropped`): after an
  ignored one its copy shows an ARN or a status that was never stored;
* for the IamRoleServiceAccount, `CachesTold` and `PolicyIsWritten`: a cache of a child
  that has no news for the owner shows what is there, so that what the worker
  read of it and acted on (`StepsPassed`) is still true, or news is on its way.
  Only a service account of somebody else comes without a word, and then the
  resource conflicts (`Conflicts`). This reconciler asks for a requeue after each
  failure, hence "whatever fails".

`ReconcilerProofs` has the common part of this ("What brings the worker back"): an
update, a sync, a crash, a change of somebody else each leave the worker idle at
rest or the controller stirring.

Of deletions more is true of the Policy and the Role: `DeletionPursued` holds whether a
failure was ignored or not. A finalizer that has not released its resource returns
false, and so is called again, whatever became of its status updates; so a worker
that knows of a deletion ends it or comes back, and one that does not know of it
works on a late copy, and the event of the deletion is still to come. It is by
this invariant that `RestsConverged` may say, without an "unless", that a Policy or a Role that is
still stored at rest is one that nobody has asked to delete.

`SuccessorIsSpared` rests on an invariant of its own, `TargetInv`: an incarnation
keeps the ARN that a copy of it shows (`ArnStays`), one that is on its way out and
has an ARN stays stored until its AWS policy is gone (`StaysWithPolicy`), and so, while no call has failed
and the process has not stopped, the Policy whose finalizer is at work is
the one that is stored (`TargetStays`): no successor exists yet that it could hit. The
same is false of the Role (`role_successor`), whose finalizer acts on the
name whether or not the Role has an ARN.

`TheLiveAreSpared` says what remains when calls do fail. A finalizer may then be late by an
incarnation, and hit what the successor has just made (hence the "unless faults"
above); but `CopiesTruthful` keeps any other incarnation from registering its
finalizer while this worker holds a deleting copy, and by `ArnJustified` an ARN
comes only after the finalizer. So no Policy that has recorded an ARN is hit.

`IsShared` of the Policy relates the AWS policy to the **cache**, which lags behind both it and the
resource. Its invariant is `ShownInv`:

* when the AWS policy of a recorded ARN is gone, the cache already shows that Policy
  being deleted (`ShowsTheEnd`): the worker learned of the deletion there, and no later
  copy of the same incarnation is without it. So an ARN that reaches the
  cache for the first time names something (`Show`);
* an ARN that the cache shows and the stored Policy no longer has names nothing
  (`Forget`): by `TargetInv`, its Policy would still be stored if there were an AWS
  policy;
* a finalizer past its first step works on a copy with an ARN, and the worker
  knows of no end that the cache does not show. So the AWS policy of a successor
  is made only after the cache has moved on (`Make`).

A sync of the cache is then `Show`, `Forget` or nothing (`InformerStepIsShared`), and no
other step touches the cache: it makes or deletes the AWS policy, attaches or
detaches it, or leaves all three alone (`OtherStepsAreShared`). That `RoleController`
fits (`AwsPolicyIsShared` there) follows from its actions alone.

Only model-checked: the liveness properties, since fairness is out of the prover's reach.

## 5. What is left

* **The Policy and the Role in one model**: a Policy created again under a Role
  that is "created" (`role_controller.go:154`). `PolicyOnAws` lets it happen, and
  `RoleController` has it, but no event tells the Role, so that the properties only
  speak of a policy that nobody took away. The liveness of the two finalizers
  together, each undoing what the other one has yet to list, is not stated either.
* **Names**: when two resources have one name on AWS (`AwsName` joins the parts by
  dashes, so the namespaces `a` and `a-b` may collide).
* **Edits by hand** of the AWS policy: `GetStatement` finds what changed, except
  for the effect, but only when some event makes it look.

### Not modelled, and why

* Trust policies and permissions boundaries (`NewAssumeRolePolicyDoc`,
  `CreateRole`): written when the role is created, never read or compared, so no
  step of the operator depends on them. A role that is there already keeps what
  it has.
* Names: one resource of each kind is modelled, so that nothing collides; what
  remains is whether a name is too long (`NameTooLong`).
* A Policy or a Role of the name made by hand: the IamRoleServiceAccount
  reconciler takes any for its own, and no document says what should happen.
* A read of the cache that fails for another reason than absence: controller-runtime
  answers it from memory. So the errors of `Get` in the IamRoleServiceAccount
  reconciler (`roleIsOk` returns one without a requeue) are out.
* `main.go`: flags and wiring. What matters of it, a start that lists every
  resource and ten workers per kind, is in `Reconciler`.
* Generated deep copies, the scheme, the manifests and the tests' fakes: no
  behaviour of the operator. The authors' own model (`_doc/model/IrsaOperator.tla`)
  describes the intent and not this code.
