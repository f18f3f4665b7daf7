--------------------------- MODULE IrsaController ---------------------------
(***************************************************************************)
(* The IamRoleServiceAccount reconciler                                    *)
(* (controllers/iamroleserviceaccount_controller.go), for one              *)
(* IamRoleServiceAccount and the Policy, the Role and the ServiceAccount   *)
(* of its name, which it makes; the controllers of the Policy and of the   *)
(* Role, the garbage collector and the users act on these as well.         *)
(*                                                                         *)
(* Abstractions, beside those of Reconciler: of a Policy and a Role, the   *)
(* condition is whether it is "created", and the ARN is "" or "arn"; two   *)
(* versions of one of the three resources with the same content are not    *)
(* told apart.                                                             *)
(***************************************************************************)
EXTENDS Reconciler, Statements

CONSTANT StatementChoices   \* the statements users write

VARIABLES
    children,   \* the Policy, the Role and the ServiceAccount on the API server
    seen,       \* their copies in the informers' caches
    news,       \* the kinds with a change that their owner has not heard of
    deeds       \* what has been done to the ServiceAccount

childVars == <<children, seen, news, deeds>>
vars      == <<reconcilerVars, childVars>>

-----------------------------------------------------------------------------
(* Data *)

Kinds == {"policy", "role", "sa"}

NoChild ==
    [exists |-> FALSE, owner |-> 0, deleting |-> FALSE, ok |-> FALSE, arn |-> "",
     statement |-> NoSpec]

NewPolicy(irsa) == [NoChild EXCEPT !.exists = TRUE, !.owner = irsa.uid, !.statement = irsa.spec]
NewRole(irsa)   == [NoChild EXCEPT !.exists = TRUE, !.owner = irsa.uid]

NewServiceAccount(irsa, arn) == [NoChild EXCEPT !.exists = TRUE, !.owner = irsa.uid, !.arn = arn]

\* A service account that somebody makes by hand has no owner.
ForeignServiceAccount == [NoChild EXCEPT !.exists = TRUE]

Validate(irsa) == ValidStatements(irsa.spec)

Failed(reason) == NewStatus(IrsaFailed, reason)

InPlace(child) == child.exists /\ ~child.deleting

\* Its controller has registered its finalizer before it does anything to it.
Untouched(child) == ~child.ok /\ child.arn = ""

\* What a deletion makes of a Policy or a Role: it waits for the finalizer, and
\* goes at once without.  A service account has none.
Deletions(kind, child) ==
    IF kind = "sa" THEN {NoChild}
    ELSE {[child EXCEPT !.deleting = TRUE]} \cup (IF Untouched(child) THEN {NoChild} ELSE {})

Owned(child) == child.owner # 0

\* A mutant: nobody watches the resources for their owner.
BecomeUnheard(kind, child) ==
    children' = [children EXCEPT ![kind] = child] /\ UNCHANGED news

\* A resource changes; that is news for the owner that it has, or had.
Become(kind, child) ==
    /\ children' = [children EXCEPT ![kind] = child]
    /\ news' = IF child # children[kind] /\ (Owned(child) \/ Owned(children[kind]))
                 THEN news \cup {kind} ELSE news

-----------------------------------------------------------------------------
(* admissionStep *)

SaWithNameExistsInNs == seen["sa"].exists

AdmissionStep ==
    /\ worker.pc = "got"
    /\ Registered(worker.obj)
    /\ worker.obj.status.condition = CrSubmitted
    /\ \/ ~Validate(worker.obj) /\ Report(Failed("invalid"), "ifFailed")
       \/ /\ Validate(worker.obj) /\ SaWithNameExistsInNs
          /\ Report(Failed("conflict"), "ifFailed")
       \/ /\ Validate(worker.obj) /\ ~SaWithNameExistsInNs
          /\ Report(Progress("passed validation"), "ifFailed")
    /\ UNCHANGED faults /\ UnchangedCluster /\ UNCHANGED childVars

-----------------------------------------------------------------------------
(* reconcilerRoutine *)

\* A resource is created; a conflict is an error like any other.
Create(kind, child) ==
    /\ \E applied, ok \in BOOLEAN :
         /\ Call("api", ~children[kind].exists, applied, ok)
         /\ Become(kind, IF applied THEN child ELSE children[kind])
         /\ deeds' = IF applied /\ kind = "sa" THEN deeds \cup {"made"} ELSE deeds
         /\ Return(~ok)
    /\ UnchangedCluster /\ UNCHANGED seen

\* The routine goes on to its next step, or returns.
Proceed(pc) == Goto(pc) /\ UNCHANGED faults /\ UnchangedCluster /\ UNCHANGED childVars
Leave(requeue) == Return(requeue) /\ UNCHANGED faults /\ UnchangedCluster /\ UNCHANGED childVars

AtRoutine == worker.pc = "got" /\ InRoutine(worker.obj)

PolicyAlreadyExists == AtRoutine /\ seen["policy"].exists /\ Proceed("updatePolicy")

CreatePolicy == AtRoutine /\ ~seen["policy"].exists /\ Create("policy", NewPolicy(worker.obj))

\* A mutant: the update carries no resource version.
AnyVersion == children["policy"].exists

\* The cached copy is the latest version.
SameVersion == children["policy"] = seen["policy"]

\* The Policy is read again, and its whole spec is sent: the ARN of the cached
\* copy, and the statement of the worker's resource.
UpdatePolicyIfNeeded ==
    /\ worker.pc = "updatePolicy"
    /\ seen["policy"].exists
    /\ \E applied, ok \in BOOLEAN :
         /\ Call("api", SameVersion, applied, ok)
         /\ Become("policy", IF applied THEN [children["policy"] EXCEPT !.statement = worker.obj.spec,
                                                                  !.arn = seen["policy"].arn]
                                       ELSE children["policy"])
         /\ IF ok THEN Goto("checkRole") ELSE Return(TRUE)
    /\ UnchangedCluster /\ UNCHANGED <<seen, deeds>>

PolicyVanished == worker.pc = "updatePolicy" /\ ~seen["policy"].exists /\ Leave(TRUE)

RoleAlreadyExists == worker.pc = "checkRole" /\ seen["role"].exists /\ Proceed("checkSa")

CreateRole == worker.pc = "checkRole" /\ ~seen["role"].exists /\ Create("role", NewRole(worker.obj))

SaAlreadyExists ==
    /\ worker.pc = "checkSa"
    /\ seen["sa"].exists
    /\ IF NeedsOk(worker.obj) THEN Report(AllDone, "ifFailed") ELSE Return(FALSE)
    /\ UNCHANGED faults /\ UnchangedCluster /\ UNCHANGED childVars

RoleAndPolicyAreOk == \A kind \in {"role", "policy"} : seen[kind].exists /\ seen[kind].ok

\* Without a service account the status stays as it is and nothing is retried:
\* an event is counted on.
SaMissing ==
    /\ worker.pc = "checkSa"
    /\ ~seen["sa"].exists
    /\ IF RoleAndPolicyAreOk THEN Proceed("createSa") ELSE Leave(FALSE)

\* The Role is read again for its ARN.
CreateServiceAccount ==
    /\ worker.pc = "createSa"
    /\ seen["role"].exists /\ seen["role"].arn # ""
    /\ Create("sa", NewServiceAccount(worker.obj, seen["role"].arn))

RoleNotReady ==
    /\ worker.pc = "createSa"
    /\ ~(seen["role"].exists /\ seen["role"].arn # "")
    /\ Leave(~seen["role"].exists)

-----------------------------------------------------------------------------
(* The finalizer *)

AtFinalizer == worker.pc = "got" /\ ExecutesFinalizer(worker.obj)

\* A mutant: whoever owns the service account, it is deleted.
SaPresent(irsa) == seen["sa"].exists

SaOwned(irsa) == seen["sa"].exists /\ seen["sa"].owner = irsa.uid

\* By its name: whatever service account is there now.
DeleteSa ==
    /\ AtFinalizer
    /\ SaOwned(worker.obj)
    /\ \E applied, ok \in BOOLEAN :
         /\ Call("api", TRUE, applied, ok)
         /\ Become("sa", IF applied THEN NoChild ELSE children["sa"])
         /\ IF ok THEN Goto("deleteCR") ELSE Return(TRUE)
    /\ UnchangedCluster /\ UNCHANGED <<seen, deeds>>

SaNotOurs == AtFinalizer /\ ~SaOwned(worker.obj) /\ Proceed("deleteCR")

-----------------------------------------------------------------------------
(* The informers of the three resources *)

\* The watch brings a cache up to date, and the owner is enqueued.
ChildSync(kind) ==
    /\ seen[kind] # children[kind] \/ kind \in news
    /\ seen' = [seen EXCEPT ![kind] = children[kind]]
    /\ news' = news \ {kind}
    /\ queued' = (queued \/ kind \in news)
    /\ UNCHANGED <<resource, cache, holders, event, worker, dropped, ops, faults, children, deeds>>

ChildrenFresh == seen = children /\ news = {}

-----------------------------------------------------------------------------
(* The others: the controllers of the Policy and of the Role, the garbage  *)
(* collector, and somebody with kubectl.                                   *)

Elsewhere == UNCHANGED reconcilerVars /\ UNCHANGED seen

(* What the controllers of the Policy and of the Role do is what           *)
(* ManagedResource lets the others see of it: Record, Report, Falter,      *)
(* Release.                                                                *)

RecordArn(kind) ==
    /\ InPlace(children[kind])
    /\ children[kind].arn = ""
    /\ Become(kind, [children[kind] EXCEPT !.arn = "arn"])
    /\ UNCHANGED deeds /\ Elsewhere

\* A Role may be "created" before its ARN is recorded.
ReportOk(kind) ==
    /\ InPlace(children[kind])
    /\ ~children[kind].ok
    /\ kind = "policy" => children[kind].arn # ""
    /\ Become(kind, [children[kind] EXCEPT !.ok = TRUE])
    /\ UNCHANGED deeds /\ Elsewhere

\* It reports something else: an error, or that it works on a new statement.
Falter(kind) ==
    /\ ActElsewhere
    /\ children[kind].ok
    /\ Become(kind, [children[kind] EXCEPT !.ok = FALSE])
    /\ UNCHANGED <<seen, deeds>>

\* Its finalizer is through.
Release(kind) ==
    /\ children[kind].deleting
    /\ Become(kind, NoChild)
    /\ UNCHANGED deeds /\ Elsewhere

\* The garbage collector deletes what has lost its owner.
OwnerGone(child) == Owned(child) /\ ~(resource.exists /\ resource.uid = child.owner)

Collect(kind) ==
    /\ InPlace(children[kind])
    /\ OwnerGone(children[kind])
    /\ \E child \in Deletions(kind, children[kind]) : Become(kind, child)
    /\ UNCHANGED deeds /\ Elsewhere

\* Somebody deletes a Policy, a Role or the service account.
DeleteChild(kind) ==
    /\ ActElsewhere
    /\ InPlace(children[kind])
    /\ \E child \in Deletions(kind, children[kind]) : Become(kind, child)
    /\ deeds' = IF kind = "sa" /\ ~Owned(children["sa"]) THEN deeds \cup {"removed"} ELSE deeds
    /\ UNCHANGED seen

\* Somebody makes a service account of the name.
CreateForeignSa ==
    /\ ActElsewhere
    /\ ~children["sa"].exists
    /\ Become("sa", ForeignServiceAccount)
    /\ UNCHANGED <<seen, deeds>>

-----------------------------------------------------------------------------
Init ==
    /\ InitReconciler
    /\ children = [kind \in Kinds |-> NoChild]
    /\ seen = children
    /\ news = {}
    /\ deeds = {}

RoutineStep ==
    \/ AdmissionStep
    \/ PolicyAlreadyExists \/ CreatePolicy \/ UpdatePolicyIfNeeded \/ PolicyVanished
    \/ RoleAlreadyExists \/ CreateRole
    \/ SaAlreadyExists \/ SaMissing \/ CreateServiceAccount \/ RoleNotReady

FinalizerStep == DeleteSa \/ SaNotOurs

ReconcilerStep == (LifecycleStep /\ UNCHANGED childVars) \/ RoutineStep \/ FinalizerStep

\* Every cache is filled when the process starts.
CrashAndRestart == Crash /\ seen' = children /\ news' = {} /\ UNCHANGED <<children, deeds>>

InformerStep ==
    \/ (CacheSync \/ Enqueue) /\ UNCHANGED childVars
    \/ \E kind \in Kinds : ChildSync(kind)
    \/ CrashAndRestart

ControllerStep ==
    \E kind \in {"policy", "role"} :
        RecordArn(kind) \/ ReportOk(kind) \/ Falter(kind) \/ Release(kind)

CollectorStep == \E kind \in Kinds : Collect(kind)

UserStep ==
    \/ \E s \in StatementChoices : (CreateResource(s) \/ ChangeSpec(s)) /\ UNCHANGED childVars
    \/ RequestDeletion /\ UNCHANGED childVars
    \/ \E kind \in Kinds : DeleteChild(kind)
    \/ CreateForeignSa

Next == ReconcilerStep \/ InformerStep \/ ControllerStep \/ CollectorStep \/ UserStep

Spec == Init /\ [][Next]_vars

(***************************************************************************)
(* As in PolicyController: keys are taken, calls return, the watches       *)
(* deliver; the garbage collector works; and the other controllers release *)
(* what is deleted, as their DeletionCompletes say: of a Policy that is    *)
(* not left attached to several roles or to users, and of a Role whose     *)
(* name IAM accepts.                                                       *)
(***************************************************************************)
FairSpec ==
    /\ Spec
    /\ WF_vars(ReconcilerStep)
    /\ WF_vars(CacheSync /\ UNCHANGED childVars)
    /\ WF_vars(Enqueue /\ UNCHANGED childVars)
    /\ \A kind \in Kinds : WF_vars(ChildSync(kind)) /\ WF_vars(Collect(kind)) /\ WF_vars(Release(kind))

-----------------------------------------------------------------------------
(* Properties *)

Steps == {"updatePolicy", "checkRole", "checkSa", "createSa"}

Children ==
    [exists : BOOLEAN, owner : 0..MaxOps, deleting : BOOLEAN, ok : BOOLEAN, arn : {"", "arn"},
     statement : StatementChoices \cup {NoSpec}]

TypeOK ==
    /\ ReconcilerTypes(StatementChoices, Steps, {})
    /\ children \in [Kinds -> Children]
    /\ seen \in [Kinds -> Children]
    /\ news \subseteq Kinds
    /\ deeds \subseteq {"made", "removed"}

(***************************************************************************)
(* What the reconciler creates belongs to a resource that is stored at     *)
(* that moment with its finalizer, although the worker decides on a cached *)
(* copy: nothing is made for an IamRoleServiceAccount that is gone         *)
(* (reconcilerRoutine after registerFinalizerIfNeeded).                    *)
(***************************************************************************)
NoOrphans ==
    [][\A kind \in Kinds : ~children[kind].exists /\ Owned(children'[kind]) =>
          resource.exists /\ resource.finalizer /\ resource.uid = children'[kind].owner]_vars

(***************************************************************************)
(* The update that brings the statement to the Policy sends the whole spec *)
(* of a cached copy, and never takes back the ARN that the Policy          *)
(* reconciler has recorded since (updatePolicyIfNeeded).                   *)
(***************************************************************************)
ArnKept ==
    [][children["policy"].arn # "" /\ children'["policy"].exists => children'["policy"].arn # ""]_vars

(***************************************************************************)
(* A service account that somebody else made before the operator made one  *)
(* of the name is never deleted by the operator ("ensure it is not owned   *)
(* by another operator", executeFinalizerIfPresent).                       *)
(***************************************************************************)
ForeignSaSpared ==
    [][children["sa"] = ForeignServiceAccount /\ ~children'["sa"].exists /\ "made" \notin deeds =>
          DeleteChild("sa")]_vars

BecomesOk == resource.status.condition # CrOK /\ resource'.status.condition = CrOK

(***************************************************************************)
(* When "created" is written, the service account of the name is the       *)
(* operator's ("all resources successfully created", reconcilerRoutine).   *)
(***************************************************************************)
CreatedSaIsOurs == [][BecomesOk => Owned(children["sa"])]_vars

\* What the operator needs of the other controllers is there.
ChildrenReady ==
    /\ \A kind \in {"policy", "role"} : InPlace(children[kind]) => children[kind].ok
    /\ InPlace(children["role"]) => children["role"].arn # ""

Converged ==
    /\ \A kind \in {"policy", "role"} : InPlace(children[kind]) /\ children[kind].owner = resource.uid
    /\ children["policy"].statement = resource.spec

\* ... and its own service account with its status.
Completed ==
    /\ resource.status.condition = CrOK
    /\ children["sa"].exists /\ children["sa"].owner = resource.uid

\* The service account of the name is somebody else's.
Conflicts == children["sa"].exists /\ ~Owned(children["sa"])

\* What admission asks for, and what the operator waits for.
CanComplete == Validate(resource) /\ ~Conflicts /\ ChildrenReady /\ "removed" \notin deeds

Collectable == \E kind \in Kinds : children[kind].deleting \/ OwnerGone(children[kind])

(***************************************************************************)
(* When nothing is left to do, the Policy and the Role are in place, with  *)
(* the statement of the spec, "for whatever condition" (Reconcile); once   *)
(* these are "created", so is an IamRoleServiceAccount whose spec is       *)
(* valid by now, with a service account of its own, unless there is one of *)
(* somebody else, or was one that has been removed.                        *)
(***************************************************************************)
RestsConverged ==
    Quiescent /\ ChildrenFresh /\ ~Collectable /\ resource.exists =>
        Alive(resource) /\ Converged /\ (CanComplete => Completed)

(***************************************************************************)
(* Once the users and the failures stop, and whatever the other            *)
(* controllers report, the same becomes true of an IamRoleServiceAccount   *)
(* that nobody deletes, and stays so (reconcilerRoutine, "an infinite      *)
(* loop attempting to make the policy, role, service_account converge to   *)
(* the irsa.Spec").                                                        *)
(***************************************************************************)
EventuallyConverged ==
    <>[](Alive(resource) => Converged /\ (CanComplete => Completed))

(***************************************************************************)
(* A deletion that was asked for completes, whatever became of the service *)
(* account meanwhile (executeFinalizerIfPresent).                          *)
(***************************************************************************)
DeletionCompletes == resource.deleting ~> ~resource.deleting

-----------------------------------------------------------------------------
(* The inductive invariant behind the safety properties *)

\* What the worker has established when it reaches a step.
StepsJustified ==
    /\ CommonStepsJustified
    /\ worker.pc \in Steps => Registered(worker.obj)
    /\ worker.pc = "status" => worker.next = "ifFailed"

\* The operator is the only one to own a service account, and what is gone has
\* left nothing.
ChildrenJustified ==
    /\ \A kind \in Kinds : ~children[kind].exists => children[kind] = NoChild
    /\ "made" \notin deeds => ~Owned(children["sa"]) /\ ~Owned(seen["sa"])

IInv == TypeOK /\ CopiesInv /\ ChildrenJustified /\ StepsJustified

-----------------------------------------------------------------------------
(* The inductive invariant behind what is said of a resource at rest.      *)

\* The worker will be back, or the caches of the children are behind.
Awaiting == Stirring \/ news # {}

\* A cache without news shows what its owner would be told of; a foreign
\* service account comes and goes without a word.
CachesTold ==
    /\ \A kind \in Kinds \ news :
         seen[kind] = children[kind] \/ (~Owned(seen[kind]) /\ ~Owned(children[kind]))
    /\ \A kind \in {"policy", "role"} :
         /\ children[kind].exists => Owned(children[kind])
         /\ seen[kind].exists => Owned(seen[kind])
    /\ "sa" \notin news /\ seen["sa"].exists /\ ~children["sa"].exists => "removed" \in deeds

PolicyIsWritten == children["policy"].exists /\ children["policy"].statement = resource.spec

\* What the routine has passed is in place, or something will bring it back.
StepsPassed ==
    ~Awaiting =>
        /\ worker.pc \in {"checkRole", "checkSa", "createSa"} => PolicyIsWritten
        /\ worker.pc \in {"checkSa", "createSa"} => children["role"].exists
        /\ LastWord => worker.status # resource.status

\* What is so when nothing is left to do.
Settled ==
    /\ Alive(resource) /\ PolicyIsWritten /\ children["role"].exists
    /\ ~Collectable /\ CanComplete => Completed

Rests == ~Busy /\ ~Awaiting /\ resource.exists => Settled

\* Every failure of an update is heeded (~dropped).
NothingForgotten == ~dropped /\ LateIsWoken /\ CachesTold /\ StepsPassed /\ Rests

=============================================================================
