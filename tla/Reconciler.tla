----------------------------- MODULE Reconciler -----------------------------
(***************************************************************************)
(* What the operator's controllers have in common: the life of a resource  *)
(* on the API server, its copy in the informer's cache, the work queue,    *)
(* and the worker that reconciles it.  The methods modelled here have the  *)
(* same text in the three controllers, up to the type of the resource.     *)
(*                                                                         *)
(* One worker at a time reconciles a given resource (the work queue keeps  *)
(* a key out of other workers' hands), so a reconciliation is a program    *)
(* counter and one action per remote call; between two calls the API       *)
(* server, AWS and the cache may change.  The worker starts from the       *)
(* CACHED resource; its updates carry that copy's resource version, its    *)
(* delete carries none.                                                    *)
(*                                                                         *)
(* Abstractions: the resource version is the set of those who hold a copy  *)
(* of the LATEST version, and a write that changes nothing makes no new    *)
(* one; the cache always moves to the latest version; a reason is the      *)
(* fixed text of a status, without the error or the count in it.           *)
(*                                                                         *)
(* `dropped' is a history variable: no action reads it, and the properties *)
(* say with it what they hold against.                                     *)
(***************************************************************************)
EXTENDS Services

CONSTANT MaxOps   \* how many times others than the controller act (bound)

ASSUME OpsAssumption == MaxOps \in Nat

VARIABLES
    resource,    \* the resource on the API server
    cache,       \* its copy in the informer's cache
    holders,     \* who holds its latest version, among "cache" and "worker"
    event,       \* a change of the cache is on its way to the work queue
    queued,      \* its key is in the work queue
    worker,      \* the worker that reconciles it
    dropped,     \* its last reconciliation has ignored a failure of an update
    ops          \* how many times others have acted

-----------------------------------------------------------------------------
(* Data *)

CrSubmitted   == ""
CrProgressing == "progressing"
CrOK          == "created"
CrDeleting    == "deleting"
CrError       == "error"
IrsaFailed    == "failed"   \* of an IamRoleServiceAccount

NewStatus(condition, reason) == [condition |-> condition, reason |-> reason]

Progress(reason) == NewStatus(CrProgressing, reason)
Error(reason)    == NewStatus(CrError, reason)
Deleting(reason) == NewStatus(CrDeleting, reason)
AllDone          == NewStatus(CrOK, "all done")

NoSpec   == <<>>
NoStatus == NewStatus(CrSubmitted, "")

NoResource ==
    [exists |-> FALSE, uid |-> 0, deleting |-> FALSE, finalizer |-> FALSE,
     spec |-> NoSpec, status |-> NoStatus]

NewResource(uid, spec) ==
    [NoResource EXCEPT !.exists = TRUE, !.uid = uid, !.spec = spec]

\* The worker between two reconciliations: its copy, the status it is about to
\* write, what comes after it, and what it still has to detach.
Idle == [pc |-> "idle", obj |-> NoResource, status |-> NoStatus, next |-> "return", todo |-> {}]

-----------------------------------------------------------------------------
(* The API server's rules for one resource *)

\* A deleting resource that has lost its last finalizer is removed.
Stored(new) == IF new.deleting /\ ~new.finalizer THEN NoResource ELSE new

\* A delete by name, without preconditions, marks a resource that has a
\* finalizer and removes one that has none.
Deleted(r) == IF r.finalizer THEN [r EXCEPT !.deleting = TRUE] ELSE NoResource

\* Who holds the latest version after a step of which `writers' see the outcome.
HoldersAfter(writers) == IF resource' = resource THEN holders ELSE writers

-----------------------------------------------------------------------------
(* The steps of a worker *)

\* A mutant: Reconcile never asks for a requeue.
ReturnForGood(requeue) == worker' = Idle /\ UNCHANGED queued

\* Reconcile returns; Result{Requeue: requeue}.
Return(requeue) ==
    /\ worker' = Idle
    /\ queued' = (queued \/ requeue)

Goto(pc) == worker' = [worker EXCEPT !.pc = pc] /\ UNCHANGED queued

\* A mutant: the two strings of a status are swapped.
ReportSwapped(status, next) ==
    /\ worker' = [worker EXCEPT !.pc = "status", !.next = next,
                                !.status = NewStatus(status.reason, status.condition)]
    /\ UNCHANGED queued

\* updateStatus comes next, and then the given step or return.
Report(status, next) ==
    /\ worker' = [worker EXCEPT !.pc = "status", !.status = status, !.next = next]
    /\ UNCHANGED queued

\* A mutant: an error is reported and not retried.
FailSilently(reason) == Report(Error(reason), "return")

\* An error is reported and retried.
Fail(reason) == Report(Error(reason), "requeue")

\* The worker's copy is gone with its reconciliation.
Hold(h) == holders' = IF worker'.pc = "idle" THEN h \ {"worker"} ELSE h

UnchangedWorld   == UNCHANGED <<cache, event, ops>>
UnchangedCluster == UNCHANGED <<resource, dropped>> /\ Hold(holders) /\ UnchangedWorld

\* A mutant: the update carries no resource version.
UpdateUnguarded(new, applied, ok) ==
    /\ Call("api", resource.exists, applied, ok)
    /\ resource' = IF applied THEN Stored(new) ELSE resource

(***************************************************************************)
(* An update (or status update) of the resource, guarded by its version.   *)
(* Whoever holds the latest version has the stored metadata and spec, and  *)
(* neither kind of update changes the other part: `new' is the stored      *)
(* resource with the change.                                               *)
(***************************************************************************)
Update(new, applied, ok) ==
    /\ Call("api", "worker" \in holders, applied, ok)
    /\ resource' = IF applied THEN Stored(new) ELSE resource

HoldUpdated(ok) == Hold(HoldersAfter(IF ok THEN {"worker"} ELSE {})) /\ UnchangedWorld

\* What becomes of an update that failed, other than by a conflict: the worker
\* tries again, or goes on as if nothing had happened.
Retried == UNCHANGED dropped
Ignored == dropped' = (dropped \/ faults' # faults)

(***************************************************************************)
(* A worker takes the key and gets the resource from the cache; there is   *)
(* nothing to do when it is not there any more.                            *)
(***************************************************************************)
Reconcile ==
    /\ queued
    /\ worker.pc = "idle"
    /\ queued' = FALSE
    /\ worker' = IF cache.exists THEN [Idle EXCEPT !.pc = "got", !.obj = cache] ELSE Idle
    /\ Hold(IF "cache" \in holders THEN holders \cup {"worker"} ELSE holders)
    /\ dropped' = FALSE
    /\ UNCHANGED <<resource, faults>> /\ UnchangedWorld

RegisterFinalizer ==
    /\ worker.pc = "got"
    /\ ~worker.obj.deleting
    /\ ~worker.obj.finalizer
    /\ \E applied, ok \in BOOLEAN :
         /\ Update([resource EXCEPT !.finalizer = TRUE], applied, ok)
         /\ IF ok THEN worker' = [worker EXCEPT !.obj = resource'] /\ UNCHANGED queued
                  ELSE Return(TRUE)
         /\ HoldUpdated(ok) /\ Retried

\* A mutant: the routine does not wait for the finalizer.
RegisteredLoosely(obj) == ~obj.deleting

Registered(obj) == ~obj.deleting /\ obj.finalizer

\* The first status of a resource says whether its spec is valid.
Admission(valid) ==
    /\ worker.pc = "got"
    /\ Registered(worker.obj)
    /\ worker.obj.status.condition = CrSubmitted
    /\ \/ valid  /\ Report(Progress("passed validation"), "ifFailed")
       \/ ~valid /\ Report(Error("invalid"), "ifFailed")
    /\ UNCHANGED faults /\ UnchangedCluster

\* reconcilerRoutine runs, whatever the condition.
InRoutine(obj) == Registered(obj) /\ obj.status.condition # CrSubmitted

\* A mutant: only a resource in progress becomes "created".
NeedsOkInProgress(obj) == obj.status.condition = CrProgressing

NeedsOk(obj) == obj.status.condition # CrOK

\* What follows a status: Reconcile returns, or goes on with the copy it has.
Resume(obj, ok) ==
    CASE worker.next = "return"   -> Return(FALSE)
      [] worker.next = "requeue"  -> Return(TRUE)
      [] worker.next = "ifFailed" -> Return(~ok)
      [] OTHER -> worker' = [worker EXCEPT !.pc = worker.next, !.obj = obj] /\ UNCHANGED queued

\* updateStatus sets the status of the copy whether or not it is stored; only
\* admissionStep looks at the outcome.
UpdateStatus ==
    /\ worker.pc = "status"
    /\ \E applied, ok \in BOOLEAN :
         /\ Update([resource EXCEPT !.status = worker.status], applied, ok)
         /\ Resume(IF ok THEN resource' ELSE [worker.obj EXCEPT !.status = worker.status], ok)
         /\ HoldUpdated(ok)
    /\ IF worker.next \in {"requeue", "ifFailed"} THEN Retried ELSE Ignored

\* A mutant: the finalizer does not look whether there is a deletion.
ExecutesUndeleted(obj) == obj.finalizer

\* Without the finalizer there is nothing to execute; a deleting resource has
\* one, as no finalizer but the controller's is registered.
ExecutesFinalizer(obj) == obj.deleting /\ obj.finalizer

\* The end of a finalizer: the resource is deleted, by its name ("not found" is
\* a success), and then released.
DeleteResource ==
    /\ worker.pc = "deleteCR"
    /\ \E applied, ok \in BOOLEAN :
         /\ Call("api", TRUE, applied, ok)
         /\ resource' = IF applied /\ resource.exists THEN Deleted(resource) ELSE resource
         /\ IF ok THEN Goto("removeFinalizer") ELSE Return(TRUE)
    /\ Hold(HoldersAfter({})) /\ UnchangedWorld /\ Retried

RemoveFinalizer ==
    /\ worker.pc = "removeFinalizer"
    /\ \E applied, ok \in BOOLEAN :
         /\ Update([resource EXCEPT !.finalizer = FALSE], applied, ok)
         /\ Return(~ok)
         /\ HoldUpdated(ok) /\ Retried

LifecycleStep ==
    Reconcile \/ RegisterFinalizer \/ UpdateStatus \/ DeleteResource \/ RemoveFinalizer

-----------------------------------------------------------------------------
(* The informer and the process *)

\* The watch brings the cache up to date; the event handler enqueues the key
\* later, in a goroutine of its own.
CacheSync ==
    /\ "cache" \notin holders
    /\ cache' = resource
    /\ holders' = holders \cup {"cache"}
    /\ event' = TRUE
    /\ UNCHANGED <<resource, queued, worker, dropped, ops, faults>>

Enqueue ==
    /\ event
    /\ event' = FALSE
    /\ queued' = TRUE
    /\ UNCHANGED <<resource, cache, holders, worker, dropped, ops, faults>>

\* The process starts again: the cache is filled before a worker starts, and
\* every resource found is enqueued.
Restart ==
    /\ worker' = Idle
    /\ cache' = resource
    /\ holders' = {"cache"}
    /\ event' = FALSE
    /\ queued' = resource.exists
    /\ dropped' = FALSE
    /\ UNCHANGED <<resource, ops>>

\* The process stops anywhere.
Crash == Fault("crash") /\ Restart

-----------------------------------------------------------------------------
(* The others: the owner of the resource, somebody with kubectl, the       *)
(* garbage collector; and those whose acts leave the resource alone.       *)

Act ==
    /\ ops < MaxOps
    /\ ops' = ops + 1
    /\ UNCHANGED <<cache, event, queued, worker, dropped, faults>>

ActElsewhere == Act /\ UNCHANGED <<resource, holders>>

CreateResource(spec) ==
    /\ Act
    /\ ~resource.exists
    /\ resource' = NewResource(ops + 1, spec)
    /\ holders' = {}

ChangeSpec(spec) ==
    /\ Act
    /\ resource.exists
    /\ resource.spec # spec
    /\ resource' = [resource EXCEPT !.spec = spec]
    /\ holders' = {}

RequestDeletion ==
    /\ Act
    /\ resource.exists
    /\ ~resource.deleting
    /\ resource' = Deleted(resource)
    /\ holders' = {}

-----------------------------------------------------------------------------
InitReconciler ==
    /\ resource = NoResource
    /\ cache = NoResource
    /\ holders = {"cache"}
    /\ event = FALSE
    /\ queued = FALSE
    /\ worker = Idle
    /\ dropped = FALSE
    /\ ops = 0
    /\ faults = 0

reconcilerVars == <<resource, cache, holders, event, queued, worker, dropped, ops, faults>>

-----------------------------------------------------------------------------
(* What the properties speak of *)

Conditions == {CrSubmitted, CrProgressing, CrOK, CrDeleting, CrError, IrsaFailed}

Reasons ==
    {"", "passed validation", "all done", "invalid", "conflict",
     "policy created", "policy found", "policy updated", "policy attached",
     "role created", "role found", "role deleted", "none attached", "still attached",
     "check failed", "create failed", "get failed", "set failed", "update failed",
     "list failed", "attach failed", "delete failed"}

Statuses == [condition : Conditions, reason : Reasons]

StoredResources(specs) ==
    [exists : {TRUE}, uid : 1..MaxOps, deleting : BOOLEAN, finalizer : BOOLEAN,
     spec : specs, status : Statuses]

Resources(specs) == StoredResources(specs) \cup {NoResource}

CommonSteps == {"idle", "got", "status", "deleteCR", "removeFinalizer"}

Workers(specs, steps, items) ==
    [pc : CommonSteps \cup steps, obj : Resources(specs), status : Statuses,
     next : steps \cup {"return", "requeue", "ifFailed", "deleteCR"}, todo : SUBSET items]

\* The types, for the specs, the steps and the things to detach of a controller.
ReconcilerTypes(specs, steps, items) ==
    /\ resource \in Resources(specs)
    /\ cache \in Resources(specs)
    /\ holders \subseteq {"cache", "worker"}
    /\ event \in BOOLEAN
    /\ queued \in BOOLEAN
    /\ worker \in Workers(specs, steps, items)
    /\ dropped \in BOOLEAN
    /\ ops \in 0..MaxOps
    /\ faults \in 0..MaxFaults

\* The resource is stored and nobody has asked for its deletion.
Alive(r) == r.exists /\ ~r.deleting

\* The resource is gone after the step.
Vanishes == resource.exists /\ ~resource'.exists

\* What the others see of a resource, with its ARN or without.
Marks(r, hasArn) ==
    {mark \in {"exists", "held", "deleting", "recorded", "ok"} :
        \/ mark = "exists"   /\ r.exists
        \/ mark = "held"     /\ r.finalizer
        \/ mark = "deleting" /\ r.deleting
        \/ mark = "recorded" /\ hasArn
        \/ mark = "ok"       /\ r.status.condition = CrOK}

\* Nothing is left to do: no worker, no key in the queue, no event on its way.
Quiescent == worker.pc = "idle" /\ ~queued /\ ~event /\ "cache" \in holders

-----------------------------------------------------------------------------
(* The invariant behind the safety properties: the copies that the cache   *)
(* and the worker hold are late, never wrong about what matters.           *)

Busy == worker.pc # "idle"

\* Whoever may write holds the stored metadata and spec.
CopiesCurrent ==
    /\ "cache" \in holders => cache = resource
    /\ "worker" \in holders => Busy /\ resource = [worker.obj EXCEPT !.status = resource.status]

\* Copies come in the order of the incarnations, and never from the future.
UidsOrdered ==
    /\ resource.uid <= ops /\ cache.uid <= ops /\ worker.obj.uid <= ops
    /\ resource.exists /\ cache.exists => cache.uid <= resource.uid
    /\ resource.exists /\ Busy => worker.obj.uid <= resource.uid
    /\ cache.exists /\ Busy => worker.obj.uid <= cache.uid

\* A live copy with the finalizer: that incarnation is stored, with the finalizer.
FinalizerStays(copy) ==
    copy.finalizer /\ ~copy.deleting =>
        resource.exists /\ resource.uid = copy.uid /\ resource.finalizer

\* A deleting copy: that incarnation is not stored alive.
DoomedStays(copy, r) == copy.deleting /\ r.uid = copy.uid => ~Alive(r)

\* Another incarnation than the copy's has no finalizer yet.
SuccessorIsNew(copy) == resource.exists /\ resource.uid # copy.uid => ~resource.finalizer

CopiesTruthful ==
    /\ cache.exists => /\ FinalizerStays(cache)
                       /\ DoomedStays(cache, resource)
                       /\ SuccessorIsNew(cache)
    /\ Busy => /\ worker.obj.exists
               /\ FinalizerStays(worker.obj)
               /\ DoomedStays(worker.obj, resource)
               /\ DoomedStays(worker.obj, cache)
               /\ SuccessorIsNew(worker.obj)

CopiesInv == CopiesCurrent /\ UidsOrdered /\ CopiesTruthful

\* What the worker has established when it reaches a common step.
CommonStepsJustified ==
    /\ worker.pc = "status" => worker.obj.finalizer
    /\ \/ worker.pc \in {"deleteCR", "removeFinalizer"}
       \/ worker.pc = "status" /\ worker.next = "deleteCR"
       => ExecutesFinalizer(worker.obj)

-----------------------------------------------------------------------------
(* The invariant behind what is said of a resource at rest: whatever a     *)
(* reconciliation leaves undone, something brings the worker back.         *)

\* A key in the queue, an event on its way to it, or a version that the cache
\* has yet to hear of.
Stirring == queued \/ event \/ "cache" \notin holders

\* The worker has the stored resource itself, unless it did not heed a failure,
\* or will be followed by another.
LateIsWoken ==
    /\ "worker" \in holders /\ ~dropped => worker.obj = resource
    /\ Busy /\ "worker" \notin holders => Stirring

\* The status that ends a reconciliation without a retry.
LastWord == worker.pc = "status" /\ worker.next \in {"return", "ifFailed"}

\* Its update makes a new version, and so an event.
LastWordIsNew == LastWord => Stirring \/ worker.status # resource.status

(***************************************************************************)
(* Whatever fails, a deletion is not forgotten: there is a worker that     *)
(* knows of it, or one will come; and the worker that knows of it does not *)
(* return for good with a status.                                          *)
(***************************************************************************)
DeletionPursued ==
    /\ resource.deleting => Stirring \/ (Busy /\ worker.obj.deleting)
    /\ Busy /\ worker.obj.deleting => ~LastWord

=============================================================================
