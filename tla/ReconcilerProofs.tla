-------------------------- MODULE ReconcilerProofs --------------------------
(***************************************************************************)
(* Lemmas about Reconciler, for every controller built on it: its specs,   *)
(* its own steps and the things it detaches are the parameters.            *)
(*                                                                         *)
(* They say that what the API server, the informer, the process, the users *)
(* and the worker's common steps do keeps ReconcilerInv: the types, the    *)
(* truthfulness of the copies, and what the worker has established at its  *)
(* common steps.  A controller proves the same of its own steps, with the  *)
(* lemmas for a worker that moves on and for an update.                    *)
(***************************************************************************)
EXTENDS Reconciler, TLAPS

(* A controller's own steps are none of the common ones. *)
ReconcilerInv(specs, steps, items) ==
    /\ steps \cap CommonSteps = {}
    /\ ReconcilerTypes(specs, steps, items)
    /\ CopiesInv
    /\ CommonStepsJustified

-----------------------------------------------------------------------------
(* Resources *)

(* The absent resource has none of the marks. *)
LEMMA NoResourceFields ==
    /\ NoResource.exists = FALSE /\ NoResource.deleting = FALSE /\ NoResource.finalizer = FALSE
    /\ NoResource.uid = 0 /\ NoResource.status = NoStatus /\ NoResource.spec = NoSpec
    /\ NoStatus \in Statuses /\ NoStatus.condition = CrSubmitted
<1>1. NoStatus \in Statuses /\ NoStatus.condition = CrSubmitted
  BY DEF NoStatus, NewStatus, Statuses, Conditions, Reasons
<1> QED
  BY <1>1 DEF NoResource

(* What the type of a resource says of its fields. *)
LEMMA ResourceFields ==
  ASSUME NEW specs, NEW r \in Resources(specs)
  PROVE  /\ r.exists \in BOOLEAN /\ r.deleting \in BOOLEAN /\ r.finalizer \in BOOLEAN
         /\ r.uid \in 0..MaxOps /\ r.uid \in Nat /\ r.status \in Statuses
         /\ r.exists => r.spec \in specs
         /\ ~r.exists => r = NoResource
<1>1. CASE r = NoResource
  <2>1. 0 \in 0..MaxOps
    BY OpsAssumption
  <2> QED
    BY <1>1, <2>1, NoResourceFields DEF NoResource
<1>2. CASE r # NoResource
  <2>1. r \in StoredResources(specs)
    BY <1>2 DEF Resources
  <2>2. r.uid \in 1..MaxOps /\ r.exists = TRUE
    BY <2>1 DEF StoredResources
  <2>3. r.uid \in 0..MaxOps /\ r.uid \in Nat
    BY <2>2, OpsAssumption
  <2> QED
    BY <2>1, <2>2, <2>3 DEF StoredResources
<1> QED
  BY <1>1, <1>2

(* Only the absent resource does not exist. *)
LEMMA StoredExists ==
  ASSUME NEW specs, NEW r \in Resources(specs)
  PROVE  r.exists <=> r \in StoredResources(specs)
<1>1. CASE r = NoResource
  <2>1. \A s \in StoredResources(specs) : s.exists
    BY DEF StoredResources
  <2> QED
    BY <1>1, <2>1, NoResourceFields
<1>2. CASE r # NoResource
  BY <1>2 DEF Resources, StoredResources
<1> QED
  BY <1>1, <1>2

(* What is to be deleted is still stored. *)
LEMMA DeletingIsStored ==
  ASSUME NEW specs, NEW r \in Resources(specs), r.deleting
  PROVE  r.exists
<1>1. r # NoResource
  BY NoResourceFields
<1> QED
  BY <1>1, StoredExists DEF Resources

(* Resources that agree differ in their statuses at most. *)
Agrees(r, s) ==
    /\ r.exists = s.exists /\ r.uid = s.uid /\ r.deleting = s.deleting
    /\ r.finalizer = s.finalizer /\ r.spec = s.spec

LEMMA AgreeUpToStatus ==
  ASSUME NEW specs, NEW r \in Resources(specs), NEW s \in Resources(specs), s.exists
  PROVE  r = [s EXCEPT !.status = r.status] <=> Agrees(r, s)
<1>1. s \in StoredResources(specs)
  BY StoredExists
<1>2. ASSUME r = [s EXCEPT !.status = r.status] PROVE Agrees(r, s)
  BY <1>1, <1>2 DEF Agrees, StoredResources
<1>3. ASSUME Agrees(r, s) PROVE r = [s EXCEPT !.status = r.status]
  <2>1. r \in StoredResources(specs)
    BY <1>3, StoredExists DEF Agrees
  <2> QED
    BY <1>1, <1>3, <2>1 DEF Agrees, StoredResources
<1> QED
  BY <1>2, <1>3

(* The changes of a stored resource. *)
LEMMA FinalizerEdit ==
  ASSUME NEW specs, NEW r \in Resources(specs), r.exists,
         NEW s, s = [r EXCEPT !.finalizer = TRUE]
  PROVE  /\ s \in Resources(specs) /\ s.exists /\ s.uid = r.uid /\ s.deleting = r.deleting
         /\ s.finalizer /\ s.spec = r.spec /\ s.status = r.status
<1>1. r \in StoredResources(specs)
  BY StoredExists
<1> QED
  BY <1>1 DEF Resources, StoredResources

LEMMA ReleaseEdit ==
  ASSUME NEW specs, NEW r \in Resources(specs), r.exists,
         NEW s, s = [r EXCEPT !.finalizer = FALSE]
  PROVE  s.deleting = r.deleting /\ ~s.finalizer
<1>1. r \in StoredResources(specs)
  BY StoredExists
<1> QED
  BY <1>1 DEF StoredResources

LEMMA DeletingEdit ==
  ASSUME NEW specs, NEW r \in Resources(specs), r.exists,
         NEW s, s = [r EXCEPT !.deleting = TRUE]
  PROVE  /\ s \in Resources(specs) /\ s.exists /\ s.uid = r.uid /\ s.deleting
         /\ s.finalizer = r.finalizer /\ s.spec = r.spec /\ s.status = r.status
<1>1. r \in StoredResources(specs)
  BY StoredExists
<1> QED
  BY <1>1 DEF Resources, StoredResources

LEMMA SpecEdit ==
  ASSUME NEW specs, NEW r \in Resources(specs), r.exists, NEW x \in specs,
         NEW s, s = [r EXCEPT !.spec = x]
  PROVE  /\ s \in Resources(specs) /\ s.exists /\ s.uid = r.uid /\ s.deleting = r.deleting
         /\ s.finalizer = r.finalizer /\ s.spec = x /\ s.status = r.status
<1>1. r \in StoredResources(specs)
  BY StoredExists
<1> QED
  BY <1>1 DEF Resources, StoredResources

LEMMA StatusEdit ==
  ASSUME NEW specs, NEW r \in Resources(specs), r.exists, NEW x \in Statuses,
         NEW s, s = [r EXCEPT !.status = x]
  PROVE  /\ s \in Resources(specs) /\ s.exists /\ s.uid = r.uid /\ s.deleting = r.deleting
         /\ s.finalizer = r.finalizer /\ s.spec = r.spec /\ s.status = x
<1>1. r \in StoredResources(specs)
  BY StoredExists
<1> QED
  BY <1>1 DEF Resources, StoredResources

(* A delete by name marks a resource with a finalizer and removes another. *)
LEMMA DeletedFields ==
  ASSUME NEW specs, NEW r \in Resources(specs), r.exists, NEW s, s = Deleted(r)
  PROVE  /\ ~r.finalizer => s = NoResource
         /\ r.finalizer =>
              /\ s \in Resources(specs) /\ s.exists /\ s.uid = r.uid /\ s.deleting
              /\ s.finalizer = r.finalizer /\ s.spec = r.spec /\ s.status = r.status
  BY DeletingEdit DEF Deleted

-----------------------------------------------------------------------------
(* Workers and calls *)

(* What ReconcilerTypes says of the fields the proofs look at. *)
LEMMA FieldTypes ==
  ASSUME NEW specs, NEW steps, NEW items, ReconcilerTypes(specs, steps, items)
  PROVE  /\ resource \in Resources(specs) /\ cache \in Resources(specs)
         /\ worker.obj \in Resources(specs) /\ worker.status \in Statuses
         /\ worker.pc \in CommonSteps \cup steps
         /\ worker.next \in steps \cup {"return", "requeue", "ifFailed", "deleteCR"}
         /\ resource.uid \in Nat /\ cache.uid \in Nat /\ worker.obj.uid \in Nat /\ ops \in Nat
<1>1. /\ resource \in Resources(specs) /\ cache \in Resources(specs)
      /\ worker \in Workers(specs, steps, items) /\ ops \in 0..MaxOps
  BY DEF ReconcilerTypes
<1>2. /\ worker.obj \in Resources(specs) /\ worker.status \in Statuses
      /\ worker.pc \in CommonSteps \cup steps
      /\ worker.next \in steps \cup {"return", "requeue", "ifFailed", "deleteCR"}
  BY <1>1 DEF Workers
<1>3. ops \in Nat
  BY <1>1, OpsAssumption
<1> QED
  BY <1>1, <1>2, <1>3, ResourceFields

(* The idle worker is a worker. *)
LEMMA IdleType ==
  ASSUME NEW specs, NEW steps, NEW items
  PROVE  /\ Idle \in Workers(specs, steps, items)
         /\ Idle.pc = "idle" /\ Idle.obj = NoResource /\ Idle.obj.uid = 0
<1>1. NoResource \in Resources(specs)
  BY DEF Resources
<1> QED
  BY <1>1, NoResourceFields DEF Idle, Workers, CommonSteps

(* The count of failures stays within its bound. *)
LEMMA FaultType ==
  ASSUME faults \in 0..MaxFaults, NEW kind, Fault(kind)
  PROVE  faults' \in 0..MaxFaults
  BY FaultsAssumption DEF Fault

(* A read counts at most one failure. *)
LEMMA AnswerType ==
  ASSUME faults \in 0..MaxFaults, NEW kind, NEW ok \in BOOLEAN, Answer(kind, ok)
  PROVE  faults' \in 0..MaxFaults
  BY FaultType DEF Answer

(* A call that succeeds was accepted and took effect; one that took effect *)
(* was accepted.                                                           *)
LEMMA CallType ==
  ASSUME faults \in 0..MaxFaults, NEW kind, NEW legal \in BOOLEAN,
         NEW applied \in BOOLEAN, NEW ok \in BOOLEAN, Call(kind, legal, applied, ok)
  PROVE  faults' \in 0..MaxFaults /\ (applied => legal) /\ (ok => applied)
  BY FaultType DEF Call

-----------------------------------------------------------------------------
(* The moves of the worker *)

(* The worker goes on with the copy it has, or returns. *)
MovesOn(specs, steps, items) ==
    /\ worker' \in Workers(specs, steps, items)
    /\ queued' \in BOOLEAN
    /\ worker' = Idle \/ (worker'.pc # "idle" /\ worker'.obj = worker.obj)

(* Going to another step keeps the worker's copy. *)
LEMMA GotoMoves ==
  ASSUME NEW specs, NEW steps, NEW items, ReconcilerTypes(specs, steps, items),
         NEW pc \in CommonSteps \cup steps, pc # "idle", Goto(pc)
  PROVE  MovesOn(specs, steps, items) /\ worker'.pc = pc /\ worker'.obj = worker.obj
  BY DEF ReconcilerTypes, Workers, Goto, MovesOn

(* Reporting a status leads to updateStatus, with the same copy. *)
LEMMA ReportMoves ==
  ASSUME NEW specs, NEW steps, NEW items, ReconcilerTypes(specs, steps, items),
         NEW status \in Statuses,
         NEW next \in steps \cup {"return", "requeue", "ifFailed", "deleteCR"},
         Report(status, next)
  PROVE  /\ MovesOn(specs, steps, items)
         /\ worker'.pc = "status" /\ worker'.obj = worker.obj
         /\ worker'.status = status /\ worker'.next = next
<1>1. worker \in Workers(specs, steps, items)
  BY DEF ReconcilerTypes
<1>2. worker' \in Workers(specs, steps, items)
  BY <1>1 DEF Workers, Report, CommonSteps
<1> QED
  BY <1>1, <1>2 DEF ReconcilerTypes, Workers, Report, MovesOn

(* The statuses that the code writes are statuses. *)
LEMMA StatusTypes ==
    /\ AllDone \in Statuses
    /\ \A r \in Reasons :
         /\ Progress(r) \in Statuses /\ Progress(r).condition = CrProgressing
         /\ Error(r) \in Statuses    /\ Error(r).condition = CrError
         /\ Deleting(r) \in Statuses /\ Deleting(r).condition = CrDeleting
<1>1. "all done" \in Reasons
  BY DEF Reasons
<1> QED
  BY <1>1 DEF AllDone, Progress, Error, Deleting, NewStatus, Statuses, Conditions

(* Reporting an error is a report that is retried. *)
LEMMA FailMoves ==
  ASSUME NEW specs, NEW steps, NEW items, ReconcilerTypes(specs, steps, items),
         NEW reason \in Reasons, Fail(reason)
  PROVE  /\ MovesOn(specs, steps, items)
         /\ worker'.pc = "status" /\ worker'.obj = worker.obj
         /\ worker'.status.condition = CrError /\ worker'.next = "requeue"
<1>1. Error(reason) \in Statuses /\ Error(reason).condition = CrError
  BY StatusTypes
<1>2. Report(Error(reason), "requeue")
  BY DEF Fail
<1> QED
  BY <1>1, <1>2, ReportMoves

(* Returning from Reconcile leaves the worker idle, without a copy. *)
LEMMA ReturnMoves ==
  ASSUME NEW specs, NEW steps, NEW items, ReconcilerTypes(specs, steps, items),
         NEW requeue \in BOOLEAN, Return(requeue)
  PROVE  MovesOn(specs, steps, items) /\ worker' = Idle
  BY IdleType DEF ReconcilerTypes, Return, MovesOn

-----------------------------------------------------------------------------
(* The stored resource and its copies *)

(* Whoever holds the latest version has a copy that agrees with it. *)
LEMMA WorkerHolds ==
  ASSUME NEW specs, NEW steps, NEW items, ReconcilerInv(specs, steps, items),
         "worker" \in holders
  PROVE  Busy /\ worker.obj.exists /\ resource.exists /\ Agrees(resource, worker.obj)
<1>1. resource \in Resources(specs) /\ worker.obj \in Resources(specs)
  BY FieldTypes DEF ReconcilerInv
<1>2. Busy /\ worker.obj.exists /\ resource = [worker.obj EXCEPT !.status = resource.status]
  BY DEF ReconcilerInv, CopiesInv, CopiesCurrent, CopiesTruthful
<1>3. Agrees(resource, worker.obj)
  BY <1>1, <1>2, AgreeUpToStatus
<1> QED
  BY <1>2, <1>3 DEF Agrees

(* What there is to show about the holders after a step. *)
LEMMA StillCurrent ==
  ASSUME NEW specs, resource' \in Resources(specs), worker'.obj \in Resources(specs),
         "cache" \in holders' => cache' = resource',
         "worker" \in holders' =>
             worker'.pc # "idle" /\ worker'.obj.exists /\ Agrees(resource', worker'.obj)
  PROVE  CopiesCurrent'
<1>1. "worker" \in holders' => resource' = [worker'.obj EXCEPT !.status = resource'.status]
  BY AgreeUpToStatus
<1> QED
  BY <1>1 DEF CopiesCurrent, Busy

(* The resource stays, or changes without losing its finalizer or taking a *)
(* deletion back; the finalizer comes from the worker that holds the       *)
(* latest version.                                                         *)
Evolves ==
    \/ resource' = resource
    \/ /\ resource.exists /\ resource'.exists /\ resource'.uid = resource.uid
       /\ resource.deleting => resource'.deleting
       /\ resource.finalizer => resource'.finalizer
       /\ resource'.finalizer = resource.finalizer \/ "worker" \in holders

(* The worker keeps its copy, drops it, or takes what it has just stored. *)
CopyFollows ==
    \/ worker' = worker
    \/ worker' = Idle
    \/ Busy /\ worker'.pc # "idle" /\ Agrees(worker'.obj, worker.obj)
    \/ /\ Busy /\ worker'.pc # "idle" /\ "worker" \in holders
       /\ worker'.obj = resource' /\ resource'.exists
       /\ resource'.uid = resource.uid /\ resource'.deleting = resource.deleting

(* The order of the copies outlives such a step. *)
LEMMA EvolvingKeepsOrder ==
  ASSUME NEW specs, NEW steps, NEW items, ReconcilerInv(specs, steps, items),
         cache' = cache, ops' \in Nat, ops <= ops', CopyFollows,
         resource'.uid \in Nat, resource'.uid <= resource.uid,
         resource'.exists => resource.exists /\ resource'.uid = resource.uid
  PROVE  UidsOrdered'
<1>1. /\ resource.uid \in Nat /\ cache.uid \in Nat /\ worker.obj.uid \in Nat /\ ops \in Nat
      /\ UidsOrdered
  BY FieldTypes DEF ReconcilerInv, CopiesInv
<1>2. /\ worker'.obj.uid = worker.obj.uid \/ (worker'.obj.uid = 0 /\ worker'.pc = "idle")
      /\ Busy' => Busy
  BY IdleType, WorkerHolds DEF CopyFollows, Agrees, Busy
<1>3. resource.uid <= ops' /\ cache.uid <= ops' /\ worker.obj.uid <= ops' /\ 0 <= ops'
  BY <1>1 DEF UidsOrdered
<1>4. resource'.uid <= ops' /\ worker'.obj.uid <= ops'
  BY <1>1, <1>2, <1>3
<1>5. Busy' => worker'.obj.uid = worker.obj.uid
  BY <1>2 DEF Busy
<1> QED
  BY <1>1, <1>2, <1>3, <1>4, <1>5 DEF UidsOrdered

(* So does their truthfulness. *)
LEMMA EvolvingKeepsCopies ==
  ASSUME NEW specs, NEW steps, NEW items, ReconcilerInv(specs, steps, items),
         cache' = cache, ops' \in Nat, ops <= ops', Evolves, CopyFollows, CopiesCurrent'
  PROVE  CopiesInv'
<1>1. /\ resource.uid \in Nat /\ cache.uid \in Nat /\ worker.obj.uid \in Nat
      /\ UidsOrdered /\ CopiesTruthful
  BY FieldTypes DEF ReconcilerInv, CopiesInv
<1>2. UidsOrdered'
  <2>1. resource'.uid = resource.uid /\ (resource'.exists => resource.exists)
    BY DEF Evolves
  <2> QED
    BY <1>1, <2>1, EvolvingKeepsOrder
<1>3. CASE "worker" \in holders
  <2>1. Busy /\ worker.obj.exists /\ resource.exists /\ Agrees(resource, worker.obj)
    BY <1>3, WorkerHolds
  <2>2. cache.exists => cache.uid = resource.uid
    BY <1>1, <2>1 DEF UidsOrdered, Agrees
  <2>3. /\ resource'.exists /\ resource'.uid = resource.uid
        /\ (resource.deleting => resource'.deleting) /\ (resource.finalizer => resource'.finalizer)
    BY <2>1 DEF Evolves
  <2>4. Busy' => /\ worker'.obj.exists /\ worker'.obj.uid = resource.uid
                 /\ worker'.obj.deleting = resource.deleting
                 /\ worker'.obj.finalizer => resource'.finalizer
    BY <2>1, <2>3, IdleType DEF CopyFollows, Agrees, Busy
  <2>5. CopiesTruthful'
    BY <1>1, <2>1, <2>2, <2>3, <2>4 DEF CopiesTruthful, FinalizerStays, DoomedStays,
           SuccessorIsNew, Alive, Agrees
  <2> QED
    BY <1>2, <2>5 DEF CopiesInv
<1>4. CASE "worker" \notin holders
  <2>1. Busy' => Busy /\ Agrees(worker'.obj, worker.obj)
    BY <1>4, IdleType DEF CopyFollows, Busy, Agrees
  <2>2. CopiesTruthful'
    BY <1>1, <1>4, <2>1 DEF CopiesTruthful, FinalizerStays, DoomedStays,
           SuccessorIsNew, Alive, Agrees, Evolves
  <2> QED
    BY <1>2, <2>2 DEF CopiesInv
<1> QED
  BY <1>3, <1>4

(* So does the removal of a resource that no copy shows alive with a *)
(* finalizer.                                                        *)
LEMMA RemovingKeepsCopies ==
  ASSUME NEW specs, NEW steps, NEW items, ReconcilerInv(specs, steps, items),
         cache' = cache, ops' \in Nat, ops <= ops', resource' = NoResource,
         CopyFollows, CopiesCurrent',
         cache.exists /\ cache.finalizer => cache.deleting,
         Busy /\ worker.obj.finalizer => worker.obj.deleting
  PROVE  CopiesInv'
<1>1. /\ resource.uid \in Nat /\ cache.uid \in Nat /\ worker.obj.uid \in Nat
      /\ UidsOrdered /\ CopiesTruthful
  BY FieldTypes DEF ReconcilerInv, CopiesInv
<1>2. ~resource'.exists /\ resource'.uid = 0
  BY NoResourceFields
<1>3. UidsOrdered'
  BY <1>1, <1>2, EvolvingKeepsOrder
<1>4. Busy' => Busy /\ Agrees(worker'.obj, worker.obj)
  BY <1>2, IdleType DEF CopyFollows, Busy, Agrees
<1>5. CopiesTruthful'
  BY <1>1, <1>2, <1>4 DEF CopiesTruthful, FinalizerStays, DoomedStays, SuccessorIsNew, Alive, Agrees
<1> QED
  BY <1>3, <1>5 DEF CopiesInv

(* A worker that moves on leaves the copies as they are. *)
LEMMA MovingKeeps ==
  ASSUME NEW specs, NEW steps, NEW items, ReconcilerInv(specs, steps, items),
         Busy, MovesOn(specs, steps, items), faults' \in 0..MaxFaults, UnchangedCluster
  PROVE  /\ ReconcilerTypes(specs, steps, items)' /\ CopiesInv'
         /\ resource' = resource
<1>1. /\ UNCHANGED <<resource, cache, event, dropped, ops>>
      /\ holders' = IF worker'.pc = "idle" THEN holders \ {"worker"} ELSE holders
  BY DEF UnchangedCluster, UnchangedWorld, Hold
<1>2. /\ ReconcilerTypes(specs, steps, items) /\ CopiesCurrent
      /\ holders \subseteq {"cache", "worker"}
  BY DEF ReconcilerInv, CopiesInv, ReconcilerTypes
<1>3. ReconcilerTypes(specs, steps, items)'
  BY <1>1, <1>2 DEF ReconcilerTypes, MovesOn
<1>4. CopyFollows
  BY DEF MovesOn, CopyFollows, Agrees
<1>5. CopiesCurrent'
  BY <1>1, <1>2, IdleType DEF CopiesCurrent, MovesOn, Busy
<1>6. ops' \in Nat /\ ops <= ops'
  <2>1. ops \in Nat /\ ops' = ops
    BY <1>1, <1>2, FieldTypes
  <2> QED
    BY <2>1
<1>7. CopiesInv'
  BY <1>1, <1>4, <1>5, <1>6, EvolvingKeepsCopies DEF Evolves
<1> QED
  BY <1>1, <1>3, <1>7

(* An update that took effect was made from the stored version. *)
LEMMA UpdateFacts ==
  ASSUME NEW specs, NEW steps, NEW items, ReconcilerInv(specs, steps, items),
         NEW new, NEW applied \in BOOLEAN, NEW ok \in BOOLEAN, Update(new, applied, ok)
  PROVE  /\ faults' \in 0..MaxFaults
         /\ ok => applied
         /\ applied => /\ "worker" \in holders /\ resource.exists /\ worker.obj.exists
                       /\ Agrees(resource, worker.obj) /\ resource' = Stored(new)
         /\ ~applied => resource' = resource
<1>1. faults \in 0..MaxFaults
  BY DEF ReconcilerInv, ReconcilerTypes
<1>2. faults' \in 0..MaxFaults /\ (applied => "worker" \in holders) /\ (ok => applied)
  <2>1. ("worker" \in holders) \in BOOLEAN
    OBVIOUS
  <2> QED
    BY <1>1, <2>1, CallType DEF Update
<1> QED
  BY <1>1, <1>2, WorkerHolds DEF Update

(* An update of the resource that keeps its finalizer: the worker goes on  *)
(* with what it stored or, when it saw an error, with the copy it had.     *)
LEMMA UpdatingKeeps ==
  ASSUME NEW specs, NEW steps, NEW items, ReconcilerInv(specs, steps, items), Busy,
         NEW new, NEW applied \in BOOLEAN, NEW ok \in BOOLEAN,
         Update(new, applied, ok), HoldUpdated(ok), Retried \/ Ignored,
         applied => /\ new \in Resources(specs) /\ new.exists /\ new.finalizer
                    /\ new.uid = resource.uid /\ new.deleting = resource.deleting,
         worker' \in Workers(specs, steps, items), queued' \in BOOLEAN,
         \/ worker' = Idle
         \/ /\ worker'.pc # "idle"
            /\ IF ok THEN worker'.obj = resource' ELSE Agrees(worker'.obj, worker.obj)
  PROVE  /\ ReconcilerTypes(specs, steps, items)' /\ CopiesInv'
         /\ ok => applied
         /\ applied => resource' = new /\ resource.exists /\ Agrees(resource, worker.obj)
         /\ ~applied => resource' = resource
<1>1. /\ faults' \in 0..MaxFaults
      /\ ok => applied
      /\ applied => /\ "worker" \in holders /\ resource.exists /\ worker.obj.exists
                    /\ Agrees(resource, worker.obj) /\ resource' = new
      /\ ~applied => resource' = resource
  <2>1. applied => Stored(new) = new
    BY DEF Stored
  <2> QED
    BY <2>1, UpdateFacts
<1>2. /\ ReconcilerTypes(specs, steps, items) /\ resource \in Resources(specs)
      /\ worker'.obj \in Resources(specs) /\ worker.obj.exists
      /\ holders \subseteq {"cache", "worker"} /\ CopiesCurrent
  <2>1. worker'.obj \in Resources(specs)
    BY DEF Workers
  <2> QED
    BY <2>1, FieldTypes DEF ReconcilerInv, ReconcilerTypes, CopiesInv, CopiesTruthful
<1>3. resource' \in Resources(specs)
  BY <1>1, <1>2
<1>4. /\ UNCHANGED <<cache, event, ops>>
      /\ Hold(HoldersAfter(IF ok THEN {"worker"} ELSE {}))
  BY DEF HoldUpdated, UnchangedWorld
<1>5. holders' \subseteq {"cache", "worker"}
  BY <1>2, <1>4 DEF Hold, HoldersAfter
<1>6. ReconcilerTypes(specs, steps, items)'
  <2>1. dropped' \in BOOLEAN
    BY <1>2 DEF Retried, Ignored, ReconcilerTypes
  <2> QED
    BY <1>1, <1>2, <1>3, <1>4, <1>5, <2>1 DEF ReconcilerTypes
<1>7. CopiesCurrent'
  <2>1. "cache" \in holders' => cache' = resource'
    BY <1>2, <1>4 DEF Hold, HoldersAfter, CopiesCurrent
  <2>2. ASSUME "worker" \in holders'
        PROVE  worker'.pc # "idle" /\ worker'.obj.exists /\ Agrees(resource', worker'.obj)
    <3>1. worker'.pc # "idle" /\ (ok \/ (resource' = resource /\ "worker" \in holders))
      BY <1>4, <2>2 DEF Hold, HoldersAfter
    <3>2. IF ok THEN worker'.obj = resource' ELSE Agrees(worker'.obj, worker.obj)
      BY <3>1, IdleType
    <3>3. CASE ok
      BY <1>1, <3>1, <3>2, <3>3 DEF Agrees
    <3>4. CASE ~ok
      <4>1. Agrees(resource, worker.obj)
        BY <3>1, <3>4, WorkerHolds
      <4> QED
        BY <1>2, <3>1, <3>2, <3>4, <4>1 DEF Agrees
    <3> QED
      BY <3>3, <3>4
  <2> QED
    BY <1>2, <1>3, <2>1, <2>2, StillCurrent
<1>8. Evolves
  BY <1>1 DEF Evolves
<1>9. CopyFollows
  BY <1>1, IdleType DEF CopyFollows
<1>10. ops' \in Nat /\ ops <= ops'
  <2>1. ops \in Nat /\ ops' = ops
    BY <1>2, <1>4, FieldTypes
  <2> QED
    BY <2>1
<1>11. CopiesInv'
  BY <1>4, <1>7, <1>8, <1>9, <1>10, EvolvingKeepsCopies
<1> QED
  BY <1>1, <1>6, <1>11

-----------------------------------------------------------------------------
(* The common steps of the worker *)

(* What a common step may do, beside keeping ReconcilerInv: the stored     *)
(* resource keeps its spec and its marks until it is released; a new       *)
(* status is the one the worker reports; and the worker goes where it was  *)
(* going.                                                                  *)
LifecycleOutcome(steps) ==
    /\ resource'.exists =>
         /\ resource.exists /\ resource'.spec = resource.spec
         /\ resource.finalizer => resource'.finalizer
         /\ resource.deleting => resource'.deleting
    /\ Vanishes /\ resource.finalizer =>
         worker.pc = "removeFinalizer" /\ resource.spec = worker.obj.spec
    /\ resource'.exists /\ resource'.status.condition # resource.status.condition =>
         worker.pc = "status" /\ resource'.status = worker.status /\ resource.spec = worker.obj.spec
    /\ \/ worker'.pc \in {"idle", "got"}
       \/ /\ worker.pc = "status" /\ worker'.pc = worker.next
          /\ worker.next \in steps \cup {"deleteCR"} /\ Agrees(worker'.obj, worker.obj)
       \/ worker.pc = "deleteCR" /\ worker'.pc = "removeFinalizer" /\ worker'.obj = worker.obj

(* Reconcile starts from the cached copy, which is truthful. *)
LEMMA ReconcileKeeps ==
  ASSUME NEW specs, NEW steps, NEW items, ReconcilerInv(specs, steps, items), Reconcile
  PROVE  ReconcilerInv(specs, steps, items)' /\ LifecycleOutcome(steps)
<1>1. /\ worker.pc = "idle" /\ queued' = FALSE /\ dropped' = FALSE
      /\ UNCHANGED <<resource, cache, ops, event, faults>>
      /\ Hold(IF "cache" \in holders THEN holders \cup {"worker"} ELSE holders)
  BY DEF Reconcile, UnchangedWorld
<1>2. /\ ReconcilerTypes(specs, steps, items) /\ UidsOrdered /\ CopiesTruthful
      /\ CopiesCurrent /\ cache \in Resources(specs) /\ resource \in Resources(specs)
      /\ cache.uid \in Nat /\ resource.uid \in Nat /\ ops \in Nat
  BY FieldTypes DEF ReconcilerInv, CopiesInv
<1>3. /\ worker' \in Workers(specs, steps, items)
      /\ ~cache.exists => worker'.pc = "idle" /\ worker'.obj = NoResource
      /\ cache.exists => worker'.pc = "got" /\ worker'.obj = cache
  <2>1. Idle \in Workers(specs, steps, items) /\ Idle.pc = "idle" /\ Idle.obj = NoResource
    BY IdleType
  <2>2. LET w == [Idle EXCEPT !.pc = "got", !.obj = cache]
        IN  w \in Workers(specs, steps, items) /\ w.pc = "got" /\ w.obj = cache
    BY <1>2, <2>1 DEF Workers, CommonSteps
  <2> QED
    BY <2>1, <2>2 DEF Reconcile
<1>4. ReconcilerTypes(specs, steps, items)'
  <2>1. holders' \subseteq {"cache", "worker"}
    BY <1>1, <1>2 DEF ReconcilerTypes, Hold
  <2> QED
    BY <1>1, <1>2, <1>3, <2>1 DEF ReconcilerTypes
<1>5. CopiesCurrent'
  <2>1. ASSUME "worker" \in holders'
        PROVE  worker'.pc # "idle" /\ worker'.obj = cache /\ cache.exists /\ cache = resource
    <3>1. worker'.pc # "idle" /\ "cache" \in holders
      BY <1>1, <1>2, <2>1 DEF Hold, CopiesCurrent, Busy
    <3> QED
      BY <1>2, <1>3, <3>1 DEF CopiesCurrent
  <2>2. worker'.obj \in Resources(specs)
    BY <1>3 DEF Workers
  <2> QED
    BY <1>1, <1>2, <2>1, <2>2, StillCurrent DEF Hold, CopiesCurrent, Agrees
<1>6. UidsOrdered'
  <2>1. worker'.obj.uid = IF cache.exists THEN cache.uid ELSE 0
    BY <1>3, NoResourceFields
  <2> QED
    BY <1>1, <1>2, <1>3, <2>1 DEF UidsOrdered, Busy
<1>7. CopiesTruthful'
  <2>1. cache.exists => DoomedStays(cache, cache)
    BY DEF DoomedStays, Alive
  <2> QED
    BY <1>1, <1>2, <1>3, <2>1 DEF CopiesTruthful, Busy, FinalizerStays, DoomedStays,
         SuccessorIsNew, Alive
<1>8. CommonStepsJustified' /\ LifecycleOutcome(steps)
  BY <1>1, <1>3 DEF CommonStepsJustified, LifecycleOutcome, Vanishes
<1> QED
  BY <1>4, <1>5, <1>6, <1>7, <1>8 DEF ReconcilerInv, CopiesInv

(* registerFinalizerIfNeeded adds the finalizer to the version it was read from. *)
LEMMA RegisterFinalizerKeeps ==
  ASSUME NEW specs, NEW steps, NEW items, ReconcilerInv(specs, steps, items), RegisterFinalizer
  PROVE  ReconcilerInv(specs, steps, items)' /\ LifecycleOutcome(steps)
<1> DEFINE new == [resource EXCEPT !.finalizer = TRUE]
<1>1. PICK applied \in BOOLEAN, ok \in BOOLEAN :
        /\ Update(new, applied, ok)
        /\ IF ok THEN worker' = [worker EXCEPT !.obj = resource'] /\ UNCHANGED queued
                 ELSE Return(TRUE)
        /\ HoldUpdated(ok) /\ Retried
  BY DEF RegisterFinalizer
<1>2. /\ worker.pc = "got" /\ ~worker.obj.deleting /\ Busy
      /\ ReconcilerTypes(specs, steps, items) /\ resource \in Resources(specs)
  BY FieldTypes DEF RegisterFinalizer, Busy, ReconcilerInv
<1>3. /\ ok => applied
      /\ applied => resource.exists /\ Agrees(resource, worker.obj)
      /\ ~applied => resource' = resource
      /\ applied => resource' = Stored(new)
  BY <1>1, UpdateFacts
<1>4. resource.exists =>
        /\ new \in Resources(specs) /\ new.exists /\ new.finalizer /\ new.uid = resource.uid
        /\ new.deleting = resource.deleting /\ new.spec = resource.spec /\ new.status = resource.status
  <2>1. new = [resource EXCEPT !.finalizer = TRUE]
    OBVIOUS
  <2> HIDE DEF new
  <2> QED
    BY <1>2, <2>1, FinalizerEdit
<1>5. resource' \in Resources(specs)
  BY <1>2, <1>3, <1>4 DEF Stored
<1>6. /\ worker' \in Workers(specs, steps, items) /\ queued' \in BOOLEAN
      /\ \/ ok /\ worker'.obj = resource' /\ worker'.pc = "got"
         \/ ~ok /\ worker' = Idle
  <2>1. CASE ok
    BY <1>1, <1>2, <1>5, <2>1 DEF ReconcilerTypes, Workers
  <2>2. CASE ~ok
    BY <1>1, <1>2, <2>2, ReturnMoves DEF MovesOn
  <2> QED
    BY <2>1, <2>2
<1>7. /\ ReconcilerTypes(specs, steps, items)' /\ CopiesInv'
      /\ applied => resource' = new
  <2> HIDE DEF new
  <2> QED
    BY <1>1, <1>2, <1>3, <1>4, <1>6, UpdatingKeeps
<1>8. CommonStepsJustified' /\ LifecycleOutcome(steps)
  BY <1>3, <1>4, <1>6, <1>7, IdleType DEF CommonStepsJustified, LifecycleOutcome, Vanishes
<1> QED
  BY <1>7, <1>8 DEF ReconcilerInv

(* What follows a status: the worker is idle, or at the step it was to go to. *)
LEMMA ResumeMoves ==
  ASSUME NEW specs, NEW steps, NEW items, ReconcilerTypes(specs, steps, items),
         steps \cap CommonSteps = {}, NEW obj \in Resources(specs), NEW ok \in BOOLEAN,
         Resume(obj, ok)
  PROVE  /\ worker' \in Workers(specs, steps, items) /\ queued' \in BOOLEAN
         /\ \/ worker' = Idle
            \/ /\ worker'.obj = obj /\ worker'.pc = worker.next
               /\ worker.next \in steps \cup {"deleteCR"}
               /\ worker'.pc \notin {"idle", "status", "removeFinalizer"}
<1>1. worker.next \in steps \cup {"return", "requeue", "ifFailed", "deleteCR"}
  BY FieldTypes
<1>2. CASE worker.next \in {"return", "requeue", "ifFailed"}
  <2>1. Return(FALSE) \/ Return(TRUE) \/ Return(~ok)
    BY <1>2 DEF Resume
  <2> QED
    BY <2>1, ReturnMoves DEF MovesOn
<1>3. CASE worker.next \notin {"return", "requeue", "ifFailed"}
  <2>1. worker' = [worker EXCEPT !.pc = worker.next, !.obj = obj] /\ queued' = queued
    BY <1>3 DEF Resume
  <2>2. worker.next \in CommonSteps \cup steps /\ worker.next \in steps \cup {"deleteCR"}
    BY <1>1, <1>3 DEF CommonSteps
  <2>3. worker.next \notin {"idle", "status", "removeFinalizer"}
    BY <2>2 DEF CommonSteps
  <2>4. worker' \in Workers(specs, steps, items) /\ queued' \in BOOLEAN
    BY <2>1, <2>2 DEF ReconcilerTypes, Workers
  <2> QED
    BY <2>1, <2>2, <2>3, <2>4 DEF ReconcilerTypes, Workers
<1> QED
  BY <1>2, <1>3

(* The outcome of a status is heeded, or it is noted that it was not. *)
LEMMA StatusHeeded == UpdateStatus => Retried \/ Ignored
  BY DEF UpdateStatus

(* updateStatus changes nothing but the status. *)
LEMMA UpdateStatusKeeps ==
  ASSUME NEW specs, NEW steps, NEW items, ReconcilerInv(specs, steps, items), UpdateStatus
  PROVE  ReconcilerInv(specs, steps, items)' /\ LifecycleOutcome(steps)
<1> DEFINE new  == [resource EXCEPT !.status = worker.status]
           copy == [worker.obj EXCEPT !.status = worker.status]
<1>1. PICK applied \in BOOLEAN, ok \in BOOLEAN :
        /\ Update(new, applied, ok)
        /\ Resume(IF ok THEN resource' ELSE copy, ok)
        /\ HoldUpdated(ok)
  BY DEF UpdateStatus
<1>2. /\ worker.pc = "status" /\ worker.obj.finalizer /\ Busy /\ worker.obj.exists
      /\ ReconcilerTypes(specs, steps, items) /\ steps \cap CommonSteps = {}
      /\ resource \in Resources(specs) /\ worker.obj \in Resources(specs)
      /\ worker.status \in Statuses
      /\ worker.next = "deleteCR" => ExecutesFinalizer(worker.obj)
  BY FieldTypes DEF UpdateStatus, Busy, ReconcilerInv, CommonStepsJustified, CopiesInv, CopiesTruthful
<1>3. /\ ok => applied
      /\ applied => resource.exists /\ Agrees(resource, worker.obj) /\ resource' = Stored(new)
      /\ ~applied => resource' = resource
  BY <1>1, UpdateFacts
<1>4. resource.exists =>
        /\ new \in Resources(specs) /\ new.exists /\ new.finalizer = resource.finalizer
        /\ new.uid = resource.uid /\ new.deleting = resource.deleting
        /\ new.spec = resource.spec /\ new.status = worker.status
  <2>1. new = [resource EXCEPT !.status = worker.status]
    OBVIOUS
  <2> HIDE DEF new
  <2> QED
    BY <1>2, <2>1, StatusEdit
<1>5. copy \in Resources(specs) /\ Agrees(copy, worker.obj)
  <2>1. copy = [worker.obj EXCEPT !.status = worker.status]
    OBVIOUS
  <2> HIDE DEF copy, new
  <2>2. worker.obj \in Resources(specs) /\ worker.obj.exists /\ worker.status \in Statuses
    BY <1>2
  <2>3. /\ copy \in Resources(specs) /\ copy.exists /\ copy.uid = worker.obj.uid
        /\ copy.deleting = worker.obj.deleting /\ copy.finalizer = worker.obj.finalizer
        /\ copy.spec = worker.obj.spec
    BY <2>1, <2>2, StatusEdit
  <2>4. copy.exists = worker.obj.exists
    BY <2>2, <2>3
  <2> QED
    BY <2>3, <2>4 DEF Agrees
<1> HIDE DEF new, copy
<1>6. applied => new.finalizer
  BY <1>2, <1>3, <1>4 DEF Agrees
<1>7. resource' \in Resources(specs)
  BY <1>2, <1>3, <1>4, <1>6 DEF Stored
<1>8. /\ worker' \in Workers(specs, steps, items) /\ queued' \in BOOLEAN
      /\ \/ worker' = Idle
         \/ /\ worker'.obj = IF ok THEN resource' ELSE copy
            /\ worker'.pc = worker.next /\ worker.next \in steps \cup {"deleteCR"}
            /\ worker'.pc \notin {"idle", "status", "removeFinalizer"}
  <2> DEFINE obj == IF ok THEN resource' ELSE copy
  <2>1. obj \in Resources(specs) /\ Resume(obj, ok)
    BY <1>1, <1>5, <1>7
  <2> HIDE DEF obj
  <2>2. /\ worker' \in Workers(specs, steps, items) /\ queued' \in BOOLEAN
        /\ \/ worker' = Idle
           \/ /\ worker'.obj = obj
              /\ worker'.pc = worker.next /\ worker.next \in steps \cup {"deleteCR"}
              /\ worker'.pc \notin {"idle", "status", "removeFinalizer"}
    BY <1>2, <2>1, ResumeMoves
  <2> QED
    BY <2>2 DEF obj
<1>9. /\ ReconcilerTypes(specs, steps, items)' /\ CopiesInv'
      /\ applied => resource' = new
  BY <1>1, <1>2, <1>3, <1>4, <1>5, <1>6, <1>8, StatusHeeded, UpdatingKeeps
<1>10. worker' # Idle => Agrees(worker'.obj, worker.obj)
  BY <1>3, <1>4, <1>5, <1>8, <1>9 DEF Agrees
<1>11. CommonStepsJustified'
  BY <1>2, <1>8, <1>10, IdleType DEF CommonStepsJustified, Agrees, ExecutesFinalizer
<1>12. LifecycleOutcome(steps)
  BY <1>2, <1>3, <1>4, <1>6, <1>8, <1>9, <1>10, IdleType DEF LifecycleOutcome, Vanishes, Agrees
<1> QED
  BY <1>2, <1>9, <1>11, <1>12 DEF ReconcilerInv

(* removeFinalizer releases the resource it was read from, which is deleting. *)
LEMMA RemoveFinalizerKeeps ==
  ASSUME NEW specs, NEW steps, NEW items, ReconcilerInv(specs, steps, items), RemoveFinalizer
  PROVE  ReconcilerInv(specs, steps, items)' /\ LifecycleOutcome(steps)
<1> DEFINE new == [resource EXCEPT !.finalizer = FALSE]
<1>1. PICK applied \in BOOLEAN, ok \in BOOLEAN :
        Update(new, applied, ok) /\ Return(~ok) /\ HoldUpdated(ok) /\ Retried
  BY DEF RemoveFinalizer
<1>2. /\ worker.pc = "removeFinalizer" /\ ExecutesFinalizer(worker.obj) /\ Busy
      /\ ReconcilerTypes(specs, steps, items) /\ steps \cap CommonSteps = {}
      /\ resource \in Resources(specs) /\ holders \subseteq {"cache", "worker"}
      /\ CopiesTruthful /\ CopiesCurrent
  BY FieldTypes DEF RemoveFinalizer, Busy, ReconcilerInv, CommonStepsJustified, ReconcilerTypes, CopiesInv
<1>3. /\ faults' \in 0..MaxFaults
      /\ applied => resource.exists /\ Agrees(resource, worker.obj) /\ resource' = Stored(new)
      /\ ~applied => resource' = resource
  BY <1>1, UpdateFacts
<1>4. applied => resource' = NoResource /\ resource.deleting
  <2>1. resource.exists => new.deleting = resource.deleting /\ ~new.finalizer
    <3>1. new = [resource EXCEPT !.finalizer = FALSE]
      OBVIOUS
    <3> HIDE DEF new
    <3> QED
      BY <1>2, <3>1, ReleaseEdit
  <2> HIDE DEF new
  <2> QED
    BY <1>2, <1>3, <2>1 DEF Stored, Agrees, ExecutesFinalizer
<1>5. resource' \in Resources(specs)
  BY <1>2, <1>3, <1>4 DEF Resources
<1>6. /\ worker' \in Workers(specs, steps, items) /\ worker' = Idle /\ queued' \in BOOLEAN
      /\ worker'.pc = "idle" /\ worker'.obj = NoResource
  BY <1>1, <1>2, ReturnMoves, IdleType DEF MovesOn
<1>7. /\ UNCHANGED <<cache, event, dropped, ops>>
      /\ Hold(HoldersAfter(IF ok THEN {"worker"} ELSE {}))
  BY <1>1 DEF HoldUpdated, UnchangedWorld, Retried
<1>8. holders' \subseteq {"cache"} /\ ("cache" \in holders' => cache' = resource')
  BY <1>2, <1>6, <1>7 DEF Hold, HoldersAfter, CopiesCurrent
<1>9. ReconcilerTypes(specs, steps, items)'
  BY <1>2, <1>3, <1>5, <1>6, <1>7, <1>8 DEF ReconcilerTypes
<1>10. CopiesCurrent'
  BY <1>8 DEF CopiesCurrent
<1>11. ops' \in Nat /\ ops <= ops'
  <2>1. ops \in Nat /\ ops' = ops
    BY <1>2, <1>7, FieldTypes
  <2> QED
    BY <2>1
<1>12. CopiesInv'
  <2>1. CASE applied
    <3>1. cache.exists /\ cache.finalizer => cache.deleting
      BY <1>2, <1>3, <2>1 DEF CopiesTruthful, FinalizerStays, DoomedStays, Alive,
             ExecutesFinalizer, Agrees
    <3> QED
      BY <1>2, <1>4, <1>6, <1>7, <1>10, <1>11, <2>1, <3>1, RemovingKeepsCopies
      DEF CopyFollows, ExecutesFinalizer
  <2>2. CASE ~applied
    BY <1>3, <1>6, <1>7, <1>10, <1>11, <2>2, EvolvingKeepsCopies DEF Evolves, CopyFollows
  <2> QED
    BY <2>1, <2>2
<1>13. CommonStepsJustified' /\ LifecycleOutcome(steps)
  <2>1. CommonStepsJustified'
    BY <1>6 DEF CommonStepsJustified
  <2>2. LifecycleOutcome(steps)
    BY <1>2, <1>3, <1>4, <1>6, NoResourceFields DEF LifecycleOutcome, Vanishes, Agrees
  <2> QED
    BY <2>1, <2>2
<1> QED
  BY <1>2, <1>9, <1>12, <1>13 DEF ReconcilerInv

(* A deletion by name: its outcome, and what it keeps. *)
LEMMA DeletingKeepsCopies ==
  ASSUME NEW specs, NEW steps, NEW items, ReconcilerInv(specs, steps, items),
         resource.exists, resource' = Deleted(resource), cache' = cache,
         ops' \in Nat, ops <= ops', CopyFollows, CopiesCurrent'
  PROVE  /\ CopiesInv' /\ resource' \in Resources(specs)
         /\ resource'.exists => resource'.spec = resource.spec /\ resource'.deleting
                                 /\ resource'.status = resource.status
         /\ resource'.exists <=> resource.finalizer
         /\ resource.finalizer => resource'.finalizer
<1>1. resource \in Resources(specs) /\ resource.finalizer \in BOOLEAN
  BY FieldTypes, ResourceFields DEF ReconcilerInv
<1>2. CASE resource.finalizer
  <2>1. /\ resource' \in Resources(specs) /\ resource'.exists /\ resource'.deleting
        /\ resource'.uid = resource.uid /\ resource'.finalizer = resource.finalizer
        /\ resource'.spec = resource.spec /\ resource'.status = resource.status
    BY <1>1, <1>2, DeletedFields
  <2>2. CopiesInv'
    BY <2>1, EvolvingKeepsCopies DEF Evolves
  <2> QED
    BY <1>2, <2>1, <2>2
<1>3. CASE ~resource.finalizer
  <2>1. resource' = NoResource
    BY <1>3 DEF Deleted
  <2>2. /\ cache.exists /\ cache.finalizer => cache.deleting
        /\ Busy /\ worker.obj.finalizer => worker.obj.deleting
    BY <1>3 DEF ReconcilerInv, CopiesInv, CopiesTruthful, FinalizerStays
  <2>3. CopiesInv'
    BY <2>1, <2>2, RemovingKeepsCopies
  <2> QED
    BY <1>3, <2>1, <2>3, NoResourceFields DEF Resources
<1> QED
  BY <1>2, <1>3

(* The deletion by name marks a successor, or removes one that has no *)
(* finalizer yet.                                                     *)
LEMMA DeleteResourceKeeps ==
  ASSUME NEW specs, NEW steps, NEW items, ReconcilerInv(specs, steps, items), DeleteResource
  PROVE  ReconcilerInv(specs, steps, items)' /\ LifecycleOutcome(steps)
<1>1. PICK applied \in BOOLEAN, ok \in BOOLEAN :
        /\ Call("api", TRUE, applied, ok)
        /\ resource' = IF applied /\ resource.exists THEN Deleted(resource) ELSE resource
        /\ IF ok THEN Goto("removeFinalizer") ELSE Return(TRUE)
  BY DEF DeleteResource
<1>2. /\ worker.pc = "deleteCR" /\ ExecutesFinalizer(worker.obj) /\ Busy
      /\ ReconcilerTypes(specs, steps, items) /\ steps \cap CommonSteps = {}
      /\ resource \in Resources(specs) /\ holders \subseteq {"cache", "worker"} /\ CopiesCurrent
      /\ Hold(HoldersAfter({})) /\ UNCHANGED <<cache, event, dropped, ops>>
  BY FieldTypes DEF DeleteResource, Busy, ReconcilerInv, CommonStepsJustified, ReconcilerTypes,
         CopiesInv, UnchangedWorld, Retried
<1>3. faults' \in 0..MaxFaults
  BY <1>1, <1>2, FaultType DEF Call, ReconcilerTypes
<1>4. /\ MovesOn(specs, steps, items)
      /\ \/ worker'.obj = worker.obj /\ worker'.pc = "removeFinalizer"
         \/ worker' = Idle
  <2>0. "removeFinalizer" \in CommonSteps \cup steps
    BY DEF CommonSteps
  <2>1. CASE ok
    BY <1>1, <1>2, <2>0, <2>1, GotoMoves
  <2>2. CASE ~ok
    BY <1>1, <1>2, <2>2, ReturnMoves
  <2> QED
    BY <2>1, <2>2
<1>5. ops' \in Nat /\ ops <= ops'
  <2>1. ops \in Nat /\ ops' = ops
    BY <1>2, FieldTypes
  <2> QED
    BY <2>1
<1>6. CopyFollows
  BY <1>2, <1>4 DEF CopyFollows, Agrees
<1>7. CASE resource' = resource
  <2>1. UnchangedCluster
    BY <1>2, <1>7 DEF UnchangedCluster, UnchangedWorld, HoldersAfter
  <2>2. ReconcilerTypes(specs, steps, items)' /\ CopiesInv'
    BY <1>2, <1>3, <1>4, <2>1, MovingKeeps
  <2>3. CommonStepsJustified' /\ LifecycleOutcome(steps)
    BY <1>2, <1>4, <1>7, IdleType DEF CommonStepsJustified, LifecycleOutcome, Vanishes
  <2> QED
    BY <1>2, <2>2, <2>3 DEF ReconcilerInv
<1>8. CASE resource' # resource
  <2>1. holders' = {} /\ resource.exists /\ resource' = Deleted(resource)
    BY <1>1, <1>2, <1>8 DEF HoldersAfter, Hold
  <2>2. CopiesCurrent'
    BY <2>1 DEF CopiesCurrent
  <2>3. /\ CopiesInv' /\ resource' \in Resources(specs)
        /\ resource'.exists => resource'.spec = resource.spec /\ resource'.deleting
                                /\ resource'.status = resource.status
        /\ resource'.exists <=> resource.finalizer
        /\ resource.finalizer => resource'.finalizer
    BY <1>2, <1>5, <1>6, <2>1, <2>2, DeletingKeepsCopies
  <2>4. ReconcilerTypes(specs, steps, items)'
    BY <1>2, <1>3, <1>4, <2>1, <2>3 DEF ReconcilerTypes, MovesOn
  <2>5. CommonStepsJustified' /\ LifecycleOutcome(steps)
    BY <1>2, <1>4, <2>1, <2>3, IdleType DEF CommonStepsJustified, LifecycleOutcome, Vanishes
  <2> QED
    BY <1>2, <2>3, <2>4, <2>5 DEF ReconcilerInv
<1> QED
  BY <1>7, <1>8

(* Every common step keeps the invariant. *)
LEMMA LifecycleKeeps ==
  ASSUME NEW specs, NEW steps, NEW items, ReconcilerInv(specs, steps, items), LifecycleStep
  PROVE  ReconcilerInv(specs, steps, items)' /\ LifecycleOutcome(steps)
  BY ReconcileKeeps, RegisterFinalizerKeeps, UpdateStatusKeeps, DeleteResourceKeeps,
     RemoveFinalizerKeeps DEF LifecycleStep

-----------------------------------------------------------------------------
(* What the common steps do to the stored resource *)

Holding   == Alive(resource) /\ resource' = [resource EXCEPT !.finalizer = TRUE]
Dooming   == resource.exists /\ resource' = Deleted(resource)

\* Those that carry the version of the worker's copy.
Reporting ==
    /\ worker.pc = "status" /\ resource.exists /\ resource.finalizer
    /\ Agrees(resource, worker.obj)
    /\ resource' = [resource EXCEPT !.status = worker.status]
Releasing ==
    /\ worker.pc = "removeFinalizer" /\ resource.exists /\ resource.deleting
    /\ Agrees(resource, worker.obj)
    /\ resource' = NoResource

(* The resource is given its finalizer or a status, or it is deleted. *)
LEMMA LifecycleChanges ==
  ASSUME NEW specs, NEW steps, NEW items, ReconcilerInv(specs, steps, items), LifecycleStep
  PROVE  \/ resource' = resource \/ Holding \/ Reporting \/ Releasing
         \/ worker.pc = "deleteCR" /\ Dooming
<1>1. /\ resource \in Resources(specs) /\ CommonStepsJustified
      /\ worker.status \in Statuses
  BY FieldTypes DEF ReconcilerInv
<1>2. CASE RegisterFinalizer
  <2> DEFINE new == [resource EXCEPT !.finalizer = TRUE]
  <2>1. PICK applied \in BOOLEAN, ok \in BOOLEAN : Update(new, applied, ok)
    BY <1>2 DEF RegisterFinalizer
  <2>2. resource.exists => new.deleting = resource.deleting /\ new.finalizer
    <3>1. new = [resource EXCEPT !.finalizer = TRUE]
      OBVIOUS
    <3> HIDE DEF new
    <3> QED
      BY <1>1, <3>1, FinalizerEdit
  <2>3. /\ applied => resource.exists /\ Agrees(resource, worker.obj) /\ resource' = Stored(new)
        /\ ~applied => resource' = resource
    BY <2>1, UpdateFacts
  <2>4. ~worker.obj.deleting
    BY <1>2 DEF RegisterFinalizer
  <2>5. applied => resource' = new
    BY <2>2, <2>3, <2>4 DEF Agrees, Stored
  <2> QED
    BY <2>3, <2>4, <2>5 DEF Holding, Alive, Agrees
<1>3. CASE UpdateStatus
  <2> DEFINE new == [resource EXCEPT !.status = worker.status]
  <2>1. PICK applied \in BOOLEAN, ok \in BOOLEAN : Update(new, applied, ok)
    BY <1>3 DEF UpdateStatus
  <2>2. resource.exists => new.finalizer = resource.finalizer
    <3>1. new = [resource EXCEPT !.status = worker.status]
      OBVIOUS
    <3> HIDE DEF new
    <3> QED
      BY <1>1, <3>1, StatusEdit
  <2>3. /\ applied => resource.exists /\ Agrees(resource, worker.obj) /\ resource' = Stored(new)
        /\ ~applied => resource' = resource
    BY <2>1, UpdateFacts
  <2>4. worker.pc = "status" /\ worker.obj.finalizer
    BY <1>1, <1>3 DEF UpdateStatus, CommonStepsJustified
  <2>5. applied => resource' = new /\ resource.finalizer
    BY <2>2, <2>3, <2>4 DEF Agrees, Stored
  <2> QED
    BY <2>3, <2>4, <2>5 DEF Reporting
<1>4. CASE DeleteResource
  BY <1>4 DEF DeleteResource, Dooming
<1>5. CASE RemoveFinalizer
  <2> DEFINE new == [resource EXCEPT !.finalizer = FALSE]
  <2>1. PICK applied \in BOOLEAN, ok \in BOOLEAN : Update(new, applied, ok)
    BY <1>5 DEF RemoveFinalizer
  <2>2. resource.exists => new.deleting = resource.deleting /\ ~new.finalizer
    <3>1. new = [resource EXCEPT !.finalizer = FALSE]
      OBVIOUS
    <3> HIDE DEF new
    <3> QED
      BY <1>1, <3>1, ReleaseEdit
  <2>3. /\ applied => resource.exists /\ Agrees(resource, worker.obj) /\ resource' = Stored(new)
        /\ ~applied => resource' = resource
    BY <2>1, UpdateFacts
  <2>4. worker.pc = "removeFinalizer" /\ worker.obj.deleting
    BY <1>1, <1>5 DEF RemoveFinalizer, CommonStepsJustified, ExecutesFinalizer
  <2>5. applied => resource' = NoResource /\ resource.deleting
    BY <2>2, <2>3, <2>4 DEF Agrees, Stored
  <2> QED
    BY <2>3, <2>4, <2>5 DEF Releasing
<1>6. CASE Reconcile
  BY <1>6 DEF Reconcile
<1> QED
  BY <1>2, <1>3, <1>4, <1>5, <1>6 DEF LifecycleStep

-----------------------------------------------------------------------------
(* The informer, the process and the others *)

(* A step that changes neither the resource nor a copy. *)
LEMMA ElsewhereKeeps ==
  ASSUME NEW specs, NEW steps, NEW items, ReconcilerInv(specs, steps, items),
         UNCHANGED <<resource, cache, holders, worker>>, ops' \in 0..MaxOps, ops <= ops',
         event' \in BOOLEAN, queued' \in BOOLEAN, dropped' = dropped, faults' \in 0..MaxFaults
  PROVE  ReconcilerInv(specs, steps, items)'
<1>1. ReconcilerTypes(specs, steps, items)' /\ steps \cap CommonSteps = {}
  BY DEF ReconcilerInv, ReconcilerTypes
<1>2. CopiesCurrent' /\ CommonStepsJustified'
  BY DEF ReconcilerInv, CopiesInv, CopiesCurrent, Busy, CommonStepsJustified
<1>3. ops' \in Nat
  BY OpsAssumption
<1>4. CopiesInv'
  BY <1>2, <1>3, EvolvingKeepsCopies DEF Evolves, CopyFollows
<1> QED
  BY <1>1, <1>2, <1>4 DEF ReconcilerInv

(* The watch replaces the cached copy by the stored resource. *)
LEMMA CacheSyncKeeps ==
  ASSUME NEW specs, NEW steps, NEW items, ReconcilerInv(specs, steps, items), CacheSync
  PROVE  ReconcilerInv(specs, steps, items)'
<1>1. /\ cache' = resource /\ holders' = holders \cup {"cache"} /\ event' = TRUE
      /\ UNCHANGED <<resource, queued, worker, dropped, ops, faults>>
  BY DEF CacheSync
<1>2. /\ ReconcilerTypes(specs, steps, items) /\ steps \cap CommonSteps = {}
      /\ CopiesCurrent /\ UidsOrdered /\ CopiesTruthful /\ CommonStepsJustified
      /\ resource.uid \in Nat
  BY FieldTypes DEF ReconcilerInv, CopiesInv
<1>3. ReconcilerTypes(specs, steps, items)' /\ CommonStepsJustified'
  BY <1>1, <1>2 DEF ReconcilerTypes, CommonStepsJustified
<1>4. CopiesCurrent'
  BY <1>1, <1>2 DEF CopiesCurrent, Busy
<1>5. UidsOrdered'
  BY <1>1, <1>2 DEF UidsOrdered, Busy
<1>6. CopiesTruthful'
  BY <1>1, <1>2 DEF CopiesTruthful, Busy, FinalizerStays, DoomedStays, SuccessorIsNew, Alive
<1> QED
  BY <1>2, <1>3, <1>4, <1>5, <1>6 DEF ReconcilerInv, CopiesInv

(* An event reaches the work queue. *)
LEMMA EnqueueKeeps ==
  ASSUME NEW specs, NEW steps, NEW items, ReconcilerInv(specs, steps, items), Enqueue
  PROVE  ReconcilerInv(specs, steps, items)'
<1>1. /\ UNCHANGED <<resource, cache, holders, worker, dropped, ops, faults>>
      /\ event' = FALSE /\ queued' = TRUE
  BY DEF Enqueue
<1>2. ops' \in 0..MaxOps /\ faults' \in 0..MaxFaults /\ ops <= ops'
  <2>1. ops \in 0..MaxOps /\ faults \in 0..MaxFaults
    BY DEF ReconcilerInv, ReconcilerTypes
  <2>2. ops \in Nat
    BY <2>1, OpsAssumption
  <2> QED
    BY <1>1, <2>1, <2>2
<1> QED
  BY <1>1, <1>2, ElsewhereKeeps

(* A restart forgets the worker and reads the resource again. *)
LEMMA RestartKeeps ==
  ASSUME NEW specs, NEW steps, NEW items, ReconcilerInv(specs, steps, items), Restart,
         faults' \in 0..MaxFaults
  PROVE  ReconcilerInv(specs, steps, items)'
<1>1. /\ worker' = Idle /\ cache' = resource /\ holders' = {"cache"}
      /\ event' = FALSE /\ queued' = resource.exists /\ dropped' = FALSE
      /\ UNCHANGED <<resource, ops>>
  BY DEF Restart
<1>2. /\ ReconcilerTypes(specs, steps, items) /\ steps \cap CommonSteps = {} /\ UidsOrdered
      /\ resource.uid \in Nat /\ ops \in Nat /\ resource.exists \in BOOLEAN
  BY FieldTypes, ResourceFields DEF ReconcilerInv, CopiesInv
<1>3. /\ worker' \in Workers(specs, steps, items) /\ worker'.pc = "idle" /\ worker'.obj.uid = 0
  BY <1>1, IdleType
<1>4. ReconcilerTypes(specs, steps, items)'
  BY <1>1, <1>2, <1>3 DEF ReconcilerTypes
<1>5. CopiesCurrent' /\ CommonStepsJustified'
  BY <1>1, <1>3 DEF CopiesCurrent, CommonStepsJustified
<1>6. UidsOrdered'
  BY <1>1, <1>2, <1>3 DEF UidsOrdered, Busy
<1>7. CopiesTruthful'
  BY <1>1, <1>3 DEF CopiesTruthful, Busy, FinalizerStays, DoomedStays, SuccessorIsNew, Alive
<1> QED
  BY <1>2, <1>4, <1>5, <1>6, <1>7 DEF ReconcilerInv, CopiesInv

(* The others' count stays within its bound. *)
LEMMA ActFacts ==
  ASSUME NEW specs, NEW steps, NEW items, ReconcilerInv(specs, steps, items), Act
  PROVE  /\ ops' = ops + 1 /\ ops' \in 1..MaxOps /\ ops' \in 0..MaxOps /\ ops' \in Nat
         /\ ops <= ops' /\ UNCHANGED <<cache, event, queued, worker, dropped, faults>>
<1>1. ops \in 0..MaxOps /\ ops < MaxOps /\ ops' = ops + 1 /\ MaxOps \in Nat
  BY OpsAssumption DEF ReconcilerInv, ReconcilerTypes, Act
<1>2. ops' \in 1..MaxOps /\ ops' \in 0..MaxOps /\ ops' \in Nat /\ ops <= ops'
  BY <1>1
<1> QED
  BY <1>1, <1>2 DEF Act

(* An act elsewhere is nobody's copy. *)
LEMMA ActElsewhereKeeps ==
  ASSUME NEW specs, NEW steps, NEW items, ReconcilerInv(specs, steps, items), ActElsewhere
  PROVE  /\ ReconcilerInv(specs, steps, items)'
         /\ UNCHANGED <<resource, worker>>
<1>1. /\ ops' \in 0..MaxOps /\ ops <= ops'
      /\ UNCHANGED <<resource, cache, holders, worker, event, queued, dropped, faults>>
  BY ActFacts DEF ActElsewhere
<1>2. event \in BOOLEAN /\ queued \in BOOLEAN /\ faults \in 0..MaxFaults
  BY DEF ReconcilerInv, ReconcilerTypes
<1>3. ReconcilerInv(specs, steps, items)'
  BY <1>1, <1>2, ElsewhereKeeps
<1> QED
  BY <1>1, <1>3

(* A change of the resource by somebody else, which nobody has seen yet. *)
LEMMA OthersKeepTypes ==
  ASSUME NEW specs, NEW steps, NEW items, ReconcilerInv(specs, steps, items), Act,
         resource' \in Resources(specs), holders' = {}
  PROVE  /\ ReconcilerTypes(specs, steps, items)' /\ CopiesCurrent' /\ CommonStepsJustified'
         /\ CopyFollows
<1>1. ops' \in 0..MaxOps /\ UNCHANGED <<cache, event, queued, worker, dropped, faults>>
  BY ActFacts
<1> QED
  BY <1>1 DEF ReconcilerInv, ReconcilerTypes, CopiesCurrent, CommonStepsJustified, CopyFollows

(* The number after the last one is new. *)
LEMMA NextIsNew ==
  ASSUME NEW u \in Nat, NEW n \in Nat, u <= n
  PROVE  u <= n + 1 /\ u # n + 1
  OBVIOUS

(* A successor's uid is new to every copy. *)
LEMMA CreateResourceKeeps ==
  ASSUME NEW specs, NEW steps, NEW items, ReconcilerInv(specs, steps, items),
         NEW spec \in specs, CreateResource(spec)
  PROVE  /\ ReconcilerInv(specs, steps, items)' /\ worker' = worker
         /\ resource'.spec = spec /\ resource'.status = NoStatus
<1>1. /\ Act /\ ~resource.exists /\ resource' = NewResource(ops + 1, spec) /\ holders' = {}
  BY DEF CreateResource
<1>2. /\ ops' = ops + 1 /\ ops' \in 1..MaxOps
      /\ UNCHANGED <<cache, event, queued, worker, faults>>
  BY <1>1, ActFacts
<1>3. resource' = [NoResource EXCEPT !.exists = TRUE, !.uid = ops', !.spec = spec]
  BY <1>1, <1>2 DEF NewResource
<1>4. /\ resource' \in Resources(specs) /\ resource'.uid = ops + 1 /\ resource'.spec = spec
      /\ ~resource'.deleting /\ ~resource'.finalizer /\ resource'.status = NoStatus
  BY <1>2, <1>3, NoResourceFields DEF NoResource, Resources, StoredResources
<1>5. /\ ReconcilerTypes(specs, steps, items)' /\ CopiesCurrent' /\ CommonStepsJustified'
  BY <1>1, <1>4, OthersKeepTypes
<1>6. /\ cache.uid \in Nat /\ worker.obj.uid \in Nat /\ ops \in Nat
      /\ UidsOrdered /\ CopiesTruthful /\ cache' = cache /\ worker' = worker
      /\ steps \cap CommonSteps = {}
  BY <1>2, FieldTypes DEF ReconcilerInv, CopiesInv
<1>7. /\ cache.uid <= ops + 1 /\ cache.uid # ops + 1
      /\ worker.obj.uid <= ops + 1 /\ worker.obj.uid # ops + 1
  <2>1. cache.uid <= ops /\ worker.obj.uid <= ops
    BY <1>6 DEF UidsOrdered
  <2>2. cache.uid <= ops + 1 /\ cache.uid # ops + 1
    BY <1>6, <2>1, NextIsNew
  <2>3. worker.obj.uid <= ops + 1 /\ worker.obj.uid # ops + 1
    BY <1>6, <2>1, NextIsNew
  <2> QED
    BY <2>2, <2>3
<1>8. UidsOrdered'
  <2>1. ops + 1 <= ops + 1
    BY <1>6
  <2>2. cache'.exists /\ Busy' => worker'.obj.uid <= cache'.uid
    BY <1>6 DEF UidsOrdered, Busy
  <2>3. resource'.uid <= ops' /\ cache'.uid <= resource'.uid /\ worker'.obj.uid <= resource'.uid
    BY <1>2, <1>4, <1>6, <1>7, <2>1
  <2>4. cache'.uid <= ops' /\ worker'.obj.uid <= ops'
    BY <1>2, <1>6, <1>7
  <2> QED
    BY <2>2, <2>3, <2>4 DEF UidsOrdered
<1>9. cache.uid # resource'.uid /\ worker.obj.uid # resource'.uid
  BY <1>4, <1>7
<1>10. CopiesTruthful'
  BY <1>1, <1>4, <1>6, <1>9 DEF CopiesTruthful, Busy, FinalizerStays, DoomedStays,
         SuccessorIsNew, Alive
<1> QED
  BY <1>4, <1>5, <1>6, <1>8, <1>10 DEF ReconcilerInv, CopiesInv

(* A change of the spec leaves the incarnation and its marks. *)
LEMMA ChangeSpecKeeps ==
  ASSUME NEW specs, NEW steps, NEW items, ReconcilerInv(specs, steps, items),
         NEW spec \in specs, ChangeSpec(spec)
  PROVE  /\ ReconcilerInv(specs, steps, items)' /\ worker' = worker
         /\ resource'.exists /\ resource'.finalizer = resource.finalizer
         /\ resource'.deleting = resource.deleting
         /\ resource'.spec = spec /\ resource'.status = resource.status
<1>1. /\ Act /\ resource.exists /\ resource' = [resource EXCEPT !.spec = spec] /\ holders' = {}
      /\ resource \in Resources(specs)
  BY FieldTypes DEF ChangeSpec, ReconcilerInv
<1>2. /\ resource' \in Resources(specs) /\ resource'.exists /\ resource'.uid = resource.uid
      /\ resource'.deleting = resource.deleting /\ resource'.finalizer = resource.finalizer
      /\ resource'.spec = spec /\ resource'.status = resource.status
  BY <1>1, SpecEdit
<1>3. /\ ReconcilerTypes(specs, steps, items)' /\ CopiesCurrent' /\ CommonStepsJustified'
      /\ CopyFollows
  BY <1>1, <1>2, OthersKeepTypes
<1>4. ops' \in Nat /\ ops <= ops' /\ cache' = cache /\ worker' = worker
  BY <1>1, ActFacts
<1>5. CopiesInv'
  BY <1>1, <1>2, <1>3, <1>4, EvolvingKeepsCopies DEF Evolves
<1> QED
  BY <1>2, <1>3, <1>4, <1>5 DEF ReconcilerInv

(* A deletion marks the resource or, without the finalizer, removes it. *)
LEMMA RequestDeletionKeeps ==
  ASSUME NEW specs, NEW steps, NEW items, ReconcilerInv(specs, steps, items), RequestDeletion
  PROVE  /\ ReconcilerInv(specs, steps, items)' /\ worker' = worker
         /\ resource'.exists => /\ resource'.deleting /\ resource'.spec = resource.spec
                                 /\ resource'.status = resource.status
         /\ resource'.exists <=> resource.finalizer
         /\ resource.finalizer => resource'.finalizer
<1>1. /\ Act /\ resource.exists /\ resource' = Deleted(resource) /\ holders' = {}
      /\ resource \in Resources(specs)
  BY FieldTypes DEF RequestDeletion, ReconcilerInv
<1>2. CopiesCurrent' /\ CopyFollows
  BY <1>1, ActFacts DEF CopiesCurrent, CopyFollows
<1>3. ops' \in Nat /\ ops <= ops' /\ cache' = cache /\ worker' = worker
  BY <1>1, ActFacts
<1>4. /\ CopiesInv' /\ resource' \in Resources(specs)
      /\ resource'.exists => resource'.spec = resource.spec /\ resource'.deleting
                              /\ resource'.status = resource.status
      /\ resource'.exists <=> resource.finalizer
      /\ resource.finalizer => resource'.finalizer
  BY <1>1, <1>2, <1>3, DeletingKeepsCopies
<1>5. /\ ReconcilerTypes(specs, steps, items)' /\ CommonStepsJustified'
  BY <1>1, <1>4, OthersKeepTypes
<1> QED
  BY <1>3, <1>4, <1>5 DEF ReconcilerInv

(* Nothing exists at the start. *)
LEMMA InitKeeps ==
  ASSUME NEW specs, NEW steps, NEW items, steps \cap CommonSteps = {}, InitReconciler
  PROVE  ReconcilerInv(specs, steps, items)
<1>1. /\ resource = NoResource /\ cache = NoResource /\ holders = {"cache"}
      /\ event = FALSE /\ queued = FALSE /\ worker = Idle /\ dropped = FALSE
      /\ ops = 0 /\ faults = 0
  BY DEF InitReconciler
<1>2. 0 \in 0..MaxOps /\ 0 \in 0..MaxFaults
  BY OpsAssumption, FaultsAssumption
<1>3. NoResource \in Resources(specs)
  BY DEF Resources
<1>4. ReconcilerTypes(specs, steps, items)
  BY <1>1, <1>2, <1>3, IdleType DEF ReconcilerTypes
<1>5. UidsOrdered
  <2>1. /\ resource.uid = 0 /\ cache.uid = 0 /\ worker.obj.uid = 0 /\ ops = 0
        /\ ~resource.exists /\ ~cache.exists
    BY <1>1, NoResourceFields, IdleType
  <2> QED
    BY <2>1 DEF UidsOrdered
<1>6. CopiesCurrent /\ CopiesTruthful /\ CommonStepsJustified
  BY <1>1, NoResourceFields, IdleType DEF CopiesCurrent, CopiesTruthful, CommonStepsJustified, Busy
<1> QED
  BY <1>4, <1>5, <1>6 DEF ReconcilerInv, CopiesInv

-----------------------------------------------------------------------------
(* What brings the worker back *)

(* A resource at rest is one that no worker has and that nothing stirs. *)
LEMMA RestIsStill == Quiescent <=> ~Busy /\ ~Stirring
  BY DEF Quiescent, Busy, Stirring

(* Without a restart, what stirs goes on, and a change of the resource     *)
(* stirs.                                                                  *)
KeepsStirring ==
    /\ Stirring => Stirring'
    /\ resource' # resource => Stirring'

(* When nothing stirs after such a step, a worker that was busy had the    *)
(* stored resource, and has it still, unless it did not heed a failure.    *)
LEMMA StillWorkerHolds ==
  ASSUME LateIsWoken, Busy, KeepsStirring, ~Stirring'
  PROVE  /\ ~Stirring /\ resource' = resource /\ "worker" \in holders
         /\ ~dropped => worker.obj = resource
  BY DEF LateIsWoken, KeepsStirring

(* A worker that moves on without touching the resource. *)
LEMMA MovingWakes ==
  ASSUME NEW specs, NEW steps, NEW items, ReconcilerInv(specs, steps, items), LateIsWoken,
         Busy, MovesOn(specs, steps, items), UnchangedCluster, queued => queued'
  PROVE  LateIsWoken' /\ KeepsStirring
<1>1. /\ UNCHANGED <<resource, cache, event, dropped, ops>>
      /\ holders' = IF worker'.pc = "idle" THEN holders \ {"worker"} ELSE holders
  BY DEF UnchangedCluster, UnchangedWorld, Hold
<1>2. KeepsStirring
  BY <1>1 DEF KeepsStirring, Stirring
<1>3. worker'.pc # "idle" => worker'.obj = worker.obj /\ holders' = holders
  BY <1>1, IdleType DEF MovesOn
<1>4. LateIsWoken'
  <2>1. "worker" \in holders' => worker'.pc # "idle" /\ "worker" \in holders
    BY <1>1
  <2>2. "worker" \in holders' /\ ~dropped' => worker'.obj = resource'
    BY <1>1, <1>3, <2>1 DEF LateIsWoken
  <2>3. Busy' /\ "worker" \notin holders' => Stirring'
    BY <1>2, <1>3 DEF LateIsWoken, Busy, KeepsStirring
  <2> QED
    BY <2>2, <2>3 DEF LateIsWoken
<1> QED
  BY <1>2, <1>4

(* An update that is stored is news for the cache. *)
LEMMA UpdatingStirs ==
  ASSUME NEW ok \in BOOLEAN, HoldUpdated(ok), queued => queued'
  PROVE  KeepsStirring
<1>1. /\ UNCHANGED <<cache, event, ops>>
      /\ holders' = IF worker'.pc = "idle"
                      THEN HoldersAfter(IF ok THEN {"worker"} ELSE {}) \ {"worker"}
                      ELSE HoldersAfter(IF ok THEN {"worker"} ELSE {})
  BY DEF HoldUpdated, UnchangedWorld, Hold
<1>2. "cache" \notin holders => "cache" \notin holders'
  BY <1>1 DEF HoldersAfter
<1>3. resource' # resource => "cache" \notin holders'
  BY <1>1 DEF HoldersAfter
<1> QED
  BY <1>1, <1>2, <1>3 DEF KeepsStirring, Stirring

(* An update of the resource by the worker, which goes on with what it has *)
(* stored.  When it goes on after an error and this was no failure, its    *)
(* copy was late.                                                          *)
LEMMA UpdatingWakes ==
  ASSUME NEW specs, NEW steps, NEW items, ReconcilerInv(specs, steps, items), LateIsWoken,
         Busy, NEW new, NEW applied \in BOOLEAN, NEW ok \in BOOLEAN,
         Update(new, applied, ok), HoldUpdated(ok), queued => queued',
         worker' = Idle \/ (worker'.pc # "idle" /\ (ok => worker'.obj = resource')),
         Ignored \/ worker' = Idle \/ ok
  PROVE  /\ LateIsWoken' /\ KeepsStirring
         /\ Ignored /\ ~dropped' /\ ~Stirring' => ok
<1>1. /\ UNCHANGED <<cache, event, ops>>
      /\ holders' = IF worker'.pc = "idle"
                      THEN HoldersAfter(IF ok THEN {"worker"} ELSE {}) \ {"worker"}
                      ELSE HoldersAfter(IF ok THEN {"worker"} ELSE {})
  BY DEF HoldUpdated, UnchangedWorld, Hold
<1>2. /\ ok => applied
      /\ applied => "worker" \in holders
      /\ ~applied => resource' = resource
  BY UpdateFacts
<1>3. Ignored /\ ~dropped' => (ok <=> "worker" \in holders) /\ (applied <=> ok)
  <2>1. faults \in Nat
    BY FaultsAssumption DEF ReconcilerInv, ReconcilerTypes
  <2>2. Ignored /\ ~dropped' => faults' = faults
    BY Zenon DEF Ignored
  <2> QED
    BY <2>1, <2>2 DEF Update, Call, Fault
<1>4. KeepsStirring
  BY UpdatingStirs
<1>5. "worker" \in holders' /\ ~dropped' => worker'.obj = resource'
  <2>1. "worker" \in holders' => worker'.pc # "idle" /\ worker' # Idle
    BY <1>1, IdleType
  <2>2. "worker" \in holders' /\ ~dropped' => ok
    BY <1>1, <1>2, <1>3, <2>1 DEF HoldersAfter
  <2> QED
    BY <2>1, <2>2
<1>6. Busy' /\ "worker" \notin holders' => Stirring'
  <2> SUFFICES ASSUME worker'.pc # "idle", "worker" \notin holders' PROVE Stirring'
    BY DEF Busy
  <2>1. CASE resource' = resource
    <3>1. holders' = holders
      BY <1>1, <2>1 DEF HoldersAfter
    <3> QED
      BY <1>4, <3>1 DEF LateIsWoken, KeepsStirring
  <2>2. CASE resource' # resource
    BY <1>4, <2>2 DEF KeepsStirring
  <2> QED
    BY <2>1, <2>2
<1>7. Ignored /\ ~dropped' /\ ~Stirring' => ok
  BY <1>3, <1>4 DEF LateIsWoken, KeepsStirring
<1> QED
  BY <1>4, <1>5, <1>6, <1>7 DEF LateIsWoken

(* A worker that starts from the latest copy has the stored resource, and  *)
(* a resource that is stored is found in an up-to-date cache.              *)
LEMMA ReconcileWakes ==
  ASSUME NEW specs, NEW steps, NEW items, ReconcilerInv(specs, steps, items), LateIsWoken,
         Reconcile
  PROVE  /\ LateIsWoken'
         /\ worker'.pc = "got" \/ worker' = Idle
         /\ ~Stirring' => worker'.pc = "got" \/ (worker' = Idle /\ ~resource'.exists)
<1>1. /\ worker.pc = "idle"
      /\ UNCHANGED <<resource, cache, event>>
      /\ Hold(IF "cache" \in holders THEN holders \cup {"worker"} ELSE holders)
      /\ worker' = IF cache.exists THEN [Idle EXCEPT !.pc = "got", !.obj = cache] ELSE Idle
  BY DEF Reconcile, UnchangedWorld
<1>2. CopiesCurrent /\ holders \subseteq {"cache", "worker"}
  BY DEF ReconcilerInv, CopiesInv, ReconcilerTypes
<1>3. /\ "worker" \notin holders
      /\ "cache" \in holders => cache = resource
  BY <1>1, <1>2 DEF CopiesCurrent, Busy
<1>4. /\ cache.exists => worker'.pc = "got" /\ worker'.obj = cache
      /\ ~cache.exists => worker' = Idle /\ worker'.pc = "idle"
  <2>1. Idle \in Workers(specs, steps, items) /\ Idle.pc = "idle"
    BY IdleType
  <2>2. LET w == [Idle EXCEPT !.pc = "got", !.obj = cache]
        IN  w.pc = "got" /\ w.obj = cache
    BY <2>1 DEF Workers
  <2> QED
    BY <1>1, <2>1, <2>2
<1>5. "worker" \in holders' => "cache" \in holders /\ cache.exists
  BY <1>1, <1>3, <1>4 DEF Hold
<1>6. ~Stirring' => "cache" \in holders
  BY <1>1, <1>4 DEF Hold, Stirring
<1>7. Busy' /\ "worker" \notin holders' => "cache" \notin holders
  BY <1>1, <1>4 DEF Hold, Busy
<1> QED
  BY <1>1, <1>3, <1>4, <1>5, <1>6, <1>7 DEF LateIsWoken

(* Whoever registers the finalizer changes the resource, or tries again. *)
LEMMA RegisterFinalizerWakes ==
  ASSUME NEW specs, NEW steps, NEW items, ReconcilerInv(specs, steps, items), LateIsWoken,
         RegisterFinalizer
  PROVE  /\ LateIsWoken' /\ KeepsStirring /\ dropped' = dropped
         /\ worker'.pc = "got" \/ (worker' = Idle /\ Stirring')
<1>1. PICK applied \in BOOLEAN, ok \in BOOLEAN :
        /\ Update([resource EXCEPT !.finalizer = TRUE], applied, ok)
        /\ IF ok THEN worker' = [worker EXCEPT !.obj = resource'] /\ UNCHANGED queued
                 ELSE Return(TRUE)
        /\ HoldUpdated(ok) /\ dropped' = dropped
  BY DEF RegisterFinalizer, Retried
<1>2. worker.pc = "got" /\ Busy /\ worker \in Workers(specs, steps, items)
  BY DEF RegisterFinalizer, Busy, ReconcilerInv, ReconcilerTypes
<1>3. /\ ok => worker'.pc = "got" /\ worker'.obj = resource' /\ queued' = queued
      /\ ~ok => worker' = Idle /\ queued'
  BY <1>1, <1>2 DEF Workers, Return
<1>4. queued => queued'
  BY <1>3
<1>5. worker' = Idle \/ (worker'.pc # "idle" /\ (ok => worker'.obj = resource'))
  BY <1>3
<1>6. LateIsWoken' /\ KeepsStirring
  BY <1>1, <1>2, <1>3, <1>4, <1>5, UpdatingWakes
<1> QED
  BY <1>1, <1>3, <1>6 DEF Stirring

(* What updateStatus does: it returns, or goes on with the status in the   *)
(* worker's copy.                                                          *)
LEMMA UpdateStatusSteps ==
  ASSUME NEW specs, NEW steps, NEW items, ReconcilerInv(specs, steps, items), UpdateStatus
  PROVE  \E applied, ok \in BOOLEAN :
           /\ Update([resource EXCEPT !.status = worker.status], applied, ok)
           /\ HoldUpdated(ok) /\ (queued => queued')
           /\ ok => resource'.status = worker.status
           /\ worker.next \in {"return", "requeue", "ifFailed"} => worker' = Idle
           /\ worker.next \notin {"requeue", "ifFailed"} => Ignored
           /\ \/ /\ worker' = Idle
                 /\ queued' \/ worker.next = "return" \/ (worker.next = "ifFailed" /\ ok)
              \/ /\ worker'.pc = worker.next /\ worker.next \in steps \cup {"deleteCR"}
                 /\ worker'.pc # "idle" /\ (ok => worker'.obj = resource')
                 /\ worker'.obj.status = worker.status /\ Agrees(worker'.obj, worker.obj)
<1> DEFINE new  == [resource EXCEPT !.status = worker.status]
           copy == [worker.obj EXCEPT !.status = worker.status]
<1>1. PICK applied \in BOOLEAN, ok \in BOOLEAN :
        /\ Update(new, applied, ok)
        /\ Resume(IF ok THEN resource' ELSE copy, ok)
        /\ HoldUpdated(ok)
  BY DEF UpdateStatus
<1>2. /\ worker.pc = "status" /\ worker.obj.finalizer /\ Busy /\ worker.obj.exists
      /\ ReconcilerTypes(specs, steps, items) /\ steps \cap CommonSteps = {}
      /\ resource \in Resources(specs) /\ worker.obj \in Resources(specs)
      /\ worker.status \in Statuses
      /\ worker.next \in steps \cup {"return", "requeue", "ifFailed", "deleteCR"}
  BY FieldTypes DEF UpdateStatus, Busy, ReconcilerInv, CommonStepsJustified, CopiesInv, CopiesTruthful
<1>3. /\ ok => applied
      /\ applied => resource.exists /\ Agrees(resource, worker.obj) /\ resource' = Stored(new)
      /\ ~applied => resource' = resource
  BY <1>1, UpdateFacts
<1>4. resource.exists =>
        /\ new \in Resources(specs) /\ new.exists /\ new.uid = resource.uid
        /\ new.deleting = resource.deleting /\ new.finalizer = resource.finalizer
        /\ new.spec = resource.spec /\ new.status = worker.status
  <2>1. new = [resource EXCEPT !.status = worker.status]
    OBVIOUS
  <2> HIDE DEF new
  <2> QED
    BY <1>2, <2>1, StatusEdit
<1>5. /\ copy \in Resources(specs) /\ copy.status = worker.status /\ Agrees(copy, worker.obj)
  <2>1. copy = [worker.obj EXCEPT !.status = worker.status]
    OBVIOUS
  <2> HIDE DEF copy, new
  <2>2. worker.obj \in Resources(specs) /\ worker.obj.exists /\ worker.status \in Statuses
    BY <1>2
  <2>3. /\ copy \in Resources(specs) /\ copy.exists /\ copy.uid = worker.obj.uid
        /\ copy.deleting = worker.obj.deleting /\ copy.finalizer = worker.obj.finalizer
        /\ copy.spec = worker.obj.spec /\ copy.status = worker.status
    BY <2>1, <2>2, StatusEdit
  <2>4. copy.exists = worker.obj.exists
    BY <2>2, <2>3
  <2> QED
    BY <2>3, <2>4 DEF Agrees
<1> HIDE DEF new, copy
<1>6. applied => /\ resource' = new /\ resource' \in Resources(specs)
                 /\ resource'.status = worker.status /\ Agrees(resource', worker.obj)
  BY <1>2, <1>3, <1>4 DEF Stored, Agrees
<1> DEFINE obj == IF ok THEN resource' ELSE copy
<1>7. obj \in Resources(specs) /\ obj.status = worker.status /\ Agrees(obj, worker.obj)
  BY <1>3, <1>5, <1>6
<1>8. ok => obj = resource'
  OBVIOUS
<1>9. Resume(obj, ok)
  BY <1>1
<1> HIDE DEF obj
<1>10. /\ worker' \in Workers(specs, steps, items)
       /\ \/ worker' = Idle
          \/ /\ worker'.obj = obj /\ worker'.pc = worker.next
             /\ worker.next \in steps \cup {"deleteCR"} /\ worker'.pc # "idle"
  BY <1>2, <1>7, <1>9, ResumeMoves
<1>11. worker.next \in {"return", "requeue", "ifFailed"} => worker' = Idle
  BY <1>9 DEF Resume, Return
<1>12. /\ queued => queued'
       /\ worker' = Idle /\ ~queued' => worker.next = "return" \/ (worker.next = "ifFailed" /\ ok)
  <2>1. CASE worker.next \in {"return", "requeue", "ifFailed"}
    BY <1>9, <2>1 DEF Resume, Return
  <2>2. CASE worker.next \notin {"return", "requeue", "ifFailed"}
    <3>1. worker' = [worker EXCEPT !.pc = worker.next, !.obj = obj] /\ queued' = queued
      BY <1>9, <2>2 DEF Resume
    <3>2. worker'.pc # "idle"
      <4>1. worker \in Workers(specs, steps, items)
        BY <1>2 DEF ReconcilerTypes
      <4>2. worker.next # "idle"
        BY <1>2, <2>2 DEF CommonSteps
      <4> QED
        BY <3>1, <4>1, <4>2 DEF Workers
    <3> QED
      BY <3>1, <3>2, IdleType
  <2> QED
    BY <2>1, <2>2
<1>13. ok => resource'.status = worker.status
  BY <1>3, <1>6
<1>14. Update([resource EXCEPT !.status = worker.status], applied, ok) /\ HoldUpdated(ok)
  BY <1>1 DEF new
<1>15. worker.next \notin {"requeue", "ifFailed"} => Ignored
  BY DEF UpdateStatus
<1> QED
  BY <1>7, <1>8, <1>10, <1>11, <1>12, <1>13, <1>14, <1>15

(* When nothing stirs after updateStatus, either the worker goes on, or    *)
(* its last word said nothing new, or was lost.                            *)
LEMMA UpdateStatusWakes ==
  ASSUME NEW specs, NEW steps, NEW items, ReconcilerInv(specs, steps, items), LateIsWoken,
         UpdateStatus
  PROVE  /\ LateIsWoken' /\ KeepsStirring /\ (dropped => dropped')
         /\ \/ worker' = Idle
            \/ /\ worker'.pc = worker.next /\ worker.next \in steps \cup {"deleteCR"}
               /\ worker'.obj.status = worker.status /\ Agrees(worker'.obj, worker.obj)
         /\ worker' = Idle /\ ~Stirring' /\ ~dropped' => LastWord /\ worker.status = resource.status
<1> DEFINE new == [resource EXCEPT !.status = worker.status]
<1>1. PICK applied \in BOOLEAN, ok \in BOOLEAN :
        /\ Update(new, applied, ok)
        /\ HoldUpdated(ok) /\ (queued => queued')
        /\ ok => resource'.status = worker.status
        /\ worker.next \in {"return", "requeue", "ifFailed"} => worker' = Idle
        /\ worker.next \notin {"requeue", "ifFailed"} => Ignored
        /\ \/ /\ worker' = Idle
              /\ queued' \/ worker.next = "return" \/ (worker.next = "ifFailed" /\ ok)
           \/ /\ worker'.pc = worker.next /\ worker.next \in steps \cup {"deleteCR"}
              /\ worker'.pc # "idle" /\ (ok => worker'.obj = resource')
              /\ worker'.obj.status = worker.status /\ Agrees(worker'.obj, worker.obj)
  BY UpdateStatusSteps
<1> HIDE DEF new
<1>2. worker.pc = "status" /\ Busy
  BY DEF UpdateStatus, Busy
<1>3. /\ LateIsWoken' /\ KeepsStirring
      /\ Ignored /\ ~dropped' /\ ~Stirring' => ok
  BY <1>1, <1>2, UpdatingWakes
<1>5. dropped => dropped'
  BY DEF UpdateStatus, Retried, Ignored
<1>4. ASSUME worker' = Idle, ~Stirring', ~dropped' PROVE LastWord /\ worker.status = resource.status
  <2>1. ~queued' /\ worker'.pc = "idle"
    BY <1>4, IdleType DEF Stirring
  <2>2. worker.next \in {"return", "ifFailed"} /\ ok
    BY <1>1, <1>3, <1>4, <2>1
  <2>3. resource' = resource
    BY <1>3, <1>4 DEF KeepsStirring
  <2> QED
    BY <1>1, <1>2, <2>2, <2>3 DEF LastWord
<1> QED
  BY <1>1, <1>3, <1>4, <1>5

(* The deletion by name goes on, or is tried again.                        *)
LEMMA DeleteResourceWakes ==
  ASSUME NEW specs, NEW steps, NEW items, ReconcilerInv(specs, steps, items), LateIsWoken,
         DeleteResource
  PROVE  /\ LateIsWoken' /\ KeepsStirring /\ dropped' = dropped
         /\ \/ worker'.pc = "removeFinalizer" /\ worker'.obj = worker.obj
            \/ worker' = Idle /\ Stirring'
<1>1. PICK ok \in BOOLEAN : IF ok THEN Goto("removeFinalizer") ELSE Return(TRUE)
  BY DEF DeleteResource
<1>2. /\ Busy /\ worker \in Workers(specs, steps, items)
      /\ Hold(HoldersAfter({})) /\ UNCHANGED <<cache, event, dropped>>
  BY DEF DeleteResource, Busy, ReconcilerInv, ReconcilerTypes, UnchangedWorld, Retried
<1>3. /\ ok => worker'.pc = "removeFinalizer" /\ worker'.obj = worker.obj /\ queued' = queued
      /\ ~ok => worker' = Idle /\ worker'.pc = "idle" /\ queued'
  BY <1>1, <1>2, IdleType DEF Workers, Goto, Return
<1>4. KeepsStirring
  BY <1>2, <1>3 DEF KeepsStirring, Stirring, Hold, HoldersAfter
<1>5. LateIsWoken'
  <2>1. "worker" \in holders' => ok /\ resource' = resource /\ "worker" \in holders
    BY <1>2, <1>3 DEF Hold, HoldersAfter
  <2>2. "worker" \in holders' /\ ~dropped' => worker'.obj = resource'
    BY <1>2, <1>3, <2>1 DEF LateIsWoken
  <2>3. ASSUME Busy', "worker" \notin holders' PROVE Stirring'
    <3>1. resource' = resource => "worker" \notin holders
      BY <1>2, <2>3 DEF Hold, HoldersAfter, Busy
    <3> QED
      BY <1>2, <1>4, <3>1 DEF LateIsWoken, KeepsStirring
  <2> QED
    BY <2>2, <2>3 DEF LateIsWoken
<1> QED
  BY <1>2, <1>3, <1>4, <1>5 DEF Stirring

(* The finalizer is removed, and the resource with it, or this is tried    *)
(* again.                                                                  *)
LEMMA RemoveFinalizerWakes ==
  ASSUME NEW specs, NEW steps, NEW items, ReconcilerInv(specs, steps, items), LateIsWoken,
         RemoveFinalizer
  PROVE  /\ LateIsWoken' /\ KeepsStirring /\ dropped' = dropped
         /\ worker' = Idle /\ (~Stirring' => ~resource'.exists)
<1> DEFINE new == [resource EXCEPT !.finalizer = FALSE]
<1>1. PICK applied \in BOOLEAN, ok \in BOOLEAN :
        Update(new, applied, ok) /\ Return(~ok) /\ HoldUpdated(ok) /\ dropped' = dropped
  BY DEF RemoveFinalizer, Retried
<1>2. /\ Busy /\ worker.obj.deleting /\ resource \in Resources(specs)
  BY FieldTypes DEF RemoveFinalizer, Busy, ReconcilerInv, CommonStepsJustified, ExecutesFinalizer
<1>3. /\ ok => applied
      /\ applied => resource.exists /\ Agrees(resource, worker.obj) /\ resource' = Stored(new)
  BY <1>1, UpdateFacts
<1>4. resource.exists => new.deleting = resource.deleting /\ ~new.finalizer
  <2>1. new = [resource EXCEPT !.finalizer = FALSE]
    OBVIOUS
  <2> HIDE DEF new
  <2> QED
    BY <1>2, <2>1, ReleaseEdit
<1> HIDE DEF new
<1>5. ok => ~resource'.exists
  BY <1>2, <1>3, <1>4, NoResourceFields DEF Stored, Agrees
<1>6. /\ worker' = Idle /\ (queued => queued') /\ (~ok => queued')
  BY <1>1 DEF Return
<1>7. LateIsWoken' /\ KeepsStirring
  BY <1>1, <1>2, <1>6, UpdatingWakes
<1> QED
  BY <1>1, <1>5, <1>6, <1>7 DEF Stirring

(* Every common step: what becomes of the worker, and why nothing would    *)
(* bring it back when no failure was ignored.                              *)
LEMMA LifecycleWakes ==
  ASSUME NEW specs, NEW steps, NEW items, ReconcilerInv(specs, steps, items), LateIsWoken,
         LifecycleStep
  PROVE  /\ LateIsWoken'
         /\ Busy => KeepsStirring /\ (dropped => dropped')
         /\ \/ worker' = Idle
            \/ worker'.pc \in {"got", "removeFinalizer"}
            \/ /\ worker.pc = "status" /\ worker'.pc = worker.next
               /\ worker.next \in steps \cup {"deleteCR"}
               /\ worker'.obj.status = worker.status /\ Agrees(worker'.obj, worker.obj)
         /\ worker' = Idle /\ ~Stirring' /\ ~dropped' =>
              \/ ~resource'.exists
              \/ LastWord /\ ~Stirring /\ resource' = resource /\ worker.status = resource.status
<1>1. CASE Reconcile
  <2>1. ~Busy
    BY <1>1 DEF Reconcile, Busy
  <2> QED
    BY <1>1, <2>1, IdleType, ReconcileWakes
<1>2. CASE RegisterFinalizer
  BY <1>2, IdleType, RegisterFinalizerWakes
<1>3. CASE UpdateStatus
  <2>1. worker.pc = "status" /\ Busy
    BY <1>3 DEF UpdateStatus, Busy
  <2>2. /\ LateIsWoken' /\ KeepsStirring /\ (dropped => dropped')
        /\ \/ worker' = Idle
           \/ /\ worker'.pc = worker.next /\ worker.next \in steps \cup {"deleteCR"}
              /\ worker'.obj.status = worker.status /\ Agrees(worker'.obj, worker.obj)
        /\ worker' = Idle /\ ~Stirring' /\ ~dropped' => LastWord /\ worker.status = resource.status
    BY <1>3, <2>1, UpdateStatusWakes
  <2> QED
    BY <2>1, <2>2, StillWorkerHolds
<1>4. CASE DeleteResource
  BY <1>4, IdleType, DeleteResourceWakes
<1>5. CASE RemoveFinalizer
  BY <1>5, IdleType, RemoveFinalizerWakes
<1> QED
  BY <1>1, <1>2, <1>3, <1>4, <1>5 DEF LifecycleStep

(* A worker that tries again whenever a status is not stored ignores       *)
(* nothing.                                                                *)
LEMMA LifecycleHeeds ==
  ASSUME LifecycleStep, worker.pc = "status" => worker.next \in {"requeue", "ifFailed"}, ~dropped
  PROVE  ~dropped'
  BY DEF LifecycleStep, Reconcile, RegisterFinalizer, UpdateStatus, DeleteResource,
         RemoveFinalizer, Retried

(* The informer stirs.                                                     *)
LEMMA InformingWakes ==
  ASSUME LateIsWoken, CacheSync \/ Enqueue
  PROVE  LateIsWoken' /\ Stirring' /\ UNCHANGED <<resource, worker>>
<1>1. /\ UNCHANGED <<resource, worker, dropped>> /\ Stirring'
      /\ "worker" \in holders' => "worker" \in holders
  BY DEF CacheSync, Enqueue, Stirring
<1> QED
  BY <1>1 DEF LateIsWoken

(* A process that starts again finds every resource that is stored.        *)
LEMMA RestartWakes ==
  ASSUME Restart
  PROVE  /\ LateIsWoken' /\ worker' = Idle /\ resource' = resource
         /\ ~Stirring' => ~resource'.exists
<1>1. /\ worker' = Idle /\ worker'.pc = "idle" /\ holders' = {"cache"}
      /\ queued' = resource.exists /\ resource' = resource
  BY DEF Restart, Idle
<1> QED
  BY <1>1 DEF LateIsWoken, Stirring, Busy

(* A change by somebody else is news for the cache.                        *)
LEMMA ActingWakes ==
  ASSUME Act, holders' = {}
  PROVE  LateIsWoken' /\ Stirring' /\ worker' = worker
  BY DEF Act, LateIsWoken, Stirring

(* What happens elsewhere leaves the worker and what stirs as they are.    *)
LEMMA ElsewhereWakes ==
  ASSUME LateIsWoken, UNCHANGED <<resource, worker, holders, dropped>>, Stirring => Stirring'
  PROVE  LateIsWoken'
  BY DEF LateIsWoken, Busy

(* At the start there is no resource and no worker.                        *)
LEMMA InitWakes ==
  ASSUME InitReconciler
  PROVE  LateIsWoken /\ worker.pc = "idle" /\ ~resource.exists
<1>1. worker.pc = "idle" /\ ~resource.exists /\ holders = {"cache"}
  BY NoResourceFields DEF InitReconciler, Idle
<1> QED
  BY <1>1 DEF LateIsWoken, Busy

-----------------------------------------------------------------------------
(* What pursues a deletion, whatever fails *)

(* A worker that moves on without touching the resource: it does not       *)
(* forget the deletion it knows of.                                        *)
LEMMA MovingPursues ==
  ASSUME NEW specs, NEW steps, NEW items, ReconcilerInv(specs, steps, items), DeletionPursued,
         Busy, MovesOn(specs, steps, items), UnchangedCluster, queued => queued',
         worker' = Idle => queued' \/ ~worker.obj.deleting,
         LastWord' => ~worker.obj.deleting
  PROVE  DeletionPursued'
<1>1. /\ UNCHANGED <<resource, cache, event, ops>>
      /\ holders' = IF worker'.pc = "idle" THEN holders \ {"worker"} ELSE holders
  BY DEF UnchangedCluster, UnchangedWorld, Hold
<1>2. Stirring => Stirring'
  BY <1>1 DEF Stirring
<1>3. \/ worker' = Idle /\ ~Busy'
      \/ Busy' /\ worker'.obj = worker.obj
  BY IdleType DEF MovesOn, Busy
<1> QED
  BY <1>1, <1>2, <1>3 DEF DeletionPursued, Stirring

(* An update of the resource by the worker. *)
LEMMA UpdatingPursues ==
  ASSUME DeletionPursued, Busy, NEW ok \in BOOLEAN, HoldUpdated(ok), queued => queued',
         worker' = Idle => queued' \/ ~worker.obj.deleting \/ ~resource'.deleting,
         worker' # Idle => Busy' /\ (worker.obj.deleting => worker'.obj.deleting),
         worker' # Idle /\ worker'.obj.deleting => ~LastWord'
  PROVE  DeletionPursued'
<1>1. KeepsStirring
  BY UpdatingStirs
<1>2. worker' = Idle => ~Busy'
  BY IdleType DEF Busy
<1>3. ASSUME resource'.deleting, ~Stirring' PROVE Busy' /\ worker'.obj.deleting
  <2>1. resource' = resource /\ ~Stirring /\ ~queued'
    BY <1>1, <1>3 DEF KeepsStirring, Stirring
  <2>2. worker.obj.deleting
    BY <1>3, <2>1 DEF DeletionPursued
  <2> QED
    BY <1>3, <2>1, <2>2
<1> QED
  BY <1>2, <1>3 DEF DeletionPursued

(* A worker that knows of no deletion has none to forget. *)
LEMMA LivePursues ==
  ASSUME DeletionPursued, KeepsStirring, ~worker.obj.deleting, Busy' => ~worker'.obj.deleting
  PROVE  DeletionPursued'
  BY DEF DeletionPursued, KeepsStirring

(* A worker that starts from the latest copy knows of the deletion. *)
LEMMA ReconcilePursues ==
  ASSUME NEW specs, NEW steps, NEW items, ReconcilerInv(specs, steps, items), Reconcile
  PROVE  DeletionPursued'
<1>1. /\ worker.pc = "idle"
      /\ UNCHANGED <<resource, cache, event>>
      /\ Hold(IF "cache" \in holders THEN holders \cup {"worker"} ELSE holders)
      /\ worker' = IF cache.exists THEN [Idle EXCEPT !.pc = "got", !.obj = cache] ELSE Idle
  BY DEF Reconcile, UnchangedWorld
<1>2. /\ "cache" \in holders => cache = resource
      /\ resource \in Resources(specs)
  BY FieldTypes DEF ReconcilerInv, CopiesInv, CopiesCurrent
<1>3. /\ cache.exists => worker'.pc = "got" /\ worker'.obj = cache
      /\ ~cache.exists => worker'.pc = "idle"
  <2>1. Idle \in Workers(specs, steps, items) /\ Idle.pc = "idle"
    BY IdleType
  <2>2. LET w == [Idle EXCEPT !.pc = "got", !.obj = cache]
        IN  w.pc = "got" /\ w.obj = cache
    BY <2>1 DEF Workers
  <2> QED
    BY <1>1, <2>1, <2>2
<1>4. resource.deleting => resource.exists
  BY <1>2, DeletingIsStored
<1>5. "cache" \notin holders => "cache" \notin holders'
  BY <1>1 DEF Hold
<1>6. resource'.deleting => Stirring' \/ (Busy' /\ worker'.obj.deleting)
  BY <1>1, <1>2, <1>3, <1>4, <1>5 DEF Stirring, Busy
<1>7. ~LastWord'
  BY <1>3 DEF LastWord
<1> QED
  BY <1>6, <1>7 DEF DeletionPursued

(* A status is reported by a worker that goes on, or is tried again. *)
LEMMA UpdateStatusPursues ==
  ASSUME NEW specs, NEW steps, NEW items, ReconcilerInv(specs, steps, items), DeletionPursued,
         UpdateStatus
  PROVE  DeletionPursued'
<1>1. PICK applied \in BOOLEAN, ok \in BOOLEAN :
        /\ HoldUpdated(ok) /\ (queued => queued')
        /\ \/ /\ worker' = Idle
              /\ queued' \/ worker.next = "return" \/ (worker.next = "ifFailed" /\ ok)
           \/ /\ worker'.pc = worker.next /\ worker.next \in steps \cup {"deleteCR"}
              /\ worker'.pc # "idle" /\ Agrees(worker'.obj, worker.obj)
  BY UpdateStatusSteps
<1>2. worker.pc = "status" /\ Busy /\ steps \cap CommonSteps = {}
  BY DEF UpdateStatus, Busy, ReconcilerInv
<1>3. worker' = Idle => queued' \/ ~worker.obj.deleting
  <2>1. worker' = Idle => worker'.pc = "idle"
    BY IdleType
  <2> QED
    BY <1>1, <1>2, <2>1 DEF DeletionPursued, LastWord
<1>4. worker' # Idle => /\ Busy' /\ worker'.pc # "status"
                        /\ worker'.obj.deleting = worker.obj.deleting
  BY <1>1, <1>2 DEF Busy, Agrees, CommonSteps
<1> QED
  BY <1>1, <1>2, <1>3, <1>4, UpdatingPursues DEF LastWord

(* Every common step. *)
LEMMA LifecyclePursues ==
  ASSUME NEW specs, NEW steps, NEW items, ReconcilerInv(specs, steps, items), DeletionPursued,
         LifecycleStep
  PROVE  DeletionPursued'
<1>1. worker \in Workers(specs, steps, items) /\ resource \in Resources(specs)
  BY FieldTypes DEF ReconcilerInv, ReconcilerTypes
<1>2. CASE RegisterFinalizer
  <2>1. PICK ok \in BOOLEAN :
          /\ IF ok THEN worker' = [worker EXCEPT !.obj = resource'] /\ UNCHANGED queued
                   ELSE Return(TRUE)
          /\ HoldUpdated(ok)
    BY <1>2 DEF RegisterFinalizer
  <2>2. worker.pc = "got" /\ Busy /\ ~worker.obj.deleting
    BY <1>2 DEF RegisterFinalizer, Busy
  <2>3. /\ ok => worker'.pc = "got" /\ queued' = queued
        /\ ~ok => worker' = Idle /\ queued'
    BY <1>1, <2>1, <2>2 DEF Workers, Return
  <2> QED
    BY <2>1, <2>2, <2>3, UpdatingPursues DEF Busy, LastWord
<1>3. CASE DeleteResource
  <2>1. PICK ok \in BOOLEAN : IF ok THEN Goto("removeFinalizer") ELSE Return(TRUE)
    BY <1>3 DEF DeleteResource
  <2>2. /\ worker.obj.deleting
        /\ Hold(HoldersAfter({})) /\ UNCHANGED <<cache, event>>
    BY <1>3 DEF DeleteResource, ReconcilerInv, CommonStepsJustified, ExecutesFinalizer, UnchangedWorld
  <2>3. /\ ok => worker'.pc = "removeFinalizer" /\ worker'.obj = worker.obj
        /\ ~ok => worker'.pc = "idle" /\ queued'
    BY <1>1, <2>1, IdleType DEF Workers, Goto, Return
  <2> QED
    BY <2>2, <2>3 DEF DeletionPursued, Stirring, Busy, LastWord
<1>4. CASE RemoveFinalizer
  <2> DEFINE new == [resource EXCEPT !.finalizer = FALSE]
  <2>1. PICK applied \in BOOLEAN, ok \in BOOLEAN :
          Update(new, applied, ok) /\ Return(~ok) /\ HoldUpdated(ok)
    BY <1>4 DEF RemoveFinalizer
  <2>2. Busy /\ worker.obj.deleting
    BY <1>4 DEF RemoveFinalizer, Busy, ReconcilerInv, CommonStepsJustified, ExecutesFinalizer
  <2>3. /\ ok => applied
        /\ applied => resource.exists /\ Agrees(resource, worker.obj) /\ resource' = Stored(new)
    BY <2>1, UpdateFacts
  <2>4. resource.exists => new.deleting = resource.deleting /\ ~new.finalizer
    <3>1. new = [resource EXCEPT !.finalizer = FALSE]
      OBVIOUS
    <3> HIDE DEF new
    <3> QED
      BY <1>1, <3>1, ReleaseEdit
  <2> HIDE DEF new
  <2>5. ok => ~resource'.deleting
    BY <2>2, <2>3, <2>4, NoResourceFields DEF Stored, Agrees
  <2>6. worker' = Idle /\ (queued => queued') /\ (~ok => queued')
    BY <2>1 DEF Return
  <2> QED
    BY <2>1, <2>2, <2>5, <2>6, UpdatingPursues
<1> QED
  BY <1>2, <1>3, <1>4, ReconcilePursues, UpdateStatusPursues DEF LifecycleStep

(* The informer stirs, and a process that starts again finds the deletion. *)
LEMMA InformingPursues ==
  ASSUME NEW specs, NEW steps, NEW items, ReconcilerInv(specs, steps, items), DeletionPursued,
         CacheSync \/ Enqueue \/ Restart
  PROVE  DeletionPursued'
<1>1. CASE CacheSync \/ Enqueue
  BY <1>1 DEF CacheSync, Enqueue, DeletionPursued, Stirring, Busy, LastWord
<1>2. CASE Restart
  <2>1. worker'.pc = "idle" /\ queued' = resource.exists /\ resource' = resource
    BY <1>2, IdleType DEF Restart
  <2>2. resource.deleting => resource.exists
    BY FieldTypes, DeletingIsStored DEF ReconcilerInv
  <2> QED
    BY <2>1, <2>2 DEF DeletionPursued, Stirring, Busy
<1> QED
  BY <1>1, <1>2

(* What others do leaves the worker alone, and leaves the resource alone   *)
(* or stirs.                                                               *)
LEMMA OthersPursue ==
  ASSUME DeletionPursued, worker' = worker, Stirring' \/ (UNCHANGED resource /\ ~Stirring)
  PROVE  DeletionPursued'
  BY DEF DeletionPursued, Busy, LastWord

(* At the start nothing is to be deleted. *)
LEMMA InitPursues == InitReconciler => DeletionPursued
<1> SUFFICES ASSUME InitReconciler PROVE DeletionPursued
  OBVIOUS
<1>1. worker.pc = "idle" /\ ~resource.deleting
  BY NoResourceFields, IdleType DEF InitReconciler
<1> QED
  BY <1>1 DEF DeletionPursued, Busy

=============================================================================
