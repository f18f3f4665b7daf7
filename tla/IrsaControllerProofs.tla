------------------------ MODULE IrsaControllerProofs ------------------------
(***************************************************************************)
(* Theorems about IrsaController, for every number of users' actions and   *)
(* of failures, and every set of statements.                               *)
(*                                                                         *)
(* As in PolicyControllerProofs, all of them follow from one inductive     *)
(* invariant, IInv, and ReconcilerProofs keeps the half of it that speaks  *)
(* of the stored resource and its copies; here one lemma per action keeps  *)
(* what it says of the three resources that the reconciler makes.          *)
(***************************************************************************)
EXTENDS IrsaController, ReconcilerProofs

-----------------------------------------------------------------------------
(* The two halves of the invariant *)

(* The half that ReconcilerProofs speaks of. *)
Half == ReconcilerInv(StatementChoices, Steps, {})

(* The moves of this worker. *)
Moves == MovesOn(StatementChoices, Steps, {})

(* What IInv says of the types of the three resources. *)
ChildTypes ==
    /\ children \in [Kinds -> Children]
    /\ seen \in [Kinds -> Children]
    /\ news \subseteq Kinds
    /\ deeds \subseteq {"made", "removed"}

(* IInv is made of the two halves. *)
LEMMA Halves == IInv <=> Half /\ ChildTypes /\ ChildrenJustified /\ StepsJustified
<1>1. Steps \cap CommonSteps = {}
  BY DEF Steps, CommonSteps
<1> QED
  BY <1>1 DEF IInv, TypeOK, Half, ChildTypes, ReconcilerInv, StepsJustified

(* The same after a step. *)
LEMMA HalvesNext ==
  ASSUME Half', ChildTypes', ChildrenJustified', StepsJustified'
  PROVE  IInv'
  BY DEF IInv, TypeOK, Half, ChildTypes, ReconcilerInv

(* The worker has a copy when it makes a step. *)
LEMMA OwnSteps ==
  ASSUME IInv
  PROVE  /\ ReconcilerTypes(StatementChoices, Steps, {}) /\ faults \in 0..MaxFaults
         /\ worker.obj \in Resources(StatementChoices) /\ worker.obj.uid \in 0..MaxOps
         /\ worker.obj.exists => worker.obj.spec \in StatementChoices
         /\ worker.pc # "idle" => Busy /\ worker.obj.exists
<1>1. Half
  BY Halves
<1>2. worker.obj \in Resources(StatementChoices)
  BY <1>1, FieldTypes DEF Half, ReconcilerInv
<1>3. worker.obj.uid \in 0..MaxOps /\ (worker.obj.exists => worker.obj.spec \in StatementChoices)
  BY <1>2, ResourceFields
<1> QED
  BY <1>1, <1>2, <1>3 DEF Half, ReconcilerInv, ReconcilerTypes, CopiesInv, CopiesTruthful, Busy

(* A step of the worker keeps the invariant when its next step is          *)
(* justified, and the three resources.                                     *)
LEMMA WorkerStepKeeps ==
  ASSUME IInv, Busy, Moves, faults' \in 0..MaxFaults, UnchangedCluster,
         ChildTypes', ChildrenJustified', StepsJustified'
  PROVE  IInv'
<1>1. Half
  BY Halves
<1>2. ReconcilerTypes(StatementChoices, Steps, {})' /\ CopiesInv'
  BY <1>1, MovingKeeps DEF Half, Moves
<1>3. Half'
  BY <1>1, <1>2 DEF Half, ReconcilerInv, StepsJustified
<1> QED
  BY <1>3, HalvesNext

(* A step of others keeps the invariant when the worker stays or stops. *)
LEMMA OthersKeep ==
  ASSUME IInv, Half', ChildTypes', ChildrenJustified', worker' = worker \/ worker' = Idle
  PROVE  IInv'
<1>1. CommonStepsJustified' /\ StepsJustified
  BY DEF Half, ReconcilerInv, IInv
<1>2. Idle.pc = "idle"
  BY IdleType
<1>3. StepsJustified'
  <2>1. CASE worker' = worker
    BY <1>1, <2>1 DEF StepsJustified
  <2>2. CASE worker' = Idle
    BY <1>1, <1>2, <2>2 DEF StepsJustified, Steps
  <2> QED
    BY <2>1, <2>2
<1> QED
  BY <1>3, HalvesNext

-----------------------------------------------------------------------------
(* The three resources *)

(* Their records. *)
LEMMA ChildFields ==
  ASSUME NEW c \in Children
  PROVE  /\ c.exists \in BOOLEAN /\ c.owner \in 0..MaxOps /\ c.deleting \in BOOLEAN
         /\ c.ok \in BOOLEAN /\ c.arn \in {"", "arn"}
         /\ c.statement \in StatementChoices \cup {NoSpec}
  BY DEF Children

(* The absent one is one of them, without owner, ARN or finalizer. *)
LEMMA NoChildType ==
    /\ NoChild \in Children /\ ~NoChild.exists /\ NoChild.owner = 0 /\ ~Owned(NoChild)
    /\ NoChild.arn = "" /\ ~NoChild.deleting /\ ~NoChild.ok
<1>1. MaxOps \in Nat
  BY OpsAssumption
<1>2. 0 \in 0..MaxOps
  BY <1>1
<1> QED
  BY <1>2 DEF NoChild, Children, Owned

(* One of the three changes, and no other. *)
LEMMA BecomeChanges ==
  ASSUME ChildTypes, NEW kind \in Kinds, NEW child \in Children, Become(kind, child)
  PROVE  /\ children' \in [Kinds -> Children] /\ news' \subseteq Kinds
         /\ children'[kind] = child
         /\ \A k \in Kinds \ {kind} : children'[k] = children[k]
  BY DEF ChildTypes, Become

(* What there is to show when one of the three changes. *)
LEMMA BecomeKeeps ==
  ASSUME IInv, NEW kind \in Kinds, NEW child \in Children, Become(kind, child),
         seen' = seen, deeds \subseteq deeds', deeds' \subseteq {"made", "removed"},
         ~child.exists => child = NoChild,
         kind = "sa" /\ Owned(child) => "made" \in deeds' \/ Owned(children["sa"])
  PROVE  ChildTypes' /\ ChildrenJustified'
<1>1. ChildTypes /\ ChildrenJustified
  BY Halves
<1>2. /\ children' \in [Kinds -> Children] /\ news' \subseteq Kinds /\ children'[kind] = child
      /\ \A k \in Kinds \ {kind} : children'[k] = children[k]
  BY <1>1, BecomeChanges
<1>3. ChildTypes'
  BY <1>1, <1>2 DEF ChildTypes
<1>4. \A k \in Kinds : ~children'[k].exists => children'[k] = NoChild
  BY <1>1, <1>2 DEF ChildrenJustified
<1>5. "made" \notin deeds' => ~Owned(children'["sa"]) /\ ~Owned(seen'["sa"])
  <2> SUFFICES ASSUME "made" \notin deeds' PROVE ~Owned(children'["sa"]) /\ ~Owned(seen'["sa"])
    OBVIOUS
  <2>1. ~Owned(children["sa"]) /\ ~Owned(seen["sa"])
    BY <1>1 DEF ChildrenJustified
  <2>2. children'["sa"] = IF kind = "sa" THEN child ELSE children["sa"]
    BY <1>2 DEF Kinds
  <2> QED
    BY <2>1, <2>2
<1> QED
  BY <1>3, <1>4, <1>5 DEF ChildrenJustified

(* What there is to show when none of them changes. *)
LEMMA ChildrenStay ==
  ASSUME IInv, UNCHANGED childVars
  PROVE  ChildTypes' /\ ChildrenJustified'
<1>1. ChildTypes /\ ChildrenJustified
  BY Halves
<1> QED
  BY <1>1 DEF ChildTypes, ChildrenJustified, childVars

(* Going on to another step. *)
LEMMA ProceedKeeps ==
  ASSUME IInv, Busy, NEW pc \in Steps \cup {"deleteCR"}, Proceed(pc),
         pc \in Steps => Registered(worker.obj),
         pc = "deleteCR" => ExecutesFinalizer(worker.obj)
  PROVE  IInv'
<1>1. Goto(pc) /\ faults' = faults /\ UnchangedCluster /\ UNCHANGED childVars
  BY DEF Proceed
<1>2. pc \in CommonSteps \cup Steps /\ pc \notin {"idle", "got", "status", "removeFinalizer"}
  BY DEF CommonSteps, Steps
<1>3. Moves /\ worker'.pc = pc /\ worker'.obj = worker.obj
  BY <1>1, <1>2, OwnSteps, GotoMoves DEF Moves
<1>4. StepsJustified'
  BY <1>2, <1>3 DEF StepsJustified, CommonStepsJustified, Steps
<1>5. ChildTypes' /\ ChildrenJustified'
  BY <1>1, ChildrenStay
<1>6. faults' \in 0..MaxFaults
  BY <1>1, OwnSteps
<1> QED
  BY <1>1, <1>3, <1>4, <1>5, <1>6, WorkerStepKeeps

(* An idle worker has nothing to justify. *)
LEMMA IdleJustified == worker' = Idle => StepsJustified'
<1>1. worker' = Idle => worker'.pc = "idle"
  BY DEF Idle
<1> QED
  BY <1>1 DEF StepsJustified, CommonStepsJustified, Steps

(* Returning from the reconciliation. *)
LEMMA LeaveKeeps ==
  ASSUME IInv, Busy, NEW requeue \in BOOLEAN, Return(requeue), faults' = faults,
         UnchangedCluster, UNCHANGED childVars
  PROVE  IInv'
<1>1. Moves /\ worker' = Idle
  BY OwnSteps, ReturnMoves DEF Moves
<1>2. StepsJustified'
  BY <1>1, IdleJustified
<1>3. faults' \in 0..MaxFaults
  BY OwnSteps
<1> QED
  BY <1>1, <1>2, <1>3, ChildrenStay, WorkerStepKeeps

(* Reporting a status. *)
LEMMA ReportKeeps ==
  ASSUME IInv, Busy, worker.obj.finalizer, ~worker.obj.deleting, NEW status \in Statuses,
         Report(status, "ifFailed"), faults' = faults, UnchangedCluster, UNCHANGED childVars
  PROVE  IInv'
<1>1. /\ Moves /\ worker'.pc = "status" /\ worker'.obj = worker.obj
      /\ worker'.next = "ifFailed"
  BY OwnSteps, ReportMoves DEF Moves
<1>2. StepsJustified'
  BY <1>1 DEF StepsJustified, CommonStepsJustified, Steps
<1>3. faults' \in 0..MaxFaults
  BY OwnSteps
<1> QED
  BY <1>1, <1>2, <1>3, ChildrenStay, WorkerStepKeeps

(* Creating one of the three resources, for the worker's copy. *)
LEMMA CreateKeeps ==
  ASSUME IInv, Busy, NEW kind \in Kinds, NEW child \in Children, child.exists, Create(kind, child)
  PROVE  IInv'
<1>1. PICK applied \in BOOLEAN, ok \in BOOLEAN :
        /\ Call("api", ~children[kind].exists, applied, ok)
        /\ Become(kind, IF applied THEN child ELSE children[kind])
        /\ deeds' = IF applied /\ kind = "sa" THEN deeds \cup {"made"} ELSE deeds
        /\ Return(~ok)
  BY DEF Create
<1>2. ChildTypes /\ ChildrenJustified /\ UnchangedCluster /\ seen' = seen
  BY Halves DEF Create
<1>3. faults' \in 0..MaxFaults
  BY <1>1, OwnSteps, FaultType DEF Call
<1> DEFINE new == IF applied THEN child ELSE children[kind]
<1>4. new \in Children /\ (~new.exists => new = NoChild)
  BY <1>2 DEF ChildTypes, ChildrenJustified
<1>5. /\ deeds \subseteq deeds' /\ deeds' \subseteq {"made", "removed"}
      /\ kind = "sa" /\ Owned(new) => "made" \in deeds' \/ Owned(children["sa"])
  BY <1>1, <1>2 DEF ChildTypes
<1>6. Become(kind, new)
  BY <1>1
<1> HIDE DEF new
<1>7. ChildTypes' /\ ChildrenJustified'
  BY <1>2, <1>4, <1>5, <1>6, BecomeKeeps
<1>8. Moves /\ worker' = Idle
  BY <1>1, OwnSteps, ReturnMoves DEF Moves
<1> QED
  BY <1>2, <1>3, <1>7, <1>8, IdleJustified, WorkerStepKeeps

-----------------------------------------------------------------------------
(* admissionStep and reconcilerRoutine *)

(* admissionStep only reports. *)
LEMMA AdmissionStepKeeps == IInv /\ AdmissionStep => IInv'
<1> SUFFICES ASSUME IInv, AdmissionStep PROVE IInv'
  OBVIOUS
<1>1. /\ Busy /\ worker.obj.finalizer /\ ~worker.obj.deleting /\ UnchangedCluster
      /\ faults' = faults /\ UNCHANGED childVars
      /\ \/ Report(Failed("invalid"), "ifFailed") \/ Report(Failed("conflict"), "ifFailed")
         \/ Report(Progress("passed validation"), "ifFailed")
  BY DEF AdmissionStep, Busy, Registered
<1>2. /\ Failed("invalid") \in Statuses /\ Failed("conflict") \in Statuses
      /\ Progress("passed validation") \in Statuses
  <2>1. "invalid" \in Reasons /\ "conflict" \in Reasons /\ "passed validation" \in Reasons
    BY DEF Reasons
  <2>2. IrsaFailed \in Conditions /\ CrProgressing \in Conditions
    BY DEF Conditions
  <2> QED
    BY <2>1, <2>2 DEF Failed, Progress, NewStatus, Statuses
<1> QED
  BY <1>1, <1>2, ReportKeeps

(* The routine runs on a copy with the finalizer that is not deleting. *)
LEMMA RoutineCopy ==
  ASSUME IInv, AtRoutine \/ worker.pc \in Steps
  PROVE  /\ Busy /\ Registered(worker.obj) /\ worker.obj.finalizer /\ ~worker.obj.deleting
         /\ worker.obj.spec \in StatementChoices /\ worker.obj.uid \in 0..MaxOps
<1>1. worker.pc # "idle" /\ Registered(worker.obj)
  BY DEF AtRoutine, InRoutine, Steps, IInv, StepsJustified
<1> QED
  BY <1>1, OwnSteps DEF Registered

(* What the worker makes is one of the resources. *)
LEMMA MadeTypes ==
  ASSUME NEW irsa, irsa.spec \in StatementChoices, irsa.uid \in 0..MaxOps
  PROVE  /\ NewPolicy(irsa) \in Children /\ NewPolicy(irsa).exists
         /\ NewRole(irsa) \in Children /\ NewRole(irsa).exists
         /\ NewServiceAccount(irsa, "arn") \in Children /\ NewServiceAccount(irsa, "arn").exists
         /\ NewPolicy(irsa).owner = irsa.uid /\ NewRole(irsa).owner = irsa.uid
         /\ NewServiceAccount(irsa, "arn").owner = irsa.uid
  BY NoChildType DEF NewPolicy, NewRole, NewServiceAccount, NoChild, Children

(* The steps that look at the caches, or create a resource. *)
LEMMA LookingKeeps ==
  ASSUME IInv, \/ PolicyAlreadyExists \/ CreatePolicy \/ PolicyVanished \/ RoleAlreadyExists
               \/ CreateRole \/ SaAlreadyExists \/ SaMissing \/ CreateServiceAccount \/ RoleNotReady
  PROVE  IInv'
<1>1. AtRoutine \/ worker.pc \in Steps
  BY DEF PolicyAlreadyExists, CreatePolicy, PolicyVanished, RoleAlreadyExists, CreateRole,
         SaAlreadyExists, SaMissing, CreateServiceAccount, RoleNotReady, Steps
<1>2. /\ Busy /\ Registered(worker.obj) /\ worker.obj.finalizer /\ ~worker.obj.deleting
      /\ worker.obj.spec \in StatementChoices /\ worker.obj.uid \in 0..MaxOps
      /\ ChildTypes
  BY <1>1, RoutineCopy, Halves
<1>3. ASSUME NEW pc \in Steps, Proceed(pc) PROVE IInv'
  BY <1>2, <1>3, ProceedKeeps DEF Steps
<1>4. ASSUME NEW requeue \in BOOLEAN, Leave(requeue) PROVE IInv'
  BY <1>2, <1>4, LeaveKeeps DEF Leave
<1>5. ASSUME NEW kind \in Kinds, NEW child \in Children, child.exists, Create(kind, child) PROVE IInv'
  BY <1>2, <1>5, CreateKeeps
<1>6. /\ NewPolicy(worker.obj) \in Children /\ NewPolicy(worker.obj).exists
      /\ NewRole(worker.obj) \in Children /\ NewRole(worker.obj).exists
      /\ NewServiceAccount(worker.obj, "arn") \in Children
      /\ NewServiceAccount(worker.obj, "arn").exists
  BY <1>2, MadeTypes
<1>7. CASE PolicyAlreadyExists \/ RoleAlreadyExists
  BY <1>3, <1>7 DEF PolicyAlreadyExists, RoleAlreadyExists, Steps
<1>8. CASE CreatePolicy
  BY <1>5, <1>6, <1>8 DEF CreatePolicy, Kinds
<1>9. CASE CreateRole
  BY <1>5, <1>6, <1>9 DEF CreateRole, Kinds
<1>10. CASE CreateServiceAccount
  <2>1. seen["role"].arn = "arn" /\ Create("sa", NewServiceAccount(worker.obj, seen["role"].arn))
    <3>1. seen["role"].arn \in {"", "arn"}
      BY <1>2 DEF ChildTypes, Children, Kinds
    <3> QED
      BY <1>10, <3>1 DEF CreateServiceAccount
  <2> QED
    BY <1>5, <1>6, <2>1 DEF Kinds
<1>11. CASE PolicyVanished
  BY <1>4, <1>11 DEF PolicyVanished
<1>12. CASE RoleNotReady
  <2>1. seen["role"].exists \in BOOLEAN
    BY <1>2 DEF ChildTypes, Children, Kinds
  <2> QED
    BY <1>4, <1>12, <2>1 DEF RoleNotReady
<1>13. CASE SaMissing
  BY <1>3, <1>4, <1>13 DEF SaMissing, Steps
<1>14. CASE SaAlreadyExists
  <2>1. AllDone \in Statuses
    BY StatusTypes
  <2>2. /\ faults' = faults /\ UnchangedCluster /\ UNCHANGED childVars
        /\ Report(AllDone, "ifFailed") \/ Return(FALSE)
    BY <1>14 DEF SaAlreadyExists
  <2> QED
    BY <1>2, <2>1, <2>2, ReportKeeps, LeaveKeeps
<1> QED
  BY <1>7, <1>8, <1>9, <1>10, <1>11, <1>12, <1>13, <1>14

(* updatePolicyIfNeeded changes what its cached copy is the latest of. *)
LEMMA UpdatePolicyIfNeededKeeps == IInv /\ UpdatePolicyIfNeeded => IInv'
<1> SUFFICES ASSUME IInv, UpdatePolicyIfNeeded PROVE IInv'
  OBVIOUS
<1> DEFINE sent == [children["policy"] EXCEPT !.statement = worker.obj.spec,
                                              !.arn = seen["policy"].arn]
<1>1. PICK applied \in BOOLEAN, ok \in BOOLEAN :
        /\ Call("api", SameVersion, applied, ok)
        /\ Become("policy", IF applied THEN sent ELSE children["policy"])
        /\ IF ok THEN Goto("checkRole") ELSE Return(TRUE)
  BY DEF UpdatePolicyIfNeeded
<1>2. worker.pc \in Steps /\ UnchangedCluster /\ seen' = seen /\ deeds' = deeds /\ seen["policy"].exists
  BY DEF UpdatePolicyIfNeeded, Steps
<1>3. /\ Busy /\ Registered(worker.obj) /\ worker.obj.spec \in StatementChoices
      /\ ChildTypes /\ ChildrenJustified
  BY <1>2, RoutineCopy, Halves
<1>4. faults' \in 0..MaxFaults /\ (applied => SameVersion)
  <2>1. SameVersion \in BOOLEAN
    BY DEF SameVersion
  <2> QED
    BY <1>1, <2>1, OwnSteps, CallType
<1>5. children["policy"] \in Children /\ seen["policy"] \in Children
  BY <1>3 DEF ChildTypes, Kinds
<1>6. applied => sent \in Children /\ sent.exists
  BY <1>2, <1>3, <1>4, <1>5 DEF Children, SameVersion
<1> HIDE DEF sent
<1> DEFINE new == IF applied THEN sent ELSE children["policy"]
<1>7. new \in Children /\ (~new.exists => new = NoChild) /\ Become("policy", new)
  BY <1>1, <1>3, <1>5, <1>6 DEF ChildrenJustified, Kinds
<1> HIDE DEF new
<1>8. ChildTypes' /\ ChildrenJustified'
  <2>1. "policy" \in Kinds /\ deeds \subseteq deeds' /\ deeds' \subseteq {"made", "removed"}
    BY <1>2, <1>3 DEF ChildTypes, Kinds
  <2> QED
    BY <1>2, <1>7, <2>1, BecomeKeeps
<1>9. Moves /\ StepsJustified'
  <2>1. CASE ok
    <3>1. Goto("checkRole") /\ "checkRole" \in CommonSteps \cup Steps
      BY <1>1, <2>1 DEF Steps
    <3>2. Moves /\ worker'.pc = "checkRole" /\ worker'.obj = worker.obj
      BY <3>1, OwnSteps, GotoMoves DEF Moves
    <3> QED
      BY <1>3, <3>2 DEF StepsJustified, CommonStepsJustified
  <2>2. CASE ~ok
    BY <1>1, <2>2, OwnSteps, ReturnMoves, IdleJustified DEF Moves
  <2> QED
    BY <2>1, <2>2
<1> QED
  BY <1>2, <1>3, <1>4, <1>8, <1>9, WorkerStepKeeps

(* Every step of the routine keeps the invariant. *)
LEMMA RoutineStepKeeps == IInv /\ RoutineStep => IInv'
  BY AdmissionStepKeeps, LookingKeeps, UpdatePolicyIfNeededKeeps DEF RoutineStep

-----------------------------------------------------------------------------
(* The finalizer *)

(* The service account goes, or is left alone. *)
LEMMA FinalizerStepKeeps == IInv /\ FinalizerStep => IInv'
<1> SUFFICES ASSUME IInv, FinalizerStep PROVE IInv'
  OBVIOUS
<1>1. AtFinalizer /\ Busy /\ ExecutesFinalizer(worker.obj) /\ ChildTypes /\ ChildrenJustified
  BY Halves DEF FinalizerStep, DeleteSa, SaNotOurs, AtFinalizer, Busy
<1>2. CASE SaNotOurs
  BY <1>1, <1>2, ProceedKeeps DEF SaNotOurs, Steps
<1>3. CASE DeleteSa
  <2>1. PICK applied \in BOOLEAN, ok \in BOOLEAN :
          /\ Call("api", TRUE, applied, ok)
          /\ Become("sa", IF applied THEN NoChild ELSE children["sa"])
          /\ IF ok THEN Goto("deleteCR") ELSE Return(TRUE)
    BY <1>3 DEF DeleteSa
  <2>2. UnchangedCluster /\ seen' = seen /\ deeds' = deeds
    BY <1>3 DEF DeleteSa
  <2>3. faults' \in 0..MaxFaults
    BY <2>1, OwnSteps, FaultType DEF Call
  <2> DEFINE new == IF applied THEN NoChild ELSE children["sa"]
  <2>4. /\ "sa" \in Kinds /\ new \in Children /\ (~new.exists => new = NoChild)
        /\ Become("sa", new) /\ (Owned(new) => Owned(children["sa"]))
    BY <1>1, <2>1, NoChildType DEF ChildTypes, ChildrenJustified, Kinds
  <2> HIDE DEF new
  <2>5. ChildTypes' /\ ChildrenJustified'
    <3>1. deeds \subseteq deeds' /\ deeds' \subseteq {"made", "removed"}
      BY <1>1, <2>2 DEF ChildTypes
    <3> QED
      BY <2>2, <2>4, <3>1, BecomeKeeps
  <2>6. Moves /\ StepsJustified'
    <3>1. CASE ok
      <4>1. Goto("deleteCR") /\ "deleteCR" \in CommonSteps \cup Steps
        BY <2>1, <3>1 DEF CommonSteps
      <4>2. Moves /\ worker'.pc = "deleteCR" /\ worker'.obj = worker.obj
        BY <4>1, OwnSteps, GotoMoves DEF Moves
      <4> QED
        BY <1>1, <4>2 DEF StepsJustified, CommonStepsJustified, Steps
    <3>2. CASE ~ok
      BY <2>1, <3>2, OwnSteps, ReturnMoves, IdleJustified DEF Moves
    <3> QED
      BY <3>1, <3>2
  <2> QED
    BY <1>1, <2>2, <2>3, <2>5, <2>6, WorkerStepKeeps
<1> QED
  BY <1>2, <1>3 DEF FinalizerStep

-----------------------------------------------------------------------------
(* The common steps, the informers and the others *)

(* The common steps of the worker leave the three resources alone. *)
LEMMA LifecycleStepKeeps == IInv /\ LifecycleStep /\ UNCHANGED childVars => IInv'
<1> SUFFICES ASSUME IInv, LifecycleStep, UNCHANGED childVars PROVE IInv'
  OBVIOUS
<1>1. Half /\ StepsJustified
  BY Halves
<1>2. Half' /\ LifecycleOutcome(Steps)
  BY <1>1, LifecycleKeeps DEF Half
<1>3. CommonStepsJustified'
  BY <1>2 DEF Half, ReconcilerInv
<1>4. StepsJustified'
  <2>1. CASE worker'.pc \in {"idle", "got"}
    BY <1>3, <2>1 DEF StepsJustified, Steps
  <2>2. CASE worker.pc = "status" /\ worker.next \in Steps \cup {"deleteCR"}
    BY <1>1, <2>2 DEF StepsJustified, Steps
  <2>3. CASE worker.pc = "deleteCR" /\ worker'.pc = "removeFinalizer" /\ worker'.obj = worker.obj
    BY <1>3, <2>3 DEF StepsJustified, Steps
  <2> QED
    BY <1>2, <2>1, <2>2, <2>3 DEF LifecycleOutcome
<1> QED
  BY <1>2, <1>4, ChildrenStay, HalvesNext

(* What leaves the common half alone keeps it. *)
LEMMA ElsewhereHalf ==
  ASSUME IInv, UNCHANGED <<resource, cache, holders, event, worker, dropped, ops, faults>>, queued' \in BOOLEAN
  PROVE  Half' /\ worker' = worker
<1>1. Half /\ ReconcilerTypes(StatementChoices, Steps, {}) /\ ops \in Nat
  BY Halves, OwnSteps, FieldTypes
<1>2. ops' \in 0..MaxOps /\ ops <= ops' /\ event' \in BOOLEAN /\ faults' \in 0..MaxFaults
  BY <1>1 DEF ReconcilerTypes
<1> QED
  BY <1>1, <1>2, ElsewhereKeeps DEF Half

(* An informer brings a copy up to date. *)
LEMMA ChildSyncKeeps ==
  ASSUME IInv, NEW kind \in Kinds, ChildSync(kind)
  PROVE  IInv'
<1>1. ChildTypes /\ ChildrenJustified /\ ReconcilerTypes(StatementChoices, Steps, {})
  BY Halves, OwnSteps
<1>2. /\ seen' = [seen EXCEPT ![kind] = children[kind]] /\ news' = news \ {kind}
      /\ queued' = (queued \/ kind \in news)
      /\ UNCHANGED <<resource, cache, holders, event, worker, dropped, ops, faults>>
      /\ children' = children /\ deeds' = deeds
  BY DEF ChildSync
<1>3. queued' \in BOOLEAN
  BY <1>2
<1>4. ChildTypes'
  BY <1>1, <1>2 DEF ChildTypes
<1>5. ChildrenJustified'
  BY <1>1, <1>2 DEF ChildrenJustified, ChildTypes, Kinds
<1> QED
  BY <1>2, <1>3, <1>4, <1>5, ElsewhereHalf, OthersKeep

(* The informers and the process. *)
LEMMA InformerStepKeeps == IInv /\ InformerStep => IInv'
<1> SUFFICES ASSUME IInv, InformerStep PROVE IInv'
  OBVIOUS
<1>1. Half /\ ChildTypes /\ ChildrenJustified
  BY Halves
<1>2. CASE CacheSync /\ UNCHANGED childVars
  <2>1. Half' /\ worker' = worker
    BY <1>1, <1>2, CacheSyncKeeps DEF Half, CacheSync
  <2> QED
    BY <1>2, <2>1, ChildrenStay, OthersKeep
<1>3. CASE Enqueue /\ UNCHANGED childVars
  <2>1. Half' /\ worker' = worker
    BY <1>1, <1>3, EnqueueKeeps DEF Half, Enqueue
  <2> QED
    BY <1>3, <2>1, ChildrenStay, OthersKeep
<1>4. CASE CrashAndRestart
  <2>1. Crash /\ seen' = children /\ news' = {} /\ children' = children /\ deeds' = deeds
    BY <1>4 DEF CrashAndRestart
  <2>2. faults' \in 0..MaxFaults /\ Restart
    BY <2>1, OwnSteps, FaultType DEF Crash
  <2>3. Half' /\ worker' = Idle
    BY <1>1, <2>2, RestartKeeps DEF Half, Restart
  <2>4. ChildTypes' /\ ChildrenJustified'
    BY <1>1, <2>1 DEF ChildTypes, ChildrenJustified
  <2> QED
    BY <2>3, <2>4, OthersKeep
<1>5. ASSUME NEW kind \in Kinds, ChildSync(kind) PROVE IInv'
  BY <1>5, ChildSyncKeeps
<1> QED
  BY <1>2, <1>3, <1>4, <1>5 DEF InformerStep

(* Somebody else changes one of the three resources. *)
LEMMA SomebodyChanges ==
  ASSUME IInv, NEW kind \in Kinds, NEW child \in Children, Become(kind, child), seen' = seen,
         deeds \subseteq deeds', deeds' \subseteq {"made", "removed"}, ~child.exists => child = NoChild,
         Owned(child) => Owned(children[kind]),
         UNCHANGED reconcilerVars \/ ActElsewhere
  PROVE  IInv'
<1>1. ChildTypes' /\ ChildrenJustified'
  BY BecomeKeeps
<1>2. Half' /\ worker' = worker
  <2>1. CASE UNCHANGED reconcilerVars
    <3>1. queued \in BOOLEAN
      BY OwnSteps DEF ReconcilerTypes
    <3> QED
      BY <2>1, <3>1, ElsewhereHalf DEF reconcilerVars
  <2>2. CASE ActElsewhere
    BY <2>2, Halves, ActElsewhereKeeps DEF Half
  <2> QED
    BY <2>1, <2>2
<1> QED
  BY <1>1, <1>2, OthersKeep

(* A resource keeps its type when it gets its ARN, becomes deleting,       *)
(* "created" or not.                                                       *)
LEMMA EditedChild ==
  ASSUME NEW c \in Children, c.exists
  PROVE  /\ [c EXCEPT !.arn = "arn"] \in Children
         /\ [c EXCEPT !.arn = "arn"].exists
         /\ [c EXCEPT !.arn = "arn"].owner = c.owner
         /\ \A ok \in BOOLEAN :
              /\ [c EXCEPT !.ok = ok] \in Children
              /\ [c EXCEPT !.ok = ok].exists
              /\ [c EXCEPT !.ok = ok].owner = c.owner
         /\ [c EXCEPT !.deleting = TRUE] \in Children
         /\ [c EXCEPT !.deleting = TRUE].exists
         /\ [c EXCEPT !.deleting = TRUE].owner = c.owner
  BY DEF Children

(* A deleted one is gone, or keeps its owner. *)
LEMMA DeletedChild ==
  ASSUME NEW kind \in Kinds, NEW c \in Children, c.exists, NEW d \in Deletions(kind, c)
  PROVE  d \in Children /\ (~d.exists => d = NoChild) /\ (Owned(d) => Owned(c))
<1>1. CASE d = NoChild
  BY <1>1, NoChildType
<1>2. CASE d # NoChild
  BY <1>2, EditedChild DEF Deletions, Owned
<1> QED
  BY <1>1, <1>2

(* The controllers of the Policy and of the Role. *)
LEMMA ControllerStepKeeps == IInv /\ ControllerStep => IInv'
<1> SUFFICES ASSUME IInv, NEW kind \in {"policy", "role"},
                    RecordArn(kind) \/ ReportOk(kind) \/ Falter(kind) \/ Release(kind)
             PROVE  IInv'
  BY DEF ControllerStep
<1>1. /\ kind \in Kinds /\ children[kind] \in Children /\ deeds \subseteq {"made", "removed"}
      /\ ~children[kind].exists => children[kind] = NoChild
  BY Halves DEF ChildTypes, ChildrenJustified, Kinds
<1>2. CASE Release(kind)
  BY <1>1, <1>2, NoChildType, SomebodyChanges DEF Release, Elsewhere
<1>3. CASE RecordArn(kind)
  <2> DEFINE new == [children[kind] EXCEPT !.arn = "arn"]
  <2>1. /\ Become(kind, new) /\ seen' = seen /\ deeds' = deeds /\ UNCHANGED reconcilerVars
        /\ children[kind].exists
    BY <1>3 DEF RecordArn, Elsewhere, InPlace
  <2>2. new \in Children /\ new.exists /\ new.owner = children[kind].owner
    BY <1>1, <2>1, EditedChild
  <2> HIDE DEF new
  <2> QED
    BY <1>1, <2>1, <2>2, SomebodyChanges DEF Owned
<1>4. CASE ReportOk(kind)
  <2> DEFINE new == [children[kind] EXCEPT !.ok = TRUE]
  <2>1. /\ Become(kind, new) /\ seen' = seen /\ deeds' = deeds /\ UNCHANGED reconcilerVars
        /\ children[kind].exists
    BY <1>4 DEF ReportOk, Elsewhere, InPlace
  <2>2. new \in Children /\ new.exists /\ new.owner = children[kind].owner
    BY <1>1, <2>1, EditedChild
  <2> HIDE DEF new
  <2> QED
    BY <1>1, <2>1, <2>2, SomebodyChanges DEF Owned
<1>5. CASE Falter(kind)
  <2> DEFINE new == [children[kind] EXCEPT !.ok = FALSE]
  <2>1. /\ Become(kind, new) /\ seen' = seen /\ deeds' = deeds /\ ActElsewhere
        /\ children[kind].ok
    BY <1>5 DEF Falter
  <2>2. children[kind].exists
    BY <1>1, <2>1, NoChildType
  <2>3. new \in Children /\ new.exists /\ new.owner = children[kind].owner
    BY <1>1, <2>2, EditedChild
  <2> HIDE DEF new
  <2> QED
    BY <1>1, <2>1, <2>3, SomebodyChanges DEF Owned
<1> QED
  BY <1>2, <1>3, <1>4, <1>5

(* The garbage collector. *)
LEMMA CollectorStepKeeps == IInv /\ CollectorStep => IInv'
<1> SUFFICES ASSUME IInv, NEW kind \in Kinds, Collect(kind) PROVE IInv'
  BY DEF CollectorStep
<1>1. children[kind] \in Children /\ deeds \subseteq {"made", "removed"} /\ children[kind].exists
  BY Halves DEF ChildTypes, Collect, InPlace
<1>2. PICK new \in Deletions(kind, children[kind]) :
        Become(kind, new) /\ seen' = seen /\ deeds' = deeds /\ UNCHANGED reconcilerVars
  BY DEF Collect, Elsewhere
<1>3. new \in Children /\ (~new.exists => new = NoChild) /\ (Owned(new) => Owned(children[kind]))
  BY <1>1, DeletedChild
<1> QED
  BY <1>1, <1>2, <1>3, SomebodyChanges

(* The users. *)
LEMMA UserStepKeeps == IInv /\ UserStep => IInv'
<1> SUFFICES ASSUME IInv, UserStep PROVE IInv'
  OBVIOUS
<1>1. Half /\ ChildTypes /\ ChildrenJustified
  BY Halves
<1>2. ASSUME NEW s \in StatementChoices, CreateResource(s) \/ ChangeSpec(s), UNCHANGED childVars
      PROVE  IInv'
  <2>1. Half' /\ worker' = worker
    BY <1>1, <1>2, CreateResourceKeeps, ChangeSpecKeeps DEF Half
  <2> QED
    BY <1>2, <2>1, ChildrenStay, OthersKeep
<1>3. CASE RequestDeletion /\ UNCHANGED childVars
  <2>1. Half' /\ worker' = worker
    BY <1>1, <1>3, RequestDeletionKeeps DEF Half
  <2> QED
    BY <1>3, <2>1, ChildrenStay, OthersKeep
<1>4. ASSUME NEW kind \in Kinds, DeleteChild(kind) PROVE IInv'
  <2>1. /\ children[kind] \in Children /\ children[kind].exists /\ ActElsewhere /\ seen' = seen
        /\ deeds \subseteq deeds' /\ deeds' \subseteq {"made", "removed"}
    BY <1>1, <1>4 DEF ChildTypes, DeleteChild, InPlace
  <2>2. PICK new \in Deletions(kind, children[kind]) : Become(kind, new)
    BY <1>4 DEF DeleteChild
  <2>3. new \in Children /\ (~new.exists => new = NoChild) /\ (Owned(new) => Owned(children[kind]))
    BY <2>1, DeletedChild
  <2> QED
    BY <2>1, <2>2, <2>3, SomebodyChanges
<1>5. CASE CreateForeignSa
  <2>1. /\ ActElsewhere /\ Become("sa", ForeignServiceAccount) /\ seen' = seen /\ deeds' = deeds
        /\ deeds \subseteq {"made", "removed"} /\ "sa" \in Kinds
    BY <1>1, <1>5 DEF CreateForeignSa, ChildTypes, Kinds
  <2>2. /\ ForeignServiceAccount \in Children /\ ForeignServiceAccount.exists
        /\ ~Owned(ForeignServiceAccount)
    BY NoChildType DEF ForeignServiceAccount, Children, NoChild, Owned
  <2> QED
    BY <2>1, <2>2, SomebodyChanges
<1> QED
  BY <1>2, <1>3, <1>4, <1>5 DEF UserStep

-----------------------------------------------------------------------------
(* The inductive invariant *)

(* Nothing exists at the start. *)
LEMMA InitIInv == Init => IInv
<1> SUFFICES ASSUME Init PROVE IInv
  OBVIOUS
<1>1. /\ InitReconciler /\ children = [kind \in Kinds |-> NoChild] /\ seen = children
      /\ news = {} /\ deeds = {}
  BY DEF Init
<1>2. Steps \cap CommonSteps = {}
  BY DEF Steps, CommonSteps
<1>3. Half
  BY <1>1, <1>2, InitKeeps DEF Half
<1>4. ChildTypes /\ ChildrenJustified
  BY <1>1, NoChildType DEF ChildTypes, ChildrenJustified, Kinds
<1>5. worker.pc = "idle"
  BY <1>1 DEF InitReconciler, Idle
<1>6. StepsJustified
  BY <1>5 DEF StepsJustified, CommonStepsJustified, Steps
<1> QED
  BY <1>3, <1>4, <1>6, Halves

(* A stuttering step changes nothing. *)
LEMMA StutterKeeps == IInv /\ UNCHANGED vars => IInv'
<1> SUFFICES ASSUME IInv, UNCHANGED vars PROVE IInv'
  OBVIOUS
<1>1. UNCHANGED reconcilerVars /\ UNCHANGED childVars
  BY DEF vars
<1>2. queued \in BOOLEAN
  BY OwnSteps DEF ReconcilerTypes
<1>3. Half' /\ worker' = worker
  BY <1>1, <1>2, ElsewhereHalf DEF reconcilerVars
<1> QED
  BY <1>1, <1>3, ChildrenStay, OthersKeep

(* Every action keeps the inductive invariant. *)
LEMMA NextKeeps == IInv /\ Next => IInv'
  BY LifecycleStepKeeps, RoutineStepKeeps, FinalizerStepKeeps, InformerStepKeeps,
     ControllerStepKeeps, CollectorStepKeeps, UserStepKeeps DEF Next, ReconcilerStep

(***************************************************************************)
(* IInv holds in every reachable state: the copies of the                  *)
(* IamRoleServiceAccount are late but never wrong about the incarnation,   *)
(* its finalizer and its deletion; the routine runs on copies that had the *)
(* finalizer; and only the operator owns service accounts.                 *)
(***************************************************************************)
THEOREM Invariance == Spec => []IInv
<1>1. IInv /\ [Next]_vars => IInv'
  BY NextKeeps, StutterKeeps
<1> QED
  BY <1>1, InitIInv, PTL DEF Spec

(* Every variable of the IamRoleServiceAccount reconciler keeps its type. *)
THEOREM TypeCorrect == Spec => []TypeOK
<1>1. IInv => TypeOK
  BY DEF IInv
<1> QED
  BY <1>1, Invariance, PTL

-----------------------------------------------------------------------------
(* The action properties *)

(* Becoming the same as before, or something else. *)
LEMMA BecomeOne ==
  ASSUME IInv, NEW k \in Kinds, NEW child, Become(k, child), NEW kind \in Kinds
  PROVE  children'[kind] = IF kind = k THEN child ELSE children[kind]
<1>1. children \in [Kinds -> Children]
  BY Halves DEF ChildTypes
<1> QED
  BY <1>1 DEF Become

(* All that may happen to one of the three resources. *)
Made(kind) ==
    /\ ~children[kind].exists
    /\ Busy /\ Registered(worker.obj)
    /\ children'[kind].owner = worker.obj.uid

Edited(kind) ==
    /\ children[kind].exists /\ children'[kind].exists
    /\ kind = "policy" /\ children[kind].arn # "" => children'[kind].arn = children[kind].arn

Gone(kind) ==
    /\ children'[kind] = NoChild
    /\ kind = "sa" => Owned(children["sa"]) \/ Owned(seen["sa"]) \/ DeleteChild("sa")

Fate(kind) ==
    \/ children'[kind] = children[kind]
    \/ Made(kind) \/ Edited(kind) \/ Gone(kind)
    \/ kind = "sa" /\ children'[kind] = ForeignServiceAccount

(* The worker creates what is not there, and updates the latest Policy. *)
LEMMA RoutineFate ==
  ASSUME IInv, RoutineStep, NEW kind \in Kinds
  PROVE  Fate(kind)
<1>1. ASSUME NEW k \in Kinds, NEW child, Create(k, child), child.owner = worker.obj.uid,
             AtRoutine \/ worker.pc \in Steps
      PROVE  Fate(kind)
  <2>1. PICK applied \in BOOLEAN, ok \in BOOLEAN :
          /\ Call("api", ~children[k].exists, applied, ok)
          /\ Become(k, IF applied THEN child ELSE children[k])
    BY <1>1 DEF Create
  <2>2. applied => ~children[k].exists
    BY <2>1 DEF Call
  <2>3. Busy /\ Registered(worker.obj)
    BY <1>1, RoutineCopy
  <2>4. children'[kind] = IF kind = k THEN (IF applied THEN child ELSE children[k]) ELSE children[kind]
    BY <2>1, BecomeOne
  <2> QED
    BY <1>1, <2>2, <2>3, <2>4 DEF Fate, Made
<1>2. AtRoutine \/ worker.pc \in Steps =>
        /\ NewPolicy(worker.obj).owner = worker.obj.uid
        /\ NewRole(worker.obj).owner = worker.obj.uid
        /\ \A arn : NewServiceAccount(worker.obj, arn).owner = worker.obj.uid
  BY DEF NewPolicy, NewRole, NewServiceAccount, NoChild
<1>3. CASE CreatePolicy
  BY <1>1, <1>2, <1>3 DEF CreatePolicy, Kinds
<1>4. CASE CreateRole
  BY <1>1, <1>2, <1>4 DEF CreateRole, Kinds, Steps
<1>5. CASE CreateServiceAccount
  BY <1>1, <1>2, <1>5 DEF CreateServiceAccount, Kinds, Steps
<1>6. CASE UpdatePolicyIfNeeded
  <2> DEFINE sent == [children["policy"] EXCEPT !.statement = worker.obj.spec,
                                                !.arn = seen["policy"].arn]
  <2>1. PICK applied \in BOOLEAN, ok \in BOOLEAN :
          /\ Call("api", SameVersion, applied, ok)
          /\ Become("policy", IF applied THEN sent ELSE children["policy"])
    BY <1>6 DEF UpdatePolicyIfNeeded
  <2>2. applied => SameVersion
    BY <2>1 DEF Call
  <2>3. children["policy"] \in Children
    BY Halves DEF ChildTypes, Kinds
  <2>4. applied => /\ children["policy"].exists /\ sent.exists
                   /\ sent.arn = children["policy"].arn
    BY <1>6, <2>2, <2>3 DEF UpdatePolicyIfNeeded, SameVersion, Children
  <2> HIDE DEF sent
  <2>5. children'[kind] = IF kind = "policy" THEN (IF applied THEN sent ELSE children["policy"])
                                             ELSE children[kind]
    BY <2>1, BecomeOne DEF Kinds
  <2> QED
    BY <2>4, <2>5 DEF Fate, Edited
<1>7. CASE UNCHANGED childVars
  BY <1>7 DEF childVars, Fate
<1> QED
  BY <1>3, <1>4, <1>5, <1>6, <1>7 DEF RoutineStep, AdmissionStep, PolicyAlreadyExists,
     PolicyVanished, RoleAlreadyExists, SaAlreadyExists, SaMissing, RoleNotReady, Proceed, Leave

(* A deletion leaves nothing, or a resource that is deleting. *)
LEMMA DeletionFate ==
  ASSUME IInv, NEW k \in Kinds, children[k].exists,
         NEW new \in Deletions(k, children[k]), Become(k, new),
         k = "sa" => Owned(children["sa"]) \/ DeleteChild("sa"), NEW kind \in Kinds
  PROVE  Fate(kind)
<1>1. children[k] \in Children
  BY Halves DEF ChildTypes
<1>2. children'[kind] = IF kind = k THEN new ELSE children[kind]
  BY BecomeOne
<1>3. CASE new = NoChild
  BY <1>2, <1>3 DEF Fate, Gone
<1>4. CASE new # NoChild
  <2>1. new = [children[k] EXCEPT !.deleting = TRUE]
    BY <1>4 DEF Deletions
  <2>2. new.exists /\ new.arn = children[k].arn
    BY <1>1, <2>1 DEF Children
  <2> QED
    BY <1>2, <2>2 DEF Fate, Edited
<1> QED
  BY <1>3, <1>4

(* The others edit what exists, and remove what is theirs or orphaned. *)
LEMMA OthersFate ==
  ASSUME IInv, ControllerStep \/ CollectorStep \/ UserStep, NEW kind \in Kinds
  PROVE  Fate(kind)
<1>1. ASSUME NEW k \in {"policy", "role"}, Falter(k) PROVE Fate(kind)
  <2> DEFINE new == [children[k] EXCEPT !.ok = FALSE]
  <2>1. children[k] \in Children /\ (~children[k].exists => children[k] = NoChild) /\ k \in Kinds
    BY Halves DEF ChildTypes, ChildrenJustified, Kinds
  <2>2. new.exists /\ new.arn = children[k].arn /\ children[k].exists
    BY <1>1, <2>1, NoChildType DEF Falter, Children
  <2>3. Become(k, new)
    BY <1>1 DEF Falter
  <2> HIDE DEF new
  <2>4. children'[kind] = IF kind = k THEN new ELSE children[kind]
    BY <2>1, <2>3, BecomeOne
  <2> QED
    BY <2>2, <2>4 DEF Fate, Edited
<1>2. ASSUME NEW k \in {"policy", "role"}, RecordArn(k) PROVE Fate(kind)
  <2> DEFINE new == [children[k] EXCEPT !.arn = "arn"]
  <2>1. children[k] \in Children /\ k \in Kinds
    BY Halves DEF ChildTypes, Kinds
  <2>2. new.exists /\ children[k].exists /\ new.arn = "arn" /\ children[k].arn = ""
    BY <1>2, <2>1 DEF RecordArn, InPlace, Children
  <2>3. Become(k, new)
    BY <1>2 DEF RecordArn
  <2> HIDE DEF new
  <2>4. children'[kind] = IF kind = k THEN new ELSE children[kind]
    BY <2>1, <2>3, BecomeOne
  <2> QED
    BY <2>2, <2>4 DEF Fate, Edited
<1>3. ASSUME NEW k \in {"policy", "role"}, ReportOk(k) PROVE Fate(kind)
  <2> DEFINE new == [children[k] EXCEPT !.ok = TRUE]
  <2>1. children[k] \in Children /\ k \in Kinds
    BY Halves DEF ChildTypes, Kinds
  <2>2. new.exists /\ children[k].exists /\ new.arn = children[k].arn
    BY <1>3, <2>1 DEF ReportOk, InPlace, Children
  <2>3. Become(k, new)
    BY <1>3 DEF ReportOk
  <2> HIDE DEF new
  <2>4. children'[kind] = IF kind = k THEN new ELSE children[kind]
    BY <2>1, <2>3, BecomeOne
  <2> QED
    BY <2>2, <2>4 DEF Fate, Edited
<1>4. ASSUME NEW k \in {"policy", "role"}, Release(k) PROVE Fate(kind)
  <2>1. children'[kind] = IF kind = k THEN NoChild ELSE children[kind]
    BY <1>4, BecomeOne DEF Release, Kinds
  <2> QED
    BY <2>1 DEF Fate, Gone
<1>5. ASSUME NEW k \in Kinds, Collect(k) PROVE Fate(kind)
  BY <1>5, DeletionFate DEF Collect, OwnerGone, InPlace
<1>6. ASSUME NEW k \in Kinds, DeleteChild(k) PROVE Fate(kind)
  BY <1>6, DeletionFate DEF DeleteChild, InPlace
<1>7. CASE CreateForeignSa
  <2>1. children'[kind] = IF kind = "sa" THEN ForeignServiceAccount ELSE children[kind]
    BY <1>7, BecomeOne DEF CreateForeignSa, Kinds
  <2> QED
    BY <2>1 DEF Fate
<1>8. CASE UNCHANGED childVars
  BY <1>8 DEF childVars, Fate
<1> QED
  BY <1>1, <1>2, <1>3, <1>4, <1>5, <1>6, <1>7, <1>8 DEF ControllerStep, CollectorStep, UserStep

(* These are all the fates. *)
LEMMA EveryFate ==
  ASSUME IInv, [Next]_vars, NEW kind \in Kinds
  PROVE  Fate(kind)
<1>1. CASE children' = children
  BY <1>1 DEF Fate
<1>2. CASE DeleteSa
  <2>1. PICK applied \in BOOLEAN : Become("sa", IF applied THEN NoChild ELSE children["sa"])
    BY <1>2 DEF DeleteSa
  <2>2. children'[kind] = IF kind = "sa" THEN (IF applied THEN NoChild ELSE children["sa"])
                                         ELSE children[kind]
    BY <2>1, BecomeOne DEF Kinds
  <2>3. Owned(seen["sa"])
    <3>1. seen["sa"].owner = worker.obj.uid /\ worker.obj.exists /\ Half
      BY <1>2, OwnSteps, Halves DEF DeleteSa, AtFinalizer, SaOwned
    <3>2. worker.obj \in StoredResources(StatementChoices)
      BY <3>1, OwnSteps, StoredExists
    <3>3. worker.obj.uid \in 1..MaxOps
      BY <3>2 DEF StoredResources
    <3>4. worker.obj.uid # 0
      BY <3>3, OpsAssumption
    <3> QED
      BY <3>1, <3>4 DEF Owned
  <2> QED
    BY <2>2, <2>3 DEF Fate, Gone
<1>3. CASE InformerStep
  <2>1. children' = children
    BY <1>3 DEF InformerStep, ChildSync, CrashAndRestart, childVars
  <2> QED
    BY <1>1, <2>1
<1>4. CASE SaNotOurs \/ UNCHANGED childVars \/ UNCHANGED vars
  <2>1. children' = children
    BY <1>4 DEF SaNotOurs, Proceed, childVars, vars
  <2> QED
    BY <1>1, <2>1
<1> QED
  BY <1>2, <1>3, <1>4, RoutineFate, OthersFate DEF Next, ReconcilerStep, FinalizerStep

(***************************************************************************)
(* What the reconciler creates belongs to a resource that is stored at     *)
(* that moment with its finalizer, although the worker decides on a cached *)
(* copy.                                                                   *)
(***************************************************************************)
THEOREM NothingIsOrphaned == Spec => NoOrphans
<1>1. ASSUME IInv, [Next]_vars, NEW kind \in Kinds, ~children[kind].exists, Owned(children'[kind])
      PROVE  resource.exists /\ resource.finalizer /\ resource.uid = children'[kind].owner
  <2>1. children[kind] = NoChild
    BY <1>1 DEF IInv, ChildrenJustified
  <2>2. ~Owned(children[kind]) /\ ~Owned(NoChild) /\ ~Owned(ForeignServiceAccount)
    BY <2>1, NoChildType DEF ForeignServiceAccount, NoChild, Owned
  <2>3. Made(kind)
    BY <1>1, <2>2, EveryFate DEF Fate, Gone, Edited
  <2> QED
    BY <1>1, <2>3 DEF Made, Registered, IInv, CopiesInv, CopiesTruthful, FinalizerStays
<1>2. IInv /\ [Next]_vars =>
        [\A kind \in Kinds : ~children[kind].exists /\ Owned(children'[kind]) =>
            resource.exists /\ resource.finalizer /\ resource.uid = children'[kind].owner]_vars
  BY <1>1
<1> QED
  BY <1>2, Invariance, PTL DEF Spec, NoOrphans

(***************************************************************************)
(* The update of the Policy never takes back the ARN that the Policy       *)
(* reconciler has recorded.                                                *)
(***************************************************************************)
THEOREM ArnIsKept == Spec => ArnKept
<1>1. ASSUME IInv, [Next]_vars, children["policy"].arn # "", children'["policy"].exists
      PROVE  children'["policy"].arn # ""
  <2>1. children["policy"].exists /\ "policy" \in Kinds
    BY <1>1, NoChildType DEF IInv, ChildrenJustified, Kinds
  <2>2. children'["policy"] = children["policy"] \/ Edited("policy")
    BY <1>1, <2>1, EveryFate, NoChildType DEF Fate, Made, Gone
  <2> QED
    BY <1>1, <2>2 DEF Edited
<1>2. IInv /\ [Next]_vars =>
        [children["policy"].arn # "" /\ children'["policy"].exists => children'["policy"].arn # ""]_vars
  BY <1>1
<1> QED
  BY <1>2, Invariance, PTL DEF Spec, ArnKept

(***************************************************************************)
(* The operator deletes no service account of somebody else, unless it has *)
(* made one of the name before.                                            *)
(***************************************************************************)
THEOREM ForeignIsSpared == Spec => ForeignSaSpared
<1>1. ASSUME IInv, [Next]_vars, children["sa"] = ForeignServiceAccount, ~children'["sa"].exists,
             "made" \notin deeds
      PROVE  DeleteChild("sa")
  <2>1. /\ ~Owned(children["sa"]) /\ ~Owned(seen["sa"]) /\ children["sa"].exists /\ "sa" \in Kinds
    BY <1>1 DEF IInv, ChildrenJustified, ForeignServiceAccount, NoChild, Kinds
  <2>2. Gone("sa")
    BY <1>1, <2>1, EveryFate DEF Fate, Made, Edited
  <2> QED
    BY <2>1, <2>2 DEF Gone
<1>2. IInv /\ [Next]_vars =>
        [children["sa"] = ForeignServiceAccount /\ ~children'["sa"].exists /\ "made" \notin deeds =>
            DeleteChild("sa")]_vars
  BY <1>1
<1> QED
  BY <1>2, Invariance, PTL DEF Spec, ForeignSaSpared

=============================================================================
