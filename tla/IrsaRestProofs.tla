---------------------------- MODULE IrsaRestProofs ----------------------------
(***************************************************************************)
(* What is true of an IamRoleServiceAccount when nothing is left to do:    *)
(* nothing was forgotten on the way.                                       *)
(*                                                                         *)
(* As in PolicyRestProofs, a late worker will be followed by another one,  *)
(* and the status that ends a reconciliation is news.  Beyond that, a      *)
(* reconciliation ends in the middle of its routine, and counts on the     *)
(* news of the Policy, the Role and the service account to bring it back:  *)
(* so the invariant says that a cache without news shows what is there.    *)
(* Every report of this reconciler is tried again when it fails, and       *)
(* nothing is assumed about the failures.                                  *)
(***************************************************************************)
EXTENDS IrsaControllerProofs

-----------------------------------------------------------------------------
(* The news of the three resources *)

(* A step is told when every change of what the operator owns is news, and *)
(* the disappearance of another's service account is remembered.           *)
Told ==
    /\ CachesTold' /\ news \subseteq news' /\ deeds \subseteq deeds'
    /\ \A kind \in {"policy", "role"} : children'[kind] = children[kind] \/ kind \in news'
    /\ \/ children'["sa"] = children["sa"] \/ "sa" \in news' \/ "removed" \in deeds'
       \/ children'["sa"].exists /\ ~Owned(children'["sa"])

(* When none of the three changes. *)
LEMMA SilenceIsTold ==
  ASSUME CachesTold, UNCHANGED childVars
  PROVE  Told
  BY DEF Told, CachesTold, childVars

(* When one of them does: a service account of nobody's that changes has   *)
(* come, or its removal is remembered, or its cache is behind.             *)
LEMMA BecomeIsTold ==
  ASSUME IInv, CachesTold, NEW kind \in Kinds, NEW child \in Children, Become(kind, child),
         seen' = seen, deeds \subseteq deeds', ~child.exists => child = NoChild,
         kind # "sa" /\ child.exists => Owned(child),
         kind = "sa" /\ child # children["sa"] =>
            \/ Owned(child) \/ Owned(children["sa"]) \/ "sa" \in news \/ "removed" \in deeds'
            \/ child.exists
  PROVE  Told
<1>1. /\ ChildTypes /\ ChildrenJustified
      /\ "sa" \in Kinds /\ "policy" \in Kinds /\ "role" \in Kinds
  BY Halves DEF Kinds
<1>2. /\ children'[kind] = child /\ \A k \in Kinds \ {kind} : children'[k] = children[k]
      /\ news' = IF child # children[kind] /\ (Owned(child) \/ Owned(children[kind]))
                   THEN news \cup {kind} ELSE news
  BY <1>1, BecomeChanges DEF Become
<1>3. news \subseteq news'
  BY <1>2
<1>4. child = children[kind] \/ kind \in news' \/ (~Owned(child) /\ ~Owned(children[kind]))
  BY <1>2
<1>5. \A k \in Kinds \ news' :
        seen'[k] = children'[k] \/ (~Owned(seen'[k]) /\ ~Owned(children'[k]))
  <2> SUFFICES ASSUME NEW k \in Kinds, k \notin news'
               PROVE  seen[k] = children'[k] \/ (~Owned(seen[k]) /\ ~Owned(children'[k]))
    OBVIOUS
  <2>1. seen[k] = children[k] \/ (~Owned(seen[k]) /\ ~Owned(children[k]))
    BY <1>3 DEF CachesTold
  <2> QED
    BY <1>2, <1>4, <2>1
<1>6. ASSUME NEW k \in {"policy", "role"}
      PROVE  /\ children'[k].exists => Owned(children'[k])
             /\ children'[k] = children[k] \/ k \in news'
  <2>1. k # "sa" /\ k \in Kinds
    BY <1>1
  <2>2. children[k].exists => Owned(children[k])
    BY DEF CachesTold
  <2>3. CASE k # kind
    BY <1>2, <2>1, <2>2, <2>3
  <2>4. CASE k = kind
    <3>1. children'[k] = child /\ (child.exists => Owned(child))
      BY <1>2, <2>1, <2>4
    <3>2. ~Owned(child) /\ ~Owned(children[kind]) => child = children[kind]
      <4>1. ~Owned(children[kind]) => children[kind] = NoChild
        BY <1>1, <2>2, <2>4 DEF ChildrenJustified
      <4> QED
        BY <3>1, <4>1
    <3> QED
      BY <1>4, <2>4, <3>1, <3>2
  <2> QED
    BY <2>3, <2>4
<1>7. \/ children'["sa"] = children["sa"] \/ "sa" \in news' \/ "removed" \in deeds'
      \/ children'["sa"].exists /\ ~Owned(children'["sa"])
  <2>1. CASE kind = "sa"
    BY <1>2, <1>3, <1>4, <2>1
  <2>2. CASE kind # "sa"
    BY <1>1, <1>2, <2>2
  <2> QED
    BY <2>1, <2>2
<1>8. "sa" \notin news' /\ seen'["sa"].exists /\ ~children'["sa"].exists => "removed" \in deeds'
  BY <1>3, <1>7 DEF CachesTold
<1>9. \A k \in {"policy", "role"} : seen'[k].exists => Owned(seen'[k])
  BY DEF CachesTold
<1> QED
  BY <1>3, <1>5, <1>6, <1>7, <1>8, <1>9 DEF Told, CachesTold

(* When nothing stirs after a told step, the Policy and the Role are as    *)
(* they were, and of the service account, at most a foreign one has come.  *)
LEMMA StillChildren ==
  ASSUME Told, ~Awaiting'
  PROVE  /\ news = {} /\ news' = {}
         /\ children'["policy"] = children["policy"] /\ children'["role"] = children["role"]
         /\ "removed" \notin deeds' =>
              "removed" \notin deeds /\ (children'["sa"] = children["sa"] \/ Conflicts')
  BY DEF Told, Awaiting, Conflicts

(* What was settled still is, unless something stirs.                      *)
LEMMA SettledStays ==
  ASSUME IInv, Told, ~Awaiting', resource' = resource, Settled
  PROVE  Settled'
<1>1. /\ children'["policy"] = children["policy"] /\ children'["role"] = children["role"]
      /\ "removed" \notin deeds' =>
           "removed" \notin deeds /\ (children'["sa"] = children["sa"] \/ Conflicts')
  BY StillChildren
<1>2. PolicyIsWritten' /\ Alive(resource)' /\ children'["role"].exists
  BY <1>1 DEF Settled, PolicyIsWritten, Alive
<1>3. ASSUME ~Collectable', CanComplete' PROVE Completed'
  <2>1. children'["sa"] = children["sa"] /\ "removed" \notin deeds
    BY <1>1, <1>3 DEF CanComplete
  <2>2. ChildrenReady /\ ~Conflicts /\ Validate(resource)
    <3>1. ChildrenReady
      BY <1>1, <1>3 DEF CanComplete, ChildrenReady, InPlace
    <3>2. ~Conflicts
      BY <1>3, <2>1 DEF CanComplete, Conflicts, Owned
    <3>3. Validate(resource)
      BY <1>3 DEF CanComplete, Validate
    <3> QED
      BY <3>1, <3>2, <3>3
  <2>3. ~Collectable
    BY <1>1, <1>3, <2>1 DEF Collectable, OwnerGone, Owned, Kinds
  <2>4. Completed
    BY <2>1, <2>2, <2>3 DEF Settled, CanComplete
  <2> QED
    BY <2>1, <2>4 DEF Completed
<1> QED
  BY <1>2, <1>3 DEF Settled

-----------------------------------------------------------------------------
(* The worker's steps *)

(* The worker moves on, without touching the resource.  When nothing       *)
(* stirs, its copy is the stored resource, and what it passes is there.    *)
QuietStep ==
    /\ Busy /\ UnchangedCluster /\ Moves /\ (queued => queued') /\ Told
    /\ ~Awaiting /\ ~Awaiting' /\ worker.obj = resource => StepsPassed' /\ Rests'

(* Then nothing is forgotten by it. *)
LEMMA QuietStepRemembers ==
  ASSUME IInv, NothingForgotten, QuietStep
  PROVE  NothingForgotten'
<1>1. /\ ReconcilerInv(StatementChoices, Steps, {}) /\ LateIsWoken /\ Busy
      /\ MovesOn(StatementChoices, Steps, {}) /\ UnchangedCluster /\ (queued => queued')
      /\ CachesTold' /\ ~dropped /\ ~dropped'
  BY Halves DEF Half, NothingForgotten, QuietStep, Moves, Told, UnchangedCluster
<1>2. LateIsWoken' /\ KeepsStirring
  BY <1>1, MovingWakes
<1>3. StepsPassed' /\ Rests'
  <2>1. CASE Awaiting'
    BY <2>1 DEF StepsPassed, Rests
  <2>2. CASE ~Awaiting'
    <3>1. ~Stirring /\ worker.obj = resource
      BY <1>1, <1>2, <2>2, StillWorkerHolds DEF Awaiting
    <3>2. news = {}
      BY <2>2, StillChildren DEF QuietStep
    <3> QED
      BY <2>2, <3>1, <3>2 DEF QuietStep, Awaiting
  <2> QED
    BY <2>1, <2>2
<1> QED
  BY <1>1, <1>2, <1>3 DEF NothingForgotten

(* A worker at a step that promises nothing. *)
LEMMA SilentStep ==
  ASSUME worker'.pc \notin {"idle", "checkRole", "checkSa", "createSa", "status"}
  PROVE  StepsPassed' /\ Rests'
  BY DEF StepsPassed, Rests, LastWord, Busy

(* Returning to be back is quiet, whatever was done. *)
LEMMA RetryIsQuiet ==
  ASSUME IInv, Busy, UnchangedCluster, Told, Return(TRUE)
  PROVE  QuietStep
<1>1. Moves /\ queued'
  BY OwnSteps, ReturnMoves DEF Moves, Return
<1> QED
  BY <1>1 DEF QuietStep, Awaiting, Stirring

(* So is returning for good when everything is settled. *)
LEMMA LeavingIsQuiet ==
  ASSUME IInv, NothingForgotten, Busy, UnchangedCluster, UNCHANGED childVars,
         NEW requeue \in BOOLEAN, Return(requeue),
         ~requeue /\ ~Awaiting /\ worker.obj = resource => Settled
  PROVE  QuietStep
<1>1. Told
  BY SilenceIsTold DEF NothingForgotten
<1>2. CASE requeue
  BY <1>1, <1>2, RetryIsQuiet
<1>3. CASE ~requeue
  <2>1. Moves /\ worker' = Idle /\ (queued => queued')
    BY <1>3, OwnSteps, ReturnMoves DEF Moves, Return
  <2>2. worker'.pc = "idle"
    BY <2>1, IdleType
  <2>3. StepsPassed'
    BY <2>2 DEF StepsPassed, LastWord
  <2>4. ASSUME ~Awaiting, ~Awaiting', worker.obj = resource PROVE Rests'
    <3>1. Settled /\ resource' = resource
      BY <1>3, <2>4 DEF UnchangedCluster
    <3> QED
      BY <1>1, <2>4, <3>1, SettledStays DEF Rests
  <2> QED
    BY <1>1, <2>1, <2>3, <2>4 DEF QuietStep
<1> QED
  BY <1>2, <1>3

(* Going on, when what is passed was found in the caches. *)
LEMMA ProceedIsQuiet ==
  ASSUME IInv, NothingForgotten, Busy, NEW pc \in (Steps \ {"checkRole"}) \cup {"deleteCR"},
         Proceed(pc),
         pc = "checkSa"  => worker.pc = "checkRole" /\ seen["role"].exists,
         pc = "createSa" => worker.pc = "checkSa"
  PROVE  QuietStep
<1>1. Goto(pc) /\ UnchangedCluster /\ UNCHANGED childVars
  BY DEF Proceed
<1>2. pc \in CommonSteps \cup Steps /\ pc \notin {"idle", "status", "checkRole"}
  BY DEF CommonSteps, Steps
<1>3. Moves /\ worker'.pc = pc /\ queued' = queued
  BY <1>1, <1>2, OwnSteps, GotoMoves DEF Moves, Goto
<1>4. Told
  BY <1>1, SilenceIsTold DEF NothingForgotten
<1>5. ASSUME ~Awaiting PROVE StepsPassed' /\ Rests'
  <2>1. UNCHANGED <<resource, children>>
    BY <1>1 DEF UnchangedCluster, childVars
  <2>2. pc \in {"checkSa", "createSa"} => PolicyIsWritten
    BY <1>5 DEF NothingForgotten, StepsPassed
  <2>3. pc = "createSa" => children["role"].exists
    BY <1>5 DEF NothingForgotten, StepsPassed
  <2>4. pc = "checkSa" => children["role"].exists
    <3>1. seen["role"] = children["role"] \/ ~Owned(seen["role"])
      BY <1>5 DEF NothingForgotten, CachesTold, Awaiting, Kinds
    <3> QED
      BY <3>1 DEF NothingForgotten, CachesTold
  <2>5. PolicyIsWritten => PolicyIsWritten'
    BY <2>1 DEF PolicyIsWritten
  <2> QED
    BY <1>2, <1>3, <2>1, <2>2, <2>3, <2>4, <2>5 DEF StepsPassed, Rests, LastWord, Busy
<1> QED
  BY <1>1, <1>3, <1>4, <1>5 DEF QuietStep

(* Reporting something new. *)
LEMMA ReportIsQuiet ==
  ASSUME IInv, NothingForgotten, Busy, UnchangedCluster, UNCHANGED childVars,
         NEW status \in Statuses, Report(status, "ifFailed"), status # worker.obj.status
  PROVE  QuietStep
<1>1. Moves /\ worker'.pc = "status" /\ worker'.status = status /\ queued' = queued
  BY OwnSteps, ReportMoves DEF Moves, Report
<1>2. Told
  BY SilenceIsTold DEF NothingForgotten
<1>3. resource' = resource
  BY DEF UnchangedCluster
<1>4. worker.obj = resource => StepsPassed' /\ Rests'
  BY <1>1, <1>3 DEF StepsPassed, Rests, LastWord, Busy
<1> QED
  BY <1>1, <1>2, <1>4 DEF QuietStep

(* A resource that the operator has created is news. *)
LEMMA CreateIsQuiet ==
  ASSUME IInv, NothingForgotten, Busy, NEW kind \in Kinds, NEW child \in Children,
         child.exists, Owned(child), Create(kind, child)
  PROVE  QuietStep
<1> DEFINE new(applied) == IF applied THEN child ELSE children[kind]
<1>1. PICK applied \in BOOLEAN, ok \in BOOLEAN :
        /\ Call("api", ~children[kind].exists, applied, ok)
        /\ Become(kind, new(applied))
        /\ deeds' = IF applied /\ kind = "sa" THEN deeds \cup {"made"} ELSE deeds
        /\ Return(~ok)
  BY DEF Create
<1>2. UnchangedCluster /\ seen' = seen /\ CachesTold /\ deeds \subseteq deeds'
  BY <1>1 DEF Create, NothingForgotten
<1>3. children[kind] \in Children /\ (~children[kind].exists => children[kind] = NoChild)
  BY Halves DEF ChildTypes, ChildrenJustified
<1>4. ok => applied /\ ~children[kind].exists
  BY <1>1, <1>3 DEF Call, Children
<1>5. /\ new(applied) \in Children /\ (~new(applied).exists => new(applied) = NoChild)
      /\ kind # "sa" /\ new(applied).exists => Owned(new(applied))
      /\ new(applied) # children[kind] => Owned(new(applied))
  <2>1. kind # "sa" /\ children[kind].exists => Owned(children[kind])
    BY <1>2 DEF CachesTold, Kinds
  <2> QED
    BY <1>3, <2>1
<1>6. Told
  <2> HIDE DEF new
  <2> QED
    BY <1>1, <1>2, <1>5, BecomeIsTold
<1>7. CASE ~ok
  BY <1>1, <1>2, <1>6, <1>7, RetryIsQuiet
<1>8. CASE ok
  <2>1. kind \in news'
    <3>1. new(applied) = child /\ child # children[kind]
      BY <1>4, <1>8
    <3> QED
      BY <1>1, <3>1 DEF Become
  <2>2. Moves /\ (queued => queued')
    BY <1>1, OwnSteps, ReturnMoves DEF Moves, Return
  <2> QED
    BY <1>2, <1>6, <2>1, <2>2 DEF QuietStep, Awaiting
<1> QED
  BY <1>7, <1>8

-----------------------------------------------------------------------------
(* admissionStep and reconcilerRoutine *)

LEMMA AdmissionStepIsQuiet ==
  ASSUME IInv, NothingForgotten, AdmissionStep
  PROVE  QuietStep
<1>1. /\ Busy /\ UnchangedCluster /\ UNCHANGED childVars
      /\ worker.obj.status.condition = CrSubmitted
      /\ \E status \in {Failed("invalid"), Failed("conflict"), Progress("passed validation")} :
            Report(status, "ifFailed")
  BY DEF AdmissionStep, Busy
<1>2. \A status \in {Failed("invalid"), Failed("conflict"), Progress("passed validation")} :
        status \in Statuses /\ status.condition # CrSubmitted
  <2>1. "invalid" \in Reasons /\ "conflict" \in Reasons /\ "passed validation" \in Reasons
    BY DEF Reasons
  <2>2. /\ IrsaFailed \in Conditions /\ CrProgressing \in Conditions
        /\ IrsaFailed # CrSubmitted /\ CrProgressing # CrSubmitted
    BY DEF Conditions, IrsaFailed, CrProgressing, CrSubmitted
  <2>3. \A reason \in Reasons :
          /\ Failed(reason) \in Statuses /\ Failed(reason).condition # CrSubmitted
          /\ Progress(reason) \in Statuses /\ Progress(reason).condition # CrSubmitted
    BY <2>2 DEF Failed, Progress, NewStatus, Statuses
  <2> QED
    BY <2>1, <2>3
<1>3. PICK status \in {Failed("invalid"), Failed("conflict"), Progress("passed validation")} :
        Report(status, "ifFailed")
  BY <1>1
<1>4. status \in Statuses /\ status # worker.obj.status
  BY <1>1, <1>2
<1> QED
  BY <1>1, <1>3, <1>4, ReportIsQuiet

(* The status "created" is news for a copy that does not carry it. *)
LEMMA SaAlreadyExistsIsQuiet ==
  ASSUME IInv, NothingForgotten, SaAlreadyExists
  PROVE  QuietStep
<1>1. /\ worker.pc = "checkSa" /\ Busy /\ UnchangedCluster /\ UNCHANGED childVars
      /\ seen["sa"].exists
      /\ \/ NeedsOk(worker.obj) /\ Report(AllDone, "ifFailed")
         \/ ~NeedsOk(worker.obj) /\ Return(FALSE)
  BY DEF SaAlreadyExists, Busy
<1>2. CASE NeedsOk(worker.obj) /\ Report(AllDone, "ifFailed")
  <2>1. AllDone \in Statuses /\ AllDone.condition = CrOK
    BY StatusTypes DEF AllDone, NewStatus
  <2>2. AllDone # worker.obj.status
    BY <1>2, <2>1 DEF NeedsOk
  <2> QED
    BY <1>1, <1>2, <2>1, <2>2, ReportIsQuiet
<1>3. CASE ~NeedsOk(worker.obj) /\ Return(FALSE)
  <2>1. ASSUME ~Awaiting, worker.obj = resource PROVE Settled
    <3>1. Alive(resource) /\ resource.status.condition = CrOK
      <4>1. worker.pc \in Steps
        BY <1>1 DEF Steps
      <4> QED
        BY <1>3, <2>1, <4>1, OwnSteps, RoutineCopy DEF Alive, NeedsOk, Busy
    <3>2. PolicyIsWritten /\ children["role"].exists
      BY <1>1, <2>1 DEF NothingForgotten, StepsPassed
    <3>3. ASSUME ~Collectable, CanComplete PROVE Completed
      <4>1. children["sa"].exists
        BY <1>1, <2>1, <3>3 DEF NothingForgotten, CachesTold, Awaiting, CanComplete
      <4>2. Owned(children["sa"])
        BY <3>3, <4>1 DEF CanComplete, Conflicts
      <4>3. children["sa"].owner = resource.uid
        BY <3>3, <4>2 DEF Collectable, OwnerGone, Kinds
      <4> QED
        BY <3>1, <4>1, <4>3 DEF Completed
    <3> QED
      BY <3>1, <3>2, <3>3 DEF Settled
  <2> QED
    BY <1>1, <1>3, <2>1, LeavingIsQuiet
<1> QED
  BY <1>1, <1>2, <1>3

(* A reconciliation that waits for the others: what it waits for is not    *)
(* there, when its caches have no news.                                    *)
LEMMA WaitingIsQuiet ==
  ASSUME IInv, NothingForgotten, worker.pc \in {"checkSa", "createSa"}, Leave(FALSE),
         \/ ~RoleAndPolicyAreOk
         \/ seen["role"].exists /\ seen["role"].arn = ""
  PROVE  QuietStep
<1>1. /\ Busy /\ UnchangedCluster /\ UNCHANGED childVars /\ Return(FALSE) /\ worker.pc \in Steps
  BY DEF Leave, Busy, Steps
<1>2. ASSUME ~Awaiting, worker.obj = resource PROVE Settled
  <2>1. Alive(resource)
    BY <1>1, <1>2, OwnSteps, RoutineCopy DEF Alive
  <2>2. PolicyIsWritten /\ children["role"].exists
    BY <1>2 DEF NothingForgotten, StepsPassed
  <2>3. \A kind \in {"policy", "role"} : children[kind].exists /\ seen[kind] = children[kind]
    <3>1. \A kind \in {"policy", "role"} : children[kind].exists /\ Owned(children[kind])
      BY <2>2 DEF PolicyIsWritten, NothingForgotten, CachesTold
    <3>2. \A kind \in {"policy", "role"} :
            seen[kind] = children[kind] \/ ~Owned(children[kind])
      BY <1>2 DEF NothingForgotten, CachesTold, Awaiting, Kinds
    <3> QED
      BY <3>1, <3>2
  <2>4. ASSUME ~Collectable PROVE ~ChildrenReady
    <3>1. \A kind \in {"policy", "role"} : InPlace(children[kind])
      BY <2>3, <2>4 DEF Collectable, InPlace, Kinds
    <3>2. CASE ~RoleAndPolicyAreOk
      BY <2>3, <3>1, <3>2 DEF RoleAndPolicyAreOk, ChildrenReady
    <3>3. CASE seen["role"].exists /\ seen["role"].arn = ""
      BY <2>3, <3>1, <3>3 DEF ChildrenReady
    <3> QED
      BY <3>2, <3>3
  <2> QED
    BY <2>1, <2>2, <2>4 DEF Settled, CanComplete
<1> QED
  BY <1>1, <1>2, LeavingIsQuiet

(* updatePolicyIfNeeded: what it has written, or found written, is there.  *)
LEMMA UpdatePolicyIfNeededIsQuiet ==
  ASSUME IInv, NothingForgotten, UpdatePolicyIfNeeded
  PROVE  QuietStep
<1> DEFINE sent == [children["policy"] EXCEPT !.statement = worker.obj.spec,
                                              !.arn = seen["policy"].arn]
           new(applied) == IF applied THEN sent ELSE children["policy"]
<1>1. PICK applied \in BOOLEAN, ok \in BOOLEAN :
        /\ Call("api", SameVersion, applied, ok)
        /\ Become("policy", new(applied))
        /\ IF ok THEN Goto("checkRole") ELSE Return(TRUE)
  BY DEF UpdatePolicyIfNeeded
<1>2. /\ worker.pc \in Steps /\ Busy /\ UnchangedCluster /\ seen' = seen /\ deeds' = deeds
      /\ seen["policy"].exists /\ CachesTold
  BY DEF UpdatePolicyIfNeeded, Steps, Busy, NothingForgotten
<1>3. /\ worker.obj.spec \in StatementChoices
      /\ "policy" \in Kinds /\ children["policy"] \in Children /\ seen["policy"] \in Children
      /\ ~children["policy"].exists => children["policy"] = NoChild
      /\ children["policy"].exists => Owned(children["policy"])
  BY <1>2, RoutineCopy, Halves DEF ChildTypes, ChildrenJustified, Kinds, CachesTold
<1>4. (applied => SameVersion) /\ (ok => applied)
  BY <1>1 DEF Call, SameVersion
<1>5. applied => /\ sent \in Children /\ sent.exists /\ sent.owner = children["policy"].owner
                 /\ sent.statement = worker.obj.spec
  BY <1>2, <1>3, <1>4 DEF Children, SameVersion
<1>6. applied => Owned(sent) /\ children["policy"].exists
  BY <1>2, <1>3, <1>4, <1>5 DEF SameVersion, Owned
<1> HIDE DEF sent
<1>7. /\ new(applied) \in Children /\ (~new(applied).exists => new(applied) = NoChild)
      /\ new(applied).exists => Owned(new(applied))
      /\ ok => new(applied) = sent
  BY <1>3, <1>4, <1>5, <1>6
<1> HIDE DEF new
<1>8. Told
  BY <1>1, <1>2, <1>3, <1>7, BecomeIsTold
<1>9. CASE ~ok
  BY <1>1, <1>2, <1>8, <1>9, RetryIsQuiet
<1>10. CASE ok
  <2>1. Goto("checkRole") /\ "checkRole" \in CommonSteps \cup Steps
    BY <1>1, <1>10 DEF Steps
  <2>2. Moves /\ worker'.pc = "checkRole" /\ queued' = queued
    BY <2>1, OwnSteps, GotoMoves DEF Moves, Goto
  <2>3. children'["policy"] = sent
    <3>1. children \in [Kinds -> Children] /\ new(applied) = sent
      BY <1>7, <1>10, Halves DEF ChildTypes
    <3> QED
      BY <1>1, <1>3, <3>1 DEF Become
  <2>4. worker.obj = resource => PolicyIsWritten'
    BY <1>2, <1>4, <1>5, <1>10, <2>3 DEF PolicyIsWritten, UnchangedCluster
  <2>5. worker.obj = resource => StepsPassed' /\ Rests'
    BY <2>2, <2>4 DEF StepsPassed, Rests, LastWord, Busy
  <2> QED
    BY <1>2, <1>8, <2>2, <2>5 DEF QuietStep
<1> QED
  BY <1>9, <1>10

(* The other steps look at the caches, or create a resource. *)
LEMMA LookingIsQuiet ==
  ASSUME IInv, NothingForgotten,
         \/ PolicyAlreadyExists \/ CreatePolicy \/ PolicyVanished \/ RoleAlreadyExists
         \/ CreateRole \/ SaMissing \/ CreateServiceAccount \/ RoleNotReady
  PROVE  QuietStep
<1>1. AtRoutine \/ worker.pc \in Steps
  BY DEF PolicyAlreadyExists, CreatePolicy, PolicyVanished, RoleAlreadyExists, CreateRole,
         SaMissing, CreateServiceAccount, RoleNotReady, Steps
<1>2. /\ Busy /\ worker.obj.spec \in StatementChoices /\ worker.obj.uid \in 0..MaxOps
      /\ worker.obj.uid # 0
  <2>1. Busy /\ worker.obj.spec \in StatementChoices /\ worker.obj.uid \in 0..MaxOps
    BY <1>1, RoutineCopy
  <2>2. worker.obj \in StoredResources(StatementChoices)
    BY <2>1, OwnSteps, StoredExists DEF Busy
  <2>3. worker.obj.uid \in 1..MaxOps
    BY <2>2 DEF StoredResources
  <2> QED
    BY <2>1, <2>3, OpsAssumption
<1>3. /\ NewPolicy(worker.obj) \in Children /\ NewPolicy(worker.obj).exists
      /\ NewRole(worker.obj) \in Children /\ NewRole(worker.obj).exists
      /\ NewServiceAccount(worker.obj, "arn") \in Children
      /\ NewServiceAccount(worker.obj, "arn").exists
      /\ Owned(NewPolicy(worker.obj)) /\ Owned(NewRole(worker.obj))
      /\ Owned(NewServiceAccount(worker.obj, "arn"))
  BY <1>2, MadeTypes DEF Owned
<1>4. CASE PolicyAlreadyExists
  BY <1>2, <1>4, ProceedIsQuiet DEF PolicyAlreadyExists, Steps
<1>5. CASE CreatePolicy
  BY <1>2, <1>3, <1>5, CreateIsQuiet DEF CreatePolicy, Kinds
<1>6. CASE PolicyVanished
  <2>1. Return(TRUE) /\ UnchangedCluster /\ UNCHANGED childVars
    BY <1>6 DEF PolicyVanished, Leave
  <2> QED
    BY <1>2, <2>1, LeavingIsQuiet
<1>7. CASE RoleAlreadyExists
  BY <1>2, <1>7, ProceedIsQuiet DEF RoleAlreadyExists, Steps
<1>8. CASE CreateRole
  BY <1>2, <1>3, <1>8, CreateIsQuiet DEF CreateRole, Kinds
<1>9. CASE SaMissing
  BY <1>2, <1>9, ProceedIsQuiet, WaitingIsQuiet DEF SaMissing, Steps
<1>10. CASE CreateServiceAccount
  <2>1. seen["role"].arn = "arn" /\ Create("sa", NewServiceAccount(worker.obj, seen["role"].arn))
    <3>1. seen["role"].arn \in {"", "arn"}
      BY Halves DEF ChildTypes, Children, Kinds
    <3> QED
      BY <1>10, <3>1 DEF CreateServiceAccount
  <2> QED
    BY <1>2, <1>3, <2>1, CreateIsQuiet DEF Kinds
<1>11. CASE RoleNotReady
  <2>1. seen["role"].exists \in BOOLEAN
    BY Halves DEF ChildTypes, Children, Kinds
  <2>2. CASE seen["role"].exists
    BY <1>11, <2>2, WaitingIsQuiet DEF RoleNotReady
  <2>3. CASE ~seen["role"].exists
    <3>1. Return(TRUE) /\ UnchangedCluster /\ UNCHANGED childVars
      BY <1>11, <2>1, <2>3 DEF RoleNotReady, Leave
    <3> QED
      BY <1>2, <3>1, LeavingIsQuiet
  <2> QED
    BY <2>2, <2>3
<1> QED
  BY <1>4, <1>5, <1>6, <1>7, <1>8, <1>9, <1>10, <1>11

-----------------------------------------------------------------------------
(* The finalizer *)

(* What it deletes is its own, or its cache is behind. *)
LEMMA FinalizerIsQuiet ==
  ASSUME IInv, NothingForgotten, FinalizerStep
  PROVE  QuietStep
<1>1. Busy /\ AtFinalizer
  BY DEF FinalizerStep, DeleteSa, SaNotOurs, AtFinalizer, Busy
<1>2. CASE SaNotOurs
  BY <1>1, <1>2, ProceedIsQuiet DEF SaNotOurs
<1>3. CASE DeleteSa
  <2> DEFINE new(applied) == IF applied THEN NoChild ELSE children["sa"]
  <2>1. PICK applied \in BOOLEAN, ok \in BOOLEAN :
          /\ Become("sa", new(applied))
          /\ IF ok THEN Goto("deleteCR") ELSE Return(TRUE)
    BY <1>3 DEF DeleteSa
  <2>2. UnchangedCluster /\ seen' = seen /\ deeds' = deeds /\ SaOwned(worker.obj) /\ CachesTold
    BY <1>3 DEF DeleteSa, NothingForgotten
  <2>3. Owned(seen["sa"])
    <3>1. worker.obj \in StoredResources(StatementChoices)
      BY <1>1, OwnSteps, StoredExists DEF Busy
    <3>2. worker.obj.uid \in 1..MaxOps
      BY <3>1 DEF StoredResources
    <3> QED
      BY <2>2, <3>2, OpsAssumption DEF SaOwned, Owned
  <2>4. Owned(children["sa"]) \/ "sa" \in news
    BY <2>2, <2>3 DEF CachesTold, Kinds
  <2>5. /\ "sa" \in Kinds /\ new(applied) \in Children
        /\ ~new(applied).exists => new(applied) = NoChild
    BY Halves, NoChildType DEF ChildTypes, ChildrenJustified, Kinds
  <2> HIDE DEF new
  <2>6. Told
    BY <2>1, <2>2, <2>4, <2>5, BecomeIsTold
  <2>7. CASE ~ok
    BY <1>1, <2>1, <2>2, <2>6, <2>7, RetryIsQuiet
  <2>8. CASE ok
    <3>1. Goto("deleteCR") /\ "deleteCR" \in CommonSteps \cup Steps
      BY <2>1, <2>8 DEF CommonSteps
    <3>2. Moves /\ worker'.pc = "deleteCR" /\ queued' = queued
      BY <3>1, OwnSteps, GotoMoves DEF Moves, Goto
    <3> QED
      BY <1>1, <2>2, <2>6, <3>2, SilentStep DEF QuietStep
  <2> QED
    BY <2>7, <2>8
<1> QED
  BY <1>2, <1>3 DEF FinalizerStep

-----------------------------------------------------------------------------
(* Every step *)

(* The common steps: a last word that says nothing new about the stored    *)
(* resource is never left to say.                                          *)
LEMMA LifecycleRemembers ==
  ASSUME IInv, NothingForgotten, LifecycleStep, UNCHANGED childVars
  PROVE  NothingForgotten'
<1>1. /\ ReconcilerInv(StatementChoices, Steps, {}) /\ LateIsWoken /\ StepsPassed /\ StepsJustified
  BY Halves DEF Half, NothingForgotten
<1>2. worker.pc = "status" => worker.next = "ifFailed"
  BY <1>1 DEF StepsJustified
<1>3. /\ LateIsWoken' /\ ~dropped'
      /\ \/ worker' = Idle
         \/ worker'.pc \in {"got", "removeFinalizer"}
         \/ /\ worker.pc = "status" /\ worker'.pc = worker.next
            /\ worker.next \in Steps \cup {"deleteCR"}
      /\ worker' = Idle /\ ~Stirring' =>
           \/ ~resource'.exists
           \/ LastWord /\ ~Stirring /\ resource' = resource /\ worker.status = resource.status
  <2>1. ~dropped'
    BY <1>2, LifecycleHeeds DEF NothingForgotten
  <2> QED
    BY <1>1, <1>2, <2>1, LifecycleWakes
<1>4. CachesTold' /\ UNCHANGED <<children, news>>
  BY SilenceIsTold DEF Told, NothingForgotten, childVars
<1>5. CASE worker'.pc \in {"got", "removeFinalizer"}
  BY <1>3, <1>4, <1>5, SilentStep DEF NothingForgotten
<1>6. CASE worker' = Idle
  <2>1. Awaiting' \/ ~resource'.exists
    BY <1>1, <1>3, <1>4, <1>6 DEF StepsPassed, Awaiting
  <2>2. worker'.pc = "idle"
    BY <1>6, IdleType
  <2> QED
    BY <1>3, <1>4, <2>1, <2>2 DEF NothingForgotten, StepsPassed, LastWord, Rests
<1>7. ~(worker.pc = "status" /\ worker.next \in Steps \cup {"deleteCR"})
  BY <1>2 DEF Steps
<1> QED
  BY <1>3, <1>5, <1>6, <1>7

(* A told step that leaves the worker alone. *)
LEMMA ToldIsRemembered ==
  ASSUME IInv, NothingForgotten, Told, UNCHANGED <<resource, holders, event, queued, worker, dropped>>
  PROVE  NothingForgotten'
<1>1. LateIsWoken' /\ CachesTold' /\ ~dropped'
  BY ElsewhereWakes DEF NothingForgotten, Stirring, Told
<1>2. CASE Awaiting'
  BY <1>1, <1>2 DEF NothingForgotten, StepsPassed, Rests
<1>3. CASE ~Awaiting'
  <2>1. /\ ~Awaiting /\ UNCHANGED <<resource, worker>>
        /\ children'["policy"] = children["policy"] /\ children'["role"] = children["role"]
    BY <1>3, StillChildren DEF Awaiting, Stirring
  <2>2. StepsPassed'
    BY <2>1 DEF NothingForgotten, StepsPassed, PolicyIsWritten, LastWord
  <2>3. Rests'
    BY <1>3, <2>1, SettledStays DEF NothingForgotten, Rests, Busy
  <2> QED
    BY <1>1, <2>2, <2>3 DEF NothingForgotten
<1> QED
  BY <1>2, <1>3

(* The informers and the process. *)
LEMMA InformerRemembers ==
  ASSUME IInv, NothingForgotten, InformerStep
  PROVE  NothingForgotten'
<1>1. CASE (CacheSync \/ Enqueue) /\ UNCHANGED childVars
  <2>1. LateIsWoken' /\ Stirring'
    BY <1>1, InformingWakes DEF NothingForgotten
  <2>3. ~dropped'
    BY <1>1 DEF NothingForgotten, CacheSync, Enqueue
  <2>2. CachesTold'
    BY <1>1, SilenceIsTold DEF NothingForgotten, Told
  <2> QED
    BY <2>1, <2>2, <2>3 DEF NothingForgotten, StepsPassed, Rests, Awaiting
<1>2. ASSUME NEW kind \in Kinds, ChildSync(kind) PROVE NothingForgotten'
  <2>1. /\ seen' = [seen EXCEPT ![kind] = children[kind]] /\ news' = news \ {kind}
        /\ queued' = (queued \/ kind \in news)
        /\ UNCHANGED <<resource, holders, event, worker, dropped, children, deeds>>
        /\ seen \in [Kinds -> Children]
    BY <1>2, Halves DEF ChildSync, ChildTypes
  <2>2. LateIsWoken' /\ ~dropped'
    BY <2>1, ElsewhereWakes DEF NothingForgotten, Stirring
  <2>3. CachesTold'
    BY <2>1 DEF NothingForgotten, CachesTold, Kinds
  <2>4. Awaiting => Awaiting'
    BY <2>1 DEF Awaiting, Stirring
  <2>5. StepsPassed'
    BY <2>1, <2>4 DEF NothingForgotten, StepsPassed, PolicyIsWritten, LastWord
  <2>6. Settled => Settled'
    BY <2>1 DEF Settled, PolicyIsWritten, Collectable, OwnerGone, ChildrenReady, CanComplete,
                Conflicts, Completed, Alive
  <2>7. Rests'
    BY <2>1, <2>4, <2>6 DEF NothingForgotten, Rests, Busy
  <2> QED
    BY <2>2, <2>3, <2>5, <2>7 DEF NothingForgotten
<1>3. CASE CrashAndRestart
  <2>1. /\ LateIsWoken' /\ worker' = Idle /\ (~Stirring' => ~resource'.exists) /\ ~dropped'
        /\ seen' = children /\ news' = {} /\ UNCHANGED <<children, deeds>>
    BY <1>3, RestartWakes DEF CrashAndRestart, Crash, Restart
  <2>2. worker'.pc = "idle"
    BY <2>1, IdleType
  <2>3. CachesTold'
    BY <2>1 DEF NothingForgotten, CachesTold
  <2> QED
    BY <2>1, <2>2, <2>3 DEF NothingForgotten, StepsPassed, LastWord, Rests, Awaiting
<1> QED
  BY <1>1, <1>2, <1>3 DEF InformerStep

(* What the others do to one of the three resources is told.               *)
LEMMA SomebodyRemembers ==
  ASSUME IInv, NothingForgotten, NEW kind \in Kinds, NEW child \in Children, Become(kind, child),
         seen' = seen, UNCHANGED reconcilerVars \/ ActElsewhere,
         deeds \subseteq deeds', ~child.exists => child = NoChild,
         kind # "sa" /\ child.exists => Owned(child),
         kind = "sa" =>
            \/ Owned(children["sa"]) \/ "removed" \in deeds'
            \/ child.exists
  PROVE  NothingForgotten'
<1>1. UNCHANGED <<resource, holders, event, queued, worker, dropped>>
  BY DEF reconcilerVars, ActElsewhere, Act
<1>2. Told
  BY BecomeIsTold DEF NothingForgotten
<1> QED
  BY <1>1, <1>2, ToldIsRemembered

(* The controllers of the Policy and of the Role. *)
LEMMA ControllerRemembers ==
  ASSUME IInv, NothingForgotten, ControllerStep
  PROVE  NothingForgotten'
<1> SUFFICES ASSUME NEW kind \in {"policy", "role"},
                    RecordArn(kind) \/ ReportOk(kind) \/ Falter(kind) \/ Release(kind)
             PROVE  NothingForgotten'
  BY DEF ControllerStep
<1>1. /\ kind \in Kinds /\ kind # "sa" /\ children[kind] \in Children
      /\ ~children[kind].exists => children[kind] = NoChild
      /\ children[kind].exists => Owned(children[kind])
  BY Halves DEF ChildTypes, ChildrenJustified, Kinds, NothingForgotten, CachesTold
<1>2. CASE Release(kind)
  BY <1>1, <1>2, NoChildType, SomebodyRemembers DEF Release, Elsewhere
<1>3. CASE RecordArn(kind)
  <2> DEFINE new == [children[kind] EXCEPT !.arn = "arn"]
  <2>1. /\ Become(kind, new) /\ seen' = seen /\ deeds' = deeds /\ UNCHANGED reconcilerVars
        /\ children[kind].exists
    BY <1>3 DEF RecordArn, Elsewhere, InPlace
  <2>2. new \in Children /\ new.exists /\ Owned(new)
    BY <1>1, <2>1, EditedChild DEF Owned
  <2> HIDE DEF new
  <2> QED
    BY <1>1, <2>1, <2>2, SomebodyRemembers
<1>4. CASE ReportOk(kind)
  <2> DEFINE new == [children[kind] EXCEPT !.ok = TRUE]
  <2>1. /\ Become(kind, new) /\ seen' = seen /\ deeds' = deeds /\ UNCHANGED reconcilerVars
        /\ children[kind].exists
    BY <1>4 DEF ReportOk, Elsewhere, InPlace
  <2>2. new \in Children /\ new.exists /\ Owned(new)
    BY <1>1, <2>1, EditedChild DEF Owned
  <2> HIDE DEF new
  <2> QED
    BY <1>1, <2>1, <2>2, SomebodyRemembers
<1>5. CASE Falter(kind)
  <2> DEFINE new == [children[kind] EXCEPT !.ok = FALSE]
  <2>1. /\ Become(kind, new) /\ seen' = seen /\ deeds' = deeds /\ ActElsewhere
        /\ children[kind].ok
    BY <1>5 DEF Falter
  <2>2. children[kind].exists
    BY <1>1, <2>1, NoChildType
  <2>3. new \in Children /\ new.exists /\ Owned(new)
    BY <1>1, <2>2, EditedChild DEF Owned
  <2> HIDE DEF new
  <2> QED
    BY <1>1, <2>1, <2>3, SomebodyRemembers
<1> QED
  BY <1>2, <1>3, <1>4, <1>5

(* A deletion leaves the owner. *)
LEMMA DeletionKeepsOwner ==
  ASSUME NEW kind \in Kinds, NEW c \in Children, c.exists, NEW d \in Deletions(kind, c)
  PROVE  /\ d \in Children /\ (~d.exists => d = NoChild)
         /\ d.exists /\ Owned(c) => Owned(d)
<1>1. CASE d = NoChild
  BY <1>1, NoChildType
<1>2. CASE d # NoChild
  BY <1>2, EditedChild DEF Deletions, Owned
<1> QED
  BY <1>1, <1>2

(* The garbage collector touches only what has had an owner. *)
LEMMA CollectorRemembers ==
  ASSUME IInv, NothingForgotten, CollectorStep
  PROVE  NothingForgotten'
<1> SUFFICES ASSUME NEW kind \in Kinds, Collect(kind) PROVE NothingForgotten'
  BY DEF CollectorStep
<1>1. children[kind] \in Children /\ children[kind].exists /\ Owned(children[kind])
  BY Halves DEF ChildTypes, Collect, InPlace, OwnerGone
<1>2. PICK new \in Deletions(kind, children[kind]) :
        Become(kind, new) /\ seen' = seen /\ deeds' = deeds /\ UNCHANGED reconcilerVars
  BY DEF Collect, Elsewhere
<1>3. new \in Children /\ (~new.exists => new = NoChild) /\ (new.exists => Owned(new))
  BY <1>1, DeletionKeepsOwner
<1> QED
  BY <1>1, <1>2, <1>3, SomebodyRemembers

(* The users. *)
LEMMA UserRemembers ==
  ASSUME IInv, NothingForgotten, UserStep
  PROVE  NothingForgotten'
<1>1. CASE /\ \/ \E s \in StatementChoices : CreateResource(s) \/ ChangeSpec(s)
              \/ RequestDeletion
           /\ UNCHANGED childVars
  <2>1. LateIsWoken' /\ Stirring' /\ ~dropped'
    BY <1>1, ActingWakes DEF NothingForgotten, CreateResource, ChangeSpec, RequestDeletion, Act
  <2>2. CachesTold'
    BY <1>1, SilenceIsTold DEF NothingForgotten, Told
  <2> QED
    BY <2>1, <2>2 DEF NothingForgotten, StepsPassed, Rests, Awaiting
<1>2. ASSUME NEW kind \in Kinds, DeleteChild(kind) PROVE NothingForgotten'
  <2>1. /\ children[kind] \in Children /\ children[kind].exists /\ ActElsewhere /\ seen' = seen
        /\ deeds \subseteq deeds'
        /\ kind = "sa" => Owned(children["sa"]) \/ "removed" \in deeds'
        /\ kind # "sa" => Owned(children[kind])
    BY <1>2, Halves DEF ChildTypes, DeleteChild, InPlace, NothingForgotten, CachesTold, Kinds
  <2>2. PICK new \in Deletions(kind, children[kind]) : Become(kind, new)
    BY <1>2 DEF DeleteChild
  <2>3. /\ new \in Children /\ (~new.exists => new = NoChild)
        /\ new.exists /\ Owned(children[kind]) => Owned(new)
    BY <2>1, DeletionKeepsOwner
  <2> QED
    BY <2>1, <2>2, <2>3, SomebodyRemembers
<1>3. CASE CreateForeignSa
  <2>1. /\ ActElsewhere /\ Become("sa", ForeignServiceAccount) /\ seen' = seen /\ deeds' = deeds
        /\ "sa" \in Kinds /\ ~children["sa"].exists
    BY <1>3 DEF CreateForeignSa, Kinds
  <2>2. ForeignServiceAccount \in Children /\ ForeignServiceAccount.exists
    BY NoChildType DEF ForeignServiceAccount, Children, NoChild
  <2> QED
    BY <2>1, <2>2, SomebodyRemembers
<1> QED
  BY <1>1, <1>2, <1>3 DEF UserStep

(* Nothing is forgotten at the start. *)
LEMMA InitRemembers == Init => NothingForgotten
<1> SUFFICES ASSUME Init PROVE NothingForgotten
  OBVIOUS
<1>1. LateIsWoken /\ worker.pc = "idle" /\ ~resource.exists /\ ~dropped
  BY InitWakes DEF Init, InitReconciler
<1>2. CachesTold
  BY NoChildType DEF Init, CachesTold, Kinds
<1> QED
  BY <1>1, <1>2 DEF NothingForgotten, StepsPassed, LastWord, Rests

(* Every step keeps NothingForgotten. *)
LEMMA NextRemembers ==
  ASSUME IInv, NothingForgotten, [Next]_vars
  PROVE  NothingForgotten'
<1>1. CASE RoutineStep
  BY <1>1, AdmissionStepIsQuiet, SaAlreadyExistsIsQuiet, UpdatePolicyIfNeededIsQuiet,
     LookingIsQuiet, QuietStepRemembers DEF RoutineStep
<1>2. CASE FinalizerStep
  BY <1>2, FinalizerIsQuiet, QuietStepRemembers
<1>3. CASE UNCHANGED vars
  <2>1. UNCHANGED <<resource, holders, event, queued, worker, dropped>> /\ UNCHANGED childVars
    BY <1>3 DEF vars, reconcilerVars
  <2> QED
    BY <2>1, SilenceIsTold, ToldIsRemembered DEF NothingForgotten
<1> QED
  BY <1>1, <1>2, <1>3, LifecycleRemembers, InformerRemembers, ControllerRemembers,
     CollectorRemembers, UserRemembers DEF Next, ReconcilerStep

-----------------------------------------------------------------------------
(***************************************************************************)
(* Whatever the worker of the IamRoleServiceAccount reconciler leaves      *)
(* undone, something will bring it back: an event of its own resource, a   *)
(* retry, or news of one of the three it has made; whatever calls fail,    *)
(* and wherever the process stops.                                         *)
(***************************************************************************)
THEOREM NothingIsForgotten == Spec => []NothingForgotten
<1>1. IInv /\ NothingForgotten /\ [Next]_vars => NothingForgotten'
  BY NextRemembers
<1> QED
  BY <1>1, InitRemembers, Invariance, PTL DEF Spec

(***************************************************************************)
(* So when nothing is left to do, the Policy and the Role are in place,    *)
(* with the statement of the spec; and once these are "created", so is an  *)
(* IamRoleServiceAccount whose spec is valid, with a service account of    *)
(* its own, unless there is one of somebody else, or was one that has been *)
(* removed.                                                                *)
(***************************************************************************)
THEOREM RestIsConverged == Spec => []RestsConverged
<1>1. ASSUME NothingForgotten, Quiescent, ChildrenFresh, ~Collectable, resource.exists
      PROVE  /\ Alive(resource) /\ Converged
             /\ CanComplete => Completed
  <2>1. Settled
    BY <1>1 DEF NothingForgotten, Rests, Awaiting, Stirring, Quiescent, Busy, ChildrenFresh
  <2>2. \A kind \in {"policy", "role"} : children[kind].exists /\ Owned(children[kind])
    BY <1>1, <2>1 DEF Settled, PolicyIsWritten, NothingForgotten, CachesTold
  <2>3. \A kind \in {"policy", "role"} :
          ~children[kind].deleting /\ children[kind].owner = resource.uid
    BY <1>1, <2>2 DEF Collectable, OwnerGone, Kinds
  <2>4. Converged
    BY <2>1, <2>2, <2>3 DEF Converged, InPlace, Settled, PolicyIsWritten
  <2> QED
    BY <1>1, <2>1, <2>4 DEF Settled
<1>2. NothingForgotten => RestsConverged
  BY <1>1 DEF RestsConverged
<1> QED
  BY <1>2, NothingIsForgotten, PTL

=============================================================================
