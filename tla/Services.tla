------------------------------ MODULE Services ------------------------------
(***************************************************************************)
(* The calls to the two services every controller of the operator talks    *)
(* to: the Kubernetes API server, reached through the controller-runtime   *)
(* client, and AWS IAM, reached through the SDK.                           *)
(***************************************************************************)
EXTENDS Naturals

CONSTANTS
    FaultKinds,   \* the faults that may happen: a subset of {"api", "iam", "crash"}
    MaxFaults     \* how many of them may happen (bound)

ASSUME FaultsAssumption ==
    FaultKinds \subseteq {"api", "iam", "crash"} /\ MaxFaults \in Nat

VARIABLE faults   \* how many faults have happened

Fault(kind) ==
    /\ kind \in FaultKinds
    /\ faults < MaxFaults
    /\ faults' = faults + 1

\* A read is answered, or it fails.
Answer(kind, ok) ==
    \/ ok  /\ UNCHANGED faults
    \/ ~ok /\ Fault(kind)

(***************************************************************************)
(* A call that may have an effect.  `legal' says that the service accepts  *)
(* it, `applied' that its effect took place and `ok' that the caller saw a *)
(* success.  A faulty call reports an error to the caller, before its      *)
(* effect or after it (a lost reply).                                      *)
(***************************************************************************)
Call(kind, legal, applied, ok) ==
    \/ applied = legal /\ ok = legal /\ UNCHANGED faults
    \/ ~ok /\ (applied => legal) /\ Fault(kind)

=============================================================================
