---------------------------- MODULE PolicyOnAws ----------------------------
(***************************************************************************)
(* The AWS policy between the two reconcilers that work on it.  The Policy *)
(* reconciler makes it, lets the others see its ARN in the cached Policy,  *)
(* and deletes it; the Role reconciler finds the ARN there, attaches the   *)
(* policy to its role and detaches it.  They never speak to each other, so *)
(* this is all that either may count on.                                   *)
(*                                                                         *)
(* PolicyController implements it, and RoleController takes its Policy's   *)
(* side from it.                                                           *)
(***************************************************************************)

CONSTANT Entities   \* the IAM roles, users and groups

VARIABLES
    made,       \* the policy is on AWS
    attached,   \* those it is attached to
    arn         \* the ARN in the cached Policy, "" if there is none

vars == <<made, attached, arn>>

Init == made = FALSE /\ attached = {} /\ arn = ""

-----------------------------------------------------------------------------
(* The Policy's side *)

\* What the cache shows of a predecessor is forgotten before.
Make ==
    /\ ~made /\ arn = ""
    /\ made' = TRUE
    /\ UNCHANGED <<attached, arn>>

\* An ARN that is shown for the first time names something.
Show ==
    /\ made
    /\ arn = ""
    /\ arn' = "arn"
    /\ UNCHANGED <<made, attached>>

\* What is attached is never deleted.
Delete ==
    /\ made
    /\ attached = {}
    /\ made' = FALSE
    /\ UNCHANGED <<attached, arn>>

\* The ARN stays in the cache until there is nothing left to name.
Forget ==
    /\ ~made
    /\ arn # ""
    /\ arn' = ""
    /\ UNCHANGED <<made, attached>>

-----------------------------------------------------------------------------
(* The Role's side, people with the AWS console, and the finalizer of the  *)
(* Policy, which detaches what it has found attached.                      *)

Attach(entity) ==
    /\ made
    /\ attached' = attached \cup {entity}
    /\ UNCHANGED <<made, arn>>

Detach(entity) ==
    /\ attached' = attached \ {entity}
    /\ UNCHANGED <<made, arn>>

-----------------------------------------------------------------------------
Next ==
    \/ Make \/ Show \/ Delete \/ Forget
    \/ \E entity \in Entities : Attach(entity) \/ Detach(entity)

Spec == Init /\ [][Next]_vars

=============================================================================
