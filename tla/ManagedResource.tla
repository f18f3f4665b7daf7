-------------------------- MODULE ManagedResource --------------------------
(***************************************************************************)
(* What the reconciler of a Policy or of a Role promises to the others:    *)
(* the life of the resource, together with the one thing on AWS that the   *)
(* resource stands for (the AWS policy, the IAM role).                     *)
(*                                                                         *)
(* There is no cache here, no queue, no worker and no failure: whatever    *)
(* these do to the reconciler, the resource and the thing on AWS take no   *)
(* other steps than the ones below.                                        *)
(***************************************************************************)

CONSTANT OkNeedsArn   \* TRUE if "created" is only said of a resource with its ARN

VARIABLES
    resource,   \* the marks that the others see on the resource
    made,       \* the thing is on AWS
    meddled     \* somebody has changed it by hand

vars == <<resource, made, meddled>>

-----------------------------------------------------------------------------
(* The marks: the resource is stored ("exists"), held by its finalizer     *)
(* ("held"), on its way out ("deleting"), with its ARN ("recorded"),       *)
(* reported as created ("ok").                                             *)

Absent == {}

Is(mark) == mark \in resource

\* A resource that nobody deletes, with the finalizer that holds it.
Kept == Is("exists") /\ Is("held") /\ ~Is("deleting")

Init == resource = Absent /\ made = FALSE /\ meddled = FALSE

-----------------------------------------------------------------------------
(* Its owner, the garbage collector, users *)

Appear ==
    /\ ~Is("exists")
    /\ resource' = {"exists"}
    /\ UNCHANGED <<made, meddled>>

\* A deletion waits for the finalizer, if there is one.
Doom ==
    /\ Is("exists")
    /\ resource' = IF Is("held") THEN resource \cup {"deleting"} ELSE Absent
    /\ UNCHANGED <<made, meddled>>

Meddle ==
    /\ meddled' = TRUE
    /\ made' \in BOOLEAN
    /\ UNCHANGED resource

-----------------------------------------------------------------------------
(* Its reconciler *)

\* It registers its finalizer before it does anything else.
Hold ==
    /\ Is("exists") /\ ~Is("deleting")
    /\ resource' = resource \cup {"held"}
    /\ UNCHANGED <<made, meddled>>

\* Nothing is made on AWS that no finalizer will undo.
Make ==
    /\ Is("exists") /\ Is("held")
    /\ made' = TRUE
    /\ UNCHANGED <<resource, meddled>>

\* The ARN that is recorded is that of something that was found on AWS.
Record ==
    /\ Kept
    /\ made \/ meddled
    /\ resource' = resource \cup {"recorded"}
    /\ UNCHANGED <<made, meddled>>

\* "created" is said of a resource that nobody deletes.
Report ==
    /\ Kept
    /\ OkNeedsArn => Is("recorded")
    /\ resource' = resource \cup {"ok"}
    /\ UNCHANGED <<made, meddled>>

\* Anything else may be said at any time.
Falter ==
    /\ resource' = resource \ {"ok"}
    /\ UNCHANGED <<made, meddled>>

\* What a recorded ARN names is kept until the resource is deleted.
Undo ==
    /\ Is("recorded") => Is("deleting")
    /\ made' = FALSE
    /\ UNCHANGED <<resource, meddled>>

\* A resource with its ARN is released once nothing is left on AWS.
Release ==
    /\ Is("deleting")
    /\ Is("recorded") /\ made => meddled
    /\ resource' = Absent
    /\ UNCHANGED <<made, meddled>>

-----------------------------------------------------------------------------
OthersStep     == Appear \/ Doom \/ Meddle
ReconcilerStep == Hold \/ Make \/ Record \/ Report \/ Falter \/ Undo \/ Release

Next == OthersStep \/ ReconcilerStep

Spec == Init /\ [][Next]_vars

=============================================================================
