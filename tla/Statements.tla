----------------------------- MODULE Statements -----------------------------
(***************************************************************************)
(* The statements of a policy (api/v1alpha1/policy_types.go), the document *)
(* that AWS keeps of them (aws/types.go), and how the policy controller    *)
(* compares the statements of a Policy with those it reads on AWS.         *)
(*                                                                         *)
(* A statement is a record [resource, action] whose action is a sequence;  *)
(* a policy's statements are a sequence of these.                          *)
(***************************************************************************)
EXTENDS Naturals, Sequences

CONSTANTS
    ResourceARNs,   \* the resources that are well-formed ARNs
    EmptyAction     \* the empty action string

ValidStatement(spec) ==
    /\ spec.resource \in ResourceARNs
    /\ Len(spec.action) > 0
    /\ \A i \in DOMAIN spec.action : spec.action[i] # EmptyAction

ValidStatements(statement) ==
    /\ Len(statement) > 0
    /\ \A i \in DOMAIN statement : ValidStatement(statement[i])

(***************************************************************************)
(* Same resource, as many actions, and every action of a is one of b's.    *)
(***************************************************************************)
IsSame(a, b) ==
    /\ a.resource = b.resource
    /\ Len(a.action) = Len(b.action)
    /\ \A i \in DOMAIN a.action : \E j \in DOMAIN b.action : a.action[i] = b.action[j]

(***************************************************************************)
(* As many statements, and every statement of a is the same as one of b's. *)
(***************************************************************************)
StatementEquals(a, b) ==
    /\ Len(a) = Len(b)
    /\ \A i \in DOMAIN a : \E j \in DOMAIN b : IsSame(a[i], b[j])

-----------------------------------------------------------------------------
(* Documents *)

\* What AWS keeps of a statement: it allows, where another one could deny.
NewPolicyDocument(statement) ==
    [i \in DOMAIN statement |->
        [effect |-> "Allow", action |-> statement[i].action, resource |-> statement[i].resource]]

\* What is read of a document: the effect is dropped.
ToSpec(stmt) == [resource |-> stmt.resource, action |-> stmt.action]

StatementSpecs(document) == [i \in DOMAIN document |-> ToSpec(document[i])]

-----------------------------------------------------------------------------
(* What the comparison is for, written without it *)

Permits(stmt) == {<<stmt.resource, stmt.action[k]>> : k \in DOMAIN stmt.action}

\* What a policy with this document allows: a denial comes before a permission.
Grants(document) ==
    LET By(effect) == {i \in DOMAIN document : document[i].effect = effect}
    IN  UNION {Permits(document[i]) : i \in By("Allow")}
            \ UNION {Permits(document[i]) : i \in By("Deny")}

=============================================================================
