------------------------ MODULE MCPolicyController ------------------------
(***************************************************************************)
(* Small instances of PolicyController.  Of three statements, validation   *)
(* and IAM both accept the first, validation refuses the second (its       *)
(* resource is no ARN), and IAM the third (its action has no service).     *)
(***************************************************************************)
EXTENDS PolicyController

Stm(arn, action) == [resource |-> arn, action |-> action]

MCArns == {"arn:s3"}

ReadOnly  == <<Stm("arn:s3", <<"Get">>)>>
ReadWrite == <<Stm("arn:s3", <<"Get", "Put">>)>>
AnyArn    == <<Stm("*", <<"Get">>)>>
Malformed == <<Stm("arn:s3", <<"no service">>)>>

MCOne        == {ReadOnly}
MCTwo        == {ReadOnly, AnyArn}
MCStatements == {ReadOnly, AnyArn, Malformed}

\* The same action twice, and two different actions.
GetGet == <<Stm("arn:s3", <<"Get", "Get">>)>>

MCDuplicateStatements == {ReadWrite, GetGet}

\* IAM has no objection to an action that is named twice.
MCAccepted == {ReadOnly, AnyArn} \cup MCDuplicateStatements

=============================================================================
