-------------------------- MODULE MCIrsaController --------------------------
(***************************************************************************)
(* Small instances of IrsaController: a valid statement and one that       *)
(* validation refuses.                                                     *)
(***************************************************************************)
EXTENDS IrsaController

MCArns == {"arn:s3"}

ReadOnly == <<[resource |-> "arn:s3", action |-> <<"Get">>]>>
BadArn   == <<[resource |-> "s3", action |-> <<"Get">>]>>

MCOne        == {ReadOnly}
MCStatements == {ReadOnly, BadArn}

=============================================================================
