------------------------- MODULE MCOperationRequest -------------------------
(***************************************************************************)
(* Two clients whose transactions use the same task.                       *)
(***************************************************************************)
EXTENDS OperationRequest, TLC

CONSTANTS c1, c2

TwoClients ==
  (c1 :> <<"Begin", "Insert", "Read", "Commit">>) @@
  (c2 :> <<"Begin", "Upsert", "Update", "Abort">>)
=============================================================================
