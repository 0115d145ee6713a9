----------------------------- MODULE MCThreeTxns -----------------------------
(***************************************************************************)
(* Three transactions with different roles: one only writes, one reads and *)
(* writes, one only reads.  Three are needed for the anomalies in which a  *)
(* reader sees an order that the two writers alone do not contradict.      *)
(***************************************************************************)
EXTENDS TransactionProperties, TLC

CONSTANTS writer, updater, reader

RoleOps ==
  (writer  :> {"Upsert", "Commit"}) @@
  (updater :> {"Read", "Upsert", "Commit"}) @@
  (reader  :> {"Read", "Commit"})

KeySymmetry == Permutations(Key)
=============================================================================
