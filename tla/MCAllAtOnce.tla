---------------------------- MODULE MCAllAtOnce ----------------------------
(***************************************************************************)
(* Batches for AllAtOnceTransactionExecutor.                               *)
(***************************************************************************)
EXTENDS AllAtOnceTransactionExecutor, TLC

CONSTANT c1

Transaction(s, ops) ==
  [n \in DOMAIN ops |-> [session_id |-> s, operation_type |-> ops[n]]]

\* Transactions of different lengths for two tasks, two of them of one session;
\* Run may be called after each of them.
BatchScript ==
  c1 :> Transaction(1, <<"Begin", "Read", "ReadDataStore", "Commit">>)
     \o Transaction(2, <<"Begin", "Abort">>)
     \o Transaction(2, <<"Begin", "Update", "Commit">>)
     \o Transaction(1, <<"Begin", "Insert", "Delete", "Abort">>)

\* A record that is not in memory is looked up in the data store.
LookupScript ==
  c1 :> Transaction(1, <<"Begin", "Read", "ReadDataStore", "Commit">>)

\* The hypothesis of AllAtOnceProofs.
ASSUME WholeTransactions
=============================================================================
