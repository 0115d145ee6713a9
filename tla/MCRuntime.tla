----------------------------- MODULE MCRuntime -----------------------------
(***************************************************************************)
(* Clients for RuntimeTransactionExecutor.                                 *)
(***************************************************************************)
EXTENDS RuntimeTransactionExecutor, TLC

CONSTANTS c1, c2

Transaction(s, ops) ==
  [n \in DOMAIN ops |-> [session_id |-> s, operation_type |-> ops[n]]]

\* c1 makes the requests of two adjacent transactions, c2 those of one: three
\* transactions for two tasks.
TwoClients ==
  (c1 :> Transaction(1, <<"Begin", "Update", "Commit">>)
         \o Transaction(2, <<"Begin", "ReadDataStore", "Abort">>)) @@
  (c2 :> Transaction(3, <<"Begin", "Read", "Commit">>))

ASSUME Script = TwoClients => OneTransactionPerSession

\* Two transactions of one session, their requests next to each other.
SameSessionScript ==
  c1 :> Transaction(1, <<"Begin", "Read", "Commit">>)
     \o Transaction(1, <<"Begin", "Read", "Commit">>)
=============================================================================
