--------------------------- MODULE MCTransactions ---------------------------
(***************************************************************************)
(* Small instances of TransactionExecution, with the specifications that   *)
(* it implements.                                                          *)
(***************************************************************************)
EXTENDS TransactionRefinement, TLC

\* Every client makes every kind of request.
AllOps ==
  [t \in Txn |-> {"Read", "ReadDataStore", "Insert", "Upsert", "Update", "Delete",
                  "Commit", "Abort"}]

\* Every client reads and writes, in any order.
ReadWriteOps == [t \in Txn |-> {"Read", "Upsert", "Commit", "Abort"}]

\* Every call to the version database may fail.
AllCalls == {"NewTxn", "GetVersionList", "ReadRecord", "UploadVersion",
             "SetCommitTimestamp", "UpdateMaxCommitTsAndReread",
             "UpdateCommitLowerBound", "UpdateTxnStatus", "CommitVersion",
             "DeleteVersion", "ReleaseReadCounter"}

TxnSymmetry == Permutations(Txn)

TxnKeySymmetry == Permutations(Txn) \cup Permutations(Key)
=============================================================================
