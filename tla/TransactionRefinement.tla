------------------------ MODULE TransactionRefinement ------------------------
(***************************************************************************)
(* The transactions implement AtomicStore and, one by one,                 *)
(* TransactionLifecycle.  For AtomicStore a version counts from the        *)
(* moment the transaction table has its writer as committed, although it   *)
(* is still dirty then and every key gets its timestamps in two answers of *)
(* its own, in any order and much later.                                   *)
(***************************************************************************)
EXTENDS TransactionProperties

\* Version n of k is committed, on record or by the word of the transaction table.
Counts(k, n) ==
  /\ Exists(k, n)
  /\ Dirty(k, n) => versions[k][n].tx_id \in Committed

\* Dirty versions have no timestamp yet: it is their writer's.
CurrentVersion(k, n) ==
  [version    |-> n,
   begin_ts   |-> IF Dirty(k, n) THEN commit_timestamp[versions[k][n].tx_id]
                                 ELSE versions[k][n].begin_ts,
   is_deleted |-> versions[k][n].is_deleted]

\* A key whose version list does not exist yet is like one with the pseudo version.
AbstractCurrent(k) ==
  LET counting == {n \in 0 .. MaxVersion : Counts(k, n)} IN
  IF counting = {} THEN [version |-> 0, begin_ts |-> 0, is_deleted |-> TRUE]
  ELSE CurrentVersion(k, CHOOSE n \in counting : \A m \in counting : m <= n)

Store == INSTANCE AtomicStore WITH
  Timestamp <- 0 .. kMaxTimeStamp,
  current   <- [k \in Key |-> AbstractCurrent(k)],
  outcome   <- [t \in Txn |-> txns[t].status]

\* Transactions are atomic: the only steps that other transactions or clients can
\* tell apart are commits, which put all the writes of a transaction on top of
\* the current versions at once and at one timestamp, and aborts, which leave no
\* trace; uploads, rereads, pushes, the two halves of CommitVersion, deletions and
\* failing calls are invisible.
CommitIsAtomic == Store!StoreSpec
-----------------------------------------------------------------------------
(* The executor's view.                                                    *)

Phase(op) ==
  CASE op \in {"Reset", "Idle", "Finished", "Recover"} -> op
    [] op \in {"PostProcessingAfterCommit", "PostProcessingAfterAbort",
               "ReleaseReadCounter"} -> "Ending"
    [] OTHER -> "Serving"

Lifecycle == INSTANCE TransactionLifecycle WITH
  phase    <- [t \in Txn |-> Phase(operation[t])],
  notified <- [t \in Txn |-> result[t].is_finished]

\* Every request is answered before the next one is taken up, an operation that
\* aborts starts over with an answer that has not been given, and Commit and Abort
\* are answered when the table has decided and before the execution finishes:
\* between the two a client may already act on the outcome.
AnsweredBeforeNext == Lifecycle!LifeSpec
==============================================================================
