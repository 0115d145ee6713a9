------------------------ MODULE TransactionProperties ------------------------
(***************************************************************************)
(* What the transactions of TransactionExecution promise.                  *)
(***************************************************************************)
EXTENDS TransactionExecution, FiniteSets

Committed == {t \in Txn : txns[t].status = "Committed"}

\* The types of all variables.
TypeOK ==
  /\ DbTypeOK
  /\ operation \in [Txn -> Operation]
  /\ calls \in [Txn -> SUBSET Call]
  /\ status \in [Txn -> TxnStatus]
  /\ request \in [Txn -> Key \cup {NoKey}]
  /\ result \in [Txn -> Result]
  /\ readSet \in [Txn -> Seq(ReadSetEntry)]
  /\ writeSet \in [Txn -> Seq(WriteSetEntry)]
  /\ commit_timestamp \in [Txn -> Int]
  /\ max_commit_timestamp_of_writers \in [Txn -> Int]

-----------------------------------------------------------------------------
(* Isolation.                                                              *)

\* u read a version t wrote, or a later one.
ReadsFrom(u, t) ==
  \E i \in DOMAIN writeSet[t], j \in DOMAIN readSet[u] :
    /\ writeSet[t][i].key = readSet[u][j].key
    /\ writeSet[t][i].version <= readSet[u][j].version

\* u wrote a later version of a key than the one t read or wrote.
Supersedes(u, t) ==
  \E j \in DOMAIN writeSet[u] :
    \/ \E i \in DOMAIN writeSet[t] :
         /\ writeSet[t][i].key = writeSet[u][j].key
         /\ writeSet[t][i].version < writeSet[u][j].version
    \/ \E i \in DOMAIN readSet[t] :
         /\ readSet[t][i].key = writeSet[u][j].key
         /\ readSet[t][i].version < writeSet[u][j].version

\* The committed transactions can be put in a serial order that explains every
\* version they read and wrote, whatever the interleaving of their uploads,
\* timestamp choices, rereads, pushes and post-processing.
ConflictSerializable ==
  \E rank \in [Committed -> 1 .. Cardinality(Committed)] :
    \A t, u \in Committed :
      t # u /\ (ReadsFrom(u, t) \/ Supersedes(u, t)) => rank[t] < rank[u]

\* The commit timestamps are such an order: a reader commits no earlier than the
\* writer of what it read, and a writer commits strictly after everyone who
\* read or wrote an earlier version of the key.
SerializableByTimestamp ==
  \A t, u \in Committed : t # u =>
    /\ ReadsFrom(u, t) => commit_timestamp[t] <= commit_timestamp[u]
    /\ Supersedes(u, t) => commit_timestamp[t] < commit_timestamp[u]

\* No two committed transactions wrote the same version of a key: neither
\* update overwrote the other, although both may have read the same version.
NoLostUpdate ==
  \A t, u \in Committed : \A i \in DOMAIN writeSet[t], j \in DOMAIN writeSet[u] :
    t # u => \/ writeSet[t][i].key # writeSet[u][j].key
             \/ writeSet[t][i].version # writeSet[u][j].version

\* A committed transaction has read only what committed transactions wrote: the
\* writer of each version it read has committed that version, and the version
\* is still there.  A version that an abort deletes has been read by nobody
\* who commits.
ReadsCommitted ==
  \A t \in Committed : \A i \in DOMAIN readSet[t] :
    LET r == readSet[t][i] IN
    r.version > 0 =>
      /\ Exists(r.key, r.version)
      /\ \E u \in Committed : \E j \in DOMAIN writeSet[u] :
           /\ writeSet[u][j].key = r.key
           /\ writeSet[u][j].version = r.version
           /\ r.begin_ts = commit_timestamp[u]

\* Past validation, nothing can take away what a transaction read: whoever
\* supersedes the version, before or after the transaction commits, closes it at
\* or after the transaction's commit timestamp.  The reread records that
\* timestamp in the version for later writers, the push moves writers that are
\* there already.
ValidatedReadsHold ==
  \A t \in Txn :
    operation[t] \in {"WriteToLog", "UpdateTxnStatusToCommit"} \/ t \in Committed =>
      \A i \in DOMAIN readSet[t] :
        ~ readSet[t][i].is_updated =>
          /\ versions[readSet[t][i].key][readSet[t][i].version].end_ts >= commit_timestamp[t]
          /\ readSet[t][i].begin_ts <= commit_timestamp[t]

-----------------------------------------------------------------------------
(* The version lists.                                                      *)

Dirty(k, n) == Exists(k, n) /\ versions[k][n].end_ts = kDefaultEndTs

\* The versions of a key follow each other without gaps, at most the newest one
\* is dirty, and the predecessor of a dirty version is locked by the dirty
\* version's owner, or closed already by that owner's post-processing.
VersionChain ==
  \A k \in Key : \A n \in 1 .. MaxVersion :
    Exists(k, n) =>
      /\ Exists(k, n - 1)
      /\ ~ Dirty(k, n - 1)
      /\ Dirty(k, n) =>
           LET owner == versions[k][n].tx_id IN
           \/ versions[k][n - 1].tx_id = owner
           \/ /\ owner \in Committed
              /\ versions[k][n - 1].end_ts = commit_timestamp[owner] - EndTsGap

\* A version is readable from its begin_ts to its end_ts; the interval of a
\* superseded version ends where its successor's begins, so that no two versions
\* of a key are current at one time.
VersionIntervals ==
  \A k \in Key : \A n \in 1 .. MaxVersion :
    Exists(k, n) /\ ~ Dirty(k, n) =>
      /\ versions[k][n - 1].begin_ts < versions[k][n].begin_ts
      /\ \/ versions[k][n - 1].end_ts = versions[k][n].begin_ts - EndTsGap
         \/ versions[k][n - 1].tx_id # kEmptyTxId

\* A transaction that has finished, committed or aborted, owns no version and
\* locks none: nobody will ever push a transaction that cannot answer.
NoOrphanLocks ==
  \A k \in Key : \A n \in 0 .. MaxVersion :
    versions[k][n].tx_id # kEmptyTxId => operation[versions[k][n].tx_id] # "Finished"

\* Read set entry i of t pins its version: its read is counted, and neither a
\* reread nor its writer's post-processing has released it.
Pins(t, i) ==
  /\ readSet[t][i].need_release
  /\ ~ \E j \in DOMAIN writeSet[t] :
         /\ t \in Committed
         /\ writeSet[t][j].read_entry = i
         /\ {CallFor("ClosePrev", j), CallFor("ClosePrevFailed", j)} \cap calls[t] = {}

\* Every read is released exactly once, by the reread of validation, by the
\* commit of the version that supersedes it or by the clean-up of an abort: the
\* counter of a key is the number of reads that are still pinned.
PinsBalanced ==
  \A k \in Key :
    read_counter[k] =
      Cardinality({p \in Txn \X (1 .. MaxReads) :
                     /\ p[2] \in DOMAIN readSet[p[1]]
                     /\ readSet[p[1]][p[2]].key = k
                     /\ Pins(p[1], p[2])})

-----------------------------------------------------------------------------
(* The executions.                                                         *)

\* Without a failing call no transaction ever reaches Recover: the versions that
\* post-processing commits or deletes are there and are its own.
RecoverOnlyAfterFailure ==
  Failing = {} => \A t \in Txn : operation[t] # "Recover"

\* The client, the execution and the transaction table agree on how a finished
\* transaction ended, and its reads are all released.
OutcomeAgreed ==
  \A t \in Txn : operation[t] = "Finished" =>
    /\ status[t] \in {"Committed", "Aborted"}
    /\ result[t].status = status[t]
    /\ txns[t].status = status[t]
    /\ result[t].is_finished
    /\ \A i \in DOMAIN readSet[t] : ~ readSet[t][i].need_release

\* A decision is final: once the transaction table says committed or aborted, or
\* the client has been told so, no later step of post-processing, failing or
\* not, takes it back.
DecisionIsFinal ==
  [][\A t \in Txn :
       /\ txns[t].status # "Ongoing" => txns'[t].status = txns[t].status
       /\ result[t].status # "Ongoing" => result'[t].status = result[t].status]_vars

\* A request that is answered with an error has queued no write that a commit would
\* publish, with one exception that the code makes: an Insert or Upsert whose
\* read has failed goes on with what an earlier read of the key has left.
ErrorLeavesNoWrite ==
  [][\A t \in Txn : result'[t].is_error /\ writeSet'[t] # writeSet[t] =>
       /\ operation[t] \in {"Insert", "Upsert"}
       /\ InSet(readSet[t], request[t])
       /\ Len(readSet'[t]) = Len(readSet[t])]_vars

\* Every request that the executor has taken up is answered or ends the
\* transaction, in Recover if its decision or post-processing fails: no transaction
\* waits for another one, not even for the locks that a Recover leaves behind.
RequestsComplete ==
  \A t \in Txn :
    operation[t] \notin {"Reset", "Idle", "Finished", "Recover"} ~>
      operation[t] \in {"Idle", "Finished", "Recover"}

-----------------------------------------------------------------------------
(* Why no update is lost: the inductive invariant behind NoLostUpdate.     *)

\* Write set entry i of t is in the store, from the answer to its upload to the
\* answer to its deletion.
Holds(t, i) ==
  /\ writeSet[t][i].need_post_processing
  /\ txns[t].status = "Aborted" => CallFor("DeleteVersion", i) \in calls[t]

AfterDecision == {"PostProcessingAfterCommit", "PostProcessingAfterAbort",
                  "ReleaseReadCounter", "Finished", "Recover"}

\* The transaction table decides in UpdateTxnStatusToCommit or
\* UpdateTxnStatusToAbort, and the client is told then, not before.
Undecided(t) ==
  operation[t] \notin AfterDecision =>
    txns[t].status = "Ongoing" /\ result[t].status = "Ongoing"

\* A transaction gets past Upload without aborting only if all its versions are in.
AllUploaded(t) ==
  \A i \in DOMAIN writeSet[t] :
    /\ operation[t] = "Upload" =>
         \/ writeSet[t][i].need_post_processing
         \/ CallFor("UploadVersion", i) \in calls[t]
         \/ status[t] = "WaitForAborting"
    /\ \/ operation[t] \in {"SetCommitTs", "Validate", "WriteToLog",
                            "UpdateTxnStatusToCommit"}
       \/ t \in Committed
       => writeSet[t][i].need_post_processing

\* Only an aborted transaction deletes versions, and only what it has uploaded.
DeletesUploaded(t) ==
  \A call \in calls[t] : call.op = "DeleteVersion" =>
    /\ operation[t] \in {"PostProcessingAfterAbort", "Recover"}
    /\ txns[t].status = "Aborted"
    /\ call.index \in PostProcessIndex(t)

HeldExists ==
  \A t \in Txn : \A i \in DOMAIN writeSet[t] :
    Holds(t, i) => Exists(writeSet[t][i].key, writeSet[t][i].version)

HeldOnce ==
  \A t, u \in Txn : \A i \in DOMAIN writeSet[t], j \in DOMAIN writeSet[u] :
    /\ Holds(t, i) /\ Holds(u, j)
    /\ writeSet[t][i].key = writeSet[u][j].key
    /\ writeSet[t][i].version = writeSet[u][j].version
    => t = u /\ i = j

\* Every version in the store that a transaction will commit or delete is held by
\* exactly one write set entry of exactly one transaction, from upload through
\* decision and post-processing.
OwnershipInv ==
  /\ \A t \in Txn : Undecided(t) /\ AllUploaded(t) /\ DeletesUploaded(t)
  /\ HeldExists
  /\ HeldOnce

-----------------------------------------------------------------------------
(* What two comments of the source say, and the code does not do.          *)

\* transaction-operation.cpp:511, "Check whether the read version entry is
\* locked by another txn": the transaction that validation pushes is another.
PushesAnotherTxn ==
  \A t \in Txn : \A call \in calls[t] : call.op = "PushConflict" => call.txn_id # t

\* handler.h:25-26, the upload fails "if the version specified in the request
\* exists (indicates a w-w conflict)": the version that makes an upload fail is
\* another transaction's.
UploadConflictsWithAnotherTxn ==
  \A t \in Txn : \A i \in DOMAIN writeSet[t] :
    CallFor("UploadVersion", i) \in calls[t] =>
      versions[writeSet[t][i].key][writeSet[t][i].version].tx_id # t
=============================================================================
