------------------------ MODULE TransactionExecution ------------------------
(***************************************************************************)
(* Transactions against one VersionDb.  Every transaction is a             *)
(* TransactionExecution object: a stack of TransactionOperations           *)
(* (operation_vector_) that MoveForward polls, the read and write sets and *)
(* the commit state (src/transaction/transaction-operation.cpp,            *)
(* src/transaction/transaction-execution.cpp).                             *)
(*                                                                         *)
(* A step is one answered handler call together with the NextImpl of the   *)
(* operation that sent it: NextImpl touches only the state of its own      *)
(* transaction, so it commutes with the steps of all others.  A composite  *)
(* operation (Upload, Validate, the post-processing) sends one call per    *)
(* entry at once; the answers come in any order and the composite moves on *)
(* when all have come.                                                     *)
(***************************************************************************)
EXTENDS LocalState

CONSTANTS
  NoKey,      \* no request for a key is being served
  Times,      \* the values TimeProvider::GetTime may return
  MaxReads,   \* bound: entries of a read set
  MaxWrites,  \* bound: entries of a write set
  Ops,        \* Ops[t]: the requests that the client of t makes
  Failing     \* the calls that may be answered with an error

ASSUME TransactionExecutionAssumption ==
  /\ NoKey \notin Key
  /\ Times \subseteq Nat
  /\ MaxReads \in Nat
  /\ MaxWrites \in Nat

Operation ==
  {"Reset", "InitTxn", "Idle", "Read", "ReadDataStore", "Insert", "Upsert",
   "Upload", "SetCommitTs", "Validate", "WriteToLog", "UpdateTxnStatusToCommit",
   "PostProcessingAfterCommit", "UpdateTxnStatusToAbort",
   "PostProcessingAfterAbort", "ReleaseReadCounter", "Finished", "Recover"}

ReadSetCalls  == {"UpdateReadEntryMaxCommitTs", "PushConflict", "ReleaseReadCounter"}
WriteSetCalls == {"UploadVersion", "CommitNew", "ClosePrev", "CommitNewFailed",
                  "ClosePrevFailed", "DeleteVersion"}

\* A call in flight for entry index of the read or write set; txn_id is the
\* conflicting transaction of PushConflictTxnCommitTsLowerBound.  CommitNewFailed
\* and ClosePrevFailed are the two errors a CommitVersion result keeps.
Call == [op : ReadSetCalls \cup WriteSetCalls,
         index : Nat, txn_id : Txn \cup {kEmptyTxId}]

CallFor(op, i) == [op |-> op, index |-> i, txn_id |-> kEmptyTxId]

PushCall(i, u) == [op |-> "PushConflict", index |-> i, txn_id |-> u]

Result == [status : TxnStatus, is_error : BOOLEAN, is_finished : BOOLEAN]

VARIABLES
  operation,   \* the operation at the bottom of operation_vector_
  calls,       \* the unanswered calls of the operations above it
  status,      \* status_
  request,     \* the key that Read, Insert or Upsert is reading
  result,      \* result_ and whether its request has been notified
  readSet,     \* local_state_.key_read_set_
  writeSet,    \* local_state_.key_write_set_
  commit_timestamp,
  max_commit_timestamp_of_writers

localVars == <<readSet, writeSet>>
tsVars    == <<commit_timestamp, max_commit_timestamp_of_writers>>
execVars  == <<operation, calls, status, request, result, localVars, tsVars>>
vars      == <<dbVars, execVars>>

EmptyResult == [status |-> "Ongoing", is_error |-> FALSE, is_finished |-> FALSE]

Init ==
  /\ DbInit
  /\ operation = [t \in Txn |-> "Reset"]
  /\ calls     = [t \in Txn |-> {}]
  /\ status    = [t \in Txn |-> "Ongoing"]
  /\ request   = [t \in Txn |-> NoKey]
  /\ result    = [t \in Txn |-> EmptyResult]
  /\ readSet   = [t \in Txn |-> <<>>]
  /\ writeSet  = [t \in Txn |-> <<>>]
  /\ commit_timestamp = [t \in Txn |-> -1]
  /\ max_commit_timestamp_of_writers = [t \in Txn |-> -1]

-----------------------------------------------------------------------------
(* Steps shared by the operations.                                         *)

Moves(t, from, to) ==
  /\ operation[t] = from
  /\ operation' = [operation EXCEPT ![t] = to]

\* The handler answers a call with an error and has changed nothing.
Fails(call) == call \in Failing /\ UNCHANGED dbVars

Answered(t, call) == calls' = [calls EXCEPT ![t] = @ \ {call}]

\* Result::SetFinished, SetError and SetStatus: the request is notified.
SetFinished(t, is_error) ==
  result' = [result EXCEPT ![t].is_error = is_error, ![t].is_finished = TRUE]

SetStatus(t, s) ==
  result' = [result EXCEPT ![t].status = s, ![t].is_finished = TRUE]

ResetResult(t) == result' = [result EXCEPT ![t] = EmptyResult]

\* Reset and notification of a request that is served at once.
Answer(t, is_error) ==
  result' = [result EXCEPT ![t] = [status |-> "Ongoing", is_error |-> is_error,
                                   is_finished |-> TRUE]]

\* TransactionOperation::PrepareAbort: the composite aborts once all answers are in.
PrepareAbort(t) == status' = [status EXCEPT ![t] = "WaitForAborting"]

\* TransactionOperation::Abort, carried out by the same MoveForward.
AbortFrom(t, from) ==
  /\ Moves(t, from, "UpdateTxnStatusToAbort")
  /\ status' = [status EXCEPT ![t] = "Aborted"]
  /\ calls' = [calls EXCEPT ![t] = {}]
  /\ ResetResult(t)
  /\ UNCHANGED <<request, localVars, tsVars>>

\* TransactionExecution::Recover throws; the transaction is left as it is.
Recover(t, from) ==
  /\ Moves(t, from, "Recover")
  /\ UNCHANGED <<status, request, result, localVars, tsVars>>

Requested(t, op) == operation[t] = "Idle" /\ op \in Ops[t]

-----------------------------------------------------------------------------
(* Begin.                                                                  *)

\* TransactionExecution::Reset and Begin.
Begin(t) ==
  /\ Moves(t, "Reset", "InitTxn")
  /\ ResetResult(t)
  /\ UNCHANGED <<dbVars, calls, status, request, localVars, tsVars>>

InitTxn(t) ==
  /\ Moves(t, "InitTxn", "Idle")
  /\ \E local_time \in Times : NewTxn(t, local_time)
  /\ SetFinished(t, FALSE)
  /\ UNCHANGED <<calls, status, request, localVars, tsVars>>

\* The transaction draws a new id and a new time and asks again.
InitTxnError(t) ==
  /\ Moves(t, "InitTxn", "InitTxn")
  /\ Fails("NewTxn")
  /\ UNCHANGED <<calls, status, request, result, localVars, tsVars>>

-----------------------------------------------------------------------------
(* Requests that read a version list: Read, Insert, Upsert.                *)

CallReadOutside(t, op, k) ==
  /\ Requested(t, op)
  /\ Len(readSet[t]) < MaxReads
  /\ op # "Read" => Len(writeSet[t]) < MaxWrites
  /\ Moves(t, "Idle", op)
  /\ request' = [request EXCEPT ![t] = k]
  /\ ResetResult(t)
  /\ UNCHANGED <<dbVars, calls, status, localVars, tsVars>>

Read(t, k) == CallReadOutside(t, "Read", k)

Insert(t, k) == CallReadOutside(t, "Insert", k)

Upsert(t, k) == CallReadOutside(t, "Upsert", k)

\* Mutant: the newest version, dirty or not.
PickNewestVersion(v1, v2) ==
  IF v1.is_deleted /\ v1.version <= kFirstVersion THEN DefaultEntry ELSE v1

\* The newer of the two versions unless it is dirty; DefaultEntry stands for none.
PickVisibleVersion(v1, v2) ==
  LET v == IF v1.end_ts # kDefaultEndTs THEN v1 ELSE v2 IN
  IF v.is_deleted /\ v.version <= kFirstVersion THEN DefaultEntry ELSE v

\* A new version of the key of read set entry i of rs, which is marked as updated.
InsertWriteSet(t, rs, i, is_deleted) ==
  /\ rs[i].version < MaxVersion
  /\ readSet' = [readSet EXCEPT ![t] = [rs EXCEPT ![i].is_updated = TRUE]]
  /\ writeSet' = [writeSet EXCEPT
       ![t] = Append(@, NewWriteSetEntry(rs[i].key, rs[i].version + 1, is_deleted, i))]

OnlyRead(t, rs) ==
  /\ readSet' = [readSet EXCEPT ![t] = rs]
  /\ UNCHANGED writeSet

\* What Insert and Upsert do after the read: rs is the read set it left behind.
ReadNext(t, rs, read_error) ==
  /\ operation[t] = "Read"
  /\ OnlyRead(t, rs)
  /\ SetFinished(t, read_error)

\* Mutant: the write is queued before the record in the way is noticed.
InsertNextBlind(t, rs, read_error) ==
  /\ operation[t] = "Insert"
  /\ \/ \E i \in DOMAIN rs :
          /\ Found(rs, request[t], i)
          /\ InsertWriteSet(t, rs, i, FALSE)
          /\ SetFinished(t, read_error \/ ~ rs[i].is_deleted)
     \/ /\ ~ InSet(rs, request[t])
        /\ OnlyRead(t, rs)
        /\ SetFinished(t, TRUE)

InsertNext(t, rs, read_error) ==
  /\ operation[t] = "Insert"
  /\ \/ \E i \in DOMAIN rs :
          /\ Found(rs, request[t], i) /\ rs[i].is_deleted
          /\ InsertWriteSet(t, rs, i, FALSE)
          /\ SetFinished(t, read_error)
     \/ /\ \A i \in DOMAIN rs : Found(rs, request[t], i) => ~ rs[i].is_deleted
        /\ OnlyRead(t, rs)
        /\ SetFinished(t, TRUE)

UpsertNext(t, rs, read_error) ==
  /\ operation[t] = "Upsert"
  /\ \/ \E i \in DOMAIN rs :
          /\ Found(rs, request[t], i)
          /\ InsertWriteSet(t, rs, i, FALSE)
          /\ SetFinished(t, read_error)
     \/ /\ ~ InSet(rs, request[t])
        /\ OnlyRead(t, rs)
        /\ SetFinished(t, read_error)

ReadOutsideNext(t, rs, read_error) ==
  /\ \/ ReadNext(t, rs, read_error)
     \/ InsertNext(t, rs, read_error)
     \/ UpsertNext(t, rs, read_error)
  /\ operation' = [operation EXCEPT ![t] = "Idle"]
  /\ request' = [request EXCEPT ![t] = NoKey]
  /\ UNCHANGED <<calls, status, tsVars>>

ReadOutside(t) ==
  /\ request[t] # NoKey
  /\ LET list == InitVersionList(versions[request[t]]) IN
     \E n \in 0 .. MaxVersion :
       /\ IsLatest(list, n)
       /\ LET v == PickVisibleVersion(list[n], SecondLatest(list, n)) IN
          ReadOutsideNext(t, Append(readSet[t], NewReadSetEntry(request[t], v)), FALSE)
  /\ GetVersionList(request[t])

\* The slot is given back; Insert and Upsert still look the key up.
ReadOutsideError(t) ==
  /\ request[t] # NoKey
  /\ Fails("GetVersionList")
  /\ ReadOutsideNext(t, readSet[t], TRUE)

-----------------------------------------------------------------------------
(* Requests that only touch the read and write sets: Update, Delete.       *)

Update(t, k) ==
  /\ Requested(t, "Update")
  /\ Len(writeSet[t]) < MaxWrites
  /\ \/ \E i \in DOMAIN readSet[t] :
          /\ Found(readSet[t], k, i)
          /\ ~ (readSet[t][i].is_deleted /\ readSet[t][i].version > 0)
          /\ InsertWriteSet(t, readSet[t], i, FALSE)
          /\ Answer(t, FALSE)
     \/ /\ \A i \in DOMAIN readSet[t] :
             Found(readSet[t], k, i) =>
               readSet[t][i].is_deleted /\ readSet[t][i].version > 0
        /\ UNCHANGED localVars
        /\ Answer(t, TRUE)
  /\ UNCHANGED <<dbVars, operation, calls, status, request, tsVars>>

\* A write that is already queued becomes a delete; otherwise a live read is deleted.
DeleteQueuedWrite(t, k) ==
  \E i \in DOMAIN writeSet[t] :
    /\ Found(writeSet[t], k, i)
    /\ ~ writeSet[t][i].is_deleted
    /\ writeSet' = [writeSet EXCEPT ![t][i].is_deleted = TRUE]
    /\ UNCHANGED readSet

DeleteReadVersion(t, k) ==
  /\ ~ InSet(writeSet[t], k)
  /\ Len(writeSet[t]) < MaxWrites
  /\ \E i \in DOMAIN readSet[t] :
       /\ Found(readSet[t], k, i)
       /\ ~ readSet[t][i].is_deleted
       /\ InsertWriteSet(t, readSet[t], i, TRUE)

NothingToDelete(t, k) ==
  /\ \A i \in DOMAIN writeSet[t] : Found(writeSet[t], k, i) => writeSet[t][i].is_deleted
  /\ InSet(writeSet[t], k) \/ \A i \in DOMAIN readSet[t] :
                                Found(readSet[t], k, i) => readSet[t][i].is_deleted

Delete(t, k) ==
  /\ Requested(t, "Delete")
  /\ \/ /\ DeleteQueuedWrite(t, k) \/ DeleteReadVersion(t, k)
        /\ Answer(t, FALSE)
     \/ /\ NothingToDelete(t, k)
        /\ UNCHANGED localVars
        /\ Answer(t, TRUE)
  /\ UNCHANGED <<dbVars, operation, calls, status, request, tsVars>>

-----------------------------------------------------------------------------
(* ReadDataStore: a read of the application's own store, outside the       *)
(* transaction; only its answer matters.                                   *)

ReadDataStore(t) ==
  /\ Requested(t, "ReadDataStore")
  /\ \/ /\ operation' = [operation EXCEPT ![t] = "ReadDataStore"]
        /\ ResetResult(t)
     \/ /\ Answer(t, FALSE)
        /\ UNCHANGED operation
  /\ UNCHANGED <<dbVars, calls, status, request, localVars, tsVars>>

ReadDataStoreNext(t) ==
  /\ Moves(t, "ReadDataStore", "Idle")
  /\ \E is_error \in BOOLEAN :
       /\ is_error => "ReadRecord" \in Failing
       /\ SetFinished(t, is_error)
  /\ UNCHANGED <<dbVars, calls, status, request, localVars, tsVars>>

-----------------------------------------------------------------------------
(* Commit: Upload, SetCommitTs.                                            *)

Commit(t) ==
  /\ Requested(t, "Commit")
  /\ Moves(t, "Idle", "Upload")
  /\ calls' = [calls EXCEPT ![t] = {CallFor("UploadVersion", i) : i \in DOMAIN writeSet[t]}]
  /\ ResetResult(t)
  /\ UNCHANGED <<dbVars, status, request, localVars, tsVars>>

UploadVersionEntry(t, i) ==
  LET w == writeSet[t][i] IN
  /\ CallFor("UploadVersion", i) \in calls[t]
  /\ UploadVersion(w.key, w.version, t, w.is_deleted)
  /\ Answered(t, CallFor("UploadVersion", i))
  /\ writeSet' = [writeSet EXCEPT ![t][i].need_post_processing = TRUE]
  /\ LET candidate == UploadVersionResult(w.key, w.version) IN
     max_commit_timestamp_of_writers' =
       [max_commit_timestamp_of_writers EXCEPT ![t] = IF @ < candidate THEN candidate ELSE @]
  /\ UNCHANGED <<operation, status, request, result, readSet, commit_timestamp>>

\* Mutant: a refused upload does not make the transaction abort.
UploadVersionEntryErrorIgnored(t, i) ==
  /\ CallFor("UploadVersion", i) \in calls[t]
  /\ ~ CanUploadVersion(writeSet[t][i].key, writeSet[t][i].version)
  /\ Answered(t, CallFor("UploadVersion", i))
  /\ UNCHANGED <<dbVars, operation, status, request, result, localVars, tsVars>>

\* Mutant: a refused upload is tried again until it succeeds.
UploadVersionEntryErrorRetried(t, i) ==
  /\ CallFor("UploadVersion", i) \in calls[t]
  /\ ~ CanUploadVersion(writeSet[t][i].key, writeSet[t][i].version)
  /\ UNCHANGED vars

\* The version exists (a write-write conflict) or the call fails.
UploadVersionEntryError(t, i) ==
  LET w == writeSet[t][i] IN
  /\ CallFor("UploadVersion", i) \in calls[t]
  /\ CanUploadVersion(w.key, w.version) => "UploadVersion" \in Failing
  /\ Answered(t, CallFor("UploadVersion", i))
  /\ PrepareAbort(t)
  /\ UNCHANGED <<dbVars, operation, request, result, localVars, tsVars>>

\* Mutant: no distinction between keys that are only read and keys that are written.
CommitTsCandidatesOfReads(t, local_time) ==
  {max_commit_timestamp_of_writers[t] + 1, local_time} \cup
  {readSet[t][i].begin_ts : i \in DOMAIN readSet[t]}

\* The lower bounds whose maximum SetCommitTsOperation::CallImpl proposes.
CommitTsCandidates(t, local_time) ==
  {max_commit_timestamp_of_writers[t] + 1, local_time} \cup
  {readSet[t][i].begin_ts + (IF InSet(writeSet[t], readSet[t][i].key) THEN 1 ELSE 0) :
     i \in DOMAIN readSet[t]}

UploadNext(t) ==
  /\ calls[t] = {}
  /\ UNCHANGED dbVars
  /\ \/ status[t] = "WaitForAborting" /\ AbortFrom(t, "Upload")
     \/ /\ status[t] # "WaitForAborting"
        /\ Moves(t, "Upload", "SetCommitTs")
        /\ \E local_time \in Times :
             \E ts \in CommitTsCandidates(t, local_time) :
               /\ \A other \in CommitTsCandidates(t, local_time) : other <= ts
               /\ commit_timestamp' = [commit_timestamp EXCEPT ![t] = ts]
        /\ UNCHANGED <<calls, status, request, result, localVars,
                       max_commit_timestamp_of_writers>>

\* Mutant: a transaction that writes nothing need not validate.
RereadCallsOfWriters(t) ==
  {CallFor("UpdateReadEntryMaxCommitTs", i) :
     i \in {j \in DOMAIN readSet[t] : writeSet[t] # <<>> /\ ~ readSet[t][j].is_updated}}

\* Validate starts with one reread for each entry that has not been updated.
RereadCalls(t) ==
  {CallFor("UpdateReadEntryMaxCommitTs", i) :
     i \in {j \in DOMAIN readSet[t] : ~ readSet[t][j].is_updated}}

SetCommitTs(t) ==
  /\ Moves(t, "SetCommitTs", "Validate")
  /\ SetCommitTimestamp(t, commit_timestamp[t])
  /\ commit_timestamp' = [commit_timestamp EXCEPT
                            ![t] = SetCommitTimestampResult(t, @)]
  /\ calls' = [calls EXCEPT ![t] = RereadCalls(t)]
  /\ UNCHANGED <<status, request, result, localVars, max_commit_timestamp_of_writers>>

\* An error and a negative timestamp are treated alike.
SetCommitTsError(t) ==
  /\ Fails("SetCommitTimestamp")
  /\ AbortFrom(t, "SetCommitTs")

-----------------------------------------------------------------------------
(* Commit: Validate, WriteToLog, UpdateTxnStatusToCommit.                  *)

\* Mutant: the reader forgets that its pin is gone.
ReleasedTwice(t, i) == UNCHANGED readSet

\* The read of entry i is no longer counted in the store.
Released(t, i) == readSet' = [readSet EXCEPT ![t][i].need_release = FALSE]

\* What the reread entry means for a transaction that wants to commit at ts.
MustAbort(entry, ts) == entry.version = kDefaultVersion \/ ts > entry.end_ts

IsLocked(entry, t) == entry.tx_id # kEmptyTxId

UpdateReadEntryMaxCommitTs(t, i) ==
  LET r     == readSet[t][i]
      call  == CallFor("UpdateReadEntryMaxCommitTs", i)
      entry == versions[r.key][r.version]
      ts    == commit_timestamp[t]
  IN
  /\ call \in calls[t]
  /\ UpdateMaxCommitTsAndReread(r.key, r.version, ts)
  /\ Released(t, i)
  /\ \/ /\ MustAbort(entry, ts)
        /\ Answered(t, call)
        /\ PrepareAbort(t)
     \/ /\ ~ MustAbort(entry, ts) /\ IsLocked(entry, t)
        /\ calls' = [calls EXCEPT ![t] = (@ \ {call}) \cup {PushCall(i, entry.tx_id)}]
        /\ UNCHANGED status
     \/ /\ ~ MustAbort(entry, ts) /\ ~ IsLocked(entry, t)
        /\ Answered(t, call)
        /\ UNCHANGED status
  /\ UNCHANGED <<operation, request, result, writeSet, tsVars>>

UpdateReadEntryMaxCommitTsError(t, i) ==
  /\ CallFor("UpdateReadEntryMaxCommitTs", i) \in calls[t]
  /\ Fails("UpdateMaxCommitTsAndReread")
  /\ Answered(t, CallFor("UpdateReadEntryMaxCommitTs", i))
  /\ PrepareAbort(t)
  /\ UNCHANGED <<operation, request, result, localVars, tsVars>>

\* Mutant: a writer that has not committed yet is no conflict.
ConflictsIfCommitted(txn_entry, ts) ==
  txn_entry.status = "Committed" /\ txn_entry.commit_ts <= ts

\* The writer that locks the version commits, or may commit, no later than ts.
Conflicts(txn_entry, ts) ==
  \/ txn_entry.status = "Committed" /\ txn_entry.commit_ts <= ts
  \/ /\ txn_entry.status = "Ongoing"
     /\ txn_entry.commit_ts # kDefaultCommitTs /\ txn_entry.commit_ts <= ts

PushConflictTxnCommitTsLowerBound(t, i, u) ==
  /\ PushCall(i, u) \in calls[t]
  /\ UpdateCommitLowerBound(u, commit_timestamp[t] + 1)
  /\ Answered(t, PushCall(i, u))
  /\ \/ Conflicts(txns[u], commit_timestamp[t]) /\ PrepareAbort(t)
     \/ ~ Conflicts(txns[u], commit_timestamp[t]) /\ UNCHANGED status
  /\ UNCHANGED <<operation, request, result, localVars, tsVars>>

PushConflictTxnCommitTsLowerBoundError(t, i, u) ==
  /\ PushCall(i, u) \in calls[t]
  /\ Fails("UpdateCommitLowerBound")
  /\ Answered(t, PushCall(i, u))
  /\ PrepareAbort(t)
  /\ UNCHANGED <<operation, request, result, localVars, tsVars>>

ValidateNext(t) ==
  /\ calls[t] = {}
  /\ UNCHANGED dbVars
  /\ \/ status[t] = "WaitForAborting" /\ AbortFrom(t, "Validate")
     \/ /\ status[t] # "WaitForAborting"
        /\ Moves(t, "Validate", "WriteToLog")
        /\ UNCHANGED <<calls, status, request, result, localVars, tsVars>>

\* ENABLE_LOG is false: the operation is finished as soon as it is called.
WriteToLog(t) ==
  /\ Moves(t, "WriteToLog", "UpdateTxnStatusToCommit")
  /\ UNCHANGED <<dbVars, calls, status, request, result, localVars, tsVars>>

\* Mutant: the first entry is skipped.
PostProcessIndexFromSecond(t) ==
  {i \in DOMAIN writeSet[t] : i > 1 /\ writeSet[t][i].need_post_processing}

\* The entries of the write set that are in the store.
PostProcessIndex(t) == {i \in DOMAIN writeSet[t] : writeSet[t][i].need_post_processing}

UpdateTxnStatusToCommit(t) ==
  /\ Moves(t, "UpdateTxnStatusToCommit", "PostProcessingAfterCommit")
  /\ UpdateTxnStatus(t, "Committed")
  /\ SetStatus(t, "Committed")
  /\ calls' = [calls EXCEPT ![t] = {CallFor("CommitNew", i) : i \in PostProcessIndex(t)}
                              \cup {CallFor("ClosePrev", i) : i \in PostProcessIndex(t)}]
  /\ UNCHANGED <<status, request, localVars, tsVars>>

UpdateTxnStatusToCommitError(t) ==
  /\ Fails("UpdateTxnStatus")
  /\ Recover(t, "UpdateTxnStatusToCommit")
  /\ UNCHANGED calls

-----------------------------------------------------------------------------
(* Post-processing after the commit.                                       *)

CommitHalf == {"CommitNew", "ClosePrev"}

OtherHalf(half) == IF half = "CommitNew" THEN "ClosePrev" ELSE "CommitNew"

Failed(half) == IF half = "CommitNew" THEN "CommitNewFailed" ELSE "ClosePrevFailed"

\* The answer to one half of CommitVersion.  The operation looks at its result only
\* when both have come (ref_cnt = 0): an error in either makes it Recover, otherwise
\* the pin of the version that was read is gone.
CommitEntryAnswered(t, i, half, is_error) ==
  LET rest == (calls[t] \ {CallFor(half, i)})
                \cup (IF is_error THEN {CallFor(Failed(half), i)} ELSE {})
      both_answered == CallFor(OtherHalf(half), i) \notin rest
      error == \E h \in CommitHalf : CallFor(Failed(h), i) \in rest
  IN
  /\ calls' = [calls EXCEPT ![t] = rest]
  /\ operation' = [operation EXCEPT ![t] = IF both_answered /\ error THEN "Recover" ELSE @]
  /\ readSet' = [readSet EXCEPT
       ![t][writeSet[t][i].read_entry].need_release = @ /\ ~ (both_answered /\ ~ error)]
  /\ UNCHANGED <<status, request, result, writeSet, tsVars>>

PostProcessingCommitNew(t, i) ==
  LET w == writeSet[t][i] IN
  /\ CallFor("CommitNew", i) \in calls[t]
  /\ CanCommitNewVersion(w.key, w.version, t)
  /\ CommitNewVersion(w.key, w.version, commit_timestamp[t])
  /\ CommitEntryAnswered(t, i, "CommitNew", FALSE)

PostProcessingClosePrev(t, i) ==
  LET w == writeSet[t][i] IN
  /\ CallFor("ClosePrev", i) \in calls[t]
  /\ CanClosePrevVersion(w.key, w.version, t)
  /\ ClosePrevVersion(w.key, w.version, commit_timestamp[t])
  /\ CommitEntryAnswered(t, i, "ClosePrev", FALSE)

\* Mutant: a transaction whose versions cannot be committed is aborted after all.
PostProcessingCommitEntryErrorAborts(t, i) ==
  /\ CallFor("CommitNew", i) \in calls[t]
  /\ Fails("CommitVersion")
  /\ AbortFrom(t, "PostProcessingAfterCommit")

PostProcessingCommitEntryError(t, i) ==
  LET w == writeSet[t][i] IN
  /\ UNCHANGED dbVars
  /\ \/ /\ CallFor("CommitNew", i) \in calls[t]
        /\ CanCommitNewVersion(w.key, w.version, t) => "CommitVersion" \in Failing
        /\ CommitEntryAnswered(t, i, "CommitNew", TRUE)
     \/ /\ CallFor("ClosePrev", i) \in calls[t]
        /\ CanClosePrevVersion(w.key, w.version, t) => "CommitVersion" \in Failing
        /\ CommitEntryAnswered(t, i, "ClosePrev", TRUE)

PostProcessingAfterCommitNext(t) ==
  /\ calls[t] = {}
  /\ Moves(t, "PostProcessingAfterCommit", "Finished")
  /\ status' = [status EXCEPT ![t] = "Committed"]
  /\ UNCHANGED <<dbVars, calls, request, result, localVars, tsVars>>

-----------------------------------------------------------------------------
(* Abort.                                                                  *)

\* TransactionExecution::Abort on the client's request.
Abort(t) ==
  /\ Requested(t, "Abort")
  /\ Moves(t, "Idle", "UpdateTxnStatusToAbort")
  /\ ResetResult(t)
  /\ UNCHANGED <<dbVars, calls, status, request, localVars, tsVars>>

\* Mutant: the client of a commit that aborts is not told.
UpdateTxnStatusToAbortUnanswered(t) ==
  /\ Moves(t, "UpdateTxnStatusToAbort", "PostProcessingAfterAbort")
  /\ UpdateTxnStatus(t, "Aborted")
  /\ calls' = [calls EXCEPT ![t] = {CallFor("DeleteVersion", i) : i \in PostProcessIndex(t)}]
  /\ UNCHANGED <<status, request, result, localVars, tsVars>>

UpdateTxnStatusToAbort(t) ==
  /\ Moves(t, "UpdateTxnStatusToAbort", "PostProcessingAfterAbort")
  /\ UpdateTxnStatus(t, "Aborted")
  /\ SetStatus(t, "Aborted")
  /\ calls' = [calls EXCEPT ![t] = {CallFor("DeleteVersion", i) : i \in PostProcessIndex(t)}]
  /\ UNCHANGED <<status, request, localVars, tsVars>>

UpdateTxnStatusToAbortError(t) ==
  /\ Fails("UpdateTxnStatus")
  /\ Recover(t, "UpdateTxnStatusToAbort")
  /\ UNCHANGED calls

PostProcessingDeleteEntryAfterAbort(t, i) ==
  LET w == writeSet[t][i] IN
  /\ CallFor("DeleteVersion", i) \in calls[t]
  /\ CanDeleteVersion(w.key, w.version)
  /\ DeleteVersion(w.key, w.version)
  /\ Answered(t, CallFor("DeleteVersion", i))
  /\ UNCHANGED <<operation, status, request, result, localVars, tsVars>>

PostProcessingDeleteEntryAfterAbortError(t, i) ==
  LET w == writeSet[t][i] IN
  /\ CallFor("DeleteVersion", i) \in calls[t]
  /\ CanDeleteVersion(w.key, w.version) => "DeleteVersion" \in Failing
  /\ UNCHANGED dbVars
  /\ Answered(t, CallFor("DeleteVersion", i))
  /\ Recover(t, "PostProcessingAfterAbort")

\* Mutant: the entries that were updated are taken for released.
ReleaseIndexOfReads(t) ==
  {i \in DOMAIN readSet[t] : readSet[t][i].need_release /\ ~ readSet[t][i].is_updated}

\* The reads that validation has not released.
ReleaseIndex(t) == {i \in DOMAIN readSet[t] : readSet[t][i].need_release}

PostProcessingAfterAbortNext(t) ==
  /\ calls[t] = {}
  /\ Moves(t, "PostProcessingAfterAbort", "ReleaseReadCounter")
  /\ calls' = [calls EXCEPT ![t] = {CallFor("ReleaseReadCounter", i) : i \in ReleaseIndex(t)}]
  /\ UNCHANGED <<dbVars, status, request, result, localVars, tsVars>>

ReleaseReadCounterForEachEntry(t, i) ==
  /\ CallFor("ReleaseReadCounter", i) \in calls[t]
  /\ ReleaseReadCounter(readSet[t][i].key)
  /\ Released(t, i)
  /\ Answered(t, CallFor("ReleaseReadCounter", i))
  /\ UNCHANGED <<operation, status, request, result, writeSet, tsVars>>

ReleaseReadCounterForEachEntryError(t, i) ==
  /\ CallFor("ReleaseReadCounter", i) \in calls[t]
  /\ Fails("ReleaseReadCounter")
  /\ Answered(t, CallFor("ReleaseReadCounter", i))
  /\ Recover(t, "ReleaseReadCounter")

ReleaseReadCounterNext(t) ==
  /\ calls[t] = {}
  /\ Moves(t, "ReleaseReadCounter", "Finished")
  /\ status' = [status EXCEPT ![t] = "Aborted"]
  /\ UNCHANGED <<dbVars, calls, request, result, localVars, tsVars>>

-----------------------------------------------------------------------------
\* A client's decision to make its next request.
Client(t) ==
  \/ Begin(t) \/ Commit(t) \/ Abort(t) \/ ReadDataStore(t)
  \/ \E k \in Key : Read(t, k) \/ Insert(t, k) \/ Upsert(t, k) \/ Update(t, k) \/ Delete(t, k)

\* An answer for an entry of the read set, of the write set.
ReadEntryStep(t, i) ==
  \/ UpdateReadEntryMaxCommitTs(t, i) \/ UpdateReadEntryMaxCommitTsError(t, i)
  \/ \E u \in Txn : \/ PushConflictTxnCommitTsLowerBound(t, i, u)
                    \/ PushConflictTxnCommitTsLowerBoundError(t, i, u)
  \/ ReleaseReadCounterForEachEntry(t, i) \/ ReleaseReadCounterForEachEntryError(t, i)

WriteEntryStep(t, i) ==
  \/ UploadVersionEntry(t, i) \/ UploadVersionEntryError(t, i)
  \/ PostProcessingCommitNew(t, i) \/ PostProcessingClosePrev(t, i)
  \/ PostProcessingCommitEntryError(t, i)
  \/ PostProcessingDeleteEntryAfterAbort(t, i)
  \/ PostProcessingDeleteEntryAfterAbortError(t, i)

\* The executor's polling of a transaction that has something to do.
Progress(t) ==
  \/ InitTxn(t) \/ InitTxnError(t) \/ ReadOutside(t) \/ ReadOutsideError(t)
  \/ ReadDataStoreNext(t)
  \/ \E i \in DOMAIN readSet[t] : ReadEntryStep(t, i)
  \/ \E i \in DOMAIN writeSet[t] : WriteEntryStep(t, i)
  \/ UploadNext(t) \/ SetCommitTs(t) \/ SetCommitTsError(t) \/ ValidateNext(t)
  \/ WriteToLog(t)
  \/ UpdateTxnStatusToCommit(t) \/ UpdateTxnStatusToCommitError(t)
  \/ PostProcessingAfterCommitNext(t)
  \/ UpdateTxnStatusToAbort(t) \/ UpdateTxnStatusToAbortError(t)
  \/ PostProcessingAfterAbortNext(t) \/ ReleaseReadCounterNext(t)

\* Every transaction has ended; the system rests.
AllEnded ==
  /\ \A t \in Txn : operation[t] \in {"Finished", "Recover"}
  /\ UNCHANGED vars

Next == (\E t \in Txn : Client(t) \/ Progress(t)) \/ AllEnded

Spec == Init /\ [][Next]_vars

\* The executor polls every transaction again and again (Advance); clients may stop.
FairSpec == Spec /\ \A t \in Txn : WF_vars(Progress(t))
=============================================================================
