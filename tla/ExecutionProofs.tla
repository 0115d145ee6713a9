--------------------------- MODULE ExecutionProofs ---------------------------
(***************************************************************************)
(* Proofs about TransactionExecution, for any number of transactions,      *)
(* keys, versions and requests.                                            *)
(*                                                                         *)
(* First what the calls of the store preserve, type correctness, and who   *)
(* owns a version: no update is lost and no decision is taken back.        *)
(*                                                                         *)
(* Then what a transaction may rely on about itself, from its first        *)
(* request to its end: its table entry says what its operation says, its   *)
(* calls belong to the operation that sent them, every queued write goes   *)
(* with a read, its commit timestamp is later than what it supersedes, and *)
(* a finished transaction has released every read.                         *)
(*                                                                         *)
(* At last that an execution implements TransactionLifecycle, what an      *)
(* answer with an error has queued, and that the read counters count the   *)
(* reads that are pinned.                                                  *)
(***************************************************************************)
EXTENDS TransactionRefinement, TLAPS, SequenceTheorems, FiniteSetTheorems

-----------------------------------------------------------------------------
(* The calls of the store.                                                 *)

\* A step after which every version that existed still exists.
KeepsVersions ==
  \A k \in Key : \A n \in 0 .. MaxVersion : Exists(k, n) => Exists(k, n)'

\* Changing one version entry keeps its type and its version number.
LEMMA EntryUpdates ==
  ASSUME NEW entry \in VersionEntry, NEW t \in Txn \cup {kEmptyTxId}, NEW ts \in Int
  PROVE  /\ LockedBy(entry, t) \in VersionEntry
         /\ LockedBy(entry, t).version = entry.version
         /\ CommittedAt(entry, ts) \in VersionEntry
         /\ CommittedAt(entry, ts).version = entry.version
         /\ ClosedBy(entry, ts) \in VersionEntry
         /\ ClosedBy(entry, ts).version = entry.version
         /\ RaisedMaxCommitTs(entry, ts) \in VersionEntry
         /\ RaisedMaxCommitTs(entry, ts).version = entry.version
<1>1. \A u \in Txn \cup {kEmptyTxId} :
        LockedBy(entry, u) \in VersionEntry /\ LockedBy(entry, u).version = entry.version
  BY DEF VersionEntry, LockedBy
<1>2. CommittedAt(entry, ts) \in VersionEntry /\ CommittedAt(entry, ts).version = entry.version
  BY VersionDbAssumption DEF VersionEntry, CommittedAt
<1>3. ClosedBy(entry, ts) \in VersionEntry /\ ClosedBy(entry, ts).version = entry.version
  BY <1>1, VersionDbAssumption DEF VersionEntry, ClosedBy
<1>4. /\ RaisedMaxCommitTs(entry, ts) \in VersionEntry
      /\ RaisedMaxCommitTs(entry, ts).version = entry.version
  BY DEF VersionEntry, RaisedMaxCommitTs
<1> QED BY <1>1, <1>2, <1>3, <1>4

\* The entries that the calls put into a version list are version entries.
LEMMA NewEntries ==
  /\ DefaultEntry \in VersionEntry
  /\ PseudoVersion \in VersionEntry
  /\ \A n \in 0 .. MaxVersion, t \in Txn, is_deleted \in BOOLEAN :
       /\ DirtyVersion(n, t, is_deleted) \in VersionEntry
       /\ DirtyVersion(n, t, is_deleted).version = n
BY VersionDbAssumption
   DEF DefaultEntry, PseudoVersion, DirtyVersion, VersionEntry, kDefaultVersion,
       kDefaultBeginTs, kDefaultEndTs, kFirstVersion

\* Replacing one entry of a list by another of the same version number.
LEMMA OneEntryChanged ==
  ASSUME DbTypeOK, NEW k \in Key, NEW m \in 0 .. MaxVersion, NEW entry \in VersionEntry,
         entry.version = versions[k][m].version,
         versions' = [versions EXCEPT ![k] = [@ EXCEPT ![m] = entry]]
  PROVE  versions' \in [Key -> [0 .. MaxVersion -> VersionEntry]] /\ KeepsVersions
<1>1. [versions[k] EXCEPT ![m] = entry] \in [0 .. MaxVersion -> VersionEntry]
  BY DEF DbTypeOK
<1>2. versions' \in [Key -> [0 .. MaxVersion -> VersionEntry]]
  BY <1>1 DEF DbTypeOK
<1>3. \A l \in Key : \A n \in 0 .. MaxVersion : versions'[l][n].version = versions[l][n].version
  BY DEF DbTypeOK
<1> QED BY <1>2, <1>3 DEF KeepsVersions, Exists

\* GetVersionList creates at most the pseudo version.
LEMMA GetVersionListStep ==
  ASSUME DbTypeOK, NEW k \in Key, GetVersionList(k)
  PROVE  DbTypeOK' /\ KeepsVersions /\ InitVersionList(versions[k]) \in [0 .. MaxVersion -> VersionEntry]
<1>1. 0 \in 0 .. MaxVersion
  BY VersionDbAssumption
<1>2. InitVersionList(versions[k]) \in [0 .. MaxVersion -> VersionEntry]
  BY <1>1, NewEntries DEF InitVersionList, DbTypeOK, kFirstVersion
<1>3. \A n \in 0 .. MaxVersion :
        versions[k][n].version # kDefaultVersion =>
          InitVersionList(versions[k])[n].version # kDefaultVersion
  BY <1>1 DEF InitVersionList, DbTypeOK, kFirstVersion, PseudoVersion, kDefaultVersion
<1>4. versions' \in [Key -> [0 .. MaxVersion -> VersionEntry]] /\ KeepsVersions
  BY <1>2, <1>3 DEF GetVersionList, DbTypeOK, KeepsVersions, Exists
<1> QED BY <1>2, <1>4 DEF GetVersionList, DbTypeOK

\* UploadVersion adds one version and removes none.
LEMMA UploadVersionStep ==
  ASSUME DbTypeOK, NEW k \in Key, NEW n \in 1 .. MaxVersion, NEW t \in Txn,
         NEW is_deleted \in BOOLEAN, UploadVersion(k, n, t, is_deleted)
  PROVE  /\ DbTypeOK' /\ KeepsVersions /\ Exists(k, n)'
         /\ UploadVersionResult(k, n) \in Int
<1>1. n \in 0 .. MaxVersion /\ n - 1 \in 0 .. MaxVersion /\ n # n - 1 /\ n # kDefaultVersion
  BY VersionDbAssumption DEF kDefaultVersion
<1>2. versions[k] \in [0 .. MaxVersion -> VersionEntry] /\ versions[k][n - 1] \in VersionEntry
  BY <1>1 DEF DbTypeOK
<1>3. /\ DirtyVersion(n, t, is_deleted) \in VersionEntry
      /\ DirtyVersion(n, t, is_deleted).version = n
  BY <1>1, NewEntries
<1>4. /\ LockedBy(versions[k][n - 1], t) \in VersionEntry
      /\ LockedBy(versions[k][n - 1], t).version = versions[k][n - 1].version
  BY <1>2, t \in Txn \cup {kEmptyTxId}, 0 \in Int, EntryUpdates
<1> DEFINE list == [versions[k] EXCEPT ![n] = DirtyVersion(n, t, is_deleted),
                                       ![n - 1] = LockedBy(versions[k][n - 1], t)]
<1>5. /\ list \in [0 .. MaxVersion -> VersionEntry]
      /\ list[n].version = n
      /\ \A m \in 0 .. MaxVersion : m # n => list[m].version = versions[k][m].version
  BY <1>1, <1>2, <1>3, <1>4
<1>6. versions' = [versions EXCEPT ![k] = list]
  BY DEF UploadVersion
<1> HIDE DEF list
<1>7. versions' \in [Key -> [0 .. MaxVersion -> VersionEntry]] /\ KeepsVersions /\ Exists(k, n)'
  BY <1>1, <1>5, <1>6 DEF DbTypeOK, KeepsVersions, Exists
<1> QED BY <1>2, <1>7 DEF DbTypeOK, UploadVersion, UploadVersionResult, VersionEntry

\* DeleteVersion removes the version it names and no other.
LEMMA DeleteVersionStep ==
  ASSUME DbTypeOK, NEW k \in Key, NEW n \in 1 .. MaxVersion, DeleteVersion(k, n)
  PROVE  /\ DbTypeOK'
         /\ \A l \in Key : \A m \in 0 .. MaxVersion :
              (l # k \/ m # n) /\ Exists(l, m) => Exists(l, m)'
<1>1. n \in 0 .. MaxVersion /\ n - 1 \in 0 .. MaxVersion /\ n # n - 1
  BY VersionDbAssumption
<1>2. versions[k] \in [0 .. MaxVersion -> VersionEntry] /\ versions[k][n - 1] \in VersionEntry
  BY <1>1 DEF DbTypeOK
<1>3. /\ LockedBy(versions[k][n - 1], kEmptyTxId) \in VersionEntry
      /\ LockedBy(versions[k][n - 1], kEmptyTxId).version = versions[k][n - 1].version
  BY <1>2, EntryUpdates
<1> DEFINE list == [versions[k] EXCEPT ![n] = DefaultEntry,
                                       ![n - 1] = LockedBy(versions[k][n - 1], kEmptyTxId)]
<1>4. /\ list \in [0 .. MaxVersion -> VersionEntry]
      /\ \A m \in 0 .. MaxVersion : m # n => list[m].version = versions[k][m].version
  BY <1>1, <1>2, <1>3, NewEntries
<1>5. versions' = [versions EXCEPT ![k] = list]
  BY DEF DeleteVersion
<1> HIDE DEF list
<1>6. /\ versions' \in [Key -> [0 .. MaxVersion -> VersionEntry]]
      /\ \A l \in Key : \A m \in 0 .. MaxVersion :
           (l # k \/ m # n) /\ Exists(l, m) => Exists(l, m)'
  BY <1>4, <1>5 DEF DbTypeOK, Exists
<1> QED BY <1>6 DEF DbTypeOK, DeleteVersion

\* Both halves of CommitVersion and the reread keep every version.
LEMMA RestampStep ==
  ASSUME DbTypeOK, NEW k \in Key, NEW n \in 0 .. MaxVersion, NEW ts \in Int,
         \/ CommitNewVersion(k, n, ts)
         \/ n > 0 /\ ClosePrevVersion(k, n, ts)
         \/ UpdateMaxCommitTsAndReread(k, n, ts)
  PROVE  DbTypeOK' /\ KeepsVersions
<1>1. \A m \in 0 .. MaxVersion : versions[k][m] \in VersionEntry
  BY DEF DbTypeOK
<1>2. CASE CommitNewVersion(k, n, ts)
  <2>1. versions' = [versions EXCEPT ![k] = [@ EXCEPT ![n] = CommittedAt(versions[k][n], ts)]]
    BY <1>2 DEF CommitNewVersion, DbTypeOK
  <2>2. versions' \in [Key -> [0 .. MaxVersion -> VersionEntry]] /\ KeepsVersions
    BY <1>1, <2>1, EntryUpdates, OneEntryChanged
  <2> QED BY <1>2, <2>2 DEF CommitNewVersion, DbTypeOK
<1>3. CASE n > 0 /\ ClosePrevVersion(k, n, ts)
  <2>1. n - 1 \in 0 .. MaxVersion
    BY <1>3, VersionDbAssumption
  <2>2. versions' = [versions EXCEPT ![k] = [@ EXCEPT ![n - 1] = ClosedBy(versions[k][n - 1], ts)]]
    BY <1>3, <2>1 DEF ClosePrevVersion, DbTypeOK
  <2>3. versions' \in [Key -> [0 .. MaxVersion -> VersionEntry]] /\ KeepsVersions
    BY <1>1, <2>1, <2>2, EntryUpdates, OneEntryChanged
  <2> QED BY <1>3, <2>3 DEF ClosePrevVersion, DbTypeOK
<1>4. CASE UpdateMaxCommitTsAndReread(k, n, ts)
  <2>1. versions' = [versions EXCEPT ![k] = [@ EXCEPT ![n] = RaisedMaxCommitTs(versions[k][n], ts)]]
    BY <1>4 DEF UpdateMaxCommitTsAndReread, DbTypeOK
  <2>2. versions' \in [Key -> [0 .. MaxVersion -> VersionEntry]] /\ KeepsVersions
    BY <1>1, <2>1, EntryUpdates, OneEntryChanged
  <2> QED BY <1>4, <2>2 DEF UpdateMaxCommitTsAndReread, DbTypeOK
<1> QED BY <1>2, <1>3, <1>4

\* The calls on the transaction table leave the versions alone.
LEMMA TxnTableStep ==
  ASSUME DbTypeOK, NEW t \in Txn, NEW ts \in Int, NEW s \in TxnStatus,
         \/ NewTxn(t, ts)
         \/ SetCommitTimestamp(t, ts)
         \/ UpdateCommitLowerBound(t, ts)
         \/ UpdateTxnStatus(t, s)
  PROVE  DbTypeOK' /\ versions' = versions
<1>1. CASE NewTxn(t, ts)
  BY <1>1 DEF NewTxn, DbTypeOK, TxnEntry, TxnStatus, kDefaultCommitTs
<1>2. CASE SetCommitTimestamp(t, ts)
  BY <1>2 DEF SetCommitTimestamp, SetCommitTimestampResult, DbTypeOK, TxnEntry
<1>3. CASE UpdateCommitLowerBound(t, ts)
  BY <1>3 DEF UpdateCommitLowerBound, DbTypeOK, TxnEntry
<1>4. CASE UpdateTxnStatus(t, s)
  BY <1>4 DEF UpdateTxnStatus, DbTypeOK, TxnEntry
<1> QED BY <1>1, <1>2, <1>3, <1>4

-----------------------------------------------------------------------------
(* Sequences, entries and calls.                                           *)

\* Updating a sequence inside or outside its domain keeps its type and domain.
LEMMA SeqUpdate ==
  ASSUME NEW S, NEW s \in Seq(S), NEW i, NEW e, i \in DOMAIN s => e \in S
  PROVE  [s EXCEPT ![i] = e] \in Seq(S)
<1>1. CASE i \in DOMAIN s
  <2>1. i \in 1 .. Len(s)
    BY <1>1, LenProperties
  <2> QED BY <1>1, <2>1, ExceptSeq
<1>2. CASE i \notin DOMAIN s
  <2>1. [s EXCEPT ![i] = e] = s
    BY <1>2
  <2> QED BY <2>1
<1> QED BY <1>1, <1>2

\* The entries of the read and write sets have their types; their indices are naturals.
LEMMA Entries ==
  ASSUME TypeOK, NEW t \in Txn
  PROVE  /\ readSet[t] \in Seq(ReadSetEntry) /\ writeSet[t] \in Seq(WriteSetEntry)
         /\ \A i \in DOMAIN readSet[t] : i \in Nat /\ readSet[t][i] \in ReadSetEntry
         /\ \A i \in DOMAIN writeSet[t] : i \in Nat /\ writeSet[t][i] \in WriteSetEntry
<1>1. readSet[t] \in Seq(ReadSetEntry) /\ writeSet[t] \in Seq(WriteSetEntry)
  BY DEF TypeOK
<1>2. /\ Len(readSet[t]) \in Nat /\ DOMAIN readSet[t] = 1 .. Len(readSet[t])
      /\ Len(writeSet[t]) \in Nat /\ DOMAIN writeSet[t] = 1 .. Len(writeSet[t])
  BY <1>1, LenProperties
<1> QED BY <1>1, <1>2, ElementOfSeq

\* The calls that the operations send are calls.
LEMMA Calls ==
  ASSUME NEW i \in Nat
  PROVE  /\ \A op \in ReadSetCalls \cup WriteSetCalls : CallFor(op, i) \in Call
         /\ \A u \in Txn \cup {kEmptyTxId} : PushCall(i, u) \in Call
BY DEF CallFor, PushCall, Call, ReadSetCalls

\* The operations and states that MoveForward goes through.
LEMMA MoveTypes ==
  ASSUME TypeOK, NEW t \in Txn, NEW from, NEW to \in Operation, Moves(t, from, to)
  PROVE  operation' \in [Txn -> Operation]
BY DEF TypeOK, Moves

\* Every way of writing the result keeps its type.
LEMMA ResultTypes ==
  ASSUME TypeOK, NEW t \in Txn, NEW b \in BOOLEAN, NEW s \in TxnStatus,
         \/ ResetResult(t) \/ Answer(t, b) \/ SetFinished(t, b) \/ SetStatus(t, s)
  PROVE  result' \in [Txn -> Result]
<1>1. result[t] \in Result
  BY DEF TypeOK
<1>2. CASE ResetResult(t)
  BY <1>2 DEF TypeOK, ResetResult, EmptyResult, Result, TxnStatus
<1>3. CASE Answer(t, b)
  BY <1>3 DEF TypeOK, Answer, Result, TxnStatus
<1>4. CASE SetFinished(t, b)
  BY <1>1, <1>4 DEF TypeOK, SetFinished, Result
<1>5. CASE SetStatus(t, s)
  BY <1>1, <1>5 DEF TypeOK, SetStatus, Result
<1> QED BY <1>2, <1>3, <1>4, <1>5

\* An abort empties the calls, resets the result and keeps all types.
LEMMA AbortTypes ==
  ASSUME TypeOK, NEW t \in Txn, NEW from, AbortFrom(t, from), DbTypeOK'
  PROVE  TypeOK'
<1>1. operation' \in [Txn -> Operation]
  BY MoveTypes DEF AbortFrom, Operation
<1>2. result' \in [Txn -> Result]
  BY ResultTypes, TRUE \in BOOLEAN, "Ongoing" \in TxnStatus DEF AbortFrom, TxnStatus
<1>3. status' \in [Txn -> TxnStatus] /\ calls' \in [Txn -> SUBSET Call]
  BY DEF TypeOK, AbortFrom, TxnStatus
<1> QED BY <1>1, <1>2, <1>3 DEF TypeOK, AbortFrom, localVars, tsVars

\* Recover moves the operation and may take note of the call that failed.
LEMMA RecoverTypes ==
  ASSUME TypeOK, NEW t \in Txn, NEW from, Recover(t, from), DbTypeOK',
         calls' = calls \/ \E call : Answered(t, call)
  PROVE  TypeOK'
<1>1. operation' \in [Txn -> Operation]
  BY MoveTypes DEF Recover, Operation
<1>2. calls' \in [Txn -> SUBSET Call]
  BY DEF TypeOK, Answered
<1> QED BY <1>1, <1>2 DEF TypeOK, Recover, localVars, tsVars

-----------------------------------------------------------------------------
(* Type correctness, operation by operation.                               *)

\* A step that leaves the store alone keeps its types.
LEMMA DbUnchanged ==
  ASSUME DbTypeOK, UNCHANGED dbVars
  PROVE  DbTypeOK'
BY DEF DbTypeOK, dbVars

\* Begin and its NewTxn call.
LEMMA BeginTypes ==
  ASSUME TypeOK, NEW t \in Txn, Begin(t) \/ InitTxn(t) \/ InitTxnError(t)
  PROVE  TypeOK'
<1> USE DEF localVars, tsVars
<1>1. CASE Begin(t)
  <2>1. operation' \in [Txn -> Operation]
    BY <1>1, MoveTypes DEF Begin, Operation
  <2>2. result' \in [Txn -> Result]
    BY <1>1, ResultTypes, TRUE \in BOOLEAN, "Ongoing" \in TxnStatus DEF Begin, TxnStatus
  <2> QED BY <1>1, <2>1, <2>2, DbUnchanged DEF TypeOK, Begin
<1>2. CASE InitTxn(t)
  <2>1. operation' \in [Txn -> Operation]
    BY <1>2, MoveTypes DEF InitTxn, Operation
  <2>2. result' \in [Txn -> Result]
    BY <1>2, ResultTypes, FALSE \in BOOLEAN, "Ongoing" \in TxnStatus DEF InitTxn, TxnStatus
  <2>3. DbTypeOK'
    BY <1>2, TxnTableStep, TransactionExecutionAssumption, "Ongoing" \in TxnStatus
       DEF InitTxn, TypeOK, TxnStatus
  <2> QED BY <1>2, <2>1, <2>2, <2>3 DEF TypeOK, InitTxn
<1>3. CASE InitTxnError(t)
  <2>1. operation' \in [Txn -> Operation]
    BY <1>3, MoveTypes DEF InitTxnError, Operation
  <2> QED BY <1>3, <2>1, DbUnchanged DEF TypeOK, InitTxnError, Fails
<1> QED BY <1>1, <1>2, <1>3

\* The requests that start with a read of the version list.
LEMMA CallReadOutsideTypes ==
  ASSUME TypeOK, NEW t \in Txn, NEW k \in Key, NEW op \in {"Read", "Insert", "Upsert"},
         CallReadOutside(t, op, k)
  PROVE  TypeOK'
<1>1. operation' \in [Txn -> Operation]
  BY MoveTypes DEF CallReadOutside, Operation
<1>2. result' \in [Txn -> Result]
  BY ResultTypes, TRUE \in BOOLEAN, "Ongoing" \in TxnStatus DEF CallReadOutside, TxnStatus
<1>3. request' \in [Txn -> Key \cup {NoKey}]
  BY DEF TypeOK, CallReadOutside
<1> QED BY <1>1, <1>2, <1>3, DbUnchanged DEF TypeOK, CallReadOutside, localVars, tsVars

\* A read set entry for any visible version, or for none.
LEMMA NewReadSetEntryType ==
  ASSUME NEW k \in Key, NEW v \in VersionEntry
  PROVE  NewReadSetEntry(k, v) \in ReadSetEntry
<1>1. v.version \in -1 .. MaxVersion /\ v.begin_ts \in Int /\ v.is_deleted \in BOOLEAN
  BY DEF VersionEntry, kDefaultVersion
<1>2. CASE v.version = kDefaultVersion
  BY <1>2, VersionDbAssumption DEF NewReadSetEntry, ReadSetEntry, kFirstVersion
<1>3. CASE v.version # kDefaultVersion
  <2>1. v.version \in 0 .. MaxVersion
    BY <1>1, <1>3, VersionDbAssumption DEF kDefaultVersion
  <2> QED BY <1>1, <1>3, <2>1 DEF NewReadSetEntry, ReadSetEntry
<1> QED BY <1>2, <1>3

\* Queueing a write keeps the types of both sets.
LEMMA InsertWriteSetTypes ==
  ASSUME TypeOK, NEW t \in Txn, NEW rs \in Seq(ReadSetEntry), NEW i \in DOMAIN rs,
         NEW is_deleted \in BOOLEAN, InsertWriteSet(t, rs, i, is_deleted)
  PROVE  /\ readSet' \in [Txn -> Seq(ReadSetEntry)]
         /\ writeSet' \in [Txn -> Seq(WriteSetEntry)]
<1>1. i \in 1 .. Len(rs) /\ Len(rs) \in Nat
  BY LenProperties
<1>2. rs[i] \in ReadSetEntry /\ i \in Nat
  BY <1>1, ElementOfSeq
<1>3. [rs[i] EXCEPT !.is_updated = TRUE] \in ReadSetEntry
  BY <1>2 DEF ReadSetEntry
<1>4. [rs EXCEPT ![i].is_updated = TRUE] \in Seq(ReadSetEntry)
  BY <1>3, SeqUpdate
<1>5. NewWriteSetEntry(rs[i].key, rs[i].version + 1, is_deleted, i) \in WriteSetEntry
  BY <1>2, VersionDbAssumption
     DEF InsertWriteSet, NewWriteSetEntry, WriteSetEntry, ReadSetEntry
<1>6. Append(writeSet[t], NewWriteSetEntry(rs[i].key, rs[i].version + 1, is_deleted, i))
        \in Seq(WriteSetEntry)
  BY <1>5, Entries, AppendProperties
<1> QED BY <1>4, <1>6 DEF TypeOK, InsertWriteSet

\* The answer to the read of a version list, for Read, Insert and Upsert.
LEMMA ReadOutsideNextTypes ==
  ASSUME TypeOK, NEW t \in Txn, NEW rs \in Seq(ReadSetEntry), NEW b \in BOOLEAN,
         ReadOutsideNext(t, rs, b), DbTypeOK'
  PROVE  TypeOK'
<1>1. operation' \in [Txn -> Operation] /\ request' \in [Txn -> Key \cup {NoKey}]
  BY DEF TypeOK, ReadOutsideNext, Operation
<1>2. ASSUME NEW c \in BOOLEAN, SetFinished(t, c)
      PROVE  result' \in [Txn -> Result]
  BY <1>2, ResultTypes, "Ongoing" \in TxnStatus DEF TxnStatus
<1>3. OnlyRead(t, rs) => /\ readSet' \in [Txn -> Seq(ReadSetEntry)]
                         /\ writeSet' \in [Txn -> Seq(WriteSetEntry)]
  BY DEF OnlyRead, TypeOK
<1>4. /\ readSet' \in [Txn -> Seq(ReadSetEntry)] /\ writeSet' \in [Txn -> Seq(WriteSetEntry)]
      /\ result' \in [Txn -> Result]
  <2>1. CASE ReadNext(t, rs, b)
    BY <1>2, <1>3, <2>1 DEF ReadNext
  <2>2. CASE InsertNext(t, rs, b)
    BY <1>2, <1>3, <2>2, InsertWriteSetTypes, TRUE \in BOOLEAN, FALSE \in BOOLEAN DEF InsertNext
  <2>3. CASE UpsertNext(t, rs, b)
    BY <1>2, <1>3, <2>3, InsertWriteSetTypes, FALSE \in BOOLEAN DEF UpsertNext
  <2> QED BY <2>1, <2>2, <2>3 DEF ReadOutsideNext
<1> QED BY <1>1, <1>4 DEF TypeOK, ReadOutsideNext, tsVars

\* The read of the version list, answered or failed, keeps all types.
LEMMA ReadOutsideTypes ==
  ASSUME TypeOK, NEW t \in Txn, ReadOutside(t) \/ ReadOutsideError(t)
  PROVE  TypeOK'
<1>1. CASE ReadOutside(t)
  <2>1. request[t] \in Key
    BY <1>1 DEF ReadOutside, TypeOK
  <2> DEFINE list == InitVersionList(versions[request[t]])
  <2>2. DbTypeOK' /\ list \in [0 .. MaxVersion -> VersionEntry]
    BY <1>1, <2>1, GetVersionListStep DEF ReadOutside, TypeOK
  <2> HIDE DEF list
  <2>3. PICK n \in 0 .. MaxVersion :
          ReadOutsideNext(t, Append(readSet[t], NewReadSetEntry(request[t],
                               PickVisibleVersion(list[n], SecondLatest(list, n)))), FALSE)
    BY <1>1 DEF ReadOutside, list
  <2>4. SecondLatest(list, n) \in VersionEntry /\ list[n] \in VersionEntry
    BY <2>2, NewEntries, VersionDbAssumption DEF SecondLatest
  <2>5. PickVisibleVersion(list[n], SecondLatest(list, n)) \in VersionEntry
    BY <2>4, NewEntries DEF PickVisibleVersion
  <2>6. Append(readSet[t], NewReadSetEntry(request[t],
               PickVisibleVersion(list[n], SecondLatest(list, n)))) \in Seq(ReadSetEntry)
    BY <2>1, <2>5, NewReadSetEntryType, Entries, AppendProperties
  <2> QED BY <2>2, <2>3, <2>6, ReadOutsideNextTypes, FALSE \in BOOLEAN
<1>2. CASE ReadOutsideError(t)
  <2>1. DbTypeOK'
    BY <1>2, DbUnchanged DEF ReadOutsideError, Fails, TypeOK
  <2> QED BY <1>2, <2>1, Entries, ReadOutsideNextTypes, TRUE \in BOOLEAN DEF ReadOutsideError
<1> QED BY <1>1, <1>2

\* Update and Delete.
LEMMA LocalRequestTypes ==
  ASSUME TypeOK, NEW t \in Txn, NEW k \in Key,
         Update(t, k) \/ Delete(t, k)
  PROVE  TypeOK'
<1> USE DEF localVars, tsVars
<1>1. /\ \A b \in BOOLEAN : Answer(t, b) \/ SetFinished(t, b) => result' \in [Txn -> Result]
      /\ ResetResult(t) => result' \in [Txn -> Result]
  BY ResultTypes, "Ongoing" \in TxnStatus, TRUE \in BOOLEAN DEF TxnStatus
<1>2. CASE Update(t, k)
  <2>1. /\ readSet' \in [Txn -> Seq(ReadSetEntry)] /\ writeSet' \in [Txn -> Seq(WriteSetEntry)]
    BY <1>2, Entries, InsertWriteSetTypes, FALSE \in BOOLEAN DEF Update, TypeOK
  <2>2. result' \in [Txn -> Result]
    BY <1>1, <1>2 DEF Update
  <2> QED BY <1>2, <2>1, <2>2, DbUnchanged DEF TypeOK, Update
<1>3. CASE Delete(t, k)
  <2>1. result' \in [Txn -> Result]
    BY <1>1, <1>3 DEF Delete
  <2>2. ASSUME DeleteQueuedWrite(t, k)
        PROVE  writeSet' \in [Txn -> Seq(WriteSetEntry)] /\ readSet' = readSet
    <3>1. PICK i \in DOMAIN writeSet[t] :
            writeSet' = [writeSet EXCEPT ![t][i].is_deleted = TRUE] /\ readSet' = readSet
      BY <2>2 DEF DeleteQueuedWrite
    <3>2. [writeSet[t][i] EXCEPT !.is_deleted = TRUE] \in WriteSetEntry
      <4>1. writeSet[t][i] \in WriteSetEntry
        BY Entries
      <4> QED BY <4>1 DEF WriteSetEntry
    <3>3. [writeSet[t] EXCEPT ![i].is_deleted = TRUE] \in Seq(WriteSetEntry)
      <4> DEFINE queued == [writeSet[t][i] EXCEPT !.is_deleted = TRUE]
      <4>1. [writeSet[t] EXCEPT ![i].is_deleted = TRUE] = [writeSet[t] EXCEPT ![i] = queued]
        OBVIOUS
      <4> HIDE DEF queued
      <4> QED BY <3>2, <4>1, Entries, SeqUpdate DEF queued
    <3> QED BY <3>1, <3>3 DEF TypeOK
  <2>3. /\ readSet' \in [Txn -> Seq(ReadSetEntry)] /\ writeSet' \in [Txn -> Seq(WriteSetEntry)]
    <3>1. CASE DeleteReadVersion(t, k)
      BY <3>1, Entries, InsertWriteSetTypes, TRUE \in BOOLEAN DEF DeleteReadVersion
    <3> QED BY <1>3, <2>2, <3>1 DEF Delete, TypeOK
  <2> QED BY <1>3, <2>1, <2>3, DbUnchanged DEF TypeOK, Delete
<1> QED BY <1>2, <1>3

\* ReadDataStore and its answer.
LEMMA ReadDataStoreTypes ==
  ASSUME TypeOK, NEW t \in Txn, ReadDataStore(t) \/ ReadDataStoreNext(t)
  PROVE  TypeOK'
<1> USE DEF localVars, tsVars
<1>1. /\ \A b \in BOOLEAN : Answer(t, b) \/ SetFinished(t, b) => result' \in [Txn -> Result]
      /\ ResetResult(t) => result' \in [Txn -> Result]
  BY ResultTypes, "Ongoing" \in TxnStatus, TRUE \in BOOLEAN DEF TxnStatus
<1>2. CASE ReadDataStore(t)
  <2>1. result' \in [Txn -> Result] /\ operation' \in [Txn -> Operation]
    BY <1>1, <1>2 DEF ReadDataStore, TypeOK, Operation
  <2> QED BY <1>2, <2>1, DbUnchanged DEF TypeOK, ReadDataStore
<1>3. CASE ReadDataStoreNext(t)
  <2>1. result' \in [Txn -> Result] /\ operation' \in [Txn -> Operation]
    BY <1>1, <1>3, MoveTypes DEF ReadDataStoreNext, Operation
  <2> QED BY <1>3, <2>1, DbUnchanged DEF TypeOK, ReadDataStoreNext
<1> QED BY <1>2, <1>3

\* Commit and the uploads.
LEMMA UploadTypes ==
  ASSUME TypeOK, NEW t \in Txn, NEW i \in DOMAIN writeSet[t],
         UploadVersionEntry(t, i) \/ UploadVersionEntryError(t, i)
  PROVE  TypeOK'
<1> USE DEF localVars, tsVars
<1>1. calls' \in [Txn -> SUBSET Call]
  BY DEF TypeOK, UploadVersionEntry, UploadVersionEntryError, Answered
<1>2. CASE UploadVersionEntry(t, i)
  <2>1. writeSet[t][i] \in WriteSetEntry
    BY Entries
  <2>2. [writeSet[t][i] EXCEPT !.need_post_processing = TRUE] \in WriteSetEntry
    BY <2>1 DEF WriteSetEntry
  <2>3. [writeSet[t] EXCEPT ![i].need_post_processing = TRUE] \in Seq(WriteSetEntry)
    BY <2>2, Entries, SeqUpdate
  <2>4. writeSet' \in [Txn -> Seq(WriteSetEntry)]
    BY <1>2, <2>3 DEF TypeOK, UploadVersionEntry
  <2>5. DbTypeOK' /\ UploadVersionResult(writeSet[t][i].key, writeSet[t][i].version) \in Int
    BY <1>2, <2>1, UploadVersionStep DEF TypeOK, UploadVersionEntry, WriteSetEntry
  <2>6. max_commit_timestamp_of_writers' \in [Txn -> Int]
    BY <1>2, <2>5 DEF TypeOK, UploadVersionEntry
  <2> QED BY <1>1, <1>2, <2>4, <2>5, <2>6 DEF TypeOK, UploadVersionEntry
<1>3. CASE UploadVersionEntryError(t, i)
  <2>1. status' \in [Txn -> TxnStatus]
    BY <1>3 DEF TypeOK, UploadVersionEntryError, PrepareAbort, TxnStatus
  <2> QED BY <1>1, <1>3, <2>1, DbUnchanged DEF TypeOK, UploadVersionEntryError
<1> QED BY <1>2, <1>3

\* Commit, the end of Upload and the choice of the commit timestamp.
LEMMA CommitTsTypes ==
  ASSUME TypeOK, NEW t \in Txn,
         Commit(t) \/ UploadNext(t) \/ SetCommitTs(t) \/ SetCommitTsError(t)
  PROVE  TypeOK'
<1> USE DEF localVars, tsVars
<1>1. CASE Commit(t)
  <2>1. operation' \in [Txn -> Operation]
    BY <1>1, MoveTypes DEF Commit, Operation
  <2>2. result' \in [Txn -> Result]
    BY <1>1, ResultTypes, TRUE \in BOOLEAN, "Ongoing" \in TxnStatus DEF Commit, TxnStatus
  <2>3. {CallFor("UploadVersion", i) : i \in DOMAIN writeSet[t]} \subseteq Call
    BY Entries, Calls DEF WriteSetCalls
  <2>4. calls' \in [Txn -> SUBSET Call]
    BY <1>1, <2>3 DEF TypeOK, Commit
  <2> QED BY <1>1, <2>1, <2>2, <2>4, DbUnchanged DEF TypeOK, Commit
<1>2. CASE UploadNext(t)
  <2>1. DbTypeOK'
    BY <1>2, DbUnchanged DEF TypeOK, UploadNext
  <2>2. CASE status[t] = "WaitForAborting"
    BY <1>2, <2>1, <2>2, AbortTypes DEF UploadNext
  <2>3. CASE status[t] # "WaitForAborting"
    <3>1. operation' \in [Txn -> Operation]
      BY <1>2, <2>3, MoveTypes DEF UploadNext, Operation
    <3>2. \A i \in DOMAIN readSet[t] : readSet[t][i].begin_ts \in Int
      BY Entries DEF ReadSetEntry
    <3>3. \A local_time \in Times : CommitTsCandidates(t, local_time) \subseteq Int
      BY <3>2, TransactionExecutionAssumption DEF CommitTsCandidates, TypeOK
    <3>4. commit_timestamp' \in [Txn -> Int]
      BY <1>2, <2>3, <3>3 DEF UploadNext, TypeOK
    <3> QED BY <1>2, <2>1, <2>3, <3>1, <3>4 DEF TypeOK, UploadNext
  <2> QED BY <2>2, <2>3
<1>3. CASE SetCommitTs(t)
  <2>1. operation' \in [Txn -> Operation]
    BY <1>3, MoveTypes DEF SetCommitTs, Operation
  <2>2. DbTypeOK'
    BY <1>3, TxnTableStep, "Ongoing" \in TxnStatus DEF TypeOK, SetCommitTs, TxnStatus
  <2>3. RereadCalls(t) \subseteq Call
    BY Entries, Calls DEF RereadCalls, ReadSetCalls
  <2>4. calls' \in [Txn -> SUBSET Call]
    BY <1>3, <2>3 DEF TypeOK, SetCommitTs
  <2>5. commit_timestamp' \in [Txn -> Int]
    BY <1>3 DEF TypeOK, SetCommitTs, SetCommitTimestampResult, DbTypeOK, TxnEntry
  <2> QED BY <1>3, <2>1, <2>2, <2>4, <2>5 DEF TypeOK, SetCommitTs
<1>4. CASE SetCommitTsError(t)
  BY <1>4, AbortTypes, DbUnchanged DEF TypeOK, SetCommitTsError, Fails
<1> QED BY <1>1, <1>2, <1>3, <1>4

\* Answering a call and a release keep the types of the calls and the read set.
LEMMA AnswerTypes ==
  ASSUME TypeOK, NEW t \in Txn, NEW call
  PROVE  /\ Answered(t, call) => calls' \in [Txn -> SUBSET Call]
         /\ PrepareAbort(t) => status' \in [Txn -> TxnStatus]
<1>1. Answered(t, call) => calls' \in [Txn -> SUBSET Call]
  BY DEF TypeOK, Answered
<1>2. PrepareAbort(t) => status' \in [Txn -> TxnStatus]
  BY DEF TypeOK, PrepareAbort, TxnStatus
<1> QED BY <1>1, <1>2

\* Clearing need_release, whether or not the index is an entry's, keeps the type of the read set.
LEMMA ReleaseTypes ==
  ASSUME TypeOK, NEW t \in Txn, NEW i, NEW b \in BOOLEAN,
         readSet' = [readSet EXCEPT ![t][i].need_release = b]
  PROVE  readSet' \in [Txn -> Seq(ReadSetEntry)]
<1> DEFINE r == [readSet[t][i] EXCEPT !.need_release = b]
           rs == [readSet[t] EXCEPT ![i] = r]
<1>1. ASSUME i \in DOMAIN readSet[t] PROVE r \in ReadSetEntry
  <2>1. readSet[t][i] \in ReadSetEntry
    BY <1>1, Entries
  <2> QED BY <2>1 DEF ReadSetEntry
<1> HIDE DEF r
<1>2. rs \in Seq(ReadSetEntry)
  BY <1>1, Entries, SeqUpdate
<1>3. readSet' = [readSet EXCEPT ![t] = rs]
  BY DEF r
<1> HIDE DEF rs
<1> QED BY <1>2, <1>3 DEF TypeOK

\* The rereads of validation.
LEMMA RereadTypes ==
  ASSUME TypeOK, NEW t \in Txn, NEW i \in DOMAIN readSet[t],
         UpdateReadEntryMaxCommitTs(t, i) \/ UpdateReadEntryMaxCommitTsError(t, i)
  PROVE  TypeOK'
<1> USE DEF localVars, tsVars
<1>1. CASE UpdateReadEntryMaxCommitTs(t, i)
  <2> DEFINE r == readSet[t][i]
             entry == versions[r.key][r.version]
             call == CallFor("UpdateReadEntryMaxCommitTs", i)
  <2>1. r \in ReadSetEntry /\ i \in Nat
    BY Entries
  <2>2. r.key \in Key /\ r.version \in 0 .. MaxVersion /\ commit_timestamp[t] \in Int
    BY <2>1 DEF ReadSetEntry, TypeOK
  <2>3. DbTypeOK'
    BY <1>1, <2>2, RestampStep DEF UpdateReadEntryMaxCommitTs, TypeOK
  <2>4. entry.tx_id \in Txn \cup {kEmptyTxId}
    <3>1. versions \in [Key -> [0 .. MaxVersion -> VersionEntry]]
      BY DEF TypeOK, DbTypeOK
    <3>2. entry \in VersionEntry
      BY <2>2, <3>1
    <3> QED BY <3>2 DEF VersionEntry
  <2>5. readSet' \in [Txn -> Seq(ReadSetEntry)]
    BY <1>1, ReleaseTypes, FALSE \in BOOLEAN DEF UpdateReadEntryMaxCommitTs, Released
  <2>6. PushCall(i, entry.tx_id) \in Call
    BY <2>1, <2>4, Calls
  <2>7. calls' \in [Txn -> SUBSET Call] /\ status' \in [Txn -> TxnStatus]
    <3>1. CASE Answered(t, call)
      BY <1>1, <3>1, AnswerTypes DEF UpdateReadEntryMaxCommitTs, TypeOK
    <3>2. CASE /\ calls' = [calls EXCEPT ![t] = (@ \ {call}) \cup {PushCall(i, entry.tx_id)}]
               /\ UNCHANGED status
      BY <2>6, <3>2 DEF TypeOK
    <3> QED BY <1>1, <3>1, <3>2 DEF UpdateReadEntryMaxCommitTs
  <2> QED BY <1>1, <2>3, <2>5, <2>7 DEF UpdateReadEntryMaxCommitTs, TypeOK
<1>2. CASE UpdateReadEntryMaxCommitTsError(t, i)
  BY <1>2, AnswerTypes, DbUnchanged DEF UpdateReadEntryMaxCommitTsError, Fails, TypeOK
<1> QED BY <1>1, <1>2

\* The pushes of validation.
LEMMA PushTypes ==
  ASSUME TypeOK, NEW t \in Txn, NEW u \in Txn, NEW i,
         \/ PushConflictTxnCommitTsLowerBound(t, i, u)
         \/ PushConflictTxnCommitTsLowerBoundError(t, i, u)
  PROVE  TypeOK'
<1> USE DEF localVars, tsVars
<1>1. CASE PushConflictTxnCommitTsLowerBound(t, i, u)
  <2>1. commit_timestamp[t] + 1 \in Int
    BY DEF TypeOK
  <2>2. DbTypeOK'
    BY <1>1, <2>1, TxnTableStep, "Ongoing" \in TxnStatus
       DEF PushConflictTxnCommitTsLowerBound, TypeOK, TxnStatus
  <2>3. calls' \in [Txn -> SUBSET Call] /\ status' \in [Txn -> TxnStatus]
    BY <1>1, AnswerTypes DEF PushConflictTxnCommitTsLowerBound, TypeOK
  <2> QED BY <1>1, <2>2, <2>3 DEF PushConflictTxnCommitTsLowerBound, TypeOK
<1>2. CASE PushConflictTxnCommitTsLowerBoundError(t, i, u)
  BY <1>2, AnswerTypes, DbUnchanged
     DEF PushConflictTxnCommitTsLowerBoundError, Fails, TypeOK
<1> QED BY <1>1, <1>2

\* The end of validation, the log and the decision to commit.
LEMMA DecideCommitTypes ==
  ASSUME TypeOK, NEW t \in Txn,
         \/ ValidateNext(t) \/ WriteToLog(t)
         \/ UpdateTxnStatusToCommit(t) \/ UpdateTxnStatusToCommitError(t)
  PROVE  TypeOK'
<1> USE DEF localVars, tsVars
<1>1. CASE ValidateNext(t)
  <2>1. DbTypeOK'
    BY <1>1, DbUnchanged DEF ValidateNext, TypeOK
  <2>2. CASE AbortFrom(t, "Validate")
    BY <2>1, <2>2, AbortTypes
  <2>3. CASE ~ AbortFrom(t, "Validate")
    <3>1. operation' \in [Txn -> Operation]
      BY <1>1, <2>3, MoveTypes DEF ValidateNext, Operation
    <3> QED BY <1>1, <2>1, <2>3, <3>1 DEF ValidateNext, TypeOK
  <2> QED BY <2>2, <2>3
<1>2. CASE WriteToLog(t)
  <2>1. operation' \in [Txn -> Operation]
    BY <1>2, MoveTypes DEF WriteToLog, Operation
  <2> QED BY <1>2, <2>1, DbUnchanged DEF WriteToLog, TypeOK
<1>3. CASE UpdateTxnStatusToCommit(t)
  <2>1. "Committed" \in TxnStatus /\ 0 \in Int /\ TRUE \in BOOLEAN
    BY DEF TxnStatus
  <2>2. operation' \in [Txn -> Operation]
    BY <1>3, MoveTypes DEF UpdateTxnStatusToCommit, Operation
  <2>3. result' \in [Txn -> Result]
    BY <1>3, <2>1, ResultTypes DEF UpdateTxnStatusToCommit
  <2>4. DbTypeOK'
    BY <1>3, <2>1, TxnTableStep DEF UpdateTxnStatusToCommit, TypeOK
  <2>5. /\ {CallFor("CommitNew", i) : i \in PostProcessIndex(t)} \subseteq Call
        /\ {CallFor("ClosePrev", i) : i \in PostProcessIndex(t)} \subseteq Call
    BY Entries, Calls DEF PostProcessIndex, WriteSetCalls
  <2>6. calls' \in [Txn -> SUBSET Call]
    BY <1>3, <2>5 DEF UpdateTxnStatusToCommit, TypeOK
  <2> QED BY <1>3, <2>2, <2>3, <2>4, <2>6 DEF UpdateTxnStatusToCommit, TypeOK
<1>4. CASE UpdateTxnStatusToCommitError(t)
  BY <1>4, RecoverTypes, DbUnchanged DEF UpdateTxnStatusToCommitError, Fails, TypeOK
<1> QED BY <1>1, <1>2, <1>3, <1>4

\* Post-processing after the commit.
LEMMA CommitEntryTypes ==
  ASSUME TypeOK, NEW t \in Txn, NEW i \in DOMAIN writeSet[t],
         \/ PostProcessingCommitNew(t, i) \/ PostProcessingClosePrev(t, i)
         \/ PostProcessingCommitEntryError(t, i)
  PROVE  TypeOK'
<1> USE DEF localVars, tsVars
<1> DEFINE w == writeSet[t][i]
<1>1. /\ w.key \in Key /\ w.version \in 0 .. MaxVersion /\ w.version > 0
      /\ commit_timestamp[t] \in Int
  <2>1. w \in WriteSetEntry
    BY Entries
  <2> QED BY <2>1, VersionDbAssumption DEF WriteSetEntry, TypeOK
<1>2. ASSUME NEW half \in CommitHalf, NEW is_error \in BOOLEAN,
             CommitEntryAnswered(t, i, half, is_error), DbTypeOK'
      PROVE  TypeOK'
  <2> DEFINE rest == (calls[t] \ {CallFor(half, i)})
                       \cup (IF is_error THEN {CallFor(Failed(half), i)} ELSE {})
             both_answered == CallFor(OtherHalf(half), i) \notin rest
             error == \E h \in CommitHalf : CallFor(Failed(h), i) \in rest
             j == w.read_entry
             b == readSet[t][j].need_release /\ ~ (both_answered /\ ~ error)
  <2>1. CallFor(Failed(half), i) \in Call
    BY Entries, Calls DEF Failed, WriteSetCalls
  <2>2. rest \subseteq Call
    BY <2>1 DEF TypeOK
  <2>3. calls' = [calls EXCEPT ![t] = rest]
    BY <1>2 DEF CommitEntryAnswered
  <2>4. operation' = operation \/ operation' = [operation EXCEPT ![t] = "Recover"]
    BY <1>2 DEF CommitEntryAnswered, TypeOK
  <2>5. readSet' = [readSet EXCEPT ![t][j].need_release = b] /\ b \in BOOLEAN
    BY <1>2 DEF CommitEntryAnswered
  <2> HIDE DEF rest, b, j
  <2>6. calls' \in [Txn -> SUBSET Call]
    BY <2>2, <2>3 DEF TypeOK
  <2>7. operation' \in [Txn -> Operation]
    BY <2>4 DEF TypeOK, Operation
  <2>8. readSet' \in [Txn -> Seq(ReadSetEntry)]
    BY <2>5, ReleaseTypes
  <2> QED BY <1>2, <2>6, <2>7, <2>8 DEF CommitEntryAnswered, TypeOK
<1>3. "CommitNew" \in CommitHalf /\ "ClosePrev" \in CommitHalf
      /\ TRUE \in BOOLEAN /\ FALSE \in BOOLEAN
  BY DEF CommitHalf
<1>4. CASE PostProcessingCommitNew(t, i)
  <2>1. DbTypeOK'
    BY <1>1, <1>4, RestampStep DEF PostProcessingCommitNew, TypeOK
  <2> QED BY <1>2, <1>3, <1>4, <2>1 DEF PostProcessingCommitNew
<1>5. CASE PostProcessingClosePrev(t, i)
  <2>1. DbTypeOK'
    BY <1>1, <1>5, RestampStep DEF PostProcessingClosePrev, TypeOK
  <2> QED BY <1>2, <1>3, <1>5, <2>1 DEF PostProcessingClosePrev
<1>6. CASE PostProcessingCommitEntryError(t, i)
  <2>1. DbTypeOK'
    BY <1>6, DbUnchanged DEF PostProcessingCommitEntryError, TypeOK
  <2> QED BY <1>2, <1>3, <1>6, <2>1 DEF PostProcessingCommitEntryError
<1> QED BY <1>4, <1>5, <1>6

\* The decision to abort and the ends of both ways through post-processing.
LEMMA DecideAbortTypes ==
  ASSUME TypeOK, NEW t \in Txn,
         \/ Abort(t) \/ UpdateTxnStatusToAbort(t) \/ UpdateTxnStatusToAbortError(t)
         \/ PostProcessingAfterCommitNext(t) \/ PostProcessingAfterAbortNext(t)
         \/ ReleaseReadCounterNext(t)
  PROVE  TypeOK'
<1> USE DEF localVars, tsVars
<1>0. /\ "Committed" \in TxnStatus /\ "Aborted" \in TxnStatus
      /\ 0 \in Int /\ TRUE \in BOOLEAN
  BY DEF TxnStatus
<1>1. CASE Abort(t)
  <2>1. operation' \in [Txn -> Operation]
    BY <1>1, MoveTypes DEF Abort, Operation
  <2>2. result' \in [Txn -> Result]
    BY <1>0, <1>1, ResultTypes DEF Abort
  <2> QED BY <1>1, <2>1, <2>2, DbUnchanged DEF Abort, TypeOK
<1>2. CASE UpdateTxnStatusToAbort(t)
  <2>1. operation' \in [Txn -> Operation]
    BY <1>2, MoveTypes DEF UpdateTxnStatusToAbort, Operation
  <2>2. result' \in [Txn -> Result]
    BY <1>0, <1>2, ResultTypes DEF UpdateTxnStatusToAbort
  <2>3. DbTypeOK'
    BY <1>0, <1>2, TxnTableStep DEF UpdateTxnStatusToAbort, TypeOK
  <2>4. {CallFor("DeleteVersion", i) : i \in PostProcessIndex(t)} \subseteq Call
    BY Entries, Calls DEF PostProcessIndex, WriteSetCalls
  <2>5. calls' \in [Txn -> SUBSET Call]
    BY <1>2, <2>4 DEF UpdateTxnStatusToAbort, TypeOK
  <2> QED BY <1>2, <2>1, <2>2, <2>3, <2>5 DEF UpdateTxnStatusToAbort, TypeOK
<1>3. CASE UpdateTxnStatusToAbortError(t)
  BY <1>3, RecoverTypes, DbUnchanged DEF UpdateTxnStatusToAbortError, Fails, TypeOK
<1>4. CASE PostProcessingAfterCommitNext(t)
  <2>1. operation' \in [Txn -> Operation]
    BY <1>4, MoveTypes DEF PostProcessingAfterCommitNext, Operation
  <2> QED BY <1>0, <1>4, <2>1, DbUnchanged DEF PostProcessingAfterCommitNext, TypeOK
<1>5. CASE PostProcessingAfterAbortNext(t)
  <2>1. operation' \in [Txn -> Operation]
    BY <1>5, MoveTypes DEF PostProcessingAfterAbortNext, Operation
  <2>2. {CallFor("ReleaseReadCounter", i) : i \in ReleaseIndex(t)} \subseteq Call
    BY Entries, Calls DEF ReleaseIndex, ReadSetCalls
  <2>3. calls' \in [Txn -> SUBSET Call]
    BY <1>5, <2>2 DEF PostProcessingAfterAbortNext, TypeOK
  <2> QED BY <1>5, <2>1, <2>3, DbUnchanged DEF PostProcessingAfterAbortNext, TypeOK
<1>6. CASE ReleaseReadCounterNext(t)
  <2>1. operation' \in [Txn -> Operation]
    BY <1>6, MoveTypes DEF ReleaseReadCounterNext, Operation
  <2> QED BY <1>0, <1>6, <2>1, DbUnchanged DEF ReleaseReadCounterNext, TypeOK
<1> QED BY <1>1, <1>2, <1>3, <1>4, <1>5, <1>6

\* The deletions and releases of an abort.
LEMMA AbortEntryTypes ==
  ASSUME TypeOK, NEW t \in Txn,
         \/ \E i \in DOMAIN writeSet[t] : \/ PostProcessingDeleteEntryAfterAbort(t, i)
                                          \/ PostProcessingDeleteEntryAfterAbortError(t, i)
         \/ \E i \in DOMAIN readSet[t] : \/ ReleaseReadCounterForEachEntry(t, i)
                                         \/ ReleaseReadCounterForEachEntryError(t, i)
  PROVE  TypeOK'
<1> USE DEF localVars, tsVars
<1>1. ASSUME NEW i \in DOMAIN writeSet[t], PostProcessingDeleteEntryAfterAbort(t, i)
      PROVE  TypeOK'
  <2>1. writeSet[t][i].key \in Key /\ writeSet[t][i].version \in 1 .. MaxVersion
    BY Entries DEF WriteSetEntry
  <2>2. DbTypeOK'
    BY <1>1, <2>1, DeleteVersionStep DEF PostProcessingDeleteEntryAfterAbort, TypeOK
  <2> QED BY <1>1, <2>2, AnswerTypes DEF PostProcessingDeleteEntryAfterAbort, TypeOK
<1>2. ASSUME NEW i \in DOMAIN writeSet[t], PostProcessingDeleteEntryAfterAbortError(t, i)
      PROVE  TypeOK'
  BY <1>2, RecoverTypes, DbUnchanged DEF PostProcessingDeleteEntryAfterAbortError, TypeOK
<1>3. ASSUME NEW i \in DOMAIN readSet[t], ReleaseReadCounterForEachEntry(t, i)
      PROVE  TypeOK'
  <2>1. readSet[t][i].key \in Key
    BY Entries DEF ReadSetEntry
  <2>2. DbTypeOK'
    BY <1>3, <2>1 DEF ReleaseReadCounterForEachEntry, ReleaseReadCounter, TypeOK, DbTypeOK
  <2>3. readSet' \in [Txn -> Seq(ReadSetEntry)]
    BY <1>3, ReleaseTypes, FALSE \in BOOLEAN DEF ReleaseReadCounterForEachEntry, Released
  <2> QED BY <1>3, <2>2, <2>3, AnswerTypes DEF ReleaseReadCounterForEachEntry, TypeOK
<1>4. ASSUME NEW i \in DOMAIN readSet[t], ReleaseReadCounterForEachEntryError(t, i)
      PROVE  TypeOK'
  BY <1>4, RecoverTypes, DbUnchanged DEF ReleaseReadCounterForEachEntryError, Fails, TypeOK
<1> QED BY <1>1, <1>2, <1>3, <1>4

\* The initial state has the types of all variables.
LEMMA InitTypes == Init => TypeOK
<1> SUFFICES ASSUME Init PROVE TypeOK
  OBVIOUS
<1>1. DbTypeOK
  BY NewEntries DEF Init, DbInit, DbTypeOK, TxnEntry, TxnStatus, kDefaultCommitTs
<1>2. EmptyResult \in Result /\ "Ongoing" \in TxnStatus /\ "Reset" \in Operation
  BY DEF EmptyResult, Result, TxnStatus, Operation
<1> QED BY <1>1, <1>2 DEF Init, TypeOK

\* Every step, whichever transaction takes it, keeps the types of all variables.
LEMMA NextTypes == TypeOK /\ [Next]_vars => TypeOK'
<1> SUFFICES ASSUME TypeOK, [Next]_vars PROVE TypeOK'
  OBVIOUS
<1>1. CASE UNCHANGED vars
  BY <1>1 DEF TypeOK, DbTypeOK, vars, dbVars, execVars, localVars, tsVars
<1>2. ASSUME NEW t \in Txn, Client(t) PROVE TypeOK'
  <2>1. Begin(t) \/ Commit(t) \/ Abort(t) => TypeOK'
    BY BeginTypes, CommitTsTypes, DecideAbortTypes
  <2>2. ASSUME NEW k \in Key, Read(t, k) \/ Insert(t, k) \/ Upsert(t, k)
        PROVE  TypeOK'
    BY <2>2, CallReadOutsideTypes DEF Read, Insert, Upsert
  <2>3. ASSUME NEW k \in Key, Update(t, k) \/ Delete(t, k)
        PROVE  TypeOK'
    BY <2>3, LocalRequestTypes
  <2>4. ReadDataStore(t) => TypeOK'
    BY ReadDataStoreTypes
  <2> QED BY <1>2, <2>1, <2>2, <2>3, <2>4 DEF Client
<1>3. ASSUME NEW t \in Txn, Progress(t) PROVE TypeOK'
  <2>1. ASSUME NEW i \in DOMAIN readSet[t], ReadEntryStep(t, i) PROVE TypeOK'
    BY <2>1, RereadTypes, PushTypes, AbortEntryTypes DEF ReadEntryStep
  <2>2. ASSUME NEW i \in DOMAIN writeSet[t], WriteEntryStep(t, i) PROVE TypeOK'
    BY <2>2, UploadTypes, CommitEntryTypes, AbortEntryTypes DEF WriteEntryStep
  <2> QED BY <1>3, <2>1, <2>2, BeginTypes, ReadOutsideTypes, ReadDataStoreTypes,
             CommitTsTypes, DecideCommitTypes, DecideAbortTypes DEF Progress
<1> QED BY <1>1, <1>2, <1>3 DEF Next, AllEnded

\* Type correctness: whatever the transactions do, and whatever calls fail, every
\* variable keeps its type; in particular every index that an operation uses, every
\* version it asks for and every timestamp it computes is one.
THEOREM TypeCorrect == Spec => []TypeOK
BY InitTypes, NextTypes, PTL DEF Spec

-----------------------------------------------------------------------------
(* No update is lost and no decision is taken back, for any number of      *)
(* transactions, keys, versions and requests, and whatever calls fail.     *)
(* OwnershipInv is inductive: a version is uploaded only where none        *)
(* exists, so it has no holder yet; only its holder deletes it, and only   *)
(* after the transaction table has it as aborted.                          *)

\* The conjuncts of OwnershipInv that are about one transaction.
LocalInv(t) == Undecided(t) /\ AllUploaded(t) /\ DeletesUploaded(t)

\* The step is t's: what the invariant says of other transactions does not change.
StepOf(t) ==
  \A u \in Txn : u # t =>
    /\ operation'[u] = operation[u] /\ calls'[u] = calls[u] /\ status'[u] = status[u]
    /\ result'[u] = result[u] /\ writeSet'[u] = writeSet[u]
    /\ txns'[u].status = txns[u].status

\* What a step may hold after it that it did not hold before: nothing new.
HoldsNothingNew(t) ==
  \A i \in DOMAIN writeSet'[t] : Holds(t, i)' =>
    /\ i \in DOMAIN writeSet[t] /\ Holds(t, i)
    /\ writeSet'[t][i].key = writeSet[t][i].key
    /\ writeSet'[t][i].version = writeSet[t][i].version

-----------------------------------------------------------------------------
(* The frame.                                                              *)

\* The other transactions keep what they hold, and their part of the invariant.
LEMMA OthersKept ==
  ASSUME OwnershipInv, NEW t \in Txn, StepOf(t), NEW u \in Txn, u # t
  PROVE  LocalInv(u)' /\ HoldsNothingNew(u)
<1>1. /\ operation'[u] = operation[u] /\ calls'[u] = calls[u] /\ status'[u] = status[u]
      /\ result'[u] = result[u] /\ writeSet'[u] = writeSet[u]
      /\ txns'[u].status = txns[u].status
  BY DEF StepOf
<1>2. Undecided(u) /\ AllUploaded(u) /\ DeletesUploaded(u)
  BY DEF OwnershipInv
<1>3. Undecided(u)'
  BY <1>1, <1>2 DEF Undecided
<1>4. AllUploaded(u)'
  BY <1>1, <1>2 DEF AllUploaded, Committed
<1>5. DeletesUploaded(u)'
  BY <1>1, <1>2 DEF DeletesUploaded, PostProcessIndex
<1>6. HoldsNothingNew(u)
  BY <1>1 DEF HoldsNothingNew, Holds
<1> QED BY <1>3, <1>4, <1>5, <1>6 DEF LocalInv

\* A step of t that removes no version and acquires none.
LEMMA StepFrame ==
  ASSUME TypeOK, OwnershipInv, NEW t \in Txn, StepOf(t), KeepsVersions,
         LocalInv(t)', HoldsNothingNew(t)
  PROVE  OwnershipInv'
<1>1. \A u \in Txn : LocalInv(u)' /\ HoldsNothingNew(u)
  BY OthersKept
<1>2. HeldExists'
  <2> SUFFICES ASSUME NEW u \in Txn, NEW i \in DOMAIN writeSet'[u], Holds(u, i)'
               PROVE  Exists(writeSet[u][i].key, writeSet[u][i].version)'
    BY DEF HeldExists
  <2>1. /\ i \in DOMAIN writeSet[u] /\ Holds(u, i)
        /\ writeSet'[u][i].key = writeSet[u][i].key
        /\ writeSet'[u][i].version = writeSet[u][i].version
    BY <1>1 DEF HoldsNothingNew
  <2>2. Exists(writeSet[u][i].key, writeSet[u][i].version)
    BY <2>1 DEF OwnershipInv, HeldExists
  <2>3. writeSet[u][i] \in WriteSetEntry
    BY <2>1, Entries
  <2>4. writeSet[u][i].key \in Key /\ writeSet[u][i].version \in 0 .. MaxVersion
    BY <2>3, VersionDbAssumption DEF WriteSetEntry
  <2> DEFINE k == writeSet[u][i].key
             n == writeSet[u][i].version
  <2>5. versions'[k][n].version # kDefaultVersion
    BY <2>2, <2>4 DEF KeepsVersions, Exists
  <2> QED BY <2>1, <2>5 DEF Exists
<1>3. HeldOnce'
  BY <1>1 DEF OwnershipInv, HeldOnce, HoldsNothingNew
<1> QED BY <1>1, <1>2, <1>3 DEF OwnershipInv, LocalInv

\* A step of t that leaves its write set, its status and the versions alone, and
\* sends no deletion.
LEMMA QuietStep ==
  ASSUME TypeOK, OwnershipInv, NEW t \in Txn, StepOf(t), KeepsVersions, LocalInv(t)',
         writeSet'[t] = writeSet[t], txns'[t].status = txns[t].status,
         \A i : CallFor("DeleteVersion", i) \in calls'[t] => CallFor("DeleteVersion", i) \in calls[t]
  PROVE  OwnershipInv'
<1>1. HoldsNothingNew(t)
  BY DEF HoldsNothingNew, Holds
<1> QED BY <1>1, StepFrame

\* Leaving the versions alone keeps them.
LEMMA VersionsUnchanged ==
  ASSUME versions' = versions
  PROVE  KeepsVersions
BY DEF KeepsVersions, Exists

-----------------------------------------------------------------------------
(* Steps before the decision.                                              *)

\* Before the decision nobody has been told anything and nothing is being deleted.
LEMMA BeforeDecision ==
  ASSUME OwnershipInv, NEW t \in Txn, operation[t] \notin AfterDecision
  PROVE  /\ txns[t].status = "Ongoing" /\ result[t].status = "Ongoing" /\ t \notin Committed
         /\ \A call \in calls[t] : call.op # "DeleteVersion"
<1>1. Undecided(t) /\ DeletesUploaded(t)
  BY DEF OwnershipInv
<1>2. txns[t].status = "Ongoing" /\ result[t].status = "Ongoing"
  BY <1>1 DEF Undecided
<1>3. \A call \in calls[t] : call.op # "DeleteVersion"
  BY <1>1 DEF DeletesUploaded, AfterDecision
<1> QED BY <1>2, <1>3 DEF Committed

\* A step of an undecided transaction that leaves its write set alone has to
\* account only for its uploads.
LEMMA UndecidedStep ==
  ASSUME TypeOK, OwnershipInv, NEW t \in Txn, operation[t] \notin AfterDecision,
         StepOf(t), KeepsVersions, AllUploaded(t)',
         writeSet'[t] = writeSet[t], txns'[t].status = txns[t].status,
         result'[t].status = "Ongoing", \A call \in calls'[t] : call.op # "DeleteVersion"
  PROVE  OwnershipInv'
<1>1. Undecided(t)'
  BY BeforeDecision DEF Undecided
<1>2. DeletesUploaded(t)'
  BY DEF DeletesUploaded
<1>3. \A i : CallFor("DeleteVersion", i) \notin calls'[t]
  BY DEF CallFor
<1> QED BY <1>1, <1>2, <1>3, QuietStep DEF LocalInv

\* Before the decision, every way of writing the result leaves it undecided and is
\* about one transaction.
LEMMA ResultStep ==
  ASSUME TypeOK, NEW t \in Txn, NEW b,
         \/ ResetResult(t) \/ Answer(t, b) \/ SetFinished(t, b)
  PROVE  /\ \A u \in Txn : u # t => result'[u] = result[u]
         /\ result[t].status = "Ongoing" => result'[t].status = "Ongoing"
<1>1. result \in [Txn -> Result] /\ result[t] \in Result
  BY DEF TypeOK
<1>2. CASE ResetResult(t)
  BY <1>1, <1>2 DEF ResetResult, EmptyResult
<1>3. CASE Answer(t, b)
  BY <1>1, <1>3 DEF Answer
<1>4. CASE SetFinished(t, b)
  BY <1>1, <1>4 DEF SetFinished, Result
<1> QED BY <1>2, <1>3, <1>4

\* The requests that only start an operation, and the ones that end without one.
LEMMA RequestOwnership ==
  ASSUME TypeOK, OwnershipInv, NEW t \in Txn,
         \/ Begin(t) \/ InitTxn(t) \/ InitTxnError(t) \/ Abort(t)
         \/ ReadDataStore(t) \/ ReadDataStoreNext(t)
         \/ \E k \in Key, op \in {"Read", "Insert", "Upsert"} : CallReadOutside(t, op, k)
  PROVE  OwnershipInv'
<1>1. /\ operation[t] \in {"Reset", "InitTxn", "Idle", "ReadDataStore"}
      /\ operation'[t] \notin {"Upload", "SetCommitTs", "Validate", "WriteToLog",
                              "UpdateTxnStatusToCommit"}
      /\ \A u \in Txn : u # t => operation'[u] = operation[u]
  BY DEF TypeOK, Moves, Requested, Begin, InitTxn, InitTxnError, Abort, ReadDataStore,
         ReadDataStoreNext, CallReadOutside
<1>2. operation[t] \notin AfterDecision
  BY <1>1 DEF AfterDecision
<1>3. calls' = calls /\ status' = status /\ writeSet' = writeSet /\ versions' = versions
  BY DEF Begin, InitTxn, InitTxnError, Abort, ReadDataStore, ReadDataStoreNext,
         CallReadOutside, Fails, NewTxn, dbVars, localVars
<1>4. \A u \in Txn : txns'[u].status = txns[u].status
  <2>1. txns \in [Txn -> TxnEntry] /\ txns[t].status = "Ongoing"
    BY <1>2, BeforeDecision DEF TypeOK, DbTypeOK
  <2>2. txns' = txns \/ \E local_time \in Times : NewTxn(t, local_time)
    BY DEF Begin, InitTxn, InitTxnError, Abort, ReadDataStore, ReadDataStoreNext,
           CallReadOutside, Fails, dbVars
  <2> QED BY <2>1, <2>2 DEF NewTxn
<1>5. \/ result' = result
      \/ \E b \in BOOLEAN : ResetResult(t) \/ Answer(t, b) \/ SetFinished(t, b)
  BY DEF Begin, InitTxn, InitTxnError, Abort, ReadDataStore, ReadDataStoreNext,
         CallReadOutside
<1>6. /\ \A u \in Txn : u # t => result'[u] = result[u]
      /\ result'[t].status = "Ongoing"
  BY <1>2, <1>5, BeforeDecision, ResultStep
<1>7. AllUploaded(t)'
  BY <1>1, <1>2, <1>4, BeforeDecision DEF AllUploaded, Committed
<1>8. StepOf(t) /\ KeepsVersions
  BY <1>1, <1>3, <1>4, <1>6, VersionsUnchanged DEF StepOf
<1> QED BY <1>2, <1>3, <1>4, <1>6, <1>7, <1>8, BeforeDecision, UndecidedStep

\* An abort, wherever it starts from.
LEMMA AbortOwnership ==
  ASSUME TypeOK, OwnershipInv, NEW t \in Txn, NEW from, from \notin AfterDecision,
         AbortFrom(t, from), UNCHANGED dbVars
  PROVE  OwnershipInv'
<1>1. operation[t] \notin AfterDecision
  BY DEF AbortFrom, Moves
<1>2. /\ operation'[t] = "UpdateTxnStatusToAbort" /\ calls'[t] = {}
      /\ \A u \in Txn : u # t => /\ operation'[u] = operation[u] /\ calls'[u] = calls[u]
                                  /\ status'[u] = status[u]
      /\ writeSet' = writeSet /\ versions' = versions /\ txns' = txns
  BY DEF TypeOK, AbortFrom, Moves, localVars, dbVars
<1>3. /\ \A u \in Txn : u # t => result'[u] = result[u]
      /\ result'[t].status = "Ongoing"
  BY <1>1, BeforeDecision, ResultStep DEF AbortFrom
<1>4. AllUploaded(t)'
  BY <1>1, <1>2, BeforeDecision DEF AllUploaded, Committed
<1>5. StepOf(t) /\ KeepsVersions
  BY <1>2, <1>3, VersionsUnchanged DEF StepOf
<1> QED BY <1>1, <1>2, <1>3, <1>4, <1>5, UndecidedStep

\* The steps from Upload to the end of validation that do not concern one entry.
LEMMA CommitPathOwnership ==
  ASSUME TypeOK, OwnershipInv, NEW t \in Txn,
         \/ Commit(t) \/ UploadNext(t) \/ SetCommitTs(t) \/ SetCommitTsError(t)
         \/ ValidateNext(t) \/ WriteToLog(t)
  PROVE  OwnershipInv'
<1> USE DEF localVars, dbVars
<1>1. AllUploaded(t)
  BY DEF OwnershipInv
<1>2. CASE Commit(t)
  <2>1. operation[t] \notin AfterDecision
    BY <1>2 DEF Commit, Requested, AfterDecision
  <2>2. /\ operation'[t] = "Upload"
        /\ calls'[t] = {CallFor("UploadVersion", i) : i \in DOMAIN writeSet[t]}
        /\ \A u \in Txn : u # t => operation'[u] = operation[u] /\ calls'[u] = calls[u]
        /\ status' = status /\ writeSet' = writeSet /\ versions' = versions /\ txns' = txns
    BY <1>2 DEF TypeOK, Commit, Moves
  <2>3. /\ \A u \in Txn : u # t => result'[u] = result[u]
        /\ result'[t].status = "Ongoing"
    BY <1>2, <2>1, BeforeDecision, ResultStep DEF Commit
  <2>4. AllUploaded(t)'
    BY <2>1, <2>2, BeforeDecision DEF AllUploaded, Committed
  <2>5. StepOf(t) /\ KeepsVersions
    BY <2>2, <2>3, VersionsUnchanged DEF StepOf
  <2>6. \A call \in calls'[t] : call.op # "DeleteVersion"
    BY <2>2 DEF CallFor
  <2> QED BY <2>1, <2>2, <2>3, <2>4, <2>5, <2>6, UndecidedStep
<1>3. CASE /\ UploadNext(t) \/ ValidateNext(t) \/ SetCommitTsError(t)
           /\ \E from \in {"Upload", "Validate", "SetCommitTs"} : AbortFrom(t, from)
  BY <1>3, AbortOwnership DEF UploadNext, ValidateNext, SetCommitTsError, Fails, AfterDecision
<1>4. CASE /\ UploadNext(t) \/ ValidateNext(t) \/ SetCommitTs(t) \/ WriteToLog(t)
           /\ ~ \E from \in {"Upload", "Validate", "SetCommitTs"} : AbortFrom(t, from)
  <2>1. /\ \/ /\ operation[t] = "Upload" /\ calls[t] = {}
              /\ status[t] # "WaitForAborting"
           \/ operation[t] \in {"SetCommitTs", "Validate", "WriteToLog"}
        /\ operation'[t] \in {"SetCommitTs", "Validate", "WriteToLog", "UpdateTxnStatusToCommit"}
        /\ \A u \in Txn : u # t => operation'[u] = operation[u] /\ calls'[u] = calls[u]
        /\ status' = status /\ writeSet' = writeSet /\ result' = result
    BY <1>4 DEF TypeOK, UploadNext, ValidateNext, SetCommitTs, WriteToLog, Moves
  <2>2. operation[t] \notin AfterDecision
    BY <2>1 DEF AfterDecision
  <2>3. versions' = versions /\ \A u \in Txn : txns'[u].status = txns[u].status
    BY <1>4 DEF UploadNext, ValidateNext, SetCommitTs, WriteToLog, SetCommitTimestamp,
                TypeOK, DbTypeOK, TxnEntry
  <2>4. calls'[t] = calls[t] \/ calls'[t] = RereadCalls(t)
    BY <1>4 DEF TypeOK, UploadNext, ValidateNext, SetCommitTs, WriteToLog
  <2>5. \A call \in calls'[t] : call.op # "DeleteVersion"
    BY <2>2, <2>4, BeforeDecision DEF RereadCalls, CallFor
  <2>6. AllUploaded(t)'
    BY <1>1, <2>1, <2>2, <2>3, BeforeDecision DEF AllUploaded, Committed
  <2>7. StepOf(t) /\ KeepsVersions
    BY <2>1, <2>3, VersionsUnchanged DEF StepOf
  <2> QED BY <2>1, <2>2, <2>3, <2>5, <2>6, <2>7, BeforeDecision, UndecidedStep
<1>5. SetCommitTsError(t) => \E from \in {"Upload", "Validate", "SetCommitTs"} : AbortFrom(t, from)
  BY DEF SetCommitTsError
<1>6. SetCommitTs(t) \/ WriteToLog(t) =>
        ~ \E from \in {"Upload", "Validate", "SetCommitTs"} : AbortFrom(t, from)
  BY DEF SetCommitTs, WriteToLog, AbortFrom, Moves, TypeOK
<1> QED BY <1>2, <1>3, <1>4, <1>5, <1>6

-----------------------------------------------------------------------------
(* Requests that queue a write.                                            *)

\* Appending leaves the elements that are there alone.
LEMMA AppendKeeps ==
  ASSUME NEW S, NEW s \in Seq(S), NEW e, NEW i \in DOMAIN Append(s, e)
  PROVE  \/ i \in DOMAIN s /\ Append(s, e)[i] = s[i]
         \/ Append(s, e)[i] = e
<1>1. s \in Seq(S \cup {e})
  BY SeqDef
<1>2. /\ Len(Append(s, e)) = Len(s) + 1 /\ Append(s, e) \in Seq(S \cup {e})
      /\ \A j \in 1 .. Len(s) : Append(s, e)[j] = s[j]
      /\ Append(s, e)[Len(s) + 1] = e
  BY <1>1, AppendProperties
<1>3. i \in 1 .. Len(s) + 1 /\ Len(s) \in Nat /\ DOMAIN s = 1 .. Len(s)
  BY <1>1, <1>2, LenProperties
<1> QED BY <1>2, <1>3

\* The write set of t is as it was, or has a new entry that is not in the store
\* yet, or one of its entries has become a delete.
QueuesAtMost(t) ==
  \A i \in DOMAIN writeSet'[t] : writeSet'[t][i].need_post_processing =>
    /\ i \in DOMAIN writeSet[t] /\ writeSet[t][i].need_post_processing
    /\ writeSet'[t][i].key = writeSet[t][i].key
    /\ writeSet'[t][i].version = writeSet[t][i].version

\* Queueing a write puts nothing into the store.
LEMMA InsertWriteSetQueues ==
  ASSUME TypeOK, NEW t \in Txn, NEW rs, NEW i, NEW is_deleted, InsertWriteSet(t, rs, i, is_deleted)
  PROVE  QueuesAtMost(t) /\ \A u \in Txn : u # t => writeSet'[u] = writeSet[u]
<1> DEFINE e == NewWriteSetEntry(rs[i].key, rs[i].version + 1, is_deleted, i)
<1>1. /\ writeSet'[t] = Append(writeSet[t], e)
      /\ \A u \in Txn : u # t => writeSet'[u] = writeSet[u]
  BY DEF InsertWriteSet, TypeOK
<1>2. e.need_post_processing = FALSE
  BY DEF NewWriteSetEntry
<1>3. writeSet[t] \in Seq(WriteSetEntry)
  BY Entries
<1> HIDE DEF e
<1>4. \A j \in DOMAIN writeSet'[t] :
        \/ j \in DOMAIN writeSet[t] /\ writeSet'[t][j] = writeSet[t][j]
        \/ writeSet'[t][j] = e
  BY <1>1, <1>3, AppendKeeps
<1> QED BY <1>1, <1>2, <1>4 DEF QueuesAtMost

\* Turning a queued write into a delete puts nothing into the store either.
LEMMA DeleteQueuedQueues ==
  ASSUME TypeOK, NEW t \in Txn, NEW k, DeleteQueuedWrite(t, k)
  PROVE  QueuesAtMost(t) /\ \A u \in Txn : u # t => writeSet'[u] = writeSet[u]
<1>1. PICK i \in DOMAIN writeSet[t] :
        writeSet' = [writeSet EXCEPT ![t][i].is_deleted = TRUE]
  BY DEF DeleteQueuedWrite
<1>2. writeSet[t][i] \in WriteSetEntry /\ writeSet[t] \in Seq(WriteSetEntry)
  BY Entries
<1>3. /\ writeSet'[t] = [writeSet[t] EXCEPT ![i] = [writeSet[t][i] EXCEPT !.is_deleted = TRUE]]
      /\ \A u \in Txn : u # t => writeSet'[u] = writeSet[u]
  BY <1>1 DEF TypeOK
<1>4. DOMAIN writeSet'[t] = DOMAIN writeSet[t]
  BY <1>3
<1>5. \A j \in DOMAIN writeSet[t] :
        /\ writeSet'[t][j].need_post_processing = writeSet[t][j].need_post_processing
        /\ writeSet'[t][j].key = writeSet[t][j].key
        /\ writeSet'[t][j].version = writeSet[t][j].version
  BY <1>2, <1>3 DEF WriteSetEntry
<1> QED BY <1>3, <1>4, <1>5 DEF QueuesAtMost

\* A request that queues a write, before the decision.
LEMMA QueueStep ==
  ASSUME TypeOK, OwnershipInv, NEW t \in Txn,
         operation[t] \in {"Idle", "Read", "Insert", "Upsert"}, operation'[t] = "Idle",
         \A u \in Txn : u # t => operation'[u] = operation[u] /\ writeSet'[u] = writeSet[u],
         QueuesAtMost(t), KeepsVersions, calls' = calls, status' = status, txns' = txns,
         \E b : Answer(t, b) \/ SetFinished(t, b)
  PROVE  OwnershipInv'
<1>1. operation[t] \notin AfterDecision
  BY DEF AfterDecision
<1>2. /\ txns[t].status = "Ongoing" /\ result[t].status = "Ongoing" /\ t \notin Committed
      /\ \A call \in calls[t] : call.op # "DeleteVersion"
  BY <1>1, BeforeDecision
<1>3. /\ \A u \in Txn : u # t => result'[u] = result[u]
      /\ result'[t].status = "Ongoing"
  BY <1>2, ResultStep
<1>4. StepOf(t)
  BY <1>3 DEF StepOf
<1>5. LocalInv(t)'
  BY <1>2, <1>3 DEF LocalInv, Undecided, AllUploaded, DeletesUploaded, Committed
<1>6. HoldsNothingNew(t)
  BY <1>2 DEF HoldsNothingNew, Holds, QueuesAtMost
<1> QED BY <1>4, <1>5, <1>6, StepFrame

\* Read, Insert and Upsert when the version list has come, or has failed to.
LEMMA ReadOutsideOwnership ==
  ASSUME TypeOK, OwnershipInv, NEW t \in Txn, ReadOutside(t) \/ ReadOutsideError(t)
  PROVE  OwnershipInv'
<1>1. KeepsVersions /\ txns' = txns
  <2>1. CASE ReadOutside(t)
    <3>1. request[t] \in Key /\ GetVersionList(request[t])
      BY <2>1 DEF ReadOutside, TypeOK
    <3> QED BY <3>1, GetVersionListStep DEF GetVersionList, TypeOK
  <2>2. CASE ReadOutsideError(t)
    BY <2>2, VersionsUnchanged DEF ReadOutsideError, Fails, dbVars
  <2> QED BY <2>1, <2>2
<1>2. PICK rs, b : ReadOutsideNext(t, rs, b)
  BY DEF ReadOutside, ReadOutsideError
<1>3. /\ operation[t] \in {"Read", "Insert", "Upsert"} /\ operation'[t] = "Idle"
      /\ \A u \in Txn : u # t => operation'[u] = operation[u]
      /\ calls' = calls /\ status' = status
      /\ \E c : SetFinished(t, c)
  BY <1>2 DEF ReadOutsideNext, ReadNext, InsertNext, UpsertNext, TypeOK
<1>4. QueuesAtMost(t) /\ \A u \in Txn : u # t => writeSet'[u] = writeSet[u]
  <2>1. CASE writeSet' = writeSet
    BY <2>1 DEF QueuesAtMost
  <2>2. writeSet' = writeSet \/ \E i \in DOMAIN rs : InsertWriteSet(t, rs, i, FALSE)
    BY <1>2 DEF ReadOutsideNext, ReadNext, InsertNext, UpsertNext, OnlyRead
  <2> QED BY <2>1, <2>2, InsertWriteSetQueues
<1> QED BY <1>1, <1>3, <1>4, QueueStep

\* Update and Delete.
LEMMA LocalRequestOwnership ==
  ASSUME TypeOK, OwnershipInv, NEW t \in Txn, NEW k \in Key, Update(t, k) \/ Delete(t, k)
  PROVE  OwnershipInv'
<1>1. /\ operation[t] = "Idle" /\ operation' = operation /\ calls' = calls /\ status' = status
      /\ txns' = txns /\ versions' = versions /\ \E b : Answer(t, b)
  BY DEF Update, Delete, Requested, dbVars
<1>2. QueuesAtMost(t) /\ \A u \in Txn : u # t => writeSet'[u] = writeSet[u]
  <2>1. CASE writeSet' = writeSet
    BY <2>1 DEF QueuesAtMost
  <2>2. CASE \E i, is_deleted : InsertWriteSet(t, readSet[t], i, is_deleted)
    BY <2>2, InsertWriteSetQueues
  <2>3. CASE DeleteQueuedWrite(t, k)
    BY <2>3, DeleteQueuedQueues
  <2> QED BY <2>1, <2>2, <2>3 DEF Update, Delete, DeleteReadVersion, localVars
<1>3. KeepsVersions
  BY <1>1, VersionsUnchanged
<1> QED BY <1>1, <1>2, <1>3, QueueStep

-----------------------------------------------------------------------------
(* Uploads.                                                                *)

\* The version did not exist, so nobody held it; now exactly one entry does.
LEMMA UploadOwnership ==
  ASSUME TypeOK, OwnershipInv, NEW t \in Txn, NEW i \in DOMAIN writeSet[t],
         UploadVersionEntry(t, i)
  PROVE  OwnershipInv'
<1> DEFINE w == writeSet[t][i]
<1>1. w \in WriteSetEntry /\ writeSet[t] \in Seq(WriteSetEntry)
  BY Entries
<1>2. w.key \in Key /\ w.version \in 1 .. MaxVersion /\ w.is_deleted \in BOOLEAN
  BY <1>1 DEF WriteSetEntry
<1>3. PICK key \in Key, n \in 1 .. MaxVersion : key = w.key /\ n = w.version
  BY <1>2
<1>4. KeepsVersions /\ Exists(key, n)' /\ ~ Exists(key, n) /\ txns' = txns
  <2>1. UploadVersion(key, n, t, w.is_deleted)
    BY <1>3 DEF UploadVersionEntry
  <2>2. KeepsVersions /\ Exists(key, n)'
    BY <1>2, <2>1, UploadVersionStep DEF TypeOK
  <2> QED BY <2>1, <2>2 DEF UploadVersion, CanUploadVersion
<1>5. /\ writeSet'[t] = [writeSet[t] EXCEPT ![i] = [w EXCEPT !.need_post_processing = TRUE]]
      /\ \A u \in Txn : u # t => writeSet'[u] = writeSet[u] /\ calls'[u] = calls[u]
      /\ calls'[t] = calls[t] \ {CallFor("UploadVersion", i)}
      /\ operation' = operation /\ status' = status /\ result' = result
  BY DEF UploadVersionEntry, Answered, TypeOK
<1>6. /\ DOMAIN writeSet'[t] = DOMAIN writeSet[t] /\ writeSet'[t][i].need_post_processing
      /\ \A j \in DOMAIN writeSet[t] :
           /\ j # i => writeSet'[t][j] = writeSet[t][j]
           /\ writeSet'[t][j].key = writeSet[t][j].key
           /\ writeSet'[t][j].version = writeSet[t][j].version
  <2> DEFINE e == [w EXCEPT !.need_post_processing = TRUE]
  <2>1. e.need_post_processing /\ e.key = w.key /\ e.version = w.version
    BY <1>1 DEF WriteSetEntry
  <2> HIDE DEF e
  <2>2. /\ DOMAIN writeSet'[t] = DOMAIN writeSet[t]
        /\ \A j \in DOMAIN writeSet[t] :
             writeSet'[t][j] = IF j = i THEN e ELSE writeSet[t][j]
    BY <1>5 DEF e
  <2> QED BY <2>1, <2>2
<1>7. StepOf(t)
  BY <1>4, <1>5 DEF StepOf
<1>8. LocalInv(t)'
  <2>1. Undecided(t) /\ AllUploaded(t) /\ DeletesUploaded(t)
    BY DEF OwnershipInv
  <2>2. Undecided(t)'
    BY <1>4, <1>5, <2>1 DEF Undecided
  <2>3. AllUploaded(t)'
    <3>1. \A j \in DOMAIN writeSet[t] : j # i => CallFor("UploadVersion", j) # CallFor("UploadVersion", i)
      BY DEF CallFor
    <3> QED BY <1>4, <1>5, <1>6, <2>1, <3>1 DEF AllUploaded, Committed
  <2>4. DeletesUploaded(t)'
    BY <1>4, <1>5, <1>6, <2>1 DEF DeletesUploaded, PostProcessIndex
  <2> QED BY <2>2, <2>3, <2>4 DEF LocalInv
<1>9. ASSUME NEW u \in Txn, NEW j \in DOMAIN writeSet'[u], Holds(u, j)', u # t \/ j # i
      PROVE  /\ j \in DOMAIN writeSet[u] /\ Holds(u, j)
             /\ writeSet'[u][j].key = writeSet[u][j].key
             /\ writeSet'[u][j].version = writeSet[u][j].version
  <2>1. CallFor("DeleteVersion", j) # CallFor("UploadVersion", i)
    BY DEF CallFor
  <2> QED BY <1>4, <1>5, <1>6, <1>9, <2>1 DEF Holds
<1>10. ASSUME NEW u \in Txn, NEW j \in DOMAIN writeSet'[u], Holds(u, j)', u # t \/ j # i
      PROVE  /\ Exists(writeSet[u][j].key, writeSet[u][j].version)
             /\ writeSet[u][j].key \in Key /\ writeSet[u][j].version \in 0 .. MaxVersion
  <2>1. j \in DOMAIN writeSet[u] /\ Holds(u, j)
    BY <1>9, <1>10
  <2>2. writeSet[u][j] \in WriteSetEntry
    BY <2>1, Entries
  <2> QED BY <2>1, <2>2, VersionDbAssumption DEF OwnershipInv, HeldExists, WriteSetEntry
<1>11. HeldExists'
  <2> SUFFICES ASSUME NEW u \in Txn, NEW j \in DOMAIN writeSet'[u], Holds(u, j)'
               PROVE  Exists(writeSet[u][j].key, writeSet[u][j].version)'
    BY DEF HeldExists
  <2>1. CASE u = t /\ j = i
    BY <1>3, <1>4, <1>6, <2>1 DEF Exists
  <2>2. CASE u # t \/ j # i
    <3> DEFINE k == writeSet[u][j].key
               m == writeSet[u][j].version
    <3>1. versions'[k][m].version # kDefaultVersion
      BY <1>4, <1>10, <2>2 DEF KeepsVersions, Exists
    <3> QED BY <1>9, <2>2, <3>1 DEF Exists
  <2> QED BY <2>1, <2>2
<1>12. ASSUME NEW u \in Txn, NEW j \in DOMAIN writeSet'[u], Holds(u, j)', u # t \/ j # i
       PROVE  writeSet'[u][j].key # w.key \/ writeSet'[u][j].version # w.version
  <2>1. /\ writeSet'[u][j].key = writeSet[u][j].key
        /\ writeSet'[u][j].version = writeSet[u][j].version
        /\ Exists(writeSet[u][j].key, writeSet[u][j].version)
    BY <1>9, <1>10, <1>12
  <2> QED BY <1>3, <1>4, <2>1
<1>13. HeldOnce'
  <2> SUFFICES ASSUME NEW u \in Txn, NEW v \in Txn,
                      NEW j \in DOMAIN writeSet'[u], NEW l \in DOMAIN writeSet'[v],
                      Holds(u, j)', Holds(v, l)',
                      writeSet'[u][j].key = writeSet'[v][l].key,
                      writeSet'[u][j].version = writeSet'[v][l].version
               PROVE  u = v /\ j = l
    BY DEF HeldOnce
  <2>1. CASE u = t /\ j = i
    BY <1>6, <1>12, <2>1
  <2>2. CASE v = t /\ l = i
    BY <1>6, <1>12, <2>2
  <2>3. CASE (u # t \/ j # i) /\ (v # t \/ l # i)
    BY <1>9, <2>3 DEF OwnershipInv, HeldOnce
  <2> QED BY <2>1, <2>2, <2>3
<1>14. \A u \in Txn : LocalInv(u)'
  BY <1>7, <1>8, OthersKept
<1> QED BY <1>11, <1>13, <1>14 DEF OwnershipInv, LocalInv

-----------------------------------------------------------------------------
(* The other answers, and Recover.                                         *)

\* The answer to a call that is no deletion, without a move of the operation.
LEMMA AnswerStep ==
  ASSUME TypeOK, OwnershipInv, NEW t \in Txn, KeepsVersions,
         operation' = operation, writeSet' = writeSet, result' = result,
         \A u \in Txn : txns'[u].status = txns[u].status,
         \A u \in Txn : u # t => calls'[u] = calls[u] /\ status'[u] = status[u],
         status'[t] \in {status[t], "WaitForAborting"},
         \A call \in calls'[t] : call.op = "DeleteVersion" => call \in calls[t],
         \A i : CallFor("UploadVersion", i) \in calls[t] =>
                 CallFor("UploadVersion", i) \in calls'[t] \/ status'[t] = "WaitForAborting"
  PROVE  OwnershipInv'
<1>1. Undecided(t) /\ AllUploaded(t) /\ DeletesUploaded(t)
  BY DEF OwnershipInv
<1>2. Undecided(t)'
  BY <1>1 DEF Undecided
<1>3. AllUploaded(t)'
  BY <1>1 DEF AllUploaded, Committed
<1>4. DeletesUploaded(t)'
  BY <1>1 DEF DeletesUploaded, PostProcessIndex
<1>5. \A i : CallFor("DeleteVersion", i) \in calls'[t] => CallFor("DeleteVersion", i) \in calls[t]
  BY DEF CallFor
<1>6. StepOf(t)
  BY DEF StepOf
<1> QED BY <1>2, <1>3, <1>4, <1>5, <1>6, QuietStep DEF LocalInv

\* Recover leaves everything where it is.
LEMMA RecoverOwnership ==
  ASSUME TypeOK, OwnershipInv, NEW t \in Txn, NEW from, Recover(t, from), UNCHANGED dbVars,
         calls' = calls \/ \E call : Answered(t, call)
  PROVE  OwnershipInv'
<1>1. /\ operation'[t] = "Recover"
      /\ \A u \in Txn : u # t => operation'[u] = operation[u] /\ calls'[u] = calls[u]
      /\ calls'[t] \subseteq calls[t]
      /\ status' = status /\ writeSet' = writeSet /\ result' = result
      /\ txns' = txns /\ versions' = versions
  BY DEF Recover, Moves, Answered, TypeOK, localVars, dbVars
<1>2. Undecided(t) /\ AllUploaded(t) /\ DeletesUploaded(t)
  BY DEF OwnershipInv
<1>3. LocalInv(t)'
  BY <1>1, <1>2 DEF LocalInv, Undecided, AllUploaded, DeletesUploaded, Committed,
                    AfterDecision, PostProcessIndex
<1>4. StepOf(t) /\ KeepsVersions
  BY <1>1, VersionsUnchanged DEF StepOf
<1> QED BY <1>1, <1>3, <1>4, QuietStep

\* The answers to refused uploads, rereads, pushes and releases.
LEMMA EntryOwnership ==
  ASSUME TypeOK, OwnershipInv, NEW t \in Txn,
         \/ \E i \in DOMAIN readSet[t] :
              \/ UpdateReadEntryMaxCommitTs(t, i) \/ UpdateReadEntryMaxCommitTsError(t, i)
              \/ \E u \in Txn : \/ PushConflictTxnCommitTsLowerBound(t, i, u)
                                \/ PushConflictTxnCommitTsLowerBoundError(t, i, u)
              \/ ReleaseReadCounterForEachEntry(t, i)
         \/ \E i \in DOMAIN writeSet[t] : UploadVersionEntryError(t, i)
  PROVE  OwnershipInv'
<1> USE DEF localVars, dbVars
<1>1. operation' = operation /\ writeSet' = writeSet /\ result' = result
  BY DEF UpdateReadEntryMaxCommitTs, UpdateReadEntryMaxCommitTsError,
         PushConflictTxnCommitTsLowerBound, PushConflictTxnCommitTsLowerBoundError,
         ReleaseReadCounterForEachEntry, UploadVersionEntryError
<1>2. KeepsVersions
  <2>1. ASSUME NEW i \in DOMAIN readSet[t], UpdateReadEntryMaxCommitTs(t, i)
        PROVE  KeepsVersions
    <3>1. readSet[t][i] \in ReadSetEntry /\ commit_timestamp[t] \in Int
      BY Entries DEF TypeOK
    <3>2. readSet[t][i].key \in Key /\ readSet[t][i].version \in 0 .. MaxVersion
      BY <3>1 DEF ReadSetEntry
    <3> QED BY <2>1, <3>1, <3>2, RestampStep DEF UpdateReadEntryMaxCommitTs, TypeOK
  <2> QED BY <2>1, VersionsUnchanged
             DEF UpdateReadEntryMaxCommitTsError, PushConflictTxnCommitTsLowerBound,
                 PushConflictTxnCommitTsLowerBoundError, ReleaseReadCounterForEachEntry,
                 UploadVersionEntryError, Fails, UpdateCommitLowerBound, ReleaseReadCounter
<1>3. \A u \in Txn : txns'[u].status = txns[u].status
  <2>1. txns \in [Txn -> TxnEntry]
    BY DEF TypeOK, DbTypeOK
  <2>2. txns' = txns \/ \E u \in Txn : \E ts : UpdateCommitLowerBound(u, ts)
    BY DEF UpdateReadEntryMaxCommitTs, UpdateReadEntryMaxCommitTsError,
           PushConflictTxnCommitTsLowerBound, PushConflictTxnCommitTsLowerBoundError,
           ReleaseReadCounterForEachEntry, UploadVersionEntryError,
           UpdateMaxCommitTsAndReread, Fails, ReleaseReadCounter
  <2> QED BY <2>1, <2>2 DEF UpdateCommitLowerBound, TxnEntry
<1>4. \/ status' = status \/ PrepareAbort(t)
  BY DEF UpdateReadEntryMaxCommitTs, UpdateReadEntryMaxCommitTsError,
         PushConflictTxnCommitTsLowerBound, PushConflictTxnCommitTsLowerBoundError,
         ReleaseReadCounterForEachEntry, UploadVersionEntryError
<1>5. /\ \A u \in Txn : u # t => status'[u] = status[u]
      /\ status'[t] \in {status[t], "WaitForAborting"}
      /\ PrepareAbort(t) => status'[t] = "WaitForAborting"
  BY <1>4 DEF PrepareAbort, TypeOK
<1> DEFINE IsAnswered(call) ==
             /\ \/ Answered(t, call)
                \/ \E i, u : calls' = [calls EXCEPT ![t] = (@ \ {call}) \cup {PushCall(i, u)}]
             /\ call.op = "UploadVersion" => PrepareAbort(t)
<1>6. PICK call : IsAnswered(call)
  <2>1. ASSUME NEW i, UpdateReadEntryMaxCommitTs(t, i) \/ UpdateReadEntryMaxCommitTsError(t, i)
        PROVE  IsAnswered(CallFor("UpdateReadEntryMaxCommitTs", i))
    BY <2>1 DEF UpdateReadEntryMaxCommitTs, UpdateReadEntryMaxCommitTsError, CallFor
  <2>2. ASSUME NEW i, NEW u, \/ PushConflictTxnCommitTsLowerBound(t, i, u)
                             \/ PushConflictTxnCommitTsLowerBoundError(t, i, u)
        PROVE  IsAnswered(PushCall(i, u))
    BY <2>2 DEF PushConflictTxnCommitTsLowerBound, PushConflictTxnCommitTsLowerBoundError, PushCall
  <2>3. ASSUME NEW i, ReleaseReadCounterForEachEntry(t, i)
        PROVE  IsAnswered(CallFor("ReleaseReadCounter", i))
    BY <2>3 DEF ReleaseReadCounterForEachEntry, CallFor
  <2>4. ASSUME NEW i, UploadVersionEntryError(t, i)
        PROVE  IsAnswered(CallFor("UploadVersion", i))
    BY <2>4 DEF UploadVersionEntryError
  <2> HIDE DEF IsAnswered
  <2> QED BY <2>1, <2>2, <2>3, <2>4
<1>7. /\ \A u \in Txn : u # t => calls'[u] = calls[u]
      /\ \/ calls'[t] = calls[t] \ {call}
         \/ \E i, u : calls'[t] = (calls[t] \ {call}) \cup {PushCall(i, u)}
  <2>1. calls \in [Txn -> SUBSET Call]
    BY DEF TypeOK
  <2>2. CASE Answered(t, call)
    BY <2>1, <2>2 DEF Answered
  <2>3. CASE ~ Answered(t, call)
    <3>1. PICK i, u : calls' = [calls EXCEPT ![t] = (calls[t] \ {call}) \cup {PushCall(i, u)}]
      BY <1>6, <2>3
    <3> QED BY <2>1, <3>1
  <2> QED BY <2>2, <2>3
<1>8. /\ \A c \in calls'[t] : c.op = "DeleteVersion" => c \in calls[t]
      /\ \A i : CallFor("UploadVersion", i) \in calls[t] =>
               CallFor("UploadVersion", i) \in calls'[t] \/ status'[t] = "WaitForAborting"
  <2>1. \A i, u : PushCall(i, u).op # "DeleteVersion"
    BY DEF PushCall
  <2>2. \A c \in calls'[t] : c.op = "DeleteVersion" => c \in calls[t]
    BY <1>7, <2>1
  <2>3. ASSUME NEW i, CallFor("UploadVersion", i) \in calls[t]
        PROVE  CallFor("UploadVersion", i) \in calls'[t] \/ status'[t] = "WaitForAborting"
    BY <1>5, <1>6, <1>7, <2>3 DEF PushCall, CallFor
  <2> QED BY <2>2, <2>3
<1> QED BY <1>1, <1>2, <1>3, <1>5, <1>7, <1>8, AnswerStep

\* The answers to the two halves of CommitVersion, which may end in Recover.
LEMMA CommitEntryOwnership ==
  ASSUME TypeOK, OwnershipInv, NEW t \in Txn, NEW i \in DOMAIN writeSet[t],
         \/ PostProcessingCommitNew(t, i) \/ PostProcessingClosePrev(t, i)
         \/ PostProcessingCommitEntryError(t, i)
  PROVE  OwnershipInv'
<1>1. KeepsVersions /\ txns' = txns
  <2>1. writeSet[t][i] \in WriteSetEntry /\ commit_timestamp[t] \in Int
    BY Entries DEF TypeOK
  <2>2. /\ writeSet[t][i].key \in Key /\ writeSet[t][i].version \in 0 .. MaxVersion
        /\ writeSet[t][i].version > 0
    BY <2>1, VersionDbAssumption DEF WriteSetEntry
  <2>3. CASE PostProcessingCommitNew(t, i)
    BY <2>1, <2>2, <2>3, RestampStep DEF PostProcessingCommitNew, CommitNewVersion, TypeOK
  <2>4. CASE PostProcessingClosePrev(t, i)
    BY <2>1, <2>2, <2>4, RestampStep DEF PostProcessingClosePrev, ClosePrevVersion, TypeOK
  <2>5. CASE PostProcessingCommitEntryError(t, i)
    BY <2>5, VersionsUnchanged DEF PostProcessingCommitEntryError, dbVars
  <2> QED BY <2>3, <2>4, <2>5
<1>2. PICK half \in CommitHalf, is_error \in BOOLEAN : CommitEntryAnswered(t, i, half, is_error)
  BY DEF PostProcessingCommitNew, PostProcessingClosePrev, PostProcessingCommitEntryError, CommitHalf
<1> DEFINE rest == (calls[t] \ {CallFor(half, i)})
                     \cup (IF is_error THEN {CallFor(Failed(half), i)} ELSE {})
<1>3. /\ operation'[t] \in {operation[t], "Recover"} /\ calls'[t] = rest
      /\ \A u \in Txn : u # t => operation'[u] = operation[u] /\ calls'[u] = calls[u]
      /\ status' = status /\ writeSet' = writeSet /\ result' = result
  BY <1>2 DEF CommitEntryAnswered, TypeOK
<1>4. /\ \A call \in calls'[t] : call.op = "DeleteVersion" => call \in calls[t]
      /\ \A j : CallFor("UploadVersion", j) \in calls[t] => CallFor("UploadVersion", j) \in calls'[t]
  BY <1>3 DEF CallFor, Failed, CommitHalf
<1>5. Undecided(t) /\ AllUploaded(t) /\ DeletesUploaded(t)
  BY DEF OwnershipInv
<1> HIDE DEF rest
<1>6. LocalInv(t)'
  <2>1. Undecided(t)'
    BY <1>1, <1>3, <1>5 DEF Undecided, AfterDecision
  <2>2. AllUploaded(t)'
    BY <1>1, <1>3, <1>4, <1>5 DEF AllUploaded, Committed
  <2>3. DeletesUploaded(t)'
    BY <1>1, <1>3, <1>4, <1>5 DEF DeletesUploaded, PostProcessIndex
  <2> QED BY <2>1, <2>2, <2>3 DEF LocalInv
<1>7. StepOf(t)
  BY <1>1, <1>3 DEF StepOf
<1>8. \A j : CallFor("DeleteVersion", j) \in calls'[t] => CallFor("DeleteVersion", j) \in calls[t]
  BY <1>4 DEF CallFor
<1> QED BY <1>1, <1>3, <1>6, <1>7, <1>8, QuietStep

-----------------------------------------------------------------------------
(* The decision and the end.                                               *)

\* The decision changes the status of one transaction in the table and its result.
LEMMA DecisionStep ==
  ASSUME TypeOK, NEW t \in Txn, NEW s \in {"Committed", "Aborted"},
         UpdateTxnStatus(t, s), SetStatus(t, s)
  PROVE  /\ txns'[t].status = s /\ versions' = versions
         /\ \A u \in Txn : u # t => txns'[u] = txns[u] /\ result'[u] = result[u]
<1>1. txns \in [Txn -> TxnEntry] /\ result \in [Txn -> Result]
  BY DEF TypeOK, DbTypeOK
<1> QED BY <1>1 DEF UpdateTxnStatus, SetStatus, TxnEntry

\* Committing: every version of the write set is in the store.
LEMMA CommitOwnership ==
  ASSUME TypeOK, OwnershipInv, NEW t \in Txn, UpdateTxnStatusToCommit(t)
  PROVE  OwnershipInv'
<1>1. operation[t] \notin AfterDecision /\ operation[t] = "UpdateTxnStatusToCommit"
  BY DEF UpdateTxnStatusToCommit, Moves, AfterDecision
<1>2. /\ txns'[t].status = "Committed" /\ versions' = versions
      /\ \A u \in Txn : u # t => txns'[u] = txns[u] /\ result'[u] = result[u]
  BY DecisionStep DEF UpdateTxnStatusToCommit
<1>3. /\ operation'[t] = "PostProcessingAfterCommit"
      /\ \A u \in Txn : u # t => operation'[u] = operation[u] /\ calls'[u] = calls[u]
      /\ calls'[t] = {CallFor("CommitNew", i) : i \in PostProcessIndex(t)}
                       \cup {CallFor("ClosePrev", i) : i \in PostProcessIndex(t)}
      /\ status' = status /\ writeSet' = writeSet
  BY DEF UpdateTxnStatusToCommit, Moves, TypeOK, localVars
<1>4. StepOf(t) /\ KeepsVersions
  BY <1>2, <1>3, VersionsUnchanged DEF StepOf
<1>5. AllUploaded(t)
  BY DEF OwnershipInv
<1>6. AllUploaded(t)'
  BY <1>1, <1>3, <1>5 DEF AllUploaded
<1>7. DeletesUploaded(t)'
  BY <1>3 DEF DeletesUploaded, CallFor
<1>8. Undecided(t)'
  BY <1>3 DEF Undecided, AfterDecision
<1>9. HoldsNothingNew(t)
  BY <1>1, <1>3, BeforeDecision DEF HoldsNothingNew, Holds
<1> QED BY <1>4, <1>6, <1>7, <1>8, <1>9, StepFrame DEF LocalInv

\* Aborting: everything that is in the store is going to be deleted.
LEMMA DecideAbortOwnership ==
  ASSUME TypeOK, OwnershipInv, NEW t \in Txn, UpdateTxnStatusToAbort(t)
  PROVE  OwnershipInv'
<1>1. operation[t] \notin AfterDecision
  BY DEF UpdateTxnStatusToAbort, Moves, AfterDecision
<1>2. /\ txns'[t].status = "Aborted" /\ versions' = versions
      /\ \A u \in Txn : u # t => txns'[u] = txns[u] /\ result'[u] = result[u]
  BY DecisionStep DEF UpdateTxnStatusToAbort
<1>3. /\ operation'[t] = "PostProcessingAfterAbort"
      /\ \A u \in Txn : u # t => operation'[u] = operation[u] /\ calls'[u] = calls[u]
      /\ calls'[t] = {CallFor("DeleteVersion", i) : i \in PostProcessIndex(t)}
      /\ status' = status /\ writeSet' = writeSet
  BY DEF UpdateTxnStatusToAbort, Moves, TypeOK, localVars
<1>4. StepOf(t) /\ KeepsVersions
  BY <1>2, <1>3, VersionsUnchanged DEF StepOf
<1>5. AllUploaded(t)'
  BY <1>2, <1>3 DEF AllUploaded, Committed
<1>6. DeletesUploaded(t)'
  BY <1>2, <1>3 DEF DeletesUploaded, CallFor, PostProcessIndex
<1>7. Undecided(t)'
  BY <1>3 DEF Undecided, AfterDecision
<1>8. HoldsNothingNew(t)
  BY <1>1, <1>3, BeforeDecision DEF HoldsNothingNew, Holds
<1> QED BY <1>4, <1>5, <1>6, <1>7, <1>8, StepFrame DEF LocalInv

\* The deletion of a version: its only holder lets it go.
LEMMA DeleteOwnership ==
  ASSUME TypeOK, OwnershipInv, NEW t \in Txn, NEW i \in DOMAIN writeSet[t],
         PostProcessingDeleteEntryAfterAbort(t, i)
  PROVE  OwnershipInv'
<1> DEFINE w == writeSet[t][i]
           call == CallFor("DeleteVersion", i)
<1>1. /\ operation' = operation /\ status' = status /\ writeSet' = writeSet
      /\ result' = result /\ txns' = txns
      /\ \A u \in Txn : u # t => calls'[u] = calls[u]
      /\ calls'[t] = calls[t] \ {call} /\ call \in calls[t]
  BY DEF PostProcessingDeleteEntryAfterAbort, DeleteVersion, Answered, TypeOK, localVars
<1>2. Undecided(t) /\ AllUploaded(t) /\ DeletesUploaded(t)
  BY DEF OwnershipInv
<1>3. txns[t].status = "Aborted" /\ w.need_post_processing
  BY <1>1, <1>2 DEF DeletesUploaded, CallFor, PostProcessIndex
<1>4. Holds(t, i) /\ ~ Holds(t, i)'
  BY <1>1, <1>3 DEF Holds
<1>5. StepOf(t)
  BY <1>1 DEF StepOf
<1>6. LocalInv(t)'
  <2>1. Undecided(t)'
    BY <1>1, <1>2 DEF Undecided
  <2>2. AllUploaded(t)'
    <3>1. \A j : CallFor("UploadVersion", j) # call
      BY DEF CallFor
    <3> QED BY <1>1, <1>2, <3>1 DEF AllUploaded, Committed
  <2>3. DeletesUploaded(t)'
    BY <1>1, <1>2 DEF DeletesUploaded, PostProcessIndex
  <2> QED BY <2>1, <2>2, <2>3 DEF LocalInv
<1>7. HoldsNothingNew(t)
  BY <1>1 DEF HoldsNothingNew, Holds
<1>8. \A u \in Txn : LocalInv(u)' /\ HoldsNothingNew(u)
  BY <1>5, <1>6, <1>7, OthersKept
<1>9. HeldOnce'
  BY <1>8 DEF OwnershipInv, HeldOnce, HoldsNothingNew
<1>10. HeldExists'
  <2> SUFFICES ASSUME NEW u \in Txn, NEW j \in DOMAIN writeSet'[u], Holds(u, j)'
               PROVE  Exists(writeSet[u][j].key, writeSet[u][j].version)'
    BY DEF HeldExists
  <2>1. j \in DOMAIN writeSet[u] /\ Holds(u, j)
    BY <1>8 DEF HoldsNothingNew
  <2>2. Exists(writeSet[u][j].key, writeSet[u][j].version)
    BY <2>1 DEF OwnershipInv, HeldExists
  <2>3. u # t \/ j # i
    BY <1>4
  <2>4. writeSet[u][j].key # w.key \/ writeSet[u][j].version # w.version
    BY <1>4, <2>1, <2>3 DEF OwnershipInv, HeldOnce
  <2>5. w \in WriteSetEntry /\ writeSet[u][j] \in WriteSetEntry
    BY <2>1, Entries
  <2>6. /\ w.key \in Key /\ w.version \in 1 .. MaxVersion
        /\ writeSet[u][j].key \in Key /\ writeSet[u][j].version \in 0 .. MaxVersion
    BY <2>5, VersionDbAssumption DEF WriteSetEntry
  <2>7. \A l \in Key : \A m \in 0 .. MaxVersion :
          (l # w.key \/ m # w.version) /\ Exists(l, m) => versions'[l][m].version # kDefaultVersion
    BY <2>6, DeleteVersionStep DEF PostProcessingDeleteEntryAfterAbort, TypeOK, Exists
  <2>8. versions'[writeSet[u][j].key][writeSet[u][j].version].version # kDefaultVersion
    BY <2>2, <2>4, <2>6, <2>7
  <2> QED BY <1>1, <2>8 DEF Exists
<1> QED BY <1>8, <1>9, <1>10 DEF OwnershipInv, LocalInv

\* The ends of the two post-processings.
LEMMA EndOwnership ==
  ASSUME TypeOK, OwnershipInv, NEW t \in Txn,
         \/ PostProcessingAfterCommitNext(t) \/ PostProcessingAfterAbortNext(t)
         \/ ReleaseReadCounterNext(t)
  PROVE  OwnershipInv'
<1>1. /\ operation'[t] \in {"Finished", "ReleaseReadCounter"}
      /\ \A u \in Txn : u # t => /\ operation'[u] = operation[u] /\ calls'[u] = calls[u]
                                  /\ status'[u] = status[u]
      /\ writeSet' = writeSet /\ result' = result /\ txns' = txns /\ versions' = versions
      /\ calls'[t] = {} \/ calls'[t] = {CallFor("ReleaseReadCounter", i) : i \in ReleaseIndex(t)}
  BY DEF PostProcessingAfterCommitNext, PostProcessingAfterAbortNext, ReleaseReadCounterNext,
         Moves, TypeOK, localVars, dbVars
<1>2. Undecided(t) /\ AllUploaded(t) /\ DeletesUploaded(t)
  BY DEF OwnershipInv
<1>3. \A call \in calls'[t] : call.op # "DeleteVersion"
  BY <1>1 DEF CallFor
<1>4. LocalInv(t)'
  BY <1>1, <1>2, <1>3 DEF LocalInv, Undecided, AfterDecision, AllUploaded, Committed,
                          DeletesUploaded
<1>5. \A i : CallFor("DeleteVersion", i) \notin calls'[t]
  BY <1>3 DEF CallFor
<1>6. StepOf(t) /\ KeepsVersions
  BY <1>1, VersionsUnchanged DEF StepOf
<1> QED BY <1>1, <1>4, <1>5, <1>6, QuietStep

-----------------------------------------------------------------------------
(* The theorems.                                                           *)

\* Nothing is held, sent or decided at first.
LEMMA InitOwnership == Init => OwnershipInv
<1> SUFFICES ASSUME Init PROVE OwnershipInv
  OBVIOUS
<1>1. \A t \in Txn : /\ operation[t] = "Reset" /\ calls[t] = {} /\ writeSet[t] = <<>>
                     /\ txns[t].status = "Ongoing" /\ result[t].status = "Ongoing"
  BY DEF Init, DbInit, EmptyResult
<1>2. \A t \in Txn : DOMAIN writeSet[t] = {}
  <2>1. <<>> \in Seq(WriteSetEntry) /\ Len(<<>>) = 0
    OBVIOUS
  <2>2. DOMAIN <<>> = 1 .. 0
    BY <2>1, LenProperties
  <2>3. DOMAIN <<>> = {}
    BY <2>2
  <2> QED BY <1>1, <2>3
<1>3. HeldExists /\ HeldOnce
  BY <1>2 DEF HeldExists, HeldOnce
<1>4. \A t \in Txn : Undecided(t) /\ AllUploaded(t) /\ DeletesUploaded(t)
  BY <1>1, <1>2 DEF Undecided, AllUploaded, DeletesUploaded
<1> QED BY <1>3, <1>4 DEF OwnershipInv

\* Every step keeps the ownership of versions.
LEMMA NextOwnership == TypeOK /\ OwnershipInv /\ [Next]_vars => OwnershipInv'
<1> SUFFICES ASSUME TypeOK, OwnershipInv, [Next]_vars PROVE OwnershipInv'
  OBVIOUS
<1>1. CASE UNCHANGED vars
  BY <1>1 DEF OwnershipInv, Undecided, AllUploaded, DeletesUploaded, HeldExists, HeldOnce,
              Holds, Exists, Committed, PostProcessIndex, vars, dbVars, execVars, localVars
<1>2. ASSUME NEW t \in Txn, Client(t) PROVE OwnershipInv'
  <2>1. ASSUME NEW k \in Key, Read(t, k) \/ Insert(t, k) \/ Upsert(t, k) PROVE OwnershipInv'
    BY <2>1, RequestOwnership DEF Read, Insert, Upsert
  <2> QED BY <1>2, <2>1, RequestOwnership, CommitPathOwnership, LocalRequestOwnership DEF Client
<1>3. ASSUME NEW t \in Txn, Progress(t) PROVE OwnershipInv'
  <2>1. ASSUME NEW i \in DOMAIN readSet[t], ReadEntryStep(t, i) PROVE OwnershipInv'
    <3>1. CASE ReleaseReadCounterForEachEntryError(t, i)
      BY <3>1, RecoverOwnership DEF ReleaseReadCounterForEachEntryError, Fails
    <3> QED BY <2>1, <3>1, EntryOwnership DEF ReadEntryStep
  <2>2. ASSUME NEW i \in DOMAIN writeSet[t], WriteEntryStep(t, i) PROVE OwnershipInv'
    <3>1. CASE PostProcessingDeleteEntryAfterAbortError(t, i)
      BY <3>1, RecoverOwnership DEF PostProcessingDeleteEntryAfterAbortError
    <3> QED BY <2>2, <3>1, UploadOwnership, EntryOwnership, CommitEntryOwnership,
               DeleteOwnership DEF WriteEntryStep
  <2>3. CASE UpdateTxnStatusToCommitError(t) \/ UpdateTxnStatusToAbortError(t)
    BY <2>3, RecoverOwnership
       DEF UpdateTxnStatusToCommitError, UpdateTxnStatusToAbortError, Fails
  <2> QED BY <1>3, <2>1, <2>2, <2>3, RequestOwnership, ReadOutsideOwnership,
             CommitPathOwnership, CommitOwnership, DecideAbortOwnership, EndOwnership
             DEF Progress
<1> QED BY <1>1, <1>2, <1>3 DEF Next, AllEnded

\* Every version that a transaction has uploaded and not deleted is in the store and
\* held by that one write set entry, from UploadVersion to the end of
\* post-processing, in every interleaving and whatever calls fail.
THEOREM Ownership == Spec => []OwnershipInv
BY InitTypes, NextTypes, InitOwnership, NextOwnership, PTL DEF Spec

\* No update is lost: two committed transactions never wrote the same version of a
\* key, because UploadVersion refuses the second and the refusal aborts it.
THEOREM NoUpdateLost == Spec => []NoLostUpdate
<1>1. TypeOK /\ OwnershipInv => NoLostUpdate
  <2> SUFFICES ASSUME OwnershipInv, NEW t \in Committed, NEW u \in Committed,
                      NEW i \in DOMAIN writeSet[t], NEW j \in DOMAIN writeSet[u],
                      writeSet[t][i].key = writeSet[u][j].key,
                      writeSet[t][i].version = writeSet[u][j].version
               PROVE  t = u
    BY DEF NoLostUpdate
  <2>1. t \in Txn /\ u \in Txn /\ txns[t].status = "Committed" /\ txns[u].status = "Committed"
    BY DEF Committed
  <2>2. writeSet[t][i].need_post_processing /\ writeSet[u][j].need_post_processing
    BY <2>1 DEF OwnershipInv, AllUploaded
  <2>3. Holds(t, i) /\ Holds(u, j)
    BY <2>1, <2>2 DEF Holds
  <2> QED BY <2>1, <2>3 DEF OwnershipInv, HeldOnce
<1> QED BY <1>1, TypeCorrect, Ownership, PTL

-----------------------------------------------------------------------------
(* Decisions are final.                                                    *)

\* The result of t is all that a step of t may write, and only before t's decision.
WritesResult(t) ==
  \/ result' = result
  \/ /\ operation[t] \notin AfterDecision
     /\ \A u \in Txn : u # t => result'[u] = result[u]

\* The same for the status that the transaction table keeps of t.
WritesStatus(t) ==
  \/ \A u \in Txn : txns'[u].status = txns[u].status
  \/ /\ operation[t] \notin AfterDecision
     /\ \A u \in Txn : u # t => txns'[u].status = txns[u].status

\* A client's request is made before the decision, and asks nothing of the table.
LEMMA ClientWrites ==
  ASSUME TypeOK, NEW t \in Txn, Client(t)
  PROVE  WritesResult(t) /\ WritesStatus(t)
<1> USE DEF Client, Begin, Commit, Abort, ReadDataStore, Read, Insert, Upsert,
            CallReadOutside, Update, Delete
<1>1. operation[t] \in {"Reset", "Idle"}
  BY DEF Moves, Requested
<1>2. txns' = txns
  BY DEF dbVars
<1>3. \E b : ResetResult(t) \/ Answer(t, b)
  OBVIOUS
<1>4. \A u \in Txn : u # t => result'[u] = result[u]
  BY <1>3, ResultStep
<1> QED BY <1>1, <1>2, <1>4 DEF WritesResult, WritesStatus, AfterDecision

\* The answers for the entries of the read set.
LEMMA ReadEntryWrites ==
  ASSUME TypeOK, NEW t \in Txn, NEW i, ReadEntryStep(t, i)
  PROVE  WritesResult(t) /\ WritesStatus(t)
<1>1. /\ result' = result
      /\ txns' = txns \/ \E u \in Txn : \E ts : UpdateCommitLowerBound(u, ts)
  BY DEF ReadEntryStep, UpdateReadEntryMaxCommitTs, UpdateReadEntryMaxCommitTsError,
         PushConflictTxnCommitTsLowerBound, PushConflictTxnCommitTsLowerBoundError,
         ReleaseReadCounterForEachEntry, ReleaseReadCounterForEachEntryError, Recover,
         UpdateMaxCommitTsAndReread, ReleaseReadCounter, Fails, dbVars
<1>2. txns \in [Txn -> TxnEntry]
  BY DEF TypeOK, DbTypeOK
<1>3. \A u \in Txn : txns'[u].status = txns[u].status
  BY <1>1, <1>2 DEF UpdateCommitLowerBound, TxnEntry
<1> QED BY <1>1, <1>3 DEF WritesResult, WritesStatus

\* The answers for the entries of the write set.
LEMMA WriteEntryWrites ==
  ASSUME TypeOK, NEW t \in Txn, NEW i, WriteEntryStep(t, i)
  PROVE  WritesResult(t) /\ WritesStatus(t)
<1> USE DEF WriteEntryStep, UploadVersionEntry, UploadVersionEntryError,
            PostProcessingCommitNew, PostProcessingClosePrev, PostProcessingCommitEntryError,
            PostProcessingDeleteEntryAfterAbort, PostProcessingDeleteEntryAfterAbortError
<1>1. result' = result
  BY DEF Recover, CommitEntryAnswered
<1>2. txns' = txns
  BY DEF UploadVersion, CommitNewVersion, ClosePrevVersion, DeleteVersion, dbVars
<1> QED BY <1>1, <1>2 DEF WritesResult, WritesStatus

\* The moves of MoveForward.
LEMMA MoveWrites ==
  ASSUME TypeOK, NEW t \in Txn,
         \/ InitTxn(t) \/ InitTxnError(t) \/ ReadOutside(t) \/ ReadOutsideError(t)
         \/ ReadDataStoreNext(t) \/ UploadNext(t) \/ SetCommitTs(t) \/ SetCommitTsError(t)
         \/ ValidateNext(t) \/ WriteToLog(t)
         \/ UpdateTxnStatusToCommit(t) \/ UpdateTxnStatusToCommitError(t)
         \/ PostProcessingAfterCommitNext(t)
         \/ UpdateTxnStatusToAbort(t) \/ UpdateTxnStatusToAbortError(t)
         \/ PostProcessingAfterAbortNext(t) \/ ReleaseReadCounterNext(t)
  PROVE  WritesResult(t) /\ WritesStatus(t)
<1> USE DEF InitTxn, InitTxnError, ReadOutside, ReadOutsideError, ReadDataStoreNext,
            UploadNext, SetCommitTs, SetCommitTsError, ValidateNext, WriteToLog,
            UpdateTxnStatusToCommit, UpdateTxnStatusToCommitError,
            PostProcessingAfterCommitNext, UpdateTxnStatusToAbort,
            UpdateTxnStatusToAbortError, PostProcessingAfterAbortNext, ReleaseReadCounterNext
<1>1. \/ result' = result
      \/ /\ operation[t] \notin AfterDecision
         /\ \E b, s : ResetResult(t) \/ SetFinished(t, b) \/ SetStatus(t, s)
  BY DEF ReadOutsideNext, ReadNext, InsertNext, UpsertNext, AbortFrom, Recover, Moves,
         AfterDecision
<1>2. ASSUME NEW s, SetStatus(t, s) PROVE \A u \in Txn : u # t => result'[u] = result[u]
  BY <1>2 DEF SetStatus, TypeOK
<1>3. WritesResult(t)
  BY <1>1, <1>2, ResultStep DEF WritesResult
<1>4. \/ txns' = txns
      \/ \E ts : SetCommitTimestamp(t, ts)
      \/ /\ operation[t] \notin AfterDecision
         /\ \E ts, s : NewTxn(t, ts) \/ UpdateTxnStatus(t, s)
  BY DEF Moves, AfterDecision, GetVersionList, Fails, dbVars
<1>5. txns \in [Txn -> TxnEntry]
  BY DEF TypeOK, DbTypeOK
<1>6. WritesStatus(t)
  BY <1>4, <1>5 DEF WritesStatus, SetCommitTimestamp, NewTxn, UpdateTxnStatus, TxnEntry
<1> QED BY <1>3, <1>6

\* A decision is final: once UpdateTxnStatusToCommit or UpdateTxnStatusToAbort has
\* decided, and once the client has been told, no step of any transaction and no
\* failing call of post-processing changes the outcome.
THEOREM DecisionStands == Spec => DecisionIsFinal
<1> DEFINE Final(t) ==
             /\ txns[t].status # "Ongoing" => txns'[t].status = txns[t].status
             /\ result[t].status # "Ongoing" => result'[t].status = result[t].status
<1>1. ASSUME TypeOK, OwnershipInv, [Next]_vars, NEW u \in Txn PROVE Final(u)
  <2>1. CASE UNCHANGED vars
    BY <2>1 DEF vars, dbVars, execVars
  <2>2. ASSUME NEW t \in Txn, Client(t) \/ Progress(t) PROVE Final(u)
    <3>1. WritesResult(t) /\ WritesStatus(t)
      BY <1>1, <2>2, ClientWrites, ReadEntryWrites, WriteEntryWrites, MoveWrites DEF Progress
    <3>2. operation[t] \notin AfterDecision =>
            txns[t].status = "Ongoing" /\ result[t].status = "Ongoing"
      BY <1>1, BeforeDecision
    <3> QED BY <3>1, <3>2 DEF WritesResult, WritesStatus
  <2> QED BY <1>1, <2>1, <2>2 DEF Next, AllEnded
<1>2. TypeOK /\ OwnershipInv /\ [Next]_vars => [\A t \in Txn : Final(t)]_vars
  BY <1>1
<1> HIDE DEF Final
<1>3. Spec => [][\A t \in Txn : Final(t)]_vars
  BY <1>2, TypeCorrect, Ownership, PTL DEF Spec
<1> QED BY <1>3 DEF DecisionIsFinal, Final

-----------------------------------------------------------------------------
(* What a transaction may rely on about itself.                            *)

CommitCalls == {"CommitNew", "ClosePrev", "CommitNewFailed", "ClosePrevFailed"}

ValidateCalls == {"UpdateReadEntryMaxCommitTs", "PushConflict"}

BeforeUpload == {"Reset", "InitTxn", "Idle", "Read", "ReadDataStore", "Insert", "Upsert"}

BeforeTimestamp == BeforeUpload \cup {"Upload", "SetCommitTs"}

AfterTimestamp == {"Validate", "WriteToLog", "UpdateTxnStatusToCommit"}

\* The transaction table and the client's result say what the operation says.
Outcome(t) ==
  /\ txns[t].status \in {"Ongoing", "Committed", "Aborted"}
  /\ operation[t] = "PostProcessingAfterCommit" => txns[t].status = "Committed"
  /\ operation[t] \in {"PostProcessingAfterAbort", "ReleaseReadCounter"} =>
       txns[t].status = "Aborted"
  /\ operation[t] = "Finished" =>
       calls[t] = {} /\ txns[t].status # "Ongoing" /\ status[t] = txns[t].status
  /\ txns[t].status # "Ongoing" =>
       result[t].status = txns[t].status /\ result[t].is_finished

\* Only the operation that sent a call, or a Recover, finds its answer.
CallsMatch(t) ==
  \A call \in calls[t] :
    /\ call.op = "UploadVersion" => operation[t] = "Upload"
    /\ call.op \in ValidateCalls => operation[t] = "Validate"
    /\ call.op \in CommitCalls => t \in Committed /\ call.index \in PostProcessIndex(t)

\* Every queued write supersedes the version of a read that is marked as updated,
\* and nothing is in the store before Upload.
SetsLinked(t) ==
  /\ \A j \in DOMAIN writeSet[t] :
       LET i == writeSet[t][j].read_entry IN
       /\ i \in DOMAIN readSet[t]
       /\ readSet[t][i].key = writeSet[t][j].key
       /\ readSet[t][i].version = writeSet[t][j].version - 1
       /\ readSet[t][i].is_updated
  /\ \A i \in DOMAIN readSet[t] : readSet[t][i].is_updated =>
       \E j \in DOMAIN writeSet[t] : writeSet[t][j].read_entry = i

NothingUploaded(t) ==
  operation[t] \in BeforeUpload =>
    \A j \in DOMAIN writeSet[t] : ~ writeSet[t][j].need_post_processing

\* The commit timestamp is not before what was read and after what is superseded.
TimestampAfterReads(t) ==
  operation[t] \in AfterTimestamp \cup {"SetCommitTs"} \/ t \in Committed =>
    /\ \A i \in DOMAIN readSet[t] : readSet[t][i].begin_ts <= commit_timestamp[t]
    /\ \A j \in DOMAIN writeSet[t] :
         readSet[t][writeSet[t][j].read_entry].begin_ts < commit_timestamp[t]

\* Other transactions find the commit timestamp in the table from SetCommitTs on.
TimestampInTable(t) ==
  /\ operation[t] \in BeforeTimestamp => txns[t].commit_ts = kDefaultCommitTs
  /\ operation[t] \in AfterTimestamp \/ t \in Committed =>
       txns[t].commit_ts = commit_timestamp[t]

\* Who still has to release a read.
Releases(t) ==
  /\ operation[t] = "Validate" =>
       \A i \in DOMAIN readSet[t] :
         \/ readSet[t][i].is_updated \/ ~ readSet[t][i].need_release
         \/ status[t] = "WaitForAborting"
         \/ CallFor("UpdateReadEntryMaxCommitTs", i) \in calls[t]
  /\ operation[t] \in {"WriteToLog", "UpdateTxnStatusToCommit"} \/ t \in Committed =>
       \A i \in DOMAIN readSet[t] : readSet[t][i].is_updated \/ ~ readSet[t][i].need_release
  /\ t \in Committed =>
       \A j \in DOMAIN writeSet[t] :
         \/ ~ readSet[t][writeSet[t][j].read_entry].need_release
         \/ CallFor("CommitNew", j) \in calls[t]
         \/ CallFor("ClosePrev", j) \in calls[t]
         \/ operation[t] = "Recover"
  /\ operation[t] = "ReleaseReadCounter" =>
       \A i \in DOMAIN readSet[t] :
         \/ ~ readSet[t][i].need_release
         \/ CallFor("ReleaseReadCounter", i) \in calls[t]
  /\ operation[t] = "Finished" =>
       \A i \in DOMAIN readSet[t] : ~ readSet[t][i].need_release

SelfInv(t) ==
  /\ Outcome(t) /\ CallsMatch(t) /\ SetsLinked(t) /\ NothingUploaded(t)
  /\ TimestampAfterReads(t) /\ TimestampInTable(t) /\ Releases(t)

ExecutionInv == \A t \in Txn : SelfInv(t)

-----------------------------------------------------------------------------
(* The frame.                                                              *)

\* The step is t's: of another transaction it changes at most the commit_lower_bound.
Frame(t) ==
  \A u \in Txn : u # t =>
    /\ operation'[u] = operation[u] /\ calls'[u] = calls[u] /\ status'[u] = status[u]
    /\ request'[u] = request[u] /\ result'[u] = result[u]
    /\ readSet'[u] = readSet[u] /\ writeSet'[u] = writeSet[u]
    /\ commit_timestamp'[u] = commit_timestamp[u]
    /\ max_commit_timestamp_of_writers'[u] = max_commit_timestamp_of_writers[u]
    /\ txns'[u].status = txns[u].status /\ txns'[u].commit_ts = txns[u].commit_ts
    /\ txns'[u].commit_lower_bound >= txns[u].commit_lower_bound

\* What the table's calls change: one field of one entry.
LEMMA TableFrame ==
  ASSUME TypeOK, NEW t \in Txn,
         \/ txns' = txns
         \/ \E ts : NewTxn(t, ts) \/ SetCommitTimestamp(t, ts)
         \/ \E s : UpdateTxnStatus(t, s)
         \/ \E u \in Txn, ts \in Int : UpdateCommitLowerBound(u, ts)
  PROVE  \A u \in Txn : u # t =>
           /\ txns'[u].status = txns[u].status /\ txns'[u].commit_ts = txns[u].commit_ts
           /\ txns'[u].commit_lower_bound >= txns[u].commit_lower_bound
<1>1. txns \in [Txn -> TxnEntry]
  BY DEF TypeOK, DbTypeOK
<1>2. \A u \in Txn : txns[u].commit_lower_bound \in Int
  BY <1>1 DEF TxnEntry
<1>3. CASE \E u \in Txn, ts \in Int : UpdateCommitLowerBound(u, ts)
  BY <1>1, <1>2, <1>3 DEF UpdateCommitLowerBound, TxnEntry
<1>4. CASE ~ \E u \in Txn, ts \in Int : UpdateCommitLowerBound(u, ts)
  BY <1>1, <1>2, <1>4 DEF NewTxn, SetCommitTimestamp, UpdateTxnStatus
<1> QED BY <1>3, <1>4

\* A client's request is a step of its transaction.
LEMMA ClientFrame ==
  ASSUME TypeOK, NEW t \in Txn, Client(t)
  PROVE  Frame(t)
<1> USE DEF Client, Begin, Commit, Abort, ReadDataStore, Read, Insert, Upsert,
            CallReadOutside, Update, Delete
<1>1. txns' = txns
  BY DEF dbVars
<1>2. \A u \in Txn : u # t => /\ operation'[u] = operation[u] /\ calls'[u] = calls[u]
                               /\ status'[u] = status[u] /\ request'[u] = request[u]
                               /\ result'[u] = result[u]
  BY DEF Moves, ResetResult, Answer, TypeOK
<1>3. \A u \in Txn : u # t => readSet'[u] = readSet[u] /\ writeSet'[u] = writeSet[u]
  BY DEF localVars, DeleteQueuedWrite, DeleteReadVersion, InsertWriteSet, TypeOK
<1>4. tsVars' = tsVars
  BY DEF tsVars
<1> QED BY <1>1, <1>2, <1>3, <1>4, TableFrame DEF Frame, tsVars

\* So are the answers for the entries of the read set,
LEMMA ReadEntryFrame ==
  ASSUME TypeOK, NEW t \in Txn, NEW i, ReadEntryStep(t, i)
  PROVE  Frame(t)
<1>1. commit_timestamp[t] + 1 \in Int
  BY DEF TypeOK
<1> USE DEF ReadEntryStep, UpdateReadEntryMaxCommitTs, UpdateReadEntryMaxCommitTsError,
         PushConflictTxnCommitTsLowerBound, PushConflictTxnCommitTsLowerBoundError,
         ReleaseReadCounterForEachEntry, ReleaseReadCounterForEachEntryError
<1>2. txns' = txns \/ \E u \in Txn, ts \in Int : UpdateCommitLowerBound(u, ts)
  BY <1>1 DEF UpdateMaxCommitTsAndReread, ReleaseReadCounter, Fails, dbVars
<1>3. \A u \in Txn : u # t => operation'[u] = operation[u] /\ status'[u] = status[u]
  BY DEF Recover, Moves, PrepareAbort, TypeOK
<1>4. \A u \in Txn : u # t => calls'[u] = calls[u]
  BY DEF Answered, TypeOK
<1>5. \A u \in Txn : u # t => readSet'[u] = readSet[u]
  BY DEF Released, TypeOK, Recover, localVars
<1>6. UNCHANGED <<request, result, writeSet, tsVars>>
  BY DEF Recover, localVars
<1> QED BY <1>2, <1>3, <1>4, <1>5, <1>6, TableFrame DEF Frame, tsVars

\* those for the entries of the write set,
LEMMA WriteEntryFrame ==
  ASSUME TypeOK, NEW t \in Txn, NEW i, WriteEntryStep(t, i)
  PROVE  Frame(t)
<1> USE DEF WriteEntryStep, UploadVersionEntry, UploadVersionEntryError,
            PostProcessingCommitNew, PostProcessingClosePrev, PostProcessingCommitEntryError,
            PostProcessingDeleteEntryAfterAbort, PostProcessingDeleteEntryAfterAbortError
<1>1. txns' = txns
  BY DEF UploadVersion, CommitNewVersion, ClosePrevVersion, DeleteVersion, dbVars
<1>2. \A u \in Txn : u # t => operation'[u] = operation[u] /\ status'[u] = status[u]
  BY DEF Recover, Moves, PrepareAbort, CommitEntryAnswered, TypeOK
<1>3. \A u \in Txn : u # t => calls'[u] = calls[u]
  BY DEF Answered, CommitEntryAnswered, TypeOK
<1>4. \A u \in Txn : u # t => readSet'[u] = readSet[u] /\ writeSet'[u] = writeSet[u]
  BY DEF CommitEntryAnswered, TypeOK, Recover, localVars
<1>5. UNCHANGED <<request, result, commit_timestamp>>
  BY DEF Recover, CommitEntryAnswered, tsVars
<1>6. \A u \in Txn : u # t => max_commit_timestamp_of_writers'[u] = max_commit_timestamp_of_writers[u]
  BY DEF Recover, CommitEntryAnswered, tsVars, TypeOK
<1> QED BY <1>1, <1>2, <1>3, <1>4, <1>5, <1>6, TableFrame DEF Frame

\* and the moves of MoveForward.
LEMMA MoveFrame ==
  ASSUME TypeOK, NEW t \in Txn,
         \/ InitTxn(t) \/ InitTxnError(t) \/ ReadOutside(t) \/ ReadOutsideError(t)
         \/ ReadDataStoreNext(t) \/ UploadNext(t) \/ SetCommitTs(t) \/ SetCommitTsError(t)
         \/ ValidateNext(t) \/ WriteToLog(t)
         \/ UpdateTxnStatusToCommit(t) \/ UpdateTxnStatusToCommitError(t)
         \/ PostProcessingAfterCommitNext(t)
         \/ UpdateTxnStatusToAbort(t) \/ UpdateTxnStatusToAbortError(t)
         \/ PostProcessingAfterAbortNext(t) \/ ReleaseReadCounterNext(t)
  PROVE  Frame(t)
<1> USE DEF InitTxn, InitTxnError, ReadOutside, ReadOutsideError, ReadDataStoreNext,
            UploadNext, SetCommitTs, SetCommitTsError, ValidateNext, WriteToLog,
            UpdateTxnStatusToCommit, UpdateTxnStatusToCommitError,
            PostProcessingAfterCommitNext, UpdateTxnStatusToAbort,
            UpdateTxnStatusToAbortError, PostProcessingAfterAbortNext, ReleaseReadCounterNext
<1>1. \/ txns' = txns
      \/ \E ts : NewTxn(t, ts) \/ SetCommitTimestamp(t, ts)
      \/ \E s : UpdateTxnStatus(t, s)
  BY DEF GetVersionList, Fails, dbVars
<1>2. \A u \in Txn : u # t => /\ operation'[u] = operation[u] /\ status'[u] = status[u]
                               /\ calls'[u] = calls[u] /\ request'[u] = request[u]
  BY DEF ReadOutsideNext, AbortFrom, Recover, Moves, TypeOK
<1>3. \A u \in Txn : u # t => result'[u] = result[u]
  BY DEF ReadOutsideNext, ReadNext, InsertNext, UpsertNext, SetFinished, SetStatus, ResetResult,
         AbortFrom, Recover, TypeOK
<1>4. \A u \in Txn : u # t => readSet'[u] = readSet[u] /\ writeSet'[u] = writeSet[u]
  <2>1. CASE \E rs, read_error : ReadOutsideNext(t, rs, read_error)
    <3>1. PICK rs, read_error : ReadOutsideNext(t, rs, read_error)
      BY <2>1
    <3> QED BY <3>1 DEF ReadOutsideNext, ReadNext, InsertNext, UpsertNext, OnlyRead, InsertWriteSet,
                        TypeOK
  <2>2. CASE ~ \E rs, read_error : ReadOutsideNext(t, rs, read_error)
    <3>1. UNCHANGED localVars
      BY <2>2 DEF AbortFrom, Recover
    <3> QED BY <3>1 DEF localVars
  <2> QED BY <2>1, <2>2
<1>5. \A u \in Txn : u # t =>
        /\ commit_timestamp'[u] = commit_timestamp[u]
        /\ max_commit_timestamp_of_writers'[u] = max_commit_timestamp_of_writers[u]
  BY DEF ReadOutsideNext, AbortFrom, Recover, tsVars, TypeOK
<1> QED BY <1>1, <1>2, <1>3, <1>4, <1>5, TableFrame DEF Frame

\* Every step but the rest of the system is one transaction's.
LEMMA EveryStepFrame ==
  ASSUME TypeOK, NEW t \in Txn, Client(t) \/ Progress(t)
  PROVE  Frame(t)
BY ClientFrame, ReadEntryFrame, WriteEntryFrame, MoveFrame DEF Progress

\* What others may rely on about themselves does not depend on t's steps.
LEMMA OthersSelfInv ==
  ASSUME ExecutionInv, NEW t \in Txn, Frame(t), NEW u \in Txn, u # t
  PROVE  SelfInv(u)'
<1>1. SelfInv(u)
  BY DEF ExecutionInv
<1>2. /\ operation'[u] = operation[u] /\ calls'[u] = calls[u] /\ status'[u] = status[u]
      /\ result'[u] = result[u] /\ readSet'[u] = readSet[u] /\ writeSet'[u] = writeSet[u]
      /\ commit_timestamp'[u] = commit_timestamp[u]
      /\ txns'[u].status = txns[u].status /\ txns'[u].commit_ts = txns[u].commit_ts
  BY DEF Frame
<1>3. u \in Committed' <=> u \in Committed
  BY <1>2 DEF Committed
<1>4. Outcome(u)' /\ CallsMatch(u)'
  BY <1>1, <1>2, <1>3 DEF SelfInv, Outcome, CallsMatch, PostProcessIndex
<1>5. SetsLinked(u)' /\ NothingUploaded(u)'
  BY <1>1, <1>2 DEF SelfInv, SetsLinked, NothingUploaded
<1>6. TimestampAfterReads(u)' /\ TimestampInTable(u)'
  BY <1>1, <1>2, <1>3 DEF SelfInv, TimestampAfterReads, TimestampInTable
<1>7. Releases(u)'
  BY <1>1, <1>2, <1>3 DEF SelfInv, Releases
<1> QED BY <1>4, <1>5, <1>6, <1>7 DEF SelfInv

-----------------------------------------------------------------------------
(* Reads, writes and what links them.                                      *)

\* The entries stay what they are: reads are only released, writes only uploaded.
SetsKept(t) ==
  /\ DOMAIN readSet'[t] = DOMAIN readSet[t]
  /\ \A i \in DOMAIN readSet[t] :
       /\ readSet'[t][i].key = readSet[t][i].key
       /\ readSet'[t][i].version = readSet[t][i].version
       /\ readSet'[t][i].begin_ts = readSet[t][i].begin_ts
       /\ readSet'[t][i].is_updated = readSet[t][i].is_updated
       /\ readSet'[t][i].need_release => readSet[t][i].need_release
  /\ DOMAIN writeSet'[t] = DOMAIN writeSet[t]
  /\ \A j \in DOMAIN writeSet[t] :
       /\ writeSet'[t][j].key = writeSet[t][j].key
       /\ writeSet'[t][j].version = writeSet[t][j].version
       /\ writeSet'[t][j].read_entry = writeSet[t][j].read_entry
       /\ writeSet[t][j].need_post_processing => writeSet'[t][j].need_post_processing

\* Nothing changes.
LEMMA SetsUnchanged ==
  ASSUME NEW t \in Txn, UNCHANGED localVars
  PROVE  SetsKept(t)
BY DEF SetsKept, localVars

\* A read is released.
LEMMA ReleaseKeepsSets ==
  ASSUME TypeOK, NEW t \in Txn, NEW i, NEW b \in BOOLEAN,
         readSet' = [readSet EXCEPT ![t][i].need_release = b],
         i \in DOMAIN readSet[t] /\ b => readSet[t][i].need_release, UNCHANGED writeSet
  PROVE  SetsKept(t)
<1> DEFINE r == [readSet[t][i] EXCEPT !.need_release = b]
<1>1. readSet'[t] = [readSet[t] EXCEPT ![i] = r]
  BY DEF TypeOK
<1>2. ASSUME i \in DOMAIN readSet[t]
      PROVE  /\ r.key = readSet[t][i].key /\ r.version = readSet[t][i].version
             /\ r.begin_ts = readSet[t][i].begin_ts
             /\ r.is_updated = readSet[t][i].is_updated
             /\ r.need_release = b
  <2>1. readSet[t][i] \in ReadSetEntry
    BY <1>2, Entries
  <2> QED BY <2>1 DEF ReadSetEntry
<1> HIDE DEF r
<1>3. DOMAIN readSet'[t] = DOMAIN readSet[t]
  BY <1>1
<1>4. \A l \in DOMAIN readSet[t] : readSet'[t][l] = IF l = i THEN r ELSE readSet[t][l]
  BY <1>1
<1> QED BY <1>2, <1>3, <1>4 DEF SetsKept

\* A write is in the store.
LEMMA UploadKeepsSets ==
  ASSUME TypeOK, NEW t \in Txn, NEW i \in DOMAIN writeSet[t], UploadVersionEntry(t, i)
  PROVE  /\ SetsKept(t)
         /\ \A j \in DOMAIN writeSet[t] : writeSet'[t][j].need_post_processing =>
              j = i \/ writeSet[t][j].need_post_processing
         /\ writeSet'[t][i].need_post_processing
<1> DEFINE w == [writeSet[t][i] EXCEPT !.need_post_processing = TRUE]
<1>1. writeSet'[t] = [writeSet[t] EXCEPT ![i] = w] /\ readSet' = readSet
  BY DEF UploadVersionEntry, TypeOK
<1>2. /\ w.key = writeSet[t][i].key /\ w.version = writeSet[t][i].version
      /\ w.read_entry = writeSet[t][i].read_entry /\ w.need_post_processing
  <2>1. writeSet[t][i] \in WriteSetEntry
    BY Entries
  <2> QED BY <2>1 DEF WriteSetEntry
<1> HIDE DEF w
<1>3. DOMAIN writeSet'[t] = DOMAIN writeSet[t]
  BY <1>1
<1>4. \A l \in DOMAIN writeSet[t] : writeSet'[t][l] = IF l = i THEN w ELSE writeSet[t][l]
  BY <1>1
<1> QED BY <1>1, <1>2, <1>3, <1>4 DEF SetsKept

\* The answer to one half of CommitVersion.
LEMMA CommitEntryKeepsSets ==
  ASSUME TypeOK, NEW t \in Txn, NEW i \in DOMAIN writeSet[t], NEW half, NEW is_error,
         CommitEntryAnswered(t, i, half, is_error)
  PROVE  SetsKept(t)
<1> DEFINE rest == (calls[t] \ {CallFor(half, i)})
                     \cup (IF is_error THEN {CallFor(Failed(half), i)} ELSE {})
           done == /\ CallFor(OtherHalf(half), i) \notin rest
                   /\ ~ \E h \in CommitHalf : CallFor(Failed(h), i) \in rest
           l == writeSet[t][i].read_entry
           b == readSet[t][l].need_release /\ ~ done
<1>1. readSet' = [readSet EXCEPT ![t][l].need_release = b] /\ b \in BOOLEAN /\ UNCHANGED writeSet
  BY DEF CommitEntryAnswered
<1>2. b => readSet[t][l].need_release
  OBVIOUS
<1> HIDE DEF b
<1> QED BY <1>1, <1>2, ReleaseKeepsSets

\* What links the sets, and the timestamp to the reads, is kept with the entries.
LEMMA LinksKept ==
  ASSUME NEW t \in Txn, SelfInv(t), SetsKept(t)
  PROVE  /\ SetsLinked(t)'
         /\ (/\ commit_timestamp'[t] = commit_timestamp[t]
             /\ operation[t] \in AfterTimestamp \cup {"SetCommitTs"} \/ t \in Committed)
            => TimestampAfterReads(t)'
<1>1. SetsLinked(t) /\ TimestampAfterReads(t)
  BY DEF SelfInv
<1>2. SetsLinked(t)'
  BY <1>1 DEF SetsLinked, SetsKept
<1>3. ASSUME commit_timestamp'[t] = commit_timestamp[t],
             operation[t] \in AfterTimestamp \cup {"SetCommitTs"} \/ t \in Committed
      PROVE  TimestampAfterReads(t)'
  BY <1>1, <1>3 DEF SetsLinked, SetsKept, TimestampAfterReads
<1> QED BY <1>2, <1>3

\* A write of the key of read set entry i of rs has been queued: the read is marked,
\* the write is the newest.
Queued(t, rs, i) ==
  /\ DOMAIN readSet'[t] = DOMAIN rs
  /\ \A l \in DOMAIN rs :
       /\ readSet'[t][l].key = rs[l].key
       /\ readSet'[t][l].version = rs[l].version
       /\ readSet'[t][l].begin_ts = rs[l].begin_ts
       /\ readSet'[t][l].is_updated <=> l = i \/ rs[l].is_updated
       /\ readSet'[t][l].need_release = rs[l].need_release
  /\ DOMAIN writeSet[t] \subseteq DOMAIN writeSet'[t]
  /\ \A j \in DOMAIN writeSet[t] : writeSet'[t][j] = writeSet[t][j]
  /\ \E new \in DOMAIN writeSet'[t] :
       /\ \A j \in DOMAIN writeSet'[t] : j = new \/ j \in DOMAIN writeSet[t]
       /\ writeSet'[t][new].key = rs[i].key
       /\ writeSet'[t][new].version = rs[i].version + 1
       /\ writeSet'[t][new].read_entry = i
       /\ writeSet'[t][new].need_post_processing = FALSE

\* What InsertWriteSet does.
LEMMA InsertWriteSetEffect ==
  ASSUME TypeOK, NEW t \in Txn, NEW rs \in Seq(ReadSetEntry), NEW i \in DOMAIN rs,
         NEW is_deleted, InsertWriteSet(t, rs, i, is_deleted)
  PROVE  Queued(t, rs, i)
<1> DEFINE r == [rs[i] EXCEPT !.is_updated = TRUE]
           w == NewWriteSetEntry(rs[i].key, rs[i].version + 1, is_deleted, i)
           new == Len(writeSet[t]) + 1
<1>1. readSet'[t] = [rs EXCEPT ![i] = r] /\ writeSet'[t] = Append(writeSet[t], w)
  BY DEF InsertWriteSet, TypeOK
<1>2. i \in 1 .. Len(rs)
  BY LenProperties
<1>3. rs[i] \in ReadSetEntry
  BY <1>2, ElementOfSeq
<1>4. /\ r.key = rs[i].key /\ r.version = rs[i].version /\ r.begin_ts = rs[i].begin_ts
      /\ r.is_updated /\ r.need_release = rs[i].need_release
  BY <1>3 DEF ReadSetEntry
<1>5. \A l \in DOMAIN rs : rs[l].is_updated \in BOOLEAN
  <2>1. ASSUME NEW l \in DOMAIN rs PROVE rs[l] \in ReadSetEntry
    BY LenProperties, ElementOfSeq
  <2> QED BY <2>1 DEF ReadSetEntry
<1>6. /\ w.key = rs[i].key /\ w.version = rs[i].version + 1 /\ w.read_entry = i
      /\ w.need_post_processing = FALSE
  BY DEF NewWriteSetEntry
<1> HIDE DEF r, w
<1>7. writeSet[t] \in Seq(WriteSetEntry \cup {w})
  BY Entries, SeqDef
<1>8. /\ DOMAIN writeSet[t] = 1 .. Len(writeSet[t]) /\ Len(writeSet[t]) \in Nat
      /\ DOMAIN writeSet'[t] = 1 .. Len(writeSet[t]) + 1
      /\ \A j \in 1 .. Len(writeSet[t]) : writeSet'[t][j] = writeSet[t][j]
      /\ writeSet'[t][new] = w
  BY <1>1, <1>7, AppendProperties, LenProperties
<1>9. /\ DOMAIN readSet'[t] = DOMAIN rs
      /\ \A l \in DOMAIN rs :
              /\ readSet'[t][l].key = rs[l].key
              /\ readSet'[t][l].version = rs[l].version
              /\ readSet'[t][l].begin_ts = rs[l].begin_ts
              /\ readSet'[t][l].is_updated <=> l = i \/ rs[l].is_updated
              /\ readSet'[t][l].need_release = rs[l].need_release
  <2>1. \A l \in DOMAIN rs : readSet'[t][l] = IF l = i THEN r ELSE rs[l]
    BY <1>1
  <2> QED BY <1>1, <1>4, <1>5, <2>1
<1>10. /\ DOMAIN writeSet[t] \subseteq DOMAIN writeSet'[t]
       /\ \A j \in DOMAIN writeSet[t] : writeSet'[t][j] = writeSet[t][j]
       /\ new \in DOMAIN writeSet'[t]
       /\ \A j \in DOMAIN writeSet'[t] : j = new \/ j \in DOMAIN writeSet[t]
  BY <1>8
<1> QED BY <1>6, <1>8, <1>9, <1>10 DEF Queued

\* rs is the read set of t, or has a new read at the end.
ExtendsReads(t, rs) ==
  /\ \A i \in DOMAIN readSet[t] : i \in DOMAIN rs /\ rs[i] = readSet[t][i]
  /\ \A i \in DOMAIN rs : i \in DOMAIN readSet[t] \/ ~ rs[i].is_updated

\* Queueing a write, or none, keeps reads and writes linked.
LEMMA QueueLinks ==
  ASSUME TypeOK, NEW t \in Txn, SetsLinked(t), NEW rs \in Seq(ReadSetEntry),
         ExtendsReads(t, rs),
         \/ OnlyRead(t, rs)
         \/ \E i \in DOMAIN rs, d \in BOOLEAN : InsertWriteSet(t, rs, i, d)
  PROVE  SetsLinked(t)'
<1>1. CASE OnlyRead(t, rs)
  <2>1. readSet'[t] = rs /\ writeSet'[t] = writeSet[t]
    BY <1>1 DEF OnlyRead, TypeOK
  <2> QED BY <2>1 DEF SetsLinked, ExtendsReads
<1>2. ASSUME NEW i \in DOMAIN rs, NEW d \in BOOLEAN, InsertWriteSet(t, rs, i, d)
      PROVE  SetsLinked(t)'
  <2>1. Queued(t, rs, i)
    BY <1>2, InsertWriteSetEffect
  <2>2. PICK new \in DOMAIN writeSet'[t] :
              /\ \A j \in DOMAIN writeSet'[t] : j = new \/ j \in DOMAIN writeSet[t]
              /\ writeSet'[t][new].key = rs[i].key
              /\ writeSet'[t][new].version = rs[i].version + 1
              /\ writeSet'[t][new].read_entry = i
    BY <2>1 DEF Queued
  <2>3. rs[i].version \in Int
    <3>1. rs[i] \in ReadSetEntry
      BY LenProperties, ElementOfSeq
    <3> QED BY <3>1 DEF ReadSetEntry
  <2>4. rs[i].version = writeSet'[t][new].version - 1
    BY <2>2, <2>3
  <2>5. ASSUME NEW j \in DOMAIN writeSet'[t]
        PROVE  LET l == writeSet'[t][j].read_entry IN
               /\ l \in DOMAIN readSet'[t]
               /\ readSet'[t][l].key = writeSet'[t][j].key
               /\ readSet'[t][l].version = writeSet'[t][j].version - 1
               /\ readSet'[t][l].is_updated
    <3>1. CASE j = new
      BY <2>1, <2>2, <2>4, <3>1 DEF Queued
    <3>2. CASE j \in DOMAIN writeSet[t]
      <4> DEFINE l == writeSet[t][j].read_entry
      <4>1. /\ l \in DOMAIN readSet[t]
            /\ readSet[t][l].key = writeSet[t][j].key
            /\ readSet[t][l].version = writeSet[t][j].version - 1
            /\ readSet[t][l].is_updated
        BY <3>2 DEF SetsLinked
      <4>2. l \in DOMAIN rs /\ rs[l] = readSet[t][l]
        BY <4>1 DEF ExtendsReads
      <4>3. writeSet'[t][j] = writeSet[t][j]
        BY <2>1, <3>2 DEF Queued
      <4> HIDE DEF l
      <4>4. /\ l \in DOMAIN readSet'[t]
            /\ readSet'[t][l].key = rs[l].key
            /\ readSet'[t][l].version = rs[l].version
            /\ readSet'[t][l].is_updated
        BY <2>1, <4>1, <4>2 DEF Queued
      <4> QED BY <4>1, <4>2, <4>3, <4>4 DEF l
    <3> QED BY <2>2, <3>1, <3>2
  <2>6. ASSUME NEW l \in DOMAIN readSet'[t], readSet'[t][l].is_updated
        PROVE  \E j \in DOMAIN writeSet'[t] : writeSet'[t][j].read_entry = l
    <3>1. l \in DOMAIN rs /\ (l = i \/ rs[l].is_updated)
      BY <2>1, <2>6 DEF Queued
    <3>2. CASE l = i
      BY <2>2, <3>2
    <3>3. CASE l # i
      <4>1. l \in DOMAIN readSet[t] /\ readSet[t][l].is_updated
        BY <3>1, <3>3 DEF ExtendsReads
      <4>2. PICK j \in DOMAIN writeSet[t] : writeSet[t][j].read_entry = l
        BY <4>1 DEF SetsLinked
      <4> QED BY <2>1, <4>2 DEF Queued
    <3> QED BY <3>2, <3>3
  <2> QED BY <2>5, <2>6 DEF SetsLinked
<1> QED BY <1>1, <1>2

\* r is what GetVersionList's answer makes of the request that t is serving.
NewRead(t, r) ==
  LET list == InitVersionList(versions[request[t]]) IN
  /\ request[t] \in Key
  /\ GetVersionList(request[t])
  /\ \E n \in 0 .. MaxVersion :
       /\ IsLatest(list, n)
       /\ r = NewReadSetEntry(request[t], PickVisibleVersion(list[n], SecondLatest(list, n)))

\* Appending an element to a sequence, position by position.
LEMMA AppendElements ==
  ASSUME NEW S, NEW s \in Seq(S), NEW e \in S
  PROVE  /\ Append(s, e) \in Seq(S)
         /\ \A i \in DOMAIN s : i \in DOMAIN Append(s, e) /\ Append(s, e)[i] = s[i]
         /\ \A i \in DOMAIN Append(s, e) : i \in DOMAIN s \/ Append(s, e)[i] = e
<1>1. /\ Append(s, e) \in Seq(S) /\ Len(s) \in Nat /\ DOMAIN s = 1 .. Len(s)
      /\ Len(Append(s, e)) = Len(s) + 1
      /\ \A i \in 1 .. Len(s) : Append(s, e)[i] = s[i]
      /\ Append(s, e)[Len(s) + 1] = e
  BY AppendProperties, LenProperties
<1>2. DOMAIN Append(s, e) = 1 .. Len(s) + 1
  BY <1>1, LenProperties
<1> QED BY <1>1, <1>2

\* A read that succeeds puts the version it picks at the end of the read set.
LEMMA ReadOutsideAppends ==
  ASSUME TypeOK, NEW t \in Txn, ReadOutside(t)
  PROVE  \E e \in ReadSetEntry :
           /\ ~ e.is_updated /\ e.need_release /\ e.key = request[t]
           /\ NewRead(t, e)
           /\ ReadOutsideNext(t, Append(readSet[t], e), FALSE)
<1>1. request[t] \in Key /\ GetVersionList(request[t])
  BY DEF ReadOutside, TypeOK
<1> DEFINE list == InitVersionList(versions[request[t]])
           v(n) == PickVisibleVersion(list[n], SecondLatest(list, n))
           e(n) == NewReadSetEntry(request[t], v(n))
<1>2. list \in [0 .. MaxVersion -> VersionEntry]
  BY <1>1, GetVersionListStep DEF TypeOK
<1>3. PICK n \in 0 .. MaxVersion :
        IsLatest(list, n) /\ ReadOutsideNext(t, Append(readSet[t], e(n)), FALSE)
  BY DEF ReadOutside
<1> HIDE DEF list
<1>4. SecondLatest(list, n) \in VersionEntry /\ list[n] \in VersionEntry
  BY <1>2, NewEntries, VersionDbAssumption DEF SecondLatest
<1>5. v(n) \in VersionEntry
  BY <1>4, NewEntries DEF PickVisibleVersion
<1> HIDE DEF v
<1>6. e(n) \in ReadSetEntry
  BY <1>1, <1>5, NewReadSetEntryType
<1>7. ~ e(n).is_updated /\ e(n).need_release /\ e(n).key = request[t]
  BY DEF NewReadSetEntry
<1>8. NewRead(t, e(n))
  BY <1>1, <1>3 DEF NewRead, list, v
<1> HIDE DEF e
<1> QED BY <1>3, <1>6, <1>7, <1>8

\* The read of a version list puts at most one new read at the end of the read set.
LEMMA ReadOutsideEffect ==
  ASSUME TypeOK, NEW t \in Txn, ReadOutside(t) \/ ReadOutsideError(t)
  PROVE  \E rs \in Seq(ReadSetEntry), b \in BOOLEAN :
           /\ ExtendsReads(t, rs)
           /\ ReadOutsideNext(t, rs, b)
           /\ \A i \in DOMAIN rs : i \in DOMAIN readSet[t] \/ NewRead(t, rs[i])
<1>1. CASE ReadOutside(t)
  <2>1. PICK e \in ReadSetEntry :
          ~ e.is_updated /\ NewRead(t, e) /\ ReadOutsideNext(t, Append(readSet[t], e), FALSE)
    BY <1>1, ReadOutsideAppends
  <2> DEFINE rs == Append(readSet[t], e)
  <2>2. /\ rs \in Seq(ReadSetEntry)
        /\ \A i \in DOMAIN readSet[t] : i \in DOMAIN rs /\ rs[i] = readSet[t][i]
        /\ \A i \in DOMAIN rs : i \in DOMAIN readSet[t] \/ rs[i] = e
    BY Entries, AppendElements
  <2>3. ReadOutsideNext(t, rs, FALSE)
    BY <2>1
  <2> HIDE DEF rs
  <2>4. ExtendsReads(t, rs) /\ \A i \in DOMAIN rs : i \in DOMAIN readSet[t] \/ NewRead(t, rs[i])
    BY <2>1, <2>2 DEF ExtendsReads
  <2> QED BY <2>2, <2>3, <2>4
<1>2. CASE ReadOutsideError(t)
  <2>1. ReadOutsideNext(t, readSet[t], TRUE)
    BY <1>2 DEF ReadOutsideError
  <2>2. ExtendsReads(t, readSet[t])
    BY DEF ExtendsReads
  <2> QED BY <2>1, <2>2, Entries
<1> QED BY <1>1, <1>2

\* The requests that read a version list, and Update and Delete, keep the links.
LEMMA QueueingLinks ==
  ASSUME TypeOK, NEW t \in Txn, SetsLinked(t),
         \/ ReadOutside(t) \/ ReadOutsideError(t)
         \/ \E k \in Key : Update(t, k) \/ Delete(t, k)
  PROVE  SetsLinked(t)'
<1>1. CASE ReadOutside(t) \/ ReadOutsideError(t)
  <2>1. PICK rs \in Seq(ReadSetEntry), b \in BOOLEAN :
          ExtendsReads(t, rs) /\ ReadOutsideNext(t, rs, b)
    BY <1>1, ReadOutsideEffect
  <2>2. OnlyRead(t, rs) \/ \E i \in DOMAIN rs, d \in BOOLEAN : InsertWriteSet(t, rs, i, d)
    BY <2>1 DEF ReadOutsideNext, ReadNext, InsertNext, UpsertNext
  <2> QED BY <2>1, <2>2, QueueLinks
<1>2. ASSUME NEW k \in Key, Update(t, k) \/ Delete(t, k) PROVE SetsLinked(t)'
  <2>1. ExtendsReads(t, readSet[t]) /\ readSet[t] \in Seq(ReadSetEntry)
    BY Entries DEF ExtendsReads
  <2>2. CASE UNCHANGED localVars
    BY <2>2 DEF localVars, SetsLinked
  <2>3. CASE \E i \in DOMAIN readSet[t], d \in BOOLEAN : InsertWriteSet(t, readSet[t], i, d)
    BY <2>1, <2>3, QueueLinks
  <2>4. CASE DeleteQueuedWrite(t, k)
    <3>1. PICK i \in DOMAIN writeSet[t] :
            writeSet' = [writeSet EXCEPT ![t][i].is_deleted = TRUE] /\ readSet' = readSet
      BY <2>4 DEF DeleteQueuedWrite
    <3> DEFINE w == [writeSet[t][i] EXCEPT !.is_deleted = TRUE]
    <3>2. w.key = writeSet[t][i].key /\ w.version = writeSet[t][i].version
          /\ w.read_entry = writeSet[t][i].read_entry
      <4>1. writeSet[t][i] \in WriteSetEntry
        BY Entries
      <4> QED BY <4>1 DEF WriteSetEntry
    <3>3. writeSet'[t] = [writeSet[t] EXCEPT ![i] = w]
      BY <3>1 DEF TypeOK
    <3> HIDE DEF w
    <3>4. /\ DOMAIN writeSet'[t] = DOMAIN writeSet[t]
          /\ \A j \in DOMAIN writeSet[t] :
               /\ writeSet'[t][j].key = writeSet[t][j].key
               /\ writeSet'[t][j].version = writeSet[t][j].version
               /\ writeSet'[t][j].read_entry = writeSet[t][j].read_entry
      BY <3>2, <3>3
    <3> QED BY <3>1, <3>4 DEF SetsLinked
  <2>5. TRUE \in BOOLEAN /\ FALSE \in BOOLEAN
    OBVIOUS
  <2> QED BY <1>2, <2>2, <2>3, <2>4, <2>5 DEF Update, Delete, DeleteReadVersion
<1> QED BY <1>1, <1>2

-----------------------------------------------------------------------------
(* The steps of a transaction that serves requests.                        *)

\* A step before Upload, up to its beginning or to the client's Abort.
Serves(t) ==
  /\ operation[t] \in BeforeUpload
  /\ operation'[t] \in BeforeUpload \cup {"Upload", "UpdateTxnStatusToAbort"}
  /\ \/ calls'[t] = calls[t]
     \/ operation'[t] = "Upload" /\ \A call \in calls'[t] : call.op = "UploadVersion"
  /\ txns'[t].status = txns[t].status
  /\ txns'[t].commit_ts = kDefaultCommitTs
  /\ \A j \in DOMAIN writeSet'[t] : ~ writeSet'[t][j].need_post_processing

\* Such a step has little to account for.
LEMMA ServesSelf ==
  ASSUME TypeOK, OwnershipInv, NEW t \in Txn, SelfInv(t), Serves(t), SetsLinked(t)'
  PROVE  SelfInv(t)'
<1>1. /\ txns[t].status = "Ongoing" /\ t \notin Committed
  BY BeforeDecision DEF Serves, BeforeUpload, AfterDecision
<1>2. txns'[t].status = "Ongoing" /\ t \notin Committed'
  BY <1>1 DEF Serves, Committed
<1>3. /\ operation'[t] \notin AfterTimestamp \cup {"SetCommitTs"}
      /\ operation'[t] \notin AfterDecision
  BY DEF Serves, BeforeUpload, AfterTimestamp, AfterDecision
<1>4. Outcome(t)'
  BY <1>2, <1>3 DEF Outcome, AfterDecision
<1>5. CallsMatch(t)'
  <2>1. CallsMatch(t)
    BY DEF SelfInv
  <2>2. \A call \in calls'[t] :
          /\ call.op = "UploadVersion" => operation'[t] = "Upload"
          /\ call.op \notin ValidateCalls \cup CommitCalls
    BY <1>1, <2>1 DEF CallsMatch, Serves, ValidateCalls, CommitCalls, BeforeUpload
  <2> QED BY <2>2 DEF CallsMatch
<1>6. NothingUploaded(t)' /\ TimestampInTable(t)'
  BY <1>2, <1>3 DEF Serves, NothingUploaded, TimestampInTable
<1>7. TimestampAfterReads(t)'
  BY <1>2, <1>3 DEF TimestampAfterReads
<1>8. Releases(t)'
  BY <1>2, <1>3 DEF Releases, AfterTimestamp, AfterDecision
<1> QED BY <1>4, <1>5, <1>6, <1>7, <1>8 DEF SelfInv

\* The requests that leave the read and write sets alone.
LEMMA RequestSelf ==
  ASSUME TypeOK, OwnershipInv, NEW t \in Txn, SelfInv(t),
         \/ Begin(t) \/ InitTxn(t) \/ InitTxnError(t) \/ Abort(t) \/ Commit(t)
         \/ ReadDataStore(t) \/ ReadDataStoreNext(t)
         \/ \E k \in Key, op \in {"Read", "Insert", "Upsert"} : CallReadOutside(t, op, k)
  PROVE  SelfInv(t)'
<1> USE DEF Begin, InitTxn, InitTxnError, Abort, Commit, ReadDataStore, ReadDataStoreNext,
            CallReadOutside
<1>1. /\ operation[t] \in BeforeUpload
      /\ operation'[t] \in BeforeUpload \cup {"Upload", "UpdateTxnStatusToAbort"}
  BY DEF Moves, Requested, TypeOK, BeforeUpload
<1>2. \/ calls'[t] = calls[t]
      \/ operation'[t] = "Upload" /\ \A call \in calls'[t] : call.op = "UploadVersion"
  <2>1. CASE Commit(t)
    <3>1. /\ calls'[t] = {CallFor("UploadVersion", i) : i \in DOMAIN writeSet[t]}
          /\ operation'[t] = "Upload"
      BY <2>1 DEF TypeOK, Moves
    <3> QED BY <3>1 DEF CallFor
  <2>2. CASE ~ Commit(t)
    <3>1. calls' = calls
      BY <2>2
    <3> QED BY <3>1
  <2> QED BY <2>1, <2>2
<1>3. UNCHANGED localVars
  OBVIOUS
<1>4. txns[t].commit_ts = kDefaultCommitTs /\ txns[t].status = "Ongoing"
  BY <1>1, BeforeDecision DEF SelfInv, TimestampInTable, BeforeTimestamp, BeforeUpload, AfterDecision
<1>5. txns'[t].status = txns[t].status /\ txns'[t].commit_ts = kDefaultCommitTs
  <2>1. txns \in [Txn -> TxnEntry]
    BY DEF TypeOK, DbTypeOK
  <2>2. txns' = txns \/ \E local_time \in Times : NewTxn(t, local_time)
    BY DEF Fails, dbVars
  <2> QED BY <1>4, <2>1, <2>2 DEF NewTxn
<1>6. Serves(t)
  BY <1>1, <1>2, <1>3, <1>5 DEF Serves, SelfInv, NothingUploaded, localVars
<1>7. SetsLinked(t)'
  BY <1>3, SetsUnchanged, LinksKept
<1> QED BY <1>6, <1>7, ServesSelf

\* The requests that put entries into them.
LEMMA QueueingSelf ==
  ASSUME TypeOK, OwnershipInv, NEW t \in Txn, SelfInv(t),
         \/ ReadOutside(t) \/ ReadOutsideError(t)
         \/ \E k \in Key : Update(t, k) \/ Delete(t, k)
  PROVE  SelfInv(t)' /\ QueuesAtMost(t)
<1>1. SetsLinked(t)'
  BY QueueingLinks DEF SelfInv
<1>2. /\ operation[t] \in {"Idle", "Read", "Insert", "Upsert"} /\ operation'[t] = "Idle"
      /\ calls' = calls /\ txns' = txns
  <2>1. CASE ReadOutside(t) \/ ReadOutsideError(t)
    BY <2>1 DEF ReadOutside, ReadOutsideError, ReadOutsideNext, ReadNext, InsertNext, UpsertNext,
                TypeOK, GetVersionList, Fails, dbVars
  <2>2. CASE \E k \in Key : Update(t, k) \/ Delete(t, k)
    BY <2>2 DEF Update, Delete, Requested, dbVars
  <2> QED BY <2>1, <2>2
<1>3. QueuesAtMost(t)
  <2>1. ASSUME writeSet' = writeSet PROVE QueuesAtMost(t)
    BY <2>1 DEF QueuesAtMost
  <2>2. CASE ReadOutside(t) \/ ReadOutsideError(t)
    <3>1. writeSet' = writeSet \/ \E rs, i : InsertWriteSet(t, rs, i, FALSE)
      BY <2>2 DEF ReadOutside, ReadOutsideError, ReadOutsideNext, ReadNext, InsertNext,
                  UpsertNext, OnlyRead
    <3> QED BY <2>1, <3>1, InsertWriteSetQueues
  <2>3. ASSUME NEW k \in Key, Update(t, k) \/ Delete(t, k) PROVE QueuesAtMost(t)
    <3>1. CASE DeleteQueuedWrite(t, k)
      BY <3>1, DeleteQueuedQueues
    <3> QED BY <2>1, <2>3, <3>1, InsertWriteSetQueues
            DEF Update, Delete, DeleteReadVersion, localVars
  <2> QED BY <2>2, <2>3
<1>4. txns[t].commit_ts = kDefaultCommitTs
  BY <1>2 DEF SelfInv, TimestampInTable, BeforeTimestamp, BeforeUpload
<1>5. \A j \in DOMAIN writeSet'[t] : ~ writeSet'[t][j].need_post_processing
  BY <1>2, <1>3 DEF SelfInv, NothingUploaded, QueuesAtMost, BeforeUpload
<1>6. Serves(t)
  BY <1>2, <1>4, <1>5 DEF Serves, BeforeUpload
<1> QED BY <1>1, <1>3, <1>6, ServesSelf

-----------------------------------------------------------------------------
(* The steps of a transaction that commits, up to the decision.            *)

\* An answer in Upload or Validate.
LEMMA AnswerSelf ==
  ASSUME TypeOK, OwnershipInv, NEW t \in Txn, SelfInv(t), SetsKept(t),
         operation[t] \in {"Upload", "Validate"}, operation'[t] = operation[t],
         \A call \in calls'[t] :
           call \in calls[t] \/ (call.op \in ValidateCalls /\ operation[t] = "Validate"),
         txns'[t].status = txns[t].status, txns'[t].commit_ts = txns[t].commit_ts,
         commit_timestamp'[t] = commit_timestamp[t],
         operation[t] = "Validate" =>
           \A i \in DOMAIN readSet[t] :
             \/ readSet[t][i].is_updated \/ ~ readSet'[t][i].need_release
             \/ status'[t] = "WaitForAborting"
             \/ CallFor("UpdateReadEntryMaxCommitTs", i) \in calls'[t]
  PROVE  SelfInv(t)'
<1>1. /\ txns[t].status = "Ongoing" /\ t \notin Committed
  BY BeforeDecision DEF AfterDecision
<1>2. txns'[t].status = "Ongoing" /\ t \notin Committed'
  BY <1>1 DEF Committed
<1>3. Outcome(t)'
  BY <1>2 DEF Outcome
<1>4. CallsMatch(t)'
  <2>1. CallsMatch(t)
    BY DEF SelfInv
  <2>2. \A call \in calls'[t] :
          /\ call.op = "UploadVersion" => operation'[t] = "Upload"
          /\ call.op \in ValidateCalls => operation'[t] = "Validate"
          /\ call.op \notin CommitCalls
    BY <1>1, <2>1 DEF CallsMatch, ValidateCalls, CommitCalls
  <2> QED BY <2>2 DEF CallsMatch
<1>5. SetsLinked(t)' /\ NothingUploaded(t)'
  BY LinksKept DEF NothingUploaded, BeforeUpload
<1>6. TimestampAfterReads(t)'
  <2>1. CASE operation[t] = "Validate"
    BY <2>1, LinksKept DEF AfterTimestamp
  <2>2. CASE operation[t] = "Upload"
    BY <1>2, <2>2 DEF TimestampAfterReads, AfterTimestamp
  <2> QED BY <2>1, <2>2
<1>7. TimestampInTable(t)'
  BY <1>1, <1>2 DEF SelfInv, TimestampInTable
<1>8. Releases(t)'
  BY <1>2 DEF Releases, SetsKept
<1> QED BY <1>3, <1>4, <1>5, <1>6, <1>7, <1>8 DEF SelfInv

\* The uploads, done or refused.
LEMMA UploadEntrySelf ==
  ASSUME TypeOK, OwnershipInv, NEW t \in Txn, SelfInv(t), NEW i \in DOMAIN writeSet[t],
         UploadVersionEntry(t, i) \/ UploadVersionEntryError(t, i)
  PROVE  SelfInv(t)'
<1>1. /\ operation' = operation /\ calls'[t] \subseteq calls[t]
      /\ CallFor("UploadVersion", i) \in calls[t]
      /\ txns' = txns /\ commit_timestamp' = commit_timestamp
  BY DEF UploadVersionEntry, UploadVersionEntryError, Answered, UploadVersion, dbVars, tsVars, TypeOK
<1>2. operation[t] = "Upload"
  BY <1>1 DEF SelfInv, CallsMatch, CallFor
<1>3. SetsKept(t)
  BY UploadKeepsSets, SetsUnchanged DEF UploadVersionEntryError
<1> QED BY <1>1, <1>2, <1>3, AnswerSelf

\* The rereads, answered or failed.
LEMMA RereadSelf ==
  ASSUME TypeOK, OwnershipInv, NEW t \in Txn, SelfInv(t), NEW i \in DOMAIN readSet[t],
         UpdateReadEntryMaxCommitTs(t, i) \/ UpdateReadEntryMaxCommitTsError(t, i)
  PROVE  SelfInv(t)'
<1> DEFINE call == CallFor("UpdateReadEntryMaxCommitTs", i)
<1>1. /\ operation' = operation /\ call \in calls[t]
      /\ txns' = txns /\ commit_timestamp' = commit_timestamp
  BY DEF UpdateReadEntryMaxCommitTs, UpdateReadEntryMaxCommitTsError, Fails,
         UpdateMaxCommitTsAndReread, dbVars, tsVars
<1>2. operation[t] = "Validate"
  BY <1>1 DEF SelfInv, CallsMatch, CallFor, ValidateCalls
<1>3. /\ calls[t] \ {call} \subseteq calls'[t]
      /\ \A c \in calls'[t] : c \in calls[t] \/ c.op = "PushConflict"
      /\ status'[t] \in {status[t], "WaitForAborting"}
  <2>1. CASE UpdateReadEntryMaxCommitTs(t, i)
    <3>1. \/ calls' = [calls EXCEPT ![t] = calls[t] \ {call}]
          \/ \E u : calls' = [calls EXCEPT ![t] = (calls[t] \ {call}) \cup {PushCall(i, u)}]
      BY <2>1 DEF UpdateReadEntryMaxCommitTs, Answered
    <3>2. status' = status \/ status' = [status EXCEPT ![t] = "WaitForAborting"]
      BY <2>1 DEF UpdateReadEntryMaxCommitTs, PrepareAbort
    <3> HIDE DEF call
    <3>3. calls \in [Txn -> SUBSET Call] /\ status \in [Txn -> TxnStatus \cup {"WaitForAborting"}]
      BY DEF TypeOK
    <3>4. \A u : PushCall(i, u).op = "PushConflict"
      BY DEF PushCall
    <3>5. calls[t] \ {call} \subseteq calls'[t] /\ \A c \in calls'[t] : c \in calls[t] \/ c.op = "PushConflict"
      BY <3>1, <3>3, <3>4
    <3> QED BY <3>2, <3>3, <3>5
  <2>2. CASE UpdateReadEntryMaxCommitTsError(t, i)
    BY <2>2 DEF UpdateReadEntryMaxCommitTsError, Answered, PrepareAbort, TypeOK
  <2> QED BY <2>1, <2>2
<1>4. SetsKept(t)
  BY FALSE \in BOOLEAN, ReleaseKeepsSets, SetsUnchanged
     DEF UpdateReadEntryMaxCommitTs, UpdateReadEntryMaxCommitTsError, Released
<1>5. status'[t] = "WaitForAborting" \/ ~ readSet'[t][i].need_release
  <2>1. CASE UpdateReadEntryMaxCommitTsError(t, i)
    BY <2>1 DEF UpdateReadEntryMaxCommitTsError, PrepareAbort, TypeOK
  <2>2. CASE UpdateReadEntryMaxCommitTs(t, i)
    <3>1. readSet'[t] = [readSet[t] EXCEPT ![i] = [readSet[t][i] EXCEPT !.need_release = FALSE]]
      BY <2>2 DEF UpdateReadEntryMaxCommitTs, Released, TypeOK
    <3>2. readSet[t][i] \in ReadSetEntry
      BY Entries
    <3>3. [readSet[t][i] EXCEPT !.need_release = FALSE].need_release = FALSE
      BY <3>2 DEF ReadSetEntry
    <3> QED BY <3>1, <3>3
  <2> QED BY <2>1, <2>2
<1>6. \A l \in DOMAIN readSet[t] :
        \/ readSet[t][l].is_updated \/ ~ readSet'[t][l].need_release
        \/ status'[t] = "WaitForAborting"
        \/ CallFor("UpdateReadEntryMaxCommitTs", l) \in calls'[t]
  <2> SUFFICES ASSUME NEW l \in DOMAIN readSet[t], ~ readSet[t][l].is_updated,
                      readSet'[t][l].need_release, status'[t] # "WaitForAborting"
               PROVE  CallFor("UpdateReadEntryMaxCommitTs", l) \in calls'[t]
    OBVIOUS
  <2>1. l # i /\ readSet[t][l].need_release /\ status[t] # "WaitForAborting"
    BY <1>3, <1>4, <1>5 DEF SetsKept
  <2>2. CallFor("UpdateReadEntryMaxCommitTs", l) \in calls[t]
    BY <1>2, <2>1 DEF SelfInv, Releases
  <2>3. CallFor("UpdateReadEntryMaxCommitTs", l) # call
    BY <2>1 DEF CallFor
  <2> QED BY <1>3, <2>2, <2>3
<1>7. \A c \in calls'[t] : c \in calls[t] \/ (c.op \in ValidateCalls /\ operation[t] = "Validate")
  BY <1>2, <1>3 DEF ValidateCalls
<1> HIDE DEF call
<1> QED BY <1>1, <1>2, <1>4, <1>6, <1>7, AnswerSelf

\* The pushes, answered or failed.
LEMMA PushSelf ==
  ASSUME TypeOK, OwnershipInv, NEW t \in Txn, SelfInv(t), NEW i, NEW u \in Txn,
         \/ PushConflictTxnCommitTsLowerBound(t, i, u)
         \/ PushConflictTxnCommitTsLowerBoundError(t, i, u)
  PROVE  SelfInv(t)'
<1> USE DEF PushConflictTxnCommitTsLowerBound, PushConflictTxnCommitTsLowerBoundError
<1>1. /\ operation' = operation /\ PushCall(i, u) \in calls[t] /\ UNCHANGED localVars
      /\ commit_timestamp' = commit_timestamp
  BY DEF tsVars
<1>2. operation[t] = "Validate"
  BY <1>1 DEF SelfInv, CallsMatch, PushCall, ValidateCalls
<1>3. calls'[t] = calls[t] \ {PushCall(i, u)} /\ status'[t] \in {status[t], "WaitForAborting"}
  BY DEF Answered, PrepareAbort, TypeOK
<1>4. txns'[t].status = txns[t].status /\ txns'[t].commit_ts = txns[t].commit_ts
  <2>1. txns \in [Txn -> TxnEntry]
    BY DEF TypeOK, DbTypeOK
  <2>2. txns' = txns \/ \E ts : UpdateCommitLowerBound(u, ts)
    BY DEF Fails, dbVars
  <2> QED BY <2>1, <2>2 DEF UpdateCommitLowerBound, TxnEntry
<1>5. \A l \in DOMAIN readSet[t] :
        \/ readSet[t][l].is_updated \/ ~ readSet'[t][l].need_release
        \/ status'[t] = "WaitForAborting"
        \/ CallFor("UpdateReadEntryMaxCommitTs", l) \in calls'[t]
  <2>1. \A l : CallFor("UpdateReadEntryMaxCommitTs", l) # PushCall(i, u)
    BY DEF CallFor, PushCall
  <2> QED BY <1>1, <1>2, <1>3, <2>1 DEF SelfInv, Releases, localVars
<1>6. SetsKept(t)
  BY <1>1, SetsUnchanged
<1> QED BY <1>1, <1>2, <1>3, <1>4, <1>5, <1>6, AnswerSelf

\* Every abort before the decision.
LEMMA AbortSelf ==
  ASSUME TypeOK, OwnershipInv, NEW t \in Txn, SelfInv(t), NEW from, from \notin AfterDecision,
         AbortFrom(t, from), UNCHANGED dbVars
  PROVE  SelfInv(t)'
<1>1. /\ operation[t] \notin AfterDecision /\ operation'[t] = "UpdateTxnStatusToAbort"
      /\ calls'[t] = {} /\ UNCHANGED localVars /\ txns' = txns
  BY DEF AbortFrom, Moves, TypeOK, dbVars
<1>2. txns'[t].status = "Ongoing" /\ t \notin Committed'
  BY <1>1, BeforeDecision DEF Committed
<1>3. SetsLinked(t)'
  BY <1>1, SetsUnchanged, LinksKept
<1>4. Outcome(t)' /\ CallsMatch(t)' /\ NothingUploaded(t)'
  BY <1>1, <1>2 DEF Outcome, CallsMatch, NothingUploaded, BeforeUpload
<1>5. TimestampAfterReads(t)' /\ TimestampInTable(t)' /\ Releases(t)'
  BY <1>1, <1>2 DEF TimestampAfterReads, TimestampInTable, Releases, AfterTimestamp,
                    BeforeTimestamp, BeforeUpload
<1> QED BY <1>3, <1>4, <1>5 DEF SelfInv

\* The proposal of UploadNext is later than every version that is superseded.
LEMMA ProposalAfterReads ==
  ASSUME TypeOK, NEW t \in Txn, SetsLinked(t), NEW ts \in Int, NEW local_time,
         \A other \in CommitTsCandidates(t, local_time) : other <= ts
  PROVE  /\ \A i \in DOMAIN readSet[t] : readSet[t][i].begin_ts <= ts
         /\ \A j \in DOMAIN writeSet[t] : readSet[t][writeSet[t][j].read_entry].begin_ts < ts
<1>1. ASSUME NEW i \in DOMAIN readSet[t]
      PROVE  /\ readSet[t][i].begin_ts \in Int
             /\ InSet(writeSet[t], readSet[t][i].key) => readSet[t][i].begin_ts + 1 <= ts
             /\ ~ InSet(writeSet[t], readSet[t][i].key) => readSet[t][i].begin_ts + 0 <= ts
  <2>1. readSet[t][i] \in ReadSetEntry
    BY Entries
  <2>2. readSet[t][i].begin_ts + (IF InSet(writeSet[t], readSet[t][i].key) THEN 1 ELSE 0)
          \in CommitTsCandidates(t, local_time)
    BY DEF CommitTsCandidates
  <2> QED BY <2>1, <2>2 DEF ReadSetEntry
<1>2. \A i \in DOMAIN readSet[t] : readSet[t][i].begin_ts <= ts
  BY <1>1
<1>3. ASSUME NEW j \in DOMAIN writeSet[t]
      PROVE  readSet[t][writeSet[t][j].read_entry].begin_ts < ts
  <2>1. PICK i \in DOMAIN readSet[t] :
          i = writeSet[t][j].read_entry /\ readSet[t][i].key = writeSet[t][j].key
    BY DEF SetsLinked
  <2>2. InSet(writeSet[t], readSet[t][i].key)
    BY <2>1 DEF InSet
  <2> QED BY <1>1, <2>1, <2>2
<1> QED BY <1>2, <1>3

\* The steps from Upload to the decision that do not concern one entry.
LEMMA CommitPathSelf ==
  ASSUME TypeOK, OwnershipInv, NEW t \in Txn, SelfInv(t),
         UploadNext(t) \/ SetCommitTs(t) \/ ValidateNext(t) \/ WriteToLog(t)
  PROVE  SelfInv(t)'
<1>1. CASE \E from \in {"Upload", "Validate"} : AbortFrom(t, from)
  <2>1. UNCHANGED dbVars
    BY <1>1 DEF UploadNext, SetCommitTs, ValidateNext, WriteToLog, AbortFrom, Moves, TypeOK
  <2> QED BY <1>1, <2>1, AbortSelf DEF AfterDecision
<1>2. CASE ~ \E from \in {"Upload", "Validate"} : AbortFrom(t, from)
  <2>1. /\ operation[t] \in {"Upload", "SetCommitTs", "Validate", "WriteToLog"}
        /\ operation'[t] = CASE operation[t] = "Upload" -> "SetCommitTs"
                             [] operation[t] = "SetCommitTs" -> "Validate"
                             [] operation[t] = "Validate" -> "WriteToLog"
                             [] operation[t] = "WriteToLog" -> "UpdateTxnStatusToCommit"
        /\ UNCHANGED <<status, request, result, localVars>>
        /\ operation[t] = "Upload" => UploadNext(t)
        /\ operation[t] = "SetCommitTs" => SetCommitTs(t)
        /\ operation[t] = "Validate" => ValidateNext(t)
        /\ operation[t] = "WriteToLog" => WriteToLog(t)
    BY <1>2 DEF UploadNext, SetCommitTs, ValidateNext, WriteToLog, Moves, TypeOK
  <2>2. txns[t].status = "Ongoing" /\ t \notin Committed
    BY <2>1, BeforeDecision DEF AfterDecision
  <2>3. /\ txns'[t].status = txns[t].status
        /\ operation[t] # "SetCommitTs" => txns' = txns /\ calls' = calls
    <3>1. txns \in [Txn -> TxnEntry]
      BY DEF TypeOK, DbTypeOK
    <3>2. txns' = txns \/ \E ts : SetCommitTimestamp(t, ts)
      BY <1>2 DEF UploadNext, SetCommitTs, ValidateNext, WriteToLog, dbVars
    <3>3. operation[t] # "SetCommitTs" => txns' = txns /\ calls' = calls
      BY <1>2 DEF UploadNext, SetCommitTs, ValidateNext, WriteToLog, Moves, dbVars
    <3> QED BY <3>1, <3>2, <3>3 DEF SetCommitTimestamp, TxnEntry
  <2>4. t \notin Committed' /\ txns'[t].status = "Ongoing"
    BY <2>2, <2>3 DEF Committed
  <2>5. SetsLinked(t)'
    BY <2>1, SetsUnchanged, LinksKept
  <2>6. Outcome(t)' /\ NothingUploaded(t)'
    BY <2>1, <2>4 DEF Outcome, NothingUploaded, BeforeUpload
  <2>7. CASE operation[t] = "SetCommitTs"
    <3>1. /\ operation'[t] = "Validate" /\ calls'[t] = RereadCalls(t)
          /\ commit_timestamp'[t] = SetCommitTimestampResult(t, commit_timestamp[t])
          /\ txns'[t].commit_ts = commit_timestamp'[t]
      <4>1. txns[t] \in TxnEntry /\ txns \in [Txn -> TxnEntry]
        BY DEF TypeOK, DbTypeOK
      <4> QED BY <2>1, <2>7, <4>1 DEF SetCommitTs, SetCommitTimestamp, Moves, TypeOK, TxnEntry
    <3>2. /\ commit_timestamp[t] \in Int /\ commit_timestamp'[t] \in Int
          /\ commit_timestamp[t] <= commit_timestamp'[t]
      <4>1. txns[t] \in TxnEntry /\ commit_timestamp[t] \in Int
        BY DEF TypeOK, DbTypeOK
      <4>2. txns[t].commit_lower_bound \in Int
        BY <4>1 DEF TxnEntry
      <4> QED BY <3>1, <4>1, <4>2 DEF SetCommitTimestampResult
    <3>3. CallsMatch(t)'
      BY <3>1 DEF CallsMatch, RereadCalls, CallFor, ValidateCalls, CommitCalls
    <3>4. TimestampAfterReads(t)'
      <4>1. /\ \A i \in DOMAIN readSet[t] : readSet[t][i].begin_ts <= commit_timestamp[t]
            /\ \A j \in DOMAIN writeSet[t] :
                 readSet[t][writeSet[t][j].read_entry].begin_ts < commit_timestamp[t]
        BY <2>7 DEF SelfInv, TimestampAfterReads
      <4>2. /\ \A i \in DOMAIN readSet[t] : readSet[t][i].begin_ts \in Int
            /\ \A j \in DOMAIN writeSet[t] : readSet[t][writeSet[t][j].read_entry].begin_ts \in Int
        <5>1. \A i \in DOMAIN readSet[t] : readSet[t][i].begin_ts \in Int
          BY Entries DEF ReadSetEntry
        <5> QED BY <5>1 DEF SelfInv, SetsLinked
      <4> QED BY <2>1, <3>2, <4>1, <4>2 DEF TimestampAfterReads, localVars
    <3>5. TimestampInTable(t)'
      BY <3>1 DEF TimestampInTable, BeforeTimestamp, BeforeUpload
    <3>6. Releases(t)'
      BY <2>1, <2>4, <3>1 DEF Releases, RereadCalls, localVars
    <3> QED BY <2>5, <2>6, <3>3, <3>4, <3>5, <3>6 DEF SelfInv
  <2>8. CASE operation[t] # "SetCommitTs"
    <3>1. CallsMatch(t)'
      <4>1. operation[t] \in {"Upload", "Validate"} => calls[t] = {}
        BY <2>1 DEF UploadNext, ValidateNext
      <4>2. \A call \in calls[t] : call.op # "UploadVersion" /\ call.op \notin ValidateCalls \cup CommitCalls
        BY <2>1, <2>2, <2>8, <4>1 DEF SelfInv, CallsMatch
      <4> QED BY <2>3, <2>8, <4>2 DEF CallsMatch
    <3>2. CASE operation[t] = "Upload"
      <4>1. PICK local_time \in Times :
              \E ts \in CommitTsCandidates(t, local_time) :
                /\ \A other \in CommitTsCandidates(t, local_time) : other <= ts
                /\ commit_timestamp' = [commit_timestamp EXCEPT ![t] = ts]
        BY <1>2, <2>1, <3>2 DEF UploadNext
      <4> PICK ts \in CommitTsCandidates(t, local_time) :
            /\ \A other \in CommitTsCandidates(t, local_time) : other <= ts
            /\ commit_timestamp' = [commit_timestamp EXCEPT ![t] = ts]
        BY <4>1
      <4>2. ts \in Int
        <5>1. \A i \in DOMAIN readSet[t] : readSet[t][i].begin_ts \in Int
          BY Entries DEF ReadSetEntry
        <5>2. max_commit_timestamp_of_writers[t] \in Int /\ local_time \in Int
          BY TransactionExecutionAssumption DEF TypeOK
        <5> QED BY <5>1, <5>2 DEF CommitTsCandidates
      <4>3. commit_timestamp'[t] = ts
        BY DEF TypeOK
      <4>4. TimestampAfterReads(t)'
        BY <2>1, <4>2, <4>3, ProposalAfterReads DEF SelfInv, TimestampAfterReads, localVars
      <4>5. TimestampInTable(t)'
        BY <2>1, <2>3, <2>4, <3>2 DEF SelfInv, TimestampInTable, BeforeTimestamp, AfterTimestamp
      <4>6. Releases(t)'
        BY <2>1, <2>4, <3>2 DEF Releases
      <4> QED BY <2>5, <2>6, <3>1, <4>4, <4>5, <4>6 DEF SelfInv
    <3>3. CASE operation[t] \in {"Validate", "WriteToLog"}
      <4>1. commit_timestamp' = commit_timestamp
        BY <2>1, <3>3 DEF ValidateNext, WriteToLog, AbortFrom, tsVars
      <4>2. TimestampAfterReads(t)'
        BY <2>1, <3>3, <4>1, SetsUnchanged, LinksKept DEF AfterTimestamp
      <4>3. TimestampInTable(t)'
        BY <2>1, <2>3, <3>3, <4>1
           DEF SelfInv, TimestampInTable, BeforeTimestamp, BeforeUpload, AfterTimestamp
      <4>4. operation[t] = "Validate" => calls[t] = {} /\ status[t] # "WaitForAborting"
        BY <1>2, <2>1 DEF ValidateNext
      <4>5. Releases(t)'
        BY <2>1, <2>4, <3>3, <4>4 DEF SelfInv, Releases, localVars
      <4> QED BY <2>5, <2>6, <3>1, <4>2, <4>3, <4>5 DEF SelfInv
    <3> QED BY <2>1, <2>8, <3>2, <3>3
  <2> QED BY <2>7, <2>8
<1> QED BY <1>1, <1>2

-----------------------------------------------------------------------------
(* The decision, the post-processing and the end.                          *)

\* UpdateTxnStatusToCommit: every write is in the store and will be committed.
LEMMA DecideCommitSelf ==
  ASSUME TypeOK, OwnershipInv, NEW t \in Txn, SelfInv(t), UpdateTxnStatusToCommit(t)
  PROVE  SelfInv(t)'
<1>1. /\ operation[t] = "UpdateTxnStatusToCommit"
      /\ operation'[t] = "PostProcessingAfterCommit"
      /\ calls'[t] = {CallFor("CommitNew", i) : i \in PostProcessIndex(t)}
                       \cup {CallFor("ClosePrev", i) : i \in PostProcessIndex(t)}
      /\ UNCHANGED localVars /\ commit_timestamp' = commit_timestamp
  BY DEF UpdateTxnStatusToCommit, Moves, TypeOK, tsVars
<1>2. /\ txns'[t].status = "Committed" /\ txns'[t].commit_ts = txns[t].commit_ts
      /\ result'[t].status = "Committed" /\ result'[t].is_finished
  <2>1. txns \in [Txn -> TxnEntry] /\ result \in [Txn -> Result]
    BY DEF TypeOK, DbTypeOK
  <2> QED BY <2>1 DEF UpdateTxnStatusToCommit, UpdateTxnStatus, SetStatus, TxnEntry, Result
<1>3. PostProcessIndex(t) = DOMAIN writeSet[t]
  BY <1>1 DEF OwnershipInv, AllUploaded, PostProcessIndex
<1>4. SetsLinked(t)'
  BY <1>1, SetsUnchanged, LinksKept
<1>5. Outcome(t)' /\ NothingUploaded(t)'
  BY <1>1, <1>2 DEF Outcome, NothingUploaded, BeforeUpload
<1>6. CallsMatch(t)'
  BY <1>1, <1>2 DEF CallsMatch, CallFor, ValidateCalls, Committed, PostProcessIndex, localVars
<1>7. TimestampAfterReads(t)'
  BY <1>1, SetsUnchanged, LinksKept DEF AfterTimestamp
<1>8. TimestampInTable(t)'
  BY <1>1, <1>2 DEF SelfInv, TimestampInTable, AfterTimestamp, BeforeTimestamp, BeforeUpload
<1>9. Releases(t)'
  BY <1>1, <1>3 DEF SelfInv, Releases, localVars
<1> QED BY <1>4, <1>5, <1>6, <1>7, <1>8, <1>9 DEF SelfInv

\* UpdateTxnStatusToAbort.
LEMMA DecideAbortSelf ==
  ASSUME TypeOK, OwnershipInv, NEW t \in Txn, SelfInv(t), UpdateTxnStatusToAbort(t)
  PROVE  SelfInv(t)'
<1>1. /\ operation'[t] = "PostProcessingAfterAbort"
      /\ calls'[t] = {CallFor("DeleteVersion", i) : i \in PostProcessIndex(t)}
      /\ UNCHANGED localVars
  BY DEF UpdateTxnStatusToAbort, Moves, TypeOK
<1>2. /\ txns'[t].status = "Aborted"
      /\ result'[t].status = "Aborted" /\ result'[t].is_finished
  <2>1. txns \in [Txn -> TxnEntry] /\ result \in [Txn -> Result]
    BY DEF TypeOK, DbTypeOK
  <2> QED BY <2>1 DEF UpdateTxnStatusToAbort, UpdateTxnStatus, SetStatus, TxnEntry, Result
<1>3. t \notin Committed'
  BY <1>2 DEF Committed
<1>4. SetsLinked(t)'
  BY <1>1, SetsUnchanged, LinksKept
<1>5. Outcome(t)' /\ NothingUploaded(t)'
  BY <1>1, <1>2 DEF Outcome, NothingUploaded, BeforeUpload
<1>6. CallsMatch(t)'
  BY <1>1 DEF CallsMatch, CallFor, ValidateCalls, CommitCalls
<1>7. TimestampAfterReads(t)' /\ TimestampInTable(t)' /\ Releases(t)'
  BY <1>1, <1>3 DEF TimestampAfterReads, TimestampInTable, Releases, AfterTimestamp,
                    BeforeTimestamp, BeforeUpload
<1> QED BY <1>4, <1>5, <1>6, <1>7 DEF SelfInv

\* A transaction that has been decided, with the calls it has still in flight.
LEMMA DecidedWithCalls ==
  ASSUME TypeOK, OwnershipInv, NEW t \in Txn, SelfInv(t), NEW call \in calls[t]
  PROVE  /\ call.op \in CommitCalls => operation[t] \in {"PostProcessingAfterCommit", "Recover"}
         /\ call.op = "DeleteVersion" => operation[t] \in {"PostProcessingAfterAbort", "Recover"}
<1>1. operation[t] \notin AfterDecision =>
        t \notin Committed /\ call.op # "DeleteVersion"
  BY BeforeDecision
<1>2. t \in Committed => operation[t] \in {"PostProcessingAfterCommit", "Recover"}
  BY <1>1 DEF SelfInv, Outcome, AfterDecision, Committed
<1>3. call.op = "DeleteVersion" => operation[t] \in {"PostProcessingAfterAbort", "Recover"}
  BY DEF OwnershipInv, DeletesUploaded
<1> QED BY <1>2, <1>3 DEF SelfInv, CallsMatch

\* A step after the decision that only takes answers, and may give up.
LEMMA ShrinkSelf ==
  ASSUME TypeOK, OwnershipInv, NEW t \in Txn, SelfInv(t),
         operation[t] \in {"UpdateTxnStatusToCommit", "UpdateTxnStatusToAbort",
                           "PostProcessingAfterAbort", "ReleaseReadCounter", "Recover"},
         \/ operation'[t] = "Recover"
         \/ operation[t] = "PostProcessingAfterAbort" /\ operation'[t] = operation[t],
         calls'[t] \subseteq calls[t], txns' = txns,
         UNCHANGED <<status, result, localVars, tsVars>>
  PROVE  SelfInv(t)'
<1>1. t \in Committed' <=> t \in Committed
  BY DEF Committed
<1>2. SetsLinked(t)'
  BY SetsUnchanged, LinksKept
<1>3. Outcome(t)' /\ NothingUploaded(t)'
  BY DEF SelfInv, Outcome, NothingUploaded, BeforeUpload
<1>4. CallsMatch(t)'
  <2>1. \A call \in calls[t] : call.op # "UploadVersion" /\ call.op \notin ValidateCalls
    BY DEF SelfInv, CallsMatch
  <2> QED BY <1>1, <2>1 DEF SelfInv, CallsMatch, PostProcessIndex, localVars
<1>5. TimestampAfterReads(t)'
  BY <1>1, SetsUnchanged, LinksKept DEF TimestampAfterReads, AfterTimestamp, tsVars
<1>6. TimestampInTable(t)'
  BY <1>1 DEF SelfInv, TimestampInTable, BeforeTimestamp, BeforeUpload, AfterTimestamp, tsVars
<1>7. Releases(t)'
  BY <1>1 DEF SelfInv, Outcome, Releases, localVars, Committed
<1> QED BY <1>2, <1>3, <1>4, <1>5, <1>6, <1>7 DEF SelfInv

\* The deletions of an abort, and every way of giving up.
LEMMA GiveUpSelf ==
  ASSUME TypeOK, OwnershipInv, NEW t \in Txn, SelfInv(t), NEW i,
         \/ UpdateTxnStatusToCommitError(t) \/ UpdateTxnStatusToAbortError(t)
         \/ PostProcessingDeleteEntryAfterAbort(t, i)
         \/ PostProcessingDeleteEntryAfterAbortError(t, i)
         \/ ReleaseReadCounterForEachEntryError(t, i)
  PROVE  SelfInv(t)'
<1> USE DEF UpdateTxnStatusToCommitError, UpdateTxnStatusToAbortError,
            PostProcessingDeleteEntryAfterAbort, PostProcessingDeleteEntryAfterAbortError,
            ReleaseReadCounterForEachEntryError
<1>1. calls'[t] \subseteq calls[t] /\ txns' = txns
  BY DEF Answered, TypeOK, DeleteVersion, Fails, dbVars
<1>2. UNCHANGED <<status, result, localVars, tsVars>>
  BY DEF Recover
<1>3. CASE PostProcessingDeleteEntryAfterAbort(t, i)
  <2>1. operation[t] \in {"PostProcessingAfterAbort", "Recover"}
    BY <1>3, DecidedWithCalls DEF CallFor
  <2> QED BY <1>1, <1>2, <1>3, <2>1, ShrinkSelf
<1>4. CASE ~ PostProcessingDeleteEntryAfterAbort(t, i)
  <2>1. /\ operation[t] \in {"UpdateTxnStatusToCommit", "UpdateTxnStatusToAbort",
                             "PostProcessingAfterAbort", "ReleaseReadCounter"}
        /\ operation'[t] = "Recover"
    BY <1>4 DEF Recover, Moves, TypeOK
  <2> QED BY <1>1, <1>2, <2>1, ShrinkSelf
<1> QED BY <1>3, <1>4

\* What the answer to one half of CommitVersion leaves of the calls and the reads: with
\* the second half, unless one of the two has failed, the read is released.
LEMMA CommitEntryEffect ==
  ASSUME TypeOK, NEW t \in Txn, SetsLinked(t), NEW i \in DOMAIN writeSet[t],
         NEW half \in CommitHalf, NEW is_error \in BOOLEAN,
         CommitEntryAnswered(t, i, half, is_error)
  PROVE  /\ operation'[t] \in {operation[t], "Recover"}
         /\ \A call \in calls'[t] : call \in calls[t] \/ call = CallFor(Failed(half), i)
         /\ calls[t] \ {CallFor(half, i)} \subseteq calls'[t]
         /\ \/ CallFor("CommitNew", i) \in calls'[t] \/ CallFor("ClosePrev", i) \in calls'[t]
            \/ operation'[t] = "Recover"
            \/ ~ readSet'[t][writeSet[t][i].read_entry].need_release
<1> DEFINE rest == (calls[t] \ {CallFor(half, i)})
                     \cup (IF is_error THEN {CallFor(Failed(half), i)} ELSE {})
           both_answered == CallFor(OtherHalf(half), i) \notin rest
           error == \E h \in CommitHalf : CallFor(Failed(h), i) \in rest
           l == writeSet[t][i].read_entry
<1>1. /\ calls'[t] = rest
      /\ operation'[t] = IF both_answered /\ error THEN "Recover" ELSE operation[t]
  BY DEF CommitEntryAnswered, TypeOK
<1>2. readSet' = [readSet EXCEPT ![t][l].need_release = @ /\ ~ (both_answered /\ ~ error)]
  BY DEF CommitEntryAnswered
<1>3. l \in DOMAIN readSet[t]
  BY DEF SetsLinked
<1>4. readSet[t][l] \in ReadSetEntry
  BY <1>3, Entries
<1>5. OtherHalf(half) \in {"CommitNew", "ClosePrev"}
  BY DEF OtherHalf, CommitHalf
<1> HIDE DEF both_answered, error, l
<1>6. both_answered /\ ~ error => ~ readSet'[t][l].need_release
  BY <1>2, <1>3, <1>4 DEF TypeOK, ReadSetEntry
<1>7. ~ both_answered => CallFor("CommitNew", i) \in calls'[t] \/ CallFor("ClosePrev", i) \in calls'[t]
  BY <1>1, <1>5 DEF both_answered
<1>8. /\ \A call \in calls'[t] : call \in calls[t] \/ call = CallFor(Failed(half), i)
      /\ calls[t] \ {CallFor(half, i)} \subseteq calls'[t]
  BY <1>1
<1> QED BY <1>1, <1>6, <1>7, <1>8 DEF l

\* The answers to the two halves of CommitVersion.
LEMMA CommitEntrySelf ==
  ASSUME TypeOK, OwnershipInv, NEW t \in Txn, SelfInv(t), NEW i \in DOMAIN writeSet[t],
         \/ PostProcessingCommitNew(t, i) \/ PostProcessingClosePrev(t, i)
         \/ PostProcessingCommitEntryError(t, i)
  PROVE  SelfInv(t)'
<1>1. PICK half \in CommitHalf, is_error \in BOOLEAN :
        CommitEntryAnswered(t, i, half, is_error) /\ CallFor(half, i) \in calls[t]
  BY DEF PostProcessingCommitNew, PostProcessingClosePrev, PostProcessingCommitEntryError, CommitHalf
<1>2. /\ txns' = txns /\ UNCHANGED <<status, result, writeSet, tsVars>>
  BY <1>1 DEF PostProcessingCommitNew, PostProcessingClosePrev, PostProcessingCommitEntryError,
              CommitNewVersion, ClosePrevVersion, dbVars, CommitEntryAnswered
<1>3. /\ CallFor(half, i).op \in CommitCalls /\ CallFor(half, i).index = i
      /\ CallFor(Failed(half), i).op \in CommitCalls /\ CallFor(Failed(half), i).index = i
  BY DEF CallFor, CommitHalf, CommitCalls, Failed
<1>4. /\ t \in Committed /\ i \in PostProcessIndex(t)
      /\ operation[t] \in {"PostProcessingAfterCommit", "Recover"}
  BY <1>1, <1>3, DecidedWithCalls DEF SelfInv, CallsMatch
<1>5. /\ operation'[t] \in {"PostProcessingAfterCommit", "Recover"}
      /\ operation[t] = "Recover" => operation'[t] = "Recover"
      /\ \A call \in calls'[t] : call \in calls[t] \/ call = CallFor(Failed(half), i)
      /\ calls[t] \ {CallFor(half, i)} \subseteq calls'[t]
      /\ \/ CallFor("CommitNew", i) \in calls'[t] \/ CallFor("ClosePrev", i) \in calls'[t]
         \/ operation'[t] = "Recover"
         \/ ~ readSet'[t][writeSet[t][i].read_entry].need_release
  BY <1>1, <1>4, CommitEntryEffect DEF SelfInv
<1>6. t \in Committed'
  BY <1>2, <1>4 DEF Committed
<1>7. SetsKept(t)
  BY <1>1, CommitEntryKeepsSets
<1>8. SetsLinked(t)' /\ TimestampAfterReads(t)'
  BY <1>2, <1>4, <1>7, LinksKept DEF tsVars
<1>9. Outcome(t)' /\ NothingUploaded(t)'
  BY <1>2, <1>4, <1>5 DEF SelfInv, Outcome, NothingUploaded, BeforeUpload, Committed
<1>10. CallsMatch(t)'
  <2>1. \A call \in calls'[t] :
          /\ call.op # "UploadVersion" /\ call.op \notin ValidateCalls
          /\ call.op \in CommitCalls => call.index \in PostProcessIndex(t)
    BY <1>3, <1>4, <1>5 DEF SelfInv, CallsMatch, CommitCalls, ValidateCalls
  <2> QED BY <1>2, <1>6, <2>1 DEF CallsMatch, PostProcessIndex
<1>11. TimestampInTable(t)'
  BY <1>2, <1>4, <1>5, <1>6
     DEF SelfInv, TimestampInTable, BeforeTimestamp, BeforeUpload, AfterTimestamp, tsVars
<1>12. Releases(t)'
  <2>1. \A l \in DOMAIN readSet'[t] : readSet'[t][l].is_updated \/ ~ readSet'[t][l].need_release
    BY <1>4, <1>7 DEF SelfInv, Releases, SetsKept
  <2>2. ASSUME NEW j \in DOMAIN writeSet[t], j # i
        PROVE  \/ ~ readSet'[t][writeSet[t][j].read_entry].need_release
               \/ CallFor("CommitNew", j) \in calls'[t]
               \/ CallFor("ClosePrev", j) \in calls'[t]
               \/ operation'[t] = "Recover"
    <3>1. \A h : CallFor(h, j) # CallFor(half, i)
      BY <2>2 DEF CallFor
    <3>2. writeSet[t][j].read_entry \in DOMAIN readSet[t]
      BY DEF SelfInv, SetsLinked
    <3> QED BY <1>4, <1>5, <1>7, <3>1, <3>2 DEF SelfInv, Releases, SetsKept
  <2>3. \A j \in DOMAIN writeSet[t] :
          \/ ~ readSet'[t][writeSet[t][j].read_entry].need_release
          \/ CallFor("CommitNew", j) \in calls'[t]
          \/ CallFor("ClosePrev", j) \in calls'[t]
          \/ operation'[t] = "Recover"
    BY <1>5, <2>2
  <2> QED BY <1>2, <1>5, <2>1, <2>3 DEF Releases
<1> QED BY <1>8, <1>9, <1>10, <1>11, <1>12 DEF SelfInv

\* A release that the clean-up of an abort has asked for.
LEMMA ReleaseSelf ==
  ASSUME TypeOK, OwnershipInv, NEW t \in Txn, SelfInv(t), NEW i \in DOMAIN readSet[t],
         ReleaseReadCounterForEachEntry(t, i)
  PROVE  SelfInv(t)'
<1>1. /\ calls'[t] = calls[t] \ {CallFor("ReleaseReadCounter", i)}
      /\ CallFor("ReleaseReadCounter", i) \in calls[t] /\ txns' = txns
      /\ UNCHANGED <<operation, status, result, writeSet, tsVars>>
  BY DEF ReleaseReadCounterForEachEntry, ReleaseReadCounter, Answered, TypeOK
<1>2. SetsKept(t)
  BY FALSE \in BOOLEAN, ReleaseKeepsSets DEF ReleaseReadCounterForEachEntry, Released
<1>3. ~ readSet'[t][i].need_release
  <2>1. readSet[t][i] \in ReadSetEntry
    BY Entries
  <2> QED BY <2>1 DEF ReleaseReadCounterForEachEntry, Released, TypeOK, ReadSetEntry
<1>4. t \in Committed' <=> t \in Committed
  BY <1>1 DEF Committed
<1>5. SetsLinked(t)' /\ TimestampAfterReads(t)'
  BY <1>1, <1>2, <1>4, LinksKept DEF TimestampAfterReads, tsVars
<1>6. Outcome(t)' /\ NothingUploaded(t)' /\ TimestampInTable(t)'
  BY <1>1, <1>4 DEF SelfInv, Outcome, NothingUploaded, TimestampInTable, tsVars
<1>7. CallsMatch(t)'
  BY <1>1, <1>4 DEF SelfInv, CallsMatch, PostProcessIndex
<1>8. \A call \in calls[t] :
        call = CallFor("ReleaseReadCounter", i) \/ call \in calls'[t]
  BY <1>1
<1>9. Releases(t)'
  <2>1. \A op \in {"UpdateReadEntryMaxCommitTs", "CommitNew", "ClosePrev"} : \A l :
          CallFor(op, l) \in calls[t] => CallFor(op, l) \in calls'[t]
    BY <1>8 DEF CallFor
  <2>2. \A l : l # i /\ CallFor("ReleaseReadCounter", l) \in calls[t] =>
          CallFor("ReleaseReadCounter", l) \in calls'[t]
    BY <1>8 DEF CallFor
  <2>3. \A j \in DOMAIN writeSet[t] : writeSet[t][j].read_entry \in DOMAIN readSet[t]
    BY DEF SelfInv, SetsLinked
  <2> QED BY <1>1, <1>2, <1>3, <1>4, <2>1, <2>2, <2>3 DEF SelfInv, Releases, SetsKept
<1> QED BY <1>5, <1>6, <1>7, <1>9 DEF SelfInv

\* The ends of the two post-processings.
LEMMA EndSelf ==
  ASSUME TypeOK, OwnershipInv, NEW t \in Txn, SelfInv(t),
         \/ PostProcessingAfterCommitNext(t) \/ PostProcessingAfterAbortNext(t)
         \/ ReleaseReadCounterNext(t)
  PROVE  SelfInv(t)'
<1> USE DEF PostProcessingAfterCommitNext, PostProcessingAfterAbortNext, ReleaseReadCounterNext
<1>1. /\ calls[t] = {} /\ txns' = txns /\ UNCHANGED <<result, localVars, tsVars>>
      /\ operation'[t] \in {"ReleaseReadCounter", "Finished"}
  BY DEF Moves, TypeOK, dbVars
<1>2. t \in Committed' <=> t \in Committed
  BY <1>1 DEF Committed
<1>3. SetsLinked(t)' /\ NothingUploaded(t)'
  BY <1>1, SetsUnchanged, LinksKept DEF NothingUploaded, BeforeUpload
<1>4. TimestampAfterReads(t)'
  BY <1>1, <1>2, SetsUnchanged, LinksKept DEF TimestampAfterReads, AfterTimestamp, tsVars
<1>5. TimestampInTable(t)'
  BY <1>1, <1>2 DEF SelfInv, TimestampInTable, BeforeTimestamp, BeforeUpload, AfterTimestamp, tsVars
<1>6. CASE PostProcessingAfterAbortNext(t)
  <2>1. /\ operation[t] = "PostProcessingAfterAbort" /\ operation'[t] = "ReleaseReadCounter"
        /\ calls'[t] = {CallFor("ReleaseReadCounter", i) : i \in ReleaseIndex(t)}
    BY <1>6 DEF Moves, TypeOK
  <2>2. t \notin Committed /\ Outcome(t)'
    BY <1>1, <2>1 DEF SelfInv, Outcome, Committed
  <2>3. CallsMatch(t)'
    BY <2>1 DEF CallsMatch, CallFor, ValidateCalls, CommitCalls
  <2>4. Releases(t)'
    BY <1>1, <1>2, <2>1, <2>2 DEF Releases, ReleaseIndex, localVars
  <2> QED BY <1>3, <1>4, <1>5, <2>2, <2>3, <2>4 DEF SelfInv
<1>7. CASE PostProcessingAfterCommitNext(t) \/ ReleaseReadCounterNext(t)
  <2>1. /\ operation'[t] = "Finished" /\ calls'[t] = {}
        /\ \/ operation[t] = "PostProcessingAfterCommit" /\ status'[t] = "Committed"
           \/ operation[t] = "ReleaseReadCounter" /\ status'[t] = "Aborted"
    BY <1>1, <1>7 DEF Moves, TypeOK
  <2>2. Outcome(t)' /\ CallsMatch(t)'
    BY <1>1, <2>1 DEF SelfInv, Outcome, CallsMatch
  <2>3. \A i \in DOMAIN readSet[t] : ~ readSet[t][i].need_release
    <3>1. CASE operation[t] = "ReleaseReadCounter"
      BY <1>1, <3>1 DEF SelfInv, Releases
    <3>2. CASE operation[t] = "PostProcessingAfterCommit"
      <4>1. t \in Committed
        BY <3>2 DEF SelfInv, Outcome, Committed
      <4>2. \A j \in DOMAIN writeSet[t] : ~ readSet[t][writeSet[t][j].read_entry].need_release
        BY <1>1, <3>2, <4>1 DEF SelfInv, Releases
      <4> QED BY <4>1, <4>2 DEF SelfInv, SetsLinked, Releases
    <3> QED BY <2>1, <3>1, <3>2
  <2>4. \A j \in DOMAIN writeSet[t] : ~ readSet[t][writeSet[t][j].read_entry].need_release
    BY <2>3 DEF SelfInv, SetsLinked
  <2>5. Releases(t)'
    BY <1>1, <2>1, <2>3, <2>4 DEF Releases, localVars
  <2> QED BY <1>3, <1>4, <1>5, <2>2, <2>5 DEF SelfInv
<1> QED BY <1>6, <1>7

-----------------------------------------------------------------------------
(* The theorems.                                                           *)

\* At first nothing has been read, written, sent or decided.
LEMMA InitExecution == Init => ExecutionInv
<1> SUFFICES ASSUME Init, NEW t \in Txn PROVE SelfInv(t)
  BY DEF ExecutionInv
<1>1. /\ operation[t] = "Reset" /\ calls[t] = {} /\ readSet[t] = <<>> /\ writeSet[t] = <<>>
      /\ txns[t].status = "Ongoing" /\ txns[t].commit_ts = kDefaultCommitTs
  BY DEF Init, DbInit
<1>2. DOMAIN readSet[t] = {} /\ DOMAIN writeSet[t] = {}
  BY <1>1, EmptySeq, LenProperties
<1>3. t \notin Committed
  BY <1>1 DEF Committed
<1> QED BY <1>1, <1>2, <1>3
        DEF SelfInv, Outcome, CallsMatch, SetsLinked, NothingUploaded, TimestampAfterReads,
            TimestampInTable, Releases, AfterTimestamp

\* A request keeps what its own transaction relies on,
LEMMA ClientSelf ==
  ASSUME TypeOK, OwnershipInv, NEW t \in Txn, SelfInv(t), Client(t)
  PROVE  SelfInv(t)'
<1>1. ASSUME NEW k \in Key, Read(t, k) \/ Insert(t, k) \/ Upsert(t, k) PROVE SelfInv(t)'
  BY <1>1, RequestSelf DEF Read, Insert, Upsert
<1>2. CASE \E k \in Key : Update(t, k) \/ Delete(t, k)
  BY <1>2, QueueingSelf
<1> QED BY <1>1, <1>2, RequestSelf DEF Client

\* and so does every step of the executor.
LEMMA ProgressSelf ==
  ASSUME TypeOK, OwnershipInv, NEW t \in Txn, SelfInv(t), Progress(t)
  PROVE  SelfInv(t)'
<1>1. ASSUME NEW i \in DOMAIN readSet[t], ReadEntryStep(t, i) PROVE SelfInv(t)'
  BY <1>1, RereadSelf, PushSelf, ReleaseSelf, GiveUpSelf DEF ReadEntryStep
<1>2. ASSUME NEW i \in DOMAIN writeSet[t], WriteEntryStep(t, i) PROVE SelfInv(t)'
  BY <1>2, UploadEntrySelf, CommitEntrySelf, GiveUpSelf DEF WriteEntryStep
<1>3. CASE SetCommitTsError(t)
  BY <1>3, AbortSelf DEF SetCommitTsError, Fails, AfterDecision
<1>4. CASE UpdateTxnStatusToCommitError(t) \/ UpdateTxnStatusToAbortError(t)
  BY <1>4, GiveUpSelf
<1>5. CASE \/ InitTxn(t) \/ InitTxnError(t) \/ ReadOutside(t) \/ ReadOutsideError(t)
           \/ ReadDataStoreNext(t)
  BY <1>5, RequestSelf, QueueingSelf
<1> QED BY <1>1, <1>2, <1>3, <1>4, <1>5, CommitPathSelf, DecideCommitSelf, DecideAbortSelf, EndSelf
        DEF Progress

\* The invariant is inductive.
LEMMA NextExecution ==
  TypeOK /\ OwnershipInv /\ ExecutionInv /\ [Next]_vars => ExecutionInv'
<1> SUFFICES ASSUME TypeOK, OwnershipInv, ExecutionInv, [Next]_vars, NEW u \in Txn
             PROVE  SelfInv(u)'
  BY DEF ExecutionInv
<1>1. SelfInv(u)
  BY DEF ExecutionInv
<1>2. CASE UNCHANGED vars
  BY <1>1, <1>2
     DEF SelfInv, Outcome, CallsMatch, SetsLinked, NothingUploaded, TimestampAfterReads,
         TimestampInTable, Releases, PostProcessIndex, Committed,
         vars, dbVars, execVars, localVars, tsVars
<1>3. ASSUME NEW t \in Txn, Client(t) \/ Progress(t) PROVE SelfInv(u)'
  <2>1. CASE u = t
    BY <1>1, <1>3, <2>1, ClientSelf, ProgressSelf
  <2>2. CASE u # t
    BY <1>3, <2>2, EveryStepFrame, OthersSelfInv
  <2> QED BY <2>1, <2>2
<1> QED BY <1>2, <1>3 DEF Next, AllEnded

\* What a transaction relies on about itself, its calls, its sets and its timestamp
\* holds in every interleaving and whatever calls fail.
THEOREM Execution == Spec => []ExecutionInv
BY InitTypes, NextTypes, InitOwnership, NextOwnership, InitExecution, NextExecution, PTL DEF Spec

\* A finished transaction ended the same way for its client, its execution and the
\* transaction table, and PostProcessingAfterCommit or ReleaseReadCounter has
\* released every one of its reads, whichever of them validation had released.
THEOREM OutcomesAgree == Spec => []OutcomeAgreed
<1>1. ExecutionInv => OutcomeAgreed
  BY DEF ExecutionInv, SelfInv, Outcome, Releases, OutcomeAgreed
<1> QED BY <1>1, Execution, PTL

-----------------------------------------------------------------------------
(* The lifecycle.                                                          *)

\* While a request is being served nothing has been answered; between requests
\* everything has.
Served(t) ==
  /\ Phase(operation[t]) = "Serving" => result[t] = EmptyResult
  /\ operation[t] = "Idle" => result[t].is_finished

\* The steps of TransactionLifecycle, seen from the operation and the result of t.
LifeStep(t) ==
  LET from == Phase(operation[t])
      to   == Phase(operation'[t])
      before == result[t].is_finished
      after  == result'[t].is_finished
  IN
  \/ to = from /\ (after <=> before)
  \/ from \in {"Reset", "Idle"} /\ to = "Serving" /\ ~ after
  \/ from = "Serving" /\ to \in {"Idle", "Ending"} /\ after
  \/ from = "Ending" /\ to = "Finished" /\ before /\ after
  \/ from \in {"Serving", "Ending"} /\ to = "Recover" /\ (after <=> before)

\* How the result is written.
LEMMA ResultWritten ==
  ASSUME TypeOK, NEW t \in Txn
  PROVE  /\ ResetResult(t) => result'[t] = EmptyResult
         /\ \A b \in BOOLEAN : Answer(t, b) \/ SetFinished(t, b) => result'[t].is_finished
         /\ \A s : SetStatus(t, s) => result'[t].is_finished
<1>1. result \in [Txn -> Result] /\ result[t] \in Result
  BY DEF TypeOK
<1> QED BY <1>1 DEF ResetResult, Answer, SetFinished, SetStatus, Result

\* The client's requests are taken up or answered at once.
LEMMA ClientLife ==
  ASSUME TypeOK, NEW t \in Txn, Served(t), Client(t)
  PROVE  LifeStep(t) /\ Served(t)'
<1>1. ~ EmptyResult.is_finished
  BY DEF EmptyResult
<1>2. CASE /\ ResetResult(t)
           /\ operation[t] \in {"Reset", "Idle"}
           /\ operation'[t] \in {"InitTxn", "Read", "Insert", "Upsert", "ReadDataStore",
                                 "Upload", "UpdateTxnStatusToAbort"}
  <2>1. Phase(operation[t]) \in {"Reset", "Idle"} /\ Phase(operation'[t]) = "Serving"
    BY <1>2 DEF Phase
  <2> QED BY <1>1, <1>2, <2>1, ResultWritten DEF LifeStep, Served
<1>3. CASE /\ \E b \in BOOLEAN : Answer(t, b)
           /\ operation[t] = "Idle" /\ operation' = operation
  <2>1. result'[t].is_finished /\ result[t].is_finished
    BY <1>3, ResultWritten DEF Served
  <2> QED BY <1>3, <2>1 DEF LifeStep, Served, Phase
<1>4. \/ \E k \in Key : Update(t, k) \/ Delete(t, k)
      \/ ReadDataStore(t) /\ operation' = operation
      => \E b \in BOOLEAN : Answer(t, b) /\ operation[t] = "Idle" /\ operation' = operation
  BY TRUE \in BOOLEAN, FALSE \in BOOLEAN DEF Update, Delete, ReadDataStore, Requested, TypeOK
<1>5. \/ Begin(t) \/ Commit(t) \/ Abort(t)
      \/ ReadDataStore(t) /\ operation' # operation
      \/ \E k \in Key : Read(t, k) \/ Insert(t, k) \/ Upsert(t, k)
      => /\ ResetResult(t)
         /\ operation[t] \in {"Reset", "Idle"}
         /\ operation'[t] \in {"InitTxn", "Read", "Insert", "Upsert", "ReadDataStore",
                               "Upload", "UpdateTxnStatusToAbort"}
  BY DEF Begin, Commit, Abort, ReadDataStore, Read, Insert, Upsert, CallReadOutside, Moves,
         Requested, TypeOK
<1> QED BY <1>2, <1>3, <1>4, <1>5 DEF Client

\* The answers to calls do not answer requests; some make the execution throw.
LEMMA EntryLife ==
  ASSUME TypeOK, OwnershipInv, NEW t \in Txn, SelfInv(t), Served(t),
         \/ \E i \in DOMAIN readSet[t] : ReadEntryStep(t, i)
         \/ \E i \in DOMAIN writeSet[t] : WriteEntryStep(t, i)
  PROVE  LifeStep(t) /\ Served(t)'
<1>1. result' = result
  BY DEF ReadEntryStep, UpdateReadEntryMaxCommitTs, UpdateReadEntryMaxCommitTsError,
         PushConflictTxnCommitTsLowerBound, PushConflictTxnCommitTsLowerBoundError,
         ReleaseReadCounterForEachEntry, ReleaseReadCounterForEachEntryError, WriteEntryStep,
         UploadVersionEntry, UploadVersionEntryError, PostProcessingCommitNew,
         PostProcessingClosePrev, PostProcessingCommitEntryError, CommitEntryAnswered,
         PostProcessingDeleteEntryAfterAbort, PostProcessingDeleteEntryAfterAbortError, Recover
<1>2. CASE operation'[t] = operation[t]
  BY <1>1, <1>2 DEF LifeStep, Served
<1>3. CASE /\ operation'[t] = "Recover"
           /\ operation[t] \in {"PostProcessingAfterCommit", "PostProcessingAfterAbort",
                                "ReleaseReadCounter"}
  BY <1>1, <1>3 DEF LifeStep, Served, Phase
<1>4. ASSUME NEW i \in DOMAIN readSet[t], ReadEntryStep(t, i)
      PROVE  \/ operation'[t] = operation[t]
             \/ operation'[t] = "Recover" /\ operation[t] = "ReleaseReadCounter"
  BY <1>4 DEF ReadEntryStep, UpdateReadEntryMaxCommitTs, UpdateReadEntryMaxCommitTsError,
         PushConflictTxnCommitTsLowerBound, PushConflictTxnCommitTsLowerBoundError,
         ReleaseReadCounterForEachEntry, ReleaseReadCounterForEachEntryError, Recover, Moves,
         TypeOK
<1>5. ASSUME NEW i \in DOMAIN writeSet[t], WriteEntryStep(t, i)
      PROVE  \/ operation'[t] = operation[t]
             \/ /\ operation'[t] = "Recover"
                /\ operation[t] \in {"PostProcessingAfterCommit", "PostProcessingAfterAbort"}
  <2>1. CASE PostProcessingCommitNew(t, i) \/ PostProcessingClosePrev(t, i)
             \/ PostProcessingCommitEntryError(t, i)
    <3>1. PICK half \in CommitHalf, is_error \in BOOLEAN :
            CommitEntryAnswered(t, i, half, is_error) /\ CallFor(half, i) \in calls[t]
      BY <2>1 DEF PostProcessingCommitNew, PostProcessingClosePrev,
                  PostProcessingCommitEntryError, CommitHalf
    <3>2. operation[t] \in {"PostProcessingAfterCommit", "Recover"}
      BY <3>1, DecidedWithCalls DEF CallFor, CommitHalf, CommitCalls
    <3>3. operation'[t] \in {operation[t], "Recover"}
      BY <3>1, CommitEntryEffect DEF SelfInv
    <3> QED BY <3>2, <3>3
  <2>2. CASE UploadVersionEntry(t, i) \/ UploadVersionEntryError(t, i)
             \/ PostProcessingDeleteEntryAfterAbort(t, i)
    BY <2>2 DEF UploadVersionEntry, UploadVersionEntryError, PostProcessingDeleteEntryAfterAbort
  <2>3. CASE PostProcessingDeleteEntryAfterAbortError(t, i)
    BY <2>3 DEF PostProcessingDeleteEntryAfterAbortError, Recover, Moves, TypeOK
  <2> QED BY <1>5, <2>1, <2>2, <2>3 DEF WriteEntryStep
<1> QED BY <1>2, <1>3, <1>4, <1>5

\* MoveForward answers a request when its operation is done, the last one at the
\* decision.
LEMMA MoveLife ==
  ASSUME TypeOK, OwnershipInv, NEW t \in Txn, SelfInv(t), Served(t),
         \/ InitTxn(t) \/ InitTxnError(t) \/ ReadOutside(t) \/ ReadOutsideError(t)
         \/ ReadDataStoreNext(t) \/ UploadNext(t) \/ SetCommitTs(t) \/ SetCommitTsError(t)
         \/ ValidateNext(t) \/ WriteToLog(t)
         \/ UpdateTxnStatusToCommit(t) \/ UpdateTxnStatusToCommitError(t)
         \/ PostProcessingAfterCommitNext(t)
         \/ UpdateTxnStatusToAbort(t) \/ UpdateTxnStatusToAbortError(t)
         \/ PostProcessingAfterAbortNext(t) \/ ReleaseReadCounterNext(t)
  PROVE  LifeStep(t) /\ Served(t)'
<1>1. CASE InitTxn(t) \/ ReadOutside(t) \/ ReadOutsideError(t) \/ ReadDataStoreNext(t)
  <2>1. /\ operation[t] \in {"InitTxn", "Read", "Insert", "Upsert", "ReadDataStore"}
        /\ operation'[t] = "Idle"
    BY <1>1 DEF InitTxn, ReadOutside, ReadOutsideError, ReadDataStoreNext, ReadOutsideNext,
                ReadNext, InsertNext, UpsertNext, Moves, TypeOK
  <2>2. \E b \in BOOLEAN : SetFinished(t, b)
    <3>1. \A rs, b : b \in BOOLEAN /\ ReadOutsideNext(t, rs, b) => \E c \in BOOLEAN : SetFinished(t, c)
      BY TRUE \in BOOLEAN DEF ReadOutsideNext, ReadNext, InsertNext, UpsertNext
    <3> QED BY <1>1, <3>1, TRUE \in BOOLEAN, FALSE \in BOOLEAN
            DEF InitTxn, ReadOutside, ReadOutsideError, ReadDataStoreNext
  <2>3. result'[t].is_finished
    BY <2>2, ResultWritten
  <2> QED BY <2>1, <2>3 DEF LifeStep, Served, Phase
<1>2. CASE \E from \in {"Upload", "SetCommitTs", "Validate"} : AbortFrom(t, from)
  <2>1. /\ operation[t] \in {"Upload", "SetCommitTs", "Validate"}
        /\ operation'[t] = "UpdateTxnStatusToAbort" /\ result'[t] = EmptyResult
    BY <1>2, ResultWritten DEF AbortFrom, Moves, TypeOK
  <2>2. Phase(operation[t]) = "Serving" /\ Phase(operation'[t]) = "Serving"
    BY <2>1 DEF Phase
  <2> QED BY <2>1, <2>2 DEF LifeStep, Served
<1>3. CASE /\ InitTxnError(t) \/ UploadNext(t) \/ SetCommitTs(t) \/ SetCommitTsError(t)
              \/ ValidateNext(t) \/ WriteToLog(t)
           /\ ~ \E from \in {"Upload", "SetCommitTs", "Validate"} : AbortFrom(t, from)
  <2>1. /\ operation[t] \in {"InitTxn", "Upload", "SetCommitTs", "Validate", "WriteToLog"}
        /\ operation'[t] \in {"InitTxn", "SetCommitTs", "Validate", "WriteToLog",
                              "UpdateTxnStatusToCommit"}
        /\ result' = result
    BY <1>3 DEF InitTxnError, UploadNext, SetCommitTs, SetCommitTsError, ValidateNext,
                WriteToLog, Moves, TypeOK
  <2>2. Phase(operation[t]) = "Serving" /\ Phase(operation'[t]) = "Serving"
    BY <2>1 DEF Phase
  <2> QED BY <2>1, <2>2 DEF LifeStep, Served
<1>4. CASE UpdateTxnStatusToCommit(t) \/ UpdateTxnStatusToAbort(t)
  <2>1. /\ operation[t] \in {"UpdateTxnStatusToCommit", "UpdateTxnStatusToAbort"}
        /\ operation'[t] \in {"PostProcessingAfterCommit", "PostProcessingAfterAbort"}
        /\ result'[t].is_finished
    BY <1>4, ResultWritten DEF UpdateTxnStatusToCommit, UpdateTxnStatusToAbort, Moves, TypeOK
  <2> QED BY <2>1 DEF LifeStep, Served, Phase
<1>5. CASE UpdateTxnStatusToCommitError(t) \/ UpdateTxnStatusToAbortError(t)
  <2>1. /\ operation[t] \in {"UpdateTxnStatusToCommit", "UpdateTxnStatusToAbort"}
        /\ operation'[t] = "Recover" /\ result' = result
    BY <1>5 DEF UpdateTxnStatusToCommitError, UpdateTxnStatusToAbortError, Recover, Moves, TypeOK
  <2> QED BY <2>1 DEF LifeStep, Served, Phase
<1>6. CASE PostProcessingAfterCommitNext(t) \/ PostProcessingAfterAbortNext(t)
           \/ ReleaseReadCounterNext(t)
  <2>1. /\ operation[t] \in {"PostProcessingAfterCommit", "PostProcessingAfterAbort",
                             "ReleaseReadCounter"}
        /\ operation'[t] \in {"Finished", "ReleaseReadCounter"}
        /\ result' = result
    BY <1>6 DEF PostProcessingAfterCommitNext, PostProcessingAfterAbortNext,
                ReleaseReadCounterNext, Moves, TypeOK
  <2>2. result[t].is_finished
    BY <2>1 DEF SelfInv, Outcome
  <2> QED BY <2>1, <2>2 DEF LifeStep, Served, Phase
<1> QED BY <1>1, <1>2, <1>3, <1>4, <1>5, <1>6

\* All steps of a transaction are steps of its lifecycle.
LEMMA EveryLifeStep ==
  ASSUME TypeOK, OwnershipInv, NEW t \in Txn, SelfInv(t), Served(t), Client(t) \/ Progress(t)
  PROVE  LifeStep(t) /\ Served(t)'
BY ClientLife, EntryLife, MoveLife DEF Progress

ServedInv == \A t \in Txn : Served(t)

\* No transaction has been asked or answered anything at first,
LEMMA InitServed == Init => ServedInv /\ Lifecycle!LifeInit
BY DEF Init, ServedInv, Served, Phase, EmptyResult, Lifecycle!LifeInit

\* and every step of the system is a step of the lifecycles.
LEMMA NextServed ==
  ASSUME TypeOK, TypeOK', OwnershipInv, ExecutionInv, ServedInv, [Next]_vars
  PROVE  ServedInv' /\ [Lifecycle!LifeNext]_(Lifecycle!lifeVars)
<1>1. result \in [Txn -> Result] /\ result' \in [Txn -> Result]
  BY DEF TypeOK
<1>2. \A t \in Txn : result[t].is_finished \in BOOLEAN /\ result'[t].is_finished \in BOOLEAN
  BY <1>1 DEF Result
<1>3. CASE UNCHANGED vars
  BY <1>3 DEF ServedInv, Served, vars, execVars, Lifecycle!lifeVars
<1>4. ASSUME NEW t \in Txn, Client(t) \/ Progress(t)
      PROVE  ServedInv' /\ [Lifecycle!LifeNext]_(Lifecycle!lifeVars)
  <2>1. LifeStep(t) /\ Served(t)'
    BY <1>4, EveryLifeStep DEF ServedInv, ExecutionInv
  <2>2. \A u \in Txn : u # t => operation'[u] = operation[u] /\ result'[u] = result[u]
    BY <1>4, EveryStepFrame DEF Frame
  <2>3. ServedInv'
    BY <2>1, <2>2 DEF ServedInv, Served
  <2> DEFINE phase == [u \in Txn |-> Phase(operation[u])]
             notified == [u \in Txn |-> result[u].is_finished]
  <2>4. phase' = [phase EXCEPT ![t] = Phase(operation'[t])]
    BY <2>2
  <2>5. notified' = [notified EXCEPT ![t] = result'[t].is_finished]
    BY <2>2
  <2>6. CASE Phase(operation'[t]) = Phase(operation[t]) /\ (result'[t].is_finished <=> result[t].is_finished)
    <3>1. phase' = phase /\ notified' = notified
      BY <1>2, <2>4, <2>5, <2>6
    <3> QED BY <2>3, <3>1 DEF Lifecycle!lifeVars
  <2>7. CASE ~ (Phase(operation'[t]) = Phase(operation[t]) /\ (result'[t].is_finished <=> result[t].is_finished))
    <3>1. Lifecycle!Serve(t) \/ Lifecycle!Reply(t) \/ Lifecycle!Decide(t) \/ Lifecycle!Finish(t)
          \/ Lifecycle!Throw(t)
      <4> DEFINE Moved(from, to) == Phase(operation[t]) \in from /\ Phase(operation'[t]) = to
      <4>1. \A from, to : Moved(from, to) => Lifecycle!Becomes(t, from, to)
        BY <2>4 DEF Lifecycle!Becomes
      <4>2. result'[t].is_finished = result[t].is_finished => notified' = notified
        BY <1>2, <2>5
      <4>3. \A b \in BOOLEAN : result'[t].is_finished = b => notified' = [notified EXCEPT ![t] = b]
        BY <2>5
      <4>4. \/ Moved({"Reset", "Idle"}, "Serving") /\ result'[t].is_finished = FALSE
            \/ Moved({"Serving"}, "Idle") /\ result'[t].is_finished = TRUE
            \/ Moved({"Serving"}, "Ending") /\ result'[t].is_finished = TRUE
            \/ /\ Moved({"Ending"}, "Finished")
               /\ result[t].is_finished /\ result'[t].is_finished = result[t].is_finished
            \/ /\ Moved({"Serving", "Ending"}, "Recover")
               /\ result'[t].is_finished = result[t].is_finished
        BY <1>2, <2>1, <2>7 DEF LifeStep
      <4>5. notified[t] = result[t].is_finished
        OBVIOUS
      <4> HIDE DEF Moved
      <4> QED BY <4>1, <4>2, <4>3, <4>4, <4>5 DEF Lifecycle!Serve, Lifecycle!Reply,
               Lifecycle!Decide, Lifecycle!Finish, Lifecycle!Throw
    <3> QED BY <2>3, <3>1 DEF Lifecycle!LifeNext
  <2> QED BY <2>6, <2>7
<1> QED BY <1>3, <1>4 DEF Next, AllEnded

\* Every transaction goes through TransactionLifecycle: each request is answered before
\* the next one is taken up, an abort starts over with an answer that has not been
\* given, and Commit and Abort are answered between the decision and the end of
\* the post-processing.
THEOREM LifecycleImplemented == Spec => AnsweredBeforeNext
<1>1. TypeOK /\ TypeOK' /\ OwnershipInv /\ ExecutionInv /\ ServedInv /\ [Next]_vars =>
        ServedInv' /\ [Lifecycle!LifeNext]_(Lifecycle!lifeVars)
  BY NextServed
<1> QED BY <1>1, InitServed, TypeCorrect, Ownership, Execution, PTL
        DEF Spec, AnsweredBeforeNext, Lifecycle!LifeSpec

-----------------------------------------------------------------------------
(* Requests that fail.                                                     *)

\* A request of t that ends in an error has left the write set alone, but for an
\* Insert or Upsert that finds its key in the read set after the read has failed.
NoWriteOnError(t) ==
  result'[t].is_error /\ writeSet'[t] # writeSet[t] =>
    /\ operation[t] \in {"Insert", "Upsert"}
    /\ InSet(readSet[t], request[t])
    /\ Len(readSet'[t]) = Len(readSet[t])

\* The requests that are served at once.
LEMMA ClientNoWriteOnError ==
  ASSUME TypeOK, NEW t \in Txn, Client(t)
  PROVE  NoWriteOnError(t)
<1>1. result \in [Txn -> Result]
  BY DEF TypeOK
<1>2. CASE writeSet' = writeSet
  BY <1>2 DEF NoWriteOnError
<1>3. CASE Answer(t, FALSE)
  BY <1>1, <1>3 DEF Answer, NoWriteOnError
<1>4. writeSet' = writeSet \/ Answer(t, FALSE)
  BY DEF Client, Begin, Commit, Abort, ReadDataStore, Read, Insert, Upsert, CallReadOutside,
         Update, Delete, localVars
<1> QED BY <1>2, <1>3, <1>4

\* The requests that read a version list.
LEMMA ReadOutsideNoWriteOnError ==
  ASSUME TypeOK, NEW t \in Txn, ReadOutside(t) \/ ReadOutsideError(t)
  PROVE  NoWriteOnError(t)
<1>1. result \in [Txn -> Result] /\ result[t] \in Result
  BY DEF TypeOK
<1>2. SetFinished(t, FALSE) => ~ result'[t].is_error
  BY <1>1 DEF SetFinished, Result
<1>3. CASE ReadOutside(t)
  <2>1. PICK rs : ReadOutsideNext(t, rs, FALSE)
    BY <1>3 DEF ReadOutside
  <2>2. writeSet' = writeSet \/ SetFinished(t, FALSE)
    BY <2>1 DEF ReadOutsideNext, ReadNext, InsertNext, UpsertNext, OnlyRead
  <2> QED BY <1>2, <2>2 DEF NoWriteOnError
<1>4. CASE ReadOutsideError(t)
  <2>1. ReadOutsideNext(t, readSet[t], TRUE)
    BY <1>4 DEF ReadOutsideError
  <2>2. CASE writeSet' = writeSet
    BY <2>2 DEF NoWriteOnError
  <2>3. CASE writeSet' # writeSet
    <3>1. /\ operation[t] \in {"Insert", "Upsert"}
          /\ \E i \in DOMAIN readSet[t] :
               Found(readSet[t], request[t], i) /\ InsertWriteSet(t, readSet[t], i, FALSE)
      BY <2>1, <2>3 DEF ReadOutsideNext, ReadNext, InsertNext, UpsertNext, OnlyRead
    <3>2. PICK i \in DOMAIN readSet[t] :
            Found(readSet[t], request[t], i) /\ InsertWriteSet(t, readSet[t], i, FALSE)
      BY <3>1
    <3>3. InSet(readSet[t], request[t])
      BY <3>2 DEF Found, InSet
    <3>4. readSet'[t] = [readSet[t] EXCEPT ![i].is_updated = TRUE]
      BY <3>2 DEF InsertWriteSet, TypeOK
    <3>5. readSet[t] \in Seq(ReadSetEntry) /\ readSet[t][i] \in ReadSetEntry
      BY Entries
    <3>6. [readSet[t][i] EXCEPT !.is_updated = TRUE] \in ReadSetEntry
      BY <3>5 DEF ReadSetEntry
    <3>7. readSet'[t] \in Seq(ReadSetEntry) /\ DOMAIN readSet'[t] = DOMAIN readSet[t]
      BY <3>4, <3>5, <3>6, SeqUpdate
    <3>8. Len(readSet'[t]) = Len(readSet[t])
      BY <3>5, <3>7, LenProperties
    <3> QED BY <3>1, <3>3, <3>8 DEF NoWriteOnError
  <2> QED BY <2>2, <2>3
<1> QED BY <1>3, <1>4

\* Uploads write, but nothing has been answered then; the other steps do not write.
LEMMA ProgressNoWriteOnError ==
  ASSUME TypeOK, OwnershipInv, NEW t \in Txn, SelfInv(t), Served(t), Progress(t)
  PROVE  NoWriteOnError(t)
<1>1. CASE writeSet' = writeSet
  BY <1>1 DEF NoWriteOnError
<1>2. ASSUME NEW i \in DOMAIN writeSet[t], UploadVersionEntry(t, i)
      PROVE  NoWriteOnError(t)
  <2>1. result' = result /\ CallFor("UploadVersion", i) \in calls[t]
    BY <1>2 DEF UploadVersionEntry
  <2>2. operation[t] = "Upload"
    BY <2>1 DEF SelfInv, CallsMatch, CallFor
  <2>3. result[t] = EmptyResult
    BY <2>2 DEF Served, Phase
  <2> QED BY <2>1, <2>3 DEF NoWriteOnError, EmptyResult
<1>3. ASSUME NEW i \in DOMAIN writeSet[t], WriteEntryStep(t, i), ~ UploadVersionEntry(t, i)
      PROVE  writeSet' = writeSet
  BY <1>3 DEF WriteEntryStep, UploadVersionEntryError, PostProcessingCommitNew,
              PostProcessingClosePrev, PostProcessingCommitEntryError, CommitEntryAnswered,
              PostProcessingDeleteEntryAfterAbort, PostProcessingDeleteEntryAfterAbortError,
              Recover, localVars
<1>4. ASSUME NEW i, ReadEntryStep(t, i) PROVE writeSet' = writeSet
  BY <1>4 DEF ReadEntryStep, UpdateReadEntryMaxCommitTs, UpdateReadEntryMaxCommitTsError,
              PushConflictTxnCommitTsLowerBound, PushConflictTxnCommitTsLowerBoundError,
              ReleaseReadCounterForEachEntry, ReleaseReadCounterForEachEntryError, Recover,
              localVars
<1>5. \/ InitTxn(t) \/ InitTxnError(t) \/ ReadDataStoreNext(t) \/ UploadNext(t)
      \/ SetCommitTs(t) \/ SetCommitTsError(t) \/ ValidateNext(t) \/ WriteToLog(t)
      \/ UpdateTxnStatusToCommit(t) \/ UpdateTxnStatusToCommitError(t)
      \/ PostProcessingAfterCommitNext(t)
      \/ UpdateTxnStatusToAbort(t) \/ UpdateTxnStatusToAbortError(t)
      \/ PostProcessingAfterAbortNext(t) \/ ReleaseReadCounterNext(t)
      => writeSet' = writeSet
  BY DEF InitTxn, InitTxnError, ReadDataStoreNext, UploadNext, SetCommitTs, SetCommitTsError,
         ValidateNext, WriteToLog, UpdateTxnStatusToCommit, UpdateTxnStatusToCommitError,
         PostProcessingAfterCommitNext, UpdateTxnStatusToAbort, UpdateTxnStatusToAbortError,
         PostProcessingAfterAbortNext, ReleaseReadCounterNext, AbortFrom, Recover, localVars
<1> QED BY <1>1, <1>2, <1>3, <1>4, <1>5, ReadOutsideNoWriteOnError DEF Progress

\* A request that is answered with an error has queued no write, whatever call
\* fails, with the one exception the code makes: an Insert or Upsert whose read has
\* failed goes on with what an earlier read of the key has left.
THEOREM ErrorsLeaveNoWrite == Spec => ErrorLeavesNoWrite
<1>1. ASSUME TypeOK, OwnershipInv, ExecutionInv, ServedInv, [Next]_vars, NEW u \in Txn
      PROVE  NoWriteOnError(u)
  <2>1. CASE UNCHANGED vars
    BY <2>1 DEF NoWriteOnError, vars, execVars, localVars
  <2>2. ASSUME NEW t \in Txn, Client(t) \/ Progress(t) PROVE NoWriteOnError(u)
    <3>1. CASE u = t
      BY <1>1, <2>2, <3>1, ClientNoWriteOnError, ProgressNoWriteOnError DEF ServedInv, ExecutionInv
    <3>2. CASE u # t
      BY <1>1, <2>2, <3>2, EveryStepFrame DEF Frame, NoWriteOnError
    <3> QED BY <3>1, <3>2
  <2> QED BY <1>1, <2>1, <2>2 DEF Next, AllEnded
<1>2. TypeOK /\ OwnershipInv /\ ExecutionInv /\ ServedInv /\ [Next]_vars =>
        [\A t \in Txn : NoWriteOnError(t)]_vars
  BY <1>1
<1>3. TypeOK /\ TypeOK' /\ OwnershipInv /\ ExecutionInv /\ ServedInv /\ [Next]_vars => ServedInv'
  BY NextServed
<1> HIDE DEF NoWriteOnError
<1>4. Spec => [][\A t \in Txn : NoWriteOnError(t)]_vars
  BY <1>2, <1>3, InitServed, TypeCorrect, Ownership, Execution, PTL DEF Spec
<1> QED BY <1>4 DEF ErrorLeavesNoWrite, NoWriteOnError

-----------------------------------------------------------------------------
(* The read counters.                                                      *)

\* Entry i of the read set of t pins key k.
Pinned(t, i, k) ==
  /\ i \in DOMAIN readSet[t]
  /\ readSet[t][i].key = k
  /\ Pins(t, i)

\* The version that write set entry j of t supersedes has not been closed.
NotClosed(t, j) ==
  CallFor("ClosePrev", j) \in calls[t] \/ CallFor("ClosePrevFailed", j) \in calls[t]

\* A read that will be released has not been released; one that a write supersedes
\* is left to the commit of that write.
PinInv(t) ==
  /\ Len(readSet[t]) <= MaxReads
  /\ request[t] # NoKey => Len(readSet[t]) < MaxReads
  /\ \A i \in DOMAIN readSet[t] :
       /\ operation[t] \in BeforeTimestamp => readSet[t][i].need_release
       /\ operation[t] \in AfterTimestamp /\ readSet[t][i].is_updated => readSet[t][i].need_release
       /\ CallFor("UpdateReadEntryMaxCommitTs", i) \in calls[t] =>
            readSet[t][i].need_release /\ ~ readSet[t][i].is_updated
       /\ CallFor("ReleaseReadCounter", i) \in calls[t] => readSet[t][i].need_release
  /\ \A call \in calls[t] : call.op = "ReleaseReadCounter" => txns[t].status = "Aborted"
  /\ t \in Committed =>
       \A j \in DOMAIN writeSet[t] :
         /\ NotClosed(t, j) => readSet[t][writeSet[t][j].read_entry].need_release
         /\ ~ {CallFor("ClosePrev", j), CallFor("ClosePrevFailed", j)} \subseteq calls[t]

\* A step of t adds a pin and counts it, or drops one and counts it.
SamePins(t) ==
  /\ read_counter' = read_counter
  /\ \A k \in Key : \A i : Pinned(t, i, k)' <=> Pinned(t, i, k)

AddsPin(t, i, k) ==
  /\ read_counter' = [read_counter EXCEPT ![k] = read_counter[k] + 1]
  /\ ~ Pinned(t, i, k) /\ Pinned(t, i, k)'
  /\ \A l \in Key : \A m : l # k \/ m # i => (Pinned(t, m, l)' <=> Pinned(t, m, l))

DropsPin(t, i, k) ==
  /\ read_counter' = [read_counter EXCEPT ![k] = read_counter[k] - 1]
  /\ Pinned(t, i, k) /\ ~ Pinned(t, i, k)'
  /\ \A l \in Key : \A m : l # k \/ m # i => (Pinned(t, m, l)' <=> Pinned(t, m, l))

CountsPins(t) ==
  \/ SamePins(t)
  \/ \E i \in 1 .. MaxReads : \E k \in Key : AddsPin(t, i, k) \/ DropsPin(t, i, k)

\* At any time finitely many reads are pinned, however many transactions there are.
PinsFinite ==
  \A k \in Key : IsFiniteSet({p \in Txn \X (1 .. MaxReads) : Pinned(p[1], p[2], k)})

\* What is counted stays what is pinned.
LEMMA PinsCounted ==
  ASSUME TypeOK, PinsFinite, PinsBalanced, NEW t \in Txn, Frame(t), CountsPins(t)
  PROVE  PinsFinite' /\ PinsBalanced'
<1> SUFFICES ASSUME NEW k \in Key
             PROVE  /\ IsFiniteSet({p \in Txn \X (1 .. MaxReads) : Pinned(p[1], p[2], k)'})
                    /\ read_counter'[k] =
                         Cardinality({p \in Txn \X (1 .. MaxReads) :
                                        /\ p[2] \in DOMAIN readSet'[p[1]]
                                        /\ readSet'[p[1]][p[2]].key = k
                                        /\ Pins(p[1], p[2])'})
  BY DEF PinsFinite, PinsBalanced
<1> DEFINE place == Txn \X (1 .. MaxReads)
           old == {p \in place : Pinned(p[1], p[2], k)}
           new == {p \in place : Pinned(p[1], p[2], k)'}
<1>1. read_counter[k] = Cardinality(old)
  BY DEF PinsBalanced, Pinned
<1>2. SUFFICES IsFiniteSet(new) /\ read_counter'[k] = Cardinality(new)
  BY DEF Pinned
<1>3. IsFiniteSet(old)
  BY DEF PinsFinite
<1>4. \A u \in Txn : u # t => \A i : Pinned(u, i, k)' <=> Pinned(u, i, k)
  BY DEF Frame, Pinned, Pins, Committed
<1>5. read_counter \in [Key -> Int]
  BY DEF TypeOK, DbTypeOK
<1>6. ASSUME \A i : Pinned(t, i, k)' <=> Pinned(t, i, k)
      PROVE  new = old
  BY <1>4, <1>6
<1>7. CASE SamePins(t)
  BY <1>1, <1>3, <1>6, <1>7 DEF SamePins
<1>8. ASSUME NEW i \in 1 .. MaxReads, NEW l \in Key, AddsPin(t, i, l)
      PROVE  IsFiniteSet(new) /\ read_counter'[k] = Cardinality(new)
  <2>1. CASE l # k
    <3>1. new = old /\ read_counter'[k] = read_counter[k]
      BY <1>5, <1>6, <1>8, <2>1 DEF AddsPin
    <3> QED BY <1>1, <1>3, <3>1
  <2>2. CASE l = k
    <3>1. new = old \cup {<<t, i>>} /\ <<t, i>> \notin old
      BY <1>4, <1>8, <2>2 DEF AddsPin
    <3>2. read_counter'[k] = read_counter[k] + 1
      BY <1>5, <1>8, <2>2 DEF AddsPin
    <3> HIDE DEF old, new
    <3>3. IsFiniteSet(new) /\ Cardinality(new) = Cardinality(old) + 1
      BY <1>3, <3>1, FS_AddElement
    <3> QED BY <1>1, <3>2, <3>3
  <2> QED BY <2>1, <2>2
<1>9. ASSUME NEW i \in 1 .. MaxReads, NEW l \in Key, DropsPin(t, i, l)
      PROVE  IsFiniteSet(new) /\ read_counter'[k] = Cardinality(new)
  <2>1. CASE l # k
    <3>1. new = old /\ read_counter'[k] = read_counter[k]
      BY <1>5, <1>6, <1>9, <2>1 DEF DropsPin
    <3> QED BY <1>1, <1>3, <3>1
  <2>2. CASE l = k
    <3>1. new = old \ {<<t, i>>} /\ <<t, i>> \in old
      BY <1>4, <1>9, <2>2 DEF DropsPin
    <3>2. read_counter'[k] = read_counter[k] - 1
      BY <1>5, <1>9, <2>2 DEF DropsPin
    <3> HIDE DEF old, new
    <3>3. IsFiniteSet(new) /\ Cardinality(new) = Cardinality(old) - 1
      BY <1>3, <3>1, FS_RemoveElement
    <3> QED BY <1>1, <3>2, <3>3
  <2> QED BY <2>1, <2>2
<1> QED BY <1>7, <1>8, <1>9 DEF CountsPins

\* The entries of a read set are numbered within its bound.
LEMMA ReadIndex ==
  ASSUME TypeOK, NEW t \in Txn, PinInv(t), NEW i \in DOMAIN readSet[t]
  PROVE  i \in 1 .. MaxReads
<1>1. readSet[t] \in Seq(ReadSetEntry)
  BY Entries
<1>2. DOMAIN readSet[t] = 1 .. Len(readSet[t]) /\ Len(readSet[t]) \in Nat
  BY <1>1, LenProperties
<1> QED BY <1>2, TransactionExecutionAssumption DEF PinInv

\* A step of a transaction that has not committed and releases nothing.
LEMMA QuietPins ==
  ASSUME TypeOK, NEW t \in Txn, PinInv(t), t \notin Committed, t \notin Committed',
         readSet' = readSet, read_counter' = read_counter,
         request'[t] # NoKey => request[t] # NoKey \/ Len(readSet[t]) < MaxReads,
         operation'[t] \in BeforeTimestamp => operation[t] \in BeforeTimestamp,
         operation'[t] \in AfterTimestamp => operation[t] \in BeforeTimestamp \cup AfterTimestamp,
         txns[t].status = "Aborted" => txns'[t].status = "Aborted",
         \A i \in DOMAIN readSet[t] :
           /\ CallFor("UpdateReadEntryMaxCommitTs", i) \in calls'[t] =>
                \/ CallFor("UpdateReadEntryMaxCommitTs", i) \in calls[t]
                \/ readSet[t][i].need_release /\ ~ readSet[t][i].is_updated
           /\ CallFor("ReleaseReadCounter", i) \in calls'[t] =>
                CallFor("ReleaseReadCounter", i) \in calls[t] \/ readSet[t][i].need_release,
         \A call \in calls'[t] : call.op = "ReleaseReadCounter" =>
           call \in calls[t] \/ txns'[t].status = "Aborted"
  PROVE  PinInv(t)' /\ SamePins(t)
<1>1. PinInv(t)'
  BY DEF PinInv
<1>2. SamePins(t)
  BY DEF SamePins, Pinned, Pins
<1> QED BY <1>1, <1>2


\* The requests that leave the read and write sets alone.
LEMMA RequestPins ==
  ASSUME TypeOK, OwnershipInv, NEW t \in Txn, PinInv(t),
         \/ Begin(t) \/ InitTxn(t) \/ InitTxnError(t) \/ Abort(t) \/ Commit(t)
         \/ ReadDataStore(t) \/ ReadDataStoreNext(t)
         \/ \E k \in Key, op \in {"Read", "Insert", "Upsert"} : CallReadOutside(t, op, k)
  PROVE  PinInv(t)' /\ SamePins(t)
<1> USE DEF Begin, InitTxn, InitTxnError, Abort, Commit, ReadDataStore, ReadDataStoreNext,
            CallReadOutside
<1>1. /\ operation[t] \in BeforeUpload
      /\ operation'[t] \in BeforeUpload \cup {"Upload", "UpdateTxnStatusToAbort"}
  BY DEF Moves, Requested, TypeOK, BeforeUpload
<1>2. \/ calls'[t] = calls[t]
      \/ calls'[t] = {CallFor("UploadVersion", i) : i \in DOMAIN writeSet[t]}
  BY DEF TypeOK
<1>3. readSet' = readSet /\ read_counter' = read_counter
  BY DEF localVars, Fails, dbVars, NewTxn
<1>4. request'[t] # NoKey => request[t] # NoKey \/ Len(readSet[t]) < MaxReads
  BY DEF TypeOK
<1>5. txns[t].status = "Ongoing" /\ t \notin Committed
  BY <1>1, BeforeDecision DEF BeforeUpload, AfterDecision
<1>6. txns'[t].status = "Ongoing"
  <2>1. txns \in [Txn -> TxnEntry]
    BY DEF TypeOK, DbTypeOK
  <2>2. txns' = txns \/ \E local_time \in Times : NewTxn(t, local_time)
    BY DEF Fails, dbVars
  <2> QED BY <1>5, <2>1, <2>2 DEF NewTxn
<1>7. \A i : /\ CallFor("UpdateReadEntryMaxCommitTs", i) \in calls'[t] =>
                  CallFor("UpdateReadEntryMaxCommitTs", i) \in calls[t]
             /\ CallFor("ReleaseReadCounter", i) \in calls'[t] =>
                  CallFor("ReleaseReadCounter", i) \in calls[t]
  BY <1>2 DEF CallFor
<1>8. t \notin Committed'
  BY <1>6 DEF Committed
<1>9. operation'[t] \notin AfterTimestamp /\ operation[t] \in BeforeTimestamp
  BY <1>1 DEF AfterTimestamp, BeforeTimestamp, BeforeUpload
<1>10. \A call \in calls'[t] : call.op = "ReleaseReadCounter" => call \in calls[t]
  BY <1>2 DEF CallFor
<1> QED BY <1>3, <1>4, <1>5, <1>7, <1>8, <1>9, <1>10, QuietPins

\* The steps from Upload to the decision that release nothing.
LEMMA CommitPathPins ==
  ASSUME TypeOK, OwnershipInv, NEW t \in Txn, SelfInv(t), PinInv(t), NEW i,
         \/ UploadVersionEntry(t, i) \/ UploadVersionEntryError(t, i)
         \/ UpdateReadEntryMaxCommitTsError(t, i)
         \/ \E u \in Txn : \/ PushConflictTxnCommitTsLowerBound(t, i, u)
                           \/ PushConflictTxnCommitTsLowerBoundError(t, i, u)
         \/ UploadNext(t) \/ ValidateNext(t) \/ WriteToLog(t) \/ SetCommitTsError(t)
         \/ UpdateTxnStatusToCommitError(t) \/ UpdateTxnStatusToAbortError(t)
  PROVE  PinInv(t)' /\ SamePins(t)
<1> USE DEF UploadVersionEntry, UploadVersionEntryError, UpdateReadEntryMaxCommitTsError,
            PushConflictTxnCommitTsLowerBound, PushConflictTxnCommitTsLowerBoundError,
            UploadNext, ValidateNext, WriteToLog, SetCommitTsError,
            UpdateTxnStatusToCommitError, UpdateTxnStatusToAbortError
<1>1. /\ readSet' = readSet /\ request' = request
      /\ calls'[t] \subseteq calls[t]
  BY DEF AbortFrom, Recover, Answered, localVars, TypeOK
<1>2. read_counter' = read_counter
  BY DEF UploadVersion, UpdateCommitLowerBound, Fails, dbVars
<1>3. txns'[t].status = txns[t].status
  <2>1. txns \in [Txn -> TxnEntry]
    BY DEF TypeOK, DbTypeOK
  <2>2. txns' = txns \/ \E u \in Txn : \E ts : UpdateCommitLowerBound(u, ts)
    BY DEF UploadVersion, Fails, dbVars
  <2> QED BY <2>1, <2>2 DEF UpdateCommitLowerBound, TxnEntry
<1>4. \/ \E j : CallFor("UploadVersion", j) \in calls[t] \/ CallFor("UpdateReadEntryMaxCommitTs", j) \in calls[t]
      \/ \E j, u : PushCall(j, u) \in calls[t]
      \/ operation[t] \in {"Upload", "SetCommitTs", "Validate", "WriteToLog",
                           "UpdateTxnStatusToCommit", "UpdateTxnStatusToAbort"}
  BY DEF AbortFrom, Recover, Moves
<1>5. operation[t] \in {"Upload", "SetCommitTs", "Validate", "WriteToLog",
                        "UpdateTxnStatusToCommit", "UpdateTxnStatusToAbort"}
  BY <1>4 DEF SelfInv, CallsMatch, CallFor, PushCall, ValidateCalls
<1>6. /\ operation'[t] \in BeforeTimestamp => operation[t] \in BeforeTimestamp
      /\ operation'[t] \in AfterTimestamp => operation[t] \in BeforeTimestamp \cup AfterTimestamp
  <2>1. \/ operation' = operation
        \/ operation'[t] \in {"UpdateTxnStatusToAbort", "Recover"}
        \/ operation[t] = "Upload"
        \/ operation[t] = "Validate" /\ operation'[t] = "WriteToLog"
        \/ operation[t] = "WriteToLog" /\ operation'[t] = "UpdateTxnStatusToCommit"
    BY DEF AbortFrom, Recover, Moves, TypeOK
  <2> QED BY <1>5, <2>1 DEF BeforeTimestamp, BeforeUpload, AfterTimestamp
<1>7. t \notin Committed /\ t \notin Committed'
  BY <1>3, <1>5, BeforeDecision DEF AfterDecision, Committed
<1> QED BY <1>1, <1>2, <1>3, <1>6, <1>7, QuietPins

\* SetCommitTs rereads what is not written; the clean-up of an abort releases what is left.
LEMMA SendReleasesPins ==
  ASSUME TypeOK, OwnershipInv, NEW t \in Txn, SelfInv(t), PinInv(t),
         SetCommitTs(t) \/ PostProcessingAfterAbortNext(t)
  PROVE  PinInv(t)' /\ SamePins(t)
<1>1. CASE SetCommitTs(t)
  <2>1. /\ operation[t] = "SetCommitTs" /\ operation'[t] = "Validate"
        /\ calls'[t] = RereadCalls(t) /\ readSet' = readSet /\ request' = request
        /\ read_counter' = read_counter
    BY <1>1 DEF SetCommitTs, Moves, localVars, SetCommitTimestamp, TypeOK
  <2>2. txns'[t].status = txns[t].status
    <3>1. txns \in [Txn -> TxnEntry]
      BY DEF TypeOK, DbTypeOK
    <3> QED BY <1>1, <3>1 DEF SetCommitTs, SetCommitTimestamp, TxnEntry
  <2>3. t \notin Committed /\ t \notin Committed'
    BY <2>1, <2>2, BeforeDecision DEF AfterDecision, Committed
  <2>4. operation[t] \in BeforeTimestamp /\ operation'[t] \notin BeforeTimestamp
    BY <2>1 DEF BeforeTimestamp, BeforeUpload
  <2>5. ASSUME NEW i \in DOMAIN readSet[t]
        PROVE  /\ CallFor("UpdateReadEntryMaxCommitTs", i) \in calls'[t] =>
                    readSet[t][i].need_release /\ ~ readSet[t][i].is_updated
               /\ CallFor("ReleaseReadCounter", i) \notin calls'[t]
    <3>1. readSet[t][i].need_release
      BY <2>4 DEF PinInv
    <3> QED BY <2>1, <3>1 DEF RereadCalls, CallFor
  <2>6. \A call \in calls'[t] : call.op # "ReleaseReadCounter"
    BY <2>1 DEF RereadCalls, CallFor
  <2> QED BY <2>1, <2>2, <2>3, <2>4, <2>5, <2>6, QuietPins
<1>2. CASE PostProcessingAfterAbortNext(t)
  <2>1. /\ operation[t] = "PostProcessingAfterAbort" /\ operation'[t] = "ReleaseReadCounter"
        /\ calls'[t] = {CallFor("ReleaseReadCounter", i) : i \in ReleaseIndex(t)}
        /\ readSet' = readSet /\ request' = request
        /\ read_counter' = read_counter /\ txns' = txns
    BY <1>2 DEF PostProcessingAfterAbortNext, Moves, localVars, dbVars, TypeOK
  <2>2. txns[t].status = "Aborted" /\ t \notin Committed /\ t \notin Committed'
    BY <2>1 DEF SelfInv, Outcome, Committed
  <2>3. operation'[t] \notin BeforeTimestamp \cup AfterTimestamp
    BY <2>1 DEF BeforeTimestamp, BeforeUpload, AfterTimestamp
  <2>4. ASSUME NEW i \in DOMAIN readSet[t]
        PROVE  /\ CallFor("UpdateReadEntryMaxCommitTs", i) \notin calls'[t]
               /\ CallFor("ReleaseReadCounter", i) \in calls'[t] => readSet[t][i].need_release
    BY <2>1 DEF ReleaseIndex, CallFor
  <2> QED BY <2>1, <2>2, <2>3, <2>4, QuietPins
<1> QED BY <1>1, <1>2

\* The other steps of an abort that release nothing.
LEMMA AbortPins ==
  ASSUME TypeOK, OwnershipInv, NEW t \in Txn, SelfInv(t), PinInv(t), NEW i,
         \/ i \in DOMAIN readSet[t] /\ ReleaseReadCounterForEachEntryError(t, i)
         \/ PostProcessingDeleteEntryAfterAbort(t, i)
         \/ PostProcessingDeleteEntryAfterAbortError(t, i)
         \/ UpdateTxnStatusToAbort(t) \/ ReleaseReadCounterNext(t)
  PROVE  PinInv(t)' /\ SamePins(t)
<1> USE DEF PostProcessingDeleteEntryAfterAbort, PostProcessingDeleteEntryAfterAbortError,
            UpdateTxnStatusToAbort, ReleaseReadCounterForEachEntryError, ReleaseReadCounterNext
<1>1. /\ readSet' = readSet /\ request' = request
      /\ \/ calls'[t] \subseteq calls[t]
         \/ calls'[t] = {CallFor("DeleteVersion", j) : j \in PostProcessIndex(t)}
  BY DEF Recover, Answered, localVars, TypeOK
<1>2. read_counter' = read_counter
  BY DEF DeleteVersion, UpdateTxnStatus, Fails, dbVars
<1>3. /\ txns[t].status # "Committed" /\ txns'[t].status # "Committed"
      /\ txns[t].status = "Aborted" => txns'[t].status = "Aborted"
  <2>1. CASE UpdateTxnStatusToAbort(t)
    <3>1. txns \in [Txn -> TxnEntry] /\ operation[t] \notin AfterDecision
      BY <2>1 DEF TypeOK, DbTypeOK, Moves, AfterDecision
    <3> QED BY <2>1, <3>1, BeforeDecision DEF UpdateTxnStatus, TxnEntry
  <2>2. CASE ~ UpdateTxnStatusToAbort(t)
    <3>1. txns' = txns
      BY <2>2 DEF DeleteVersion, Fails, dbVars
    <3>2. CASE CallFor("DeleteVersion", i) \in calls[t]
      BY <3>1, <3>2 DEF OwnershipInv, DeletesUploaded, CallFor
    <3>3. CASE i \in DOMAIN readSet[t] /\ ReleaseReadCounterForEachEntryError(t, i)
      BY <3>1, <3>3 DEF PinInv, CallFor
    <3>4. CASE operation[t] = "ReleaseReadCounter"
      BY <3>1, <3>4 DEF SelfInv, Outcome
    <3> QED BY <2>2, <3>2, <3>3, <3>4 DEF Moves
  <2> QED BY <2>1, <2>2
<1>4. t \notin Committed /\ t \notin Committed'
  BY <1>3 DEF Committed
<1>5. \/ operation'[t] = operation[t]
      \/ operation'[t] \in {"PostProcessingAfterAbort", "Finished", "Recover"}
  BY DEF Recover, Moves, TypeOK
<1>6. \A j : /\ CallFor("UpdateReadEntryMaxCommitTs", j) \in calls'[t] =>
                  CallFor("UpdateReadEntryMaxCommitTs", j) \in calls[t]
             /\ CallFor("ReleaseReadCounter", j) \in calls'[t] =>
                  CallFor("ReleaseReadCounter", j) \in calls[t]
  BY <1>1 DEF CallFor
<1>7. /\ operation'[t] \in BeforeTimestamp => operation[t] \in BeforeTimestamp
      /\ operation'[t] \in AfterTimestamp => operation[t] \in AfterTimestamp
  BY <1>5 DEF BeforeTimestamp, BeforeUpload, AfterTimestamp
<1>8. \A call \in calls'[t] : call.op = "ReleaseReadCounter" => call \in calls[t]
  BY <1>1 DEF CallFor
<1> QED BY <1>1, <1>2, <1>3, <1>4, <1>6, <1>7, <1>8, QuietPins


-----------------------------------------------------------------------------
(* Reads are counted.                                                      *)

\* rs is the read set of t but for its marks, and nothing else counts.
LEMMA QueuedPins ==
  ASSUME TypeOK, OwnershipInv, NEW t \in Txn, SelfInv(t), PinInv(t),
         operation[t] \in BeforeUpload, operation'[t] \in BeforeUpload,
         calls' = calls, txns' = txns, read_counter' = read_counter,
         request'[t] \in {NoKey, request[t]},
         DOMAIN readSet'[t] = DOMAIN readSet[t], readSet'[t] \in Seq(ReadSetEntry),
         \A i \in DOMAIN readSet[t] :
           /\ readSet'[t][i].key = readSet[t][i].key
           /\ readSet'[t][i].need_release = readSet[t][i].need_release
  PROVE  PinInv(t)' /\ SamePins(t)
<1>1. txns[t].status = "Ongoing" /\ t \notin Committed
  BY BeforeDecision DEF BeforeUpload, AfterDecision
<1>2. t \notin Committed'
  BY <1>1 DEF Committed
<1>3. Len(readSet'[t]) = Len(readSet[t])
  BY Entries, LenProperties
<1>4. \A call \in calls[t] : call.op # "UpdateReadEntryMaxCommitTs" /\ call.op # "ReleaseReadCounter"
  BY <1>1 DEF SelfInv, CallsMatch, ValidateCalls, PinInv, BeforeUpload
<1>5. \A i : /\ CallFor("UpdateReadEntryMaxCommitTs", i) \notin calls'[t]
             /\ CallFor("ReleaseReadCounter", i) \notin calls'[t]
  BY <1>4 DEF CallFor
<1>6. operation[t] \in BeforeTimestamp /\ operation'[t] \notin AfterTimestamp
  BY DEF BeforeTimestamp, BeforeUpload, AfterTimestamp
<1>7. PinInv(t)'
  BY <1>2, <1>3, <1>4, <1>5, <1>6 DEF PinInv
<1>8. SamePins(t)
  BY <1>1, <1>2 DEF SamePins, Pinned, Pins
<1> QED BY <1>7, <1>8

\* Update and Delete, and a read that fails.
LEMMA QueuePins ==
  ASSUME TypeOK, TypeOK', OwnershipInv, NEW t \in Txn, SelfInv(t), PinInv(t),
         ReadOutsideError(t) \/ \E k \in Key : Update(t, k) \/ Delete(t, k)
  PROVE  PinInv(t)' /\ SamePins(t)
<1>1. /\ operation[t] \in BeforeUpload /\ operation'[t] \in BeforeUpload
      /\ calls' = calls /\ txns' = txns /\ read_counter' = read_counter
      /\ request'[t] \in {NoKey, request[t]}
  <2>1. CASE ReadOutsideError(t)
    BY <2>1 DEF ReadOutsideError, ReadOutsideNext, ReadNext, InsertNext, UpsertNext,
                TypeOK, Fails, dbVars, BeforeUpload
  <2>2. CASE \E k \in Key : Update(t, k) \/ Delete(t, k)
    BY <2>2 DEF Update, Delete, Requested, dbVars, BeforeUpload
  <2> QED BY <2>1, <2>2
<1>2. readSet[t] \in Seq(ReadSetEntry) /\ readSet'[t] \in Seq(ReadSetEntry)
  BY DEF TypeOK
<1>3. /\ DOMAIN readSet'[t] = DOMAIN readSet[t]
      /\ \A i \in DOMAIN readSet[t] :
           /\ readSet'[t][i].key = readSet[t][i].key
           /\ readSet'[t][i].need_release = readSet[t][i].need_release
  <2>1. \/ readSet'[t] = readSet[t]
        \/ \E i \in DOMAIN readSet[t] : \E d \in BOOLEAN : InsertWriteSet(t, readSet[t], i, d)
    <3>1. TRUE \in BOOLEAN /\ FALSE \in BOOLEAN
      OBVIOUS
    <3>2. CASE ReadOutsideError(t)
      BY <3>1, <3>2 DEF ReadOutsideError, ReadOutsideNext, ReadNext, InsertNext, UpsertNext,
                        OnlyRead, TypeOK
    <3>3. CASE \E k \in Key : Update(t, k) \/ Delete(t, k)
      BY <3>1, <3>3 DEF Update, Delete, DeleteReadVersion, DeleteQueuedWrite, localVars
    <3> QED BY <3>2, <3>3
  <2>2. ASSUME NEW i \in DOMAIN readSet[t], NEW d \in BOOLEAN, InsertWriteSet(t, readSet[t], i, d)
        PROVE  Queued(t, readSet[t], i)
    BY <1>2, <2>2, InsertWriteSetEffect
  <2> QED BY <2>1, <2>2 DEF Queued
<1> QED BY <1>1, <1>2, <1>3, QueuedPins

\* What a read that succeeds leaves in the read set.
LEMMA ReadOutsideReads ==
  ASSUME TypeOK, TypeOK', NEW t \in Txn, ReadOutside(t)
  PROVE  /\ Len(readSet[t]) \in Nat /\ DOMAIN readSet[t] = 1 .. Len(readSet[t])
         /\ Len(readSet'[t]) = Len(readSet[t]) + 1
         /\ DOMAIN readSet'[t] = 1 .. Len(readSet[t]) + 1
         /\ \A i \in DOMAIN readSet[t] :
              /\ readSet'[t][i].key = readSet[t][i].key
              /\ readSet'[t][i].need_release = readSet[t][i].need_release
         /\ readSet'[t][Len(readSet[t]) + 1].key = request[t]
         /\ readSet'[t][Len(readSet[t]) + 1].need_release
<1>1. PICK e \in ReadSetEntry :
        /\ e.need_release /\ e.key = request[t]
        /\ ReadOutsideNext(t, Append(readSet[t], e), FALSE)
  BY ReadOutsideAppends
<1> DEFINE rs == Append(readSet[t], e)
           n == Len(readSet[t])
<1>2. /\ rs \in Seq(ReadSetEntry) /\ n \in Nat /\ DOMAIN readSet[t] = 1 .. n
      /\ Len(rs) = n + 1 /\ DOMAIN rs = 1 .. n + 1
      /\ \A i \in 1 .. n : rs[i] = readSet[t][i]
      /\ rs[n + 1] = e
  <2>1. readSet[t] \in Seq(ReadSetEntry)
    BY DEF TypeOK
  <2>2. /\ rs \in Seq(ReadSetEntry) /\ n \in Nat /\ DOMAIN readSet[t] = 1 .. n /\ Len(rs) = n + 1
        /\ \A i \in 1 .. n : rs[i] = readSet[t][i]
        /\ rs[n + 1] = e
    BY <2>1, AppendProperties, LenProperties
  <2> QED BY <2>2, LenProperties
<1>3. /\ DOMAIN readSet'[t] = DOMAIN rs
      /\ \A i \in DOMAIN rs : /\ readSet'[t][i].key = rs[i].key
                              /\ readSet'[t][i].need_release = rs[i].need_release
  <2>1. ReadOutsideNext(t, rs, FALSE) /\ FALSE \in BOOLEAN
    BY <1>1
  <2> HIDE DEF rs
  <2>2. readSet'[t] = rs \/ \E i \in DOMAIN rs : InsertWriteSet(t, rs, i, FALSE)
    BY <2>1 DEF ReadOutsideNext, ReadNext, InsertNext, UpsertNext, OnlyRead, TypeOK
  <2>3. ASSUME NEW i \in DOMAIN rs, InsertWriteSet(t, rs, i, FALSE)
        PROVE  Queued(t, rs, i)
    BY <1>2, <2>3, InsertWriteSetEffect
  <2> QED BY <2>2, <2>3 DEF Queued
<1>4. Len(readSet'[t]) = n + 1
  <2>1. readSet'[t] \in Seq(ReadSetEntry)
    BY DEF TypeOK
  <2>2. DOMAIN readSet'[t] = 1 .. Len(readSet'[t]) /\ Len(readSet'[t]) \in Nat
    BY <2>1, LenProperties
  <2> HIDE DEF rs, n
  <2> QED BY <1>2, <1>3, <2>2
<1> HIDE DEF rs, n
<1>5. /\ DOMAIN readSet'[t] = 1 .. n + 1
      /\ \A i \in DOMAIN readSet[t] :
           /\ readSet'[t][i].key = readSet[t][i].key
           /\ readSet'[t][i].need_release = readSet[t][i].need_release
      /\ readSet'[t][n + 1].key = e.key /\ readSet'[t][n + 1].need_release = e.need_release
  BY <1>2, <1>3
<1> QED BY <1>1, <1>2, <1>4, <1>5 DEF n

\* A read that succeeds is counted.
LEMMA ReadPins ==
  ASSUME TypeOK, TypeOK', OwnershipInv, NEW t \in Txn, SelfInv(t), PinInv(t), ReadOutside(t)
  PROVE  PinInv(t)' /\ CountsPins(t)
<1> PICK n : n = Len(readSet[t])
  OBVIOUS
<1> PICK k : k = request[t]
  OBVIOUS
<1>1. /\ n \in Nat /\ DOMAIN readSet[t] = 1 .. n
      /\ Len(readSet'[t]) = n + 1
      /\ DOMAIN readSet'[t] = 1 .. n + 1
      /\ \A i \in DOMAIN readSet[t] :
           /\ readSet'[t][i].key = readSet[t][i].key
           /\ readSet'[t][i].need_release = readSet[t][i].need_release
      /\ readSet'[t][n + 1].key = k
      /\ readSet'[t][n + 1].need_release
  BY ReadOutsideReads
<1>2. /\ operation[t] \in BeforeUpload /\ operation'[t] = "Idle"
      /\ calls' = calls /\ txns' = txns /\ request[t] # NoKey /\ request'[t] = NoKey
      /\ read_counter' = [read_counter EXCEPT ![k] = read_counter[k] + 1]
  BY DEF ReadOutside, ReadOutsideNext, ReadNext, InsertNext, UpsertNext, TypeOK, GetVersionList,
         BeforeUpload
<1>3. k \in Key /\ n < MaxReads
  BY <1>2 DEF TypeOK, PinInv
<1>4. txns[t].status = "Ongoing" /\ t \notin Committed /\ t \notin Committed'
  BY <1>2, BeforeDecision DEF BeforeUpload, AfterDecision, Committed
<1>5. \A call \in calls[t] : call.op # "UpdateReadEntryMaxCommitTs" /\ call.op # "ReleaseReadCounter"
  BY <1>2, <1>4 DEF SelfInv, CallsMatch, ValidateCalls, PinInv, BeforeUpload
<1>6. \A i : /\ CallFor("UpdateReadEntryMaxCommitTs", i) \notin calls'[t]
             /\ CallFor("ReleaseReadCounter", i) \notin calls'[t]
  BY <1>2, <1>5 DEF CallFor
<1>7. operation[t] \in BeforeTimestamp /\ operation'[t] \notin AfterTimestamp
  BY <1>2 DEF BeforeTimestamp, BeforeUpload, AfterTimestamp
<1>8. n + 1 \in 1 .. MaxReads
  BY <1>1, <1>3, TransactionExecutionAssumption
<1>9. \A i \in DOMAIN readSet'[t] : readSet'[t][i].need_release
  BY <1>1, <1>7 DEF PinInv
<1>10. PinInv(t)'
  BY <1>1, <1>2, <1>4, <1>5, <1>6, <1>7, <1>8, <1>9 DEF PinInv
<1>11. AddsPin(t, n + 1, k)
  <2>1. ~ Pinned(t, n + 1, k) /\ Pinned(t, n + 1, k)'
    BY <1>1, <1>4 DEF Pinned, Pins
  <2>2. \A l \in Key : \A m : l # k \/ m # n + 1 => (Pinned(t, m, l)' <=> Pinned(t, m, l))
    <3>1. \A m : m \in DOMAIN readSet'[t] <=> m \in DOMAIN readSet[t] \/ m = n + 1
      BY <1>1
    <3>2. n + 1 \notin DOMAIN readSet[t]
      BY <1>1
    <3> QED BY <1>1, <1>4, <3>1, <3>2 DEF Pinned, Pins
  <2> QED BY <1>2, <2>1, <2>2 DEF AddsPin
<1> QED BY <1>3, <1>8, <1>10, <1>11 DEF CountsPins

-----------------------------------------------------------------------------
(* Reads are released.                                                     *)

\* A release before the commit.
LEMMA ReleasedPins ==
  ASSUME TypeOK, NEW t \in Txn, PinInv(t), NEW i \in DOMAIN readSet[t], readSet[t][i].need_release,
         t \notin Committed, txns' = txns, Released(t, i),
         read_counter' = [read_counter EXCEPT ![readSet[t][i].key] = @ - 1],
         operation' = operation, request' = request,
         operation[t] \notin BeforeTimestamp,
         operation[t] \in AfterTimestamp => ~ readSet[t][i].is_updated,
         CallFor("UpdateReadEntryMaxCommitTs", i) \notin calls'[t],
         CallFor("ReleaseReadCounter", i) \notin calls'[t],
         \A call \in calls'[t] : call \in calls[t] \/ call.op = "PushConflict"
  PROVE  PinInv(t)' /\ CountsPins(t)
<1> DEFINE r == [readSet[t][i] EXCEPT !.need_release = FALSE]
<1> PICK k : k = readSet[t][i].key
  OBVIOUS
<1>1. readSet'[t] = [readSet[t] EXCEPT ![i] = r]
  BY DEF TypeOK, Released
<1>2. readSet[t][i] \in ReadSetEntry /\ readSet[t] \in Seq(ReadSetEntry)
  BY Entries
<1>3. r \in ReadSetEntry /\ r.key = k /\ r.is_updated = readSet[t][i].is_updated /\ r.need_release = FALSE
  BY <1>2 DEF ReadSetEntry
<1>4. k \in Key
  BY <1>2 DEF ReadSetEntry
<1> HIDE DEF r
<1>5. /\ DOMAIN readSet'[t] = DOMAIN readSet[t]
      /\ \A l \in DOMAIN readSet[t] : l # i => readSet'[t][l] = readSet[t][l]
      /\ readSet'[t][i] = r
  BY <1>1
<1>6. readSet'[t] \in Seq(ReadSetEntry)
  BY <1>1, <1>2, <1>3, ExceptSeq
<1>7. Len(readSet'[t]) = Len(readSet[t])
  BY <1>2, <1>5, <1>6, LenProperties
<1>8. t \notin Committed'
  BY DEF Committed
<1>9. \A op \in {"UpdateReadEntryMaxCommitTs", "ReleaseReadCounter"} : \A l :
        CallFor(op, l) \in calls'[t] => CallFor(op, l) \in calls[t]
  BY DEF CallFor
<1>10. \A call \in calls'[t] : call.op = "ReleaseReadCounter" => call \in calls[t]
  OBVIOUS
<1>11. PinInv(t)'
  BY <1>3, <1>5, <1>7, <1>8, <1>9, <1>10 DEF PinInv
<1>12. DropsPin(t, i, k)
  <2>1. Pinned(t, i, k) /\ ~ Pinned(t, i, k)'
    BY <1>3, <1>5, <1>8 DEF Pinned, Pins
  <2>2. \A l \in Key : \A m : l # k \/ m # i => (Pinned(t, m, l)' <=> Pinned(t, m, l))
    BY <1>3, <1>5, <1>8 DEF Pinned, Pins
  <2> QED BY <2>1, <2>2 DEF DropsPin
<1> QED BY <1>4, <1>11, <1>12, ReadIndex DEF CountsPins

\* The release of a reread and that of the clean-up of an abort.
LEMMA ReleasePins ==
  ASSUME TypeOK, OwnershipInv, NEW t \in Txn, SelfInv(t), PinInv(t), NEW i \in DOMAIN readSet[t],
         UpdateReadEntryMaxCommitTs(t, i) \/ ReleaseReadCounterForEachEntry(t, i)
  PROVE  PinInv(t)' /\ CountsPins(t)
<1>1. /\ txns' = txns /\ Released(t, i) /\ operation' = operation /\ request' = request
      /\ read_counter' = [read_counter EXCEPT ![readSet[t][i].key] = @ - 1]
  BY DEF UpdateReadEntryMaxCommitTs, ReleaseReadCounterForEachEntry,
         UpdateMaxCommitTsAndReread, ReleaseReadCounter
<1> DEFINE reread  == CallFor("UpdateReadEntryMaxCommitTs", i)
           release == CallFor("ReleaseReadCounter", i)
<1>2. reread # release /\ reread.op = "UpdateReadEntryMaxCommitTs" /\ release.op = "ReleaseReadCounter"
  BY DEF CallFor
<1>3. /\ reread \in calls[t] => operation[t] = "Validate" /\ txns[t].status = "Ongoing"
      /\ release \in calls[t] => txns[t].status = "Aborted"
  <2>1. reread \in calls[t] => operation[t] = "Validate"
    BY <1>2 DEF SelfInv, CallsMatch, ValidateCalls
  <2> QED BY <1>2, <2>1, BeforeDecision DEF PinInv, AfterDecision
<1>4. CASE UpdateReadEntryMaxCommitTs(t, i)
  <2>1. /\ reread \in calls[t]
        /\ \/ calls'[t] = calls[t] \ {reread}
           \/ \E u : calls'[t] = (calls[t] \ {reread}) \cup {PushCall(i, u)}
    BY <1>4 DEF UpdateReadEntryMaxCommitTs, Answered, TypeOK
  <2>2. \A u : PushCall(i, u).op = "PushConflict"
    BY DEF PushCall
  <2>3. /\ \A call \in calls'[t] : call \in calls[t] \/ call.op = "PushConflict"
        /\ reread \notin calls'[t] /\ release \notin calls'[t]
    BY <1>2, <1>3, <2>1, <2>2
  <2>4. readSet[t][i].need_release /\ ~ readSet[t][i].is_updated
    BY <2>1 DEF PinInv
  <2>5. t \notin Committed /\ operation[t] \notin BeforeTimestamp
    BY <1>3, <2>1 DEF Committed, BeforeTimestamp, BeforeUpload
  <2> QED BY <1>1, <2>3, <2>4, <2>5, ReleasedPins
<1>5. CASE ReleaseReadCounterForEachEntry(t, i)
  <2>1. release \in calls[t] /\ calls'[t] = calls[t] \ {release}
    BY <1>5 DEF ReleaseReadCounterForEachEntry, Answered, TypeOK
  <2>2. reread \notin calls'[t] /\ release \notin calls'[t]
    BY <1>3, <2>1
  <2>3. readSet[t][i].need_release /\ t \notin Committed
    BY <1>3, <2>1 DEF PinInv, Committed
  <2>4. operation[t] \notin BeforeTimestamp \cup AfterTimestamp
    <3>1. operation[t] \in AfterDecision
      BY <1>3, <2>1, BeforeDecision
    <3> QED BY <3>1 DEF AfterDecision, BeforeTimestamp, BeforeUpload, AfterTimestamp
  <2> QED BY <1>1, <2>1, <2>2, <2>3, <2>4, ReleasedPins
<1> QED BY <1>4, <1>5


\* A committed transaction supersedes each read once: otherwise it would hold one
\* version twice.
LEMMA OneWriteOfARead ==
  ASSUME TypeOK, OwnershipInv, NEW t \in Txn, SelfInv(t), t \in Committed,
         NEW i \in DOMAIN writeSet[t], NEW j \in DOMAIN writeSet[t],
         writeSet[t][i].read_entry = writeSet[t][j].read_entry
  PROVE  i = j
<1>1. Holds(t, i) /\ Holds(t, j)
  BY DEF OwnershipInv, AllUploaded, Holds, Committed
<1>2. writeSet[t][i].version \in Int /\ writeSet[t][j].version \in Int
  <2>1. writeSet[t][i] \in WriteSetEntry /\ writeSet[t][j] \in WriteSetEntry
    BY Entries
  <2> QED BY <2>1, VersionDbAssumption DEF WriteSetEntry
<1>3. writeSet[t][i].version - 1 = writeSet[t][j].version - 1 /\ writeSet[t][i].key = writeSet[t][j].key
  BY DEF SelfInv, SetsLinked
<1>4. writeSet[t][i].version = writeSet[t][j].version
  BY <1>2, <1>3
<1> QED BY <1>1, <1>3, <1>4 DEF OwnershipInv, HeldOnce

\* With the decision to commit every superseded version waits to be closed.
LEMMA DecideCommitPins ==
  ASSUME TypeOK, OwnershipInv, NEW t \in Txn, SelfInv(t), PinInv(t), UpdateTxnStatusToCommit(t)
  PROVE  PinInv(t)' /\ SamePins(t)
<1>1. /\ operation[t] = "UpdateTxnStatusToCommit"
      /\ operation'[t] = "PostProcessingAfterCommit"
      /\ calls'[t] = {CallFor("CommitNew", i) : i \in PostProcessIndex(t)}
                       \cup {CallFor("ClosePrev", i) : i \in PostProcessIndex(t)}
      /\ readSet' = readSet /\ writeSet' = writeSet /\ request' = request
      /\ read_counter' = read_counter
  BY DEF UpdateTxnStatusToCommit, UpdateTxnStatus, Moves, TypeOK, localVars
<1>2. PostProcessIndex(t) = DOMAIN writeSet[t]
  BY <1>1 DEF OwnershipInv, AllUploaded, PostProcessIndex
<1>3. t \notin Committed
  BY <1>1, BeforeDecision DEF AfterDecision
<1>4. \A j \in DOMAIN writeSet[t] : CallFor("ClosePrev", j) \in calls'[t]
  BY <1>1, <1>2
<1>5. /\ \A call \in calls'[t] : call.op # "ReleaseReadCounter"
      /\ \A i : /\ CallFor("UpdateReadEntryMaxCommitTs", i) \notin calls'[t]
                /\ CallFor("ReleaseReadCounter", i) \notin calls'[t]
                /\ CallFor("ClosePrevFailed", i) \notin calls'[t]
  <2>1. \A call \in calls'[t] : call.op \in {"CommitNew", "ClosePrev"}
    BY <1>1 DEF CallFor
  <2> QED BY <2>1 DEF CallFor
<1>6. operation'[t] \notin BeforeTimestamp \cup AfterTimestamp
  BY <1>1 DEF BeforeTimestamp, BeforeUpload, AfterTimestamp
<1>7. \A j \in DOMAIN writeSet[t] : readSet[t][writeSet[t][j].read_entry].need_release
  BY <1>1 DEF SelfInv, SetsLinked, PinInv, AfterTimestamp
<1>8. PinInv(t)'
  BY <1>1, <1>5, <1>6, <1>7 DEF PinInv
<1>9. SamePins(t)
  BY <1>1, <1>3, <1>4 DEF SamePins, Pinned, Pins
<1> QED BY <1>8, <1>9

\* The end of the post-processing.
LEMMA EndPins ==
  ASSUME TypeOK, NEW t \in Txn, PinInv(t), PostProcessingAfterCommitNext(t)
  PROVE  PinInv(t)' /\ SamePins(t)
<1>1. /\ operation'[t] = "Finished" /\ UNCHANGED <<dbVars, calls, request, localVars>>
  BY DEF PostProcessingAfterCommitNext, Moves, TypeOK
<1>2. PinInv(t)'
  BY <1>1 DEF PinInv, NotClosed, Committed, dbVars, localVars, BeforeTimestamp, BeforeUpload,
              AfterTimestamp
<1>3. SamePins(t)
  BY <1>1 DEF SamePins, Pinned, Pins, Committed, dbVars, localVars
<1> QED BY <1>2, <1>3

\* What the answer to one half of CommitVersion does to the reads.
LEMMA CommitEntryReads ==
  ASSUME TypeOK, NEW t \in Txn, SetsLinked(t), NEW i \in DOMAIN writeSet[t],
         NEW half \in CommitHalf, NEW is_error \in BOOLEAN,
         CommitEntryAnswered(t, i, half, is_error), NEW l, l = writeSet[t][i].read_entry
  PROVE  /\ \A m \in DOMAIN readSet[t] : m # l => readSet'[t][m] = readSet[t][m]
         /\ NotClosed(t, i)' /\ readSet[t][l].need_release => readSet'[t][l].need_release
         /\ \A j \in DOMAIN writeSet[t] : j # i => (NotClosed(t, j)' <=> NotClosed(t, j))
<1> DEFINE rest == (calls[t] \ {CallFor(half, i)})
                     \cup (IF is_error THEN {CallFor(Failed(half), i)} ELSE {})
           done == /\ CallFor(OtherHalf(half), i) \notin rest
                   /\ ~ \E h \in CommitHalf : CallFor(Failed(h), i) \in rest
           b == readSet[t][l].need_release /\ ~ done
           r == [readSet[t][l] EXCEPT !.need_release = b]
<1>1. /\ calls'[t] = rest
      /\ readSet' = [readSet EXCEPT ![t][l].need_release = b]
  BY DEF CommitEntryAnswered, TypeOK
<1>2. l \in DOMAIN readSet[t]
  BY DEF SetsLinked
<1>3. readSet[t][l] \in ReadSetEntry
  BY <1>2, Entries
<1>4. readSet'[t] = [readSet[t] EXCEPT ![l] = r]
  BY <1>1 DEF TypeOK
<1>5. r.need_release = b
  BY <1>3 DEF ReadSetEntry
<1>6. done => ~ NotClosed(t, i)'
  <2>1. Failed("CommitNew") = "CommitNewFailed" /\ Failed("ClosePrev") = "ClosePrevFailed"
    BY DEF Failed
  <2>2. CallFor("ClosePrev", i) # CallFor("ClosePrevFailed", i)
    BY DEF CallFor
  <2>3. CASE half = "CommitNew"
    BY <1>1, <2>1, <2>3 DEF NotClosed, OtherHalf, CommitHalf
  <2>4. CASE half = "ClosePrev"
    BY <1>1, <2>1, <2>2, <2>4 DEF NotClosed, CommitHalf
  <2> QED BY <2>3, <2>4 DEF CommitHalf
<1>7. \A j \in DOMAIN writeSet[t] : j # i => (NotClosed(t, j)' <=> NotClosed(t, j))
  BY <1>1 DEF NotClosed, CallFor
<1> HIDE DEF r, rest, done
<1> QED BY <1>2, <1>4, <1>5, <1>6, <1>7

\* The answers to the two halves: the one that closes the superseded version releases
\* its read.
LEMMA CommitEntryPins ==
  ASSUME TypeOK, TypeOK', OwnershipInv, NEW t \in Txn, SelfInv(t), PinInv(t),
         NEW i \in DOMAIN writeSet[t],
         \/ PostProcessingCommitNew(t, i) \/ PostProcessingClosePrev(t, i)
         \/ PostProcessingCommitEntryError(t, i)
  PROVE  PinInv(t)' /\ CountsPins(t)
<1>1. PICK half \in CommitHalf, is_error \in BOOLEAN :
        /\ CommitEntryAnswered(t, i, half, is_error) /\ CallFor(half, i) \in calls[t]
        /\ \/ half = "ClosePrev" /\ ~ is_error /\ PostProcessingClosePrev(t, i)
           \/ (half = "CommitNew" \/ is_error) /\ read_counter' = read_counter
  BY DEF PostProcessingCommitNew, PostProcessingClosePrev, PostProcessingCommitEntryError,
         CommitHalf, CommitNewVersion, dbVars
<1>2. txns' = txns /\ request' = request /\ writeSet' = writeSet
  BY <1>1 DEF PostProcessingCommitNew, PostProcessingClosePrev, PostProcessingCommitEntryError,
              CommitNewVersion, ClosePrevVersion, dbVars, CommitEntryAnswered
<1>3. /\ CallFor(half, i).op \in CommitCalls /\ CallFor(Failed(half), i).op \in CommitCalls
  BY DEF CallFor, CommitHalf, CommitCalls, Failed
<1>4. /\ t \in Committed /\ operation[t] \in {"PostProcessingAfterCommit", "Recover"}
  BY <1>1, <1>3, DecidedWithCalls DEF SelfInv, CallsMatch
<1>5. t \in Committed'
  BY <1>2, <1>4 DEF Committed
<1> PICK l : l = writeSet[t][i].read_entry
  OBVIOUS
<1>6. SetsLinked(t) /\ l \in DOMAIN readSet[t] /\ readSet[t][l].key = writeSet[t][i].key
  BY DEF SelfInv, SetsLinked
<1>7. /\ \A m \in DOMAIN readSet[t] : m # l => readSet'[t][m] = readSet[t][m]
      /\ NotClosed(t, i)' /\ readSet[t][l].need_release => readSet'[t][l].need_release
      /\ \A j \in DOMAIN writeSet[t] : j # i => (NotClosed(t, j)' <=> NotClosed(t, j))
  BY <1>1, <1>6, CommitEntryReads
<1>8. SetsKept(t)
  BY <1>1, CommitEntryKeepsSets
<1>9. /\ operation'[t] \in {"PostProcessingAfterCommit", "Recover"}
      /\ \A call \in calls'[t] : call \in calls[t] \/ call = CallFor(Failed(half), i)
  BY <1>1, <1>4, <1>6, CommitEntryEffect
<1>10. \A j \in DOMAIN writeSet[t] : writeSet[t][j].read_entry = l => j = i
  BY <1>4, OneWriteOfARead
<1>11. Len(readSet'[t]) = Len(readSet[t])
  <2>1. readSet'[t] \in Seq(ReadSetEntry) /\ readSet[t] \in Seq(ReadSetEntry)
    BY DEF TypeOK
  <2> QED BY <1>8, <2>1, LenProperties DEF SetsKept
<1>12. \A op \in {"UpdateReadEntryMaxCommitTs", "ReleaseReadCounter"} : \A m :
         CallFor(op, m) \notin calls'[t]
  <2>1. \A call \in calls[t] : call.op \notin {"UpdateReadEntryMaxCommitTs", "ReleaseReadCounter"}
    BY <1>4 DEF SelfInv, CallsMatch, ValidateCalls, PinInv, Committed
  <2>2. \A call \in calls'[t] : call.op \notin {"UpdateReadEntryMaxCommitTs", "ReleaseReadCounter"}
    BY <1>3, <1>9, <2>1 DEF CommitCalls
  <2> QED BY <2>2 DEF CallFor
<1>13. \A call \in calls'[t] : call.op = "ReleaseReadCounter" => txns[t].status = "Aborted"
  BY <1>3, <1>9 DEF PinInv, CommitCalls
<1>14. /\ NotClosed(t, i) /\ half = "ClosePrev" /\ ~ is_error => ~ NotClosed(t, i)'
       /\ half = "CommitNew" \/ is_error => (NotClosed(t, i)' <=> NotClosed(t, i))
       /\ half = "ClosePrev" => NotClosed(t, i)
       /\ ~ {CallFor("ClosePrev", i), CallFor("ClosePrevFailed", i)} \subseteq calls'[t]
  <2> DEFINE rest == (calls[t] \ {CallFor(half, i)})
                       \cup (IF is_error THEN {CallFor(Failed(half), i)} ELSE {})
  <2>1. calls'[t] = rest
    BY <1>1 DEF CommitEntryAnswered, TypeOK
  <2>2. \A a, c : a # c => CallFor(a, i) # CallFor(c, i)
    BY DEF CallFor
  <2>3. ~ {CallFor("ClosePrev", i), CallFor("ClosePrevFailed", i)} \subseteq calls[t]
    BY <1>4 DEF PinInv
  <2>4. CASE half = "CommitNew"
    BY <2>1, <2>2, <2>3, <2>4 DEF NotClosed, Failed
  <2>5. CASE half = "ClosePrev"
    BY <1>1, <2>1, <2>2, <2>3, <2>5 DEF NotClosed, Failed
  <2> QED BY <2>4, <2>5 DEF CommitHalf
<1>15. \A j \in DOMAIN writeSet[t] : j # i =>
         ~ {CallFor("ClosePrev", j), CallFor("ClosePrevFailed", j)} \subseteq calls'[t]
  <2>1. \A j, op : j # i => CallFor(op, j) # CallFor(Failed(half), i)
    BY DEF CallFor
  <2> QED BY <1>4, <1>9, <2>1 DEF PinInv
<1>16. NotClosed(t, i) => readSet[t][l].need_release
  BY <1>4 DEF PinInv
<1>17. NotClosed(t, i)' => readSet'[t][l].need_release
  BY <1>1, <1>7, <1>14, <1>16 DEF CommitHalf
<1>18. ASSUME NEW j \in DOMAIN writeSet[t], j # i, NotClosed(t, j)'
       PROVE  readSet'[t][writeSet[t][j].read_entry].need_release
  <2>1. writeSet[t][j].read_entry \in DOMAIN readSet[t] /\ writeSet[t][j].read_entry # l
    BY <1>10, <1>18 DEF SelfInv, SetsLinked
  <2>2. readSet[t][writeSet[t][j].read_entry].need_release
    BY <1>4, <1>7, <1>18 DEF PinInv
  <2> QED BY <1>7, <2>1, <2>2
<1>19. operation'[t] \notin BeforeTimestamp \cup AfterTimestamp
  BY <1>9 DEF BeforeTimestamp, BeforeUpload, AfterTimestamp
<1>20. PinInv(t)'
  BY <1>2, <1>5, <1>8, <1>11, <1>12, <1>13, <1>14, <1>15, <1>17, <1>18, <1>19 DEF PinInv, SetsKept
<1>21. /\ Pins(t, l) <=> NotClosed(t, i)
       /\ Pins(t, l)' <=> NotClosed(t, i)'
       /\ \A m \in DOMAIN readSet[t] : m # l => (Pins(t, m)' <=> Pins(t, m))
  <2>1. Pins(t, l) <=> NotClosed(t, i)
    BY <1>4, <1>10, <1>16 DEF Pins, NotClosed
  <2>2. Pins(t, l)' <=> NotClosed(t, i)'
    BY <1>2, <1>5, <1>10, <1>17 DEF Pins, NotClosed
  <2>3. ASSUME NEW m \in DOMAIN readSet[t], m # l PROVE Pins(t, m)' <=> Pins(t, m)
    <3>1. readSet'[t][m] = readSet[t][m]
      BY <1>7, <2>3
    <3>2. \A j \in DOMAIN writeSet[t] : writeSet[t][j].read_entry = m => j # i
      BY <2>3
    <3> QED BY <1>2, <1>4, <1>5, <1>7, <3>1, <3>2 DEF Pins, NotClosed
  <2> QED BY <2>1, <2>2, <2>3
<1>22. CASE half = "CommitNew" \/ is_error
  <2>1. read_counter' = read_counter
    BY <1>1, <1>22
  <2>2. \A m \in DOMAIN readSet[t] : Pins(t, m)' <=> Pins(t, m)
    BY <1>14, <1>21, <1>22
  <2>3. SamePins(t)
    BY <1>8, <2>1, <2>2 DEF SamePins, Pinned, SetsKept
  <2> QED BY <1>20, <2>3 DEF CountsPins
<1>23. CASE half = "ClosePrev" /\ ~ is_error
  <2> PICK k : k = writeSet[t][i].key
    OBVIOUS
  <2>1. read_counter' = [read_counter EXCEPT ![k] = read_counter[k] - 1]
    BY <1>1, <1>23 DEF PostProcessingClosePrev, ClosePrevVersion
  <2>2. Pins(t, l) /\ ~ Pins(t, l)'
    BY <1>14, <1>21, <1>23
  <2>3. Pinned(t, l, k) /\ ~ Pinned(t, l, k)'
    BY <1>6, <2>2 DEF Pinned
  <2>4. \A x \in Key : \A m : x # k \/ m # l => (Pinned(t, m, x)' <=> Pinned(t, m, x))
    BY <1>6, <1>8, <1>21 DEF Pinned, SetsKept
  <2>5. DropsPin(t, l, k)
    BY <2>1, <2>3, <2>4 DEF DropsPin
  <2>6. k \in Key /\ l \in 1 .. MaxReads
    <3>1. writeSet[t][i] \in WriteSetEntry
      BY Entries
    <3> QED BY <1>6, <3>1, ReadIndex DEF WriteSetEntry
  <2> QED BY <1>20, <2>5, <2>6 DEF CountsPins
<1> QED BY <1>22, <1>23 DEF CommitHalf

-----------------------------------------------------------------------------
(* The balance.                                                            *)

\* A request counts what it pins,
LEMMA ClientPins ==
  ASSUME TypeOK, TypeOK', OwnershipInv, NEW t \in Txn, SelfInv(t), PinInv(t), Client(t)
  PROVE  PinInv(t)' /\ CountsPins(t)
<1>1. ASSUME NEW k \in Key, Read(t, k) \/ Insert(t, k) \/ Upsert(t, k)
      PROVE  PinInv(t)' /\ SamePins(t)
  BY <1>1, RequestPins DEF Read, Insert, Upsert
<1>2. CASE \E k \in Key : Update(t, k) \/ Delete(t, k)
  BY <1>2, QueuePins DEF CountsPins
<1> QED BY <1>1, <1>2, RequestPins DEF Client, CountsPins

\* and so does every step of the executor.
LEMMA ProgressPins ==
  ASSUME TypeOK, TypeOK', OwnershipInv, NEW t \in Txn, SelfInv(t), PinInv(t), Progress(t)
  PROVE  PinInv(t)' /\ CountsPins(t)
<1>1. ASSUME NEW i \in DOMAIN readSet[t], ReadEntryStep(t, i) PROVE PinInv(t)' /\ CountsPins(t)
  BY <1>1, ReleasePins, CommitPathPins, AbortPins DEF ReadEntryStep, CountsPins
<1>2. ASSUME NEW i \in DOMAIN writeSet[t], WriteEntryStep(t, i) PROVE PinInv(t)' /\ CountsPins(t)
  BY <1>2, CommitEntryPins, CommitPathPins, AbortPins DEF WriteEntryStep, CountsPins
<1>3. CASE \/ InitTxn(t) \/ InitTxnError(t) \/ ReadDataStoreNext(t)
           \/ ReadOutside(t) \/ ReadOutsideError(t)
  BY <1>3, RequestPins, ReadPins, QueuePins DEF CountsPins
<1>4. CASE \/ UploadNext(t) \/ ValidateNext(t) \/ WriteToLog(t) \/ SetCommitTsError(t)
           \/ UpdateTxnStatusToCommitError(t) \/ UpdateTxnStatusToAbortError(t)
  BY <1>4, CommitPathPins DEF CountsPins
<1>5. CASE \/ SetCommitTs(t) \/ PostProcessingAfterAbortNext(t) \/ UpdateTxnStatusToCommit(t)
           \/ PostProcessingAfterCommitNext(t)
  BY <1>5, SendReleasesPins, DecideCommitPins, EndPins DEF CountsPins
<1>6. CASE UpdateTxnStatusToAbort(t) \/ ReleaseReadCounterNext(t)
  BY <1>6, AbortPins DEF CountsPins
<1> QED BY <1>1, <1>2, <1>3, <1>4, <1>5, <1>6 DEF Progress

PinsInv == (\A t \in Txn : PinInv(t)) /\ PinsFinite /\ PinsBalanced

\* At first nothing is read.
LEMMA InitPins ==
  ASSUME Init PROVE PinsInv
<1>1. \A t \in Txn : /\ operation[t] = "Reset" /\ calls[t] = {} /\ readSet[t] = <<>>
                     /\ writeSet[t] = <<>> /\ request[t] = NoKey
                     /\ txns[t].status = "Ongoing"
  BY DEF Init, DbInit
<1>2. ASSUME NEW t \in Txn
      PROVE  DOMAIN readSet[t] = {} /\ DOMAIN writeSet[t] = {} /\ Len(readSet[t]) = 0
  <2>1. readSet[t] = <<>> /\ writeSet[t] = <<>>
    BY <1>1
  <2>2. Len(<<>>) = 0 /\ DOMAIN <<>> = {}
    OBVIOUS
  <2> QED BY <2>1, <2>2
<1>3. ASSUME NEW t \in Txn PROVE PinInv(t)
  <2>1. t \notin Committed
    BY <1>1 DEF Committed
  <2> QED BY <1>1, <1>2, <2>1, TransactionExecutionAssumption DEF PinInv
<1>4. ASSUME NEW k \in Key
      PROVE  /\ IsFiniteSet({p \in Txn \X (1 .. MaxReads) : Pinned(p[1], p[2], k)})
             /\ read_counter[k] =
                  Cardinality({p \in Txn \X (1 .. MaxReads) :
                                 /\ p[2] \in DOMAIN readSet[p[1]]
                                 /\ readSet[p[1]][p[2]].key = k
                                 /\ Pins(p[1], p[2])})
  <2>1. {p \in Txn \X (1 .. MaxReads) :
           /\ p[2] \in DOMAIN readSet[p[1]]
           /\ readSet[p[1]][p[2]].key = k
           /\ Pins(p[1], p[2])} = {}
    BY <1>2
  <2>2. {p \in Txn \X (1 .. MaxReads) : Pinned(p[1], p[2], k)} = {}
    BY <1>2 DEF Pinned
  <2> QED BY <2>1, <2>2, FS_EmptySet DEF Init, DbInit
<1> QED BY <1>3, <1>4 DEF PinsInv, PinsFinite, PinsBalanced

\* Every step keeps the balance.
LEMMA NextPins ==
  ASSUME TypeOK, TypeOK', OwnershipInv, ExecutionInv, PinsInv, [Next]_vars
  PROVE  PinsInv'
<1>1. CASE UNCHANGED vars
  <2>1. /\ operation' = operation /\ calls' = calls /\ request' = request /\ txns' = txns
        /\ readSet' = readSet /\ writeSet' = writeSet /\ read_counter' = read_counter
    BY <1>1 DEF vars, dbVars, execVars, localVars
  <2>2. Committed' = Committed
    BY <2>1 DEF Committed
  <2>3. \A t \in Txn : PinInv(t)'
    BY <2>1, <2>2 DEF PinsInv, PinInv, NotClosed
  <2>4. \A t, i : Pins(t, i)' <=> Pins(t, i)
    BY <2>1, <2>2 DEF Pins
  <2>5. ASSUME NEW k \in Key
        PROVE  {p \in Txn \X (1 .. MaxReads) :
                  /\ p[2] \in DOMAIN readSet'[p[1]]
                  /\ readSet'[p[1]][p[2]].key = k
                  /\ Pins(p[1], p[2])'}
               = {p \in Txn \X (1 .. MaxReads) :
                    /\ p[2] \in DOMAIN readSet[p[1]]
                    /\ readSet[p[1]][p[2]].key = k
                    /\ Pins(p[1], p[2])}
    BY <2>1, <2>4
  <2>6. ASSUME NEW k \in Key
        PROVE  {p \in Txn \X (1 .. MaxReads) : Pinned(p[1], p[2], k)'}
               = {p \in Txn \X (1 .. MaxReads) : Pinned(p[1], p[2], k)}
    BY <2>1, <2>4 DEF Pinned
  <2> QED BY <2>1, <2>3, <2>5, <2>6 DEF PinsInv, PinsFinite, PinsBalanced
<1>2. ASSUME NEW t \in Txn, Client(t) \/ Progress(t) PROVE PinsInv'
  <2>1. PinInv(t)' /\ CountsPins(t)
    BY <1>2, ClientPins, ProgressPins DEF PinsInv, ExecutionInv
  <2>2. Frame(t)
    BY <1>2, EveryStepFrame
  <2>3. PinsFinite' /\ PinsBalanced'
    BY <2>1, <2>2, PinsCounted DEF PinsInv
  <2>4. ASSUME NEW u \in Txn, u # t PROVE PinInv(u)'
    BY <2>2, <2>4 DEF PinsInv, PinInv, NotClosed, Committed, Frame
  <2> QED BY <2>1, <2>3, <2>4 DEF PinsInv
<1> QED BY <1>1, <1>2 DEF Next, AllEnded

\* Every read is released exactly once, by the reread of validation, by the commit of
\* the write that supersedes it or by the clean-up of an abort, and by none of them
\* if the one that should has failed: the read counter of a key counts the reads that
\* are pinned, for any set of transactions.
THEOREM PinsAreBalanced == Spec => []PinsBalanced
<1>1. TypeOK /\ TypeOK' /\ OwnershipInv /\ ExecutionInv /\ PinsInv /\ [Next]_vars => PinsInv'
  BY NextPins
<1>2. PinsInv => PinsBalanced
  BY DEF PinsInv
<1>3. Init => PinsInv
  BY InitPins
<1> QED BY <1>1, <1>2, <1>3, InitTypes, NextTypes, InitOwnership, NextOwnership,
           InitExecution, NextExecution, PTL DEF Spec
=============================================================================
