------------------------ MODULE SerializabilityProofs ------------------------
(***************************************************************************)
(* Why the commit timestamps order the committed transactions: the reread  *)
(* and the push of validation keep a version readable up to the reader's   *)
(* commit timestamp, because every later writer of the key learns of that  *)
(* timestamp before it chooses its own.                                    *)
(*                                                                         *)
(* And that transactions are atomic: TransactionExecution implements       *)
(* AtomicStore.  Which versions count, and at which timestamps, follows    *)
(* from the write sets and timestamps of the committed transactions alone, *)
(* and these do not change; so what the store does with the versions       *)
(* later, in whatever order and with whatever failures, cannot be seen.    *)
(***************************************************************************)
EXTENDS VersionChainProofs, WellFoundedInduction

\* Entry i of the read set of t is a read of version n of k.
Reads(t, i, k, n) ==
  /\ i \in DOMAIN readSet[t]
  /\ readSet[t][i].key = k
  /\ readSet[t][i].version = n

\* The reread of entry i has been answered, and t does not abort for it.
Validated(t, i) ==
  /\ i \in DOMAIN readSet[t]
  /\ ~ readSet[t][i].is_updated
  /\ \/ /\ operation[t] = "Validate" /\ status[t] # "WaitForAborting"
        /\ CallFor("UpdateReadEntryMaxCommitTs", i) \notin calls[t]
     \/ operation[t] \in {"WriteToLog", "UpdateTxnStatusToCommit"}
     \/ t \in Committed

-----------------------------------------------------------------------------
(* The invariant.                                                          *)

\* If x commits, it closes what it supersedes at ts or later: by what UploadVersion
\* has answered, by the lower bound that a reader has set, or by the choice made.
Yields(x, ts) ==
  /\ operation[x] = "Upload" =>
       max_commit_timestamp_of_writers[x] >= ts \/ txns[x].commit_lower_bound > ts
  /\ operation[x] = "SetCommitTs" =>
       commit_timestamp[x] > ts \/ txns[x].commit_lower_bound > ts
  /\ operation[x] \in AfterTimestamp \/ x \in Committed =>
       commit_timestamp[x] - EndTsGap >= ts

\* The writer of the next version has closed version n of k.
ClosedByWriter(k, n) ==
  \E x \in Committed : \E j \in DOMAIN writeSet[x] :
    Writes(x, j, k, n + 1) /\ versions[k][n].end_ts = commit_timestamp[x] - EndTsGap

\* Later writers find the reader's timestamp in the version; a writer that has
\* locked the version already has yielded or is still to be pushed.
Protected(t, i, k, n) ==
  /\ versions[k][n].max_commit_ts >= commit_timestamp[t]
  /\ versions[k][n].end_ts >= commit_timestamp[t] \/ ClosedByWriter(k, n)
  /\ \A x \in Txn : \A j \in DOMAIN writeSet[x] :
       Writes(x, j, k, n + 1) /\ PushCall(i, x) \notin calls[t] => Yields(x, commit_timestamp[t])

ReadsProtected ==
  \A t \in Txn : \A i \in DOMAIN readSet[t] : \A k \in Key : \A n \in 0 .. MaxVersion :
    Reads(t, i, k, n) /\ Validated(t, i) => Protected(t, i, k, n)

-----------------------------------------------------------------------------
(* What a step does to a committed version.                                *)

\* A committed version is never less protected: its max_commit_ts only grows, and
\* nobody but the writer of the next version closes it.
StaysProtected(k, n) ==
  /\ versions'[k][n].max_commit_ts >= versions[k][n].max_commit_ts
  /\ versions'[k][n].end_ts = versions[k][n].end_ts \/ ClosedByWriter(k, n)'

\* The fields that a call keeps.
LEMMA EntryFields ==
  ASSUME NEW e \in VersionEntry, NEW t, NEW ts \in Int
  PROVE  /\ LockedBy(e, t).max_commit_ts = e.max_commit_ts /\ LockedBy(e, t).end_ts = e.end_ts
         /\ ClosedBy(e, ts).max_commit_ts = e.max_commit_ts
         /\ ClosedBy(e, ts).end_ts = ts - EndTsGap
         /\ RaisedMaxCommitTs(e, ts).max_commit_ts >= e.max_commit_ts
         /\ e.version # kDefaultVersion => RaisedMaxCommitTs(e, ts).max_commit_ts >= ts
         /\ RaisedMaxCommitTs(e, ts).end_ts = e.end_ts
BY DEF VersionEntry, LockedBy, ClosedBy, RaisedMaxCommitTs

\* The answer to an upload locks the version that is superseded,
LEMMA UploadProtects ==
  ASSUME TypeOK, ChainInv, NEW t \in Txn, NEW i \in DOMAIN writeSet[t], UploadVersionEntry(t, i),
         NEW l \in Key, NEW m \in 0 .. MaxVersion, Stable(l, m)
  PROVE  StaysProtected(l, m)
<1>1. PICK k \in Key : \E n \in 1 .. MaxVersion : writeSet[t][i].key = k /\ writeSet[t][i].version = n
  BY PlaceOfEntry
<1>2. PICK n \in 1 .. MaxVersion : writeSet[t][i].key = k /\ writeSet[t][i].version = n
  BY <1>1
<1>3. n \in 0 .. MaxVersion /\ n - 1 \in 0 .. MaxVersion /\ n # n - 1
  BY VersionDbAssumption
<1>4. PICK d : UploadVersion(k, n, t, d)
  BY <1>2 DEF UploadVersionEntry
<1>5. DbTypeOK
  BY DEF TypeOK
<1>6. /\ versions'[k][n - 1] = LockedBy(versions[k][n - 1], t)
      /\ \A e \in Key : \A j \in 0 .. MaxVersion :
           e # k \/ j \notin {n, n - 1} => versions'[e][j] = versions[e][j]
  <2> DEFINE new  == DirtyVersion(n, t, d)
             prev == LockedBy(versions[k][n - 1], t)
             list == [versions[k] EXCEPT ![n] = new, ![n - 1] = prev]
  <2>1. list = [versions[k] EXCEPT ![n] = new, ![n - 1] = prev]
    OBVIOUS
  <2>2. versions' = [versions EXCEPT ![k] = list]
    BY <1>4 DEF UploadVersion
  <2> HIDE DEF list, new, prev
  <2>3. list[n - 1] = prev /\ \A j \in 0 .. MaxVersion : j \notin {n, n - 1} => list[j] = versions[k][j]
    BY <1>3, <1>5, <2>1 DEF DbTypeOK
  <2>4. versions'[k] = list /\ \A e \in Key : e # k => versions'[e] = versions[e]
    BY <1>5, <2>2, ListReplaced
  <2> QED BY <2>3, <2>4 DEF prev
<1>7. ~ (l = k /\ m = n)
  BY <1>4 DEF UploadVersion, CanUploadVersion, Stable
<1>8. versions[l][m] \in VersionEntry /\ 0 \in Int
  BY StoredEntries
<1>9. /\ versions'[l][m].max_commit_ts = versions[l][m].max_commit_ts
      /\ versions'[l][m].end_ts = versions[l][m].end_ts
  BY <1>6, <1>7, <1>8, EntryFields
<1> QED BY <1>8, <1>9 DEF StaysProtected, VersionEntry

\* that to a delete unlocks it,
LEMMA DeleteProtects ==
  ASSUME TypeOK, ChainInv, NEW t \in Txn, NEW i \in DOMAIN writeSet[t],
         PostProcessingDeleteEntryAfterAbort(t, i),
         NEW l \in Key, NEW m \in 0 .. MaxVersion, Stable(l, m)
  PROVE  StaysProtected(l, m)
<1>1. PICK k \in Key : \E n \in 1 .. MaxVersion : writeSet[t][i].key = k /\ writeSet[t][i].version = n
  BY PlaceOfEntry
<1>2. PICK n \in 1 .. MaxVersion : writeSet[t][i].key = k /\ writeSet[t][i].version = n
  BY <1>1
<1>3. n \in 0 .. MaxVersion /\ n - 1 \in 0 .. MaxVersion /\ n # n - 1
  BY VersionDbAssumption
<1>4. CanDeleteVersion(k, n) /\ DeleteVersion(k, n)
  BY <1>2 DEF PostProcessingDeleteEntryAfterAbort
<1>5. DbTypeOK
  BY DEF TypeOK
<1>6. /\ versions'[k][n - 1] = LockedBy(versions[k][n - 1], kEmptyTxId)
      /\ \A e \in Key : \A j \in 0 .. MaxVersion :
           e # k \/ j \notin {n, n - 1} => versions'[e][j] = versions[e][j]
  <2> DEFINE new  == DefaultEntry
             prev == LockedBy(versions[k][n - 1], kEmptyTxId)
             list == [versions[k] EXCEPT ![n] = new, ![n - 1] = prev]
  <2>1. list = [versions[k] EXCEPT ![n] = new, ![n - 1] = prev]
    OBVIOUS
  <2>2. versions' = [versions EXCEPT ![k] = list]
    BY <1>4 DEF DeleteVersion
  <2> HIDE DEF list, new, prev
  <2>3. list[n - 1] = prev /\ \A j \in 0 .. MaxVersion : j \notin {n, n - 1} => list[j] = versions[k][j]
    BY <1>3, <1>5, <2>1 DEF DbTypeOK
  <2>4. versions'[k] = list /\ \A e \in Key : e # k => versions'[e] = versions[e]
    BY <1>5, <2>2, ListReplaced
  <2> QED BY <2>3, <2>4 DEF prev
<1>7. ~ (l = k /\ m = n)
  BY <1>4 DEF CanDeleteVersion, Stable
<1>8. versions[l][m] \in VersionEntry /\ 0 \in Int
  BY StoredEntries
<1>9. /\ versions'[l][m].max_commit_ts = versions[l][m].max_commit_ts
      /\ versions'[l][m].end_ts = versions[l][m].end_ts
  BY <1>6, <1>7, <1>8, EntryFields
<1> QED BY <1>8, <1>9 DEF StaysProtected, VersionEntry

\* those to a commit give timestamps to the new version and close the old one,
LEMMA CommitProtects ==
  ASSUME TypeOK, OwnershipInv, ExecutionInv, ChainInv, NEW t \in Txn, NEW i \in DOMAIN writeSet[t],
         PostProcessingCommitNew(t, i) \/ PostProcessingClosePrev(t, i),
         NEW l \in Key, NEW m \in 0 .. MaxVersion, Stable(l, m)
  PROVE  StaysProtected(l, m)
<1>1. PICK k \in Key : \E n \in 1 .. MaxVersion : writeSet[t][i].key = k /\ writeSet[t][i].version = n
  BY PlaceOfEntry
<1>2. PICK n \in 1 .. MaxVersion : writeSet[t][i].key = k /\ writeSet[t][i].version = n
  BY <1>1
<1>3. n \in 0 .. MaxVersion /\ n - 1 \in 0 .. MaxVersion /\ n # n - 1 /\ n - 1 + 1 = n
  BY VersionDbAssumption
<1>4. DbTypeOK /\ commit_timestamp[t] \in Int
  BY DEF TypeOK
<1>5. versions[l][m] \in VersionEntry
  BY StoredEntries
<1>6. CASE PostProcessingCommitNew(t, i)
  <2>1. CommitNewVersion(k, n, commit_timestamp[t]) /\ CallFor("CommitNew", i) \in calls[t]
    BY <1>2, <1>6 DEF PostProcessingCommitNew
  <2>2. \A e \in Key : \A j \in 0 .. MaxVersion :
          e # k \/ j # n => versions'[e][j] = versions[e][j]
    <3> DEFINE new  == CommittedAt(versions[k][n], commit_timestamp[t])
               list == [versions[k] EXCEPT ![n] = new]
    <3>1. list = [versions[k] EXCEPT ![n] = new]
      OBVIOUS
    <3>2. versions' = [versions EXCEPT ![k] = list]
      BY <2>1 DEF CommitNewVersion
    <3> HIDE DEF list, new
    <3>3. \A j \in 0 .. MaxVersion : j # n => list[j] = versions[k][j]
      BY <1>3, <1>4, <3>1 DEF DbTypeOK
    <3>4. versions'[k] = list /\ \A e \in Key : e # k => versions'[e] = versions[e]
      BY <1>4, <3>2, ListReplaced
    <3> QED BY <3>3, <3>4
  <2>3. t \in Committed /\ i \in PostProcessIndex(t)
    BY <2>1 DEF ExecutionInv, SelfInv, CallsMatch, CommitCalls, CallFor
  <2>4. NewHeld(t, i) /\ Writes(t, i, k, n)
    BY <1>2, <2>1, <2>3 DEF NewHeld, Pending, Writes, PostProcessIndex, Committed
  <2>5. ~ (l = k /\ m = n)
    BY <2>4 DEF ChainInv, HolderOwns, Owns, Dirty, Stable
  <2> QED BY <1>5, <2>2, <2>5 DEF StaysProtected, VersionEntry
<1>7. CASE PostProcessingClosePrev(t, i)
  <2>1. /\ ClosePrevVersion(k, n, commit_timestamp[t]) /\ CallFor("ClosePrev", i) \in calls[t]
        /\ CommitEntryAnswered(t, i, "ClosePrev", FALSE)
    BY <1>2, <1>7 DEF PostProcessingClosePrev
  <2>2. /\ versions'[k][n - 1] = ClosedBy(versions[k][n - 1], commit_timestamp[t])
        /\ \A e \in Key : \A j \in 0 .. MaxVersion :
             e # k \/ j # n - 1 => versions'[e][j] = versions[e][j]
    <3> DEFINE new  == ClosedBy(versions[k][n - 1], commit_timestamp[t])
               list == [versions[k] EXCEPT ![n - 1] = new]
    <3>1. list = [versions[k] EXCEPT ![n - 1] = new]
      OBVIOUS
    <3>2. versions' = [versions EXCEPT ![k] = list]
      BY <2>1 DEF ClosePrevVersion
    <3> HIDE DEF list, new
    <3>3. list[n - 1] = new /\ \A j \in 0 .. MaxVersion : j # n - 1 => list[j] = versions[k][j]
      BY <1>3, <1>4, <3>1 DEF DbTypeOK
    <3>4. versions'[k] = list /\ \A e \in Key : e # k => versions'[e] = versions[e]
      BY <1>4, <3>2, ListReplaced
    <3> QED BY <3>3, <3>4 DEF new
  <2>3. "ClosePrev" \in CommitHalf /\ FALSE \in BOOLEAN /\ txns' = txns
    BY <2>1 DEF CommitHalf, ClosePrevVersion
  <2>4. /\ t \in Committed' /\ i \in PostProcessIndex(t)
        /\ writeSet' = writeSet /\ commit_timestamp' = commit_timestamp
    BY <2>1, <2>3, HalfAnswered
  <2>5. i \in DOMAIN writeSet'[t] /\ Writes(t, i, k, n)'
    BY <1>2, <2>4 DEF Writes, PostProcessIndex
  <2>6. ASSUME l = k, m = n - 1 PROVE ClosedByWriter(l, m)'
    <3>1. versions'[l][m].end_ts = commit_timestamp'[t] - EndTsGap
      <4>1. versions[k][n - 1] \in VersionEntry
        BY <1>3, StoredEntries
      <4>2. ClosedBy(versions[k][n - 1], commit_timestamp[t]).end_ts = commit_timestamp[t] - EndTsGap
        BY <1>4, <4>1, EntryFields
      <4> QED BY <2>2, <2>4, <2>6, <4>2
    <3>2. Writes(t, i, l, m + 1)'
      BY <1>3, <2>5, <2>6 DEF Writes
    <3> QED BY <2>4, <2>5, <3>1, <3>2 DEF ClosedByWriter, Writes
  <2>7. versions'[l][m].max_commit_ts = versions[l][m].max_commit_ts
    <3>1. versions[k][n - 1] \in VersionEntry
      BY <1>3, StoredEntries
    <3>2. ClosedBy(versions[k][n - 1], commit_timestamp[t]).max_commit_ts
            = versions[k][n - 1].max_commit_ts
      BY <1>4, <3>1, EntryFields
    <3>3. CASE l = k /\ m = n - 1
      BY <2>2, <3>2, <3>3
    <3>4. CASE ~ (l = k /\ m = n - 1)
      BY <2>2, <3>4
    <3> QED BY <3>3, <3>4
  <2> QED BY <1>5, <2>2, <2>6, <2>7 DEF StaysProtected, VersionEntry
<1> QED BY <1>6, <1>7

\* the reread raises max_commit_ts,
LEMMA RereadProtects ==
  ASSUME TypeOK, NEW t \in Txn, NEW i \in DOMAIN readSet[t], UpdateReadEntryMaxCommitTs(t, i),
         NEW l \in Key, NEW m \in 0 .. MaxVersion, Stable(l, m)
  PROVE  /\ StaysProtected(l, m)
         /\ Reads(t, i, l, m) => versions'[l][m].max_commit_ts >= commit_timestamp[t]
<1> DEFINE k == readSet[t][i].key
           n == readSet[t][i].version
           new  == RaisedMaxCommitTs(versions[k][n], commit_timestamp[t])
           list == [versions[k] EXCEPT ![n] = new]
<1>1. k \in Key /\ n \in 0 .. MaxVersion
  BY ReadPlace
<1>2. DbTypeOK /\ commit_timestamp[t] \in Int
  BY DEF TypeOK
<1>3. versions[k][n] \in VersionEntry /\ versions[l][m] \in VersionEntry
  BY <1>1, StoredEntries
<1>4. list = [versions[k] EXCEPT ![n] = new]
  OBVIOUS
<1>5. versions' = [versions EXCEPT ![k] = list]
  BY DEF UpdateReadEntryMaxCommitTs, UpdateMaxCommitTsAndReread
<1>6. Reads(t, i, l, m) => l = k /\ m = n
  BY DEF Reads
<1> HIDE DEF list, k, n
<1>7. versions'[k] = list /\ \A e \in Key : e # k => versions'[e] = versions[e]
  BY <1>1, <1>2, <1>5, ListReplaced
<1>8. list[n] = new /\ \A j \in 0 .. MaxVersion : j # n => list[j] = versions[k][j]
  BY <1>1, <1>2, <1>4 DEF DbTypeOK
<1>9. /\ new.max_commit_ts >= versions[k][n].max_commit_ts
      /\ versions[k][n].version # kDefaultVersion => new.max_commit_ts >= commit_timestamp[t]
      /\ new.end_ts = versions[k][n].end_ts
  BY <1>2, <1>3, EntryFields
<1> HIDE DEF new
<1>10. StaysProtected(l, m)
  BY <1>3, <1>7, <1>8, <1>9 DEF StaysProtected, VersionEntry
<1> QED BY <1>6, <1>7, <1>8, <1>9, <1>10 DEF Stable, Exists

\* and no other step touches it.
LEMMA StepProtects ==
  ASSUME TypeOK, OwnershipInv, ExecutionInv, ChainInv, NEW t \in Txn, Client(t) \/ Progress(t),
         NEW l \in Key, NEW m \in 0 .. MaxVersion, Stable(l, m)
  PROVE  StaysProtected(l, m)
<1>1. versions[l][m].max_commit_ts \in Int
  BY StoredEntries DEF VersionEntry
<1>2. CASE versions' = versions
  BY <1>1, <1>2 DEF StaysProtected
<1>3. ASSUME NEW k \in Key, versions' = [versions EXCEPT ![k] = InitVersionList(versions[k])]
      PROVE  StaysProtected(l, m)
  <2>1. versions'[l][m] = versions[l][m]
    BY <1>3 DEF TypeOK, DbTypeOK, InitVersionList, Stable, Exists, kFirstVersion
  <2> QED BY <1>1, <2>1 DEF StaysProtected
<1>4. ReadOutside(t) => \E k \in Key : versions' = [versions EXCEPT ![k] = InitVersionList(versions[k])]
  <2>1. request[t] \in Key \cup {NoKey}
    BY DEF TypeOK
  <2> QED BY <2>1 DEF ReadOutside, GetVersionList
<1>5. CASE Client(t)
  <2>1. versions' = versions
    BY <1>5 DEF Client, Begin, Commit, Abort, ReadDataStore, Read, Insert, Upsert,
                CallReadOutside, Update, Delete, dbVars
  <2> QED BY <1>2, <2>1
<1>6. ASSUME NEW i \in DOMAIN readSet[t], ReadEntryStep(t, i) PROVE StaysProtected(l, m)
  <2>1. UpdateReadEntryMaxCommitTs(t, i) \/ versions' = versions
    BY <1>6 DEF ReadEntryStep, UpdateReadEntryMaxCommitTsError, PushConflictTxnCommitTsLowerBound,
         PushConflictTxnCommitTsLowerBoundError, ReleaseReadCounterForEachEntry,
         ReleaseReadCounterForEachEntryError, UpdateCommitLowerBound, ReleaseReadCounter, Fails, dbVars
  <2> QED BY <1>2, <2>1, RereadProtects
<1>7. ASSUME NEW i \in DOMAIN writeSet[t], WriteEntryStep(t, i) PROVE StaysProtected(l, m)
  <2>1. StoreStep(t, i) \/ versions' = versions
    BY <1>7 DEF WriteEntryStep, StoreStep, UploadVersionEntryError, PostProcessingCommitEntryError,
                PostProcessingDeleteEntryAfterAbortError, dbVars
  <2> QED BY <1>2, <2>1, UploadProtects, CommitProtects, DeleteProtects DEF StoreStep
<1>8. CASE \/ InitTxn(t) \/ InitTxnError(t) \/ ReadOutsideError(t) \/ ReadDataStoreNext(t)
           \/ UploadNext(t) \/ SetCommitTs(t) \/ SetCommitTsError(t) \/ ValidateNext(t)
           \/ WriteToLog(t) \/ UpdateTxnStatusToCommit(t) \/ UpdateTxnStatusToCommitError(t)
           \/ PostProcessingAfterCommitNext(t)
           \/ UpdateTxnStatusToAbort(t) \/ UpdateTxnStatusToAbortError(t)
           \/ PostProcessingAfterAbortNext(t) \/ ReleaseReadCounterNext(t)
  <2>1. versions' = versions
    BY <1>8 DEF InitTxn, InitTxnError, ReadOutsideError, ReadDataStoreNext, UploadNext,
         SetCommitTs, SetCommitTsError, ValidateNext, WriteToLog, UpdateTxnStatusToCommit,
         UpdateTxnStatusToCommitError, PostProcessingAfterCommitNext, UpdateTxnStatusToAbort,
         UpdateTxnStatusToAbortError, PostProcessingAfterAbortNext, ReleaseReadCounterNext,
         NewTxn, SetCommitTimestamp, UpdateTxnStatus, Fails, dbVars
  <2> QED BY <1>2, <2>1
<1> QED BY <1>3, <1>4, <1>5, <1>6, <1>7, <1>8 DEF Progress

-----------------------------------------------------------------------------
(* What a step does to a writer.                                           *)

\* The timestamps are integers.
LEMMA Stamps ==
  ASSUME TypeOK, NEW x \in Txn
  PROVE  /\ commit_timestamp[x] \in Int /\ commit_timestamp[x] + 1 \in Int
         /\ max_commit_timestamp_of_writers[x] \in Int
         /\ txns[x].commit_lower_bound \in Int /\ txns[x].commit_ts \in Int
<1>1. txns[x] \in TxnEntry
  BY DEF TypeOK, DbTypeOK
<1> QED BY <1>1 DEF TypeOK, TxnEntry

LEMMA StampsNext ==
  ASSUME TypeOK', NEW x \in Txn
  PROVE  /\ commit_timestamp'[x] \in Int /\ max_commit_timestamp_of_writers'[x] \in Int
         /\ txns'[x].commit_lower_bound \in Int
<1>1. txns'[x] \in TxnEntry
  BY DEF TypeOK, DbTypeOK
<1> QED BY <1>1 DEF TypeOK, TxnEntry

\* Where a transaction may still choose its timestamp, or has chosen it.
Choosing == {"Upload", "SetCommitTs"} \cup AfterTimestamp

\* Who has yielded goes on yielding as long as its bounds only grow,
LEMMA BoundsYield ==
  ASSUME TypeOK, TypeOK', NEW x \in Txn, NEW ts \in Int, Yields(x, ts),
         commit_timestamp'[x] = commit_timestamp[x],
         max_commit_timestamp_of_writers'[x] >= max_commit_timestamp_of_writers[x],
         txns'[x].commit_lower_bound >= txns[x].commit_lower_bound,
         \/ operation'[x] = operation[x] \/ operation'[x] \notin Choosing
         \/ operation[x] \in AfterTimestamp /\ operation'[x] \in AfterTimestamp,
         x \in Committed' => x \in Committed \/ operation[x] \in AfterTimestamp
  PROVE  Yields(x, ts)'
<1>1. /\ txns[x].commit_lower_bound \in Int /\ txns'[x].commit_lower_bound \in Int
      /\ max_commit_timestamp_of_writers[x] \in Int /\ max_commit_timestamp_of_writers'[x] \in Int
  BY Stamps, StampsNext
<1> QED BY <1>1 DEF Yields, Choosing, AfterTimestamp

\* so while others take steps,
LEMMA OthersYield ==
  ASSUME TypeOK, TypeOK', NEW t \in Txn, Frame(t), NEW x \in Txn, x # t, NEW ts \in Int,
         Yields(x, ts)
  PROVE  Yields(x, ts)'
<1>1. max_commit_timestamp_of_writers[x] \in Int
  BY Stamps
<1>2. x \in Committed' => x \in Committed
  BY DEF Frame, Committed
<1> QED BY <1>1, <1>2, BoundsYield DEF Frame

\* and while its own calls are answered.
LEMMA EntriesYield ==
  ASSUME TypeOK, TypeOK', NEW x \in Txn, NEW ts \in Int, Yields(x, ts),
         \/ \E i \in DOMAIN readSet[x] : ReadEntryStep(x, i)
         \/ \E i \in DOMAIN writeSet[x] : WriteEntryStep(x, i)
  PROVE  Yields(x, ts)'
<1>1. /\ max_commit_timestamp_of_writers[x] \in Int /\ txns[x].commit_lower_bound \in Int
      /\ txns \in [Txn -> TxnEntry]
  BY Stamps DEF TypeOK, DbTypeOK
<1>2. ASSUME NEW i \in DOMAIN readSet[x], ReadEntryStep(x, i) PROVE Yields(x, ts)'
  <2>1. UNCHANGED tsVars
    BY <1>2 DEF ReadEntryStep, UpdateReadEntryMaxCommitTs, UpdateReadEntryMaxCommitTsError,
         PushConflictTxnCommitTsLowerBound, PushConflictTxnCommitTsLowerBoundError,
         ReleaseReadCounterForEachEntry, ReleaseReadCounterForEachEntryError, Recover
  <2>2. operation'[x] \in {operation[x], "Recover"}
    BY <1>2 DEF ReadEntryStep, UpdateReadEntryMaxCommitTs, UpdateReadEntryMaxCommitTsError,
         PushConflictTxnCommitTsLowerBound, PushConflictTxnCommitTsLowerBoundError,
         ReleaseReadCounterForEachEntry, ReleaseReadCounterForEachEntryError, Recover, Moves, TypeOK
  <2>3. /\ txns'[x].status = txns[x].status
        /\ txns'[x].commit_lower_bound >= txns[x].commit_lower_bound
    <3>1. txns' = txns \/ \E u \in Txn : UpdateCommitLowerBound(u, commit_timestamp[x] + 1)
      BY <1>2 DEF ReadEntryStep, UpdateReadEntryMaxCommitTs, UpdateReadEntryMaxCommitTsError,
         PushConflictTxnCommitTsLowerBound, PushConflictTxnCommitTsLowerBoundError,
         ReleaseReadCounterForEachEntry, ReleaseReadCounterForEachEntryError, UpdateMaxCommitTsAndReread, ReleaseReadCounter,
         Fails, dbVars
    <3>2. ASSUME NEW u \in Txn, UpdateCommitLowerBound(u, commit_timestamp[x] + 1)
          PROVE  /\ txns'[x].status = txns[x].status
                 /\ txns'[x].commit_lower_bound >= txns[x].commit_lower_bound
      <4> DEFINE asked == commit_timestamp[x] + 1
      <4>1. txns'[x] = IF x = u /\ txns[u].commit_ts = kDefaultCommitTs
                            /\ txns[u].commit_lower_bound < asked
                       THEN [txns[x] EXCEPT !.commit_lower_bound = asked]
                       ELSE txns[x]
        BY <1>1, <3>2 DEF UpdateCommitLowerBound, TxnEntry
      <4>2. asked \in Int /\ txns[x] \in TxnEntry
        BY <1>1, Stamps
      <4> HIDE DEF asked
      <4> QED BY <1>1, <4>1, <4>2 DEF TxnEntry
    <3> QED BY <1>1, <3>1, <3>2
  <2> QED BY <1>1, <2>1, <2>2, <2>3, BoundsYield DEF tsVars, Committed, Choosing, AfterTimestamp
<1>3. ASSUME NEW i \in DOMAIN writeSet[x], WriteEntryStep(x, i) PROVE Yields(x, ts)'
  <2>1. txns' = txns /\ commit_timestamp' = commit_timestamp
    BY <1>3 DEF WriteEntryStep, UploadVersionEntry, UploadVersionEntryError, PostProcessingCommitNew,
         PostProcessingClosePrev, PostProcessingCommitEntryError,
         PostProcessingDeleteEntryAfterAbort, PostProcessingDeleteEntryAfterAbortError, UploadVersion,
         CommitNewVersion, ClosePrevVersion, DeleteVersion, dbVars, CommitEntryAnswered, Recover, tsVars
  <2>2. operation'[x] \in {operation[x], "Recover"}
    <3>1. \/ UNCHANGED operation
          \/ Recover(x, "PostProcessingAfterAbort")
          \/ \E half \in {"CommitNew", "ClosePrev"}, is_error \in BOOLEAN :
               CommitEntryAnswered(x, i, half, is_error)
      BY <1>3 DEF WriteEntryStep, UploadVersionEntry, UploadVersionEntryError,
           PostProcessingCommitNew, PostProcessingClosePrev, PostProcessingCommitEntryError,
           PostProcessingDeleteEntryAfterAbort, PostProcessingDeleteEntryAfterAbortError
    <3> QED BY <3>1 DEF CommitEntryAnswered, Recover, Moves, TypeOK
  <2>3. max_commit_timestamp_of_writers'[x] >= max_commit_timestamp_of_writers[x]
    <3>1. CASE UploadVersionEntry(x, i)
      <4> DEFINE candidate == UploadVersionResult(writeSet[x][i].key, writeSet[x][i].version)
                 old == max_commit_timestamp_of_writers[x]
      <4>1. max_commit_timestamp_of_writers'[x] = IF old < candidate THEN candidate ELSE old
        BY <3>1 DEF UploadVersionEntry, TypeOK
      <4>2. max_commit_timestamp_of_writers'[x] \in Int
        BY StampsNext
      <4> HIDE DEF candidate
      <4> QED BY <1>1, <4>1, <4>2
    <3>2. CASE ~ UploadVersionEntry(x, i)
      <4>1. UNCHANGED tsVars
        BY <1>3, <3>2 DEF WriteEntryStep, UploadVersionEntryError, PostProcessingCommitNew,
           PostProcessingClosePrev, PostProcessingCommitEntryError,
           PostProcessingDeleteEntryAfterAbort, PostProcessingDeleteEntryAfterAbortError,
           CommitEntryAnswered, Recover
      <4> QED BY <1>1, <4>1 DEF tsVars
    <3> QED BY <3>1, <3>2
  <2> QED BY <1>1, <2>1, <2>2, <2>3, BoundsYield DEF Committed, Choosing, AfterTimestamp
<1> QED BY <1>2, <1>3

\* The choice is made: what UploadVersion has answered and what readers have asked
\* for are both below it.
LEMMA ChoiceYields ==
  ASSUME EndTsGap <= 1, TypeOK, TypeOK', OwnershipInv, NEW x \in Txn, NEW ts \in Int, Yields(x, ts),
         UploadNext(x) \/ SetCommitTs(x)
  PROVE  Yields(x, ts)'
<1>1. /\ max_commit_timestamp_of_writers[x] \in Int /\ txns[x].commit_lower_bound \in Int
      /\ commit_timestamp[x] \in Int /\ commit_timestamp'[x] \in Int
      /\ txns \in [Txn -> TxnEntry] /\ EndTsGap \in Nat
  BY Stamps, StampsNext, VersionDbAssumption DEF TypeOK, DbTypeOK
<1>2. x \notin Committed
  <2>1. operation[x] \notin AfterDecision
    BY DEF UploadNext, SetCommitTs, AbortFrom, Moves, AfterDecision
  <2> QED BY <2>1, BeforeDecision
<1>3. CASE AbortFrom(x, "Upload") /\ UNCHANGED dbVars
  <2>1. operation'[x] = "UpdateTxnStatusToAbort" /\ UNCHANGED tsVars /\ txns' = txns
    BY <1>3 DEF AbortFrom, Moves, TypeOK, dbVars
  <2> QED BY <1>1, <1>2, <2>1, BoundsYield DEF tsVars, Committed, Choosing, AfterTimestamp
<1>4. CASE UploadNext(x) /\ ~ AbortFrom(x, "Upload")
  <2>1. operation[x] = "Upload" /\ operation'[x] = "SetCommitTs" /\ txns' = txns
    BY <1>4 DEF UploadNext, Moves, TypeOK, dbVars
  <2>2. PICK local_time \in Times :
          \E ts1 \in CommitTsCandidates(x, local_time) :
            /\ \A other \in CommitTsCandidates(x, local_time) : other <= ts1
            /\ commit_timestamp' = [commit_timestamp EXCEPT ![x] = ts1]
    BY <1>4 DEF UploadNext
  <2>3. max_commit_timestamp_of_writers[x] + 1 \in CommitTsCandidates(x, local_time)
    BY DEF CommitTsCandidates
  <2>4. max_commit_timestamp_of_writers[x] + 1 <= commit_timestamp'[x]
    BY <2>2, <2>3 DEF TypeOK
  <2>5. x \notin Committed'
    BY <1>2, <2>1 DEF Committed
  <2> QED BY <1>1, <2>1, <2>4, <2>5 DEF Yields, AfterTimestamp
<1>5. CASE SetCommitTs(x)
  <2> DEFINE proposed == commit_timestamp[x]
             lower    == txns[x].commit_lower_bound
  <2>1. operation[x] = "SetCommitTs" /\ operation'[x] = "Validate"
    BY <1>5 DEF SetCommitTs, Moves, TypeOK
  <2>2. commit_timestamp'[x] = IF proposed < lower THEN lower ELSE proposed
    BY <1>5 DEF SetCommitTs, SetCommitTimestampResult, TypeOK
  <2>3. proposed > ts \/ lower > ts
    BY <2>1 DEF Yields
  <2>4. commit_timestamp'[x] - EndTsGap >= ts
    BY <1>1, <2>2, <2>3
  <2> QED BY <2>1, <2>4 DEF Yields
<1> QED BY <1>3, <1>4, <1>5 DEF UploadNext

\* Whatever x does once it has uploaded something, it goes on yielding.
LEMMA OwnYields ==
  ASSUME EndTsGap <= 1, TypeOK, TypeOK', OwnershipInv, NEW x \in Txn, NEW ts \in Int, Yields(x, ts),
         operation[x] \notin BeforeUpload, Client(x) \/ Progress(x)
  PROVE  Yields(x, ts)'
<1>1. ~ Client(x)
  BY DEF Client, Begin, Commit, Abort, ReadDataStore, Read, Insert, Upsert, CallReadOutside,
         Update, Delete, Requested, Moves, BeforeUpload
<1>2. ~ (InitTxn(x) \/ InitTxnError(x) \/ ReadOutside(x) \/ ReadOutsideError(x) \/ ReadDataStoreNext(x))
  BY DEF InitTxn, InitTxnError, ReadOutside, ReadOutsideError, ReadOutsideNext, ReadNext,
         InsertNext, UpsertNext, ReadDataStoreNext, Moves, BeforeUpload
<1>3. CASE \/ SetCommitTsError(x) \/ ValidateNext(x) \/ WriteToLog(x)
           \/ UpdateTxnStatusToCommit(x) \/ UpdateTxnStatusToCommitError(x)
           \/ PostProcessingAfterCommitNext(x)
           \/ UpdateTxnStatusToAbort(x) \/ UpdateTxnStatusToAbortError(x)
           \/ PostProcessingAfterAbortNext(x) \/ ReleaseReadCounterNext(x)
  <2>1. UNCHANGED tsVars
    BY <1>3 DEF SetCommitTsError, ValidateNext, WriteToLog, UpdateTxnStatusToCommit,
         UpdateTxnStatusToCommitError, PostProcessingAfterCommitNext, UpdateTxnStatusToAbort,
         UpdateTxnStatusToAbortError, PostProcessingAfterAbortNext, ReleaseReadCounterNext, AbortFrom, Recover
  <2>2. \/ operation'[x] \notin Choosing
        \/ operation[x] \in AfterTimestamp /\ operation'[x] \in AfterTimestamp
    BY <1>3 DEF SetCommitTsError, ValidateNext, WriteToLog, UpdateTxnStatusToCommit,
         UpdateTxnStatusToCommitError, PostProcessingAfterCommitNext, UpdateTxnStatusToAbort,
         UpdateTxnStatusToAbortError, PostProcessingAfterAbortNext, ReleaseReadCounterNext, AbortFrom, Recover,
         Moves, TypeOK, Choosing, AfterTimestamp
  <2>3. /\ txns \in [Txn -> TxnEntry]
        /\ max_commit_timestamp_of_writers[x] \in Int /\ txns[x].commit_lower_bound \in Int
    BY Stamps DEF TypeOK, DbTypeOK
  <2>4. \/ txns' = txns \/ UpdateTxnStatus(x, "Aborted")
        \/ UpdateTxnStatus(x, "Committed") /\ operation[x] \in AfterTimestamp
    BY <1>3 DEF SetCommitTsError, ValidateNext, WriteToLog, UpdateTxnStatusToCommit,
         UpdateTxnStatusToCommitError, PostProcessingAfterCommitNext, UpdateTxnStatusToAbort,
         UpdateTxnStatusToAbortError, PostProcessingAfterAbortNext, ReleaseReadCounterNext, Moves, Fails,
         dbVars, AfterTimestamp
  <2>5. /\ txns'[x].commit_lower_bound = txns[x].commit_lower_bound
        /\ x \in Committed' => x \in Committed \/ operation[x] \in AfterTimestamp
    BY <2>3, <2>4 DEF UpdateTxnStatus, TxnEntry, Committed
  <2> QED BY <2>1, <2>2, <2>3, <2>5, BoundsYield DEF tsVars
<1> QED BY <1>1, <1>2, <1>3, EntriesYield, ChoiceYields DEF Progress


\* Writes stay in the write set, and a new one is in the store by an upload.
LEMMA WritesStep ==
  ASSUME TypeOK, OwnershipInv, ExecutionInv, ChainInv, TypeOK', OwnershipInv', ExecutionInv',
         NEW t \in Txn, Client(t) \/ Progress(t),
         NEW x \in Txn, NEW j, NEW k \in Key, NEW n \in 1 .. MaxVersion
  PROVE  /\ Writes(x, j, k, n) =>
              /\ Writes(x, j, k, n)'
              /\ x \in Committed => x \in Committed' /\ commit_timestamp'[x] = commit_timestamp[x]
         /\ Writes(x, j, k, n)' =>
              \/ Writes(x, j, k, n)
              \/ /\ x = t /\ j \in DOMAIN writeSet[t] /\ UploadVersionEntry(t, j)
                 /\ writeSet[t][j].key = k /\ writeSet[t][j].version = n
<1>1. CASE x # t
  <2>1. /\ writeSet'[x] = writeSet[x] /\ commit_timestamp'[x] = commit_timestamp[x]
        /\ txns'[x].status = txns[x].status
    BY <1>1, EveryStepFrame DEF Frame
  <2> QED BY <2>1 DEF Writes, Committed
<1>2. CASE x = t /\ CalmStep(t)
  <2>1. Kept(x, j)
    BY <1>2 DEF CalmStep
  <2> QED BY <2>1 DEF Kept, SameHold
<1>3. ASSUME x = t, NEW i \in DOMAIN writeSet[t], UploadVersionEntry(t, i)
      PROVE  /\ Writes(x, j, k, n) =>
                  /\ Writes(x, j, k, n)'
                  /\ x \in Committed => x \in Committed' /\ commit_timestamp'[x] = commit_timestamp[x]
             /\ Writes(x, j, k, n)' => Writes(x, j, k, n) \/
                  (j = i /\ writeSet[t][j].key = k /\ writeSet[t][j].version = n)
  <2>1. /\ SetsKept(t)
        /\ \A l \in DOMAIN writeSet[t] : writeSet'[t][l].need_post_processing =>
             l = i \/ writeSet[t][l].need_post_processing
    BY <1>3, UploadKeepsSets
  <2>2. txns' = txns /\ commit_timestamp' = commit_timestamp
    BY <1>3 DEF UploadVersionEntry, UploadVersion
  <2> QED BY <1>3, <2>1, <2>2 DEF SetsKept, Writes, Committed
<1>4. ASSUME x = t, NEW i \in DOMAIN writeSet[t],
             \/ PostProcessingCommitNew(t, i) \/ PostProcessingClosePrev(t, i)
             \/ PostProcessingDeleteEntryAfterAbort(t, i)
      PROVE  /\ Writes(x, j, k, n)' <=> Writes(x, j, k, n)
             /\ x \in Committed => x \in Committed' /\ commit_timestamp'[x] = commit_timestamp[x]
  <2>1. txns' = txns /\ commit_timestamp' = commit_timestamp /\ writeSet' = writeSet
    BY <1>4 DEF PostProcessingCommitNew, PostProcessingClosePrev, CommitEntryAnswered,
         PostProcessingDeleteEntryAfterAbort, CommitNewVersion, ClosePrevVersion, DeleteVersion,
         localVars, tsVars
  <2> QED BY <2>1 DEF Writes, Committed
<1>5. CalmStep(t) \/ \E i \in DOMAIN writeSet[t] : StoreStep(t, i)
  BY ClientCalm, ProgressCalm
<1> QED BY <1>1, <1>2, <1>3, <1>4, <1>5 DEF StoreStep

-----------------------------------------------------------------------------
(* What a step does to a reader.                                           *)

\* t has validated nothing after the step.
NothingValidated(t) == operation'[t] \notin AfterTimestamp /\ t \notin Committed'

\* Requests, uploads and aborts do not get to Validate, or past it.
LEMMA NoneBeforeValidate ==
  ASSUME TypeOK, OwnershipInv, ExecutionInv, NEW t \in Txn,
         \/ Client(t) \/ InitTxn(t) \/ InitTxnError(t) \/ ReadOutside(t) \/ ReadOutsideError(t)
         \/ ReadDataStoreNext(t) \/ UploadNext(t)
  PROVE  NothingValidated(t)
<1>1. operation'[t] \notin AfterTimestamp
  <2>1. CASE Client(t)
    BY <2>1 DEF Client, Begin, Commit, Abort, ReadDataStore, Read, Insert, Upsert,
                CallReadOutside, Update, Delete, Requested, Moves, TypeOK, AfterTimestamp
  <2>2. CASE UploadNext(t)
    BY <2>2 DEF UploadNext, AbortFrom, Moves, TypeOK, AfterTimestamp
  <2>3. CASE InitTxn(t) \/ InitTxnError(t) \/ ReadOutside(t) \/ ReadOutsideError(t) \/ ReadDataStoreNext(t)
    BY <2>3 DEF InitTxn, InitTxnError, ReadOutside, ReadOutsideError, ReadOutsideNext,
                ReadDataStoreNext, Moves, TypeOK, AfterTimestamp
  <2> QED BY <2>1, <2>2, <2>3
<1>2. t \notin Committed
  <2>1. operation[t] \notin AfterDecision
    <3>1. CASE Client(t)
      BY <3>1 DEF Client, Begin, Commit, Abort, ReadDataStore, Read, Insert, Upsert,
                  CallReadOutside, Update, Delete, Requested, Moves, AfterDecision
    <3>2. CASE UploadNext(t)
      BY <3>2 DEF UploadNext, AbortFrom, Moves, AfterDecision
    <3>3. CASE InitTxn(t) \/ InitTxnError(t) \/ ReadOutside(t) \/ ReadOutsideError(t) \/ ReadDataStoreNext(t)
      BY <3>3 DEF InitTxn, InitTxnError, ReadOutside, ReadOutsideError, ReadOutsideNext,
                  ReadNext, InsertNext, UpsertNext, ReadDataStoreNext, Moves, AfterDecision
    <3> QED BY <3>1, <3>2, <3>3
  <2> QED BY <2>1, BeforeDecision
<1>3. txns' = txns \/ txns'[t].status = "Ongoing"
  <2>1. CASE InitTxn(t)
    BY <2>1 DEF InitTxn, NewTxn, TypeOK, DbTypeOK
  <2>2. CASE Client(t)
    BY <2>2 DEF Client, Begin, Commit, Abort, ReadDataStore, Read, Insert, Upsert,
                CallReadOutside, Update, Delete, dbVars
  <2>3. CASE \/ InitTxnError(t) \/ ReadOutside(t) \/ ReadOutsideError(t)
             \/ ReadDataStoreNext(t) \/ UploadNext(t)
    BY <2>3 DEF InitTxnError, ReadOutside, ReadOutsideError, GetVersionList,
                ReadDataStoreNext, UploadNext, Fails, dbVars
  <2> QED BY <2>1, <2>2, <2>3
<1> QED BY <1>1, <1>2, <1>3 DEF NothingValidated, Committed

LEMMA NoneInAbort ==
  ASSUME TypeOK, OwnershipInv, ExecutionInv, NEW t \in Txn,
         \/ SetCommitTsError(t) \/ UpdateTxnStatusToCommitError(t)
         \/ UpdateTxnStatusToAbort(t) \/ UpdateTxnStatusToAbortError(t)
         \/ PostProcessingAfterAbortNext(t) \/ ReleaseReadCounterNext(t)
         \/ \E j \in DOMAIN writeSet[t] :
              \/ UploadVersionEntry(t, j) \/ UploadVersionEntryError(t, j)
              \/ PostProcessingDeleteEntryAfterAbort(t, j)
              \/ PostProcessingDeleteEntryAfterAbortError(t, j)
  PROVE  NothingValidated(t)
<1>1. SelfInv(t) /\ Undecided(t) /\ DeletesUploaded(t)
  BY DEF ExecutionInv, OwnershipInv
<1>2. CASE SetCommitTsError(t)
  <2>1. operation[t] = "SetCommitTs" /\ operation'[t] = "UpdateTxnStatusToAbort" /\ txns' = txns
    BY <1>2 DEF SetCommitTsError, AbortFrom, Moves, Fails, dbVars, TypeOK
  <2> QED BY <1>1, <2>1 DEF NothingValidated, AfterTimestamp, AfterDecision, Undecided, Committed
<1>3. CASE UpdateTxnStatusToCommitError(t) \/ UpdateTxnStatusToAbortError(t)
  <2>1. /\ operation[t] \notin AfterDecision
        /\ operation'[t] = "Recover" /\ txns' = txns
    BY <1>3 DEF UpdateTxnStatusToCommitError, UpdateTxnStatusToAbortError, Recover, Moves,
                Fails, dbVars, TypeOK, AfterDecision
  <2> QED BY <1>1, <2>1 DEF NothingValidated, AfterTimestamp, Undecided, Committed
<1>4. CASE UpdateTxnStatusToAbort(t)
  <2>1. operation'[t] = "PostProcessingAfterAbort" /\ UpdateTxnStatus(t, "Aborted")
    BY <1>4 DEF UpdateTxnStatusToAbort, Moves, TypeOK
  <2>2. txns'[t].status = "Aborted"
    BY <2>1 DEF UpdateTxnStatus, TypeOK, DbTypeOK, TxnEntry
  <2> QED BY <2>1, <2>2 DEF NothingValidated, AfterTimestamp, Committed
<1>5. CASE PostProcessingAfterAbortNext(t) \/ ReleaseReadCounterNext(t)
  <2>1. /\ operation[t] \in {"PostProcessingAfterAbort", "ReleaseReadCounter"}
        /\ operation'[t] \in {"ReleaseReadCounter", "Finished"} /\ txns' = txns
    BY <1>5 DEF PostProcessingAfterAbortNext, ReleaseReadCounterNext, Moves, dbVars, TypeOK
  <2> QED BY <1>1, <2>1 DEF NothingValidated, AfterTimestamp, SelfInv, Outcome, Committed
<1>6. ASSUME NEW j \in DOMAIN writeSet[t], UploadVersionEntry(t, j) \/ UploadVersionEntryError(t, j)
      PROVE  NothingValidated(t)
  <2>1. /\ CallFor("UploadVersion", j) \in calls[t] /\ operation' = operation /\ txns' = txns
    BY <1>6 DEF UploadVersionEntry, UploadVersionEntryError, UploadVersion, dbVars
  <2>2. operation[t] = "Upload"
    BY <1>1, <2>1 DEF SelfInv, CallsMatch, CallFor
  <2> QED BY <1>1, <2>1, <2>2 DEF NothingValidated, AfterTimestamp, AfterDecision, Undecided, Committed
<1>7. ASSUME NEW j \in DOMAIN writeSet[t],
             \/ PostProcessingDeleteEntryAfterAbort(t, j)
             \/ PostProcessingDeleteEntryAfterAbortError(t, j)
      PROVE  NothingValidated(t)
  <2>1. /\ CallFor("DeleteVersion", j) \in calls[t] /\ txns' = txns
        /\ operation'[t] \in {operation[t], "Recover"}
    BY <1>7 DEF PostProcessingDeleteEntryAfterAbort, PostProcessingDeleteEntryAfterAbortError,
                DeleteVersion, Recover, Moves, dbVars, TypeOK
  <2>2. operation[t] \in {"PostProcessingAfterAbort", "Recover"} /\ txns[t].status = "Aborted"
    BY <1>1, <2>1 DEF DeletesUploaded, CallFor
  <2> QED BY <2>1, <2>2 DEF NothingValidated, AfterTimestamp, Committed
<1> QED BY <1>2, <1>3, <1>4, <1>5, <1>6, <1>7


\* Entry i is the read it was, for the same commit timestamp.
SameRead(t, i) ==
  /\ i \in DOMAIN readSet[t]
  /\ readSet'[t][i].key = readSet[t][i].key
  /\ readSet'[t][i].version = readSet[t][i].version
  /\ readSet'[t][i].is_updated = readSet[t][i].is_updated
  /\ commit_timestamp'[t] = commit_timestamp[t]

\* Entry i was validated before, and whom it is still to push is not forgotten.
StillValidated(t, i) ==
  /\ Validated(t, i)
  /\ \A u \in Txn : PushCall(i, u) \in calls[t] => PushCall(i, u) \in calls'[t]

\* An entry becomes validated by its reread, and stays so by pushes that do not
\* find a conflict and by whatever follows.
ReaderStep(t, i) ==
  \/ /\ UpdateReadEntryMaxCommitTs(t, i)
     /\ ~ MustAbort(versions[readSet[t][i].key][readSet[t][i].version], commit_timestamp[t])
  \/ /\ Validated(t, i)
     /\ \E l \in DOMAIN readSet[t] : \E u \in Txn :
          /\ PushConflictTxnCommitTsLowerBound(t, l, u)
          /\ ~ Conflicts(txns[u], commit_timestamp[t])
  \/ StillValidated(t, i)

LEMMA SetsKeptRead ==
  ASSUME NEW t \in Txn, SetsKept(t), commit_timestamp' = commit_timestamp,
         NEW i \in DOMAIN readSet'[t]
  PROVE  SameRead(t, i)
BY DEF SetsKept, SameRead

LEMMA MovesRead ==
  ASSUME TypeOK, OwnershipInv, ExecutionInv, NEW t \in Txn, NEW i, Validated(t, i)',
         \/ SetCommitTs(t) \/ ValidateNext(t) \/ WriteToLog(t) \/ UpdateTxnStatusToCommit(t)
         \/ PostProcessingAfterCommitNext(t)
  PROVE  SameRead(t, i) /\ ReaderStep(t, i)
<1>1. SelfInv(t) /\ Undecided(t)
  BY DEF ExecutionInv, OwnershipInv
<1>2. UNCHANGED localVars
  BY DEF SetCommitTs, ValidateNext, AbortFrom, WriteToLog, UpdateTxnStatusToCommit, PostProcessingAfterCommitNext
<1>3. i \in DOMAIN readSet[t] /\ ~ readSet[t][i].is_updated
  BY <1>2 DEF localVars, Validated
<1>4. ~ SetCommitTs(t)
  <2> SUFFICES ASSUME SetCommitTs(t) PROVE FALSE
    OBVIOUS
  <2>1. operation[t] = "SetCommitTs" /\ operation'[t] = "Validate" /\ calls'[t] = RereadCalls(t)
    BY DEF SetCommitTs, Moves, TypeOK
  <2>2. CallFor("UpdateReadEntryMaxCommitTs", i) \in calls'[t]
    BY <1>3, <2>1 DEF RereadCalls
  <2>3. t \notin Committed'
    BY <1>1, <2>1 DEF SetCommitTs, SetCommitTimestamp, Undecided, AfterDecision, Committed,
         TypeOK, DbTypeOK, TxnEntry
  <2> QED BY <2>1, <2>2, <2>3 DEF Validated
<1>5. SameRead(t, i)
  BY <1>2, <1>3, <1>4 DEF SameRead, localVars, tsVars, ValidateNext, AbortFrom, WriteToLog,
       UpdateTxnStatusToCommit, PostProcessingAfterCommitNext
<1>6. CASE ValidateNext(t)
  <2>1. operation[t] = "Validate" /\ calls[t] = {} /\ txns' = txns
    BY <1>6 DEF ValidateNext, AbortFrom, Moves, dbVars
  <2>2. t \notin Committed'
    BY <1>1, <2>1 DEF Undecided, AfterDecision, Committed
  <2>3. operation'[t] # "UpdateTxnStatusToAbort"
    BY <2>2 DEF Validated
  <2>4. status[t] # "WaitForAborting"
    BY <1>6, <2>3 DEF ValidateNext, AbortFrom, Moves, TypeOK
  <2> QED BY <1>3, <1>5, <2>1, <2>4 DEF ReaderStep, StillValidated, Validated
<1>7. CASE WriteToLog(t) \/ UpdateTxnStatusToCommit(t)
  <2>1. operation[t] \in {"WriteToLog", "UpdateTxnStatusToCommit"}
    BY <1>7 DEF WriteToLog, UpdateTxnStatusToCommit, Moves
  <2>2. \A u \in Txn : PushCall(i, u) \notin calls[t]
    BY <1>1, <2>1 DEF SelfInv, CallsMatch, ValidateCalls, PushCall
  <2> QED BY <1>3, <1>5, <2>1, <2>2 DEF ReaderStep, StillValidated, Validated
<1>8. CASE PostProcessingAfterCommitNext(t)
  <2>1. operation[t] = "PostProcessingAfterCommit" /\ calls' = calls
    BY <1>8 DEF PostProcessingAfterCommitNext, Moves
  <2>2. t \in Committed
    BY <1>1, <2>1 DEF SelfInv, Outcome, Committed
  <2> QED BY <1>3, <1>5, <2>1, <2>2 DEF ReaderStep, StillValidated, Validated
<1> QED BY <1>4, <1>6, <1>7, <1>8

LEMMA EntriesRead ==
  ASSUME TypeOK, OwnershipInv, ExecutionInv, NEW t \in Txn, NEW i, Validated(t, i)',
         NEW l \in DOMAIN readSet[t], ReadEntryStep(t, l)
  PROVE  SameRead(t, i) /\ ReaderStep(t, i)
<1>1. SelfInv(t) /\ Undecided(t)
  BY DEF ExecutionInv, OwnershipInv
<1> DEFINE reread == CallFor("UpdateReadEntryMaxCommitTs", l)
<1>2. CASE \/ UpdateReadEntryMaxCommitTs(t, l) \/ UpdateReadEntryMaxCommitTsError(t, l)
           \/ \E u \in Txn : \/ PushConflictTxnCommitTsLowerBound(t, l, u)
                             \/ PushConflictTxnCommitTsLowerBoundError(t, l, u)
  <2>1. operation[t] = "Validate" /\ t \notin Committed
    <3>1. reread \in calls[t] \/ \E u \in Txn : PushCall(l, u) \in calls[t]
      BY <1>2 DEF UpdateReadEntryMaxCommitTs, UpdateReadEntryMaxCommitTsError,
           PushConflictTxnCommitTsLowerBound, PushConflictTxnCommitTsLowerBoundError
    <3> QED BY <1>1, <3>1 DEF SelfInv, CallsMatch, ValidateCalls, CallFor, PushCall, Undecided,
         AfterDecision, Committed
  <2>2. CASE UpdateReadEntryMaxCommitTs(t, l)
    <3>1. /\ Released(t, l) /\ operation' = operation /\ txns' = txns
          /\ UNCHANGED writeSet /\ commit_timestamp' = commit_timestamp
      BY <2>2 DEF UpdateReadEntryMaxCommitTs, UpdateMaxCommitTsAndReread, tsVars
    <3>2. SetsKept(t)
      BY <3>1, ReleaseKeepsSets DEF Released
    <3>3. i \in DOMAIN readSet'[t] /\ ~ readSet'[t][i].is_updated
      BY DEF Validated
    <3>4. SameRead(t, i)
      BY <3>1, <3>2, <3>3, SetsKeptRead
    <3>5. /\ status'[t] # "WaitForAborting"
          /\ CallFor("UpdateReadEntryMaxCommitTs", i) \notin calls'[t]
      BY <2>1, <3>1 DEF Validated, Committed
    <3>6. /\ ~ MustAbort(versions[readSet[t][l].key][readSet[t][l].version], commit_timestamp[t])
          /\ status' = status
          /\ calls[t] \ {reread} \subseteq calls'[t]
      BY <2>2, <3>5 DEF UpdateReadEntryMaxCommitTs, PrepareAbort, Answered, TypeOK
    <3>7. CASE i = l
      BY <2>2, <3>4, <3>6, <3>7 DEF ReaderStep
    <3>8. CASE i # l
      <4>1. CallFor("UpdateReadEntryMaxCommitTs", i) # reread
        BY <3>8 DEF CallFor
      <4>2. \A u \in Txn : PushCall(i, u) # reread
        BY DEF CallFor, PushCall
      <4>3. Validated(t, i)
        BY <2>1, <3>3, <3>4, <3>5, <3>6, <4>1 DEF Validated, SameRead
      <4> QED BY <3>4, <3>6, <4>2, <4>3 DEF ReaderStep, StillValidated
    <3> QED BY <3>7, <3>8
  <2>3. ASSUME NEW u \in Txn, PushConflictTxnCommitTsLowerBound(t, l, u)
        PROVE  SameRead(t, i) /\ ReaderStep(t, i)
    <3>1. /\ operation' = operation /\ UNCHANGED localVars /\ commit_timestamp' = commit_timestamp
          /\ Answered(t, PushCall(l, u))
      BY <2>3 DEF PushConflictTxnCommitTsLowerBound, tsVars
    <3>2. t \notin Committed'
      <4>1. txns \in [Txn -> TxnEntry]
        BY DEF TypeOK, DbTypeOK
      <4>2. txns'[t].status = txns[t].status
        BY <2>3, <4>1 DEF PushConflictTxnCommitTsLowerBound, UpdateCommitLowerBound, TxnEntry
      <4> QED BY <2>1, <4>2 DEF Committed
    <3>3. /\ status'[t] # "WaitForAborting" /\ ~ readSet'[t][i].is_updated /\ i \in DOMAIN readSet'[t]
          /\ CallFor("UpdateReadEntryMaxCommitTs", i) \notin calls'[t]
      BY <2>1, <3>1, <3>2 DEF Validated
    <3>4. SameRead(t, i)
      BY <3>1, <3>3, SetsUnchanged, SetsKeptRead
    <3>5. ~ Conflicts(txns[u], commit_timestamp[t]) /\ status' = status
      BY <2>3, <3>3 DEF PushConflictTxnCommitTsLowerBound, PrepareAbort, TypeOK
    <3>6. CallFor("UpdateReadEntryMaxCommitTs", i) \notin calls[t]
      <4>1. CallFor("UpdateReadEntryMaxCommitTs", i) # PushCall(l, u)
        BY DEF CallFor, PushCall
      <4> QED BY <3>1, <3>3, <4>1 DEF Answered, TypeOK
    <3>7. Validated(t, i)
      BY <2>1, <3>3, <3>4, <3>5, <3>6 DEF Validated, SameRead
    <3> QED BY <2>3, <3>4, <3>5, <3>7 DEF ReaderStep
  <2>4. ASSUME \/ UpdateReadEntryMaxCommitTsError(t, l)
               \/ \E u \in Txn : PushConflictTxnCommitTsLowerBoundError(t, l, u)
        PROVE  FALSE
    <3>1. operation' = operation /\ status'[t] = "WaitForAborting" /\ txns' = txns
      BY <2>4 DEF UpdateReadEntryMaxCommitTsError, PushConflictTxnCommitTsLowerBoundError,
           PrepareAbort, Fails, dbVars, TypeOK
    <3> QED BY <2>1, <3>1 DEF Validated, Committed
  <2> QED BY <1>2, <2>2, <2>3, <2>4
<1>3. CASE ReleaseReadCounterForEachEntry(t, l) \/ ReleaseReadCounterForEachEntryError(t, l)
  <2>1. /\ txns' = txns /\ commit_timestamp' = commit_timestamp /\ status' = status
        /\ operation'[t] \in {operation[t], "Recover"}
        /\ calls' = [calls EXCEPT ![t] = calls[t] \ {CallFor("ReleaseReadCounter", l)}]
    BY <1>3 DEF ReleaseReadCounterForEachEntry, ReleaseReadCounterForEachEntryError,
         ReleaseReadCounter, Answered, Recover, Moves, Fails, dbVars, tsVars, TypeOK
  <2>2. SetsKept(t)
    <3>1. CASE ReleaseReadCounterForEachEntry(t, l)
      BY <3>1, ReleaseKeepsSets DEF ReleaseReadCounterForEachEntry, Released
    <3>2. CASE ReleaseReadCounterForEachEntryError(t, l)
      BY <3>2, SetsUnchanged DEF ReleaseReadCounterForEachEntryError, Recover
    <3> QED BY <1>3, <3>1, <3>2
  <2>3. SameRead(t, i)
    BY <2>1, <2>2, SetsKeptRead DEF Validated
  <2>4. \A call \in calls[t] : call.op # "ReleaseReadCounter" => call \in calls'[t]
    BY <2>1 DEF TypeOK, CallFor
  <2>5. Validated(t, i)
    <3>1. /\ CallFor("UpdateReadEntryMaxCommitTs", i) \in calls[t] =>
               CallFor("UpdateReadEntryMaxCommitTs", i) \in calls'[t]
      BY <2>4 DEF CallFor
    <3>2. operation'[t] = "Recover" => t \in Committed'
      BY DEF Validated
    <3> QED BY <2>1, <2>3, <3>1, <3>2 DEF Validated, SameRead, Committed
  <2> QED BY <2>3, <2>4, <2>5 DEF ReaderStep, StillValidated, PushCall
<1> QED BY <1>2, <1>3 DEF ReadEntryStep


LEMMA CommitsRead ==
  ASSUME TypeOK, OwnershipInv, ExecutionInv, NEW t \in Txn, NEW i, Validated(t, i)',
         NEW j \in DOMAIN writeSet[t],
         \/ PostProcessingCommitNew(t, j) \/ PostProcessingClosePrev(t, j)
         \/ PostProcessingCommitEntryError(t, j)
  PROVE  SameRead(t, i) /\ ReaderStep(t, i)
<1>1. SelfInv(t)
  BY DEF ExecutionInv
<1>2. PICK half \in CommitHalf, is_error \in BOOLEAN :
        CallFor(half, j) \in calls[t] /\ CommitEntryAnswered(t, j, half, is_error)
  BY DEF PostProcessingCommitNew, PostProcessingClosePrev, PostProcessingCommitEntryError, CommitHalf
<1>3. t \in Committed
  BY <1>1, <1>2 DEF SelfInv, CallsMatch, CommitCalls, CommitHalf, CallFor
<1>4. SetsKept(t) /\ commit_timestamp' = commit_timestamp
  BY <1>2, CommitEntryKeepsSets DEF CommitEntryAnswered, tsVars
<1>5. SameRead(t, i) /\ ~ readSet[t][i].is_updated
  <2>1. i \in DOMAIN readSet'[t] /\ ~ readSet'[t][i].is_updated
    BY DEF Validated
  <2>2. SameRead(t, i)
    BY <1>4, <2>1, SetsKeptRead
  <2> QED BY <2>1, <2>2 DEF SameRead
<1>6. calls[t] \ {CallFor(half, j)} \subseteq calls'[t]
  BY <1>1, <1>2, CommitEntryEffect DEF SelfInv
<1>7. \A u \in Txn : PushCall(i, u) # CallFor(half, j)
  BY DEF PushCall, CallFor, CommitHalf
<1>8. Validated(t, i)
  BY <1>3, <1>5 DEF Validated, SameRead
<1> QED BY <1>5, <1>6, <1>7, <1>8 DEF ReaderStep, StillValidated

LEMMA EveryStepReads ==
  ASSUME TypeOK, OwnershipInv, ExecutionInv, NEW t \in Txn, NEW i, Validated(t, i)',
         Client(t) \/ Progress(t)
  PROVE  SameRead(t, i) /\ ReaderStep(t, i)
<1>1. NothingValidated(t) => FALSE
  BY DEF NothingValidated, Validated, AfterTimestamp
<1>2. ASSUME NEW j \in DOMAIN writeSet[t], WriteEntryStep(t, j)
      PROVE  SameRead(t, i) /\ ReaderStep(t, i)
  BY <1>1, <1>2, CommitsRead, NoneInAbort DEF WriteEntryStep
<1>3. CASE \E l \in DOMAIN readSet[t] : ReadEntryStep(t, l)
  BY <1>3, EntriesRead
<1>4. CASE \/ SetCommitTs(t) \/ ValidateNext(t) \/ WriteToLog(t) \/ UpdateTxnStatusToCommit(t)
           \/ PostProcessingAfterCommitNext(t)
  BY <1>4, MovesRead
<1>5. CASE \/ Client(t) \/ InitTxn(t) \/ InitTxnError(t) \/ ReadOutside(t) \/ ReadOutsideError(t)
           \/ ReadDataStoreNext(t) \/ UploadNext(t)
  BY <1>1, <1>5, NoneBeforeValidate
<1>6. CASE \/ SetCommitTsError(t) \/ UpdateTxnStatusToCommitError(t)
           \/ UpdateTxnStatusToAbort(t) \/ UpdateTxnStatusToAbortError(t)
           \/ PostProcessingAfterAbortNext(t) \/ ReleaseReadCounterNext(t)
  BY <1>1, <1>6, NoneInAbort
<1> QED BY <1>2, <1>3, <1>4, <1>5, <1>6 DEF Progress

-----------------------------------------------------------------------------
(* Validated reads stay protected.                                         *)

\* The writer of a version goes on yielding,
LEMMA YieldKept ==
  ASSUME EndTsGap <= 1, TypeOK, TypeOK', OwnershipInv, ExecutionInv, NEW t \in Txn,
         Client(t) \/ Progress(t), NEW x \in Txn, NEW j, NEW k, NEW n, Writes(x, j, k, n),
         NEW ts \in Int, Yields(x, ts)
  PROVE  Yields(x, ts)'
<1>1. operation[x] \notin BeforeUpload
  BY DEF ExecutionInv, SelfInv, NothingUploaded, Writes
<1> QED BY <1>1, EveryStepFrame, OthersYield, OwnYields

\* and one that comes later finds the reader's timestamp.
LEMMA UploaderYields ==
  ASSUME TypeOK, TypeOK', OwnershipInv, ExecutionInv, NEW t \in Txn,
         NEW j \in DOMAIN writeSet[t], UploadVersionEntry(t, j), NEW k \in Key, NEW n \in 0 .. MaxVersion,
         writeSet[t][j].key = k, writeSet[t][j].version = n + 1,
         NEW ts \in Int, versions[k][n].max_commit_ts >= ts
  PROVE  Yields(t, ts)'
<1> DEFINE candidate == UploadVersionResult(k, n + 1)
           old == max_commit_timestamp_of_writers[t]
<1>1. max_commit_timestamp_of_writers'[t] = IF old < candidate THEN candidate ELSE old
  BY DEF UploadVersionEntry, TypeOK
<1>2. candidate = versions[k][n].max_commit_ts
  BY DEF UploadVersionResult
<1>3. candidate \in Int /\ old \in Int
  BY <1>2, StoredEntries, Stamps DEF VersionEntry
<1> HIDE DEF candidate, old
<1>4. max_commit_timestamp_of_writers'[t] >= ts
  BY <1>1, <1>2, <1>3
<1>5. operation[t] = "Upload"
  BY DEF UploadVersionEntry, ExecutionInv, SelfInv, CallsMatch, CallFor
<1>6. operation' = operation /\ txns' = txns
  BY DEF UploadVersionEntry, UploadVersion
<1>7. t \notin Committed'
  BY <1>5, <1>6 DEF OwnershipInv, Undecided, AfterDecision, Committed
<1> QED BY <1>4, <1>5, <1>6, <1>7 DEF Yields, AfterTimestamp

\* The writer of the next version is not forgotten.
LEMMA StaysClosed ==
  ASSUME TypeOK, OwnershipInv, ExecutionInv, ChainInv, TypeOK', OwnershipInv', ExecutionInv',
         NEW t \in Txn, Client(t) \/ Progress(t),
         NEW k \in Key, NEW n \in 0 .. MaxVersion, StaysProtected(k, n), ClosedByWriter(k, n)
  PROVE  ClosedByWriter(k, n)'
<1>1. PICK x \in Committed : \E j \in DOMAIN writeSet[x] :
        Writes(x, j, k, n + 1) /\ versions[k][n].end_ts = commit_timestamp[x] - EndTsGap
  BY DEF ClosedByWriter
<1>2. PICK j \in DOMAIN writeSet[x] :
        Writes(x, j, k, n + 1) /\ versions[k][n].end_ts = commit_timestamp[x] - EndTsGap
  BY <1>1
<1>3. x \in Txn /\ n + 1 \in 1 .. MaxVersion
  BY <1>2, WritePlace DEF Committed
<1>4. Writes(x, j, k, n + 1)' /\ x \in Committed' /\ commit_timestamp'[x] = commit_timestamp[x]
  BY <1>1, <1>2, <1>3, WritesStep
<1>5. j \in DOMAIN writeSet'[x]
  BY <1>4 DEF Writes
<1>6. CASE versions'[k][n].end_ts = versions[k][n].end_ts
  <2>1. versions'[k][n].end_ts = commit_timestamp'[x] - EndTsGap
    BY <1>2, <1>4, <1>6
  <2> QED BY <1>4, <1>5, <2>1 DEF ClosedByWriter
<1> QED BY <1>6 DEF StaysProtected

\* A protected read stays so as long as the writers that t stops waiting for yield.
LEMMA StaysReadable ==
  ASSUME EndTsGap <= 1, TypeOK, OwnershipInv, ExecutionInv, ChainInv,
         TypeOK', OwnershipInv', ExecutionInv',
         NEW a \in Txn, Client(a) \/ Progress(a),
         NEW t \in Txn, NEW i, NEW k \in Key, NEW n \in 0 .. MaxVersion,
         Protected(t, i, k, n), Stable(k, n), commit_timestamp'[t] = commit_timestamp[t],
         \A x \in Txn : \A j \in DOMAIN writeSet[x] :
           Writes(x, j, k, n + 1) /\ PushCall(i, x) \in calls[t] /\ PushCall(i, x) \notin calls'[t] =>
             Yields(x, commit_timestamp[t])'
  PROVE  Protected(t, i, k, n)'
<1> DEFINE ts == commit_timestamp[t]
<1>1. ts \in Int /\ versions[k][n] \in VersionEntry
  BY Stamps, StoredEntries
<1>2. versions'[k][n].max_commit_ts \in Int
  <2>1. DbTypeOK'
    BY DEF TypeOK
  <2>2. versions'[k][n] \in VersionEntry
    BY <2>1 DEF DbTypeOK
  <2> QED BY <2>2 DEF VersionEntry
<1>3. StaysProtected(k, n)
  BY StepProtects
<1>4. versions'[k][n].max_commit_ts >= ts
  BY <1>1, <1>2, <1>3 DEF Protected, StaysProtected, VersionEntry
<1>5. versions'[k][n].end_ts >= ts \/ ClosedByWriter(k, n)'
  BY <1>3, StaysClosed DEF Protected, StaysProtected
<1>6. ASSUME NEW x \in Txn, NEW j, Writes(x, j, k, n + 1)', PushCall(i, x) \notin calls'[t]
      PROVE  Yields(x, ts)'
  <2>1. n + 1 \in 1 .. MaxVersion
    <3>1. j \in DOMAIN writeSet'[x] /\ writeSet'[x] \in Seq(WriteSetEntry)
      BY <1>6 DEF Writes, TypeOK
    <3>2. writeSet'[x][j] \in WriteSetEntry
      BY <3>1
    <3> QED BY <1>6, <3>2 DEF Writes, WriteSetEntry
  <2>2. CASE Writes(x, j, k, n + 1)
    <3>1. j \in DOMAIN writeSet[x]
      BY <2>2 DEF Writes
    <3>2. CASE PushCall(i, x) \in calls[t]
      BY <1>6, <2>2, <3>1, <3>2
    <3>3. CASE PushCall(i, x) \notin calls[t]
      <4>1. Yields(x, ts)
        BY <2>2, <3>1, <3>3 DEF Protected
      <4> QED BY <1>1, <2>2, <4>1, YieldKept
    <3> QED BY <3>2, <3>3
  <2>3. CASE ~ Writes(x, j, k, n + 1)
    <3>1. \A m \in 1 .. MaxVersion :
            Writes(x, j, k, m)' /\ ~ Writes(x, j, k, m) =>
              /\ x = a /\ j \in DOMAIN writeSet[a] /\ UploadVersionEntry(a, j)
              /\ writeSet[a][j].key = k /\ writeSet[a][j].version = m
      BY WritesStep
    <3>2. /\ x = a /\ j \in DOMAIN writeSet[a] /\ UploadVersionEntry(a, j)
          /\ writeSet[a][j].key = k /\ writeSet[a][j].version = n + 1
      BY <1>6, <2>1, <2>3, <3>1
    <3>3. versions[k][n].max_commit_ts >= ts
      BY DEF Protected
    <3> QED BY <1>1, <3>2, <3>3, UploaderYields
  <2> QED BY <2>2, <2>3
<1> QED BY <1>4, <1>5, <1>6 DEF Protected


\* The writer that a reader has pushed without a conflict yields: it has not chosen
\* its timestamp, and the table keeps the lower bound for it, or has chosen a later one.
LEMMA PushedYields ==
  ASSUME EndTsGap <= 1, TypeOK, TypeOK', OwnershipInv, ExecutionInv, ChainInv,
         NEW t \in Txn, NEW l \in DOMAIN readSet[t], NEW u \in Txn,
         PushConflictTxnCommitTsLowerBound(t, l, u), ~ Conflicts(txns[u], commit_timestamp[t]),
         NEW j, NEW k, NEW n, Writes(u, j, k, n)
  PROVE  Yields(u, commit_timestamp[t])'
<1> DEFINE ts == commit_timestamp[t]
           asked == ts + 1
<1>1. /\ ts \in Int /\ asked \in Int /\ commit_timestamp[u] \in Int
      /\ txns[u].commit_lower_bound \in Int /\ txns[u].commit_ts \in Int
      /\ txns \in [Txn -> TxnEntry] /\ EndTsGap \in Nat
  BY Stamps, VersionDbAssumption DEF TypeOK, DbTypeOK
<1>2. SelfInv(u) /\ Undecided(u)
  BY DEF ExecutionInv, OwnershipInv
<1>3. operation' = operation /\ UNCHANGED tsVars /\ UpdateCommitLowerBound(u, asked)
  BY DEF PushConflictTxnCommitTsLowerBound
<1>4. txns'[u] = IF txns[u].commit_ts = kDefaultCommitTs /\ txns[u].commit_lower_bound < asked
                 THEN [txns[u] EXCEPT !.commit_lower_bound = asked]
                 ELSE txns[u]
  BY <1>1, <1>3 DEF UpdateCommitLowerBound, TxnEntry
<1> HIDE DEF asked
<1>5. /\ txns'[u].status = txns[u].status
      /\ txns[u].commit_ts = kDefaultCommitTs => txns'[u].commit_lower_bound >= asked
  BY <1>1, <1>4 DEF TxnEntry
<1>6. operation[u] \in {"Upload", "SetCommitTs"} => txns'[u].commit_lower_bound > ts
  <2>1. operation[u] \in BeforeTimestamp => txns[u].commit_ts = kDefaultCommitTs
    BY <1>2 DEF SelfInv, TimestampInTable
  <2>2. txns'[u].commit_lower_bound \in Int
    BY StampsNext
  <2> QED BY <1>1, <1>5, <2>1, <2>2 DEF BeforeTimestamp, asked
<1>7. ASSUME operation[u] \in AfterTimestamp \/ u \in Committed
      PROVE  commit_timestamp[u] > ts
  <2>1. txns[u].commit_ts = commit_timestamp[u]
    BY <1>2, <1>7 DEF SelfInv, TimestampInTable
  <2>2. commit_timestamp[u] >= 0
    <3> DEFINE r == readSet[u][writeSet[u][j].read_entry]
    <3>1. j \in DOMAIN writeSet[u] /\ writeSet[u][j].read_entry \in DOMAIN readSet[u]
      BY <1>2 DEF SelfInv, SetsLinked, Writes
    <3>2. r.begin_ts < commit_timestamp[u]
      BY <1>2, <1>7, <3>1 DEF SelfInv, TimestampAfterReads
    <3>3. r.key \in Key /\ r.version \in 0 .. MaxVersion
      BY <3>1, ReadPlace
    <3>4. ReadStable(r)
      BY <3>1 DEF ChainInv, ReadsStable
    <3>5. r.begin_ts \in Int /\ r.begin_ts >= 0
      BY <3>3, <3>4, StableBegin DEF ReadStable
    <3> HIDE DEF r
    <3> QED BY <1>1, <3>2, <3>5
  <2>3. txns[u].status \in {"Ongoing", "Committed"}
    BY <1>2, <1>7 DEF Undecided, AfterTimestamp, AfterDecision, Committed
  <2> QED BY <1>1, <2>1, <2>2, <2>3 DEF Conflicts, kDefaultCommitTs
<1>8. u \in Committed' => u \in Committed
  BY <1>5 DEF Committed
<1> QED BY <1>1, <1>3, <1>6, <1>7, <1>8 DEF Yields, tsVars

\* The reread of entry i protects it: a writer that has the version locked is to be
\* pushed, and one that has closed it has not closed it too early.
LEMMA RereadYields ==
  ASSUME EndTsGap <= 1, TypeOK, OwnershipInv, ExecutionInv, ChainInv,
         NEW t \in Txn, NEW i \in DOMAIN readSet[t], UpdateReadEntryMaxCommitTs(t, i),
         NEW k \in Key, NEW n \in 0 .. MaxVersion, Reads(t, i, k, n),
         ~ MustAbort(versions[k][n], commit_timestamp[t]),
         NEW x \in Txn, NEW j \in DOMAIN writeSet[x], Writes(x, j, k, n + 1),
         PushCall(i, x) \notin calls'[t]
  PROVE  Yields(x, commit_timestamp[t])
<1>1. n + 1 \in 1 .. MaxVersion /\ n + 1 - 1 = n
  BY WritePlace
<1>2. /\ commit_timestamp[t] \in Int /\ commit_timestamp[x] \in Int /\ EndTsGap \in Nat
      /\ versions[k][n] \in VersionEntry
  BY Stamps, StoredEntries, VersionDbAssumption
<1>3. Undecided(x) /\ Owns(x, j, k, n + 1)
  BY <1>1 DEF OwnershipInv, ChainInv, HolderOwns
<1>4. versions[k][n].tx_id # x
  <2> SUFFICES ASSUME versions[k][n].tx_id = x PROVE FALSE
    OBVIOUS
  <2>1. IsLocked(versions[k][n], t)
    BY VersionDbAssumption DEF IsLocked
  <2>2. PushCall(i, x) \in calls'[t]
    <3>1. readSet[t][i].key = k /\ readSet[t][i].version = n
      BY DEF Reads
    <3> QED BY <2>1, <3>1 DEF UpdateReadEntryMaxCommitTs, TypeOK
  <2> QED BY <2>2
<1>5. ~ PrevHeld(x, j)
  BY <1>1, <1>3, <1>4 DEF Owns
<1>6. CASE x \in Committed
  <2>1. versions[k][n].end_ts = commit_timestamp[x] - EndTsGap
    BY <1>1, <1>3, <1>5, <1>6 DEF Owns
  <2>2. commit_timestamp[x] - EndTsGap >= commit_timestamp[t]
    BY <1>2, <2>1 DEF MustAbort, VersionEntry
  <2>3. operation[x] \in AfterDecision
    BY <1>3, <1>6 DEF Undecided, Committed
  <2> QED BY <2>2, <2>3 DEF Yields, AfterDecision
<1>7. CASE x \notin Committed
  <2>1. txns[x].status = "Aborted"
    BY <1>5, <1>7 DEF PrevHeld, Pending
  <2>2. operation[x] \in AfterDecision
    BY <1>3, <2>1 DEF Undecided
  <2> QED BY <1>7, <2>2 DEF Yields, AfterDecision, AfterTimestamp
<1> QED BY <1>6, <1>7

LEMMA RereadReadable ==
  ASSUME EndTsGap <= 1, TypeOK, OwnershipInv, ExecutionInv, ChainInv,
         TypeOK', OwnershipInv', ExecutionInv',
         NEW t \in Txn, NEW i \in DOMAIN readSet[t], UpdateReadEntryMaxCommitTs(t, i),
         NEW k \in Key, NEW n \in 0 .. MaxVersion, Reads(t, i, k, n), Stable(k, n),
         ~ MustAbort(versions[k][n], commit_timestamp[t])
  PROVE  Protected(t, i, k, n)'
<1>1. commit_timestamp' = commit_timestamp /\ writeSet' = writeSet
  BY DEF UpdateReadEntryMaxCommitTs, tsVars
<1>2. Progress(t)
  BY DEF Progress, ReadEntryStep
<1>3. commit_timestamp[t] \in Int /\ versions[k][n] \in VersionEntry
  BY Stamps, StoredEntries
<1>4. StaysProtected(k, n) /\ versions'[k][n].max_commit_ts >= commit_timestamp[t]
  BY RereadProtects
<1>5. versions[k][n].end_ts >= commit_timestamp[t]
  BY <1>3 DEF MustAbort, VersionEntry
<1>6. ASSUME NEW x \in Txn, NEW j, Writes(x, j, k, n + 1)', PushCall(i, x) \notin calls'[t]
      PROVE  Yields(x, commit_timestamp[t])'
  <2>1. Writes(x, j, k, n + 1) /\ j \in DOMAIN writeSet[x]
    BY <1>1, <1>6 DEF Writes
  <2>2. Yields(x, commit_timestamp[t])
    BY <1>6, <2>1, RereadYields
  <2> QED BY <1>1, <1>2, <1>3, <2>1, <2>2, YieldKept
<1> QED BY <1>1, <1>4, <1>5, <1>6 DEF Protected, StaysProtected


\* Every step keeps the validated reads of t protected,
LEMMA OwnReads ==
  ASSUME EndTsGap <= 1, TypeOK, OwnershipInv, ExecutionInv, ChainInv, ReadsProtected,
         TypeOK', OwnershipInv', ExecutionInv',
         NEW t \in Txn, Client(t) \/ Progress(t),
         NEW i, NEW k \in Key, NEW n \in 0 .. MaxVersion, Reads(t, i, k, n)', Validated(t, i)'
  PROVE  Protected(t, i, k, n)'
<1>1. SameRead(t, i) /\ ReaderStep(t, i)
  BY EveryStepReads
<1>2. i \in DOMAIN readSet[t] /\ Reads(t, i, k, n) /\ commit_timestamp'[t] = commit_timestamp[t]
  BY <1>1 DEF SameRead, Reads
<1>3. Stable(k, n)
  BY <1>2 DEF ChainInv, ReadsStable, ReadStable, Reads
<1>4. CASE /\ UpdateReadEntryMaxCommitTs(t, i)
           /\ ~ MustAbort(versions[readSet[t][i].key][readSet[t][i].version], commit_timestamp[t])
  <2>1. ~ MustAbort(versions[k][n], commit_timestamp[t])
    BY <1>2, <1>4 DEF Reads
  <2> QED BY <1>2, <1>3, <1>4, <2>1, RereadReadable
<1>5. ASSUME Validated(t, i),
             \/ \E l \in DOMAIN readSet[t] : \E u \in Txn :
                  /\ PushConflictTxnCommitTsLowerBound(t, l, u)
                  /\ ~ Conflicts(txns[u], commit_timestamp[t])
             \/ StillValidated(t, i)
      PROVE  Protected(t, i, k, n)'
  <2>1. Protected(t, i, k, n)
    BY <1>2, <1>5 DEF ReadsProtected
  <2>2. ASSUME NEW x \in Txn, NEW j \in DOMAIN writeSet[x], Writes(x, j, k, n + 1),
               PushCall(i, x) \in calls[t], PushCall(i, x) \notin calls'[t]
        PROVE  Yields(x, commit_timestamp[t])'
    <3>1. ~ StillValidated(t, i)
      BY <2>2 DEF StillValidated
    <3>2. PICK l \in DOMAIN readSet[t], u \in Txn :
            /\ PushConflictTxnCommitTsLowerBound(t, l, u)
            /\ ~ Conflicts(txns[u], commit_timestamp[t])
      BY <1>5, <3>1
    <3>3. PushCall(i, x) = PushCall(l, u)
      BY <2>2, <3>2 DEF PushConflictTxnCommitTsLowerBound, Answered, TypeOK
    <3>4. x = u
      BY <3>3 DEF PushCall
    <3> QED BY <2>2, <3>2, <3>4, PushedYields
  <2> QED BY <1>2, <1>3, <2>1, <2>2, StaysReadable
<1> QED BY <1>1, <1>4, <1>5 DEF ReaderStep, StillValidated

\* and those of the others.
LEMMA OthersReads ==
  ASSUME EndTsGap <= 1, TypeOK, OwnershipInv, ExecutionInv, ChainInv, ReadsProtected,
         TypeOK', OwnershipInv', ExecutionInv',
         NEW a \in Txn, Client(a) \/ Progress(a), NEW t \in Txn, t # a,
         NEW i, NEW k \in Key, NEW n \in 0 .. MaxVersion, Reads(t, i, k, n)', Validated(t, i)'
  PROVE  Protected(t, i, k, n)'
<1>1. /\ operation'[t] = operation[t] /\ calls'[t] = calls[t] /\ status'[t] = status[t]
      /\ readSet'[t] = readSet[t] /\ commit_timestamp'[t] = commit_timestamp[t]
      /\ txns'[t].status = txns[t].status
  BY EveryStepFrame DEF Frame
<1>2. Reads(t, i, k, n) /\ Validated(t, i) /\ i \in DOMAIN readSet[t]
  BY <1>1 DEF Reads, Validated, Committed
<1>3. Stable(k, n)
  BY <1>2 DEF ChainInv, ReadsStable, ReadStable, Reads
<1>4. Protected(t, i, k, n)
  BY <1>2 DEF ReadsProtected
<1> QED BY <1>1, <1>3, <1>4, StaysReadable

LEMMA InitProtected == Init => ReadsProtected
BY DEF Init, ReadsProtected, Reads

\* Every step keeps the validated reads protected.
LEMMA NextProtected ==
  ASSUME EndTsGap <= 1, TypeOK, OwnershipInv, ExecutionInv, ChainInv, ReadsProtected,
         TypeOK', OwnershipInv', ExecutionInv', [Next]_vars
  PROVE  ReadsProtected'
<1>1. CASE \E a \in Txn : Client(a) \/ Progress(a)
  <2>1. PICK a \in Txn : Client(a) \/ Progress(a)
    BY <1>1
  <2>2. ASSUME NEW t \in Txn, NEW i \in DOMAIN readSet'[t], NEW k \in Key, NEW n \in 0 .. MaxVersion,
               Reads(t, i, k, n)', Validated(t, i)'
        PROVE  Protected(t, i, k, n)'
    BY <2>1, <2>2, OwnReads, OthersReads
  <2> QED BY <2>2 DEF ReadsProtected
<1>2. CASE UNCHANGED vars
  BY <1>2 DEF vars, execVars, dbVars, localVars, tsVars, ReadsProtected, Reads, Validated, Protected,
       ClosedByWriter, Yields, Writes, Committed
<1> QED BY <1>1, <1>2 DEF Next, AllEnded

\* What is known of the validated reads, for any number of transactions, keys and
\* versions, however uploads, timestamp choices, rereads, pushes and
\* post-processing interleave and whatever calls fail.
THEOREM Protection ==
  ASSUME EndTsGap <= 1
  PROVE  Spec => [](TypeOK /\ OwnershipInv /\ ExecutionInv /\ ChainInv /\ ReadsProtected)
<1> DEFINE Inv == TypeOK /\ OwnershipInv /\ ExecutionInv /\ ChainInv
<1>1. Init => ReadsProtected
  BY InitProtected
<1>2. ReadsProtected /\ Inv /\ Inv' /\ [Next]_vars => ReadsProtected'
  BY NextProtected
<1>3. Spec => []Inv
  BY Chain
<1> HIDE DEF Inv
<1>4. Spec => [](Inv /\ ReadsProtected)
  BY <1>1, <1>2, <1>3, PTL DEF Spec
<1>5. Inv /\ ReadsProtected => TypeOK /\ OwnershipInv /\ ExecutionInv /\ ChainInv /\ ReadsProtected
  BY DEF Inv
<1> QED BY <1>4, <1>5, PTL

-----------------------------------------------------------------------------
(* What follows for the committed transactions.                            *)

\* A validated read has no writer left to push.
LEMMA NothingToPush ==
  ASSUME OwnershipInv, ExecutionInv, NEW t \in Txn,
         operation[t] \in {"WriteToLog", "UpdateTxnStatusToCommit"} \/ t \in Committed,
         NEW i, NEW u
  PROVE  PushCall(i, u) \notin calls[t]
<1>1. operation[t] # "Validate"
  BY DEF OwnershipInv, Undecided, AfterDecision, Committed
<1> QED BY <1>1 DEF ExecutionInv, SelfInv, CallsMatch, ValidateCalls, PushCall

\* Past validation, the versions that a transaction has read are readable at its commit
\* timestamp and stay so: later writers find the timestamp that the reread has left in
\* the version, and those that had locked it have been pushed.
THEOREM ValidatedReads ==
  ASSUME EndTsGap <= 1
  PROVE  Spec => []ValidatedReadsHold
<1>1. TypeOK /\ OwnershipInv /\ ExecutionInv /\ ChainInv /\ ReadsProtected => ValidatedReadsHold
  <2> SUFFICES ASSUME TypeOK, OwnershipInv, ExecutionInv, ChainInv, ReadsProtected,
                      NEW t \in Txn,
                      operation[t] \in {"WriteToLog", "UpdateTxnStatusToCommit"} \/ t \in Committed,
                      NEW i \in DOMAIN readSet[t], ~ readSet[t][i].is_updated
               PROVE  /\ versions[readSet[t][i].key][readSet[t][i].version].end_ts >= commit_timestamp[t]
                      /\ readSet[t][i].begin_ts <= commit_timestamp[t]
    BY DEF ValidatedReadsHold
  <2>1. readSet[t][i].begin_ts <= commit_timestamp[t]
    BY DEF ExecutionInv, SelfInv, TimestampAfterReads, AfterTimestamp
  <2>2. PICK k \in Key, n \in 0 .. MaxVersion : readSet[t][i].key = k /\ readSet[t][i].version = n
    BY ReadPlace
  <2>3. Protected(t, i, k, n)
    BY <2>2 DEF ReadsProtected, Reads, Validated
  <2>4. ASSUME NEW x \in Committed, NEW j \in DOMAIN writeSet[x], Writes(x, j, k, n + 1),
               versions[k][n].end_ts = commit_timestamp[x] - EndTsGap
        PROVE  versions[k][n].end_ts >= commit_timestamp[t]
    <3>1. x \in Txn /\ PushCall(i, x) \notin calls[t]
      BY <2>4, NothingToPush DEF Committed
    <3>2. Yields(x, commit_timestamp[t])
      BY <2>3, <2>4, <3>1 DEF Protected
    <3> QED BY <2>4, <3>2 DEF Yields
  <2>5. versions[k][n].end_ts >= commit_timestamp[t]
    BY <2>3, <2>4 DEF Protected, ClosedByWriter
  <2> QED BY <2>1, <2>2, <2>5
<1>2. Spec => [](TypeOK /\ OwnershipInv /\ ExecutionInv /\ ChainInv /\ ReadsProtected)
  BY Protection
<1> QED BY <1>1, <1>2, PTL

\* A committed transaction's writes are all in the store.
LEMMA CommittedWrites ==
  ASSUME TypeOK, OwnershipInv, NEW t \in Committed, NEW i \in DOMAIN writeSet[t]
  PROVE  /\ t \in Txn /\ Writes(t, i, writeSet[t][i].key, writeSet[t][i].version)
         /\ writeSet[t][i].key \in Key /\ writeSet[t][i].version \in 1 .. MaxVersion
<1>1. t \in Txn
  BY DEF Committed
<1>2. writeSet[t][i].need_post_processing
  BY <1>1 DEF OwnershipInv, AllUploaded
<1>3. Writes(t, i, writeSet[t][i].key, writeSet[t][i].version)
  BY <1>2 DEF Writes
<1> QED BY <1>1, <1>3, WritePlace

\* A version that a committed transaction wrote begins at its commit timestamp, unless
\* the transaction has not given it its timestamps yet.
LEMMA BeginsAtCommit ==
  ASSUME ChainInv, NEW t \in Txn, t \in Committed, NEW i, NEW k \in Key, NEW n \in 1 .. MaxVersion,
         Writes(t, i, k, n), Stable(k, n)
  PROVE  versions[k][n].begin_ts = commit_timestamp[t]
<1>1. Owns(t, i, k, n)
  BY DEF ChainInv, HolderOwns, Writes
<1> QED BY <1>1 DEF Owns, Stable, Dirty

\* Of two writers of a key, the one of the later version commits later.
LEMMA WritersOrdered ==
  ASSUME TypeOK, OwnershipInv, ExecutionInv, ChainInv, NEW t \in Txn, NEW u \in Txn,
         t \in Committed, u \in Committed,
         NEW i, NEW j, NEW k \in Key, NEW m \in 1 .. MaxVersion, NEW n \in 1 .. MaxVersion, m < n,
         Writes(t, i, k, m), Writes(u, j, k, n)
  PROVE  commit_timestamp[t] < commit_timestamp[u]
<1>1. Exists(k, n)
  BY HoldersExist
<1>2. m \in 0 .. MaxVersion /\ n \in 0 .. MaxVersion /\ n - 1 \in 0 .. MaxVersion /\ n - 1 < n
  BY VersionDbAssumption
<1>3. Stable(k, m) /\ Stable(k, n - 1)
  BY <1>1, <1>2 DEF ChainInv, NoGaps
<1>4. versions[k][m].begin_ts = commit_timestamp[t]
  BY <1>3, BeginsAtCommit
<1>5. versions[k][n - 1].begin_ts < commit_timestamp[u]
  BY CommitsAfter DEF Writes
<1>6. versions[k][m].begin_ts \in Int /\ versions[k][n - 1].begin_ts \in Int
  BY <1>2, <1>3, StableBegin
<1>7. m = n - 1 \/ versions[k][m].begin_ts < versions[k][n - 1].begin_ts
  <2>1. m = n - 1 \/ m < n - 1
    BY VersionDbAssumption
  <2>2. m < n - 1 => versions[k][m].begin_ts < versions[k][n - 1].begin_ts
    BY <1>2, <1>3 DEF ChainInv, NoGaps, Stable
  <2> QED BY <2>1, <2>2
<1>8. commit_timestamp[u] \in Int
  BY Stamps
<1> QED BY <1>4, <1>5, <1>6, <1>7, <1>8

\* A reader commits no earlier than the writer of what it read.
LEMMA ReaderAfterWriter ==
  ASSUME TypeOK, ExecutionInv, ChainInv, NEW t \in Txn, NEW u \in Txn,
         t \in Committed, u \in Committed,
         NEW i, NEW j, NEW k \in Key, NEW m \in 1 .. MaxVersion, NEW n \in 0 .. MaxVersion, m <= n,
         Writes(t, i, k, m), Reads(u, j, k, n)
  PROVE  commit_timestamp[t] <= commit_timestamp[u]
<1>1. Stable(k, n) /\ readSet[u][j].begin_ts = versions[k][n].begin_ts
  BY DEF ChainInv, ReadsStable, ReadStable, Reads
<1>2. readSet[u][j].begin_ts <= commit_timestamp[u]
  BY DEF ExecutionInv, SelfInv, TimestampAfterReads, Reads
<1>3. m \in 0 .. MaxVersion
  BY VersionDbAssumption
<1>4. Stable(k, m) /\ (m < n => versions[k][m].begin_ts < versions[k][n].begin_ts)
  <2>1. CASE m = n
    BY <1>1, <2>1
  <2>2. CASE m < n
    BY <1>1, <1>3, <2>2 DEF ChainInv, NoGaps, Stable
  <2> QED BY <2>1, <2>2
<1>5. versions[k][m].begin_ts = commit_timestamp[t]
  BY <1>4, BeginsAtCommit
<1>6. versions[k][m].begin_ts \in Int /\ versions[k][n].begin_ts \in Int /\ commit_timestamp[u] \in Int
  BY <1>1, <1>3, <1>4, StableBegin, Stamps
<1>7. m = n \/ m < n
  OBVIOUS
<1> QED BY <1>1, <1>2, <1>4, <1>5, <1>6, <1>7

\* A writer commits after all that have read an earlier version: the writer of the next
\* version has yielded to them, and the later ones follow that one.
LEMMA WriterAfterReader ==
  ASSUME EndTsGap = 1, TypeOK, OwnershipInv, ExecutionInv, ChainInv, ReadsProtected,
         NEW t \in Txn, NEW u \in Txn, t # u, t \in Committed, u \in Committed,
         NEW i, NEW j, NEW k \in Key, NEW n \in 0 .. MaxVersion, NEW m \in 1 .. MaxVersion, n < m,
         Reads(t, i, k, n), Writes(u, j, k, m)
  PROVE  commit_timestamp[t] < commit_timestamp[u]
<1>1. /\ n + 1 \in 1 .. MaxVersion /\ n + 1 \in 0 .. MaxVersion /\ m \in 0 .. MaxVersion
      /\ m = n + 1 \/ n + 1 < m
  BY VersionDbAssumption
<1>2. i \in DOMAIN readSet[t]
  BY DEF Reads
<1>3. CASE readSet[t][i].is_updated
  <2>1. SetsLinked(t)
    BY DEF ExecutionInv, SelfInv
  <2>2. PICK l \in DOMAIN writeSet[t] : writeSet[t][l].read_entry = i
    BY <1>2, <1>3, <2>1 DEF SetsLinked
  <2>3. writeSet[t][l].key = k /\ writeSet[t][l].version - 1 = n
    BY <2>1, <2>2 DEF SetsLinked, Reads
  <2>4. writeSet[t][l].version = n + 1
    BY <2>2, <2>3, CommittedWrites
  <2>5. Writes(t, l, k, n + 1)
    BY <2>2, <2>3, <2>4, CommittedWrites
  <2>6. n + 1 # m
    <3>1. Holds(t, l) /\ Holds(u, j)
      BY <2>5, CommittedWrites DEF Holds, Writes, Committed
    <3> QED BY <2>5, <3>1, SoleHolder
  <2> QED BY <1>1, <2>5, <2>6, WritersOrdered
<1>4. CASE ~ readSet[t][i].is_updated
  <2>1. Protected(t, i, k, n)
    BY <1>2, <1>4 DEF ReadsProtected, Validated
  <2>2. ASSUME NEW x \in Txn, x \in Committed, NEW l, Writes(x, l, k, n + 1)
        PROVE  commit_timestamp[t] < commit_timestamp[x]
    <3>1. PushCall(i, x) \notin calls[t] /\ l \in DOMAIN writeSet[x]
      BY <2>2, NothingToPush DEF Writes
    <3>2. Yields(x, commit_timestamp[t])
      BY <2>1, <2>2, <3>1 DEF Protected
    <3>3. commit_timestamp[t] \in Int /\ commit_timestamp[x] \in Int
      BY Stamps
    <3> QED BY <2>2, <3>2, <3>3 DEF Yields
  <2>3. CASE m = n + 1
    BY <2>2, <2>3
  <2>4. CASE n + 1 < m
    <3>1. Stable(k, n + 1)
      <4>1. Exists(k, m)
        BY HoldersExist
      <4> QED BY <1>1, <2>4, <4>1 DEF ChainInv, NoGaps
    <3>2. PICK x \in Committed : \E l \in DOMAIN writeSet[x] :
            /\ writeSet[x][l].key = k /\ writeSet[x][l].version = n + 1
            /\ versions[k][n + 1].begin_ts = commit_timestamp[x]
      BY <1>1, <3>1, WriterOfStable
    <3>3. PICK l \in DOMAIN writeSet[x] : writeSet[x][l].key = k /\ writeSet[x][l].version = n + 1
      BY <3>2
    <3>4. x \in Txn /\ Writes(x, l, k, n + 1)
      BY <3>3, CommittedWrites
    <3>5. commit_timestamp[t] < commit_timestamp[x] /\ commit_timestamp[x] < commit_timestamp[u]
      BY <1>1, <2>2, <2>4, <3>4, WritersOrdered
    <3>6. /\ commit_timestamp[t] \in Int /\ commit_timestamp[x] \in Int /\ commit_timestamp[u] \in Int
      BY <3>4, Stamps
    <3> QED BY <3>5, <3>6
  <2> QED BY <1>1, <2>3, <2>4
<1> QED BY <1>3, <1>4

\* The commit timestamps are a serial order of the committed transactions that explains
\* what they read and wrote, whatever the interleaving of uploads, timestamp choices,
\* rereads, pushes and post-processing and whatever calls fail.  A superseded version
\* ends one before its successor begins; were it readable at that time too, a reader
\* and the writer could commit at one timestamp.
THEOREM Serializable ==
  ASSUME EndTsGap = 1
  PROVE  Spec => []SerializableByTimestamp
<1>1. TypeOK /\ OwnershipInv /\ ExecutionInv /\ ChainInv /\ ReadsProtected => SerializableByTimestamp
  <2> SUFFICES ASSUME TypeOK, OwnershipInv, ExecutionInv, ChainInv, ReadsProtected,
                      NEW t \in Committed, NEW u \in Committed, t # u
               PROVE  /\ ReadsFrom(u, t) => commit_timestamp[t] <= commit_timestamp[u]
                      /\ Supersedes(u, t) => commit_timestamp[t] < commit_timestamp[u]
    BY DEF SerializableByTimestamp
  <2>1. t \in Txn /\ u \in Txn
    BY DEF Committed
  <2>2. ASSUME NEW i \in DOMAIN writeSet[t], NEW j \in DOMAIN readSet[u],
               writeSet[t][i].key = readSet[u][j].key, writeSet[t][i].version <= readSet[u][j].version
        PROVE  commit_timestamp[t] <= commit_timestamp[u]
    <3>1. PICK k \in Key, n \in 0 .. MaxVersion : Reads(u, j, k, n)
      BY <2>1, ReadPlace DEF Reads
    <3>2. PICK m \in 1 .. MaxVersion : Writes(t, i, k, m) /\ m <= n
      BY <2>2, <3>1, CommittedWrites DEF Reads
    <3> QED BY <2>1, <3>1, <3>2, ReaderAfterWriter
  <2>3. ASSUME NEW i \in DOMAIN writeSet[t], NEW j \in DOMAIN writeSet[u],
               writeSet[t][i].key = writeSet[u][j].key, writeSet[t][i].version < writeSet[u][j].version
        PROVE  commit_timestamp[t] < commit_timestamp[u]
    <3>1. PICK k \in Key, n \in 1 .. MaxVersion :
            Writes(u, j, k, n) /\ writeSet[u][j].key = k /\ writeSet[u][j].version = n
      BY CommittedWrites
    <3>2. PICK m \in 1 .. MaxVersion : Writes(t, i, k, m) /\ m < n
      BY <2>3, <3>1, CommittedWrites
    <3> QED BY <2>1, <3>1, <3>2, WritersOrdered
  <2>4. ASSUME NEW i \in DOMAIN readSet[t], NEW j \in DOMAIN writeSet[u],
               readSet[t][i].key = writeSet[u][j].key, readSet[t][i].version < writeSet[u][j].version
        PROVE  commit_timestamp[t] < commit_timestamp[u]
    <3>1. PICK k \in Key, n \in 0 .. MaxVersion : Reads(t, i, k, n)
      BY <2>1, ReadPlace DEF Reads
    <3>2. PICK m \in 1 .. MaxVersion : Writes(u, j, k, m) /\ n < m
      BY <2>4, <3>1, CommittedWrites DEF Reads
    <3> QED BY <2>1, <3>1, <3>2, WriterAfterReader
  <2> QED BY <2>2, <2>3, <2>4 DEF ReadsFrom, Supersedes
<1>2. Spec => [](TypeOK /\ OwnershipInv /\ ExecutionInv /\ ChainInv /\ ReadsProtected)
  BY Protection
<1> QED BY <1>1, <1>2, PTL

-----------------------------------------------------------------------------
(* The newest version.                                                     *)

LEMMA LessIsWellFounded ==
  IsWellFoundedOn({p \in Nat \X Nat : p[1] < p[2]}, Nat)
<1>1. OpToRel(<, Nat) = {p \in Nat \X Nat : p[1] < p[2]}
  BY Zenon DEF OpToRel
<1> QED BY <1>1, NatLessThanWellFounded, Zenon

\* Some version number of a set of them is the greatest.
LEMMA GreatestExists ==
  ASSUME NEW N \in Nat, NEW S \in SUBSET (0 .. N), S # {}
  PROVE  \E n \in S : \A m \in S : m <= n
<1> DEFINE R == {p \in Nat \X Nat : p[1] < p[2]}
           T == {N - m : m \in S}
<1>1. T \in SUBSET Nat
  OBVIOUS
<1>2. T # {}
  OBVIOUS
<1>3. IsWellFoundedOn(R, Nat)
  BY LessIsWellFounded
<1>4. PICK x \in T : \A y \in T : ~ (<<y, x>> \in R)
  <2> HIDE DEF R, T
  <2> QED BY <1>1, <1>2, <1>3, WFMin
<1>5. PICK n \in S : x = N - n
  OBVIOUS
<1>6. ASSUME NEW m \in S PROVE m <= n
  <2>1. N - m \in T /\ N - m \in Nat /\ x \in Nat
    OBVIOUS
  <2>2. ~ (N - m < x)
    BY <1>4, <2>1
  <2> QED BY <1>5, <2>1, <2>2
<1> QED BY <1>6

\* It is the one that AbstractCurrent chooses.
LEMMA GreatestChosen ==
  ASSUME NEW S \in SUBSET Int, NEW n \in S, \A m \in S : m <= n
  PROVE  (CHOOSE x \in S : \A m \in S : m <= x) = n
<1>1. \A x \in S : (\A m \in S : m <= x) => x = n
  OBVIOUS
<1> QED BY <1>1

-----------------------------------------------------------------------------
(* What counts.                                                            *)

\* A version above the first counts if and only if a committed transaction has
\* written it, and then from the timestamp of that transaction on.
WritersCount ==
  \A k \in Key : \A n \in 1 .. MaxVersion :
    Counts(k, n) <=> \E t \in Committed : \E i \in DOMAIN writeSet[t] : Writes(t, i, k, n)

WritersStamp ==
  \A k \in Key : \A n \in 1 .. MaxVersion : \A t \in Committed : \A i \in DOMAIN writeSet[t] :
    Writes(t, i, k, n) =>
      CurrentVersion(k, n) =
        [version |-> n, begin_ts |-> commit_timestamp[t], is_deleted |-> versions[k][n].is_deleted]

\* The first one counts from the beginning, and is there when any other is.
FirstCounts ==
  \A k \in Key :
    /\ Counts(k, 0) <=> Exists(k, 0)
    /\ Exists(k, 0) => CurrentVersion(k, 0) =
         [version |-> 0, begin_ts |-> 0, is_deleted |-> versions[k][0].is_deleted]
    /\ \A n \in 1 .. MaxVersion : Exists(k, n) => Exists(k, 0)

LEMMA WritersDecide == TypeOK /\ OwnershipInv /\ ChainInv => WritersCount /\ WritersStamp /\ FirstCounts
<1> SUFFICES ASSUME TypeOK, OwnershipInv, ChainInv
             PROVE  WritersCount /\ WritersStamp /\ FirstCounts
  OBVIOUS
<1>1. ASSUME NEW k \in Key, NEW n \in 1 .. MaxVersion, NEW t \in Committed,
             NEW i \in DOMAIN writeSet[t], Writes(t, i, k, n)
      PROVE  /\ Counts(k, n)
             /\ CurrentVersion(k, n) = [version |-> n, begin_ts |-> commit_timestamp[t],
                                        is_deleted |-> versions[k][n].is_deleted]
  <2>1. t \in Txn
    BY DEF Committed
  <2>2. Owns(t, i, k, n)
    BY <1>1, <2>1 DEF ChainInv, HolderOwns
  <2>3. CASE NewHeld(t, i)
    <3>1. Dirty(k, n) /\ versions[k][n].tx_id = t
      BY <2>2, <2>3 DEF Owns
    <3> QED BY <3>1 DEF Counts, CurrentVersion, Dirty
  <2>4. CASE ~ NewHeld(t, i)
    <3>1. Stable(k, n) /\ versions[k][n].begin_ts = commit_timestamp[t]
      BY <2>2, <2>4 DEF Owns
    <3>2. Exists(k, n) /\ ~ Dirty(k, n)
      BY <3>1 DEF Stable, Dirty
    <3> QED BY <3>1, <3>2 DEF Counts, CurrentVersion
  <2> QED BY <2>3, <2>4
<1>2. ASSUME NEW k \in Key, NEW n \in 1 .. MaxVersion, Counts(k, n)
      PROVE  \E t \in Committed : \E i \in DOMAIN writeSet[t] : Writes(t, i, k, n)
  <2>1. CASE Dirty(k, n)
    <3>1. PICK t \in Txn : \E i \in DOMAIN writeSet[t] : DirtyOwner(t, i, k, n)
      BY <2>1 DEF ChainInv, DirtyHeld
    <3>2. versions[k][n].tx_id \in Committed
      BY <1>2, <2>1 DEF Counts
    <3> QED BY <3>1, <3>2 DEF DirtyOwner
  <2>2. CASE ~ Dirty(k, n)
    <3>1. Stable(k, n)
      BY <1>2, <2>2 DEF Counts, Dirty, Stable
    <3>2. PICK t \in Txn : \E i \in DOMAIN writeSet[t] : Author(t, i, k, n)
      BY <3>1 DEF ChainInv, CommittedWritten
    <3> QED BY <3>2 DEF Author
  <2> QED BY <2>1, <2>2
<1>3. ASSUME NEW k \in Key
      PROVE  /\ Counts(k, 0) <=> Exists(k, 0)
             /\ Exists(k, 0) => CurrentVersion(k, 0) =
                  [version |-> 0, begin_ts |-> 0, is_deleted |-> versions[k][0].is_deleted]
             /\ \A n \in 1 .. MaxVersion : Exists(k, n) => Exists(k, 0)
  <2>1. 0 \in 0 .. MaxVersion /\ \A n \in 1 .. MaxVersion : n \in 0 .. MaxVersion /\ 0 < n
    BY VersionDbAssumption
  <2>2. Exists(k, 0) => ~ Dirty(k, 0) /\ versions[k][0].begin_ts = 0
    BY <2>1 DEF ChainInv, EntriesWellFormed, Stable, Dirty
  <2>3. \A n \in 1 .. MaxVersion : Exists(k, n) => Exists(k, 0)
    BY <2>1 DEF ChainInv, NoGaps, Stable
  <2> QED BY <2>2, <2>3 DEF Counts, CurrentVersion
<1>4. WritersCount
  BY <1>1, <1>2 DEF WritersCount
<1>5. WritersStamp
  BY <1>1 DEF WritersStamp
<1> QED BY <1>3, <1>4, <1>5 DEF FirstCounts


-----------------------------------------------------------------------------
(* What a step leaves alone.                                               *)

\* What a committed transaction has written, and when, is settled.
LEMMA CommittedFrozen ==
  ASSUME TypeOK, OwnershipInv, ExecutionInv, NEW t \in Txn, Client(t) \/ Progress(t),
         NEW u \in Committed
  PROVE  writeSet'[u] = writeSet[u] /\ commit_timestamp'[u] = commit_timestamp[u]
<1>1. u \in Txn /\ operation[u] \in AfterDecision
  BY BeforeDecision DEF Committed
<1>2. CASE u # t
  BY <1>1, <1>2, EveryStepFrame DEF Frame
<1>3. CASE u = t
  <2>1. operation[t] \in {"PostProcessingAfterCommit", "PostProcessingAfterAbort",
                          "ReleaseReadCounter", "Finished", "Recover"}
    BY <1>1, <1>3 DEF AfterDecision
  <2>2. ~ Client(t)
    BY <2>1 DEF Client, Begin, Commit, Abort, ReadDataStore, Read, Insert, Upsert,
                CallReadOutside, Update, Delete, Moves, Requested
  <2>3. ASSUME NEW i \in DOMAIN readSet[t], ReadEntryStep(t, i) PROVE UNCHANGED <<writeSet, tsVars>>
    BY <2>3 DEF ReadEntryStep, UpdateReadEntryMaxCommitTs, UpdateReadEntryMaxCommitTsError,
         PushConflictTxnCommitTsLowerBound, PushConflictTxnCommitTsLowerBoundError,
         ReleaseReadCounterForEachEntry, ReleaseReadCounterForEachEntryError, Recover, localVars
  <2>4. ASSUME NEW i \in DOMAIN writeSet[t], WriteEntryStep(t, i) PROVE UNCHANGED <<writeSet, tsVars>>
    <3>1. ~ UploadVersionEntry(t, i)
      <4>1. \A call \in calls[t] : call.op # "UploadVersion"
        BY <2>1 DEF ExecutionInv, SelfInv, CallsMatch
      <4> QED BY <4>1 DEF UploadVersionEntry, CallFor
    <3> QED BY <2>4, <3>1 DEF WriteEntryStep, UploadVersionEntryError, PostProcessingCommitNew,
           PostProcessingClosePrev, PostProcessingCommitEntryError, CommitEntryAnswered,
           PostProcessingDeleteEntryAfterAbort, PostProcessingDeleteEntryAfterAbortError, Recover,
           localVars
  <2>5. CASE \/ UpdateTxnStatusToCommit(t) \/ UpdateTxnStatusToCommitError(t)
             \/ PostProcessingAfterCommitNext(t)
             \/ UpdateTxnStatusToAbort(t) \/ UpdateTxnStatusToAbortError(t)
             \/ PostProcessingAfterAbortNext(t) \/ ReleaseReadCounterNext(t)
    BY <2>5 DEF UpdateTxnStatusToCommit, UpdateTxnStatusToCommitError,
                PostProcessingAfterCommitNext, UpdateTxnStatusToAbort, UpdateTxnStatusToAbortError,
                PostProcessingAfterAbortNext, ReleaseReadCounterNext, Recover, localVars, tsVars
  <2>6. ~ (\/ InitTxn(t) \/ InitTxnError(t) \/ ReadOutside(t) \/ ReadOutsideError(t)
           \/ ReadDataStoreNext(t) \/ UploadNext(t) \/ SetCommitTs(t) \/ SetCommitTsError(t)
           \/ ValidateNext(t) \/ WriteToLog(t))
    BY <2>1 DEF InitTxn, InitTxnError, ReadOutside, ReadOutsideError, ReadOutsideNext, ReadNext,
                InsertNext, UpsertNext, ReadDataStoreNext, UploadNext, SetCommitTs, SetCommitTsError,
                ValidateNext, WriteToLog, AbortFrom, Moves
  <2> QED BY <1>3, <2>2, <2>3, <2>4, <2>5, <2>6 DEF Progress, tsVars
<1> QED BY <1>2, <1>3

\* The transaction table's word changes with the two decisions only.
LEMMA StatusStep ==
  ASSUME TypeOK, OwnershipInv, NEW t \in Txn, Client(t) \/ Progress(t),
         ~ UpdateTxnStatusToCommit(t), ~ UpdateTxnStatusToAbort(t)
  PROVE  \A u \in Txn : txns'[u].status = txns[u].status
<1>1. WritesStatus(t)
  BY ClientWrites, ReadEntryWrites, WriteEntryWrites, MoveWrites DEF Progress
<1>2. \A u \in Txn : u # t => txns'[u].status = txns[u].status
  BY <1>1 DEF WritesStatus
<1>3. txns \in [Txn -> TxnEntry]
  BY DEF TypeOK, DbTypeOK
<1>4. txns'[t].status = txns[t].status
  <2>1. CASE Client(t)
    BY <2>1 DEF Client, Begin, Commit, Abort, ReadDataStore, Read, Insert, Upsert,
                CallReadOutside, Update, Delete, dbVars
  <2>2. ASSUME NEW i \in DOMAIN readSet[t], ReadEntryStep(t, i)
        PROVE  txns'[t].status = txns[t].status
    <3>1. txns' = txns \/ \E u \in Txn : \E ts : UpdateCommitLowerBound(u, ts)
      BY <2>2 DEF ReadEntryStep, UpdateReadEntryMaxCommitTs, UpdateReadEntryMaxCommitTsError,
           PushConflictTxnCommitTsLowerBound, PushConflictTxnCommitTsLowerBoundError,
           ReleaseReadCounterForEachEntry, ReleaseReadCounterForEachEntryError,
           UpdateMaxCommitTsAndReread, ReleaseReadCounter, Fails, dbVars
    <3> QED BY <1>3, <3>1 DEF UpdateCommitLowerBound, TxnEntry
  <2>3. ASSUME NEW i \in DOMAIN writeSet[t], WriteEntryStep(t, i)
        PROVE  txns' = txns
    BY <2>3 DEF WriteEntryStep, UploadVersionEntry, UploadVersionEntryError,
            PostProcessingCommitNew, PostProcessingClosePrev, PostProcessingCommitEntryError,
            PostProcessingDeleteEntryAfterAbort, PostProcessingDeleteEntryAfterAbortError,
            UploadVersion, CommitNewVersion, ClosePrevVersion, DeleteVersion, dbVars
  <2>4. CASE InitTxn(t)
    <3>1. PICK ts : NewTxn(t, ts)
      BY <2>4 DEF InitTxn
    <3>2. operation[t] = "InitTxn"
      BY <2>4 DEF InitTxn, Moves
    <3>3. txns[t].status = "Ongoing"
      BY <3>2, BeforeDecision DEF AfterDecision
    <3> QED BY <1>3, <3>1, <3>3 DEF NewTxn
  <2>5. CASE SetCommitTs(t)
    BY <1>3, <2>5 DEF SetCommitTs, SetCommitTimestamp, TxnEntry
  <2>6. CASE \/ InitTxnError(t) \/ ReadOutside(t) \/ ReadOutsideError(t)
             \/ ReadDataStoreNext(t) \/ UploadNext(t) \/ SetCommitTsError(t)
             \/ ValidateNext(t) \/ WriteToLog(t) \/ UpdateTxnStatusToCommitError(t)
             \/ PostProcessingAfterCommitNext(t) \/ UpdateTxnStatusToAbortError(t)
             \/ PostProcessingAfterAbortNext(t) \/ ReleaseReadCounterNext(t)
    BY <2>6 DEF InitTxnError, ReadOutside, ReadOutsideError, ReadDataStoreNext, UploadNext,
                SetCommitTsError, ValidateNext, WriteToLog, UpdateTxnStatusToCommitError,
                PostProcessingAfterCommitNext, UpdateTxnStatusToAbortError,
                PostProcessingAfterAbortNext, ReleaseReadCounterNext, GetVersionList, Fails, dbVars
  <2> QED BY <2>1, <2>2, <2>3, <2>4, <2>5, <2>6 DEF Progress
<1> QED BY <1>2, <1>4


-----------------------------------------------------------------------------
(* Whether a version says that the record is deleted is settled as well.   *)

\* Entry old of a list becomes new: what stays keeps its kind; a first version
\* stays, and is born as the pseudo version.
KindKept(n, old, new) ==
  /\ old.version # kDefaultVersion /\ new.version # kDefaultVersion =>
       new.is_deleted = old.is_deleted
  /\ n = 0 /\ old.version # kDefaultVersion => new.version # kDefaultVersion
  /\ n = 0 /\ old.version = kDefaultVersion /\ new.version # kDefaultVersion => new.is_deleted

KindsKept ==
  \A k \in Key : \A n \in 0 .. MaxVersion : KindKept(n, versions[k][n], versions'[k][n])

\* The calls that restamp or lock an entry keep what it is.
LEMMA EntryKinds ==
  ASSUME NEW entry \in VersionEntry, NEW t \in Txn \cup {kEmptyTxId}, NEW ts \in Int, NEW n
  PROVE  /\ KindKept(n, entry, entry)
         /\ KindKept(n, entry, LockedBy(entry, t))
         /\ KindKept(n, entry, CommittedAt(entry, ts))
         /\ KindKept(n, entry, ClosedBy(entry, ts))
         /\ KindKept(n, entry, RaisedMaxCommitTs(entry, ts))
<1>1. LockedBy(entry, t).is_deleted = entry.is_deleted
  BY DEF LockedBy, VersionEntry
<1>2. CommittedAt(entry, ts).is_deleted = entry.is_deleted
  BY DEF CommittedAt
<1>3. ClosedBy(entry, ts).is_deleted = entry.is_deleted
  BY DEF ClosedBy, LockedBy, VersionEntry
<1>4. RaisedMaxCommitTs(entry, ts).is_deleted = entry.is_deleted
  BY DEF RaisedMaxCommitTs, VersionEntry
<1>5. /\ LockedBy(entry, t).version = entry.version
      /\ CommittedAt(entry, ts).version = entry.version
      /\ ClosedBy(entry, ts).version = entry.version
      /\ RaisedMaxCommitTs(entry, ts).version = entry.version
  BY EntryUpdates
<1> QED BY <1>1, <1>2, <1>3, <1>4, <1>5 DEF KindKept

\* A call that replaces one list.
LEMMA ListKinds ==
  ASSUME TypeOK, NEW k \in Key, NEW list, versions' = [versions EXCEPT ![k] = list],
         \A n \in 0 .. MaxVersion : KindKept(n, versions[k][n], list[n])
  PROVE  KindsKept
<1>1. versions'[k] = list /\ \A l \in Key : l # k => versions'[l] = versions[l]
  BY ListReplaced DEF TypeOK
<1>2. \A l \in Key : \A n \in 0 .. MaxVersion : KindKept(n, versions[l][n], versions[l][n])
  BY DEF KindKept
<1> QED BY <1>1, <1>2 DEF KindsKept

\* A call that replaces one entry of it.
LEMMA OneEntryKinds ==
  ASSUME TypeOK, NEW k \in Key, NEW m \in 0 .. MaxVersion, NEW entry,
         versions' = [versions EXCEPT ![k] = [versions[k] EXCEPT ![m] = entry]],
         KindKept(m, versions[k][m], entry)
  PROVE  KindsKept
<1> DEFINE list == [versions[k] EXCEPT ![m] = entry]
<1>1. versions[k] \in [0 .. MaxVersion -> VersionEntry]
  BY DEF TypeOK, DbTypeOK
<1>2. list[m] = entry /\ \A n \in 0 .. MaxVersion : n # m => list[n] = versions[k][n]
  BY <1>1
<1>3. versions' = [versions EXCEPT ![k] = list]
  OBVIOUS
<1> HIDE DEF list
<1>4. \A n \in 0 .. MaxVersion : KindKept(n, versions[k][n], list[n])
  BY <1>2 DEF KindKept
<1> QED BY <1>3, <1>4, ListKinds

\* Two entries of it, the upper of which is no first version and free before or after.
LEMMA TwoEntryKinds ==
  ASSUME TypeOK, NEW k \in Key, NEW n \in 1 .. MaxVersion, NEW new, NEW prev,
         versions' = [versions EXCEPT ![k] = [versions[k] EXCEPT ![n] = new, ![n - 1] = prev]],
         versions[k][n].version = kDefaultVersion \/ new.version = kDefaultVersion,
         KindKept(n - 1, versions[k][n - 1], prev)
  PROVE  KindsKept
<1> DEFINE list == [versions[k] EXCEPT ![n] = new, ![n - 1] = prev]
<1>1. versions[k] \in [0 .. MaxVersion -> VersionEntry]
  BY DEF TypeOK, DbTypeOK
<1>2. n \in 0 .. MaxVersion /\ n - 1 \in 0 .. MaxVersion /\ n # n - 1 /\ n # 0
  BY VersionDbAssumption
<1>3. /\ list[n] = new /\ list[n - 1] = prev
      /\ \A m \in 0 .. MaxVersion : m \notin {n, n - 1} => list[m] = versions[k][m]
  BY <1>1, <1>2
<1>4. versions' = [versions EXCEPT ![k] = list]
  OBVIOUS
<1> HIDE DEF list
<1>5. \A m \in 0 .. MaxVersion : KindKept(m, versions[k][m], list[m])
  BY <1>2, <1>3 DEF KindKept
<1> QED BY <1>4, <1>5, ListKinds

\* A read creates at most the pseudo version.
LEMMA ReadKinds ==
  ASSUME TypeOK, NEW k \in Key, GetVersionList(k)
  PROVE  KindsKept
<1>1. versions[k] \in [0 .. MaxVersion -> VersionEntry] /\ 0 \in 0 .. MaxVersion
  BY VersionDbAssumption DEF TypeOK, DbTypeOK
<1>2. CASE versions[k][0].version = kDefaultVersion
  <2>1. versions' = [versions EXCEPT ![k] = [versions[k] EXCEPT ![0] = PseudoVersion]]
    BY <1>2 DEF GetVersionList, InitVersionList, kFirstVersion
  <2>2. KindKept(0, versions[k][0], PseudoVersion)
    BY <1>2 DEF KindKept, PseudoVersion
  <2> QED BY <1>1, <2>1, <2>2, OneEntryKinds
<1>3. CASE versions[k][0].version # kDefaultVersion
  <2>1. versions' = [versions EXCEPT ![k] = versions[k]]
    BY <1>3 DEF GetVersionList, InitVersionList, kFirstVersion
  <2>2. \A n \in 0 .. MaxVersion : KindKept(n, versions[k][n], versions[k][n])
    BY DEF KindKept
  <2> QED BY <2>1, <2>2, ListKinds
<1> QED BY <1>2, <1>3

\* The answers for a write set entry.
LEMMA WriteEntryKinds ==
  ASSUME TypeOK, NEW t \in Txn, NEW i \in DOMAIN writeSet[t], WriteEntryStep(t, i)
  PROVE  versions' = versions \/ KindsKept
<1>1. writeSet[t][i] \in WriteSetEntry /\ commit_timestamp[t] \in Int
  BY Entries DEF TypeOK
<1>2. PICK k \in Key, n \in 1 .. MaxVersion : writeSet[t][i].key = k /\ writeSet[t][i].version = n
  BY <1>1 DEF WriteSetEntry
<1>3. n \in 0 .. MaxVersion /\ n - 1 \in 0 .. MaxVersion
  BY VersionDbAssumption
<1>4. versions[k][n] \in VersionEntry /\ versions[k][n - 1] \in VersionEntry
  BY <1>3, StoredEntries
<1>5. t \in Txn \cup {kEmptyTxId} /\ kEmptyTxId \in Txn \cup {kEmptyTxId}
  OBVIOUS
<1>6. CASE UploadVersionEntry(t, i)
  <2>1. PICK d : UploadVersion(k, n, t, d)
    BY <1>2, <1>6 DEF UploadVersionEntry
  <2>2. versions' = [versions EXCEPT ![k] = [versions[k] EXCEPT
                       ![n] = DirtyVersion(n, t, d), ![n - 1] = LockedBy(versions[k][n - 1], t)]]
    BY <2>1 DEF UploadVersion
  <2>3. versions[k][n].version = kDefaultVersion
    BY <2>1 DEF UploadVersion, CanUploadVersion, Exists
  <2>4. KindKept(n - 1, versions[k][n - 1], LockedBy(versions[k][n - 1], t))
    BY <1>1, <1>4, <1>5, EntryKinds
  <2> QED BY <2>2, <2>3, <2>4, TwoEntryKinds
<1>7. CASE PostProcessingCommitNew(t, i)
  <2>1. versions' = [versions EXCEPT ![k] = [versions[k] EXCEPT
                       ![n] = CommittedAt(versions[k][n], commit_timestamp[t])]]
    BY <1>2, <1>7 DEF PostProcessingCommitNew, CommitNewVersion
  <2>2. KindKept(n, versions[k][n], CommittedAt(versions[k][n], commit_timestamp[t]))
    BY <1>1, <1>4, <1>5, EntryKinds
  <2> QED BY <1>3, <2>1, <2>2, OneEntryKinds
<1>8. CASE PostProcessingClosePrev(t, i)
  <2>1. versions' = [versions EXCEPT ![k] = [versions[k] EXCEPT
                       ![n - 1] = ClosedBy(versions[k][n - 1], commit_timestamp[t])]]
    BY <1>2, <1>8 DEF PostProcessingClosePrev, ClosePrevVersion
  <2>2. KindKept(n - 1, versions[k][n - 1], ClosedBy(versions[k][n - 1], commit_timestamp[t]))
    BY <1>1, <1>4, <1>5, EntryKinds
  <2> QED BY <1>3, <2>1, <2>2, OneEntryKinds
<1>9. CASE PostProcessingDeleteEntryAfterAbort(t, i)
  <2>1. DeleteVersion(k, n)
    BY <1>2, <1>9 DEF PostProcessingDeleteEntryAfterAbort
  <2>2. versions' = [versions EXCEPT ![k] = [versions[k] EXCEPT
                       ![n] = DefaultEntry, ![n - 1] = LockedBy(versions[k][n - 1], kEmptyTxId)]]
    BY <2>1 DEF DeleteVersion
  <2>3. DefaultEntry.version = kDefaultVersion
    BY DEF DefaultEntry
  <2>4. KindKept(n - 1, versions[k][n - 1], LockedBy(versions[k][n - 1], kEmptyTxId))
    BY <1>1, <1>4, <1>5, EntryKinds
  <2> QED BY <2>2, <2>3, <2>4, TwoEntryKinds
<1>10. CASE \/ UploadVersionEntryError(t, i) \/ PostProcessingCommitEntryError(t, i)
            \/ PostProcessingDeleteEntryAfterAbortError(t, i)
  BY <1>10 DEF UploadVersionEntryError, PostProcessingCommitEntryError,
               PostProcessingDeleteEntryAfterAbortError, dbVars
<1> QED BY <1>6, <1>7, <1>8, <1>9, <1>10 DEF WriteEntryStep

\* And for a read set entry.
LEMMA ReadEntryKinds ==
  ASSUME TypeOK, NEW t \in Txn, NEW i \in DOMAIN readSet[t], ReadEntryStep(t, i)
  PROVE  versions' = versions \/ KindsKept
<1>1. CASE UpdateReadEntryMaxCommitTs(t, i)
  <2>1. PICK k \in Key, n \in 0 .. MaxVersion :
          readSet[t][i].key = k /\ readSet[t][i].version = n
    BY ReadPlace
  <2>2. versions[k][n] \in VersionEntry /\ commit_timestamp[t] \in Int
    BY StoredEntries DEF TypeOK
  <2>3. versions' = [versions EXCEPT ![k] = [versions[k] EXCEPT
                       ![n] = RaisedMaxCommitTs(versions[k][n], commit_timestamp[t])]]
    BY <1>1, <2>1 DEF UpdateReadEntryMaxCommitTs, UpdateMaxCommitTsAndReread
  <2>4. KindKept(n, versions[k][n], RaisedMaxCommitTs(versions[k][n], commit_timestamp[t]))
    BY <2>2, kEmptyTxId \in Txn \cup {kEmptyTxId}, EntryKinds
  <2> QED BY <2>3, <2>4, OneEntryKinds
<1>2. CASE ~ UpdateReadEntryMaxCommitTs(t, i)
  BY <1>2 DEF ReadEntryStep, UpdateReadEntryMaxCommitTsError, Fails,
           PushConflictTxnCommitTsLowerBound, PushConflictTxnCommitTsLowerBoundError,
           ReleaseReadCounterForEachEntry, ReleaseReadCounterForEachEntryError,
           UpdateCommitLowerBound, ReleaseReadCounter, dbVars
<1> QED BY <1>1, <1>2

LEMMA EveryStepKinds ==
  ASSUME TypeOK, NEW t \in Txn, Client(t) \/ Progress(t)
  PROVE  KindsKept
<1>1. versions' = versions => KindsKept
  BY DEF KindsKept, KindKept
<1>2. CASE Client(t)
  BY <1>1, <1>2 DEF Client, Begin, Commit, Abort, ReadDataStore, Read, Insert, Upsert,
                CallReadOutside, Update, Delete, dbVars
<1>3. CASE ReadOutside(t)
  <2>1. request[t] \in Key
    BY <1>3 DEF ReadOutside, TypeOK
  <2> QED BY <1>3, <2>1, ReadKinds DEF ReadOutside
<1>4. CASE \/ InitTxn(t) \/ InitTxnError(t) \/ ReadOutsideError(t)
           \/ ReadDataStoreNext(t) \/ UploadNext(t) \/ SetCommitTs(t) \/ SetCommitTsError(t)
           \/ ValidateNext(t) \/ WriteToLog(t)
           \/ UpdateTxnStatusToCommit(t) \/ UpdateTxnStatusToCommitError(t)
           \/ PostProcessingAfterCommitNext(t)
           \/ UpdateTxnStatusToAbort(t) \/ UpdateTxnStatusToAbortError(t)
           \/ PostProcessingAfterAbortNext(t) \/ ReleaseReadCounterNext(t)
  <2>1. versions' = versions
    BY <1>4 DEF InitTxn, NewTxn, InitTxnError, ReadOutsideError, ReadDataStoreNext, UploadNext,
                SetCommitTs, SetCommitTimestamp, SetCommitTsError, ValidateNext, WriteToLog,
                UpdateTxnStatusToCommit, UpdateTxnStatusToCommitError, UpdateTxnStatus,
                PostProcessingAfterCommitNext, UpdateTxnStatusToAbort, UpdateTxnStatusToAbortError,
                PostProcessingAfterAbortNext, ReleaseReadCounterNext, Fails, dbVars
  <2> QED BY <1>1, <2>1
<1> QED BY <1>1, <1>2, <1>3, <1>4, ReadEntryKinds, WriteEntryKinds DEF Progress


-----------------------------------------------------------------------------
(* The current version of a key.                                           *)

\* The newest version that counts is current.
NewestIsCurrent ==
  \A k \in Key : \A n \in 0 .. MaxVersion :
    Counts(k, n) /\ (\A m \in 0 .. MaxVersion : Counts(k, m) => m <= n) =>
      AbstractCurrent(k) = CurrentVersion(k, n)

NoneIsPseudo ==
  \A k \in Key : (\A n \in 0 .. MaxVersion : ~ Counts(k, n)) =>
    AbstractCurrent(k) = [version |-> 0, begin_ts |-> 0, is_deleted |-> TRUE]

LEMMA Newest == NewestIsCurrent /\ NoneIsPseudo
<1>1. ASSUME NEW k \in Key, NEW n \in 0 .. MaxVersion, Counts(k, n),
             \A m \in 0 .. MaxVersion : Counts(k, m) => m <= n
      PROVE  AbstractCurrent(k) = CurrentVersion(k, n)
  <2> DEFINE counting == {m \in 0 .. MaxVersion : Counts(k, m)}
  <2>1. counting \in SUBSET Int /\ n \in counting /\ \A m \in counting : m <= n
    BY <1>1
  <2>2. AbstractCurrent(k) = IF counting = {} THEN [version |-> 0, begin_ts |-> 0, is_deleted |-> TRUE]
                             ELSE CurrentVersion(k, CHOOSE x \in counting : \A m \in counting : m <= x)
    BY DEF AbstractCurrent
  <2> HIDE DEF counting
  <2>3. (CHOOSE x \in counting : \A m \in counting : m <= x) = n
    BY <2>1, GreatestChosen
  <2>4. counting # {}
    BY <2>1
  <2> QED BY <2>2, <2>3, <2>4, Zenon
<1>2. ASSUME NEW k \in Key, \A n \in 0 .. MaxVersion : ~ Counts(k, n)
      PROVE  AbstractCurrent(k) = [version |-> 0, begin_ts |-> 0, is_deleted |-> TRUE]
  <2>1. {m \in 0 .. MaxVersion : Counts(k, m)} = {}
    BY <1>2
  <2> QED BY <2>1 DEF AbstractCurrent
<1> QED BY <1>1, <1>2 DEF NewestIsCurrent, NoneIsPseudo

\* There is one if any counts.
LEMMA SomeNewest ==
  ASSUME NEW k, NEW l \in 0 .. MaxVersion, Counts(k, l)
  PROVE  \E n \in 0 .. MaxVersion :
           Counts(k, n) /\ \A m \in 0 .. MaxVersion : Counts(k, m) => m <= n
<1> DEFINE counting == {m \in 0 .. MaxVersion : Counts(k, m)}
<1>1. counting \in SUBSET (0 .. MaxVersion) /\ counting # {} /\ MaxVersion \in Nat
  BY VersionDbAssumption
<1>2. \E n \in counting : \A m \in counting : m <= n
  <2> HIDE DEF counting
  <2> QED BY <1>1, GreatestExists
<1> QED BY <1>2

\* No step but a commit changes what is current.
LEMMA CurrentKept ==
  ASSUME TypeOK, TypeOK', WritersCount, WritersStamp, FirstCounts,
         WritersCount', WritersStamp', FirstCounts', KindsKept, Committed' = Committed,
         \A u \in Committed : writeSet'[u] = writeSet[u] /\ commit_timestamp'[u] = commit_timestamp[u],
         NEW k \in Key
  PROVE  AbstractCurrent(k)' = AbstractCurrent(k)
<1>1. 0 \in 0 .. MaxVersion /\ \A n \in 0 .. MaxVersion : n = 0 \/ n \in 1 .. MaxVersion
  BY VersionDbAssumption
<1>2. ASSUME NEW n \in 1 .. MaxVersion PROVE Counts(k, n)' <=> Counts(k, n)
  <2>1. \A u \in Committed : \A i : Writes(u, i, k, n)' <=> Writes(u, i, k, n)
    BY DEF Writes
  <2> QED BY <2>1 DEF WritersCount
<1>3. ASSUME NEW n \in 1 .. MaxVersion, Counts(k, n)
      PROVE  CurrentVersion(k, n)' = CurrentVersion(k, n)
  <2>1. PICK u \in Committed : \E i \in DOMAIN writeSet[u] : Writes(u, i, k, n)
    BY <1>3 DEF WritersCount
  <2>2. PICK i \in DOMAIN writeSet[u] : Writes(u, i, k, n)
    BY <2>1
  <2>3. u \in Committed' /\ i \in DOMAIN writeSet'[u] /\ Writes(u, i, k, n)'
    BY <2>2 DEF Writes
  <2>4. CurrentVersion(k, n) = [version |-> n, begin_ts |-> commit_timestamp[u],
                                is_deleted |-> versions[k][n].is_deleted]
    BY <2>2 DEF WritersStamp
  <2>5. CurrentVersion(k, n)' = [version |-> n, begin_ts |-> commit_timestamp'[u],
                                 is_deleted |-> versions'[k][n].is_deleted]
    BY <2>3 DEF WritersStamp
  <2>6. Exists(k, n) /\ Exists(k, n)'
    BY <1>2, <1>3 DEF Counts
  <2>7. versions'[k][n].is_deleted = versions[k][n].is_deleted
    <3>1. n \in 0 .. MaxVersion
      BY VersionDbAssumption
    <3> QED BY <2>6, <3>1 DEF KindsKept, KindKept, Exists
  <2> QED BY <2>4, <2>5, <2>7
<1>4. ASSUME Exists(k, 0)
      PROVE  Exists(k, 0)' /\ CurrentVersion(k, 0)' = CurrentVersion(k, 0)
  <2>1. Exists(k, 0)' /\ versions'[k][0].is_deleted = versions[k][0].is_deleted
    BY <1>1, <1>4 DEF KindsKept, KindKept, Exists
  <2> QED BY <1>4, <2>1 DEF FirstCounts
<1>5. NewestIsCurrent /\ NewestIsCurrent' /\ NoneIsPseudo /\ NoneIsPseudo'
  BY Newest, PTL
<1>6. CASE Exists(k, 0)
  <2>1. Counts(k, 0) /\ Counts(k, 0)'
    BY <1>4, <1>6 DEF FirstCounts
  <2>2. PICK n \in 0 .. MaxVersion :
          Counts(k, n) /\ \A m \in 0 .. MaxVersion : Counts(k, m) => m <= n
    BY <1>1, <2>1, SomeNewest
  <2>3. \A m \in 0 .. MaxVersion : Counts(k, m)' <=> Counts(k, m)
    BY <1>1, <1>2, <2>1
  <2>4. AbstractCurrent(k) = CurrentVersion(k, n) /\ AbstractCurrent(k)' = CurrentVersion(k, n)'
    BY <1>5, <2>2, <2>3 DEF NewestIsCurrent
  <2>5. CurrentVersion(k, n)' = CurrentVersion(k, n)
    BY <1>1, <1>3, <1>4, <1>6, <2>2
  <2> QED BY <2>4, <2>5
<1>7. CASE ~ Exists(k, 0)
  <2>1. \A n \in 0 .. MaxVersion : ~ Counts(k, n)
    BY <1>1, <1>7 DEF FirstCounts, Counts
  <2>2. AbstractCurrent(k) = [version |-> 0, begin_ts |-> 0, is_deleted |-> TRUE]
    BY <1>5, <2>1 DEF NoneIsPseudo
  <2>3. CASE ~ Exists(k, 0)'
    <3>1. \A n \in 0 .. MaxVersion : ~ Counts(k, n)'
      BY <1>1, <2>3 DEF FirstCounts, Counts
    <3> QED BY <1>5, <2>2, <3>1 DEF NoneIsPseudo
  <2>4. CASE Exists(k, 0)'
    <3>1. Counts(k, 0)' /\ \A m \in 0 .. MaxVersion : Counts(k, m)' => m <= 0
      BY <1>1, <1>2, <2>1, <2>4 DEF FirstCounts
    <3>2. AbstractCurrent(k)' = CurrentVersion(k, 0)'
      BY <1>1, <1>5, <3>1 DEF NewestIsCurrent
    <3>3. versions'[k][0].is_deleted
      BY <1>1, <1>7, <2>4 DEF KindsKept, KindKept, Exists
    <3>4. versions'[k][0].is_deleted \in BOOLEAN
      <4>1. versions' \in [Key -> [0 .. MaxVersion -> VersionEntry]]
        BY DEF TypeOK, DbTypeOK
      <4>2. versions'[k][0] \in VersionEntry
        BY <1>1, <4>1
      <4> QED BY <4>2 DEF VersionEntry
    <3>5. versions'[k][0].is_deleted = TRUE
      BY <3>3, <3>4
    <3>6. CurrentVersion(k, 0)' =
            [version |-> 0, begin_ts |-> 0, is_deleted |-> versions'[k][0].is_deleted]
      BY <2>4 DEF FirstCounts
    <3> QED BY <2>2, <3>2, <3>5, <3>6
  <2> QED BY <2>3, <2>4
<1> QED BY <1>6, <1>7

-----------------------------------------------------------------------------
(* The two decisions.                                                      *)

\* A transaction that is about to commit has put a version on top of the current
\* one of every key it writes.
LEMMA OnTop ==
  ASSUME TypeOK, OwnershipInv, ExecutionInv, ChainInv, NEW t \in Txn,
         operation[t] = "UpdateTxnStatusToCommit", NEW i \in DOMAIN writeSet[t]
  PROVE  \E k \in Key : \E n \in 1 .. MaxVersion :
           /\ writeSet[t][i].key = k
           /\ Dirty(k, n) /\ versions[k][n].tx_id = t
           /\ \A m \in 0 .. MaxVersion : Exists(k, m) => m <= n
           /\ Stable(k, n - 1)
           /\ 0 <= versions[k][n - 1].begin_ts /\ versions[k][n - 1].begin_ts < commit_timestamp[t]
<1>1. writeSet[t][i] \in WriteSetEntry /\ writeSet[t][i].need_post_processing
  BY Entries DEF OwnershipInv, AllUploaded
<1>2. PICK k \in Key, n \in 1 .. MaxVersion : writeSet[t][i].key = k /\ writeSet[t][i].version = n
  BY <1>1 DEF WriteSetEntry
<1>3. n \in 0 .. MaxVersion /\ n - 1 \in 0 .. MaxVersion
  BY VersionDbAssumption
<1>4. txns[t].status = "Ongoing"
  BY BeforeDecision DEF AfterDecision
<1>5. NewHeld(t, i)
  BY <1>4 DEF NewHeld, Pending, Committed
<1>6. Dirty(k, n) /\ versions[k][n].tx_id = t
  BY <1>1, <1>2, <1>5 DEF ChainInv, HolderOwns, Writes, Owns
<1>7. ~ Stable(k, n) /\ Exists(k, n)
  BY <1>6 DEF Stable, Dirty
<1>8. \A m \in 0 .. MaxVersion : Exists(k, m) => m <= n
  BY <1>7, NothingAbove
<1>9. Stable(k, n - 1)
  BY <1>7, PrevStable
<1>10. versions[k][n - 1].begin_ts \in Int /\ 0 <= versions[k][n - 1].begin_ts
  BY <1>3, <1>9, StableBegin
<1>11. versions[k][n - 1].begin_ts < commit_timestamp[t]
  <2>1. SetsLinked(t) /\ TimestampAfterReads(t)
    BY DEF ExecutionInv, SelfInv
  <2>2. PICK l \in DOMAIN readSet[t] :
          /\ readSet[t][l].key = k /\ readSet[t][l].version = n - 1
          /\ l = writeSet[t][i].read_entry
    BY <1>2, <2>1 DEF SetsLinked
  <2>3. readSet[t][l].begin_ts = versions[k][n - 1].begin_ts
    BY <2>2 DEF ChainInv, ReadsStable, ReadStable
  <2> QED BY <2>1, <2>2, <2>3 DEF TimestampAfterReads, AfterTimestamp
<1> QED BY <1>2, <1>6, <1>8, <1>9, <1>10, <1>11

\* Its commit makes that version current, with its timestamp.
LEMMA WrittenKey ==
  ASSUME TypeOK, OwnershipInv, ExecutionInv, ChainInv, NEW t \in Txn,
         UpdateTxnStatusToCommit(t), NEW i \in DOMAIN writeSet[t],
         NEW k \in Key, writeSet[t][i].key = k
  PROVE  \E d \in BOOLEAN :
           /\ AbstractCurrent(k)' = [version |-> AbstractCurrent(k).version + 1,
                                     begin_ts |-> commit_timestamp[t], is_deleted |-> d]
           /\ 0 <= AbstractCurrent(k).begin_ts
           /\ AbstractCurrent(k).begin_ts < commit_timestamp[t]
           /\ AbstractCurrent(k).begin_ts \in Int
<1>1. operation[t] = "UpdateTxnStatusToCommit"
  BY DEF UpdateTxnStatusToCommit, Moves
<1>2. \E n \in 1 .. MaxVersion :
        /\ Dirty(k, n) /\ versions[k][n].tx_id = t
        /\ \A m \in 0 .. MaxVersion : Exists(k, m) => m <= n
        /\ Stable(k, n - 1)
        /\ 0 <= versions[k][n - 1].begin_ts /\ versions[k][n - 1].begin_ts < commit_timestamp[t]
  BY <1>1, OnTop
<1>3. PICK n \in 1 .. MaxVersion :
        /\ Dirty(k, n) /\ versions[k][n].tx_id = t
        /\ \A m \in 0 .. MaxVersion : Exists(k, m) => m <= n
        /\ Stable(k, n - 1)
        /\ 0 <= versions[k][n - 1].begin_ts /\ versions[k][n - 1].begin_ts < commit_timestamp[t]
  BY <1>2
<1>4. n \in 0 .. MaxVersion /\ n - 1 \in 0 .. MaxVersion /\ n - 1 + 1 = n
  BY VersionDbAssumption
<1>5. txns[t].status = "Ongoing"
  BY <1>1, BeforeDecision DEF AfterDecision
<1>6. txns'[t].status = "Committed" /\ versions' = versions /\ commit_timestamp' = commit_timestamp
  <2>1. txns \in [Txn -> TxnEntry]
    BY DEF TypeOK, DbTypeOK
  <2> QED BY <2>1 DEF UpdateTxnStatusToCommit, UpdateTxnStatus, TxnEntry, tsVars
<1>7. t \notin Committed /\ t \in Committed'
  BY <1>5, <1>6 DEF Committed
<1>8. NewestIsCurrent /\ NewestIsCurrent'
  BY Newest, PTL
<1>9. ~ Counts(k, n) /\ Counts(k, n - 1)
  BY <1>3, <1>7 DEF Counts, Dirty, Stable
<1>10. \A m \in 0 .. MaxVersion : Counts(k, m) => m <= n - 1
  BY <1>3, <1>4, <1>9 DEF Counts
<1>11. AbstractCurrent(k) = CurrentVersion(k, n - 1)
  BY <1>4, <1>8, <1>9, <1>10 DEF NewestIsCurrent
<1>12. /\ AbstractCurrent(k).version = n - 1
       /\ AbstractCurrent(k).begin_ts = versions[k][n - 1].begin_ts
  BY <1>3, <1>11 DEF CurrentVersion, Dirty, Stable
<1>13. Dirty(k, n)' /\ versions'[k][n].tx_id = t /\ \A m \in 0 .. MaxVersion : Exists(k, m)' => m <= n
  BY <1>3, <1>6 DEF Dirty, Exists
<1>14. Counts(k, n)' /\ \A m \in 0 .. MaxVersion : Counts(k, m)' => m <= n
  BY <1>7, <1>13 DEF Counts, Dirty
<1>15. AbstractCurrent(k)' = CurrentVersion(k, n)'
  BY <1>4, <1>8, <1>14 DEF NewestIsCurrent
<1>16. CurrentVersion(k, n)' =
         [version |-> n, begin_ts |-> commit_timestamp[t], is_deleted |-> versions[k][n].is_deleted]
  BY <1>6, <1>13 DEF CurrentVersion
<1>17. versions[k][n].is_deleted \in BOOLEAN
  BY <1>4, StoredEntries DEF VersionEntry
<1>18. versions[k][n - 1].begin_ts \in Int
  BY <1>4, StoredEntries DEF VersionEntry
<1> QED BY <1>3, <1>4, <1>12, <1>15, <1>16, <1>17, <1>18

\* Of a key it has not written, nothing.
LEMMA UnwrittenKey ==
  ASSUME TypeOK, OwnershipInv, ExecutionInv, ChainInv, NEW t \in Txn,
         UpdateTxnStatusToCommit(t), NEW k \in Key, \A i \in DOMAIN writeSet[t] : writeSet[t][i].key # k
  PROVE  AbstractCurrent(k)' = AbstractCurrent(k)
<1>1. txns \in [Txn -> TxnEntry]
  BY DEF TypeOK, DbTypeOK
<1>2. /\ versions' = versions /\ commit_timestamp' = commit_timestamp
      /\ \A u \in Txn : u # t => txns'[u].status = txns[u].status
  BY <1>1 DEF UpdateTxnStatusToCommit, UpdateTxnStatus, TxnEntry, tsVars
<1>3. \A n \in 0 .. MaxVersion : Dirty(k, n) => versions[k][n].tx_id \in Txn \ {t}
  <2> SUFFICES ASSUME NEW n \in 0 .. MaxVersion, Dirty(k, n)
               PROVE  versions[k][n].tx_id \in Txn \ {t}
    OBVIOUS
  <2>1. n # 0
    BY DEF ChainInv, EntriesWellFormed, Dirty, Stable
  <2>2. n \in 1 .. MaxVersion
    BY <2>1, VersionDbAssumption
  <2>3. PICK u \in Txn : \E i \in DOMAIN writeSet[u] : DirtyOwner(u, i, k, n)
    BY <2>2 DEF ChainInv, DirtyHeld
  <2> QED BY <2>3 DEF DirtyOwner, Writes
<1>4. \A n \in 0 .. MaxVersion : Counts(k, n)' <=> Counts(k, n)
  <2>1. \A n \in 0 .. MaxVersion : (Dirty(k, n)' <=> Dirty(k, n)) /\ (Exists(k, n)' <=> Exists(k, n))
    BY <1>2 DEF Dirty, Exists
  <2>2. \A n \in 0 .. MaxVersion :
          Dirty(k, n) => (versions[k][n].tx_id \in Committed' <=> versions[k][n].tx_id \in Committed)
    BY <1>2, <1>3 DEF Committed
  <2> QED BY <1>2, <2>1, <2>2 DEF Counts
<1>5. \A n \in 0 .. MaxVersion : CurrentVersion(k, n)' = CurrentVersion(k, n)
  BY <1>2 DEF CurrentVersion, Dirty, Exists
<1>6. NewestIsCurrent /\ NewestIsCurrent' /\ NoneIsPseudo /\ NoneIsPseudo'
  BY Newest, PTL
<1>7. CASE \A n \in 0 .. MaxVersion : ~ Counts(k, n)
  BY <1>4, <1>6, <1>7 DEF NoneIsPseudo
<1>8. ASSUME NEW l \in 0 .. MaxVersion, Counts(k, l)
      PROVE  AbstractCurrent(k)' = AbstractCurrent(k)
  <2>1. PICK n \in 0 .. MaxVersion :
          Counts(k, n) /\ \A m \in 0 .. MaxVersion : Counts(k, m) => m <= n
    BY <1>8, SomeNewest
  <2>2. AbstractCurrent(k) = CurrentVersion(k, n) /\ AbstractCurrent(k)' = CurrentVersion(k, n)'
    BY <1>4, <1>6, <2>1 DEF NewestIsCurrent
  <2> QED BY <1>5, <2>2
<1> QED BY <1>7, <1>8


\* UpdateTxnStatusToCommit is the commit of AtomicStore.
LEMMA CommitStep ==
  ASSUME TypeOK, OwnershipInv, ExecutionInv, ChainInv, NEW t \in Txn,
         UpdateTxnStatusToCommit(t), commit_timestamp[t] <= kMaxTimeStamp
  PROVE  Store!Commit(t)
<1>1. txns \in [Txn -> TxnEntry] /\ commit_timestamp[t] \in Int
  BY DEF TypeOK, DbTypeOK
<1>2. txns' \in [Txn -> TxnEntry]
  BY <1>1 DEF UpdateTxnStatusToCommit, UpdateTxnStatus, TxnEntry, TxnStatus
<1>3. operation[t] = "UpdateTxnStatusToCommit"
  BY DEF UpdateTxnStatusToCommit, Moves
<1>4. txns[t].status = "Ongoing"
  BY <1>3, BeforeDecision DEF AfterDecision
<1>5. txns'[t].status = "Committed" /\ \A u \in Txn : u # t => txns'[u].status = txns[u].status
  BY <1>1 DEF UpdateTxnStatusToCommit, UpdateTxnStatus, TxnEntry
<1>6. PICK keys \in SUBSET Key :
        keys = {k \in Key : \E i \in DOMAIN writeSet[t] : writeSet[t][i].key = k}
  OBVIOUS
<1>7. ASSUME NEW k \in keys
      PROVE  /\ AbstractCurrent(k)' = [version |-> AbstractCurrent(k).version + 1,
                                       begin_ts |-> commit_timestamp[t],
                                       is_deleted |-> AbstractCurrent(k)'.is_deleted]
             /\ AbstractCurrent(k)'.is_deleted \in BOOLEAN
             /\ 0 <= AbstractCurrent(k).begin_ts
             /\ AbstractCurrent(k).begin_ts < commit_timestamp[t]
             /\ AbstractCurrent(k).begin_ts \in Int
  <2>1. PICK i \in DOMAIN writeSet[t] : writeSet[t][i].key = k
    BY <1>6
  <2>2. PICK d \in BOOLEAN :
          /\ AbstractCurrent(k)' = [version |-> AbstractCurrent(k).version + 1,
                                    begin_ts |-> commit_timestamp[t], is_deleted |-> d]
          /\ 0 <= AbstractCurrent(k).begin_ts
          /\ AbstractCurrent(k).begin_ts < commit_timestamp[t]
          /\ AbstractCurrent(k).begin_ts \in Int
    BY <2>1, WrittenKey
  <2> QED BY <2>2
<1>8. ASSUME NEW k \in Key, k \notin keys PROVE AbstractCurrent(k)' = AbstractCurrent(k)
  BY <1>6, <1>8, UnwrittenKey
<1>9. PICK ts \in 0 .. kMaxTimeStamp : keys # {} => ts = commit_timestamp[t]
  <2>1. CASE keys = {}
    BY <2>1, VersionDbAssumption
  <2>2. CASE keys # {}
    <3>1. commit_timestamp[t] \in 0 .. kMaxTimeStamp
      BY <1>1, <1>7, <2>2, VersionDbAssumption
    <3> QED BY <3>1
  <2> QED BY <2>1, <2>2
<1>10. PICK deleted \in SUBSET keys : deleted = {k \in keys : AbstractCurrent(k)'.is_deleted}
  OBVIOUS
<1>11. ASSUME NEW k \in keys
       PROVE  AbstractCurrent(k)' = [version |-> AbstractCurrent(k).version + 1,
                                     begin_ts |-> ts, is_deleted |-> k \in deleted]
  <2>1. AbstractCurrent(k)'.is_deleted = (k \in deleted)
    BY <1>7, <1>10
  <2>2. ts = commit_timestamp[t]
    BY <1>9
  <2> QED BY <1>7, <2>1, <2>2
<1>12. \A k \in keys : [l \in Key |-> AbstractCurrent(l)][k].begin_ts < ts
  BY <1>7, <1>9
<1>13. [k \in Key |-> AbstractCurrent(k)]' =
         [k \in Key |-> IF k \in keys THEN Store!Written(k, ts, k \in deleted)
                        ELSE [l \in Key |-> AbstractCurrent(l)][k]]
  <2>1. \A k \in Key : AbstractCurrent(k)' =
          IF k \in keys THEN Store!Written(k, ts, k \in deleted)
          ELSE [l \in Key |-> AbstractCurrent(l)][k]
    BY <1>8, <1>11, Zenon DEF Store!Written
  <2> QED BY <2>1, Zenon
<1>14. /\ [u \in Txn |-> txns[u].status][t] = "Ongoing"
       /\ [u \in Txn |-> txns[u].status]' =
            [[u \in Txn |-> txns[u].status] EXCEPT ![t] = "Committed"]
  BY <1>4, <1>5
<1>15. \E d \in SUBSET keys :
         [k \in Key |-> AbstractCurrent(k)]' =
           [k \in Key |-> IF k \in keys THEN Store!Written(k, ts, k \in d)
                          ELSE [l \in Key |-> AbstractCurrent(l)][k]]
  BY <1>13
<1>16. \E s \in 0 .. kMaxTimeStamp, ks \in SUBSET Key :
         /\ \A k \in ks : [l \in Key |-> AbstractCurrent(l)][k].begin_ts < s
         /\ \E d \in SUBSET ks :
              [k \in Key |-> AbstractCurrent(k)]' =
                [k \in Key |-> IF k \in ks THEN Store!Written(k, s, k \in d)
                               ELSE [l \in Key |-> AbstractCurrent(l)][k]]
  BY <1>12, <1>15
<1> QED BY <1>14, <1>16 DEF Store!Commit

\* The timestamps that transactions commit at are timestamps of the store: 64 bits
\* have not run out.
StampsInRange == \A t \in Txn : commit_timestamp[t] <= kMaxTimeStamp

\* Every other step but an abort is invisible.
LEMMA InvisibleStep ==
  ASSUME TypeOK, OwnershipInv, ExecutionInv, ChainInv, TypeOK', OwnershipInv', ChainInv',
         NEW t \in Txn, Client(t) \/ Progress(t), ~ UpdateTxnStatusToCommit(t)
  PROVE  /\ [k \in Key |-> AbstractCurrent(k)]' = [k \in Key |-> AbstractCurrent(k)]
         /\ \/ [u \in Txn |-> txns[u].status]' = [u \in Txn |-> txns[u].status]
            \/ UpdateTxnStatusToAbort(t)
<1>1. ~ UpdateTxnStatusToAbort(t) => \A u \in Txn : txns'[u].status = txns[u].status
  BY StatusStep
<1>2. UpdateTxnStatusToAbort(t) =>
        /\ txns'[t].status = "Aborted" /\ txns[t].status = "Ongoing"
        /\ \A u \in Txn : u # t => txns'[u].status = txns[u].status
  <2> SUFFICES ASSUME UpdateTxnStatusToAbort(t)
               PROVE  /\ txns'[t].status = "Aborted" /\ txns[t].status = "Ongoing"
                      /\ \A u \in Txn : u # t => txns'[u].status = txns[u].status
    OBVIOUS
  <2>1. txns \in [Txn -> TxnEntry]
    BY DEF TypeOK, DbTypeOK
  <2>2. operation[t] = "UpdateTxnStatusToAbort"
    BY DEF UpdateTxnStatusToAbort, Moves
  <2> QED BY <2>1, <2>2, BeforeDecision DEF UpdateTxnStatusToAbort, UpdateTxnStatus, TxnEntry, AfterDecision
<1>3. Committed' = Committed
  BY <1>1, <1>2 DEF Committed
<1>4. WritersCount /\ WritersStamp /\ FirstCounts
  BY WritersDecide
<1>5. WritersCount' /\ WritersStamp' /\ FirstCounts'
  <2>1. (TypeOK /\ OwnershipInv /\ ChainInv => WritersCount /\ WritersStamp /\ FirstCounts)'
    BY WritersDecide, PTL
  <2> QED BY <2>1
<1>6. \A k \in Key : AbstractCurrent(k)' = AbstractCurrent(k)
  BY <1>3, <1>4, <1>5, EveryStepKinds, CommittedFrozen, CurrentKept
<1> QED BY <1>1, <1>6

LEMMA AtomicInit == Init => Store!StoreInit
<1> SUFFICES ASSUME Init PROVE Store!StoreInit
  OBVIOUS
<1>1. \A k \in Key : \A n \in 0 .. MaxVersion : ~ Counts(k, n)
  BY DEF Init, DbInit, Counts, Exists, DefaultEntry
<1>2. \A k \in Key : AbstractCurrent(k) = [version |-> 0, begin_ts |-> 0, is_deleted |-> TRUE]
  BY <1>1, Newest DEF NoneIsPseudo
<1>3. \A t \in Txn : txns[t].status = "Ongoing"
  BY DEF Init, DbInit
<1> QED BY <1>2, <1>3 DEF Store!StoreInit

\* Every step is a step of AtomicStore or leaves its state as it is.
LEMMA AtomicNext ==
  ASSUME EndTsGap <= 1, TypeOK, OwnershipInv, ExecutionInv, ChainInv, StampsInRange, [Next]_vars
  PROVE  [Store!StoreNext]_(Store!storeVars)
<1>1. TypeOK' /\ OwnershipInv' /\ ExecutionInv' /\ ChainInv'
  BY NextTypes, NextOwnership, NextExecution, NextChain
<1>2. CASE UNCHANGED vars
  <2>1. versions' = versions /\ txns' = txns /\ commit_timestamp' = commit_timestamp
    BY <1>2 DEF vars, dbVars, execVars, tsVars
  <2> QED BY <2>1 DEF Store!storeVars, AbstractCurrent, Counts, CurrentVersion, Exists, Dirty, Committed
<1>3. ASSUME NEW t \in Txn, Client(t) \/ Progress(t)
      PROVE  [Store!StoreNext]_(Store!storeVars)
  <2>1. CASE UpdateTxnStatusToCommit(t)
    BY <2>1, CommitStep DEF StampsInRange, Store!StoreNext
  <2>2. CASE ~ UpdateTxnStatusToCommit(t)
    <3>1. /\ [k \in Key |-> AbstractCurrent(k)]' = [k \in Key |-> AbstractCurrent(k)]
          /\ \/ [u \in Txn |-> txns[u].status]' = [u \in Txn |-> txns[u].status]
             \/ UpdateTxnStatusToAbort(t)
      BY <1>1, <1>3, <2>2, InvisibleStep
    <3>2. CASE UpdateTxnStatusToAbort(t)
      <4>1. txns \in [Txn -> TxnEntry]
        BY DEF TypeOK, DbTypeOK
      <4>2. operation[t] = "UpdateTxnStatusToAbort"
        BY <3>2 DEF UpdateTxnStatusToAbort, Moves
      <4>3. /\ txns[t].status = "Ongoing" /\ txns'[t].status = "Aborted"
            /\ \A u \in Txn : u # t => txns'[u].status = txns[u].status
        BY <3>2, <4>1, <4>2, BeforeDecision
           DEF UpdateTxnStatusToAbort, UpdateTxnStatus, TxnEntry, AfterDecision
      <4>4. /\ [u \in Txn |-> txns[u].status][t] = "Ongoing"
            /\ [u \in Txn |-> txns[u].status]' =
                 [[u \in Txn |-> txns[u].status] EXCEPT ![t] = "Aborted"]
        BY <4>3
      <4>5. Store!Abort(t)
        BY <3>1, <4>4 DEF Store!Abort
      <4> QED BY <4>5 DEF Store!StoreNext
    <3>3. CASE ~ UpdateTxnStatusToAbort(t)
      BY <3>1, <3>3 DEF Store!storeVars
    <3> QED BY <3>2, <3>3
  <2> QED BY <2>1, <2>2
<1> QED BY <1>2, <1>3 DEF Next, AllEnded

\* Transactions are atomic, for any number of transactions, keys and versions, in any
\* interleaving and whatever calls fail: what other transactions and clients can tell
\* apart changes only when the transaction table gets a decision, and then as if all
\* the writes of the transaction were done at once.
THEOREM CommitsAreAtomic ==
  ASSUME EndTsGap <= 1
  PROVE  Spec /\ []StampsInRange => CommitIsAtomic
<1>1. Spec => [](TypeOK /\ OwnershipInv /\ ExecutionInv /\ ChainInv)
  BY Chain
<1>2. TypeOK /\ OwnershipInv /\ ExecutionInv /\ ChainInv /\ StampsInRange /\ [Next]_vars =>
        [Store!StoreNext]_(Store!storeVars)
  BY AtomicNext
<1>3. Init => Store!StoreInit
  BY AtomicInit
<1> QED BY <1>1, <1>2, <1>3, PTL DEF Spec, CommitIsAtomic, Store!StoreSpec
-----------------------------------------------------------------------------
(* A serial order.  A reader may commit at the timestamp of the writer, so *)
(* that timestamps alone do not rank the transactions: the order in which  *)
(* the table decided breaks the tie.                                       *)

\* What a committed transaction has read is settled as well.
LEMMA CommittedReads ==
  ASSUME TypeOK, OwnershipInv, ExecutionInv, NEW t \in Txn, Client(t) \/ Progress(t),
         NEW u \in Committed
  PROVE  /\ DOMAIN readSet'[u] = DOMAIN readSet[u]
         /\ \A i \in DOMAIN readSet[u] : /\ readSet'[u][i].key = readSet[u][i].key
                                         /\ readSet'[u][i].version = readSet[u][i].version
<1>1. u \in Txn /\ operation[u] \in AfterDecision
  BY BeforeDecision DEF Committed
<1>2. CASE u # t
  BY <1>1, <1>2, EveryStepFrame DEF Frame
<1>3. CASE u = t
  <2>1. operation[t] \in {"PostProcessingAfterCommit", "PostProcessingAfterAbort",
                          "ReleaseReadCounter", "Finished", "Recover"}
    BY <1>1, <1>3 DEF AfterDecision
  <2>2. ~ Client(t)
    BY <2>1 DEF Client, Begin, Commit, Abort, ReadDataStore, Read, Insert, Upsert,
                CallReadOutside, Update, Delete, Moves, Requested
  <2>3. ASSUME NEW i \in DOMAIN readSet[t], ReadEntryStep(t, i) PROVE SetsKept(t)
    <3>1. UNCHANGED localVars \/ (Released(t, i) /\ UNCHANGED writeSet)
      BY <2>3 DEF ReadEntryStep, UpdateReadEntryMaxCommitTs, UpdateReadEntryMaxCommitTsError,
           PushConflictTxnCommitTsLowerBound, PushConflictTxnCommitTsLowerBoundError,
           ReleaseReadCounterForEachEntry, ReleaseReadCounterForEachEntryError, Recover
    <3> QED BY <3>1, SetsUnchanged, ReleaseKeepsSets, FALSE \in BOOLEAN DEF Released
  <2>4. ASSUME NEW i \in DOMAIN writeSet[t], WriteEntryStep(t, i) PROVE SetsKept(t)
    <3>1. \/ UploadVersionEntry(t, i) \/ UNCHANGED localVars
          \/ \E half \in CommitHalf, e \in BOOLEAN : CommitEntryAnswered(t, i, half, e)
      BY <2>4 DEF WriteEntryStep, UploadVersionEntryError, PostProcessingCommitNew, CommitHalf,
           PostProcessingClosePrev, PostProcessingCommitEntryError,
           PostProcessingDeleteEntryAfterAbort, PostProcessingDeleteEntryAfterAbortError, Recover
    <3> QED BY <3>1, SetsUnchanged, UploadKeepsSets, CommitEntryKeepsSets
  <2>5. ASSUME \/ UpdateTxnStatusToCommit(t) \/ UpdateTxnStatusToCommitError(t)
               \/ PostProcessingAfterCommitNext(t)
               \/ UpdateTxnStatusToAbort(t) \/ UpdateTxnStatusToAbortError(t)
               \/ PostProcessingAfterAbortNext(t) \/ ReleaseReadCounterNext(t)
        PROVE  SetsKept(t)
    <3>1. UNCHANGED localVars
      BY <2>5 DEF UpdateTxnStatusToCommit, UpdateTxnStatusToCommitError,
                  PostProcessingAfterCommitNext, UpdateTxnStatusToAbort, UpdateTxnStatusToAbortError,
                  PostProcessingAfterAbortNext, ReleaseReadCounterNext, Recover
    <3> QED BY <3>1, SetsUnchanged
  <2>6. ~ (\/ InitTxn(t) \/ InitTxnError(t) \/ ReadOutside(t) \/ ReadOutsideError(t)
           \/ ReadDataStoreNext(t) \/ UploadNext(t) \/ SetCommitTs(t) \/ SetCommitTsError(t)
           \/ ValidateNext(t) \/ WriteToLog(t))
    BY <2>1 DEF InitTxn, InitTxnError, ReadOutside, ReadOutsideError, ReadOutsideNext, ReadNext,
                InsertNext, UpsertNext, ReadDataStoreNext, UploadNext, SetCommitTs, SetCommitTsError,
                ValidateNext, WriteToLog, AbortFrom, Moves
  <2>7. SetsKept(t)
    BY <2>2, <2>3, <2>4, <2>5, <2>6 DEF Progress
  <2> QED BY <1>3, <2>7 DEF SetsKept
<1> QED BY <1>2, <1>3

\* So who has read from whom does not change.
LEMMA ReadsFromFrozen ==
  ASSUME TypeOK, OwnershipInv, ExecutionInv, NEW t \in Txn, Client(t) \/ Progress(t),
         NEW x \in Committed, NEW y \in Committed
  PROVE  ReadsFrom(y, x)' <=> ReadsFrom(y, x)
<1>1. writeSet'[x] = writeSet[x]
  BY CommittedFrozen
<1>2. /\ DOMAIN readSet'[y] = DOMAIN readSet[y]
      /\ \A i \in DOMAIN readSet[y] : /\ readSet'[y][i].key = readSet[y][i].key
                                      /\ readSet'[y][i].version = readSet[y][i].version
  BY CommittedReads
<1> QED BY <1>1, <1>2 DEF ReadsFrom

\* Nobody commits having read from a transaction that has not committed yet.
LEMMA UndecidedUnread ==
  ASSUME TypeOK, OwnershipInv, ChainInv, NEW x \in Txn, operation[x] = "UpdateTxnStatusToCommit",
         NEW t \in Txn, t # x
  PROVE  ~ ReadsFrom(t, x)
<1> SUFFICES ASSUME NEW i \in DOMAIN writeSet[x], NEW j \in DOMAIN readSet[t],
                    writeSet[x][i].key = readSet[t][j].key,
                    writeSet[x][i].version <= readSet[t][j].version
             PROVE  FALSE
  BY DEF ReadsFrom
<1>1. x \notin Committed /\ txns[x].status = "Ongoing"
  BY BeforeDecision DEF AfterDecision
<1>2. PICK k \in Key : \E m \in 1 .. MaxVersion : writeSet[x][i].key = k /\ writeSet[x][i].version = m
  BY PlaceOfEntry
<1>3. PICK m \in 1 .. MaxVersion : writeSet[x][i].key = k /\ writeSet[x][i].version = m
  BY <1>2
<1>4. Writes(x, i, k, m) /\ Holds(x, i)
  <2>1. writeSet[x][i].need_post_processing
    BY DEF OwnershipInv, AllUploaded
  <2> QED BY <1>1, <1>3, <2>1 DEF Writes, Holds
<1>5. PICK n \in 0 .. MaxVersion : readSet[t][j].key = k /\ readSet[t][j].version = n
  BY <1>3, ReadPlace
<1>6. Stable(k, n) /\ m <= n /\ m \in 0 .. MaxVersion
  BY <1>3, <1>5, VersionDbAssumption DEF ChainInv, ReadsStable, ReadStable
<1>7. Stable(k, m)
  <2>1. m = n \/ m < n
    BY <1>6
  <2> QED BY <1>6, <2>1 DEF ChainInv, NoGaps, Stable
<1>8. PICK y \in Committed : \E l \in DOMAIN writeSet[y] :
        writeSet[y][l].key = k /\ writeSet[y][l].version = m
  BY <1>7, WriterOfStable
<1>9. PICK l \in DOMAIN writeSet[y] : writeSet[y][l].key = k /\ writeSet[y][l].version = m
  BY <1>8
<1>10. y \in Txn /\ Writes(y, l, k, m) /\ Holds(y, l)
  BY <1>9, CommittedWrites DEF Holds, Writes, Committed
<1>11. y = x
  BY <1>4, <1>10, SoleHolder
<1> QED BY <1>1, <1>11

\* The table has made finitely many decisions, in some order, in which every reader
\* follows the writers.
DecidedIn(order, n) ==
  /\ IsFiniteSet(Committed)
  /\ order \in [Txn -> Nat] /\ n \in Nat
  /\ \A t \in Committed : order[t] < n
  /\ \A t, u \in Committed : t # u /\ ReadsFrom(u, t) => order[t] < order[u]

DecisionsOrdered == \E order, n : DecidedIn(order, n)

LEMMA InitDecisions == Init => DecisionsOrdered
<1> SUFFICES ASSUME Init PROVE DecidedIn([t \in Txn |-> 0], 0)
  BY DEF DecisionsOrdered
<1>1. Committed = {}
  BY DEF Init, DbInit, Committed
<1> QED BY <1>1, FS_EmptySet DEF DecidedIn

LEMMA NextDecisions ==
  ASSUME TypeOK, OwnershipInv, ExecutionInv, ChainInv, DecisionsOrdered, [Next]_vars
  PROVE  DecisionsOrdered'
<1>1. PICK order, n : DecidedIn(order, n)
  BY DEF DecisionsOrdered
<1>2. CASE UNCHANGED vars
  <2>1. DecidedIn(order, n)'
    BY <1>1, <1>2 DEF DecidedIn, Committed, ReadsFrom, vars, dbVars, execVars, localVars
  <2> QED BY <2>1 DEF DecisionsOrdered
<1>3. ASSUME NEW x \in Txn, Client(x) \/ Progress(x) PROVE DecisionsOrdered'
  <2>1. CASE UpdateTxnStatusToCommit(x)
    <3>1. operation[x] = "UpdateTxnStatusToCommit" /\ UNCHANGED localVars /\ UpdateTxnStatus(x, "Committed")
      BY <2>1 DEF UpdateTxnStatusToCommit, Moves
    <3>2. Committed' = Committed \cup {x} /\ x \notin Committed
      <4>1. txns \in [Txn -> TxnEntry] /\ x \notin Committed
        BY <3>1, BeforeDecision DEF TypeOK, DbTypeOK, AfterDecision
      <4> QED BY <3>1, <4>1 DEF UpdateTxnStatus, TxnEntry, Committed
    <3> DEFINE next == [order EXCEPT ![x] = n]
    <3>3. /\ next \in [Txn -> Nat] /\ next[x] = n
          /\ \A t \in Txn : t # x => next[t] = order[t]
      BY <1>1 DEF DecidedIn
    <3> HIDE DEF next
    <3>4. \A t \in Committed' : next[t] < n + 1
      BY <1>1, <3>2, <3>3 DEF DecidedIn, Committed
    <3>5. ASSUME NEW t \in Committed', NEW u \in Committed', t # u, ReadsFrom(u, t)'
          PROVE  next[t] < next[u]
      <4>1. ReadsFrom(u, t)
        BY <3>1, <3>5 DEF ReadsFrom, localVars
      <4>2. t # x
        BY <3>1, <3>2, <3>5, <4>1, UndecidedUnread DEF Committed
      <4> QED BY <1>1, <3>2, <3>3, <3>5, <4>1, <4>2 DEF DecidedIn, Committed
    <3>6. IsFiniteSet(Committed')
      BY <1>1, <3>2, FS_AddElement DEF DecidedIn
    <3>7. DecidedIn(next, n + 1)'
      BY <1>1, <3>3, <3>4, <3>5, <3>6 DEF DecidedIn
    <3> QED BY <3>7 DEF DecisionsOrdered
  <2>2. CASE ~ UpdateTxnStatusToCommit(x)
    <3>1. Committed' \subseteq Committed
      <4>1. CASE UpdateTxnStatusToAbort(x)
        <5>1. txns \in [Txn -> TxnEntry]
          BY DEF TypeOK, DbTypeOK
        <5> QED BY <4>1, <5>1 DEF UpdateTxnStatusToAbort, UpdateTxnStatus, TxnEntry, Committed
      <4>2. CASE ~ UpdateTxnStatusToAbort(x)
        BY <1>3, <2>2, <4>2, StatusStep DEF Committed
      <4> QED BY <4>1, <4>2
    <3>2. \A t, u \in Committed : ReadsFrom(u, t)' => ReadsFrom(u, t)
      BY <1>3, ReadsFromFrozen
    <3>3. IsFiniteSet(Committed')
      BY <1>1, <3>1, FS_Subset DEF DecidedIn
    <3>4. DecidedIn(order, n)'
      BY <1>1, <3>1, <3>2, <3>3 DEF DecidedIn
    <3> QED BY <3>4 DEF DecisionsOrdered
  <2> QED BY <2>1, <2>2
<1> QED BY <1>2, <1>3 DEF Next, AllEnded

\* By timestamp, and by decision where timestamps are equal.
Precedes(order, t, u) ==
  \/ commit_timestamp[t] < commit_timestamp[u]
  \/ commit_timestamp[t] = commit_timestamp[u] /\ order[t] < order[u]

\* A transaction's rank is the number of those that do not follow it.
UpTo(order, u) == {t \in Committed : t = u \/ Precedes(order, t, u)}

LEMMA RankedByPrecedence ==
  ASSUME IsFiniteSet(Committed), TypeOK, NEW order \in [Txn -> Nat]
  PROVE  /\ \A u \in Committed : Cardinality(UpTo(order, u)) \in 1 .. Cardinality(Committed)
         /\ \A t, u \in Committed : Precedes(order, t, u) =>
              Cardinality(UpTo(order, t)) < Cardinality(UpTo(order, u))
<1>1. IsFiniteSet(Committed)
  OBVIOUS
<1>2. \A t \in Committed : t \in Txn /\ commit_timestamp[t] \in Int /\ order[t] \in Nat
  BY Stamps DEF Committed
<1>3. ASSUME NEW u \in Committed
      PROVE  /\ IsFiniteSet(UpTo(order, u)) /\ Cardinality(UpTo(order, u)) \in Nat
             /\ Cardinality(UpTo(order, u)) <= Cardinality(Committed)
             /\ Cardinality(UpTo(order, u)) # 0
  <2>1. UpTo(order, u) \in SUBSET Committed /\ u \in UpTo(order, u)
    BY DEF UpTo
  <2>2. IsFiniteSet(UpTo(order, u)) /\ Cardinality(UpTo(order, u)) <= Cardinality(Committed)
    BY <1>1, <2>1, FS_Subset
  <2>3. Cardinality(UpTo(order, u)) \in Nat
    BY <2>2, FS_CardinalityType
  <2>4. Cardinality(UpTo(order, u)) # 0
    BY <2>1, <2>2, FS_EmptySet
  <2> QED BY <2>2, <2>3, <2>4
<1>4. Cardinality(Committed) \in Nat
  BY <1>1, FS_CardinalityType
<1>5. ASSUME NEW t \in Committed, NEW u \in Committed, Precedes(order, t, u)
      PROVE  Cardinality(UpTo(order, t)) < Cardinality(UpTo(order, u))
  <2>1. \A v \in Committed : Precedes(order, v, t) => Precedes(order, v, u)
    BY <1>2, <1>5 DEF Precedes
  <2>2. UpTo(order, t) \in SUBSET UpTo(order, u)
    BY <1>5, <2>1 DEF UpTo
  <2>3. u \in UpTo(order, u) /\ u \notin UpTo(order, t)
    <3>1. u # t /\ ~ Precedes(order, u, t)
      BY <1>2, <1>5 DEF Precedes
    <3> QED BY <3>1 DEF UpTo
  <2>4. /\ Cardinality(UpTo(order, t)) <= Cardinality(UpTo(order, u))
        /\ Cardinality(UpTo(order, t)) # Cardinality(UpTo(order, u))
    BY <1>3, <2>2, <2>3, FS_Subset
  <2> QED BY <1>3, <2>4
<1> QED BY <1>3, <1>4, <1>5

\* A serial order of the committed transactions explains what they read and wrote, for
\* any number of them: they are ranked by commit timestamp, and those of one
\* timestamp as the table decided them.
THEOREM ConflictsAreOrdered ==
  ASSUME EndTsGap = 1
  PROVE  Spec => []ConflictSerializable
<1> DEFINE Inv == TypeOK /\ OwnershipInv /\ ExecutionInv /\ ChainInv
<1>1. Inv /\ DecisionsOrdered /\ SerializableByTimestamp => ConflictSerializable
  <2> SUFFICES ASSUME TypeOK, DecisionsOrdered, SerializableByTimestamp PROVE ConflictSerializable
    OBVIOUS
  <2>1. PICK order, n : DecidedIn(order, n)
    BY DEF DecisionsOrdered
  <2>2. order \in [Txn -> Nat] /\ IsFiniteSet(Committed)
    BY <2>1 DEF DecidedIn
  <2> DEFINE rank == [u \in Committed |-> Cardinality(UpTo(order, u))]
  <2>3. rank \in [Committed -> 1 .. Cardinality(Committed)]
    BY <2>2, RankedByPrecedence
  <2>4. ASSUME NEW t \in Committed, NEW u \in Committed, t # u, ReadsFrom(u, t) \/ Supersedes(u, t)
        PROVE  rank[t] < rank[u]
    <3>1. commit_timestamp[t] \in Int /\ commit_timestamp[u] \in Int
      BY Stamps DEF Committed
    <3>2. Precedes(order, t, u)
      BY <2>1, <2>4, <3>1 DEF Precedes, DecidedIn, SerializableByTimestamp
    <3>3. Cardinality(UpTo(order, t)) < Cardinality(UpTo(order, u))
      BY <2>2, <3>2, RankedByPrecedence
    <3> QED BY <3>3
  <2> HIDE DEF rank
  <2> QED BY <2>3, <2>4 DEF ConflictSerializable
<1>2. Init => DecisionsOrdered
  BY InitDecisions
<1>3. Inv /\ DecisionsOrdered /\ [Next]_vars => DecisionsOrdered'
  BY NextDecisions
<1>4. Spec => []Inv
  BY Chain
<1>5. Spec => []SerializableByTimestamp
  BY Serializable
<1> HIDE DEF Inv
<1> QED BY <1>1, <1>2, <1>3, <1>4, <1>5, PTL DEF Spec
=============================================================================
