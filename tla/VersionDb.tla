----------------------------- MODULE VersionDb -----------------------------
(***************************************************************************)
(* The store behind request::Handler (include/versiondb/request/handler.h):*)
(* the version lists of the keys, the transaction table and the read       *)
(* counters that keep versions in memory.  The handler is an interface in  *)
(* the repository; its implementation is a service outside it.  The calls  *)
(* are therefore specified from what the transaction operations send and   *)
(* from what they do with the answers, and each of them is atomic.         *)
(***************************************************************************)
EXTENDS Integers

CONSTANTS
  Txn,            \* transaction ids (TxnEntry.tx_id)
  Key,            \* <<table name, key>> pairs (LocalState::SetKey)
  kEmptyTxId,     \* the tx_id of an unlocked version
  kMaxTimeStamp,  \* the end_ts of the current version
  MaxVersion,     \* bound: the largest version number of a key
  EndTsGap        \* a superseded version ends at commit_ts - EndTsGap

ASSUME VersionDbAssumption ==
  /\ kEmptyTxId \notin Txn
  /\ kMaxTimeStamp \in Nat
  /\ MaxVersion \in Nat \ {0}
  /\ EndTsGap \in Nat

kDefaultVersion  == -1
kDefaultBeginTs  == -1
kDefaultEndTs    == -1
kDefaultCommitTs == -1
kFirstVersion    == 0

TxnStatus == {"Ongoing", "Committed", "WaitForAborting", "Aborting", "Aborted"}

VersionEntry ==
  [version       : kDefaultVersion .. MaxVersion,
   tx_id         : Txn \cup {kEmptyTxId},
   begin_ts      : Int,
   end_ts        : Int,
   max_commit_ts : Int,
   is_deleted    : BOOLEAN]

TxnEntry == [status : TxnStatus, commit_ts : Int, commit_lower_bound : Int]

\* VersionEntry::VersionEntry(): the entry of a version that does not exist.
DefaultEntry ==
  [version |-> kDefaultVersion, tx_id |-> kEmptyTxId,
   begin_ts |-> kDefaultBeginTs, end_ts |-> kDefaultEndTs,
   max_commit_ts |-> -1, is_deleted |-> TRUE]

\* The initial pseudo version of a new version list (handler.h, GetVersionList).
PseudoVersion ==
  [version |-> kFirstVersion, tx_id |-> kEmptyTxId, begin_ts |-> 0,
   end_ts |-> kMaxTimeStamp, max_commit_ts |-> 0, is_deleted |-> TRUE]

\* What UploadVersionEntry::Reset sends: a version without timestamps, owned by t.
DirtyVersion(n, t, is_deleted) ==
  [version |-> n, tx_id |-> t, begin_ts |-> kDefaultBeginTs,
   end_ts |-> kDefaultEndTs, max_commit_ts |-> 0, is_deleted |-> is_deleted]

VARIABLES
  versions,      \* versions[k][n]: version n of key k, DefaultEntry if there is none
  txns,          \* the transaction table
  read_counter   \* read_counter[k]: reads of k that have not been released

dbVars == <<versions, txns, read_counter>>

DbInit ==
  /\ versions = [k \in Key |-> [n \in 0 .. MaxVersion |-> DefaultEntry]]
  /\ txns = [t \in Txn |-> [status |-> "Ongoing",
                            commit_ts |-> kDefaultCommitTs,
                            commit_lower_bound |-> kDefaultCommitTs]]
  /\ read_counter = [k \in Key |-> 0]

DbTypeOK ==
  /\ versions \in [Key -> [0 .. MaxVersion -> VersionEntry]]
  /\ txns \in [Txn -> TxnEntry]
  /\ read_counter \in [Key -> Int]

Exists(k, n) == versions[k][n].version # kDefaultVersion

-----------------------------------------------------------------------------
(* The version list of a key.                                              *)

InitVersionList(list) ==
  IF list[kFirstVersion].version = kDefaultVersion
  THEN [list EXCEPT ![kFirstVersion] = PseudoVersion]
  ELSE list

\* n is the newest version of the list; the answer holds it and the one before.
IsLatest(list, n) ==
  /\ n \in 0 .. MaxVersion
  /\ list[n].version # kDefaultVersion
  /\ \A m \in 0 .. MaxVersion : list[m].version # kDefaultVersion => m <= n

SecondLatest(list, n) == IF n > 0 THEN list[n - 1] ELSE DefaultEntry

\* Creates the list of a new key, counts the read.
GetVersionList(k) ==
  /\ versions' = [versions EXCEPT ![k] = InitVersionList(@)]
  /\ read_counter' = [read_counter EXCEPT ![k] = @ + 1]
  /\ UNCHANGED txns

\* How the calls change one version entry.
LockedBy(entry, t) == [entry EXCEPT !.tx_id = t]

CommittedAt(entry, ts) ==
  [version |-> entry.version, tx_id |-> kEmptyTxId, begin_ts |-> ts,
   end_ts |-> kMaxTimeStamp, max_commit_ts |-> entry.max_commit_ts,
   is_deleted |-> entry.is_deleted]

ClosedBy(entry, ts) == [LockedBy(entry, kEmptyTxId) EXCEPT !.end_ts = ts - EndTsGap]

\* Version n of k is free; t takes it and locks the version it will supersede.
\* The answer is the largest commit_ts of that version's validated readers.
CanUploadVersion(k, n) == ~ Exists(k, n)

UploadVersion(k, n, t, is_deleted) ==
  /\ CanUploadVersion(k, n)
  /\ versions' = [versions EXCEPT
       ![k] = [@ EXCEPT ![n] = DirtyVersion(n, t, is_deleted),
                        ![n - 1] = LockedBy(versions[k][n - 1], t)]]
  /\ UNCHANGED <<txns, read_counter>>

UploadVersionResult(k, n) == versions[k][n - 1].max_commit_ts

\* Removes a dirty version and unlocks its predecessor.
CanDeleteVersion(k, n) == Exists(k, n) /\ versions[k][n].end_ts = kDefaultEndTs

DeleteVersion(k, n) ==
  /\ versions' = [versions EXCEPT
       ![k] = [@ EXCEPT ![n] = DefaultEntry,
                        ![n - 1] = LockedBy(versions[k][n - 1], kEmptyTxId)]]
  /\ UNCHANGED <<txns, read_counter>>

(***************************************************************************)
(* CommitVersion answers in two parts (ref_cnt = 2), in any order: the new *)
(* version gets its timestamps and loses its owner; its predecessor is     *)
(* closed and unlocked and the writer's read of it is released.            *)
(***************************************************************************)
CanCommitNewVersion(k, n, t) == Exists(k, n) /\ versions[k][n].tx_id = t

CommitNewVersion(k, n, ts) ==
  /\ versions' = [versions EXCEPT ![k] = [@ EXCEPT ![n] = CommittedAt(versions[k][n], ts)]]
  /\ UNCHANGED <<txns, read_counter>>

CanClosePrevVersion(k, n, t) == versions[k][n - 1].tx_id = t

ClosePrevVersion(k, n, ts) ==
  /\ versions' = [versions EXCEPT ![k] = [@ EXCEPT ![n - 1] = ClosedBy(versions[k][n - 1], ts)]]
  /\ read_counter' = [read_counter EXCEPT ![k] = @ - 1]
  /\ UNCHANGED txns

\* Raises max_commit_ts, answers with the entry, releases the read.
RaisedMaxCommitTs(entry, ts) ==
  IF entry.version # kDefaultVersion /\ entry.max_commit_ts < ts
  THEN [entry EXCEPT !.max_commit_ts = ts] ELSE entry

UpdateMaxCommitTsAndReread(k, n, ts) ==
  /\ versions' = [versions EXCEPT ![k] = [@ EXCEPT ![n] = RaisedMaxCommitTs(versions[k][n], ts)]]
  /\ read_counter' = [read_counter EXCEPT ![k] = @ - 1]
  /\ UNCHANGED txns

ReleaseReadCounter(k) ==
  /\ read_counter' = [read_counter EXCEPT ![k] = @ - 1]
  /\ UNCHANGED <<versions, txns>>

-----------------------------------------------------------------------------
(* The transaction table.                                                  *)

NewTxn(t, local_time) ==
  /\ txns' = [txns EXCEPT ![t] = [status |-> "Ongoing",
                                  commit_ts |-> kDefaultCommitTs,
                                  commit_lower_bound |-> local_time]]
  /\ UNCHANGED <<versions, read_counter>>

\* The commit timestamp is never below what conflicting readers asked for.
SetCommitTimestampResult(t, proposed) ==
  IF proposed < txns[t].commit_lower_bound
  THEN txns[t].commit_lower_bound ELSE proposed

SetCommitTimestamp(t, proposed) ==
  /\ txns' = [txns EXCEPT ![t].commit_ts = SetCommitTimestampResult(t, proposed)]
  /\ UNCHANGED <<versions, read_counter>>

\* Has an effect only as long as u has no commit timestamp.
UpdateCommitLowerBound(u, ts) ==
  /\ txns' =
       [txns EXCEPT
          ![u].commit_lower_bound =
             IF txns[u].commit_ts = kDefaultCommitTs /\ @ < ts THEN ts ELSE @]
  /\ UNCHANGED <<versions, read_counter>>

UpdateTxnStatus(t, status) ==
  /\ txns' = [txns EXCEPT ![t].status = status]
  /\ UNCHANGED <<versions, read_counter>>
=============================================================================
