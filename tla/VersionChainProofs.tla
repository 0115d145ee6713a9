-------------------------- MODULE VersionChainProofs --------------------------
(***************************************************************************)
(* The version lists of the store, for any number of transactions, keys    *)
(* and versions and whatever calls fail: the versions of a key follow each *)
(* other without gaps, what is read is committed and stays, and every      *)
(* dirty version and every lock belongs to a write set entry whose         *)
(* transaction will still commit or delete it, or has been stopped by a    *)
(* failing call.                                                           *)
(***************************************************************************)
EXTENDS ExecutionProofs

\* Version n of k has been committed: it has its timestamps and keeps them.
Stable(k, n) == Exists(k, n) /\ versions[k][n].end_ts # kDefaultEndTs

\* Entry i of the write set of t is in the store as version n of k.
Writes(t, i, k, n) ==
  /\ i \in DOMAIN writeSet[t]
  /\ writeSet[t][i].need_post_processing
  /\ writeSet[t][i].key = k
  /\ writeSet[t][i].version = n

\* What half names is still to be done for entry i, or has failed.
Pending(t, i, half) ==
  /\ t \in Committed => CallFor(half, i) \in calls[t] \/ CallFor(Failed(half), i) \in calls[t]
  /\ txns[t].status = "Aborted" => CallFor("DeleteVersion", i) \in calls[t]

\* The new version is dirty, and its predecessor is locked, until then.
NewHeld(t, i)  == Pending(t, i, "CommitNew")
PrevHeld(t, i) == Pending(t, i, "ClosePrev")

\* An abort that a failing call has stopped: what it left in the store stays.
Stuck(t) == txns[t].status = "Aborted" /\ operation[t] = "Recover"

\* A call is in flight or has failed, not both.
CallsOnce(t) ==
  \A i \in DOMAIN writeSet[t] : \A half \in CommitHalf :
    ~ (CallFor(half, i) \in calls[t] /\ CallFor(Failed(half), i) \in calls[t])

-----------------------------------------------------------------------------
(* The invariant.                                                          *)

\* An entry of a version list is free and unlocked, or has its place's number.
EntriesWellFormed ==
  \A k \in Key : \A n \in 0 .. MaxVersion :
    /\ Exists(k, n) => versions[k][n].version = n
    /\ ~ Exists(k, n) => versions[k][n].tx_id = kEmptyTxId
    /\ Exists(k, 0) => Stable(k, 0) /\ versions[k][0].begin_ts = 0

\* Whatever a version is above has been committed, at increasing timestamps.
NoGaps ==
  \A k \in Key : \A m, n \in 0 .. MaxVersion :
    m < n /\ Exists(k, n) =>
      /\ Stable(k, m)
      /\ Stable(k, n) => versions[k][m].begin_ts < versions[k][n].begin_ts

\* A version that has been read is committed and what it was.
ReadStable(r) ==
  /\ Stable(r.key, r.version)
  /\ r.begin_ts = versions[r.key][r.version].begin_ts

ReadsStable == \A t \in Txn : \A i \in DOMAIN readSet[t] : ReadStable(readSet[t][i])

\* What the store says of the version that entry i of t has put there.
Owns(t, i, k, n) ==
  /\ NewHeld(t, i) => Dirty(k, n) /\ versions[k][n].tx_id = t
  /\ PrevHeld(t, i) => versions[k][n - 1].tx_id = t
  /\ t \in Committed /\ ~ NewHeld(t, i) =>
       Stable(k, n) /\ versions[k][n].begin_ts = commit_timestamp[t]
  /\ t \in Committed /\ ~ PrevHeld(t, i) =>
       versions[k][n - 1].end_ts = commit_timestamp[t] - EndTsGap

HolderOwns ==
  \A t \in Txn : \A i \in DOMAIN writeSet[t] : \A k \in Key : \A n \in 1 .. MaxVersion :
    Writes(t, i, k, n) => Owns(t, i, k, n)

\* What a stopped abort has left: a dirty version and the lock on its predecessor.
Left(t, k, n) ==
  /\ Stuck(t)
  /\ Dirty(k, n)
  /\ versions[k][n].tx_id = t
  /\ versions[k][n - 1].tx_id = t

\* Who a dirty version belongs to, who has locked a version, who has committed one.
DirtyOwner(t, i, k, n) ==
  /\ Writes(t, i, k, n)
  /\ versions[k][n].tx_id = t
  /\ NewHeld(t, i) \/ Left(t, k, n)

LockOwner(t, i, k, n) ==
  /\ Writes(t, i, k, n + 1)
  /\ versions[k][n].tx_id = t
  /\ PrevHeld(t, i) \/ Left(t, k, n + 1)

Author(t, i, k, n) ==
  /\ t \in Committed
  /\ Writes(t, i, k, n)
  /\ ~ NewHeld(t, i)

DirtyHeld ==
  \A k \in Key : \A n \in 1 .. MaxVersion :
    Dirty(k, n) => \E t \in Txn : \E i \in DOMAIN writeSet[t] : DirtyOwner(t, i, k, n)

LockHeld ==
  \A k \in Key : \A n \in 0 .. MaxVersion :
    Stable(k, n) /\ versions[k][n].tx_id # kEmptyTxId =>
      \E t \in Txn : \E i \in DOMAIN writeSet[t] : LockOwner(t, i, k, n)

CommittedWritten ==
  \A k \in Key : \A n \in 1 .. MaxVersion :
    Stable(k, n) => \E t \in Txn : \E i \in DOMAIN writeSet[t] : Author(t, i, k, n)

ChainInv ==
  /\ \A t \in Txn : CallsOnce(t)
  /\ EntriesWellFormed /\ NoGaps /\ ReadsStable
  /\ HolderOwns /\ DirtyHeld /\ LockHeld /\ CommittedWritten


-----------------------------------------------------------------------------
(* What a step leaves alone.                                               *)

\* The stamps of version n of k, and who owns or locks it, are what they were.
SameEntry(k, n) ==
  /\ versions'[k][n].version = versions[k][n].version
  /\ versions'[k][n].tx_id = versions[k][n].tx_id
  /\ versions'[k][n].begin_ts = versions[k][n].begin_ts
  /\ versions'[k][n].end_ts = versions[k][n].end_ts

\* The pseudo version of a new list.
Born(k, n) == n = 0 /\ ~ Exists(k, 0) /\ versions'[k][0] = PseudoVersion

\* A committed version stays, with the timestamp of its writer.
StaysStable(k, n) ==
  Stable(k, n) => Stable(k, n)' /\ versions'[k][n].begin_ts = versions[k][n].begin_ts

\* Entry i of t holds what it held, or has been stopped.
SameHold(t, i) ==
  /\ Stuck(t) => Stuck(t)'
  /\ t \in Committed => t \in Committed' /\ commit_timestamp'[t] = commit_timestamp[t]
  /\ t \in Committed' => t \in Committed \/ (NewHeld(t, i)' /\ PrevHeld(t, i)')
  /\ NewHeld(t, i)' => NewHeld(t, i)
  /\ PrevHeld(t, i)' => PrevHeld(t, i)
  /\ NewHeld(t, i) => NewHeld(t, i)' \/ (Stuck(t)' /\ PrevHeld(t, i))
  /\ PrevHeld(t, i) => PrevHeld(t, i)' \/ (Stuck(t)' /\ NewHeld(t, i))

Kept(t, i) ==
  \A k \in Key : \A n \in 1 .. MaxVersion :
    /\ Writes(t, i, k, n)' <=> Writes(t, i, k, n)
    /\ Writes(t, i, k, n) => SameHold(t, i)

\* Every read was there before, or is a read of what is committed now.
ReadsKept(t) ==
  \A i \in DOMAIN readSet'[t] :
    \/ \E l \in DOMAIN readSet[t] :
         /\ readSet'[t][i].key = readSet[t][l].key
         /\ readSet'[t][i].version = readSet[t][l].version
         /\ readSet'[t][i].begin_ts = readSet[t][l].begin_ts
    \/ ReadStable(readSet[t][i])'

\* An entry that holds something has its version in the store.
LEMMA HoldersExist ==
  ASSUME OwnershipInv, NEW t \in Txn, NEW i, NEW k \in Key, NEW n \in 1 .. MaxVersion,
         Writes(t, i, k, n), NewHeld(t, i) \/ PrevHeld(t, i) \/ t \in Committed
  PROVE  Exists(k, n) /\ Holds(t, i)
<1>1. Holds(t, i)
  BY DEF Writes, NewHeld, PrevHeld, Pending, Holds, Committed
<1> QED BY <1>1 DEF OwnershipInv, HeldExists, Writes

\* What is kept is still true of the version.
LEMMA OwnsKept ==
  ASSUME NEW t \in Txn, NEW i, NEW k \in Key, NEW n \in 1 .. MaxVersion,
         Writes(t, i, k, n), Owns(t, i, k, n), Kept(t, i), StaysStable(k, n),
         NewHeld(t, i) => SameEntry(k, n),
         PrevHeld(t, i) \/ t \in Committed => SameEntry(k, n - 1)
  PROVE  Owns(t, i, k, n)'
<1>1. SameHold(t, i)
  BY DEF Kept
<1>2. NewHeld(t, i)' => Dirty(k, n)' /\ versions'[k][n].tx_id = t
  BY <1>1 DEF SameHold, Owns, SameEntry, Dirty, Exists
<1>3. PrevHeld(t, i)' => versions'[k][n - 1].tx_id = t
  BY <1>1 DEF SameHold, Owns, SameEntry
<1>4. t \in Committed' /\ ~ NewHeld(t, i)' =>
        Stable(k, n)' /\ versions'[k][n].begin_ts = commit_timestamp'[t]
  <2>1. ASSUME t \in Committed', ~ NewHeld(t, i)'
        PROVE  t \in Committed /\ ~ NewHeld(t, i)
    BY <1>1, <2>1 DEF SameHold, Stuck, Committed
  <2> QED BY <1>1, <2>1 DEF SameHold, Owns, StaysStable
<1>5. t \in Committed' /\ ~ PrevHeld(t, i)' =>
        versions'[k][n - 1].end_ts = commit_timestamp'[t] - EndTsGap
  <2>1. ASSUME t \in Committed', ~ PrevHeld(t, i)'
        PROVE  t \in Committed /\ ~ PrevHeld(t, i)
    BY <1>1, <2>1 DEF SameHold, Stuck, Committed
  <2> QED BY <1>1, <2>1 DEF SameHold, Owns, SameEntry
<1> QED BY <1>2, <1>3, <1>4, <1>5 DEF Owns

\* So is who a version belongs to,
LEMMA DirtyOwnerKept ==
  ASSUME NEW t \in Txn, NEW i, NEW k \in Key, NEW n \in 1 .. MaxVersion,
         DirtyOwner(t, i, k, n), Owns(t, i, k, n), Kept(t, i),
         SameEntry(k, n), SameEntry(k, n - 1)
  PROVE  DirtyOwner(t, i, k, n)' /\ i \in DOMAIN writeSet'[t]
<1>1. SameHold(t, i) /\ Writes(t, i, k, n)'
  BY DEF Kept, DirtyOwner
<1>2. versions'[k][n].tx_id = t
  BY DEF SameEntry, DirtyOwner
<1>3. NewHeld(t, i)' \/ Left(t, k, n)'
  BY <1>1 DEF SameHold, DirtyOwner, Owns, SameEntry, Left, Dirty, Exists
<1> QED BY <1>1, <1>2, <1>3 DEF DirtyOwner, Writes

\* who has locked it
LEMMA LockOwnerKept ==
  ASSUME NEW t \in Txn, NEW i, NEW k \in Key, NEW n \in 0 .. MaxVersion,
         n + 1 \in 1 .. MaxVersion,
         LockOwner(t, i, k, n), Owns(t, i, k, n + 1), Kept(t, i), SameEntry(k, n),
         SameEntry(k, n + 1) \/ Stable(k, n + 1)
  PROVE  LockOwner(t, i, k, n)' /\ i \in DOMAIN writeSet'[t]
<1>1. SameHold(t, i) /\ Writes(t, i, k, n + 1)'
  BY DEF Kept, LockOwner
<1>2. versions'[k][n].tx_id = t
  BY DEF SameEntry, LockOwner
<1>3. n + 1 - 1 = n
  OBVIOUS
<1>4. Left(t, k, n + 1) => Left(t, k, n + 1)'
  BY <1>1, <1>2, <1>3 DEF SameHold, SameEntry, Left, Dirty, Stable, Exists
<1>5. PrevHeld(t, i) => PrevHeld(t, i)' \/ Left(t, k, n + 1)'
  BY <1>1, <1>2, <1>3 DEF SameHold, SameEntry, Owns, Left, Dirty, Stable, Exists
<1> QED BY <1>1, <1>2, <1>4, <1>5 DEF LockOwner, Writes

\* and who has written it.
LEMMA AuthorKept ==
  ASSUME NEW t \in Txn, NEW i, NEW k \in Key, NEW n \in 1 .. MaxVersion,
         Author(t, i, k, n), Kept(t, i)
  PROVE  Author(t, i, k, n)' /\ i \in DOMAIN writeSet'[t]
<1>1. SameHold(t, i) /\ Writes(t, i, k, n)'
  BY DEF Kept, Author
<1> QED BY <1>1 DEF SameHold, Author, Writes


\* The place of a write in the store.
LEMMA WritePlace ==
  ASSUME TypeOK, NEW t \in Txn, NEW i, NEW k, NEW n, Writes(t, i, k, n)
  PROVE  k \in Key /\ n \in 1 .. MaxVersion /\ i \in DOMAIN writeSet[t]
<1>1. i \in DOMAIN writeSet[t] /\ writeSet[t][i] \in WriteSetEntry
  BY Entries DEF Writes
<1> QED BY <1>1 DEF Writes, WriteSetEntry

\* The place of a read in the store.
LEMMA ReadPlace ==
  ASSUME TypeOK, NEW t \in Txn, NEW i \in DOMAIN readSet[t]
  PROVE  readSet[t][i].key \in Key /\ readSet[t][i].version \in 0 .. MaxVersion
<1>1. readSet[t][i] \in ReadSetEntry
  BY Entries
<1> QED BY <1>1 DEF ReadSetEntry

\* Reads that are kept stay stable when what is committed stays.
LEMMA ReadsStayStable ==
  ASSUME TypeOK, ReadsStable, NEW t \in Txn, ReadsKept(t),
         \A k \in Key : \A n \in 0 .. MaxVersion : StaysStable(k, n)
  PROVE  \A i \in DOMAIN readSet'[t] : ReadStable(readSet[t][i])'
<1> SUFFICES ASSUME NEW i \in DOMAIN readSet'[t] PROVE ReadStable(readSet[t][i])'
  OBVIOUS
<1>1. CASE \E l \in DOMAIN readSet[t] :
             /\ readSet'[t][i].key = readSet[t][l].key
             /\ readSet'[t][i].version = readSet[t][l].version
             /\ readSet'[t][i].begin_ts = readSet[t][l].begin_ts
  <2>1. PICK l \in DOMAIN readSet[t] :
               /\ readSet'[t][i].key = readSet[t][l].key
               /\ readSet'[t][i].version = readSet[t][l].version
               /\ readSet'[t][i].begin_ts = readSet[t][l].begin_ts
    BY <1>1
  <2>2. PICK k \in Key, n \in 0 .. MaxVersion :
               k = readSet[t][l].key /\ n = readSet[t][l].version
    BY ReadPlace
  <2>3. Stable(k, n) /\ readSet[t][l].begin_ts = versions[k][n].begin_ts
    BY <2>2 DEF ReadsStable, ReadStable
  <2>4. Stable(k, n)' /\ readSet[t][l].begin_ts = versions'[k][n].begin_ts
    BY <2>3 DEF StaysStable
  <2>5. readSet'[t][i].key = k /\ readSet'[t][i].version = n
    BY <2>1, <2>2
  <2> QED BY <2>1, <2>4, <2>5 DEF ReadStable, Stable, Exists
<1> QED BY <1>1 DEF ReadsKept

\* Most steps: no version but a pseudo version comes or goes, nothing is released.
LEMMA CalmChain ==
  ASSUME TypeOK, OwnershipInv, ChainInv, TypeOK',
         \A k \in Key : \A n \in 0 .. MaxVersion : SameEntry(k, n) \/ Born(k, n),
         \A t \in Txn : \A i : Kept(t, i),
         \A t \in Txn : ReadsKept(t) /\ CallsOnce(t)'
  PROVE  ChainInv'
<1> USE DEF kDefaultVersion, kDefaultEndTs
<1>1. \A k \in Key : \A n \in 0 .. MaxVersion : StaysStable(k, n)
  BY DEF SameEntry, Born, StaysStable, Stable, Exists
<1>2. ASSUME NEW k \in Key, NEW n \in 0 .. MaxVersion, Exists(k, n), NEW m \in 0 .. MaxVersion, m <= n
      PROVE  SameEntry(k, m)
  <2>1. Exists(k, m)
    <3>1. CASE m < n
      BY <1>2, <3>1 DEF ChainInv, NoGaps, Stable
    <3> QED BY <1>2, <3>1
  <2> QED BY <2>1 DEF Born
<1>3. EntriesWellFormed'
  <2> SUFFICES ASSUME NEW k \in Key, NEW n \in 0 .. MaxVersion
               PROVE  /\ Exists(k, n)' => versions'[k][n].version = n
                      /\ ~ Exists(k, n)' => versions'[k][n].tx_id = kEmptyTxId
                      /\ Exists(k, 0)' => Stable(k, 0)' /\ versions'[k][0].begin_ts = 0
    BY DEF EntriesWellFormed
  <2>1. 0 \in 0 .. MaxVersion
    BY VersionDbAssumption
  <2>2. ASSUME NEW m \in 0 .. MaxVersion, Born(k, m)
        PROVE  /\ m = 0 /\ versions'[k][0].version = 0 /\ versions'[k][0].end_ts # kDefaultEndTs
               /\ versions'[k][0].begin_ts = 0
    BY <2>2, VersionDbAssumption DEF Born, PseudoVersion, kFirstVersion
  <2>3. Exists(k, n)' => versions'[k][n].version = n
    BY <2>2 DEF ChainInv, EntriesWellFormed, SameEntry, Exists
  <2>4. ~ Exists(k, n)' => versions'[k][n].tx_id = kEmptyTxId
    BY <2>2 DEF ChainInv, EntriesWellFormed, SameEntry, Exists
  <2>5. Exists(k, 0)' => Stable(k, 0)' /\ versions'[k][0].begin_ts = 0
    BY <2>1, <2>2 DEF ChainInv, EntriesWellFormed, SameEntry, Exists, Stable
  <2> QED BY <2>3, <2>4, <2>5
<1>4. NoGaps'
  <2> SUFFICES ASSUME NEW k \in Key, NEW m \in 0 .. MaxVersion, NEW n \in 0 .. MaxVersion,
                      m < n, Exists(k, n)'
               PROVE  /\ Stable(k, m)'
                      /\ Stable(k, n)' => versions'[k][m].begin_ts < versions'[k][n].begin_ts
    BY DEF NoGaps
  <2>1. SameEntry(k, n)
    BY DEF Born
  <2>2. Exists(k, n) /\ (Stable(k, n)' => Stable(k, n))
    BY <2>1 DEF SameEntry, Exists, Stable
  <2>3. Stable(k, m) /\ (Stable(k, n) => versions[k][m].begin_ts < versions[k][n].begin_ts)
    BY <2>2 DEF ChainInv, NoGaps
  <2> QED BY <1>1, <2>1, <2>2, <2>3 DEF StaysStable, SameEntry
<1>5. ReadsStable'
  BY <1>1, ReadsStayStable DEF ReadsStable, ChainInv
<1>6. HolderOwns'
  <2> SUFFICES ASSUME NEW t \in Txn, NEW i \in DOMAIN writeSet'[t], NEW k \in Key,
                      NEW n \in 1 .. MaxVersion, Writes(t, i, k, n)'
               PROVE  Owns(t, i, k, n)'
    BY DEF HolderOwns
  <2>1. Writes(t, i, k, n) /\ i \in DOMAIN writeSet[t]
    BY DEF Kept, Writes
  <2>2. Owns(t, i, k, n)
    BY <2>1 DEF ChainInv, HolderOwns
  <2>3. n \in 0 .. MaxVersion /\ n - 1 \in 0 .. MaxVersion /\ n - 1 <= n /\ n <= n
    BY VersionDbAssumption
  <2>4. NewHeld(t, i) \/ PrevHeld(t, i) \/ t \in Committed => SameEntry(k, n) /\ SameEntry(k, n - 1)
    BY <1>2, <2>1, <2>3, HoldersExist
  <2> QED BY <1>1, <2>1, <2>2, <2>3, <2>4, OwnsKept
<1>7. DirtyHeld'
  <2> SUFFICES ASSUME NEW k \in Key, NEW n \in 1 .. MaxVersion, Dirty(k, n)'
               PROVE  \E t \in Txn : \E i \in DOMAIN writeSet'[t] : DirtyOwner(t, i, k, n)'
    BY DEF DirtyHeld
  <2>1. n \in 0 .. MaxVersion /\ n - 1 \in 0 .. MaxVersion /\ n - 1 <= n /\ n # 0
    BY VersionDbAssumption
  <2>2. SameEntry(k, n)
    BY <2>1 DEF Born
  <2>3. Dirty(k, n)
    BY <2>2 DEF SameEntry, Dirty, Exists
  <2>4. PICK t \in Txn : \E i \in DOMAIN writeSet[t] : DirtyOwner(t, i, k, n)
    BY <2>3 DEF ChainInv, DirtyHeld
  <2>5. PICK i \in DOMAIN writeSet[t] : DirtyOwner(t, i, k, n)
    BY <2>4
  <2>6. Owns(t, i, k, n)
    BY <2>5 DEF ChainInv, HolderOwns, DirtyOwner
  <2>7. SameEntry(k, n - 1)
    BY <1>2, <2>1, <2>3 DEF Dirty
  <2> QED BY <2>2, <2>5, <2>6, <2>7, DirtyOwnerKept
<1>8. LockHeld'
  <2> SUFFICES ASSUME NEW k \in Key, NEW n \in 0 .. MaxVersion, Stable(k, n)',
                      versions'[k][n].tx_id # kEmptyTxId
               PROVE  \E t \in Txn : \E i \in DOMAIN writeSet'[t] : LockOwner(t, i, k, n)'
    BY DEF LockHeld
  <2>1. SameEntry(k, n)
    BY DEF Born, PseudoVersion
  <2>2. Stable(k, n) /\ versions[k][n].tx_id # kEmptyTxId
    BY <2>1 DEF SameEntry, Stable, Exists
  <2>3. PICK t \in Txn : \E i \in DOMAIN writeSet[t] : LockOwner(t, i, k, n)
    BY <2>2 DEF ChainInv, LockHeld
  <2>4. PICK i \in DOMAIN writeSet[t] : LockOwner(t, i, k, n)
    BY <2>3
  <2>5. n + 1 \in 1 .. MaxVersion
    BY <2>4, WritePlace DEF LockOwner
  <2>6. Owns(t, i, k, n + 1)
    BY <2>4, <2>5 DEF ChainInv, HolderOwns, LockOwner
  <2>7. SameEntry(k, n + 1)
    BY <2>5 DEF Born
  <2> QED BY <2>1, <2>4, <2>5, <2>6, <2>7, LockOwnerKept
<1>9. CommittedWritten'
  <2> SUFFICES ASSUME NEW k \in Key, NEW n \in 1 .. MaxVersion, Stable(k, n)'
               PROVE  \E t \in Txn : \E i \in DOMAIN writeSet'[t] : Author(t, i, k, n)'
    BY DEF CommittedWritten
  <2>1. SameEntry(k, n)
    BY DEF Born
  <2>2. Stable(k, n)
    BY <2>1 DEF SameEntry, Stable, Exists
  <2>3. PICK t \in Txn : \E i \in DOMAIN writeSet[t] : Author(t, i, k, n)
    BY <2>2 DEF ChainInv, CommittedWritten
  <2>4. PICK i \in DOMAIN writeSet[t] : Author(t, i, k, n)
    BY <2>3
  <2> QED BY <2>4, AuthorKept
<1> QED BY <1>3, <1>4, <1>5, <1>6, <1>7, <1>8, <1>9 DEF ChainInv


-----------------------------------------------------------------------------
(* The steps that change a version: uploads, deletions, the two halves of  *)
(* CommitVersion.                                                          *)

\* A step for entry i of t, which is version n of k.  It changes at most that version
\* and its predecessor, which is committed and stays so; nobody else holds the
\* version, nor anything above it unless the step leaves it alone.
Touches(t, i, k, n) ==
  /\ i \in DOMAIN writeSet[t] /\ writeSet[t][i].key = k /\ writeSet[t][i].version = n
  /\ \A l, m : Writes(t, i, l, m)' => l = k /\ m = n
  /\ Stable(k, n - 1)
  /\ SameEntry(k, n) \/ \A m \in 0 .. MaxVersion : m > n => ~ Exists(k, m)
  /\ \A u \in Txn : \A j : u # t \/ j # i =>
       Kept(u, j) /\ (Writes(u, j, k, n) => ~ Holds(u, j))
  /\ \A l \in Key : \A m \in 0 .. MaxVersion : l # k \/ m \notin {n, n - 1} => SameEntry(l, m)
  /\ \A l \in Key : \A m \in 0 .. MaxVersion : StaysStable(l, m)

\* All other entries own what they owned.
LEMMA OthersOwn ==
  ASSUME TypeOK, OwnershipInv, ChainInv, NEW t \in Txn, NEW i, NEW k \in Key,
         NEW n \in 1 .. MaxVersion, Touches(t, i, k, n),
         NEW u \in Txn, NEW j, u # t \/ j # i, NEW l \in Key, NEW m \in 1 .. MaxVersion,
         Writes(u, j, l, m)'
  PROVE  Owns(u, j, l, m)'
<1>1. /\ m \in 0 .. MaxVersion /\ m - 1 \in 0 .. MaxVersion /\ n \in 0 .. MaxVersion
      /\ n - 1 # n /\ (m - 1 = n - 1 => m = n) /\ (m - 1 = n => m > n)
  BY VersionDbAssumption
<1>2. Kept(u, j) /\ Writes(u, j, l, m)
  BY DEF Touches, Kept
<1>3. Owns(u, j, l, m)
  BY <1>2 DEF ChainInv, HolderOwns, Writes
<1>4. NewHeld(u, j) \/ PrevHeld(u, j) \/ u \in Committed =>
        Exists(l, m) /\ (l # k \/ m # n)
  BY <1>2, HoldersExist DEF Touches
<1>5. NewHeld(u, j) => SameEntry(l, m)
  <2>1. NewHeld(u, j) => Dirty(l, m)
    BY <1>3 DEF Owns
  <2> QED BY <1>1, <1>4, <2>1 DEF Touches, Dirty, Stable
<1>6. PrevHeld(u, j) \/ u \in Committed => SameEntry(l, m - 1)
  BY <1>1, <1>4 DEF Touches
<1> QED BY <1>1, <1>2, <1>3, <1>5, <1>6, OwnsKept DEF Touches

\* All other versions belong to whom they belonged to.
LEMMA OthersDirty ==
  ASSUME TypeOK, OwnershipInv, ChainInv, NEW t \in Txn, NEW i, NEW k \in Key,
         NEW n \in 1 .. MaxVersion, Touches(t, i, k, n),
         NEW l \in Key, NEW m \in 1 .. MaxVersion, l # k \/ m # n, Dirty(l, m)'
  PROVE  \E u \in Txn : \E j \in DOMAIN writeSet'[u] : DirtyOwner(u, j, l, m)'
<1>1. /\ m \in 0 .. MaxVersion /\ m - 1 \in 0 .. MaxVersion /\ n \in 0 .. MaxVersion
      /\ n - 1 \in 0 .. MaxVersion /\ (m - 1 = n - 1 => m = n) /\ (m - 1 = n => m > n)
  BY VersionDbAssumption
<1>2. l # k \/ m # n - 1
  BY <1>1 DEF Touches, StaysStable, Dirty, Stable
<1>3. SameEntry(l, m) /\ Dirty(l, m)
  BY <1>1, <1>2 DEF Touches, SameEntry, Dirty, Exists
<1>4. SameEntry(l, m - 1)
  BY <1>1, <1>3 DEF Touches, Dirty
<1>5. PICK u \in Txn : \E j \in DOMAIN writeSet[u] : DirtyOwner(u, j, l, m)
  BY <1>3 DEF ChainInv, DirtyHeld
<1>6. PICK j \in DOMAIN writeSet[u] : DirtyOwner(u, j, l, m)
  BY <1>5
<1>7. Owns(u, j, l, m) /\ (u # t \/ j # i)
  BY <1>6 DEF ChainInv, HolderOwns, DirtyOwner, Writes, Touches
<1> QED BY <1>3, <1>4, <1>6, <1>7, DirtyOwnerKept DEF Touches

\* All other locks are kept,
LEMMA OthersLocked ==
  ASSUME TypeOK, OwnershipInv, ChainInv, NEW t \in Txn, NEW i, NEW k \in Key,
         NEW n \in 1 .. MaxVersion, Touches(t, i, k, n),
         NEW l \in Key, NEW m \in 0 .. MaxVersion, SameEntry(l, m), l # k \/ m # n - 1,
         Stable(l, m)', versions'[l][m].tx_id # kEmptyTxId
  PROVE  \E u \in Txn : \E j \in DOMAIN writeSet'[u] : LockOwner(u, j, l, m)'
<1>1. Stable(l, m) /\ versions[l][m].tx_id # kEmptyTxId
  BY DEF SameEntry, Stable, Exists
<1>2. PICK u \in Txn : \E j \in DOMAIN writeSet[u] : LockOwner(u, j, l, m)
  BY <1>1 DEF ChainInv, LockHeld
<1>3. PICK j \in DOMAIN writeSet[u] : LockOwner(u, j, l, m)
  BY <1>2
<1>4. m + 1 \in 1 .. MaxVersion
  BY <1>3, WritePlace DEF LockOwner
<1>5. u # t \/ j # i
  <2>1. Writes(u, j, l, m + 1)
    BY <1>3 DEF LockOwner
  <2>2. l # k \/ m + 1 # n
    BY VersionDbAssumption
  <2> QED BY <2>1, <2>2 DEF Writes, Touches
<1>6. Owns(u, j, l, m + 1)
  BY <1>3, <1>4 DEF ChainInv, HolderOwns, LockOwner
<1>7. SameEntry(l, m + 1) \/ Stable(l, m + 1)
  BY <1>4, VersionDbAssumption DEF Touches
<1> QED BY <1>3, <1>4, <1>5, <1>6, <1>7, LockOwnerKept DEF Touches

\* and so are all other authors.
LEMMA OthersAuthors ==
  ASSUME TypeOK, OwnershipInv, ChainInv, NEW t \in Txn, NEW i, NEW k \in Key,
         NEW n \in 1 .. MaxVersion, Touches(t, i, k, n),
         NEW l \in Key, NEW m \in 1 .. MaxVersion, l # k \/ m # n, Stable(l, m)'
  PROVE  \E u \in Txn : \E j \in DOMAIN writeSet'[u] : Author(u, j, l, m)'
<1>1. Stable(l, m)
  <2>1. m \in 0 .. MaxVersion
    BY VersionDbAssumption
  <2>2. CASE l = k /\ m = n - 1
    BY <2>2 DEF Touches
  <2>3. CASE ~ (l = k /\ m = n - 1)
    BY <2>1, <2>3 DEF Touches, SameEntry, Stable, Exists
  <2> QED BY <2>2, <2>3
<1>2. PICK u \in Txn : \E j \in DOMAIN writeSet[u] : Author(u, j, l, m)
  BY <1>1 DEF ChainInv, CommittedWritten
<1>3. PICK j \in DOMAIN writeSet[u] : Author(u, j, l, m)
  BY <1>2
<1>4. u # t \/ j # i
  BY <1>3 DEF Author, Writes, Touches
<1> QED BY <1>3, <1>4, AuthorKept DEF Touches

\* Such a step keeps the invariant if it leaves the two versions in order.
LEMMA TouchedChain ==
  ASSUME TypeOK, OwnershipInv, ChainInv, TypeOK', NEW t \in Txn, NEW i, NEW k \in Key,
         NEW n \in 1 .. MaxVersion, Touches(t, i, k, n),
         \A u \in Txn : ReadsKept(u) /\ CallsOnce(u)',
         \A m \in {n, n - 1} : /\ Exists(k, m)' => versions'[k][m].version = m
                               /\ ~ Exists(k, m)' => versions'[k][m].tx_id = kEmptyTxId,
         Stable(k, n)' => versions[k][n - 1].begin_ts < versions'[k][n].begin_ts,
         Writes(t, i, k, n)' => Owns(t, i, k, n)',
         Dirty(k, n)' => DirtyOwner(t, i, k, n)',
         Stable(k, n)' => Author(t, i, k, n)',
         Stable(k, n)' /\ versions'[k][n].tx_id # kEmptyTxId => SameEntry(k, n),
         versions'[k][n - 1].tx_id # kEmptyTxId => LockOwner(t, i, k, n - 1)'
  PROVE  ChainInv'
<1>1. /\ n \in 0 .. MaxVersion /\ n - 1 \in 0 .. MaxVersion /\ n - 1 < n /\ 0 \in 0 .. MaxVersion
      /\ n # 0
  BY VersionDbAssumption
<1>2. \A l \in Key : \A m \in 0 .. MaxVersion : StaysStable(l, m)
  BY DEF Touches
<1>3. EntriesWellFormed'
  <2> SUFFICES ASSUME NEW l \in Key, NEW m \in 0 .. MaxVersion
               PROVE  /\ Exists(l, m)' => versions'[l][m].version = m
                      /\ ~ Exists(l, m)' => versions'[l][m].tx_id = kEmptyTxId
                      /\ Exists(l, 0)' => Stable(l, 0)' /\ versions'[l][0].begin_ts = 0
    BY DEF EntriesWellFormed
  <2>1. /\ Exists(l, m)' => versions'[l][m].version = m
        /\ ~ Exists(l, m)' => versions'[l][m].tx_id = kEmptyTxId
    <3>1. CASE l = k /\ m \in {n, n - 1}
      BY <3>1
    <3>2. CASE ~ (l = k /\ m \in {n, n - 1})
      <4>1. SameEntry(l, m)
        BY <3>2 DEF Touches
      <4> QED BY <4>1 DEF SameEntry, Exists, ChainInv, EntriesWellFormed
    <3> QED BY <3>1, <3>2
  <2>2. Exists(l, 0)' => Exists(l, 0)
    BY <1>1 DEF Touches, SameEntry, Exists, Stable
  <2>3. Exists(l, 0) => Stable(l, 0) /\ versions[l][0].begin_ts = 0
    BY DEF ChainInv, EntriesWellFormed
  <2> QED BY <1>1, <1>2, <2>1, <2>2, <2>3 DEF StaysStable
<1>4. NoGaps'
  <2> SUFFICES ASSUME NEW l \in Key, NEW p \in 0 .. MaxVersion, NEW q \in 0 .. MaxVersion,
                      p < q, Exists(l, q)'
               PROVE  /\ Stable(l, p)'
                      /\ Stable(l, q)' => versions'[l][p].begin_ts < versions'[l][q].begin_ts
    BY DEF NoGaps
  <2>1. CASE SameEntry(l, q) \/ (l = k /\ q = n - 1)
    <3>1. Exists(l, q) /\ (Stable(l, q)' => Stable(l, q))
      BY <2>1 DEF SameEntry, Exists, Stable, Touches
    <3>2. Stable(l, p) /\ (Stable(l, q) => versions[l][p].begin_ts < versions[l][q].begin_ts)
      BY <3>1 DEF ChainInv, NoGaps
    <3> QED BY <1>2, <3>1, <3>2 DEF StaysStable
  <2>2. CASE l = k /\ q = n
    <3>1. Stable(k, n - 1)
      BY DEF Touches
    <3>2. p = n - 1 \/ p < n - 1
      BY <1>1, <2>2
    <3>3. p < n - 1 => Stable(k, p) /\ versions[k][p].begin_ts < versions[k][n - 1].begin_ts
      BY <1>1, <3>1 DEF ChainInv, NoGaps, Stable
    <3>4. /\ Stable(k, p)
          /\ versions[k][p].begin_ts <= versions[k][n - 1].begin_ts
      <4>1. versions[k][n - 1].begin_ts \in Int /\ versions[k][p].begin_ts \in Int
        BY <1>1 DEF TypeOK, DbTypeOK, VersionEntry
      <4> QED BY <3>1, <3>2, <3>3, <4>1
    <3>5. /\ versions[k][n - 1].begin_ts \in Int /\ versions[k][p].begin_ts \in Int
          /\ versions'[k][n].begin_ts \in Int
      BY <1>1 DEF TypeOK, DbTypeOK, VersionEntry
    <3>6. Stable(k, p)' /\ versions'[k][p].begin_ts = versions[k][p].begin_ts
      BY <1>2, <3>4 DEF StaysStable
    <3>7. Stable(k, n)' => versions[k][p].begin_ts < versions'[k][n].begin_ts
      BY <3>4, <3>5
    <3> QED BY <2>2, <3>6, <3>7
  <2> QED BY <2>1, <2>2 DEF Touches
<1>5. ReadsStable'
  BY <1>2, ReadsStayStable DEF ReadsStable, ChainInv
<1>6. HolderOwns'
  <2> SUFFICES ASSUME NEW u \in Txn, NEW j \in DOMAIN writeSet'[u], NEW l \in Key,
                      NEW m \in 1 .. MaxVersion, Writes(u, j, l, m)'
               PROVE  Owns(u, j, l, m)'
    BY DEF HolderOwns
  <2>1. CASE u = t /\ j = i
    BY <2>1 DEF Touches
  <2>2. CASE u # t \/ j # i
    BY <2>2, OthersOwn
  <2> QED BY <2>1, <2>2
<1>7. DirtyHeld'
  <2> SUFFICES ASSUME NEW l \in Key, NEW m \in 1 .. MaxVersion, Dirty(l, m)'
               PROVE  \E u \in Txn : \E j \in DOMAIN writeSet'[u] : DirtyOwner(u, j, l, m)'
    BY DEF DirtyHeld
  <2>1. CASE l = k /\ m = n
    BY <2>1 DEF DirtyOwner, Writes
  <2>2. CASE l # k \/ m # n
    BY <2>2, OthersDirty
  <2> QED BY <2>1, <2>2
<1>8. LockHeld'
  <2> SUFFICES ASSUME NEW l \in Key, NEW m \in 0 .. MaxVersion, Stable(l, m)',
                      versions'[l][m].tx_id # kEmptyTxId
               PROVE  \E u \in Txn : \E j \in DOMAIN writeSet'[u] : LockOwner(u, j, l, m)'
    BY DEF LockHeld
  <2>1. CASE l = k /\ m = n - 1
    BY <2>1 DEF LockOwner, Writes
  <2>2. CASE l # k \/ m # n - 1
    <3>1. SameEntry(l, m)
      BY <2>2 DEF Touches
    <3> QED BY <2>2, <3>1, OthersLocked
  <2> QED BY <2>1, <2>2
<1>9. CommittedWritten'
  <2> SUFFICES ASSUME NEW l \in Key, NEW m \in 1 .. MaxVersion, Stable(l, m)'
               PROVE  \E u \in Txn : \E j \in DOMAIN writeSet'[u] : Author(u, j, l, m)'
    BY DEF CommittedWritten
  <2>1. CASE l = k /\ m = n
    BY <2>1 DEF Author, Writes
  <2>2. CASE l # k \/ m # n
    BY <2>2, OthersAuthors
  <2> QED BY <2>1, <2>2
<1> QED BY <1>3, <1>4, <1>5, <1>6, <1>7, <1>8, <1>9 DEF ChainInv


-----------------------------------------------------------------------------
(* What is kept.                                                           *)

\* Before the decision only the entries matter.
LEMMA KeptUndecided ==
  ASSUME NEW t \in Txn, txns[t].status = "Ongoing", txns'[t].status = "Ongoing", NEW i,
         \A k \in Key : \A n \in 1 .. MaxVersion : Writes(t, i, k, n)' <=> Writes(t, i, k, n)
  PROVE  Kept(t, i)
BY DEF Kept, SameHold, Stuck, Committed, NewHeld, PrevHeld, Pending

\* After it, the calls and whether the transaction has been stopped.
LEMMA KeptDecided ==
  ASSUME NEW t \in Txn, txns'[t].status = txns[t].status,
         commit_timestamp'[t] = commit_timestamp[t], Stuck(t) => Stuck(t)', NEW i,
         \A k \in Key : \A n \in 1 .. MaxVersion : Writes(t, i, k, n)' <=> Writes(t, i, k, n),
         \A op \in CommitCalls \cup {"DeleteVersion"} :
           CallFor(op, i) \in calls'[t] <=> CallFor(op, i) \in calls[t]
  PROVE  Kept(t, i)
<1>1. /\ Failed("CommitNew") \in CommitCalls /\ Failed("ClosePrev") \in CommitCalls
      /\ "CommitNew" \in CommitCalls /\ "ClosePrev" \in CommitCalls
  BY DEF Failed, CommitCalls
<1>2. t \in Committed' <=> t \in Committed
  BY DEF Committed
<1>3. NewHeld(t, i)' <=> NewHeld(t, i)
  BY <1>1, <1>2 DEF NewHeld, Pending
<1>4. PrevHeld(t, i)' <=> PrevHeld(t, i)
  BY <1>1, <1>2 DEF PrevHeld, Pending
<1> QED BY <1>2, <1>3, <1>4 DEF Kept, SameHold

\* Reads that are only released are kept.
LEMMA SetsKeptReads ==
  ASSUME NEW t \in Txn, SetsKept(t)
  PROVE  ReadsKept(t)
BY DEF SetsKept, ReadsKept

\* A step of t leaves the others' entries alone.
LEMMA OthersKeep ==
  ASSUME NEW t \in Txn, Frame(t), NEW u \in Txn, u # t, CallsOnce(u)
  PROVE  (\A i : Kept(u, i)) /\ ReadsKept(u) /\ CallsOnce(u)'
<1>1. /\ operation'[u] = operation[u] /\ calls'[u] = calls[u]
      /\ readSet'[u] = readSet[u] /\ writeSet'[u] = writeSet[u]
      /\ commit_timestamp'[u] = commit_timestamp[u]
      /\ txns'[u].status = txns[u].status
  BY DEF Frame
<1>2. ASSUME NEW i PROVE Kept(u, i)
  <2>1. Stuck(u) => Stuck(u)'
    BY <1>1 DEF Stuck
  <2>2. \A k \in Key : \A n \in 1 .. MaxVersion : Writes(u, i, k, n)' <=> Writes(u, i, k, n)
    BY <1>1 DEF Writes
  <2> QED BY <1>1, <2>1, <2>2, KeptDecided
<1>3. ReadsKept(u)
  BY <1>1 DEF ReadsKept
<1>4. CallsOnce(u)'
  BY <1>1 DEF CallsOnce
<1> QED BY <1>2, <1>3, <1>4

-----------------------------------------------------------------------------
(* The store's side of the steps that change versions.                     *)

\* Entries of one list are replaced.
LEMMA ListReplaced ==
  ASSUME DbTypeOK, NEW k \in Key, NEW list, versions' = [versions EXCEPT ![k] = list]
  PROVE  versions'[k] = list /\ \A l \in Key : l # k => versions'[l] = versions[l]
BY DEF DbTypeOK

\* The entries of a list are version entries.
LEMMA StoredEntries ==
  ASSUME TypeOK, NEW k \in Key, NEW n \in 0 .. MaxVersion
  PROVE  versions[k][n] \in VersionEntry
<1>1. versions \in [Key -> [0 .. MaxVersion -> VersionEntry]]
  BY DEF TypeOK, DbTypeOK
<1> QED BY <1>1

\* The predecessor of a version in the store, and of one that is about to be.
LEMMA PrevStable ==
  ASSUME TypeOK, ChainInv, NEW k \in Key, NEW n \in 1 .. MaxVersion,
         \/ Exists(k, n)
         \/ \E t \in Txn : \E i \in DOMAIN writeSet[t] :
              SetsLinked(t) /\ writeSet[t][i].key = k /\ writeSet[t][i].version = n
  PROVE  Stable(k, n - 1)
<1>1. n \in 0 .. MaxVersion /\ n - 1 \in 0 .. MaxVersion /\ n - 1 < n
  BY VersionDbAssumption
<1>2. CASE Exists(k, n)
  BY <1>1, <1>2 DEF ChainInv, NoGaps
<1>3. ASSUME NEW t \in Txn, NEW i \in DOMAIN writeSet[t],
             SetsLinked(t), writeSet[t][i].key = k, writeSet[t][i].version = n
      PROVE  Stable(k, n - 1)
  <2>1. /\ writeSet[t][i].read_entry \in DOMAIN readSet[t]
        /\ readSet[t][writeSet[t][i].read_entry].key = k
        /\ readSet[t][writeSet[t][i].read_entry].version = n - 1
    BY <1>3 DEF SetsLinked
  <2> QED BY <2>1 DEF ChainInv, ReadsStable, ReadStable
<1> QED BY <1>2, <1>3

\* Nothing is above a version that is free or dirty.
LEMMA NothingAbove ==
  ASSUME ChainInv, NEW k \in Key, NEW n \in 1 .. MaxVersion, ~ Stable(k, n),
         NEW m \in 0 .. MaxVersion, m > n
  PROVE  ~ Exists(k, m)
<1>1. n \in 0 .. MaxVersion /\ n < m
  BY VersionDbAssumption
<1> QED BY <1>1 DEF ChainInv, NoGaps


\* An upload: the version is t's, and its predecessor is locked by t.
LEMMA UploadChain ==
  ASSUME TypeOK, OwnershipInv, ExecutionInv, ChainInv, TypeOK',
         NEW t \in Txn, NEW i \in DOMAIN writeSet[t], UploadVersionEntry(t, i)
  PROVE  ChainInv'
<1>1. writeSet[t][i] \in WriteSetEntry
  BY Entries
<1>2. PICK k \in Key, n \in 1 .. MaxVersion : writeSet[t][i].key = k /\ writeSet[t][i].version = n
  BY <1>1 DEF WriteSetEntry
<1>3. /\ n \in 0 .. MaxVersion /\ n - 1 \in 0 .. MaxVersion /\ n # n - 1 /\ n - 1 + 1 = n
  BY VersionDbAssumption
<1>4. SelfInv(t) /\ SetsLinked(t) /\ CallsOnce(t)
  BY DEF ExecutionInv, SelfInv, ChainInv
<1>5. PICK d : UploadVersion(k, n, t, d)
  BY <1>2 DEF UploadVersionEntry
<1>6. /\ ~ Exists(k, n) /\ txns' = txns /\ operation' = operation
      /\ commit_timestamp' = commit_timestamp /\ calls'[t] \subseteq calls[t]
      /\ CallFor("UploadVersion", i) \in calls[t]
  BY <1>5 DEF UploadVersion, CanUploadVersion, UploadVersionEntry, Answered, TypeOK
<1>7. /\ versions'[k][n] = DirtyVersion(n, t, d)
      /\ versions'[k][n - 1] = LockedBy(versions[k][n - 1], t)
      /\ \A l \in Key : \A m \in 0 .. MaxVersion :
           l # k \/ m \notin {n, n - 1} => versions'[l][m] = versions[l][m]
  <2> DEFINE new  == DirtyVersion(n, t, d)
             prev == LockedBy(versions[k][n - 1], t)
             list == [versions[k] EXCEPT ![n] = new, ![n - 1] = prev]
  <2>1. list = [versions[k] EXCEPT ![n] = new, ![n - 1] = prev]
    OBVIOUS
  <2>0. versions' = [versions EXCEPT ![k] = list]
    BY <1>5 DEF UploadVersion
  <2> HIDE DEF list, new, prev
  <2>2. DbTypeOK /\ versions[k] \in [0 .. MaxVersion -> VersionEntry]
    BY DEF TypeOK, DbTypeOK
  <2>3. /\ list[n] = new /\ list[n - 1] = prev
        /\ \A m \in 0 .. MaxVersion : m \notin {n, n - 1} => list[m] = versions[k][m]
    BY <1>3, <2>1, <2>2
  <2>4. versions'[k] = list /\ \A l \in Key : l # k => versions'[l] = versions[l]
    BY <2>0, <2>2, ListReplaced
  <2> QED BY <2>3, <2>4 DEF new, prev
<1>8. /\ versions'[k][n].version = n /\ versions'[k][n].tx_id = t
      /\ versions'[k][n].end_ts = kDefaultEndTs
  BY <1>7 DEF DirtyVersion
<1>9. /\ versions'[k][n - 1].version = versions[k][n - 1].version
      /\ versions'[k][n - 1].tx_id = t
      /\ versions'[k][n - 1].begin_ts = versions[k][n - 1].begin_ts
      /\ versions'[k][n - 1].end_ts = versions[k][n - 1].end_ts
  <2>1. versions[k][n - 1] \in VersionEntry
    BY <1>3, StoredEntries
  <2> QED BY <1>7, <2>1 DEF LockedBy, VersionEntry
<1>10. Stable(k, n - 1)
  BY <1>2, <1>4, PrevStable
<1>11. operation[t] = "Upload" /\ txns[t].status = "Ongoing" /\ t \notin Committed
  <2>1. operation[t] = "Upload"
    BY <1>4, <1>6 DEF SelfInv, CallsMatch, CallFor
  <2> QED BY <2>1, BeforeDecision DEF AfterDecision
<1>12. /\ SetsKept(t) /\ writeSet'[t][i].need_post_processing
       /\ \A j \in DOMAIN writeSet[t] : writeSet'[t][j].need_post_processing =>
            j = i \/ writeSet[t][j].need_post_processing
  BY UploadKeepsSets
<1>13. Frame(t)
  BY EveryStepFrame DEF Progress, WriteEntryStep
<1>14. \A u \in Txn : ReadsKept(u) /\ CallsOnce(u)'
  <2>1. CallsOnce(t)'
    BY <1>4, <1>6, <1>12 DEF CallsOnce, SetsKept
  <2>2. \A u \in Txn : CallsOnce(u)
    BY DEF ChainInv
  <2> QED BY <1>12, <1>13, <2>1, <2>2, OthersKeep, SetsKeptReads
<1>15. ASSUME NEW u \in Txn, NEW j, u # t \/ j # i
       PROVE  Kept(u, j) /\ (Writes(u, j, k, n) => ~ Holds(u, j))
  <2>1. Writes(u, j, k, n) => ~ Holds(u, j)
    BY <1>6 DEF OwnershipInv, HeldExists, Writes
  <2>2. CASE u # t
    BY <1>13, <2>1, <2>2, OthersKeep DEF ChainInv
  <2>3. CASE u = t
    <3>1. \A l \in Key : \A m \in 1 .. MaxVersion : Writes(t, j, l, m)' <=> Writes(t, j, l, m)
      BY <1>12, <1>15, <2>3 DEF Writes, SetsKept
    <3> QED BY <1>6, <1>11, <2>1, <2>3, <3>1, KeptUndecided
  <2> QED BY <2>2, <2>3
<1>16. Touches(t, i, k, n)
  <2>1. \A l, m : Writes(t, i, l, m)' => l = k /\ m = n
    BY <1>2, <1>12 DEF Writes, SetsKept
  <2>2. \A m \in 0 .. MaxVersion : m > n => ~ Exists(k, m)
    BY <1>6, NothingAbove DEF Stable
  <2>3. \A l \in Key : \A m \in 0 .. MaxVersion : l # k \/ m \notin {n, n - 1} => SameEntry(l, m)
    BY <1>7 DEF SameEntry
  <2>4. \A l \in Key : \A m \in 0 .. MaxVersion : StaysStable(l, m)
    BY <1>6, <1>9, <2>3 DEF StaysStable, Stable, Exists, SameEntry
  <2> QED BY <1>2, <1>10, <1>15, <2>1, <2>2, <2>3, <2>4 DEF Touches
<1>17. Dirty(k, n)' /\ ~ Stable(k, n)' /\ Exists(k, n - 1)'
  BY <1>3, <1>8, <1>9, <1>10 DEF Dirty, Stable, Exists, kDefaultVersion
<1>18. /\ txns'[t].status = "Ongoing" /\ t \notin Committed' /\ NewHeld(t, i)' /\ PrevHeld(t, i)'
       /\ Writes(t, i, k, n)' /\ Writes(t, i, k, n - 1 + 1)'
  BY <1>2, <1>3, <1>6, <1>11, <1>12 DEF NewHeld, PrevHeld, Pending, Committed, Writes, SetsKept
<1>19. Owns(t, i, k, n)' /\ DirtyOwner(t, i, k, n)' /\ LockOwner(t, i, k, n - 1)'
  BY <1>8, <1>9, <1>17, <1>18 DEF Owns, DirtyOwner, LockOwner
<1>20. versions'[k][n - 1].version = n - 1
  BY <1>3, <1>9, <1>10 DEF ChainInv, EntriesWellFormed, Stable
<1>21. Exists(k, n)'
  BY <1>17 DEF Dirty
<1>22. \A m \in {n, n - 1} : /\ Exists(k, m)' => versions'[k][m].version = m
                             /\ ~ Exists(k, m)' => versions'[k][m].tx_id = kEmptyTxId
  BY <1>8, <1>17, <1>20, <1>21
<1> QED BY <1>14, <1>16, <1>17, <1>19, <1>22, TouchedChain


\* The place of a write set entry that is in the store.
LEMMA PlaceOfEntry ==
  ASSUME TypeOK, NEW t \in Txn, NEW i \in DOMAIN writeSet[t]
  PROVE  \E k \in Key : \E n \in 1 .. MaxVersion :
           writeSet[t][i].key = k /\ writeSet[t][i].version = n
<1>1. writeSet[t][i] \in WriteSetEntry
  BY Entries
<1> QED BY <1>1 DEF WriteSetEntry

\* Nobody else holds the version that an entry holds.
LEMMA SoleHolder ==
  ASSUME OwnershipInv, NEW t \in Txn, NEW i, NEW k, NEW n, Writes(t, i, k, n), Holds(t, i),
         NEW u \in Txn, NEW j, Writes(u, j, k, n), Holds(u, j)
  PROVE  u = t /\ j = i
BY DEF OwnershipInv, HeldOnce, Writes

\* The answer to one half of CommitVersion: a failed half goes on holding its version.
LEMMA HalfAnswered ==
  ASSUME TypeOK, OwnershipInv, ExecutionInv, ChainInv, NEW t \in Txn, NEW i \in DOMAIN writeSet[t],
         NEW half \in CommitHalf, NEW is_error \in BOOLEAN, CallFor(half, i) \in calls[t],
         CommitEntryAnswered(t, i, half, is_error), txns' = txns
  PROVE  /\ t \in Committed /\ t \in Committed' /\ i \in PostProcessIndex(t)
         /\ writeSet' = writeSet /\ commit_timestamp' = commit_timestamp
         /\ CallsOnce(t)' /\ SetsKept(t)
         /\ \A j : j # i \/ is_error => Kept(t, j)
         /\ half = "CommitNew" =>
              /\ NewHeld(t, i) /\ (NewHeld(t, i)' <=> is_error)
              /\ PrevHeld(t, i)' <=> PrevHeld(t, i)
         /\ half = "ClosePrev" =>
              /\ PrevHeld(t, i) /\ (PrevHeld(t, i)' <=> is_error)
              /\ NewHeld(t, i)' <=> NewHeld(t, i)
<1>1. /\ calls'[t] = (calls[t] \ {CallFor(half, i)})
                       \cup (IF is_error THEN {CallFor(Failed(half), i)} ELSE {})
      /\ writeSet' = writeSet /\ commit_timestamp' = commit_timestamp
  BY DEF CommitEntryAnswered, TypeOK, tsVars
<1>2. \A a, b, j, l : CallFor(a, j) = CallFor(b, l) => a = b /\ j = l
  BY DEF CallFor
<1>3. /\ CallFor(half, i).op \in CommitCalls /\ CallFor(half, i).index = i
      /\ half \in {"CommitNew", "ClosePrev"}
  BY DEF CallFor, CommitHalf, CommitCalls
<1>4. t \in Committed /\ i \in PostProcessIndex(t) /\ CallsOnce(t)
  BY <1>3 DEF ExecutionInv, SelfInv, CallsMatch, ChainInv
<1>5. t \in Committed' /\ txns[t].status = "Committed"
  BY <1>4 DEF Committed
<1>6. CallFor(Failed(half), i) \notin calls[t]
  BY <1>4 DEF CallsOnce
<1>7. /\ Failed("CommitNew") = "CommitNewFailed" /\ Failed("ClosePrev") = "ClosePrevFailed"
  BY DEF Failed
<1>8. \A h \in CommitHalf : \A j : h # half \/ j # i =>
        /\ CallFor(h, j) \in calls'[t] <=> CallFor(h, j) \in calls[t]
        /\ CallFor(Failed(h), j) \in calls'[t] <=> CallFor(Failed(h), j) \in calls[t]
  BY <1>1, <1>2, <1>3, <1>7 DEF CommitHalf
<1>9. /\ CallFor(half, i) \notin calls'[t]
      /\ CallFor(Failed(half), i) \in calls'[t] <=> is_error
  BY <1>1, <1>2, <1>3, <1>6, <1>7
<1>10. \A j : CallFor("DeleteVersion", j) \in calls'[t] <=> CallFor("DeleteVersion", j) \in calls[t]
  BY <1>1, <1>2, <1>3, <1>7
<1>11. CallsOnce(t)'
  BY <1>1, <1>4, <1>8, <1>9 DEF CallsOnce
<1>12. /\ \A j : NewHeld(t, j) <=> (CallFor("CommitNew", j) \in calls[t]
                                      \/ CallFor(Failed("CommitNew"), j) \in calls[t])
       /\ \A j : PrevHeld(t, j) <=> (CallFor("ClosePrev", j) \in calls[t]
                                      \/ CallFor(Failed("ClosePrev"), j) \in calls[t])
  BY <1>4, <1>5 DEF NewHeld, PrevHeld, Pending
<1>13. /\ \A j : NewHeld(t, j)' <=> (CallFor("CommitNew", j) \in calls'[t]
                                      \/ CallFor(Failed("CommitNew"), j) \in calls'[t])
       /\ \A j : PrevHeld(t, j)' <=> (CallFor("ClosePrev", j) \in calls'[t]
                                      \/ CallFor(Failed("ClosePrev"), j) \in calls'[t])
  BY <1>5 DEF NewHeld, PrevHeld, Pending
<1>14. /\ half = "CommitNew" =>
              /\ NewHeld(t, i) /\ (NewHeld(t, i)' <=> is_error)
              /\ PrevHeld(t, i)' <=> PrevHeld(t, i)
       /\ half = "ClosePrev" =>
              /\ PrevHeld(t, i) /\ (PrevHeld(t, i)' <=> is_error)
              /\ NewHeld(t, i)' <=> NewHeld(t, i)
  BY <1>8, <1>9, <1>12, <1>13 DEF CommitHalf
<1>15. ASSUME NEW j, j # i \/ is_error PROVE Kept(t, j)
  <2>1. (NewHeld(t, j)' <=> NewHeld(t, j)) /\ (PrevHeld(t, j)' <=> PrevHeld(t, j))
    <3>1. CASE j # i
      BY <1>8, <1>12, <1>13, <3>1 DEF CommitHalf
    <3>2. CASE j = i
      BY <1>3, <1>14, <1>15, <3>2
    <3> QED BY <3>1, <3>2
  <2>2. \A k \in Key : \A n \in 1 .. MaxVersion : Writes(t, j, k, n)' <=> Writes(t, j, k, n)
    BY <1>1 DEF Writes
  <2>3. ~ Stuck(t)
    BY <1>5 DEF Stuck
  <2> QED BY <1>1, <1>4, <1>5, <2>1, <2>2, <2>3 DEF Kept, SameHold
<1>16. SetsKept(t)
  BY CommitEntryKeepsSets
<1> QED BY <1>1, <1>4, <1>5, <1>11, <1>14, <1>15, <1>16


\* The reads and calls after a step that only releases reads of t.
LEMMA ReadsAndCalls ==
  ASSUME TypeOK, ChainInv, NEW t \in Txn, Frame(t), ReadsKept(t), CallsOnce(t)'
  PROVE  \A u \in Txn : ReadsKept(u) /\ CallsOnce(u)'
BY OthersKeep DEF ChainInv

\* What entries other than the one that is answered for have to do with its version.
LEMMA OtherEntries ==
  ASSUME TypeOK, OwnershipInv, ChainInv, NEW t \in Txn, Frame(t), NEW i, NEW k \in Key,
         NEW n \in 1 .. MaxVersion, Writes(t, i, k, n), Holds(t, i),
         \A j : j # i => Kept(t, j)
  PROVE  \A u \in Txn : \A j : u # t \/ j # i =>
           Kept(u, j) /\ (Writes(u, j, k, n) => ~ Holds(u, j))
<1> SUFFICES ASSUME NEW u \in Txn, NEW j, u # t \/ j # i
             PROVE  Kept(u, j) /\ (Writes(u, j, k, n) => ~ Holds(u, j))
  OBVIOUS
<1>1. Writes(u, j, k, n) => ~ Holds(u, j)
  BY SoleHolder
<1>2. Kept(u, j)
  BY OthersKeep DEF ChainInv
<1> QED BY <1>1, <1>2

\* Who has locked the predecessor of a version: its holder, or nobody who is answered.
LEMMA LockIsOwn ==
  ASSUME TypeOK, OwnershipInv, ChainInv, NEW t \in Txn, NEW i, NEW k \in Key,
         NEW n \in 1 .. MaxVersion, Writes(t, i, k, n), Holds(t, i), ~ Stuck(t),
         versions[k][n].tx_id = t, Stable(k, n - 1), versions[k][n - 1].tx_id # kEmptyTxId
  PROVE  PrevHeld(t, i) /\ versions[k][n - 1].tx_id = t
<1>1. n - 1 \in 0 .. MaxVersion /\ n - 1 + 1 = n
  BY VersionDbAssumption
<1>2. PICK u \in Txn : \E j \in DOMAIN writeSet[u] : LockOwner(u, j, k, n - 1)
  BY <1>1 DEF ChainInv, LockHeld
<1>3. PICK j \in DOMAIN writeSet[u] : LockOwner(u, j, k, n - 1)
  BY <1>2
<1>4. Writes(u, j, k, n) /\ versions[k][n - 1].tx_id = u /\ (PrevHeld(u, j) \/ Left(u, k, n))
  BY <1>1, <1>3 DEF LockOwner
<1>5. PrevHeld(u, j)
  BY <1>4 DEF Left
<1>6. Holds(u, j)
  BY <1>4, <1>5 DEF Writes, PrevHeld, Pending, Holds
<1> QED BY <1>4, <1>5, <1>6, SoleHolder

\* The new version is committed: nobody was above it, its predecessor is older.
LEMMA CommitNewChain ==
  ASSUME TypeOK, OwnershipInv, ExecutionInv, ChainInv, TypeOK',
         NEW t \in Txn, NEW i \in DOMAIN writeSet[t], PostProcessingCommitNew(t, i)
  PROVE  ChainInv'
<1>1. PICK k \in Key : \E n \in 1 .. MaxVersion : writeSet[t][i].key = k /\ writeSet[t][i].version = n
  BY PlaceOfEntry
<1>2. PICK n \in 1 .. MaxVersion : writeSet[t][i].key = k /\ writeSet[t][i].version = n
  BY <1>1
<1>3. /\ n \in 0 .. MaxVersion /\ n - 1 \in 0 .. MaxVersion /\ n # n - 1 /\ n - 1 + 1 = n
  BY VersionDbAssumption
<1>4. /\ CallFor("CommitNew", i) \in calls[t] /\ CommitEntryAnswered(t, i, "CommitNew", FALSE)
      /\ versions[k][n].tx_id = t /\ Exists(k, n) /\ txns' = txns
      /\ CommitNewVersion(k, n, commit_timestamp[t])
  BY <1>2 DEF PostProcessingCommitNew, CanCommitNewVersion, CommitNewVersion
<1>5. "CommitNew" \in CommitHalf /\ FALSE \in BOOLEAN
  BY DEF CommitHalf
<1>6. /\ t \in Committed /\ t \in Committed' /\ i \in PostProcessIndex(t)
      /\ writeSet' = writeSet /\ commit_timestamp' = commit_timestamp
      /\ CallsOnce(t)' /\ SetsKept(t)
      /\ \A j : j # i => Kept(t, j)
      /\ NewHeld(t, i) /\ ~ NewHeld(t, i)'
      /\ PrevHeld(t, i)' <=> PrevHeld(t, i)
  BY <1>4, <1>5, HalfAnswered
<1>7. /\ Writes(t, i, k, n) /\ Writes(t, i, k, n)' /\ Writes(t, i, k, n - 1 + 1)'
      /\ Holds(t, i) /\ ~ Stuck(t)
  BY <1>2, <1>3, <1>6 DEF Writes, PostProcessIndex, Holds, Committed, Stuck
<1>8. Owns(t, i, k, n) /\ Dirty(k, n) /\ ~ Stable(k, n)
  <2>1. Owns(t, i, k, n)
    BY <1>7 DEF ChainInv, HolderOwns
  <2> QED BY <1>6, <2>1 DEF Owns, Dirty, Stable
<1>9. Stable(k, n - 1)
  BY <1>4, PrevStable
<1>10. /\ versions'[k][n].version = versions[k][n].version /\ versions'[k][n].tx_id = kEmptyTxId
       /\ versions'[k][n].begin_ts = commit_timestamp[t] /\ versions'[k][n].end_ts = kMaxTimeStamp
       /\ \A l \in Key : \A m \in 0 .. MaxVersion :
            l # k \/ m # n => versions'[l][m] = versions[l][m]
  <2> DEFINE entry == CommittedAt(versions[k][n], commit_timestamp[t])
             list  == [versions[k] EXCEPT ![n] = entry]
  <2>1. list = [versions[k] EXCEPT ![n] = entry]
    OBVIOUS
  <2>2. versions' = [versions EXCEPT ![k] = list]
    BY <1>4 DEF CommitNewVersion
  <2>3. /\ entry.version = versions[k][n].version /\ entry.tx_id = kEmptyTxId
        /\ entry.begin_ts = commit_timestamp[t] /\ entry.end_ts = kMaxTimeStamp
    BY DEF CommittedAt
  <2> HIDE DEF list, entry
  <2>4. DbTypeOK /\ versions[k] \in [0 .. MaxVersion -> VersionEntry]
    BY DEF TypeOK, DbTypeOK
  <2>5. list[n] = entry /\ \A m \in 0 .. MaxVersion : m # n => list[m] = versions[k][m]
    BY <1>3, <2>1, <2>4
  <2>6. versions'[k] = list /\ \A l \in Key : l # k => versions'[l] = versions[l]
    BY <2>2, <2>4, ListReplaced
  <2> QED BY <2>3, <2>5, <2>6
<1>11. \A l \in Key : \A m \in 0 .. MaxVersion : l # k \/ m # n => SameEntry(l, m)
  BY <1>10 DEF SameEntry
<1>12. Stable(k, n)' /\ ~ Dirty(k, n)' /\ Exists(k, n)'
  BY <1>4, <1>10, VersionDbAssumption DEF Stable, Dirty, Exists, kDefaultEndTs
<1>13. Frame(t)
  BY EveryStepFrame DEF Progress, WriteEntryStep
<1>14. \A u \in Txn : ReadsKept(u) /\ CallsOnce(u)'
  BY <1>6, <1>13, SetsKeptReads, ReadsAndCalls
<1>15. Touches(t, i, k, n)
  <2>1. \A u \in Txn : \A j : u # t \/ j # i =>
           Kept(u, j) /\ (Writes(u, j, k, n) => ~ Holds(u, j))
    BY <1>6, <1>7, <1>13, OtherEntries
  <2>2. \A l, m : Writes(t, i, l, m)' => l = k /\ m = n
    BY <1>2, <1>6 DEF Writes
  <2>3. \A m \in 0 .. MaxVersion : m > n => ~ Exists(k, m)
    BY <1>8, NothingAbove
  <2>4. \A l \in Key : \A m \in 0 .. MaxVersion : StaysStable(l, m)
    BY <1>8, <1>11 DEF StaysStable, Stable, Exists, SameEntry
  <2> QED BY <1>2, <1>9, <1>11, <2>1, <2>2, <2>3, <2>4 DEF Touches
<1>16. versions[k][n - 1].begin_ts < versions'[k][n].begin_ts
  <2>1. SetsLinked(t) /\ TimestampAfterReads(t)
    BY DEF ExecutionInv, SelfInv
  <2>2. PICK l \in DOMAIN readSet[t] :
          /\ readSet[t][l].key = k /\ readSet[t][l].version = n - 1
          /\ l = writeSet[t][i].read_entry
    BY <1>2, <2>1 DEF SetsLinked
  <2>3. readSet[t][l].begin_ts = versions[k][n - 1].begin_ts
    BY <2>2 DEF ChainInv, ReadsStable, ReadStable
  <2>4. readSet[t][l].begin_ts < commit_timestamp[t]
    BY <1>6, <2>1, <2>2 DEF TimestampAfterReads
  <2> QED BY <1>10, <2>3, <2>4
<1>17. SameEntry(k, n - 1)
  BY <1>3, <1>11
<1>18. Owns(t, i, k, n)'
  BY <1>6, <1>8, <1>10, <1>12, <1>17 DEF Owns, SameEntry
<1>19. Author(t, i, k, n)'
  BY <1>6, <1>7 DEF Author
<1>20. versions'[k][n - 1].tx_id # kEmptyTxId => LockOwner(t, i, k, n - 1)'
  <2>1. versions'[k][n - 1].tx_id # kEmptyTxId => PrevHeld(t, i) /\ versions[k][n - 1].tx_id = t
    BY <1>4, <1>7, <1>9, <1>17, LockIsOwn DEF SameEntry
  <2> QED BY <1>6, <1>7, <1>17, <2>1 DEF LockOwner, SameEntry
<1>21. \A m \in {n, n - 1} : /\ Exists(k, m)' => versions'[k][m].version = m
                             /\ ~ Exists(k, m)' => versions'[k][m].tx_id = kEmptyTxId
  <2>1. versions[k][n].version = n /\ versions[k][n - 1].version = n - 1
    BY <1>3, <1>4, <1>9 DEF ChainInv, EntriesWellFormed, Stable
  <2>2. Exists(k, n - 1)'
    BY <1>9, <1>17 DEF SameEntry, Stable, Exists
  <2> QED BY <1>10, <1>12, <1>17, <2>1, <2>2 DEF SameEntry
<1>22. versions'[k][n].tx_id = kEmptyTxId
  BY <1>10
<1> QED BY <1>12, <1>14, <1>15, <1>16, <1>18, <1>19, <1>20, <1>21, <1>22, TouchedChain


\* Timestamps of committed versions are not negative.
LEMMA StableBegin ==
  ASSUME TypeOK, ChainInv, NEW k \in Key, NEW n \in 0 .. MaxVersion, Stable(k, n)
  PROVE  versions[k][n].begin_ts \in Int /\ versions[k][n].begin_ts >= 0
<1>1. 0 \in 0 .. MaxVersion /\ (n = 0 \/ 0 < n)
  BY VersionDbAssumption
<1>2. versions[k][n].begin_ts \in Int
  BY StoredEntries DEF VersionEntry
<1>3. n = 0 => versions[k][n].begin_ts = 0
  BY DEF ChainInv, EntriesWellFormed, Stable
<1>4. 0 < n => versions[k][0].begin_ts = 0 /\ versions[k][0].begin_ts < versions[k][n].begin_ts
  BY <1>1 DEF ChainInv, EntriesWellFormed, NoGaps, Stable
<1> QED BY <1>1, <1>2, <1>3, <1>4

\* The timestamp of a writer is later than the version it supersedes.
LEMMA CommitsAfter ==
  ASSUME TypeOK, ExecutionInv, ChainInv, NEW t \in Txn, t \in Committed, NEW i \in DOMAIN writeSet[t],
         NEW k \in Key, NEW n \in 1 .. MaxVersion, writeSet[t][i].key = k, writeSet[t][i].version = n
  PROVE  versions[k][n - 1].begin_ts < commit_timestamp[t]
<1>1. SetsLinked(t) /\ TimestampAfterReads(t)
  BY DEF ExecutionInv, SelfInv
<1>2. PICK l \in DOMAIN readSet[t] :
        /\ readSet[t][l].key = k /\ readSet[t][l].version = n - 1
        /\ l = writeSet[t][i].read_entry
  BY <1>1 DEF SetsLinked
<1>3. readSet[t][l].begin_ts = versions[k][n - 1].begin_ts
  BY <1>2 DEF ChainInv, ReadsStable, ReadStable
<1>4. readSet[t][l].begin_ts < commit_timestamp[t]
  BY <1>1, <1>2 DEF TimestampAfterReads
<1> QED BY <1>3, <1>4

\* The predecessor is closed: the timestamp that ends it says that it is committed.
LEMMA ClosePrevChain ==
  ASSUME EndTsGap <= 1, TypeOK, OwnershipInv, ExecutionInv, ChainInv, TypeOK',
         NEW t \in Txn, NEW i \in DOMAIN writeSet[t], PostProcessingClosePrev(t, i)
  PROVE  ChainInv'
<1>1. PICK k \in Key : \E n \in 1 .. MaxVersion : writeSet[t][i].key = k /\ writeSet[t][i].version = n
  BY PlaceOfEntry
<1>2. PICK n \in 1 .. MaxVersion : writeSet[t][i].key = k /\ writeSet[t][i].version = n
  BY <1>1
<1>3. /\ n \in 0 .. MaxVersion /\ n - 1 \in 0 .. MaxVersion /\ n # n - 1 /\ n - 1 + 1 = n /\ n - 1 < n
  BY VersionDbAssumption
<1>4. /\ CallFor("ClosePrev", i) \in calls[t] /\ CommitEntryAnswered(t, i, "ClosePrev", FALSE)
      /\ versions[k][n - 1].tx_id = t /\ txns' = txns
      /\ ClosePrevVersion(k, n, commit_timestamp[t])
  BY <1>2 DEF PostProcessingClosePrev, CanClosePrevVersion, ClosePrevVersion
<1>5. "ClosePrev" \in CommitHalf /\ FALSE \in BOOLEAN /\ "ClosePrev" # "CommitNew"
  BY DEF CommitHalf
<1>6. /\ t \in Committed /\ t \in Committed' /\ i \in PostProcessIndex(t)
      /\ writeSet' = writeSet /\ commit_timestamp' = commit_timestamp
      /\ CallsOnce(t)' /\ SetsKept(t)
      /\ \A j : j # i => Kept(t, j)
      /\ PrevHeld(t, i) /\ ~ PrevHeld(t, i)'
      /\ NewHeld(t, i)' <=> NewHeld(t, i)
  BY <1>4, <1>5, HalfAnswered
<1>7. Writes(t, i, k, n) /\ Writes(t, i, k, n)' /\ Holds(t, i)
  BY <1>2, <1>6 DEF Writes, PostProcessIndex, Holds, Committed
<1>8. Owns(t, i, k, n) /\ Exists(k, n)
  BY <1>6, <1>7, HoldersExist DEF ChainInv, HolderOwns
<1>9. Stable(k, n - 1)
  BY <1>8, PrevStable
<1>10. /\ versions'[k][n - 1].version = versions[k][n - 1].version
       /\ versions'[k][n - 1].tx_id = kEmptyTxId
       /\ versions'[k][n - 1].begin_ts = versions[k][n - 1].begin_ts
       /\ versions'[k][n - 1].end_ts = commit_timestamp[t] - EndTsGap
       /\ \A l \in Key : \A m \in 0 .. MaxVersion :
            l # k \/ m # n - 1 => versions'[l][m] = versions[l][m]
  <2> DEFINE entry == ClosedBy(versions[k][n - 1], commit_timestamp[t])
             list  == [versions[k] EXCEPT ![n - 1] = entry]
  <2>1. list = [versions[k] EXCEPT ![n - 1] = entry]
    OBVIOUS
  <2>2. versions' = [versions EXCEPT ![k] = list]
    BY <1>4 DEF ClosePrevVersion
  <2>3. /\ entry.version = versions[k][n - 1].version /\ entry.tx_id = kEmptyTxId
        /\ entry.begin_ts = versions[k][n - 1].begin_ts
        /\ entry.end_ts = commit_timestamp[t] - EndTsGap
    <3>1. versions[k][n - 1] \in VersionEntry
      BY <1>3, StoredEntries
    <3> QED BY <3>1 DEF ClosedBy, LockedBy, VersionEntry
  <2> HIDE DEF list, entry
  <2>4. DbTypeOK /\ versions[k] \in [0 .. MaxVersion -> VersionEntry]
    BY DEF TypeOK, DbTypeOK
  <2>5. list[n - 1] = entry /\ \A m \in 0 .. MaxVersion : m # n - 1 => list[m] = versions[k][m]
    BY <1>3, <2>1, <2>4
  <2>6. versions'[k] = list /\ \A l \in Key : l # k => versions'[l] = versions[l]
    BY <2>2, <2>4, ListReplaced
  <2> QED BY <2>3, <2>5, <2>6
<1>11. \A l \in Key : \A m \in 0 .. MaxVersion : l # k \/ m # n - 1 => SameEntry(l, m)
  BY <1>10 DEF SameEntry
<1>12. Exists(k, n - 1)' /\ versions'[k][n - 1].end_ts # kDefaultEndTs
  <2>1. versions[k][n - 1].begin_ts < commit_timestamp[t]
    BY <1>2, <1>6, CommitsAfter
  <2>2. versions[k][n - 1].begin_ts \in Int /\ versions[k][n - 1].begin_ts >= 0
    BY <1>3, <1>9, StableBegin
  <2>3. commit_timestamp[t] \in Int /\ EndTsGap \in Nat
    BY VersionDbAssumption DEF TypeOK
  <2>4. commit_timestamp[t] - EndTsGap >= 0
    BY <2>1, <2>2, <2>3
  <2>5. commit_timestamp[t] - EndTsGap # -1
    BY <2>3, <2>4
  <2> QED BY <1>9, <1>10, <2>5 DEF Stable, Exists, kDefaultEndTs
<1>13. Frame(t)
  BY EveryStepFrame DEF Progress, WriteEntryStep
<1>14. \A u \in Txn : ReadsKept(u) /\ CallsOnce(u)'
  BY <1>6, <1>13, SetsKeptReads, ReadsAndCalls
<1>15. SameEntry(k, n)
  BY <1>3, <1>11
<1>16. Touches(t, i, k, n)
  <2>1. \A u \in Txn : \A j : u # t \/ j # i =>
           Kept(u, j) /\ (Writes(u, j, k, n) => ~ Holds(u, j))
    BY <1>6, <1>7, <1>13, OtherEntries
  <2>2. \A l, m : Writes(t, i, l, m)' => l = k /\ m = n
    BY <1>2, <1>6 DEF Writes
  <2>3. \A l \in Key : \A m \in 0 .. MaxVersion : StaysStable(l, m)
    BY <1>10, <1>11, <1>12 DEF StaysStable, Stable, Exists, SameEntry
  <2> QED BY <1>2, <1>9, <1>11, <1>15, <2>1, <2>2, <2>3 DEF Touches
<1>17. Owns(t, i, k, n)'
  <2>1. NewHeld(t, i)' => Dirty(k, n)' /\ versions'[k][n].tx_id = t
    BY <1>6, <1>8, <1>15 DEF Owns, SameEntry, Dirty, Exists
  <2>2. ~ NewHeld(t, i)' => Stable(k, n)' /\ versions'[k][n].begin_ts = commit_timestamp'[t]
    BY <1>6, <1>8, <1>15 DEF Owns, SameEntry, Stable, Exists
  <2>3. versions'[k][n - 1].end_ts = commit_timestamp'[t] - EndTsGap
    BY <1>6, <1>10
  <2> QED BY <1>6, <2>1, <2>2, <2>3 DEF Owns
<1>18. (Dirty(k, n)' => Dirty(k, n)) /\ (Stable(k, n)' => Stable(k, n))
  BY <1>15 DEF SameEntry, Dirty, Stable, Exists
<1>19. Dirty(k, n)' => DirtyOwner(t, i, k, n)'
  <2>1. Dirty(k, n) => NewHeld(t, i)
    BY <1>6, <1>8 DEF Owns, Dirty, Stable
  <2>2. NewHeld(t, i)' => versions'[k][n].tx_id = t
    BY <1>17 DEF Owns
  <2> QED BY <1>6, <1>7, <1>18, <2>1, <2>2 DEF DirtyOwner
<1>20. Stable(k, n)' => Author(t, i, k, n)'
  <2>1. Stable(k, n) => ~ NewHeld(t, i)
    BY <1>8 DEF Owns, Dirty, Stable
  <2> QED BY <1>6, <1>7, <1>18, <2>1 DEF Author
<1>21. \A m \in {n, n - 1} : /\ Exists(k, m)' => versions'[k][m].version = m
                             /\ ~ Exists(k, m)' => versions'[k][m].tx_id = kEmptyTxId
  <2>1. versions[k][n].version = n /\ versions[k][n - 1].version = n - 1
    BY <1>3, <1>8, <1>9 DEF ChainInv, EntriesWellFormed, Stable
  <2>2. Exists(k, n)'
    BY <1>8, <1>15 DEF SameEntry, Exists
  <2> QED BY <1>10, <1>12, <1>15, <2>1, <2>2 DEF SameEntry
<1>22. Stable(k, n)' => versions[k][n - 1].begin_ts < versions'[k][n].begin_ts
  BY <1>3, <1>15, <1>18 DEF ChainInv, NoGaps, SameEntry, Stable
<1>23. versions'[k][n - 1].tx_id = kEmptyTxId
  BY <1>10
<1> QED BY <1>14, <1>15, <1>16, <1>17, <1>19, <1>20, <1>21, <1>22, <1>23, TouchedChain

\* The deletion of an abort: the version was dirty, so nobody has read it.
LEMMA DeleteChain ==
  ASSUME TypeOK, OwnershipInv, ExecutionInv, ChainInv, TypeOK',
         NEW t \in Txn, NEW i \in DOMAIN writeSet[t], PostProcessingDeleteEntryAfterAbort(t, i)
  PROVE  ChainInv'
<1>1. PICK k \in Key : \E n \in 1 .. MaxVersion : writeSet[t][i].key = k /\ writeSet[t][i].version = n
  BY PlaceOfEntry
<1>2. PICK n \in 1 .. MaxVersion : writeSet[t][i].key = k /\ writeSet[t][i].version = n
  BY <1>1
<1>3. /\ n \in 0 .. MaxVersion /\ n - 1 \in 0 .. MaxVersion /\ n # n - 1 /\ n - 1 + 1 = n
  BY VersionDbAssumption
<1>4. /\ CallFor("DeleteVersion", i) \in calls[t] /\ Dirty(k, n) /\ DeleteVersion(k, n)
      /\ calls'[t] = calls[t] \ {CallFor("DeleteVersion", i)}
      /\ txns' = txns /\ operation' = operation /\ UNCHANGED localVars
      /\ commit_timestamp' = commit_timestamp
  BY <1>2 DEF PostProcessingDeleteEntryAfterAbort, CanDeleteVersion, DeleteVersion, Dirty, Answered,
              TypeOK, tsVars
<1>5. txns[t].status = "Aborted" /\ i \in PostProcessIndex(t)
  BY <1>4 DEF OwnershipInv, DeletesUploaded, CallFor
<1>6. Writes(t, i, k, n) /\ Holds(t, i) /\ t \notin Committed /\ t \notin Committed'
  BY <1>2, <1>4, <1>5 DEF Writes, Holds, PostProcessIndex, Committed
<1>7. ~ NewHeld(t, i)' /\ ~ PrevHeld(t, i)'
  BY <1>4, <1>5 DEF NewHeld, PrevHeld, Pending
<1>8. Stable(k, n - 1) /\ ~ Stable(k, n)
  BY <1>4, PrevStable DEF Dirty, Stable
<1>9. /\ versions'[k][n] = DefaultEntry
      /\ versions'[k][n - 1].version = versions[k][n - 1].version
      /\ versions'[k][n - 1].tx_id = kEmptyTxId
      /\ versions'[k][n - 1].begin_ts = versions[k][n - 1].begin_ts
      /\ versions'[k][n - 1].end_ts = versions[k][n - 1].end_ts
      /\ \A l \in Key : \A m \in 0 .. MaxVersion :
           l # k \/ m \notin {n, n - 1} => versions'[l][m] = versions[l][m]
  <2> DEFINE new  == DefaultEntry
             prev == LockedBy(versions[k][n - 1], kEmptyTxId)
             list == [versions[k] EXCEPT ![n] = new, ![n - 1] = prev]
  <2>1. list = [versions[k] EXCEPT ![n] = new, ![n - 1] = prev]
    OBVIOUS
  <2>2. versions' = [versions EXCEPT ![k] = list]
    BY <1>4 DEF DeleteVersion
  <2>3. /\ prev.version = versions[k][n - 1].version /\ prev.tx_id = kEmptyTxId
        /\ prev.begin_ts = versions[k][n - 1].begin_ts /\ prev.end_ts = versions[k][n - 1].end_ts
    <3>1. versions[k][n - 1] \in VersionEntry
      BY <1>3, StoredEntries
    <3> QED BY <3>1 DEF LockedBy, VersionEntry
  <2> HIDE DEF list, new, prev
  <2>4. DbTypeOK /\ versions[k] \in [0 .. MaxVersion -> VersionEntry]
    BY DEF TypeOK, DbTypeOK
  <2>5. /\ list[n] = new /\ list[n - 1] = prev
        /\ \A m \in 0 .. MaxVersion : m \notin {n, n - 1} => list[m] = versions[k][m]
    BY <1>3, <2>1, <2>4
  <2>6. versions'[k] = list /\ \A l \in Key : l # k => versions'[l] = versions[l]
    BY <2>2, <2>4, ListReplaced
  <2> QED BY <2>3, <2>5, <2>6 DEF new
<1>10. \A l \in Key : \A m \in 0 .. MaxVersion : l # k \/ m \notin {n, n - 1} => SameEntry(l, m)
  BY <1>9 DEF SameEntry
<1>11. /\ ~ Exists(k, n)' /\ versions'[k][n].tx_id = kEmptyTxId
       /\ Exists(k, n - 1)' /\ versions'[k][n - 1].end_ts # kDefaultEndTs
  BY <1>8, <1>9 DEF Exists, DefaultEntry, Stable
<1>12. Frame(t)
  BY EveryStepFrame DEF Progress, WriteEntryStep
<1>13. \A u \in Txn : ReadsKept(u) /\ CallsOnce(u)'
  <2>1. ReadsKept(t)
    BY <1>4, SetsUnchanged, SetsKeptReads
  <2>2. CallsOnce(t)'
    <3>1. CallsOnce(t) /\ calls'[t] \subseteq calls[t] /\ writeSet'[t] = writeSet[t]
      BY <1>4 DEF ChainInv, localVars
    <3> QED BY <3>1 DEF CallsOnce
  <2> QED BY <1>12, <2>1, <2>2, ReadsAndCalls
<1>14. ASSUME NEW j, j # i PROVE Kept(t, j)
  <2>1. \A op : CallFor(op, j) # CallFor("DeleteVersion", i)
    BY <1>14 DEF CallFor
  <2>2. \A op : CallFor(op, j) \in calls'[t] <=> CallFor(op, j) \in calls[t]
    BY <1>4, <2>1
  <2>3. Stuck(t) => Stuck(t)'
    BY <1>4 DEF Stuck
  <2>4. \A l \in Key : \A m \in 1 .. MaxVersion : Writes(t, j, l, m)' <=> Writes(t, j, l, m)
    BY <1>4 DEF Writes, localVars
  <2> QED BY <1>4, <2>2, <2>3, <2>4, KeptDecided
<1>15. Touches(t, i, k, n)
  <2>1. \A u \in Txn : \A j : u # t \/ j # i =>
           Kept(u, j) /\ (Writes(u, j, k, n) => ~ Holds(u, j))
    BY <1>6, <1>12, <1>14, OtherEntries
  <2>2. \A l, m : Writes(t, i, l, m)' => l = k /\ m = n
    BY <1>2, <1>4 DEF Writes, localVars
  <2>3. \A m \in 0 .. MaxVersion : m > n => ~ Exists(k, m)
    BY <1>8, NothingAbove
  <2>4. \A l \in Key : \A m \in 0 .. MaxVersion : StaysStable(l, m)
    BY <1>8, <1>9, <1>10, <1>11 DEF StaysStable, Stable, Exists, SameEntry
  <2> QED BY <1>2, <1>8, <1>10, <2>1, <2>2, <2>3, <2>4 DEF Touches
<1>16. Owns(t, i, k, n)' /\ ~ Dirty(k, n)' /\ ~ Stable(k, n)'
  BY <1>6, <1>7, <1>11 DEF Owns, Dirty, Stable
<1>17. \A m \in {n, n - 1} : /\ Exists(k, m)' => versions'[k][m].version = m
                             /\ ~ Exists(k, m)' => versions'[k][m].tx_id = kEmptyTxId
  <2>1. versions[k][n - 1].version = n - 1
    BY <1>3, <1>8 DEF ChainInv, EntriesWellFormed, Stable
  <2> QED BY <1>9, <1>11, <2>1
<1>18. versions'[k][n - 1].tx_id = kEmptyTxId
  BY <1>9
<1> QED BY <1>13, <1>15, <1>16, <1>17, <1>18, TouchedChain


-----------------------------------------------------------------------------
(* The steps that change no version but a pseudo version.                  *)

CalmStep(t) ==
  /\ \A k \in Key : \A n \in 0 .. MaxVersion : SameEntry(k, n) \/ Born(k, n)
  /\ \A i : Kept(t, i)
  /\ ReadsKept(t)
  /\ CallsOnce(t)'

\* Such a step keeps the invariant.
LEMMA CalmStepChain ==
  ASSUME TypeOK, OwnershipInv, ChainInv, TypeOK', NEW t \in Txn, Frame(t), CalmStep(t)
  PROVE  ChainInv'
<1>1. \A u \in Txn : (\A i : Kept(u, i)) /\ ReadsKept(u) /\ CallsOnce(u)'
  BY OthersKeep DEF CalmStep, ChainInv
<1> QED BY <1>1, CalmChain DEF CalmStep

\* A step of an undecided transaction that stays undecided.
LEMMA UndecidedCalm ==
  ASSUME OwnershipInv, OwnershipInv', ExecutionInv', NEW t \in Txn,
         operation[t] \notin AfterDecision, operation'[t] \notin AfterDecision,
         \A k \in Key : \A n \in 0 .. MaxVersion : SameEntry(k, n) \/ Born(k, n),
         \A i : \A k \in Key : \A n \in 1 .. MaxVersion : Writes(t, i, k, n)' <=> Writes(t, i, k, n),
         ReadsKept(t)
  PROVE  CalmStep(t)
<1>1. txns[t].status = "Ongoing" /\ txns'[t].status = "Ongoing"
  BY DEF OwnershipInv, Undecided
<1>2. CallsOnce(t)'
  <2>1. CallsMatch(t)' /\ t \notin Committed'
    BY <1>1 DEF ExecutionInv, SelfInv, Committed
  <2>2. \A h \in CommitHalf : \A i : CallFor(h, i).op \in CommitCalls
    BY DEF CallFor, CommitHalf, CommitCalls
  <2> QED BY <2>1, <2>2 DEF CallsOnce, CallsMatch
<1>3. \A i : Kept(t, i)
  BY <1>1, KeptUndecided
<1> QED BY <1>2, <1>3 DEF CalmStep

\* The steps before the decision that leave versions, reads and writes alone.
LEMMA QuietCalm ==
  ASSUME TypeOK, OwnershipInv, OwnershipInv', ExecutionInv', NEW t \in Txn,
         \/ Begin(t) \/ InitTxn(t) \/ InitTxnError(t) \/ Abort(t) \/ Commit(t)
         \/ ReadDataStore(t) \/ ReadDataStoreNext(t)
         \/ \E k \in Key, op \in {"Read", "Insert", "Upsert"} : CallReadOutside(t, op, k)
         \/ UploadNext(t) \/ SetCommitTs(t) \/ SetCommitTsError(t) \/ ValidateNext(t)
         \/ WriteToLog(t)
  PROVE  CalmStep(t)
<1>1. /\ operation[t] \in {"Reset", "InitTxn", "Idle", "ReadDataStore", "Upload", "SetCommitTs",
                           "Validate", "WriteToLog"}
      /\ operation'[t] \in {"InitTxn", "Idle", "UpdateTxnStatusToAbort", "Upload", "ReadDataStore",
                            "Read", "Insert", "Upsert", "SetCommitTs", "Validate", "WriteToLog",
                            "UpdateTxnStatusToCommit"}
  <2>1. CASE \/ Begin(t) \/ InitTxn(t) \/ InitTxnError(t) \/ Abort(t) \/ Commit(t)
             \/ ReadDataStore(t) \/ ReadDataStoreNext(t)
             \/ \E k \in Key, op \in {"Read", "Insert", "Upsert"} : CallReadOutside(t, op, k)
    BY <2>1 DEF TypeOK, Moves, Requested, Begin, InitTxn, InitTxnError, Abort, Commit, ReadDataStore,
                ReadDataStoreNext, CallReadOutside
  <2>2. CASE \/ UploadNext(t) \/ SetCommitTs(t) \/ SetCommitTsError(t) \/ ValidateNext(t)
             \/ WriteToLog(t)
    BY <2>2 DEF TypeOK, Moves, AbortFrom, UploadNext, SetCommitTs, SetCommitTsError, ValidateNext,
                WriteToLog
  <2> QED BY <2>1, <2>2
<1>2. versions' = versions /\ UNCHANGED localVars
  BY DEF Begin, InitTxn, InitTxnError, Abort, Commit, ReadDataStore, ReadDataStoreNext,
         CallReadOutside, UploadNext, SetCommitTs, SetCommitTsError, ValidateNext, WriteToLog,
         Fails, NewTxn, SetCommitTimestamp, AbortFrom, dbVars
<1>3. operation[t] \notin AfterDecision /\ operation'[t] \notin AfterDecision
  BY <1>1 DEF AfterDecision
<1>4. \A k \in Key : \A n \in 0 .. MaxVersion : SameEntry(k, n)
  BY <1>2 DEF SameEntry
<1>5. \A i : \A k \in Key : \A n \in 1 .. MaxVersion : Writes(t, i, k, n)' <=> Writes(t, i, k, n)
  BY <1>2 DEF Writes, localVars
<1>6. ReadsKept(t)
  BY <1>2, SetsUnchanged, SetsKeptReads
<1> QED BY <1>3, <1>4, <1>5, <1>6, UndecidedCalm

\* The answers before the decision that change no version.
LEMMA AnswerCalm ==
  ASSUME TypeOK, OwnershipInv, OwnershipInv', ExecutionInv, ExecutionInv', NEW t \in Txn, NEW i,
         \/ UploadVersionEntryError(t, i)
         \/ i \in DOMAIN readSet[t] /\ UpdateReadEntryMaxCommitTs(t, i)
         \/ UpdateReadEntryMaxCommitTsError(t, i)
         \/ \E u \in Txn : \/ PushConflictTxnCommitTsLowerBound(t, i, u)
                           \/ PushConflictTxnCommitTsLowerBoundError(t, i, u)
  PROVE  CalmStep(t)
<1>1. operation[t] \in {"Upload", "Validate"} /\ operation' = operation
  <2>1. \/ CallFor("UploadVersion", i) \in calls[t]
        \/ CallFor("UpdateReadEntryMaxCommitTs", i) \in calls[t]
        \/ \E u \in Txn : PushCall(i, u) \in calls[t]
    BY DEF UploadVersionEntryError, UpdateReadEntryMaxCommitTs, UpdateReadEntryMaxCommitTsError,
           PushConflictTxnCommitTsLowerBound, PushConflictTxnCommitTsLowerBoundError
  <2>2. operation[t] \in {"Upload", "Validate"}
    BY <2>1 DEF ExecutionInv, SelfInv, CallsMatch, CallFor, PushCall, ValidateCalls
  <2> QED BY <2>2
          DEF UploadVersionEntryError, UpdateReadEntryMaxCommitTs, UpdateReadEntryMaxCommitTsError,
              PushConflictTxnCommitTsLowerBound, PushConflictTxnCommitTsLowerBoundError
<1>2. writeSet' = writeSet /\ SetsKept(t)
  BY FALSE \in BOOLEAN, ReleaseKeepsSets, SetsUnchanged
     DEF UploadVersionEntryError, UpdateReadEntryMaxCommitTs, UpdateReadEntryMaxCommitTsError,
         PushConflictTxnCommitTsLowerBound, PushConflictTxnCommitTsLowerBoundError, Released, localVars
<1>3. \A k \in Key : \A n \in 0 .. MaxVersion : SameEntry(k, n)
  <2>1. CASE versions' = versions
    BY <2>1 DEF SameEntry
  <2>2. CASE i \in DOMAIN readSet[t] /\ UpdateReadEntryMaxCommitTs(t, i)
    <3>1. PICK k \in Key : \E n \in 0 .. MaxVersion : readSet[t][i].key = k /\ readSet[t][i].version = n
      BY <2>2, ReadPlace
    <3>2. PICK n \in 0 .. MaxVersion : readSet[t][i].key = k /\ readSet[t][i].version = n
      BY <3>1
    <3> DEFINE entry == RaisedMaxCommitTs(versions[k][n], commit_timestamp[t])
               list == [versions[k] EXCEPT ![n] = entry]
    <3>3. versions' = [versions EXCEPT ![k] = list]
      BY <2>2, <3>2 DEF UpdateReadEntryMaxCommitTs, UpdateMaxCommitTsAndReread
    <3>4. /\ entry.version = versions[k][n].version /\ entry.tx_id = versions[k][n].tx_id
          /\ entry.begin_ts = versions[k][n].begin_ts /\ entry.end_ts = versions[k][n].end_ts
      <4>1. versions[k][n] \in VersionEntry
        BY StoredEntries
      <4> QED BY <4>1 DEF RaisedMaxCommitTs, VersionEntry
    <3>5. list = [versions[k] EXCEPT ![n] = entry]
      OBVIOUS
    <3> HIDE DEF list, entry
    <3>6. DbTypeOK /\ versions[k] \in [0 .. MaxVersion -> VersionEntry]
      BY DEF TypeOK, DbTypeOK
    <3>7. list[n] = entry /\ \A m \in 0 .. MaxVersion : m # n => list[m] = versions[k][m]
      BY <3>5, <3>6
    <3>8. versions'[k] = list /\ \A l \in Key : l # k => versions'[l] = versions[l]
      BY <3>3, <3>6, ListReplaced
    <3> QED BY <3>4, <3>7, <3>8 DEF SameEntry
  <2>3. CASE ~ (i \in DOMAIN readSet[t] /\ UpdateReadEntryMaxCommitTs(t, i))
    BY <2>1, <2>3
       DEF UploadVersionEntryError, UpdateReadEntryMaxCommitTsError, UpdateCommitLowerBound,
           PushConflictTxnCommitTsLowerBound, PushConflictTxnCommitTsLowerBoundError, Fails, dbVars
  <2> QED BY <2>2, <2>3
<1>4. \A j : \A k \in Key : \A n \in 1 .. MaxVersion : Writes(t, j, k, n)' <=> Writes(t, j, k, n)
  BY <1>2 DEF Writes
<1>5. ReadsKept(t)
  BY <1>2, SetsKeptReads
<1>6. operation[t] \notin AfterDecision /\ operation'[t] \notin AfterDecision
  BY <1>1 DEF AfterDecision
<1> QED BY <1>3, <1>4, <1>5, <1>6, UndecidedCalm


\* What a read finds is committed: the newest version, or the one before if that is dirty.
LEMMA NewReadStable ==
  ASSUME TypeOK, ChainInv, NEW t \in Txn, NEW r, NewRead(t, r)
  PROVE  /\ \A k \in Key : \A n \in 0 .. MaxVersion : SameEntry(k, n) \/ Born(k, n)
         /\ ReadStable(r)'
<1> USE DEF kDefaultEndTs, kDefaultVersion, kFirstVersion
<1>1. PICK k \in Key : k = request[t]
  BY DEF NewRead
<1> DEFINE list == InitVersionList(versions[k])
<1>2. versions' = [versions EXCEPT ![k] = list]
  BY <1>1 DEF NewRead, GetVersionList
<1>3. PICK n \in 0 .. MaxVersion :
        /\ IsLatest(list, n)
        /\ r = NewReadSetEntry(k, PickVisibleVersion(list[n], SecondLatest(list, n)))
  BY <1>1 DEF NewRead
<1>4. /\ versions[k] \in [0 .. MaxVersion -> VersionEntry] /\ DbTypeOK /\ 0 \in 0 .. MaxVersion
      /\ MaxVersion \in Nat
  BY VersionDbAssumption DEF TypeOK, DbTypeOK
<1>5. versions'[k] = list /\ \A l \in Key : l # k => versions'[l] = versions[l]
  <2> HIDE DEF list
  <2> QED BY <1>2, <1>4, ListReplaced
<1>6. CASE ~ Exists(k, 0)
  <2>1. list = [versions[k] EXCEPT ![0] = PseudoVersion]
    BY <1>6 DEF InitVersionList, Exists
  <2> HIDE DEF list
  <2>2. list[0] = PseudoVersion /\ \A m \in 0 .. MaxVersion : m # 0 => list[m] = versions[k][m]
    BY <1>4, <2>1
  <2>3. \A l \in Key : \A m \in 0 .. MaxVersion : SameEntry(l, m) \/ Born(l, m)
    BY <1>5, <1>6, <2>2 DEF SameEntry, Born
  <2>4. \A m \in 0 .. MaxVersion : m # 0 => list[m].version = kDefaultVersion
    <3>1. \A m \in 0 .. MaxVersion : m # 0 => 0 < m
      OBVIOUS
    <3> QED BY <1>4, <1>6, <2>2, <3>1 DEF ChainInv, NoGaps, Exists, Stable
  <2>5. n = 0
    BY <1>3, <2>4 DEF IsLatest
  <2>6. /\ PseudoVersion.end_ts # kDefaultEndTs /\ PseudoVersion.is_deleted
        /\ PseudoVersion.version = 0 /\ PseudoVersion.begin_ts = 0
    BY VersionDbAssumption DEF PseudoVersion
  <2>7. PickVisibleVersion(list[n], SecondLatest(list, n)) = DefaultEntry
    BY <2>2, <2>5, <2>6 DEF PickVisibleVersion
  <2>8. r.key = k /\ r.version = 0 /\ r.begin_ts = 0
    BY <1>3, <2>7 DEF NewReadSetEntry, DefaultEntry
  <2>9. ReadStable(r)'
    BY <1>5, <2>2, <2>6, <2>8 DEF ReadStable, Stable, Exists
  <2> QED BY <2>3, <2>9
<1>7. CASE Exists(k, 0)
  <2>1. list = versions[k] /\ versions' = versions
    BY <1>2, <1>4, <1>7 DEF InitVersionList, Exists, TypeOK, DbTypeOK
  <2> HIDE DEF list
  <2>2. \A l \in Key : \A m \in 0 .. MaxVersion : SameEntry(l, m)
    BY <2>1 DEF SameEntry
  <2>3. PICK m \in 0 .. MaxVersion :
          /\ Stable(k, m)
          /\ r = NewReadSetEntry(k, IF versions[k][m].is_deleted /\ versions[k][m].version <= 0
                                    THEN DefaultEntry ELSE versions[k][m])
    <3>1. Exists(k, n)
      BY <1>3, <2>1 DEF IsLatest, Exists
    <3>2. CASE versions[k][n].end_ts # kDefaultEndTs
      BY <1>3, <2>1, <3>1, <3>2 DEF PickVisibleVersion, Stable
    <3>3. CASE versions[k][n].end_ts = kDefaultEndTs
      <4>1. n # 0
        BY <1>7, <3>3 DEF ChainInv, EntriesWellFormed, Stable
      <4>2. n - 1 \in 0 .. MaxVersion /\ n \in 1 .. MaxVersion /\ n > 0
        BY <1>4, <4>1
      <4>3. Stable(k, n - 1)
        BY <3>1, <4>2, PrevStable
      <4> QED BY <1>3, <2>1, <3>3, <4>2, <4>3 DEF PickVisibleVersion, SecondLatest
    <3> QED BY <3>2, <3>3
  <2>4. versions[k][m].version = m
    BY <2>3 DEF ChainInv, EntriesWellFormed, Stable
  <2>5. r.key = k /\ r.version = m /\ r.begin_ts = versions[k][m].begin_ts
    <3>1. CASE versions[k][m].is_deleted /\ versions[k][m].version <= 0
      <4>1. m = 0
        BY <1>4, <2>4, <3>1
      <4>2. versions[k][m].begin_ts = 0
        BY <1>7, <4>1 DEF ChainInv, EntriesWellFormed
      <4> QED BY <2>3, <3>1, <4>1, <4>2 DEF NewReadSetEntry, DefaultEntry
    <3>2. CASE ~ (versions[k][m].is_deleted /\ versions[k][m].version <= 0)
      <4>1. m # kDefaultVersion
        BY <1>4
      <4> QED BY <2>3, <2>4, <3>2, <4>1 DEF NewReadSetEntry
    <3> QED BY <3>1, <3>2
  <2>6. ReadStable(r)'
    BY <2>1, <2>3, <2>5 DEF ReadStable, Stable, Exists
  <2> QED BY <2>2, <2>6
<1> QED BY <1>6, <1>7

\* Queueing a write, or none, leaves what was read alone.
LEMMA QueuedReads ==
  ASSUME TypeOK, NEW t \in Txn, NEW rs \in Seq(ReadSetEntry),
         OnlyRead(t, rs) \/ \E i \in DOMAIN rs : \E d : InsertWriteSet(t, rs, i, d)
  PROVE  /\ DOMAIN readSet'[t] = DOMAIN rs
         /\ \A l \in DOMAIN rs :
              /\ readSet'[t][l].key = rs[l].key
              /\ readSet'[t][l].version = rs[l].version
              /\ readSet'[t][l].begin_ts = rs[l].begin_ts
<1>1. CASE OnlyRead(t, rs)
  BY <1>1 DEF OnlyRead, TypeOK
<1>2. ASSUME NEW i \in DOMAIN rs, NEW d, InsertWriteSet(t, rs, i, d)
      PROVE  Queued(t, rs, i)
  BY <1>2, InsertWriteSetEffect
<1> QED BY <1>1, <1>2 DEF Queued

\* The answers to Read, Insert and Upsert.
LEMMA ReadOutsideCalm ==
  ASSUME TypeOK, OwnershipInv, OwnershipInv', ExecutionInv, ExecutionInv', ChainInv, NEW t \in Txn,
         ReadOutside(t) \/ ReadOutsideError(t)
  PROVE  CalmStep(t)
<1>1. PICK rs \in Seq(ReadSetEntry), b \in BOOLEAN :
        /\ ExtendsReads(t, rs)
        /\ ReadOutsideNext(t, rs, b)
        /\ \A i \in DOMAIN rs : i \in DOMAIN readSet[t] \/ NewRead(t, rs[i])
  BY ReadOutsideEffect
<1>2. operation[t] \in {"Read", "Insert", "Upsert"} /\ operation'[t] = "Idle"
  BY <1>1 DEF ReadOutsideNext, ReadNext, InsertNext, UpsertNext, TypeOK
<1>3. OnlyRead(t, rs) \/ \E i \in DOMAIN rs : \E d : InsertWriteSet(t, rs, i, d)
  BY <1>1 DEF ReadOutsideNext, ReadNext, InsertNext, UpsertNext
<1>4. /\ DOMAIN readSet'[t] = DOMAIN rs
      /\ \A l \in DOMAIN rs :
           /\ readSet'[t][l].key = rs[l].key
           /\ readSet'[t][l].version = rs[l].version
           /\ readSet'[t][l].begin_ts = rs[l].begin_ts
  BY <1>3, QueuedReads
<1>5. ReadsKept(t)
  <2> SUFFICES ASSUME NEW i \in DOMAIN readSet'[t]
               PROVE  \/ \E l \in DOMAIN readSet[t] :
                           /\ readSet'[t][i].key = readSet[t][l].key
                           /\ readSet'[t][i].version = readSet[t][l].version
                           /\ readSet'[t][i].begin_ts = readSet[t][l].begin_ts
                      \/ ReadStable(readSet[t][i])'
    BY DEF ReadsKept
  <2>1. CASE i \in DOMAIN readSet[t]
    BY <1>1, <1>4, <2>1 DEF ExtendsReads
  <2>2. CASE i \notin DOMAIN readSet[t]
    <3>1. NewRead(t, rs[i])
      BY <1>1, <1>4, <2>2
    <3>2. Stable(rs[i].key, rs[i].version)' /\ rs[i].begin_ts = versions'[rs[i].key][rs[i].version].begin_ts
      BY <3>1, NewReadStable DEF ReadStable
    <3> QED BY <1>4, <3>2 DEF ReadStable, Stable, Exists
  <2> QED BY <2>1, <2>2
<1>6. \A k \in Key : \A n \in 0 .. MaxVersion : SameEntry(k, n) \/ Born(k, n)
  <2>1. CASE versions' = versions
    BY <2>1 DEF SameEntry
  <2>2. CASE ReadOutside(t)
    <3>1. \E r : NewRead(t, r)
      BY <2>2 DEF ReadOutside, NewRead, TypeOK
    <3> QED BY <3>1, NewReadStable
  <2> QED BY <2>1, <2>2 DEF ReadOutsideError, Fails, dbVars
<1>7. \A i : \A k \in Key : \A n \in 1 .. MaxVersion : Writes(t, i, k, n)' <=> Writes(t, i, k, n)
  BY <1>2 DEF ExecutionInv, SelfInv, NothingUploaded, BeforeUpload, Writes
<1>8. operation[t] \notin AfterDecision /\ operation'[t] \notin AfterDecision
  BY <1>2 DEF AfterDecision
<1> QED BY <1>5, <1>6, <1>7, <1>8, UndecidedCalm

\* Update and Delete.
LEMMA LocalRequestCalm ==
  ASSUME TypeOK, OwnershipInv, OwnershipInv', ExecutionInv, ExecutionInv', NEW t \in Txn,
         NEW k \in Key, Update(t, k) \/ Delete(t, k)
  PROVE  CalmStep(t)
<1>1. operation[t] = "Idle" /\ operation'[t] = "Idle" /\ versions' = versions
  BY DEF Update, Delete, Requested, dbVars
<1>2. ReadsKept(t)
  <2>1. CASE readSet' = readSet
    BY <2>1 DEF ReadsKept
  <2>2. CASE \E i \in DOMAIN readSet[t] : \E d : InsertWriteSet(t, readSet[t], i, d)
    <3>1. /\ DOMAIN readSet'[t] = DOMAIN readSet[t]
          /\ \A l \in DOMAIN readSet[t] :
               /\ readSet'[t][l].key = readSet[t][l].key
               /\ readSet'[t][l].version = readSet[t][l].version
               /\ readSet'[t][l].begin_ts = readSet[t][l].begin_ts
      BY <2>2, Entries, QueuedReads
    <3> QED BY <3>1 DEF ReadsKept
  <2> QED BY <2>1, <2>2 DEF Update, Delete, DeleteReadVersion, DeleteQueuedWrite, localVars
<1>3. \A l \in Key : \A n \in 0 .. MaxVersion : SameEntry(l, n)
  BY <1>1 DEF SameEntry
<1>4. \A i : \A l \in Key : \A n \in 1 .. MaxVersion : Writes(t, i, l, n)' <=> Writes(t, i, l, n)
  BY <1>1 DEF ExecutionInv, SelfInv, NothingUploaded, BeforeUpload, Writes
<1>5. operation[t] \notin AfterDecision /\ operation'[t] \notin AfterDecision
  BY <1>1 DEF AfterDecision
<1> QED BY <1>2, <1>3, <1>4, <1>5, UndecidedCalm


\* The decision: whatever is in the store is now to be committed, or deleted.
LEMMA DecisionCalm ==
  ASSUME TypeOK, OwnershipInv, ExecutionInv', NEW t \in Txn,
         UpdateTxnStatusToCommit(t) \/ UpdateTxnStatusToAbort(t)
  PROVE  CalmStep(t)
<1>1. /\ operation[t] \in {"UpdateTxnStatusToCommit", "UpdateTxnStatusToAbort"}
      /\ versions' = versions /\ UNCHANGED localVars
  BY DEF UpdateTxnStatusToCommit, UpdateTxnStatusToAbort, UpdateTxnStatus, Moves
<1>2. txns[t].status = "Ongoing"
  BY <1>1, BeforeDecision DEF AfterDecision
<1>3. /\ UpdateTxnStatusToCommit(t) => /\ txns'[t].status = "Committed"
                                       /\ calls'[t] = {CallFor("CommitNew", i) : i \in PostProcessIndex(t)}
                                               \cup {CallFor("ClosePrev", i) : i \in PostProcessIndex(t)}
      /\ UpdateTxnStatusToAbort(t) => /\ txns'[t].status = "Aborted"
                                      /\ calls'[t] = {CallFor("DeleteVersion", i) : i \in PostProcessIndex(t)}
  <2>1. txns \in [Txn -> TxnEntry] /\ calls \in [Txn -> SUBSET Call]
    BY DEF TypeOK, DbTypeOK
  <2> QED BY <2>1 DEF UpdateTxnStatusToCommit, UpdateTxnStatusToAbort, UpdateTxnStatus, TxnEntry
<1>4. ASSUME NEW i, i \in PostProcessIndex(t) PROVE NewHeld(t, i)' /\ PrevHeld(t, i)'
  BY <1>3, <1>4 DEF NewHeld, PrevHeld, Pending, Committed
<1>5. ASSUME NEW i PROVE Kept(t, i)
  <2>1. NewHeld(t, i) /\ PrevHeld(t, i) /\ t \notin Committed /\ ~ Stuck(t)
    BY <1>2 DEF NewHeld, PrevHeld, Pending, Committed, Stuck
  <2>2. ASSUME NEW k \in Key, NEW n \in 1 .. MaxVersion
        PROVE  /\ Writes(t, i, k, n)' <=> Writes(t, i, k, n)
               /\ Writes(t, i, k, n) => i \in PostProcessIndex(t)
    BY <1>1 DEF Writes, PostProcessIndex, localVars
  <2> QED BY <1>4, <2>1, <2>2 DEF Kept, SameHold
<1>6. CallsOnce(t)'
  <2>1. ASSUME NEW h \in CommitHalf, NEW i PROVE CallFor(Failed(h), i) \notin calls'[t]
    BY <1>3 DEF CallFor, Failed, CommitHalf
  <2> QED BY <2>1 DEF CallsOnce
<1>7. ReadsKept(t)
  BY <1>1, SetsUnchanged, SetsKeptReads
<1>8. \A k \in Key : \A n \in 0 .. MaxVersion : SameEntry(k, n)
  BY <1>1 DEF SameEntry
<1> QED BY <1>5, <1>6, <1>7, <1>8 DEF CalmStep

\* A decision or a post-processing that fails leaves everything where it is.
LEMMA FailedCalm ==
  ASSUME TypeOK, OwnershipInv, ExecutionInv, ChainInv, NEW t \in Txn,
         \/ UpdateTxnStatusToCommitError(t) \/ UpdateTxnStatusToAbortError(t)
         \/ \E i \in DOMAIN writeSet[t] : \/ PostProcessingCommitEntryError(t, i)
                                          \/ PostProcessingDeleteEntryAfterAbortError(t, i)
  PROVE  CalmStep(t)
<1>1. versions' = versions /\ txns' = txns
  BY DEF UpdateTxnStatusToCommitError, UpdateTxnStatusToAbortError, PostProcessingCommitEntryError,
         PostProcessingDeleteEntryAfterAbortError, Fails, dbVars
<1>2. \A k \in Key : \A n \in 0 .. MaxVersion : SameEntry(k, n)
  BY <1>1 DEF SameEntry
<1>3. CallsOnce(t)
  BY DEF ChainInv
<1>4. CASE UpdateTxnStatusToCommitError(t) \/ UpdateTxnStatusToAbortError(t)
  <2>1. operation[t] \notin AfterDecision /\ UNCHANGED localVars /\ calls' = calls
    BY <1>4 DEF UpdateTxnStatusToCommitError, UpdateTxnStatusToAbortError, Recover, Moves, AfterDecision
  <2>2. txns[t].status = "Ongoing" /\ txns'[t].status = "Ongoing"
    BY <1>1, <2>1, BeforeDecision
  <2>3. \A i : \A k \in Key : \A n \in 1 .. MaxVersion : Writes(t, i, k, n)' <=> Writes(t, i, k, n)
    BY <2>1 DEF Writes, localVars
  <2>4. ReadsKept(t) /\ CallsOnce(t)'
    BY <1>3, <2>1, SetsUnchanged, SetsKeptReads DEF CallsOnce, localVars
  <2> QED BY <1>2, <2>2, <2>3, <2>4, KeptUndecided DEF CalmStep
<1>5. ASSUME NEW i \in DOMAIN writeSet[t], PostProcessingCommitEntryError(t, i)
      PROVE  CalmStep(t)
  <2>1. PICK half \in CommitHalf : CallFor(half, i) \in calls[t] /\ CommitEntryAnswered(t, i, half, TRUE)
    BY <1>5 DEF PostProcessingCommitEntryError, CommitHalf
  <2>2. CallsOnce(t)' /\ SetsKept(t) /\ \A j : Kept(t, j)
    BY <1>1, <2>1, TRUE \in BOOLEAN, HalfAnswered
  <2> QED BY <1>2, <2>2, SetsKeptReads DEF CalmStep
<1>6. ASSUME NEW i \in DOMAIN writeSet[t], PostProcessingDeleteEntryAfterAbortError(t, i)
      PROVE  CalmStep(t)
  <2>1. /\ operation'[t] = "Recover" /\ UNCHANGED localVars /\ commit_timestamp' = commit_timestamp
        /\ CallFor("DeleteVersion", i) \in calls[t]
        /\ calls'[t] = calls[t] \ {CallFor("DeleteVersion", i)}
    BY <1>6 DEF PostProcessingDeleteEntryAfterAbortError, Recover, Moves, Answered, tsVars, TypeOK
  <2>2. txns[t].status = "Aborted" /\ t \notin Committed
    BY <2>1 DEF OwnershipInv, DeletesUploaded, CallFor, Committed
  <2>3. Stuck(t)' /\ t \notin Committed'
    BY <1>1, <2>1, <2>2 DEF Stuck, Committed
  <2>4. \A j : /\ NewHeld(t, j) <=> PrevHeld(t, j)
               /\ NewHeld(t, j)' => NewHeld(t, j)
               /\ PrevHeld(t, j)' => PrevHeld(t, j)
    BY <1>1, <2>1, <2>2, <2>3 DEF NewHeld, PrevHeld, Pending
  <2>5. \A j : \A k \in Key : \A n \in 1 .. MaxVersion : Writes(t, j, k, n)' <=> Writes(t, j, k, n)
    BY <2>1 DEF Writes, localVars
  <2>6. \A j : Kept(t, j)
    BY <2>1, <2>2, <2>3, <2>4, <2>5 DEF Kept, SameHold
  <2>7. calls'[t] \subseteq calls[t] /\ writeSet'[t] = writeSet[t]
    BY <2>1 DEF localVars
  <2>8. ReadsKept(t) /\ CallsOnce(t)'
    BY <1>3, <2>1, <2>7, SetsUnchanged, SetsKeptReads DEF CallsOnce
  <2> QED BY <1>2, <2>6, <2>8 DEF CalmStep
<1> QED BY <1>4, <1>5, <1>6

\* The releases of an abort, and the ends of the two post-processings.
LEMMA EndCalm ==
  ASSUME TypeOK, OwnershipInv, ExecutionInv, ChainInv, NEW t \in Txn,
         \/ PostProcessingAfterCommitNext(t) \/ PostProcessingAfterAbortNext(t)
         \/ \E i : \/ ReleaseReadCounterForEachEntry(t, i)
                   \/ ReleaseReadCounterForEachEntryError(t, i)
         \/ ReleaseReadCounterNext(t)
  PROVE  CalmStep(t)
<1> PICK i :
      \/ PostProcessingAfterCommitNext(t) \/ PostProcessingAfterAbortNext(t)
      \/ ReleaseReadCounterForEachEntry(t, i) \/ ReleaseReadCounterForEachEntryError(t, i)
      \/ ReleaseReadCounterNext(t)
  OBVIOUS
<1> USE DEF PostProcessingAfterCommitNext, PostProcessingAfterAbortNext, ReleaseReadCounterNext,
            ReleaseReadCounterForEachEntry, ReleaseReadCounterForEachEntryError
<1>1. /\ versions' = versions /\ txns' = txns /\ writeSet' = writeSet
      /\ commit_timestamp' = commit_timestamp
  BY DEF ReleaseReadCounter, Fails, Recover, dbVars, localVars, tsVars
<1>2. \A k \in Key : \A n \in 0 .. MaxVersion : SameEntry(k, n)
  BY <1>1 DEF SameEntry
<1>3. \A op \in CommitCalls \cup {"DeleteVersion"} : \A j :
        CallFor(op, j) \in calls'[t] <=> CallFor(op, j) \in calls[t]
  <2>1. calls \in [Txn -> SUBSET Call]
    BY DEF TypeOK
  <2>2. \A op \in CommitCalls \cup {"DeleteVersion"} : \A j, l :
          CallFor(op, j) # CallFor("ReleaseReadCounter", l)
    BY DEF CallFor, CommitCalls
  <2>3. CASE calls' = calls
    BY <2>3
  <2>4. CASE Answered(t, CallFor("ReleaseReadCounter", i))
    BY <2>1, <2>2, <2>4 DEF Answered
  <2>5. CASE PostProcessingAfterAbortNext(t)
    BY <2>1, <2>2, <2>5
  <2> QED BY <2>3, <2>4, <2>5
<1>4. Stuck(t) => Stuck(t)'
  <2>1. CASE operation'[t] = "Recover" \/ operation' = operation
    BY <1>1, <2>1 DEF Stuck
  <2>2. CASE operation[t] # "Recover"
    BY <2>2 DEF Stuck
  <2> QED BY <2>1, <2>2 DEF Moves, Recover, TypeOK
<1>5. \A j : \A k \in Key : \A n \in 1 .. MaxVersion : Writes(t, j, k, n)' <=> Writes(t, j, k, n)
  BY <1>1 DEF Writes
<1>6. \A j : Kept(t, j)
  BY <1>1, <1>3, <1>4, <1>5, KeptDecided
<1>7. ReadsKept(t)
  <2>1. SetsKept(t)
    BY FALSE \in BOOLEAN, ReleaseKeepsSets, SetsUnchanged DEF Released, Recover, localVars
  <2> QED BY <2>1, SetsKeptReads
<1>8. CallsOnce(t)'
  <2>1. CallsOnce(t)
    BY DEF ChainInv
  <2>2. \A h \in CommitHalf : h \in CommitCalls /\ Failed(h) \in CommitCalls
    BY DEF CommitHalf, CommitCalls, Failed
  <2> QED BY <1>1, <1>3, <2>1, <2>2 DEF CallsOnce
<1> QED BY <1>2, <1>6, <1>7, <1>8 DEF CalmStep

-----------------------------------------------------------------------------
(* The theorems.                                                           *)

\* Every step but the answers that change a version is calm.
LEMMA ClientCalm ==
  ASSUME TypeOK, OwnershipInv, OwnershipInv', ExecutionInv, ExecutionInv', NEW t \in Txn, Client(t)
  PROVE  CalmStep(t)
<1>1. ASSUME NEW k \in Key, Read(t, k) \/ Insert(t, k) \/ Upsert(t, k) PROVE CalmStep(t)
  BY <1>1, QuietCalm DEF Read, Insert, Upsert
<1>2. ASSUME NEW k \in Key, Update(t, k) \/ Delete(t, k) PROVE CalmStep(t)
  BY <1>2, LocalRequestCalm
<1> QED BY <1>1, <1>2, QuietCalm DEF Client

\* An answer that changes a version: those are not calm.
StoreStep(t, i) ==
  \/ UploadVersionEntry(t, i) \/ PostProcessingCommitNew(t, i) \/ PostProcessingClosePrev(t, i)
  \/ PostProcessingDeleteEntryAfterAbort(t, i)

\* Every other step of Progress is calm.
LEMMA ProgressCalm ==
  ASSUME TypeOK, OwnershipInv, ExecutionInv, ChainInv,
         TypeOK', OwnershipInv', ExecutionInv', NEW t \in Txn, Progress(t)
  PROVE  CalmStep(t) \/ \E i \in DOMAIN writeSet[t] : StoreStep(t, i)
<1>1. ASSUME NEW i \in DOMAIN readSet[t], ReadEntryStep(t, i) PROVE CalmStep(t)
  BY <1>1, AnswerCalm, EndCalm DEF ReadEntryStep
<1>2. ASSUME NEW i \in DOMAIN writeSet[t], WriteEntryStep(t, i) PROVE StoreStep(t, i) \/ CalmStep(t)
  BY <1>2, AnswerCalm, FailedCalm DEF WriteEntryStep, StoreStep
<1>3. CASE \/ InitTxn(t) \/ InitTxnError(t) \/ ReadDataStoreNext(t) \/ UploadNext(t)
           \/ SetCommitTs(t) \/ SetCommitTsError(t) \/ ValidateNext(t) \/ WriteToLog(t)
  BY <1>3, QuietCalm
<1>4. CASE ReadOutside(t) \/ ReadOutsideError(t)
  BY <1>4, ReadOutsideCalm
<1>5. CASE UpdateTxnStatusToCommit(t) \/ UpdateTxnStatusToAbort(t)
  BY <1>5, DecisionCalm
<1>6. CASE UpdateTxnStatusToCommitError(t) \/ UpdateTxnStatusToAbortError(t)
  BY <1>6, FailedCalm
<1>7. CASE \/ PostProcessingAfterCommitNext(t) \/ PostProcessingAfterAbortNext(t)
           \/ ReleaseReadCounterNext(t)
  BY <1>7, EndCalm
<1> QED BY <1>1, <1>2, <1>3, <1>4, <1>5, <1>6, <1>7 DEF Progress

\* Calm or not, a step of the executor keeps the invariant.
LEMMA ProgressChain ==
  ASSUME EndTsGap <= 1, TypeOK, OwnershipInv, ExecutionInv, ChainInv,
         TypeOK', OwnershipInv', ExecutionInv', NEW t \in Txn, Progress(t)
  PROVE  ChainInv'
<1>1. CASE CalmStep(t)
  BY <1>1, EveryStepFrame, CalmStepChain
<1>2. ASSUME NEW i \in DOMAIN writeSet[t], StoreStep(t, i) PROVE ChainInv'
  BY <1>2, UploadChain, CommitNewChain, ClosePrevChain, DeleteChain DEF StoreStep
<1> QED BY <1>1, <1>2, ProgressCalm

\* At first there is no version.
LEMMA InitChain == Init => ChainInv
<1> SUFFICES ASSUME Init PROVE ChainInv
  OBVIOUS
<1>1. \A k \in Key : \A n \in 0 .. MaxVersion : versions[k][n] = DefaultEntry
  BY DEF Init, DbInit
<1>2. \A k \in Key : \A n \in 0 .. MaxVersion :
        ~ Exists(k, n) /\ versions[k][n].tx_id = kEmptyTxId
  BY <1>1 DEF DefaultEntry, Exists
<1>3. \A t \in Txn : DOMAIN readSet[t] = {} /\ DOMAIN writeSet[t] = {}
  <2> SUFFICES ASSUME NEW t \in Txn PROVE DOMAIN readSet[t] = {} /\ DOMAIN writeSet[t] = {}
    OBVIOUS
  <2>1. readSet[t] = <<>> /\ writeSet[t] = <<>>
    BY DEF Init
  <2> QED BY <2>1, EmptySeq, LenProperties
<1>4. 0 \in 0 .. MaxVersion /\ \A n \in 1 .. MaxVersion : n \in 0 .. MaxVersion
  BY VersionDbAssumption
<1>5. EntriesWellFormed /\ NoGaps
  BY <1>2, <1>4 DEF EntriesWellFormed, NoGaps
<1>6. ReadsStable /\ HolderOwns /\ \A t \in Txn : CallsOnce(t)
  BY <1>3 DEF ReadsStable, HolderOwns, CallsOnce
<1>7. DirtyHeld /\ LockHeld /\ CommittedWritten
  BY <1>2, <1>4 DEF DirtyHeld, LockHeld, CommittedWritten, Dirty, Stable
<1> QED BY <1>5, <1>6, <1>7 DEF ChainInv

\* The invariant is inductive.
LEMMA NextChain ==
  ASSUME EndTsGap <= 1, TypeOK, OwnershipInv, ExecutionInv, ChainInv, [Next]_vars
  PROVE  ChainInv'
<1>1. TypeOK' /\ OwnershipInv' /\ ExecutionInv'
  BY NextTypes, NextOwnership, NextExecution
<1>2. CASE UNCHANGED vars
  <2>1. UNCHANGED <<versions, txns, operation, calls, readSet, writeSet, commit_timestamp>>
    BY <1>2 DEF vars, dbVars, execVars, localVars, tsVars
  <2>2. \A t \in Txn : (\A i : Kept(t, i)) /\ ReadsKept(t) /\ CallsOnce(t)'
    <3> SUFFICES ASSUME NEW t \in Txn
                 PROVE  (\A i : Kept(t, i)) /\ ReadsKept(t) /\ CallsOnce(t)'
      OBVIOUS
    <3>1. CallsOnce(t)'
      BY <2>1 DEF ChainInv, CallsOnce
    <3>2. ReadsKept(t)
      BY <2>1 DEF ReadsKept
    <3>3. ASSUME NEW i PROVE Kept(t, i)
      <4>1. \A k \in Key : \A n \in 1 .. MaxVersion : Writes(t, i, k, n)' <=> Writes(t, i, k, n)
        BY <2>1 DEF Writes
      <4>2. Stuck(t) => Stuck(t)'
        BY <2>1 DEF Stuck
      <4> QED BY <2>1, <4>1, <4>2, KeptDecided
    <3> QED BY <3>1, <3>2, <3>3
  <2>3. \A k \in Key : \A n \in 0 .. MaxVersion : SameEntry(k, n)
    BY <2>1 DEF SameEntry
  <2> QED BY <1>1, <2>2, <2>3, CalmChain
<1>3. ASSUME NEW t \in Txn, Client(t) PROVE ChainInv'
  <2>1. Frame(t)
    BY <1>3, EveryStepFrame
  <2>2. CalmStep(t)
    BY <1>1, <1>3, ClientCalm
  <2> QED BY <1>1, <2>1, <2>2, CalmStepChain
<1>4. ASSUME NEW t \in Txn, Progress(t) PROVE ChainInv'
  BY <1>1, <1>4, ProgressChain
<1> QED BY <1>2, <1>3, <1>4 DEF Next, AllEnded

\* The versions of every key, what is read of them and who owns and locks them agree
\* with the transactions, whatever the interleaving and whatever calls fail.  A
\* superseded version must not be closed at the timestamp that marks a dirty one.
THEOREM Chain ==
  ASSUME EndTsGap <= 1
  PROVE  Spec => [](TypeOK /\ OwnershipInv /\ ExecutionInv /\ ChainInv)
<1>1. Init => TypeOK /\ OwnershipInv /\ ExecutionInv /\ ChainInv
  BY InitTypes, InitOwnership, InitExecution, InitChain
<1>2. TypeOK /\ OwnershipInv /\ ExecutionInv /\ ChainInv /\ [Next]_vars =>
        TypeOK' /\ OwnershipInv' /\ ExecutionInv' /\ ChainInv'
  BY NextTypes, NextOwnership, NextExecution, NextChain
<1> QED BY <1>1, <1>2, PTL DEF Spec


-----------------------------------------------------------------------------
(* What follows for the store.                                             *)

\* The versions of a key follow each other without gaps and at most the newest is
\* dirty, through every order in which UploadVersion, the two halves of CommitVersion
\* and DeleteVersion of several transactions are answered.
THEOREM VersionsChained ==
  ASSUME EndTsGap <= 1
  PROVE  Spec => []VersionChain
<1>1. TypeOK /\ ChainInv => VersionChain
  <2> SUFFICES ASSUME TypeOK, ChainInv, NEW k \in Key, NEW n \in 1 .. MaxVersion, Exists(k, n)
               PROVE  /\ Exists(k, n - 1) /\ ~ Dirty(k, n - 1)
                      /\ Dirty(k, n) =>
                           \/ versions[k][n - 1].tx_id = versions[k][n].tx_id
                           \/ /\ versions[k][n].tx_id \in Committed
                              /\ versions[k][n - 1].end_ts =
                                   commit_timestamp[versions[k][n].tx_id] - EndTsGap
    BY DEF VersionChain
  <2>1. n - 1 \in 0 .. MaxVersion /\ n \in 0 .. MaxVersion /\ n - 1 < n
    BY VersionDbAssumption
  <2>2. Stable(k, n - 1)
    BY <2>1 DEF ChainInv, NoGaps
  <2>3. ASSUME Dirty(k, n)
        PROVE  \/ versions[k][n - 1].tx_id = versions[k][n].tx_id
               \/ /\ versions[k][n].tx_id \in Committed
                  /\ versions[k][n - 1].end_ts = commit_timestamp[versions[k][n].tx_id] - EndTsGap
    <3>1. PICK t \in Txn : \E i \in DOMAIN writeSet[t] : DirtyOwner(t, i, k, n)
      BY <2>3 DEF ChainInv, DirtyHeld
    <3>2. PICK i \in DOMAIN writeSet[t] : DirtyOwner(t, i, k, n)
      BY <3>1
    <3>3. Writes(t, i, k, n) /\ versions[k][n].tx_id = t /\ (NewHeld(t, i) \/ Left(t, k, n))
      BY <3>2 DEF DirtyOwner
    <3>4. Owns(t, i, k, n)
      BY <3>3 DEF ChainInv, HolderOwns
    <3>5. CASE NewHeld(t, i) /\ ~ PrevHeld(t, i)
      <4>1. t \in Committed
        BY <3>5 DEF NewHeld, PrevHeld, Pending
      <4> QED BY <3>3, <3>4, <3>5, <4>1 DEF Owns
    <3>6. CASE PrevHeld(t, i)
      BY <3>3, <3>4, <3>6 DEF Owns
    <3>7. CASE Left(t, k, n)
      BY <3>3, <3>7 DEF Left
    <3> QED BY <3>3, <3>5, <3>6, <3>7
  <2> QED BY <2>2, <2>3 DEF Stable, Dirty
<1>2. Spec => [](TypeOK /\ OwnershipInv /\ ExecutionInv /\ ChainInv)
  BY Chain
<1> QED BY <1>1, <1>2, PTL

\* The interval of a superseded version ends where that of its successor begins, as
\* soon as the two halves of the writer's CommitVersion are answered.
THEOREM IntervalsMeet ==
  ASSUME EndTsGap <= 1
  PROVE  Spec => []VersionIntervals
<1>1. TypeOK /\ ChainInv => VersionIntervals
  <2> SUFFICES ASSUME TypeOK, ChainInv, NEW k \in Key, NEW n \in 1 .. MaxVersion,
                      Exists(k, n), ~ Dirty(k, n)
               PROVE  /\ versions[k][n - 1].begin_ts < versions[k][n].begin_ts
                      /\ \/ versions[k][n - 1].end_ts = versions[k][n].begin_ts - EndTsGap
                         \/ versions[k][n - 1].tx_id # kEmptyTxId
    BY DEF VersionIntervals
  <2>1. n - 1 \in 0 .. MaxVersion /\ n \in 0 .. MaxVersion /\ n - 1 < n
    BY VersionDbAssumption
  <2>2. Stable(k, n)
    BY DEF Dirty, Stable
  <2>3. versions[k][n - 1].begin_ts < versions[k][n].begin_ts
    BY <2>1, <2>2 DEF ChainInv, NoGaps
  <2>4. PICK t \in Txn : \E i \in DOMAIN writeSet[t] : Author(t, i, k, n)
    BY <2>2 DEF ChainInv, CommittedWritten
  <2>5. PICK i \in DOMAIN writeSet[t] : Author(t, i, k, n)
    BY <2>4
  <2>6. Owns(t, i, k, n)
    BY <2>5 DEF ChainInv, HolderOwns, Author
  <2>7. t # kEmptyTxId
    BY VersionDbAssumption
  <2>8. \/ versions[k][n - 1].end_ts = versions[k][n].begin_ts - EndTsGap
        \/ versions[k][n - 1].tx_id = t
    BY <2>5, <2>6 DEF Owns, Author
  <2> QED BY <2>3, <2>7, <2>8
<1>2. Spec => [](TypeOK /\ OwnershipInv /\ ExecutionInv /\ ChainInv)
  BY Chain
<1> QED BY <1>1, <1>2, PTL

\* The writer of a committed version is a committed transaction.
LEMMA WriterOfStable ==
  ASSUME TypeOK, ChainInv, NEW k \in Key, NEW n \in 1 .. MaxVersion, Stable(k, n)
  PROVE  \E u \in Committed : \E j \in DOMAIN writeSet[u] :
           /\ writeSet[u][j].key = k /\ writeSet[u][j].version = n
           /\ versions[k][n].begin_ts = commit_timestamp[u]
<1>1. PICK u \in Txn : \E j \in DOMAIN writeSet[u] : Author(u, j, k, n)
  BY DEF ChainInv, CommittedWritten
<1>2. PICK j \in DOMAIN writeSet[u] : Author(u, j, k, n)
  BY <1>1
<1>3. Owns(u, j, k, n)
  BY <1>2 DEF ChainInv, HolderOwns, Author
<1> QED BY <1>2, <1>3 DEF Owns, Author, Writes

\* Nobody commits having read what an abort has deleted or may still delete: the
\* read picked a version whose writer had committed it, and it is still there.
THEOREM ReadsAreCommitted ==
  ASSUME EndTsGap <= 1
  PROVE  Spec => []ReadsCommitted
<1>1. TypeOK /\ ChainInv => ReadsCommitted
  <2> SUFFICES ASSUME TypeOK, ChainInv, NEW t \in Committed, NEW i \in DOMAIN readSet[t],
                      readSet[t][i].version > 0
               PROVE  /\ Exists(readSet[t][i].key, readSet[t][i].version)
                      /\ \E u \in Committed : \E j \in DOMAIN writeSet[u] :
                           /\ writeSet[u][j].key = readSet[t][i].key
                           /\ writeSet[u][j].version = readSet[t][i].version
                           /\ readSet[t][i].begin_ts = commit_timestamp[u]
    BY DEF ReadsCommitted
  <2>1. t \in Txn
    BY DEF Committed
  <2>2. readSet[t][i].key \in Key /\ readSet[t][i].version \in 1 .. MaxVersion
    BY <2>1, ReadPlace
  <2>3. /\ Stable(readSet[t][i].key, readSet[t][i].version)
        /\ readSet[t][i].begin_ts = versions[readSet[t][i].key][readSet[t][i].version].begin_ts
    BY <2>1 DEF ChainInv, ReadsStable, ReadStable
  <2> DEFINE k == readSet[t][i].key
             n == readSet[t][i].version
  <2>4. Exists(k, n)
    BY <2>3 DEF Stable
  <2>5. \E u \in Committed : \E j \in DOMAIN writeSet[u] :
           /\ writeSet[u][j].key = k /\ writeSet[u][j].version = n
           /\ versions[k][n].begin_ts = commit_timestamp[u]
    BY <2>2, <2>3, WriterOfStable
  <2> QED BY <2>3, <2>4, <2>5
<1>2. Spec => [](TypeOK /\ OwnershipInv /\ ExecutionInv /\ ChainInv)
  BY Chain
<1> QED BY <1>1, <1>2, PTL

\* What a finished transaction has put into the store is committed or deleted, and
\* what it locked is unlocked: nobody will push a transaction that is gone.
THEOREM LocksAnswered ==
  ASSUME EndTsGap <= 1
  PROVE  Spec => []NoOrphanLocks
<1>1. TypeOK /\ ExecutionInv /\ ChainInv => NoOrphanLocks
  <2> SUFFICES ASSUME TypeOK, ExecutionInv, ChainInv, NEW k \in Key, NEW n \in 0 .. MaxVersion,
                      versions[k][n].tx_id # kEmptyTxId
               PROVE  operation[versions[k][n].tx_id] # "Finished"
    BY DEF NoOrphanLocks
  <2>1. ASSUME NEW t \in Txn, NEW i, NEW m, NewHeld(t, i) \/ PrevHeld(t, i) \/ Left(t, k, m)
        PROVE  operation[t] # "Finished"
    <3>1. Outcome(t)
      BY DEF ExecutionInv, SelfInv
    <3>2. CASE Left(t, k, m)
      BY <3>2 DEF Left, Stuck
    <3>3. CASE ~ Left(t, k, m)
      BY <2>1, <3>1, <3>3 DEF Outcome, NewHeld, PrevHeld, Pending, Committed
    <3> QED BY <3>2, <3>3
  <2>2. Exists(k, n)
    BY DEF ChainInv, EntriesWellFormed
  <2>3. CASE Stable(k, n)
    <3>1. PICK t \in Txn : \E i \in DOMAIN writeSet[t] : LockOwner(t, i, k, n)
      BY <2>3 DEF ChainInv, LockHeld
    <3> QED BY <2>1, <3>1 DEF LockOwner
  <2>4. CASE ~ Stable(k, n)
    <3>1. n \in 1 .. MaxVersion
      BY <2>2, <2>4 DEF ChainInv, EntriesWellFormed
    <3>2. PICK t \in Txn : \E i \in DOMAIN writeSet[t] : DirtyOwner(t, i, k, n)
      BY <2>2, <2>4, <3>1 DEF ChainInv, DirtyHeld, Dirty, Stable
    <3> QED BY <2>1, <3>2 DEF DirtyOwner
  <2> QED BY <2>3, <2>4
<1>2. Spec => [](TypeOK /\ OwnershipInv /\ ExecutionInv /\ ChainInv)
  BY Chain
<1> QED BY <1>1, <1>2, PTL


-----------------------------------------------------------------------------
(* Without failing calls nobody is stopped.                                *)

\* No call has been answered with an error that post-processing cannot undo.
NoFailures(t) ==
  /\ operation[t] # "Recover"
  /\ \A i : \A half \in CommitHalf : CallFor(Failed(half), i) \notin calls[t]

\* The version that an answer commits, closes or deletes is there and is t's own.
LEMMA AnswerableCalls ==
  ASSUME TypeOK, OwnershipInv, ExecutionInv, ChainInv, NEW t \in Txn, NEW i \in DOMAIN writeSet[t]
  PROVE  LET k == writeSet[t][i].key
             n == writeSet[t][i].version IN
         /\ CallFor("CommitNew", i) \in calls[t] => CanCommitNewVersion(k, n, t)
         /\ CallFor("ClosePrev", i) \in calls[t] => CanClosePrevVersion(k, n, t)
         /\ CallFor("DeleteVersion", i) \in calls[t] => CanDeleteVersion(k, n)
<1>1. PICK k \in Key : \E n \in 1 .. MaxVersion :
        writeSet[t][i].key = k /\ writeSet[t][i].version = n
  BY PlaceOfEntry
<1>2. PICK n \in 1 .. MaxVersion : writeSet[t][i].key = k /\ writeSet[t][i].version = n
  BY <1>1
<1>3. \A op : CallFor(op, i).op = op /\ CallFor(op, i).index = i
  BY DEF CallFor
<1>4. writeSet[t][i].need_post_processing => Writes(t, i, k, n) /\ Owns(t, i, k, n)
  BY <1>2 DEF Writes, ChainInv, HolderOwns
<1>5. ASSUME NEW op \in {"CommitNew", "ClosePrev"}, CallFor(op, i) \in calls[t]
      PROVE  t \in Committed /\ Owns(t, i, k, n)
  BY <1>3, <1>4, <1>5 DEF ExecutionInv, SelfInv, CallsMatch, CommitCalls, PostProcessIndex
<1>6. CallFor("CommitNew", i) \in calls[t] => CanCommitNewVersion(k, n, t)
  BY <1>5 DEF NewHeld, Pending, Committed, Owns, Dirty, CanCommitNewVersion
<1>7. CallFor("ClosePrev", i) \in calls[t] => CanClosePrevVersion(k, n, t)
  BY <1>5 DEF PrevHeld, Pending, Committed, Owns, CanClosePrevVersion
<1>8. ASSUME CallFor("DeleteVersion", i) \in calls[t] PROVE CanDeleteVersion(k, n)
  <2>1. txns[t].status = "Aborted" /\ i \in PostProcessIndex(t)
    BY <1>3, <1>8 DEF OwnershipInv, DeletesUploaded
  <2>2. NewHeld(t, i) /\ Owns(t, i, k, n)
    BY <1>4, <1>8, <2>1 DEF PostProcessIndex, NewHeld, Pending, Committed
  <2> QED BY <2>2 DEF Owns, Dirty, CanDeleteVersion
<1> QED BY <1>2, <1>6, <1>7, <1>8

\* An entry whose call is answered without an error does not stop its transaction.
LEMMA CommitEntryUnstopped ==
  ASSUME TypeOK, NEW t \in Txn, NoFailures(t), NEW i, NEW half \in CommitHalf,
         CommitEntryAnswered(t, i, half, FALSE)
  PROVE  NoFailures(t)'
<1>1. calls'[t] = calls[t] \ {CallFor(half, i)}
  BY DEF CommitEntryAnswered, TypeOK
<1>2. \A h \in CommitHalf : CallFor(Failed(h), i) \notin calls[t] \ {CallFor(half, i)}
  BY DEF NoFailures
<1>3. operation'[t] = operation[t]
  <2> DEFINE rest == calls[t] \ {CallFor(half, i)}
  <2>1. ~ \E h \in CommitHalf : CallFor(Failed(h), i) \in rest
    BY <1>2
  <2>2. operation' = [operation EXCEPT
          ![t] = IF /\ CallFor(OtherHalf(half), i) \notin (rest \cup {})
                    /\ \E h \in CommitHalf : CallFor(Failed(h), i) \in (rest \cup {})
                 THEN "Recover" ELSE @]
    BY DEF CommitEntryAnswered
  <2>3. rest \cup {} = rest
    OBVIOUS
  <2> HIDE DEF rest
  <2> QED BY <2>1, <2>2, <2>3 DEF TypeOK
<1> QED BY <1>1, <1>3 DEF NoFailures

\* Nor does any other answer for an entry,
LEMMA EntriesUnstopped ==
  ASSUME Failing = {}, TypeOK, OwnershipInv, ExecutionInv, ChainInv, NEW t \in Txn, NoFailures(t),
         \/ \E i \in DOMAIN readSet[t] : ReadEntryStep(t, i)
         \/ \E i \in DOMAIN writeSet[t] : WriteEntryStep(t, i)
  PROVE  NoFailures(t)'
<1>1. \A a, b, i, j : CallFor(a, i) = CallFor(b, j) => a = b
  BY DEF CallFor
<1>2. \A i, j, u, half : half \in CommitHalf => CallFor(Failed(half), j) # PushCall(i, u)
  BY DEF CallFor, PushCall, Failed
<1>3. ASSUME NEW i \in DOMAIN readSet[t], ReadEntryStep(t, i) PROVE NoFailures(t)'
  <2>1. \/ UpdateReadEntryMaxCommitTs(t, i) \/ ReleaseReadCounterForEachEntry(t, i)
        \/ \E u \in Txn : PushConflictTxnCommitTsLowerBound(t, i, u)
    BY <1>3 DEF ReadEntryStep, Fails, UpdateReadEntryMaxCommitTsError,
         PushConflictTxnCommitTsLowerBoundError, ReleaseReadCounterForEachEntryError
  <2>2. operation' = operation
    BY <2>1 DEF UpdateReadEntryMaxCommitTs, PushConflictTxnCommitTsLowerBound,
                ReleaseReadCounterForEachEntry
  <2>3. \A call \in calls'[t] : call \in calls[t] \/ \E u : call = PushCall(i, u)
    <3>1. CASE UpdateReadEntryMaxCommitTs(t, i)
      <4> DEFINE rest == calls[t] \ {CallFor("UpdateReadEntryMaxCommitTs", i)}
      <4>1. \/ calls' = [calls EXCEPT ![t] = rest]
            \/ \E u : calls' = [calls EXCEPT ![t] = rest \cup {PushCall(i, u)}]
        BY <3>1 DEF UpdateReadEntryMaxCommitTs, Answered
      <4> QED BY <4>1 DEF TypeOK
    <3>2. CASE ~ UpdateReadEntryMaxCommitTs(t, i)
      BY <2>1, <3>2 DEF PushConflictTxnCommitTsLowerBound, ReleaseReadCounterForEachEntry,
                        Answered, TypeOK
    <3> QED BY <3>1, <3>2
  <2> QED BY <1>2, <2>2, <2>3 DEF NoFailures
<1>4. ASSUME NEW i \in DOMAIN writeSet[t], WriteEntryStep(t, i) PROVE NoFailures(t)'
  <2>1. CASE \/ UploadVersionEntry(t, i) \/ UploadVersionEntryError(t, i)
             \/ PostProcessingDeleteEntryAfterAbort(t, i)
    <3>1. operation' = operation /\ calls'[t] \subseteq calls[t]
      BY <2>1 DEF UploadVersionEntry, UploadVersionEntryError, PostProcessingDeleteEntryAfterAbort,
                  Answered, TypeOK
    <3> QED BY <3>1 DEF NoFailures
  <2>2. CASE PostProcessingCommitNew(t, i) \/ PostProcessingClosePrev(t, i)
    BY <2>2, CommitEntryUnstopped DEF PostProcessingCommitNew, PostProcessingClosePrev, CommitHalf
  <2>3. ~ PostProcessingCommitEntryError(t, i)
    BY AnswerableCalls DEF PostProcessingCommitEntryError
  <2>4. ~ PostProcessingDeleteEntryAfterAbortError(t, i)
    BY AnswerableCalls DEF PostProcessingDeleteEntryAfterAbortError
  <2> QED BY <1>4, <2>1, <2>2, <2>3, <2>4 DEF WriteEntryStep
<1> QED BY <1>3, <1>4

\* nor a request or a move of the operation vector.
LEMMA MovesUnstopped ==
  ASSUME Failing = {}, TypeOK, NEW t \in Txn, NoFailures(t), Client(t) \/ Progress(t),
         ~ \E i \in DOMAIN readSet[t] : ReadEntryStep(t, i),
         ~ \E i \in DOMAIN writeSet[t] : WriteEntryStep(t, i)
  PROVE  NoFailures(t)'
<1> DEFINE Sent == \A call \in calls'[t] :
                     \/ call \in calls[t]
                     \/ call.op \in {"UploadVersion", "UpdateReadEntryMaxCommitTs", "CommitNew",
                                    "ClosePrev", "DeleteVersion", "ReleaseReadCounter"}
<1>1. operation'[t] # "Recover" /\ Sent => NoFailures(t)'
  BY DEF NoFailures, CallFor, Failed
<1>2. CASE Client(t)
  <2>1. operation'[t] # "Recover"
    BY <1>2 DEF Client, Begin, Commit, Abort, ReadDataStore, Read, Insert, Upsert, CallReadOutside,
             Update, Delete, Moves, NoFailures, TypeOK
  <2>2. Sent
    <3>1. Commit(t) => calls'[t] = {CallFor("UploadVersion", i) : i \in DOMAIN writeSet[t]}
      BY DEF Commit, TypeOK
    <3>2. ~ Commit(t) => calls' = calls
      BY <1>2 DEF Client, Begin, Abort, ReadDataStore, Read, Insert, Upsert, CallReadOutside,
                  Update, Delete
    <3> QED BY <3>1, <3>2 DEF CallFor
  <2> QED BY <1>1, <2>1, <2>2
<1>3. CASE \/ InitTxn(t) \/ ReadOutside(t) \/ ReadDataStoreNext(t) \/ UploadNext(t)
           \/ SetCommitTs(t) \/ ValidateNext(t) \/ WriteToLog(t) \/ UpdateTxnStatusToCommit(t)
           \/ PostProcessingAfterCommitNext(t) \/ UpdateTxnStatusToAbort(t)
           \/ PostProcessingAfterAbortNext(t) \/ ReleaseReadCounterNext(t)
  <2>1. operation'[t] # "Recover"
    BY <1>3 DEF InitTxn, ReadOutside, ReadOutsideNext, ReadDataStoreNext, UploadNext, SetCommitTs,
             ValidateNext, WriteToLog, UpdateTxnStatusToCommit, PostProcessingAfterCommitNext,
             UpdateTxnStatusToAbort, PostProcessingAfterAbortNext, ReleaseReadCounterNext,
             AbortFrom, Moves, TypeOK
  <2>2. Sent
    <3>1. CASE SetCommitTs(t)
      BY <3>1 DEF SetCommitTs, RereadCalls, CallFor, TypeOK
    <3>2. CASE UpdateTxnStatusToCommit(t) \/ UpdateTxnStatusToAbort(t)
      BY <3>2 DEF UpdateTxnStatusToCommit, UpdateTxnStatusToAbort, CallFor, TypeOK
    <3>3. CASE PostProcessingAfterAbortNext(t)
      BY <3>3 DEF PostProcessingAfterAbortNext, CallFor, TypeOK
    <3>4. CASE \/ InitTxn(t) \/ ReadOutside(t) \/ ReadDataStoreNext(t) \/ UploadNext(t)
               \/ ValidateNext(t) \/ WriteToLog(t) \/ PostProcessingAfterCommitNext(t)
               \/ ReleaseReadCounterNext(t)
      BY <3>4 DEF InitTxn, ReadOutside, ReadOutsideNext, ReadDataStoreNext, UploadNext,
             ValidateNext, WriteToLog, PostProcessingAfterCommitNext,
             ReleaseReadCounterNext, AbortFrom, TypeOK
    <3> QED BY <1>3, <3>1, <3>2, <3>3, <3>4
  <2> QED BY <1>1, <2>1, <2>2
<1>4. ~ (\/ InitTxnError(t) \/ ReadOutsideError(t) \/ SetCommitTsError(t)
         \/ UpdateTxnStatusToCommitError(t) \/ UpdateTxnStatusToAbortError(t))
  BY DEF InitTxnError, ReadOutsideError, SetCommitTsError, UpdateTxnStatusToCommitError,
         UpdateTxnStatusToAbortError, Fails
<1> QED BY <1>2, <1>3, <1>4 DEF Progress

\* If no call fails of itself, no transaction is stopped in Recover: the conditions
\* under which the handler refuses to commit, close or delete a version never arise.
THEOREM RecoversOnlyAfterFailure ==
  ASSUME EndTsGap <= 1
  PROVE  Spec => []RecoverOnlyAfterFailure
<1> DEFINE Unstopped == Failing = {} => \A t \in Txn : NoFailures(t)
<1>1. Init => Unstopped
  BY DEF Init, NoFailures
<1>2. TypeOK /\ OwnershipInv /\ ExecutionInv /\ ChainInv /\ Unstopped /\ [Next]_vars => Unstopped'
  <2> SUFFICES ASSUME Failing = {}, TypeOK, OwnershipInv, ExecutionInv, ChainInv,
                      \A t \in Txn : NoFailures(t), [Next]_vars, NEW u \in Txn
               PROVE  NoFailures(u)'
    OBVIOUS
  <2>1. CASE UNCHANGED vars
    BY <2>1 DEF NoFailures, vars, execVars
  <2>2. ASSUME NEW t \in Txn, Client(t) \/ Progress(t) PROVE NoFailures(u)'
    <3>1. NoFailures(t)'
      BY <2>2, EntriesUnstopped, MovesUnstopped
    <3>2. u # t => NoFailures(u)'
      BY <2>2, EveryStepFrame DEF Frame, NoFailures
    <3> QED BY <3>1, <3>2
  <2> QED BY <2>1, <2>2 DEF Next, AllEnded
<1>3. Unstopped => RecoverOnlyAfterFailure
  BY DEF NoFailures, RecoverOnlyAfterFailure
<1>4. Spec => [](TypeOK /\ OwnershipInv /\ ExecutionInv /\ ChainInv)
  BY Chain
<1> HIDE DEF Unstopped
<1> QED BY <1>1, <1>2, <1>3, <1>4, PTL DEF Spec
=============================================================================
