----------------------------- MODULE AtomicStore -----------------------------
(***************************************************************************)
(* What the transactions and the version lists promise together, without   *)
(* versions that are dirty, locks, rereads, pushes or post-processing: a   *)
(* store with one current version per key, and transactions that each end  *)
(* in one atomic step.  A commit puts a new version of every key it writes *)
(* on top of the current one, all with the same timestamp and later than   *)
(* what they supersede; an abort changes nothing.                          *)
(***************************************************************************)
EXTENDS Integers

CONSTANTS Txn, Key, Timestamp

VARIABLES
  current,  \* current[k]: number, commit timestamp and kind of the current version
  outcome   \* outcome[t]: "Ongoing", "Committed" or "Aborted"

storeVars == <<current, outcome>>

StoreInit ==
  /\ current = [k \in Key |-> [version |-> 0, begin_ts |-> 0, is_deleted |-> TRUE]]
  /\ outcome = [t \in Txn |-> "Ongoing"]

Written(k, ts, is_deleted) ==
  [version |-> current[k].version + 1, begin_ts |-> ts, is_deleted |-> is_deleted]

Commit(t) ==
  /\ outcome[t] = "Ongoing"
  /\ outcome' = [outcome EXCEPT ![t] = "Committed"]
  /\ \E ts \in Timestamp, keys \in SUBSET Key :
       /\ \A k \in keys : current[k].begin_ts < ts
       /\ \E deleted \in SUBSET keys :
            current' = [k \in Key |-> IF k \in keys THEN Written(k, ts, k \in deleted)
                                                   ELSE current[k]]

Abort(t) ==
  /\ outcome[t] = "Ongoing"
  /\ outcome' = [outcome EXCEPT ![t] = "Aborted"]
  /\ UNCHANGED current

StoreNext == \E t \in Txn : Commit(t) \/ Abort(t)

StoreSpec == StoreInit /\ [][StoreNext]_storeVars
==============================================================================
