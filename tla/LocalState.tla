----------------------------- MODULE LocalState -----------------------------
(***************************************************************************)
(* The read set and the write set of one transaction                       *)
(* (include/transaction/local-state.h).  The pools keep their entries in   *)
(* insertion order and grow on demand, so a set is the sequence of its     *)
(* used slots; pop_index_ is its length.  Record, extension and the copies *)
(* of tx_id and end_ts that no operation reads are left out.               *)
(***************************************************************************)
EXTENDS VersionDb, Sequences

\* ReadSetEntry with its SetKey.
ReadSetEntry ==
  [key          : Key,
   version      : 0 .. MaxVersion,
   begin_ts     : Int,
   is_deleted   : BOOLEAN,
   is_updated   : BOOLEAN,
   need_release : BOOLEAN]

\* WriteSetEntry with its SetKey; read_entry is the index of ReadSetEntry *read_entry_.
WriteSetEntry ==
  [key                  : Key,
   version              : 1 .. MaxVersion,
   is_deleted           : BOOLEAN,
   read_entry           : Nat,
   need_post_processing : BOOLEAN]

\* Mutant: the entry of a key without a visible version is left at its defaults.
NewReadSetEntryAsPicked(k, v) ==
  [key |-> k, version |-> v.version, begin_ts |-> v.begin_ts,
   is_deleted |-> v.is_deleted, is_updated |-> FALSE, need_release |-> TRUE]

\* ReadSetEntry::Reset with its default arguments, for the version v picked by
\* the read; without one (DefaultEntry) the entry stands for the pseudo version.
NewReadSetEntry(k, v) ==
  LET found == v.version # kDefaultVersion IN
  [key          |-> k,
   version      |-> IF found THEN v.version ELSE kFirstVersion,
   begin_ts     |-> IF found THEN v.begin_ts ELSE 0,
   is_deleted   |-> IF found THEN v.is_deleted ELSE TRUE,
   is_updated   |-> FALSE,
   need_release |-> TRUE]

NewWriteSetEntry(k, n, is_deleted, read_entry) ==
  [key                  |-> k,
   version              |-> n,
   is_deleted           |-> is_deleted,
   read_entry           |-> read_entry,
   need_post_processing |-> FALSE]

\* The pools are searched from the newest slot down: i is the slot found.
Found(set, k, i) ==
  /\ i \in DOMAIN set
  /\ set[i].key = k
  /\ \A j \in DOMAIN set : set[j].key = k => j <= i

InSet(set, k) == \E i \in DOMAIN set : set[i].key = k
=============================================================================
