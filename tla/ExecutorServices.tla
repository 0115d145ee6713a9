-------------------------- MODULE ExecutorServices --------------------------
(***************************************************************************)
(* Where transactions get their identity and their time from: the id       *)
(* generator (simple-txn-id-generator.cpp and its factory) and the time    *)
(* provider (local-time-provider.cpp) that the tasks of one executor       *)
(* share, as TransactionExecution uses them.                               *)
(***************************************************************************)
EXTENDS Integers, FiniteSets

CONSTANTS
  executors,               \* the number of executors, the factory's count_
  Slot,                    \* the tasks of an executor
  INT64_MAX,
  TIME_PROVIDER_INTERVAL,
  Clock,                   \* the values system_clock may show
  MaxTime,                 \* bound: timestamps
  MaxDraws                 \* bound: ids drawn by an executor

ASSUME ExecutorServicesAssumption ==
  /\ executors \in Nat \ {0} /\ INT64_MAX \in Nat /\ executors <= INT64_MAX
  /\ TIME_PROVIDER_INTERVAL \in Nat \ {0}
  /\ Clock \subseteq Nat /\ MaxTime \in Nat /\ MaxDraws \in Nat

Executor == 0 .. executors - 1

interval == INT64_MAX \div executors

VARIABLES
  id,         \* id[e]: the generator's id_
  provider,   \* provider[e]: time_value_ and count_
  txn,        \* txn[e][s]: the transaction in task s
  draws,      \* history, draws[e]: how many ids have been drawn
  latest,     \* history, latest[e]: what GetTime has returned last
  committed   \* history, committed[e]: the highest time that SetTime was given

vars == <<id, provider, txn, draws, latest, committed>>

NoTxn == [phase |-> "Free", txn_id |-> -1, drawn |-> 0, ts |-> 0]

-----------------------------------------------------------------------------
(* SimpleTxnIDGenerator and SimpleTxnIDGeneratorFactory.                   *)

start(e) == interval * e

end(e) == start(e) + interval

\* Mutant: the generator goes on into the range of the next executor.
GenerateIDPastEnd(e) == id[e] + 1

GenerateID(e) == IF id[e] + 1 = end(e) THEN start(e) ELSE id[e] + 1

-----------------------------------------------------------------------------
(* LocalTimeProvider.                                                      *)

Later(a, b) == IF a < b THEN b ELSE a

\* Mutant: the clock is taken as it is.
RefreshedByClock(p, now) ==
  IF p.count = TIME_PROVIDER_INTERVAL THEN [time_value |-> now, count |-> 0] ELSE p

\* GetTime: the clock is looked at after TIME_PROVIDER_INTERVAL calls.
Refreshed(p, now) ==
  IF p.count = TIME_PROVIDER_INTERVAL
  THEN [time_value |-> Later(p.time_value, now), count |-> 0] ELSE p

GetTime(p, now) == Refreshed(p, now).time_value + Refreshed(p, now).count

AfterGetTime(p, now) == [Refreshed(p, now) EXCEPT !.count = @ + 1]

\* Mutant: the times that were given out since the last refresh are forgotten.
SetTimeDroppingCount(p, time) == [time_value |-> Later(p.time_value, time), count |-> 0]

SetTime(p, time) == [time_value |-> Later(p.time_value + p.count, time), count |-> 0]

Init ==
  /\ id = [e \in Executor |-> start(e)]
  /\ provider \in [Executor -> [time_value : Clock, count : {0}]]
  /\ txn = [e \in Executor |-> [s \in Slot |-> NoTxn]]
  /\ draws = [e \in Executor |-> 0]
  /\ latest = [e \in Executor |-> 0]
  /\ committed = [e \in Executor |-> 0]

-----------------------------------------------------------------------------
(* TransactionExecution.                                                   *)

ResetTxnIDAndTime(e, s, from) ==
  /\ txn[e][s].phase = from /\ draws[e] < MaxDraws
  /\ id' = [id EXCEPT ![e] = GenerateID(e)]
  /\ draws' = [draws EXCEPT ![e] = @ + 1]
  /\ \E now \in Clock :
       LET ts == GetTime(provider[e], now) IN
       /\ ts <= MaxTime
       /\ provider' = [provider EXCEPT ![e] = AfterGetTime(@, now)]
       /\ latest' = [latest EXCEPT ![e] = ts]
       /\ txn' = [txn EXCEPT ![e][s] = [phase |-> "InitTxn", txn_id |-> GenerateID(e),
                                        drawn |-> draws[e] + 1, ts |-> ts]]
  /\ UNCHANGED committed

\* TransactionTask::Reset and Begin.
Begin(e, s) == ResetTxnIDAndTime(e, s, "Free")

\* NewTxn has failed: again, with another id.
InitTxnRetry(e, s) == ResetTxnIDAndTime(e, s, "InitTxn")

InitTxn(e, s) ==
  /\ txn[e][s].phase = "InitTxn"
  /\ txn' = [txn EXCEPT ![e][s] = [txn[e][s] EXCEPT !.phase = "Running"]]
  /\ UNCHANGED <<id, provider, draws, latest, committed>>

Raise(e, time) == committed' = [committed EXCEPT ![e] = Later(@, time)]

\* SetCommitTsOperation::CallImpl: ResetTime, a proposal not before it, SetTime.
SetCommitTs(e, s) ==
  /\ txn[e][s].phase = "Running"
  /\ \E now \in Clock : \E proposed \in GetTime(provider[e], now) .. MaxTime :
       /\ provider' = [provider EXCEPT ![e] = SetTime(AfterGetTime(@, now), proposed)]
       /\ latest' = [latest EXCEPT ![e] = GetTime(provider[e], now)]
       /\ txn' = [txn EXCEPT ![e][s] = [txn[e][s] EXCEPT !.phase = "SetCommitTs", !.ts = proposed]]
       /\ Raise(e, proposed)
  /\ UNCHANGED <<id, draws>>

\* SetCommitTsOperation::NextImpl: the table may have moved the timestamp up.
CommitTsSet(e, s) ==
  /\ txn[e][s].phase = "SetCommitTs"
  /\ \E time \in txn[e][s].ts .. MaxTime :
       /\ provider' = [provider EXCEPT ![e] = SetTime(@, time)]
       /\ txn' = [txn EXCEPT ![e][s] = [txn[e][s] EXCEPT !.phase = "Validate", !.ts = time]]
       /\ Raise(e, time)
  /\ UNCHANGED <<id, draws, latest>>

\* The transaction ends, at any point after Begin, and its task is free.
Finish(e, s) ==
  /\ txn[e][s].phase \in {"Running", "SetCommitTs", "Validate"}
  /\ txn' = [txn EXCEPT ![e][s] = NoTxn]
  /\ UNCHANGED <<id, provider, draws, latest, committed>>

Next == \E e \in Executor, s \in Slot :
  \/ Begin(e, s) \/ InitTxnRetry(e, s) \/ InitTxn(e, s)
  \/ SetCommitTs(e, s) \/ CommitTsSet(e, s) \/ Finish(e, s)

Spec == Init /\ [][Next]_vars

-----------------------------------------------------------------------------
TypeOK ==
  /\ id \in [Executor -> 0 .. INT64_MAX]
  /\ provider \in [Executor ->
       [time_value : Nat, count : 0 .. TIME_PROVIDER_INTERVAL]]
  /\ txn \in [Executor -> [Slot ->
       [phase : {"Free", "InitTxn", "Running", "SetCommitTs", "Validate"},
        txn_id : -1 .. INT64_MAX, drawn : Nat, ts : Nat]]]
  /\ draws \in [Executor -> Nat]
  /\ latest \in [Executor -> Nat]
  /\ committed \in [Executor -> Nat]

Live(e, s) == txn[e][s].phase # "Free"

Distance(a, b) == IF a < b THEN b - a ELSE a - b

\* The transactions of different executors never have the same id, and two of one
\* executor only if one of them has lasted while the generator went round its whole
\* range: the identity by which the store tells transactions, their dirty
\* versions and their entries apart.
LiveIdsDistinct ==
  \A e, f \in Executor : \A s, u \in Slot :
    /\ <<e, s>> # <<f, u>> /\ Live(e, s) /\ Live(f, u)
    /\ txn[e][s].txn_id = txn[f][u].txn_id
    => e = f /\ Distance(txn[e][s].drawn, txn[f][u].drawn) >= interval

\* A transaction never starts from, or proposes to commit at, a time before a commit
\* timestamp that its executor has already seen, whatever the clock does.
AfterOwnCommits ==
  [][\A e \in Executor : latest'[e] # latest[e] => latest'[e] >= committed[e]]_vars

\* The times that an executor hands out go back only when the clock is looked at
\* again, and then by less than TIME_PROVIDER_INTERVAL.
TimeGoesBackOnlyAtRefresh ==
  [][\A e \in Executor : latest'[e] < latest[e] =>
       /\ provider[e].count = TIME_PROVIDER_INTERVAL
       /\ latest[e] - latest'[e] < TIME_PROVIDER_INTERVAL]_vars
=============================================================================
