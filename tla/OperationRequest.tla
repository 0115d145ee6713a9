-------------------------- MODULE OperationRequest --------------------------
(***************************************************************************)
(* How an answer gets from the executor's thread to the clients'           *)
(* (operation-request.cpp, result.cpp, the setters of result.h): Wait and  *)
(* Notify over a mutex and a condition variable, and the one result_ of a  *)
(* task that all its requests share and that PullResult copies from.       *)
(*                                                                         *)
(* One task serves the transactions of several clients, one after the      *)
(* other.  A client adds a request, waits for it, pulls its result and     *)
(* adds the next one.  Wait looks at is_finished_ without the mutex; it is *)
(* taken to see the latest value and later loads the latest fields.        *)
(***************************************************************************)
EXTENDS Integers, Sequences, FiniteSets

CONSTANTS
  Client,
  Script,    \* Script[c]: the operation types of the requests of c's transaction
  Nobody,    \* nobody holds a mutex, no transaction is in the task
  Pending    \* no answer

\* What result_ can tell a client: found stands for record_, is_deleted_, is_null_.
Answer == [found : {"Record", "NoRecord", "Nothing"}, is_error : BOOLEAN]

\* A transaction starts with Begin (TransactionExecution).
ASSUME OperationRequestAssumption ==
  /\ Nobody \notin Client
  /\ \A c \in Client :
       /\ Script[c] \in Seq(STRING)
       /\ Script[c] # <<>> => Script[c][1] = "Begin"
  /\ Pending \notin Answer

Request == UNION {{c} \X DOMAIN Script[c] : c \in Client}

Type(r) == Script[r[1]][r[2]]

Ends(r) == Type(r) \in {"Commit", "Abort"}

Inner == {r \in Request : ~ Ends(r)}

VARIABLES
  is_finished,  \* is_finished[r]
  mutex,        \* mutex[r]: the holder of mutex_
  cache,        \* cache[r]: what PullResult has copied
  result,       \* the task's result_
  wait,         \* wait[c]: where the client is in Wait and PullResult
  sent,         \* sent[c]: how many requests c has added
  txn,          \* the client whose transaction is in the task
  served,       \* how many of its requests have been taken up
  serve,        \* where the executor is in serving the last of them
  again,        \* the operation that invoked the read is still to decide
  answer        \* history: what result_ has told or would tell the client of r

clientVars   == <<cache, wait, sent>>
executorVars == <<result, txn, served, again, answer>>
vars == <<is_finished, mutex, clientVars, executorVars, serve>>

NewResult == [found |-> "Nothing", is_error |-> FALSE]

Init ==
  /\ is_finished = [r \in Request |-> FALSE]
  /\ mutex = [r \in Request |-> Nobody]
  /\ cache = [r \in Request |-> NewResult]
  /\ result = NewResult
  /\ wait = [c \in Client |-> "Ready"]
  /\ sent = [c \in Client |-> 0]
  /\ txn = Nobody
  /\ served = 0
  /\ serve = "Take"
  /\ again = FALSE
  /\ answer = [r \in Request |-> Pending]

-----------------------------------------------------------------------------
(* The client.                                                             *)

Waiting(c) == <<c, sent[c]>>

ClientMoves(c, from, to) ==
  /\ wait[c] = from
  /\ wait' = [wait EXCEPT ![c] = to]
  /\ UNCHANGED <<executorVars, serve>>

AddRequest(c) ==
  /\ sent[c] < Len(Script[c])
  /\ ClientMoves(c, "Ready", "Fast")
  /\ sent' = [sent EXCEPT ![c] = @ + 1]
  /\ UNCHANGED <<is_finished, mutex, cache>>

\* Wait: the fast path.
WaitFast(c) ==
  /\ ClientMoves(c, "Fast", IF is_finished[Waiting(c)] THEN "PullRecord" ELSE "Lock")
  /\ UNCHANGED <<is_finished, mutex, cache, sent>>

\* Wait: the lock, taken at first or by cv_.wait on its return.
WaitLock(c) ==
  /\ ClientMoves(c, "Lock", "Test")
  /\ mutex[Waiting(c)] = Nobody
  /\ mutex' = [mutex EXCEPT ![Waiting(c)] = c]
  /\ UNCHANGED <<is_finished, cache, sent>>

\* Wait: the predicate holds and the lock goes out of scope, or cv_.wait goes on.
WaitTest(c) ==
  /\ ClientMoves(c, "Test", IF is_finished[Waiting(c)] THEN "PullRecord" ELSE "Sleep")
  /\ mutex' = [mutex EXCEPT ![Waiting(c)] = IF is_finished[Waiting(c)] THEN Nobody ELSE c]
  /\ UNCHANGED <<is_finished, cache, sent>>

WaitSleep(c) ==
  /\ ClientMoves(c, "Sleep", "Asleep")
  /\ mutex' = [mutex EXCEPT ![Waiting(c)] = Nobody]
  /\ UNCHANGED <<is_finished, cache, sent>>

SpuriousWakeUp(c) ==
  /\ ClientMoves(c, "Asleep", "Lock")
  /\ UNCHANGED <<is_finished, mutex, cache, sent>>

\* PullResult: the record and its kind, then the error.
PullRecord(c) ==
  /\ ClientMoves(c, "PullRecord", "PullError")
  /\ cache' = [cache EXCEPT ![Waiting(c)].found = result.found]
  /\ UNCHANGED <<is_finished, mutex, sent>>

PullError(c) ==
  /\ ClientMoves(c, "PullError", "Ready")
  /\ cache' = [cache EXCEPT ![Waiting(c)].is_error = result.is_error]
  /\ UNCHANGED <<is_finished, mutex, sent>>

-----------------------------------------------------------------------------
(* The executor's thread.                                                  *)

Current == <<txn, served>>

ExecutorMoves(from, to) ==
  /\ serve = from
  /\ serve' = to
  /\ UNCHANGED <<cache, sent>>

\* Mutant: an error stays in result_.
ResetResultKeepingError(old) == [NewResult EXCEPT !.is_error = old.is_error]

\* Result::Reset.
ResetResult(old) == NewResult

\* The task is given the first request of a transaction, or the next one.
Take(c) ==
  /\ txn \in {Nobody, c}
  /\ served < sent[c]
  /\ txn = Nobody => sent[c] = 1
  /\ ExecutorMoves("Take", "Serve")
  /\ txn' = c
  /\ served' = served + 1
  /\ result' = ResetResult(result)
  /\ again' = (Type(<<c, served + 1>>) \in {"Insert", "Upsert"})
  /\ UNCHANGED <<is_finished, mutex, wait, answer>>

\* What the setters leave in result_ when the request is first notified; NoRecord
\* is is_deleted_ or is_null_.
Found == {[found |-> f, is_error |-> FALSE] : f \in {"Record", "NoRecord"}}
Done  == [found |-> "Nothing", is_error |-> FALSE]
Error == [found |-> "Nothing", is_error |-> TRUE]

FirstAnswers(type) ==
  CASE type \in {"Begin", "Commit", "Abort"} -> {Done}
    [] type \in {"Update", "Delete"} -> {Done, Error}
    [] OTHER -> Found \cup {Error}

\* SetRecord, SetDeleted, SetNull, SetError, SetStatus or SetFinished, up to Notify.
Serve ==
  /\ ExecutorMoves("Serve", "SetFinished")
  /\ \E a \in FirstAnswers(Type(Current)) :
       result' = [found |-> a.found, is_error |-> a.is_error \/ result.is_error]
  /\ UNCHANGED <<is_finished, mutex, wait, txn, served, again, answer>>

\* Mutant: Notify does not take the mutex.
NotifyLockLess ==
  /\ ExecutorMoves("SetFinished", "NotifyOne")
  /\ is_finished' = [is_finished EXCEPT ![Current] = TRUE]
  /\ answer' = [answer EXCEPT ![Current] = result]
  /\ UNCHANGED <<mutex, wait, result, txn, served, again>>

\* Notify: the lock and the flag.
NotifyLock ==
  /\ ExecutorMoves("SetFinished", "Unlock")
  /\ mutex[Current] = Nobody
  /\ mutex' = [mutex EXCEPT ![Current] = "Executor"]
  /\ is_finished' = [is_finished EXCEPT ![Current] = TRUE]
  /\ answer' = [answer EXCEPT ![Current] = result]
  /\ UNCHANGED <<wait, result, txn, served, again>>

NotifyUnlock ==
  /\ ExecutorMoves("Unlock", "NotifyOne")
  /\ mutex' = [mutex EXCEPT ![Current] = Nobody]
  /\ UNCHANGED <<is_finished, wait, executorVars>>

\* Mutant: the next transaction does not start at its first request.
NotifyOneKeepingCurrent ==
  /\ ExecutorMoves("NotifyOne", IF again THEN "Decide" ELSE "Take")
  /\ wait' = IF wait[txn] = "Asleep" /\ Waiting(txn) = Current
             THEN [wait EXCEPT ![txn] = "Lock"] ELSE wait
  /\ txn' = IF Ends(Current) THEN Nobody ELSE txn
  /\ UNCHANGED <<is_finished, mutex, result, served, again, answer>>

\* Notify: notify_one; Insert and Upsert go on, a decided transaction finishes and
\* frees the task.
NotifyOne ==
  /\ ExecutorMoves("NotifyOne", IF again THEN "Decide" ELSE "Take")
  /\ wait' = IF wait[txn] = "Asleep" /\ Waiting(txn) = Current
             THEN [wait EXCEPT ![txn] = "Lock"] ELSE wait
  /\ txn' = IF Ends(Current) THEN Nobody ELSE txn
  /\ served' = IF Ends(Current) THEN 0 ELSE served
  /\ UNCHANGED <<is_finished, mutex, result, again, answer>>

\* InsertOperation::NextImpl and UpsertOperation::NextImpl, after the read they
\* invoked has notified the request: whether a live record is in the way is
\* decided by the first entry of the read set for the key.
Decide ==
  /\ again' = FALSE
  /\ \/ ExecutorMoves("Decide", "SetFinished") /\ UNCHANGED <<result, answer>>
     \/ /\ ExecutorMoves("Decide", "SetFinished")
        /\ Type(Current) = "Insert"
        /\ result' = [result EXCEPT !.is_error = TRUE]
        /\ answer' = [answer EXCEPT ![Current].is_error = TRUE]
     \/ /\ ExecutorMoves("Decide", "Take")
        /\ Type(Current) = "Upsert" /\ result.is_error
        /\ UNCHANGED <<result, answer>>
  /\ UNCHANGED <<is_finished, mutex, wait, txn, served>>

-----------------------------------------------------------------------------
ClientSteps(c) ==
  \/ AddRequest(c) \/ WaitFast(c) \/ WaitLock(c) \/ WaitTest(c) \/ WaitSleep(c)
  \/ PullRecord(c) \/ PullError(c)

ExecutorSteps ==
  \/ \E c \in Client : Take(c)
  \/ Serve \/ NotifyLock \/ NotifyUnlock \/ NotifyOne \/ Decide

Finished ==
  /\ \A c \in Client : wait[c] = "Ready" /\ sent[c] = Len(Script[c])
  /\ serve = "Take"
  /\ UNCHANGED vars

Next ==
  \/ \E c \in Client : ClientSteps(c) \/ SpuriousWakeUp(c)
  \/ ExecutorSteps
  \/ Finished

Spec == Init /\ [][Next]_vars

\* Threads are scheduled, and Notify obtains a mutex that is free again and again
\* (a client may wake up spuriously and take it for a moment as often as it likes).
FairSpec ==
  /\ Spec
  /\ \A c \in Client : WF_vars(ClientSteps(c))
  /\ WF_vars(ExecutorSteps) /\ SF_vars(NotifyLock)

-----------------------------------------------------------------------------
TypeOK ==
  /\ is_finished \in [Request -> BOOLEAN]
  /\ mutex \in [Request -> Client \cup {Nobody, "Executor"}]
  /\ cache \in [Request -> Answer]
  /\ result \in Answer
  /\ wait \in [Client -> {"Ready", "Fast", "Lock", "Test", "Sleep", "Asleep",
                          "PullRecord", "PullError"}]
  /\ sent \in [Client -> Nat]
  /\ txn \in Client \cup {Nobody}
  /\ served \in IF txn = Nobody THEN {0} ELSE 1 .. sent[txn]
  /\ serve \in {"Take", "Serve", "SetFinished", "Unlock", "NotifyOne", "Decide"}
  /\ again \in BOOLEAN
  /\ answer \in [Request -> Answer \cup {Pending}]

Pulled(r) == \/ sent[r[1]] > r[2]
             \/ sent[r[1]] = r[2] /\ wait[r[1]] = "Ready"

Future == INSTANCE RequestFuture WITH
  Request   <- Inner,
  Revisable <- {r \in Inner : Type(r) = "Insert"},
  AnswersTo <- LAMBDA r : FirstAnswers(Type(r)),
  answer    <- [r \in Inner |-> answer[r]],
  seen      <- [r \in Inner |-> IF Pulled(r) THEN cache[r] ELSE Pending]

\* A client that waits for a request and then pulls its result sees an answer to
\* this request, complete and as it stands: never a field of an earlier or a later
\* request, or of another client's transaction, although all of them
\* share result_.  Only an Insert may be pulled as a success and turn into an
\* error afterwards.  The Commit or Abort at the end is left out: the task may go to
\* the next transaction before its client has looked.
PulledIsOwnAnswer == Future!FutureSpec

\* No wake-up is lost: a client that waits for its request comes back from Wait,
\* whether the notification comes before, between or after the steps of Wait, and
\* whether once or twice.
WaitReturns == \A c \in Client : wait[c] # "Ready" ~> wait[c] = "Ready"
=============================================================================
