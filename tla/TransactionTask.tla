--------------------------- MODULE TransactionTask ---------------------------
(***************************************************************************)
(* The task slots that both executors share (transaction-task.h,           *)
(* transaction-request.cpp) and the body of Advance, which polls one task: *)
(* MoveForward, then the next request if the execution is idle, then the   *)
(* release of a task whose transaction has finished.  The execution in a   *)
(* task is seen as in TransactionLifecycle.                                *)
(***************************************************************************)
EXTENDS Integers, Sequences, FiniteSets

CONSTANTS
  concurrent_txn_count,  \* the number of tasks
  Client,                \* the threads that call AddRequest
  Script,                \* Script[c]: what c asks for, in this order
  NoRequest              \* a null pointer to a request

OperationType == {"Begin", "Insert", "Update", "Upsert", "Delete", "Read",
                  "ReadOutside", "ReadDataStore", "Commit", "Abort"}

Slot == 1 .. concurrent_txn_count

\* A request is named by its client and its place in the client's script.
Request == UNION {{c} \X DOMAIN Script[c] : c \in Client}

ASSUME TransactionTaskAssumption ==
  /\ concurrent_txn_count \in Nat \ {0}
  /\ Script \in [Client -> Seq([session_id : Nat, operation_type : OperationType])]
  /\ NoRequest \notin Request

Type(r) == Script[r[1]][r[2]].operation_type

SessionOf(r) == Script[r[1]][r[2]].session_id

Ends(r) == Type(r) \in {"Commit", "Abort"}

VARIABLES
  task,               \* active_txn_
  active_txn_number,
  answered,           \* the requests with is_finished_
  commit_count,
  abort_count

taskVars == <<task, active_txn_number, answered, commit_count, abort_count>>

NewTask ==
  [in_use |-> FALSE, session_id |-> 0,
   queue |-> <<>>, current |-> 0,              \* TransactionRequest
   phase |-> "Reset", request |-> NoRequest,   \* TransactionExecution
   called_back |-> FALSE, status |-> "Ongoing"]

TaskInit ==
  /\ task = [i \in Slot |-> NewTask]
  /\ active_txn_number = 0
  /\ answered = {}
  /\ commit_count = 0
  /\ abort_count = 0

Task ==
  [in_use : BOOLEAN, session_id : Nat, queue : Seq(Request), current : Nat,
   phase : {"Reset", "Idle", "Serving", "Ending", "Finished"},
   request : Request \cup {NoRequest}, called_back : BOOLEAN,
   status : {"Ongoing", "Committed", "Aborted"}]

TaskTypeOK ==
  /\ task \in [Slot -> Task]
  /\ active_txn_number \in 0 .. concurrent_txn_count
  /\ answered \subseteq Request
  /\ commit_count \in Nat /\ abort_count \in Nat

-----------------------------------------------------------------------------
(* TransactionTask and TransactionRequest.                                 *)

\* The first slot of S, 0 if there is none: the loops of LaunchRequests.
FirstSlot(S) == IF S = {} THEN 0 ELSE CHOOSE i \in S : \A j \in S : i <= j

Free == {i \in Slot : ~ task[i].in_use}

\* Mutant: the requests of the previous transaction stay in the queue.
ResetKeepingQueue(t, session) ==
  [NewTask EXCEPT !.in_use = TRUE, !.session_id = session,
                  !.queue = t.queue, !.current = t.current]

\* Mutant: the task stays with its previous session.
ResetKeepingSession(t, session) == [NewTask EXCEPT !.in_use = TRUE, !.session_id = t.session_id]

\* TransactionTask::Reset of task t: execution and requests start over.
ResetTask(t, session) == [NewTask EXCEPT !.in_use = TRUE, !.session_id = session]

\* Mutant: a finished task stays in use.
ReleaseNothing(t) == t

Release(t) == [t EXCEPT !.in_use = FALSE]

PushRequest(t, r) == [t EXCEPT !.queue = Append(@, r)]

HasRequest(t) == t.current < Len(t.queue)

CurrentRequest(t) == t.queue[t.current + 1]

-----------------------------------------------------------------------------
(* Advance, for one task.                                                  *)

\* The store answers the calls of the execution in task i.
CallBack(i) ==
  /\ task[i].in_use
  /\ task[i].phase \in {"Serving", "Ending"}
  /\ ~ task[i].called_back
  /\ task' = [task EXCEPT ![i].called_back = TRUE]
  /\ UNCHANGED <<active_txn_number, answered, commit_count, abort_count>>

\* Nothing to poll, or MoveForward finds no answer yet.
Passed(i) ==
  /\ task[i].in_use => task[i].phase \in {"Serving", "Ending"} /\ ~ task[i].called_back
  /\ UNCHANGED taskVars

\* MoveForward leaves an empty stack behind: the request it served is answered.
IsIdle(t) ==
  \/ t.phase \in {"Reset", "Idle"}
  \/ t.phase = "Serving" /\ t.called_back /\ ~ Ends(t.request)

Replied(t) == IF t.phase = "Serving" THEN {t.request} ELSE {}

\* Mutant: the outcome is not recorded in the execution.
DecidesKeepingStatus(i) ==
  LET t == task[i] IN
  /\ t.in_use /\ t.phase = "Serving" /\ t.called_back /\ Ends(t.request)
  /\ task' = [task EXCEPT ![i] = [t EXCEPT !.phase = "Ending", !.called_back = FALSE]]
  /\ answered' = answered \cup {t.request}
  /\ UNCHANGED <<active_txn_number, commit_count, abort_count>>

\* The decision: the client is told, post-processing begins.
Decides(i) ==
  LET t == task[i] IN
  /\ t.in_use /\ t.phase = "Serving" /\ t.called_back /\ Ends(t.request)
  /\ \E s \in {"Committed", "Aborted"} :
       /\ Type(t.request) = "Abort" => s = "Aborted"
       /\ task' = [task EXCEPT ![i] = [t EXCEPT !.phase = "Ending", !.status = s,
                                                !.called_back = FALSE]]
  /\ answered' = answered \cup {t.request}
  /\ UNCHANGED <<active_txn_number, commit_count, abort_count>>

\* TransactionExecution::IsFinished after MoveForward.
IsFinished(t) == t.phase = "Finished" \/ (t.phase = "Ending" /\ t.called_back)

\* Mutant: the number of active tasks is left as it is.
FinishesUncounted(i) ==
  LET t == task[i] IN
  /\ t.in_use /\ IsFinished(t)
  /\ task' = [task EXCEPT ![i] = Release([t EXCEPT !.phase = "Finished"])]
  /\ commit_count' = commit_count + (IF t.status = "Committed" THEN 1 ELSE 0)
  /\ abort_count' = abort_count + (IF t.status = "Aborted" THEN 1 ELSE 0)
  /\ UNCHANGED <<active_txn_number, answered>>

Finishes(i) ==
  LET t == task[i] IN
  /\ t.in_use /\ IsFinished(t)
  /\ task' = [task EXCEPT ![i] = Release([t EXCEPT !.phase = "Finished"])]
  /\ active_txn_number' = active_txn_number - 1
  /\ commit_count' = commit_count + (IF t.status = "Committed" THEN 1 ELSE 0)
  /\ abort_count' = abort_count + (IF t.status = "Aborted" THEN 1 ELSE 0)
  /\ UNCHANGED answered

\* An idle execution without a request, and one that is given its next request.
\* served[r]: how the executor's switch serves r; "called" ends in a call to the
\* store, "answered" does not, "ignored" neither calls nor notifies.
StaysIdle(i) ==
  LET t == task[i] IN
  /\ t.in_use /\ IsIdle(t) /\ ~ HasRequest(t)
  /\ task' = [task EXCEPT ![i] = [t EXCEPT !.phase = IF @ = "Reset" THEN @ ELSE "Idle",
                                           !.called_back = FALSE]]
  /\ answered' = answered \cup Replied(t)
  /\ UNCHANGED <<active_txn_number, commit_count, abort_count>>

TakesRequest(i, served) ==
  LET t == task[i]
      r == CurrentRequest(t)
  IN
  /\ t.in_use /\ IsIdle(t) /\ HasRequest(t)
  /\ \E how \in served[r] :
       /\ task' = [task EXCEPT ![i] = [t EXCEPT
            !.phase = IF how = "called" THEN "Serving" ELSE "Idle",
            !.request = r, !.current = @ + 1, !.called_back = FALSE]]
       /\ answered' = answered \cup Replied(t) \cup (IF how = "answered" THEN {r} ELSE {})
  /\ UNCHANGED <<active_txn_number, commit_count, abort_count>>

\* MoveForward throws (TransactionExecution::Recover): the update of the transaction
\* table or the post-processing has failed.  Nobody catches the exception.
Throws(i) ==
  LET t == task[i] IN
  /\ t.in_use /\ t.called_back
  /\ t.phase = "Ending" \/ (t.phase = "Serving" /\ Ends(t.request))

AdvanceTask(i, served) ==
  Passed(i) \/ Decides(i) \/ Finishes(i) \/ StaysIdle(i) \/ TakesRequest(i, served)

-----------------------------------------------------------------------------
(* What both executors promise of their tasks.                             *)

\* A task holds the requests of one transaction, from its Begin on, in the
\* order in which its client made them and without a gap: a request is never
\* given to a task that serves another transaction or has served an earlier one of
\* the same session.
OneTransactionPerTask ==
  \A i \in Slot : \A m \in DOMAIN task[i].queue :
    LET r == task[i].queue[m] IN
    IF m = 1 THEN Type(r) = "Begin"
    ELSE /\ Type(r) # "Begin"
         /\ r[1] = task[i].queue[m - 1][1]
         /\ r[2] = task[i].queue[m - 1][2] + 1

\* The counter by which Run decides whether to go on and LaunchRequests whether a
\* task is free agrees with the tasks.
ActiveTasksCounted == active_txn_number = Cardinality(Slot \ Free)

\* Statistics: every transaction whose client has been told the outcome is
\* counted once, as soon as its post-processing is over.
EveryOutcomeCounted ==
  commit_count + abort_count + Cardinality({i \in Slot : task[i].phase = "Ending"}) =
    Cardinality({r \in answered : Ends(r)})
==============================================================================
