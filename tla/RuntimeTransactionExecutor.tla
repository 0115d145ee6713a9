--------------------- MODULE RuntimeTransactionExecutor ---------------------
(***************************************************************************)
(* The executor that serves clients while they run                         *)
(* (runtime-transaction-executor.cpp).  Client threads write requests into *)
(* a bounded queue; the executor's thread moves them to the tasks of their *)
(* sessions (LaunchRequests) and polls the tasks (Advance), until the queue*)
(* is empty and no task is in use (Run); its owner calls Run again later.  *)
(***************************************************************************)
EXTENDS TransactionTask

CONSTANTS
  Capacity,  \* of request_queue_pool_
  Waits      \* the clients that wait for each answer before their next request

ASSUME RuntimeAssumption == Capacity \in Nat \ {0} /\ Waits \subseteq Client

VARIABLES
  request_queue_pool,
  current_request,  \* a Begin that no task could take, or NoRequest
  sent,             \* sent[c]: how many requests of its script c has made
  dropped,          \* the requests that the full queue refused
  pc,               \* where Run is: "stopped", "launch", "advance", "loop", or
                    \* the exception that has left it
  poll              \* the task that Advance polls

queueVars  == <<request_queue_pool, current_request>>
clientVars == <<sent, dropped>>
runVars    == <<pc, poll>>
vars == <<taskVars, queueVars, clientVars, runVars>>

Init ==
  /\ TaskInit
  /\ request_queue_pool = <<>>
  /\ current_request = NoRequest
  /\ sent = [c \in Client |-> 0]
  /\ dropped = {}
  /\ pc = "stopped"
  /\ poll = 1

-----------------------------------------------------------------------------
\* MPMCQueue::write gives up when the queue is full; nobody looks at its result.
HasRoom == Len(request_queue_pool) < Capacity

\* A client has more to ask, and has the last answer if it waits for it.
CanAsk(c) ==
  /\ sent[c] < Len(Script[c])
  /\ c \in Waits /\ sent[c] > 0 => <<c, sent[c]>> \in answered

AddRequest(c) ==
  LET r == <<c, sent[c] + 1>> IN
  /\ CanAsk(c)
  /\ sent' = [sent EXCEPT ![c] = @ + 1]
  /\ \/ /\ HasRoom
        /\ request_queue_pool' = Append(request_queue_pool, r)
        /\ UNCHANGED dropped
     \/ /\ ~ HasRoom
        /\ dropped' = dropped \cup {r}
        /\ UNCHANGED request_queue_pool
  /\ UNCHANGED <<taskVars, current_request, runVars>>

\* Mutant: Run goes by the queue alone.
MustRunOnQueue == request_queue_pool # <<>>

\* Run's condition; IsFinished is its negation.
MustRun == request_queue_pool # <<>> \/ active_txn_number > 0

Run ==
  /\ pc = "stopped" /\ MustRun
  /\ pc' = "launch"
  /\ UNCHANGED <<taskVars, queueVars, clientVars, poll>>

-----------------------------------------------------------------------------
(* LaunchRequests, one request at a time.                                  *)

\* The request that was held back, or the next one of the queue.
Pending == current_request # NoRequest \/ request_queue_pool # <<>>

NextRequest ==
  IF current_request # NoRequest THEN current_request ELSE Head(request_queue_pool)

QueueAfter ==
  IF current_request # NoRequest THEN request_queue_pool ELSE Tail(request_queue_pool)

\* The request goes to the task in slot i, as t; an exception if there is no slot.
Launch(i, t, exception) ==
  /\ task' = [j \in Slot |-> IF j = i THEN PushRequest(t, NextRequest) ELSE task[j]]
  /\ request_queue_pool' = QueueAfter
  /\ current_request' = IF i = 0 THEN NextRequest ELSE NoRequest
  /\ pc' = IF i = 0 THEN exception ELSE pc
  /\ UNCHANGED <<answered, commit_count, abort_count, clientVars, poll>>

LaunchBegin ==
  LET i == FirstSlot(Free)
      s == SessionOf(NextRequest)
  IN
  /\ pc = "launch" /\ Pending /\ Type(NextRequest) = "Begin"
  /\ active_txn_number < concurrent_txn_count
  /\ active_txn_number' = active_txn_number + (IF i = 0 THEN 0 ELSE 1)
  /\ Launch(i, IF i = 0 THEN NewTask ELSE ResetTask(task[i], s), "no empty txn task")

HoldBegin ==
  /\ pc = "launch" /\ Pending /\ Type(NextRequest) = "Begin"
  /\ active_txn_number >= concurrent_txn_count
  /\ current_request' = NextRequest
  /\ request_queue_pool' = QueueAfter
  /\ pc' = "advance"
  /\ UNCHANGED <<taskVars, clientVars, poll>>

LaunchOther ==
  LET s == SessionOf(NextRequest)
      i == FirstSlot({j \in Slot : task[j].session_id = s})
  IN
  /\ pc = "launch" /\ Pending /\ Type(NextRequest) # "Begin"
  /\ Launch(i, IF i = 0 THEN NewTask ELSE task[i], "no session task")
  /\ UNCHANGED active_txn_number

LaunchDone ==
  /\ pc = "launch" /\ ~ Pending
  /\ pc' = "advance"
  /\ UNCHANGED <<taskVars, queueVars, clientVars, poll>>

-----------------------------------------------------------------------------
\* The switch of Advance: ReadDataStore has no case.
Served == [r \in Request |->
  CASE Type(r) \in {"Update", "Delete"} -> {"answered"}
    [] Type(r) = "ReadDataStore" -> {"ignored"}
    [] OTHER -> {"called"}]

Advance ==
  /\ pc = "advance"
  /\ AdvanceTask(poll, Served)
  /\ pc' = IF poll = concurrent_txn_count THEN "loop" ELSE pc
  /\ poll' = IF poll = concurrent_txn_count THEN 1 ELSE poll + 1
  /\ UNCHANGED <<queueVars, clientVars>>

\* The exception leaves Advance and Run, and ends the service of all tasks.
AdvanceThrows ==
  /\ pc = "advance" /\ Throws(poll)
  /\ pc' = "recover"
  /\ UNCHANGED <<taskVars, queueVars, clientVars, poll>>

Loop ==
  /\ pc = "loop"
  /\ pc' = IF MustRun THEN "launch" ELSE "stopped"
  /\ UNCHANGED <<taskVars, queueVars, clientVars, poll>>

-----------------------------------------------------------------------------
Executor ==
  \/ Run \/ LaunchBegin \/ HoldBegin \/ LaunchOther \/ LaunchDone
  \/ Advance \/ AdvanceThrows \/ Loop

StoreAnswers(i) == CallBack(i) /\ UNCHANGED <<queueVars, clientVars, runVars>>

\* Nothing is left to do, or the executor's thread has ended.
Idle ==
  /\ pc \notin {"launch", "advance", "loop"}
  /\ pc = "stopped" => ~ MustRun
  /\ \A c \in Client : ~ CanAsk(c)
  /\ UNCHANGED vars

Next ==
  \/ \E c \in Client : AddRequest(c)
  \/ \E i \in Slot : StoreAnswers(i)
  \/ Executor
  \/ Idle

Spec == Init /\ [][Next]_vars

\* The owner keeps calling Run, the store answers every call, and a client that
\* does not wait finishes what it has begun; one that waits may stop.
FairSpec ==
  /\ Spec
  /\ WF_vars(Executor)
  /\ \A i \in Slot : WF_vars(StoreAnswers(i))
  /\ \A c \in Client \ Waits : WF_vars(AddRequest(c))

-----------------------------------------------------------------------------
TypeOK ==
  /\ TaskTypeOK
  /\ request_queue_pool \in Seq(Request)
  /\ Len(request_queue_pool) <= Capacity
  /\ current_request \in Request \cup {NoRequest}
  /\ sent \in [Client -> Nat]
  /\ dropped \subseteq Request
  /\ pc \in {"stopped", "launch", "advance", "loop", "recover", "no empty txn task",
             "no session task"}
  /\ poll \in Slot

Sent(r) == r[2] <= sent[r[1]]

\* What a session is for: the requests of one transaction of one client, next to
\* each other in its script; only the first is a Begin, only the last a Commit or
\* an Abort.  Session 0 is that of a task that has had none.
OneTransactionPerSession ==
  \A r \in Request :
    /\ SessionOf(r) # 0
    /\ Type(r) # "Begin" => r[2] > 1 /\ SessionOf(<<r[1], r[2] - 1>>) = SessionOf(r)
    /\ \A q \in Request :
         SessionOf(q) = SessionOf(r) =>
           q[1] = r[1] /\ (q[2] < r[2] => ~ Ends(q) /\ Type(r) # "Begin")

\* The full queue has refused no request but those of clients that wait, which
\* notice: they get no answer and ask for nothing more.
Intact == \A r \in dropped : r[1] \in Waits

\* Unless the full queue has torn a hole into one, the transactions in flight are
\* kept apart: requests that clients of different sessions write into the queue in
\* any order, and adjacent transactions of one client, end up in tasks of their own.
TransactionsKeptApart == Intact => OneTransactionPerTask

\* The two exceptions of LaunchRequests are never thrown to clients that begin
\* their transactions: a task is free whenever the counter says so, and a
\* session that has begun finds a task.
NeverThrows == Intact => pc \notin {"no empty txn task", "no session task"}

\* When Run has returned and IsFinished holds, every request that the queue took
\* has been answered, except for a Begin that LaunchRequests held back while all
\* tasks were in use: Run and IsFinished do not know of it, and it waits until
\* someone makes another request.  ReadDataStore is never answered.
StoppedOwesOnlyHeldBegin ==
  pc = "stopped" /\ ~ MustRun =>
    \A r \in Request :
      Sent(r) => \/ r \in answered \cup dropped
                 \/ r = current_request /\ Type(r) = "Begin"
                 \/ Type(r) = "ReadDataStore"

\* Every request is answered in the end, the ones behind a Begin that had to be held
\* back and behind a ReadDataStore that was ignored too, unless the full queue
\* has refused a request, an update of the transaction table or a post-processing
\* fails and takes the executor with it, or Run returns for good while a
\* Begin is held back.
EveryRequestAnswered ==
  \A r \in Request :
    Type(r) # "ReadDataStore" =>
      (Sent(r) ~> \/ r \in answered
                  \/ dropped # {}
                  \/ pc = "recover"
                  \/ pc = "stopped" /\ ~ MustRun /\ r = current_request)
=============================================================================
