-------------------- MODULE AllAtOnceTransactionExecutor --------------------
(***************************************************************************)
(* The executor for batches (all-at-once-transaction-executor.cpp).  Its   *)
(* owner adds the requests of whole transactions, next to each other, and  *)
(* calls Run, which launches transactions while tasks are free and polls   *)
(* the tasks until one finishes, over and over until all are done.  The    *)
(* members have no lock: nothing is added while Run runs.                  *)
(***************************************************************************)
EXTENDS TransactionTask

CONSTANTS
  Capacity,  \* of request_queue_pool_
  Driver     \* whether there is a datastore_driver

ASSUME AllAtOnceAssumption ==
  /\ Cardinality(Client) = 1
  /\ Capacity \in Nat
  /\ Driver \in BOOLEAN

Owner == CHOOSE c \in Client : TRUE

VARIABLES
  request_queue_pool,  \* up to push_index_
  pop_index,
  last_index,          \* LaunchRequests: the first task not looked at yet
  pc,                  \* where Run is: "stopped", "launch", "advance", "loop", or
                       \* how the process has ended
  poll,                \* Advance: the task that it polls
  has_finished_txn     \* Advance: a transaction has finished

queueVars == <<request_queue_pool, pop_index>>
runVars   == <<last_index, pc, poll, has_finished_txn>>
vars      == <<taskVars, queueVars, runVars>>

push_index == Len(request_queue_pool)

Init ==
  /\ TaskInit
  /\ request_queue_pool = <<>>
  /\ pop_index = 0
  /\ last_index = 1
  /\ pc = "stopped"
  /\ poll = 1
  /\ has_finished_txn = FALSE

-----------------------------------------------------------------------------
\* Nothing compares push_index_ with the capacity.
AddRequest ==
  /\ pc = "stopped"
  /\ push_index < Len(Script[Owner])
  /\ request_queue_pool' = Append(request_queue_pool, <<Owner, push_index + 1>>)
  /\ pc' = IF push_index < Capacity THEN pc ELSE "write past the pool"
  /\ UNCHANGED <<taskVars, pop_index, last_index, poll, has_finished_txn>>

MustRun == pop_index # push_index \/ active_txn_number > 0

\* The owner's part: the last transaction is complete.
Run ==
  /\ pc = "stopped" /\ MustRun
  /\ Ends(request_queue_pool[push_index])
  /\ pc' = "launch"
  /\ UNCHANGED <<taskVars, queueVars, last_index, poll, has_finished_txn>>

-----------------------------------------------------------------------------
(* LaunchRequests, one transaction at a time.                              *)

\* Mutant: an Abort does not end a transaction.
StopsAtCommit(n, session) ==
  \/ n > push_index
  \/ SessionOf(request_queue_pool[n]) # session
  \/ Type(request_queue_pool[n]) = "Commit"

\* The inner loop does not go on after request n of the queue.
StopsAt(n, session) ==
  \/ n > push_index
  \/ SessionOf(request_queue_pool[n]) # session
  \/ Ends(request_queue_pool[n])

\* The last request that is read for a transaction that begins at b.
LastOf(b, session) ==
  CHOOSE n \in b + 1 .. push_index + 1 :
    StopsAt(n, session) /\ \A m \in b + 1 .. n - 1 : ~ StopsAt(m, session)

\* Why LaunchRequests does not survive the transaction from b to e, if it does not.
Crash(i, b, e, session) ==
  CASE Type(request_queue_pool[b]) # "Begin" -> "not a Begin"
    [] i = 0 -> "no empty txn task"
    [] e > push_index -> "null request"
    [] SessionOf(request_queue_pool[e]) # session -> "another session"
    [] OTHER -> pc

LaunchTransaction ==
  LET b == pop_index + 1
      s == SessionOf(request_queue_pool[b])
      i == FirstSlot({j \in Free : j >= last_index})
      e == LastOf(b, s)
  IN
  /\ pc = "launch" /\ pop_index < push_index
  /\ active_txn_number < concurrent_txn_count
  /\ pc' = Crash(i, b, e, s)
  /\ IF pc' # pc THEN UNCHANGED <<taskVars, pop_index, last_index>>
     ELSE /\ task' = [task EXCEPT ![i] =
                [ResetTask(task[i], s) EXCEPT !.queue = SubSeq(request_queue_pool, b, e)]]
          /\ active_txn_number' = active_txn_number + 1
          /\ last_index' = i + 1
          /\ pop_index' = e
          /\ UNCHANGED <<answered, commit_count, abort_count>>
  /\ UNCHANGED <<request_queue_pool, poll, has_finished_txn>>

\* Mutant: the next LaunchRequests goes on from where this one ends.
LaunchDoneKeepingIndex ==
  /\ pc = "launch"
  /\ pop_index = push_index \/ active_txn_number >= concurrent_txn_count
  /\ pc' = "advance"
  /\ has_finished_txn' = FALSE
  /\ UNCHANGED <<taskVars, queueVars, poll, last_index>>

\* last_index and has_finished_txn are local variables.
LaunchDone ==
  /\ pc = "launch"
  /\ pop_index = push_index \/ active_txn_number >= concurrent_txn_count
  /\ pc' = "advance"
  /\ last_index' = 1
  /\ has_finished_txn' = FALSE
  /\ UNCHANGED <<taskVars, queueVars, poll>>

-----------------------------------------------------------------------------
\* The switch of Advance; the client says whether ReadDataStore needs to read.
Served == [r \in Request |->
  CASE Type(r) \in {"Update", "Delete"} -> {"answered"}
    [] Type(r) = "ReadDataStore" -> IF Driver THEN {"called", "answered"} ELSE {"ignored"}
    [] OTHER -> {"called"}]

\* Mutant: only a commit ends the loop of Advance.
OneFinishedIfCommitted == commit_count' > commit_count

OneFinished == active_txn_number' < active_txn_number

\* One task is polled; Advance returns after a round in which one has finished.
Advance ==
  /\ pc = "advance"
  /\ AdvanceTask(poll, Served)
  /\ has_finished_txn' = (has_finished_txn \/ OneFinished)
  /\ poll' = IF poll = concurrent_txn_count THEN 1 ELSE poll + 1
  /\ pc' = IF poll = concurrent_txn_count /\ has_finished_txn' THEN "loop" ELSE pc
  /\ UNCHANGED <<queueVars, last_index>>

\* The exception leaves Advance and Run, and ends the service of all tasks.
AdvanceThrows ==
  /\ pc = "advance" /\ Throws(poll)
  /\ pc' = "recover"
  /\ UNCHANGED <<taskVars, queueVars, last_index, poll, has_finished_txn>>

Loop ==
  /\ pc = "loop"
  /\ pc' = IF MustRun THEN "launch" ELSE "stopped"
  /\ UNCHANGED <<taskVars, queueVars, last_index, poll, has_finished_txn>>

-----------------------------------------------------------------------------
Executor == Run \/ LaunchTransaction \/ LaunchDone \/ Advance \/ AdvanceThrows \/ Loop

StoreAnswers(i) == CallBack(i) /\ UNCHANGED <<queueVars, runVars>>

\* Nothing is left to do, or the process has ended.
Idle ==
  /\ pc \notin {"launch", "advance", "loop"}
  /\ pc = "stopped" => ~ MustRun /\ push_index = Len(Script[Owner])
  /\ UNCHANGED vars

Next == AddRequest \/ (\E i \in Slot : StoreAnswers(i)) \/ Executor \/ Idle

Spec == Init /\ [][Next]_vars

\* The owner completes the transaction it is adding and calls Run, Run runs, and
\* the store answers every call.
FairSpec ==
  /\ Spec
  /\ WF_vars(AddRequest) /\ WF_vars(Executor)
  /\ \A i \in Slot : WF_vars(StoreAnswers(i))

-----------------------------------------------------------------------------
TypeOK ==
  /\ TaskTypeOK
  /\ request_queue_pool \in Seq(Request)
  /\ pop_index \in 0 .. push_index
  /\ last_index \in 1 .. concurrent_txn_count + 1
  /\ pc \in {"stopped", "launch", "advance", "loop", "recover", "write past the pool",
             "not a Begin", "no empty txn task", "null request", "another session"}
  /\ poll \in Slot
  /\ has_finished_txn \in BOOLEAN

\* What the owner is to add: whole transactions, each in one session and next to each
\* other, but for the last one, which it may not have completed.
WholeTransactions ==
  \A r \in Request :
    LET before == <<r[1], r[2] - 1>> IN
    /\ Type(r) = "Begin" <=> r[2] = 1 \/ Ends(before)
    /\ Type(r) # "Begin" => SessionOf(r) = SessionOf(before)

\* Whole transactions that fit into the pool never make an assertion of
\* LaunchRequests fail, never let it throw or read past the last request, however
\* the tasks become free.
NeverCrashes == pc \in {"stopped", "launch", "advance", "loop", "recover"}

\* When Run has returned, every transaction added before it has been served to its
\* end and counted once by Statistics: every one of its requests is answered, and
\* no task is left in use.
StoppedServedAll ==
  pc = "stopped" /\ pop_index > 0 =>
    /\ \A n \in 1 .. pop_index : request_queue_pool[n] \in answered
    /\ commit_count + abort_count =
         Cardinality({n \in 1 .. pop_index : Ends(request_queue_pool[n])})
    /\ Free = Slot

\* Every request that is added is answered in the end, although Advance does not
\* return before some transaction finishes and all others wait for it, unless an
\* update of the transaction table or a post-processing fails.
BatchServed ==
  \A r \in Request : r[2] <= push_index ~> (r \in answered \/ pc = "recover")
=============================================================================
