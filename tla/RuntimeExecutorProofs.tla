------------------------ MODULE RuntimeExecutorProofs ------------------------
(***************************************************************************)
(* Proofs about RuntimeTransactionExecutor, for any number of clients and  *)
(* tasks, any capacity and any scripts: types and counters; and, for       *)
(* scripts that use a session for one transaction, that transactions are   *)
(* kept apart, that every request finds its task, and what is owed when    *)
(* Run has returned.                                                       *)
(***************************************************************************)
EXTENDS RuntimeTransactionExecutor, TransactionTaskProofs

\* The requests that LaunchRequests still has to move to a task, in their order.
Backlog ==
  IF current_request # NoRequest THEN <<current_request>> \o request_queue_pool
                                 ELSE request_queue_pool

InBacklog(r) == \E k \in DOMAIN Backlog : Backlog[k] = r

InQueue(r) == \E i \in Slot : \E m \in DOMAIN task[i].queue : task[i].queue[m] = r

\* A request is in one place: in the backlog, in the queue of a task, or refused.
RequestsOnce ==
  /\ \A j, k \in DOMAIN Backlog : Backlog[j] = Backlog[k] => j = k
  /\ \A r \in Request :
       /\ InBacklog(r) => Sent(r) /\ ~ InQueue(r) /\ r \notin answered
       /\ InQueue(r) => Sent(r)
       /\ r \in answered => Sent(r)
       /\ r \in dropped => Sent(r) /\ ~ InQueue(r) /\ r \notin answered /\ ~ InBacklog(r)

\* Requests of a client are launched in the order in which it makes them.
InOrder ==
  /\ \A j, k \in DOMAIN Backlog :
       j < k /\ Backlog[j][1] = Backlog[k][1] => Backlog[j][2] < Backlog[k][2]
  /\ \A i \in Slot : \A m \in DOMAIN task[i].queue : \A k \in DOMAIN Backlog :
       task[i].queue[m][1] = Backlog[k][1] => task[i].queue[m][2] < Backlog[k][2]

\* A task is the one of its session, until a Commit or Abort, with which it ends.
TaskOfSession ==
  \A i \in Slot :
    /\ task[i].session_id # 0 => task[i].queue # <<>>
    /\ task[i].in_use => task[i].queue # <<>>
    /\ \A m \in DOMAIN task[i].queue :
         /\ SessionOf(task[i].queue[m]) = task[i].session_id
         /\ Ends(task[i].queue[m]) => m = Len(task[i].queue)
         /\ m = 1 <=> Type(task[i].queue[m]) = "Begin"
    /\ ~ task[i].in_use /\ task[i].queue # <<>> =>
         /\ task[i].current = Len(task[i].queue)
         /\ Ends(task[i].queue[task[i].current])
    /\ \A j \in Slot : task[i].session_id = task[j].session_id => i = j \/ task[i].session_id = 0

LastIn(i, r) == task[i].in_use /\ task[i].queue # <<>> /\ task[i].queue[Len(task[i].queue)] = r

Successor(r) == <<r[1], r[2] + 1>>

\* The last request of a client to be launched is in its task, which still serves
\* it, unless it ends its transaction.
FrontierKept ==
  \A r \in Request :
    Sent(r) /\ (sent[r[1]] = r[2] \/ InBacklog(Successor(r))) =>
      \/ InBacklog(r) \/ r \in dropped \/ Ends(r)
      \/ \E i \in Slot : LastIn(i, r)

\* A client that waits makes no request after one that was refused.
RefusedIsLast == \A r \in dropped : r[1] \in Waits => sent[r[1]] = r[2]

\* A request that has been made is refused, about to be launched, answered,
\* a ReadDataStore, or in the queue of a task that has not come to it.
AccountedFor(r) ==
  \/ r \in dropped \/ InBacklog(r) \/ r \in answered
  \/ Type(r) = "ReadDataStore"
  \/ \E i \in Slot : \E m \in DOMAIN task[i].queue :
       task[i].queue[m] = r /\ Unserved(task[i], m)

Accounted == \A r \in Request : Sent(r) => AccountedFor(r)

HeldIsBegin ==
  current_request # NoRequest => Type(current_request) = "Begin" \/ pc = "no session task"

PcOK == pc # "no empty txn task" /\ (Intact => pc # "no session task")

-----------------------------------------------------------------------------
(* The steps of the executor, by what they do to requests.                 *)

LEMMA BacklogType ==
  ASSUME TypeOK
  PROVE  /\ Backlog \in Seq(Request)
         /\ Pending <=> Backlog # <<>>
         /\ Pending => NextRequest = Backlog[1] /\ NextRequest \in Request
<1>1. request_queue_pool \in Seq(Request) /\ current_request \in Request \cup {NoRequest}
  BY DEF TypeOK
<1>2. CASE current_request # NoRequest
  BY <1>1, <1>2 DEF Backlog, Pending, NextRequest
<1>3. CASE current_request = NoRequest
  BY <1>1, <1>3 DEF Backlog, Pending, NextRequest
<1> QED BY <1>2, <1>3

LEMMA BacklogKept ==
  ASSUME TypeOK, Pending, current_request' = NextRequest, request_queue_pool' = QueueAfter
  PROVE  Backlog' = Backlog /\ Len(QueueAfter) <= Capacity /\ QueueAfter \in Seq(Request)
<1>1. request_queue_pool \in Seq(Request) /\ Len(request_queue_pool) <= Capacity /\ Capacity \in Nat
  BY RuntimeAssumption DEF TypeOK
<1>2. CASE current_request # NoRequest
  BY <1>1, <1>2 DEF Backlog, NextRequest, QueueAfter
<1>3. CASE current_request = NoRequest
  <2>1. request_queue_pool # <<>>
    BY <1>3 DEF Pending
  <2>2. Head(request_queue_pool) # NoRequest
    BY <1>1, <2>1, TransactionTaskAssumption
  <2>3. request_queue_pool = <<Head(request_queue_pool)>> \o Tail(request_queue_pool)
    BY <1>1, <2>1
  <2> QED BY <1>1, <1>3, <2>1, <2>2, <2>3 DEF Backlog, NextRequest, QueueAfter
<1> QED BY <1>2, <1>3

LEMMA BacklogTaken ==
  ASSUME TypeOK, Pending, current_request' = NoRequest, request_queue_pool' = QueueAfter
  PROVE  Backlog' = Tail(Backlog) /\ Len(QueueAfter) <= Capacity /\ QueueAfter \in Seq(Request)
<1>1. request_queue_pool \in Seq(Request) /\ Len(request_queue_pool) <= Capacity /\ Capacity \in Nat
  BY RuntimeAssumption DEF TypeOK
<1>2. CASE current_request # NoRequest
  <2>1. Tail(<<current_request>> \o request_queue_pool) = request_queue_pool
    BY <1>1
  <2> QED BY <1>1, <1>2, <2>1 DEF Backlog, QueueAfter
<1>3. CASE current_request = NoRequest
  BY <1>1, <1>3 DEF Backlog, QueueAfter, Pending
<1> QED BY <1>2, <1>3

LEMMA BacklogGrows ==
  ASSUME TypeOK, NEW r \in Request, request_queue_pool' = Append(request_queue_pool, r),
         current_request' = current_request
  PROVE  Backlog' = Append(Backlog, r)
<1>1. request_queue_pool \in Seq(Request) /\ current_request \in Request \cup {NoRequest}
  BY DEF TypeOK
<1>2. CASE current_request # NoRequest
  <2>1. <<current_request>> \o Append(request_queue_pool, r)
          = Append(<<current_request>> \o request_queue_pool, r)
    BY <1>1, <1>2
  <2> QED BY <1>2, <2>1 DEF Backlog
<1>3. CASE current_request = NoRequest
  BY <1>3 DEF Backlog
<1> QED BY <1>2, <1>3

\* A Begin goes to a free task, another request to the task of its session.
Begins(i) ==
  /\ Backlog # <<>> /\ Type(Backlog[1]) = "Begin" /\ ~ task[i].in_use
  /\ task' = [task EXCEPT ![i] = PushRequest(ResetTask(task[i], SessionOf(Backlog[1])), Backlog[1])]
  /\ active_txn_number < concurrent_txn_count
  /\ active_txn_number' = active_txn_number + 1

Joins(i) ==
  /\ Backlog # <<>> /\ Type(Backlog[1]) # "Begin" /\ task[i].session_id = SessionOf(Backlog[1])
  /\ task' = [task EXCEPT ![i] = PushRequest(task[i], Backlog[1])]
  /\ UNCHANGED active_txn_number

Launches ==
  /\ \E i \in Slot : Begins(i) \/ Joins(i)
  /\ Backlog' = Tail(Backlog)
  /\ current_request' = NoRequest
  /\ request_queue_pool' \in Seq(Request) /\ Len(request_queue_pool') <= Capacity
  /\ UNCHANGED <<answered, commit_count, abort_count, clientVars, runVars>>

Polls ==
  /\ \E i \in Slot : AdvanceTask(i, Served) \/ CallBack(i)
  /\ UNCHANGED <<queueVars, clientVars>>

\* No request moves.  An exception leaves LaunchRequests if there is no task for
\* the session of the next one.
Quiet ==
  /\ Backlog' = Backlog
  /\ current_request' \in Request \cup {NoRequest}
  /\ request_queue_pool' \in Seq(Request) /\ Len(request_queue_pool') <= Capacity
  /\ UNCHANGED <<taskVars, clientVars>>

NoTaskForSession ==
  /\ Backlog # <<>> /\ Type(Backlog[1]) # "Begin"
  /\ \A i \in Slot : task[i].session_id # SessionOf(Backlog[1])

LEMMA LaunchMoves ==
  ASSUME TypeOK, Pending, NEW i \in Slot, NEW t, NEW e, Launch(i, t, e)
  PROVE  /\ task' = [task EXCEPT ![i] = PushRequest(t, Backlog[1])]
         /\ Backlog' = Tail(Backlog)
         /\ current_request' = NoRequest
         /\ request_queue_pool' \in Seq(Request) /\ Len(request_queue_pool') <= Capacity
         /\ UNCHANGED <<answered, commit_count, abort_count, clientVars, runVars>>
<1>1. i # 0
  BY TransactionTaskAssumption DEF Slot
<1>2. task \in [Slot -> Task] /\ NextRequest = Backlog[1]
  BY BacklogType DEF TypeOK, TaskTypeOK
<1>3. task' = [task EXCEPT ![i] = PushRequest(t, NextRequest)]
  BY <1>2 DEF Launch
<1>4. current_request' = NoRequest /\ request_queue_pool' = QueueAfter /\ pc' = pc
  BY <1>1 DEF Launch
<1>5. UNCHANGED <<answered, commit_count, abort_count, clientVars, poll>>
  BY DEF Launch
<1> QED BY <1>2, <1>3, <1>4, <1>5, BacklogTaken DEF runVars

LEMMA LaunchFails ==
  ASSUME TypeOK, Pending, NEW t, NEW e, Launch(0, t, e)
  PROVE  /\ task' = task /\ Backlog' = Backlog /\ pc' = e
         /\ current_request' \in Request \cup {NoRequest}
         /\ request_queue_pool' \in Seq(Request) /\ Len(request_queue_pool') <= Capacity
         /\ UNCHANGED <<answered, commit_count, abort_count, clientVars, poll>>
<1>1. 0 \notin Slot
  BY TransactionTaskAssumption DEF Slot
<1>2. task \in [Slot -> Task] /\ NextRequest \in Request
  BY BacklogType DEF TypeOK, TaskTypeOK
<1>3. task' = task
  BY <1>1, <1>2 DEF Launch
<1>4. current_request' = NextRequest /\ request_queue_pool' = QueueAfter /\ pc' = e
  BY DEF Launch
<1> QED BY <1>2, <1>3, <1>4, BacklogKept DEF Launch

\* A task is free whenever the counter says so.
LEMMA FreeTask ==
  ASSUME TypeOK, ActiveTasksCounted, active_txn_number < concurrent_txn_count
  PROVE  FirstSlot(Free) \in Free
<1>1. Free # {}
  <2> SUFFICES ASSUME Free = {} PROVE FALSE
    OBVIOUS
  <2>1. active_txn_number = Cardinality(Slot)
    BY DEF ActiveTasksCounted
  <2>2. Cardinality(Slot) = concurrent_txn_count
    BY FS_Interval, TransactionTaskAssumption DEF Slot
  <2> QED BY <2>1, <2>2, TransactionTaskAssumption
<1>2. Free \subseteq Slot
  BY DEF Free
<1> QED BY <1>1, <1>2, FirstSlotFound

LEMMA LaunchBeginMoves ==
  ASSUME TypeOK, ActiveTasksCounted, LaunchBegin
  PROVE  Launches /\ pc = "launch"
<1> DEFINE i == FirstSlot(Free)
<1>1. i \in Slot /\ ~ task[i].in_use
  BY FreeTask DEF LaunchBegin, Free
<1>2. i # 0
  BY <1>1, TransactionTaskAssumption DEF Slot
<1>3. /\ Pending /\ pc = "launch" /\ Type(NextRequest) = "Begin"
      /\ active_txn_number < concurrent_txn_count
      /\ active_txn_number' = active_txn_number + 1
      /\ Launch(i, ResetTask(task[i], SessionOf(NextRequest)), "no empty txn task")
  BY <1>2 DEF LaunchBegin
<1> HIDE DEF i
<1> PICK j \in Slot : j = i
  BY <1>1
<1> PICK t : t = ResetTask(task[i], SessionOf(NextRequest))
  OBVIOUS
<1>5. NextRequest = Backlog[1] /\ Backlog # <<>>
  BY <1>3, BacklogType
<1>6. /\ task' = [task EXCEPT ![j] = PushRequest(t, Backlog[1])]
      /\ Backlog' = Tail(Backlog)
      /\ current_request' = NoRequest
      /\ request_queue_pool' \in Seq(Request) /\ Len(request_queue_pool') <= Capacity
      /\ UNCHANGED <<answered, commit_count, abort_count, clientVars, runVars>>
  BY <1>3, LaunchMoves
<1>7. Begins(j)
  BY <1>1, <1>3, <1>5, <1>6 DEF Begins
<1> QED BY <1>3, <1>6, <1>7 DEF Launches


LEMMA LaunchOtherMoves ==
  ASSUME TypeOK, LaunchOther
  PROVE  /\ pc = "launch"
         /\ \/ Launches
            \/ Quiet /\ NoTaskForSession /\ pc' = "no session task" /\ poll' = poll
<1> DEFINE S == {j \in Slot : task[j].session_id = SessionOf(NextRequest)}
<1> DEFINE i == FirstSlot(S)
<1>1. /\ Pending /\ pc = "launch" /\ Type(NextRequest) # "Begin"
      /\ Launch(i, IF i = 0 THEN NewTask ELSE task[i], "no session task")
      /\ UNCHANGED active_txn_number
  BY DEF LaunchOther
<1>2. NextRequest = Backlog[1] /\ Backlog # <<>>
  BY <1>1, BacklogType
<1>3. (S # {} => i \in S) /\ (S = {} <=> i = 0)
  <2> HIDE DEF S
  <2>1. S \subseteq Slot
    BY DEF S
  <2> QED BY <2>1, FirstSlotFound
<1>4. CASE S # {}
  <2>1. i \in Slot /\ task[i].session_id = SessionOf(NextRequest) /\ i # 0
    BY <1>3, <1>4
  <2> HIDE DEF i
  <2> PICK j \in Slot : j = i
    BY <2>1
  <2> PICK t : t = task[i]
    OBVIOUS
  <2>2. Launch(j, t, "no session task")
    BY <1>1, <2>1
  <2>3. /\ task' = [task EXCEPT ![j] = PushRequest(t, Backlog[1])]
        /\ Backlog' = Tail(Backlog)
        /\ current_request' = NoRequest
        /\ request_queue_pool' \in Seq(Request) /\ Len(request_queue_pool') <= Capacity
        /\ UNCHANGED <<answered, commit_count, abort_count, clientVars, runVars>>
    BY <1>1, <2>2, LaunchMoves
  <2>4. Joins(j)
    BY <1>1, <1>2, <2>1, <2>3 DEF Joins
  <2> QED BY <1>1, <2>3, <2>4 DEF Launches
<1>5. CASE S = {}
  <2>1. i = 0 /\ Launch(0, NewTask, "no session task")
    BY <1>1, <1>3, <1>5
  <2>2. /\ task' = task /\ Backlog' = Backlog /\ pc' = "no session task"
        /\ current_request' \in Request \cup {NoRequest}
        /\ request_queue_pool' \in Seq(Request) /\ Len(request_queue_pool') <= Capacity
        /\ UNCHANGED <<answered, commit_count, abort_count, clientVars, poll>>
    BY <1>1, <2>1, LaunchFails
  <2>3. NoTaskForSession
    BY <1>1, <1>2, <1>5 DEF NoTaskForSession
  <2> QED BY <1>1, <2>2, <2>3 DEF Quiet, taskVars
<1> QED BY <1>4, <1>5

LEMMA HoldBeginQuiet ==
  ASSUME TypeOK, HoldBegin
  PROVE  /\ Quiet /\ pc' = "advance" /\ poll' = poll
         /\ Type(current_request') = "Begin"
<1>1. /\ Pending /\ Type(NextRequest) = "Begin" /\ current_request' = NextRequest
      /\ request_queue_pool' = QueueAfter
  BY DEF HoldBegin
<1>2. NextRequest \in Request
  BY <1>1, BacklogType
<1> QED BY <1>1, <1>2, BacklogKept DEF HoldBegin, Quiet

LEMMA QuietSteps ==
  ASSUME TypeOK, Run \/ LaunchDone \/ AdvanceThrows \/ Loop \/ Idle \/ UNCHANGED vars
  PROVE  /\ Quiet /\ UNCHANGED <<queueVars, poll>>
         /\ pc' \in {pc, "stopped", "launch", "advance", "recover"}
         /\ pc = "no session task" => pc' = pc
<1>1. /\ UNCHANGED <<taskVars, queueVars, clientVars, poll>>
      /\ pc' \in {pc, "stopped", "launch", "advance", "recover"}
      /\ pc = "no session task" => pc' = pc
  BY DEF Run, LaunchDone, AdvanceThrows, Loop, Idle, vars, runVars
<1>2. Backlog' = Backlog
  BY <1>1 DEF Backlog, queueVars
<1> QED BY <1>1, <1>2 DEF Quiet, queueVars, TypeOK

LEMMA PollSteps ==
  ASSUME TypeOK, Advance \/ \E i \in Slot : StoreAnswers(i)
  PROVE  /\ Polls /\ Backlog' = Backlog /\ poll' \in Slot /\ pc' \in {pc, "loop"}
         /\ pc = "no session task" => pc' = pc
<1>1. UNCHANGED queueVars => Backlog' = Backlog
  BY DEF queueVars, Backlog
<1>2. CASE Advance
  <2>0. poll \in Slot
    BY DEF TypeOK
  <2>1. (poll # concurrent_txn_count => poll + 1 \in Slot) /\ 1 \in Slot
    BY <2>0, TransactionTaskAssumption DEF Slot
  <2>2. poll' \in Slot /\ pc' \in {pc, "loop"} /\ pc = "advance"
    BY <1>2, <2>0, <2>1 DEF Advance
  <2>3. Polls /\ UNCHANGED queueVars
    BY <1>2, <2>0 DEF Advance, Polls
  <2> QED BY <1>1, <2>2, <2>3
<1>3. CASE \E i \in Slot : StoreAnswers(i)
  BY <1>1, <1>3 DEF StoreAnswers, Polls, runVars, TypeOK
<1> QED BY <1>2, <1>3

\* Every step makes a request, launches one, polls a task, or moves no request.
LEMMA Steps ==
  ASSUME TypeOK, ActiveTasksCounted, [Next]_vars
  PROVE  \/ \E c \in Client : AddRequest(c)
         \/ Launches /\ pc = "launch"
         \/ /\ Polls /\ Backlog' = Backlog /\ poll' \in Slot /\ pc' \in {pc, "loop"}
            /\ pc = "no session task" => pc' = pc
         \/ /\ Quiet /\ poll' = poll
            /\ \/ /\ UNCHANGED queueVars
                  /\ pc' \in {pc, "stopped", "launch", "advance", "recover"}
                  /\ pc = "no session task" => pc' = pc
               \/ pc' = "advance" /\ Type(current_request') = "Begin"
               \/ pc' = "no session task" /\ NoTaskForSession
<1>1. CASE LaunchBegin
  BY <1>1, LaunchBeginMoves
<1>2. CASE LaunchOther
  BY <1>2, LaunchOtherMoves
<1>3. CASE HoldBegin
  BY <1>3, HoldBeginQuiet
<1>4. CASE Run \/ LaunchDone \/ AdvanceThrows \/ Loop \/ Idle \/ UNCHANGED vars
  BY <1>4, QuietSteps
<1>5. CASE Advance \/ \E i \in Slot : StoreAnswers(i)
  BY <1>5, PollSteps
<1> QED BY <1>1, <1>2, <1>3, <1>4, <1>5 DEF Next, Executor

-----------------------------------------------------------------------------
(* Types, the counters, and that no request is served twice.               *)

BaseInv ==
  /\ TypeOK /\ TasksInv /\ RequestsOnce
  /\ ActiveTasksCounted /\ EveryOutcomeCounted

LEMMA SwitchServes == Serves(Served)
<1> SUFFICES ASSUME NEW r \in Request
             PROVE  /\ Served[r] \subseteq {"called", "answered", "ignored"}
                    /\ "answered" \in Served[r] => ~ Ends(r)
                    /\ "ignored" \in Served[r] => Type(r) = "ReadDataStore"
  BY DEF Serves
<1>1. CASE Type(r) \in {"Update", "Delete"}
  <2>1. Served[r] = {"answered"}
    BY <1>1 DEF Served
  <2> QED BY <1>1, <2>1 DEF Ends
<1>2. CASE Type(r) = "ReadDataStore"
  <2>1. Served[r] = {"ignored"}
    BY <1>2 DEF Served
  <2> QED BY <1>2, <2>1
<1>3. CASE Type(r) \notin {"Update", "Delete", "ReadDataStore"}
  <2>1. Served[r] = {"called"}
    BY <1>3 DEF Served
  <2> QED BY <2>1
<1> QED BY <1>1, <1>2, <1>3

\* Task t becomes u when request r is launched into it.
Launched(t, u, r) ==
  /\ u \in Task /\ Consistent(u)
  /\ u.phase = "Ending" <=> t.phase = "Ending"
  /\ u.in_use \/ ~ t.in_use
  /\ \E q \in {<<>>, t.queue} :
       /\ u.queue = Append(q, r)
       /\ \A m \in DOMAIN q : Unserved(u, m) <=> Unserved(t, m)
       /\ Unserved(u, Len(q) + 1)

LEMMA PushedTask ==
  ASSUME NEW t \in Task, NEW r \in Request
  PROVE  LET u == PushRequest(t, r) IN
         /\ u \in Task /\ u.queue = Append(t.queue, r)
         /\ u.in_use = t.in_use /\ u.session_id = t.session_id /\ u.current = t.current
         /\ u.phase = t.phase /\ u.request = t.request /\ u.status = t.status
<1> DEFINE q == Append(t.queue, r)
<1>1. q \in Seq(Request)
  BY DEF Task
<1> HIDE DEF q
<1> DEFINE u == [t EXCEPT !.queue = q]
<1>2. u \in Task
  BY <1>1, Zenon DEF Task
<1>3. /\ u.queue = q
      /\ u.in_use = t.in_use /\ u.session_id = t.session_id /\ u.current = t.current
      /\ u.phase = t.phase /\ u.request = t.request /\ u.status = t.status
  BY DEF Task
<1> QED BY <1>2, <1>3 DEF PushRequest, q

LEMMA BeginsLaunched ==
  ASSUME TypeOK, TasksInv, NEW i \in Slot, Begins(i)
  PROVE  \E u : /\ task' = [task EXCEPT ![i] = u] /\ Launched(task[i], u, Backlog[1])
                /\ u.in_use /\ u.queue = <<Backlog[1]>> /\ u.session_id = SessionOf(Backlog[1])
                /\ u.current = 0
<1> DEFINE r == Backlog[1]
<1> DEFINE t == ResetTask(task[i], SessionOf(r))
<1> DEFINE u == PushRequest(t, r)
<1>1. r \in Request
  BY BacklogType DEF Begins
<1>2. SessionOf(r) \in Nat
  BY <1>1, RequestParts
<1>3. task' = [task EXCEPT ![i] = u] /\ ~ task[i].in_use
  BY DEF Begins
<1>4. task[i].phase \in {"Reset", "Finished"}
  BY <1>3 DEF TasksInv, Consistent
<1> HIDE DEF r
<1>5. /\ t \in Task /\ t.queue = <<>> /\ t.in_use /\ t.session_id = SessionOf(r) /\ t.current = 0
      /\ t.phase = "Reset"
  BY <1>2, NewTasks
<1> HIDE DEF t
<1>6. /\ u \in Task /\ u.queue = <<r>> /\ u.in_use /\ u.session_id = SessionOf(r) /\ u.current = 0
      /\ u.phase = "Reset" /\ u.queue = Append(<<>>, r)
  BY <1>1, <1>5, PushedTask
<1> HIDE DEF u
<1>7. Consistent(u)
  BY <1>6 DEF Consistent
<1>8. Launched(task[i], u, r)
  BY <1>3, <1>4, <1>6, <1>7 DEF Launched, Unserved
<1> QED BY <1>3, <1>6, <1>8 DEF r

LEMMA JoinsLaunched ==
  ASSUME TypeOK, TasksInv, NEW i \in Slot, Joins(i)
  PROVE  \E u : /\ task' = [task EXCEPT ![i] = u] /\ Launched(task[i], u, Backlog[1])
                /\ u.in_use = task[i].in_use /\ u.queue = Append(task[i].queue, Backlog[1])
                /\ u.session_id = task[i].session_id /\ u.current = task[i].current
                /\ u.phase = task[i].phase
<1> DEFINE r == Backlog[1]
<1> DEFINE u == PushRequest(task[i], r)
<1>1. r \in Request
  BY BacklogType DEF Joins
<1>2. task[i] \in Task /\ Consistent(task[i])
  BY DEF TypeOK, TaskTypeOK, TasksInv
<1>3. task' = [task EXCEPT ![i] = u]
  BY DEF Joins
<1> HIDE DEF r
<1>4. /\ u \in Task /\ u.queue = Append(task[i].queue, r)
      /\ u.in_use = task[i].in_use /\ u.session_id = task[i].session_id
      /\ u.current = task[i].current /\ u.phase = task[i].phase
      /\ u.request = task[i].request /\ u.status = task[i].status
  BY <1>1, <1>2, PushedTask
<1> HIDE DEF u
<1>5. task[i].queue \in Seq(Request) /\ task[i].current \in Nat
  BY <1>2 DEF Task
<1>6. Consistent(u)
  BY <1>1, <1>2, <1>4, <1>5 DEF Consistent
<1>7. Unserved(u, Len(task[i].queue) + 1) /\ \A m \in DOMAIN task[i].queue : Unserved(u, m) <=> Unserved(task[i], m)
  BY <1>2, <1>4, <1>5 DEF Unserved, Consistent
<1>8. Launched(task[i], u, r)
  BY <1>4, <1>6, <1>7 DEF Launched
<1> QED BY <1>3, <1>4, <1>8 DEF r


LEMMA LaunchedSomewhere ==
  ASSUME TypeOK, TasksInv, Launches
  PROVE  \E i \in Slot : \E u :
           /\ task' = [task EXCEPT ![i] = u] /\ Launched(task[i], u, Backlog[1])
           /\ Backlog # <<>>
BY BeginsLaunched, JoinsLaunched DEF Launches, Begins, Joins

LEMMA TailOfBacklog ==
  ASSUME TypeOK, Backlog # <<>>, Backlog' = Tail(Backlog)
  PROVE  /\ Len(Backlog) \in Nat /\ 1 \in DOMAIN Backlog /\ Backlog[1] \in Request
         /\ DOMAIN Backlog = 1 .. Len(Backlog)
         /\ \A k \in DOMAIN Backlog' : k + 1 \in DOMAIN Backlog /\ Backlog'[k] = Backlog[k + 1] /\ k \in Nat
         /\ \A k \in DOMAIN Backlog : k # 1 => k - 1 \in DOMAIN Backlog' /\ Backlog'[k - 1] = Backlog[k]
<1>1. Backlog \in Seq(Request)
  BY BacklogType
<1> PICK b : b = Backlog
  OBVIOUS
<1> PICK c : c = Backlog'
  OBVIOUS
<1>2. b \in Seq(Request) /\ b # <<>> /\ c = Tail(b)
  BY <1>1
<1>3. /\ Len(b) \in Nat /\ 1 \in DOMAIN b /\ b[1] \in Request /\ DOMAIN b = 1 .. Len(b)
      /\ \A k \in DOMAIN c : k + 1 \in DOMAIN b /\ c[k] = b[k + 1] /\ k \in Nat
      /\ \A k \in DOMAIN b : k # 1 => k - 1 \in DOMAIN c /\ c[k - 1] = b[k]
  BY <1>2
<1> QED BY <1>3

LEMMA LaunchTakes ==
  ASSUME TypeOK, RequestsOnce, Backlog # <<>>, Backlog' = Tail(Backlog), NEW x
  PROVE  InBacklog(x)' <=> InBacklog(x) /\ x # Backlog[1]
<1>1. ASSUME NEW k \in DOMAIN Backlog', Backlog'[k] = x
      PROVE  InBacklog(x) /\ x # Backlog[1]
  <2>1. k + 1 \in DOMAIN Backlog /\ Backlog[k + 1] = x /\ k \in Nat /\ 1 \in DOMAIN Backlog /\ k + 1 # 1
    BY <1>1, TailOfBacklog
  <2>2. \A j, l \in DOMAIN Backlog : Backlog[j] = Backlog[l] => j = l
    BY DEF RequestsOnce
  <2> QED BY <2>1, <2>2 DEF InBacklog
<1>2. ASSUME NEW k \in DOMAIN Backlog, Backlog[k] = x, x # Backlog[1]
      PROVE  InBacklog(x)'
  <2>1. k # 1
    BY <1>2
  <2>2. k - 1 \in DOMAIN Backlog' /\ Backlog'[k - 1] = x
    BY <1>2, <2>1, TailOfBacklog
  <2> QED BY <2>2 DEF InBacklog
<1>3. InBacklog(x)' <=> \E k \in DOMAIN Backlog' : Backlog'[k] = x
  BY DEF InBacklog
<1> QED BY <1>1, <1>2, <1>3 DEF InBacklog

\* The queues after r is launched into slot i.
QueuesWith(i, u, r) ==
  /\ task'[i] = u /\ \A j \in Slot : j # i => task'[j] = task[j]
  /\ \A j \in Slot : \A m \in DOMAIN task'[j].queue :
       \/ /\ m \in DOMAIN task[j].queue /\ task'[j].queue[m] = task[j].queue[m]
          /\ Unserved(task'[j], m) <=> Unserved(task[j], m)
       \/ /\ j = i /\ m = Len(u.queue) /\ task'[j].queue[m] = r
          /\ Unserved(task'[j], m)

LEMMA LaunchQueues ==
  ASSUME TypeOK, NEW i \in Slot, NEW u, NEW r,
         task' = [task EXCEPT ![i] = u], Launched(task[i], u, r)
  PROVE  QueuesWith(i, u, r)
<1>1. task'[i] = u /\ \A j \in Slot : j # i => task'[j] = task[j]
  BY PolledElsewhere DEF TypeOK
<1>2. PICK q \in {<<>>, task[i].queue} :
        /\ u.queue = Append(q, r)
        /\ \A m \in DOMAIN q : Unserved(u, m) <=> Unserved(task[i], m)
        /\ Unserved(u, Len(q) + 1)
  BY DEF Launched
<1>3. task[i].queue \in Seq(Request)
  BY DEF TypeOK, TaskTypeOK, Task
<1>4. q \in Seq(Request) /\ \A m \in DOMAIN q : m \in DOMAIN task[i].queue /\ q[m] = task[i].queue[m]
  <2>1. CASE q = <<>>
    <3>1. DOMAIN q = {} /\ q \in Seq(Request)
      BY <2>1
    <3> QED BY <3>1
  <2>2. CASE q = task[i].queue
    BY <1>3, <2>2
  <2> QED BY <2>1, <2>2
<1>5. \A m \in DOMAIN u.queue :
        \/ m \in DOMAIN q /\ u.queue[m] = q[m]
        \/ m = Len(q) + 1 /\ m = Len(u.queue) /\ u.queue[m] = r
  BY <1>2, <1>4
<1> QED BY <1>1, <1>2, <1>4, <1>5 DEF QueuesWith

LEMMA LaunchTasksInv ==
  ASSUME TypeOK, TasksInv, RequestsOnce, Launches
  PROVE  TasksInv' /\ task' \in [Slot -> Task] /\ RequestsOnce'
<1>0. PICK i \in Slot : \E u : task' = [task EXCEPT ![i] = u] /\ Launched(task[i], u, Backlog[1])
                              /\ Backlog # <<>>
  BY LaunchedSomewhere
<1>1. PICK u : task' = [task EXCEPT ![i] = u] /\ Launched(task[i], u, Backlog[1]) /\ Backlog # <<>>
  BY <1>0
<1> PICK r : r = Backlog[1]
  OBVIOUS
<1>a. Launched(task[i], u, r) /\ task' = [task EXCEPT ![i] = u]
  BY <1>1
<1>2. /\ task'[i] = u /\ \A j \in Slot : j # i => task'[j] = task[j]
      /\ \A j \in Slot : \A m \in DOMAIN task'[j].queue :
           \/ /\ m \in DOMAIN task[j].queue /\ task'[j].queue[m] = task[j].queue[m]
              /\ Unserved(task'[j], m) <=> Unserved(task[j], m)
           \/ /\ j = i /\ m = Len(u.queue) /\ task'[j].queue[m] = r
              /\ Unserved(task'[j], m)
  <2>1. QueuesWith(i, u, r)
    BY <1>a, LaunchQueues
  <2> QED BY <2>1 DEF QueuesWith
<1>3. Backlog' = Tail(Backlog) /\ UNCHANGED <<answered, clientVars>>
  BY DEF Launches
<1>4. r \in Request /\ InBacklog(r) /\ ~ InQueue(r) /\ r \notin answered /\ Sent(r)
  BY <1>1, <1>3, TailOfBacklog DEF RequestsOnce, InBacklog
<1>5. task' \in [Slot -> Task]
  BY <1>1 DEF Launched, TypeOK, TaskTypeOK
<1>6. \A j \in Slot : Consistent(task[j])'
  <2> TAKE j \in Slot
  <2>1. CASE j = i
    BY <2>1, <1>1, <1>2 DEF Launched, Consistent
  <2>2. CASE j # i
    <3>1. Consistent(task[j]) /\ task'[j] = task[j]
      BY <2>2, <1>2 DEF TasksInv
    <3> QED BY <3>1 DEF Consistent
  <2> QED BY <2>1, <2>2
<1>7. OnceInQueues'
  <2> SUFFICES ASSUME NEW j \in Slot, NEW k \in Slot, NEW m \in DOMAIN task'[j].queue,
                      NEW n \in DOMAIN task'[k].queue, task'[j].queue[m] = task'[k].queue[n]
               PROVE  j = k /\ m = n
    BY DEF OnceInQueues
  <2>1. \/ m \in DOMAIN task[j].queue /\ task'[j].queue[m] = task[j].queue[m]
        \/ j = i /\ m = Len(u.queue) /\ task'[j].queue[m] = r
    BY <1>2
  <2>2. \/ n \in DOMAIN task[k].queue /\ task'[k].queue[n] = task[k].queue[n]
        \/ k = i /\ n = Len(u.queue) /\ task'[k].queue[n] = r
    BY <1>2
  <2> QED BY <1>4, <2>1, <2>2 DEF TasksInv, OnceInQueues, InQueue
<1>8. AnsweredInOrder'
  <2> SUFFICES ASSUME NEW j \in Slot, NEW m \in DOMAIN task'[j].queue
               PROVE  IF Unserved(task'[j], m) THEN task'[j].queue[m] \notin answered
                      ELSE task'[j].queue[m] \in answered \/ Type(task'[j].queue[m]) = "ReadDataStore"
    BY <1>3 DEF AnsweredInOrder, Unserved
  <2> QED BY <1>2, <1>4 DEF TasksInv, AnsweredInOrder
<1>9. IsFiniteSet(answered')
  BY <1>3 DEF TasksInv
<1>10. RequestsOnce'
  <2>1. \A j, k \in DOMAIN Backlog' : Backlog'[j] = Backlog'[k] => j = k
    <3> SUFFICES ASSUME NEW j \in DOMAIN Backlog', NEW k \in DOMAIN Backlog',
                        Backlog'[j] = Backlog'[k]
                 PROVE  j = k
      OBVIOUS
    <3>1. j + 1 \in DOMAIN Backlog /\ k + 1 \in DOMAIN Backlog /\ Backlog[j + 1] = Backlog[k + 1]
          /\ j \in Nat /\ k \in Nat
      BY <1>1, <1>3, TailOfBacklog
    <3> QED BY <3>1 DEF RequestsOnce
  <2>2. ASSUME NEW x \in Request
        PROVE  /\ InBacklog(x)' <=> InBacklog(x) /\ x # r
               /\ InQueue(x)' => InQueue(x) \/ x = r
               /\ Sent(x)' <=> Sent(x)
    <3>1. InBacklog(x)' <=> InBacklog(x) /\ x # r
      BY <1>1, <1>3, LaunchTakes
    <3>2. InQueue(x)' => InQueue(x) \/ x = r
      BY <1>2 DEF InQueue
    <3>3. Sent(x)' <=> Sent(x)
      BY <1>3 DEF Sent, clientVars
    <3> QED BY <3>1, <3>2, <3>3
  <2>3. dropped' = dropped /\ answered' = answered
    BY <1>3 DEF clientVars
  <2>4. \A x \in Request :
          /\ InBacklog(x)' => Sent(x)' /\ ~ InQueue(x)' /\ x \notin answered'
          /\ InQueue(x)' => Sent(x)'
          /\ x \in answered' => Sent(x)'
          /\ x \in dropped' => Sent(x)' /\ ~ InQueue(x)' /\ x \notin answered' /\ ~ InBacklog(x)'
    BY <1>4, <2>2, <2>3 DEF RequestsOnce
  <2> QED BY <2>1, <2>4 DEF RequestsOnce
<1> QED BY <1>5, <1>6, <1>7, <1>8, <1>9, <1>10 DEF TasksInv


\* A launch and the counters.
LEMMA LaunchCounts ==
  ASSUME TypeOK, TasksInv, Launches, ActiveTasksCounted, EveryOutcomeCounted
  PROVE  /\ ActiveTasksCounted' /\ EveryOutcomeCounted'
         /\ active_txn_number' \in 0 .. concurrent_txn_count
<1> DEFINE InUse == {j \in Slot : task[j].in_use}
<1> DEFINE Ending == {j \in Slot : task[j].phase = "Ending"}
<1>1. /\ Slot \ Free = InUse /\ (Slot \ Free)' = InUse'
      /\ IsFiniteSet(InUse) /\ InUse \subseteq Slot /\ InUse' \subseteq Slot
      /\ Cardinality(InUse) \in Nat
  <2>1. Slot \ Free = InUse /\ (Slot \ Free)' = InUse'
    BY DEF Free
  <2>2. InUse \subseteq Slot /\ InUse' \subseteq Slot
    OBVIOUS
  <2> HIDE DEF InUse
  <2> QED BY <2>1, <2>2, SlotsFinite
<1>2. active_txn_number = Cardinality(InUse)
  BY <1>1 DEF ActiveTasksCounted
<1>3. PICK i \in Slot : Begins(i) \/ Joins(i)
  BY DEF Launches
<1>4. UNCHANGED <<answered, commit_count, abort_count>>
  BY DEF Launches
<1>5. CASE Begins(i)
  <2>1. PICK u : task' = [task EXCEPT ![i] = u] /\ Launched(task[i], u, Backlog[1]) /\ u.in_use
    BY <1>5, BeginsLaunched
  <2>2. task'[i] = u /\ \A j \in Slot : j # i => task'[j] = task[j]
    BY <2>1, PolledElsewhere DEF TypeOK
  <2>3. /\ ~ task[i].in_use /\ active_txn_number' = active_txn_number + 1
        /\ active_txn_number < concurrent_txn_count
    BY <1>5 DEF Begins
  <2>4. InUse' = InUse \cup {i} /\ i \notin InUse
    BY <2>1, <2>2, <2>3
  <2>5. Cardinality(InUse \cup {i}) = Cardinality(InUse) + 1
    BY <1>1, <2>4, FS_AddElement
  <2>6. Ending' = Ending
    BY <2>1, <2>2 DEF Launched
  <2> HIDE DEF InUse, Ending
  <2>7. ActiveTasksCounted' /\ active_txn_number' \in 0 .. concurrent_txn_count
    <3>1. active_txn_number' = Cardinality(InUse')
      BY <1>1, <1>2, <2>3, <2>4, <2>5
    <3>2. active_txn_number' \in 0 .. concurrent_txn_count
      BY <1>1, <1>2, <2>3, TransactionTaskAssumption
    <3> QED BY <1>1, <3>1, <3>2 DEF ActiveTasksCounted
  <2>8. EveryOutcomeCounted'
    BY <1>4, <2>6 DEF EveryOutcomeCounted, Ending
  <2> QED BY <2>7, <2>8
<1>6. CASE Joins(i)
  <2>1. PICK u : task' = [task EXCEPT ![i] = u] /\ Launched(task[i], u, Backlog[1]) /\ u.in_use = task[i].in_use
    BY <1>6, JoinsLaunched
  <2>2. task'[i] = u /\ \A j \in Slot : j # i => task'[j] = task[j]
    BY <2>1, PolledElsewhere DEF TypeOK
  <2>3. InUse' = InUse /\ active_txn_number' = active_txn_number
    BY <1>6, <2>1, <2>2 DEF Joins
  <2>4. Ending' = Ending
    BY <2>1, <2>2 DEF Launched
  <2> HIDE DEF InUse, Ending
  <2>5. ActiveTasksCounted' /\ active_txn_number' \in 0 .. concurrent_txn_count
    BY <1>1, <1>2, <2>3 DEF ActiveTasksCounted, TypeOK, TaskTypeOK
  <2>6. EveryOutcomeCounted'
    BY <1>4, <2>4 DEF EveryOutcomeCounted, Ending
  <2> QED BY <2>5, <2>6
<1> QED BY <1>3, <1>5, <1>6

LEMMA LaunchBase ==
  ASSUME BaseInv, Launches
  PROVE  BaseInv'
<1>1. TasksInv' /\ task' \in [Slot -> Task] /\ RequestsOnce'
  BY LaunchTasksInv DEF BaseInv
<1>2. /\ ActiveTasksCounted' /\ EveryOutcomeCounted'
      /\ active_txn_number' \in 0 .. concurrent_txn_count
  BY LaunchCounts DEF BaseInv
<1>3. TypeOK'
  BY <1>1, <1>2 DEF BaseInv, Launches, TypeOK, TaskTypeOK, clientVars, runVars
<1> QED BY <1>1, <1>2, <1>3 DEF BaseInv

LEMMA AddRequestMakes ==
  ASSUME TypeOK, NEW c \in Client, AddRequest(c)
  PROVE  LET r == <<c, sent[c] + 1>> IN
         /\ r \in Request /\ ~ Sent(r)
         /\ sent' \in [Client -> Nat]
         /\ \A x \in Request : Sent(x)' <=> Sent(x) \/ x = r
         /\ \A d \in Client : sent'[d] = IF d = c THEN sent[c] + 1 ELSE sent[d]
         /\ current_request' = current_request
         /\ \/ /\ Backlog' = Append(Backlog, r) /\ dropped' = dropped
               /\ request_queue_pool' \in Seq(Request) /\ Len(request_queue_pool') <= Capacity
            \/ /\ Backlog' = Backlog /\ dropped' = dropped \cup {r}
               /\ request_queue_pool' = request_queue_pool
         /\ UNCHANGED <<taskVars, runVars>>
<1> PICK n \in Nat : n = sent[c]
  BY DEF TypeOK
<1> DEFINE r == <<c, n + 1>>
<1>1. /\ sent[c] < Len(Script[c]) /\ sent' = [sent EXCEPT ![c] = n + 1]
      /\ \/ HasRoom /\ request_queue_pool' = Append(request_queue_pool, r) /\ dropped' = dropped
         \/ dropped' = dropped \cup {r} /\ request_queue_pool' = request_queue_pool
      /\ UNCHANGED <<taskVars, current_request, runVars>>
  BY DEF AddRequest, CanAsk
<1>2. Script[c] \in Seq([session_id : Nat, operation_type : OperationType])
  BY TransactionTaskAssumption
<1>3. n + 1 \in 1 .. Len(Script[c])
  BY <1>1, <1>2
<1>4. r \in Request
  BY <1>3, RequestIn
<1>5. sent \in [Client -> Nat]
  BY DEF TypeOK
<1>6. /\ sent' \in [Client -> Nat]
      /\ \A d \in Client : sent'[d] = IF d = c THEN n + 1 ELSE sent[d]
  BY <1>1, <1>5
<1>7. ASSUME NEW x \in Request
      PROVE  Sent(x)' <=> Sent(x) \/ x = r
  <2>1. x[1] \in Client /\ x[2] \in Nat /\ x = <<x[1], x[2]>>
    BY RequestParts
  <2>2. Sent(x)' <=> x[2] <= sent'[x[1]]
    BY DEF Sent
  <2>3. CASE x[1] # c
    BY <1>6, <2>1, <2>2, <2>3 DEF Sent
  <2>4. CASE x[1] = c
    <3>1. x = r <=> x[2] = n + 1
      BY <2>1, <2>4
    <3>2. Sent(x)' <=> x[2] <= n + 1
      BY <1>6, <2>2, <2>4
    <3>3. Sent(x) <=> x[2] <= n
      BY <2>4 DEF Sent
    <3> HIDE DEF r
    <3> QED BY <2>1, <3>1, <3>2, <3>3
  <2> QED BY <2>3, <2>4
<1>8. ~ Sent(r)
  BY <1>5 DEF Sent
<1>9. \/ /\ Backlog' = Append(Backlog, r) /\ dropped' = dropped
         /\ request_queue_pool' \in Seq(Request) /\ Len(request_queue_pool') <= Capacity
      \/ /\ Backlog' = Backlog /\ dropped' = dropped \cup {r}
         /\ request_queue_pool' = request_queue_pool
  <2>1. CASE HasRoom /\ request_queue_pool' = Append(request_queue_pool, r) /\ dropped' = dropped
    <3> HIDE DEF r
    <3>1. Backlog' = Append(Backlog, r)
      BY <1>1, <1>4, <2>1, BacklogGrows
    <3>2. request_queue_pool' \in Seq(Request) /\ Len(request_queue_pool') <= Capacity
      <4> PICK q : q = request_queue_pool
        OBVIOUS
      <4>1. q \in Seq(Request) /\ Len(q) < Capacity
        BY <2>1 DEF TypeOK, HasRoom
      <4>2. Append(q, r) \in Seq(Request) /\ Len(Append(q, r)) <= Capacity
        BY <1>4, <4>1, RuntimeAssumption
      <4> QED BY <2>1, <4>2
    <3> QED BY <2>1, <3>1, <3>2
  <2>2. CASE dropped' = dropped \cup {r} /\ request_queue_pool' = request_queue_pool
    BY <1>1, <2>2 DEF Backlog
  <2> QED BY <1>1, <2>1, <2>2
<1> QED BY <1>1, <1>4, <1>6, <1>7, <1>8, <1>9


\* The backlog after a request has been appended.
LEMMA BacklogAppended ==
  ASSUME TypeOK, NEW r \in Request, Backlog' = Append(Backlog, r)
  PROVE  /\ \A k \in DOMAIN Backlog' :
              \/ k \in DOMAIN Backlog /\ Backlog'[k] = Backlog[k] /\ k < Len(Backlog) + 1
              \/ k = Len(Backlog) + 1 /\ Backlog'[k] = r
         /\ \A x : InBacklog(x)' <=> InBacklog(x) \/ x = r
<1>1. Backlog \in Seq(Request)
  BY BacklogType
<1> PICK b : b = Backlog
  OBVIOUS
<1> PICK c : c = Backlog'
  OBVIOUS
<1>2. b \in Seq(Request) /\ c = Append(b, r)
  BY <1>1
<1>3. /\ \A k \in DOMAIN c : \/ k \in DOMAIN b /\ c[k] = b[k] /\ k < Len(b) + 1
                             \/ k = Len(b) + 1 /\ c[k] = r
      /\ \A k \in DOMAIN b : k \in DOMAIN c /\ c[k] = b[k]
      /\ Len(b) + 1 \in DOMAIN c /\ c[Len(b) + 1] = r
  BY <1>2
<1>4. \A x : (\E k \in DOMAIN c : c[k] = x) <=> (\E k \in DOMAIN b : b[k] = x) \/ x = r
  BY <1>3
<1> QED BY <1>3, <1>4 DEF InBacklog

LEMMA AddRequestBase ==
  ASSUME BaseInv, NEW c \in Client, AddRequest(c)
  PROVE  BaseInv'
<1> PICK n : n = sent[c]
  OBVIOUS
<1> PICK r : r = <<c, n + 1>>
  OBVIOUS
<1>0. TypeOK /\ RequestsOnce
  BY DEF BaseInv
<1>1. /\ r \in Request /\ ~ Sent(r)
      /\ sent' \in [Client -> Nat]
      /\ \A x \in Request : Sent(x)' <=> Sent(x) \/ x = r
      /\ current_request' = current_request
      /\ \/ /\ Backlog' = Append(Backlog, r) /\ dropped' = dropped
            /\ request_queue_pool' \in Seq(Request) /\ Len(request_queue_pool') <= Capacity
         \/ /\ Backlog' = Backlog /\ dropped' = dropped \cup {r}
            /\ request_queue_pool' = request_queue_pool
      /\ UNCHANGED <<taskVars, runVars>>
  BY <1>0, AddRequestMakes
<1>2. /\ TaskTypeOK' /\ TasksInv' /\ ActiveTasksCounted' /\ EveryOutcomeCounted'
  BY <1>0, <1>1, TasksUnchanged DEF BaseInv, TypeOK
<1>3. TypeOK'
  BY <1>0, <1>1, <1>2 DEF TypeOK, runVars
<1>4. \A x : InQueue(x)' <=> InQueue(x)
  BY <1>1 DEF InQueue, taskVars
<1>5. answered' = answered
  BY <1>1 DEF taskVars
<1>6. ~ InBacklog(r) /\ ~ InQueue(r) /\ r \notin answered /\ r \notin dropped
  BY <1>0, <1>1 DEF RequestsOnce
<1>7. \A j, k \in DOMAIN Backlog : Backlog[j] = Backlog[k] => j = k
  BY <1>0 DEF RequestsOnce
<1>8. CASE Backlog' = Append(Backlog, r) /\ dropped' = dropped
  <2>1. /\ \A k \in DOMAIN Backlog' :
              \/ k \in DOMAIN Backlog /\ Backlog'[k] = Backlog[k]
              \/ k = Len(Backlog) + 1 /\ Backlog'[k] = r
        /\ \A x : InBacklog(x)' <=> InBacklog(x) \/ x = r
    BY <1>0, <1>1, <1>8, BacklogAppended
  <2>2. \A j, k \in DOMAIN Backlog' : Backlog'[j] = Backlog'[k] => j = k
    BY <1>6, <1>7, <2>1 DEF InBacklog
  <2>3. \A x \in Request :
          /\ InBacklog(x)' => Sent(x)' /\ ~ InQueue(x)' /\ x \notin answered'
          /\ InQueue(x)' => Sent(x)'
          /\ x \in answered' => Sent(x)'
          /\ x \in dropped' => Sent(x)' /\ ~ InQueue(x)' /\ x \notin answered' /\ ~ InBacklog(x)'
    BY <1>0, <1>1, <1>4, <1>5, <1>6, <1>8, <2>1 DEF RequestsOnce
  <2> QED BY <1>2, <1>3, <2>2, <2>3 DEF BaseInv, RequestsOnce
<1>9. CASE Backlog' = Backlog /\ dropped' = dropped \cup {r}
  <2>1. \A x : InBacklog(x)' <=> InBacklog(x)
    BY <1>9 DEF InBacklog
  <2>2. \A j, k \in DOMAIN Backlog' : Backlog'[j] = Backlog'[k] => j = k
    BY <1>7, <1>9
  <2>3. \A x \in Request :
          /\ InBacklog(x)' => Sent(x)' /\ ~ InQueue(x)' /\ x \notin answered'
          /\ InQueue(x)' => Sent(x)'
          /\ x \in answered' => Sent(x)'
          /\ x \in dropped' => Sent(x)' /\ ~ InQueue(x)' /\ x \notin answered' /\ ~ InBacklog(x)'
    BY <1>0, <1>1, <1>4, <1>5, <1>6, <1>9, <2>1 DEF RequestsOnce
  <2> QED BY <1>2, <1>3, <2>2, <2>3 DEF BaseInv, RequestsOnce
<1> QED BY <1>1, <1>8, <1>9

LEMMA QuietBase ==
  ASSUME BaseInv, Quiet, poll' \in Slot,
         pc' \in {pc, "stopped", "launch", "advance", "loop", "recover", "no session task"}
  PROVE  BaseInv'
<1>1. /\ TaskTypeOK' /\ TasksInv' /\ ActiveTasksCounted' /\ EveryOutcomeCounted'
  BY TasksUnchanged DEF Quiet, BaseInv, TypeOK
<1>2. TypeOK'
  BY <1>1 DEF Quiet, clientVars, BaseInv, TypeOK
<1>3. RequestsOnce'
  <2>1. Backlog' = Backlog /\ task' = task /\ sent' = sent /\ answered' = answered /\ dropped' = dropped
    BY DEF Quiet, taskVars, clientVars
  <2>2. \A x : /\ InQueue(x)' <=> InQueue(x)
               /\ InBacklog(x)' <=> InBacklog(x)
               /\ Sent(x)' <=> Sent(x)
    BY <2>1 DEF InQueue, InBacklog, Sent
  <2> QED BY <2>1, <2>2 DEF RequestsOnce, BaseInv
<1> QED BY <1>1, <1>2, <1>3 DEF BaseInv

LEMMA PollsBase ==
  ASSUME BaseInv, Polls, Backlog' = Backlog, poll' \in Slot, pc' \in {pc, "loop"}
  PROVE  BaseInv'
<1>1. PICK i \in Slot : AdvanceTask(i, Served) \/ CallBack(i)
  BY DEF Polls
<1>2. TaskTypeOK /\ TasksInv /\ ActiveTasksCounted /\ EveryOutcomeCounted /\ Consistent(task[i])
  BY DEF BaseInv, TypeOK, TasksInv
<1>3. PICK u : task' = [task EXCEPT ![i] = u] /\ Polled(task[i], u)
  BY <1>1, <1>2, AdvancePolls, SwitchServes
<1>4. /\ task' \in [Slot -> Task] /\ answered' \subseteq Request /\ TasksInv'
      /\ ActiveTasksCounted' /\ active_txn_number' \in 0 .. concurrent_txn_count
      /\ EveryOutcomeCounted' /\ commit_count' \in Nat /\ abort_count' \in Nat
  <2>1. /\ task' \in [Slot -> Task] /\ answered' \subseteq Request /\ TasksInv'
    BY <1>1, <1>2, PolledTasksInv, SwitchServes
  <2>2. ActiveTasksCounted' /\ active_txn_number' \in 0 .. concurrent_txn_count
    BY <1>1, <1>2, PolledActive, SwitchServes
  <2>3. EveryOutcomeCounted' /\ commit_count' \in Nat /\ abort_count' \in Nat
    BY <1>1, <1>2, PolledOutcomes, SwitchServes
  <2> QED BY <2>1, <2>2, <2>3
<1>5. TypeOK'
  BY <1>4 DEF BaseInv, TypeOK, TaskTypeOK, Polls, queueVars, clientVars
<1>6. \A j \in Slot : task'[j].queue = task[j].queue
  BY <1>2, <1>3, PolledElsewhere DEF Polled
<1>7. \A x : /\ InQueue(x)' <=> InQueue(x)
             /\ InBacklog(x)' <=> InBacklog(x)
             /\ Sent(x)' <=> Sent(x)
  BY <1>6 DEF InQueue, InBacklog, Sent, Polls, clientVars
<1>8. \A x \in answered' \ answered : InQueue(x)
  BY <1>3 DEF Polled, InQueue
<1>9. dropped' = dropped /\ answered' \subseteq Request
  BY <1>4 DEF Polls, clientVars
<1>10. RequestsOnce'
  BY <1>7, <1>8, <1>9 DEF BaseInv, RequestsOnce
<1> QED BY <1>4, <1>5, <1>10 DEF BaseInv

LEMMA InitBase == Init => BaseInv
<1> SUFFICES ASSUME Init PROVE BaseInv
  OBVIOUS
<1>1. /\ TaskTypeOK /\ TasksInv /\ ActiveTasksCounted /\ EveryOutcomeCounted
      /\ \A i \in Slot : task[i] = NewTask
  BY InitialTasks DEF Init
<1> USE DEF Init
<1>2. TypeOK
  <2>1. 1 \in Slot
    BY TransactionTaskAssumption DEF Slot
  <2>2. <<>> \in Seq(Request) /\ Len(<<>>) = 0 /\ 0 <= Capacity
    BY RuntimeAssumption
  <2>3. sent \in [Client -> Nat]
    OBVIOUS
  <2> QED BY <1>1, <2>1, <2>2, <2>3 DEF TypeOK
<1>3. \A i \in Slot : DOMAIN task[i].queue = {}
  BY <1>1 DEF NewTask
<1>4. answered = {}
  BY DEF TaskInit
<1>5. Backlog = <<>> /\ DOMAIN Backlog = {}
  BY DEF Backlog
<1>6. RequestsOnce
  BY <1>3, <1>4, <1>5 DEF RequestsOnce, InBacklog, InQueue
<1> QED BY <1>1, <1>2, <1>6 DEF BaseInv

LEMMA NextBase == BaseInv /\ [Next]_vars => BaseInv'
<1> SUFFICES ASSUME BaseInv, [Next]_vars PROVE BaseInv'
  OBVIOUS
<1>1. poll \in Slot
  BY DEF BaseInv, TypeOK
<1>2. CASE \E c \in Client : AddRequest(c)
  BY <1>2, AddRequestBase
<1>3. CASE Launches
  BY <1>3, LaunchBase
<1>4. CASE Polls /\ Backlog' = Backlog /\ poll' \in Slot /\ pc' \in {pc, "loop"}
  BY <1>4, PollsBase
<1>5. CASE Quiet /\ poll' = poll
           /\ pc' \in {pc, "stopped", "launch", "advance", "loop", "recover", "no session task"}
  BY <1>1, <1>5, QuietBase
<1> QED BY <1>2, <1>3, <1>4, <1>5, Steps DEF BaseInv

\* The variables of RuntimeTransactionExecutor have their types: the queue never
\* holds more than its capacity, and the counter of tasks stays in its range.
THEOREM TypeCorrect == Spec => []TypeOK
<1>1. BaseInv => TypeOK
  BY DEF BaseInv
<1> QED BY <1>1, InitBase, NextBase, PTL DEF Spec

\* active_txn_number, by which Run goes on and LaunchRequests takes a task for free,
\* is the number of tasks in use.
THEOREM TasksCounted == Spec => []ActiveTasksCounted
<1>1. BaseInv => ActiveTasksCounted
  BY DEF BaseInv
<1> QED BY <1>1, InitBase, NextBase, PTL DEF Spec

\* Statistics: commit_count and abort_count are the outcomes that clients have
\* been told, but for those whose post-processing is under way.
THEOREM OutcomesCounted == Spec => []EveryOutcomeCounted
<1>1. BaseInv => EveryOutcomeCounted
  BY DEF BaseInv
<1> QED BY <1>1, InitBase, NextBase, PTL DEF Spec

-----------------------------------------------------------------------------
(* Sessions, and what every request becomes.                               *)

SessionInv ==
  /\ InOrder /\ TaskOfSession /\ FrontierKept /\ RefusedIsLast /\ Accounted /\ HeldIsBegin
  /\ PcOK /\ TransactionsKeptApart

\* The next request to be launched is sent, and ahead of its client's others.
LEMMA NextToLaunch ==
  ASSUME BaseInv, InOrder, Backlog # <<>>
  PROVE  /\ Backlog[1] \in Request /\ 1 \in DOMAIN Backlog /\ InBacklog(Backlog[1])
         /\ Sent(Backlog[1])
         /\ \A x \in Request : InBacklog(x) /\ x[1] = Backlog[1][1] =>
              x = Backlog[1] \/ Backlog[1][2] < x[2]
<1>1. Backlog \in Seq(Request)
  BY BacklogType DEF BaseInv
<1>2. Backlog[1] \in Request /\ 1 \in DOMAIN Backlog /\ InBacklog(Backlog[1])
  BY <1>1 DEF InBacklog
<1>3. Sent(Backlog[1])
  BY <1>2 DEF BaseInv, RequestsOnce
<1>4. ASSUME NEW k \in DOMAIN Backlog, Backlog[k][1] = Backlog[1][1], k # 1
      PROVE  Backlog[1][2] < Backlog[k][2]
  <2>1. k > 1
    BY <1>1, <1>4
  <2> QED BY <1>2, <1>4, <2>1 DEF InOrder
<1> QED BY <1>2, <1>3, <1>4 DEF InBacklog

\* Everything in a queue is of its session, and launched before the rest of its client's.
LEMMA QueuedBefore ==
  ASSUME BaseInv, InOrder, TaskOfSession, OneTransactionPerSession, Backlog # <<>>,
         NEW i \in Slot, task[i].session_id = SessionOf(Backlog[1])
  PROVE  /\ task[i].queue # <<>>
         /\ \A m \in DOMAIN task[i].queue :
              /\ task[i].queue[m] \in Request
              /\ task[i].queue[m][1] = Backlog[1][1] /\ task[i].queue[m][2] < Backlog[1][2]
              /\ ~ Ends(task[i].queue[m])
         /\ Type(Backlog[1]) # "Begin"
         /\ task[i].in_use
<1> DEFINE r == Backlog[1]
           q == task[i].queue
<1>1. r \in Request /\ 1 \in DOMAIN Backlog
  BY NextToLaunch
<1>2. SessionOf(r) # 0
  BY <1>1 DEF OneTransactionPerSession
<1>3. q \in Seq(Request) /\ q # <<>> /\ task[i].current \in Nat
  BY <1>2 DEF TaskOfSession, BaseInv, TypeOK, TaskTypeOK, Task
<1>4. ASSUME NEW m \in DOMAIN q
      PROVE  /\ q[m] \in Request /\ q[m][1] = r[1] /\ q[m][2] < r[2] /\ ~ Ends(q[m])
             /\ Type(r) # "Begin"
  <2>1. q[m] \in Request
    BY <1>3
  <2>2. SessionOf(q[m]) = SessionOf(r)
    BY DEF TaskOfSession
  <2>3. q[m][1] = r[1]
    BY <1>1, <2>1, <2>2 DEF OneTransactionPerSession
  <2>4. q[m][2] < r[2]
    BY <1>1, <2>3 DEF InOrder
  <2>5. ~ Ends(q[m]) /\ Type(r) # "Begin"
    BY <1>1, <2>1, <2>2, <2>4 DEF OneTransactionPerSession
  <2> QED BY <2>1, <2>3, <2>4, <2>5
<1>5. Len(q) \in DOMAIN q
  BY <1>3
<1>6. task[i].in_use
  BY <1>3, <1>4, <1>5 DEF TaskOfSession
<1> QED BY <1>3, <1>4, <1>5, <1>6

\* The task that the next request needs is there, unless the full queue has torn
\* a hole into its transaction.
LEMMA PredecessorServed ==
  ASSUME BaseInv, InOrder, TaskOfSession, FrontierKept, RefusedIsLast,
         OneTransactionPerSession, Intact, Backlog # <<>>, Type(Backlog[1]) # "Begin"
  PROVE  \E i \in Slot : /\ task[i].session_id = SessionOf(Backlog[1])
                         /\ LastIn(i, <<Backlog[1][1], Backlog[1][2] - 1>>)
<1> PICK r : r = Backlog[1]
  OBVIOUS
<1>1. /\ r \in Request /\ InBacklog(r) /\ Sent(r) /\ Type(r) # "Begin"
      /\ \A x \in Request : InBacklog(x) /\ x[1] = r[1] => x = r \/ r[2] < x[2]
  BY NextToLaunch
<1>2. r[1] \in Client /\ r[2] \in 1 .. Len(Script[r[1]]) /\ r = <<r[1], r[2]>> /\ Len(Script[r[1]]) \in Nat
  BY <1>1, RequestParts
<1>3. r[2] > 1 /\ SessionOf(<<r[1], r[2] - 1>>) = SessionOf(r)
  BY <1>1 DEF OneTransactionPerSession
<1> PICK n \in Nat : n = r[2] - 1
  BY <1>2, <1>3
<1> DEFINE p == <<r[1], n>>
<1>4. p \in Request /\ SessionOf(p) = SessionOf(r)
  <2>1. n \in 1 .. Len(Script[r[1]])
    BY <1>2, <1>3
  <2> QED BY <1>2, <1>3, <2>1, RequestIn
<1>5. p[1] = r[1] /\ p[2] = n /\ n < r[2] /\ Successor(p) = r
  <2>1. n + 1 = r[2] /\ n < r[2]
    BY <1>2
  <2> QED BY <1>2, <2>1 DEF Successor
<1> HIDE DEF p
<1>6. sent \in [Client -> Nat]
  BY DEF BaseInv, TypeOK
<1>7. Sent(p) /\ sent[r[1]] >= r[2] /\ p[2] \in Nat /\ r[2] \in Nat
  BY <1>1, <1>2, <1>5, <1>6 DEF Sent
<1>8. ~ InBacklog(p)
  BY <1>1, <1>4, <1>5, <1>7
<1>9. p \notin dropped
  <2>1. p \in dropped => p[1] \in Waits /\ sent[p[1]] = p[2]
    BY DEF Intact, RefusedIsLast
  <2> QED BY <1>5, <1>7, <2>1
<1>10. ~ Ends(p)
  BY <1>1, <1>4, <1>5 DEF OneTransactionPerSession
<1>11. PICK i \in Slot : LastIn(i, p)
  BY <1>1, <1>4, <1>5, <1>7, <1>8, <1>9, <1>10 DEF FrontierKept
<1>12. task[i].session_id = SessionOf(p)
  <2>1. task[i].queue \in Seq(Request) /\ task[i].queue # <<>> /\ task[i].queue[Len(task[i].queue)] = p
    BY <1>11 DEF LastIn, BaseInv, TypeOK, TaskTypeOK, Task
  <2>2. Len(task[i].queue) \in DOMAIN task[i].queue
    BY <2>1
  <2> QED BY <2>1, <2>2 DEF TaskOfSession
<1> QED BY <1>4, <1>11, <1>12 DEF p


\* The queue of a task holds one transaction.
OneTransactionIn(q) ==
  \A m \in DOMAIN q :
    IF m = 1 THEN Type(q[m]) = "Begin"
    ELSE Type(q[m]) # "Begin" /\ q[m][1] = q[m - 1][1] /\ q[m][2] = q[m - 1][2] + 1

LEMMA KeptApartQueues ==
  /\ TransactionsKeptApart <=> (Intact => \A i \in Slot : OneTransactionIn(task[i].queue))
  /\ TransactionsKeptApart' <=> (Intact' => \A i \in Slot : OneTransactionIn(task'[i].queue))
BY DEF TransactionsKeptApart, OneTransactionPerTask, OneTransactionIn

LEMMA InitSession == Init => SessionInv
<1> SUFFICES ASSUME Init PROVE SessionInv
  OBVIOUS
<1>1. \A i \in Slot : /\ ~ task[i].in_use /\ task[i].session_id = 0 /\ task[i].queue = <<>>
                      /\ DOMAIN task[i].queue = {}
  BY DEF Init, TaskInit, NewTask
<1>2. Backlog = <<>> /\ DOMAIN Backlog = {}
  BY DEF Init, Backlog
<1>3. \A r \in Request : ~ Sent(r)
  BY RequestParts DEF Init, Sent
<1>4. dropped = {} /\ current_request = NoRequest /\ pc = "stopped"
  BY DEF Init
<1>5. InOrder /\ TaskOfSession
  BY <1>1, <1>2 DEF InOrder, TaskOfSession
<1>6. FrontierKept /\ RefusedIsLast /\ Accounted
  BY <1>3, <1>4 DEF FrontierKept, RefusedIsLast, Accounted
<1>7. HeldIsBegin /\ PcOK /\ TransactionsKeptApart
  BY <1>1, <1>4 DEF HeldIsBegin, PcOK, TransactionsKeptApart, OneTransactionPerTask
<1> QED BY <1>5, <1>6, <1>7 DEF SessionInv

LEMMA QuietSession ==
  ASSUME BaseInv, SessionInv, Quiet, OneTransactionPerSession,
         \/ UNCHANGED queueVars /\ (pc = "no session task" => pc' = pc)
              /\ pc' \in {pc, "stopped", "launch", "advance", "recover"}
         \/ pc' = "advance" /\ Type(current_request') = "Begin"
         \/ pc' = "no session task" /\ NoTaskForSession
  PROVE  SessionInv'
<1>1. /\ Backlog' = Backlog /\ task' = task /\ sent' = sent /\ dropped' = dropped
      /\ answered' = answered
  BY DEF Quiet, taskVars, clientVars
<1>2. \A x : (InBacklog(x)' <=> InBacklog(x)) /\ (Sent(x)' <=> Sent(x))
  BY <1>1 DEF InBacklog, Sent
<1>3. InOrder' /\ TaskOfSession'
  BY <1>1 DEF SessionInv, InOrder, TaskOfSession
<1>4. FrontierKept'
  BY <1>1, <1>2 DEF SessionInv, FrontierKept, LastIn
<1>a. RefusedIsLast'
  BY <1>1 DEF SessionInv, RefusedIsLast
<1>5. Accounted'
  <2> SUFFICES ASSUME NEW r \in Request, Sent(r) PROVE AccountedFor(r)'
    BY <1>2 DEF Accounted
  <2>1. AccountedFor(r)
    BY DEF SessionInv, Accounted
  <2> QED BY <1>1, <1>2, <2>1 DEF AccountedFor, Unserved
<1>6. HeldIsBegin'
  BY DEF SessionInv, HeldIsBegin, queueVars
<1>7. Intact' <=> Intact
  BY <1>1 DEF Intact
<1>8. PcOK'
  <2>1. CASE pc' = "no session task" /\ NoTaskForSession
    <3>1. ~ Intact
      BY <2>1, PredecessorServed DEF NoTaskForSession, SessionInv
    <3> QED BY <1>7, <2>1, <3>1 DEF PcOK
  <2>2. CASE pc' \in {pc, "stopped", "launch", "advance", "recover"}
    BY <1>7, <2>2 DEF PcOK, SessionInv
  <2> QED BY <2>1, <2>2
<1>9. TransactionsKeptApart'
  BY <1>1, <1>7, KeptApartQueues DEF SessionInv
<1> QED BY <1>3, <1>4, <1>5, <1>a, <1>6, <1>8, <1>9 DEF SessionInv

LEMMA PlaceInQueue ==
  ASSUME NEW q \in Seq(Request), NEW c \in Nat, c > 0, c <= Len(q)
  PROVE  c \in DOMAIN q
OBVIOUS

LEMMA AtTheEnd ==
  ASSUME NEW q, NEW c \in Nat, NEW d \in Nat, d <= c, c <= Len(q), d = Len(q)
  PROVE  c = d
OBVIOUS

LEMMA PollsSession ==
  ASSUME BaseInv, SessionInv, Polls, Backlog' = Backlog, pc' \in {pc, "loop"},
         pc = "no session task" => pc' = pc
  PROVE  SessionInv'
<1>1. PICK i \in Slot : AdvanceTask(i, Served) \/ CallBack(i)
  BY DEF Polls
<1>2. TaskTypeOK /\ TasksInv /\ Consistent(task[i])
  BY DEF BaseInv, TypeOK, TasksInv
<1>3. PICK u : task' = [task EXCEPT ![i] = u] /\ Polled(task[i], u)
  BY <1>1, <1>2, AdvancePolls, SwitchServes
<1>4. task'[i] = u /\ \A j \in Slot : j # i => task'[j] = task[j]
  BY <1>2, <1>3, PolledElsewhere
<1>5. \A j \in Slot : task'[j].queue = task[j].queue /\ task'[j].session_id = task[j].session_id
                      /\ (task'[j].in_use => task[j].in_use)
  BY <1>3, <1>4 DEF Polled
<1>6. sent' = sent /\ dropped' = dropped /\ current_request' = current_request
  BY DEF Polls, clientVars, queueVars
<1>7. \A x : (InBacklog(x)' <=> InBacklog(x)) /\ (Sent(x)' <=> Sent(x))
  BY <1>6 DEF InBacklog, Sent
<1>8. \A j \in Slot : task[j].queue \in Seq(Request) /\ task[j].current \in Nat
  BY <1>2 DEF TaskTypeOK, Task
\* A task that is released has come to the end of its queue.
<1>9. ASSUME NEW j \in Slot, ~ task'[j].in_use, task[j].queue # <<>>
      PROVE  /\ task'[j].current = Len(task[j].queue)
             /\ Ends(task[j].queue[task'[j].current])
  <2>1. CASE task[j].in_use
    <3>1. j = i
      BY <1>4, <1>9, <2>1
    <3>2. u.phase = "Finished" /\ Consistent(u) /\ u.queue = task[j].queue /\ u \in Task
      BY <1>3, <1>4, <1>9, <2>1, <3>1 DEF Polled
    <3>3. /\ u.current > 0 /\ u.current <= Len(u.queue) /\ Ends(u.queue[u.current])
      BY <3>2 DEF Consistent
    <3>4. u.current \in DOMAIN task[j].queue /\ Ends(task[j].queue[u.current])
      <4>1. u.queue \in Seq(Request) /\ u.current \in Nat
        BY <3>2 DEF Task
      <4>2. u.current \in DOMAIN u.queue
        BY <3>3, <4>1, PlaceInQueue
      <4> QED BY <3>2, <3>3, <4>2, Zenon
    <3>5. u.current = Len(task[j].queue)
      BY <3>4 DEF SessionInv, TaskOfSession
    <3> QED BY <1>4, <3>1, <3>4, <3>5
  <2>2. CASE ~ task[j].in_use
    <3>1. task[j].current = Len(task[j].queue) /\ Ends(task[j].queue[task[j].current])
      BY <1>9, <2>2 DEF SessionInv, TaskOfSession
    <3>2. task'[j].current = task[j].current
      <4>1. CASE j # i
        BY <1>4, <4>1
      <4>2. CASE j = i
        <5>1. task[j].current <= u.current /\ u.current <= Len(u.queue) /\ u.queue = task[j].queue
              /\ u.current \in Nat
          <6>1. u \in Task /\ Consistent(u) /\ u.queue = task[j].queue /\ task[j].current <= u.current
            BY <1>3, <4>2 DEF Polled
          <6>2. u.current <= Len(u.queue)
            BY <6>1 DEF Consistent
          <6>3. u.current \in Nat
            BY <6>1 DEF Task
          <6> QED BY <6>1, <6>2, <6>3
        <5>2. task[j].current \in Nat
          BY <1>8
        <5>3. u.current = task[j].current
          BY <3>1, <5>1, <5>2, AtTheEnd
        <5> QED BY <1>4, <4>2, <5>3
      <4> QED BY <4>1, <4>2
    <3> QED BY <3>1, <3>2
  <2> QED BY <2>1, <2>2
<1>10. InOrder'
  BY <1>5 DEF SessionInv, InOrder
<1>11. TaskOfSession'
  <2> SUFFICES ASSUME NEW j \in Slot
               PROVE  /\ task'[j].session_id # 0 => task'[j].queue # <<>>
                      /\ task'[j].in_use => task'[j].queue # <<>>
                      /\ \A m \in DOMAIN task'[j].queue :
                           /\ SessionOf(task'[j].queue[m]) = task'[j].session_id
                           /\ Ends(task'[j].queue[m]) => m = Len(task'[j].queue)
                           /\ m = 1 <=> Type(task'[j].queue[m]) = "Begin"
                      /\ ~ task'[j].in_use /\ task'[j].queue # <<>> =>
                           /\ task'[j].current = Len(task'[j].queue)
                           /\ Ends(task'[j].queue[task'[j].current])
                      /\ \A k \in Slot : task'[j].session_id = task'[k].session_id =>
                           j = k \/ task'[j].session_id = 0
    BY DEF TaskOfSession
  <2>1. /\ task[j].session_id # 0 => task[j].queue # <<>>
        /\ task[j].in_use => task[j].queue # <<>>
        /\ \A m \in DOMAIN task[j].queue :
             /\ SessionOf(task[j].queue[m]) = task[j].session_id
             /\ Ends(task[j].queue[m]) => m = Len(task[j].queue)
             /\ m = 1 <=> Type(task[j].queue[m]) = "Begin"
        /\ \A k \in Slot : task[j].session_id = task[k].session_id =>
             j = k \/ task[j].session_id = 0
    BY DEF SessionInv, TaskOfSession
  <2>2. /\ task'[j].queue = task[j].queue /\ task'[j].session_id = task[j].session_id
        /\ task'[j].in_use => task[j].in_use
    BY <1>5
  <2>3. ~ task'[j].in_use /\ task'[j].queue # <<>> =>
             /\ task'[j].current = Len(task'[j].queue)
             /\ Ends(task'[j].queue[task'[j].current])
    BY <1>9, <2>2
  <2>4. \A k \in Slot : task'[j].session_id = task'[k].session_id =>
             j = k \/ task'[j].session_id = 0
    BY <1>5, <2>1
  <2>5. \A m \in DOMAIN task'[j].queue :
             /\ SessionOf(task'[j].queue[m]) = task'[j].session_id
             /\ Ends(task'[j].queue[m]) => m = Len(task'[j].queue)
             /\ m = 1 <=> Type(task'[j].queue[m]) = "Begin"
    BY <2>1, <2>2
  <2> QED BY <2>1, <2>2, <2>3, <2>4, <2>5
<1>12. FrontierKept'
  <2> SUFFICES ASSUME NEW r \in Request, Sent(r)', sent'[r[1]] = r[2] \/ InBacklog(Successor(r))'
               PROVE  \/ InBacklog(r)' \/ r \in dropped' \/ Ends(r)
                      \/ \E j \in Slot : LastIn(j, r)'
    BY DEF FrontierKept, Successor
  <2>1. \/ InBacklog(r) \/ r \in dropped \/ Ends(r)
        \/ \E j \in Slot : LastIn(j, r)
    BY <1>6, <1>7 DEF SessionInv, FrontierKept
  <2>2. ASSUME NEW j \in Slot, LastIn(j, r), ~ Ends(r)
        PROVE  LastIn(j, r)'
    <3>1. task[j].queue # <<>> /\ task[j].queue[Len(task[j].queue)] = r
      BY <2>2 DEF LastIn
    <3>2. task'[j].in_use
      BY <1>9, <2>2, <3>1
    <3> QED BY <1>5, <3>1, <3>2 DEF LastIn
  <2> QED BY <1>6, <1>7, <2>1, <2>2
<1>13. RefusedIsLast'
  BY <1>6 DEF SessionInv, RefusedIsLast
<1>14. Accounted'
  <2> SUFFICES ASSUME NEW r \in Request, Sent(r) PROVE AccountedFor(r)'
    BY <1>7 DEF Accounted
  <2>1. answered \subseteq answered'
    BY <1>3 DEF Polled
  <2>2. ASSUME NEW j \in Slot, NEW m \in DOMAIN task[j].queue, task[j].queue[m] = r,
               Unserved(task[j], m), ~ Unserved(task'[j], m)
        PROVE  r \in answered' \/ Type(r) = "ReadDataStore"
    <3>1. j = i
      BY <1>4, <2>2
    <3>2. /\ IF Unserved(u, m) THEN Unserved(task[i], m)
             ELSE Unserved(task[i], m) =>
                    task[i].queue[m] \in answered' \/ Type(task[i].queue[m]) = "ReadDataStore"
      BY <1>3, <3>1 DEF Polled
    <3> QED BY <1>4, <2>2, <3>1, <3>2
  <2>3. ASSUME NEW j \in Slot, NEW m \in DOMAIN task[j].queue, task[j].queue[m] = r,
               Unserved(task'[j], m)
        PROVE  AccountedFor(r)'
    BY <1>5, <2>3 DEF AccountedFor, Unserved
  <2>4. r \in dropped \/ InBacklog(r) \/ r \in answered' \/ Type(r) = "ReadDataStore" => AccountedFor(r)'
    BY <1>6, <1>7 DEF AccountedFor
  <2>5. AccountedFor(r)
    BY DEF SessionInv, Accounted
  <2> QED BY <2>1, <2>2, <2>3, <2>4, <2>5 DEF AccountedFor
<1>15. HeldIsBegin'
  BY <1>6 DEF SessionInv, HeldIsBegin
<1>16. Intact' <=> Intact
  BY <1>6 DEF Intact
<1>17. PcOK'
  BY <1>16 DEF SessionInv, PcOK
<1>18. TransactionsKeptApart'
  <2>1. TransactionsKeptApart
    BY DEF SessionInv
  <2>2. \A j \in Slot : task'[j].queue = task[j].queue
    BY <1>5
  <2> QED BY <1>16, <2>1, <2>2, KeptApartQueues
<1> QED BY <1>10, <1>11, <1>12, <1>13, <1>14, <1>15, <1>17, <1>18 DEF SessionInv


LEMMA AddRequestSession ==
  ASSUME BaseInv, SessionInv, NEW c \in Client, AddRequest(c)
  PROVE  SessionInv'
<1> PICK n : n = sent[c]
  OBVIOUS
<1> PICK r : r = <<c, n + 1>>
  OBVIOUS
<1>0. TypeOK /\ RequestsOnce /\ n \in Nat
  BY DEF BaseInv, TypeOK
<1>1. /\ r \in Request /\ ~ Sent(r)
      /\ \A x \in Request : Sent(x)' <=> Sent(x) \/ x = r
      /\ \A d \in Client : sent'[d] = IF d = c THEN n + 1 ELSE sent[d]
      /\ current_request' = current_request
      /\ \/ Backlog' = Append(Backlog, r) /\ dropped' = dropped
         \/ Backlog' = Backlog /\ dropped' = dropped \cup {r}
      /\ UNCHANGED <<taskVars, runVars>>
  BY <1>0, AddRequestMakes
<1>2. task' = task /\ answered' = answered /\ pc' = pc
  BY <1>1 DEF taskVars, runVars
<1>3. r[1] = c /\ r[2] = n + 1 /\ n + 1 \in Nat
  BY <1>0
\* The backlog, whether it grows or not.
<1>4. /\ \A k \in DOMAIN Backlog' :
           \/ k \in DOMAIN Backlog /\ Backlog'[k] = Backlog[k] /\ k < Len(Backlog) + 1
           \/ k = Len(Backlog) + 1 /\ Backlog'[k] = r
      /\ \A x : InBacklog(x) => InBacklog(x)'
      /\ \A x : InBacklog(x)' => InBacklog(x) \/ x = r
      /\ r \in dropped' \/ InBacklog(r)'
      /\ dropped \subseteq dropped' /\ dropped' \subseteq dropped \cup {r}
      /\ Len(Backlog) \in Nat
  <2>0. Backlog \in Seq(Request)
    BY <1>0, BacklogType
  <2>1. CASE Backlog' = Append(Backlog, r) /\ dropped' = dropped
    BY <1>0, <1>1, <2>0, <2>1, BacklogAppended
  <2>2. CASE Backlog' = Backlog /\ dropped' = dropped \cup {r}
    <3>1. \A x : InBacklog(x)' <=> InBacklog(x)
      BY <2>2 DEF InBacklog
    <3> QED BY <2>0, <2>2, <3>1
  <2> QED BY <1>1, <2>1, <2>2
<1>5. \A x \in Request : (InBacklog(x) \/ InQueue(x) \/ x \in answered \/ x \in dropped) => Sent(x)
  BY <1>0 DEF RequestsOnce
<1>6. ASSUME NEW x \in Request, Sent(x), x[1] = c
      PROVE  x[2] < n + 1 /\ x[2] \in Nat
  <2>1. x[2] \in Nat /\ x[2] <= n
    BY <1>6, RequestParts DEF Sent
  <2> QED BY <1>0, <2>1
<1>7. \A k \in DOMAIN Backlog : Backlog[k] \in Request /\ Sent(Backlog[k])
  <2>1. Backlog \in Seq(Request)
    BY <1>0, BacklogType
  <2> QED BY <1>5, <2>1 DEF InBacklog
<1>8. \A i \in Slot : \A m \in DOMAIN task[i].queue : task[i].queue[m] \in Request /\ Sent(task[i].queue[m])
  <2>1. \A i \in Slot : task[i].queue \in Seq(Request)
    BY <1>0 DEF TypeOK, TaskTypeOK, Task
  <2>2. \A i \in Slot : \A m \in DOMAIN task[i].queue : task[i].queue[m] \in Request
    BY <2>1
  <2> QED BY <1>5, <2>2 DEF InQueue
<1>9. InOrder'
  <2>1. ASSUME NEW j \in DOMAIN Backlog', NEW k \in DOMAIN Backlog', j < k,
               Backlog'[j][1] = Backlog'[k][1]
        PROVE  Backlog'[j][2] < Backlog'[k][2]
    <3>1. CASE k \in DOMAIN Backlog /\ Backlog'[k] = Backlog[k] /\ k < Len(Backlog) + 1
      <4>1. j \in DOMAIN Backlog /\ Backlog'[j] = Backlog[j]
        BY <1>4, <2>1, <3>1
      <4> QED BY <2>1, <3>1, <4>1 DEF SessionInv, InOrder
    <3>2. CASE k = Len(Backlog) + 1 /\ Backlog'[k] = r
      <4>1. j \in DOMAIN Backlog /\ Backlog'[j] = Backlog[j]
        BY <1>4, <2>1, <3>2
      <4> QED BY <1>3, <1>6, <1>7, <2>1, <3>2, <4>1
    <3> QED BY <1>4, <3>1, <3>2
  <2>2. ASSUME NEW i \in Slot, NEW m \in DOMAIN task[i].queue, NEW k \in DOMAIN Backlog',
               task[i].queue[m][1] = Backlog'[k][1]
        PROVE  task[i].queue[m][2] < Backlog'[k][2]
    <3>1. CASE k \in DOMAIN Backlog /\ Backlog'[k] = Backlog[k]
      BY <2>2, <3>1 DEF SessionInv, InOrder
    <3>2. CASE Backlog'[k] = r
      BY <1>3, <1>6, <1>8, <2>2, <3>2
    <3> QED BY <1>4, <3>1, <3>2
  <2> QED BY <1>2, <2>1, <2>2 DEF InOrder
<1>10. TaskOfSession'
  BY <1>2 DEF SessionInv, TaskOfSession
<1>11. FrontierKept'
  <2> SUFFICES ASSUME NEW x \in Request, Sent(x)', sent'[x[1]] = x[2] \/ InBacklog(Successor(x))'
               PROVE  \/ InBacklog(x)' \/ x \in dropped' \/ Ends(x)
                      \/ \E j \in Slot : LastIn(j, x)'
    BY DEF FrontierKept, Successor
  <2>1. CASE x = r
    BY <1>4, <2>1
  <2>2. CASE x # r
    <3>1. Sent(x)
      BY <1>1, <2>2
    <3>2. x[1] \in Client /\ x[2] \in Nat /\ x = <<x[1], x[2]>>
      BY RequestParts
    <3>3. sent[x[1]] = x[2] \/ InBacklog(Successor(x))
      <4>1. CASE sent'[x[1]] = x[2]
        <5>1. x[1] # c
          BY <1>1, <1>3, <1>6, <3>1, <3>2, <4>1
        <5> QED BY <1>1, <3>2, <4>1, <5>1
      <4>2. CASE InBacklog(Successor(x))'
        <5>1. InBacklog(Successor(x)) \/ Successor(x) = r
          BY <1>4, <4>2
        <5>2. Successor(x) = r => x[1] = c /\ x[2] + 1 = n + 1
          BY DEF Successor
        <5>3. x[2] + 1 = n + 1 => x[2] = n
          BY <1>0, <3>2
        <5> QED BY <5>1, <5>2, <5>3
      <4> QED BY <4>1, <4>2
    <3>4. \/ InBacklog(x) \/ x \in dropped \/ Ends(x)
          \/ \E j \in Slot : LastIn(j, x)
      BY <3>1, <3>3 DEF SessionInv, FrontierKept
    <3> QED BY <1>2, <1>4, <3>4 DEF LastIn
  <2> QED BY <2>1, <2>2
<1>12. RefusedIsLast'
  <2> SUFFICES ASSUME NEW x \in dropped', x[1] \in Waits
               PROVE  sent'[x[1]] = x[2]
    BY DEF RefusedIsLast
  <2>1. CASE x = r
    BY <1>1, <1>3, <2>1
  <2>2. CASE x # r
    <3>1. x \in dropped /\ sent[x[1]] = x[2] /\ x \in Request
      BY <1>0, <1>4, <2>2 DEF SessionInv, RefusedIsLast, TypeOK
    <3>2. x[1] \in Client /\ x[2] \in Nat /\ x = <<x[1], x[2]>> /\ x[2] > 0
      BY <3>1, RequestParts
    <3>3. x[1] # c
      <4> SUFFICES ASSUME x[1] = c PROVE FALSE
        OBVIOUS
      <4>1. <<c, sent[c]>> \in answered
        BY <3>1, <3>2 DEF AddRequest, CanAsk
      <4>2. x \in answered
        BY <3>1, <3>2, <4>1
      <4> QED BY <1>0, <3>1, <4>2 DEF RequestsOnce
    <3> QED BY <1>1, <3>1, <3>2, <3>3
  <2> QED BY <2>1, <2>2
<1>13. Accounted'
  <2> SUFFICES ASSUME NEW x \in Request, Sent(x)' PROVE AccountedFor(x)'
    BY DEF Accounted
  <2>1. CASE x = r
    BY <1>4, <2>1 DEF AccountedFor
  <2>2. CASE x # r
    <3>1. AccountedFor(x)
      BY <1>1, <2>2 DEF SessionInv, Accounted
    <3> QED BY <1>2, <1>4, <3>1 DEF AccountedFor, Unserved
  <2> QED BY <2>1, <2>2
<1>14. HeldIsBegin'
  BY <1>1, <1>2 DEF SessionInv, HeldIsBegin
<1>15. Intact' => Intact
  BY <1>4 DEF Intact
<1>16. PcOK'
  BY <1>2, <1>15 DEF SessionInv, PcOK
<1>17. TransactionsKeptApart'
  BY <1>2, <1>15, KeptApartQueues DEF SessionInv
<1> QED BY <1>9, <1>10, <1>11, <1>12, <1>13, <1>14, <1>16, <1>17 DEF SessionInv


\* What a launch leaves of the backlog.
LEMMA LaunchBacklog ==
  ASSUME BaseInv, SessionInv, Launches
  PROVE  /\ Backlog # <<>> /\ Backlog[1] \in Request /\ Sent(Backlog[1]) /\ 1 \in DOMAIN Backlog
         /\ \A x : InBacklog(x)' <=> InBacklog(x) /\ x # Backlog[1]
         /\ \A k \in DOMAIN Backlog' : k + 1 \in DOMAIN Backlog /\ Backlog'[k] = Backlog[k + 1] /\ k \in Nat
         /\ \A x \in Request : InBacklog(x)' /\ x[1] = Backlog[1][1] => Backlog[1][2] < x[2]
         /\ UNCHANGED <<answered, sent, dropped, pc>> /\ current_request' = NoRequest
<1>1. Backlog # <<>> /\ Backlog' = Tail(Backlog)
  BY DEF Launches, Begins, Joins
<1>2. UNCHANGED <<answered, sent, dropped, pc>> /\ current_request' = NoRequest
  BY DEF Launches, clientVars, runVars
<1>3. \A x : InBacklog(x)' <=> InBacklog(x) /\ x # Backlog[1]
  BY <1>1, LaunchTakes DEF BaseInv
<1>4. /\ Backlog[1] \in Request /\ Sent(Backlog[1]) /\ 1 \in DOMAIN Backlog
      /\ \A x \in Request : InBacklog(x) /\ x[1] = Backlog[1][1] =>
              x = Backlog[1] \/ Backlog[1][2] < x[2]
  BY <1>1, NextToLaunch DEF SessionInv
<1>5. \A k \in DOMAIN Backlog' : k + 1 \in DOMAIN Backlog /\ Backlog'[k] = Backlog[k + 1] /\ k \in Nat
  BY <1>1, TailOfBacklog DEF BaseInv
<1> QED BY <1>1, <1>2, <1>3, <1>4, <1>5

\* A launched request is behind those of its client that wait to be launched.
LEMMA LaunchInOrder ==
  ASSUME BaseInv, SessionInv, Launches, NEW i \in Slot, NEW u, QueuesWith(i, u, Backlog[1])
  PROVE  InOrder'
<1> PICK r : r = Backlog[1]
  OBVIOUS
<1>1. /\ Backlog # <<>> /\ r \in Request /\ 1 \in DOMAIN Backlog
      /\ \A k \in DOMAIN Backlog' : k + 1 \in DOMAIN Backlog /\ Backlog'[k] = Backlog[k + 1] /\ k \in Nat
  BY LaunchBacklog
<1>2. ASSUME NEW j \in DOMAIN Backlog', NEW k \in DOMAIN Backlog', j < k,
             Backlog'[j][1] = Backlog'[k][1]
      PROVE  Backlog'[j][2] < Backlog'[k][2]
  <2>1. /\ j + 1 \in DOMAIN Backlog /\ k + 1 \in DOMAIN Backlog /\ j + 1 < k + 1
        /\ Backlog'[j] = Backlog[j + 1] /\ Backlog'[k] = Backlog[k + 1]
    BY <1>1, <1>2
  <2> QED BY <1>2, <2>1 DEF SessionInv, InOrder
<1>3. ASSUME NEW j \in Slot, NEW m \in DOMAIN task'[j].queue, NEW k \in DOMAIN Backlog',
             task'[j].queue[m][1] = Backlog'[k][1]
      PROVE  task'[j].queue[m][2] < Backlog'[k][2]
  <2>1. /\ k + 1 \in DOMAIN Backlog /\ 1 < k + 1 /\ Backlog'[k] = Backlog[k + 1]
    <3>1. k + 1 \in DOMAIN Backlog /\ Backlog'[k] = Backlog[k + 1] /\ k \in Nat
      BY <1>1
    <3>2. k # 0
      <4>1. Backlog \in Seq(Request)
        BY BacklogType DEF BaseInv
      <4>2. Backlog' = Tail(Backlog)
        BY DEF Launches
      <4>3. Tail(Backlog) \in Seq(Request)
        BY <1>1, <4>1
      <4>4. 0 \notin DOMAIN Tail(Backlog)
        BY <4>3
      <4> QED BY <4>2, <4>4
    <3> QED BY <3>1, <3>2
  <2>2. \/ m \in DOMAIN task[j].queue /\ task'[j].queue[m] = task[j].queue[m]
        \/ task'[j].queue[m] = r
    BY DEF QueuesWith
  <2>3. CASE m \in DOMAIN task[j].queue /\ task'[j].queue[m] = task[j].queue[m]
    BY <1>3, <2>1, <2>3 DEF SessionInv, InOrder
  <2>4. CASE task'[j].queue[m] = r
    BY <1>1, <1>3, <2>1, <2>4 DEF SessionInv, InOrder
  <2> QED BY <2>2, <2>3, <2>4
<1> QED BY <1>2, <1>3 DEF InOrder

\* The launched request is the last of its client now; nobody else's task goes away.
LEMMA LaunchFrontier ==
  ASSUME BaseInv, SessionInv, Launches, NEW i \in Slot, NEW r, r = Backlog[1],
         \A j \in Slot : j # i => task'[j] = task[j], LastIn(i, r)',
         \A x \in Request : LastIn(i, x) => x[1] = r[1] /\ x[2] < r[2]
  PROVE  FrontierKept'
<1>1. /\ r \in Request /\ Sent(r)
      /\ \A x : InBacklog(x)' <=> InBacklog(x) /\ x # r
      /\ \A x \in Request : InBacklog(x)' /\ x[1] = r[1] => r[2] < x[2]
      /\ sent' = sent /\ dropped' = dropped
  BY LaunchBacklog
<1>2. SUFFICES ASSUME NEW x \in Request, Sent(x)', sent'[x[1]] = x[2] \/ InBacklog(Successor(x))'
               PROVE  \/ InBacklog(x)' \/ x \in dropped' \/ Ends(x)
                      \/ \E j \in Slot : LastIn(j, x)'
  BY DEF FrontierKept, Successor
<1>3. CASE x = r
  BY <1>3
<1>4. CASE x # r
  <2>1. Sent(x) /\ (sent[x[1]] = x[2] \/ InBacklog(Successor(x)))
    BY <1>1, <1>2 DEF Sent
  <2>2. \/ InBacklog(x) \/ x \in dropped \/ Ends(x)
        \/ \E j \in Slot : LastIn(j, x)
    BY <2>1 DEF SessionInv, FrontierKept
  <2>3. ASSUME NEW j \in Slot, LastIn(j, x)
        PROVE  LastIn(j, x)'
    <3>1. CASE j # i
      BY <2>3, <3>1 DEF LastIn
    <3>2. CASE j = i
      <4>1. x[1] = r[1] /\ x[2] < r[2] /\ x[1] \in Client /\ x[2] \in Nat /\ r[2] \in Nat
        BY <1>1, <2>3, <3>2, RequestParts
      <4>2. sent[x[1]] >= r[2] /\ sent[x[1]] \in Nat
        BY <1>1, <4>1 DEF Sent, BaseInv, TypeOK
      <4>3. InBacklog(Successor(x))'
        BY <1>1, <1>2, <4>1, <4>2
      <4>4. /\ Successor(x)[1] = r[1] /\ Successor(x)[2] = x[2] + 1
        BY <4>1 DEF Successor
      <4>5. Successor(x) \in Request
        <5>1. InBacklog(Successor(x))
          BY <1>1, <4>3
        <5>2. Backlog \in Seq(Request)
          BY BacklogType DEF BaseInv
        <5> QED BY <5>1, <5>2 DEF InBacklog
      <4>6. r[2] < x[2] + 1
        BY <1>1, <4>3, <4>4, <4>5
      <4> QED BY <4>1, <4>6
    <3> QED BY <3>1, <3>2
  <2>4. InBacklog(x) => InBacklog(x)'
    BY <1>1, <1>4
  <2> QED BY <1>1, <2>2, <2>3, <2>4
<1> QED BY <1>3, <1>4

LEMMA LaunchAccounted ==
  ASSUME BaseInv, SessionInv, Launches, NEW i \in Slot, NEW u, NEW r, r = Backlog[1],
         task'[i] = u, \A j \in Slot : j # i => task'[j] = task[j],
         \E m \in DOMAIN u.queue : u.queue[m] = r /\ Unserved(u, m),
         \A m \in DOMAIN task[i].queue : Unserved(task[i], m) =>
           m \in DOMAIN u.queue /\ u.queue[m] = task[i].queue[m] /\ Unserved(u, m)
  PROVE  Accounted'
<1>1. /\ \A x : InBacklog(x)' <=> InBacklog(x) /\ x # r
      /\ sent' = sent /\ dropped' = dropped /\ answered' = answered
  BY LaunchBacklog
<1>2. \A x : Sent(x)' <=> Sent(x)
  BY <1>1 DEF Sent
<1> SUFFICES ASSUME NEW x \in Request, Sent(x) PROVE AccountedFor(x)'
  BY <1>2 DEF Accounted
<1>3. ASSUME NEW j \in Slot, NEW m, m \in DOMAIN task'[j].queue, task'[j].queue[m] = x,
             Unserved(task'[j], m)
      PROVE  AccountedFor(x)'
  BY <1>3 DEF AccountedFor, Unserved
<1>4. CASE x = r
  BY <1>3, <1>4
<1>5. CASE x # r
  <2>1. AccountedFor(x)
    BY DEF SessionInv, Accounted
  <2>2. ASSUME NEW j \in Slot, NEW m \in DOMAIN task[j].queue, task[j].queue[m] = x,
               Unserved(task[j], m)
        PROVE  AccountedFor(x)'
    BY <1>3, <2>2
  <2>3. (x \in dropped \/ InBacklog(x) \/ x \in answered \/ Type(x) = "ReadDataStore") => AccountedFor(x)'
    BY <1>1, <1>5 DEF AccountedFor
  <2> QED BY <2>1, <2>2, <2>3 DEF AccountedFor
<1> QED BY <1>4, <1>5

LEMMA LaunchRest ==
  ASSUME BaseInv, SessionInv, Launches
  PROVE  RefusedIsLast' /\ HeldIsBegin' /\ PcOK' /\ (Intact' <=> Intact)
<1>1. sent' = sent /\ dropped' = dropped /\ pc' = pc /\ current_request' = NoRequest
  BY LaunchBacklog
<1> QED BY <1>1 DEF SessionInv, RefusedIsLast, HeldIsBegin, PcOK, Intact

LEMMA BeginSession ==
  ASSUME BaseInv, SessionInv, Launches, OneTransactionPerSession, NEW i \in Slot, Begins(i)
  PROVE  SessionInv'
<1> PICK r : r = Backlog[1]
  OBVIOUS
<1>1. PICK u : /\ task' = [task EXCEPT ![i] = u] /\ Launched(task[i], u, Backlog[1])
               /\ u.in_use /\ u.queue = <<Backlog[1]>> /\ u.session_id = SessionOf(Backlog[1])
               /\ u.current = 0
  BY BeginsLaunched DEF BaseInv
<1>2. /\ u.in_use /\ u.queue = <<r>> /\ u.session_id = SessionOf(r) /\ u.current = 0
      /\ Launched(task[i], u, r)
  BY <1>1
<1>3. QueuesWith(i, u, r)
  BY <1>1, <1>2, LaunchQueues DEF BaseInv
<1>4. task'[i] = u /\ \A j \in Slot : j # i => task'[j] = task[j]
  BY <1>3 DEF QueuesWith
<1>5. r \in Request /\ Type(r) = "Begin" /\ ~ task[i].in_use /\ Backlog # <<>>
  BY LaunchBacklog DEF Begins
<1>6. DOMAIN u.queue = {1} /\ u.queue[1] = r /\ Len(u.queue) = 1 /\ u.queue # <<>>
  BY <1>2
<1>7. \A j \in Slot : task[j].session_id # SessionOf(r)
  BY <1>5, QueuedBefore DEF SessionInv
<1>8. InOrder'
  BY <1>3, LaunchInOrder
<1>9. TaskOfSession'
  <2> SUFFICES ASSUME NEW j \in Slot
               PROVE  /\ task'[j].session_id # 0 => task'[j].queue # <<>>
                      /\ task'[j].in_use => task'[j].queue # <<>>
                      /\ \A m \in DOMAIN task'[j].queue :
                           /\ SessionOf(task'[j].queue[m]) = task'[j].session_id
                           /\ Ends(task'[j].queue[m]) => m = Len(task'[j].queue)
                           /\ m = 1 <=> Type(task'[j].queue[m]) = "Begin"
                      /\ ~ task'[j].in_use /\ task'[j].queue # <<>> =>
                           /\ task'[j].current = Len(task'[j].queue)
                           /\ Ends(task'[j].queue[task'[j].current])
                      /\ \A k \in Slot : task'[j].session_id = task'[k].session_id =>
                           j = k \/ task'[j].session_id = 0
    BY DEF TaskOfSession
  <2>1. CASE j = i
    BY <1>2, <1>4, <1>5, <1>6, <1>7, <2>1
  <2>2. CASE j # i
    <3>1. task'[j] = task[j]
      BY <1>4, <2>2
    <3> QED BY <1>2, <1>4, <1>7, <2>2, <3>1 DEF SessionInv, TaskOfSession
  <2> QED BY <2>1, <2>2
<1>10. FrontierKept'
  <2>1. LastIn(i, r)'
    BY <1>2, <1>4, <1>6 DEF LastIn
  <2>2. \A x : ~ LastIn(i, x)
    BY <1>5 DEF LastIn
  <2> QED BY <1>4, <2>1, <2>2, LaunchFrontier
<1>11. Accounted'
  <2>1. Unserved(u, 1)
    BY <1>2 DEF Unserved
  <2>2. \A m \in DOMAIN task[i].queue : ~ Unserved(task[i], m)
    <3> SUFFICES ASSUME NEW m \in DOMAIN task[i].queue PROVE ~ Unserved(task[i], m)
      OBVIOUS
    <3>1. task[i].queue \in Seq(Request) /\ task[i].queue # <<>>
      <4>1. task[i].queue \in Seq(Request)
        BY DEF BaseInv, TypeOK, TaskTypeOK, Task
      <4>2. task[i].queue = <<>> => DOMAIN task[i].queue = {}
        OBVIOUS
      <4> QED BY <4>1, <4>2
    <3>2. task[i].current = Len(task[i].queue) /\ task[i].phase # "Serving"
      <4>1. task[i].current = Len(task[i].queue)
        BY <1>5, <3>1 DEF SessionInv, TaskOfSession
      <4>2. Consistent(task[i])
        BY DEF BaseInv, TasksInv
      <4>3. task[i].phase \in {"Reset", "Finished"}
        BY <1>5, <4>2 DEF Consistent
      <4> QED BY <4>1, <4>3
    <3>3. m \in 1 .. Len(task[i].queue) /\ Len(task[i].queue) \in Nat
      BY <3>1
    <3> QED BY <3>2, <3>3 DEF Unserved
  <2> QED BY <1>4, <1>6, <2>1, <2>2, LaunchAccounted
<1>12. TransactionsKeptApart'
  <2>1. \A j \in Slot : j # i => task'[j].queue = task[j].queue
    BY <1>4
  <2>2. OneTransactionIn(u.queue)
    BY <1>5, <1>6 DEF OneTransactionIn
  <2> QED BY <1>4, <2>1, <2>2, KeptApartQueues, LaunchRest DEF SessionInv
<1> QED BY <1>8, <1>9, <1>10, <1>11, <1>12, LaunchRest DEF SessionInv


LEMMA AppendedRequest ==
  ASSUME NEW q \in Seq(Request), q # <<>>, NEW r \in Request, NEW w, w = Append(q, r)
  PROVE  /\ Len(q) \in Nat /\ Len(q) \in DOMAIN q
         /\ w # <<>> /\ Len(w) = Len(q) + 1 /\ w[Len(q) + 1] = r
         /\ Len(q) + 1 \in DOMAIN w
         /\ \A m \in DOMAIN q : m \in DOMAIN w /\ w[m] = q[m]
         /\ \A m \in DOMAIN w : \/ m \in DOMAIN q /\ m # Len(q) + 1
                                \/ m = Len(q) + 1 /\ m # 1
<1>1. Len(q) \in Nat /\ Len(q) \in DOMAIN q /\ w \in Seq(Request) /\ Len(w) = Len(q) + 1
  OBVIOUS
<1>2. w[Len(q) + 1] = r /\ Len(q) + 1 \in DOMAIN w /\ w # <<>>
  BY <1>1
<1>3. \A m \in DOMAIN q : m \in DOMAIN w /\ w[m] = q[m]
  OBVIOUS
<1>4. \A m \in DOMAIN w : (m \in DOMAIN q /\ m # Len(q) + 1) \/ (m = Len(q) + 1 /\ m # 1)
  BY <1>1
<1> QED BY <1>1, <1>2, <1>3, <1>4


\* The request r joins task i, whose queue is q; the task becomes u.
Joined(i, u, r, q) ==
  /\ task'[i] = u /\ \A j \in Slot : j # i => task'[j] = task[j]
  /\ QueuesWith(i, u, r)
  /\ u.in_use /\ task[i].in_use
  /\ u.session_id = SessionOf(r) /\ task[i].session_id = SessionOf(r)
  /\ u.current = task[i].current /\ u.phase = task[i].phase
  /\ q \in Seq(Request) /\ Len(q) \in Nat /\ Len(q) \in DOMAIN q /\ q # <<>>
  /\ u.queue # <<>> /\ Len(u.queue) = Len(q) + 1 /\ u.queue[Len(q) + 1] = r
  /\ Len(q) + 1 \in DOMAIN u.queue
  /\ \A m \in DOMAIN q : m \in DOMAIN u.queue /\ u.queue[m] = q[m]
  /\ \A m \in DOMAIN u.queue : \/ m \in DOMAIN q /\ m # Len(q) + 1
                               \/ m = Len(q) + 1 /\ m # 1
  /\ \A m \in DOMAIN q : /\ q[m] \in Request /\ q[m][1] = r[1] /\ q[m][2] < r[2]
                         /\ ~ Ends(q[m])
  /\ r \in Request /\ Type(r) # "Begin"

LEMMA JoinsQueue ==
  ASSUME BaseInv, SessionInv, OneTransactionPerSession, Launches, NEW i \in Slot, Joins(i),
         NEW r, r = Backlog[1], NEW q, q = task[i].queue
  PROVE  \E u : Joined(i, u, r, q)
<1>1. PICK u : /\ task' = [task EXCEPT ![i] = u] /\ Launched(task[i], u, Backlog[1])
               /\ u.in_use = task[i].in_use /\ u.queue = Append(task[i].queue, Backlog[1])
               /\ u.session_id = task[i].session_id /\ u.current = task[i].current
               /\ u.phase = task[i].phase
  BY JoinsLaunched DEF BaseInv
<1>2. Backlog # <<>> /\ Type(r) # "Begin" /\ task[i].session_id = SessionOf(r)
  BY DEF Joins
<1>3. /\ q # <<>> /\ task[i].in_use
      /\ \A m \in DOMAIN q : /\ q[m] \in Request /\ q[m][1] = r[1] /\ q[m][2] < r[2]
                             /\ ~ Ends(q[m])
  BY <1>2, QueuedBefore DEF SessionInv
<1>4. q \in Seq(Request)
  BY DEF BaseInv, TypeOK, TaskTypeOK, Task
<1>5. r \in Request
  BY LaunchBacklog
<1>6. QueuesWith(i, u, r)
  BY <1>1, LaunchQueues DEF BaseInv
<1>7. task'[i] = u /\ \A j \in Slot : j # i => task'[j] = task[j]
  BY <1>6 DEF QueuesWith
<1>8. u.queue = Append(q, r)
  BY <1>1
<1>9. /\ Len(q) \in Nat /\ Len(q) \in DOMAIN q
      /\ u.queue # <<>> /\ Len(u.queue) = Len(q) + 1 /\ u.queue[Len(q) + 1] = r
      /\ Len(q) + 1 \in DOMAIN u.queue
      /\ \A m \in DOMAIN q : m \in DOMAIN u.queue /\ u.queue[m] = q[m]
      /\ \A m \in DOMAIN u.queue : \/ m \in DOMAIN q /\ m # Len(q) + 1
                                   \/ m = Len(q) + 1 /\ m # 1
  BY <1>3, <1>4, <1>5, <1>8, AppendedRequest
<1>10. Joined(i, u, r, q)
  BY <1>1, <1>2, <1>3, <1>4, <1>5, <1>6, <1>7, <1>9 DEF Joined
<1> QED BY <1>10


LEMMA JoinSession ==
  ASSUME BaseInv, SessionInv, Launches, OneTransactionPerSession, NEW i \in Slot, Joins(i)
  PROVE  SessionInv'
<1> PICK r : r = Backlog[1]
  OBVIOUS
<1> PICK q : q = task[i].queue
  OBVIOUS
<1>0. PICK u : Joined(i, u, r, q)
  BY JoinsQueue
<1>1. /\ task'[i] = u /\ \A j \in Slot : j # i => task'[j] = task[j]
      /\ QueuesWith(i, u, r)
      /\ u.in_use /\ task[i].in_use
      /\ u.session_id = SessionOf(r) /\ task[i].session_id = SessionOf(r)
      /\ u.current = task[i].current /\ u.phase = task[i].phase
      /\ q \in Seq(Request) /\ Len(q) \in Nat /\ Len(q) \in DOMAIN q /\ q # <<>>
      /\ u.queue # <<>> /\ Len(u.queue) = Len(q) + 1 /\ u.queue[Len(q) + 1] = r
      /\ Len(q) + 1 \in DOMAIN u.queue
      /\ \A m \in DOMAIN q : m \in DOMAIN u.queue /\ u.queue[m] = q[m]
      /\ \A m \in DOMAIN u.queue : \/ m \in DOMAIN q /\ m # Len(q) + 1
                                   \/ m = Len(q) + 1 /\ m # 1
      /\ \A m \in DOMAIN q : /\ q[m] \in Request /\ q[m][1] = r[1] /\ q[m][2] < r[2]
                             /\ ~ Ends(q[m])
      /\ r \in Request /\ Type(r) # "Begin"
  BY <1>0 DEF Joined
<1>2. \A j \in Slot : task[j].session_id = SessionOf(r) => j = i
  <2>1. SessionOf(r) # 0
    BY <1>1 DEF OneTransactionPerSession
  <2> QED BY <1>1, <2>1 DEF SessionInv, TaskOfSession
<1>3. InOrder'
  BY <1>1, LaunchInOrder
<1>4. TaskOfSession'
  <2> SUFFICES ASSUME NEW j \in Slot
               PROVE  /\ task'[j].session_id # 0 => task'[j].queue # <<>>
                      /\ task'[j].in_use => task'[j].queue # <<>>
                      /\ \A m \in DOMAIN task'[j].queue :
                           /\ SessionOf(task'[j].queue[m]) = task'[j].session_id
                           /\ Ends(task'[j].queue[m]) => m = Len(task'[j].queue)
                           /\ m = 1 <=> Type(task'[j].queue[m]) = "Begin"
                      /\ ~ task'[j].in_use /\ task'[j].queue # <<>> =>
                           /\ task'[j].current = Len(task'[j].queue)
                           /\ Ends(task'[j].queue[task'[j].current])
                      /\ \A k \in Slot : task'[j].session_id = task'[k].session_id =>
                           j = k \/ task'[j].session_id = 0
    BY DEF TaskOfSession
  <2>0. \A k \in Slot : task'[k].session_id = task[k].session_id
    BY <1>1
  <2>1. \A k \in Slot : task'[j].session_id = task'[k].session_id =>
                           j = k \/ task'[j].session_id = 0
    BY <2>0 DEF SessionInv, TaskOfSession
  <2>2. CASE j = i
    <3>1. ASSUME NEW m \in DOMAIN u.queue
          PROVE  /\ SessionOf(u.queue[m]) = SessionOf(r)
                 /\ Ends(u.queue[m]) => m = Len(u.queue)
                 /\ m = 1 <=> Type(u.queue[m]) = "Begin"
      <4>1. CASE m \in DOMAIN q
        <5>1. /\ SessionOf(q[m]) = SessionOf(r)
              /\ m = 1 <=> Type(q[m]) = "Begin"
          BY <1>1, <4>1 DEF SessionInv, TaskOfSession
        <5> QED BY <1>1, <4>1, <5>1
      <4>2. CASE m = Len(q) + 1 /\ m # 1
        BY <1>1, <4>2
      <4> QED BY <1>1, <3>1, <4>1, <4>2
    <3> QED BY <1>1, <2>1, <2>2, <3>1
  <2>3. CASE j # i
    <3>1. task'[j] = task[j]
      BY <1>1, <2>3
    <3> QED BY <2>1, <3>1 DEF SessionInv, TaskOfSession
  <2> QED BY <2>2, <2>3
<1>5. FrontierKept'
  <2>1. LastIn(i, r)'
    BY <1>1 DEF LastIn
  <2>2. \A x \in Request : LastIn(i, x) => x[1] = r[1] /\ x[2] < r[2]
    BY <1>1 DEF LastIn
  <2> QED BY <1>1, <2>1, <2>2, LaunchFrontier
<1>6. Accounted'
  <2>1. Unserved(u, Len(q) + 1)
    <3>1. task[i].current <= Len(q) /\ task[i].current \in Nat
      BY DEF BaseInv, TasksInv, Consistent, TypeOK, TaskTypeOK, Task
    <3> QED BY <1>1, <3>1 DEF Unserved
  <2>2. \A m \in DOMAIN q : Unserved(task[i], m) =>
          m \in DOMAIN u.queue /\ u.queue[m] = task[i].queue[m] /\ Unserved(u, m)
    BY <1>1 DEF Unserved
  <2>3. \E m \in DOMAIN u.queue : u.queue[m] = r /\ Unserved(u, m)
    BY <1>1, <2>1
  <2>4. \A m \in DOMAIN task[i].queue : Unserved(task[i], m) =>
          m \in DOMAIN u.queue /\ u.queue[m] = task[i].queue[m] /\ Unserved(u, m)
    BY <2>2
  <2>5. task'[i] = u /\ \A j \in Slot : j # i => task'[j] = task[j]
    BY <1>1
  <2> QED BY <2>3, <2>4, <2>5, LaunchAccounted
<1>7. TransactionsKeptApart'
  <2> SUFFICES ASSUME Intact PROVE \A j \in Slot : OneTransactionIn(task'[j].queue)
    BY KeptApartQueues, LaunchRest
  <2>1. \A j \in Slot : OneTransactionIn(task[j].queue)
    BY KeptApartQueues DEF SessionInv
  <2>2. q[Len(q)] = <<r[1], r[2] - 1>>
    <3>1. PICK j \in Slot : /\ task[j].session_id = SessionOf(r)
                            /\ LastIn(j, <<r[1], r[2] - 1>>)
      BY PredecessorServed DEF SessionInv, Joins
    <3>2. j = i
      BY <1>2, <3>1
    <3> QED BY <3>1, <3>2 DEF LastIn
  <2>3. q[Len(q)][1] = r[1] /\ r[2] = q[Len(q)][2] + 1
    BY <1>1, <2>2, RequestParts
  <2>4. ASSUME NEW m \in DOMAIN u.queue
        PROVE  IF m = 1 THEN Type(u.queue[m]) = "Begin"
               ELSE /\ Type(u.queue[m]) # "Begin" /\ u.queue[m][1] = u.queue[m - 1][1]
                    /\ u.queue[m][2] = u.queue[m - 1][2] + 1
    <3>1. CASE m \in DOMAIN q
      <4>1. IF m = 1 THEN Type(q[m]) = "Begin"
            ELSE Type(q[m]) # "Begin" /\ q[m][1] = q[m - 1][1] /\ q[m][2] = q[m - 1][2] + 1
        BY <2>1, <3>1 DEF OneTransactionIn
      <4>2. m # 1 => m - 1 \in DOMAIN q
        BY <1>1, <3>1
      <4> QED BY <1>1, <3>1, <4>1, <4>2
    <3>2. CASE m = Len(q) + 1 /\ m # 1
      <4>1. m - 1 = Len(q)
        BY <1>1, <3>2
      <4> QED BY <1>1, <2>3, <3>2, <4>1
    <3> QED BY <1>1, <2>4, <3>1, <3>2
  <2>5. OneTransactionIn(u.queue)
    BY <2>4 DEF OneTransactionIn
  <2> QED BY <1>1, <2>1, <2>5
<1> QED BY <1>3, <1>4, <1>5, <1>6, <1>7, LaunchRest DEF SessionInv


LEMMA NextSession == OneTransactionPerSession /\ BaseInv /\ SessionInv /\ [Next]_vars => SessionInv'
<1> SUFFICES ASSUME OneTransactionPerSession, BaseInv, SessionInv, [Next]_vars
             PROVE  SessionInv'
  OBVIOUS
<1>1. CASE \E c \in Client : AddRequest(c)
  BY <1>1, AddRequestSession
<1>2. CASE Launches
  <2>1. PICK i \in Slot : Begins(i) \/ Joins(i)
    BY <1>2 DEF Launches
  <2> QED BY <1>2, <2>1, BeginSession, JoinSession
<1>3. CASE /\ Polls /\ Backlog' = Backlog /\ pc' \in {pc, "loop"}
           /\ pc = "no session task" => pc' = pc
  BY <1>3, PollsSession
<1>4. CASE /\ Quiet
           /\ \/ /\ UNCHANGED queueVars
                 /\ pc' \in {pc, "stopped", "launch", "advance", "recover"}
                 /\ pc = "no session task" => pc' = pc
              \/ pc' = "advance" /\ Type(current_request') = "Begin"
              \/ pc' = "no session task" /\ NoTaskForSession
  BY <1>4, QuietSession
<1> QED BY <1>1, <1>2, <1>3, <1>4, Steps DEF BaseInv

\* For clients that use a session for one transaction: what the executor of sessions
\* keeps to.
LEMMA SessionsInvariant ==
  ASSUME OneTransactionPerSession
  PROVE  Spec => [](BaseInv /\ SessionInv)
<1>1. Init => BaseInv /\ SessionInv
  BY InitBase, InitSession
<1>2. BaseInv /\ SessionInv /\ [Next]_vars => (BaseInv /\ SessionInv)'
  BY NextBase, NextSession
<1> QED BY <1>1, <1>2, PTL DEF Spec

\* For clients that use a session for one transaction: a task never holds requests of
\* two transactions, nor a request of a transaction without those before it, unless
\* the full queue has refused one of a client that did not wait for the answer.
THEOREM KeptApart ==
  ASSUME OneTransactionPerSession
  PROVE  Spec => []TransactionsKeptApart
<1>1. SessionInv => TransactionsKeptApart
  BY DEF SessionInv
<1> QED BY <1>1, SessionsInvariant, PTL

\* Under the same conditions LaunchRequests finds a task for every request that
\* it takes: neither of its exceptions is thrown.
THEOREM ThrowsNever ==
  ASSUME OneTransactionPerSession
  PROVE  Spec => []NeverThrows
<1>1. SessionInv => NeverThrows
  BY DEF SessionInv, PcOK, NeverThrows
<1> QED BY <1>1, SessionsInvariant, PTL

LEMMA OwedWhenStopped ==
  ASSUME BaseInv, SessionInv
  PROVE  StoppedOwesOnlyHeldBegin
<1> SUFFICES ASSUME pc = "stopped", ~ MustRun, NEW r \in Request, Sent(r)
             PROVE  \/ r \in answered \cup dropped
                    \/ r = current_request /\ Type(r) = "Begin"
                    \/ Type(r) = "ReadDataStore"
  BY DEF StoppedOwesOnlyHeldBegin
<1>1. request_queue_pool = <<>> /\ active_txn_number = 0
  BY DEF MustRun, BaseInv, TypeOK, TaskTypeOK
<1>2. \A i \in Slot : ~ task[i].in_use
  <2>1. Cardinality(Slot \ Free) = 0
    BY <1>1 DEF BaseInv, ActiveTasksCounted
  <2>2. IsFiniteSet(Slot \ Free)
    <3>1. Slot \ Free \subseteq Slot
      OBVIOUS
    <3> QED BY <3>1, SlotsFinite
  <2>3. Slot \ Free = {}
    BY <2>1, <2>2, FS_EmptySet
  <2> QED BY <2>3 DEF Free
<1>3. ASSUME NEW i \in Slot, NEW m \in DOMAIN task[i].queue
      PROVE  ~ Unserved(task[i], m)
  <2>1. task[i].queue \in Seq(Request) /\ task[i].queue # <<>>
    <3>1. task[i].queue \in Seq(Request)
      BY DEF BaseInv, TypeOK, TaskTypeOK, Task
    <3>2. task[i].queue = <<>> => DOMAIN task[i].queue = {}
      OBVIOUS
    <3> QED BY <1>3, <3>1, <3>2
  <2>2. task[i].current = Len(task[i].queue)
    BY <1>2, <2>1 DEF SessionInv, TaskOfSession
  <2>3. Consistent(task[i]) /\ ~ task[i].in_use
    BY <1>2 DEF BaseInv, TasksInv
  <2>4. task[i].phase \in {"Reset", "Finished"}
    BY <2>3 DEF Consistent
  <2>5. m \in 1 .. Len(task[i].queue) /\ Len(task[i].queue) \in Nat
    BY <1>3, <2>1
  <2> QED BY <2>2, <2>4, <2>5 DEF Unserved
<1>4. AccountedFor(r)
  BY DEF SessionInv, Accounted
<1>5. r \in dropped \/ InBacklog(r) \/ r \in answered \/ Type(r) = "ReadDataStore"
  BY <1>3, <1>4 DEF AccountedFor
<1>6. InBacklog(r) => r = current_request /\ Type(r) = "Begin"
  <2> SUFFICES ASSUME NEW k \in DOMAIN Backlog, Backlog[k] = r
               PROVE  r = current_request /\ Type(r) = "Begin"
    BY DEF InBacklog
  <2>1. current_request # NoRequest
    <3> SUFFICES ASSUME current_request = NoRequest PROVE FALSE
      OBVIOUS
    <3>1. Backlog = <<>>
      BY <1>1 DEF Backlog
    <3>2. DOMAIN Backlog = {}
      BY <3>1
    <3> QED BY <3>2
  <2>2. Backlog = <<current_request>>
    BY <1>1, <2>1 DEF Backlog
  <2>3. r = current_request
    BY <2>2
  <2> QED BY <2>1, <2>3 DEF SessionInv, HeldIsBegin
<1> QED BY <1>5, <1>6

\* When Run has returned and IsFinished holds, all that is owed of what the queue took
\* is the Begin that LaunchRequests holds back, and the answers to ReadDataStore.
THEOREM StoppedOwes ==
  ASSUME OneTransactionPerSession
  PROVE  Spec => []StoppedOwesOnlyHeldBegin
<1>1. BaseInv /\ SessionInv => StoppedOwesOnlyHeldBegin
  BY OwedWhenStopped
<1> QED BY <1>1, SessionsInvariant, PTL
=============================================================================
