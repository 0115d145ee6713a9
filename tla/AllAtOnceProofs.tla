--------------------------- MODULE AllAtOnceProofs ---------------------------
(***************************************************************************)
(* Proofs about AllAtOnceTransactionExecutor, for any number of tasks, any *)
(* capacity and any batches of whole transactions.                         *)
(***************************************************************************)
EXTENDS AllAtOnceTransactionExecutor, TransactionTaskProofs, SequenceTheorems

\* Request n of the batch.
Nth(n) == <<Owner, n>>

Launched == {Nth(n) : n \in 1 .. pop_index}

\* The pool holds the first requests of the batch; the tasks hold requests that
\* LaunchRequests has moved to them, and answers are given to no others.
PoolOK ==
  /\ push_index <= Len(Script[Owner])
  /\ \A n \in 1 .. push_index : request_queue_pool[n] = Nth(n)
  /\ answered \subseteq Launched
  /\ \A i \in Slot : \A m \in DOMAIN task[i].queue : task[i].queue[m] \in Launched

\* The queue of a task holds one transaction from its Begin to its end.
OneTransactionIn(q) ==
  \A m \in DOMAIN q :
    /\ IF m = 1 THEN Type(q[m]) = "Begin"
       ELSE Type(q[m]) # "Begin" /\ q[m][1] = q[m - 1][1] /\ q[m][2] = q[m - 1][2] + 1
    /\ Ends(q[m]) => m = Len(q)

\* A task in use has a transaction; one that is not has come to the end of it.
TaskOfTransaction ==
  \A i \in Slot :
    /\ OneTransactionIn(task[i].queue)
    /\ task[i].in_use => task[i].queue # <<>>
    /\ ~ task[i].in_use /\ task[i].queue # <<>> => task[i].current = Len(task[i].queue)

\* Between transactions, and where Run runs over whole ones.
Boundaries ==
  /\ pop_index > 0 => Ends(Nth(pop_index))
  /\ pc \in {"launch", "advance", "loop"} => push_index > 0 /\ Ends(Nth(push_index))

\* The tasks that LaunchRequests has gone past are in use.
IndexOK ==
  /\ \A i \in Slot : i < last_index => task[i].in_use
  /\ pc # "launch" => last_index = 1

PcOK ==
  /\ pc \in {"stopped", "launch", "advance", "loop", "recover", "write past the pool"}
  /\ Len(Script[Owner]) <= Capacity => pc # "write past the pool"
  /\ pc = "stopped" => active_txn_number = 0

\* A request that has been launched is answered, or in the queue of a task that has
\* not come to it, or a ReadDataStore that nobody answers.
AccountedFor(r) ==
  \/ r \in answered
  \/ ~ Driver /\ Type(r) = "ReadDataStore"
  \/ \E i \in Slot : \E m \in DOMAIN task[i].queue :
       task[i].queue[m] = r /\ Unserved(task[i], m)

Accounted == \A n \in 1 .. pop_index : AccountedFor(Nth(n))

BaseInv == TypeOK /\ TasksInv /\ ActiveTasksCounted /\ EveryOutcomeCounted /\ PoolOK

BatchInv == TaskOfTransaction /\ Boundaries /\ IndexOK /\ PcOK /\ Accounted


-----------------------------------------------------------------------------
(* The steps of the executor.                                              *)

LEMMA PoolTypes ==
  ASSUME TypeOK
  PROVE  /\ request_queue_pool \in Seq(Request) /\ push_index = Len(request_queue_pool)
         /\ push_index \in Nat /\ pop_index \in Nat /\ pop_index <= push_index
<1>1. request_queue_pool \in Seq(Request) /\ push_index = Len(request_queue_pool)
  BY DEF TypeOK, push_index
<1>2. push_index \in Nat
  BY <1>1
<1>3. pop_index \in 0 .. push_index
  BY DEF TypeOK
<1> QED BY <1>1, <1>2, <1>3

\* The inner loop of LaunchRequests comes to an end, at the first request that ends it.
LEMMA LastOfFound ==
  ASSUME NEW b \in Nat, push_index \in Nat, b <= push_index, NEW s
  PROVE  /\ LastOf(b, s) \in b + 1 .. push_index + 1
         /\ StopsAt(LastOf(b, s), s)
         /\ \A m \in b + 1 .. LastOf(b, s) - 1 : ~ StopsAt(m, s)
<1> DEFINE S == {n \in b + 1 .. push_index + 1 : StopsAt(n, s)}
<1>1. push_index + 1 \in S
  BY DEF StopsAt
<1>2. S \subseteq Nat
  OBVIOUS
<1>3. PICK n \in S : \A j \in S : n <= j
  <2> HIDE DEF S
  <2> QED BY <1>1, <1>2, LeastOf
<1>4. \A m \in b + 1 .. n - 1 : ~ StopsAt(m, s)
  <2> SUFFICES ASSUME NEW m \in b + 1 .. n - 1, StopsAt(m, s) PROVE FALSE
    OBVIOUS
  <2>1. m \in S
    BY <1>3
  <2> QED BY <1>3, <2>1
<1> QED BY <1>3, <1>4 DEF LastOf

Part(b, e) == SubSeq(request_queue_pool, b, e)

\* A transaction, up to request e, is launched in task i, which becomes u.
LaunchesTo(i, e, u) ==
  /\ pc = "launch" /\ pc' = pc
  /\ i \in Slot /\ ~ task[i].in_use
  /\ i >= last_index /\ (\A j \in Free : j >= last_index => i <= j)
  /\ pop_index + 1 < e /\ e \in 1 .. push_index
  /\ task' = [task EXCEPT ![i] = u]
  /\ u \in Task /\ u.in_use /\ u.current = 0 /\ u.phase = "Reset"
  /\ u.queue = Part(pop_index + 1, e)
  /\ Type(request_queue_pool[pop_index + 1]) = "Begin"
  /\ Ends(request_queue_pool[e])
  /\ \A m \in pop_index + 1 .. e - 1 : ~ Ends(request_queue_pool[m])
  /\ active_txn_number < concurrent_txn_count
  /\ active_txn_number' = active_txn_number + 1
  /\ pop_index' = e
  /\ last_index' = i + 1
  /\ UNCHANGED <<answered, commit_count, abort_count, request_queue_pool, poll, has_finished_txn>>

\* The task that is given requests b to e.
Filled(t, s, b, e) == [ResetTask(t, s) EXCEPT !.queue = Part(b, e)]

LEMMA FilledTask ==
  ASSUME TypeOK, NEW t, NEW s \in Nat, NEW b \in 1 .. push_index, NEW e \in 1 .. push_index,
         NEW u, u = Filled(t, s, b, e)
  PROVE  /\ u \in Task /\ u.in_use /\ u.current = 0 /\ u.phase = "Reset"
         /\ u.queue = Part(b, e)
<1>1. request_queue_pool \in Seq(Request) /\ push_index = Len(request_queue_pool)
  BY DEF TypeOK, push_index
<1> PICK q : q = Part(b, e)
  OBVIOUS
<1>2. q \in Seq(Request)
  <2>1. \A n \in b .. e : request_queue_pool[n] \in Request
    BY <1>1
  <2> QED BY <1>1, <2>1, SubSeqProperties DEF Part
<1>3. NewTask \in Task
  BY DEF NewTask, Task
<1> PICK r : r = ResetTask(t, s)
  OBVIOUS
<1>4. r \in Task
  BY <1>3, Zenon DEF Task, ResetTask
<1>5. r.in_use /\ r.current = 0 /\ r.phase = "Reset"
  BY DEF ResetTask, NewTask
<1>0. u = [r EXCEPT !.queue = q]
  BY DEF Filled
<1>6. u \in Task
  BY <1>0, <1>2, <1>4, Zenon DEF Task
<1>7. u.in_use /\ u.current = 0 /\ u.phase = "Reset" /\ u.queue = q
  BY <1>0, <1>4, <1>5 DEF Task
<1> QED BY <1>6, <1>7

LEMMA LaunchMoves ==
  ASSUME TypeOK, LaunchTransaction, pc' = pc
  PROVE  \E i, e, u : LaunchesTo(i, e, u)
<1> DEFINE q == request_queue_pool
<1> PICK b : b = pop_index + 1
  OBVIOUS
<1> PICK s : s = SessionOf(q[b])
  OBVIOUS
<1> PICK e : e = LastOf(b, s)
  OBVIOUS
<1> PICK i : i = FirstSlot({j \in Free : j >= last_index})
  OBVIOUS
<1>1. /\ pc = "launch" /\ pop_index < push_index
      /\ active_txn_number < concurrent_txn_count
      /\ pc' = Crash(i, b, e, s)
      /\ task' = [task EXCEPT ![i] = Filled(task[i], s, b, e)]
      /\ active_txn_number' = active_txn_number + 1
      /\ last_index' = i + 1
      /\ pop_index' = e
      /\ UNCHANGED <<answered, commit_count, abort_count, request_queue_pool, poll, has_finished_txn>>
  BY DEF LaunchTransaction, Filled, Part
<1>2. Type(q[b]) = "Begin" /\ i # 0 /\ ~ (e > push_index) /\ SessionOf(q[e]) = s
  BY <1>1 DEF Crash
<1>3. q \in Seq(Request) /\ pop_index \in Nat /\ push_index \in Nat /\ push_index = Len(q)
  BY PoolTypes
<1>4. b \in 1 .. push_index /\ b \in Nat /\ b <= push_index
  BY <1>1, <1>3
<1>5. /\ e \in b + 1 .. push_index + 1 /\ StopsAt(e, s)
      /\ \A m \in b + 1 .. e - 1 : ~ StopsAt(m, s)
  BY <1>3, <1>4, LastOfFound
<1>6. e \in 1 .. push_index /\ pop_index + 1 < e
  BY <1>2, <1>3, <1>4, <1>5
<1>7. Ends(q[e])
  BY <1>2, <1>5 DEF StopsAt
<1>8. \A m \in b .. e - 1 : ~ Ends(q[m])
  <2> SUFFICES ASSUME NEW m \in b .. e - 1 PROVE ~ Ends(q[m])
    OBVIOUS
  <2>1. CASE m = b
    BY <1>2, <2>1 DEF Ends
  <2>2. CASE m # b
    <3>1. m \in b + 1 .. e - 1
      BY <1>4, <1>6, <2>2
    <3> QED BY <1>5, <3>1 DEF StopsAt
  <2> QED BY <2>1, <2>2
<1>9. i \in Free /\ i >= last_index /\ (\A j \in Free : j >= last_index => i <= j)
  <2> DEFINE S == {j \in Free : j >= last_index}
  <2>1. S \subseteq Slot
    BY DEF Free
  <2>2. i = FirstSlot(S)
    OBVIOUS
  <2> HIDE DEF S
  <2>3. i \in S /\ \A j \in S : i <= j
    BY <1>2, <2>1, <2>2, FirstSlotFound
  <2> QED BY <2>3 DEF S
<1>10. s \in Nat
  <2>1. q[b] \in Request
    BY <1>3, <1>4
  <2> QED BY <2>1, RequestParts
<1> PICK u : u = Filled(task[i], s, b, e)
  OBVIOUS
<1>11. /\ u \in Task /\ u.in_use /\ u.current = 0 /\ u.phase = "Reset"
       /\ u.queue = Part(b, e)
  BY <1>4, <1>6, <1>10, FilledTask
<1>12. i \in Slot /\ ~ task[i].in_use
  BY <1>9 DEF Free
<1>13. LaunchesTo(i, e, u)
  BY <1>1, <1>2, <1>6, <1>7, <1>8, <1>9, <1>11, <1>12 DEF LaunchesTo
<1> QED BY <1>13


\* The requests b to e of the batch.
LEMMA PartOf ==
  ASSUME TypeOK, PoolOK, NEW b \in 1 .. push_index, NEW e \in b .. push_index,
         NEW q, q = Part(b, e)
  PROVE  /\ q \in Seq(Request) /\ Len(q) = e - b + 1 /\ DOMAIN q = 1 .. e - b + 1
         /\ \A m \in 1 .. e - b + 1 : q[m] = Nth(b + m - 1)
<1>1. request_queue_pool \in Seq(Request) /\ push_index = Len(request_queue_pool) /\ push_index \in Nat
  BY PoolTypes
<1>2. \A n \in b .. e : request_queue_pool[n] \in Request
  BY <1>1
<1>3. b \in Int /\ e \in Int /\ b <= e /\ b > 0 /\ e <= push_index
  BY <1>1
<1>4. q \in Seq(Request) /\ Len(q) = e - b + 1
      /\ \A m \in 1 .. e - b + 1 : q[m] = request_queue_pool[b + m - 1]
  BY <1>2, <1>3, SubSeqProperties DEF Part
<1>5. DOMAIN q = 1 .. e - b + 1
  BY <1>4
<1>6. \A m \in 1 .. e - b + 1 : b + m - 1 \in 1 .. push_index
  BY <1>1, <1>3
<1> QED BY <1>4, <1>5, <1>6 DEF PoolOK

\* Every element of the batch that the pool holds is a request.
LEMMA NthRequest ==
  ASSUME TypeOK, PoolOK, NEW n \in 1 .. push_index
  PROVE  Nth(n) \in Request /\ request_queue_pool[n] = Nth(n) /\ Nth(n)[1] = Owner /\ Nth(n)[2] = n
<1>1. request_queue_pool \in Seq(Request) /\ push_index = Len(request_queue_pool)
  BY PoolTypes
<1> QED BY <1>1 DEF PoolOK, Nth

LEMMA PushNat == TypeOK => push_index \in Nat /\ pop_index \in Nat /\ pop_index <= push_index
BY PoolTypes

\* What a launch does to tasks and requests.
LEMMA LaunchFills ==
  ASSUME TypeOK, PoolOK, NEW i, NEW e, NEW u, LaunchesTo(i, e, u)
  PROVE  /\ i \in Slot /\ task'[i] = u /\ \A j \in Slot : j # i => task'[j] = task[j]
         /\ pop_index \in Nat /\ e \in Nat /\ pop_index + 1 < e /\ e <= push_index /\ push_index \in Nat
         /\ u \in Task /\ u.in_use /\ u.current = 0 /\ u.phase = "Reset"
         /\ u.queue \in Seq(Request) /\ Len(u.queue) = e - pop_index
         /\ DOMAIN u.queue = 1 .. e - pop_index
         /\ \A m \in 1 .. e - pop_index :
              u.queue[m] = Nth(pop_index + m) /\ pop_index + m \in 1 .. push_index
         /\ pop_index' = e /\ request_queue_pool' = request_queue_pool /\ answered' = answered
<1>1. /\ i \in Slot /\ pop_index + 1 < e /\ e \in 1 .. push_index /\ task' = [task EXCEPT ![i] = u]
      /\ u \in Task /\ u.in_use /\ u.current = 0 /\ u.phase = "Reset"
      /\ u.queue = Part(pop_index + 1, e)
      /\ pop_index' = e /\ request_queue_pool' = request_queue_pool /\ answered' = answered
  BY DEF LaunchesTo
<1>2. task'[i] = u /\ \A j \in Slot : j # i => task'[j] = task[j]
  BY <1>1, PolledElsewhere DEF TypeOK
<1>3. pop_index \in Nat /\ push_index \in Nat /\ e \in Nat /\ e <= push_index
  BY <1>1, PushNat
<1> PICK b : b = pop_index + 1
  OBVIOUS
<1>4. b \in 1 .. push_index /\ e \in b .. push_index /\ e - b + 1 = e - pop_index
  BY <1>1, <1>3
<1> PICK q : q = u.queue
  OBVIOUS
<1>5. /\ q \in Seq(Request) /\ Len(q) = e - b + 1 /\ DOMAIN q = 1 .. e - b + 1
      /\ \A m \in 1 .. e - b + 1 : q[m] = Nth(b + m - 1)
  <2>1. q = Part(b, e)
    BY <1>1
  <2> QED BY <1>4, <2>1, PartOf
<1>6. \A m \in 1 .. e - pop_index : b + m - 1 = pop_index + m /\ pop_index + m \in 1 .. push_index
  BY <1>3, <1>4
<1> QED BY <1>1, <1>2, <1>3, <1>4, <1>5, <1>6

LEMMA LaunchTasksInv ==
  ASSUME TypeOK, PoolOK, TasksInv, NEW i, NEW e, NEW u, LaunchesTo(i, e, u)
  PROVE  TasksInv' /\ PoolOK' /\ task' \in [Slot -> Task]
<1> PICK p : p = pop_index
  OBVIOUS
<1>1. /\ i \in Slot /\ task'[i] = u /\ \A j \in Slot : j # i => task'[j] = task[j]
      /\ p \in Nat /\ e \in Nat /\ p + 1 < e /\ e <= push_index /\ push_index \in Nat
      /\ u \in Task /\ u.in_use /\ u.current = 0 /\ u.phase = "Reset"
      /\ u.queue \in Seq(Request) /\ Len(u.queue) = e - p /\ DOMAIN u.queue = 1 .. e - p
      /\ \A m \in 1 .. e - p : u.queue[m] = Nth(p + m) /\ p + m \in 1 .. push_index
      /\ pop_index' = e /\ request_queue_pool' = request_queue_pool /\ answered' = answered
  BY LaunchFills
<1>2. task' \in [Slot -> Task]
  BY DEF LaunchesTo, TypeOK, TaskTypeOK
\* The launched requests were in no queue and have no answer.
<1>3. \A m \in DOMAIN u.queue :
         /\ u.queue[m] = Nth(p + m) /\ m \in 1 .. e - p /\ u.queue[m] \notin answered
         /\ \A j \in Slot : \A n \in DOMAIN task[j].queue : task[j].queue[n] # u.queue[m]
  <2>1. \A m \in 1 .. e - p : Nth(p + m) \notin Launched
    <3> SUFFICES ASSUME NEW m \in 1 .. e - p, NEW n \in 1 .. p, Nth(p + m) = Nth(n)
                 PROVE  FALSE
      BY DEF Launched
    <3>1. p + m = n
      BY DEF Nth
    <3> QED BY <1>1, <3>1
  <2> SUFFICES ASSUME NEW m \in DOMAIN u.queue
               PROVE  /\ u.queue[m] = Nth(p + m) /\ m \in 1 .. e - p /\ u.queue[m] \notin answered
                      /\ \A j \in Slot : \A n \in DOMAIN task[j].queue : task[j].queue[n] # u.queue[m]
    OBVIOUS
  <2>2. m \in 1 .. e - p /\ u.queue[m] = Nth(p + m)
    BY <1>1
  <2>3. u.queue[m] \notin Launched
    BY <2>1, <2>2
  <2> QED BY <2>2, <2>3 DEF PoolOK
<1>4. \A j \in Slot : Consistent(task[j])'
  <2>1. Consistent(u)
    BY <1>1 DEF Consistent
  <2> QED BY <1>1, <2>1 DEF TasksInv, Consistent
<1>5. OnceInQueues'
  <2> SUFFICES ASSUME NEW j \in Slot, NEW k \in Slot,
                      NEW m \in DOMAIN task'[j].queue, NEW n \in DOMAIN task'[k].queue,
                      task'[j].queue[m] = task'[k].queue[n]
               PROVE  j = k /\ m = n
    BY DEF OnceInQueues
  <2>1. CASE j = i /\ k = i
    <3>1. /\ m \in 1 .. e - p /\ n \in 1 .. e - p /\ Nth(p + m) = Nth(p + n)
      BY <1>1, <1>3, <2>1
    <3>2. p + m = p + n
      BY <3>1 DEF Nth
    <3> QED BY <1>1, <2>1, <3>1, <3>2
  <2>0. task'[i] = u /\ \A l \in Slot : l # i => task'[l] = task[l]
    BY <1>1
  <2>2. CASE j = i /\ k # i
    <3>1. m \in DOMAIN u.queue /\ n \in DOMAIN task[k].queue /\ u.queue[m] = task[k].queue[n]
      BY <2>0, <2>2
    <3> QED BY <1>3, <3>1
  <2>3. CASE j # i /\ k = i
    <3>1. n \in DOMAIN u.queue /\ m \in DOMAIN task[j].queue /\ u.queue[n] = task[j].queue[m]
      BY <2>0, <2>3
    <3> QED BY <1>3, <3>1
  <2>4. CASE j # i /\ k # i
    BY <1>1, <2>4 DEF TasksInv, OnceInQueues
  <2> QED BY <2>1, <2>2, <2>3, <2>4
<1>6. AnsweredInOrder'
  <2> SUFFICES ASSUME NEW j \in Slot, NEW m \in DOMAIN task'[j].queue
               PROVE  IF Unserved(task'[j], m) THEN task'[j].queue[m] \notin answered'
                      ELSE \/ task'[j].queue[m] \in answered'
                           \/ Type(task'[j].queue[m]) = "ReadDataStore"
    BY DEF AnsweredInOrder, Unserved
  <2>1. CASE j = i
    <3>1. Unserved(u, m)
      BY <1>1, <2>1 DEF Unserved
    <3> QED BY <1>1, <1>3, <2>1, <3>1
  <2>2. CASE j # i
    BY <1>1, <2>2 DEF TasksInv, AnsweredInOrder
  <2> QED BY <2>1, <2>2
<1>7. TasksInv'
  BY <1>1, <1>4, <1>5, <1>6 DEF TasksInv
<1>8. PoolOK'
  <2>1. Launched \subseteq Launched'
    BY <1>1 DEF Launched
  <2>2. \A m \in 1 .. e - p : Nth(p + m) \in Launched'
    BY <1>1 DEF Launched
  <2>3. answered' \subseteq Launched'
    BY <1>1, <2>1 DEF PoolOK
  <2>4. \A j \in Slot : \A m \in DOMAIN task'[j].queue : task'[j].queue[m] \in Launched'
    <3> SUFFICES ASSUME NEW j \in Slot, NEW m \in DOMAIN task'[j].queue
                 PROVE  task'[j].queue[m] \in Launched'
      OBVIOUS
    <3>1. CASE j = i
      <4>1. task'[j].queue[m] = Nth(p + m) /\ m \in 1 .. e - p
        BY <1>1, <1>3, <3>1
      <4> QED BY <2>2, <4>1
    <3>2. CASE j # i
      BY <1>1, <2>1, <3>2 DEF PoolOK
    <3> QED BY <3>1, <3>2
  <2>5. push_index' = push_index
    BY <1>1 DEF push_index
  <2> QED BY <1>1, <2>3, <2>4, <2>5 DEF PoolOK
<1> QED BY <1>2, <1>7, <1>8


LEMMA LaunchCounts ==
  ASSUME TypeOK, TasksInv, ActiveTasksCounted, EveryOutcomeCounted,
         NEW i, NEW e, NEW u, LaunchesTo(i, e, u)
  PROVE  /\ ActiveTasksCounted' /\ EveryOutcomeCounted'
         /\ active_txn_number' \in 0 .. concurrent_txn_count
<1> DEFINE InUse == {j \in Slot : task[j].in_use}
<1> DEFINE Ending == {j \in Slot : task[j].phase = "Ending"}
<1>1. /\ i \in Slot /\ ~ task[i].in_use /\ u.in_use /\ u.phase = "Reset"
      /\ task' = [task EXCEPT ![i] = u]
      /\ active_txn_number < concurrent_txn_count
      /\ active_txn_number' = active_txn_number + 1
      /\ UNCHANGED <<answered, commit_count, abort_count>>
  BY DEF LaunchesTo
<1>2. task'[i] = u /\ \A j \in Slot : j # i => task'[j] = task[j]
  BY <1>1, PolledElsewhere DEF TypeOK
<1>3. /\ Slot \ Free = InUse /\ (Slot \ Free)' = InUse'
  BY DEF Free
<1>4. IsFiniteSet(InUse) /\ Cardinality(InUse) \in Nat
  <2>1. InUse \subseteq Slot
    OBVIOUS
  <2> HIDE DEF InUse
  <2> QED BY <2>1, SlotsFinite
<1>5. InUse' = InUse \cup {i} /\ i \notin InUse
  BY <1>1, <1>2
<1>6. Cardinality(InUse \cup {i}) = Cardinality(InUse) + 1
  BY <1>4, <1>5, FS_AddElement
<1>7. active_txn_number = Cardinality(InUse)
  BY <1>3 DEF ActiveTasksCounted
<1>8. ActiveTasksCounted'
  BY <1>1, <1>3, <1>5, <1>6, <1>7 DEF ActiveTasksCounted
<1>9. active_txn_number' \in 0 .. concurrent_txn_count
  <2>1. active_txn_number \in 0 .. concurrent_txn_count
    BY DEF TypeOK, TaskTypeOK
  <2>2. active_txn_number < concurrent_txn_count /\ active_txn_number' = active_txn_number + 1
    BY <1>1
  <2>3. concurrent_txn_count \in Nat
    BY TransactionTaskAssumption
  <2> QED BY <2>1, <2>2, <2>3
<1>10. task[i].phase # "Ending"
  BY <1>1 DEF TasksInv, Consistent
<1>11. Ending' = Ending
  BY <1>1, <1>2, <1>10
<1>12. EveryOutcomeCounted'
  <2>1. {r \in answered' : Ends(r)} = {r \in answered : Ends(r)}
    BY <1>1
  <2>2. commit_count + abort_count + Cardinality(Ending) = Cardinality({r \in answered : Ends(r)})
    BY DEF EveryOutcomeCounted
  <2>3. commit_count' + abort_count' + Cardinality(Ending') = Cardinality({r \in answered' : Ends(r)})
    <3> HIDE DEF Ending
    <3> QED BY <1>1, <1>11, <2>1, <2>2
  <2> QED BY <2>3, Zenon DEF EveryOutcomeCounted
<1> QED BY <1>8, <1>9, <1>12

LEMMA LaunchBase ==
  ASSUME BaseInv, NEW i, NEW e, NEW u, LaunchesTo(i, e, u)
  PROVE  BaseInv'
<1>0. TypeOK /\ PoolOK /\ TasksInv /\ ActiveTasksCounted /\ EveryOutcomeCounted
  BY DEF BaseInv
<1>1. TasksInv' /\ PoolOK' /\ task' \in [Slot -> Task]
  BY <1>0, LaunchTasksInv
<1>2. /\ ActiveTasksCounted' /\ EveryOutcomeCounted'
      /\ active_txn_number' \in 0 .. concurrent_txn_count
  BY <1>0, LaunchCounts
<1>3. /\ i \in Slot /\ e \in 1 .. push_index /\ pop_index' = e /\ last_index' = i + 1
      /\ UNCHANGED <<answered, commit_count, abort_count, request_queue_pool, poll, has_finished_txn, pc>>
  BY DEF LaunchesTo
<1>4. TaskTypeOK'
  BY <1>0, <1>1, <1>2, <1>3 DEF TypeOK, TaskTypeOK
<1>5. i + 1 \in 1 .. concurrent_txn_count + 1
  BY <1>3, TransactionTaskAssumption DEF Slot
<1>6. push_index' = push_index /\ push_index \in Nat
  BY <1>0, <1>3, PushNat DEF push_index
<1>7. pop_index' \in 0 .. push_index'
  BY <1>3, <1>6
<1>8. TypeOK'
  BY <1>0, <1>3, <1>4, <1>5, <1>7 DEF TypeOK
<1> QED BY <1>1, <1>2, <1>8 DEF BaseInv

LEMMA SwitchServes ==
  /\ Serves(Served)
  /\ Driver => \A r \in Request : "ignored" \notin Served[r]
<1> SUFFICES ASSUME NEW r \in Request
             PROVE  /\ Served[r] \subseteq {"called", "answered", "ignored"}
                    /\ "answered" \in Served[r] => ~ Ends(r)
                    /\ "ignored" \in Served[r] => Type(r) = "ReadDataStore" /\ ~ Driver
  BY DEF Serves
<1>1. CASE Type(r) \in {"Update", "Delete"}
  <2>1. Served[r] = {"answered"}
    BY <1>1 DEF Served
  <2> QED BY <1>1, <2>1 DEF Ends
<1>2. CASE Type(r) = "ReadDataStore"
  <2>1. Served[r] = IF Driver THEN {"called", "answered"} ELSE {"ignored"}
    BY <1>2 DEF Served
  <2> QED BY <1>2, <2>1 DEF Ends
<1>3. CASE Type(r) \notin {"Update", "Delete", "ReadDataStore"}
  <2>1. Served[r] = {"called"}
    BY <1>3 DEF Served
  <2> QED BY <1>3, <2>1
<1> QED BY <1>1, <1>2, <1>3

\* A step that polls task i, and one that leaves tasks and queue alone.
Polls(i) ==
  /\ \/ CallBack(i) /\ pc' = pc
     \/ pc = "advance" /\ AdvanceTask(i, Served) /\ pc' \in {"advance", "loop"}
  /\ UNCHANGED <<queueVars, last_index>>

Quiet == UNCHANGED <<taskVars, queueVars>>

LEMMA PollsBase ==
  ASSUME BaseInv, NEW i \in Slot, Polls(i), poll' \in Slot, has_finished_txn' \in BOOLEAN
  PROVE  BaseInv'
<1>2. TypeOK /\ TaskTypeOK /\ TasksInv /\ ActiveTasksCounted /\ EveryOutcomeCounted /\ PoolOK
      /\ Consistent(task[i]) /\ (AdvanceTask(i, Served) \/ CallBack(i))
      /\ request_queue_pool' = request_queue_pool /\ pop_index' = pop_index /\ last_index' = last_index
  BY DEF BaseInv, TypeOK, TasksInv, Polls, queueVars
<1>3. PICK u : task' = [task EXCEPT ![i] = u] /\ Polled(task[i], u)
  BY <1>2, AdvancePolls, SwitchServes
<1>4. /\ task' \in [Slot -> Task] /\ answered' \subseteq Request /\ TasksInv'
  BY <1>2, PolledTasksInv, SwitchServes
<1>5. ActiveTasksCounted' /\ active_txn_number' \in 0 .. concurrent_txn_count
  BY <1>2, PolledActive, SwitchServes
<1>6. EveryOutcomeCounted' /\ commit_count' \in Nat /\ abort_count' \in Nat
  BY <1>2, PolledOutcomes, SwitchServes
<1>7. TypeOK'
  <2>1. pc' \in {pc, "advance", "loop"}
    BY DEF Polls
  <2> QED BY <1>2, <1>4, <1>5, <1>6, <2>1 DEF TypeOK, TaskTypeOK, push_index
<1>8. \A j \in Slot : task'[j].queue = task[j].queue
  BY <1>2, <1>3, PolledElsewhere DEF Polled
<1>9. PoolOK'
  <2>1. Launched' = Launched /\ push_index' = push_index
    BY <1>2 DEF Launched, push_index
  <2>2. answered' \subseteq Launched
    BY <1>2, <1>3 DEF Polled, PoolOK
  <2> QED BY <1>2, <1>8, <2>1, <2>2 DEF PoolOK
<1> QED BY <1>4, <1>5, <1>6, <1>7, <1>9 DEF BaseInv


\* There is an owner: the one client.
LEMMA OwnerIsClient == Owner \in Client
<1>1. Cardinality(Client) = 1
  BY AllAtOnceAssumption
<1>2. Client # {}
  BY <1>1, FS_EmptySet
<1> QED BY <1>2 DEF Owner

LEMMA AddRequestBase ==
  ASSUME BaseInv, AddRequest
  PROVE  BaseInv'
<1> PICK n : n = push_index + 1
  OBVIOUS
<1>0. /\ TypeOK /\ TaskTypeOK /\ PoolOK /\ TasksInv /\ ActiveTasksCounted /\ EveryOutcomeCounted
      /\ request_queue_pool \in Seq(Request) /\ push_index = Len(request_queue_pool)
      /\ push_index \in Nat /\ pop_index \in Nat /\ pop_index <= push_index
  BY PoolTypes DEF BaseInv, TypeOK
<1>1. /\ push_index < Len(Script[Owner]) /\ pc = "stopped"
      /\ request_queue_pool' = Append(request_queue_pool, Nth(n))
      /\ pc' \in {"stopped", "write past the pool"}
      /\ UNCHANGED taskVars
      /\ UNCHANGED <<pop_index, last_index, poll, has_finished_txn>>
  BY DEF AddRequest, Nth
<1> PICK len : len = Len(Script[Owner])
  OBVIOUS
<1>8. n \in 1 .. len /\ n \in Nat /\ n <= len /\ pop_index \in 0 .. n
  <2>1. Script[Owner] \in Seq([session_id : Nat, operation_type : OperationType])
    BY OwnerIsClient, TransactionTaskAssumption
  <2>2. len \in Nat
    BY <2>1
  <2>3. push_index \in Nat /\ pop_index \in Nat /\ pop_index <= push_index /\ push_index < len
    BY <1>0, <1>1
  <2> QED BY <2>2, <2>3
<1>2. Nth(n) \in Request
  BY <1>8, OwnerIsClient, RequestIn DEF Nth
<1>3. /\ request_queue_pool' \in Seq(Request) /\ push_index' = n
      /\ \A m \in 1 .. n :
           request_queue_pool'[m] = IF m = n THEN Nth(n) ELSE request_queue_pool[m]
  <2> PICK r : r = Nth(n)
    OBVIOUS
  <2>0. /\ request_queue_pool \in Seq(Request) /\ n = Len(request_queue_pool) + 1 /\ r \in Request
        /\ request_queue_pool' = Append(request_queue_pool, r)
    BY <1>0, <1>1, <1>2
  <2>1. request_queue_pool' \in Seq(Request) /\ Len(request_queue_pool') = n
    BY <2>0
  <2>2. \A m \in 1 .. n :
           request_queue_pool'[m] = IF m = n THEN r ELSE request_queue_pool[m]
    BY <2>0
  <2> QED BY <2>1, <2>2 DEF push_index
<1>4. TaskTypeOK' /\ TasksInv' /\ ActiveTasksCounted' /\ EveryOutcomeCounted'
  BY <1>0, <1>1, TasksUnchanged
<1>5. pop_index' \in 0 .. push_index'
  BY <1>1, <1>3, <1>8
<1>6. TypeOK'
  BY <1>0, <1>1, <1>3, <1>4, <1>5 DEF TypeOK
<1>7. PoolOK'
  <2>1. Launched' = Launched /\ answered' = answered /\ task' = task
    BY <1>1 DEF Launched, taskVars
  <2>2. push_index' <= Len(Script[Owner])
    BY <1>3, <1>8
  <2>3. \A m \in 1 .. push_index' : request_queue_pool'[m] = Nth(m)
    <3> SUFFICES ASSUME NEW m \in 1 .. push_index' PROVE request_queue_pool'[m] = Nth(m)
      OBVIOUS
    <3>1. CASE m = n
      BY <1>3, <3>1
    <3>2. CASE m # n
      <4>1. m \in 1 .. push_index
        BY <1>0, <1>3, <3>2
      <4> QED BY <1>0, <1>3, <3>2, <4>1 DEF PoolOK
    <3> QED BY <3>1, <3>2
  <2> QED BY <1>0, <2>1, <2>2, <2>3 DEF PoolOK
<1> QED BY <1>4, <1>6, <1>7 DEF BaseInv

LEMMA QuietBase ==
  ASSUME BaseInv, Quiet,
         last_index' \in 1 .. concurrent_txn_count + 1, poll' \in Slot, has_finished_txn' \in BOOLEAN,
         pc' \in {"stopped", "launch", "advance", "loop", "recover", "write past the pool",
                  "not a Begin", "no empty txn task", "null request", "another session"}
  PROVE  BaseInv'
<1>0. /\ TypeOK /\ TaskTypeOK /\ PoolOK /\ TasksInv /\ ActiveTasksCounted /\ EveryOutcomeCounted
      /\ UNCHANGED taskVars /\ request_queue_pool' = request_queue_pool /\ pop_index' = pop_index
      /\ task' = task /\ answered' = answered
  BY DEF BaseInv, TypeOK, Quiet, queueVars, taskVars
<1>1. TaskTypeOK' /\ TasksInv' /\ ActiveTasksCounted' /\ EveryOutcomeCounted'
  BY <1>0, TasksUnchanged
<1>2. TypeOK'
  BY <1>0, <1>1 DEF TypeOK, push_index
<1>3. PoolOK'
  <2>1. Launched' = Launched /\ push_index' = push_index
    BY <1>0 DEF Launched, push_index
  <2> QED BY <1>0, <2>1 DEF PoolOK
<1> QED BY <1>1, <1>2, <1>3 DEF BaseInv

\* The steps of the executor, by what they do to the tasks.
LEMMA Steps ==
  ASSUME TypeOK, [Next]_vars
  PROVE  \/ AddRequest
         \/ \E i \in Slot : Polls(i) /\ poll' \in Slot /\ has_finished_txn' \in BOOLEAN
         \/ LaunchTransaction /\ pc' = pc
         \/ LaunchTransaction /\ pc' # pc
         \/ Quiet /\ (Run \/ LaunchDone \/ AdvanceThrows \/ Loop \/ UNCHANGED vars)
<1>0. poll \in Slot /\ has_finished_txn \in BOOLEAN /\ concurrent_txn_count \in Nat \ {0}
  BY TransactionTaskAssumption DEF TypeOK
<1>1. CASE AddRequest
  BY <1>1
<1>2. ASSUME NEW i \in Slot, StoreAnswers(i)
      PROVE  Polls(i) /\ poll' \in Slot /\ has_finished_txn' \in BOOLEAN
  BY <1>0, <1>2 DEF StoreAnswers, Polls, runVars, queueVars
<1>3. CASE LaunchTransaction
  BY <1>3
<1>4. CASE Advance
  <2>1. Polls(poll)
    BY <1>4 DEF Advance, Polls
  <2>2. has_finished_txn' \in BOOLEAN
    BY <1>0, <1>4 DEF Advance
  <2>3. poll' \in Slot
    BY <1>0, <1>4 DEF Advance, Slot
  <2> QED BY <1>0, <2>1, <2>2, <2>3
<1>5. CASE Run \/ LaunchDone \/ AdvanceThrows \/ Loop
  BY <1>5 DEF Quiet, Run, LaunchDone, AdvanceThrows, Loop
<1>6. CASE Idle \/ UNCHANGED vars
  <2>1. UNCHANGED vars
    BY <1>6 DEF Idle
  <2> QED BY <2>1 DEF Quiet, vars
<1> QED BY <1>1, <1>2, <1>3, <1>4, <1>5, <1>6 DEF Next, Executor

LEMMA NextBase == BaseInv /\ [Next]_vars => BaseInv'
<1> SUFFICES ASSUME BaseInv, [Next]_vars PROVE BaseInv'
  OBVIOUS
<1>0. /\ TypeOK /\ poll \in Slot /\ has_finished_txn \in BOOLEAN
      /\ last_index \in 1 .. concurrent_txn_count + 1
      /\ pc \in {"stopped", "launch", "advance", "loop", "recover", "write past the pool",
                 "not a Begin", "no empty txn task", "null request", "another session"}
  BY DEF BaseInv, TypeOK
<1>1. CASE AddRequest
  BY <1>1, AddRequestBase
<1>2. ASSUME NEW i \in Slot, Polls(i), poll' \in Slot, has_finished_txn' \in BOOLEAN
      PROVE  BaseInv'
  BY <1>2, PollsBase
<1>3. CASE LaunchTransaction /\ pc' = pc
  <2>1. \E i, e, u : LaunchesTo(i, e, u)
    BY <1>0, <1>3, LaunchMoves
  <2> QED BY <2>1, LaunchBase
<1>4. CASE LaunchTransaction /\ pc' # pc
  <2>1. Quiet /\ last_index' = last_index /\ poll' = poll /\ has_finished_txn' = has_finished_txn
    BY <1>4 DEF LaunchTransaction, Quiet, queueVars
  <2>2. PICK i, b, e, s : pc' = Crash(i, b, e, s)
    BY <1>4 DEF LaunchTransaction
  <2>3. pc' \in {"stopped", "launch", "advance", "loop", "recover", "write past the pool",
                 "not a Begin", "no empty txn task", "null request", "another session"}
    BY <1>0, <2>2 DEF Crash
  <2> QED BY <1>0, <2>1, <2>3, QuietBase
<1>5. CASE Quiet /\ (Run \/ LaunchDone \/ AdvanceThrows \/ Loop \/ UNCHANGED vars)
  <2>1. /\ last_index' \in {1, last_index} /\ poll' = poll
        /\ has_finished_txn' \in {FALSE, has_finished_txn}
        /\ pc' \in {pc, "launch", "advance", "recover", "stopped"}
    BY <1>5 DEF Run, LaunchDone, AdvanceThrows, Loop, vars, runVars
  <2>2. 1 \in 1 .. concurrent_txn_count + 1
    BY TransactionTaskAssumption
  <2> QED BY <1>0, <1>5, <2>1, <2>2, QuietBase
<1> QED BY <1>0, <1>1, <1>2, <1>3, <1>4, <1>5, Steps

LEMMA InitBase == Init => BaseInv
<1> SUFFICES ASSUME Init PROVE BaseInv
  OBVIOUS
<1>1. /\ TaskTypeOK /\ TasksInv /\ ActiveTasksCounted /\ EveryOutcomeCounted
      /\ \A i \in Slot : task[i] = NewTask
  BY InitialTasks DEF Init
<1>2. request_queue_pool = <<>> /\ pop_index = 0 /\ push_index = 0 /\ answered = {}
      /\ request_queue_pool \in Seq(Request)
  BY DEF Init, push_index, TaskInit
<1>3. 1 \in Slot /\ 1 \in 1 .. concurrent_txn_count + 1
  BY TransactionTaskAssumption DEF Slot
<1>4. TypeOK
  <2>1. /\ pop_index \in 0 .. push_index /\ last_index = 1 /\ pc = "stopped" /\ poll = 1
        /\ has_finished_txn = FALSE
    BY <1>2 DEF Init
  <2> QED BY <1>1, <1>2, <1>3, <2>1 DEF TypeOK
<1>5. PoolOK
  <2>1. Script[Owner] \in Seq([session_id : Nat, operation_type : OperationType])
    BY OwnerIsClient, TransactionTaskAssumption
  <2>2. push_index <= Len(Script[Owner])
    BY <1>2, <2>1
  <2>3. \A i \in Slot : DOMAIN task[i].queue = {}
    BY <1>1 DEF NewTask
  <2> QED BY <1>2, <2>2, <2>3 DEF PoolOK
<1> QED BY <1>1, <1>4, <1>5 DEF BaseInv

LEMMA BaseInvariant == Spec => []BaseInv
BY InitBase, NextBase, PTL DEF Spec

\* Tasks, queue and counters keep their types, and LaunchRequests takes no request
\* out of the pool that AddRequest has not put there.
THEOREM TypeCorrect == Spec => []TypeOK
<1>1. BaseInv => TypeOK
  BY DEF BaseInv
<1> QED BY <1>1, BaseInvariant, PTL

\* active_txn_number_, by which Run decides whether to go on and LaunchRequests
\* whether a task is free, is the number of tasks in use.
THEOREM TasksCounted == Spec => []ActiveTasksCounted
<1>1. BaseInv => ActiveTasksCounted
  BY DEF BaseInv
<1> QED BY <1>1, BaseInvariant, PTL

\* Statistics of the executor: every transaction whose end is answered is counted
\* once, as a commit or as an abort, when its post-processing is over.
THEOREM OutcomesCounted == Spec => []EveryOutcomeCounted
<1>1. BaseInv => EveryOutcomeCounted
  BY DEF BaseInv
<1> QED BY <1>1, BaseInvariant, PTL


-----------------------------------------------------------------------------
(* Batches of whole transactions.                                          *)

\* Neighbours in the batch.
LEMMA Neighbours ==
  ASSUME WholeTransactions, TypeOK, PoolOK, NEW n \in 1 .. push_index
  PROVE  /\ Type(Nth(n)) = "Begin" <=> n = 1 \/ Ends(Nth(n - 1))
         /\ Type(Nth(n)) # "Begin" => SessionOf(Nth(n)) = SessionOf(Nth(n - 1))
<1>1. Nth(n) \in Request /\ Nth(n)[1] = Owner /\ Nth(n)[2] = n
  BY NthRequest
<1> PICK r : r = Nth(n)
  OBVIOUS
<1>2. <<r[1], r[2] - 1>> = Nth(n - 1) /\ r[2] = n /\ r \in Request
  BY <1>1 DEF Nth
<1> QED BY <1>2 DEF WholeTransactions

\* While fewer tasks are in use than there are, LaunchRequests finds a free one ahead.
LEMMA FreeTaskAhead ==
  ASSUME TypeOK, ActiveTasksCounted, IndexOK, active_txn_number < concurrent_txn_count
  PROVE  FirstSlot({j \in Free : j >= last_index}) # 0
<1> DEFINE S == {j \in Free : j >= last_index}
<1>1. Free # {}
  <2>1. IsFiniteSet(Slot) /\ Cardinality(Slot) = concurrent_txn_count
    BY FS_Interval, TransactionTaskAssumption DEF Slot
  <2>2. Free = {} => Slot \ Free = Slot
    OBVIOUS
  <2>3. concurrent_txn_count \in Nat /\ active_txn_number = Cardinality(Slot \ Free)
    BY TransactionTaskAssumption DEF ActiveTasksCounted
  <2> QED BY <2>1, <2>2, <2>3
<1>2. PICK j \in Free : TRUE
  BY <1>1
<1>3. j \in Slot /\ ~ task[j].in_use
  BY DEF Free
<1>4. ~ (j < last_index)
  BY <1>3 DEF IndexOK
<1>5. j \in Int /\ last_index \in Int
  <2>1. j \in 1 .. concurrent_txn_count /\ last_index \in 1 .. concurrent_txn_count + 1
    BY <1>3 DEF TypeOK, Slot
  <2> QED BY <2>1
<1>6. j \in S /\ S \subseteq Slot
  BY <1>4, <1>5 DEF Free
<1> HIDE DEF S
<1>7. FirstSlot(S) # 0
  BY <1>6, FirstSlotFound
<1> QED BY <1>7 DEF S

LEMMA LaunchSafe ==
  ASSUME WholeTransactions, BaseInv, BatchInv, LaunchTransaction
  PROVE  pc' = pc
<1>0. TypeOK /\ PoolOK /\ ActiveTasksCounted /\ Boundaries /\ IndexOK
  BY DEF BaseInv, BatchInv
<1> PICK b : b = pop_index + 1
  OBVIOUS
<1> PICK s : s = SessionOf(request_queue_pool[b])
  OBVIOUS
<1> PICK e : e = LastOf(b, s)
  OBVIOUS
<1> PICK i : i = FirstSlot({j \in Free : j >= last_index})
  OBVIOUS
<1>1. /\ pc = "launch" /\ pop_index < push_index
      /\ active_txn_number < concurrent_txn_count
      /\ pc' = Crash(i, b, e, s)
  BY DEF LaunchTransaction
<1>2. pop_index \in Nat /\ push_index \in Nat
  BY <1>0, PushNat
<1>3. b \in 1 .. push_index /\ b \in Nat /\ b <= push_index
  BY <1>1, <1>2
<1>4. \A n \in 1 .. push_index : request_queue_pool[n] = Nth(n)
  BY <1>0 DEF PoolOK
<1>5. Type(Nth(b)) = "Begin" /\ s = SessionOf(Nth(b))
  <2>1. b = 1 \/ (pop_index > 0 /\ b - 1 = pop_index)
    BY <1>2
  <2>2. b = 1 \/ Ends(Nth(b - 1))
    BY <1>0, <2>1 DEF Boundaries
  <2> QED BY <1>0, <1>3, <1>4, <2>2, Neighbours
<1>6. ~ Ends(Nth(b))
  BY <1>5 DEF Ends
<1>7. i # 0
  BY <1>0, <1>1, FreeTaskAhead
<1>8. /\ e \in b + 1 .. push_index + 1 /\ StopsAt(e, s)
      /\ \A m \in b + 1 .. e - 1 : ~ StopsAt(m, s)
  BY <1>2, <1>3, LastOfFound
<1>9. \A m \in b .. e - 1 : m \in 1 .. push_index /\ ~ Ends(Nth(m)) /\ SessionOf(Nth(m)) = s
  <2> SUFFICES ASSUME NEW m \in b .. e - 1
               PROVE  m \in 1 .. push_index /\ ~ Ends(Nth(m)) /\ SessionOf(Nth(m)) = s
    OBVIOUS
  <2>1. m \in 1 .. push_index
    BY <1>2, <1>3, <1>8
  <2>2. CASE m = b
    BY <1>5, <1>6, <2>1, <2>2
  <2>3. CASE m # b
    <3>1. m \in b + 1 .. e - 1
      BY <1>3, <1>8, <2>3
    <3>2. ~ StopsAt(m, s)
      BY <1>8, <3>1
    <3> QED BY <1>4, <2>1, <3>2 DEF StopsAt
  <2> QED BY <2>2, <2>3
<1>10. e \in 1 .. push_index
  <2>1. Ends(Nth(push_index))
    BY <1>0, <1>1 DEF Boundaries
  <2>2. ~ (push_index \in b .. e - 1)
    BY <1>9, <2>1
  <2> QED BY <1>2, <1>3, <1>8, <2>2
<1>11. SessionOf(Nth(e)) = s
  <2>1. e - 1 \in b .. e - 1 /\ e # 1
    BY <1>3, <1>8
  <2>2. ~ Ends(Nth(e - 1)) /\ SessionOf(Nth(e - 1)) = s
    BY <1>9, <2>1
  <2> QED BY <1>0, <1>10, <2>1, <2>2, Neighbours
<1>12. ~ (e > push_index)
  BY <1>2, <1>10
<1>13. /\ Type(request_queue_pool[b]) = "Begin"
       /\ SessionOf(request_queue_pool[e]) = s
  BY <1>3, <1>4, <1>5, <1>10, <1>11
<1>14. Crash(i, b, e, s) = pc
  BY <1>7, <1>12, <1>13 DEF Crash
<1> QED BY <1>1, <1>14

LEMMA LaunchBatch ==
  ASSUME WholeTransactions, BaseInv, BatchInv, NEW i, NEW e, NEW u, LaunchesTo(i, e, u)
  PROVE  BatchInv'
<1> PICK p : p = pop_index
  OBVIOUS
<1>0. /\ TypeOK /\ PoolOK /\ TasksInv /\ TaskOfTransaction /\ Boundaries /\ IndexOK /\ Accounted
  BY DEF BaseInv, BatchInv
<1>1. /\ i \in Slot /\ task'[i] = u /\ \A j \in Slot : j # i => task'[j] = task[j]
      /\ p \in Nat /\ e \in Nat /\ p + 1 < e /\ e <= push_index /\ push_index \in Nat
      /\ u.in_use /\ u.current = 0 /\ Len(u.queue) = e - p /\ DOMAIN u.queue = 1 .. e - p
      /\ \A m \in 1 .. e - p : u.queue[m] = Nth(p + m) /\ p + m \in 1 .. push_index
      /\ pop_index' = e /\ request_queue_pool' = request_queue_pool /\ answered' = answered
  <2>1. /\ i \in Slot /\ task'[i] = u /\ \A j \in Slot : j # i => task'[j] = task[j]
        /\ pop_index \in Nat /\ e \in Nat /\ pop_index + 1 < e /\ e <= push_index /\ push_index \in Nat
        /\ u.in_use /\ u.current = 0 /\ Len(u.queue) = e - pop_index
        /\ DOMAIN u.queue = 1 .. e - pop_index
        /\ pop_index' = e /\ request_queue_pool' = request_queue_pool /\ answered' = answered
    BY <1>0, LaunchFills
  <2>2. \A m \in 1 .. e - pop_index :
          u.queue[m] = Nth(pop_index + m) /\ pop_index + m \in 1 .. push_index
    BY <1>0, LaunchFills
  <2> QED BY <2>1, <2>2
<1>2. /\ pc = "launch" /\ pc' = pc /\ ~ task[i].in_use
      /\ i >= last_index /\ (\A j \in Free : j >= last_index => i <= j)
      /\ Type(request_queue_pool[p + 1]) = "Begin" /\ Ends(request_queue_pool[e])
      /\ \A m \in p + 1 .. e - 1 : ~ Ends(request_queue_pool[m])
      /\ last_index' = i + 1
  BY DEF LaunchesTo
<1>3. \A n \in 1 .. push_index : request_queue_pool[n] = Nth(n)
  BY <1>0 DEF PoolOK
<1>4. e \in 1 .. push_index /\ p + 1 \in 1 .. push_index
  BY <1>1
<1>5. Type(Nth(p + 1)) = "Begin" /\ Ends(Nth(e)) /\ \A m \in p + 1 .. e - 1 : ~ Ends(Nth(m))
  <2>1. \A m \in p + 1 .. e - 1 : m \in 1 .. push_index
    BY <1>1
  <2> QED BY <1>2, <1>3, <1>4, <2>1
<1>6. OneTransactionIn(u.queue)
  <2> SUFFICES ASSUME NEW m \in 1 .. e - p
               PROVE  /\ IF m = 1 THEN Type(u.queue[m]) = "Begin"
                         ELSE /\ Type(u.queue[m]) # "Begin"
                              /\ u.queue[m][1] = u.queue[m - 1][1]
                              /\ u.queue[m][2] = u.queue[m - 1][2] + 1
                      /\ Ends(u.queue[m]) => m = e - p
    BY <1>1 DEF OneTransactionIn
  <2>1. u.queue[m] = Nth(p + m) /\ p + m \in 1 .. push_index
    BY <1>1
  <2>2. Ends(u.queue[m]) => m = e - p
    <3>1. m # e - p => p + m \in p + 1 .. e - 1
      BY <1>1
    <3> QED BY <1>5, <2>1, <3>1
  <2>3. CASE m = 1
    BY <1>5, <2>1, <2>2, <2>3
  <2>4. CASE m # 1
    <3>1. m - 1 \in 1 .. e - p /\ p + m - 1 \in p + 1 .. e - 1 /\ p + (m - 1) = p + m - 1
          /\ p + m # 1 /\ p + m = (p + m - 1) + 1
      BY <1>1, <2>4
    <3>2. u.queue[m - 1] = Nth(p + m - 1)
      BY <1>1, <3>1
    <3>3. ~ Ends(Nth(p + m - 1))
      BY <1>5, <3>1
    <3>4. Type(Nth(p + m)) # "Begin"
      BY <1>0, <2>1, <3>1, <3>3, Neighbours
    <3>5. /\ Nth(p + m)[1] = Nth(p + m - 1)[1]
          /\ Nth(p + m)[2] = Nth(p + m - 1)[2] + 1
      BY <3>1 DEF Nth
    <3> QED BY <2>1, <2>2, <2>4, <3>2, <3>4, <3>5
  <2> QED BY <2>3, <2>4
<1>7. TaskOfTransaction'
  <2>1. u.queue # <<>>
    <3>1. Len(u.queue) # 0
      BY <1>1
    <3> QED BY <3>1
  <2> QED BY <1>0, <1>1, <1>6, <2>1 DEF TaskOfTransaction
<1>8. Boundaries'
  <2>1. push_index' = push_index
    BY <1>1 DEF push_index
  <2> QED BY <1>0, <1>1, <1>2, <1>5, <2>1 DEF Boundaries
<1>9. IndexOK'
  <2> SUFFICES ASSUME NEW j \in Slot, j < i + 1 PROVE task'[j].in_use
    BY <1>2 DEF IndexOK
  <2>1. CASE j = i
    BY <1>1, <2>1
  <2>2. CASE j # i
    <3>1. i \in Int /\ j \in Int /\ last_index \in Int
      <4>1. /\ i \in 1 .. concurrent_txn_count /\ j \in 1 .. concurrent_txn_count
            /\ last_index \in 1 .. concurrent_txn_count + 1
        BY <1>0, <1>1 DEF TypeOK, Slot
      <4> QED BY <4>1
    <3>2. j < i /\ ~ (i <= j)
      BY <2>2, <3>1
    <3>3. j \in Free => ~ (j >= last_index)
      BY <1>2, <3>2
    <3>4. task[j].in_use
      <4>1. CASE j \in Free
        BY <1>0, <3>1, <3>3, <4>1 DEF IndexOK
      <4>2. CASE j \notin Free
        BY <4>2 DEF Free
      <4> QED BY <4>1, <4>2
    <3> QED BY <1>1, <2>2, <3>4
  <2> QED BY <2>1, <2>2
<1>10. PcOK'
  BY <1>2 DEF PcOK
<1>11. Accounted'
  <2> SUFFICES ASSUME NEW n \in 1 .. e PROVE AccountedFor(Nth(n))'
    BY <1>1 DEF Accounted, Nth
  <2>1. CASE n <= p
    <3>1. AccountedFor(Nth(n))
      BY <1>0, <1>1, <2>1 DEF Accounted
    <3>2. ASSUME NEW j \in Slot, NEW m \in DOMAIN task[j].queue,
                 task[j].queue[m] = Nth(n), Unserved(task[j], m)
          PROVE  j # i
      <4>1. SUFFICES ASSUME j = i PROVE FALSE
        OBVIOUS
      <4>2. task[i].queue # <<>> /\ task[i].queue \in Seq(Request) /\ task[i].current \in Nat
        <5>1. task[i] \in Task
          BY <1>0, <1>1 DEF TypeOK, TaskTypeOK
        <5> QED BY <3>2, <4>1, <5>1 DEF Task
      <4>3. task[i].current = Len(task[i].queue)
        BY <1>0, <1>1, <1>2, <4>2 DEF TaskOfTransaction
      <4>4. task[i].phase # "Serving"
        BY <1>0, <1>1, <1>2 DEF TasksInv, Consistent
      <4>5. m \in 1 .. Len(task[i].queue)
        BY <3>2, <4>1, <4>2
      <4> QED BY <3>2, <4>1, <4>2, <4>3, <4>4, <4>5 DEF Unserved
    <3>3. \A j \in Slot : \A m \in DOMAIN task[j].queue :
            task[j].queue[m] = Nth(n) /\ Unserved(task[j], m) => task'[j] = task[j]
      BY <1>1, <3>2
    <3> QED BY <1>1, <3>1, <3>3 DEF AccountedFor, Unserved
  <2>2. CASE n > p
    <3>1. n - p \in 1 .. e - p /\ p + (n - p) = n
      BY <1>1, <2>2
    <3>2. u.queue[n - p] = Nth(n) /\ Unserved(u, n - p)
      BY <1>1, <3>1 DEF Unserved
    <3>3. n - p \in DOMAIN task'[i].queue /\ task'[i].queue[n - p] = Nth(n) /\ Unserved(task'[i], n - p)
      BY <1>1, <3>1, <3>2
    <3> QED BY <1>1, <3>3 DEF AccountedFor, Unserved
  <2> QED BY <1>1, <2>1, <2>2
<1> QED BY <1>7, <1>8, <1>9, <1>10, <1>11 DEF BatchInv

LEMMA PollsBatch ==
  ASSUME BaseInv, BatchInv, NEW i \in Slot, Polls(i)
  PROVE  BatchInv'
<1>0. /\ TypeOK /\ TaskTypeOK /\ PoolOK /\ TasksInv /\ TaskOfTransaction /\ Boundaries /\ IndexOK
      /\ PcOK /\ Accounted /\ Consistent(task[i]) /\ task[i] \in Task
      /\ (AdvanceTask(i, Served) \/ CallBack(i))
      /\ request_queue_pool' = request_queue_pool /\ pop_index' = pop_index /\ last_index' = last_index
      /\ ((CallBack(i) /\ pc' = pc) \/ (pc = "advance" /\ pc' \in {"advance", "loop"}))
  BY DEF BaseInv, BatchInv, TypeOK, TaskTypeOK, TasksInv, Polls, queueVars
<1>1. PICK u : task' = [task EXCEPT ![i] = u] /\ Polled(task[i], u)
  BY <1>0, AdvancePolls, SwitchServes
<1>2. task'[i] = u /\ \A j \in Slot : j # i => task'[j] = task[j]
  BY <1>0, <1>1, PolledElsewhere
<1>3. u.queue = task[i].queue /\ u \in Task /\ Consistent(u) /\ task[i].current <= u.current
      /\ (u.in_use => task[i].in_use)
      /\ (task[i].in_use /\ ~ u.in_use => u.phase = "Finished")
      /\ answered \subseteq answered'
  BY <1>1 DEF Polled
<1>4. TaskOfTransaction'
  <2>1. /\ OneTransactionIn(task[i].queue) /\ (u.in_use => u.queue # <<>>)
        /\ (~ task[i].in_use /\ task[i].queue # <<>> => task[i].current = Len(task[i].queue))
    BY <1>0, <1>3 DEF TaskOfTransaction
  <2>2. u.current \in Nat /\ task[i].current \in Nat /\ u.queue \in Seq(Request)
        /\ Len(u.queue) \in Nat /\ u.current <= Len(u.queue)
    BY <1>0, <1>3 DEF Task, Consistent
  <2>3. ~ u.in_use /\ u.queue # <<>> => u.current = Len(u.queue)
    <3>1. CASE task[i].in_use
      <4>1. ~ u.in_use => u.current \in DOMAIN u.queue /\ Ends(u.queue[u.current])
        BY <1>3, <2>2, <3>1 DEF Consistent
      <4> QED BY <1>3, <2>1, <4>1 DEF OneTransactionIn
    <3>2. CASE ~ task[i].in_use
      BY <1>3, <2>1, <2>2, <3>2
    <3> QED BY <3>1, <3>2
  <2> QED BY <1>0, <1>2, <1>3, <2>1, <2>3 DEF TaskOfTransaction
<1>5. push_index' = push_index
  BY <1>0 DEF push_index
<1>6. Boundaries'
  BY <1>0, <1>5 DEF Boundaries
<1>7. CallBack(i) => task'[i].in_use = task[i].in_use /\ active_txn_number' = active_txn_number
  BY <1>0 DEF CallBack, Task, TaskTypeOK
<1>8. IndexOK'
  <2>1. CASE CallBack(i) /\ pc' = pc
    BY <1>0, <1>2, <1>7, <2>1 DEF IndexOK
  <2>2. CASE pc = "advance" /\ pc' \in {"advance", "loop"}
    <3>1. last_index' = 1
      BY <1>0, <2>2 DEF IndexOK
    <3>2. \A j \in Slot : ~ (j < 1)
      BY DEF Slot
    <3> QED BY <2>2, <3>1, <3>2 DEF IndexOK
  <2> QED BY <1>0, <2>1, <2>2
<1>9. PcOK'
  BY <1>0, <1>7 DEF PcOK
<1>10. Accounted'
  <2> SUFFICES ASSUME NEW n \in 1 .. pop_index PROVE AccountedFor(Nth(n))'
    BY <1>0 DEF Accounted, Nth
  <2>1. AccountedFor(Nth(n))
    BY <1>0 DEF Accounted
  <2> PICK r : r = Nth(n)
    OBVIOUS
  <2>2. CASE r \in answered \/ (~ Driver /\ Type(r) = "ReadDataStore")
    BY <1>3, <2>2 DEF AccountedFor, Nth
  <2>3. ASSUME NEW j \in Slot, NEW m \in DOMAIN task[j].queue,
               task[j].queue[m] = r, Unserved(task[j], m)
        PROVE  AccountedFor(Nth(n))'
    <3>1. CASE Unserved(task'[j], m)
      <4>1. task'[j].queue = task[j].queue
        BY <1>2, <1>3
      <4> QED BY <2>3, <3>1, <4>1 DEF AccountedFor, Nth, Unserved
    <3>2. CASE ~ Unserved(task'[j], m)
      <4>1. j = i
        BY <1>2, <2>3, <3>2
      <4>2. m \in DOMAIN task[i].queue /\ Unserved(task[i], m) /\ ~ Unserved(task'[i], m)
            /\ task[i].queue[m] = r
        BY <2>3, <3>2, <4>1
      <4>3. r \in answered' \/ Type(r) = "ReadDataStore"
        BY <1>1, <1>2, <4>2 DEF Polled
      <4>4. Driver => r \in answered'
        <5>1. Driver => \A x \in Request : "ignored" \notin Served[x]
          BY SwitchServes
        <5> QED BY <1>0, <4>2, <5>1, PolledAnswers, SwitchServes
      <4>5. r \in answered' \/ (~ Driver /\ Type(r) = "ReadDataStore")
        BY <4>3, <4>4
      <4> QED BY <4>5 DEF AccountedFor, Nth
    <3> QED BY <3>1, <3>2
  <2> QED BY <2>1, <2>2, <2>3 DEF AccountedFor
<1> QED BY <1>4, <1>6, <1>8, <1>9, <1>10 DEF BatchInv


LEMMA AddRequestBatch ==
  ASSUME BaseInv, BatchInv, AddRequest
  PROVE  BatchInv'
<1>0. /\ TypeOK /\ TaskOfTransaction /\ Boundaries /\ IndexOK /\ PcOK /\ Accounted
  BY DEF BaseInv, BatchInv
<1>1. /\ pc = "stopped" /\ push_index < Len(Script[Owner])
      /\ pc' = (IF push_index < Capacity THEN pc ELSE "write past the pool")
      /\ task' = task /\ answered' = answered /\ active_txn_number' = active_txn_number
      /\ pop_index' = pop_index /\ last_index' = last_index
  BY DEF AddRequest, taskVars
<1>2. TaskOfTransaction'
  BY <1>0, <1>1 DEF TaskOfTransaction
<1>3. Boundaries'
  BY <1>0, <1>1 DEF Boundaries
<1>4. IndexOK'
  BY <1>0, <1>1 DEF IndexOK
<1>5. PcOK'
  <2>1. Len(Script[Owner]) \in Nat
    <3>1. Script[Owner] \in Seq([session_id : Nat, operation_type : OperationType])
      BY OwnerIsClient, TransactionTaskAssumption
    <3> QED BY <3>1
  <2>2. push_index \in Nat /\ Capacity \in Nat
    BY <1>0, PushNat, AllAtOnceAssumption
  <2>3. Len(Script[Owner]) <= Capacity => push_index < Capacity
    <3> PICK len : len = Len(Script[Owner])
      OBVIOUS
    <3>1. len \in Nat /\ push_index < len
      BY <1>1, <2>1
    <3> QED BY <2>2, <3>1
  <2> QED BY <1>0, <1>1, <2>3 DEF PcOK
<1>6. Accounted'
  BY <1>0, <1>1 DEF Accounted, AccountedFor, Nth, Unserved
<1> QED BY <1>2, <1>3, <1>4, <1>5, <1>6 DEF BatchInv

LEMMA QuietBatch ==
  ASSUME BaseInv, BatchInv, Quiet, Run \/ LaunchDone \/ AdvanceThrows \/ Loop \/ UNCHANGED vars
  PROVE  BatchInv'
<1>0. /\ TypeOK /\ PoolOK /\ TaskOfTransaction /\ Boundaries /\ IndexOK /\ PcOK /\ Accounted
      /\ task' = task /\ answered' = answered /\ active_txn_number' = active_txn_number
      /\ request_queue_pool' = request_queue_pool /\ pop_index' = pop_index
  BY DEF BaseInv, BatchInv, Quiet, taskVars, queueVars
<1>1. active_txn_number \in Nat /\ push_index \in Nat /\ pop_index \in Nat /\ pop_index <= push_index
      /\ push_index' = push_index
  <2>1. active_txn_number \in 0 .. concurrent_txn_count
    BY <1>0 DEF TypeOK, TaskTypeOK
  <2>2. active_txn_number \in Nat
    BY <2>1
  <2>3. push_index' = push_index
    BY <1>0 DEF push_index
  <2> QED BY <1>0, <2>2, <2>3, PushNat
<1>2. TaskOfTransaction'
  BY <1>0 DEF TaskOfTransaction
<1>3. Accounted'
  BY <1>0 DEF Accounted, AccountedFor, Nth, Unserved
<1>4. \A n \in 1 .. push_index : request_queue_pool[n] = Nth(n)
  BY <1>0 DEF PoolOK
<1>5. Boundaries' /\ IndexOK' /\ PcOK'
  <2>1. CASE Run
    <3>1. pc = "stopped" /\ pc' = "launch" /\ last_index' = last_index /\ MustRun
          /\ Ends(request_queue_pool[push_index])
      BY <2>1 DEF Run
    <3>2. push_index > 0
      BY <1>0, <1>1, <3>1 DEF PcOK, MustRun
    <3>3. Ends(Nth(push_index))
      BY <1>1, <1>4, <3>1, <3>2
    <3> QED BY <1>0, <1>1, <3>1, <3>2, <3>3 DEF Boundaries, IndexOK, PcOK
  <2>2. CASE LaunchDone
    <3>1. \A j \in Slot : ~ (j < 1)
      BY DEF Slot
    <3> QED BY <1>0, <1>1, <2>2, <3>1 DEF LaunchDone, Boundaries, IndexOK, PcOK
  <2>3. CASE AdvanceThrows
    BY <1>0, <1>1, <2>3 DEF AdvanceThrows, Boundaries, IndexOK, PcOK
  <2>4. CASE Loop
    BY <1>0, <1>1, <2>4 DEF Loop, MustRun, Boundaries, IndexOK, PcOK
  <2>5. CASE UNCHANGED vars
    BY <1>0, <1>1, <2>5 DEF vars, runVars, Boundaries, IndexOK, PcOK
  <2> QED BY <2>1, <2>2, <2>3, <2>4, <2>5
<1> QED BY <1>2, <1>3, <1>5 DEF BatchInv

LEMMA NextBatch ==
  ASSUME WholeTransactions
  PROVE  BaseInv /\ BatchInv /\ [Next]_vars => BatchInv'
<1> SUFFICES ASSUME BaseInv, BatchInv, [Next]_vars PROVE BatchInv'
  OBVIOUS
<1>0. TypeOK
  BY DEF BaseInv
<1>1. CASE AddRequest
  BY <1>1, AddRequestBatch
<1>2. ASSUME NEW i \in Slot, Polls(i) PROVE BatchInv'
  BY <1>2, PollsBatch
<1>3. CASE LaunchTransaction
  <2>1. \E i, e, u : LaunchesTo(i, e, u)
    BY <1>0, <1>3, LaunchSafe, LaunchMoves
  <2> QED BY <2>1, LaunchBatch
<1>4. CASE Quiet /\ (Run \/ LaunchDone \/ AdvanceThrows \/ Loop \/ UNCHANGED vars)
  BY <1>4, QuietBatch
<1> QED BY <1>0, <1>1, <1>2, <1>3, <1>4, Steps

LEMMA InitBatch == Init => BatchInv
<1> SUFFICES ASSUME Init PROVE BatchInv
  OBVIOUS
<1>1. /\ \A i \in Slot : task[i] = NewTask
      /\ pop_index = 0 /\ pc = "stopped" /\ last_index = 1 /\ active_txn_number = 0
  BY InitialTasks DEF Init, TaskInit
<1>2. \A i \in Slot : /\ ~ task[i].in_use /\ task[i].queue = <<>> /\ DOMAIN task[i].queue = {}
                      /\ ~ (i < last_index)
  BY <1>1 DEF NewTask, Slot
<1>3. TaskOfTransaction
  BY <1>2 DEF TaskOfTransaction, OneTransactionIn
<1>4. Accounted
  BY <1>1 DEF Accounted
<1> QED BY <1>1, <1>2, <1>3, <1>4 DEF BatchInv, Boundaries, IndexOK, PcOK

LEMMA BatchInvariant ==
  ASSUME WholeTransactions
  PROVE  Spec => [](BaseInv /\ BatchInv)
<1>1. Init => BaseInv /\ BatchInv
  BY InitBase, InitBatch
<1>2. BaseInv /\ BatchInv /\ [Next]_vars => (BaseInv /\ BatchInv)'
  BY NextBase, NextBatch
<1> QED BY <1>1, <1>2, PTL DEF Spec

\* LaunchRequests gives a task one whole transaction, and no request of the next one
\* of its session, if the owner adds whole transactions.
THEOREM KeptApart ==
  ASSUME WholeTransactions
  PROVE  Spec => []OneTransactionPerTask
<1>1. BatchInv => OneTransactionPerTask
  BY DEF BatchInv, TaskOfTransaction, OneTransactionIn, OneTransactionPerTask
<1> QED BY <1>1, BatchInvariant, PTL

\* Whole transactions that fit into the pool never make LaunchRequests throw or fail
\* an assertion: it always finds a free task ahead and the end of the transaction
\* that it launches.
THEOREM CrashesNever ==
  ASSUME WholeTransactions, Len(Script[Owner]) <= Capacity
  PROVE  Spec => []NeverCrashes
<1>1. BatchInv => NeverCrashes
  BY DEF BatchInv, PcOK, NeverCrashes
<1> QED BY <1>1, BatchInvariant, PTL

\* As many transactions are counted as have been launched.
LEMMA AsManyAsLaunched ==
  ASSUME NEW p \in Nat
  PROVE  Cardinality({n \in 1 .. p : Ends(Nth(n))}) =
           Cardinality({r \in {Nth(n) : n \in 1 .. p} : Ends(r)})
<1> DEFINE S == {n \in 1 .. p : Ends(Nth(n))}
<1> DEFINE T == {r \in {Nth(n) : n \in 1 .. p} : Ends(r)}
<1> DEFINE f == [n \in S |-> Nth(n)]
<1>1. \A m, n \in S : Nth(m) = Nth(n) => m = n
  BY DEF Nth
<1>2. \A r \in T : \E n \in S : Nth(n) = r
  OBVIOUS
<1>3. \A n \in S : Nth(n) \in T
  OBVIOUS
<1>4. IsFiniteSet(S)
  <2>1. IsFiniteSet(1 .. p)
    BY FS_Interval
  <2> QED BY <2>1, FS_Subset
<1>5. f \in Bijection(S, T)
  <2> HIDE DEF S, T
  <2>1. f \in [S -> T] /\ \A n \in S : f[n] = Nth(n)
    BY <1>3
  <2>2. \A m, n \in S : f[m] = f[n] => m = n
    BY <1>1, <2>1
  <2>3. \A r \in T : \E n \in S : f[n] = r
    BY <1>2, <2>1
  <2> HIDE DEF f
  <2> QED BY <2>1, <2>2, <2>3 DEF Bijection, Injection, Surjection, IsInjective
<1>6. Cardinality(S) = Cardinality(T)
  <2>1. ExistsBijection(S, T)
    BY <1>5 DEF ExistsBijection
  <2> HIDE DEF S, T
  <2> QED BY <1>4, <2>1, FS_Bijection
<1> QED BY <1>6

\* When Run has returned, all transactions that were added before have been served to
\* their end and counted once, if every ReadDataStore is answered.
THEOREM ServedAll ==
  ASSUME WholeTransactions, Driver \/ \A r \in Request : Type(r) # "ReadDataStore"
  PROVE  Spec => []StoppedServedAll
<1>1. BaseInv /\ BatchInv => StoppedServedAll
  <2> SUFFICES ASSUME BaseInv, BatchInv, pc = "stopped"
               PROVE  /\ \A n \in 1 .. pop_index : request_queue_pool[n] \in answered
                      /\ commit_count + abort_count =
                           Cardinality({n \in 1 .. pop_index : Ends(request_queue_pool[n])})
                      /\ Free = Slot
    BY DEF StoppedServedAll
  <2>0. /\ TypeOK /\ TaskTypeOK /\ PoolOK /\ TasksInv /\ ActiveTasksCounted /\ EveryOutcomeCounted
        /\ Accounted /\ active_txn_number = 0
    BY DEF BaseInv, BatchInv, PcOK, TypeOK
  <2>1. pop_index \in Nat /\ push_index \in Nat /\ pop_index <= push_index
    BY <2>0, PushNat
  <2>2. Free = Slot
    <3>1. IsFiniteSet(Slot \ Free) /\ Cardinality(Slot \ Free) = 0
      BY <2>0, SlotsFinite DEF ActiveTasksCounted
    <3>2. Slot \ Free = {}
      BY <3>1, FS_EmptySet
    <3> QED BY <3>2 DEF Free
  <2>3. \A i \in Slot : /\ task[i].phase \notin {"Serving", "Ending"}
                        /\ task[i].current \in Nat
    BY <2>0, <2>2 DEF Free, TasksInv, Consistent, TaskTypeOK, Task
  <2>4. \A n \in 1 .. pop_index : n \in 1 .. push_index /\ request_queue_pool[n] = Nth(n)
                                  /\ Nth(n) \in Request
    <3>1. \A n \in 1 .. pop_index : n \in 1 .. push_index
      BY <2>1
    <3> QED BY <2>0, <3>1, NthRequest
  <2>5. \A n \in 1 .. pop_index : Nth(n) \in answered
    <3> SUFFICES ASSUME NEW n \in 1 .. pop_index, Nth(n) \notin answered PROVE FALSE
      OBVIOUS
    <3>1. PICK i \in Slot : \E m \in DOMAIN task[i].queue :
            task[i].queue[m] = Nth(n) /\ Unserved(task[i], m)
      BY <2>0, <2>4 DEF Accounted, AccountedFor
    <3>2. task[i].queue # <<>> /\ ~ task[i].in_use /\ OneTransactionIn(task[i].queue)
          /\ task[i].queue \in Seq(Request)
      BY <2>0, <2>2, <3>1 DEF Free, BatchInv, TaskOfTransaction, TaskTypeOK, Task
    <3>3. task[i].current = Len(task[i].queue)
      BY <3>2 DEF BatchInv, TaskOfTransaction
    <3>4. \A m \in DOMAIN task[i].queue : ~ (m > Len(task[i].queue))
      BY <3>2
    <3> QED BY <2>3, <3>1, <3>3, <3>4 DEF Unserved
  <2>6. answered = Launched
    BY <2>0, <2>5 DEF PoolOK, Launched
  <2>7. commit_count + abort_count = Cardinality({r \in answered : Ends(r)})
    <3>1. {i \in Slot : task[i].phase = "Ending"} = {}
      BY <2>3
    <3>2. Cardinality({}) = 0
      BY FS_EmptySet
    <3>3. commit_count + abort_count + Cardinality({}) = Cardinality({r \in answered : Ends(r)})
      BY <2>0, <3>1, Zenon DEF EveryOutcomeCounted
    <3> PICK k : k = Cardinality({r \in answered : Ends(r)})
      OBVIOUS
    <3>4. commit_count \in Nat /\ abort_count \in Nat
      BY <2>0 DEF TaskTypeOK
    <3> QED BY <3>2, <3>3, <3>4
  <2>8. {n \in 1 .. pop_index : Ends(request_queue_pool[n])} = {n \in 1 .. pop_index : Ends(Nth(n))}
    BY <2>4
  <2>9. Cardinality({n \in 1 .. pop_index : Ends(Nth(n))}) = Cardinality({r \in Launched : Ends(r)})
    BY <2>1, AsManyAsLaunched, Zenon DEF Launched
  <2>10. commit_count + abort_count = Cardinality({n \in 1 .. pop_index : Ends(request_queue_pool[n])})
    BY <2>6, <2>7, <2>8, <2>9, Zenon
  <2> QED BY <2>2, <2>4, <2>5, <2>10
<1> QED BY <1>1, BatchInvariant, PTL
=============================================================================
