------------------------ MODULE TransactionTaskProofs ------------------------
(***************************************************************************)
(* What polling a task does to it and to the answers, whichever executor   *)
(* polls it, and that the statistics count every outcome once.             *)
(***************************************************************************)
EXTENDS TransactionTask, TLAPS, FiniteSetTheorems

\* Request m of task t has not been answered yet: the task has not come to it, or
\* serves it.
Unserved(t, m) == m > t.current \/ (m = t.current /\ t.phase = "Serving")

\* A task agrees with the execution in it.
Consistent(t) ==
  /\ t.in_use => t.phase # "Finished"
  /\ ~ t.in_use => t.phase \in {"Reset", "Finished"}
  /\ t.current <= Len(t.queue)
  /\ t.phase \in {"Serving", "Ending", "Finished"} =>
       t.current > 0 /\ t.request = t.queue[t.current]
  /\ t.phase \in {"Ending", "Finished"} => Ends(t.request)
  /\ t.phase = "Ending" => t.status # "Ongoing"

\* No request is in two places.
OnceInQueues ==
  \A i, j \in Slot : \A m \in DOMAIN task[i].queue, n \in DOMAIN task[j].queue :
    task[i].queue[m] = task[j].queue[n] => i = j /\ m = n

\* Requests are answered in the order of the queue, and only ReadDataStore never is.
AnsweredInOrder ==
  \A i \in Slot : \A m \in DOMAIN task[i].queue :
    IF Unserved(task[i], m) THEN task[i].queue[m] \notin answered
    ELSE task[i].queue[m] \in answered \/ Type(task[i].queue[m]) = "ReadDataStore"

TasksInv ==
  /\ \A i \in Slot : Consistent(task[i])
  /\ OnceInQueues
  /\ AnsweredInOrder
  /\ IsFiniteSet(answered)

-----------------------------------------------------------------------------
(* One step of one task.                                                   *)

\* What an executor's switch may do with a request.
Serves(served) ==
  \A r \in Request :
    /\ served[r] \subseteq {"called", "answered", "ignored"}
    /\ "answered" \in served[r] => ~ Ends(r)
    /\ "ignored" \in served[r] => Type(r) = "ReadDataStore"

\* Task t becomes u.  It keeps its requests and goes through them in their order;
\* those that it is done with are answered, unless nobody answers a ReadDataStore.
Polled(t, u) ==
  /\ u \in Task /\ Consistent(u)
  /\ u.queue = t.queue /\ u.session_id = t.session_id /\ t.current <= u.current
  /\ u.in_use => t.in_use
  /\ t.in_use /\ ~ u.in_use => u.phase = "Finished"
  /\ \A m \in DOMAIN t.queue :
       IF Unserved(u, m) THEN Unserved(t, m)
       ELSE Unserved(t, m) => t.queue[m] \in answered' \/ Type(t.queue[m]) = "ReadDataStore"
  /\ answered \subseteq answered' /\ answered' \subseteq Request
  /\ \A r \in answered' \ answered :
       \E m \in DOMAIN t.queue : t.queue[m] = r /\ Unserved(t, m) /\ ~ Unserved(u, m)

LEMMA CallBackPolls ==
  ASSUME TaskTypeOK, NEW i \in Slot, Consistent(task[i]), CallBack(i)
  PROVE  \E u : task' = [task EXCEPT ![i] = u] /\ Polled(task[i], u)
<1> DEFINE t == task[i]
<1> DEFINE u == [t EXCEPT !.called_back = TRUE]
<1>1. t \in Task
  BY DEF TaskTypeOK
<1>2. u \in Task
  BY <1>1, Zenon DEF Task
<1>3. /\ u.queue = t.queue /\ u.session_id = t.session_id /\ u.in_use = t.in_use
      /\ u.phase = t.phase /\ u.current = t.current /\ u.request = t.request
      /\ u.status = t.status
  BY <1>1 DEF Task
<1>4. task' = [task EXCEPT ![i] = u] /\ answered' = answered
  BY DEF CallBack
<1>5. Consistent(u)
  BY <1>3 DEF Consistent
<1>6. Polled(t, u)
  BY <1>2, <1>3, <1>4, <1>5 DEF Polled, Unserved, TaskTypeOK, Task
<1> QED BY <1>4, <1>6

LEMMA PassedPolls ==
  ASSUME TaskTypeOK, NEW i \in Slot, Consistent(task[i]), Passed(i)
  PROVE  \E u : task' = [task EXCEPT ![i] = u] /\ Polled(task[i], u)
<1>1. task' = [task EXCEPT ![i] = task[i]] /\ answered' = answered
  BY DEF Passed, taskVars, TaskTypeOK
<1>2. Polled(task[i], task[i])
  BY <1>1 DEF Polled, TaskTypeOK, Unserved, Task
<1> QED BY <1>1, <1>2

LEMMA DecidesPolls ==
  ASSUME TaskTypeOK, NEW i \in Slot, Consistent(task[i]), Decides(i)
  PROVE  \E u : task' = [task EXCEPT ![i] = u] /\ Polled(task[i], u)
<1> DEFINE t == task[i]
<1>1. t \in Task
  BY DEF TaskTypeOK
<1>2. PICK s \in {"Committed", "Aborted"} :
        task' = [task EXCEPT ![i] = [t EXCEPT !.phase = "Ending", !.status = s,
                                              !.called_back = FALSE]]
  BY DEF Decides
<1> DEFINE u == [t EXCEPT !.phase = "Ending", !.status = s, !.called_back = FALSE]
<1>3. u \in Task
  BY <1>1, Zenon DEF Task
<1>4. /\ u.queue = t.queue /\ u.session_id = t.session_id /\ u.in_use = t.in_use
      /\ u.phase = "Ending" /\ u.current = t.current /\ u.request = t.request
      /\ u.status = s
  BY <1>1 DEF Task
<1>5. t.in_use /\ t.phase = "Serving" /\ Ends(t.request) /\ answered' = answered \cup {t.request}
  BY DEF Decides
<1>6. /\ t.current \in DOMAIN t.queue /\ t.request = t.queue[t.current]
      /\ t.request \in Request /\ t.current \in Nat
  BY <1>1, <1>5 DEF Consistent, Task
<1>7. Consistent(u)
  BY <1>4, <1>5 DEF Consistent
<1> HIDE DEF u
<1>8. Polled(t, u)
  BY <1>3, <1>4, <1>5, <1>6, <1>7 DEF Polled, Unserved, TaskTypeOK, Task
<1> QED BY <1>2, <1>8 DEF u

LEMMA FinishesPolls ==
  ASSUME TaskTypeOK, NEW i \in Slot, Consistent(task[i]), Finishes(i)
  PROVE  \E u : task' = [task EXCEPT ![i] = u] /\ Polled(task[i], u)
<1> DEFINE t == task[i]
<1>1. t \in Task
  BY DEF TaskTypeOK
<1> DEFINE u == Release([t EXCEPT !.phase = "Finished"])
<1>2. task' = [task EXCEPT ![i] = u] /\ answered' = answered
  BY DEF Finishes
<1>3. u \in Task
  BY <1>1, Zenon DEF Task, Release
<1>4. /\ u.queue = t.queue /\ u.session_id = t.session_id /\ u.in_use = FALSE
      /\ u.phase = "Finished" /\ u.current = t.current /\ u.request = t.request
      /\ u.status = t.status
  BY <1>1 DEF Task, Release
<1>5. t.in_use /\ t.phase = "Ending"
  BY DEF Finishes, IsFinished, Consistent
<1>6. Consistent(u)
  BY <1>4, <1>5 DEF Consistent
<1> HIDE DEF u
<1>7. Polled(t, u)
  BY <1>2, <1>3, <1>4, <1>5, <1>6 DEF Polled, Unserved, TaskTypeOK, Task
<1> QED BY <1>2, <1>7 DEF u

LEMMA StaysIdlePolls ==
  ASSUME TaskTypeOK, NEW i \in Slot, Consistent(task[i]), StaysIdle(i)
  PROVE  \E u : task' = [task EXCEPT ![i] = u] /\ Polled(task[i], u)
<1> DEFINE t == task[i]
<1>1. t \in Task
  BY DEF TaskTypeOK
<1> DEFINE p == IF t.phase = "Reset" THEN t.phase ELSE "Idle"
<1> DEFINE u == [t EXCEPT !.phase = p, !.called_back = FALSE]
<1>2. task' = [task EXCEPT ![i] = u] /\ answered' = answered \cup Replied(t)
  BY DEF StaysIdle
<1>3. p \in {"Reset", "Idle"}
  OBVIOUS
<1> HIDE DEF p
<1>4. u \in Task
  BY <1>1, <1>3, Zenon DEF Task
<1>5. /\ u.queue = t.queue /\ u.session_id = t.session_id /\ u.in_use = t.in_use
      /\ u.phase = p /\ u.current = t.current /\ u.request = t.request
      /\ u.status = t.status
  BY <1>1 DEF Task
<1>6. /\ t.in_use /\ t.current >= Len(t.queue)
      /\ t.phase \in {"Reset", "Idle"} \/ (t.phase = "Serving" /\ ~ Ends(t.request))
  BY <1>1 DEF StaysIdle, IsIdle, HasRequest, Task
<1>7. Consistent(u)
  BY <1>3, <1>5, <1>6 DEF Consistent
<1> HIDE DEF u
<1>8. CASE t.phase = "Serving"
  <2>1. /\ t.current \in DOMAIN t.queue /\ t.request = t.queue[t.current]
        /\ t.request \in Request /\ t.current \in Nat /\ answered' = answered \cup {t.request}
    BY <1>1, <1>2, <1>8 DEF Consistent, Task, Replied
  <2>2. Polled(t, u)
    BY <1>3, <1>4, <1>5, <1>6, <1>7, <1>8, <2>1 DEF Polled, Unserved, TaskTypeOK, Task
  <2> QED BY <1>2, <2>2 DEF u
<1>9. CASE t.phase # "Serving"
  <2>1. answered' = answered
    BY <1>2, <1>9 DEF Replied
  <2>2. Polled(t, u)
    BY <1>3, <1>4, <1>5, <1>6, <1>7, <1>9, <2>1 DEF Polled, Unserved, TaskTypeOK, Task
  <2> QED BY <1>2, <2>2 DEF u
<1> QED BY <1>8, <1>9

LEMMA TakesRequestPolls ==
  ASSUME TaskTypeOK, NEW i \in Slot, Consistent(task[i]), NEW served, Serves(served),
         TakesRequest(i, served)
  PROVE  \E u : task' = [task EXCEPT ![i] = u] /\ Polled(task[i], u)
<1> DEFINE t == task[i]
<1>1. t \in Task
  BY DEF TaskTypeOK
<1> DEFINE n == t.current + 1
<1> DEFINE r == t.queue[n]
<1>2. n \in DOMAIN t.queue /\ r \in Request /\ n \in Nat /\ t.current \in Nat
  BY <1>1 DEF TakesRequest, HasRequest, Task
<1>3. PICK how \in served[r] :
        /\ task' = [task EXCEPT ![i] = [t EXCEPT
             !.phase = IF how = "called" THEN "Serving" ELSE "Idle",
             !.request = r, !.current = n, !.called_back = FALSE]]
        /\ answered' = answered \cup Replied(t) \cup (IF how = "answered" THEN {r} ELSE {})
  BY DEF TakesRequest, CurrentRequest
<1> DEFINE p == IF how = "called" THEN "Serving" ELSE "Idle"
<1> DEFINE u == [t EXCEPT !.phase = p, !.request = r, !.current = n, !.called_back = FALSE]
<1>4. p \in {"Serving", "Idle"} /\ (p = "Serving" <=> how = "called")
  OBVIOUS
<1>5. how \in {"called", "answered", "ignored"} /\ (how = "ignored" => Type(r) = "ReadDataStore")
  BY <1>2 DEF Serves
<1>6. /\ t.in_use
      /\ t.phase \in {"Reset", "Idle"} \/ (t.phase = "Serving" /\ ~ Ends(t.request))
  BY <1>1 DEF TakesRequest, IsIdle
<1>7. task' = [task EXCEPT ![i] = u]
  BY <1>3
<1>8. /\ \A x \in Replied(t) : t.phase = "Serving" /\ x = t.queue[t.current] /\ t.current \in DOMAIN t.queue
      /\ t.phase = "Serving" => t.queue[t.current] \in Replied(t)
      /\ Replied(t) \subseteq Request
  BY <1>1 DEF Replied, Consistent, Task
<1> HIDE DEF p, r, n
<1>9. u \in Task
  BY <1>1, <1>2, <1>4, Zenon DEF Task
<1>10. /\ u.queue = t.queue /\ u.session_id = t.session_id /\ u.in_use = t.in_use
       /\ u.phase = p /\ u.current = n /\ u.request = r /\ u.status = t.status
  BY <1>1 DEF Task
<1>11. Consistent(u)
  BY <1>2, <1>4, <1>6, <1>10 DEF Consistent, Task, n, r
<1> HIDE DEF u
<1>12. /\ answered \subseteq answered' /\ answered' \subseteq Request
       /\ \A x \in answered' \ answered :
            \E m \in DOMAIN t.queue : t.queue[m] = x /\ Unserved(t, m) /\ ~ Unserved(u, m)
  <2>1. /\ Unserved(t, n) /\ (how = "answered" => ~ Unserved(u, n))
        /\ t.phase = "Serving" => Unserved(t, t.current) /\ ~ Unserved(u, t.current)
    BY <1>2, <1>4, <1>10 DEF Unserved, n
  <2>2. answered \subseteq Request
    BY DEF TaskTypeOK
  <2> QED BY <1>2, <1>3, <1>8, <2>1, <2>2 DEF r
<1>13. \A m \in DOMAIN t.queue :
         IF Unserved(u, m) THEN Unserved(t, m)
         ELSE Unserved(t, m) => t.queue[m] \in answered' \/ Type(t.queue[m]) = "ReadDataStore"
  <2> TAKE m \in DOMAIN t.queue
  <2>0. m \in Nat
    BY <1>1 DEF Task
  <2>1. CASE m > n
    BY <2>0, <2>1, <1>2, <1>10 DEF Unserved, n
  <2>2. CASE m = n
    <3>1. Unserved(t, n) /\ (Unserved(u, n) <=> how = "called")
      BY <1>2, <1>4, <1>10 DEF Unserved, n
    <3>2. how = "answered" => r \in answered'
      BY <1>3
    <3> QED BY <1>5, <2>2, <3>1, <3>2 DEF r
  <2>3. CASE m < n
    <3>1. ~ Unserved(u, m) /\ (Unserved(t, m) => m = t.current /\ t.phase = "Serving")
      BY <2>0, <2>3, <1>2, <1>10 DEF Unserved, n
    <3> QED BY <1>3, <1>8, <3>1
  <2> QED BY <2>0, <2>1, <2>2, <2>3, <1>2
<1>14. Polled(t, u)
  BY <1>2, <1>6, <1>9, <1>10, <1>11, <1>12, <1>13 DEF Polled, n
<1> QED BY <1>7, <1>14

\* A task that is polled, or whose call is answered, is the only one to change.
LEMMA AdvancePolls ==
  ASSUME TaskTypeOK, NEW i \in Slot, Consistent(task[i]), NEW served, Serves(served),
         AdvanceTask(i, served) \/ CallBack(i)
  PROVE  \E u : task' = [task EXCEPT ![i] = u] /\ Polled(task[i], u)
BY CallBackPolls, PassedPolls, DecidesPolls, FinishesPolls, StaysIdlePolls, TakesRequestPolls
   DEF AdvanceTask

-----------------------------------------------------------------------------
(* The invariant of the tasks, and the counters.                           *)

\* One step of the executor answers at most two requests.
LEMMA AnsweredStaysFinite ==
  ASSUME NEW i \in Slot, NEW served, AdvanceTask(i, served) \/ CallBack(i),
         IsFiniteSet(answered)
  PROVE  IsFiniteSet(answered')
<1>1. IsFiniteSet(answered \cup Replied(task[i]))
  <2>1. CASE task[i].phase = "Serving"
    BY <2>1, FS_AddElement DEF Replied
  <2>2. CASE task[i].phase # "Serving"
    <3>1. answered \cup Replied(task[i]) = answered
      BY <2>2 DEF Replied
    <3> QED BY <3>1
  <2> QED BY <2>1, <2>2
<1>2. CASE CallBack(i) \/ Passed(i) \/ Finishes(i)
  BY <1>2 DEF CallBack, Passed, Finishes, taskVars
<1>3. CASE Decides(i)
  <2>1. answered' = answered \cup {task[i].request}
    BY <1>3 DEF Decides
  <2> QED BY <2>1, FS_AddElement
<1>4. CASE StaysIdle(i)
  BY <1>1, <1>4 DEF StaysIdle
<1>5. CASE TakesRequest(i, served)
  <2> DEFINE r == CurrentRequest(task[i])
  <2>1. \/ answered' = answered \cup Replied(task[i])
        \/ answered' = (answered \cup Replied(task[i])) \cup {r}
    BY <1>5 DEF TakesRequest
  <2>2. IsFiniteSet((answered \cup Replied(task[i])) \cup {r})
    BY <1>1, FS_AddElement
  <2> QED BY <1>1, <2>1, <2>2
<1> QED BY <1>2, <1>3, <1>4, <1>5 DEF AdvanceTask

LEMMA PolledElsewhere ==
  ASSUME TaskTypeOK, NEW i \in Slot, NEW u, task' = [task EXCEPT ![i] = u]
  PROVE  task'[i] = u /\ \A j \in Slot : j # i => task'[j] = task[j]
BY DEF TaskTypeOK

LEMMA PolledTasksInv ==
  ASSUME TaskTypeOK, TasksInv, NEW i \in Slot, NEW served, Serves(served),
         AdvanceTask(i, served) \/ CallBack(i)
  PROVE  /\ task' \in [Slot -> Task] /\ answered' \subseteq Request
         /\ TasksInv'
<1>1. Consistent(task[i])
  BY DEF TasksInv
<1>2. PICK u : task' = [task EXCEPT ![i] = u] /\ Polled(task[i], u)
  BY <1>1, AdvancePolls
<1>3. task'[i] = u /\ \A j \in Slot : j # i => task'[j] = task[j]
  BY <1>2, PolledElsewhere
<1>4. task' \in [Slot -> Task] /\ answered' \subseteq Request
  BY <1>2 DEF Polled, TaskTypeOK
<1>5. \A j \in Slot : task'[j].queue = task[j].queue
  BY <1>2, <1>3 DEF Polled
<1>6. \A j \in Slot : Consistent(task[j])'
  <2> TAKE j \in Slot
  <2>1. CASE j = i
    BY <2>1, <1>2, <1>3 DEF Polled, Consistent
  <2>2. CASE j # i
    <3>1. Consistent(task[j]) /\ task'[j] = task[j]
      BY <2>2, <1>3 DEF TasksInv
    <3> QED BY <3>1 DEF Consistent
  <2> QED BY <2>1, <2>2
<1>7. OnceInQueues'
  BY <1>5 DEF OnceInQueues, TasksInv
<1>8. AnsweredInOrder'
  <2> SUFFICES ASSUME NEW j \in Slot, NEW m \in DOMAIN task[j].queue
               PROVE  IF Unserved(task'[j], m) THEN task[j].queue[m] \notin answered'
                      ELSE task[j].queue[m] \in answered' \/ Type(task[j].queue[m]) = "ReadDataStore"
    BY <1>5 DEF AnsweredInOrder, Unserved
  <2>1. IF Unserved(task[j], m) THEN task[j].queue[m] \notin answered
        ELSE task[j].queue[m] \in answered \/ Type(task[j].queue[m]) = "ReadDataStore"
    BY DEF TasksInv, AnsweredInOrder
  <2>2. answered \subseteq answered'
    BY <1>2 DEF Polled
  <2>3. \A r \in answered' \ answered :
          \E n \in DOMAIN task[i].queue :
            task[i].queue[n] = r /\ Unserved(task[i], n) /\ ~ Unserved(u, n)
    BY <1>2 DEF Polled
  <2>4. CASE j = i
    <3>1. IF Unserved(u, m) THEN Unserved(task[i], m)
          ELSE Unserved(task[i], m) =>
                 task[i].queue[m] \in answered' \/ Type(task[i].queue[m]) = "ReadDataStore"
      BY <2>4, <1>2 DEF Polled
    <3>2. Unserved(u, m) => task[i].queue[m] \notin answered'
      <4> SUFFICES ASSUME Unserved(u, m), task[i].queue[m] \in answered'
                   PROVE  FALSE
        OBVIOUS
      <4>1. task[i].queue[m] \in answered' \ answered
        BY <2>1, <2>4, <3>1
      <4>2. PICK n \in DOMAIN task[i].queue : task[i].queue[n] = task[i].queue[m] /\ ~ Unserved(u, n)
        BY <2>3, <4>1
      <4>3. n = m
        BY <2>4, <4>2 DEF TasksInv, OnceInQueues
      <4> QED BY <4>2, <4>3
    <3> QED BY <1>3, <2>1, <2>2, <2>4, <3>1, <3>2
  <2>5. CASE j # i
    <3>1. task'[j] = task[j]
      BY <1>3, <2>5
    <3>2. task[j].queue[m] \in answered' => task[j].queue[m] \in answered
      BY <2>3, <2>5 DEF TasksInv, OnceInQueues
    <3> QED BY <2>1, <2>2, <3>1, <3>2
  <2> QED BY <2>4, <2>5
<1>9. IsFiniteSet(answered')
  BY AnsweredStaysFinite DEF TasksInv
<1> QED BY <1>4, <1>6, <1>7, <1>8, <1>9 DEF TasksInv

\* The steps that the counters do not notice.
LEMMA UncountedStep ==
  ASSUME TaskTypeOK, NEW i \in Slot, Consistent(task[i]), NEW served, Serves(served),
         CallBack(i) \/ Passed(i) \/ StaysIdle(i) \/ TakesRequest(i, served)
  PROVE  /\ UNCHANGED <<active_txn_number, commit_count, abort_count>>
         /\ task'[i].in_use = task[i].in_use
         /\ task'[i].phase = "Ending" <=> task[i].phase = "Ending"
         /\ {r \in answered' : Ends(r)} = {r \in answered : Ends(r)}
<1> DEFINE t == task[i]
<1>1. t \in Task
  BY DEF TaskTypeOK
<1>2. IsIdle(t) => \A r \in Replied(t) : ~ Ends(r)
  BY DEF IsIdle, Replied
<1>3. CASE CallBack(i)
  BY <1>1, <1>3 DEF CallBack, Task, TaskTypeOK
<1>4. CASE Passed(i)
  BY <1>4 DEF Passed, taskVars
<1>5. CASE StaysIdle(i)
  <2>1. {r \in answered' : Ends(r)} = {r \in answered : Ends(r)}
    BY <1>2, <1>5 DEF StaysIdle
  <2>2. t.phase # "Ending" /\ task'[i].phase # "Ending" /\ task'[i].in_use = t.in_use
    BY <1>1, <1>5 DEF StaysIdle, IsIdle, Task, TaskTypeOK
  <2> QED BY <1>5, <2>1, <2>2 DEF StaysIdle
<1>6. CASE TakesRequest(i, served)
  <2> DEFINE r == CurrentRequest(t)
  <2>0. r \in Request
    <3>1. t.current < Len(t.queue)
      BY <1>6 DEF TakesRequest, HasRequest
    <3> QED BY <1>1, <3>1 DEF CurrentRequest, Task
  <2>1. PICK how \in served[r] :
         /\ task' = [task EXCEPT ![i] = [t EXCEPT
              !.phase = IF how = "called" THEN "Serving" ELSE "Idle",
              !.request = r, !.current = t.current + 1, !.called_back = FALSE]]
         /\ answered' = answered \cup Replied(t) \cup (IF how = "answered" THEN {r} ELSE {})
    BY <1>6 DEF TakesRequest
  <2>2. how = "answered" => ~ Ends(r)
    BY <2>0 DEF Serves
  <2>3. {x \in answered' : Ends(x)} = {x \in answered : Ends(x)}
    <3> HIDE DEF r
    <3> QED BY <1>2, <1>6, <2>1, <2>2 DEF TakesRequest
  <2>4. t.phase # "Ending" /\ task'[i].phase # "Ending" /\ task'[i].in_use = t.in_use
    <3> HIDE DEF r
    <3> QED BY <1>1, <1>6, <2>1 DEF TakesRequest, IsIdle, Task, TaskTypeOK
  <2> QED BY <1>6, <2>3, <2>4 DEF TakesRequest
<1> QED BY <1>3, <1>4, <1>5, <1>6

LEMMA SlotsFinite ==
  ASSUME NEW S, S \subseteq Slot
  PROVE  IsFiniteSet(S) /\ Cardinality(S) \in Nat /\ Cardinality(S) <= concurrent_txn_count
<1>1. IsFiniteSet(Slot) /\ Cardinality(Slot) = concurrent_txn_count
  BY FS_Interval, TransactionTaskAssumption DEF Slot
<1> QED BY <1>1, FS_Subset, FS_CardinalityType

\* active_txn_number goes with the tasks in use.
LEMMA PolledActive ==
  ASSUME TaskTypeOK, NEW i \in Slot, Consistent(task[i]), NEW served, Serves(served),
         AdvanceTask(i, served) \/ CallBack(i), ActiveTasksCounted
  PROVE  ActiveTasksCounted' /\ active_txn_number' \in 0 .. concurrent_txn_count
<1> DEFINE InUse == {j \in Slot : task[j].in_use}
<1>0. PICK u : task' = [task EXCEPT ![i] = u]
  BY AdvancePolls
<1>1. \A j \in Slot : j # i => task'[j] = task[j]
  BY <1>0, PolledElsewhere
<1>2. /\ Slot \ Free = InUse /\ (Slot \ Free)' = InUse'
      /\ IsFiniteSet(InUse) /\ InUse \subseteq Slot /\ InUse' \subseteq Slot
  BY SlotsFinite DEF Free
<1>3. CASE Finishes(i)
  <2>1. task'[i].in_use = FALSE /\ i \in InUse /\ active_txn_number' = active_txn_number - 1
    BY <1>3 DEF Finishes, Release, TaskTypeOK, Task
  <2>2. InUse' = InUse \ {i}
    BY <1>1, <2>1
  <2>3. Cardinality(InUse \ {i}) = Cardinality(InUse) - 1
    BY <1>2, <2>1, FS_RemoveElement
  <2>4. Cardinality(InUse \ {i}) \in Nat /\ active_txn_number = Cardinality(InUse)
    BY <1>2, SlotsFinite DEF ActiveTasksCounted
  <2>5. active_txn_number' = Cardinality(InUse')
    BY <2>1, <2>2, <2>3, <2>4
  <2>6. active_txn_number' \in 0 .. concurrent_txn_count
    BY <1>2, <2>5, SlotsFinite, TransactionTaskAssumption
  <2> QED BY <1>2, <2>5, <2>6 DEF ActiveTasksCounted
<1>4. CASE ~ Finishes(i)
  <2>1. task'[i].in_use = task[i].in_use /\ active_txn_number' = active_txn_number
    <3>1. CASE Decides(i)
      BY <3>1 DEF Decides, TaskTypeOK, Task
    <3>2. CASE ~ Decides(i)
      BY <1>4, <3>2, UncountedStep DEF AdvanceTask
    <3> QED BY <3>1, <3>2
  <2>2. InUse' = InUse
    BY <1>1, <2>1
  <2> HIDE DEF InUse
  <2> QED BY <1>2, <2>1, <2>2 DEF ActiveTasksCounted, TaskTypeOK
<1> QED BY <1>3, <1>4

\* commit_count and abort_count go with the outcomes that clients have been told.
LEMMA PolledOutcomes ==
  ASSUME TaskTypeOK, TasksInv, NEW i \in Slot, NEW served, Serves(served),
         AdvanceTask(i, served) \/ CallBack(i), EveryOutcomeCounted
  PROVE  EveryOutcomeCounted' /\ commit_count' \in Nat /\ abort_count' \in Nat
<1> DEFINE Ending == {j \in Slot : task[j].phase = "Ending"}
<1> DEFINE Told == {r \in answered : Ends(r)}
<1>0. Consistent(task[i]) /\ task[i] \in Task
  BY DEF TasksInv, TaskTypeOK
<1>1. PICK u : task' = [task EXCEPT ![i] = u]
  BY <1>0, AdvancePolls
<1>2. \A j \in Slot : j # i => task'[j] = task[j]
  BY <1>1, PolledElsewhere
<1>3. /\ IsFiniteSet(Ending) /\ Cardinality(Ending) \in Nat
      /\ IsFiniteSet(Told) /\ Cardinality(Told) \in Nat
  <2>1. IsFiniteSet(Told)
    BY FS_Subset DEF TasksInv
  <2>2. Ending \subseteq Slot
    OBVIOUS
  <2> HIDE DEF Ending, Told
  <2> QED BY <2>1, <2>2, SlotsFinite, FS_CardinalityType
<1>4. /\ commit_count \in Nat /\ abort_count \in Nat
      /\ commit_count + abort_count + Cardinality(Ending) = Cardinality(Told)
  BY DEF TaskTypeOK, EveryOutcomeCounted
<1>5. SUFFICES commit_count' \in Nat /\ abort_count' \in Nat
               /\ commit_count' + abort_count' + Cardinality(Ending') = Cardinality(Told')
  BY DEF EveryOutcomeCounted
<1>6. CASE Finishes(i)
  <2>1. task'[i].phase = "Finished" /\ answered' = answered
    BY <1>0, <1>6 DEF Finishes, Release, TaskTypeOK, Task
  <2>2. i \in Ending /\ task[i].status \in {"Committed", "Aborted"}
    BY <1>0, <1>6 DEF Finishes, IsFinished, Consistent, Task
  <2>3. Ending' = Ending \ {i}
    BY <1>2, <2>1, <2>2
  <2>4. Told' = Told
    BY <2>1
  <2>5. Cardinality(Ending \ {i}) = Cardinality(Ending) - 1
    BY <1>3, <2>2, FS_RemoveElement
  <2>6. \/ commit_count' = commit_count + 1 /\ abort_count' = abort_count + 0
        \/ commit_count' = commit_count + 0 /\ abort_count' = abort_count + 1
    BY <1>6, <2>2 DEF Finishes
  <2> HIDE DEF Ending, Told
  <2> QED BY <1>3, <1>4, <2>3, <2>4, <2>5, <2>6
<1>7. CASE Decides(i)
  <2> DEFINE r == task[i].request
  <2>1. /\ task'[i].phase = "Ending" /\ answered' = answered \cup {r}
        /\ commit_count' = commit_count /\ abort_count' = abort_count
        /\ task[i].phase = "Serving" /\ Ends(r)
    BY <1>0, <1>7 DEF Decides, TaskTypeOK, Task
  <2>2. r \notin answered
    <3>1. task[i].current \in DOMAIN task[i].queue /\ r = task[i].queue[task[i].current]
      BY <1>0, <2>1 DEF Consistent, Task
    <3>2. Unserved(task[i], task[i].current)
      BY <2>1 DEF Unserved
    <3> QED BY <3>1, <3>2 DEF TasksInv, AnsweredInOrder
  <2>3. Ending' = Ending \cup {i} /\ i \notin Ending
    BY <1>2, <2>1
  <2>4. Told' = Told \cup {r} /\ r \notin Told
    BY <2>1, <2>2
  <2>5. /\ Cardinality(Ending \cup {i}) = Cardinality(Ending) + 1
        /\ Cardinality(Told \cup {r}) = Cardinality(Told) + 1
    BY <1>3, <2>3, <2>4, FS_AddElement
  <2> HIDE DEF Ending, Told, r
  <2> QED BY <1>3, <1>4, <2>1, <2>3, <2>4, <2>5
<1>8. CASE ~ Finishes(i) /\ ~ Decides(i)
  <2>1. /\ UNCHANGED <<commit_count, abort_count>>
        /\ task'[i].phase = "Ending" <=> task[i].phase = "Ending"
        /\ Told' = Told
    BY <1>0, <1>8, UncountedStep DEF AdvanceTask
  <2>2. Ending' = Ending
    BY <1>2, <2>1
  <2> HIDE DEF Ending, Told
  <2> QED BY <1>4, <2>1, <2>2
<1> QED BY <1>6, <1>7, <1>8

\* A set of natural numbers has a least element.
LEMMA LeastOf ==
  ASSUME NEW S, S \subseteq Nat, S # {}
  PROVE  \E i \in S : \A j \in S : i <= j
<1> DEFINE R == {p \in Nat \X Nat : p[1] < p[2]}
<1>1. OpToRel(<, Nat) = R
  BY Zenon DEF OpToRel
<1>2. IsWellFoundedOn(R, Nat)
  BY <1>1, NatLessThanWellFounded, Zenon
<1>3. PICK i \in S : \A j \in S : ~ (<<j, i>> \in R)
  <2> HIDE DEF R
  <2> QED BY <1>2, WFMin
<1>4. ASSUME NEW j \in S PROVE i <= j
  <2>1. i \in Nat /\ j \in Nat
    OBVIOUS
  <2>2. j < i => <<j, i>> \in R
    BY <2>1
  <2> QED BY <1>3, <2>1, <2>2
<1> QED BY <1>4

\* The loops of LaunchRequests find the first task, if there is one.
LEMMA FirstSlotFound ==
  ASSUME NEW S, S \subseteq Slot
  PROVE  /\ S # {} => FirstSlot(S) \in S /\ \A j \in S : FirstSlot(S) <= j
         /\ S = {} <=> FirstSlot(S) = 0
<1>1. Slot \subseteq Nat /\ 0 \notin Slot
  BY TransactionTaskAssumption DEF Slot
<1>2. CASE S # {}
  <2>1. \E i \in S : \A j \in S : i <= j
    BY <1>1, <1>2, LeastOf
  <2>2. FirstSlot(S) \in S /\ \A j \in S : FirstSlot(S) <= j
    BY <1>2, <2>1 DEF FirstSlot
  <2> QED BY <1>1, <1>2, <2>2
<1>3. CASE S = {}
  BY <1>3 DEF FirstSlot
<1> QED BY <1>2, <1>3

\* An executor whose switch ignores no request answers all that a task is done with.
LEMMA PolledAnswers ==
  ASSUME TaskTypeOK, NEW i \in Slot, Consistent(task[i]), NEW served, Serves(served),
         \A r \in Request : "ignored" \notin served[r],
         AdvanceTask(i, served) \/ CallBack(i),
         NEW m \in DOMAIN task[i].queue, Unserved(task[i], m), ~ Unserved(task'[i], m)
  PROVE  task[i].queue[m] \in answered'
<1> DEFINE t == task[i]
<1>1. t \in Task /\ t.current \in Nat /\ m \in Nat /\ t.queue \in Seq(Request)
  BY DEF TaskTypeOK, Task
<1>2. t.phase = "Serving" => t.request = t.queue[t.current]
  BY DEF Consistent
<1>3. CASE CallBack(i) \/ Passed(i)
  <2>1. task'[i].current = t.current /\ task'[i].phase = t.phase
    BY <1>1, <1>3 DEF CallBack, Passed, taskVars, TaskTypeOK, Task
  <2> QED BY <2>1 DEF Unserved
<1>4. CASE Finishes(i)
  <2>1. task'[i].current = t.current /\ t.phase # "Serving"
    BY <1>1, <1>4 DEF Finishes, IsFinished, Release, TaskTypeOK, Task
  <2> QED BY <2>1 DEF Unserved
<1>5. CASE Decides(i) \/ StaysIdle(i)
  <2>1. task'[i].current = t.current
    <3>1. CASE Decides(i)
      BY <1>1, <3>1 DEF Decides, TaskTypeOK, Task
    <3>2. CASE StaysIdle(i)
      <4> DEFINE p == IF t.phase = "Reset" THEN t.phase ELSE "Idle"
      <4>1. task' = [task EXCEPT ![i] = [t EXCEPT !.phase = p, !.called_back = FALSE]]
        BY <3>2 DEF StaysIdle
      <4> HIDE DEF p
      <4> QED BY <1>1, <4>1 DEF TaskTypeOK, Task
    <3> QED BY <1>5, <3>1, <3>2
  <2>2. m = t.current /\ t.phase = "Serving"
    BY <2>1 DEF Unserved
  <2>3. t.request \in answered'
    BY <1>5, <2>2 DEF Decides, StaysIdle, Replied
  <2> QED BY <1>2, <2>2, <2>3
<1>6. CASE TakesRequest(i, served)
  <2> DEFINE r == CurrentRequest(t)
  <2>1. r = t.queue[t.current + 1] /\ r \in Request
    <3>1. t.current < Len(t.queue)
      BY <1>6 DEF TakesRequest, HasRequest
    <3> QED BY <1>1, <3>1 DEF CurrentRequest
  <2>2. PICK how \in served[r] :
         /\ task' = [task EXCEPT ![i] = [t EXCEPT
              !.phase = IF how = "called" THEN "Serving" ELSE "Idle",
              !.request = r, !.current = t.current + 1, !.called_back = FALSE]]
         /\ answered' = answered \cup Replied(t) \cup (IF how = "answered" THEN {r} ELSE {})
    BY <1>6 DEF TakesRequest
  <2>3. how = "called" \/ how = "answered"
    BY <2>1 DEF Serves
  <2> HIDE DEF r
  <2>4. task'[i].current = t.current + 1 /\ (how = "called" => task'[i].phase = "Serving")
    BY <1>1, <2>2 DEF TaskTypeOK, Task
  <2>5. CASE m = t.current /\ t.phase = "Serving"
    <3>1. t.request \in answered'
      BY <2>2, <2>5 DEF Replied
    <3> QED BY <1>2, <2>5, <3>1
  <2>6. CASE m > t.current
    <3>1. m = t.current + 1 /\ how = "answered"
      BY <1>1, <2>3, <2>4, <2>6 DEF Unserved
    <3>2. r \in answered'
      BY <2>2, <3>1
    <3> QED BY <2>1, <3>1, <3>2
  <2> QED BY <2>5, <2>6 DEF Unserved
<1> QED BY <1>3, <1>4, <1>5, <1>6 DEF AdvanceTask

\* A request of a script is a pair of its client and its place.
LEMMA RequestParts ==
  ASSUME NEW r \in Request
  PROVE  /\ r[1] \in Client /\ r[2] \in 1 .. Len(Script[r[1]]) /\ r = <<r[1], r[2]>>
         /\ Len(Script[r[1]]) \in Nat
         /\ SessionOf(r) \in Nat /\ Type(r) \in OperationType
<1>1. PICK c \in Client : r \in {c} \X DOMAIN Script[c]
  BY DEF Request
<1>2. Script[c] \in Seq([session_id : Nat, operation_type : OperationType])
  BY TransactionTaskAssumption
<1>3. r[1] = c /\ r[2] \in 1 .. Len(Script[c]) /\ r = <<r[1], r[2]>>
  BY <1>1, <1>2
<1>4. Script[c][r[2]] \in [session_id : Nat, operation_type : OperationType]
  <2> DEFINE Op == [session_id : Nat, operation_type : OperationType]
  <2> HIDE DEF Op
  <2>1. Script[c] \in Seq(Op)
    BY <1>2 DEF Op
  <2>2. Script[c][r[2]] \in Op
    BY <1>3, <2>1
  <2> QED BY <2>2 DEF Op
<1> QED BY <1>2, <1>3, <1>4 DEF SessionOf, Type

LEMMA RequestIn ==
  ASSUME NEW c \in Client, NEW n \in 1 .. Len(Script[c])
  PROVE  <<c, n>> \in Request
<1>1. Script[c] \in Seq([session_id : Nat, operation_type : OperationType])
  BY TransactionTaskAssumption
<1>2. <<c, n>> \in {c} \X DOMAIN Script[c]
  BY <1>1
<1> QED BY <1>2 DEF Request

LEMMA NewTasks ==
  ASSUME NEW t, NEW s \in Nat
  PROVE  LET u == ResetTask(t, s) IN
         /\ NewTask \in Task
         /\ u \in Task /\ u.queue = <<>> /\ u.in_use /\ u.session_id = s /\ u.current = 0
         /\ u.phase = "Reset" /\ u.request = NoRequest /\ u.status = "Ongoing"
<1>1. NewTask \in Task
  BY DEF NewTask, Task
<1>2. ResetTask(t, s) \in Task
  BY <1>1, Zenon DEF Task, ResetTask
<1> QED BY <1>1, <1>2 DEF ResetTask, NewTask

LEMMA InitialTasks ==
  ASSUME TaskInit
  PROVE  /\ TaskTypeOK /\ TasksInv /\ ActiveTasksCounted /\ EveryOutcomeCounted
         /\ \A i \in Slot : task[i] = NewTask
<1> USE DEF TaskInit
<1>1. task \in [Slot -> Task] /\ \A i \in Slot : task[i] = NewTask
  BY NewTasks, TransactionTaskAssumption
<1>2. TaskTypeOK
  BY <1>1, TransactionTaskAssumption DEF TaskTypeOK
<1>3. \A i \in Slot : /\ ~ task[i].in_use /\ task[i].phase = "Reset" /\ task[i].queue = <<>>
                      /\ task[i].current = 0 /\ DOMAIN task[i].queue = {}
  BY <1>1 DEF NewTask
<1>4. TasksInv
  BY <1>3, FS_EmptySet DEF TasksInv, Consistent, OnceInQueues, AnsweredInOrder
<1>5. Slot \ Free = {} /\ {i \in Slot : task[i].phase = "Ending"} = {}
      /\ {r \in answered : Ends(r)} = {}
  BY <1>3 DEF Free
<1>6. Cardinality({}) = 0
  BY FS_EmptySet
<1>7. active_txn_number = 0 /\ commit_count = 0 /\ abort_count = 0
  OBVIOUS
<1>8. ActiveTasksCounted
  BY <1>5, <1>6, <1>7 DEF ActiveTasksCounted
<1>9. commit_count + abort_count + Cardinality({}) = Cardinality({})
  BY <1>6, <1>7
<1>10. EveryOutcomeCounted
  BY <1>5, <1>9, Zenon DEF EveryOutcomeCounted
<1> QED BY <1>1, <1>2, <1>4, <1>8, <1>10

LEMMA TasksUnchanged ==
ASSUME TaskTypeOK, TasksInv, ActiveTasksCounted, EveryOutcomeCounted, UNCHANGED taskVars
  PROVE  TaskTypeOK' /\ TasksInv' /\ ActiveTasksCounted' /\ EveryOutcomeCounted'
<1>0. /\ task' = task /\ answered' = answered /\ active_txn_number' = active_txn_number
      /\ commit_count' = commit_count /\ abort_count' = abort_count
  BY DEF taskVars
<1>1. TaskTypeOK'
  BY <1>0 DEF TaskTypeOK
<1>2. TasksInv'
  <2>1. \A i \in Slot : Consistent(task[i])'
    BY <1>0 DEF TasksInv, Consistent
  <2>2. OnceInQueues'
    BY <1>0 DEF TasksInv, OnceInQueues
  <2>3. AnsweredInOrder'
    BY <1>0, Zenon DEF TasksInv, AnsweredInOrder, Unserved
  <2> QED BY <1>0, <2>1, <2>2, <2>3 DEF TasksInv
<1>3. ActiveTasksCounted'
  BY <1>0 DEF ActiveTasksCounted, Free
<1>4. EveryOutcomeCounted'
  BY <1>0, Zenon DEF EveryOutcomeCounted
<1> QED BY <1>1, <1>2, <1>3, <1>4
==============================================================================
