----------------------- MODULE OperationRequestProofs -----------------------
(***************************************************************************)
(* Proofs about OperationRequest, for any number of clients and any        *)
(* transactions that start with Begin: type correctness, and that Wait,    *)
(* Notify and PullResult over the shared result_ implement RequestFuture.  *)
(***************************************************************************)
EXTENDS OperationRequest, TLAPS

Untouched(r) == ~ is_finished[r] /\ answer[r] = Pending

\* A client asks for what is in its script, and waits for something it has asked for.
Asked ==
  \A c \in Client : /\ sent[c] <= Len(Script[c])
                    /\ wait[c] # "Ready" => sent[c] > 0

\* Nothing has happened to a request that has not been made, nor to one whose
\* transaction has not been given to the task.
Fresh ==
  /\ \A r \in Request : r[2] > sent[r[1]] => Untouched(r)
  /\ \A c \in Client : c # txn /\ sent[c] = 1 => Untouched(<<c, 1>>)

\* The client of the transaction in the task is at most one request ahead, and then it
\* waits for that request.
OneAhead ==
  txn # Nobody =>
    \/ sent[txn] = served
    \/ /\ sent[txn] = served + 1
       /\ wait[txn] \in {"Fast", "Lock", "Test", "Sleep", "Asleep"}
       /\ Untouched(Waiting(txn))

\* What result_ is for the request in the task.
ResultOf ==
  IF txn = Nobody THEN serve = "Take" ELSE
  CASE serve = "Serve" -> result = NewResult /\ Untouched(Current)
    [] serve = "SetFinished" ->
         \/ Untouched(Current) /\ result \in FirstAnswers(Type(Current))
         \/ is_finished[Current] /\ answer[Current] = result
    [] OTHER -> is_finished[Current] /\ answer[Current] = result

\* Only Insert and Upsert go on after they have notified the request.
Deciding == again => txn # Nobody /\ Type(Current) \in {"Insert", "Upsert"}

\* A client that is past Wait, or would pass it, and whose transaction goes on,
\* has its request in the task.
Owned ==
  \A c \in Client :
    /\ wait[c] \in {"PullRecord", "PullError"} => is_finished[Waiting(c)]
    /\ wait[c] # "Ready" /\ is_finished[Waiting(c)] /\ ~ Ends(Waiting(c)) =>
         txn = c /\ served = sent[c]

\* Half of the result is pulled.
HalfPulled ==
  \A c \in Client :
    wait[c] = "PullError" /\ ~ Ends(Waiting(c)) => cache[Waiting(c)].found = result.found

RequestInv ==
  /\ TypeOK /\ Asked /\ Fresh /\ OneAhead /\ ResultOf /\ Deciding /\ Owned /\ HalfPulled


-----------------------------------------------------------------------------
(* Requests and answers.                                                   *)

LEMMA RequestIn ==
  ASSUME NEW c \in Client, NEW n \in 1 .. Len(Script[c])
  PROVE  <<c, n>> \in Request
<1>1. n \in DOMAIN Script[c]  BY OperationRequestAssumption DEF OperationRequestAssumption
<1>2. <<c, n>> \in {c} \X DOMAIN Script[c]  BY <1>1
<1> QED BY <1>2, Zenon DEF Request

LEMMA RequestParts ==
  ASSUME NEW r \in Request
  PROVE  /\ r[1] \in Client /\ r[2] \in 1 .. Len(Script[r[1]])
         /\ r = <<r[1], r[2]>>
<1>1. PICK c \in Client : r \in {c} \X DOMAIN Script[c]  BY Zenon DEF Request
<1>2. r[1] = c /\ r[2] \in DOMAIN Script[c] /\ r = <<r[1], r[2]>>  BY <1>1
<1>3. DOMAIN Script[c] = 1 .. Len(Script[c])
  BY OperationRequestAssumption DEF OperationRequestAssumption
<1> QED BY <1>2, <1>3

LEMMA LengthIsNat == ASSUME NEW c \in Client PROVE Len(Script[c]) \in Nat
BY OperationRequestAssumption DEF OperationRequestAssumption

\* The first request of a transaction does not end it.
LEMMA FirstIsBegin ==
  ASSUME NEW c \in Client, Len(Script[c]) > 0
  PROVE  ~ Ends(<<c, 1>>)
<1>1. Script[c] # <<>>  BY OperationRequestAssumption DEF OperationRequestAssumption
<1> QED BY <1>1, OperationRequestAssumption DEF OperationRequestAssumption, Ends, Type

LEMMA SameAnswer ==
  ASSUME NEW a \in Answer, NEW b \in Answer, a.found = b.found, a.is_error = b.is_error
  PROVE  a = b
<1>1. PICK f \in {"Record", "NoRecord", "Nothing"}, e \in BOOLEAN :
        a = [found |-> f, is_error |-> e]
  BY Zenon DEF Answer
<1>2. PICK g \in {"Record", "NoRecord", "Nothing"}, d \in BOOLEAN :
        b = [found |-> g, is_error |-> d]
  BY Zenon DEF Answer
<1> QED BY <1>1, <1>2

LEMMA AnswersAreAnswers ==
  /\ NewResult \in Answer
  /\ Pending \notin Answer
  /\ \A type : FirstAnswers(type) \subseteq Answer
  /\ \A a \in Answer : [a EXCEPT !.is_error = TRUE] \in Answer
<1>1. Done \in Answer /\ Error \in Answer /\ NewResult \in Answer
  BY DEF Done, Error, NewResult, Answer
<1>2. Found \subseteq Answer
  <2>1. \A f \in {"Record", "NoRecord"} : [found |-> f, is_error |-> FALSE] \in Answer
    BY DEF Answer
  <2> QED BY <2>1, Zenon DEF Found
<1>3. \A type : FirstAnswers(type) \subseteq Answer
  <2> TAKE type
  <2>1. CASE type \in {"Begin", "Commit", "Abort"}  BY <1>1, <2>1 DEF FirstAnswers
  <2>2. CASE type \in {"Update", "Delete"}  BY <1>1, <2>2 DEF FirstAnswers
  <2>3. CASE type \notin {"Begin", "Commit", "Abort"} /\ type \notin {"Update", "Delete"}
    <3>1. FirstAnswers(type) = Found \cup {Error}  BY <2>3, Zenon DEF FirstAnswers
    <3> QED BY <1>1, <1>2, <3>1
  <2> QED BY <2>1, <2>2, <2>3
<1>4. Pending \notin Answer
  BY OperationRequestAssumption DEF OperationRequestAssumption
<1>5. ASSUME NEW a \in Answer PROVE [a EXCEPT !.is_error = TRUE] \in Answer
  BY DEF Answer
<1> QED BY <1>1, <1>3, <1>4, <1>5

\* The request in the task.
LEMMA CurrentIsRequest ==
  ASSUME TypeOK, Asked, txn # Nobody
  PROVE  txn \in Client /\ Current \in Request /\ served \in 1 .. Len(Script[txn])
<1>1. txn \in Client /\ served \in 1 .. sent[txn]  BY DEF TypeOK
<1>2. sent[txn] \in Nat /\ sent[txn] <= Len(Script[txn])  BY <1>1 DEF TypeOK, Asked
<1>3. served \in 1 .. Len(Script[txn])  BY <1>1, <1>2, LengthIsNat
<1> QED BY <1>1, <1>3, RequestIn DEF Current

LEMMA WaitingIsRequest ==
  ASSUME TypeOK, Asked, NEW c \in Client, sent[c] > 0
  PROVE  Waiting(c) \in Request
<1>1. sent[c] \in Nat /\ sent[c] <= Len(Script[c])  BY DEF TypeOK, Asked
<1>2. sent[c] \in 1 .. Len(Script[c])  BY <1>1, LengthIsNat
<1> QED BY <1>2, RequestIn DEF Waiting

LEMMA InitRequestInv == Init => RequestInv
<1> SUFFICES ASSUME Init PROVE RequestInv  OBVIOUS
<1>1. TypeOK  BY AnswersAreAnswers DEF Init, TypeOK
<1>2. Asked /\ Fresh /\ OneAhead /\ ResultOf /\ Deciding /\ Owned /\ HalfPulled
  BY LengthIsNat, RequestParts, RequestIn
  DEF Init, Asked, Fresh, OneAhead, ResultOf, Deciding, Owned, HalfPulled, Untouched
<1> QED BY <1>1, <1>2 DEF RequestInv


-----------------------------------------------------------------------------
(* The steps of the clients.                                               *)

\* A step within Wait or PullResult: only the client's place, the mutex and its copy
\* change.
LEMMA WithinWait ==
  ASSUME RequestInv, NEW c \in Client, NEW from, NEW to, wait[c] = from, from # "Ready",
         wait' = [wait EXCEPT ![c] = to],
         UNCHANGED <<is_finished, sent, executorVars, serve>>,
         mutex' \in [Request -> Client \cup {Nobody, "Executor"}],
         cache' \in [Request -> Answer],
         \/ to \in {"Lock", "Test", "Sleep", "Asleep"} /\ cache' = cache
              /\ from \in {"Fast", "Lock", "Test", "Sleep", "Asleep"}
         \/ to = "PullRecord" /\ is_finished[Waiting(c)] /\ cache' = cache
         \/ /\ from = "PullRecord" /\ to = "PullError"
            /\ cache' = [cache EXCEPT ![Waiting(c)].found = result.found]
         \/ /\ from = "PullError" /\ to = "Ready"
            /\ cache' = [cache EXCEPT ![Waiting(c)].is_error = result.is_error]
  PROVE  RequestInv'
<1> USE DEF RequestInv
<1>1. \A d \in Client : Waiting(d)' = Waiting(d)  BY DEF Waiting
<1>2. \A d \in Client : wait'[d] = IF d = c THEN to ELSE wait[d]  BY DEF TypeOK
<1>3. sent[c] > 0  BY DEF Asked
<1>4. TypeOK'  BY DEF TypeOK, executorVars
<1>5. Asked'  BY <1>2, <1>3 DEF Asked
<1>6. Fresh'  BY DEF Fresh, Untouched, executorVars
<1>7. OneAhead'
  <2> SUFFICES ASSUME txn # Nobody PROVE OneAhead'  BY DEF OneAhead, executorVars
  <2>1. txn \in Client  BY DEF TypeOK
  <2>2. CASE sent[txn] = served  BY <2>2 DEF OneAhead, executorVars
  <2>3. CASE sent[txn] # served
    <3>1. ~ is_finished[Waiting(txn)]  BY <2>3 DEF OneAhead, Untouched
    <3>2. wait'[txn] \in {"Fast", "Lock", "Test", "Sleep", "Asleep"}
      BY <1>2, <2>1, <2>3, <3>1 DEF OneAhead
    <3> QED BY <1>1, <2>1, <2>3, <3>2 DEF OneAhead, executorVars, Untouched
  <2> QED BY <2>2, <2>3
<1>8. ResultOf'  BY DEF ResultOf, executorVars, Untouched, Current, Type
<1>9. Owned'
  <2> SUFFICES ASSUME NEW d \in Client
               PROVE  /\ wait'[d] \in {"PullRecord", "PullError"} => is_finished[Waiting(d)]
                      /\ wait'[d] # "Ready" /\ is_finished[Waiting(d)] /\ ~ Ends(Waiting(d))
                           => txn = d /\ served = sent[d]
    BY <1>1 DEF Owned, executorVars, Ends, Type
  <2> QED BY <1>2 DEF Owned
<1>10. HalfPulled'
  <2> SUFFICES ASSUME NEW d \in Client, wait'[d] = "PullError", ~ Ends(Waiting(d))
               PROVE  cache'[Waiting(d)].found = result.found
    BY <1>1 DEF HalfPulled, executorVars, Ends, Type
  <2>1. sent[d] > 0  BY <1>2, <1>3 DEF Asked
  <2>2. Waiting(d) \in Request  BY <2>1, WaitingIsRequest
  <2>3. CASE d = c
    <3>1. to = "PullError"  BY <1>2, <2>3
    <3> QED BY <2>2, <2>3, <3>1 DEF TypeOK, Answer
  <2>4. CASE d # c
    <3>1. Waiting(c) # Waiting(d)  BY <2>4 DEF Waiting
    <3>2. cache'[Waiting(d)] = cache[Waiting(d)]  BY <2>2, <3>1 DEF TypeOK
    <3>3. wait[d] = "PullError"  BY <1>2, <2>4
    <3> QED BY <3>2, <3>3 DEF HalfPulled
  <2> QED BY <2>3, <2>4
<1>11. Deciding'  BY DEF Deciding, executorVars, Current, Type
<1> QED BY <1>4, <1>5, <1>6, <1>7, <1>8, <1>9, <1>10, <1>11


LEMMA WaitStepInv ==
  ASSUME RequestInv, NEW c \in Client,
         \/ WaitFast(c) \/ WaitLock(c) \/ WaitTest(c) \/ WaitSleep(c) \/ SpuriousWakeUp(c)
         \/ PullRecord(c) \/ PullError(c)
  PROVE  RequestInv'
<1>1. mutex \in [Request -> Client \cup {Nobody, "Executor"}] /\ cache \in [Request -> Answer]
        /\ result \in Answer
  BY DEF RequestInv, TypeOK
<1>2. CASE WaitFast(c)
  <2> DEFINE to == IF is_finished[Waiting(c)] THEN "PullRecord" ELSE "Lock"
  <2>1. wait[c] = "Fast" /\ wait' = [wait EXCEPT ![c] = to]
          /\ UNCHANGED <<is_finished, sent, executorVars, serve, mutex, cache>>
    BY <1>2 DEF WaitFast, ClientMoves
  <2>2. to = "Lock" \/ (to = "PullRecord" /\ is_finished[Waiting(c)])
    OBVIOUS
  <2> HIDE DEF to
  <2> QED BY <1>1, <2>1, <2>2, WithinWait
<1>3. CASE WaitLock(c)
  <2>1. mutex' \in [Request -> Client \cup {Nobody, "Executor"}]
    BY <1>1, <1>3 DEF WaitLock
  <2> QED BY <1>1, <1>3, <2>1, WithinWait DEF WaitLock, ClientMoves
<1>4. CASE WaitTest(c)
  <2> DEFINE to == IF is_finished[Waiting(c)] THEN "PullRecord" ELSE "Sleep"
  <2>1. wait[c] = "Test" /\ wait' = [wait EXCEPT ![c] = to]
          /\ UNCHANGED <<is_finished, sent, executorVars, serve, cache>>
    BY <1>4 DEF WaitTest, ClientMoves
  <2>2. to = "Sleep" \/ (to = "PullRecord" /\ is_finished[Waiting(c)])
    OBVIOUS
  <2>3. mutex' \in [Request -> Client \cup {Nobody, "Executor"}]
    BY <1>1, <1>4 DEF WaitTest
  <2> HIDE DEF to
  <2> QED BY <1>1, <2>1, <2>2, <2>3, WithinWait
<1>5. CASE WaitSleep(c)
  <2>1. mutex' \in [Request -> Client \cup {Nobody, "Executor"}]
    BY <1>1, <1>5 DEF WaitSleep
  <2> QED BY <1>1, <1>5, <2>1, WithinWait DEF WaitSleep, ClientMoves
<1>6. CASE SpuriousWakeUp(c)
  BY <1>1, <1>6, WithinWait DEF SpuriousWakeUp, ClientMoves
<1>7. CASE PullRecord(c)
  <2>1. cache' \in [Request -> Answer]  BY <1>1, <1>7 DEF PullRecord, Answer
  <2> QED BY <1>1, <1>7, <2>1, WithinWait DEF PullRecord, ClientMoves
<1>8. CASE PullError(c)
  <2>1. cache' \in [Request -> Answer]  BY <1>1, <1>8 DEF PullError, Answer
  <2> QED BY <1>1, <1>8, <2>1, WithinWait DEF PullError, ClientMoves
<1> QED BY <1>2, <1>3, <1>4, <1>5, <1>6, <1>7, <1>8

LEMMA AddRequestInv ==
  ASSUME RequestInv, NEW c \in Client, AddRequest(c)
  PROVE  RequestInv'
<1> USE DEF RequestInv
<1>1. /\ sent[c] \in Nat /\ sent[c] < Len(Script[c]) /\ wait[c] = "Ready"
      /\ \A d \in Client : /\ wait'[d] = IF d = c THEN "Fast" ELSE wait[d]
                           /\ sent'[d] = IF d = c THEN sent[c] + 1 ELSE sent[d]
      /\ UNCHANGED <<is_finished, mutex, cache, executorVars, serve>>
  BY DEF AddRequest, ClientMoves, TypeOK
<1>2. <<c, sent[c] + 1>> \in Request /\ Untouched(<<c, sent[c] + 1>>)
  <2>1. sent[c] + 1 \in 1 .. Len(Script[c])  BY <1>1, LengthIsNat
  <2>2. <<c, sent[c] + 1>> \in Request  BY <2>1, RequestIn
  <2> QED BY <1>1, <2>2 DEF Fresh
<1>3. \A d \in Client : d # c => Waiting(d)' = Waiting(d)  BY <1>1 DEF Waiting
<1>4. Waiting(c)' = <<c, sent[c] + 1>>  BY <1>1 DEF Waiting
<1>5. TypeOK'
  <2>1. wait' = [wait EXCEPT ![c] = "Fast"] /\ sent' = [sent EXCEPT ![c] = sent[c] + 1]
    BY DEF AddRequest, ClientMoves
  <2>2. sent' \in [Client -> Nat]  BY <1>1, <2>1 DEF TypeOK
  <2>3. (served \in IF txn = Nobody THEN {0} ELSE 1 .. sent[txn])'
    <3>1. txn' = txn /\ served' = served
      BY <1>1 DEF executorVars
    <3>2. CASE txn = Nobody
      BY <3>1, <3>2 DEF TypeOK
    <3>3. CASE txn # Nobody
      <4>1. txn \in Client /\ sent[txn] \in Nat /\ served \in 1 .. sent[txn]
        BY <3>3 DEF TypeOK
      <4>2. sent'[txn] \in Nat /\ sent[txn] <= sent'[txn]
        BY <1>1, <4>1
      <4> QED BY <3>1, <3>3, <4>1, <4>2
    <3> QED BY <3>2, <3>3
  <2>4. wait' \in [Client -> {"Ready", "Fast", "Lock", "Test", "Sleep", "Asleep",
                              "PullRecord", "PullError"}]
    BY <2>1 DEF TypeOK
  <2> QED BY <1>1, <2>2, <2>3, <2>4 DEF TypeOK, executorVars
<1>6. Asked'  BY <1>1, LengthIsNat DEF Asked
<1>7. Fresh'
  <2>1. ASSUME NEW r \in Request, r[2] > sent'[r[1]] PROVE Untouched(r)'
    <3>1. r[2] > sent[r[1]]
      <4>1. r[1] \in Client /\ r[2] \in Int
        BY RequestParts, LengthIsNat
      <4> QED BY <1>1, <2>1, <4>1 DEF TypeOK
    <3> QED BY <1>1, <3>1 DEF Fresh, Untouched, executorVars
  <2>2. ASSUME NEW d \in Client, d # txn, sent'[d] = 1 PROVE Untouched(<<d, 1>>)'
    <3>1. CASE d = c
      <4>1. sent[c] + 1 = 1  BY <1>1, <2>2, <3>1
      <4> QED BY <1>1, <1>2, <3>1, <4>1 DEF Untouched, executorVars
    <3>2. CASE d # c  BY <1>1, <2>2, <3>2 DEF Fresh, Untouched, executorVars
    <3> QED BY <3>1, <3>2
  <2> QED BY <1>1, <2>1, <2>2 DEF Fresh, executorVars
<1>8. OneAhead'
  <2> SUFFICES ASSUME txn # Nobody PROVE OneAhead'  BY <1>1 DEF OneAhead, executorVars
  <2>1. txn \in Client  BY DEF TypeOK
  <2>2. CASE txn = c
    <3>1. sent[c] = served  BY <1>1, <2>2 DEF OneAhead
    <3> QED BY <1>1, <1>2, <1>4, <2>2, <3>1 DEF OneAhead, executorVars, Untouched
  <2>3. CASE txn # c  BY <1>1, <1>3, <2>1, <2>3 DEF OneAhead, executorVars, Untouched
  <2> QED BY <2>2, <2>3
<1>9. ResultOf'  BY <1>1 DEF ResultOf, executorVars, Untouched, Current, Type
<1>10. Owned'
  <2> SUFFICES ASSUME NEW d \in Client
               PROVE  (/\ wait[d] \in {"PullRecord", "PullError"} => is_finished[Waiting(d)]
                       /\ wait[d] # "Ready" /\ is_finished[Waiting(d)] /\ ~ Ends(Waiting(d))
                            => txn = d /\ served = sent[d])'
    BY DEF Owned
  <2>1. CASE d = c
    <3>1. ~ is_finished'[Waiting(d)'] /\ wait'[d] = "Fast"  BY <1>1, <1>2, <1>4, <2>1 DEF Untouched
    <3> QED BY <3>1
  <2>2. CASE d # c
    <3>1. wait'[d] = wait[d] /\ sent'[d] = sent[d] /\ Waiting(d)' = Waiting(d)
            /\ Ends(Waiting(d))' = Ends(Waiting(d))
      BY <1>1, <1>3, <2>2 DEF Ends, Type
    <3> QED BY <1>1, <3>1 DEF Owned, executorVars
  <2> QED BY <2>1, <2>2
<1>11. HalfPulled'
  <2> SUFFICES ASSUME NEW d \in Client, wait'[d] = "PullError", ~ Ends(Waiting(d)')
               PROVE  cache'[Waiting(d)'].found = result'.found
    BY DEF HalfPulled, Ends, Type
  <2>1. d # c  BY <1>1
  <2> QED BY <1>1, <1>3, <2>1 DEF HalfPulled, executorVars
<1>12. Deciding'  BY <1>1 DEF Deciding, executorVars, Current, Type
<1> QED BY <1>5, <1>6, <1>7, <1>8, <1>9, <1>10, <1>11, <1>12


-----------------------------------------------------------------------------
(* The steps of the executor's thread.                                     *)

\* The task goes on with a request.
LEMMA TakeInv ==
  ASSUME RequestInv, NEW c \in Client, Take(c)
  PROVE  RequestInv'
<1> USE DEF RequestInv
<1>1. /\ txn' = c /\ served' = served + 1 /\ serve' = "Serve" /\ result' = NewResult
      /\ served < sent[c] /\ (txn = Nobody => sent[c] = 1) /\ txn \in {Nobody, c}
      /\ again' \in BOOLEAN
      /\ UNCHANGED <<is_finished, mutex, wait, answer, cache, sent>>
  BY DEF Take, ExecutorMoves, ResetResult
<1>2. c # Nobody  BY OperationRequestAssumption DEF OperationRequestAssumption
\* It is the request that its client waits for, and nothing has happened to it.
<1>3. served + 1 = sent[c] /\ served \in Nat /\ Untouched(Waiting(c))
  <2>1. sent[c] \in Nat  BY DEF TypeOK
  <2>2. CASE txn = Nobody
    <3>1. served = 0 /\ sent[c] = 1  BY <1>1, <2>2 DEF TypeOK
    <3>2. Waiting(c) = <<c, 1>>  BY <3>1 DEF Waiting
    <3> QED BY <1>2, <2>2, <3>1, <3>2 DEF Fresh
  <2>3. CASE txn # Nobody
    <3>1. txn = c /\ served \in 1 .. sent[c]  BY <1>1, <2>3 DEF TypeOK
    <3> QED BY <1>1, <2>1, <2>3, <3>1 DEF OneAhead
  <2> QED BY <2>2, <2>3
<1>4. Current' = Waiting(c) /\ \A d \in Client : Waiting(d)' = Waiting(d)
  BY <1>1, <1>3 DEF Current, Waiting
<1>5. TypeOK'
  <2>1. served' \in 1 .. sent'[c] /\ txn' \in Client /\ txn' # Nobody
    <3>1. served + 1 \in 1 .. sent[c]  BY <1>3
    <3> QED BY <1>1, <1>2, <3>1
  <2>2. (served \in IF txn = Nobody THEN {0} ELSE 1 .. sent[txn])'  BY <1>1, <2>1
  <2>3. txn' \in Client \cup {Nobody} /\ result' \in Answer
    BY <1>1, AnswersAreAnswers
  <2>4. /\ is_finished' \in [Request -> BOOLEAN]
        /\ mutex' \in [Request -> Client \cup {Nobody, "Executor"}]
        /\ cache' \in [Request -> Answer]
        /\ answer' \in [Request -> Answer \cup {Pending}]
    BY <1>1 DEF TypeOK
  <2>5. /\ wait' \in [Client -> {"Ready", "Fast", "Lock", "Test", "Sleep", "Asleep",
                                 "PullRecord", "PullError"}]
        /\ sent' \in [Client -> Nat]
        /\ serve' \in {"Take", "Serve", "SetFinished", "Unlock", "NotifyOne", "Decide"}
        /\ again' \in BOOLEAN
    BY <1>1 DEF TypeOK
  <2> QED BY <2>2, <2>3, <2>4, <2>5 DEF TypeOK
<1>6. Asked'  BY <1>1 DEF Asked
<1>7. Fresh'
  <2>1. ASSUME NEW d \in Client, d # c, sent[d] = 1 PROVE Untouched(<<d, 1>>)
    <3>1. d # txn
      BY <1>1, <2>1, OperationRequestAssumption DEF OperationRequestAssumption
    <3> QED BY <2>1, <3>1 DEF Fresh
  <2>2. \A r : Untouched(r)' = Untouched(r)  BY <1>1 DEF Untouched
  <2> QED BY <1>1, <2>1, <2>2 DEF Fresh
<1>8. OneAhead'  BY <1>1, <1>3 DEF OneAhead
<1>9. ResultOf'
  <2>1. Untouched(Current)'  BY <1>1, <1>3, <1>4 DEF Untouched
  <2> QED BY <1>1, <1>2, <2>1 DEF ResultOf
\* Nobody else is between Wait and the end of PullResult for a request that goes on.
<1>10. \A d \in Client :
         wait[d] # "Ready" /\ is_finished[Waiting(d)] => Ends(Waiting(d))
  <2> SUFFICES ASSUME NEW d \in Client, wait[d] # "Ready", is_finished[Waiting(d)],
                      ~ Ends(Waiting(d))
               PROVE  FALSE
    OBVIOUS
  <2>1. txn = d /\ served = sent[d]  BY DEF Owned
  <2>2. d = c  BY <1>1, <2>1, OperationRequestAssumption DEF OperationRequestAssumption
  <2> QED BY <1>3, <2>2 DEF Untouched
<1>11. Owned'  BY <1>1, <1>4, <1>10 DEF Owned, Ends, Type
<1>12. HalfPulled'
  <2> SUFFICES ASSUME NEW d \in Client, wait[d] = "PullError"
               PROVE  Ends(Waiting(d)')
    BY <1>1 DEF HalfPulled, Ends, Type
  <2>1. is_finished[Waiting(d)]  BY DEF Owned
  <2> QED BY <1>4, <1>10, <2>1
<1>13. Deciding'
  <2>1. again' => Type(<<c, served + 1>>) \in {"Insert", "Upsert"}  BY DEF Take
  <2>2. Type(Current)' = Type(<<c, served + 1>>)  BY <1>1 DEF Current, Type
  <2> QED BY <1>1, <1>2, <2>1, <2>2 DEF Deciding
<1> QED BY <1>5, <1>6, <1>7, <1>8, <1>9, <1>11, <1>12, <1>13

\* The request is answered in result_.
LEMMA ServeInv ==
  ASSUME RequestInv, Serve
  PROVE  RequestInv'
<1> USE DEF RequestInv
<1>1. /\ serve = "Serve" /\ serve' = "SetFinished"
      /\ UNCHANGED <<is_finished, mutex, wait, txn, served, again, answer, cache, sent>>
  BY DEF Serve, ExecutorMoves
<1>2. txn # Nobody /\ result = NewResult /\ Untouched(Current)
  BY <1>1 DEF ResultOf
<1>3. result' \in FirstAnswers(Type(Current)) /\ result' \in Answer
  <2>1. PICK a \in FirstAnswers(Type(Current)) :
          result' = [found |-> a.found, is_error |-> a.is_error \/ result.is_error]
    BY DEF Serve
  <2>2. a \in Answer  BY AnswersAreAnswers
  <2>3. result.is_error = FALSE  BY <1>2 DEF NewResult
  <2>4. result' \in Answer /\ result'.found = a.found /\ result'.is_error = a.is_error
    BY <2>1, <2>2, <2>3 DEF Answer
  <2>5. result' = a  BY <2>2, <2>4, SameAnswer
  <2> QED BY <2>2, <2>5
<1>4. Current' = Current /\ \A d \in Client : Waiting(d)' = Waiting(d)
  BY <1>1 DEF Current, Waiting
<1>5. TypeOK'  BY <1>1, <1>3 DEF TypeOK
<1>6. Asked' /\ Fresh' /\ OneAhead'
  <2>1. \A r : Untouched(r)' = Untouched(r)  BY <1>1 DEF Untouched
  <2>2. Asked'  BY <1>1 DEF Asked
  <2>3. Fresh'  BY <1>1, <2>1 DEF Fresh
  <2>4. OneAhead'
    <3>1. txn \in Client  BY <1>2 DEF TypeOK
    <3> QED BY <1>1, <1>4, <2>1, <3>1 DEF OneAhead, Untouched
  <2> QED BY <2>2, <2>3, <2>4
<1>7. ResultOf'
  <2>1. Untouched(Current)' /\ Type(Current)' = Type(Current)
    BY <1>1, <1>2, <1>4 DEF Untouched, Type
  <2>2. (Untouched(Current) /\ result \in FirstAnswers(Type(Current)))'
    BY <1>3, <2>1, Zenon DEF FirstAnswers, Found, Done, Error
  <2> QED BY <1>1, <1>2, <2>2 DEF ResultOf
<1>8. Owned'  BY <1>1, <1>4 DEF Owned, Ends, Type
<1>9. HalfPulled'
  <2> SUFFICES ASSUME NEW d \in Client, wait[d] = "PullError", ~ Ends(Waiting(d))
               PROVE  FALSE
    BY <1>1, <1>4 DEF HalfPulled, Ends, Type
  <2>1. is_finished[Waiting(d)] /\ txn = d /\ served = sent[d]  BY DEF Owned
  <2>2. Waiting(d) = Current  BY <2>1 DEF Waiting, Current
  <2> QED BY <1>2, <2>1, <2>2 DEF Untouched
<1>10. Deciding'  BY <1>1, <1>4 DEF Deciding, Type
<1> QED BY <1>5, <1>6, <1>7, <1>8, <1>9, <1>10


\* The flag of the request in the task is set.
LEMMA NotifyLockInv ==
  ASSUME RequestInv, NotifyLock
  PROVE  RequestInv'
<1> USE DEF RequestInv
<1>1. /\ serve = "SetFinished" /\ serve' = "Unlock"
      /\ mutex' = [mutex EXCEPT ![Current] = "Executor"]
      /\ is_finished' = [is_finished EXCEPT ![Current] = TRUE]
      /\ answer' = [answer EXCEPT ![Current] = result]
      /\ UNCHANGED <<wait, result, txn, served, again, cache, sent>>
  BY DEF NotifyLock, ExecutorMoves
<1>2. txn # Nobody  BY <1>1 DEF ResultOf
<1>3. txn \in Client /\ Current \in Request /\ served \in 1 .. sent[txn]
        /\ sent \in [Client -> Nat] /\ served \in Nat
  BY <1>2, CurrentIsRequest DEF TypeOK
<1>4. \A r \in Request : r # Current =>
        Untouched(r)' = Untouched(r) /\ is_finished'[r] = is_finished[r]
  BY <1>1, <1>3 DEF Untouched, TypeOK
<1>5. is_finished'[Current] /\ answer'[Current] = result
  BY <1>1, <1>3 DEF TypeOK
<1>6. Current' = Current /\ \A d \in Client : Waiting(d)' = Waiting(d)
  BY <1>1 DEF Current, Waiting
<1>7. TypeOK'
  <2>1. is_finished' \in [Request -> BOOLEAN]  BY <1>1 DEF TypeOK
  <2>2. mutex' \in [Request -> Client \cup {Nobody, "Executor"}]  BY <1>1 DEF TypeOK
  <2>3. answer' \in [Request -> Answer \cup {Pending}]  BY <1>1 DEF TypeOK
  <2> QED BY <1>1, <2>1, <2>2, <2>3 DEF TypeOK
<1>8. Asked'  BY <1>1 DEF Asked
<1>9. Fresh'
  <2>1. ASSUME NEW r \in Request, r[2] > sent[r[1]] PROVE Untouched(r)'
    <3>1. r # Current
      <4>1. Current[1] = txn /\ Current[2] = served /\ served <= sent[txn]
        BY <1>3 DEF Current
      <4> QED BY <1>3, <2>1, <4>1
    <3> QED BY <1>4, <2>1, <3>1 DEF Fresh
  <2>2. ASSUME NEW d \in Client, d # txn, sent[d] = 1 PROVE Untouched(<<d, 1>>)'
    <3>1. <<d, 1>> \in Request
      <4>1. 1 \in 1 .. Len(Script[d])  BY <2>2, LengthIsNat DEF Asked
      <4> QED BY <4>1, RequestIn
    <3>2. <<d, 1>> # Current  BY <2>2 DEF Current
    <3> QED BY <1>4, <2>2, <3>1, <3>2 DEF Fresh
  <2> QED BY <1>1, <2>1, <2>2 DEF Fresh
<1>10. OneAhead'
  <2>1. CASE sent[txn] = served  BY <1>1, <2>1 DEF OneAhead
  <2>2. CASE sent[txn] # served
    <3>1. sent[txn] = served + 1 /\ Untouched(Waiting(txn))
      BY <1>2, <2>2 DEF OneAhead
    <3>2. Waiting(txn) # Current  BY <1>3, <3>1 DEF Waiting, Current
    <3>3. Waiting(txn) \in Request  BY <1>3, <3>1, WaitingIsRequest
    <3>4. Untouched(Waiting(txn))'  BY <1>1, <1>3, <1>4, <1>6, <3>1, <3>2, <3>3 DEF Untouched
    <3> QED BY <1>1, <1>2, <2>2, <3>4 DEF OneAhead
  <2> QED BY <2>1, <2>2
<1>11. ResultOf'  BY <1>1, <1>2, <1>5, <1>6 DEF ResultOf
<1>12. Deciding'  BY <1>1, <1>6 DEF Deciding, Type
<1>13. Owned'
  <2> SUFFICES ASSUME NEW d \in Client, wait[d] # "Ready"
               PROVE  /\ wait[d] \in {"PullRecord", "PullError"} => is_finished'[Waiting(d)]
                      /\ is_finished'[Waiting(d)] /\ ~ Ends(Waiting(d))
                           => txn = d /\ served = sent[d]
    BY <1>1, <1>6 DEF Owned, Ends, Type
  <2>1. Waiting(d) \in Request  BY WaitingIsRequest DEF Asked, TypeOK
  <2>2. CASE Waiting(d) = Current
    BY <1>5, <2>2 DEF Waiting, Current
  <2>3. CASE Waiting(d) # Current
    BY <1>4, <2>1, <2>3 DEF Owned
  <2> QED BY <2>2, <2>3
<1>14. HalfPulled'  BY <1>1, <1>6 DEF HalfPulled, Ends, Type
<1> QED BY <1>7, <1>8, <1>9, <1>10, <1>11, <1>12, <1>13, <1>14

LEMMA NotifyUnlockInv ==
  ASSUME RequestInv, NotifyUnlock
  PROVE  RequestInv'
<1> USE DEF RequestInv
<1>1. /\ serve = "Unlock" /\ serve' = "NotifyOne"
      /\ mutex' = [mutex EXCEPT ![Current] = Nobody]
      /\ UNCHANGED <<is_finished, wait, result, txn, served, again, answer, cache, sent>>
  BY DEF NotifyUnlock, ExecutorMoves, executorVars
<1>2. Current' = Current /\ (\A d : Waiting(d)' = Waiting(d))
        /\ (\A r : Untouched(r)' = Untouched(r))
  BY <1>1 DEF Current, Waiting, Untouched
<1>3. TypeOK'
  <2>1. mutex' \in [Request -> Client \cup {Nobody, "Executor"}]  BY <1>1 DEF TypeOK
  <2> QED BY <1>1, <2>1 DEF TypeOK
<1>4. Asked' /\ Fresh'  BY <1>1, <1>2 DEF Asked, Fresh
<1>5. OneAhead'
  <2>1. Untouched(Waiting(txn))' = Untouched(Waiting(txn))  BY <1>1, <1>2 DEF Untouched
  <2> QED BY <1>1, <2>1 DEF OneAhead
<1>6. ResultOf'  BY <1>1, <1>2 DEF ResultOf
<1>7. Deciding'  BY <1>1, <1>2 DEF Deciding, Type
<1>8. Owned' /\ HalfPulled'  BY <1>1, <1>2 DEF Owned, HalfPulled, Ends, Type
<1> QED BY <1>3, <1>4, <1>5, <1>6, <1>7, <1>8


\* The client is woken up, and a task whose transaction has ended is free.
LEMMA NotifyOneInv ==
  ASSUME RequestInv, NotifyOne
  PROVE  RequestInv'
<1> USE DEF RequestInv
<1>1. /\ serve = "NotifyOne" /\ serve' = IF again THEN "Decide" ELSE "Take"
      /\ txn' = (IF Ends(Current) THEN Nobody ELSE txn)
      /\ served' = (IF Ends(Current) THEN 0 ELSE served)
      /\ UNCHANGED <<is_finished, mutex, result, again, answer, cache, sent>>
  BY DEF NotifyOne, ExecutorMoves
<1>2. txn # Nobody /\ is_finished[Current] /\ answer[Current] = result
  BY <1>1 DEF ResultOf
<1>3. txn \in Client /\ Current \in Request /\ served \in 1 .. sent[txn]
        /\ sent \in [Client -> Nat] /\ served \in Nat
  BY <1>2, CurrentIsRequest DEF TypeOK
<1>4. (\A d : Waiting(d)' = Waiting(d)) /\ (\A r : Untouched(r)' = Untouched(r))
  BY <1>1 DEF Waiting, Untouched
<1>5. wait' \in [Client -> {"Ready", "Fast", "Lock", "Test", "Sleep", "Asleep",
                            "PullRecord", "PullError"}]
      /\ \A d \in Client : wait'[d] = wait[d] \/ (wait[d] = "Asleep" /\ wait'[d] = "Lock")
  <2>1. wait' = IF wait[txn] = "Asleep" /\ Waiting(txn) = Current
                THEN [wait EXCEPT ![txn] = "Lock"] ELSE wait
    BY DEF NotifyOne
  <2> QED BY <1>3, <2>1 DEF TypeOK
<1>6. TypeOK'
  <2>1. txn' \in Client \cup {Nobody}  BY <1>1, <1>3
  <2>2. (served \in IF txn = Nobody THEN {0} ELSE 1 .. sent[txn])'
    BY <1>1, <1>2, <1>3
  <2>3. serve' \in {"Take", "Serve", "SetFinished", "Unlock", "NotifyOne", "Decide"}
    BY <1>1
  <2> QED BY <1>1, <1>5, <2>1, <2>2, <2>3 DEF TypeOK
<1>7. Asked'  BY <1>1, <1>5 DEF Asked
<1>8. HalfPulled'
  <2> SUFFICES ASSUME NEW d \in Client, wait'[d] = "PullError", ~ Ends(Waiting(d))
               PROVE  cache[Waiting(d)].found = result.found
    BY <1>1, <1>4 DEF HalfPulled, Ends, Type
  <2>1. wait[d] = "PullError"  BY <1>5
  <2> QED BY <2>1 DEF HalfPulled
<1>9. CASE Ends(Current)
  <2>1. txn' = Nobody /\ served' = 0  BY <1>1, <1>9
  <2>2. ~ again  BY <1>9 DEF Deciding, Ends
  <2>3. Fresh'
    <3>1. ASSUME NEW d \in Client, sent[d] = 1 PROVE Untouched(<<d, 1>>)
      <4>1. CASE d # txn  BY <3>1, <4>1 DEF Fresh
      <4>2. CASE d = txn
        <5>1. Current = <<d, 1>>  BY <1>3, <3>1, <4>2 DEF Current
        <5>2. Len(Script[d]) > 0  BY <3>1, LengthIsNat DEF Asked
        <5> QED BY <1>9, <5>1, <5>2, FirstIsBegin
      <4> QED BY <4>1, <4>2
    <3> QED BY <1>1, <1>4, <3>1 DEF Fresh
  <2>4. OneAhead' /\ ResultOf' /\ Deciding'
    BY <1>1, <2>1, <2>2 DEF OneAhead, ResultOf, Deciding
  <2>5. Owned'
    <3> SUFFICES ASSUME NEW d \in Client, wait'[d] # "Ready"
                 PROVE  /\ wait'[d] \in {"PullRecord", "PullError"} => is_finished[Waiting(d)]
                        /\ is_finished[Waiting(d)] => Ends(Waiting(d))
      BY <1>1, <1>4 DEF Owned, Ends, Type
    <3>1. is_finished[Waiting(d)] => Ends(Waiting(d))
      <4> SUFFICES ASSUME is_finished[Waiting(d)], ~ Ends(Waiting(d)) PROVE FALSE
        OBVIOUS
      <4>1. txn = d /\ served = sent[d]  BY <1>5 DEF Owned
      <4> QED BY <1>9, <4>1 DEF Waiting, Current
    <3> QED BY <1>5, <3>1 DEF Owned
  <2> QED BY <1>6, <1>7, <1>8, <2>3, <2>4, <2>5
<1>10. CASE ~ Ends(Current)
  <2>1. txn' = txn /\ served' = served /\ Current' = Current
    BY <1>1, <1>10 DEF Current
  <2>2. Fresh'  BY <1>1, <1>4, <2>1 DEF Fresh
  <2>3. OneAhead'
    <3>1. Untouched(Waiting(txn))' = Untouched(Waiting(txn))
      BY <1>1, <1>4, <2>1 DEF Untouched
    <3> QED BY <1>1, <1>3, <1>5, <2>1, <3>1 DEF OneAhead
  <2>4. ResultOf'  BY <1>1, <1>2, <2>1 DEF ResultOf
  <2>5. Deciding'  BY <1>1, <2>1 DEF Deciding, Type
  <2>6. Owned'
    <3> SUFFICES ASSUME NEW d \in Client, wait'[d] # "Ready"
                 PROVE  /\ wait'[d] \in {"PullRecord", "PullError"} => is_finished[Waiting(d)]
                        /\ is_finished[Waiting(d)] /\ ~ Ends(Waiting(d))
                             => txn = d /\ served = sent[d]
      BY <1>1, <1>4, <2>1 DEF Owned, Ends, Type
    <3> QED BY <1>5 DEF Owned
  <2> QED BY <1>6, <1>7, <1>8, <2>2, <2>3, <2>4, <2>5, <2>6
<1> QED BY <1>9, <1>10

\* The second half of Insert and Upsert: result_ and what it tells change together.
LEMMA DecideInv ==
  ASSUME RequestInv, Decide
  PROVE  RequestInv'
<1> USE DEF RequestInv
<1>1. /\ serve = "Decide" /\ serve' \in {"SetFinished", "Take"} /\ ~ again'
      /\ again' \in BOOLEAN
      /\ UNCHANGED <<is_finished, mutex, wait, txn, served, cache, sent>>
  BY DEF Decide, ExecutorMoves
<1>2. txn # Nobody /\ is_finished[Current] /\ answer[Current] = result
  BY <1>1 DEF ResultOf
<1>3. Current \in Request /\ result \in Answer /\ sent \in [Client -> Nat]
        /\ txn \in Client /\ served \in 1 .. sent[txn] /\ served \in Nat
  BY <1>2, CurrentIsRequest DEF TypeOK
<1>4. /\ result' \in Answer /\ result'.found = result.found
      /\ answer' \in [Request -> Answer \cup {Pending}] /\ answer'[Current] = result'
      /\ \A r \in Request : r # Current => answer'[r] = answer[r]
  <2>1. CASE UNCHANGED <<result, answer>>  BY <1>2, <1>3, <2>1 DEF TypeOK
  <2>2. CASE /\ result' = [result EXCEPT !.is_error = TRUE]
             /\ answer' = [answer EXCEPT ![Current].is_error = TRUE]
    <3>1. result' \in Answer /\ result'.found = result.found  BY <1>3, <2>2 DEF Answer
    <3>2. answer' = [answer EXCEPT ![Current] = result']
      BY <1>2, <2>2
    <3> QED BY <1>3, <3>1, <3>2 DEF TypeOK
  <2> QED BY <2>1, <2>2 DEF Decide
<1>5. Current' = Current /\ (\A d : Waiting(d)' = Waiting(d))
  BY <1>1 DEF Current, Waiting
<1>6. \A r \in Request : r # Current => Untouched(r)' = Untouched(r)
  BY <1>1, <1>4 DEF Untouched
<1>7. TypeOK'  BY <1>1, <1>4 DEF TypeOK
<1>8. Asked'  BY <1>1 DEF Asked
<1>9. Fresh'
  <2>1. ASSUME NEW r \in Request, Untouched(r) PROVE Untouched(r)'
    <3>1. r # Current  BY <1>2, <2>1 DEF Untouched
    <3> QED BY <1>6, <2>1, <3>1
  <2>2. ASSUME NEW d \in Client, sent[d] = 1 PROVE <<d, 1>> \in Request
    <3>1. 1 \in 1 .. Len(Script[d])  BY <2>2, LengthIsNat DEF Asked
    <3> QED BY <3>1, RequestIn
  <2> QED BY <1>1, <2>1, <2>2 DEF Fresh
<1>10. OneAhead'
  <2>1. CASE sent[txn] = served  BY <1>1, <2>1 DEF OneAhead
  <2>2. CASE sent[txn] # served
    <3>1. sent[txn] = served + 1 /\ Untouched(Waiting(txn))
      BY <1>2, <2>2 DEF OneAhead
    <3>2. Waiting(txn) # Current  BY <1>2, <3>1 DEF Untouched
    <3>3. Waiting(txn) \in Request  BY <1>3, <3>1, WaitingIsRequest
    <3>4. Untouched(Waiting(txn))'  BY <1>1, <1>4, <1>5, <3>1, <3>2, <3>3 DEF Untouched
    <3> QED BY <1>1, <1>2, <2>2, <3>4 DEF OneAhead
  <2> QED BY <2>1, <2>2
<1>11. ResultOf'
  <2>1. is_finished'[Current'] /\ answer'[Current'] = result'  BY <1>1, <1>2, <1>4, <1>5
  <2> QED BY <1>1, <1>2, <2>1 DEF ResultOf
<1>12. Deciding'  BY <1>1 DEF Deciding
<1>13. Owned'  BY <1>1, <1>5 DEF Owned, Ends, Type
<1>14. HalfPulled'  BY <1>1, <1>4, <1>5 DEF HalfPulled, Ends, Type
<1> QED BY <1>7, <1>8, <1>9, <1>10, <1>11, <1>12, <1>13, <1>14

LEMMA NextRequestInv ==
  ASSUME RequestInv, [Next]_vars
  PROVE  RequestInv'
<1>1. CASE UNCHANGED vars
  BY <1>1 DEF vars, clientVars, executorVars, RequestInv, TypeOK, Asked, Fresh, OneAhead,
     ResultOf, Deciding, Owned, HalfPulled, Untouched, Waiting, Current, Ends, Type
<1>2. CASE Next
  <2>1. ASSUME NEW c \in Client, ClientSteps(c) \/ SpuriousWakeUp(c) PROVE RequestInv'
    BY <2>1, WaitStepInv, AddRequestInv DEF ClientSteps
  <2>2. CASE ExecutorSteps
    BY <2>2, TakeInv, ServeInv, NotifyLockInv, NotifyUnlockInv, NotifyOneInv, DecideInv
    DEF ExecutorSteps
  <2>3. CASE Finished  BY <1>1, <2>3 DEF Finished
  <2> QED BY <1>2, <2>1, <2>2, <2>3 DEF Next
<1> QED BY <1>1, <1>2


\* The invariant from which type correctness and the refinement follow: the
\* request that a client waits for is the one in the task until it has been pulled,
\* and result_ is its answer.
THEOREM RequestInvariant == Spec => []RequestInv
<1> QED BY InitRequestInv, NextRequestInv, PTL DEF Spec

\* The variables of the two threads keep their types; the executor never takes
\* up more requests than the client has made.
THEOREM TypeCorrect == Spec => []TypeOK
<1>1. RequestInv => TypeOK  BY DEF RequestInv
<1> QED BY <1>1, RequestInvariant, PTL

-----------------------------------------------------------------------------
(* Wait, Notify and PullResult implement RequestFuture.                    *)

answers == [r \in Inner |-> answer[r]]
seen == [r \in Inner |-> IF Pulled(r) THEN cache[r] ELSE Pending]

LEMMA SeenUnchanged ==
  ASSUME UNCHANGED <<cache, sent>>,
         \A c \in Client : wait'[c] = "Ready" <=> wait[c] = "Ready"
  PROVE  seen' = seen
<1>1. \A r \in Inner : Pulled(r)' = Pulled(r)  BY RequestParts DEF Pulled, Inner
<1> QED BY <1>1 DEF seen

LEMMA ClientStepMaps ==
  ASSUME RequestInv, NEW c \in Client, ClientSteps(c) \/ SpuriousWakeUp(c)
  PROVE  [Future!FutureNext]_Future!futureVars
<1> USE DEF RequestInv
<1>1. answers' = answers
  BY DEF answers, ClientSteps, AddRequest, WaitFast, WaitLock, WaitTest, WaitSleep,
     SpuriousWakeUp, PullRecord, PullError, ClientMoves, executorVars
<1>2. ASSUME seen' = seen PROVE UNCHANGED Future!futureVars
  BY <1>1, <1>2 DEF answers, seen, Future!futureVars
<1>3. CASE AddRequest(c)
  <2>1. sent[c] \in Nat /\ wait[c] = "Ready"
          /\ \A d \in Client : /\ wait'[d] = IF d = c THEN "Fast" ELSE wait[d]
                               /\ sent'[d] = IF d = c THEN sent[c] + 1 ELSE sent[d]
    BY <1>3 DEF AddRequest, ClientMoves, TypeOK
  <2>2. ASSUME NEW r \in Inner PROVE Pulled(r)' = Pulled(r)
    <3>1. r[1] \in Client /\ r[2] \in Nat  BY RequestParts, LengthIsNat DEF Inner
    <3>2. CASE r[1] # c  BY <2>1, <3>1, <3>2 DEF Pulled
    <3>3. CASE r[1] = c  BY <2>1, <3>1, <3>3 DEF Pulled
    <3> QED BY <3>2, <3>3
  <2>3. cache' = cache  BY <1>3 DEF AddRequest
  <2> QED BY <1>2, <2>2, <2>3 DEF seen
<1>4. CASE WaitFast(c) \/ WaitLock(c) \/ WaitTest(c) \/ WaitSleep(c) \/ SpuriousWakeUp(c)
  <2>1. UNCHANGED <<cache, sent>>
    BY <1>4 DEF WaitFast, WaitLock, WaitTest, WaitSleep, SpuriousWakeUp
  <2>2. wait[c] # "Ready" /\ \E to : to # "Ready" /\ wait' = [wait EXCEPT ![c] = to]
    BY <1>4 DEF WaitFast, WaitLock, WaitTest, WaitSleep, SpuriousWakeUp, ClientMoves
  <2>3. \A d \in Client : wait'[d] = "Ready" <=> wait[d] = "Ready"
    BY <2>2 DEF TypeOK
  <2> QED BY <1>2, <2>1, <2>3, SeenUnchanged
<1>5. CASE PullRecord(c)
  <2>1. /\ wait[c] = "PullRecord" /\ sent' = sent
        /\ wait' = [wait EXCEPT ![c] = "PullError"]
        /\ cache' = [cache EXCEPT ![Waiting(c)].found = result.found]
    BY <1>5 DEF PullRecord, ClientMoves
  <2>2. ASSUME NEW r \in Inner PROVE Pulled(r)' = Pulled(r) /\ (Pulled(r) => r # Waiting(c))
    <3>1. r[1] \in Client /\ r[2] \in Nat  BY RequestParts, LengthIsNat DEF Inner
    <3>2. wait'[r[1]] = "Ready" <=> wait[r[1]] = "Ready"  BY <2>1, <3>1 DEF TypeOK
    <3>3. Pulled(r) => r # Waiting(c)
      <4> SUFFICES ASSUME r = Waiting(c) PROVE ~ Pulled(r)  OBVIOUS
      <4>1. r[1] = c /\ r[2] = sent[c]  BY DEF Waiting
      <4> QED BY <2>1, <3>1, <4>1 DEF Pulled
    <3> QED BY <2>1, <3>1, <3>2, <3>3 DEF Pulled
  <2>3. ASSUME NEW r \in Inner, Pulled(r) PROVE cache'[r] = cache[r]
    BY <2>1, <2>2, <2>3 DEF TypeOK, Inner
  <2> QED BY <1>2, <2>2, <2>3 DEF seen
<1>6. CASE PullError(c)
  <2>1. /\ wait[c] = "PullError" /\ sent' = sent
        /\ wait' = [wait EXCEPT ![c] = "Ready"]
        /\ cache' = [cache EXCEPT ![Waiting(c)].is_error = result.is_error]
    BY <1>6 DEF PullError, ClientMoves
  <2>2. sent[c] > 0  BY <2>1 DEF Asked
  <2>3. Waiting(c) \in Request  BY <2>2, WaitingIsRequest
  <2>4. ASSUME NEW r \in Inner, r # Waiting(c)
        PROVE  Pulled(r)' = Pulled(r) /\ cache'[r] = cache[r]
    <3>1. r[1] \in Client /\ r[2] \in Nat /\ r = <<r[1], r[2]>> /\ r \in Request
      BY RequestParts, LengthIsNat DEF Inner
    <3>2. cache'[r] = cache[r]  BY <2>1, <2>4, <3>1 DEF TypeOK
    <3>3. CASE r[1] # c  BY <2>1, <3>1, <3>2, <3>3 DEF Pulled, TypeOK
    <3>4. CASE r[1] = c
      <4>1. r[2] # sent[c]  BY <2>4, <3>1, <3>4 DEF Waiting
      <4> QED BY <2>1, <3>1, <3>2, <3>4, <4>1 DEF Pulled, TypeOK
    <3> QED BY <3>3, <3>4
  <2>5. CASE Ends(Waiting(c))
    <3>1. \A r \in Inner : r # Waiting(c)  BY <2>5 DEF Inner
    <3>2. seen' = seen  BY <2>4, <3>1 DEF seen
    <3> QED BY <1>2, <3>2
  <2>6. CASE ~ Ends(Waiting(c))
    <3>1. Waiting(c) \in Inner  BY <2>3, <2>6 DEF Inner
    <3>2. txn = c /\ served = sent[c] /\ is_finished[Waiting(c)]
      BY <2>1, <2>6 DEF Owned
    <3>3. Current = Waiting(c) /\ txn # Nobody
      BY <3>2, OperationRequestAssumption DEF Current, Waiting, OperationRequestAssumption
    <3>4. answer[Waiting(c)] = result /\ result \in Answer
      BY <3>2, <3>3 DEF ResultOf, Untouched, TypeOK
    <3>5. ~ Pulled(Waiting(c)) /\ Pulled(Waiting(c))'
      <4>1. Waiting(c)[1] = c /\ Waiting(c)[2] = sent[c] /\ sent[c] \in Nat
        BY DEF Waiting, TypeOK
      <4>2. wait'[c] = "Ready"  BY <2>1 DEF TypeOK
      <4> QED BY <2>1, <4>1, <4>2 DEF Pulled, Waiting
    <3>6. cache'[Waiting(c)] = answer[Waiting(c)]
      <4>1. cache[Waiting(c)] \in Answer /\ cache[Waiting(c)].found = result.found
        BY <2>1, <2>3, <2>6 DEF HalfPulled, TypeOK
      <4>2. cache'[Waiting(c)] = [cache[Waiting(c)] EXCEPT !.is_error = result.is_error]
        BY <2>1, <2>3 DEF TypeOK
      <4>3. /\ cache'[Waiting(c)] \in Answer
            /\ cache'[Waiting(c)].found = result.found
            /\ cache'[Waiting(c)].is_error = result.is_error
        BY <3>4, <4>1, <4>2 DEF Answer
      <4> QED BY <3>4, <4>3, SameAnswer
    <3>7. seen' = [seen EXCEPT ![Waiting(c)] = answers[Waiting(c)]]
            /\ seen[Waiting(c)] = Pending /\ answers[Waiting(c)] # Pending
      <4>1. answers[Waiting(c)] = answer[Waiting(c)]  BY <3>1 DEF answers
      <4>2. answer[Waiting(c)] # Pending  BY <3>4, AnswersAreAnswers
      <4>3. seen[Waiting(c)] = Pending  BY <3>1, <3>5 DEF seen
      <4>4. seen'[Waiting(c)] = answers[Waiting(c)]
        <5>1. \A r \in Inner : r = Waiting(c) => Pulled(r)'
          BY <2>1, <3>5 DEF Pulled, Waiting
        <5> QED BY <3>1, <3>6, <4>1, <5>1 DEF seen
      <4>5. \A r \in Inner : r # Waiting(c) => seen'[r] = seen[r]  BY <2>4 DEF seen
      <4>6. seen' = [r \in Inner |-> seen'[r]] /\ seen = [r \in Inner |-> seen[r]]
        BY DEF seen
      <4> HIDE DEF seen
      <4> QED BY <3>1, <4>1, <4>2, <4>3, <4>4, <4>5, <4>6
    <3>8. PICK r \in Inner : r = Waiting(c)  BY <3>1
    <3>9. Future!Observe(r)
      BY <1>1, <3>7, <3>8 DEF Future!Observe, answers, seen
    <3>10. Future!FutureNext  BY <3>9 DEF Future!FutureNext
    <3> QED BY <3>10
  <2> QED BY <2>5, <2>6
<1> QED BY <1>3, <1>4, <1>5, <1>6 DEF ClientSteps


LEMMA ExecutorStepMaps ==
  ASSUME RequestInv, ExecutorSteps
  PROVE  [Future!FutureNext]_Future!futureVars
<1> USE DEF RequestInv
<1>1. seen' = seen
  <2>1. UNCHANGED <<cache, sent>>
    BY DEF ExecutorSteps, Take, Serve, NotifyLock, NotifyUnlock, NotifyOne, Decide, ExecutorMoves
  <2>2. CASE wait' = wait  BY <2>1, <2>2, SeenUnchanged
  <2>3. CASE NotifyOne
    <3>1. \/ wait' = wait
          \/ wait[txn] = "Asleep" /\ wait' = [wait EXCEPT ![txn] = "Lock"]
      BY <2>3 DEF NotifyOne
    <3>2. \A c \in Client : wait'[c] = "Ready" <=> wait[c] = "Ready"  BY <3>1 DEF TypeOK
    <3> QED BY <2>1, <3>2, SeenUnchanged
  <2> QED BY <2>2, <2>3
      DEF ExecutorSteps, Take, Serve, NotifyLock, NotifyUnlock, Decide, executorVars
<1>2. ASSUME answers' = answers PROVE UNCHANGED Future!futureVars
  BY <1>1, <1>2 DEF answers, seen, Future!futureVars
<1>3. CASE \/ \E c \in Client : Take(c)
           \/ Serve \/ NotifyUnlock \/ NotifyOne
  BY <1>2, <1>3 DEF answers, Take, Serve, NotifyUnlock, NotifyOne, executorVars
<1>4. CASE NotifyLock
  <2>1. serve = "SetFinished" /\ answer' = [answer EXCEPT ![Current] = result]
    BY <1>4 DEF NotifyLock, ExecutorMoves
  <2>2. txn # Nobody  BY <2>1 DEF ResultOf
  <2>3. Current \in Request /\ answer \in [Request -> Answer \cup {Pending}]
    BY <2>2, CurrentIsRequest DEF TypeOK
  <2>4. CASE is_finished[Current] /\ answer[Current] = result
    <3>1. answer' = answer  BY <2>1, <2>3, <2>4
    <3> QED BY <1>2, <3>1 DEF answers
  <2>5. CASE Ends(Current)
    <3>1. \A r \in Inner : r # Current  BY <2>5 DEF Inner
    <3>2. \A r \in Inner : answer'[r] = answer[r]  BY <2>1, <2>3, <3>1 DEF Inner
    <3> QED BY <1>2, <3>2 DEF answers
  <2>6. CASE /\ ~ Ends(Current)
             /\ Untouched(Current) /\ result \in FirstAnswers(Type(Current))
    <3>1. PICK r \in Inner : r = Current  BY <2>3, <2>6 DEF Inner
    <3>2. answers[r] = Pending  BY <2>6, <3>1 DEF answers, Untouched
    <3>3. answers' = [answers EXCEPT ![r] = result]
      BY <2>1, <2>3, <3>1 DEF answers, Inner
    <3>4. \E a \in FirstAnswers(Type(r)) : answers' = [answers EXCEPT ![r] = a]
      BY <2>6, <3>1, <3>3
    <3>5. Future!Complete(r)
      BY <1>1, <3>2, <3>4 DEF Future!Complete, answers, seen
    <3> QED BY <3>5 DEF Future!FutureNext
  <2>7. \/ is_finished[Current] /\ answer[Current] = result
        \/ Untouched(Current) /\ result \in FirstAnswers(Type(Current))
    BY <2>1, <2>2 DEF ResultOf
  <2> QED BY <2>4, <2>5, <2>6, <2>7
<1>5. CASE Decide
  <2>1. CASE answer' = answer  BY <1>2, <2>1 DEF answers
  <2>2. CASE /\ Type(Current) = "Insert"
             /\ answer' = [answer EXCEPT ![Current].is_error = TRUE]
    <3>1. serve = "Decide"  BY <1>5 DEF Decide, ExecutorMoves
    <3>2. txn # Nobody /\ answer[Current] = result  BY <3>1 DEF ResultOf
    <3>3. Current \in Request /\ answer \in [Request -> Answer \cup {Pending}]
      BY <3>2, CurrentIsRequest DEF TypeOK
    <3>4. PICK r \in Inner : r = Current  BY <2>2, <3>3 DEF Inner, Ends
    <3>5. r \in {x \in Inner : Type(x) = "Insert"}  BY <2>2, <3>4
    <3>6. answers[r] # Pending
      BY <3>2, <3>4, AnswersAreAnswers DEF answers, TypeOK
    <3>7. answers' = [answers EXCEPT ![r].is_error = TRUE]
      BY <2>2, <3>3, <3>4 DEF answers, Inner
    <3>8. Future!Revise(r)  BY <1>1, <3>5, <3>6, <3>7 DEF Future!Revise, answers, seen
    <3> QED BY <3>8 DEF Future!FutureNext
  <2> QED BY <1>5, <2>1, <2>2 DEF Decide
<1> QED BY <1>3, <1>4, <1>5 DEF ExecutorSteps

\* A client that waits for a request and then pulls its result sees an answer of the
\* request's own kind, complete and as it stands, whatever the two threads do in
\* between and although all requests of a task, and all transactions that use it,
\* share result_: every step of OperationRequest is a step of RequestFuture or leaves
\* its variables alone.
THEOREM AnswersPulled == Spec => PulledIsOwnAnswer
<1>1. Init => Future!FutureInit
  <2> SUFFICES ASSUME Init PROVE Future!FutureInit  OBVIOUS
  <2>1. answers = [r \in Inner |-> Pending]  BY DEF Init, answers, Inner
  <2>2. \A r \in Inner : ~ Pulled(r)
    <3> TAKE r \in Inner
    <3>1. r[1] \in Client /\ r[2] \in 1 .. Len(Script[r[1]])  BY RequestParts DEF Inner
    <3> QED BY <3>1, LengthIsNat DEF Init, Pulled
  <2>3. seen = [r \in Inner |-> Pending]  BY <2>2 DEF seen
  <2> QED BY <2>1, <2>3 DEF Future!FutureInit, answers, seen
<1>2. RequestInv /\ [Next]_vars => [Future!FutureNext]_Future!futureVars
  <2> SUFFICES ASSUME RequestInv, [Next]_vars
               PROVE  [Future!FutureNext]_Future!futureVars
    OBVIOUS
  <2>1. CASE UNCHANGED vars
    <3>1. seen' = seen  BY <2>1, SeenUnchanged DEF vars, clientVars
    <3> QED BY <2>1, <3>1 DEF vars, executorVars, seen, Future!futureVars
  <2>2. CASE Next
    <3>1. ASSUME NEW c \in Client, ClientSteps(c) \/ SpuriousWakeUp(c)
          PROVE  [Future!FutureNext]_Future!futureVars
      BY <3>1, ClientStepMaps
    <3>2. CASE ExecutorSteps  BY <3>2, ExecutorStepMaps
    <3>3. CASE Finished  BY <2>1, <3>3 DEF Finished
    <3> QED BY <2>2, <3>1, <3>2, <3>3 DEF Next
  <2> QED BY <2>1, <2>2
<1> QED BY <1>1, <1>2, RequestInvariant, PTL DEF Spec, PulledIsOwnAnswer, Future!FutureSpec
=============================================================================
