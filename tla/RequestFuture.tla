--------------------------- MODULE RequestFuture ---------------------------
(***************************************************************************)
(* What a client may rely on when it waits for a request and pulls its     *)
(* result: the request is answered once, by an answer of its own kind, and *)
(* what the client sees is that answer.  Only a revisable request may      *)
(* still become an error, before or after the client has looked.           *)
(***************************************************************************)
CONSTANTS
  Request,
  Revisable,      \* the requests whose answer may turn into an error
  AnswersTo(_),   \* the answers a request may get
  Pending         \* no answer yet

VARIABLES answer, seen

futureVars == <<answer, seen>>

FutureInit ==
  /\ answer = [r \in Request |-> Pending]
  /\ seen = [r \in Request |-> Pending]

Complete(r) ==
  /\ answer[r] = Pending
  /\ \E a \in AnswersTo(r) : answer' = [answer EXCEPT ![r] = a]
  /\ UNCHANGED seen

Revise(r) ==
  /\ r \in Revisable /\ answer[r] # Pending
  /\ answer' = [answer EXCEPT ![r].is_error = TRUE]
  /\ UNCHANGED seen

Observe(r) ==
  /\ answer[r] # Pending /\ seen[r] = Pending
  /\ seen' = [seen EXCEPT ![r] = answer[r]]
  /\ UNCHANGED answer

FutureNext == \E r \in Request : Complete(r) \/ Revise(r) \/ Observe(r)

FutureSpec == FutureInit /\ [][FutureNext]_futureVars
=============================================================================
