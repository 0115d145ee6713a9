------------------------ MODULE TransactionLifecycle ------------------------
(***************************************************************************)
(* What an executor sees of a TransactionExecution that it polls: requests *)
(* are served one at a time, each is notified before the next one is taken *)
(* up, and the request that ends the transaction is notified at the        *)
(* decision, before the post-processing that lets the execution finish.    *)
(***************************************************************************)
CONSTANTS Txn

VARIABLES
  phase,    \* "Reset", "Idle", "Serving", "Ending", "Finished" or "Recover"
  notified  \* whether the latest request has been notified

lifeVars == <<phase, notified>>

LifeInit ==
  /\ phase = [t \in Txn |-> "Reset"]
  /\ notified = [t \in Txn |-> FALSE]

Becomes(t, from, to) ==
  /\ phase[t] \in from
  /\ phase' = [phase EXCEPT ![t] = to]

Serve(t) ==
  /\ Becomes(t, {"Reset", "Idle"}, "Serving")
  /\ notified' = [notified EXCEPT ![t] = FALSE]

Reply(t) ==
  /\ Becomes(t, {"Serving"}, "Idle")
  /\ notified' = [notified EXCEPT ![t] = TRUE]

Decide(t) ==
  /\ Becomes(t, {"Serving"}, "Ending")
  /\ notified' = [notified EXCEPT ![t] = TRUE]

Finish(t) ==
  /\ Becomes(t, {"Ending"}, "Finished")
  /\ notified[t]
  /\ UNCHANGED notified

\* TransactionExecution::Recover throws.
Throw(t) ==
  /\ Becomes(t, {"Serving", "Ending"}, "Recover")
  /\ UNCHANGED notified

LifeNext ==
  \E t \in Txn : Serve(t) \/ Reply(t) \/ Decide(t) \/ Finish(t) \/ Throw(t)

LifeSpec == LifeInit /\ [][LifeNext]_lifeVars
=============================================================================
