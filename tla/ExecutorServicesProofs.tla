----------------------- MODULE ExecutorServicesProofs -----------------------
(***************************************************************************)
(* Ids and times, for any number of executors and tasks, any width of the  *)
(* ids, any interval and any behaviour of the clock.                       *)
(***************************************************************************)
EXTENDS ExecutorServices, TLAPS

\* The executors' ranges of ids lie within the type and do not overlap.
LEMMA Ranges ==
  /\ interval \in Nat \ {0}
  /\ \A e \in Executor : start(e) \in Nat /\ end(e) \in Nat /\ end(e) <= INT64_MAX
  /\ \A e, f \in Executor : e < f => end(e) <= start(f)
<1>1. interval \in Nat /\ interval # 0 /\ interval * executors <= INT64_MAX
  BY ExecutorServicesAssumption, Z3 DEF interval
<1>2. \A e \in Executor : start(e) \in Nat /\ end(e) \in Nat
  BY <1>1, ExecutorServicesAssumption DEF Executor, start, end
<1>3. ASSUME NEW a \in Nat, NEW b \in Nat, a < b
      PROVE  interval * a + interval <= interval * b
  <2>1. PICK d \in Nat : b = a + 1 + d
    <3>1. b - a - 1 \in Nat /\ b = a + 1 + (b - a - 1)
      BY <1>3
    <3> QED BY <3>1
  <2>2. interval * b = interval * a + interval + interval * d
    BY <2>1, <1>1
  <2>3. interval * d \in Nat
    BY <2>1, <1>1
  <2> QED BY <2>2, <2>3, <1>1
<1>4. \A e, f \in Executor : e < f => end(e) <= start(f)
  BY <1>3, ExecutorServicesAssumption DEF Executor, start, end
<1>5. \A e \in Executor : end(e) <= INT64_MAX
  <2> SUFFICES ASSUME NEW e \in Executor PROVE end(e) <= INT64_MAX
    OBVIOUS
  <2>1. e \in Nat /\ executors \in Nat /\ e < executors
    BY ExecutorServicesAssumption DEF Executor
  <2>2. interval * e + interval <= interval * executors
    BY <2>1, <1>3
  <2> QED BY <2>1, <2>2, <1>1, <1>2, ExecutorServicesAssumption DEF start, end
<1> QED BY <1>1, <1>2, <1>4, <1>5

LEMMA StartBeforeEnd ==
  \A e \in Executor : /\ start(e) \in Nat /\ end(e) \in Nat
                      /\ start(e) < end(e) /\ end(e) <= INT64_MAX
  BY Ranges DEF end

-----------------------------------------------------------------------------
(* Types.                                                                  *)

Transaction ==
  [phase : {"Free", "InitTxn", "Running", "SetCommitTs", "Validate"},
   txn_id : -1 .. INT64_MAX, drawn : Nat, ts : Nat]

IdsInRange == \A e \in Executor : start(e) <= id[e] /\ id[e] < end(e)

TypeInv == TypeOK /\ IdsInRange

\* What a call of GetTime and of SetTime leaves behind.
LEMMA GetTimeFacts ==
  ASSUME NEW p \in [time_value : Nat, count : 0 .. TIME_PROVIDER_INTERVAL], NEW now \in Clock
  PROVE  /\ AfterGetTime(p, now) \in [time_value : Nat, count : 1 .. TIME_PROVIDER_INTERVAL]
         /\ GetTime(p, now) \in Nat
         /\ GetTime(p, now) =
              AfterGetTime(p, now).time_value + AfterGetTime(p, now).count - 1
         /\ AfterGetTime(p, now).time_value >= p.time_value
         /\ p.count # TIME_PROVIDER_INTERVAL => GetTime(p, now) = p.time_value + p.count
         /\ GetTime(p, now) >= p.time_value
  BY ExecutorServicesAssumption DEF GetTime, AfterGetTime, Refreshed, Later

LEMMA SetTimeFacts ==
  ASSUME NEW p \in [time_value : Nat, count : 0 .. TIME_PROVIDER_INTERVAL], NEW time \in Nat
  PROVE  /\ SetTime(p, time) \in [time_value : Nat, count : {0}]
         /\ SetTime(p, time).time_value >= p.time_value + p.count
         /\ SetTime(p, time).time_value >= time
  BY ExecutorServicesAssumption DEF SetTime, Later

\* The next id of an executor stays in its range.
LEMMA GenerateIDFacts ==
  ASSUME TypeInv, NEW e \in Executor
  PROVE  GenerateID(e) \in Nat /\ start(e) <= GenerateID(e) /\ GenerateID(e) < end(e)
<1>1. id[e] \in Nat /\ start(e) <= id[e] /\ id[e] < end(e)
  BY DEF TypeInv, TypeOK, IdsInRange
<1>2. start(e) \in Nat /\ end(e) \in Nat /\ start(e) < end(e)
  BY StartBeforeEnd
<1> QED BY <1>1, <1>2 DEF GenerateID

LEMMA TransactionUpdate ==
  ASSUME NEW f \in [Executor -> [Slot -> Transaction]], NEW e \in Executor, NEW s \in Slot,
         NEW v \in Transaction
  PROVE  [f EXCEPT ![e][s] = v] \in [Executor -> [Slot -> Transaction]]
  OBVIOUS

LEMMA TransactionAt ==
  ASSUME NEW r \in Transaction, NEW ts \in Nat,
         NEW phase \in {"Running", "SetCommitTs", "Validate"}
  PROVE  [r EXCEPT !.phase = phase, !.ts = ts] \in Transaction
<1>1. [r EXCEPT !.phase = phase] \in Transaction
  BY DEF Transaction
<1>2. \A q \in Transaction : [q EXCEPT !.ts = ts] \in Transaction
  BY DEF Transaction
<1> QED BY <1>1, <1>2

LEMMA TransactionType == TypeInv => txn \in [Executor -> [Slot -> Transaction]]
  BY DEF TypeInv, TypeOK, Transaction

LEMMA TypeInit == Init => TypeInv
<1> SUFFICES ASSUME Init PROVE TypeInv
  OBVIOUS
<1>1. /\ \A e \in Executor : start(e) \in 0 .. INT64_MAX /\ start(e) < end(e)
      /\ id = [e \in Executor |-> start(e)]
  BY StartBeforeEnd, ExecutorServicesAssumption DEF Init
<1>2. id \in [Executor -> 0 .. INT64_MAX] /\ IdsInRange
  BY <1>1, StartBeforeEnd DEF IdsInRange
<1>3. provider \in [Executor -> [time_value : Nat, count : 0 .. TIME_PROVIDER_INTERVAL]]
  <2>1. ASSUME NEW p \in [time_value : Clock, count : {0}]
        PROVE  p \in [time_value : Nat, count : 0 .. TIME_PROVIDER_INTERVAL]
    <3>1. p = [time_value |-> p.time_value, count |-> p.count]
      BY Zenon
    <3>2. p.time_value \in Nat /\ p.count \in 0 .. TIME_PROVIDER_INTERVAL
      <4>1. p.time_value \in Clock /\ p.count \in {0}
        BY Zenon
      <4>2. Clock \subseteq Nat /\ 0 \in 0 .. TIME_PROVIDER_INTERVAL
        BY ExecutorServicesAssumption
      <4> QED BY <4>1, <4>2, Zenon
    <3>3. [time_value |-> p.time_value, count |-> p.count]
            \in [time_value : Nat, count : 0 .. TIME_PROVIDER_INTERVAL]
      BY <3>2
    <3> QED BY <3>1, <3>3
  <2> QED BY <2>1 DEF Init
<1>4. NoTxn \in Transaction
  BY ExecutorServicesAssumption DEF NoTxn, Transaction
<1>5. txn \in [Executor -> [Slot -> Transaction]]
  BY <1>4 DEF Init
<1> QED BY <1>2, <1>3, <1>5 DEF Init, TypeInv, TypeOK, Transaction

\* Drawing an id and a time keeps the types.
LEMMA TypeDraw ==
  ASSUME TypeInv, NEW e \in Executor, NEW s \in Slot, NEW from, ResetTxnIDAndTime(e, s, from)
  PROVE  TypeInv'
<1>1. PICK now \in Clock :
        /\ provider' = [provider EXCEPT ![e] = AfterGetTime(provider[e], now)]
        /\ latest' = [latest EXCEPT ![e] = GetTime(provider[e], now)]
        /\ txn' = [txn EXCEPT ![e][s] =
             [phase |-> "InitTxn", txn_id |-> GenerateID(e), drawn |-> draws[e] + 1,
              ts |-> GetTime(provider[e], now)]]
  BY DEF ResetTxnIDAndTime
<1>2. /\ provider[e] \in [time_value : Nat, count : 0 .. TIME_PROVIDER_INTERVAL]
      /\ id \in [Executor -> 0 .. INT64_MAX] /\ draws \in [Executor -> Nat]
      /\ end(e) \in Nat /\ end(e) <= INT64_MAX
  BY Ranges DEF TypeInv, TypeOK
<1>3. /\ AfterGetTime(provider[e], now) \in
           [time_value : Nat, count : 0 .. TIME_PROVIDER_INTERVAL]
      /\ GetTime(provider[e], now) \in Nat
  BY <1>2, GetTimeFacts, ExecutorServicesAssumption
<1>4. /\ GenerateID(e) \in 0 .. INT64_MAX
      /\ start(e) <= GenerateID(e) /\ GenerateID(e) < end(e)
  BY <1>2, GenerateIDFacts, ExecutorServicesAssumption
<1>5. id' \in [Executor -> 0 .. INT64_MAX] /\ IdsInRange'
  BY <1>2, <1>4 DEF ResetTxnIDAndTime, TypeInv, IdsInRange
<1>6. draws' \in [Executor -> Nat] /\ committed' \in [Executor -> Nat]
  BY <1>2 DEF ResetTxnIDAndTime, TypeInv, TypeOK
<1>7. provider' \in [Executor -> [time_value : Nat, count : 0 .. TIME_PROVIDER_INTERVAL]]
  BY <1>1, <1>3 DEF TypeInv, TypeOK
<1>8. latest' \in [Executor -> Nat]
  BY <1>1, <1>3 DEF TypeInv, TypeOK
<1>9. txn' \in [Executor -> [Slot -> Transaction]]
  <2>1. [phase |-> "InitTxn", txn_id |-> GenerateID(e), drawn |-> draws[e] + 1,
         ts |-> GetTime(provider[e], now)] \in Transaction
    BY <1>2, <1>3, <1>4, ExecutorServicesAssumption DEF Transaction
  <2> QED BY <1>1, <2>1, TransactionType, TransactionUpdate
<1> QED BY <1>5, <1>6, <1>7, <1>8, <1>9 DEF TypeInv, TypeOK, Transaction

\* So does every step.
LEMMA TypeStep == TypeInv /\ [Next]_vars => TypeInv'
<1> SUFFICES ASSUME TypeInv, [Next]_vars PROVE TypeInv'
  OBVIOUS
<1>1. CASE UNCHANGED vars
  BY <1>1 DEF vars, TypeInv, TypeOK, IdsInRange
<1>2. ASSUME NEW e \in Executor, NEW s \in Slot, Begin(e, s) \/ InitTxnRetry(e, s)
      PROVE  TypeInv'
  BY <1>2, TypeDraw DEF Begin, InitTxnRetry
<1>3. ASSUME NEW e \in Executor, NEW s \in Slot, InitTxn(e, s)
      PROVE  TypeInv'
  <2>1. [txn[e][s] EXCEPT !.phase = "Running"] \in Transaction
    BY TransactionType DEF Transaction
  <2>2. txn' \in [Executor -> [Slot -> Transaction]]
    BY <1>3, <2>1, TransactionType, TransactionUpdate DEF InitTxn
  <2> QED BY <1>3, <2>2 DEF InitTxn, TypeInv, TypeOK, Transaction, IdsInRange
<1>4. ASSUME NEW e \in Executor, NEW s \in Slot, Finish(e, s)
      PROVE  TypeInv'
  <2>1. NoTxn \in Transaction
    BY ExecutorServicesAssumption DEF NoTxn, Transaction
  <2>2. txn' \in [Executor -> [Slot -> Transaction]]
    BY <1>4, <2>1, TransactionType, TransactionUpdate DEF Finish
  <2> QED BY <1>4, <2>2 DEF Finish, TypeInv, TypeOK, Transaction, IdsInRange
<1>5. ASSUME NEW e \in Executor, NEW s \in Slot, SetCommitTs(e, s)
      PROVE  TypeInv'
  <2>1. provider[e] \in [time_value : Nat, count : 0 .. TIME_PROVIDER_INTERVAL]
    BY DEF TypeInv, TypeOK
  <2>2. PICK now \in Clock : \E proposed \in GetTime(provider[e], now) .. MaxTime :
          /\ provider' = [provider EXCEPT
               ![e] = SetTime(AfterGetTime(provider[e], now), proposed)]
          /\ latest' = [latest EXCEPT ![e] = GetTime(provider[e], now)]
          /\ txn' = [txn EXCEPT ![e][s] =
               [txn[e][s] EXCEPT !.phase = "SetCommitTs", !.ts = proposed]]
          /\ committed' = [committed EXCEPT ![e] = Later(committed[e], proposed)]
    BY <1>5 DEF SetCommitTs, Raise
  <2>3. /\ AfterGetTime(provider[e], now) \in
             [time_value : Nat, count : 0 .. TIME_PROVIDER_INTERVAL]
        /\ GetTime(provider[e], now) \in Nat
    BY <2>1, GetTimeFacts, ExecutorServicesAssumption
  <2>4. PICK proposed \in GetTime(provider[e], now) .. MaxTime :
          /\ provider' = [provider EXCEPT
               ![e] = SetTime(AfterGetTime(provider[e], now), proposed)]
          /\ latest' = [latest EXCEPT ![e] = GetTime(provider[e], now)]
          /\ txn' = [txn EXCEPT ![e][s] =
               [txn[e][s] EXCEPT !.phase = "SetCommitTs", !.ts = proposed]]
          /\ committed' = [committed EXCEPT ![e] = Later(committed[e], proposed)]
    BY <2>2
  <2>5. proposed \in Nat
    BY <2>3, <2>4, ExecutorServicesAssumption
  <2>6. SetTime(AfterGetTime(provider[e], now), proposed) \in
          [time_value : Nat, count : 0 .. TIME_PROVIDER_INTERVAL]
    BY <2>3, <2>5, SetTimeFacts, ExecutorServicesAssumption
  <2>7. Later(committed[e], proposed) \in Nat
    BY <2>5 DEF Later, TypeInv, TypeOK
  <2>8. txn' \in [Executor -> [Slot -> Transaction]]
    <3>1. [txn[e][s] EXCEPT !.phase = "SetCommitTs", !.ts = proposed] \in Transaction
      BY <2>5, TransactionType, TransactionAt
    <3> QED BY <2>4, <3>1, TransactionType, TransactionUpdate
  <2>9. /\ provider' \in [Executor -> [time_value : Nat, count : 0 .. TIME_PROVIDER_INTERVAL]]
        /\ latest' \in [Executor -> Nat] /\ committed' \in [Executor -> Nat]
    BY <2>3, <2>4, <2>6, <2>7 DEF TypeInv, TypeOK
  <2> QED BY <1>5, <2>8, <2>9 DEF SetCommitTs, TypeInv, TypeOK, Transaction, IdsInRange
<1>6. ASSUME NEW e \in Executor, NEW s \in Slot, CommitTsSet(e, s)
      PROVE  TypeInv'
  <2>1. /\ provider[e] \in [time_value : Nat, count : 0 .. TIME_PROVIDER_INTERVAL]
        /\ txn[e][s].ts \in Nat /\ committed[e] \in Nat
    BY DEF TypeInv, TypeOK
  <2>2. PICK time \in txn[e][s].ts .. MaxTime :
          /\ provider' = [provider EXCEPT ![e] = SetTime(provider[e], time)]
          /\ txn' = [txn EXCEPT ![e][s] =
               [txn[e][s] EXCEPT !.phase = "Validate", !.ts = time]]
          /\ committed' = [committed EXCEPT ![e] = Later(committed[e], time)]
    BY <1>6 DEF CommitTsSet, Raise
  <2>3. time \in Nat
    BY <2>1, <2>2, ExecutorServicesAssumption
  <2>4. SetTime(provider[e], time) \in
          [time_value : Nat, count : 0 .. TIME_PROVIDER_INTERVAL]
    BY <2>1, <2>3, SetTimeFacts, ExecutorServicesAssumption
  <2>5. Later(committed[e], time) \in Nat
    BY <2>1, <2>3 DEF Later
  <2>6. txn' \in [Executor -> [Slot -> Transaction]]
    <3>1. [txn[e][s] EXCEPT !.phase = "Validate", !.ts = time] \in Transaction
      BY <2>3, TransactionType, TransactionAt
    <3> QED BY <2>2, <3>1, TransactionType, TransactionUpdate
  <2>7. /\ provider' \in [Executor -> [time_value : Nat, count : 0 .. TIME_PROVIDER_INTERVAL]]
        /\ committed' \in [Executor -> Nat]
    BY <2>2, <2>4, <2>5 DEF TypeInv, TypeOK
  <2> QED BY <1>6, <2>6, <2>7 DEF CommitTsSet, TypeInv, TypeOK, Transaction, IdsInRange
<1> QED BY <1>1, <1>2, <1>3, <1>4, <1>5, <1>6 DEF Next

\* An executor's ids stay in its range and below INT64_MAX, and the provider's
\* counter never passes TIME_PROVIDER_INTERVAL, the value at which GetTime looks
\* at the clock again.
THEOREM TypeCorrect == Spec => []TypeOK
<1>1. Spec => []TypeInv
  BY TypeInit, TypeStep, PTL DEF Spec
<1>2. TypeInv => TypeOK
  BY DEF TypeInv
<1> QED BY <1>1, <1>2, PTL

-----------------------------------------------------------------------------
(* Times.                                                                  *)

\* The provider is at or after every commit timestamp it has been told of, and
\* has given out no time beyond time_value_ + count_.
TimeInv ==
  \A e \in Executor :
    /\ committed[e] <= provider[e].time_value
    /\ latest[e] <= provider[e].time_value + provider[e].count
    /\ provider[e].count > 0 => latest[e] < provider[e].time_value + provider[e].count

\* What one executor's step may do to its times.
TimeStep(e) ==
  /\ latest'[e] # latest[e] => latest'[e] >= committed[e]
  /\ latest'[e] < latest[e] =>
       /\ provider[e].count = TIME_PROVIDER_INTERVAL
       /\ latest[e] - latest'[e] < TIME_PROVIDER_INTERVAL

LEMMA TimeInit == Init => TimeInv
<1> SUFFICES ASSUME Init, NEW e \in Executor
             PROVE  /\ committed[e] <= provider[e].time_value
                    /\ latest[e] <= provider[e].time_value + provider[e].count
                    /\ ~ provider[e].count > 0
  BY DEF TimeInv
<1>1. provider[e] \in [time_value : Clock, count : {0}]
  BY Zenon DEF Init
<1>2. provider[e].time_value \in Clock /\ provider[e].count \in {0}
  BY <1>1, Zenon
<1>3. committed[e] = 0 /\ latest[e] = 0
  BY DEF Init
<1>4. Clock \subseteq Nat
  BY ExecutorServicesAssumption
<1>5. provider[e].time_value \in Nat /\ provider[e].count = 0
  BY <1>2, <1>4, Zenon
<1> QED BY <1>3, <1>5

\* A call of GetTime by executor e.
LEMMA TimeDraw ==
  ASSUME TypeInv, TimeInv, NEW e \in Executor, NEW now \in Clock
  PROVE  /\ committed[e] <= AfterGetTime(provider[e], now).time_value
         /\ GetTime(provider[e], now) < AfterGetTime(provider[e], now).time_value
                                        + AfterGetTime(provider[e], now).count
         /\ GetTime(provider[e], now) >= committed[e]
         /\ GetTime(provider[e], now) < latest[e] =>
              /\ provider[e].count = TIME_PROVIDER_INTERVAL
              /\ latest[e] - GetTime(provider[e], now) < TIME_PROVIDER_INTERVAL
<1>1. /\ provider[e] \in [time_value : Nat, count : 0 .. TIME_PROVIDER_INTERVAL]
      /\ committed[e] \in Nat /\ latest[e] \in Nat
  BY DEF TypeInv, TypeOK
<1>2. /\ committed[e] <= provider[e].time_value
      /\ latest[e] <= provider[e].time_value + provider[e].count
      /\ provider[e].count > 0 => latest[e] < provider[e].time_value + provider[e].count
  BY DEF TimeInv
<1>3. /\ AfterGetTime(provider[e], now) \in [time_value : Nat, count : 1 .. TIME_PROVIDER_INTERVAL]
      /\ GetTime(provider[e], now) \in Nat
      /\ GetTime(provider[e], now) = AfterGetTime(provider[e], now).time_value
                                     + AfterGetTime(provider[e], now).count - 1
      /\ AfterGetTime(provider[e], now).time_value >= provider[e].time_value
      /\ provider[e].count # TIME_PROVIDER_INTERVAL =>
           GetTime(provider[e], now) = provider[e].time_value + provider[e].count
      /\ GetTime(provider[e], now) >= provider[e].time_value
  BY <1>1, GetTimeFacts
<1>4. /\ provider[e].time_value \in Nat /\ provider[e].count \in 0 .. TIME_PROVIDER_INTERVAL
      /\ AfterGetTime(provider[e], now).time_value \in Nat
      /\ AfterGetTime(provider[e], now).count \in Nat
  BY <1>1, <1>3
<1>5. ASSUME GetTime(provider[e], now) < latest[e]
      PROVE  /\ provider[e].count = TIME_PROVIDER_INTERVAL
             /\ latest[e] - GetTime(provider[e], now) < TIME_PROVIDER_INTERVAL
  BY <1>1, <1>2, <1>3, <1>4, <1>5, ExecutorServicesAssumption
<1> QED BY <1>1, <1>2, <1>3, <1>4, <1>5

LEMMA TimeNext ==
  ASSUME TypeInv, TimeInv, [Next]_vars
  PROVE  TimeInv' /\ \A e \in Executor : TimeStep(e)
<1> USE DEF TimeInv, TimeStep
<1>0. /\ provider \in [Executor -> [time_value : Nat, count : 0 .. TIME_PROVIDER_INTERVAL]]
      /\ committed \in [Executor -> Nat] /\ latest \in [Executor -> Nat]
      /\ TIME_PROVIDER_INTERVAL \in Nat \ {0}
  BY ExecutorServicesAssumption DEF TypeInv, TypeOK
<1>1. CASE UNCHANGED <<provider, latest, committed>>
  BY <1>0, <1>1
<1>2. ASSUME NEW e \in Executor, NEW s \in Slot, NEW from, ResetTxnIDAndTime(e, s, from)
      PROVE  TimeInv' /\ \A f \in Executor : TimeStep(f)
  <2>1. PICK now \in Clock :
          /\ provider' = [provider EXCEPT ![e] = AfterGetTime(provider[e], now)]
          /\ latest' = [latest EXCEPT ![e] = GetTime(provider[e], now)]
    BY <1>2 DEF ResetTxnIDAndTime
  <2>2. committed' = committed
    BY <1>2 DEF ResetTxnIDAndTime
  <2>3. /\ AfterGetTime(provider[e], now) \in [time_value : Nat, count : 1 .. TIME_PROVIDER_INTERVAL]
        /\ GetTime(provider[e], now) \in Nat
    BY <1>0, GetTimeFacts
  <2> QED BY <1>0, <2>1, <2>2, <2>3, TimeDraw
<1>3. ASSUME NEW e \in Executor, NEW s \in Slot, SetCommitTs(e, s)
      PROVE  TimeInv' /\ \A f \in Executor : TimeStep(f)
  <2>1. PICK now \in Clock : \E proposed \in GetTime(provider[e], now) .. MaxTime :
          /\ provider' = [provider EXCEPT
               ![e] = SetTime(AfterGetTime(provider[e], now), proposed)]
          /\ latest' = [latest EXCEPT ![e] = GetTime(provider[e], now)]
          /\ committed' = [committed EXCEPT ![e] = Later(committed[e], proposed)]
    BY <1>3 DEF SetCommitTs, Raise
  <2>2. PICK proposed \in GetTime(provider[e], now) .. MaxTime :
          /\ provider' = [provider EXCEPT
               ![e] = SetTime(AfterGetTime(provider[e], now), proposed)]
          /\ latest' = [latest EXCEPT ![e] = GetTime(provider[e], now)]
          /\ committed' = [committed EXCEPT ![e] = Later(committed[e], proposed)]
    BY <2>1
  <2> DEFINE p == AfterGetTime(provider[e], now)
  <2>3. /\ p \in [time_value : Nat, count : 0 .. TIME_PROVIDER_INTERVAL]
        /\ GetTime(provider[e], now) \in Nat
    BY <1>0, GetTimeFacts
  <2>4. proposed \in Nat
    BY <2>2, <2>3, ExecutorServicesAssumption
  <2>5. /\ committed[e] <= p.time_value
        /\ GetTime(provider[e], now) < p.time_value + p.count
        /\ GetTime(provider[e], now) >= committed[e]
        /\ GetTime(provider[e], now) < latest[e] =>
             /\ provider[e].count = TIME_PROVIDER_INTERVAL
             /\ latest[e] - GetTime(provider[e], now) < TIME_PROVIDER_INTERVAL
    BY TimeDraw
  <2>6. /\ SetTime(p, proposed) \in [time_value : Nat, count : {0}]
        /\ SetTime(p, proposed).time_value >= p.time_value + p.count
        /\ SetTime(p, proposed).time_value >= proposed
    BY <2>3, <2>4, SetTimeFacts
  <2>7. Later(committed[e], proposed) <= SetTime(p, proposed).time_value
    BY <1>0, <2>3, <2>4, <2>5, <2>6 DEF Later
  <2> HIDE DEF p
  <2> QED BY <1>0, <2>2, <2>3, <2>4, <2>5, <2>6, <2>7 DEF p
<1>4. ASSUME NEW e \in Executor, NEW s \in Slot, CommitTsSet(e, s)
      PROVE  TimeInv' /\ \A f \in Executor : TimeStep(f)
  <2>1. PICK time \in txn[e][s].ts .. MaxTime :
          /\ provider' = [provider EXCEPT ![e] = SetTime(provider[e], time)]
          /\ committed' = [committed EXCEPT ![e] = Later(committed[e], time)]
    BY <1>4 DEF CommitTsSet, Raise
  <2>2. time \in Nat /\ latest' = latest
    BY <1>4, <2>1, ExecutorServicesAssumption DEF CommitTsSet, TypeInv, TypeOK
  <2>3. /\ SetTime(provider[e], time) \in [time_value : Nat, count : {0}]
        /\ SetTime(provider[e], time).time_value >= provider[e].time_value + provider[e].count
        /\ SetTime(provider[e], time).time_value >= time
    BY <1>0, <2>2, SetTimeFacts
  <2>4. Later(committed[e], time) <= SetTime(provider[e], time).time_value
    BY <1>0, <2>2, <2>3 DEF Later
  <2> QED BY <1>0, <2>1, <2>2, <2>3, <2>4
<1> QED
  BY <1>1, <1>2, <1>3, <1>4
  DEF Next, vars, Begin, InitTxnRetry, InitTxn, Finish

LEMMA TimeInvariant == Spec => [](TypeInv /\ TimeInv)
<1>1. TypeInv /\ TimeInv /\ [Next]_vars => TypeInv' /\ TimeInv'
  BY TypeStep, TimeNext
<1> QED BY <1>1, TypeInit, TimeInit, PTL DEF Spec

\* No transaction starts from, or proposes, a time before a commit timestamp that
\* its executor has seen: the provider keeps the larger of its own time and the clock,
\* and SetTime moves it past both.
THEOREM OwnCommitsSeen == Spec => AfterOwnCommits
<1>1. TypeInv /\ TimeInv /\ [Next]_vars =>
        [\A e \in Executor : latest'[e] # latest[e] => latest'[e] >= committed[e]]_vars
  BY TimeNext DEF TimeStep
<1> QED BY <1>1, TimeInvariant, PTL DEF Spec, AfterOwnCommits

\* The provider's time goes back only where GetTime resets count_, and by less than
\* TIME_PROVIDER_INTERVAL.
THEOREM TimeGoesBackAtRefresh == Spec => TimeGoesBackOnlyAtRefresh
<1>1. TypeInv /\ TimeInv /\ [Next]_vars =>
        [\A e \in Executor : latest'[e] < latest[e] =>
           /\ provider[e].count = TIME_PROVIDER_INTERVAL
           /\ latest[e] - latest'[e] < TIME_PROVIDER_INTERVAL]_vars
  BY TimeNext DEF TimeStep
<1> QED BY <1>1, TimeInvariant, PTL DEF Spec, TimeGoesBackOnlyAtRefresh

-----------------------------------------------------------------------------
(* Ids.                                                                    *)

\* How many calls of GenerateID lead from id a to id b of a range.
Ahead(a, b) == IF a <= b THEN b - a ELSE b - a + interval

\* Every live transaction has an id from its executor's range, drawn by a call of
\* its own.
LiveInRange ==
  \A e \in Executor : \A s \in Slot : Live(e, s) =>
    /\ start(e) <= txn[e][s].txn_id /\ txn[e][s].txn_id < end(e)
    /\ txn[e][s].drawn <= draws[e]

DrawnOnce ==
  \A e \in Executor : \A s, u \in Slot :
    s # u /\ Live(e, s) /\ Live(e, u) => txn[e][s].drawn # txn[e][u].drawn

\* Within one round of the generator, ids are as far apart as the calls that
\* drew them: from a transaction to the generator, and from one to another.
GeneratorAhead ==
  \A e \in Executor : \A s \in Slot :
    Live(e, s) /\ draws[e] - txn[e][s].drawn < interval =>
      Ahead(txn[e][s].txn_id, id[e]) = draws[e] - txn[e][s].drawn

PairsAhead ==
  \A e \in Executor : \A s, u \in Slot :
    /\ Live(e, s) /\ Live(e, u)
    /\ txn[e][s].drawn <= txn[e][u].drawn
    /\ txn[e][u].drawn - txn[e][s].drawn < interval
    => Ahead(txn[e][s].txn_id, txn[e][u].txn_id) = txn[e][u].drawn - txn[e][s].drawn

IdInv == LiveInRange /\ DrawnOnce /\ GeneratorAhead /\ PairsAhead

\* One more call of GenerateID.
LEMMA NextAhead ==
  ASSUME TypeInv, NEW e \in Executor, NEW a \in Nat, start(e) <= a, a < end(e),
         Ahead(a, id[e]) < interval - 1
  PROVE  Ahead(a, GenerateID(e)) = Ahead(a, id[e]) + 1
<1>1. /\ start(e) \in Nat /\ interval \in Nat /\ id[e] \in Nat
      /\ start(e) <= id[e] /\ id[e] < end(e) /\ end(e) = start(e) + interval
  BY Ranges DEF TypeInv, TypeOK, IdsInRange, end
<1> QED BY <1>1 DEF GenerateID, Ahead

LEMMA IdInit == Init => IdInv
  BY DEF Init, NoTxn, Live, IdInv, LiveInRange, DrawnOnce, GeneratorAhead, PairsAhead

\* Nothing changes when no id is drawn: live transactions keep their ids, and no
\* transaction comes to life.
LEMMA IdKept ==
  ASSUME TypeInv, IdInv, UNCHANGED <<id, draws>>,
         \A e \in Executor : \A s \in Slot :
           Live(e, s)' => /\ Live(e, s)
                          /\ txn'[e][s].txn_id = txn[e][s].txn_id
                          /\ txn'[e][s].drawn = txn[e][s].drawn
  PROVE  IdInv'
  BY DEF IdInv, LiveInRange, DrawnOnce, GeneratorAhead, PairsAhead

LEMMA IdDraw ==
  ASSUME TypeInv, IdInv, NEW e \in Executor, NEW s \in Slot, NEW from,
         ResetTxnIDAndTime(e, s, from)
  PROVE  IdInv'
<1>0. /\ txn \in [Executor -> [Slot -> Transaction]]
      /\ id \in [Executor -> Nat] /\ draws \in [Executor -> Nat]
      /\ interval \in Nat \ {0}
  BY Ranges, TransactionType DEF TypeInv, TypeOK
<1>1. PICK ts : txn' = [txn EXCEPT ![e][s] =
        [phase |-> "InitTxn", txn_id |-> GenerateID(e), drawn |-> draws[e] + 1, ts |-> ts]]
  BY DEF ResetTxnIDAndTime
<1>2. id' = [id EXCEPT ![e] = GenerateID(e)] /\ draws' = [draws EXCEPT ![e] = draws[e] + 1]
  BY DEF ResetTxnIDAndTime
<1>3. /\ id'[e] = GenerateID(e) /\ draws'[e] = draws[e] + 1
      /\ txn'[e][s].txn_id = GenerateID(e) /\ txn'[e][s].drawn = draws[e] + 1
      /\ \A f \in Executor : f # e => id'[f] = id[f] /\ draws'[f] = draws[f]
      /\ \A f \in Executor : \A u \in Slot :
           <<f, u>> # <<e, s>> => txn'[f][u] = txn[f][u]
  BY <1>0, <1>1, <1>2
<1>4. \A f \in Executor : \A u \in Slot :
        <<f, u>> # <<e, s>> => (Live(f, u)' <=> Live(f, u))
  BY <1>3 DEF Live
<1>5. GenerateID(e) \in Nat /\ start(e) <= GenerateID(e) /\ GenerateID(e) < end(e)
  BY GenerateIDFacts
<1>6. ASSUME NEW u \in Slot, u # s, Live(e, u)
      PROVE  /\ txn[e][u].txn_id \in Nat /\ txn[e][u].drawn \in Nat
             /\ start(e) <= txn[e][u].txn_id /\ txn[e][u].txn_id < end(e)
             /\ txn[e][u].drawn <= draws[e]
             /\ (draws[e] + 1) - txn[e][u].drawn < interval =>
                  Ahead(txn[e][u].txn_id, GenerateID(e)) = (draws[e] + 1) - txn[e][u].drawn
  <2>1. /\ start(e) <= txn[e][u].txn_id /\ txn[e][u].txn_id < end(e)
        /\ txn[e][u].drawn <= draws[e]
        /\ draws[e] - txn[e][u].drawn < interval =>
             Ahead(txn[e][u].txn_id, id[e]) = draws[e] - txn[e][u].drawn
    BY <1>6 DEF IdInv, LiveInRange, GeneratorAhead
  <2>2. txn[e][u].txn_id \in Int /\ txn[e][u].drawn \in Nat /\ start(e) \in Nat
        /\ draws[e] \in Nat
    BY <1>0, Ranges, ExecutorServicesAssumption DEF Transaction
  <2>3. txn[e][u].txn_id \in Nat
    BY <2>1, <2>2
  <2>4. ASSUME (draws[e] + 1) - txn[e][u].drawn < interval
        PROVE  Ahead(txn[e][u].txn_id, GenerateID(e)) = (draws[e] + 1) - txn[e][u].drawn
    <3>1. Ahead(txn[e][u].txn_id, id[e]) = draws[e] - txn[e][u].drawn
      BY <1>0, <2>1, <2>2, <2>4
    <3>2. Ahead(txn[e][u].txn_id, id[e]) < interval - 1
      BY <1>0, <2>2, <2>4, <3>1
    <3>3. Ahead(txn[e][u].txn_id, GenerateID(e)) = Ahead(txn[e][u].txn_id, id[e]) + 1
      BY <2>1, <2>3, <3>2, NextAhead
    <3> QED BY <2>2, <3>1, <3>3
  <2> QED BY <2>1, <2>2, <2>3, <2>4
<1>7. LiveInRange'
  <2> SUFFICES ASSUME NEW f \in Executor, NEW u \in Slot, Live(f, u)'
               PROVE  /\ start(f) <= txn'[f][u].txn_id /\ txn'[f][u].txn_id < end(f)
                      /\ txn'[f][u].drawn <= draws'[f]
    BY DEF LiveInRange
  <2>1. CASE f = e /\ u = s
    BY <1>0, <1>3, <1>5, <2>1
  <2>2. CASE f = e /\ u # s
    BY <1>0, <1>3, <1>4, <1>6, <2>2
  <2>3. CASE f # e
    BY <1>3, <1>4, <2>3 DEF IdInv, LiveInRange
  <2> QED BY <2>1, <2>2, <2>3
<1>8. DrawnOnce'
  <2> SUFFICES ASSUME NEW f \in Executor, NEW u \in Slot, NEW w \in Slot,
                      u # w, Live(f, u)', Live(f, w)'
               PROVE  txn'[f][u].drawn # txn'[f][w].drawn
    BY DEF DrawnOnce
  <2>1. CASE f = e /\ u = s
    BY <1>0, <1>3, <1>4, <1>6, <2>1
  <2>2. CASE f = e /\ w = s
    BY <1>0, <1>3, <1>4, <1>6, <2>2
  <2>3. CASE f # e \/ (u # s /\ w # s)
    BY <1>3, <1>4, <2>3 DEF IdInv, DrawnOnce
  <2> QED BY <2>1, <2>2, <2>3
<1>9. GeneratorAhead'
  <2> SUFFICES ASSUME NEW f \in Executor, NEW u \in Slot, Live(f, u)',
                      draws'[f] - txn'[f][u].drawn < interval
               PROVE  Ahead(txn'[f][u].txn_id, id'[f]) = draws'[f] - txn'[f][u].drawn
    BY DEF GeneratorAhead, Ahead
  <2>1. CASE f = e /\ u = s
    BY <1>0, <1>3, <1>5, <2>1 DEF Ahead
  <2>2. CASE f = e /\ u # s
    <3>1. /\ Live(e, u)
          /\ txn'[f][u] = txn[e][u]
          /\ draws'[f] = draws[e] + 1 /\ id'[f] = GenerateID(e)
      BY <1>3, <1>4, <2>2
    <3>2. (draws[e] + 1) - txn[e][u].drawn < interval
      BY <3>1, Zenon
    <3>3. Ahead(txn[e][u].txn_id, GenerateID(e)) = (draws[e] + 1) - txn[e][u].drawn
      BY <1>6, <2>2, <3>1, <3>2
    <3> QED BY <3>1, <3>3, Zenon
  <2>3. CASE f # e
    BY <1>3, <1>4, <2>3 DEF IdInv, GeneratorAhead
  <2> QED BY <2>1, <2>2, <2>3
<1>10. PairsAhead'
  <2> SUFFICES ASSUME NEW f \in Executor, NEW u \in Slot, NEW w \in Slot,
                      Live(f, u)', Live(f, w)', txn'[f][u].drawn <= txn'[f][w].drawn,
                      txn'[f][w].drawn - txn'[f][u].drawn < interval
               PROVE  Ahead(txn'[f][u].txn_id, txn'[f][w].txn_id) =
                        txn'[f][w].drawn - txn'[f][u].drawn
    BY DEF PairsAhead, Ahead
  <2>1. CASE f = e /\ u = s /\ w = s
    BY <1>0, <1>3, <1>5, <2>1 DEF Ahead
  <2>2. CASE f = e /\ u = s /\ w # s
    BY <1>0, <1>3, <1>4, <1>6, <2>2
  <2>3. CASE f = e /\ u # s /\ w = s
    <3>1. /\ Live(e, u)
          /\ txn'[f][u] = txn[e][u]
          /\ txn'[f][w].drawn = draws[e] + 1 /\ txn'[f][w].txn_id = GenerateID(e)
      BY <1>3, <1>4, <2>3
    <3>2. (draws[e] + 1) - txn[e][u].drawn < interval
      BY <3>1, Zenon
    <3>3. Ahead(txn[e][u].txn_id, GenerateID(e)) = (draws[e] + 1) - txn[e][u].drawn
      BY <1>6, <2>3, <3>1, <3>2
    <3> QED BY <3>1, <3>3, Zenon
  <2>4. CASE f # e \/ (u # s /\ w # s)
    BY <1>3, <1>4, <2>4 DEF IdInv, PairsAhead
  <2> QED BY <2>1, <2>2, <2>3, <2>4
<1> QED BY <1>7, <1>8, <1>9, <1>10 DEF IdInv

LEMMA IdStep == TypeInv /\ IdInv /\ [Next]_vars => IdInv'
<1> SUFFICES ASSUME TypeInv, IdInv, [Next]_vars PROVE IdInv'
  OBVIOUS
<1>0. txn \in [Executor -> [Slot -> Transaction]]
  BY TransactionType
<1>1. CASE UNCHANGED vars
  BY <1>1, IdKept DEF vars, Live
<1>2. ASSUME NEW e \in Executor, NEW s \in Slot, Begin(e, s) \/ InitTxnRetry(e, s)
      PROVE  IdInv'
  BY <1>2, IdDraw DEF Begin, InitTxnRetry
<1>3. ASSUME NEW e \in Executor, NEW s \in Slot, NEW ts \in Nat,
             NEW phase \in {"Running", "SetCommitTs", "Validate"},
             txn[e][s].phase # "Free", UNCHANGED <<id, draws>>,
             txn' = [txn EXCEPT ![e][s] = [txn[e][s] EXCEPT !.phase = phase, !.ts = ts]]
      PROVE  IdInv'
  <2>1. \A f \in Executor : \A u \in Slot :
          Live(f, u)' => /\ Live(f, u)
                         /\ txn'[f][u].txn_id = txn[f][u].txn_id
                         /\ txn'[f][u].drawn = txn[f][u].drawn
    BY <1>0, <1>3 DEF Live, Transaction
  <2> QED BY <1>3, <2>1, IdKept
<1>4. ASSUME NEW e \in Executor, NEW s \in Slot, InitTxn(e, s)
      PROVE  IdInv'
  <2>1. \A f \in Executor : \A u \in Slot :
          Live(f, u)' => /\ Live(f, u)
                         /\ txn'[f][u].txn_id = txn[f][u].txn_id
                         /\ txn'[f][u].drawn = txn[f][u].drawn
    BY <1>0, <1>4 DEF InitTxn, Live, Transaction
  <2> QED BY <1>4, <2>1, IdKept DEF InitTxn
<1>5. ASSUME NEW e \in Executor, NEW s \in Slot, Finish(e, s)
      PROVE  IdInv'
  <2>1. \A f \in Executor : \A u \in Slot :
          Live(f, u)' => /\ Live(f, u)
                         /\ txn'[f][u].txn_id = txn[f][u].txn_id
                         /\ txn'[f][u].drawn = txn[f][u].drawn
    BY <1>0, <1>5 DEF Finish, NoTxn, Live
  <2> QED BY <1>5, <2>1, IdKept DEF Finish
<1>6. ASSUME NEW e \in Executor, NEW s \in Slot, SetCommitTs(e, s)
      PROVE  IdInv'
  <2>1. PICK now \in Clock : \E proposed \in GetTime(provider[e], now) .. MaxTime :
          txn' = [txn EXCEPT ![e][s] =
                    [txn[e][s] EXCEPT !.phase = "SetCommitTs", !.ts = proposed]]
    BY <1>6 DEF SetCommitTs
  <2>2. provider[e] \in [time_value : Nat, count : 0 .. TIME_PROVIDER_INTERVAL]
    BY DEF TypeInv, TypeOK
  <2>3. GetTime(provider[e], now) \in Nat
    BY <2>2, GetTimeFacts
  <2>4. PICK proposed \in Nat : txn' = [txn EXCEPT ![e][s] =
          [txn[e][s] EXCEPT !.phase = "SetCommitTs", !.ts = proposed]]
    <3>1. \A n \in GetTime(provider[e], now) .. MaxTime : n \in Nat
      BY <2>3, ExecutorServicesAssumption
    <3> QED BY <2>1, <3>1, Zenon
  <2> QED BY <1>3, <1>6, <2>4 DEF SetCommitTs
<1>7. ASSUME NEW e \in Executor, NEW s \in Slot, CommitTsSet(e, s)
      PROVE  IdInv'
  <2>1. txn[e][s].ts \in Nat
    BY <1>0 DEF Transaction
  <2>2. PICK time \in Nat : txn' = [txn EXCEPT ![e][s] =
          [txn[e][s] EXCEPT !.phase = "Validate", !.ts = time]]
    <3>1. \A n \in txn[e][s].ts .. MaxTime : n \in Nat
      BY <2>1, ExecutorServicesAssumption
    <3> QED BY <1>7, <3>1, Zenon DEF CommitTsSet
  <2> QED BY <1>3, <1>7, <2>2 DEF CommitTsSet
<1> QED BY <1>1, <1>2, <1>4, <1>5, <1>6, <1>7 DEF Next

\* What the invariants say of two transactions with the same id.
LEMMA SameIdFarApart == TypeInv /\ IdInv => LiveIdsDistinct
<1> SUFFICES ASSUME TypeInv, IdInv, NEW e \in Executor, NEW f \in Executor,
                    NEW s \in Slot, NEW u \in Slot, <<e, s>> # <<f, u>>,
                    Live(e, s), Live(f, u), txn[e][s].txn_id = txn[f][u].txn_id
             PROVE  e = f /\ Distance(txn[e][s].drawn, txn[f][u].drawn) >= interval
  BY DEF LiveIdsDistinct
<1>0. /\ txn[e][s].txn_id \in Int /\ txn[e][s].drawn \in Nat
      /\ txn[f][u].txn_id \in Int /\ txn[f][u].drawn \in Nat
  BY TransactionType, ExecutorServicesAssumption DEF Transaction
<1>1. /\ start(e) <= txn[e][s].txn_id /\ txn[e][s].txn_id < end(e)
      /\ start(f) <= txn[f][u].txn_id /\ txn[f][u].txn_id < end(f)
  BY DEF IdInv, LiveInRange
<1>2. e = f
  <2>1. e \in Int /\ f \in Int
    BY ExecutorServicesAssumption DEF Executor
  <2>2. ~ (e < f) /\ ~ (f < e)
    BY <1>0, <1>1, Ranges
  <2> QED BY <2>1, <2>2
<1>3. txn[e][s].drawn # txn[e][u].drawn
  BY <1>2 DEF IdInv, DrawnOnce
<1>4. Ahead(txn[e][s].txn_id, txn[e][u].txn_id) = 0
      /\ Ahead(txn[e][u].txn_id, txn[e][s].txn_id) = 0
  BY <1>0, <1>2 DEF Ahead
<1>5. CASE txn[e][s].drawn <= txn[e][u].drawn
  <2>1. ~ (txn[e][u].drawn - txn[e][s].drawn < interval)
    BY <1>0, <1>2, <1>3, <1>4, <1>5 DEF IdInv, PairsAhead
  <2> QED BY <1>0, <1>2, <1>3, <1>5, <2>1, Ranges DEF Distance
<1>6. CASE txn[e][u].drawn <= txn[e][s].drawn
  <2>1. ~ (txn[e][s].drawn - txn[e][u].drawn < interval)
    BY <1>0, <1>2, <1>3, <1>4, <1>6 DEF IdInv, PairsAhead
  <2> QED BY <1>0, <1>2, <1>3, <1>6, <2>1, Ranges DEF Distance
<1> QED BY <1>0, <1>2, <1>5, <1>6

\* The ids of live transactions are distinct across all executors, unless one of two
\* has lasted while its executor's generator went round the whole range.
THEOREM IdsDistinct == Spec => []LiveIdsDistinct
<1>1. Spec => [](TypeInv /\ IdInv)
  BY TypeInit, TypeStep, IdInit, IdStep, PTL DEF Spec
<1> QED BY <1>1, SameIdFarApart, PTL
=============================================================================
