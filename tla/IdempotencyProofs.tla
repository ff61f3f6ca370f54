------------------------- MODULE IdempotencyProofs -------------------------
(***************************************************************************)
(* Proofs about Idempotency, for any sets of attempts, keys and bodies,    *)
(* any attempts that are cut off or meet a failing store, and, for the     *)
(* truth of the answers, any number of replicas.                           *)
(*                                                                         *)
(* That a key has one sound effect, and that its first record decides,     *)
(* holds through one replica: OneReplica is the hypothesis of those        *)
(* theorems (the mutex of executeMutation is in the memory of a process),  *)
(* and the runs idempotency_replicas and idempotency_retry show what two   *)
(* replicas or a lost attempt do.                                          *)
(***************************************************************************)
EXTENDS Idempotency, TLAPS

\* x committed its operation for this key and body.
Reports(x, k, body) == x \in effects /\ attempt[x].key = k /\ attempt[x].body = body

\* AnswersAreEffects, conjunct by conjunct.
RecordsReport ==
  \A k \in DOMAIN records : Reports(records[k].response, k, records[k].body)
AnswersReport ==
  \A a \in Attempts : At(a, {"done"}) /\ attempt[a].answer \in Attempts =>
    Reports(attempt[a].answer, attempt[a].key, attempt[a].body)

\* An attempt has an effect from the commit of its operation on, and before the
\* record is written it has one.
EffectsCommitted ==
  /\ \A a \in effects : At(a, {"put", "done", "lost"})
  /\ \A a \in Attempts : At(a, {"put"}) => a \in effects

IdemInv == IdemTypeOK /\ RecordsReport /\ AnswersReport /\ EffectsCommitted

-----------------------------------------------------------------------------
\* Rows of attempts.

\* An attempt that is not idle has a row of a received request.
LEMMA RowFacts ==
  ASSUME IdemTypeOK, NEW a \in Attempts, NEW places, At(a, places)
  PROVE  /\ attempt[a] \in Received /\ attempt[a].at \in places
         /\ attempt[a].key \in Keys /\ attempt[a].body \in Bodies
         /\ attempt[a].replica \in Replicas
BY DEF IdemTypeOK, At, Received

\* A step of the handler to its next place leaves the request and its answer
\* alone, and every other attempt.
LEMMA GoesFacts ==
  ASSUME IdemTypeOK, NEW a \in Attempts, attempt[a] # Idle,
         NEW at \in {"get", "run", "put", "lost"}, Goes(a, at)
  PROVE  /\ attempt' \in [Attempts -> {Idle} \cup Received]
         /\ attempt'[a] # Idle /\ attempt'[a].at = at
         /\ attempt'[a].key = attempt[a].key /\ attempt'[a].body = attempt[a].body
         /\ attempt'[a].replica = attempt[a].replica
         /\ attempt'[a].answer = attempt[a].answer
         /\ \A b \in Attempts : b # a => attempt'[b] = attempt[b]
<1>1. attempt[a] \in Received /\ attempt \in [Attempts -> {Idle} \cup Received]
  BY DEF IdemTypeOK
<1>2. [attempt[a] EXCEPT !.at = at] \in Received
  BY <1>1 DEF Received
<1>3. attempt' = [attempt EXCEPT ![a] = [attempt[a] EXCEPT !.at = at]]
  BY <1>1 DEF Goes
<1>4. [attempt[a] EXCEPT !.at = at].at = at
  BY <1>1 DEF Received
<1> QED
  BY <1>1, <1>2, <1>3, <1>4 DEF Received, Idle

\* An answer ends the handler and leaves the request alone, and every other
\* attempt.
LEMMA AnswersFacts ==
  ASSUME IdemTypeOK, NEW a \in Attempts, attempt[a] # Idle,
         NEW answer \in {None} \cup Attempts \cup Errors, Answers(a, answer)
  PROVE  /\ attempt' \in [Attempts -> {Idle} \cup Received]
         /\ attempt'[a] # Idle /\ attempt'[a].at = "done" /\ attempt'[a].answer = answer
         /\ attempt'[a].key = attempt[a].key /\ attempt'[a].body = attempt[a].body
         /\ attempt'[a].replica = attempt[a].replica
         /\ \A b \in Attempts : b # a => attempt'[b] = attempt[b]
<1> DEFINE row == [attempt[a] EXCEPT !.at = "done", !.answer = answer]
<1>1. attempt[a] \in Received /\ attempt \in [Attempts -> {Idle} \cup Received]
  BY DEF IdemTypeOK
<1>2. row \in Received
  BY <1>1 DEF Received
<1>3. attempt' = [attempt EXCEPT ![a] = row]
  BY <1>1 DEF Answers
<1>4. /\ row.at = "done" /\ row.answer = answer /\ row.key = attempt[a].key
      /\ row.body = attempt[a].body /\ row.replica = attempt[a].replica
  BY <1>1 DEF Received
<1>5. row # Idle
  BY <1>4 DEF Idle
<1> HIDE DEF row
<1> QED
  BY <1>1, <1>2, <1>3, <1>4, <1>5

\* A received request starts at the mutex, without an answer.
LEMMA ReceiveFacts ==
  ASSUME IdemTypeOK, NEW a \in Attempts, NEW replica \in Replicas, NEW k \in Keys,
         NEW body \in Bodies, Receive(a, replica, k, body)
  PROVE  /\ attempt[a] = Idle
         /\ attempt' \in [Attempts -> {Idle} \cup Received]
         /\ attempt'[a] # Idle /\ attempt'[a].at = "lock"
         /\ \A b \in Attempts : b # a => attempt'[b] = attempt[b]
         /\ records' = records /\ effects' = effects
<1> DEFINE row == [at |-> "lock", replica |-> replica, key |-> k, body |-> body, answer |-> None]
<1>1. row \in Received /\ row.at = "lock"
  BY DEF Received
<1>2. row # Idle
  BY <1>1 DEF Idle
<1>3. attempt[a] = Idle /\ attempt' = [attempt EXCEPT ![a] = row]
  BY DEF Receive
<1>4. records' = records /\ effects' = effects
  BY DEF Receive
<1> HIDE DEF row
<1> QED
  BY <1>1, <1>2, <1>3, <1>4 DEF IdemTypeOK

-----------------------------------------------------------------------------
\* The inductive invariant.

\* What a step of attempt a may do without breaking the invariant: change its
\* own place and answer, take effect on its way to "put", record that effect,
\* and answer with an effect that was there.
LEMMA StepKeepsInv ==
  ASSUME IdemInv, NEW a \in Attempts,
         attempt' \in [Attempts -> {Idle} \cup Received],
         \A b \in Attempts : b # a => attempt'[b] = attempt[b],
         attempt'[a] # Idle,
         attempt[a] # Idle =>
           attempt'[a].key = attempt[a].key /\ attempt'[a].body = attempt[a].body,
         effects' \in {effects, effects \cup {a}},
         a \in effects' => attempt'[a].at \in {"put", "done", "lost"},
         attempt'[a].at = "put" => a \in effects',
         \/ records' = records
         \/ /\ a \in effects'
            /\ records' = [j \in DOMAIN records \cup {attempt'[a].key} |->
                 IF j = attempt'[a].key THEN [body |-> attempt'[a].body, response |-> a]
                 ELSE records[j]],
         attempt'[a].at = "done" /\ attempt'[a].answer \in Attempts =>
           \/ attempt'[a].answer = a /\ a \in effects'
           \/ Reports(attempt'[a].answer, attempt'[a].key, attempt'[a].body)
  PROVE  IdemInv'
<1> USE DEF IdemInv
<1> DEFINE row == [body |-> attempt'[a].body, response |-> a]
           ReportsNext(x, k, body) ==
             x \in effects' /\ attempt'[x].key = k /\ attempt'[x].body = body
<1>1. attempt'[a] \in Received /\ attempt'[a].key \in Keys /\ attempt'[a].body \in Bodies
  BY DEF Received
<1>2. effects \subseteq Attempts
  BY DEF IdemTypeOK
<1>3. row \in Record /\ row.body = attempt'[a].body /\ row.response = a
  BY <1>1 DEF Record
<1> HIDE DEF row
<1>4. \/ records' = records
      \/ /\ a \in effects' /\ DOMAIN records' = DOMAIN records \cup {attempt'[a].key}
         /\ records'[attempt'[a].key] = row
         /\ \A j \in DOMAIN records : j # attempt'[a].key => records'[j] = records[j]
  BY DEF row
<1>5. IdemTypeOK'
  <2>1. DOMAIN records' \subseteq Keys /\ \A k \in DOMAIN records' : records'[k] \in Record
    BY <1>1, <1>3, <1>4 DEF IdemTypeOK
  <2> QED
    BY <1>2, <2>1 DEF IdemTypeOK
<1>6. ASSUME NEW x, NEW k, NEW body, Reports(x, k, body)
      PROVE  ReportsNext(x, k, body)
  <2>1. x \in Attempts /\ attempt[x] # Idle
    BY <1>2, <1>6 DEF Reports, EffectsCommitted, At
  <2> QED
    BY <1>6, <2>1 DEF Reports
<1>7. a \in effects' => ReportsNext(a, attempt'[a].key, attempt'[a].body)
  OBVIOUS
<1> HIDE DEF ReportsNext
<1>8. RecordsReport'
  <2> SUFFICES ASSUME NEW k \in DOMAIN records'
               PROVE  ReportsNext(records'[k].response, k, records'[k].body)
    BY DEF RecordsReport, Reports, ReportsNext
  <2>1. CASE k \in DOMAIN records /\ records'[k] = records[k]
    BY <1>6, <2>1 DEF RecordsReport
  <2>2. CASE k = attempt'[a].key /\ records'[k] = row /\ a \in effects'
    BY <1>3, <1>7, <2>2
  <2> QED
    BY <1>4, <2>1, <2>2
<1>9. AnswersReport'
  <2> SUFFICES ASSUME NEW b \in Attempts, At(b, {"done"})', attempt'[b].answer \in Attempts
               PROVE  ReportsNext(attempt'[b].answer, attempt'[b].key, attempt'[b].body)
    BY DEF AnswersReport, Reports, ReportsNext
  <2>1. CASE b = a
    <3>1. attempt'[a].at = "done"
      BY <2>1 DEF At
    <3> QED
      BY <1>6, <1>7, <2>1, <3>1
  <2>2. CASE b # a
    <3>1. attempt'[b] = attempt[b] /\ At(b, {"done"})
      BY <2>2 DEF At
    <3>2. Reports(attempt[b].answer, attempt[b].key, attempt[b].body)
      BY <3>1 DEF AnswersReport
    <3> QED
      BY <1>6, <3>1, <3>2
  <2> QED
    BY <2>1, <2>2
<1>10. EffectsCommitted'
  <2>1. \A b \in Attempts : b # a => \A places : At(b, places)' <=> At(b, places)
    BY DEF At
  <2>2. /\ a \in effects' => At(a, {"put", "done", "lost"})'
        /\ At(a, {"put"})' => a \in effects'
    BY DEF At
  <2> QED
    BY <1>2, <2>1, <2>2 DEF EffectsCommitted
<1> QED
  BY <1>5, <1>8, <1>9, <1>10

\* Every step of a handler, and its end by a failure or a cut, keeps it.
LEMMA NextIdemInv == IdemInv /\ [IdemNext]_idemVars => IdemInv'
<1> SUFFICES ASSUME IdemInv, [IdemNext]_idemVars PROVE IdemInv'
  OBVIOUS
<1>0. IdemTypeOK
  BY DEF IdemInv
<1>1. ASSUME NEW a \in Attempts, NEW replica \in Replicas, NEW k \in Keys,
             NEW body \in Bodies, Receive(a, replica, k, body)
      PROVE  IdemInv'
  <2>1. a \notin effects
    BY <1>1, ReceiveFacts, <1>0 DEF IdemInv, EffectsCommitted, At
  <2> QED
    BY <1>0, <1>1, <2>1, ReceiveFacts, StepKeepsInv
<1>2. ASSUME NEW a \in Attempts, Lock(a)
      PROVE  IdemInv'
  <2>1. /\ attempt[a] # Idle /\ attempt[a].at = "lock" /\ Goes(a, "get")
        /\ records' = records /\ effects' = effects
    BY <1>2 DEF Lock, At
  <2>2. a \notin effects
    BY <2>1 DEF IdemInv, EffectsCommitted, At
  <2> QED
    BY <1>0, <2>1, <2>2, GoesFacts, StepKeepsInv
<1>3. ASSUME NEW a \in Attempts, Get(a)
      PROVE  IdemInv'
  <2> DEFINE k == attempt[a].key
  <2>1. /\ attempt[a] # Idle /\ attempt[a].at = "get"
        /\ records' = records /\ effects' = effects
    BY <1>3 DEF Get, At
  <2>2. a \notin effects
    BY <2>1 DEF IdemInv, EffectsCommitted, At
  <2>3. CASE k \notin DOMAIN records
    <3>1. Goes(a, "run")
      BY <1>3, <2>3 DEF Get
    <3> QED
      BY <1>0, <2>1, <2>2, <3>1, GoesFacts, StepKeepsInv
  <2>4. CASE k \in DOMAIN records /\ records[k].body = attempt[a].body
    <3>1. Answers(a, records[k].response)
      BY <1>3, <2>4 DEF Get
    <3>2. Reports(records[k].response, k, attempt[a].body)
      BY <2>4 DEF IdemInv, RecordsReport
    <3>3. records[k].response \in Attempts
      BY <1>0, <2>4 DEF IdemTypeOK, Record
    <3>4. /\ attempt' \in [Attempts -> {Idle} \cup Received]
          /\ attempt'[a] # Idle /\ attempt'[a].at = "done"
          /\ attempt'[a].answer = records[k].response
          /\ attempt'[a].key = attempt[a].key /\ attempt'[a].body = attempt[a].body
          /\ \A b \in Attempts : b # a => attempt'[b] = attempt[b]
      BY <1>0, <2>1, <3>1, <3>3, AnswersFacts
    <3> QED
      BY <2>1, <2>2, <3>2, <3>4, StepKeepsInv
  <2>5. CASE k \in DOMAIN records /\ records[k].body # attempt[a].body
    <3>1. Answers(a, "REUSED")
      BY <1>3, <2>5 DEF Get
    <3> QED
      BY <1>0, <2>1, <2>2, <3>1, AnswersFacts, StepKeepsInv, NamesAssumption DEF Errors
  <2> QED
    BY <2>3, <2>4, <2>5
<1>4. ASSUME NEW a \in Attempts, Run(a)
      PROVE  IdemInv'
  <2>1. attempt[a] # Idle /\ attempt[a].at = "run" /\ records' = records
    BY <1>4 DEF Run, At
  <2>2. a \notin effects
    BY <2>1 DEF IdemInv, EffectsCommitted, At
  <2>3. CASE effects' = effects \cup {a} /\ Goes(a, "put")
    BY <1>0, <2>1, <2>3, GoesFacts, StepKeepsInv
  <2>4. CASE Answers(a, "FAILED") /\ UNCHANGED effects
    BY <1>0, <2>1, <2>2, <2>4, AnswersFacts, StepKeepsInv, NamesAssumption DEF Errors
  <2> QED
    BY <1>4, <2>3, <2>4 DEF Run
<1>5. ASSUME NEW a \in Attempts, Put(a)
      PROVE  IdemInv'
  <2>1. attempt[a] # Idle /\ attempt[a].at = "put" /\ effects' = effects
    BY <1>5 DEF Put, At
  <2>2. a \in effects
    BY <2>1 DEF IdemInv, EffectsCommitted, At
  <2>3. PICK answer \in {a, "REUSED"} : Answers(a, answer)
    BY <1>5 DEF Put
  <2>4. answer \in {None} \cup Attempts \cup Errors /\ (answer \in Attempts => answer = a)
    BY NamesAssumption DEF Errors
  <2>5. /\ attempt' \in [Attempts -> {Idle} \cup Received]
        /\ attempt'[a] # Idle /\ attempt'[a].at = "done" /\ attempt'[a].answer = answer
        /\ attempt'[a].key = attempt[a].key /\ attempt'[a].body = attempt[a].body
        /\ \A b \in Attempts : b # a => attempt'[b] = attempt[b]
    BY <1>0, <2>1, <2>3, <2>4, AnswersFacts
  <2>6. \/ records' = records
        \/ records' = [j \in DOMAIN records \cup {attempt[a].key} |->
             IF j = attempt[a].key THEN [body |-> attempt[a].body, response |-> a]
             ELSE records[j]]
    BY <1>5 DEF Put
  <2>7. \/ records' = records
        \/ records' = [j \in DOMAIN records \cup {attempt'[a].key} |->
             IF j = attempt'[a].key THEN [body |-> attempt'[a].body, response |-> a]
             ELSE records[j]]
    BY <2>5, <2>6
  <2> QED
    BY <2>1, <2>2, <2>4, <2>5, <2>7, StepKeepsInv
<1>6. ASSUME NEW a \in Attempts, StoreFails(a)
      PROVE  IdemInv'
  <2>1. /\ attempt[a] # Idle /\ attempt[a].at \in {"get", "put"} /\ Answers(a, "STORE_ERROR")
        /\ records' = records /\ effects' = effects
    BY <1>6 DEF StoreFails, At
  <2> QED
    BY <1>0, <2>1, AnswersFacts, StepKeepsInv, NamesAssumption DEF Errors
<1>7. ASSUME NEW a \in Attempts, Cut(a)
      PROVE  IdemInv'
  <2>1. /\ attempt[a] # Idle /\ Goes(a, "lost") /\ records' = records /\ effects' = effects
    BY <1>7 DEF Cut, At
  <2> QED
    BY <1>0, <2>1, GoesFacts, StepKeepsInv
<1>8. CASE UNCHANGED idemVars
  BY <1>8 DEF idemVars, IdemInv, IdemTypeOK, RecordsReport, AnswersReport, EffectsCommitted,
     Reports, At
<1> QED
  BY <1>1, <1>2, <1>3, <1>4, <1>5, <1>6, <1>7, <1>8 DEF IdemNext, Serve

\* Before the first request the invariant holds.
LEMMA InitIdemInv == IdemInit => IdemInv
BY DEF IdemInit, IdemInv, IdemTypeOK, RecordsReport, AnswersReport, EffectsCommitted, At

\* The inductive invariant holds in every reachable state, through any replicas.
THEOREM IdemInvariance == IdemSpec => []IdemInv
BY InitIdemInv, NextIdemInv, PTL DEF IdemSpec

\* Attempts, records and effects are typed, whatever fails or is cut off.
THEOREM IdemTypeCorrect == IdemSpec => []IdemTypeOK
<1>1. IdemInv => IdemTypeOK
  BY DEF IdemInv
<1> QED
  BY <1>1, IdemInvariance, PTL

\* A client is never told of an effect that did not happen, or of one of another
\* key or body, through any number of replicas (executeMutation).
THEOREM AnswersAreTrue == IdemSpec => []AnswersAreEffects
<1>1. IdemInv => AnswersAreEffects
  BY DEF IdemInv, RecordsReport, AnswersReport, Reports, AnswersAreEffects, EffectsOf
<1> QED
  BY <1>1, IdemInvariance, PTL

-----------------------------------------------------------------------------
\* One replica.

OneReplica == \A p, q \in Replicas : p = q

\* Between the lock and the answer, as Inside says of one replica's mutex.
Running(a) == At(a, {"get", "run", "put"})

\* A key's mutex is held by one attempt, which found no record, and an effect is
\* recorded unless its attempt is about to record it or broke.
OneReplicaInv ==
  /\ \A a, b \in Attempts :
       Running(a) /\ Running(b) /\ attempt[a].key = attempt[b].key => a = b
  /\ \A a \in Attempts : At(a, {"run", "put"}) => attempt[a].key \notin DOMAIN records
  /\ \A a \in effects : ~Broken(a) /\ ~At(a, {"put"}) =>
       attempt[a].key \in DOMAIN records /\ records[attempt[a].key].response = a

\* Through one replica, an attempt that takes the mutex of its key is alone in it
\* (the check of idempotencyLocks in executeMutation).
LEMMA LockExcludes ==
  ASSUME OneReplica, IdemTypeOK, NEW a \in Attempts, Lock(a),
         NEW b \in Attempts, Running(b), attempt[b].key = attempt[a].key
  PROVE  FALSE
<1>1. attempt[a].replica \in Replicas /\ attempt[b].replica \in Replicas
  BY RowFacts DEF Lock, Running
<1>2. attempt[b].replica = attempt[a].replica
  BY <1>1 DEF OneReplica
<1>3. b \in Inside(attempt[a].replica, attempt[a].key)
  BY <1>2 DEF Running, Inside
<1> QED
  BY <1>3 DEF Lock

\* What a step of attempt a may do to OneReplicaInv: enter the mutex when it is
\* free, go on inside it, run when there is no record, record its effect, and
\* end without a record only broken or without an effect.
LEMMA StepKeepsOneReplicaInv ==
  ASSUME OneReplicaInv, IdemTypeOK, NEW a \in Attempts,
         \A b \in Attempts : b # a => attempt'[b] = attempt[b],
         attempt[a] # Idle => attempt'[a].key = attempt[a].key,
         Running(a)' => Running(a) \/
           \A b \in Attempts : ~(Running(b) /\ attempt[b].key = attempt'[a].key),
         Running(a)' => attempt[a] # Idle,
         At(a, {"run", "put"})' => attempt[a].key \notin DOMAIN records /\ records' = records,
         effects' \in {effects, effects \cup {a}},
         a \in effects' /\ ~Broken(a)' /\ ~At(a, {"put"})' =>
           /\ attempt[a] # Idle
           /\ \/ a \in effects /\ ~Broken(a) /\ ~At(a, {"put"}) /\ records' = records
              \/ attempt[a].key \in DOMAIN records' /\ records'[attempt[a].key].response = a,
         \/ records' = records
         \/ /\ Running(a) /\ attempt[a].key \notin DOMAIN records
            /\ DOMAIN records' = DOMAIN records \cup {attempt[a].key}
            /\ \A j \in DOMAIN records : records'[j] = records[j]
  PROVE  OneReplicaInv'
<1>1. effects \subseteq Attempts
  BY DEF IdemTypeOK
<1>2. \A b \in Attempts : b # a =>
        (Running(b)' <=> Running(b)) /\ (Broken(b)' <=> Broken(b))
        /\ \A places : At(b, places)' <=> At(b, places)
  BY DEF At, Running, Broken
<1>3. ASSUME NEW b \in Attempts, NEW c \in Attempts, Running(b)', Running(c)',
             attempt'[b].key = attempt'[c].key
      PROVE  b = c
  <2>1. CASE b # a /\ c # a
    BY <1>2, <1>3, <2>1 DEF OneReplicaInv
  <2>2. CASE b = a /\ c # a
    <3>1. Running(c) /\ attempt[c].key = attempt'[a].key
      BY <1>2, <1>3, <2>2
    <3>2. Running(a) /\ attempt[a].key = attempt'[a].key
      BY <1>3, <2>2, <3>1
    <3> QED
      BY <2>2, <3>1, <3>2 DEF OneReplicaInv
  <2>3. CASE b # a /\ c = a
    <3>1. Running(b) /\ attempt[b].key = attempt'[a].key
      BY <1>2, <1>3, <2>3
    <3>2. Running(a) /\ attempt[a].key = attempt'[a].key
      BY <1>3, <2>3, <3>1
    <3> QED
      BY <2>3, <3>1, <3>2 DEF OneReplicaInv
  <2> QED
    BY <2>1, <2>2, <2>3
<1>4. ASSUME NEW b \in Attempts, At(b, {"run", "put"})'
      PROVE  attempt'[b].key \notin DOMAIN records'
  <2>1. CASE b = a
    <3>1. Running(a)'
      BY <1>4, <2>1 DEF At, Running
    <3> QED
      BY <1>4, <2>1, <3>1
  <2>2. CASE b # a
    <3>1. At(b, {"run", "put"}) /\ attempt'[b] = attempt[b]
      BY <1>2, <1>4, <2>2
    <3>2. attempt[b].key \notin DOMAIN records
      BY <3>1 DEF OneReplicaInv
    <3>3. Running(b)
      BY <3>1 DEF At, Running
    <3>4. Running(a) => attempt[a].key # attempt[b].key
      BY <2>2, <3>3 DEF OneReplicaInv
    <3> QED
      BY <3>1, <3>2, <3>4
  <2> QED
    BY <2>1, <2>2
<1>5. ASSUME NEW b \in effects', ~Broken(b)', ~At(b, {"put"})'
      PROVE  attempt'[b].key \in DOMAIN records' /\ records'[attempt'[b].key].response = b
  <2>1. CASE b = a
    BY <1>5, <2>1 DEF OneReplicaInv
  <2>2. CASE b # a
    <3>1. b \in effects /\ b \in Attempts /\ attempt'[b] = attempt[b]
      BY <1>1, <2>2
    <3>2. ~Broken(b) /\ ~At(b, {"put"})
      BY <1>2, <1>5, <2>2, <3>1
    <3>3. attempt[b].key \in DOMAIN records /\ records[attempt[b].key].response = b
      BY <3>1, <3>2 DEF OneReplicaInv
    <3> QED
      BY <3>1, <3>3
  <2> QED
    BY <2>1, <2>2
<1> QED
  BY <1>3, <1>4, <1>5 DEF OneReplicaInv

\* Through one replica every step keeps it.
LEMMA NextOneReplicaInv ==
  OneReplica /\ IdemInv /\ OneReplicaInv /\ [IdemNext]_idemVars => OneReplicaInv'
<1> SUFFICES ASSUME OneReplica, IdemInv, OneReplicaInv, [IdemNext]_idemVars
             PROVE  OneReplicaInv'
  OBVIOUS
<1>0. IdemTypeOK
  BY DEF IdemInv
<1>1. ASSUME NEW a \in Attempts, NEW replica \in Replicas, NEW k \in Keys,
             NEW body \in Bodies, Receive(a, replica, k, body)
      PROVE  OneReplicaInv'
  <2>1. /\ attempt[a] = Idle /\ attempt'[a] # Idle /\ attempt'[a].at = "lock"
        /\ \A b \in Attempts : b # a => attempt'[b] = attempt[b]
        /\ records' = records /\ effects' = effects
    BY <1>0, <1>1, ReceiveFacts
  <2>2. a \notin effects
    BY <2>1 DEF IdemInv, EffectsCommitted, At
  <2>3. ~Running(a)' /\ ~At(a, {"run", "put"})'
    BY <2>1 DEF Running, At
  <2> QED
    BY <1>0, <2>1, <2>2, <2>3, StepKeepsOneReplicaInv
<1>2. ASSUME NEW a \in Attempts, Lock(a)
      PROVE  OneReplicaInv'
  <2>1. /\ attempt[a] # Idle /\ attempt[a].at = "lock" /\ Goes(a, "get")
        /\ records' = records /\ effects' = effects
    BY <1>2 DEF Lock, At
  <2>2. a \notin effects
    BY <2>1 DEF IdemInv, EffectsCommitted, At
  <2>3. /\ attempt'[a].at = "get" /\ attempt'[a].key = attempt[a].key
        /\ \A b \in Attempts : b # a => attempt'[b] = attempt[b]
    BY <1>0, <2>1, GoesFacts
  <2>4. ~At(a, {"run", "put"})'
    BY <2>3 DEF At
  <2>5. \A b \in Attempts : ~(Running(b) /\ attempt[b].key = attempt'[a].key)
    BY <1>0, <1>2, <2>3, LockExcludes
  <2> QED
    BY <1>0, <2>1, <2>2, <2>3, <2>4, <2>5, StepKeepsOneReplicaInv
<1>3. ASSUME NEW a \in Attempts, Get(a)
      PROVE  OneReplicaInv'
  <2>1. /\ attempt[a] # Idle /\ attempt[a].at = "get"
        /\ records' = records /\ effects' = effects
    BY <1>3 DEF Get, At
  <2>2. a \notin effects /\ Running(a)
    BY <2>1 DEF IdemInv, EffectsCommitted, At, Running
  <2>3. CASE attempt[a].key \notin DOMAIN records
    <3>1. Goes(a, "run")
      BY <1>3, <2>3 DEF Get
    <3>2. /\ attempt'[a].key = attempt[a].key
          /\ \A b \in Attempts : b # a => attempt'[b] = attempt[b]
      BY <1>0, <2>1, <3>1, GoesFacts
    <3> QED
      BY <1>0, <2>1, <2>2, <2>3, <3>2, StepKeepsOneReplicaInv
  <2>4. CASE attempt[a].key \in DOMAIN records
    <3>1. PICK answer \in {records[attempt[a].key].response, "REUSED"} : Answers(a, answer)
      BY <1>3, <2>4 DEF Get
    <3>2. answer \in {None} \cup Attempts \cup Errors
      BY <1>0, <2>4 DEF IdemTypeOK, Record, Errors
    <3>3. /\ attempt'[a].at = "done" /\ attempt'[a].key = attempt[a].key
          /\ \A b \in Attempts : b # a => attempt'[b] = attempt[b]
      BY <1>0, <2>1, <3>1, <3>2, AnswersFacts
    <3>4. ~Running(a)' /\ ~At(a, {"run", "put"})'
      BY <3>3 DEF Running, At
    <3> QED
      BY <1>0, <2>1, <2>2, <3>3, <3>4, StepKeepsOneReplicaInv
  <2> QED
    BY <2>3, <2>4
<1>4. ASSUME NEW a \in Attempts, Run(a)
      PROVE  OneReplicaInv'
  <2>1. attempt[a] # Idle /\ attempt[a].at = "run" /\ records' = records
    BY <1>4 DEF Run, At
  <2>2. a \notin effects /\ Running(a) /\ At(a, {"run", "put"})
    BY <2>1 DEF IdemInv, EffectsCommitted, At, Running
  <2>3. attempt[a].key \notin DOMAIN records
    BY <2>2 DEF OneReplicaInv
  <2>4. CASE effects' = effects \cup {a} /\ Goes(a, "put")
    <3>1. /\ attempt'[a] # Idle /\ attempt'[a].at = "put" /\ attempt'[a].key = attempt[a].key
          /\ \A b \in Attempts : b # a => attempt'[b] = attempt[b]
      BY <1>0, <2>1, <2>4, GoesFacts
    <3>2. At(a, {"put"})'
      BY <3>1 DEF At
    <3> QED
      BY <1>0, <2>1, <2>2, <2>3, <2>4, <3>1, <3>2, StepKeepsOneReplicaInv
  <2>5. CASE Answers(a, "FAILED") /\ UNCHANGED effects
    <3>1. /\ attempt'[a].at = "done" /\ attempt'[a].key = attempt[a].key
          /\ \A b \in Attempts : b # a => attempt'[b] = attempt[b]
      BY <1>0, <2>1, <2>5, AnswersFacts DEF Errors
    <3>2. ~Running(a)' /\ ~At(a, {"run", "put"})'
      BY <3>1 DEF Running, At
    <3> QED
      BY <1>0, <2>1, <2>2, <2>5, <3>1, <3>2, StepKeepsOneReplicaInv
  <2> QED
    BY <1>4, <2>4, <2>5 DEF Run
<1>5. ASSUME NEW a \in Attempts, Put(a)
      PROVE  OneReplicaInv'
  <2> DEFINE row == [body |-> attempt[a].body, response |-> a]
  <2>1. attempt[a] # Idle /\ attempt[a].at = "put" /\ effects' = effects
    BY <1>5 DEF Put, At
  <2>2. Running(a) /\ At(a, {"run", "put"})
    BY <2>1 DEF At, Running
  <2>3. attempt[a].key \notin DOMAIN records
    BY <2>2 DEF OneReplicaInv
  <2>4. /\ Answers(a, a)
        /\ records' = [j \in DOMAIN records \cup {attempt[a].key} |->
             IF j = attempt[a].key THEN row ELSE records[j]]
    BY <1>5, <2>3 DEF Put
  <2>5. row.response = a
    OBVIOUS
  <2> HIDE DEF row
  <2>6. /\ DOMAIN records' = DOMAIN records \cup {attempt[a].key}
        /\ records'[attempt[a].key].response = a
        /\ \A j \in DOMAIN records : records'[j] = records[j]
    BY <2>3, <2>4, <2>5
  <2>7. /\ attempt'[a].at = "done" /\ attempt'[a].key = attempt[a].key
        /\ \A b \in Attempts : b # a => attempt'[b] = attempt[b]
    BY <1>0, <2>1, <2>4, AnswersFacts
  <2>8. ~Running(a)' /\ ~At(a, {"run", "put"})'
    BY <2>7 DEF Running, At
  <2> QED
    BY <1>0, <2>1, <2>2, <2>3, <2>6, <2>7, <2>8, StepKeepsOneReplicaInv
<1>6. ASSUME NEW a \in Attempts, StoreFails(a)
      PROVE  OneReplicaInv'
  <2>1. /\ attempt[a] # Idle /\ Answers(a, "STORE_ERROR")
        /\ records' = records /\ effects' = effects
    BY <1>6 DEF StoreFails, At
  <2>2. /\ attempt'[a] # Idle /\ attempt'[a].at = "done" /\ attempt'[a].answer = "STORE_ERROR"
        /\ attempt'[a].key = attempt[a].key
        /\ \A b \in Attempts : b # a => attempt'[b] = attempt[b]
    BY <1>0, <2>1, AnswersFacts DEF Errors
  <2>3. ~Running(a)' /\ ~At(a, {"run", "put"})' /\ Broken(a)'
    BY <2>2 DEF Running, At, Broken
  <2> QED
    BY <1>0, <2>1, <2>2, <2>3, StepKeepsOneReplicaInv
<1>7. ASSUME NEW a \in Attempts, Cut(a)
      PROVE  OneReplicaInv'
  <2>1. /\ attempt[a] # Idle /\ Goes(a, "lost") /\ records' = records /\ effects' = effects
    BY <1>7 DEF Cut, At
  <2>2. /\ attempt'[a] # Idle /\ attempt'[a].at = "lost" /\ attempt'[a].key = attempt[a].key
        /\ \A b \in Attempts : b # a => attempt'[b] = attempt[b]
    BY <1>0, <2>1, GoesFacts
  <2>3. ~Running(a)' /\ ~At(a, {"run", "put"})' /\ Broken(a)'
    BY <2>2 DEF Running, At, Broken
  <2> QED
    BY <1>0, <2>1, <2>2, <2>3, StepKeepsOneReplicaInv
<1>8. CASE UNCHANGED idemVars
  BY <1>8 DEF idemVars, OneReplicaInv, Running, Broken, At
<1> QED
  BY <1>1, <1>2, <1>3, <1>4, <1>5, <1>6, <1>7, <1>8 DEF IdemNext, Serve

\* Two effects of a key that are not broken are one: both are recorded, or one
\* is about to be recorded and there is no record.
LEMMA OneReplicaOneEffect == IdemInv /\ OneReplicaInv => OneSoundEffect
<1> SUFFICES ASSUME IdemInv, OneReplicaInv,
                    NEW a \in effects, NEW b \in effects, ~Broken(a), ~Broken(b),
                    attempt[a].key = attempt[b].key
             PROVE  a = b
  BY DEF OneSoundEffect
<1>1. a \in Attempts /\ b \in Attempts
  BY DEF IdemInv, IdemTypeOK
<1>2. \A e \in Attempts : At(e, {"put"}) => Running(e) /\ At(e, {"run", "put"})
  BY DEF At, Running
<1> QED
  BY <1>1, <1>2 DEF OneReplicaInv

\* Through one replica the mutex of a key and its record exclude each other.
LEMMA OneReplicaInvariance == ASSUME OneReplica PROVE IdemSpec => [](IdemInv /\ OneReplicaInv)
<1>1. IdemInit => OneReplicaInv
  BY DEF IdemInit, OneReplicaInv, Running, At
<1>2. IdemInv /\ OneReplicaInv /\ [IdemNext]_idemVars => OneReplicaInv'
  BY NextOneReplicaInv
<1> QED
  BY <1>1, <1>2, InitIdemInv, NextIdemInv, PTL DEF IdemSpec

\* Through one replica a client that retries after an answer never repeats what
\* it did, whatever is cut off and wherever the store fails (executeMutation).
THEOREM OneReplicaNeverRepeats == ASSUME OneReplica PROVE IdemSpec => []OneSoundEffect
BY OneReplicaOneEffect, OneReplicaInvariance, PTL

-----------------------------------------------------------------------------
\* The first recorded response decides a key (AtMostOnce).

\* What attempt a was told of, or None.
Told(a) == IF At(a, {"done"}) /\ attempt[a].answer \in Attempts THEN attempt[a].answer ELSE None

LEMMA AnsweredIsTold == Answered = [a \in Attempts |-> Told(a)]
BY DEF Answered, Told

\* Where one attempt alone changed, only what it was told can differ.
LEMMA ToldOfOthers ==
  ASSUME NEW a \in Attempts, \A b \in Attempts : b # a => attempt'[b] = attempt[b]
  PROVE  Answered' = [Answered EXCEPT ![a] = Told(a)']
<1>1. \A b \in Attempts : b # a => Told(b)' = Told(b)
  BY DEF Told, At
<1>2. Answered' = [b \in Attempts |-> Told(b)']
  BY DEF Answered, Told
<1>3. Answered = [b \in Attempts |-> Told(b)]
  BY AnsweredIsTold
<1> HIDE DEF Told
<1> QED
  BY <1>1, <1>2, <1>3

\* A step that records nothing and tells its attempt nothing new stutters.
LEMMA SilentStep ==
  ASSUME NEW a \in Attempts, \A b \in Attempts : b # a => attempt'[b] = attempt[b],
         records' = records, Told(a)' = Told(a)
  PROVE  UNCHANGED <<Outcome, Answered>>
<1>1. Outcome' = Outcome
  BY DEF Outcome
<1>2. Answered' = [Answered EXCEPT ![a] = Told(a)']
  BY ToldOfOthers
<1>3. Answered = [b \in Attempts |-> Told(b)]
  BY AnsweredIsTold
<1>4. Answered' = Answered
  BY <1>2, <1>3
<1> QED
  BY <1>1, <1>4

PromisedStep == [KeyPromise!Next]_<<Outcome, Answered>>

\* Through one replica a recorded effect decides its key, a replay answers with
\* what was decided, and every other step shows the client nothing.
LEMMA StepsKeepPromise ==
  ASSUME OneReplica, IdemInv, OneReplicaInv, [IdemNext]_idemVars
  PROVE  PromisedStep
<1>0. IdemTypeOK
  BY DEF IdemInv
<1>a. UNCHANGED <<Outcome, Answered>> => PromisedStep
  BY DEF PromisedStep
<1>b. ASSUME NEW a \in Attempts, NEW k \in Keys,
             KeyPromise!Decide(k, a) \/ KeyPromise!Answer(a, k)
      PROVE  PromisedStep
  BY <1>b DEF KeyPromise!Next, PromisedStep
<1>1. ASSUME NEW a \in Attempts, NEW replica \in Replicas, NEW k \in Keys,
             NEW body \in Bodies, Receive(a, replica, k, body)
      PROVE  PromisedStep
  <2>1. /\ attempt[a] = Idle /\ attempt'[a].at = "lock"
        /\ \A b \in Attempts : b # a => attempt'[b] = attempt[b]
        /\ records' = records
    BY <1>0, <1>1, ReceiveFacts
  <2>2. Told(a)' = Told(a)
    BY <2>1 DEF Told, At
  <2> QED
    BY <1>a, <2>1, <2>2, SilentStep
<1>2. ASSUME NEW a \in Attempts, attempt[a] # Idle, attempt[a].at # "done",
             NEW at \in {"get", "run", "put", "lost"}, Goes(a, at), records' = records
      PROVE  PromisedStep
  <2>1. /\ attempt'[a].at = at
        /\ \A b \in Attempts : b # a => attempt'[b] = attempt[b]
    BY <1>0, <1>2, GoesFacts
  <2>2. Told(a)' = Told(a)
    BY <1>2, <2>1 DEF Told, At
  <2> QED
    BY <1>2, <1>a, <2>1, <2>2, SilentStep
<1>3. ASSUME NEW a \in Attempts, attempt[a] # Idle, attempt[a].at # "done",
             NEW answer \in Errors, Answers(a, answer), records' = records
      PROVE  PromisedStep
  <2>1. /\ attempt'[a].at = "done" /\ attempt'[a].answer = answer
        /\ \A b \in Attempts : b # a => attempt'[b] = attempt[b]
    BY <1>0, <1>3, AnswersFacts
  <2>2. Told(a)' = Told(a)
    BY <1>3, <2>1, NamesAssumption DEF Told, At
  <2> QED
    BY <1>3, <1>a, <2>1, <2>2, SilentStep
<1>4. ASSUME NEW a \in Attempts, attempt[a] # Idle, attempt[a].at # "done",
             NEW answer \in Attempts, Answers(a, answer)
      PROVE  Answered[a] = None /\ Answered' = [Answered EXCEPT ![a] = answer]
  <2>1. /\ attempt'[a] # Idle /\ attempt'[a].at = "done" /\ attempt'[a].answer = answer
        /\ \A b \in Attempts : b # a => attempt'[b] = attempt[b]
    BY <1>0, <1>4, AnswersFacts
  <2>2. Told(a)' = answer /\ Told(a) = None
    BY <1>4, <2>1 DEF Told, At
  <2>3. Answered[a] = Told(a)
    BY AnsweredIsTold
  <2> QED
    BY <2>1, <2>2, <2>3, ToldOfOthers
<1>5. ASSUME NEW a \in Attempts, Get(a)
      PROVE  PromisedStep
  <2> DEFINE k == attempt[a].key
  <2>1. attempt[a] # Idle /\ attempt[a].at = "get" /\ k \in Keys /\ records' = records
    BY <1>0, <1>5, RowFacts DEF Get, At
  <2>2. CASE Goes(a, "run")
    BY <1>2, <2>1, <2>2
  <2>3. CASE Answers(a, "REUSED")
    BY <1>3, <2>1, <2>3 DEF Errors
  <2>4. CASE k \in DOMAIN records /\ Answers(a, records[k].response)
    <3>1. records[k].response \in Attempts
      BY <1>0, <2>4 DEF IdemTypeOK, Record
    <3>2. Outcome[k] = records[k].response /\ Outcome' = Outcome
      BY <2>1, <2>4 DEF Outcome
    <3>3. Answered[a] = None /\ Answered' = [Answered EXCEPT ![a] = Outcome[k]]
      BY <1>4, <2>1, <2>4, <3>1, <3>2
    <3>4. KeyPromise!Answer(a, k)
      BY <3>1, <3>2, <3>3, NamesAssumption DEF KeyPromise!Answer
    <3> QED
      BY <1>b, <2>1, <3>4
  <2> QED
    BY <1>5, <2>2, <2>3, <2>4 DEF Get
<1>6. ASSUME NEW a \in Attempts, Put(a)
      PROVE  PromisedStep
  <2> DEFINE k == attempt[a].key
             row == [body |-> attempt[a].body, response |-> a]
  <2>1. attempt[a] # Idle /\ attempt[a].at = "put" /\ k \in Keys
    BY <1>0, <1>6, RowFacts DEF Put, At
  <2>2. k \notin DOMAIN records
    BY <2>1 DEF OneReplicaInv, At
  <2>3. /\ Answers(a, a)
        /\ records' = [j \in DOMAIN records \cup {k} |-> IF j = k THEN row ELSE records[j]]
    BY <1>6, <2>2 DEF Put
  <2>4. row.response = a
    OBVIOUS
  <2> HIDE DEF row
  <2>5. /\ DOMAIN records' = DOMAIN records \cup {k} /\ records'[k].response = a
        /\ \A j \in DOMAIN records : records'[j] = records[j]
    BY <2>2, <2>3, <2>4
  <2>6. Outcome[k] = None /\ Outcome' = [Outcome EXCEPT ![k] = a]
    <3>1. \A j \in Keys : j # k =>
            (IF j \in DOMAIN records' THEN records'[j].response ELSE None)
              = (IF j \in DOMAIN records THEN records[j].response ELSE None)
      BY <2>5
    <3> QED
      BY <2>1, <2>2, <2>5, <3>1 DEF Outcome
  <2>7. KeyPromise!Decide(k, a)
    BY <1>4, <2>1, <2>3, <2>6 DEF KeyPromise!Decide
  <2> QED
    BY <1>b, <2>1, <2>7
<1>7. ASSUME NEW a \in Attempts, Lock(a) \/ Run(a) \/ StoreFails(a) \/ Cut(a)
      PROVE  PromisedStep
  <2>1. /\ attempt[a] # Idle /\ attempt[a].at # "done" /\ records' = records
        /\ \/ \E at \in {"get", "run", "put", "lost"} : Goes(a, at)
           \/ \E answer \in Errors : Answers(a, answer)
    BY <1>7 DEF Lock, Run, StoreFails, Cut, At, Errors
  <2> QED
    BY <1>2, <1>3, <2>1
<1>8. CASE UNCHANGED idemVars
  <2>1. UNCHANGED <<Outcome, Answered>>
    BY <1>8 DEF idemVars, Outcome, Answered, At
  <2> QED
    BY <1>a, <2>1
<1>9. CASE IdemNext
  <2>1. PICK a \in Attempts :
          \/ \E replica \in Replicas, k \in Keys, body \in Bodies : Receive(a, replica, k, body)
          \/ Get(a) \/ Put(a) \/ (Lock(a) \/ Run(a) \/ StoreFails(a) \/ Cut(a))
    BY <1>9 DEF IdemNext, Serve
  <2> QED
    BY <1>1, <1>5, <1>6, <1>7, <2>1
<1> QED
  BY <1>8, <1>9

\* Through one replica an idempotency key keeps its promise: the first recorded
\* response decides, and every success reported for the key is that one.
THEOREM OneReplicaKeepsThePromise == ASSUME OneReplica PROVE IdemSpec => FirstRecordDecides
<1>1. IdemInit => KeyPromise!Init
  BY DEF IdemInit, KeyPromise!Init, Outcome, Answered, At
<1>2. OneReplica /\ IdemInv /\ OneReplicaInv /\ [IdemNext]_idemVars
        => [KeyPromise!Next]_<<Outcome, Answered>>
  BY StepsKeepPromise DEF PromisedStep
<1> QED
  BY <1>1, <1>2, OneReplicaInvariance, PTL DEF IdemSpec, FirstRecordDecides, KeyPromise!Spec
=============================================================================
