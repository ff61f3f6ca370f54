---------------------------- MODULE Idempotency ----------------------------
(***************************************************************************)
(* Idempotency keys of the Go API (Server.executeMutation, httpapi/json.go)*)
(* over GetIdempotency and PutIdempotency of the stores.                   *)
(*                                                                         *)
(* An attempt is one HTTP request of one actor that carries an             *)
(* Idempotency-Key; a client that saw no answer sends the same request     *)
(* again, perhaps while the first is still running and perhaps to another  *)
(* replica.  A key is used with one body, or reused with another one.  The *)
(* wrapped operation commits one effect or fails; what it does is the      *)
(* matter of Market and PgMarket.                                          *)
(***************************************************************************)
EXTENDS Integers, FiniteSets

CONSTANTS
  Replicas,       \* processes of the API that share the store
  Attempts, Keys,
  Bodies,         \* stands for the fingerprint: method, path and body
  Fragile,        \* the attempts that may be cut off or meet a failing store
  None

ASSUME FragileAssumption == Fragile \subseteq Attempts

VARIABLES
  attempt,        \* attempt[a]: where the handler of a stands
  records,        \* the idempotency records: key -> [body, response]
  effects         \* the attempts whose operation committed

idemVars == <<attempt, records, effects>>

\* at      "idle", then "lock", "get", "run", "put" for the next step of
\*         executeMutation, "done" when answered, "lost" when cut off
\* answer  the attempt whose effect the answer reports, or what went wrong
Idle == [at |-> "idle"]
Errors == {"REUSED", "FAILED", "STORE_ERROR"}

\* An attempt is not mistaken for an error or for no answer.
ASSUME NamesAssumption == Attempts \cap Errors = {} /\ None \notin Attempts

Received == [at : {"lock", "get", "run", "put", "done", "lost"}, replica : Replicas,
             key : Keys, body : Bodies, answer : {None} \cup Attempts \cup Errors]
Record == [body : Bodies, response : Attempts]

IdemTypeOK ==
  /\ attempt \in [Attempts -> {Idle} \cup Received]
  /\ DOMAIN records \subseteq Keys
  /\ \A k \in DOMAIN records : records[k] \in Record
  /\ effects \subseteq Attempts

IdemInit ==
  /\ attempt = [a \in Attempts |-> Idle]
  /\ records = [k \in {} |-> None]
  /\ effects = {}

At(a, places)    == attempt[a] # Idle /\ attempt[a].at \in places
Goes(a, at)      == attempt' = [attempt EXCEPT ![a].at = at]
Answers(a, answer) == attempt' = [attempt EXCEPT ![a].at = "done", ![a].answer = answer]

\* Faulty variants: there is no mutex; the failure of an operation returns
\* without unlocking it.
InsideNothing(replica, k) == {}
InsideAfterFailure(replica, k) ==
  {a \in Attempts : (At(a, {"get", "run", "put"})
                       \/ (At(a, {"done"}) /\ attempt[a].answer = "FAILED"))
                    /\ attempt[a].replica = replica /\ attempt[a].key = k}

\* The attempts between Lock and the deferred Unlock of the mutex of a key:
\* idempotencyLocks is a map of mutexes in the memory of one replica.
Inside(replica, k) ==
  {a \in Attempts : At(a, {"get", "run", "put"})
                    /\ attempt[a].replica = replica /\ attempt[a].key = k}

Receive(a, replica, k, body) ==
  /\ attempt[a] = Idle
  /\ attempt' = [attempt EXCEPT ![a] =
       [at |-> "lock", replica |-> replica, key |-> k, body |-> body, answer |-> None]]
  /\ UNCHANGED <<records, effects>>

Lock(a) ==
  /\ At(a, {"lock"})
  /\ Inside(attempt[a].replica, attempt[a].key) = {}
  /\ Goes(a, "get")
  /\ UNCHANGED <<records, effects>>

\* Faulty variants: the fingerprint is not compared; the record is not used.
GetAnyBody(a) ==
  /\ At(a, {"get"})
  /\ LET k == attempt[a].key
     IN IF k \notin DOMAIN records THEN Goes(a, "run") ELSE Answers(a, records[k].response)
  /\ UNCHANGED <<records, effects>>
GetNothing(a) == At(a, {"get"}) /\ Goes(a, "run") /\ UNCHANGED <<records, effects>>

Get(a) ==
  /\ At(a, {"get"})
  /\ LET k == attempt[a].key
     IN IF k \notin DOMAIN records THEN Goes(a, "run")
        ELSE Answers(a, IF records[k].body = attempt[a].body
                        THEN records[k].response ELSE "REUSED")
  /\ UNCHANGED <<records, effects>>

\* The operation commits, or it fails and nothing is recorded.
Run(a) ==
  /\ At(a, {"run"})
  /\ \/ effects' = effects \cup {a} /\ Goes(a, "put")
     \/ Answers(a, "FAILED") /\ UNCHANGED effects
  /\ UNCHANGED records

\* Faulty variant: the response is not stored with the record.
PutWithoutResponse(a) ==
  /\ At(a, {"put"})
  /\ Answers(a, a)
  /\ records' = [j \in DOMAIN records \cup {attempt[a].key} |->
       IF j = attempt[a].key THEN [body |-> attempt[a].body, response |-> None] ELSE records[j]]
  /\ UNCHANGED effects

\* A record that is there already stays: if it has this fingerprint the store
\* reports no error, and the handler answers with its own response.
Put(a) ==
  /\ At(a, {"put"})
  /\ LET k == attempt[a].key
         body == attempt[a].body
     IN IF k \in DOMAIN records
        THEN /\ Answers(a, IF records[k].body = body THEN a ELSE "REUSED")
             /\ UNCHANGED records
        ELSE /\ Answers(a, a)
             /\ records' = [j \in DOMAIN records \cup {k} |->
                  IF j = k THEN [body |-> body, response |-> a] ELSE records[j]]
  /\ UNCHANGED effects

\* GetIdempotency or PutIdempotency fails.
StoreFails(a) ==
  /\ a \in Fragile
  /\ At(a, {"get", "put"})
  /\ Answers(a, "STORE_ERROR")
  /\ UNCHANGED <<records, effects>>

\* The client goes away or the replica stops: the next call finds its context
\* cancelled, or there is no next call.  A stopped replica takes its mutexes
\* along.
Cut(a) ==
  /\ a \in Fragile
  /\ At(a, {"lock", "get", "run", "put"})
  /\ Goes(a, "lost")
  /\ UNCHANGED <<records, effects>>

Serve(a) == Lock(a) \/ Get(a) \/ Run(a) \/ Put(a)

IdemNext ==
  \E a \in Attempts :
    \/ \E replica \in Replicas, k \in Keys, body \in Bodies : Receive(a, replica, k, body)
    \/ Serve(a)
    \/ StoreFails(a)
    \/ Cut(a)

IdemSpec == IdemInit /\ [][IdemNext]_idemVars

\* sync.Mutex hands the lock to a waiter in turn, and the server runs every
\* handler to its end.
FairIdemSpec == IdemSpec /\ \A a \in Attempts : SF_idemVars(Serve(a))

-----------------------------------------------------------------------------

EffectsOf(k) == {a \in effects : attempt[a].key = k}

\* A recorded response reports an effect that committed, of a request with the
\* recorded key and body, and an attempt that was answered reports what was
\* recorded or nothing: a client is never told of an effect that did not happen.
AnswersAreEffects ==
  /\ \A k \in DOMAIN records :
       LET a == records[k].response
       IN a \in EffectsOf(k) /\ attempt[a].body = records[k].body
  /\ \A a \in Attempts :
       At(a, {"done"}) /\ attempt[a].answer \in Attempts =>
         attempt[a].answer \in EffectsOf(attempt[a].key)
         /\ attempt[attempt[a].answer].body = attempt[a].body

\* An effect is broken when its attempt was cut off or the store failed before
\* the record was written.
Broken(a) == At(a, {"lost"}) \/ (At(a, {"done"}) /\ attempt[a].answer = "STORE_ERROR")

\* Through one replica a key has one effect besides the broken ones: a client
\* that retries after an answer never repeats what it did.
OneSoundEffect ==
  \A k \in Keys, a, b \in {e \in effects : ~Broken(e)} :
    attempt[a].key = k /\ attempt[b].key = k => a = b

\* README.md of backend-go, "PostgreSQL Persistence": the table has a primary
\* key on (actor_id, idempotency_key) "so replay protection is
\* database-atomic".  A key has one effect whatever is cut off or fails.
OneEffectPerKey == \A k \in Keys : Cardinality(EffectsOf(k)) <= 1

\* README.md of backend-go, "Contracts": "Reusing a key with the same request
\* returns the original response".
SameRequestSameResponse ==
  \A a, b \in Attempts :
    /\ At(a, {"done"}) /\ attempt[a].answer \in Attempts
    /\ At(b, {"done"}) /\ attempt[b].answer \in Attempts
    /\ attempt[a].key = attempt[b].key /\ attempt[a].body = attempt[b].body
    => attempt[a].answer = attempt[b].answer

\* Every attempt that is not cut off is answered.
EveryAttemptEnds == \A a \in Attempts : attempt[a] # Idle ~> At(a, {"done", "lost"})

-----------------------------------------------------------------------------
\* The recorded response is the outcome of a key, and the effect a successful
\* answer reports is what its client was told.
Outcome  == [k \in Keys |-> IF k \in DOMAIN records THEN records[k].response ELSE None]
Answered == [a \in Attempts |->
  IF At(a, {"done"}) /\ attempt[a].answer \in Attempts THEN attempt[a].answer ELSE None]

KeyPromise == INSTANCE AtMostOnce WITH outcome <- Outcome, answered <- Answered

\* Through one replica the first recorded response decides, and every success
\* reported for the key is that one, whatever is cut off or fails.
FirstRecordDecides == KeyPromise!Spec
=============================================================================
