----------------------------- MODULE AtMostOnce -----------------------------
(***************************************************************************)
(* What an idempotency key promises its client: the first request to       *)
(* succeed decides the outcome of the key, once and for all, and every     *)
(* answer given for the key afterwards reports that outcome.               *)
(***************************************************************************)

CONSTANTS Keys, Attempts, None

VARIABLES
  outcome,        \* outcome[k]: the attempt whose success counts for k, or None
  answered        \* answered[a]: the outcome attempt a was told of, or None

Init ==
  /\ outcome = [k \in Keys |-> None]
  /\ answered = [a \in Attempts |-> None]

Decide(k, a) ==
  /\ outcome[k] = None /\ answered[a] = None
  /\ outcome' = [outcome EXCEPT ![k] = a]
  /\ answered' = [answered EXCEPT ![a] = a]

Answer(a, k) ==
  /\ answered[a] = None
  /\ outcome[k] # None
  /\ answered' = [answered EXCEPT ![a] = outcome[k]]
  /\ UNCHANGED outcome

Next == \E a \in Attempts, k \in Keys : Decide(k, a) \/ Answer(a, k)

Spec == Init /\ [][Next]_<<outcome, answered>>
=============================================================================
