-------------------------------- MODULE Seats --------------------------------
(***************************************************************************)
(* What a store promises of anything offered in limited number, whichever  *)
(* implementation is behind it: a resource is offered once with a capacity,*)
(* each claimant claims at most once on a resource, and a claim and the    *)
(* taken counter of its resource move together, within the capacity.       *)
(*                                                                         *)
(* The claims on a demand cluster are its members, the claims on a         *)
(* campaign are its orders.                                                *)
(***************************************************************************)
EXTENDS Integers

CONSTANTS
  Resources, Claimants,
  Amounts     \* the capacities and claim sizes in use, positive naturals

VARIABLES
  capacity,   \* capacity of each resource, 0 while it is not offered
  taken,      \* how much of it is taken
  claim       \* claim[r][k] is what claimant k holds of r, 0 for nothing

seats == <<capacity, taken, claim>>

Init ==
  /\ capacity = [r \in Resources |-> 0]
  /\ taken = [r \in Resources |-> 0]
  /\ claim = [r \in Resources |-> [k \in Claimants |-> 0]]

Offer(r, n) ==
  /\ capacity[r] = 0
  /\ capacity' = [capacity EXCEPT ![r] = n]
  /\ UNCHANGED <<taken, claim>>

Claim(r, k, n) ==
  /\ claim[r][k] = 0
  /\ taken[r] + n <= capacity[r]
  /\ claim' = [claim EXCEPT ![r][k] = n]
  /\ taken' = [taken EXCEPT ![r] = @ + n]
  /\ UNCHANGED capacity

Next ==
  \E r \in Resources :
    \/ \E n \in Amounts : Offer(r, n)
    \/ \E k \in Claimants, n \in Amounts : Claim(r, k, n)

Spec == Init /\ [][Next]_seats
=============================================================================
