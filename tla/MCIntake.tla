------------------------------ MODULE MCIntake ------------------------------
(***************************************************************************)
(* Instances of Intake for TLC.  No offer, campaign or order is made: the  *)
(* requests of Intake touch demands and members only.                      *)
(***************************************************************************)
EXTENDS Intake

SpecOn(lo, hi) ==
  [kind |-> "lunch", budget |-> [lo |-> lo, hi |-> hi],
   weight |-> [lo |-> 1, hi |-> 1], hard |-> {}]

\* Requests with equal budgets match, with different ones they do not.
TwoSpecs == {SpecOn(1, 2), SpecOn(3, 4)}

LimitsOne == {[min |-> 1, max |-> 1]}

NoLimits == {}
=============================================================================
