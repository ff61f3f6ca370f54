------------------------------ MODULE MCMarket ------------------------------
(***************************************************************************)
(* Instances of Market for TLC.                                            *)
(***************************************************************************)
EXTENDS Market, TLC

\* Only FindMatchingDemand looks at a specification, and it is Intake's.
OneSpec == {"lunch"}

MCMemberLimits == {[min |-> 1, max |-> 1], [min |-> 2, max |-> 2]}
MCOrderLimits  == {[min |-> 1, max |-> 3], [min |-> 2, max |-> 2]}

Symmetry == Permutations(Users) \cup Permutations(OrderIds) \cup Permutations(CampaignIds)
=============================================================================
