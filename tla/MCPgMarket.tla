----------------------------- MODULE MCPgMarket -----------------------------
(***************************************************************************)
(* Instances of PgMarket for TLC.                                          *)
(***************************************************************************)
EXTENDS PgMarket

OneSpec == {"lunch"}
MCMemberLimits == {[min |-> 1, max |-> 1]}
MCOrderLimits  == {[min |-> 1, max |-> 1]}
=============================================================================
