--------------------------- MODULE PgMarketProofs ---------------------------
(***************************************************************************)
(* Proofs about PgMarket, for any number of sessions.                      *)
(*                                                                         *)
(* The store's own invariant IInv (MarketProofs) holds of the committed    *)
(* rows, but a commit is an operation of Market only because of what its   *)
(* transaction still knows then: the row it read FOR UPDATE is the         *)
(* committed row, one session at a time holds a row, and nobody else drew  *)
(* its identifier.  Three commits are not operations of Market even so:    *)
(* they read the demand without a lock, and it may be closed by now.       *)
(***************************************************************************)
EXTENDS PgMarket, MarketProofs

Txs == {NoTx} \cup JoinTx \cup OrderTx \cup ReviewTx \cup OfferTx \cup CampaignTx

TxOK ==
  /\ tx \in [Sessions -> Txs]
  /\ \A s \in Sessions :
       tx[s].op \in {"join", "order", "review"} => (tx[s].at = "lock") = (tx[s].row = NoRow)

HoldsDemand(s)   == In(s, "join", "write")
HoldsCampaign(s) == tx[s].op \in {"order", "review"} /\ tx[s].at # "lock"
DrewId(s)        == tx[s].op \in {"order", "offer", "campaign"}

\* What the transaction of s may rely on when its next statement runs.
StillTrue(s) ==
  /\ tx[s].op = "join" => tx[s].demand \in DOMAIN demands
  /\ HoldsDemand(s) =>
       /\ tx[s].row = demands[tx[s].demand]
       /\ ~Refused(tx[s].row.status) /\ tx[s].row.count < tx[s].row.max
  /\ tx[s].op \in {"order", "review"} => tx[s].campaign \in DOMAIN campaigns
  /\ HoldsCampaign(s) => tx[s].row = campaigns[tx[s].campaign]
  /\ In(s, "order", "write") => CanOrder(tx[s].row, tx[s].quantity)
  /\ tx[s].op = "order" => tx[s].id \notin DOMAIN orders
  /\ tx[s].op = "offer" =>
       /\ tx[s].demand \in DOMAIN demands /\ tx[s].merchant \in DOMAIN merchants
       /\ tx[s].id \notin DOMAIN offers
  /\ tx[s].op = "campaign" =>
       tx[s].demand \in DOMAIN demands /\ tx[s].id \notin DOMAIN campaigns
  /\ In(s, "campaign", "write") =>
       /\ tx[s].offer \in DOMAIN offers
       /\ offers[tx[s].offer].demand = tx[s].demand
       /\ offers[tx[s].offer].merchant = tx[s].merchant

\* Two sessions hold no row in common and drew different identifiers.
AreApart(s, r) ==
  /\ HoldsDemand(s) /\ HoldsDemand(r) => tx[s].demand # tx[r].demand
  /\ HoldsCampaign(s) /\ HoldsCampaign(r) => tx[s].campaign # tx[r].campaign
  /\ DrewId(s) /\ DrewId(r) => tx[s].id # tx[r].id

PgInv ==
  /\ IInv
  /\ TxOK
  /\ \A s, r \in Sessions : s # r => AreApart(s, r)
  /\ \A s \in Sessions : StillTrue(s)

\* What the step of another session leaves to s: its transaction, the rows it
\* holds, its identifier, and that rows are never deleted.
Kept(s) ==
  /\ tx'[s] = tx[s]
  /\ DOMAIN demands \subseteq DOMAIN demands' /\ DOMAIN merchants \subseteq DOMAIN merchants'
  /\ DOMAIN campaigns \subseteq DOMAIN campaigns'
  /\ \A o \in DOMAIN offers :
       /\ o \in DOMAIN offers'
       /\ offers'[o].demand = offers[o].demand /\ offers'[o].merchant = offers[o].merchant
  /\ HoldsDemand(s) => demands'[tx[s].demand] = demands[tx[s].demand]
  /\ HoldsCampaign(s) => campaigns'[tx[s].campaign] = campaigns[tx[s].campaign]
  /\ tx[s].op = "order" => tx[s].id \notin DOMAIN orders' \ DOMAIN orders
  /\ tx[s].op = "offer" => tx[s].id \notin DOMAIN offers' \ DOMAIN offers
  /\ tx[s].op = "campaign" => tx[s].id \notin DOMAIN campaigns' \ DOMAIN campaigns

-----------------------------------------------------------------------------
\* Transactions.

\* The operation tells which fields a transaction has.
LEMMA TxKinds ==
  ASSUME NEW t \in Txs
  PROVE  /\ t.op = "join" => t \in JoinTx
         /\ t.op = "order" => t \in OrderTx
         /\ t.op = "review" => t \in ReviewTx
         /\ t.op = "offer" => t \in OfferTx
         /\ t.op = "campaign" => t \in CampaignTx
         /\ t.op \in {"none", "join", "order", "review", "offer", "campaign"}
BY DEF Txs, NoTx, JoinTx, OrderTx, ReviewTx, OfferTx, CampaignTx

\* The committed rows are typed.
LEMMA DemandsTyped ==
  ASSUME PgInv, NEW d \in DOMAIN demands
  PROVE  demands[d] \in Demand /\ d \in DemandIds
BY DEF PgInv, IInv, TypeOK, IsMap

\* The same of campaigns.
LEMMA CampaignsTyped ==
  ASSUME PgInv, NEW c \in DOMAIN campaigns
  PROVE  campaigns[c] \in Campaign /\ c \in CampaignIds
BY DEF PgInv, IInv, TypeOK, IsMap

\* newUUID gives nobody's identifier.
LEMMA FreshIsNew ==
  ASSUME PgInv, NEW id, Fresh(id), NEW s \in Sessions, DrewId(s)
  PROVE  tx[s].id # id
<1>1. tx[s] \in OrderTx \cup OfferTx \cup CampaignTx
  BY TxKinds DEF PgInv, TxOK, DrewId
<1>2. "id" \in DOMAIN tx[s]
  BY <1>1 DEF OrderTx, OfferTx, CampaignTx
<1> QED
  BY <1>2 DEF Fresh

\* A session may go on relying on what others leave alone.
LEMMA KeptStaysTrue ==
  ASSUME NEW s \in Sessions, StillTrue(s), Kept(s)
  PROVE  StillTrue(s)'
BY DEF StillTrue, Kept, In, HoldsDemand, HoldsCampaign

\* Statements that only read change the transaction and nothing else.
LEMMA ReadingStep ==
  ASSUME PgInv, UNCHANGED vars, NEW s \in Sessions, NEW t \in Txs, tx' = [tx EXCEPT ![s] = t],
         t.op \in {"join", "order", "review"} => (t.at = "lock") = (t.row = NoRow),
         StillTrue(s)', \A r \in Sessions : r # s => AreApart(s, r)'
  PROVE  PgInv'
<1>1. IInv'
  BY NextIInv DEF PgInv
<1>2. tx'[s] = t /\ \A r \in Sessions : r # s => tx'[r] = tx[r]
  BY DEF PgInv, TxOK
<1>3. TxOK'
  BY <1>2 DEF PgInv, TxOK
<1>4. \A q, r \in Sessions : q # r => AreApart(q, r)'
  BY <1>2 DEF PgInv, AreApart, HoldsDemand, HoldsCampaign, DrewId, In
<1>5. ASSUME NEW r \in Sessions, r # s PROVE StillTrue(r)'
  <2>1. Kept(r)
    BY <1>2, <1>5 DEF Kept, vars
  <2> QED
    BY <2>1, KeptStaysTrue DEF PgInv
<1> QED
  BY <1>1, <1>3, <1>4, <1>5 DEF PgInv

\* A transaction that ends, with or without effects, is forgotten.
LEMMA EndingStep ==
  ASSUME PgInv, IInv', NEW s \in Sessions, Ends(s), \A r \in Sessions : r # s => Kept(r)
  PROVE  PgInv'
<1>1. tx'[s] = NoTx /\ \A r \in Sessions : r # s => tx'[r] = tx[r]
  BY DEF PgInv, TxOK, Ends
<1>2. TxOK'
  BY <1>1 DEF PgInv, TxOK, Ends, Txs, NoTx
<1>3. \A q, r \in Sessions : q # r => AreApart(q, r)'
  BY <1>1 DEF PgInv, AreApart, HoldsDemand, HoldsCampaign, DrewId, In, NoTx
<1>4. StillTrue(s)'
  BY <1>1 DEF StillTrue, HoldsDemand, HoldsCampaign, In, NoTx
<1> QED
  BY <1>2, <1>3, <1>4, KeptStaysTrue DEF PgInv

\* A refused call, or one that is cut off, ends without effects.
LEMMA RefusingStep ==
  ASSUME PgInv, UNCHANGED vars, NEW s \in Sessions, Ends(s)
  PROVE  PgInv'
<1>1. IInv'
  BY NextIInv DEF PgInv
<1>2. \A r \in Sessions : r # s => Kept(r)
  BY DEF PgInv, TxOK, Ends, Kept, vars
<1> QED
  BY <1>1, <1>2, EndingStep

-----------------------------------------------------------------------------
\* Statements that read.

\* The five operations begin.
LEMMA StartStep ==
  ASSUME PgInv, NEW s \in Sessions, Start(s)
  PROVE  PgInv'
<1>1. ASSUME NEW d \in DemandIds, NEW u \in Users, BeginJoin(s, d, u)
      PROVE  PgInv'
  <2> DEFINE t == [op |-> "join", at |-> "lock", demand |-> d, user |-> u, row |-> NoRow]
  <2>1. t \in Txs /\ t.op = "join" /\ t.at = "lock" /\ t.row = NoRow /\ t.demand = d
    BY DEF Txs, JoinTx
  <2>2. d \in DOMAIN demands /\ tx' = [tx EXCEPT ![s] = t] /\ UNCHANGED vars
    BY <1>1 DEF BeginJoin, Begin
  <2> HIDE DEF t
  <2>3. tx'[s] = t
    BY <2>2 DEF PgInv, TxOK
  <2>4. StillTrue(s)'
    BY <2>1, <2>2, <2>3 DEF StillTrue, HoldsDemand, HoldsCampaign, In, vars
  <2>5. \A r \in Sessions : r # s => AreApart(s, r)'
    BY <2>1, <2>3 DEF AreApart, HoldsDemand, HoldsCampaign, DrewId, In
  <2> QED
    BY <2>1, <2>2, <2>4, <2>5, ReadingStep
<1>2. ASSUME NEW x \in OrderIds, NEW c \in CampaignIds,
             NEW quantity \in Quantities, BeginOrder(s, x, c, quantity)
      PROVE  PgInv'
  <2> DEFINE t == [op |-> "order", at |-> "lock", id |-> x, campaign |-> c,
                   quantity |-> quantity, row |-> NoRow]
  <2>1. /\ t \in Txs /\ t.op = "order" /\ t.at = "lock" /\ t.row = NoRow /\ t.campaign = c
        /\ t.id = x
    BY DEF Txs, OrderTx
  <2>2. c \in DOMAIN campaigns /\ Fresh(x) /\ tx' = [tx EXCEPT ![s] = t] /\ UNCHANGED vars
    BY <1>2 DEF BeginOrder, Begin
  <2> HIDE DEF t
  <2>3. tx'[s] = t
    BY <2>2 DEF PgInv, TxOK
  <2>4. StillTrue(s)'
    BY <2>1, <2>2, <2>3 DEF StillTrue, HoldsDemand, HoldsCampaign, In, vars, Fresh
  <2>5. \A r \in Sessions : r # s => AreApart(s, r)'
    BY <2>1, <2>2, <2>3, FreshIsNew DEF AreApart, HoldsDemand, HoldsCampaign, DrewId, In
  <2> QED
    BY <2>1, <2>2, <2>4, <2>5, ReadingStep
<1>3. ASSUME NEW c \in CampaignIds, NEW decision \in CampaignDecisions,
             BeginReview(s, c, decision)
      PROVE  PgInv'
  <2> DEFINE t == [op |-> "review", at |-> "lock", campaign |-> c, decision |-> decision,
                   row |-> NoRow]
  <2>1. /\ t \in Txs /\ t.op = "review" /\ t.at = "lock" /\ t.row = NoRow /\ t.campaign = c
    BY DEF Txs, ReviewTx
  <2>2. c \in DOMAIN campaigns /\ tx' = [tx EXCEPT ![s] = t] /\ UNCHANGED vars
    BY <1>3 DEF BeginReview, Begin
  <2> HIDE DEF t
  <2>3. tx'[s] = t
    BY <2>2 DEF PgInv, TxOK
  <2>4. StillTrue(s)'
    BY <2>1, <2>2, <2>3 DEF StillTrue, HoldsDemand, HoldsCampaign, In, vars
  <2>5. \A r \in Sessions : r # s => AreApart(s, r)'
    BY <2>1, <2>3 DEF AreApart, HoldsDemand, HoldsCampaign, DrewId, In
  <2> QED
    BY <2>1, <2>2, <2>4, <2>5, ReadingStep
<1>4. ASSUME NEW o \in OfferIds, NEW d \in DemandIds, NEW m \in Merchants,
             BeginOffer(s, o, d, m)
      PROVE  PgInv'
  <2> DEFINE t == [op |-> "offer", at |-> "demand", id |-> o, demand |-> d, merchant |-> m]
  <2>1. /\ t \in Txs /\ t.op = "offer" /\ t.id = o /\ t.demand = d /\ t.merchant = m
    BY DEF Txs, OfferTx
  <2>2. /\ d \in DOMAIN demands /\ m \in DOMAIN merchants /\ Fresh(o)
        /\ tx' = [tx EXCEPT ![s] = t] /\ UNCHANGED vars
    BY <1>4 DEF BeginOffer, Begin
  <2> HIDE DEF t
  <2>3. tx'[s] = t
    BY <2>2 DEF PgInv, TxOK
  <2>4. StillTrue(s)'
    BY <2>1, <2>2, <2>3 DEF StillTrue, HoldsDemand, HoldsCampaign, In, vars, Fresh
  <2>5. \A r \in Sessions : r # s => AreApart(s, r)'
    BY <2>1, <2>2, <2>3, FreshIsNew DEF AreApart, HoldsDemand, HoldsCampaign, DrewId, In
  <2> QED
    BY <2>1, <2>2, <2>4, <2>5, ReadingStep
<1>5. ASSUME NEW c \in CampaignIds, NEW o \in OfferIds, NEW d \in DemandIds,
             NEW m \in Merchants, NEW limit \in OrderLimits,
             BeginCampaign(s, c, o, d, m, limit)
      PROVE  PgInv'
  <2> DEFINE t == [op |-> "campaign", at |-> "demand", id |-> c, demand |-> d, offer |-> o,
                   merchant |-> m, limit |-> limit]
  <2>1. /\ t \in Txs /\ t.op = "campaign" /\ t.at = "demand" /\ t.id = c /\ t.demand = d
    BY DEF Txs, CampaignTx
  <2>2. /\ d \in DOMAIN demands /\ Fresh(c)
        /\ tx' = [tx EXCEPT ![s] = t] /\ UNCHANGED vars
    BY <1>5 DEF BeginCampaign, Begin
  <2> HIDE DEF t
  <2>3. tx'[s] = t
    BY <2>2 DEF PgInv, TxOK
  <2>4. StillTrue(s)'
    BY <2>1, <2>2, <2>3 DEF StillTrue, HoldsDemand, HoldsCampaign, In, vars, Fresh
  <2>5. \A r \in Sessions : r # s => AreApart(s, r)'
    BY <2>1, <2>2, <2>3, FreshIsNew DEF AreApart, HoldsDemand, HoldsCampaign, DrewId, In
  <2> QED
    BY <2>1, <2>2, <2>4, <2>5, ReadingStep
<1> QED
  BY <1>1, <1>2, <1>3, <1>4, <1>5 DEF Start

\* SELECT ... FOR UPDATE of the demand (AddDemandMember).
LEMMA LockDemandStep ==
  ASSUME PgInv, NEW s \in Sessions, LockDemand(s)
  PROVE  PgInv'
<1> DEFINE row == demands[tx[s].demand]
           t == [tx[s] EXCEPT !.at = "write", !.row = row]
<1>1. tx[s] \in JoinTx /\ tx[s].op = "join" /\ tx[s].at = "lock" /\ UNCHANGED vars
  BY TxKinds DEF PgInv, TxOK, LockDemand, In
<1>2. CASE Ends(s)
  BY <1>1, <1>2, RefusingStep
<1>3. CASE ~Refused(row.status) /\ ~(row.count >= row.max) /\ Locks(s, "write", row)
  <2>1. tx[s].demand \in DOMAIN demands
    BY <1>1 DEF PgInv, StillTrue
  <2>2. row \in Demand /\ row # NoRow /\ row.count < row.max
    BY <1>3, <2>1, DemandsTyped, NoRowAssumption DEF Demand
  <2>3. /\ t \in Txs /\ t.op = "join" /\ t.at = "write" /\ t.row = row
        /\ t.demand = tx[s].demand
    BY <1>1, <2>2 DEF Txs, JoinTx
  <2>4. tx' = [tx EXCEPT ![s] = t] /\ tx'[s] = t
    BY <1>3 DEF PgInv, TxOK, Locks
  <2> HIDE DEF t
  <2>5. StillTrue(s)'
    BY <1>1, <1>3, <2>1, <2>2, <2>3, <2>4
    DEF StillTrue, HoldsDemand, HoldsCampaign, In, vars
  <2>6. \A r \in Sessions : r # s => AreApart(s, r)'
    BY <2>3, <2>4, <1>1 DEF PgInv, TxOK, AreApart, HoldsDemand, HoldsCampaign, DrewId, In,
       LockDemand, DemandFree
  <2> QED
    BY <1>1, <2>2, <2>3, <2>4, <2>5, <2>6, ReadingStep
<1> QED
  BY <1>2, <1>3 DEF LockDemand

\* SELECT ... FOR UPDATE of the campaign (CreateOrder).
LEMMA LockOrderedStep ==
  ASSUME PgInv, NEW s \in Sessions, LockOrdered(s)
  PROVE  PgInv'
<1> DEFINE row == campaigns[tx[s].campaign]
           t == [tx[s] EXCEPT !.at = "write", !.row = row]
<1>1. tx[s] \in OrderTx /\ tx[s].op = "order" /\ tx[s].at = "lock" /\ UNCHANGED vars
  BY TxKinds DEF PgInv, TxOK, LockOrdered, In
<1>2. CASE Ends(s)
  BY <1>1, <1>2, RefusingStep
<1>3. CASE CanOrder(row, tx[s].quantity) /\ Locks(s, "write", row)
  <2>1. tx[s].campaign \in DOMAIN campaigns
    BY <1>1 DEF PgInv, StillTrue
  <2>2. row \in Campaign /\ row # NoRow
    BY <2>1, CampaignsTyped, NoRowAssumption
  <2>3. /\ t \in Txs /\ t.op = "order" /\ t.at = "write" /\ t.row = row
        /\ t.campaign = tx[s].campaign /\ t.quantity = tx[s].quantity /\ t.id = tx[s].id
    BY <1>1, <2>2 DEF Txs, OrderTx
  <2>4. tx' = [tx EXCEPT ![s] = t] /\ tx'[s] = t
    BY <1>3 DEF PgInv, TxOK, Locks
  <2> HIDE DEF t
  <2>5. StillTrue(s)'
    BY <1>1, <1>3, <2>1, <2>2, <2>3, <2>4
    DEF PgInv, StillTrue, HoldsDemand, HoldsCampaign, In, vars
  <2>6. \A r \in Sessions : r # s => AreApart(s, r)'
    BY <2>3, <2>4, <1>1 DEF PgInv, TxOK, AreApart, HoldsDemand, HoldsCampaign, DrewId, In,
       LockOrdered, CampaignFree
  <2> QED
    BY <1>1, <2>2, <2>3, <2>4, <2>5, <2>6, ReadingStep
<1> QED
  BY <1>2, <1>3 DEF LockOrdered

\* SELECT ... FOR UPDATE of the campaign (ReviewCampaign).
LEMMA LockReviewedStep ==
  ASSUME PgInv, NEW s \in Sessions, LockReviewed(s)
  PROVE  PgInv'
<1> DEFINE row == campaigns[tx[s].campaign]
<1>1. tx[s] \in ReviewTx /\ tx[s].op = "review" /\ tx[s].at = "lock" /\ UNCHANGED vars
  BY TxKinds DEF PgInv, TxOK, LockReviewed, In
<1>2. PICK at \in {"check", "write"} : Locks(s, at, row)
  BY DEF LockReviewed
<1> DEFINE t == [tx[s] EXCEPT !.at = at, !.row = row]
<1>3. tx[s].campaign \in DOMAIN campaigns
  BY <1>1 DEF PgInv, StillTrue
<1>4. row \in Campaign /\ row # NoRow
  BY <1>3, CampaignsTyped, NoRowAssumption
<1>5. /\ t \in Txs /\ t.op = "review" /\ t.at = at /\ t.row = row
      /\ t.campaign = tx[s].campaign
  BY <1>1, <1>4 DEF Txs, ReviewTx
<1>6. tx' = [tx EXCEPT ![s] = t] /\ tx'[s] = t
  BY <1>2 DEF PgInv, TxOK, Locks
<1> HIDE DEF t
<1>7. StillTrue(s)'
  BY <1>1, <1>3, <1>4, <1>5, <1>6
  DEF PgInv, StillTrue, HoldsDemand, HoldsCampaign, In, vars
<1>8. \A r \in Sessions : r # s => AreApart(s, r)'
  BY <1>1, <1>5, <1>6 DEF PgInv, TxOK, AreApart, HoldsDemand, HoldsCampaign, DrewId, In,
     LockReviewed, CampaignFree
<1> QED
  BY <1>1, <1>4, <1>5, <1>6, <1>7, <1>8, ReadingStep

\* The demand is read without a lock, and the offer is updated, while the
\* campaign is held (ReviewCampaign).
LEMMA CheckAndAcceptStep ==
  ASSUME PgInv, NEW s \in Sessions, CheckDemand(s) \/ AcceptOffer(s)
  PROVE  PgInv'
<1>1. /\ tx[s] \in ReviewTx /\ tx[s].op = "review" /\ tx[s].at \in {"check", "accept"}
      /\ UNCHANGED vars
  BY TxKinds DEF PgInv, TxOK, CheckDemand, AcceptOffer, In
<1>2. CASE Ends(s)
  BY <1>1, <1>2, RefusingStep
<1>3. ASSUME NEW at \in {"accept", "write"}, Goes(s, at)
      PROVE  PgInv'
  <2> DEFINE t == [tx[s] EXCEPT !.at = at]
  <2>1. /\ t \in Txs /\ t.op = "review" /\ t.at = at /\ t.row = tx[s].row
        /\ t.campaign = tx[s].campaign /\ t.row # NoRow
    BY <1>1 DEF PgInv, TxOK, Txs, ReviewTx
  <2>2. tx' = [tx EXCEPT ![s] = t] /\ tx'[s] = t
    BY <1>3 DEF PgInv, TxOK, Goes
  <2> HIDE DEF t
  <2>3. StillTrue(s)'
    BY <1>1, <2>1, <2>2 DEF PgInv, StillTrue, HoldsDemand, HoldsCampaign, In, vars
  <2>4. \A r \in Sessions : r # s => AreApart(s, r)'
    BY <1>1, <2>1, <2>2 DEF PgInv, TxOK, AreApart, HoldsDemand, HoldsCampaign, DrewId, In
  <2> QED
    BY <1>1, <2>1, <2>2, <2>3, <2>4, ReadingStep
<1> QED
  BY <1>2, <1>3 DEF CheckDemand, AcceptOffer

\* The reads of CreateOffer and CreateCampaign before their INSERT.
LEMMA UnlockedReadStep ==
  ASSUME PgInv, NEW s \in Sessions, ReadDemand(s) \/ ReadMerchant(s) \/ ReadOffer(s)
  PROVE  PgInv'
<1>1. /\ tx[s].op \in {"offer", "campaign"} /\ tx[s] \in OfferTx \cup CampaignTx
      /\ UNCHANGED vars
  BY TxKinds DEF PgInv, TxOK, ReadDemand, ReadMerchant, ReadOffer, In
<1>2. CASE Ends(s)
  BY <1>1, <1>2, RefusingStep
<1>3. CASE \E at \in {"merchant", "offer", "write"} :
             /\ Goes(s, at)
             /\ tx[s].op = "offer" => at # "offer"
             /\ tx[s].op = "campaign" => at # "merchant"
             /\ tx[s].op = "campaign" /\ at = "write" =>
                  /\ tx[s].offer \in DOMAIN offers
                  /\ offers[tx[s].offer].demand = tx[s].demand
                  /\ offers[tx[s].offer].merchant = tx[s].merchant
  <2>1. PICK at \in {"merchant", "offer", "write"} :
          /\ Goes(s, at)
          /\ tx[s].op = "offer" => at # "offer"
          /\ tx[s].op = "campaign" => at # "merchant"
          /\ tx[s].op = "campaign" /\ at = "write" =>
               /\ tx[s].offer \in DOMAIN offers
               /\ offers[tx[s].offer].demand = tx[s].demand
               /\ offers[tx[s].offer].merchant = tx[s].merchant
    BY <1>3
  <2> DEFINE t == [tx[s] EXCEPT !.at = at]
  <2>2. /\ t \in Txs /\ t.op = tx[s].op /\ t.at = at /\ t.id = tx[s].id
        /\ t.demand = tx[s].demand /\ t.merchant = tx[s].merchant
        /\ t.op = "campaign" => t.offer = tx[s].offer
    BY <1>1, <2>1 DEF Txs, OfferTx, CampaignTx
  <2>3. tx' = [tx EXCEPT ![s] = t] /\ tx'[s] = t
    BY <2>1 DEF PgInv, TxOK, Goes
  <2> HIDE DEF t
  <2>4. StillTrue(s)'
    BY <1>1, <2>1, <2>2, <2>3 DEF PgInv, StillTrue, HoldsDemand, HoldsCampaign, In, vars
  <2>5. \A r \in Sessions : r # s => AreApart(s, r)'
    BY <1>1, <2>2, <2>3 DEF PgInv, TxOK, AreApart, HoldsDemand, HoldsCampaign, DrewId, In
  <2> QED
    BY <1>1, <2>2, <2>3, <2>4, <2>5, ReadingStep
<1> QED
  BY <1>2, <1>3 DEF ReadDemand, ReadMerchant, ReadOffer, In

-----------------------------------------------------------------------------
\* Statements that write.

\* Operations of one statement are operations of Market; a review waits for
\* whoever holds the demand.
LEMMA OneStatementStep ==
  ASSUME PgInv, OneStatement
  PROVE  Next /\ PgInv'
<1>1. Next /\ tx' = tx
  BY MerchantReviewsAssumption DEF OneStatement, Next, PgReviewDemand
<1>2. IInv'
  BY <1>1, NextIInv DEF PgInv
<1>3. ASSUME NEW r \in Sessions PROVE Kept(r)
  <2>1. CASE \E m \in Merchants : CreateOrGetMerchant(m)
    BY <1>1, <2>1 DEF Kept, CreateOrGetMerchant, Put
  <2>2. CASE \E m \in Merchants, decision \in MerchantReviews : ReviewMerchant(m, decision)
    BY <1>1, <2>2 DEF Kept, ReviewMerchant, Put
  <2>3. CASE \E d \in DemandIds, u \in Users, spec \in Specs, limit \in MemberLimits :
               CreateDemand(d, u, spec, limit)
    <3>1. /\ DOMAIN demands \subseteq DOMAIN demands'
          /\ \A k \in DOMAIN demands : demands'[k] = demands[k]
          /\ UNCHANGED <<merchants, members, offers, campaigns, orders>>
      BY <2>3 DEF CreateDemand, Put
    <3>2. HoldsDemand(r) => tx[r].demand \in DOMAIN demands
      BY DEF PgInv, StillTrue, HoldsDemand, In
    <3> QED
      BY <1>1, <3>1, <3>2 DEF Kept
  <2>4. CASE \E d \in DemandIds, decision \in DemandDecisions : PgReviewDemand(d, decision)
    <3>1. PICK d \in DemandIds, decision \in DemandDecisions : PgReviewDemand(d, decision)
      BY <2>4
    <3>2. HoldsDemand(r) => tx[r].demand # d
      BY <3>1 DEF PgReviewDemand, DemandFree, HoldsDemand
    <3>3. /\ DOMAIN demands' = DOMAIN demands
          /\ \A k \in DOMAIN demands : k # d => demands'[k] = demands[k]
          /\ UNCHANGED <<merchants, members, offers, campaigns, orders>>
      BY <3>1 DEF PgReviewDemand, ReviewDemand, Put
    <3>4. HoldsDemand(r) => tx[r].demand \in DOMAIN demands
      BY DEF PgInv, StillTrue, HoldsDemand, In
    <3> QED
      BY <1>1, <3>2, <3>3, <3>4 DEF Kept
  <2> QED
    BY <2>1, <2>2, <2>3, <2>4 DEF OneStatement
<1>4. /\ TxOK' /\ \A s, r \in Sessions : s # r => AreApart(s, r)'
  BY <1>1 DEF PgInv, TxOK, AreApart, HoldsDemand, HoldsCampaign, DrewId, In
<1> QED
  BY <1>1, <1>2, <1>3, <1>4, KeptStaysTrue DEF PgInv

\* The row a join or an order read is still the committed row, so its commit is
\* the operation of Market (AddDemandMember).
LEMMA CommitJoinStep ==
  ASSUME PgInv, NEW s \in Sessions, CommitJoin(s)
  PROVE  [Next]_vars /\ PgInv'
<1> DEFINE d == tx[s].demand
           u == tx[s].user
<1>1. tx[s] \in JoinTx /\ HoldsDemand(s) /\ Ends(s) /\ tx[s].op = "join"
  BY TxKinds DEF PgInv, TxOK, CommitJoin, In, HoldsDemand
<1>2. /\ d \in DOMAIN demands /\ tx[s].row = demands[d]
      /\ ~Refused(demands[d].status) /\ demands[d].count < demands[d].max
  BY <1>1 DEF PgInv, StillTrue
<1>3. CASE UNCHANGED vars
  BY <1>1, <1>3, RefusingStep
<1>4. CASE <<d, u>> \notin members
  <2> DEFINE row == WithMember(demands[d])
  <2>1. /\ members' = members \cup {<<d, u>>}
        /\ demands' = Put(demands, d, [demands[d] EXCEPT !.count = row.count, !.status = row.status])
        /\ UNCHANGED <<merchants, offers, campaigns, orders>>
    BY <1>2, <1>4 DEF CommitJoin
  <2>2. [demands[d] EXCEPT !.count = row.count, !.status = row.status] = row
    BY <1>2, DemandsTyped DEF WithMember, Demand
  <2>3. AddDemandMember(d, u)
    BY <1>2, <1>4, <2>1, <2>2 DEF AddDemandMember, CanJoin
  <2>4. d \in DemandIds /\ u \in Users
    BY <1>1, <1>2, DemandsTyped DEF JoinTx
  <2>5. Next
    BY <2>3, <2>4 DEF Next
  <2>6. IInv'
    BY <2>5, NextIInv DEF PgInv
  <2>7. ASSUME NEW r \in Sessions, r # s PROVE Kept(r)
    <3>1. tx'[r] = tx[r]
      BY <1>1, <2>7 DEF PgInv, TxOK, Ends
    <3>2. HoldsDemand(r) => tx[r].demand # d
      BY <1>1, <2>7 DEF PgInv, AreApart
    <3>3. /\ DOMAIN demands' = DOMAIN demands
          /\ \A k \in DOMAIN demands : k # d => demands'[k] = demands[k]
      BY <1>2, <2>1 DEF Put
    <3>4. HoldsDemand(r) => tx[r].demand \in DOMAIN demands
      BY DEF PgInv, StillTrue, HoldsDemand, In
    <3> QED
      BY <2>1, <3>1, <3>2, <3>3, <3>4 DEF Kept
  <2> QED
    BY <1>1, <2>5, <2>6, <2>7, EndingStep
<1> QED
  BY <1>3, <1>4 DEF CommitJoin

\* The same of an order (CreateOrder).
LEMMA CommitOrderStep ==
  ASSUME PgInv, NEW s \in Sessions, CommitOrder(s)
  PROVE  Next /\ PgInv'
<1> DEFINE c == tx[s].campaign
           quantity == tx[s].quantity
           order == [campaign |-> c, quantity |-> quantity]
<1>1. /\ tx[s] \in OrderTx /\ HoldsCampaign(s) /\ Ends(s) /\ tx[s].op = "order"
      /\ In(s, "order", "write")
  BY TxKinds DEF PgInv, TxOK, CommitOrder, In, HoldsCampaign
<1>2. /\ c \in DOMAIN campaigns /\ tx[s].row = campaigns[c] /\ CanOrder(campaigns[c], quantity)
      /\ tx[s].id \notin DOMAIN orders
  BY <1>1 DEF PgInv, StillTrue
<1>3. quantity \in Nat /\ campaigns[c] \in Campaign
  BY <1>1, <1>2, CampaignsTyped, QuantitiesAssumption DEF OrderTx
<1> DEFINE row == WithOrder(campaigns[c], quantity)
<1>4. /\ orders' = Put(orders, tx[s].id, order)
      /\ campaigns' = Put(campaigns, c,
           [campaigns[c] EXCEPT !.current = row.current, !.status = row.status])
      /\ UNCHANGED <<merchants, demands, members, offers>>
  BY <1>2 DEF CommitOrder
<1>5. [campaigns[c] EXCEPT !.current = row.current, !.status = row.status] = row
  BY <1>3 DEF WithOrder, Campaign
<1>6. CreateOrder(tx[s].id, c, quantity)
  BY <1>2, <1>4, <1>5 DEF CreateOrder
<1>7. Next
  BY <1>1, <1>6 DEF Next, OrderTx
<1>8. IInv'
  BY <1>7, NextIInv DEF PgInv
<1>9. ASSUME NEW r \in Sessions, r # s PROVE Kept(r)
  <2>1. tx'[r] = tx[r]
    BY <1>1, <1>9 DEF PgInv, TxOK, Ends
  <2>2. HoldsCampaign(r) => tx[r].campaign # c
    BY <1>1, <1>9 DEF PgInv, AreApart
  <2>3. tx[r].op = "order" => tx[r].id # tx[s].id
    BY <1>1, <1>9 DEF PgInv, AreApart, DrewId
  <2>4. DOMAIN orders' = DOMAIN orders \cup {tx[s].id} /\ DOMAIN campaigns' = DOMAIN campaigns
    BY <1>2, <1>4 DEF Put
  <2>5. \A k \in DOMAIN campaigns : k # c => campaigns'[k] = campaigns[k]
    BY <1>4 DEF Put
  <2>6. HoldsCampaign(r) => tx[r].campaign \in DOMAIN campaigns
    BY DEF PgInv, StillTrue, HoldsCampaign
  <2> QED
    BY <1>4, <2>1, <2>2, <2>3, <2>4, <2>5, <2>6 DEF Kept
<1> QED
  BY <1>1, <1>7, <1>8, <1>9, EndingStep

\* A review writes the campaign it read and accepts the offer it stands on; the
\* demand may have been closed since it was read (ReviewCampaign).
LEMMA CommitReviewStep ==
  ASSUME PgInv, NEW s \in Sessions, CommitReview(s)
  PROVE  /\ PgInv' /\ UNCHANGED <<merchants, demands, members, orders>>
         /\ DOMAIN campaigns' = DOMAIN campaigns
         /\ \A k \in DOMAIN campaigns : /\ campaigns'[k].max = campaigns[k].max
                                        /\ campaigns'[k].current = campaigns[k].current
<1> DEFINE c == tx[s].campaign
           o == campaigns[c].offer
<1>1. tx[s] \in ReviewTx /\ HoldsCampaign(s) /\ Ends(s) /\ tx[s].op = "review"
  BY TxKinds DEF PgInv, TxOK, CommitReview, In, HoldsCampaign
<1>2. c \in DOMAIN campaigns /\ tx[s].row = campaigns[c] /\ tx[s].decision \in {"OPEN", "CANCELLED"}
  BY <1>1 DEF PgInv, StillTrue, ReviewTx, CampaignDecisions
<1>3. /\ campaigns[c] \in Campaign /\ c \in CampaignIds
      /\ o \in DOMAIN offers /\ offers[o] \in Offer /\ o \in OfferIds
  BY <1>2, CampaignsTyped DEF PgInv, IInv, TypeOK, IsMap, CampaignStandsOnItsOffer
<1> DEFINE row   == [campaigns[c] EXCEPT !.status = tx[s].decision]
           offer == [offers[o] EXCEPT !.status = "ACCEPTED"]
<1>4. /\ row \in Campaign /\ row.status = tx[s].decision /\ row.max = campaigns[c].max
      /\ row.current = campaigns[c].current /\ row.offer = o
      /\ row.demand = campaigns[c].demand /\ row.merchant = campaigns[c].merchant
  BY <1>2, <1>3 DEF Campaign, CampaignStatus
<1>5. /\ offer \in Offer /\ offer.status = "ACCEPTED" /\ offer.demand = offers[o].demand
      /\ offer.merchant = offers[o].merchant
  BY <1>3 DEF Offer, OfferStatus
<1>6. /\ campaigns' = Put(campaigns, c, row)
      /\ offers' = IF tx[s].decision = "OPEN" THEN Put(offers, o, offer) ELSE offers
      /\ UNCHANGED <<merchants, demands, members, orders>>
  BY <1>2 DEF CommitReview
<1> HIDE DEF row, offer
<1>7. /\ DOMAIN campaigns' = DOMAIN campaigns /\ campaigns'[c] = row
      /\ \A k \in DOMAIN campaigns : k # c => campaigns'[k] = campaigns[k]
  BY <1>2, <1>6 DEF Put
<1>8. /\ DOMAIN offers' = DOMAIN offers
      /\ tx[s].decision = "OPEN" => offers'[o] = offer
      /\ tx[s].decision # "OPEN" => offers'[o] = offers[o]
      /\ \A k \in DOMAIN offers : k # o => offers'[k] = offers[k]
  BY <1>3, <1>6 DEF Put
<1>9. TypeOK'
  <2>1. IsMap(campaigns, CampaignIds, Campaign)' /\ IsMap(offers, OfferIds, Offer)'
    BY <1>3, <1>4, <1>5, <1>6, PutIsMap DEF PgInv, IInv, TypeOK
  <2> QED
    BY <1>6, <2>1 DEF PgInv, IInv, TypeOK
<1>10. CampaignStandsOnItsOffer'
  <2> SUFFICES ASSUME NEW k \in DOMAIN campaigns
               PROVE  /\ campaigns'[k].offer \in DOMAIN offers'
                      /\ offers'[campaigns'[k].offer].demand = campaigns'[k].demand
                      /\ offers'[campaigns'[k].offer].merchant = campaigns'[k].merchant
                      /\ campaigns'[k].status \in {"OPEN", "SOLD_OUT"}
                           => offers'[campaigns'[k].offer].status = "ACCEPTED"
    BY <1>7 DEF CampaignStandsOnItsOffer
  <2>1. /\ campaigns[k].offer \in DOMAIN offers
        /\ offers[campaigns[k].offer].demand = campaigns[k].demand
        /\ offers[campaigns[k].offer].merchant = campaigns[k].merchant
        /\ campaigns[k].status \in {"OPEN", "SOLD_OUT"}
             => offers[campaigns[k].offer].status = "ACCEPTED"
    BY DEF PgInv, IInv, CampaignStandsOnItsOffer
  <2>2. CASE k = c
    BY <1>2, <1>4, <1>5, <1>7, <1>8, <2>1, <2>2
  <2>3. CASE k # c
    BY <1>5, <1>7, <1>8, <2>1, <2>3
  <2> QED
    BY <2>2, <2>3
<1>11. SoldOutExactlyWhenFull'
  BY <1>2, <1>4, <1>7 DEF PgInv, IInv, SoldOutExactlyWhenFull
<1>12. IInv'
  BY <1>6, <1>9, <1>10, <1>11 DEF PgInv, IInv, ReadyMeansMinimumMet, MembersFinite,
     MemberCountExact, MembersOf
<1>13. ASSUME NEW r \in Sessions, r # s PROVE Kept(r)
  <2>1. tx'[r] = tx[r]
    BY <1>1, <1>13 DEF PgInv, TxOK, Ends
  <2>2. HoldsCampaign(r) => tx[r].campaign # c /\ tx[r].campaign \in DOMAIN campaigns
    BY <1>1, <1>13 DEF PgInv, AreApart, StillTrue, HoldsCampaign
  <2> QED
    BY <1>5, <1>6, <1>7, <1>8, <2>1, <2>2 DEF Kept
<1>14. PgInv'
  BY <1>1, <1>12, <1>13, EndingStep
<1> QED
  BY <1>4, <1>6, <1>7, <1>14

\* A new offer leaves all others as they are (CreateOffer).
LEMMA InsertOfferStep ==
  ASSUME PgInv, NEW s \in Sessions, InsertOffer(s)
  PROVE  PgInv' /\ UNCHANGED <<merchants, demands, members, campaigns, orders>>
<1> DEFINE row == [status |-> "SUBMITTED", demand |-> tx[s].demand, merchant |-> tx[s].merchant]
<1>1. /\ tx[s] \in OfferTx /\ Ends(s) /\ tx[s].op = "offer" /\ tx[s].id \notin DOMAIN offers
  BY TxKinds DEF PgInv, TxOK, InsertOffer, In, StillTrue
<1>2. row \in Offer /\ tx[s].id \in OfferIds
  BY <1>1 DEF Offer, OfferTx, OfferStatus
<1>3. /\ offers' = Put(offers, tx[s].id, row)
      /\ UNCHANGED <<merchants, demands, members, campaigns, orders>>
  BY DEF InsertOffer
<1> HIDE DEF row
<1>4. /\ DOMAIN offers' = DOMAIN offers \cup {tx[s].id}
      /\ \A k \in DOMAIN offers : offers'[k] = offers[k]
  BY <1>1, <1>3 DEF Put
<1>5. TypeOK'
  BY <1>2, <1>3, PutIsMap DEF PgInv, IInv, TypeOK
<1>6. CampaignStandsOnItsOffer'
  BY <1>3, <1>4 DEF PgInv, IInv, CampaignStandsOnItsOffer
<1>7. IInv'
  BY <1>3, <1>5, <1>6 DEF PgInv, IInv, ReadyMeansMinimumMet, SoldOutExactlyWhenFull,
     MembersFinite, MemberCountExact, MembersOf
<1>8. ASSUME NEW r \in Sessions, r # s PROVE Kept(r)
  <2>1. tx'[r] = tx[r]
    BY <1>1, <1>8 DEF PgInv, TxOK, Ends
  <2>2. tx[r].op = "offer" => tx[r].id # tx[s].id
    BY <1>1, <1>8 DEF PgInv, AreApart, DrewId
  <2> QED
    BY <1>3, <1>4, <2>1, <2>2 DEF Kept
<1> QED
  BY <1>1, <1>3, <1>7, <1>8, EndingStep

\* A new campaign stands on an offer of its merchant for its demand and has sold
\* nothing (CreateCampaign).
LEMMA InsertCampaignStep ==
  ASSUME PgInv, NEW s \in Sessions, InsertCampaign(s)
  PROVE  /\ PgInv' /\ UNCHANGED <<merchants, demands, members, offers, orders>>
         /\ tx[s].id \in CampaignIds \ DOMAIN campaigns /\ tx[s].limit \in OrderLimits
         /\ DOMAIN campaigns' = DOMAIN campaigns \cup {tx[s].id}
         /\ campaigns'[tx[s].id].max = tx[s].limit.max /\ campaigns'[tx[s].id].current = 0
         /\ \A k \in DOMAIN campaigns : campaigns'[k] = campaigns[k]
<1> DEFINE c   == tx[s].id
           row == [status |-> "PENDING_REVIEW", demand |-> tx[s].demand, offer |-> tx[s].offer,
                   merchant |-> tx[s].merchant, min |-> tx[s].limit.min,
                   max |-> tx[s].limit.max, current |-> 0]
<1>1. /\ tx[s] \in CampaignTx /\ Ends(s) /\ tx[s].op = "campaign" /\ c \notin DOMAIN campaigns
      /\ tx[s].offer \in DOMAIN offers
      /\ offers[tx[s].offer].demand = tx[s].demand /\ offers[tx[s].offer].merchant = tx[s].merchant
  BY TxKinds DEF PgInv, TxOK, InsertCampaign, In, StillTrue
<1>2. tx[s].limit \in OrderLimits /\ tx[s].limit \in Limit /\ c \in CampaignIds
  BY <1>1, LimitsAssumption DEF CampaignTx
<1>3. /\ row \in Campaign /\ row.status = "PENDING_REVIEW" /\ row.offer = tx[s].offer
      /\ row.demand = tx[s].demand /\ row.merchant = tx[s].merchant
      /\ row.max = tx[s].limit.max /\ row.current = 0 /\ row.max \in Nat
  BY <1>1, <1>2 DEF Campaign, CampaignTx, CampaignStatus, Limit
<1>4. /\ campaigns' = Put(campaigns, c, row)
      /\ UNCHANGED <<merchants, demands, members, offers, orders>>
  BY DEF InsertCampaign
<1> HIDE DEF row
<1>5. /\ DOMAIN campaigns' = DOMAIN campaigns \cup {c} /\ campaigns'[c] = row
      /\ \A k \in DOMAIN campaigns : campaigns'[k] = campaigns[k]
  BY <1>1, <1>4 DEF Put
<1>6. TypeOK'
  BY <1>2, <1>3, <1>4, PutIsMap DEF PgInv, IInv, TypeOK
<1>7. CampaignStandsOnItsOffer'
  BY <1>1, <1>3, <1>4, <1>5 DEF PgInv, IInv, CampaignStandsOnItsOffer
<1>8. SoldOutExactlyWhenFull'
  BY <1>3, <1>5 DEF PgInv, IInv, SoldOutExactlyWhenFull
<1>9. IInv'
  BY <1>4, <1>6, <1>7, <1>8 DEF PgInv, IInv, ReadyMeansMinimumMet, MembersFinite,
     MemberCountExact, MembersOf
<1>10. ASSUME NEW r \in Sessions, r # s PROVE Kept(r)
  <2>1. tx'[r] = tx[r]
    BY <1>1, <1>10 DEF PgInv, TxOK, Ends
  <2>2. tx[r].op = "campaign" => tx[r].id # c
    BY <1>1, <1>10 DEF PgInv, AreApart, DrewId
  <2>3. HoldsCampaign(r) => tx[r].campaign \in DOMAIN campaigns
    BY DEF PgInv, StillTrue, HoldsCampaign
  <2> QED
    BY <1>4, <1>5, <2>1, <2>2, <2>3 DEF Kept
<1>11. PgInv'
  BY <1>1, <1>9, <1>10, EndingStep
<1> QED
  BY <1>1, <1>2, <1>3, <1>4, <1>5, <1>11

\* Steps that read, begin or end a transaction without effects write nothing.
LEMMA SilentStatement ==
  ASSUME PgInv, NEW s \in Sessions,
         \/ Start(s) \/ Abort(s) \/ LockDemand(s) \/ LockOrdered(s) \/ LockReviewed(s)
         \/ CheckDemand(s) \/ AcceptOffer(s) \/ ReadDemand(s) \/ ReadMerchant(s) \/ ReadOffer(s)
  PROVE  PgInv' /\ UNCHANGED vars
<1>1. CASE Start(s)
  BY <1>1, StartStep
  DEF Start, BeginJoin, BeginOrder, BeginReview, BeginOffer, BeginCampaign, Begin
<1>2. CASE Abort(s)
  BY <1>2, RefusingStep DEF Abort
<1>3. CASE LockDemand(s)
  BY <1>3, LockDemandStep DEF LockDemand
<1>4. CASE LockOrdered(s)
  BY <1>4, LockOrderedStep DEF LockOrdered
<1>5. CASE LockReviewed(s)
  BY <1>5, LockReviewedStep DEF LockReviewed
<1>6. CASE CheckDemand(s)
  BY <1>6, CheckAndAcceptStep DEF CheckDemand
<1>7. CASE ReadDemand(s) \/ ReadMerchant(s) \/ ReadOffer(s)
  BY <1>7, UnlockedReadStep DEF ReadDemand, ReadMerchant, ReadOffer
<1>8. CASE AcceptOffer(s)
  BY <1>8, CheckAndAcceptStep DEF AcceptOffer
<1> QED
  BY <1>1, <1>2, <1>3, <1>4, <1>5, <1>6, <1>7, <1>8

\* What a step of the database does to the committed rows: an operation of
\* Market, or one of the three commits that are none.
LEMMA PgStep ==
  ASSUME PgInv, [PgNext]_pgVars
  PROVE  /\ PgInv'
         /\ [Next]_vars \/ \E s \in Sessions : CommitReview(s) \/ InsertOffer(s) \/ InsertCampaign(s)
<1>1. CASE UNCHANGED pgVars
  <2>1. IInv'
    BY <1>1, NextIInv DEF PgInv, pgVars
  <2> QED
    BY <1>1, <2>1 DEF PgInv, pgVars, vars, TxOK, StillTrue, AreApart, HoldsDemand, HoldsCampaign,
       DrewId, In
<1>2. CASE OneStatement
  BY <1>2, OneStatementStep
<1>3. ASSUME NEW s \in Sessions, Start(s) \/ Statement(s) \/ Abort(s)
      PROVE  /\ PgInv'
             /\ [Next]_vars \/ CommitReview(s) \/ InsertOffer(s) \/ InsertCampaign(s)
  <2>1. CASE CommitJoin(s)
    BY <2>1, CommitJoinStep
  <2>2. CASE CommitOrder(s)
    BY <2>2, CommitOrderStep
  <2>3. CASE CommitReview(s)
    BY <2>3, CommitReviewStep
  <2>4. CASE InsertOffer(s)
    BY <2>4, InsertOfferStep
  <2>5. CASE InsertCampaign(s)
    BY <2>5, InsertCampaignStep
  <2> QED
    BY <1>3, <2>1, <2>2, <2>3, <2>4, <2>5, SilentStatement DEF Statement
<1> QED
  BY <1>1, <1>2, <1>3 DEF PgNext

\* An empty database without transactions.
LEMMA InitPgInv == PgInit => PgInv
<1> SUFFICES ASSUME PgInit PROVE PgInv
  OBVIOUS
<1>1. IInv
  BY InitIInv DEF PgInit
<1>2. \A s \in Sessions : tx[s] = NoTx
  BY DEF PgInit
<1>3. TxOK
  BY <1>2 DEF PgInit, TxOK, Txs, NoTx
<1>4. \A s \in Sessions : ~HoldsDemand(s) /\ ~HoldsCampaign(s) /\ ~DrewId(s)
  BY <1>2 DEF HoldsDemand, HoldsCampaign, DrewId, In, NoTx
<1>5. \A s \in Sessions : StillTrue(s)
  BY <1>2, <1>4 DEF StillTrue, In, NoTx
<1> QED
  BY <1>1, <1>3, <1>4, <1>5 DEF PgInv, AreApart

\* The inductive invariant holds whatever transactions run at once.
THEOREM PgInvariance == PgSpec => []PgInv
<1>1. PgInv /\ [PgNext]_pgVars => PgInv'
  BY PgStep
<1> QED
  BY <1>1, InitPgInv, PTL DEF PgSpec

\* The committed rows and the open transactions stay typed.
THEOREM PgTypeCorrect == PgSpec => []PgTypeOK
<1>1. PgInv => PgTypeOK
  BY DEF PgInv, IInv, TxOK, Txs, PgTypeOK
<1> QED
  BY <1>1, PgInvariance, PTL

\* A campaign that takes or took orders stands on an accepted offer of its
\* merchant for its demand, also when reviews, offers and campaigns of several
\* replicas interleave (ReviewCampaign, CreateCampaign).
THEOREM PgCampaignsStand == PgSpec => []CampaignStandsOnItsOffer
<1>1. PgInv => CampaignStandsOnItsOffer
  BY DEF PgInv, IInv
<1> QED
  BY <1>1, PgInvariance, PTL

\* The counters of the committed rows are exact, and nothing is oversold or shown
\* READY or SOLD_OUT early, for any number of sessions (AddDemandMember,
\* CreateOrder).
THEOREM PgCountsAreExact ==
  PgSpec => [](MemberCountExact /\ ReadyMeansMinimumMet /\ SoldOutExactlyWhenFull)
<1>1. PgInv => MemberCountExact /\ ReadyMeansMinimumMet /\ SoldOutExactlyWhenFull
  BY DEF PgInv, IInv
<1> QED
  BY <1>1, PgInvariance, PTL

-----------------------------------------------------------------------------
\* The two resources and the writes.

\* The row of a demand says READY only because of OPEN, that of a campaign
\* SOLD_OUT because of an order (WithMember, WithOrder).
LEMMA MarketKeepsReviews ==
  ASSUME IInv, [Next]_vars
  PROVE  KeepsReviews
<1>1. CASE \E d \in DemandIds, u \in Users : AddDemandMember(d, u)
  <2>1. PICK d \in DemandIds, u \in Users : AddDemandMember(d, u)
    BY <1>1
  <2> DEFINE row == WithMember(demands[d])
  <2>2. d \in DOMAIN demands /\ demands[d] \in Demand
    BY <2>1 DEF AddDemandMember, CanJoin, IInv, TypeOK, IsMap
  <2>3. \/ row.status = demands[d].status
        \/ demands[d].status = "OPEN" /\ row.status = "READY"
    BY <2>2 DEF WithMember, Demand
  <2>4. demands' = Put(demands, d, row) /\ campaigns' = campaigns
    BY <2>1 DEF AddDemandMember
  <2> HIDE DEF row
  <2> QED
    BY <2>2, <2>3, <2>4 DEF KeepsReviews, Put
<1>2. CASE \E x \in OrderIds, c \in CampaignIds, quantity \in Quantities :
             CreateOrder(x, c, quantity)
  <2>1. PICK x \in OrderIds, c \in CampaignIds, quantity \in Quantities :
          CreateOrder(x, c, quantity)
    BY <1>2
  <2> DEFINE row == WithOrder(campaigns[c], quantity)
  <2>2. c \in DOMAIN campaigns /\ campaigns[c] \in Campaign /\ campaigns[c].status = "OPEN"
    BY <2>1 DEF CreateOrder, CanOrder, IInv, TypeOK, IsMap
  <2>3. row.status \in {"OPEN", "SOLD_OUT"}
    BY <2>2 DEF WithOrder, Campaign
  <2>4. campaigns' = Put(campaigns, c, row) /\ demands' = demands
    BY <2>1 DEF CreateOrder
  <2> HIDE DEF row
  <2> QED
    BY <2>2, <2>3, <2>4 DEF KeepsReviews, Put
<1>3. CASE \E d \in DemandIds, decision \in DemandDecisions : ReviewDemand(d, decision)
  <2>1. /\ \A k \in DOMAIN demands : demands'[k].count = demands[k].count
        /\ campaigns' = campaigns
    BY <1>3 DEF ReviewDemand, Put, IInv, TypeOK, IsMap, Demand
  <2> QED
    BY <2>1 DEF KeepsReviews
<1>4. CASE \E c \in CampaignIds, decision \in CampaignDecisions : ReviewCampaign(c, decision)
  <2>1. /\ \A k \in DOMAIN campaigns : campaigns'[k].current = campaigns[k].current
        /\ demands' = demands
    BY <1>4 DEF ReviewCampaign, OpenCampaign, CancelCampaign, Put, IInv, TypeOK, IsMap, Campaign
  <2> QED
    BY <2>1 DEF KeepsReviews
<1>5. CASE \E c \in CampaignIds, o \in OfferIds, d \in DemandIds, m \in Merchants,
             limit \in OrderLimits : CreateCampaign(c, o, d, m, limit)
  BY <1>5 DEF KeepsReviews, CreateCampaign, Put
<1>6. CASE \E d \in DemandIds, u \in Users, spec \in Specs, limit \in MemberLimits :
             CreateDemand(d, u, spec, limit)
  BY <1>6 DEF KeepsReviews, CreateDemand, Put
<1>7. CASE UNCHANGED <<demands, campaigns>>
  BY <1>7 DEF KeepsReviews
<1> QED
  BY <1>1, <1>2, <1>3, <1>4, <1>5, <1>6, <1>7
  DEF Next, vars, CreateOrGetMerchant, ReviewMerchant, CreateOffer

\* No write of a count undoes a review that ran meanwhile, and no order enters a
\* campaign that is not open at that moment (AddDemandMember, CreateOrder).
THEOREM ReviewsAreKept == PgSpec => WritesKeepReviews
<1>1. PgInv /\ [PgNext]_pgVars => [KeepsReviews]_pgVars
  <2> SUFFICES ASSUME PgInv, [PgNext]_pgVars PROVE KeepsReviews
    OBVIOUS
  <2>1. CASE [Next]_vars
    BY <2>1, MarketKeepsReviews DEF PgInv
  <2>2. ASSUME NEW s \in Sessions, CommitReview(s) PROVE KeepsReviews
    BY <2>2, CommitReviewStep DEF KeepsReviews
  <2>3. ASSUME NEW s \in Sessions, InsertOffer(s) PROVE KeepsReviews
    BY <2>3, InsertOfferStep DEF KeepsReviews
  <2>4. ASSUME NEW s \in Sessions, InsertCampaign(s) PROVE KeepsReviews
    BY <2>4, InsertCampaignStep DEF KeepsReviews
  <2> QED
    BY <2>1, <2>2, <2>3, <2>4, PgStep
<1> QED
  BY <1>1, PgInvariance, PTL DEF PgSpec, WritesKeepReviews

\* Joins of any number of replicas claim the seats of a demand one at a time,
\* within its maximum and once per consumer (AddDemandMember).
THEOREM PgMembersImplementSeats == PgSpec => MembersWithinDemand
<1>1. PgInit => MemberSeats!Init
  BY EmptyIsMap DEF PgInit, Init, MemberSeats!Init, DemandCapacity, DemandTaken, DemandClaim
<1>2. PgInv /\ [PgNext]_pgVars => [MemberSeats!Next]_(MemberSeats!seats)
  <2> SUFFICES ASSUME PgInv, [PgNext]_pgVars PROVE [MemberSeats!Next]_(MemberSeats!seats)
    OBVIOUS
  <2>1. CASE [Next]_vars
    BY <2>1, MemberStep DEF PgInv, IInv
  <2>2. CASE UNCHANGED <<demands, members>>
    BY <2>2 DEF MemberSeats!seats, DemandCapacity, DemandTaken, DemandClaim
  <2> QED
    BY <2>1, <2>2, PgStep, CommitReviewStep, InsertOfferStep, InsertCampaignStep
<1> QED
  BY <1>1, <1>2, PgInvariance, PTL DEF PgSpec, MembersWithinDemand, MemberSeats!Spec

\* Orders of any number of replicas claim the capacity of a campaign one at a
\* time and within it (CreateOrder).
THEOREM PgOrdersImplementSeats == PgSpec => OrdersWithinCampaign
<1>1. PgInit => OrderSeats!Init
  BY EmptyIsMap DEF PgInit, Init, OrderSeats!Init, CampaignCapacity, CampaignTaken, CampaignClaim
<1>2. PgInv /\ [PgNext]_pgVars => [OrderSeats!Next]_(OrderSeats!seats)
  <2> SUFFICES ASSUME PgInv, [PgNext]_pgVars PROVE [OrderSeats!Next]_(OrderSeats!seats)
    OBVIOUS
  <2>1. CASE [Next]_vars
    BY <2>1, OrderStep DEF PgInv, IInv
  <2>2. ASSUME NEW s \in Sessions, CommitReview(s) PROVE UNCHANGED OrderSeats!seats
    BY <2>2, CommitReviewStep DEF OrderSeats!seats, CampaignCapacity, CampaignTaken, CampaignClaim
  <2>3. ASSUME NEW s \in Sessions, InsertOffer(s) PROVE UNCHANGED OrderSeats!seats
    BY <2>3, InsertOfferStep DEF OrderSeats!seats, CampaignCapacity, CampaignTaken, CampaignClaim
  <2>4. ASSUME NEW s \in Sessions, InsertCampaign(s) PROVE OrderSeats!Next
    <3> DEFINE c == tx[s].id
               n == tx[s].limit.max
    <3>1. /\ c \in CampaignIds \ DOMAIN campaigns /\ tx[s].limit \in OrderLimits
          /\ DOMAIN campaigns' = DOMAIN campaigns \cup {c}
          /\ campaigns'[c].max = n /\ campaigns'[c].current = 0
          /\ \A k \in DOMAIN campaigns : campaigns'[k] = campaigns[k]
          /\ orders' = orders
      BY <2>4, InsertCampaignStep
    <3> HIDE DEF c
    <3>2. CampaignCapacity[c] = 0 /\ CampaignCapacity' = [CampaignCapacity EXCEPT ![c] = n]
      BY <3>1 DEF CampaignCapacity
    <3>3. CampaignTaken' = CampaignTaken
      BY <3>1 DEF CampaignTaken
    <3>4. CampaignClaim' = CampaignClaim
      BY <3>1 DEF CampaignClaim
    <3> QED
      BY <3>1, <3>2, <3>3, <3>4 DEF OrderSeats!Next, OrderSeats!Offer
  <2> QED
    BY <2>1, <2>2, <2>3, <2>4, PgStep
<1> QED
  BY <1>1, <1>2, PgInvariance, PTL DEF PgSpec, OrdersWithinCampaign, OrderSeats!Spec
=============================================================================
