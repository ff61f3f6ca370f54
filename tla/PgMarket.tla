------------------------------ MODULE PgMarket ------------------------------
(***************************************************************************)
(* The same store over PostgreSQL (internal/store/postgres.go): several    *)
(* API replicas run their operations as READ COMMITTED transactions on one *)
(* database.  The variables of Market are the committed rows; tx[s] is the *)
(* transaction open on connection s.                                       *)
(*                                                                         *)
(* A statement that reads is a step of its own.  What an operation writes  *)
(* after its last read is one step with its COMMIT: nobody sees it before. *)
(* SELECT ... FOR UPDATE returns the newest committed row and keeps every  *)
(* other transaction from locking or updating it until the transaction     *)
(* ends; plain SELECTs neither lock nor wait.  Operations of one statement *)
(* (CreateOrGetMerchant, ReviewMerchant, CreateDemand, ReviewDemand) are   *)
(* the actions of Market, waiting for a locked row where they update one.  *)
(***************************************************************************)
EXTENDS Market

CONSTANTS
  Sessions, NoRow,
  MerchantReviews   \* the decisions that admins take on merchants

VARIABLE tx

pgVars == <<vars, tx>>

\* op and at tell which operation runs and which statement comes next, id is the
\* identifier newUUID drew for the row to insert, row is what FOR UPDATE
\* returned.
NoTx == [op |-> "none"]
JoinTx     == [op : {"join"}, at : {"lock", "write"}, demand : DemandIds, user : Users,
               row : Demand \cup {NoRow}]
OrderTx    == [op : {"order"}, at : {"lock", "write"}, id : OrderIds,
               campaign : CampaignIds, quantity : Quantities, row : Campaign \cup {NoRow}]
ReviewTx   == [op : {"review"}, at : {"lock", "check", "accept", "write"}, campaign : CampaignIds,
               decision : CampaignDecisions, row : Campaign \cup {NoRow}]
OfferTx    == [op : {"offer"}, at : {"demand", "merchant", "write"},
               id : OfferIds, demand : DemandIds, merchant : Merchants]
CampaignTx == [op : {"campaign"}, at : {"demand", "offer", "write"},
               id : CampaignIds, demand : DemandIds, offer : OfferIds, merchant : Merchants, limit : OrderLimits]

ASSUME MerchantReviewsAssumption == MerchantReviews \subseteq MerchantDecisions

\* Not yet read.
ASSUME NoRowAssumption == NoRow \notin Demand \cup Campaign

PgTypeOK ==
  /\ TypeOK
  /\ tx \in [Sessions ->
       {NoTx} \cup JoinTx \cup OrderTx \cup ReviewTx \cup OfferTx \cup CampaignTx]
  /\ \A s \in Sessions :
       tx[s].op \in {"join", "order", "review"} => (tx[s].at = "lock") = (tx[s].row = NoRow)

PgInit == Init /\ tx = [s \in Sessions |-> NoTx]

In(s, op, at) == tx[s].op = op /\ tx[s].at = at
Begin(s, t)   == tx[s] = NoTx /\ tx' = [tx EXCEPT ![s] = t] /\ UNCHANGED vars
Ends(s)       == tx' = [tx EXCEPT ![s] = NoTx]
Goes(s, at)   == tx' = [tx EXCEPT ![s].at = at]
Locks(s, at, row) == tx' = [tx EXCEPT ![s].at = at, ![s].row = row]

\* newUUID draws an identifier nobody has.
Fresh(id) ==
  /\ id \notin DOMAIN offers \cup DOMAIN campaigns \cup DOMAIN orders
  /\ \A s \in Sessions : "id" \in DOMAIN tx[s] => tx[s].id # id

\* Faulty variants: the row is read without FOR UPDATE.
DemandUnlocked(d)   == TRUE
CampaignUnlocked(c) == TRUE

\* No transaction holds the row FOR UPDATE.
DemandFree(d)   == \A s \in Sessions : ~(In(s, "join", "write") /\ tx[s].demand = d)
CampaignFree(c) == \A s \in Sessions :
  ~(tx[s].op \in {"order", "review"} /\ tx[s].at # "lock" /\ tx[s].campaign = c)

\* No transaction has updated the offer.
OfferFree(o) == \A s \in Sessions :
  ~(In(s, "review", "write") /\ tx[s].decision = "OPEN" /\ tx[s].row.offer = o)

-----------------------------------------------------------------------------
\* One statement each.

PgReviewDemand(d, decision) == DemandFree(d) /\ ReviewDemand(d, decision) /\ UNCHANGED tx

OneStatement ==
  \/ \E m \in Merchants : CreateOrGetMerchant(m) /\ UNCHANGED tx
  \/ \E m \in Merchants, decision \in MerchantReviews :
       ReviewMerchant(m, decision) /\ UNCHANGED tx
  \/ \E d \in DemandIds, u \in Users, spec \in Specs, limit \in MemberLimits :
       CreateDemand(d, u, spec, limit) /\ UNCHANGED tx
  \/ \E d \in DemandIds, decision \in DemandDecisions : PgReviewDemand(d, decision)

-----------------------------------------------------------------------------
\* AddDemandMember.

BeginJoin(s, d, u) ==
  /\ d \in DOMAIN demands
  /\ Begin(s, [op |-> "join", at |-> "lock", demand |-> d, user |-> u, row |-> NoRow])

LockDemand(s) ==
  /\ In(s, "join", "lock")
  /\ DemandFree(tx[s].demand)
  /\ LET row == demands[tx[s].demand]
     IN IF Refused(row.status) \/ row.count >= row.max
        THEN Ends(s) ELSE Locks(s, "write", row)
  /\ UNCHANGED vars

\* The UPDATE writes the count and status computed from the row read above; the
\* INSERT fails if the consumer is in the demand already.
CommitJoin(s) ==
  /\ In(s, "join", "write")
  /\ LET d == tx[s].demand
         joined == WithMember(tx[s].row)
     IN IF <<d, tx[s].user>> \in members
        THEN UNCHANGED vars
        ELSE /\ members' = members \cup {<<d, tx[s].user>>}
             /\ demands' = Put(demands, d,
                  [demands[d] EXCEPT !.count = joined.count, !.status = joined.status])
             /\ UNCHANGED <<merchants, offers, campaigns, orders>>
  /\ Ends(s)

-----------------------------------------------------------------------------
\* CreateOrder.

BeginOrder(s, x, c, quantity) ==
  /\ c \in DOMAIN campaigns /\ Fresh(x)
  /\ Begin(s, [op |-> "order", at |-> "lock", id |-> x, campaign |-> c,
               quantity |-> quantity, row |-> NoRow])

LockOrdered(s) ==
  /\ In(s, "order", "lock")
  /\ CampaignFree(tx[s].campaign)
  /\ LET row == campaigns[tx[s].campaign]
     IN IF CanOrder(row, tx[s].quantity) THEN Locks(s, "write", row) ELSE Ends(s)
  /\ UNCHANGED vars

CommitOrder(s) ==
  /\ In(s, "order", "write")
  /\ LET c == tx[s].campaign
         taken == WithOrder(tx[s].row, tx[s].quantity)
     IN /\ orders' = Put(orders, tx[s].id, [campaign |-> c, quantity |-> tx[s].quantity])
        /\ campaigns' = Put(campaigns, c,
             [campaigns[c] EXCEPT !.current = taken.current, !.status = taken.status])
  /\ Ends(s)
  /\ UNCHANGED <<merchants, demands, members, offers>>

-----------------------------------------------------------------------------
\* ReviewCampaign.  The demand is read without a lock.  Opening a campaign
\* updates its offer, and may have to wait for the review of another campaign
\* on that offer while it holds its own campaign.

BeginReview(s, c, decision) ==
  /\ c \in DOMAIN campaigns
  /\ Begin(s, [op |-> "review", at |-> "lock", campaign |-> c, decision |-> decision,
               row |-> NoRow])

LockReviewed(s) ==
  /\ In(s, "review", "lock")
  /\ CampaignFree(tx[s].campaign)
  /\ Locks(s, IF tx[s].decision = "OPEN" THEN "check" ELSE "write",
           campaigns[tx[s].campaign])
  /\ UNCHANGED vars

CheckDemand(s) ==
  /\ In(s, "review", "check")
  /\ IF Refused(demands[tx[s].row.demand].status) \/ tx[s].row.max < tx[s].row.min
     THEN Ends(s) ELSE Goes(s, "accept")
  /\ UNCHANGED vars

\* Faulty variant: all campaigns on the offer are updated with it.
AcceptOfferAndCampaigns(s) ==
  /\ In(s, "review", "accept")
  /\ OfferFree(tx[s].row.offer)
  /\ \A c \in DOMAIN campaigns \ {tx[s].campaign} :
       campaigns[c].offer = tx[s].row.offer => CampaignFree(c)
  /\ Goes(s, "write")
  /\ UNCHANGED vars

\* The UPDATE of the offer: its row is locked, and seen by others from the COMMIT
\* on.  A row that another transaction updated meanwhile is updated again.
AcceptOffer(s) ==
  /\ In(s, "review", "accept")
  /\ OfferFree(tx[s].row.offer)
  /\ Goes(s, "write")
  /\ UNCHANGED vars

\* Faulty variant: the offer is not accepted.
CommitReviewOnly(s) ==
  /\ In(s, "review", "write")
  /\ campaigns' = Put(campaigns, tx[s].campaign,
                      [campaigns[tx[s].campaign] EXCEPT !.status = tx[s].decision])
  /\ Ends(s)
  /\ UNCHANGED <<merchants, demands, members, offers, orders>>

CommitReview(s) ==
  /\ In(s, "review", "write")
  /\ LET c == tx[s].campaign
         o == tx[s].row.offer
     IN /\ campaigns' = Put(campaigns, c, [campaigns[c] EXCEPT !.status = tx[s].decision])
        /\ offers' = IF tx[s].decision = "OPEN"
                     THEN Put(offers, o, [offers[o] EXCEPT !.status = "ACCEPTED"])
                     ELSE offers
  /\ Ends(s)
  /\ UNCHANGED <<merchants, demands, members, orders>>

-----------------------------------------------------------------------------
\* CreateOffer and CreateCampaign: reads without locks, then one INSERT.  Its
\* foreign keys take KEY SHARE locks: the one on the demand waits for a FOR
\* UPDATE, the one on the offer does not wait for an UPDATE of its status.

BeginOffer(s, o, d, m) ==
  /\ d \in DOMAIN demands /\ m \in DOMAIN merchants /\ Fresh(o)
  /\ Begin(s, [op |-> "offer", at |-> "demand", id |-> o, demand |-> d, merchant |-> m])

BeginCampaign(s, c, o, d, m, limit) ==
  /\ d \in DOMAIN demands /\ Fresh(c)
  /\ Begin(s, [op |-> "campaign", at |-> "demand", id |-> c, demand |-> d, offer |-> o,
               merchant |-> m, limit |-> limit])

ReadDemand(s) ==
  /\ In(s, "offer", "demand") \/ In(s, "campaign", "demand")
  /\ IF Refused(demands[tx[s].demand].status) THEN Ends(s)
     ELSE Goes(s, IF tx[s].op = "offer" THEN "merchant" ELSE "offer")
  /\ UNCHANGED vars

ReadMerchant(s) ==
  /\ In(s, "offer", "merchant")
  /\ IF merchants[tx[s].merchant] = "APPROVED" THEN Goes(s, "write") ELSE Ends(s)
  /\ UNCHANGED vars

InsertOffer(s) ==
  /\ In(s, "offer", "write") /\ DemandFree(tx[s].demand)
  /\ offers' = Put(offers, tx[s].id, [status |-> "SUBMITTED", demand |-> tx[s].demand,
                                      merchant |-> tx[s].merchant])
  /\ Ends(s)
  /\ UNCHANGED <<merchants, demands, members, campaigns, orders>>

ReadOffer(s) ==
  /\ In(s, "campaign", "offer")
  /\ IF /\ tx[s].offer \in DOMAIN offers
        /\ offers[tx[s].offer].demand = tx[s].demand
        /\ offers[tx[s].offer].merchant = tx[s].merchant
     THEN Goes(s, "write") ELSE Ends(s)
  /\ UNCHANGED vars

InsertCampaign(s) ==
  /\ In(s, "campaign", "write") /\ DemandFree(tx[s].demand)
  /\ campaigns' = Put(campaigns, tx[s].id,
       [status |-> "PENDING_REVIEW", demand |-> tx[s].demand, offer |-> tx[s].offer,
        merchant |-> tx[s].merchant, min |-> tx[s].limit.min, max |-> tx[s].limit.max,
        current |-> 0])
  /\ Ends(s)
  /\ UNCHANGED <<merchants, demands, members, offers, orders>>

-----------------------------------------------------------------------------

\* The request is cancelled, the replica stops or the connection breaks before
\* COMMIT: the deferred Rollback, or the server, gives the locks back.
Abort(s) == tx[s] # NoTx /\ Ends(s) /\ UNCHANGED vars

Start(s) ==
  \/ \E d \in DemandIds, u \in Users : BeginJoin(s, d, u)
  \/ \E x \in OrderIds, c \in CampaignIds, quantity \in Quantities :
       BeginOrder(s, x, c, quantity)
  \/ \E c \in CampaignIds, decision \in CampaignDecisions : BeginReview(s, c, decision)
  \/ \E o \in OfferIds, d \in DemandIds, m \in Merchants : BeginOffer(s, o, d, m)
  \/ \E c \in CampaignIds, o \in OfferIds, d \in DemandIds, m \in Merchants,
        limit \in OrderLimits : BeginCampaign(s, c, o, d, m, limit)

Statement(s) ==
  \/ LockDemand(s) \/ CommitJoin(s)
  \/ LockOrdered(s) \/ CommitOrder(s)
  \/ LockReviewed(s) \/ CheckDemand(s) \/ AcceptOffer(s) \/ CommitReview(s)
  \/ ReadDemand(s)
  \/ ReadMerchant(s) \/ InsertOffer(s)
  \/ ReadOffer(s) \/ InsertCampaign(s)

PgNext ==
  \/ OneStatement
  \/ \E s \in Sessions : Start(s) \/ Statement(s) \/ Abort(s)

PgSpec == PgInit /\ [][PgNext]_pgVars

\* The server runs every statement sent to it, and a row lock that is released
\* again and again is granted to those who wait in turn.
FairPgSpec == PgSpec /\ \A s \in Sessions : SF_pgVars(Statement(s))

-----------------------------------------------------------------------------
\* A member or an order is written together with the status its row had: no
\* join undoes a review of its demand that ran meanwhile (AddDemandMember
\* writes back the status it read), and no order enters, reopens or sells out a
\* campaign that is not open at that moment (CreateOrder writes back likewise).
KeepsReviews ==
  /\ \A d \in DOMAIN demands :
       demands'[d].count # demands[d].count =>
         demands'[d].status = demands[d].status
         \/ (demands[d].status = "OPEN" /\ demands'[d].status = "READY")
  /\ \A c \in DOMAIN campaigns :
       campaigns'[c].current # campaigns[c].current =>
         campaigns[c].status = "OPEN" /\ campaigns'[c].status \in {"OPEN", "SOLD_OUT"}
WritesKeepReviews == [][KeepsReviews]_pgVars

\* Every transaction ends, although ReviewCampaign waits for its offer while it
\* holds its campaign: nobody who holds an offer waits for a campaign, and
\* nobody who holds a demand waits at all.
EveryTransactionEnds == \A s \in Sessions : tx[s] # NoTx ~> tx[s] = NoTx
=============================================================================
