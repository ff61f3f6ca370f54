------------------------------- MODULE Market -------------------------------
(***************************************************************************)
(* The marketplace store of the Go backend: demand clusters that consumers *)
(* join, merchants' offers for a demand, pre-sale campaigns opened on an   *)
(* offer, and the orders placed against a campaign.                        *)
(*                                                                         *)
(* This module is store.MemoryStore (internal/store/memory.go): every      *)
(* operation runs under one RWMutex and is therefore one atomic action.  A *)
(* Go map is a function whose domain is the set of keys present, and a     *)
(* map assignment is Put.  A call that returns an error leaves the store   *)
(* untouched, so only the successful calls are actions; the guard of an    *)
(* action is the conjunction of the early returns it gets past.            *)
(***************************************************************************)
EXTENDS Integers, FiniteSets

CONSTANTS
  Users,          \* consumers
  Merchants,      \* merchants, named by their owner (one merchant per owner)
  DemandIds, OfferIds, CampaignIds, OrderIds,   \* the identifiers newID may draw
  Specs,          \* the demand specifications consumers submit
  MemberLimits,   \* the [min, max] member limits consumers submit
  OrderLimits,    \* the [min, max] order limits merchants submit
  Quantities      \* the order quantities consumers submit

Limit == [min : Nat \ {0}, max : Nat \ {0}]

\* createDemandRequest.toSpec and createCampaignRequest.validate: the handlers
\* refuse a request whose maximum is below its minimum.
ASSUME LimitsAssumption ==
  /\ MemberLimits \subseteq {l \in Limit : l.min <= l.max}
  /\ OrderLimits \subseteq {l \in Limit : l.min <= l.max}

\* createOrderRequest.validate: a quantity is positive.
ASSUME QuantitiesAssumption == Quantities \subseteq Nat \ {0}

VARIABLES
  merchants,      \* merchant -> status
  demands,        \* demand id -> demand cluster
  members,        \* the <<demand id, user>> keys of the members map
  offers,         \* offer id -> offer
  campaigns,      \* campaign id -> campaign
  orders          \* order id -> order

vars == <<merchants, demands, members, offers, campaigns, orders>>

MerchantStatus == {"PENDING", "APPROVED", "REJECTED", "SUSPENDED"}
DemandStatus   == {"PENDING_REVIEW", "OPEN", "READY", "CLOSED", "REJECTED"}
OfferStatus    == {"SUBMITTED", "ACCEPTED"}
CampaignStatus == {"PENDING_REVIEW", "OPEN", "SOLD_OUT", "CANCELLED"}

Demand   == [status : DemandStatus, spec : Specs, createdBy : Users,
             min : Nat, max : Nat, count : Nat]
Offer    == [status : OfferStatus, demand : DemandIds, merchant : Merchants]
Campaign == [status : CampaignStatus, demand : DemandIds, offer : OfferIds,
             merchant : Merchants, min : Nat, max : Nat, current : Nat]
Order    == [campaign : CampaignIds, quantity : Nat]

\* The assignment map[key] = value.
Put(map, key, value) ==
  [k \in DOMAIN map \cup {key} |-> IF k = key THEN value ELSE map[k]]

IsMap(map, Keys, Values) ==
  /\ DOMAIN map \subseteq Keys
  /\ map = [k \in DOMAIN map |-> map[k]]
  /\ \A k \in DOMAIN map : map[k] \in Values

TypeOK ==
  /\ IsMap(merchants, Merchants, MerchantStatus)
  /\ IsMap(demands, DemandIds, Demand)
  /\ members \subseteq (DOMAIN demands) \X Users
  /\ IsMap(offers, OfferIds, Offer)
  /\ IsMap(campaigns, CampaignIds, Campaign)
  /\ IsMap(orders, OrderIds, Order)

EmptyMap == [k \in {} |-> k]

Init ==
  /\ merchants = EmptyMap
  /\ demands = EmptyMap
  /\ members = {}
  /\ offers = EmptyMap
  /\ campaigns = EmptyMap
  /\ orders = EmptyMap

-----------------------------------------------------------------------------
\* Merchants.

CreateOrGetMerchant(m) ==
  /\ m \notin DOMAIN merchants
  /\ merchants' = Put(merchants, m, "PENDING")
  /\ UNCHANGED <<demands, members, offers, campaigns, orders>>

\* The store assigns whatever decision the admin handler lets through; no
\* current status refuses it.
ReviewMerchant(m, decision) ==
  /\ m \in DOMAIN merchants
  /\ merchants' = Put(merchants, m, decision)
  /\ UNCHANGED <<demands, members, offers, campaigns, orders>>

-----------------------------------------------------------------------------
\* Demand clusters.

MembersOf(d) == {u \in Users : <<d, u>> \in members}

\* DemandRejected and DemandClosed refuse members, offers and campaigns.
Refused(status) == status \in {"REJECTED", "CLOSED"}

\* Faulty variant: the creator is counted before joining.
CreateDemandCounted(d, u, spec, limit) ==
  /\ d \notin DOMAIN demands
  /\ demands' = Put(demands, d,
       [status |-> "PENDING_REVIEW", spec |-> spec, createdBy |-> u,
        min |-> limit.min, max |-> limit.max, count |-> 1])
  /\ UNCHANGED <<merchants, members, offers, campaigns, orders>>

CreateDemand(d, u, spec, limit) ==
  /\ d \notin DOMAIN demands
  /\ demands' = Put(demands, d,
       [status |-> "PENDING_REVIEW", spec |-> spec, createdBy |-> u,
        min |-> limit.min, max |-> limit.max, count |-> 0])
  /\ UNCHANGED <<merchants, members, offers, campaigns, orders>>

Overlap(a, b) == a.lo <= b.hi /\ b.lo <= a.hi

\* kind stands for the fields compared for equality: category, service area,
\* serving date and time.  hard is a set: both lists were freed of duplicates
\* by normalizeStrings.
MatchingSpec(a, b) ==
  /\ a.kind = b.kind
  /\ Overlap(a.budget, b.budget)
  /\ Overlap(a.weight, b.weight)
  /\ a.hard = b.hard

\* The clusters FindMatchingDemand may return: the range over the map stops at
\* the first match, and the order of a Go map is unspecified.
MatchingDemands(spec) ==
  {d \in DOMAIN demands :
     /\ demands[d].status \in {"PENDING_REVIEW", "OPEN"}
     /\ demands[d].count < demands[d].max
     /\ MatchingSpec(demands[d].spec, spec)}

\* Faulty variants: the lookup of the member's key, or the capacity check, is
\* missing.
CanJoinTwice(d, u) ==
  d \in DOMAIN demands /\ ~Refused(demands[d].status) /\ demands[d].count < demands[d].max
CanJoinWhenFull(d, u) ==
  d \in DOMAIN demands /\ ~Refused(demands[d].status) /\ <<d, u>> \notin members

CanJoin(d, u) ==
  /\ d \in DOMAIN demands
  /\ ~Refused(demands[d].status)
  /\ <<d, u>> \notin members
  /\ demands[d].count < demands[d].max

\* Faulty variant: the new member is counted twice against the minimum.
WithMemberReadyEarly(demand) ==
  [demand EXCEPT
     !.count = @ + 1,
     !.status = IF demand.count + 2 >= demand.min /\ demand.status = "OPEN"
                THEN "READY" ELSE demand.status]

\* The row a demand becomes when one more member joins it.
WithMember(demand) ==
  [demand EXCEPT
     !.count = @ + 1,
     !.status = IF demand.count + 1 >= demand.min /\ demand.status = "OPEN"
                THEN "READY" ELSE demand.status]

AddDemandMember(d, u) ==
  /\ CanJoin(d, u)
  /\ members' = members \cup {<<d, u>>}
  /\ demands' = Put(demands, d, WithMember(demands[d]))
  /\ UNCHANGED <<merchants, offers, campaigns, orders>>

\* No status refuses a review, and the member count is not looked at.
ReviewDemand(d, decision) ==
  /\ d \in DOMAIN demands
  /\ demands' = Put(demands, d, [demands[d] EXCEPT !.status = decision])
  /\ UNCHANGED <<merchants, members, offers, campaigns, orders>>

-----------------------------------------------------------------------------
\* Offers and campaigns.

CreateOffer(o, d, m) ==
  /\ o \notin DOMAIN offers
  /\ d \in DOMAIN demands /\ ~Refused(demands[d].status)
  /\ m \in DOMAIN merchants /\ merchants[m] = "APPROVED"
  /\ offers' = Put(offers, o, [status |-> "SUBMITTED", demand |-> d, merchant |-> m])
  /\ UNCHANGED <<merchants, demands, members, campaigns, orders>>

\* The demand and the merchant of the request must be those of the offer; the
\* merchant's own status and the offer's status are not looked at.
CreateCampaign(c, o, d, m, limit) ==
  /\ c \notin DOMAIN campaigns
  /\ d \in DOMAIN demands
  /\ o \in DOMAIN offers /\ offers[o].demand = d /\ offers[o].merchant = m
  /\ ~Refused(demands[d].status)
  /\ campaigns' = Put(campaigns, c,
       [status |-> "PENDING_REVIEW", demand |-> d, offer |-> o, merchant |-> m,
        min |-> limit.min, max |-> limit.max, current |-> 0])
  /\ UNCHANGED <<merchants, demands, members, offers, orders>>

\* Faulty variant: the offer is not accepted.
OpenCampaignOnly(c) ==
  /\ c \in DOMAIN campaigns
  /\ ~Refused(demands[campaigns[c].demand].status)
  /\ campaigns[c].max >= campaigns[c].min
  /\ campaigns' = Put(campaigns, c, [campaigns[c] EXCEPT !.status = "OPEN"])
  /\ UNCHANGED <<merchants, demands, members, offers, orders>>

OpenCampaign(c) ==
  /\ c \in DOMAIN campaigns
  /\ ~Refused(demands[campaigns[c].demand].status)
  /\ campaigns[c].max >= campaigns[c].min
  /\ offers' = Put(offers, campaigns[c].offer,
                   [offers[campaigns[c].offer] EXCEPT !.status = "ACCEPTED"])
  /\ campaigns' = Put(campaigns, c, [campaigns[c] EXCEPT !.status = "OPEN"])
  /\ UNCHANGED <<merchants, demands, members, orders>>

CancelCampaign(c) ==
  /\ c \in DOMAIN campaigns
  /\ campaigns' = Put(campaigns, c, [campaigns[c] EXCEPT !.status = "CANCELLED"])
  /\ UNCHANGED <<merchants, demands, members, offers, orders>>

\* Any current status may be reviewed again, SOLD_OUT and CANCELLED included.
ReviewCampaign(c, decision) ==
  \/ decision = "OPEN" /\ OpenCampaign(c)
  \/ decision = "CANCELLED" /\ CancelCampaign(c)

-----------------------------------------------------------------------------
\* Orders.

\* Faulty variant: capacity is compared before the quantity is added.
CanOrderOnLast(campaign, quantity) ==
  campaign.status = "OPEN" /\ campaign.current < campaign.max

CanOrder(campaign, quantity) ==
  /\ campaign.status = "OPEN"
  /\ campaign.current + quantity <= campaign.max

\* Faulty variant: sold out one unit early.
WithOrderSoldOutEarly(campaign, quantity) ==
  [campaign EXCEPT
     !.current = @ + quantity,
     !.status = IF campaign.current + quantity + 1 >= campaign.max
                THEN "SOLD_OUT" ELSE campaign.status]

\* The row a campaign becomes when an order takes quantity of its capacity.
WithOrder(campaign, quantity) ==
  [campaign EXCEPT
     !.current = @ + quantity,
     !.status = IF campaign.current + quantity >= campaign.max
                THEN "SOLD_OUT" ELSE campaign.status]

\* The consumer of an order is never looked at again and is left out.
CreateOrder(x, c, quantity) ==
  /\ x \notin DOMAIN orders
  /\ c \in DOMAIN campaigns
  /\ CanOrder(campaigns[c], quantity)
  /\ orders' = Put(orders, x, [campaign |-> c, quantity |-> quantity])
  /\ campaigns' = Put(campaigns, c, WithOrder(campaigns[c], quantity))
  /\ UNCHANGED <<merchants, demands, members, offers>>

-----------------------------------------------------------------------------

\* Faulty variants: an admin handler that lets any known word through.
MerchantDecisionsUnchecked == {"APPROVED", "REJECTED", "SUSPENDED", "OPEN"}
DemandDecisionsUnchecked   == {"OPEN", "REJECTED", "APPROVED"}

\* The decisions the admin handlers let through (reviewRequest.validate).
MerchantDecisions == {"APPROVED", "REJECTED", "SUSPENDED"}
DemandDecisions   == {"OPEN", "REJECTED"}
CampaignDecisions == {"OPEN", "CANCELLED"}

Next ==
  \/ \E m \in Merchants : CreateOrGetMerchant(m)
  \/ \E m \in Merchants, decision \in MerchantDecisions : ReviewMerchant(m, decision)
  \/ \E d \in DemandIds, u \in Users, spec \in Specs, limit \in MemberLimits :
       CreateDemand(d, u, spec, limit)
  \/ \E d \in DemandIds, u \in Users : AddDemandMember(d, u)
  \/ \E d \in DemandIds, decision \in DemandDecisions : ReviewDemand(d, decision)
  \/ \E o \in OfferIds, d \in DemandIds, m \in Merchants : CreateOffer(o, d, m)
  \/ \E c \in CampaignIds, o \in OfferIds, d \in DemandIds, m \in Merchants,
        limit \in OrderLimits : CreateCampaign(c, o, d, m, limit)
  \/ \E c \in CampaignIds, decision \in CampaignDecisions : ReviewCampaign(c, decision)
  \/ \E x \in OrderIds, c \in CampaignIds, quantity \in Quantities : CreateOrder(x, c, quantity)

Spec == Init /\ [][Next]_vars

-----------------------------------------------------------------------------
(***************************************************************************)
(* Invariants.                                                             *)
(***************************************************************************)

\* The denormalised member_count of a demand is the number of its members, and
\* a demand never holds more members than its maximum (AddDemandMember).
MemberCountExact ==
  \A d \in DOMAIN demands :
    /\ demands[d].count = Cardinality(MembersOf(d))
    /\ demands[d].count <= demands[d].max

\* A demand is shown READY to merchants only once its minimum is reached,
\* whatever reviews it went through (AddDemandMember, ReviewDemand).
ReadyMeansMinimumMet ==
  \A d \in DOMAIN demands :
    demands[d].status = "READY" => demands[d].count >= demands[d].min

\* A campaign that takes or took orders stands on an accepted offer that was
\* made by its merchant for its demand (CreateCampaign, ReviewCampaign).
CampaignStandsOnItsOffer ==
  \A c \in DOMAIN campaigns :
    /\ campaigns[c].offer \in DOMAIN offers
    /\ offers[campaigns[c].offer].demand = campaigns[c].demand
    /\ offers[campaigns[c].offer].merchant = campaigns[c].merchant
    /\ campaigns[c].status \in {"OPEN", "SOLD_OUT"}
         => offers[campaigns[c].offer].status = "ACCEPTED"

\* A campaign is SOLD_OUT only when its whole capacity is taken, and never
\* takes more than its capacity (CreateOrder).
SoldOutExactlyWhenFull ==
  \A c \in DOMAIN campaigns :
    /\ campaigns[c].current <= campaigns[c].max
    /\ campaigns[c].status = "SOLD_OUT" => campaigns[c].current = campaigns[c].max

-----------------------------------------------------------------------------
(***************************************************************************)
(* The store keeps the promise of Seats twice over: the members of a       *)
(* demand within its maximum, the orders of a campaign within its          *)
(* capacity.                                                               *)
(***************************************************************************)

\* A demand as a resource: each member holds one unit of it.
DemandCapacity ==
  [d \in DemandIds |-> IF d \in DOMAIN demands THEN demands[d].max ELSE 0]
DemandTaken ==
  [d \in DemandIds |-> IF d \in DOMAIN demands THEN demands[d].count ELSE 0]
DemandClaim ==
  [d \in DemandIds |-> [u \in Users |-> IF <<d, u>> \in members THEN 1 ELSE 0]]

MemberSeats == INSTANCE Seats WITH
  Resources <- DemandIds, Claimants <- Users,
  Amounts <- {1} \cup {l.max : l \in MemberLimits},
  capacity <- DemandCapacity, taken <- DemandTaken, claim <- DemandClaim

\* A campaign as a resource: an order holds its quantity of it.
CampaignCapacity ==
  [c \in CampaignIds |-> IF c \in DOMAIN campaigns THEN campaigns[c].max ELSE 0]
CampaignTaken ==
  [c \in CampaignIds |-> IF c \in DOMAIN campaigns THEN campaigns[c].current ELSE 0]
CampaignClaim ==
  [c \in CampaignIds |-> [x \in OrderIds |->
     IF x \in DOMAIN orders /\ orders[x].campaign = c THEN orders[x].quantity ELSE 0]]

OrderSeats == INSTANCE Seats WITH
  Resources <- CampaignIds, Claimants <- OrderIds,
  Amounts <- Quantities \cup {l.max : l \in OrderLimits},
  capacity <- CampaignCapacity, taken <- CampaignTaken, claim <- CampaignClaim

\* Joining a demand claims one of its seats, and nothing else does.
MembersWithinDemand == MemberSeats!Spec

\* Placing an order claims its quantity of the campaign, and nothing else does.
OrdersWithinCampaign == OrderSeats!Spec
=============================================================================
