---------------------------- MODULE MarketProofs ----------------------------
(***************************************************************************)
(* Proofs about Market, for any sets of consumers, merchants, identifiers, *)
(* specifications, limits and quantities.                                  *)
(*                                                                         *)
(* TypeOK alone is not inductive: ReviewCampaign writes back the offer of  *)
(* the campaign, which is an offer of the store only because of            *)
(* CampaignStandsOnItsOffer.  The inductive invariant is IInv.             *)
(***************************************************************************)
EXTENDS Market, FiniteSetTheorems, TLAPS

\* The members of a demand are finitely many: they joined one at a time.
MembersFinite == \A d \in DOMAIN demands : IsFiniteSet(MembersOf(d))

IInv ==
  /\ TypeOK
  /\ CampaignStandsOnItsOffer
  /\ ReadyMeansMinimumMet
  /\ SoldOutExactlyWhenFull
  /\ MembersFinite
  /\ MemberCountExact

-----------------------------------------------------------------------------
\* Maps.

\* Put keeps a map typed.
LEMMA PutIsMap ==
  ASSUME NEW Keys, NEW Values, NEW map, IsMap(map, Keys, Values),
         NEW key \in Keys, NEW value \in Values
  PROVE  IsMap(Put(map, key, value), Keys, Values)
BY DEF Put, IsMap

\* The empty map is a map of any type (the maps NewMemoryStore makes).
LEMMA EmptyIsMap ==
  ASSUME NEW Keys, NEW Values
  PROVE  IsMap(EmptyMap, Keys, Values) /\ DOMAIN EmptyMap = {}
BY DEF EmptyMap, IsMap

\* What joining does to a demand's row (AddDemandMember): one more member, and
\* OPEN becomes READY exactly when the minimum is reached.
LEMMA WithMemberRow ==
  ASSUME NEW demand \in Demand
  PROVE  /\ WithMember(demand) \in Demand
         /\ WithMember(demand).count = demand.count + 1
         /\ WithMember(demand).min = demand.min
         /\ WithMember(demand).max = demand.max
         /\ WithMember(demand).status # demand.status
              => WithMember(demand).status = "READY" /\ demand.count + 1 >= demand.min
<1>1. PICK s \in DemandStatus : WithMember(demand) =
        [demand EXCEPT !.count = demand.count + 1, !.status = s]
  BY DEF WithMember, Demand, DemandStatus
<1>2. demand.count + 1 \in Nat
  BY DEF Demand
<1>3. WithMember(demand) \in Demand
  BY <1>1, <1>2 DEF Demand
<1> QED
  BY <1>3 DEF WithMember, Demand

\* What an order does to a campaign's row (CreateOrder): the quantity is taken,
\* and the row is SOLD_OUT, if it was not already, exactly when it is full.
LEMMA WithOrderRow ==
  ASSUME NEW campaign \in Campaign, NEW quantity \in Nat
  PROVE  /\ WithOrder(campaign, quantity) \in Campaign
         /\ WithOrder(campaign, quantity).current = campaign.current + quantity
         /\ WithOrder(campaign, quantity).max = campaign.max
         /\ WithOrder(campaign, quantity).offer = campaign.offer
         /\ WithOrder(campaign, quantity).demand = campaign.demand
         /\ WithOrder(campaign, quantity).merchant = campaign.merchant
         /\ WithOrder(campaign, quantity).status # campaign.status
              => /\ WithOrder(campaign, quantity).status = "SOLD_OUT"
                 /\ campaign.current + quantity >= campaign.max
<1>1. PICK s \in CampaignStatus : WithOrder(campaign, quantity) =
        [campaign EXCEPT !.current = campaign.current + quantity, !.status = s]
  BY DEF WithOrder, Campaign, CampaignStatus
<1>2. campaign.current + quantity \in Nat
  BY DEF Campaign
<1>3. WithOrder(campaign, quantity) \in Campaign
  BY <1>1, <1>2 DEF Campaign
<1> QED
  BY <1>3 DEF WithOrder, Campaign

-----------------------------------------------------------------------------
\* Type correctness.

\* Every operation keeps the store typed (all of memory.go's mutations).
LEMMA TypeStep ==
  ASSUME TypeOK, CampaignStandsOnItsOffer, Next
  PROVE  TypeOK'
<1> USE DEF TypeOK
<1>1. ASSUME NEW m \in Merchants, CreateOrGetMerchant(m)  PROVE TypeOK'
  <2>1. "PENDING" \in MerchantStatus
    BY DEF MerchantStatus
  <2> QED
    BY <1>1, <2>1, PutIsMap DEF CreateOrGetMerchant
<1>2. ASSUME NEW m \in Merchants, NEW decision \in MerchantDecisions,
             ReviewMerchant(m, decision)
      PROVE  TypeOK'
  <2>1. decision \in MerchantStatus
    BY DEF MerchantDecisions, MerchantStatus
  <2> QED
    BY <1>2, <2>1, PutIsMap DEF ReviewMerchant
<1>3. ASSUME NEW d \in DemandIds, NEW u \in Users, NEW spec \in Specs,
             NEW limit \in MemberLimits, CreateDemand(d, u, spec, limit)
      PROVE  TypeOK'
  <2> DEFINE new == [status |-> "PENDING_REVIEW", spec |-> spec, createdBy |-> u,
                     min |-> limit.min, max |-> limit.max, count |-> 0]
  <2>1. new \in Demand
    BY LimitsAssumption DEF Demand, DemandStatus, Limit
  <2>2. IsMap(demands', DemandIds, Demand) /\ DOMAIN demands' = DOMAIN demands \cup {d}
    BY <1>3, <2>1, PutIsMap DEF CreateDemand, Put
  <2> QED
    BY <1>3, <2>2 DEF CreateDemand
<1>4. ASSUME NEW d \in DemandIds, NEW u \in Users, AddDemandMember(d, u)
      PROVE  TypeOK'
  <2>1. d \in DOMAIN demands /\ demands[d] \in Demand
    BY <1>4 DEF AddDemandMember, CanJoin, IsMap
  <2>2. WithMember(demands[d]) \in Demand
    BY <2>1, WithMemberRow
  <2>3. IsMap(demands', DemandIds, Demand)
    <3>1. demands' = Put(demands, d, WithMember(demands[d]))
      BY <1>4 DEF AddDemandMember
    <3> QED
      BY <2>2, <3>1, PutIsMap
  <2>4. DOMAIN demands' = DOMAIN demands
    BY <1>4, <2>1 DEF AddDemandMember, Put
  <2> QED
    BY <1>4, <2>1, <2>3, <2>4 DEF AddDemandMember
<1>5. ASSUME NEW d \in DemandIds, NEW decision \in DemandDecisions,
             ReviewDemand(d, decision)
      PROVE  TypeOK'
  <2>1. d \in DOMAIN demands /\ demands[d] \in Demand
    BY <1>5 DEF ReviewDemand, IsMap
  <2>2. [demands[d] EXCEPT !.status = decision] \in Demand
    BY <2>1 DEF Demand, DemandDecisions, DemandStatus
  <2>3. IsMap(demands', DemandIds, Demand) /\ DOMAIN demands' = DOMAIN demands
    BY <1>5, <2>1, <2>2, PutIsMap DEF ReviewDemand, Put
  <2> QED
    BY <1>5, <2>3 DEF ReviewDemand
<1>6. ASSUME NEW o \in OfferIds, NEW d \in DemandIds, NEW m \in Merchants,
             CreateOffer(o, d, m)
      PROVE  TypeOK'
  <2>1. [status |-> "SUBMITTED", demand |-> d, merchant |-> m] \in Offer
    BY DEF Offer, OfferStatus
  <2> QED
    BY <1>6, <2>1, PutIsMap DEF CreateOffer
<1>7. ASSUME NEW c \in CampaignIds, NEW o \in OfferIds, NEW d \in DemandIds,
             NEW m \in Merchants, NEW limit \in OrderLimits,
             CreateCampaign(c, o, d, m, limit)
      PROVE  TypeOK'
  <2>1. [status |-> "PENDING_REVIEW", demand |-> d, offer |-> o, merchant |-> m,
         min |-> limit.min, max |-> limit.max, current |-> 0] \in Campaign
    BY LimitsAssumption DEF Campaign, CampaignStatus, Limit
  <2> QED
    BY <1>7, <2>1, PutIsMap DEF CreateCampaign
<1>8. ASSUME NEW c \in CampaignIds, NEW decision \in CampaignDecisions,
             ReviewCampaign(c, decision)
      PROVE  TypeOK'
  <2>1. c \in DOMAIN campaigns /\ campaigns[c] \in Campaign
    BY <1>8 DEF ReviewCampaign, OpenCampaign, CancelCampaign, IsMap
  <2>2. campaigns[c].offer \in OfferIds /\ offers[campaigns[c].offer] \in Offer
    BY <2>1 DEF CampaignStandsOnItsOffer, Campaign, IsMap
  <2>3. CASE OpenCampaign(c)
    <3>1. /\ [offers[campaigns[c].offer] EXCEPT !.status = "ACCEPTED"] \in Offer
          /\ [campaigns[c] EXCEPT !.status = "OPEN"] \in Campaign
      BY <2>1, <2>2 DEF Offer, OfferStatus, Campaign, CampaignStatus
    <3> QED
      BY <2>2, <2>3, <3>1, PutIsMap DEF OpenCampaign
  <2>4. CASE CancelCampaign(c)
    <3>1. [campaigns[c] EXCEPT !.status = "CANCELLED"] \in Campaign
      BY <2>1 DEF Campaign, CampaignStatus
    <3> QED
      BY <2>4, <3>1, PutIsMap DEF CancelCampaign
  <2> QED
    BY <1>8, <2>3, <2>4 DEF ReviewCampaign
<1>9. ASSUME NEW x \in OrderIds, NEW c \in CampaignIds,
             NEW quantity \in Quantities, CreateOrder(x, c, quantity)
      PROVE  TypeOK'
  <2>1. c \in DOMAIN campaigns /\ campaigns[c] \in Campaign /\ quantity \in Nat
    BY <1>9, QuantitiesAssumption DEF CreateOrder, IsMap
  <2>2. WithOrder(campaigns[c], quantity) \in Campaign
    BY <2>1, WithOrderRow
  <2>3. [campaign |-> c, quantity |-> quantity] \in Order
    BY <2>1 DEF Order
  <2> QED
    BY <1>9, <2>2, <2>3, PutIsMap DEF CreateOrder
<1> QED
  BY <1>1, <1>2, <1>3, <1>4, <1>5, <1>6, <1>7, <1>8, <1>9 DEF Next

-----------------------------------------------------------------------------
\* The safety invariants.

\* No join, review or order breaks what READY says (memory.go:207-210, 233-248).
LEMMA ReadyStep ==
  ASSUME TypeOK, ReadyMeansMinimumMet, Next
  PROVE  ReadyMeansMinimumMet'
<1> USE DEF ReadyMeansMinimumMet
<1>1. ASSUME NEW d \in DemandIds, NEW u \in Users, NEW spec \in Specs,
             NEW limit \in MemberLimits, CreateDemand(d, u, spec, limit)
      PROVE  ReadyMeansMinimumMet'
  BY <1>1 DEF CreateDemand, Put
<1>2. ASSUME NEW d \in DemandIds, NEW u \in Users, AddDemandMember(d, u)
      PROVE  ReadyMeansMinimumMet'
  <2>1. d \in DOMAIN demands /\ demands[d] \in Demand
    BY <1>2 DEF AddDemandMember, CanJoin, TypeOK, IsMap
  <2>2. demands' = Put(demands, d, WithMember(demands[d]))
    BY <1>2 DEF AddDemandMember
  <2>3. WithMember(demands[d]).status = "READY"
          => WithMember(demands[d]).count >= WithMember(demands[d]).min
    BY <2>1, WithMemberRow DEF Demand
  <2> QED
    BY <2>1, <2>2, <2>3 DEF Put
<1>3. ASSUME NEW d \in DemandIds, NEW decision \in DemandDecisions,
             ReviewDemand(d, decision)
      PROVE  ReadyMeansMinimumMet'
  <2>1. d \in DOMAIN demands /\ demands[d] \in Demand
    BY <1>3 DEF ReviewDemand, TypeOK, IsMap
  <2>2. [demands[d] EXCEPT !.status = decision].status # "READY"
    BY <2>1 DEF Demand, DemandDecisions
  <2> QED
    BY <1>3, <2>1, <2>2 DEF ReviewDemand, Put
<1>4. CASE UNCHANGED demands
  BY <1>4
<1> QED
  BY <1>1, <1>2, <1>3, <1>4
  DEF Next, CreateOrGetMerchant, ReviewMerchant, CreateOffer, CreateCampaign,
      ReviewCampaign, OpenCampaign, CancelCampaign, CreateOrder

\* No operation takes a campaign off the accepted offer it stands on: an offer
\* is never removed, reassigned or taken back (memory.go:335-429).
LEMMA OfferStep ==
  ASSUME TypeOK, CampaignStandsOnItsOffer, Next
  PROVE  CampaignStandsOnItsOffer'
<1> USE DEF CampaignStandsOnItsOffer
<1>1. ASSUME NEW o \in OfferIds, NEW d \in DemandIds, NEW m \in Merchants,
             CreateOffer(o, d, m)
      PROVE  CampaignStandsOnItsOffer'
  <2>1. /\ DOMAIN offers \subseteq DOMAIN offers'
        /\ \A k \in DOMAIN offers : offers'[k] = offers[k]
    BY <1>1 DEF CreateOffer, Put
  <2>2. campaigns' = campaigns
    BY <1>1 DEF CreateOffer
  <2> QED
    BY <2>1, <2>2
<1>2. ASSUME NEW c \in CampaignIds, NEW o \in OfferIds, NEW d \in DemandIds,
             NEW m \in Merchants, NEW limit \in OrderLimits,
             CreateCampaign(c, o, d, m, limit)
      PROVE  CampaignStandsOnItsOffer'
  <2> DEFINE row == [status |-> "PENDING_REVIEW", demand |-> d, offer |-> o,
                     merchant |-> m, min |-> limit.min, max |-> limit.max, current |-> 0]
  <2>1. /\ o \in DOMAIN offers /\ offers[o].demand = d /\ offers[o].merchant = m
        /\ offers' = offers /\ campaigns' = Put(campaigns, c, row)
    BY <1>2 DEF CreateCampaign
  <2>2. /\ DOMAIN campaigns' = DOMAIN campaigns \cup {c} /\ campaigns'[c] = row
        /\ \A k \in DOMAIN campaigns : k # c => campaigns'[k] = campaigns[k]
    BY <2>1 DEF Put
  <2> QED
    BY <2>1, <2>2
<1>3. ASSUME NEW c \in CampaignIds, OpenCampaign(c)
      PROVE  CampaignStandsOnItsOffer'
  <2> DEFINE o == campaigns[c].offer
  <2>1. /\ c \in DOMAIN campaigns /\ campaigns[c] \in Campaign
        /\ o \in DOMAIN offers /\ offers[o] \in Offer
    BY <1>3 DEF OpenCampaign, TypeOK, IsMap
  <2>2. /\ DOMAIN offers' = DOMAIN offers
        /\ \A k \in DOMAIN offers :
             /\ offers'[k].demand = offers[k].demand
             /\ offers'[k].merchant = offers[k].merchant
             /\ k = o \/ offers[k].status = "ACCEPTED" => offers'[k].status = "ACCEPTED"
    BY <1>3, <2>1 DEF OpenCampaign, Offer, Put
  <2>3. /\ DOMAIN campaigns' = DOMAIN campaigns
        /\ \A k \in DOMAIN campaigns :
             /\ campaigns'[k].offer = campaigns[k].offer
             /\ campaigns'[k].demand = campaigns[k].demand
             /\ campaigns'[k].merchant = campaigns[k].merchant
             /\ k # c => campaigns'[k].status = campaigns[k].status
    BY <1>3, <2>1 DEF OpenCampaign, Campaign, Put
  <2> QED
    BY <2>1, <2>2, <2>3
<1>4. ASSUME NEW c \in CampaignIds, CancelCampaign(c)
      PROVE  CampaignStandsOnItsOffer'
  <2>1. c \in DOMAIN campaigns /\ campaigns[c] \in Campaign
    BY <1>4 DEF CancelCampaign, TypeOK, IsMap
  <2> QED
    BY <1>4, <2>1 DEF CancelCampaign, Campaign, Put
<1>5. ASSUME NEW x \in OrderIds, NEW c \in CampaignIds,
             NEW quantity \in Quantities, CreateOrder(x, c, quantity)
      PROVE  CampaignStandsOnItsOffer'
  <2> DEFINE row == WithOrder(campaigns[c], quantity)
  <2>1. /\ c \in DOMAIN campaigns /\ campaigns[c] \in Campaign /\ quantity \in Nat
        /\ campaigns[c].status = "OPEN"
    BY <1>5, QuantitiesAssumption DEF CreateOrder, CanOrder, TypeOK, IsMap
  <2>2. row.offer = campaigns[c].offer /\ row.demand = campaigns[c].demand
        /\ row.merchant = campaigns[c].merchant
    BY <2>1, WithOrderRow
  <2> QED
    BY <1>5, <2>1, <2>2 DEF CreateOrder, Put
<1>6. CASE UNCHANGED <<offers, campaigns>>
  BY <1>6
<1> QED
  BY <1>1, <1>2, <1>3, <1>4, <1>5, <1>6
  DEF Next, CreateOrGetMerchant, ReviewMerchant, CreateDemand, AddDemandMember,
      ReviewDemand, ReviewCampaign

\* No order or review takes a campaign over its capacity or shows it sold out
\* early (memory.go:403-472).
LEMMA SoldOutStep ==
  ASSUME TypeOK, SoldOutExactlyWhenFull, Next
  PROVE  SoldOutExactlyWhenFull'
<1> USE DEF SoldOutExactlyWhenFull
<1>1. ASSUME NEW c \in CampaignIds, NEW o \in OfferIds, NEW d \in DemandIds,
             NEW m \in Merchants, NEW limit \in OrderLimits,
             CreateCampaign(c, o, d, m, limit)
      PROVE  SoldOutExactlyWhenFull'
  BY <1>1, LimitsAssumption DEF CreateCampaign, Limit, Put
<1>2. ASSUME NEW c \in CampaignIds, OpenCampaign(c) \/ CancelCampaign(c)
      PROVE  SoldOutExactlyWhenFull'
  <2>1. c \in DOMAIN campaigns /\ campaigns[c] \in Campaign
    BY <1>2 DEF OpenCampaign, CancelCampaign, TypeOK, IsMap
  <2>2. PICK status \in {"OPEN", "CANCELLED"} :
          campaigns' = Put(campaigns, c, [campaigns[c] EXCEPT !.status = status])
    BY <1>2 DEF OpenCampaign, CancelCampaign
  <2> QED
    BY <2>1, <2>2 DEF Campaign, Put
<1>3. ASSUME NEW x \in OrderIds, NEW c \in CampaignIds,
             NEW quantity \in Quantities, CreateOrder(x, c, quantity)
      PROVE  SoldOutExactlyWhenFull'
  <2> DEFINE row == WithOrder(campaigns[c], quantity)
  <2>1. /\ c \in DOMAIN campaigns /\ campaigns[c] \in Campaign /\ quantity \in Nat
        /\ CanOrder(campaigns[c], quantity)
    BY <1>3, QuantitiesAssumption DEF CreateOrder, TypeOK, IsMap
  <2>2. row.current <= row.max /\ (row.status = "SOLD_OUT" => row.current = row.max)
    <3>1. /\ row.current = campaigns[c].current + quantity /\ row.max = campaigns[c].max
          /\ row.status # campaigns[c].status
               => row.status = "SOLD_OUT" /\ campaigns[c].current + quantity >= campaigns[c].max
      BY <2>1, WithOrderRow
    <3>2. campaigns[c].current \in Nat /\ campaigns[c].max \in Nat
      BY <2>1 DEF Campaign
    <3> HIDE DEF row
    <3> QED
      BY <2>1, <3>1, <3>2 DEF CanOrder
  <2> QED
    BY <1>3, <2>1, <2>2 DEF CreateOrder, Put
<1>4. CASE UNCHANGED campaigns
  BY <1>4
<1> QED
  BY <1>1, <1>2, <1>3, <1>4
  DEF Next, CreateOrGetMerchant, ReviewMerchant, CreateDemand, AddDemandMember,
      ReviewDemand, CreateOffer, ReviewCampaign

\* Joins count their member, and nothing else touches a count or the members
\* (memory.go:186-221).
LEMMA CountStep ==
  ASSUME TypeOK, MembersFinite, MemberCountExact, Next
  PROVE  MembersFinite' /\ MemberCountExact'
<1> USE DEF MembersFinite, MemberCountExact
<1>1. ASSUME NEW d \in DemandIds, NEW u \in Users, NEW spec \in Specs,
             NEW limit \in MemberLimits, CreateDemand(d, u, spec, limit)
      PROVE  MembersFinite' /\ MemberCountExact'
  <2> DEFINE row == [status |-> "PENDING_REVIEW", spec |-> spec, createdBy |-> u,
                     min |-> limit.min, max |-> limit.max, count |-> 0]
  <2>1. d \notin DOMAIN demands /\ demands' = Put(demands, d, row) /\ members' = members
    BY <1>1 DEF CreateDemand
  <2>2. \A k : MembersOf(k)' = MembersOf(k)
    BY <2>1 DEF MembersOf
  <2>3. MembersOf(d) = {}
    BY <2>1 DEF MembersOf, TypeOK
  <2>4. IsFiniteSet(MembersOf(d)) /\ Cardinality(MembersOf(d)) = 0
    BY <2>3, FS_EmptySet
  <2>5. row.count = 0 /\ row.max \in Nat
    BY LimitsAssumption DEF Limit
  <2>6. /\ DOMAIN demands' = DOMAIN demands \cup {d} /\ demands'[d] = row
        /\ \A k \in DOMAIN demands : k # d => demands'[k] = demands[k]
    BY <2>1 DEF Put
  <2> HIDE DEF row
  <2> QED
    BY <2>2, <2>4, <2>5, <2>6
<1>2. ASSUME NEW d \in DemandIds, NEW u \in Users, AddDemandMember(d, u)
      PROVE  MembersFinite' /\ MemberCountExact'
  <2> DEFINE row == WithMember(demands[d])
  <2>1. /\ d \in DOMAIN demands /\ demands[d] \in Demand
        /\ demands[d].count < demands[d].max /\ <<d, u>> \notin members
    BY <1>2 DEF AddDemandMember, CanJoin, TypeOK, IsMap
  <2>2. demands' = Put(demands, d, row) /\ members' = members \cup {<<d, u>>}
    BY <1>2 DEF AddDemandMember
  <2>3. MembersOf(d)' = MembersOf(d) \cup {u} /\ u \notin MembersOf(d)
    BY <2>1, <2>2 DEF MembersOf
  <2>4. \A k \in DOMAIN demands : k # d => MembersOf(k)' = MembersOf(k)
    BY <2>2 DEF MembersOf
  <2>5. /\ IsFiniteSet(MembersOf(d)')
        /\ Cardinality(MembersOf(d)') = Cardinality(MembersOf(d)) + 1
    BY <2>1, <2>3, FS_AddElement
  <2>6. row.count = demands[d].count + 1 /\ row.max = demands[d].max
    BY <2>1, WithMemberRow
  <2>7. /\ DOMAIN demands' = DOMAIN demands /\ demands'[d] = row
        /\ \A k \in DOMAIN demands : k # d => demands'[k] = demands[k]
    BY <2>1, <2>2 DEF Put
  <2>8. demands[d].count \in Nat /\ demands[d].max \in Nat
    BY <2>1 DEF Demand
  <2> HIDE DEF row
  <2> QED
    BY <2>1, <2>4, <2>5, <2>6, <2>7, <2>8
<1>3. ASSUME NEW d \in DemandIds, NEW decision \in DemandDecisions,
             ReviewDemand(d, decision)
      PROVE  MembersFinite' /\ MemberCountExact'
  <2>1. /\ d \in DOMAIN demands /\ demands[d] \in Demand /\ members' = members
        /\ demands' = Put(demands, d, [demands[d] EXCEPT !.status = decision])
    BY <1>3 DEF ReviewDemand, TypeOK, IsMap
  <2>2. \A k : MembersOf(k)' = MembersOf(k)
    BY <2>1 DEF MembersOf
  <2>3. /\ DOMAIN demands' = DOMAIN demands
        /\ \A k \in DOMAIN demands : /\ demands'[k].count = demands[k].count
                                     /\ demands'[k].max = demands[k].max
    BY <2>1 DEF Put, Demand
  <2> QED
    BY <2>2, <2>3
<1>4. CASE UNCHANGED <<demands, members>>
  BY <1>4 DEF MembersOf
<1> QED
  BY <1>1, <1>2, <1>3, <1>4
  DEF Next, CreateOrGetMerchant, ReviewMerchant, CreateOffer, CreateCampaign,
      ReviewCampaign, OpenCampaign, CancelCampaign, CreateOrder

-----------------------------------------------------------------------------
\* An empty store satisfies the inductive invariant.
LEMMA InitIInv == Init => IInv
<1> SUFFICES ASSUME Init PROVE IInv
  OBVIOUS
<1>1. TypeOK
  BY EmptyIsMap DEF Init, TypeOK
<1>2. DOMAIN demands = {} /\ DOMAIN campaigns = {}
  BY EmptyIsMap DEF Init
<1> QED
  BY <1>1, <1>2 DEF IInv, CampaignStandsOnItsOffer, ReadyMeansMinimumMet,
     SoldOutExactlyWhenFull, MembersFinite, MemberCountExact

\* Every operation keeps it.
LEMMA NextIInv == IInv /\ [Next]_vars => IInv'
<1> SUFFICES ASSUME IInv, [Next]_vars PROVE IInv'
  OBVIOUS
<1>1. CASE Next
  BY <1>1, TypeStep, OfferStep, ReadyStep, SoldOutStep, CountStep DEF IInv
<1>2. CASE UNCHANGED vars
  BY <1>2 DEF vars, IInv, TypeOK, CampaignStandsOnItsOffer, ReadyMeansMinimumMet,
     SoldOutExactlyWhenFull, MembersFinite, MemberCountExact, MembersOf
<1> QED
  BY <1>1, <1>2

\* The inductive invariant holds in every reachable state of the store.
THEOREM Invariance == Spec => []IInv
BY InitIInv, NextIInv, PTL DEF Spec

\* Every row of the store is typed, whatever operations ran.
THEOREM TypeCorrect == Spec => []TypeOK
<1>1. IInv => TypeOK
  BY DEF IInv
<1> QED
  BY <1>1, Invariance, PTL

\* A demand's member_count is the number of its members and stays within its
\* maximum, for any number of consumers (AddDemandMember).
THEOREM MemberCountIsExact == Spec => []MemberCountExact
<1>1. IInv => MemberCountExact
  BY DEF IInv
<1> QED
  BY <1>1, Invariance, PTL

\* A demand is READY only with its minimum reached, however often it was
\* reviewed (AddDemandMember, ReviewDemand).
THEOREM ReadyIsEarned == Spec => []ReadyMeansMinimumMet
<1>1. IInv => ReadyMeansMinimumMet
  BY DEF IInv
<1> QED
  BY <1>1, Invariance, PTL

\* A campaign open for orders stands on an accepted offer of its own merchant
\* for its own demand (CreateCampaign, ReviewCampaign).
THEOREM CampaignsStand == Spec => []CampaignStandsOnItsOffer
<1>1. IInv => CampaignStandsOnItsOffer
  BY DEF IInv
<1> QED
  BY <1>1, Invariance, PTL

\* A campaign never takes more than its capacity, and is SOLD_OUT only when it
\* took all of it (CreateOrder, ReviewCampaign).
THEOREM NeverOversold == Spec => []SoldOutExactlyWhenFull
<1>1. IInv => SoldOutExactlyWhenFull
  BY DEF IInv
<1> QED
  BY <1>1, Invariance, PTL

-----------------------------------------------------------------------------
\* The store implements Seats for the members of its demands.

\* A new cluster is offered, a join is one claim, and nothing else is a step.
LEMMA MemberStep ==
  ASSUME TypeOK, [Next]_vars
  PROVE  [MemberSeats!Next]_(MemberSeats!seats)
<1> USE DEF MemberSeats!seats
<1>1. ASSUME NEW d \in DemandIds, NEW u \in Users, NEW spec \in Specs,
             NEW limit \in MemberLimits, CreateDemand(d, u, spec, limit)
      PROVE  MemberSeats!Next
  <2> DEFINE row == [status |-> "PENDING_REVIEW", spec |-> spec, createdBy |-> u,
                     min |-> limit.min, max |-> limit.max, count |-> 0]
  <2>1. /\ d \notin DOMAIN demands /\ members' = members
        /\ DOMAIN demands' = DOMAIN demands \cup {d} /\ demands'[d] = row
        /\ \A k \in DOMAIN demands : demands'[k] = demands[k]
    BY <1>1 DEF CreateDemand, Put
  <2>2. row.max = limit.max /\ row.count = 0
    OBVIOUS
  <2> HIDE DEF row
  <2>3. DemandCapacity[d] = 0 /\ DemandCapacity' = [DemandCapacity EXCEPT ![d] = limit.max]
    BY <2>1, <2>2 DEF DemandCapacity
  <2>4. DemandTaken' = DemandTaken
    BY <2>1, <2>2 DEF DemandTaken
  <2>5. DemandClaim' = DemandClaim
    BY <2>1 DEF DemandClaim
  <2> QED
    BY <2>3, <2>4, <2>5 DEF MemberSeats!Next, MemberSeats!Offer
<1>2. ASSUME NEW d \in DemandIds, NEW u \in Users, AddDemandMember(d, u)
      PROVE  MemberSeats!Next
  <2> DEFINE row == WithMember(demands[d])
  <2>1. /\ d \in DOMAIN demands /\ demands[d] \in Demand
        /\ demands[d].count < demands[d].max /\ <<d, u>> \notin members
        /\ members' = members \cup {<<d, u>>}
    BY <1>2 DEF AddDemandMember, CanJoin, TypeOK, IsMap
  <2>2. row.count = demands[d].count + 1 /\ row.max = demands[d].max
    BY <2>1, WithMemberRow
  <2>3. /\ DOMAIN demands' = DOMAIN demands /\ demands'[d] = row
        /\ \A k \in DOMAIN demands : k # d => demands'[k] = demands[k]
    BY <1>2, <2>1 DEF AddDemandMember, Put
  <2>4. demands[d].count \in Nat /\ demands[d].max \in Nat
    BY <2>1 DEF Demand
  <2> HIDE DEF row
  <2>5. DemandCapacity' = DemandCapacity
    BY <2>2, <2>3 DEF DemandCapacity
  <2>6. /\ DemandTaken[d] + 1 <= DemandCapacity[d]
        /\ DemandTaken' = [DemandTaken EXCEPT ![d] = @ + 1]
    <3>1. DemandTaken[d] = demands[d].count /\ DemandCapacity[d] = demands[d].max
      BY <2>1 DEF DemandCapacity, DemandTaken
    <3>2. DemandTaken[d] + 1 <= DemandCapacity[d]
      BY <2>1, <2>4, <3>1
    <3>3. DemandTaken' = [DemandTaken EXCEPT ![d] = demands[d].count + 1]
      BY <2>1, <2>2, <2>3 DEF DemandTaken
    <3> QED
      BY <3>1, <3>2, <3>3
  <2>7. DemandClaim[d][u] = 0 /\ DemandClaim' = [DemandClaim EXCEPT ![d][u] = 1]
    BY <2>1 DEF DemandClaim
  <2> QED
    BY <2>5, <2>6, <2>7 DEF MemberSeats!Next, MemberSeats!Claim
<1>3. ASSUME NEW d \in DemandIds, NEW decision \in DemandDecisions,
             ReviewDemand(d, decision)
      PROVE  UNCHANGED MemberSeats!seats
  <2>1. d \in DOMAIN demands /\ demands[d] \in Demand /\ members' = members
    BY <1>3 DEF ReviewDemand, TypeOK, IsMap
  <2>2. /\ DOMAIN demands' = DOMAIN demands
        /\ \A k \in DOMAIN demands : /\ demands'[k].max = demands[k].max
                                     /\ demands'[k].count = demands[k].count
    BY <1>3, <2>1 DEF ReviewDemand, Put, Demand
  <2> QED
    BY <2>1, <2>2 DEF DemandCapacity, DemandTaken, DemandClaim
<1>4. ASSUME UNCHANGED <<demands, members>>
      PROVE  UNCHANGED MemberSeats!seats
  BY <1>4 DEF DemandCapacity, DemandTaken, DemandClaim
<1> QED
  BY <1>1, <1>2, <1>3, <1>4
  DEF Next, vars, CreateOrGetMerchant, ReviewMerchant, CreateOffer, CreateCampaign,
      ReviewCampaign, OpenCampaign, CancelCampaign, CreateOrder

\* Joining a demand claims one of its seats, within its maximum and at most
\* once per consumer, and nothing else moves a seat (AddDemandMember).
THEOREM MembersImplementSeats == Spec => MembersWithinDemand
<1>1. Init => MemberSeats!Init
  BY EmptyIsMap DEF Init, MemberSeats!Init, DemandCapacity, DemandTaken, DemandClaim
<1>2. IInv => TypeOK
  BY DEF IInv
<1> QED
  BY <1>1, <1>2, MemberStep, Invariance, PTL DEF Spec, MembersWithinDemand, MemberSeats!Spec

-----------------------------------------------------------------------------
\* The store implements Seats for the orders of its campaigns.

\* A new campaign is offered, an order is one claim of its quantity, and
\* nothing else is a step.
LEMMA OrderStep ==
  ASSUME TypeOK, [Next]_vars
  PROVE  [OrderSeats!Next]_(OrderSeats!seats)
<1> USE DEF OrderSeats!seats
<1>1. ASSUME NEW c \in CampaignIds, NEW o \in OfferIds, NEW d \in DemandIds,
             NEW m \in Merchants, NEW limit \in OrderLimits,
             CreateCampaign(c, o, d, m, limit)
      PROVE  OrderSeats!Next
  <2> DEFINE row == [status |-> "PENDING_REVIEW", demand |-> d, offer |-> o,
                     merchant |-> m, min |-> limit.min, max |-> limit.max, current |-> 0]
  <2>1. /\ c \notin DOMAIN campaigns /\ orders' = orders
        /\ DOMAIN campaigns' = DOMAIN campaigns \cup {c} /\ campaigns'[c] = row
        /\ \A k \in DOMAIN campaigns : campaigns'[k] = campaigns[k]
    BY <1>1 DEF CreateCampaign, Put
  <2>2. row.max = limit.max /\ row.current = 0
    OBVIOUS
  <2> HIDE DEF row
  <2>3. CampaignCapacity[c] = 0 /\ CampaignCapacity' = [CampaignCapacity EXCEPT ![c] = limit.max]
    BY <2>1, <2>2 DEF CampaignCapacity
  <2>4. CampaignTaken' = CampaignTaken
    BY <2>1, <2>2 DEF CampaignTaken
  <2>5. CampaignClaim' = CampaignClaim
    BY <2>1 DEF CampaignClaim
  <2> QED
    BY <2>3, <2>4, <2>5 DEF OrderSeats!Next, OrderSeats!Offer
<1>2. ASSUME NEW x \in OrderIds, NEW c \in CampaignIds,
             NEW quantity \in Quantities, CreateOrder(x, c, quantity)
      PROVE  OrderSeats!Next
  <2> DEFINE row   == WithOrder(campaigns[c], quantity)
             order == [campaign |-> c, quantity |-> quantity]
  <2>1. /\ c \in DOMAIN campaigns /\ campaigns[c] \in Campaign /\ quantity \in Nat
        /\ campaigns[c].current + quantity <= campaigns[c].max /\ x \notin DOMAIN orders
    BY <1>2, QuantitiesAssumption DEF CreateOrder, CanOrder, TypeOK, IsMap
  <2>2. row.current = campaigns[c].current + quantity /\ row.max = campaigns[c].max
    BY <2>1, WithOrderRow
  <2>3. /\ DOMAIN campaigns' = DOMAIN campaigns /\ campaigns'[c] = row
        /\ \A k \in DOMAIN campaigns : k # c => campaigns'[k] = campaigns[k]
    BY <1>2, <2>1 DEF CreateOrder, Put
  <2>4. /\ DOMAIN orders' = DOMAIN orders \cup {x} /\ orders'[x] = order
        /\ \A k \in DOMAIN orders : orders'[k] = orders[k]
    BY <1>2, <2>1 DEF CreateOrder, Put
  <2>5. order.campaign = c /\ order.quantity = quantity
    OBVIOUS
  <2>6. campaigns[c].current \in Nat /\ campaigns[c].max \in Nat
    BY <2>1 DEF Campaign
  <2> HIDE DEF row, order
  <2>7. CampaignCapacity' = CampaignCapacity
    BY <2>2, <2>3 DEF CampaignCapacity
  <2>8. /\ CampaignTaken[c] + quantity <= CampaignCapacity[c]
        /\ CampaignTaken' = [CampaignTaken EXCEPT ![c] = @ + quantity]
    <3>1. /\ CampaignTaken[c] = campaigns[c].current
          /\ CampaignCapacity[c] = campaigns[c].max
      BY <2>1 DEF CampaignCapacity, CampaignTaken
    <3>2. CampaignTaken' = [CampaignTaken EXCEPT ![c] = campaigns[c].current + quantity]
      BY <2>1, <2>2, <2>3 DEF CampaignTaken
    <3> QED
      BY <2>1, <3>1, <3>2
  <2>9. /\ CampaignClaim[c][x] = 0
        /\ CampaignClaim' = [CampaignClaim EXCEPT ![c][x] = quantity]
    BY <2>1, <2>4, <2>5 DEF CampaignClaim
  <2> QED
    BY <2>7, <2>8, <2>9 DEF OrderSeats!Next, OrderSeats!Claim
<1>3. ASSUME NEW c \in CampaignIds, OpenCampaign(c) \/ CancelCampaign(c)
      PROVE  UNCHANGED OrderSeats!seats
  <2>1. c \in DOMAIN campaigns /\ campaigns[c] \in Campaign /\ orders' = orders
    BY <1>3 DEF OpenCampaign, CancelCampaign, TypeOK, IsMap
  <2>2. /\ DOMAIN campaigns' = DOMAIN campaigns
        /\ \A k \in DOMAIN campaigns : /\ campaigns'[k].max = campaigns[k].max
                                       /\ campaigns'[k].current = campaigns[k].current
    BY <1>3, <2>1 DEF OpenCampaign, CancelCampaign, Put, Campaign
  <2> QED
    BY <2>1, <2>2 DEF CampaignCapacity, CampaignTaken, CampaignClaim
<1>4. ASSUME UNCHANGED <<campaigns, orders>>
      PROVE  UNCHANGED OrderSeats!seats
  BY <1>4 DEF CampaignCapacity, CampaignTaken, CampaignClaim
<1> QED
  BY <1>1, <1>2, <1>3, <1>4
  DEF Next, vars, CreateOrGetMerchant, ReviewMerchant, CreateDemand, AddDemandMember,
      ReviewDemand, CreateOffer, ReviewCampaign

\* Placing an order claims its quantity of the campaign, within its capacity,
\* and no review or other operation moves capacity (CreateOrder).
THEOREM OrdersImplementSeats == Spec => OrdersWithinCampaign
<1>1. Init => OrderSeats!Init
  BY EmptyIsMap DEF Init, OrderSeats!Init, CampaignCapacity, CampaignTaken, CampaignClaim
<1>2. IInv => TypeOK
  BY DEF IInv
<1> QED
  BY <1>1, <1>2, OrderStep, Invariance, PTL DEF Spec, OrdersWithinCampaign, OrderSeats!Spec
=============================================================================
