SPECIFICATION Spec
CONSTANTS
  Users = {u1, u2}
  Merchants = {m1}
  DemandIds = {d1}
  OfferIds = {o1}
  CampaignIds = {c1, c2}
  OrderIds = {x1, x2, x3}
  Specs <- OneSpec
  MemberLimits <- MCMemberLimits
  OrderLimits <- MCOrderLimits
  Quantities = {1, 2}
SYMMETRY Symmetry
INVARIANTS
  TypeOK
  MemberCountExact
  ReadyMeansMinimumMet
  CampaignStandsOnItsOffer
  SoldOutExactlyWhenFull
PROPERTIES
  MembersWithinDemand
  OrdersWithinCampaign
