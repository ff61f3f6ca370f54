SPECIFICATION FairPgSpec
CONSTANTS
  Users = {u1, u2}
  Merchants = {m1}
  DemandIds = {d1}
  OfferIds = {o1}
  CampaignIds = {c1, c2}
  OrderIds = {x1, x2}
  Specs <- OneSpec
  MemberLimits <- MCMemberLimits
  OrderLimits <- MCOrderLimits
  Quantities = {1}
  Sessions = {s1, s2}
  NoRow = NoRow
  MerchantReviews = {"APPROVED"}
INVARIANTS
  PgTypeOK
  CampaignStandsOnItsOffer
PROPERTIES
  MembersWithinDemand
  OrdersWithinCampaign
  WritesKeepReviews
  EveryTransactionEnds
