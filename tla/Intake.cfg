SPECIFICATION IntakeSpec
CONSTANTS
  Users = {u1, u2}
  Merchants = {}
  DemandIds = {d1, d2}
  OfferIds = {}
  CampaignIds = {}
  OrderIds = {}
  Specs <- TwoSpecs
  MemberLimits <- LimitsOne
  OrderLimits <- NoLimits
  Quantities = {}
  Requests = {r1, r2, r3}
  NoDemand = NoDemand
  NoForm = NoForm
INVARIANTS
  IntakeTypeOK
  AnswersStayTrue
  EmptyClusterIsExplained
  CreatorRefusedOnlyIfOvertaken
CHECK_DEADLOCK FALSE
