SPECIFICATION SandboxSpec
CONSTANTS
  TradeNos = {t1, t2}
  RefundNos = {f1, f2}
  Keys = {k1, k2, k3}
  Amounts = {1, 2}
INVARIANTS
  SandboxTypeOK
  RefundsStandOnPayments
PROPERTIES
  KeysKeepTheirRequest
  FollowsLifecycle
