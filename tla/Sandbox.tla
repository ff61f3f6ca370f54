------------------------------- MODULE Sandbox -------------------------------
(***************************************************************************)
(* The sandbox payment provider (internal/payment/sandbox.go), behind the  *)
(* payment HTTP endpoints: prepay, close, refund, and the simulated events *)
(* of the provider's side.  Every operation holds the provider's mutex and *)
(* is one action; a refused call changes nothing.                          *)
(*                                                                         *)
(* A request fingerprint is the request.  The key is left out of it for a  *)
(* prepay (json:"-") and is part of it for a refund.                       *)
(***************************************************************************)
EXTENDS Integers

CONSTANTS
  TradeNos, RefundNos,  \* the merchant's payment and refund numbers
  Keys,                 \* idempotency keys
  Amounts               \* of payments and refunds

ASSUME AmountsAssumption == Amounts \subseteq Nat \ {0}

VARIABLES
  payments,     \* trade number -> payment
  refunds,      \* refund number -> refund
  idempotency   \* key -> request it was used for

sandboxVars == <<payments, refunds, idempotency>>

Prepay == [kind : {"payment"}, trade : TradeNos, amount : Amounts]
\* validateRefundRequest compares the refund with the total the request states,
\* not with the amount of the payment.
Refund == {r \in [kind : {"refund"}, key : Keys, refund : RefundNos, trade : TradeNos,
                  total : Amounts, amount : Amounts] : r.amount <= r.total}

Payment == [request : Prepay, status : {"NOTPAY", "USERPAYING", "SUCCESS", "CLOSED", "REFUND"}]
RefundRow == [request : Refund, status : {"PROCESSING", "SUCCESS", "ABNORMAL"}]

Put(map, key, value) ==
  [k \in DOMAIN map \cup {key} |-> IF k = key THEN value ELSE map[k]]

SandboxTypeOK ==
  /\ DOMAIN payments \subseteq TradeNos
  /\ \A t \in DOMAIN payments : payments[t] \in Payment
  /\ DOMAIN refunds \subseteq RefundNos
  /\ \A r \in DOMAIN refunds : refunds[r] \in RefundRow
  /\ DOMAIN idempotency \subseteq Keys
  /\ \A k \in DOMAIN idempotency : idempotency[k] \in Prepay \cup Refund

EmptyMap == [k \in {} |-> k]

SandboxInit ==
  /\ payments = EmptyMap
  /\ refunds = EmptyMap
  /\ idempotency = EmptyMap

\* Faulty variant: a key on record is not compared.
KeyAllowsAnything(k, request) == TRUE

\* checkIdempotency: a key on record must be on record for this request; kind
\* is a field of the requests.
KeyAllows(k, request) == k \in DOMAIN idempotency => idempotency[k] = request

\* A trade number on record answers with its prepay, under any key, and only a
\* new one remembers the key.
CreateJSAPIPrepay(k, request) ==
  /\ KeyAllows(k, request)
  /\ IF request.trade \in DOMAIN payments
     THEN /\ payments[request.trade].request = request
          /\ UNCHANGED <<payments, idempotency>>
     ELSE /\ payments' = Put(payments, request.trade,
                             [request |-> request, status |-> "NOTPAY"])
          /\ idempotency' = Put(idempotency, k, request)
  /\ UNCHANGED refunds

PaymentMoves(t, from, to) ==
  /\ t \in DOMAIN payments /\ payments[t].status \in from
  /\ payments' = Put(payments, t, [payments[t] EXCEPT !.status = to])

\* Faulty variant: a payment that succeeded can be closed.
ClosePaymentAnyway(t) ==
  /\ PaymentMoves(t, {"NOTPAY", "USERPAYING", "SUCCESS", "REFUND"}, "CLOSED")
  /\ UNCHANGED <<refunds, idempotency>>

ClosePayment(t) ==
  /\ PaymentMoves(t, {"NOTPAY", "USERPAYING"}, "CLOSED")
  /\ UNCHANGED <<refunds, idempotency>>

MarkPaymentPaying(t) ==
  /\ PaymentMoves(t, {"NOTPAY"}, "USERPAYING")
  /\ UNCHANGED <<refunds, idempotency>>

\* Faulty variant: a payment arrives after the close.
MarkPaymentPaidAnyway(t) ==
  /\ PaymentMoves(t, {"NOTPAY", "USERPAYING", "CLOSED"}, "SUCCESS")
  /\ UNCHANGED <<refunds, idempotency>>

MarkPaymentPaid(t) ==
  /\ PaymentMoves(t, {"NOTPAY", "USERPAYING"}, "SUCCESS")
  /\ UNCHANGED <<refunds, idempotency>>

\* The payment must have succeeded, on a replay too.
ApplyRefund(request) ==
  /\ KeyAllows(request.key, request)
  /\ request.trade \in DOMAIN payments
  /\ payments[request.trade].status \in {"SUCCESS", "REFUND"}
  /\ IF request.refund \in DOMAIN refunds
     THEN /\ refunds[request.refund].request = request
          /\ UNCHANGED <<refunds, idempotency>>
     ELSE /\ refunds' = Put(refunds, request.refund,
                            [request |-> request, status |-> "PROCESSING"])
          /\ idempotency' = Put(idempotency, request.key, request)
  /\ UNCHANGED payments

\* Faulty variant: a failed refund is given the platform's status.
CompleteRefundLocally(r, success) ==
  /\ r \in DOMAIN refunds /\ refunds[r].status # "SUCCESS"
  /\ refunds' = Put(refunds, r,
       [refunds[r] EXCEPT !.status = IF success THEN "SUCCESS" ELSE "FAILED"])
  /\ UNCHANGED <<payments, idempotency>>

\* A refund of any amount makes the whole payment REFUND.  A refund that came
\* to nothing may be completed again.
CompleteRefund(r, success) ==
  /\ r \in DOMAIN refunds /\ refunds[r].status # "SUCCESS"
  /\ refunds' = Put(refunds, r,
       [refunds[r] EXCEPT !.status = IF success THEN "SUCCESS" ELSE "ABNORMAL"])
  /\ LET t == refunds[r].request.trade
     IN payments' = IF success /\ t \in DOMAIN payments
                    THEN Put(payments, t, [payments[t] EXCEPT !.status = "REFUND"])
                    ELSE payments
  /\ UNCHANGED idempotency

SandboxNext ==
  \/ \E k \in Keys, request \in Prepay : CreateJSAPIPrepay(k, request)
  \/ \E t \in TradeNos : ClosePayment(t) \/ MarkPaymentPaying(t) \/ MarkPaymentPaid(t)
  \/ \E request \in Refund : ApplyRefund(request)
  \/ \E r \in RefundNos, success \in BOOLEAN : CompleteRefund(r, success)

SandboxSpec == SandboxInit /\ [][SandboxNext]_sandboxVars

-----------------------------------------------------------------------------
\* A refund exists only against a payment that was paid, however closes, late
\* payments and failed refunds are interleaved, and a payment shows REFUND
\* exactly when one of its refunds succeeded (ApplyRefund, CompleteRefund).
RefundsStandOnPayments ==
  /\ \A r \in DOMAIN refunds :
       LET t == refunds[r].request.trade
       IN t \in DOMAIN payments /\ payments[t].status \in {"SUCCESS", "REFUND"}
  /\ \A t \in DOMAIN payments :
       payments[t].status = "REFUND" <=>
         \E r \in DOMAIN refunds : refunds[r].request.trade = t /\ refunds[r].status = "SUCCESS"

\* A remembered key keeps its request for good, and that request was carried
\* out: no call of either kind takes a key over (checkIdempotency,
\* rememberIdempotency).
KeysKeepTheirRequest ==
  [][\A k \in DOMAIN idempotency :
       /\ k \in DOMAIN idempotency' /\ idempotency'[k] = idempotency[k]
       /\ LET request == idempotency[k]
          IN IF request.kind = "payment"
             THEN payments'[request.trade].request = request
             ELSE refunds'[request.refund].request = request]_sandboxVars

-----------------------------------------------------------------------------
\* The provider's statuses as those of the platform's lifecycle.
PlatformPayment(status) ==
  CASE status = "NOTPAY" -> "PREPAY_CREATED"
    [] status = "USERPAYING" -> "PAYING"
    [] status = "SUCCESS" -> "PAID"
    [] status = "CLOSED" -> "CLOSED"
    [] status = "REFUND" -> "REFUNDED"
PlatformRefund(status) ==
  CASE status = "PROCESSING" -> "PROCESSING"
    [] status = "SUCCESS" -> "SUCCEEDED"
    [] status = "ABNORMAL" -> "FAILED"

LocalPayment == [t \in TradeNos |->
  IF t \in DOMAIN payments THEN PlatformPayment(payments[t].status) ELSE "PENDING"]
LocalRefund == [r \in RefundNos |->
  IF r \in DOMAIN refunds THEN PlatformRefund(refunds[r].status) ELSE "PENDING"]

Lifecycle == INSTANCE PaymentLifecycle WITH
  Payments <- TradeNos, Refunds <- RefundNos,
  payment <- LocalPayment, refund <- LocalRefund

\* Whatever a caller sees happen at the provider is a move the platform's state
\* machines accept (TransitionPayment, TransitionRefund).
FollowsLifecycle == Lifecycle!Spec
=============================================================================
