--------------------------- MODULE SandboxProofs ---------------------------
(***************************************************************************)
(* Proofs about Sandbox, for any sets of payment numbers, refund numbers,  *)
(* keys and amounts.                                                       *)
(*                                                                         *)
(* Neither of the two invariants is inductive alone: a replayed prepay or  *)
(* refund is found by the number in its request, so rows have to stand     *)
(* under the number of their own request, and a remembered key has to      *)
(* point at a row that carries its request.  SandboxInv says so.           *)
(***************************************************************************)
EXTENDS Sandbox, TLAPS

\* A row stands under the number its request names.
RowsUnderTheirNumber ==
  /\ \A t \in DOMAIN payments : payments[t].request.trade = t
  /\ \A r \in DOMAIN refunds : refunds[r].request.refund = r

\* The request of a remembered key was carried out.
CarriedOut(request) ==
  IF request.kind = "payment"
  THEN request.trade \in DOMAIN payments /\ payments[request.trade].request = request
  ELSE request.refund \in DOMAIN refunds /\ refunds[request.refund].request = request

KeysCarriedOut == \A k \in DOMAIN idempotency : CarriedOut(idempotency[k])

SandboxInv ==
  /\ SandboxTypeOK
  /\ RefundsStandOnPayments
  /\ RowsUnderTheirNumber
  /\ KeysCarriedOut

-----------------------------------------------------------------------------
\* The three calls that move a payment leave its request and the rest of the
\* provider alone, and no payment with a refund is moved (ClosePayment,
\* MarkPaymentPaying, MarkPaymentPaid).
LEMMA MoveFacts ==
  ASSUME SandboxTypeOK, NEW t \in TradeNos,
         NEW from \in SUBSET {"NOTPAY", "USERPAYING"},
         NEW to \in {"USERPAYING", "SUCCESS", "CLOSED"}, PaymentMoves(t, from, to)
  PROVE  /\ t \in DOMAIN payments /\ payments[t].status \in from
         /\ DOMAIN payments' = DOMAIN payments
         /\ payments'[t] \in Payment
         /\ payments'[t].status = to /\ payments'[t].request = payments[t].request
         /\ \A u \in DOMAIN payments : u # t => payments'[u] = payments[u]
<1>1. t \in DOMAIN payments /\ payments[t] \in Payment /\ payments[t].status \in from
  BY DEF PaymentMoves, SandboxTypeOK
<1>2. payments' = Put(payments, t, [payments[t] EXCEPT !.status = to])
  BY DEF PaymentMoves
<1>3. [payments[t] EXCEPT !.status = to] \in Payment
  BY <1>1 DEF Payment
<1>4. /\ [payments[t] EXCEPT !.status = to].status = to
      /\ [payments[t] EXCEPT !.status = to].request = payments[t].request
  BY <1>1 DEF Payment
<1> QED
  BY <1>1, <1>2, <1>3, <1>4 DEF Put

-----------------------------------------------------------------------------
\* The inductive invariant, operation by operation.

\* The moves of a payment keep the invariant (ClosePayment, MarkPaymentPaying,
\* MarkPaymentPaid).
LEMMA MoveKeepsInv ==
  ASSUME SandboxInv, NEW t \in TradeNos,
         NEW from \in SUBSET {"NOTPAY", "USERPAYING"},
         NEW to \in {"USERPAYING", "SUCCESS", "CLOSED"},
         PaymentMoves(t, from, to), UNCHANGED <<refunds, idempotency>>
  PROVE  SandboxInv'
<1> USE DEF SandboxInv
<1>1. /\ t \in DOMAIN payments /\ payments[t].status \in from
      /\ DOMAIN payments' = DOMAIN payments
      /\ payments'[t] \in Payment
      /\ payments'[t].status = to /\ payments'[t].request = payments[t].request
      /\ \A u \in DOMAIN payments : u # t => payments'[u] = payments[u]
  BY MoveFacts
<1>2. SandboxTypeOK'
  BY <1>1 DEF SandboxTypeOK
<1>3. RefundsStandOnPayments'
  BY <1>1 DEF RefundsStandOnPayments
<1>4. RowsUnderTheirNumber'
  BY <1>1 DEF RowsUnderTheirNumber
<1>5. KeysCarriedOut'
  BY <1>1 DEF KeysCarriedOut, CarriedOut
<1> QED
  BY <1>2, <1>3, <1>4, <1>5

\* A prepay, new or replayed, keeps the invariant (CreateJSAPIPrepay).
LEMMA PrepayKeepsInv ==
  ASSUME SandboxInv, NEW k \in Keys, NEW request \in Prepay, CreateJSAPIPrepay(k, request)
  PROVE  SandboxInv'
<1> USE DEF SandboxInv
<1> DEFINE row == [request |-> request, status |-> "NOTPAY"]
<1>1. CASE request.trade \in DOMAIN payments
  <2>1. UNCHANGED <<payments, refunds, idempotency>>
    BY <1>1 DEF CreateJSAPIPrepay
  <2> QED
    BY <2>1 DEF SandboxTypeOK, RefundsStandOnPayments, RowsUnderTheirNumber,
       KeysCarriedOut, CarriedOut
<1>2. CASE request.trade \notin DOMAIN payments
  <2>1. /\ payments' = Put(payments, request.trade, row)
        /\ idempotency' = Put(idempotency, k, request) /\ refunds' = refunds
    BY <1>2 DEF CreateJSAPIPrepay
  <2>2. row \in Payment /\ request.trade \in TradeNos /\ request.kind = "payment"
    BY DEF Payment, Prepay
  <2>3. row.request = request /\ row.status = "NOTPAY"
    OBVIOUS
  <2> HIDE DEF row
  <2>4. /\ DOMAIN payments' = DOMAIN payments \cup {request.trade}
        /\ payments'[request.trade] = row
        /\ \A u \in DOMAIN payments : payments'[u] = payments[u]
    BY <1>2, <2>1 DEF Put
  <2>5. /\ DOMAIN idempotency' = DOMAIN idempotency \cup {k} /\ idempotency'[k] = request
        /\ \A j \in DOMAIN idempotency : j # k => idempotency'[j] = idempotency[j]
    BY <2>1 DEF Put
  <2>6. SandboxTypeOK'
    BY <2>1, <2>2, <2>4, <2>5 DEF SandboxTypeOK
  <2>7. RefundsStandOnPayments'
    BY <1>2, <2>1, <2>3, <2>4 DEF RefundsStandOnPayments
  <2>8. RowsUnderTheirNumber'
    BY <2>1, <2>3, <2>4 DEF RowsUnderTheirNumber
  <2>9. KeysCarriedOut'
    BY <2>1, <2>2, <2>3, <2>4, <2>5 DEF KeysCarriedOut, CarriedOut
  <2> QED
    BY <2>6, <2>7, <2>8, <2>9
<1> QED
  BY <1>1, <1>2

\* A refund, new or replayed, keeps the invariant (ApplyRefund).
LEMMA RefundKeepsInv ==
  ASSUME SandboxInv, NEW request \in Refund, ApplyRefund(request)
  PROVE  SandboxInv'
<1> USE DEF SandboxInv
<1> DEFINE row == [request |-> request, status |-> "PROCESSING"]
<1>1. CASE request.refund \in DOMAIN refunds
  <2>1. UNCHANGED <<payments, refunds, idempotency>>
    BY <1>1 DEF ApplyRefund
  <2> QED
    BY <2>1 DEF SandboxTypeOK, RefundsStandOnPayments, RowsUnderTheirNumber,
       KeysCarriedOut, CarriedOut
<1>2. CASE request.refund \notin DOMAIN refunds
  <2>1. /\ refunds' = Put(refunds, request.refund, row)
        /\ idempotency' = Put(idempotency, request.key, request) /\ payments' = payments
        /\ request.trade \in DOMAIN payments
        /\ payments[request.trade].status \in {"SUCCESS", "REFUND"}
    BY <1>2 DEF ApplyRefund
  <2>2. /\ row \in RefundRow /\ request.refund \in RefundNos /\ request.kind = "refund"
        /\ request.key \in Keys
    BY DEF RefundRow, Refund
  <2>3. row.request = request /\ row.status = "PROCESSING"
    OBVIOUS
  <2> HIDE DEF row
  <2>4. /\ DOMAIN refunds' = DOMAIN refunds \cup {request.refund}
        /\ refunds'[request.refund] = row
        /\ \A r \in DOMAIN refunds : refunds'[r] = refunds[r]
    BY <1>2, <2>1 DEF Put
  <2>5. /\ DOMAIN idempotency' = DOMAIN idempotency \cup {request.key}
        /\ idempotency'[request.key] = request
        /\ \A j \in DOMAIN idempotency : j # request.key => idempotency'[j] = idempotency[j]
    BY <2>1 DEF Put
  <2>6. SandboxTypeOK'
    BY <2>1, <2>2, <2>4, <2>5 DEF SandboxTypeOK
  <2>7. RefundsStandOnPayments'
    BY <2>1, <2>3, <2>4 DEF RefundsStandOnPayments
  <2>8. RowsUnderTheirNumber'
    BY <2>1, <2>3, <2>4 DEF RowsUnderTheirNumber
  <2>9. KeysCarriedOut'
    BY <2>1, <2>2, <2>3, <2>4, <2>5 DEF KeysCarriedOut, CarriedOut
  <2> QED
    BY <2>6, <2>7, <2>8, <2>9
<1> QED
  BY <1>1, <1>2

\* What a completed refund becomes, and what becomes of its payment: only a
\* success touches it, and makes it REFUND (CompleteRefund).
LEMMA CompleteFacts ==
  ASSUME SandboxTypeOK, RefundsStandOnPayments,
         NEW r \in RefundNos, NEW success \in BOOLEAN, CompleteRefund(r, success)
  PROVE  LET t == refunds[r].request.trade IN
         /\ r \in DOMAIN refunds /\ refunds[r].status # "SUCCESS"
         /\ DOMAIN refunds' = DOMAIN refunds
         /\ refunds'[r] \in RefundRow
         /\ refunds'[r].status = IF success THEN "SUCCESS" ELSE "ABNORMAL"
         /\ refunds'[r].request = refunds[r].request
         /\ \A q \in DOMAIN refunds : q # r => refunds'[q] = refunds[q]
         /\ t \in DOMAIN payments /\ payments[t].status \in {"SUCCESS", "REFUND"}
         /\ DOMAIN payments' = DOMAIN payments
         /\ payments'[t] \in Payment /\ payments'[t].request = payments[t].request
         /\ payments'[t].status = IF success THEN "REFUND" ELSE payments[t].status
         /\ \A u \in DOMAIN payments : u # t => payments'[u] = payments[u]
         /\ idempotency' = idempotency
<1> DEFINE t == refunds[r].request.trade
           row == [refunds[r] EXCEPT !.status = IF success THEN "SUCCESS" ELSE "ABNORMAL"]
           paid == [payments[t] EXCEPT !.status = "REFUND"]
<1>1. /\ r \in DOMAIN refunds /\ refunds[r].status # "SUCCESS" /\ refunds[r] \in RefundRow
      /\ refunds' = Put(refunds, r, row) /\ idempotency' = idempotency
  BY DEF CompleteRefund, SandboxTypeOK
<1>2. /\ row \in RefundRow /\ row.request = refunds[r].request
      /\ row.status = IF success THEN "SUCCESS" ELSE "ABNORMAL"
  BY <1>1 DEF RefundRow
<1>3. /\ t \in DOMAIN payments /\ payments[t].status \in {"SUCCESS", "REFUND"}
      /\ payments[t] \in Payment
  BY <1>1 DEF RefundsStandOnPayments, SandboxTypeOK
<1>4. paid \in Payment /\ paid.request = payments[t].request /\ paid.status = "REFUND"
  BY <1>3 DEF Payment
<1>5. payments' = IF success THEN Put(payments, t, paid) ELSE payments
  BY <1>3 DEF CompleteRefund
<1> HIDE DEF row, paid
<1>6. /\ DOMAIN refunds' = DOMAIN refunds /\ refunds'[r] = row
      /\ \A q \in DOMAIN refunds : q # r => refunds'[q] = refunds[q]
  BY <1>1 DEF Put
<1>7. /\ DOMAIN payments' = DOMAIN payments
      /\ payments'[t] = IF success THEN paid ELSE payments[t]
      /\ \A u \in DOMAIN payments : u # t => payments'[u] = payments[u]
  BY <1>3, <1>5 DEF Put
<1> QED
  BY <1>1, <1>2, <1>3, <1>4, <1>6, <1>7

\* Completing a refund keeps the invariant (CompleteRefund).
LEMMA CompleteKeepsInv ==
  ASSUME SandboxInv, NEW r \in RefundNos, NEW success \in BOOLEAN, CompleteRefund(r, success)
  PROVE  SandboxInv'
<1> USE DEF SandboxInv
<1> DEFINE t == refunds[r].request.trade
<1>1. /\ r \in DOMAIN refunds /\ refunds[r].status # "SUCCESS"
      /\ DOMAIN refunds' = DOMAIN refunds
      /\ refunds'[r] \in RefundRow
      /\ refunds'[r].status = IF success THEN "SUCCESS" ELSE "ABNORMAL"
      /\ refunds'[r].request = refunds[r].request
      /\ \A q \in DOMAIN refunds : q # r => refunds'[q] = refunds[q]
  BY CompleteFacts
<1>2. /\ t \in DOMAIN payments /\ payments[t].status \in {"SUCCESS", "REFUND"}
      /\ DOMAIN payments' = DOMAIN payments
      /\ payments'[t] \in Payment /\ payments'[t].request = payments[t].request
      /\ payments'[t].status = IF success THEN "REFUND" ELSE payments[t].status
      /\ \A u \in DOMAIN payments : u # t => payments'[u] = payments[u]
      /\ idempotency' = idempotency
  BY CompleteFacts
<1> HIDE DEF t
<1>3. SandboxTypeOK'
  BY <1>1, <1>2 DEF SandboxTypeOK
<1>4. RefundsStandOnPayments'
  <2>1. \A q \in DOMAIN refunds' : refunds'[q].request = refunds[q].request
    BY <1>1
  <2>2. \A q \in DOMAIN refunds' :
          LET u == refunds'[q].request.trade
          IN u \in DOMAIN payments' /\ payments'[u].status \in {"SUCCESS", "REFUND"}
    BY <1>1, <1>2, <2>1 DEF RefundsStandOnPayments
  <2>3. ASSUME NEW u \in DOMAIN payments'
        PROVE  payments'[u].status = "REFUND" <=>
          \E q \in DOMAIN refunds' : refunds'[q].request.trade = u /\ refunds'[q].status = "SUCCESS"
    <3>1. u \in DOMAIN payments
      BY <1>2
    <3>2. payments[u].status = "REFUND" <=>
            \E q \in DOMAIN refunds : refunds[q].request.trade = u /\ refunds[q].status = "SUCCESS"
      BY <3>1 DEF RefundsStandOnPayments
    <3>3. CASE success /\ u = t
      BY <3>3, <1>1, <1>2 DEF t
    <3>4. CASE ~(success /\ u = t)
      <4>1. payments'[u].status = payments[u].status
        BY <3>1, <3>4, <1>2
      <4>2. \A q \in DOMAIN refunds : refunds[q].request.trade = u =>
              (refunds'[q].status = "SUCCESS" <=> refunds[q].status = "SUCCESS")
        BY <3>4, <1>1 DEF t
      <4> QED
        BY <1>1, <2>1, <3>2, <4>1, <4>2
    <3> QED
      BY <3>3, <3>4
  <2> QED
    BY <2>2, <2>3 DEF RefundsStandOnPayments
<1>5. RowsUnderTheirNumber'
  BY <1>1, <1>2 DEF RowsUnderTheirNumber
<1>6. KeysCarriedOut'
  BY <1>1, <1>2 DEF KeysCarriedOut, CarriedOut
<1> QED
  BY <1>3, <1>4, <1>5, <1>6
-----------------------------------------------------------------------------
\* Nothing on record satisfies the invariant (NewSandboxProvider).
LEMMA InitSandboxInv == SandboxInit => SandboxInv
BY DEF SandboxInit, EmptyMap, SandboxInv, SandboxTypeOK, RefundsStandOnPayments,
   RowsUnderTheirNumber, KeysCarriedOut

\* Every operation keeps the invariant.
LEMMA NextSandboxInv == SandboxInv /\ [SandboxNext]_sandboxVars => SandboxInv'
<1> SUFFICES ASSUME SandboxInv, [SandboxNext]_sandboxVars PROVE SandboxInv'
  OBVIOUS
<1>1. ASSUME NEW k \in Keys, NEW request \in Prepay, CreateJSAPIPrepay(k, request)
      PROVE  SandboxInv'
  BY <1>1, PrepayKeepsInv
<1>2. ASSUME NEW t \in TradeNos, ClosePayment(t) \/ MarkPaymentPaying(t) \/ MarkPaymentPaid(t)
      PROVE  SandboxInv'
  <2>1. PICK from \in SUBSET {"NOTPAY", "USERPAYING"}, to \in {"USERPAYING", "SUCCESS", "CLOSED"} :
          PaymentMoves(t, from, to) /\ UNCHANGED <<refunds, idempotency>>
    BY <1>2 DEF ClosePayment, MarkPaymentPaying, MarkPaymentPaid
  <2> QED
    BY <2>1, MoveKeepsInv
<1>3. ASSUME NEW request \in Refund, ApplyRefund(request)
      PROVE  SandboxInv'
  BY <1>3, RefundKeepsInv
<1>4. ASSUME NEW r \in RefundNos, NEW success \in BOOLEAN, CompleteRefund(r, success)
      PROVE  SandboxInv'
  BY <1>4, CompleteKeepsInv
<1>5. CASE UNCHANGED sandboxVars
  BY <1>5 DEF sandboxVars, SandboxInv, SandboxTypeOK, RefundsStandOnPayments,
     RowsUnderTheirNumber, KeysCarriedOut, CarriedOut
<1> QED
  BY <1>1, <1>2, <1>3, <1>4, <1>5 DEF SandboxNext

\* The inductive invariant holds in every reachable state of the provider.
THEOREM SandboxInvariance == SandboxSpec => []SandboxInv
BY InitSandboxInv, NextSandboxInv, PTL DEF SandboxSpec

\* Payments, refunds and remembered keys are typed, whatever is called.
THEOREM SandboxTypeCorrect == SandboxSpec => []SandboxTypeOK
<1>1. SandboxInv => SandboxTypeOK
  BY DEF SandboxInv
<1> QED
  BY <1>1, SandboxInvariance, PTL

\* A refund stands on a payment that was paid, and a payment shows REFUND
\* exactly when a refund of it succeeded, for any number of refunds.  Of what a
\* refund amounts to it says nothing (ApplyRefund, CompleteRefund).
THEOREM RefundsStand == SandboxSpec => []RefundsStandOnPayments
<1>1. SandboxInv => RefundsStandOnPayments
  BY DEF SandboxInv
<1> QED
  BY <1>1, SandboxInvariance, PTL

-----------------------------------------------------------------------------
\* Keys.

\* A step forgets no request: rows keep their requests and keys their entries.
LEMMA NothingForgotten ==
  ASSUME SandboxInv, [SandboxNext]_sandboxVars
  PROVE  /\ DOMAIN payments \subseteq DOMAIN payments'
         /\ \A t \in DOMAIN payments : payments'[t].request = payments[t].request
         /\ DOMAIN refunds \subseteq DOMAIN refunds'
         /\ \A r \in DOMAIN refunds : refunds'[r].request = refunds[r].request
         /\ DOMAIN idempotency \subseteq DOMAIN idempotency'
         /\ \A k \in DOMAIN idempotency : idempotency'[k] = idempotency[k]
<1> DEFINE Kept ==
      /\ DOMAIN payments \subseteq DOMAIN payments'
      /\ \A t \in DOMAIN payments : payments'[t].request = payments[t].request
      /\ DOMAIN refunds \subseteq DOMAIN refunds'
      /\ \A r \in DOMAIN refunds : refunds'[r].request = refunds[r].request
      /\ DOMAIN idempotency \subseteq DOMAIN idempotency'
      /\ \A k \in DOMAIN idempotency : idempotency'[k] = idempotency[k]
<1>1. ASSUME NEW k \in Keys, NEW request \in Prepay, CreateJSAPIPrepay(k, request)
      PROVE  Kept
  BY <1>1 DEF CreateJSAPIPrepay, KeyAllows, Put
<1>2. ASSUME NEW t \in TradeNos, ClosePayment(t) \/ MarkPaymentPaying(t) \/ MarkPaymentPaid(t)
      PROVE  Kept
  <2>1. PICK from \in SUBSET {"NOTPAY", "USERPAYING"}, to \in {"USERPAYING", "SUCCESS", "CLOSED"} :
          PaymentMoves(t, from, to) /\ UNCHANGED <<refunds, idempotency>>
    BY <1>2 DEF ClosePayment, MarkPaymentPaying, MarkPaymentPaid
  <2> QED
    BY <2>1, MoveFacts DEF SandboxInv
<1>3. ASSUME NEW request \in Refund, ApplyRefund(request)
      PROVE  Kept
  BY <1>3 DEF ApplyRefund, KeyAllows, Put
<1>4. ASSUME NEW r \in RefundNos, NEW success \in BOOLEAN, CompleteRefund(r, success)
      PROVE  Kept
  BY <1>4, CompleteFacts DEF SandboxInv
<1>5. CASE UNCHANGED sandboxVars
  BY <1>5 DEF sandboxVars
<1> QED
  BY <1>1, <1>2, <1>3, <1>4, <1>5 DEF SandboxNext

\* A remembered key keeps its request, and that request stays carried out: no
\* call of either kind takes a key over (checkIdempotency, rememberIdempotency).
THEOREM KeysAreKept == SandboxSpec => KeysKeepTheirRequest
<1> DEFINE Keeps ==
      \A k \in DOMAIN idempotency :
        /\ k \in DOMAIN idempotency' /\ idempotency'[k] = idempotency[k]
        /\ LET request == idempotency[k]
           IN IF request.kind = "payment"
              THEN payments'[request.trade].request = request
              ELSE refunds'[request.refund].request = request
<1>1. SandboxInv /\ [SandboxNext]_sandboxVars => [Keeps]_sandboxVars
  <2> SUFFICES ASSUME SandboxInv, [SandboxNext]_sandboxVars,
                      NEW k \in DOMAIN idempotency
               PROVE  /\ k \in DOMAIN idempotency' /\ idempotency'[k] = idempotency[k]
                      /\ LET request == idempotency[k]
                         IN IF request.kind = "payment"
                            THEN payments'[request.trade].request = request
                            ELSE refunds'[request.refund].request = request
    OBVIOUS
  <2>1. CarriedOut(idempotency[k])
    BY DEF SandboxInv, KeysCarriedOut
  <2> QED
    BY <2>1, NothingForgotten DEF CarriedOut
<1> QED
  BY <1>1, SandboxInvariance, PTL DEF SandboxSpec, KeysKeepTheirRequest

-----------------------------------------------------------------------------
\* The provider follows the platform's lifecycle.

\* When one payment's row changes, so does its status on the platform's side and
\* no other.
LEMMA PaymentMapped ==
  ASSUME NEW t \in TradeNos, t \in DOMAIN payments', DOMAIN payments' = DOMAIN payments \cup {t},
         \A u \in DOMAIN payments : u # t => payments'[u] = payments[u]
  PROVE  LocalPayment' = [LocalPayment EXCEPT ![t] = PlatformPayment(payments'[t].status)]
BY DEF LocalPayment

\* Likewise a refund's.
LEMMA RefundMapped ==
  ASSUME NEW r \in RefundNos, r \in DOMAIN refunds', DOMAIN refunds' = DOMAIN refunds \cup {r},
         \A q \in DOMAIN refunds : q # r => refunds'[q] = refunds[q]
  PROVE  LocalRefund' = [LocalRefund EXCEPT ![r] = PlatformRefund(refunds'[r].status)]
BY DEF LocalRefund

\* Every operation is a move of the lifecycle or no move at all.
LEMMA LifecycleStep ==
  ASSUME SandboxInv, [SandboxNext]_sandboxVars
  PROVE  [Lifecycle!Next]_<<LocalPayment, LocalRefund>>
<1> USE DEF SandboxInv
<1>1. ASSUME NEW k \in Keys, NEW request \in Prepay, CreateJSAPIPrepay(k, request)
      PROVE  [Lifecycle!Next]_<<LocalPayment, LocalRefund>>
  <2> DEFINE t == request.trade
  <2>1. t \in TradeNos /\ refunds' = refunds
    BY <1>1 DEF Prepay, CreateJSAPIPrepay
  <2>2. LocalRefund' = LocalRefund
    BY <2>1 DEF LocalRefund
  <2>3. CASE t \in DOMAIN payments
    BY <1>1, <2>2, <2>3 DEF CreateJSAPIPrepay, LocalPayment
  <2>4. CASE t \notin DOMAIN payments
    <3>1. /\ DOMAIN payments' = DOMAIN payments \cup {t} /\ payments'[t].status = "NOTPAY"
          /\ \A u \in DOMAIN payments : u # t => payments'[u] = payments[u]
      BY <1>1, <2>4 DEF CreateJSAPIPrepay, Put
    <3>2. LocalPayment' = [LocalPayment EXCEPT ![t] = "PREPAY_CREATED"]
      BY <2>1, <3>1, PaymentMapped DEF PlatformPayment
    <3>3. LocalPayment[t] = "PENDING"
      BY <2>1, <2>4 DEF LocalPayment
    <3>4. "PREPAY_CREATED" \in Lifecycle!PaymentMayBecome(LocalPayment[t])
      BY <3>3 DEF Lifecycle!PaymentMayBecome
    <3>5. Lifecycle!TransitionPayment(t, "PREPAY_CREATED")
      BY <3>2, <3>4 DEF Lifecycle!TransitionPayment
    <3> QED
      BY <2>1, <2>2, <3>5 DEF Lifecycle!Next, Lifecycle!PaymentStatus
  <2> QED
    BY <2>3, <2>4
<1>2. ASSUME NEW t \in TradeNos, ClosePayment(t) \/ MarkPaymentPaying(t) \/ MarkPaymentPaid(t)
      PROVE  [Lifecycle!Next]_<<LocalPayment, LocalRefund>>
  <2>1. PICK from \in SUBSET {"NOTPAY", "USERPAYING"}, to \in {"USERPAYING", "SUCCESS", "CLOSED"} :
          /\ PaymentMoves(t, from, to) /\ UNCHANGED <<refunds, idempotency>>
          /\ to = "USERPAYING" => from = {"NOTPAY"}
    BY <1>2 DEF ClosePayment, MarkPaymentPaying, MarkPaymentPaid
  <2>2. /\ t \in DOMAIN payments /\ payments[t].status \in from
        /\ DOMAIN payments' = DOMAIN payments /\ payments'[t].status = to
        /\ \A u \in DOMAIN payments : u # t => payments'[u] = payments[u]
    BY <2>1, MoveFacts
  <2>3. LocalPayment' = [LocalPayment EXCEPT ![t] = PlatformPayment(to)]
    BY <2>2, PaymentMapped
  <2>4. LocalPayment[t] = PlatformPayment(payments[t].status)
    BY <2>2 DEF LocalPayment
  <2>5. /\ PlatformPayment(to) \in Lifecycle!PaymentMayBecome(LocalPayment[t])
        /\ PlatformPayment(to) \in Lifecycle!PaymentStatus
    BY <2>1, <2>2, <2>4 DEF PlatformPayment, Lifecycle!PaymentMayBecome, Lifecycle!PaymentStatus
  <2>6. Lifecycle!TransitionPayment(t, PlatformPayment(to))
    BY <2>3, <2>5 DEF Lifecycle!TransitionPayment
  <2>7. LocalRefund' = LocalRefund
    BY <2>1 DEF LocalRefund
  <2> QED
    BY <2>5, <2>6, <2>7 DEF Lifecycle!Next
<1>3. ASSUME NEW request \in Refund, ApplyRefund(request)
      PROVE  [Lifecycle!Next]_<<LocalPayment, LocalRefund>>
  <2> DEFINE r == request.refund
  <2>1. r \in RefundNos /\ payments' = payments
    BY <1>3 DEF Refund, ApplyRefund
  <2>2. LocalPayment' = LocalPayment
    BY <2>1 DEF LocalPayment
  <2>3. CASE r \in DOMAIN refunds
    BY <1>3, <2>2, <2>3 DEF ApplyRefund, LocalRefund
  <2>4. CASE r \notin DOMAIN refunds
    <3>1. /\ DOMAIN refunds' = DOMAIN refunds \cup {r} /\ refunds'[r].status = "PROCESSING"
          /\ \A q \in DOMAIN refunds : q # r => refunds'[q] = refunds[q]
      BY <1>3, <2>4 DEF ApplyRefund, Put
    <3>2. LocalRefund' = [LocalRefund EXCEPT ![r] = "PROCESSING"]
      BY <2>1, <3>1, RefundMapped DEF PlatformRefund
    <3>3. LocalRefund[r] = "PENDING"
      BY <2>1, <2>4 DEF LocalRefund
    <3>4. Lifecycle!TransitionRefund(r, "PROCESSING")
      BY <3>2, <3>3 DEF Lifecycle!TransitionRefund, Lifecycle!RefundMayBecome
    <3> QED
      BY <2>1, <2>2, <3>4 DEF Lifecycle!Next, Lifecycle!RefundStatus
  <2> QED
    BY <2>3, <2>4
<1>4. ASSUME NEW r \in RefundNos, NEW success \in BOOLEAN, CompleteRefund(r, success)
      PROVE  [Lifecycle!Next]_<<LocalPayment, LocalRefund>>
  <2> DEFINE t == refunds[r].request.trade
             outcome == IF success THEN "SUCCEEDED" ELSE "FAILED"
  <2>1. /\ r \in DOMAIN refunds /\ refunds[r].status \in {"PROCESSING", "ABNORMAL"}
        /\ DOMAIN refunds' = DOMAIN refunds
        /\ refunds'[r].status = IF success THEN "SUCCESS" ELSE "ABNORMAL"
        /\ \A q \in DOMAIN refunds : q # r => refunds'[q] = refunds[q]
    <3>1. refunds[r].status \in {"PROCESSING", "SUCCESS", "ABNORMAL"}
      BY CompleteFacts, <1>4 DEF SandboxTypeOK, RefundRow
    <3> QED
      BY CompleteFacts, <1>4, <3>1
  <2>2. /\ t \in DOMAIN payments /\ payments[t].status \in {"SUCCESS", "REFUND"}
        /\ DOMAIN payments' = DOMAIN payments
        /\ payments'[t].status = IF success THEN "REFUND" ELSE payments[t].status
        /\ \A u \in DOMAIN payments : u # t => payments'[u] = payments[u]
    BY CompleteFacts, <1>4
  <2>3. t \in TradeNos
    BY <2>2 DEF SandboxTypeOK
  <2> HIDE DEF t
  <2>4. LocalRefund' = [LocalRefund EXCEPT ![r] = outcome]
    BY <2>1, RefundMapped DEF PlatformRefund
  <2>5. LocalRefund[r] = IF refunds[r].status = "PROCESSING" THEN "PROCESSING" ELSE "FAILED"
    BY <2>1 DEF LocalRefund, PlatformRefund
  <2>6. LocalPayment' = [LocalPayment EXCEPT ![t] = PlatformPayment(payments'[t].status)]
    BY <2>2, <2>3, PaymentMapped
  <2>7. LocalPayment[t] = PlatformPayment(payments[t].status)
    BY <2>2, <2>3 DEF LocalPayment
  <2>8. \/ LocalPayment' = LocalPayment
        \/ Lifecycle!TransitionPayment(t, "REFUNDED")
    <3>1. CASE success /\ payments[t].status = "SUCCESS"
      <4>1. LocalPayment' = [LocalPayment EXCEPT ![t] = "REFUNDED"] /\ LocalPayment[t] = "PAID"
        BY <2>2, <2>6, <2>7, <3>1 DEF PlatformPayment
      <4> QED
        BY <4>1 DEF Lifecycle!TransitionPayment, Lifecycle!PaymentMayBecome
    <3>2. CASE ~(success /\ payments[t].status = "SUCCESS")
      <4>1. payments'[t].status = payments[t].status
        BY <2>2, <3>2
      <4> QED
        BY <2>2, <4>1 DEF LocalPayment
    <3> QED
      BY <3>1, <3>2
  <2>9. \/ LocalRefund' = LocalRefund /\ LocalPayment' = LocalPayment
        \/ Lifecycle!TransitionRefund(r, outcome)
    <3>1. CASE ~success /\ refunds[r].status = "ABNORMAL"
      <4>1. refunds'[r].status = refunds[r].status /\ payments'[t].status = payments[t].status
        BY <2>1, <2>2, <3>1
      <4> QED
        BY <2>1, <2>2, <4>1 DEF LocalRefund, LocalPayment
    <3>2. CASE ~(~success /\ refunds[r].status = "ABNORMAL")
      <4>1. outcome \in Lifecycle!RefundMayBecome(LocalRefund[r])
        BY <2>1, <2>5, <3>2 DEF Lifecycle!RefundMayBecome
      <4> QED
        BY <2>4, <4>1 DEF Lifecycle!TransitionRefund
    <3> QED
      BY <3>1, <3>2
  <2>10. outcome \in Lifecycle!RefundStatus
    BY DEF Lifecycle!RefundStatus
  <2> HIDE DEF outcome
  <2> QED
    BY <2>3, <2>8, <2>9, <2>10 DEF Lifecycle!Next
<1>5. CASE UNCHANGED sandboxVars
  BY <1>5 DEF sandboxVars, LocalPayment, LocalRefund
<1> QED
  BY <1>1, <1>2, <1>3, <1>4, <1>5 DEF SandboxNext

\* Whatever happens at the provider, its payments and refunds move only as the
\* platform's state machines accept (TransitionPayment, TransitionRefund).
THEOREM SandboxImplementsLifecycle == SandboxSpec => FollowsLifecycle
<1>1. SandboxInit => Lifecycle!Init
  BY DEF SandboxInit, EmptyMap, Lifecycle!Init, LocalPayment, LocalRefund
<1> QED
  BY <1>1, LifecycleStep, SandboxInvariance, PTL DEF SandboxSpec, FollowsLifecycle, Lifecycle!Spec
=============================================================================
