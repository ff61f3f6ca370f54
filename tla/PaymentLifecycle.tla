-------------------------- MODULE PaymentLifecycle --------------------------
(***************************************************************************)
(* The lifecycles of a payment and of a refund that the platform accepts   *)
(* (internal/payment/state.go): any number of payments and refunds, each   *)
(* moving along the transitions of TransitionPayment and TransitionRefund. *)
(***************************************************************************)

CONSTANTS Payments, Refunds

VARIABLES payment, refund    \* status of each payment and of each refund

PaymentStatus == {"PENDING", "PREPAY_CREATED", "PAYING", "PAID", "CLOSED",
                  "FAILED", "PARTIALLY_REFUNDED", "REFUNDED"}
RefundStatus  == {"PENDING", "PROCESSING", "SUCCEEDED", "FAILED", "CLOSED"}

\* TransitionPayment lets a provider's late news skip steps and never go back.
PaymentMayBecome(from) ==
  CASE from = "PENDING" -> {"PREPAY_CREATED", "PAYING", "PAID", "CLOSED", "FAILED"}
    [] from = "PREPAY_CREATED" -> {"PAYING", "PAID", "CLOSED", "FAILED"}
    [] from = "PAYING" -> {"PAID", "CLOSED", "FAILED"}
    [] from = "PAID" -> {"PARTIALLY_REFUNDED", "REFUNDED"}
    [] from = "PARTIALLY_REFUNDED" -> {"REFUNDED"}
    [] OTHER -> {}

\* TransitionRefund lets a failed refund be tried again.
RefundMayBecome(from) ==
  CASE from = "PENDING" -> {"PROCESSING", "SUCCEEDED", "FAILED", "CLOSED"}
    [] from = "PROCESSING" -> {"SUCCEEDED", "FAILED", "CLOSED"}
    [] from = "FAILED" -> {"PROCESSING", "SUCCEEDED"}
    [] OTHER -> {}

Init ==
  /\ payment = [p \in Payments |-> "PENDING"]
  /\ refund = [r \in Refunds |-> "PENDING"]

TransitionPayment(p, to) ==
  /\ to \in PaymentMayBecome(payment[p])
  /\ payment' = [payment EXCEPT ![p] = to]

TransitionRefund(r, to) ==
  /\ to \in RefundMayBecome(refund[r])
  /\ refund' = [refund EXCEPT ![r] = to]

\* A refund that succeeds moves its payment in the same step.
Next ==
  \/ \E p \in Payments, to \in PaymentStatus : TransitionPayment(p, to) /\ UNCHANGED refund
  \/ \E r \in Refunds, to \in RefundStatus :
       /\ TransitionRefund(r, to)
       /\ \/ UNCHANGED payment
          \/ \E p \in Payments, paid \in {"PARTIALLY_REFUNDED", "REFUNDED"} :
               TransitionPayment(p, paid)

Spec == Init /\ [][Next]_<<payment, refund>>
=============================================================================
