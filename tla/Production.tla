----------------------------- MODULE Production -----------------------------
(***************************************************************************)
(* Merchant qualifications and food batches of the safety service          *)
(* (internal/safety/memory.go): a merchant's papers are submitted,         *)
(* inspected and reviewed, an approved merchant opens batches, batches are *)
(* produced, given orders, handed over, or withdrawn.                      *)
(*                                                                         *)
(* Every operation holds the service's mutex and is one action; a refused  *)
(* call changes nothing.  The clock runs on between the moment a call reads *)
(* it (at) and the moment it writes.  References to evidence are optional  *)
(* in all of these calls and decide nothing here.                          *)
(***************************************************************************)
EXTENDS Integers, FiniteSetsExt

CONSTANTS
  Merchants, QualificationIds, BatchIds, Orders,
  Horizon,            \* bound of the model: the last instant of the clock
  ExpiryDates,        \* when a merchant's permits expire
  Plans,              \* planned quantities of batches
  OrderQuantities     \* quantities of orders put into a batch

ASSUME HorizonAssumption == Horizon \in Nat /\ ExpiryDates \subseteq Nat

\* ValidateBatch and AssociateOrders: quantities are positive.
ASSUME ProductionAssumption ==
  Plans \subseteq Nat \ {0} /\ OrderQuantities \subseteq Nat \ {0}

VARIABLES
  now,                \* the clock
  qualifications,     \* id -> qualification
  batches,            \* id -> batch
  orderBatch          \* order -> the batch it was put into

productionVars == <<now, qualifications, batches, orderBatch>>

QualificationStatus ==
  {"DRAFT", "PENDING_REVIEW", "APPROVED", "REJECTED", "SUSPENDED", "EXPIRED"}
SiteInspectionResult == {"PENDING", "PASSED", "FAILED"}
FoodBatchStatus ==
  {"DRAFT", "SCHEDULED", "PRODUCING", "PACKED", "READY_FOR_HANDOFF", "IN_DELIVERY",
   "COMPLETED", "QUARANTINED", "RECALLED", "DISPOSED", "CANCELLED"}

\* complete: the names, numbers, addresses and both documents are there.
\* until: the earlier of the two permits' expiries.
\* inspection: the last result on record, "NONE" before the first.
MerchantQualification ==
  [merchant : Merchants, status : QualificationStatus, complete : BOOLEAN,
   until : ExpiryDates, inspection : {"NONE"} \cup SiteInspectionResult]
\* A call lists finitely many orders.
OrderMaps == UNION {[os -> OrderQuantities] : os \in {some \in SUBSET Orders : IsFiniteSet(some)}}
FoodBatch ==
  [merchant : Merchants, status : FoodBatchStatus, created : 0 .. Horizon,
   planned : Plans, produced : Nat, orders : OrderMaps]

Put(map, key, value) ==
  [k \in DOMAIN map \cup {key} |-> IF k = key THEN value ELSE map[k]]
EmptyMap == [k \in {} |-> k]

ProductionTypeOK ==
  /\ now \in 0 .. Horizon
  /\ DOMAIN qualifications \subseteq QualificationIds
  /\ \A q \in DOMAIN qualifications : qualifications[q] \in MerchantQualification
  /\ DOMAIN batches \subseteq BatchIds
  /\ \A b \in DOMAIN batches : batches[b] \in FoodBatch
  /\ DOMAIN orderBatch \subseteq Orders
  /\ \A o \in DOMAIN orderBatch : orderBatch[o] \in DOMAIN batches

ProductionInit ==
  /\ now = 0
  /\ qualifications = EmptyMap
  /\ batches = EmptyMap
  /\ orderBatch = EmptyMap

Tick == now < Horizon /\ now' = now + 1 /\ UNCHANGED <<qualifications, batches, orderBatch>>

-----------------------------------------------------------------------------
\* Qualifications.

CanTransitionQualification(from, to) ==
  to \in CASE from \in {"DRAFT", "REJECTED", "SUSPENDED", "EXPIRED"} -> {"PENDING_REVIEW"}
           [] from = "PENDING_REVIEW" -> {"APPROVED", "REJECTED"}
           [] from = "APPROVED" -> {"SUSPENDED", "EXPIRED"}

CreateQualification(q, m, complete, until) ==
  /\ q \notin DOMAIN qualifications
  /\ qualifications' = Put(qualifications, q,
       [merchant |-> m, status |-> "DRAFT", complete |-> complete, until |-> until,
        inspection |-> "NONE"])
  /\ UNCHANGED <<now, batches, orderBatch>>

Submittable(qualification, at) ==
  /\ CanTransitionQualification(qualification.status, "PENDING_REVIEW")
  /\ qualification.complete /\ qualification.until > at

SubmitQualification(q, at) ==
  /\ q \in DOMAIN qualifications
  /\ Submittable(qualifications[q], at)
  /\ qualifications' = [qualifications EXCEPT ![q].status = "PENDING_REVIEW"]
  /\ UNCHANGED <<now, batches, orderBatch>>

\* An inspection that was recorded before a rejection is still there when the
\* qualification is submitted again.
RecordSiteInspection(q, result) ==
  /\ q \in DOMAIN qualifications
  /\ qualifications[q].status \in {"DRAFT", "PENDING_REVIEW"}
  /\ qualifications' = [qualifications EXCEPT ![q].inspection = result]
  /\ UNCHANGED <<now, batches, orderBatch>>

\* Faulty variant: any inspection on record will do.
ApprovableInspected(qualification, at) ==
  qualification.inspection # "NONE" /\ qualification.until > at

Approvable(qualification, at) ==
  qualification.inspection = "PASSED" /\ qualification.until > at

ReviewQualification(q, decision, at) ==
  /\ q \in DOMAIN qualifications
  /\ qualifications[q].status = "PENDING_REVIEW"
  /\ decision = "APPROVED" => Approvable(qualifications[q], at)
  /\ qualifications' = [qualifications EXCEPT ![q].status = decision]
  /\ UNCHANGED <<now, batches, orderBatch>>

-----------------------------------------------------------------------------
\* Batches.

\* Faulty variant: a batch can be released from quarantine.
CanTransitionBatchBack(from, to) ==
  to \in CASE from = "DRAFT" -> {"SCHEDULED", "CANCELLED", "QUARANTINED"}
           [] from = "SCHEDULED" -> {"PRODUCING", "CANCELLED", "QUARANTINED"}
           [] from = "PRODUCING" -> {"PACKED", "QUARANTINED"}
           [] from = "PACKED" -> {"READY_FOR_HANDOFF", "QUARANTINED", "RECALLED"}
           [] from = "QUARANTINED" -> {"PACKED", "RECALLED", "DISPOSED"}
           [] OTHER -> {}

CanTransitionBatch(from, to) ==
  to \in CASE from = "DRAFT" -> {"SCHEDULED", "CANCELLED", "QUARANTINED"}
           [] from = "SCHEDULED" -> {"PRODUCING", "CANCELLED", "QUARANTINED"}
           [] from = "PRODUCING" -> {"PACKED", "QUARANTINED"}
           [] from = "PACKED" -> {"READY_FOR_HANDOFF", "QUARANTINED", "RECALLED"}
           [] from = "READY_FOR_HANDOFF" -> {"IN_DELIVERY", "QUARANTINED", "RECALLED"}
           [] from = "IN_DELIVERY" -> {"COMPLETED", "QUARANTINED", "RECALLED"}
           [] from = "COMPLETED" -> {"QUARANTINED", "RECALLED"}
           [] from = "QUARANTINED" -> {"RECALLED", "DISPOSED"}
           [] from = "RECALLED" -> {"DISPOSED"}
           [] OTHER -> {}

\* approvedQualificationLocked: approved, and its permits have not expired.
ApprovedAndCurrent(qualification, at) ==
  qualification.status = "APPROVED" /\ qualification.until > at

HasApprovedQualification(m, at) ==
  \E q \in DOMAIN qualifications :
    qualifications[q].merchant = m /\ ApprovedAndCurrent(qualifications[q], at)

\* Faulty variant: the status is left out of the inserted row.
NewBatchBlank(m, planned, at) ==
  [merchant |-> m, status |-> "", created |-> at, planned |-> planned,
   produced |-> 0, orders |-> EmptyMap]

NewBatch(m, planned, at) ==
  [merchant |-> m, status |-> "DRAFT", created |-> at, planned |-> planned,
   produced |-> 0, orders |-> EmptyMap]

CreateBatch(b, m, planned, at) ==
  /\ b \notin DOMAIN batches
  /\ HasApprovedQualification(m, at)
  /\ batches' = Put(batches, b, NewBatch(m, planned, at))
  /\ UNCHANGED <<now, qualifications, orderBatch>>

\* May be repeated: the last record counts.
RecordBatchProduction(b, quantity) ==
  /\ b \in DOMAIN batches /\ batches[b].status = "PRODUCING"
  /\ quantity > 0 /\ quantity <= batches[b].planned
  /\ batches' = [batches EXCEPT ![b].produced = quantity]
  /\ UNCHANGED <<now, qualifications, orderBatch>>

\* A map with the entries of another.
With(map, more) ==
  [k \in DOMAIN map \cup DOMAIN more |-> IF k \in DOMAIN more THEN more[k] ELSE map[k]]

Ordered(orders) == MapThenSumSet(LAMBDA o : orders[o], DOMAIN orders)

\* Faulty variant: only the batch's own orders are looked up.
UnassignedHere(b, os) == os \cap DOMAIN batches[b].orders = {}

Unassigned(b, os) == os \cap (DOMAIN batches[b].orders \cup DOMAIN orderBatch) = {}

\* All the orders of the call are put into the batch, or none is.  What the
\* batch was planned for bounds them, not what was produced.
TakesOrders == {"DRAFT", "SCHEDULED", "PRODUCING", "PACKED", "READY_FOR_HANDOFF"}

AssociateOrders(b, added) ==
  /\ b \in DOMAIN batches
  /\ batches[b].status \in TakesOrders
  /\ DOMAIN added # {} /\ Unassigned(b, DOMAIN added)
  /\ Ordered(batches[b].orders) + Ordered(added) <= batches[b].planned
  /\ batches' = [batches EXCEPT ![b].orders = With(@, added)]
  /\ orderBatch' = With(orderBatch, [o \in DOMAIN added |-> b])
  /\ UNCHANGED <<now, qualifications>>

MayBecome(batch, target) ==
  /\ target \in {"PACKED", "READY_FOR_HANDOFF"} => batch.produced > 0
  /\ target = "IN_DELIVERY" => DOMAIN batch.orders # {}

TransitionBatch(b, target) ==
  /\ b \in DOMAIN batches
  /\ CanTransitionBatch(batches[b].status, target)
  /\ MayBecome(batches[b], target)
  /\ batches' = [batches EXCEPT ![b].status = target]
  /\ UNCHANGED <<now, qualifications, orderBatch>>

-----------------------------------------------------------------------------
ProductionNext ==
  \/ Tick
  \/ \E q \in QualificationIds, m \in Merchants, complete \in BOOLEAN, until \in ExpiryDates :
       CreateQualification(q, m, complete, until)
  \/ \E q \in QualificationIds, at \in 0 .. now : SubmitQualification(q, at)
  \/ \E q \in QualificationIds, result \in SiteInspectionResult : RecordSiteInspection(q, result)
  \/ \E q \in QualificationIds, decision \in {"APPROVED", "REJECTED"}, at \in 0 .. now :
       ReviewQualification(q, decision, at)
  \/ \E b \in BatchIds, m \in Merchants, planned \in Plans, at \in 0 .. now :
       CreateBatch(b, m, planned, at)
  \/ \E b \in BatchIds : \E quantity \in 1 .. Max(Plans) : RecordBatchProduction(b, quantity)
  \/ \E b \in BatchIds, added \in OrderMaps : AssociateOrders(b, added)
  \/ \E b \in BatchIds, target \in FoodBatchStatus : TransitionBatch(b, target)

ProductionSpec == ProductionInit /\ [][ProductionNext]_productionVars

-----------------------------------------------------------------------------
\* A batch exists only of a merchant with an approved qualification that was
\* complete, whose site passed its inspection, and whose permits had not expired
\* when the batch was created, however often it was rejected, inspected and
\* submitted again (ReviewQualification, CreateBatch).
BatchesOfExaminedMerchants ==
  \A b \in DOMAIN batches : \E q \in DOMAIN qualifications :
    /\ qualifications[q].merchant = batches[b].merchant
    /\ qualifications[q].status = "APPROVED" /\ qualifications[q].complete
    /\ qualifications[q].inspection = "PASSED"
    /\ qualifications[q].until > batches[b].created

\* The index of orders agrees with the batches' own lists.
OrderIndexAgrees ==
  \A b \in BatchIds, o \in Orders :
    (b \in DOMAIN batches /\ o \in DOMAIN batches[b].orders)
      <=> (o \in DOMAIN orderBatch /\ orderBatch[o] = b)

\* No batch is promised beyond its plan.
PlansAreKept == \A b \in DOMAIN batches : Ordered(batches[b].orders) <= batches[b].planned

\* An order, as its id is written, is in at most one batch, the index of orders
\* agrees with the batches' own lists, and no batch is promised beyond its plan
\* (AssociateOrders).
OrdersInOneBatch == OrderIndexAgrees /\ PlansAreKept

\* What is packed or further was produced, within its plan, and what is on its
\* way or delivered has orders (TransitionBatch, RecordBatchProduction).
HandedOverWasProduced ==
  \A b \in DOMAIN batches :
    /\ batches[b].produced <= batches[b].planned
    /\ batches[b].status \in {"PACKED", "READY_FOR_HANDOFF", "IN_DELIVERY", "COMPLETED"}
         => batches[b].produced > 0
    /\ batches[b].status \in {"IN_DELIVERY", "COMPLETED"} => DOMAIN batches[b].orders # {}

Withdrawn == {"QUARANTINED", "RECALLED", "DISPOSED"}

\* A withdrawn batch never returns to the market, takes no order and changes
\* no quantity, by any operation.
WithdrawnStaysWithdrawn ==
  [][\A b \in DOMAIN batches :
       batches[b].status \in Withdrawn =>
         /\ batches'[b].status \in Withdrawn
         /\ batches'[b].orders = batches[b].orders
         /\ batches'[b].produced = batches[b].produced]_productionVars
=============================================================================
