------------------------------ MODULE SafetyPg ------------------------------
(***************************************************************************)
(* The food safety service over PostgreSQL (internal/safety/postgres.go):  *)
(* the operations of Production and Containment as READ COMMITTED          *)
(* transactions of concurrent sessions.  The variables of Production and   *)
(* incidents are the committed rows; tx[s] is the transaction open on      *)
(* connection s.                                                           *)
(*                                                                         *)
(* A transaction begins here when it gets its first row by SELECT ... FOR  *)
(* UPDATE: until then it neither holds nor decides anything.  It checks    *)
(* what it read under the lock, takes further locks one statement at a     *)
(* time, and writes in one step with its COMMIT; a refused call rolls back *)
(* and changes nothing.  Operations that only insert a row of their own    *)
(* (CreateQualification, CreateIncident) are one step.                     *)
(*                                                                         *)
(* Recalls and dispositions are refused, "requires the next schema         *)
(* revision".  Left out: references to evidence; the share locks of        *)
(* foreign keys on rows of the marketplace, whose holders never wait for a *)
(* row of this service.                                                    *)
(*                                                                         *)
(* Orders are texts: order_id is a UUID column, whose ids clients may write*)
(* in upper or lower case, while the service in memory keys its orders by  *)
(* the text, and the advisory lock on an order is taken on the text here   *)
(* too.  UuidOf tells which order a text means.  A row keeps the text of   *)
(* its call in the model; the table keeps the UUID, and no action looks at *)
(* more than that.                                                         *)
(***************************************************************************)
EXTENDS Production, Sequences, SequencesExt

CONSTANTS
  IncidentIds, Sessions,
  TextOrder,          \* Orders, in the order of strings
  UuidOf,             \* the order that each text denotes
  Reports,            \* incidents as reported: identifier, batches as listed, orders
  OrderCalls,         \* orders with their quantities as clients put them into batches
  ProducedQuantities, \* quantities that merchants record as produced
  BatchTargets, IncidentTargets,  \* statuses clients ask for
  EvidenceSubjects, CapturedAt,   \* what gets evidence, and with which timestamps
  MaxEvidence         \* bound of the model: the length of a chain

ASSUME SafetyPgAssumption ==
  /\ ProducedQuantities \subseteq 1 .. Max(Plans)
  /\ BatchTargets \subseteq FoodBatchStatus /\ MaxEvidence \in Nat
  /\ EvidenceSubjects \subseteq QualificationIds \cup BatchIds \cup IncidentIds
  /\ CapturedAt \subseteq {"MICROSECONDS", "NANOSECONDS"}

\* newSafetyUUID gives an incident its identifier, and no matter which.
\* ValidateIncident refuses a report on nothing.  uniqueStrings removes a
\* repeated batch; one repeated in another spelling is locked when it is first
\* met and adds nothing.
ASSUME ReportsAssumption ==
  \A report \in Reports :
    /\ report.id \in IncidentIds
    /\ report.batches \in Seq(BatchIds) /\ IsInjective(report.batches)
    /\ report.orders \subseteq Orders
    /\ report.batches # <<>> \/ report.orders # {}

\* AssociateOrders refuses an empty list and a repeated text.
ASSUME OrdersAssumption ==
  /\ TextOrder \in Seq(Orders) /\ ToSet(TextOrder) = Orders /\ IsInjective(TextOrder)
  /\ DOMAIN UuidOf = Orders
  /\ OrderCalls \subseteq OrderMaps /\ \A added \in OrderCalls : DOMAIN added # {}

\* A lock belongs to one table: rows of different tables are never confused.
ASSUME RowsAssumption ==
  /\ QualificationIds \cap (BatchIds \cup IncidentIds \cup Orders) = {}
  /\ BatchIds \cap (IncidentIds \cup Orders) = {} /\ IncidentIds \cap Orders = {}

VARIABLES
  incidents,          \* id -> incident
  listed,             \* id -> the incident's batches as its reporter listed them
  evidence,           \* subject -> its chain of evidence
  tx

rows  == <<productionVars, incidents, listed, evidence>>
pgVars == <<rows, tx>>

\* The service in memory, without recalls and dispositions.
Service == INSTANCE Containment WITH
  RecallIds <- {}, DispositionIds <- {}, Quantities <- {},
  recalls <- EmptyMap, dispositions <- EmptyMap, evidenced <- {}

-----------------------------------------------------------------------------
\* Evidence.  A hash stands for what it is computed from; it covers the
\* timestamp as it was given.  The identifiers it covers have one spelling here.

Hash(sequence, previous, at) == <<sequence, previous, at>>
NoHash == <<>>

\* A TIMESTAMPTZ column keeps microseconds.
Stored(at) == "MICROSECONDS"

\* sequence and hash of the newest record of a chain.
NewestOf(chain) ==
  IF chain = <<>> THEN [sequence |-> 0, hash |-> NoHash]
  ELSE [sequence |-> Last(chain).sequence, hash |-> Last(chain).hash]

\* The record AddEvidence inserts after the newest one it read.
Following(newest, at) ==
  [sequence |-> newest.sequence + 1, previous |-> newest.hash,
   hash |-> Hash(newest.sequence + 1, newest.hash, at), at |-> Stored(at)]

Linked(chain) ==
  \A k \in DOMAIN chain :
    /\ chain[k].sequence = k
    /\ chain[k].previous = IF k = 1 THEN NoHash ELSE chain[k - 1].hash

\* VerifyEvidenceChain computes each hash again from the stored record.
Verifies(chain) ==
  Linked(chain) /\ \A k \in DOMAIN chain :
    chain[k].hash = Hash(chain[k].sequence, chain[k].previous, chain[k].at)

-----------------------------------------------------------------------------
\* Transactions.  call is the operation with its arguments and the first row it
\* locks; wants are the rows it has yet to lock; newest is what AddEvidence read
\* of the chain.  Orders are locked by advisory locks.

Calls ==
  [op : {"SubmitQualification"}, row : QualificationIds]
    \cup [op : {"ReviewQualification"}, row : QualificationIds, decision : {"APPROVED", "REJECTED"}]
    \cup [op : {"RecordSiteInspection"}, row : QualificationIds, result : SiteInspectionResult]
    \cup [op : {"CreateBatch"}, row : QualificationIds, id : BatchIds, planned : Plans, at : 0 .. Horizon]
    \cup [op : {"RecordBatchProduction"}, row : BatchIds, quantity : ProducedQuantities]
    \cup [op : {"TransitionBatch"}, row : BatchIds, target : BatchTargets]
    \cup [op : {"AssociateOrders"}, row : BatchIds, added : OrderMaps]
    \cup [op : {"TransitionIncident"}, row : IncidentIds, target : IncidentTargets]
    \cup [op : {"AddEvidence"}, row : EvidenceSubjects, at : CapturedAt]

NoTx == [call |-> [op |-> "none"], holds |-> {}, wants |-> {}, newest |-> NewestOf(<<>>)]

SafetyPgInit ==
  /\ ProductionInit
  /\ incidents = EmptyMap
  /\ listed = EmptyMap
  /\ evidence = [x \in EvidenceSubjects |-> <<>>]
  /\ tx = [s \in Sessions |-> NoTx]

\* Faulty variant: rows are read without FOR UPDATE.
Unlocked(row) == TRUE

Free(row) == \A s \in Sessions : row \notin tx[s].holds

Begins(s, call, wants, newest) ==
  /\ tx[s] = NoTx
  /\ Free(call.row)
  /\ tx' = [tx EXCEPT ![s] = [call |-> call, holds |-> {call.row}, wants |-> wants, newest |-> newest]]
  /\ UNCHANGED rows

Begin(s, call) == Begins(s, call, {}, NewestOf(<<>>))

Ends(s) == tx' = [tx EXCEPT ![s] = NoTx]

\* The call's locks are all taken and its checks have passed.
Commits(s, op) == tx[s].call.op = op /\ tx[s].wants = {} /\ Ends(s)

-----------------------------------------------------------------------------
\* Qualifications.

PgCreateQualification(q, m, complete, until) ==
  CreateQualification(q, m, complete, until) /\ UNCHANGED <<incidents, listed, evidence, tx>>

BeginSubmit(s, q) ==
  /\ q \in DOMAIN qualifications /\ Submittable(qualifications[q], now)
  /\ Begin(s, [op |-> "SubmitQualification", row |-> q])

CommitSubmit(s) ==
  /\ Commits(s, "SubmitQualification")
  /\ qualifications' = [qualifications EXCEPT ![tx[s].call.row].status = "PENDING_REVIEW"]
  /\ UNCHANGED <<now, batches, orderBatch, incidents, listed, evidence>>

BeginReview(s, q, decision) ==
  /\ q \in DOMAIN qualifications /\ qualifications[q].status = "PENDING_REVIEW"
  /\ decision = "APPROVED" => Approvable(qualifications[q], now)
  /\ Begin(s, [op |-> "ReviewQualification", row |-> q, decision |-> decision])

CommitReview(s) ==
  /\ Commits(s, "ReviewQualification")
  /\ qualifications' = [qualifications EXCEPT ![tx[s].call.row].status = tx[s].call.decision]
  /\ UNCHANGED <<now, batches, orderBatch, incidents, listed, evidence>>

BeginInspection(s, q, result) ==
  /\ q \in DOMAIN qualifications /\ qualifications[q].status \in {"DRAFT", "PENDING_REVIEW"}
  /\ Begin(s, [op |-> "RecordSiteInspection", row |-> q, result |-> result])

\* The inspection with the latest inspected_at counts, which the inspector
\* states: one recorded later may be older than the one on record.
CommitInspection(s) ==
  LET q == tx[s].call.row IN
  /\ Commits(s, "RecordSiteInspection")
  /\ \E latest \in IF qualifications[q].inspection = "NONE" THEN {TRUE} ELSE BOOLEAN :
       qualifications' = [qualifications EXCEPT ![q].inspection =
         IF latest THEN tx[s].call.result ELSE @]
  /\ UNCHANGED <<now, batches, orderBatch, incidents, listed, evidence>>

-----------------------------------------------------------------------------
\* Batches.

\* newUUID draws an identifier nobody has.
FreshBatch(b) ==
  b \notin DOMAIN batches /\ \A s \in Sessions : tx[s].call.op = "CreateBatch" => tx[s].call.id # b

\* The clock was read before the transaction began and waited for the
\* qualification's row.
BeginCreateBatch(s, q, b, planned, at) ==
  /\ q \in DOMAIN qualifications /\ ApprovedAndCurrent(qualifications[q], at)
  /\ FreshBatch(b)
  /\ Begin(s, [op |-> "CreateBatch", row |-> q, id |-> b, planned |-> planned, at |-> at])

CommitCreateBatch(s) ==
  LET call == tx[s].call IN
  /\ Commits(s, "CreateBatch")
  /\ batches' = Put(batches, call.id,
       NewBatch(qualifications[call.row].merchant, call.planned, call.at))
  /\ UNCHANGED <<now, qualifications, orderBatch, incidents, listed, evidence>>

BeginProduction(s, b, quantity) ==
  /\ b \in DOMAIN batches /\ batches[b].status = "PRODUCING" /\ quantity <= batches[b].planned
  /\ Begin(s, [op |-> "RecordBatchProduction", row |-> b, quantity |-> quantity])

CommitProduction(s) ==
  /\ Commits(s, "RecordBatchProduction")
  /\ batches' = [batches EXCEPT ![tx[s].call.row].produced = tx[s].call.quantity]
  /\ UNCHANGED <<now, qualifications, orderBatch, incidents, listed, evidence>>

BeginTransitionBatch(s, b, target) ==
  /\ b \in DOMAIN batches
  /\ CanTransitionBatch(batches[b].status, target) /\ MayBecome(batches[b], target)
  /\ Begin(s, [op |-> "TransitionBatch", row |-> b, target |-> target])

CommitTransitionBatch(s) ==
  /\ Commits(s, "TransitionBatch")
  /\ batches' = [batches EXCEPT ![tx[s].call.row].status = tx[s].call.target]
  /\ UNCHANGED <<now, qualifications, orderBatch, incidents, listed, evidence>>

BeginAssociate(s, b, added) ==
  /\ b \in DOMAIN batches /\ batches[b].status \in TakesOrders
  /\ Begins(s, [op |-> "AssociateOrders", row |-> b, added |-> added],
            DOMAIN added, NewestOf(<<>>))

CommitAssociate(s) ==
  LET call == tx[s].call IN
  /\ Commits(s, "AssociateOrders")
  /\ batches' = [batches EXCEPT ![call.row].orders = With(@, call.added)]
  /\ orderBatch' = With(orderBatch, [o \in DOMAIN call.added |-> call.row])
  /\ UNCHANGED <<now, qualifications, incidents, listed, evidence>>

-----------------------------------------------------------------------------
\* Incidents.

PgCreateIncident(i, m, bs, os) ==
  /\ i \notin DOMAIN incidents
  /\ \A b \in ToSet(bs) : b \in DOMAIN batches /\ batches[b].merchant = m
  /\ incidents' = Put(incidents, i,
       [merchant |-> m, status |-> "REPORTED", batches |-> ToSet(bs), orders |-> os,
        contained |-> FALSE])
  /\ listed' = Put(listed, i, bs)
  /\ UNCHANGED <<productionVars, evidence, tx>>

BeginTransitionIncident(s, i, target) ==
  /\ i \in DOMAIN incidents /\ Service!CanTransitionIncident(incidents[i].status, target)
  /\ Begins(s, [op |-> "TransitionIncident", row |-> i, target |-> target],
            IF target = "CONTAINED" THEN incidents[i].batches ELSE {}, NewestOf(<<>>))

\* The columns the target does not set are written back as they were read.
CommitTransitionIncident(s) ==
  LET i == tx[s].call.row
      target == tx[s].call.target
  IN
  /\ Commits(s, "TransitionIncident")
  /\ batches' = IF target = "CONTAINED" THEN Service!Quarantined(incidents[i].batches) ELSE batches
  /\ incidents' = [incidents EXCEPT ![i].status = target,
                                    ![i].contained = @ \/ target = "CONTAINED"]
  /\ UNCHANGED <<now, qualifications, orderBatch, listed, evidence>>

-----------------------------------------------------------------------------
\* Evidence.

\* The newest record is read under the lock of the subject's row.
BeginEvidence(s, x, at) ==
  /\ x \in EvidenceSubjects \cap (DOMAIN qualifications \cup DOMAIN batches \cup DOMAIN incidents)
  /\ Len(evidence[x]) < MaxEvidence
  /\ Begins(s, [op |-> "AddEvidence", row |-> x, at |-> at], {}, NewestOf(evidence[x]))

\* A unique index refuses a sequence number the chain already has.
CommitEvidence(s) ==
  LET x == tx[s].call.row
      record == Following(tx[s].newest, tx[s].call.at)
  IN
  /\ Commits(s, "AddEvidence")
  /\ evidence' = IF \E k \in DOMAIN evidence[x] : evidence[x][k].sequence = record.sequence
                 THEN evidence ELSE [evidence EXCEPT ![x] = Append(@, record)]
  /\ UNCHANGED <<productionVars, incidents, listed>>

-----------------------------------------------------------------------------
\* Locks after the first.

SameOrder(x, y) == UuidOf[x] = UuidOf[y]

Fits(t, row) ==
  LET soFar == [o \in (t.holds \cap Orders) \cup {row} |-> t.call.added[o]]
  IN Ordered(batches[t.call.row].orders) + Ordered(soFar) <= batches[t.call.row].planned

\* Faulty variant: an order is looked up by the text of its id.
PassesByText(t, row) ==
  \/ t.call.op = "TransitionIncident" /\ Service!CanQuarantine(row)
  \/ t.call.op = "AssociateOrders" /\ row \notin DOMAIN orderBatch /\ Fits(t, row)

\* The row a call locks next passes its check: a batch can be quarantined, an
\* order is in no batch yet, this call's own inserts included, and fits in the
\* batch with those before it.  What other calls have inserted and not yet
\* committed is not seen.
Passes(t, row) ==
  \/ t.call.op = "TransitionIncident" /\ Service!CanQuarantine(row)
  \/ /\ t.call.op = "AssociateOrders" /\ Fits(t, row)
     /\ \A x \in DOMAIN orderBatch \cup (t.holds \cap Orders) : ~SameOrder(x, row)

Precedes(list, x, y) == \E i, j \in DOMAIN list : i < j /\ list[i] = x /\ list[j] = y

\* Faulty variant: the rows are locked in no order.
NextLockAny(t, row) == row \in t.wants

\* AssociateOrders sorts its orders by the texts of their identifiers,
\* quarantineIncidentBatchesTx takes the batches as they are listed.
NextLock(t, row) ==
  LET order == IF t.call.op = "AssociateOrders" THEN TextOrder ELSE listed[t.call.row] IN
  row \in t.wants /\ \A other \in t.wants \ {row} : Precedes(order, row, other)

\* Faulty variant: a refused call keeps its locks.
LockNextAndKeep(s) == \E row \in tx[s].wants :
  /\ NextLock(tx[s], row) /\ Free(row)
  /\ Passes(tx[s], row)
  /\ tx' = [tx EXCEPT ![s].holds = @ \cup {row}, ![s].wants = @ \ {row}]
  /\ UNCHANGED rows

LockNext(s) == \E row \in tx[s].wants :
  /\ NextLock(tx[s], row) /\ Free(row)
  /\ IF Passes(tx[s], row)
     THEN tx' = [tx EXCEPT ![s].holds = @ \cup {row}, ![s].wants = @ \ {row}]
     ELSE Ends(s)
  /\ UNCHANGED rows

WaitsFor(s, r) == s # r /\ \E row \in tx[r].holds : NextLock(tx[s], row)

\* Sessions that wait for each other in a circle.
Deadlocked(C) ==
  C # {} /\ \A s \in C : (\E r \in C : WaitsFor(s, r)) /\ (\E r \in C : WaitsFor(r, s))

\* PostgreSQL ends one transaction of a circle; the call fails, nobody repeats it.
DetectDeadlock(s) ==
  /\ \E C \in SUBSET Sessions : s \in C /\ Deadlocked(C)
  /\ Ends(s) /\ UNCHANGED rows

\* The request is cancelled, the connection breaks or the replica dies.
Abort(s) == tx[s] # NoTx /\ Ends(s) /\ UNCHANGED rows

-----------------------------------------------------------------------------
Start(s) ==
  \/ \E q \in QualificationIds : BeginSubmit(s, q)
  \/ \E q \in QualificationIds, decision \in {"APPROVED", "REJECTED"} : BeginReview(s, q, decision)
  \/ \E q \in QualificationIds, result \in SiteInspectionResult : BeginInspection(s, q, result)
  \/ \E q \in QualificationIds, b \in BatchIds, planned \in Plans, at \in 0 .. now :
       BeginCreateBatch(s, q, b, planned, at)
  \/ \E b \in BatchIds, quantity \in ProducedQuantities : BeginProduction(s, b, quantity)
  \/ \E b \in BatchIds, target \in BatchTargets : BeginTransitionBatch(s, b, target)
  \/ \E b \in BatchIds, added \in OrderCalls : BeginAssociate(s, b, added)
  \/ \E i \in IncidentIds, target \in IncidentTargets : BeginTransitionIncident(s, i, target)
  \/ \E x \in EvidenceSubjects, at \in CapturedAt : BeginEvidence(s, x, at)

Commit(s) ==
  \/ CommitSubmit(s) \/ CommitReview(s) \/ CommitInspection(s)
  \/ CommitCreateBatch(s) \/ CommitProduction(s) \/ CommitTransitionBatch(s) \/ CommitAssociate(s)
  \/ CommitTransitionIncident(s) \/ CommitEvidence(s)

SafetyPgNext ==
  \/ Tick /\ UNCHANGED <<incidents, listed, evidence, tx>>
  \/ \E q \in QualificationIds, m \in Merchants, complete \in BOOLEAN, until \in ExpiryDates :
       PgCreateQualification(q, m, complete, until)
  \/ \E report \in Reports, m \in Merchants :
       PgCreateIncident(report.id, m, report.batches, report.orders)
  \/ \E s \in Sessions : Start(s) \/ LockNext(s) \/ Commit(s) \/ DetectDeadlock(s) \/ Abort(s)

SafetyPgSpec == SafetyPgInit /\ [][SafetyPgNext]_pgVars

\* Whoever waits for a lock that is released again and again gets it; a circle is
\* detected after deadlock_timeout.
FairSafetyPgSpec ==
  SafetyPgSpec /\ \A s \in Sessions :
    WF_pgVars(Commit(s)) /\ SF_pgVars(LockNext(s)) /\ WF_pgVars(DetectDeadlock(s))

-----------------------------------------------------------------------------
\* The committed rows and the open transactions are well formed, and a
\* transaction in progress holds the row it began with.
SafetyPgTypeOK ==
  /\ ProductionTypeOK
  /\ DOMAIN incidents \subseteq IncidentIds /\ DOMAIN listed = DOMAIN incidents
  /\ \A i \in DOMAIN incidents :
       incidents[i] \in Service!Incident /\ incidents[i].batches = ToSet(listed[i])
  /\ DOMAIN evidence = EvidenceSubjects
  /\ \A s \in Sessions : tx[s] # NoTx =>
       tx[s].call \in Calls /\ tx[s].call.row \in tx[s].holds

\* Every step of the database is a step of the service in memory or changes
\* nothing of it, whatever sessions run at once, wait, are ended or die.  To the
\* service in memory an order is the text of its id (memory.go keys orderBatch by
\* it): an order that is written in two ways can be in two batches there, and
\* here when two calls put it into them at once.
ImplementsService == Service!ContainmentSpec

\* A batch never holds an order twice, however its id is written: neither one
\* call nor two calls on the batch, which wait for its row, insert it again, so
\* that the primary key (batch_id, order_id) never has to refuse (AssociateOrders).
NoOrderTwiceInABatch ==
  \A x, y \in DOMAIN orderBatch :
    SameOrder(x, y) /\ orderBatch[x] = orderBatch[y] => x = y

\* Concurrent appends never break a chain: its records are numbered without a
\* gap and each follows the one before, and whoever is about to append read
\* the newest record, so the unique index never has to refuse one (AddEvidence,
\* lockEvidenceSubjectTx).
EvidenceChainsUnbroken ==
  /\ \A x \in EvidenceSubjects : Linked(evidence[x])
  /\ \A s \in Sessions : tx[s].call.op = "AddEvidence" =>
       tx[s].newest = NewestOf(evidence[tx[s].call.row])

\* Only containments of incidents can wait for each other in a circle: they lock
\* batches in the order of their incidents' lists, everything else locks in one
\* order (quarantineIncidentBatchesTx, AssociateOrders).
OnlyContainmentsDeadlock ==
  \A C \in SUBSET Sessions : Deadlocked(C) =>
    \A s \in C : tx[s].call.op = "TransitionIncident" /\ tx[s].call.target = "CONTAINED"

\* Every transaction ends, deadlocked or not.
EveryCallEnds == \A s \in Sessions : tx[s] # NoTx ~> tx[s] = NoTx

\* What the package promises of its adapters: a chain written by AddEvidence is
\* one that VerifyEvidenceChain accepts.
RecordedEvidenceVerifies == \A x \in EvidenceSubjects : Verifies(evidence[x])
=============================================================================
