--------------------------- MODULE SafetyPgProofs ---------------------------
(***************************************************************************)
(* Proofs about SafetyPg, for any number of sessions, orders and batches.  *)
(*                                                                         *)
(* A transaction commits what it decided several statements ago.  The      *)
(* inductive invariant says what of that decision is still true: the rows  *)
(* it holds are as it checked them, because nobody else holds them and     *)
(* whoever writes a row holds it.                                          *)
(***************************************************************************)
EXTENDS SafetyPg, ProductionProofs, WellFoundedInduction

Rows == QualificationIds \cup BatchIds \cup IncidentIds \cup Orders

\* An incident keeps the batches it was reported with.
IncidentsOK ==
  /\ DOMAIN incidents \subseteq IncidentIds /\ DOMAIN listed = DOMAIN incidents
  /\ \A i \in DOMAIN incidents :
       /\ incidents[i] \in Service!Incident /\ incidents[i].batches = ToSet(listed[i])
       /\ incidents[i].batches \subseteq DOMAIN batches

ChainsOK ==
  /\ DOMAIN evidence = EvidenceSubjects
  /\ \A x \in EvidenceSubjects :
       /\ Linked(evidence[x])
       /\ \E S : evidence[x] \in Seq(S)

\* What a call locks after its first row.
Others(call) ==
  IF call.op = "AssociateOrders" THEN DOMAIN call.added
  ELSE IF call.op = "TransitionIncident" /\ call.target = "CONTAINED"
       THEN incidents[call.row].batches ELSE {}

TxOK(s) ==
  /\ tx[s] = [call |-> tx[s].call, holds |-> tx[s].holds, wants |-> tx[s].wants,
              newest |-> tx[s].newest]
  /\ tx[s].call.op = "none" => tx[s] = NoTx
  /\ tx[s].call.op # "none" =>
       /\ tx[s].call \in Calls
       /\ tx[s].holds \cup tx[s].wants = {tx[s].call.row} \cup Others(tx[s].call)
       /\ tx[s].holds \cap tx[s].wants = {} /\ tx[s].call.row \in tx[s].holds

\* The checks of the call, as if they were made now.
QualificationChecks(s) ==
  LET call == tx[s].call
      q    == call.row
  IN
  /\ call.op = "SubmitQualification" =>
       q \in DOMAIN qualifications /\ \E at \in 0 .. now : Submittable(qualifications[q], at)
  /\ call.op = "ReviewQualification" =>
       /\ q \in DOMAIN qualifications /\ qualifications[q].status = "PENDING_REVIEW"
       /\ call.decision = "APPROVED" => \E at \in 0 .. now : Approvable(qualifications[q], at)
  /\ call.op = "RecordSiteInspection" =>
       q \in DOMAIN qualifications /\ qualifications[q].status \in {"DRAFT", "PENDING_REVIEW"}
  /\ call.op = "CreateBatch" =>
       /\ q \in DOMAIN qualifications /\ ApprovedAndCurrent(qualifications[q], call.at)
       /\ call.at \in 0 .. now /\ call.id \notin DOMAIN batches

BatchChecks(s) ==
  LET call == tx[s].call
      b    == call.row
      held == tx[s].holds \cap Orders
  IN
  /\ call.op = "RecordBatchProduction" =>
       /\ b \in DOMAIN batches /\ batches[b].status = "PRODUCING"
       /\ call.quantity <= batches[b].planned
  /\ call.op = "TransitionBatch" =>
       /\ b \in DOMAIN batches /\ CanTransitionBatch(batches[b].status, call.target)
       /\ MayBecome(batches[b], call.target)
  /\ call.op = "AssociateOrders" =>
       /\ b \in DOMAIN batches /\ batches[b].status \in TakesOrders
       /\ held \cap DOMAIN orderBatch = {} /\ DOMAIN call.added # {}
       /\ \A x \in held, y \in held \cup DOMAIN batches[b].orders : SameOrder(y, x) => y = x
       /\ held # {} =>
            Ordered(batches[b].orders) + Ordered([o \in held |-> call.added[o]])
              <= batches[b].planned
       /\ \A x \in held, y \in tx[s].wants : Precedes(TextOrder, x, y)

OtherChecks(s) ==
  LET call == tx[s].call IN
  /\ call.op = "TransitionIncident" =>
       /\ call.row \in DOMAIN incidents
       /\ Service!CanTransitionIncident(incidents[call.row].status, call.target)
       /\ \A b \in tx[s].holds \cap BatchIds : Service!CanQuarantine(b)
  /\ call.op = "AddEvidence" => tx[s].newest = NewestOf(evidence[call.row])

Checks(s) == QualificationChecks(s) /\ BatchChecks(s) /\ OtherChecks(s)

\* No row has two holders, and no two calls create the same batch.
AreApart(s, r) ==
  /\ tx[s].holds \cap tx[r].holds = {}
  /\ tx[s].call.op = "CreateBatch" /\ tx[r].call.op = "CreateBatch" =>
       tx[s].call.id # tx[r].call.id

SafetyPgInv ==
  /\ ProductionInv /\ IncidentsOK /\ ChainsOK
  /\ DOMAIN tx = Sessions
  /\ \A s \in Sessions : TxOK(s) /\ Checks(s)
  /\ \A s, r \in Sessions : s # r => AreApart(s, r)

\* What a step of another session leaves to s: its transaction and the rows it
\* holds, and the identifier it drew.
RowsKept(s) ==
  /\ tx'[s] = tx[s]
  /\ \A at \in 0 .. now : at \in 0 .. now'
  /\ \A x \in tx[s].holds :
       /\ x \in DOMAIN qualifications => x \in DOMAIN qualifications' /\ qualifications'[x] = qualifications[x]
       /\ x \in DOMAIN batches => x \in DOMAIN batches' /\ batches'[x] = batches[x]
       /\ x \in DOMAIN incidents => x \in DOMAIN incidents' /\ incidents'[x] = incidents[x]
       /\ x \in DOMAIN orderBatch' => x \in DOMAIN orderBatch
       /\ x \in EvidenceSubjects => evidence'[x] = evidence[x]
  /\ tx[s].call.op = "CreateBatch" => tx[s].call.id \notin DOMAIN batches' \ DOMAIN batches

\* Writing rows that s holds and inserting new ones, a step of s may do.
WritesHeld(s) ==
  /\ UNCHANGED now
  /\ \A x \in DOMAIN qualifications \ tx[s].holds :
       x \in DOMAIN qualifications' /\ qualifications'[x] = qualifications[x]
  /\ \A x \in DOMAIN batches \ tx[s].holds : x \in DOMAIN batches' /\ batches'[x] = batches[x]
  /\ \A x \in DOMAIN incidents \ tx[s].holds : x \in DOMAIN incidents' /\ incidents'[x] = incidents[x]
  /\ DOMAIN orderBatch' \ DOMAIN orderBatch \subseteq tx[s].holds
  /\ \A x \in EvidenceSubjects \ tx[s].holds : evidence'[x] = evidence[x]
  /\ \A r \in Sessions \ {s} :
       tx[r].call.op = "CreateBatch" => tx[r].call.id \notin DOMAIN batches' \ DOMAIN batches

-----------------------------------------------------------------------------
\* Transactions.

\* What the arguments of a call are.
LEMMA CallKinds ==
  ASSUME NEW call \in Calls
  PROVE  /\ call.op # "none"
         /\ call.op \in {"SubmitQualification", "ReviewQualification", "RecordSiteInspection"}
              => call.row \in QualificationIds
         /\ call.op = "ReviewQualification" => call.decision \in {"APPROVED", "REJECTED"}
         /\ call.op = "RecordSiteInspection" => call.result \in SiteInspectionResult
         /\ call.op = "CreateBatch" =>
              /\ call.row \in QualificationIds /\ call.id \in BatchIds /\ call.planned \in Plans
         /\ call.op \in {"RecordBatchProduction", "TransitionBatch", "AssociateOrders"}
              => call.row \in BatchIds
         /\ call.op = "RecordBatchProduction" => call.quantity \in ProducedQuantities
         /\ call.op = "TransitionBatch" => call.target \in BatchTargets
         /\ call.op = "AssociateOrders" => call.added \in OrderMaps
         /\ call.op = "TransitionIncident" =>
              call.row \in IncidentIds /\ call.target \in IncidentTargets
         /\ call.op = "AddEvidence" => call.row \in EvidenceSubjects /\ call.at \in CapturedAt
BY DEF Calls

\* An idle session relies on nothing.
LEMMA IdleIsFine ==
  ASSUME NEW s \in Sessions, tx'[s] = NoTx
  PROVE  TxOK(s)' /\ Checks(s)'
BY DEF NoTx, TxOK, Checks, QualificationChecks, BatchChecks, OtherChecks

\* What others leave alone, a session may go on relying on.
LEMMA KeptIsFine ==
  ASSUME SafetyPgInv, NEW s \in Sessions, RowsKept(s)
  PROVE  TxOK(s)' /\ Checks(s)'
<1>1. CASE tx[s].call.op = "none"
  BY <1>1, IdleIsFine DEF SafetyPgInv, TxOK, RowsKept
<1>2. CASE tx[s].call.op # "none"
  <2> DEFINE call == tx[s].call
             x    == tx[s].call.row
  <2>1. tx'[s] = tx[s] /\ x \in tx[s].holds /\ call \in Calls
    BY <1>2 DEF SafetyPgInv, TxOK, RowsKept
  <2>2. Checks(s)
    BY DEF SafetyPgInv
  <2>3. call.op = "TransitionIncident" => incidents'[x] = incidents[x] /\ x \in DOMAIN incidents
    BY <2>1, <2>2 DEF Checks, OtherChecks, RowsKept
  <2>4. Others(call)' = Others(call)
    BY <2>1, <2>3 DEF Others
  <2>5. TxOK(s)'
    BY <2>1, <2>4 DEF SafetyPgInv, TxOK
  <2>6. QualificationChecks(s)'
    BY <2>1, <2>2 DEF Checks, QualificationChecks, RowsKept
  <2>7. BatchChecks(s)'
    BY <2>1, <2>2 DEF Checks, BatchChecks, RowsKept
  <2>8. OtherChecks(s)'
    <3>1. \A b \in tx[s].holds \cap BatchIds :
            call.op = "TransitionIncident" => b \in DOMAIN batches
      BY <1>2, <2>1, CallKinds, RowsAssumption, <2>2
      DEF SafetyPgInv, TxOK, Others, IncidentsOK, Checks, OtherChecks
    <3>2. call.op = "TransitionIncident" => \A b \in tx[s].holds \cap BatchIds : Service!CanQuarantine(b)'
      BY <2>2, <3>1 DEF Checks, OtherChecks, RowsKept, Service!CanQuarantine,
         Service!CanTransitionBatch
    <3> QED
      BY <2>1, <2>2, <2>3, <3>2, CallKinds DEF Checks, OtherChecks, RowsKept
  <2> QED
    BY <2>5, <2>6, <2>7, <2>8 DEF Checks
<1> QED
  BY <1>1, <1>2

\* Steps that begin a transaction or take a lock write no row.
LEMMA LockingStep ==
  ASSUME SafetyPgInv, UNCHANGED rows, NEW s \in Sessions, DOMAIN tx' = Sessions,
         \A r \in Sessions \ {s} : tx'[r] = tx[r] /\ AreApart(s, r)',
         TxOK(s)', Checks(s)'
  PROVE  SafetyPgInv'
<1>1. ProductionInv'
  BY ProductionStep DEF SafetyPgInv, rows
<1>2. IncidentsOK' /\ ChainsOK'
  BY DEF SafetyPgInv, rows, productionVars, IncidentsOK, ChainsOK
<1>3. \A q, r \in Sessions : q # r => AreApart(q, r)'
  BY DEF SafetyPgInv, AreApart
<1>4. ASSUME NEW r \in Sessions \ {s} PROVE TxOK(r)' /\ Checks(r)'
  <2>1. RowsKept(r)
    BY DEF RowsKept, rows, productionVars
  <2> QED
    BY <2>1, KeptIsFine
<1> QED
  BY <1>1, <1>2, <1>3, <1>4 DEF SafetyPgInv

\* A step that ends a transaction and writes only what it held disturbs nobody.
LEMMA EndingStep ==
  ASSUME SafetyPgInv, NEW s \in Sessions, Ends(s), WritesHeld(s),
         ProductionInv', IncidentsOK', ChainsOK'
  PROVE  SafetyPgInv'
<1>1. DOMAIN tx' = Sessions /\ tx'[s] = NoTx /\ \A r \in Sessions \ {s} : tx'[r] = tx[r]
  BY DEF SafetyPgInv, Ends
<1>2. \A q, r \in Sessions : q # r => AreApart(q, r)'
  BY <1>1 DEF SafetyPgInv, AreApart, NoTx
<1>3. ASSUME NEW r \in Sessions \ {s} PROVE TxOK(r)' /\ Checks(r)'
  <2>1. tx[r].holds \cap tx[s].holds = {}
    BY DEF SafetyPgInv, AreApart
  <2>2. RowsKept(r)
    BY <1>1, <2>1 DEF RowsKept, WritesHeld
  <2> QED
    BY <2>2, KeptIsFine
<1> QED
  BY <1>1, <1>2, <1>3, IdleIsFine DEF SafetyPgInv

\* A refused call, a cancelled one and the victim of a deadlock write nothing.
LEMMA RollbackStep ==
  ASSUME SafetyPgInv, NEW s \in Sessions, Ends(s), UNCHANGED rows
  PROVE  SafetyPgInv'
<1>1. ProductionInv'
  BY ProductionStep DEF SafetyPgInv, rows
<1>2. IncidentsOK' /\ ChainsOK'
  BY DEF SafetyPgInv, rows, productionVars, IncidentsOK, ChainsOK
<1>3. WritesHeld(s)
  BY DEF WritesHeld, rows, productionVars
<1> QED
  BY <1>1, <1>2, <1>3, EndingStep

-----------------------------------------------------------------------------
\* Transactions begin with a checked row.

\* The first lock of a call is free, and the others are yet to be taken.
LEMMA BeginsStep ==
  ASSUME SafetyPgInv, NEW s \in Sessions, NEW call \in Calls, NEW wants, NEW newest,
         Begins(s, call, wants, newest), wants = Others(call), call.row \notin wants,
         call.op = "CreateBatch" => FreshBatch(call.id), Checks(s)'
  PROVE  SafetyPgInv'
<1> DEFINE t == [call |-> call, holds |-> {call.row}, wants |-> wants, newest |-> newest]
<1>1. /\ UNCHANGED rows /\ Free(call.row) /\ tx' = [tx EXCEPT ![s] = t]
  BY DEF Begins
<1>2. /\ t.call = call /\ t.holds = {call.row} /\ t.wants = wants
      /\ t = [call |-> t.call, holds |-> t.holds, wants |-> t.wants, newest |-> t.newest]
  OBVIOUS
<1> HIDE DEF t
<1>3. DOMAIN tx' = Sessions /\ tx'[s] = t /\ \A r \in Sessions \ {s} : tx'[r] = tx[r]
  BY <1>1 DEF SafetyPgInv
<1>4. Others(call)' = Others(call)
  BY <1>1 DEF Others, rows
<1>5. TxOK(s)'
  BY <1>2, <1>3, <1>4, CallKinds DEF TxOK
<1>6. ASSUME NEW r \in Sessions \ {s} PROVE AreApart(s, r)'
  BY <1>1, <1>2, <1>3 DEF AreApart, Free, FreshBatch
<1> QED
  BY <1>1, <1>3, <1>5, <1>6, LockingStep

\* Of the calls that lock one row.
LEMMA BeginStep ==
  ASSUME SafetyPgInv, NEW s \in Sessions, NEW call \in Calls, Begin(s, call),
         call.op \notin {"AssociateOrders", "TransitionIncident"},
         call.op = "CreateBatch" => FreshBatch(call.id), Checks(s)'
  PROVE  SafetyPgInv'
BY BeginsStep DEF Begin, Others

\* The operations on qualifications and CreateBatch begin.
LEMMA StartOnQualification ==
  ASSUME SafetyPgInv, NEW s \in Sessions, NEW q \in QualificationIds,
         \/ BeginSubmit(s, q)
         \/ \E decision \in {"APPROVED", "REJECTED"} : BeginReview(s, q, decision)
         \/ \E result \in SiteInspectionResult : BeginInspection(s, q, result)
         \/ \E b \in BatchIds, planned \in Plans, at \in 0 .. now : BeginCreateBatch(s, q, b, planned, at)
  PROVE  SafetyPgInv'
<1> USE DEF Checks, QualificationChecks, BatchChecks, OtherChecks
<1>0. now \in 0 .. Horizon /\ Horizon \in Nat
  BY HorizonAssumption DEF SafetyPgInv, ProductionInv, ProductionTypeOK
<1>1. CASE BeginSubmit(s, q)
  <2> DEFINE call == [op |-> "SubmitQualification", row |-> q]
  <2>1. call \in Calls /\ call.op = "SubmitQualification" /\ call.row = q
    BY DEF Calls
  <2>2. q \in DOMAIN qualifications /\ Submittable(qualifications[q], now) /\ Begin(s, call)
    BY <1>1 DEF BeginSubmit
  <2> HIDE DEF call
  <2>3. tx'[s].call = call /\ UNCHANGED rows
    BY <2>2 DEF SafetyPgInv, Begin, Begins
  <2>4. Checks(s)'
    BY <1>0, <2>1, <2>2, <2>3 DEF rows, productionVars
  <2> QED
    BY <2>1, <2>2, <2>4, BeginStep
<1>2. ASSUME NEW decision \in {"APPROVED", "REJECTED"}, BeginReview(s, q, decision)
      PROVE  SafetyPgInv'
  <2> DEFINE call == [op |-> "ReviewQualification", row |-> q, decision |-> decision]
  <2>1. call \in Calls /\ call.op = "ReviewQualification" /\ call.row = q /\ call.decision = decision
    BY DEF Calls
  <2>2. /\ q \in DOMAIN qualifications /\ qualifications[q].status = "PENDING_REVIEW"
        /\ decision = "APPROVED" => Approvable(qualifications[q], now)
        /\ Begin(s, call)
    BY <1>2 DEF BeginReview
  <2> HIDE DEF call
  <2>3. tx'[s].call = call /\ UNCHANGED rows
    BY <2>2 DEF SafetyPgInv, Begin, Begins
  <2>4. Checks(s)'
    BY <1>0, <2>1, <2>2, <2>3 DEF rows, productionVars
  <2> QED
    BY <2>1, <2>2, <2>4, BeginStep
<1>3. ASSUME NEW result \in SiteInspectionResult, BeginInspection(s, q, result)
      PROVE  SafetyPgInv'
  <2> DEFINE call == [op |-> "RecordSiteInspection", row |-> q, result |-> result]
  <2>1. call \in Calls /\ call.op = "RecordSiteInspection" /\ call.row = q
    BY DEF Calls
  <2>2. /\ q \in DOMAIN qualifications /\ qualifications[q].status \in {"DRAFT", "PENDING_REVIEW"}
        /\ Begin(s, call)
    BY <1>3 DEF BeginInspection
  <2> HIDE DEF call
  <2>3. tx'[s].call = call /\ UNCHANGED rows
    BY <2>2 DEF SafetyPgInv, Begin, Begins
  <2>4. Checks(s)'
    BY <2>1, <2>2, <2>3 DEF rows, productionVars
  <2> QED
    BY <2>1, <2>2, <2>4, BeginStep
<1>4. ASSUME NEW b \in BatchIds, NEW planned \in Plans, NEW at \in 0 .. now,
             BeginCreateBatch(s, q, b, planned, at)
      PROVE  SafetyPgInv'
  <2> DEFINE call == [op |-> "CreateBatch", row |-> q, id |-> b, planned |-> planned, at |-> at]
  <2>1. /\ call \in Calls /\ call.op = "CreateBatch" /\ call.row = q /\ call.id = b
        /\ call.at = at
    BY <1>0 DEF Calls
  <2>2. /\ q \in DOMAIN qualifications /\ ApprovedAndCurrent(qualifications[q], at)
        /\ FreshBatch(b) /\ Begin(s, call)
    BY <1>4 DEF BeginCreateBatch
  <2> HIDE DEF call
  <2>3. tx'[s].call = call /\ UNCHANGED rows
    BY <2>2 DEF SafetyPgInv, Begin, Begins
  <2>4. Checks(s)'
    BY <2>1, <2>2, <2>3 DEF rows, productionVars, FreshBatch
  <2> QED
    BY <2>1, <2>2, <2>4, BeginStep
<1> QED
  BY <1>1, <1>2, <1>3, <1>4

\* The operations on batches begin.
LEMMA StartOnBatch ==
  ASSUME SafetyPgInv, NEW s \in Sessions, NEW b \in BatchIds,
         \/ \E quantity \in ProducedQuantities : BeginProduction(s, b, quantity)
         \/ \E target \in BatchTargets : BeginTransitionBatch(s, b, target)
         \/ \E added \in OrderCalls : BeginAssociate(s, b, added)
  PROVE  SafetyPgInv'
<1> USE DEF Checks, QualificationChecks, BatchChecks, OtherChecks
<1>1. ASSUME NEW quantity \in ProducedQuantities, BeginProduction(s, b, quantity)
      PROVE  SafetyPgInv'
  <2> DEFINE call == [op |-> "RecordBatchProduction", row |-> b, quantity |-> quantity]
  <2>1. /\ call \in Calls /\ call.op = "RecordBatchProduction" /\ call.row = b
        /\ call.quantity = quantity
    BY DEF Calls
  <2>2. /\ b \in DOMAIN batches /\ batches[b].status = "PRODUCING" /\ quantity <= batches[b].planned
        /\ Begin(s, call)
    BY <1>1 DEF BeginProduction
  <2> HIDE DEF call
  <2>3. tx'[s].call = call /\ UNCHANGED rows
    BY <2>2 DEF SafetyPgInv, Begin, Begins
  <2>4. Checks(s)'
    BY <2>1, <2>2, <2>3 DEF rows, productionVars
  <2> QED
    BY <2>1, <2>2, <2>4, BeginStep
<1>2. ASSUME NEW target \in BatchTargets, BeginTransitionBatch(s, b, target)
      PROVE  SafetyPgInv'
  <2> DEFINE call == [op |-> "TransitionBatch", row |-> b, target |-> target]
  <2>1. call \in Calls /\ call.op = "TransitionBatch" /\ call.row = b /\ call.target = target
    BY DEF Calls
  <2>2. /\ b \in DOMAIN batches /\ CanTransitionBatch(batches[b].status, target)
        /\ MayBecome(batches[b], target) /\ Begin(s, call)
    BY <1>2 DEF BeginTransitionBatch
  <2> HIDE DEF call
  <2>3. tx'[s].call = call /\ UNCHANGED rows
    BY <2>2 DEF SafetyPgInv, Begin, Begins
  <2>4. Checks(s)'
    BY <2>1, <2>2, <2>3 DEF rows, productionVars
  <2> QED
    BY <2>1, <2>2, <2>4, BeginStep
<1>3. ASSUME NEW added \in OrderCalls, BeginAssociate(s, b, added)
      PROVE  SafetyPgInv'
  <2> DEFINE call == [op |-> "AssociateOrders", row |-> b, added |-> added]
  <2>1. added \in OrderMaps /\ DOMAIN added # {} /\ DOMAIN added \subseteq Orders
    BY OrdersAssumption DEF OrderMaps
  <2>2. call \in Calls /\ call.op = "AssociateOrders" /\ call.row = b /\ call.added = added
    BY <2>1 DEF Calls
  <2>3. /\ b \in DOMAIN batches /\ batches[b].status \in TakesOrders
        /\ Begins(s, call, DOMAIN added, NewestOf(<<>>))
    BY <1>3 DEF BeginAssociate
  <2> HIDE DEF call
  <2>4. tx'[s].call = call /\ tx'[s].holds = {b} /\ UNCHANGED rows
    BY <2>2, <2>3 DEF SafetyPgInv, Begins
  <2>5. tx'[s].holds \cap Orders = {} /\ b \notin DOMAIN added
    BY <2>1, <2>4, RowsAssumption
  <2>6. Checks(s)'
    BY <2>1, <2>2, <2>3, <2>4, <2>5 DEF rows, productionVars
  <2> QED
    BY <2>2, <2>3, <2>5, <2>6, BeginsStep DEF Others
<1> QED
  BY <1>1, <1>2, <1>3

\* A transition of an incident and AddEvidence begin.
LEMMA StartOnIncident ==
  ASSUME SafetyPgInv, NEW s \in Sessions,
         \/ \E i \in IncidentIds, target \in IncidentTargets : BeginTransitionIncident(s, i, target)
         \/ \E x \in EvidenceSubjects, at \in CapturedAt : BeginEvidence(s, x, at)
  PROVE  SafetyPgInv'
<1> USE DEF Checks, QualificationChecks, BatchChecks, OtherChecks
<1>1. ASSUME NEW i \in IncidentIds, NEW target \in IncidentTargets, BeginTransitionIncident(s, i, target)
      PROVE  SafetyPgInv'
  <2> DEFINE call == [op |-> "TransitionIncident", row |-> i, target |-> target]
             wants == IF target = "CONTAINED" THEN incidents[i].batches ELSE {}
  <2>1. call \in Calls /\ call.op = "TransitionIncident" /\ call.row = i /\ call.target = target
    BY DEF Calls
  <2>2. /\ i \in DOMAIN incidents /\ Service!CanTransitionIncident(incidents[i].status, target)
        /\ Begins(s, call, wants, NewestOf(<<>>))
    BY <1>1 DEF BeginTransitionIncident
  <2>3. wants \subseteq BatchIds
    BY <2>2 DEF SafetyPgInv, IncidentsOK, ProductionInv, ProductionTypeOK
  <2>4. wants = Others(call)
    BY <2>1 DEF Others
  <2> HIDE DEF call, wants
  <2>5. tx'[s].call = call /\ tx'[s].holds = {i} /\ UNCHANGED rows
    BY <2>1, <2>2 DEF SafetyPgInv, Begins
  <2>6. tx'[s].holds \cap BatchIds = {} /\ i \notin wants
    BY <2>3, <2>5, RowsAssumption
  <2>7. Checks(s)'
    BY <2>1, <2>2, <2>5, <2>6 DEF rows, productionVars
  <2> QED
    BY <2>1, <2>2, <2>4, <2>6, <2>7, BeginsStep
<1>2. ASSUME NEW x \in EvidenceSubjects, NEW at \in CapturedAt, BeginEvidence(s, x, at)
      PROVE  SafetyPgInv'
  <2> DEFINE call == [op |-> "AddEvidence", row |-> x, at |-> at]
  <2>1. call \in Calls /\ call.op = "AddEvidence" /\ call.row = x
    BY DEF Calls
  <2>2. Begins(s, call, {}, NewestOf(evidence[x]))
    BY <1>2 DEF BeginEvidence
  <2> HIDE DEF call
  <2>3. tx'[s].call = call /\ tx'[s].newest = NewestOf(evidence[x]) /\ UNCHANGED rows
    BY <2>2 DEF SafetyPgInv, Begins
  <2>4. Checks(s)'
    BY <2>1, <2>3 DEF rows, productionVars
  <2> QED
    BY <2>1, <2>2, <2>4, BeginsStep DEF Others
<1> QED
  BY <1>1, <1>2

\* All operations begin as they should.
LEMMA StartStep ==
  ASSUME SafetyPgInv, NEW s \in Sessions, Start(s)
  PROVE  SafetyPgInv'
BY StartOnQualification, StartOnBatch, StartOnIncident DEF Start

-----------------------------------------------------------------------------
\* Transactions take their other locks.

\* Who still wants rows puts orders into a batch or contains an incident.
LEMMA WhoWants ==
  ASSUME SafetyPgInv, NEW s \in Sessions, NEW row \in tx[s].wants
  PROVE  /\ tx[s].call \in Calls /\ row \in Others(tx[s].call) /\ row # tx[s].call.row
         /\ \/ tx[s].call.op = "AssociateOrders" /\ row \in Orders
            \/ /\ tx[s].call.op = "TransitionIncident" /\ tx[s].call.target = "CONTAINED"
               /\ row \in DOMAIN batches /\ row \in BatchIds
<1>1. tx[s].call.op # "none"
  BY DEF SafetyPgInv, TxOK, NoTx
<1>2. /\ tx[s].call \in Calls /\ row \in {tx[s].call.row} \cup Others(tx[s].call)
      /\ tx[s].call.row \in tx[s].holds /\ row \notin tx[s].holds
  BY <1>1 DEF SafetyPgInv, TxOK
<1>3. tx[s].call.op = "AssociateOrders" => tx[s].call.added \in OrderMaps
  BY <1>2, CallKinds
<1>4. tx[s].call.op = "TransitionIncident" => tx[s].call.row \in DOMAIN incidents
  BY DEF SafetyPgInv, Checks, OtherChecks
<1> QED
  BY <1>2, <1>3, <1>4
  DEF Others, OrderMaps, SafetyPgInv, IncidentsOK, ProductionInv, ProductionTypeOK

\* The next lock was free, and the row passed its check under it.
LEMMA LockNextStep ==
  ASSUME SafetyPgInv, NEW s \in Sessions, LockNext(s)
  PROVE  SafetyPgInv'
<1>1. PICK row \in tx[s].wants :
        /\ NextLock(tx[s], row) /\ Free(row) /\ UNCHANGED rows
        /\ IF Passes(tx[s], row)
           THEN tx' = [tx EXCEPT ![s].holds = @ \cup {row}, ![s].wants = @ \ {row}]
           ELSE Ends(s)
  BY DEF LockNext
<1>2. CASE ~Passes(tx[s], row)
  BY <1>1, <1>2, RollbackStep
<1>3. CASE Passes(tx[s], row)
  <2> DEFINE call == tx[s].call
             held == tx[s].holds \cap Orders
  <2>1. /\ call \in Calls /\ row \in Others(call) /\ row # call.row
        /\ \/ call.op = "AssociateOrders" /\ row \in Orders
           \/ call.op = "TransitionIncident" /\ row \in BatchIds
    BY WhoWants
  <2>2. /\ DOMAIN tx' = Sessions /\ \A r \in Sessions \ {s} : tx'[r] = tx[r]
        /\ tx'[s] = [tx[s] EXCEPT !.holds = tx[s].holds \cup {row}, !.wants = tx[s].wants \ {row}]
    BY <1>1, <1>3 DEF SafetyPgInv
  <2>3. tx[s] = [call |-> tx[s].call, holds |-> tx[s].holds, wants |-> tx[s].wants,
                 newest |-> tx[s].newest]
    BY DEF SafetyPgInv, TxOK
  <2>4. tx'[s] = [call |-> call, holds |-> tx[s].holds \cup {row}, wants |-> tx[s].wants \ {row},
                  newest |-> tx[s].newest]
    BY <2>2, <2>3
  <2>5. /\ tx'[s].call = call /\ tx'[s].holds = tx[s].holds \cup {row}
        /\ tx'[s].wants = tx[s].wants \ {row} /\ tx'[s].newest = tx[s].newest
        /\ tx'[s] = [call |-> tx'[s].call, holds |-> tx'[s].holds, wants |-> tx'[s].wants,
                     newest |-> tx'[s].newest]
    BY <2>4
  <2>6. Others(call)' = Others(call)
    BY <1>1, <2>5 DEF Others, rows
  <2>7. call.op # "none"
    BY <2>1, CallKinds
  <2>8. TxOK(s)'
    BY <2>1, <2>5, <2>6, <2>7 DEF SafetyPgInv, TxOK
  <2>9. Checks(s)
    BY DEF SafetyPgInv
  <2>10. QualificationChecks(s)'
    BY <1>1, <2>5, <2>9 DEF Checks, QualificationChecks, rows, productionVars
  <2>11. BatchChecks(s)'
    <3>1. CASE call.op = "AssociateOrders"
      <4>1. /\ row \in Orders /\ \A x \in DOMAIN orderBatch \cup held : ~SameOrder(x, row)
            /\ Ordered(batches[call.row].orders)
                 + Ordered([o \in held \cup {row} |-> call.added[o]]) <= batches[call.row].planned
        BY <1>3, <2>1, <3>1 DEF Passes, Fits
      <4>2. tx'[s].holds \cap Orders = held \cup {row}
        BY <2>5, <4>1
      <4>3. \A y \in tx'[s].wants : Precedes(TextOrder, row, y)
        BY <1>1, <2>5, <3>1 DEF NextLock
      <4>4. \A x \in held, y \in tx[s].wants : Precedes(TextOrder, x, y)
        BY <2>9, <3>1 DEF Checks, BatchChecks
      <4>5. \A x \in held \cup {row}, y \in tx'[s].wants : Precedes(TextOrder, x, y)'
        BY <2>5, <4>3, <4>4 DEF Precedes
      <4>6. /\ call.row \in DOMAIN batches /\ batches[call.row].status \in TakesOrders
            /\ held \cap DOMAIN orderBatch = {} /\ DOMAIN call.added # {}
            /\ \A x \in held, y \in held \cup DOMAIN batches[call.row].orders :
                 SameOrder(y, x) => y = x
        BY <2>9, <3>1 DEF Checks, BatchChecks
      <4>7. UNCHANGED <<batches, orderBatch>>
        BY <1>1 DEF rows, productionVars
      <4> HIDE DEF call, held
      <4>9. row \notin DOMAIN orderBatch
        BY <4>1 DEF SameOrder
      <4>10. DOMAIN batches[call.row].orders \subseteq DOMAIN orderBatch
        BY <4>6 DEF SafetyPgInv, ProductionInv, ProductionTypeOK, OrderIndexAgrees, FoodBatch, OrderMaps
      <4>11. \A x \in held \cup {row}, y \in held \cup {row} \cup DOMAIN batches[call.row].orders :
               SameOrder(y, x) => y = x
        BY <4>1, <4>6, <4>10 DEF SameOrder
      <4>8. /\ Ordered(batches'[call.row].orders)
                 + Ordered([o \in tx'[s].holds \cap Orders |-> call.added[o]])
                 <= batches'[call.row].planned
        BY <4>1, <4>2, <4>7
      <4> QED
        BY <2>5, <3>1, <4>1, <4>2, <4>5, <4>6, <4>7, <4>8, <4>9, <4>11 DEF BatchChecks, SameOrder
    <3>2. CASE call.op = "TransitionIncident"
      BY <2>5, <3>2 DEF BatchChecks
    <3> QED
      BY <2>1, <3>1, <3>2
  <2>12. OtherChecks(s)'
    <3>1. CASE call.op = "AssociateOrders"
      BY <2>5, <3>1 DEF OtherChecks
    <3>2. CASE call.op = "TransitionIncident"
      <4>1. \A b \in tx'[s].holds \cap BatchIds : Service!CanQuarantine(b)
        BY <1>3, <2>5, <2>9, <3>2 DEF Passes, Checks, OtherChecks
      <4>2. \A b : Service!CanQuarantine(b)' = Service!CanQuarantine(b)
        BY <1>1 DEF Service!CanQuarantine, Service!CanTransitionBatch, rows, productionVars
      <4> QED
        BY <1>1, <2>5, <2>9, <3>2, <4>1, <4>2 DEF Checks, OtherChecks, rows
    <3> QED
      BY <2>1, <3>1, <3>2
  <2>13. ASSUME NEW r \in Sessions \ {s} PROVE AreApart(s, r)'
    <3>1. AreApart(s, r) /\ row \notin tx[r].holds /\ tx'[r] = tx[r]
      BY <1>1, <2>2 DEF SafetyPgInv, Free
    <3> QED
      BY <2>5, <3>1 DEF AreApart
  <2> QED
    BY <1>1, <2>2, <2>8, <2>9, <2>10, <2>11, <2>12, <2>13, LockingStep DEF Checks
<1> QED
  BY <1>2, <1>3

-----------------------------------------------------------------------------
\* Transactions commit an operation of the service.

\* A commit that is an operation of Production on what its session holds.
ServesProduction(s) ==
  ProductionNext /\ UNCHANGED <<incidents, listed, evidence>> /\ Ends(s) /\ WritesHeld(s)

\* Such a commit keeps the invariant.
LEMMA ProductionCommitStep ==
  ASSUME SafetyPgInv, NEW s \in Sessions, ServesProduction(s)
  PROVE  SafetyPgInv'
<1>1. ProductionInv' /\ BatchesMove
  BY ProductionStep DEF SafetyPgInv, ServesProduction
<1>2. IncidentsOK'
  BY <1>1 DEF SafetyPgInv, IncidentsOK, BatchesMove, ServesProduction
<1>3. ChainsOK'
  BY DEF SafetyPgInv, ChainsOK, ServesProduction
<1> QED
  BY <1>1, <1>2, <1>3, EndingStep DEF ServesProduction

\* A session that commits is past all its checks and locks.
LEMMA CommitFacts ==
  ASSUME SafetyPgInv, NEW s \in Sessions, NEW op, Commits(s, op), op # "none"
  PROVE  /\ tx[s].call \in Calls /\ tx[s].call.op = op /\ Ends(s) /\ Checks(s)
         /\ tx[s].call.row \in tx[s].holds
         /\ tx[s].holds = {tx[s].call.row} \cup Others(tx[s].call)
BY DEF SafetyPgInv, Commits, TxOK

\* A qualification is submitted, reviewed or inspected under its lock.
LEMMA QualificationCommits ==
  ASSUME SafetyPgInv, NEW s \in Sessions,
         CommitSubmit(s) \/ CommitReview(s) \/ CommitInspection(s)
  PROVE  ServesProduction(s)
<1> DEFINE call == tx[s].call
           q    == tx[s].call.row
<1>1. CASE CommitSubmit(s)
  <2>1. Commits(s, "SubmitQualification") /\ call.op = "SubmitQualification"
    BY <1>1 DEF CommitSubmit, Commits
  <2>2. call \in Calls /\ Checks(s) /\ Ends(s) /\ q \in tx[s].holds
    BY <2>1, CommitFacts
  <2>3. q \in QualificationIds
    BY <2>1, <2>2, CallKinds
  <2>4. PICK at \in 0 .. now : Submittable(qualifications[q], at)
    BY <2>1, <2>2 DEF Checks, QualificationChecks
  <2>5. q \in DOMAIN qualifications
    BY <2>1, <2>2 DEF Checks, QualificationChecks
  <2>6. SubmitQualification(q, at) /\ UNCHANGED <<incidents, listed, evidence>>
    BY <1>1, <2>4, <2>5 DEF CommitSubmit, SubmitQualification
  <2>7. WritesHeld(s)
    BY <1>1, <2>2, <2>5 DEF CommitSubmit, WritesHeld
  <2> QED
    BY <2>2, <2>3, <2>6, <2>7 DEF ServesProduction, ProductionNext
<1>2. CASE CommitReview(s)
  <2>1. Commits(s, "ReviewQualification") /\ call.op = "ReviewQualification"
    BY <1>2 DEF CommitReview, Commits
  <2>2. call \in Calls /\ Checks(s) /\ Ends(s) /\ q \in tx[s].holds
    BY <2>1, CommitFacts
  <2>3. q \in QualificationIds /\ call.decision \in {"APPROVED", "REJECTED"}
    BY <2>1, <2>2, CallKinds
  <2>4. /\ q \in DOMAIN qualifications /\ qualifications[q].status = "PENDING_REVIEW"
        /\ call.decision = "APPROVED" => \E at \in 0 .. now : Approvable(qualifications[q], at)
    BY <2>1, <2>2 DEF Checks, QualificationChecks
  <2>5. 0 \in 0 .. now
    BY HorizonAssumption DEF SafetyPgInv, ProductionInv, ProductionTypeOK
  <2>6. PICK at \in 0 .. now : call.decision = "APPROVED" => Approvable(qualifications[q], at)
    BY <2>4, <2>5
  <2>7. ReviewQualification(q, call.decision, at) /\ UNCHANGED <<incidents, listed, evidence>>
    BY <1>2, <2>4, <2>6 DEF CommitReview, ReviewQualification
  <2>8. WritesHeld(s)
    BY <1>2, <2>2, <2>4 DEF CommitReview, WritesHeld
  <2> QED
    BY <2>2, <2>3, <2>7, <2>8 DEF ServesProduction, ProductionNext
<1>3. CASE CommitInspection(s)
  <2>1. Commits(s, "RecordSiteInspection") /\ call.op = "RecordSiteInspection"
    BY <1>3 DEF CommitInspection, Commits
  <2>2. call \in Calls /\ Checks(s) /\ Ends(s) /\ q \in tx[s].holds
    BY <2>1, CommitFacts
  <2>3. q \in QualificationIds /\ call.result \in SiteInspectionResult
    BY <2>1, <2>2, CallKinds
  <2>4. q \in DOMAIN qualifications /\ qualifications[q].status \in {"DRAFT", "PENDING_REVIEW"}
    BY <2>1, <2>2 DEF Checks, QualificationChecks
  <2>5. PICK latest \in IF qualifications[q].inspection = "NONE" THEN {TRUE} ELSE BOOLEAN :
          qualifications' = [qualifications EXCEPT ![q].inspection =
            IF latest THEN tx[s].call.result ELSE @]
    BY <1>3 DEF CommitInspection
  <2> DEFINE result == IF latest THEN call.result ELSE qualifications[q].inspection
  <2>6. qualifications' = [qualifications EXCEPT ![q].inspection = result]
    BY <2>5
  <2>7. result \in SiteInspectionResult
    BY <2>3, <2>4, <2>5
    DEF SafetyPgInv, ProductionInv, ProductionTypeOK, MerchantQualification
  <2> HIDE DEF result
  <2>8. UNCHANGED <<now, batches, orderBatch, incidents, listed, evidence>>
    BY <1>3 DEF CommitInspection
  <2>9. RecordSiteInspection(q, result)
    BY <2>4, <2>6, <2>8 DEF RecordSiteInspection
  <2>10. WritesHeld(s)
    BY <2>2, <2>4, <2>6, <2>8 DEF WritesHeld
  <2> QED
    BY <2>2, <2>3, <2>7, <2>8, <2>9, <2>10 DEF ServesProduction, ProductionNext
<1> QED
  BY <1>1, <1>2, <1>3

\* A batch is opened under the lock of the qualification it is opened on.
LEMMA CreateBatchCommits ==
  ASSUME SafetyPgInv, NEW s \in Sessions, CommitCreateBatch(s)
  PROVE  ServesProduction(s)
<1> DEFINE call == tx[s].call
           q    == tx[s].call.row
           m    == qualifications[q].merchant
           row  == NewBatch(m, call.planned, call.at)
<1>1. Commits(s, "CreateBatch") /\ call.op = "CreateBatch"
  BY DEF CommitCreateBatch, Commits
<1>2. call \in Calls /\ Checks(s) /\ Ends(s) /\ q \in tx[s].holds
  BY <1>1, CommitFacts
<1>3. q \in QualificationIds /\ call.id \in BatchIds /\ call.planned \in Plans
  BY <1>1, <1>2, CallKinds
<1>4. /\ q \in DOMAIN qualifications /\ ApprovedAndCurrent(qualifications[q], call.at)
      /\ call.at \in 0 .. now /\ call.id \notin DOMAIN batches
  BY <1>1, <1>2 DEF Checks, QualificationChecks
<1>5. m \in Merchants
  BY <1>4 DEF SafetyPgInv, ProductionInv, ProductionTypeOK, MerchantQualification
<1>6. /\ batches' = Put(batches, call.id, row)
      /\ UNCHANGED <<now, qualifications, orderBatch, incidents, listed, evidence>>
  BY DEF CommitCreateBatch
<1>7. CreateBatch(call.id, m, call.planned, call.at)
  BY <1>4, <1>6 DEF CreateBatch, HasApprovedQualification
<1> HIDE DEF row
<1>8. /\ DOMAIN batches' = DOMAIN batches \cup {call.id}
      /\ \A b \in DOMAIN batches : batches'[b] = batches[b]
  BY <1>4, <1>6 DEF Put
<1>9. \A r \in Sessions \ {s} : tx[r].call.op = "CreateBatch" => tx[r].call.id # call.id
  BY <1>1 DEF SafetyPgInv, AreApart
<1>10. WritesHeld(s)
  BY <1>6, <1>8, <1>9 DEF WritesHeld
<1> QED
  BY <1>2, <1>3, <1>4, <1>5, <1>6, <1>7, <1>10 DEF ServesProduction, ProductionNext

\* A batch records its production or moves on under its lock.
LEMMA BatchCommits ==
  ASSUME SafetyPgInv, NEW s \in Sessions, CommitProduction(s) \/ CommitTransitionBatch(s)
  PROVE  ServesProduction(s)
<1> DEFINE call == tx[s].call
           b    == tx[s].call.row
<1>1. CASE CommitProduction(s)
  <2>1. Commits(s, "RecordBatchProduction") /\ call.op = "RecordBatchProduction"
    BY <1>1 DEF CommitProduction, Commits
  <2>2. call \in Calls /\ Checks(s) /\ Ends(s) /\ b \in tx[s].holds
    BY <2>1, CommitFacts
  <2>3. b \in BatchIds /\ call.quantity \in 1 .. Max(Plans)
    BY <2>1, <2>2, CallKinds, SafetyPgAssumption
  <2>4. b \in DOMAIN batches /\ batches[b].status = "PRODUCING" /\ call.quantity <= batches[b].planned
    BY <2>1, <2>2 DEF Checks, BatchChecks
  <2>5. call.quantity > 0
    BY <2>3
  <2>6. RecordBatchProduction(b, call.quantity) /\ UNCHANGED <<incidents, listed, evidence>>
    BY <1>1, <2>4, <2>5 DEF CommitProduction, RecordBatchProduction
  <2>7. WritesHeld(s)
    BY <1>1, <2>2, <2>4 DEF CommitProduction, WritesHeld
  <2> QED
    BY <2>2, <2>3, <2>6, <2>7 DEF ServesProduction, ProductionNext
<1>2. CASE CommitTransitionBatch(s)
  <2>1. Commits(s, "TransitionBatch") /\ call.op = "TransitionBatch"
    BY <1>2 DEF CommitTransitionBatch, Commits
  <2>2. call \in Calls /\ Checks(s) /\ Ends(s) /\ b \in tx[s].holds
    BY <2>1, CommitFacts
  <2>3. b \in BatchIds /\ call.target \in FoodBatchStatus
    BY <2>1, <2>2, CallKinds, SafetyPgAssumption
  <2>4. /\ b \in DOMAIN batches /\ CanTransitionBatch(batches[b].status, call.target)
        /\ MayBecome(batches[b], call.target)
    BY <2>1, <2>2 DEF Checks, BatchChecks
  <2>5. TransitionBatch(b, call.target) /\ UNCHANGED <<incidents, listed, evidence>>
    BY <1>2, <2>4 DEF CommitTransitionBatch, TransitionBatch
  <2>6. WritesHeld(s)
    BY <1>2, <2>2, <2>4 DEF CommitTransitionBatch, WritesHeld
  <2> QED
    BY <2>2, <2>3, <2>5, <2>6 DEF ServesProduction, ProductionNext
<1> QED
  BY <1>1, <1>2

\* Orders are put into a batch when they are all locked: each was in no batch and
\* together they fitted, and it is still so.
LEMMA AssociateCommits ==
  ASSUME SafetyPgInv, NEW s \in Sessions, CommitAssociate(s)
  PROVE  ServesProduction(s)
<1> DEFINE call == tx[s].call
           b    == tx[s].call.row
           held == tx[s].holds \cap Orders
<1>1. Commits(s, "AssociateOrders") /\ call.op = "AssociateOrders"
  BY DEF CommitAssociate, Commits
<1>2. /\ call \in Calls /\ Checks(s) /\ Ends(s) /\ b \in tx[s].holds
      /\ tx[s].holds = {b} \cup Others(call)
  BY <1>1, CommitFacts
<1>3. b \in BatchIds /\ call.added \in OrderMaps
  BY <1>1, <1>2, CallKinds
<1>4. held = DOMAIN call.added /\ DOMAIN call.added \subseteq Orders
  BY <1>1, <1>2, <1>3, RowsAssumption DEF Others, OrderMaps
<1>5. [o \in DOMAIN call.added |-> call.added[o]] = call.added
  BY <1>3 DEF OrderMaps
<1>6. /\ b \in DOMAIN batches /\ batches[b].status \in TakesOrders
      /\ held \cap DOMAIN orderBatch = {} /\ DOMAIN call.added # {}
      /\ held # {} =>
           Ordered(batches[b].orders) + Ordered([o \in held |-> call.added[o]])
             <= batches[b].planned
  BY <1>1, <1>2 DEF Checks, BatchChecks
<1>7. Ordered(batches[b].orders) + Ordered(call.added) <= batches[b].planned
  <2> HIDE DEF call, b, held
  <2> QED
    BY <1>4, <1>5, <1>6
<1>8. Unassigned(b, DOMAIN call.added)
  BY <1>3, <1>4, <1>6 DEF Unassigned, SafetyPgInv, ProductionInv, OrderIndexAgrees
<1>9. /\ batches' = [batches EXCEPT ![b].orders = With(@, call.added)]
      /\ orderBatch' = With(orderBatch, [o \in DOMAIN call.added |-> b])
      /\ UNCHANGED <<now, qualifications, incidents, listed, evidence>>
  BY DEF CommitAssociate
<1>10. AssociateOrders(b, call.added)
  BY <1>6, <1>7, <1>8, <1>9 DEF AssociateOrders
<1>11. DOMAIN orderBatch' \ DOMAIN orderBatch \subseteq tx[s].holds
  BY <1>4, <1>9 DEF With
<1>12. WritesHeld(s)
  BY <1>2, <1>6, <1>9, <1>11 DEF WritesHeld
<1> QED
  BY <1>2, <1>3, <1>9, <1>10, <1>12 DEF ServesProduction, ProductionNext

\* A batch may be quarantined when it is out of trade or its lifecycle allows it.
LEMMA QuarantineMeaning ==
  \A b : Service!CanQuarantine(b) <=>
    batches[b].status \in Service!OutOfTrade \/ CanTransitionBatch(batches[b].status, "QUARANTINED")
BY DEF Service!CanQuarantine, Service!CanTransitionBatch, CanTransitionBatch

\* An incident moves on, and containing it quarantines batches that are all locked.
LEMMA TransitionIncidentCommits ==
  ASSUME SafetyPgInv, NEW s \in Sessions, CommitTransitionIncident(s)
  PROVE  LET i == tx[s].call.row
             target == tx[s].call.target
         IN
         /\ SafetyPgInv'
         /\ i \in IncidentIds \cap DOMAIN incidents /\ target \in Service!IncidentStatus
         /\ Service!CanTransitionIncident(incidents[i].status, target)
         /\ target = "CONTAINED" => \A b \in incidents[i].batches : Service!CanQuarantine(b)
         /\ BatchesMove
         /\ target = "CONTAINED" =>
              \A b \in incidents[i].batches : batches'[b].status \in Service!OutOfTrade
<1> DEFINE call == tx[s].call
           i      == tx[s].call.row
           target == tx[s].call.target
           bs     == incidents[i].batches
<1>1. Commits(s, "TransitionIncident") /\ call.op = "TransitionIncident"
  BY DEF CommitTransitionIncident, Commits
<1>2. /\ call \in Calls /\ Checks(s) /\ Ends(s) /\ i \in tx[s].holds
      /\ tx[s].holds = {i} \cup Others(call)
  BY <1>1, CommitFacts
<1>3. i \in IncidentIds
  BY <1>1, <1>2, CallKinds
<1>4. /\ i \in DOMAIN incidents /\ Service!CanTransitionIncident(incidents[i].status, target)
      /\ \A b \in tx[s].holds \cap BatchIds : Service!CanQuarantine(b)
  BY <1>1, <1>2 DEF Checks, OtherChecks
<1>5. target \in Service!IncidentStatus
  BY <1>4 DEF Service!CanTransitionIncident, Service!IncidentStatus
<1>6. incidents[i] \in Service!Incident /\ bs \subseteq DOMAIN batches /\ bs \subseteq BatchIds
  BY <1>4 DEF SafetyPgInv, IncidentsOK, ProductionInv, ProductionTypeOK
<1>7. target = "CONTAINED" => bs \subseteq tx[s].holds
  BY <1>1, <1>2 DEF Others
<1>8. target = "CONTAINED" => \A b \in bs : Service!CanQuarantine(b)
  BY <1>4, <1>6, <1>7
<1> DEFINE row == [incidents[i] EXCEPT !.status = target,
                                       !.contained = @ \/ target = "CONTAINED"]
<1>9. /\ incidents' = [incidents EXCEPT ![i] = row]
      /\ batches' = IF target = "CONTAINED" THEN Service!Quarantined(bs) ELSE batches
      /\ UNCHANGED <<now, qualifications, orderBatch, listed, evidence>>
  BY DEF CommitTransitionIncident
<1>10. row \in Service!Incident /\ row.batches = bs
  <2> DEFINE contained == incidents[i].contained \/ target = "CONTAINED"
  <2>1. row = [incidents[i] EXCEPT !.status = target, !.contained = contained]
    OBVIOUS
  <2>2. contained \in BOOLEAN
    OBVIOUS
  <2> HIDE DEF contained, target
  <2> QED
    BY <1>5, <1>6, <2>1, <2>2 DEF Service!Incident
<1> HIDE DEF row
<1>11. /\ DOMAIN batches' = DOMAIN batches
       /\ \A b \in DOMAIN batches :
            \/ batches'[b] = batches[b]
            \/ /\ target = "CONTAINED" /\ b \in bs
               /\ CanTransitionBatch(batches[b].status, "QUARANTINED")
               /\ batches'[b] = [batches[b] EXCEPT !.status = "QUARANTINED"]
  <2>1. CASE target # "CONTAINED"
    BY <1>9, <2>1
  <2>2. CASE target = "CONTAINED"
    <3>1. batches' = [b \in DOMAIN batches |->
            IF b \in bs /\ batches[b].status \notin Service!OutOfTrade
            THEN [batches[b] EXCEPT !.status = "QUARANTINED"] ELSE batches[b]]
      BY <1>9, <2>2 DEF Service!Quarantined
    <3>2. \A b \in bs : batches[b].status \in Service!OutOfTrade
                          \/ CanTransitionBatch(batches[b].status, "QUARANTINED")
      BY <1>8, <2>2, QuarantineMeaning
    <3> HIDE DEF bs, target
    <3> QED
      BY <2>2, <3>1, <3>2
  <2> QED
    BY <2>1, <2>2
<1>12. ProductionInv' /\ BatchesMove
  <2>1. \A b \in DOMAIN batches : MayBecome(batches[b], "QUARANTINED")
    BY DEF MayBecome
  <2>2. "QUARANTINED" \in FoodBatchStatus
    BY DEF FoodBatchStatus
  <2>3. \A b \in DOMAIN batches :
          \/ batches'[b] = batches[b]
          \/ \E status \in FoodBatchStatus :
               /\ CanTransitionBatch(batches[b].status, status)
               /\ MayBecome(batches[b], status)
               /\ batches'[b] = [batches[b] EXCEPT !.status = status]
    BY <1>11, <2>1, <2>2
  <2> QED
    BY <1>9, <1>11, <2>3, StatusStep DEF SafetyPgInv
<1>13. IncidentsOK'
  BY <1>4, <1>9, <1>10, <1>11 DEF SafetyPgInv, IncidentsOK
<1>14. target = "CONTAINED" => \A b \in bs : batches'[b].status \in Service!OutOfTrade
  <2>1. ASSUME NEW b \in DOMAIN batches PROVE batches[b] \in FoodBatch
    BY DEF SafetyPgInv, ProductionInv, ProductionTypeOK
  <2>2. ASSUME target = "CONTAINED", NEW b \in bs
        PROVE  batches'[b] = IF batches[b].status \notin Service!OutOfTrade
                             THEN [batches[b] EXCEPT !.status = "QUARANTINED"] ELSE batches[b]
    BY <1>6, <1>9, <2>2 DEF Service!Quarantined
  <2>3. \A b \in bs : [batches[b] EXCEPT !.status = "QUARANTINED"].status = "QUARANTINED"
    BY <1>6, <2>1 DEF FoodBatch
  <2>4. "QUARANTINED" \in Service!OutOfTrade
    BY DEF Service!OutOfTrade
  <2> HIDE DEF bs, target
  <2> QED
    BY <2>2, <2>3, <2>4
<1>15. ChainsOK'
  BY <1>9 DEF SafetyPgInv, ChainsOK
<1>16. WritesHeld(s)
  BY <1>2, <1>4, <1>7, <1>9, <1>11 DEF WritesHeld
<1> QED
  BY <1>2, <1>3, <1>4, <1>5, <1>8, <1>12, <1>13, <1>15, <1>16, <1>14, EndingStep

\* A record that follows the newest one of a chain keeps it linked, and its number
\* is new.
LEMMA FollowingIsLinked ==
  ASSUME NEW S, NEW chain \in Seq(S), Linked(chain), NEW at
  PROVE  LET record == Following(NewestOf(chain), at) IN
         /\ Linked(Append(chain, record)) /\ Append(chain, record) \in Seq(S \cup {record})
         /\ \A k \in DOMAIN chain : chain[k].sequence # record.sequence
<1> DEFINE record == Following(NewestOf(chain), at)
           longer == Append(chain, record)
           n      == Len(chain)
<1>1. n \in Nat /\ DOMAIN chain = 1 .. n
  OBVIOUS
<1>2. \A k \in 1 .. n : chain[k].sequence = k
  BY <1>1 DEF Linked
<1>3. chain = <<>> <=> n = 0
  OBVIOUS
<1>4. /\ record.sequence = NewestOf(chain).sequence + 1
      /\ record.previous = NewestOf(chain).hash
  BY DEF Following
<1>5. /\ NewestOf(chain).sequence = n
      /\ NewestOf(chain).hash = IF n = 0 THEN NoHash ELSE chain[n].hash
  BY <1>1, <1>2, <1>3 DEF NewestOf, Last
<1> HIDE DEF record
<1>6. longer \in Seq(S \cup {record})
  OBVIOUS
<1>7. /\ DOMAIN longer = 1 .. (n + 1) /\ longer[n + 1] = record
      /\ \A k \in 1 .. n : longer[k] = chain[k]
  BY <1>1
<1> HIDE DEF longer
<1>8. \A k \in 1 .. n : chain[k].previous = IF k = 1 THEN NoHash ELSE chain[k - 1].hash
  BY <1>1 DEF Linked
<1>9. Linked(longer)
  <2> HIDE DEF n
  <2>1. ASSUME NEW k \in 1 .. (n + 1)
        PROVE  /\ longer[k].sequence = k
               /\ longer[k].previous = IF k = 1 THEN NoHash ELSE longer[k - 1].hash
    <3>1. CASE k = n + 1
      BY <1>1, <1>4, <1>5, <1>7, <3>1
    <3>2. CASE k # n + 1
      <4>1. k \in 1 .. n /\ (k = 1 \/ k - 1 \in 1 .. n)
        BY <1>1, <3>2
      <4> QED
        BY <1>2, <1>7, <1>8, <4>1
    <3> QED
      BY <3>1, <3>2
  <2> QED
    BY <1>7, <2>1 DEF Linked
<1>10. \A k \in DOMAIN chain : chain[k].sequence # record.sequence
  BY <1>1, <1>2, <1>4, <1>5
<1> QED
  BY <1>6, <1>9, <1>10 DEF record, longer

\* AddEvidence appends what follows the newest record it read.
LEMMA EvidenceCommits ==
  ASSUME SafetyPgInv, NEW s \in Sessions, CommitEvidence(s)
  PROVE  SafetyPgInv'
<1> DEFINE call == tx[s].call
           x      == tx[s].call.row
           record == Following(tx[s].newest, tx[s].call.at)
<1>1. Commits(s, "AddEvidence") /\ call.op = "AddEvidence"
  BY DEF CommitEvidence, Commits
<1>2. call \in Calls /\ Checks(s) /\ Ends(s) /\ x \in tx[s].holds
  BY <1>1, CommitFacts
<1>3. x \in EvidenceSubjects
  BY <1>1, <1>2, CallKinds
<1>4. tx[s].newest = NewestOf(evidence[x])
  BY <1>1, <1>2 DEF Checks, OtherChecks
<1>5. PICK S : evidence[x] \in Seq(S) /\ Linked(evidence[x]) /\ DOMAIN evidence = EvidenceSubjects
  BY <1>3 DEF SafetyPgInv, ChainsOK
<1>6. /\ Linked(Append(evidence[x], record))
      /\ Append(evidence[x], record) \in Seq(S \cup {record})
  BY <1>4, <1>5, FollowingIsLinked
<1>7. /\ UNCHANGED <<productionVars, incidents, listed>>
      /\ \/ evidence' = evidence
         \/ evidence' = [evidence EXCEPT ![x] = Append(evidence[x], record)]
  BY DEF CommitEvidence
<1>8. ChainsOK'
  BY <1>5, <1>6, <1>7 DEF SafetyPgInv, ChainsOK
<1>9. ProductionInv' /\ IncidentsOK'
  BY <1>7, ProductionStep DEF SafetyPgInv, IncidentsOK, productionVars
<1>10. WritesHeld(s)
  BY <1>2, <1>5, <1>7 DEF WritesHeld, productionVars
<1> QED
  BY <1>2, <1>8, <1>9, <1>10, EndingStep

-----------------------------------------------------------------------------
\* Steps without a transaction.

\* Rows that are inserted are in no session's hands.
LEMMA InsertStep ==
  ASSUME SafetyPgInv, UNCHANGED tx, ProductionInv', IncidentsOK', ChainsOK',
         \A s \in Sessions : RowsKept(s)
  PROVE  SafetyPgInv'
BY KeptIsFine DEF SafetyPgInv, AreApart

\* A qualification is created.
LEMMA CreateQualificationStep ==
  ASSUME SafetyPgInv, NEW q \in QualificationIds, NEW m \in Merchants, NEW complete \in BOOLEAN,
         NEW until \in ExpiryDates, PgCreateQualification(q, m, complete, until)
  PROVE  SafetyPgInv'
<1>1. CreateQualification(q, m, complete, until) /\ UNCHANGED <<incidents, listed, evidence, tx>>
  BY DEF PgCreateQualification
<1>2. ProductionInv' /\ BatchesMove
  BY <1>1, ProductionStep DEF SafetyPgInv, ProductionNext
<1>3. IncidentsOK' /\ ChainsOK'
  BY <1>1, <1>2 DEF SafetyPgInv, IncidentsOK, ChainsOK, BatchesMove
<1>4. /\ DOMAIN qualifications' = DOMAIN qualifications \cup {q} /\ q \notin DOMAIN qualifications
      /\ \A p \in DOMAIN qualifications : p # q => qualifications'[p] = qualifications[p]
  BY <1>1 DEF CreateQualification, Put
<1>5. UNCHANGED <<now, batches, orderBatch>>
  BY <1>1 DEF CreateQualification
<1>6. ASSUME NEW s \in Sessions PROVE RowsKept(s)
  BY <1>1, <1>4, <1>5 DEF RowsKept
<1> QED
  BY <1>1, <1>2, <1>3, <1>6, InsertStep

\* An incident is created, of batches of its merchant.
LEMMA CreateIncidentStep ==
  ASSUME SafetyPgInv, NEW report \in Reports, NEW m \in Merchants,
         PgCreateIncident(report.id, m, report.batches, report.orders)
  PROVE  SafetyPgInv'
<1> DEFINE i   == report.id
           bs  == report.batches
           os  == report.orders
           row == [merchant |-> m, status |-> "REPORTED", batches |-> ToSet(bs), orders |-> os,
                   contained |-> FALSE]
<1>0. i \in IncidentIds /\ os \subseteq Orders
  BY ReportsAssumption
<1>1. /\ i \notin DOMAIN incidents /\ incidents' = Put(incidents, i, row)
      /\ listed' = Put(listed, i, bs)
      /\ \A b \in ToSet(bs) : b \in DOMAIN batches
      /\ UNCHANGED <<productionVars, evidence, tx>>
  BY DEF PgCreateIncident
<1>2. ToSet(bs) \subseteq BatchIds
  BY <1>1 DEF SafetyPgInv, ProductionInv, ProductionTypeOK
<1>3. row \in Service!Incident /\ row.batches = ToSet(bs)
  BY <1>0, <1>2 DEF Service!Incident, Service!IncidentStatus
<1> HIDE DEF row, i, bs, os
<1>4. /\ DOMAIN incidents' = DOMAIN incidents \cup {i} /\ incidents'[i] = row
      /\ \A j \in DOMAIN incidents : incidents'[j] = incidents[j]
  BY <1>1 DEF Put
<1>5. /\ DOMAIN listed' = DOMAIN listed \cup {i} /\ listed'[i] = bs
      /\ \A j \in DOMAIN listed : j # i => listed'[j] = listed[j]
  BY <1>1 DEF Put
<1>6. ProductionInv' /\ ChainsOK'
  BY <1>1, ProductionStep DEF SafetyPgInv, ChainsOK
<1>7. IncidentsOK'
  BY <1>0, <1>1, <1>3, <1>4, <1>5 DEF SafetyPgInv, IncidentsOK, productionVars
<1>8. ASSUME NEW s \in Sessions PROVE RowsKept(s)
  BY <1>1, <1>4 DEF RowsKept, productionVars
<1> QED
  BY <1>1, <1>6, <1>7, <1>8, InsertStep

\* Time passes.
LEMMA TickStep ==
  ASSUME SafetyPgInv, Tick, UNCHANGED <<incidents, listed, evidence, tx>>
  PROVE  SafetyPgInv'
<1>1. ProductionInv' /\ BatchesMove
  BY ProductionStep DEF SafetyPgInv, ProductionNext
<1>2. IncidentsOK' /\ ChainsOK'
  BY <1>1 DEF SafetyPgInv, IncidentsOK, ChainsOK, BatchesMove
<1>3. \A at \in 0 .. now : at \in 0 .. now'
  BY HorizonAssumption DEF Tick, SafetyPgInv, ProductionInv, ProductionTypeOK
<1>4. ASSUME NEW s \in Sessions PROVE RowsKept(s)
  BY <1>3 DEF RowsKept, Tick
<1> QED
  BY <1>1, <1>2, <1>4, InsertStep

-----------------------------------------------------------------------------
\* The empty database satisfies the invariant.
LEMMA InitSafetyPgInv == SafetyPgInit => SafetyPgInv
<1> SUFFICES ASSUME SafetyPgInit PROVE SafetyPgInv
  OBVIOUS
<1>1. ProductionInv
  BY InitProductionInv DEF SafetyPgInit
<1>2. IncidentsOK
  BY DEF SafetyPgInit, IncidentsOK, EmptyMap
<1>3. ChainsOK
  <2>1. <<>> \in Seq({}) /\ Linked(<<>>)
    BY DEF Linked
  <2> QED
    BY <2>1 DEF SafetyPgInit, ChainsOK
<1>4. DOMAIN tx = Sessions /\ \A s \in Sessions : tx[s] = NoTx
  BY DEF SafetyPgInit
<1>5. \A s \in Sessions : TxOK(s) /\ Checks(s)
  BY <1>4 DEF NoTx, TxOK, Checks, QualificationChecks, BatchChecks, OtherChecks
<1>6. \A s, r \in Sessions : s # r => AreApart(s, r)
  BY <1>4 DEF NoTx, AreApart
<1> QED
  BY <1>1, <1>2, <1>3, <1>4, <1>5, <1>6 DEF SafetyPgInv

\* Every step keeps the invariant.
LEMMA NextSafetyPgInv == SafetyPgInv /\ [SafetyPgNext]_pgVars => SafetyPgInv'
<1> SUFFICES ASSUME SafetyPgInv, [SafetyPgNext]_pgVars PROVE SafetyPgInv'
  OBVIOUS
<1>1. CASE UNCHANGED pgVars
  <2>1. UNCHANGED tx /\ UNCHANGED rows
    BY <1>1 DEF pgVars
  <2>2. ProductionInv'
    BY <2>1, ProductionStep DEF SafetyPgInv, rows
  <2>3. IncidentsOK' /\ ChainsOK'
    BY <2>1 DEF SafetyPgInv, rows, productionVars, IncidentsOK, ChainsOK
  <2>4. \A s \in Sessions : RowsKept(s)
    BY <2>1 DEF RowsKept, rows, productionVars
  <2> QED
    BY <2>1, <2>2, <2>3, <2>4, InsertStep
<1>2. CASE Tick /\ UNCHANGED <<incidents, listed, evidence, tx>>
  BY <1>2, TickStep
<1>3. ASSUME NEW q \in QualificationIds, NEW m \in Merchants, NEW complete \in BOOLEAN,
             NEW until \in ExpiryDates, PgCreateQualification(q, m, complete, until)
      PROVE  SafetyPgInv'
  BY <1>3, CreateQualificationStep
<1>4. ASSUME NEW report \in Reports, NEW m \in Merchants,
             PgCreateIncident(report.id, m, report.batches, report.orders)
      PROVE  SafetyPgInv'
  BY <1>4, CreateIncidentStep
<1>5. ASSUME NEW s \in Sessions,
             Start(s) \/ LockNext(s) \/ Commit(s) \/ DetectDeadlock(s) \/ Abort(s)
      PROVE  SafetyPgInv'
  <2>1. CASE Start(s)
    BY <2>1, StartStep
  <2>2. CASE LockNext(s)
    BY <2>2, LockNextStep
  <2>3. CASE DetectDeadlock(s) \/ Abort(s)
    BY <2>3, RollbackStep DEF DetectDeadlock, Abort
  <2>4. CASE Commit(s)
    BY <2>4, QualificationCommits, CreateBatchCommits, BatchCommits, AssociateCommits,
       ProductionCommitStep, TransitionIncidentCommits, EvidenceCommits DEF Commit
  <2> QED
    BY <1>5, <2>1, <2>2, <2>3, <2>4
<1> QED
  BY <1>1, <1>2, <1>3, <1>4, <1>5 DEF SafetyPgNext

\* The inductive invariant holds in every reachable state.
THEOREM SafetyPgInvariance == SafetyPgSpec => []SafetyPgInv
BY InitSafetyPgInv, NextSafetyPgInv, PTL DEF SafetyPgSpec

\* The rows are well formed and an open transaction holds the row it began with.
THEOREM SafetyPgTypeCorrect == SafetyPgSpec => []SafetyPgTypeOK
<1>1. SafetyPgInv => SafetyPgTypeOK
  <2> SUFFICES ASSUME SafetyPgInv PROVE SafetyPgTypeOK
    OBVIOUS
  <2>1. \A s \in Sessions : tx[s] # NoTx => tx[s].call \in Calls /\ tx[s].call.row \in tx[s].holds
    BY DEF SafetyPgInv, TxOK
  <2> QED
    BY <2>1 DEF SafetyPgInv, SafetyPgTypeOK, ProductionInv, IncidentsOK, ChainsOK
<1> QED
  BY <1>1, SafetyPgInvariance, PTL

\* What Production promises of single batches, concurrent transactions keep: a batch
\* has an examined merchant, is never promised beyond its plan, and never leaves
\* unproduced (CreateBatch, AssociateOrders, TransitionBatch).
THEOREM TransactionsKeepProduction ==
  SafetyPgSpec => [](BatchesOfExaminedMerchants /\ PlansAreKept /\ HandedOverWasProduced)
<1>1. SafetyPgInv => BatchesOfExaminedMerchants /\ PlansAreKept /\ HandedOverWasProduced
  BY DEF SafetyPgInv, ProductionInv
<1> QED
  BY <1>1, SafetyPgInvariance, PTL

\* The orders that are put into a batch were not in it, however they are written.
LEMMA AssociatedOrdersAreNew ==
  ASSUME SafetyPgInv, NEW s \in Sessions, CommitAssociate(s), NoOrderTwiceInABatch
  PROVE  NoOrderTwiceInABatch'
<1> DEFINE call == tx[s].call
           b    == tx[s].call.row
           held == tx[s].holds \cap Orders
<1>1. Commits(s, "AssociateOrders") /\ call.op = "AssociateOrders"
  BY DEF CommitAssociate, Commits
<1>2. call \in Calls /\ Checks(s) /\ tx[s].holds = {b} \cup Others(call)
  BY <1>1, CommitFacts
<1>3. b \in BatchIds /\ call.added \in OrderMaps
  BY <1>1, <1>2, CallKinds
<1>4. held = DOMAIN call.added
  BY <1>1, <1>2, <1>3, RowsAssumption DEF Others, OrderMaps
<1>5. /\ b \in DOMAIN batches /\ held \cap DOMAIN orderBatch = {}
      /\ \A x \in held, y \in held \cup DOMAIN batches[b].orders : SameOrder(y, x) => y = x
  BY <1>1, <1>2 DEF Checks, BatchChecks
<1>6. orderBatch' = With(orderBatch, [o \in held |-> b])
  BY <1>4 DEF CommitAssociate
<1> HIDE DEF call, b, held
<1>7. /\ DOMAIN orderBatch' = DOMAIN orderBatch \cup held
      /\ \A x \in held : orderBatch'[x] = b
      /\ \A x \in DOMAIN orderBatch : orderBatch'[x] = orderBatch[x]
  BY <1>5, <1>6 DEF With
<1>8. \A y \in DOMAIN orderBatch : orderBatch[y] = b => y \in DOMAIN batches[b].orders
  BY <1>3, <1>5 DEF SafetyPgInv, ProductionInv, ProductionTypeOK, OrderIndexAgrees
<1>9. \A x \in held, y \in DOMAIN orderBatch' :
        SameOrder(y, x) /\ orderBatch'[y] = b => y = x
  BY <1>5, <1>7, <1>8
<1>10. \A x, y : SameOrder(x, y) <=> SameOrder(y, x)
  BY DEF SameOrder
<1>11. \A x, y : SameOrder(x, y)' <=> SameOrder(x, y)
  BY DEF SameOrder
<1> QED
  BY <1>7, <1>9, <1>10, <1>11 DEF NoOrderTwiceInABatch

\* No batch ever holds an order twice, in whatever spellings and by whichever calls
\* it was put there (AssociateOrders looks the UUID up under the batch's lock).
THEOREM OrdersOncePerBatch == SafetyPgSpec => []NoOrderTwiceInABatch
<1>1. SafetyPgInit => NoOrderTwiceInABatch
  BY DEF SafetyPgInit, ProductionInit, EmptyMap, NoOrderTwiceInABatch
<1>2. SafetyPgInv /\ NoOrderTwiceInABatch /\ [SafetyPgNext]_pgVars => NoOrderTwiceInABatch'
  <2> SUFFICES ASSUME SafetyPgInv, NoOrderTwiceInABatch, [SafetyPgNext]_pgVars
               PROVE  NoOrderTwiceInABatch'
    OBVIOUS
  <2>1. UNCHANGED orderBatch => NoOrderTwiceInABatch'
    BY DEF NoOrderTwiceInABatch, SameOrder
  <2>2. CASE \E s \in Sessions : CommitAssociate(s)
    BY <2>2, AssociatedOrdersAreNew
  <2>3. CASE UNCHANGED pgVars
    BY <2>1, <2>3 DEF pgVars, rows, productionVars
  <2>4. CASE Tick
    BY <2>1, <2>4 DEF Tick
  <2>5. ASSUME NEW q, NEW m, NEW complete, NEW until, PgCreateQualification(q, m, complete, until)
        PROVE  NoOrderTwiceInABatch'
    BY <2>1, <2>5 DEF PgCreateQualification, CreateQualification
  <2>6. ASSUME NEW i, NEW m, NEW bs, NEW os, PgCreateIncident(i, m, bs, os)
        PROVE  NoOrderTwiceInABatch'
    BY <2>1, <2>6 DEF PgCreateIncident, productionVars
  <2>7. ASSUME NEW s \in Sessions,
               Start(s) \/ LockNext(s) \/ DetectDeadlock(s) \/ Abort(s)
        PROVE  NoOrderTwiceInABatch'
    <3>1. UNCHANGED rows
      BY <2>7 DEF Start, BeginSubmit, BeginReview, BeginInspection, BeginCreateBatch,
         BeginProduction, BeginTransitionBatch, BeginAssociate, BeginTransitionIncident,
         BeginEvidence, Begin, Begins, LockNext, DetectDeadlock, Abort
    <3> QED
      BY <2>1, <3>1 DEF rows, productionVars
  <2>8. ASSUME NEW s \in Sessions, Commit(s), ~CommitAssociate(s)
        PROVE  NoOrderTwiceInABatch'
    BY <2>1, <2>8 DEF Commit, CommitSubmit, CommitReview, CommitInspection, CommitCreateBatch,
       CommitProduction, CommitTransitionBatch, CommitTransitionIncident, CommitEvidence,
       productionVars
  <2> QED
    BY <2>2, <2>3, <2>4, <2>5, <2>6, <2>7, <2>8 DEF SafetyPgNext
<1> QED
  BY <1>1, <1>2, SafetyPgInvariance, PTL DEF SafetyPgSpec

\* Clients write the id of an order in one way.  Nothing in the service makes them.
OneSpelling == \A x, y \in Orders : SameOrder(x, y) => x = y

\* No two batches hold the same order.
OrdersNeverShared ==
  \A b, c \in DOMAIN batches :
    \A x \in DOMAIN batches[b].orders, y \in DOMAIN batches[c].orders : SameOrder(x, y) => b = c

\* Two batches never hold the same order as long as clients write each order's id in
\* one way: the advisory lock on the text then is a lock on the order
\* (AssociateOrders).
THEOREM OrdersInOneBatchIfSpelledOneWay ==
  ASSUME OneSpelling PROVE SafetyPgSpec => []OrdersNeverShared
<1>1. SafetyPgInv => OrdersNeverShared
  <2> SUFFICES ASSUME SafetyPgInv,
                      NEW b \in DOMAIN batches, NEW c \in DOMAIN batches,
                      NEW x \in DOMAIN batches[b].orders, NEW y \in DOMAIN batches[c].orders,
                      SameOrder(x, y)
               PROVE  b = c
    BY DEF OrdersNeverShared
  <2>1. b \in BatchIds /\ c \in BatchIds /\ batches[b] \in FoodBatch /\ batches[c] \in FoodBatch
    BY DEF SafetyPgInv, ProductionInv, ProductionTypeOK
  <2>2. x \in Orders /\ y \in Orders
    BY <2>1 DEF FoodBatch, OrderMaps
  <2>3. /\ x \in DOMAIN orderBatch /\ orderBatch[x] = b
        /\ y \in DOMAIN orderBatch /\ orderBatch[y] = c
    BY <2>1, <2>2 DEF SafetyPgInv, ProductionInv, OrderIndexAgrees
  <2> QED
    BY <2>2, <2>3, OneSpelling DEF OneSpelling
<1> QED
  BY <1>1, SafetyPgInvariance, PTL

\* Concurrent appends leave every chain of evidence linked, and the unique index
\* never refuses one (AddEvidence, lockEvidenceSubjectTx).
THEOREM ChainsStayUnbroken == SafetyPgSpec => []EvidenceChainsUnbroken
<1>1. SafetyPgInv => EvidenceChainsUnbroken
  BY DEF SafetyPgInv, ChainsOK, Checks, OtherChecks, EvidenceChainsUnbroken
<1> QED
  BY <1>1, SafetyPgInvariance, PTL

-----------------------------------------------------------------------------
\* Deadlocks.

\* The natural numbers are well founded.
LEMMA NaturalsWellFounded == IsWellFoundedOn({mn \in Nat \X Nat : mn[1] < mn[2]}, Nat)
BY NatLessThanWellFounded DEF OpToRel

\* A set of positions in a list that is not empty has a last one.
LEMMA LastPosition ==
  ASSUME NEW n \in Nat, NEW K \in SUBSET (1 .. n), K # {}
  PROVE  \E k \in K : \A l \in K : l <= k
<1> DEFINE fromEnd == {m \in Nat : \E k \in K : m = n - k}
<1>1. fromEnd \subseteq Nat /\ \A k \in K : n - k \in fromEnd
  OBVIOUS
<1>2. fromEnd # {}
  BY <1>1
<1>3. PICK m \in fromEnd : \A l \in fromEnd : ~(<<l, m>> \in {mn \in Nat \X Nat : mn[1] < mn[2]})
  BY <1>1, <1>2, NaturalsWellFounded, WFMin
<1>4. PICK k \in K : m = n - k
  OBVIOUS
<1>5. \A x \in fromEnd : ~(x < m)
  BY <1>1, <1>3
<1> HIDE DEF fromEnd
<1>6. ASSUME NEW l \in K PROVE l <= k
  <2>1. ~(n - l < m)
    BY <1>1, <1>5
  <2> QED
    BY <1>4, <2>1
<1> QED
  BY <1>6

\* A session that puts orders into a batch waits for an order, and has locked only
\* orders that come before it.
LEMMA OrdersWaitInOrder ==
  ASSUME SafetyPgInv, NEW s \in Sessions, tx[s].call.op = "AssociateOrders", NEW row \in tx[s].wants
  PROVE  /\ row \in Orders
         /\ \A x \in tx[s].holds \cap Orders : Precedes(TextOrder, x, row)
<1>1. row \in Orders
  BY WhoWants
<1>2. BatchChecks(s)
  BY DEF SafetyPgInv, Checks
<1> QED
  BY <1>1, <1>2 DEF BatchChecks

\* Whoever holds an order puts orders into a batch.
LEMMA WhoHoldsOrders ==
  ASSUME SafetyPgInv, NEW s \in Sessions, NEW row \in tx[s].holds \cap Orders
  PROVE  tx[s].call.op = "AssociateOrders"
<1>1. tx[s].call.op # "none"
  BY DEF SafetyPgInv, TxOK, NoTx
<1>2. tx[s].call \in Calls /\ row \in {tx[s].call.row} \cup Others(tx[s].call)
  BY <1>1 DEF SafetyPgInv, TxOK
<1>3. tx[s].call.row \in QualificationIds \cup BatchIds \cup IncidentIds
  BY <1>2, SafetyPgAssumption DEF Calls
<1>4. tx[s].call.op = "TransitionIncident" => incidents[tx[s].call.row].batches \subseteq BatchIds
  BY DEF SafetyPgInv, Checks, OtherChecks, IncidentsOK, ProductionInv, ProductionTypeOK
<1> QED
  BY <1>2, <1>3, <1>4, RowsAssumption DEF Others

\* No circle of waiting sessions has one that puts orders into a batch: the one
\* that waits for the last order of all has nobody to wait for.
LEMMA NoOrdersInCircles ==
  ASSUME SafetyPgInv, NEW C \in SUBSET Sessions, Deadlocked(C), NEW s \in C
  PROVE  tx[s].call.op # "AssociateOrders"
<1> SUFFICES ASSUME tx[s].call.op = "AssociateOrders" PROVE FALSE
  OBVIOUS
<1> DEFINE n == Len(TextOrder)
           Waited(r, k) == TextOrder[k] \in tx[r].wants /\ \E q \in C : TextOrder[k] \in tx[q].holds
           K == {k \in 1 .. n : \E r \in C : tx[r].call.op = "AssociateOrders" /\ Waited(r, k)}
<1>1. /\ n \in Nat /\ DOMAIN TextOrder = 1 .. n
      /\ \A o \in Orders : \E k \in 1 .. n : TextOrder[k] = o
      /\ \A j, k \in 1 .. n : TextOrder[j] = TextOrder[k] => j = k
  BY OrdersAssumption DEF ToSet, IsInjective
<1>2. ASSUME NEW r \in C, tx[r].call.op = "AssociateOrders"
      PROVE  \E k \in 1 .. n : Waited(r, k)
  <2>1. PICK q \in C : WaitsFor(r, q)
    BY DEF Deadlocked
  <2>2. PICK row \in tx[q].holds : row \in tx[r].wants
    BY <2>1 DEF WaitsFor, NextLock
  <2>3. row \in Orders
    BY <1>2, <2>2, OrdersWaitInOrder
  <2> QED
    BY <1>1, <2>2, <2>3
<1>3. K # {}
  BY <1>2
<1>4. PICK k \in K : \A l \in K : l <= k
  BY <1>1, <1>3, LastPosition
<1>5. PICK q \in C : TextOrder[k] \in tx[q].holds
  OBVIOUS
<1>6. TextOrder[k] \in Orders
  BY OrdersAssumption DEF ToSet
<1>7. tx[q].call.op = "AssociateOrders"
  BY <1>5, <1>6, WhoHoldsOrders
<1>8. PICK l \in 1 .. n : Waited(q, l)
  BY <1>2, <1>7
<1>9. Precedes(TextOrder, TextOrder[k], TextOrder[l])
  BY <1>5, <1>6, <1>7, <1>8, OrdersWaitInOrder
<1>10. PICK i, j \in 1 .. n : i < j /\ TextOrder[i] = TextOrder[k] /\ TextOrder[j] = TextOrder[l]
  BY <1>1, <1>9 DEF Precedes
<1>11. i = k /\ j = l
  BY <1>1, <1>10
<1>12. l \in K
  BY <1>7, <1>8
<1> HIDE DEF K
<1> QED
  BY <1>1, <1>4, <1>10, <1>11, <1>12

\* Only containments of incidents can wait for each other in a circle.
THEOREM OrdersNeverDeadlock == SafetyPgSpec => []OnlyContainmentsDeadlock
<1>1. SafetyPgInv => OnlyContainmentsDeadlock
  <2> SUFFICES ASSUME SafetyPgInv, NEW C \in SUBSET Sessions, Deadlocked(C), NEW s \in C
               PROVE  tx[s].call.op = "TransitionIncident" /\ tx[s].call.target = "CONTAINED"
    BY DEF OnlyContainmentsDeadlock
  <2>1. PICK row : row \in tx[s].wants
    BY DEF Deadlocked, WaitsFor, NextLock
  <2> QED
    BY <2>1, WhoWants, NoOrdersInCircles
<1> QED
  BY <1>1, SafetyPgInvariance, PTL

-----------------------------------------------------------------------------
\* The service in memory is implemented.  Its operations on batches and
\* qualifications are those of Production.

\* The helpers of Production are the service's.
LEMMA ServiceHelpers ==
  /\ \A map, key, value : Service!Put(map, key, value) = Put(map, key, value)
  /\ \A map, more : Service!With(map, more) = With(map, more)
  /\ \A from, to : Service!CanTransitionBatch(from, to) <=> CanTransitionBatch(from, to)
  /\ \A m, planned, at : Service!NewBatch(m, planned, at) = NewBatch(m, planned, at)
  /\ \A batch, target : Service!MayBecome(batch, target) <=> MayBecome(batch, target)
<1>1. \A map, key, value : Service!Put(map, key, value) = Put(map, key, value)
  BY DEF Service!Put, Put
<1>2. \A map, more : Service!With(map, more) = With(map, more)
  BY DEF Service!With, With
<1>3. \A from, to : Service!CanTransitionBatch(from, to) <=> CanTransitionBatch(from, to)
  BY DEF Service!CanTransitionBatch, CanTransitionBatch
<1>4. \A m, planned, at : Service!NewBatch(m, planned, at) = NewBatch(m, planned, at)
  BY DEF Service!NewBatch, NewBatch, Service!EmptyMap, EmptyMap
<1>5. \A batch, target : Service!MayBecome(batch, target) <=> MayBecome(batch, target)
  BY DEF Service!MayBecome, MayBecome
<1> QED
  BY <1>1, <1>2, <1>3, <1>4, <1>5

\* So are its sums and maxima.
LEMMA ServiceSums ==
  /\ \A orders : Service!Ordered(orders) = Ordered(orders)
  /\ Service!Max(Plans) = Max(Plans)
<1>1. \A orders : Service!Ordered(orders) = Ordered(orders)
  BY Zenon DEF Service!Ordered, Ordered, Service!MapThenSumSet, MapThenSumSet,
     Service!MapThenFoldSet, MapThenFoldSet, Service!FoldSet, FoldSet
<1>2. Service!Max(Plans) = Max(Plans)
  BY Zenon DEF Service!Max, Max
<1> QED
  BY <1>1, <1>2

\* An operation on a qualification is one of the service.
LEMMA ServiceQualifications ==
  /\ Tick => Service!Tick
  /\ \A q, m, complete, until :
       CreateQualification(q, m, complete, until) => Service!CreateQualification(q, m, complete, until)
  /\ \A q, at : SubmitQualification(q, at) => Service!SubmitQualification(q, at)
  /\ \A q, result : RecordSiteInspection(q, result) => Service!RecordSiteInspection(q, result)
  /\ \A q, decision, at :
       ReviewQualification(q, decision, at) => Service!ReviewQualification(q, decision, at)
<1>1. Tick => Service!Tick
  BY DEF Tick, Service!Tick
<1>2. \A q, m, complete, until :
        CreateQualification(q, m, complete, until) => Service!CreateQualification(q, m, complete, until)
  BY DEF CreateQualification, Service!CreateQualification, Put, Service!Put
<1>3. \A from, to : CanTransitionQualification(from, to) => Service!CanTransitionQualification(from, to)
  BY Zenon DEF CanTransitionQualification, Service!CanTransitionQualification
<1>4. \A q, at : SubmitQualification(q, at) => Service!SubmitQualification(q, at)
  BY <1>3 DEF SubmitQualification, Service!SubmitQualification, Submittable, Service!Submittable
<1>5. \A q, result : RecordSiteInspection(q, result) => Service!RecordSiteInspection(q, result)
  BY DEF RecordSiteInspection, Service!RecordSiteInspection
<1>6. \A q, decision, at :
        ReviewQualification(q, decision, at) => Service!ReviewQualification(q, decision, at)
  BY DEF ReviewQualification, Service!ReviewQualification, Approvable, Service!Approvable
<1> QED
  BY <1>1, <1>2, <1>4, <1>5, <1>6

\* An operation on a batch is one of the service.
LEMMA ServiceBatches ==
  /\ \A b, m, planned, at : CreateBatch(b, m, planned, at) => Service!CreateBatch(b, m, planned, at)
  /\ \A b, quantity : RecordBatchProduction(b, quantity) => Service!RecordBatchProduction(b, quantity)
  /\ \A b, added : AssociateOrders(b, added) => Service!AssociateOrders(b, added)
  /\ \A b, target : TransitionBatch(b, target) => Service!TransitionBatch(b, target)
<1>1. \A b, m, planned, at : CreateBatch(b, m, planned, at) => Service!CreateBatch(b, m, planned, at)
  BY ServiceHelpers DEF CreateBatch, Service!CreateBatch, HasApprovedQualification,
     Service!HasApprovedQualification, ApprovedAndCurrent, Service!ApprovedAndCurrent
<1>2. \A b, quantity : RecordBatchProduction(b, quantity) => Service!RecordBatchProduction(b, quantity)
  BY DEF RecordBatchProduction, Service!RecordBatchProduction
<1>3. \A b, added : AssociateOrders(b, added) => Service!AssociateOrders(b, added)
  BY ServiceHelpers, ServiceSums DEF AssociateOrders, Service!AssociateOrders, TakesOrders,
     Service!TakesOrders, Unassigned, Service!Unassigned
<1>4. \A b, target : TransitionBatch(b, target) => Service!TransitionBatch(b, target)
  BY ServiceHelpers DEF TransitionBatch, Service!TransitionBatch
<1> QED
  BY <1>1, <1>2, <1>3, <1>4

\* A step of Production is one of the service.
LEMMA ServiceProduction ==
  ASSUME ProductionNext, UNCHANGED incidents
  PROVE  Service!ContainmentNext
<1>1. UNCHANGED Service!withdrawalVars
  BY DEF Service!withdrawalVars, EmptyMap
<1>2. Service!ProductionNext
  <2>1. Service!OrderMaps = OrderMaps
    BY Zenon DEF Service!OrderMaps, OrderMaps, Service!IsFiniteSet, IsFiniteSet
  <2> QED
    BY <2>1, ServiceQualifications, ServiceBatches, ServiceSums
    DEF ProductionNext, Service!ProductionNext, SiteInspectionResult,
        Service!SiteInspectionResult, FoodBatchStatus, Service!FoodBatchStatus
<1> QED
  BY <1>1, <1>2 DEF Service!ContainmentNext

\* The empty database is the empty service.
LEMMA ServiceInit == SafetyPgInit => Service!ContainmentInit
BY DEF SafetyPgInit, ProductionInit, EmptyMap, Service!ContainmentInit, Service!ProductionInit,
   Service!EmptyMap

\* An incident that is reported to the database is reported to the service.
LEMMA ServiceCreateIncident ==
  ASSUME SafetyPgInv, NEW report \in Reports, NEW m \in Merchants,
         PgCreateIncident(report.id, m, report.batches, report.orders)
  PROVE  Service!ContainmentNext
<1> DEFINE i  == report.id
           bs == report.batches
           os == report.orders
<1>1. PgCreateIncident(i, m, bs, os)
  OBVIOUS
<1>2. \A b \in ToSet(bs) : b \in DOMAIN batches /\ batches[b].merchant = m
  BY <1>1 DEF PgCreateIncident
<1>3. i \in IncidentIds /\ ToSet(bs) \in SUBSET BatchIds /\ os \in SUBSET Orders
  BY <1>2, ReportsAssumption DEF SafetyPgInv, ProductionInv, ProductionTypeOK
<1>4. ToSet(bs) \cup os # {}
  <2>1. bs \in Seq(BatchIds) /\ (bs # <<>> \/ os # {})
    BY ReportsAssumption
  <2> HIDE DEF bs, os
  <2>2. bs # <<>> => bs[1] \in ToSet(bs)
    BY <2>1 DEF ToSet
  <2> QED
    BY <2>1, <2>2
<1> HIDE DEF i, bs, os
<1>5. Service!CreateIncident(i, m, ToSet(bs), os)
  BY <1>1, <1>2, <1>4 DEF PgCreateIncident, Service!CreateIncident, Put, Service!Put,
     Service!productionVars, productionVars, EmptyMap
<1> QED
  BY <1>3, <1>5 DEF Service!ContainmentNext

\* The commit of an incident's transition is the service's transition: in the
\* database no recall can be active.
LEMMA ServiceTransitionIncident ==
  ASSUME SafetyPgInv, NEW s \in Sessions, CommitTransitionIncident(s)
  PROVE  Service!ContainmentNext
<1> DEFINE i == tx[s].call.row
           target == tx[s].call.target
<1>1. /\ i \in IncidentIds \cap DOMAIN incidents /\ target \in Service!IncidentStatus
      /\ Service!CanTransitionIncident(incidents[i].status, target)
      /\ target = "CONTAINED" => \A b \in incidents[i].batches : Service!CanQuarantine(b)
  BY TransitionIncidentCommits
<1>2. /\ batches' = IF target = "CONTAINED" THEN Service!Quarantined(incidents[i].batches) ELSE batches
      /\ incidents' = [incidents EXCEPT ![i].status = target,
                                        ![i].contained = @ \/ target = "CONTAINED"]
      /\ UNCHANGED <<now, qualifications, orderBatch>>
  BY DEF CommitTransitionIncident
<1>3. ~Service!HasActiveRecall(Service!RecallsOf(i))
  BY DEF Service!HasActiveRecall, Service!RecallsOf, EmptyMap
<1>4. Service!TransitionIncident(i, target)
  BY <1>1, <1>2, <1>3 DEF Service!TransitionIncident, EmptyMap
<1> QED
  BY <1>1, <1>4 DEF Service!ContainmentNext

\* Every step of the database is a step of the service or changes nothing of it.
LEMMA ServiceStep ==
  SafetyPgInv /\ [SafetyPgNext]_pgVars => [Service!ContainmentNext]_(Service!containmentVars)
<1> SUFFICES ASSUME SafetyPgInv, [SafetyPgNext]_pgVars
             PROVE  Service!ContainmentNext \/ UNCHANGED Service!containmentVars
  OBVIOUS
<1>1. UNCHANGED <<productionVars, incidents>> => UNCHANGED Service!containmentVars
  BY DEF Service!containmentVars, Service!productionVars, productionVars, Service!withdrawalVars, EmptyMap
<1>2. CASE UNCHANGED pgVars
  BY <1>1, <1>2 DEF pgVars, rows
<1>3. CASE Tick /\ UNCHANGED <<incidents, listed, evidence, tx>>
  BY <1>3, ServiceProduction DEF ProductionNext
<1>4. ASSUME NEW q \in QualificationIds, NEW m \in Merchants, NEW complete \in BOOLEAN,
             NEW until \in ExpiryDates, PgCreateQualification(q, m, complete, until)
      PROVE  Service!ContainmentNext
  BY <1>4, ServiceProduction DEF PgCreateQualification, ProductionNext
<1>5. ASSUME NEW report \in Reports, NEW m \in Merchants,
             PgCreateIncident(report.id, m, report.batches, report.orders)
      PROVE  Service!ContainmentNext
  BY <1>5, ServiceCreateIncident
<1>6. ASSUME NEW s \in Sessions,
             Start(s) \/ LockNext(s) \/ Commit(s) \/ DetectDeadlock(s) \/ Abort(s)
      PROVE  Service!ContainmentNext \/ UNCHANGED Service!containmentVars
  <2>1. CASE Start(s)
    <3>1. UNCHANGED rows
      BY <2>1 DEF Start, BeginSubmit, BeginReview, BeginInspection, BeginCreateBatch,
         BeginProduction, BeginTransitionBatch, BeginAssociate, BeginTransitionIncident,
         BeginEvidence, Begin, Begins
    <3> QED
      BY <1>1, <3>1 DEF rows
  <2>2. CASE LockNext(s) \/ DetectDeadlock(s) \/ Abort(s)
    BY <1>1, <2>2 DEF LockNext, DetectDeadlock, Abort, rows
  <2>3. CASE CommitEvidence(s)
    BY <1>1, <2>3 DEF CommitEvidence
  <2>4. CASE CommitTransitionIncident(s)
    BY <2>4, ServiceTransitionIncident
  <2>5. CASE Commit(s) /\ ~CommitEvidence(s) /\ ~CommitTransitionIncident(s)
    <3>1. ServesProduction(s)
      BY <2>5, QualificationCommits, CreateBatchCommits, BatchCommits, AssociateCommits DEF Commit
    <3> QED
      BY <3>1, ServiceProduction DEF ServesProduction
  <2> QED
    BY <1>6, <2>1, <2>2, <2>3, <2>4, <2>5
<1> QED
  BY <1>2, <1>3, <1>4, <1>5, <1>6 DEF SafetyPgNext

\* The transactions of concurrent sessions implement the operations that the service
\* in memory makes under its mutex.  Orders are texts to both: where ids are written
\* in two ways, neither keeps an order out of a second batch.
THEOREM TransactionsServe == SafetyPgSpec => ImplementsService
BY ServiceInit, ServiceStep, SafetyPgInvariance, PTL
DEF SafetyPgSpec, ImplementsService, Service!ContainmentSpec

-----------------------------------------------------------------------------
\* What concurrent sessions do to batches that are out of trade.

\* Whatever the step, batches move along their lifecycle.
LEMMA SessionsMoveBatches == SafetyPgInv /\ [SafetyPgNext]_pgVars => BatchesMove
<1> SUFFICES ASSUME SafetyPgInv, [SafetyPgNext]_pgVars PROVE BatchesMove
  OBVIOUS
<1>1. [ProductionNext]_productionVars => BatchesMove
  BY ProductionStep DEF SafetyPgInv
<1>2. UNCHANGED productionVars => BatchesMove
  BY <1>1
<1>3. CASE UNCHANGED pgVars
  BY <1>2, <1>3 DEF pgVars, rows
<1>4. CASE Tick
  BY <1>1, <1>4 DEF ProductionNext
<1>5. ASSUME NEW q \in QualificationIds, NEW m \in Merchants, NEW complete \in BOOLEAN,
             NEW until \in ExpiryDates, PgCreateQualification(q, m, complete, until)
      PROVE  BatchesMove
  BY <1>1, <1>5 DEF PgCreateQualification, ProductionNext
<1>6. ASSUME NEW i, NEW m, NEW bs, NEW os, PgCreateIncident(i, m, bs, os) PROVE BatchesMove
  BY <1>2, <1>6 DEF PgCreateIncident
<1>7. ASSUME NEW s \in Sessions,
             Start(s) \/ LockNext(s) \/ Commit(s) \/ DetectDeadlock(s) \/ Abort(s)
      PROVE  BatchesMove
  <2>1. CASE Start(s)
    <3>1. UNCHANGED rows
      BY <2>1 DEF Start, BeginSubmit, BeginReview, BeginInspection, BeginCreateBatch,
         BeginProduction, BeginTransitionBatch, BeginAssociate, BeginTransitionIncident,
         BeginEvidence, Begin, Begins
    <3> QED
      BY <1>2, <3>1 DEF rows
  <2>2. CASE LockNext(s) \/ DetectDeadlock(s) \/ Abort(s)
    BY <1>2, <2>2 DEF LockNext, DetectDeadlock, Abort, rows
  <2>3. CASE CommitEvidence(s)
    BY <1>2, <2>3 DEF CommitEvidence
  <2>4. CASE CommitTransitionIncident(s)
    BY <2>4, TransitionIncidentCommits
  <2>5. CASE Commit(s) /\ ~CommitEvidence(s) /\ ~CommitTransitionIncident(s)
    <3>1. ServesProduction(s)
      BY <2>5, QualificationCommits, CreateBatchCommits, BatchCommits, AssociateCommits DEF Commit
    <3> QED
      BY <1>1, <3>1 DEF ServesProduction
  <2> QED
    BY <1>7, <2>1, <2>2, <2>3, <2>4, <2>5
<1> QED
  BY <1>3, <1>4, <1>5, <1>6, <1>7 DEF SafetyPgNext

\* An incident that is contained was contained before, with the same batches, or its
\* batches are out of trade.
ContainedFor(i) ==
  \/ i \in DOMAIN incidents /\ incidents[i].contained /\ incidents'[i].batches = incidents[i].batches
  \/ \A b \in incidents'[i].batches : batches'[b].status \in Service!OutOfTrade

\* Sessions contain incidents in no other way.
LEMMA SessionsContain ==
  SafetyPgInv /\ [SafetyPgNext]_pgVars
    => \A i \in DOMAIN incidents' : incidents'[i].contained => ContainedFor(i)
<1> SUFFICES ASSUME SafetyPgInv, [SafetyPgNext]_pgVars,
                    NEW i \in DOMAIN incidents', incidents'[i].contained
             PROVE  ContainedFor(i)
  OBVIOUS
<1>1. UNCHANGED incidents => ContainedFor(i)
  BY DEF ContainedFor
<1>2. CASE UNCHANGED pgVars
  BY <1>1, <1>2 DEF pgVars, rows
<1>3. CASE UNCHANGED incidents
  BY <1>1, <1>3
<1>4. ASSUME NEW j, NEW m, NEW bs, NEW os, PgCreateIncident(j, m, bs, os) PROVE ContainedFor(i)
  <2> DEFINE row == [merchant |-> m, status |-> "REPORTED", batches |-> ToSet(bs), orders |-> os,
                     contained |-> FALSE]
  <2>1. j \notin DOMAIN incidents /\ incidents' = Put(incidents, j, row)
    BY <1>4 DEF PgCreateIncident
  <2>2. row.contained = FALSE
    OBVIOUS
  <2> HIDE DEF row
  <2>3. i # j /\ i \in DOMAIN incidents /\ incidents'[i] = incidents[i]
    BY <2>1, <2>2 DEF Put
  <2> QED
    BY <2>3 DEF ContainedFor
<1>5. ASSUME NEW s \in Sessions, CommitTransitionIncident(s) PROVE ContainedFor(i)
  <2> DEFINE j == tx[s].call.row
             target == tx[s].call.target
             contained == incidents[j].contained \/ target = "CONTAINED"
             row == [incidents[j] EXCEPT !.status = target, !.contained = contained]
  <2>1. incidents' = [incidents EXCEPT ![j] = row] /\ j \in DOMAIN incidents
    BY <1>5, TransitionIncidentCommits DEF CommitTransitionIncident
  <2>2. incidents[j] \in Service!Incident
    BY <2>1 DEF SafetyPgInv, IncidentsOK
  <2>3. row.contained = contained /\ row.batches = incidents[j].batches
    <3> HIDE DEF contained, target
    <3> QED
      BY <2>2 DEF Service!Incident
  <2>4. target = "CONTAINED" =>
          \A b \in incidents[j].batches : batches'[b].status \in Service!OutOfTrade
    BY <1>5, TransitionIncidentCommits
  <2> HIDE DEF row
  <2>5. CASE i = j
    BY <2>1, <2>3, <2>4, <2>5 DEF ContainedFor
  <2>6. CASE i # j
    BY <2>1, <2>6 DEF ContainedFor
  <2> QED
    BY <2>5, <2>6
<1>6. ASSUME NEW s \in Sessions,
             Start(s) \/ LockNext(s) \/ Commit(s) \/ DetectDeadlock(s) \/ Abort(s)
      PROVE  ContainedFor(i)
  <2>1. CASE Start(s)
    <3>1. UNCHANGED rows
      BY <2>1 DEF Start, BeginSubmit, BeginReview, BeginInspection, BeginCreateBatch,
         BeginProduction, BeginTransitionBatch, BeginAssociate, BeginTransitionIncident,
         BeginEvidence, Begin, Begins
    <3> QED
      BY <1>1, <3>1 DEF rows
  <2>2. CASE LockNext(s) \/ DetectDeadlock(s) \/ Abort(s)
    BY <1>1, <2>2 DEF LockNext, DetectDeadlock, Abort, rows
  <2>3. CASE Commit(s) /\ ~CommitTransitionIncident(s)
    BY <1>1, <2>3 DEF Commit, CommitSubmit, CommitReview, CommitInspection, CommitCreateBatch,
       CommitProduction, CommitTransitionBatch, CommitAssociate, CommitEvidence
  <2> QED
    BY <1>5, <1>6, <2>1, <2>2, <2>3
<1> QED
  BY <1>2, <1>3, <1>4, <1>6 DEF SafetyPgNext, PgCreateQualification

\* What is out of trade stays so.
LEMMA OutOfTradeForGood ==
  ASSUME BatchesMove, NEW b \in DOMAIN batches, batches[b].status \in Service!OutOfTrade
  PROVE  batches'[b].status \in Service!OutOfTrade
<1>1. \/ batches'[b].status = batches[b].status
      \/ CanTransitionBatch(batches[b].status, batches'[b].status)
  BY DEF BatchesMove
<1>2. batches[b].status \in Withdrawn \cup {"CANCELLED"}
  BY DEF Service!OutOfTrade, Withdrawn
<1> QED
  BY <1>1, <1>2, BatchLifecycle DEF Service!OutOfTrade, Withdrawn

\* From the moment an incident is contained its batches are out of trade for good,
\* also when sessions that lock and commit at the same time move them
\* (quarantineIncidentBatchesTx, TransitionBatch).
THEOREM ContainmentLastsInTransactions ==
  SafetyPgSpec => []Service!ContainedBatchesAreWithdrawn
<1>1. SafetyPgInit => Service!ContainedBatchesAreWithdrawn
  BY DEF SafetyPgInit, EmptyMap, Service!ContainedBatchesAreWithdrawn
<1>2. SafetyPgInv /\ Service!ContainedBatchesAreWithdrawn /\ [SafetyPgNext]_pgVars
        => Service!ContainedBatchesAreWithdrawn'
  <2> SUFFICES ASSUME SafetyPgInv, Service!ContainedBatchesAreWithdrawn, [SafetyPgNext]_pgVars,
                      NEW i \in DOMAIN incidents', incidents'[i].contained,
                      NEW b \in incidents'[i].batches
               PROVE  batches'[b].status \in Service!OutOfTrade
    BY DEF Service!ContainedBatchesAreWithdrawn
  <2>1. ContainedFor(i) /\ BatchesMove
    BY SessionsContain, SessionsMoveBatches
  <2>2. CASE i \in DOMAIN incidents /\ incidents[i].contained /\ incidents'[i].batches = incidents[i].batches
    <3>1. b \in DOMAIN batches /\ batches[b].status \in Service!OutOfTrade
      BY <2>2 DEF SafetyPgInv, IncidentsOK, Service!ContainedBatchesAreWithdrawn
    <3> QED
      BY <2>1, <3>1, OutOfTradeForGood
  <2> QED
    BY <2>1, <2>2 DEF ContainedFor
<1> QED
  BY <1>1, <1>2, SafetyPgInvariance, PTL DEF SafetyPgSpec
=============================================================================
