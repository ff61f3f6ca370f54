---------------------------- MODULE Containment ----------------------------
(***************************************************************************)
(* Incidents, recalls and dispositions of the safety service               *)
(* (internal/safety/memory.go) over the batches of Production: containing  *)
(* an incident quarantines its batches, initiating a recall withdraws      *)
(* them, destroying goods adds to a recall's disposed quantity.            *)
(*                                                                         *)
(* Left out: reports, reasons, severities, names; the lists of ids kept on *)
(* batches, incidents and recalls for display; the scope of a recall,      *)
(* which only asks one of its two lists not to be empty; evidence, except  *)
(* that a physical disposition cannot be completed without.                *)
(***************************************************************************)
EXTENDS Production

CONSTANTS
  IncidentIds, RecallIds, DispositionIds,
  Quantities          \* quantities stated by callers

\* ValidateRecall and ValidateDisposition: stated quantities are positive.
ASSUME QuantitiesAssumption == Quantities \subseteq Nat \ {0}

VARIABLES
  incidents,          \* id -> incident
  recalls,            \* id -> recall
  dispositions,       \* id -> disposition
  evidenced           \* dispositions with evidence

withdrawalVars == <<incidents, recalls, dispositions, evidenced>>
containmentVars == <<productionVars, withdrawalVars>>

None == "NONE"
IncidentStatus ==
  {"REPORTED", "CONTAINED", "INVESTIGATING", "CONFIRMED", "RECALLING", "COMPENSATING",
   "RESOLVED", "CLOSED", "DISMISSED"}
RecallStatus == {"DRAFT", "INITIATED", "IN_PROGRESS", "COMPLETED", "CANCELLED"}
DispositionStatus == {"PLANNED", "COMPLETED", "FAILED", "CANCELLED"}

\* DESTROY and RETURN_TO_SUPPLIER are physical; the other types are one here.
DispositionType == {"DESTROY", "RETURN_TO_SUPPLIER", "OTHER"}

\* contained: contained_at is set.
Incident ==
  [merchant : Merchants, status : IncidentStatus, batches : SUBSET BatchIds,
   orders : SUBSET Orders, contained : BOOLEAN]
Recall ==
  [incident : IncidentIds, status : RecallStatus, batches : SUBSET BatchIds,
   orders : SUBSET Orders, affected : Quantities, recovered : Nat, disposed : Nat]
Disposition ==
  [incident : IncidentIds, recall : RecallIds \cup {None}, batch : BatchIds \cup {None},
   order : Orders \cup {None}, type : DispositionType, quantity : Quantities,
   status : DispositionStatus]

\* Every record of the safety service is well formed and refers to records
\* that exist: a recall and a disposition to their incident, a disposition to
\* a recall of that incident, an incident to batches of its merchant.
ContainmentTypeOK ==
  /\ ProductionTypeOK
  /\ DOMAIN incidents \subseteq IncidentIds
  /\ DOMAIN recalls \subseteq RecallIds
  /\ DOMAIN dispositions \subseteq DispositionIds
  /\ evidenced \subseteq DOMAIN dispositions
  /\ \A i \in DOMAIN incidents :
       /\ incidents[i] \in Incident
       /\ \A b \in incidents[i].batches :
            b \in DOMAIN batches /\ batches[b].merchant = incidents[i].merchant
  /\ \A r \in DOMAIN recalls :
       /\ recalls[r] \in Recall
       /\ recalls[r].incident \in DOMAIN incidents
       /\ recalls[r].batches \subseteq incidents[recalls[r].incident].batches
  /\ \A d \in DOMAIN dispositions :
       /\ dispositions[d] \in Disposition
       /\ dispositions[d].incident \in DOMAIN incidents
       /\ dispositions[d].recall # None =>
            /\ dispositions[d].recall \in DOMAIN recalls
            /\ recalls[dispositions[d].recall].incident = dispositions[d].incident

ContainmentInit ==
  /\ ProductionInit
  /\ incidents = EmptyMap
  /\ recalls = EmptyMap
  /\ dispositions = EmptyMap
  /\ evidenced = {}

-----------------------------------------------------------------------------
\* Incidents.

CanTransitionIncident(from, to) ==
  to \in CASE from = "REPORTED" -> {"CONTAINED", "INVESTIGATING", "DISMISSED"}
           [] from = "CONTAINED" -> {"INVESTIGATING", "RECALLING", "DISMISSED"}
           [] from = "INVESTIGATING" -> {"CONTAINED", "CONFIRMED", "DISMISSED"}
           [] from = "CONFIRMED" -> {"RECALLING", "COMPENSATING", "RESOLVED"}
           [] from \in {"RECALLING", "COMPENSATING"} ->
                {"COMPENSATING", "RESOLVED"} \ {from}
           [] from \in {"RESOLVED", "DISMISSED"} -> {"CLOSED"}
           [] OTHER -> {}

CreateIncident(i, m, bs, os) ==
  /\ i \notin DOMAIN incidents
  /\ bs \cup os # {}
  /\ \A b \in bs : b \in DOMAIN batches /\ batches[b].merchant = m
  /\ incidents' = Put(incidents, i,
       [merchant |-> m, status |-> "REPORTED", batches |-> bs, orders |-> os,
        contained |-> FALSE])
  /\ UNCHANGED <<productionVars, recalls, dispositions, evidenced>>

OutOfTrade == {"QUARANTINED", "RECALLED", "DISPOSED", "CANCELLED"}

\* Faulty variant: only what is ready or on its way is quarantined.
QuarantinedHandedOver(bs) ==
  [b \in DOMAIN batches |->
     IF b \in bs /\ batches[b].status \in {"READY_FOR_HANDOFF", "IN_DELIVERY", "COMPLETED"}
     THEN [batches[b] EXCEPT !.status = "QUARANTINED"] ELSE batches[b]]

\* Faulty variant: a status the service does not know.
QuarantinedOnHold(bs) ==
  [b \in DOMAIN batches |->
     IF b \in bs /\ batches[b].status \notin OutOfTrade
     THEN [batches[b] EXCEPT !.status = "ON_HOLD"] ELSE batches[b]]

\* quarantineBatchLocked on each of the incident's batches.
Quarantined(bs) ==
  [b \in DOMAIN batches |->
     IF b \in bs /\ batches[b].status \notin OutOfTrade
     THEN [batches[b] EXCEPT !.status = "QUARANTINED"] ELSE batches[b]]

CanQuarantine(b) ==
  batches[b].status \in OutOfTrade \/ CanTransitionBatch(batches[b].status, "QUARANTINED")

RecallsOf(i) == {r \in DOMAIN recalls : recalls[r].incident = i}

\* Faulty variant: a recall nobody initiated is overlooked.
HasActiveRecallInitiated(rs) == \E r \in rs : recalls[r].status \in {"INITIATED", "IN_PROGRESS"}

HasActiveRecall(rs) == \E r \in rs : recalls[r].status \notin {"COMPLETED", "CANCELLED"}

TransitionIncident(i, target) ==
  /\ i \in DOMAIN incidents
  /\ CanTransitionIncident(incidents[i].status, target)
  /\ target = "CLOSED" => ~HasActiveRecall(RecallsOf(i))
  /\ IF target = "CONTAINED"
     THEN /\ \A b \in incidents[i].batches : CanQuarantine(b)
          /\ batches' = Quarantined(incidents[i].batches)
     ELSE UNCHANGED batches
  /\ incidents' = [incidents EXCEPT ![i].status = target,
                                    ![i].contained = @ \/ target = "CONTAINED"]
  /\ UNCHANGED <<now, qualifications, orderBatch, recalls, dispositions, evidenced>>

-----------------------------------------------------------------------------
\* Recalls.

CanTransitionRecall(from, to) ==
  to \in CASE from = "DRAFT" -> {"INITIATED", "CANCELLED"}
           [] from = "INITIATED" -> {"IN_PROGRESS"}
           [] from = "IN_PROGRESS" -> {"COMPLETED"}
           [] OTHER -> {}

Confirmed(i) == incidents[i].status \in {"CONFIRMED", "RECALLING", "COMPENSATING"}

CreateRecall(r, i, bs, os, affected) ==
  /\ r \notin DOMAIN recalls /\ i \in DOMAIN incidents
  /\ bs \cup os # {} /\ affected > 0
  /\ Confirmed(i)
  /\ bs \subseteq incidents[i].batches /\ os \subseteq incidents[i].orders
  /\ recalls' = Put(recalls, r,
       [incident |-> i, status |-> "DRAFT", batches |-> bs, orders |-> os,
        affected |-> affected, recovered |-> 0, disposed |-> 0])
  /\ UNCHANGED <<productionVars, incidents, dispositions, evidenced>>

\* Faulty variant: any batch that was produced can be marked as recalled.
CanMarkRecalledProduced(b) == batches[b].produced > 0

CanMarkRecalled(b) ==
  \/ batches[b].status = "RECALLED"
  \/ batches[b].produced > 0 /\ CanTransitionBatch(batches[b].status, "RECALLED")

\* Faulty variant: the batches are left to their own transitions.
InitiateRecallOnly(r) ==
  LET recall == recalls[r] IN
  /\ r \in DOMAIN recalls
  /\ CanTransitionRecall(recall.status, "INITIATED") /\ Confirmed(recall.incident)
  /\ \A b \in recall.batches : CanMarkRecalled(b)
  /\ recalls' = [recalls EXCEPT ![r].status = "INITIATED"]
  /\ UNCHANGED <<productionVars, incidents, dispositions, evidenced>>

\* TransitionRecall to INITIATED marks all batches or none, and moves a
\* confirmed incident on.
InitiateRecall(r) ==
  LET recall == recalls[r] IN
  /\ r \in DOMAIN recalls
  /\ CanTransitionRecall(recall.status, "INITIATED") /\ Confirmed(recall.incident)
  /\ \A b \in recall.batches : CanMarkRecalled(b)
  /\ batches' = [b \in DOMAIN batches |->
       IF b \in recall.batches THEN [batches[b] EXCEPT !.status = "RECALLED"]
       ELSE batches[b]]
  /\ incidents' = [incidents EXCEPT ![recall.incident].status =
       IF @ = "CONFIRMED" THEN "RECALLING" ELSE @]
  /\ recalls' = [recalls EXCEPT ![r].status = "INITIATED"]
  /\ UNCHANGED <<now, qualifications, orderBatch, dispositions, evidenced>>

\* TransitionRecall to COMPLETED: the quantities of the call replace those
\* counted so far.
CompleteRecall(r, recovered, disposed) ==
  /\ r \in DOMAIN recalls
  /\ CanTransitionRecall(recalls[r].status, "COMPLETED")
  /\ recovered + disposed <= recalls[r].affected
  /\ recalls' = [recalls EXCEPT ![r].status = "COMPLETED", ![r].recovered = recovered,
                                ![r].disposed = disposed]
  /\ UNCHANGED <<productionVars, incidents, dispositions, evidenced>>

\* TransitionRecall to IN_PROGRESS or CANCELLED.
MoveRecall(r, target) ==
  /\ r \in DOMAIN recalls /\ target \notin {"INITIATED", "COMPLETED"}
  /\ CanTransitionRecall(recalls[r].status, target)
  /\ recalls' = [recalls EXCEPT ![r].status = target]
  /\ UNCHANGED <<productionVars, incidents, dispositions, evidenced>>

-----------------------------------------------------------------------------
\* Dispositions.

CanTransitionDisposition(from, to) ==
  from = "PLANNED" /\ to \in {"COMPLETED", "FAILED", "CANCELLED"}

\* A target is a batch, an order or both, of the incident and of the recall if
\* there is one.
CreateDisposition(d, disposition) ==
  LET i == disposition.incident
      r == disposition.recall
      Within(record) == /\ disposition.batch \in record.batches \cup {None}
                        /\ disposition.order \in record.orders \cup {None}
  IN
  /\ d \notin DOMAIN dispositions /\ disposition.status = "PLANNED"
  /\ ~(disposition.batch = None /\ disposition.order = None)
  /\ i \in DOMAIN incidents /\ incidents[i].status \notin {"CLOSED", "DISMISSED"}
  /\ r # None => r \in DOMAIN recalls /\ recalls[r].incident = i /\ Within(recalls[r])
  /\ Within(incidents[i])
  /\ dispositions' = Put(dispositions, d, disposition)
  /\ UNCHANGED <<productionVars, incidents, recalls, evidenced>>

\* AddEvidence to a disposition; other evidence decides nothing.
AddEvidence(d) ==
  /\ d \in DOMAIN dispositions /\ d \notin evidenced
  /\ evidenced' = evidenced \cup {d}
  /\ UNCHANGED <<productionVars, incidents, recalls, dispositions>>

MayDestroy(r, quantity) == recalls[r].disposed + quantity <= recalls[r].affected

\* Neither the recall's status nor the incident's matters any more.
TransitionDisposition(d, target) ==
  LET disposition == dispositions[d]
      r == disposition.recall
      destroys == r # None /\ disposition.type = "DESTROY" /\ target = "COMPLETED"
  IN
  /\ d \in DOMAIN dispositions
  /\ CanTransitionDisposition(disposition.status, target)
  /\ target = "COMPLETED" /\ disposition.type # "OTHER" => d \in evidenced
  /\ destroys => MayDestroy(r, disposition.quantity)
  /\ dispositions' = [dispositions EXCEPT ![d].status = target]
  /\ recalls' = IF destroys
                THEN [recalls EXCEPT ![r].disposed = @ + disposition.quantity] ELSE recalls
  /\ UNCHANGED <<productionVars, incidents, evidenced>>

-----------------------------------------------------------------------------
ContainmentNext ==
  \/ ProductionNext /\ UNCHANGED withdrawalVars
  \/ \E i \in IncidentIds, m \in Merchants, bs \in SUBSET BatchIds, os \in SUBSET Orders :
       CreateIncident(i, m, bs, os)
  \/ \E i \in IncidentIds, target \in IncidentStatus : TransitionIncident(i, target)
  \/ \E r \in RecallIds, i \in IncidentIds, bs \in SUBSET BatchIds, os \in SUBSET Orders,
        affected \in Quantities : CreateRecall(r, i, bs, os, affected)
  \/ \E r \in RecallIds : InitiateRecall(r)
  \/ \E r \in RecallIds, recovered, disposed \in Quantities \cup {0} :
       CompleteRecall(r, recovered, disposed)
  \/ \E r \in RecallIds, target \in RecallStatus : MoveRecall(r, target)
  \/ \E d \in DispositionIds, disposition \in Disposition : CreateDisposition(d, disposition)
  \/ \E d \in DispositionIds : AddEvidence(d)
  \/ \E d \in DispositionIds, target \in DispositionStatus : TransitionDisposition(d, target)

ContainmentSpec == ContainmentInit /\ [][ContainmentNext]_containmentVars

-----------------------------------------------------------------------------
\* From the moment an incident is contained its batches are out of trade for
\* good, whatever is done to them, to it or to other incidents afterwards
\* (TransitionIncident, quarantineBatchLocked, TransitionBatch).
ContainedBatchesAreWithdrawn ==
  \A i \in DOMAIN incidents : incidents[i].contained =>
    \A b \in incidents[i].batches : batches[b].status \in OutOfTrade

\* Every batch of an initiated recall is recalled or disposed of, whatever is done
\* to the batch afterwards, and the recall's incident has moved on with it
\* (TransitionRecall).  A batch that was quarantined before it was produced can
\* be among them: TransitionBatch may have made it RECALLED.
RecallReachesItsBatches ==
  \A r \in DOMAIN recalls : recalls[r].status \in {"INITIATED", "IN_PROGRESS", "COMPLETED"} =>
    /\ \A b \in recalls[r].batches : batches[b].status \in {"RECALLED", "DISPOSED"}
    /\ incidents[recalls[r].incident].status
         \in {"RECALLING", "COMPENSATING", "RESOLVED", "CLOSED"}

\* No recall is under way, or could still be initiated, when its incident is
\* closed, and none belongs to an incident that was dismissed
\* (hasActiveRecallLocked, CreateRecall).
ClosedIncidentsHaveNoActiveRecall ==
  \A r \in DOMAIN recalls :
    LET status == incidents[recalls[r].incident].status IN
    /\ status # "DISMISSED"
    /\ status = "CLOSED" => recalls[r].status \in {"COMPLETED", "CANCELLED"}

\* Destroyed goods never exceed what a recall affects, before, at or after its
\* completion (TransitionDisposition, TransitionRecall).
DisposedWithinAffected ==
  \A r \in DOMAIN recalls : recalls[r].disposed <= recalls[r].affected

\* Batches move only along CanTransitionBatch, also when an incident or a recall
\* moves them past TransitionBatch, and what was produced or ordered is
\* not touched by withdrawing it (quarantineBatchLocked, markBatchRecalledLocked).
WithdrawalFollowsBatchLifecycle ==
  [][\A b \in DOMAIN batches :
       batches'[b].status # batches[b].status =>
         /\ CanTransitionBatch(batches[b].status, batches'[b].status)
         /\ batches'[b] = [batches[b] EXCEPT !.status = batches'[b].status]]_containmentVars

\* What ValidateRecall says of a recall: recovered and disposed quantities
\* together do not exceed the affected quantity.
RecallQuantitiesConsistent ==
  \A r \in DOMAIN recalls : recalls[r].recovered + recalls[r].disposed <= recalls[r].affected
=============================================================================
