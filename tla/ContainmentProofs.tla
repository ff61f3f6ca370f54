------------------------- MODULE ContainmentProofs -------------------------
(***************************************************************************)
(* Proofs about Containment, for any numbers of incidents, recalls and     *)
(* dispositions over the batches of Production, and any quantities.        *)
(*                                                                         *)
(* Every operation is one of three kinds of change at once: batches move   *)
(* along their lifecycle (BatchesMove of ProductionProofs), incidents move *)
(* along theirs, recalls move along theirs.  StepKeepsInv says that steps  *)
(* of these kinds keep the invariant; the rest shows that the operations   *)
(* are of these kinds.                                                     *)
(***************************************************************************)
EXTENDS Containment, ProductionProofs

\* The incident of a recall has been confirmed, and was not dismissed since.
RecalledIncidentsWereConfirmed ==
  \A r \in DOMAIN recalls :
    incidents[recalls[r].incident].status
      \in {"CONFIRMED", "RECALLING", "COMPENSATING", "RESOLVED", "CLOSED"}

ContainmentInv ==
  /\ ProductionInv /\ ContainmentTypeOK
  /\ RecalledIncidentsWereConfirmed
  /\ ContainedBatchesAreWithdrawn /\ RecallReachesItsBatches
  /\ ClosedIncidentsHaveNoActiveRecall /\ DisposedWithinAffected

-----------------------------------------------------------------------------
\* The kinds of steps.

\* An incident keeps its batches and moves along its lifecycle: it is contained
\* with its batches out of trade, and closed without an active recall.
IncidentMoves(i) ==
  /\ incidents'[i].merchant = incidents[i].merchant
  /\ incidents'[i].batches = incidents[i].batches
  /\ \/ incidents'[i].status = incidents[i].status
     \/ CanTransitionIncident(incidents[i].status, incidents'[i].status)
  /\ incidents'[i].contained =>
       \/ incidents[i].contained
       \/ \A b \in incidents[i].batches : batches'[b].status \in OutOfTrade
  /\ incidents'[i].status = "CLOSED" =>
       incidents[i].status = "CLOSED" \/ ~HasActiveRecall(RecallsOf(i))

IncidentAppears(i) ==
  /\ ~incidents'[i].contained
  /\ \A b \in incidents'[i].batches :
       b \in DOMAIN batches /\ batches[b].merchant = incidents'[i].merchant

IncidentsMove ==
  /\ DOMAIN incidents \subseteq DOMAIN incidents' /\ DOMAIN incidents' \subseteq IncidentIds
  /\ \A i \in DOMAIN incidents' : incidents'[i] \in Incident
  /\ \A i \in DOMAIN incidents : IncidentMoves(i)
  /\ \A i \in DOMAIN incidents' \ DOMAIN incidents : IncidentAppears(i)

\* A recall keeps its incident and batches and moves along its lifecycle: it is
\* initiated with its batches recalled and its incident recalling.
RecallMoves(r) ==
  /\ recalls'[r].incident = recalls[r].incident
  /\ recalls'[r].batches = recalls[r].batches
  /\ \/ recalls'[r].status = recalls[r].status
     \/ /\ CanTransitionRecall(recalls[r].status, recalls'[r].status)
        /\ recalls'[r].status = "INITIATED" =>
             /\ \A b \in recalls[r].batches : batches'[b].status = "RECALLED"
             /\ incidents'[recalls[r].incident].status \in {"RECALLING", "COMPENSATING"}
  /\ recalls'[r].disposed <= recalls'[r].affected

RecallAppears(r) ==
  /\ recalls'[r].incident \in DOMAIN incidents
  /\ recalls'[r].batches \subseteq incidents'[recalls'[r].incident].batches
  /\ incidents'[recalls'[r].incident].status \in {"CONFIRMED", "RECALLING", "COMPENSATING"}
  /\ recalls'[r].status = "DRAFT"
  /\ recalls'[r].disposed <= recalls'[r].affected

RecallsMove ==
  /\ DOMAIN recalls \subseteq DOMAIN recalls' /\ DOMAIN recalls' \subseteq RecallIds
  /\ \A r \in DOMAIN recalls' : recalls'[r] \in Recall
  /\ \A r \in DOMAIN recalls : RecallMoves(r)
  /\ \A r \in DOMAIN recalls' \ DOMAIN recalls : RecallAppears(r)

\* Dispositions refer to incidents and recalls that were there before the step.
DispositionsMove ==
  /\ DOMAIN dispositions' \subseteq DispositionIds
  /\ evidenced' \subseteq DOMAIN dispositions'
  /\ \A d \in DOMAIN dispositions' :
       /\ dispositions'[d] \in Disposition
       /\ dispositions'[d].incident \in DOMAIN incidents
       /\ dispositions'[d].recall # None =>
            /\ dispositions'[d].recall \in DOMAIN recalls
            /\ recalls[dispositions'[d].recall].incident = dispositions'[d].incident

\* What is out of trade, or recalled, stays so along the lifecycle of batches.
LEMMA WithdrawnBatchesMove ==
  ASSUME BatchesMove, NEW b \in DOMAIN batches
  PROVE  /\ b \in DOMAIN batches' /\ batches'[b].merchant = batches[b].merchant
         /\ batches[b].status \in OutOfTrade => batches'[b].status \in OutOfTrade
         /\ batches[b].status \in {"RECALLED", "DISPOSED"}
              => batches'[b].status \in {"RECALLED", "DISPOSED"}
<1>1. /\ b \in DOMAIN batches' /\ batches'[b].merchant = batches[b].merchant
      /\ \/ batches'[b].status = batches[b].status
         \/ CanTransitionBatch(batches[b].status, batches'[b].status)
  BY DEF BatchesMove
<1>2. CASE CanTransitionBatch(batches[b].status, batches'[b].status)
  BY <1>1, <1>2, BatchLifecycle DEF OutOfTrade, Withdrawn
<1> QED
  BY <1>1, <1>2

\* A confirmed incident is not dismissed, and one whose recall has been initiated
\* stays past its confirmation (CanTransitionIncident).
LEMMA IncidentLifecycle ==
  ASSUME NEW from, NEW to, CanTransitionIncident(from, to)
  PROVE  /\ to \in IncidentStatus
         /\ from \in {"CONFIRMED", "RECALLING", "COMPENSATING", "RESOLVED", "CLOSED"}
              => to \in {"RECALLING", "COMPENSATING", "RESOLVED", "CLOSED"}
BY DEF CanTransitionIncident, IncidentStatus

\* A recall that was completed or cancelled stays so, and one is in progress or
\* completed only after it was initiated (CanTransitionRecall).
LEMMA RecallLifecycle ==
  ASSUME NEW from, NEW to, CanTransitionRecall(from, to)
  PROVE  /\ to \in RecallStatus
         /\ from \notin {"COMPLETED", "CANCELLED"}
         /\ to \in {"IN_PROGRESS", "COMPLETED"} => from \in {"INITIATED", "IN_PROGRESS"}
BY DEF CanTransitionRecall, RecallStatus

\* Steps of these kinds keep the invariant.
LEMMA StepKeepsInv ==
  ASSUME ContainmentInv, ProductionInv', BatchesMove, IncidentsMove, RecallsMove, DispositionsMove
  PROVE  ContainmentInv'
<1> USE DEF ContainmentInv
<1>1. ASSUME NEW i \in DOMAIN incidents
      PROVE  /\ i \in DOMAIN incidents' /\ IncidentMoves(i) /\ incidents[i] \in Incident
             /\ \A b \in incidents[i].batches :
                  b \in DOMAIN batches /\ batches[b].merchant = incidents[i].merchant
  BY DEF IncidentsMove, ContainmentTypeOK
<1>2. ASSUME NEW r \in DOMAIN recalls
      PROVE  /\ r \in DOMAIN recalls' /\ RecallMoves(r) /\ recalls[r] \in Recall
             /\ recalls[r].incident \in DOMAIN incidents
             /\ recalls[r].batches \subseteq incidents[recalls[r].incident].batches
  BY DEF RecallsMove, ContainmentTypeOK
<1>3. ASSUME NEW r \in DOMAIN recalls'
      PROVE  /\ recalls'[r].incident \in DOMAIN incidents
             /\ recalls'[r].batches \subseteq incidents'[recalls'[r].incident].batches
             /\ r \notin DOMAIN recalls => RecallAppears(r)
  <2>1. CASE r \in DOMAIN recalls
    BY <1>1, <1>2, <2>1 DEF RecallMoves, IncidentMoves
  <2>2. CASE r \notin DOMAIN recalls
    BY <2>2 DEF RecallsMove, RecallAppears
  <2> QED
    BY <2>1, <2>2
<1>4. ContainmentTypeOK'
  <2>1. ProductionTypeOK'
    BY DEF ProductionInv
  <2>2. ASSUME NEW i \in DOMAIN incidents'
        PROVE  /\ incidents'[i] \in Incident
               /\ \A b \in incidents'[i].batches :
                    b \in DOMAIN batches' /\ batches'[b].merchant = incidents'[i].merchant
    <3>1. CASE i \in DOMAIN incidents
      BY <1>1, <3>1, WithdrawnBatchesMove DEF IncidentMoves, IncidentsMove
    <3>2. CASE i \notin DOMAIN incidents
      BY <3>2, WithdrawnBatchesMove DEF IncidentAppears, IncidentsMove
    <3> QED
      BY <3>1, <3>2
  <2>3. ASSUME NEW d \in DOMAIN dispositions', dispositions'[d].recall # None
        PROVE  /\ dispositions'[d].recall \in DOMAIN recalls'
               /\ recalls'[dispositions'[d].recall].incident = dispositions'[d].incident
    BY <1>2, <2>3 DEF DispositionsMove, RecallMoves
  <2> QED
    BY <1>3, <2>1, <2>2, <2>3 DEF ContainmentTypeOK, IncidentsMove, RecallsMove, DispositionsMove
<1>5. ASSUME NEW r \in DOMAIN recalls
      PROVE  /\ incidents'[recalls[r].incident].status
                  \in {"CONFIRMED", "RECALLING", "COMPENSATING", "RESOLVED", "CLOSED"}
             /\ incidents[recalls[r].incident].status
                  \in {"RECALLING", "COMPENSATING", "RESOLVED", "CLOSED"} =>
                incidents'[recalls[r].incident].status
                  \in {"RECALLING", "COMPENSATING", "RESOLVED", "CLOSED"}
  BY <1>1, <1>2, IncidentLifecycle DEF IncidentMoves, RecalledIncidentsWereConfirmed
<1>6. RecalledIncidentsWereConfirmed'
  <2> SUFFICES ASSUME NEW r \in DOMAIN recalls'
               PROVE  incidents'[recalls'[r].incident].status
                        \in {"CONFIRMED", "RECALLING", "COMPENSATING", "RESOLVED", "CLOSED"}
    BY DEF RecalledIncidentsWereConfirmed
  <2>1. CASE r \in DOMAIN recalls
    BY <1>2, <1>5, <2>1 DEF RecallMoves
  <2>2. CASE r \notin DOMAIN recalls
    BY <1>3, <2>2 DEF RecallAppears
  <2> QED
    BY <2>1, <2>2
<1>7. ContainedBatchesAreWithdrawn'
  <2> SUFFICES ASSUME NEW i \in DOMAIN incidents', incidents'[i].contained,
                      NEW b \in incidents'[i].batches
               PROVE  batches'[b].status \in OutOfTrade
    BY DEF ContainedBatchesAreWithdrawn
  <2>1. i \in DOMAIN incidents
    BY DEF IncidentsMove, IncidentAppears
  <2>2. b \in incidents[i].batches /\ b \in DOMAIN batches
    BY <1>1, <2>1 DEF IncidentMoves
  <2>3. CASE incidents[i].contained
    <3>1. batches[b].status \in OutOfTrade
      BY <2>1, <2>2, <2>3 DEF ContainedBatchesAreWithdrawn
    <3> QED
      BY <2>2, <3>1, WithdrawnBatchesMove
  <2> QED
    BY <1>1, <2>1, <2>2, <2>3 DEF IncidentMoves
<1>8. RecallReachesItsBatches'
  <2> SUFFICES ASSUME NEW r \in DOMAIN recalls',
                      recalls'[r].status \in {"INITIATED", "IN_PROGRESS", "COMPLETED"}
               PROVE  /\ \A b \in recalls'[r].batches :
                           batches'[b].status \in {"RECALLED", "DISPOSED"}
                      /\ incidents'[recalls'[r].incident].status
                           \in {"RECALLING", "COMPENSATING", "RESOLVED", "CLOSED"}
    BY DEF RecallReachesItsBatches
  <2>1. r \in DOMAIN recalls
    BY <1>3 DEF RecallAppears
  <2>2. recalls'[r].batches = recalls[r].batches /\ recalls'[r].incident = recalls[r].incident
    BY <1>2, <2>1 DEF RecallMoves
  <2>3. CASE recalls[r].status \in {"INITIATED", "IN_PROGRESS", "COMPLETED"}
    <3>1. /\ \A b \in recalls[r].batches : batches[b].status \in {"RECALLED", "DISPOSED"}
          /\ incidents[recalls[r].incident].status
               \in {"RECALLING", "COMPENSATING", "RESOLVED", "CLOSED"}
      BY <2>1, <2>3 DEF RecallReachesItsBatches
    <3>2. \A b \in recalls[r].batches : b \in DOMAIN batches
      BY <1>1, <1>2, <2>1
    <3> QED
      BY <1>5, <2>1, <2>2, <3>1, <3>2, WithdrawnBatchesMove
  <2>4. CASE recalls[r].status \notin {"INITIATED", "IN_PROGRESS", "COMPLETED"}
    <3>1. /\ CanTransitionRecall(recalls[r].status, recalls'[r].status)
          /\ recalls'[r].status = "INITIATED" =>
               /\ \A b \in recalls[r].batches : batches'[b].status = "RECALLED"
               /\ incidents'[recalls[r].incident].status \in {"RECALLING", "COMPENSATING"}
      BY <1>2, <2>1, <2>4 DEF RecallMoves
    <3>2. recalls'[r].status = "INITIATED"
      BY <2>4, <3>1, RecallLifecycle
    <3> QED
      BY <2>2, <3>1, <3>2
  <2> QED
    BY <2>3, <2>4
<1>9. ClosedIncidentsHaveNoActiveRecall'
  <2> SUFFICES ASSUME NEW r \in DOMAIN recalls',
                      incidents'[recalls'[r].incident].status = "CLOSED"
               PROVE  recalls'[r].status \in {"COMPLETED", "CANCELLED"}
    BY <1>6 DEF ClosedIncidentsHaveNoActiveRecall, RecalledIncidentsWereConfirmed
  <2>1. r \in DOMAIN recalls
    BY <1>3 DEF RecallAppears
  <2> DEFINE i == recalls[r].incident
  <2>2. i \in DOMAIN incidents /\ recalls'[r].incident = i
    BY <1>2, <2>1 DEF RecallMoves
  <2>3. recalls[r].status \in {"COMPLETED", "CANCELLED"}
    <3>1. CASE incidents[i].status = "CLOSED"
      BY <2>1, <3>1 DEF ClosedIncidentsHaveNoActiveRecall
    <3>2. CASE ~HasActiveRecall(RecallsOf(i))
      BY <2>1, <3>2 DEF HasActiveRecall, RecallsOf
    <3> QED
      BY <1>1, <2>2, <3>1, <3>2 DEF IncidentMoves
  <2> QED
    BY <1>2, <2>1, <2>3, RecallLifecycle DEF RecallMoves
<1>10. DisposedWithinAffected'
  <2> SUFFICES ASSUME NEW r \in DOMAIN recalls'
               PROVE  recalls'[r].disposed <= recalls'[r].affected
    BY DEF DisposedWithinAffected
  <2> QED
    BY <1>2, <1>3 DEF RecallMoves, RecallAppears
<1> QED
  BY <1>4, <1>6, <1>7, <1>8, <1>9, <1>10

-----------------------------------------------------------------------------
\* What a step leaves alone.

LEMMA SameBatches ==
  ASSUME ProductionInv, UNCHANGED productionVars
  PROVE  ProductionInv' /\ BatchesMove
BY ProductionStep

LEMMA SameIncidents ==
  ASSUME ContainmentInv, UNCHANGED incidents
  PROVE  IncidentsMove
BY DEF ContainmentInv, ContainmentTypeOK, IncidentsMove, IncidentMoves

LEMMA SameRecalls ==
  ASSUME ContainmentInv, UNCHANGED recalls
  PROVE  RecallsMove
BY DEF ContainmentInv, ContainmentTypeOK, DisposedWithinAffected, RecallsMove, RecallMoves

LEMMA SameDispositions ==
  ASSUME ContainmentInv, UNCHANGED <<dispositions, evidenced>>
  PROVE  DispositionsMove
BY DEF ContainmentInv, ContainmentTypeOK, DispositionsMove

\* A recall that is changed in place, or created, where the others stay.
LEMMA RecallStep ==
  ASSUME ContainmentInv, NEW r \in RecallIds, NEW row \in Recall,
         DOMAIN recalls' = DOMAIN recalls \cup {r}, recalls'[r] = row,
         \A s \in DOMAIN recalls : s # r => recalls'[s] = recalls[s],
         r \in DOMAIN recalls => RecallMoves(r),
         r \notin DOMAIN recalls => RecallAppears(r)
  PROVE  RecallsMove
<1>1. ASSUME NEW s \in DOMAIN recalls
      PROVE  s \in RecallIds /\ recalls[s] \in Recall /\ recalls[s].disposed <= recalls[s].affected
  BY DEF ContainmentInv, ContainmentTypeOK, DisposedWithinAffected
<1>2. ASSUME NEW s \in DOMAIN recalls PROVE RecallMoves(s)
  BY <1>1 DEF RecallMoves
<1> QED
  BY <1>1, <1>2 DEF RecallsMove

\* An incident that is changed in place, where the others stay.
LEMMA IncidentStep ==
  ASSUME ContainmentInv, NEW i \in DOMAIN incidents, NEW row \in Incident,
         incidents' = [incidents EXCEPT ![i] = row], IncidentMoves(i)
  PROVE  IncidentsMove
<1>1. ASSUME NEW j \in DOMAIN incidents PROVE j \in IncidentIds /\ incidents[j] \in Incident
  BY DEF ContainmentInv, ContainmentTypeOK
<1>2. ASSUME NEW j \in DOMAIN incidents PROVE IncidentMoves(j)
  BY DEF IncidentMoves
<1> QED
  BY <1>1, <1>2 DEF IncidentsMove

-----------------------------------------------------------------------------
\* Incidents.

LEMMA CreateIncidentKeepsInv ==
  ASSUME ContainmentInv, NEW i \in IncidentIds, NEW m \in Merchants, NEW bs \in SUBSET BatchIds,
         NEW os \in SUBSET Orders, CreateIncident(i, m, bs, os)
  PROVE  ContainmentInv' /\ BatchesMove
<1> DEFINE row == [merchant |-> m, status |-> "REPORTED", batches |-> bs, orders |-> os,
                   contained |-> FALSE]
<1>1. /\ i \notin DOMAIN incidents /\ incidents' = Put(incidents, i, row)
      /\ \A b \in bs : b \in DOMAIN batches /\ batches[b].merchant = m
      /\ UNCHANGED <<productionVars, recalls, dispositions, evidenced>>
  BY DEF CreateIncident
<1>2. /\ row \in Incident /\ ~row.contained /\ row.batches = bs /\ row.merchant = m
  BY DEF Incident, IncidentStatus
<1> HIDE DEF row
<1>3. /\ DOMAIN incidents' = DOMAIN incidents \cup {i} /\ incidents'[i] = row
      /\ \A j \in DOMAIN incidents : incidents'[j] = incidents[j]
  BY <1>1 DEF Put
<1>4. IncidentAppears(i)
  BY <1>1, <1>2, <1>3 DEF IncidentAppears
<1>5. \A j \in DOMAIN incidents : j \in IncidentIds /\ incidents[j] \in Incident /\ IncidentMoves(j)
  BY <1>3 DEF ContainmentInv, ContainmentTypeOK, IncidentMoves
<1>6. IncidentsMove
  BY <1>2, <1>3, <1>4, <1>5 DEF IncidentsMove
<1>7. ProductionInv' /\ BatchesMove
  BY <1>1, SameBatches DEF ContainmentInv
<1> QED
  BY <1>1, <1>6, <1>7, SameRecalls, SameDispositions, StepKeepsInv

\* Quarantining a batch is a step of its lifecycle (quarantineBatchLocked).
LEMMA QuarantinedFacts ==
  ASSUME ContainmentInv, NEW bs, \A b \in bs : b \in DOMAIN batches /\ CanQuarantine(b),
         batches' = Quarantined(bs), UNCHANGED <<now, qualifications, orderBatch>>
  PROVE  /\ ProductionInv' /\ BatchesMove
         /\ \A b \in bs : batches'[b].status \in OutOfTrade
<1>1. ASSUME NEW b \in DOMAIN batches
      PROVE  batches[b] \in FoodBatch
  BY DEF ContainmentInv, ProductionInv, ProductionTypeOK
<1>2. ASSUME NEW b \in DOMAIN batches
      PROVE  /\ \/ batches'[b] = batches[b]
                \/ \E status \in FoodBatchStatus :
                     /\ CanTransitionBatch(batches[b].status, status)
                     /\ MayBecome(batches[b], status)
                     /\ batches'[b] = [batches[b] EXCEPT !.status = status]
             /\ b \in bs => batches'[b].status \in OutOfTrade
  <2> DEFINE row == [batches[b] EXCEPT !.status = "QUARANTINED"]
  <2>1. "QUARANTINED" \in FoodBatchStatus
    BY DEF FoodBatchStatus
  <2>2. row.status = "QUARANTINED"
    BY <1>1, <2>1, BatchWithStatus
  <2>3. CASE b \in bs /\ batches[b].status \notin OutOfTrade
    <3>1. batches'[b] = row
      BY <2>3 DEF Quarantined
    <3>2. CanTransitionBatch(batches[b].status, "QUARANTINED")
      BY <2>3 DEF CanQuarantine
    <3>3. MayBecome(batches[b], "QUARANTINED")
      BY DEF MayBecome
    <3>4. batches'[b].status \in OutOfTrade
      BY <2>2, <3>1 DEF OutOfTrade
    <3> QED
      BY <2>1, <3>1, <3>2, <3>3, <3>4
  <2>4. CASE ~(b \in bs /\ batches[b].status \notin OutOfTrade)
    <3>1. batches'[b] = batches[b]
      BY <2>4 DEF Quarantined
    <3> QED
      BY <2>4, <3>1
  <2> QED
    BY <2>3, <2>4
<1>3. DOMAIN batches' = DOMAIN batches
  BY DEF Quarantined
<1>4. ProductionInv' /\ BatchesMove
  BY <1>2, <1>3, StatusStep DEF ContainmentInv
<1> QED
  BY <1>2, <1>4

LEMMA TransitionIncidentKeepsInv ==
  ASSUME ContainmentInv, NEW i \in IncidentIds, NEW target \in IncidentStatus,
         TransitionIncident(i, target)
  PROVE  ContainmentInv' /\ BatchesMove
<1> DEFINE row == [incidents[i] EXCEPT !.status = target,
                                       !.contained = @ \/ target = "CONTAINED"]
<1>1. /\ i \in DOMAIN incidents /\ CanTransitionIncident(incidents[i].status, target)
      /\ target = "CLOSED" => ~HasActiveRecall(RecallsOf(i))
      /\ UNCHANGED <<now, qualifications, orderBatch, recalls, dispositions, evidenced>>
  BY DEF TransitionIncident
<1>2. /\ incidents[i] \in Incident
      /\ \A b \in incidents[i].batches : b \in DOMAIN batches
  BY <1>1 DEF ContainmentInv, ContainmentTypeOK
<1>3. incidents' = [incidents EXCEPT ![i] = row]
  BY <1>1 DEF TransitionIncident
<1>4. /\ row \in Incident /\ row.status = target
      /\ row.merchant = incidents[i].merchant /\ row.batches = incidents[i].batches
      /\ row.contained => incidents[i].contained \/ target = "CONTAINED"
  BY <1>2 DEF Incident
<1> HIDE DEF row
<1>5. /\ ProductionInv' /\ BatchesMove
      /\ target = "CONTAINED" => \A b \in incidents[i].batches : batches'[b].status \in OutOfTrade
  <2>1. CASE target = "CONTAINED"
    <3>1. /\ \A b \in incidents[i].batches : CanQuarantine(b)
          /\ batches' = Quarantined(incidents[i].batches)
      BY <2>1 DEF TransitionIncident
    <3> QED
      BY <1>1, <1>2, <3>1, QuarantinedFacts
  <2>2. CASE target # "CONTAINED"
    <3>1. UNCHANGED productionVars
      BY <1>1, <2>2 DEF TransitionIncident, productionVars
    <3> QED
      BY <2>2, <3>1, SameBatches DEF ContainmentInv
  <2> QED
    BY <2>1, <2>2
<1>6. incidents'[i] = row
  BY <1>1, <1>3
<1>7. IncidentMoves(i)
  BY <1>1, <1>4, <1>5, <1>6 DEF IncidentMoves
<1>8. IncidentsMove
  BY <1>1, <1>3, <1>4, <1>7, IncidentStep
<1> QED
  BY <1>1, <1>5, <1>8, SameRecalls, SameDispositions, StepKeepsInv

-----------------------------------------------------------------------------
\* Recalls.

LEMMA CreateRecallKeepsInv ==
  ASSUME ContainmentInv, NEW r \in RecallIds, NEW i \in IncidentIds, NEW bs \in SUBSET BatchIds,
         NEW os \in SUBSET Orders, NEW affected \in Quantities,
         CreateRecall(r, i, bs, os, affected)
  PROVE  ContainmentInv' /\ BatchesMove
<1> DEFINE row == [incident |-> i, status |-> "DRAFT", batches |-> bs, orders |-> os,
                   affected |-> affected, recovered |-> 0, disposed |-> 0]
<1>1. /\ r \notin DOMAIN recalls /\ i \in DOMAIN incidents /\ Confirmed(i)
      /\ bs \subseteq incidents[i].batches /\ recalls' = Put(recalls, r, row)
      /\ UNCHANGED <<productionVars, incidents, dispositions, evidenced>>
  BY DEF CreateRecall
<1>2. affected \in Nat /\ 0 <= affected
  BY QuantitiesAssumption
<1>3. /\ row \in Recall /\ row.incident = i /\ row.batches = bs /\ row.status = "DRAFT"
      /\ row.disposed <= row.affected
  BY <1>2 DEF Recall, RecallStatus
<1> HIDE DEF row
<1>4. /\ DOMAIN recalls' = DOMAIN recalls \cup {r} /\ recalls'[r] = row
      /\ \A s \in DOMAIN recalls : s # r => recalls'[s] = recalls[s]
  BY <1>1 DEF Put
<1>5. RecallAppears(r)
  BY <1>1, <1>3, <1>4 DEF RecallAppears, Confirmed
<1>6. RecallsMove
  BY <1>1, <1>3, <1>4, <1>5, RecallStep
<1>7. ProductionInv' /\ BatchesMove
  BY <1>1, SameBatches DEF ContainmentInv
<1> QED
  BY <1>1, <1>6, <1>7, SameIncidents, SameDispositions, StepKeepsInv

\* Initiating a recall withdraws its batches and moves its incident on.
LEMMA InitiateRecallKeepsInv ==
  ASSUME ContainmentInv, NEW r \in RecallIds, InitiateRecall(r)
  PROVE  ContainmentInv' /\ BatchesMove
<1> DEFINE i == recalls[r].incident
           bs == recalls[r].batches
           row == [recalls[r] EXCEPT !.status = "INITIATED"]
           irow == [incidents[i] EXCEPT !.status = IF @ = "CONFIRMED" THEN "RECALLING" ELSE @]
<1>1. /\ r \in DOMAIN recalls /\ Confirmed(i)
      /\ CanTransitionRecall(recalls[r].status, "INITIATED")
      /\ \A b \in bs : CanMarkRecalled(b)
      /\ batches' = [b \in DOMAIN batches |->
           IF b \in bs THEN [batches[b] EXCEPT !.status = "RECALLED"] ELSE batches[b]]
      /\ incidents' = [incidents EXCEPT ![i] = irow]
      /\ recalls' = [recalls EXCEPT ![r] = row]
      /\ UNCHANGED <<now, qualifications, orderBatch, dispositions, evidenced>>
  BY DEF InitiateRecall
<1>2. /\ recalls[r] \in Recall /\ i \in DOMAIN incidents /\ incidents[i] \in Incident
      /\ \A b \in bs : b \in DOMAIN batches
      /\ recalls[r].disposed <= recalls[r].affected
  BY <1>1 DEF ContainmentInv, ContainmentTypeOK, DisposedWithinAffected
<1>3. ASSUME NEW b \in DOMAIN batches
      PROVE  /\ \/ batches'[b] = batches[b]
                \/ \E status \in FoodBatchStatus :
                     /\ CanTransitionBatch(batches[b].status, status)
                     /\ MayBecome(batches[b], status)
                     /\ batches'[b] = [batches[b] EXCEPT !.status = status]
             /\ b \in bs => batches'[b].status = "RECALLED"
  <2> DEFINE brow == [batches[b] EXCEPT !.status = "RECALLED"]
  <2>1. "RECALLED" \in FoodBatchStatus /\ MayBecome(batches[b], "RECALLED")
    BY DEF FoodBatchStatus, MayBecome
  <2>2. batches[b] \in FoodBatch
    BY DEF ContainmentInv, ProductionInv, ProductionTypeOK
  <2>3. brow.status = "RECALLED" /\ (batches[b].status = "RECALLED" => brow = batches[b])
    BY <2>1, <2>2 DEF FoodBatch
  <2>4. batches'[b] = IF b \in bs THEN brow ELSE batches[b]
    BY <1>1
  <2>5. b \in bs => batches[b].status = "RECALLED"
                    \/ CanTransitionBatch(batches[b].status, "RECALLED")
    BY <1>1 DEF CanMarkRecalled
  <2> QED
    BY <2>1, <2>3, <2>4, <2>5
<1>4. DOMAIN batches' = DOMAIN batches
  BY <1>1
<1>5. ProductionInv' /\ BatchesMove
  BY <1>1, <1>3, <1>4, StatusStep DEF ContainmentInv
<1>6. /\ irow \in Incident /\ irow.merchant = incidents[i].merchant
      /\ irow.batches = incidents[i].batches /\ irow.contained = incidents[i].contained
      /\ irow.status = IF incidents[i].status = "CONFIRMED" THEN "RECALLING" ELSE incidents[i].status
  BY <1>2 DEF Incident, IncidentStatus
<1>7. /\ row \in Recall /\ row.incident = i /\ row.batches = bs /\ row.status = "INITIATED"
      /\ row.disposed = recalls[r].disposed /\ row.affected = recalls[r].affected
  BY <1>2 DEF Recall, RecallStatus
<1> HIDE DEF row, irow
<1>8. /\ irow.status \in {"RECALLING", "COMPENSATING"}
      /\ irow.status = incidents[i].status \/ CanTransitionIncident(incidents[i].status, irow.status)
  BY <1>1, <1>6 DEF Confirmed, CanTransitionIncident
<1>9. incidents'[i] = irow /\ recalls'[r] = row /\ DOMAIN recalls' = DOMAIN recalls
  BY <1>1, <1>2
<1>10. IncidentMoves(i)
  BY <1>6, <1>8, <1>9 DEF IncidentMoves
<1>11. IncidentsMove
  BY <1>1, <1>2, <1>6, <1>10, IncidentStep
<1>12. RecallMoves(r)
  BY <1>1, <1>2, <1>3, <1>7, <1>8, <1>9 DEF RecallMoves
<1>13. RecallsMove
  BY <1>1, <1>7, <1>9, <1>12, RecallStep
<1> QED
  BY <1>1, <1>5, <1>11, <1>13, SameDispositions, StepKeepsInv

\* A recall changed in place by a call that touches nothing else.
LEMMA RecallAlone ==
  ASSUME ContainmentInv, NEW r \in DOMAIN recalls, NEW row \in Recall,
         recalls' = [recalls EXCEPT ![r] = row],
         row.incident = recalls[r].incident, row.batches = recalls[r].batches,
         row.disposed <= row.affected,
         row.status = recalls[r].status
           \/ (CanTransitionRecall(recalls[r].status, row.status) /\ row.status # "INITIATED"),
         UNCHANGED <<productionVars, incidents>>, DispositionsMove
  PROVE  ContainmentInv' /\ BatchesMove
<1>1. r \in RecallIds
  BY DEF ContainmentInv, ContainmentTypeOK
<1>2. RecallMoves(r)
  BY DEF RecallMoves
<1>3. RecallsMove
  BY <1>1, <1>2, RecallStep
<1>4. ProductionInv' /\ BatchesMove
  BY SameBatches DEF ContainmentInv
<1> QED
  BY <1>3, <1>4, SameIncidents, StepKeepsInv

LEMMA CompleteRecallKeepsInv ==
  ASSUME ContainmentInv, NEW r \in RecallIds, NEW recovered \in Quantities \cup {0},
         NEW disposed \in Quantities \cup {0}, CompleteRecall(r, recovered, disposed)
  PROVE  ContainmentInv' /\ BatchesMove
<1> DEFINE row == [recalls[r] EXCEPT !.status = "COMPLETED", !.recovered = recovered,
                                     !.disposed = disposed]
<1>1. /\ r \in DOMAIN recalls /\ CanTransitionRecall(recalls[r].status, "COMPLETED")
      /\ recovered + disposed <= recalls[r].affected
      /\ recalls' = [recalls EXCEPT ![r] = row]
      /\ UNCHANGED <<productionVars, incidents, dispositions, evidenced>>
  BY DEF CompleteRecall
<1>2. recalls[r] \in Recall
  BY <1>1 DEF ContainmentInv, ContainmentTypeOK
<1>3. recovered \in Nat /\ disposed \in Nat
  BY QuantitiesAssumption
<1>4. /\ row \in Recall /\ row.incident = recalls[r].incident /\ row.batches = recalls[r].batches
      /\ row.status = "COMPLETED" /\ row.disposed = disposed /\ row.affected = recalls[r].affected
  BY <1>2, <1>3 DEF Recall, RecallStatus
<1>5. disposed <= recalls[r].affected
  <2>1. recalls[r].affected \in Nat
    BY <1>2, QuantitiesAssumption DEF Recall
  <2> QED
    BY <1>1, <1>3, <2>1
<1> HIDE DEF row
<1>6. DispositionsMove
  BY <1>1, SameDispositions
<1> QED
  BY <1>1, <1>4, <1>5, <1>6, RecallAlone

LEMMA MoveRecallKeepsInv ==
  ASSUME ContainmentInv, NEW r \in RecallIds, NEW target \in RecallStatus, MoveRecall(r, target)
  PROVE  ContainmentInv' /\ BatchesMove
<1> DEFINE row == [recalls[r] EXCEPT !.status = target]
<1>1. /\ r \in DOMAIN recalls /\ CanTransitionRecall(recalls[r].status, target)
      /\ target # "INITIATED" /\ recalls' = [recalls EXCEPT ![r] = row]
      /\ UNCHANGED <<productionVars, incidents, dispositions, evidenced>>
  BY DEF MoveRecall
<1>2. recalls[r] \in Recall /\ recalls[r].disposed <= recalls[r].affected
  BY <1>1 DEF ContainmentInv, ContainmentTypeOK, DisposedWithinAffected
<1>3. /\ row \in Recall /\ row.incident = recalls[r].incident /\ row.batches = recalls[r].batches
      /\ row.status = target /\ row.disposed <= row.affected
  BY <1>2 DEF Recall
<1> HIDE DEF row
<1>4. DispositionsMove
  BY <1>1, SameDispositions
<1> QED
  BY <1>1, <1>3, <1>4, RecallAlone

-----------------------------------------------------------------------------
\* Dispositions.

LEMMA CreateDispositionKeepsInv ==
  ASSUME ContainmentInv, NEW d \in DispositionIds, NEW disposition \in Disposition,
         CreateDisposition(d, disposition)
  PROVE  ContainmentInv' /\ BatchesMove
<1>1. /\ d \notin DOMAIN dispositions /\ disposition.incident \in DOMAIN incidents
      /\ disposition.recall # None =>
           /\ disposition.recall \in DOMAIN recalls
           /\ recalls[disposition.recall].incident = disposition.incident
      /\ dispositions' = Put(dispositions, d, disposition)
      /\ UNCHANGED <<productionVars, incidents, recalls, evidenced>>
  BY DEF CreateDisposition
<1>2. /\ DOMAIN dispositions' = DOMAIN dispositions \cup {d} /\ dispositions'[d] = disposition
      /\ \A e \in DOMAIN dispositions : dispositions'[e] = dispositions[e]
  BY <1>1 DEF Put
<1>3. DispositionsMove
  BY <1>1, <1>2 DEF ContainmentInv, ContainmentTypeOK, DispositionsMove
<1>4. ProductionInv' /\ BatchesMove
  BY <1>1, SameBatches DEF ContainmentInv
<1> QED
  BY <1>1, <1>3, <1>4, SameIncidents, SameRecalls, StepKeepsInv

LEMMA AddEvidenceKeepsInv ==
  ASSUME ContainmentInv, NEW d \in DispositionIds, AddEvidence(d)
  PROVE  ContainmentInv' /\ BatchesMove
<1>1. /\ d \in DOMAIN dispositions /\ evidenced' = evidenced \cup {d}
      /\ UNCHANGED <<productionVars, incidents, recalls, dispositions>>
  BY DEF AddEvidence
<1>2. DispositionsMove
  BY <1>1 DEF ContainmentInv, ContainmentTypeOK, DispositionsMove
<1>3. ProductionInv' /\ BatchesMove
  BY <1>1, SameBatches DEF ContainmentInv
<1> QED
  BY <1>1, <1>2, <1>3, SameIncidents, SameRecalls, StepKeepsInv

\* Completing the destruction of goods adds to its recall what it still affects.
LEMMA TransitionDispositionKeepsInv ==
  ASSUME ContainmentInv, NEW d \in DispositionIds, NEW target \in DispositionStatus,
         TransitionDisposition(d, target)
  PROVE  ContainmentInv' /\ BatchesMove
<1> DEFINE r == dispositions[d].recall
           quantity == dispositions[d].quantity
           drow == [dispositions[d] EXCEPT !.status = target]
           row == [recalls[r] EXCEPT !.disposed = @ + quantity]
           destroys == r # None /\ dispositions[d].type = "DESTROY" /\ target = "COMPLETED"
<1>1. /\ d \in DOMAIN dispositions /\ dispositions' = [dispositions EXCEPT ![d] = drow]
      /\ destroys => MayDestroy(r, quantity) /\ recalls' = [recalls EXCEPT ![r] = row]
      /\ ~destroys => recalls' = recalls
      /\ UNCHANGED <<productionVars, incidents, evidenced>>
  BY DEF TransitionDisposition
<1>2. /\ dispositions[d] \in Disposition /\ dispositions[d].incident \in DOMAIN incidents
      /\ r # None => r \in DOMAIN recalls /\ recalls[r].incident = dispositions[d].incident
  BY <1>1 DEF ContainmentInv, ContainmentTypeOK
<1>3. /\ drow \in Disposition /\ drow.incident = dispositions[d].incident /\ drow.recall = r
      /\ quantity \in Nat
  BY <1>2, QuantitiesAssumption DEF Disposition
<1>4. destroys => /\ row \in Recall /\ row.incident = recalls[r].incident
                  /\ row.batches = recalls[r].batches /\ row.status = recalls[r].status
                  /\ row.disposed <= row.affected
  <2> SUFFICES ASSUME destroys
               PROVE  /\ row \in Recall /\ row.incident = recalls[r].incident
                      /\ row.batches = recalls[r].batches /\ row.status = recalls[r].status
                      /\ row.disposed <= row.affected
    OBVIOUS
  <2>1. recalls[r] \in Recall
    BY <1>2 DEF ContainmentInv, ContainmentTypeOK
  <2>2. recalls[r].disposed + quantity <= recalls[r].affected
    BY <1>1 DEF MayDestroy
  <2> QED
    BY <1>3, <2>1, <2>2 DEF Recall
<1> HIDE DEF drow, row
<1>5. DispositionsMove
  <2>1. \A e \in DOMAIN dispositions :
          dispositions'[e] = IF e = d THEN drow ELSE dispositions[e]
    BY <1>1
  <2>2. DOMAIN dispositions' = DOMAIN dispositions
    BY <1>1
  <2> QED
    BY <1>1, <1>2, <1>3, <2>1, <2>2 DEF ContainmentInv, ContainmentTypeOK, DispositionsMove
<1>6. CASE destroys
  BY <1>1, <1>2, <1>4, <1>5, <1>6, RecallAlone
<1>7. CASE ~destroys
  <2>1. ProductionInv' /\ BatchesMove
    BY <1>1, SameBatches DEF ContainmentInv
  <2> QED
    BY <1>1, <1>5, <1>7, <2>1, SameIncidents, SameRecalls, StepKeepsInv
<1> QED
  BY <1>6, <1>7

-----------------------------------------------------------------------------
\* Every operation keeps the invariant, and moves batches along their lifecycle
\* alone.
LEMMA ContainmentStep ==
  ContainmentInv /\ [ContainmentNext]_containmentVars => ContainmentInv' /\ BatchesMove
<1> SUFFICES ASSUME ContainmentInv, [ContainmentNext]_containmentVars
             PROVE  ContainmentInv' /\ BatchesMove
  OBVIOUS
<1>1. CASE [ProductionNext]_productionVars /\ UNCHANGED withdrawalVars
  <2>1. ProductionInv' /\ BatchesMove
    BY <1>1, ProductionStep DEF ContainmentInv
  <2> QED
    BY <1>1, <2>1, SameIncidents, SameRecalls, SameDispositions, StepKeepsInv DEF withdrawalVars
<1>2. CASE UNCHANGED containmentVars
  BY <1>1, <1>2 DEF containmentVars
<1>3. CASE ProductionNext /\ UNCHANGED withdrawalVars
  BY <1>1, <1>3
<1> QED
  BY <1>2, <1>3, CreateIncidentKeepsInv, TransitionIncidentKeepsInv, CreateRecallKeepsInv,
     InitiateRecallKeepsInv, CompleteRecallKeepsInv, MoveRecallKeepsInv,
     CreateDispositionKeepsInv, AddEvidenceKeepsInv, TransitionDispositionKeepsInv
     DEF ContainmentNext

\* An empty service satisfies the invariant.
LEMMA InitContainmentInv == ContainmentInit => ContainmentInv
<1> SUFFICES ASSUME ContainmentInit PROVE ContainmentInv
  OBVIOUS
<1>1. ProductionInv
  BY InitProductionInv DEF ContainmentInit
<1>2. /\ DOMAIN incidents = {} /\ DOMAIN recalls = {} /\ DOMAIN dispositions = {}
      /\ evidenced = {}
  BY DEF ContainmentInit, EmptyMap
<1> QED
  BY <1>1, <1>2 DEF ContainmentInv, ContainmentTypeOK, ProductionInv,
     RecalledIncidentsWereConfirmed, ContainedBatchesAreWithdrawn, RecallReachesItsBatches,
     ClosedIncidentsHaveNoActiveRecall, DisposedWithinAffected

\* The inductive invariant holds in every reachable state.
THEOREM ContainmentInvariance == ContainmentSpec => []ContainmentInv
BY InitContainmentInv, ContainmentStep, PTL DEF ContainmentSpec

\* Every record is well formed and refers to records that exist.
THEOREM ContainmentTypeCorrect == ContainmentSpec => []ContainmentTypeOK
<1>1. ContainmentInv => ContainmentTypeOK
  BY DEF ContainmentInv
<1> QED
  BY <1>1, ContainmentInvariance, PTL

\* The batches of a contained incident are out of trade for good
\* (TransitionIncident, quarantineBatchLocked, TransitionBatch).
THEOREM ContainmentLasts == ContainmentSpec => []ContainedBatchesAreWithdrawn
<1>1. ContainmentInv => ContainedBatchesAreWithdrawn
  BY DEF ContainmentInv
<1> QED
  BY <1>1, ContainmentInvariance, PTL

\* Every batch of an initiated recall is recalled or disposed of, and its incident
\* has moved on (TransitionRecall).
THEOREM RecallsReach == ContainmentSpec => []RecallReachesItsBatches
<1>1. ContainmentInv => RecallReachesItsBatches
  BY DEF ContainmentInv
<1> QED
  BY <1>1, ContainmentInvariance, PTL

\* No incident is closed, or dismissed, over a recall that is still under way
\* (hasActiveRecallLocked, CreateRecall).
THEOREM NoRecallIsAbandoned == ContainmentSpec => []ClosedIncidentsHaveNoActiveRecall
<1>1. ContainmentInv => ClosedIncidentsHaveNoActiveRecall
  BY DEF ContainmentInv
<1> QED
  BY <1>1, ContainmentInvariance, PTL

\* Destroyed goods never exceed what a recall affects (TransitionDisposition,
\* TransitionRecall).
THEOREM DestructionIsBounded == ContainmentSpec => []DisposedWithinAffected
<1>1. ContainmentInv => DisposedWithinAffected
  BY DEF ContainmentInv
<1> QED
  BY <1>1, ContainmentInvariance, PTL

\* What was handed over was produced, and batches stand on examined merchants,
\* also where incidents and recalls move batches.
THEOREM ContainmentKeepsProduction ==
  ContainmentSpec => [](BatchesOfExaminedMerchants /\ OrderIndexAgrees /\ HandedOverWasProduced)
<1>1. ContainmentInv => BatchesOfExaminedMerchants /\ OrderIndexAgrees /\ HandedOverWasProduced
  BY DEF ContainmentInv, ProductionInv
<1> QED
  BY <1>1, ContainmentInvariance, PTL

\* Incidents and recalls move batches only along their lifecycle and change
\* nothing else of them (quarantineBatchLocked, markBatchRecalledLocked).
THEOREM WithdrawalIsLifecycle == ContainmentSpec => WithdrawalFollowsBatchLifecycle
<1>1. BatchesMove =>
        \A b \in DOMAIN batches :
          batches'[b].status # batches[b].status =>
            /\ CanTransitionBatch(batches[b].status, batches'[b].status)
            /\ batches'[b] = [batches[b] EXCEPT !.status = batches'[b].status]
  BY DEF BatchesMove
<1> QED
  BY <1>1, ContainmentStep, ContainmentInvariance, PTL
     DEF ContainmentSpec, WithdrawalFollowsBatchLifecycle
=============================================================================
