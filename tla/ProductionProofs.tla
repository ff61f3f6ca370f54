-------------------------- MODULE ProductionProofs --------------------------
(***************************************************************************)
(* Proofs about Production, for any merchants, qualifications, batches and *)
(* orders, any plans and any length of time.                               *)
(*                                                                         *)
(* That no batch is promised beyond its plan rests on what the sum of a    *)
(* finite set of quantities is.  The first section proves that from the    *)
(* library's fold: a counterexample would be a smallest set that is one.   *)
(***************************************************************************)
EXTENDS Production, FiniteSetTheorems, TLAPS

\* What was submitted is complete and what was approved passed its inspection.
QualificationsExamined ==
  \A q \in DOMAIN qualifications :
    /\ qualifications[q].status \in {"PENDING_REVIEW", "APPROVED"} => qualifications[q].complete
    /\ qualifications[q].status = "APPROVED" => qualifications[q].inspection = "PASSED"

ProductionInv ==
  /\ ProductionTypeOK /\ QualificationsExamined /\ BatchesOfExaminedMerchants
  /\ OrderIndexAgrees /\ PlansAreKept /\ HandedOverWasProduced

-----------------------------------------------------------------------------
\* Sums of quantities.

\* The element a fold takes first.
Chosen(s) == CHOOSE x \in s : TRUE

\* g sums up f over every subset of S.
SumsUp(f, S, g) ==
  g = [s \in SUBSET S |-> IF s = {} THEN 0 ELSE f[Chosen(s)] + g[s \ {Chosen(s)}]]

Total(f, S) == (CHOOSE g : SumsUp(f, S, g))[S]

\* Ordered is such a sum.
LEMMA OrderedIsTotal == ASSUME NEW orders PROVE Ordered(orders) = Total(orders, DOMAIN orders)
BY Zenon DEF Ordered, MapThenSumSet, MapThenFoldSet, Total, SumsUp, Chosen

\* Among subsets of a finite set there is a smallest one.
LEMMA SmallestSubset ==
  ASSUME NEW S, IsFiniteSet(S), NEW F \in SUBSET SUBSET S, F # {}
  PROVE  \E T \in F : \A U \in SUBSET T : U # T => U \notin F
<1>1. IsWellFoundedOn(StrictSubsetOrdering(S), SUBSET S)
  BY FS_StrictSubsetOrderingWellFounded, FS_FiniteSubsetsOfFinite
<1>2. PICK T \in F : \A U \in F : ~(<<U, T>> \in StrictSubsetOrdering(S))
  BY <1>1, WFMin
<1>3. ASSUME NEW U \in SUBSET T, U # T, U \in F PROVE FALSE
  <2>1. <<U, T>> \in StrictSubsetOrdering(S)
    BY <1>3 DEF StrictSubsetOrdering
  <2> QED
    BY <1>2, <1>3, <2>1
<1> QED
  BY <1>3

\* What is chosen from a set is in it.
LEMMA ChosenIn == ASSUME NEW s, s # {} PROVE Chosen(s) \in s
BY DEF Chosen

\* A sum is determined.
LEMMA SumsAgree ==
  ASSUME NEW f, NEW S, IsFiniteSet(S), NEW g, NEW h, SumsUp(f, S, g), SumsUp(f, S, h)
  PROVE  g = h
<1> DEFINE F == {s \in SUBSET S : g[s] # h[s]}
<1>1. ASSUME F # {} PROVE FALSE
  <2>1. PICK T \in F : \A U \in SUBSET T : U # T => U \notin F
    <3>1. F \in SUBSET SUBSET S
      OBVIOUS
    <3> HIDE DEF F
    <3> QED
      BY <1>1, <3>1, SmallestSubset
  <2>2. /\ g[T] = IF T = {} THEN 0 ELSE f[Chosen(T)] + g[T \ {Chosen(T)}]
        /\ h[T] = IF T = {} THEN 0 ELSE f[Chosen(T)] + h[T \ {Chosen(T)}]
    BY DEF SumsUp
  <2>3. T # {} => g[T \ {Chosen(T)}] = h[T \ {Chosen(T)}]
    BY <2>1, ChosenIn
  <2> QED
    BY <2>2, <2>3
<1>2. \A s \in SUBSET S : g[s] = h[s]
  BY <1>1
<1>3. /\ g = [s \in SUBSET S |-> g[s]]
      /\ h = [s \in SUBSET S |-> h[s]]
  BY DEF SumsUp
<1> QED
  BY <1>2, <1>3

\* A sum over a set contains the sums over its subsets.
LEMMA SumsBelow ==
  ASSUME NEW f, NEW S, NEW g, SumsUp(f, S, g), NEW T \in SUBSET S
  PROVE  SumsUp(f, T, [s \in SUBSET T |-> g[s]])
<1> DEFINE below == [s \in SUBSET T |-> g[s]]
<1>1. ASSUME NEW s \in SUBSET T
      PROVE  below[s] = IF s = {} THEN 0 ELSE f[Chosen(s)] + below[s \ {Chosen(s)}]
  <2>1. g[s] = IF s = {} THEN 0 ELSE f[Chosen(s)] + g[s \ {Chosen(s)}]
    BY DEF SumsUp
  <2> QED
    BY <2>1
<1>2. below = [s \in SUBSET T |-> below[s]]
  OBVIOUS
<1> HIDE DEF below
<1>3. SumsUp(f, T, below)
  BY <1>1, <1>2 DEF SumsUp
<1> QED
  BY <1>3 DEF below

\* How a total is computed, where a sum exists.
LEMMA TotalIfSums ==
  ASSUME NEW f, NEW S, IsFiniteSet(S), NEW g, SumsUp(f, S, g)
  PROVE  Total(f, S) = IF S = {} THEN 0 ELSE f[Chosen(S)] + Total(f, S \ {Chosen(S)})
<1>1. Total(f, S) = g[S]
  BY SumsAgree DEF Total
<1>2. ASSUME S # {} PROVE Total(f, S \ {Chosen(S)}) = g[S \ {Chosen(S)}]
  <2> DEFINE T == S \ {Chosen(S)}
             below == [s \in SUBSET T |-> g[s]]
  <2>1. IsFiniteSet(T)
    BY FS_Subset
  <2>2. SumsUp(f, T, below)
    BY SumsBelow
  <2>3. below[T] = g[T]
    OBVIOUS
  <2> HIDE DEF below, T
  <2>4. Total(f, T) = below[T]
    BY <2>1, <2>2, SumsAgree DEF Total
  <2> QED
    BY <2>3, <2>4 DEF T
<1> QED
  BY <1>1, <1>2 DEF SumsUp

\* Over a finite set a sum exists.
LEMMA SumExists ==
  ASSUME NEW f, NEW S, IsFiniteSet(S)
  PROVE  \E g : SumsUp(f, S, g)
<1> DEFINE F == {T \in SUBSET S : ~\E g : SumsUp(f, T, g)}
<1>1. ASSUME F # {} PROVE FALSE
  <2>1. PICK T \in F : \A U \in SUBSET T : U # T => U \notin F
    <3>1. F \in SUBSET SUBSET S
      OBVIOUS
    <3> HIDE DEF F
    <3> QED
      BY <1>1, <3>1, SmallestSubset
  <2>2. ASSUME NEW U \in SUBSET T, U # T
        PROVE  Total(f, U) = IF U = {} THEN 0 ELSE f[Chosen(U)] + Total(f, U \ {Chosen(U)})
    <3>1. PICK g : SumsUp(f, U, g)
      BY <2>1, <2>2
    <3>2. IsFiniteSet(U)
      BY FS_Subset
    <3> QED
      BY <3>1, <3>2, TotalIfSums
  <2> DEFINE last == IF T = {} THEN 0 ELSE f[Chosen(T)] + Total(f, T \ {Chosen(T)})
             g == [s \in SUBSET T |-> IF s = T THEN last ELSE Total(f, s)]
  <2>3. ASSUME NEW s \in SUBSET T
        PROVE  g[s] = IF s = {} THEN 0 ELSE f[Chosen(s)] + g[s \ {Chosen(s)}]
    <3>1. s # {} => s \ {Chosen(s)} \in SUBSET T /\ s \ {Chosen(s)} # T
      BY ChosenIn
    <3>2. s # {} => g[s \ {Chosen(s)}] = Total(f, s \ {Chosen(s)})
      BY <3>1
    <3> QED
      BY <2>2, <3>2
  <2>4. g = [s \in SUBSET T |-> g[s]]
    OBVIOUS
  <2> HIDE DEF g
  <2>5. SumsUp(f, T, g)
    BY <2>3, <2>4 DEF SumsUp
  <2> QED
    BY <2>5
<1> QED
  BY <1>1

\* How a total is computed.
LEMMA TotalUnfolds ==
  ASSUME NEW f, NEW S, IsFiniteSet(S)
  PROVE  Total(f, S) = IF S = {} THEN 0 ELSE f[Chosen(S)] + Total(f, S \ {Chosen(S)})
BY SumExists, TotalIfSums

\* A total of natural numbers is one.
LEMMA TotalNat ==
  ASSUME NEW f, NEW S, IsFiniteSet(S), \A x \in S : f[x] \in Nat
  PROVE  Total(f, S) \in Nat
<1> DEFINE F == {T \in SUBSET S : Total(f, T) \notin Nat}
<1>1. ASSUME F # {} PROVE FALSE
  <2>1. PICK T \in F : \A U \in SUBSET T : U # T => U \notin F
    <3>1. F \in SUBSET SUBSET S
      OBVIOUS
    <3> HIDE DEF F
    <3> QED
      BY <1>1, <3>1, SmallestSubset
  <2>2. Total(f, T) = IF T = {} THEN 0 ELSE f[Chosen(T)] + Total(f, T \ {Chosen(T)})
    BY FS_Subset, TotalUnfolds
  <2>3. T # {} => f[Chosen(T)] \in Nat /\ Total(f, T \ {Chosen(T)}) \in Nat
    BY <2>1, ChosenIn
  <2> QED
    BY <2>2, <2>3
<1> QED
  BY <1>1


\* It does not matter which element is taken first.
LEMMA TotalWithout ==
  ASSUME NEW f, NEW S, IsFiniteSet(S), \A y \in S : f[y] \in Nat, NEW x \in S
  PROVE  Total(f, S) = f[x] + Total(f, S \ {x})
<1> DEFINE F == {T \in SUBSET S : \E y \in T : Total(f, T) # f[y] + Total(f, T \ {y})}
<1>1. ASSUME F # {} PROVE FALSE
  <2>1. PICK T \in F : \A U \in SUBSET T : U # T => U \notin F
    <3>1. F \in SUBSET SUBSET S
      OBVIOUS
    <3> HIDE DEF F
    <3> QED
      BY <1>1, <3>1, SmallestSubset
  <2>2. PICK y \in T : Total(f, T) # f[y] + Total(f, T \ {y})
    BY <2>1
  <2> DEFINE p == Chosen(T)
  <2>3. T \in SUBSET S /\ IsFiniteSet(T) /\ p \in T
    BY <2>2, FS_Subset, ChosenIn
  <2>4. Total(f, T) = f[p] + Total(f, T \ {p})
    BY <2>3, TotalUnfolds
  <2>5. p # y
    BY <2>2, <2>4
  <2>6. ASSUME NEW U \in SUBSET T, U # T, NEW z \in U
        PROVE  Total(f, U) = f[z] + Total(f, U \ {z})
    BY <2>1, <2>6, <2>3
  <2>7. Total(f, T \ {p}) = f[y] + Total(f, (T \ {p}) \ {y})
    BY <2>3, <2>5, <2>6
  <2>8. Total(f, T \ {y}) = f[p] + Total(f, (T \ {y}) \ {p})
    BY <2>2, <2>3, <2>5, <2>6
  <2>9. (T \ {y}) \ {p} = (T \ {p}) \ {y} /\ IsFiniteSet((T \ {p}) \ {y})
    BY <2>3, FS_Subset
  <2>10. Total(f, (T \ {p}) \ {y}) \in Nat /\ f[p] \in Nat /\ f[y] \in Nat
    BY <2>2, <2>3, <2>9, TotalNat
  <2> HIDE DEF p
  <2> QED
    BY <2>2, <2>4, <2>7, <2>8, <2>9, <2>10
<1> QED
  BY <1>1

\* Functions that agree on a set have the same total over it.
LEMMA TotalSame ==
  ASSUME NEW f, NEW g, NEW S, IsFiniteSet(S), \A x \in S : f[x] = g[x]
  PROVE  Total(f, S) = Total(g, S)
<1> DEFINE F == {T \in SUBSET S : Total(f, T) # Total(g, T)}
<1>1. ASSUME F # {} PROVE FALSE
  <2>1. PICK T \in F : \A U \in SUBSET T : U # T => U \notin F
    <3>1. F \in SUBSET SUBSET S
      OBVIOUS
    <3> HIDE DEF F
    <3> QED
      BY <1>1, <3>1, SmallestSubset
  <2>2. /\ Total(f, T) = IF T = {} THEN 0 ELSE f[Chosen(T)] + Total(f, T \ {Chosen(T)})
        /\ Total(g, T) = IF T = {} THEN 0 ELSE g[Chosen(T)] + Total(g, T \ {Chosen(T)})
    BY FS_Subset, TotalUnfolds
  <2>3. T # {} => /\ f[Chosen(T)] = g[Chosen(T)]
                  /\ Total(f, T \ {Chosen(T)}) = Total(g, T \ {Chosen(T)})
    BY <2>1, ChosenIn
  <2> QED
    BY <2>1, <2>2, <2>3
<1> QED
  BY <1>1

\* The total over two sets without a common element is the sum of their totals.
LEMMA TotalUnion ==
  ASSUME NEW f, NEW S, NEW R, IsFiniteSet(S), IsFiniteSet(R), S \cap R = {},
         \A x \in S \cup R : f[x] \in Nat
  PROVE  Total(f, S \cup R) = Total(f, S) + Total(f, R)
<1> DEFINE F == {T \in SUBSET R : Total(f, S \cup T) # Total(f, S) + Total(f, T)}
<1>1. ASSUME F # {} PROVE FALSE
  <2>1. PICK T \in F : \A U \in SUBSET T : U # T => U \notin F
    <3>1. F \in SUBSET SUBSET R
      OBVIOUS
    <3> HIDE DEF F
    <3> QED
      BY <1>1, <3>1, SmallestSubset
  <2>2. IsFiniteSet(T) /\ Total(f, S) \in Nat
    BY FS_Subset, TotalNat
  <2>3. Total(f, {}) = 0
    BY FS_EmptySet, TotalUnfolds
  <2>4. Total(f, S \cup T) # Total(f, S) + Total(f, T)
    BY <2>1
  <2>5. T # {}
    <3> SUFFICES ASSUME T = {} PROVE FALSE
      OBVIOUS
    <3>1. S \cup T = S /\ Total(f, T) = 0
      BY <2>3
    <3> HIDE DEF F
    <3> QED
      BY <2>2, <2>4, <3>1
  <2>6. PICK x : x \in T
    BY <2>5
  <2> DEFINE U == T \ {x}
  <2>7. /\ U \in SUBSET T /\ U # T /\ IsFiniteSet(U) /\ IsFiniteSet(S \cup T)
        /\ (S \cup T) \ {x} = S \cup U
    BY <2>2, <2>6, FS_Subset, FS_Union
  <2>8. Total(f, S \cup U) = Total(f, S) + Total(f, U)
    BY <2>1, <2>7
  <2>9. /\ Total(f, S \cup T) = f[x] + Total(f, S \cup U)
        /\ Total(f, T) = f[x] + Total(f, U)
    BY <2>2, <2>6, <2>7, TotalWithout
  <2>10. f[x] \in Nat /\ Total(f, U) \in Nat
    BY <2>6, <2>7, TotalNat
  <2> HIDE DEF U
  <2> QED
    BY <2>2, <2>4, <2>8, <2>9, <2>10
<1> QED
  BY <1>1

-----------------------------------------------------------------------------
\* Rows of qualifications and batches.

\* A change of status leaves the rest of a batch alone.
LEMMA BatchWithStatus ==
  ASSUME NEW batch \in FoodBatch, NEW status \in FoodBatchStatus
  PROVE  LET row == [batch EXCEPT !.status = status] IN
         /\ row \in FoodBatch /\ row.status = status
         /\ row.merchant = batch.merchant /\ row.created = batch.created
         /\ row.planned = batch.planned /\ row.produced = batch.produced
         /\ row.orders = batch.orders
BY DEF FoodBatch

\* The lifecycle of a batch: what is packed comes from production, what is ready
\* from packing, and a withdrawn batch stays withdrawn (CanTransitionBatch).
LEMMA BatchLifecycle ==
  ASSUME NEW from, NEW to, CanTransitionBatch(from, to)
  PROVE  /\ to \in FoodBatchStatus
         /\ from \in Withdrawn => to \in Withdrawn
         /\ from = "RECALLED" => to = "DISPOSED"
         /\ from \notin {"DISPOSED", "CANCELLED"}
         /\ to = "READY_FOR_HANDOFF" => from = "PACKED"
         /\ to = "IN_DELIVERY" => from = "READY_FOR_HANDOFF"
         /\ to = "COMPLETED" => from = "IN_DELIVERY"
BY DEF CanTransitionBatch, FoodBatchStatus, Withdrawn

\* The orders of two maps together are a map of orders.
LEMMA WithFacts ==
  ASSUME NEW map \in OrderMaps, NEW added \in OrderMaps
  PROVE  /\ With(map, added) \in OrderMaps
         /\ DOMAIN With(map, added) = DOMAIN map \cup DOMAIN added
<1> DEFINE finite == {some \in SUBSET Orders : IsFiniteSet(some)}
<1>1. PICK os \in finite, more \in finite :
        map \in [os -> OrderQuantities] /\ added \in [more -> OrderQuantities]
  BY DEF OrderMaps
<1>2. With(map, added) \in [os \cup more -> OrderQuantities]
  BY <1>1 DEF With
<1>3. os \cup more \in finite
  BY FS_Union
<1> QED
  BY <1>1, <1>2, <1>3 DEF OrderMaps

\* A map of orders is finite, and its quantities are natural numbers.
LEMMA OrderMapsFinite ==
  ASSUME NEW map \in OrderMaps
  PROVE  IsFiniteSet(DOMAIN map) /\ \A o \in DOMAIN map : map[o] \in Nat
<1>1. PICK os \in {some \in SUBSET Orders : IsFiniteSet(some)} : map \in [os -> OrderQuantities]
  BY DEF OrderMaps
<1>2. DOMAIN map = os /\ \A o \in os : map[o] \in OrderQuantities
  BY <1>1
<1> QED
  BY <1>2, ProductionAssumption

\* Orders without a common one are together as many as each.
LEMMA OrderedWith ==
  ASSUME NEW map \in OrderMaps, NEW added \in OrderMaps, DOMAIN map \cap DOMAIN added = {}
  PROVE  Ordered(With(map, added)) = Ordered(map) + Ordered(added)
<1> DEFINE both == With(map, added)
           S == DOMAIN map
           R == DOMAIN added
<1>1. /\ IsFiniteSet(S) /\ IsFiniteSet(R)
      /\ \A x \in S : map[x] \in Nat
      /\ \A x \in R : added[x] \in Nat
  BY OrderMapsFinite
<1>2. /\ DOMAIN both = S \cup R
      /\ \A x \in S : both[x] = map[x]
      /\ \A x \in R : both[x] = added[x]
  BY DEF With
<1> HIDE DEF both, S, R
<1>3. Total(both, S \cup R) = Total(both, S) + Total(both, R)
  BY <1>1, <1>2, TotalUnion DEF S, R
<1>4. Total(both, S) = Total(map, S) /\ Total(both, R) = Total(added, R)
  BY <1>1, <1>2, TotalSame
<1> QED
  BY <1>2, <1>3, <1>4, OrderedIsTotal DEF both, S, R

-----------------------------------------------------------------------------
\* Steps that change no batch.

\* What a step that leaves batches alone may do to the qualification of a row.
LEMMA QualificationStep ==
  ASSUME ProductionInv, NEW q \in QualificationIds, NEW row \in MerchantQualification,
         UNCHANGED <<now, batches, orderBatch>>,
         DOMAIN qualifications' = DOMAIN qualifications \cup {q}, qualifications'[q] = row,
         \A p \in DOMAIN qualifications : p # q => qualifications'[p] = qualifications[p],
         q \in DOMAIN qualifications => qualifications[q].status # "APPROVED",
         row.status \in {"PENDING_REVIEW", "APPROVED"} => row.complete,
         row.status = "APPROVED" => row.inspection = "PASSED"
  PROVE  ProductionInv'
<1> USE DEF ProductionInv
<1>1. ProductionTypeOK'
  BY DEF ProductionTypeOK
<1>2. QualificationsExamined'
  BY DEF QualificationsExamined
<1>3. BatchesOfExaminedMerchants'
  <2> SUFFICES ASSUME NEW b \in DOMAIN batches
               PROVE  \E p \in DOMAIN qualifications' :
                        /\ qualifications'[p].merchant = batches[b].merchant
                        /\ qualifications'[p].status = "APPROVED" /\ qualifications'[p].complete
                        /\ qualifications'[p].inspection = "PASSED"
                        /\ qualifications'[p].until > batches[b].created
    BY DEF BatchesOfExaminedMerchants
  <2>1. PICK p \in DOMAIN qualifications :
          /\ qualifications[p].merchant = batches[b].merchant
          /\ qualifications[p].status = "APPROVED" /\ qualifications[p].complete
          /\ qualifications[p].inspection = "PASSED"
          /\ qualifications[p].until > batches[b].created
    BY DEF BatchesOfExaminedMerchants
  <2>2. p # q
    BY <2>1
  <2> QED
    BY <2>1, <2>2
<1>4. OrderIndexAgrees' /\ PlansAreKept' /\ HandedOverWasProduced'
  BY DEF OrderIndexAgrees, PlansAreKept, HandedOverWasProduced
<1> QED
  BY <1>1, <1>2, <1>3, <1>4

\* Submitting, inspecting and reviewing a qualification.
LEMMA QualificationsKeepInv ==
  ASSUME ProductionInv,
         \/ \E q \in QualificationIds, m \in Merchants, complete \in BOOLEAN,
               until \in ExpiryDates : CreateQualification(q, m, complete, until)
         \/ \E q \in QualificationIds, at \in 0 .. now : SubmitQualification(q, at)
         \/ \E q \in QualificationIds, result \in SiteInspectionResult :
              RecordSiteInspection(q, result)
         \/ \E q \in QualificationIds, decision \in {"APPROVED", "REJECTED"}, at \in 0 .. now :
              ReviewQualification(q, decision, at)
  PROVE  ProductionInv' /\ UNCHANGED batches
<1>1. ASSUME NEW q \in QualificationIds, NEW m \in Merchants, NEW complete \in BOOLEAN,
             NEW until \in ExpiryDates, CreateQualification(q, m, complete, until)
      PROVE  ProductionInv' /\ UNCHANGED batches
  <2> DEFINE row == [merchant |-> m, status |-> "DRAFT", complete |-> complete,
                     until |-> until, inspection |-> "NONE"]
  <2>1. row \in MerchantQualification /\ row.status = "DRAFT"
    BY DEF MerchantQualification, QualificationStatus
  <2>2. /\ q \notin DOMAIN qualifications /\ qualifications' = Put(qualifications, q, row)
        /\ UNCHANGED <<now, batches, orderBatch>>
    BY <1>1 DEF CreateQualification
  <2> HIDE DEF row
  <2>3. /\ DOMAIN qualifications' = DOMAIN qualifications \cup {q} /\ qualifications'[q] = row
        /\ \A p \in DOMAIN qualifications : p # q => qualifications'[p] = qualifications[p]
    BY <2>2 DEF Put
  <2> QED
    BY <2>1, <2>2, <2>3, QualificationStep
<1>2. ASSUME NEW q \in DOMAIN qualifications, NEW row \in MerchantQualification,
             qualifications[q].status # "APPROVED",
             qualifications' = [qualifications EXCEPT ![q] = row],
             UNCHANGED <<now, batches, orderBatch>>,
             row.status \in {"PENDING_REVIEW", "APPROVED"} => row.complete,
             row.status = "APPROVED" => row.inspection = "PASSED"
      PROVE  ProductionInv' /\ UNCHANGED batches
  <2>1. q \in QualificationIds
    BY DEF ProductionInv, ProductionTypeOK
  <2> QED
    BY <1>2, <2>1, QualificationStep
<1>3. ASSUME NEW q \in DOMAIN qualifications
      PROVE  /\ qualifications[q] \in MerchantQualification
             /\ qualifications[q].status = "PENDING_REVIEW" => qualifications[q].complete
  BY DEF ProductionInv, ProductionTypeOK, QualificationsExamined
<1>4. ASSUME NEW q \in QualificationIds, NEW at \in 0 .. now, SubmitQualification(q, at)
      PROVE  ProductionInv' /\ UNCHANGED batches
  <2> DEFINE row == [qualifications[q] EXCEPT !.status = "PENDING_REVIEW"]
  <2>1. /\ q \in DOMAIN qualifications /\ qualifications' = [qualifications EXCEPT ![q] = row]
        /\ UNCHANGED <<now, batches, orderBatch>>
    BY <1>4 DEF SubmitQualification
  <2>2. qualifications[q].status # "APPROVED" /\ qualifications[q].complete
    BY <1>4 DEF SubmitQualification, Submittable, CanTransitionQualification
  <2>3. row \in MerchantQualification /\ row.status = "PENDING_REVIEW" /\ row.complete
    BY <1>3, <2>1, <2>2 DEF MerchantQualification, QualificationStatus
  <2> HIDE DEF row
  <2> QED
    BY <1>2, <2>1, <2>2, <2>3
<1>5. ASSUME NEW q \in QualificationIds, NEW result \in SiteInspectionResult,
             RecordSiteInspection(q, result)
      PROVE  ProductionInv' /\ UNCHANGED batches
  <2> DEFINE row == [qualifications[q] EXCEPT !.inspection = result]
  <2>1. /\ q \in DOMAIN qualifications /\ qualifications[q].status \in {"DRAFT", "PENDING_REVIEW"}
        /\ qualifications' = [qualifications EXCEPT ![q] = row]
        /\ UNCHANGED <<now, batches, orderBatch>>
    BY <1>5 DEF RecordSiteInspection
  <2>2. /\ row \in MerchantQualification /\ row.status = qualifications[q].status
        /\ row.complete = qualifications[q].complete
    BY <1>3, <2>1 DEF MerchantQualification
  <2> HIDE DEF row
  <2> QED
    BY <1>2, <1>3, <2>1, <2>2
<1>6. ASSUME NEW q \in QualificationIds, NEW decision \in {"APPROVED", "REJECTED"},
             NEW at \in 0 .. now, ReviewQualification(q, decision, at)
      PROVE  ProductionInv' /\ UNCHANGED batches
  <2> DEFINE row == [qualifications[q] EXCEPT !.status = decision]
  <2>1. /\ q \in DOMAIN qualifications /\ qualifications[q].status = "PENDING_REVIEW"
        /\ decision = "APPROVED" => qualifications[q].inspection = "PASSED"
        /\ qualifications' = [qualifications EXCEPT ![q] = row]
        /\ UNCHANGED <<now, batches, orderBatch>>
    BY <1>6 DEF ReviewQualification, Approvable
  <2>2. /\ row \in MerchantQualification /\ row.status = decision
        /\ row.complete = qualifications[q].complete
        /\ row.inspection = qualifications[q].inspection
    BY <1>3, <2>1 DEF MerchantQualification, QualificationStatus
  <2> HIDE DEF row
  <2> QED
    BY <1>2, <1>3, <2>1, <2>2
<1> QED
  BY <1>1, <1>4, <1>5, <1>6

-----------------------------------------------------------------------------
\* Steps of batches.

\* How one step may change batches: a batch stays, of its merchant, and moves
\* along its lifecycle without changing otherwise; when it is withdrawn and does
\* not move, nothing of it changes.
BatchesMove ==
  \A b \in DOMAIN batches :
    /\ b \in DOMAIN batches' /\ batches'[b].merchant = batches[b].merchant
    /\ \/ /\ batches'[b].status = batches[b].status
          /\ batches[b].status \in Withdrawn => batches'[b] = batches[b]
       \/ /\ CanTransitionBatch(batches[b].status, batches'[b].status)
          /\ batches'[b] = [batches[b] EXCEPT !.status = batches'[b].status]

\* What a step of existing batches has to keep, of the rest of the invariant.
LEMMA BatchesStep ==
  ASSUME ProductionInv, UNCHANGED <<now, qualifications>>,
         DOMAIN batches' = DOMAIN batches,
         \A b \in DOMAIN batches :
           /\ batches'[b] \in FoodBatch
           /\ batches'[b].merchant = batches[b].merchant
           /\ batches'[b].created = batches[b].created,
         DOMAIN orderBatch' \subseteq Orders,
         \A o \in DOMAIN orderBatch' : orderBatch'[o] \in DOMAIN batches,
         OrderIndexAgrees', PlansAreKept', HandedOverWasProduced'
  PROVE  ProductionInv'
<1> USE DEF ProductionInv
<1>1. ProductionTypeOK'
  BY DEF ProductionTypeOK
<1>2. QualificationsExamined'
  BY DEF QualificationsExamined
<1>3. BatchesOfExaminedMerchants'
  BY DEF BatchesOfExaminedMerchants
<1> QED
  BY <1>1, <1>2, <1>3

\* Moving any batches along their lifecycle, with the conditions of
\* TransitionBatch where it puts conditions, keeps the invariant.
LEMMA StatusStep ==
  ASSUME ProductionInv, UNCHANGED <<now, qualifications, orderBatch>>,
         DOMAIN batches' = DOMAIN batches,
         \A b \in DOMAIN batches :
           \/ batches'[b] = batches[b]
           \/ \E status \in FoodBatchStatus :
                /\ CanTransitionBatch(batches[b].status, status)
                /\ MayBecome(batches[b], status)
                /\ batches'[b] = [batches[b] EXCEPT !.status = status]
  PROVE  ProductionInv' /\ BatchesMove
<1>1. ASSUME NEW b \in DOMAIN batches
      PROVE  /\ batches[b] \in FoodBatch
             /\ batches[b].produced <= batches[b].planned
             /\ batches[b].status \in {"PACKED", "READY_FOR_HANDOFF", "IN_DELIVERY", "COMPLETED"}
                  => batches[b].produced > 0
             /\ batches[b].status \in {"IN_DELIVERY", "COMPLETED"}
                  => DOMAIN batches[b].orders # {}
  BY DEF ProductionInv, ProductionTypeOK, HandedOverWasProduced
<1>2. ASSUME NEW b \in DOMAIN batches
      PROVE  /\ batches'[b] \in FoodBatch
             /\ batches'[b].merchant = batches[b].merchant
             /\ batches'[b].created = batches[b].created
             /\ batches'[b].orders = batches[b].orders
             /\ batches'[b].planned = batches[b].planned
             /\ batches'[b].produced = batches[b].produced
             /\ batches'[b].status \in {"PACKED", "READY_FOR_HANDOFF", "IN_DELIVERY", "COMPLETED"}
                  => batches[b].produced > 0
             /\ batches'[b].status \in {"IN_DELIVERY", "COMPLETED"}
                  => DOMAIN batches[b].orders # {}
             /\ \/ batches'[b] = batches[b]
                \/ /\ CanTransitionBatch(batches[b].status, batches'[b].status)
                   /\ batches'[b] = [batches[b] EXCEPT !.status = batches'[b].status]
  <2>1. CASE batches'[b] = batches[b]
    BY <1>1, <2>1
  <2>2. CASE batches'[b] # batches[b]
    <3>1. PICK status \in FoodBatchStatus :
            /\ CanTransitionBatch(batches[b].status, status)
            /\ MayBecome(batches[b], status)
            /\ batches'[b] = [batches[b] EXCEPT !.status = status]
      BY <2>2
    <3> DEFINE row == [batches[b] EXCEPT !.status = status]
    <3>2. /\ row \in FoodBatch /\ row.status = status
          /\ row.merchant = batches[b].merchant /\ row.created = batches[b].created
          /\ row.planned = batches[b].planned /\ row.produced = batches[b].produced
          /\ row.orders = batches[b].orders
      BY <1>1, BatchWithStatus
    <3>3. /\ status \in {"PACKED", "READY_FOR_HANDOFF"} => batches[b].produced > 0
          /\ status = "IN_DELIVERY" => DOMAIN batches[b].orders # {}
      BY <3>1 DEF MayBecome
    <3>4. /\ status = "IN_DELIVERY" => batches[b].status = "READY_FOR_HANDOFF"
          /\ status = "COMPLETED" => batches[b].status = "IN_DELIVERY"
      BY <3>1, BatchLifecycle
    <3>5. batches'[b] = row
      BY <3>1
    <3>6. batches'[b] = [batches[b] EXCEPT !.status = batches'[b].status]
      BY <3>1, <3>2, <3>5
    <3> HIDE DEF row
    <3> QED
      BY <1>1, <3>1, <3>2, <3>3, <3>4, <3>5, <3>6
  <2> QED
    BY <2>1, <2>2
<1>3. OrderIndexAgrees' /\ PlansAreKept'
  BY <1>2 DEF ProductionInv, OrderIndexAgrees, PlansAreKept
<1>4. HandedOverWasProduced'
  BY <1>1, <1>2 DEF HandedOverWasProduced
<1>5. ProductionInv'
  <2>1. DOMAIN orderBatch \subseteq Orders
        /\ \A o \in DOMAIN orderBatch : orderBatch[o] \in DOMAIN batches
    BY DEF ProductionInv, ProductionTypeOK
  <2> QED
    BY <1>2, <1>3, <1>4, <2>1, BatchesStep
<1>6. BatchesMove
  BY <1>2 DEF BatchesMove
<1> QED
  BY <1>5, <1>6

\* A batch is opened for a merchant that was examined.
LEMMA CreateBatchKeepsInv ==
  ASSUME ProductionInv, NEW b \in BatchIds, NEW m \in Merchants, NEW planned \in Plans,
         NEW at \in 0 .. now, CreateBatch(b, m, planned, at)
  PROVE  ProductionInv' /\ BatchesMove
<1> USE DEF ProductionInv
<1> DEFINE row == NewBatch(m, planned, at)
<1>1. /\ b \notin DOMAIN batches /\ batches' = Put(batches, b, row)
      /\ UNCHANGED <<now, qualifications, orderBatch>>
  BY DEF CreateBatch
<1>2. /\ row.merchant = m /\ row.status = "DRAFT" /\ row.created = at
      /\ row.produced = 0 /\ row.planned = planned /\ DOMAIN row.orders = {}
  BY DEF NewBatch, EmptyMap
<1>3. row \in FoodBatch
  <2>1. EmptyMap \in OrderMaps
    <3>1. EmptyMap \in [{} -> OrderQuantities] /\ {} \in {some \in SUBSET Orders : IsFiniteSet(some)}
      BY FS_EmptySet DEF EmptyMap
    <3> QED
      BY <3>1 DEF OrderMaps
  <2>2. at \in 0 .. Horizon
    BY HorizonAssumption DEF ProductionTypeOK
  <2> QED
    BY <2>1, <2>2 DEF NewBatch, FoodBatch, FoodBatchStatus
<1> HIDE DEF row
<1>4. /\ DOMAIN batches' = DOMAIN batches \cup {b} /\ batches'[b] = row
      /\ \A c \in DOMAIN batches : batches'[c] = batches[c]
  BY <1>1 DEF Put
<1>5. ProductionTypeOK'
  BY <1>1, <1>3, <1>4 DEF ProductionTypeOK
<1>6. QualificationsExamined'
  BY <1>1 DEF QualificationsExamined
<1>7. BatchesOfExaminedMerchants'
  <2>1. PICK q \in DOMAIN qualifications :
          qualifications[q].merchant = m /\ ApprovedAndCurrent(qualifications[q], at)
    BY DEF CreateBatch, HasApprovedQualification
  <2>2. /\ qualifications[q].status = "APPROVED" /\ qualifications[q].complete
        /\ qualifications[q].inspection = "PASSED" /\ qualifications[q].until > at
    BY <2>1 DEF ApprovedAndCurrent, QualificationsExamined
  <2>3. ASSUME NEW c \in DOMAIN batches', c # b
        PROVE  c \in DOMAIN batches /\ batches'[c] = batches[c]
    BY <1>4, <2>3
  <2> QED
    BY <1>1, <1>2, <1>4, <2>1, <2>2, <2>3 DEF BatchesOfExaminedMerchants
<1>8. OrderIndexAgrees'
  BY <1>1, <1>2, <1>4 DEF OrderIndexAgrees, ProductionTypeOK
<1>9. planned > 0 /\ planned \in Nat
  BY ProductionAssumption
<1>10. HandedOverWasProduced'
  BY <1>2, <1>4, <1>9 DEF HandedOverWasProduced
<1>11. PlansAreKept'
  <2>1. Ordered(row.orders) = 0
    BY <1>2, OrderedIsTotal, FS_EmptySet, TotalUnfolds
  <2> QED
    BY <1>2, <1>4, <1>9, <2>1 DEF PlansAreKept
<1>12. BatchesMove
  BY <1>4 DEF BatchesMove
<1> QED
  BY <1>5, <1>6, <1>7, <1>8, <1>10, <1>11, <1>12

\* Recording production keeps within the plan and touches no withdrawn batch.
LEMMA RecordBatchProductionKeepsInv ==
  ASSUME ProductionInv, NEW b \in BatchIds, NEW quantity \in 1 .. Max(Plans),
         RecordBatchProduction(b, quantity)
  PROVE  ProductionInv' /\ BatchesMove
<1> USE DEF ProductionInv
<1> DEFINE row == [batches[b] EXCEPT !.produced = quantity]
<1>1. /\ b \in DOMAIN batches /\ batches[b].status = "PRODUCING"
      /\ quantity > 0 /\ quantity <= batches[b].planned
      /\ batches' = [batches EXCEPT ![b] = row]
      /\ UNCHANGED <<now, qualifications, orderBatch>>
  BY DEF RecordBatchProduction
<1>2. batches[b] \in FoodBatch
  BY <1>1 DEF ProductionTypeOK
<1>3. /\ row \in FoodBatch /\ row.produced = quantity
      /\ row.merchant = batches[b].merchant /\ row.status = batches[b].status
      /\ row.created = batches[b].created /\ row.planned = batches[b].planned
      /\ row.orders = batches[b].orders
  BY <1>1, <1>2 DEF FoodBatch
<1> HIDE DEF row
<1>4. /\ DOMAIN batches' = DOMAIN batches /\ batches'[b] = row
      /\ \A c \in DOMAIN batches : c # b => batches'[c] = batches[c]
  BY <1>1
<1>5. OrderIndexAgrees' /\ PlansAreKept'
  BY <1>1, <1>3, <1>4 DEF OrderIndexAgrees, PlansAreKept
<1>6. HandedOverWasProduced'
  BY <1>1, <1>3, <1>4 DEF HandedOverWasProduced
<1>7. ProductionInv'
  BY <1>1, <1>2, <1>3, <1>4, <1>5, <1>6, BatchesStep DEF ProductionTypeOK
<1>8. BatchesMove
  BY <1>1, <1>3, <1>4 DEF BatchesMove, Withdrawn
<1> QED
  BY <1>7, <1>8

\* The orders of a call are put into one batch and its index together.
LEMMA AssociateOrdersKeepsInv ==
  ASSUME ProductionInv, NEW b \in BatchIds, NEW added \in OrderMaps, AssociateOrders(b, added)
  PROVE  ProductionInv' /\ BatchesMove
<1> USE DEF ProductionInv
<1> DEFINE row == [batches[b] EXCEPT !.orders = With(batches[b].orders, added)]
<1>1. /\ b \in DOMAIN batches /\ batches[b].status \in TakesOrders
      /\ batches' = [batches EXCEPT ![b] = row]
      /\ orderBatch' = With(orderBatch, [o \in DOMAIN added |-> b])
      /\ UNCHANGED <<now, qualifications>>
  BY DEF AssociateOrders
<1>2. batches[b] \in FoodBatch /\ batches[b].orders \in OrderMaps
  BY <1>1 DEF ProductionTypeOK, FoodBatch
<1>3. /\ With(batches[b].orders, added) \in OrderMaps
      /\ DOMAIN With(batches[b].orders, added) = DOMAIN batches[b].orders \cup DOMAIN added
  BY <1>2, WithFacts
<1>4. /\ row \in FoodBatch /\ row.produced = batches[b].produced
      /\ row.merchant = batches[b].merchant /\ row.status = batches[b].status
      /\ row.created = batches[b].created /\ row.planned = batches[b].planned
      /\ row.orders = With(batches[b].orders, added)
  BY <1>2, <1>3 DEF FoodBatch
<1> HIDE DEF row
<1>5. /\ DOMAIN batches' = DOMAIN batches /\ batches'[b] = row
      /\ \A c \in DOMAIN batches : c # b => batches'[c] = batches[c]
  BY <1>1
<1>6. /\ DOMAIN orderBatch' = DOMAIN orderBatch \cup DOMAIN added
      /\ \A o \in DOMAIN added : orderBatch'[o] = b
      /\ \A o \in DOMAIN orderBatch : o \notin DOMAIN added => orderBatch'[o] = orderBatch[o]
  BY <1>1 DEF With
<1>7. DOMAIN added \cap DOMAIN orderBatch = {} /\ DOMAIN added \subseteq Orders
  BY DEF AssociateOrders, Unassigned, OrderMaps
<1>8. OrderIndexAgrees'
  <2> SUFFICES ASSUME NEW c \in BatchIds, NEW o \in Orders
               PROVE  (c \in DOMAIN batches' /\ o \in DOMAIN batches'[c].orders)
                        <=> (o \in DOMAIN orderBatch' /\ orderBatch'[o] = c)
    BY DEF OrderIndexAgrees
  <2>1. (c \in DOMAIN batches /\ o \in DOMAIN batches[c].orders)
          <=> (o \in DOMAIN orderBatch /\ orderBatch[o] = c)
    BY DEF OrderIndexAgrees
  <2>2. CASE c = b
    <3>1. DOMAIN batches'[c].orders = DOMAIN batches[b].orders \cup DOMAIN added
      BY <1>3, <1>4, <1>5, <2>2
    <3> QED
      BY <1>1, <1>5, <1>6, <1>7, <2>1, <2>2, <3>1
  <2>3. CASE c # b
    <3>1. c \in DOMAIN batches' /\ o \in DOMAIN batches'[c].orders
            <=> c \in DOMAIN batches /\ o \in DOMAIN batches[c].orders
      BY <1>5, <2>3
    <3> QED
      BY <1>6, <1>7, <2>1, <2>3, <3>1
  <2> QED
    BY <2>2, <2>3
<1>9. HandedOverWasProduced' /\ PlansAreKept'
  <2>1. DOMAIN batches[b].orders # {} => DOMAIN row.orders # {}
    BY <1>3, <1>4
  <2>2. HandedOverWasProduced'
    BY <1>1, <1>4, <1>5, <2>1 DEF HandedOverWasProduced
  <2>3. Ordered(row.orders) = Ordered(batches[b].orders) + Ordered(added)
    BY <1>2, <1>4, OrderedWith DEF AssociateOrders, Unassigned
  <2>4. Ordered(row.orders) <= row.planned
    BY <1>4, <2>3 DEF AssociateOrders
  <2> QED
    BY <1>5, <2>2, <2>4 DEF PlansAreKept
<1>10. ProductionInv'
  <2>1. DOMAIN orderBatch' \subseteq Orders
        /\ \A o \in DOMAIN orderBatch' : orderBatch'[o] \in DOMAIN batches
    BY <1>1, <1>6, <1>7 DEF ProductionTypeOK
  <2>2. \A c \in DOMAIN batches :
          /\ batches'[c] \in FoodBatch
          /\ batches'[c].merchant = batches[c].merchant
          /\ batches'[c].created = batches[c].created
    BY <1>4, <1>5 DEF ProductionTypeOK
  <2> QED
    BY <1>1, <1>5, <1>8, <1>9, <2>1, <2>2, BatchesStep
<1>11. BatchesMove
  BY <1>1, <1>4, <1>5 DEF BatchesMove, Withdrawn, TakesOrders
<1> QED
  BY <1>10, <1>11

-----------------------------------------------------------------------------
\* Every operation keeps the invariant, and moves batches along their lifecycle
\* alone.
LEMMA ProductionStep ==
  ProductionInv /\ [ProductionNext]_productionVars => ProductionInv' /\ BatchesMove
<1> SUFFICES ASSUME ProductionInv, [ProductionNext]_productionVars
             PROVE  ProductionInv' /\ BatchesMove
  OBVIOUS
<1>1. CASE UNCHANGED <<qualifications, batches, orderBatch>>
            /\ (UNCHANGED now \/ (now < Horizon /\ now' = now + 1))
  <2>1. ProductionTypeOK'
    BY <1>1, HorizonAssumption DEF ProductionInv, ProductionTypeOK
  <2>2. QualificationsExamined' /\ BatchesOfExaminedMerchants'
    BY <1>1 DEF ProductionInv, QualificationsExamined, BatchesOfExaminedMerchants
  <2>3. OrderIndexAgrees' /\ PlansAreKept' /\ HandedOverWasProduced'
    BY <1>1 DEF ProductionInv, OrderIndexAgrees, PlansAreKept, HandedOverWasProduced
  <2>4. BatchesMove
    BY <1>1 DEF BatchesMove
  <2> QED
    BY <2>1, <2>2, <2>3, <2>4 DEF ProductionInv
<1>2. CASE \/ \E q \in QualificationIds, m \in Merchants, complete \in BOOLEAN,
                 until \in ExpiryDates : CreateQualification(q, m, complete, until)
           \/ \E q \in QualificationIds, at \in 0 .. now : SubmitQualification(q, at)
           \/ \E q \in QualificationIds, result \in SiteInspectionResult :
                RecordSiteInspection(q, result)
           \/ \E q \in QualificationIds, decision \in {"APPROVED", "REJECTED"}, at \in 0 .. now :
                ReviewQualification(q, decision, at)
  BY <1>2, QualificationsKeepInv DEF BatchesMove
<1>3. ASSUME NEW b \in BatchIds, NEW target \in FoodBatchStatus, TransitionBatch(b, target)
      PROVE  ProductionInv' /\ BatchesMove
  <2>1. /\ b \in DOMAIN batches /\ CanTransitionBatch(batches[b].status, target)
        /\ MayBecome(batches[b], target)
        /\ batches' = [batches EXCEPT ![b] = [batches[b] EXCEPT !.status = target]]
        /\ UNCHANGED <<now, qualifications, orderBatch>>
    BY <1>3 DEF TransitionBatch
  <2>2. \A c \in DOMAIN batches :
          batches'[c] = IF c = b THEN [batches[b] EXCEPT !.status = target] ELSE batches[c]
    BY <2>1
  <2> QED
    BY <2>1, <2>2, StatusStep
<1>4. CASE UNCHANGED productionVars
  BY <1>1, <1>4 DEF productionVars
<1>5. CASE Tick
  BY <1>1, <1>5 DEF Tick
<1> QED
  BY <1>2, <1>3, <1>4, <1>5, CreateBatchKeepsInv, RecordBatchProductionKeepsInv,
     AssociateOrdersKeepsInv DEF ProductionNext

\* An empty service satisfies the invariant.
LEMMA InitProductionInv == ProductionInit => ProductionInv
BY HorizonAssumption DEF ProductionInit, ProductionInv, ProductionTypeOK, EmptyMap,
   QualificationsExamined, BatchesOfExaminedMerchants, OrderIndexAgrees, PlansAreKept,
   HandedOverWasProduced

\* The inductive invariant holds in every reachable state.
THEOREM ProductionInvariance == ProductionSpec => []ProductionInv
BY InitProductionInv, ProductionStep, PTL DEF ProductionSpec

\* Qualifications, batches and the order index are typed, and every order is
\* indexed under a batch that exists.
THEOREM ProductionTypeCorrect == ProductionSpec => []ProductionTypeOK
<1>1. ProductionInv => ProductionTypeOK
  BY DEF ProductionInv
<1> QED
  BY <1>1, ProductionInvariance, PTL

\* Batches exist only of merchants whose approval stood on a passed inspection and
\* permits that had not expired (CreateBatch, ReviewQualification).
THEOREM MerchantsAreExamined == ProductionSpec => []BatchesOfExaminedMerchants
<1>1. ProductionInv => BatchesOfExaminedMerchants
  BY DEF ProductionInv
<1> QED
  BY <1>1, ProductionInvariance, PTL

\* An order is in at most one batch, the index of orders agrees with the batches,
\* and no batch is promised beyond its plan (AssociateOrders).
THEOREM OrdersStayInOneBatch == ProductionSpec => []OrdersInOneBatch
<1>1. ProductionInv => OrdersInOneBatch
  BY DEF ProductionInv, OrdersInOneBatch
<1> QED
  BY <1>1, ProductionInvariance, PTL

\* What was handed over was produced within its plan and has orders.
THEOREM NothingUnproducedLeaves == ProductionSpec => []HandedOverWasProduced
<1>1. ProductionInv => HandedOverWasProduced
  BY DEF ProductionInv
<1> QED
  BY <1>1, ProductionInvariance, PTL

\* A withdrawn batch never returns to the market (CanTransitionBatch,
\* RecordBatchProduction, AssociateOrders).
THEOREM WithdrawalIsFinal == ProductionSpec => WithdrawnStaysWithdrawn
<1>1. ProductionInv /\ BatchesMove =>
        \A b \in DOMAIN batches :
          batches[b].status \in Withdrawn =>
            /\ batches'[b].status \in Withdrawn
            /\ batches'[b].orders = batches[b].orders
            /\ batches'[b].produced = batches[b].produced
  <2> SUFFICES ASSUME ProductionInv, BatchesMove,
                      NEW b \in DOMAIN batches, batches[b].status \in Withdrawn
               PROVE  /\ batches'[b].status \in Withdrawn
                      /\ batches'[b].orders = batches[b].orders
                      /\ batches'[b].produced = batches[b].produced
    OBVIOUS
  <2>1. batches[b] \in FoodBatch
    BY DEF ProductionInv, ProductionTypeOK
  <2>2. CASE CanTransitionBatch(batches[b].status, batches'[b].status)
             /\ batches'[b] = [batches[b] EXCEPT !.status = batches'[b].status]
    <3>1. PICK status \in Withdrawn \cap FoodBatchStatus :
            batches'[b].status = status /\ batches'[b] = [batches[b] EXCEPT !.status = status]
      BY <2>2, BatchLifecycle
    <3> QED
      BY <2>1, <3>1, BatchWithStatus
  <2> QED
    BY <2>2 DEF BatchesMove
<1> QED
  BY <1>1, ProductionStep, ProductionInvariance, PTL DEF ProductionSpec, WithdrawnStaysWithdrawn
=============================================================================
