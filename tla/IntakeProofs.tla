---------------------------- MODULE IntakeProofs ----------------------------
(***************************************************************************)
(* Proofs about Intake, for any number of requests.                        *)
(*                                                                         *)
(* Every step of a request is a step of the store or leaves it alone, so   *)
(* the store's invariant IInv holds here too.  What the requests promise   *)
(* needs the relation between a cluster and the requests that reached it:  *)
(* a handler that joins works on a demand that exists, every demand has    *)
(* room for one, and whoever is in a cluster was answered so.              *)
(***************************************************************************)
EXTENDS Intake, MarketProofs

RequestsOK ==
  /\ request \in [Requests -> {Idle} \cup Received]
  /\ \A r \in Requests :
       /\ At(r, {"find", "create"}) => request[r].form \in Forms
       /\ At(r, {"join", "joinOwn", "done"}) => request[r].target \in DOMAIN demands

\* No demand has a maximum of nobody (createDemandRequest.toSpec).
DemandsHaveRoom == \A d \in DOMAIN demands : demands[d].max > 0

\* Nobody is in a cluster without an answer that says so.
MembersWereAnswered ==
  \A d \in DOMAIN demands :
    demands[d].count > 0 =>
      \E r \in Requests :
        At(r, {"done"}) /\ request[r].answer = "MEMBER" /\ request[r].target = d

IntakeInv ==
  /\ IInv
  /\ RequestsOK
  /\ DemandsHaveRoom
  /\ AnswersStayTrue
  /\ EmptyClusterIsExplained
  /\ MembersWereAnswered

\* What the requests and the clusters owe each other.
Promises ==
  /\ RequestsOK /\ DemandsHaveRoom /\ AnswersStayTrue
  /\ EmptyClusterIsExplained /\ MembersWereAnswered

-----------------------------------------------------------------------------
\* What the store's operations do to clusters.

\* A demand that exists is a row of the table (CreateDemand).
LEMMA DemandRow ==
  ASSUME IInv, NEW d \in DOMAIN demands
  PROVE  demands[d] \in Demand /\ demands[d].count \in Nat /\ demands[d].max \in Nat
BY DEF IInv, TypeOK, IsMap, Demand

\* A cluster nobody is in has room, and its count is zero.
LEMMA EmptyCluster ==
  ASSUME IInv, DemandsHaveRoom, NEW d \in DOMAIN demands, demands[d].count = 0,
         NEW u \in Users
  PROVE  <<d, u>> \notin members /\ demands[d].count < demands[d].max
<1>1. Cardinality(MembersOf(d)) = 0 /\ IsFiniteSet(MembersOf(d))
  BY DEF IInv, MemberCountExact, MembersFinite
<1>2. MembersOf(d) = {}
  BY <1>1, FS_EmptySet
<1> QED
  BY <1>2, DemandRow DEF MembersOf, DemandsHaveRoom

\* One more member, nothing else, for the demand joined (AddDemandMember).
LEMMA JoinedDemands ==
  ASSUME IInv, NEW d, NEW u, AddDemandMember(d, u)
  PROVE  /\ d \in DOMAIN demands /\ DOMAIN demands' = DOMAIN demands
         /\ demands'[d].count = demands[d].count + 1 /\ demands'[d].max = demands[d].max
         /\ demands[d].count < demands[d].max
         /\ \A k \in DOMAIN demands : k # d => demands'[k] = demands[k]
         /\ members' = members \cup {<<d, u>>}
<1>1. d \in DOMAIN demands
  BY DEF AddDemandMember, CanJoin
<1>2. /\ WithMember(demands[d]).count = demands[d].count + 1
      /\ WithMember(demands[d]).max = demands[d].max
  BY <1>1, DemandRow, WithMemberRow
<1>3. demands' = Put(demands, d, WithMember(demands[d]))
  BY DEF AddDemandMember
<1> QED
  BY <1>1, <1>2, <1>3 DEF AddDemandMember, CanJoin, Put

\* A review writes the status only (ReviewDemand).
LEMMA ReviewedDemands ==
  ASSUME IInv, NEW d, NEW decision, ReviewDemand(d, decision)
  PROVE  /\ DOMAIN demands' = DOMAIN demands /\ members' = members
         /\ \A k \in DOMAIN demands :
              demands'[k].count = demands[k].count /\ demands'[k].max = demands[k].max
<1>1. d \in DOMAIN demands
  BY DEF ReviewDemand
<1>2. demands[d] \in Demand
  BY <1>1, DemandRow
<1>3. demands' = Put(demands, d, [demands[d] EXCEPT !.status = decision])
  BY DEF ReviewDemand
<1>4. /\ [demands[d] EXCEPT !.status = decision].count = demands[d].count
      /\ [demands[d] EXCEPT !.status = decision].max = demands[d].max
  BY <1>2 DEF Demand
<1> QED
  BY <1>1, <1>3, <1>4 DEF Put, ReviewDemand

\* A new cluster has room and nobody in it (CreateDemand).
LEMMA CreatedDemands ==
  ASSUME NEW d, NEW u, NEW spec, NEW limit \in MemberLimits, CreateDemand(d, u, spec, limit)
  PROVE  /\ d \notin DOMAIN demands /\ DOMAIN demands' = DOMAIN demands \cup {d}
         /\ demands'[d].count = 0 /\ demands'[d].max > 0
         /\ \A k \in DOMAIN demands : demands'[k] = demands[k]
         /\ members' = members
<1> DEFINE row == [status |-> "PENDING_REVIEW", spec |-> spec, createdBy |-> u,
                   min |-> limit.min, max |-> limit.max, count |-> 0]
<1>1. row.count = 0 /\ row.max > 0
  BY LimitsAssumption DEF Limit
<1>2. d \notin DOMAIN demands /\ demands' = Put(demands, d, row) /\ members' = members
  BY DEF CreateDemand
<1> HIDE DEF row
<1> QED
  BY <1>1, <1>2 DEF Put

-----------------------------------------------------------------------------
\* The steps of requests.

\* A request that is received and a review change no cluster's members and
\* answer nobody; neither does a request that dies or finds a demand to join.
Silent ==
  /\ DOMAIN demands' = DOMAIN demands /\ members' = members
  /\ \A d \in DOMAIN demands :
       demands'[d].count = demands[d].count /\ demands'[d].max = demands[d].max
  /\ \A r \in Requests :
       \/ request'[r] = request[r]
       \/ /\ ~At(r, {"joinOwn", "lost", "done"})
          /\ request'[r].at \notin {"done", "joinOwn"}
       \/ /\ At(r, {"joinOwn"})
          /\ request'[r] # Idle /\ request'[r].at = "lost"
          /\ request'[r].target = request[r].target

\* Such steps keep what the answers and the clusters say.
LEMMA SilentStep ==
  ASSUME Promises, Silent
  PROVE  /\ DemandsHaveRoom' /\ AnswersStayTrue'
         /\ EmptyClusterIsExplained' /\ MembersWereAnswered'
<1>1. DemandsHaveRoom'
  BY DEF Promises, DemandsHaveRoom, Silent
<1>2. AnswersStayTrue'
  BY DEF Promises, RequestsOK, AnswersStayTrue, Silent, At
<1>3. EmptyClusterIsExplained'
  <2> SUFFICES ASSUME NEW d \in DOMAIN demands', demands'[d].count = 0
               PROVE  \E r \in Requests :
                        /\ At(r, {"joinOwn", "lost"})' \/ (At(r, {"done"})' /\ request'[r].answer = "INVALID")
                        /\ request'[r].target = d
    BY DEF EmptyClusterIsExplained
  <2>1. PICK r \in Requests :
          /\ At(r, {"joinOwn", "lost"}) \/ (At(r, {"done"}) /\ request[r].answer = "INVALID")
          /\ request[r].target = d
    BY DEF Promises, EmptyClusterIsExplained, Silent
  <2> QED
    BY <2>1 DEF Silent, At
<1>4. MembersWereAnswered'
  BY DEF Promises, MembersWereAnswered, Silent, At
<1> QED
  BY <1>1, <1>2, <1>3, <1>4

\* A request is received (PostDemand, PostMember).
LEMMA ReceiveStep ==
  ASSUME Promises, NEW r \in Requests, NEW u \in Users,
         \/ \E form \in Forms : PostDemand(r, u, form)
         \/ \E d \in DemandIds : PostMember(r, u, d)
  PROVE  Promises'
<1>1. PICK at \in {"find", "join"}, form \in Forms \cup {NoForm}, d \in DemandIds \cup {NoDemand} :
        /\ Receive(r, at, u, form, d)
        /\ at = "find" => form \in Forms
        /\ at = "join" => d \in DOMAIN demands
  BY DEF PostDemand, PostMember
<1> DEFINE new == [at |-> at, user |-> u, form |-> form, target |-> d, answer |-> ""]
<1>2. /\ request[r] = Idle /\ request' = [request EXCEPT ![r] = new]
      /\ UNCHANGED vars
  BY <1>1 DEF Receive
<1>3. new \in Received /\ new.at = at /\ new.form = form /\ new.target = d /\ new # Idle
  BY DEF Received, Idle
<1> HIDE DEF new
<1>4. RequestsOK'
  BY <1>1, <1>2, <1>3 DEF Promises, RequestsOK, At, vars
<1>5. Silent
  BY <1>1, <1>2, <1>3 DEF Promises, RequestsOK, Silent, At, vars
<1> QED
  BY <1>4, <1>5, SilentStep DEF Promises

\* A request finds a demand to join, or none (FindMatchingDemand).
LEMMA FindStep ==
  ASSUME Promises, IInv, NEW r \in Requests, Find(r)
  PROVE  Promises'
<1>1. PICK at \in {"join", "create"}, d \in DOMAIN demands \cup {request[r].target} :
        /\ request[r].at = "find"
        /\ request' = [request EXCEPT ![r].at = at, ![r].target = d]
        /\ at = "join" => d \in DOMAIN demands
        /\ UNCHANGED vars
  <2>1. CASE \E d \in MatchingDemands(request[r].form.spec) :
               request' = [request EXCEPT ![r].at = "join", ![r].target = d]
    BY <2>1 DEF Find, MatchingDemands
  <2>2. CASE request' = [request EXCEPT ![r].at = "create"]
    <3>1. request[r] \in Received
      BY DEF Promises, RequestsOK, Find, Idle
    <3>2. request' = [request EXCEPT ![r].at = "create", ![r].target = request[r].target]
      BY <2>2, <3>1 DEF Promises, RequestsOK, Received
    <3> QED
      BY <3>2 DEF Find
  <2> QED
    BY <2>1, <2>2 DEF Find
<1>2. request[r] \in Received /\ request[r] # Idle
  BY <1>1 DEF Promises, RequestsOK, Idle
<1>3. d \in DemandIds \cup {NoDemand}
  BY <1>2 DEF Promises, IInv, TypeOK, IsMap, Received
<1> DEFINE new == [request[r] EXCEPT !.at = at, !.target = d]
<1>4. /\ new \in Received /\ new # Idle /\ new.at = at /\ new.target = d
      /\ new.form = request[r].form
  BY <1>2, <1>3 DEF Received, Idle
<1>5. request' = [request EXCEPT ![r] = new]
  BY <1>1 DEF Promises, RequestsOK
<1> HIDE DEF new
<1>6. RequestsOK'
  BY <1>1, <1>2, <1>4, <1>5 DEF Promises, RequestsOK, At, vars
<1>7. Silent
  BY <1>1, <1>4, <1>5 DEF Promises, RequestsOK, Silent, At, vars
<1> QED
  BY <1>6, <1>7, SilentStep DEF Promises

\* A request is cut off between two store calls.
LEMMA DieStep ==
  ASSUME Promises, NEW r \in Requests, Die(r)
  PROVE  Promises'
<1>1. request[r] \in Received /\ request[r] # Idle
  BY DEF Promises, RequestsOK, Idle, Die
<1> DEFINE new == [request[r] EXCEPT !.at = "lost"]
<1>2. /\ new \in Received /\ new # Idle /\ new.at = "lost"
      /\ new.target = request[r].target
  BY <1>1 DEF Received, Idle
<1>3. request' = [request EXCEPT ![r] = new] /\ UNCHANGED vars
  BY DEF Promises, RequestsOK, Die
<1> HIDE DEF new
<1>4. RequestsOK'
  BY <1>1, <1>2, <1>3 DEF Promises, RequestsOK, At, vars
<1>5. Silent
  BY <1>1, <1>2, <1>3 DEF Promises, RequestsOK, Silent, At, vars, Die
<1> QED
  BY <1>4, <1>5, SilentStep DEF Promises

\* An admin reviews a demand while requests are under way.
LEMMA ReviewStep ==
  ASSUME Promises, IInv, NEW d \in DemandIds, NEW decision \in DemandDecisions,
         Review(d, decision)
  PROVE  Promises'
<1>1. /\ DOMAIN demands' = DOMAIN demands /\ members' = members
      /\ \A k \in DOMAIN demands :
           demands'[k].count = demands[k].count /\ demands'[k].max = demands[k].max
  BY ReviewedDemands DEF Review
<1>2. request' = request
  BY DEF Review
<1>3. RequestsOK'
  BY <1>1, <1>2 DEF Promises, RequestsOK, At
<1>4. Silent
  BY <1>1, <1>2 DEF Silent
<1> QED
  BY <1>3, <1>4, SilentStep DEF Promises

\* A request creates its demand and has yet to join it (CreateDemand).
LEMMA CreateStep ==
  ASSUME Promises, IInv, NEW r \in Requests, NEW d \in DemandIds, Create(r, d)
  PROVE  Promises'
<1>1. request[r] \in Received /\ request[r] # Idle /\ request[r].at = "create"
  BY DEF Promises, RequestsOK, Idle, Create
<1>2. request[r].form.limit \in MemberLimits
  BY <1>1 DEF Promises, RequestsOK, At, Forms
<1>3. /\ d \notin DOMAIN demands /\ DOMAIN demands' = DOMAIN demands \cup {d}
      /\ demands'[d].count = 0 /\ demands'[d].max > 0
      /\ \A k \in DOMAIN demands : demands'[k] = demands[k]
      /\ members' = members
  BY <1>2, CreatedDemands DEF Create
<1> DEFINE new == [request[r] EXCEPT !.at = "joinOwn", !.target = d]
<1>4. new \in Received /\ new # Idle /\ new.at = "joinOwn" /\ new.target = d
  BY <1>1 DEF Received, Idle
<1>5. request' = [request EXCEPT ![r] = new]
  BY DEF Promises, RequestsOK, Create
<1> HIDE DEF new
<1>6. RequestsOK'
  BY <1>1, <1>3, <1>4, <1>5 DEF Promises, RequestsOK, At
<1>7. DemandsHaveRoom'
  BY <1>3 DEF Promises, DemandsHaveRoom
<1>8. AnswersStayTrue'
  <2> SUFFICES ASSUME NEW q \in Requests, At(q, {"done"})'
               PROVE  LET k == request'[q].target
                          joined == <<k, request'[q].user>> \in members'
                      IN /\ request'[q].answer = "MEMBER" => joined
                         /\ request'[q].answer = "CONFLICT" => joined \/ demands'[k].count = demands'[k].max
    BY DEF AnswersStayTrue, At
  <2>1. q # r /\ request'[q] = request[q] /\ At(q, {"done"})
    BY <1>4, <1>5 DEF At, Promises, RequestsOK
  <2>2. request[q].target \in DOMAIN demands
    BY <2>1 DEF Promises, RequestsOK, At
  <2> QED
    BY <1>3, <2>1, <2>2 DEF Promises, AnswersStayTrue
<1>9. EmptyClusterIsExplained'
  <2> SUFFICES ASSUME NEW k \in DOMAIN demands', demands'[k].count = 0
               PROVE  \E q \in Requests :
                        /\ At(q, {"joinOwn", "lost"})' \/ (At(q, {"done"})' /\ request'[q].answer = "INVALID")
                        /\ request'[q].target = k
    BY DEF EmptyClusterIsExplained
  <2>1. CASE k = d
    BY <2>1, <1>4, <1>5 DEF At, Promises, RequestsOK
  <2>2. CASE k # d
    <3>1. PICK q \in Requests :
            /\ At(q, {"joinOwn", "lost"}) \/ (At(q, {"done"}) /\ request[q].answer = "INVALID")
            /\ request[q].target = k
      BY <1>3, <2>2 DEF Promises, EmptyClusterIsExplained
    <3>2. q # r
      BY <1>1, <3>1 DEF At
    <3> QED
      BY <1>5, <3>1, <3>2 DEF At, Promises, RequestsOK
  <2> QED
    BY <2>1, <2>2
<1>10. MembersWereAnswered'
  <2> SUFFICES ASSUME NEW k \in DOMAIN demands', demands'[k].count > 0
               PROVE  \E q \in Requests :
                        At(q, {"done"})' /\ request'[q].answer = "MEMBER" /\ request'[q].target = k
    BY DEF MembersWereAnswered
  <2>1. k \in DOMAIN demands /\ demands[k].count > 0
    BY <1>3
  <2>2. PICK q \in Requests :
          At(q, {"done"}) /\ request[q].answer = "MEMBER" /\ request[q].target = k
    BY <2>1 DEF Promises, MembersWereAnswered
  <2>3. q # r
    BY <1>1, <2>2 DEF At
  <2> QED
    BY <1>5, <2>2, <2>3 DEF At, Promises, RequestsOK
<1> QED
  BY <1>6, <1>7, <1>8, <1>9, <1>10 DEF Promises

\* A request joins a demand and is answered so (AddDemandMember).
LEMMA JoinStep ==
  ASSUME Promises, IInv, NEW r \in Requests, At(r, {"join", "joinOwn"}),
         AddDemandMember(request[r].target, request[r].user),
         request' = [request EXCEPT ![r].at = "done", ![r].answer = "MEMBER"]
  PROVE  Promises'
<1> DEFINE d == request[r].target
           u == request[r].user
           new == [request[r] EXCEPT !.at = "done", !.answer = "MEMBER"]
<1>1. request[r] \in Received /\ request[r] # Idle
  BY DEF Promises, RequestsOK, At
<1>2. /\ d \in DOMAIN demands /\ DOMAIN demands' = DOMAIN demands
      /\ demands'[d].count = demands[d].count + 1 /\ demands'[d].max = demands[d].max
      /\ demands[d].count < demands[d].max
      /\ \A k \in DOMAIN demands : k # d => demands'[k] = demands[k]
      /\ members' = members \cup {<<d, u>>}
  BY JoinedDemands
<1>3. /\ new \in Received /\ new # Idle /\ new.at = "done" /\ new.target = d
      /\ new.user = u /\ new.answer = "MEMBER"
  BY <1>1 DEF Received, Idle
<1>4. request' = [request EXCEPT ![r] = new]
  BY DEF Promises, RequestsOK
<1>5. demands[d].count \in Nat /\ demands[d].max \in Nat
  BY <1>2, DemandRow
<1> HIDE DEF new, d, u
<1>6. RequestsOK'
  BY <1>2, <1>3, <1>4 DEF Promises, RequestsOK, At
<1>7. DemandsHaveRoom'
  BY <1>2 DEF Promises, DemandsHaveRoom
<1>8. AnswersStayTrue'
  <2> SUFFICES ASSUME NEW q \in Requests, At(q, {"done"})'
               PROVE  LET k == request'[q].target
                          joined == <<k, request'[q].user>> \in members'
                      IN /\ request'[q].answer = "MEMBER" => joined
                         /\ request'[q].answer = "CONFLICT" => joined \/ demands'[k].count = demands'[k].max
    BY DEF AnswersStayTrue, At
  <2>1. CASE q = r
    BY <1>2, <1>3, <1>4, <2>1 DEF Promises, RequestsOK
  <2>2. CASE q # r
    <3>1. request'[q] = request[q] /\ At(q, {"done"})
      BY <1>4, <2>2 DEF At, Promises, RequestsOK
    <3>2. request[q].target \in DOMAIN demands
      BY <3>1 DEF Promises, RequestsOK, At
    <3>3. /\ request[q].answer = "MEMBER" => <<request[q].target, request[q].user>> \in members
          /\ request[q].answer = "CONFLICT" =>
               \/ <<request[q].target, request[q].user>> \in members
               \/ demands[request[q].target].count = demands[request[q].target].max
      BY <3>1 DEF Promises, AnswersStayTrue
    <3>4. demands[request[q].target].count = demands[request[q].target].max
            => demands'[request[q].target].count = demands'[request[q].target].max
      BY <1>2, <1>5, <3>2
    <3>5. <<request[q].target, request[q].user>> \in members
            => <<request[q].target, request[q].user>> \in members'
      BY <1>2
    <3> QED
      BY <3>1, <3>3, <3>4, <3>5
  <2> QED
    BY <2>1, <2>2
<1>9. EmptyClusterIsExplained'
  <2> SUFFICES ASSUME NEW k \in DOMAIN demands', demands'[k].count = 0
               PROVE  \E q \in Requests :
                        /\ At(q, {"joinOwn", "lost"})' \/ (At(q, {"done"})' /\ request'[q].answer = "INVALID")
                        /\ request'[q].target = k
    BY DEF EmptyClusterIsExplained
  <2>1. k # d /\ k \in DOMAIN demands /\ demands[k].count = 0
    BY <1>2, <1>5
  <2>2. PICK q \in Requests :
          /\ At(q, {"joinOwn", "lost"}) \/ (At(q, {"done"}) /\ request[q].answer = "INVALID")
          /\ request[q].target = k
    BY <2>1 DEF Promises, EmptyClusterIsExplained
  <2>3. q # r
    BY <2>1, <2>2 DEF d
  <2> QED
    BY <1>4, <2>2, <2>3 DEF At, Promises, RequestsOK
<1>10. MembersWereAnswered'
  <2> SUFFICES ASSUME NEW k \in DOMAIN demands', demands'[k].count > 0
               PROVE  \E q \in Requests :
                        At(q, {"done"})' /\ request'[q].answer = "MEMBER" /\ request'[q].target = k
    BY DEF MembersWereAnswered
  <2>1. CASE k = d
    BY <1>3, <1>4, <2>1 DEF At, Promises, RequestsOK
  <2>2. CASE k # d
    <3>1. PICK q \in Requests :
            At(q, {"done"}) /\ request[q].answer = "MEMBER" /\ request[q].target = k
      BY <1>2, <2>2 DEF Promises, MembersWereAnswered
    <3>2. q # r
      BY <3>1, <2>2 DEF d
    <3> QED
      BY <1>4, <3>1, <3>2 DEF At, Promises, RequestsOK
  <2> QED
    BY <2>1, <2>2
<1> QED
  BY <1>6, <1>7, <1>8, <1>9, <1>10 DEF Promises

\* A request is refused: the demand was rejected, is full, or has the consumer.
LEMMA RefusedStep ==
  ASSUME Promises, IInv, NEW r \in Requests, At(r, {"join", "joinOwn"}),
         ~CanJoin(request[r].target, request[r].user),
         request' = [request EXCEPT ![r].at = "done",
                       ![r].answer = IF Refused(demands[request[r].target].status)
                                     THEN "INVALID" ELSE "CONFLICT"],
         UNCHANGED vars
  PROVE  Promises'
<1> DEFINE d == request[r].target
           u == request[r].user
<1>1. request[r] \in Received /\ request[r] # Idle /\ d \in DOMAIN demands
  BY DEF Promises, RequestsOK, At
<1>2. PICK answer \in {"INVALID", "CONFLICT"} :
        /\ request' = [request EXCEPT ![r].at = "done", ![r].answer = answer]
        /\ answer = "CONFLICT" => <<d, u>> \in members \/ demands[d].count = demands[d].max
        /\ answer = "CONFLICT" => ~(<<d, u>> \notin members /\ demands[d].count < demands[d].max)
  <2>1. demands[d].count \in Nat /\ demands[d].max \in Nat /\ demands[d].count <= demands[d].max
    BY <1>1, DemandRow DEF IInv, MemberCountExact
  <2>2. ~Refused(demands[d].status) =>
          \/ <<d, u>> \in members
          \/ demands[d].count = demands[d].max /\ ~(demands[d].count < demands[d].max)
    BY <1>1, <2>1 DEF CanJoin
  <2>3. CASE Refused(demands[d].status)
    BY <2>3
  <2>4. CASE ~Refused(demands[d].status)
    BY <2>2, <2>4
  <2> QED
    BY <2>3, <2>4
<1> DEFINE new == [request[r] EXCEPT !.at = "done", !.answer = answer]
<1>3. /\ new \in Received /\ new # Idle /\ new.at = "done" /\ new.target = d
      /\ new.user = u /\ new.answer = answer
  BY <1>1 DEF Received, Idle
<1>4. request' = [request EXCEPT ![r] = new]
  BY <1>2 DEF Promises, RequestsOK
<1>5. u \in Users
  BY <1>1 DEF Received
<1>6. demands[d].count = 0 => answer = "INVALID"
  BY <1>1, <1>2, <1>5, EmptyCluster DEF Promises
<1> HIDE DEF new, d, u
<1>7. RequestsOK'
  BY <1>1, <1>3, <1>4 DEF Promises, RequestsOK, At, vars
<1>8. DemandsHaveRoom'
  BY DEF Promises, DemandsHaveRoom, vars
<1>9. AnswersStayTrue'
  BY <1>2, <1>3, <1>4 DEF Promises, RequestsOK, AnswersStayTrue, At, vars
<1>10. EmptyClusterIsExplained'
  <2> SUFFICES ASSUME NEW k \in DOMAIN demands, demands[k].count = 0
               PROVE  \E q \in Requests :
                        /\ At(q, {"joinOwn", "lost"})' \/ (At(q, {"done"})' /\ request'[q].answer = "INVALID")
                        /\ request'[q].target = k
    BY DEF EmptyClusterIsExplained, vars
  <2>1. PICK q \in Requests :
          /\ At(q, {"joinOwn", "lost"}) \/ (At(q, {"done"}) /\ request[q].answer = "INVALID")
          /\ request[q].target = k
    BY DEF Promises, EmptyClusterIsExplained
  <2>2. CASE q = r
    <3>1. k = d /\ answer = "INVALID"
      BY <1>6, <2>1, <2>2 DEF d
    <3> QED
      BY <1>3, <1>4, <2>2, <3>1 DEF At, Promises, RequestsOK
  <2>3. CASE q # r
    BY <1>4, <2>1, <2>3 DEF At, Promises, RequestsOK
  <2> QED
    BY <2>2, <2>3
<1>11. MembersWereAnswered'
  <2> SUFFICES ASSUME NEW k \in DOMAIN demands, demands[k].count > 0
               PROVE  \E q \in Requests :
                        At(q, {"done"})' /\ request'[q].answer = "MEMBER" /\ request'[q].target = k
    BY DEF MembersWereAnswered, vars
  <2>1. PICK q \in Requests :
          At(q, {"done"}) /\ request[q].answer = "MEMBER" /\ request[q].target = k
    BY DEF Promises, MembersWereAnswered
  <2>2. q # r
    BY <2>1 DEF At
  <2> QED
    BY <1>4, <2>1, <2>2 DEF At, Promises, RequestsOK
<1> QED
  BY <1>7, <1>8, <1>9, <1>10, <1>11 DEF Promises

-----------------------------------------------------------------------------
\* Every step of a request, or of the admin, is an operation of the store or
\* leaves it alone.
LEMMA StoreStep ==
  ASSUME IntakeInv, [IntakeNext]_intakeVars
  PROVE  [Next]_vars
<1>1. ASSUME NEW r \in Requests, NEW d \in DemandIds, Create(r, d)
      PROVE  Next
  <2>1. request[r] \in Received /\ request[r] # Idle /\ request[r].at = "create"
    BY <1>1 DEF IntakeInv, RequestsOK, Idle, Create
  <2>2. /\ request[r].form.limit \in MemberLimits /\ request[r].form.spec \in Specs
        /\ request[r].user \in Users
    BY <2>1 DEF IntakeInv, RequestsOK, At, Forms, Received
  <2> QED
    BY <1>1, <2>2 DEF Create, Next
<1>2. ASSUME NEW r \in Requests, request[r].at \in {"join", "joinOwn"},
             AddDemandMember(request[r].target, request[r].user)
      PROVE  Next
  <2>1. request[r] \in Received /\ request[r] # Idle
    BY <1>2 DEF IntakeInv, RequestsOK, Idle
  <2>2. request[r].target \in DemandIds /\ request[r].user \in Users
    BY <1>2, <2>1 DEF IntakeInv, IInv, TypeOK, IsMap, RequestsOK, At, Received
  <2> QED
    BY <1>2, <2>2 DEF Next
<1>3. ASSUME NEW d \in DemandIds, NEW decision \in DemandDecisions, Review(d, decision)
      PROVE  Next
  BY <1>3 DEF Review, Next
<1>4. ASSUME NEW r \in Requests, Join(r)
      PROVE  [Next]_vars
  BY <1>2, <1>4 DEF Join
<1> QED
  BY <1>1, <1>3, <1>4
  DEF IntakeNext, intakeVars, PostDemand, PostMember, Receive, Serve, Find, Die

\* Every step keeps the promises.
LEMMA PromisesStep ==
  ASSUME Promises, IInv, IntakeNext
  PROVE  Promises'
<1>1. ASSUME NEW r \in Requests, Join(r)
      PROVE  Promises'
  <2>1. At(r, {"join", "joinOwn"})
    BY <1>1 DEF Join, At, Idle
  <2> QED
    BY <1>1, <2>1, JoinStep, RefusedStep DEF Join
<1>2. ASSUME NEW r \in Requests, Serve(r)
      PROVE  Promises'
  BY <1>1, <1>2, FindStep, CreateStep DEF Serve
<1>3. CASE \E r \in Requests, u \in Users, form \in Forms : PostDemand(r, u, form)
  BY <1>3, ReceiveStep
<1>4. CASE \E r \in Requests, u \in Users, d \in DemandIds : PostMember(r, u, d)
  BY <1>4, ReceiveStep
<1> QED
  BY <1>2, <1>3, <1>4, DieStep, ReviewStep DEF IntakeNext

\* Nobody has asked for anything yet.
LEMMA InitIntakeInv == IntakeInit => IntakeInv
<1> SUFFICES ASSUME IntakeInit PROVE IntakeInv
  OBVIOUS
<1>1. IInv
  BY InitIInv DEF IntakeInit
<1>2. DOMAIN demands = {}
  BY EmptyIsMap DEF IntakeInit, Init
<1>3. \A r \in Requests : request[r] = Idle
  BY DEF IntakeInit
<1>4. request \in [Requests -> {Idle} \cup Received]
  BY DEF IntakeInit
<1> QED
  BY <1>1, <1>2, <1>3, <1>4
  DEF IntakeInv, RequestsOK, DemandsHaveRoom, AnswersStayTrue, EmptyClusterIsExplained,
      MembersWereAnswered, At

\* Every step keeps the inductive invariant.
LEMMA NextIntakeInv == IntakeInv /\ [IntakeNext]_intakeVars => IntakeInv'
<1> SUFFICES ASSUME IntakeInv, [IntakeNext]_intakeVars PROVE IntakeInv'
  OBVIOUS
<1>1. IInv'
  BY StoreStep, NextIInv DEF IntakeInv
<1>2. Promises
  BY DEF IntakeInv, Promises
<1>3. Promises'
  <2>1. CASE IntakeNext
    BY <1>2, <2>1, PromisesStep DEF IntakeInv
  <2>2. CASE UNCHANGED intakeVars
    BY <1>2, <2>2 DEF intakeVars, vars, Promises, RequestsOK, DemandsHaveRoom, AnswersStayTrue,
       EmptyClusterIsExplained, MembersWereAnswered, At
  <2> QED
    BY <2>1, <2>2
<1> QED
  BY <1>1, <1>3 DEF IntakeInv, Promises

\* The inductive invariant holds in every reachable state.
THEOREM IntakeInvariance == IntakeSpec => []IntakeInv
BY InitIntakeInv, NextIntakeInv, PTL DEF IntakeSpec

\* The requests and the store stay typed.
THEOREM IntakeTypeCorrect == IntakeSpec => []IntakeTypeOK
<1>1. IntakeInv => IntakeTypeOK
  BY DEF IntakeInv, IInv, RequestsOK, IntakeTypeOK
<1> QED
  BY <1>1, IntakeInvariance, PTL

\* A 200, 201 or 409 of the two demand handlers stays true, for any number of
\* concurrent requests and reviews (handleCreateDemand, handleJoinDemand).
THEOREM AnswersAreNeverTakenBack == IntakeSpec => []AnswersStayTrue
<1>1. IntakeInv => AnswersStayTrue
  BY DEF IntakeInv
<1> QED
  BY <1>1, IntakeInvariance, PTL

\* A cluster nobody is in has a creator that is about to join it, died before it
\* could, or was overtaken by a rejection (handleCreateDemand).
THEOREM EmptyClustersHaveAReason == IntakeSpec => []EmptyClusterIsExplained
<1>1. IntakeInv => EmptyClusterIsExplained
  BY DEF IntakeInv
<1> QED
  BY <1>1, IntakeInvariance, PTL

\* The creator of a cluster gets in unless somebody else was answered first or
\* an admin rejected the cluster (handleCreateDemand).
THEOREM CreatorsGetIn == IntakeSpec => []CreatorRefusedOnlyIfOvertaken
<1>1. IntakeInv => CreatorRefusedOnlyIfOvertaken
  <2> SUFFICES ASSUME IntakeInv, NEW r \in Requests, At(r, {"joinOwn"}),
                      ~CanJoin(request[r].target, request[r].user),
                      ~Refused(demands[request[r].target].status)
               PROVE  \E q \in Requests \ {r} :
                        At(q, {"done"}) /\ request[q].answer = "MEMBER"
                        /\ request[q].target = request[r].target
    BY DEF CreatorRefusedOnlyIfOvertaken
  <2> DEFINE d == request[r].target
  <2>1. d \in DOMAIN demands /\ request[r].user \in Users
    BY DEF IntakeInv, RequestsOK, At, Received
  <2>2. demands[d].count # 0
    BY <2>1, EmptyCluster DEF IntakeInv, CanJoin
  <2>3. demands[d].count > 0
    BY <2>1, <2>2, DemandRow DEF IntakeInv
  <2> QED
    BY <2>1, <2>3 DEF IntakeInv, MembersWereAnswered, At
<1> QED
  BY <1>1, IntakeInvariance, PTL

\* Whatever the requests do, the store they run on behaves as Market: all that
\* is proved of its rows holds under the handlers.
THEOREM RequestsRunTheStore == IntakeSpec => Spec
<1>1. IntakeInit => Init
  BY DEF IntakeInit
<1> QED
  BY <1>1, StoreStep, IntakeInvariance, PTL DEF IntakeSpec, Spec
=============================================================================
