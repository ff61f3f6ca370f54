------------------------------- MODULE Intake -------------------------------
(***************************************************************************)
(* The consumer requests that form demand clusters: POST /v1/demands       *)
(* (handleCreateDemand) and POST /v1/demands/{id}/join                     *)
(* (handleJoinDemand), served concurrently over the store of Market.       *)
(*                                                                         *)
(* handleCreateDemand makes two or three store calls, FindMatchingDemand,  *)
(* CreateDemand and AddDemandMember, each atomic on its own; between them  *)
(* other requests and the admin's reviews run.  A request may also die     *)
(* between two calls: its context is cancelled when the client goes away   *)
(* or the server stops, and the next call then fails (PostgresStore).      *)
(***************************************************************************)
EXTENDS Market

CONSTANTS Requests, NoDemand, NoForm

VARIABLE request    \* request[r]: where the handler of r stands

intakeVars == <<vars, request>>

\* at      "idle" not yet received; "find", "create", "join", "joinOwn" the
\*         store call the handler makes next; "done" answered; "lost" died
\*         between two calls
\* form    the body of POST /v1/demands
\* target  the demand found, created or named in the URL
\* answer  "" none yet, "MEMBER" 200 or 201, "CONFLICT" store.ErrConflict,
\*         "INVALID" store.ErrInvalid
Idle == [at |-> "idle"]
Forms == [spec : Specs, limit : MemberLimits]
Received ==
  [at : {"find", "create", "join", "joinOwn", "done", "lost"}, user : Users,
   form : Forms \cup {NoForm}, target : DemandIds \cup {NoDemand},
   answer : {"", "MEMBER", "CONFLICT", "INVALID"}]

IntakeTypeOK == TypeOK /\ request \in [Requests -> {Idle} \cup Received]

IntakeInit == Init /\ request = [r \in Requests |-> Idle]

Receive(r, at, u, form, d) ==
  /\ request[r] = Idle
  /\ request' = [request EXCEPT ![r] =
       [at |-> at, user |-> u, form |-> form, target |-> d, answer |-> ""]]
  /\ UNCHANGED vars

At(r, places) == request[r] # Idle /\ request[r].at \in places

\* Bound of the model: no more requests to create a demand than identifiers.
IdsLeft ==
  Cardinality(DOMAIN demands) + Cardinality({r \in Requests : At(r, {"find", "create"})})
    < Cardinality(DemandIds)

PostDemand(r, u, form) == IdsLeft /\ Receive(r, "find", u, form, NoDemand)

\* handleJoinDemand goes straight to AddDemandMember on the demand of the URL.
PostMember(r, u, d) ==
  /\ d \in DOMAIN demands
  /\ Receive(r, "join", u, NoForm, d)

Find(r) ==
  /\ request[r].at = "find"
  /\ \/ \E d \in MatchingDemands(request[r].form.spec) :
          request' = [request EXCEPT ![r].at = "join", ![r].target = d]
     \/ /\ MatchingDemands(request[r].form.spec) = {}
        /\ request' = [request EXCEPT ![r].at = "create"]
  /\ UNCHANGED vars

\* Faulty variant: the creator is answered without being joined.
CreateOnly(r, d) ==
  /\ request[r].at = "create"
  /\ CreateDemand(d, request[r].user, request[r].form.spec, request[r].form.limit)
  /\ request' = [request EXCEPT ![r].at = "done", ![r].target = d, ![r].answer = "MEMBER"]

Create(r, d) ==
  /\ request[r].at = "create"
  /\ CreateDemand(d, request[r].user, request[r].form.spec, request[r].form.limit)
  /\ request' = [request EXCEPT ![r].at = "joinOwn", ![r].target = d]

\* Faulty variant: every refusal is answered as a conflict.
JoinConflictOnly(r) ==
  /\ request[r].at \in {"join", "joinOwn"}
  /\ LET d == request[r].target
         u == request[r].user
     IN \/ /\ AddDemandMember(d, u)
           /\ request' = [request EXCEPT ![r].at = "done", ![r].answer = "MEMBER"]
        \/ /\ ~CanJoin(d, u)
           /\ request' = [request EXCEPT ![r].at = "done", ![r].answer = "CONFLICT"]
           /\ UNCHANGED vars

\* AddDemandMember on the matched demand, or on the one just created.
Join(r) ==
  /\ request[r].at \in {"join", "joinOwn"}
  /\ LET d == request[r].target
         u == request[r].user
     IN \/ /\ AddDemandMember(d, u)
           /\ request' = [request EXCEPT ![r].at = "done", ![r].answer = "MEMBER"]
        \/ /\ ~CanJoin(d, u)
           /\ request' = [request EXCEPT ![r].at = "done",
                ![r].answer = IF Refused(demands[d].status) THEN "INVALID" ELSE "CONFLICT"]
           /\ UNCHANGED vars

Die(r) ==
  /\ request[r].at \in {"find", "create", "join", "joinOwn"}
  /\ request' = [request EXCEPT ![r].at = "lost"]
  /\ UNCHANGED vars

Review(d, decision) == ReviewDemand(d, decision) /\ UNCHANGED request

Serve(r) == Find(r) \/ (\E d \in DemandIds : Create(r, d)) \/ Join(r)

IntakeNext ==
  \/ \E r \in Requests, u \in Users, form \in Forms : PostDemand(r, u, form)
  \/ \E r \in Requests, u \in Users, d \in DemandIds : PostMember(r, u, d)
  \/ \E r \in Requests : Serve(r)
  \/ \E r \in Requests : Die(r)
  \/ \E d \in DemandIds, decision \in DemandDecisions : Review(d, decision)

IntakeSpec == IntakeInit /\ [][IntakeNext]_intakeVars

-----------------------------------------------------------------------------

\* A consumer answered 200 or 201 is a member of the demand in the answer, and
\* one answered 409 CONFLICT was already in it or found it full: the answer is
\* still true however the demand is reviewed and joined afterwards.
AnswersStayTrue ==
  \A r \in Requests :
    At(r, {"done"}) =>
      LET d == request[r].target
          joined == <<d, request[r].user>> \in members
      IN /\ request[r].answer = "MEMBER" => joined
         /\ request[r].answer = "CONFLICT" => joined \/ demands[d].count = demands[d].max

\* The member that opens a cluster arrives with it: when nobody is in a cluster,
\* a request that reached it by creating it is about to join it, or one that
\* reached it in either way was cut off or found it rejected (the two store
\* calls of handleCreateDemand).
EmptyClusterIsExplained ==
  \A d \in DOMAIN demands :
    demands[d].count = 0 =>
      \E r \in Requests :
        /\ At(r, {"joinOwn", "lost"}) \/ (At(r, {"done"}) /\ request[r].answer = "INVALID")
        /\ request[r].target = d

\* The request that opened a cluster can join it unless another request joined
\* the cluster first or an admin rejected it between the two store calls.
CreatorRefusedOnlyIfOvertaken ==
  \A r \in Requests :
    At(r, {"joinOwn"}) =>
      LET d == request[r].target
      IN CanJoin(d, request[r].user)
         \/ Refused(demands[d].status)
         \/ \E q \in Requests \ {r} : At(q, {"done"}) /\ request[q].answer = "MEMBER"
                                      /\ request[q].target = d
=============================================================================
