# chihuo: TLA+ models, checks and proofs

chihuo is a marketplace for pre-sold meals. Consumers describe what they want to eat and are
grouped into *demand clusters*; approved merchants make *offers* for a cluster and open *campaigns*
on an offer; consumers place *orders* against a campaign. The Go service in `src/backend-go` is the
system of record; this directory models it in TLA+, checks the models with TLC, and proves with TLAPS, for
instances of any size, every safety property and refinement that TLC checks and finds true.

`PROJECT.json` lists components, runs, mutants, the map from definitions to source lines, findings,
hazards and theorems.

## 1. Inventory

Paths below `src/backend-go/internal/` unless said otherwise.

| Component | State | Operations | What makes it correct |
|---|---|---|---|
| Marketplace store, in memory (`store/memory.go`) | maps of users, merchants, demands, members, offers, campaigns, orders | create-or-get merchant, review merchant / demand / campaign, create demand, join, create offer / campaign / order | counters equal the rows they count, no limit is exceeded, READY and SOLD_OUT are earned, an open campaign stands on an accepted offer |
| Marketplace store, PostgreSQL (`store/postgres.go`) | the same, as rows; open transactions and row locks | the same, as READ COMMITTED transactions of several statements | the same promise under concurrency, no lost review, no deadlock |
| Demand requests (`httpapi/handlers.go`, `contracts.go`) | where each running request stands | create-or-join a demand (find, create, join), join a demand | answers are true and stay true; what a cut-off request leaves behind is known |
| Idempotent mutations (`httpapi/json.go`) | a mutex per key in each process, records in the store | execute once, replay, refuse another body | one outcome per key for its clients |
| Payment sandbox (`payment/sandbox.go`, `state.go`) | payments, refunds, remembered keys | prepay, close, pay, refund, complete refund | the platform's state machine accepts whatever the provider does; refunds stand on payments |
| Payment callbacks (`payment/callback.go`, `httpapi/payment_handlers.go`) | none (events are acknowledged, not stored) | verify and parse | - |
| Food safety, in memory (`safety/memory.go`, `state.go`) | qualifications, batches and the index of their orders, incidents, recalls, dispositions, evidence | submit, inspect and review a qualification; create, produce, fill and move a batch; report, contain and close an incident; create, initiate and complete a recall; plan and complete a disposition; add evidence | only examined merchants produce; an order, by the text of its id, is in one batch; what is withdrawn stays withdrawn; a contained incident's and a recall's batches are out of trade; quantities of a recall add up |
| Food safety, PostgreSQL (`safety/postgres.go`) | the same as rows, without recalls and dispositions; the chain of evidence of each record; open transactions, row and advisory locks | the same as READ COMMITTED transactions; append to and verify a chain | it does what the service in memory does; no batch holds an order twice; a chain is never forked and verifies; whoever waits for a lock gets it or is told of a deadlock |
| Rate limiter (`ratelimit/limiter.go`) | a counter per key and second, in the process or in Redis | allow | limit respected, counters expire |
| Authentication (`auth/jwt.go`, `httpapi/middleware.go`) | none | sign, verify, compare roles | - |
| Legacy API (`src/apps/api`) | the same market plus order fulfilment and rider tasks | order transitions, claim and update a task | task and order agree |
| Front-ends, mini-programs, deployment (`src/apps/*`, `src/miniprograms`, `src/deploy`, `src/docs`) | view state, manifests | - | - |

Interaction: the HTTP handlers run concurrently, one goroutine per request. A mutating handler is
wrapped in `executeMutation` (idempotency), makes one store call, and `handleCreateDemand` two or
three. The store is one process's memory behind one lock or one PostgreSQL database shared by
several replicas (`src/deploy/go/k8s/base/api.yaml` asks for three). Payment and safety keep stores
of their own and do not touch the marketplace's.

What is hard: interleaved store calls of concurrent requests and admin reviews; transactions that
compute what they write from a row read earlier; requests cut off between two calls; retries, at
the same replica or another; reviews that apply from any status; refund results in any order; locks
taken in an order a client chose; what is hashed before it is stored.
`PROJECT.json` lists the hazards at their lines with the properties that cover them.

## 2. Modules

| Module | Models | Role |
|---|---|---|
| `Seats` | - | abstract specification: resources of limited capacity, at most one claim per claimant, claim and counter move together |
| `Market` | `store/memory.go` | one action per store operation; refines `Seats` twice |
| `Intake` | `httpapi/handlers.go` over `Market` | requests as sequences of store calls |
| `PgMarket` | `store/postgres.go` | `Market`'s operations as transactions; refines `Seats` twice |
| `AtMostOnce` | - | abstract specification of an idempotency key |
| `Idempotency` | `httpapi/json.go`, `Get/PutIdempotency` | attempts, replicas, mutexes, records; refines `AtMostOnce` |
| `PaymentLifecycle` | `payment/state.go` | abstract specification: the platform's payment and refund state machines |
| `Sandbox` | `payment/sandbox.go` | the provider; refines `PaymentLifecycle` |
| `Production` | `safety/memory.go`, qualifications and batches | one action per service call |
| `Containment` | `safety/memory.go`, incidents, recalls, dispositions | composes `Production`: quarantine and recall move its batches |
| `SafetyPg` | `safety/postgres.go` | the operations of `Production` and `Containment` as transactions; refines `Containment` |
| `MarketProofs`, `IntakeProofs`, `PgMarketProofs`, `IdempotencyProofs`, `SandboxProofs`, `ProductionProofs`, `ContainmentProofs`, `SafetyPgProofs` | - | theorems about the module named, proved with TLAPS (section 5) |
| `MCMarket`, `MCIntake`, `MCPgMarket`, `MCSafetyPg` | - | instances for TLC |

**Market.** A Go map is a function whose domain is the keys present; `Put` is the map assignment;
`newID` is any identifier not in use. A call that returns an error changes nothing, so only
successful calls are actions and their guards are the early returns they get past. Statuses,
limits, counters and references are kept; titles, prices, weights of a member, times and the consumer of
an order, which no operation looks at again, are not.
A merchant is named by its owner, since the store keeps one per owner. `ReviewX` takes the
decisions its admin handler lets through, from any current status, as in the code.

**Intake.** `request[r]` is the handler of `r` between two store calls. `Find` returns any matching
cluster (the order of a Go map range), `Create` and `Join` are actions of `Market`, `Die` is a
cancelled context or a stopped server. Admin reviews interleave.

**PgMarket.** The variables of `Market` are the committed rows; `tx[s]` is the transaction on
connection `s`. Each reading statement is a step; what is written after the last read is one step
with the commit. `FOR UPDATE` excludes other lockers and updaters (`DemandFree`, `CampaignFree`),
plain reads do not wait, a foreign key's `KEY SHARE` lock waits for `FOR UPDATE`. `ReviewCampaign` is the
one operation that locks two rows: it holds its campaign when `AcceptOffer`, its UPDATE of the offer, waits
until no other review has updated that offer (`OfferFree`). What that statement writes is seen by others from
`CommitReview` on. `Abort` is a cancelled request, a lost connection or a stopped replica, at any of these points.

**Idempotency.** An attempt walks through lock, get, run, put. `Inside(replica, k)` is the set of
attempts holding the mutex of `k` in one process. `Put` keeps an existing record and compares its
fingerprint, as both stores do. `Fragile` names the attempts that may be cut off or meet a failing
store, so that a run can say which failures it assumes.

**Sandbox.** Every operation runs under the provider's mutex and is one action. A fingerprint is
the request itself; the key is outside a prepay's fingerprint and inside a refund's, as the JSON
tags say. `accepted` is a history variable used by one property only.

**Production.** Every call holds the service's mutex and is one action. `now` is the clock, since a
qualification counts only while its permits have not expired (`HasApprovedQualification`); a call reads it
as `at` and writes when the clock may have moved on. A call lists finitely many orders, of which there may
be any number. The code never moves a qualification to SUSPENDED or EXPIRED itself, so neither does the
model. Shelf life, lots, prices of ingredients and texts are left out.

**Containment.** `Quarantined` is `quarantineBatchLocked` over an incident's batches; `CanQuarantine`
and `CanMarkRecalled` are checked for all batches before any is moved, as in the code. `TransitionRecall`
is three actions, one per kind of target. `evidenced` is all that evidence decides: a physical
disposition is not completed without.

**SafetyPg.** The variables of `Production` and `incidents` are the committed rows, `tx[s]` the transaction
of session `s`. `BeginX` is the statement `SELECT ... FOR UPDATE` that gets the operation's first row, with
the checks made on it; `wants` is the set of rows still to be locked, of which `NextLock` names the next
(the batches of an incident in the order of its list, the orders of a batch in the order of their ids, by
advisory locks); `LockNext` takes it, with the check made under it; `CommitX` is the write and the commit,
which no other session can come between since the rows are locked. What is checked at `BeginX` is not
checked again at `CommitX`: that the locks make this safe is what `ImplementsService` says. A deadlock is a
circle of waiting sessions; PostgreSQL ends one of them and the call fails. An evidence hash stands for what
it is computed from, so two hashes are equal exactly when what they cover is; the precision of a timestamp
is one of two values. The clock of CreateBatch is read before the transaction begins, those of the other
calls under the lock. An inspection counts if its `inspected_at`, which the inspector states, is the latest,
where the service in memory takes the one recorded last: the step is one of `Production` or changes nothing.
Orders are texts (`TextOrder`), and `UuidOf` says which order a text means: the column is a UUID, which may be
written in upper or lower case, the advisory lock is taken on the text, and the lookup of an order's batch is
by UUID (`SameOrder` in `Passes`). Two calls that spell an order differently therefore do not wait for each
other. Two texts whose hashes collide would share a lock; here each text has its own. The service in memory
keys orders by the text alone, and `ImplementsService` refines that service: neither promises that an order, in whatever spelling, is in one batch. What PostgreSQL does promise is
`NoOrderTwiceInABatch`. A report of an incident names batches, orders or both (`Reports`).

*Faulty variants.* A definition announced by the comment "Faulty variant" states a plausible bug in
the definition that follows it. No specification uses it; putting it in place of its original makes
TLC report the property listed with it under `mutants`, which shows the property depends on the
code it is about.

## 3. Runs

| Run | Instance | Shows |
|---|---|---|
| `market` | 2 consumers, 1 merchant, 1 demand, 1 offer, 2 campaigns, 3 orders; quantities 1 and 2 | counters, READY, SOLD_OUT, campaign and offer agree through every sequence of operations; `Seats` for members and for orders |
| `intake` | 3 requests, 2 consumers, 2 specifications, 2 demands of one seat | answers stay true, an empty cluster is explained, the creator is refused only if overtaken |
| `pgmarket` | 2 sessions, 2 consumers, 1 merchant, 1 demand of one seat, 1 offer, 2 campaigns on it, 2 orders | the same `Seats` as `market` under concurrency; reviews are not lost; every transaction ends, also one that waits for the offer while it holds its campaign |
| `idempotency` | 1 replica, 3 attempts, 2 keys, 2 bodies, 2 fragile attempts | `AtMostOnce`; answers report effects that happened; every attempt ends |
| `idempotency_replicas` | the same with 2 replicas and no failure | finding: one request, two effects and two responses |
| `idempotency_retry` | 1 replica, 1 fragile attempt | finding: a retry repeats an effect that was not recorded |
| `sandbox` | 2 payments, 2 refunds, 3 keys, amounts 1 and 2 | `PaymentLifecycle`; refunds stand on payments; a remembered key keeps its request |
| `production` | 2 merchants, 1 qualification, 2 batches planned for 2, 2 orders of 1 or 2, 2 instants | batches of examined merchants, orders in one batch, withdrawal for good, while permits expire |
| `containment` | 1 merchant, 2 batches, 1 incident, 1 recall, 1 disposition, quantities of 1 | containment and recalls withdraw every batch for good, closing waits for recalls |
| `containment_recall` | the same with 1 batch | finding: recovered and disposed exceed affected |
| `safetypg` | 2 sessions, 1 merchant, 2 batches, 2 incidents that list both in either order, 2 orders of which one is written in two ways, chains of 2, 2 instants | concurrent sessions implement `Containment` without recalls; no batch holds an order twice; chains stay unbroken; only containments deadlock, and every call ends |
| `safetypg_precision` | 1 session, 1 incident, timestamps of either precision | finding: a recorded chain does not verify |

*Bounds.* Two users and a limit of two reach a full cluster, a duplicate join and a READY one; three
orders with quantities up to two against capacities two and three reach an exact fill, an overshoot
and a reopened SOLD_OUT campaign; two campaigns share one offer. Demands in `intake` have one seat
so that a matched cluster fills up between the two store calls; two of them let a consumer be
refused by one and create another. `IdsLeft` bounds the requests that may create. In `pgmarket` two sessions
are enough for two transactions to meet on a row, and for two reviews that hold a campaign each to meet on
their offer; a third session waits like the second. `MerchantReviews` restricts the decisions on merchants to
APPROVED there: what a suspension does to offers is in `market`. Three attempts on one key are a first
request, a retry and a reuse with another body. Three keys let one stay unused while a payment and a refund have theirs. In
`production` one qualification is enough because a merchant without one is there too, permits that expire
at 1 or at 2 against a clock of 0 and 1 expire before or after approval, and two orders of up to two
portions fill or overfill a batch of two. `containment` has one incident and one recall: others would meet
them only through a batch's status, and `TransitionBatch` already moves a batch along every transition the
table allows, at any time, and two recalls of one incident meet only at its closing, which asks the same
of each. Its batches get no orders (that is run `production`), so they
are quarantined from every status up to READY_FOR_HANDOFF; two of them show that all are moved or none.
`safetypg` has two sessions, enough for each pair of operations to meet on a row and for a circle of two;
a circle needs two incidents that list two batches in opposite orders, and a wrong order of advisory
locks two batches and two orders; a third text spells one of the orders
once more, alone in a call, together with the first spelling in one call, which is refused after it has locked
one of them, and so also in two calls at once, which put the order into two batches. The plan of two portions
holds all that the calls ask for, so it never refuses here: run `production` meets that bound, and
`TransactionsKeepProduction` proves it for sessions. One quantity (`ProducedQuantities`) is recorded as
produced. It transitions batches to SCHEDULED and PRODUCING and incidents to
CONTAINED only: the other targets lock one row each and take the same path through the transaction, and
`production` and `containment` check their conditions.

*Symmetry* is used only in `market`, which has no liveness property.

*Deadlock* is checked in `market`, `pgmarket` and `sandbox`. `intake` and `idempotency` have finitely
many requests and stop when all are answered; `production`, `containment` and `safetypg` stop when every batch
is in its last status, every record in a final one and every chain as long as its bound.

*Fairness.* `PgMarket` and `Idempotency`: strong fairness, since PostgreSQL queues those who wait for a row
lock and `sync.Mutex` hands over to a starving waiter, so who waits for a lock that is released again
and again gets it. `SafetyPg` assumes the same of its locks (`LockNext`), that a transaction that has
its locks commits, and that a circle is detected (`deadlock_timeout`). No fairness is assumed of arrivals, admin decisions, aborts or failures.

## 4. Findings

1. `SameRequestSameResponse`: the README promises the original response for a reused key; through two
   replicas both execute, since the mutex is per process and the second record is dropped silently.
2. `OneEffectPerKey`: the README calls replay protection database-atomic; the operation and its record
   are two transactions, and a request cut off between them is executed again by its retry.
3. `RecallQuantitiesConsistent`: a recall is valid only if recovered and disposed quantities together do
   not exceed the affected one, and completing it checks that; completing a DESTROY disposition afterwards
   checks the disposed quantity alone and adds to it.
4. `RecordedEvidenceVerifies`: the package promises adapters that keep the evidence-chain invariants, and its
   PostgreSQL test expects a recorded chain to verify; AddEvidence hashes the time with nanoseconds (its
   default is the current time), the column keeps microseconds, and VerifyEvidenceChain rejects the record.

The first, second and fourth are disagreements of documentation or tests and code, the third of two checks in
the code; what to change is the team's choice.

Met while modelling and not checked by a run: FindMatchingDemand returns the first match of a map range
though the README calls aggregation deterministic (matching is not transitive, ranges overlap); the sandbox
does not remember a key that came with a replayed trade number; an inspection with an earlier `inspected_at`
than the one on record counts in memory and not in PostgreSQL.

One order in two batches: `AssociateOrders` takes its advisory lock on the text of an order's id
(`safety/postgres.go:692-694`), `isSafetyUUID` (1770-1788) accepts upper and lower case for the UUID column, and
the primary key of the table is only `(batch_id, order_id)` (`002_production_p0.sql:114-121`). Two overlapping
calls that spell the id differently both find no row and both commit. The model reaches this state; the
service in memory gets there without any overlap, since its index is keyed by the text. No document of the
repository names the case, so it is reported here and not as a finding. `NoOrderTwiceInABatch` is what holds in
any case, `OrdersInOneBatchIfSpelledOneWay` what holds if clients keep to one spelling. Spelling matters to
evidence too, where the model has one name per record: the hash covers the subject's and the collector's id as
the caller wrote them, the columns keep UUIDs, and verification takes the subject as its own caller writes it.

## 5. Proofs

TLC checks the instances of section 3; the theorems hold for every value of the constants that satisfies the
modules' assumptions: any number of users, merchants, demands, batches, incidents, attempts, requests and
sessions. Every invariant, action property and refinement of a passing run is the statement of one of them.

Each module follows one argument. A property is seldom inductive as it stands; the inductive invariant joins
it with what its steps rely on. One lemma per operation (or per kind of step, where operations have a shape in
common) shows that it is kept, one collects the actions of `Next`, and the theorem follows with PTL. The
invariants below were checked with TLC on the instances of section 3 before they were proved.

| Module | Inductive invariant | Properties proved |
|---|---|---|
| `MarketProofs` | `IInv` | `TypeOK`, `MemberCountExact`, `ReadyMeansMinimumMet`, `CampaignStandsOnItsOffer`, `SoldOutExactlyWhenFull`; `Seats` for members and for orders |
| `IntakeProofs` | `IntakeInv` | `IntakeTypeOK`, `AnswersStayTrue`, `EmptyClusterIsExplained`, `CreatorRefusedOnlyIfOvertaken`; the store's invariant below concurrent handlers |
| `PgMarketProofs` | `PgInv` | `PgTypeOK`, `CampaignStandsOnItsOffer`, `MemberCountExact`, `ReadyMeansMinimumMet`, `SoldOutExactlyWhenFull`, `WritesKeepReviews`; `Seats` twice |
| `IdempotencyProofs` | `IdemInv`, `OneReplicaInv` | `IdemTypeOK`, `AnswersAreEffects`; with one replica `OneSoundEffect` and `AtMostOnce` |
| `SandboxProofs` | `SandboxInv` | `SandboxTypeOK`, `RefundsStandOnPayments`, `KeysKeepTheirRequest`; `PaymentLifecycle` |
| `ProductionProofs` | `ProductionInv` | types, `BatchesOfExaminedMerchants`, `OrdersInOneBatch`, `HandedOverWasProduced`, `WithdrawnStaysWithdrawn` |
| `ContainmentProofs` | `ContainmentInv` | `ContainmentTypeOK`, `ContainedBatchesAreWithdrawn`, `RecallReachesItsBatches`, `ClosedIncidentsHaveNoActiveRecall`, `DisposedWithinAffected`, `WithdrawalFollowsBatchLifecycle` |
| `SafetyPgProofs` | `SafetyPgInv` | `SafetyPgTypeOK`, `EvidenceChainsUnbroken`, `OnlyContainmentsDeadlock`, `NoOrderTwiceInABatch`; `BatchesOfExaminedMerchants`, `PlansAreKept` and `HandedOverWasProduced` of `Production`; `Containment` (`ImplementsService`) |

**MarketProofs.** `IInv == TypeOK /\ CampaignStandsOnItsOffer /\ ReadyMeansMinimumMet /\
SoldOutExactlyWhenFull /\ MembersFinite /\ MemberCountExact`. The parts need each other: `ReviewCampaign`
writes back the offer of its campaign, so types are kept only because a campaign's offer exists;
`MemberCountExact` needs the member set of a demand to be finite to count one more; a demand that was not
there has no member, which is part of `TypeOK`; the capacity bounds need the limits' assumptions for a fresh
campaign. The refinements map every action to a step or a stutter of `Seats`; the actions that do not touch a
seat are shown to leave the mapped variables alone.

**IntakeProofs.** Each step of a handler is an operation of `Market` or leaves the store alone
(`RequestsRunTheStore`), so `IInv` carries over. The rest relates requests to clusters: `RequestsOK` (a
handler that joins works on a demand that exists), `DemandsHaveRoom` (a fresh cluster admits somebody, which
the validation of its maximum ensures) and `MembersWereAnswered`. The last is what makes
`CreatorRefusedOnlyIfOvertaken` provable: the cluster of a refused creator is full or closed, and if it has
members, others were told so.

**PgMarketProofs.** The committed rows satisfy `IInv`. What a commit writes was read earlier, so `PgInv` adds
`StillTrue`: the row that a transaction read `FOR UPDATE` is the committed row, with the check made on it, and
its identifier is unused. That survives the steps of other sessions because of `AreApart`: no row has two
holders and no identifier two owners. Three commits are *not* operations of `Market`: `CommitReview`,
`InsertOffer` and `InsertCampaign` rest on a demand that was read without a lock and may be closed by now.
They are shown to keep the invariant and to be stutters or steps of `Seats` all the same.

**IdempotencyProofs.** `AnswersAreEffects` holds for any number of replicas: a record is written by an attempt
whose operation committed. `OneSoundEffect` and `AtMostOnce` have the hypothesis `OneReplica`, which the
mutex in a process's memory requires; run `idempotency_replicas` is the counterexample without. `OneReplicaInv`
says that one attempt is inside the mutex of a key, that it found no record, and that a key with a sound effect
has a record of it or its attempt is about to write one.

**SandboxProofs.** A replayed prepay or refund is found by the number in its request, so `SandboxInv` needs
rows to stand under the number of their own request and the request of a remembered key to have been carried
out; types then follow for what a replay returns.

**ProductionProofs.** That the orders of a batch stay within its plan is a statement about a sum over a finite
map. The first section proves what such a sum is from the library's fold (it exists, it is the same for maps
that agree, a union of disjoint maps adds up): induction over sets is out of the provers' reach, so a
counterexample is assumed, a smallest one is picked by well-foundedness of the strict-subset order, and its
sum is unfolded once. `QualificationsExamined` is the strengthening for examined merchants: what was submitted
is complete, what is approved passed its inspection.

**ContainmentProofs.** `StepKeepsInv` reduces operations to what they do to batches (`BatchesMove`),
incidents, recalls and dispositions: each moves along its lifecycle and keeps the references between them.
`RecalledIncidentsWereConfirmed` is the strengthening: an incident can be dismissed only before it is
confirmed, so one that has a recall never is. `DestructionIsBounded` is what is true in place of finding 3:
destroyed goods alone stay within what the recall affects.

**SafetyPgProofs.** `Checks` repeats what a transaction checked as if it were checked now, and the invariant
says that it is still so: rows it holds are held by nobody else (`AreApart`), and whoever writes a row holds
it. A step begins a transaction, takes a lock or ends one; `LockingStep` and `EndingStep` show what each
keeps, and each commit is shown to be the operation of the service in memory, so that the refinement is
one case per commit. Two clocks are the exception to "checked now": a permit or an expiry was checked at an
instant that has passed, which is also what `Production` says. `OrdersNeverDeadlock`: a call that locks orders
holds its batch and orders that precede those it waits for. In a circle with such a call there would be a last
order, in `TextOrder`, that a member waits for and another holds; its holder would wait in the circle too, for
a later one. `OrdersOncePerBatch`: the orders a call has locked were looked up by UUID among all committed
rows and its own, and only holders of the batch's row add to it, so for the rows of *this* batch the answer
still stands at the commit; for those of other batches it need not. With one spelling per order the lock on the text
is a lock on the order and `OrdersInOneBatchIfSpelledOneWay` follows; that hypothesis is about clients, nothing
in the service ensures it.

*Assumptions.* All are named and evaluated by TLC in the runs. `LimitsAssumption`, `QuantitiesAssumption`,
`AmountsAssumption` and `ProductionAssumption` are what handlers and validators let through (positive
quantities, a minimum within the maximum). `HorizonAssumption` types the clock. `ReportsAssumption` and
`OrdersAssumption` are what `ValidateIncident`, `uniqueStrings` and `AssociateOrders` refuse, and that sorting
texts is a total order. `MerchantReviewsAssumption` and `SafetyPgAssumption` name what clients ask for.
`NamesAssumption`, `NoRowAssumption`, `RowsAssumption` and `FragileAssumption` keep names
apart that the code keeps apart by type or table.

*Only model-checked:* the three liveness properties `EveryTransactionEnds`, `EveryAttemptEnds` and
`EveryCallEnds`, since the prover does not handle fairness and ENABLED; and the findings of section 4, which
are counterexamples of TLC.

## 6. Not modelled

Prices and fees (`int64` products), times (`starts_at`, `ends_at`), offer production capacity and
`minimum_orders`: the code does not use them in any guard of the store. User accounts, tokens,
configuration, logging, migrations, callbacks: no state the other parts depend on. Front-ends,
mini-programs and deployment manifests: no core logic. References to evidence in the calls of the safety
service, and evidence in memory beyond what completes a disposition: the chain is modelled in `SafetyPg`,
where appends are concurrent. The rate limiter is one counter per key that no other component reads. The legacy
API's fulfilment has no counterpart in the Go backend, which replaces it.

## 7. Plan

Done: `Seats`, `Market`, `Intake`, `PgMarket`, `AtMostOnce`, `Idempotency`, `PaymentLifecycle`, `Sandbox`,
`Production`, `Containment`, `SafetyPg`, in that order, the marketplace first because everything else serves
it; then the proofs, in the order of the table in section 5.

Next, in this order:

1. What concurrent sessions keep of `Containment` beyond the refinement, stated on the rows: the lifecycle of an
   incident, and that a withdrawn batch changes no quantity; which of `Market`'s promises about offers and
   closed demands the unlocked reads of `InsertOffer` and `InsertCampaign` give up, as a theorem.
2. `RateLimit`: the two limiters with the clock read before the lock, and `Fulfilment`: orders and rider tasks of
   the legacy API, if they stay in use.
