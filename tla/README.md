# VegaTrix: specifications, model checks and proofs

VegaTrix ("OpenPay Protocol") is a Rust payment backend: API servers, a worker
and a PostgreSQL database they share.  This directory holds TLA+ modules
translated from that code, the TLC configurations that check them on small
instances, and TLAPS proofs of what matters most for instances of every size.

    tlc -workers 2 -config PaymentLifecycle.cfg MCPaymentLifecycle   # a run
    tlapm PaymentRailProofs.tla                                      # a proof module

## 1. The system

Paths are relative to `src/crates/` unless they start with `src/`.

| Component | State it keeps | Operations | Correct when |
|---|---|---|---|
| Status table, `openpay-domain/src/status.rs`, `payment.rs` | none (pure) | transition, expiry, mapping of attempt statuses and event names | every status change follows the table; terminal statuses stay |
| Payment service, `openpay-application/src/payments.rs` | `payment_requests` (status, version), `audit_events`, `outbox_events` | create, get, cancel, refund, `apply_status`, expiry sweep | one decision per payment, audit and events are one history of the row |
| Authorize and reconcile, `openpay-application/src/authorize.rs` | `payment_attempts` | authorize with its connector loop, reconcile, sweep of ambiguous payments, callback replay | no rail is asked for a payment nobody accepted; what is settled is backed by a rail; unknown outcomes are decided |
| Sandbox connectors, `connector-*/src/lib.rs` | `sandbox_attempts` | `create_attempt`, `fetch_attempt`, manual `resolve` | what an attempt row claims, the connector holds |
| Worker, `openpay-worker/src/lib.rs` | `webhook_endpoints`, `webhook_deliveries` | `drain_outbox`, `deliver_webhooks`, the two sweeps, every 2 s | every event reaches every subscriber, bounded duplicates, bounded retries, no starvation |
| Idempotent creation, `openpay-persistence/src/store.rs` | `idempotency_keys` | `create_idempotent` | one payment per key under concurrent creations, answers that stay true |
| QR tokens, `openpay-application/src/qr.rs` | `qr_nonces` | `verify_qr_token`, `remember_nonce` | a token is good for one decision of its payment, within its lifetime |
| Routing policy, `openpay-application/src/routing.rs`, `openpay-domain/src/routing.rs` | `routing_policies`, `connectors` | `decide_route`, `evaluate_policy`, rules, fallback, PATCH of a policy | the best eligible connectors whatever order rows come in and however many share a key, no more than the policy allows, none that is disabled |
| Connector administration, `openpay-api/src/admin.rs`, `openpay-persistence/src/settings.rs`, `openpay-crypto/src/envelope.rs` | `connectors.status`, `configuration_ref` | PATCH of a connector, sealing at start, seeding | references sealed once, and still readable |
| Operator settings, `openpay-api/src/admin.rs`, `openpay-persistence/src/settings.rs` | `tenant_settings`, a copy in each process | read-patch-write, reload at start | no replica runs on what was never saved; values stay unless overwritten |
| Rate limiter, `openpay-api/src/middleware/mod.rs` | a Redis counter per key | `INCR`, `EXPIRE` | a window admits no more than its limit, and a lockout ends |
| Authentication, `openpay-api/src/auth.rs` | `api_keys` | create, look up, revoke | a revoked key opens nothing |
| Rest of the admin API | views of the tables above | lists, overviews, secret rotation | partly, with the components whose tables it edits |
| Webhook signatures, configuration, telemetry, seed, CLI, SDKs, web apps | secrets and settings only | signing, parsing, I/O | out of scope, see section 8 |

How they interact.  HTTP handlers (`openpay-api`) call the application services;
these read a row, await connectors over the registry, and write through
`apply_status`, which compares the version it read with the row's under
`SELECT ... FOR UPDATE` and writes the row, an audit entry and an outbox event in
one transaction (`PgStore::transition_payment`).  Nothing else synchronises
requests: any number of API replicas and workers run at READ COMMITTED, and a
request is dropped at any await (a 30 s `TimeoutLayer`, a client that
disconnects, a database error, a crash).  The worker reads the same tables:
expiry and reconciliation go through `apply_status` like a request, fan-out and
delivery use plain queries and updates without any lock or claim.  In front of
the handlers stand the rate limiter, whose counters are in Redis, and
authentication, which reads `api_keys` for every request.  Administrators edit
policies, connectors, keys and settings in single statements; of all these only
the settings are also kept in memory, one copy per process.

What is hard to test here, and drives the properties (PROJECT.json lists each at
its line): copies of rows used after an await; two deciders of one payment; a
rail asked and the request dropped before anything was recorded; timeouts whose
outcome is unknown; two creations with one key; a nonce spent before the
decision it is for; two workers on one queue; a worker that dies between a POST
and the row that says so; everything that has to happen eventually although
ticks may fail; a policy read in one query and its connectors in the next; a
document written back over another administrator's; a counter whose expiry is a
second call; replicas that seal references while administrators replace them.

## 2. Modules

| Module | What it is |
|---|---|
| `PaymentStatus` | statuses, the transition table, event names, the mapping of attempt statuses (`status.rs`) |
| `PaymentLifecycle` | the core: requests, workers, connectors and the clock around the payment tables |
| `PaymentContract` | the abstract specification: what merchants and payers are promised about a payment |
| `PaymentIntake` | creation under an idempotency key, QR tokens and their nonces |
| `WebhookDelivery` | outbox drain, circuit breaker, delivery, retries and dead letters of several workers |
| `DeliveryContract` | the abstract specification: what merchants are promised about a webhook delivery |
| `RoutingPolicy` | `evaluate_policy` and the fallback rules as operators |
| `RoutingDesk` | routing a payment while administrators edit policies and connectors and starting replicas seal references |
| `OperatorSettings` | the settings row, its read-patch-write and the copy every replica runs on |
| `RequestGate` | rate limiter and API keys in front of the handlers |
| `MCPaymentLifecycle`, `MCWebhookDelivery`, `MCRoutingDesk`, `MCOperatorSettings`, `MCRequestGate` | values for the constants of the TLC runs (`PaymentIntake` needs none) |
| `PaymentLifecycleProofs`, `PaymentHistoryProofs`, `PaymentRailProofs` | theorems about the lifecycle |
| `PaymentIntakeProofs` | theorems about creation and nonces |
| `WebhookDeliveryProofs` | theorems about delivery |
| `RoutingDeskProofs` | theorems about the ranking, routing and sealing |
| `RequestGateProofs`, `OperatorSettingsProofs` | theorems about the gate and the settings |

Operators named `...Lax`, `...Unversioned`, `...Early` and the like, introduced by
"A fault", are bugs the code does not have.  No action uses them; putting
one in the place of the operator it follows shows that the checked properties
would notice such a bug.

### PaymentLifecycle

One slot of `call` is one request in flight or one worker loop; its `pc` says
where in the handler it is.  An action is one transaction or one connector
call, so everything the code does between two awaits that touch shared state is
atomic and everything else interleaves.

| State | Code |
|---|---|
| `payment` | `payment_requests.status`, `.version` |
| `due` | whether the clock has passed `expires_at` |
| `attempts` | `payment_attempts` (connector, reference, status, order) |
| `ledger` | what each connector's sandbox store holds |
| `asked` | how many `create_attempt` calls were made |
| `audit`, `outbox` | the payment's `audit_events` and `outbox_events`, in order |
| `call` | handlers in flight: `snap` is the copy of the row they read, `keys` the candidates left, `row` the attempt at hand, `last` the status to write |

| Actions | Code |
|---|---|
| `Begin`, `Load`, `ApplyExpiry` | `get_payment`, which expires an overdue payment it reads |
| `Reject`, `Cancel`, `Refund` | the handlers that end with one `apply_status` |
| `StartProcessing`, `Route`, `SkipUnregistered`, `AskConnector`, `RecordAttempt`, `Finish` | `authorize_payment` |
| `PickAttempt`, `Fetch`, `Close` | `reconcile_payment` and `replay_connector_callback` |
| `BeginManual`, `ResolvePut`, `ResolveApply` | `resolve_manual` of the admin API |
| `BeginSweep`, `BeginPoll` | the worker's `expire_stale_payments` and `reconcile_stale_attempts` |
| `Abandon`, `ClockPasses` | a dropped request or tick; time |

`Accepted`, `Applied` and `Commit` are the transaction of `transition_payment`:
the version and the table are looked at against the row, while the audit entry
and the event are built from the copy, as in the code.  `Told`, `Answers` and
`Store` are the mock, manual and open-banking connectors, with a store that may
fail before or after its write.  `ScanAccepted` stands for whether the
database accepts the query of `list_reconcilable_payments`.  It does not
(finding 1), so FALSE is the program as it is.  With TRUE the worker
may poll besides everything else it does: safety properties then hold of more behaviours than
the program has, and will go on holding once the query is mended.

Left out: amounts, currencies, partial refunds (no handler makes one), texts,
and the tenant.  Payments are created when the behaviour starts.

### PaymentIntake

What happens before the lifecycle: a payment is created, its payer is given
tokens, and one of them gets a request as far as `authorize_payment`, which is one step
(`Decide`) here.

| State | Code |
|---|---|
| `payments`, `keyRows` | committed `payment_requests` (id, key) and `idempotency_keys` (key, fingerprint, id) of one tenant |
| `overdue` | payments whose `expires_at`, the `exp` of their tokens, has passed |
| `tokens` | every token minted: nonce and payment |
| `nonces` | `qr_nonces` |
| `decisions`, `answers` | the calls of `authorize_payment`, and what creations were answered (history variables; only properties read `answers`) |
| `call` | requests in flight: what they were sent, the id they bring or found |

| Actions | Code |
|---|---|
| `Create`, `Lookup`, `Insert`, `Commit`, `Present` | `create_payment`, `create_idempotent`, `present` |
| `ShowQr` | `qr_png`, which mints a token for whoever holds one |
| `Post`, `Spend`, `Decide` | `public_authorize`: `verify_qr_token`, `remember_nonce`, `authorize_payment` |
| `Abandon`, `ClockPasses` | a dropped request, its open transaction rolled back; time |

`Clear` is how PostgreSQL treats a second INSERT of a key whose first is not
committed: it waits, and fails (`Taken`) or goes on according to how the first
transaction ends.  A row an open transaction inserted is seen by nobody else, so it
is added by `Commit`.  A fingerprint stands for everything
`request_fingerprint` hashes; description, methods and lifetime are not among
it, so creations that differ only there are replays, in the model as in the
code.  `qr_nonces` rows are never deleted, so their `expires_at` is left out.

### WebhookDelivery

| State | Code |
|---|---|
| `outbox`, `published` | committed `outbox_events`, and those with `published_at`; an event is its rank by `created_at` |
| `endpoint` | `webhook_endpoints`: active, `failure_count`, and whether `updated_at` is 60 s old |
| `deliveries` | `webhook_deliveries` in order: event, endpoint, status, `attempt_count`, whether `next_retry_at` has passed |
| `traffic` | what really happened to a delivery: POSTs made, and whether its endpoint accepted one (a history variable no action reads) |
| `call` | the tick of each worker, with the batch, the clock reading and the copies it took |

| Actions | Code |
|---|---|
| `FetchPending`, `ListEndpoints`, `InsertDelivery`, `MarkPublished` | `drain_outbox` |
| `ListDue`, `Post`, `RecordResult` or `LoseResult`, `SaveDelivery` | `deliver_webhooks`; `LoseResult` is the `let _ =` on the endpoint's update |
| `CreateEvent`, `EditEndpoint` | a payment's transaction; `update_webhook_endpoint` |
| `CooldownPasses`, `BackoffPasses`, `Abandon` | time; a tick ended by an error or a crash |

A drain reads the clock once, so `cool` is what had cooled down then; every
update of an endpoint moves its `updated_at` beyond that reading.
`failure_count` counts no further than `Threshold` because it is only compared
with it.  `send_one` is its three outcomes: accepted, accepted with the answer
lost or late, not accepted.  Left out: payloads, signatures, secrets, the guard
on URLs (an outcome of `Post`), and changes of an endpoint's subscriptions.

`DeliveryContract` is what remains of this for a merchant: a delivery is posted until it is
closed, closed as delivered only once accepted, given up only after
`MaxAttempts` posts, and never touched again.  `Promised` maps rows and traffic
to it, and `KeepsDeliveries` is the refinement, checked for one worker (two may
write an old copy over a closed row, see section 7).

### RoutingPolicy and RoutingDesk

| State | Code |
|---|---|
| `policy`, `recent` | `routing_policies` of the tenant, and their order by `updated_at` |
| `Connectors`, `Catalog`, `connector` | the rows of `connectors` a tenant sees, by id; what nothing updates (key, health, methods, priority); `status` and `configuration_ref`.  A reference is its plaintext and how many times it was encrypted |
| `call` | one `authorize_payment`: the policy it read, the rows it listed, the keys left after the cut, what it tried |
| `Opaque` | references that are neither `secret://` nor `env:` |
| `sealing`, `sealed` | rows a starting replica read and has yet to write; whether one has been through |
| `latest`, `raced` | history: the reference last given, and whether a replica held the old plaintext then |

| Actions | Code |
|---|---|
| `Begin`, `ReadPolicy`, `ListEnabled` | `decide_route`: the policy, then the enabled connectors, then `evaluate_policy` |
| `AskNext`, `End` | the connector loop of `authorize_payment` with `should_try_next` |
| `UpdatePolicy`, `UpdateConnector` | the two PATCH handlers |
| `StartReplica`, `SealRow`, `StopSealing` | `encrypt_connector_secret_refs` |

A key may have two rows: the table is UNIQUE (tenant_id, key) with a `tenant_id` that
may be NULL, and `list_enabled` takes the tenant's rows and those of no tenant.  A PATCH by
key updates both; a rule that names the key lists it once; among the connectors no rule names each
row stands for itself, because `evaluate_policy` does not add extras to `seen`.

`EvaluatePolicy` computes its list the way the code does, with its two sorts, its
`max_by_key` and its order of rules; `RoutesAreRanked` compares it with a
declarative reading in every state, for every order in which the database may
return the rows.  `Standing` is what there is to choose from (the keys rules name,
the other eligible rows), `Outranks` its order, and the list is right if its places can
be given entries of `Standing` with their keys (`Ranks`) such that whatever outranks an
entry comes before it, the first key excepted, which is not listed again.  The stable `sort_by_key` is written
as what it returns: place n is the position with n - 1 positions `Before` it.
`SelectSeq` and `SortSeq` would say the same, but one is recursive and the other opaque to
the provers.  JSON is a record
whose missing fields are missing, so the ways a rule or a fallback fails to parse
are there.  The lifecycle module takes any lists of connectors as its `Routes` and
so covers whatever this one produces.  Left out: the explanation texts, ids and
names, `created_at` as a tie-break of `updated_at` (policies are ordered by the
commit of their last PATCH), health checks (nothing writes a row's health), and
keys that change.

### OperatorSettings

| State | Code |
|---|---|
| `stored` | the JSON of `tenant_settings`; a setting the row lacks comes from the environment |
| `snapshot` | `AppState.operator` of each replica |
| `update` | PATCH requests in flight: the body and the document made of it |
| `saved`, `latest`, `crossed`, `writers`, `mixed` | history: what the row has held, what was last saved per setting, which settings an old document rolled back, who served updates, whether two overlapped |

| Actions | Code |
|---|---|
| `ReadSettings`, `SaveSettings`, `ReplaceOperator` | `update_settings`: read and patch, upsert, `replace_operator` |
| `DropUpdate` | the request ends between two of them |
| `Restart` | `load_operator_settings`, which falls back to the environment when the row cannot be read |

`Config` is what the environment says, `Overlay` lays a document over it, `Clamped` is
`rate_limit_per_minute` brought into 1..10000.  Left out: bodies answered 400, and the older
layout of the features that `overlay_json` also reads.

### RequestGate

| State | Code |
|---|---|
| `hits`, `timed`, `lost` | the counters in Redis, which of them expire, and which had their one EXPIRE lost |
| `limit`, `linked`, `redisUp` | each replica's `rate_limit_per_minute`, whether it got a Redis connection at start, whether Redis answers |
| `keys` | `api_keys`: absent, live or revoked |
| `admitted`, `ceiling` | history: merchant requests a counter let in, and the highest limit it was held to, since it last expired |
| `call` | requests in flight |

| Actions | Code |
|---|---|
| `ArrivePublic`, `ArriveMerchant` | `rate_limit`, `rate_limit_authenticated` up to the count; `merchant_limit_key` |
| `Count`, `Expire` | INCR; EXPIRE, sent if the count is 1, its result ignored |
| `CountReplyLost`, `LimiterUnavailable` | `BackendUnavailable`: public routes and non-production pass, others are refused |
| `Handle`, `End` | the extractors of `auth.rs` and the handler |
| `CreateApiKey`, `RevokeApiKey` | the admin handlers |
| `CounterExpires`, `RedisFails`, `RedisRecovers`, `DropRequest`, `Restart`, `ReplaceLimit` | time, outages, clients that leave, process starts, `OperatorSettings` changing the limit to anything |

A counter at `MaxHits`, above every limit, counts no further.  Client
addresses are one bucket.  Access tokens (`"jwt"`, `"lapsed"`) are in the module and in the
proofs but not in the instance of the run: the server keeps nothing about them.

## 3. Runs

"pass" runs are checked to the end; a "violation" run checks one sentence of the
repository's documentation and finds the behaviour of the code that breaks it.

| Run | Instance | Question |
|---|---|---|
| `lifecycle` | 1 payment, 2 concurrent requests (3 in all), 1 worker, all mock scenarios, fallback from mock to manual, 1 drop | Whatever approve, reject, cancel, refund, reconcile and the sweeps do to each other: is the history faithful, is a withdrawn payment never asked for, is it decided once, is what is settled backed by a rail, and is `PaymentContract` implemented? |
| `lifecycle_manual` | as above with approve, get, replay and manual resolution, three routes (one with an unregistered adapter, one empty), a failing connector store, 1 drop, a fair worker whose poll query is rejected | In the other half of the operations: does a replayed callback decide nothing, do stale copies never pass for fresh ones, and is an overdue payment closed although the sweep loses races and ticks? |
| `webhook_workers` | 1 event, 1 endpoint that may do anything, 2 workers, 2 attempts, circuit after 2 failures, limits of 1, no drop | With two workers writing the same rows: do the rows fit what was posted, where do duplicates stop, does every delivery end? |
| `webhook_single` | 2 events, 1 per drain, the first wanted by a faulty endpoint only that is edited, the second by a steady one too; 1 worker, circuit after 1 failure, 1 drop | Does a steady subscriber get its event whatever happens to the others and to the tick, does no event keep the next from being published, are POSTs bounded, is an ended delivery final, and is `DeliveryContract` implemented? |
| `intake` | 1 key, 2 fingerprints, 3 creations and 3 authorize requests over 2 slots, 2 tokens before `qr_png` mints no more, 1 drop | Is everyone given one payment for the key, do the answers stay true, is a token good for one decision, does only a drop waste a nonce, and does a creation that waits for the index get on? |
| `routing` | 4 rows of connectors (two of one key, which has no adapter; two of equal priority), 2 policies with rules that match, do not match, do not parse and repeat a connector, PATCHes of both of which 2 are made, one reference opaque, 2 payments, 1 authorization, 2 starts of replicas with the key | Are the connectors asked the best the policy allows, whatever order rows come in and whatever is edited; is a disabled connector left alone; is fallback bounded; are references sealed and still readable? |
| `settings` | 2 administrators, 2 replicas, 3 updates out of 4 bodies over 2 settings, production, 1 restart, 1 failure | Which saved values stay, and what may a replica run on? |
| `gate` | 2 requests on 2 replicas, merchant and public, 1 key, limits 1 and 2 with 1 edit, production, 2 faults | Does a window admit more than its limit, does a lockout end, does a revoked key open anything? |
| `worker_scan`, `manual_rail`, `double_fan_out`, `fallback_timeout` | the smallest instance | the findings of section 4 |

### Bounds, and why they are enough

* One payment in the runs of the lifecycle: no statement of the code touches two
  payments, so payments interact only through the batch limits of the sweeps, which
  are not modelled (section 8).
* Two requests at once and three in all: the races of this code are between a
  copy and one concurrent writer; the third request lets a later one meet what
  the race left.  The worker is a further actor beside the two.
* One drop: each handler is cut at every await.  The proofs need neither bound.
* `lifecycle` has the poll working (`ScanAccepted`), `lifecycle_manual` has it
  rejected as the code has it, so nothing the poll does helps `OverdueIsClosed`.
* One key for creations: different keys share no row and no index entry.  Three
  creations are a race and a retry after it, with the same fingerprint or the
  other one; three posts let two requests race for one token beside another.
* Two workers and one event show every race of the queue, and their duplicate
  deliveries with a limit of one give a queue longer than its limit.  No tick is
  cut short there (a drop beside two workers is beyond the time of a run): that
  rows match the traffic and that fan-out is bounded when workers also die is
  what `RowsAlwaysMatchTraffic` and `FanOutAlwaysBounded` prove.
* In `webhook_single` a drain takes one of two events, so an event that stays unpublished would keep
  the other from being fetched; the first event has no endpoint to go to when the
  circuit of its one subscriber is open, and a drain may be cut short between any two steps.
  That a half-open endpoint gets one event per drain matters only from two events per
  drain on; the steady subscriber is proved to be served for every limit (`SteadyAlwaysServed`).
* `MaxAttempts` 2 (the code's default is larger) has a first, a middle and a last
  failure; `Threshold` 1 or 2 opens the circuit within a run and initial
  states start it anywhere below.
* Routing needs no second authorization, because requests share only tables they
  do not write.  Two edits make the pairs that matter: policy and connector, two
  policies in turn, disabled and enabled again.  Two rows of one key, of different
  priority, health and methods, are ranked one after the other, and under the wide fallback both are asked.
  `ConcernsApart` keeps sealing and routing from being multiplied: sealing writes
  `configuration_ref`, which routing never reads, and both still meet every edit.
* Two administrators, three updates: an overlap and a third update that meets what
  it left.  Two settings, one with a clamp and one `validate_production` forbids, are
  a patched and an unpatched one.
* Two requests at a counter show every order of INCR and EXPIRE; limits 1 and 2 with
  `MaxHits` 3 have counters below, at and above each limit; two faults put a lost EXPIRE beside
  an outage or a restart.  The proofs of section 5 need none of these.
* Symmetry is declared over request slots, replicas and administrators, in runs
  without liveness, where no constant tells one from another.

`CHECK_DEADLOCK FALSE` is set in the lifecycle and intake runs, whose bounded clients run out
of requests, and in `settings`, where all rests once the updates are spent.  A webhook worker
always has a tick to start, requests always arrive at the gate and at the routing desk, so
deadlock is checked there.

### Fairness

In the lifecycle requests get none: a client may go away at any point.  The lifecycle's worker
loop (`run_loop`: tick, sleep 2 s, for ever) goes on with what it began (weak
fairness of its steps), and the sweep of expiry, which opens every tick, reaches a payment again and again
while it is due (strong fairness, because the worker is busy with something else
in between).  This assumes that its list query works in the long run and that its
limit of 50 does not starve a payment; each payment it closes leaves the list.  The same of the poll is
stated for `worker_scan` only, where it changes nothing: the query is rejected, so the poll is never enabled.
That a poll which works reaches every payment is claimed nowhere, because payments it
cannot reconcile keep their place among its 25.  In `WebhookDelivery` every worker's next step and the
passing of a backoff are weakly fair; nothing is assumed of endpoints, cooldowns
or administrators.  In `PaymentIntake` a request goes on with its next statement
until it ends or is dropped (the server polls its future and the database answers),
which is weak fairness of its steps; clients need not start anything.  Liveness is checked by TLC and not proved.

## 4. Findings

1. `worker_scan` (bug).  `list_reconcilable_payments` orders a `SELECT DISTINCT` by
   a column it does not select, which PostgreSQL rejects.  The worker therefore
   never polls an ambiguous payment.
2. `manual_rail` (docs).  `authorize_payment` tries to move PROCESSING to
   REQUIRES_ACTION, which the table forbids: the payer gets an error and a manual
   payment waits as PROCESSING.
3. `fallback_timeout` (docs).  After a TIMEOUT, whose outcome is unknown, the loop
   charges the next connector by itself, against `THREAT-MODEL.md:5`.  `ARCHITECTURE.md:57`
   and `IMPLEMENTING.md:125` describe just this fallback: the documents disagree among themselves.
4. `double_fan_out` (docs).  Two workers that fetch one event before either has marked
   it insert a delivery each; `SELF_HOSTING.md:64` says of one or few workers
   that `published_at` avoids it.

PROJECT.json quotes the lines on both sides; further differences, without a run, are in section 7.

## 5. Proofs

Every safety invariant and action property the passing runs check is a theorem,
for any number of payments, keys, requests, workers, events, endpoints, connectors, policies,
replicas, administrators and settings and for all limits, from the assumptions stated next to the
constants: slots are disjoint, clients issue known operations, routes are lists of
connectors, events are numbered, limits are positive and below `MaxHits`, patches name
settings the configuration knows, and rows of rules and of the catalog have integer
priorities (a rule that has none does not parse, and the column is an integer).
Where something is counted, what it counts is finite: `Workers`, the `Requests` of
`PaymentIntake`, the tables `Connectors` and `Policies`.  Three theorems have
the further hypothesis `OneWorker`, see below.

The payment core:

* `TypeCorrect` (`PaymentLifecycleProofs`): `TypeOK` is inductive by itself.
* `SnapshotsAlwaysAgree`, `HistoryIsFaithful` (`PaymentHistoryProofs`).  Audit
  entries are built from copies read before the lock, so that the trail has no
  gap needs `SnapshotsAgree`: a copy is never ahead of the row, and at the row's
  version it is the row.  That holds because every accepted transition raises
  the version.  Together with `TypeOK` it makes `FaithfulHistory` inductive:
  an accepted transition's copy is the row, which is where the trail ends.
* `WithdrawnIsNeverAsked` (`PaymentRailProofs`).  The strengthening
  `RailsFollowAcceptance` says which statuses are reachable, that a slot which is
  routing or asking works on a payment that left PENDING through PROCESSING,
  and that no status change leads back.  The last part is the lemma
  `LegalMoves` on the transition table.
* `ContractKept` (`PaymentRailProofs`): the refinement of `PaymentContract`.  Under
  the invariant each step either leaves `phase` and `asked` alone or is one
  step of the contract; `MoveImplements` covers all status changes and
  `AskImplements` the connector call.
* `AttemptsAlwaysMatch`, `SettledIsAlwaysBacked` (`PaymentRailProofs`).  Neither
  follows from the tables: what a handler is about to write comes from an answer
  it got earlier.  `Books` therefore also says of every slot that what it holds
  (a result to record, a status to write, an attempt to put) is in the ledger
  (`SlotBacked`), and that references are numbers of calls already made, so that two
  calls never share one (`StoreFits`).  It is kept because connectors forget neither
  references nor money (`Keeps`).
* `DecisionsAreToldOnce`, `ReplaysDecideNothing` (`PaymentHistoryProofs`).  `DecidedOnce`
  is an action property: whichever of several deciders wins, a second
  announcement of the same decision is an administrator's, whose verdict
  `resolve_manual` applies again when it is given again (section 7).  `RolesFit` says at
  which steps of a handler which operations can be and what they read;
  with `DecisionsStand`, that a decided status is left only for REFUNDED, an event
  that repeats a decision has no author but that one.

Creation and tokens (`PaymentIntakeProofs`):

* `IntakeTypeCorrect`, `CreationIsIdempotent`, `CreationAnswersHold`,
  `TokenIsGoodForOneDecision`.  `KeyInv` says why the
  lookup before the transaction's INSERT needs no lock: rows and payments come in pairs,
  one for a key; whoever is about to commit a key is alone and the key is free
  (this is `Clear` and `Taken`, that is, the index); whoever is about to answer
  has the key's row.  Answers are then about that one row.  `NonceInv` says that a
  nonce is in `nonces` before its decision, held by the one request whose INSERT
  took effect.
* `OnlyDropsEverWasteNonces`.  `WasteInv` adds that decisions are numbered without a
  repetition, so that each is one more, and spent nonces are then counted by decisions, by
  requests about to decide and by drops.

Delivery (`WebhookDeliveryProofs`):

* `DeliveryTypeCorrect`, and `RowsAlwaysMatchTraffic`.  Two workers may hold copies
  of one delivery and write them back in either order, so rows alone are not
  inductive.  The strengthening `CountsFit` says that neither rows nor copies
  count more attempts than were posted, that a worker which has just posted is
  one POST ahead of its copy, and that a success it is about to write was
  accepted.  It is kept because POSTs are never taken back.
* `FanOutAlwaysBounded`.  `FanInv` charges each delivery to someone: before
  the event is published, to a worker that is past the subscriber in its fan-out or to a drop;
  afterwards nobody takes the event up any more, and those still at it are counted beside the rows.
* `SteadyAlwaysServed`.  `SteadyInv` says that nobody passes a steady subscriber by: its
  circuit never opens because every answer it gives is a success, and a worker in
  the middle of a fan-out still has it to do or has inserted its row.
* `TriesAlwaysBounded`, `OverStaysFinal`, `OneWorkerKeepsDeliveries`, the last being the
  refinement of `DeliveryContract`: theorems about one worker (`OneWorker`), which is what
  they claim.  With two, a slow one writes an old copy over a delivery the other
  finished; `RowsMatchTraffic` and `DeliveriesEnd` hold then too.  `OwnedInv` says that what the
  worker holds of a row is the row, and counts its POSTs by its attempts and by drops.

Routing (`RoutingDeskProofs`):

* `CutRankingIsRanked`: what `evaluate_policy` computes is a ranking of what
  `Standing` holds under `Outranks`, for all rules, payments and lists of rows; any number of
  rows may share a key (`Routable` asks only that both are sequences and priorities are integers).  The code and the statement differ in everything but the result: the code ranks a
  connector by the first rule that selects it, sorts twice and puts the lists one
  after the other.  No induction is needed.  In a finite set under a strict total order as
  many elements as come before one are fewer than those before the next, so places are an
  injection into `0..(N - 1)` and, by cardinality, onto it (`PlacesAreTaken`,
  `ByPrioritySorts`).  `ByPriorityLists` states of both sorted lists what the rest uses;
  `StandingFacts`, `NamingFacts` and `EntryFacts` say what there is to choose from; `RankingIsRight`
  gives each place its entry, and `RankingIsComplete` counts the rest by a bijection with the list.
  `RepeatsAreRows`: a key that is listed twice has two rows, and is not the first.
* `RoutesStayRanked`, `DisabledStaysUnasked`, `FallbackStaysBounded`, `DeskTypesHold`.
  In `DeskInv`, `Listing` says that a request's list is the cut ranking of what it read, so
  later edits do not matter; `Asking` that it has asked the list from the top and
  went on only where `should_try_next` let it; `Passing` and `CallInv` that whom it must pass over is
  disabled still and not in its list.
* `NothingStoredPlainAgain`, `StartsKeepReferences`.  `RefInv`: whoever is sealing holds a row for
  every `Exposed` reference there is (none appears again, because administrators store
  sealed references only), and all it holds are plaintexts which, outside `raced`, are the last ones given.
  Of opaque references the first theorem says nothing, as the code passes them over; the second
  holds of them too.

The gate and the settings:

* `GateTypeCorrect`, `RevocationHolds`, `LockoutsEnd`, `WindowsAreBounded`
  (`RequestGateProofs`).  `CountersExpire` is inductive by itself.  `WindowIsBounded` is
  not: `StarterInv` says that a counter is started by one request, which counted 1
  and for as long as it has not sent EXPIRE the counter does not expire; `FitInv` that
  a counter has counted and been held to whatever it let in, and one more while a
  merchant is starting it.  So a limit lowered meanwhile, another replica's
  limit, or a lost reply never lets a request in that was not counted.
* `SettingsTypeCorrect`, `CopiesWereSaved`, `ServerStaysCurrent`,
  `SavedSettingsStick` (`OperatorSettingsProofs`).  `StickInv` says of every document about to be
  saved that it holds its patch, and the row for all else while no other update
  has saved; what an older document rolls back is exactly `crossed`.
  `CurrentInv` says that without an overlap the one update in progress has the row's
  document and its replica among `writers`.

Only model-checked are the liveness properties (`OverdueIsClosed`,
`EventsArePublished`, `DeliveriesEnd`, `InsertsGetThrough`): fairness and ENABLED are outside the
prover's reach.  The findings of section 4 are counterexamples and need no proof.

## 6. Plan

Done: the payment core with its contract, creation and QR nonces, webhook delivery
with its contract, routing and connector references, operator settings, the gate, and their
theorems.  Next, in this order:

1. A `WorkerTick` that composes sweeps, drain and delivery in their order, with
   the batch limits (50, 50, 25, 25) and the error that ends a tick early.  The poll
   takes the 25 least recently updated payments, and those it cannot poll keep
   their place.
2. A proof that the routes `RoutingDesk` produces are among those `PaymentLifecycle` takes.

## 7. What the code does that a reader may not expect

### Where documents and code differ

Beside the findings of section 4; paths are relative to `src/docs/` unless they end in `.rs`.

* `protocol/IMPLEMENTING.md:217` and ADR 0003 call a transition to the same status
  an idempotent no-op.  It writes version, audit entry and event again (`payment.rs`, `Commit`), and an
  administrator who gives the verdict on a manual payment that has it already is
  heard again (`resolve_manual`), so a merchant may get one decision twice.
  `DecidedOnce` says that nobody else repeats one.
* `api/API-GUIDE.md:45` promises HTTP 200 and `replayed: true` for the same key and
  fingerprint.  Of two identical creations at once the one that loses the unique
  index is answered 409 `conflict` (`store.rs`, `Taken`); its next try is replayed.  `AnswersHold`
  says that what it is told stays true of the tables.
* `admin.rs:887`: the dashboard says that saved CORS and rate limits apply to new requests
  without a restart, and `admin.rs:888` the same of currency and QR lifetime for new payments of the
  sandbox.  They do on the replica that served the update; others run on
  what they loaded until they restart, and a replica whose load fails runs on
  the environment.  `SnapshotsWereSaved` therefore allows another replica any document that was saved
  once, `ServingReplicaIsCurrent` only the current one to the one that serves.
* `protocol/IMPLEMENTING.md:125` allows fallback after technical failures only.  The code
  asks whether the policy lists the code (`ShouldTryNext`); a policy that lists
  `PAYER_DECLINED` has declined payments tried elsewhere, and `FallbackIsBounded` says no more.
* `security/THREAT-MODEL.md:5` against `ARCHITECTURE.md:57` and `IMPLEMENTING.md:125`: finding 3.
* `published_at` does keep one worker from fanning an event out again; with two see finding 4
  and `FanOutIsBounded`.

### What no document promises

* A payment whose routing fails after it became PROCESSING, or whose request is
  dropped there, has no attempt: expiry skips PROCESSING, the poll wants an
  attempt, and only a new approval moves it.  `lifecycle_manual` reaches it.
* While an endpoint's circuit is open, and for all but one event of a drain while it
  is half open, its events are marked published without a delivery: that
  endpoint never gets them.  `SteadyGetsEveryEvent` shows that others do.
* A slow worker may write an old copy over a delivery another one has finished.
* A request dropped between `remember_nonce` and its decision leaves the nonce
  spent; the payer needs another token of the payment, which `qr_png` gives to
  whoever has the spent one.
* A payer who approves a PROCESSING payment again has it routed and charged again.
* A rejection, or an administrator's verdict, may decide a payment FAILED while a
  charge of it is open or settled at a connector: `SettledIsBacked` holds, its
  converse does not.
* Of two overlapping updates of the settings the later one writes back what it read before
  the other: that one's values are gone (`crossed`).
* A fallback that lacks a field, `{"enabled": false}` for one, is replaced whole by the
  default, which is enabled.
* `list_enabled` has no order.  Equal priorities are decided by it: the last row wins the
  first place of a payment no rule names a connector for, and the earlier ones
  come first after that.
* A connector with a row of the tenant and one of no tenant is listed twice unless a
  rule names it or it comes first, and is then asked twice if fallback goes that far
  (`max_attempts` of 3 or more).  `FallbackIsBounded` allows this much and no more.
* A reference that is neither `secret://` nor `env:` is passed over by the sealing of
  starting replicas and stays in plaintext until a PATCH of the connector replaces it.  The dashboard accepts
  no such reference and the seed has none; only an operator's SQL can write one.
* A replica that had read a plaintext reference at its start writes it back, sealed, over
  one an administrator gave meanwhile (`raced`).
* A counter whose EXPIRE is lost, by an outage, a restart or a client that leaves just then,
  never expires: that key, or that address, is locked out until someone removes the counter
  (`lost`).  A replica that started without Redis does not look for it again before it restarts; in production it
  refuses merchants until then.

## 8. Not modelled, and why

The batch limits of the sweeps are not modelled.  The poll's (25 oldest `updated_at`, payments
that cannot be polled keep their place) can starve nothing while its query is rejected.
Login and refresh issue signed tokens and keep no state;
webhook signatures, roles and scopes are functions of secrets and tokens.
Configuration, telemetry, seeding (but for what it inserts), the CLI, SDKs, the web applications and
deployment files contain no concurrent state of the server.  The rest of the admin API lists and
counts; `rotate-secret` replaces a column nothing modelled reads.
