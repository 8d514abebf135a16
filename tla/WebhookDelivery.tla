--------------------------- MODULE WebhookDelivery ---------------------------
(***************************************************************************)
(* The worker's second and third duty: drain_outbox turns outbox events    *)
(* into one delivery row per subscribed endpoint, deliver_webhooks posts   *)
(* what is due, retries with backoff and gives up after MaxAttempts.       *)
(*                                                                         *)
(* Workers share the tables and take no locks.  One action is one query or *)
(* one POST; a database error or a crash ends the tick between any two.    *)
(***************************************************************************)
EXTENDS Integers, Sequences, FiniteSets

CONSTANTS
  Events,        \* outbox events of one merchant: their ranks by created_at
  Endpoints,     \* webhook endpoints of that merchant
  Workers,       \* worker processes
  Wants,         \* the events each endpoint subscribes to
  Steady,        \* endpoints that answer 2xx and that nobody edits
  MaxAttempts,   \* webhook_max_attempts
  Threshold,     \* WEBHOOK_CIRCUIT_THRESHOLD
  DrainLimit,    \* events fetched by one drain
  DeliverLimit,  \* deliveries fetched by one tick
  MaxDrops,      \* bound: ticks cut short and endpoint updates lost
  MaxEdits       \* bound: administrator's updates of endpoints

ASSUME EventAssumption == Events \subseteq Nat
ASSUME WorkerAssumption == IsFiniteSet(Workers)
ASSUME EndpointAssumption ==
  Steady \subseteq Endpoints /\ Wants \in [Endpoints -> SUBSET Events]
ASSUME LimitAssumption ==
  /\ {MaxAttempts, Threshold, DrainLimit, DeliverLimit} \subseteq Nat \ {0}
  /\ MaxDrops \in Nat /\ MaxEdits \in Nat

VARIABLES
  outbox,      \* outbox_events committed so far
  published,   \* those with published_at set
  endpoint,    \* webhook_endpoints; `cooled`: updated_at is 60 s ago or more
  deliveries,  \* webhook_deliveries, oldest first
  traffic,     \* per delivery: POSTs tried, and whether the endpoint accepted one
  call,        \* the tick in progress of each worker
  drops, edits

vars == <<outbox, published, endpoint, deliveries, traffic, call, drops, edits>>
eventVars == <<outbox, published>>
rowVars   == <<deliveries, traffic>>
counts    == <<drops, edits>>

\* ORDER BY created_at LIMIT n: ranks and row numbers follow created_at.
Oldest(S, n) == {x \in S : Cardinality({y \in S : y <= x}) <= n}

NoJob == [id |-> 0, attempts |-> 0]
Idle == [pc |-> "idle", batch |-> {}, event |-> 0, cool |-> {}, probed |-> {},
         todo |-> {}, jobs |-> {}, job |-> NoJob, answer |-> "none"]

At(w, pc) == call[w].pc = pc
Event(w)  == call[w].event
Job(w)    == call[w].job
Target(w) == deliveries[Job(w).id].endpoint

-----------------------------------------------------------------------------
(* drain_outbox                                                            *)

\* A fault: the query forgets which events were published.
PendingAll == outbox

Pending == outbox \ published

\* `now` is read once per drain: `cool` is what had cooled down by then.
FetchPending(w) ==
  /\ At(w, "idle")
  /\ call' = [call EXCEPT ![w] =
                [Idle EXCEPT !.pc = "drain",
                             !.batch = Oldest(Pending, DrainLimit),
                             !.cool = {e \in Endpoints : endpoint[e].cooled}]]
  /\ UNCHANGED <<eventVars, endpoint, rowVars, counts>>

CircuitState(w, e) ==
  IF endpoint[e].failures < Threshold THEN "closed"
  ELSE IF e \in call[w].cool THEN "half_open" ELSE "open"

\* Active endpoints of the merchant that want the event.
Listed(ev) == {e \in Endpoints : endpoint[e].active /\ ev \in Wants[e]}

Probes(w, ev) == {e \in Listed(ev) : CircuitState(w, e) = "half_open"} \ call[w].probed

\* A fault: an open circuit ends the loop over the endpoints.
ChosenUntilOpen(w, ev) ==
  IF \E e \in Listed(ev) : CircuitState(w, e) = "open"
    THEN {} ELSE {e \in Listed(ev) : CircuitState(w, e) = "closed"} \union Probes(w, ev)

\* A half-open endpoint is given one event per drain, an open one none.
Chosen(w, ev) ==
  {e \in Listed(ev) : CircuitState(w, e) = "closed"} \union Probes(w, ev)

\* The oldest event of the batch comes next.
NextEvent(w, ev) ==
  At(w, "drain") /\ ev \in call[w].batch /\ \A other \in call[w].batch : ev <= other

\* A fault: an event that no endpoint was given is not marked.
ListEndpointsKeeping(w) ==
  /\ \E ev \in Events :
       /\ NextEvent(w, ev)
       /\ call' = [call EXCEPT ![w] =
            [call[w] EXCEPT !.pc = IF Chosen(w, ev) = {} THEN "drain" ELSE "fan",
                            !.batch = @ \ {ev}, !.event = ev, !.todo = Chosen(w, ev),
                            !.probed = @ \union Probes(w, ev)]]
  /\ UNCHANGED <<eventVars, endpoint, rowVars, counts>>

ListEndpoints(w) ==
  /\ \E ev \in Events :
       /\ NextEvent(w, ev)
       /\ call' = [call EXCEPT ![w] =
            [call[w] EXCEPT !.pc = "fan", !.batch = @ \ {ev}, !.event = ev,
                            !.todo = Chosen(w, ev), !.probed = @ \union Probes(w, ev)]]
  /\ UNCHANGED <<eventVars, endpoint, rowVars, counts>>

InsertDelivery(w) ==
  /\ At(w, "fan")
  /\ \E e \in call[w].todo :
       /\ deliveries' = Append(deliveries,
            [event |-> Event(w), endpoint |-> e, status |-> "pending",
             attempts |-> 0, due |-> TRUE])
       /\ traffic' = Append(traffic, [tries |-> 0, accepted |-> FALSE])
       /\ call' = [call EXCEPT ![w] = [call[w] EXCEPT !.todo = @ \ {e}]]
  /\ UNCHANGED <<eventVars, endpoint, counts>>

\* Every event is marked, also one that open circuits kept from an endpoint.
MarkPublished(w) ==
  /\ At(w, "fan") /\ call[w].todo = {}
  /\ published' = published \union {Event(w)}
  /\ call' = [call EXCEPT ![w] = [call[w] EXCEPT !.pc = "drain", !.event = 0]]
  /\ UNCHANGED <<outbox, endpoint, rowVars, counts>>

-----------------------------------------------------------------------------
(* deliver_webhooks                                                        *)

\* Faults: deliveries already made are listed again; what failed is not.
DueAgain == {i \in DOMAIN deliveries : deliveries[i].status # "dead_lettered" /\ deliveries[i].due}
DueOnce  == {i \in DOMAIN deliveries : deliveries[i].status = "pending" /\ deliveries[i].due}

Due == {i \in DOMAIN deliveries :
          deliveries[i].status \in {"pending", "retrying"} /\ deliveries[i].due}

\* A fault: the loop over the jobs does not stop at the end.
NextJobForever(jobs) == [Idle EXCEPT !.pc = "deliver", !.jobs = jobs]

\* The worker goes through the jobs with the copies it read here.
NextJob(jobs) == IF jobs = {} THEN Idle ELSE [Idle EXCEPT !.pc = "deliver", !.jobs = jobs]

ListDue(w) ==
  /\ At(w, "drain") /\ call[w].batch = {}
  /\ call' = [call EXCEPT ![w] =
       NextJob({[id |-> i, attempts |-> deliveries[i].attempts] :
                  i \in Oldest(Due, DeliverLimit)})]
  /\ UNCHANGED <<eventVars, endpoint, rowVars, counts>>

\* send_one: accepted with a 2xx; accepted, but the answer is lost or late; or
\* not accepted (refused, unreachable, or stopped by the guard on URLs).
Answers(e) == IF e \in Steady THEN {"ok"} ELSE {"ok", "lost", "refused"}

Post(w) ==
  /\ At(w, "deliver")
  /\ \E job \in call[w].jobs : \E answer \in Answers(deliveries[job.id].endpoint) :
       /\ \A other \in call[w].jobs : job.id <= other.id
       /\ traffic' = [traffic EXCEPT ![job.id] =
            [tries |-> @.tries + 1, accepted |-> @.accepted \/ answer # "refused"]]
       /\ call' = [call EXCEPT ![w] = [call[w] EXCEPT !.pc = "result", !.jobs = @ \ {job},
                                                      !.job = job, !.answer = answer]]
  /\ UNCHANGED <<eventVars, endpoint, deliveries, counts>>

Succeeded(answer) == answer = "ok"

\* failure_count is only ever compared with Threshold.
Counted(n) == IF n < Threshold THEN n ELSE Threshold

\* record_webhook_endpoint_result.  Like any update of an endpoint it moves
\* updated_at past the `now` of every drain in progress.
RecordResult(w) ==
  LET e == Target(w)
      failures == IF Succeeded(call[w].answer) THEN 0 ELSE Counted(endpoint[e].failures + 1)
  IN
  /\ At(w, "result")
  /\ endpoint' = [endpoint EXCEPT ![e].failures = failures, ![e].cooled = FALSE]
  /\ call' = [v \in Workers |->
                [call[v] EXCEPT !.cool = @ \ {e}, !.pc = IF v = w THEN "save" ELSE @]]
  /\ UNCHANGED <<eventVars, rowVars, counts>>

\* A database error there is ignored, not returned.
LoseResult(w) ==
  /\ At(w, "result") /\ drops < MaxDrops
  /\ drops' = drops + 1
  /\ call' = [call EXCEPT ![w] = [call[w] EXCEPT !.pc = "save"]]
  /\ UNCHANGED <<eventVars, endpoint, rowVars, edits>>

\* Faults: giving up one attempt early, or one attempt late.
OutcomeEarly(attempts, answer) ==
  IF Succeeded(answer) THEN [status |-> "delivered", attempts |-> attempts]
  ELSE [status |-> IF attempts + 2 >= MaxAttempts THEN "dead_lettered" ELSE "retrying",
        attempts |-> attempts + 1]
OutcomeLate(attempts, answer) ==
  IF Succeeded(answer) THEN [status |-> "delivered", attempts |-> attempts]
  ELSE [status |-> IF attempts >= MaxAttempts THEN "dead_lettered" ELSE "retrying",
        attempts |-> attempts + 1]

Outcome(attempts, answer) ==
  IF Succeeded(answer) THEN [status |-> "delivered", attempts |-> attempts]
  ELSE [status |-> IF attempts + 1 >= MaxAttempts THEN "dead_lettered" ELSE "retrying",
        attempts |-> attempts + 1]

\* update_delivery writes the copy back, whatever the row has become.
SaveDelivery(w) ==
  LET out == Outcome(Job(w).attempts, call[w].answer) IN
  /\ At(w, "save")
  /\ deliveries' = [deliveries EXCEPT ![Job(w).id] =
       [@ EXCEPT !.status = out.status, !.attempts = out.attempts,
                 !.due = out.status # "retrying"]]
  /\ call' = [call EXCEPT ![w] = NextJob(call[w].jobs)]
  /\ UNCHANGED <<eventVars, endpoint, traffic, counts>>

-----------------------------------------------------------------------------
(* Payments, administrators, the clock, and ticks cut short                *)

\* A payment's transaction commits an event.
CreateEvent(ev) ==
  /\ ev \notin outbox
  /\ outbox' = outbox \union {ev}
  /\ UNCHANGED <<published, endpoint, rowVars, call, counts>>

\* An administrator enables, disables or otherwise updates an endpoint.
EditEndpoint(e) ==
  /\ e \notin Steady /\ edits < MaxEdits
  /\ edits' = edits + 1
  /\ \E active \in BOOLEAN :
       endpoint' = [endpoint EXCEPT ![e].active = active, ![e].cooled = FALSE]
  /\ call' = [w \in Workers |-> [call[w] EXCEPT !.cool = @ \ {e}]]
  /\ UNCHANGED <<eventVars, rowVars, drops>>

\* Looked at only while the circuit is open.
CooldownPasses(e) ==
  /\ endpoint[e].failures >= Threshold /\ ~endpoint[e].cooled
  /\ endpoint' = [endpoint EXCEPT ![e].cooled = TRUE]
  /\ UNCHANGED <<eventVars, rowVars, call, counts>>

BackoffPasses(i) ==
  /\ ~deliveries[i].due
  /\ deliveries' = [deliveries EXCEPT ![i] = [@ EXCEPT !.due = TRUE]]
  /\ UNCHANGED <<eventVars, endpoint, traffic, call, counts>>

\* A database error that ends the tick, or a crash of the worker.
Abandon(w) ==
  /\ ~At(w, "idle") /\ drops < MaxDrops
  /\ drops' = drops + 1
  /\ call' = [call EXCEPT ![w] = Idle]
  /\ UNCHANGED <<eventVars, endpoint, rowVars, edits>>

\* Endpoints may have failed before the events of this behaviour.
Init ==
  /\ outbox = {} /\ published = {}
  /\ endpoint \in [Endpoints -> [active: {TRUE}, failures: 0..Threshold, cooled: {FALSE}]]
  /\ \A e \in Steady : endpoint[e].failures = 0
  /\ deliveries = << >> /\ traffic = << >>
  /\ call = [w \in Workers |-> Idle]
  /\ drops = 0 /\ edits = 0

Step(w) ==
  \/ FetchPending(w) \/ ListEndpoints(w) \/ InsertDelivery(w) \/ MarkPublished(w)
  \/ ListDue(w) \/ Post(w) \/ RecordResult(w) \/ SaveDelivery(w)

Next ==
  \/ \E w \in Workers : Step(w) \/ LoseResult(w) \/ Abandon(w)
  \/ \E ev \in Events : CreateEvent(ev)
  \/ \E e \in Endpoints : EditEndpoint(e) \/ CooldownPasses(e)
  \/ \E i \in DOMAIN deliveries : BackoffPasses(i)

Spec == Init /\ [][Next]_vars

\* run_loop ticks forever and the clock goes on; nothing else is promised.
FairSpec ==
  /\ Spec
  /\ \A w \in Workers : WF_vars(Step(w))
  /\ WF_vars(\E i \in DOMAIN deliveries : BackoffPasses(i))

-----------------------------------------------------------------------------
(* Properties                                                              *)

Statuses == {"pending", "retrying", "delivered", "dead_lettered"}
Over     == {"delivered", "dead_lettered"}

\* The ticks there may be when n deliveries exist: jobs name existing rows, and
\* a tick in the middle of a loop has the element it works on.
Jobs(n) == [id: 1..n, attempts: Nat]
Tick(n) ==
  {k \in [pc: {"idle", "drain", "fan", "deliver", "result", "save"},
          batch: SUBSET Events, event: Nat, cool: SUBSET Endpoints,
          probed: SUBSET Endpoints, todo: SUBSET Endpoints,
          jobs: SUBSET Jobs(n), job: Jobs(n) \union {NoJob},
          answer: {"none", "ok", "lost", "refused"}] :
     /\ k.pc = "fan" => k.event \in Events
     /\ k.pc = "deliver" => k.jobs # {}
     /\ k.pc \in {"result", "save"} => k.job \in Jobs(n)}

\* Every table and every tick has the shape the code gives it, and jobs name
\* rows that exist.
TypeOK ==
  /\ outbox \subseteq Events /\ published \subseteq Events
  /\ endpoint \in [Endpoints -> [active: BOOLEAN, failures: 0..Threshold, cooled: BOOLEAN]]
  /\ deliveries \in Seq([event: Events, endpoint: Endpoints, status: Statuses,
                         attempts: Nat, due: BOOLEAN])
  /\ traffic \in Seq([tries: Nat, accepted: BOOLEAN])
  /\ Len(traffic) = Len(deliveries)
  /\ call \in [Workers -> Tick(Len(deliveries))]
  /\ drops \in 0..MaxDrops /\ edits \in 0..MaxEdits

Rows(ev, e) == {i \in DOMAIN deliveries : deliveries[i].event = ev /\ deliveries[i].endpoint = e}

\* Whatever the other endpoints do, however many workers drain and wherever
\* they crash: a published event has a delivery for every steady subscriber,
\* and that delivery is not given up.
SteadyGetsEveryEvent ==
  \A ev \in published, e \in Steady :
    ev \in Wants[e] => \E i \in Rows(ev, e) : deliveries[i].status # "dead_lettered"

\* Stated by SELF_HOSTING.md of one or few workers: published_at avoids double
\* fan-out.  Fetching claims nothing, so two workers fan one event out each.
FannedOutOnce ==
  drops = 0 => \A ev \in Events, e \in Endpoints : Cardinality(Rows(ev, e)) <= 1

\* What published_at does achieve: a subscriber has at most one delivery of an
\* event from each worker that fetched it before it was marked, and one from each
\* tick cut short, however many drains follow.
FanOutIsBounded ==
  \A ev \in Events, e \in Endpoints : Cardinality(Rows(ev, e)) <= Cardinality(Workers) + drops

\* A delivery is given up only after MaxAttempts POSTs, and called delivered
\* only if the endpoint accepted one, whoever wrote the row last.
RowsMatchTraffic ==
  \A i \in DOMAIN deliveries :
    /\ deliveries[i].status = "dead_lettered" => traffic[i].tries >= MaxAttempts
    /\ deliveries[i].status = "delivered" => traffic[i].accepted

\* One worker posts a delivery at most MaxAttempts times, plus once for each
\* tick cut short between the POST and the row.
TriesAreBounded ==
  \A i \in DOMAIN deliveries : traffic[i].tries <= MaxAttempts + drops

\* With one worker a delivery that is over stays as it is.
OverIsFinal ==
  [][\A i \in DOMAIN deliveries :
       deliveries[i].status \in Over => deliveries'[i] = deliveries[i]]_vars

\* No event waits for ever: again and again all that is committed is published,
\* although drains are cut short, take the oldest few events only, and meet events
\* that no endpoint can be given.
EventsArePublished == []<>(published = outbox)

\* Every delivery ends: old ones that keep failing do not starve new ones.
DeliveriesEnd ==
  \A ev \in Events, e \in Endpoints :
    (\E i \in Rows(ev, e) : deliveries[i].status \notin Over)
      ~> (\A i \in Rows(ev, e) : deliveries[i].status \in Over)

\* With one worker every delivery keeps the promises of DeliveryContract,
\* through lost answers, lost results, crashes and edits of its endpoint.
Promised(i) ==
  [state    |-> IF deliveries[i].status \in Over THEN deliveries[i].status ELSE "open",
   posts    |-> traffic[i].tries,
   accepted |-> traffic[i].accepted]

Contract == INSTANCE DeliveryContract
  WITH delivery <- [i \in DOMAIN deliveries |-> Promised(i)]

KeepsDeliveries == Contract!Spec

-----------------------------------------------------------------------------
(* Why RowsMatchTraffic is invariant                                       *)

\* Rows and copies never count more attempts than there were POSTs, and a tick
\* that has just posted is one POST ahead of its copy.
CountsFit ==
  /\ \A i \in DOMAIN deliveries : deliveries[i].attempts <= traffic[i].tries
  /\ \A w \in Workers : \A job \in call[w].jobs : job.attempts <= traffic[job.id].tries
  /\ \A w \in Workers : call[w].pc \in {"result", "save"} =>
       /\ Job(w).attempts < traffic[Job(w).id].tries
       /\ Succeeded(call[w].answer) => traffic[Job(w).id].accepted

=============================================================================
