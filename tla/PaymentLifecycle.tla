-------------------------- MODULE PaymentLifecycle --------------------------
(***************************************************************************)
(* The life of payment requests under concurrent API requests and worker   *)
(* sweeps that share one database.                                         *)
(*                                                                         *)
(* Every handler reads the payment row, keeps that copy (`snap`) across    *)
(* awaits, calls connectors, and writes back through apply_status, which   *)
(* compares versions under a row lock.  One action is one database         *)
(* transaction or one connector call; between two of them any other        *)
(* handler may run, and a request may be dropped (30 s timeout, client     *)
(* disconnect, database error, process crash).                             *)
(***************************************************************************)
EXTENDS Integers, Sequences, FiniteSets, PaymentStatus

CONSTANTS
  Payments,       \* payment requests, all created when the behaviour starts
  NoPayment,      \* what an idle slot works on
  Requests,       \* slots for API requests in flight
  Workers,        \* slots for worker loops, each of them sequential
  Operations,     \* the API operations clients issue
  Scenarios,      \* what the mock connector may be told to do
  Registered,     \* connector keys present in the registry
  Routes,         \* candidate lists decide_route may return, already cut to
                  \* max_attempts; the empty list: no eligible connector
  FallbackCodes,  \* allowed_failure_codes of the fallback specification
  ScanAccepted,   \* whether the database accepts list_reconcilable_payments
  MaxRequests,    \* bound: API requests ever started
  MaxDrops        \* bound: requests and worker ticks dropped half way

Slots == Requests \union Workers
Mock   == "mock-instant"
Manual == "manual-test"
Stub   == "open-banking-stub"
Connectors == {Mock, Manual, Stub}

\* Requests served by get_payment first, and those that read the row plainly.
ApiOperations ==
  {"approve", "reject", "get", "cancel", "refund", "reconcile", "replay",
   "settle_manual", "fail_manual"}
ManualOperations == {"settle_manual", "fail_manual"}

ASSUME SlotsAssumption ==
  /\ Requests \intersect Workers = {}
  /\ NoPayment \notin Payments
ASSUME ClientAssumption ==
  /\ Operations \subseteq ApiOperations
  /\ Scenarios \subseteq {"success", "delayed", "timeout", "unavailable",
                          "decline", "store_error"}
  /\ MaxRequests \in Nat /\ MaxDrops \in Nat
ASSUME RoutingAssumption ==
  /\ Registered \subseteq Connectors
  /\ Routes \subseteq Seq(Connectors)
ASSUME ScanAssumption == ScanAccepted \in BOOLEAN

VARIABLES
  payment,   \* payment_requests rows: status and version
  due,       \* whether the clock has passed expires_at
  attempts,  \* payment_attempts rows
  ledger,    \* what each connector holds about its references
  asked,     \* create_attempt calls made so far; numbers their references
  audit,     \* audit_events of the payment, oldest first
  outbox,    \* outbox_events of the payment, oldest first
  call,      \* the work in progress of each slot
  requests,  \* API requests started so far
  drops      \* pieces of work dropped so far

vars == <<payment, due, attempts, ledger, asked, audit, outbox, call,
          requests, drops>>
railVars == <<attempts, ledger, asked>>
counts   == <<requests, drops>>
rowVars  == <<payment, audit, outbox>>

-----------------------------------------------------------------------------
(* Rows and the values a slot carries                                      *)

NoRef == -1       \* provider_reference is NULL
TimeoutRef == 0   \* timeout_{payment}: the same for every call of a payment

Attempt == [at: Nat, connector: Connectors, ref: Nat \union {NoRef},
            status: AttemptStatuses]
NoAttempt == [at |-> 0, connector |-> Mock, ref |-> NoRef, status |-> "CREATED"]

Entry == [connector: Connectors, ref: Nat, status: AttemptStatuses]

\* SandboxAttemptStore::put is an upsert on (connector, reference).
Put(entries, k, r, s) ==
  {e \in entries : e.connector # k \/ e.ref # r}
    \union {[connector |-> k, ref |-> r, status |-> s]}

Idle == [pc |-> "idle", op |-> "none", pay |-> NoPayment,
         snap |-> [status |-> "CREATED", version |-> 0],
         keys |-> << >>, last |-> "CREATED", row |-> NoAttempt, code |-> "none"]

At(c, pc) == call[c].pc = pc
Pay(c)  == call[c].pay
Snap(c) == call[c].snap
Return(c) == call' = [call EXCEPT ![c] = Idle]

-----------------------------------------------------------------------------
(* apply_status: one transaction with the row, its audit and its event     *)

\* Faults: the expected version, or the transition table, is not looked at.
AcceptedAnyEdge(c, next) == payment[Pay(c)].version = Snap(c).version
AcceptedUnversioned(c, next) == TransitionOk(payment[Pay(c)].status, next)

\* transition_payment commits iff the version is still the snapshot's and the
\* table allows the edge; otherwise it fails and nothing is written.
Accepted(c, next) ==
  /\ payment[Pay(c)].version = Snap(c).version
  /\ TransitionOk(payment[Pay(c)].status, next)

\* A fault: the UPDATE leaves the version as it was.
AppliedUnbumped(c, next) == [status |-> next, version |-> payment[Pay(c)].version]

Applied(c, next) == [status |-> next, version |-> payment[Pay(c)].version + 1]

\* The audit row and the payload are built from the snapshot, before the lock.
Commit(c, next, event) ==
  LET p == Pay(c) IN
  /\ payment' = [payment EXCEPT ![p] = Applied(c, next)]
  /\ audit'   = [audit EXCEPT ![p] = Append(@, [from |-> Snap(c).status, to |-> next])]
  /\ outbox'  = [outbox EXCEPT ![p] = Append(@, [type |-> event, status |-> next])]

\* A handler whose last step is apply_status: it answers either way.
ApplyAndReturn(c, next, event) ==
  /\ \/ Accepted(c, next) /\ Commit(c, next, event)
     \/ ~Accepted(c, next) /\ UNCHANGED rowVars
  /\ Return(c)
  /\ UNCHANGED <<due, railVars, counts>>

\* is_expired and expiry_target: overdue, open, and allowed to expire.
ExpiryTarget(p, s) ==
  /\ due[p] /\ ~IsTerminal(s) /\ ~IsSettledFamily(s)
  /\ CanTransitionTo(s, "EXPIRED")

\* Whether an operation that holds a payment in status s has more to do.
WorkLeft(op, s) ==
  CASE op \in {"approve", "reject"} ->
         s \notin {"SETTLED", "FAILED", "CANCELLED", "EXPIRED", "REFUNDED"}
    [] op = "cancel" -> TransitionOk(s, "CANCELLED")
    [] op = "refund" -> s \in {"SETTLED", "PARTIALLY_REFUNDED"}
    [] op \in {"reconcile", "poll"} -> s = "PROCESSING"
    [] op \in ManualOperations \union {"replay"} -> TRUE
    [] OTHER -> FALSE

\* The slot after reading the row: `k` is its record, `p` the payment read.
Holding(k, p) ==
  LET held == [k EXCEPT !.pay = p, !.snap = payment[p]]
      s    == payment[p].status
  IN  IF k.op \notin {"cancel", "refund"} /\ ExpiryTarget(p, s)
        THEN [held EXCEPT !.pc = "expire"]
        ELSE IF WorkLeft(k.op, s) THEN [held EXCEPT !.pc = "got"] ELSE Idle

-----------------------------------------------------------------------------
(* Requests arrive                                                         *)

Begin(c, p, op) ==
  /\ At(c, "idle") /\ requests < MaxRequests
  /\ op \in Operations \ ManualOperations
  /\ requests' = requests + 1
  /\ call' = [call EXCEPT ![c] = Holding([Idle EXCEPT !.op = op], p)]
  /\ UNCHANGED <<rowVars, due, railVars, drops>>

\* An administrator resolves a manual attempt: the connector's store is read
\* first, and a reference it already resolved is left as it is.
BeginManual(c, p, op) ==
  /\ At(c, "idle") /\ requests < MaxRequests
  /\ op \in Operations \intersect ManualOperations /\ Manual \in Registered
  /\ \E a \in attempts[p], e \in ledger[p] :
       /\ e.connector = Manual /\ e.ref = a.ref
       /\ call' = [call EXCEPT ![c] =
                     [Idle EXCEPT !.op = op, !.pay = p, !.row = a,
                        !.pc = IF e.status \in {"SETTLED", "FAILED", "CANCELLED"}
                                 THEN "load" ELSE "put"]]
  /\ requests' = requests + 1
  /\ UNCHANGED <<rowVars, due, railVars, drops>>

ResolvePut(c) ==
  /\ At(c, "put")
  /\ ledger' = [ledger EXCEPT ![Pay(c)] =
                  Put(@, Manual, call[c].row.ref,
                      IF call[c].op = "settle_manual" THEN "SETTLED" ELSE "FAILED")]
  /\ call' = [call EXCEPT ![c].pc = "load"]
  /\ UNCHANGED <<rowVars, due, attempts, asked, counts>>

\* get_payment in the middle of a handler.
Load(c) ==
  /\ At(c, "load")
  /\ call' = [call EXCEPT ![c] = Holding(call[c], Pay(c))]
  /\ UNCHANGED <<rowVars, due, railVars, counts>>

ApplyExpiry(c) ==
  /\ At(c, "expire")
  /\ \/ /\ Accepted(c, "EXPIRED")
        /\ Commit(c, "EXPIRED", "payment.expired")
        /\ call' = [call EXCEPT ![c] =
                      IF WorkLeft(@.op, "EXPIRED")
                        THEN [@ EXCEPT !.pc = "got", !.snap = Applied(c, "EXPIRED")]
                        ELSE Idle]
     \/ /\ ~Accepted(c, "EXPIRED")
        /\ Return(c) /\ UNCHANGED rowVars
  /\ UNCHANGED <<due, railVars, counts>>

-----------------------------------------------------------------------------
(* Handlers that end with one transition                                   *)

Reject(c) ==
  /\ At(c, "got") /\ call[c].op = "reject"
  /\ ApplyAndReturn(c, "FAILED", "payment.failed")

Cancel(c) ==
  /\ At(c, "got") /\ call[c].op = "cancel"
  /\ ApplyAndReturn(c, "CANCELLED", "payment.cancelled")

\* No connector is called: the refund is a status of the payment only.
Refund(c) ==
  /\ At(c, "got") /\ call[c].op = "refund"
  /\ ApplyAndReturn(c, "REFUNDED", "payment.refunded")

\* The status follows the request's verdict, not the connector's store.
ResolveApply(c) ==
  /\ At(c, "got")
  /\ \/ /\ call[c].op = "settle_manual"
        /\ ApplyAndReturn(c, "SETTLED", "payment.settled")
     \/ /\ call[c].op = "fail_manual"
        /\ ApplyAndReturn(c, "FAILED", "payment.failed")

-----------------------------------------------------------------------------
(* authorize_payment after an approval                                     *)

StartProcessing(c) ==
  /\ At(c, "got") /\ call[c].op = "approve" /\ Snap(c).status # "PROCESSING"
  /\ \/ /\ Accepted(c, "PROCESSING")
        /\ Commit(c, "PROCESSING", "payment.processing")
        /\ call' = [call EXCEPT ![c].pc = "route",
                                ![c].snap = Applied(c, "PROCESSING")]
     \/ /\ ~Accepted(c, "PROCESSING")
        /\ Return(c) /\ UNCHANGED rowVars
  /\ UNCHANGED <<due, railVars, counts>>

\* A payment found PROCESSING is routed again with the snapshot just read.
Route(c) ==
  /\ \/ At(c, "route")
     \/ At(c, "got") /\ call[c].op = "approve" /\ Snap(c).status = "PROCESSING"
  /\ \E r \in Routes :
       IF r = << >>
         THEN Return(c)
         ELSE call' = [call EXCEPT ![c].pc = "attempt", ![c].keys = r,
                                   ![c].last = "PROCESSING"]
  /\ UNCHANGED <<rowVars, due, railVars, counts>>

\* should_try_next: the list is already no longer than max_attempts, so its
\* bound on attempts is met whenever a candidate remains.
AfterAttempt(k, code) ==
  IF Len(k.keys) > 1 /\ code \in FallbackCodes
    THEN [k EXCEPT !.pc = "attempt", !.keys = Tail(@)]
    ELSE [k EXCEPT !.pc = "finish"]

SkipUnregistered(c) ==
  /\ At(c, "attempt") /\ Head(call[c].keys) \notin Registered
  /\ call' = [call EXCEPT ![c] =
                AfterAttempt([@ EXCEPT !.last = "FAILED"], "CONNECTOR_UNAVAILABLE")]
  /\ UNCHANGED <<rowVars, due, railVars, counts>>

\* What create_attempt of connector k answers when its store works: the attempt
\* row's status and reference, the failure code, and the entry `put` under `key`.
Told(k, new) ==
  LET ok(s)     == [status |-> s, ref |-> new, code |-> "none", put |-> s, key |-> new]
      err(code) == [status |-> "FAILED", ref |-> NoRef, code |-> code,
                    put |-> "none", key |-> new]
      timeout   == [status |-> "AMBIGUOUS", ref |-> TimeoutRef, code |-> "TIMEOUT",
                    put |-> "AMBIGUOUS", key |-> TimeoutRef]
  IN  CASE k = Manual -> {ok("REQUIRES_ACTION")}
        [] k = Stub   -> {err("NOT_SUPPORTED")}
        [] OTHER      ->
             {ok("SETTLED") : x \in Scenarios \intersect {"success"}}
        \union {ok("PROCESSING") : x \in Scenarios \intersect {"delayed"}}
        \union {timeout : x \in Scenarios \intersect {"timeout"}}
        \union {err("CONNECTOR_UNAVAILABLE") : x \in Scenarios \intersect {"unavailable"}}
        \union {err("PAYER_DECLINED") : x \in Scenarios \intersect {"decline"}}

\* A failing store makes the call an error; the entry is there or it is not.
StoreFails(a) == [a EXCEPT !.status = "FAILED", !.ref = NoRef, !.code = "CONNECTOR_ERROR"]

Answers(k, new) ==
  LET broken == {a \in Told(k, new) : a.put # "none" /\ "store_error" \in Scenarios}
  IN  Told(k, new) \union {StoreFails(a) : a \in broken}
                   \union {[StoreFails(a) EXCEPT !.put = "none"] : a \in broken}

\* A fault: the connector answers without storing what it did.
StoreNothing(entries, k, answer) == entries

Store(entries, k, answer) ==
  IF answer.put = "none" THEN entries ELSE Put(entries, k, answer.key, answer.put)

AskConnector(c) ==
  LET p   == Pay(c)
      k   == Head(call[c].keys)
      new == asked[p] + 1
  IN  /\ At(c, "attempt") /\ k \in Registered
      /\ asked' = [asked EXCEPT ![p] = new]
      /\ \E answer \in Answers(k, new) :
           /\ ledger' = [ledger EXCEPT ![p] = Store(@, k, answer)]
           /\ call' = [call EXCEPT
                ![c].pc = "record", ![c].code = answer.code,
                ![c].row = [at |-> new, connector |-> k, ref |-> answer.ref,
                            status |-> answer.status]]
      /\ UNCHANGED <<rowVars, due, attempts, counts>>

\* idx_attempt_provider_ref refuses a second row with the same connector and
\* reference; the request then ends with an error.
RecordAttempt(c) ==
  LET p == Pay(c)
      r == call[c].row
  IN  /\ At(c, "record")
      /\ IF r.ref # NoRef /\ \E a \in attempts[p] : a.connector = r.connector /\ a.ref = r.ref
           THEN Return(c) /\ UNCHANGED attempts
           ELSE /\ attempts' = [attempts EXCEPT ![p] = @ \union {r}]
                /\ call' = [call EXCEPT ![c] =
                     AfterAttempt([@ EXCEPT !.last = IntoPaymentStatus(r.status)], @.code)]
      /\ UNCHANGED <<rowVars, due, ledger, asked, counts>>

Finish(c) ==
  /\ At(c, "finish")
  /\ ApplyAndReturn(c, call[c].last, WebhookEvent(call[c].last))

-----------------------------------------------------------------------------
(* reconcile_payment and replay_connector_callback                         *)

Reconcilable(p) == {a \in attempts[p] : a.status \in {"AMBIGUOUS", "PROCESSING"}}

\* list_attempts is ordered by created_at; both operations take the last.
Latest(rows) == {a \in rows : \A b \in rows : b.at <= a.at}

Candidates(c) ==
  IF call[c].op = "replay" THEN attempts[Pay(c)] ELSE Reconcilable(Pay(c))

PickAttempt(c) ==
  LET rows == Candidates(c)
  IN  /\ At(c, "got") /\ call[c].op \in {"reconcile", "poll", "replay"}
      /\ \/ rows = {} /\ Return(c)
         \/ \E a \in Latest(rows) :
              IF a.ref = NoRef \/ a.connector \notin Registered
                THEN Return(c)
                ELSE call' = [call EXCEPT ![c].pc = "fetch", ![c].row = a]
      /\ UNCHANGED <<rowVars, due, railVars, counts>>

\* A fault: a replayed callback is applied like a reconciliation.
FetchedApplied(c, s) ==
  IF IntoPaymentStatus(s) = Snap(c).status
    THEN Return(c)
    ELSE call' = [call EXCEPT ![c].pc = "close", ![c].last = IntoPaymentStatus(s)]

\* A fetched status ends a replay, after one more get_payment, and gives a
\* reconciliation the status to apply unless the payment already has it.
Fetched(c, s) ==
  IF call[c].op = "replay"
    THEN call' = [call EXCEPT ![c].pc = "load", ![c].op = "replayed"]
    ELSE IF IntoPaymentStatus(s) = Snap(c).status
           THEN Return(c)
           ELSE call' = [call EXCEPT ![c].pc = "close", ![c].last = IntoPaymentStatus(s)]

\* fetch_attempt of the mock connector settles what is still open: any
\* timeout_ reference at once, without its store, and others in its store.
Fetch(c) ==
  LET p == Pay(c)
      r == call[c].row
      held == {e \in ledger[p] : e.connector = r.connector /\ e.ref = r.ref}
      settles(e) == r.connector = Mock /\ e.status \in {"PROCESSING", "AMBIGUOUS"}
  IN  /\ At(c, "fetch")
      /\ \/ /\ r.connector = Mock /\ r.ref = TimeoutRef
            /\ Fetched(c, "SETTLED") /\ UNCHANGED ledger
         \/ /\ ~(r.connector = Mock /\ r.ref = TimeoutRef)
            /\ \E e \in held :
                 LET s == IF settles(e) THEN "SETTLED" ELSE e.status
                 IN  /\ ledger' = [ledger EXCEPT ![p] = Put(@, r.connector, r.ref, s)]
                     /\ Fetched(c, s)
         \/ /\ ~(r.connector = Mock /\ r.ref = TimeoutRef) /\ held = {}
            /\ Return(c) /\ UNCHANGED ledger
      /\ UNCHANGED <<rowVars, due, attempts, asked, counts>>

Close(c) ==
  /\ At(c, "close")
  /\ ApplyAndReturn(c, call[c].last, WebhookEvent(call[c].last))

-----------------------------------------------------------------------------
(* The worker's sweeps, the clock, and dropped work                        *)

\* A fault: the list query misses the payments nobody has touched.
BeginSweepTouched(w, p) ==
  /\ At(w, "idle") /\ due[p] /\ payment[p].status = "REQUIRES_ACTION"
  /\ call' = [call EXCEPT ![w] =
                [Idle EXCEPT !.op = "sweep", !.pay = p, !.snap = payment[p],
                             !.pc = "expire"]]
  /\ UNCHANGED <<rowVars, due, railVars, counts>>

\* expire_stale_payments: the list query returns the rows themselves.
BeginSweep(w, p) ==
  /\ At(w, "idle") /\ due[p]
  /\ payment[p].status \in {"PENDING", "REQUIRES_ACTION"}
  /\ call' = [call EXCEPT ![w] =
                [Idle EXCEPT !.op = "sweep", !.pay = p, !.snap = payment[p],
                             !.pc = "expire"]]
  /\ UNCHANGED <<rowVars, due, railVars, counts>>

\* reconcile_stale_attempts: the listed payment is read again and reconciled.
BeginPoll(w, p) ==
  /\ At(w, "idle") /\ ScanAccepted
  /\ payment[p].status = "PROCESSING" /\ Reconcilable(p) # {}
  /\ call' = [call EXCEPT ![w] = Holding([Idle EXCEPT !.op = "poll"], p)]
  /\ UNCHANGED <<rowVars, due, railVars, counts>>

ClockPasses(p) ==
  /\ ~due[p]
  /\ due' = [due EXCEPT ![p] = TRUE]
  /\ UNCHANGED <<rowVars, railVars, call, counts>>

\* A dropped future, a database error or a crash: what was committed stays.
Abandon(c) ==
  /\ ~At(c, "idle") /\ drops < MaxDrops
  /\ drops' = drops + 1
  /\ Return(c)
  /\ UNCHANGED <<rowVars, due, railVars, requests>>

-----------------------------------------------------------------------------

Init ==
  /\ payment  = [p \in Payments |-> [status |-> "PENDING", version |-> 1]]
  /\ due      = [p \in Payments |-> FALSE]
  /\ attempts = [p \in Payments |-> {}]
  /\ ledger   = [p \in Payments |-> {}]
  /\ asked    = [p \in Payments |-> 0]
  /\ audit    = [p \in Payments |-> <<[from |-> "CREATED", to |-> "PENDING"]>>]
  /\ outbox   = [p \in Payments |-> <<[type |-> "payment.created", status |-> "PENDING"]>>]
  /\ call     = [c \in Slots |-> Idle]
  /\ requests = 0
  /\ drops    = 0

Step(c) ==
  \/ ResolvePut(c) \/ Load(c) \/ ApplyExpiry(c)
  \/ Reject(c) \/ Cancel(c) \/ Refund(c) \/ ResolveApply(c)
  \/ StartProcessing(c) \/ Route(c) \/ SkipUnregistered(c)
  \/ AskConnector(c) \/ RecordAttempt(c) \/ Finish(c)
  \/ PickAttempt(c) \/ Fetch(c) \/ Close(c)

Next ==
  \/ \E c \in Requests, p \in Payments, op \in Operations :
       Begin(c, p, op) \/ BeginManual(c, p, op)
  \/ \E w \in Workers, p \in Payments : BeginSweep(w, p) \/ BeginPoll(w, p)
  \/ \E c \in Slots : Step(c) \/ Abandon(c)
  \/ \E p \in Payments : ClockPasses(p)

Spec == Init /\ [][Next]_vars

-----------------------------------------------------------------------------
(* Fairness: every tick of the worker loop lists what there is to expire    *)
(* and what to poll, and what it began goes on unless it is dropped.        *)
(* Requests promise nothing: each of them may stop for good.  Polls count   *)
(* for AmbiguityIsResolved alone, and are never listed if ~ScanAccepted.    *)

Fairness ==
  \A w \in Workers :
    /\ WF_vars(Step(w))
    /\ \A p \in Payments : SF_vars(BeginSweep(w, p)) /\ SF_vars(BeginPoll(w, p))

FairSpec == Spec /\ Fairness

-----------------------------------------------------------------------------
(* Properties                                                              *)

EventTypes == {"payment.created"} \union {WebhookEvent(s) : s \in PaymentStatuses}
Row   == [status: PaymentStatuses, version: Nat]
Work  == [pc: {"idle", "expire", "got", "route", "attempt", "record", "finish",
               "fetch", "close", "put", "load"},
          op: ApiOperations \union {"none", "replayed", "sweep", "poll"},
          pay: Payments \union {NoPayment}, snap: Row,
          keys: Seq(Connectors), last: PaymentStatuses, row: Attempt,
          code: {"none", "CONNECTOR_UNAVAILABLE", "TIMEOUT", "PAYER_DECLINED",
                 "NOT_SUPPORTED", "CONNECTOR_ERROR"}]

\* A slot at work holds a payment, and one about to resolve a reference.
WellFormed(k) ==
  /\ k.pc # "idle" => k.pay \in Payments
  /\ k.pc = "put" => k.row.ref \in Nat

\* Every row, log and slot has the shape the code gives it, and a slot at work
\* holds a payment.
TypeOK ==
  /\ payment  \in [Payments -> Row]
  /\ due      \in [Payments -> BOOLEAN]
  /\ attempts \in [Payments -> SUBSET Attempt]
  /\ ledger   \in [Payments -> SUBSET Entry]
  /\ asked    \in [Payments -> Nat]
  /\ audit    \in [Payments -> Seq([from: PaymentStatuses, to: PaymentStatuses])]
  /\ outbox   \in [Payments -> Seq([type: EventTypes, status: PaymentStatuses])]
  /\ call     \in [Slots -> Work]
  /\ \A c \in Slots : WellFormed(call[c])
  /\ requests \in 0..MaxRequests /\ drops \in 0..MaxDrops

\* The audit trail and the outbox are one faithful history of the payment:
\* as many entries as versions, each audit row starting where the one before
\* it ended although its `from` comes from a copy read earlier, each event
\* announcing the status its audit row reached, the last one the row's.
FaithfulHistory ==
  \A p \in Payments :
    LET n == payment[p].version IN
    /\ Len(audit[p]) = n /\ Len(outbox[p]) = n
    /\ \A i \in 1..n - 1 : audit[p][i + 1].from = audit[p][i].to
    /\ \A i \in 1..n : outbox[p][i].status = audit[p][i].to
    /\ outbox[p][n].status = payment[p].status

\* A payment that expired or was cancelled never reaches a rail, whatever
\* races the expiry and the cancellation lost or won.
WithdrawnNeverAsked ==
  \A p \in Payments :
    payment[p].status \in {"PENDING", "CANCELLED", "EXPIRED"} =>
      asked[p] = 0 /\ attempts[p] = {} /\ ledger[p] = {}

\* Whoever wins the races, merchants hear once that a payment was settled and
\* once that it failed: only an administrator who gives the same verdict again
\* makes the decision heard again.
DecidedOnce ==
  [][\A p \in Payments, s \in {"SETTLED", "FAILED"} :
       /\ outbox'[p] # outbox[p] /\ outbox'[p][Len(outbox'[p])].status = s
       /\ \E i \in DOMAIN outbox[p] : outbox[p][i].status = s
       => \E c \in Slots : /\ Pay(c) = p /\ call'[c] # call[c]
                           /\ call[c].op \in ManualOperations]_vars

\* A rail that has, or may have, the money.  An administrator who settles a
\* manual attempt vouches for it, whatever the connector's store says by then.
Vouches(e) ==
  \/ e.status \in {"SETTLED", "AMBIGUOUS"}
  \/ e.connector = Manual /\ "settle_manual" \in Operations

\* A settled payment is backed by a rail that vouches for the money.
SettledIsBacked ==
  \A p \in Payments :
    payment[p].status \in {"SETTLED", "REFUNDED"} =>
      \E e \in ledger[p] : Vouches(e)

\* An attempt row never claims more than the rail holds: its reference is
\* known there, and once settled in our table it is settled on the rail.
AttemptsMatchLedger ==
  \A p \in Payments : \A a \in attempts[p] :
    a.ref # NoRef =>
      \E e \in ledger[p] : /\ e.connector = a.connector /\ e.ref = a.ref
                           /\ a.status = "SETTLED" => e.status = "SETTLED"

\* The detailed lifecycle keeps the promises of PaymentContract.
PhaseOf(s) ==
  CASE s \in {"CREATED", "PENDING"} -> "waiting"
    [] s \in {"REQUIRES_ACTION", "PROCESSING", "AUTHORIZED"} -> "accepted"
    [] s \in {"SETTLED", "REFUND_PENDING", "PARTIALLY_REFUNDED"} -> "paid"
    [] s = "REFUNDED" -> "refunded"
    [] s = "FAILED" -> "failed"
    [] OTHER -> "withdrawn"

Contract == INSTANCE PaymentContract WITH
              phase <- [p \in Payments |-> PhaseOf(payment[p].status)],
              asked <- [p \in Payments |-> asked[p] > 0]
KeepsContract == Contract!Spec

\* A replayed connector callback may find its payment overdue and close it,
\* but it never decides one: the answer it fetches is dropped.
ReplayDecidesNothing ==
  [][\A c \in Slots :
       /\ call[c].op \in {"replay", "replayed"} /\ call'[c] # call[c]
       /\ payment' # payment
       => payment'[Pay(c)].status = "EXPIRED"]_vars

\* Stated by IMPLEMENTING.md: a manual payment waits as REQUIRES_ACTION until
\* an administrator resolves it.
ManualPaymentWaits ==
  \A p \in Payments :
    (\A c \in Slots : Pay(c) # p) =>
      \A e \in ledger[p] :
        e.status = "REQUIRES_ACTION" => payment[p].status = "REQUIRES_ACTION"

\* Stated by THREAT-MODEL.md against double charges: connector calls are not
\* retried on their own, so a payment has at most one charge made or open.
OneOpenCharge ==
  \A p \in Payments :
    Cardinality({e \in ledger[p] : e.status \notin {"FAILED", "CANCELLED"}}) <= 1

\* An overdue payment nobody has accepted does not stay open, although the sweep
\* loses races against requests, its tick is dropped and the poll always fails.
OverdueIsClosed ==
  \A p \in Payments : due[p] /\ payment[p].status = "PENDING"
                        ~> payment[p].status # "PENDING"

\* Stated by IMPLEMENTING.md: the worker polls a payment whose outcome is unknown
\* until it is decided.
AmbiguityIsResolved ==
  \A p \in Payments : payment[p].status = "PROCESSING" /\ Reconcilable(p) # {}
                        ~> payment[p].status # "PROCESSING"

-----------------------------------------------------------------------------
(* Why the safety properties are invariant                                 *)

\* A handler's copy of the row is never ahead of the row and, at the row's
\* version, it is the row: what the version check of apply_status relies on.
SnapshotsAgree ==
  \A c \in Slots : ~At(c, "idle") =>
    /\ Snap(c).version <= payment[Pay(c)].version
    /\ Snap(c).version = payment[Pay(c)].version => Snap(c) = payment[Pay(c)]

Untouched == {"PENDING", "CANCELLED", "EXPIRED"}
Reached   == Untouched \union {"PROCESSING", "SETTLED", "FAILED", "REFUNDED"}
Reported  == {"REQUIRES_ACTION", "PROCESSING", "SETTLED", "FAILED", "AMBIGUOUS"}

\* A slot that asked some connector, or is to act on what one answered.
HasAsked(k) ==
  \/ k.pc \in {"record", "fetch", "close", "put"}
  \/ k.last = "SETTLED" \/ k.op \in ManualOperations

\* A slot whose payer has accepted: its payment left PENDING for PROCESSING.
HasAccepted(k) ==
  \/ k.pc \in {"route", "attempt", "finish"}
  \/ k.snap.status \notin Untouched \union {"CREATED"}

\* What a row's status, its connector calls, attempts and references may be.
RowFits(status, n, rows, entries) ==
  /\ status \in Reached
  /\ \A e \in rows \union entries : e.status \in Reported
  /\ n = 0 => rows = {} /\ entries = {}
  /\ status \in Untouched => n = 0

\* What a slot may hold when its payment has this status and n calls made.
SlotFits(k, status, n) ==
  /\ k.last \in (Reported \ {"AMBIGUOUS"}) \union {"CREATED"}
  /\ k.pc = "record" => k.row.status \in Reported
  /\ k.pc # "idle" /\ HasAsked(k) => n > 0
  /\ k.pc # "idle" /\ HasAccepted(k) => status \notin Untouched

\* What connectors were asked, and what slots are about to write, follows the
\* payer's acceptance, which no payment takes back.
RailsFollowAcceptance ==
  /\ \A p \in Payments : RowFits(payment[p].status, asked[p], attempts[p], ledger[p])
  /\ \A c \in Slots : SlotFits(call[c], payment[Pay(c)].status, asked[Pay(c)])

=============================================================================
