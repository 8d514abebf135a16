----------------------- MODULE PaymentLifecycleProofs -----------------------
(***************************************************************************)
(* Proofs about PaymentLifecycle, for every set of payments, slots,        *)
(* operations, routes and bounds.                                          *)
(***************************************************************************)
EXTENDS PaymentLifecycle, SequenceTheorems, TLAPS

-----------------------------------------------------------------------------
(* Typing of the operators the actions are built from                      *)

\* Whatever a connector reports maps to a status of the domain.
LEMMA IntoPaymentStatusTyped ==
  ASSUME NEW a \in AttemptStatuses
  PROVE  IntoPaymentStatus(a) \in PaymentStatuses
BY DEF AttemptStatuses, PaymentStatuses, IntoPaymentStatus

LEMMA EventTyped ==
  /\ \A s \in PaymentStatuses : WebhookEvent(s) \in EventTypes
  /\ {"payment.created", "payment.processing", "payment.settled", "payment.failed",
      "payment.cancelled", "payment.expired", "payment.refunded"} \subseteq EventTypes
<1>1. \A s \in PaymentStatuses : WebhookEvent(s) \in EventTypes
  BY DEF EventTypes
<1>2. /\ WebhookEvent("PROCESSING") = "payment.processing"
      /\ WebhookEvent("SETTLED") = "payment.settled"
      /\ WebhookEvent("FAILED") = "payment.failed"
      /\ WebhookEvent("CANCELLED") = "payment.cancelled"
      /\ WebhookEvent("EXPIRED") = "payment.expired"
      /\ WebhookEvent("REFUNDED") = "payment.refunded"
  BY DEF WebhookEvent
<1>3. {"PROCESSING", "SETTLED", "FAILED", "CANCELLED", "EXPIRED", "REFUNDED"}
        \subseteq PaymentStatuses
  BY DEF PaymentStatuses
<1>4. "payment.created" \in EventTypes
  BY DEF EventTypes
<1>5. QED
  BY <1>1, <1>2, <1>3, <1>4

LEMMA NoAttemptTyped == NoAttempt \in Attempt
BY DEF NoAttempt, Attempt, NoRef, Connectors, Mock, AttemptStatuses

LEMMA IdleTyped == Idle \in Work /\ WellFormed(Idle)
<1>1. Idle.snap \in Row
  BY DEF Idle, Row, PaymentStatuses
<1>2. << >> \in Seq(Connectors)
  OBVIOUS
<1>3. Idle \in Work
  BY <1>1, <1>2, NoAttemptTyped DEF Idle, Work, PaymentStatuses
<1>4. QED
  BY <1>3 DEF Idle, WellFormed

\* Reading a row leaves a well-formed slot.
LEMMA HoldingTyped ==
  ASSUME TypeOK, NEW k \in Work, NEW p \in Payments
  PROVE  Holding(k, p) \in Work /\ WellFormed(Holding(k, p))
<1>1. payment[p] \in Row
  BY DEF TypeOK
<1>2. [[k EXCEPT !.pay = p, !.snap = payment[p]] EXCEPT !.pc = "expire"] \in Work
  BY <1>1 DEF Work
<1>3. [[k EXCEPT !.pay = p, !.snap = payment[p]] EXCEPT !.pc = "got"] \in Work
  BY <1>1 DEF Work
<1>4. QED
  BY <1>2, <1>3, IdleTyped DEF Holding, WellFormed, Work

\* A committed transition writes well-formed rows.
LEMMA CommitTyped ==
  ASSUME TypeOK, NEW c \in Slots, Pay(c) \in Payments,
         NEW next \in PaymentStatuses, NEW event \in EventTypes,
         Commit(c, next, event)
  PROVE  /\ payment' \in [Payments -> Row]
         /\ audit'   \in [Payments -> Seq([from: PaymentStatuses, to: PaymentStatuses])]
         /\ outbox'  \in [Payments -> Seq([type: EventTypes, status: PaymentStatuses])]
         /\ Applied(c, next) \in Row
<1> DEFINE p == Pay(c)
           e == [from |-> Snap(c).status, to |-> next]
           o == [type |-> event, status |-> next]
<1>1. payment[p] \in Row /\ Snap(c) \in Row
  BY DEF TypeOK, Work, Snap
<1>2. Applied(c, next) \in Row
  BY <1>1 DEF Applied, Row
<1>3. Append(audit[p], e) \in Seq([from: PaymentStatuses, to: PaymentStatuses])
  <2>1. e \in [from: PaymentStatuses, to: PaymentStatuses]
    BY <1>1 DEF Row
  <2>2. audit[p] \in Seq([from: PaymentStatuses, to: PaymentStatuses])
    BY DEF TypeOK
  <2>3. QED
    BY <2>1, <2>2, AppendProperties
<1>4. Append(outbox[p], o) \in Seq([type: EventTypes, status: PaymentStatuses])
  <2>1. o \in [type: EventTypes, status: PaymentStatuses]
    OBVIOUS
  <2>2. outbox[p] \in Seq([type: EventTypes, status: PaymentStatuses])
    BY DEF TypeOK
  <2>3. QED
    BY <2>1, <2>2, AppendProperties
<1>5. QED
  BY <1>2, <1>3, <1>4 DEF Commit, TypeOK


CallsTyped == call \in [Slots -> Work] /\ \A c \in Slots : WellFormed(call[c])

\* One slot changes, the others stay as they are.
LEMMA SlotUpdateTyped ==
  ASSUME CallsTyped, NEW c \in Slots, NEW k \in Work, WellFormed(k),
         call' = [call EXCEPT ![c] = k]
  PROVE  CallsTyped'
BY DEF CallsTyped, WellFormed

LEMMA ReturnTyped ==
  ASSUME TypeOK, NEW c \in Slots, Return(c)
  PROVE  CallsTyped'
<1>1. CallsTyped
  BY DEF TypeOK, CallsTyped
<1>2. QED
  BY <1>1, IdleTyped, SlotUpdateTyped DEF Return

LEMMA ApplyAndReturnTyped ==
  ASSUME TypeOK, NEW c \in Slots, Pay(c) \in Payments,
         NEW next \in PaymentStatuses, NEW event \in EventTypes,
         ApplyAndReturn(c, next, event)
  PROVE  TypeOK'
<1>1. CallsTyped'
  BY ReturnTyped DEF ApplyAndReturn
<1>2. CASE Accepted(c, next) /\ Commit(c, next, event)
  BY <1>1, <1>2, CommitTyped DEF ApplyAndReturn, TypeOK, CallsTyped, railVars, counts
<1>3. CASE ~Accepted(c, next) /\ UNCHANGED rowVars
  BY <1>1, <1>3 DEF ApplyAndReturn, TypeOK, CallsTyped, railVars, rowVars, counts
<1>4. QED
  BY <1>2, <1>3 DEF ApplyAndReturn

\* What a connector answers, and what it stores, is well formed.
Answer == [status: AttemptStatuses, ref: Nat \union {NoRef},
           code: {"none", "CONNECTOR_UNAVAILABLE", "TIMEOUT", "PAYER_DECLINED",
                  "NOT_SUPPORTED", "CONNECTOR_ERROR"},
           put: AttemptStatuses \union {"none"}, key: Nat]

LEMMA ToldTyped ==
  ASSUME NEW k, NEW new \in Nat
  PROVE  Told(k, new) \subseteq Answer
<1> DEFINE ok(s)     == [status |-> s, ref |-> new, code |-> "none", put |-> s, key |-> new]
           err(code) == [status |-> "FAILED", ref |-> NoRef, code |-> code,
                         put |-> "none", key |-> new]
           timeout   == [status |-> "AMBIGUOUS", ref |-> TimeoutRef, code |-> "TIMEOUT",
                         put |-> "AMBIGUOUS", key |-> TimeoutRef]
<1>1. \A s \in {"REQUIRES_ACTION", "SETTLED", "PROCESSING"} : ok(s) \in Answer
  BY DEF Answer, AttemptStatuses
<1>2. \A code \in {"NOT_SUPPORTED", "CONNECTOR_UNAVAILABLE", "PAYER_DECLINED"} :
        err(code) \in Answer
  BY DEF Answer, AttemptStatuses
<1>3. timeout \in Answer
  BY DEF Answer, AttemptStatuses, TimeoutRef
<1> HIDE DEF ok, err, timeout
<1>4. SUFFICES ASSUME NEW a \in Told(k, new)
               PROVE  \/ \E s \in {"REQUIRES_ACTION", "SETTLED", "PROCESSING"} : a = ok(s)
                      \/ \E code \in {"NOT_SUPPORTED", "CONNECTOR_UNAVAILABLE",
                                      "PAYER_DECLINED"} : a = err(code)
                      \/ a = timeout
  BY <1>1, <1>2, <1>3
<1>5. QED
  BY Zenon DEF Told, ok, err, timeout

LEMMA AnswersTyped ==
  ASSUME NEW k, NEW new \in Nat
  PROVE  Answers(k, new) \subseteq Answer
<1>1. \A a \in Answer : /\ StoreFails(a) \in Answer
                        /\ [StoreFails(a) EXCEPT !.put = "none"] \in Answer
  BY DEF StoreFails, Answer, AttemptStatuses
<1>2. QED
  BY <1>1, ToldTyped DEF Answers

LEMMA PutTyped ==
  ASSUME NEW entries \in SUBSET Entry, NEW k \in Connectors, NEW r \in Nat,
         NEW s \in AttemptStatuses
  PROVE  Put(entries, k, r, s) \in SUBSET Entry
BY DEF Put, Entry

\* The loop over candidates goes on with the rest or ends.
LEMMA AfterAttemptTyped ==
  ASSUME NEW k \in Work, WellFormed(k), k.pc # "idle", NEW code
  PROVE  AfterAttempt(k, code) \in Work /\ WellFormed(AfterAttempt(k, code))
<1>1. CASE Len(k.keys) > 1 /\ code \in FallbackCodes
  <2>1. Tail(k.keys) \in Seq(Connectors)
    BY <1>1 DEF Work
  <2>2. AfterAttempt(k, code) = [k EXCEPT !.pc = "attempt", !.keys = Tail(k.keys)]
    BY <1>1 DEF AfterAttempt
  <2>3. QED
    BY <2>1, <2>2 DEF Work, WellFormed
<1>2. CASE ~(Len(k.keys) > 1 /\ code \in FallbackCodes)
  BY <1>2 DEF AfterAttempt, Work, WellFormed
<1>3. QED
  BY <1>1, <1>2

-----------------------------------------------------------------------------
(* Type correctness                                                        *)

LEMMA StepTyped ==
  ASSUME TypeOK, NEW c \in Slots, Step(c)
  PROVE  TypeOK'
<1> DEFINE k == call[c]
           p == Pay(c)
<1>1. k \in Work /\ WellFormed(k) /\ CallsTyped
  BY DEF TypeOK, CallsTyped
<1>2. ~At(c, "idle") => p \in Payments
  BY <1>1 DEF At, Pay, WellFormed
<1>3. {"PROCESSING", "SETTLED", "FAILED", "CANCELLED", "EXPIRED", "REFUNDED"}
        \subseteq PaymentStatuses
  BY DEF PaymentStatuses
<1>4. CASE ResolvePut(c)
  <2>1. p \in Payments /\ k.row.ref \in Nat
    BY <1>1, <1>2, <1>4 DEF ResolvePut, At, WellFormed
  <2>2. \A s \in {"SETTLED", "FAILED"} : Put(ledger[p], Manual, k.row.ref, s) \in SUBSET Entry
    BY <2>1, PutTyped DEF TypeOK, Connectors, AttemptStatuses
  <2>3. ledger' \in [Payments -> SUBSET Entry]
    BY <1>4, <2>1, <2>2 DEF ResolvePut, TypeOK
  <2>4. [k EXCEPT !.pc = "load"] \in Work /\ WellFormed([k EXCEPT !.pc = "load"])
    BY <1>1, <2>1 DEF Work, WellFormed, Pay
  <2>5. CallsTyped'
    BY <1>1, <1>4, <2>4, SlotUpdateTyped DEF ResolvePut
  <2>6. QED
    BY <1>4, <2>3, <2>5 DEF ResolvePut, TypeOK, CallsTyped, rowVars, counts
<1>5. CASE Load(c)
  <2>1. p \in Payments
    BY <1>2, <1>5 DEF Load, At
  <2>2. Holding(k, p) \in Work /\ WellFormed(Holding(k, p))
    BY <1>1, <2>1, HoldingTyped
  <2>3. CallsTyped'
    BY <1>1, <1>5, <2>2, SlotUpdateTyped DEF Load
  <2>4. QED
    BY <1>5, <2>3 DEF Load, TypeOK, CallsTyped, rowVars, railVars, counts
<1>6. CASE ApplyExpiry(c)
  <2>1. p \in Payments
    BY <1>2, <1>6 DEF ApplyExpiry, At
  <2>2. CASE Commit(c, "EXPIRED", "payment.expired")
    <3>1. /\ payment' \in [Payments -> Row]
          /\ audit'   \in [Payments -> Seq([from: PaymentStatuses, to: PaymentStatuses])]
          /\ outbox'  \in [Payments -> Seq([type: EventTypes, status: PaymentStatuses])]
          /\ Applied(c, "EXPIRED") \in Row
      BY <1>3, <2>1, <2>2, EventTyped, CommitTyped
    <3>2. [k EXCEPT !.pc = "got", !.snap = Applied(c, "EXPIRED")] \in Work
          /\ WellFormed([k EXCEPT !.pc = "got", !.snap = Applied(c, "EXPIRED")])
      BY <1>1, <2>1, <3>1 DEF Work, WellFormed, Pay
    <3>3. \/ Return(c)
          \/ call' = [call EXCEPT ![c] = [k EXCEPT !.pc = "got", !.snap = Applied(c, "EXPIRED")]]
      BY <1>6 DEF ApplyExpiry, Return
    <3>4. CallsTyped'
      BY <1>1, <3>2, <3>3, ReturnTyped, SlotUpdateTyped
    <3>5. QED
      BY <1>6, <3>1, <3>4 DEF ApplyExpiry, TypeOK, CallsTyped, railVars, counts
  <2>3. CASE Return(c) /\ UNCHANGED rowVars
    BY <1>6, <2>3, ReturnTyped DEF ApplyExpiry, TypeOK, CallsTyped, rowVars, railVars, counts
  <2>4. QED
    BY <1>6, <2>2, <2>3 DEF ApplyExpiry
<1>7. CASE Reject(c) \/ Cancel(c) \/ Refund(c) \/ ResolveApply(c)
  <2>1. p \in Payments
    BY <1>2, <1>7 DEF Reject, Cancel, Refund, ResolveApply, At
  <2>2. \/ ApplyAndReturn(c, "FAILED", "payment.failed")
        \/ ApplyAndReturn(c, "CANCELLED", "payment.cancelled")
        \/ ApplyAndReturn(c, "REFUNDED", "payment.refunded")
        \/ ApplyAndReturn(c, "SETTLED", "payment.settled")
    BY <1>7 DEF Reject, Cancel, Refund, ResolveApply
  <2>3. QED
    BY <1>3, <2>1, <2>2, EventTyped, ApplyAndReturnTyped
<1>8. CASE StartProcessing(c)
  <2>1. p \in Payments
    BY <1>2, <1>8 DEF StartProcessing, At
  <2>2. CASE Commit(c, "PROCESSING", "payment.processing")
             /\ call' = [call EXCEPT ![c].pc = "route", ![c].snap = Applied(c, "PROCESSING")]
    <3>1. /\ payment' \in [Payments -> Row]
          /\ audit'   \in [Payments -> Seq([from: PaymentStatuses, to: PaymentStatuses])]
          /\ outbox'  \in [Payments -> Seq([type: EventTypes, status: PaymentStatuses])]
          /\ Applied(c, "PROCESSING") \in Row
      BY <1>3, <2>1, <2>2, EventTyped, CommitTyped
    <3>2. [k EXCEPT !.pc = "route", !.snap = Applied(c, "PROCESSING")] \in Work
          /\ WellFormed([k EXCEPT !.pc = "route", !.snap = Applied(c, "PROCESSING")])
      BY <1>1, <2>1, <3>1 DEF Work, WellFormed, Pay
    <3>3. call' = [call EXCEPT ![c] = [k EXCEPT !.pc = "route", !.snap = Applied(c, "PROCESSING")]]
      BY <2>2
    <3>4. CallsTyped'
      BY <1>1, <3>2, <3>3, SlotUpdateTyped
    <3>5. QED
      BY <1>8, <3>1, <3>4 DEF StartProcessing, TypeOK, CallsTyped, railVars, counts
  <2>3. CASE Return(c) /\ UNCHANGED rowVars
    BY <1>8, <2>3, ReturnTyped DEF StartProcessing, TypeOK, CallsTyped, rowVars, railVars, counts
  <2>4. QED
    BY <1>8, <2>2, <2>3 DEF StartProcessing
<1>9. CASE Route(c)
  <2>1. p \in Payments
    BY <1>2, <1>9 DEF Route, At
  <2>2. CASE Return(c)
    BY <1>9, <2>2, ReturnTyped DEF Route, TypeOK, CallsTyped, rowVars, railVars, counts
  <2>3. ASSUME NEW r \in Routes,
               call' = [call EXCEPT ![c].pc = "attempt", ![c].keys = r, ![c].last = "PROCESSING"]
        PROVE  TypeOK'
    <3> DEFINE new == [k EXCEPT !.pc = "attempt", !.keys = r, !.last = "PROCESSING"]
    <3>1. new \in Work /\ WellFormed(new)
      BY <1>1, <1>3, <2>1, RoutingAssumption DEF Work, WellFormed, Pay
    <3>2. call' = [call EXCEPT ![c] = new]
      BY <2>3
    <3>3. CallsTyped'
      BY <1>1, <3>1, <3>2, SlotUpdateTyped
    <3>4. QED
      BY <1>9, <3>3 DEF Route, TypeOK, CallsTyped, rowVars, railVars, counts
  <2>4. QED
    BY <1>9, <2>2, <2>3 DEF Route
<1>10. CASE SkipUnregistered(c)
  <2> DEFINE skipped == [k EXCEPT !.last = "FAILED"]
             new == AfterAttempt(skipped, "CONNECTOR_UNAVAILABLE")
  <2>1. skipped \in Work /\ WellFormed(skipped) /\ skipped.pc # "idle"
    BY <1>1, <1>3, <1>10 DEF SkipUnregistered, At, Work, WellFormed
  <2>2. new \in Work /\ WellFormed(new)
    BY <2>1, AfterAttemptTyped
  <2>3. CallsTyped'
    BY <1>1, <1>10, <2>2, SlotUpdateTyped DEF SkipUnregistered
  <2>4. QED
    BY <1>10, <2>3 DEF SkipUnregistered, TypeOK, CallsTyped, rowVars, railVars, counts
<1>11. CASE AskConnector(c)
  <2> DEFINE conn == Head(k.keys)
             new  == asked[p] + 1
  <2>1. p \in Payments /\ conn \in Connectors
    BY <1>2, <1>11, RoutingAssumption DEF AskConnector, At
  <2>2. new \in Nat /\ asked' \in [Payments -> Nat]
    BY <1>11, <2>1 DEF AskConnector, TypeOK
  <2>3. PICK answer \in Answers(conn, new) :
          /\ ledger' = [ledger EXCEPT ![p] = Store(@, conn, answer)]
          /\ call' = [call EXCEPT
               ![c].pc = "record", ![c].code = answer.code,
               ![c].row = [at |-> new, connector |-> conn, ref |-> answer.ref,
                           status |-> answer.status]]
    BY <1>11 DEF AskConnector
  <2> DEFINE row  == [at |-> new, connector |-> conn, ref |-> answer.ref, status |-> answer.status]
             next == [k EXCEPT !.pc = "record", !.code = answer.code, !.row = row]
  <2>4. /\ answer.status \in AttemptStatuses
        /\ answer.ref \in Nat \union {NoRef}
        /\ answer.code \in {"none", "CONNECTOR_UNAVAILABLE", "TIMEOUT",
                            "PAYER_DECLINED", "NOT_SUPPORTED", "CONNECTOR_ERROR"}
        /\ answer.put \in AttemptStatuses \union {"none"}
        /\ answer.key \in Nat
    BY <2>2, <2>3, AnswersTyped DEF Answer
  <2>5. Store(ledger[p], conn, answer) \in SUBSET Entry
    BY <2>1, <2>4, PutTyped DEF Store, TypeOK
  <2>6. ledger' \in [Payments -> SUBSET Entry]
    BY <2>1, <2>3, <2>5 DEF TypeOK
  <2>7. row \in Attempt
    BY <2>1, <2>2, <2>4 DEF Attempt
  <2>8. next \in Work /\ WellFormed(next)
    BY <1>1, <2>1, <2>4, <2>7 DEF Work, WellFormed, Pay
  <2>9. call' = [call EXCEPT ![c] = next]
    BY <2>3
  <2>10. CallsTyped'
    BY <1>1, <2>8, <2>9, SlotUpdateTyped
  <2>11. QED
    BY <1>11, <2>2, <2>6, <2>10 DEF AskConnector, TypeOK, CallsTyped, rowVars, counts
<1>12. CASE RecordAttempt(c)
  <2>1. p \in Payments /\ k.row \in Attempt
    BY <1>1, <1>2, <1>12 DEF RecordAttempt, At, Work
  <2>2. CASE Return(c) /\ UNCHANGED attempts
    BY <1>12, <2>2, ReturnTyped DEF RecordAttempt, TypeOK, CallsTyped, rowVars, counts
  <2>3. CASE /\ attempts' = [attempts EXCEPT ![p] = @ \union {k.row}]
             /\ call' = [call EXCEPT ![c] =
                  AfterAttempt([@ EXCEPT !.last = IntoPaymentStatus(k.row.status)], @.code)]
    <3> DEFINE done == [k EXCEPT !.last = IntoPaymentStatus(k.row.status)]
               new  == AfterAttempt(done, k.code)
    <3>1. IntoPaymentStatus(k.row.status) \in PaymentStatuses
      BY <2>1, IntoPaymentStatusTyped DEF Attempt
    <3>2. done \in Work /\ WellFormed(done) /\ done.pc # "idle"
      BY <1>1, <1>12, <3>1 DEF RecordAttempt, At, Work, WellFormed
    <3>3. new \in Work /\ WellFormed(new)
      BY <3>2, AfterAttemptTyped
    <3>4. CallsTyped'
      BY <1>1, <2>3, <3>3, SlotUpdateTyped
    <3>5. attempts' \in [Payments -> SUBSET Attempt]
      BY <2>1, <2>3 DEF TypeOK
    <3>6. QED
      BY <1>12, <3>4, <3>5 DEF RecordAttempt, TypeOK, CallsTyped, rowVars, counts
  <2>4. QED
    BY <1>12, <2>2, <2>3 DEF RecordAttempt
<1>13. CASE Finish(c) \/ Close(c)
  <2>1. p \in Payments /\ k.last \in PaymentStatuses
    BY <1>1, <1>2, <1>13 DEF Finish, Close, At, Work
  <2>2. WebhookEvent(k.last) \in EventTypes
    BY <2>1, EventTyped
  <2>3. QED
    BY <1>13, <2>1, <2>2, ApplyAndReturnTyped DEF Finish, Close
<1>14. CASE PickAttempt(c)
  <2>1. p \in Payments
    BY <1>2, <1>14 DEF PickAttempt, At
  <2>2. CASE Return(c)
    BY <1>14, <2>2, ReturnTyped DEF PickAttempt, TypeOK, CallsTyped, rowVars, railVars, counts
  <2>3. ASSUME NEW a \in Latest(Candidates(c)),
               call' = [call EXCEPT ![c].pc = "fetch", ![c].row = a]
        PROVE  TypeOK'
    <3> DEFINE new == [k EXCEPT !.pc = "fetch", !.row = a]
    <3>1. a \in Attempt
      BY <2>1 DEF Latest, Candidates, Reconcilable, TypeOK
    <3>2. new \in Work /\ WellFormed(new)
      BY <1>1, <2>1, <3>1 DEF Work, WellFormed, Pay
    <3>3. call' = [call EXCEPT ![c] = new]
      BY <2>3
    <3>4. CallsTyped'
      BY <1>1, <3>2, <3>3, SlotUpdateTyped
    <3>5. QED
      BY <1>14, <3>4 DEF PickAttempt, TypeOK, CallsTyped, rowVars, railVars, counts
  <2>4. QED
    BY <1>14, <2>2, <2>3 DEF PickAttempt
<1>15. CASE Fetch(c)
  <2>1. p \in Payments
    BY <1>2, <1>15 DEF Fetch, At
  <2>2. ASSUME NEW s \in AttemptStatuses, Fetched(c, s)
        PROVE  CallsTyped'
    <3> DEFINE replayed == [k EXCEPT !.pc = "load", !.op = "replayed"]
               closing  == [k EXCEPT !.pc = "close", !.last = IntoPaymentStatus(s)]
    <3>1. replayed \in Work /\ WellFormed(replayed)
      BY <1>1, <2>1 DEF Work, WellFormed, Pay
    <3>2. closing \in Work /\ WellFormed(closing)
      BY <1>1, <2>1, IntoPaymentStatusTyped DEF Work, WellFormed, Pay
    <3>3. \/ call' = [call EXCEPT ![c] = replayed]
          \/ call' = [call EXCEPT ![c] = closing]
          \/ Return(c)
      BY <2>2 DEF Fetched
    <3>4. QED
      BY <1>1, <3>1, <3>2, <3>3, SlotUpdateTyped, ReturnTyped
  <2>3. CASE Fetched(c, "SETTLED") /\ UNCHANGED ledger
    BY <1>15, <2>2, <2>3 DEF Fetch, TypeOK, CallsTyped, AttemptStatuses, rowVars, counts
  <2>4. CASE Return(c) /\ UNCHANGED ledger
    BY <1>15, <2>4, ReturnTyped DEF Fetch, TypeOK, CallsTyped, rowVars, counts
  <2>5. ASSUME NEW e \in ledger[p], NEW s \in AttemptStatuses,
               e.connector = k.row.connector, e.ref = k.row.ref,
               ledger' = [ledger EXCEPT ![p] = Put(@, k.row.connector, k.row.ref, s)],
               Fetched(c, s)
        PROVE  TypeOK'
    <3>1. k.row.connector \in Connectors /\ k.row.ref \in Nat
      BY <2>1, <2>5 DEF TypeOK, Entry
    <3>2. ledger' \in [Payments -> SUBSET Entry]
      BY <2>1, <2>5, <3>1, PutTyped DEF TypeOK
    <3>3. QED
      BY <1>15, <2>2, <2>5, <3>2 DEF Fetch, TypeOK, CallsTyped, rowVars, counts
  <2>6. \A e \in ledger[p] : e.status \in AttemptStatuses
    BY <2>1 DEF TypeOK, Entry
  <2>7. "SETTLED" \in AttemptStatuses
    BY DEF AttemptStatuses
  <2>8. QED
    BY <1>15, <2>3, <2>4, <2>5, <2>6, <2>7 DEF Fetch
<1>16. QED
  BY <1>4, <1>5, <1>6, <1>7, <1>8, <1>9, <1>10, <1>11, <1>12, <1>13, <1>14, <1>15 DEF Step

LEMMA NextTyped ==
  ASSUME TypeOK, [Next]_vars
  PROVE  TypeOK'
<1> USE DEF CallsTyped
<1>1. CallsTyped
  BY DEF TypeOK
<1>2. ASSUME NEW c \in Requests, NEW p \in Payments, NEW op \in Operations, Begin(c, p, op)
      PROVE  TypeOK'
  <2> DEFINE k == [Idle EXCEPT !.op = op]
  <2>1. k \in Work
    BY IdleTyped, ClientAssumption DEF Work
  <2>2. Holding(k, p) \in Work /\ WellFormed(Holding(k, p))
    BY <2>1, HoldingTyped
  <2>3. CallsTyped'
    BY <1>1, <1>2, <2>2, SlotUpdateTyped DEF Begin, Slots
  <2>4. requests' \in 0..MaxRequests
    BY <1>2, ClientAssumption DEF Begin, TypeOK
  <2>5. QED
    BY <1>2, <2>3, <2>4 DEF Begin, TypeOK, rowVars, railVars
<1>3. ASSUME NEW c \in Requests, NEW p \in Payments, NEW op \in Operations,
             BeginManual(c, p, op)
      PROVE  TypeOK'
  <2>1. PICK a \in attempts[p], e \in ledger[p] :
          /\ e.ref = a.ref
          /\ call' = [call EXCEPT ![c] =
                        [Idle EXCEPT !.op = op, !.pay = p, !.row = a,
                           !.pc = IF e.status \in {"SETTLED", "FAILED", "CANCELLED"}
                                    THEN "load" ELSE "put"]]
    BY <1>3 DEF BeginManual
  <2> DEFINE k == [Idle EXCEPT !.op = op, !.pay = p, !.row = a,
                     !.pc = IF e.status \in {"SETTLED", "FAILED", "CANCELLED"}
                              THEN "load" ELSE "put"]
  <2>2. a \in Attempt /\ a.ref \in Nat
    BY <2>1 DEF TypeOK, Entry
  <2>3. k \in Work /\ WellFormed(k)
    BY <2>2, IdleTyped, ClientAssumption DEF Work, WellFormed
  <2>4. CallsTyped'
    BY <1>1, <2>1, <2>3, SlotUpdateTyped DEF Slots
  <2>5. requests' \in 0..MaxRequests
    BY <1>3, ClientAssumption DEF BeginManual, TypeOK
  <2>6. QED
    BY <1>3, <2>4, <2>5 DEF BeginManual, TypeOK, rowVars, railVars
<1>4. ASSUME NEW w \in Workers, NEW p \in Payments, BeginSweep(w, p)
      PROVE  TypeOK'
  <2> DEFINE k == [Idle EXCEPT !.op = "sweep", !.pay = p, !.snap = payment[p], !.pc = "expire"]
  <2>1. payment[p] \in Row
    BY DEF TypeOK
  <2>2. k \in Work /\ WellFormed(k)
    BY <2>1, IdleTyped DEF Work, WellFormed
  <2>3. CallsTyped'
    BY <1>1, <1>4, <2>2, SlotUpdateTyped DEF BeginSweep, Slots
  <2>4. QED
    BY <1>4, <2>3 DEF BeginSweep, TypeOK, rowVars, railVars, counts
<1>5. ASSUME NEW w \in Workers, NEW p \in Payments, BeginPoll(w, p)
      PROVE  TypeOK'
  <2>1. [Idle EXCEPT !.op = "poll"] \in Work
    BY IdleTyped DEF Work
  <2>2. CallsTyped'
    BY <1>1, <1>5, <2>1, HoldingTyped, SlotUpdateTyped DEF BeginPoll, Slots
  <2>3. QED
    BY <1>5, <2>2 DEF BeginPoll, TypeOK, rowVars, railVars, counts
<1>6. ASSUME NEW p \in Payments, ClockPasses(p)
      PROVE  TypeOK'
  BY <1>6 DEF ClockPasses, TypeOK, rowVars, railVars, counts
<1>7. ASSUME NEW c \in Slots, Abandon(c)
      PROVE  TypeOK'
  <2>1. drops' \in 0..MaxDrops
    BY <1>7, ClientAssumption DEF Abandon, TypeOK
  <2>2. QED
    BY <1>7, <2>1, ReturnTyped DEF Abandon, TypeOK, rowVars, railVars
<1>8. CASE UNCHANGED vars
  BY <1>8 DEF vars, TypeOK, WellFormed
<1>9. QED
  BY <1>2, <1>3, <1>4, <1>5, <1>6, <1>7, <1>8, StepTyped DEF Next

LEMMA InitTyped == Init => TypeOK
<1> SUFFICES ASSUME Init PROVE TypeOK
  OBVIOUS
<1>1. {"CREATED", "PENDING"} \subseteq PaymentStatuses
  BY DEF PaymentStatuses
<1>2. audit \in [Payments -> Seq([from: PaymentStatuses, to: PaymentStatuses])]
  BY <1>1 DEF Init
<1>3. outbox \in [Payments -> Seq([type: EventTypes, status: PaymentStatuses])]
  BY <1>1, EventTyped DEF Init
<1>4. payment \in [Payments -> Row]
  BY <1>1 DEF Init, Row
<1>5. call \in [Slots -> Work] /\ \A c \in Slots : WellFormed(call[c])
  BY IdleTyped DEF Init
<1>6. QED
  BY <1>2, <1>3, <1>4, <1>5, ClientAssumption DEF Init, TypeOK

\* Every reachable row, log and slot is well formed.
THEOREM TypeCorrect == Spec => []TypeOK
<1>1. TypeOK /\ [Next]_vars => TypeOK'
  BY NextTyped
<1>2. QED
  BY <1>1, InitTyped, PTL DEF Spec

=============================================================================
