-------------------------- MODULE PaymentRailProofs --------------------------
(***************************************************************************)
(* Money is asked for only after the payer accepted: withdrawn payments    *)
(* never reach a rail, the lifecycle implements PaymentContract, and what  *)
(* our tables say of money is in the connectors' books.                    *)
(***************************************************************************)
EXTENDS PaymentLifecycleProofs

-----------------------------------------------------------------------------
(* What a step may do to a payment and to its connector calls              *)

\* A transition the handlers really make, n connector calls having been made.
LegalMove(s, next, n) ==
  /\ TransitionOk(s, next) /\ next \in Reached
  /\ next \in Untouched => s \in Untouched
  /\ next = "SETTLED" => n > 0

\* One payment moves, or one payment's connectors are asked once more.
RailEffect ==
  \/ UNCHANGED <<payment, asked>>
  \/ \E c \in Slots, next \in PaymentStatuses :
       /\ Pay(c) \in Payments
       /\ LegalMove(payment[Pay(c)].status, next, asked[Pay(c)])
       /\ payment' = [payment EXCEPT ![Pay(c)] = Applied(c, next)]
       /\ UNCHANGED asked
  \/ \E p \in Payments :
       /\ payment[p].status \notin Untouched
       /\ asked' = [asked EXCEPT ![p] = @ + 1]
       /\ UNCHANGED payment

\* No step takes back an acceptance or a connector call.
Forward ==
  \A p \in Payments :
    /\ payment[p].status \notin Untouched => payment'[p].status \notin Untouched
    /\ asked[p] > 0 => asked'[p] > 0

RailInv == TypeOK /\ RailsFollowAcceptance

\* Each status the handlers write is one the invariant allows.
LEMMA LegalMoves ==
  ASSUME NEW s \in Reached, NEW next, NEW n \in Nat, TransitionOk(s, next),
         \/ next \in {"EXPIRED", "CANCELLED", "FAILED", "REFUNDED", "PROCESSING"}
         \/ next = "SETTLED" /\ n > 0
         \/ /\ s \notin Untouched
            /\ next \in (Reported \ {"AMBIGUOUS"}) \union {"CREATED"}
            /\ next = "SETTLED" => n > 0
  PROVE  LegalMove(s, next, n)
BY DEF LegalMove, TransitionOk, CanTransitionTo, AllowedTargets, Reached, Untouched, Reported

LEMMA EffectForward ==
  ASSUME RailInv, RailEffect
  PROVE  Forward
<1>1. CASE UNCHANGED <<payment, asked>>
  BY <1>1 DEF Forward
<1>2. ASSUME NEW c \in Slots, NEW next \in PaymentStatuses, Pay(c) \in Payments,
             LegalMove(payment[Pay(c)].status, next, asked[Pay(c)]),
             payment' = [payment EXCEPT ![Pay(c)] = Applied(c, next)], UNCHANGED asked
      PROVE  Forward
  BY <1>2 DEF Forward, LegalMove, Applied, RailInv, TypeOK
<1>3. ASSUME NEW p \in Payments, asked' = [asked EXCEPT ![p] = @ + 1], UNCHANGED payment
      PROVE  Forward
  BY <1>3 DEF Forward, RailInv, TypeOK
<1>4. QED
  BY <1>1, <1>2, <1>3 DEF RailEffect

LEMMA IdleFits ==
  ASSUME NEW status, NEW n
  PROVE  SlotFits(Idle, status, n)
BY DEF SlotFits, Idle, Reported

\* A step that goes forward and leaves its own slot fitting leaves all fitting.
LEMMA SlotsFit ==
  ASSUME RailInv, Forward, NEW c \in Slots, NEW k, call' = [call EXCEPT ![c] = k],
         SlotFits(k, payment'[k.pay].status, asked'[k.pay])
  PROVE  \A d \in Slots : SlotFits(call'[d], payment'[call'[d].pay].status, asked'[call'[d].pay])
<1> TAKE d \in Slots
<1>1. call \in [Slots -> Work] /\ WellFormed(call[d])
  BY DEF RailInv, TypeOK
<1>2. CASE d = c
  BY <1>1, <1>2
<1>3. CASE d # c
  <2>1. call'[d] = call[d]
    BY <1>1, <1>3
  <2>2. SlotFits(call[d], payment[call[d].pay].status, asked[call[d].pay])
    BY DEF RailInv, RailsFollowAcceptance, Pay
  <2>3. call[d].pc # "idle" => call[d].pay \in Payments
    BY <1>1 DEF WellFormed
  <2>4. QED
    BY <2>1, <2>2, <2>3 DEF SlotFits, Forward
<1>4. QED
  BY <1>2, <1>3

\* The three shapes of a step, with what is left to show of its own slot.
LEMMA StillFits ==
  ASSUME RailInv, NEW c \in Slots, NEW k, call' = [call EXCEPT ![c] = k],
         UNCHANGED <<payment, railVars>>,
         SlotFits(k, payment[k.pay].status, asked[k.pay])
  PROVE  RailEffect /\ RailsFollowAcceptance'
<1>1. RailEffect /\ UNCHANGED <<payment, attempts, ledger, asked>>
  BY DEF RailEffect, railVars
<1>2. \A d \in Slots : SlotFits(call'[d], payment'[call'[d].pay].status, asked'[call'[d].pay])
  BY <1>1, EffectForward, SlotsFit
<1>3. QED
  BY <1>1, <1>2 DEF RailInv, RailsFollowAcceptance, Pay

LEMMA ReturnFits ==
  ASSUME RailInv, NEW c \in Slots, Return(c), UNCHANGED <<payment, railVars>>
  PROVE  RailEffect /\ RailsFollowAcceptance'
BY IdleFits, StillFits DEF Return

LEMMA MoveFits ==
  ASSUME RailInv, NEW c \in Slots, NEW k, call' = [call EXCEPT ![c] = k],
         NEW next \in PaymentStatuses, Pay(c) \in Payments,
         LegalMove(payment[Pay(c)].status, next, asked[Pay(c)]),
         payment' = [payment EXCEPT ![Pay(c)] = Applied(c, next)],
         UNCHANGED railVars,
         SlotFits(k, payment'[k.pay].status, asked[k.pay])
  PROVE  RailEffect /\ RailsFollowAcceptance'
<1>1. RailEffect /\ UNCHANGED <<attempts, ledger, asked>>
  BY DEF RailEffect, railVars
<1>2. \A d \in Slots : SlotFits(call'[d], payment'[call'[d].pay].status, asked'[call'[d].pay])
  BY <1>1, EffectForward, SlotsFit
<1>3. ASSUME NEW p \in Payments
      PROVE  RowFits(payment'[p].status, asked'[p], attempts'[p], ledger'[p])
  <2>1. RowFits(payment[p].status, asked[p], attempts[p], ledger[p])
    BY DEF RailInv, RailsFollowAcceptance
  <2>2. CASE p = Pay(c)
    <3>1. payment'[p].status = next
      BY <2>2 DEF Applied, RailInv, TypeOK
    <3>2. QED
      BY <1>1, <2>1, <2>2, <3>1 DEF RowFits, LegalMove
  <2>3. CASE p # Pay(c)
    BY <1>1, <2>1, <2>3 DEF RailInv, TypeOK
  <2>4. QED
    BY <2>2, <2>3
<1>4. QED
  BY <1>1, <1>2, <1>3 DEF RailsFollowAcceptance, Pay

LEMMA ApplyFits ==
  ASSUME RailInv, NEW c \in Slots, Pay(c) \in Payments,
         NEW next \in PaymentStatuses, NEW event, ApplyAndReturn(c, next, event),
         \/ next \in {"CANCELLED", "FAILED", "REFUNDED"}
         \/ next = "SETTLED" /\ asked[Pay(c)] > 0
         \/ /\ payment[Pay(c)].status \notin Untouched
            /\ next \in (Reported \ {"AMBIGUOUS"}) \union {"CREATED"}
            /\ next = "SETTLED" => asked[Pay(c)] > 0
  PROVE  RailEffect /\ RailsFollowAcceptance'
<1>1. CASE Accepted(c, next) /\ Commit(c, next, event)
  <2>1. payment[Pay(c)].status \in Reached /\ asked[Pay(c)] \in Nat
    BY DEF RailInv, RailsFollowAcceptance, RowFits, TypeOK
  <2>2. LegalMove(payment[Pay(c)].status, next, asked[Pay(c)])
    BY <1>1, <2>1, LegalMoves DEF Accepted
  <2>3. QED
    BY <1>1, <2>2, IdleFits, MoveFits DEF ApplyAndReturn, Commit, Return
<1>2. CASE ~Accepted(c, next) /\ UNCHANGED rowVars
  BY <1>2, ReturnFits DEF ApplyAndReturn, rowVars
<1>3. QED
  BY <1>1, <1>2 DEF ApplyAndReturn

\* A step that changes only what rails hold about a payment they were asked for.
LEMMA RailFits ==
  ASSUME RailInv, NEW c \in Slots, NEW k, call' = [call EXCEPT ![c] = k],
         NEW p \in Payments, UNCHANGED payment,
         payment[p].status \notin Untouched,
         \/ UNCHANGED asked /\ asked[p] > 0
         \/ asked' = [asked EXCEPT ![p] = @ + 1],
         NEW rows, NEW entries, \A e \in rows \union entries : e.status \in Reported,
         attempts' = [attempts EXCEPT ![p] = rows],
         ledger' = [ledger EXCEPT ![p] = entries],
         SlotFits(k, payment[k.pay].status, asked'[k.pay])
  PROVE  RailEffect /\ RailsFollowAcceptance'
<1>1. RailEffect
  BY DEF RailEffect
<1>2. \A d \in Slots : SlotFits(call'[d], payment'[call'[d].pay].status, asked'[call'[d].pay])
  BY <1>1, EffectForward, SlotsFit
<1>3. ASSUME NEW q \in Payments
      PROVE  RowFits(payment'[q].status, asked'[q], attempts'[q], ledger'[q])
  <2>1. RowFits(payment[q].status, asked[q], attempts[q], ledger[q]) /\ asked[q] \in Nat
    BY DEF RailInv, RailsFollowAcceptance, TypeOK
  <2>2. CASE q = p
    <3>1. attempts'[q] = rows /\ ledger'[q] = entries /\ asked'[q] > 0
      BY <2>1, <2>2 DEF RailInv, TypeOK
    <3>2. QED
      BY <2>1, <2>2, <3>1 DEF RowFits
  <2>3. CASE q # p
    <3>1. attempts'[q] = attempts[q] /\ ledger'[q] = ledger[q] /\ asked'[q] = asked[q]
      BY <2>3 DEF RailInv, TypeOK
    <3>2. QED
      BY <2>1, <3>1
  <2>4. QED
    BY <2>2, <2>3
<1>4. QED
  BY <1>2, <1>1, <1>3 DEF RailsFollowAcceptance, Pay

\* What reading a row leaves in a slot.
LEMMA HoldingFits ==
  ASSUME RailInv, NEW k \in Work, NEW p \in Payments,
         k.last \in (Reported \ {"AMBIGUOUS"}) \union {"CREATED"},
         HasAsked([k EXCEPT !.pc = "got"]) => asked[p] > 0
  PROVE  SlotFits(Holding(k, p), payment[Holding(k, p).pay].status, asked[Holding(k, p).pay])
<1> DEFINE expire == [[k EXCEPT !.pay = p, !.snap = payment[p]] EXCEPT !.pc = "expire"]
           got    == [[k EXCEPT !.pay = p, !.snap = payment[p]] EXCEPT !.pc = "got"]
<1>1. Holding(k, p) \in {expire, got, Idle}
  BY Zenon DEF Holding
<1>2. SlotFits(expire, payment[expire.pay].status, asked[expire.pay])
  BY DEF SlotFits, HasAsked, HasAccepted, Work
<1>3. SlotFits(got, payment[got.pay].status, asked[got.pay])
  BY DEF SlotFits, HasAsked, HasAccepted, Work
<1>4. QED
  BY <1>1, <1>2, <1>3, IdleFits

\* The entries `put` adds are among those that were there, and the new one.
LEMMA PutReported ==
  ASSUME NEW entries, \A e \in entries : e.status \in Reported,
         NEW k, NEW r, NEW s \in Reported
  PROVE  \A e \in Put(entries, k, r, s) : e.status \in Reported
BY DEF Put

LEMMA ToldReported ==
  ASSUME NEW k, NEW new
  PROVE  \A a \in Told(k, new) : /\ a.status \in Reported
                                 /\ a.put \in Reported \union {"none"}
<1> DEFINE ok(s)     == [status |-> s, ref |-> new, code |-> "none", put |-> s, key |-> new]
           err(code) == [status |-> "FAILED", ref |-> NoRef, code |-> code,
                         put |-> "none", key |-> new]
           timeout   == [status |-> "AMBIGUOUS", ref |-> TimeoutRef, code |-> "TIMEOUT",
                         put |-> "AMBIGUOUS", key |-> TimeoutRef]
           fits(a)   == a.status \in Reported /\ a.put \in Reported \union {"none"}
<1>1. /\ \A s \in {"REQUIRES_ACTION", "SETTLED", "PROCESSING"} : fits(ok(s))
      /\ \A code : fits(err(code))
      /\ fits(timeout)
  BY DEF Reported
<1> HIDE DEF ok, err, timeout
<1>2. SUFFICES ASSUME NEW a \in Told(k, new)
               PROVE  \/ \E s \in {"REQUIRES_ACTION", "SETTLED", "PROCESSING"} : a = ok(s)
                      \/ \E code : a = err(code)
                      \/ a = timeout
  BY <1>1
<1>3. QED
  BY Zenon DEF Told, ok, err, timeout

LEMMA AnswersReported ==
  ASSUME NEW k, NEW new \in Nat
  PROVE  \A a \in Answers(k, new) : /\ a.status \in Reported
                                    /\ a.put \in Reported \union {"none"}
<1> DEFINE lost(a) == [StoreFails(a) EXCEPT !.put = "none"]
<1>1. \A a \in Told(k, new) : a \in Answer /\ a.status \in Reported
                              /\ a.put \in Reported \union {"none"}
  BY ToldTyped, ToldReported
<1>2. \A a \in Answer : /\ StoreFails(a).status = "FAILED" /\ StoreFails(a).put = a.put
                        /\ lost(a).status = "FAILED" /\ lost(a).put = "none"
  BY DEF StoreFails, Answer
<1>3. "FAILED" \in Reported
  BY DEF Reported
<1> HIDE DEF lost
<1>4. \A b \in Answers(k, new) : \E a \in Told(k, new) :
        b = a \/ b = StoreFails(a) \/ b = lost(a)
  BY Zenon DEF Answers, lost
<1>5. QED
  BY <1>1, <1>2, <1>3, <1>4

LEMMA IntoReported ==
  ASSUME NEW s \in Reported
  PROVE  IntoPaymentStatus(s) \in (Reported \ {"AMBIGUOUS"}) \union {"CREATED"}
BY DEF Reported, IntoPaymentStatus

\* The loop over candidates changes nothing of a slot but where it stands.
LEMMA AfterAttemptFields ==
  ASSUME NEW k \in Work, NEW code
  PROVE  LET new == AfterAttempt(k, code)
         IN  /\ new.pay = k.pay /\ new.snap = k.snap /\ new.op = k.op /\ new.last = k.last
             /\ new.pc \in {"attempt", "finish"}
BY DEF AfterAttempt, Work

LEMMA StepFits ==
  ASSUME RailInv, NEW c \in Slots, Step(c)
  PROVE  RailEffect /\ RailsFollowAcceptance'
<1> DEFINE k == call[c]
           p == Pay(c)
<1>1. /\ TypeOK /\ k \in Work /\ WellFormed(k) /\ call \in [Slots -> Work]
      /\ SlotFits(k, payment[p].status, asked[p])
  BY DEF RailInv, TypeOK, RailsFollowAcceptance
<1>2. ~At(c, "idle") => /\ p \in Payments /\ asked[p] \in Nat
                        /\ payment[p].status \in Reached
                        /\ RowFits(payment[p].status, asked[p], attempts[p], ledger[p])
  BY <1>1 DEF At, Pay, WellFormed, TypeOK, RailInv, RailsFollowAcceptance, RowFits
<1>3. {"PROCESSING", "SETTLED", "FAILED", "CANCELLED", "EXPIRED", "REFUNDED"}
        \subseteq PaymentStatuses
  BY DEF PaymentStatuses
<1>4. ~At(c, "idle") /\ asked[p] > 0 => payment[p].status \notin Untouched
  BY <1>2 DEF RowFits
<1>5. CASE ResolvePut(c)
  <2> DEFINE s    == IF k.op = "settle_manual" THEN "SETTLED" ELSE "FAILED"
             held == [k EXCEPT !.pc = "load"]
  <2>1. p \in Payments /\ asked[p] > 0
    BY <1>1, <1>2, <1>5 DEF ResolvePut, At, SlotFits, HasAsked
  <2>2. \A e \in Put(ledger[p], Manual, k.row.ref, s) : e.status \in Reported
    BY <1>2, <1>5, PutReported DEF ResolvePut, At, RowFits, Reported
  <2>3. SlotFits(held, payment[held.pay].status, asked[held.pay])
    BY <1>1, <1>5 DEF ResolvePut, At, SlotFits, HasAsked, HasAccepted, Work, Pay
  <2>4. /\ call' = [call EXCEPT ![c] = held]
        /\ ledger' = [ledger EXCEPT ![p] = Put(ledger[p], Manual, k.row.ref, s)]
        /\ attempts' = [attempts EXCEPT ![p] = attempts[p]]
        /\ UNCHANGED <<payment, asked>>
    BY <1>1, <1>5 DEF ResolvePut, TypeOK, rowVars
  <2>5. \A e \in attempts[p] : e.status \in Reported
    BY <1>2, <1>5 DEF ResolvePut, At, RowFits
  <2>6. payment[p].status \notin Untouched
    BY <1>4, <1>5, <2>1 DEF ResolvePut, At
  <2> DEFINE entries == Put(ledger[p], Manual, k.row.ref, s)
  <2>7. \A e \in attempts[p] \union entries : e.status \in Reported
    BY <2>2, <2>5
  <2>8. SlotFits(held, payment[held.pay].status, asked'[held.pay])
    BY <2>3, <2>4
  <2> HIDE DEF held, entries, s
  <2>9. ledger' = [ledger EXCEPT ![p] = entries]
    BY <2>4 DEF entries
  <2>10. /\ call' = [call EXCEPT ![c] = held] /\ UNCHANGED payment
         /\ UNCHANGED asked /\ attempts' = [attempts EXCEPT ![p] = attempts[p]]
    BY <2>4
  <2> HIDE DEF p, k
  <2>11. QED
    BY <2>1, <2>6, <2>7, <2>8, <2>9, <2>10, RailFits
<1>6. CASE Load(c)
  <2>1. p \in Payments /\ k.pc = "load"
    BY <1>2, <1>6 DEF Load, At
  <2>2. k.last \in (Reported \ {"AMBIGUOUS"}) \union {"CREATED"}
    BY <1>1 DEF SlotFits
  <2>3. HasAsked([k EXCEPT !.pc = "got"]) => asked[p] > 0
    BY <1>1, <2>1 DEF SlotFits, HasAsked, Work
  <2>4. SlotFits(Holding(k, p), payment[Holding(k, p).pay].status, asked[Holding(k, p).pay])
    BY <1>1, <2>1, <2>2, <2>3, HoldingFits
  <2>5. QED
    BY <1>6, <2>4, StillFits DEF Load, rowVars
<1>7. CASE ApplyExpiry(c)
  <2> DEFINE held == [k EXCEPT !.pc = "got", !.snap = Applied(c, "EXPIRED")]
  <2>1. p \in Payments /\ ~At(c, "idle") /\ k.pc = "expire"
    BY <1>2, <1>7 DEF ApplyExpiry, At
  <2>2. CASE Return(c) /\ UNCHANGED rowVars
    BY <1>7, <2>2, ReturnFits DEF ApplyExpiry, rowVars
  <2>3. CASE Accepted(c, "EXPIRED") /\ Commit(c, "EXPIRED", "payment.expired")
    <3>1. LegalMove(payment[p].status, "EXPIRED", asked[p])
      BY <1>2, <2>1, <2>3, LegalMoves DEF Accepted
    <3>2. held.pay = p /\ held.snap.status = "EXPIRED" /\ held.pc = "got"
          /\ held.last = k.last /\ held.op = k.op
      BY <1>1 DEF Work, Applied, Pay
    <3>3. SlotFits(held, payment'[held.pay].status, asked[held.pay])
      BY <1>1, <2>1, <3>2 DEF SlotFits, HasAsked, HasAccepted, Untouched
    <3>4. \/ call' = [call EXCEPT ![c] = held]
          \/ call' = [call EXCEPT ![c] = Idle]
      BY <1>7 DEF ApplyExpiry, Return
    <3> HIDE DEF held
    <3>5. QED
      BY <1>3, <1>7, <2>1, <2>3, <3>1, <3>3, <3>4, IdleFits, MoveFits DEF ApplyExpiry, Commit
  <2>4. QED
    BY <1>7, <2>2, <2>3 DEF ApplyExpiry
<1>8. CASE Reject(c) \/ Cancel(c) \/ Refund(c)
  <2>1. /\ p \in Payments
        /\ \/ ApplyAndReturn(c, "FAILED", "payment.failed")
           \/ ApplyAndReturn(c, "CANCELLED", "payment.cancelled")
           \/ ApplyAndReturn(c, "REFUNDED", "payment.refunded")
    BY <1>2, <1>8 DEF Reject, Cancel, Refund, At
  <2>2. QED
    BY <1>3, <2>1, ApplyFits
<1>9. CASE ResolveApply(c)
  <2>1. /\ p \in Payments /\ asked[p] > 0
        /\ \/ ApplyAndReturn(c, "FAILED", "payment.failed")
           \/ ApplyAndReturn(c, "SETTLED", "payment.settled")
    BY <1>1, <1>2, <1>9 DEF ResolveApply, At, SlotFits, HasAsked, ManualOperations
  <2>2. QED
    BY <1>3, <2>1, ApplyFits
<1>10. CASE StartProcessing(c)
  <2> DEFINE held == [k EXCEPT !.pc = "route", !.snap = Applied(c, "PROCESSING")]
  <2>1. p \in Payments /\ ~At(c, "idle") /\ k.pc = "got"
    BY <1>2, <1>10 DEF StartProcessing, At
  <2>2. CASE Return(c) /\ UNCHANGED rowVars
    BY <1>10, <2>2, ReturnFits DEF StartProcessing, rowVars
  <2>3. CASE /\ Accepted(c, "PROCESSING") /\ Commit(c, "PROCESSING", "payment.processing")
             /\ call' = [call EXCEPT ![c] = held]
    <3>1. LegalMove(payment[p].status, "PROCESSING", asked[p])
      BY <1>2, <2>1, <2>3, LegalMoves DEF Accepted
    <3>2. held.pay = p /\ held.pc = "route" /\ held.last = k.last /\ held.op = k.op
      BY <1>1 DEF Work, Pay
    <3>3. payment'[p].status = "PROCESSING"
      BY <1>1, <2>1, <2>3 DEF Commit, Applied, TypeOK
    <3>4. SlotFits(held, payment'[held.pay].status, asked[held.pay])
      BY <1>1, <2>1, <3>2, <3>3 DEF SlotFits, HasAsked, Untouched
    <3> HIDE DEF held
    <3>5. QED
      BY <1>3, <1>10, <2>1, <2>3, <3>1, <3>4, MoveFits DEF StartProcessing, Commit
  <2>4. QED
    BY <1>10, <2>2, <2>3 DEF StartProcessing
<1>11. CASE Route(c)
  <2>1. ~At(c, "idle") /\ HasAccepted(k)
    BY <1>11 DEF Route, At, HasAccepted, Snap, Untouched
  <2>2. ASSUME NEW r, call' = [call EXCEPT ![c].pc = "attempt", ![c].keys = r,
                                         ![c].last = "PROCESSING"]
        PROVE  RailEffect /\ RailsFollowAcceptance'
    <3> DEFINE held == [k EXCEPT !.pc = "attempt", !.keys = r, !.last = "PROCESSING"]
    <3>1. held.pay = p /\ held.pc = "attempt" /\ held.last = "PROCESSING" /\ held.op = k.op
      BY <1>1 DEF Work, Pay
    <3>2. SlotFits(held, payment[held.pay].status, asked[held.pay])
      BY <1>1, <2>1, <3>1 DEF SlotFits, HasAsked, Reported, At
    <3>3. call' = [call EXCEPT ![c] = held]
      BY <2>2
    <3> HIDE DEF held
    <3>4. QED
      BY <1>11, <3>2, <3>3, StillFits DEF Route, rowVars
  <2>3. CASE Return(c)
    BY <1>11, <2>3, ReturnFits DEF Route, rowVars
  <2>4. QED
    BY <1>11, <2>2, <2>3 DEF Route
<1>12. CASE SkipUnregistered(c)
  <2> DEFINE failed == [k EXCEPT !.last = "FAILED"]
             new    == AfterAttempt(failed, "CONNECTOR_UNAVAILABLE")
  <2>1. failed \in Work /\ failed.pay = p /\ failed.op = k.op /\ failed.last = "FAILED"
    BY <1>1, <1>3 DEF Work, Pay
  <2>2. /\ new.pay = p /\ new.op = k.op /\ new.last = "FAILED"
        /\ new.pc \in {"attempt", "finish"}
    BY <2>1, AfterAttemptFields
  <2>3. ~At(c, "idle") /\ HasAccepted(k)
    BY <1>12 DEF SkipUnregistered, At, HasAccepted
  <2>4. call' = [call EXCEPT ![c] = new]
    BY <1>12 DEF SkipUnregistered
  <2> HIDE DEF new
  <2>5. SlotFits(new, payment[new.pay].status, asked[new.pay])
    BY <1>1, <2>2, <2>3 DEF SlotFits, HasAsked, Reported, At
  <2>6. QED
    BY <1>12, <2>4, <2>5, StillFits DEF SkipUnregistered, rowVars
<1>13. CASE AskConnector(c)
  <2> DEFINE conn == Head(k.keys)
             n    == asked[p] + 1
  <2>1. p \in Payments /\ n \in Nat /\ n > 0 /\ payment[p].status \notin Untouched
    BY <1>1, <1>2, <1>13 DEF AskConnector, At, SlotFits, HasAccepted
  <2>2. PICK answer \in Answers(conn, n) :
          /\ ledger' = [ledger EXCEPT ![p] = Store(ledger[p], conn, answer)]
          /\ call' = [call EXCEPT
               ![c].pc = "record", ![c].code = answer.code,
               ![c].row = [at |-> n, connector |-> conn, ref |-> answer.ref,
                           status |-> answer.status]]
    BY <1>13 DEF AskConnector
  <2> DEFINE row == [at |-> n, connector |-> conn, ref |-> answer.ref, status |-> answer.status]
             new == [k EXCEPT !.pc = "record", !.code = answer.code, !.row = row]
  <2>3. answer.status \in Reported /\ answer.put \in Reported \union {"none"}
    BY <2>1, <2>2, AnswersReported
  <2>4. \A e \in ledger[p] \union attempts[p] : e.status \in Reported
    BY <1>2, <1>13 DEF AskConnector, At, RowFits
  <2>5. \A e \in Store(ledger[p], conn, answer) : e.status \in Reported
    BY <2>3, <2>4, PutReported DEF Store
  <2>6. new.pay = p /\ new.pc = "record" /\ new.row.status = answer.status /\ new.last = k.last
    BY <1>1 DEF Work, Pay
  <2>7. /\ call' = [call EXCEPT ![c] = new]
        /\ asked' = [asked EXCEPT ![p] = @ + 1]
        /\ attempts' = [attempts EXCEPT ![p] = attempts[p]]
        /\ UNCHANGED payment
    BY <1>1, <1>13, <2>2 DEF AskConnector, TypeOK, rowVars
  <2>8. asked'[p] > 0
    BY <1>1, <2>1, <2>7 DEF TypeOK
  <2> HIDE DEF new, conn
  <2>9. SlotFits(new, payment[new.pay].status, asked'[new.pay])
    BY <1>1, <2>1, <2>3, <2>6, <2>8 DEF SlotFits
  <2>10. QED
    BY <2>1, <2>2, <2>4, <2>5, <2>7, <2>9, RailFits
<1>14. CASE RecordAttempt(c)
  <2>1. /\ p \in Payments /\ ~At(c, "idle") /\ k.row.status \in Reported
        /\ asked[p] > 0 /\ payment[p].status \notin Untouched
    BY <1>1, <1>2, <1>4, <1>14 DEF RecordAttempt, At, SlotFits, HasAsked
  <2>2. CASE Return(c) /\ UNCHANGED attempts
    BY <1>14, <2>2, ReturnFits DEF RecordAttempt, rowVars, railVars
  <2>3. CASE /\ attempts' = [attempts EXCEPT ![p] = attempts[p] \union {k.row}]
             /\ call' = [call EXCEPT ![c] =
                  AfterAttempt([k EXCEPT !.last = IntoPaymentStatus(k.row.status)], k.code)]
    <3> DEFINE done == [k EXCEPT !.last = IntoPaymentStatus(k.row.status)]
               new  == AfterAttempt(done, k.code)
    <3>1. /\ IntoPaymentStatus(k.row.status) \in (Reported \ {"AMBIGUOUS"}) \union {"CREATED"}
          /\ IntoPaymentStatus(k.row.status) \in PaymentStatuses
      BY <2>1, IntoReported DEF Reported, PaymentStatuses
    <3>2. done \in Work /\ done.pay = p /\ done.last = IntoPaymentStatus(k.row.status)
      BY <1>1, <3>1 DEF Work, Pay
    <3>3. new.pay = p /\ new.last = done.last /\ new.pc \in {"attempt", "finish"}
      BY <3>2, AfterAttemptFields
    <3> HIDE DEF new, done
    <3>4. SlotFits(new, payment[new.pay].status, asked[new.pay])
      BY <2>1, <3>1, <3>2, <3>3 DEF SlotFits
    <3>5. \A e \in attempts[p] \union {k.row} \union ledger[p] : e.status \in Reported
      BY <1>2, <2>1 DEF RowFits
    <3>6. /\ call' = [call EXCEPT ![c] = new]
          /\ ledger' = [ledger EXCEPT ![p] = ledger[p]]
          /\ UNCHANGED <<payment, asked>>
      BY <1>1, <1>14, <2>3 DEF RecordAttempt, TypeOK, rowVars, new, done
    <3>7. QED
      BY <2>1, <2>3, <3>4, <3>5, <3>6, RailFits
  <2>4. QED
    BY <1>14, <2>2, <2>3 DEF RecordAttempt
<1>15. CASE Finish(c) \/ Close(c)
  <2>1. /\ p \in Payments /\ ~At(c, "idle") /\ k.last \in PaymentStatuses
        /\ ApplyAndReturn(c, k.last, WebhookEvent(k.last))
    BY <1>1, <1>2, <1>15 DEF Finish, Close, At, Work
  <2>2. /\ k.last \in (Reported \ {"AMBIGUOUS"}) \union {"CREATED"}
        /\ k.last = "SETTLED" => asked[p] > 0
    BY <1>1, <2>1 DEF SlotFits, HasAsked, At
  <2>3. payment[p].status \notin Untouched
    BY <1>1, <1>4, <1>15, <2>1 DEF Finish, Close, SlotFits, HasAsked, HasAccepted, At
  <2>4. QED
    BY <2>1, <2>2, <2>3, ApplyFits
<1>16. CASE PickAttempt(c)
  <2>1. p \in Payments /\ ~At(c, "idle")
    BY <1>2, <1>16 DEF PickAttempt, At
  <2>2. CASE Return(c)
    BY <1>16, <2>2, ReturnFits DEF PickAttempt, rowVars
  <2>3. ASSUME NEW a \in Latest(Candidates(c)),
               call' = [call EXCEPT ![c].pc = "fetch", ![c].row = a]
        PROVE  RailEffect /\ RailsFollowAcceptance'
    <3> DEFINE new == [k EXCEPT !.pc = "fetch", !.row = a]
    <3>1. a \in attempts[p]
      BY DEF Latest, Candidates, Reconcilable
    <3>2. asked[p] > 0
      BY <1>2, <2>1, <3>1 DEF RowFits
    <3>3. new.pay = p /\ new.pc = "fetch" /\ new.last = k.last
      BY <1>1 DEF Work, Pay
    <3>4. call' = [call EXCEPT ![c] = new]
      BY <2>3
    <3> HIDE DEF new
    <3>5. SlotFits(new, payment[new.pay].status, asked[new.pay])
      BY <1>1, <1>4, <2>1, <3>2, <3>3 DEF SlotFits
    <3>6. QED
      BY <1>16, <3>4, <3>5, StillFits DEF PickAttempt, rowVars
  <2>4. QED
    BY <1>16, <2>2, <2>3 DEF PickAttempt
<1>17. CASE Fetch(c)
  <2>1. /\ p \in Payments /\ ~At(c, "idle") /\ asked[p] > 0
        /\ payment[p].status \notin Untouched
    BY <1>1, <1>2, <1>4, <1>17 DEF Fetch, At, SlotFits, HasAsked
  <2>2. ASSUME NEW s \in Reported, Fetched(c, s)
        PROVE  \E new : /\ call' = [call EXCEPT ![c] = new]
                        /\ SlotFits(new, payment[new.pay].status, asked[new.pay])
    <3> DEFINE replayed == [k EXCEPT !.pc = "load", !.op = "replayed"]
               closing  == [k EXCEPT !.pc = "close", !.last = IntoPaymentStatus(s)]
    <3>1. /\ replayed.pay = p /\ replayed.pc = "load" /\ replayed.last = k.last
          /\ closing.pay = p /\ closing.pc = "close"
          /\ closing.last = IntoPaymentStatus(s)
      BY <1>1 DEF Work, Pay
    <3>2. \/ call' = [call EXCEPT ![c] = replayed]
          \/ call' = [call EXCEPT ![c] = closing]
          \/ call' = [call EXCEPT ![c] = Idle]
      BY <2>2 DEF Fetched, Return
    <3> HIDE DEF replayed, closing
    <3>3. SlotFits(replayed, payment[replayed.pay].status, asked[replayed.pay])
      BY <1>1, <2>1, <3>1 DEF SlotFits
    <3>4. SlotFits(closing, payment[closing.pay].status, asked[closing.pay])
      BY <2>1, <3>1, IntoReported DEF SlotFits
    <3>5. QED
      BY <3>2, <3>3, <3>4, IdleFits
  <2>3. "SETTLED" \in Reported
    BY DEF Reported
  <2>4. CASE Fetched(c, "SETTLED") /\ UNCHANGED ledger
    BY <1>17, <2>2, <2>3, <2>4, StillFits DEF Fetch, rowVars, railVars
  <2>5. CASE Return(c) /\ UNCHANGED ledger
    BY <1>17, <2>5, ReturnFits DEF Fetch, rowVars, railVars
  <2>6. ASSUME NEW r, NEW ref, NEW s \in Reported,
               ledger' = [ledger EXCEPT ![p] = Put(ledger[p], r, ref, s)],
               Fetched(c, s)
        PROVE  RailEffect /\ RailsFollowAcceptance'
    <3>1. \A e \in attempts[p] \union ledger[p] : e.status \in Reported
      BY <1>2, <2>1 DEF RowFits
    <3>2. \A e \in Put(ledger[p], r, ref, s) : e.status \in Reported
      BY <3>1, PutReported
    <3>3. /\ attempts' = [attempts EXCEPT ![p] = attempts[p]]
          /\ UNCHANGED <<payment, asked>>
      BY <1>1, <1>17 DEF Fetch, TypeOK, rowVars
    <3>4. PICK new : /\ call' = [call EXCEPT ![c] = new]
                     /\ SlotFits(new, payment[new.pay].status, asked[new.pay])
      BY <2>2, <2>6
    <3>5. QED
      BY <2>1, <2>6, <3>1, <3>2, <3>3, <3>4, RailFits
  <2>7. \A e \in ledger[p] : e.status \in Reported
    BY <1>2, <2>1 DEF RowFits
  <2>8. QED
    BY <1>17, <2>3, <2>4, <2>5, <2>6, <2>7 DEF Fetch
<1>18. QED
  BY <1>5, <1>6, <1>7, <1>8, <1>9, <1>10, <1>11, <1>12, <1>13, <1>14, <1>15, <1>16, <1>17
  DEF Step

LEMMA NextFits ==
  ASSUME RailInv, [Next]_vars
  PROVE  RailEffect /\ RailsFollowAcceptance'
<1>1. ASSUME NEW c \in Requests, NEW p \in Payments, NEW op \in Operations, Begin(c, p, op)
      PROVE  RailEffect /\ RailsFollowAcceptance'
  <2> DEFINE k == [Idle EXCEPT !.op = op]
  <2>1. k \in Work
    BY IdleTyped, ClientAssumption DEF Work
  <2>2. k.last \in (Reported \ {"AMBIGUOUS"}) \union {"CREATED"}
    BY DEF Idle
  <2>3. ~HasAsked([k EXCEPT !.pc = "got"])
    BY <1>1 DEF Begin, HasAsked, Idle
  <2> HIDE DEF k
  <2>4. SlotFits(Holding(k, p), payment[Holding(k, p).pay].status, asked[Holding(k, p).pay])
    BY <2>1, <2>2, <2>3, HoldingFits
  <2>5. QED
    BY <1>1, <2>4, StillFits DEF Begin, Slots, rowVars, k
<1>2. ASSUME NEW c \in Requests, NEW p \in Payments, NEW op \in Operations,
             BeginManual(c, p, op)
      PROVE  RailEffect /\ RailsFollowAcceptance'
  <2>1. PICK a \in attempts[p], pc \in {"load", "put"} :
          call' = [call EXCEPT ![c] = [Idle EXCEPT !.op = op, !.pay = p, !.row = a, !.pc = pc]]
    BY <1>2 DEF BeginManual
  <2> DEFINE k == [Idle EXCEPT !.op = op, !.pay = p, !.row = a, !.pc = pc]
  <2>2. asked[p] > 0
    <3>1. RowFits(payment[p].status, asked[p], attempts[p], ledger[p]) /\ asked[p] \in Nat
      BY DEF RailInv, RailsFollowAcceptance, TypeOK
    <3>2. QED
      BY <2>1, <3>1 DEF RowFits
  <2>3. /\ k.pay = p /\ k.pc \in {"load", "put"} /\ k.last = "CREATED"
        /\ k.snap.status = "CREATED"
    BY DEF Idle
  <2> HIDE DEF k
  <2>4. SlotFits(k, payment[k.pay].status, asked[k.pay])
    BY <2>2, <2>3 DEF SlotFits, HasAccepted
  <2>5. QED
    BY <1>2, <2>1, <2>4, StillFits DEF BeginManual, Slots, rowVars, k
<1>3. ASSUME NEW w \in Workers, NEW p \in Payments, BeginSweep(w, p)
      PROVE  RailEffect /\ RailsFollowAcceptance'
  <2> DEFINE k == [Idle EXCEPT !.op = "sweep", !.pay = p, !.snap = payment[p], !.pc = "expire"]
  <2>1. k.pay = p /\ k.pc = "expire" /\ k.last = "CREATED" /\ k.snap = payment[p] /\ k.op = "sweep"
    BY DEF Idle
  <2>2. call' = [call EXCEPT ![w] = k]
    BY <1>3 DEF BeginSweep
  <2> HIDE DEF k
  <2>3. SlotFits(k, payment[k.pay].status, asked[k.pay])
    BY <2>1 DEF SlotFits, HasAsked, HasAccepted, ManualOperations
  <2>4. QED
    BY <1>3, <2>2, <2>3, StillFits DEF BeginSweep, Slots, rowVars
<1>4. ASSUME NEW w \in Workers, NEW p \in Payments, BeginPoll(w, p)
      PROVE  RailEffect /\ RailsFollowAcceptance'
  <2> DEFINE k == [Idle EXCEPT !.op = "poll"]
  <2>1. /\ k \in Work /\ k.last = "CREATED" /\ ~HasAsked([k EXCEPT !.pc = "got"])
    BY IdleTyped DEF Work, Idle, HasAsked, ManualOperations
  <2>2. call' = [call EXCEPT ![w] = Holding(k, p)]
    BY <1>4 DEF BeginPoll
  <2> HIDE DEF k
  <2>3. SlotFits(Holding(k, p), payment[Holding(k, p).pay].status, asked[Holding(k, p).pay])
    BY <2>1, HoldingFits
  <2>4. QED
    BY <1>4, <2>2, <2>3, StillFits DEF BeginPoll, Slots, rowVars
<1>5. ASSUME NEW c \in Slots, Abandon(c)
      PROVE  RailEffect /\ RailsFollowAcceptance'
  BY <1>5, ReturnFits DEF Abandon, rowVars
<1>6. ASSUME UNCHANGED <<payment, railVars, call>>
      PROVE  RailEffect /\ RailsFollowAcceptance'
  BY <1>6 DEF RailEffect, RailInv, RailsFollowAcceptance, railVars, Pay
<1>7. ASSUME NEW p \in Payments, ClockPasses(p)
      PROVE  UNCHANGED <<payment, railVars, call>>
  BY <1>7 DEF ClockPasses, rowVars
<1>8. CASE UNCHANGED vars
  BY <1>6, <1>8 DEF vars, railVars
<1>9. QED
  BY <1>1, <1>2, <1>3, <1>4, <1>5, <1>6, <1>7, <1>8, StepFits DEF Next

-----------------------------------------------------------------------------
(* Withdrawn payments and the contract                                     *)

LEMMA RailInit == Init => RailInv
<1> SUFFICES ASSUME Init PROVE RailInv
  OBVIOUS
<1>1. \A p \in Payments : RowFits(payment[p].status, asked[p], attempts[p], ledger[p])
  BY DEF Init, RowFits, Reached, Untouched
<1>2. \A c \in Slots : call[c] = Idle
  BY DEF Init
<1>3. QED
  BY <1>1, <1>2, IdleFits, InitTyped DEF RailInv, RailsFollowAcceptance

LEMMA RailStep ==
  ASSUME RailInv, [Next]_vars
  PROVE  RailInv' /\ RailEffect
BY NextTyped, NextFits DEF RailInv

THEOREM RailsFollow == Spec => []RailsFollowAcceptance
<1>1. RailInv /\ [Next]_vars => RailInv'
  BY RailStep
<1>2. RailInv => RailsFollowAcceptance
  BY DEF RailInv
<1>3. QED
  BY <1>1, <1>2, RailInit, PTL DEF Spec

\* A payment that expired or was cancelled never reached a rail, however the
\* expiry and the cancellation race the payer's approval.
THEOREM WithdrawnIsNeverAsked == Spec => []WithdrawnNeverAsked
<1>1. RailInv /\ [Next]_vars => RailInv'
  BY RailStep
<1>2. RailInv => WithdrawnNeverAsked
  <2> SUFFICES ASSUME RailInv, NEW p \in Payments, payment[p].status \in Untouched
               PROVE  asked[p] = 0 /\ attempts[p] = {} /\ ledger[p] = {}
    BY DEF WithdrawnNeverAsked, Untouched
  <2>1. QED
    BY DEF RailInv, RailsFollowAcceptance, RowFits
<1>3. QED
  BY <1>1, <1>2, RailInit, PTL DEF Spec

\* A legal move of a row is a move of the contract, or none it can see.
LEMMA MoveImplements ==
  ASSUME RailInv, NEW c \in Slots, NEW next \in PaymentStatuses, Pay(c) \in Payments,
         LegalMove(payment[Pay(c)].status, next, asked[Pay(c)]),
         payment' = [payment EXCEPT ![Pay(c)] = Applied(c, next)], UNCHANGED asked
  PROVE  [Contract!Next]_(Contract!vars)
<1> DEFINE p     == Pay(c)
           phase == [q \in Payments |-> PhaseOf(payment[q].status)]
           s     == payment[p].status
<1>1. s \in Reached
  BY DEF RailInv, RailsFollowAcceptance, RowFits
<1>2. phase' = [phase EXCEPT ![p] = PhaseOf(next)]
  BY DEF Applied, RailInv, TypeOK
<1>3. phase[p] = PhaseOf(s)
  OBVIOUS
<1>4. [q \in Payments |-> asked[q] > 0]' = [q \in Payments |-> asked[q] > 0]
  OBVIOUS
<1>5. \/ s = next
      \/ s = "PENDING" /\ next \in {"PROCESSING", "FAILED", "CANCELLED", "EXPIRED"}
      \/ s = "PROCESSING" /\ next = "FAILED"
      \/ s = "PROCESSING" /\ next = "SETTLED" /\ asked[p] > 0
      \/ s = "SETTLED" /\ next = "REFUNDED"
  BY <1>1 DEF LegalMove, TransitionOk, CanTransitionTo, AllowedTargets, Reached, Untouched
<1>6. \/ PhaseOf(s) = PhaseOf(next)
      \/ PhaseOf(s) = "waiting" /\ PhaseOf(next) = "accepted"
      \/ PhaseOf(s) = "waiting" /\ PhaseOf(next) = "withdrawn"
      \/ PhaseOf(s) \in {"waiting", "accepted"} /\ PhaseOf(next) = "failed"
      \/ PhaseOf(s) = "accepted" /\ PhaseOf(next) = "paid" /\ asked[p] > 0
      \/ PhaseOf(s) = "paid" /\ PhaseOf(next) = "refunded"
  BY <1>5 DEF PhaseOf
<1> HIDE DEF phase, s
<1>7. CASE PhaseOf(s) = PhaseOf(next)
  <2>1. phase' = phase
    BY <1>2, <1>3, <1>7 DEF phase
  <2>2. QED
    BY <1>4, <2>1 DEF Contract!vars, phase
<1>8. CASE PhaseOf(s) # PhaseOf(next)
  <2>1. \/ Contract!Accept(p) \/ Contract!Withdraw(p) \/ Contract!Fail(p)
        \/ Contract!Settle(p) \/ Contract!Refund(p)
    BY <1>2, <1>3, <1>4, <1>6, <1>8
    DEF Contract!Accept, Contract!Withdraw, Contract!Fail, Contract!Settle, Contract!Refund,
        Contract!Move, phase
  <2>2. QED
    BY <2>1 DEF Contract!Next
<1>9. QED
  BY <1>7, <1>8

LEMMA AskImplements ==
  ASSUME RailInv, NEW p \in Payments, payment[p].status \notin Untouched,
         asked' = [asked EXCEPT ![p] = @ + 1], UNCHANGED payment
  PROVE  [Contract!Next]_(Contract!vars)
<1> DEFINE phase == [q \in Payments |-> PhaseOf(payment[q].status)]
           some  == [q \in Payments |-> asked[q] > 0]
<1>1. asked \in [Payments -> Nat] /\ payment[p].status \in Reached
  BY DEF RailInv, TypeOK, RailsFollowAcceptance, RowFits
<1>2. phase' = phase
  OBVIOUS
<1>3. phase[p] \notin {"waiting", "withdrawn"}
  BY <1>1 DEF PhaseOf, Reached, Untouched
<1>4. \A q \in Payments : asked'[q] > 0 <=> (q = p \/ asked[q] > 0)
  BY <1>1
<1>5. some' = [some EXCEPT ![p] = TRUE]
  <2>1. \A q \in Payments : (asked'[q] > 0) = (IF q = p THEN TRUE ELSE asked[q] > 0)
    <3> TAKE q \in Payments
    <3>1. CASE q = p
      <4>1. asked'[q] > 0
        BY <1>4, <3>1
      <4>2. QED
        BY <3>1, <4>1, Zenon
    <3>2. CASE q # p
      <4>1. (asked'[q] > 0) = (asked[q] > 0)
        BY <1>1, <3>2
      <4>2. QED
        BY <3>2, <4>1, Zenon
    <3>3. QED
      BY <3>1, <3>2, Zenon
  <2>2. some' = [q \in Payments |-> IF q = p THEN TRUE ELSE asked[q] > 0]
    BY <2>1, Zenon
  <2>3. [some EXCEPT ![p] = TRUE] = [q \in Payments |-> IF q = p THEN TRUE ELSE asked[q] > 0]
    BY Zenon
  <2> HIDE DEF some
  <2>4. QED
    BY <2>2, <2>3
<1>6. CASE asked[p] > 0
  <2>1. some' = some
    BY <1>4, <1>6
  <2>2. QED
    BY <1>2, <2>1 DEF Contract!vars
<1>7. CASE ~(asked[p] > 0)
  <2>1. Contract!AskRail(p)
    BY <1>2, <1>3, <1>5, <1>7 DEF Contract!AskRail
  <2>2. QED
    BY <2>1 DEF Contract!Next
<1>8. QED
  BY <1>6, <1>7

\* The lifecycle, with all its versions, races and drops, implements what
\* merchants and payers are promised.
THEOREM ContractKept == Spec => KeepsContract
<1>1. Init => Contract!Init
  <2> SUFFICES ASSUME Init PROVE Contract!Init
    OBVIOUS
  <2>1. [p \in Payments |-> PhaseOf(payment[p].status)] = [p \in Payments |-> "waiting"]
    BY DEF Init, PhaseOf
  <2> DEFINE pos(n) == n > 0
  <2>2. \A p \in Payments : pos(asked[p]) = FALSE
    BY DEF Init
  <2> HIDE DEF pos
  <2>3. [p \in Payments |-> pos(asked[p])] = [p \in Payments |-> FALSE]
    BY <2>2
  <2>4. QED
    BY <2>1, <2>3 DEF Contract!Init, pos
<1>2. RailInv /\ [Next]_vars => [Contract!Next]_(Contract!vars)
  <2> SUFFICES ASSUME RailInv, [Next]_vars PROVE [Contract!Next]_(Contract!vars)
    OBVIOUS
  <2>1. RailEffect
    BY RailStep
  <2>2. CASE UNCHANGED <<payment, asked>>
    BY <2>2 DEF Contract!vars
  <2>3. QED
    BY <2>1, <2>2, MoveImplements, AskImplements DEF RailEffect
<1>3. RailInv /\ [Next]_vars => RailInv'
  BY RailStep
<1>4. QED
  BY <1>1, <1>2, <1>3, RailInit, PTL DEF Spec, KeepsContract, Contract!Spec

-----------------------------------------------------------------------------
(* What our tables say of the rails, and what the rails hold: attempt rows,*)
(* the answers requests carry, and the payments that were settled on them. *)

\* One entry of a connector's store, n calls having been made.
EntryFits(e, n) ==
  /\ e.ref <= n
  /\ e.ref = TimeoutRef => e.connector = Mock /\ e.status = "AMBIGUOUS"
  /\ e.connector = Manual /\ e.status \in {"SETTLED", "AMBIGUOUS"} =>
       "settle_manual" \in Operations

\* An attempt, recorded or about to be, claims no more than the store holds.
ClaimFits(a, entries) ==
  /\ a.status = "SETTLED" => a.connector = Mock /\ a.ref # NoRef
  /\ a.ref # NoRef =>
       \E e \in entries : /\ e.connector = a.connector /\ e.ref = a.ref
                          /\ a.status = "SETTLED" => e.status = "SETTLED"

\* References are numbered per payment: no two connectors hold the same one.
StoreFits(entries, n) ==
  /\ \A e \in entries : EntryFits(e, n)
  /\ \A e, f \in entries : e.ref = f.ref => e = f

Vouched(entries) == \E e \in entries : Vouches(e)

\* A slot carries claims that fit, and settles only what a rail vouches for.
SlotBacked(k, entries) ==
  /\ k.pc \in {"record", "fetch", "put"} => ClaimFits(k.row, entries)
  /\ k.pc = "put" => k.row.connector = Manual
  /\ k.pc # "idle" /\ k.op \in ManualOperations => k.op \in Operations
  /\ k.pc # "idle" /\ (k.last = "SETTLED" \/ k.op = "settle_manual") => Vouched(entries)

Paid == {"SETTLED", "REFUNDED"}

Books ==
  /\ \A p \in Payments : /\ StoreFits(ledger[p], asked[p])
                         /\ \A a \in attempts[p] : ClaimFits(a, ledger[p])
                         /\ payment[p].status \in Paid => Vouched(ledger[p])
  /\ \A c \in Slots : SlotBacked(call[c], ledger[Pay(c)])

BooksInv == RailInv /\ Books

\* No connector forgets a reference, nor money it has or may have.
Keeps(old, new) ==
  \A e \in old : \E f \in new :
    /\ f.connector = e.connector /\ f.ref = e.ref
    /\ e.connector = Mock /\ e.status = "SETTLED" => f.status = "SETTLED"
    /\ Vouches(e) => Vouches(f)

LEMMA ClaimKept ==
  ASSUME NEW old, NEW new, Keeps(old, new), NEW a, ClaimFits(a, old)
  PROVE  ClaimFits(a, new)
<1>1. CASE a.ref # NoRef
  <2>1. PICK e \in old : /\ e.connector = a.connector /\ e.ref = a.ref
                         /\ a.status = "SETTLED" => e.status = "SETTLED"
    BY <1>1 DEF ClaimFits
  <2>2. PICK f \in new : /\ f.connector = e.connector /\ f.ref = e.ref
                         /\ e.connector = Mock /\ e.status = "SETTLED" => f.status = "SETTLED"
    BY <2>1 DEF Keeps
  <2>3. QED
    BY <2>1, <2>2 DEF ClaimFits
<1>2. QED
  BY <1>1 DEF ClaimFits

LEMMA BackingKept ==
  ASSUME NEW old, NEW new, Keeps(old, new)
  PROVE  /\ Vouched(old) => Vouched(new)
         /\ \A k : SlotBacked(k, old) => SlotBacked(k, new)
<1>1. Vouched(old) => Vouched(new)
  BY DEF Vouched, Keeps
<1>2. QED
  BY <1>1, ClaimKept DEF SlotBacked

LEMMA KeepsSame ==
  ASSUME NEW entries
  PROVE  Keeps(entries, entries)
BY DEF Keeps

\* Writing a reference's entry: the books stay in order, and nothing is lost.
LEMMA PutFits ==
  ASSUME NEW n, NEW entries, StoreFits(entries, n), NEW k, NEW r, NEW s,
         EntryFits([connector |-> k, ref |-> r, status |-> s], n),
         \A e \in entries : e.ref = r => e.connector = k
  PROVE  StoreFits(Put(entries, k, r, s), n)
<1> DEFINE new == [connector |-> k, ref |-> r, status |-> s]
<1>1. ASSUME NEW e \in Put(entries, k, r, s), e # new
      PROVE  e \in entries /\ e.ref # r
  <2>1. e \in entries /\ (e.connector # k \/ e.ref # r)
    BY <1>1, Zenon DEF Put
  <2>2. e.ref = r => e.connector = k
    BY <2>1
  <2>3. QED
    BY <2>1, <2>2, Zenon
<1>2. new.ref = r
  OBVIOUS
<1> HIDE DEF new
<1>3. EntryFits(new, n)
  BY DEF new
<1>4. QED
  BY <1>1, <1>2, <1>3 DEF StoreFits

LEMMA PutKeeps ==
  ASSUME NEW entries, NEW k, NEW r, NEW s,
         \A e \in entries : e.connector = k /\ e.ref = r =>
           /\ k = Mock /\ e.status = "SETTLED" => s = "SETTLED"
           /\ Vouches(e) => Vouches([connector |-> k, ref |-> r, status |-> s])
  PROVE  Keeps(entries, Put(entries, k, r, s))
<1> DEFINE new == [connector |-> k, ref |-> r, status |-> s]
<1>1. /\ new \in Put(entries, k, r, s)
      /\ \A e \in entries : e.connector # k \/ e.ref # r => e \in Put(entries, k, r, s)
  BY DEF Put
<1>2. new.connector = k /\ new.ref = r /\ new.status = s
  OBVIOUS
<1> HIDE DEF new
<1>3. SUFFICES ASSUME NEW e \in entries
               PROVE  \E f \in Put(entries, k, r, s) :
                        /\ f.connector = e.connector /\ f.ref = e.ref
                        /\ e.connector = Mock /\ e.status = "SETTLED" => f.status = "SETTLED"
                        /\ Vouches(e) => Vouches(f)
  BY DEF Keeps
<1>4. CASE e.connector = k /\ e.ref = r
  BY <1>1, <1>2, <1>4 DEF new
<1>5. CASE ~(e.connector = k /\ e.ref = r)
  BY <1>1, <1>5
<1>6. QED
  BY <1>4, <1>5

\* A store is in order for any later number of calls.
LEMMA StoreGrows ==
  ASSUME NEW entries \in SUBSET Entry, NEW n \in Nat, NEW m \in Nat, n <= m,
         StoreFits(entries, n)
  PROVE  StoreFits(entries, m)
BY DEF StoreFits, EntryFits, Entry

LEMMA IdleBacked ==
  ASSUME NEW entries
  PROVE  SlotBacked(Idle, entries)
BY DEF SlotBacked, Idle

\* The shapes of a step, with what is left to show of its slot and its payment.
LEMMA BooksStep ==
  ASSUME BooksInv, NEW c \in Slots, NEW k, call' = [call EXCEPT ![c] = k],
         SlotBacked(k, ledger'[k.pay]),
         \A q \in Payments :
           /\ Keeps(ledger[q], ledger'[q]) /\ StoreFits(ledger'[q], asked'[q])
           /\ \A a \in attempts'[q] : a \in attempts[q] \/ ClaimFits(a, ledger'[q])
           /\ payment'[q].status \in Paid =>
                payment[q].status \in Paid \/ Vouched(ledger'[q])
  PROVE  Books'
<1>1. ASSUME NEW q \in Payments
      PROVE  /\ StoreFits(ledger'[q], asked'[q])
             /\ \A a \in attempts'[q] : ClaimFits(a, ledger'[q])
             /\ payment'[q].status \in Paid => Vouched(ledger'[q])
  BY ClaimKept, BackingKept DEF BooksInv, Books
<1>2. ASSUME NEW d \in Slots
      PROVE  SlotBacked(call'[d], ledger'[call'[d].pay])
  <2>1. call \in [Slots -> Work] /\ WellFormed(call[d])
    BY DEF BooksInv, RailInv, TypeOK
  <2>2. CASE d = c
    BY <2>1, <2>2
  <2>3. CASE d # c
    <3>1. call'[d] = call[d] /\ SlotBacked(call[d], ledger[call[d].pay])
      BY <2>1, <2>3 DEF BooksInv, Books, Pay
    <3>2. CASE call[d].pc = "idle"
      BY <3>1, <3>2 DEF SlotBacked
    <3>3. CASE call[d].pc # "idle"
      <4>1. Keeps(ledger[call[d].pay], ledger'[call[d].pay])
        BY <2>1, <3>3 DEF WellFormed
      <4>2. QED
        BY <3>1, <4>1, BackingKept
    <3>4. QED
      BY <3>2, <3>3
  <2>4. QED
    BY <2>2, <2>3
<1>3. QED
  BY <1>1, <1>2 DEF Books, Pay

LEMMA QuietBooks ==
  ASSUME BooksInv, NEW c \in Slots, NEW k, call' = [call EXCEPT ![c] = k],
         UNCHANGED <<payment, railVars>>, SlotBacked(k, ledger[k.pay])
  PROVE  Books'
BY BooksStep, KeepsSame DEF railVars, BooksInv, Books

LEMMA ReturnBooks ==
  ASSUME BooksInv, NEW c \in Slots, Return(c), UNCHANGED <<payment, railVars>>
  PROVE  Books'
BY IdleBacked, QuietBooks DEF Return

LEMMA MoveBooks ==
  ASSUME BooksInv, NEW c \in Slots, NEW k, call' = [call EXCEPT ![c] = k],
         NEW next, Pay(c) \in Payments,
         payment' = [payment EXCEPT ![Pay(c)] = Applied(c, next)], UNCHANGED railVars,
         next \in Paid => payment[Pay(c)].status \in Paid \/ Vouched(ledger[Pay(c)]),
         SlotBacked(k, ledger[k.pay])
  PROVE  Books'
<1>1. UNCHANGED <<attempts, ledger, asked>>
  BY DEF railVars
<1>2. ASSUME NEW q \in Payments
      PROVE  /\ Keeps(ledger[q], ledger'[q]) /\ StoreFits(ledger'[q], asked'[q])
             /\ payment'[q].status \in Paid =>
                  payment[q].status \in Paid \/ Vouched(ledger'[q])
  BY <1>1, KeepsSame DEF Applied, BooksInv, Books, RailInv, TypeOK
<1>3. QED
  BY <1>1, <1>2, BooksStep

\* Only a settled payment is refunded, so a refund needs no backing of its own.
LEMMA ApplyBooks ==
  ASSUME BooksInv, NEW c \in Slots, Pay(c) \in Payments,
         NEW next, NEW event, ApplyAndReturn(c, next, event),
         next = "SETTLED" => Vouched(ledger[Pay(c)])
  PROVE  Books'
<1>1. CASE Accepted(c, next) /\ Commit(c, next, event)
  <2>1. payment[Pay(c)].status \in Reached
    BY DEF BooksInv, RailInv, RailsFollowAcceptance, RowFits
  <2>2. next = "REFUNDED" => payment[Pay(c)].status \in Paid
    BY <1>1, <2>1 DEF Accepted, TransitionOk, CanTransitionTo, AllowedTargets,
                      Reached, Untouched, Paid
  <2>3. next \in Paid => payment[Pay(c)].status \in Paid \/ Vouched(ledger[Pay(c)])
    BY <2>2 DEF Paid
  <2>4. QED
    BY <1>1, <2>3, IdleBacked, MoveBooks DEF ApplyAndReturn, Commit, Return
<1>2. CASE ~Accepted(c, next) /\ UNCHANGED rowVars
  BY <1>2, ReturnBooks DEF ApplyAndReturn, rowVars
<1>3. QED
  BY <1>1, <1>2 DEF ApplyAndReturn

\* One payment's rail is asked or answers, its attempt rows may follow.
LEMMA LedgerBooks ==
  ASSUME BooksInv, NEW c \in Slots, NEW k, call' = [call EXCEPT ![c] = k],
         NEW p \in Payments, UNCHANGED payment,
         UNCHANGED asked \/ asked' = [asked EXCEPT ![p] = @ + 1],
         NEW entries, Keeps(ledger[p], entries), StoreFits(entries, asked'[p]),
         ledger' = [ledger EXCEPT ![p] = entries],
         \A q \in Payments : \A a \in attempts'[q] :
           a \in attempts[q] \/ ClaimFits(a, ledger'[q]),
         SlotBacked(k, ledger'[k.pay])
  PROVE  Books'
<1>1. ASSUME NEW q \in Payments
      PROVE  Keeps(ledger[q], ledger'[q]) /\ StoreFits(ledger'[q], asked'[q])
  <2>1. CASE q = p
    BY <2>1 DEF BooksInv, RailInv, TypeOK
  <2>2. CASE q # p
    <3>1. ledger'[q] = ledger[q] /\ asked'[q] = asked[q]
      BY <2>2 DEF BooksInv, RailInv, TypeOK
    <3>2. QED
      BY <3>1, KeepsSame DEF BooksInv, Books
  <2>3. QED
    BY <2>1, <2>2
<1>2. QED
  BY <1>1, BooksStep

\* What a connector answers, and what it then holds under the answer's key.
AnswerFits(a, k, new) ==
  /\ a.key \in {new, TimeoutRef}
  /\ a.ref # NoRef => a.ref = a.key /\ a.put = a.status /\ a.put # "none"
  /\ a.status = "SETTLED" => k = Mock /\ a.ref # NoRef
  /\ a.put # "none" /\ a.key = TimeoutRef => k = Mock /\ a.put = "AMBIGUOUS"
  /\ k = Manual => a.put \notin {"SETTLED", "AMBIGUOUS"}

LEMMA ToldFits ==
  ASSUME NEW k \in Connectors, NEW new \in Nat \ {0}
  PROVE  \A a \in Told(k, new) : AnswerFits(a, k, new)
<1> DEFINE ok(s)     == [status |-> s, ref |-> new, code |-> "none", put |-> s, key |-> new]
           err(code) == [status |-> "FAILED", ref |-> NoRef, code |-> code,
                         put |-> "none", key |-> new]
           timeout   == [status |-> "AMBIGUOUS", ref |-> TimeoutRef, code |-> "TIMEOUT",
                         put |-> "AMBIGUOUS", key |-> TimeoutRef]
<1>1. \A code : AnswerFits(err(code), k, new)
  BY DEF AnswerFits, NoRef
<1>2. AnswerFits(ok("REQUIRES_ACTION"), Manual, new)
  BY DEF AnswerFits, TimeoutRef
<1>3. /\ AnswerFits(ok("SETTLED"), Mock, new) /\ AnswerFits(ok("PROCESSING"), Mock, new)
      /\ AnswerFits(timeout, Mock, new)
  BY DEF AnswerFits, TimeoutRef, NoRef, Mock, Manual
<1> HIDE DEF ok, err, timeout
<1>4. \/ k = Manual /\ k # Stub
      \/ k = Stub /\ k # Manual
      \/ k = Mock /\ k # Manual /\ k # Stub
  BY DEF Connectors, Mock, Manual, Stub
<1>5. ASSUME NEW a \in Told(k, new)
      PROVE  \/ k = Manual /\ a = ok("REQUIRES_ACTION")
             \/ \E code : a = err(code)
             \/ k = Mock /\ (a = ok("SETTLED") \/ a = ok("PROCESSING") \/ a = timeout)
  <2>1. CASE k = Manual /\ k # Stub
    BY <1>5, <2>1, Zenon DEF Told, ok
  <2>2. CASE k = Stub /\ k # Manual
    BY <1>5, <2>2, Zenon DEF Told, err
  <2>3. CASE k = Mock /\ k # Manual /\ k # Stub
    BY <1>5, <2>3, Zenon DEF Told, ok, err, timeout
  <2>4. QED
    BY <1>4, <2>1, <2>2, <2>3
<1>6. QED
  BY <1>1, <1>2, <1>3, <1>5

LEMMA AnswersFit ==
  ASSUME NEW k \in Connectors, NEW new \in Nat \ {0}
  PROVE  \A a \in Answers(k, new) : AnswerFits(a, k, new)
<1> DEFINE lost(a) == [StoreFails(a) EXCEPT !.put = "none"]
<1>1. \A a \in Told(k, new) : a \in Answer /\ AnswerFits(a, k, new)
  BY ToldTyped, ToldFits
<1>2. \A a \in Answer : AnswerFits(a, k, new) =>
        AnswerFits(StoreFails(a), k, new) /\ AnswerFits(lost(a), k, new)
  BY DEF StoreFails, Answer, AnswerFits
<1> HIDE DEF lost
<1>3. \A b \in Answers(k, new) : \E a \in Told(k, new) :
        b = a \/ b = StoreFails(a) \/ b = lost(a)
  BY Zenon DEF Answers, lost
<1>4. QED
  BY <1>1, <1>2, <1>3

\* A connector asked once more holds what it held, and its answer is no more
\* than what it holds.
LEMMA StoreBooks ==
  ASSUME NEW entries \in SUBSET Entry, NEW n \in Nat, StoreFits(entries, n),
         NEW k \in Connectors, NEW a, AnswerFits(a, k, n + 1)
  PROVE  /\ StoreFits(Store(entries, k, a), n + 1)
         /\ Keeps(entries, Store(entries, k, a))
         /\ ClaimFits([at |-> n + 1, connector |-> k, ref |-> a.ref, status |-> a.status],
                      Store(entries, k, a))
<1> DEFINE new == [connector |-> k, ref |-> a.key, status |-> a.put]
           row == [at |-> n + 1, connector |-> k, ref |-> a.ref, status |-> a.status]
<1>1. StoreFits(entries, n + 1)
  BY StoreGrows
<1>2. CASE a.put = "none"
  <2>1. Store(entries, k, a) = entries
    BY <1>2 DEF Store
  <2>2. ClaimFits(row, entries)
    BY <1>2 DEF ClaimFits, AnswerFits
  <2>3. QED
    BY <1>1, <2>1, <2>2, KeepsSame
<1>3. CASE a.put # "none"
  <2>1. Store(entries, k, a) = Put(entries, k, a.key, a.put)
    BY <1>3 DEF Store
  <2>2. \A e \in entries : e.ref = a.key =>
          e.connector = k /\ e.status = "AMBIGUOUS" /\ a.put = "AMBIGUOUS"
    <3>1. \A e \in entries : e.ref \in Nat /\ e.ref <= n
      BY DEF StoreFits, EntryFits, Entry
    <3>2. a.key \in {n + 1, TimeoutRef}
      BY DEF AnswerFits
    <3>3. QED
      BY <1>3, <3>1, <3>2 DEF StoreFits, EntryFits, AnswerFits
  <2>3. EntryFits(new, n + 1)
    BY <1>3 DEF EntryFits, AnswerFits, TimeoutRef
  <2>4. StoreFits(Put(entries, k, a.key, a.put), n + 1)
    BY <1>1, <2>2, <2>3, PutFits
  <2>5. Keeps(entries, Put(entries, k, a.key, a.put))
    <3>1. a.put = "AMBIGUOUS" => Vouches(new)
      BY DEF Vouches
    <3> HIDE DEF new
    <3>2. \A e \in entries : e.connector = k /\ e.ref = a.key =>
            /\ k = Mock /\ e.status = "SETTLED" => a.put = "SETTLED"
            /\ Vouches(e) => Vouches(new)
      BY <2>2, <3>1
    <3>3. QED
      BY <3>2, PutKeeps DEF new
  <2>6. ClaimFits(row, Put(entries, k, a.key, a.put))
    <3>1. new \in Put(entries, k, a.key, a.put)
      BY DEF Put
    <3>2. /\ new.connector = k /\ new.ref = a.key /\ new.status = a.put
          /\ row.connector = k /\ row.ref = a.ref /\ row.status = a.status
      OBVIOUS
    <3> HIDE DEF new, row
    <3>3. QED
      BY <3>1, <3>2 DEF ClaimFits, AnswerFits
  <2>7. QED
    BY <2>1, <2>4, <2>5, <2>6
<1>4. QED
  BY <1>2, <1>3

\* What reading a row leaves in a slot is backed as the slot was.
LEMMA HoldingBacked ==
  ASSUME NEW k \in Work, NEW p \in Payments, SlotBacked([k EXCEPT !.pc = "got"], ledger[p])
  PROVE  SlotBacked(Holding(k, p), ledger[Holding(k, p).pay])
<1> DEFINE expire == [[k EXCEPT !.pay = p, !.snap = payment[p]] EXCEPT !.pc = "expire"]
           got    == [[k EXCEPT !.pay = p, !.snap = payment[p]] EXCEPT !.pc = "got"]
<1>1. Holding(k, p) \in {expire, got, Idle}
  BY Zenon DEF Holding
<1>2. /\ k.op \in ManualOperations => k.op \in Operations
      /\ k.last = "SETTLED" \/ k.op = "settle_manual" => Vouched(ledger[p])
  BY DEF SlotBacked, Work
<1>3. SlotBacked(expire, ledger[expire.pay]) /\ SlotBacked(got, ledger[got.pay])
  BY <1>2 DEF SlotBacked, Work
<1>4. QED
  BY <1>1, <1>3, IdleBacked

\* A slot that goes on with the operation and the outcome it had is backed as
\* it was, where it holds no attempt.
LEMMA OnBacked ==
  ASSUME NEW k, NEW new, NEW entries, SlotBacked(k, entries), k.pc # "idle",
         new.op = k.op, new.last = k.last \/ new.last # "SETTLED" \/ Vouched(entries),
         new.pc \notin {"record", "fetch", "put"} \/ ClaimFits(new.row, entries),
         new.pc # "put"
  PROVE  SlotBacked(new, entries)
BY DEF SlotBacked

LEMMA StepBooks ==
  ASSUME BooksInv, NEW c \in Slots, Step(c)
  PROVE  Books'
<1> DEFINE k == call[c]
           p == Pay(c)
<1>1. /\ TypeOK /\ k \in Work /\ WellFormed(k) /\ call \in [Slots -> Work]
      /\ SlotFits(k, payment[p].status, asked[p])
      /\ SlotBacked(k, ledger[p])
  BY DEF BooksInv, Books, RailInv, TypeOK, RailsFollowAcceptance
<1>2. k.pc # "idle" => /\ p \in Payments /\ asked[p] \in Nat
                       /\ ledger \in [Payments -> SUBSET Entry] /\ ledger[p] \in SUBSET Entry
                       /\ StoreFits(ledger[p], asked[p])
                       /\ \A a \in attempts[p] : ClaimFits(a, ledger[p])
  BY <1>1 DEF Pay, WellFormed, TypeOK, BooksInv, Books
<1>3. CASE ResolvePut(c)
  <2> DEFINE s       == IF k.op = "settle_manual" THEN "SETTLED" ELSE "FAILED"
             entries == Put(ledger[p], Manual, k.row.ref, s)
             held    == [k EXCEPT !.pc = "load"]
             new     == [connector |-> Manual, ref |-> k.row.ref, status |-> s]
  <2>1. k.pc = "put" /\ k.row.ref \in Nat
    BY <1>1, <1>3 DEF ResolvePut, At, WellFormed
  <2>2. PICK f \in ledger[p] : f.connector = Manual /\ f.ref = k.row.ref
    BY <1>1, <2>1 DEF SlotBacked, ClaimFits, NoRef
  <2>3. s = "SETTLED" => "settle_manual" \in Operations
    BY <1>1, <2>1 DEF SlotBacked, ManualOperations
  <2>4. EntryFits(new, asked[p])
    <3>1. EntryFits(f, asked[p])
      BY <1>2, <2>1, <2>2 DEF StoreFits
    <3>2. s \in {"SETTLED", "FAILED"}
      OBVIOUS
    <3> HIDE DEF s
    <3>3. QED
      BY <2>2, <2>3, <3>1, <3>2 DEF EntryFits, Mock, Manual
  <2>5. \A e \in ledger[p] : e.ref = k.row.ref => e = f
    BY <1>2, <2>1, <2>2 DEF StoreFits
  <2>6. StoreFits(entries, asked[p])
    BY <1>2, <2>1, <2>2, <2>4, <2>5, PutFits
  <2>7. Keeps(ledger[p], entries)
    <3>1. Vouches(f) => "settle_manual" \in Operations
      BY <1>2, <2>1, <2>2 DEF Vouches, StoreFits, EntryFits
    <3>2. "settle_manual" \in Operations => Vouches(new)
      BY DEF Vouches
    <3>3. Manual # Mock
      BY DEF Manual, Mock
    <3> HIDE DEF new, s
    <3>4. \A e \in ledger[p] : e.connector = Manual /\ e.ref = k.row.ref =>
            /\ Manual = Mock /\ e.status = "SETTLED" => s = "SETTLED"
            /\ Vouches(e) => Vouches(new)
      BY <2>5, <3>1, <3>2, <3>3
    <3>5. QED
      BY <3>4, PutKeeps DEF new
  <2>8. held.pay = p /\ held.pc = "load" /\ held.op = k.op /\ held.last = k.last
    BY <1>1 DEF Work, Pay
  <2>9. /\ call' = [call EXCEPT ![c] = held]
        /\ ledger' = [ledger EXCEPT ![p] = entries]
        /\ UNCHANGED <<payment, attempts, asked>>
    BY <1>3 DEF ResolvePut, rowVars
  <2> HIDE DEF held, entries
  <2>10. ledger'[p] = entries /\ SlotBacked(held, ledger'[held.pay])
    <3>1. ledger'[p] = entries
      BY <1>2, <2>1, <2>9
    <3>2. SlotBacked(k, entries)
      BY <1>1, <2>7, BackingKept
    <3>3. QED
      BY <2>1, <2>8, <3>1, <3>2, OnBacked
  <2>11. p \in Payments
    BY <1>2, <2>1
  <2> HIDE DEF p, k
  <2>12. QED
    BY <2>6, <2>7, <2>9, <2>10, <2>11, LedgerBooks
<1>4. CASE Load(c)
  <2>1. p \in Payments /\ k.pc = "load"
    BY <1>2, <1>4 DEF Load, At
  <2>2. SlotBacked([k EXCEPT !.pc = "got"], ledger[p])
    BY <1>1, <2>1 DEF SlotBacked, Work
  <2>3. SlotBacked(Holding(k, p), ledger[Holding(k, p).pay])
    BY <1>1, <2>1, <2>2, HoldingBacked
  <2>4. QED
    BY <1>4, <2>3, QuietBooks DEF Load, rowVars
<1>5. CASE ApplyExpiry(c)
  <2> DEFINE held == [k EXCEPT !.pc = "got", !.snap = Applied(c, "EXPIRED")]
  <2>1. p \in Payments /\ k.pc = "expire"
    BY <1>2, <1>5 DEF ApplyExpiry, At
  <2>2. CASE Return(c) /\ UNCHANGED rowVars
    BY <1>5, <2>2, ReturnBooks DEF ApplyExpiry, rowVars
  <2>3. CASE Accepted(c, "EXPIRED") /\ Commit(c, "EXPIRED", "payment.expired")
    <3>1. held.pay = p /\ held.pc = "got" /\ held.last = k.last /\ held.op = k.op
      BY <1>1 DEF Work, Pay
    <3>2. \/ call' = [call EXCEPT ![c] = held]
          \/ call' = [call EXCEPT ![c] = Idle]
      BY <1>5 DEF ApplyExpiry, Return
    <3>3. /\ payment' = [payment EXCEPT ![p] = Applied(c, "EXPIRED")]
          /\ UNCHANGED railVars
      BY <1>5, <2>3 DEF ApplyExpiry, Commit
    <3> HIDE DEF held
    <3>4. SlotBacked(held, ledger[held.pay])
      BY <1>1, <2>1, <3>1, OnBacked
    <3>5. "EXPIRED" \notin Paid
      BY DEF Paid
    <3>6. QED
      BY <2>1, <3>2, <3>3, <3>4, <3>5, IdleBacked, MoveBooks
  <2>4. QED
    BY <1>5, <2>2, <2>3 DEF ApplyExpiry
<1>6. CASE Reject(c) \/ Cancel(c) \/ Refund(c) \/ ResolveApply(c)
  <2>1. /\ k.pc = "got"
        /\ \/ ApplyAndReturn(c, "FAILED", "payment.failed")
           \/ ApplyAndReturn(c, "CANCELLED", "payment.cancelled")
           \/ ApplyAndReturn(c, "REFUNDED", "payment.refunded")
           \/ /\ k.op = "settle_manual"
              /\ ApplyAndReturn(c, "SETTLED", "payment.settled")
    BY <1>6 DEF Reject, Cancel, Refund, ResolveApply, At
  <2>2. k.op = "settle_manual" => Vouched(ledger[p])
    BY <1>1, <2>1 DEF SlotBacked
  <2>3. QED
    BY <1>2, <2>1, <2>2, ApplyBooks
<1>7. CASE StartProcessing(c)
  <2> DEFINE held == [k EXCEPT !.pc = "route", !.snap = Applied(c, "PROCESSING")]
  <2>1. p \in Payments /\ k.pc = "got"
    BY <1>2, <1>7 DEF StartProcessing, At
  <2>2. CASE Return(c) /\ UNCHANGED rowVars
    BY <1>7, <2>2, ReturnBooks DEF StartProcessing, rowVars
  <2>3. CASE /\ Accepted(c, "PROCESSING") /\ Commit(c, "PROCESSING", "payment.processing")
             /\ call' = [call EXCEPT ![c] = held]
    <3>1. held.pay = p /\ held.pc = "route" /\ held.last = k.last /\ held.op = k.op
      BY <1>1 DEF Work, Pay
    <3>2. /\ payment' = [payment EXCEPT ![p] = Applied(c, "PROCESSING")]
          /\ UNCHANGED railVars
      BY <1>7, <2>3 DEF StartProcessing, Commit
    <3> HIDE DEF held
    <3>3. SlotBacked(held, ledger[held.pay])
      BY <1>1, <2>1, <3>1, OnBacked
    <3>4. "PROCESSING" \notin Paid
      BY DEF Paid
    <3>5. QED
      BY <2>1, <2>3, <3>2, <3>3, <3>4, MoveBooks
  <2>4. QED
    BY <1>7, <2>2, <2>3 DEF StartProcessing
<1>8. CASE Route(c)
  <2>1. k.pc # "idle"
    BY <1>8 DEF Route, At
  <2>2. ASSUME NEW r, call' = [call EXCEPT ![c].pc = "attempt", ![c].keys = r,
                                         ![c].last = "PROCESSING"]
        PROVE  Books'
    <3> DEFINE held == [k EXCEPT !.pc = "attempt", !.keys = r, !.last = "PROCESSING"]
    <3>1. held.pay = p /\ held.pc = "attempt" /\ held.last = "PROCESSING" /\ held.op = k.op
      BY <1>1 DEF Work, Pay
    <3>2. call' = [call EXCEPT ![c] = held]
      BY <2>2
    <3> HIDE DEF held
    <3>3. SlotBacked(held, ledger[held.pay])
      BY <1>1, <2>1, <3>1, OnBacked
    <3>4. QED
      BY <1>8, <3>2, <3>3, QuietBooks DEF Route, rowVars
  <2>3. CASE Return(c)
    BY <1>8, <2>3, ReturnBooks DEF Route, rowVars
  <2>4. QED
    BY <1>8, <2>2, <2>3 DEF Route
<1>9. CASE SkipUnregistered(c)
  <2> DEFINE failed == [k EXCEPT !.last = "FAILED"]
             new    == AfterAttempt(failed, "CONNECTOR_UNAVAILABLE")
  <2>1. failed \in Work /\ failed.pay = p /\ failed.op = k.op /\ failed.last = "FAILED"
    BY <1>1 DEF Work, Pay, PaymentStatuses
  <2>2. /\ new.pay = p /\ new.op = k.op /\ new.last = "FAILED"
        /\ new.pc \in {"attempt", "finish"}
    BY <2>1, AfterAttemptFields
  <2>3. k.pc # "idle" /\ call' = [call EXCEPT ![c] = new]
    BY <1>9 DEF SkipUnregistered, At
  <2> HIDE DEF new
  <2>4. SlotBacked(new, ledger[new.pay])
    BY <1>1, <2>2, <2>3, OnBacked
  <2>5. QED
    BY <1>9, <2>3, <2>4, QuietBooks DEF SkipUnregistered, rowVars
<1>10. CASE AskConnector(c)
  <2> DEFINE conn == Head(k.keys)
             n    == asked[p]
  <2>1. k.pc = "attempt" /\ conn \in Connectors /\ p \in Payments /\ n \in Nat
    BY <1>2, <1>10, RoutingAssumption DEF AskConnector, At
  <2>2. PICK answer \in Answers(conn, n + 1) :
          /\ ledger' = [ledger EXCEPT ![p] = Store(ledger[p], conn, answer)]
          /\ call' = [call EXCEPT
               ![c].pc = "record", ![c].code = answer.code,
               ![c].row = [at |-> n + 1, connector |-> conn, ref |-> answer.ref,
                           status |-> answer.status]]
    BY <1>10 DEF AskConnector
  <2> DEFINE row == [at |-> n + 1, connector |-> conn, ref |-> answer.ref,
                     status |-> answer.status]
             new == [k EXCEPT !.pc = "record", !.code = answer.code, !.row = row]
             entries == Store(ledger[p], conn, answer)
  <2>3. AnswerFits(answer, conn, n + 1)
    BY <2>1, <2>2, AnswersFit
  <2>4. /\ StoreFits(entries, n + 1) /\ Keeps(ledger[p], entries)
        /\ ClaimFits(row, entries)
    BY <1>2, <2>1, <2>3, StoreBooks
  <2>5. new.pay = p /\ new.pc = "record" /\ new.row = row /\ new.last = k.last /\ new.op = k.op
    BY <1>1 DEF Work, Pay
  <2>6. /\ call' = [call EXCEPT ![c] = new]
        /\ asked' = [asked EXCEPT ![p] = @ + 1]
        /\ UNCHANGED <<payment, attempts>>
    BY <1>10, <2>2 DEF AskConnector, rowVars
  <2>7. asked'[p] = n + 1
    BY <1>1, <2>1, <2>6 DEF TypeOK
  <2> HIDE DEF new, conn, row, entries
  <2>8. ledger'[p] = entries
    BY <1>2, <2>1, <2>2 DEF entries
  <2>9. SlotBacked(new, ledger'[new.pay])
    <3>1. SlotBacked(k, entries)
      BY <1>1, <2>4, BackingKept
    <3>2. QED
      BY <2>1, <2>4, <2>5, <2>8, <3>1, OnBacked
  <2>10. ledger' = [ledger EXCEPT ![p] = entries]
    BY <2>2 DEF entries
  <2>11. QED
    BY <2>1, <2>4, <2>6, <2>7, <2>9, <2>10, LedgerBooks
<1>11. CASE RecordAttempt(c)
  <2>1. p \in Payments /\ k.pc = "record" /\ ClaimFits(k.row, ledger[p])
    BY <1>1, <1>2, <1>11 DEF RecordAttempt, At, SlotBacked
  <2>2. CASE Return(c) /\ UNCHANGED attempts
    BY <1>11, <2>2, ReturnBooks DEF RecordAttempt, rowVars, railVars
  <2>3. CASE /\ attempts' = [attempts EXCEPT ![p] = attempts[p] \union {k.row}]
             /\ call' = [call EXCEPT ![c] =
                  AfterAttempt([k EXCEPT !.last = IntoPaymentStatus(k.row.status)], k.code)]
    <3> DEFINE done == [k EXCEPT !.last = IntoPaymentStatus(k.row.status)]
               new  == AfterAttempt(done, k.code)
    <3>1. /\ IntoPaymentStatus(k.row.status) \in PaymentStatuses
          /\ IntoPaymentStatus(k.row.status) = "SETTLED" => k.row.status = "SETTLED"
      BY <1>1, IntoPaymentStatusTyped DEF Work, Attempt, IntoPaymentStatus
    <3>2. /\ done \in Work /\ done.pay = p /\ done.op = k.op
          /\ done.last = IntoPaymentStatus(k.row.status)
      BY <1>1, <3>1 DEF Work, Pay
    <3>3. new.pay = p /\ new.last = done.last /\ new.op = k.op /\ new.pc \in {"attempt", "finish"}
      BY <3>2, AfterAttemptFields
    <3>4. call' = [call EXCEPT ![c] = new]
      BY <2>3
    <3> HIDE DEF new, done
    <3>5. k.row.status = "SETTLED" => Vouched(ledger[p])
      BY <2>1 DEF ClaimFits, Vouched, Vouches
    <3>6. SlotBacked(new, ledger[new.pay])
      BY <1>1, <2>1, <3>1, <3>2, <3>3, <3>5, OnBacked
    <3>7. UNCHANGED <<payment, ledger, asked>>
      BY <1>11 DEF RecordAttempt, rowVars
    <3>8. \A q \in Payments : \A a \in attempts'[q] :
            a \in attempts[q] \/ ClaimFits(a, ledger'[q])
      BY <1>1, <2>1, <2>3, <3>7 DEF TypeOK
    <3>9. ledger' = [ledger EXCEPT ![p] = ledger[p]]
      BY <1>2, <2>1, <3>7
    <3>10. /\ Keeps(ledger[p], ledger[p]) /\ StoreFits(ledger[p], asked'[p])
           /\ SlotBacked(new, ledger'[new.pay])
      BY <1>2, <2>1, <3>6, <3>7, KeepsSame
    <3> HIDE DEF p, k
    <3>11. QED
      BY <2>1, <3>4, <3>7, <3>8, <3>9, <3>10, LedgerBooks
  <2>4. QED
    BY <1>11, <2>2, <2>3 DEF RecordAttempt
<1>12. CASE Finish(c) \/ Close(c)
  <2>1. /\ k.pc # "idle" /\ ApplyAndReturn(c, k.last, WebhookEvent(k.last))
    BY <1>12 DEF Finish, Close, At
  <2>2. k.last = "SETTLED" => Vouched(ledger[p])
    BY <1>1, <2>1 DEF SlotBacked
  <2>3. QED
    BY <1>2, <2>1, <2>2, ApplyBooks
<1>13. CASE PickAttempt(c)
  <2>1. p \in Payments /\ k.pc = "got"
    BY <1>2, <1>13 DEF PickAttempt, At
  <2>2. CASE Return(c)
    BY <1>13, <2>2, ReturnBooks DEF PickAttempt, rowVars
  <2>3. ASSUME NEW a \in Latest(Candidates(c)),
               call' = [call EXCEPT ![c].pc = "fetch", ![c].row = a]
        PROVE  Books'
    <3> DEFINE new == [k EXCEPT !.pc = "fetch", !.row = a]
    <3>1. a \in attempts[p]
      BY DEF Latest, Candidates, Reconcilable
    <3>2. /\ new.pay = p /\ new.pc = "fetch" /\ new.last = k.last /\ new.op = k.op
          /\ new.row = a
      BY <1>1 DEF Work, Pay
    <3>3. call' = [call EXCEPT ![c] = new]
      BY <2>3
    <3> HIDE DEF new
    <3>4. SlotBacked(new, ledger[new.pay])
      BY <1>1, <1>2, <2>1, <3>1, <3>2, OnBacked
    <3>5. QED
      BY <1>13, <3>3, <3>4, QuietBooks DEF PickAttempt, rowVars
  <2>4. QED
    BY <1>13, <2>2, <2>3 DEF PickAttempt
<1>14. CASE Fetch(c)
  <2> DEFINE r == k.row
  <2>1. p \in Payments /\ k.pc = "fetch" /\ ClaimFits(r, ledger[p])
    BY <1>1, <1>2, <1>14 DEF Fetch, At, SlotBacked
  <2>2. ASSUME NEW s, Fetched(c, s), NEW entries, SlotBacked(k, entries),
               s = "SETTLED" => Vouched(entries)
        PROVE  \E new : /\ call' = [call EXCEPT ![c] = new]
                        /\ new = Idle \/ new.pay = p
                        /\ SlotBacked(new, entries)
    <3> DEFINE replayed == [k EXCEPT !.pc = "load", !.op = "replayed"]
               closing  == [k EXCEPT !.pc = "close", !.last = IntoPaymentStatus(s)]
    <3>1. /\ replayed.pay = p /\ replayed.pc = "load" /\ replayed.last = k.last
          /\ replayed.op = "replayed"
          /\ closing.pay = p /\ closing.pc = "close" /\ closing.op = k.op
          /\ closing.last = IntoPaymentStatus(s)
      BY <1>1 DEF Work, Pay
    <3>2. \/ call' = [call EXCEPT ![c] = replayed]
          \/ call' = [call EXCEPT ![c] = closing]
          \/ call' = [call EXCEPT ![c] = Idle]
      BY <2>2 DEF Fetched, Return
    <3> HIDE DEF replayed, closing
    <3>3. SlotBacked(replayed, entries)
      BY <2>1, <2>2, <3>1 DEF SlotBacked, ManualOperations
    <3>4. IntoPaymentStatus(s) = "SETTLED" => s = "SETTLED"
      BY DEF IntoPaymentStatus
    <3>5. SlotBacked(closing, entries)
      BY <2>1, <2>2, <3>1, <3>4, OnBacked
    <3>6. QED
      BY <3>1, <3>2, <3>3, <3>5, IdleBacked
  <2>3. CASE /\ r.connector = Mock /\ r.ref = TimeoutRef
             /\ Fetched(c, "SETTLED") /\ UNCHANGED ledger
    <3>1. PICK e \in ledger[p] : e.ref = TimeoutRef
      BY <2>1, <2>3 DEF ClaimFits, NoRef, TimeoutRef
    <3>2. Vouched(ledger[p])
      BY <1>2, <2>1, <3>1 DEF StoreFits, EntryFits, Vouched, Vouches
    <3>3. PICK new : /\ call' = [call EXCEPT ![c] = new]
                     /\ new = Idle \/ new.pay = p
                     /\ SlotBacked(new, ledger[p])
      BY <1>1, <2>2, <2>3, <3>2
    <3>4. SlotBacked(new, ledger[new.pay])
      BY <3>3, IdleBacked
    <3>5. QED
      BY <1>14, <2>3, <3>3, <3>4, QuietBooks DEF Fetch, rowVars, railVars
  <2>4. CASE Return(c) /\ UNCHANGED ledger
    BY <1>14, <2>4, ReturnBooks DEF Fetch, rowVars, railVars
  <2>5. ASSUME ~(r.connector = Mock /\ r.ref = TimeoutRef),
               NEW e \in ledger[p], e.connector = r.connector, e.ref = r.ref,
               NEW s, s = e.status \/ (r.connector = Mock /\ s = "SETTLED"),
               r.connector = Mock /\ e.status = "AMBIGUOUS" => s = "SETTLED",
               e.status = "SETTLED" => s = "SETTLED",
               ledger' = [ledger EXCEPT ![p] = Put(ledger[p], r.connector, r.ref, s)],
               Fetched(c, s)
        PROVE  Books'
    <3> DEFINE new     == [connector |-> r.connector, ref |-> r.ref, status |-> s]
               entries == Put(ledger[p], r.connector, r.ref, s)
    <3>1. EntryFits(e, asked[p])
      BY <1>2, <2>1 DEF StoreFits
    <3>2. /\ new.connector = e.connector /\ new.ref = e.ref /\ new.status = s
          /\ new \in entries
      BY <2>5 DEF Put
    <3> HIDE DEF new
    <3>3. EntryFits(new, asked[p])
      BY <2>5, <3>1, <3>2 DEF EntryFits, Mock, Manual
    <3>4. \A f \in ledger[p] : f.ref = r.ref => f = e
      BY <1>2, <2>1, <2>5 DEF StoreFits
    <3>5. StoreFits(entries, asked[p])
      BY <1>2, <2>1, <2>5, <3>3, <3>4, PutFits DEF new
    <3>6. Vouches(e) => Vouches(new)
      BY <2>5, <3>2 DEF Vouches
    <3>7. Keeps(ledger[p], entries)
      <4>1. \A f \in ledger[p] : f.connector = r.connector /\ f.ref = r.ref =>
              /\ r.connector = Mock /\ f.status = "SETTLED" => s = "SETTLED"
              /\ Vouches(f) => Vouches(new)
        BY <2>5, <3>4, <3>6
      <4>2. QED
        BY <4>1, PutKeeps DEF new
    <3>8. s = "SETTLED" => Vouched(entries)
      BY <3>2 DEF Vouched, Vouches
    <3> HIDE DEF entries
    <3>9. SlotBacked(k, entries)
      BY <1>1, <3>7, BackingKept
    <3>10. PICK held : /\ call' = [call EXCEPT ![c] = held]
                       /\ held = Idle \/ held.pay = p
                       /\ SlotBacked(held, entries)
      BY <2>2, <2>5, <3>8, <3>9
    <3>11. ledger' = [ledger EXCEPT ![p] = entries] /\ UNCHANGED <<payment, attempts, asked>>
      BY <1>14, <2>5 DEF Fetch, rowVars, entries
    <3>12. ledger'[p] = entries
      BY <1>2, <2>1, <3>11
    <3>13. SlotBacked(held, ledger'[held.pay])
      BY <3>10, <3>12, IdleBacked
    <3> HIDE DEF p, k, r
    <3>14. QED
      BY <2>1, <3>5, <3>7, <3>10, <3>11, <3>13, LedgerBooks
  <2>6. ASSUME ~(r.connector = Mock /\ r.ref = TimeoutRef),
               NEW e \in {e \in ledger[p] : e.connector = r.connector /\ e.ref = r.ref},
               NEW s, s = IF r.connector = Mock /\ e.status \in {"PROCESSING", "AMBIGUOUS"}
                            THEN "SETTLED" ELSE e.status,
               ledger' = [ledger EXCEPT ![p] = Put(ledger[p], r.connector, r.ref, s)],
               Fetched(c, s)
        PROVE  Books'
    BY <2>5, <2>6
  <2> HIDE DEF p, k, r
  <2>7. QED
    BY <1>14, <2>3, <2>4, <2>6 DEF Fetch, p, k, r
<1>15. QED
  BY <1>3, <1>4, <1>5, <1>6, <1>7, <1>8, <1>9, <1>10, <1>11, <1>12, <1>13, <1>14 DEF Step

LEMMA NextBooks ==
  ASSUME BooksInv, [Next]_vars
  PROVE  Books'
<1>1. ASSUME NEW c \in Requests, NEW p \in Payments, NEW op \in Operations, Begin(c, p, op)
      PROVE  Books'
  <2> DEFINE k == [Idle EXCEPT !.op = op]
  <2>1. k \in Work
    BY IdleTyped, ClientAssumption DEF Work
  <2>2. SlotBacked([k EXCEPT !.pc = "got"], ledger[p])
    BY <1>1 DEF Begin, SlotBacked, Idle, ManualOperations
  <2> HIDE DEF k
  <2>3. SlotBacked(Holding(k, p), ledger[Holding(k, p).pay])
    BY <2>1, <2>2, HoldingBacked
  <2>4. QED
    BY <1>1, <2>3, QuietBooks DEF Begin, Slots, rowVars, k
<1>2. ASSUME NEW c \in Requests, NEW p \in Payments, NEW op \in Operations,
             BeginManual(c, p, op)
      PROVE  Books'
  <2>1. PICK a \in attempts[p], e \in ledger[p], pc \in {"load", "put"} :
          /\ e.connector = Manual /\ e.ref = a.ref
          /\ call' = [call EXCEPT ![c] = [Idle EXCEPT !.op = op, !.pay = p, !.row = a, !.pc = pc]]
    BY <1>2 DEF BeginManual
  <2> DEFINE k == [Idle EXCEPT !.op = op, !.pay = p, !.row = a, !.pc = pc]
  <2>2. /\ k.pay = p /\ k.pc \in {"load", "put"} /\ k.last = "CREATED"
        /\ k.op = op /\ k.row = a
    BY DEF Idle
  <2> HIDE DEF k
  <2>3. ledger[p] \in SUBSET Entry /\ StoreFits(ledger[p], asked[p]) /\ ClaimFits(a, ledger[p])
    BY DEF BooksInv, Books, RailInv, TypeOK
  <2>4. a.ref # NoRef
    BY <2>1, <2>3 DEF Entry, NoRef
  <2>5. a.connector = Manual
    <3>1. PICK f \in ledger[p] : f.connector = a.connector /\ f.ref = a.ref
      BY <2>3, <2>4 DEF ClaimFits
    <3>2. f = e
      BY <2>1, <2>3, <3>1 DEF StoreFits
    <3>3. QED
      BY <2>1, <3>1, <3>2
  <2>6. op = "settle_manual" => Vouched(ledger[p])
    BY <2>1 DEF Vouched, Vouches
  <2>7. SlotBacked(k, ledger[k.pay])
    BY <2>2, <2>3, <2>5, <2>6 DEF SlotBacked
  <2>8. QED
    BY <1>2, <2>1, <2>7, QuietBooks DEF BeginManual, Slots, rowVars, k
<1>3. ASSUME NEW w \in Workers, NEW p \in Payments, BeginSweep(w, p)
      PROVE  Books'
  <2> DEFINE k == [Idle EXCEPT !.op = "sweep", !.pay = p, !.snap = payment[p], !.pc = "expire"]
  <2>1. k.pay = p /\ k.pc = "expire" /\ k.last = "CREATED" /\ k.op = "sweep"
    BY DEF Idle
  <2>2. call' = [call EXCEPT ![w] = k]
    BY <1>3 DEF BeginSweep
  <2> HIDE DEF k
  <2>3. SlotBacked(k, ledger[k.pay])
    BY <2>1 DEF SlotBacked, ManualOperations
  <2>4. QED
    BY <1>3, <2>2, <2>3, QuietBooks DEF BeginSweep, Slots, rowVars
<1>4. ASSUME NEW w \in Workers, NEW p \in Payments, BeginPoll(w, p)
      PROVE  Books'
  <2> DEFINE k == [Idle EXCEPT !.op = "poll"]
  <2>1. k \in Work /\ SlotBacked([k EXCEPT !.pc = "got"], ledger[p])
    BY IdleTyped DEF Work, Idle, SlotBacked, ManualOperations
  <2>2. call' = [call EXCEPT ![w] = Holding(k, p)]
    BY <1>4 DEF BeginPoll
  <2> HIDE DEF k
  <2>3. SlotBacked(Holding(k, p), ledger[Holding(k, p).pay])
    BY <2>1, HoldingBacked
  <2>4. QED
    BY <1>4, <2>2, <2>3, QuietBooks DEF BeginPoll, Slots, rowVars
<1>5. ASSUME NEW c \in Slots, Abandon(c)
      PROVE  Books'
  BY <1>5, ReturnBooks DEF Abandon, rowVars
<1>6. ASSUME UNCHANGED <<payment, railVars, call>>
      PROVE  Books'
  BY <1>6 DEF railVars, BooksInv, Books, Pay
<1>7. ASSUME NEW p \in Payments, ClockPasses(p)
      PROVE  UNCHANGED <<payment, railVars, call>>
  BY <1>7 DEF ClockPasses, rowVars
<1>8. CASE UNCHANGED vars
  BY <1>6, <1>8 DEF vars, railVars
<1>9. QED
  BY <1>1, <1>2, <1>3, <1>4, <1>5, <1>6, <1>7, <1>8, StepBooks DEF Next

LEMMA BooksInit == Init => BooksInv
<1> SUFFICES ASSUME Init PROVE BooksInv
  OBVIOUS
<1>1. \A p \in Payments : /\ StoreFits(ledger[p], asked[p])
                          /\ \A a \in attempts[p] : ClaimFits(a, ledger[p])
                          /\ payment[p].status \notin Paid
  BY DEF Init, StoreFits, Paid
<1>2. \A c \in Slots : call[c] = Idle
  BY DEF Init
<1>3. QED
  BY <1>1, <1>2, IdleBacked, RailInit DEF BooksInv, Books

LEMMA BooksNext ==
  ASSUME BooksInv, [Next]_vars
  PROVE  BooksInv'
BY NextBooks, RailStep DEF BooksInv

\* Our attempt table never claims more than the rails hold, although rows are
\* written after the connector answered and the rails change meanwhile.
THEOREM AttemptsAlwaysMatch == Spec => []AttemptsMatchLedger
<1>1. BooksInv /\ [Next]_vars => BooksInv'
  BY BooksNext
<1>2. BooksInv => AttemptsMatchLedger
  BY DEF BooksInv, Books, AttemptsMatchLedger, ClaimFits
<1>3. QED
  BY <1>1, <1>2, BooksInit, PTL DEF Spec

\* Whoever settles a payment, late answers and retries included, some rail
\* vouches for the money, and goes on doing so.
THEOREM SettledIsAlwaysBacked == Spec => []SettledIsBacked
<1>1. BooksInv /\ [Next]_vars => BooksInv'
  BY BooksNext
<1>2. BooksInv => SettledIsBacked
  BY DEF BooksInv, Books, SettledIsBacked, Vouched, Paid
<1>3. QED
  BY <1>1, <1>2, BooksInit, PTL DEF Spec

=============================================================================
