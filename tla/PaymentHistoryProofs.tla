------------------------ MODULE PaymentHistoryProofs ------------------------
(***************************************************************************)
(* The audit trail and the outbox of a payment are one faithful history,   *)
(* although every audit row is built from a copy of the payment read       *)
(* before other handlers ran; and whoever decides a payment, merchants     *)
(* hear of the decision once.                                              *)
(***************************************************************************)
EXTENDS PaymentRailProofs

-----------------------------------------------------------------------------
(* What a step may do to the rows and to the copies slots hold             *)

\* The rows stay, or one slot commits one accepted transition.
RowEffect ==
  \/ UNCHANGED rowVars
  \/ \E c \in Slots, next \in PaymentStatuses, event \in EventTypes :
       ~At(c, "idle") /\ Accepted(c, next) /\ Commit(c, next, event)

\* A slot ends, keeps its copy, holds the row as it now is, or has none yet.
CopyEffect(d) ==
  \/ call'[d].pc = "idle"
  \/ /\ call[d].pc # "idle"
     /\ call'[d].pay = call[d].pay /\ call'[d].snap = call[d].snap
  \/ call'[d].snap = payment'[call'[d].pay]
  \/ call'[d].snap = Idle.snap

\* A slot goes on with the copy it had, and the others with all they had.
KeepsCopy(c) ==
  /\ call'[c].pay = call[c].pay /\ call'[c].snap = call[c].snap
  /\ \A d \in Slots \ {c} : call'[d] = call[d]

\* A slot that is not the actor of a step keeps all it has.
LEMMA CopyFrame ==
  ASSUME TypeOK, NEW c \in Slots, NEW k, call' = [call EXCEPT ![c] = k],
         \/ k.pc = "idle"
         \/ call[c].pc # "idle" /\ k.pay = call[c].pay /\ k.snap = call[c].snap
         \/ k.snap = payment'[k.pay]
         \/ k.snap = Idle.snap
  PROVE  \A d \in Slots : CopyEffect(d)
<1>1. call \in [Slots -> Work]
  BY DEF TypeOK
<1>2. TAKE d \in Slots
<1>3. CASE d = c
  BY <1>1, <1>3 DEF CopyEffect
<1>4. CASE d # c
  <2>1. call'[d] = call[d]
    BY <1>1, <1>4
  <2>2. QED
    BY <2>1 DEF CopyEffect
<1>5. QED
  BY <1>3, <1>4

LEMMA ReturnCopies ==
  ASSUME TypeOK, NEW c \in Slots, Return(c)
  PROVE  \A d \in Slots : CopyEffect(d)
BY CopyFrame DEF Return, Idle

\* Reading a row: the copy is the row, unless there is nothing to do.
LEMMA HoldingCopies ==
  ASSUME TypeOK, NEW c \in Slots, NEW k \in Work, NEW p \in Payments,
         call' = [call EXCEPT ![c] = Holding(k, p)], UNCHANGED payment
  PROVE  \A d \in Slots : CopyEffect(d)
<1>1. \/ Holding(k, p).pc = "idle"
      \/ Holding(k, p).snap = payment[p] /\ Holding(k, p).pay = p
  BY DEF Holding, Idle, Work
<1>2. QED
  BY <1>1, CopyFrame

LEMMA ApplyEffects ==
  ASSUME TypeOK, NEW c \in Slots, ~At(c, "idle"),
         NEW next \in PaymentStatuses, NEW event \in EventTypes,
         ApplyAndReturn(c, next, event)
  PROVE  RowEffect /\ \A d \in Slots : CopyEffect(d)
BY ReturnCopies DEF ApplyAndReturn, RowEffect

LEMMA StepEffects ==
  ASSUME TypeOK, NEW c \in Slots, Step(c)
  PROVE  RowEffect /\ \A d \in Slots : CopyEffect(d)
<1> DEFINE k == call[c]
           p == Pay(c)
<1>1. k \in Work /\ WellFormed(k) /\ call \in [Slots -> Work]
  BY DEF TypeOK
<1>2. ~At(c, "idle") => p \in Payments
  BY <1>1 DEF At, Pay, WellFormed
<1>3. {"PROCESSING", "SETTLED", "FAILED", "CANCELLED", "EXPIRED", "REFUNDED"}
        \subseteq PaymentStatuses
  BY DEF PaymentStatuses
<1>4. ASSUME NEW next \in PaymentStatuses, NEW event \in EventTypes, p \in Payments,
             Commit(c, next, event)
      PROVE  payment'[p] = Applied(c, next)
  BY <1>4 DEF Commit, TypeOK
<1>5. CASE ResolvePut(c)
  BY <1>1, <1>5, CopyFrame DEF ResolvePut, RowEffect, At, Work
<1>6. CASE Load(c)
  BY <1>1, <1>2, <1>6, HoldingCopies DEF Load, RowEffect, At, rowVars
<1>7. CASE ApplyExpiry(c)
  <2> DEFINE held == [k EXCEPT !.pc = "got", !.snap = Applied(c, "EXPIRED")]
  <2>1. p \in Payments /\ ~At(c, "idle")
    BY <1>2, <1>7 DEF ApplyExpiry, At
  <2>2. CASE Return(c) /\ UNCHANGED rowVars
    BY <2>2, ReturnCopies DEF RowEffect
  <2>3. CASE Accepted(c, "EXPIRED") /\ Commit(c, "EXPIRED", "payment.expired")
    <3>1. RowEffect
      BY <1>3, <2>1, <2>3, EventTyped DEF RowEffect
    <3>2. held.snap = payment'[held.pay]
      BY <1>1, <1>3, <1>4, <2>1, <2>3, EventTyped DEF Work, Pay
    <3>3. \/ Return(c)
          \/ call' = [call EXCEPT ![c] = held]
      BY <1>7 DEF ApplyExpiry, Return
    <3>4. QED
      BY <3>1, <3>2, <3>3, ReturnCopies, CopyFrame
  <2>4. QED
    BY <1>7, <2>2, <2>3 DEF ApplyExpiry
<1>8. CASE Reject(c) \/ Cancel(c) \/ Refund(c) \/ ResolveApply(c)
  <2>1. /\ ~At(c, "idle")
        /\ \/ ApplyAndReturn(c, "FAILED", "payment.failed")
           \/ ApplyAndReturn(c, "CANCELLED", "payment.cancelled")
           \/ ApplyAndReturn(c, "REFUNDED", "payment.refunded")
           \/ ApplyAndReturn(c, "SETTLED", "payment.settled")
    BY <1>8 DEF Reject, Cancel, Refund, ResolveApply, At
  <2>2. QED
    BY <1>3, <2>1, EventTyped, ApplyEffects
<1>9. CASE StartProcessing(c)
  <2> DEFINE held == [k EXCEPT !.pc = "route", !.snap = Applied(c, "PROCESSING")]
  <2>1. p \in Payments /\ ~At(c, "idle")
    BY <1>2, <1>9 DEF StartProcessing, At
  <2>2. CASE Return(c) /\ UNCHANGED rowVars
    BY <2>2, ReturnCopies DEF RowEffect
  <2>3. CASE /\ Accepted(c, "PROCESSING") /\ Commit(c, "PROCESSING", "payment.processing")
             /\ call' = [call EXCEPT ![c] = held]
    <3>1. RowEffect
      BY <1>3, <2>1, <2>3, EventTyped DEF RowEffect
    <3>2. held.snap = payment'[held.pay]
      BY <1>1, <1>3, <1>4, <2>1, <2>3, EventTyped DEF Work, Pay
    <3>3. QED
      BY <2>3, <3>1, <3>2, CopyFrame
  <2>4. QED
    BY <1>9, <2>2, <2>3 DEF StartProcessing
<1>10. CASE Route(c) \/ PickAttempt(c) \/ SkipUnregistered(c) \/ AskConnector(c)
             \/ RecordAttempt(c) \/ Fetch(c)
  <2>1. RowEffect /\ ~At(c, "idle")
    BY <1>10 DEF Route, PickAttempt, SkipUnregistered, AskConnector, RecordAttempt, Fetch,
                 RowEffect, At
  <2>2. Return(c) \/ KeepsCopy(c)
    <3>1. CASE Route(c)
      <4>1. \/ Return(c)
            \/ \E r : call' = [call EXCEPT ![c] = [k EXCEPT !.pc = "attempt", !.keys = r,
                                                        !.last = "PROCESSING"]]
        BY <3>1 DEF Route
      <4>2. QED
        BY <1>1, <4>1 DEF KeepsCopy, Work
    <3>2. CASE PickAttempt(c)
      <4>1. \/ Return(c)
            \/ \E a : call' = [call EXCEPT ![c] = [k EXCEPT !.pc = "fetch", !.row = a]]
        BY <3>2 DEF PickAttempt
      <4>2. QED
        BY <1>1, <4>1 DEF KeepsCopy, Work
    <3>3. CASE SkipUnregistered(c) \/ RecordAttempt(c)
      <4>1. CASE Return(c)
        BY <4>1
      <4>2. ASSUME NEW s, NEW code,
                   call' = [call EXCEPT ![c] = AfterAttempt([k EXCEPT !.last = s], code)]
            PROVE  KeepsCopy(c)
        <5> DEFINE new == AfterAttempt([k EXCEPT !.last = s], code)
        <5>1. new.pay = k.pay /\ new.snap = k.snap
          BY <1>1 DEF Work, AfterAttempt
        <5>2. QED
          BY <1>1, <4>2, <5>1 DEF KeepsCopy
      <4>3. QED
        BY <3>3, <4>1, <4>2 DEF SkipUnregistered, RecordAttempt
    <3>4. CASE AskConnector(c)
      <4>1. PICK code, r : call' = [call EXCEPT ![c].pc = "record", ![c].code = code,
                                               ![c].row = r]
        BY <3>4 DEF AskConnector
      <4>2. call' = [call EXCEPT ![c] = [k EXCEPT !.pc = "record", !.code = code, !.row = r]]
        BY <4>1
      <4>3. QED
        BY <1>1, <4>2 DEF KeepsCopy, Work
    <3>5. CASE Fetch(c)
      <4>1. Return(c) \/ \E s : Fetched(c, s)
        BY <3>5 DEF Fetch
      <4>2. ASSUME NEW s, Fetched(c, s)
            PROVE  Return(c) \/ KeepsCopy(c)
        <5>1. \/ Return(c)
              \/ call' = [call EXCEPT ![c] = [k EXCEPT !.pc = "load", !.op = "replayed"]]
              \/ call' = [call EXCEPT ![c] = [k EXCEPT !.pc = "close",
                                                      !.last = IntoPaymentStatus(s)]]
          BY <4>2 DEF Fetched
        <5> DEFINE new1 == [k EXCEPT !.pc = "load", !.op = "replayed"]
                   new2 == [k EXCEPT !.pc = "close", !.last = IntoPaymentStatus(s)]
        <5>2. /\ new1.pay = k.pay /\ new1.snap = k.snap
              /\ new2.pay = k.pay /\ new2.snap = k.snap
          BY <1>1 DEF Work
        <5> HIDE DEF new1, new2
        <5>3. Return(c) \/ call' = [call EXCEPT ![c] = new1] \/ call' = [call EXCEPT ![c] = new2]
          BY <5>1 DEF new1, new2
        <5>4. QED
          BY <1>1, <5>2, <5>3 DEF KeepsCopy
      <4>3. QED
        BY <4>1, <4>2
    <3>6. QED
      BY <1>10, <3>1, <3>2, <3>3, <3>4, <3>5
  <2>3. QED
    BY <2>1, <2>2, ReturnCopies DEF KeepsCopy, CopyEffect, At
<1>11. CASE Finish(c) \/ Close(c)
  <2>1. k.last \in PaymentStatuses /\ ~At(c, "idle")
        /\ ApplyAndReturn(c, k.last, WebhookEvent(k.last))
    BY <1>1, <1>11 DEF Finish, Close, At, Work
  <2>2. QED
    BY <2>1, EventTyped, ApplyEffects
<1>12. QED
  BY <1>5, <1>6, <1>7, <1>8, <1>9, <1>10, <1>11 DEF Step

LEMMA NextEffects ==
  ASSUME TypeOK, [Next]_vars
  PROVE  RowEffect /\ \A d \in Slots : CopyEffect(d)
<1>1. ASSUME NEW c \in Requests, NEW p \in Payments, NEW op \in Operations, Begin(c, p, op)
      PROVE  RowEffect /\ \A d \in Slots : CopyEffect(d)
  <2>1. [Idle EXCEPT !.op = op] \in Work
    BY IdleTyped, ClientAssumption DEF Work
  <2>2. QED
    BY <1>1, <2>1, HoldingCopies DEF Begin, RowEffect, Slots, rowVars
<1>2. ASSUME NEW c \in Requests, NEW p \in Payments, NEW op \in Operations,
             BeginManual(c, p, op)
      PROVE  RowEffect /\ \A d \in Slots : CopyEffect(d)
  <2>1. PICK a, pc : call' = [call EXCEPT ![c] =
                       [Idle EXCEPT !.op = op, !.pay = p, !.row = a, !.pc = pc]]
    BY <1>2 DEF BeginManual
  <2>2. [Idle EXCEPT !.op = op, !.pay = p, !.row = a, !.pc = pc].snap = Idle.snap
    BY DEF Idle
  <2>3. QED
    BY <1>2, <2>1, <2>2, CopyFrame DEF BeginManual, RowEffect, Slots
<1>3. ASSUME NEW w \in Workers, NEW p \in Payments, BeginSweep(w, p)
      PROVE  RowEffect /\ \A d \in Slots : CopyEffect(d)
  <2> DEFINE new == [Idle EXCEPT !.op = "sweep", !.pay = p, !.snap = payment[p], !.pc = "expire"]
  <2>1. new.pay = p /\ new.snap = payment[p]
    BY DEF Idle
  <2>2. call' = [call EXCEPT ![w] = new] /\ UNCHANGED rowVars
    BY <1>3 DEF BeginSweep
  <2>3. QED
    BY <2>1, <2>2, CopyFrame DEF RowEffect, Slots, rowVars
<1>4. ASSUME NEW w \in Workers, NEW p \in Payments, BeginPoll(w, p)
      PROVE  RowEffect /\ \A d \in Slots : CopyEffect(d)
  <2>1. [Idle EXCEPT !.op = "poll"] \in Work
    BY IdleTyped DEF Work
  <2>2. QED
    BY <1>4, <2>1, HoldingCopies DEF BeginPoll, RowEffect, Slots, rowVars
<1>5. ASSUME NEW c \in Slots, Abandon(c)
      PROVE  RowEffect /\ \A d \in Slots : CopyEffect(d)
  BY <1>5, ReturnCopies DEF Abandon, RowEffect
<1>6. ASSUME UNCHANGED <<rowVars, call>>
      PROVE  RowEffect /\ \A d \in Slots : CopyEffect(d)
  BY <1>6 DEF RowEffect, CopyEffect
<1>7. ASSUME NEW p \in Payments, ClockPasses(p)
      PROVE  UNCHANGED <<rowVars, call>>
  BY <1>7 DEF ClockPasses
<1>8. CASE UNCHANGED vars
  BY <1>6, <1>8 DEF vars, rowVars
<1>9. QED
  BY <1>1, <1>2, <1>3, <1>4, <1>5, <1>6, <1>7, <1>8, StepEffects DEF Next

-----------------------------------------------------------------------------
(* The inductive invariant: one history per payment, and copies that agree *)
(* with the row whose version they carry.                                  *)

HistoryInv ==
  /\ TypeOK
  /\ FaithfulHistory
  /\ SnapshotsAgree
  /\ \A p \in Payments : payment[p].version >= 1

\* The conjuncts of FaithfulHistory for one payment, n being its version.
OneHistory(n, row, trail, events) ==
  /\ Len(trail) = n /\ Len(events) = n
  /\ \A i \in 1..n - 1 : trail[i + 1].from = trail[i].to
  /\ \A i \in 1..n : events[i].status = trail[i].to
  /\ events[n].status = row.status

\* One more entry that starts at the row's status continues the history.
LEMMA HistoryGrows ==
  ASSUME NEW n \in Nat \ {0}, NEW row, NEW T, NEW E,
         NEW trail \in Seq(T), NEW events \in Seq(E),
         OneHistory(n, row, trail, events),
         NEW e \in T, NEW o \in E, e.from = row.status, o.status = e.to
  PROVE  OneHistory(n + 1, [status |-> e.to, version |-> n + 1],
                    Append(trail, e), Append(events, o))
<1> DEFINE trail2  == Append(trail, e)
           events2 == Append(events, o)
<1>1. /\ Len(trail2) = n + 1 /\ Len(events2) = n + 1
      /\ trail2[n + 1] = e /\ events2[n + 1] = o
      /\ \A i \in 1..n : trail2[i] = trail[i] /\ events2[i] = events[i]
  BY AppendProperties DEF OneHistory
<1> HIDE DEF trail2, events2
<1>2. ASSUME NEW i \in 1..n PROVE trail2[i + 1].from = trail2[i].to
  <2>1. CASE i = n
    <3>1. trail2[i].to = row.status
      BY <1>1, <2>1 DEF OneHistory
    <3>2. QED
      BY <1>1, <2>1, <3>1
  <2>2. CASE i # n
    <3>1. i \in 1..n - 1 /\ i + 1 \in 1..n
      BY <2>2
    <3>2. QED
      BY <1>1, <3>1 DEF OneHistory
  <2>3. QED
    BY <2>1, <2>2
<1>3. ASSUME NEW i \in 1..n + 1 PROVE events2[i].status = trail2[i].to
  <2>1. CASE i = n + 1
    BY <1>1, <2>1
  <2>2. CASE i # n + 1
    BY <1>1, <2>2 DEF OneHistory
  <2>3. QED
    BY <2>1, <2>2
<1>4. QED
  BY <1>1, <1>2, <1>3 DEF OneHistory, trail2, events2

LEMMA HistoryStep ==
  ASSUME HistoryInv, [Next]_vars
  PROVE  HistoryInv'
<1>1. TypeOK' /\ RowEffect /\ \A d \in Slots : CopyEffect(d)
  BY NextTyped, NextEffects DEF HistoryInv
<1>2. \A p \in Payments :
        /\ payment[p] \in Row /\ payment[p].version \in Nat \ {0}
        /\ audit[p] \in Seq([from: PaymentStatuses, to: PaymentStatuses])
        /\ outbox[p] \in Seq([type: EventTypes, status: PaymentStatuses])
        /\ OneHistory(payment[p].version, payment[p], audit[p], outbox[p])
  <2> SUFFICES ASSUME NEW p \in Payments
               PROVE  /\ payment[p] \in Row /\ payment[p].version \in Nat \ {0}
                      /\ audit[p] \in Seq([from: PaymentStatuses, to: PaymentStatuses])
                      /\ outbox[p] \in Seq([type: EventTypes, status: PaymentStatuses])
                      /\ OneHistory(payment[p].version, payment[p], audit[p], outbox[p])
    OBVIOUS
  <2>1. payment[p] \in Row /\ payment[p].version >= 1
    BY DEF HistoryInv, TypeOK
  <2>2. payment[p].version \in Nat \ {0}
    BY <2>1 DEF Row
  <2>3. /\ audit[p] \in Seq([from: PaymentStatuses, to: PaymentStatuses])
        /\ outbox[p] \in Seq([type: EventTypes, status: PaymentStatuses])
    BY DEF HistoryInv, TypeOK
  <2>4. OneHistory(payment[p].version, payment[p], audit[p], outbox[p])
    BY DEF HistoryInv, FaithfulHistory, OneHistory
  <2>5. QED
    BY <2>1, <2>2, <2>3, <2>4
<1>3. ASSUME NEW p \in Payments
      PROVE  /\ OneHistory(payment'[p].version, payment'[p], audit'[p], outbox'[p])
             /\ payment'[p].version >= 1
             /\ \/ payment'[p] = payment[p]
                \/ payment'[p].version = payment[p].version + 1
  <2>1. CASE UNCHANGED rowVars
    BY <1>2, <2>1 DEF rowVars
  <2>2. ASSUME NEW c \in Slots, NEW next \in PaymentStatuses, NEW event \in EventTypes,
               ~At(c, "idle"), Accepted(c, next), Commit(c, next, event), p = Pay(c)
        PROVE  /\ OneHistory(payment'[p].version, payment'[p], audit'[p], outbox'[p])
               /\ payment'[p].version = payment[p].version + 1
    <3> DEFINE n == payment[p].version
               e == [from |-> Snap(c).status, to |-> next]
               o == [type |-> event, status |-> next]
    <3>1. Snap(c) = payment[p]
      BY <2>2 DEF HistoryInv, SnapshotsAgree, Accepted
    <3>2. /\ payment'[p] = [status |-> next, version |-> n + 1]
          /\ audit'[p] = Append(audit[p], e) /\ outbox'[p] = Append(outbox[p], o)
      BY <2>2 DEF Commit, Applied, HistoryInv, TypeOK
    <3>3. /\ e \in [from: PaymentStatuses, to: PaymentStatuses]
          /\ o \in [type: EventTypes, status: PaymentStatuses]
          /\ e.from = payment[p].status /\ o.status = e.to /\ e.to = next
      BY <1>2, <3>1 DEF Row
    <3> HIDE DEF e, o
    <3>4. OneHistory(n + 1, [status |-> e.to, version |-> n + 1],
                     Append(audit[p], e), Append(outbox[p], o))
      BY <1>2, <3>3, HistoryGrows
    <3>5. QED
      BY <3>2, <3>3, <3>4
  <2>3. ASSUME NEW c \in Slots, NEW next \in PaymentStatuses, NEW event \in EventTypes,
               Commit(c, next, event), p # Pay(c)
        PROVE  payment'[p] = payment[p] /\ audit'[p] = audit[p] /\ outbox'[p] = outbox[p]
    BY <2>3 DEF Commit, HistoryInv, TypeOK
  <2>4. QED
    BY <1>1, <1>2, <2>1, <2>2, <2>3 DEF RowEffect
<1>4. FaithfulHistory'
  BY <1>3 DEF FaithfulHistory, OneHistory
<1>5. SnapshotsAgree'
  <2> SUFFICES ASSUME NEW d \in Slots, call'[d].pc # "idle"
               PROVE  /\ call'[d].snap.version <= payment'[call'[d].pay].version
                      /\ call'[d].snap.version = payment'[call'[d].pay].version
                           => call'[d].snap = payment'[call'[d].pay]
    BY DEF SnapshotsAgree, At, Snap, Pay
  <2>1. /\ call'[d].pay \in Payments
        /\ payment'[call'[d].pay] \in Row
        /\ call'[d].snap \in Row
    BY <1>1 DEF TypeOK, WellFormed, Work
  <2>2. CASE call[d].pc # "idle" /\ call'[d].pay = call[d].pay /\ call'[d].snap = call[d].snap
    <3>1. /\ call[d].snap.version <= payment[call[d].pay].version
          /\ call[d].snap.version = payment[call[d].pay].version
               => call[d].snap = payment[call[d].pay]
      BY <2>2 DEF HistoryInv, SnapshotsAgree, At, Snap, Pay
    <3>2. call[d].snap \in Row /\ payment[call[d].pay] \in Row
      BY <1>2, <2>1, <2>2
    <3>3. QED
      BY <1>3, <2>1, <2>2, <3>1, <3>2 DEF Row
  <2>3. CASE call'[d].snap = payment'[call'[d].pay]
    BY <2>1, <2>3 DEF Row
  <2>4. CASE call'[d].snap = Idle.snap
    <3>1. call'[d].snap.version = 0
      BY <2>4 DEF Idle
    <3>2. QED
      BY <1>3, <2>1, <3>1 DEF Row
  <2>5. QED
    BY <1>1, <2>2, <2>3, <2>4 DEF CopyEffect
<1>6. QED
  BY <1>1, <1>3, <1>4, <1>5 DEF HistoryInv

LEMMA HistoryInit == Init => HistoryInv
<1> SUFFICES ASSUME Init PROVE HistoryInv
  OBVIOUS
<1>1. SnapshotsAgree
  BY DEF Init, SnapshotsAgree, At, Idle
<1>2. FaithfulHistory
  BY DEF Init, FaithfulHistory
<1>3. QED
  BY <1>1, <1>2, InitTyped DEF Init, HistoryInv

\* The audit trail and the outbox of every payment are one faithful history,
\* whatever handlers, sweeps and crashes interleave.
THEOREM HistoryIsFaithful == Spec => []FaithfulHistory
<1>1. HistoryInv /\ [Next]_vars => HistoryInv'
  BY HistoryStep
<1>2. HistoryInv => FaithfulHistory
  BY DEF HistoryInv
<1>3. QED
  BY <1>1, <1>2, HistoryInit, PTL DEF Spec

\* What the version check of apply_status relies on.
THEOREM SnapshotsAlwaysAgree == Spec => []SnapshotsAgree
<1>1. HistoryInv /\ [Next]_vars => HistoryInv'
  BY HistoryStep
<1>2. HistoryInv => SnapshotsAgree
  BY DEF HistoryInv
<1>3. QED
  BY <1>1, <1>2, HistoryInit, PTL DEF Spec

-----------------------------------------------------------------------------
(* Who decides a payment: what a slot may be doing where it stands, and    *)
(* what it then writes.                                                    *)

\* Where a slot stands goes with its operation and the status it has read.
RoleFits(k) ==
  /\ k.pc \in {"route", "attempt", "record", "finish"} =>
       k.op = "approve" /\ k.snap.status = "PROCESSING"
  /\ k.pc = "fetch" =>
       /\ k.op \in {"reconcile", "poll", "replay"}
       /\ k.op = "replay" \/ k.snap.status = "PROCESSING"
  /\ k.pc = "close" => k.op \in {"reconcile", "poll"} /\ k.snap.status = "PROCESSING"
  /\ k.pc = "got" => WorkLeft(k.op, k.snap.status)

RolesFit == \A c \in Slots : RoleFits(call[c])

\* Only an administrator decides what is decided, a replay decides nothing.
Writes(k, next) ==
  /\ next \in {"SETTLED", "FAILED"} =>
       k.op \in ManualOperations \/ k.snap.status \notin {"SETTLED", "FAILED"}
  /\ k.op \in {"replay", "replayed"} => next = "EXPIRED"

Moves(c, pc) ==
  \E next \in PaymentStatuses, event \in EventTypes :
    /\ Accepted(c, next) /\ Commit(c, next, event) /\ Writes(call[c], next)
    /\ pc # call[c].pc /\ call[c].pc # "idle"

\* A step of one slot: the others keep what they have.
OwnStep(c) ==
  \E k : /\ call' = [call EXCEPT ![c] = k] /\ RoleFits(k)
         /\ UNCHANGED rowVars \/ Moves(c, k.pc)

LEMMA IdleRole == RoleFits(Idle)
BY DEF RoleFits, Idle

LEMMA HoldingRole ==
  ASSUME NEW k \in Work, NEW p \in Payments
  PROVE  RoleFits(Holding(k, p))
<1> DEFINE held == [k EXCEPT !.pay = p, !.snap = payment[p]]
           expire == [held EXCEPT !.pc = "expire"]
           got    == [held EXCEPT !.pc = "got"]
<1>1. \/ Holding(k, p) = expire
      \/ Holding(k, p) = got /\ WorkLeft(k.op, payment[p].status)
      \/ Holding(k, p) = Idle
  BY Zenon DEF Holding
<1>2. expire.pc = "expire" /\ got.pc = "got" /\ got.op = k.op /\ got.snap = payment[p]
  BY DEF Work
<1> HIDE DEF held, expire, got
<1>3. QED
  BY <1>1, <1>2, IdleRole DEF RoleFits

LEMMA ReturnOwn ==
  ASSUME NEW c \in Slots, Return(c), UNCHANGED rowVars
  PROVE  OwnStep(c)
BY IdleRole DEF OwnStep, Return

LEMMA ApplyOwn ==
  ASSUME NEW c \in Slots, NEW next \in PaymentStatuses, NEW event \in EventTypes,
         ApplyAndReturn(c, next, event), Writes(call[c], next), call[c].pc # "idle"
  PROVE  OwnStep(c)
<1>1. CASE Accepted(c, next) /\ Commit(c, next, event)
  <2>1. Moves(c, Idle.pc)
    BY <1>1 DEF Moves, Idle
  <2>2. QED
    BY <2>1, IdleRole DEF OwnStep, ApplyAndReturn, Return
<1>2. CASE UNCHANGED rowVars
  BY <1>2, ReturnOwn DEF ApplyAndReturn
<1>3. QED
  BY <1>1, <1>2 DEF ApplyAndReturn

LEMMA StepOwn ==
  ASSUME TypeOK, RolesFit, NEW c \in Slots, Step(c)
  PROVE  OwnStep(c)
<1> DEFINE k == call[c]
           p == Pay(c)
<1>1. k \in Work /\ WellFormed(k) /\ call \in [Slots -> Work] /\ RoleFits(k)
  BY DEF TypeOK, RolesFit
<1>2. {"PROCESSING", "SETTLED", "FAILED", "CANCELLED", "EXPIRED", "REFUNDED"}
        \subseteq PaymentStatuses
  BY DEF PaymentStatuses
<1>3. CASE ResolvePut(c)
  <2> DEFINE new == [k EXCEPT !.pc = "load"]
  <2>1. new.pc = "load"
    BY <1>1 DEF Work
  <2>2. call' = [call EXCEPT ![c] = new] /\ UNCHANGED rowVars
    BY <1>3 DEF ResolvePut
  <2> HIDE DEF new
  <2>3. QED
    BY <2>1, <2>2 DEF OwnStep, RoleFits
<1>4. CASE Load(c)
  <2>1. p \in Payments
    BY <1>1, <1>4 DEF Load, At, Pay, WellFormed
  <2>2. QED
    BY <1>1, <1>4, <2>1, HoldingRole DEF Load, OwnStep
<1>5. CASE ApplyExpiry(c)
  <2> DEFINE held == [k EXCEPT !.pc = "got", !.snap = Applied(c, "EXPIRED")]
  <2>1. CASE Return(c) /\ UNCHANGED rowVars
    BY <2>1, ReturnOwn
  <2>2. CASE Accepted(c, "EXPIRED") /\ Commit(c, "EXPIRED", "payment.expired")
    <3>1. held.pc = "got" /\ held.op = k.op /\ held.snap.status = "EXPIRED"
      BY <1>1 DEF Work, Applied
    <3>2. \/ call' = [call EXCEPT ![c] = held] /\ WorkLeft(k.op, "EXPIRED")
          \/ call' = [call EXCEPT ![c] = Idle]
      BY <1>5, <2>2, Zenon DEF ApplyExpiry, Return
    <3> HIDE DEF held
    <3>3. Writes(k, "EXPIRED")
      BY DEF Writes
    <3>4. Moves(c, "got") /\ Moves(c, "idle")
      BY <1>2, <1>5, <2>2, <3>3, EventTyped DEF Moves, ApplyExpiry, At
    <3>5. RoleFits(held) \/ call' = [call EXCEPT ![c] = Idle]
      BY <3>1, <3>2 DEF RoleFits
    <3>6. Idle.pc = "idle"
      BY DEF Idle
    <3>7. QED
      BY <3>1, <3>2, <3>4, <3>5, <3>6, IdleRole DEF OwnStep
  <2>3. QED
    BY <1>5, <2>1, <2>2 DEF ApplyExpiry
<1>6. CASE Reject(c)
  <2>1. k.pc = "got" /\ k.op = "reject" /\ ApplyAndReturn(c, "FAILED", "payment.failed")
    BY <1>6 DEF Reject, At
  <2>2. WorkLeft("reject", k.snap.status)
    BY <1>1, <2>1 DEF RoleFits
  <2>3. Writes(k, "FAILED")
    BY <2>1, <2>2 DEF Writes, WorkLeft
  <2>4. QED
    BY <1>2, <2>1, <2>3, EventTyped, ApplyOwn
<1>7. CASE Cancel(c) \/ Refund(c) \/ ResolveApply(c)
  <2>1. /\ k.pc = "got"
        /\ \/ k.op = "cancel" /\ ApplyAndReturn(c, "CANCELLED", "payment.cancelled")
           \/ k.op = "refund" /\ ApplyAndReturn(c, "REFUNDED", "payment.refunded")
           \/ k.op = "settle_manual" /\ ApplyAndReturn(c, "SETTLED", "payment.settled")
           \/ k.op = "fail_manual" /\ ApplyAndReturn(c, "FAILED", "payment.failed")
    BY <1>7 DEF Cancel, Refund, ResolveApply, At
  <2>2. /\ k.op = "cancel" => Writes(k, "CANCELLED")
        /\ k.op = "refund" => Writes(k, "REFUNDED")
        /\ k.op = "settle_manual" => Writes(k, "SETTLED")
        /\ k.op = "fail_manual" => Writes(k, "FAILED")
    BY DEF Writes, ManualOperations
  <2>3. QED
    BY <1>2, <2>1, <2>2, EventTyped, ApplyOwn
<1>8. CASE StartProcessing(c)
  <2> DEFINE held == [k EXCEPT !.pc = "route", !.snap = Applied(c, "PROCESSING")]
  <2>1. CASE Return(c) /\ UNCHANGED rowVars
    BY <2>1, ReturnOwn
  <2>2. CASE /\ Accepted(c, "PROCESSING") /\ Commit(c, "PROCESSING", "payment.processing")
             /\ call' = [call EXCEPT ![c] = held]
    <3>1. held.pc = "route" /\ held.op = k.op /\ held.snap.status = "PROCESSING"
      BY <1>1 DEF Work, Applied
    <3> HIDE DEF held
    <3>2. k.op = "approve" /\ k.pc = "got"
      BY <1>8 DEF StartProcessing, At
    <3>3. Writes(k, "PROCESSING")
      BY <3>2 DEF Writes
    <3>4. Moves(c, held.pc)
      BY <1>2, <2>2, <3>1, <3>2, <3>3, EventTyped DEF Moves
    <3>5. RoleFits(held)
      BY <3>1, <3>2 DEF RoleFits
    <3>6. QED
      BY <2>2, <3>4, <3>5 DEF OwnStep
  <2>3. QED
    BY <1>8, <2>1, <2>2 DEF StartProcessing
<1>9. CASE Route(c)
  <2>1. /\ k.op = "approve" /\ k.snap.status = "PROCESSING"
        /\ UNCHANGED rowVars
    BY <1>1, <1>9 DEF Route, At, Snap, RoleFits
  <2>2. ASSUME NEW r, call' = [call EXCEPT ![c].pc = "attempt", ![c].keys = r,
                                         ![c].last = "PROCESSING"]
        PROVE  OwnStep(c)
    <3> DEFINE held == [k EXCEPT !.pc = "attempt", !.keys = r, !.last = "PROCESSING"]
    <3>1. held.pc = "attempt" /\ held.op = k.op /\ held.snap = k.snap
      BY <1>1 DEF Work
    <3>2. call' = [call EXCEPT ![c] = held]
      BY <2>2
    <3> HIDE DEF held
    <3>3. RoleFits(held)
      BY <2>1, <3>1 DEF RoleFits
    <3>4. QED
      BY <2>1, <3>2, <3>3 DEF OwnStep
  <2>3. QED
    BY <1>9, <2>1, <2>2, ReturnOwn DEF Route
<1>10. CASE SkipUnregistered(c) \/ RecordAttempt(c)
  <2>1. /\ k.op = "approve" /\ k.snap.status = "PROCESSING"
        /\ UNCHANGED rowVars
    BY <1>1, <1>10 DEF SkipUnregistered, RecordAttempt, At, RoleFits
  <2>2. ASSUME NEW s \in PaymentStatuses, NEW code,
               call' = [call EXCEPT ![c] = AfterAttempt([k EXCEPT !.last = s], code)]
        PROVE  OwnStep(c)
    <3> DEFINE done == [k EXCEPT !.last = s]
               new  == AfterAttempt(done, code)
    <3>1. done \in Work /\ done.op = k.op /\ done.snap = k.snap
      BY <1>1 DEF Work
    <3>2. new.op = k.op /\ new.snap = k.snap /\ new.pc \in {"attempt", "finish"}
      BY <3>1, AfterAttemptFields
    <3> HIDE DEF new
    <3>3. RoleFits(new)
      BY <2>1, <3>2 DEF RoleFits
    <3>4. QED
      BY <2>1, <2>2, <3>3 DEF OwnStep, new
  <2>3. IntoPaymentStatus(k.row.status) \in PaymentStatuses
    BY <1>1, IntoPaymentStatusTyped DEF Work, Attempt
  <2>4. QED
    BY <1>2, <1>10, <2>1, <2>2, <2>3, ReturnOwn DEF SkipUnregistered, RecordAttempt
<1>11. CASE AskConnector(c)
  <2>1. /\ k.op = "approve" /\ k.snap.status = "PROCESSING"
        /\ UNCHANGED rowVars
    BY <1>1, <1>11 DEF AskConnector, At, RoleFits
  <2>2. PICK code, r : call' = [call EXCEPT ![c].pc = "record", ![c].code = code, ![c].row = r]
    BY <1>11 DEF AskConnector
  <2> DEFINE new == [k EXCEPT !.pc = "record", !.code = code, !.row = r]
  <2>3. new.pc = "record" /\ new.op = k.op /\ new.snap = k.snap
    BY <1>1 DEF Work
  <2>4. call' = [call EXCEPT ![c] = new]
    BY <2>2
  <2> HIDE DEF new
  <2>5. RoleFits(new)
    BY <2>1, <2>3 DEF RoleFits
  <2>6. QED
    BY <2>1, <2>4, <2>5 DEF OwnStep
<1>12. CASE Finish(c) \/ Close(c)
  <2>1. /\ k.pc \in {"finish", "close"} /\ k.last \in PaymentStatuses
        /\ ApplyAndReturn(c, k.last, WebhookEvent(k.last))
    BY <1>1, <1>12 DEF Finish, Close, At, Work
  <2>2. Writes(k, k.last)
    BY <1>1, <2>1 DEF RoleFits, Writes
  <2>3. QED
    BY <2>1, <2>2, EventTyped, ApplyOwn
<1>13. CASE PickAttempt(c)
  <2>1. /\ k.op \in {"reconcile", "poll", "replay"} /\ k.pc = "got"
        /\ UNCHANGED rowVars
    BY <1>13 DEF PickAttempt, At
  <2>2. k.op = "replay" \/ k.snap.status = "PROCESSING"
    <3>1. WorkLeft(k.op, k.snap.status)
      BY <1>1, <2>1 DEF RoleFits
    <3>2. QED
      BY <2>1, <3>1 DEF WorkLeft, ManualOperations
  <2>3. ASSUME NEW a, call' = [call EXCEPT ![c].pc = "fetch", ![c].row = a]
        PROVE  OwnStep(c)
    <3> DEFINE new == [k EXCEPT !.pc = "fetch", !.row = a]
    <3>1. new.pc = "fetch" /\ new.op = k.op /\ new.snap = k.snap
      BY <1>1 DEF Work
    <3>2. call' = [call EXCEPT ![c] = new]
      BY <2>3
    <3> HIDE DEF new
    <3>3. RoleFits(new)
      BY <2>1, <2>2, <3>1 DEF RoleFits
    <3>4. QED
      BY <2>1, <3>2, <3>3 DEF OwnStep
  <2>4. QED
    BY <1>13, <2>1, <2>3, ReturnOwn DEF PickAttempt
<1>14. CASE Fetch(c)
  <2>1. k.pc = "fetch" /\ UNCHANGED rowVars
    BY <1>14 DEF Fetch, At
  <2>2. ASSUME NEW s, Fetched(c, s)
        PROVE  OwnStep(c)
    <3> DEFINE replayed == [k EXCEPT !.pc = "load", !.op = "replayed"]
               closing  == [k EXCEPT !.pc = "close", !.last = IntoPaymentStatus(s)]
    <3>1. /\ replayed.pc = "load"
          /\ closing.pc = "close" /\ closing.op = k.op /\ closing.snap = k.snap
      BY <1>1 DEF Work
    <3>2. \/ call' = [call EXCEPT ![c] = replayed]
          \/ call' = [call EXCEPT ![c] = closing] /\ k.op # "replay"
          \/ Return(c)
      BY <2>2 DEF Fetched
    <3> HIDE DEF replayed, closing
    <3>3. RoleFits(replayed)
      BY <3>1 DEF RoleFits
    <3>4. k.op # "replay" => RoleFits(closing)
      BY <1>1, <2>1, <3>1 DEF RoleFits
    <3>5. QED
      BY <2>1, <3>2, <3>3, <3>4, ReturnOwn DEF OwnStep
  <2>3. QED
    BY <1>14, <2>1, <2>2, ReturnOwn DEF Fetch
<1>15. QED
  BY <1>3, <1>4, <1>5, <1>6, <1>7, <1>8, <1>9, <1>10, <1>11, <1>12, <1>13, <1>14 DEF Step

LEMMA NextOwn ==
  ASSUME TypeOK, RolesFit, [Next]_vars
  PROVE  UNCHANGED <<rowVars, call>> \/ \E c \in Slots : OwnStep(c)
<1>1. ASSUME NEW c \in Requests, NEW p \in Payments, NEW op \in Operations, Begin(c, p, op)
      PROVE  OwnStep(c)
  <2>1. [Idle EXCEPT !.op = op] \in Work
    BY IdleTyped, ClientAssumption DEF Work
  <2>2. QED
    BY <1>1, <2>1, HoldingRole DEF Begin, OwnStep
<1>2. ASSUME NEW c \in Requests, NEW p \in Payments, NEW op \in Operations,
             BeginManual(c, p, op)
      PROVE  OwnStep(c)
  <2>1. PICK a \in attempts[p], pc \in {"load", "put"} : call' = [call EXCEPT ![c] =
                       [Idle EXCEPT !.op = op, !.pay = p, !.row = a, !.pc = pc]]
    BY <1>2 DEF BeginManual
  <2>2. [Idle EXCEPT !.op = op, !.pay = p, !.row = a, !.pc = pc].pc = pc
    BY DEF Idle
  <2>3. QED
    BY <1>2, <2>1, <2>2 DEF BeginManual, OwnStep, RoleFits
<1>3. ASSUME NEW w \in Workers, NEW p \in Payments, BeginSweep(w, p)
      PROVE  OwnStep(w)
  <2> DEFINE new == [Idle EXCEPT !.op = "sweep", !.pay = p, !.snap = payment[p], !.pc = "expire"]
  <2>1. new.pc = "expire"
    BY DEF Idle
  <2>2. call' = [call EXCEPT ![w] = new] /\ UNCHANGED rowVars
    BY <1>3 DEF BeginSweep
  <2> HIDE DEF new
  <2>3. QED
    BY <2>1, <2>2 DEF OwnStep, RoleFits
<1>4. ASSUME NEW w \in Workers, NEW p \in Payments, BeginPoll(w, p)
      PROVE  OwnStep(w)
  <2>1. [Idle EXCEPT !.op = "poll"] \in Work
    BY IdleTyped DEF Work
  <2>2. QED
    BY <1>4, <2>1, HoldingRole DEF BeginPoll, OwnStep
<1>5. ASSUME NEW c \in Slots, Abandon(c)
      PROVE  OwnStep(c)
  BY <1>5, ReturnOwn DEF Abandon
<1>6. ASSUME NEW p \in Payments, ClockPasses(p)
      PROVE  UNCHANGED <<rowVars, call>>
  BY <1>6 DEF ClockPasses
<1>7. CASE UNCHANGED vars
  BY <1>7 DEF vars, rowVars
<1>8. QED
  BY <1>1, <1>2, <1>3, <1>4, <1>5, <1>6, <1>7, StepOwn DEF Next, Slots

\* A decision the merchant was told of is still the payment's.
DecisionsStand ==
  \A p \in Payments : \A i \in DOMAIN outbox[p] :
    /\ outbox[p][i].status = "SETTLED" => payment[p].status \in {"SETTLED", "REFUNDED"}
    /\ outbox[p][i].status = "FAILED" => payment[p].status = "FAILED"

DecisionInv == HistoryInv /\ RailInv /\ RolesFit /\ DecisionsStand

LEMMA RolesStep ==
  ASSUME TypeOK, RolesFit, [Next]_vars
  PROVE  RolesFit'
<1>1. CASE UNCHANGED <<rowVars, call>>
  BY <1>1 DEF RolesFit
<1>2. ASSUME NEW c \in Slots, OwnStep(c)
      PROVE  RolesFit'
  BY <1>2 DEF OwnStep, RolesFit, TypeOK
<1>3. QED
  BY <1>1, <1>2, NextOwn

\* What a commit leaves of one payment's row and events.
LEMMA CommitRow ==
  ASSUME TypeOK, NEW c \in Slots, NEW next, NEW event, Commit(c, next, event),
         NEW p \in Payments
  PROVE  /\ p = Pay(c) => /\ payment'[p].status = next
                          /\ outbox'[p] = Append(outbox[p], [type |-> event, status |-> next])
         /\ p # Pay(c) => payment'[p] = payment[p] /\ outbox'[p] = outbox[p]
BY DEF Commit, Applied, TypeOK

LEMMA DecisionsStep ==
  ASSUME DecisionInv, [Next]_vars
  PROVE  DecisionsStand'
<1>1. TypeOK /\ RolesFit
  BY DEF DecisionInv, HistoryInv
<1>2. CASE UNCHANGED rowVars
  BY <1>2 DEF DecisionInv, DecisionsStand, rowVars
<1>3. ASSUME NEW c \in Slots, NEW next \in PaymentStatuses, NEW event \in EventTypes,
             Accepted(c, next), Commit(c, next, event)
      PROVE  DecisionsStand'
  <2> SUFFICES ASSUME NEW p \in Payments, NEW i \in DOMAIN outbox'[p]
               PROVE  /\ outbox'[p][i].status = "SETTLED" =>
                           payment'[p].status \in {"SETTLED", "REFUNDED"}
                      /\ outbox'[p][i].status = "FAILED" => payment'[p].status = "FAILED"
    BY DEF DecisionsStand
  <2>1. CASE p # Pay(c)
    <3>1. payment'[p] = payment[p] /\ outbox'[p] = outbox[p]
      BY <1>1, <1>3, <2>1, CommitRow
    <3>2. i \in DOMAIN outbox[p]
      BY <3>1
    <3>3. QED
      BY <3>1, <3>2 DEF DecisionInv, DecisionsStand
  <2>2. CASE p = Pay(c)
    <3> DEFINE o == [type |-> event, status |-> next]
    <3>1. payment'[p].status = next /\ outbox'[p] = Append(outbox[p], o)
      BY <1>1, <1>3, <2>2, CommitRow
    <3>2. outbox[p] \in Seq([type: EventTypes, status: PaymentStatuses])
          /\ o \in [type: EventTypes, status: PaymentStatuses] /\ o.status = next
      BY <1>1 DEF TypeOK
    <3> HIDE DEF o
    <3>3. \/ outbox'[p][i] = o
          \/ i \in DOMAIN outbox[p] /\ outbox'[p][i] = outbox[p][i]
      BY <3>1, <3>2, AppendProperties
    <3>4. CASE outbox'[p][i] = o
      BY <3>1, <3>2, <3>4
    <3>5. CASE i \in DOMAIN outbox[p] /\ outbox'[p][i] = outbox[p][i]
      <4>1. /\ outbox[p][i].status = "SETTLED" => payment[p].status \in {"SETTLED", "REFUNDED"}
            /\ outbox[p][i].status = "FAILED" => payment[p].status = "FAILED"
        BY <3>5 DEF DecisionInv, DecisionsStand
      <4>2. TransitionOk(payment[p].status, next) /\ next \in Reached
        <5>1. RailInv'
          BY RailStep DEF DecisionInv
        <5>2. QED
          BY <1>3, <2>2, <3>1, <5>1 DEF Accepted, RailInv, RailsFollowAcceptance, RowFits
      <4>3. QED
        BY <3>1, <3>5, <4>1, <4>2
        DEF TransitionOk, CanTransitionTo, AllowedTargets, Reached, Untouched
    <3>6. QED
      BY <3>3, <3>4, <3>5
  <2>3. QED
    BY <2>1, <2>2
<1>4. QED
  BY <1>1, <1>2, <1>3, NextEffects DEF RowEffect

LEMMA DecisionInit == Init => DecisionInv
<1> SUFFICES ASSUME Init PROVE DecisionInv
  OBVIOUS
<1>1. RolesFit
  BY IdleRole DEF Init, RolesFit
<1>2. DecisionsStand
  BY DEF Init, DecisionsStand
<1>3. QED
  BY <1>1, <1>2, HistoryInit, RailInit DEF DecisionInv

LEMMA DecisionNext ==
  ASSUME DecisionInv, [Next]_vars
  PROVE  DecisionInv'
BY DecisionsStep, HistoryStep, RailStep, RolesStep DEF DecisionInv, HistoryInv

\* Of any number of requests, sweeps and late answers that race to decide a
\* payment, one is heard: only an administrator makes a decision heard again.
THEOREM DecisionsAreToldOnce == Spec => DecidedOnce
<1>1. ASSUME DecisionInv, [Next]_vars, NEW p \in Payments, NEW s \in {"SETTLED", "FAILED"},
             outbox'[p] # outbox[p], outbox'[p][Len(outbox'[p])].status = s,
             NEW i \in DOMAIN outbox[p], outbox[p][i].status = s
      PROVE  \E c \in Slots : /\ Pay(c) = p /\ call'[c] # call[c]
                              /\ call[c].op \in ManualOperations
  <2>1. TypeOK /\ RolesFit
    BY <1>1 DEF DecisionInv, HistoryInv
  <2>2. PICK c \in Slots : OwnStep(c)
    BY <1>1, <2>1, NextOwn DEF rowVars
  <2>3. PICK k : /\ call' = [call EXCEPT ![c] = k]
                 /\ UNCHANGED rowVars \/ Moves(c, k.pc)
    BY <2>2 DEF OwnStep
  <2>4. Moves(c, k.pc)
    BY <1>1, <2>3 DEF rowVars
  <2>5. PICK next \in PaymentStatuses, event \in EventTypes :
          /\ Accepted(c, next) /\ Commit(c, next, event) /\ Writes(call[c], next)
          /\ k.pc # call[c].pc /\ call[c].pc # "idle"
    BY <2>4 DEF Moves
  <2>6. p = Pay(c)
    BY <1>1, <2>1, <2>5, CommitRow
  <2>7. next = s
    <3> DEFINE o == [type |-> event, status |-> next]
    <3>1. /\ outbox[p] \in Seq([type: EventTypes, status: PaymentStatuses])
          /\ o \in [type: EventTypes, status: PaymentStatuses] /\ o.status = next
      BY <2>1 DEF TypeOK
    <3>2. outbox'[p] = Append(outbox[p], o)
      BY <2>1, <2>5, <2>6, CommitRow
    <3> HIDE DEF o
    <3>3. outbox'[p][Len(outbox'[p])] = o
      BY <3>1, <3>2, AppendProperties
    <3>4. QED
      BY <1>1, <3>1, <3>3
  <2>8. payment[p].status = s
    <3>1. /\ s = "SETTLED" => payment[p].status \in {"SETTLED", "REFUNDED"}
          /\ s = "FAILED" => payment[p].status = "FAILED"
      BY <1>1 DEF DecisionInv, DecisionsStand
    <3>2. TransitionOk(payment[p].status, s)
      BY <2>5, <2>6, <2>7 DEF Accepted
    <3>3. QED
      BY <1>1, <3>1, <3>2 DEF TransitionOk, CanTransitionTo, AllowedTargets
  <2>9. Snap(c).status = s
    BY <1>1, <2>5, <2>6, <2>8 DEF Accepted, DecisionInv, HistoryInv, SnapshotsAgree, At
  <2>10. call[c].op \in ManualOperations
    BY <1>1, <2>5, <2>7, <2>9 DEF Writes, Snap
  <2>11. call'[c] # call[c]
    BY <2>1, <2>3, <2>5 DEF TypeOK
  <2>12. QED
    BY <2>6, <2>10, <2>11
<1>2. DecisionInv /\ [Next]_vars => DecisionInv'
  BY DecisionNext
<1>3. DecisionInv /\ [Next]_vars =>
        [\A p \in Payments, s \in {"SETTLED", "FAILED"} :
           /\ outbox'[p] # outbox[p] /\ outbox'[p][Len(outbox'[p])].status = s
           /\ \E i \in DOMAIN outbox[p] : outbox[p][i].status = s
           => \E c \in Slots : /\ Pay(c) = p /\ call'[c] # call[c]
                               /\ call[c].op \in ManualOperations]_vars
  BY <1>1
<1>4. QED
  BY <1>2, <1>3, DecisionInit, PTL DEF Spec, DecidedOnce

\* A replayed callback writes nothing but an expiry that was due anyway.
THEOREM ReplaysDecideNothing == Spec => ReplayDecidesNothing
<1>1. ASSUME TypeOK, RolesFit, [Next]_vars, NEW c \in Slots,
             call[c].op \in {"replay", "replayed"}, call'[c] # call[c], payment' # payment
      PROVE  payment'[Pay(c)].status = "EXPIRED"
  <2>1. PICK d \in Slots : OwnStep(d)
    BY <1>1, NextOwn DEF rowVars
  <2>2. PICK k : /\ call' = [call EXCEPT ![d] = k]
                 /\ UNCHANGED rowVars \/ Moves(d, k.pc)
    BY <2>1 DEF OwnStep
  <2>3. c = d /\ Moves(c, k.pc)
    BY <1>1, <2>2 DEF TypeOK, rowVars
  <2>4. PICK next \in PaymentStatuses, event \in EventTypes :
          Commit(c, next, event) /\ Writes(call[c], next) /\ call[c].pc # "idle"
    BY <2>3 DEF Moves
  <2>5. next = "EXPIRED" /\ Pay(c) \in Payments
    BY <1>1, <2>4 DEF Writes, TypeOK, WellFormed, Pay
  <2>6. QED
    BY <1>1, <2>4, <2>5, CommitRow
<1>2. TypeOK /\ RolesFit /\ [Next]_vars => (TypeOK /\ RolesFit)'
  BY NextTyped, RolesStep
<1>3. Init => TypeOK /\ RolesFit
  BY DecisionInit DEF DecisionInv, HistoryInv
<1>4. TypeOK /\ RolesFit /\ [Next]_vars =>
        [\A c \in Slots :
           /\ call[c].op \in {"replay", "replayed"} /\ call'[c] # call[c]
           /\ payment' # payment
           => payment'[Pay(c)].status = "EXPIRED"]_vars
  BY <1>1
<1>5. QED
  BY <1>2, <1>3, <1>4, PTL DEF Spec, ReplayDecidesNothing

=============================================================================
