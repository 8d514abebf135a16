------------------------ MODULE WebhookDeliveryProofs ------------------------
(***************************************************************************)
(* Proofs about WebhookDelivery, for every set of events and endpoints,    *)
(* any finite number of workers and all limits: what rows say of the       *)
(* traffic, how far fan-out goes, that steady subscribers get every event, *)
(* and, for one worker, bounded tries, that what is over stays over, and   *)
(* DeliveryContract.                                                       *)
(***************************************************************************)
EXTENDS WebhookDelivery, SequenceTheorems, FiniteSetTheorems, TLAPS

Row     == [event: Events, endpoint: Endpoints, status: Statuses, attempts: Nat, due: BOOLEAN]
Traffic == [tries: Nat, accepted: BOOLEAN]

\* The tables and the ticks of TypeOK.
TablesTyped ==
  /\ outbox \subseteq Events /\ published \subseteq Events
  /\ endpoint \in [Endpoints -> [active: BOOLEAN, failures: 0..Threshold, cooled: BOOLEAN]]
  /\ drops \in 0..MaxDrops /\ edits \in 0..MaxEdits
RowsTyped ==
  /\ deliveries \in Seq(Row) /\ traffic \in Seq(Traffic)
  /\ Len(traffic) = Len(deliveries)
TicksTyped == call \in [Workers -> Tick(Len(deliveries))]

LEMMA TypeParts == TypeOK <=> TablesTyped /\ RowsTyped /\ TicksTyped
BY DEF TypeOK, TablesTyped, RowsTyped, TicksTyped, Row, Traffic

LEMMA IdleTyped == ASSUME NEW n \in Nat PROVE Idle \in Tick(n)
BY DEF Idle, Tick, NoJob

\* The next job, or none, of a list of jobs.
LEMMA NextJobTyped ==
  ASSUME NEW n \in Nat, NEW jobs \in SUBSET Jobs(n)
  PROVE  NextJob(jobs) \in Tick(n)
BY DEF NextJob, Idle, Tick, NoJob

\* Rows are appended, never removed: a tick that was well typed stays so.
LEMMA TickGrows ==
  ASSUME NEW n \in Nat
  PROVE  Tick(n) \subseteq Tick(n + 1)
<1>1. Jobs(n) \subseteq Jobs(n + 1)
  BY DEF Jobs
<1>2. QED
  BY <1>1 DEF Tick

LEMMA ChosenTyped ==
  ASSUME NEW w \in Workers, NEW ev
  PROVE  Chosen(w, ev) \subseteq Endpoints /\ Probes(w, ev) \subseteq Endpoints
BY DEF Chosen, Probes, Listed

\* What an unchanged number of rows leaves to show.
LEMMA SameRows ==
  ASSUME TypeOK, TablesTyped', call' \in [Workers -> Tick(Len(deliveries))], UNCHANGED rowVars
  PROVE  TypeOK'
<1>1. Len(deliveries)' = Len(deliveries)
  BY DEF rowVars
<1>2. RowsTyped'
  BY TypeParts DEF RowsTyped, rowVars
<1>3. QED
  BY <1>1, <1>2 DEF TypeOK, TablesTyped, RowsTyped, Row, Traffic

LEMMA DrainTyped ==
  ASSUME TypeOK, NEW w \in Workers,
         FetchPending(w) \/ ListEndpoints(w) \/ MarkPublished(w)
  PROVE  TypeOK'
<1> USE TypeParts
<1>1. Len(deliveries) \in Nat /\ TablesTyped /\ call[w] \in Tick(Len(deliveries))
  BY LenProperties DEF RowsTyped, TicksTyped
<1>2. CASE FetchPending(w)
  <2>1. Oldest(Pending, DrainLimit) \subseteq Events
    BY <1>1 DEF Oldest, Pending, TablesTyped
  <2>2. [Idle EXCEPT !.pc = "drain", !.batch = Oldest(Pending, DrainLimit),
                     !.cool = {e \in Endpoints : endpoint[e].cooled}] \in Tick(Len(deliveries))
    BY <2>1 DEF Idle, Tick, NoJob
  <2>3. QED
    BY <1>1, <1>2, <2>2, SameRows
       DEF FetchPending, TablesTyped, TicksTyped, eventVars, counts
<1>3. CASE ListEndpoints(w)
  <2>1. PICK ev \in Events : call' = [call EXCEPT ![w] =
          [call[w] EXCEPT !.pc = "fan", !.batch = @ \ {ev}, !.event = ev,
                          !.todo = Chosen(w, ev), !.probed = @ \union Probes(w, ev)]]
    BY <1>3 DEF ListEndpoints
  <2>2. [call[w] EXCEPT !.pc = "fan", !.batch = @ \ {ev}, !.event = ev,
                        !.todo = Chosen(w, ev), !.probed = @ \union Probes(w, ev)]
          \in Tick(Len(deliveries))
    BY <1>1, ChosenTyped, EventAssumption DEF Tick
  <2>3. QED
    BY <1>1, <1>3, <2>1, <2>2, SameRows
       DEF ListEndpoints, TablesTyped, TicksTyped, eventVars, counts
<1>4. CASE MarkPublished(w)
  <2>1. [call[w] EXCEPT !.pc = "drain", !.event = 0] \in Tick(Len(deliveries))
    BY <1>1 DEF Tick
  <2>2. Event(w) \in Events
    BY <1>1, <1>4 DEF MarkPublished, Tick, At, Event
  <2>3. QED
    BY <1>1, <1>4, <2>1, <2>2, SameRows
       DEF MarkPublished, TablesTyped, TicksTyped, eventVars, counts
<1>5. QED
  BY <1>2, <1>3, <1>4

LEMMA InsertTyped ==
  ASSUME TypeOK, NEW w \in Workers, InsertDelivery(w)
  PROVE  TypeOK'
<1> USE TypeParts
<1> DEFINE n == Len(deliveries)
<1>1. n \in Nat /\ n = Len(traffic) /\ call[w] \in Tick(n)
  BY LenProperties DEF RowsTyped, TicksTyped
<1>2. PICK e \in call[w].todo :
        /\ deliveries' = Append(deliveries,
             [event |-> Event(w), endpoint |-> e, status |-> "pending",
              attempts |-> 0, due |-> TRUE])
        /\ traffic' = Append(traffic, [tries |-> 0, accepted |-> FALSE])
        /\ call' = [call EXCEPT ![w] = [call[w] EXCEPT !.todo = @ \ {e}]]
  BY DEF InsertDelivery
<1>3. [event |-> Event(w), endpoint |-> e, status |-> "pending", attempts |-> 0, due |-> TRUE]
        \in Row
  BY <1>1 DEF InsertDelivery, Tick, At, Event, Row, Statuses
<1>4. deliveries' \in Seq(Row) /\ Len(deliveries)' = n + 1
  BY <1>2, <1>3, AppendProperties DEF RowsTyped
<1>5. traffic' \in Seq(Traffic) /\ Len(traffic)' = n + 1
  BY <1>1, <1>2, AppendProperties DEF RowsTyped, Traffic
<1>6. [call[w] EXCEPT !.todo = @ \ {e}] \in Tick(n)
  BY <1>1 DEF Tick
<1>7. call' \in [Workers -> Tick(n + 1)]
  BY <1>1, <1>2, <1>6, TickGrows DEF TicksTyped
<1>8. TablesTyped'
  BY DEF TablesTyped, InsertDelivery, eventVars, counts
<1>9. QED
  BY <1>4, <1>5, <1>7, <1>8 DEF TypeOK, TablesTyped, Row, Traffic

LEMMA DeliverTyped ==
  ASSUME TypeOK, NEW w \in Workers, ListDue(w) \/ LoseResult(w) \/ Abandon(w)
  PROVE  TypeOK'
<1> USE TypeParts
<1> DEFINE n == Len(deliveries)
<1>1. n \in Nat /\ DOMAIN deliveries = 1..n /\ TablesTyped /\ call[w] \in Tick(n)
  BY LenProperties DEF RowsTyped, TicksTyped
<1>2. CASE ListDue(w)
  <2> DEFINE jobs == {[id |-> i, attempts |-> deliveries[i].attempts] :
                        i \in Oldest(Due, DeliverLimit)}
  <2>1. \A i \in DOMAIN deliveries : deliveries[i] \in Row
    BY <1>1, ElementOfSeq DEF RowsTyped
  <2>2. jobs \subseteq Jobs(n)
    <3>1. Oldest(Due, DeliverLimit) \subseteq 1..n
      BY <1>1 DEF Oldest, Due
    <3>2. \A i \in 1..n : deliveries[i].attempts \in Nat
      BY <1>1, <2>1 DEF Row
    <3>3. \A i \in 1..n : [id |-> i, attempts |-> deliveries[i].attempts] \in Jobs(n)
      BY <3>2 DEF Jobs
    <3>4. QED
      BY <3>1, <3>3
  <2>3. NextJob(jobs) \in Tick(n)
    BY <1>1, <2>2, NextJobTyped
  <2>4. call' = [call EXCEPT ![w] = NextJob(jobs)]
    BY <1>2 DEF ListDue
  <2>5. call' \in [Workers -> Tick(n)]
    BY <2>3, <2>4 DEF TicksTyped
  <2>6. TablesTyped' /\ UNCHANGED rowVars
    BY <1>1, <1>2 DEF ListDue, TablesTyped, eventVars, counts
  <2>7. QED
    BY <2>5, <2>6, SameRows
<1>3. CASE LoseResult(w)
  <2>1. [call[w] EXCEPT !.pc = "save"] \in Tick(n)
    BY <1>1, <1>3 DEF Tick, LoseResult, At
  <2>2. drops' \in 0..MaxDrops
    BY <1>1, <1>3, LimitAssumption DEF LoseResult, TablesTyped
  <2>3. TablesTyped' /\ UNCHANGED rowVars
    BY <1>1, <1>3, <2>2 DEF LoseResult, TablesTyped, eventVars
  <2>4. call' \in [Workers -> Tick(n)]
    BY <1>3, <2>1 DEF LoseResult, TicksTyped
  <2>5. QED
    BY <2>3, <2>4, SameRows
<1>4. CASE Abandon(w)
  BY <1>1, <1>4, IdleTyped, LimitAssumption, SameRows
     DEF Abandon, TablesTyped, TicksTyped, eventVars
<1>5. QED
  BY <1>2, <1>3, <1>4

\* A row and its traffic are rewritten in place.
LEMMA RowsRewritten ==
  ASSUME RowsTyped, TablesTyped',
         NEW i \in DOMAIN deliveries, NEW row \in Row, NEW posts \in Traffic,
         deliveries' = [deliveries EXCEPT ![i] = row] \/ UNCHANGED deliveries,
         traffic' = [traffic EXCEPT ![i] = posts] \/ UNCHANGED traffic,
         call' \in [Workers -> Tick(Len(deliveries))]
  PROVE  TypeOK'
<1>1. deliveries' \in Seq(Row) /\ Len(deliveries)' = Len(deliveries)
  BY ExceptSeq, LenProperties DEF RowsTyped
<1>2. traffic' \in Seq(Traffic) /\ Len(traffic)' = Len(traffic)
  BY ExceptSeq, LenProperties DEF RowsTyped
<1>3. QED
  BY <1>1, <1>2 DEF TypeOK, TablesTyped, RowsTyped, Row, Traffic

LEMMA PostTyped ==
  ASSUME TypeOK, NEW w \in Workers, Post(w)
  PROVE  TypeOK'
<1> USE TypeParts
<1> DEFINE n == Len(deliveries)
<1>1. n \in Nat /\ DOMAIN deliveries = 1..n /\ n = Len(traffic) /\ DOMAIN traffic = 1..n
      /\ call[w] \in Tick(n)
  BY LenProperties DEF RowsTyped, TicksTyped
<1>2. PICK job \in call[w].jobs, answer \in {"ok", "lost", "refused"} :
        /\ traffic' = [traffic EXCEPT ![job.id] =
             [tries |-> @.tries + 1, accepted |-> @.accepted \/ answer # "refused"]]
        /\ call' = [call EXCEPT ![w] = [call[w] EXCEPT !.pc = "result", !.jobs = @ \ {job},
                                                       !.job = job, !.answer = answer]]
  BY DEF Post, Answers
<1>3. job \in Jobs(n) /\ job.id \in DOMAIN deliveries
  BY <1>1 DEF Tick, Jobs
<1>4. traffic[job.id] \in Traffic
  BY <1>1, <1>3, ElementOfSeq DEF RowsTyped
<1> DEFINE posts == [tries |-> traffic[job.id].tries + 1,
                     accepted |-> traffic[job.id].accepted \/ answer # "refused"]
<1>5. posts \in Traffic /\ traffic' = [traffic EXCEPT ![job.id] = posts]
  BY <1>2, <1>4 DEF Traffic
<1>6. [call[w] EXCEPT !.pc = "result", !.jobs = @ \ {job}, !.job = job, !.answer = answer]
        \in Tick(n)
  BY <1>1, <1>3 DEF Tick
<1>7. call' \in [Workers -> Tick(n)] /\ TablesTyped' /\ UNCHANGED deliveries
  BY <1>2, <1>6 DEF TicksTyped, TablesTyped, Post, eventVars, counts
<1>8. deliveries[job.id] \in Row
  BY <1>1, <1>3, ElementOfSeq DEF RowsTyped
<1>9. QED
  BY <1>3, <1>5, <1>7, <1>8, RowsRewritten

\* What drains in progress know of an endpoint's clock can only be forgotten.
LEMMA CoolForgotten ==
  ASSUME TypeOK, NEW e, NEW v \in Workers
  PROVE  [call[v] EXCEPT !.cool = @ \ {e}] \in Tick(Len(deliveries))
<1>1. call[v] \in Tick(Len(deliveries))
  BY TypeParts DEF TicksTyped
<1>2. QED
  BY <1>1 DEF Tick

LEMMA RecordTyped ==
  ASSUME TypeOK, NEW w \in Workers, RecordResult(w)
  PROVE  TypeOK'
<1> USE TypeParts
<1> DEFINE n == Len(deliveries)
           e == Target(w)
           failures == IF Succeeded(call[w].answer) THEN 0 ELSE Counted(endpoint[e].failures + 1)
           tick(v) == [call[v] EXCEPT !.cool = @ \ {e}, !.pc = IF v = w THEN "save" ELSE @]
<1>1. n \in Nat /\ DOMAIN deliveries = 1..n /\ call[w] \in Tick(n) /\ call[w].pc = "result"
  BY LenProperties DEF RowsTyped, TicksTyped, RecordResult, At
<1>2. call[w].job \in Jobs(n)
  BY <1>1 DEF Tick
<1>3. e \in Endpoints
  <2>1. call[w].job.id \in DOMAIN deliveries
    BY <1>1, <1>2 DEF Jobs
  <2>2. deliveries[call[w].job.id] \in Row
    BY <1>1, <2>1, ElementOfSeq DEF RowsTyped
  <2>3. QED
    BY <2>2 DEF Target, Job, Row
<1>4. failures \in 0..Threshold
  <2>1. Threshold \in Nat /\ endpoint[e].failures \in Nat
    BY <1>3, LimitAssumption DEF TablesTyped
  <2>2. QED
    BY <2>1 DEF Counted
<1>5. TablesTyped'
  BY <1>3, <1>4 DEF RecordResult, TablesTyped, eventVars, counts
<1>6. \A v \in Workers : tick(v) \in Tick(n)
  <2> SUFFICES ASSUME NEW v \in Workers PROVE tick(v) \in Tick(n)
    OBVIOUS
  <2>1. CASE v = w
    BY <1>1, <1>2, <2>1 DEF Tick
  <2>2. CASE v # w
    <3>1. call[v] \in Tick(n)
      BY DEF TicksTyped
    <3>2. QED
      BY <2>2, <3>1 DEF Tick
  <2>3. QED
    BY <2>1, <2>2
<1>7. call' = [v \in Workers |-> tick(v)]
  BY DEF RecordResult
<1>8. call' \in [Workers -> Tick(n)] /\ UNCHANGED rowVars
  BY <1>6, <1>7 DEF RecordResult
<1>9. QED
  BY <1>5, <1>8, SameRows

\* A row is given a new outcome or becomes due.
LEMMA RowTyped ==
  ASSUME TypeOK, NEW i \in DOMAIN deliveries, NEW status \in Statuses, NEW attempts \in Nat,
         NEW due \in BOOLEAN
  PROVE  /\ deliveries[i] \in Row /\ traffic[i] \in Traffic
         /\ [deliveries[i] EXCEPT !.status = status, !.attempts = attempts, !.due = due] \in Row
<1>1. deliveries[i] \in Row /\ traffic[i] \in Traffic
  BY TypeParts, ElementOfSeq, LenProperties DEF RowsTyped
<1>2. QED
  BY <1>1 DEF Row

LEMMA OutcomeTyped ==
  ASSUME NEW attempts \in Nat, NEW answer
  PROVE  /\ Outcome(attempts, answer).status \in Statuses
         /\ Outcome(attempts, answer).attempts \in Nat
BY LimitAssumption DEF Outcome, Statuses

LEMMA SaveTyped ==
  ASSUME TypeOK, NEW w \in Workers, SaveDelivery(w)
  PROVE  TypeOK'
<1> USE TypeParts
<1> DEFINE n == Len(deliveries)
           i == Job(w).id
           out == Outcome(Job(w).attempts, call[w].answer)
           row == [deliveries[i] EXCEPT !.status = out.status, !.attempts = out.attempts,
                                        !.due = out.status # "retrying"]
<1>1. n \in Nat /\ DOMAIN deliveries = 1..n /\ call[w] \in Tick(n) /\ call[w].pc = "save"
  BY LenProperties DEF RowsTyped, TicksTyped, SaveDelivery, At
<1>2. i \in DOMAIN deliveries /\ Job(w).attempts \in Nat
  BY <1>1 DEF Tick, Jobs, Job
<1>3. out.status \in Statuses /\ out.attempts \in Nat
  BY <1>2, OutcomeTyped
<1>4. row \in Row /\ traffic[i] \in Traffic
  BY <1>2, <1>3, RowTyped
<1>5. deliveries' = [deliveries EXCEPT ![i] = row] /\ UNCHANGED traffic
  BY DEF SaveDelivery
<1>6. call[w].jobs \subseteq Jobs(n)
  BY <1>1 DEF Tick
<1>7. call' \in [Workers -> Tick(n)]
  BY <1>1, <1>6, NextJobTyped DEF SaveDelivery, TicksTyped
<1>8. TablesTyped'
  BY DEF SaveDelivery, TablesTyped, eventVars, counts
<1>9. QED
  BY <1>2, <1>4, <1>5, <1>7, <1>8, RowsRewritten

LEMMA EnvironmentTyped ==
  ASSUME TypeOK,
         \/ \E ev \in Events : CreateEvent(ev)
         \/ \E e \in Endpoints : EditEndpoint(e) \/ CooldownPasses(e)
         \/ \E i \in DOMAIN deliveries : BackoffPasses(i)
  PROVE  TypeOK'
<1> USE TypeParts
<1>1. ASSUME NEW ev \in Events, CreateEvent(ev) PROVE TypeOK'
  BY <1>1, SameRows DEF CreateEvent, TablesTyped, TicksTyped, counts
<1>2. ASSUME NEW e \in Endpoints, EditEndpoint(e) PROVE TypeOK'
  <2>1. edits' \in 0..MaxEdits
    BY <1>2, LimitAssumption DEF EditEndpoint, TablesTyped
  <2>2. TablesTyped' /\ UNCHANGED rowVars
    BY <1>2, <2>1 DEF EditEndpoint, TablesTyped, eventVars
  <2>3. call' \in [Workers -> Tick(Len(deliveries))]
    BY <1>2, CoolForgotten DEF EditEndpoint
  <2>4. QED
    BY <2>2, <2>3, SameRows
<1>3. ASSUME NEW e \in Endpoints, CooldownPasses(e) PROVE TypeOK'
  BY <1>3, SameRows DEF CooldownPasses, TablesTyped, TicksTyped, eventVars, counts
<1>4. ASSUME NEW i \in DOMAIN deliveries, BackoffPasses(i) PROVE TypeOK'
  <2> DEFINE row == [deliveries[i] EXCEPT !.due = TRUE]
  <2>1. deliveries[i] \in Row /\ traffic[i] \in Traffic
    BY <1>4, ElementOfSeq, LenProperties DEF RowsTyped
  <2>2. row \in Row
    BY <2>1 DEF Row
  <2>3. deliveries' = [deliveries EXCEPT ![i] = row] /\ UNCHANGED traffic
    BY <1>4 DEF BackoffPasses
  <2>4. TablesTyped' /\ call' \in [Workers -> Tick(Len(deliveries))]
    BY <1>4 DEF BackoffPasses, TablesTyped, TicksTyped, eventVars, counts
  <2>5. QED
    BY <1>4, <2>1, <2>2, <2>3, <2>4, RowsRewritten
<1>5. QED
  BY <1>1, <1>2, <1>3, <1>4

LEMMA TypeInitially == Init => TypeOK
<1> SUFFICES ASSUME Init PROVE TypeOK
  OBVIOUS
<1>1. RowsTyped
  BY EmptySeq DEF Init, RowsTyped
<1>2. TablesTyped
  <2>1. endpoint \in [Endpoints -> [active: BOOLEAN, failures: 0..Threshold, cooled: BOOLEAN]]
    BY DEF Init
  <2>2. 0 \in 0..MaxDrops /\ 0 \in 0..MaxEdits
    BY LimitAssumption
  <2>3. QED
    BY <2>1, <2>2 DEF Init, TablesTyped
<1>3. TicksTyped
  BY IdleTyped DEF Init, TicksTyped
<1>4. QED
  BY <1>1, <1>2, <1>3, TypeParts

LEMMA TypePreserved == TypeOK /\ [Next]_vars => TypeOK'
<1> SUFFICES ASSUME TypeOK, [Next]_vars PROVE TypeOK'
  OBVIOUS
<1>1. ASSUME NEW w \in Workers, Step(w) \/ LoseResult(w) \/ Abandon(w) PROVE TypeOK'
  BY <1>1, DrainTyped, InsertTyped, DeliverTyped, PostTyped, RecordTyped, SaveTyped DEF Step
<1>2. CASE UNCHANGED vars
  BY <1>2 DEF vars, TypeOK, Tick, Jobs
<1>3. QED
  BY <1>1, <1>2, EnvironmentTyped DEF Next

\* Whatever workers, endpoints, administrators and crashes do, every table and
\* every tick in progress keeps the shape the code gives it, and the jobs a
\* worker holds name rows that exist.
THEOREM DeliveryTypeCorrect == Spec => []TypeOK
BY TypeInitially, TypePreserved, PTL DEF Spec

-----------------------------------------------------------------------------
(* What the rows of webhook_deliveries say of the POSTs that were made,    *)
(* whoever wrote them last: RowsMatchTraffic.  Two workers may hold copies *)
(* of one row and write them back in either order, so the row alone is not *)
(* inductive: the copies have to fit the traffic too (CountsFit).          *)


\* A row, and the copies of a tick, against the POSTs made for them.
RowFits(row, posts) ==
  /\ row.attempts <= posts.tries
  /\ row.status = "dead_lettered" => posts.tries >= MaxAttempts
  /\ row.status = "delivered" => posts.accepted
TickFits(k, t) ==
  /\ \A job \in k.jobs : job.attempts <= t[job.id].tries
  /\ k.pc \in {"result", "save"} =>
       /\ k.job.attempts < t[k.job.id].tries
       /\ Succeeded(k.answer) => t[k.job.id].accepted

RowsFit  == \A i \in DOMAIN deliveries : RowFits(deliveries[i], traffic[i])
TicksFit == \A w \in Workers : TickFits(call[w], traffic)
IInv == TypeOK /\ RowsFit /\ TicksFit

LEMMA FitsIsIInv == IInv <=> TypeOK /\ CountsFit /\ RowsMatchTraffic
BY DEF IInv, RowsFit, RowFits, TicksFit, TickFits, CountsFit, RowsMatchTraffic, Job

\* No POST is ever taken back.
Grows(t, u, n) ==
  \A i \in 1..n : u[i].tries >= t[i].tries /\ (t[i].accepted => u[i].accepted)

LEMMA TickFitsGrown ==
  ASSUME NEW n \in Nat, NEW k \in Tick(n), NEW t, NEW u,
         \A i \in 1..n : t[i] \in Traffic /\ u[i] \in Traffic,
         Grows(t, u, n), TickFits(k, t)
  PROVE  TickFits(k, u)
<1>1. \A job \in k.jobs : job.id \in 1..n /\ job.attempts \in Nat
  BY DEF Tick, Jobs
<1>2. k.pc \in {"result", "save"} => k.job.id \in 1..n /\ k.job.attempts \in Nat
  BY DEF Tick, Jobs
<1>3. \A i \in 1..n : u[i].tries \in Nat /\ t[i].tries \in Nat
  BY DEF Traffic
<1>4. QED
  BY <1>1, <1>2, <1>3 DEF TickFits, Grows

\* A tick without jobs or results, and one that only lists jobs.
LEMMA JoblessFits ==
  ASSUME NEW k, NEW t, k.jobs = {}, k.pc \notin {"result", "save"}
  PROVE  TickFits(k, t)
BY DEF TickFits

LEMMA NextJobFits ==
  ASSUME NEW t, NEW jobs, \A job \in jobs : job.attempts <= t[job.id].tries
  PROVE  TickFits(NextJob(jobs), t)
BY DEF TickFits, NextJob, Idle

LEMMA Shapes ==
  ASSUME TypeOK
  PROVE  /\ Len(deliveries) \in Nat
         /\ DOMAIN deliveries = 1..Len(deliveries) /\ DOMAIN traffic = 1..Len(deliveries)
         /\ \A i \in 1..Len(deliveries) : deliveries[i] \in Row /\ traffic[i] \in Traffic
         /\ \A w \in Workers : call[w] \in Tick(Len(deliveries))
BY TypeParts, ElementOfSeq, LenProperties DEF RowsTyped, TicksTyped

\* One tick changes, and it fits.
LEMMA OneTickFits ==
  ASSUME IInv, NEW w \in Workers, NEW k, TickFits(k, traffic),
         call' = [call EXCEPT ![w] = k], UNCHANGED rowVars
  PROVE  RowsFit' /\ TicksFit'
<1>1. \A v \in Workers : TickFits(call'[v], traffic)
  BY Shapes, TypeParts DEF IInv, TicksFit, TicksTyped
<1>2. QED
  BY <1>1 DEF IInv, RowsFit, TicksFit, TickFits, RowFits, rowVars

LEMMA DrainFits ==
  ASSUME IInv, NEW w \in Workers,
         \/ FetchPending(w) \/ ListEndpoints(w) \/ MarkPublished(w)
         \/ ListDue(w) \/ LoseResult(w) \/ Abandon(w)
  PROVE  RowsFit' /\ TicksFit'
<1>1. TickFits(call[w], traffic)
  BY DEF IInv, TicksFit
<1>2. CASE FetchPending(w)
  <2> DEFINE k == [Idle EXCEPT !.pc = "drain", !.batch = Oldest(Pending, DrainLimit),
                               !.cool = {e \in Endpoints : endpoint[e].cooled}]
  <2>1. k.pc = "drain" /\ k.jobs = {}
    BY DEF Idle
  <2> HIDE DEF k
  <2>2. TickFits(k, traffic)
    BY <2>1, JoblessFits
  <2>3. call' = [call EXCEPT ![w] = k] /\ UNCHANGED rowVars
    BY <1>2 DEF FetchPending, k
  <2>4. QED
    BY <2>2, <2>3, OneTickFits
<1>3. CASE ListEndpoints(w)
  <2>1. PICK ev \in Events : call' = [call EXCEPT ![w] =
          [call[w] EXCEPT !.pc = "fan", !.batch = @ \ {ev}, !.event = ev,
                          !.todo = Chosen(w, ev), !.probed = @ \union Probes(w, ev)]]
    BY <1>3 DEF ListEndpoints
  <2> DEFINE k == [call[w] EXCEPT !.pc = "fan", !.batch = @ \ {ev}, !.event = ev,
                          !.todo = Chosen(w, ev), !.probed = @ \union Probes(w, ev)]
  <2>2. k.pc = "fan" /\ k.jobs = call[w].jobs
    BY Shapes DEF IInv, Tick
  <2>3. TickFits(k, traffic)
    BY <1>1, <2>2 DEF TickFits
  <2>4. QED
    BY <1>3, <2>1, <2>3, OneTickFits DEF ListEndpoints
<1>4. CASE MarkPublished(w)
  <2> DEFINE k == [call[w] EXCEPT !.pc = "drain", !.event = 0]
  <2>1. k.pc = "drain" /\ k.jobs = call[w].jobs
    BY Shapes DEF IInv, Tick
  <2>2. TickFits(k, traffic)
    BY <1>1, <2>1 DEF TickFits
  <2>3. QED
    BY <1>4, <2>2, OneTickFits DEF MarkPublished
<1>5. CASE ListDue(w)
  <2> DEFINE jobs == {[id |-> i, attempts |-> deliveries[i].attempts] :
                        i \in Oldest(Due, DeliverLimit)}
  <2>1. \A job \in jobs : job.attempts <= traffic[job.id].tries
    <3>1. Oldest(Due, DeliverLimit) \subseteq DOMAIN deliveries
      BY DEF Oldest, Due
    <3>2. \A i \in DOMAIN deliveries : deliveries[i].attempts <= traffic[i].tries
      BY DEF IInv, RowsFit, RowFits
    <3>3. QED
      BY <3>1, <3>2
  <2>2. TickFits(NextJob(jobs), traffic)
    BY <2>1, NextJobFits
  <2>3. call' = [call EXCEPT ![w] = NextJob(jobs)] /\ UNCHANGED rowVars
    BY <1>5 DEF ListDue
  <2>4. QED
    BY <2>2, <2>3, OneTickFits
<1>6. CASE LoseResult(w)
  <2> DEFINE k == [call[w] EXCEPT !.pc = "save"]
  <2>1. /\ k.jobs = call[w].jobs /\ k.job = call[w].job /\ k.answer = call[w].answer
        /\ call[w].pc = "result"
    BY <1>6, Shapes DEF IInv, Tick, LoseResult, At
  <2>2. TickFits(k, traffic)
    BY <1>1, <2>1 DEF TickFits
  <2>3. QED
    BY <1>6, <2>2, OneTickFits DEF LoseResult
<1>7. CASE Abandon(w)
  <2>1. TickFits(Idle, traffic)
    BY JoblessFits DEF Idle
  <2>2. QED
    BY <1>7, <2>1, OneTickFits DEF Abandon
<1>8. QED
  BY <1>2, <1>3, <1>4, <1>5, <1>6, <1>7

LEMMA InsertFits ==
  ASSUME IInv, NEW w \in Workers, InsertDelivery(w)
  PROVE  RowsFit' /\ TicksFit'
<1> DEFINE n == Len(deliveries)
<1>1. PICK e \in call[w].todo :
        /\ deliveries' = Append(deliveries,
             [event |-> Event(w), endpoint |-> e, status |-> "pending",
              attempts |-> 0, due |-> TRUE])
        /\ traffic' = Append(traffic, [tries |-> 0, accepted |-> FALSE])
        /\ call' = [call EXCEPT ![w] = [call[w] EXCEPT !.todo = @ \ {e}]]
  BY DEF InsertDelivery
<1>2. /\ deliveries \in Seq(Row) /\ traffic \in Seq(Traffic) /\ n \in Nat /\ n = Len(traffic)
      /\ DOMAIN deliveries = 1..n
  BY TypeParts, LenProperties DEF IInv, RowsTyped
<1>3. TypeOK'
  BY InsertTyped DEF IInv
<1>4. /\ deliveries' \in Seq(Row) /\ Len(deliveries)' = n + 1
      /\ DOMAIN deliveries' = 1..(n + 1)
      /\ \A i \in 1..n : deliveries'[i] = deliveries[i] /\ traffic'[i] = traffic[i]
      /\ deliveries'[n + 1] = [event |-> Event(w), endpoint |-> e, status |-> "pending",
                               attempts |-> 0, due |-> TRUE]
      /\ traffic'[n + 1] = [tries |-> 0, accepted |-> FALSE]
  <2>1. deliveries' \in Seq(Row) /\ traffic' \in Seq(Traffic)
    BY <1>3, TypeParts DEF TypeOK, Row, Traffic
  <2>2. Len(deliveries') = n + 1
    BY <1>1, <1>2
  <2>3. DOMAIN deliveries' = 1..(n + 1)
    BY <2>1, <2>2, LenProperties
  <2>4. QED
    BY <1>1, <1>2, <2>1, <2>2, <2>3
<1>5. RowsFit'
  BY <1>2, <1>4 DEF IInv, RowsFit, RowFits
<1>6. Grows(traffic, traffic', n) /\ \A i \in 1..n : traffic[i] \in Traffic /\ traffic'[i] \in Traffic
  BY <1>4, Shapes DEF IInv, Grows, Traffic
<1>7. \A v \in Workers : TickFits(call[v], traffic')
  BY <1>2, <1>6, Shapes, TickFitsGrown DEF IInv, TicksFit
<1>8. /\ [call[w] EXCEPT !.todo = @ \ {e}].jobs = call[w].jobs
      /\ [call[w] EXCEPT !.todo = @ \ {e}].job = call[w].job
      /\ [call[w] EXCEPT !.todo = @ \ {e}].pc = call[w].pc
      /\ [call[w] EXCEPT !.todo = @ \ {e}].answer = call[w].answer
  BY Shapes DEF IInv, Tick
<1>9. \A v \in Workers : TickFits(call'[v], traffic')
  <2>1. TickFits([call[w] EXCEPT !.todo = @ \ {e}], traffic')
    BY <1>7, <1>8 DEF TickFits
  <2>2. QED
    BY <1>1, <1>7, <2>1, TypeParts DEF IInv, TicksTyped
<1>10. QED
  BY <1>5, <1>9 DEF TicksFit, TickFits

\* The POST of a job puts the tick one ahead of its copy.
LEMMA PostFits ==
  ASSUME IInv, NEW w \in Workers, Post(w)
  PROVE  RowsFit' /\ TicksFit'
<1> DEFINE n == Len(deliveries)
<1>1. PICK job \in call[w].jobs, answer \in {"ok", "lost", "refused"} :
        /\ traffic' = [traffic EXCEPT ![job.id] =
             [tries |-> @.tries + 1, accepted |-> @.accepted \/ answer # "refused"]]
        /\ call' = [call EXCEPT ![w] = [call[w] EXCEPT !.pc = "result", !.jobs = @ \ {job},
                                                       !.job = job, !.answer = answer]]
  BY DEF Post, Answers
<1> DEFINE k == [call[w] EXCEPT !.pc = "result", !.jobs = @ \ {job},
                                !.job = job, !.answer = answer]
<1>2. /\ n \in Nat /\ DOMAIN deliveries = 1..n /\ DOMAIN traffic = 1..n
      /\ \A i \in 1..n : deliveries[i] \in Row /\ traffic[i] \in Traffic
      /\ \A v \in Workers : call[v] \in Tick(n)
  BY Shapes DEF IInv
<1>3. job.id \in 1..n /\ job.attempts \in Nat
  BY <1>2 DEF Tick, Jobs
<1>4. /\ \A i \in 1..n : i # job.id => traffic'[i] = traffic[i]
      /\ traffic'[job.id].tries = traffic[job.id].tries + 1
      /\ traffic'[job.id].accepted = (traffic[job.id].accepted \/ answer # "refused")
  BY <1>1, <1>2, <1>3
<1>5. \A i \in 1..n : traffic'[i] \in Traffic
  <2>1. TypeOK' /\ UNCHANGED deliveries
    BY PostTyped DEF IInv, Post
  <2>2. QED
    BY <1>2, <2>1, ElementOfSeq DEF TypeOK, Traffic
<1>6. Grows(traffic, traffic', n)
  BY <1>2, <1>3, <1>4 DEF Grows, Traffic
<1>7. RowsFit'
  <2> SUFFICES ASSUME NEW i \in 1..n PROVE RowFits(deliveries[i], traffic'[i])
    BY <1>2 DEF RowsFit, RowFits, Post
  <2>1. RowFits(deliveries[i], traffic[i])
    BY <1>2 DEF IInv, RowsFit
  <2>2. /\ traffic'[i].tries \in Nat /\ traffic[i].tries \in Nat
        /\ traffic'[i].tries >= traffic[i].tries
        /\ traffic[i].accepted => traffic'[i].accepted
        /\ deliveries[i].attempts \in Nat /\ MaxAttempts \in Nat
    BY <1>2, <1>5, <1>6, LimitAssumption DEF Grows, Traffic, Row
  <2>3. QED
    BY <2>1, <2>2 DEF RowFits
<1>8. \A v \in Workers : TickFits(call[v], traffic')
  BY <1>2, <1>5, <1>6, TickFitsGrown DEF IInv, TicksFit
<1>9. TickFits(k, traffic')
  <2>1. /\ k.pc = "result" /\ k.jobs = call[w].jobs \ {job} /\ k.job = job
        /\ k.answer = answer
    BY <1>2 DEF Tick
  <2>2. \A other \in k.jobs : other.attempts <= traffic'[other.id].tries
    BY <1>8, <2>1 DEF TickFits
  <2>3. job.attempts <= traffic[job.id].tries
    BY <1>2 DEF IInv, TicksFit, TickFits
  <2>4. traffic[job.id].tries \in Nat
    BY <1>2, <1>3 DEF Traffic
  <2>5. job.attempts < traffic'[job.id].tries
    BY <1>3, <1>4, <2>3, <2>4
  <2>6. Succeeded(answer) => traffic'[job.id].accepted
    BY <1>4 DEF Succeeded
  <2> HIDE DEF k
  <2>7. QED
    BY <2>1, <2>2, <2>5, <2>6 DEF TickFits
<1>10. \A v \in Workers : TickFits(call'[v], traffic')
  BY <1>1, <1>8, <1>9, TypeParts DEF IInv, TicksTyped
<1>11. QED
  BY <1>7, <1>10 DEF TicksFit, TickFits

\* Endpoint updates touch neither jobs nor answers.
LEMMA RecordFits ==
  ASSUME IInv, NEW w \in Workers, RecordResult(w)
  PROVE  RowsFit' /\ TicksFit'
<1> DEFINE e == Target(w)
           tick(v) == [call[v] EXCEPT !.cool = @ \ {e}, !.pc = IF v = w THEN "save" ELSE @]
<1>1. call' = [v \in Workers |-> tick(v)] /\ UNCHANGED rowVars /\ call[w].pc = "result"
  BY DEF RecordResult, At
<1>2. ASSUME NEW v \in Workers PROVE TickFits(tick(v), traffic)
  <2>1. /\ tick(v).jobs = call[v].jobs /\ tick(v).job = call[v].job
        /\ tick(v).answer = call[v].answer
        /\ tick(v).pc = IF v = w THEN "save" ELSE call[v].pc
    BY Shapes DEF IInv, Tick
  <2>2. TickFits(call[v], traffic)
    BY DEF IInv, TicksFit
  <2> HIDE DEF tick
  <2>3. QED
    BY <1>1, <2>1, <2>2 DEF TickFits
<1>3. QED
  BY <1>1, <1>2 DEF IInv, RowsFit, RowFits, TicksFit, TickFits, rowVars

\* The outcome a worker writes counts no more than it posted.
LEMMA SaveFits ==
  ASSUME IInv, NEW w \in Workers, SaveDelivery(w)
  PROVE  RowsFit' /\ TicksFit'
<1> DEFINE n == Len(deliveries)
           i == Job(w).id
           out == Outcome(Job(w).attempts, call[w].answer)
           row == [deliveries[i] EXCEPT !.status = out.status, !.attempts = out.attempts,
                                        !.due = out.status # "retrying"]
<1>1. /\ n \in Nat /\ DOMAIN deliveries = 1..n
      /\ \A j \in 1..n : deliveries[j] \in Row /\ traffic[j] \in Traffic
      /\ call[w] \in Tick(n) /\ call[w].pc = "save"
  BY Shapes DEF IInv, SaveDelivery, At
<1>2. i \in 1..n /\ Job(w).attempts \in Nat
  BY <1>1 DEF Tick, Jobs, Job
<1>3. /\ Job(w).attempts < traffic[i].tries
      /\ Succeeded(call[w].answer) => traffic[i].accepted
      /\ \A job \in call[w].jobs : job.attempts <= traffic[job.id].tries
  BY <1>1 DEF IInv, TicksFit, TickFits, Job
<1>4. RowFits(row, traffic[i])
  <2>1. row.status = out.status /\ row.attempts = out.attempts
    BY <1>1, <1>2 DEF Row
  <2>2. traffic[i].tries \in Nat /\ MaxAttempts \in Nat
    BY <1>1, <1>2, LimitAssumption DEF Traffic
  <2>3. /\ out.attempts <= traffic[i].tries
        /\ out.status = "dead_lettered" => traffic[i].tries >= MaxAttempts
        /\ out.status = "delivered" => traffic[i].accepted
    BY <1>2, <1>3, <2>2 DEF Outcome
  <2> HIDE DEF row, out
  <2>4. QED
    BY <2>1, <2>3 DEF RowFits
<1>5. RowsFit'
  <2>1. deliveries' = [deliveries EXCEPT ![i] = row] /\ UNCHANGED traffic
    BY DEF SaveDelivery
  <2> HIDE DEF row, i
  <2>2. \A j \in 1..n : RowFits(deliveries'[j], traffic[j])
    BY <1>1, <1>2, <1>4, <2>1 DEF IInv, RowsFit
  <2>3. QED
    BY <1>1, <2>1, <2>2 DEF RowsFit, RowFits
<1>6. TicksFit'
  <2>1. TickFits(NextJob(call[w].jobs), traffic)
    BY <1>3, NextJobFits
  <2>2. \A v \in Workers : TickFits(call'[v], traffic)
    BY <2>1, TypeParts DEF SaveDelivery, IInv, TicksFit, TicksTyped
  <2>3. QED
    BY <2>2 DEF SaveDelivery, TicksFit, TickFits
<1>7. QED
  BY <1>5, <1>6

LEMMA EnvironmentFits ==
  ASSUME IInv,
         \/ \E ev \in Events : CreateEvent(ev)
         \/ \E e \in Endpoints : EditEndpoint(e) \/ CooldownPasses(e)
         \/ \E i \in DOMAIN deliveries : BackoffPasses(i)
  PROVE  RowsFit' /\ TicksFit'
<1>1. ASSUME UNCHANGED <<rowVars, call>> PROVE RowsFit' /\ TicksFit'
  BY <1>1 DEF IInv, RowsFit, RowFits, TicksFit, TickFits, rowVars
<1>2. ASSUME NEW e \in Endpoints, EditEndpoint(e) PROVE RowsFit' /\ TicksFit'
  <2>1. \A v \in Workers :
          /\ [call[v] EXCEPT !.cool = @ \ {e}].jobs = call[v].jobs
          /\ [call[v] EXCEPT !.cool = @ \ {e}].job = call[v].job
          /\ [call[v] EXCEPT !.cool = @ \ {e}].pc = call[v].pc
          /\ [call[v] EXCEPT !.cool = @ \ {e}].answer = call[v].answer
    BY Shapes DEF IInv, Tick
  <2>2. \A v \in Workers : TickFits([call[v] EXCEPT !.cool = @ \ {e}], traffic)
    BY <2>1 DEF IInv, TicksFit, TickFits
  <2>3. call' = [v \in Workers |-> [call[v] EXCEPT !.cool = @ \ {e}]] /\ UNCHANGED rowVars
    BY <1>2 DEF EditEndpoint
  <2>4. QED
    BY <2>2, <2>3 DEF IInv, RowsFit, RowFits, TicksFit, TickFits, rowVars
<1>3. ASSUME NEW i \in DOMAIN deliveries, BackoffPasses(i) PROVE RowsFit' /\ TicksFit'
  <2> DEFINE row == [deliveries[i] EXCEPT !.due = TRUE]
  <2>1. deliveries' = [deliveries EXCEPT ![i] = row] /\ UNCHANGED <<traffic, call>>
    BY <1>3 DEF BackoffPasses
  <2>2. row.status = deliveries[i].status /\ row.attempts = deliveries[i].attempts
    BY Shapes DEF IInv, Row
  <2> HIDE DEF row
  <2>3. \A j \in DOMAIN deliveries : RowFits(deliveries'[j], traffic[j])
    BY <2>1, <2>2 DEF IInv, RowsFit, RowFits
  <2>4. QED
    BY <2>1, <2>3 DEF IInv, RowsFit, RowFits, TicksFit, TickFits
<1>4. QED
  BY <1>1, <1>2, <1>3 DEF CreateEvent, CooldownPasses

LEMMA FitPreserved == IInv /\ [Next]_vars => IInv'
<1> SUFFICES ASSUME IInv, [Next]_vars PROVE IInv'
  OBVIOUS
<1>1. TypeOK'
  BY TypePreserved DEF IInv
<1>2. ASSUME NEW w \in Workers, Step(w) \/ LoseResult(w) \/ Abandon(w)
      PROVE  RowsFit' /\ TicksFit'
  BY <1>2, DrainFits, InsertFits, PostFits, RecordFits, SaveFits DEF Step
<1>3. CASE UNCHANGED vars
  BY <1>3 DEF vars, IInv, RowsFit, RowFits, TicksFit, TickFits, TypeOK, Tick, Jobs
<1>4. QED
  BY <1>1, <1>2, <1>3, EnvironmentFits DEF Next, IInv

LEMMA FitInitially == Init => IInv
<1> SUFFICES ASSUME Init PROVE IInv
  OBVIOUS
<1>1. TypeOK
  BY TypeInitially
<1>2. RowsFit
  BY DEF Init, RowsFit
<1>3. TickFits(Idle, traffic)
  BY JoblessFits DEF Idle
<1>4. TicksFit
  BY <1>3 DEF Init, TicksFit
<1>5. QED
  BY <1>1, <1>2, <1>4 DEF IInv

\* However many workers hold copies of a delivery, and in whatever order they
\* write them back: what is given up was posted MaxAttempts times, and what is
\* called delivered was accepted by its endpoint.
THEOREM RowsAlwaysMatchTraffic == Spec => []RowsMatchTraffic
<1>1. IInv => RowsMatchTraffic
  BY FitsIsIInv
<1>2. QED
  BY <1>1, FitInitially, FitPreserved, PTL DEF Spec

-----------------------------------------------------------------------------
(* Fan-out: how often an event is given to an endpoint, and that a steady  *)
(* subscriber is given each.                                               *)

\* A worker that may still give the event to the endpoint, and one that, having
\* listed the endpoints, will not give it again.
Holds(k, ev, e) ==
  \/ ev \in k.batch
  \/ k.pc = "fan" /\ k.event = ev /\ e \in k.todo
Spent(k, ev, e) == k.pc = "fan" /\ k.event = ev /\ e \notin k.todo

Holders(ev, e)  == {w \in Workers : Holds(call[w], ev, e)}
Spenders(ev, e) == {w \in Workers : Spent(call[w], ev, e)}

\* Once the event is published nobody takes it up any more.
FanFits(ev, e) ==
  /\ ev \notin published => Cardinality(Rows(ev, e)) <= Cardinality(Spenders(ev, e)) + drops
  /\ ev \in published =>
       Cardinality(Rows(ev, e)) + Cardinality(Holders(ev, e)) <= Cardinality(Workers) + drops

FanInv ==
  /\ TypeOK
  /\ \A w \in Workers : call[w].pc = "fan" => call[w].event \notin call[w].batch
  /\ \A ev \in Events, e \in Endpoints : FanFits(ev, e)

\* A steady endpoint stays healthy, and workers pass no event by it.
SteadyServed ==
  /\ \A e \in Steady : endpoint[e].active /\ endpoint[e].failures = 0
  /\ \A i \in DOMAIN deliveries :
       deliveries[i].endpoint \in Steady => deliveries[i].status # "dead_lettered"
  /\ \A w \in Workers :
       (call[w].pc \in {"result", "save"} /\ Target(w) \in Steady) => call[w].answer = "ok"
  /\ \A w \in Workers, e \in Steady :
       (call[w].pc = "fan" /\ Event(w) \in Wants[e]) =>
         (e \in call[w].todo \/ Rows(Event(w), e) # {})
  /\ \A ev \in published, e \in Steady : ev \in Wants[e] => Rows(ev, e) # {}

SteadyInv == TypeOK /\ SteadyServed

FanNamed == \A w \in Workers : call[w].pc = "fan" => call[w].event \notin call[w].batch

\* Between jobs a tick drains nothing.
LEMMA NextJobIdles ==
  ASSUME NEW jobs
  PROVE  NextJob(jobs).pc \in {"idle", "deliver"} /\ NextJob(jobs).batch = {}
<1>1. CASE jobs = {}
  BY <1>1 DEF NextJob, Idle
<1>2. CASE jobs # {}
  BY <1>2 DEF NextJob, Idle
<1>3. QED
  BY <1>1, <1>2

\* Crews of workers, and sets of rows, are finite.
LEMMA CrewSize ==
  ASSUME NEW S \in SUBSET Workers
  PROVE  IsFiniteSet(S) /\ Cardinality(S) \in Nat /\ Cardinality(S) <= Cardinality(Workers)
BY WorkerAssumption, FS_Subset, FS_CardinalityType

LEMMA TwoCrews ==
  ASSUME NEW S \in SUBSET Workers, NEW T \in SUBSET Workers, S \intersect T = {}
  PROVE  Cardinality(S) + Cardinality(T) <= Cardinality(Workers)
<1>1. /\ IsFiniteSet(S) /\ Cardinality(S) \in Nat
      /\ IsFiniteSet(T) /\ Cardinality(T) \in Nat
  BY CrewSize
<1>2. Cardinality(S \union T) = Cardinality(S) + Cardinality(T) - Cardinality(S \intersect T)
  BY <1>1, FS_Union
<1>3. Cardinality(S \intersect T) = 0
  BY FS_EmptySet
<1>4. Cardinality(S \union T) <= Cardinality(Workers)
  BY CrewSize
<1>5. QED
  BY <1>1, <1>2, <1>3, <1>4

LEMMA RowsSize ==
  ASSUME NEW n \in Nat, NEW S \in SUBSET (1..n)
  PROVE  IsFiniteSet(S) /\ Cardinality(S) \in Nat
<1>1. IsFiniteSet(1..n)
  BY FS_Interval
<1>2. QED
  BY <1>1, FS_Subset, FS_CardinalityType

\* Of two finite sets the larger has no fewer elements.
LEMMA SizeMonotonic ==
  ASSUME NEW S, IsFiniteSet(S), NEW T \in SUBSET S
  PROVE  Cardinality(T) \in Nat /\ Cardinality(S) \in Nat /\ Cardinality(T) <= Cardinality(S)
BY FS_Subset, FS_CardinalityType

LEMMA FanSizes ==
  ASSUME TypeOK, NEW ev, NEW e
  PROVE  /\ Cardinality(Rows(ev, e)) \in Nat /\ IsFiniteSet(Rows(ev, e))
         /\ Cardinality(Holders(ev, e)) \in Nat /\ Cardinality(Spenders(ev, e)) \in Nat
         /\ Cardinality(Workers) \in Nat /\ drops \in Nat
<1>1. Rows(ev, e) \in SUBSET (1..Len(deliveries)) /\ Len(deliveries) \in Nat
  BY Shapes DEF Rows
<1>2. Holders(ev, e) \in SUBSET Workers /\ Spenders(ev, e) \in SUBSET Workers
  BY DEF Holders, Spenders
<1>3. drops \in Nat
  BY TypeParts, LimitAssumption DEF TablesTyped
<1>4. QED
  <2>1. Cardinality(Workers) \in Nat
    BY CrewSize
  <2>2. Cardinality(Rows(ev, e)) \in Nat /\ IsFiniteSet(Rows(ev, e))
    BY <1>1, RowsSize
  <2>3. Cardinality(Holders(ev, e)) \in Nat /\ Cardinality(Spenders(ev, e)) \in Nat
    BY <1>2, CrewSize
  <2>4. QED
    BY <1>3, <2>1, <2>2, <2>3

\* A tick that takes no event up and gives none out leaves every bound alone.
LEMMA QuietFan ==
  ASSUME TypeOK, NEW ev, NEW e, FanFits(ev, e),
         UNCHANGED <<deliveries, drops>>, ev \in published' <=> ev \in published,
         Spenders(ev, e) \subseteq Spenders(ev, e)',
         ev \in published => Holders(ev, e)' \subseteq Holders(ev, e)
  PROVE  FanFits(ev, e)'
<1>1. Spenders(ev, e)' \in SUBSET Workers /\ Holders(ev, e) \in SUBSET Workers
  BY DEF Spenders, Holders
<1>2. Cardinality(Spenders(ev, e)) <= Cardinality(Spenders(ev, e)')
  BY <1>1, CrewSize, SizeMonotonic
<1>3. ev \in published => Cardinality(Holders(ev, e)') <= Cardinality(Holders(ev, e))
  BY <1>1, CrewSize, SizeMonotonic
<1>4. Cardinality(Spenders(ev, e)') \in Nat /\ Cardinality(Holders(ev, e)') \in Nat
  <2>1. Holders(ev, e)' \in SUBSET Workers
    BY DEF Holders
  <2>2. QED
    BY <1>1, <2>1, CrewSize
<1>5. Rows(ev, e)' = Rows(ev, e)
  BY DEF Rows
<1>6. QED
  BY <1>2, <1>3, <1>4, <1>5, FanSizes DEF FanFits

\* The same for a single worker's tick k.
LEMMA QuietTick ==
  ASSUME TypeOK, NEW ev, NEW e, FanFits(ev, e), NEW w \in Workers, NEW k,
         UNCHANGED <<deliveries, drops>>, ev \in published' <=> ev \in published,
         call' = [call EXCEPT ![w] = k],
         Spent(call[w], ev, e) => Spent(k, ev, e),
         ev \in published /\ Holds(k, ev, e) => Holds(call[w], ev, e)
  PROVE  FanFits(ev, e)'
<1>1. \A v \in Workers : call'[v] = IF v = w THEN k ELSE call[v]
  BY TypeParts DEF TicksTyped
<1>2. Spenders(ev, e) \subseteq Spenders(ev, e)'
  BY <1>1 DEF Spenders
<1>3. ev \in published => Holders(ev, e)' \subseteq Holders(ev, e)
  BY <1>1 DEF Holders
<1>4. QED
  BY <1>2, <1>3, QuietFan


\* The tick gives the event to an endpoint: one row more, one worker spent.
LEMMA InsertFan ==
  ASSUME FanInv, NEW w \in Workers, InsertDelivery(w), NEW ev, NEW e
  PROVE  FanFits(ev, e) => FanFits(ev, e)'
<1> SUFFICES ASSUME FanFits(ev, e) PROVE FanFits(ev, e)'
  OBVIOUS
<1> DEFINE n == Len(deliveries)
<1>1. PICK x \in call[w].todo :
        /\ deliveries' = Append(deliveries,
             [event |-> Event(w), endpoint |-> x, status |-> "pending",
              attempts |-> 0, due |-> TRUE])
        /\ call' = [call EXCEPT ![w] = [call[w] EXCEPT !.todo = @ \ {x}]]
  BY DEF InsertDelivery
<1> DEFINE k == [call[w] EXCEPT !.todo = @ \ {x}]
<1>2. /\ k.pc = "fan" /\ call[w].pc = "fan" /\ k.batch = call[w].batch
      /\ k.event = call[w].event /\ k.todo = call[w].todo \ {x}
      /\ call[w].event \notin call[w].batch
  BY Shapes DEF FanInv, Tick, InsertDelivery, At
<1> HIDE DEF k
<1>3. \A v \in Workers : call'[v] = IF v = w THEN k ELSE call[v]
  BY <1>1, TypeParts DEF FanInv, TicksTyped, k
<1>4. n \in Nat /\ DOMAIN deliveries = 1..n /\ deliveries \in Seq(Row) /\ TypeOK
  BY Shapes, TypeParts DEF FanInv, RowsTyped
<1>5. /\ DOMAIN deliveries' = 1..(n + 1) /\ \A i \in 1..n : deliveries'[i] = deliveries[i]
      /\ deliveries'[n + 1].event = call[w].event /\ deliveries'[n + 1].endpoint = x
  BY <1>1, <1>4 DEF Event
<1>6. UNCHANGED <<published, drops>>
  BY DEF InsertDelivery, eventVars, counts
<1>7. CASE ev = call[w].event /\ e = x
  <2>1. Rows(ev, e)' = Rows(ev, e) \union {n + 1} /\ n + 1 \notin Rows(ev, e)
    BY <1>4, <1>5, <1>7 DEF Rows
  <2>2. Cardinality(Rows(ev, e)') = Cardinality(Rows(ev, e)) + 1
    BY <1>4, <2>1, FanSizes, FS_AddElement
  <2>3. Spenders(ev, e)' = Spenders(ev, e) \union {w} /\ w \notin Spenders(ev, e)
    BY <1>1, <1>2, <1>3, <1>7 DEF Spenders, Spent
  <2>4. Cardinality(Spenders(ev, e)') = Cardinality(Spenders(ev, e)) + 1
    <3>1. Spenders(ev, e) \in SUBSET Workers
      BY DEF Spenders
    <3>2. QED
      BY <2>3, <3>1, CrewSize, FS_AddElement
  <2>5. Holders(ev, e)' = Holders(ev, e) \ {w} /\ w \in Holders(ev, e)
    BY <1>1, <1>2, <1>3, <1>7 DEF Holders, Holds
  <2>6. Cardinality(Holders(ev, e)') = Cardinality(Holders(ev, e)) - 1
    <3>1. Holders(ev, e) \in SUBSET Workers
      BY DEF Holders
    <3>2. QED
      BY <2>5, <3>1, CrewSize, FS_RemoveElement
  <2>7. QED
    BY <1>4, <1>6, <2>2, <2>4, <2>6, FanSizes DEF FanFits
<1>8. CASE ~(ev = call[w].event /\ e = x)
  <2>1. Rows(ev, e)' = Rows(ev, e)
    BY <1>4, <1>5, <1>8 DEF Rows
  <2>2. Spenders(ev, e)' = Spenders(ev, e)
    BY <1>2, <1>3, <1>8 DEF Spenders, Spent
  <2>3. Holders(ev, e)' = Holders(ev, e)
    BY <1>2, <1>3, <1>8 DEF Holders, Holds
  <2>4. QED
    BY <1>6, <2>1, <2>2, <2>3 DEF FanFits
<1>9. QED
  BY <1>7, <1>8

\* The event is marked: who spent his turn and who may still take one are two
\* disjoint crews.
LEMMA MarkFan ==
  ASSUME FanInv, NEW w \in Workers, MarkPublished(w), NEW ev, NEW e
  PROVE  FanFits(ev, e) => FanFits(ev, e)'
<1> SUFFICES ASSUME FanFits(ev, e) PROVE FanFits(ev, e)'
  OBVIOUS
<1> DEFINE k == [call[w] EXCEPT !.pc = "drain", !.event = 0]
<1>1. /\ k.pc = "drain" /\ call[w].pc = "fan" /\ k.batch = call[w].batch
      /\ call[w].todo = {} /\ call[w].event \notin call[w].batch
  BY Shapes DEF FanInv, Tick, MarkPublished, At
<1> HIDE DEF k
<1>2. call' = [call EXCEPT ![w] = k] /\ published' = published \union {call[w].event}
      /\ UNCHANGED <<deliveries, drops>>
  BY DEF MarkPublished, k, Event, rowVars, counts
<1>3. \A v \in Workers : call'[v] = IF v = w THEN k ELSE call[v]
  BY <1>2, TypeParts DEF FanInv, TicksTyped
<1>4. TypeOK
  BY DEF FanInv
<1>5. CASE call[w].event = ev /\ ev \notin published
  <2>1. Spenders(ev, e) \in SUBSET Workers /\ Holders(ev, e)' \in SUBSET Workers
    BY DEF Spenders, Holders
  <2>2. Spenders(ev, e) \intersect Holders(ev, e)' = {}
    <3> SUFFICES ASSUME NEW v \in Workers, Spent(call[v], ev, e), Holds(call'[v], ev, e)
                 PROVE  FALSE
      BY DEF Spenders, Holders
    <3>1. v # w
      BY <1>1, <1>3, <1>5 DEF Holds
    <3>2. QED
      BY <1>3, <3>1 DEF FanInv, Holds, Spent
  <2>3. Cardinality(Spenders(ev, e)) + Cardinality(Holders(ev, e)') <= Cardinality(Workers)
    BY <2>1, <2>2, TwoCrews
  <2>4. Rows(ev, e)' = Rows(ev, e)
    BY <1>2 DEF Rows
  <2>5. Cardinality(Holders(ev, e)') \in Nat
    BY <2>1, CrewSize
  <2>6. QED
    BY <1>2, <1>4, <1>5, <2>3, <2>4, <2>5, FanSizes DEF FanFits
<1>6. CASE ~(call[w].event = ev /\ ev \notin published)
  <2>1. ev \in published' <=> ev \in published
    BY <1>2, <1>6
  <2>2. Holds(k, ev, e) => Holds(call[w], ev, e)
    BY <1>1 DEF Holds
  <2>3. ev \notin published => ~Spent(call[w], ev, e)
    BY <1>6 DEF Spent
  <2>4. CASE ev \notin published
    BY <1>2, <1>4, <2>1, <2>2, <2>3, <2>4, QuietTick
  <2>5. CASE ev \in published
    <3>1. Holders(ev, e)' \subseteq Holders(ev, e) /\ Holders(ev, e) \in SUBSET Workers
      BY <1>3, <2>2 DEF Holders
    <3>2. Cardinality(Holders(ev, e)') \in Nat
          /\ Cardinality(Holders(ev, e)') <= Cardinality(Holders(ev, e))
      BY <3>1, CrewSize, SizeMonotonic
    <3>3. Rows(ev, e)' = Rows(ev, e)
      BY <1>2 DEF Rows
    <3>4. QED
      BY <1>2, <1>4, <2>1, <2>5, <3>2, <3>3, FanSizes DEF FanFits
  <2>6. QED
    BY <2>4, <2>5
<1>7. QED
  BY <1>5, <1>6

\* A tick cut short may have spent its turn: that is what `drops` pays for.
LEMMA AbandonFan ==
  ASSUME FanInv, NEW w \in Workers, Abandon(w), NEW ev, NEW e
  PROVE  FanFits(ev, e) => FanFits(ev, e)'
<1> SUFFICES ASSUME FanFits(ev, e) PROVE FanFits(ev, e)'
  OBVIOUS
<1>1. /\ call' = [call EXCEPT ![w] = Idle] /\ drops' = drops + 1
      /\ UNCHANGED <<published, deliveries>> /\ TypeOK
  BY DEF Abandon, FanInv, eventVars, rowVars
<1>2. \A v \in Workers : call'[v] = IF v = w THEN Idle ELSE call[v]
  BY <1>1, TypeParts DEF TicksTyped
<1>3. Idle.pc = "idle" /\ Idle.batch = {}
  BY DEF Idle
<1>4. Holders(ev, e)' \subseteq Holders(ev, e) /\ Holders(ev, e) \in SUBSET Workers
  BY <1>2, <1>3 DEF Holders, Holds
<1>5. Spenders(ev, e) \ {w} = Spenders(ev, e)' /\ Spenders(ev, e) \in SUBSET Workers
  BY <1>2, <1>3 DEF Spenders, Spent
<1>6. Cardinality(Holders(ev, e)') \in Nat
      /\ Cardinality(Holders(ev, e)') <= Cardinality(Holders(ev, e))
  BY <1>4, CrewSize, SizeMonotonic
<1>7. Cardinality(Spenders(ev, e)') >= Cardinality(Spenders(ev, e)) - 1
      /\ Cardinality(Spenders(ev, e)') \in Nat
  <2>1. IsFiniteSet(Spenders(ev, e)) /\ Cardinality(Spenders(ev, e)) \in Nat
    BY <1>5, CrewSize
  <2>2. Spenders(ev, e)' \in SUBSET Workers
    BY DEF Spenders
  <2>3. Cardinality(Spenders(ev, e) \ {w}) >= Cardinality(Spenders(ev, e)) - 1
    BY <2>1, FS_RemoveElement
  <2>4. QED
    BY <1>5, <2>2, <2>3, CrewSize
<1>8. Rows(ev, e)' = Rows(ev, e)
  BY <1>1 DEF Rows
<1>9. QED
  BY <1>1, <1>6, <1>7, <1>8, FanSizes DEF FanFits


LEMMA TickFan ==
  ASSUME FanInv, NEW w \in Workers,
         FetchPending(w) \/ ListEndpoints(w) \/ ListDue(w) \/ Post(w) \/ RecordResult(w)
           \/ LoseResult(w) \/ SaveDelivery(w),
         NEW ev, NEW e
  PROVE  FanFits(ev, e) => FanFits(ev, e)'
<1> SUFFICES ASSUME FanFits(ev, e) PROVE FanFits(ev, e)'
  OBVIOUS
<1> TypeOK /\ call[w] \in Tick(Len(deliveries))
  BY Shapes DEF FanInv
<1>1. CASE FetchPending(w)
  <2> DEFINE k == [Idle EXCEPT !.pc = "drain", !.batch = Oldest(Pending, DrainLimit),
                               !.cool = {x \in Endpoints : endpoint[x].cooled}]
  <2>1. k.pc = "drain" /\ (ev \in published => ev \notin k.batch)
    BY DEF Idle, Oldest, Pending
  <2>2. call' = [call EXCEPT ![w] = k] /\ call[w].pc = "idle"
        /\ UNCHANGED <<deliveries, drops, published>>
    BY <1>1 DEF FetchPending, At, eventVars, rowVars, counts
  <2> HIDE DEF k
  <2>3. /\ ~Spent(call[w], ev, e)
        /\ ev \in published => ~Holds(k, ev, e)
    BY <2>1, <2>2 DEF Holds, Spent
  <2>4. QED
    BY <2>2, <2>3, QuietTick
<1>2. CASE ListEndpoints(w)
  <2>1. PICK x \in Events :
          /\ x \in call[w].batch
          /\ call' = [call EXCEPT ![w] =
               [call[w] EXCEPT !.pc = "fan", !.batch = @ \ {x}, !.event = x,
                               !.todo = Chosen(w, x), !.probed = @ \union Probes(w, x)]]
    BY <1>2 DEF ListEndpoints, NextEvent
  <2> DEFINE k == [call[w] EXCEPT !.pc = "fan", !.batch = @ \ {x}, !.event = x,
                          !.todo = Chosen(w, x), !.probed = @ \union Probes(w, x)]
  <2>2. k.event = x /\ k.batch = call[w].batch \ {x}
    BY DEF Tick
  <2>3. call[w].pc = "drain" /\ UNCHANGED <<deliveries, drops, published>>
    BY <1>2 DEF ListEndpoints, NextEvent, At, eventVars, rowVars, counts
  <2>4. call' = [call EXCEPT ![w] = k]
    BY <2>1
  <2> HIDE DEF k
  <2>5. ~Spent(call[w], ev, e) /\ (Holds(k, ev, e) => Holds(call[w], ev, e))
    BY <2>1, <2>2, <2>3 DEF Holds, Spent
  <2>6. QED
    BY <2>3, <2>4, <2>5, QuietTick
<1>3. CASE ListDue(w) \/ SaveDelivery(w)
  <2>1. PICK k : call' = [call EXCEPT ![w] = k] /\ k.pc \in {"idle", "deliver"} /\ k.batch = {}
    <3>1. PICK jobs : call' = [call EXCEPT ![w] = NextJob(jobs)]
      <4>1. CASE ListDue(w)
        BY <4>1 DEF ListDue
      <4>2. CASE SaveDelivery(w)
        BY <4>2 DEF SaveDelivery
      <4>3. QED
        BY <1>3, <4>1, <4>2
    <3>2. QED
      BY <3>1, NextJobIdles
  <2>2. /\ call[w].pc # "fan" /\ UNCHANGED <<published, drops>>
        /\ Rows(ev, e)' = Rows(ev, e)
    <3>1. CASE ListDue(w)
      BY <3>1 DEF ListDue, At, eventVars, rowVars, counts, Rows
    <3>2. CASE SaveDelivery(w)
      <4> DEFINE i == Job(w).id
                 out == Outcome(Job(w).attempts, call[w].answer)
      <4>1. call[w].pc = "save" /\ UNCHANGED <<published, drops>>
            /\ deliveries' = [deliveries EXCEPT ![i] =
                 [deliveries[i] EXCEPT !.status = out.status, !.attempts = out.attempts,
                                       !.due = out.status # "retrying"]]
        BY <3>2 DEF SaveDelivery, At, eventVars, counts
      <4>2. i \in DOMAIN deliveries /\ DOMAIN deliveries = 1..Len(deliveries)
        BY <4>1, Shapes DEF Tick, Jobs, Job
      <4>3. deliveries[i] \in Row
        BY <4>2, Shapes
      <4>4. /\ deliveries'[i].event = deliveries[i].event
            /\ deliveries'[i].endpoint = deliveries[i].endpoint
        BY <4>1, <4>2, <4>3 DEF Row
      <4>5. /\ DOMAIN deliveries' = DOMAIN deliveries
            /\ \A j \in DOMAIN deliveries : j # i => deliveries'[j] = deliveries[j]
        BY <4>1
      <4> HIDE DEF i, out
      <4>6. QED
        BY <4>1, <4>4, <4>5 DEF Rows
    <3>3. QED
      BY <1>3, <3>1, <3>2
  <2>3. \A v \in Workers : call'[v] = IF v = w THEN k ELSE call[v]
    BY <2>1, TypeParts DEF TicksTyped
  <2>4. Spenders(ev, e) = Spenders(ev, e)'
    BY <2>1, <2>2, <2>3 DEF Spenders, Spent
  <2>5. Holders(ev, e)' \in SUBSET Workers /\ Holders(ev, e)' \subseteq Holders(ev, e)
        /\ Holders(ev, e) \in SUBSET Workers
    BY <2>1, <2>3 DEF Holders, Holds
  <2>6. Cardinality(Holders(ev, e)') \in Nat
        /\ Cardinality(Holders(ev, e)') <= Cardinality(Holders(ev, e))
    BY <2>5, CrewSize, SizeMonotonic
  <2>7. QED
    BY <2>2, <2>4, <2>6, FanSizes DEF FanFits
<1>4. CASE Post(w)
  <2>1. PICK job \in call[w].jobs, answer \in {"ok", "lost", "refused"} :
          call' = [call EXCEPT ![w] = [call[w] EXCEPT !.pc = "result", !.jobs = @ \ {job},
                                                      !.job = job, !.answer = answer]]
    BY <1>4 DEF Post, Answers
  <2> DEFINE k == [call[w] EXCEPT !.pc = "result", !.jobs = @ \ {job},
                                  !.job = job, !.answer = answer]
  <2>2. k.pc = "result" /\ k.batch = call[w].batch
    BY DEF Tick
  <2>3. call[w].pc = "deliver" /\ UNCHANGED <<deliveries, drops, published>>
    BY <1>4 DEF Post, At, eventVars, counts
  <2>4. call' = [call EXCEPT ![w] = k]
    BY <2>1
  <2> HIDE DEF k
  <2>5. ~Spent(call[w], ev, e) /\ (Holds(k, ev, e) => Holds(call[w], ev, e))
    BY <2>2, <2>3 DEF Holds, Spent
  <2>6. QED
    BY <2>3, <2>4, <2>5, QuietTick
<1>5. CASE RecordResult(w)
  <2> DEFINE t == Target(w)
             tick(v) == [call[v] EXCEPT !.cool = @ \ {t}, !.pc = IF v = w THEN "save" ELSE @]
  <2>1. /\ call' = [v \in Workers |-> tick(v)] /\ call[w].pc = "result"
        /\ UNCHANGED <<deliveries, drops, published>>
    BY <1>5 DEF RecordResult, At, eventVars, rowVars, counts
  <2>2. \A v \in Workers :
          /\ tick(v).batch = call[v].batch /\ tick(v).event = call[v].event
          /\ tick(v).todo = call[v].todo
          /\ tick(v).pc = IF v = w THEN "save" ELSE call[v].pc
    BY Shapes DEF Tick
  <2> HIDE DEF tick
  <2>3. Spenders(ev, e) \subseteq Spenders(ev, e)'
    BY <2>1, <2>2 DEF Spenders, Spent
  <2>4. Holders(ev, e)' \subseteq Holders(ev, e)
    BY <2>1, <2>2 DEF Holders, Holds
  <2>5. QED
    BY <2>1, <2>3, <2>4, QuietFan
<1>6. CASE LoseResult(w)
  <2> DEFINE k == [call[w] EXCEPT !.pc = "save"]
  <2>1. k.pc = "save" /\ k.batch = call[w].batch
    BY DEF Tick
  <2>2. /\ call' = [call EXCEPT ![w] = k] /\ drops' = drops + 1 /\ call[w].pc = "result"
        /\ UNCHANGED <<deliveries, published>>
    BY <1>6 DEF LoseResult, At, eventVars, rowVars
  <2> HIDE DEF k
  <2>3. \A v \in Workers : call'[v] = IF v = w THEN k ELSE call[v]
    BY <2>2, TypeParts DEF TicksTyped
  <2>4. Spenders(ev, e) = Spenders(ev, e)'
    BY <2>1, <2>2, <2>3 DEF Spenders, Spent
  <2>5. Holders(ev, e)' = Holders(ev, e)
    BY <2>1, <2>2, <2>3 DEF Holders, Holds
  <2>6. Rows(ev, e)' = Rows(ev, e)
    BY <2>2 DEF Rows
  <2>7. QED
    BY <2>2, <2>4, <2>5, <2>6, FanSizes DEF FanFits
<1>7. QED
  BY <1>1, <1>2, <1>3, <1>4, <1>5, <1>6


LEMMA EnvironmentFan ==
  ASSUME FanInv,
         \/ \E x \in Events : CreateEvent(x)
         \/ \E x \in Endpoints : EditEndpoint(x) \/ CooldownPasses(x)
         \/ \E i \in DOMAIN deliveries : BackoffPasses(i),
         NEW ev, NEW e
  PROVE  FanFits(ev, e) => FanFits(ev, e)'
<1> SUFFICES ASSUME FanFits(ev, e) PROVE FanFits(ev, e)'
  OBVIOUS
<1> TypeOK
  BY DEF FanInv
<1>1. ASSUME UNCHANGED <<deliveries, drops, published, call>> PROVE FanFits(ev, e)'
  BY <1>1 DEF FanFits, Rows, Spenders, Holders
<1>2. ASSUME NEW x \in Endpoints, EditEndpoint(x) PROVE FanFits(ev, e)'
  <2> DEFINE tick(v) == [call[v] EXCEPT !.cool = @ \ {x}]
  <2>1. call' = [v \in Workers |-> tick(v)] /\ UNCHANGED <<deliveries, drops, published>>
    BY <1>2 DEF EditEndpoint, eventVars, rowVars
  <2>2. \A v \in Workers :
          /\ tick(v).batch = call[v].batch /\ tick(v).event = call[v].event
          /\ tick(v).todo = call[v].todo /\ tick(v).pc = call[v].pc
    BY Shapes DEF Tick
  <2> HIDE DEF tick
  <2>3. Spenders(ev, e) \subseteq Spenders(ev, e)' /\ Holders(ev, e)' \subseteq Holders(ev, e)
    BY <2>1, <2>2 DEF Spenders, Spent, Holders, Holds
  <2>4. QED
    BY <2>1, <2>3, QuietFan
<1>3. ASSUME NEW i \in DOMAIN deliveries, BackoffPasses(i) PROVE FanFits(ev, e)'
  <2> DEFINE row == [deliveries[i] EXCEPT !.due = TRUE]
  <2>1. deliveries' = [deliveries EXCEPT ![i] = row] /\ UNCHANGED <<drops, published, call>>
    BY <1>3 DEF BackoffPasses, eventVars, counts
  <2>2. row.event = deliveries[i].event /\ row.endpoint = deliveries[i].endpoint
    BY Shapes DEF Row
  <2> HIDE DEF row
  <2>3. Rows(ev, e)' = Rows(ev, e)
    BY <2>1, <2>2 DEF Rows
  <2>4. QED
    BY <2>1, <2>3 DEF FanFits, Spenders, Holders
<1>4. QED
  BY <1>1, <1>2, <1>3 DEF CreateEvent, CooldownPasses, eventVars, rowVars, counts

\* In the middle of a loop the event is out of the batch.
LEMMA NamedOneTick ==
  ASSUME TypeOK, FanNamed, NEW w \in Workers, NEW k, call' = [call EXCEPT ![w] = k],
         k.pc = "fan" => k.event \notin k.batch
  PROVE  FanNamed'
<1>1. \A v \in Workers : call'[v] = IF v = w THEN k ELSE call[v]
  BY TypeParts DEF TicksTyped
<1>2. QED
  BY <1>1 DEF FanNamed

LEMMA NamedPreserved == TypeOK /\ FanNamed /\ [Next]_vars => FanNamed'
<1> SUFFICES ASSUME TypeOK, FanNamed, [Next]_vars PROVE FanNamed'
  OBVIOUS
<1>1. CASE UNCHANGED call
  BY <1>1 DEF FanNamed
<1>2. ASSUME NEW w \in Workers, FetchPending(w) \/ MarkPublished(w) \/ Post(w) \/ LoseResult(w)
      PROVE  FanNamed'
  <2>1. call[w] \in Tick(Len(deliveries))
    BY Shapes
  <2>2. CASE FetchPending(w)
    <3>1. [Idle EXCEPT !.pc = "drain", !.batch = Oldest(Pending, DrainLimit),
                       !.cool = {e \in Endpoints : endpoint[e].cooled}].pc = "drain"
      BY DEF Idle
    <3>2. QED
      BY <2>2, <3>1, NamedOneTick DEF FetchPending
  <2>3. CASE MarkPublished(w)
    <3>1. [call[w] EXCEPT !.pc = "drain", !.event = 0].pc = "drain"
      BY <2>1 DEF Tick
    <3>2. QED
      BY <2>3, <3>1, NamedOneTick DEF MarkPublished
  <2>4. CASE Post(w)
    <3>1. PICK job \in call[w].jobs, answer \in {"ok", "lost", "refused"} :
            call' = [call EXCEPT ![w] = [call[w] EXCEPT !.pc = "result", !.jobs = @ \ {job},
                                                        !.job = job, !.answer = answer]]
      BY <2>4 DEF Post, Answers
    <3>2. [call[w] EXCEPT !.pc = "result", !.jobs = @ \ {job},
                          !.job = job, !.answer = answer].pc = "result"
      BY <2>1 DEF Tick
    <3>3. QED
      BY <3>1, <3>2, NamedOneTick
  <2>5. CASE LoseResult(w)
    <3>1. [call[w] EXCEPT !.pc = "save"].pc = "save"
      BY <2>1 DEF Tick
    <3>2. QED
      BY <2>5, <3>1, NamedOneTick DEF LoseResult
  <2>6. QED
    BY <1>2, <2>2, <2>3, <2>4, <2>5
<1>3. ASSUME NEW w \in Workers, ListEndpoints(w) PROVE FanNamed'
  <2>1. PICK x \in Events : call' = [call EXCEPT ![w] =
          [call[w] EXCEPT !.pc = "fan", !.batch = @ \ {x}, !.event = x,
                          !.todo = Chosen(w, x), !.probed = @ \union Probes(w, x)]]
    BY <1>3 DEF ListEndpoints
  <2> DEFINE k == [call[w] EXCEPT !.pc = "fan", !.batch = @ \ {x}, !.event = x,
                          !.todo = Chosen(w, x), !.probed = @ \union Probes(w, x)]
  <2>2. k.event = x /\ k.batch = call[w].batch \ {x}
    BY Shapes DEF Tick
  <2>3. call' = [call EXCEPT ![w] = k]
    BY <2>1
  <2> HIDE DEF k
  <2>4. QED
    BY <2>2, <2>3, NamedOneTick
<1>4. ASSUME NEW w \in Workers, InsertDelivery(w) PROVE FanNamed'
  <2>1. PICK x \in call[w].todo :
          call' = [call EXCEPT ![w] = [call[w] EXCEPT !.todo = @ \ {x}]]
    BY <1>4 DEF InsertDelivery
  <2>2. /\ [call[w] EXCEPT !.todo = @ \ {x}].event = call[w].event
        /\ [call[w] EXCEPT !.todo = @ \ {x}].batch = call[w].batch
        /\ call[w].pc = "fan"
    BY <1>4, Shapes DEF Tick, InsertDelivery, At
  <2>3. QED
    BY <2>1, <2>2, NamedOneTick DEF FanNamed
<1>5. ASSUME NEW w \in Workers, ListDue(w) \/ SaveDelivery(w) PROVE FanNamed'
  <2>1. PICK jobs : call' = [call EXCEPT ![w] = NextJob(jobs)]
    <3>1. CASE ListDue(w)
      BY <3>1 DEF ListDue
    <3>2. CASE SaveDelivery(w)
      BY <3>2 DEF SaveDelivery
    <3>3. QED
      BY <1>5, <3>1, <3>2
  <2>2. NextJob(jobs).pc # "fan"
    BY NextJobIdles
  <2>3. QED
    BY <2>1, <2>2, NamedOneTick
<1>6. ASSUME NEW w \in Workers, Abandon(w) PROVE FanNamed'
  <2>1. Idle.pc = "idle"
    BY DEF Idle
  <2>2. QED
    BY <1>6, <2>1, NamedOneTick DEF Abandon
<1>7. ASSUME NEW w \in Workers, RecordResult(w) PROVE FanNamed'
  <2> DEFINE t == Target(w)
             tick(v) == [call[v] EXCEPT !.cool = @ \ {t}, !.pc = IF v = w THEN "save" ELSE @]
  <2>1. call' = [v \in Workers |-> tick(v)]
    BY <1>7 DEF RecordResult
  <2>2. \A v \in Workers :
          /\ tick(v).batch = call[v].batch /\ tick(v).event = call[v].event
          /\ tick(v).pc = IF v = w THEN "save" ELSE call[v].pc
    BY Shapes DEF Tick
  <2> HIDE DEF tick
  <2>3. QED
    BY <2>1, <2>2 DEF FanNamed
<1>8. ASSUME NEW x \in Endpoints, EditEndpoint(x) PROVE FanNamed'
  <2> DEFINE tick(v) == [call[v] EXCEPT !.cool = @ \ {x}]
  <2>1. call' = [v \in Workers |-> tick(v)]
    BY <1>8 DEF EditEndpoint
  <2>2. \A v \in Workers :
          /\ tick(v).batch = call[v].batch /\ tick(v).event = call[v].event
          /\ tick(v).pc = call[v].pc
    BY Shapes DEF Tick
  <2> HIDE DEF tick
  <2>3. QED
    BY <2>1, <2>2 DEF FanNamed
<1>9. ASSUME ~UNCHANGED call
      PROVE  \/ \E w \in Workers : Step(w) \/ LoseResult(w) \/ Abandon(w)
             \/ \E x \in Endpoints : EditEndpoint(x)
  BY <1>9 DEF Next, vars, CreateEvent, CooldownPasses, BackoffPasses
<1>10. QED
  BY <1>1, <1>2, <1>3, <1>4, <1>5, <1>6, <1>7, <1>8, <1>9 DEF Step

LEMMA FanPreserved == FanInv /\ [Next]_vars => FanInv'
<1> SUFFICES ASSUME FanInv, [Next]_vars PROVE FanInv'
  OBVIOUS
<1>1. TypeOK' /\ FanNamed'
  BY TypePreserved, NamedPreserved DEF FanInv, FanNamed
<1>2. ASSUME NEW ev \in Events, NEW e \in Endpoints PROVE FanFits(ev, e)'
  <2>1. FanFits(ev, e)
    BY DEF FanInv
  <2>2. CASE UNCHANGED vars
    BY <2>1, <2>2 DEF vars, FanFits, Rows, Spenders, Holders
  <2>3. ASSUME NEW w \in Workers, Step(w) \/ LoseResult(w) \/ Abandon(w) PROVE FanFits(ev, e)'
    BY <2>1, <2>3, TickFan, InsertFan, MarkFan, AbandonFan DEF Step
  <2>4. QED
    BY <2>1, <2>2, <2>3, EnvironmentFan DEF Next
<1>3. QED
  BY <1>1, <1>2 DEF FanInv, FanNamed

LEMMA FanInitially == Init => FanInv
<1> SUFFICES ASSUME Init PROVE FanInv
  OBVIOUS
<1>1. TypeOK
  BY TypeInitially
<1>2. \A w \in Workers : call[w].pc # "fan"
  BY DEF Init, Idle
<1>3. ASSUME NEW ev \in Events, NEW e \in Endpoints PROVE FanFits(ev, e)
  <2>1. Rows(ev, e) = {}
    BY DEF Init, Rows
  <2>2. Cardinality(Rows(ev, e)) = 0
    BY <2>1, FS_EmptySet
  <2>3. published = {}
    BY DEF Init
  <2>4. QED
    BY <1>1, <2>2, <2>3, FanSizes DEF FanFits
<1>4. QED
  BY <1>1, <1>2, <1>3 DEF FanInv

\* However the drains of several workers interleave and wherever they are cut
\* short: an endpoint is given an event once per worker, and once more for each
\* tick cut short.  Until the event is published each row was given by a worker
\* who will not give it again; after that nobody takes the event up.
THEOREM FanOutAlwaysBounded == Spec => []FanOutIsBounded
<1>1. FanInv => FanOutIsBounded
  <2> SUFFICES ASSUME FanInv, NEW ev \in Events, NEW e \in Endpoints
               PROVE  Cardinality(Rows(ev, e)) <= Cardinality(Workers) + drops
    BY DEF FanOutIsBounded
  <2>1. FanFits(ev, e) /\ TypeOK
    BY DEF FanInv
  <2>2. Cardinality(Spenders(ev, e)) <= Cardinality(Workers)
    <3>1. Spenders(ev, e) \in SUBSET Workers
      BY DEF Spenders
    <3>2. QED
      BY <3>1, CrewSize
  <2>3. QED
    BY <2>1, <2>2, FanSizes DEF FanFits
<1>2. QED
  BY <1>1, FanInitially, FanPreserved, PTL DEF Spec


\* Rows keep their event and their endpoint, and there are only ever more.
RowsKept ==
  /\ DOMAIN deliveries \subseteq DOMAIN deliveries'
  /\ \A i \in DOMAIN deliveries :
       /\ deliveries'[i].event = deliveries[i].event
       /\ deliveries'[i].endpoint = deliveries[i].endpoint

LEMMA RowsStay ==
  ASSUME RowsKept, NEW ev, NEW e
  PROVE  Rows(ev, e) \subseteq Rows(ev, e)'
BY DEF RowsKept, Rows

\* The parts of SteadyServed.
SteadyHealthy == \A e \in Steady : endpoint[e].active /\ endpoint[e].failures = 0
SteadyOpen == \A i \in DOMAIN deliveries :
  deliveries[i].endpoint \in Steady => deliveries[i].status # "dead_lettered"
AnswerOk(k, rows) ==
  (k.pc \in {"result", "save"} /\ rows[k.job.id].endpoint \in Steady) => k.answer = "ok"
FanServes(k, e) ==
  (k.pc = "fan" /\ k.event \in Wants[e]) => (e \in k.todo \/ Rows(k.event, e) # {})
SteadyGiven == \A ev \in published, e \in Steady : ev \in Wants[e] => Rows(ev, e) # {}

LEMMA SteadyParts ==
  SteadyServed <=>
    /\ SteadyHealthy /\ SteadyOpen /\ SteadyGiven
    /\ \A w \in Workers : AnswerOk(call[w], deliveries)
    /\ \A w \in Workers, e \in Steady : FanServes(call[w], e)
BY DEF SteadyServed, SteadyHealthy, SteadyOpen, SteadyGiven, AnswerOk, FanServes,
       Target, Job, Event

\* A worker's tick that leaves rows, endpoints and publications alone.
LEMMA SteadyOneTick ==
  ASSUME SteadyInv, NEW w \in Workers, NEW k, call' = [call EXCEPT ![w] = k],
         UNCHANGED <<deliveries, endpoint, published>>,
         AnswerOk(k, deliveries), \A e \in Steady : FanServes(k, e)
  PROVE  SteadyServed'
<1>1. \A v \in Workers : call'[v] = IF v = w THEN k ELSE call[v]
  BY TypeParts DEF SteadyInv, TicksTyped
<1>2. \A ev, e : Rows(ev, e)' = Rows(ev, e)
  BY DEF Rows
<1>3. SteadyHealthy' /\ SteadyOpen' /\ SteadyGiven'
  BY <1>2, SteadyParts DEF SteadyInv, SteadyHealthy, SteadyOpen, SteadyGiven
<1>4. \A v \in Workers : AnswerOk(call[v], deliveries)' /\ \A e \in Steady : FanServes(call[v], e)'
  BY <1>1, <1>2, SteadyParts DEF SteadyInv, AnswerOk, FanServes
<1>5. QED
  BY <1>3, <1>4, SteadyParts DEF SteadyServed, SteadyHealthy, SteadyOpen, SteadyGiven,
       AnswerOk, FanServes, Target, Job, Event


\* Nothing is asked of a tick that neither fans out nor holds an answer.
LEMMA IdleServes ==
  ASSUME NEW k, k.pc \notin {"fan", "result", "save"}
  PROVE  AnswerOk(k, deliveries) /\ \A e \in Steady : FanServes(k, e)
BY DEF AnswerOk, FanServes

LEMMA SteadyDrains ==
  ASSUME SteadyInv, NEW w \in Workers,
         FetchPending(w) \/ ListEndpoints(w) \/ ListDue(w) \/ Post(w) \/ LoseResult(w) \/ Abandon(w)
  PROVE  SteadyServed'
<1>1. /\ TypeOK /\ call[w] \in Tick(Len(deliveries))
      /\ AnswerOk(call[w], deliveries) /\ \A e \in Steady : FanServes(call[w], e)
      /\ SteadyHealthy
  BY Shapes, SteadyParts DEF SteadyInv
<1>3. CASE FetchPending(w)
  <2> DEFINE k == [Idle EXCEPT !.pc = "drain", !.batch = Oldest(Pending, DrainLimit),
                               !.cool = {x \in Endpoints : endpoint[x].cooled}]
  <2>1. k.pc = "drain"
    BY DEF Idle
  <2>2. call' = [call EXCEPT ![w] = k] /\ UNCHANGED <<deliveries, endpoint, published>>
    BY <1>3 DEF FetchPending, eventVars, rowVars
  <2> HIDE DEF k
  <2>3. QED
    <3>1. AnswerOk(k, deliveries) /\ \A e \in Steady : FanServes(k, e)
      BY <2>1, IdleServes
    <3>2. QED
      BY <2>2, <3>1, SteadyOneTick
<1>4. CASE ListEndpoints(w)
  <2>1. PICK x \in Events : call' = [call EXCEPT ![w] =
          [call[w] EXCEPT !.pc = "fan", !.batch = @ \ {x}, !.event = x,
                          !.todo = Chosen(w, x), !.probed = @ \union Probes(w, x)]]
    BY <1>4 DEF ListEndpoints
  <2> DEFINE k == [call[w] EXCEPT !.pc = "fan", !.batch = @ \ {x}, !.event = x,
                          !.todo = Chosen(w, x), !.probed = @ \union Probes(w, x)]
  <2>2. k.pc = "fan" /\ k.event = x /\ k.todo = Chosen(w, x)
    BY <1>1 DEF Tick
  <2>3. \A e \in Steady : x \in Wants[e] => e \in Chosen(w, x)
    <3> SUFFICES ASSUME NEW e \in Steady, x \in Wants[e] PROVE e \in Chosen(w, x)
      OBVIOUS
    <3>1. e \in Endpoints /\ endpoint[e].active /\ endpoint[e].failures = 0 /\ 0 < Threshold
      BY <1>1, EndpointAssumption, LimitAssumption DEF SteadyHealthy
    <3>2. CircuitState(w, e) = "closed"
      BY <3>1 DEF CircuitState
    <3>3. QED
      BY <3>1, <3>2 DEF Chosen, Listed
  <2>4. call' = [call EXCEPT ![w] = k] /\ UNCHANGED <<deliveries, endpoint, published>>
    BY <1>4, <2>1 DEF ListEndpoints, eventVars, rowVars
  <2> HIDE DEF k
  <2>5. AnswerOk(k, deliveries) /\ \A e \in Steady : FanServes(k, e)
    BY <2>2, <2>3 DEF AnswerOk, FanServes
  <2>6. QED
    BY <2>4, <2>5, SteadyOneTick
<1>5. CASE ListDue(w)
  <2>1. PICK jobs : call' = [call EXCEPT ![w] = NextJob(jobs)]
    BY <1>5 DEF ListDue
  <2>2. UNCHANGED <<deliveries, endpoint, published>>
    BY <1>5 DEF ListDue, eventVars, rowVars
  <2>3. QED
    <3>1. AnswerOk(NextJob(jobs), deliveries) /\ \A e \in Steady : FanServes(NextJob(jobs), e)
      BY NextJobIdles, IdleServes
    <3>2. QED
      BY <2>1, <2>2, <3>1, SteadyOneTick
<1>6. CASE Post(w)
  <2>1. PICK job \in call[w].jobs : \E answer \in Answers(deliveries[job.id].endpoint) :
          call' = [call EXCEPT ![w] = [call[w] EXCEPT !.pc = "result", !.jobs = @ \ {job},
                                                      !.job = job, !.answer = answer]]
    BY <1>6 DEF Post
  <2>a. PICK answer \in Answers(deliveries[job.id].endpoint) :
          call' = [call EXCEPT ![w] = [call[w] EXCEPT !.pc = "result", !.jobs = @ \ {job},
                                                      !.job = job, !.answer = answer]]
    BY <2>1
  <2> DEFINE k == [call[w] EXCEPT !.pc = "result", !.jobs = @ \ {job},
                                  !.job = job, !.answer = answer]
  <2>2. k.pc = "result" /\ k.job = job /\ k.answer = answer
    BY <1>1 DEF Tick
  <2>3. call' = [call EXCEPT ![w] = k] /\ UNCHANGED <<deliveries, endpoint, published>>
    BY <1>6, <2>a DEF Post, eventVars
  <2> HIDE DEF k
  <2>4. AnswerOk(k, deliveries) /\ \A e \in Steady : FanServes(k, e)
    BY <2>2 DEF AnswerOk, FanServes, Answers
  <2>5. QED
    BY <2>3, <2>4, SteadyOneTick
<1>7. CASE LoseResult(w)
  <2> DEFINE k == [call[w] EXCEPT !.pc = "save"]
  <2>1. /\ k.pc = "save" /\ k.job = call[w].job /\ k.answer = call[w].answer
        /\ call[w].pc = "result"
    BY <1>1, <1>7 DEF Tick, LoseResult, At
  <2>2. call' = [call EXCEPT ![w] = k] /\ UNCHANGED <<deliveries, endpoint, published>>
    BY <1>7 DEF LoseResult, eventVars, rowVars
  <2> HIDE DEF k
  <2>3. AnswerOk(k, deliveries) /\ \A e \in Steady : FanServes(k, e)
    BY <1>1, <2>1 DEF AnswerOk, FanServes
  <2>4. QED
    BY <2>2, <2>3, SteadyOneTick
<1>8. CASE Abandon(w)
  <2>1. Idle.pc = "idle"
    BY DEF Idle
  <2>2. call' = [call EXCEPT ![w] = Idle] /\ UNCHANGED <<deliveries, endpoint, published>>
    BY <1>8 DEF Abandon, eventVars, rowVars
  <2>3. QED
    <3>1. AnswerOk(Idle, deliveries) /\ \A e \in Steady : FanServes(Idle, e)
      BY <2>1, IdleServes
    <3>2. QED
      BY <2>2, <3>1, SteadyOneTick
<1>9. QED
  BY <1>3, <1>4, <1>5, <1>6, <1>7, <1>8

\* When rows change, but none loses its event or endpoint: what a tick that is
\* not concerned still shows.
LEMMA StillServed ==
  ASSUME TypeOK, RowsKept, NEW v \in Workers
  PROVE  /\ AnswerOk(call[v], deliveries) => AnswerOk(call[v], deliveries')
         /\ \A ev, e :
              (FanServes(call[v], e) /\ call[v].pc = "fan" /\ call[v].event = ev /\ ev \in Wants[e])
                => (e \in call[v].todo \/ Rows(ev, e)' # {})
<1>1. call[v].pc \in {"result", "save"} => call[v].job.id \in DOMAIN deliveries
  BY Shapes DEF Tick, Jobs
<1>2. AnswerOk(call[v], deliveries) => AnswerOk(call[v], deliveries')
  BY <1>1 DEF AnswerOk, RowsKept
<1>3. \A ev, e : Rows(ev, e) # {} => Rows(ev, e)' # {}
  BY RowsStay
<1>4. QED
  BY <1>2, <1>3 DEF FanServes

LEMMA SteadyInserts ==
  ASSUME SteadyInv, NEW w \in Workers, InsertDelivery(w)
  PROVE  SteadyServed'
<1> DEFINE n == Len(deliveries)
<1>1. PICK x \in call[w].todo :
        /\ deliveries' = Append(deliveries,
             [event |-> Event(w), endpoint |-> x, status |-> "pending",
              attempts |-> 0, due |-> TRUE])
        /\ call' = [call EXCEPT ![w] = [call[w] EXCEPT !.todo = @ \ {x}]]
  BY DEF InsertDelivery
<1> DEFINE k == [call[w] EXCEPT !.todo = @ \ {x}]
<1>2. /\ k.pc = "fan" /\ k.event = call[w].event /\ k.todo = call[w].todo \ {x}
      /\ call[w].pc = "fan"
  BY Shapes DEF SteadyInv, Tick, InsertDelivery, At
<1> HIDE DEF k
<1>3. \A v \in Workers : call'[v] = IF v = w THEN k ELSE call[v]
  BY <1>1, TypeParts DEF SteadyInv, TicksTyped, k
<1>4. n \in Nat /\ DOMAIN deliveries = 1..n /\ deliveries \in Seq(Row) /\ TypeOK
  BY Shapes, TypeParts DEF SteadyInv, RowsTyped
<1>5. /\ DOMAIN deliveries' = 1..(n + 1) /\ \A i \in 1..n : deliveries'[i] = deliveries[i]
      /\ deliveries'[n + 1].event = call[w].event /\ deliveries'[n + 1].endpoint = x
      /\ deliveries'[n + 1].status = "pending"
  BY <1>1, <1>4 DEF Event
<1>6. RowsKept
  BY <1>4, <1>5 DEF RowsKept
<1>7. UNCHANGED <<published, endpoint>>
  BY DEF InsertDelivery, eventVars
<1>8. SteadyHealthy' /\ SteadyOpen'
  BY <1>4, <1>5, <1>7, SteadyParts DEF SteadyInv, SteadyHealthy, SteadyOpen
<1>9. SteadyGiven'
  BY <1>6, <1>7, RowsStay, SteadyParts DEF SteadyInv, SteadyGiven
<1>10. \A v \in Workers : AnswerOk(call[v], deliveries)'
  BY <1>2, <1>3, <1>4, <1>6, StillServed, SteadyParts DEF SteadyInv, AnswerOk
<1>11. ASSUME NEW v \in Workers, NEW e \in Steady PROVE FanServes(call[v], e)'
  <2>1. CASE v = w /\ e = x
    <3>1. \A ev : ev = call[w].event => n + 1 \in Rows(ev, x)'
      BY <1>4, <1>5 DEF Rows
    <3>2. QED
      BY <1>2, <1>3, <2>1, <3>1 DEF FanServes
  <2>2. CASE ~(v = w /\ e = x)
    <3>1. FanServes(call[v], e)
      BY SteadyParts DEF SteadyInv
    <3>2. \A ev : (call[v].pc = "fan" /\ call[v].event = ev /\ ev \in Wants[e]) =>
            (e \in call[v].todo \/ Rows(ev, e)' # {})
      BY <1>4, <1>6, <3>1, StillServed
    <3>3. QED
      BY <1>2, <1>3, <2>2, <3>2 DEF FanServes
  <2>3. QED
    BY <2>1, <2>2
<1>12. QED
  BY <1>8, <1>9, <1>10, <1>11 DEF SteadyServed, SteadyHealthy, SteadyOpen, SteadyGiven,
       AnswerOk, FanServes, Target, Job, Event

LEMMA SteadyMarks ==
  ASSUME SteadyInv, NEW w \in Workers, MarkPublished(w)
  PROVE  SteadyServed'
<1> DEFINE k == [call[w] EXCEPT !.pc = "drain", !.event = 0]
<1>1. k.pc = "drain" /\ call[w].pc = "fan" /\ call[w].todo = {}
  BY Shapes DEF SteadyInv, Tick, MarkPublished, At
<1> HIDE DEF k
<1>2. call' = [call EXCEPT ![w] = k] /\ published' = published \union {call[w].event}
      /\ UNCHANGED <<deliveries, endpoint>>
  BY DEF MarkPublished, k, Event, rowVars
<1>3. \A v \in Workers : call'[v] = IF v = w THEN k ELSE call[v]
  BY <1>2, TypeParts DEF SteadyInv, TicksTyped
<1>4. \A ev, e : Rows(ev, e)' = Rows(ev, e)
  BY <1>2 DEF Rows
<1>5. SteadyHealthy' /\ SteadyOpen'
  BY <1>2, SteadyParts DEF SteadyInv, SteadyHealthy, SteadyOpen
<1>6. \A e \in Steady : call[w].event \in Wants[e] => Rows(call[w].event, e) # {}
  BY <1>1, SteadyParts DEF SteadyInv, FanServes
<1>7. SteadyGiven'
  BY <1>2, <1>4, <1>6, SteadyParts DEF SteadyInv, SteadyGiven
<1>8. \A v \in Workers : AnswerOk(call[v], deliveries)' /\ \A e \in Steady : FanServes(call[v], e)'
  BY <1>1, <1>2, <1>3, <1>4, SteadyParts DEF SteadyInv, AnswerOk, FanServes
<1>9. QED
  BY <1>5, <1>7, <1>8 DEF SteadyServed, SteadyHealthy, SteadyOpen, SteadyGiven,
       AnswerOk, FanServes, Target, Job, Event

\* Endpoints change; steady ones only ever have successes to record.
LEMMA SteadyEndpoints ==
  ASSUME SteadyInv, SteadyHealthy', UNCHANGED <<deliveries, published>>,
         \A v \in Workers :
           /\ call'[v].job = call[v].job /\ call'[v].answer = call[v].answer
           /\ call'[v].event = call[v].event /\ call'[v].todo = call[v].todo
           /\ call'[v].pc = call[v].pc \/ (call[v].pc = "result" /\ call'[v].pc = "save")
  PROVE  SteadyServed'
<1>1. \A ev, e : Rows(ev, e)' = Rows(ev, e)
  BY DEF Rows
<1>2. SteadyOpen' /\ SteadyGiven'
  BY <1>1, SteadyParts DEF SteadyInv, SteadyOpen, SteadyGiven
<1>3. \A v \in Workers : AnswerOk(call[v], deliveries)'
  BY SteadyParts DEF SteadyInv, AnswerOk
<1>4. \A v \in Workers, e \in Steady : FanServes(call[v], e)'
  BY <1>1, SteadyParts DEF SteadyInv, FanServes
<1>5. QED
  BY <1>2, <1>3, <1>4 DEF SteadyServed, SteadyHealthy, SteadyOpen, SteadyGiven,
       AnswerOk, FanServes, Target, Job, Event

LEMMA SteadyRecords ==
  ASSUME SteadyInv, NEW w \in Workers, RecordResult(w)
  PROVE  SteadyServed'
<1> DEFINE t == Target(w)
           failures == IF Succeeded(call[w].answer) THEN 0 ELSE Counted(endpoint[t].failures + 1)
           tick(v) == [call[v] EXCEPT !.cool = @ \ {t}, !.pc = IF v = w THEN "save" ELSE @]
<1>1. /\ call' = [v \in Workers |-> tick(v)] /\ call[w].pc = "result"
      /\ endpoint' = [endpoint EXCEPT ![t].failures = failures, ![t].cooled = FALSE]
      /\ UNCHANGED <<deliveries, published>>
  BY DEF RecordResult, At, eventVars, rowVars
<1>2. \A v \in Workers :
        /\ tick(v).job = call[v].job /\ tick(v).answer = call[v].answer
        /\ tick(v).event = call[v].event /\ tick(v).todo = call[v].todo
        /\ tick(v).pc = IF v = w THEN "save" ELSE call[v].pc
  BY Shapes DEF SteadyInv, Tick
<1> HIDE DEF tick
<1>3. SteadyHealthy'
  <2> SUFFICES ASSUME NEW e \in Steady PROVE (endpoint'[e].active /\ endpoint'[e].failures = 0)
    BY DEF SteadyHealthy
  <2>1. /\ endpoint \in [Endpoints -> [active: BOOLEAN, failures: 0..Threshold, cooled: BOOLEAN]]
        /\ e \in Endpoints /\ endpoint[e].active /\ endpoint[e].failures = 0
    BY EndpointAssumption, TypeParts, SteadyParts DEF SteadyInv, TablesTyped, SteadyHealthy
  <2>2. e = t => failures = 0
    BY <1>1, SteadyParts DEF SteadyInv, AnswerOk, Target, Job, Succeeded
  <2> HIDE DEF failures, t
  <2>3. QED
    BY <1>1, <2>1, <2>2
<1>4. QED
  BY <1>1, <1>2, <1>3, SteadyEndpoints

LEMMA SteadySaves ==
  ASSUME SteadyInv, NEW w \in Workers, SaveDelivery(w)
  PROVE  SteadyServed'
<1> DEFINE i == Job(w).id
           out == Outcome(Job(w).attempts, call[w].answer)
           row == [deliveries[i] EXCEPT !.status = out.status, !.attempts = out.attempts,
                                        !.due = out.status # "retrying"]
<1>1. /\ call[w].pc = "save" /\ UNCHANGED <<published, endpoint>>
      /\ deliveries' = [deliveries EXCEPT ![i] = row]
      /\ call' = [call EXCEPT ![w] = NextJob(call[w].jobs)]
  BY DEF SaveDelivery, At, eventVars
<1>2. /\ TypeOK /\ i \in DOMAIN deliveries /\ deliveries[i] \in Row
  <2>1. TypeOK /\ call[w] \in Tick(Len(deliveries)) /\ DOMAIN deliveries = 1..Len(deliveries)
    BY Shapes DEF SteadyInv
  <2>2. i \in DOMAIN deliveries
    BY <1>1, <2>1 DEF Tick, Jobs, Job
  <2>3. QED
    BY <2>1, <2>2, Shapes
<1>3. /\ row.event = deliveries[i].event /\ row.endpoint = deliveries[i].endpoint
      /\ row.status = out.status
  BY <1>2 DEF Row
<1>4. deliveries[i].endpoint \in Steady => out.status = "delivered"
  BY <1>1, SteadyParts DEF SteadyInv, AnswerOk, Outcome, Succeeded, Job
<1> HIDE DEF row, out, i
<1>5. RowsKept
  BY <1>1, <1>2, <1>3 DEF RowsKept
<1>6. \A v \in Workers : call'[v] = IF v = w THEN NextJob(call[w].jobs) ELSE call[v]
  BY <1>1, <1>2, TypeParts DEF TicksTyped
<1>7. SteadyHealthy' /\ SteadyOpen'
  BY <1>1, <1>2, <1>3, <1>4, SteadyParts DEF SteadyInv, SteadyHealthy, SteadyOpen
<1>8. SteadyGiven'
  BY <1>1, <1>5, RowsStay, SteadyParts DEF SteadyInv, SteadyGiven
<1>9. \A v \in Workers : AnswerOk(call[v], deliveries)'
  BY <1>2, <1>5, <1>6, NextJobIdles, StillServed, SteadyParts DEF SteadyInv, AnswerOk
<1>10. ASSUME NEW v \in Workers, NEW e \in Steady PROVE FanServes(call[v], e)'
  <2>1. FanServes(call[v], e)
    BY SteadyParts DEF SteadyInv
  <2>2. \A ev : (call[v].pc = "fan" /\ call[v].event = ev /\ ev \in Wants[e]) =>
          (e \in call[v].todo \/ Rows(ev, e)' # {})
    BY <1>2, <1>5, <2>1, StillServed
  <2>3. NextJob(call[w].jobs).pc # "fan"
    BY NextJobIdles
  <2>4. QED
    BY <1>6, <2>2, <2>3 DEF FanServes
<1>11. QED
  BY <1>7, <1>8, <1>9, <1>10 DEF SteadyServed, SteadyHealthy, SteadyOpen, SteadyGiven,
       AnswerOk, FanServes, Target, Job, Event

LEMMA SteadyEnvironment ==
  ASSUME SteadyInv,
         \/ UNCHANGED vars
         \/ \E x \in Events : CreateEvent(x)
         \/ \E x \in Endpoints : EditEndpoint(x) \/ CooldownPasses(x)
         \/ \E i \in DOMAIN deliveries : BackoffPasses(i)
  PROVE  SteadyServed'
<1>1. /\ TypeOK /\ SteadyHealthy
      /\ endpoint \in [Endpoints -> [active: BOOLEAN, failures: 0..Threshold, cooled: BOOLEAN]]
  BY TypeParts, SteadyParts DEF SteadyInv, TablesTyped
<1>2. ASSUME UNCHANGED <<deliveries, published, endpoint, call>> PROVE SteadyServed'
  BY <1>1, <1>2, SteadyEndpoints DEF SteadyHealthy
<1>3. ASSUME NEW x \in Endpoints, EditEndpoint(x) PROVE SteadyServed'
  <2> DEFINE tick(v) == [call[v] EXCEPT !.cool = @ \ {x}]
  <2>1. call' = [v \in Workers |-> tick(v)] /\ UNCHANGED <<deliveries, published>>
    BY <1>3 DEF EditEndpoint, eventVars, rowVars
  <2>2. \A v \in Workers :
          /\ tick(v).job = call[v].job /\ tick(v).answer = call[v].answer
          /\ tick(v).event = call[v].event /\ tick(v).todo = call[v].todo
          /\ tick(v).pc = call[v].pc
    BY <1>1, Shapes DEF Tick
  <2> HIDE DEF tick
  <2>3. SteadyHealthy'
    <3>1. x \notin Steady /\ \A e \in Endpoints : e # x => endpoint'[e] = endpoint[e]
      BY <1>1, <1>3 DEF EditEndpoint
    <3>2. QED
      BY <1>1, <3>1, EndpointAssumption DEF SteadyHealthy
  <2>4. QED
    BY <2>1, <2>2, <2>3, SteadyEndpoints
<1>4. ASSUME NEW x \in Endpoints, CooldownPasses(x) PROVE SteadyServed'
  <2>1. endpoint' = [endpoint EXCEPT ![x].cooled = TRUE]
        /\ UNCHANGED <<deliveries, published, call>>
    BY <1>4 DEF CooldownPasses, eventVars, rowVars
  <2>2. SteadyHealthy'
    <3> SUFFICES ASSUME NEW e \in Steady PROVE (endpoint'[e].active /\ endpoint'[e].failures = 0)
      BY DEF SteadyHealthy
    <3>1. e \in Endpoints /\ endpoint[e].active /\ endpoint[e].failures = 0
      BY <1>1, EndpointAssumption DEF SteadyHealthy
    <3>2. QED
      BY <1>1, <2>1, <3>1
  <2>3. QED
    BY <2>1, <2>2, SteadyEndpoints
<1>5. ASSUME NEW i \in DOMAIN deliveries, BackoffPasses(i) PROVE SteadyServed'
  <2> DEFINE row == [deliveries[i] EXCEPT !.due = TRUE]
  <2>1. deliveries' = [deliveries EXCEPT ![i] = row] /\ UNCHANGED <<published, endpoint, call>>
    BY <1>5 DEF BackoffPasses, eventVars
  <2>2. /\ row.event = deliveries[i].event /\ row.endpoint = deliveries[i].endpoint
        /\ row.status = deliveries[i].status
    BY <1>1, Shapes DEF Row
  <2> HIDE DEF row
  <2>3. RowsKept
    BY <2>1, <2>2 DEF RowsKept
  <2>4. SteadyHealthy' /\ SteadyOpen'
    BY <2>1, <2>2, SteadyParts DEF SteadyInv, SteadyHealthy, SteadyOpen
  <2>5. SteadyGiven'
    BY <2>1, <2>3, RowsStay, SteadyParts DEF SteadyInv, SteadyGiven
  <2>6. \A v \in Workers : AnswerOk(call[v], deliveries)'
    BY <1>1, <2>1, <2>3, StillServed, SteadyParts DEF SteadyInv, AnswerOk
  <2>7. ASSUME NEW v \in Workers, NEW e \in Steady PROVE FanServes(call[v], e)'
    <3>1. FanServes(call[v], e)
      BY SteadyParts DEF SteadyInv
    <3>2. \A ev : (call[v].pc = "fan" /\ call[v].event = ev /\ ev \in Wants[e]) =>
            (e \in call[v].todo \/ Rows(ev, e)' # {})
      BY <1>1, <2>3, <3>1, StillServed
    <3>3. QED
      BY <2>1, <3>2 DEF FanServes
  <2>8. QED
    BY <2>4, <2>5, <2>6, <2>7 DEF SteadyServed, SteadyHealthy, SteadyOpen, SteadyGiven,
         AnswerOk, FanServes, Target, Job, Event
<1>6. QED
  BY <1>2, <1>3, <1>4, <1>5 DEF CreateEvent, vars, rowVars

LEMMA SteadyPreserved == SteadyInv /\ [Next]_vars => SteadyInv'
<1> SUFFICES ASSUME SteadyInv, [Next]_vars PROVE SteadyInv'
  OBVIOUS
<1>1. TypeOK'
  BY TypePreserved DEF SteadyInv
<1>2. ASSUME NEW w \in Workers, Step(w) \/ LoseResult(w) \/ Abandon(w) PROVE SteadyServed'
  BY <1>2, SteadyDrains, SteadyInserts, SteadyMarks, SteadyRecords, SteadySaves DEF Step
<1>3. ASSUME UNCHANGED vars PROVE SteadyServed'
  BY <1>3, SteadyEnvironment
<1>4. QED
  BY <1>1, <1>2, <1>3, SteadyEnvironment DEF Next, SteadyInv

LEMMA SteadyInitially == Init => SteadyInv
<1> SUFFICES ASSUME Init PROVE SteadyInv
  OBVIOUS
<1>1. TypeOK
  BY TypeInitially
<1>2. \A w \in Workers : call[w].pc = "idle"
  BY DEF Init, Idle
<1>3. deliveries = << >> /\ published = {}
  BY DEF Init
<1>4. SteadyHealthy
  BY EndpointAssumption DEF Init, SteadyHealthy
<1>5. SteadyOpen /\ SteadyGiven
  BY <1>3 DEF SteadyOpen, SteadyGiven
<1>6. \A w \in Workers : AnswerOk(call[w], deliveries) /\ \A e \in Steady : FanServes(call[w], e)
  BY <1>2 DEF AnswerOk, FanServes
<1>7. QED
  BY <1>1, <1>4, <1>5, <1>6, SteadyParts DEF SteadyInv

\* Open circuits and dead endpoints of others, crashes, edits and several
\* workers take nothing from a subscriber that always answers 2xx: once an
\* event is published he has a delivery of it, and it is not given up.  His
\* circuit stays closed, so every drain chooses him, and a drain marks an event
\* only when it has gone through those it chose.
THEOREM SteadyAlwaysServed == Spec => []SteadyGetsEveryEvent
<1>1. SteadyInv => SteadyGetsEveryEvent
  <2> SUFFICES ASSUME SteadyInv, NEW ev \in published, NEW e \in Steady, ev \in Wants[e]
               PROVE  \E i \in Rows(ev, e) : deliveries[i].status # "dead_lettered"
    BY DEF SteadyGetsEveryEvent
  <2>1. PICK i : i \in Rows(ev, e)
    BY SteadyParts DEF SteadyInv, SteadyGiven
  <2>2. QED
    BY <2>1, SteadyParts DEF SteadyInv, SteadyOpen, Rows
<1>2. QED
  BY <1>1, SteadyInitially, SteadyPreserved, PTL DEF Spec

-----------------------------------------------------------------------------
(* One worker: what it holds of a delivery is the delivery, so that one    *)
(* that is over is never touched again.                                    *)

OneWorker == \E w : Workers = {w}

\* A copy of a row that nobody has changed since, and that is not over.
IsCopy(job, rows) ==
  rows[job.id].status \notin Over /\ rows[job.id].attempts = job.attempts

\* A tick that has posted a delivery and not yet written its row.
Posted(k, i) == k.pc \in {"result", "save"} /\ k.job.id = i

TickOwns(k, rows) ==
  /\ \A job \in k.jobs : IsCopy(job, rows)
  /\ k.pc \in {"result", "save"} =>
       /\ IsCopy(k.job, rows)
       /\ \A job \in k.jobs : job.id # k.job.id

\* The row counts every POST but the one being written, and those of ticks cut
\* short, of which there were `cut`.
RowCounts(row, posts, cut, posted) ==
  /\ ~row.due => row.status = "retrying"
  /\ row.status \notin Over =>
       /\ row.attempts < MaxAttempts
       /\ posts.tries <= row.attempts + cut + (IF posted THEN 1 ELSE 0)
  /\ row.status \in Over => posts.tries <= MaxAttempts + cut

Owned == \A w \in Workers :
  /\ TickOwns(call[w], deliveries)
  /\ \A i \in DOMAIN deliveries :
       RowCounts(deliveries[i], traffic[i], drops, Posted(call[w], i))

OwnedInv == IInv /\ Owned

\* What the one worker's tick and the tables say of each other.
LEMMA OwnedHere ==
  ASSUME OwnedInv, NEW w \in Workers
  PROVE  /\ TypeOK /\ Len(deliveries) \in Nat
         /\ DOMAIN deliveries = 1..Len(deliveries) /\ DOMAIN traffic = 1..Len(deliveries)
         /\ \A i \in 1..Len(deliveries) : deliveries[i] \in Row /\ traffic[i] \in Traffic
         /\ call[w] \in Tick(Len(deliveries)) /\ drops \in Nat
         /\ TickOwns(call[w], deliveries)
         /\ \A i \in 1..Len(deliveries) :
              RowCounts(deliveries[i], traffic[i], drops, Posted(call[w], i))
<1>1. TypeOK
  BY DEF OwnedInv, IInv
<1>2. drops \in Nat
  BY <1>1, TypeParts, LimitAssumption DEF TablesTyped
<1>3. QED
  BY <1>1, <1>2, Shapes DEF OwnedInv, Owned

LEMMA OwnedThen ==
  ASSUME OneWorker, NEW w \in Workers, TickOwns(call'[w], deliveries'),
         \A i \in DOMAIN deliveries' :
           RowCounts(deliveries'[i], traffic'[i], drops', Posted(call'[w], i))
  PROVE  Owned'
<1>1. \A v \in Workers : v = w
  BY DEF OneWorker
<1>2. QED
  BY <1>1 DEF Owned

\* A POST may move from the tick to the count of cut ticks, never disappear.
LEMMA CountsCarry ==
  ASSUME NEW row \in Row, NEW posts \in Traffic, NEW cut \in Nat, NEW more \in Nat,
         NEW p \in BOOLEAN, NEW q \in BOOLEAN, RowCounts(row, posts, cut, p),
         more >= cut, (p /\ ~q) => more >= cut + 1
  PROVE  RowCounts(row, posts, more, q)
<1>1. row.attempts \in Nat /\ posts.tries \in Nat /\ MaxAttempts \in Nat
  BY LimitAssumption DEF Row, Traffic
<1>2. QED
  BY <1>1 DEF RowCounts

\* A tick moves on and leaves the rows alone.
LEMMA OwnedTick ==
  ASSUME OneWorker, OwnedInv, NEW w \in Workers, NEW k, call' = [call EXCEPT ![w] = k],
         UNCHANGED rowVars, drops' \in Nat, drops' >= drops, TickOwns(k, deliveries),
         \A i \in 1..Len(deliveries) : (Posted(call[w], i) /\ ~Posted(k, i)) => drops' >= drops + 1
  PROVE  Owned'
<1>1. call'[w] = k
  BY TypeParts DEF OwnedInv, IInv, TicksTyped
<1>2. ASSUME NEW i \in 1..Len(deliveries)
      PROVE  RowCounts(deliveries[i], traffic[i], drops', Posted(k, i))
  <2>1. /\ deliveries[i] \in Row /\ traffic[i] \in Traffic /\ drops \in Nat
        /\ RowCounts(deliveries[i], traffic[i], drops, Posted(call[w], i))
    BY OwnedHere
  <2>2. Posted(call[w], i) \in BOOLEAN /\ Posted(k, i) \in BOOLEAN
    BY DEF Posted
  <2>3. QED
    BY <2>1, <2>2, CountsCarry
<1>3. DOMAIN deliveries = 1..Len(deliveries)
  BY OwnedHere
<1>4. QED
  BY <1>1, <1>2, <1>3, OwnedThen DEF rowVars

LEMMA OwnedQuiet ==
  ASSUME OneWorker, OwnedInv, NEW w \in Workers, NEW k, call' = [call EXCEPT ![w] = k],
         UNCHANGED rowVars, UNCHANGED drops, TickOwns(k, deliveries),
         call[w].pc \notin {"result", "save"}
  PROVE  Owned'
<1>1. \A i : ~Posted(call[w], i)
  BY DEF Posted
<1>2. drops' \in Nat /\ drops' >= drops
  BY OwnedHere
<1>3. QED
  BY <1>1, <1>2, OwnedTick

\* The jobs left are copies if all were.
LEMMA OwnedNext ==
  ASSUME NEW rows, NEW jobs, \A job \in jobs : IsCopy(job, rows)
  PROVE  TickOwns(NextJob(jobs), rows)
<1>1. CASE jobs = {}
  BY <1>1 DEF TickOwns, NextJob, Idle
<1>2. CASE jobs # {}
  <2>1. NextJob(jobs).pc = "deliver" /\ NextJob(jobs).jobs = jobs
    BY <1>2 DEF NextJob, Idle
  <2>2. QED
    BY <2>1 DEF TickOwns
<1>3. QED
  BY <1>1, <1>2

LEMMA OwnedDrains ==
  ASSUME OneWorker, OwnedInv, NEW w \in Workers,
         \/ FetchPending(w) \/ ListEndpoints(w) \/ MarkPublished(w)
         \/ ListDue(w) \/ LoseResult(w) \/ Abandon(w)
  PROVE  Owned'
<1>1. /\ call[w] \in Tick(Len(deliveries)) /\ drops \in Nat /\ TickOwns(call[w], deliveries)
      /\ DOMAIN deliveries = 1..Len(deliveries)
  BY OwnedHere
<1>2. ASSUME NEW k, k.jobs = {}, k.pc \notin {"result", "save"} PROVE TickOwns(k, deliveries)
  BY <1>2 DEF TickOwns
<1>3. CASE FetchPending(w)
  <2> DEFINE k == [Idle EXCEPT !.pc = "drain", !.batch = Oldest(Pending, DrainLimit),
                               !.cool = {e \in Endpoints : endpoint[e].cooled}]
  <2>1. k.pc = "drain" /\ k.jobs = {}
    BY DEF Idle
  <2>2. call' = [call EXCEPT ![w] = k] /\ UNCHANGED rowVars /\ drops' = drops
        /\ call[w].pc = "idle"
    BY <1>3 DEF FetchPending, At, counts
  <2> HIDE DEF k
  <2>3. TickOwns(k, deliveries)
    BY <1>2, <2>1
  <2>4. QED
    BY <2>2, <2>3, OwnedQuiet
<1>4. CASE ListEndpoints(w)
  <2>1. PICK ev \in Events : call' = [call EXCEPT ![w] =
          [call[w] EXCEPT !.pc = "fan", !.batch = @ \ {ev}, !.event = ev,
                          !.todo = Chosen(w, ev), !.probed = @ \union Probes(w, ev)]]
    BY <1>4 DEF ListEndpoints
  <2> DEFINE k == [call[w] EXCEPT !.pc = "fan", !.batch = @ \ {ev}, !.event = ev,
                          !.todo = Chosen(w, ev), !.probed = @ \union Probes(w, ev)]
  <2>2. k.pc = "fan" /\ k.jobs = call[w].jobs
    BY <1>1 DEF Tick
  <2>3. call' = [call EXCEPT ![w] = k] /\ UNCHANGED rowVars /\ drops' = drops
        /\ call[w].pc = "drain"
    BY <1>4, <2>1 DEF ListEndpoints, NextEvent, At, counts
  <2> HIDE DEF k
  <2>4. TickOwns(k, deliveries)
    BY <1>1, <2>2, <2>3 DEF TickOwns
  <2>5. QED
    BY <2>3, <2>4, OwnedQuiet
<1>5. CASE MarkPublished(w)
  <2> DEFINE k == [call[w] EXCEPT !.pc = "drain", !.event = 0]
  <2>1. k.pc = "drain" /\ k.jobs = call[w].jobs
    BY <1>1 DEF Tick
  <2>2. call' = [call EXCEPT ![w] = k] /\ UNCHANGED rowVars /\ drops' = drops
        /\ call[w].pc = "fan"
    BY <1>5 DEF MarkPublished, At, counts
  <2> HIDE DEF k
  <2>3. TickOwns(k, deliveries)
    BY <1>1, <2>1, <2>2 DEF TickOwns
  <2>4. QED
    BY <2>2, <2>3, OwnedQuiet
<1>6. CASE ListDue(w)
  <2> DEFINE jobs == {[id |-> i, attempts |-> deliveries[i].attempts] :
                        i \in Oldest(Due, DeliverLimit)}
  <2>1. \A job \in jobs : IsCopy(job, deliveries)
    <3>1. Oldest(Due, DeliverLimit) \subseteq Due
      BY DEF Oldest
    <3>2. \A i \in Due : deliveries[i].status \notin Over
      BY DEF Due, Over
    <3>3. QED
      BY <3>1, <3>2 DEF IsCopy
  <2>2. call' = [call EXCEPT ![w] = NextJob(jobs)] /\ UNCHANGED rowVars /\ drops' = drops
        /\ call[w].pc = "drain"
    BY <1>6 DEF ListDue, At, counts
  <2> HIDE DEF jobs
  <2>3. TickOwns(NextJob(jobs), deliveries)
    BY <2>1, OwnedNext
  <2>4. QED
    BY <2>2, <2>3, OwnedQuiet
<1>7. CASE LoseResult(w)
  <2> DEFINE k == [call[w] EXCEPT !.pc = "save"]
  <2>1. k.pc = "save" /\ k.jobs = call[w].jobs /\ k.job = call[w].job
    BY <1>1 DEF Tick
  <2>2. call' = [call EXCEPT ![w] = k] /\ UNCHANGED rowVars /\ drops' = drops + 1
        /\ call[w].pc = "result"
    BY <1>7 DEF LoseResult, At
  <2> HIDE DEF k
  <2>3. TickOwns(k, deliveries)
    BY <1>1, <2>1, <2>2 DEF TickOwns
  <2>4. drops' \in Nat /\ drops' >= drops /\ drops' >= drops + 1
    BY <1>1, <2>2
  <2>5. QED
    BY <1>1, <2>2, <2>3, <2>4, OwnedTick
<1>8. CASE Abandon(w)
  <2>1. Idle.pc = "idle" /\ Idle.jobs = {}
    BY DEF Idle
  <2>2. call' = [call EXCEPT ![w] = Idle] /\ UNCHANGED rowVars /\ drops' = drops + 1
    BY <1>8 DEF Abandon
  <2>3. TickOwns(Idle, deliveries)
    BY <1>2, <2>1
  <2>4. drops' \in Nat /\ drops' >= drops /\ drops' >= drops + 1
    BY <1>1, <2>2
  <2>5. QED
    BY <1>1, <2>2, <2>3, <2>4, OwnedTick
<1>9. QED
  BY <1>3, <1>4, <1>5, <1>6, <1>7, <1>8


LEMMA OwnedInserts ==
  ASSUME OneWorker, OwnedInv, NEW w \in Workers, InsertDelivery(w)
  PROVE  Owned'
<1> DEFINE n == Len(deliveries)
<1>1. PICK x \in call[w].todo :
        /\ deliveries' = Append(deliveries,
             [event |-> Event(w), endpoint |-> x, status |-> "pending",
              attempts |-> 0, due |-> TRUE])
        /\ traffic' = Append(traffic, [tries |-> 0, accepted |-> FALSE])
        /\ call' = [call EXCEPT ![w] = [call[w] EXCEPT !.todo = @ \ {x}]]
  BY DEF InsertDelivery
<1> DEFINE k == [call[w] EXCEPT !.todo = @ \ {x}]
<1>2. /\ call[w] \in Tick(n) /\ call[w].pc = "fan" /\ drops' = drops
      /\ deliveries \in Seq(Row) /\ traffic \in Seq(Traffic) /\ n \in Nat /\ n = Len(traffic)
      /\ DOMAIN deliveries = 1..n /\ drops \in Nat
  BY OwnedHere, TypeParts DEF InsertDelivery, At, counts, OwnedInv, IInv, RowsTyped
<1>3. k.pc = "fan" /\ k.jobs = call[w].jobs /\ call'[w] = k
  BY <1>1, <1>2, TypeParts DEF Tick, OwnedInv, IInv, TicksTyped
<1> HIDE DEF k
<1>4. /\ DOMAIN deliveries' = 1..(n + 1)
      /\ \A i \in 1..n : deliveries'[i] = deliveries[i] /\ traffic'[i] = traffic[i]
      /\ deliveries'[n + 1].status = "pending" /\ deliveries'[n + 1].attempts = 0
      /\ deliveries'[n + 1].due /\ traffic'[n + 1].tries = 0
  BY <1>1, <1>2
<1>5. TickOwns(k, deliveries')
  <2>1. \A job \in call[w].jobs : IsCopy(job, deliveries) /\ job.id \in 1..n
    BY <1>2, OwnedHere DEF TickOwns, Tick, Jobs
  <2>2. \A job \in call[w].jobs : IsCopy(job, deliveries')
    BY <1>4, <2>1 DEF IsCopy
  <2>3. QED
    BY <1>3, <2>2 DEF TickOwns
<1>6. ASSUME NEW i \in 1..(n + 1)
      PROVE  RowCounts(deliveries'[i], traffic'[i], drops', Posted(k, i))
  <2>1. ~Posted(k, i) /\ ~Posted(call[w], i)
    BY <1>2, <1>3 DEF Posted
  <2>2. CASE i = n + 1
    <3>1. MaxAttempts \in Nat /\ 0 < MaxAttempts
      BY LimitAssumption
    <3>2. QED
      BY <1>2, <1>4, <2>1, <2>2, <3>1 DEF RowCounts, Over
  <2>3. CASE i \in 1..n
    <3>1. RowCounts(deliveries[i], traffic[i], drops, Posted(call[w], i))
      BY <2>3, OwnedHere
    <3>2. QED
      BY <1>2, <1>4, <2>1, <2>3, <3>1 DEF RowCounts
  <2>4. QED
    BY <1>2, <2>2, <2>3
<1>7. QED
  BY <1>3, <1>4, <1>5, <1>6, OwnedThen

\* The row of the job that is posted is open, and no other job names it.
LEMMA OwnedPosts ==
  ASSUME OneWorker, OwnedInv, NEW w \in Workers, Post(w)
  PROVE  Owned'
<1> DEFINE n == Len(deliveries)
<1>1. PICK job \in call[w].jobs, answer \in {"ok", "lost", "refused"} :
        /\ traffic' = [traffic EXCEPT ![job.id] =
             [tries |-> @.tries + 1, accepted |-> @.accepted \/ answer # "refused"]]
        /\ call' = [call EXCEPT ![w] = [call[w] EXCEPT !.pc = "result", !.jobs = @ \ {job},
                                                       !.job = job, !.answer = answer]]
  BY DEF Post, Answers
<1> DEFINE k == [call[w] EXCEPT !.pc = "result", !.jobs = @ \ {job},
                                !.job = job, !.answer = answer]
<1>2. /\ call[w] \in Tick(n) /\ n \in Nat /\ DOMAIN deliveries = 1..n /\ DOMAIN traffic = 1..n
      /\ call[w].pc = "deliver" /\ drops' = drops /\ UNCHANGED deliveries /\ drops \in Nat
      /\ \A i \in 1..n : deliveries[i] \in Row /\ traffic[i] \in Traffic
  BY OwnedHere DEF Post, At, counts
<1>3. /\ k.pc = "result" /\ k.jobs = call[w].jobs \ {job} /\ k.job = job /\ call'[w] = k
  BY <1>1, <1>2, TypeParts DEF Tick, OwnedInv, IInv, TicksTyped
<1> HIDE DEF k
<1>4. /\ \A other \in call[w].jobs : IsCopy(other, deliveries) /\ other \in Jobs(n)
      /\ job \in Jobs(n) /\ job.id \in 1..n
  BY <1>2, OwnedHere DEF TickOwns, Tick, Jobs
<1>5. TickOwns(k, deliveries)
  <2>1. ASSUME NEW other \in call[w].jobs, other.id = job.id PROVE other = job
    BY <1>4, <2>1 DEF IsCopy, Jobs
  <2>2. QED
    BY <1>3, <1>4, <2>1 DEF TickOwns
<1>6. /\ \A i \in 1..n : i # job.id => traffic'[i] = traffic[i]
      /\ traffic'[job.id].tries = traffic[job.id].tries + 1
  BY <1>1, <1>2, <1>4
<1>7. ASSUME NEW i \in 1..n
      PROVE  RowCounts(deliveries[i], traffic'[i], drops, Posted(k, i))
  <2>1. /\ RowCounts(deliveries[i], traffic[i], drops, Posted(call[w], i))
        /\ ~Posted(call[w], i)
    BY <1>2, OwnedHere DEF Posted
  <2>2. CASE i = job.id
    <3>1. deliveries[i].status \notin Over /\ Posted(k, i)
      BY <1>3, <1>4, <2>2 DEF IsCopy, Posted
    <3>2. deliveries[i].attempts \in Nat /\ traffic[i].tries \in Nat
      BY <1>2 DEF Row, Traffic
    <3>3. QED
      BY <1>2, <1>6, <2>1, <2>2, <3>1, <3>2 DEF RowCounts
  <2>3. CASE i # job.id
    <3>1. ~Posted(k, i) /\ traffic'[i] = traffic[i]
      BY <1>3, <1>6, <2>3 DEF Posted
    <3>2. QED
      BY <2>1, <3>1 DEF RowCounts
  <2>4. QED
    BY <2>2, <2>3
<1>8. QED
  BY <1>2, <1>3, <1>5, <1>7, OwnedThen

\* Endpoints change; jobs and rows do not.
LEMMA OwnedAside ==
  ASSUME OneWorker, OwnedInv, NEW w \in Workers, UNCHANGED <<rowVars, drops>>,
         call'[w].jobs = call[w].jobs, call'[w].job = call[w].job,
         call'[w].pc = call[w].pc \/ (call[w].pc = "result" /\ call'[w].pc = "save")
  PROVE  Owned'
<1>1. TickOwns(call'[w], deliveries)
  BY OwnedHere DEF TickOwns
<1>2. \A i : Posted(call'[w], i) <=> Posted(call[w], i)
  BY DEF Posted
<1>3. \A i \in DOMAIN deliveries :
        RowCounts(deliveries[i], traffic[i], drops, Posted(call'[w], i))
  BY <1>2, OwnedHere DEF RowCounts
<1>4. QED
  BY <1>1, <1>3, OwnedThen DEF rowVars

LEMMA OwnedRecords ==
  ASSUME OneWorker, OwnedInv, NEW w \in Workers, RecordResult(w)
  PROVE  Owned'
<1> DEFINE t == Target(w)
           tick(v) == [call[v] EXCEPT !.cool = @ \ {t}, !.pc = IF v = w THEN "save" ELSE @]
<1>1. /\ call' = [v \in Workers |-> tick(v)] /\ call[w].pc = "result"
      /\ UNCHANGED <<rowVars, drops>>
  BY DEF RecordResult, At, counts
<1>2. tick(w).jobs = call[w].jobs /\ tick(w).job = call[w].job /\ tick(w).pc = "save"
  BY OwnedHere DEF Tick
<1> HIDE DEF tick
<1>3. QED
  BY <1>1, <1>2, OwnedAside

\* The row that is written was open and has the copy's attempts.
LEMMA OwnedSaves ==
  ASSUME OneWorker, OwnedInv, NEW w \in Workers, SaveDelivery(w)
  PROVE  Owned'
<1> DEFINE n == Len(deliveries)
           i == Job(w).id
           out == Outcome(Job(w).attempts, call[w].answer)
           row == [deliveries[i] EXCEPT !.status = out.status, !.attempts = out.attempts,
                                        !.due = out.status # "retrying"]
<1>1. /\ call[w] \in Tick(n) /\ call[w].pc = "save" /\ n \in Nat /\ DOMAIN deliveries = 1..n
      /\ \A j \in 1..n : deliveries[j] \in Row /\ traffic[j] \in Traffic
      /\ drops' = drops /\ drops \in Nat /\ UNCHANGED traffic
      /\ deliveries' = [deliveries EXCEPT ![i] = row]
      /\ call'[w] = NextJob(call[w].jobs)
  BY OwnedHere, TypeParts DEF SaveDelivery, At, counts, OwnedInv, IInv, TicksTyped
<1>2. i \in 1..n /\ Job(w).attempts \in Nat /\ Job(w) = call[w].job
  BY <1>1 DEF Tick, Jobs, Job
<1>3. /\ IsCopy(Job(w), deliveries)
      /\ \A job \in call[w].jobs : IsCopy(job, deliveries) /\ job.id # i
  BY <1>1, <1>2, OwnedHere DEF TickOwns
<1>4. row.status = out.status /\ row.attempts = out.attempts /\ row.due = (out.status # "retrying")
  BY <1>1, <1>2 DEF Row
<1> HIDE DEF row
<1>5. TickOwns(call'[w], deliveries')
  <2>1. \A job \in call[w].jobs : IsCopy(job, deliveries')
    BY <1>1, <1>3 DEF IsCopy
  <2>2. QED
    BY <1>1, <2>1, OwnedNext
<1>6. \A j : ~Posted(call'[w], j)
  BY <1>1, NextJobIdles DEF Posted
<1>7. RowCounts(row, traffic[i], drops, FALSE)
  <2>1. /\ RowCounts(deliveries[i], traffic[i], drops, Posted(call[w], i))
        /\ Posted(call[w], i) /\ deliveries[i].status \notin Over
        /\ deliveries[i].attempts = Job(w).attempts
    BY <1>1, <1>2, <1>3, OwnedHere DEF Posted, IsCopy
  <2>2. /\ Job(w).attempts < MaxAttempts
        /\ traffic[i].tries <= Job(w).attempts + drops + 1
        /\ traffic[i].tries \in Nat /\ MaxAttempts \in Nat
    BY <1>1, <1>2, <2>1, LimitAssumption DEF RowCounts, Traffic
  <2> DEFINE m == Job(w).attempts
  <2>3. \/ out.status \in Over
        \/ out.status = "retrying" /\ out.attempts = m + 1 /\ m + 1 < MaxAttempts
    BY <1>2, <2>2 DEF Outcome, Over
  <2> HIDE DEF out
  <2>4. m + drops + 1 <= MaxAttempts + drops
    BY <1>1, <1>2, <2>2
  <2>5. CASE out.status \in Over
    <3>1. row.status \in Over /\ row.status # "retrying" /\ row.due
      BY <1>4, <2>5 DEF Over
    <3>2. traffic[i].tries <= MaxAttempts + drops
      BY <1>1, <1>2, <2>2, <2>4
    <3>3. QED
      BY <3>1, <3>2 DEF RowCounts
  <2>6. CASE out.status = "retrying" /\ out.attempts = m + 1 /\ m + 1 < MaxAttempts
    BY <1>1, <1>2, <1>4, <2>2, <2>6 DEF RowCounts, Over
  <2>7. QED
    BY <2>3, <2>5, <2>6
<1> HIDE DEF i, out
<1>8. ASSUME NEW j \in 1..n
      PROVE  RowCounts(deliveries'[j], traffic'[j], drops', Posted(call'[w], j))
  <2>1. CASE j = i
    BY <1>1, <1>2, <1>6, <1>7, <2>1 DEF RowCounts
  <2>2. CASE j # i
    <3>1. /\ RowCounts(deliveries[j], traffic[j], drops, Posted(call[w], j))
          /\ ~Posted(call[w], j)
      BY <1>2, <2>2, OwnedHere DEF Posted, i
    <3>2. deliveries'[j] = deliveries[j]
      BY <1>1, <2>2
    <3>3. QED
      BY <1>1, <1>6, <3>1, <3>2 DEF RowCounts
  <2>3. QED
    BY <2>1, <2>2
<1>9. DOMAIN deliveries' = 1..n
  BY <1>1
<1>10. QED
  BY <1>5, <1>8, <1>9, OwnedThen


LEMMA OwnedEnvironment ==
  ASSUME OneWorker, OwnedInv,
         \/ UNCHANGED vars
         \/ \E ev \in Events : CreateEvent(ev)
         \/ \E e \in Endpoints : EditEndpoint(e) \/ CooldownPasses(e)
         \/ \E i \in DOMAIN deliveries : BackoffPasses(i)
  PROVE  Owned'
<1>1. PICK w : w \in Workers
  BY DEF OneWorker
<1>2. ASSUME UNCHANGED <<rowVars, call, drops>> PROVE Owned'
  BY <1>1, <1>2, OwnedAside
<1>3. ASSUME NEW x \in Endpoints, EditEndpoint(x) PROVE Owned'
  <2> DEFINE tick(v) == [call[v] EXCEPT !.cool = @ \ {x}]
  <2>1. call' = [v \in Workers |-> tick(v)] /\ UNCHANGED <<rowVars, drops>>
    BY <1>3 DEF EditEndpoint
  <2>2. tick(w).jobs = call[w].jobs /\ tick(w).job = call[w].job /\ tick(w).pc = call[w].pc
    BY <1>1, OwnedHere DEF Tick
  <2> HIDE DEF tick
  <2>3. QED
    BY <1>1, <2>1, <2>2, OwnedAside
<1>4. ASSUME NEW i \in DOMAIN deliveries, BackoffPasses(i) PROVE Owned'
  <2> DEFINE row == [deliveries[i] EXCEPT !.due = TRUE]
  <2>1. deliveries' = [deliveries EXCEPT ![i] = row] /\ UNCHANGED <<traffic, drops, call>>
    BY <1>4 DEF BackoffPasses, counts
  <2>2. row.status = deliveries[i].status /\ row.attempts = deliveries[i].attempts /\ row.due
    BY <1>1, OwnedHere DEF Row
  <2> HIDE DEF row
  <2>3. \A j \in DOMAIN deliveries :
          /\ deliveries'[j].status = deliveries[j].status
          /\ deliveries'[j].attempts = deliveries[j].attempts
          /\ deliveries'[j].due \/ deliveries'[j] = deliveries[j]
    BY <2>1, <2>2
  <2>4. TickOwns(call[w], deliveries')
    <3>1. \A job \in call[w].jobs : job.id \in DOMAIN deliveries
      BY <1>1, OwnedHere DEF Tick, Jobs
    <3>2. call[w].pc \in {"result", "save"} => call[w].job.id \in DOMAIN deliveries
      BY <1>1, OwnedHere DEF Tick, Jobs
    <3>3. QED
      BY <1>1, <2>3, <3>1, <3>2, OwnedHere DEF TickOwns, IsCopy
  <2>5. \A j \in DOMAIN deliveries :
          RowCounts(deliveries'[j], traffic[j], drops, Posted(call[w], j))
    BY <1>1, <2>3, OwnedHere DEF RowCounts
  <2>6. DOMAIN deliveries' = DOMAIN deliveries
    BY <2>1
  <2>7. QED
    BY <1>1, <2>1, <2>4, <2>5, <2>6, OwnedThen
<1>5. QED
  BY <1>2, <1>3, <1>4 DEF vars, CreateEvent, CooldownPasses, rowVars, counts

LEMMA OwnedPreserved == ASSUME OneWorker PROVE OwnedInv /\ [Next]_vars => OwnedInv'
<1> SUFFICES ASSUME OwnedInv, [Next]_vars PROVE OwnedInv'
  OBVIOUS
<1>1. IInv'
  BY FitPreserved DEF OwnedInv
<1>2. ASSUME NEW w \in Workers, Step(w) \/ LoseResult(w) \/ Abandon(w) PROVE Owned'
  BY <1>2, OwnedDrains, OwnedInserts, OwnedPosts, OwnedRecords, OwnedSaves DEF Step
<1>3. QED
  BY <1>1, <1>2, OwnedEnvironment DEF Next, OwnedInv

LEMMA OwnedInitially == Init => OwnedInv
<1> SUFFICES ASSUME Init PROVE OwnedInv
  OBVIOUS
<1>1. IInv
  BY FitInitially
<1>2. Idle.pc = "idle" /\ Idle.jobs = {}
  BY DEF Idle
<1>3. TickOwns(Idle, deliveries)
  BY <1>2 DEF TickOwns
<1>4. DOMAIN deliveries = {}
  BY DEF Init
<1>5. QED
  BY <1>1, <1>3, <1>4 DEF Init, OwnedInv, Owned

\* One worker posts a delivery at most MaxAttempts times, and once more for
\* each tick cut short after the POST and before the row was written: until it
\* is over the row counts every other POST.
THEOREM TriesAlwaysBounded == OneWorker => (Spec => []TriesAreBounded)
<1> SUFFICES ASSUME OneWorker PROVE Spec => []TriesAreBounded
  OBVIOUS
<1>1. OwnedInv => TriesAreBounded
  <2> SUFFICES ASSUME OwnedInv, NEW i \in DOMAIN deliveries
               PROVE  traffic[i].tries <= MaxAttempts + drops
    BY DEF TriesAreBounded
  <2>1. PICK w : w \in Workers
    BY DEF OneWorker
  <2>2. /\ RowCounts(deliveries[i], traffic[i], drops, Posted(call[w], i))
        /\ deliveries[i] \in Row /\ traffic[i] \in Traffic /\ drops \in Nat
    BY <2>1, OwnedHere
  <2>3. deliveries[i].attempts \in Nat /\ traffic[i].tries \in Nat /\ MaxAttempts \in Nat
    BY <2>2, LimitAssumption DEF Row, Traffic
  <2>4. QED
    BY <2>2, <2>3 DEF RowCounts
<1>2. QED
  BY <1>1, OwnedInitially, OwnedPreserved, PTL DEF Spec

-----------------------------------------------------------------------------
(* One step of the tables: what a delivery promises (DeliveryContract).    *)

\* The row a worker is about to write is still open.
LEMMA SavedRowOpen ==
  ASSUME OwnedInv, NEW w \in Workers, call[w].pc \in {"result", "save"}
  PROVE  /\ Job(w).id \in DOMAIN deliveries /\ deliveries[Job(w).id].status \notin Over
         /\ Job(w) = call[w].job /\ Job(w).attempts \in Nat
<1>1. call[w].job \in Jobs(Len(deliveries))
  BY OwnedHere DEF Tick
<1>2. IsCopy(call[w].job, deliveries)
  BY OwnedHere DEF TickOwns
<1>3. QED
  BY <1>1, <1>2, OwnedHere DEF IsCopy, Job, Jobs

\* Rows that a step may rewrite are open.
LEMMA OverStays ==
  ASSUME OneWorker, OwnedInv, [Next]_vars,
         NEW i \in DOMAIN deliveries, deliveries[i].status \in Over
  PROVE  deliveries'[i] = deliveries[i]
<1>1. CASE UNCHANGED deliveries
  BY <1>1
<1>2. ASSUME NEW w \in Workers, InsertDelivery(w) PROVE deliveries'[i] = deliveries[i]
  <2>1. PICK row : deliveries' = Append(deliveries, row)
    BY <1>2 DEF InsertDelivery
  <2>2. deliveries \in Seq(Row)
    BY TypeParts DEF OwnedInv, IInv, RowsTyped
  <2>3. i \in 1..Len(deliveries) /\ Len(deliveries) \in Nat
    BY <1>2, OwnedHere
  <2>4. QED
    BY <2>1, <2>2, <2>3
<1>3. ASSUME NEW w \in Workers, SaveDelivery(w) PROVE deliveries'[i] = deliveries[i]
  <2>1. deliveries[Job(w).id].status \notin Over
    BY <1>3, SavedRowOpen DEF SaveDelivery, At
  <2>2. Job(w).id # i
    BY <2>1
  <2>3. PICK row : deliveries' = [deliveries EXCEPT ![Job(w).id] = row]
    BY <1>3 DEF SaveDelivery
  <2>4. QED
    BY <2>2, <2>3
<1>4. ASSUME NEW j \in DOMAIN deliveries, BackoffPasses(j) PROVE deliveries'[i] = deliveries[i]
  <2>1. ~deliveries[j].due => deliveries[j].status = "retrying"
    BY DEF OneWorker, OwnedInv, Owned, RowCounts
  <2>2. QED
    BY <1>4, <2>1 DEF BackoffPasses, Over
<1>5. ASSUME deliveries' # deliveries
      PROVE  \/ \E w \in Workers : InsertDelivery(w) \/ SaveDelivery(w)
             \/ \E j \in DOMAIN deliveries : BackoffPasses(j)
  BY <1>5 DEF Next, Step, vars, rowVars, FetchPending, ListEndpoints, MarkPublished, ListDue,
       Post, RecordResult, LoseResult, Abandon, CreateEvent, EditEndpoint, CooldownPasses
<1>6. QED
  BY <1>1, <1>2, <1>3, <1>4, <1>5

\* With one worker nothing rewrites a delivery that is over: copies are taken
\* of open rows, and only their holder writes rows.
THEOREM OverStaysFinal == OneWorker => (Spec => OverIsFinal)
<1> SUFFICES ASSUME OneWorker PROVE Spec => OverIsFinal
  OBVIOUS
<1>1. OwnedInv /\ [Next]_vars =>
        [\A i \in DOMAIN deliveries :
           deliveries[i].status \in Over => deliveries'[i] = deliveries[i]]_vars
  BY OverStays
<1>2. QED
  BY <1>1, OwnedInitially, OwnedPreserved, PTL DEF Spec, OverIsFinal


\* The deliveries as DeliveryContract sees them.
Promises == [i \in DOMAIN deliveries |-> Promised(i)]

PromiseOf(row, posts) ==
  [state    |-> IF row.status \in Over THEN row.status ELSE "open",
   posts    |-> posts.tries,
   accepted |-> posts.accepted]

Kept == [state: {"open"} \union Over, posts: Nat, accepted: BOOLEAN]

LEMMA PromisesAre ==
  /\ Promises = [i \in DOMAIN deliveries |-> PromiseOf(deliveries[i], traffic[i])]
  /\ Promises' = [i \in DOMAIN deliveries' |-> PromiseOf(deliveries'[i], traffic'[i])]
BY DEF Promises, Promised, PromiseOf

LEMMA PromisesTyped ==
  ASSUME TypeOK
  PROVE  /\ Promises \in Seq(Kept) /\ Len(Promises) = Len(deliveries)
         /\ DOMAIN Promises = 1..Len(deliveries)
         /\ \A i \in DOMAIN deliveries :
              /\ Promises[i] = PromiseOf(deliveries[i], traffic[i])
              /\ Promises[i] \in Kept
<1>1. /\ Len(deliveries) \in Nat /\ DOMAIN deliveries = 1..Len(deliveries)
      /\ \A i \in DOMAIN deliveries : traffic[i] \in Traffic
  BY Shapes
<1>2. \A i \in DOMAIN deliveries : PromiseOf(deliveries[i], traffic[i]) \in Kept
  BY <1>1 DEF PromiseOf, Kept, Traffic
<1>3. Promises \in [1..Len(deliveries) -> Kept]
  BY <1>1, <1>2, PromisesAre
<1>4. QED
  BY <1>1, <1>2, <1>3, PromisesAre

LEMMA PromiseAdded ==
  ASSUME TypeOK, TypeOK', NEW w \in Workers, InsertDelivery(w)
  PROVE  Contract!Add
<1> DEFINE n == Len(deliveries)
<1>1. PICK x \in call[w].todo :
        /\ deliveries' = Append(deliveries,
             [event |-> Event(w), endpoint |-> x, status |-> "pending",
              attempts |-> 0, due |-> TRUE])
        /\ traffic' = Append(traffic, [tries |-> 0, accepted |-> FALSE])
  BY DEF InsertDelivery
<1>2. /\ deliveries \in Seq(Row) /\ traffic \in Seq(Traffic) /\ n \in Nat /\ n = Len(traffic)
      /\ DOMAIN deliveries = 1..n
  BY Shapes, TypeParts DEF RowsTyped
<1>3. /\ DOMAIN deliveries' = 1..(n + 1)
      /\ \A i \in 1..n : deliveries'[i] = deliveries[i] /\ traffic'[i] = traffic[i]
      /\ deliveries'[n + 1].status = "pending"
      /\ traffic'[n + 1].tries = 0 /\ traffic'[n + 1].accepted = FALSE
  BY <1>1, <1>2
<1>4. PromiseOf(deliveries'[n + 1], traffic'[n + 1]) = Contract!New
  BY <1>3 DEF PromiseOf, Contract!New, Over
<1> DEFINE g == [i \in 1..(n + 1) |->
                   IF i = n + 1 THEN Contract!New ELSE PromiseOf(deliveries[i], traffic[i])]
<1>5. Promises' = g
  BY <1>2, <1>3, <1>4, PromisesAre
<1>6. Contract!New \in Kept
  BY DEF Kept, Contract!New
<1>7. Promises \in Seq(Kept) /\ Len(Promises) = n
      /\ \A i \in 1..n : Promises[i] = PromiseOf(deliveries[i], traffic[i])
  BY <1>2, PromisesTyped
<1>8. Append(Promises, Contract!New) = g
  <2> DEFINE f == Append(Promises, Contract!New)
  <2>1. f \in Seq(Kept) /\ Len(f) = n + 1
    BY <1>2, <1>6, <1>7, AppendProperties
  <2>2. f \in [1..(n + 1) -> Kept]
    BY <2>1, LenProperties
  <2>3. \A i \in 1..(n + 1) :
          f[i] = IF i = n + 1 THEN Contract!New ELSE PromiseOf(deliveries[i], traffic[i])
    BY <1>2, <1>6, <1>7, AppendProperties
  <2> HIDE DEF f
  <2>4. QED
    BY <2>2, <2>3 DEF f
<1>9. QED
  BY <1>5, <1>8 DEF Contract!Add, Promises

LEMMA KeptEqual ==
  ASSUME NEW p \in Kept, NEW q \in Kept,
         p.state = q.state, p.posts = q.posts, p.accepted = q.accepted
  PROVE  p = q
BY DEF Kept

LEMMA PostedPromise ==
  ASSUME NEW p \in Kept, NEW n \in Nat, NEW b \in BOOLEAN
  PROVE  [p EXCEPT !.posts = n, !.accepted = b] =
           [state |-> p.state, posts |-> n, accepted |-> b]
<1> DEFINE r == [p EXCEPT !.posts = n, !.accepted = b]
           s == [state |-> p.state, posts |-> n, accepted |-> b]
<1>1. r \in Kept /\ s \in Kept
  BY DEF Kept
<1>2. r.state = s.state /\ r.posts = s.posts /\ r.accepted = s.accepted
  BY DEF Kept
<1> HIDE DEF r, s
<1>3. QED
  BY <1>1, <1>2, KeptEqual DEF r, s

LEMMA PromisePosted ==
  ASSUME OwnedInv, NEW w \in Workers, Post(w)
  PROVE  Contract!Next
<1> DEFINE n == Len(deliveries)
<1>1. PICK job \in call[w].jobs, answer \in {"ok", "lost", "refused"} :
        traffic' = [traffic EXCEPT ![job.id] =
          [tries |-> @.tries + 1, accepted |-> @.accepted \/ answer # "refused"]]
  BY DEF Post, Answers
<1> DEFINE i == job.id
<1>2. /\ TypeOK /\ DOMAIN deliveries = 1..n /\ DOMAIN traffic = 1..n /\ UNCHANGED deliveries
      /\ call[w] \in Tick(n) /\ IsCopy(job, deliveries)
  BY OwnedHere DEF Post, TickOwns
<1>3. i \in 1..n /\ deliveries[i].status \notin Over
  BY <1>2 DEF Tick, Jobs, IsCopy
<1> HIDE DEF i
<1>4. /\ Promises \in [1..n -> Kept]
      /\ \A j \in 1..n : Promises[j] = PromiseOf(deliveries[j], traffic[j])
  BY <1>2, PromisesTyped, LenProperties
<1> DEFINE posted == [Promises[i] EXCEPT !.posts = traffic'[i].tries,
                                 !.accepted = traffic'[i].accepted]
<1>5. /\ Promises[i] = [state |-> "open", posts |-> traffic[i].tries,
                        accepted |-> traffic[i].accepted]
      /\ PromiseOf(deliveries[i], traffic'[i]) = posted
  <2>1. Promises[i] = [state |-> "open", posts |-> traffic[i].tries,
                       accepted |-> traffic[i].accepted]
    BY <1>3, <1>4 DEF PromiseOf
  <2>2. posted = [state |-> "open", posts |-> traffic'[i].tries,
                  accepted |-> traffic'[i].accepted]
    <3>1. Promises[i] \in Kept
      BY <1>3, <1>4
    <3>2. traffic'[i].tries \in Nat /\ traffic'[i].accepted \in BOOLEAN
      <4>1. TypeOK'
        BY <1>2, PostTyped
      <4>2. traffic' \in Seq(Traffic) /\ Len(traffic)' = n
        BY <1>2, <4>1 DEF TypeOK, Traffic
      <4>3. traffic'[i] \in Traffic
        BY <1>3, <4>2, ElementOfSeq
      <4>4. QED
        BY <4>3 DEF Traffic
    <3>3. posted = [state |-> Promises[i].state, posts |-> traffic'[i].tries,
                    accepted |-> traffic'[i].accepted]
      BY <3>1, <3>2, PostedPromise, Zenon
    <3>4. Promises[i].state = "open"
      BY <2>1
    <3>5. QED
      BY <3>3, <3>4
  <2>3. PromiseOf(deliveries[i], traffic'[i]) =
          [state |-> "open", posts |-> traffic'[i].tries, accepted |-> traffic'[i].accepted]
    BY <1>3 DEF PromiseOf
  <2>4. QED
    BY <2>1, <2>2, <2>3, Zenon
<1>a. /\ traffic'[i].tries = Promises[i].posts + 1
      /\ traffic'[i].accepted = (Promises[i].accepted \/ answer # "refused")
  <2>1. /\ traffic'[i].tries = traffic[i].tries + 1
        /\ traffic'[i].accepted = (traffic[i].accepted \/ answer # "refused")
    BY <1>1, <1>2, <1>3 DEF i
  <2>2. Promises[i].posts = traffic[i].tries /\ Promises[i].accepted = traffic[i].accepted
    BY <1>5
  <2>3. QED
    BY <2>1, <2>2
<1> HIDE DEF posted
<1>6. \A j \in 1..n : j # i => PromiseOf(deliveries[j], traffic'[j]) = Promises[j]
  BY <1>1, <1>2, <1>4 DEF i
<1>7. Promises' = [Promises EXCEPT ![i] = posted]
  <2>1. Promises' = [j \in 1..n |-> PromiseOf(deliveries[j], traffic'[j])]
    BY <1>2, PromisesAre
  <2>2. QED
    BY <1>3, <1>4, <1>5, <1>6, <2>1
<1>8. Contract!Post(i)
  <2>1. Contract!Open(i)
    BY <1>3, <1>4, <1>5 DEF Contract!Open, Promises
  <2>2. (answer # "refused") \in BOOLEAN
    OBVIOUS
  <2>3. posted = [Promises[i] EXCEPT !.posts = Promises[i].posts + 1,
                      !.accepted = (Promises[i].accepted \/ (answer # "refused"))]
    BY <1>a, Zenon DEF posted
  <2>4. QED
    BY <1>7, <2>1, <2>2, <2>3 DEF Contract!Post, Promises
<1>9. QED
  BY <1>2, <1>3, <1>8 DEF Contract!Next, Promises

LEMMA PromiseSaved ==
  ASSUME OwnedInv, NEW w \in Workers, SaveDelivery(w)
  PROVE  Contract!Next \/ UNCHANGED Promises
<1>i. PICK i : i = Job(w).id
  OBVIOUS
<1> DEFINE n == Len(deliveries)
           out == Outcome(Job(w).attempts, call[w].answer)
           row == [deliveries[i] EXCEPT !.status = out.status, !.attempts = out.attempts,
                                        !.due = out.status # "retrying"]
<1>1. /\ call[w].pc = "save" /\ DOMAIN deliveries = 1..n /\ TypeOK
      /\ \A j \in 1..n : deliveries[j] \in Row /\ traffic[j] \in Traffic
      /\ UNCHANGED traffic /\ deliveries' = [deliveries EXCEPT ![i] = row]
  BY <1>i, OwnedHere DEF SaveDelivery, At
<1>2. /\ i \in 1..n /\ deliveries[i].status \notin Over /\ Job(w).attempts \in Nat
  BY <1>i, <1>1, SavedRowOpen
<1>3. /\ Job(w).attempts < traffic[i].tries
      /\ Succeeded(call[w].answer) => traffic[i].accepted
  BY <1>i, <1>1 DEF OwnedInv, IInv, TicksFit, TickFits, Job
<1>4. row.status = out.status
  BY <1>1, <1>2 DEF Row
<1>5. \/ out.status = "retrying"
      \/ out.status = "delivered" /\ traffic[i].accepted
      \/ out.status = "dead_lettered" /\ traffic[i].tries >= MaxAttempts
  <2>1. traffic[i].tries \in Nat /\ MaxAttempts \in Nat
    BY <1>1, <1>2, LimitAssumption DEF Traffic
  <2>2. QED
    BY <1>2, <1>3, <2>1 DEF Outcome
<1> HIDE DEF out, row
<1>6. /\ Promises \in [1..n -> Kept]
      /\ \A j \in 1..n : Promises[j] = PromiseOf(deliveries[j], traffic[j])
  BY <1>1, PromisesTyped, LenProperties
<1>7. \A j \in 1..n : j # i => PromiseOf(deliveries'[j], traffic[j]) = Promises[j]
  BY <1>1, <1>6
<1>8. /\ Promises[i] = [state |-> "open", posts |-> traffic[i].tries,
                        accepted |-> traffic[i].accepted]
      /\ PromiseOf(deliveries'[i], traffic[i]) =
           [Promises[i] EXCEPT !.state = IF out.status \in Over THEN out.status ELSE "open"]
  <2>1. Promises[i] = [state |-> "open", posts |-> traffic[i].tries,
                       accepted |-> traffic[i].accepted]
    BY <1>2, <1>6 DEF PromiseOf
  <2>2. deliveries'[i].status = out.status
    BY <1>1, <1>2, <1>4
  <2>3. QED
    BY <2>1, <2>2 DEF PromiseOf
<1>a. Promises' = [j \in 1..n |-> PromiseOf(deliveries'[j], traffic[j])]
  BY <1>1, PromisesAre
<1>9. CASE out.status = "retrying"
  <2>1. PromiseOf(deliveries'[i], traffic[i]) = Promises[i]
    BY <1>8, <1>9 DEF Over
  <2>2. QED
    BY <1>2, <1>6, <1>7, <1>a, <2>1
<1>10. CASE out.status \in Over
  <2>1. Promises' = [Promises EXCEPT ![i].state = out.status]
    <3>1. PromiseOf(deliveries'[i], traffic[i]) = [Promises[i] EXCEPT !.state = out.status]
      BY <1>8, <1>10
    <3>2. QED
      BY <1>2, <1>6, <1>7, <1>a, <3>1
  <2>2. Contract!Close(i, out.status)
    BY <1>2, <1>6, <1>8, <2>1 DEF Contract!Close, Contract!Open, Promises
  <2>3. Promises[i].accepted = traffic[i].accepted /\ Promises[i].posts = traffic[i].tries
    BY <1>8
  <2>4. Contract!Deliver(i) \/ Contract!GiveUp(i)
    BY <1>5, <1>10, <2>2, <2>3 DEF Contract!Deliver, Contract!GiveUp, Promises, Over
  <2>5. QED
    BY <1>1, <1>2, <2>4 DEF Contract!Next, Promises
<1>11. QED
  BY <1>5, <1>9, <1>10 DEF Over

LEMMA PromisesKept ==
  ASSUME OneWorker, OwnedInv, [Next]_vars
  PROVE  Contract!Next \/ UNCHANGED Promises
<1>1. TypeOK /\ TypeOK'
  BY TypePreserved DEF OwnedInv, IInv
<1>2. ASSUME UNCHANGED rowVars PROVE UNCHANGED Promises
  BY <1>2, PromisesAre DEF rowVars
<1>3. ASSUME NEW w \in Workers, InsertDelivery(w) PROVE Contract!Next
  BY <1>1, <1>3, PromiseAdded DEF Contract!Next
<1>4. ASSUME NEW i \in DOMAIN deliveries, BackoffPasses(i) PROVE UNCHANGED Promises
  <2> DEFINE row == [deliveries[i] EXCEPT !.due = TRUE]
  <2>1. deliveries' = [deliveries EXCEPT ![i] = row] /\ UNCHANGED traffic
    BY <1>4 DEF BackoffPasses
  <2>2. row.status = deliveries[i].status
    BY <1>1, Shapes DEF Row
  <2> HIDE DEF row
  <2>3. \A j \in DOMAIN deliveries :
          PromiseOf(deliveries'[j], traffic[j]) = PromiseOf(deliveries[j], traffic[j])
    BY <2>1, <2>2 DEF PromiseOf
  <2>4. DOMAIN deliveries' = DOMAIN deliveries
    BY <2>1
  <2>5. QED
    BY <2>1, <2>3, <2>4, PromisesAre
<1>5. ASSUME rowVars' # rowVars
      PROVE  \/ \E w \in Workers : InsertDelivery(w) \/ SaveDelivery(w) \/ Post(w)
             \/ \E j \in DOMAIN deliveries : BackoffPasses(j)
  BY <1>5 DEF Next, Step, vars, rowVars, FetchPending, ListEndpoints, MarkPublished, ListDue,
       RecordResult, LoseResult, Abandon, CreateEvent, EditEndpoint, CooldownPasses
<1>6. QED
  BY <1>2, <1>3, <1>4, <1>5, PromisePosted, PromiseSaved

\* One worker implements DeliveryContract: what it does to a delivery is, step
\* by step, a post, a delivery after an acceptance, a give-up after MaxAttempts
\* posts, or nothing the merchant can see.
THEOREM OneWorkerKeepsDeliveries == OneWorker => (Spec => KeepsDeliveries)
<1> SUFFICES ASSUME OneWorker PROVE Spec => KeepsDeliveries
  OBVIOUS
<1>1. Init => Contract!Init
  <2> SUFFICES ASSUME Init PROVE Promises = << >>
    BY DEF Contract!Init, Promises
  <2>1. TypeOK /\ Len(deliveries) = 0
    BY TypeInitially DEF Init
  <2>2. Promises \in Seq(Kept) /\ Len(Promises) = 0
    BY <2>1, PromisesTyped
  <2>3. QED
    BY <2>2, EmptySeq
<1>2. OwnedInv /\ [Next]_vars => [Contract!Next]_Promises
  BY PromisesKept
<1>3. QED
  BY <1>1, <1>2, OwnedInitially, OwnedPreserved, PTL DEF Spec, KeepsDeliveries, Contract!Spec, Promises
=============================================================================
