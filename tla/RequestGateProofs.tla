-------------------------- MODULE RequestGateProofs --------------------------
(***************************************************************************)
(* The gate for any number of replicas, requests, keys and limits: its     *)
(* types, revocation, the counters' expiry and the bound of a window.      *)
(***************************************************************************)
EXTENDS RequestGate, TLAPS

Pcs == {"idle", "count", "expire", "inside", "served"}

-----------------------------------------------------------------------------
(* Records of requests                                                     *)

LEMMA OneMoreCounts ==
  ASSUME NEW n \in 0..MaxHits
  PROVE  /\ OneMore(n) \in 0..MaxHits
         /\ n < MaxHits => OneMore(n) = n + 1
         /\ n = MaxHits => OneMore(n) = MaxHits
BY GateAssumption DEF GateAssumption, OneMore

LEMMA IdleIsACall == Idle \in Calls
BY GateAssumption DEF GateAssumption, Idle, Calls, Buckets

LEMMA BucketOfCred ==
  ASSUME NEW cred \in Creds
  PROVE  MerchantLimitKey(cred) \in Buckets
BY DEF MerchantLimitKey, Buckets

LEMMA PcSet ==
  ASSUME NEW k \in Calls, NEW pc \in Pcs
  PROVE  [k EXCEPT !.pc = pc] \in Calls
BY DEF Calls, Pcs

LEMMA CountSet ==
  ASSUME NEW k \in Calls, NEW n \in 0..MaxHits
  PROVE  [k EXCEPT !.count = n] \in Calls
BY DEF Calls

LEMMA LimitSet ==
  ASSUME NEW k \in Calls, NEW n \in Limits
  PROVE  [k EXCEPT !.pc = "count", !.limit = n] \in Calls
<1> DEFINE j == [k EXCEPT !.pc = "count"]
<1>1. j \in Calls
  BY PcSet DEF Pcs
<1>2. [j EXCEPT !.limit = n] \in Calls
  BY <1>1 DEF Calls
<1>3. [j EXCEPT !.limit = n] = [k EXCEPT !.pc = "count", !.limit = n]
  BY DEF Calls
<1>4. QED
  BY <1>2, <1>3

LEMMA InsideSet ==
  ASSUME NEW k \in Calls
  PROVE  [k EXCEPT !.pc = "inside", !.limit = 0, !.count = 0] \in Calls
<1> DEFINE i == [k EXCEPT !.pc = "inside"]
           j == [i EXCEPT !.limit = 0]
<1>1. i \in Calls
  BY PcSet DEF Pcs
<1>2. j \in Calls
  BY <1>1 DEF Calls
<1>3. 0 \in 0..MaxHits
  BY GateAssumption DEF GateAssumption
<1>4. [j EXCEPT !.count = 0] \in Calls
  BY <1>2, <1>3, CountSet
<1>5. [j EXCEPT !.count = 0] = [k EXCEPT !.pc = "inside", !.limit = 0, !.count = 0]
  BY DEF Calls
<1>6. QED
  BY <1>4, <1>5

LEMMA FaultsCounted ==
  ASSUME faults \in 0..MaxFaults, Fault
  PROVE  faults' \in 0..MaxFaults
BY GateAssumption DEF GateAssumption, Fault

-----------------------------------------------------------------------------
(* What the operators the actions share do to call and admitted            *)

\* A request is over or inside, and then a merchant's is counted as let in.
Settled(q, k) ==
  /\ call' = [call EXCEPT ![q] = call'[q]]
  /\ call'[q] \in {Idle, [k EXCEPT !.pc = "inside", !.limit = 0, !.count = 0]}
  /\ admitted' \in {admitted, [admitted EXCEPT ![k.bucket] = OneMore(@)]}

LEMMA LetInSettles ==
  ASSUME TypeOK, NEW q \in Requests, NEW k, LetIn(q, k)
  PROVE  Settled(q, k)
BY DEF TypeOK, LetIn, Return, Settled

LEMMA JudgeSettles ==
  ASSUME TypeOK, NEW q \in Requests, NEW k, Judge(q, k)
  PROVE  Settled(q, k)
BY LetInSettles DEF TypeOK, Judge, Return, Settled

LEMMA PassSettles ==
  ASSUME TypeOK, NEW q \in Requests, PassUncounted(q)
  PROVE  Settled(q, call[q])
BY LetInSettles DEF TypeOK, PassUncounted, Return, Settled

LEMMA SettledIsTyped ==
  ASSUME TypeOK, NEW q \in Requests, NEW k \in Calls, Settled(q, k)
  PROVE  /\ call' \in [Requests -> Calls]
         /\ admitted' \in [Buckets -> 0..MaxHits]
<1>1. Idle \in Calls /\ [k EXCEPT !.pc = "inside", !.limit = 0, !.count = 0] \in Calls
  BY IdleIsACall, InsideSet
<1>2. call'[q] \in Calls
  BY <1>1 DEF Settled
<1>3. call' \in [Requests -> Calls]
  BY <1>2 DEF Settled, TypeOK
<1>4. k.bucket \in Buckets
  BY DEF Calls
<1>5. OneMore(admitted[k.bucket]) \in 0..MaxHits
  BY <1>4, OneMoreCounts DEF TypeOK
<1>6. admitted' \in [Buckets -> 0..MaxHits]
  BY <1>5 DEF Settled, TypeOK
<1>7. QED
  BY <1>3, <1>6

-----------------------------------------------------------------------------
(* Types                                                                   *)

LEMMA TypeInitially == Init => TypeOK
<1> SUFFICES ASSUME Init PROVE TypeOK
  OBVIOUS
<1>1. Idle \in Calls /\ MaxHits \in Nat
  BY IdleIsACall, GateAssumption DEF GateAssumption
<1>2. call \in [Requests -> Calls]
  BY <1>1 DEF Init
<1>3. QED
  BY <1>1, <1>2, GateAssumption DEF Init, TypeOK, GateAssumption

LEMMA ArrivalsAreCalls ==
  ASSUME TypeOK, NEW q \in Requests, NEW r \in Replicas,
         ArrivePublic(q, r) \/ \E cred \in Creds : ArriveMerchant(q, r, cred)
  PROVE  \E k : Arrive(q, k) /\ k \in Calls /\ k.replica \in Replicas
<1>1. CASE ArrivePublic(q, r)
  <2>1. [Idle EXCEPT !.replica = r] \in Calls
    BY IdleIsACall DEF Calls
  <2>2. [Idle EXCEPT !.replica = r].replica = r
    BY DEF Idle
  <2>3. QED
    BY <1>1, <2>1, <2>2 DEF ArrivePublic
<1>2. ASSUME NEW cred \in Creds, ArriveMerchant(q, r, cred)
      PROVE  \E k : Arrive(q, k) /\ k \in Calls /\ k.replica \in Replicas
  <2> DEFINE k == [Idle EXCEPT !.replica = r, !.route = "merchant", !.cred = cred,
                               !.bucket = MerchantLimitKey(cred),
                               !.late = cred \in Keys /\ keys[cred] = "revoked"]
  <2>1. MerchantLimitKey(cred) \in Buckets
    BY BucketOfCred
  <2>2. k \in Calls /\ k.replica = r
    BY <2>1, IdleIsACall DEF Calls, Idle
  <2>3. QED
    BY <1>2, <2>2 DEF ArriveMerchant
<1>3. QED
  BY <1>1, <1>2

LEMMA ArriveTyped ==
  ASSUME TypeOK, NEW q \in Requests, NEW r \in Replicas,
         ArrivePublic(q, r) \/ \E cred \in Creds : ArriveMerchant(q, r, cred)
  PROVE  TypeOK'
<1>1. PICK k : Arrive(q, k) /\ k \in Calls /\ k.replica \in Replicas
  BY ArrivalsAreCalls
<1>2. limit[k.replica] \in Limits
  BY <1>1 DEF TypeOK
<1>3. [k EXCEPT !.pc = "count", !.limit = limit[k.replica]] \in Calls
  BY <1>1, <1>2, LimitSet
<1>4. QED
  BY <1>1, <1>3 DEF Arrive, TypeOK, redisVars, limiterVars, counts

LEMMA CountTyped ==
  ASSUME TypeOK, NEW q \in Requests, Count(q)
  PROVE  TypeOK'
<1> DEFINE b == call[q].bucket
           k == [call[q] EXCEPT !.count = OneMore(hits[b])]
<1>1. call[q] \in Calls /\ b \in Buckets
  BY DEF TypeOK, Calls
<1>2. OneMore(hits[b]) \in 0..MaxHits
  BY <1>1, OneMoreCounts DEF TypeOK
<1>3. k \in Calls /\ k.count \in 0..MaxHits /\ k.limit \in Limits \union {0}
  BY <1>1, <1>2, CountSet DEF Calls
<1>4. [k EXCEPT !.pc = "expire"] \in Calls
  BY <1>3, PcSet DEF Pcs
<1> HIDE DEF k
<1>5. hits' = [hits EXCEPT ![b] = k.count] /\ hits' \in [Buckets -> 0..MaxHits]
  BY <1>3 DEF Count, TypeOK, k
<1>6. ceiling' \in [Buckets -> Limits \union {0}]
  <2>1. ceiling' = [ceiling EXCEPT ![b] = IF k.route = "merchant" /\ k.limit > @
                                                   THEN k.limit ELSE @]
    BY DEF Count, k
  <2>2. QED
    BY <2>1, <1>3 DEF TypeOK
<1>7. call' \in [Requests -> Calls] /\ admitted' \in [Buckets -> 0..MaxHits]
  <2>1. CASE call' = [call EXCEPT ![q] = [k EXCEPT !.pc = "expire"]] /\ UNCHANGED admitted
    BY <2>1, <1>4 DEF TypeOK
  <2>2. CASE Judge(q, k)
    BY <2>2, <1>3, JudgeSettles, SettledIsTyped
  <2>3. QED
    BY <2>1, <2>2 DEF Count, k
<1>8. QED
  BY <1>5, <1>6, <1>7 DEF Count, TypeOK, redisVars, counts

LEMMA ExpireTyped ==
  ASSUME TypeOK, NEW q \in Requests, Expire(q)
  PROVE  TypeOK'
<1>1. call[q] \in Calls /\ call[q].bucket \in Buckets
  BY DEF TypeOK, Calls
<1>2. call' \in [Requests -> Calls] /\ admitted' \in [Buckets -> 0..MaxHits]
  BY <1>1, JudgeSettles, SettledIsTyped DEF Expire
<1>3. QED
  BY <1>1, <1>2 DEF Expire, TypeOK, redisVars, counts

LEMMA UncountedTyped ==
  ASSUME TypeOK, NEW q \in Requests, LimiterUnavailable(q) \/ CountReplyLost(q)
  PROVE  TypeOK'
<1>1. call[q] \in Calls /\ call[q].bucket \in Buckets
  BY DEF TypeOK, Calls
<1>2. call' \in [Requests -> Calls] /\ admitted' \in [Buckets -> 0..MaxHits]
  BY <1>1, PassSettles, SettledIsTyped DEF LimiterUnavailable, CountReplyLost
<1>3. CASE LimiterUnavailable(q)
  BY <1>2, <1>3 DEF LimiterUnavailable, TypeOK, redisVars, counts
<1>4. CASE CountReplyLost(q)
  <2>1. OneMore(hits[call[q].bucket]) \in 0..MaxHits
    BY <1>1, OneMoreCounts DEF TypeOK
  <2>2. hits' \in [Buckets -> 0..MaxHits] /\ lost' \subseteq Buckets
    BY <1>1, <1>4, <2>1 DEF CountReplyLost, TypeOK
  <2>3. faults' \in 0..MaxFaults
    BY <1>4, FaultsCounted DEF CountReplyLost, TypeOK
  <2>4. QED
    BY <1>2, <1>4, <2>2, <2>3 DEF CountReplyLost, TypeOK, redisVars
<1>5. QED
  BY <1>3, <1>4

LEMMA AnswerTyped ==
  ASSUME TypeOK, NEW q \in Requests, Handle(q) \/ End(q) \/ DropRequest(q)
  PROVE  TypeOK'
<1>1. call[q] \in Calls /\ call[q].bucket \in Buckets /\ Idle \in Calls
  BY IdleIsACall DEF TypeOK, Calls
<1>2. [call[q] EXCEPT !.pc = "served"] \in Calls
  BY <1>1, PcSet DEF Pcs
<1>3. CASE Handle(q)
  <2>1. call' \in [Requests -> Calls]
    BY <1>1, <1>2, <1>3 DEF Handle, TypeOK
  <2>2. QED
    BY <1>3, <2>1 DEF Handle, TypeOK, redisVars, limiterVars, counts
<1>4. CASE End(q)
  BY <1>1, <1>4 DEF End, Return, TypeOK, redisVars, limiterVars, counts
<1>5. CASE DropRequest(q)
  <2>1. faults' \in 0..MaxFaults
    BY <1>5, FaultsCounted DEF DropRequest, TypeOK
  <2>2. call' \in [Requests -> Calls] /\ lost' \subseteq Buckets
    BY <1>1, <1>5 DEF DropRequest, Return, TypeOK
  <2>3. QED
    BY <1>5, <2>1, <2>2 DEF DropRequest, TypeOK, redisVars
<1>6. QED
  BY <1>3, <1>4, <1>5

LEMMA RestTyped ==
  ASSUME TypeOK,
         \/ \E b \in Buckets : CounterExpires(b)
         \/ RedisFails \/ RedisRecovers
         \/ \E key \in Keys : CreateApiKey(key) \/ RevokeApiKey(key)
         \/ \E r \in Replicas : Restart(r) \/ \E n \in Limits : ReplaceLimit(r, n)
  PROVE  TypeOK'
<1>1. ASSUME NEW b \in Buckets, CounterExpires(b) PROVE TypeOK'
  <2>1. 0 \in 0..MaxHits
    BY GateAssumption DEF GateAssumption
  <2>2. QED
    BY <1>1, <2>1 DEF CounterExpires, TypeOK, redisVars, counts
<1>2. CASE RedisFails
  <2>1. faults' \in 0..MaxFaults
    BY <1>2, FaultsCounted DEF RedisFails, TypeOK
  <2>2. QED
    BY <1>2, <2>1 DEF RedisFails, TypeOK, limiterVars
<1>3. CASE RedisRecovers
  BY <1>3 DEF RedisRecovers, TypeOK, limiterVars, counts
<1>4. ASSUME NEW key \in Keys, CreateApiKey(key) \/ RevokeApiKey(key) PROVE TypeOK'
  BY <1>4 DEF CreateApiKey, RevokeApiKey, Revocable, TypeOK, redisVars, limiterVars, counts
<1>5. ASSUME NEW r \in Replicas, Restart(r) PROVE TypeOK'
  <2>1. call' \in [Requests -> Calls]
    BY <1>5, IdleIsACall DEF Restart, TypeOK
  <2>2. lost' \subseteq Buckets
    BY <1>5 DEF Restart, TypeOK, Calls
  <2>3. faults' \in 0..MaxFaults
    BY <1>5, FaultsCounted DEF Restart, TypeOK
  <2>4. limit' \in [Replicas -> Limits] /\ linked' \subseteq Replicas
    BY <1>5 DEF Restart, TypeOK
  <2>5. QED
    BY <1>5, <2>1, <2>2, <2>3, <2>4 DEF Restart, TypeOK
<1>6. ASSUME NEW r \in Replicas, NEW n \in Limits, ReplaceLimit(r, n) PROVE TypeOK'
  <2>1. edits' \in 0..MaxEdits
    BY <1>6, GateAssumption DEF ReplaceLimit, TypeOK, GateAssumption
  <2>2. QED
    BY <1>6, <2>1 DEF ReplaceLimit, TypeOK, redisVars, limiterVars
<1>7. QED
  BY <1>1, <1>2, <1>3, <1>4, <1>5, <1>6

LEMMA TypePreserved == TypeOK /\ [Next]_vars => TypeOK'
<1> SUFFICES ASSUME TypeOK, [Next]_vars PROVE TypeOK'
  OBVIOUS
<1>1. CASE UNCHANGED vars
  BY <1>1 DEF TypeOK, vars, redisVars, limiterVars, counts
<1>2. CASE Next
  BY <1>2, ArriveTyped, CountTyped, ExpireTyped, UncountedTyped, AnswerTyped, RestTyped
     DEF Next
<1>3. QED
  BY <1>1, <1>2

\* The gate's state keeps its shape for any number of replicas, requests and
\* keys and for all limits.
THEOREM GateTypeCorrect == Spec => []TypeOK
BY TypeInitially, TypePreserved, PTL DEF Spec

-----------------------------------------------------------------------------
(* What a step does to a request                                           *)

\* A request ends, goes on as what it was, or has just come.
GoesOn(q) ==
  /\ call'[q].cred = call[q].cred /\ call'[q].late = call[q].late
  /\ call'[q].bucket = call[q].bucket /\ call'[q].route = call[q].route

\* No step but the arrival changes what a request carries, and only a
\* credential that is good is served.
RequestStep(q) ==
  \/ call'[q] = call[q] \/ call'[q] = Idle
  \/ GoesOn(q) /\ call'[q].pc \in {"expire", "inside"}
  \/ GoesOn(q) /\ (LiveKey(call[q].cred) \/ call[q].cred = "jwt")
  \/ /\ call'[q].pc = "count"
     /\ call'[q].late <=> call'[q].cred \in Keys /\ keys[call'[q].cred] = "revoked"

LEMMA SettledSteps ==
  ASSUME TypeOK, NEW q \in Requests, NEW k \in Calls, Settled(q, k),
         k.cred = call[q].cred, k.late = call[q].late,
         k.bucket = call[q].bucket, k.route = call[q].route,
         NEW p \in Requests
  PROVE  RequestStep(p)
<1>1. CASE p = q
  <2> DEFINE i == [k EXCEPT !.pc = "inside", !.limit = 0, !.count = 0]
  <2>1. i.pc = "inside" /\ i.cred = k.cred /\ i.late = k.late /\ i.bucket = k.bucket
        /\ i.route = k.route
    BY DEF Calls
  <2>2. call'[q] \in {Idle, i}
    BY DEF Settled
  <2> HIDE DEF i
  <2>3. QED
    BY <1>1, <2>1, <2>2 DEF RequestStep, GoesOn
<1>2. CASE p # q
  BY <1>2 DEF Settled, RequestStep, TypeOK
<1>3. QED
  BY <1>1, <1>2

LEMMA ArriveSteps ==
  ASSUME TypeOK, NEW q \in Requests, NEW r \in Replicas,
         ArrivePublic(q, r) \/ \E cred \in Creds : ArriveMerchant(q, r, cred),
         NEW p \in Requests
  PROVE  RequestStep(p)
<1>1. CASE ArrivePublic(q, r)
  BY <1>1, GateAssumption DEF GateAssumption, ArrivePublic, Arrive, Idle, RequestStep, TypeOK
<1>2. ASSUME NEW cred \in Creds, ArriveMerchant(q, r, cred) PROVE RequestStep(p)
  BY <1>2 DEF ArriveMerchant, Arrive, Idle, RequestStep, TypeOK
<1>3. QED
  BY <1>1, <1>2

LEMMA CountSteps ==
  ASSUME TypeOK, NEW q \in Requests, Count(q), NEW p \in Requests
  PROVE  RequestStep(p)
<1> DEFINE k == [call[q] EXCEPT !.count = OneMore(hits[call[q].bucket])]
<1>1. call[q] \in Calls /\ OneMore(hits[call[q].bucket]) \in 0..MaxHits
  BY OneMoreCounts DEF TypeOK, Calls
<1>2. k \in Calls
  BY <1>1, CountSet
<1>3. k.cred = call[q].cred /\ k.late = call[q].late /\ k.bucket = call[q].bucket
      /\ k.route = call[q].route
  BY <1>1 DEF Calls
<1> HIDE DEF k
<1>4. CASE Judge(q, k)
  BY <1>2, <1>3, <1>4, JudgeSettles, SettledSteps
<1>5. CASE call' = [call EXCEPT ![q] = [k EXCEPT !.pc = "expire"]]
  <2>1. [k EXCEPT !.pc = "expire"].pc = "expire" /\ [k EXCEPT !.pc = "expire"].cred = k.cred
        /\ [k EXCEPT !.pc = "expire"].late = k.late
        /\ [k EXCEPT !.pc = "expire"].bucket = k.bucket
        /\ [k EXCEPT !.pc = "expire"].route = k.route
    BY <1>2 DEF Calls
  <2>2. QED
    BY <1>3, <1>5, <2>1 DEF RequestStep, GoesOn, TypeOK
<1>6. QED
  BY <1>4, <1>5 DEF Count, k

LEMMA HandleSteps ==
  ASSUME TypeOK, NEW q \in Requests, Handle(q), NEW p \in Requests
  PROVE  RequestStep(p)
<1>1. call[q] \in Calls
  BY DEF TypeOK
<1>2. PICK answer \in Welcome(call[q].cred) :
        call' = [call EXCEPT ![q] =
                   IF answer = "served" THEN [call[q] EXCEPT !.pc = "served"] ELSE Idle]
  BY DEF Handle
<1>3. CASE p = q /\ answer = "served"
  <2>1. LiveKey(call[q].cred) \/ call[q].cred = "jwt"
    BY <1>2, <1>3 DEF Welcome
  <2>2. call'[q] = [call[q] EXCEPT !.pc = "served"]
    BY <1>2, <1>3 DEF TypeOK
  <2>3. GoesOn(q)
    BY <1>1, <2>2 DEF GoesOn, Calls
  <2>4. QED
    BY <1>3, <2>1, <2>3 DEF RequestStep
<1>4. CASE p # q
  <2>1. call'[p] = call[p]
    BY <1>2, <1>4 DEF TypeOK
  <2>2. QED
    BY <2>1 DEF RequestStep
<1>5. CASE p = q /\ answer # "served"
  <2>1. call'[p] = Idle
    BY <1>2, <1>5 DEF TypeOK
  <2>2. QED
    BY <2>1 DEF RequestStep
<1>6. QED
  BY <1>3, <1>4, <1>5

LEMMA EveryStep ==
  ASSUME TypeOK, [Next]_vars, NEW p \in Requests
  PROVE  RequestStep(p)
<1>1. CASE call' = call
  BY <1>1 DEF RequestStep
<1>2. ASSUME NEW q \in Requests, NEW r \in Replicas,
             ArrivePublic(q, r) \/ \E cred \in Creds : ArriveMerchant(q, r, cred)
      PROVE  RequestStep(p)
  BY <1>2, ArriveSteps
<1>3. ASSUME NEW q \in Requests, Count(q) \/ Handle(q) PROVE RequestStep(p)
  BY <1>3, CountSteps, HandleSteps
<1>4. ASSUME NEW q \in Requests,
             LimiterUnavailable(q) \/ CountReplyLost(q) \/ Expire(q)
      PROVE  RequestStep(p)
  <2>1. call[q] \in Calls /\ Settled(q, call[q])
    BY <1>4, PassSettles, JudgeSettles
       DEF LimiterUnavailable, CountReplyLost, Expire, TypeOK
  <2>2. QED
    BY <2>1, SettledSteps
<1>5. ASSUME NEW q \in Requests, End(q) \/ DropRequest(q) PROVE RequestStep(p)
  BY <1>5 DEF End, DropRequest, Return, RequestStep, TypeOK
<1>6. ASSUME NEW r \in Replicas, Restart(r) PROVE RequestStep(p)
  BY <1>6 DEF Restart, RequestStep
<1>7. CASE \/ \E b \in Buckets : CounterExpires(b)
           \/ RedisFails \/ RedisRecovers
           \/ \E key \in Keys : CreateApiKey(key) \/ RevokeApiKey(key)
           \/ \E r \in Replicas, n \in Limits : ReplaceLimit(r, n)
  BY <1>1, <1>7 DEF CounterExpires, RedisFails, RedisRecovers, CreateApiKey, RevokeApiKey,
                    ReplaceLimit
<1>8. CASE UNCHANGED vars
  BY <1>1, <1>8 DEF vars
<1>9. QED
  BY <1>2, <1>3, <1>4, <1>5, <1>6, <1>7, <1>8 DEF Next

-----------------------------------------------------------------------------
(* Revocation                                                              *)

\* Whoever came late carries a key that is revoked, and has not been served.
LateInv ==
  \A q \in Requests : call[q].late =>
    /\ call[q].cred \in Keys /\ keys[call[q].cred] = "revoked"
    /\ call[q].pc # "served"

\* No step gives a revoked key back.
LEMMA RevokedForEver ==
  ASSUME TypeOK, [Next]_vars, NEW key \in Keys, keys[key] = "revoked"
  PROVE  keys'[key] = "revoked"
<1>1. CASE UNCHANGED keys
  BY <1>1
<1>2. ASSUME NEW x \in Keys, CreateApiKey(x) \/ RevokeApiKey(x)
      PROVE  keys'[key] = "revoked"
  BY <1>2 DEF CreateApiKey, RevokeApiKey, Revocable, TypeOK
<1>3. CASE Next
  BY <1>1, <1>2, <1>3 DEF Next, ArrivePublic, ArriveMerchant, Arrive, Count, CountReplyLost,
     LimiterUnavailable, Expire, Handle, End, DropRequest, CounterExpires, RedisFails,
     RedisRecovers, Restart, ReplaceLimit
<1>4. QED
  BY <1>1, <1>3 DEF vars

LEMMA LatePreserved == TypeOK /\ LateInv /\ [Next]_vars => LateInv'
<1> SUFFICES ASSUME TypeOK, LateInv, [Next]_vars, NEW q \in Requests, call'[q].late
             PROVE  /\ call'[q].cred \in Keys /\ keys'[call'[q].cred] = "revoked"
                    /\ call'[q].pc # "served"
  BY DEF LateInv
<1>1. RequestStep(q)
  BY EveryStep
<1>2. Idle.late = FALSE /\ call'[q] # Idle
  BY DEF Idle
<1>3. CASE call[q].late /\ call'[q].late = call[q].late /\ call'[q].cred = call[q].cred
  <2>1. call[q].cred \in Keys /\ keys[call[q].cred] = "revoked" /\ call[q].pc # "served"
    BY <1>3 DEF LateInv
  <2>2. keys'[call[q].cred] = "revoked"
    BY <2>1, RevokedForEver
  <2>3. ~LiveKey(call[q].cred) /\ call[q].cred # "jwt"
    BY <2>1, GateAssumption DEF LiveKey, GateAssumption
  <2>4. call'[q].pc # "served"
    BY <1>1, <1>2, <2>1, <2>3 DEF RequestStep
  <2>5. QED
    BY <1>3, <2>1, <2>2, <2>4
<1>4. CASE call'[q].pc = "count" /\ call'[q].cred \in Keys /\ keys[call'[q].cred] = "revoked"
  BY <1>4, RevokedForEver
<1>5. QED
  BY <1>1, <1>2, <1>3, <1>4 DEF RequestStep, GoesOn

\* Revocation holds on every replica at once, because every request looks the
\* key up.
THEOREM RevocationHolds == Spec => []RevokedKeysAreRefused
<1>1. Init => LateInv
  BY DEF Init, Idle, LateInv
<1>2. LateInv => RevokedKeysAreRefused
  BY DEF LateInv, RevokedKeysAreRefused, At
<1>3. QED
  BY <1>1, <1>2, TypeInitially, TypePreserved, LatePreserved, PTL DEF Spec

-----------------------------------------------------------------------------
(* Counters and their expiry                                               *)

\* A counter no request is about to give its expiry, and that has none and
\* lost none, is empty.
LEMMA OthersKeepExpiring ==
  ASSUME TypeOK, CountersExpire, NEW q \in Requests, NEW b \in Buckets, hits[b] > 0,
         timed \subseteq timed', lost \subseteq lost',
         \A p \in Requests \ {q} : call'[p] = call[p],
         At(q, "expire") => call[q].bucket # b \/ call'[q] = call[q]
  PROVE  \/ b \in timed' \union lost'
         \/ \E p \in Requests : At(p, "expire")' /\ call'[p].bucket = b
BY DEF CountersExpire, At

LEMMA ElsewhereKeepsExpiring ==
  ASSUME TypeOK, CountersExpire, NEW q \in Requests, ~At(q, "expire"),
         hits' = hits, timed' = timed, lost' = lost,
         \A p \in Requests \ {q} : call'[p] = call[p]
  PROVE  CountersExpire'
BY OthersKeepExpiring DEF CountersExpire

LEMMA CountKeepsExpiring ==
  ASSUME TypeOK, CountersExpire, NEW q \in Requests, Count(q)
  PROVE  CountersExpire'
<1> DEFINE k == [call[q] EXCEPT !.count = OneMore(hits[call[q].bucket])]
<1>1. call[q] \in Calls /\ call[q].bucket \in Buckets /\ hits[call[q].bucket] \in 0..MaxHits
  BY DEF TypeOK, Calls
<1>2. OneMore(hits[call[q].bucket]) \in 0..MaxHits
  BY <1>1, OneMoreCounts
<1>3. k \in Calls /\ k.bucket = call[q].bucket /\ k.count = OneMore(hits[call[q].bucket])
  BY <1>1, <1>2, CountSet DEF Calls
<1>4. /\ hits' = [hits EXCEPT ![call[q].bucket] = k.count]
      /\ timed' = timed /\ lost' = lost /\ ~At(q, "expire")
      /\ \/ StartsWindow(k) /\ call' = [call EXCEPT ![q] = [k EXCEPT !.pc = "expire"]]
         \/ ~StartsWindow(k) /\ Judge(q, k)
  BY DEF Count, At
<1> HIDE DEF k
<1>5. \A p \in Requests \ {q} : call'[p] = call[p]
  <2>1. CASE Judge(q, k)
    <3>1. Settled(q, k)
      BY <2>1, JudgeSettles
    <3>2. QED
      BY <3>1 DEF Settled, TypeOK
  <2>2. QED
    BY <1>4, <2>1 DEF TypeOK
<1>6. SUFFICES ASSUME NEW b \in Buckets, hits'[b] > 0
               PROVE  \/ b \in timed' \union lost'
                      \/ \E p \in Requests : At(p, "expire")' /\ call'[p].bucket = b
  BY DEF CountersExpire
<1>7. CASE hits[b] > 0
  BY <1>4, <1>5, <1>7, OthersKeepExpiring
<1>8. CASE ~(hits[b] > 0)
  <2>1. hits[b] = 0
    BY <1>8 DEF TypeOK
  <2>2. b = call[q].bucket /\ hits'[b] = k.count
    BY <1>1, <1>4, <2>1, <1>6 DEF TypeOK
  <2>3. k.count = 1
    BY <1>3, <1>6, <2>1, <2>2, GateAssumption DEF GateAssumption, OneMore
  <2>4. call'[q] = [k EXCEPT !.pc = "expire"]
    BY <1>4, <2>3 DEF StartsWindow, TypeOK
  <2>5. call'[q].pc = "expire" /\ call'[q].bucket = b
    BY <1>3, <2>2, <2>4 DEF Calls
  <2>6. QED
    BY <2>5 DEF At
<1>9. QED
  BY <1>7, <1>8

LEMMA ReplyLostKeepsExpiring ==
  ASSUME TypeOK, CountersExpire, NEW q \in Requests, CountReplyLost(q)
  PROVE  CountersExpire'
<1>1. call[q] \in Calls /\ call[q].bucket \in Buckets
  BY DEF TypeOK, Calls
<1>2. \A p \in Requests \ {q} : call'[p] = call[p]
  <2>1. Settled(q, call[q])
    BY PassSettles DEF CountReplyLost
  <2>2. QED
    BY <2>1 DEF Settled, TypeOK
<1>3. /\ hits' = [hits EXCEPT ![call[q].bucket] = OneMore(hits[call[q].bucket])]
      /\ timed' = timed /\ ~At(q, "expire")
      /\ lost' = IF hits[call[q].bucket] = 0 THEN lost \union {call[q].bucket} ELSE lost
  BY DEF CountReplyLost, At
<1>4. SUFFICES ASSUME NEW b \in Buckets, hits'[b] > 0
               PROVE  \/ b \in timed' \union lost'
                      \/ \E p \in Requests : At(p, "expire")' /\ call'[p].bucket = b
  BY DEF CountersExpire
<1>5. CASE hits[b] > 0
  BY <1>2, <1>3, <1>5, OthersKeepExpiring
<1>6. CASE ~(hits[b] > 0)
  <2>1. hits[b] = 0
    BY <1>6 DEF TypeOK
  <2>2. b = call[q].bucket
    BY <1>1, <1>3, <1>4, <2>1 DEF TypeOK
  <2>3. QED
    BY <1>3, <2>1, <2>2
<1>7. QED
  BY <1>5, <1>6

LEMMA ExpireKeepsExpiring ==
  ASSUME TypeOK, CountersExpire, NEW q \in Requests, Expire(q) \/ DropRequest(q)
  PROVE  CountersExpire'
<1>1. hits' = hits /\ timed \subseteq timed' /\ lost \subseteq lost'
      /\ call[q].bucket \in timed' \union lost'
  BY DEF Expire, DropRequest
<1>2. \A p \in Requests \ {q} : call'[p] = call[p]
  <2>1. CASE Expire(q)
    <3>1. Settled(q, call[q])
      BY <2>1, JudgeSettles DEF Expire
    <3>2. QED
      BY <3>1 DEF Settled, TypeOK
  <2>2. CASE DropRequest(q)
    BY <2>2 DEF DropRequest, Return, TypeOK
  <2>3. QED
    BY <2>1, <2>2
<1>3. SUFFICES ASSUME NEW b \in Buckets, hits[b] > 0, b # call[q].bucket
               PROVE  \/ b \in timed' \union lost'
                      \/ \E p \in Requests : At(p, "expire")' /\ call'[p].bucket = b
  BY <1>1 DEF CountersExpire
<1>4. QED
  BY <1>1, <1>2, <1>3, OthersKeepExpiring

LEMMA RestartKeepsExpiring ==
  ASSUME TypeOK, CountersExpire, NEW r \in Replicas, Restart(r)
  PROVE  CountersExpire'
<1>1. SUFFICES ASSUME NEW b \in Buckets, hits[b] > 0
               PROVE  \/ b \in timed' \union lost'
                      \/ \E p \in Requests : At(p, "expire")' /\ call'[p].bucket = b
  BY DEF CountersExpire, Restart
<1>2. CASE b \in timed \union lost
  BY <1>2 DEF Restart
<1>3. ASSUME NEW p \in Requests, At(p, "expire"), call[p].bucket = b
      PROVE  \/ b \in lost'
             \/ At(p, "expire")' /\ call'[p].bucket = b
  <2>1. CASE call[p].replica = r
    BY <1>3, <2>1 DEF Restart
  <2>2. CASE call[p].replica # r
    BY <1>3, <2>2 DEF Restart, At
  <2>3. QED
    BY <2>1, <2>2
<1>4. QED
  BY <1>1, <1>2, <1>3 DEF CountersExpire

LEMMA ExpiryPreserved == TypeOK /\ CountersExpire /\ [Next]_vars => CountersExpire'
<1> SUFFICES ASSUME TypeOK, CountersExpire, [Next]_vars PROVE CountersExpire'
  OBVIOUS
<1>1. CASE UNCHANGED <<hits, timed, lost, call>>
  BY <1>1 DEF CountersExpire, At
<1>2. ASSUME NEW q \in Requests, NEW r \in Replicas,
             ArrivePublic(q, r) \/ \E cred \in Creds : ArriveMerchant(q, r, cred)
      PROVE  CountersExpire'
  <2>1. \E k : Arrive(q, k)
    BY <1>2 DEF ArrivePublic, ArriveMerchant
  <2>2. QED
    BY <2>1, ElsewhereKeepsExpiring DEF Arrive, At, TypeOK, limiterVars
<1>3. ASSUME NEW q \in Requests, LimiterUnavailable(q) PROVE CountersExpire'
  <2>1. Settled(q, call[q])
    BY <1>3, PassSettles DEF LimiterUnavailable
  <2>2. QED
    BY <1>3, <2>1, ElsewhereKeepsExpiring DEF LimiterUnavailable, Settled, At, TypeOK
<1>4. ASSUME NEW q \in Requests, Handle(q) PROVE CountersExpire'
  BY <1>4, ElsewhereKeepsExpiring DEF Handle, At, TypeOK, limiterVars
<1>5. ASSUME NEW q \in Requests, End(q) PROVE CountersExpire'
  BY <1>5, ElsewhereKeepsExpiring DEF End, Return, At, TypeOK, limiterVars
<1>6. ASSUME NEW b \in Buckets, CounterExpires(b) PROVE CountersExpire'
  BY <1>6 DEF CounterExpires, CountersExpire, At, TypeOK
<1>7. ASSUME NEW q \in Requests,
             Count(q) \/ CountReplyLost(q) \/ Expire(q) \/ DropRequest(q)
      PROVE  CountersExpire'
  BY <1>7, CountKeepsExpiring, ReplyLostKeepsExpiring, ExpireKeepsExpiring
<1>8. CASE \/ RedisFails \/ RedisRecovers
           \/ \E key \in Keys : CreateApiKey(key) \/ RevokeApiKey(key)
           \/ \E r \in Replicas, n \in Limits : ReplaceLimit(r, n)
  BY <1>1, <1>8 DEF RedisFails, RedisRecovers, CreateApiKey, RevokeApiKey, ReplaceLimit,
                    limiterVars
<1>9. CASE UNCHANGED vars
  BY <1>1, <1>9 DEF vars, limiterVars
<1>10. QED
  BY <1>2, <1>3, <1>4, <1>5, <1>6, <1>7, <1>8, <1>9, RestartKeepsExpiring DEF Next

\* Nobody is locked out for good but by the loss of a counter's one EXPIRE.
THEOREM LockoutsEnd == Spec => []CountersExpire
<1>1. Init => CountersExpire
  BY DEF Init, CountersExpire
<1>2. QED
  BY <1>1, TypeInitially, TypePreserved, ExpiryPreserved, PTL DEF Spec
-----------------------------------------------------------------------------
(* The one request that starts a counter                                   *)

\* A counter is started by at most one request, which has counted itself and
\* nothing else; while it has not sent the EXPIRE the counter does not expire.
StarterInv ==
  /\ \A q \in Requests : call[q].pc \in {"count", "expire"} => call[q].limit \in Limits
  /\ \A b \in timed : hits[b] > 0
  /\ \A q \in Requests : At(q, "expire") =>
       /\ call[q].count = 1 /\ hits[call[q].bucket] > 0
       /\ call[q].bucket \notin timed
  /\ \A p, q \in Requests :
       At(p, "expire") /\ At(q, "expire") /\ call[p].bucket = call[q].bucket => p = q

LEMMA Numbers ==
  ASSUME TypeOK, NEW b \in Buckets
  PROVE  /\ hits[b] \in Nat /\ hits[b] <= MaxHits /\ admitted[b] \in Nat
         /\ ceiling[b] \in Nat /\ MaxHits \in Nat
         /\ \A n \in Limits : n \in Nat /\ 1 <= n /\ n < MaxHits
<1>1. MaxHits \in Nat /\ \A n \in Limits : n \in Nat /\ 1 <= n /\ n < MaxHits
  BY GateAssumption DEF GateAssumption
<1>2. hits[b] \in 0..MaxHits /\ admitted[b] \in 0..MaxHits /\ ceiling[b] \in Limits \union {0}
  BY DEF TypeOK
<1>3. ceiling[b] \in Nat
  BY <1>1, <1>2
<1>4. QED
  BY <1>1, <1>2, <1>3

LEMMA SettledLeaves ==
  ASSUME TypeOK, NEW q \in Requests, NEW k \in Calls, Settled(q, k)
  PROVE  /\ call'[q].pc \in {"idle", "inside"}
         /\ \A p \in Requests \ {q} : call'[p] = call[p]
<1> DEFINE i == [k EXCEPT !.pc = "inside", !.limit = 0, !.count = 0]
<1>1. i.pc = "inside" /\ Idle.pc = "idle"
  BY DEF Calls, Idle
<1>2. call'[q] \in {Idle, i} /\ call' = [call EXCEPT ![q] = call'[q]]
  BY DEF Settled
<1> HIDE DEF i
<1>3. \A p \in Requests \ {q} : call'[p] = call[p]
  BY <1>2 DEF TypeOK
<1>4. QED
  BY <1>1, <1>2, <1>3

LEMMA StartersKept ==
  ASSUME StarterInv, timed' = timed, timed \subseteq Buckets,
         \A b \in Buckets : hits[b] > 0 => hits'[b] > 0,
         \A p \in Requests : call[p].bucket \in Buckets,
         \A p \in Requests :
           \/ call'[p] = call[p] \/ call'[p].pc \notin {"count", "expire"}
           \/ call'[p].pc = "count" /\ call'[p].limit \in Limits
  PROVE  StarterInv'
BY DEF StarterInv, At

LEMMA CountKeepsStarters ==
  ASSUME TypeOK, StarterInv, NEW q \in Requests, Count(q)
  PROVE  StarterInv'
<1> DEFINE b == call[q].bucket
           k == [call[q] EXCEPT !.count = OneMore(hits[b])]
           e == [k EXCEPT !.pc = "expire"]
<1>1. call[q] \in Calls /\ b \in Buckets /\ hits[b] \in 0..MaxHits
  BY DEF TypeOK, Calls
<1>2. OneMore(hits[b]) \in 0..MaxHits
  BY <1>1, OneMoreCounts
<1>3. k \in Calls /\ k.bucket = b /\ k.count = OneMore(hits[b]) /\ k.limit = call[q].limit
  BY <1>1, <1>2, CountSet DEF Calls
<1>4. e.pc = "expire" /\ e.bucket = b /\ e.count = k.count /\ e.limit = k.limit
  BY <1>3 DEF Calls
<1>5. k.limit \in Limits
  BY <1>3 DEF StarterInv, Count, At
<1>6. MaxHits \in Nat /\ MaxHits > 1
  BY <1>5, Numbers, <1>1
<1>7. /\ hits' = [hits EXCEPT ![b] = k.count] /\ timed' = timed
      /\ \/ StartsWindow(k) /\ call' = [call EXCEPT ![q] = e]
         \/ Judge(q, k)
  BY DEF Count
<1>8. \A c \in Buckets : hits'[c] = IF c = b THEN k.count ELSE hits[c]
  BY <1>7 DEF TypeOK
<1> HIDE DEF k, e
<1>9. k.count > 0
  BY <1>1, <1>3, <1>6 DEF OneMore
<1>10. CASE Judge(q, k)
  <2>1. Settled(q, k)
    BY <1>10, JudgeSettles
  <2>2. call'[q].pc \in {"idle", "inside"} /\ \A p \in Requests \ {q} : call'[p] = call[p]
    BY <2>1, <1>3, SettledLeaves
  <2>3. QED
    BY <1>7, <1>8, <1>9, <2>2, StartersKept DEF TypeOK, Calls
<1>11. CASE StartsWindow(k) /\ call' = [call EXCEPT ![q] = e]
  <2>1. k.count = 1 /\ hits[b] = 0
    BY <1>11, <1>1, <1>3, <1>6 DEF StartsWindow, OneMore
  <2>2. b \notin timed /\ \A p \in Requests : At(p, "expire") => call[p].bucket # b
    BY <2>1 DEF StarterInv
  <2>3. call'[q] = e /\ \A p \in Requests \ {q} : call'[p] = call[p]
    BY <1>11 DEF TypeOK
  <2>4. \A p \in Requests : call'[p].pc \in {"count", "expire"} => call'[p].limit \in Limits
    BY <2>3, <1>4, <1>5 DEF StarterInv
  <2>5. \A c \in timed' : hits'[c] > 0
    BY <1>7, <1>8, <1>9 DEF StarterInv, TypeOK
  <2>6. \A p \in Requests : At(p, "expire")' =>
          /\ call'[p].count = 1 /\ hits'[call'[p].bucket] > 0
          /\ call'[p].bucket \notin timed'
    <3>1. ASSUME NEW p \in Requests, p # q, call[p].pc = "expire"
          PROVE  /\ call[p].count = 1 /\ hits'[call[p].bucket] > 0
                 /\ call[p].bucket \notin timed'
      BY <3>1, <1>7, <1>8, <1>9 DEF StarterInv, At, TypeOK, Calls
    <3>2. QED
      BY <3>1, <1>1, <1>4, <1>7, <1>8, <1>9, <2>1, <2>2, <2>3 DEF At
  <2>7. \A p, o \in Requests : At(p, "expire")' /\ At(o, "expire")'
          /\ call'[p].bucket = call'[o].bucket => p = o
    BY <1>4, <2>2, <2>3 DEF StarterInv, At
  <2>8. QED
    BY <2>4, <2>5, <2>6, <2>7 DEF StarterInv, At
<1>12. QED
  BY <1>7, <1>10, <1>11

LEMMA ExpireKeepsStarters ==
  ASSUME TypeOK, StarterInv, NEW q \in Requests, Expire(q)
  PROVE  StarterInv'
<1>1. call[q] \in Calls /\ Settled(q, call[q])
  BY JudgeSettles DEF Expire, TypeOK
<1>2. call'[q].pc \in {"idle", "inside"} /\ \A p \in Requests \ {q} : call'[p] = call[p]
  BY <1>1, SettledLeaves
<1>3. At(q, "expire") /\ hits' = hits /\ timed' \subseteq timed \union {call[q].bucket}
  BY DEF Expire
<1>4. hits[call[q].bucket] > 0
      /\ \A p \in Requests \ {q} : At(p, "expire") => call[p].bucket # call[q].bucket
  BY <1>3 DEF StarterInv
<1>5. QED
  BY <1>2, <1>3, <1>4 DEF StarterInv, At

LEMMA StartersPreserved == TypeOK /\ StarterInv /\ [Next]_vars => StarterInv'
<1> SUFFICES ASSUME TypeOK, StarterInv, [Next]_vars PROVE StarterInv'
  OBVIOUS
<1>1. \A p \in Requests : call[p].bucket \in Buckets
  BY DEF TypeOK, Calls
<1>2. timed \subseteq Buckets
  BY DEF TypeOK
<1>3. CASE UNCHANGED <<hits, timed, call>>
  BY <1>1, <1>2, <1>3, StartersKept
<1>4. ASSUME NEW q \in Requests, NEW r \in Replicas,
             ArrivePublic(q, r) \/ \E cred \in Creds : ArriveMerchant(q, r, cred)
      PROVE  StarterInv'
  <2>1. PICK k : Arrive(q, k) /\ k \in Calls /\ k.replica \in Replicas
    BY <1>4, ArrivalsAreCalls
  <2>2. limit[k.replica] \in Limits
    BY <2>1 DEF TypeOK
  <2>3. [k EXCEPT !.pc = "count", !.limit = limit[k.replica]].pc = "count"
        /\ [k EXCEPT !.pc = "count", !.limit = limit[k.replica]].limit = limit[k.replica]
    BY <2>1 DEF Calls
  <2>4. QED
    BY <1>1, <1>2, <2>1, <2>2, <2>3, StartersKept DEF Arrive, TypeOK, limiterVars
<1>5. ASSUME NEW q \in Requests, LimiterUnavailable(q) \/ CountReplyLost(q)
      PROVE  StarterInv'
  <2>1. call[q] \in Calls /\ call[q].bucket \in Buckets /\ Settled(q, call[q])
    BY <1>5, PassSettles DEF LimiterUnavailable, CountReplyLost, TypeOK, Calls
  <2>2. call'[q].pc \in {"idle", "inside"} /\ \A p \in Requests \ {q} : call'[p] = call[p]
    BY <2>1, SettledLeaves
  <2>3. timed' = timed /\ hits' \in
          {hits, [hits EXCEPT ![call[q].bucket] = OneMore(hits[call[q].bucket])]}
    BY <1>5 DEF LimiterUnavailable, CountReplyLost
  <2>4. \A b \in Buckets : hits[b] > 0 => hits'[b] > 0
    BY <2>1, <2>3, GateAssumption DEF GateAssumption, OneMore, TypeOK
  <2>5. QED
    BY <1>1, <1>2, <2>2, <2>3, <2>4, StartersKept
<1>6. ASSUME NEW q \in Requests, Handle(q) PROVE StarterInv'
  <2>1. [call[q] EXCEPT !.pc = "served"].pc = "served" /\ Idle.pc = "idle"
    BY DEF TypeOK, Calls, Idle
  <2>2. call'[q].pc \in {"served", "idle"} /\ \A p \in Requests \ {q} : call'[p] = call[p]
    BY <1>6, <2>1 DEF Handle, TypeOK
  <2>3. QED
    BY <1>1, <1>2, <1>6, <2>2, StartersKept DEF Handle, limiterVars
<1>7. ASSUME NEW q \in Requests, End(q) \/ DropRequest(q) PROVE StarterInv'
  BY <1>1, <1>2, <1>7, StartersKept DEF End, DropRequest, Return, Idle, TypeOK, limiterVars
<1>8. ASSUME NEW b \in Buckets, CounterExpires(b) PROVE StarterInv'
  BY <1>1, <1>8 DEF CounterExpires, StarterInv, At, TypeOK
<1>9. ASSUME NEW r \in Replicas, Restart(r) PROVE StarterInv'
  BY <1>1, <1>2, <1>9, StartersKept DEF Restart, Idle
<1>10. CASE \/ RedisFails \/ RedisRecovers
            \/ \E key \in Keys : CreateApiKey(key) \/ RevokeApiKey(key)
            \/ \E r \in Replicas, n \in Limits : ReplaceLimit(r, n)
            \/ UNCHANGED vars
  BY <1>3, <1>10 DEF RedisFails, RedisRecovers, CreateApiKey, RevokeApiKey, ReplaceLimit,
                     limiterVars, vars
<1>11. QED
  BY <1>4, <1>5, <1>6, <1>7, <1>8, <1>9, <1>10, CountKeepsStarters, ExpireKeepsStarters
     DEF Next

-----------------------------------------------------------------------------
(* The window                                                              *)

\* A counter that lets `n` requests in was held to n, and counted them unless it
\* has lost count.
Admits(b, n) == n <= ceiling[b] /\ (hits[b] < MaxHits => n <= hits[b])

\* It has room for those it let in, and for the merchant that is starting it,
\* whom no rejection can follow.
FitInv ==
  /\ \A b \in Buckets : Admits(b, admitted[b])
  /\ \A q \in Requests : At(q, "expire") /\ call[q].route = "merchant" =>
       Admits(call[q].bucket, admitted[call[q].bucket] + 1)

LEMMA LetInAdmits ==
  ASSUME NEW q \in Requests, NEW k, LetIn(q, k)
  PROVE  \/ admitted' = admitted
         \/ /\ k.route # "public"
            /\ admitted' = [admitted EXCEPT ![k.bucket] = OneMore(admitted[k.bucket])]
BY DEF LetIn

LEMMA JudgeAdmits ==
  ASSUME NEW q \in Requests, NEW k \in Calls, Judge(q, k)
  PROVE  \/ admitted' = admitted
         \/ /\ k.route = "merchant" /\ k.count <= k.limit
            /\ admitted' = [admitted EXCEPT ![k.bucket] = OneMore(admitted[k.bucket])]
BY LetInAdmits DEF Judge, Calls

LEMMA PassAdmits ==
  ASSUME Production, NEW q \in Requests, PassUncounted(q)
  PROVE  admitted' = admitted
BY LetInAdmits DEF PassUncounted, FailsOpen

\* What counts more, holds to more and lets nobody in fits still.
LEMMA FitKept ==
  ASSUME TypeOK, FitInv, admitted' = admitted,
         \A b \in Buckets : /\ ceiling[b] <= ceiling'[b] /\ ceiling'[b] \in Nat
                            /\ hits'[b] \in Nat
                            /\ hits[b] <= hits'[b] /\ (hits'[b] < MaxHits => hits[b] < MaxHits),
         \A p \in Requests : call'[p] = call[p] \/ call'[p].pc # "expire"
  PROVE  FitInv'
<1>1. ASSUME NEW b \in Buckets, NEW n \in Nat, Admits(b, n) PROVE Admits(b, n)'
  BY <1>1, Numbers DEF Admits
<1>2. \A b \in Buckets : Admits(b, admitted[b])'
  <2> TAKE b \in Buckets
  <2>1. Admits(b, admitted[b]) /\ admitted[b] \in Nat
    BY Numbers DEF FitInv
  <2>2. QED
    BY <1>1, <2>1
<1>3. ASSUME NEW q \in Requests, At(q, "expire")', call'[q].route = "merchant"
      PROVE  Admits(call[q].bucket, admitted[call[q].bucket] + 1)' /\ call'[q] = call[q]
  <2>1. call'[q] = call[q] /\ At(q, "expire") /\ call[q].bucket \in Buckets
    BY <1>3 DEF At, TypeOK, Calls
  <2>2. admitted[call[q].bucket] + 1 \in Nat
    BY <2>1, Numbers
  <2>3. Admits(call[q].bucket, admitted[call[q].bucket] + 1)
    BY <1>3, <2>1 DEF FitInv
  <2>4. QED
    BY <1>1, <2>1, <2>2, <2>3 DEF Admits
<1>4. QED
  BY <1>2, <1>3 DEF FitInv, Admits

LEMMA CountFits ==
  ASSUME TypeOK, StarterInv, FitInv, NEW q \in Requests, Count(q)
  PROVE  FitInv'
<1>0. PICK b \in Buckets : b = call[q].bucket
  BY DEF TypeOK, Calls
<1> DEFINE k == [call[q] EXCEPT !.count = OneMore(hits[b])]
           e == [k EXCEPT !.pc = "expire"]
<1>1. call[q] \in Calls /\ hits[b] \in 0..MaxHits
  BY DEF TypeOK
<1>2. OneMore(hits[b]) \in 0..MaxHits
  BY <1>1, OneMoreCounts
<1>3. k \in Calls /\ k.bucket = b /\ k.count = OneMore(hits[b]) /\ k.limit = call[q].limit
  BY <1>0, <1>1, <1>2, CountSet DEF Calls
<1>4. e.pc = "expire" /\ e.bucket = b /\ e.route = k.route
  BY <1>3 DEF Calls
<1>5. k.limit \in Limits
  BY <1>3 DEF StarterInv, Count, At
<1>6. /\ hits' = [hits EXCEPT ![b] = k.count]
      /\ ceiling' = [ceiling EXCEPT ![b] = IF k.route = "merchant" /\ k.limit > @
                                                   THEN k.limit ELSE @]
      /\ \/ StartsWindow(k) /\ call' = [call EXCEPT ![q] = e] /\ admitted' = admitted
         \/ Judge(q, k)
  BY <1>0 DEF Count
<1> HIDE DEF k, e
<1>7. k.limit \in Nat /\ 1 <= k.limit /\ k.limit < MaxHits /\ MaxHits \in Nat
  BY <1>1, <1>5, Numbers
<1>8. hits[b] \in Nat /\ admitted[b] \in Nat /\ ceiling[b] \in Nat /\ hits[b] <= MaxHits
  BY <1>1, Numbers
<1>9. /\ hits'[b] = OneMore(hits[b])
      /\ ceiling'[b] = IF k.route = "merchant" /\ k.limit > ceiling[b] THEN k.limit ELSE ceiling[b]
      /\ \A c \in Buckets \ {b} : hits'[c] = hits[c] /\ ceiling'[c] = ceiling[c]
  BY <1>1, <1>3, <1>6 DEF TypeOK
<1>10. /\ ceiling'[b] \in Nat /\ ceiling[b] <= ceiling'[b]
       /\ k.route = "merchant" => k.limit <= ceiling'[b]
       /\ hits'[b] \in Nat /\ hits[b] <= hits'[b] /\ (hits'[b] < MaxHits => hits[b] < MaxHits)
  BY <1>7, <1>8, <1>9 DEF OneMore
<1>11. Admits(b, admitted[b])
  BY <1>1 DEF FitInv
<1>12. CASE Judge(q, k)
  <2>1. Settled(q, k)
    BY <1>12, JudgeSettles
  <2>2. call'[q].pc # "expire" /\ \A p \in Requests \ {q} : call'[p] = call[p]
    BY <2>1, <1>3, SettledLeaves
  <2>3. CASE admitted' = admitted
    BY <1>9, <1>10, <2>2, <2>3, FitKept, Numbers
  <2>4. CASE /\ k.route = "merchant" /\ k.count <= k.limit
             /\ admitted' = [admitted EXCEPT ![b] = OneMore(admitted[b])]
    <3>1. hits[b] < MaxHits /\ hits'[b] = hits[b] + 1 /\ hits[b] + 1 <= ceiling'[b]
      BY <2>4, <1>3, <1>7, <1>8, <1>9, <1>10 DEF OneMore
    <3>2. admitted[b] <= hits[b]
      BY <3>1, <1>11 DEF Admits
    <3>3. /\ admitted'[b] = admitted[b] + 1
          /\ \A c \in Buckets \ {b} : admitted'[c] = admitted[c]
      BY <2>4, <3>1, <3>2, <1>1, <1>7, <1>8 DEF OneMore, TypeOK
    <3>4. ASSUME NEW c \in Buckets PROVE Admits(c, admitted[c])'
      <4>1. CASE c = b
        BY <4>1, <3>1, <3>2, <3>3, <1>8, <1>10 DEF Admits
      <4>2. CASE c # b
        BY <4>2, <3>3, <1>9 DEF FitInv, Admits
      <4>3. QED
        BY <4>1, <4>2
    <3>5. ASSUME NEW p \in Requests, At(p, "expire")', call'[p].route = "merchant"
          PROVE  Admits(call[p].bucket, admitted[call[p].bucket] + 1)' /\ call'[p] = call[p]
      <4>1. call'[p] = call[p] /\ At(p, "expire") /\ call[p].bucket \in Buckets
        BY <3>5, <2>2 DEF At, TypeOK, Calls
      <4>2. Admits(call[p].bucket, admitted[call[p].bucket] + 1)
        BY <4>1, <3>5 DEF FitInv
      <4>3. CASE call[p].bucket = b
        <5>1. admitted[b] + 1 <= hits[b]
          BY <4>2, <4>3, <3>1 DEF Admits
        <5>2. Admits(b, admitted[b] + 1)'
          BY <5>1, <3>1, <3>3, <1>8, <1>10 DEF Admits
        <5>3. QED
          BY <5>2, <4>1, <4>3
      <4>4. CASE call[p].bucket # b
        BY <4>1, <4>2, <4>4, <3>3, <1>9 DEF Admits
      <4>5. QED
        BY <4>3, <4>4
    <3>6. QED
      BY <3>4, <3>5 DEF FitInv, Admits
  <2>5. QED
    BY <1>3, <1>12, <2>3, <2>4, JudgeAdmits
<1>13. CASE StartsWindow(k) /\ call' = [call EXCEPT ![q] = e] /\ admitted' = admitted
  <2>1. hits[b] = 0 /\ hits'[b] = 1
    BY <1>13, <1>3, <1>7, <1>8, <1>9 DEF StartsWindow, OneMore
  <2>2. admitted[b] = 0
    BY <2>1, <1>7, <1>8, <1>11 DEF Admits
  <2>3. \A p \in Requests : At(p, "expire") => call[p].bucket # b
    BY <2>1 DEF StarterInv
  <2>4. call'[q] = e /\ \A p \in Requests \ {q} : call'[p] = call[p]
    BY <1>13 DEF TypeOK
  <2>5. ASSUME NEW c \in Buckets PROVE Admits(c, admitted[c])'
    <3>1. CASE c = b
      BY <3>1, <1>13, <2>1, <2>2, <1>10 DEF Admits
    <3>2. CASE c # b
      BY <3>2, <1>13, <1>9 DEF FitInv, Admits
    <3>3. QED
      BY <3>1, <3>2
  <2>6. ASSUME NEW p \in Requests, p # q, At(p, "expire")', call'[p].route = "merchant"
        PROVE  Admits(call[p].bucket, admitted[call[p].bucket] + 1)'
    <3>1. call'[p] = call[p] /\ At(p, "expire") /\ call[p].bucket \in Buckets \ {b}
      BY <2>6, <2>3, <2>4 DEF At, TypeOK, Calls
    <3>2. QED
      BY <2>6, <3>1, <1>9, <1>13 DEF FitInv, Admits
  <2>7. k.route = "merchant" => Admits(b, admitted[b] + 1)'
    BY <1>7, <1>10, <1>13, <2>1, <2>2 DEF Admits
  <2>8. QED
    BY <2>4, <2>5, <2>6, <2>7, <1>4 DEF FitInv, Admits, At
<1>14. QED
  BY <1>6, <1>12, <1>13

LEMMA ExpireFits ==
  ASSUME TypeOK, StarterInv, FitInv, NEW q \in Requests, Expire(q)
  PROVE  FitInv'
<1>0. PICK b \in Buckets : b = call[q].bucket
  BY DEF TypeOK, Calls
<1>1. call[q] \in Calls /\ Judge(q, call[q]) /\ At(q, "expire")
      /\ hits' = hits /\ ceiling' = ceiling
  BY DEF Expire, TypeOK
<1>2. call'[q].pc # "expire" /\ \A p \in Requests \ {q} : call'[p] = call[p]
  BY <1>1, JudgeSettles, SettledLeaves
<1>3. CASE admitted' = admitted
  BY <1>1, <1>2, <1>3, FitKept, Numbers
<1>4. CASE /\ call[q].route = "merchant"
           /\ admitted' = [admitted EXCEPT ![b] = OneMore(admitted[b])]
  <2>1. Admits(b, admitted[b] + 1)
    BY <1>0, <1>1, <1>4 DEF FitInv
  <2>2. ceiling[b] < MaxHits
    BY <1>1, <2>1, Numbers DEF TypeOK, Admits
  <2>3. admitted[b] + 1 <= ceiling[b] /\ admitted[b] \in Nat /\ ceiling[b] \in Nat
        /\ MaxHits \in Nat
    BY <1>1, <2>1, Numbers DEF Admits
  <2>4. OneMore(admitted[b]) = admitted[b] + 1
    BY <2>2, <2>3 DEF OneMore
  <2>5. admitted'[b] = admitted[b] + 1 /\ \A c \in Buckets \ {b} : admitted'[c] = admitted[c]
    BY <1>1, <1>4, <2>4 DEF TypeOK
  <2>6. \A c \in Buckets : Admits(c, admitted[c])'
    BY <1>1, <2>1, <2>5 DEF FitInv, Admits
  <2>7. ASSUME NEW p \in Requests, At(p, "expire")', call'[p].route = "merchant"
        PROVE  Admits(call[p].bucket, admitted[call[p].bucket] + 1)' /\ call'[p] = call[p]
    <3>1. call'[p] = call[p] /\ At(p, "expire") /\ p # q
      BY <1>2, <2>7 DEF At
    <3>2. call[p].bucket \in Buckets \ {b}
      BY <1>0, <1>1, <3>1 DEF StarterInv, TypeOK, Calls
    <3>3. QED
      BY <1>1, <2>5, <2>7, <3>1, <3>2 DEF FitInv, Admits
  <2>8. QED
    BY <2>6, <2>7 DEF FitInv, Admits
<1>5. QED
  BY <1>0, <1>1, <1>3, <1>4, JudgeAdmits

LEMMA CounterExpiresFits ==
  ASSUME TypeOK, StarterInv, FitInv, NEW b \in Buckets, CounterExpires(b)
  PROVE  FitInv'
<1>1. /\ hits'[b] = 0 /\ admitted'[b] = 0 /\ ceiling'[b] = 0 /\ call' = call
      /\ \A c \in Buckets \ {b} :
           hits'[c] = hits[c] /\ admitted'[c] = admitted[c] /\ ceiling'[c] = ceiling[c]
  BY DEF CounterExpires, TypeOK
<1>2. \A q \in Requests : At(q, "expire") => call[q].bucket \in Buckets \ {b}
  BY DEF CounterExpires, StarterInv, TypeOK, Calls
<1>3. \A c \in Buckets : Admits(c, admitted[c])'
  BY <1>1 DEF FitInv, Admits
<1>4. ASSUME NEW q \in Requests, At(q, "expire"), call[q].route = "merchant"
      PROVE  Admits(call[q].bucket, admitted[call[q].bucket] + 1)'
  BY <1>1, <1>2, <1>4 DEF FitInv, Admits
<1>5. QED
  BY <1>1, <1>3, <1>4 DEF FitInv, Admits, At

LEMMA FitPreserved == Production /\ TypeOK /\ StarterInv /\ FitInv /\ [Next]_vars => FitInv'
<1> SUFFICES ASSUME Production, TypeOK, StarterInv, FitInv, [Next]_vars PROVE FitInv'
  OBVIOUS
<1>1. ASSUME UNCHANGED <<hits, admitted, ceiling>>,
             \A p \in Requests : call'[p] = call[p] \/ call'[p].pc # "expire"
      PROVE  FitInv'
  BY <1>1, FitKept, Numbers
<1>2. ASSUME NEW q \in Requests, NEW r \in Replicas,
             ArrivePublic(q, r) \/ \E cred \in Creds : ArriveMerchant(q, r, cred)
      PROVE  FitInv'
  <2>1. PICK k : Arrive(q, k) /\ k \in Calls
    BY <1>2, ArrivalsAreCalls
  <2>2. [k EXCEPT !.pc = "count", !.limit = limit[k.replica]].pc = "count"
    BY <2>1 DEF Calls
  <2>3. QED
    BY <1>1, <2>1, <2>2 DEF Arrive, TypeOK, limiterVars
<1>3. ASSUME NEW q \in Requests, LimiterUnavailable(q) \/ CountReplyLost(q)
      PROVE  FitInv'
  <2>1. call[q] \in Calls /\ call[q].bucket \in Buckets /\ Settled(q, call[q])
    BY <1>3, PassSettles DEF LimiterUnavailable, CountReplyLost, TypeOK, Calls
  <2>2. call'[q].pc # "expire" /\ \A p \in Requests \ {q} : call'[p] = call[p]
    BY <2>1, SettledLeaves
  <2>3. admitted' = admitted /\ ceiling' = ceiling
    BY <1>3, PassAdmits DEF LimiterUnavailable, CountReplyLost
  <2>4. hits' \in {hits, [hits EXCEPT ![call[q].bucket] = OneMore(hits[call[q].bucket])]}
    BY <1>3 DEF LimiterUnavailable, CountReplyLost
  <2>5. ASSUME NEW b \in Buckets
        PROVE  /\ ceiling[b] <= ceiling'[b] /\ ceiling'[b] \in Nat /\ hits'[b] \in Nat
               /\ hits[b] <= hits'[b] /\ (hits'[b] < MaxHits => hits[b] < MaxHits)
    BY <2>1, <2>3, <2>4, Numbers DEF OneMore, TypeOK
  <2>6. QED
    BY <2>2, <2>3, <2>5, FitKept
<1>4. ASSUME NEW q \in Requests, Handle(q) PROVE FitInv'
  <2>1. [call[q] EXCEPT !.pc = "served"].pc = "served" /\ Idle.pc = "idle"
    BY DEF TypeOK, Calls, Idle
  <2>2. call'[q].pc # "expire" /\ \A p \in Requests \ {q} : call'[p] = call[p]
    BY <1>4, <2>1 DEF Handle, TypeOK
  <2>3. QED
    BY <1>1, <1>4, <2>2 DEF Handle, limiterVars
<1>5. ASSUME NEW q \in Requests, End(q) \/ DropRequest(q) PROVE FitInv'
  BY <1>1, <1>5 DEF End, DropRequest, Return, Idle, TypeOK, limiterVars
<1>6. ASSUME NEW r \in Replicas, Restart(r) PROVE FitInv'
  BY <1>1, <1>6 DEF Restart, Idle
<1>7. CASE \/ RedisFails \/ RedisRecovers
           \/ \E key \in Keys : CreateApiKey(key) \/ RevokeApiKey(key)
           \/ \E r \in Replicas, n \in Limits : ReplaceLimit(r, n)
           \/ UNCHANGED vars
  BY <1>1, <1>7 DEF RedisFails, RedisRecovers, CreateApiKey, RevokeApiKey, ReplaceLimit,
                    limiterVars, vars
<1>8. QED
  BY <1>2, <1>3, <1>4, <1>5, <1>6, <1>7, CountFits, ExpireFits, CounterExpiresFits DEF Next

\* No counter lets more merchants in than its limit, for any number of replicas
\* and requests, however Redis fails, and whatever the limit is changed to.
THEOREM WindowsAreBounded == Spec => []WindowIsBounded
<1>1. Init => StarterInv /\ (Production => FitInv)
  <2> SUFFICES ASSUME Init PROVE StarterInv /\ FitInv
    OBVIOUS
  <2>1. \A q \in Requests : call[q].pc = "idle"
    BY DEF Init, Idle
  <2>2. timed = {} /\ \A b \in Buckets : hits[b] = 0 /\ admitted[b] = 0 /\ ceiling[b] = 0
    BY DEF Init
  <2>3. QED
    BY <2>1, <2>2 DEF StarterInv, FitInv, Admits, At
<1>2. TypeOK /\ StarterInv /\ (Production => FitInv) /\ [Next]_vars
        => (StarterInv /\ (Production => FitInv))'
  BY StartersPreserved, FitPreserved
<1>3. (Production => FitInv) => WindowIsBounded
  BY DEF FitInv, Admits, WindowIsBounded
<1>4. QED
  BY <1>1, <1>2, <1>3, TypeInitially, TypePreserved, PTL DEF Spec

=============================================================================
