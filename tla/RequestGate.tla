----------------------------- MODULE RequestGate -----------------------------
(***************************************************************************)
(* What a request passes before its handler: the rate limiter in front of  *)
(* merchant and public routes, which counts in Redis, and authentication,  *)
(* by API key or access token.  Administrators change the limit and revoke *)
(* keys meanwhile; Redis fails, and replicas start without it.             *)
(*                                                                         *)
(* OperatorSettings says how the limit a replica applies comes about; here *)
(* it may become any of Limits at any time.                                *)
(***************************************************************************)
EXTENDS Integers, FiniteSets

CONSTANTS
  Replicas,    \* server processes
  Limits,      \* values of rate_limit_per_minute
  Production,  \* APP_ENV=production
  Keys,        \* API keys there can be
  Creds,       \* what requests carry: a key, a valid or lapsed "jwt", or nothing
  Requests,    \* slots for requests in flight
  MaxHits,     \* above every limit: a counter at MaxHits holds that or more
  MaxEdits,    \* bound: changes of the limit
  MaxFaults    \* bound: outages of Redis, restarts, requests and replies lost

ASSUME GateAssumption ==
  /\ Creds \subseteq Keys \union {"jwt", "lapsed", "none"}
  /\ Keys \intersect {"jwt", "lapsed", "none"} = {}
  /\ Limits \subseteq 1..(MaxHits - 1) /\ Production \in BOOLEAN
  /\ {MaxHits, MaxEdits, MaxFaults} \subseteq Nat

VARIABLES
  limit,     \* operator_snapshot().rate_limit_per_minute of each replica
  keys,      \* api_keys: "absent", "live" or "revoked"
  redisUp,
  linked,    \* replicas that reached Redis when they started
  hits,      \* Redis: requests counted per bucket
  timed,     \* buckets whose counter expires
  lost,      \* buckets whose EXPIRE was never carried out
  admitted,  \* per bucket: merchant requests let in, of those it counts
  ceiling,   \* per bucket: highest limit merchants were held to since it was empty
  call,      \* the request in progress of each slot
  edits, faults

limiterVars == <<hits, timed, lost, admitted, ceiling>>
redisVars   == <<redisUp, linked>>
counts      == <<edits, faults>>
vars        == <<limit, keys, redisVars, limiterVars, call, counts>>

\* `late`: the key was revoked before the request came.
Idle == [pc |-> "idle", replica |-> "none", route |-> "public", cred |-> "none",
         bucket |-> "ip", limit |-> 0, count |-> 0, late |-> FALSE]

At(q, pc) == call[q].pc = pc
Return(q) == call' = [call EXCEPT ![q] = Idle]
Fault == faults < MaxFaults /\ faults' = faults + 1

-----------------------------------------------------------------------------
(* The limiter                                                             *)

\* A fault: the fingerprint is left out of the name of a key's bucket.
MerchantLimitKeyBare(cred) == IF cred \in Keys THEN "key" ELSE "ip"

\* merchant_limit_key; addresses are one.
MerchantLimitKey(cred) ==
  CASE cred \in Keys    -> cred
    [] cred = "jwt"     -> "tenant"
    [] cred = "lapsed"  -> "token"
    [] OTHER            -> "ip"

Buckets == Keys \union {"tenant", "token", "ip"}

OneMore(n) == IF n < MaxHits THEN n + 1 ELSE n

\* The limit is read before the count.
Arrive(q, k) ==
  /\ At(q, "idle")
  /\ call' = [call EXCEPT ![q] = [k EXCEPT !.pc = "count", !.limit = limit[k.replica]]]
  /\ UNCHANGED <<limit, keys, redisVars, limiterVars, counts>>

\* rate_limit counts by address, rate_limit_authenticated by credential.
ArrivePublic(q, r) == Arrive(q, [Idle EXCEPT !.replica = r])

ArriveMerchant(q, r, cred) ==
  Arrive(q, [Idle EXCEPT !.replica = r, !.route = "merchant", !.cred = cred,
                         !.bucket = MerchantLimitKey(cred),
                         !.late = cred \in Keys /\ keys[cred] = "revoked"])

\* A fault: the expiry is set with the first rejection.
StartsWindowLate(k) == k.count > k.limit

StartsWindow(k) == k.count = 1

\* Public handlers ask for nothing; a merchant request goes on to be
\* authenticated, and is remembered.
LetIn(q, k) ==
  IF k.route = "public"
    THEN Return(q) /\ UNCHANGED admitted
    ELSE /\ call' = [call EXCEPT ![q] = [k EXCEPT !.pc = "inside", !.limit = 0, !.count = 0]]
         /\ admitted' = [admitted EXCEPT ![k.bucket] = OneMore(@)]

\* Allow or Reject
Judge(q, k) ==
  \/ k.count > k.limit /\ Return(q) /\ UNCHANGED admitted
  \/ k.count <= k.limit /\ LetIn(q, k)

Reaches(r) == redisUp /\ r \in linked

\* INCR
Count(q) ==
  LET b == call[q].bucket
      k == [call[q] EXCEPT !.count = OneMore(hits[b])]
  IN  /\ At(q, "count") /\ Reaches(call[q].replica)
      /\ hits' = [hits EXCEPT ![b] = k.count]
      /\ ceiling' = [ceiling EXCEPT ![b] = IF k.route = "merchant" /\ k.limit > @
                                                   THEN k.limit ELSE @]
      /\ \/ /\ StartsWindow(k)
            /\ call' = [call EXCEPT ![q] = [k EXCEPT !.pc = "expire"]]
            /\ UNCHANGED admitted
         \/ ~StartsWindow(k) /\ Judge(q, k)
      /\ UNCHANGED <<limit, keys, redisVars, timed, lost, counts>>

\* EXPIRE, whose failure nobody looks at.
Expire(q) ==
  LET b == call[q].bucket
  IN  /\ At(q, "expire")
      /\ \/ redisUp /\ timed' = timed \union {b} /\ UNCHANGED lost
         \/ ~redisUp /\ lost' = lost \union {b} /\ UNCHANGED timed
      /\ Judge(q, call[q])
      /\ UNCHANGED <<limit, keys, redisVars, hits, ceiling, counts>>

\* A fault: merchants pass an unavailable limiter in production too.
OpenToAll(route) == TRUE

FailsOpen(route) == route = "public" \/ ~Production

\* BackendUnavailable
PassUncounted(q) ==
  \/ FailsOpen(call[q].route) /\ LetIn(q, call[q])
  \/ ~FailsOpen(call[q].route) /\ Return(q) /\ UNCHANGED admitted

LimiterUnavailable(q) ==
  /\ At(q, "count") /\ ~Reaches(call[q].replica)
  /\ PassUncounted(q)
  /\ UNCHANGED <<limit, keys, redisVars, hits, timed, lost,
                 ceiling, counts>>

\* The INCR was carried out but its reply is lost: no EXPIRE follows.
CountReplyLost(q) ==
  LET b == call[q].bucket
  IN  /\ Reaches(call[q].replica) /\ At(q, "count")
      /\ Fault
      /\ hits' = [hits EXCEPT ![b] = OneMore(@)]
      /\ lost' = IF hits[b] = 0 THEN lost \union {b} ELSE lost
      /\ PassUncounted(q)
      /\ UNCHANGED <<limit, keys, redisVars, timed, ceiling, edits>>

\* Redis drops the counter 60 s after EXPIRE.
CounterExpires(b) ==
  /\ b \in timed
  /\ timed' = timed \ {b}
  /\ hits' = [hits EXCEPT ![b] = 0]
  /\ admitted' = [admitted EXCEPT ![b] = 0]
  /\ ceiling' = [ceiling EXCEPT ![b] = 0]
  /\ UNCHANGED <<limit, keys, redisVars, lost, call, counts>>

RedisFails ==
  /\ redisUp /\ Fault
  /\ redisUp' = FALSE
  /\ UNCHANGED <<limit, keys, linked, limiterVars, call, edits>>

RedisRecovers ==
  /\ ~redisUp /\ redisUp' = TRUE
  /\ UNCHANGED <<limit, keys, linked, limiterVars, call, counts>>

-----------------------------------------------------------------------------
(* Authentication                                                          *)

\* A fault: the revoked column is not looked at.
KnownKey(cred) == cred \in Keys /\ keys[cred] # "absent"

LiveKey(cred) == cred \in Keys /\ keys[cred] = "live"

\* from_request_parts and authenticate_api_key.  A token that was valid at the
\* limiter may have lapsed.
Welcome(cred) ==
  IF LiveKey(cred) THEN {"served"}
  ELSE IF cred = "jwt" THEN {"served", "refused"} ELSE {"refused"}

Handle(q) ==
  /\ At(q, "inside")
  /\ \E answer \in Welcome(call[q].cred) :
       call' = [call EXCEPT ![q] =
                  IF answer = "served" THEN [call[q] EXCEPT !.pc = "served"] ELSE Idle]
  /\ UNCHANGED <<limit, keys, redisVars, limiterVars, counts>>

\* The answer is sent, or the client has gone away.
End(q) ==
  /\ call[q].pc \in {"inside", "served"} /\ Return(q)
  /\ UNCHANGED <<limit, keys, redisVars, limiterVars, counts>>

\* The client goes away before the counter is given its expiry.
DropRequest(q) ==
  /\ At(q, "expire") /\ Fault
  /\ lost' = lost \union {call[q].bucket}
  /\ Return(q)
  /\ UNCHANGED <<limit, keys, redisVars, hits, timed, admitted, ceiling, edits>>

\* Administrators carry access tokens, which no server keeps; keys have the
\* scope merchant.
CreateApiKey(key) ==
  /\ keys[key] = "absent"
  /\ keys' = [keys EXCEPT ![key] = "live"]
  /\ UNCHANGED <<limit, redisVars, limiterVars, call, counts>>

\* A second revocation finds no row and is answered 404.
Revocable(key) == keys[key] = "live"

RevokeApiKey(key) ==
  /\ Revocable(key)
  /\ keys' = [keys EXCEPT ![key] = "revoked"]
  /\ UNCHANGED <<limit, redisVars, limiterVars, call, counts>>

-----------------------------------------------------------------------------
(* Administrators and replicas                                             *)

\* replace_operator
ReplaceLimit(r, n) ==
  /\ edits < MaxEdits /\ edits' = edits + 1
  /\ limit' = [limit EXCEPT ![r] = n]
  /\ UNCHANGED <<keys, redisVars, limiterVars, call, faults>>

\* Its requests are gone; a counter it was about to give an expiry has none.
\* What it reaches and reads now holds until the next restart.
Restart(r) ==
  LET cut == {q \in Requests : call[q].replica = r}
  IN  /\ Fault
      /\ linked' = IF redisUp THEN linked \union {r} ELSE linked \ {r}
      /\ \E n \in Limits : limit' = [limit EXCEPT ![r] = n]
      /\ lost' = lost \union {call[q].bucket : q \in {p \in cut : At(p, "expire")}}
      /\ call' = [q \in Requests |-> IF q \in cut THEN Idle ELSE call[q]]
      /\ UNCHANGED <<keys, redisUp, hits, timed, admitted, ceiling, edits>>

Init ==
  /\ \E n \in Limits : limit = [r \in Replicas |-> n]
  /\ keys = [k \in Keys |-> "absent"]
  /\ redisUp = TRUE /\ linked = Replicas
  /\ hits = [b \in Buckets |-> 0] /\ timed = {} /\ lost = {}
  /\ admitted = [b \in Buckets |-> 0] /\ ceiling = [b \in Buckets |-> 0]
  /\ call = [q \in Requests |-> Idle]
  /\ edits = 0 /\ faults = 0

Next ==
  \/ \E q \in Requests :
       \/ \E r \in Replicas :
            ArrivePublic(q, r) \/ \E cred \in Creds : ArriveMerchant(q, r, cred)
       \/ Count(q) \/ CountReplyLost(q) \/ LimiterUnavailable(q) \/ Expire(q)
       \/ Handle(q) \/ End(q) \/ DropRequest(q)
  \/ \E b \in Buckets : CounterExpires(b)
  \/ RedisFails \/ RedisRecovers
  \/ \E key \in Keys : CreateApiKey(key) \/ RevokeApiKey(key)
  \/ \E r \in Replicas : Restart(r) \/ \E n \in Limits : ReplaceLimit(r, n)

Spec == Init /\ [][Next]_vars

-----------------------------------------------------------------------------
(* Properties                                                              *)

Calls ==
  [pc: {"idle", "count", "expire", "inside", "served"}, replica: Replicas \union {"none"},
   route: {"merchant", "public"}, cred: Creds \union {"none"}, bucket: Buckets,
   limit: Limits \union {0}, count: 0..MaxHits, late: BOOLEAN]

\* Type invariant.
TypeOK ==
  /\ limit \in [Replicas -> Limits]
  /\ keys \in [Keys -> {"absent", "live", "revoked"}]
  /\ redisUp \in BOOLEAN /\ linked \subseteq Replicas
  /\ call \in [Requests -> Calls]
  /\ hits \in [Buckets -> 0..MaxHits] /\ admitted \in [Buckets -> 0..MaxHits]
  /\ ceiling \in [Buckets -> Limits \union {0}]
  /\ timed \subseteq Buckets /\ lost \subseteq Buckets
  /\ edits \in 0..MaxEdits /\ faults \in 0..MaxFaults

\* In production no counter's life sees more merchant requests let in than the
\* highest limit it was held to, whatever Redis, replicas and edits of the
\* limit do.
WindowIsBounded == Production => \A b \in Buckets : admitted[b] <= ceiling[b]

\* A counter that has started will expire, so nobody is locked out for good,
\* unless its one EXPIRE was lost; until that is sent it is a request's next step.
CountersExpire ==
  \A b \in Buckets : hits[b] > 0 =>
    \/ b \in timed \union lost
    \/ \E q \in Requests : At(q, "expire") /\ call[q].bucket = b

\* A request that comes after its key was revoked is never served.
RevokedKeysAreRefused == \A q \in Requests : At(q, "served") => ~call[q].late

=============================================================================
