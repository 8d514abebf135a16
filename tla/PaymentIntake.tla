---------------------------- MODULE PaymentIntake ----------------------------
(***************************************************************************)
(* How a payment comes to be and how its payer gets in: creation under an  *)
(* idempotency key, the QR tokens every presentation of a payment mints,   *)
(* and the nonce of a token, spent before authorization starts.            *)
(*                                                                         *)
(* Requests run concurrently over one database at READ COMMITTED.  One     *)
(* action is one statement of the creating transaction, which others see   *)
(* only once it commits, or one statement of its own.                      *)
(***************************************************************************)
EXTENDS Integers, FiniteSets

CONSTANTS
  Keys,          \* idempotency keys of one tenant
  Fingerprints,  \* request_fingerprint of what merchants send with them
  Requests,      \* slots for requests in flight
  NoKey, NoPrint,
  MaxCreations,  \* bound: creations ever started
  MaxPosts,      \* bound: authorize requests ever started
  MaxTokens,     \* bound: QR tokens there are when qr_png mints one more
  MaxDrops       \* bound: requests dropped half way

ASSUME ClientAssumption == NoKey \notin Keys /\ NoPrint \notin Fingerprints
\* A server holds finitely many requests at once.
ASSUME RequestAssumption == IsFiniteSet(Requests)
ASSUME BoundAssumption == {MaxCreations, MaxPosts, MaxTokens, MaxDrops} \subseteq Nat

VARIABLES
  payments,   \* committed payment_requests: id and idempotency key
  keyRows,    \* committed idempotency_keys
  overdue,    \* payments whose expires_at has passed
  tokens,     \* QR tokens minted: nonce and payment
  nonces,     \* qr_nonces
  decisions,  \* authorize_payment calls, one per request that got that far
  answers,    \* what creations were answered
  call,       \* the request in progress of each slot
  creations, posts, drops

vars == <<payments, keyRows, overdue, tokens, nonces, decisions, answers, call,
          creations, posts, drops>>
creationVars == <<payments, keyRows>>
tokenVars    == <<tokens, nonces, decisions>>
counts       == <<creations, posts, drops>>

\* `id` is the payment a creation brings along or found; `nonce` its token's.
Idle == [pc |-> "idle", key |-> NoKey, print |-> NoPrint, id |-> 0,
         kind |-> "none", nonce |-> 0]

At(c, pc) == call[c].pc = pc
Goto(c, pc) == call' = [call EXCEPT ![c] = [call[c] EXCEPT !.pc = pc]]
Return(c) == call' = [call EXCEPT ![c] = Idle]

-----------------------------------------------------------------------------
(* create_payment and create_idempotent                                    *)

\* A fault: the fingerprint is left out of the IdempotencyContext.
DraftUnprinted(key, print) ==
  [Idle EXCEPT !.pc = "lookup", !.key = key, !.id = creations + 1]

\* The row and the context are built, with a fresh id, before the transaction.
Draft(key, print) ==
  [Idle EXCEPT !.pc = "lookup", !.key = key, !.print = print, !.id = creations + 1]

Create(c, key, print) ==
  /\ At(c, "idle") /\ creations < MaxCreations
  /\ creations' = creations + 1
  /\ call' = [call EXCEPT ![c] = Draft(key, print)]
  /\ UNCHANGED <<creationVars, overdue, tokenVars, answers, posts, drops>>

Answer(c, kind, id) ==
  answers' = answers \union {[key |-> call[c].key, print |-> call[c].print,
                              kind |-> kind, id |-> id]}

\* A fault: the stored fingerprint is not compared.
FoundUnchecked(row, print) == "replayed"

Found(row, print) == IF row.print = print THEN "replayed" ELSE "mismatch"

\* SELECT ... LIMIT 1 without an order: any row of the key, if there is one.
Lookup(c) ==
  LET rows == {row \in keyRows : row.key = call[c].key} IN
  /\ At(c, "lookup")
  /\ \/ rows = {} /\ Goto(c, "insert") /\ UNCHANGED answers
     \/ \E row \in rows :
          \/ /\ Found(row, call[c].print) = "mismatch"
             /\ Answer(c, "mismatch", row.id) /\ Return(c)
          \/ /\ Found(row, call[c].print) = "replayed"
             /\ call' = [call EXCEPT ![c] = [call[c] EXCEPT !.pc = "present",
                                              !.id = row.id, !.kind = "replayed"]]
             /\ UNCHANGED answers
  /\ UNCHANGED <<creationVars, overdue, tokenVars, counts>>

\* Transactions that have inserted a row for the key and not ended.
Holders(key) == {c \in Requests : At(c, "commit") /\ call[c].key = key}

\* A fault: idx_payment_idempotency spans the fingerprint too.
TakenPerPrint(c) ==
  \E row \in keyRows : row.key = call[c].key /\ row.print = call[c].print

Taken(c) == \E p \in payments : p.key = call[c].key

\* Faults: the index entry of an open transaction is not waited for; whoever
\* waits is waited for.
ClearAtOnce(c) == TRUE
ClearOfWaiters(c) ==
  \A d \in Requests \ {c} :
    call[d].pc \in {"insert", "commit"} => call[d].key # call[c].key

Clear(c) == Holders(call[c].key) = {}

\* idx_payment_idempotency: the INSERT waits for whoever holds the key, then
\* fails if they committed.  The caller is told a conflict, not what was stored.
Insert(c) ==
  /\ At(c, "insert") /\ Clear(c)
  /\ \/ Taken(c) /\ Answer(c, "conflict", 0) /\ Return(c)
     \/ ~Taken(c) /\ Goto(c, "commit") /\ UNCHANGED answers
  /\ UNCHANGED <<creationVars, overdue, tokenVars, counts>>

\* The key's row, the audit row and payment.created are inserted on the way.
Commit(c) ==
  /\ At(c, "commit")
  /\ payments' = payments \union {[id |-> call[c].id, key |-> call[c].key]}
  /\ keyRows' = keyRows \union {[key |-> call[c].key, print |-> call[c].print,
                                 id |-> call[c].id]}
  /\ call' = [call EXCEPT ![c] = [call[c] EXCEPT !.pc = "present", !.kind = "created"]]
  /\ UNCHANGED <<overdue, tokenVars, answers, counts>>

-----------------------------------------------------------------------------
(* QR tokens                                                               *)

Minted(id) == tokens' = tokens \union {[nonce |-> Cardinality(tokens) + 1, id |-> id]}

\* present: a replay mints another token of the same payment.
Present(c) ==
  /\ At(c, "present") /\ Minted(call[c].id)
  /\ Answer(c, call[c].kind, call[c].id)
  /\ Return(c)
  /\ UNCHANGED <<creationVars, overdue, nonces, decisions, counts>>

\* The signature binds the token to its payment, whose expires_at is its exp.
Verified(token) == token.id \notin overdue

\* qr_png shows a payment again to whoever holds one of its tokens; the nonce
\* is neither looked at nor consumed.
ShowQr(token) ==
  /\ Verified(token) /\ Cardinality(tokens) < MaxTokens
  /\ Minted(token.id)
  /\ UNCHANGED <<creationVars, overdue, nonces, decisions, answers, call, counts>>

\* public_authorize; what is not verified is refused on the spot.
Post(c, token) ==
  /\ At(c, "idle") /\ posts < MaxPosts /\ Verified(token)
  /\ posts' = posts + 1
  /\ call' = [call EXCEPT ![c] = [Idle EXCEPT !.pc = "spend", !.nonce = token.nonce,
                                             !.id = token.id]]
  /\ UNCHANGED <<creationVars, overdue, tokenVars, answers, creations, drops>>

\* Faults: a nonce may be used again, or is remembered for its payment.
SpentNever(c) == FALSE
SpentByPayment(c) ==
  \E token \in tokens : token.id = call[c].id /\ token.nonce \in nonces

Spent(c) == call[c].nonce \in nonces

\* remember_nonce: one INSERT ... ON CONFLICT DO NOTHING.
Spend(c) ==
  /\ At(c, "spend")
  /\ nonces' = nonces \union {call[c].nonce}
  /\ IF Spent(c) THEN Return(c) ELSE Goto(c, "decide")
  /\ UNCHANGED <<creationVars, overdue, tokens, decisions, answers, counts>>

\* The nonce is gone, whatever authorize_payment answers.
Decide(c) ==
  /\ At(c, "decide")
  /\ decisions' = decisions \union {[post |-> Cardinality(decisions) + 1,
                                     nonce |-> call[c].nonce, id |-> call[c].id]}
  /\ Return(c)
  /\ UNCHANGED <<creationVars, overdue, tokens, nonces, answers, counts>>

-----------------------------------------------------------------------------

ClockPasses(p) ==
  /\ p.id \notin overdue
  /\ overdue' = overdue \union {p.id}
  /\ UNCHANGED <<creationVars, tokenVars, answers, call, counts>>

\* The client goes away, an error, a crash: an open transaction is rolled back.
Abandon(c) ==
  /\ ~At(c, "idle") /\ drops < MaxDrops
  /\ drops' = drops + 1
  /\ Return(c)
  /\ UNCHANGED <<creationVars, overdue, tokenVars, answers, creations, posts>>

Init ==
  /\ payments = {} /\ keyRows = {} /\ overdue = {}
  /\ tokens = {} /\ nonces = {} /\ decisions = {} /\ answers = {}
  /\ call = [c \in Requests |-> Idle]
  /\ creations = 0 /\ posts = 0 /\ drops = 0

Step(c) == Lookup(c) \/ Insert(c) \/ Commit(c) \/ Present(c) \/ Spend(c) \/ Decide(c)

Next ==
  \/ \E c \in Requests :
       \/ \E key \in Keys, print \in Fingerprints : Create(c, key, print)
       \/ \E token \in tokens : Post(c, token)
       \/ Step(c) \/ Abandon(c)
  \/ \E token \in tokens : ShowQr(token)
  \/ \E p \in payments : ClockPasses(p)

Spec == Init /\ [][Next]_vars

\* The server goes on with the statements of the requests it has.
FairSpec == Spec /\ \A c \in Requests : WF_vars(Step(c))

-----------------------------------------------------------------------------
(* Properties                                                              *)

Payment == [id: Nat \ {0}, key: Keys]
KeyRow  == [key: Keys, print: Fingerprints, id: Nat \ {0}]
Token   == [nonce: Nat \ {0}, id: Nat \ {0}]
AnswerSet == [key: Keys, print: Fingerprints, id: Nat,
              kind: {"created", "replayed", "mismatch", "conflict"}]
Work == [pc: {"idle", "lookup", "insert", "commit", "present", "spend", "decide"},
         key: Keys \union {NoKey}, print: Fingerprints \union {NoPrint}, id: Nat,
         kind: {"none", "created", "replayed"}, nonce: Nat]

\* A creation in progress has what it was sent.
WellFormed(k) ==
  /\ k.pc \in {"lookup", "insert", "commit", "present"} =>
       k.key \in Keys /\ k.print \in Fingerprints /\ k.id # 0
  /\ k.pc = "present" => k.kind # "none"
  /\ k.pc \in {"spend", "decide"} => k.nonce # 0 /\ k.id # 0

\* Tables, tokens and requests have the shape the code gives them.
TypeOK ==
  /\ payments \subseteq Payment /\ keyRows \subseteq KeyRow
  /\ overdue \subseteq Nat
  /\ tokens \subseteq Token /\ IsFiniteSet(tokens) /\ nonces \subseteq Nat \ {0}
  /\ decisions \subseteq [post: Nat \ {0}, nonce: Nat \ {0}, id: Nat \ {0}]
  /\ IsFiniteSet(decisions)
  /\ answers \subseteq AnswerSet
  /\ call \in [Requests -> Work] /\ \A c \in Requests : WellFormed(call[c])
  /\ creations \in 0..MaxCreations /\ posts \in 0..MaxPosts /\ drops \in 0..MaxDrops

\* However creations with one key race, retry or are dropped after they
\* committed: everyone who is given a payment for the key is given the same
\* one, and asked for the same thing.
OneAnswerPerKey ==
  \A a, b \in answers :
    a.key = b.key /\ {a.kind, b.kind} \subseteq {"created", "replayed"} =>
      a.id = b.id /\ a.print = b.print

\* Answers stay true: a payment given out is stored under its key and
\* fingerprint, a mismatch is with another fingerprint, and after a conflict the
\* key has its payment, so that the next try finds it.
AnswersHold ==
  \A a \in answers :
    \E row \in keyRows :
      /\ row.key = a.key /\ [id |-> row.id, key |-> a.key] \in payments
      /\ a.kind \in {"created", "replayed"} => row.id = a.id /\ row.print = a.print
      /\ a.kind = "mismatch" => row.print # a.print

\* A token is good for one decision of its own payment, however many requests
\* post it at once.
NonceDecidesOnce ==
  /\ \A d, e \in decisions : d.nonce = e.nonce => d = e
  /\ \A d \in decisions : [nonce |-> d.nonce, id |-> d.id] \in tokens

\* Nothing but a dropped request spends a nonce for nothing: a payer is never
\* sent away because another token of the same payment was used.
OnlyDropsWasteNonces ==
  Cardinality(nonces) <=
    Cardinality(decisions) + Cardinality({c \in Requests : At(c, "decide")}) + drops

\* A creation waiting for the key's index entry does not wait for ever.
InsertsGetThrough == \A c \in Requests : At(c, "insert") ~> ~At(c, "insert")

=============================================================================
