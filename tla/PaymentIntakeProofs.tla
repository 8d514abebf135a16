------------------------ MODULE PaymentIntakeProofs ------------------------
(***************************************************************************)
(* Proofs about PaymentIntake, for any keys, fingerprints, finite number   *)
(* of requests and bounds: its type, that creations with one idempotency   *)
(* key are given one payment and that the answers stay true, that a QR     *)
(* token is good for one decision, and that only dropped requests waste    *)
(* one.                                                                    *)
(***************************************************************************)
EXTENDS PaymentIntake, FiniteSetTheorems, TLAPS

-----------------------------------------------------------------------------
(* Types                                                                   *)

\* The steps of a request leave every request well formed when they give the
\* one they are about a well-formed record.
LEMMA CallStaysTyped ==
  ASSUME TypeOK, NEW c \in Requests, NEW k \in Work, WellFormed(k),
         call' = [call EXCEPT ![c] = k]
  PROVE  /\ call' \in [Requests -> Work]
         /\ \A d \in Requests : WellFormed(call'[d])
  BY DEF TypeOK

LEMMA IdleIsWellFormed == Idle \in Work /\ WellFormed(Idle)
  BY DEF Idle, Work, WellFormed

\* A request that moves on keeps what it carries.
LEMMA MovedOnTyped ==
  ASSUME TypeOK, NEW c \in Requests,
         NEW pc \in {"insert", "commit", "decide"},
         pc # "decide" => call[c].pc \in {"lookup", "insert"},
         pc = "decide" => call[c].pc = "spend"
  PROVE  [call[c] EXCEPT !.pc = pc] \in Work /\ WellFormed([call[c] EXCEPT !.pc = pc])
  BY DEF TypeOK, Work, WellFormed

\* A new token has a nonce of its own to be known by.
LEMMA MintedIsTyped ==
  ASSUME TypeOK, NEW id \in Nat \ {0}, Minted(id)
  PROVE  tokens' \subseteq Token /\ IsFiniteSet(tokens')
<1>1. Cardinality(tokens) \in Nat
  BY FS_CardinalityType DEF TypeOK
<1>2. [nonce |-> Cardinality(tokens) + 1, id |-> id] \in Token
  BY <1>1 DEF Token
<1>3. IsFiniteSet(tokens')
  BY FS_AddElement DEF TypeOK, Minted
<1> QED  BY <1>2, <1>3 DEF TypeOK, Minted

LEMMA AnswerIsTyped ==
  ASSUME TypeOK, NEW c \in Requests, call[c].pc \in {"lookup", "insert", "present"},
         NEW kind \in {"created", "replayed", "mismatch", "conflict"},
         NEW id \in Nat, Answer(c, kind, id)
  PROVE  answers' \subseteq AnswerSet
  BY DEF TypeOK, WellFormed, Answer, AnswerSet

LEMMA TypeInit == Init => TypeOK
<1> SUFFICES ASSUME Init PROVE TypeOK  OBVIOUS
<1>1. IsFiniteSet({})
  BY FS_EmptySet
<1> QED  BY <1>1, IdleIsWellFormed, BoundAssumption DEF Init, TypeOK

\* Every statement of a request, and every step around them, keeps the types.
LEMMA TypeStep == TypeOK /\ [Next]_vars => TypeOK'
<1> SUFFICES ASSUME TypeOK, [Next]_vars PROVE TypeOK'  OBVIOUS
<1> USE DEF creationVars, tokenVars, counts
<1>1. ASSUME NEW c \in Requests, NEW key \in Keys, NEW print \in Fingerprints,
             Create(c, key, print)
      PROVE  TypeOK'
  <2>1. Draft(key, print) \in Work /\ WellFormed(Draft(key, print))
    <3>1. creations + 1 \in Nat \ {0}
      BY BoundAssumption DEF TypeOK
    <3> QED  BY <3>1 DEF Draft, Idle, Work, WellFormed
  <2>2. creations' \in 0..MaxCreations
    BY <1>1, BoundAssumption DEF Create, TypeOK
  <2> QED  BY <1>1, <2>1, <2>2, CallStaysTyped DEF Create, TypeOK
<1>2. ASSUME NEW c \in Requests, NEW token \in tokens, Post(c, token)
      PROVE  TypeOK'
  <2> DEFINE k == [Idle EXCEPT !.pc = "spend", !.nonce = token.nonce, !.id = token.id]
  <2>1. k \in Work /\ WellFormed(k)
    BY DEF TypeOK, Idle, Work, WellFormed, Token
  <2>2. posts' \in 0..MaxPosts
    BY <1>2, BoundAssumption DEF Post, TypeOK
  <2>3. call' = [call EXCEPT ![c] = k]
    BY <1>2 DEF Post
  <2> HIDE DEF k
  <2> QED  BY <1>2, <2>1, <2>2, <2>3, CallStaysTyped DEF Post, TypeOK
<1>3. ASSUME NEW c \in Requests, Lookup(c)
      PROVE  TypeOK'
  <2>1. At(c, "lookup")
    BY <1>3 DEF Lookup
  <2>2. CASE Goto(c, "insert") /\ UNCHANGED answers
    <3>1. [call[c] EXCEPT !.pc = "insert"] \in Work
          /\ WellFormed([call[c] EXCEPT !.pc = "insert"])
      BY <2>1, MovedOnTyped DEF At
    <3> QED  BY <1>3, <2>2, <3>1, CallStaysTyped DEF Lookup, Goto, TypeOK
  <2>3. CASE \E row \in keyRows : Answer(c, "mismatch", row.id) /\ Return(c)
    <3>1. PICK row \in keyRows : Answer(c, "mismatch", row.id) /\ Return(c)
      BY <2>3
    <3>2. answers' \subseteq AnswerSet
      BY <2>1, <3>1, AnswerIsTyped DEF At, TypeOK, KeyRow
    <3> QED  BY <1>3, <3>1, <3>2, IdleIsWellFormed, CallStaysTyped
             DEF Lookup, Return, TypeOK
  <2>4. CASE \E row \in keyRows :
               /\ call' = [call EXCEPT ![c] = [call[c] EXCEPT !.pc = "present",
                                                !.id = row.id, !.kind = "replayed"]]
               /\ UNCHANGED answers
    <3>1. PICK row \in keyRows :
                 call' = [call EXCEPT ![c] = [call[c] EXCEPT !.pc = "present",
                                                !.id = row.id, !.kind = "replayed"]]
      BY <2>4
    <3> DEFINE k == [call[c] EXCEPT !.pc = "present", !.id = row.id, !.kind = "replayed"]
    <3>2. k \in Work /\ WellFormed(k)
      BY <2>1 DEF At, TypeOK, Work, WellFormed, KeyRow
    <3>3. call' = [call EXCEPT ![c] = k]
      BY <3>1
    <3> HIDE DEF k
    <3> QED  BY <1>3, <2>4, <3>2, <3>3, CallStaysTyped DEF Lookup, TypeOK
  <2> QED  BY <1>3, <2>2, <2>3, <2>4 DEF Lookup
<1>4. ASSUME NEW c \in Requests, Insert(c)
      PROVE  TypeOK'
  <2>1. At(c, "insert")
    BY <1>4 DEF Insert
  <2>2. CASE Answer(c, "conflict", 0) /\ Return(c)
    <3>1. answers' \subseteq AnswerSet
      BY <2>1, <2>2, AnswerIsTyped DEF At
    <3> QED  BY <1>4, <2>2, <3>1, IdleIsWellFormed, CallStaysTyped
             DEF Insert, Return, TypeOK
  <2>3. CASE Goto(c, "commit") /\ UNCHANGED answers
    <3>1. [call[c] EXCEPT !.pc = "commit"] \in Work
          /\ WellFormed([call[c] EXCEPT !.pc = "commit"])
      BY <2>1, MovedOnTyped DEF At
    <3> QED  BY <1>4, <2>3, <3>1, CallStaysTyped DEF Insert, Goto, TypeOK
  <2> QED  BY <1>4, <2>2, <2>3 DEF Insert
<1>5. ASSUME NEW c \in Requests, Commit(c)
      PROVE  TypeOK'
  <2> DEFINE k == [call[c] EXCEPT !.pc = "present", !.kind = "created"]
  <2>1. k \in Work /\ WellFormed(k)
    BY <1>5 DEF Commit, At, TypeOK, Work, WellFormed
  <2>2. payments' \subseteq Payment /\ keyRows' \subseteq KeyRow
    BY <1>5 DEF Commit, At, TypeOK, Work, WellFormed, Payment, KeyRow
  <2>3. call' = [call EXCEPT ![c] = k]
    BY <1>5 DEF Commit
  <2> HIDE DEF k
  <2> QED  BY <1>5, <2>1, <2>2, <2>3, CallStaysTyped DEF Commit, TypeOK
<1>6. ASSUME NEW c \in Requests, Present(c)
      PROVE  TypeOK'
  <2>1. call[c].id \in Nat \ {0} /\ call[c].kind \in {"created", "replayed"}
    BY <1>6 DEF Present, At, TypeOK, Work, WellFormed
  <2>2. tokens' \subseteq Token /\ IsFiniteSet(tokens')
    BY <1>6, <2>1, MintedIsTyped DEF Present
  <2>3. answers' \subseteq AnswerSet
    BY <1>6, <2>1, AnswerIsTyped DEF Present, At
  <2> QED  BY <1>6, <2>2, <2>3, IdleIsWellFormed, CallStaysTyped
           DEF Present, Return, TypeOK
<1>7. ASSUME NEW c \in Requests, Spend(c)
      PROVE  TypeOK'
  <2>1. At(c, "spend")
    BY <1>7 DEF Spend
  <2>2. nonces' \subseteq Nat \ {0}
    BY <1>7, <2>1 DEF Spend, At, TypeOK, Work, WellFormed
  <2>3. [call[c] EXCEPT !.pc = "decide"] \in Work
        /\ WellFormed([call[c] EXCEPT !.pc = "decide"])
    BY <2>1, MovedOnTyped DEF At
  <2>4. /\ call' \in [Requests -> Work]
        /\ \A d \in Requests : WellFormed(call'[d])
    BY <1>7, <2>3, IdleIsWellFormed, CallStaysTyped DEF Spend, Goto, Return
  <2> QED  BY <1>7, <2>2, <2>4 DEF Spend, TypeOK
<1>8. ASSUME NEW c \in Requests, Decide(c)
      PROVE  TypeOK'
  <2>1. Cardinality(decisions) \in Nat
    BY FS_CardinalityType DEF TypeOK
  <2>2. decisions' \subseteq [post: Nat \ {0}, nonce: Nat \ {0}, id: Nat \ {0}]
    BY <1>8, <2>1 DEF Decide, At, TypeOK, Work, WellFormed
  <2>3. IsFiniteSet(decisions')
    BY <1>8, FS_AddElement DEF Decide, TypeOK
  <2> QED  BY <1>8, <2>2, <2>3, IdleIsWellFormed, CallStaysTyped
           DEF Decide, Return, TypeOK
<1>9. ASSUME NEW c \in Requests, Abandon(c)
      PROVE  TypeOK'
  <2>1. drops' \in 0..MaxDrops
    BY <1>9, BoundAssumption DEF Abandon, TypeOK
  <2> QED  BY <1>9, <2>1, IdleIsWellFormed, CallStaysTyped DEF Abandon, Return, TypeOK
<1>10. ASSUME NEW token \in tokens, ShowQr(token)
       PROVE  TypeOK'
  <2>1. tokens' \subseteq Token /\ IsFiniteSet(tokens')
    BY <1>10, MintedIsTyped DEF ShowQr, TypeOK, Token
  <2> QED  BY <1>10, <2>1 DEF ShowQr, TypeOK
<1>11. ASSUME NEW p \in payments, ClockPasses(p)
       PROVE  TypeOK'
  BY <1>11 DEF ClockPasses, TypeOK, Payment
<1>12. CASE UNCHANGED vars
  BY <1>12 DEF vars, TypeOK
<1> QED  BY <1>1, <1>2, <1>3, <1>4, <1>5, <1>6, <1>7, <1>8, <1>9, <1>10, <1>11, <1>12
         DEF Next, Step

\* The tables, tokens and requests always have the shape the code gives them.
THEOREM IntakeTypeCorrect == Spec => []TypeOK
  BY TypeInit, TypeStep, PTL DEF Spec

-----------------------------------------------------------------------------
(* One payment per key                                                     *)

\* What makes it so: the index.  Rows and payments come in pairs, one pair for a
\* key; whoever is about to commit a key is the only one, and the key is free;
\* whoever is about to answer has the key's row.
OnePair ==
  /\ \A r, s \in keyRows : r.key = s.key => r = s
  /\ \A r \in keyRows : [id |-> r.id, key |-> r.key] \in payments
  /\ \A p \in payments : \E r \in keyRows : r.key = p.key
OneHolder ==
  \A c, d \in Requests :
    At(c, "commit") /\ At(d, "commit") /\ call[c].key = call[d].key => c = d
HolderIsFirst ==
  \A c \in Requests : At(c, "commit") => \A p \in payments : p.key # call[c].key
FoundRow ==
  \A c \in Requests : At(c, "present") =>
    [key |-> call[c].key, print |-> call[c].print, id |-> call[c].id] \in keyRows

KeyInv == TypeOK /\ OnePair /\ OneHolder /\ HolderIsFirst /\ FoundRow /\ AnswersHold

\* Two answers that hold are about the key's one row.
LEMMA KeyInvGivesOneAnswer == KeyInv => OneAnswerPerKey
<1> SUFFICES ASSUME KeyInv, NEW a \in answers, NEW b \in answers, a.key = b.key,
                    a.kind \in {"created", "replayed"}, b.kind \in {"created", "replayed"}
             PROVE  a.id = b.id /\ a.print = b.print
  BY DEF OneAnswerPerKey
<1>1. PICK r \in keyRows : r.key = a.key /\ r.id = a.id /\ r.print = a.print
  BY DEF KeyInv, AnswersHold
<1>2. PICK s \in keyRows : s.key = b.key /\ s.id = b.id /\ s.print = b.print
  BY DEF KeyInv, AnswersHold
<1>3. r = s
  BY <1>1, <1>2 DEF KeyInv, OnePair
<1> QED  BY <1>1, <1>2, <1>3

LEMMA KeyInit == Init => KeyInv
<1> SUFFICES ASSUME Init PROVE KeyInv  OBVIOUS
<1>1. \A c \in Requests : call[c].pc = "idle"
  BY DEF Init, Idle
<1> QED  BY <1>1, TypeInit DEF Init, KeyInv, OnePair, OneHolder, HolderIsFirst,
            FoundRow, AnswersHold, At

\* A step that puts one request where it holds and promises nothing, and adds
\* no row, payment or answer, disturbs none of this.
LEMMA QuietStep ==
  ASSUME KeyInv, TypeOK', UNCHANGED <<payments, keyRows, answers>>,
         NEW c \in Requests, NEW k \in Work, k.pc \notin {"commit", "present"},
         call' = [call EXCEPT ![c] = k]
  PROVE  KeyInv'
<1>1. \A d \in Requests \ {c} : call'[d] = call[d]
  BY DEF KeyInv, TypeOK
<1>2. call'[c] = k
  BY DEF KeyInv, TypeOK
<1>3. OneHolder'
  BY <1>1, <1>2 DEF KeyInv, OneHolder, At
<1>4. HolderIsFirst'
  BY <1>1, <1>2 DEF KeyInv, HolderIsFirst, At
<1>5. FoundRow'
  BY <1>1, <1>2 DEF KeyInv, FoundRow, At
<1>6. OnePair' /\ AnswersHold'
  BY DEF KeyInv, OnePair, AnswersHold
<1> QED  BY <1>3, <1>4, <1>5, <1>6 DEF KeyInv

\* The same when the request is answered for good, and the answer holds.
LEMMA AnsweredStep ==
  ASSUME KeyInv, TypeOK', UNCHANGED <<payments, keyRows>>,
         NEW c \in Requests, NEW kind, NEW id,
         Answer(c, kind, id), Return(c),
         \E row \in keyRows :
           /\ row.key = call[c].key
           /\ kind \in {"created", "replayed"} => row.id = id /\ row.print = call[c].print
           /\ kind = "mismatch" => row.print # call[c].print
  PROVE  KeyInv'
<1>1. \A d \in Requests \ {c} : call'[d] = call[d]
  BY DEF KeyInv, TypeOK, Return
<1>2. call'[c].pc = "idle"
  BY DEF KeyInv, TypeOK, Return, Idle
<1>3. OneHolder'
  BY <1>1, <1>2 DEF KeyInv, OneHolder, At
<1>4. HolderIsFirst'
  BY <1>1, <1>2 DEF KeyInv, HolderIsFirst, At
<1>5. FoundRow'
  BY <1>1, <1>2 DEF KeyInv, FoundRow, At
<1>6. OnePair'
  BY DEF KeyInv, OnePair
<1>7. AnswersHold'
  <2> SUFFICES ASSUME NEW a \in answers'
               PROVE  \E row \in keyRows :
                        /\ row.key = a.key /\ [id |-> row.id, key |-> a.key] \in payments
                        /\ a.kind \in {"created", "replayed"} =>
                             row.id = a.id /\ row.print = a.print
                        /\ a.kind = "mismatch" => row.print # a.print
    BY DEF AnswersHold
  <2>1. CASE a \in answers
    BY <2>1 DEF KeyInv, AnswersHold
  <2>2. CASE a = [key |-> call[c].key, print |-> call[c].print, kind |-> kind, id |-> id]
    BY <2>2 DEF KeyInv, OnePair
  <2> QED  BY <2>1, <2>2 DEF Answer
<1> QED  BY <1>3, <1>4, <1>5, <1>6, <1>7 DEF KeyInv

\* Statement by statement.
LEMMA KeyStep == KeyInv /\ [Next]_vars => KeyInv'
<1> SUFFICES ASSUME KeyInv, [Next]_vars PROVE KeyInv'  OBVIOUS
<1>t. TypeOK'
  BY TypeStep DEF KeyInv
<1> USE DEF creationVars, tokenVars, counts
<1>1. ASSUME NEW c \in Requests, NEW key \in Keys, NEW print \in Fingerprints,
             Create(c, key, print)
      PROVE  KeyInv'
  <2>1. call'[c] = Draft(key, print) /\ call'[c] \in Work
    BY <1>1, <1>t DEF Create, KeyInv, TypeOK
  <2>2. Draft(key, print).pc = "lookup"
    BY DEF Draft, Idle
  <2> QED  BY <1>1, <1>t, <2>1, <2>2, QuietStep DEF Create
<1>2. ASSUME NEW c \in Requests, NEW token \in tokens, Post(c, token)
      PROVE  KeyInv'
  <2> DEFINE k == [Idle EXCEPT !.pc = "spend", !.nonce = token.nonce, !.id = token.id]
  <2>1. k.pc = "spend" /\ call' = [call EXCEPT ![c] = k]
    BY <1>2 DEF Post, Idle
  <2> HIDE DEF k
  <2>2. k \in Work
    BY <1>t, <2>1 DEF KeyInv, TypeOK
  <2> QED  BY <1>2, <1>t, <2>1, <2>2, QuietStep DEF Post
<1>3. ASSUME NEW c \in Requests, Lookup(c)
      PROVE  KeyInv'
  <2>1. CASE Goto(c, "insert") /\ UNCHANGED answers
    <3> DEFINE k == [call[c] EXCEPT !.pc = "insert"]
    <3>1. k.pc = "insert" /\ call' = [call EXCEPT ![c] = k]
      BY <2>1 DEF Goto, KeyInv, TypeOK, Work
    <3> HIDE DEF k
    <3>2. k \in Work
      BY <1>t, <3>1 DEF KeyInv, TypeOK
    <3> QED  BY <1>3, <1>t, <2>1, <3>1, <3>2, QuietStep DEF Lookup
  <2>2. ASSUME NEW row \in keyRows, row.key = call[c].key,
               Found(row, call[c].print) = "mismatch",
               Answer(c, "mismatch", row.id), Return(c)
        PROVE  KeyInv'
    <3>1. row.print # call[c].print
      BY <2>2 DEF Found
    <3> QED  BY <1>3, <1>t, <2>2, <3>1, AnsweredStep DEF Lookup
  <2>3. ASSUME NEW row \in keyRows, row.key = call[c].key,
               Found(row, call[c].print) = "replayed",
               call' = [call EXCEPT ![c] = [call[c] EXCEPT !.pc = "present",
                                                !.id = row.id, !.kind = "replayed"]],
               UNCHANGED answers
        PROVE  KeyInv'
    <3>1. row.print = call[c].print
      BY <2>3 DEF Found
    <3>2. row = [key |-> row.key, print |-> row.print, id |-> row.id]
      BY DEF KeyInv, TypeOK, KeyRow
    <3>3. UNCHANGED <<payments, keyRows>>
      BY <1>3 DEF Lookup
    <3>4. \A d \in Requests \ {c} : call'[d] = call[d]
      BY <2>3 DEF KeyInv, TypeOK
    <3>5. /\ call'[c].pc = "present" /\ call'[c].id = row.id
          /\ call'[c].key = call[c].key /\ call'[c].print = call[c].print
      BY <2>3 DEF KeyInv, TypeOK, Work
    <3>6. OneHolder' /\ HolderIsFirst'
      BY <3>3, <3>4, <3>5 DEF KeyInv, OneHolder, HolderIsFirst, At
    <3>7. FoundRow'
      BY <2>3, <3>1, <3>2, <3>3, <3>4, <3>5 DEF KeyInv, FoundRow, At
    <3>8. OnePair' /\ AnswersHold'
      BY <2>3, <3>3 DEF KeyInv, OnePair, AnswersHold
    <3> QED  BY <1>t, <3>6, <3>7, <3>8 DEF KeyInv
  <2> QED  BY <1>3, <2>1, <2>2, <2>3 DEF Lookup
<1>4. ASSUME NEW c \in Requests, Insert(c)
      PROVE  KeyInv'
  <2>1. CASE Taken(c) /\ Answer(c, "conflict", 0) /\ Return(c)
    <3>1. \E row \in keyRows : row.key = call[c].key
      BY <2>1 DEF Taken, KeyInv, OnePair
    <3> QED  BY <1>4, <1>t, <2>1, <3>1, AnsweredStep DEF Insert
  <2>2. CASE ~Taken(c) /\ Goto(c, "commit") /\ UNCHANGED answers
    <3>1. UNCHANGED <<payments, keyRows>>
      BY <1>4 DEF Insert
    <3>2. \A d \in Requests \ {c} : call'[d] = call[d]
      BY <2>2 DEF Goto, KeyInv, TypeOK
    <3>3. call'[c].pc = "commit" /\ call'[c].key = call[c].key
      BY <2>2 DEF Goto, KeyInv, TypeOK, Work
    <3>4. \A d \in Requests : At(d, "commit") => call[d].key # call[c].key
      BY <1>4 DEF Insert, Clear, Holders
    <3>5. OneHolder'
      BY <3>2, <3>3, <3>4 DEF KeyInv, OneHolder, At
    <3>6. HolderIsFirst'
      BY <2>2, <3>1, <3>2, <3>3 DEF KeyInv, HolderIsFirst, Taken, At
    <3>7. FoundRow'
      BY <3>1, <3>2, <3>3 DEF KeyInv, FoundRow, At
    <3>8. OnePair' /\ AnswersHold'
      BY <2>2, <3>1 DEF KeyInv, OnePair, AnswersHold
    <3> QED  BY <1>t, <3>5, <3>6, <3>7, <3>8 DEF KeyInv
  <2> QED  BY <1>4, <2>1, <2>2 DEF Insert
<1>5. ASSUME NEW c \in Requests, Commit(c)
      PROVE  KeyInv'
  <2> DEFINE p == [id |-> call[c].id, key |-> call[c].key]
             r == [key |-> call[c].key, print |-> call[c].print, id |-> call[c].id]
  <2>1. At(c, "commit") /\ UNCHANGED answers
    BY <1>5 DEF Commit
  <2>2. payments' = payments \union {p} /\ keyRows' = keyRows \union {r}
    BY <1>5 DEF Commit
  <2>3. \A d \in Requests \ {c} : call'[d] = call[d]
    BY <1>5 DEF Commit, KeyInv, TypeOK
  <2>4. /\ call'[c].pc = "present" /\ call'[c].id = call[c].id
        /\ call'[c].key = call[c].key /\ call'[c].print = call[c].print
    BY <1>5 DEF Commit, KeyInv, TypeOK, Work
  <2>5. \A row \in keyRows : row.key # call[c].key
    BY <2>1 DEF KeyInv, HolderIsFirst, OnePair
  <2>6. OnePair'
    <3> p.id = r.id /\ p.key = r.key /\ r.key = call[c].key
      OBVIOUS
    <3> p = [id |-> r.id, key |-> r.key]
      OBVIOUS
    <3> HIDE DEF p, r
    <3>1. \A x, y \in keyRows' : x.key = y.key => x = y
      BY <2>2, <2>5 DEF KeyInv, OnePair
    <3>2. \A x \in keyRows' : [id |-> x.id, key |-> x.key] \in payments'
      BY <2>2 DEF KeyInv, OnePair
    <3>3. \A x \in payments' : \E y \in keyRows' : y.key = x.key
      BY <2>2 DEF KeyInv, OnePair
    <3> QED  BY <3>1, <3>2, <3>3 DEF OnePair
  <2>7. OneHolder'
    BY <2>3, <2>4 DEF KeyInv, OneHolder, At
  <2>8. HolderIsFirst'
    BY <2>1, <2>2, <2>3, <2>4 DEF KeyInv, HolderIsFirst, OneHolder, At
  <2>9. FoundRow'
    BY <2>2, <2>3, <2>4 DEF KeyInv, FoundRow, At
  <2>10. AnswersHold'
    BY <2>1, <2>2 DEF KeyInv, AnswersHold
  <2> QED  BY <1>t, <2>6, <2>7, <2>8, <2>9, <2>10 DEF KeyInv
<1>6. ASSUME NEW c \in Requests, Present(c)
      PROVE  KeyInv'
  <2>1. [key |-> call[c].key, print |-> call[c].print, id |-> call[c].id] \in keyRows
    BY <1>6 DEF Present, KeyInv, FoundRow
  <2>2. call[c].kind \in {"created", "replayed"}
    BY <1>6 DEF Present, At, KeyInv, TypeOK, Work, WellFormed
  <2> QED  BY <1>6, <1>t, <2>1, <2>2, AnsweredStep DEF Present
<1>7. ASSUME NEW c \in Requests, Spend(c)
      PROVE  KeyInv'
  <2>1. PICK k : k.pc \in {"idle", "decide"} /\ call' = [call EXCEPT ![c] = k]
    BY <1>7 DEF Spend, Goto, Return, Idle, KeyInv, TypeOK, Work
  <2>2. k \in Work
    BY <1>t, <2>1 DEF KeyInv, TypeOK
  <2> QED  BY <1>7, <1>t, <2>1, <2>2, QuietStep DEF Spend
<1>8. ASSUME NEW c \in Requests, Decide(c) \/ Abandon(c)
      PROVE  KeyInv'
  <2>1. Idle \in Work /\ Idle.pc = "idle"
    BY IdleIsWellFormed DEF Idle
  <2> QED  BY <1>8, <1>t, <2>1, QuietStep DEF Decide, Abandon, Return
<1>9. CASE UNCHANGED <<payments, keyRows, answers, call>>
  BY <1>9, <1>t DEF KeyInv, OnePair, OneHolder, HolderIsFirst, FoundRow, AnswersHold, At
<1> QED  BY <1>1, <1>2, <1>3, <1>4, <1>5, <1>6, <1>7, <1>8, <1>9
         DEF Next, Step, ShowQr, ClockPasses, vars

\* However creations with one key race, retry or are dropped: everyone who is
\* given a payment for the key is given the same one, for the same fingerprint.
THEOREM CreationIsIdempotent == Spec => []OneAnswerPerKey
  BY KeyInit, KeyStep, KeyInvGivesOneAnswer, PTL DEF Spec

\* What a creation was answered stays true of the tables.
THEOREM CreationAnswersHold == Spec => []AnswersHold
<1>1. KeyInv => AnswersHold
  BY DEF KeyInv
<1> QED  BY <1>1, KeyInit, KeyStep, PTL DEF Spec

-----------------------------------------------------------------------------
(* One decision per token                                                  *)

\* What makes it so: the nonce is recorded before the decision, by the one
\* request whose INSERT took effect.
SpendersHaveTokens ==
  \A c \in Requests : call[c].pc \in {"spend", "decide"} =>
    [nonce |-> call[c].nonce, id |-> call[c].id] \in tokens
DecidersHaveSpent ==
  /\ \A c \in Requests : At(c, "decide") => call[c].nonce \in nonces
  /\ \A d \in decisions : d.nonce \in nonces
  /\ \A c \in Requests, d \in decisions : At(c, "decide") => d.nonce # call[c].nonce
OneDecider ==
  \A c, d \in Requests :
    At(c, "decide") /\ At(d, "decide") /\ call[c].nonce = call[d].nonce => c = d

NonceInv ==
  TypeOK /\ SpendersHaveTokens /\ DecidersHaveSpent /\ OneDecider /\ NonceDecidesOnce

LEMMA NonceInit == Init => NonceInv
<1> SUFFICES ASSUME Init PROVE NonceInv  OBVIOUS
<1>1. \A c \in Requests : call[c].pc = "idle"
  BY DEF Init, Idle
<1> QED  BY <1>1, TypeInit DEF Init, NonceInv, SpendersHaveTokens, DecidersHaveSpent,
            OneDecider, NonceDecidesOnce, At

\* A request that is not at its nonce's statements, and tokens that only grow.
LEMMA NonceQuietStep ==
  ASSUME NonceInv, TypeOK', UNCHANGED <<nonces, decisions>>, tokens \subseteq tokens',
         NEW c \in Requests, \A d \in Requests \ {c} : call'[d] = call[d],
         call'[c].pc \notin {"spend", "decide"}
  PROVE  NonceInv'
<1>1. SpendersHaveTokens'
  BY DEF NonceInv, SpendersHaveTokens
<1>2. DecidersHaveSpent'
  BY DEF NonceInv, DecidersHaveSpent, At
<1>3. OneDecider'
  BY DEF NonceInv, OneDecider, At
<1>4. NonceDecidesOnce'
  BY DEF NonceInv, NonceDecidesOnce
<1> QED  BY <1>1, <1>2, <1>3, <1>4 DEF NonceInv

LEMMA NonceStep == NonceInv /\ [Next]_vars => NonceInv'
<1> SUFFICES ASSUME NonceInv, [Next]_vars PROVE NonceInv'  OBVIOUS
<1>t. TypeOK'
  BY TypeStep DEF NonceInv
<1> USE DEF creationVars, tokenVars, counts
<1>1. ASSUME NEW c \in Requests, NEW key \in Keys, NEW print \in Fingerprints,
             Create(c, key, print)
      PROVE  NonceInv'
  <2>1. Draft(key, print).pc = "lookup"
    BY DEF Draft, Idle
  <2>2. call'[c].pc = "lookup" /\ \A d \in Requests \ {c} : call'[d] = call[d]
    BY <1>1, <2>1 DEF Create, NonceInv, TypeOK
  <2> QED  BY <1>1, <1>t, <2>2, NonceQuietStep DEF Create
<1>2. ASSUME NEW c \in Requests, NEW token \in tokens, Post(c, token)
      PROVE  NonceInv'
  <2>1. call'[c].pc = "spend" /\ call'[c].nonce = token.nonce /\ call'[c].id = token.id
    BY <1>2 DEF Post, Idle, NonceInv, TypeOK
  <2>2. \A d \in Requests \ {c} : call'[d] = call[d]
    BY <1>2 DEF Post, NonceInv, TypeOK
  <2>3. token = [nonce |-> token.nonce, id |-> token.id]
    BY DEF NonceInv, TypeOK, Token
  <2>4. UNCHANGED <<tokens, nonces, decisions>>
    BY <1>2 DEF Post
  <2>5. SpendersHaveTokens'
    BY <2>1, <2>2, <2>3, <2>4 DEF NonceInv, SpendersHaveTokens
  <2>6. DecidersHaveSpent' /\ OneDecider'
    BY <2>1, <2>2, <2>4 DEF NonceInv, DecidersHaveSpent, OneDecider, At
  <2>7. NonceDecidesOnce'
    BY <2>4 DEF NonceInv, NonceDecidesOnce
  <2> QED  BY <1>t, <2>5, <2>6, <2>7 DEF NonceInv
<1>3. ASSUME NEW c \in Requests, Lookup(c) \/ Insert(c) \/ Commit(c)
      PROVE  NonceInv'
  <2>1. /\ call'[c].pc \in {"idle", "insert", "commit", "present"}
        /\ \A d \in Requests \ {c} : call'[d] = call[d]
    <3>1. CASE Lookup(c)
      <4>1. CASE Goto(c, "insert")
        BY <4>1 DEF Goto, NonceInv, TypeOK, Work
      <4>2. CASE Return(c)
        BY <4>2 DEF Return, Idle, NonceInv, TypeOK
      <4>3. ASSUME NEW row \in keyRows,
                   call' = [call EXCEPT ![c] = [call[c] EXCEPT !.pc = "present",
                                                !.id = row.id, !.kind = "replayed"]]
            PROVE  /\ call'[c].pc = "present"
                   /\ \A d \in Requests \ {c} : call'[d] = call[d]
        BY <4>3 DEF NonceInv, TypeOK, Work
      <4> QED  BY <3>1, <4>1, <4>2, <4>3 DEF Lookup
    <3>2. CASE Insert(c)
      BY <3>2 DEF Insert, Goto, Return, Idle, NonceInv, TypeOK, Work
    <3>3. CASE Commit(c)
      BY <3>3 DEF Commit, NonceInv, TypeOK, Work
    <3> QED  BY <1>3, <3>1, <3>2, <3>3
  <2> QED  BY <1>3, <1>t, <2>1, NonceQuietStep DEF Lookup, Insert, Commit
<1>4. ASSUME NEW c \in Requests, Present(c) \/ Abandon(c)
      PROVE  NonceInv'
  <2>1. call'[c].pc = "idle" /\ \A d \in Requests \ {c} : call'[d] = call[d]
    BY <1>4 DEF Present, Abandon, Return, Idle, NonceInv, TypeOK
  <2> QED  BY <1>4, <1>t, <2>1, NonceQuietStep DEF Present, Abandon, Minted
<1>5. ASSUME NEW c \in Requests, Spend(c)
      PROVE  NonceInv'
  <2>1. At(c, "spend") /\ nonces' = nonces \union {call[c].nonce}
        /\ UNCHANGED <<tokens, decisions>>
    BY <1>5 DEF Spend
  <2>2. \A d \in Requests \ {c} : call'[d] = call[d]
    BY <1>5 DEF Spend, Goto, Return, NonceInv, TypeOK
  <2>3. \/ call'[c].pc = "idle"
        \/ /\ call[c].nonce \notin nonces /\ call'[c].pc = "decide"
           /\ call'[c].nonce = call[c].nonce /\ call'[c].id = call[c].id
    BY <1>5 DEF Spend, Spent, Goto, Return, Idle, NonceInv, TypeOK, Work
  <2>4. SpendersHaveTokens'
    BY <2>1, <2>2, <2>3 DEF NonceInv, SpendersHaveTokens, At
  <2>5. DecidersHaveSpent'
    BY <2>1, <2>2, <2>3 DEF NonceInv, DecidersHaveSpent, At
  <2>6. OneDecider'
    BY <2>1, <2>2, <2>3 DEF NonceInv, OneDecider, DecidersHaveSpent, At
  <2>7. NonceDecidesOnce'
    BY <2>1 DEF NonceInv, NonceDecidesOnce
  <2> QED  BY <1>t, <2>4, <2>5, <2>6, <2>7 DEF NonceInv
<1>6. ASSUME NEW c \in Requests, Decide(c)
      PROVE  NonceInv'
  <2>1. At(c, "decide") /\ UNCHANGED <<tokens, nonces>>
    BY <1>6 DEF Decide
  <2> DEFINE made == [post |-> Cardinality(decisions) + 1,
                      nonce |-> call[c].nonce, id |-> call[c].id]
  <2>2. /\ decisions' = decisions \union {made}
        /\ made.nonce = call[c].nonce /\ made.id = call[c].id
    BY <1>6 DEF Decide
  <2> HIDE DEF made
  <2>3. call'[c].pc = "idle" /\ \A d \in Requests \ {c} : call'[d] = call[d]
    BY <1>6 DEF Decide, Return, Idle, NonceInv, TypeOK
  <2>4. SpendersHaveTokens' /\ OneDecider'
    BY <2>1, <2>3 DEF NonceInv, SpendersHaveTokens, OneDecider, At
  <2>5. DecidersHaveSpent'
    BY <2>1, <2>2, <2>3 DEF NonceInv, DecidersHaveSpent, OneDecider, At
  <2>6. NonceDecidesOnce'
    BY <2>1, <2>2 DEF NonceInv, NonceDecidesOnce, DecidersHaveSpent, SpendersHaveTokens, At
  <2> QED  BY <1>t, <2>4, <2>5, <2>6 DEF NonceInv
<1>7. CASE UNCHANGED <<nonces, decisions, call>> /\ tokens \subseteq tokens'
  BY <1>7, <1>t DEF NonceInv, SpendersHaveTokens, DecidersHaveSpent, OneDecider,
                    NonceDecidesOnce, At
<1> QED  BY <1>1, <1>2, <1>3, <1>4, <1>5, <1>6, <1>7
         DEF Next, Step, ShowQr, Minted, ClockPasses, vars

\* A QR token is good for one decision, of its own payment, however many
\* requests post it at once and whatever is dropped.
THEOREM TokenIsGoodForOneDecision == Spec => []NonceDecidesOnce
<1>1. NonceInv => NonceDecidesOnce
  BY DEF NonceInv
<1> QED  BY <1>1, NonceInit, NonceStep, PTL DEF Spec

-----------------------------------------------------------------------------
(* No nonce is spent for nothing                                           *)

\* What makes it so: a nonce that has just been spent is accounted for by the
\* request that goes on to decide, and a decision by its own number, which no
\* earlier one has.
Deciders == {c \in Requests : At(c, "decide")}
DecisionsAreNumbered == \A d \in decisions : d.post <= Cardinality(decisions)

WasteInv ==
  TypeOK /\ IsFiniteSet(nonces) /\ DecisionsAreNumbered /\ OnlyDropsWasteNonces

\* Requests are finitely many, and so are those that are about to decide.
LEMMA DecidersAreFinite == IsFiniteSet(Deciders) /\ Cardinality(Deciders) \in Nat
<1>1. IsFiniteSet(Deciders)
  BY RequestAssumption, FS_Subset DEF Deciders
<1> QED  BY <1>1, FS_CardinalityType

LEMMA WasteCounts ==
  ASSUME WasteInv
  PROVE  /\ Cardinality(nonces) \in Nat /\ Cardinality(decisions) \in Nat
         /\ drops \in Nat /\ Cardinality(Deciders) \in Nat
         /\ Cardinality(nonces) <= Cardinality(decisions) + Cardinality(Deciders) + drops
<1>1. drops \in Nat
  BY BoundAssumption DEF WasteInv, TypeOK
<1> QED  BY <1>1, FS_CardinalityType, DecidersAreFinite
         DEF WasteInv, TypeOK, OnlyDropsWasteNonces, Deciders

LEMMA WasteInit == Init => WasteInv
<1> SUFFICES ASSUME Init PROVE WasteInv  OBVIOUS
<1>1. IsFiniteSet({}) /\ Cardinality({}) = 0
  BY FS_EmptySet
<1>2. Cardinality(Deciders) \in Nat
  BY DecidersAreFinite
<1>3. OnlyDropsWasteNonces
  BY <1>1, <1>2 DEF Init, OnlyDropsWasteNonces, Deciders
<1> QED  BY <1>1, <1>3, TypeInit DEF Init, WasteInv, DecisionsAreNumbered

\* A step that spends and decides nothing and takes no request away from those
\* that are about to decide.
LEMMA WasteQuietStep ==
  ASSUME WasteInv, TypeOK', UNCHANGED <<nonces, decisions, drops>>,
         \A c \in Requests : At(c, "decide") => At(c, "decide")'
  PROVE  WasteInv'
<1>1. Deciders \subseteq Deciders'
  BY DEF Deciders
<1>2. IsFiniteSet(Deciders')
  BY RequestAssumption, FS_Subset DEF Deciders
<1>3. /\ Cardinality(Deciders') \in Nat
      /\ Cardinality(Deciders) <= Cardinality(Deciders')
  BY <1>1, <1>2, FS_Subset, FS_CardinalityType
<1>4. OnlyDropsWasteNonces'
  <2>1. Cardinality(nonces) <= Cardinality(decisions) + Cardinality(Deciders') + drops
    BY <1>3, WasteCounts
  <2> QED  BY <2>1 DEF OnlyDropsWasteNonces, Deciders
<1> QED  BY <1>4 DEF WasteInv, DecisionsAreNumbered

\* A request that leaves those that are about to decide is one of them.
LEMMA OneDeciderLeaves ==
  ASSUME NEW c \in Requests, \A d \in Requests \ {c} : call'[d] = call[d],
         ~At(c, "decide")'
  PROVE  Cardinality(Deciders') >= Cardinality(Deciders) - 1
<1>1. Deciders' = Deciders \ {c}
  BY DEF Deciders, At
<1>2. /\ IsFiniteSet(Deciders) /\ Cardinality(Deciders) \in Nat
      /\ Cardinality(Deciders \ {c}) \in
           {Cardinality(Deciders), Cardinality(Deciders) - 1}
  BY DecidersAreFinite, FS_RemoveElement
<1> QED  BY <1>1, <1>2

LEMMA WasteStep == WasteInv /\ [Next]_vars => WasteInv'
<1> SUFFICES ASSUME WasteInv, [Next]_vars PROVE WasteInv'  OBVIOUS
<1>t. TypeOK'
  BY TypeStep DEF WasteInv
<1> USE DEF creationVars, tokenVars, counts
<1>1. ASSUME NEW c \in Requests,
             \/ \E key \in Keys, print \in Fingerprints : Create(c, key, print)
             \/ \E token \in tokens : Post(c, token)
             \/ Lookup(c) \/ Insert(c) \/ Commit(c) \/ Present(c)
      PROVE  WasteInv'
  <2>1. /\ UNCHANGED <<nonces, decisions, drops>> /\ ~At(c, "decide")
        /\ \E k : call' = [call EXCEPT ![c] = k]
    BY <1>1 DEF Create, Post, Lookup, Insert, Commit, Present, Goto, Return, At
  <2>2. \A d \in Requests \ {c} : call'[d] = call[d]
    BY <2>1 DEF WasteInv, TypeOK
  <2>3. \A d \in Requests : At(d, "decide") => At(d, "decide")'
    BY <2>1, <2>2 DEF At
  <2> QED  BY <1>t, <2>1, <2>3, WasteQuietStep
<1>2. ASSUME NEW c \in Requests, Spend(c)
      PROVE  WasteInv'
  <2>1. /\ At(c, "spend") /\ nonces' = nonces \union {call[c].nonce}
        /\ UNCHANGED <<decisions, drops>>
    BY <1>2 DEF Spend
  <2>2. \A d \in Requests \ {c} : call'[d] = call[d]
    BY <1>2 DEF Spend, Goto, Return, WasteInv, TypeOK
  <2>3. CASE Spent(c)
    <3>1. nonces' = nonces
      BY <2>1, <2>3 DEF Spent
    <3>2. \A d \in Requests : At(d, "decide") => At(d, "decide")'
      BY <2>1, <2>2 DEF At
    <3> QED  BY <1>t, <2>1, <3>1, <3>2, WasteQuietStep
  <2>4. CASE ~Spent(c)
    <3>1. call'[c].pc = "decide"
      BY <1>2, <2>4 DEF Spend, Goto, WasteInv, TypeOK, Work
    <3>2. Deciders' = Deciders \union {c} /\ c \notin Deciders
      BY <2>1, <2>2, <3>1 DEF Deciders, At
    <3>3. Cardinality(Deciders') = Cardinality(Deciders) + 1
      BY <3>2, DecidersAreFinite, FS_AddElement
    <3>4. IsFiniteSet(nonces') /\ Cardinality(nonces') = Cardinality(nonces) + 1
      BY <2>1, <2>4, FS_AddElement DEF Spent, WasteInv
    <3>5. OnlyDropsWasteNonces'
      <4>1. Cardinality(nonces') <= Cardinality(decisions) + Cardinality(Deciders') + drops
        BY <3>3, <3>4, WasteCounts
      <4> QED  BY <2>1, <4>1 DEF OnlyDropsWasteNonces, Deciders
    <3> QED  BY <1>t, <2>1, <3>4, <3>5 DEF WasteInv, DecisionsAreNumbered
  <2> QED  BY <2>3, <2>4
<1>3. ASSUME NEW c \in Requests, Decide(c)
      PROVE  WasteInv'
  <2> DEFINE made == [post |-> Cardinality(decisions) + 1,
                      nonce |-> call[c].nonce, id |-> call[c].id]
  <2>1. /\ decisions' = decisions \union {made} /\ UNCHANGED <<nonces, drops>>
        /\ made.post = Cardinality(decisions) + 1
    BY <1>3 DEF Decide
  <2> HIDE DEF made
  <2>2. call'[c].pc = "idle" /\ \A d \in Requests \ {c} : call'[d] = call[d]
    BY <1>3 DEF Decide, Return, Idle, WasteInv, TypeOK
  <2>3. Cardinality(decisions) \in Nat /\ IsFiniteSet(decisions)
    BY WasteCounts DEF WasteInv, TypeOK
  <2>4. made \notin decisions
    BY <2>1, <2>3 DEF WasteInv, DecisionsAreNumbered
  <2>5. Cardinality(decisions') = Cardinality(decisions) + 1
    BY <2>1, <2>3, <2>4, FS_AddElement
  <2>6. DecisionsAreNumbered'
    <3> SUFFICES ASSUME NEW d \in decisions'
                 PROVE  d.post <= Cardinality(decisions')
      BY DEF DecisionsAreNumbered
    <3>1. CASE d \in decisions
      <4>1. d.post \in Nat /\ d.post <= Cardinality(decisions)
        BY <3>1 DEF WasteInv, DecisionsAreNumbered, TypeOK
      <4> QED  BY <4>1, <2>3, <2>5
    <3>2. CASE d = made
      BY <3>2, <2>1, <2>3, <2>5
    <3> QED  BY <2>1, <3>1, <3>2
  <2>7. Cardinality(Deciders') >= Cardinality(Deciders) - 1
    BY <2>2, OneDeciderLeaves DEF At
  <2>8. OnlyDropsWasteNonces'
    <3>1. IsFiniteSet(Deciders') /\ Cardinality(Deciders') \in Nat
      <4>1. IsFiniteSet(Deciders')
        BY RequestAssumption, FS_Subset DEF Deciders
      <4> QED  BY <4>1, FS_CardinalityType
    <3>2. Cardinality(nonces) <= Cardinality(decisions') + Cardinality(Deciders') + drops
      BY <2>5, <2>7, <3>1, WasteCounts
    <3> QED  BY <2>1, <3>2 DEF OnlyDropsWasteNonces, Deciders
  <2> QED  BY <1>t, <2>1, <2>6, <2>8 DEF WasteInv
<1>4. ASSUME NEW c \in Requests, Abandon(c)
      PROVE  WasteInv'
  <2>1. drops' = drops + 1 /\ UNCHANGED <<nonces, decisions>>
    BY <1>4 DEF Abandon
  <2>2. call'[c].pc = "idle" /\ \A d \in Requests \ {c} : call'[d] = call[d]
    BY <1>4 DEF Abandon, Return, Idle, WasteInv, TypeOK
  <2>3. Cardinality(Deciders') >= Cardinality(Deciders) - 1
    BY <2>2, OneDeciderLeaves DEF At
  <2>4. OnlyDropsWasteNonces'
    <3>1. IsFiniteSet(Deciders') /\ Cardinality(Deciders') \in Nat
      <4>1. IsFiniteSet(Deciders')
        BY RequestAssumption, FS_Subset DEF Deciders
      <4> QED  BY <4>1, FS_CardinalityType
    <3>2. Cardinality(nonces) <= Cardinality(decisions) + Cardinality(Deciders') + drops'
      BY <2>1, <2>3, <3>1, WasteCounts
    <3> QED  BY <2>1, <3>2 DEF OnlyDropsWasteNonces, Deciders
  <2> QED  BY <1>t, <2>1, <2>4 DEF WasteInv, DecisionsAreNumbered
<1>5. CASE UNCHANGED <<nonces, decisions, drops, call>>
  BY <1>5, <1>t, WasteQuietStep DEF At
<1> QED  BY <1>1, <1>2, <1>3, <1>4, <1>5
         DEF Next, Step, ShowQr, ClockPasses, vars

\* However many tokens of a payment are posted, replayed or dropped: as many
\* nonces are spent as decisions are made or under way, but for one per dropped
\* request.
THEOREM OnlyDropsEverWasteNonces == Spec => []OnlyDropsWasteNonces
<1>1. WasteInv => OnlyDropsWasteNonces
  BY DEF WasteInv
<1> QED  BY <1>1, WasteInit, WasteStep, PTL DEF Spec

=============================================================================
