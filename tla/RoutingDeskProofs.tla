-------------------------- MODULE RoutingDeskProofs --------------------------
(***************************************************************************)
(* Proofs about RoutingDesk, for every finite set of connectors and of     *)
(* policies, every catalog, rules, patches and number of requests and      *)
(* replicas.                                                               *)
(*                                                                         *)
(* First the ranking: evaluate_policy sorts by counting places, so what    *)
(* its two lists hold follows from the cardinalities of finite sets.  Each *)
(* place of a list stands for an entry of the pool, a named key or a row   *)
(* (Picks, Spares), hence each place of their concatenation (Sorts), and   *)
(* of that, cut (CutRankingIsRanked).  Then the inductive invariant        *)
(* DeskInv: policies keep their columns, whoever seals has a row for every *)
(* plaintext there is to seal, and a request's list is the cut ranking of  *)
(* the rows it read, which it asks from the top.                           *)
(***************************************************************************)
EXTENDS RoutingDesk, FiniteSetTheorems, TLAPS

-----------------------------------------------------------------------------
(* Orders                                                                  *)

\* Those that R has before i.
Ahead(S, R, i) == {j \in S : <<j, i>> \in R}

\* In a finite set, ordered by R, each place is somebody's: the one that has as
\* many others before it.
LEMMA PlacesAreTaken ==
  ASSUME NEW S, IsFiniteSet(S), NEW R,
         \A i \in S : <<i, i>> \notin R,
         \A i, j, l \in S : <<i, j>> \in R /\ <<j, l>> \in R => <<i, l>> \in R,
         \A i, j \in S : i # j => <<i, j>> \in R \/ <<j, i>> \in R
  PROVE  /\ \A i, j \in S :
              <<i, j>> \in R => Cardinality(Ahead(S, R, i)) < Cardinality(Ahead(S, R, j))
         /\ \A i \in S : Cardinality(Ahead(S, R, i)) \in 0..(Cardinality(S) - 1)
         /\ \A n \in 1..Cardinality(S) : \E i \in S : Cardinality(Ahead(S, R, i)) = n - 1
<1> DEFINE place == [i \in S |-> Cardinality(Ahead(S, R, i))]
           N == Cardinality(S)
<1>1. \A i \in S : IsFiniteSet(Ahead(S, R, i)) /\ Cardinality(Ahead(S, R, i)) \in Nat
  BY FS_Subset, FS_CardinalityType DEF Ahead
<1>2. Cardinality(S) \in Nat
  BY FS_CardinalityType
<1>3. ASSUME NEW i \in S, NEW j \in S, <<i, j>> \in R
      PROVE  Cardinality(Ahead(S, R, i)) < Cardinality(Ahead(S, R, j))
  <2>1. Ahead(S, R, i) \subseteq Ahead(S, R, j) /\ Ahead(S, R, i) # Ahead(S, R, j)
    BY <1>3 DEF Ahead
  <2>2. Cardinality(Ahead(S, R, i)) <= Cardinality(Ahead(S, R, j))
        /\ Cardinality(Ahead(S, R, i)) # Cardinality(Ahead(S, R, j))
    BY <1>1, <2>1, FS_Subset
  <2> QED  BY <1>1, <2>2
<1>4. ASSUME NEW i \in S
      PROVE  Cardinality(Ahead(S, R, i)) \in 0..(Cardinality(S) - 1)
  <2>1. Ahead(S, R, i) \subseteq S /\ Ahead(S, R, i) # S
    BY <1>4 DEF Ahead
  <2>2. /\ Cardinality(Ahead(S, R, i)) <= Cardinality(S)
        /\ Cardinality(Ahead(S, R, i)) # Cardinality(S)
    BY <2>1, FS_Subset
  <2> QED  BY <1>1, <1>2, <2>2
<1>5. /\ place \in [S -> 0..(N - 1)]
      /\ \A i, j \in S : <<i, j>> \in R => place[i] < place[j]
  BY <1>3, <1>4
<1> HIDE DEF place, N
<1>6. place \in Injection(S, 0..(N - 1))
  <2>1. ASSUME NEW i \in S, NEW j \in S, place[i] = place[j]
        PROVE  i = j
    <3>1. place[i] \in Int /\ place[j] \in Int
      BY <1>5
    <3>2. <<i, j>> \notin R /\ <<j, i>> \notin R
      BY <1>5, <2>1, <3>1
    <3> QED  BY <3>2
  <2> QED  BY <1>5, <2>1 DEF Injection, IsInjective
<1>7. N \in Nat /\ N - 1 \in Int
  BY <1>2 DEF N
<1>8. IsFiniteSet(0..(N - 1)) /\ Cardinality(0..(N - 1)) = N
  <2>1. Cardinality(0..(N - 1)) = IF 0 > N - 1 THEN 0 ELSE (N - 1) - 0 + 1
    BY <1>7, FS_Interval
  <2> QED  BY <2>1, <1>7, FS_Interval
<1>9. place \in Surjection(S, 0..(N - 1))
  BY <1>6, <1>8, FS_Injection DEF N
<1>10. \A n \in 1..N : \E i \in S : place[i] = n - 1
  <2>1. \A n \in 1..N : n - 1 \in 0..(N - 1)
    BY <1>7
  <2>2. \A t \in 0..(N - 1) : \E i \in S : place[i] = t
    BY <1>9 DEF Surjection
  <2> QED  BY <2>1, <2>2
<1> QED  BY <1>5, <1>10 DEF place, N

\* sort_by_key: each position once, the higher priority first.
LEMMA ByPrioritySorts ==
  ASSUME NEW positions \in SUBSET Int, IsFiniteSet(positions), NEW rows,
         \A i \in positions : rows[i].priority \in Int
  PROVE  LET order == ByPriority(positions, rows)
             N == Cardinality(positions)
         IN  /\ N \in Nat /\ order \in [1..N -> positions] /\ DOMAIN order = 1..N
             /\ \A m, n \in 1..N : order[m] = order[n] => m = n
             /\ \A i \in positions : \E n \in 1..N : order[n] = i
             /\ \A m, n \in 1..N : Before(rows, order[m], order[n]) => m < n
<1> DEFINE R == {e \in positions \X positions : Before(rows, e[1], e[2])}
           Prior(i) == {j \in positions : Before(rows, j, i)}
           N == Cardinality(positions)
           order == ByPriority(positions, rows)
<1>1. \A i, j \in positions : <<i, j>> \in R <=> Before(rows, i, j)
  OBVIOUS
<1>2. \A i \in positions : Prior(i) = Ahead(positions, R, i)
  BY <1>1 DEF Ahead
<1>3. /\ \A i \in positions : ~Before(rows, i, i)
      /\ \A i, j, l \in positions :
           Before(rows, i, j) /\ Before(rows, j, l) => Before(rows, i, l)
      /\ \A i, j \in positions : i # j => Before(rows, i, j) \/ Before(rows, j, i)
  BY DEF Before
<1> HIDE DEF R
<1>4. /\ \A i, j \in positions :
           <<i, j>> \in R =>
             Cardinality(Ahead(positions, R, i)) < Cardinality(Ahead(positions, R, j))
      /\ \A i \in positions : Cardinality(Ahead(positions, R, i)) \in 0..(N - 1)
      /\ \A n \in 1..N : \E i \in positions : Cardinality(Ahead(positions, R, i)) = n - 1
  <2>1. \A i \in positions : <<i, i>> \notin R
    BY <1>1, <1>3
  <2>2. \A i, j, l \in positions : <<i, j>> \in R /\ <<j, l>> \in R => <<i, l>> \in R
    BY <1>1, <1>3
  <2>3. \A i, j \in positions : i # j => <<i, j>> \in R \/ <<j, i>> \in R
    BY <1>1, <1>3
  <2> QED  BY <2>1, <2>2, <2>3, PlacesAreTaken
<1>5. /\ \A i, j \in positions :
           Before(rows, i, j) => Cardinality(Prior(i)) < Cardinality(Prior(j))
      /\ \A i \in positions : Cardinality(Prior(i)) \in 0..(N - 1)
      /\ \A n \in 1..N : \E i \in positions : Cardinality(Prior(i)) = n - 1
  BY <1>1, <1>2, <1>4
<1>6. N \in Nat
  BY FS_CardinalityType
<1>7. order = [n \in 1..N |-> CHOOSE i \in positions : Cardinality(Prior(i)) = n - 1]
  BY DEF ByPriority
<1> HIDE DEF Prior, order, N
<1>8. \A n \in 1..N : order[n] \in positions /\ Cardinality(Prior(order[n])) = n - 1
  BY <1>5, <1>7
<1>9. order \in [1..N -> positions] /\ DOMAIN order = 1..N
  BY <1>7, <1>8
<1>10. \A m, n \in 1..N : order[m] = order[n] => m = n
  BY <1>8, <1>6
<1>11. ASSUME NEW i \in positions
       PROVE  \E n \in 1..N : order[n] = i
  <2>1. PICK k \in 0..(N - 1) : k = Cardinality(Prior(i))
    BY <1>5
  <2>2. k + 1 \in 1..N
    BY <1>6, <2>1
  <2>3. order[k + 1] \in positions /\ Cardinality(Prior(order[k + 1])) = k
    <3>1. (k + 1) - 1 = k
      BY <2>1
    <3> QED  BY <1>8, <2>2, <3>1
  <2>4. ~Before(rows, order[k + 1], i) /\ ~Before(rows, i, order[k + 1])
    <3>1. ~(k < k)
      OBVIOUS
    <3> QED  BY <1>5, <2>1, <2>3, <3>1
  <2> QED  BY <1>3, <2>2, <2>3, <2>4
<1>12. \A m, n \in 1..N : Before(rows, order[m], order[n]) => m < n
  <2> SUFFICES ASSUME NEW m \in 1..N, NEW n \in 1..N, Before(rows, order[m], order[n])
               PROVE  m < n
    OBVIOUS
  <2>1. Cardinality(Prior(order[m])) < Cardinality(Prior(order[n]))
    BY <1>5, <1>8
  <2>2. m - 1 < n - 1
    BY <1>8, <2>1
  <2> QED  BY <1>6, <2>2
<1> QED  BY <1>6, <1>9, <1>10, <1>11, <1>12 DEF order, N

\* In particular a first one, before which there is nobody.
LEMMA SomebodyIsFirst ==
  ASSUME NEW S, IsFiniteSet(S), S # {}, NEW R,
         \A i \in S : <<i, i>> \notin R,
         \A i, j, l \in S : <<i, j>> \in R /\ <<j, l>> \in R => <<i, l>> \in R,
         \A i, j \in S : i # j => <<i, j>> \in R \/ <<j, i>> \in R
  PROVE  \E i \in S : \A j \in S : <<j, i>> \notin R
<1>1. Cardinality(S) \in Nat /\ Cardinality(S) # 0
  BY FS_CardinalityType, FS_EmptySet
<1>2. 1 \in 1..Cardinality(S)
  BY <1>1
<1>3. PICK i \in S : Cardinality(Ahead(S, R, i)) = 1 - 1
  BY <1>2, PlacesAreTaken
<1>4. IsFiniteSet(Ahead(S, R, i))
  BY FS_Subset DEF Ahead
<1>5. Ahead(S, R, i) = {}
  BY <1>3, <1>4, FS_EmptySet
<1> QED  BY <1>5 DEF Ahead

LEMMA MaxOfPositions ==
  ASSUME NEW S \in SUBSET Int, IsFiniteSet(S), S # {}
  PROVE  Max(S) \in S /\ \A j \in S : j <= Max(S)
<1> DEFINE R == {e \in S \X S : e[1] > e[2]}
<1>1. \A i, j \in S : <<i, j>> \in R <=> i > j
  OBVIOUS
<1> HIDE DEF R
<1>2. \E i \in S : \A j \in S : <<j, i>> \notin R
  <2>1. \A i \in S : <<i, i>> \notin R
    BY <1>1
  <2>2. \A i, j, l \in S : <<i, j>> \in R /\ <<j, l>> \in R => <<i, l>> \in R
    BY <1>1
  <2>3. \A i, j \in S : i # j => <<i, j>> \in R \/ <<j, i>> \in R
    BY <1>1
  <2> QED  BY <2>1, <2>2, <2>3, SomebodyIsFirst
<1>3. PICK i \in S : \A j \in S : <<j, i>> \notin R
  BY <1>2
<1>4. \A j \in S : i \in Int /\ j \in Int /\ ~(j > i)
  BY <1>1, <1>3
<1>5. \A j \in S : i >= j
  BY <1>4
<1>6. Max(S) \in S /\ \A j \in S : Max(S) >= j
  BY <1>5 DEF Max
<1> QED  BY <1>6

LEMMA LeastPosition ==
  ASSUME NEW S \in SUBSET Int, IsFiniteSet(S), S # {}
  PROVE  \E i \in S : \A j \in S : i <= j
<1> DEFINE R == {e \in S \X S : e[1] < e[2]}
<1>1. \A i, j \in S : <<i, j>> \in R <=> i < j
  OBVIOUS
<1> HIDE DEF R
<1>2. \E i \in S : \A j \in S : <<j, i>> \notin R
  <2>1. \A i \in S : <<i, i>> \notin R
    BY <1>1
  <2>2. \A i, j, l \in S : <<i, j>> \in R /\ <<j, l>> \in R => <<i, l>> \in R
    BY <1>1
  <2>3. \A i, j \in S : i # j => <<i, j>> \in R \/ <<j, i>> \in R
    BY <1>1
  <2> QED  BY <2>1, <2>2, <2>3, SomebodyIsFirst
<1>3. PICK i \in S : \A j \in S : <<j, i>> \notin R
  BY <1>2
<1>4. \A j \in S : i \in Int /\ j \in Int /\ ~(j < i)
  BY <1>1, <1>3
<1>5. \A j \in S : i <= j
  BY <1>4
<1> QED  BY <1>5

\* max_by_key: nobody has a higher priority.
LEMMA BestIsBest ==
  ASSUME NEW S \in SUBSET Int, IsFiniteSet(S), S # {}, NEW rows,
         \A i \in S : rows[i].priority \in Int
  PROVE  /\ Best(S, rows) \in S
         /\ \A j \in S : rows[j].priority <= rows[Best(S, rows)].priority
<1> DEFINE Above(i, j) == \/ rows[i].priority > rows[j].priority
                          \/ rows[i].priority = rows[j].priority /\ i > j
           R == {e \in S \X S : Above(e[1], e[2])}
<1>1. \A i, j \in S : <<i, j>> \in R <=> Above(i, j)
  OBVIOUS
<1> HIDE DEF R
<1>2. \E i \in S : \A j \in S : <<j, i>> \notin R
  <2>1. \A i \in S : <<i, i>> \notin R
    BY <1>1
  <2>2. \A i, j, l \in S : <<i, j>> \in R /\ <<j, l>> \in R => <<i, l>> \in R
    BY <1>1
  <2>3. \A i, j \in S : i # j => <<i, j>> \in R \/ <<j, i>> \in R
    BY <1>1
  <2> QED  BY <2>1, <2>2, <2>3, SomebodyIsFirst
<1>3. PICK i \in S : \A j \in S : <<j, i>> \notin R
  BY <1>2
<1>5. \A j \in S : i \in Int /\ j \in Int /\ ~Above(j, i)
  BY <1>1, <1>3
<1>6. \A j \in S : \/ rows[j].priority < rows[i].priority
                   \/ rows[j].priority = rows[i].priority /\ j <= i
  BY <1>5
<1>4. /\ Best(S, rows) \in S
      /\ \A j \in S : \/ rows[j].priority < rows[Best(S, rows)].priority
                       \/ /\ rows[j].priority = rows[Best(S, rows)].priority
                          /\ j <= Best(S, rows)
  BY <1>6 DEF Best
<1>7. Best(S, rows) \in S /\ rows[Best(S, rows)].priority \in Int
  BY <1>4
<1> QED  BY <1>4, <1>7

-----------------------------------------------------------------------------
(* The rules that count                                                    *)

\* What a policy and the catalog are to evaluate_policy: rules and rows with
\* their priorities, any number of rows to a key.
Routable(rules, cats) ==
  /\ rules \in Seq(Range(rules)) /\ cats \in Seq(Range(cats))
  /\ \A i \in ParseRules(rules) : rules[i].priority \in Int
  /\ \A i \in DOMAIN cats : cats[i].priority \in Int

LEMMA SeqPositions ==
  ASSUME NEW S, NEW s \in Seq(S)
  PROVE  /\ Len(s) \in Nat /\ DOMAIN s = 1..Len(s)
         /\ DOMAIN s \in SUBSET Int /\ IsFiniteSet(DOMAIN s)
<1>1. Len(s) \in Nat /\ DOMAIN s = 1..Len(s)
  OBVIOUS
<1>2. IsFiniteSet(1..Len(s))
  BY <1>1, FS_Interval
<1> QED  BY <1>1, <1>2

\* The first rule to select a connector, and no other, ranks it.
LEMMA RulingFacts ==
  ASSUME NEW rules, NEW ctx, NEW cats, Routable(rules, cats)
  PROVE  LET ruling == Ruling(rules, ctx, cats)
         IN  /\ ruling \in SUBSET Int /\ IsFiniteSet(ruling)
             /\ ruling \subseteq ParseRules(rules)
             /\ \A i \in ruling : rules[i].priority \in Int /\ Selects(rules[i], ctx, cats)
             /\ \A i, j \in ruling : rules[i].select = rules[j].select => i = j
             /\ \A i \in ParseRules(rules) : Selects(rules[i], ctx, cats) =>
                  \E j \in ruling : rules[j].select = rules[i].select
             /\ \A i \in ruling : \A j \in ParseRules(rules) :
                  Selects(rules[j], ctx, cats) /\ rules[j].select = rules[i].select => i <= j
<1> DEFINE selects == {i \in ParseRules(rules) : Selects(rules[i], ctx, cats)}
           ruling  == Ruling(rules, ctx, cats)
<1>1. ParseRules(rules) \in SUBSET Int /\ IsFiniteSet(ParseRules(rules))
  <2>1. DOMAIN rules \in SUBSET Int /\ IsFiniteSet(DOMAIN rules)
    BY SeqPositions DEF Routable
  <2> QED  BY <2>1, FS_Subset DEF ParseRules
<1>2. /\ ruling = {i \in selects : \A j \in selects :
                                     rules[j].select = rules[i].select => i <= j}
  BY DEF Ruling
<1>3. ruling \in SUBSET Int /\ IsFiniteSet(ruling) /\ ruling \subseteq ParseRules(rules)
  BY <1>1, <1>2, FS_Subset
<1>4. \A i \in ruling : rules[i].priority \in Int /\ Selects(rules[i], ctx, cats)
  BY <1>2 DEF Routable
<1>5. \A i \in ruling : \A j \in ParseRules(rules) :
        Selects(rules[j], ctx, cats) /\ rules[j].select = rules[i].select => i <= j
  BY <1>2
<1>6. ASSUME NEW i \in ruling, NEW j \in ruling, rules[i].select = rules[j].select
      PROVE  i = j
  <2>1. i \in Int /\ j \in Int /\ i <= j /\ j <= i
    BY <1>3, <1>4, <1>5, <1>6
  <2> QED  BY <2>1
<1>7. ASSUME NEW i \in ParseRules(rules), Selects(rules[i], ctx, cats)
      PROVE  \E j \in ruling : rules[j].select = rules[i].select
  <2> DEFINE same == {j \in selects : rules[j].select = rules[i].select}
  <2>1. same \in SUBSET Int /\ IsFiniteSet(same) /\ same # {}
    BY <1>1, <1>7, FS_Subset
  <2>2. PICK j \in same : \A l \in same : j <= l
    BY <2>1, LeastPosition
  <2>3. j \in ruling
    BY <1>2, <2>2
  <2> QED  BY <2>2, <2>3
<1> QED  BY <1>3, <1>4, <1>5, <1>6, <1>7

-----------------------------------------------------------------------------
(* What there is to choose from                                            *)

RuledPositions(k) == Ruling(k.rules, k.ctx, k.cats)
Eligible(k)       == Candidates(k.ctx, k.cats)

\* The eligible rows whose key no rule names.
Unruled(k) ==
  {p \in Eligible(k) : \A j \in RuledPositions(k) : k.rules[j].select # k.cats[p].key}

\* Everything is in play, not only what the rules name.
AllInPlay(k) == k.fallback.enabled \/ RuledPositions(k) = {}

\* What the rule at position j ranks.
RuleAt(k, j) ==
  [key |-> k.rules[j].select, row |-> 0, tier |-> 1, priority |-> k.rules[j].priority]

ByRules(k) == {RuleAt(k, j) : j \in RuledPositions(k)}
ByRows(k)  == IF AllInPlay(k) THEN {RowEntry(k, p) : p \in Unruled(k)} ELSE {}

\* A listed key is named just when some rule that selects it ranks it, and that
\* is the first to name it.
LEMMA NamingFacts ==
  ASSUME NEW k, Routable(k.rules, k.cats), NEW key \in {row.key : row \in Range(k.cats)}
  PROVE  /\ key \in Named(k) <=> \E j \in RuledPositions(k) : k.rules[j].select = key
         /\ \A j \in RuledPositions(k) :
              k.rules[j].select = key => FirstNaming(k, key) = k.rules[j]
<1> DEFINE ruling == RuledPositions(k)
           selects(i) == Selects(k.rules[i], k.ctx, k.cats)
<1>1. /\ ruling \subseteq ParseRules(k.rules) /\ ruling \in SUBSET Int
      /\ \A i \in ruling : selects(i)
      /\ \A i \in ParseRules(k.rules) : selects(i) =>
           \E j \in ruling : k.rules[j].select = k.rules[i].select
      /\ \A i \in ruling : \A j \in ParseRules(k.rules) :
           selects(j) /\ k.rules[j].select = k.rules[i].select => i <= j
  BY RulingFacts DEF RuledPositions
<1>2. \A i : i \in Naming(k, key) <=>
               i \in ParseRules(k.rules) /\ selects(i) /\ k.rules[i].select = key
  BY DEF Naming, Selects
<1>3. ParseRules(k.rules) \in SUBSET Int
  BY SeqPositions DEF Routable, ParseRules
<1> HIDE DEF ruling, selects
<1>4. ASSUME NEW j \in ruling, k.rules[j].select = key
      PROVE  FirstNaming(k, key) = k.rules[j]
  <2>1. j \in Naming(k, key) /\ \A i \in Naming(k, key) : j <= i
    BY <1>1, <1>2, <1>4
  <2>2. \A i \in Naming(k, key) : i \in Int
    BY <1>2, <1>3
  <2> DEFINE first == CHOOSE i \in Naming(k, key) : \A l \in Naming(k, key) : i <= l
  <2>3. first \in Naming(k, key) /\ \A l \in Naming(k, key) : first <= l
    BY <2>1
  <2>4. FirstNaming(k, key) = k.rules[first]
    BY DEF FirstNaming
  <2> HIDE DEF first
  <2>5. first \in Int /\ j \in Int /\ first <= j /\ j <= first
    BY <2>1, <2>2, <2>3
  <2>6. first = j
    BY <2>5
  <2> QED  BY <2>4, <2>6
<1>5. key \in Named(k) <=> \E j \in ruling : k.rules[j].select = key
  <2>1. key \in Named(k) <=> \E i : i \in Naming(k, key)
    BY DEF Named
  <2> QED  BY <1>1, <1>2, <2>1
<1> QED  BY <1>4, <1>5 DEF ruling

\* The pool, told by the rules that rank and the rows they leave.
LEMMA StandingFacts ==
  ASSUME NEW k, Routable(k.rules, k.cats)
  PROVE  /\ Standing(k) = ByRules(k) \union ByRows(k)
         /\ IsFiniteSet(Standing(k))
<1> DEFINE listed == {row.key : row \in Range(k.cats)}
<1>1. \A key \in listed :
        /\ key \in Named(k) <=> \E j \in RuledPositions(k) : k.rules[j].select = key
        /\ \A j \in RuledPositions(k) :
             k.rules[j].select = key => FirstNaming(k, key) = k.rules[j]
  BY NamingFacts
<1>2. \A j \in RuledPositions(k) : k.rules[j].select \in listed
  BY RulingFacts DEF RuledPositions, Selects
<1>3. \A p \in Eligible(k) : p \in DOMAIN k.cats /\ k.cats[p].key \in listed
  BY DEF Eligible, Candidates, Range
<1>4. Named(k) \subseteq listed
  BY DEF Named
<1> HIDE DEF listed
<1>5. Named(k) = {k.rules[j].select : j \in RuledPositions(k)}
  BY <1>1, <1>2, <1>4
<1>6. Named(k) = {} <=> RuledPositions(k) = {}
  BY <1>5
<1>7. Open(k) = Unruled(k)
  <2>1. \A p : p \in Open(k) <=> p \in Eligible(k) /\ k.cats[p].key \notin Named(k)
    BY DEF Open, Eligible, Candidates
  <2>2. \A p \in Eligible(k) : k.cats[p].key \notin Named(k) <=> p \in Unruled(k)
    BY <1>1, <1>3 DEF Unruled
  <2> QED  BY <2>1, <2>2 DEF Unruled
<1>8. {RuleEntry(k, key) : key \in Named(k)} = ByRules(k)
  <2>1. \A j \in RuledPositions(k) : RuleEntry(k, k.rules[j].select) = RuleAt(k, j)
    BY <1>1, <1>2 DEF RuleEntry, RuleAt
  <2>2. {RuleEntry(k, key) : key \in Named(k)}
          = {RuleEntry(k, k.rules[j].select) : j \in RuledPositions(k)}
    BY <1>5
  <2> QED  BY <2>1, <2>2 DEF ByRules
<1>9. Standing(k) = ByRules(k) \union ByRows(k)
  BY <1>6, <1>7, <1>8 DEF Standing, ByRows, AllInPlay
<1>10. IsFiniteSet(ByRules(k))
  <2>1. IsFiniteSet(RuledPositions(k))
    BY RulingFacts DEF RuledPositions
  <2>2. [j \in RuledPositions(k) |-> RuleAt(k, j)] \in Surjection(RuledPositions(k), ByRules(k))
    BY DEF Surjection, ByRules
  <2> QED  BY <2>1, <2>2, FS_Surjection
<1>11. IsFiniteSet(ByRows(k))
  <2>1. IsFiniteSet(DOMAIN k.cats) /\ Unruled(k) \subseteq DOMAIN k.cats
    BY <1>3, SeqPositions DEF Routable, Unruled
  <2>2. IsFiniteSet(Unruled(k))
    BY <2>1, FS_Subset
  <2> DEFINE entries == {RowEntry(k, p) : p \in Unruled(k)}
  <2>3. [p \in Unruled(k) |-> RowEntry(k, p)] \in Surjection(Unruled(k), entries)
    BY DEF Surjection
  <2>4. IsFiniteSet(entries)
    BY <2>2, <2>3, FS_Surjection
  <2> QED  BY <2>4, FS_EmptySet DEF ByRows
<1> QED  BY <1>9, <1>10, <1>11, FS_Union

\* Entries of the pool tell from which rule or row they are, and no row is in it
\* whose key a rule ranks.
LEMMA EntryFacts ==
  ASSUME NEW k, Routable(k.rules, k.cats)
  PROVE  /\ \A j \in RuledPositions(k) : RuleAt(k, j) \in Standing(k)
         /\ \A p \in Unruled(k) : AllInPlay(k) => RowEntry(k, p) \in Standing(k)
         /\ \A e \in Standing(k) :
              \/ e.tier = 1 /\ \E j \in RuledPositions(k) : e = RuleAt(k, j)
              \/ e.tier = 0 /\ AllInPlay(k) /\ \E p \in Unruled(k) : e = RowEntry(k, p)
         /\ \A d, e \in Standing(k) : d.key = e.key =>
              d = e \/ (d.tier = 0 /\ e.tier = 0 /\ d.row # e.row)
<1>1. Standing(k) = ByRules(k) \union ByRows(k)
  BY StandingFacts
<1>2. \A j : /\ RuleAt(k, j).key = k.rules[j].select /\ RuleAt(k, j).tier = 1
             /\ RuleAt(k, j).priority = k.rules[j].priority
  BY DEF RuleAt
<1>3. \A p : /\ RowEntry(k, p).key = k.cats[p].key /\ RowEntry(k, p).tier = 0
             /\ RowEntry(k, p).row = p
  BY DEF RowEntry
<1>4. \A i, j \in RuledPositions(k) : k.rules[i].select = k.rules[j].select => i = j
  BY RulingFacts DEF RuledPositions
<1>5. ASSUME NEW e \in Standing(k)
      PROVE  \/ e.tier = 1 /\ \E j \in RuledPositions(k) : e = RuleAt(k, j)
             \/ e.tier = 0 /\ AllInPlay(k) /\ \E p \in Unruled(k) : e = RowEntry(k, p)
  BY <1>1, <1>2, <1>3 DEF ByRules, ByRows
<1>6. ASSUME NEW d \in Standing(k), NEW e \in Standing(k), d.key = e.key
      PROVE  d = e \/ (d.tier = 0 /\ e.tier = 0 /\ d.row # e.row)
  <2>1. \A p \in Unruled(k), j \in RuledPositions(k) : RowEntry(k, p).key # RuleAt(k, j).key
    BY <1>2, <1>3 DEF Unruled
  <2>2. CASE \E i \in RuledPositions(k) : d = RuleAt(k, i)
    <3>1. PICK i \in RuledPositions(k) : d = RuleAt(k, i)
      BY <2>2
    <3>2. PICK j \in RuledPositions(k) : e = RuleAt(k, j)
      BY <1>5, <1>6, <2>1, <3>1
    <3>3. i = j
      BY <1>2, <1>4, <1>6, <3>1, <3>2
    <3> QED  BY <3>1, <3>2, <3>3
  <2>3. CASE \E p \in Unruled(k) : d = RowEntry(k, p)
    <3>1. PICK p \in Unruled(k) : d = RowEntry(k, p)
      BY <2>3
    <3>2. PICK q \in Unruled(k) : e = RowEntry(k, q)
      BY <1>5, <1>6, <2>1, <3>1
    <3>3. d.tier = 0 /\ e.tier = 0 /\ d.row = p /\ e.row = q
      BY <1>3, <3>1, <3>2
    <3> QED  BY <3>1, <3>2, <3>3
  <2> QED  BY <1>5, <2>2, <2>3
<1>7. \A j \in RuledPositions(k) : RuleAt(k, j) \in Standing(k)
  BY <1>1 DEF ByRules
<1>8. \A p \in Unruled(k) : AllInPlay(k) => RowEntry(k, p) \in Standing(k)
  BY <1>1 DEF ByRows
<1> QED  BY <1>5, <1>6, <1>7, <1>8

-----------------------------------------------------------------------------
(* The ranking                                                             *)

CatKeys(k) == {k.cats[p].key : p \in DOMAIN k.cats}
Chosen(k)  == Preferred(k.rules, k.ctx, k.cats)
Spare(k)   == IF k.fallback.enabled THEN Extras(Chosen(k), k.ctx, k.cats) ELSE << >>
Routed(k)  == EvaluatePolicy(k.rules, k.fallback, k.ctx, k.cats)

\* What the chosen keys stand for: the named ones in the order of their rules,
\* or else the best of the rows.
Picks(k, pick) ==
  LET L == Len(Chosen(k))
  IN  /\ Chosen(k) \in Seq(CatKeys(k)) /\ pick \in [1..L -> Standing(k)]
      /\ \A n \in 1..L : pick[n].key = Chosen(k)[n]
      /\ \A m, n \in 1..L : Chosen(k)[m] = Chosen(k)[n] => m = n
      /\ \A e \in Standing(k) : e.tier = 1 => \E n \in 1..L : pick[n] = e
      /\ \A e \in Standing(k), n \in 1..L :
           Outranks(e, pick[n]) => \E m \in 1..(n - 1) : pick[m] = e
      /\ \A e \in Standing(k), n \in 1..L : e.key = Chosen(k)[n] => pick[n] = e \/ n = 1
      /\ Standing(k) # {} => L # 0

LEMMA PositionFacts ==
  ASSUME NEW k, Routable(k.rules, k.cats), NEW S \in SUBSET Eligible(k)
  PROVE  /\ S \in SUBSET Int /\ IsFiniteSet(S) /\ S \subseteq DOMAIN k.cats
         /\ \A p \in S : k.cats[p].priority \in Int /\ k.cats[p].key \in CatKeys(k)
<1>1. S \subseteq DOMAIN k.cats
  BY DEF Eligible, Candidates
<1>2. DOMAIN k.cats \in SUBSET Int /\ IsFiniteSet(DOMAIN k.cats)
  BY SeqPositions DEF Routable
<1> QED  BY <1>1, <1>2, FS_Subset DEF Routable, CatKeys

LEMMA RuledPicks ==
  ASSUME NEW k, Routable(k.rules, k.cats), RuledPositions(k) # {}
  PROVE  \E pick : Picks(k, pick)
<1> DEFINE ruling == RuledPositions(k)
           order  == ByPriority(ruling, k.rules)
           N      == Cardinality(ruling)
           pick   == [n \in 1..N |-> RuleAt(k, order[n])]
<1>1. /\ ruling \in SUBSET Int /\ IsFiniteSet(ruling)
      /\ \A i \in ruling : k.rules[i].priority \in Int /\ Selects(k.rules[i], k.ctx, k.cats)
      /\ \A i, j \in ruling : k.rules[i].select = k.rules[j].select => i = j
  BY RulingFacts DEF RuledPositions
<1>2. /\ N \in Nat /\ order \in [1..N -> ruling] /\ DOMAIN order = 1..N
      /\ \A m, n \in 1..N : order[m] = order[n] => m = n
      /\ \A i \in ruling : \E n \in 1..N : order[n] = i
      /\ \A m, n \in 1..N : Before(k.rules, order[m], order[n]) => m < n
  BY <1>1, ByPrioritySorts
<1>3. N # 0
  BY <1>1, FS_EmptySet
<1>4. Ruled(k.rules, k.ctx, k.cats) = [n \in 1..N |-> k.rules[order[n]].select]
  BY <1>2 DEF Ruled, RuledPositions
<1>5. \A j \in ruling : k.rules[j].select \in CatKeys(k)
  BY <1>1 DEF Selects, CatKeys, Range
<1> HIDE DEF ruling, order, N
<1>6. /\ Ruled(k.rules, k.ctx, k.cats) \in [1..N -> CatKeys(k)]
      /\ Ruled(k.rules, k.ctx, k.cats) \in Seq(CatKeys(k))
      /\ Len(Ruled(k.rules, k.ctx, k.cats)) = N
  <2>1. \A n \in 1..N : k.rules[order[n]].select \in CatKeys(k)
    BY <1>2, <1>5
  <2>2. Ruled(k.rules, k.ctx, k.cats) \in [1..N -> CatKeys(k)]
    BY <1>4, <2>1
  <2> QED  BY <1>2, <2>2
<1>7. Chosen(k) = Ruled(k.rules, k.ctx, k.cats)
  <2>1. Ruled(k.rules, k.ctx, k.cats) # << >>
    BY <1>3, <1>6
  <2> QED  BY <2>1 DEF Chosen, Preferred
<1>8. /\ Chosen(k) \in Seq(CatKeys(k)) /\ Len(Chosen(k)) = N
      /\ \A n \in 1..N : Chosen(k)[n] = k.rules[order[n]].select
  BY <1>4, <1>6, <1>7
<1>9. \A n \in 1..N : /\ pick[n] = RuleAt(k, order[n]) /\ pick[n].tier = 1
                      /\ pick[n].key = Chosen(k)[n] /\ pick[n].key = k.rules[order[n]].select
                      /\ pick[n].priority = k.rules[order[n]].priority
  BY <1>8 DEF RuleAt
<1>10. pick \in [1..N -> Standing(k)]
  <2>1. \A j \in ruling : RuleAt(k, j) \in Standing(k)
    BY EntryFacts DEF ruling
  <2> QED  BY <1>2, <2>1
<1> HIDE DEF pick
<1>11. ASSUME NEW e \in Standing(k), e.tier = 1
       PROVE  \E j \in ruling, n \in 1..N : /\ order[n] = j /\ pick[n] = e
                                            /\ e.priority = k.rules[j].priority
  <2>1. PICK j \in ruling : e = RuleAt(k, j)
    BY <1>11, EntryFacts DEF ruling
  <2>2. PICK n \in 1..N : order[n] = j
    BY <1>2
  <2> QED  BY <1>9, <2>1, <2>2 DEF RuleAt
<1>12. \A m, n \in 1..N : Chosen(k)[m] = Chosen(k)[n] => m = n
  <2> SUFFICES ASSUME NEW m \in 1..N, NEW n \in 1..N, Chosen(k)[m] = Chosen(k)[n]
               PROVE  m = n
    OBVIOUS
  <2>1. order[m] \in ruling /\ order[n] \in ruling
    BY <1>2
  <2>2. k.rules[order[m]].select = k.rules[order[n]].select
    BY <1>8
  <2>3. order[m] = order[n]
    BY <1>1, <2>1, <2>2 DEF ruling
  <2> QED  BY <1>2, <2>3
<1>13. ASSUME NEW e \in Standing(k), NEW n \in 1..N, Outranks(e, pick[n])
       PROVE  \E m \in 1..(n - 1) : pick[m] = e
  <2>1. e.tier \in {0, 1}
    BY EntryFacts
  <2>2. e.tier = 1 /\ e.priority > pick[n].priority
    BY <1>9, <1>13, <2>1 DEF Outranks
  <2>3. PICK m \in 1..N : pick[m] = e
    BY <1>11, <2>2
  <2>4. Before(k.rules, order[m], order[n])
    BY <1>9, <2>2, <2>3 DEF Before
  <2>5. m < n
    BY <1>2, <2>4
  <2> QED  BY <1>2, <2>3, <2>5
<1>14. ASSUME NEW e \in Standing(k), NEW n \in 1..N, e.key = Chosen(k)[n]
       PROVE  pick[n] = e
  <2>1. pick[n] \in Standing(k) /\ pick[n].key = e.key /\ pick[n].tier = 1
    BY <1>9, <1>10, <1>14
  <2>2. pick[n] = e \/ pick[n].tier = 0
    BY <2>1, EntryFacts
  <2> QED  BY <2>1, <2>2
<1>15. \A e \in Standing(k) : e.tier = 1 => \E n \in 1..N : pick[n] = e
  BY <1>11
<1>16. Picks(k, pick)
  BY <1>3, <1>8, <1>9, <1>10, <1>12, <1>13, <1>14, <1>15 DEF Picks
<1> QED  BY <1>16

LEMMA ChosenFacts ==
  ASSUME NEW k, Routable(k.rules, k.cats)
  PROVE  \E pick : Picks(k, pick)
<1>1. CASE RuledPositions(k) # {}
  BY <1>1, RuledPicks
<1>2. CASE RuledPositions(k) = {}
  <2>1. Ruled(k.rules, k.ctx, k.cats) = << >>
    <3>1. Cardinality(Ruling(k.rules, k.ctx, k.cats)) = 0
      BY <1>2, FS_EmptySet DEF RuledPositions
    <3>2. DOMAIN ByPriority(Ruling(k.rules, k.ctx, k.cats), k.rules) = {}
      BY <3>1 DEF ByPriority
    <3> QED  BY <3>2 DEF Ruled
  <2>2. Chosen(k) = IF Eligible(k) = {} THEN << >>
                    ELSE <<k.cats[Best(Eligible(k), k.cats)].key>>
    BY <2>1 DEF Chosen, Preferred, Eligible
  <2>3. Unruled(k) = Eligible(k) /\ AllInPlay(k)
    BY <1>2 DEF Unruled, AllInPlay
  <2>4. \A e \in Standing(k) : e.tier = 0 /\ \E p \in Eligible(k) : e = RowEntry(k, p)
    BY <1>2, <2>3, EntryFacts
  <2>5. CASE Eligible(k) = {}
    <3>1. Chosen(k) = << >> /\ Standing(k) = {}
      BY <2>2, <2>4, <2>5
    <3>2. Len(Chosen(k)) = 0 /\ Chosen(k) \in Seq(CatKeys(k))
      BY <3>1
    <3>3. \A n \in 1..Len(Chosen(k)) : FALSE
      BY <3>2
    <3>4. [n \in 1..Len(Chosen(k)) |-> 0] \in [1..Len(Chosen(k)) -> Standing(k)]
      BY <3>3
    <3>5. Picks(k, [n \in 1..Len(Chosen(k)) |-> 0])
      BY <3>1, <3>2, <3>3, <3>4 DEF Picks
    <3> QED  BY <3>5
  <2>6. CASE Eligible(k) # {}
    <3> DEFINE q == Best(Eligible(k), k.cats)
               pick == <<RowEntry(k, q)>>
    <3>1. Chosen(k) = <<k.cats[q].key>>
      BY <2>2, <2>6
    <3>2. /\ Eligible(k) \in SUBSET Int /\ IsFiniteSet(Eligible(k))
          /\ \A p \in Eligible(k) : k.cats[p].priority \in Int /\ k.cats[p].key \in CatKeys(k)
      BY PositionFacts
    <3>3. q \in Eligible(k) /\ \A p \in Eligible(k) : k.cats[p].priority <= k.cats[q].priority
      BY <2>6, <3>2, BestIsBest
    <3> HIDE DEF q
    <3>4. RowEntry(k, q) \in Standing(k)
      BY <2>3, <3>3, EntryFacts
    <3>5. /\ Chosen(k) \in Seq(CatKeys(k)) /\ Len(Chosen(k)) = 1 /\ Chosen(k)[1] = k.cats[q].key
          /\ pick \in [1..1 -> Standing(k)] /\ pick[1] = RowEntry(k, q)
      BY <3>1, <3>2, <3>3, <3>4
    <3> HIDE DEF pick
    <3>6. /\ pick[1].key = k.cats[q].key /\ pick[1].tier = 0
          /\ pick[1].priority = k.cats[q].priority
      BY <3>5 DEF RowEntry
    <3>7. ASSUME NEW e \in Standing(k), Outranks(e, pick[1])
          PROVE  FALSE
      <4>1. PICK p \in Eligible(k) : e = RowEntry(k, p)
        BY <2>4
      <4>2. e.tier = 0 /\ e.priority = k.cats[p].priority
        BY <4>1 DEF RowEntry
      <4>3. k.cats[p].priority > k.cats[q].priority
        BY <3>6, <3>7, <4>2 DEF Outranks
      <4> QED  BY <3>2, <3>3, <4>3
    <3>8. \A n \in 1..1 : n = 1
      OBVIOUS
    <3>9. \A e \in Standing(k) : e.tier # 1
      BY <2>4
    <3>10. Picks(k, pick)
      BY <3>5, <3>6, <3>7, <3>8, <3>9 DEF Picks
    <3> QED  BY <3>10
  <2> QED  BY <2>5, <2>6
<1> QED  BY <1>1, <1>2

\* What the keys after them stand for: each row in play whose key is not chosen.
Spares(k, spare) ==
  LET M == Len(Spare(k))
  IN  /\ Spare(k) \in Seq(CatKeys(k)) /\ spare \in [1..M -> Standing(k)]
      /\ \A n \in 1..M : spare[n].key = Spare(k)[n] /\ Spare(k)[n] \notin Range(Chosen(k))
      /\ \A m, n \in 1..M : spare[m] = spare[n] => m = n
      /\ k.fallback.enabled => \A e \in Standing(k) :
           e.key \notin Range(Chosen(k)) => \E n \in 1..M : spare[n] = e
      /\ \A e \in Standing(k), n \in 1..M :
           e.key \notin Range(Chosen(k)) /\ Outranks(e, spare[n]) =>
             \E m \in 1..(n - 1) : spare[m] = e

\* No key of a rule is missing from the chosen ones.
LEMMA NamedAreChosen ==
  ASSUME NEW k, Routable(k.rules, k.cats)
  PROVE  \A e \in Standing(k) : e.tier = 1 => e.key \in Range(Chosen(k))
<1>1. PICK pick : Picks(k, pick)
  BY ChosenFacts
<1> SUFFICES ASSUME NEW e \in Standing(k), e.tier = 1
             PROVE  e.key \in Range(Chosen(k))
  OBVIOUS
<1>2. PICK n \in 1..Len(Chosen(k)) : pick[n] = e
  BY <1>1 DEF Picks
<1>3. e.key = Chosen(k)[n]
  BY <1>1, <1>2 DEF Picks
<1>4. n \in DOMAIN Chosen(k)
  BY <1>1 DEF Picks
<1> QED  BY <1>3, <1>4 DEF Range

LEMMA SpareFacts ==
  ASSUME NEW k, Routable(k.rules, k.cats)
  PROVE  \E spare : Spares(k, spare)
<1>1. CASE ~k.fallback.enabled
  <2>1. Spare(k) = << >>
    BY <1>1 DEF Spare
  <2>2. Len(Spare(k)) = 0 /\ Spare(k) \in Seq(CatKeys(k))
    BY <2>1
  <2>3. \A n \in 1..Len(Spare(k)) : FALSE
    BY <2>2
  <2>4. [n \in 1..Len(Spare(k)) |-> 0] \in [1..Len(Spare(k)) -> Standing(k)]
    BY <2>3
  <2>5. Spares(k, [n \in 1..Len(Spare(k)) |-> 0])
    BY <1>1, <2>2, <2>3, <2>4 DEF Spares
  <2> QED  BY <2>5
<1>2. CASE k.fallback.enabled
  <2> DEFINE unseen == {i \in Eligible(k) : k.cats[i].key \notin Range(Chosen(k))}
             order  == ByPriority(unseen, k.cats)
             N      == Cardinality(unseen)
             spare  == [n \in 1..N |-> RowEntry(k, order[n])]
  <2>1. \A i : i \in unseen <=> i \in Eligible(k) /\ k.cats[i].key \notin Range(Chosen(k))
    OBVIOUS
  <2>2. /\ unseen \in SUBSET Int /\ IsFiniteSet(unseen)
        /\ \A p \in unseen : k.cats[p].priority \in Int /\ k.cats[p].key \in CatKeys(k)
    BY PositionFacts
  <2>3. /\ N \in Nat /\ order \in [1..N -> unseen] /\ DOMAIN order = 1..N
        /\ \A m, n \in 1..N : order[m] = order[n] => m = n
        /\ \A i \in unseen : \E n \in 1..N : order[n] = i
        /\ \A m, n \in 1..N : Before(k.cats, order[m], order[n]) => m < n
    BY <2>2, ByPrioritySorts
  <2>4. Spare(k) = [n \in 1..N |-> k.cats[order[n]].key]
    BY <1>2, <2>3 DEF Spare, Extras, Eligible
  <2>5. \A p \in unseen : p \in Unruled(k) /\ RowEntry(k, p) \in Standing(k)
    <3>1. \A j \in RuledPositions(k) : k.rules[j].select \in Range(Chosen(k))
      <4> SUFFICES ASSUME NEW j \in RuledPositions(k)
                   PROVE  k.rules[j].select \in Range(Chosen(k))
        OBVIOUS
      <4>1. RuleAt(k, j) \in Standing(k)
        BY EntryFacts
      <4>2. RuleAt(k, j).tier = 1 /\ RuleAt(k, j).key = k.rules[j].select
        BY DEF RuleAt
      <4>3. RuleAt(k, j).key \in Range(Chosen(k))
        BY <4>1, <4>2, NamedAreChosen
      <4> QED  BY <4>2, <4>3
    <3>2. \A p \in unseen : p \in Unruled(k)
      BY <3>1 DEF Unruled
    <3>3. AllInPlay(k)
      BY <1>2 DEF AllInPlay
    <3> QED  BY <3>2, <3>3, EntryFacts
  <2> HIDE DEF unseen, order, N
  <2>6. /\ Spare(k) \in Seq(CatKeys(k)) /\ Len(Spare(k)) = N
        /\ \A n \in 1..N : Spare(k)[n] = k.cats[order[n]].key
    <3>1. \A n \in 1..N : k.cats[order[n]].key \in CatKeys(k)
      BY <2>2, <2>3
    <3>2. Spare(k) \in [1..N -> CatKeys(k)]
      BY <2>4, <3>1
    <3> QED  BY <2>3, <2>4, <3>2
  <2>7. \A n \in 1..N : /\ order[n] \in unseen /\ spare[n] = RowEntry(k, order[n])
                        /\ spare[n].key = Spare(k)[n] /\ spare[n].row = order[n]
                        /\ spare[n].tier = 0
                        /\ spare[n].priority = k.cats[order[n]].priority
    BY <2>3, <2>6 DEF RowEntry
  <2>8. spare \in [1..N -> Standing(k)]
    BY <2>3, <2>5
  <2> HIDE DEF spare
  <2>9. \A n \in 1..N : Spare(k)[n] \notin Range(Chosen(k))
    BY <2>1, <2>6, <2>7
  <2>10. \A m, n \in 1..N : spare[m] = spare[n] => m = n
    <3> SUFFICES ASSUME NEW m \in 1..N, NEW n \in 1..N, spare[m] = spare[n]
                 PROVE  m = n
      OBVIOUS
    <3>1. order[m] = order[n]
      BY <2>7
    <3> QED  BY <2>3, <3>1
  <2>11. ASSUME NEW e \in Standing(k), e.key \notin Range(Chosen(k))
         PROVE  \E n \in 1..N : spare[n] = e
    <3>1. PICK p \in Unruled(k) : e = RowEntry(k, p)
      BY <2>11, EntryFacts, NamedAreChosen
    <3>2. e.key = k.cats[p].key
      BY <3>1 DEF RowEntry
    <3>3. p \in unseen
      BY <2>1, <2>11, <3>2 DEF Unruled
    <3>4. PICK n \in 1..N : order[n] = p
      BY <2>3, <3>3
    <3> QED  BY <2>7, <3>1, <3>4
  <2>12. ASSUME NEW e \in Standing(k), NEW n \in 1..N,
                e.key \notin Range(Chosen(k)), Outranks(e, spare[n])
         PROVE  \E m \in 1..(n - 1) : spare[m] = e
    <3>1. PICK m \in 1..N : spare[m] = e
      BY <2>11, <2>12
    <3>2. k.cats[order[m]].priority > k.cats[order[n]].priority
      BY <2>7, <2>12, <3>1 DEF Outranks
    <3>3. m < n
      BY <2>3, <3>2 DEF Before
    <3> QED  BY <2>3, <3>1, <3>3
  <2>13. Spares(k, spare)
    BY <2>6, <2>7, <2>8, <2>9, <2>10, <2>11, <2>12 DEF Spares
  <2> QED  BY <2>13
<1> QED  BY <1>1, <1>2

\* A place in the whole list is a place in one of its parts.
LEMMA RoutedParts ==
  ASSUME NEW k, Routable(k.rules, k.cats)
  PROVE  LET first == Len(Chosen(k))
             whole == Len(Routed(k))
         IN  /\ first \in Nat /\ Len(Spare(k)) \in Nat /\ whole = first + Len(Spare(k))
             /\ Routed(k) \in Seq(CatKeys(k))
             /\ \A n \in 1..first : n \in 1..whole /\ Routed(k)[n] = Chosen(k)[n]
             /\ \A n \in 1..Len(Spare(k)) :
                  first + n \in 1..whole /\ Routed(k)[first + n] = Spare(k)[n]
             /\ \A n \in 1..whole :
                  n \in 1..first \/ (n - first \in 1..Len(Spare(k)) /\ n = first + (n - first))
<1>1. Chosen(k) \in Seq(CatKeys(k)) /\ Spare(k) \in Seq(CatKeys(k))
  BY ChosenFacts, SpareFacts DEF Picks, Spares
<1>2. Routed(k) = Chosen(k) \o Spare(k)
  BY DEF Routed, EvaluatePolicy, Chosen, Spare
<1> QED  BY <1>1, <1>2

\* The ranking: each place stands for an entry of its own, nothing before what
\* outranks it, and with fallback only entries of the first key are missing.
Sorts(k, entry) ==
  LET N == Len(Routed(k))
  IN  /\ N \in Nat /\ Routed(k) \in Seq(CatKeys(k)) /\ entry \in [1..N -> Standing(k)]
      /\ \A m, n \in 1..N : entry[m] = entry[n] => m = n
      /\ \A n \in 1..N : entry[n].key = Routed(k)[n]
      /\ \A n \in 1..N : n > 1 => Routed(k)[n] # Routed(k)[1]
      /\ k.fallback.enabled => \A e \in Standing(k) :
           e.key # Routed(k)[1] => \E n \in 1..N : entry[n] = e
      /\ \A e \in Standing(k), n \in 1..N : Outranks(e, entry[n]) =>
           n > 1 /\ (e.key = Routed(k)[1] \/ \E m \in 1..(n - 1) : entry[m] = e)

LEMMA RankingIsRight ==
  ASSUME NEW k, Routable(k.rules, k.cats)
  PROVE  \E entry : Sorts(k, entry)
<1> DEFINE r == Routed(k)
           L == Len(Chosen(k))
           M == Len(Spare(k))
           N == Len(r)
<1>1. /\ L \in Nat /\ M \in Nat /\ N = L + M
      /\ r \in Seq(CatKeys(k))
      /\ \A n \in 1..L : n \in 1..N /\ r[n] = Chosen(k)[n]
      /\ \A n \in 1..M : L + n \in 1..N /\ r[L + n] = Spare(k)[n]
      /\ \A n \in 1..N : n \in 1..L \/ (n - L \in 1..M /\ n = L + (n - L))
  BY RoutedParts
<1>2. PICK pick : Picks(k, pick)
  BY ChosenFacts
<1>3. PICK spare : Spares(k, spare)
  BY SpareFacts
<1>4. \A x : x \in Range(Chosen(k)) <=> \E n \in 1..L : Chosen(k)[n] = x
  <2>1. DOMAIN Chosen(k) = 1..L
    BY <1>2, SeqPositions DEF Picks
  <2> QED  BY <2>1 DEF Range
<1>5. /\ pick \in [1..L -> Standing(k)]
      /\ \A n \in 1..L : pick[n].key = Chosen(k)[n]
      /\ \A m, n \in 1..L : Chosen(k)[m] = Chosen(k)[n] => m = n
      /\ \A e \in Standing(k), n \in 1..L :
           Outranks(e, pick[n]) => \E m \in 1..(n - 1) : pick[m] = e
      /\ \A e \in Standing(k), n \in 1..L : e.key = Chosen(k)[n] => pick[n] = e \/ n = 1
      /\ Standing(k) # {} => L # 0
  BY <1>2 DEF Picks
<1>6. /\ spare \in [1..M -> Standing(k)]
      /\ \A n \in 1..M : spare[n].key = Spare(k)[n] /\ Spare(k)[n] \notin Range(Chosen(k))
      /\ \A m, n \in 1..M : spare[m] = spare[n] => m = n
      /\ k.fallback.enabled => \A e \in Standing(k) :
           e.key \notin Range(Chosen(k)) => \E n \in 1..M : spare[n] = e
      /\ \A e \in Standing(k), n \in 1..M :
           e.key \notin Range(Chosen(k)) /\ Outranks(e, spare[n]) =>
             \E m \in 1..(n - 1) : spare[m] = e
  BY <1>3 DEF Spares
<1> HIDE DEF r, L, M, N
<1> DEFINE entry == [n \in 1..N |-> IF n \in 1..L THEN pick[n] ELSE spare[n - L]]
<1>7. /\ \A n \in 1..L : entry[n] = pick[n]
      /\ \A n \in 1..M : L + n \notin 1..L /\ entry[L + n] = spare[n]
  <2>1. \A n \in 1..L : entry[n] = pick[n]
    BY <1>1
  <2>2. \A n \in 1..M : L + n \notin 1..L /\ (L + n) - L = n
    BY <1>1
  <2> QED  BY <1>1, <2>1, <2>2
<1>8. entry \in [1..N -> Standing(k)]
  <2>1. \A n \in 1..N : (IF n \in 1..L THEN pick[n] ELSE spare[n - L]) \in Standing(k)
    BY <1>1, <1>5, <1>6
  <2> QED  BY <2>1
<1> HIDE DEF entry
<1>9. \A n \in 1..N : \/ n \in 1..L /\ entry[n] = pick[n] /\ r[n] = Chosen(k)[n]
                      \/ /\ n \notin 1..L /\ n - L \in 1..M /\ n = L + (n - L)
                         /\ entry[n] = spare[n - L] /\ r[n] = Spare(k)[n - L]
  <2> SUFFICES ASSUME NEW n \in 1..N, n \notin 1..L
               PROVE  /\ n - L \in 1..M /\ n = L + (n - L)
                      /\ entry[n] = spare[n - L] /\ r[n] = Spare(k)[n - L]
    BY <1>1, <1>7
  <2>1. n - L \in 1..M /\ n = L + (n - L)
    BY <1>1
  <2> DEFINE i == n - L
  <2>2. i \in 1..M /\ n = L + i
    BY <2>1
  <2> HIDE DEF i
  <2>3. entry[L + i] = spare[i] /\ r[L + i] = Spare(k)[i]
    BY <1>1, <1>7, <2>2
  <2>4. entry[n] = spare[i] /\ r[n] = Spare(k)[i]
    BY <2>2, <2>3
  <2> QED  BY <2>1, <2>4 DEF i
<1>10. \A n \in 1..N : entry[n].key = r[n]
  BY <1>5, <1>6, <1>9
<1>11. \A n \in 1..N : n \in 1..L <=> r[n] \in Range(Chosen(k))
  BY <1>4, <1>6, <1>9
<1>12. ASSUME NEW m \in 1..N, NEW n \in 1..N, entry[m] = entry[n]
       PROVE  m = n
  <2>1. r[m] = r[n]
    BY <1>10, <1>12
  <2>2. CASE m \in 1..L
    <3>1. n \in 1..L
      BY <1>11, <2>1, <2>2
    <3> QED  BY <1>5, <1>9, <2>1, <2>2, <3>1
  <2>3. CASE m \notin 1..L
    <3>1. n \notin 1..L
      BY <1>11, <2>1, <2>3
    <3>2. m - L = n - L
      BY <1>6, <1>9, <1>12, <2>3, <3>1
    <3> QED  BY <1>1, <3>2
  <2> QED  BY <2>2, <2>3
<1>13. N # 0 => 1 \in 1..L /\ r[1] = Chosen(k)[1]
  <2>1. N # 0 => 1 \in 1..N
    BY <1>1
  <2>2. N # 0 => Standing(k) # {}
    BY <1>8, <2>1
  <2> QED  BY <1>1, <1>5, <2>2
<1>14. ASSUME NEW n \in 1..N, n > 1
       PROVE  r[n] # r[1]
  <2>1. 1 \in 1..L /\ r[1] = Chosen(k)[1] /\ 1 \in 1..N
    BY <1>1, <1>13
  <2>2. r[n] = r[1] => n \in 1..L
    BY <1>11, <2>1
  <2>3. n \in 1..L => r[n] = Chosen(k)[n]
    BY <1>1
  <2> QED  BY <1>5, <1>14, <2>1, <2>2, <2>3
<1>15. ASSUME NEW e \in Standing(k), e.key \in Range(Chosen(k)), e.key # r[1]
       PROVE  \E n \in 1..L : pick[n] = e
  <2>1. PICK n \in 1..L : e.key = Chosen(k)[n]
    BY <1>4, <1>15
  <2>2. N # 0
    BY <1>1, <2>1
  <2>3. n # 1
    BY <1>13, <1>15, <2>1, <2>2
  <2> QED  BY <1>5, <2>1, <2>3
<1>16. ASSUME k.fallback.enabled, NEW e \in Standing(k), e.key # r[1]
       PROVE  \E n \in 1..N : entry[n] = e
  <2>1. CASE e.key \in Range(Chosen(k))
    BY <1>1, <1>7, <1>15, <1>16, <2>1
  <2>2. CASE e.key \notin Range(Chosen(k))
    <3>1. PICK n \in 1..M : spare[n] = e
      BY <1>6, <1>16, <2>2
    <3>2. L + n \in 1..N /\ entry[L + n] = e
      BY <1>1, <1>7, <3>1
    <3> QED  BY <3>2
  <2> QED  BY <2>1, <2>2
<1>17. ASSUME NEW e \in Standing(k), NEW n \in 1..N, Outranks(e, entry[n])
       PROVE  n > 1 /\ (e.key = r[1] \/ \E m \in 1..(n - 1) : entry[m] = e)
  <2>1. CASE n \in 1..L
    <3>1. Outranks(e, pick[n])
      BY <1>7, <1>17, <2>1
    <3>2. PICK m \in 1..(n - 1) : pick[m] = e
      BY <1>5, <2>1, <3>1
    <3>3. m \in 1..L /\ n > 1
      BY <1>1, <2>1, <3>2
    <3> QED  BY <1>7, <3>2, <3>3
  <2>2. CASE n \notin 1..L
    <3>1. n - L \in 1..M /\ entry[n] = spare[n - L]
      BY <1>9, <2>2
    <3>2. n > 1 /\ \A m \in 1..L : m \in 1..(n - 1)
      BY <1>1, <1>13, <2>2
    <3>3. CASE e.key \in Range(Chosen(k))
      BY <1>7, <1>15, <3>2, <3>3
    <3>4. CASE e.key \notin Range(Chosen(k))
      <4>1. Outranks(e, spare[n - L])
        BY <1>17, <3>1
      <4>2. PICK m \in 1..((n - L) - 1) : spare[m] = e
        BY <1>6, <3>1, <3>4, <4>1
      <4>3. m \in 1..M /\ L + m \in 1..(n - 1)
        BY <1>1, <3>1, <4>2
      <4> QED  BY <1>7, <3>2, <4>2, <4>3
    <3> QED  BY <3>3, <3>4
  <2> QED  BY <2>1, <2>2
<1>18. Sorts(k, entry)
  BY <1>1, <1>8, <1>10, <1>12, <1>14, <1>16, <1>17 DEF Sorts, r, N
<1> QED  BY <1>18

-----------------------------------------------------------------------------
(* What authorization makes of the ranking                                 *)

LEMMA CutFacts ==
  ASSUME NEW S, NEW keys \in Seq(S), NEW f, f.max_attempts \in Nat
  PROVE  LET N == Len(keys)
         IN  /\ Limit(f) \in Nat \ {0}
             /\ Cut(keys, f) \in Seq(S)
             /\ Len(Cut(keys, f)) = IF N < Limit(f) THEN N ELSE Limit(f)
             /\ \A n \in 1..Len(Cut(keys, f)) : n \in 1..N /\ Cut(keys, f)[n] = keys[n]
<1> DEFINE N == Len(keys)
           L == IF N < Limit(f) THEN N ELSE Limit(f)
<1>1. N \in Nat /\ Limit(f) \in Nat \ {0} /\ L \in 0..N
  BY DEF Limit
<1>2. AttemptLimit(f) = Limit(f)
  BY DEF AttemptLimit, Clamp, Limit
<1>3. Clamp(N, 0, Limit(f)) = L
  BY <1>1 DEF Clamp
<1>4. Cut(keys, f) = SubSeq(keys, 1, L)
  BY <1>2, <1>3 DEF Cut
<1> HIDE DEF L
<1>5. /\ SubSeq(keys, 1, L) \in Seq(S) /\ Len(SubSeq(keys, 1, L)) = L
      /\ \A n \in 1..L : SubSeq(keys, 1, L)[n] = keys[n]
  BY <1>1
<1>6. \A n \in 1..L : n \in 1..N
  BY <1>1
<1> QED  BY <1>1, <1>4, <1>5, <1>6 DEF L

\* With fallback, only what else has the first key is not in the ranking.
LEMMA RankingIsComplete ==
  ASSUME NEW k, Routable(k.rules, k.cats), k.fallback.enabled,
         NEW entry, Sorts(k, entry), Len(Routed(k)) # 0
  PROVE  LET others == {e \in Standing(k) : e.key # Routed(k)[1]}
         IN  IsFiniteSet(others) /\ Len(Routed(k)) = 1 + Cardinality(others)
<1> DEFINE N == Len(Routed(k))
           others == {e \in Standing(k) : e.key # Routed(k)[1]}
           shown == others \union {entry[1]}
<1>1. /\ N \in Nat /\ entry \in [1..N -> Standing(k)]
      /\ \A m, n \in 1..N : entry[m] = entry[n] => m = n
      /\ \A n \in 1..N : entry[n].key = Routed(k)[n]
      /\ \A n \in 1..N : n > 1 => Routed(k)[n] # Routed(k)[1]
      /\ \A e \in Standing(k) : e.key # Routed(k)[1] => \E n \in 1..N : entry[n] = e
  BY DEF Sorts
<1>2. IsFiniteSet(others) /\ Cardinality(others) \in Nat
  <2>1. others \subseteq Standing(k) /\ IsFiniteSet(Standing(k))
    BY StandingFacts
  <2> QED  BY <2>1, FS_Subset, FS_CardinalityType
<1>3. 1 \in 1..N /\ entry[1] \notin others
  BY <1>1
<1>4. Cardinality(shown) = Cardinality(others) + 1
  BY <1>2, <1>3, FS_AddElement
<1>5. \A n \in 1..N : entry[n] \in shown
  BY <1>1
<1>6. \A e \in shown : \E n \in 1..N : entry[n] = e
  BY <1>1, <1>3
<1>7. entry \in Bijection(1..N, shown)
  <2>1. entry \in [1..N -> shown]
    BY <1>1, <1>5
  <2> QED  BY <1>1, <1>6, <2>1 DEF Bijection, Injection, Surjection, IsInjective
<1>8. ExistsBijection(1..N, shown)
  BY <1>7 DEF ExistsBijection
<1>9. Cardinality(shown) = N
  BY <1>1, <1>8, FS_CountingElements
<1> HIDE DEF shown, others, N
<1>10. N = 1 + Cardinality(others)
  BY <1>2, <1>4, <1>9
<1> QED  BY <1>2, <1>10 DEF others, N

\* What RoutesAreRanked says of one request.
RankedKeys(k) ==
  /\ k.keys # << >>
  /\ \E entry \in [DOMAIN k.keys -> Standing(k)] : Ranks(k, entry)
  /\ Len(k.keys) = IF 1 + Cardinality(Rivals(k)) < Limit(k.fallback)
                     THEN 1 + Cardinality(Rivals(k)) ELSE Limit(k.fallback)

\* evaluate_policy and the cut, for any rules, payment and rows, however many of
\* them share a key: the list has as many keys as there are to choose from and
\* fallback allows, each place for a named key or a row of its own, and what
\* outranks it earlier, unless its key is the first, which is not listed again.
THEOREM CutRankingIsRanked ==
  ASSUME NEW k, Routable(k.rules, k.cats), k.fallback.max_attempts \in Nat,
         Routed(k) # << >>, k.keys = Cut(Routed(k), k.fallback)
  PROVE  RankedKeys(k)
<1> DEFINE N == Len(Routed(k))
           L == Limit(k.fallback)
           others == {e \in Standing(k) : e.key # Routed(k)[1]}
<1>1. PICK all : Sorts(k, all)
  BY RankingIsRight
<1>2. /\ N \in Nat /\ Routed(k) \in Seq(CatKeys(k)) /\ all \in [1..N -> Standing(k)]
      /\ \A m, n \in 1..N : all[m] = all[n] => m = n
      /\ \A n \in 1..N : all[n].key = Routed(k)[n]
      /\ \A n \in 1..N : n > 1 => Routed(k)[n] # Routed(k)[1]
      /\ \A e \in Standing(k), n \in 1..N : Outranks(e, all[n]) =>
           n > 1 /\ (e.key = Routed(k)[1] \/ \E m \in 1..(n - 1) : all[m] = e)
  BY <1>1 DEF Sorts
<1>3. /\ L \in Nat \ {0}
      /\ k.keys \in Seq(CatKeys(k))
      /\ Len(k.keys) = IF N < L THEN N ELSE L
      /\ \A n \in 1..Len(k.keys) : n \in 1..N /\ k.keys[n] = Routed(k)[n]
  BY <1>2, CutFacts
<1>4. DOMAIN k.keys = 1..Len(k.keys) /\ Len(k.keys) \in Nat
  BY <1>3
<1>5. N # 0
  BY <1>2
<1>6. Len(k.keys) # 0 /\ k.keys[1] = Routed(k)[1] /\ k.keys # << >>
  BY <1>2, <1>3, <1>4, <1>5
<1>7. Rivals(k) = others
  BY <1>6 DEF Rivals
<1>8. Cardinality(others) \in Nat
  <2>1. others \subseteq Standing(k) /\ IsFiniteSet(Standing(k))
    BY StandingFacts
  <2> QED  BY <2>1, FS_Subset, FS_CardinalityType
<1>9. k.fallback.enabled => N = 1 + Cardinality(others)
  BY <1>1, <1>5, RankingIsComplete
<1>10. ~k.fallback.enabled => L = 1
  BY DEF Limit
<1> HIDE DEF N, L, others
<1>11. Len(k.keys) = IF 1 + Cardinality(others) < L THEN 1 + Cardinality(others) ELSE L
  <2>1. CASE k.fallback.enabled
    BY <1>3, <1>9, <2>1
  <2>2. CASE ~k.fallback.enabled
    BY <1>2, <1>3, <1>5, <1>8, <1>10, <2>2
  <2> QED  BY <2>1, <2>2
<1> DEFINE entry == [n \in DOMAIN k.keys |-> all[n]]
<1>12. entry \in [DOMAIN k.keys -> Standing(k)]
  BY <1>2, <1>3, <1>4
<1>13. \A n \in DOMAIN k.keys : entry[n] = all[n] /\ n \in 1..N /\ k.keys[n] = Routed(k)[n]
  BY <1>3, <1>4
<1>14. DOMAIN entry = DOMAIN k.keys
  OBVIOUS
<1> HIDE DEF entry
<1>15. IsInjective(entry)
  BY <1>2, <1>13, <1>14 DEF IsInjective
<1>16. ASSUME NEW i \in DOMAIN k.keys
       PROVE  /\ entry[i].key = k.keys[i] /\ (i > 1 => k.keys[i] # k.keys[1])
              /\ \A e \in Standing(k) : Outranks(e, entry[i]) =>
                   i > 1 /\ (e.key = k.keys[1] \/ \E j \in 1..(i - 1) : entry[j] = e)
  <2>1. entry[i].key = k.keys[i] /\ (i > 1 => k.keys[i] # k.keys[1])
    BY <1>2, <1>6, <1>13
  <2>2. \A j \in 1..(i - 1) : j \in DOMAIN k.keys
    BY <1>4
  <2>3. ASSUME NEW e \in Standing(k), Outranks(e, entry[i])
        PROVE  i > 1 /\ (e.key = k.keys[1] \/ \E j \in 1..(i - 1) : entry[j] = e)
    <3>1. i \in 1..N /\ Outranks(e, all[i])
      BY <1>13, <2>3
    <3>2. i > 1 /\ (e.key = Routed(k)[1] \/ \E m \in 1..(i - 1) : all[m] = e)
      BY <1>2, <3>1
    <3>3. \A m \in 1..(i - 1) : all[m] = entry[m]
      BY <1>13, <2>2
    <3> QED  BY <1>6, <3>2, <3>3
  <2> QED  BY <2>1, <2>3
<1>17. Ranks(k, entry)
  BY <1>15, <1>16 DEF Ranks
<1> QED  BY <1>6, <1>7, <1>11, <1>12, <1>17 DEF RankedKeys, L

\* Two places with one key stand for two rows of it.
LEMMA RepeatsAreRows ==
  ASSUME NEW k, Routable(k.rules, k.cats), RankedKeys(k),
         NEW i \in DOMAIN k.keys, NEW j \in DOMAIN k.keys, i # j, k.keys[i] = k.keys[j]
  PROVE  \E p, q \in DOMAIN k.cats :
           p # q /\ k.cats[p].key = k.keys[i] /\ k.cats[q].key = k.keys[i]
<1>1. PICK entry \in [DOMAIN k.keys -> Standing(k)] : Ranks(k, entry)
  BY DEF RankedKeys
<1>2. /\ entry[i] # entry[j] /\ entry[i] \in Standing(k) /\ entry[j] \in Standing(k)
      /\ entry[i].key = k.keys[i] /\ entry[j].key = k.keys[i]
  BY <1>1 DEF Ranks, IsInjective
<1>3. entry[i].tier = 0 /\ entry[j].tier = 0 /\ entry[i].row # entry[j].row
  BY <1>2, EntryFacts
<1>4. \A e \in Standing(k) : e.tier = 0 =>
        e.row \in DOMAIN k.cats /\ k.cats[e.row].key = e.key
  <2> SUFFICES ASSUME NEW e \in Standing(k), e.tier = 0
               PROVE  e.row \in DOMAIN k.cats /\ k.cats[e.row].key = e.key
    OBVIOUS
  <2>1. PICK p \in Unruled(k) : e = RowEntry(k, p)
    BY EntryFacts
  <2> QED  BY <2>1 DEF RowEntry, Unruled, Eligible, Candidates
<1> QED  BY <1>2, <1>3, <1>4

-----------------------------------------------------------------------------
(* The inductive invariant                                                 *)

\* Every rules_json the table can hold, and that a policy in force can be.
GivenRules ==
  {<< >>} \union {FirstPolicies[p].rules : p \in Policies}
          \union {patch.rules : patch \in {q \in PolicyPatches : Has(q, {"rules"})}}

\* routing_policies: every column stays, and updated_at orders all rows.
PolicyInv ==
  /\ DOMAIN policy = Policies
  /\ \A p \in Policies : /\ DOMAIN policy[p] = {"active", "rules", "fallback"}
                         /\ policy[p].active \in BOOLEAN /\ policy[p].rules \in GivenRules
  /\ recent \in SetToSeqs(Policies)

CountInv == edits \in 0..MaxEdits /\ starts \in 0..MaxStarts

\* configuration_ref: a replica that is sealing has a row for every plaintext
\* there is to seal, all it has are such plaintexts, and of a row no reference
\* was given for meanwhile they are the last one given.
RefInv ==
  /\ connector \in [Connectors -> [enabled: BOOLEAN, ref: Refs]]
  /\ sealing \in [Replicas -> SUBSET [id: Connectors, ref: Refs]]
  /\ sealed \in BOOLEAN /\ raced \subseteq Connectors /\ DOMAIN latest = Connectors
  /\ \A r \in Replicas : \A row \in sealing[r] :
       /\ Exposed(row.ref)
       /\ row.id \notin raced => row.ref.value = latest[row.id]
  /\ \A c \in Connectors \ raced : connector[c].ref.value = latest[c]
  /\ \A r \in Replicas, c \in Connectors :
       sealing[r] # {} /\ Exposed(connector[c].ref) =>
         \E row \in sealing[r] : row.id = c
  /\ sealed => \A c \in Connectors : ~Exposed(connector[c].ref)

Tries == [key: Keys, code: UNION {Outcomes(key) : key \in Keys}]

\* A request: its columns, and before it has a list it has asked nobody.
Shaped(k) ==
  /\ DOMAIN k = DOMAIN Idle
  /\ k.pc \in {"idle", "policy", "catalog", "ask", "done"} /\ k.barred \subseteq Keys
  /\ k.keys \in Seq(Keys) /\ k.tried \in Seq(Tries)
  /\ k.rules \in GivenRules /\ k.fallback.max_attempts \in 0..255
  /\ k.pc \notin {"ask", "done"} => k.keys = << >> /\ k.tried = << >>

\* Its list is the cut ranking of what it has read.
Listing(k) ==
  k.pc \in {"ask", "done"} =>
    /\ Routable(k.rules, k.cats) /\ Routed(k) # << >>
    /\ k.keys = Cut(Routed(k), k.fallback)

\* It asks from the top of the list, and has gone on where fallback allowed it.
Asking(k) ==
  /\ Len(k.tried) <= Len(k.keys)
  /\ k.pc = "ask" => Len(k.tried) < Len(k.keys)
  /\ \A i \in 1..Len(k.tried) :
       /\ k.tried[i].key = k.keys[i]
       /\ i < Len(k.tried) \/ k.pc = "ask" =>
            /\ k.fallback.enabled /\ i < Clamp(k.fallback.max_attempts, 1, 255)
            /\ k.tried[i].code \in k.fallback.codes

\* Nobody it is to pass over is in the list.
Passing(k) == \A i \in DOMAIN k.keys : k.keys[i] \notin k.barred

Fits(k) == Shaped(k) /\ Listing(k) /\ Asking(k) /\ Passing(k)

\* What is barred has no enabled row still.
CallInv ==
  /\ DOMAIN call = Requests
  /\ \A s \in Requests : Fits(call[s]) /\ call[s].barred \intersect EnabledKeys = {}

DeskInv == PolicyInv /\ CountInv /\ RefInv /\ CallInv

-----------------------------------------------------------------------------
(* Policies                                                                *)

TypedRules(rules) ==
  /\ rules \in Seq(Range(rules))
  /\ \A i \in ParseRules(rules) : rules[i].priority \in Int

LEMMA GivenRulesAreTyped ==
  \A rules \in GivenRules : TypedRules(rules)
<1> SUFFICES ASSUME NEW rules \in GivenRules
             PROVE  TypedRules(rules)
  OBVIOUS
<1>1. CASE rules = << >>
  <2>1. << >> \in Seq(Range(<< >>)) /\ ParseRules(<< >>) = {}
    BY DEF ParseRules
  <2> QED  BY <1>1, <2>1 DEF TypedRules
<1>2. CASE \E p \in Policies : rules = FirstPolicies[p].rules
  BY <1>2, RowAssumption DEF WellTyped, Has, TypedRules
<1>3. CASE \E patch \in PolicyPatches : Has(patch, {"rules"}) /\ rules = patch.rules
  BY <1>3, RowAssumption DEF WellTyped, TypedRules
<1> QED  BY <1>1, <1>2, <1>3 DEF GivenRules

\* updated_at is unique: the order holds each policy once.
LEMMA RecentFacts ==
  ASSUME NEW s \in SetToSeqs(Policies)
  PROVE  LET N == Cardinality(Policies)
         IN  /\ N \in Nat /\ s \in [1..N -> Policies]
             /\ \A i, j \in 1..N : s[i] = s[j] => i = j
             /\ \A p \in Policies : \E i \in 1..N : s[i] = p
<1> DEFINE N == Cardinality(Policies)
<1>1. N \in Nat
  BY RowAssumption, FS_CardinalityType
<1>2. s \in [1..N -> Policies] /\ \A i, j \in 1..N : i # j => s[i] # s[j]
  BY DEF SetToSeqs
<1>3. s \in Injection(1..N, Policies)
  BY <1>2 DEF Injection, IsInjective
<1>4. IsFiniteSet(1..N) /\ Cardinality(1..N) = N
  <2>1. Cardinality(1..N) = IF 1 > N THEN 0 ELSE N - 1 + 1
    BY <1>1, FS_Interval
  <2> QED  BY <1>1, <2>1, FS_Interval
<1>5. s \in Surjection(1..N, Policies)
  BY <1>3, <1>4, RowAssumption, FS_Injection
<1> QED  BY <1>1, <1>2, <1>5 DEF Surjection

\* A PATCH makes a policy the latest and leaves the order of the others.
LEMMA PatchedIsLatest ==
  ASSUME NEW s \in SetToSeqs(Policies), NEW p \in Policies
  PROVE  Append(RemoveFirst(s, p), p) \in SetToSeqs(Policies)
<1> DEFINE N == Cardinality(Policies)
           t == Append(RemoveFirst(s, p), p)
<1>1. /\ N \in Nat /\ s \in [1..N -> Policies]
      /\ \A i, j \in 1..N : s[i] = s[j] => i = j
  BY RecentFacts
<1>2. PICK i \in 1..N : s[i] = p
  BY RecentFacts
<1>3. s \in Seq(Policies) /\ Len(s) = N
  BY <1>1
<1>4. {j \in 1..Len(s) : s[j] = p} = {i}
  BY <1>1, <1>2, <1>3
<1>5. Min({i}) = i
  BY <1>2 DEF Min
<1>6. SelectInSeq(s, LAMBDA v : v = p) = i
  BY <1>4, <1>5 DEF SelectInSeq
<1>7. RemoveFirst(s, p) = SubSeq(s, 1, i - 1) \o SubSeq(s, i + 1, N)
  BY <1>2, <1>3, <1>6 DEF RemoveFirst, RemoveAt
<1> DEFINE before == SubSeq(s, 1, i - 1)
           after  == SubSeq(s, i + 1, N)
           u      == before \o after
<1> HIDE DEF N
<1>8. /\ before \in Seq(Policies) /\ Len(before) = i - 1
      /\ after \in Seq(Policies) /\ Len(after) = N - i
      /\ \A n \in 1..(i - 1) : before[n] = s[n]
      /\ \A n \in 1..(N - i) : after[n] = s[n + i]
  BY <1>1, <1>2, <1>3
<1> HIDE DEF before, after
<1>9. /\ u \in Seq(Policies) /\ Len(u) = N - 1
      /\ \A n \in 1..(i - 1) : u[n] = s[n]
      /\ \A n \in i..(N - 1) : u[n] = s[n + 1]
  <2>1. u \in Seq(Policies) /\ Len(u) = N - 1
    <3>1. before \o after \in Seq(Policies) /\ Len(before \o after) = Len(before) + Len(after)
      BY <1>8
    <3>2. (i - 1) + (N - i) = N - 1
      BY <1>1, <1>2
    <3> QED  BY <1>8, <3>1, <3>2
  <2>2. \A n \in 1..(i - 1) : u[n] = s[n]
    BY <1>1, <1>2, <1>8
  <2>3. ASSUME NEW n \in i..(N - 1)
        PROVE  u[n] = s[n + 1]
    <3>1. n - (i - 1) \in 1..(N - i) /\ (n - (i - 1)) + i = n + 1
      BY <1>1, <1>2, <2>3
    <3>2. u[n] = after[n - (i - 1)]
      BY <1>1, <1>2, <1>8, <2>3, <3>1
    <3> QED  BY <1>8, <3>1, <3>2
  <2> QED  BY <2>1, <2>2, <2>3
<1>10. /\ t = Append(u, p) /\ t \in Seq(Policies) /\ Len(t) = N
       /\ t[N] = p /\ \A n \in 1..(N - 1) : t[n] = u[n]
  <2>1. t = Append(u, p)
    BY <1>7 DEF before, after
  <2> HIDE DEF t, u
  <2> QED  BY <1>1, <1>2, <1>9, <2>1
<1> HIDE DEF t, u
<1>11. t \in [1..N -> Policies]
  <2>1. \A q \in Seq(Policies) : q \in [1..Len(q) -> Policies]
    OBVIOUS
  <2> QED  BY <1>10, <2>1
<1>12. \A n \in 1..N : \E m \in 1..N : /\ t[n] = s[m]
                                       /\ \/ n < i /\ m = n
                                          \/ n >= i /\ n < N /\ m = n + 1
                                          \/ n = N /\ m = i
  BY <1>1, <1>2, <1>9, <1>10
<1>13. \A m, n \in 1..N : t[m] = t[n] => m = n
  <2> SUFFICES ASSUME NEW m \in 1..N, NEW n \in 1..N, t[m] = t[n]
               PROVE  m = n
    OBVIOUS
  <2>1. PICK x \in 1..N : /\ t[m] = s[x]
                          /\ \/ m < i /\ x = m
                             \/ m >= i /\ m < N /\ x = m + 1
                             \/ m = N /\ x = i
    BY <1>12
  <2>2. PICK y \in 1..N : /\ t[n] = s[y]
                          /\ \/ n < i /\ y = n
                             \/ n >= i /\ n < N /\ y = n + 1
                             \/ n = N /\ y = i
    BY <1>12
  <2>3. x = y
    BY <1>1, <2>1, <2>2
  <2> QED  BY <1>1, <1>2, <2>1, <2>2, <2>3
<1>14. t \in SetToSeqs(Policies)
  BY <1>11, <1>13 DEF SetToSeqs, N
<1> QED  BY <1>14 DEF t

LEMMA PatchesKeepColumns ==
  ASSUME PolicyInv, NEW p \in Policies, NEW patch \in PolicyPatches, UpdatePolicy(p, patch)
  PROVE  PolicyInv'
<1> DEFINE row == Coalesce(patch, policy[p])
<1>1. /\ DOMAIN policy = Policies /\ DOMAIN policy[p] = {"active", "rules", "fallback"}
      /\ policy[p].active \in BOOLEAN /\ policy[p].rules \in GivenRules
  BY DEF PolicyInv
<1>2. /\ DOMAIN row = {"active", "rules", "fallback"}
      /\ row.active = (IF "active" \in DOMAIN patch THEN patch.active ELSE policy[p].active)
      /\ row.rules = (IF "rules" \in DOMAIN patch THEN patch.rules ELSE policy[p].rules)
  BY <1>1 DEF Coalesce
<1>3. row.active \in BOOLEAN
  BY <1>1, <1>2, RowAssumption DEF WellTyped, Has
<1>4. row.rules \in GivenRules
  BY <1>1, <1>2 DEF GivenRules, Has
<1>5. policy' = [policy EXCEPT ![p] = row]
  BY DEF UpdatePolicy
<1> HIDE DEF row
<1>6. /\ DOMAIN policy' = Policies
      /\ \A q \in Policies : policy'[q] = IF q = p THEN row ELSE policy[q]
  BY <1>1, <1>5
<1>7. recent' \in SetToSeqs(Policies)
  BY PatchedIsLatest DEF UpdatePolicy, PolicyInv
<1> QED  BY <1>2, <1>3, <1>4, <1>6, <1>7 DEF PolicyInv

\* The policy in force, or the default, has rules and a limit.
LEMMA InForceFacts ==
  ASSUME PolicyInv
  PROVE  InForce.rules \in GivenRules /\ InForce.fallback.max_attempts \in 0..255
<1>1. \A json : FallbackSpec(json).max_attempts \in 0..255
  BY DEF FallbackSpec, DefaultFallback
<1>2. CASE ActivePolicies = {}
  BY <1>2 DEF InForce, DefaultFallback, GivenRules
<1>3. CASE ActivePolicies # {}
  <2>1. DOMAIN recent \in SUBSET Int /\ IsFiniteSet(DOMAIN recent)
    <3>1. recent \in [1..Cardinality(Policies) -> Policies] /\ Cardinality(Policies) \in Nat
      BY RecentFacts DEF PolicyInv
    <3> QED  BY <3>1, FS_Interval
  <2>2. ActivePolicies \in SUBSET Int /\ IsFiniteSet(ActivePolicies)
    BY <2>1, FS_Subset DEF ActivePolicies
  <2>3. Max(ActivePolicies) \in ActivePolicies
    BY <1>3, <2>2, MaxOfPositions
  <2>4. recent[Max(ActivePolicies)] \in Policies
    <3>1. recent \in [1..Cardinality(Policies) -> Policies]
      BY RecentFacts DEF PolicyInv
    <3> QED  BY <2>3, <3>1 DEF ActivePolicies
  <2>5. /\ InForce.rules = policy[recent[Max(ActivePolicies)]].rules
        /\ InForce.fallback = FallbackSpec(policy[recent[Max(ActivePolicies)]].fallback)
    BY <1>3 DEF InForce
  <2> QED  BY <1>1, <2>4, <2>5 DEF PolicyInv
<1> QED  BY <1>2, <1>3

-----------------------------------------------------------------------------
(* References                                                              *)

LEMMA GivenRefs ==
  /\ \A c \in Connectors : Plain(FirstRefs[c]) \in Refs
  /\ \A patch \in ConnectorPatches : Has(patch, {"ref"}) => Plain(patch.ref) \in Refs
  /\ \A ref \in Refs : /\ ref.wraps \in {0, 1} /\ Seal(ref) \in Refs
                       /\ IsEnvelope(Seal(ref)) /\ Seal(ref).value = ref.value
<1>1. ASSUME NEW ref \in Refs
      PROVE  /\ ref.wraps \in {0, 1} /\ Seal(ref) \in Refs
             /\ IsEnvelope(Seal(ref)) /\ Seal(ref).value = ref.value
  BY <1>1 DEF Refs, Seal, IsEnvelope
<1>2. \A c \in Connectors : Plain(FirstRefs[c]) \in Refs
  BY DEF Refs, Plain
<1>3. \A patch \in ConnectorPatches : Has(patch, {"ref"}) => Plain(patch.ref) \in Refs
  BY DEF Refs, Plain
<1> QED  BY <1>1, <1>2, <1>3

LEMMA InsertedRefsFit ==
  Init => RefInv
<1> SUFFICES ASSUME Init
             PROVE  RefInv
  OBVIOUS
<1>1. PICK hasKey \in BOOLEAN :
        connector = [c \in Connectors |-> Inserted(FirstRefs[c], hasKey)]
  BY DEF Init
<1>2. \A c \in Connectors : /\ Plain(FirstRefs[c]) \in Refs
                            /\ Seal(Plain(FirstRefs[c])) \in Refs
                            /\ Seal(Plain(FirstRefs[c])).value = FirstRefs[c]
                            /\ Plain(FirstRefs[c]).value = FirstRefs[c]
  BY GivenRefs DEF Plain
<1>3. \A c \in Connectors : /\ connector[c] \in [enabled: BOOLEAN, ref: Refs]
                            /\ connector[c].ref.value = FirstRefs[c]
  BY <1>1, <1>2 DEF Inserted
<1>4. connector \in [Connectors -> [enabled: BOOLEAN, ref: Refs]]
  BY <1>1, <1>3
<1> QED  BY <1>3, <1>4, RowAssumption DEF Init, RefInv

LEMMA EnvelopesAreNotExposed ==
  ASSUME NEW ref, IsEnvelope(ref)
  PROVE  ~Exposed(ref)
BY DEF Exposed

\* A new reference is sealed in every row of the key, and a replica that holds
\* the plaintext it replaces makes the race known.
LEMMA UpdatesKeepRefs ==
  ASSUME RefInv, NEW r \in Replicas, NEW key \in Keys, NEW patch \in ConnectorPatches,
         UpdateConnector(r, key, patch)
  PROVE  RefInv'
<1> DEFINE given == Has(patch, {"ref"})
           rows  == {c \in Connectors : Catalog[c].key = key}
<1>1. /\ connector' = [c \in Connectors |->
                        IF c \in rows THEN Rewritten(connector[c], patch) ELSE connector[c]]
      /\ latest' = [c \in Connectors |->
                     IF given /\ c \in rows THEN patch.ref ELSE latest[c]]
      /\ raced' = IF given THEN (raced \ rows) \union {c \in rows : Held(c)} ELSE raced
      /\ sealing' = sealing /\ sealed' = sealed
  BY DEF UpdateConnector
<1>2. \A c \in Connectors : connector[c].enabled \in BOOLEAN /\ connector[c].ref \in Refs
  BY DEF RefInv
<1>3. ASSUME NEW c \in Connectors
      PROVE  LET row == Rewritten(connector[c], patch)
             IN  /\ row \in [enabled: BOOLEAN, ref: Refs]
                 /\ given => IsEnvelope(row.ref) /\ row.ref.value = patch.ref
                 /\ ~given => row.ref = connector[c].ref
  <2> DEFINE row == Rewritten(connector[c], patch)
  <2>1. row.enabled \in BOOLEAN
    BY <1>2, RowAssumption DEF Rewritten
  <2>2. CASE given
    <3>1. row.ref = Seal(Plain(patch.ref))
      BY <2>2 DEF Rewritten, SealConnectorRef
    <3>2. Plain(patch.ref) \in Refs /\ Plain(patch.ref).value = patch.ref
      BY <2>2, GivenRefs DEF Plain
    <3>3. row.ref \in Refs /\ IsEnvelope(row.ref) /\ row.ref.value = patch.ref
      BY <3>1, <3>2, GivenRefs
    <3> QED  BY <2>1, <2>2, <3>3 DEF Rewritten
  <2>3. CASE ~given
    BY <1>2, <2>1, <2>3 DEF Rewritten
  <2> QED  BY <2>2, <2>3
<1>4. rows \subseteq Connectors
  OBVIOUS
<1> HIDE DEF rows
<1>5. /\ connector' \in [Connectors -> [enabled: BOOLEAN, ref: Refs]]
      /\ \A c \in Connectors : IF given /\ c \in rows
           THEN IsEnvelope(connector'[c].ref) /\ connector'[c].ref.value = patch.ref
           ELSE connector'[c].ref = connector[c].ref
  <2>1. \A c \in Connectors :
          connector'[c] = IF c \in rows THEN Rewritten(connector[c], patch) ELSE connector[c]
    BY <1>1
  <2>2. \A c \in Connectors : connector[c] \in [enabled: BOOLEAN, ref: Refs]
    BY DEF RefInv
  <2>3. \A c \in Connectors : connector'[c] \in [enabled: BOOLEAN, ref: Refs]
    BY <1>3, <2>1, <2>2
  <2>4. connector' \in [Connectors -> [enabled: BOOLEAN, ref: Refs]]
    BY <1>1, <2>1, <2>3
  <2> QED  BY <1>3, <2>1, <2>4
<1>6. /\ DOMAIN latest' = Connectors
      /\ \A c \in Connectors : latest'[c] = IF given /\ c \in rows THEN patch.ref ELSE latest[c]
  BY <1>1
<1>7. /\ raced' \subseteq Connectors
      /\ \A c \in Connectors : IF given /\ c \in rows THEN c \in raced' <=> Held(c)
                                                      ELSE c \in raced' <=> c \in raced
  BY <1>1, <1>4 DEF RefInv
<1>8. \A q \in Replicas : \A held \in sealing'[q] :
        /\ Exposed(held.ref) /\ held.id \in Connectors
        /\ held.id \notin raced' => held.ref.value = latest'[held.id]
  <2> SUFFICES ASSUME NEW q \in Replicas, NEW held \in sealing[q]
               PROVE  /\ Exposed(held.ref) /\ held.id \in Connectors
                      /\ held.id \notin raced' => held.ref.value = latest'[held.id]
    BY <1>1
  <2>1. Exposed(held.ref) /\ held.id \in Connectors
    BY DEF RefInv
  <2>2. held.id \notin raced => held.ref.value = latest[held.id]
    BY DEF RefInv
  <2>3. CASE given /\ held.id \in rows
    <3>1. Held(held.id)
      BY <2>1 DEF Held, Exposed
    <3> QED  BY <1>7, <2>1, <2>3, <3>1
  <2>4. CASE ~(given /\ held.id \in rows)
    BY <1>6, <1>7, <2>1, <2>2, <2>4
  <2> QED  BY <2>3, <2>4
<1>9. \A c \in Connectors \ raced' : connector'[c].ref.value = latest'[c]
  <2> SUFFICES ASSUME NEW c \in Connectors \ raced'
               PROVE  connector'[c].ref.value = latest'[c]
    OBVIOUS
  <2>1. c \notin raced => connector[c].ref.value = latest[c]
    BY DEF RefInv
  <2>2. CASE given /\ c \in rows
    BY <1>5, <1>6, <2>2
  <2>3. CASE ~(given /\ c \in rows)
    BY <1>5, <1>6, <1>7, <2>1, <2>3
  <2> QED  BY <2>2, <2>3
<1>10. \A c \in Connectors : Exposed(connector'[c].ref) => Exposed(connector[c].ref)
  BY <1>5, EnvelopesAreNotExposed
<1>11. /\ sealing' \in [Replicas -> SUBSET [id: Connectors, ref: Refs]] /\ sealed' \in BOOLEAN
       /\ \A q \in Replicas, c \in Connectors :
            sealing'[q] # {} /\ Exposed(connector'[c].ref) =>
              \E row \in sealing'[q] : row.id = c
       /\ sealed' => \A c \in Connectors : ~Exposed(connector'[c].ref)
  BY <1>1, <1>10 DEF RefInv
<1> QED  BY <1>5, <1>6, <1>7, <1>8, <1>9, <1>11 DEF RefInv, Exposed, IsEnvelope

\* A replica that starts reads every plaintext there is to seal.
LEMMA StartsKeepRefs ==
  ASSUME RefInv, NEW r \in Replicas, StartReplica(r)
  PROVE  RefInv'
<1>1. /\ sealing' = [sealing EXCEPT ![r] = ReadRefs(Sealable)]
      /\ sealed' = (sealed \/ sealing'[r] = {})
      /\ connector' = connector /\ latest' = latest /\ raced' = raced
  BY DEF StartReplica
<1>2. /\ \A row \in ReadRefs(Sealable) :
           /\ row \in [id: Connectors, ref: Refs] /\ Exposed(row.ref)
           /\ row.ref = connector[row.id].ref
      /\ \A c \in Connectors : Exposed(connector[c].ref) =>
           \E row \in ReadRefs(Sealable) : row.id = c
  <2>1. \A c \in Connectors : connector[c].ref \in Refs
    BY DEF RefInv
  <2>2. ASSUME NEW row \in ReadRefs(Sealable)
        PROVE  /\ row \in [id: Connectors, ref: Refs] /\ Exposed(row.ref)
               /\ row.ref = connector[row.id].ref
    <3>1. PICK c \in Sealable : row = [id |-> c, ref |-> connector[c].ref]
      BY <2>2 DEF ReadRefs
    <3>2. c \in Connectors /\ Exposed(connector[c].ref)
      BY DEF Sealable
    <3> QED  BY <2>1, <3>1, <3>2
  <2>3. ASSUME NEW c \in Connectors, Exposed(connector[c].ref)
        PROVE  \E row \in ReadRefs(Sealable) : row.id = c
    <3>1. [id |-> c, ref |-> connector[c].ref] \in ReadRefs(Sealable)
      BY <2>3 DEF ReadRefs, Sealable
    <3> QED  BY <3>1
  <2> QED  BY <2>2, <2>3
<1>3. /\ sealing' \in [Replicas -> SUBSET [id: Connectors, ref: Refs]]
      /\ sealing'[r] = ReadRefs(Sealable)
      /\ \A q \in Replicas \ {r} : sealing'[q] = sealing[q]
  BY <1>1, <1>2 DEF RefInv
<1>4. \A q \in Replicas : \A row \in sealing'[q] :
        /\ Exposed(row.ref)
        /\ row.id \notin raced => row.ref.value = latest[row.id]
  BY <1>2, <1>3 DEF RefInv
<1>5. \A q \in Replicas, c \in Connectors :
        sealing'[q] # {} /\ Exposed(connector[c].ref) =>
          \E row \in sealing'[q] : row.id = c
  BY <1>2, <1>3 DEF RefInv
<1>6. sealing'[r] = {} => \A c \in Connectors : ~Exposed(connector[c].ref)
  BY <1>2, <1>3
<1> QED  BY <1>1, <1>3, <1>4, <1>5, <1>6 DEF RefInv, Exposed, IsEnvelope

\* The row is sealed, the reference in it the one that was read.
LEMMA SealsKeepRefs ==
  ASSUME RefInv, NEW r \in Replicas, SealRow(r)
  PROVE  RefInv'
<1>1. PICK row \in sealing[r] :
        /\ connector' = [connector EXCEPT ![row.id].ref = Seal(row.ref)]
        /\ sealing' = [sealing EXCEPT ![r] = sealing[r] \ {row}]
        /\ sealed' = (sealed \/ sealing'[r] = {})
        /\ latest' = latest /\ raced' = raced
  BY DEF SealRow
<1>2. /\ row.id \in Connectors /\ row.ref \in Refs
      /\ row.id \notin raced => row.ref.value = latest[row.id]
  BY DEF RefInv
<1>3. Seal(row.ref) \in Refs /\ IsEnvelope(Seal(row.ref)) /\ Seal(row.ref).value = row.ref.value
  BY <1>2, GivenRefs
<1>4. /\ connector' \in [Connectors -> [enabled: BOOLEAN, ref: Refs]]
      /\ connector'[row.id].ref = Seal(row.ref)
      /\ \A c \in Connectors \ {row.id} : connector'[c] = connector[c]
  BY <1>1, <1>2, <1>3 DEF RefInv
<1>5. /\ sealing' \in [Replicas -> SUBSET [id: Connectors, ref: Refs]]
      /\ sealing'[r] = sealing[r] \ {row}
      /\ \A q \in Replicas \ {r} : sealing'[q] = sealing[q]
  BY <1>1 DEF RefInv
<1>6. \A c \in Connectors : Exposed(connector'[c].ref) =>
        c # row.id /\ Exposed(connector[c].ref)
  BY <1>3, <1>4, EnvelopesAreNotExposed
<1>7. \A q \in Replicas : \A held \in sealing'[q] :
        /\ Exposed(held.ref)
        /\ held.id \notin raced => held.ref.value = latest[held.id]
  BY <1>5 DEF RefInv
<1>8. \A c \in Connectors \ raced : connector'[c].ref.value = latest[c]
  BY <1>2, <1>3, <1>4 DEF RefInv
<1>9. \A q \in Replicas, c \in Connectors :
        sealing[q] # {} /\ Exposed(connector'[c].ref) =>
          \E held \in sealing'[q] : held.id = c
  <2> SUFFICES ASSUME NEW q \in Replicas, NEW c \in Connectors,
                      sealing[q] # {}, Exposed(connector'[c].ref)
               PROVE  \E held \in sealing'[q] : held.id = c
    OBVIOUS
  <2>1. c # row.id /\ Exposed(connector[c].ref)
    BY <1>6
  <2>2. PICK held \in sealing[q] : held.id = c
    BY <2>1 DEF RefInv
  <2> QED  BY <1>5, <2>1, <2>2
<1>10. sealing'[r] = {} => \A c \in Connectors : ~Exposed(connector'[c].ref)
  BY <1>9
<1>11. \A q \in Replicas : sealing'[q] # {} => sealing[q] # {}
  BY <1>5
<1>12. sealed' => \A c \in Connectors : ~Exposed(connector'[c].ref)
  <2>1. sealed => \A c \in Connectors : ~Exposed(connector'[c].ref)
    BY <1>6 DEF RefInv
  <2> QED  BY <1>1, <1>10, <2>1
<1>13. /\ sealed' \in BOOLEAN /\ raced' \subseteq Connectors /\ DOMAIN latest' = Connectors
  BY <1>1 DEF RefInv
<1>14. \A q \in Replicas, c \in Connectors :
         sealing'[q] # {} /\ Exposed(connector'[c].ref) =>
           \E held \in sealing'[q] : held.id = c
  BY <1>9, <1>11
<1> QED
  BY <1>1, <1>4, <1>5, <1>7, <1>8, <1>12, <1>13, <1>14 DEF RefInv, Exposed, IsEnvelope

LEMMA StopsKeepRefs ==
  ASSUME RefInv, NEW r \in Replicas, StopSealing(r)
  PROVE  RefInv'
<1>1. /\ sealing' = [sealing EXCEPT ![r] = {}]
      /\ connector' = connector /\ latest' = latest /\ raced' = raced /\ sealed' = sealed
  BY DEF StopSealing
<1>2. /\ sealing' \in [Replicas -> SUBSET [id: Connectors, ref: Refs]]
      /\ sealing'[r] = {} /\ \A q \in Replicas \ {r} : sealing'[q] = sealing[q]
  BY <1>1 DEF RefInv
<1> QED  BY <1>1, <1>2 DEF RefInv

LEMMA OthersKeepRefs ==
  ASSUME RefInv, UNCHANGED <<connector, sealing, sealed, latest, raced>>
  PROVE  RefInv'
BY DEF RefInv

-----------------------------------------------------------------------------
(* Requests                                                                *)

LEMMA IdleFits ==
  Fits(Idle) /\ Idle.barred = {}
<1>1. Shaped(Idle)
  BY DEF Shaped, Idle, GivenRules, DefaultFallback
<1>2. Listing(Idle) /\ Asking(Idle) /\ Passing(Idle)
  BY DEF Listing, Asking, Passing, Idle
<1> QED  BY <1>1, <1>2 DEF Fits, Idle

\* A request is over once nothing is barred and its lists are empty, and while
\* it reads it has no list at all.
LEMMA ReadersFit ==
  ASSUME NEW k, Shaped(k), k.pc \notin {"ask", "done"}
  PROVE  Fits(k)
BY DEF Fits, Shaped, Listing, Asking, Passing

LEMMA BeginningsFit ==
  ASSUME NEW s \in Requests, NEW ctx, CallInv, Begin(s, ctx)
  PROVE  CallInv'
<1> DEFINE k == [Idle EXCEPT !.pc = "policy", !.ctx = ctx, !.barred = Keys \ EnabledKeys]
<1>1. /\ DOMAIN k = DOMAIN Idle /\ k.pc = "policy" /\ k.barred = Keys \ EnabledKeys
      /\ k.keys = Idle.keys /\ k.tried = Idle.tried /\ k.rules = Idle.rules
      /\ k.fallback = Idle.fallback
  BY DEF Idle
<1>2. call' = [call EXCEPT ![s] = k] /\ connector' = connector
  BY DEF Begin
<1> HIDE DEF k
<1>3. Fits(k)
  <2>1. Shaped(Idle) /\ Idle.pc = "idle"
    BY IdleFits DEF Fits, Idle
  <2>2. Shaped(k)
    BY <1>1, <2>1 DEF Shaped
  <2> QED  BY <1>1, <2>2, ReadersFit
<1>4. k.barred \intersect EnabledKeys = {} /\ EnabledKeys' = EnabledKeys
  BY <1>1, <1>2 DEF Enabled, EnabledKeys
<1> QED  BY <1>2, <1>3, <1>4 DEF CallInv

LEMMA ReadersKeepFitting ==
  ASSUME NEW s \in Requests, PolicyInv, CallInv, ReadPolicy(s)
  PROVE  CallInv'
<1> DEFINE k == [call[s] EXCEPT !.pc = "catalog", !.rules = InForce.rules,
                                !.fallback = InForce.fallback]
<1>1. Shaped(call[s]) /\ call[s].pc = "policy" /\ call[s].barred \intersect EnabledKeys = {}
  BY DEF CallInv, Fits, ReadPolicy, At
<1>2. DOMAIN call[s] = {"pc", "ctx", "barred", "rules", "fallback", "cats", "keys", "tried"}
  BY <1>1 DEF Shaped, Idle
<1>3. /\ DOMAIN k = DOMAIN call[s] /\ k.pc = "catalog" /\ k.rules = InForce.rules
      /\ k.fallback = InForce.fallback /\ k.barred = call[s].barred
      /\ k.keys = call[s].keys /\ k.tried = call[s].tried
  BY <1>2
<1>4. call' = [call EXCEPT ![s] = k] /\ connector' = connector
  BY DEF ReadPolicy
<1> HIDE DEF k
<1>5. Fits(k)
  <2>1. Shaped(k)
    BY <1>1, <1>3, InForceFacts DEF Shaped
  <2> QED  BY <1>3, <2>1, ReadersFit
<1>6. k.barred \intersect EnabledKeys = {} /\ EnabledKeys' = EnabledKeys
  BY <1>1, <1>3, <1>4 DEF Enabled, EnabledKeys
<1> QED  BY <1>4, <1>5, <1>6 DEF CallInv

\* The rows of the enabled connectors, whatever their order and their keys.
LEMMA RowsAreRoutable ==
  ASSUME NEW order \in SetToSeqs(Listed), NEW rules \in GivenRules
  PROVE  LET cats == [i \in DOMAIN order |-> Snapshot(order[i])]
         IN  /\ Routable(rules, cats)
             /\ \A i \in DOMAIN cats : cats[i].key \in EnabledKeys
<1> DEFINE cats == [i \in DOMAIN order |-> Snapshot(order[i])]
           N    == Cardinality(Listed)
<1>1. N \in Nat /\ Listed \subseteq Connectors
  BY RowAssumption, FS_Subset, FS_CardinalityType DEF Listed, Enabled
<1>2. order \in [1..N -> Listed]
  BY DEF SetToSeqs
<1> HIDE DEF N
<1>3. /\ DOMAIN cats = 1..N
      /\ \A i \in 1..N : /\ order[i] \in Listed /\ cats[i].key = Catalog[order[i]].key
                         /\ cats[i].priority = Catalog[order[i]].priority
  BY <1>2 DEF Snapshot
<1>4. cats \in [1..N -> Range(cats)]
  BY <1>2 DEF Range
<1>5. cats \in Seq(Range(cats))
  BY <1>1, <1>4
<1> HIDE DEF cats
<1>6. \A i \in DOMAIN cats : cats[i].priority \in Int
  BY <1>1, <1>3, RowAssumption
<1>7. rules \in Seq(Range(rules)) /\ \A i \in ParseRules(rules) : rules[i].priority \in Int
  BY GivenRulesAreTyped DEF TypedRules
<1>8. Routable(rules, cats)
  BY <1>5, <1>6, <1>7 DEF Routable
<1>9. \A i \in DOMAIN cats : cats[i].key \in EnabledKeys
  BY <1>3 DEF EnabledKeys, Listed
<1> QED  BY <1>8, <1>9 DEF cats

LEMMA EnabledKeysAreKeys ==
  EnabledKeys \subseteq Keys
BY DEF EnabledKeys, Enabled, Keys

LEMMA ListsFit ==
  ASSUME NEW s \in Requests, CallInv, ListEnabled(s)
  PROVE  CallInv'
<1> DEFINE k == call[s]
<1>1. PICK order \in SetToSeqs(Listed) :
        LET cats   == [i \in DOMAIN order |-> Snapshot(order[i])]
            ranked == EvaluatePolicy(k.rules, k.fallback, k.ctx, cats)
        IN  call' = [call EXCEPT ![s] =
                       IF ranked = << >>
                         THEN Idle
                         ELSE [k EXCEPT !.pc = "ask", !.cats = cats,
                                        !.keys = Cut(ranked, k.fallback)]]
  BY DEF ListEnabled
<1> DEFINE cats   == [i \in DOMAIN order |-> Snapshot(order[i])]
           ranked == EvaluatePolicy(k.rules, k.fallback, k.ctx, cats)
           listed == [k EXCEPT !.pc = "ask", !.cats = cats,
                               !.keys = Cut(ranked, k.fallback)]
<1>2. call' = [call EXCEPT ![s] = IF ranked = << >> THEN Idle ELSE listed]
  BY <1>1
<1>3. connector' = connector /\ EnabledKeys' = EnabledKeys
  BY DEF ListEnabled, Enabled, EnabledKeys
<1>4. /\ Shaped(k) /\ k.pc = "catalog" /\ k.barred \intersect EnabledKeys = {}
  BY DEF CallInv, Fits, ListEnabled, At
<1>5. DOMAIN k = {"pc", "ctx", "barred", "rules", "fallback", "cats", "keys", "tried"}
  BY <1>4 DEF Shaped, Idle
<1>6. Routable(k.rules, cats) /\ \A i \in DOMAIN cats : cats[i].key \in EnabledKeys
  <2>1. k.rules \in GivenRules
    BY <1>4 DEF Shaped
  <2> QED  BY <2>1, RowsAreRoutable
<1> HIDE DEF cats
<1>7. /\ DOMAIN listed = DOMAIN k /\ listed.pc = "ask" /\ listed.cats = cats
      /\ listed.keys = Cut(ranked, k.fallback) /\ listed.ctx = k.ctx
      /\ listed.barred = k.barred /\ listed.rules = k.rules /\ listed.fallback = k.fallback
      /\ listed.tried = k.tried
  BY <1>5
<1> HIDE DEF listed, k
<1>8. Routable(listed.rules, listed.cats) /\ Routed(listed) = ranked
  BY <1>6, <1>7 DEF Routed
<1>9. CatKeys(listed) \subseteq EnabledKeys
  BY <1>6, <1>7 DEF CatKeys
<1>10. ranked \in Seq(CatKeys(listed)) /\ Len(ranked) \in Nat
  <2>1. Routed(listed) \in Seq(CatKeys(listed)) /\ Len(Routed(listed)) \in Nat
    BY <1>8, RankingIsRight DEF Sorts
  <2> QED  BY <1>8, <2>1
<1>11. k.fallback.max_attempts \in Nat
  <2>1. k.fallback.max_attempts \in 0..255
    BY <1>4 DEF Shaped
  <2> QED  BY <2>1
<1> HIDE DEF ranked
<1>12. /\ listed.keys \in Seq(CatKeys(listed))
       /\ ranked # << >> => Len(listed.keys) # 0
  <2>1. /\ Limit(k.fallback) \in Nat \ {0}
        /\ Cut(ranked, k.fallback) \in Seq(CatKeys(listed))
        /\ Len(Cut(ranked, k.fallback)) = IF Len(ranked) < Limit(k.fallback)
                                            THEN Len(ranked) ELSE Limit(k.fallback)
    BY <1>10, <1>11, CutFacts
  <2>2. ranked # << >> => Len(ranked) # 0
    BY <1>10
  <2> QED  BY <1>7, <1>10, <2>1, <2>2
<1>13. listed.keys \in Seq(Keys)
  BY <1>9, <1>12, EnabledKeysAreKeys
<1>14. \A i \in DOMAIN listed.keys : listed.keys[i] \in EnabledKeys
  BY <1>9, <1>12
<1>15. ASSUME ranked # << >>
       PROVE  Fits(listed)
  <2>1. Shaped(listed)
    BY <1>4, <1>7, <1>13 DEF Shaped
  <2>2. Listing(listed)
    BY <1>7, <1>8, <1>15 DEF Listing
  <2>3. Len(listed.tried) = 0 /\ Len(listed.keys) \in Nat
    BY <1>4, <1>7, <1>13 DEF Shaped
  <2>4. Asking(listed)
    BY <1>12, <1>15, <2>3 DEF Asking
  <2>5. Passing(listed)
    BY <1>4, <1>7, <1>14 DEF Passing
  <2> QED  BY <2>1, <2>2, <2>4, <2>5 DEF Fits
<1>16. listed.barred \intersect EnabledKeys = {}
  BY <1>4, <1>7
<1> QED  BY <1>2, <1>3, <1>15, <1>16, IdleFits DEF CallInv

\* The next of the list is asked; on goes whom fallback lets.
LEMMA AnswersFit ==
  ASSUME NEW s \in Requests, CallInv, AskNext(s)
  PROVE  CallInv'
<1> DEFINE k    == call[s]
           used == Len(k.tried) + 1
           next == k.keys[used]
<1>1. PICK code \in Outcomes(next) :
        call' = [call EXCEPT ![s] =
          [k EXCEPT !.tried = Append(k.tried, [key |-> next, code |-> code]),
                    !.pc = IF ShouldTryNext(k.fallback, code, used, Len(k.keys) - used)
                             THEN "ask" ELSE "done"]]
  BY DEF AskNext
<1> DEFINE onward == ShouldTryNext(k.fallback, code, used, Len(k.keys) - used)
           try    == [key |-> next, code |-> code]
           asked  == [k EXCEPT !.tried = Append(k.tried, try),
                               !.pc = IF onward THEN "ask" ELSE "done"]
<1>2. call' = [call EXCEPT ![s] = asked]
  BY <1>1
<1>3. connector' = connector /\ EnabledKeys' = EnabledKeys
  BY DEF AskNext, Enabled, EnabledKeys
<1>4. /\ Shaped(k) /\ Listing(k) /\ Asking(k) /\ Passing(k) /\ k.pc = "ask"
      /\ k.barred \intersect EnabledKeys = {}
  BY DEF CallInv, Fits, AskNext, At
<1>5. DOMAIN k = {"pc", "ctx", "barred", "rules", "fallback", "cats", "keys", "tried"}
  BY <1>4 DEF Shaped, Idle
<1>6. /\ DOMAIN asked = DOMAIN k /\ asked.pc = (IF onward THEN "ask" ELSE "done")
      /\ asked.cats = k.cats /\ asked.keys = k.keys /\ asked.ctx = k.ctx
      /\ asked.barred = k.barred /\ asked.rules = k.rules /\ asked.fallback = k.fallback
      /\ asked.tried = Append(k.tried, try)
  BY <1>5
<1> HIDE DEF asked
<1>7. /\ k.keys \in Seq(Keys) /\ k.tried \in Seq(Tries) /\ Len(k.tried) \in Nat
      /\ Len(k.keys) \in Nat /\ Len(k.tried) < Len(k.keys)
  BY <1>4 DEF Shaped, Asking
<1> HIDE DEF k
<1>8. used \in 1..Len(k.keys) /\ next \in Keys
  BY <1>7
<1>9. try \in Tries
  <2>1. code \in UNION {Outcomes(key) : key \in Keys}
    BY <1>8
  <2> HIDE DEF next
  <2> QED  BY <1>8, <2>1 DEF Tries
<1>10. /\ asked.tried \in Seq(Tries) /\ Len(asked.tried) = used
       /\ asked.tried[used] = try
       /\ \A i \in 1..(used - 1) : asked.tried[i] = k.tried[i]
  <2> HIDE DEF try
  <2> QED  BY <1>6, <1>7, <1>9
<1>11. Shaped(asked)
  BY <1>4, <1>6, <1>10 DEF Shaped
<1>12. Listing(asked)
  <2>1. Routed(asked) = Routed(k)
    BY <1>6 DEF Routed
  <2> QED  BY <1>4, <1>6, <2>1 DEF Listing
<1>13. Passing(asked)
  BY <1>4, <1>6 DEF Passing
<1>14. onward => /\ used < Len(k.keys) /\ k.fallback.enabled
                 /\ used < Clamp(k.fallback.max_attempts, 1, 255)
                 /\ code \in k.fallback.codes
  <2>1. onward => /\ k.fallback.enabled /\ Len(k.keys) - used > 0
                  /\ used < Clamp(k.fallback.max_attempts, 1, 255)
                  /\ code \in k.fallback.codes
    BY Zenon DEF ShouldTryNext
  <2>2. Len(k.keys) - used > 0 => used < Len(k.keys)
    <3>1. \A m, n \in Int : m - n > 0 => n < m
      OBVIOUS
    <3>2. Len(k.keys) \in Int /\ used \in Int
      BY <1>7
    <3> HIDE DEF used
    <3> QED  BY <3>1, <3>2
  <2> HIDE DEF onward, used
  <2> QED  BY <2>1, <2>2
<1>15. Asking(asked)
  <2>1. Len(asked.tried) <= Len(asked.keys)
    BY <1>6, <1>8, <1>10
  <2>2. asked.pc = "ask" => onward
    BY <1>6
  <2>3. asked.pc = "ask" => Len(asked.tried) < Len(asked.keys)
    BY <1>6, <1>10, <1>14, <2>2
  <2>4. ASSUME NEW i \in 1..(used - 1)
        PROVE  /\ asked.tried[i].key = asked.keys[i] /\ asked.fallback.enabled
               /\ i < Clamp(asked.fallback.max_attempts, 1, 255)
               /\ asked.tried[i].code \in asked.fallback.codes
    <3>1. i \in 1..Len(k.tried) /\ asked.tried[i] = k.tried[i]
      BY <1>7, <1>10, <2>4
    <3> HIDE DEF used
    <3> QED  BY <1>4, <1>6, <3>1 DEF Asking
  <2>5. /\ asked.tried[used].key = asked.keys[used]
        /\ onward => /\ asked.fallback.enabled
                     /\ used < Clamp(asked.fallback.max_attempts, 1, 255)
                     /\ asked.tried[used].code \in asked.fallback.codes
    <3>1. asked.tried[used].key = next /\ asked.tried[used].code = code
      BY <1>10
    <3> HIDE DEF try, used, onward
    <3> QED  BY <1>6, <1>14, <3>1
  <2>6. used \in Nat
    BY <1>7
  <2> HIDE DEF used, onward
  <2>7. \A i \in 1..Len(asked.tried) : i \in 1..(used - 1) \/ (i = used /\ ~(i < used))
    BY <1>10, <2>6
  <2> QED  BY <2>1, <2>2, <2>3, <2>4, <2>5, <2>7 DEF Asking
<1>16. Fits(asked) /\ asked.barred \intersect EnabledKeys = {}
  BY <1>4, <1>6, <1>11, <1>12, <1>13, <1>15 DEF Fits
<1> QED  BY <1>2, <1>3, <1>16 DEF CallInv

LEMMA EndsFit ==
  ASSUME NEW s \in Requests, CallInv, End(s)
  PROVE  CallInv'
<1>1. call' = [call EXCEPT ![s] = Idle] /\ EnabledKeys' = EnabledKeys
  BY DEF End, Enabled, EnabledKeys
<1> QED  BY <1>1, IdleFits DEF CallInv

\* What an administrator enables is pardoned: the rest of a request stays.
LEMMA PardonsFit ==
  ASSUME NEW k, Fits(k), NEW keys
  PROVE  Fits(Pardon(k, keys)) /\ Pardon(k, keys).barred = k.barred \ keys
<1> DEFINE n == Pardon(k, keys)
<1>1. DOMAIN k = {"pc", "ctx", "barred", "rules", "fallback", "cats", "keys", "tried"}
  BY DEF Fits, Shaped, Idle
<1>2. /\ DOMAIN n = DOMAIN k /\ n.pc = k.pc /\ n.cats = k.cats /\ n.keys = k.keys
      /\ n.ctx = k.ctx /\ n.barred = k.barred \ keys /\ n.rules = k.rules
      /\ n.fallback = k.fallback /\ n.tried = k.tried
  BY <1>1 DEF Pardon
<1> HIDE DEF n
<1>3. Shaped(n)
  BY <1>2 DEF Fits, Shaped
<1>4. Listing(n)
  <2>1. Routed(n) = Routed(k)
    BY <1>2 DEF Routed
  <2> QED  BY <1>2, <2>1 DEF Fits, Listing
<1>5. Asking(n)
  BY <1>2 DEF Fits, Asking
<1>6. Passing(n)
  BY <1>2 DEF Fits, Passing
<1> QED  BY <1>2, <1>3, <1>4, <1>5, <1>6 DEF Fits, n

LEMMA UpdatesFit ==
  ASSUME NEW r \in Replicas, NEW key \in Keys, NEW patch \in ConnectorPatches,
         CallInv, UpdateConnector(r, key, patch)
  PROVE  CallInv'
<1>1. call' = [s \in Requests |-> Pardon(call[s], EnabledKeys')]
  BY DEF UpdateConnector
<1> DEFINE keys == EnabledKeys'
<1> HIDE DEF keys
<1>2. call' = [s \in Requests |-> Pardon(call[s], keys)]
  BY <1>1 DEF keys
<1>3. \A s \in Requests : /\ call'[s] = Pardon(call[s], keys)
                          /\ Fits(call'[s]) /\ call'[s].barred = call[s].barred \ keys
  BY <1>2, PardonsFit DEF CallInv
<1>4. \A s \in Requests : call'[s].barred \intersect EnabledKeys' = {}
  BY <1>3 DEF keys
<1> QED  BY <1>2, <1>3, <1>4 DEF CallInv

\* Sealing leaves the status of a connector alone.
LEMMA SealsFit ==
  ASSUME NEW r \in Replicas, RefInv, CallInv, SealRow(r)
  PROVE  CallInv'
<1>1. PICK row \in sealing[r] :
        connector' = [connector EXCEPT ![row.id].ref = Seal(row.ref)]
  BY DEF SealRow
<1>2. row.id \in Connectors
  BY DEF RefInv
<1>3. \A c \in Connectors : connector'[c].enabled = connector[c].enabled
  BY <1>1, <1>2 DEF RefInv
<1>4. EnabledKeys' = EnabledKeys /\ call' = call
  BY <1>3 DEF Enabled, EnabledKeys, SealRow
<1> QED  BY <1>4 DEF CallInv

LEMMA OthersFit ==
  ASSUME CallInv, UNCHANGED <<call, connector>>
  PROVE  CallInv'
<1>1. EnabledKeys' = EnabledKeys /\ call' = call
  BY DEF Enabled, EnabledKeys
<1> QED  BY <1>1 DEF CallInv

-----------------------------------------------------------------------------
(* The invariant, and what follows from it                                 *)

LEMMA BeginsInOrder ==
  Init => DeskInv
<1> SUFFICES ASSUME Init
             PROVE  DeskInv
  OBVIOUS
<1>1. PolicyInv
  BY RowAssumption DEF Init, PolicyInv, WellTyped, Has, GivenRules
<1>2. CountInv
  BY DeskAssumption DEF Init, CountInv
<1>3. RefInv
  BY InsertedRefsFit
<1>4. CallInv
  BY IdleFits DEF Init, CallInv
<1> QED  BY <1>1, <1>2, <1>3, <1>4 DEF DeskInv

LEMMA StepsKeepOrder ==
  ASSUME DeskInv, [Next]_vars
  PROVE  DeskInv'
<1> USE DEF DeskInv
<1>1. ASSUME NEW s \in Requests, NEW ctx \in Contexts, Begin(s, ctx)
      PROVE  DeskInv'
  <2>1. PolicyInv' /\ CountInv' /\ UNCHANGED <<connector, sealing, sealed, latest, raced>>
    BY <1>1 DEF Begin, PolicyInv, CountInv, policyVars, refVars, counts
  <2> QED  BY <1>1, <2>1, OthersKeepRefs, BeginningsFit
<1>2. ASSUME NEW s \in Requests, ReadPolicy(s)
      PROVE  DeskInv'
  <2>1. PolicyInv' /\ CountInv' /\ UNCHANGED <<connector, sealing, sealed, latest, raced>>
    BY <1>2 DEF ReadPolicy, PolicyInv, CountInv, policyVars, refVars, counts
  <2> QED  BY <1>2, <2>1, OthersKeepRefs, ReadersKeepFitting
<1>3. ASSUME NEW s \in Requests, ListEnabled(s)
      PROVE  DeskInv'
  <2>1. PolicyInv' /\ CountInv' /\ UNCHANGED <<connector, sealing, sealed, latest, raced>>
    BY <1>3 DEF ListEnabled, PolicyInv, CountInv, policyVars, refVars, counts
  <2> QED  BY <1>3, <2>1, OthersKeepRefs, ListsFit
<1>4. ASSUME NEW s \in Requests, AskNext(s)
      PROVE  DeskInv'
  <2>1. PolicyInv' /\ CountInv' /\ UNCHANGED <<connector, sealing, sealed, latest, raced>>
    BY <1>4 DEF AskNext, PolicyInv, CountInv, policyVars, refVars, counts
  <2> QED  BY <1>4, <2>1, OthersKeepRefs, AnswersFit
<1>5. ASSUME NEW s \in Requests, End(s)
      PROVE  DeskInv'
  <2>1. PolicyInv' /\ CountInv' /\ UNCHANGED <<connector, sealing, sealed, latest, raced>>
    BY <1>5 DEF End, PolicyInv, CountInv, policyVars, refVars, counts
  <2> QED  BY <1>5, <2>1, OthersKeepRefs, EndsFit
<1>6. ASSUME NEW p \in Policies, NEW patch \in PolicyPatches, UpdatePolicy(p, patch)
      PROVE  DeskInv'
  <2>1. UNCHANGED <<connector, call, sealing, sealed, latest, raced>>
    BY <1>6 DEF UpdatePolicy, refVars
  <2>2. CountInv'
    BY <1>6, DeskAssumption DEF UpdatePolicy, CountInv
  <2> QED  BY <1>6, <2>1, <2>2, PatchesKeepColumns, OthersKeepRefs, OthersFit
<1>7. ASSUME NEW r \in Replicas, NEW key \in Keys, NEW patch \in ConnectorPatches,
             UpdateConnector(r, key, patch)
      PROVE  DeskInv'
  <2>1. PolicyInv' /\ CountInv'
    BY <1>7, DeskAssumption DEF UpdateConnector, PolicyInv, CountInv, policyVars
  <2> QED  BY <1>7, <2>1, UpdatesKeepRefs, UpdatesFit
<1>8. ASSUME NEW r \in Replicas, StartReplica(r)
      PROVE  DeskInv'
  <2>1. PolicyInv' /\ CountInv' /\ UNCHANGED <<call, connector>>
    BY <1>8, DeskAssumption DEF StartReplica, PolicyInv, CountInv, policyVars
  <2> QED  BY <1>8, <2>1, StartsKeepRefs, OthersFit
<1>9. ASSUME NEW r \in Replicas, SealRow(r)
      PROVE  DeskInv'
  <2>1. PolicyInv' /\ CountInv'
    BY <1>9 DEF SealRow, PolicyInv, CountInv, policyVars, counts
  <2> QED  BY <1>9, <2>1, SealsKeepRefs, SealsFit
<1>10. ASSUME NEW r \in Replicas, StopSealing(r)
       PROVE  DeskInv'
  <2>1. PolicyInv' /\ CountInv' /\ UNCHANGED <<call, connector>>
    BY <1>10 DEF StopSealing, PolicyInv, CountInv, policyVars, counts
  <2> QED  BY <1>10, <2>1, StopsKeepRefs, OthersFit
<1>11. CASE UNCHANGED vars
  <2>1. PolicyInv' /\ CountInv' /\ UNCHANGED <<call, connector, sealing, sealed, latest, raced>>
    BY <1>11 DEF vars, PolicyInv, CountInv
  <2> QED  BY <2>1, OthersKeepRefs, OthersFit
<1> QED
  BY <1>1, <1>2, <1>3, <1>4, <1>5, <1>6, <1>7, <1>8, <1>9, <1>10, <1>11 DEF Next

LEMMA DeskStaysInOrder ==
  Spec => []DeskInv
<1>1. Init => DeskInv
  BY BeginsInOrder
<1>2. DeskInv /\ [Next]_vars => DeskInv'
  BY StepsKeepOrder
<1> QED  BY <1>1, <1>2, PTL DEF Spec

\* Rows keep their columns through every patch, recent stays an ordering of the
\* policies, and requests and sealing replicas hold what they can hold.
THEOREM DeskTypesHold ==
  Spec => []TypeOK
<1>1. DeskInv => TypeOK
  <2> SUFFICES ASSUME DeskInv
               PROVE  TypeOK
    OBVIOUS
  <2>1. \A s \in Requests : /\ DOMAIN call[s] = DOMAIN Idle
                            /\ call[s].pc \in {"idle", "policy", "catalog", "ask", "done"}
                            /\ call[s].barred \subseteq Keys
                            /\ call[s].keys \in Seq(Keys)
    BY DEF DeskInv, CallInv, Fits, Shaped
  <2> QED  BY <2>1 DEF DeskInv, PolicyInv, CountInv, RefInv, TypeOK
<1> QED  BY <1>1, DeskStaysInOrder, PTL

\* After a replica with a usable key has been through the table, no secret:// or
\* env: reference is stored in plaintext again, whatever administrators and other
\* replicas write.
THEOREM NothingStoredPlainAgain ==
  Spec => []SealedAfterStart
<1>1. DeskInv => SealedAfterStart
  BY DEF DeskInv, RefInv, SealedAfterStart
<1> QED  BY <1>1, DeskStaysInOrder, PTL

\* No start of a replica costs a connector the reference it was last given,
\* unless the replica had read the plaintext before it was given.
THEOREM StartsKeepReferences ==
  Spec => []RefsSurviveStarts
<1>1. DeskInv => RefsSurviveStarts
  <2> SUFFICES ASSUME DeskInv, NEW c \in Connectors \ raced
               PROVE  OpenRef(connector[c].ref) = latest[c]
    BY DEF RefsSurviveStarts
  <2>1. connector[c].ref \in Refs /\ connector[c].ref.value = latest[c]
    BY DEF DeskInv, RefInv
  <2>2. connector[c].ref.wraps <= 1
    BY <2>1 DEF Refs
  <2> QED  BY <2>1, <2>2 DEF OpenRef
<1> QED  BY <1>1, DeskStaysInOrder, PTL

\* A connector none of whose rows has been enabled since before a request began
\* is not asked by it.
THEOREM DisabledStaysUnasked ==
  Spec => []DisabledNotAsked
<1>1. DeskInv => DisabledNotAsked
  <2> SUFFICES ASSUME DeskInv, NEW s \in Requests, NEW i \in DOMAIN call[s].tried
               PROVE  call[s].tried[i].key \notin call[s].barred
    BY DEF DisabledNotAsked
  <2>1. Shaped(call[s]) /\ Asking(call[s]) /\ Passing(call[s])
    BY DEF DeskInv, CallInv, Fits
  <2>2. i \in 1..Len(call[s].tried) /\ Len(call[s].tried) \in Nat
    BY <2>1 DEF Shaped
  <2>3. call[s].tried[i].key = call[s].keys[i]
    BY <2>1, <2>2 DEF Asking
  <2>4. i \in DOMAIN call[s].keys
    BY <2>1, <2>2 DEF Shaped, Asking
  <2> QED  BY <2>1, <2>3, <2>4 DEF Passing
<1> QED  BY <1>1, DeskStaysInOrder, PTL

\* The list of a request that has one is the ranking, cut.
LEMMA RequestsAreRanked ==
  ASSUME NEW k, Fits(k), k.pc \in {"ask", "done"}
  PROVE  RankedKeys(k)
<1>1. k.fallback.max_attempts \in Nat
  <2>1. k.fallback.max_attempts \in 0..255
    BY DEF Fits, Shaped
  <2> QED  BY <2>1
<1>2. /\ Routable(k.rules, k.cats) /\ Routed(k) # << >>
      /\ k.keys = Cut(Routed(k), k.fallback)
  BY DEF Fits, Listing
<1> QED  BY <1>1, <1>2, CutRankingIsRanked

\* The list a request works through is the best of what it read, as much as its
\* policy allows: a named key once, a row at most once, nothing after what it
\* outranks and the first key never again, however many rows share a key.
THEOREM RoutesStayRanked ==
  Spec => []RoutesAreRanked
<1>1. DeskInv => RoutesAreRanked
  <2> SUFFICES ASSUME DeskInv
               PROVE  RoutesAreRanked
    OBVIOUS
  <2>1. ASSUME NEW s \in Requests, call[s].keys # << >> \/ call[s].pc = "ask"
        PROVE  RankedKeys(call[s])
    <3>1. Fits(call[s])
      BY DEF DeskInv, CallInv
    <3>2. call[s].pc \in {"ask", "done"}
      BY <2>1, <3>1 DEF Fits, Shaped
    <3> QED  BY <3>1, <3>2, RequestsAreRanked
  <2> QED  BY <2>1 DEF RoutesAreRanked, RankedKeys
<1> QED  BY <1>1, DeskStaysInOrder, PTL

\* A second connector is asked only while fallback is on, after a failure the
\* policy lists and within its max_attempts; the first is not asked again, and
\* another only where the rows that were read have its key twice.
THEOREM FallbackStaysBounded ==
  Spec => []FallbackIsBounded
<1>1. DeskInv => FallbackIsBounded
  <2> SUFFICES ASSUME DeskInv, NEW s \in Requests
               PROVE  LET k     == call[s]
                          asked == Len(k.tried)
                      IN  asked > 1 =>
                            /\ k.fallback.enabled /\ asked <= k.fallback.max_attempts
                            /\ \A i \in 1..(asked - 1) : k.tried[i].code \in k.fallback.codes
                            /\ \A i, j \in 1..asked :
                                 i < j /\ k.tried[i].key = k.tried[j].key =>
                                   /\ i > 1
                                   /\ \E p, q \in DOMAIN k.cats :
                                        /\ p # q /\ k.cats[p].key = k.tried[i].key
                                        /\ k.cats[q].key = k.tried[i].key
    BY DEF FallbackIsBounded
  <2> DEFINE k == call[s]
             asked == Len(k.tried)
  <2>1. Fits(k)
    BY DEF DeskInv, CallInv
  <2> HIDE DEF k
  <2> SUFFICES ASSUME asked > 1
               PROVE  /\ k.fallback.enabled /\ asked <= k.fallback.max_attempts
                      /\ \A i \in 1..(asked - 1) : k.tried[i].code \in k.fallback.codes
                      /\ \A i, j \in 1..asked : i < j /\ k.tried[i].key = k.tried[j].key =>
                           /\ i > 1
                           /\ \E p, q \in DOMAIN k.cats :
                                /\ p # q /\ k.cats[p].key = k.tried[i].key
                                /\ k.cats[q].key = k.tried[i].key
    BY DEF k
  <2>2. asked > 1
    OBVIOUS
  <2>3. asked \in Nat /\ Len(k.keys) \in Nat /\ asked <= Len(k.keys)
    BY <2>1 DEF Fits, Shaped, Asking
  <2>4. \A i \in 1..asked : k.tried[i].key = k.keys[i]
    BY <2>1 DEF Fits, Asking
  <2>5. \A i \in 1..(asked - 1) : /\ k.fallback.enabled
                                  /\ i < Clamp(k.fallback.max_attempts, 1, 255)
                                  /\ k.tried[i].code \in k.fallback.codes
    <3>1. \A i \in 1..(asked - 1) : i \in 1..asked /\ i < asked
      BY <2>3
    <3> QED  BY <2>1, <3>1 DEF Fits, Asking
  <2>6. asked - 1 \in 1..(asked - 1)
    BY <2>2, <2>3
  <2>7. asked <= k.fallback.max_attempts
    <3>1. asked - 1 < Clamp(k.fallback.max_attempts, 1, 255)
      BY <2>5, <2>6
    <3>2. k.fallback.max_attempts \in 0..255
      BY <2>1 DEF Fits, Shaped
    <3>3. \A n \in 0..255 : \A m \in Nat : m > 1 /\ m - 1 < Clamp(n, 1, 255) => m <= n
      BY DEF Clamp
    <3> HIDE DEF asked
    <3> QED  BY <2>2, <2>3, <3>1, <3>2, <3>3
  <2>8. k.pc \in {"ask", "done"}
    <3>1. k.tried # << >>
      BY <2>2
    <3> QED  BY <2>1, <3>1 DEF Fits, Shaped
  <2>9. RankedKeys(k) /\ Routable(k.rules, k.cats)
    BY <2>1, <2>8, RequestsAreRanked DEF Fits, Listing
  <2>10. DOMAIN k.keys = 1..Len(k.keys)
    BY <2>1 DEF Fits, Shaped
  <2> HIDE DEF asked
  <2>11. ASSUME NEW i \in 1..asked, NEW j \in 1..asked, i < j, k.tried[i].key = k.tried[j].key
         PROVE  /\ i > 1
                /\ \E p, q \in DOMAIN k.cats :
                     /\ p # q /\ k.cats[p].key = k.tried[i].key
                     /\ k.cats[q].key = k.tried[i].key
    <3>1. /\ i \in DOMAIN k.keys /\ j \in DOMAIN k.keys /\ i # j /\ j > 1
          /\ k.keys[i] = k.keys[j] /\ k.tried[i].key = k.keys[i]
      BY <2>3, <2>4, <2>10, <2>11
    <3>2. k.keys[j] # k.keys[1]
      <4>1. PICK entry \in [DOMAIN k.keys -> Standing(k)] : Ranks(k, entry)
        BY <2>9 DEF RankedKeys
      <4> QED  BY <3>1, <4>1 DEF Ranks
    <3>3. i # 1
      BY <3>1, <3>2
    <3>4. i > 1
      BY <2>3, <3>3
    <3>5. \E p, q \in DOMAIN k.cats :
            p # q /\ k.cats[p].key = k.keys[i] /\ k.cats[q].key = k.keys[i]
      BY <2>9, <3>1, RepeatsAreRows
    <3> QED  BY <3>1, <3>4, <3>5
  <2> QED  BY <2>5, <2>6, <2>7, <2>11
<1> QED  BY <1>1, DeskStaysInOrder, PTL

=============================================================================
