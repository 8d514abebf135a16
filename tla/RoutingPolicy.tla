---------------------------- MODULE RoutingPolicy ----------------------------
(***************************************************************************)
(* evaluate_policy: from a routing policy, a payment and the enabled       *)
(* connectors to the list of connectors authorization asks, best first,    *)
(* and the rules by which it goes on to the next of them.                  *)
(*                                                                         *)
(* A JSON object is a record; a field it lacks is not in its DOMAIN.       *)
(***************************************************************************)
EXTENDS Integers, Sequences, FiniteSets, SequencesExt

Methods == {"ACCOUNT_TO_ACCOUNT", "CARD", "WALLET", "MANUAL"}
Codes   == {"CONNECTOR_UNAVAILABLE", "TIMEOUT", "PAYER_DECLINED", "AMBIGUOUS",
            "NOT_SUPPORTED", "CONNECTOR_ERROR"}

Has(object, fields) == fields \subseteq DOMAIN object

DefaultFallback == [enabled |-> TRUE, max_attempts |-> 2,
                    codes |-> {"CONNECTOR_UNAVAILABLE", "TIMEOUT"}]

\* What lacks a field, or overflows the u8, is no FallbackSpec: the default
\* stands in for all of it.
FallbackSpec(json) ==
  IF Has(json, {"enabled", "max_attempts", "codes"}) /\ json.max_attempts \in 0..255
    THEN json
    ELSE DefaultFallback

\* The positions of the rules: what does not parse is dropped without a word.
ParseRules(json) ==
  {i \in DOMAIN json : Has(json[i], {"when", "select", "priority"})}

-----------------------------------------------------------------------------
(* Rules and candidates                                                    *)

\* cats: the rows of the enabled connectors, in the order the query gave them.
RuleMatches(when, ctx, cats) ==
  /\ Has(when, {"currency"}) => when.currency = ctx.currency
  /\ Has(when, {"method"}) => when.method \in Methods \intersect ctx.methods
  /\ Has(when, {"health"}) =>
       \E c \in Range(cats) :
         when.health \in {"HEALTHY", "DEGRADED"} => c.health = when.health
  /\ Has(when, {"min"}) => ctx.amount >= when.min
  /\ Has(when, {"max"}) => ctx.amount <= when.max

Selects(rule, ctx, cats) ==
  /\ RuleMatches(rule.when, ctx, cats)
  /\ \E c \in Range(cats) : c.key = rule.select

IsCandidate(row, ctx) ==
  row.health # "UNHEALTHY" /\ row.methods \intersect ctx.methods # {}

-----------------------------------------------------------------------------
(* The ranking                                                             *)

\* By falling priority; sort_by_key keeps the order of equals.
Before(rows, i, j) ==
  \/ rows[i].priority > rows[j].priority
  \/ rows[i].priority = rows[j].priority /\ i < j

\* The positions in that order: in place n is the one with n - 1 before it.
ByPriority(positions, rows) ==
  [n \in 1..Cardinality(positions) |->
     CHOOSE i \in positions :
       Cardinality({j \in positions : Before(rows, j, i)}) = n - 1]

\* max_by_key: of several with the highest priority, the last.
Best(positions, rows) ==
  CHOOSE i \in positions : \A j \in positions :
    \/ rows[j].priority < rows[i].priority
    \/ rows[j].priority = rows[i].priority /\ j <= i

\* The first rule that selects a connector ranks it, whatever later ones say.
Ruling(rules, ctx, cats) ==
  LET selects == {i \in ParseRules(rules) : Selects(rules[i], ctx, cats)}
  IN  {i \in selects : \A j \in selects : rules[j].select = rules[i].select => i <= j}

Ruled(rules, ctx, cats) ==
  LET order == ByPriority(Ruling(rules, ctx, cats), rules)
  IN  [n \in DOMAIN order |-> rules[order[n]].select]

Candidates(ctx, cats) == {i \in DOMAIN cats : IsCandidate(cats[i], ctx)}

Preferred(rules, ctx, cats) ==
  LET ruled == Ruled(rules, ctx, cats)
      open  == Candidates(ctx, cats)
  IN  IF ruled # << >> \/ open = {} THEN ruled ELSE <<cats[Best(open, cats)].key>>

\* A fault: connectors the rules name already are appended once more.
ExtrasUnseen(first, ctx, cats) ==
  LET order == ByPriority(Candidates(ctx, cats), cats)
  IN  [n \in DOMAIN order |-> cats[order[n]].key]

Extras(first, ctx, cats) ==
  LET unseen == {i \in Candidates(ctx, cats) : cats[i].key \notin Range(first)}
      order  == ByPriority(unseen, cats)
  IN  [n \in DOMAIN order |-> cats[order[n]].key]

\* ranked_connector_keys; empty is the error "no eligible connector".
EvaluatePolicy(rules, fallback, ctx, cats) ==
  LET first == Preferred(rules, ctx, cats)
  IN  first \o IF fallback.enabled THEN Extras(first, ctx, cats) ELSE << >>

-----------------------------------------------------------------------------
(* Going on to the next connector                                          *)

\* A fault: max_attempts is read without the clamp.
UnclampedLimit(fallback) == IF fallback.enabled THEN fallback.max_attempts ELSE 1

Clamp(n, lo, hi) == IF n < lo THEN lo ELSE IF n > hi THEN hi ELSE n

AttemptLimit(fallback) ==
  IF fallback.enabled THEN Clamp(fallback.max_attempts, 1, 8) ELSE 1

Cut(keys, fallback) ==
  SubSeq(keys, 1, Clamp(Len(keys), 0, AttemptLimit(fallback)))

\* A fault: any failure goes on to the next connector.
ShouldTryNextAlways(fallback, code, used, remaining) == fallback.enabled /\ remaining > 0

ShouldTryNext(fallback, code, used, remaining) ==
  /\ fallback.enabled /\ remaining > 0
  /\ used < Clamp(fallback.max_attempts, 1, 255)
  /\ code \in fallback.codes

=============================================================================
