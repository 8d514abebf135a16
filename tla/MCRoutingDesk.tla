---------------------------- MODULE MCRoutingDesk ----------------------------
(***************************************************************************)
(* Small instances of RoutingDesk: the seed's two connectors and policy,   *)
(* and beside them a policy and a connector of two rows that an operator   *)
(* inserted, one row for the tenant and one for all.                       *)
(***************************************************************************)
EXTENDS RoutingDesk, TLC

Mock   == "mock-instant"
Manual == "manual-test"
Own    == "own-psp"

AllConnectors == {"mock", "manual", "own", "shared"}
SeedRegistry  == {Mock, Manual}

Rows ==
     "mock"   :> [key |-> Mock, health |-> "HEALTHY",
                  methods |-> {"ACCOUNT_TO_ACCOUNT", "WALLET"}, priority |-> 100]
  @@ "manual" :> [key |-> Manual, health |-> "HEALTHY", methods |-> {"MANUAL"},
                  priority |-> 10]
  @@ "own"    :> [key |-> Own, health |-> "degraded",
                  methods |-> {"ACCOUNT_TO_ACCOUNT", "PIX"}, priority |-> 100]
  @@ "shared" :> [key |-> Own, health |-> "HEALTHY", methods |-> {"ACCOUNT_TO_ACCOUNT"},
                  priority |-> 90]

AllAnswers == Mock   :> {"none", "TIMEOUT", "PAYER_DECLINED"}
           @@ Manual :> {"none", "CONNECTOR_ERROR"}

Rule(when, select, priority) == [when |-> when, select |-> select, priority |-> priority]
Always == << >>

SeedRules ==
  <<Rule([currency |-> "EUR", method |-> "ACCOUNT_TO_ACCOUNT", health |-> "HEALTHY"], Mock, 100),
    Rule([method |-> "MANUAL"], Manual, 10)>>

OwnRules ==
  <<Rule([health |-> "DEGRADED", max |-> 5000], Own, 5),
    [when |-> Always, select |-> Manual],
    Rule([min |-> 1000, health |-> "excellent"], Manual, 7),
    Rule([method |-> "PIX"], Mock, 9),
    Rule(Always, Own, 50)>>

SeedFallback == [enabled |-> TRUE, max_attempts |-> 2,
                 codes |-> {"CONNECTOR_UNAVAILABLE", "TIMEOUT"}]
WideFallback == [enabled |-> TRUE, max_attempts |-> 255, codes |-> Codes]
NoTries      == [enabled |-> TRUE, max_attempts |-> 0, codes |-> Codes]
TooMany      == [enabled |-> TRUE, max_attempts |-> 256, codes |-> Codes]
NoFallback   == [enabled |-> FALSE, max_attempts |-> 3, codes |-> Codes]

SeedPolicies == "seed" :> [active |-> TRUE, rules |-> SeedRules, fallback |-> SeedFallback]
             @@ "own"  :> [active |-> FALSE, rules |-> OwnRules, fallback |-> WideFallback]

Patches ==
  {[active |-> TRUE], [active |-> FALSE], [rules |-> << >>],
   [fallback |-> [enabled |-> FALSE]], [fallback |-> NoFallback],
   [fallback |-> NoTries], [fallback |-> TooMany]}

RefPatches == {[enabled |-> FALSE], [enabled |-> TRUE, ref |-> "env:NEW_REF"],
               [ref |-> "vault:new"]}

OldRefs == [c \in AllConnectors |-> IF c = "own" THEN "vault:old" ELSE "secret://old"]

NoScheme == {"vault:old", "vault:new"}

Payments == {[currency |-> "EUR", amount |-> 1200, methods |-> {"ACCOUNT_TO_ACCOUNT"}],
             [currency |-> "USD", amount |-> 9000, methods |-> {"ACCOUNT_TO_ACCOUNT", "MANUAL"}]}

\* Sealing touches configuration_ref alone, which routing never reads: the two
\* meet administrators, not each other, and are explored apart, routing on
\* tables whose references are sealed already.
ConcernsApart ==
  \/ starts = 0 /\ \A c \in AllConnectors : ~Exposed(connector[c].ref)
  \/ \A s \in Requests : At(s, "idle")

ReplicaSymmetry == Permutations(Keyed)

=============================================================================
