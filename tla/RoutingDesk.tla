----------------------------- MODULE RoutingDesk -----------------------------
(***************************************************************************)
(* Routing while administrators edit it: authorize reads the policy and    *)
(* the connector catalog in two queries and then asks connectors one by    *)
(* one; policies and connectors are updated meanwhile, and every replica   *)
(* that starts seals the plaintext configuration references it finds.      *)
(*                                                                         *)
(* One action is one SQL statement or one call of a connector.             *)
(***************************************************************************)
EXTENDS RoutingPolicy, FiniteSets

CONSTANTS
  Connectors,        \* ids of the rows of connectors the tenant sees: its own and
                     \* those of no tenant, which may have the same key
  Catalog,           \* their key, health, methods, priority: nothing updates these
  Registered,        \* keys the registry has an adapter for
  Answers,           \* per registered key: failure codes, "none" for success
  Policies,          \* ids of the tenant's routing_policies
  FirstPolicies,     \* their rows as the seed and the operator inserted them
  PolicyPatches,     \* bodies of PATCH routing-policies
  ConnectorPatches,  \* bodies of PATCH connectors
  FirstRefs,         \* configuration_ref of each row when it was inserted
  Opaque,            \* references that begin with neither secret:// nor env:
  Contexts,          \* currency, amount and methods of payments
  Requests,          \* slots for authorize_payment calls
  Replicas,          \* server processes
  Keyed,             \* those whose ENCRYPTION_MASTER_KEY is usable
  MaxEdits,          \* bound: PATCHes
  MaxStarts          \* bound: starts of a replica

ASSUME DeskAssumption ==
  /\ Keyed \subseteq Replicas
  /\ MaxEdits \in Nat /\ MaxStarts \in Nat

\* Tables are finite; what rules_json keeps under "priority" is an integer.
WellTyped(part) ==
  /\ Has(part, {"active"}) => part.active \in BOOLEAN
  /\ Has(part, {"rules"}) =>
       /\ part.rules \in Seq(Range(part.rules))
       /\ \A i \in ParseRules(part.rules) : part.rules[i].priority \in Int

ASSUME RowAssumption ==
  /\ IsFiniteSet(Connectors) /\ IsFiniteSet(Policies)
  /\ \A c \in Connectors : Catalog[c].priority \in Int
  /\ DOMAIN FirstPolicies = Policies /\ DOMAIN FirstRefs = Connectors
  /\ \A p \in Policies : /\ DOMAIN FirstPolicies[p] = {"active", "rules", "fallback"}
                         /\ WellTyped(FirstPolicies[p])
  /\ \A patch \in PolicyPatches : WellTyped(patch)
  /\ \A patch \in ConnectorPatches : Has(patch, {"enabled"}) => patch.enabled \in BOOLEAN

VARIABLES
  policy,     \* routing_policies
  recent,     \* their ids, by updated_at
  connector,  \* connectors: status and configuration_ref
  call,       \* the authorization in progress of each slot
  sealing,    \* per replica: the rows encrypt_connector_secret_refs has yet to write
  sealed,     \* some replica has finished that
  latest,     \* per row: the reference last given for it
  raced,      \* rows given a reference while a replica held their plaintext
  edits, starts

vars == <<policy, recent, connector, call, sealing, sealed, latest, raced, edits, starts>>
policyVars == <<policy, recent>>
refVars    == <<sealing, sealed, latest, raced>>
counts     == <<edits, starts>>

Idle == [pc |-> "idle", ctx |-> {}, barred |-> {}, rules |-> << >>,
         fallback |-> DefaultFallback, cats |-> << >>, keys |-> << >>, tried |-> << >>]

At(s, pc) == call[s].pc = pc

Enabled == {c \in Connectors : connector[c].enabled}

Keys        == {Catalog[c].key : c \in Connectors}
EnabledKeys == {Catalog[c].key : c \in Enabled}

-----------------------------------------------------------------------------
(* configuration_ref: how often the value has been encrypted               *)

Plain(value) == [value |-> value, wraps |-> 0]
IsEnvelope(ref) == ref.wraps > 0

\* seal_if_plaintext
Seal(ref) == IF IsEnvelope(ref) THEN ref ELSE [ref EXCEPT !.wraps = 1]

\* What a starting replica encrypts: nothing that is neither secret:// nor env:.
Exposed(ref) == ~IsEnvelope(ref) /\ ref.value \notin Opaque

\* open_secret_value takes one layer off.
Unreadable == "unreadable"
OpenRef(ref) == IF ref.wraps <= 1 THEN ref.value ELSE Unreadable

-----------------------------------------------------------------------------
(* decide_route and the connectors asked                                   *)

\* `barred`: no row of the key has been enabled since before the request began.
Begin(s, ctx) ==
  /\ At(s, "idle")
  /\ call' = [call EXCEPT ![s] = [Idle EXCEPT !.pc = "policy", !.ctx = ctx,
                                              !.barred = Keys \ EnabledKeys]]
  /\ UNCHANGED <<policyVars, connector, refVars, counts>>

\* ORDER BY updated_at DESC LIMIT 1 of the active policies, if there is one.
ActivePolicies == {i \in DOMAIN recent : policy[recent[i]].active}

InForce ==
  IF ActivePolicies = {}
    THEN [rules |-> << >>, fallback |-> DefaultFallback]
    ELSE LET p == policy[recent[Max(ActivePolicies)]]
         IN  [rules |-> p.rules, fallback |-> FallbackSpec(p.fallback)]

ReadPolicy(s) ==
  /\ At(s, "policy")
  /\ call' = [call EXCEPT ![s] = [call[s] EXCEPT !.pc = "catalog",
                !.rules = InForce.rules, !.fallback = InForce.fallback]]
  /\ UNCHANGED <<policyVars, connector, refVars, counts>>

Health(raw) ==
  CASE raw \in {"HEALTHY", "healthy"}     -> "HEALTHY"
    [] raw \in {"DEGRADED", "degraded"}   -> "DEGRADED"
    [] raw \in {"UNHEALTHY", "unhealthy"} -> "UNHEALTHY"
    [] OTHER                              -> "UNKNOWN"

\* ConnectorSnapshot; methods the program does not know are dropped.
Snapshot(c) ==
  [key |-> Catalog[c].key, health |-> Health(Catalog[c].health),
   methods |-> Catalog[c].methods \intersect Methods, priority |-> Catalog[c].priority]

\* A fault: list_enabled forgets its filter.
ListedAll == Connectors

Listed == Enabled

\* The query has no ORDER BY: rows come in any order, those of one key too.
ListEnabled(s) ==
  /\ At(s, "catalog")
  /\ \E order \in SetToSeqs(Listed) :
       LET k      == call[s]
           cats   == [i \in DOMAIN order |-> Snapshot(order[i])]
           ranked == EvaluatePolicy(k.rules, k.fallback, k.ctx, cats)
       IN  call' = [call EXCEPT ![s] =
                      IF ranked = << >>
                        THEN Idle
                        ELSE [k EXCEPT !.pc = "ask", !.cats = cats,
                                       !.keys = Cut(ranked, k.fallback)]]
  /\ UNCHANGED <<policyVars, connector, refVars, counts>>

\* No adapter counts as unavailable; success ends the search.
Outcomes(key) == IF key \in Registered THEN Answers[key] ELSE {"CONNECTOR_UNAVAILABLE"}

AskNext(s) ==
  LET k    == call[s]
      used == Len(k.tried) + 1
      next == k.keys[used]
  IN  /\ At(s, "ask")
      /\ \E code \in Outcomes(next) :
           call' = [call EXCEPT ![s] =
             [k EXCEPT !.tried = Append(k.tried, [key |-> next, code |-> code]),
                       !.pc = IF ShouldTryNext(k.fallback, code, used, Len(k.keys) - used)
                                THEN "ask" ELSE "done"]]
      /\ UNCHANGED <<policyVars, connector, refVars, counts>>

\* The request is over, or a failed query or a dropped client ends it early.
End(s) ==
  /\ ~At(s, "idle")
  /\ call' = [call EXCEPT ![s] = Idle]
  /\ UNCHANGED <<policyVars, connector, refVars, counts>>

-----------------------------------------------------------------------------
(* Administrators                                                          *)

\* A fault: what the patch leaves out is lost.
Overwrite(patch, row) == patch

\* COALESCE: what the patch leaves out stays.
Coalesce(patch, row) ==
  [f \in DOMAIN row |-> IF f \in DOMAIN patch THEN patch[f] ELSE row[f]]

\* Every PATCH sets updated_at, even one that changes nothing.
UpdatePolicy(p, patch) ==
  /\ edits < MaxEdits /\ edits' = edits + 1
  /\ policy' = [policy EXCEPT ![p] = Coalesce(patch, policy[p])]
  /\ recent' = Append(RemoveFirst(recent, p), p)
  /\ UNCHANGED <<connector, call, refVars, starts>>

Pardon(k, keys) == [k EXCEPT !.barred = k.barred \ keys]

\* A fault: the dashboard stores the reference as it came.
StoreAsGiven(value) == Plain(value)

SealConnectorRef(value) == Seal(Plain(value))

Held(c) == \E r \in Replicas : \E row \in sealing[r] : row.id = c /\ ~IsEnvelope(row.ref)

\* status and configuration_ref in one UPDATE
Rewritten(row, patch) ==
  [enabled |-> IF Has(patch, {"enabled"}) THEN patch.enabled ELSE row.enabled,
   ref     |-> IF Has(patch, {"ref"}) THEN SealConnectorRef(patch.ref) ELSE row.ref]

\* Every row of the key is updated.  A reference needs the master key, and has
\* to be secret:// or env:.
UpdateConnector(r, key, patch) ==
  LET given == Has(patch, {"ref"})
      rows  == {c \in Connectors : Catalog[c].key = key}
  IN  /\ edits < MaxEdits /\ edits' = edits + 1
      /\ given => r \in Keyed /\ patch.ref \notin Opaque
      /\ connector' = [c \in Connectors |->
                        IF c \in rows THEN Rewritten(connector[c], patch) ELSE connector[c]]
      /\ call' = [s \in Requests |-> Pardon(call[s], EnabledKeys')]
      /\ latest' = [c \in Connectors |->
                     IF given /\ c \in rows THEN patch.ref ELSE latest[c]]
      /\ raced' = IF given THEN (raced \ rows) \union {c \in rows : Held(c)} ELSE raced
      /\ UNCHANGED <<policyVars, sealing, sealed, starts>>

-----------------------------------------------------------------------------
(* encrypt_connector_secret_refs, when a replica starts                    *)

\* A fault: envelopes are not skipped.
SealableAll == {c \in Connectors : connector[c].ref.value \notin Opaque}

Sealable == {c \in Connectors : Exposed(connector[c].ref)}

ReadRefs(rows) == {[id |-> c, ref |-> connector[c].ref] : c \in rows}

StartReplica(r) ==
  /\ r \in Keyed /\ sealing[r] = {} /\ starts < MaxStarts
  /\ starts' = starts + 1
  /\ sealing' = [sealing EXCEPT ![r] = ReadRefs(Sealable)]
  /\ sealed' = (sealed \/ sealing'[r] = {})
  /\ UNCHANGED <<policyVars, connector, call, latest, raced, edits>>

\* UPDATE ... WHERE id = $3: whatever the row holds by now.
SealRow(r) ==
  \E row \in sealing[r] :
    /\ connector' = [connector EXCEPT ![row.id].ref = Seal(row.ref)]
    /\ sealing' = [sealing EXCEPT ![r] = sealing[r] \ {row}]
    /\ sealed' = (sealed \/ sealing'[r] = {})
    /\ UNCHANGED <<policyVars, call, latest, raced, counts>>

\* A failed UPDATE is logged and ends it; so does a crash.
StopSealing(r) ==
  /\ sealing[r] # {}
  /\ sealing' = [sealing EXCEPT ![r] = {}]
  /\ UNCHANGED <<policyVars, connector, call, sealed, latest, raced, counts>>

-----------------------------------------------------------------------------

\* sealed_configuration_ref: sealed if the seed had the key, whose own references
\* are secret://; what an operator inserted stays as it was written.
Inserted(value, hasKey) ==
  [enabled |-> TRUE,
   ref     |-> IF hasKey /\ value \notin Opaque THEN Seal(Plain(value)) ELSE Plain(value)]

Init ==
  /\ policy = FirstPolicies
  /\ recent \in SetToSeqs(Policies)
  /\ \E hasKey \in BOOLEAN :
       connector = [c \in Connectors |-> Inserted(FirstRefs[c], hasKey)]
  /\ call = [s \in Requests |-> Idle]
  /\ sealing = [r \in Replicas |-> {}]
  /\ sealed = FALSE
  /\ latest = FirstRefs
  /\ raced = {}
  /\ edits = 0 /\ starts = 0

Next ==
  \/ \E s \in Requests :
       \/ \E ctx \in Contexts : Begin(s, ctx)
       \/ ReadPolicy(s) \/ ListEnabled(s) \/ AskNext(s) \/ End(s)
  \/ \E p \in Policies, patch \in PolicyPatches : UpdatePolicy(p, patch)
  \/ \E r \in Replicas, key \in Keys, patch \in ConnectorPatches :
       UpdateConnector(r, key, patch)
  \/ \E r \in Replicas : StartReplica(r) \/ SealRow(r) \/ StopSealing(r)

Spec == Init /\ [][Next]_vars

-----------------------------------------------------------------------------
(* Properties                                                              *)

Refs == [value: {FirstRefs[c] : c \in Connectors}
                  \union {p.ref : p \in {q \in ConnectorPatches : Has(q, {"ref"})}},
         wraps: {0, 1}]

\* Type invariant: rows keep their columns through every patch, and recent
\* stays an ordering of the policies.
TypeOK ==
  /\ \A p \in Policies : /\ DOMAIN policy[p] = {"active", "rules", "fallback"}
                         /\ policy[p].active \in BOOLEAN
  /\ recent \in SetToSeqs(Policies)
  /\ connector \in [Connectors -> [enabled: BOOLEAN, ref: Refs]]
  /\ \A s \in Requests : /\ DOMAIN call[s] = DOMAIN Idle
                         /\ call[s].pc \in {"idle", "policy", "catalog", "ask", "done"}
                         /\ call[s].barred \subseteq Keys
                         /\ call[s].keys \in Seq(Keys)
  /\ sealing \in [Replicas -> SUBSET [id: Connectors, ref: Refs]]
  /\ sealed \in BOOLEAN /\ raced \subseteq Connectors
  /\ edits \in 0..MaxEdits /\ starts \in 0..MaxStarts

\* The rules that name a connector, and the first of them, which ranks it.
Naming(k, key) ==
  {i \in ParseRules(k.rules) : /\ k.rules[i].select = key
                               /\ RuleMatches(k.rules[i].when, k.ctx, k.cats)}
FirstNaming(k, key) ==
  k.rules[CHOOSE i \in Naming(k, key) : \A j \in Naming(k, key) : i <= j]

Named(k) == {key \in {row.key : row \in Range(k.cats)} : Naming(k, key) # {}}
Open(k)  == {p \in DOMAIN k.cats :
               IsCandidate(k.cats[p], k.ctx) /\ k.cats[p].key \notin Named(k)}

RuleEntry(k, key) ==
  [key |-> key, row |-> 0, tier |-> 1, priority |-> FirstNaming(k, key).priority]
RowEntry(k, p) ==
  [key |-> k.cats[p].key, row |-> p, tier |-> 0, priority |-> k.cats[p].priority]

\* What evaluate_policy has to choose from: a key rules name stands once,
\* whatever rows it has; of the others, every eligible row stands for itself.
Standing(k) ==
  {RuleEntry(k, key) : key \in Named(k)} \union
    IF k.fallback.enabled \/ Named(k) = {} THEN {RowEntry(k, p) : p \in Open(k)} ELSE {}

\* What a rule names comes before the others, then the higher priority.
Outranks(a, b) == a.tier > b.tier \/ (a.tier = b.tier /\ a.priority > b.priority)

\* The list, when the key in place i stands for entry[i].
Ranks(k, entry) ==
  /\ IsInjective(entry)
  /\ \A i \in DOMAIN k.keys :
       /\ entry[i].key = k.keys[i] /\ (i > 1 => k.keys[i] # k.keys[1])
       /\ \A e \in Standing(k) : Outranks(e, entry[i]) =>
            i > 1 /\ (e.key = k.keys[1] \/ \E j \in 1..(i - 1) : entry[j] = e)

\* How many of them fallback lets it have.
Limit(f) == IF ~f.enabled \/ f.max_attempts = 0 THEN 1
            ELSE IF f.max_attempts > 8 THEN 8 ELSE f.max_attempts

Rivals(k) == {e \in Standing(k) : e.key # k.keys[1]}

\* Whatever the order of the rows, and however many of them share a key, the
\* list authorization works through is the best of what there is to choose from,
\* as long as the policy allows: each place stands for a named key or a row of
\* its own, and what outranks it comes earlier, unless its key is the first,
\* which is not listed again.
RoutesAreRanked ==
  \A s \in Requests : call[s].keys # << >> \/ call[s].pc = "ask" =>
    LET k == call[s]
    IN  /\ k.keys # << >>
        /\ \E entry \in [DOMAIN k.keys -> Standing(k)] : Ranks(k, entry)
        /\ Len(k.keys) = IF 1 + Cardinality(Rivals(k)) < Limit(k.fallback)
                           THEN 1 + Cardinality(Rivals(k)) ELSE Limit(k.fallback)

\* A connector none of whose rows has been enabled since before a request began
\* is not asked by it, though the policy is read in a query of its own and rules
\* name connectors by key.
DisabledNotAsked ==
  \A s \in Requests : \A i \in DOMAIN call[s].tried :
    call[s].tried[i].key \notin call[s].barred

\* A second connector is asked only while the policy allows fallback, only
\* after failures it lists and no more often than it says; the first is not asked
\* again, and another only where the catalog has two rows of its key.
FallbackIsBounded ==
  \A s \in Requests :
    LET k == call[s]
        asked == Len(k.tried)
    IN  asked > 1 =>
          /\ k.fallback.enabled /\ asked <= k.fallback.max_attempts
          /\ \A i \in 1..(asked - 1) : k.tried[i].code \in k.fallback.codes
          /\ \A i, j \in 1..asked : i < j /\ k.tried[i].key = k.tried[j].key =>
               /\ i > 1
               /\ \E p, q \in DOMAIN k.cats :
                    p # q /\ k.cats[p].key = k.tried[i].key /\ k.cats[q].key = k.tried[i].key

\* Once a replica with a usable key has been through the table, no secret:// or
\* env: reference is stored in plaintext again, whatever administrators and other
\* replicas do.
SealedAfterStart == sealed => \A c \in Connectors : ~Exposed(connector[c].ref)

\* The reference a row was last given can be read back, unless a starting
\* replica had read its plaintext before that.
RefsSurviveStarts ==
  \A c \in Connectors \ raced : OpenRef(connector[c].ref) = latest[c]

=============================================================================
