--------------------------- MODULE OperatorSettings ---------------------------
(***************************************************************************)
(* The tenant's settings: one JSON row, patched by administrators, and the *)
(* copy of it every server process runs on, laid over its environment.     *)
(*                                                                         *)
(* update_settings reads the row, patches what it read, writes all of it   *)
(* back and then replaces the copy of the process that served it.          *)
(***************************************************************************)
EXTENDS Integers, FiniteSets, Functions

CONSTANTS
  Replicas,     \* server processes behind the proxy
  Admins,       \* slots for updates in flight
  Config,       \* what AppConfig gives for every setting
  Patches,      \* bodies of PATCH /settings
  Production,   \* APP_ENV=production
  MaxUpdates,   \* bound: updates ever started
  MaxRestarts,  \* bound: restarts of replicas
  MaxDrops      \* bound: requests dropped half way and loads that fail

ASSUME SettingsAssumption ==
  /\ Production \in BOOLEAN
  /\ \A patch \in Patches : DOMAIN patch \subseteq DOMAIN Config
  /\ {MaxUpdates, MaxRestarts, MaxDrops} \subseteq Nat

\* validate_production: such a process does not start with the mock connector.
ValidConfig == Production /\ "connector_mock" \in DOMAIN Config => ~Config["connector_mock"]

ASSUME ConfigAssumption == ValidConfig

VARIABLES
  stored,    \* tenant_settings: the settings it has a value for
  snapshot,  \* AppState.operator of each replica
  update,    \* the update in progress of each slot
  saved,     \* every document the row has held
  latest,    \* per setting, the value last saved for it
  crossed,   \* settings rolled back by an update that had read an older row
  writers,   \* replicas that served an update
  mixed,     \* two updates overlapped, or one lost its end, or a load failed
  updates, restarts, drops

vars == <<stored, snapshot, update, saved, latest, crossed, writers, mixed,
                  updates, restarts, drops>>

Fields == DOMAIN Config
Empty  == << >>
Free   == [pc |-> "free", replica |-> "none", patch |-> Empty, doc |-> Empty, stale |-> FALSE]

Merge(doc, patch) ==
  [f \in DOMAIN doc \union DOMAIN patch |-> IF f \in DOMAIN patch THEN patch[f] ELSE doc[f]]

Clamp(n, lo, hi) == IF n < lo THEN lo ELSE IF n > hi THEN hi ELSE n

Clamped(doc) ==
  [f \in DOMAIN doc |-> IF f = "rate_limit_per_minute" THEN Clamp(doc[f], 1, 10000)
                                                       ELSE doc[f]]

\* A fault: settings the row lacks are not taken from the environment.
OverlayOnly(doc) == Clamped(doc)

\* overlay_json, over the environment
Overlay(doc) == Merge(Config, Clamped(doc))

OperatorFromConfig == Overlay(Empty)

InFlight(a) == update[a].pc # "free"

-----------------------------------------------------------------------------
(* update_settings                                                         *)

\* A fault: PUT instead of PATCH.
PatchedAlone(doc, patch) == Clamped(patch)

\* apply_operator_patch
Patched(doc, patch) == Merge(doc, Clamped(patch))

Forbidden(patch) ==
  Production /\ "connector_mock" \in DOMAIN patch /\ patch["connector_mock"] = TRUE

ReadSettings(a, r, patch) ==
  /\ ~InFlight(a) /\ updates < MaxUpdates /\ ~Forbidden(patch)
  /\ updates' = updates + 1
  /\ update' = [update EXCEPT ![a] = [pc |-> "save", replica |-> r, patch |-> patch,
                                  doc |-> Patched(stored, patch), stale |-> FALSE]]
  /\ mixed' = (mixed \/ \E b \in Admins : InFlight(b))
  /\ UNCHANGED <<stored, snapshot, saved, latest, crossed, writers, restarts, drops>>

\* ON CONFLICT DO UPDATE SET settings = EXCLUDED.settings: no version is asked.
SaveSettings(a) ==
  LET u == update[a]
  IN  /\ u.pc = "save"
      /\ stored' = u.doc
      /\ saved' = saved \union {u.doc}
      /\ latest' = Merge(latest, Clamped(u.patch))
      /\ crossed' = (crossed \union IF u.stale THEN Fields ELSE {}) \ DOMAIN u.patch
      /\ writers' = writers \union {u.replica}
      /\ update' = [b \in Admins |->
                      IF b = a THEN [u EXCEPT !.pc = "replace"]
                      ELSE [update[b] EXCEPT !.stale = (@ \/ update[b].pc = "save")]]
      /\ UNCHANGED <<snapshot, mixed, updates, restarts, drops>>

\* A fault: the copy is made from the request's body.
EffectiveBody(u) == Overlay(u.patch)

Effective(u) == Overlay(u.doc)

\* replace_operator, on the replica that served the update and on no other.
ReplaceOperator(a) ==
  /\ update[a].pc = "replace"
  /\ snapshot' = [snapshot EXCEPT ![update[a].replica] = Effective(update[a])]
  /\ update' = [update EXCEPT ![a] = Free]
  /\ UNCHANGED <<stored, saved, latest, crossed, writers, mixed, updates, restarts, drops>>

\* A fault: the copy is replaced before the row is written.
LostAfterReplacing(u) == [snapshot EXCEPT ![u.replica] = Overlay(u.doc)]

Lost(u) == snapshot

\* The client goes away, or a query fails, before or after the row is written.
DropUpdate(a) ==
  /\ InFlight(a) /\ drops < MaxDrops
  /\ drops' = drops + 1
  /\ snapshot' = Lost(update[a])
  /\ mixed' = (mixed \/ update[a].pc = "replace")
  /\ update' = [update EXCEPT ![a] = Free]
  /\ UNCHANGED <<stored, saved, latest, crossed, writers, updates, restarts>>

-----------------------------------------------------------------------------
(* A replica starts                                                        *)

\* load_operator_settings: a row that cannot be read leaves the environment.
Restart(r) ==
  /\ restarts < MaxRestarts /\ restarts' = restarts + 1
  /\ \/ /\ snapshot' = [snapshot EXCEPT ![r] = Overlay(stored)]
        /\ UNCHANGED <<mixed, drops>>
     \/ /\ drops < MaxDrops /\ drops' = drops + 1
        /\ snapshot' = [snapshot EXCEPT ![r] = OperatorFromConfig]
        /\ mixed' = TRUE
  /\ update' = [a \in Admins |-> IF update[a].replica = r THEN Free ELSE update[a]]
  /\ UNCHANGED <<stored, saved, latest, crossed, writers, updates>>

-----------------------------------------------------------------------------

Init ==
  /\ stored = Empty
  /\ snapshot = [r \in Replicas |-> OperatorFromConfig]
  /\ update = [a \in Admins |-> Free]
  /\ saved = {Empty}
  /\ latest = Empty
  /\ crossed = {} /\ writers = {} /\ mixed = FALSE
  /\ updates = 0 /\ restarts = 0 /\ drops = 0

Next ==
  \/ \E a \in Admins :
       \/ \E r \in Replicas, patch \in Patches : ReadSettings(a, r, patch)
       \/ SaveSettings(a) \/ ReplaceOperator(a) \/ DropUpdate(a)
  \/ \E r \in Replicas : Restart(r)

Spec == Init /\ [][Next]_vars

-----------------------------------------------------------------------------
(* Properties                                                              *)

\* Type invariant.
TypeOK ==
  /\ \A doc \in saved \union {stored, latest} : DOMAIN doc \subseteq Fields
  /\ \A r \in Replicas : DOMAIN snapshot[r] = Fields
  /\ \A a \in Admins : /\ DOMAIN update[a] = DOMAIN Free
                       /\ update[a].pc \in {"free", "save", "replace"}
                       /\ InFlight(a) => update[a].replica \in Replicas
  /\ crossed \subseteq Fields /\ writers \subseteq Replicas /\ mixed \in BOOLEAN
  /\ updates \in 0..MaxUpdates /\ restarts \in 0..MaxRestarts /\ drops \in 0..MaxDrops

\* What an administrator saved for a setting stays until another value is
\* saved for it, unless an update that had read an older row wrote that back.
UpdatesStick ==
  Restrict(stored, DOMAIN stored \ crossed) = Restrict(latest, DOMAIN latest \ crossed)

\* No replica runs on settings that were never saved: an update that fails
\* changes nothing, on the replica that serves it either.
SnapshotsWereSaved == \A r \in Replicas : \E doc \in saved : snapshot[r] = Overlay(doc)

\* While updates come one after the other, none loses its end and one replica
\* serves them all, that replica runs on what is stored.
ServingReplicaIsCurrent ==
  \A r \in Replicas :
    ~mixed /\ writers \subseteq {r} /\ (\A a \in Admins : ~InFlight(a)) =>
      snapshot[r] = Overlay(stored)

=============================================================================
