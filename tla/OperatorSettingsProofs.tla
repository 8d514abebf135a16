------------------------ MODULE OperatorSettingsProofs ------------------------
(***************************************************************************)
(* Settings for any number of administrators, replicas and settings: types, *)
(* lost updates, and what a replica runs on.                               *)
(***************************************************************************)
EXTENDS OperatorSettings, TLAPS

-----------------------------------------------------------------------------
(* Documents                                                               *)

LEMMA ClampedValues ==
  ASSUME NEW doc
  PROVE  DOMAIN Clamped(doc) = DOMAIN doc
BY DEF Clamped

LEMMA MergedValues ==
  ASSUME NEW doc, NEW patch
  PROVE  /\ DOMAIN Merge(doc, patch) = DOMAIN doc \union DOMAIN patch
         /\ \A f \in DOMAIN patch : Merge(doc, patch)[f] = patch[f]
         /\ \A f \in DOMAIN doc \ DOMAIN patch : Merge(doc, patch)[f] = doc[f]
BY DEF Merge

LEMMA EmptyHasNothing == DOMAIN Empty = {}
BY DEF Empty

LEMMA OverlayIsTotal ==
  ASSUME NEW doc, DOMAIN doc \subseteq Fields
  PROVE  DOMAIN Overlay(doc) = Fields
<1>1. DOMAIN Clamped(doc) = DOMAIN doc
  BY ClampedValues
<1>2. DOMAIN Overlay(doc) = DOMAIN Config \union DOMAIN Clamped(doc)
  BY MergedValues DEF Overlay
<1>3. QED
  BY <1>1, <1>2 DEF Fields

LEMMA Bounds == MaxUpdates \in Nat /\ MaxRestarts \in Nat /\ MaxDrops \in Nat
BY SettingsAssumption DEF SettingsAssumption

-----------------------------------------------------------------------------
(* What a step does to the updates in progress                             *)

\* The arrays are arrays and the slots are records.
Shape ==
  /\ snapshot = [r \in Replicas |-> snapshot[r]]
  /\ update = [a \in Admins |-> update[a]]
  /\ \A a \in Admins :
       /\ update[a] = [pc |-> update[a].pc, replica |-> update[a].replica,
                       patch |-> update[a].patch, doc |-> update[a].doc,
                       stale |-> update[a].stale]
       /\ update[a].pc \in {"free", "save", "replace"} /\ update[a].stale \in BOOLEAN
       /\ InFlight(a) => update[a].replica \in Replicas /\ update[a].patch \in Patches

LEMMA FreeFields ==
  /\ Free.pc = "free" /\ Free.stale = FALSE
  /\ Free = [pc |-> Free.pc, replica |-> Free.replica, patch |-> Free.patch,
             doc |-> Free.doc, stale |-> Free.stale]
BY DEF Free

LEMMA ReadFields ==
  ASSUME Shape, NEW a \in Admins, NEW r \in Replicas, NEW patch \in Patches,
         ReadSettings(a, r, patch)
  PROVE  /\ update'[a] = [pc |-> "save", replica |-> r, patch |-> patch,
                          doc |-> Patched(stored, patch), stale |-> FALSE]
         /\ update' = [b \in Admins |-> update'[b]]
         /\ \A b \in Admins \ {a} : update'[b] = update[b]
<1>1. update' = [update EXCEPT ![a] = [pc |-> "save", replica |-> r, patch |-> patch,
                                  doc |-> Patched(stored, patch), stale |-> FALSE]]
  BY DEF ReadSettings
<1>2. QED
  BY <1>1 DEF Shape

LEMMA SaveFields ==
  ASSUME Shape, NEW a \in Admins, SaveSettings(a)
  PROVE  /\ update' = [b \in Admins |-> update'[b]]
         /\ update'[a] = [pc |-> "replace", replica |-> update[a].replica,
                          patch |-> update[a].patch, doc |-> update[a].doc,
                          stale |-> update[a].stale]
         /\ \A b \in Admins \ {a} :
              update'[b] = [pc |-> update[b].pc, replica |-> update[b].replica,
                            patch |-> update[b].patch, doc |-> update[b].doc,
                            stale |-> (update[b].stale \/ update[b].pc = "save")]
<1>1. update' = [b \in Admins |->
                   IF b = a THEN [update[a] EXCEPT !.pc = "replace"]
                   ELSE [update[b] EXCEPT !.stale = (@ \/ update[b].pc = "save")]]
  BY DEF SaveSettings
<1>2. [update[a] EXCEPT !.pc = "replace"] =
        [pc |-> "replace", replica |-> update[a].replica, patch |-> update[a].patch,
         doc |-> update[a].doc, stale |-> update[a].stale]
  BY DEF Shape
<1>3. ASSUME NEW b \in Admins \ {a}
      PROVE  update'[b] = [pc |-> update[b].pc, replica |-> update[b].replica,
                           patch |-> update[b].patch, doc |-> update[b].doc,
                           stale |-> (update[b].stale \/ update[b].pc = "save")]
  <2>1. update'[b] = [update[b] EXCEPT !.stale = (@ \/ update[b].pc = "save")]
    BY <1>1
  <2>2. QED
    BY <2>1 DEF Shape
<1>4. update'[a] = [update[a] EXCEPT !.pc = "replace"] /\ update' = [b \in Admins |-> update'[b]]
  BY <1>1
<1>5. QED
  BY <1>2, <1>3, <1>4

LEMMA FreedSlots ==
  ASSUME Shape, NEW S \in SUBSET Admins,
         update' = [a \in Admins |-> IF a \in S THEN Free ELSE update[a]],
         snapshot' = [r \in Replicas |-> snapshot'[r]]
  PROVE  Shape'
BY FreeFields DEF Shape, InFlight

LEMMA ShapePreserved == Shape /\ [Next]_vars => Shape'
<1> SUFFICES ASSUME Shape, [Next]_vars PROVE Shape'
  OBVIOUS
<1>1. ASSUME NEW a \in Admins, NEW r \in Replicas, NEW patch \in Patches,
             ReadSettings(a, r, patch)
      PROVE  Shape'
  <2>1. snapshot' = snapshot
    BY <1>1 DEF ReadSettings
  <2>2. update'[a] = [pc |-> "save", replica |-> r, patch |-> patch,
                      doc |-> Patched(stored, patch), stale |-> FALSE]
    BY <1>1, ReadFields
  <2>3. update' = [b \in Admins |-> update'[b]]
        /\ \A b \in Admins \ {a} : update'[b] = update[b]
    BY <1>1, ReadFields
  <2>4. update'[a].pc = "save" /\ update'[a].replica = r /\ update'[a].patch = patch
        /\ update'[a].doc = Patched(stored, patch) /\ update'[a].stale = FALSE
    BY <2>2
  <2>5. update'[a] = [pc |-> update'[a].pc, replica |-> update'[a].replica,
                      patch |-> update'[a].patch, doc |-> update'[a].doc,
                      stale |-> update'[a].stale]
    BY <2>2, <2>4
  <2>6. QED
    BY <2>1, <2>3, <2>4, <2>5 DEF Shape, InFlight
<1>2. ASSUME NEW a \in Admins, SaveSettings(a) PROVE Shape'
  <2>1. update[a].pc = "save" /\ snapshot' = snapshot
    BY <1>2 DEF SaveSettings
  <2>2. update' = [b \in Admins |-> update'[b]]
    BY <1>2, SaveFields
  <2>3. ASSUME NEW b \in Admins
        PROVE  /\ update'[b] = [pc |-> update'[b].pc, replica |-> update'[b].replica,
                                patch |-> update'[b].patch, doc |-> update'[b].doc,
                                stale |-> update'[b].stale]
               /\ update'[b].pc \in {"free", "save", "replace"}
               /\ update'[b].stale \in BOOLEAN
               /\ update'[b].replica = update[b].replica
               /\ update'[b].patch = update[b].patch
               /\ InFlight(b)' => InFlight(b)
    <3>1. CASE b = a
      <4>1. update'[a] = [pc |-> "replace", replica |-> update[a].replica,
                          patch |-> update[a].patch, doc |-> update[a].doc,
                          stale |-> update[a].stale]
        BY <1>2, SaveFields
      <4>2. QED
        BY <3>1, <4>1, <2>1 DEF Shape, InFlight
    <3>2. CASE b # a
      <4>1. update'[b] = [pc |-> update[b].pc, replica |-> update[b].replica,
                          patch |-> update[b].patch, doc |-> update[b].doc,
                          stale |-> (update[b].stale \/ update[b].pc = "save")]
        BY <1>2, <3>2, SaveFields
      <4>2. QED
        BY <4>1 DEF Shape, InFlight
    <3>3. QED
      BY <3>1, <3>2
  <2>4. QED
    BY <2>1, <2>2, <2>3 DEF Shape, InFlight
<1>3. ASSUME NEW a \in Admins, ReplaceOperator(a) \/ DropUpdate(a) PROVE Shape'
  <2>1. update' = [b \in Admins |-> IF b \in {a} THEN Free ELSE update[b]]
    BY <1>3 DEF ReplaceOperator, DropUpdate, Shape
  <2>2. snapshot' = [r \in Replicas |-> snapshot'[r]]
    BY <1>3 DEF ReplaceOperator, DropUpdate, Lost, Shape
  <2>3. QED
    BY <2>1, <2>2, FreedSlots
<1>4. ASSUME NEW r \in Replicas, Restart(r) PROVE Shape'
  <2> DEFINE S == {a \in Admins : update[a].replica = r}
  <2>1. update' = [b \in Admins |-> IF b \in S THEN Free ELSE update[b]]
    BY <1>4 DEF Restart
  <2>2. snapshot' = [x \in Replicas |-> snapshot'[x]]
    BY <1>4 DEF Restart, Shape
  <2>3. QED
    BY <2>1, <2>2, FreedSlots
<1>5. CASE UNCHANGED vars
  BY <1>5 DEF vars, Shape, InFlight
<1>6. QED
  BY <1>1, <1>2, <1>3, <1>4, <1>5 DEF Next

-----------------------------------------------------------------------------
(* Types                                                                   *)

TypeInv ==
  /\ Shape /\ TypeOK
  /\ \A a \in Admins : DOMAIN update[a].doc \subseteq Fields

LEMMA TypeInitially == Init => TypeInv
<1> SUFFICES ASSUME Init PROVE TypeInv
  OBVIOUS
<1>1. Shape
  BY FreeFields DEF Init, Shape, InFlight
<1>2. DOMAIN Empty = {} /\ DOMAIN OperatorFromConfig = Fields /\ DOMAIN Free.doc = {}
  BY EmptyHasNothing, OverlayIsTotal DEF OperatorFromConfig, Free
<1>3. \A a \in Admins : update[a] = Free
  BY DEF Init
<1>4. TypeOK
  <2>1. \A a \in Admins : /\ DOMAIN update[a] = DOMAIN Free
                          /\ update[a].pc \in {"free", "save", "replace"}
                          /\ ~InFlight(a)
    BY <1>3, FreeFields DEF InFlight
  <2>2. \A r \in Replicas : DOMAIN snapshot[r] = Fields
    BY <1>2 DEF Init
  <2>3. \A doc \in saved \union {stored, latest} : DOMAIN doc \subseteq Fields
    BY <1>2 DEF Init
  <2>4. updates \in 0..MaxUpdates /\ restarts \in 0..MaxRestarts /\ drops \in 0..MaxDrops
    BY Bounds DEF Init
  <2>5. QED
    BY <2>1, <2>2, <2>3, <2>4 DEF Init, TypeOK
<1>5. QED
  BY <1>1, <1>2, <1>3, <1>4 DEF TypeInv

\* The slots' part of TypeOK is a part of Shape.
SlotsOK ==
  \A a \in Admins : /\ DOMAIN update[a] = DOMAIN Free
                    /\ update[a].pc \in {"free", "save", "replace"}
                    /\ InFlight(a) => update[a].replica \in Replicas

LEMMA SlotsTyped == Shape => SlotsOK
<1> SUFFICES ASSUME Shape, NEW a \in Admins
             PROVE  /\ DOMAIN update[a] = DOMAIN Free
                    /\ update[a].pc \in {"free", "save", "replace"}
                    /\ InFlight(a) => update[a].replica \in Replicas
  BY DEF SlotsOK
<1>1. DOMAIN update[a] = {"pc", "replica", "patch", "doc", "stale"}
  BY DEF Shape
<1>2. DOMAIN Free = {"pc", "replica", "patch", "doc", "stale"}
  BY DEF Free
<1>3. QED
  BY <1>1, <1>2 DEF Shape

LEMMA PatchedFields ==
  ASSUME NEW doc, DOMAIN doc \subseteq Fields, NEW patch \in Patches
  PROVE  DOMAIN Patched(doc, patch) \subseteq Fields
<1>1. DOMAIN Clamped(patch) = DOMAIN patch /\ DOMAIN patch \subseteq Fields
  BY ClampedValues, SettingsAssumption DEF SettingsAssumption, Fields
<1>2. DOMAIN Patched(doc, patch) = DOMAIN doc \union DOMAIN Clamped(patch)
  BY MergedValues DEF Patched
<1>3. QED
  BY <1>1, <1>2

LEMMA TypePreserved == TypeInv /\ [Next]_vars => TypeInv'
<1> SUFFICES ASSUME TypeInv, [Next]_vars PROVE TypeInv'
  OBVIOUS
<1>1. Shape /\ TypeOK /\ Shape'
  BY ShapePreserved DEF TypeInv
<1>2. \A a \in Admins :
        /\ DOMAIN update'[a] = DOMAIN Free
        /\ update'[a].pc \in {"free", "save", "replace"}
        /\ InFlight(a)' => update'[a].replica \in Replicas
  <2>1. SlotsOK'
    BY <1>1, SlotsTyped, PTL
  <2>2. QED
    BY <2>1 DEF SlotsOK
<1>3. DOMAIN Free.doc = {}
  BY EmptyHasNothing DEF Free
<1>4. ASSUME NEW a \in Admins, NEW r \in Replicas, NEW patch \in Patches,
             ReadSettings(a, r, patch)
      PROVE  TypeInv'
  <2>1. update'[a].doc = Patched(stored, patch)
        /\ \A b \in Admins \ {a} : update'[b] = update[b]
    <3>1. /\ update'[a] = [pc |-> "save", replica |-> r, patch |-> patch,
                            doc |-> Patched(stored, patch), stale |-> FALSE]
          /\ \A b \in Admins \ {a} : update'[b] = update[b]
      BY <1>1, <1>4, ReadFields
    <3>2. QED
      BY <3>1
  <2>2. \A b \in Admins : DOMAIN update'[b].doc \subseteq Fields
    BY <2>1, PatchedFields DEF TypeInv, TypeOK
  <2>3. updates' \in 0..MaxUpdates
    BY <1>1, <1>4, Bounds DEF ReadSettings, TypeOK
  <2>4. TypeOK'
    BY <1>1, <1>2, <1>4, <2>3 DEF ReadSettings, TypeOK
  <2>5. QED
    BY <1>1, <2>2, <2>4 DEF TypeInv
<1>5. ASSUME NEW a \in Admins, SaveSettings(a) PROVE TypeInv'
  <2>1. \A b \in Admins : update'[b].doc = update[b].doc
    <3>1. update'[a].doc = update[a].doc
      <4>1. update'[a] = [pc |-> "replace", replica |-> update[a].replica,
                          patch |-> update[a].patch, doc |-> update[a].doc,
                          stale |-> update[a].stale]
        BY <1>1, <1>5, SaveFields
      <4>2. QED
        BY <4>1
    <3>2. ASSUME NEW b \in Admins \ {a} PROVE update'[b].doc = update[b].doc
      <4>1. update'[b] = [pc |-> update[b].pc, replica |-> update[b].replica,
                          patch |-> update[b].patch, doc |-> update[b].doc,
                          stale |-> (update[b].stale \/ update[b].pc = "save")]
        BY <1>1, <1>5, SaveFields
      <4>2. QED
        BY <4>1
    <3>3. QED
      BY <3>1, <3>2
  <2>2. DOMAIN update[a].doc \subseteq Fields /\ update[a].patch \in Patches
        /\ update[a].replica \in Replicas
    BY <1>1, <1>5 DEF TypeInv, Shape, SaveSettings, InFlight
  <2>3. DOMAIN latest' \subseteq Fields
    <3>1. DOMAIN Clamped(update[a].patch) = DOMAIN update[a].patch
          /\ DOMAIN update[a].patch \subseteq Fields
      BY <2>2, ClampedValues, SettingsAssumption DEF SettingsAssumption, Fields
    <3>2. DOMAIN latest' = DOMAIN latest \union DOMAIN Clamped(update[a].patch)
      BY <1>5, MergedValues DEF SaveSettings
    <3>3. QED
      BY <1>1, <3>1, <3>2 DEF TypeOK
  <2>4. /\ stored' = update[a].doc /\ saved' = saved \union {update[a].doc}
        /\ crossed' \subseteq crossed \union Fields
        /\ writers' = writers \union {update[a].replica}
        /\ UNCHANGED <<snapshot, mixed, updates, restarts, drops>>
    BY <1>5 DEF SaveSettings
  <2>5. TypeOK'
    BY <1>1, <1>2, <2>2, <2>3, <2>4 DEF TypeOK
  <2>6. QED
    BY <1>1, <2>1, <2>5 DEF TypeInv
<1>6. ASSUME NEW a \in Admins, ReplaceOperator(a) \/ DropUpdate(a) PROVE TypeInv'
  <2>1. \A b \in Admins : DOMAIN update'[b].doc \subseteq Fields
    BY <1>1, <1>3, <1>6 DEF ReplaceOperator, DropUpdate, TypeInv, Shape
  <2>2. \A r \in Replicas : DOMAIN snapshot'[r] = Fields
    <3>1. DOMAIN Effective(update[a]) = Fields
      BY OverlayIsTotal DEF Effective, TypeInv
    <3>2. QED
      BY <1>1, <1>6, <3>1 DEF ReplaceOperator, DropUpdate, Lost, TypeOK, Shape
  <2>3. drops' \in 0..MaxDrops
    BY <1>1, <1>6, Bounds DEF ReplaceOperator, DropUpdate, TypeOK
  <2>4. mixed' \in BOOLEAN /\ UNCHANGED <<stored, saved, latest, crossed, writers, updates, restarts>>
    BY <1>1, <1>6 DEF ReplaceOperator, DropUpdate, TypeOK
  <2>5. TypeOK'
    BY <1>1, <1>2, <2>2, <2>3, <2>4 DEF TypeOK
  <2>6. QED
    BY <1>1, <2>1, <2>5 DEF TypeInv
<1>7. ASSUME NEW r \in Replicas, Restart(r) PROVE TypeInv'
  <2>1. \A b \in Admins : DOMAIN update'[b].doc \subseteq Fields
    BY <1>3, <1>7 DEF Restart, TypeInv
  <2>2. DOMAIN Overlay(stored) = Fields /\ DOMAIN OperatorFromConfig = Fields
    BY <1>1, OverlayIsTotal, EmptyHasNothing DEF OperatorFromConfig, TypeOK
  <2>3. \A x \in Replicas : DOMAIN snapshot'[x] = Fields
    BY <1>1, <1>7, <2>2 DEF Restart, TypeOK, Shape
  <2>4. restarts' \in 0..MaxRestarts /\ drops' \in 0..MaxDrops /\ mixed' \in BOOLEAN
    <3>1. restarts < MaxRestarts /\ restarts' = restarts + 1
          /\ \/ drops' = drops
             \/ drops < MaxDrops /\ drops' = drops + 1
      BY <1>7 DEF Restart
    <3>2. restarts' \in 0..MaxRestarts /\ drops' \in 0..MaxDrops
      BY <1>1, <3>1, Bounds DEF TypeOK
    <3>3. mixed' = mixed \/ mixed' = TRUE
      BY <1>7 DEF Restart
    <3>4. QED
      BY <1>1, <3>2, <3>3 DEF TypeOK
  <2>5. TypeOK'
    BY <1>1, <1>2, <1>7, <2>3, <2>4 DEF Restart, TypeOK
  <2>6. QED
    BY <1>1, <2>1, <2>5 DEF TypeInv
<1>8. CASE UNCHANGED vars
  BY <1>8 DEF vars, TypeInv, TypeOK, Shape, InFlight
<1>9. QED
  BY <1>4, <1>5, <1>6, <1>7, <1>8 DEF Next

\* Documents hold settings the configuration knows, and every copy holds them
\* all, for any number of administrators, replicas and settings.
THEOREM SettingsTypeCorrect == Spec => []TypeOK
<1>1. TypeInv => TypeOK
  BY DEF TypeInv
<1>2. QED
  BY <1>1, TypeInitially, TypePreserved, PTL DEF Spec

-----------------------------------------------------------------------------
(* Copies were saved                                                       *)

\* What a slot of update holds after a step, where it is not a new one.
LEMMA SlotAfter ==
  ASSUME TypeInv, [Next]_vars, NEW a \in Admins, InFlight(a)', InFlight(a)
  PROVE  /\ update'[a].doc = update[a].doc /\ update'[a].patch = update[a].patch
         /\ update'[a].replica = update[a].replica
<1>1. Shape
  BY DEF TypeInv
<1>2. CASE update'[a] = update[a]
  BY <1>2
<1>3. ASSUME NEW b \in Admins, NEW r \in Replicas, NEW patch \in Patches,
             ReadSettings(b, r, patch)
      PROVE  update'[a] = update[a]
  BY <1>1, <1>3, ReadFields DEF ReadSettings
<1>4. ASSUME NEW b \in Admins, SaveSettings(b)
      PROVE  /\ update'[a].doc = update[a].doc /\ update'[a].patch = update[a].patch
             /\ update'[a].replica = update[a].replica
  <2>1. CASE a = b
    <3>1. update'[b] = [pc |-> "replace", replica |-> update[b].replica,
                        patch |-> update[b].patch, doc |-> update[b].doc,
                        stale |-> update[b].stale]
      BY <1>1, <1>4, SaveFields
    <3>2. QED
      BY <2>1, <3>1
  <2>2. CASE a # b
    <3>1. update'[a] = [pc |-> update[a].pc, replica |-> update[a].replica,
                        patch |-> update[a].patch, doc |-> update[a].doc,
                        stale |-> (update[a].stale \/ update[a].pc = "save")]
      BY <1>1, <1>4, <2>2, SaveFields
    <3>2. QED
      BY <3>1
  <2>3. QED
    BY <2>1, <2>2
<1>5. ASSUME NEW b \in Admins, ReplaceOperator(b) \/ DropUpdate(b)
      PROVE  update'[a] = update[a]
  BY <1>1, <1>5, FreeFields DEF ReplaceOperator, DropUpdate, Shape, InFlight
<1>6. ASSUME NEW r \in Replicas, Restart(r) PROVE update'[a] = update[a]
  BY <1>6, FreeFields DEF Restart, InFlight
<1>7. CASE UNCHANGED vars
  BY <1>7 DEF vars
<1>8. QED
  BY <1>2, <1>3, <1>4, <1>5, <1>6, <1>7 DEF Next

\* When a step may leave a slot at "replace".
LEMMA ReplaceAfter ==
  ASSUME TypeInv, [Next]_vars, NEW a \in Admins, update'[a].pc = "replace"
  PROVE  \/ update[a].pc = "replace" /\ UNCHANGED stored
         \/ update[a].pc = "replace" /\ \E b \in Admins \ {a} : SaveSettings(b)
         \/ SaveSettings(a)
<1>1. Shape
  BY DEF TypeInv
<1>2. ASSUME NEW b \in Admins, NEW r \in Replicas, NEW patch \in Patches,
             ReadSettings(b, r, patch)
      PROVE  update[a].pc = "replace" /\ UNCHANGED stored
  <2>1. /\ update'[b] = [pc |-> "save", replica |-> r, patch |-> patch,
                         doc |-> Patched(stored, patch), stale |-> FALSE]
        /\ \A c \in Admins \ {b} : update'[c] = update[c]
    BY <1>1, <1>2, ReadFields
  <2>2. update'[b].pc = "save"
    BY <2>1
  <2>3. QED
    BY <1>2, <2>1, <2>2 DEF ReadSettings
<1>3. ASSUME NEW b \in Admins, SaveSettings(b), b # a PROVE update[a].pc = "replace"
  <2>1. update'[a] = [pc |-> update[a].pc, replica |-> update[a].replica,
                      patch |-> update[a].patch, doc |-> update[a].doc,
                      stale |-> (update[a].stale \/ update[a].pc = "save")]
    BY <1>1, <1>3, SaveFields
  <2>2. QED
    BY <2>1
<1>4. ASSUME NEW b \in Admins, ReplaceOperator(b) \/ DropUpdate(b)
      PROVE  update[a].pc = "replace" /\ UNCHANGED stored
  BY <1>1, <1>4, FreeFields DEF ReplaceOperator, DropUpdate, Shape
<1>5. ASSUME NEW r \in Replicas, Restart(r)
      PROVE  update[a].pc = "replace" /\ UNCHANGED stored
  BY <1>5, FreeFields DEF Restart
<1>6. CASE UNCHANGED vars
  BY <1>6 DEF vars
<1>7. QED
  BY <1>2, <1>3, <1>4, <1>5, <1>6 DEF Next

SavedInv ==
  /\ Empty \in saved /\ stored \in saved
  /\ \A a \in Admins : update[a].pc = "replace" => update[a].doc \in saved
  /\ SnapshotsWereSaved

LEMMA SavedPreserved == TypeInv /\ SavedInv /\ [Next]_vars => SavedInv'
<1> SUFFICES ASSUME TypeInv, SavedInv, [Next]_vars PROVE SavedInv'
  OBVIOUS
<1>1. saved \subseteq saved' /\ stored' \in saved'
  BY DEF Next, vars, SavedInv, ReadSettings, SaveSettings, ReplaceOperator, DropUpdate, Restart
<1>2. ASSUME NEW a \in Admins, update'[a].pc = "replace" PROVE update'[a].doc \in saved'
  <2>1. InFlight(a) /\ InFlight(a)'
    BY <1>2, ReplaceAfter DEF InFlight, SaveSettings
  <2>2. update'[a].doc = update[a].doc
    BY <2>1, SlotAfter
  <2>3. CASE update[a].pc = "replace"
    BY <1>1, <2>2, <2>3 DEF SavedInv
  <2>4. CASE SaveSettings(a)
    BY <2>2, <2>4 DEF SaveSettings
  <2>5. QED
    BY <1>2, <2>3, <2>4, ReplaceAfter
<1>3. ASSUME NEW r \in Replicas PROVE \E doc \in saved' : snapshot'[r] = Overlay(doc)
  <2>1. PICK doc \in saved : snapshot[r] = Overlay(doc)
    BY DEF SavedInv, SnapshotsWereSaved
  <2>2. CASE snapshot'[r] = snapshot[r]
    BY <1>1, <2>1, <2>2
  <2>3. ASSUME NEW a \in Admins, ReplaceOperator(a)
        PROVE  snapshot'[r] = snapshot[r] \/ snapshot'[r] = Overlay(update[a].doc)
    BY <2>3 DEF ReplaceOperator, Effective, TypeInv, Shape
  <2>4. ASSUME NEW x \in Replicas, Restart(x)
        PROVE  snapshot'[r] \in {snapshot[r], Overlay(stored), Overlay(Empty)}
    BY <2>4 DEF Restart, OperatorFromConfig, TypeInv, Shape
  <2>5. \/ snapshot' = snapshot
        \/ \E a \in Admins : ReplaceOperator(a)
        \/ \E x \in Replicas : Restart(x)
    BY DEF Next, vars, ReadSettings, SaveSettings, DropUpdate, Lost
  <2>6. QED
    BY <1>1, <2>2, <2>3, <2>4, <2>5 DEF SavedInv, ReplaceOperator
<1>4. QED
  BY <1>1, <1>2, <1>3 DEF SavedInv, SnapshotsWereSaved

\* A replica runs on a document the row has held, whichever updates and loads
\* fail.
THEOREM CopiesWereSaved == Spec => []SnapshotsWereSaved
<1>1. Init => SavedInv
  BY FreeFields DEF Init, SavedInv, SnapshotsWereSaved, OperatorFromConfig
<1>2. SavedInv => SnapshotsWereSaved
  BY DEF SavedInv
<1>3. QED
  BY <1>1, <1>2, TypeInitially, TypePreserved, SavedPreserved, PTL DEF Spec

-----------------------------------------------------------------------------
(* The replica that serves every update                                    *)

\* Unless updates have mixed, one at most is in progress; until its copy is made,
\* and after, the row is its document.
CurrentInv ==
  ~mixed =>
    /\ \A a, b \in Admins : InFlight(a) /\ InFlight(b) => a = b
    /\ \A a \in Admins : update[a].pc = "replace" =>
         update[a].doc = stored /\ update[a].replica \in writers
    /\ \A r \in Replicas :
         writers \subseteq {r} /\ (\A a \in Admins : update[a].pc # "replace") =>
           snapshot[r] = Overlay(stored)

LEMMA CurrentPreserved == TypeInv /\ CurrentInv /\ [Next]_vars => CurrentInv'
<1> SUFFICES ASSUME TypeInv, CurrentInv, [Next]_vars, ~mixed'
             PROVE  /\ (\A a, b \in Admins : InFlight(a) /\ InFlight(b) => a = b)'
                    /\ (\A a \in Admins : update[a].pc = "replace" =>
                          update[a].doc = stored /\ update[a].replica \in writers)'
                    /\ (\A r \in Replicas :
                          writers \subseteq {r} /\ (\A a \in Admins : update[a].pc # "replace")
                            => snapshot[r] = Overlay(stored))'
  BY DEF CurrentInv
<1> DEFINE Goal == /\ \A a, b \in Admins : InFlight(a) /\ InFlight(b) => a = b
                   /\ \A a \in Admins : update[a].pc = "replace" =>
                        update[a].doc = stored /\ update[a].replica \in writers
                   /\ \A r \in Replicas :
                        writers \subseteq {r} /\ (\A a \in Admins : update[a].pc # "replace")
                          => snapshot[r] = Overlay(stored)
<1>1. Shape
  BY DEF TypeInv
<1>2. Goal
  BY DEF CurrentInv, Next, vars, ReadSettings, SaveSettings, ReplaceOperator, DropUpdate,
         Restart
<1>3. ASSUME NEW a \in Admins, NEW r \in Replicas, NEW patch \in Patches,
             ReadSettings(a, r, patch)
      PROVE  Goal'
  <2>1. /\ update'[a] = [pc |-> "save", replica |-> r, patch |-> patch,
                         doc |-> Patched(stored, patch), stale |-> FALSE]
        /\ \A b \in Admins \ {a} : update'[b] = update[b]
    BY <1>1, <1>3, ReadFields
  <2>2. update'[a].pc = "save"
    BY <2>1
  <2>3. \A b \in Admins : ~InFlight(b)
    BY <1>3 DEF ReadSettings
  <2>4. UNCHANGED <<stored, snapshot, writers>>
    BY <1>3 DEF ReadSettings
  <2>5. \A b \in Admins : update[b].pc # "replace" /\ update'[b].pc # "replace"
    BY <2>1, <2>2, <2>3 DEF InFlight
  <2>6. (\A b, c \in Admins : InFlight(b) /\ InFlight(c) => b = c)'
    BY <2>1, <2>3 DEF InFlight
  <2>7. QED
    BY <1>2, <2>4, <2>5, <2>6
<1>4. ASSUME NEW a \in Admins, SaveSettings(a) PROVE Goal'
  <2>1. update'[a] = [pc |-> "replace", replica |-> update[a].replica,
                      patch |-> update[a].patch, doc |-> update[a].doc,
                      stale |-> update[a].stale]
    BY <1>1, <1>4, SaveFields
  <2>2. update'[a].pc = "replace" /\ update'[a].doc = stored'
        /\ update'[a].replica \in writers'
    BY <1>4, <2>1 DEF SaveSettings
  <2>3. ASSUME NEW b \in Admins \ {a} PROVE ~InFlight(b)'
    <3>1. update'[b] = [pc |-> update[b].pc, replica |-> update[b].replica,
                        patch |-> update[b].patch, doc |-> update[b].doc,
                        stale |-> (update[b].stale \/ update[b].pc = "save")]
      BY <1>1, <1>4, SaveFields
    <3>2. InFlight(a) /\ ~InFlight(b)
      BY <1>2, <1>4 DEF SaveSettings, InFlight
    <3>3. QED
      BY <3>1, <3>2 DEF InFlight
  <2>4. \A b \in Admins \ {a} : update'[b].pc # "replace"
    BY <2>3 DEF InFlight
  <2>5. QED
    BY <2>2, <2>3, <2>4
<1>5. ASSUME NEW a \in Admins, ReplaceOperator(a) PROVE Goal'
  <2>1. update[a].pc = "replace" /\ UNCHANGED <<stored, writers>>
        /\ update' = [update EXCEPT ![a] = Free]
        /\ snapshot' = [snapshot EXCEPT ![update[a].replica] = Overlay(update[a].doc)]
    BY <1>5 DEF ReplaceOperator, Effective
  <2>2. InFlight(a) /\ \A b \in Admins \ {a} : ~InFlight(b)
    BY <1>2, <2>1 DEF InFlight
  <2>3. \A b \in Admins : ~InFlight(b)'
    BY <1>1, <2>1, <2>2, FreeFields DEF Shape, InFlight
  <2>4. update[a].doc = stored /\ update[a].replica \in writers
    BY <1>2, <2>1
  <2>5. \A r \in Replicas : writers \subseteq {r} => snapshot'[r] = Overlay(stored)
    BY <1>1, <2>1, <2>4 DEF Shape
  <2>6. (\A r \in Replicas :
            writers \subseteq {r} /\ (\A b \in Admins : update[b].pc # "replace")
              => snapshot[r] = Overlay(stored))'
    BY <2>1, <2>5
  <2>7. \A b \in Admins : update'[b].pc # "replace"
    BY <2>3 DEF InFlight
  <2>8. QED
    BY <2>3, <2>6, <2>7
<1>6. ASSUME NEW a \in Admins, DropUpdate(a) PROVE Goal'
  <2>1. update[a].pc # "replace" /\ UNCHANGED <<stored, writers, snapshot>>
        /\ update' = [update EXCEPT ![a] = Free]
    BY <1>6 DEF DropUpdate, Lost
  <2>2. update'[a] = Free /\ \A b \in Admins \ {a} : update'[b] = update[b]
    BY <1>1, <2>1 DEF Shape
  <2>3. \A b \in Admins : update'[b].pc = "replace" <=> update[b].pc = "replace"
    BY <2>1, <2>2, FreeFields
  <2>4. (\A b, c \in Admins : InFlight(b) /\ InFlight(c) => b = c)'
    BY <1>2, <2>2, FreeFields DEF InFlight
  <2>5. (\A b \in Admins : update[b].pc = "replace" =>
           update[b].doc = stored /\ update[b].replica \in writers)'
    BY <1>2, <2>1, <2>2, FreeFields
  <2>6. QED
    BY <1>2, <2>1, <2>3, <2>4, <2>5
<1>7. ASSUME NEW x \in Replicas, Restart(x) PROVE Goal'
  <2>1. /\ snapshot' = [snapshot EXCEPT ![x] = Overlay(stored)]
        /\ update' = [a \in Admins |-> IF update[a].replica = x THEN Free ELSE update[a]]
        /\ UNCHANGED <<stored, writers>>
    BY <1>7 DEF Restart
  <2>2. (\A b, c \in Admins : InFlight(b) /\ InFlight(c) => b = c)'
    BY <1>2, <2>1, FreeFields DEF InFlight
  <2>3. (\A b \in Admins : update[b].pc = "replace" =>
           update[b].doc = stored /\ update[b].replica \in writers)'
    BY <1>2, <2>1, FreeFields
  <2>4. ASSUME NEW r \in Replicas, writers \subseteq {r},
               \A a \in Admins : update'[a].pc # "replace"
        PROVE  snapshot'[r] = Overlay(stored)
    <3>1. CASE r = x
      BY <1>1, <2>1, <3>1 DEF Shape
    <3>2. CASE r # x
      <4>1. \A a \in Admins : update[a].pc # "replace"
        BY <1>2, <2>1, <2>4, <3>2
      <4>2. QED
        BY <1>1, <1>2, <2>1, <2>4, <3>2, <4>1 DEF Shape
    <3>3. QED
      BY <3>1, <3>2
  <2>5. (\A r \in Replicas :
            writers \subseteq {r} /\ (\A b \in Admins : update[b].pc # "replace")
              => snapshot[r] = Overlay(stored))'
    BY <2>1, <2>4
  <2>6. QED
    BY <2>2, <2>3, <2>5
<1>8. CASE UNCHANGED vars
  BY <1>2, <1>8 DEF vars, InFlight
<1>9. QED
  BY <1>3, <1>4, <1>5, <1>6, <1>7, <1>8 DEF Next

\* While updates come one after the other and end, one replica that serves them
\* all runs on what is stored, whenever replicas restart.
THEOREM ServerStaysCurrent == Spec => []ServingReplicaIsCurrent
<1>1. Init => CurrentInv
  BY FreeFields DEF Init, CurrentInv, InFlight, OperatorFromConfig
<1>2. CurrentInv => ServingReplicaIsCurrent
  BY DEF CurrentInv, ServingReplicaIsCurrent, InFlight
<1>3. QED
  BY <1>1, <1>2, TypeInitially, TypePreserved, CurrentPreserved, PTL DEF Spec

-----------------------------------------------------------------------------
(* Lost updates                                                            *)

\* Both documents have the setting, with one value, or neither has.
Same(one, other, f) ==
  /\ f \in DOMAIN one <=> f \in DOMAIN other
  /\ f \in DOMAIN one => one[f] = other[f]

\* A document about to be saved holds what its patch says; and the row for the
\* rest, while no other update has saved.
StickInv ==
  /\ \A f \in Fields \ crossed : Same(stored, latest, f)
  /\ \A a \in Admins : update[a].pc = "save" =>
       \A f \in DOMAIN update[a].patch :
         /\ f \in DOMAIN update[a].doc
         /\ update[a].doc[f] = Clamped(update[a].patch)[f]
  /\ \A a \in Admins : update[a].pc = "save" /\ ~update[a].stale =>
       \A f \in Fields \ DOMAIN update[a].patch : Same(update[a].doc, stored, f)

LEMMA SaveSticks ==
  ASSUME TypeInv, StickInv, NEW a \in Admins, SaveSettings(a)
  PROVE  StickInv'
<1> DEFINE patch == update[a].patch
           doc   == update[a].doc
<1>1. Shape
  BY DEF TypeInv
<1>2. /\ update[a].pc = "save" /\ stored' = doc /\ latest' = Merge(latest, Clamped(patch))
      /\ crossed' = (crossed \union IF update[a].stale THEN Fields ELSE {}) \ DOMAIN patch
  BY DEF SaveSettings
<1>3. DOMAIN Clamped(patch) = DOMAIN patch
  BY ClampedValues
<1>4. /\ DOMAIN latest' = DOMAIN latest \union DOMAIN patch
      /\ \A f \in DOMAIN patch : latest'[f] = Clamped(patch)[f]
      /\ \A f \in DOMAIN latest \ DOMAIN patch : latest'[f] = latest[f]
  <2> DEFINE c == Clamped(patch)
  <2>1. latest' = Merge(latest, c) /\ DOMAIN c = DOMAIN patch
    BY <1>2, <1>3
  <2> HIDE DEF c
  <2>2. /\ DOMAIN Merge(latest, c) = DOMAIN latest \union DOMAIN c
        /\ \A f \in DOMAIN c : Merge(latest, c)[f] = c[f]
        /\ \A f \in DOMAIN latest \ DOMAIN c : Merge(latest, c)[f] = latest[f]
    BY MergedValues
  <2>3. /\ DOMAIN latest' = DOMAIN latest \union DOMAIN patch
        /\ \A f \in DOMAIN patch : latest'[f] = c[f]
        /\ \A f \in DOMAIN latest \ DOMAIN patch : latest'[f] = latest[f]
    BY <2>1, <2>2
  <2>4. QED
    BY <2>3 DEF c
<1>5. ASSUME NEW f \in Fields \ crossed' PROVE Same(stored, latest, f)'
  <2>1. CASE f \in DOMAIN patch
    <3>1. f \in DOMAIN doc /\ doc[f] = Clamped(patch)[f]
      BY <1>2, <2>1 DEF StickInv
    <3>2. QED
      BY <1>2, <1>4, <2>1, <3>1 DEF Same
  <2>2. CASE f \notin DOMAIN patch
    <3>1. f \notin crossed /\ ~update[a].stale
      BY <1>2, <1>5, <2>2
    <3>2. Same(stored, latest, f) /\ Same(doc, stored, f)
      BY <1>2, <1>5, <2>2, <3>1 DEF StickInv
    <3>3. QED
      BY <1>2, <1>4, <2>2, <3>2 DEF Same
  <2>3. QED
    BY <2>1, <2>2
<1>6. update'[a].pc = "replace"
  <2>1. update'[a] = [pc |-> "replace", replica |-> update[a].replica,
                      patch |-> update[a].patch, doc |-> update[a].doc,
                      stale |-> update[a].stale]
    BY <1>1, SaveFields
  <2>2. QED
    BY <2>1
<1>7. ASSUME NEW b \in Admins, update'[b].pc = "save"
      PROVE  /\ update[b].pc = "save" /\ update'[b].patch = update[b].patch
             /\ update'[b].doc = update[b].doc /\ update'[b].stale
  <2>1. b # a
    BY <1>6, <1>7
  <2>2. update'[b] = [pc |-> update[b].pc, replica |-> update[b].replica,
                      patch |-> update[b].patch, doc |-> update[b].doc,
                      stale |-> (update[b].stale \/ update[b].pc = "save")]
    BY <1>1, <2>1, SaveFields
  <2>3. update[b].pc = "save"
    BY <1>7, <2>2
  <2>4. update'[b].stale = (update[b].stale \/ update[b].pc = "save")
    BY <2>2
  <2>5. update'[b].stale
    BY <2>3, <2>4
  <2>6. QED
    BY <2>2, <2>3, <2>5
<1>8. (\A b \in Admins : update[b].pc = "save" =>
         \A f \in DOMAIN update[b].patch :
           /\ f \in DOMAIN update[b].doc
           /\ update[b].doc[f] = Clamped(update[b].patch)[f])'
  BY <1>7 DEF StickInv
<1>9. QED
  BY <1>5, <1>7, <1>8 DEF StickInv

LEMMA ReadSticks ==
  ASSUME TypeInv, StickInv, NEW a \in Admins, NEW r \in Replicas, NEW patch \in Patches,
         ReadSettings(a, r, patch)
  PROVE  StickInv'
<1>1. Shape
  BY DEF TypeInv
<1>2. /\ update'[a] = [pc |-> "save", replica |-> r, patch |-> patch,
                       doc |-> Patched(stored, patch), stale |-> FALSE]
      /\ \A b \in Admins \ {a} : update'[b] = update[b]
  BY <1>1, ReadFields
<1>3. update'[a].patch = patch /\ update'[a].doc = Patched(stored, patch)
  BY <1>2
<1>4. UNCHANGED <<stored, latest, crossed>>
  BY DEF ReadSettings
<1>5. DOMAIN Clamped(patch) = DOMAIN patch
  BY ClampedValues
<1>6. /\ DOMAIN Patched(stored, patch) = DOMAIN stored \union DOMAIN Clamped(patch)
      /\ \A f \in DOMAIN Clamped(patch) : Patched(stored, patch)[f] = Clamped(patch)[f]
      /\ \A f \in DOMAIN stored \ DOMAIN Clamped(patch) : Patched(stored, patch)[f] = stored[f]
  BY MergedValues DEF Patched
<1>7. \A f \in DOMAIN patch : /\ f \in DOMAIN Patched(stored, patch)
                              /\ Patched(stored, patch)[f] = Clamped(patch)[f]
  BY <1>5, <1>6
<1>8. \A f \in Fields \ DOMAIN patch : Same(Patched(stored, patch), stored, f)
  BY <1>5, <1>6 DEF Same
<1>9. (\A b \in Admins : update[b].pc = "save" =>
         \A f \in DOMAIN update[b].patch :
           /\ f \in DOMAIN update[b].doc
           /\ update[b].doc[f] = Clamped(update[b].patch)[f])'
  BY <1>2, <1>3, <1>7 DEF StickInv
<1>10. (\A b \in Admins : update[b].pc = "save" /\ ~update[b].stale =>
          \A f \in Fields \ DOMAIN update[b].patch : Same(update[b].doc, stored, f))'
  BY <1>2, <1>3, <1>4, <1>8 DEF StickInv
<1>11. QED
  BY <1>4, <1>9, <1>10 DEF StickInv, Same

LEMMA StickPreserved == TypeInv /\ StickInv /\ [Next]_vars => StickInv'
<1> SUFFICES ASSUME TypeInv, StickInv, [Next]_vars PROVE StickInv'
  OBVIOUS
<1>1. ASSUME UNCHANGED <<stored, latest, crossed>>,
             \A a \in Admins : update'[a] = update[a] \/ update'[a] = Free
      PROVE  StickInv'
  BY <1>1, FreeFields DEF StickInv, Same
<1>2. ASSUME NEW a \in Admins, ReplaceOperator(a) \/ DropUpdate(a) PROVE StickInv'
  BY <1>1, <1>2 DEF ReplaceOperator, DropUpdate, TypeInv, Shape
<1>3. ASSUME NEW r \in Replicas, Restart(r) PROVE StickInv'
  BY <1>1, <1>3 DEF Restart
<1>4. CASE UNCHANGED vars
  BY <1>1, <1>4 DEF vars
<1>5. QED
  BY <1>2, <1>3, <1>4, ReadSticks, SaveSticks DEF Next

\* What was saved for a setting stays until another value is, or until an update
\* that had read an older row writes that back.
THEOREM SavedSettingsStick == Spec => []UpdatesStick
<1>1. Init => StickInv
  BY FreeFields DEF Init, StickInv, Same
<1>2. TypeInv /\ StickInv => UpdatesStick
  <2> SUFFICES ASSUME TypeInv, StickInv PROVE UpdatesStick
    OBVIOUS
  <2>1. \A f \in Fields \ crossed : Same(stored, latest, f)
    BY DEF StickInv
  <2>2. DOMAIN stored \subseteq Fields /\ DOMAIN latest \subseteq Fields
    BY DEF TypeInv, TypeOK
  <2>3. DOMAIN stored \ crossed = DOMAIN latest \ crossed
    BY <2>1, <2>2 DEF Same
  <2>4. \A f \in DOMAIN stored \ crossed : stored[f] = latest[f]
    BY <2>1, <2>2 DEF Same
  <2>5. QED
    BY <2>3, <2>4 DEF UpdatesStick, Restrict
<1>3. QED
  BY <1>1, <1>2, TypeInitially, TypePreserved, StickPreserved, PTL DEF Spec

=============================================================================
