------------------------- MODULE AdministrationProofs -------------------------
(***************************************************************************)
(* Proofs about Administration, for any people, models, workers, settings' *)
(* limits, catalogues and bodies of requests.                              *)
(***************************************************************************)
EXTENDS Administration, FiniteSetTheorems, TLAPS

-----------------------------------------------------------------------------
(* Optional fields *)

LEMMA OptionalTyped ==
    ASSUME NEW S, NEW v \in S
    PROVE  {} \in Optional(S) /\ {v} \in Optional(S)
  BY DEF Optional

LEMMA CoalesceTyped ==
    ASSUME NEW S, NEW field \in Optional(S), NEW column \in S
    PROVE  Coalesce(field, column) \in S
  BY DEF Optional, Coalesce

\* A set whose members are all equal has at most one.
LEMMA AtMostOne ==
    ASSUME NEW S, \A x, y \in S : x = y
    PROVE  Cardinality(S) <= 1
  <1>1. CASE S = {}
    BY <1>1, FS_EmptySet
  <1>2. CASE S # {}
    <2>1. PICK x \in S : S = {x}
      BY <1>2
    <2> QED
      BY <2>1, FS_Singleton
  <1> QED
    BY <1>1, <1>2

\* Conversely.
LEMMA OnlyOne ==
    ASSUME NEW S, IsFiniteSet(S), Cardinality(S) <= 1, NEW x \in S, NEW y \in S
    PROVE  x = y
  <1>1. SUFFICES ASSUME x # y PROVE FALSE
    OBVIOUS
  <1>2. Cardinality({x} \cup {y}) = 2
    <2>1. IsFiniteSet({x}) /\ Cardinality({x}) = 1
      BY FS_Singleton
    <2> QED
      BY <1>1, <2>1, FS_AddElement, y \notin {x}
  <1>3. Cardinality({x} \cup {y}) <= Cardinality(S)
    <2>1. {x} \cup {y} \subseteq S
      OBVIOUS
    <2> QED
      BY <2>1, FS_Subset
  <1>4. Cardinality(S) \in Nat
    BY FS_CardinalityType
  <1> QED
    BY <1>2, <1>3, <1>4

-----------------------------------------------------------------------------
(* Types of the catalogue *)

Row == [enabled : BOOLEAN, available : BOOLEAN, audience : SUBSET ActorTypes,
        defaultFor : SUBSET ActorTypes, version : Nat]

EditRecord == [pc : Stages, model : Models, body : Edits, seen : Nat, todo : SUBSET ActorTypes,
               now : Optional(ActorTypes), targets : SUBSET Models,
               cleared : SUBSET (Models \X ActorTypes)]

\* The row that an edit or the clearing of defaults leaves.
LEMMA EditedTyped ==
    ASSUME NEW row \in Row, NEW body \in Edits
    PROVE  Edited(row, body) \in Row
  <1>1. body \in EditBodies
    BY CatalogueAssumption
  <1>2. /\ Coalesce(body.enabled, row.enabled) \in BOOLEAN
        /\ Coalesce(body.audience, row.audience) \in SUBSET ActorTypes
        /\ Coalesce(body.defaultFor, row.defaultFor) \in SUBSET ActorTypes
    BY <1>1, CoalesceTyped DEF EditBodies, Row
  <1> DEFINE enabled == Coalesce(body.enabled, row.enabled)
             audience == Coalesce(body.audience, row.audience)
             defaultFor == Coalesce(body.defaultFor, row.defaultFor)
             version == row.version + 1
  <1>3. Edited(row, body) = [row EXCEPT !.enabled = enabled, !.audience = audience,
                                        !.defaultFor = defaultFor, !.version = version]
    BY DEF Edited, Row
  <1>4. /\ enabled \in BOOLEAN /\ audience \in SUBSET ActorTypes /\ defaultFor \in SUBSET ActorTypes
        /\ version \in Nat
    BY <1>2 DEF Row
  <1> HIDE DEF enabled, audience, defaultFor, version
  <1> QED
    BY <1>3, <1>4, Zenon DEF Row

LEMMA ClearedTyped ==
    ASSUME NEW row \in Row, NEW types \in SUBSET ActorTypes
    PROVE  Cleared(row, types) \in Row
  <1>1. IsFiniteSet(ActorTypes)
    <2>1. ActorTypes = {"guest"} \cup {"user"}
      BY DEF ActorTypes
    <2>2. IsFiniteSet({"guest"}) /\ IsFiniteSet({"user"})
      BY FS_Singleton
    <2> QED
      BY <2>1, <2>2, FS_Union
  <1>2. Cardinality(types) \in Nat
    BY <1>1, FS_Subset, FS_CardinalityType
  <1> DEFINE version == row.version + Cardinality(types)
             defaultFor == row.defaultFor \ types
  <1>3. Cleared(row, types) = [row EXCEPT !.defaultFor = defaultFor, !.version = version]
    BY DEF Cleared, Row
  <1>4. defaultFor \in SUBSET ActorTypes /\ version \in Nat
    BY <1>2 DEF Row
  <1> HIDE DEF version, defaultFor
  <1> QED
    BY <1>3, <1>4, Zenon DEF Row

LEMMA ResultTyped ==
    ASSUME CatalogueTypeOK, NEW p \in People, edit[p] \in EditRecord
    PROVE  Result(p) \in [Models -> Row]
  <1>1. model \in [Models -> Row]
    BY DEF CatalogueTypeOK, Row
  <1>2. ASSUME NEW n \in Models
        PROVE  Edited(model[n], edit[p].body) \in Row
    BY <1>1, EditedTyped DEF EditRecord
  <1>3. ASSUME NEW n \in Models
        PROVE  Cleared(model[n], {t \in ActorTypes : <<n, t>> \in edit[p].cleared}) \in Row
    BY <1>1, ClearedTyped
  <1> QED
    BY <1>2, <1>3 DEF Result

\* A request that runs has the fields of one.
LEMMA RunningEdit ==
    ASSUME CatalogueTypeOK, NEW p \in People, edit[p] # NoEdit
    PROVE  edit[p] \in EditRecord
  BY DEF CatalogueTypeOK, EditRecord

LEMMA ReleaseTyped ==
    ASSUME CatalogueTypeOK, NEW p \in People, ReleaseRows(p)
    PROVE  rowLock' \in [Models -> People \cup {NoOne}]
  BY DEF CatalogueTypeOK, ReleaseRows

\* The type invariant in terms of the records above.
CatalogueTypes ==
    /\ model \in [Models -> Row]
    /\ DOMAIN mapping \subseteq Models /\ \A m \in DOMAIN mapping : mapping[m] \in BOOLEAN
    /\ rowLock \in [Models -> People \cup {NoOne}]
    /\ edit \in [People -> EditRecord \cup {NoEdit}]
    /\ offered \in Catalogs
    /\ fetched \in [Workers -> Optional(Catalogs)]

\* TypeOK does not say that edit is a function on People; every action leaves it one.
EditDomain == edit = [p \in People |-> edit[p]]

LEMMA CatalogueTypesSame ==
    (CatalogueTypeOK /\ EditDomain) <=> CatalogueTypes
  BY DEF CatalogueTypeOK, CatalogueTypes, EditDomain, Row, EditRecord

LEMMA StagedEdit ==
    ASSUME CatalogueTypes, NEW p \in People, edit[p].pc # "idle"
    PROVE  edit[p] \in EditRecord
  <1>1. edit[p] # NoEdit
    BY DEF NoEdit
  <1> QED
    BY <1>1 DEF CatalogueTypes

\* The statements of UpdateModel before COMMIT.
LEMMA EditTyped ==
    ASSUME CatalogueTypes, NEW p \in People,
           \/ \E m \in Models, body \in Edits : RequestEdit(p, m, body)
           \/ LockModel(p) \/ BeginClear(p) \/ EndClear(p)
    PROVE  CatalogueTypes'
  <1> USE DEF CatalogueTypes
  <1>1. ASSUME NEW m \in Models, NEW body \in Edits, RequestEdit(p, m, body)
        PROVE  CatalogueTypes'
    <2>1. model[m].version \in Nat /\ {} \in Optional(ActorTypes)
      BY DEF Row, Optional
    <2> QED
      BY <1>1, <2>1 DEF RequestEdit, EditRecord, Stages
  <1>2. CASE LockModel(p)
    <2>1. edit[p] \in EditRecord
      BY <1>2, StagedEdit DEF LockModel
    <2>2. Edited(model[edit[p].model], edit[p].body).defaultFor \in SUBSET ActorTypes
      BY <2>1, EditedTyped DEF EditRecord, Row
    <2>3. edit' \in [People -> EditRecord \cup {NoEdit}]
      <3> DEFINE e == [edit[p] EXCEPT !.pc = "locked",
                          !.todo = Edited(model[edit[p].model], edit[p].body).defaultFor]
      <3>1. e \in EditRecord
        BY <2>1, <2>2 DEF EditRecord, Stages
      <3>2. edit' = [edit EXCEPT ![p] = e]
        BY <1>2 DEF LockModel
      <3> QED
        BY <3>1, <3>2
    <2> QED
      BY <1>2, <2>3 DEF LockModel
  <1>3. CASE BeginClear(p)
    <2>1. edit[p] \in EditRecord
      BY <1>3, StagedEdit DEF BeginClear
    <2>2. PICK t \in edit[p].todo :
            edit' = [edit EXCEPT ![p].now = {t},
                        ![p].targets = {n \in Models \ {edit[p].model} : t \in model[n].defaultFor}]
      BY <1>3 DEF BeginClear
    <2>3. {t} \in Optional(ActorTypes)
      BY <2>1, OptionalTyped DEF EditRecord
    <2>4. edit' \in [People -> EditRecord \cup {NoEdit}]
      <3> DEFINE e == [edit[p] EXCEPT !.now = {t},
                          !.targets = {n \in Models \ {edit[p].model} : t \in model[n].defaultFor}]
      <3>1. e \in EditRecord
        BY <2>1, <2>3 DEF EditRecord
      <3>2. edit' = [edit EXCEPT ![p] = e]
        BY <2>2
      <3> QED
        BY <3>1, <3>2
    <2> QED
      BY <1>3, <2>4 DEF BeginClear
  <1>4. CASE EndClear(p)
    <2>1. edit[p] \in EditRecord
      BY <1>4, StagedEdit DEF EndClear
    <2> DEFINE matching == {n \in edit[p].targets : edit[p].now \subseteq model[n].defaultFor}
               e == [edit[p] EXCEPT !.todo = edit[p].todo \ edit[p].now, !.now = {}, !.targets = {},
                                    !.cleared = edit[p].cleared \cup (matching \X edit[p].now)]
    <2>2. matching \X edit[p].now \in SUBSET (Models \X ActorTypes)
      BY <2>1 DEF EditRecord, Optional
    <2>3. {} \in Optional(ActorTypes)
      BY DEF Optional
    <2>4. e \in EditRecord
      BY <2>1, <2>2, <2>3 DEF EditRecord
    <2>5. edit' = [edit EXCEPT ![p] = e]
      BY <1>4 DEF EndClear
    <2>6. edit' \in [People -> EditRecord \cup {NoEdit}]
      BY <2>4, <2>5
    <2> QED
      BY <1>4, <2>6 DEF EndClear
  <1> QED
    BY <1>1, <1>2, <1>3, <1>4

\* The ends of UpdateModel, and synchronizations.
LEMMA CatalogueStepTyped ==
    ASSUME CatalogueTypes,
           \/ \E p \in People : CommitEdit(p) \/ RollbackEdit(p)
           \/ OfferChanges
           \/ \E w \in Workers : FetchCatalog(w) \/ ApplyCatalog(w) \/ SyncFails(w)
    PROVE  CatalogueTypes'
  <1>1. ASSUME NEW p \in People, CommitEdit(p) PROVE CatalogueTypes'
    <2>1. edit[p] \in EditRecord
      BY <1>1, StagedEdit DEF CommitEdit
    <2>2. Result(p) \in [Models -> Row]
      BY <2>1, ResultTyped, CatalogueTypesSame
    <2>3. rowLock' \in [Models -> People \cup {NoOne}]
      BY <1>1 DEF CommitEdit, ReleaseRows, CatalogueTypes
    <2> QED
      BY <1>1, <2>2, <2>3 DEF CommitEdit, CatalogueTypes
  <1>2. ASSUME NEW p \in People, RollbackEdit(p) PROVE CatalogueTypes'
    BY <1>2 DEF RollbackEdit, ReleaseRows, CatalogueTypes
  <1>3. CASE OfferChanges
    BY <1>3 DEF OfferChanges, CatalogueTypes
  <1>4. ASSUME NEW w \in Workers, FetchCatalog(w) PROVE CatalogueTypes'
    BY <1>4, OptionalTyped DEF FetchCatalog, CatalogueTypes
  <1>5. ASSUME NEW w \in Workers, SyncFails(w) PROVE CatalogueTypes'
    <2>1. {} \in Optional(Catalogs)
      BY DEF Optional
    <2> QED
      BY <1>5, <2>1 DEF SyncFails, CatalogueTypes
  <1>6. ASSUME NEW w \in Workers, ApplyCatalog(w) PROVE CatalogueTypes'
    <2>1. PICK catalog \in fetched[w] :
            /\ mapping' = Mapped(catalog)
            /\ model' = [m \in Models |-> Refreshed(DiscoverModel(m, catalog), m \in catalog)]
      BY <1>6 DEF ApplyCatalog
    <2>2. catalog \subseteq Models /\ {} \in Optional(Catalogs)
      BY CatalogueAssumption DEF CatalogueTypes, Optional
    <2>3. ASSUME NEW row \in Row, NEW available \in BOOLEAN
          PROVE  Refreshed(row, available) \in Row
      <3> DEFINE version == row.version + 1
      <3>1. version \in Nat
        BY DEF Row
      <3> HIDE DEF version
      <3>2. [row EXCEPT !.available = available, !.version = version] \in Row
        BY <3>1, Zenon DEF Row
      <3>3. Refreshed(row, available) \in {row, [row EXCEPT !.available = available, !.version = version]}
        BY DEF Refreshed, version
      <3> QED
        BY <3>2, <3>3
    <2>4. Discovered \in Row
      BY DEF Discovered, Row, ActorTypes
    <2>5. ASSUME NEW m \in Models PROVE DiscoverModel(m, catalog) \in Row
      BY <2>4 DEF DiscoverModel, CatalogueTypes
    <2>6. model' \in [Models -> Row]
      <3>1. ASSUME NEW m \in Models
            PROVE  Refreshed(DiscoverModel(m, catalog), m \in catalog) \in Row
        <4>1. (m \in catalog) \in BOOLEAN
          OBVIOUS
        <4> QED
          BY <2>3, <2>5, <4>1, Zenon
      <3> QED
        BY <2>1, <3>1, Zenon
    <2>7. DOMAIN mapping' \subseteq Models /\ \A m \in DOMAIN mapping' : mapping'[m] \in BOOLEAN
      <3>1. DOMAIN mapping' = DOMAIN mapping \cup catalog
        BY <2>1, Zenon DEF Mapped
      <3>2. ASSUME NEW m \in DOMAIN mapping' PROVE mapping'[m] \in BOOLEAN
        <4>1. m \in DOMAIN mapping \cup catalog
          BY <3>1
        <4>2. mapping'[m] = (m \in catalog)
          BY <2>1, <4>1, Zenon DEF Mapped
        <4> QED
          BY <4>2, (m \in catalog) \in BOOLEAN
      <3> QED
        BY <2>2, <3>1, <3>2 DEF CatalogueTypes
    <2> QED
      BY <1>6, <2>2, <2>6, <2>7 DEF ApplyCatalog, CatalogueTypes
  <1> QED
    BY <1>1, <1>2, <1>3, <1>4, <1>5, <1>6

LEMMA CatalogueInitTyped == CatalogueInit => CatalogueTypes
  <1> SUFFICES ASSUME CatalogueInit PROVE CatalogueTypes
    OBVIOUS
  <1> DEFINE First == [enabled |-> TRUE, available |-> TRUE, audience |-> ActorTypes,
                       defaultFor |-> ActorTypes, version |-> 1]
             Other == {Absent, [Discovered EXCEPT !.available = TRUE, !.version = 2], Enabled}
  <1>1. First \in Row /\ Other \subseteq Row
    <2>1. First \in Row
      BY DEF Row, ActorTypes
    <2>2. Discovered \in Row
      BY DEF Row, Discovered, ActorTypes
    <2>3. Absent \in Row
      BY <2>2 DEF Row, Absent
    <2>4. [Discovered EXCEPT !.available = TRUE, !.version = 2] \in Row
      BY <2>2, Zenon DEF Row
    <2>5. Enabled \in Row
      BY <2>2, Zenon DEF Row, Enabled
    <2> QED
      BY <2>1, <2>3, <2>4, <2>5
  <1>2. PICK others \in [Models \ {FirstModel} -> Other] :
          model = [m \in Models |-> IF m # FirstModel THEN others[m] ELSE First]
    BY DEF CatalogueInit
  <1> HIDE DEF First, Other
  <1>3. model \in [Models -> Row]
    BY <1>1, <1>2
  <1>4. {} \in Optional(Catalogs)
    BY DEF Optional
  <1> QED
    BY <1>3, <1>4 DEF CatalogueInit, CatalogueTypes

-----------------------------------------------------------------------------
(* Types of the settings *)

Setting == [value : Models \cup Limits, version : Nat \ {0}]

Cached == [snapshot : Values, excused : BOOLEAN]

ChangeRecord == [pc : {"requested", "invalidated", "checked", "committed"}, key : Keys,
                 value : Models \cup Limits \cup {Malformed}, seen : Nat]

\* Past the first Invalidate the value is one the setting takes.
ValuesValid ==
    \A p \in People : change[p].pc \in {"invalidated", "checked", "committed"} =>
        ValidValue(change[p].key, change[p].value)

SettingsTypes ==
    /\ stored \in [Keys -> Setting]
    /\ cached \subseteq Cached /\ \A c, d \in cached : c = d
    /\ change \in [People -> ChangeRecord \cup {NoChange}]
    /\ load \in [Loaders -> SUBSET Values] /\ \A l \in Loaders : \A s, r \in load[l] : s = r
    /\ losses \in 0..MaxLosses
    /\ ValuesValid

LEMMA SettingsTyped == SettingsTypes => SettingsTypeOK
  <1> SUFFICES ASSUME SettingsTypes PROVE SettingsTypeOK
    OBVIOUS
  <1>1. Cardinality(cached) <= 1
    BY AtMostOne DEF SettingsTypes
  <1>2. ASSUME NEW l \in Loaders PROVE Cardinality(load[l]) <= 1
    BY AtMostOne DEF SettingsTypes
  <1> QED
    BY <1>1, <1>2 DEF SettingsTypes, SettingsTypeOK, Setting, Cached, ChangeRecord

LEMMA SnapshotTyped == stored \in [Keys -> Setting] => Snapshot \in Values
  BY DEF Snapshot, Values, Setting

LEMMA StagedChange ==
    ASSUME SettingsTypes, NEW p \in People, change[p].pc # "idle"
    PROVE  change[p] \in ChangeRecord
  <1>1. change[p] # NoChange
    BY DEF NoChange
  <1> QED
    BY <1>1 DEF SettingsTypes

\* A request goes to another place.
LEMMA ChangeMoves ==
    ASSUME SettingsTypes, NEW p \in People, change[p].pc # "idle",
           NEW place \in {"requested", "invalidated", "checked", "committed"},
           ValidValue(change[p].key, change[p].value),
           change' = [change EXCEPT ![p].pc = place]
    PROVE  change' \in [People -> ChangeRecord \cup {NoChange}] /\ ValuesValid'
  <1> DEFINE c == [change[p] EXCEPT !.pc = place]
  <1>1. change[p] \in ChangeRecord
    BY StagedChange
  <1>2. c \in ChangeRecord /\ c.key = change[p].key /\ c.value = change[p].value
    BY <1>1 DEF ChangeRecord
  <1>3. change' = [change EXCEPT ![p] = c]
    OBVIOUS
  <1> HIDE DEF c
  <1>4. change' \in [People -> ChangeRecord \cup {NoChange}]
    BY <1>2, <1>3 DEF SettingsTypes
  <1>5. ASSUME NEW q \in People, change'[q].pc \in {"invalidated", "checked", "committed"}
        PROVE  ValidValue(change'[q].key, change'[q].value)
    BY <1>2, <1>3, <1>5 DEF SettingsTypes, ValuesValid
  <1> QED
    BY <1>4, <1>5 DEF ValuesValid, ValidValue

\* A request ends.
LEMMA ChangeEnds ==
    ASSUME SettingsTypes, NEW p \in People, change' = [change EXCEPT ![p] = NoChange]
    PROVE  change' \in [People -> ChangeRecord \cup {NoChange}] /\ ValuesValid'
  <1>1. NoChange.pc = "idle"
    BY DEF NoChange
  <1>2. ASSUME NEW q \in People, change'[q].pc \in {"invalidated", "checked", "committed"}
        PROVE  ValidValue(change'[q].key, change'[q].value)
    BY <1>1, <1>2 DEF SettingsTypes, ValuesValid
  <1> QED
    BY <1>2 DEF SettingsTypes, ValuesValid, ValidValue

\* A loss stays within the bound.
LEMMA LossTyped ==
    ASSUME SettingsTypes, Lose
    PROVE  losses' \in 0..MaxLosses
  BY SettingsAssumption DEF SettingsTypes, Lose

\* The cache after an invalidation, successful or not.
LEMMA InvalidateTyped ==
    ASSUME SettingsTypes, Invalidate
    PROVE  /\ cached' \subseteq Cached /\ \A c, d \in cached' : c = d
           /\ \A c \in cached' : c.excused
           /\ losses' \in 0..MaxLosses
  <1>1. CASE cached' = {} /\ UNCHANGED losses
    BY <1>1 DEF SettingsTypes
  <1>2. CASE cached' = {[c EXCEPT !.excused = TRUE] : c \in cached} /\ Lose
    <2>1. ASSUME NEW c \in cached
          PROVE  [c EXCEPT !.excused = TRUE] \in Cached /\ [c EXCEPT !.excused = TRUE].excused
      BY DEF SettingsTypes, Cached
    <2>2. cached' \subseteq Cached /\ \A c \in cached' : c.excused
      BY <1>2, <2>1
    <2>3. \A c, d \in cached' : c = d
      BY <1>2 DEF SettingsTypes
    <2> QED
      BY <1>2, <2>2, <2>3, LossTyped
  <1> QED
    BY <1>1, <1>2 DEF Invalidate

\* Load, and the TTL.
LEMMA LoadTyped ==
    ASSUME SettingsTypes,
           \/ \E l \in Loaders : ReadSettings(l) \/ CacheSettings(l) \/ AbandonLoad(l)
           \/ SnapshotExpires
    PROVE  SettingsTypes'
  <1>v. change' = change => ValuesValid'
    BY DEF SettingsTypes, ValuesValid, ValidValue
  <1>1. ASSUME NEW l \in Loaders, ReadSettings(l) PROVE SettingsTypes'
    <2>1. losses' \in 0..MaxLosses
      BY <1>1, LossTyped DEF ReadSettings, SettingsTypes
    <2>2. Snapshot \in Values
      BY SnapshotTyped DEF SettingsTypes
    <2> QED
      BY <1>v, <1>1, <2>1, <2>2 DEF ReadSettings, SettingsTypes
  <1>2. ASSUME NEW l \in Loaders, CacheSettings(l) PROVE SettingsTypes'
    <2>1. ASSUME NEW s \in load[l]
          PROVE  [snapshot |-> s, excused |-> s # Snapshot] \in Cached
      <3>1. s \in Values /\ (s # Snapshot) \in BOOLEAN
        BY DEF SettingsTypes
      <3> QED
        BY <3>1, Zenon DEF Cached
    <2>2. cached' \subseteq Cached
      BY <1>2, <2>1, Zenon DEF CacheSettings
    <2>3. \A c, d \in cached' : c = d
      BY <1>2, Zenon DEF CacheSettings, SettingsTypes
    <2> QED
      BY <1>v, <1>2, <2>2, <2>3 DEF CacheSettings, SettingsTypes
  <1>3. ASSUME NEW l \in Loaders, AbandonLoad(l) PROVE SettingsTypes'
    BY <1>v, <1>3 DEF AbandonLoad, SettingsTypes
  <1>4. CASE SnapshotExpires
    BY <1>v, <1>4 DEF SnapshotExpires, SettingsTypes
  <1> QED
    BY <1>1, <1>2, <1>3, <1>4

\* UpdateSetting.
LEMMA ChangeTyped ==
    ASSUME SettingsTypes, NEW p \in People,
           \/ \E key \in Keys : \E value \in Offers(key) : RequestChange(p, key, value)
           \/ InvalidateFirst(p) \/ CheckReference(p) \/ CommitChange(p)
           \/ InvalidateAgain(p) \/ RollbackChange(p)
    PROVE  SettingsTypes'
  <1>1. ASSUME NEW key \in Keys, NEW value \in Offers(key), RequestChange(p, key, value)
        PROVE  SettingsTypes'
    <2> DEFINE c == [pc |-> "requested", key |-> key, value |-> value, seen |-> stored[key].version]
    <2>1. c \in ChangeRecord /\ c.pc = "requested"
      BY DEF ChangeRecord, Offers, SettingsTypes, Setting
    <2>2. change' = [change EXCEPT ![p] = c]
      BY <1>1 DEF RequestChange
    <2> HIDE DEF c
    <2>3. change' \in [People -> ChangeRecord \cup {NoChange}]
      BY <2>1, <2>2 DEF SettingsTypes
    <2>4. ASSUME NEW q \in People, change'[q].pc \in {"invalidated", "checked", "committed"}
          PROVE  ValidValue(change'[q].key, change'[q].value)
      BY <2>1, <2>2, <2>4 DEF SettingsTypes, ValuesValid
    <2>5. ValuesValid'
      BY <2>4 DEF ValuesValid, ValidValue
    <2> QED
      BY <1>1, <2>3, <2>5 DEF RequestChange, SettingsTypes
  <1>2. CASE InvalidateFirst(p)
    <2>1. change' \in [People -> ChangeRecord \cup {NoChange}] /\ ValuesValid'
      BY <1>2, ChangeMoves DEF InvalidateFirst
    <2> QED
      BY <1>2, <2>1, InvalidateTyped DEF InvalidateFirst, SettingsTypes
  <1>3. CASE CheckReference(p)
    <2>1. ValidValue(change[p].key, change[p].value)
      BY <1>3 DEF CheckReference, SettingsTypes, ValuesValid
    <2>2. change' \in [People -> ChangeRecord \cup {NoChange}] /\ ValuesValid'
      BY <1>3, <2>1, ChangeMoves DEF CheckReference
    <2> QED
      BY <1>3, <2>2 DEF CheckReference, SettingsTypes
  <1>4. CASE CommitChange(p)
    <2>1. ValidValue(change[p].key, change[p].value) /\ change[p] \in ChangeRecord
      BY <1>4, StagedChange DEF CommitChange, SettingsTypes, ValuesValid
    <2>2. stored' \in [Keys -> Setting]
      <3>1. [value |-> change[p].value, version |-> stored[change[p].key].version + 1] \in Setting
        BY <2>1 DEF ValidValue, Setting, SettingsTypes, ChangeRecord
      <3> QED
        BY <1>4, <3>1 DEF CommitChange, SettingsTypes
    <2>3. CASE change' = [change EXCEPT ![p].pc = "committed"] /\ UNCHANGED <<cached, losses>>
      <3>1. change' \in [People -> ChangeRecord \cup {NoChange}] /\ ValuesValid'
        BY <1>4, <2>1, <2>3, ChangeMoves DEF CommitChange
      <3> QED
        BY <1>4, <2>2, <2>3, <3>1 DEF CommitChange, SettingsTypes
    <2>4. CASE /\ change' = [change EXCEPT ![p] = NoChange]
               /\ cached' = {[e EXCEPT !.excused = TRUE] : e \in cached}
               /\ Lose
      <3>1. change' \in [People -> ChangeRecord \cup {NoChange}] /\ ValuesValid'
        BY <2>4, ChangeEnds
      <3>2. cached' \subseteq Cached /\ (\A c, d \in cached' : c = d) /\ losses' \in 0..MaxLosses
        BY <2>4, InvalidateTyped DEF Invalidate
      <3> QED
        BY <1>4, <2>2, <3>1, <3>2 DEF CommitChange, SettingsTypes
    <2> QED
      BY <1>4, <2>3, <2>4 DEF CommitChange
  <1>5. CASE InvalidateAgain(p)
    BY <1>5, ChangeEnds, InvalidateTyped DEF InvalidateAgain, SettingsTypes
  <1>6. CASE RollbackChange(p)
    BY <1>6, ChangeEnds DEF RollbackChange, SettingsTypes
  <1> QED
    BY <1>1, <1>2, <1>3, <1>4, <1>5, <1>6

LEMMA SettingsInitTyped == CatalogueInit /\ SettingsInit => SettingsTypes
  <1> SUFFICES ASSUME SettingsInit PROVE SettingsTypes
    OBVIOUS
  <1>1. stored \in [Keys -> Setting]
    BY CatalogueAssumption, SettingsAssumption DEF SettingsInit, Setting
  <1>2. ValuesValid
    BY DEF SettingsInit, ValuesValid, NoChange
  <1> QED
    BY <1>1, <1>2, SettingsAssumption DEF SettingsInit, SettingsTypes

\* Settings take and release locks of the catalogue's rows.
LEMMA LocksTyped ==
    ASSUME CatalogueTypes, NEW p \in People,
           CheckReference(p) \/ CommitChange(p) \/ RollbackChange(p)
    PROVE  CatalogueTypes'
  <1>1. rowLock' \in [Models -> People \cup {NoOne}]
    BY DEF CatalogueTypes, CheckReference, CommitChange, RollbackChange, ReleaseRows
  <1> QED
    BY <1>1 DEF CatalogueTypes, CheckReference, CommitChange, RollbackChange

-----------------------------------------------------------------------------
(* The cache *)

\* Nobody leaves "committed" and neither the settings nor the cache change.
LEMMA FreshSame ==
    ASSUME FreshUnlessOvertaken, cached' \subseteq cached, stored' = stored,
           \A q \in People : change[q].pc = "committed" => change'[q].pc = "committed"
    PROVE  FreshUnlessOvertaken'
  <1>1. Snapshot' = Snapshot
    BY DEF Snapshot
  <1> QED
    BY <1>1 DEF FreshUnlessOvertaken

LEMMA FreshStep ==
    ASSUME SettingsTypes, FreshUnlessOvertaken,
           \/ \E l \in Loaders : ReadSettings(l) \/ CacheSettings(l) \/ AbandonLoad(l)
           \/ SnapshotExpires
           \/ \E p \in People :
                \/ \E key \in Keys : \E value \in Offers(key) : RequestChange(p, key, value)
                \/ InvalidateFirst(p) \/ CheckReference(p) \/ CommitChange(p)
                \/ InvalidateAgain(p) \/ RollbackChange(p)
    PROVE  FreshUnlessOvertaken'
  <1>1. ASSUME NEW l \in Loaders, ReadSettings(l) \/ AbandonLoad(l) PROVE FreshUnlessOvertaken'
    BY <1>1, FreshSame DEF ReadSettings, AbandonLoad
  <1>2. ASSUME NEW l \in Loaders, CacheSettings(l) PROVE FreshUnlessOvertaken'
    <2>1. Snapshot' = Snapshot
      BY <1>2 DEF CacheSettings, Snapshot
    <2>2. ASSUME NEW c \in cached' PROVE c.snapshot = Snapshot \/ c.excused
      <3>1. PICK s \in load[l] : c = [snapshot |-> s, excused |-> s # Snapshot]
        BY <1>2, Zenon DEF CacheSettings
      <3>2. c.snapshot = s
        BY <3>1
      <3>3. s # Snapshot => c.excused
        BY <3>1, Zenon
      <3> QED
        BY <3>2, <3>3, Zenon
    <2> QED
      BY <2>1, <2>2, Zenon DEF FreshUnlessOvertaken
  <1>3. CASE SnapshotExpires
    BY <1>3, FreshSame DEF SnapshotExpires
  <1>4. ASSUME NEW p \in People, NEW key \in Keys, NEW value \in Offers(key),
               RequestChange(p, key, value)
        PROVE  FreshUnlessOvertaken'
    <2>1. ASSUME NEW q \in People, change[q].pc = "committed" PROVE change'[q].pc = "committed"
      <3>1. p # q
        BY <1>4, <2>1 DEF RequestChange, NoChange
      <3> QED
        BY <1>4, <2>1, <3>1 DEF RequestChange, SettingsTypes
    <2> QED
      BY <1>4, <2>1, FreshSame DEF RequestChange
  <1>5. ASSUME NEW p \in People, InvalidateFirst(p) \/ InvalidateAgain(p) PROVE FreshUnlessOvertaken'
    <2>1. \A c \in cached' : c.excused
      BY <1>5, InvalidateTyped DEF InvalidateFirst, InvalidateAgain
    <2> QED
      BY <2>1 DEF FreshUnlessOvertaken
  <1>6. ASSUME NEW p \in People, CheckReference(p) \/ RollbackChange(p) PROVE FreshUnlessOvertaken'
    <2>1. change[p].pc # "committed"
      BY <1>6 DEF CheckReference, RollbackChange
    <2>2. \A q \in People \ {p} : change'[q] = change[q]
      BY <1>6 DEF CheckReference, RollbackChange, SettingsTypes
    <2> QED
      BY <1>6, <2>1, <2>2, FreshSame DEF CheckReference, RollbackChange
  <1>7. ASSUME NEW p \in People, CommitChange(p) PROVE FreshUnlessOvertaken'
    <2>1. CASE change' = [change EXCEPT ![p].pc = "committed"]
      <3>1. change[p] \in ChangeRecord
        BY <1>7, StagedChange DEF CommitChange
      <3>2. change'[p].pc = "committed"
        BY <2>1, <3>1 DEF ChangeRecord, SettingsTypes
      <3> QED
        BY <3>2 DEF FreshUnlessOvertaken
    <2>2. CASE cached' = {[e EXCEPT !.excused = TRUE] : e \in cached} /\ Lose
      <3>1. \A c \in cached' : c.excused
        BY <2>2, InvalidateTyped DEF Invalidate
      <3> QED
        BY <3>1 DEF FreshUnlessOvertaken
    <2> QED
      BY <1>7, <2>1, <2>2 DEF CommitChange
  <1> QED
    BY <1>1, <1>2, <1>3, <1>4, <1>5, <1>6, <1>7

-----------------------------------------------------------------------------
(* The rows of models *)

\* What holds of a row at any time: a default is exposed to its type, an available model is
\* served by the provider, and a row that is not there is neither available nor enabled.
RowsSound ==
    \A m \in Models :
        /\ model[m].defaultFor \subseteq model[m].audience
        /\ model[m].available => Served(m)
        /\ model[m].version = 0 => ~model[m].available /\ ~model[m].enabled

\* An edit that has its row keeps it, as it was checked, with the rows it has written.
EditLocked(p) ==
    /\ edit[p].pc = "locked" =>
         /\ rowLock[edit[p].model] = p
         /\ ValidExposure(model[edit[p].model], edit[p].body)
    /\ edit[p].pc # "idle" =>
         \A n \in Models, t \in ActorTypes : <<n, t>> \in edit[p].cleared => rowLock[n] = p

\* A reference that was checked stays locked and valid to the end of the transaction.
ReferenceLocked(p) ==
    change[p].pc = "checked" /\ change[p].key = SummaryModel =>
        /\ rowLock[change[p].value] = p
        /\ ValidReference(SummaryModel, change[p].value)

\* A person has one request at a time, so its locks belong to one transaction.
OneRequest(p) == edit[p].pc = "idle" \/ change[p].pc = "idle"

RequestsSound == \A p \in People : EditLocked(p) /\ ReferenceLocked(p) /\ OneRequest(p)

CatalogueInv == RowsSound /\ OneDefault /\ RequestsSound

\* One enabled default of each type, which is all that OneDefault adds to RowsSound.
UniqueDefault ==
    \A t \in ActorTypes : \E m \in Models :
        {n \in Models : model[n].enabled /\ t \in model[n].defaultFor} = {m}

LEMMA OneDefaultFromRows == CatalogueTypes /\ RowsSound /\ UniqueDefault => OneDefault
  <1> SUFFICES ASSUME CatalogueTypes, RowsSound, UniqueDefault, NEW t \in ActorTypes
               PROVE  /\ \E m \in Models :
                           /\ {n \in Models : model[n].enabled /\ t \in model[n].defaultFor} = {m}
                           /\ t \in model[m].audience
                      /\ DefaultsOf(t) \subseteq PublicModels(t)
                      /\ t = "guest" => PublicModels(t) = DefaultsOf(t)
    BY DEF OneDefault
  <1>1. \A m \in Models : t \in model[m].defaultFor => t \in model[m].audience
    BY DEF RowsSound
  <1>2. PICK m \in Models : {n \in Models : model[n].enabled /\ t \in model[n].defaultFor} = {m}
    BY DEF UniqueDefault
  <1>3. t \in model[m].defaultFor
    <2>1. m \in {n \in Models : model[n].enabled /\ t \in model[n].defaultFor}
      BY <1>2
    <2> QED
      BY <2>1
  <1>4. DefaultsOf(t) \subseteq PublicModels(t)
    BY <1>1 DEF DefaultsOf, PublicModels, Selectable
  <1>5. t = "guest" => PublicModels(t) = DefaultsOf(t)
    BY <1>1 DEF DefaultsOf, PublicModels, Selectable
  <1> QED
    BY <1>1, <1>2, <1>3, <1>4, <1>5

\* A transaction that touches only rows which are free or its own leaves the others alone.
LEMMA OthersSound ==
    ASSUME CatalogueTypes, SettingsTypes, RequestsSound, NEW p,
           \A m \in Models : rowLock[m] \notin {p, NoOne} =>
               rowLock'[m] = rowLock[m] /\ model'[m] = model[m],
           NEW q \in People, q # p, edit'[q] = edit[q], change'[q] = change[q]
    PROVE  EditLocked(q)' /\ ReferenceLocked(q)' /\ OneRequest(q)'
  <1>1. q # NoOne
    BY PeopleAssumption
  <1>2. \A m \in Models : rowLock[m] = q => rowLock'[m] = q /\ model'[m] = model[m]
    BY <1>1
  <1>3. EditLocked(q)'
    <2>1. ASSUME edit[q].pc = "locked"
          PROVE  /\ rowLock'[edit[q].model] = q
                 /\ ValidExposure(model'[edit[q].model], edit[q].body)
      <3>1. edit[q].model \in Models
        BY <2>1, StagedEdit DEF EditRecord
      <3> QED
        BY <1>2, <2>1, <3>1 DEF RequestsSound, EditLocked
    <2>2. ASSUME edit[q].pc # "idle", NEW n \in Models, NEW t \in ActorTypes,
                 <<n, t>> \in edit[q].cleared
          PROVE  rowLock'[n] = q
      BY <1>2, <2>2 DEF RequestsSound, EditLocked
    <2> QED
      BY <2>1, <2>2 DEF EditLocked, ValidExposure, Edited, Coalesce
  <1>4. ReferenceLocked(q)'
    <2> SUFFICES ASSUME change[q].pc = "checked", change[q].key = SummaryModel
                 PROVE  /\ rowLock'[change[q].value] = q
                        /\ ValidReference(SummaryModel, change[q].value)'
      BY DEF ReferenceLocked, ValidReference
    <2>1. change[q].value \in Models
      BY DEF SettingsTypes, ValuesValid, ValidValue
    <2>2. rowLock[change[q].value] = q /\ ValidReference(SummaryModel, change[q].value)
      BY DEF RequestsSound, ReferenceLocked
    <2> QED
      BY <1>2, <2>1, <2>2 DEF ValidReference
  <1>5. OneRequest(q)'
    BY DEF RequestsSound, OneRequest
  <1> QED
    BY <1>3, <1>4, <1>5

LEMMA RowsSame ==
    ASSUME RowsSound, OneDefault, model' = model, mapping' = mapping
    PROVE  RowsSound' /\ OneDefault'
  BY DEF RowsSound, OneDefault, DefaultsOf, PublicModels, Exposed, Selectable, Served

\* UpdateModel before COMMIT.
LEMMA EditSound ==
    ASSUME CatalogueTypes, SettingsTypes, CatalogueInv, NEW p \in People, change' = change,
           \/ change[p] = NoChange /\ \E m \in Models, body \in Edits : RequestEdit(p, m, body)
           \/ LockModel(p) \/ BeginClear(p) \/ EndClear(p)
    PROVE  CatalogueInv'
  <1>0. PICK e : edit' = [edit EXCEPT ![p] = e]
    BY DEF RequestEdit, LockModel, BeginClear, EndClear
  <1>1. \A q \in People \ {p} : edit'[q] = edit[q]
    BY <1>0 DEF CatalogueTypes
  <1>2. model' = model /\ mapping' = mapping
    BY DEF RequestEdit, LockModel, BeginClear, EndClear
  <1>3. \A m \in Models : rowLock[m] \notin {p, NoOne} => rowLock'[m] = rowLock[m]
    <2>1. CASE rowLock' = rowLock
      BY <2>1
    <2>2. CASE LockModel(p)
      BY <2>2 DEF LockModel, CanLock, CatalogueTypes
    <2>3. CASE EndClear(p)
      BY <2>3 DEF EndClear, CanLock, CatalogueTypes
    <2> QED
      BY <2>1, <2>2, <2>3 DEF RequestEdit, BeginClear
  <1>4. \A q \in People \ {p} : EditLocked(q)' /\ ReferenceLocked(q)' /\ OneRequest(q)'
    BY <1>1, <1>2, <1>3, OthersSound DEF CatalogueInv
  <1>5. EditLocked(p)' /\ ReferenceLocked(p)' /\ OneRequest(p)'
    <2>1. ASSUME NEW m \in Models, NEW body \in Edits, change[p] = NoChange, RequestEdit(p, m, body)
          PROVE  EditLocked(p)' /\ ReferenceLocked(p)' /\ OneRequest(p)'
      <3>1. change'[p].pc = "idle" /\ edit'[p].pc = "requested" /\ edit'[p].cleared = {}
        BY <2>1 DEF RequestEdit, NoChange, CatalogueTypes
      <3> QED
        BY <3>1 DEF EditLocked, ReferenceLocked, OneRequest
    <2>2. CASE LockModel(p) \/ BeginClear(p) \/ EndClear(p)
      <3>1. edit[p] \in EditRecord /\ edit[p].pc # "idle"
        BY <2>2, StagedEdit DEF LockModel, BeginClear, EndClear
      <3>2. change'[p].pc = "idle"
        BY <3>1 DEF CatalogueInv, RequestsSound, OneRequest
      <3>3. /\ edit[p].pc = "locked" => /\ rowLock[edit[p].model] = p
                                        /\ ValidExposure(model[edit[p].model], edit[p].body)
            /\ \A n \in Models, t \in ActorTypes : <<n, t>> \in edit[p].cleared => rowLock[n] = p
        BY <3>1 DEF CatalogueInv, RequestsSound, EditLocked
      <3>4. ReferenceLocked(p)' /\ OneRequest(p)'
        BY <3>2 DEF ReferenceLocked, OneRequest
      <3>5. /\ edit'[p].pc = "locked" => /\ rowLock'[edit'[p].model] = p
                                         /\ ValidExposure(model[edit'[p].model], edit'[p].body)
            /\ \A n \in Models, t \in ActorTypes : <<n, t>> \in edit'[p].cleared => rowLock'[n] = p
        <4>1. CASE LockModel(p)
          <5>1. /\ edit'[p].model = edit[p].model /\ edit'[p].body = edit[p].body
                /\ edit'[p].cleared = edit[p].cleared
            BY <3>1, <4>1 DEF LockModel, CatalogueTypes, EditRecord
          <5> QED
            BY <3>1, <3>3, <4>1, <5>1 DEF LockModel, CatalogueTypes, EditRecord
        <4>2. CASE BeginClear(p)
          <5>1. /\ edit'[p].model = edit[p].model /\ edit'[p].body = edit[p].body
                /\ edit'[p].cleared = edit[p].cleared /\ edit'[p].pc = edit[p].pc
            <6>1. PICK t, rows : edit' = [edit EXCEPT ![p].now = {t}, ![p].targets = rows]
              BY <4>2 DEF BeginClear
            <6> QED
              BY <3>1, <6>1 DEF CatalogueTypes, EditRecord
          <5> QED
            BY <3>3, <4>2, <5>1 DEF BeginClear
        <4>3. CASE EndClear(p)
          <5> DEFINE matching == {n \in edit[p].targets : edit[p].now \subseteq model[n].defaultFor}
          <5>1. /\ edit'[p].model = edit[p].model /\ edit'[p].body = edit[p].body
                /\ edit'[p].cleared = edit[p].cleared \cup (matching \X edit[p].now)
                /\ edit'[p].pc = "locked" /\ edit[p].pc = "locked"
            BY <3>1, <4>3 DEF EndClear, CatalogueTypes, EditRecord
          <5>2. rowLock' = [n \in Models |-> IF n \in matching THEN p ELSE rowLock[n]]
            BY <4>3 DEF EndClear
          <5> HIDE DEF matching
          <5>3. edit[p].model \in Models
            BY <3>1 DEF EditRecord
          <5> QED
            BY <3>3, <5>1, <5>2, <5>3
        <4> QED
          BY <2>2, <4>1, <4>2, <4>3
      <3>6. EditLocked(p)'
        BY <1>2, <3>5 DEF EditLocked, ValidExposure, Edited, Coalesce
      <3> QED
        BY <3>4, <3>6
    <2> QED
      BY <2>1, <2>2
  <1> QED
    BY <1>2, <1>4, <1>5, RowsSame DEF CatalogueInv, RequestsSound

\* COMMIT of UpdateModel.
LEMMA CommitSound ==
    ASSUME CatalogueTypes, CatalogueTypes', SettingsTypes, CatalogueInv, NEW p \in People,
           change' = change, CommitEdit(p)
    PROVE  CatalogueInv'
  <1>1. edit[p] \in EditRecord /\ edit[p].pc = "locked"
    BY StagedEdit DEF CommitEdit
  <1> DEFINE e == edit[p]
             TypesOf(n) == {t \in ActorTypes : <<n, t>> \in e.cleared}
  <1>2. /\ rowLock[e.model] = p /\ ValidExposure(model[e.model], e.body)
        /\ \A n \in Models, t \in ActorTypes : <<n, t>> \in e.cleared => rowLock[n] = p
    BY <1>1 DEF CatalogueInv, RequestsSound, EditLocked
  <1>3. \A n \in Models : model'[n] = IF n = e.model THEN Edited(model[n], e.body)
                                      ELSE Cleared(model[n], TypesOf(n))
    BY DEF CommitEdit, Result
  <1>4. ASSUME NEW n \in Models, rowLock[n] # p PROVE model'[n] = model[n]
    <2>1. n # e.model /\ TypesOf(n) = {}
      BY <1>2, <1>4
    <2>2. model[n] \in Row
      BY DEF CatalogueTypes
    <2>3. Cleared(model[n], {}) = model[n]
      <3>1. model[n].version + Cardinality({}) = model[n].version
        BY <2>2, FS_EmptySet DEF Row
      <3>2. model[n].defaultFor \ {} = model[n].defaultFor
        OBVIOUS
      <3> QED
        BY <2>2, <3>1, <3>2, Zenon DEF Cleared, Row
    <2> QED
      BY <1>3, <2>1, <2>3
  <1>5. \A m \in Models : rowLock[m] \notin {p, NoOne} =>
            rowLock'[m] = rowLock[m] /\ model'[m] = model[m]
    BY <1>4 DEF CommitEdit, ReleaseRows
  <1>6. \A q \in People \ {p} : EditLocked(q)' /\ ReferenceLocked(q)' /\ OneRequest(q)'
    BY <1>5, OthersSound DEF CommitEdit, CatalogueTypes, CatalogueInv
  <1>7. EditLocked(p)' /\ ReferenceLocked(p)' /\ OneRequest(p)'
    <2>1. edit'[p].pc = "idle"
      BY DEF CommitEdit, NoEdit, CatalogueTypes
    <2>2. change'[p].pc = "idle"
      BY <1>1 DEF CatalogueInv, RequestsSound, OneRequest
    <2> QED
      BY <2>1, <2>2 DEF EditLocked, ReferenceLocked, OneRequest
  <1>8. RowsSound'
    <2> SUFFICES ASSUME NEW m \in Models
                 PROVE  /\ model'[m].defaultFor \subseteq model'[m].audience
                        /\ model'[m].available => Served(m)
                        /\ model'[m].version = 0 => ~model'[m].available /\ ~model'[m].enabled
      BY DEF RowsSound, Served, CommitEdit
    <2>1. model[m] \in Row /\ model'[m] \in Row
      BY DEF CatalogueTypes
    <2>2. /\ model[m].defaultFor \subseteq model[m].audience
          /\ model[m].available => Served(m)
          /\ model[m].version = 0 => ~model[m].available /\ ~model[m].enabled
      BY DEF CatalogueInv, RowsSound
    <2>3. CASE m = e.model
      <3>1. model'[m] = Edited(model[m], e.body)
        BY <1>3, <2>3
      <3>2. Edited(model[m], e.body).available = model[m].available
        BY <2>1 DEF Edited, Row
      <3>3. Edited(model[m], e.body).version = model[m].version + 1
        BY <2>1 DEF Edited, Row
      <3>4. Edited(model[m], e.body).version # 0
        BY <2>1, <3>3 DEF Row
      <3>5. Edited(model[m], e.body).defaultFor \subseteq Edited(model[m], e.body).audience
        BY <1>2, <2>3 DEF ValidExposure
      <3> QED
        BY <2>2, <3>1, <3>2, <3>4, <3>5
    <2>4. CASE m # e.model
      <3>1. model'[m] = Cleared(model[m], TypesOf(m))
        BY <1>3, <2>4
      <3>2. Cardinality(TypesOf(m)) \in Nat
        <4>1. ActorTypes = {"guest"} \cup {"user"} /\ TypesOf(m) \subseteq ActorTypes
          BY DEF ActorTypes
        <4>2. IsFiniteSet(ActorTypes)
          BY <4>1, FS_Singleton, FS_Union
        <4> QED
          BY <4>1, <4>2, FS_Subset, FS_CardinalityType
      <3> DEFINE version == model[m].version + Cardinality(TypesOf(m))
      <3>3. version = 0 => model[m].version = 0
        BY <2>1, <3>2 DEF Row
      <3> HIDE DEF version
      <3>4. /\ Cleared(model[m], TypesOf(m)).available = model[m].available
            /\ Cleared(model[m], TypesOf(m)).enabled = model[m].enabled
            /\ Cleared(model[m], TypesOf(m)).audience = model[m].audience
            /\ Cleared(model[m], TypesOf(m)).defaultFor = model[m].defaultFor \ TypesOf(m)
            /\ Cleared(model[m], TypesOf(m)).version = version
        BY <2>1 DEF Cleared, Row, version
      <3> QED
        BY <2>2, <3>1, <3>3, <3>4
    <2> QED
      BY <2>3, <2>4
  <1>9. UniqueDefault'
    <2> SUFFICES ASSUME NEW t \in ActorTypes
                 PROVE  \E m \in Models :
                          {n \in Models : model'[n].enabled /\ t \in model'[n].defaultFor} = {m}
      BY DEF UniqueDefault
    <2> DEFINE Defaults == {n \in Models : model'[n].enabled /\ t \in model'[n].defaultFor}
    <2>1. model' = Result(p) /\ UniqueDefaults(Result(p)) /\ SelectableDefaults(Result(p))
      BY DEF CommitEdit
    <2>2. Cardinality(Defaults) <= 1
      BY <2>1 DEF UniqueDefaults
    <2>3. PICK m \in Models : m \in Defaults
      BY <2>1 DEF SelectableDefaults
    <2>4. IsFiniteSet(Defaults)
      BY CatalogueAssumption, FS_Subset
    <2>5. Defaults = {m}
      BY <2>2, <2>3, <2>4, OnlyOne
    <2> QED
      BY <2>5
  <1>10. OneDefault'
    BY <1>8, <1>9, OneDefaultFromRows, PTL
  <1> QED
    BY <1>6, <1>7, <1>8, <1>10 DEF CatalogueInv, RequestsSound

\* ROLLBACK of UpdateModel.
LEMMA RollbackSound ==
    ASSUME CatalogueTypes, SettingsTypes, CatalogueInv, NEW p \in People,
           change' = change, RollbackEdit(p)
    PROVE  CatalogueInv'
  <1>1. \A q \in People \ {p} : EditLocked(q)' /\ ReferenceLocked(q)' /\ OneRequest(q)'
    BY OthersSound DEF RollbackEdit, ReleaseRows, CatalogueTypes, CatalogueInv
  <1>2. EditLocked(p)' /\ ReferenceLocked(p)' /\ OneRequest(p)'
    <2>1. edit'[p].pc = "idle"
      BY DEF RollbackEdit, NoEdit, CatalogueTypes
    <2>2. edit[p].pc # "idle"
      <3>1. edit[p] \in EditRecord
        BY DEF RollbackEdit, CatalogueTypes
      <3> QED
        BY <3>1 DEF EditRecord, Stages
    <2>3. change'[p].pc = "idle"
      BY <2>2 DEF CatalogueInv, RequestsSound, OneRequest
    <2> QED
      BY <2>1, <2>3 DEF EditLocked, ReferenceLocked, OneRequest
  <1> QED
    BY <1>1, <1>2, RowsSame DEF RollbackEdit, CatalogueInv, RequestsSound

\* Synchronizations, which wait for locked rows.
LEMMA SyncSound ==
    ASSUME CatalogueTypes, CatalogueTypes', SettingsTypes, CatalogueInv, change' = change,
           OfferChanges \/ \E w \in Workers : FetchCatalog(w) \/ ApplyCatalog(w) \/ SyncFails(w)
    PROVE  CatalogueInv'
  <1>0. edit' = edit /\ rowLock' = rowLock
    BY DEF OfferChanges, FetchCatalog, ApplyCatalog, SyncFails
  <1>1. CASE model' = model /\ mapping' = mapping
    <2>1. \A q \in People : EditLocked(q)' /\ ReferenceLocked(q)' /\ OneRequest(q)'
      BY <1>0, <1>1, OthersSound, PeopleAssumption DEF CatalogueInv
    <2> QED
      BY <1>1, <2>1, RowsSame DEF CatalogueInv, RequestsSound
  <1>2. ASSUME NEW w \in Workers, ApplyCatalog(w) PROVE CatalogueInv'
    <2>1. PICK catalog \in fetched[w] :
            /\ mapping' = Mapped(catalog)
            /\ model' = [m \in Models |-> Refreshed(DiscoverModel(m, catalog), m \in catalog)]
      BY <1>2 DEF ApplyCatalog
    <2>2. catalog \subseteq Models
      BY CatalogueAssumption DEF CatalogueTypes, Optional
    <2>3. \A q \in People : EditLocked(q)' /\ ReferenceLocked(q)' /\ OneRequest(q)'
      <3>1. \A m \in Models : rowLock[m] # NoOne => model'[m] = model[m]
        BY <1>2 DEF ApplyCatalog
      <3> QED
        BY <1>0, <3>1, OthersSound, PeopleAssumption DEF CatalogueInv
    <2>4. ASSUME NEW m \in Models
          PROVE  /\ model'[m].enabled <=> model[m].enabled
                 /\ model'[m].enabled => model'[m].defaultFor = model[m].defaultFor
                 /\ model'[m].defaultFor \subseteq model'[m].audience
                 /\ model'[m].available => m \in catalog
                 /\ model'[m].version = 0 => ~model'[m].available /\ ~model'[m].enabled
      <3> DEFINE row == DiscoverModel(m, catalog)
      <3>1. /\ model[m] \in Row /\ model[m].defaultFor \subseteq model[m].audience
            /\ model[m].version = 0 => ~model[m].available /\ ~model[m].enabled
        BY DEF CatalogueTypes, CatalogueInv, RowsSound
      <3>2. /\ row \in Row
            /\ row.enabled <=> model[m].enabled
            /\ row.enabled => row.defaultFor = model[m].defaultFor
            /\ row.defaultFor \subseteq row.audience
            /\ row.version = 0 => ~row.available /\ ~row.enabled /\ m \notin catalog
        <4>1. CASE m \in catalog /\ model[m].version = 0
          <5>1. row = Discovered
            BY <4>1 DEF DiscoverModel
          <5>2. Discovered \in Row
            BY DEF Discovered, Row, ActorTypes
          <5> QED
            BY <3>1, <4>1, <5>1, <5>2 DEF Discovered
        <4>2. CASE ~(m \in catalog /\ model[m].version = 0)
          <5>1. row = model[m]
            BY <4>2 DEF DiscoverModel
          <5> QED
            BY <3>1, <4>2, <5>1
        <4> QED
          BY <4>1, <4>2
      <3>3. model'[m] = Refreshed(row, m \in catalog)
        BY <2>1
      <3> HIDE DEF row
      <3>4. CASE row.version = 0
        <4>1. model'[m] = row
          BY <3>3, <3>4 DEF Refreshed
        <4> QED
          BY <3>2, <3>4, <4>1
      <3>5. CASE row.version # 0 /\ row.available = (m \in catalog)
        <4>1. model'[m] = row
          BY <3>3, <3>5 DEF Refreshed
        <4> QED
          BY <3>2, <3>5, <4>1
      <3>6. CASE row.version # 0 /\ row.available # (m \in catalog)
        <4>1. model'[m] = [row EXCEPT !.available = m \in catalog, !.version = row.version + 1]
          BY <3>2, <3>3, <3>6, Zenon DEF Refreshed, Row
        <4>2. row.version + 1 # 0
          BY <3>2 DEF Row
        <4>3. /\ model'[m].enabled = row.enabled /\ model'[m].defaultFor = row.defaultFor
              /\ model'[m].audience = row.audience /\ model'[m].available = (m \in catalog)
              /\ model'[m].version = row.version + 1
          BY <3>2, <4>1, Zenon DEF Row
        <4> QED
          BY <3>2, <4>2, <4>3
      <3> QED
        BY <3>4, <3>5, <3>6
    <2>5. RowsSound'
      <3>1. \A m \in catalog : Served(m)'
        BY <2>1, <2>2, Zenon DEF Served, Mapped
      <3> QED
        BY <2>4, <3>1 DEF RowsSound
    <2>6. UniqueDefault'
      <3> SUFFICES ASSUME NEW t \in ActorTypes
                   PROVE  \E m \in Models :
                            {n \in Models : model'[n].enabled /\ t \in model'[n].defaultFor} = {m}
        BY DEF UniqueDefault
      <3>1. PICK m \in Models : {n \in Models : model[n].enabled /\ t \in model[n].defaultFor} = {m}
        BY DEF CatalogueInv, OneDefault
      <3>2. \A n \in Models : model'[n].enabled /\ t \in model'[n].defaultFor
                            <=> model[n].enabled /\ t \in model[n].defaultFor
        BY <2>4
      <3>3. {n \in Models : model'[n].enabled /\ t \in model'[n].defaultFor} = {m}
        BY <3>1, <3>2, Zenon
      <3> QED
        BY <3>3
    <2>7. OneDefault'
      BY <2>5, <2>6, OneDefaultFromRows, PTL
    <2> QED
      BY <2>3, <2>5, <2>7 DEF CatalogueInv, RequestsSound
  <1> QED
    BY <1>1, <1>2 DEF OfferChanges, FetchCatalog, SyncFails

\* UpdateSetting.
LEMMA ChangeSound ==
    ASSUME CatalogueTypes, SettingsTypes, CatalogueInv, NEW p \in People,
           model' = model, mapping' = mapping, edit' = edit,
           \/ /\ edit[p] = NoEdit /\ rowLock' = rowLock
              /\ \E key \in Keys : \E value \in Offers(key) : RequestChange(p, key, value)
           \/ rowLock' = rowLock /\ (InvalidateFirst(p) \/ InvalidateAgain(p))
           \/ CheckReference(p) \/ CommitChange(p) \/ RollbackChange(p)
    PROVE  CatalogueInv'
  <1>0. PICK c : change' = [change EXCEPT ![p] = c]
    BY DEF RequestChange, InvalidateFirst, InvalidateAgain, CheckReference, CommitChange, RollbackChange
  <1>1. \A q \in People \ {p} : change'[q] = change[q]
    BY <1>0 DEF SettingsTypes
  <1>2. \A m \in Models : rowLock[m] \notin {p, NoOne} => rowLock'[m] = rowLock[m]
    <2>1. CASE rowLock' = rowLock
      BY <2>1
    <2>2. CASE CheckReference(p)
      BY <2>2 DEF CheckReference, CanLock, CatalogueTypes
    <2>3. CASE CommitChange(p) \/ RollbackChange(p)
      BY <2>3 DEF CommitChange, RollbackChange, ReleaseRows
    <2> QED
      BY <2>1, <2>2, <2>3
  <1>3. \A q \in People \ {p} : EditLocked(q)' /\ ReferenceLocked(q)' /\ OneRequest(q)'
    BY <1>1, <1>2, OthersSound DEF CatalogueInv
  <1>4. edit'[p].pc = "idle"
    <2>1. CASE edit[p] = NoEdit
      BY <2>1 DEF NoEdit
    <2>2. CASE change[p].pc # "idle"
      BY <2>2 DEF CatalogueInv, RequestsSound, OneRequest
    <2> QED
      BY <2>1, <2>2 DEF InvalidateFirst, InvalidateAgain, CheckReference, CommitChange, RollbackChange
  <1>5. ReferenceLocked(p)'
    <2>1. CASE CheckReference(p)
      <3>1. change[p] \in ChangeRecord
        BY <2>1, StagedChange DEF CheckReference
      <3>2. change'[p].key = change[p].key /\ change'[p].value = change[p].value
        BY <2>1, <3>1 DEF CheckReference, ChangeRecord, SettingsTypes
      <3>3. ValidValue(change[p].key, change[p].value)
        BY <2>1 DEF CheckReference, SettingsTypes, ValuesValid
      <3>4. change[p].key = SummaryModel =>
              /\ change[p].value \in Models
              /\ rowLock'[change[p].value] = p
              /\ ValidReference(SummaryModel, change[p].value)
        BY <2>1, <3>3 DEF CheckReference, ValidValue
      <3> QED
        BY <3>2, <3>4 DEF ReferenceLocked, ValidReference
    <2>2. CASE ~CheckReference(p)
      <3>1. change'[p].pc # "checked"
        BY <2>2, StagedChange DEF RequestChange, InvalidateFirst, InvalidateAgain, CommitChange,
           RollbackChange, NoChange, SettingsTypes, ChangeRecord
      <3> QED
        BY <3>1 DEF ReferenceLocked
    <2> QED
      BY <2>1, <2>2
  <1>6. EditLocked(p)' /\ OneRequest(p)'
    BY <1>4 DEF EditLocked, OneRequest
  <1> QED
    BY <1>3, <1>5, <1>6, RowsSame DEF CatalogueInv, RequestsSound

LEMMA CatalogueInitSound == CatalogueInit /\ SettingsInit => CatalogueInv
  <1> SUFFICES ASSUME CatalogueInit, SettingsInit PROVE CatalogueInv
    OBVIOUS
  <1> DEFINE First == [enabled |-> TRUE, available |-> TRUE, audience |-> ActorTypes,
                       defaultFor |-> ActorTypes, version |-> 1]
             Other == {Absent, [Discovered EXCEPT !.available = TRUE, !.version = 2], Enabled}
  <1>1. PICK others \in [Models \ {FirstModel} -> Other] :
          model = [m \in Models |-> IF m # FirstModel THEN others[m] ELSE First]
    BY DEF CatalogueInit
  <1>2. ASSUME NEW o \in Other
        PROVE  o.defaultFor = {} /\ (o.version = 0 => ~o.available /\ ~o.enabled)
    <2>1. CASE o = Absent
      BY <2>1 DEF Absent, Discovered
    <2>2. CASE o = [Discovered EXCEPT !.available = TRUE, !.version = 2]
      BY <2>2 DEF Discovered
    <2>3. CASE o = Enabled
      BY <2>3 DEF Enabled, Discovered
    <2> QED
      BY <2>1, <2>2, <2>3
  <1>3. model[FirstModel] = First
    BY <1>1, CatalogueAssumption
  <1> HIDE DEF Other
  <1>4. ASSUME NEW m \in Models, m # FirstModel
        PROVE  model[m].defaultFor = {} /\ (model[m].version = 0 => ~model[m].available /\ ~model[m].enabled)
    BY <1>1, <1>2, <1>4
  <1>5. ASSUME NEW m \in Models, model[m].available PROVE Served(m)
    <2>1. model[m].version > 0
      <3>1. CatalogueTypes
        BY CatalogueInitTyped
      <3>2. model[m].version # 0
        BY <1>3, <1>4, <1>5
      <3> QED
        BY <3>1, <3>2 DEF CatalogueTypes, Row
    <2> QED
      BY <2>1 DEF CatalogueInit, Served
  <1>6. RowsSound
    BY <1>3, <1>4, <1>5 DEF RowsSound
  <1>7. UniqueDefault
    <2> SUFFICES ASSUME NEW t \in ActorTypes
                 PROVE  {n \in Models : model[n].enabled /\ t \in model[n].defaultFor} = {FirstModel}
      BY CatalogueAssumption DEF UniqueDefault
    <2> QED
      BY <1>3, <1>4, CatalogueAssumption
  <1>8. RequestsSound
    BY DEF CatalogueInit, SettingsInit, RequestsSound, EditLocked, ReferenceLocked, OneRequest,
       NoEdit, NoChange
  <1> QED
    BY <1>6, <1>7, <1>8, CatalogueInitTyped, OneDefaultFromRows DEF CatalogueInv

-----------------------------------------------------------------------------
(* Roles *)

GrantRecord == [pc : {"requested", "serialized", "allowed"}, target : People,
                role : {"user", "admin"}, seen : Nat]

RolesTypes ==
    /\ user \in [People -> [role : {"user", "admin"}, status : {"active", "deletion_pending"},
                            version : Nat \ {0}]]
    /\ roleLock \in People \cup {NoOne}
    /\ userLock \in [People -> People \cup {NoOne}]
    /\ grant \in [People -> GrantRecord \cup {NoGrant}]

\* Whoever changes roles has the advisory lock; a demotion that was allowed leaves somebody
\* else with the role, because under the lock nobody else can take it away.
GrantSound(p) ==
    /\ grant[p].pc \in {"serialized", "allowed"} => roleLock = p
    /\ grant[p].pc = "allowed" /\ grant[p].role = "user" /\ user[grant[p].target].role = "admin" =>
         \E q \in People \ {grant[p].target} : user[q].role = "admin"

RolesInv ==
    /\ RolesTypes
    /\ \E q \in People : user[q].role = "admin"
    /\ \A p \in People : GrantSound(p)

LEMMA StagedGrant ==
    ASSUME RolesTypes, NEW p \in People, grant[p].pc # "idle"
    PROVE  grant[p] \in GrantRecord
  <1>1. grant[p] # NoGrant
    BY DEF NoGrant
  <1> QED
    BY <1>1 DEF RolesTypes

\* More than one administrator: one beside any other person.
LEMMA AnotherAdministrator ==
    ASSUME NEW u \in People, Cardinality(Administrators) > 1
    PROVE  \E q \in People \ {u} : user[q].role = "admin"
  <1>1. SUFFICES ASSUME Administrators \subseteq {u} PROVE FALSE
    BY DEF Administrators
  <1>2. IsFiniteSet({u}) /\ Cardinality({u}) = 1
    BY FS_Singleton
  <1>3. Cardinality(Administrators) \in Nat /\ Cardinality(Administrators) <= 1
    BY <1>1, <1>2, FS_Subset, FS_CardinalityType
  <1> QED
    BY <1>3

LEMMA GrantStep ==
    ASSUME RolesInv, NEW p \in People,
           \/ \E target \in People, role \in {"user", "admin"} : RequestGrant(p, target, role)
           \/ SerializeGrant(p) \/ AllowGrant(p) \/ CommitGrant(p) \/ RollbackGrant(p)
    PROVE  RolesInv'
  <1>0. RolesTypes /\ \A q \in People : GrantSound(q)
    BY DEF RolesInv
  <1>1. ASSUME NEW target \in People, NEW role \in {"user", "admin"}, RequestGrant(p, target, role)
        PROVE  RolesInv'
    <2> DEFINE g == [pc |-> "requested", target |-> target, role |-> role, seen |-> user[target].version]
    <2>1. g \in GrantRecord /\ g.pc = "requested"
      BY <1>0 DEF GrantRecord, RolesTypes
    <2>2. grant' = [grant EXCEPT ![p] = g] /\ UNCHANGED <<user, roleLock, userLock>>
      BY <1>1 DEF RequestGrant
    <2> HIDE DEF g
    <2>3. RolesTypes'
      BY <1>0, <2>1, <2>2 DEF RolesTypes
    <2>4. \A q \in People : GrantSound(q)'
      BY <1>0, <2>1, <2>2 DEF GrantSound, RolesTypes
    <2> QED
      BY <2>2, <2>3, <2>4 DEF RolesInv
  <1>2. CASE SerializeGrant(p)
    <2>1. grant[p] \in GrantRecord
      BY <1>0, <1>2, StagedGrant DEF SerializeGrant
    <2>2. RolesTypes' /\ grant'[p].pc = "serialized"
      BY <1>0, <1>2, <2>1 DEF SerializeGrant, RolesTypes, GrantRecord
    <2>3. \A q \in People \ {p} : grant'[q] = grant[q] /\ grant[q].pc \notin {"serialized", "allowed"}
      BY <1>0, <1>2, PeopleAssumption DEF SerializeGrant, RolesTypes, GrantSound
    <2>4. \A q \in People : GrantSound(q)'
      BY <1>2, <2>2, <2>3 DEF GrantSound, SerializeGrant
    <2> QED
      BY <1>2, <2>2, <2>4 DEF RolesInv, SerializeGrant
  <1>3. CASE AllowGrant(p)
    <2>1. grant[p] \in GrantRecord /\ roleLock = p
      BY <1>0, <1>3, StagedGrant DEF AllowGrant, GrantSound
    <2>2. /\ RolesTypes' /\ grant'[p].target = grant[p].target /\ grant'[p].role = grant[p].role
          /\ \A q \in People \ {p} : grant'[q] = grant[q]
      BY <1>0, <1>3, <2>1 DEF AllowGrant, LockUser, RolesTypes, GrantRecord
    <2>3. grant[p].role = "user" /\ user[grant[p].target].role = "admin" =>
            \E q \in People \ {grant[p].target} : user[q].role = "admin"
      BY <1>3, <2>1, AnotherAdministrator DEF AllowGrant, GrantRecord
    <2>4. user' = user /\ roleLock' = roleLock
      BY <1>3 DEF AllowGrant
    <2>5. GrantSound(p)'
      BY <2>1, <2>2, <2>3, <2>4 DEF GrantSound
    <2>6. \A q \in People \ {p} : GrantSound(q)'
      BY <1>0, <2>2, <2>4 DEF GrantSound
    <2> QED
      BY <2>2, <2>4, <2>5, <2>6 DEF RolesInv
  <1>4. CASE CommitGrant(p)
    <2>1. grant[p] \in GrantRecord /\ roleLock = p
      BY <1>0, <1>4, StagedGrant DEF CommitGrant, GrantSound
    <2> DEFINE u == grant[p].target
    <2>2. /\ u \in People /\ grant[p].role \in {"user", "admin"}
          /\ user' = [user EXCEPT ![u].role = grant[p].role, ![u].version = @ + 1]
      BY <1>4, <2>1 DEF CommitGrant, GrantRecord
    <2>3. RolesTypes'
      <3>1. user' \in [People -> [role : {"user", "admin"}, status : {"active", "deletion_pending"},
                                  version : Nat \ {0}]]
        BY <1>0, <2>2 DEF RolesTypes
      <3> QED
        BY <1>0, <1>4, <3>1 DEF CommitGrant, ReleaseRoles, RolesTypes
    <2>4. \A q \in People \ {u} : user'[q] = user[q]
      BY <1>0, <2>2 DEF RolesTypes
    <2>5. user'[u].role = grant[p].role
      BY <1>0, <2>2 DEF RolesTypes
    <2>6. \E q \in People : user'[q].role = "admin"
      <3>1. CASE grant[p].role = "admin"
        BY <2>2, <2>5, <3>1
      <3>2. CASE grant[p].role = "user" /\ user[u].role = "admin"
        BY <1>0, <1>4, <2>4, <3>2 DEF GrantSound, CommitGrant
      <3>3. CASE user[u].role # "admin"
        BY <2>4, <3>3 DEF RolesInv
      <3> QED
        BY <2>2, <3>1, <3>2, <3>3
    <2>7. \A q \in People : GrantSound(q)'
      <3>1. grant'[p].pc = "idle"
        BY <1>0, <1>4 DEF CommitGrant, NoGrant, RolesTypes
      <3>2. \A q \in People \ {p} : grant'[q] = grant[q] /\ grant[q].pc \notin {"serialized", "allowed"}
        BY <1>0, <1>4, <2>1 DEF CommitGrant, RolesTypes, GrantSound
      <3> QED
        BY <3>1, <3>2 DEF GrantSound
    <2> QED
      BY <2>3, <2>6, <2>7 DEF RolesInv
  <1>5. CASE RollbackGrant(p)
    <2>1. RolesTypes' /\ grant'[p].pc = "idle" /\ \A q \in People \ {p} : grant'[q] = grant[q]
      BY <1>0, <1>5 DEF RollbackGrant, ReleaseRoles, RolesTypes, NoGrant
    <2>2. \A q \in People \ {p} : roleLock = q => roleLock' = q
      BY <1>5 DEF RollbackGrant, ReleaseRoles
    <2>3. \A q \in People : GrantSound(q)'
      BY <1>0, <1>5, <2>1, <2>2 DEF GrantSound, RollbackGrant
    <2> QED
      BY <1>5, <2>1, <2>3 DEF RolesInv, RollbackGrant
  <1> QED
    BY <1>1, <1>2, <1>3, <1>4, <1>5

LEMMA CloseStep ==
    ASSUME RolesInv, NEW p \in People, CloseAccount(p)
    PROVE  RolesInv'
  <1>1. RolesTypes'
    BY DEF RolesInv, RolesTypes, CloseAccount
  <1>2. \A q \in People : user'[q].role = user[q].role
    BY DEF RolesInv, RolesTypes, CloseAccount
  <1>3. \A q \in People : grant[q].pc = "allowed" => grant[q].target \in People
    BY StagedGrant DEF RolesInv, GrantRecord
  <1>4. ASSUME NEW q \in People PROVE GrantSound(q)'
    <2>1. GrantSound(q) /\ grant' = grant /\ roleLock' = roleLock
      BY DEF RolesInv, CloseAccount
    <2>2. ASSUME grant[q].pc = "allowed", grant[q].role = "user",
                 user'[grant[q].target].role = "admin"
          PROVE  \E r \in People \ {grant[q].target} : user'[r].role = "admin"
      BY <1>2, <1>3, <2>1, <2>2 DEF GrantSound
    <2> QED
      BY <2>1, <2>2 DEF GrantSound
  <1> QED
    BY <1>1, <1>2, <1>4 DEF RolesInv

LEMMA RolesInitSound == RolesInit => RolesInv
  <1> SUFFICES ASSUME RolesInit PROVE RolesInv
    OBVIOUS
  <1>1. PICK admins \in (SUBSET People) \ {{}} :
          user = [p \in People |-> [role |-> IF p \in admins THEN "admin" ELSE "user",
                                    status |-> "active", version |-> 1]]
    BY DEF RolesInit
  <1>2. user \in [People -> [role : {"user", "admin"}, status : {"active", "deletion_pending"},
                            version : Nat \ {0}]]
    BY <1>1
  <1>3. \E q \in People : user[q].role = "admin"
    <2>1. PICK q \in admins : q \in People
      OBVIOUS
    <2>2. user[q].role = "admin"
      BY <1>1, <2>1
    <2> QED
      BY <2>1, <2>2
  <1> QED
    BY <1>2, <1>3 DEF RolesInit, RolesInv, RolesTypes, GrantSound, NoGrant

\* The whole of RolesInv speaks of the variables of Roles.
LEMMA RolesSame ==
    ASSUME RolesInv, UNCHANGED rolesVars
    PROVE  RolesInv'
  BY DEF RolesInv, RolesTypes, GrantSound, rolesVars

-----------------------------------------------------------------------------
(* The inductive invariant of Administration *)

IInv ==
    /\ CatalogueTypes /\ SettingsTypes
    /\ CatalogueInv
    /\ FreshUnlessOvertaken
    /\ RolesInv
    /\ activities \in 0..MaxActivities

LEMMA SettingsSame ==
    ASSUME SettingsTypes, FreshUnlessOvertaken, UNCHANGED settingsVars
    PROVE  SettingsTypes' /\ FreshUnlessOvertaken' /\ change' = change
  <1>1. SettingsTypes'
    BY DEF SettingsTypes, ValuesValid, ValidValue, settingsVars
  <1>2. FreshUnlessOvertaken'
    BY FreshSame DEF settingsVars
  <1> QED
    BY <1>1, <1>2 DEF settingsVars

LEMMA CatalogueTypesStay ==
    ASSUME CatalogueTypes, UNCHANGED catalogueVars
    PROVE  CatalogueTypes'
  BY DEF CatalogueTypes, catalogueVars

LEMMA CatalogueSame ==
    ASSUME CatalogueTypes, SettingsTypes, CatalogueInv, UNCHANGED catalogueVars, change' = change
    PROVE  CatalogueInv'
  <1>1. \A q \in People : EditLocked(q)' /\ ReferenceLocked(q)' /\ OneRequest(q)'
    BY OthersSound, PeopleAssumption DEF catalogueVars, CatalogueInv
  <1> QED
    BY <1>1, RowsSame DEF catalogueVars, CatalogueInv, RequestsSound

LEMMA BeginTyped ==
    ASSUME activities \in 0..MaxActivities, Begin \/ UNCHANGED activities
    PROVE  activities' \in 0..MaxActivities
  BY AdministrationAssumption DEF Begin

LEMMA UpdateModelInvariant ==
    ASSUME IInv, NEW p \in People, UpdateModel(p)
    PROVE  IInv'
  <1> USE DEF IInv
  <1>1. SettingsTypes' /\ FreshUnlessOvertaken' /\ change' = change /\ RolesInv'
    BY SettingsSame, RolesSame DEF UpdateModel
  <1>2. activities' \in 0..MaxActivities
    BY BeginTyped DEF UpdateModel
  <1>3. CASE \/ Authorized(p) /\ \E m \in Models, body \in Edits : RequestEdit(p, m, body)
             \/ LockModel(p) \/ BeginClear(p) \/ EndClear(p)
    <2>1. CatalogueTypes'
      BY <1>3, EditTyped
    <2>2. CatalogueInv'
      BY <1>1, <1>3, EditSound DEF Authorized
    <2> QED
      BY <1>1, <1>2, <2>1, <2>2
  <1>4. CASE CommitEdit(p) \/ RollbackEdit(p)
    <2>1. CatalogueTypes'
      BY <1>4, CatalogueStepTyped
    <2>2. CatalogueInv'
      BY <1>1, <1>4, <2>1, CommitSound, RollbackSound
    <2> QED
      BY <1>1, <1>2, <2>1, <2>2
  <1> QED
    BY <1>3, <1>4 DEF UpdateModel

LEMMA UpdateSettingInvariant ==
    ASSUME IInv, NEW p \in People, UpdateSetting(p)
    PROVE  IInv'
  <1> USE DEF IInv
  <1>1. RolesInv' /\ activities' \in 0..MaxActivities
    BY RolesSame, BeginTyped DEF UpdateSetting
  <1>2. SettingsTypes' /\ FreshUnlessOvertaken'
    BY ChangeTyped, FreshStep DEF UpdateSetting
  <1>3. CASE /\ Authorized(p)
             /\ \E key \in Keys : \E value \in Offers(key) : RequestChange(p, key, value)
    <2>1. UNCHANGED catalogueVars
      BY <1>3 DEF RequestChange
    <2>2. CatalogueTypes'
      BY <2>1, CatalogueTypesStay
    <2>3. CatalogueInv'
      BY <1>3, <2>1, ChangeSound DEF Authorized, catalogueVars
    <2> QED
      BY <1>1, <1>2, <2>2, <2>3
  <1>4. CASE InvalidateFirst(p) \/ InvalidateAgain(p)
    <2>1. UNCHANGED catalogueVars
      BY <1>4 DEF InvalidateFirst, InvalidateAgain
    <2>2. CatalogueTypes'
      BY <2>1, CatalogueTypesStay
    <2>3. CatalogueInv'
      BY <1>4, <2>1, ChangeSound DEF catalogueVars
    <2> QED
      BY <1>1, <1>2, <2>2, <2>3
  <1>5. CASE CheckReference(p) \/ CommitChange(p) \/ RollbackChange(p)
    <2>1. CatalogueTypes'
      BY <1>5, LocksTyped
    <2>2. CatalogueInv'
      BY <1>5, ChangeSound DEF CheckReference, CommitChange, RollbackChange
    <2> QED
      BY <1>1, <1>2, <2>1, <2>2
  <1> QED
    BY <1>3, <1>4, <1>5 DEF UpdateSetting

LEMMA OtherInvariant ==
    ASSUME IInv,
           \/ \E p \in People : UpdateUserRole(p) \/ RequestAccountDeletion(p)
           \/ LoadSettings \/ ExpireSettings \/ Synchronize
           \/ UNCHANGED vars
    PROVE  IInv'
  <1> USE DEF IInv
  <1>0. activities' \in 0..MaxActivities
    BY BeginTyped DEF UpdateUserRole, RequestAccountDeletion, LoadSettings, ExpireSettings,
       Synchronize, vars
  <1>1. CASE \E p \in People : UpdateUserRole(p) \/ RequestAccountDeletion(p)
    <2>1. RolesInv'
      BY <1>1, GrantStep, CloseStep DEF UpdateUserRole, RequestAccountDeletion
    <2>2. UNCHANGED <<catalogueVars, settingsVars>>
      BY <1>1 DEF UpdateUserRole, RequestAccountDeletion
    <2> QED
      BY <1>0, <2>1, <2>2, SettingsSame, CatalogueSame, CatalogueTypesStay
  <1>2. CASE LoadSettings \/ ExpireSettings
    <2>1. SettingsTypes' /\ FreshUnlessOvertaken'
      BY <1>2, LoadTyped, FreshStep DEF LoadSettings, ExpireSettings
    <2>2. UNCHANGED <<catalogueVars, rolesVars, change>>
      BY <1>2 DEF LoadSettings, ExpireSettings, ReadSettings, CacheSettings, AbandonLoad, SnapshotExpires
    <2> QED
      BY <1>0, <2>1, <2>2, RolesSame, CatalogueSame, CatalogueTypesStay
  <1>3. CASE Synchronize
    <2>1. CatalogueTypes'
      BY <1>3, CatalogueStepTyped DEF Synchronize
    <2>2. SettingsTypes' /\ FreshUnlessOvertaken' /\ change' = change /\ RolesInv'
      BY <1>3, SettingsSame, RolesSame DEF Synchronize
    <2>3. CatalogueInv'
      BY <1>3, <2>1, <2>2, SyncSound DEF Synchronize
    <2> QED
      BY <1>0, <2>1, <2>2, <2>3
  <1>4. CASE UNCHANGED vars
    BY <1>0, <1>4, SettingsSame, CatalogueSame, CatalogueTypesStay, RolesSame DEF vars
  <1> QED
    BY <1>1, <1>2, <1>3, <1>4

LEMMA Invariant == Spec => []IInv
  <1>1. Init => IInv
    <2> SUFFICES ASSUME Init PROVE IInv
      OBVIOUS
    <2>1. FreshUnlessOvertaken
      BY DEF Init, SettingsInit, FreshUnlessOvertaken
    <2> QED
      BY <2>1, CatalogueInitTyped, SettingsInitTyped, CatalogueInitSound, RolesInitSound,
         AdministrationAssumption DEF Init, IInv
  <1>2. IInv /\ [Next]_vars => IInv'
    BY UpdateModelInvariant, UpdateSettingInvariant, OtherInvariant DEF Next
  <1> QED
    BY <1>1, <1>2, PTL DEF Spec

-----------------------------------------------------------------------------
(* Theorems *)

\* Every variable keeps its type; in particular there is at most one snapshot in Redis.
THEOREM TypeCorrect == Spec => []TypeOK
  <1>1. IInv => TypeOK
    <2> SUFFICES ASSUME IInv PROVE TypeOK
      OBVIOUS
    <2>1. CatalogueTypeOK /\ SettingsTypeOK
      BY CatalogueTypesSame, SettingsTyped DEF IInv
    <2>2. RolesTypeOK
      BY DEF IInv, RolesInv, RolesTypes, RolesTypeOK, GrantRecord
    <2> QED
      BY <2>1, <2>2 DEF IInv, TypeOK
  <1> QED
    BY <1>1, Invariant, PTL

\* One enabled model is the default of each type of actor, however edits (statement by
\* statement, each with its own snapshot) and synchronizations overlap.
THEOREM OneDefaultAlways == Spec => []OneDefault
  <1>1. IInv => OneDefault
    BY DEF IInv, CatalogueInv
  <1> QED
    BY <1>1, Invariant, PTL

\* A cached snapshot is what is stored, or an update is about to delete it, or it was
\* overtaken or lost (settings.Load, UpdateSetting).
THEOREM FreshAlways == Spec => []FreshUnlessOvertaken
  <1>1. IInv => FreshUnlessOvertaken
    BY DEF IInv
  <1> QED
    BY <1>1, Invariant, PTL

\* An administrator remains, or one of them asked for the deletion of the own account.
THEOREM AdministratorAlwaysRemains == Spec => []AdministratorRemains
  <1>1. IInv => AdministratorRemains
    <2> SUFFICES ASSUME RolesInv PROVE AdministratorRemains
      BY DEF IInv
    <2>1. PICK q \in People : user[q].role = "admin"
      BY DEF RolesInv
    <2>2. user[q].status \in {"active", "deletion_pending"}
      BY DEF RolesInv, RolesTypes
    <2> QED
      BY <2>1, <2>2 DEF AdministratorRemains, Administrators
  <1> QED
    BY <1>1, Invariant, PTL

\* The summary model can be used by users at the moment it is stored: the row lock of
\* validateSettingReference keeps edits and synchronizations away until COMMIT.
THEOREM SummaryModelAlwaysUsable == Spec => SummaryModelUsable
  <1>1. IInv /\ [Next]_vars =>
          [stored'[SummaryModel] # stored[SummaryModel]
             => Selectable(stored'[SummaryModel].value, "user")]_settingsVars
    <2> SUFFICES ASSUME IInv, [Next]_vars, stored'[SummaryModel] # stored[SummaryModel]
                 PROVE  Selectable(stored'[SummaryModel].value, "user")
      OBVIOUS
    <2>1. PICK p \in People : CommitChange(p)
      BY DEF Next, vars, UpdateModel, UpdateUserRole, RequestAccountDeletion, ExpireSettings,
         Synchronize, settingsVars, LoadSettings, ReadSettings, CacheSettings, AbandonLoad,
         SnapshotExpires, UpdateSetting, RequestChange, InvalidateFirst, CheckReference,
         InvalidateAgain, RollbackChange
    <2>2. change[p] \in ChangeRecord /\ change[p].pc = "checked"
      BY <2>1, StagedChange DEF IInv, CommitChange
    <2>3. change[p].key = SummaryModel /\ stored'[SummaryModel].value = change[p].value
      BY <2>1, <2>2 DEF IInv, CommitChange, SettingsTypes, ChangeRecord, Keys
    <2>4. change[p].value \in Models /\ ValidReference(SummaryModel, change[p].value)
      BY <2>2, <2>3 DEF IInv, CatalogueInv, RequestsSound, ReferenceLocked, SettingsTypes,
         ValuesValid, ValidValue
    <2> QED
      BY <2>3, <2>4 DEF IInv, CatalogueInv, RowsSound, ValidReference, Selectable, Exposed
  <1> QED
    BY <1>1, Invariant, PTL DEF Spec, SummaryModelUsable

=============================================================================
