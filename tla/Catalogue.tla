----------------------------- MODULE Catalogue ------------------------------
(***************************************************************************)
(* The models that can be chosen: administrators edit their exposure       *)
(* (internal/admin/service.go UpdateModel), workers copy the provider's    *)
(* catalogue into them (internal/models/synchronizer.go), requests select  *)
(* among them (internal/models/service.go).                                *)
(*                                                                         *)
(* UpdateModel is one transaction of several statements: rows it writes    *)
(* stay locked to the end, other transactions see its writes when it       *)
(* commits, and each statement sees what was committed when it began.  One *)
(* provider is configured; every model is supported (nothing in the code   *)
(* sets supported to false).                                               *)
(***************************************************************************)
EXTENDS Requesters

CONSTANTS
    Models,
    FirstModel,     \* the model the migrations create
    Workers,        \* processes that synchronize the catalogue
    Catalogs,       \* the lists of models the provider may answer with
    Edits           \* bodies of PATCH /admin/models/{modelId}

ActorTypes == {"guest", "user"}

\* An optional field of a body is the set of its value, empty when left out.
Optional(S) == {{}} \cup {{v} : v \in S}

EditBodies == [enabled : Optional(BOOLEAN),
               audience : Optional(SUBSET ActorTypes),
               defaultFor : Optional(SUBSET ActorTypes)]

ASSUME CatalogueAssumption ==
    /\ IsFiniteSet(Models) /\ FirstModel \in Models
    /\ Edits \subseteq EditBodies /\ Catalogs \subseteq SUBSET Models

VARIABLES
    model,      \* the models rows; version 0: no such row
    mapping,    \* provider_models.available; the models without a row are not in its domain
    rowLock,    \* rowLock[m]: who holds the lock of m's row
    edit,       \* edit[p]: the UpdateModel that p's request runs
    offered,    \* what the provider lists
    fetched     \* fetched[w]: the catalogue a synchronization of w has fetched, as an Optional

catalogueVars == <<model, mapping, rowLock, edit, offered, fetched>>

NoEdit == [pc |-> "idle"]
Stages == {"requested", "locked"}

CatalogueTypeOK ==
    /\ model \in [Models -> [enabled : BOOLEAN, available : BOOLEAN,
                             audience : SUBSET ActorTypes, defaultFor : SUBSET ActorTypes,
                             version : Nat]]
    /\ DOMAIN mapping \subseteq Models /\ \A m \in DOMAIN mapping : mapping[m] \in BOOLEAN
    /\ rowLock \in [Models -> People \cup {NoOne}]
    /\ \A p \in People : edit[p] = NoEdit \/
          edit[p] \in [pc : Stages, model : Models, body : Edits, seen : Nat,
                       todo : SUBSET ActorTypes,           \* types still to clear
                       now : Optional(ActorTypes),         \* type being cleared
                       targets : SUBSET Models,            \* rows that statement waits for
                       cleared : SUBSET (Models \X ActorTypes)]
    /\ offered \in Catalogs
    /\ fetched \in [Workers -> Optional(Catalogs)]

-----------------------------------------------------------------------------
(* Selection *)

\* The EXISTS over provider_models of the selection queries.
Served(m) == m \in DOMAIN mapping /\ mapping[m]

Exposed(m) == model[m].enabled /\ model[m].available /\ Served(m)

\* GetDefaultModel
DefaultsOf(t) == {m \in Models : Exposed(m) /\ t \in model[m].defaultFor}

\* GetSelectableModel, then GetProviderForModel
Selectable(m, t) ==
    /\ Exposed(m)
    /\ t \in model[m].audience
    /\ t = "guest" => t \in model[m].defaultFor

\* ListPublicModels
PublicModels(t) == {m \in Models : Selectable(m, t)}

-----------------------------------------------------------------------------
(* UpdateModel *)

\* COALESCE(the field of the body, the column)
Coalesce(field, column) == IF field = {} THEN column ELSE CHOOSE v \in field : TRUE

\* The row UpdateAdminModel leaves.
Edited(row, body) ==
    [row EXCEPT !.enabled = Coalesce(body.enabled, @),
                !.audience = Coalesce(body.audience, @),
                !.defaultFor = Coalesce(body.defaultFor, @),
                !.version = @ + 1]

\* validAudience and the checks beside it
ValidExposure(row, body) ==
    LET after == Edited(row, body) IN
    /\ after.defaultFor \subseteq after.audience
    /\ after.enabled => row.available /\ after.audience # {}

\* FOR UPDATE and UPDATE wait for the row.
CanLock(p, m) == rowLock[m] \in {p, NoOne}

\* The row ClearOtherModelDefault leaves, for each type it was run for.
Cleared(row, types) ==
    [row EXCEPT !.defaultFor = @ \ types, !.version = @ + Cardinality(types)]

\* The table p's transaction would commit.
Result(p) ==
    LET e == edit[p]
        TypesOf(n) == {t \in ActorTypes : <<n, t>> \in e.cleared}
    IN [n \in Models |-> IF n = e.model THEN Edited(model[n], e.body)
                         ELSE Cleared(model[n], TypesOf(n))]

\* Variant: without the unique indexes.
AnyDefaults(rows) == TRUE

\* The unique indexes models_one_guest_default_idx and models_one_user_default_idx.
UniqueDefaults(rows) ==
    \A t \in ActorTypes :
        Cardinality({m \in Models : rows[m].enabled /\ t \in rows[m].defaultFor}) <= 1

\* CountSelectableDefaults is not zero, for neither type.
SelectableDefaults(rows) ==
    \A t \in ActorTypes :
        \E m \in Models : rows[m].enabled /\ rows[m].available /\ t \in rows[m].defaultFor

\* The transaction of p ends and its locks go.
ReleaseRows(p) == rowLock' = [m \in Models |-> IF rowLock[m] = p THEN NoOne ELSE rowLock[m]]

RequestEdit(p, m, body) ==
    /\ edit[p] = NoEdit
    /\ model[m].version > 0
    /\ edit' = [edit EXCEPT ![p] = [pc |-> "requested", model |-> m, body |-> body,
                                    seen |-> model[m].version, todo |-> {}, now |-> {}, targets |-> {},
                                    cleared |-> {}]]
    /\ UNCHANGED <<model, mapping, rowLock, offered, fetched>>

\* GetAdminModel FOR UPDATE, and the checks of what it returned.
LockModel(p) ==
    LET e == edit[p] IN
    /\ e.pc = "requested"
    /\ CanLock(p, e.model)
    /\ ValidExposure(model[e.model], e.body)
    /\ rowLock' = [rowLock EXCEPT ![e.model] = p]
    /\ edit' = [edit EXCEPT ![p].pc = "locked",
                            ![p].todo = Edited(model[e.model], e.body).defaultFor]
    /\ UNCHANGED <<model, mapping, offered, fetched>>

\* ClearOtherModelDefault begins: its snapshot decides which rows it waits for.
BeginClear(p) ==
    LET e == edit[p] IN
    /\ e.pc = "locked"
    /\ e.now = {}
    /\ \E t \in e.todo :
        edit' = [edit EXCEPT
                    ![p].now = {t},
                    ![p].targets = {n \in Models \ {e.model} : t \in model[n].defaultFor}]
    /\ UNCHANGED <<model, mapping, rowLock, offered, fetched>>

\* It has every row of its snapshot, and writes those that still match.
EndClear(p) ==
    LET e == edit[p]
        matching == {n \in e.targets : e.now \subseteq model[n].defaultFor}
    IN
    /\ e.pc = "locked"
    /\ e.now # {}
    /\ \A n \in e.targets : CanLock(p, n)
    /\ rowLock' = [n \in Models |-> IF n \in matching THEN p ELSE rowLock[n]]
    /\ edit' = [edit EXCEPT ![p].todo = @ \ e.now, ![p].now = {}, ![p].targets = {},
                            ![p].cleared = @ \cup (matching \X e.now)]
    /\ UNCHANGED <<model, mapping, offered, fetched>>

\* UpdateAdminModel under its version, the two counts, and COMMIT.
CommitEdit(p) ==
    LET e == edit[p] IN
    /\ e.pc = "locked"
    /\ e.todo = {}
    /\ model[e.model].version = e.seen
    /\ UniqueDefaults(Result(p))
    /\ SelectableDefaults(Result(p))
    /\ model' = Result(p)
    /\ edit' = [edit EXCEPT ![p] = NoEdit]
    /\ ReleaseRows(p)
    /\ UNCHANGED <<mapping, offered, fetched>>

\* Any refusal (invalid, conflict, unique index), deadlock victim, cancelled request.
RollbackEdit(p) ==
    /\ edit[p] # NoEdit
    /\ edit' = [edit EXCEPT ![p] = NoEdit]
    /\ ReleaseRows(p)
    /\ UNCHANGED <<model, mapping, offered, fetched>>

-----------------------------------------------------------------------------
(* Synchronization *)

\* The provider changes its catalogue.
OfferChanges ==
    /\ \E c \in Catalogs \ {offered} : offered' = c
    /\ UNCHANGED <<model, mapping, rowLock, edit, fetched>>

\* gateway.Catalog, before the transaction.
FetchCatalog(w) ==
    /\ fetched[w] = {}
    /\ fetched' = [fetched EXCEPT ![w] = {offered}]
    /\ UNCHANGED <<model, mapping, rowLock, edit, offered>>

\* CreateDiscoveredModel
Discovered == [enabled |-> FALSE, available |-> FALSE, audience |-> {"user"},
               defaultFor |-> {}, version |-> 1]

\* MarkProviderModelsUnavailable and, before it, UpsertProviderModel of those present.
Mapped(catalog) == [m \in DOMAIN mapping \cup catalog |-> m \in catalog]

\* RefreshModelAvailability
Refreshed(row, available) ==
    IF row.version = 0 \/ row.available = available THEN row
    ELSE [row EXCEPT !.available = available, !.version = @ + 1]

\* discoverModel, for a model of the catalogue that has no row.
DiscoverModel(m, catalog) ==
    IF m \in catalog /\ model[m].version = 0 THEN Discovered ELSE model[m]

\* The transaction of Sync: it waits for the rows of the models it changes.
ApplyCatalog(w) ==
    /\ fetched[w] # {}
    /\ \E catalog \in fetched[w] :
        /\ mapping' = Mapped(catalog)
        /\ model' = [m \in Models |-> Refreshed(DiscoverModel(m, catalog), m \in catalog)]
    /\ \A m \in Models : model'[m] # model[m] => rowLock[m] = NoOne
    /\ fetched' = [fetched EXCEPT ![w] = {}]
    /\ UNCHANGED <<rowLock, edit, offered>>

\* The fetch or the transaction fails; the outbox or the next start tries again.
SyncFails(w) ==
    /\ fetched[w] # {}
    /\ fetched' = [fetched EXCEPT ![w] = {}]
    /\ UNCHANGED <<model, mapping, rowLock, edit, offered>>

-----------------------------------------------------------------------------

\* What earlier synchronizations and edits may have left of the other models.
Enabled == [Discovered EXCEPT !.enabled = TRUE, !.available = TRUE, !.version = 3]
Absent == [Discovered EXCEPT !.version = 0]

\* FirstModel of migrations/00002_models_chat.sql is the default of both types.
CatalogueInit ==
    /\ \E others \in [Models \ {FirstModel} ->
                     {Absent, [Discovered EXCEPT !.available = TRUE, !.version = 2], Enabled}] :
        model = [m \in Models |->
            IF m # FirstModel THEN others[m]
            ELSE [enabled |-> TRUE, available |-> TRUE, audience |-> ActorTypes,
                  defaultFor |-> ActorTypes, version |-> 1]]
    /\ mapping = [m \in {n \in Models : model[n].version > 0} |-> TRUE]
    /\ offered \in {c \in Catalogs : DOMAIN mapping \subseteq c}
    /\ rowLock = [m \in Models |-> NoOne]
    /\ edit = [p \in People |-> NoEdit]
    /\ fetched = [w \in Workers |-> {}]

-----------------------------------------------------------------------------
(* Properties *)

(* Model administration "atomically preserves valid defaults": whatever      *)
(* edits of several administrators and synchronizations overlap, exactly one *)
(* enabled model is the default of each type of actor, and that type may use *)
(* it; what a guest is offered is that model or nothing.  UpdateModel of     *)
(* internal/admin/service.go with the unique indexes, GetDefaultModel and    *)
(* ListPublicModels.                                                         *)
OneDefault ==
    \A t \in ActorTypes :
        /\ \E m \in Models :
            /\ {n \in Models : model[n].enabled /\ t \in model[n].defaultFor} = {m}
            /\ t \in model[m].audience
        /\ DefaultsOf(t) \subseteq PublicModels(t)
        /\ t = "guest" => PublicModels(t) = DefaultsOf(t)

=============================================================================
