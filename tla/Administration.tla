--------------------------- MODULE Administration ----------------------------
(***************************************************************************)
(* The administration API (internal/platform/server/admin.go): requests of *)
(* administrators change settings, models and roles while other requests   *)
(* load the settings, workers synchronize the catalogue and accounts are   *)
(* closed.  requireAdmin reads the role once, before the operation; a      *)
(* person has one administrative request at a time.                        *)
(***************************************************************************)
EXTENDS Settings, Roles

CONSTANTS
    Roots,          \* bound: people who may be administrators at the start
    MaxActivities   \* bound: requests, loads, synchronizations and changes that begin

ASSUME AdministrationAssumption == Roots \subseteq People /\ MaxActivities \in Nat

VARIABLE activities

vars == <<catalogueVars, settingsVars, rolesVars, activities>>

TypeOK == CatalogueTypeOK /\ SettingsTypeOK /\ RolesTypeOK /\ activities \in 0..MaxActivities

Init == CatalogueInit /\ SettingsInit /\ RolesInit /\ Administrators \subseteq Roots /\ activities = 0

-----------------------------------------------------------------------------

Begin == activities < MaxActivities /\ activities' = activities + 1

\* requireAdmin, for a person without a request under way.
Authorized(p) ==
    /\ p \in Administrators
    /\ edit[p] = NoEdit /\ change[p] = NoChange /\ grant[p] = NoGrant

\* Settings other than the summary model take limits; the body may hold anything.
Offers(key) == (IF key = SummaryModel THEN Models ELSE Limits) \cup {Malformed}

UpdateModel(p) ==
    /\ \/ Authorized(p) /\ Begin /\ \E m \in Models, body \in Edits : RequestEdit(p, m, body)
       \/ UNCHANGED activities /\ (LockModel(p) \/ BeginClear(p) \/ EndClear(p))
       \/ UNCHANGED activities /\ (CommitEdit(p) \/ RollbackEdit(p))
    /\ UNCHANGED <<settingsVars, rolesVars>>

UpdateSetting(p) ==
    /\ \/ /\ Authorized(p) /\ Begin
          /\ \E key \in Keys : \E value \in Offers(key) : RequestChange(p, key, value)
       \/ UNCHANGED activities /\ (InvalidateFirst(p) \/ CheckReference(p) \/ CommitChange(p))
       \/ UNCHANGED activities /\ (InvalidateAgain(p) \/ RollbackChange(p))
    /\ UNCHANGED rolesVars

UpdateUserRole(p) ==
    /\ \/ /\ Authorized(p) /\ Begin
          /\ \E target \in People, role \in {"user", "admin"} : RequestGrant(p, target, role)
       \/ UNCHANGED activities /\ (SerializeGrant(p) \/ AllowGrant(p))
       \/ UNCHANGED activities /\ (CommitGrant(p) \/ RollbackGrant(p))
    /\ UNCHANGED <<catalogueVars, settingsVars>>

RequestAccountDeletion(p) ==
    Begin /\ CloseAccount(p) /\ UNCHANGED <<catalogueVars, settingsVars>>

LoadSettings ==
    /\ \E l \in Loaders :
        \/ Begin /\ ReadSettings(l)
        \/ UNCHANGED activities /\ (CacheSettings(l) \/ AbandonLoad(l))
    /\ UNCHANGED <<catalogueVars, rolesVars>>

ExpireSettings == SnapshotExpires /\ UNCHANGED <<catalogueVars, rolesVars, activities>>

Synchronize ==
    /\ \/ Begin /\ OfferChanges
       \/ Begin /\ \E w \in Workers : FetchCatalog(w)
       \/ UNCHANGED activities /\ \E w \in Workers : ApplyCatalog(w) \/ SyncFails(w)
    /\ UNCHANGED <<settingsVars, rolesVars>>

Next ==
    \/ \E p \in People :
        \/ UpdateModel(p)
        \/ UpdateSetting(p)
        \/ UpdateUserRole(p)
        \/ RequestAccountDeletion(p)
    \/ LoadSettings
    \/ ExpireSettings
    \/ Synchronize

Spec == Init /\ [][Next]_vars

=============================================================================
