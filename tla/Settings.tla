------------------------------ MODULE Settings -------------------------------
(***************************************************************************)
(* The runtime settings: Load (internal/settings/service.go) keeps a       *)
(* snapshot of all of them in Redis for a while, UpdateSetting             *)
(* (internal/admin/service.go) deletes it before and after its             *)
(* transaction.  The reference to the summary model is checked in that     *)
(* transaction against the model's row, which stays locked to its end.     *)
(***************************************************************************)
EXTENDS Catalogue

CONSTANTS
    Limits,         \* values validSettingValue accepts for a numeric setting
    FirstLimit,     \* the one of the migrations
    Malformed,      \* a value it refuses
    Loaders,        \* requests that load the settings
    MaxLosses       \* bound: invalidations that fail, replies of COMMIT that are lost

ASSUME SettingsAssumption == FirstLimit \in Limits /\ Malformed \notin Limits /\ MaxLosses \in Nat

VARIABLES
    stored,     \* runtime_settings: value and version of each key
    cached,     \* the snapshot in Redis, as an Optional, with a history mark
    change,     \* change[p]: the UpdateSetting that p's request runs
    load,       \* load[l]: the rows Load has read and not yet cached, as an Optional
    losses

settingsVars == <<stored, cached, change, load, losses>>

SummaryModel == "chat.summary_model_id"
Quota == "quota.user.messages"
Keys == {SummaryModel, Quota}
Values == [Keys -> Models \cup Limits]

NoChange == [pc |-> "idle"]

SettingsTypeOK ==
    /\ stored \in [Keys -> [value : Models \cup Limits, version : Nat \ {0}]]
    /\ \A c \in cached : c \in [snapshot : Values, excused : BOOLEAN]
    /\ Cardinality(cached) <= 1
    /\ \A p \in People : change[p] = NoChange \/
          change[p] \in [pc : {"requested", "invalidated", "checked", "committed"}, key : Keys,
                         value : Models \cup Limits \cup {Malformed}, seen : Nat]
    /\ \A l \in Loaders : load[l] \subseteq Values /\ Cardinality(load[l]) <= 1
    /\ losses \in 0..MaxLosses

Snapshot == [k \in Keys |-> stored[k].value]

-----------------------------------------------------------------------------
(* Load *)

Lose == losses < MaxLosses /\ losses' = losses + 1

\* The cache holds nothing, or Get fails: ListRuntimeSettings.
ReadSettings(l) ==
    /\ load[l] = {}
    /\ (cached = {} /\ UNCHANGED losses) \/ Lose
    /\ load' = [load EXCEPT ![l] = {Snapshot}]
    /\ UNCHANGED <<stored, cached, change>>

\* Variant: each process keeps a snapshot of its own.
CacheBeside(l) ==
    /\ load[l] # {}
    /\ cached' = cached \cup {[snapshot |-> s, excused |-> s # Snapshot] : s \in load[l]}
    /\ load' = [load EXCEPT ![l] = {}]
    /\ UNCHANGED <<stored, change, losses>>

\* Put; excused marks a snapshot that was out of date already then.
CacheSettings(l) ==
    /\ load[l] # {}
    /\ cached' = {[snapshot |-> s, excused |-> s # Snapshot] : s \in load[l]}
    /\ load' = [load EXCEPT ![l] = {}]
    /\ UNCHANGED <<stored, change, losses>>

\* Put fails, or the request ends.
AbandonLoad(l) ==
    /\ load[l] # {}
    /\ load' = [load EXCEPT ![l] = {}]
    /\ UNCHANGED <<stored, cached, change, losses>>

\* cacheTTL
SnapshotExpires ==
    /\ cached # {}
    /\ cached' = {}
    /\ UNCHANGED <<stored, change, load, losses>>

-----------------------------------------------------------------------------
(* UpdateSetting *)

\* validSettingValue
ValidValue(key, value) ==
    IF key = SummaryModel THEN value \in Models ELSE value \in Limits

\* validateSettingReference
ValidReference(key, value) ==
    key = SummaryModel =>
        model[value].enabled /\ model[value].available /\ "user" \in model[value].audience

\* Invalidate deletes the snapshot, or fails, which UpdateSetting ignores.
Invalidate ==
    \/ cached' = {} /\ UNCHANGED losses
    \/ /\ cached' = {[c EXCEPT !.excused = TRUE] : c \in cached}
       /\ Lose

RequestChange(p, key, value) ==
    /\ change[p] = NoChange
    /\ change' = [change EXCEPT ![p] = [pc |-> "requested", key |-> key, value |-> value,
                                        seen |-> stored[key].version]]
    /\ UNCHANGED <<catalogueVars, stored, cached, load, losses>>

\* The first Invalidate; an invalid value is refused before it.
InvalidateFirst(p) ==
    /\ change[p].pc = "requested"
    /\ ValidValue(change[p].key, change[p].value)
    /\ Invalidate
    /\ change' = [change EXCEPT ![p].pc = "invalidated"]
    /\ UNCHANGED <<catalogueVars, stored, load>>

\* Variant: the reference is checked without FOR UPDATE.
ReadReference(p) ==
    LET c == change[p] IN
    /\ c.pc = "invalidated"
    /\ ValidReference(c.key, c.value)
    /\ change' = [change EXCEPT ![p].pc = "checked"]
    /\ UNCHANGED <<catalogueVars, stored, cached, load, losses>>

\* GetRuntimeSetting and the reference, whose row it locks.
CheckReference(p) ==
    LET c == change[p] IN
    /\ c.pc = "invalidated"
    /\ c.key = SummaryModel => CanLock(p, c.value)
    /\ ValidReference(c.key, c.value)
    /\ rowLock' = [m \in Models |-> IF c.key = SummaryModel /\ m = c.value THEN p ELSE rowLock[m]]
    /\ change' = [change EXCEPT ![p].pc = "checked"]
    /\ UNCHANGED <<model, mapping, edit, offered, fetched, stored, cached, load, losses>>

\* UpdateRuntimeSetting and COMMIT, whose reply may be lost: then the request ends in error.
CommitChange(p) ==
    LET c == change[p] IN
    /\ c.pc = "checked"
    /\ stored[c.key].version = c.seen
    /\ stored' = [stored EXCEPT ![c.key] = [value |-> c.value, version |-> @.version + 1]]
    /\ ReleaseRows(p)
    /\ \/ /\ change' = [change EXCEPT ![p].pc = "committed"]
          /\ UNCHANGED <<cached, losses>>
       \/ /\ change' = [change EXCEPT ![p] = NoChange]
          /\ cached' = {[e EXCEPT !.excused = TRUE] : e \in cached}
          /\ Lose
    /\ UNCHANGED <<model, mapping, edit, offered, fetched, load>>

\* Variant: the snapshot is deleted before the transaction only.
SkipInvalidate(p) ==
    /\ change[p].pc = "committed"
    /\ change' = [change EXCEPT ![p] = NoChange]
    /\ UNCHANGED <<catalogueVars, stored, cached, load, losses>>

\* The second Invalidate, and the response.
InvalidateAgain(p) ==
    /\ change[p].pc = "committed"
    /\ Invalidate
    /\ change' = [change EXCEPT ![p] = NoChange]
    /\ UNCHANGED <<catalogueVars, stored, load>>

\* A refusal, a failed statement, a cancelled request; the first invalidation stays.
RollbackChange(p) ==
    /\ change[p].pc \in {"requested", "invalidated", "checked"}
    /\ change' = [change EXCEPT ![p] = NoChange]
    /\ ReleaseRows(p)
    /\ UNCHANGED <<model, mapping, edit, offered, fetched, stored, cached, load, losses>>

-----------------------------------------------------------------------------

\* migrations/00003_runtime_settings.sql and 00008_summary_model.sql
SettingsInit ==
    /\ stored = [k \in Keys |-> [value |-> IF k = SummaryModel THEN FirstModel ELSE FirstLimit,
                                 version |-> 1]]
    /\ cached = {}
    /\ change = [p \in People |-> NoChange]
    /\ load = [l \in Loaders |-> {}]
    /\ losses = 0

-----------------------------------------------------------------------------
(* Properties *)

(* What requests are served from the cache is what is stored, except for one *)
(* of three reasons: an update has committed and not yet deleted the         *)
(* snapshot, the snapshot was put there by a Load that an update overtook,   *)
(* or Redis or the reply of COMMIT failed.  In the last two the TTL bounds   *)
(* it.  Load and Invalidate of internal/settings/service.go, UpdateSetting.  *)
FreshUnlessOvertaken ==
    \A c \in cached :
        \/ c.snapshot = Snapshot
        \/ c.excused
        \/ \E p \in People : change[p].pc = "committed"

(* A summary model is stored only when the chat can use it at that moment:   *)
(* no edit of the model or loss of its availability comes between the check  *)
(* of validateSettingReference and the commit.                               *)
SummaryModelUsable ==
    [][stored'[SummaryModel] # stored[SummaryModel]
          => Selectable(stored'[SummaryModel].value, "user")]_settingsVars

=============================================================================
