---------------------------- MODULE Conversations ----------------------------
(***************************************************************************)
(* The conversations of one browser: its guest session and the account the *)
(* person signs in to (internal/conversations/service.go,                  *)
(* internal/guests/service.go, the handlers of                             *)
(* internal/platform/server/conversations.go, the generated queries of     *)
(* internal/platform/store).  Creation is idempotent by a key, lists are   *)
(* read page by page while conversations change, and signing in hands the  *)
(* guest's conversation over.                                              *)
(*                                                                         *)
(* A conversation is its row number, the order of its UUIDv7.  updated_at  *)
(* is any member of Stamps: clocks of replicas differ and times can tie.   *)
(* Titles are abstracted, so is generation_state, which is Chat's: what a  *)
(* running generation refuses is here a step that is not taken.            *)
(***************************************************************************)
EXTENDS Naturals, Sequences, FiniteSets

CONSTANTS
    Keys,               \* Idempotency-Key of creations, one per conversation wanted
    EarlierKeys,        \* keys of the account's conversations from other browsers
    Requests,           \* creations under way at the same time
    Limit,              \* page size
    Stamps,
    MaxConversations    \* bound: rows

ASSUME LimitAssumption ==
    /\ Limit \in Nat \ {0} /\ Stamps \subseteq Nat /\ MaxConversations \in Nat
    /\ IsFiniteSet(EarlierKeys) /\ Keys \cap EarlierKeys = {}

VARIABLES
    conversation,   \* the conversations rows, in the order they were inserted
    migrated,       \* guest_sessions.migrated_user_id is set
    creation,       \* creation[q]: the POST that q serves
    listing         \* the GETs of one reader: its cursor, and shown[c]: how often it has seen
                    \* row c, of those it started from that nobody changed since

conversationsVars == <<conversation, migrated, creation, listing>>

-----------------------------------------------------------------------------
(* Actors *)

\* deps.actor: the user of the access cookie, else the guest, whose session fromRequest
\* refuses once it has migrated.
Actor == IF migrated THEN "user" ELSE "guest"

\* Somebody can act as the owner: the account on any browser, the guest until it migrated.
Reachable(c) == conversation[c].owner = "user" \/ ~migrated

\* owned: the rows a request can name.
Owned == {c \in DOMAIN conversation : Reachable(c) /\ ~conversation[c].deleted}

-----------------------------------------------------------------------------
(* Creation *)

NoCreation == [pc |-> "idle"]

Post(q, key) ==
    /\ creation[q] = NoCreation
    /\ creation' = [creation EXCEPT ![q] = [pc |-> "sent", actor |-> Actor, key |-> key]]
    /\ UNCHANGED <<conversation, migrated, listing>>

\* createdByKey: deleted conversations too.
CreatedBy(actor, key) ==
    {c \in DOMAIN conversation : conversation[c].owner = actor /\ conversation[c].key = key}

\* conversations_guest_single_idx and the two creation_idempotency indexes.
Violates(actor, key) ==
    \/ CreatedBy(actor, key) # {}
    \/ actor = "guest" /\ \E c \in DOMAIN conversation : conversation[c].owner = "guest"

\* posted is history: the key of the creation, whatever becomes of the column.
Row(owner, key, stamp) ==
    [owner |-> owner, key |-> key, posted |-> key, archived |-> FALSE,
     deleted |-> FALSE, updatedAt |-> stamp]

\* CreateUserConversation, CreateGuestConversation; the answer may be lost, and then the
\* client posts the key again.
Insert(q, stamp) ==
    LET p == creation[q] IN
    /\ p.pc = "sent"
    /\ ~Violates(p.actor, p.key)
    /\ Len(conversation) < MaxConversations
    /\ conversation' = Append(conversation, Row(p.actor, p.key, stamp))
    /\ creation' = [creation EXCEPT ![q] = NoCreation]
    /\ UNCHANGED <<migrated, listing>>

\* A unique violation: the key is looked up by a query of its own.
Refuse(q) ==
    /\ creation[q].pc = "sent"
    /\ Violates(creation[q].actor, creation[q].key)
    /\ creation' = [creation EXCEPT ![q].pc = "refused"]
    /\ UNCHANGED <<conversation, migrated, listing>>

\* The conversation of the key is the answer, or a conflict; also a request that fails.
AnswerCreation(q) ==
    /\ creation[q].pc \in {"sent", "refused"}
    /\ creation' = [creation EXCEPT ![q] = NoCreation]
    /\ UNCHANGED <<conversation, migrated, listing>>

-----------------------------------------------------------------------------
(* Changes *)

\* The rows cs are not what the reader started from any more.
Disturb(cs) ==
    listing' = [listing EXCEPT !.shown = [c \in DOMAIN @ \ cs |-> listing.shown[c]]]

\* The rows cs become those of table and get a new updated_at.
Touch(cs, stamp, table) ==
    /\ conversation' = [c \in DOMAIN conversation |->
           IF c \in cs THEN [table[c] EXCEPT !.updatedAt = stamp] ELSE conversation[c]]
    /\ Disturb(cs)
    /\ UNCHANGED <<migrated, creation>>

\* What an owner or a generation writes beside the columns below: Update with a title or a
\* model, SetConversationGenerationState, SetGeneratedConversationTitle.
Update(c, stamp) ==
    /\ ~conversation[c].deleted
    /\ Touch({c}, stamp, conversation)

ChangeArchived(r) == [r EXCEPT !.archived = ~@]

\* Update that archives or restores, which is not for guests.
Archive(c, stamp) ==
    /\ c \in Owned
    /\ conversation[c].owner = "user"
    /\ Touch({c}, stamp, [conversation EXCEPT ![c] = ChangeArchived(@)])

SoftDelete(r) == [r EXCEPT !.deleted = TRUE]

\* SoftDeleteUserConversation, SoftDeleteGuestConversation; with the same key again it is
\* acknowledged and changes nothing (deletedByKey).
Delete(c, stamp) ==
    /\ c \in Owned
    /\ Touch({c}, stamp, [conversation EXCEPT ![c] = SoftDelete(@)])

\* The guest signs in: all rows of the guest, deleted ones too, belong to the user. keys is
\* what becomes of each creation key.
HandOver(stamp, keys) ==
    LET guests == {c \in DOMAIN conversation : conversation[c].owner = "guest"} IN
    /\ ~migrated
    /\ migrated' = TRUE
    /\ conversation' = [c \in DOMAIN conversation |->
           IF c \in guests
           THEN [conversation[c] EXCEPT !.owner = "user", !.updatedAt = stamp, !.key = keys[@]]
           ELSE conversation[c]]
    /\ Disturb(guests)
    /\ UNCHANGED creation

\* Variant: the user's conversations do not keep the guest's creation keys.
HandOverKeyless(stamp) == HandOver(stamp, [k \in Keys |-> "none"])

\* MigrateGuestConversations, MarkGuestMigrated
Migrate(stamp) == HandOver(stamp, [k \in Keys |-> k])

-----------------------------------------------------------------------------
(* Lists *)

NoListing ==
    [pc |-> "idle", all |-> FALSE, before |-> 0, at |-> 0, shown |-> <<>>]

\* (updated_at, id) < (at, c)
Precedes(r, at, c) ==
    conversation[r].updatedAt < at \/ (conversation[r].updatedAt = at /\ r < c)

\* What a list with or without archived conversations is about.
Listed(all) ==
    {c \in Owned : conversation[c].owner = Actor /\ (all \/ ~conversation[c].archived)}

\* ListUserConversations: what is behind the cursor, newest first, one more than the page.
Behind ==
    IF listing.before = 0 THEN Listed(listing.all)
    ELSE {c \in Listed(listing.all) : Precedes(c, listing.at, listing.before)}

Newer(c, d) == Precedes(d, conversation[c].updatedAt, c)

Rank(c, rows) == 1 + Cardinality({d \in rows : Newer(d, c)})

FirstOf(rows, n) ==
    [i \in 1..(IF Cardinality(rows) < n THEN Cardinality(rows) ELSE n) |->
        CHOOSE c \in rows : Rank(c, rows) = i]

Start(all) ==
    /\ listing.pc \in {"idle", "done"}
    /\ listing' = [NoListing EXCEPT !.pc = "reading", !.all = all,
                                     !.shown = [c \in Listed(all) |-> 0]]
    /\ UNCHANGED <<conversation, migrated, creation>>

Times(c, rows) == Cardinality({i \in DOMAIN rows : rows[i] = c})

\* One GET after another until a page has no cursor; a page that stops is taken up later.
\* last is the position, among the records read, of the row that the next page starts after.
ReadPage(last) ==
    LET records == FirstOf(Behind, Limit + 1)
        more == Len(records) > Limit
        kept == IF more THEN SubSeq(records, 1, Limit) ELSE records
    IN
    /\ listing.pc = "reading"
    /\ listing' = [listing EXCEPT
           !.pc = IF more THEN "reading" ELSE "done",
           !.shown = [c \in DOMAIN @ |-> listing.shown[c] + Times(c, kept)],
           !.before = IF more THEN records[last] ELSE 0,
           !.at = IF more THEN conversation[records[last]].updatedAt ELSE 0]
    /\ UNCHANGED <<conversation, migrated, creation>>

\* Variant: the cursor is the extra row, which is then shown by neither page.
PageAfterExtra == ReadPage(Limit + 1)

\* List: the cursor is the last row of the page.
Page == ReadPage(Limit)

-----------------------------------------------------------------------------

ConversationsInit ==
    /\ \E earlier \in [EarlierKeys -> Stamps], keys \in [1..Cardinality(EarlierKeys) -> EarlierKeys] :
        /\ \A i, j \in DOMAIN keys : keys[i] = keys[j] => i = j
        /\ conversation = [i \in DOMAIN keys |-> Row("user", keys[i], earlier[keys[i]])]
    /\ migrated = FALSE
    /\ creation = [q \in Requests |-> NoCreation]
    /\ listing = NoListing

ConversationsNext ==
    \/ \E q \in Requests :
        \/ \E key \in Keys : Post(q, key)
        \/ \E stamp \in Stamps : Insert(q, stamp)
        \/ Refuse(q) \/ AnswerCreation(q)
    \/ \E c \in DOMAIN conversation, stamp \in Stamps :
        Update(c, stamp) \/ Delete(c, stamp) \/ Archive(c, stamp)
    \/ \E stamp \in Stamps : Migrate(stamp)
    \/ \E all \in BOOLEAN : Start(all)
    \/ Page

ConversationsSpec == ConversationsInit /\ [][ConversationsNext]_conversationsVars

-----------------------------------------------------------------------------
(* Properties *)

(* Types: conversations rows, requests and the pages of the reader.          *)
ConversationsTypeOK ==
    /\ conversation \in Seq([owner : {"guest", "user"}, key : Keys \cup EarlierKeys,
                             posted : Keys \cup EarlierKeys, archived : BOOLEAN,
                             deleted : BOOLEAN, updatedAt : Stamps])
    /\ migrated \in BOOLEAN
    /\ \A q \in Requests : creation[q] = NoCreation \/
          creation[q] \in [pc : {"sent", "refused"}, actor : {"guest", "user"}, key : Keys]
    /\ listing \in [pc : {"idle", "reading", "done"}, all : BOOLEAN, before : Nat, at : Nat,
                   shown : [DOMAIN listing.shown -> Nat]]
    /\ DOMAIN listing.shown \subseteq DOMAIN conversation

(* A creation that is posted again, by a client that got no answer or twice  *)
(* at once, before or after its guest signed in, never makes a second        *)
(* conversation that its owner can reach (Create, createdByKey,              *)
(* MigrateGuestConversations).  One that a guest's late request inserts      *)
(* after the sign-in has an owner nobody can act as.                         *)
CreatedOnce ==
    \A c, d \in DOMAIN conversation :
        Reachable(c) /\ Reachable(d) /\ conversation[c].posted = conversation[d].posted => c = d

(* A reader that follows the cursors to the end has seen each conversation   *)
(* that nobody changed meanwhile exactly once, whatever others did (List,    *)
(* ListUserConversations, encodeConversationCursor).                         *)
PagesComplete ==
    listing.pc = "done" => \A c \in DOMAIN listing.shown : listing.shown[c] = 1

=============================================================================
