-------------------------------- MODULE Roles --------------------------------
(***************************************************************************)
(* Accounts as administration sees them: UpdateUserRole                    *)
(* (internal/admin/service.go) serializes role changes with an advisory    *)
(* lock and counts the administrators before it takes one away; Request    *)
(* (internal/privacy/service.go) closes an account without that lock.      *)
(***************************************************************************)
EXTENDS Requesters

VARIABLES
    user,       \* the users rows: role, status, version
    roleLock,   \* who holds the advisory lock glazz.admin-role-changes
    userLock,   \* userLock[u]: the request whose transaction holds the lock of u's row
    grant       \* grant[p]: the UpdateUserRole that p's request runs

rolesVars == <<user, roleLock, userLock, grant>>

NoGrant == [pc |-> "idle"]

RolesTypeOK ==
    /\ user \in [People -> [role : {"user", "admin"}, status : {"active", "deletion_pending"},
                            version : Nat \ {0}]]
    /\ roleLock \in People \cup {NoOne}
    /\ userLock \in [People -> People \cup {NoOne}]
    /\ \A p \in People : grant[p] = NoGrant \/
          grant[p] \in [pc : {"requested", "serialized", "allowed"}, target : People,
                        role : {"user", "admin"}, seen : Nat]

\* CountAdministrators; requireAdmin looks at the same columns.
Administrators == {p \in People : user[p].role = "admin" /\ user[p].status = "active"}

-----------------------------------------------------------------------------

\* The transaction of p ends.
ReleaseRoles(p) ==
    /\ roleLock' = IF roleLock = p THEN NoOne ELSE roleLock
    /\ userLock' = [u \in People |-> IF userLock[u] = p THEN NoOne ELSE userLock[u]]

RequestGrant(p, target, role) ==
    /\ grant[p] = NoGrant
    /\ grant' = [grant EXCEPT ![p] = [pc |-> "requested", target |-> target, role |-> role,
                                      seen |-> user[target].version]]
    /\ UNCHANGED <<user, roleLock, userLock>>

\* Variant: role changes are not serialized.
EnterTogether(p) ==
    /\ grant[p].pc = "requested"
    /\ grant' = [grant EXCEPT ![p].pc = "serialized"]
    /\ UNCHANGED <<user, roleLock, userLock>>

\* LockAdministratorRoleChanges
SerializeGrant(p) ==
    /\ grant[p].pc = "requested"
    /\ roleLock = NoOne
    /\ roleLock' = p
    /\ grant' = [grant EXCEPT ![p].pc = "serialized"]
    /\ UNCHANGED <<user, userLock>>

\* GetAdminUser FOR UPDATE
LockUser(p, u) ==
    /\ userLock[u] = NoOne
    /\ userLock' = [userLock EXCEPT ![u] = p]

\* What the code asks of the change once it has the row.
AllowGrant(p) ==
    LET g == grant[p]
        before == user[g.target]
    IN
    /\ g.pc = "serialized"
    /\ LockUser(p, g.target)
    /\ g.role = "admin" => before.status = "active"
    /\ before.role = "admin" /\ g.role = "user" =>
          p # g.target /\ Cardinality(Administrators) > 1
    /\ grant' = [grant EXCEPT ![p].pc = "allowed"]
    /\ UNCHANGED <<user, roleLock>>

\* UpdateUserRole under its version, and COMMIT.
CommitGrant(p) ==
    LET g == grant[p] IN
    /\ g.pc = "allowed"
    /\ user[g.target].version = g.seen
    /\ user' = [user EXCEPT ![g.target].role = g.role, ![g.target].version = @ + 1]
    /\ grant' = [grant EXCEPT ![p] = NoGrant]
    /\ ReleaseRoles(p)

\* A refusal, a failed statement, a cancelled request.
RollbackGrant(p) ==
    /\ grant[p] # NoGrant
    /\ grant' = [grant EXCEPT ![p] = NoGrant]
    /\ ReleaseRoles(p)
    /\ UNCHANGED user

\* privacy.Request: one transaction that waits for the row of p and takes no advisory lock.
CloseAccount(p) ==
    /\ user[p].status = "active"
    /\ userLock[p] = NoOne
    /\ user' = [user EXCEPT ![p].status = "deletion_pending", ![p].version = @ + 1]
    /\ UNCHANGED <<roleLock, userLock, grant>>

RolesInit ==
    /\ \E admins \in (SUBSET People) \ {{}} :
        user = [p \in People |-> [role |-> IF p \in admins THEN "admin" ELSE "user",
                                  status |-> "active", version |-> 1]]
    /\ roleLock = NoOne
    /\ userLock = [p \in People |-> NoOne]
    /\ grant = [p \in People |-> NoGrant]

-----------------------------------------------------------------------------
(* Properties *)

(* "The last active administrator cannot be demoted through a concurrent     *)
(* race": however the role changes of several administrators overlap, one    *)
(* remains, unless one of them asked for the deletion of the own account,    *)
(* which UpdateUserRole's lock does not cover (internal/admin/service.go,    *)
(* internal/privacy/service.go Request).                                     *)
AdministratorRemains ==
    \/ Administrators # {}
    \/ \E p \in People : user[p].role = "admin" /\ user[p].status = "deletion_pending"

=============================================================================
