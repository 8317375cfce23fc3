----------------------------- MODULE UserAccess -----------------------------
(***************************************************************************)
(* Owners changing one user, and the access tokens that user holds         *)
(* (services/user_service.py update_user, services/auth_service.py         *)
(* _issue_tokens, dependencies/auth.py).  An update is one transaction: it *)
(* reads the user, writes what its payload changes with token_version as   *)
(* read plus one, replaces the store rows and audits.  The UPDATE names    *)
(* the user by id alone and keeps the row's lock; the DELETE and INSERT of *)
(* the store rows wait for other transactions only where they meet.        *)
(*                                                                         *)
(* A session is somebody who logs in or refreshes again and again: it      *)
(* reads the user, and mints from what it read.  A member of Updates is    *)
(* one PATCH, so there are as many versions as there are updates.          *)
(***************************************************************************)
EXTENDS Naturals, Sequences

CONSTANTS Updates, Sessions, Stores, None

ASSUME UserAccessAssumption ==
    /\ None \notin Updates
    /\ None \notin BOOLEAN /\ None \notin {"OWNER", "MANAGER"}
    /\ Updates \intersect Sessions = {}

VARIABLES
    user,      \* the committed row: role, is_active, token_version
    stores,    \* the committed rows of user_stores, each with who inserted it
    access,    \* the access tokens minted
    trail,     \* the user's audit entries
    lock,      \* the update whose uncommitted UPDATE holds the user's row
    pc,        \* update or session -> where it stands
    payload,   \* update -> what its owner asks for, None for a field left out
    seen,      \* update or session -> the user as it read it
    row,       \* update -> the user as it wrote it, or as it read it if it did not
    found,     \* update -> the store rows its DELETE found
    stale      \* history: an update has raised a token_version that was not current

vars == <<user, stores, access, trail, lock, pc, payload, seen, row, found, stale>>

-----------------------------------------------------------------------------
Roles == {"OWNER", "MANAGER"}
User == [role : Roles, active : BOOLEAN, version : Nat]
StoreRow == [store : Stores, by : Updates \union {None}]
Payload == {p \in [role : Roles \union {None}, active : BOOLEAN \union {None},
                   named : BOOLEAN, assigns : BOOLEAN, stores : SUBSET Stores] :
              p.assigns \/ p.stores = {}}
Shown(u) == [role |-> u.role, active |-> u.active]
Entry == [old : [role : Roles, active : BOOLEAN], new : [role : Roles, active : BOOLEAN],
          wrote : BOOLEAN]

TypeOK ==
    /\ user \in User
    /\ stores \subseteq StoreRow
    /\ access \subseteq [role : Roles, version : Nat]
    /\ trail \in Seq(Entry)
    /\ lock \in Updates \union {None}
    /\ pc \in [Updates \union Sessions ->
                 {"idle", "read", "written", "found", "replaced", "done", "failed"}]
    /\ payload \in [Updates -> Payload]
    /\ seen \in [Updates \union Sessions -> User]
    /\ row \in [Updates -> User]
    /\ found \in [Updates -> SUBSET StoreRow]
    /\ stale \in BOOLEAN

\* A user just created, or deactivated since.
Init ==
    /\ user \in [role : Roles, active : BOOLEAN, version : {1, 2}]
    /\ user.active <=> user.version = 1
    /\ stores = {[store |-> s, by |-> None] : s \in Stores}
    /\ access = {} /\ trail = <<>> /\ lock = None /\ stale = FALSE
    /\ pc = [q \in Updates \union Sessions |-> "idle"]
    /\ payload \in [Updates -> Payload]
    /\ seen = [q \in Updates \union Sessions |-> user]
    /\ row = [u \in Updates |-> user]
    /\ found = [u \in Updates |-> {}]

-----------------------------------------------------------------------------
(* update_user *)

ReadUser(u) ==
    /\ pc[u] = "idle"
    /\ seen' = [seen EXCEPT ![u] = user]
    /\ row' = [row EXCEPT ![u] = user]
    /\ pc' = [pc EXCEPT ![u] = "read"]
    /\ UNCHANGED <<user, stores, access, trail, lock, payload, found, stale>>

\* What the payload changes is decided against the user as it was read.
ChangesRole(u) == payload[u].role \notin {None, seen[u].role}
ChangesActive(u) == payload[u].active \notin {None, seen[u].active}
Sensitive(u) == ChangesRole(u) \/ ChangesActive(u)
MutantActiveOnly(u) == ChangesActive(u)   \* mutant: a new role does not bump
Bumps(u) == Sensitive(u)

\* The row cur after the UPDATE.
Written(u, cur) ==
    [role |-> IF ChangesRole(u) THEN payload[u].role ELSE cur.role,
     active |-> IF ChangesActive(u) THEN payload[u].active ELSE cur.active,
     version |-> IF Bumps(u) THEN seen[u].version + 1 ELSE cur.version]

\* The UPDATE and the refresh that reads the row back.
WriteUser(u) ==
    /\ pc[u] = "read" /\ lock = None
    /\ Sensitive(u) \/ payload[u].named
    /\ lock' = u
    /\ row' = [row EXCEPT ![u] = Written(u, user)]
    /\ pc' = [pc EXCEPT ![u] = "written"]
    /\ UNCHANGED <<user, stores, access, trail, payload, seen, found, stale>>

WriteNothing(u) ==
    /\ pc[u] = "read" /\ ~Sensitive(u) /\ ~payload[u].named
    /\ pc' = [pc EXCEPT ![u] = "written"]
    /\ UNCHANGED <<user, stores, access, trail, lock, payload, seen, row, found, stale>>

\* The snapshot of the DELETE.
FindStores(u) ==
    /\ pc[u] = "written" /\ payload[u].assigns
    /\ found' = [found EXCEPT ![u] = stores]
    /\ pc' = [pc EXCEPT ![u] = "found"]
    /\ UNCHANGED <<user, stores, access, trail, lock, payload, seen, row, stale>>

Inserted(u) == {[store |-> s, by |-> u] : s \in payload[u].stores}
StoresOf(rows) == {r.store : r \in rows}

\* DELETE and INSERT, once no other update is at work on the same stores.
MayReplace(u) ==
    \A v \in Updates \ {u} : pc[v] = "replaced" =>
        StoresOf(found[u] \union Inserted(u))
          \intersect StoresOf(found[v] \union Inserted(v)) = {}
ViolatesKey(u) ==
    StoresOf(stores \ found[u]) \intersect StoresOf(Inserted(u)) # {}

ReplaceStores(u) ==
    /\ pc[u] = "found" /\ MayReplace(u) /\ ~ViolatesKey(u)
    /\ pc' = [pc EXCEPT ![u] = "replaced"]
    /\ UNCHANGED <<user, stores, access, trail, lock, payload, seen, row, found, stale>>

\* new_data of the audit entry.
MutantUnrefreshed(u) == Shown(Written(u, seen[u]))   \* mutant: no session.refresh
NewData(u) == Shown(row[u])

\* write_audit_log, and the commit.
Commit(u) ==
    /\ pc[u] = IF payload[u].assigns THEN "replaced" ELSE "written"
    /\ user' = IF lock = u THEN row[u] ELSE user
    /\ stores' = IF payload[u].assigns THEN (stores \ found[u]) \union Inserted(u)
                 ELSE stores
    /\ trail' = Append(trail, [old |-> Shown(seen[u]), new |-> NewData(u),
                               wrote |-> lock = u])
    /\ stale' = (stale \/ (Sensitive(u) /\ seen[u].version # user.version))
    /\ lock' = IF lock = u THEN None ELSE lock
    /\ pc' = [pc EXCEPT ![u] = "done"]
    /\ UNCHANGED <<access, payload, seen, row, found>>

\* A unique violation, an unknown store, a deadlock, a failure of the database
\* or the process: the transaction leaves nothing.
Fail(u) ==
    /\ pc[u] \in {"read", "written", "found", "replaced"}
    /\ lock' = IF lock = u THEN None ELSE lock
    /\ pc' = [pc EXCEPT ![u] = "failed"]
    /\ UNCHANGED <<user, stores, access, trail, payload, seen, row, found, stale>>

-----------------------------------------------------------------------------
(* login and refresh *)

FindUser(s) ==
    /\ pc[s] = "idle" /\ user.active
    /\ seen' = [seen EXCEPT ![s] = user]
    /\ pc' = [pc EXCEPT ![s] = "read"]
    /\ UNCHANGED <<user, stores, access, trail, lock, payload, row, found, stale>>

IssueTokens(s) ==
    /\ pc[s] = "read"
    /\ access' = access \union {[role |-> seen[s].role, version |-> seen[s].version]}
    /\ pc' = [pc EXCEPT ![s] = "idle"]
    /\ UNCHANGED <<user, stores, trail, lock, payload, seen, row, found, stale>>

Next ==
    \/ \E u \in Updates :
         \/ ReadUser(u) \/ WriteUser(u) \/ WriteNothing(u)
         \/ FindStores(u) \/ ReplaceStores(u) \/ Commit(u) \/ Fail(u)
    \/ \E s \in Sessions : FindUser(s) \/ IssueTokens(s)

Spec == Init /\ [][Next]_vars

-----------------------------------------------------------------------------
(* Properties *)

\* _authenticate: the account is active and the token is of its version.
Accepted(a) == user.active /\ a.version = user.version

\* A token that is accepted says the role the user has: any bump leaves every
\* outstanding token stale (dependencies/auth.py, the comment on the check).
\* Does not hold: two updates that read the same version bump it once.
AcceptedRoleIsCurrent == \A a \in access : Accepted(a) => a.role = user.role

\* It holds for as long as no update has computed token_version from a user that
\* another update had replaced by the time it commits.
AcceptedUnlessStale == stale \/ AcceptedRoleIsCurrent

\* The last audit entry of an update that wrote the user tells the role and the
\* state the user has, however the updates overlapped (update_user reads the row
\* back under its lock).
TrailTellsUser ==
    \A i \in 1..Len(trail) :
        trail[i].wrote /\ (\A j \in i + 1..Len(trail) : ~trail[j].wrote) =>
            trail[i].new = Shown(user)
=============================================================================
