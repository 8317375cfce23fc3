----------------------------- MODULE PageAccess -----------------------------
(***************************************************************************)
(* Who may read a page: the access token against the user's row            *)
(* (dependencies/auth.py), the grants of the page (dependencies/guards.py, *)
(* services/page_service.py) and the row-level policies of the database    *)
(* (db/rls.py, migrations 0006 and 0008).                                  *)
(*                                                                         *)
(* A page belongs to one company.  The grants are replaced as a whole, by  *)
(* a DELETE, which finds what is committed when it starts, and an INSERT.  *)
(* Of a user only what a request reads of it is here, as UserAccess        *)
(* commits it.  The client stays below its number of requests a minute,    *)
(* whose window AiMessages has.                                            *)
(*                                                                         *)
(* One reader sends request after request.  Each authenticates in a        *)
(* transaction of its own and then reads the grant and the rows in a       *)
(* second one, a snapshot for each statement, while owners change the      *)
(* grants and the users.                                                   *)
(***************************************************************************)
EXTENDS Naturals, Sequences

CONSTANTS
    Owners, Managers, \* the users of the company
    Strangers,        \* users of other companies
    AssignedStores,   \* user -> the stores in the user's token
    NoStore,          \* of a record of no store
    GrantLists        \* what an owner may PUT: sets of [user, view]

Users == Owners \union Managers \union Strangers

ASSUME PageAccessAssumption ==
    /\ Owners \intersect Managers = {}
    /\ GrantLists \subseteq SUBSET [user : Users, view : BOOLEAN]

VARIABLES
    account,  \* user -> the committed row: active, version
    grants,   \* the committed rows of page_access, each with the PUT that wrote it
    puts,     \* the PUTs of grants, in the order in which they began
    reading   \* the reader, its token and where its request stands

accessVars == <<account, grants, puts, reading>>

Account == [active : BOOLEAN, version : Nat]
Put == [state : {"found", "done", "failed"}, list : GrantLists,
        found : SUBSET [user : Users, view : BOOLEAN, by : Nat], after : SUBSET Nat]

\* after and current say which PUTs were complete and whether the token was
\* good when the request began.
NotAsked == [state |-> "idle"]
Request == [state : {"asking", "authenticated", "granted", "answered", "done", "refused"},
            reader : Users, version : Nat, current : BOOLEAN, after : SUBSET Nat,
            audited : BOOLEAN]

AccessTypeOK ==
    /\ account \in [Users -> Account]
    /\ grants \subseteq [user : Users, view : BOOLEAN, by : Nat]
    /\ puts \in Seq(Put)
    /\ reading \in Request \union {NotAsked}

AccessInit ==
    /\ account = [u \in Users |-> [active |-> TRUE, version |-> 1]]
    /\ grants = {[user |-> u, view |-> TRUE, by |-> 0] : u \in Managers}
    /\ puts = <<>>
    /\ reading = NotAsked

-----------------------------------------------------------------------------
(* A request: its token and the grant it needs.                            *)
Authenticated(user, version) ==
    account[user].active /\ account[user].version = version

PageFound(user) == user \notin Strangers
Granted(user) == user \in Owners \/ \E g \in grants : g.user = user /\ g.view

\* A policy that names no kind is permissive, and PostgreSQL shows a row that
\* any permissive policy admits: within the company store_scope hides nothing.
TenantIsolation(user) == user \notin Strangers
StoreScope(user, store) ==
    user \in Owners \/ store = NoStore \/ store \in AssignedStores[user]
Visible(user, store) == TenantIsolation(user) \/ StoreScope(user, store)

-----------------------------------------------------------------------------
(* PUT /pages/{id}/access                                                  *)
Completed == {0} \union {p \in DOMAIN puts : puts[p].state = "done"}

\* set_page_access up to its DELETE.
BeginPut(list) ==
    /\ {g.user : g \in list} \subseteq Managers
    /\ puts' = Append(puts, [state |-> "found", list |-> list, found |-> grants,
                             after |-> Completed])
    /\ UNCHANGED <<account, grants, reading>>

\* Mutant: the PUT replaces only the grants of the users it names.
MutantOfTheNamed(p) ==
    {g \in puts[p].found : \E n \in puts[p].list : n.user = g.user}
Replaced(p) == puts[p].found

InsertedGrants(p) == {[user |-> n.user, view |-> n.view, by |-> p] : n \in puts[p].list}

\* The INSERT, the audit entry and the commit.  (page_id, user_id) is the key.
CommitPut(p) ==
    /\ puts[p].state = "found"
    /\ grants' = (grants \ Replaced(p)) \union InsertedGrants(p)
    /\ \A g, h \in grants' : g.user = h.user => g = h
    /\ puts' = [puts EXCEPT ![p].state = "done"]
    /\ UNCHANGED <<account, reading>>

\* A duplicate key, or any other failure: nothing is left of it.
FailPut(p) ==
    /\ puts[p].state = "found"
    /\ puts' = [puts EXCEPT ![p].state = "failed"]
    /\ UNCHANGED <<account, grants, reading>>

\* A PATCH of a user that changes role or is_active.
ChangeUser(user) ==
    /\ \E b \in BOOLEAN :
          account' = [account EXCEPT ![user] = [active |-> b, version |-> @.version + 1]]
    /\ UNCHANGED <<grants, puts, reading>>

-----------------------------------------------------------------------------
(* The requests of one reader, from its login on.                          *)
FirstRequest(user) ==
    /\ reading = NotAsked
    /\ reading' = [state |-> "asking", reader |-> user, version |-> account[user].version,
                   current |-> TRUE, after |-> Completed, audited |-> FALSE]
    /\ UNCHANGED <<account, grants, puts>>

NextRequest ==
    /\ reading.state = "answered"
    /\ reading' = [reading EXCEPT !.state = "asking", !.after = Completed,
                       !.current = Authenticated(reading.reader, reading.version)]
    /\ UNCHANGED <<account, grants, puts>>

\* The first transaction: the token, against the user as it is.
Authenticate ==
    /\ reading.state = "asking"
    /\ reading' = [reading EXCEPT !.state =
                       IF Authenticated(reading.reader, reading.version)
                       THEN "authenticated" ELSE "refused"]
    /\ UNCHANGED <<account, grants, puts>>

\* A denial is audited on a connection of its own, if there is one to be had.
Deny ==
    \E written \in BOOLEAN :
        reading' = [reading EXCEPT !.state = "refused", !.audited = written]

\* The second: the page and the grant.
CheckAccess ==
    /\ reading.state = "authenticated"
    /\ \/ /\ PageFound(reading.reader) /\ Granted(reading.reader)
          /\ reading' = [reading EXCEPT !.state = "granted"]
       \/ PageFound(reading.reader) /\ ~Granted(reading.reader) /\ Deny
       \/ /\ ~PageFound(reading.reader)
          /\ reading' = [reading EXCEPT !.state = "refused"]
    /\ UNCHANGED <<account, grants, puts>>

\* Mutant: the last page is answered as if there were more to ask for.
MutantNeverDone(more) ==
    /\ reading.state = "granted"
    /\ reading' = [reading EXCEPT !.state = "answered"]
    /\ UNCHANGED <<account, grants, puts>>

\* The rows, and whether there are more to ask for.
Reply(more) ==
    /\ reading.state = "granted"
    /\ reading' = [reading EXCEPT !.state = IF more THEN "answered" ELSE "done"]
    /\ UNCHANGED <<account, grants, puts>>

AccessNext ==
    \/ \E u \in Users : FirstRequest(u) \/ ChangeUser(u)
    \/ NextRequest \/ Authenticate \/ CheckAccess
    \/ \E more \in BOOLEAN : Reply(more)
    \/ \E list \in GrantLists : BeginPut(list)
    \/ \E p \in DOMAIN puts : CommitPut(p) \/ FailPut(p)

AccessSpec == AccessInit /\ [][AccessNext]_accessVars

-----------------------------------------------------------------------------
(* Properties.                                                             *)

\* Whether PUT p, or the grant there was at first, lets the user read.
Names(p, user) == p = 0 \/ [user |-> user, view |-> TRUE] \in puts[p].list

\* A page is answered only on a token that was good, and on a grant that no
\* PUT which began after the grant was written had replaced, when its request
\* began; and a reader is refused only for a reason (page_service.py,
\* set_page_access, whose DELETE does not see what another PUT inserts
\* meanwhile; guards.py, require_page_access, which reads the grant anew for
\* each page of the list).
AnsweredOnCurrentGrant ==
    reading # NotAsked =>
        LET reader == reading.reader
        IN  /\ reading.state \in {"answered", "done"} =>
                 /\ reading.current /\ reader \notin Strangers
                 /\ reader \in Managers =>
                      \E p \in Completed :
                          /\ Names(p, reader)
                          /\ \A q \in reading.after \ {0} : p \notin puts[q].after
            /\ reading.state = "refused" =>
                 \/ reader \in Strangers \/ ~Authenticated(reader, reading.version)
                 \/ \E p \in Completed : ~Names(p, reader)

=============================================================================
