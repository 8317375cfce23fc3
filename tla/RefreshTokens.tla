--------------------------- MODULE RefreshTokens ---------------------------
(***************************************************************************)
(* Rotation, replay detection and logout of one user's refresh tokens      *)
(* (services/auth_service.py).  Every request is one transaction that      *)
(* commits its own writes.  refresh reads the token, then the user, claims *)
(* the token with UPDATE ... WHERE revoked_at IS NULL and inserts its heir.*)
(* A token that was read revoked is a replay: one UPDATE revokes what is   *)
(* live on the device.  Such a statement waits for the row locks of other  *)
(* transactions and looks again at the rows it found, but finds only rows  *)
(* that were committed when it began.                                      *)
(*                                                                         *)
(* Any token that was ever handed out may be presented at any time, by its *)
(* owner or by somebody else.  A member of Requests is one call of refresh *)
(* or logout.  Access tokens are the subject of module UserAccess.         *)
(***************************************************************************)
CONSTANTS Tokens, Devices, Requests, None

ASSUME RefreshTokensAssumption == None \notin Tokens \union Requests

VARIABLES
    tokens,   \* refresh token -> its committed row
    active,   \* the user's is_active
    lock,     \* refresh token -> the request whose uncommitted UPDATE holds it
    pc,       \* request -> where its handler stands, or how it ended
    call,     \* request -> [op, token]
    found,    \* request -> the rows its revoking UPDATE found
    heir      \* request -> the token it has inserted

vars == <<tokens, active, lock, pc, call, found, heir>>

-----------------------------------------------------------------------------
Token == [device : Devices, revoked : BOOLEAN, origin : Tokens,
          parent : Tokens \union {None}]
NoToken == [revoked |-> TRUE, origin |-> None, parent |-> None]
Working == {"submitted", "live", "replay", "checked", "claimed", "issued", "found", "revoking"}
Ended == {"rotated", "revoked", "refused", "failed"}

TypeOK ==
    /\ tokens \in [Tokens -> Token \union {NoToken}]
    /\ active \in BOOLEAN
    /\ lock \in [Tokens -> Requests \union {None}]
    /\ pc \in [Requests -> {"idle"} \union Working \union Ended]
    /\ call \in [Requests -> [op : {"refresh", "logout"}, token : Tokens]]
    /\ found \in [Requests -> SUBSET Tokens]
    /\ heir \in [Requests -> Tokens \union {None}]

Init ==
    /\ tokens = [t \in Tokens |-> NoToken]
    /\ active = TRUE
    /\ lock = [t \in Tokens |-> None]
    /\ pc = [q \in Requests |-> "idle"]
    /\ call \in [Requests -> [op : {"refresh", "logout"}, token : Tokens]]
    /\ found = [q \in Requests |-> {}]
    /\ heir = [q \in Requests |-> None]

Live(t) == ~tokens[t].revoked
Presented(q) == call[q].token
Unused(t) == tokens[t] = NoToken /\ \A q \in Requests : heir[q] # t

-----------------------------------------------------------------------------
(* Logins, and an owner who deactivates or reactivates the user *)

Login(t, d) ==
    /\ active
    /\ Unused(t)
    /\ tokens' = [tokens EXCEPT ![t] = [device |-> d, revoked |-> FALSE, origin |-> t,
                                        parent |-> None]]
    /\ UNCHANGED <<active, lock, pc, call, found, heir>>

\* update_user: no refresh token is touched.
SetActive ==
    /\ active' = ~active
    /\ UNCHANGED <<tokens, lock, pc, call, found, heir>>

-----------------------------------------------------------------------------
(* refresh and logout *)

Submit(q) ==
    /\ pc[q] = "idle"
    /\ tokens[Presented(q)] # NoToken
    /\ pc' = [pc EXCEPT ![q] = "submitted"]
    /\ UNCHANGED <<tokens, active, lock, call, found, heir>>

ReadToken(q) ==
    /\ pc[q] = "submitted" /\ call[q].op = "refresh"
    /\ pc' = [pc EXCEPT ![q] = IF Live(Presented(q)) THEN "live" ELSE "replay"]
    /\ UNCHANGED <<tokens, active, lock, call, found, heir>>

ReadUser(q) ==
    /\ pc[q] = "live"
    /\ pc' = [pc EXCEPT ![q] = IF active THEN "checked" ELSE "refused"]
    /\ UNCHANGED <<tokens, active, lock, call, found, heir>>

\* The UPDATE's WHERE, looked at again once the row's lock is free.
MutantCheckThenAct(t) == TRUE             \* mutant: revoked_at was read above
Claimable(t) == Live(t)

Claim(q) ==
    /\ pc[q] = "checked"
    /\ lock[Presented(q)] = None
    /\ Claimable(Presented(q))
    /\ lock' = [lock EXCEPT ![Presented(q)] = q]
    /\ pc' = [pc EXCEPT ![q] = "claimed"]
    /\ UNCHANGED <<tokens, active, call, found, heir>>

ClaimLost(q) ==
    /\ pc[q] = "checked"
    /\ lock[Presented(q)] = None
    /\ ~Claimable(Presented(q))
    /\ pc' = [pc EXCEPT ![q] = "refused"]
    /\ UNCHANGED <<tokens, active, lock, call, found, heir>>

IssueTokens(q, n) ==
    /\ pc[q] = "claimed"
    /\ Unused(n)
    /\ heir' = [heir EXCEPT ![q] = n]
    /\ pc' = [pc EXCEPT ![q] = "issued"]
    /\ UNCHANGED <<tokens, active, lock, call, found>>

\* The snapshot of the statement that revokes the family, or the one token.
Family(q) ==
    {t \in Tokens : /\ tokens[t] # NoToken /\ Live(t)
                    /\ IF call[q].op = "logout" THEN t = Presented(q)
                       ELSE tokens[t].device = tokens[Presented(q)].device}

FindFamily(q) ==
    /\ pc[q] = IF call[q].op = "logout" THEN "submitted" ELSE "replay"
    /\ found' = [found EXCEPT ![q] = Family(q)]
    /\ pc' = [pc EXCEPT ![q] = "found"]
    /\ UNCHANGED <<tokens, active, lock, call, heir>>

\* Mutant: SELECT ... FOR UPDATE SKIP LOCKED.
RevokeUnlocked(q) ==
    /\ pc[q] = "found"
    /\ lock' = [t \in Tokens |-> IF t \in found[q] /\ Live(t) /\ lock[t] = None
                                 THEN q ELSE lock[t]]
    /\ pc' = [pc EXCEPT ![q] = "revoking"]
    /\ UNCHANGED <<tokens, active, call, found, heir>>

RevokeFamily(q) ==
    /\ pc[q] = "found"
    /\ \A t \in found[q] : lock[t] = None
    /\ lock' = [t \in Tokens |-> IF t \in found[q] /\ Live(t) THEN q ELSE lock[t]]
    /\ pc' = [pc EXCEPT ![q] = "revoking"]
    /\ UNCHANGED <<tokens, active, call, found, heir>>

-----------------------------------------------------------------------------
(* The end of a transaction *)

Inherited(q) ==
    [tokens[Presented(q)] EXCEPT !.revoked = FALSE, !.parent = Presented(q)]

Commit(q) ==
    /\ pc[q] \in {"issued", "revoking"}
    /\ tokens' = [t \in Tokens |->
                    IF t = heir[q] THEN Inherited(q)
                    ELSE IF lock[t] = q THEN [tokens[t] EXCEPT !.revoked = TRUE]
                    ELSE tokens[t]]
    /\ lock' = [t \in Tokens |-> IF lock[t] = q THEN None ELSE lock[t]]
    /\ heir' = [heir EXCEPT ![q] = None]
    /\ pc' = [pc EXCEPT ![q] = IF pc[q] = "issued" THEN "rotated" ELSE "revoked"]
    /\ UNCHANGED <<active, call, found>>

\* The token has expired, or the database or the process fails.
Fail(q) ==
    /\ pc[q] \in Working
    /\ lock' = [t \in Tokens |-> IF lock[t] = q THEN None ELSE lock[t]]
    /\ heir' = [heir EXCEPT ![q] = None]
    /\ pc' = [pc EXCEPT ![q] = "failed"]
    /\ UNCHANGED <<tokens, active, call, found>>

Next ==
    \/ \E t \in Tokens, d \in Devices : Login(t, d)
    \/ SetActive
    \/ \E q \in Requests :
         \/ Submit(q) \/ ReadToken(q) \/ ReadUser(q)
         \/ Claim(q) \/ ClaimLost(q) \/ FindFamily(q) \/ RevokeFamily(q)
         \/ \E n \in Tokens : IssueTokens(q, n)
         \/ Commit(q) \/ Fail(q)

Spec == Init /\ [][Next]_vars

-----------------------------------------------------------------------------
(* Properties *)

\* One login has one live refresh token, however often and by however many its
\* tokens are presented at once: a token never yields two live families
\* (refresh, the comment on the claim).
OneLivePerLogin ==
    \A a, b \in Tokens : Live(a) /\ Live(b) /\ tokens[a].origin = tokens[b].origin => a = b

\* A token comes alive only by a login, or in exchange for one that was live
\* until that very step and is revoked in it.
IssuedInExchange ==
    [][\A t \in Tokens : tokens[t] = NoToken /\ tokens'[t] # NoToken =>
         LET p == tokens'[t].parent
         IN  \/ p = None /\ tokens'[t].origin = t
             \/ Live(p) /\ tokens'[p].revoked /\ tokens'[t].origin = tokens[p].origin]_vars

\* A row lock is held by the one request at work on a token that is still live,
\* an heir in the making is nobody else's, and a token's login left its own row.
LockedIsLive ==
    \A t \in Tokens, q \in Requests : lock[t] = q =>
        /\ Live(t)
        /\ \/ pc[q] = "revoking"
           \/ pc[q] \in {"claimed", "issued"} /\ t = Presented(q)
ClaimedIsLocked ==
    \A q \in Requests : pc[q] \in {"claimed", "issued"} => lock[Presented(q)] = q
HeirsAreFresh ==
    \A q \in Requests :
        /\ pc[q] = "issued" <=> heir[q] # None
        /\ heir[q] # None => tokens[heir[q]] = NoToken
        /\ \A r \in Requests : heir[q] # None /\ heir[q] = heir[r] => q = r
OriginsExist ==
    \A t \in Tokens : tokens[t] # NoToken => tokens[tokens[t].origin] # NoToken
ClaimsSound == LockedIsLive /\ ClaimedIsLocked /\ HeirsAreFresh /\ OriginsExist

\* What a logout, or a detected replay, found live is revoked once it is
\* answered, also if a rotation of it was under way and failed.
AnsweredIsRevoked ==
    \A q \in Requests : pc[q] = "revoked" => \A t \in found[q] : ~Live(t)

\* After a detected replay nothing that descends from the login of the replayed
\* token is live (auth_service: "the whole device family is revoked").  Does not
\* hold: the heir that a concurrent rotation inserts is not found.
FamilyIsRevoked ==
    \A q \in Requests : pc[q] = "revoked" /\ call[q].op = "refresh" =>
        \A t \in Tokens : tokens[t].origin = tokens[Presented(q)].origin => ~Live(t)
=============================================================================
