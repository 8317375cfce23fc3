------------------------ MODULE RefreshTokens_proof ------------------------
(***************************************************************************)
(* Proofs about RefreshTokens for any sets of tokens, devices and requests.*)
(***************************************************************************)
EXTENDS RefreshTokens, TLAPS

\* The inductive invariant.  The claim matters: a token is exchanged by the one
\* request that holds its row lock, and is live until that request commits.
IInv == TypeOK /\ ClaimsSound /\ OneLivePerLogin

-----------------------------------------------------------------------------
(* The data *)

\* A token that is not there is not live, and has no origin.
LEMMA Absent ==
    /\ NoToken.revoked = TRUE /\ NoToken.origin = None
    /\ \A r \in Token : r # NoToken /\ r.origin \in Tokens /\ r.revoked \in BOOLEAN
    /\ None \notin Tokens /\ None \notin Requests
<1>1. NoToken.revoked = TRUE /\ NoToken.origin = None
  BY DEF NoToken
<1>2. None \notin Tokens /\ None \notin Requests
  BY RefreshTokensAssumption DEF RefreshTokensAssumption
<1>3. \A r \in Token : r.origin \in Tokens /\ r.revoked \in BOOLEAN
  BY DEF Token
<1> QED
  BY <1>1, <1>2, <1>3

\* A live token is there, and its origin is a token.
LEMMA LiveIsThere ==
    ASSUME TypeOK, NEW t \in Tokens, Live(t)
    PROVE  tokens[t] \in Token /\ tokens[t] # NoToken /\ tokens[t].origin \in Tokens
BY Absent DEF TypeOK, Live

\* The heir has the device and the origin of the token it replaces.
LEMMA InheritedFacts ==
    ASSUME NEW q \in Requests, Presented(q) \in Tokens, tokens[Presented(q)] \in Token
    PROVE  /\ Inherited(q) \in Token
           /\ Inherited(q).revoked = FALSE
           /\ Inherited(q).parent = Presented(q)
           /\ Inherited(q).origin = tokens[Presented(q)].origin
BY DEF Inherited, Token

-----------------------------------------------------------------------------
LEMMA InitIInv == Init => IInv
<1> SUFFICES ASSUME Init PROVE IInv
  OBVIOUS
<1>1. TypeOK
  BY DEF Init, TypeOK
<1>2. \A t \in Tokens : ~Live(t) /\ tokens[t] = NoToken
  BY Absent DEF Init, Live
<1>3. ClaimsSound
  BY <1>2, Absent
     DEF Init, ClaimsSound, LockedIsLive, ClaimedIsLocked, HeirsAreFresh, OriginsExist
<1>4. OneLivePerLogin
  BY <1>2 DEF OneLivePerLogin
<1> QED
  BY <1>1, <1>3, <1>4 DEF IInv

\* Steps that read, or end without writing: they change the place of a request
\* that holds no lock and has no heir, before and after.
LEMMA QuietStep ==
    ASSUME IInv, TypeOK', NEW q \in Requests, UNCHANGED <<tokens, lock, call, heir>>,
           \A r \in Requests : r # q => pc'[r] = pc[r],
           pc[q] \notin {"claimed", "issued", "revoking"},
           pc'[q] \notin {"claimed", "issued"}
    PROVE  IInv'
<1>1. LockedIsLive' /\ ClaimedIsLocked'
  BY DEF IInv, ClaimsSound, LockedIsLive, ClaimedIsLocked, Live, Presented
<1>2. HeirsAreFresh' /\ OriginsExist' /\ OneLivePerLogin'
  BY DEF IInv, ClaimsSound, HeirsAreFresh, OriginsExist, OneLivePerLogin, Live
<1> QED
  BY <1>1, <1>2 DEF IInv, ClaimsSound

LEMMA LoginStep ==
    ASSUME IInv, NEW t \in Tokens, NEW d \in Devices, Login(t, d)
    PROVE  IInv'
<1> DEFINE new == [device |-> d, revoked |-> FALSE, origin |-> t, parent |-> None]
<1>1. /\ new \in Token /\ new # NoToken
      /\ tokens[t] = NoToken /\ tokens'[t] = new
      /\ \A s \in Tokens \ {t} : tokens'[s] = tokens[s]
      /\ \A q \in Requests : heir[q] # t
      /\ UNCHANGED <<active, lock, pc, call, found, heir>>
  BY Absent DEF Login, Unused, IInv, TypeOK, Token
<1>2. TypeOK'
  <2>1. tokens' \in [Tokens -> Token \union {NoToken}]
    BY <1>1 DEF Login, IInv, TypeOK
  <2> QED
    BY <1>1, <2>1 DEF IInv, TypeOK
<1>3. \A s \in Tokens : tokens[s] # NoToken => tokens[s].origin \in Tokens \ {t}
  <2> SUFFICES ASSUME NEW s \in Tokens, tokens[s] # NoToken
               PROVE  tokens[s].origin \in Tokens \ {t}
    OBVIOUS
  <2>1. tokens[s].origin \in Tokens
    BY Absent DEF IInv, TypeOK
  <2>2. tokens[tokens[s].origin] # NoToken
    BY DEF IInv, ClaimsSound, OriginsExist
  <2> QED
    BY <1>1, <2>1, <2>2
<1>4. LockedIsLive' /\ ClaimedIsLocked'
  BY <1>1, Absent DEF IInv, ClaimsSound, LockedIsLive, ClaimedIsLocked, Live, Presented
<1>5. HeirsAreFresh'
  BY <1>1, Absent DEF IInv, ClaimsSound, HeirsAreFresh, TypeOK
<1>6. OriginsExist'
  BY <1>1, <1>3 DEF IInv, ClaimsSound, OriginsExist
<1>7. OneLivePerLogin'
  BY <1>1, <1>3, Absent DEF IInv, OneLivePerLogin, Live
<1> QED
  BY <1>2, <1>4, <1>5, <1>6, <1>7 DEF IInv, ClaimsSound

LEMMA ClaimStep ==
    ASSUME IInv, NEW q \in Requests, Claim(q)
    PROVE  IInv'
<1> DEFINE p == Presented(q)
<1>1. /\ p \in Tokens /\ Live(p) /\ lock[p] = None /\ lock'[p] = q
      /\ \A t \in Tokens \ {p} : lock'[t] = lock[t]
      /\ pc[q] = "checked" /\ pc'[q] = "claimed"
      /\ \A r \in Requests \ {q} : pc'[r] = pc[r]
      /\ UNCHANGED <<tokens, active, call, found, heir>>
  BY DEF Claim, Claimable, Presented, IInv, TypeOK
<1>2. TypeOK'
  BY DEF Claim, Presented, IInv, TypeOK, Working
<1>3. LockedIsLive'
  BY <1>1 DEF IInv, ClaimsSound, LockedIsLive, Live, Presented
<1>4. ClaimedIsLocked'
  BY <1>1, Absent DEF IInv, ClaimsSound, ClaimedIsLocked, Presented, TypeOK
<1>5. HeirsAreFresh' /\ OriginsExist' /\ OneLivePerLogin'
  BY <1>1 DEF IInv, ClaimsSound, HeirsAreFresh, OriginsExist, OneLivePerLogin, Live
<1> QED
  BY <1>2, <1>3, <1>4, <1>5 DEF IInv, ClaimsSound

LEMMA IssueStep ==
    ASSUME IInv, NEW q \in Requests, NEW n \in Tokens, IssueTokens(q, n)
    PROVE  IInv'
<1>1. /\ tokens[n] = NoToken /\ \A r \in Requests : heir[r] # n
      /\ heir'[q] = n /\ \A r \in Requests \ {q} : heir'[r] = heir[r]
      /\ pc[q] = "claimed" /\ pc'[q] = "issued"
      /\ \A r \in Requests \ {q} : pc'[r] = pc[r]
      /\ UNCHANGED <<tokens, active, lock, call, found>>
  BY DEF IssueTokens, Unused, IInv, TypeOK
<1>2. TypeOK'
  BY DEF IssueTokens, IInv, TypeOK, Working
<1>3. LockedIsLive' /\ ClaimedIsLocked'
  BY <1>1 DEF IInv, ClaimsSound, LockedIsLive, ClaimedIsLocked, Live, Presented
<1>4. HeirsAreFresh'
  BY <1>1, Absent DEF IInv, ClaimsSound, HeirsAreFresh
<1>5. OriginsExist' /\ OneLivePerLogin'
  BY <1>1 DEF IInv, ClaimsSound, OriginsExist, OneLivePerLogin, Live
<1> QED
  BY <1>2, <1>3, <1>4, <1>5 DEF IInv, ClaimsSound

LEMMA RevokeStep ==
    ASSUME IInv, NEW q \in Requests, RevokeFamily(q)
    PROVE  IInv'
<1>1. /\ \A t \in found[q] : lock[t] = None
      /\ lock' = [t \in Tokens |-> IF t \in found[q] /\ Live(t) THEN q ELSE lock[t]]
      /\ pc[q] = "found" /\ pc'[q] = "revoking"
      /\ \A r \in Requests \ {q} : pc'[r] = pc[r]
      /\ UNCHANGED <<tokens, active, call, found, heir>>
  BY DEF RevokeFamily, IInv, TypeOK
<1>2. TypeOK'
  BY <1>1 DEF RevokeFamily, IInv, TypeOK, Working
<1>3. LockedIsLive'
  BY <1>1 DEF IInv, ClaimsSound, LockedIsLive, Live, Presented
<1>4. ClaimedIsLocked'
  <2> SUFFICES ASSUME NEW r \in Requests, pc'[r] \in {"claimed", "issued"}
               PROVE  lock'[Presented(r)] = r
    BY <1>1 DEF ClaimedIsLocked, Presented
  <2>1. pc[r] \in {"claimed", "issued"} /\ lock[Presented(r)] = r /\ Presented(r) \in Tokens
    BY <1>1 DEF IInv, ClaimsSound, ClaimedIsLocked, Presented, TypeOK
  <2>2. Presented(r) \notin found[q]
    BY <1>1, <2>1, Absent
  <2> QED
    BY <1>1, <2>1, <2>2
<1>5. HeirsAreFresh' /\ OriginsExist' /\ OneLivePerLogin'
  BY <1>1 DEF IInv, ClaimsSound, HeirsAreFresh, OriginsExist, OneLivePerLogin, Live
<1> QED
  BY <1>2, <1>3, <1>4, <1>5 DEF IInv, ClaimsSound

LEMMA FailStep ==
    ASSUME IInv, NEW q \in Requests, Fail(q)
    PROVE  IInv'
<1>1. /\ lock' = [t \in Tokens |-> IF lock[t] = q THEN None ELSE lock[t]]
      /\ heir'[q] = None /\ \A r \in Requests \ {q} : heir'[r] = heir[r]
      /\ pc'[q] = "failed" /\ \A r \in Requests \ {q} : pc'[r] = pc[r]
      /\ UNCHANGED <<tokens, active, call, found>>
  BY DEF Fail, IInv, TypeOK
<1>2. TypeOK'
  BY <1>1 DEF Fail, IInv, TypeOK, Ended
<1>3. LockedIsLive'
  BY <1>1, Absent DEF IInv, ClaimsSound, LockedIsLive, Live, Presented
<1>4. ClaimedIsLocked'
  BY <1>1 DEF IInv, ClaimsSound, ClaimedIsLocked, Presented, TypeOK
<1>5. HeirsAreFresh'
  BY <1>1 DEF IInv, ClaimsSound, HeirsAreFresh
<1>6. OriginsExist' /\ OneLivePerLogin'
  BY <1>1 DEF IInv, ClaimsSound, OriginsExist, OneLivePerLogin, Live
<1> QED
  BY <1>2, <1>3, <1>4, <1>5, <1>6 DEF IInv, ClaimsSound

-----------------------------------------------------------------------------
(* The commit *)

\* What a rotation exchanges: the presented token, live and locked, for an heir
\* that was not there.
LEMMA Exchange ==
    ASSUME IInv, NEW q \in Requests, pc[q] = "issued"
    PROVE  /\ Presented(q) \in Tokens /\ heir[q] \in Tokens /\ heir[q] # Presented(q)
           /\ Live(Presented(q)) /\ lock[Presented(q)] = q
           /\ tokens[Presented(q)] \in Token
           /\ tokens[heir[q]] = NoToken
           /\ \A t \in Tokens : lock[t] = q => t = Presented(q)
<1>1. Presented(q) \in Tokens /\ lock[Presented(q)] = q
  BY DEF IInv, ClaimsSound, ClaimedIsLocked, Presented, TypeOK
<1>2. Live(Presented(q))
  BY <1>1 DEF IInv, ClaimsSound, LockedIsLive
<1>3. tokens[Presented(q)] \in Token /\ tokens[Presented(q)] # NoToken
  BY <1>1, <1>2, LiveIsThere DEF IInv
<1>4. heir[q] \in Tokens /\ tokens[heir[q]] = NoToken
  BY DEF IInv, ClaimsSound, HeirsAreFresh, TypeOK
<1>5. \A t \in Tokens : lock[t] = q => t = Presented(q)
  BY DEF IInv, ClaimsSound, LockedIsLive
<1> QED
  BY <1>1, <1>2, <1>3, <1>4, <1>5

\* Each row after the commit, said of one row at a time.
LEMMA CommittedRow ==
    ASSUME IInv, NEW q \in Requests, Commit(q), NEW t \in Tokens
    PROVE  /\ t = heir[q] => /\ pc[q] = "issued" /\ tokens'[t] = Inherited(q)
                             /\ tokens'[t] \in Token
                             /\ tokens'[t].origin = tokens[Presented(q)].origin
                             /\ ~tokens'[t].revoked
           /\ t # heir[q] /\ lock[t] = q => /\ tokens'[t] \in Token /\ tokens'[t].revoked
                                           /\ tokens'[t].origin = tokens[t].origin
           /\ t # heir[q] /\ lock[t] # q => tokens'[t] = tokens[t]
           /\ tokens[t] # NoToken => /\ t # heir[q] /\ tokens'[t] # NoToken
                                     /\ tokens'[t].origin = tokens[t].origin
<1>1. /\ t = heir[q] => tokens'[t] = Inherited(q)
      /\ t # heir[q] /\ lock[t] = q => tokens'[t] = [tokens[t] EXCEPT !.revoked = TRUE]
      /\ t # heir[q] /\ lock[t] # q => tokens'[t] = tokens[t]
  BY DEF Commit
<1>2. t = heir[q] => /\ pc[q] = "issued" /\ tokens[t] = NoToken
  BY Absent DEF IInv, ClaimsSound, HeirsAreFresh
<1>3. lock[t] = q => tokens[t] \in Token /\ tokens[t] # NoToken
  BY LiveIsThere DEF IInv, ClaimsSound, LockedIsLive
<1>4. t # heir[q] /\ lock[t] = q => /\ tokens'[t] \in Token /\ tokens'[t].revoked
                                   /\ tokens'[t].origin = tokens[t].origin
  BY <1>1, <1>3 DEF Token
<1>5. t = heir[q] => /\ tokens'[t] \in Token /\ ~tokens'[t].revoked
                     /\ tokens'[t].origin = tokens[Presented(q)].origin
  <2> SUFFICES ASSUME t = heir[q]
               PROVE  /\ tokens'[t] \in Token /\ ~tokens'[t].revoked
                      /\ tokens'[t].origin = tokens[Presented(q)].origin
    OBVIOUS
  <2>1. Presented(q) \in Tokens /\ tokens[Presented(q)] \in Token
    BY <1>2, Exchange
  <2>2. /\ Inherited(q) \in Token /\ ~Inherited(q).revoked
        /\ Inherited(q).origin = tokens[Presented(q)].origin
    BY <2>1, InheritedFacts
  <2>3. tokens'[t] = Inherited(q)
    BY <1>1
  <2> QED
    BY <2>2, <2>3
<1> QED
  BY <1>1, <1>2, <1>4, <1>5, Absent

LEMMA CommitTypeOK ==
    ASSUME IInv, NEW q \in Requests, Commit(q)
    PROVE  TypeOK'
<1>1. tokens' \in [Tokens -> Token \union {NoToken}]
  <2>1. \A t \in Tokens : tokens'[t] \in Token \union {NoToken}
    BY CommittedRow DEF IInv, TypeOK
  <2>2. tokens' = [t \in Tokens |-> tokens'[t]]
    BY DEF Commit
  <2> QED
    BY <2>1, <2>2
<1>2. /\ lock' \in [Tokens -> Requests \union {None}]
      /\ heir' \in [Requests -> Tokens \union {None}]
  BY DEF Commit, IInv, TypeOK
<1>3. pc' \in [Requests -> {"idle"} \union Working \union Ended]
  BY DEF Commit, IInv, TypeOK, Ended
<1> QED
  BY <1>1, <1>2, <1>3 DEF Commit, IInv, TypeOK

LEMMA CommitStep ==
    ASSUME IInv, NEW q \in Requests, Commit(q)
    PROVE  IInv'
<1>1. /\ \A t \in Tokens : lock'[t] = IF lock[t] = q THEN None ELSE lock[t]
      /\ heir'[q] = None /\ \A r \in Requests \ {q} : heir'[r] = heir[r]
      /\ pc'[q] \in {"rotated", "revoked"} /\ \A r \in Requests \ {q} : pc'[r] = pc[r]
      /\ UNCHANGED call
  BY DEF Commit, IInv, TypeOK
<1>2. TypeOK'
  BY CommitTypeOK
<1>3. LockedIsLive'
  <2> SUFFICES ASSUME NEW t \in Tokens, NEW r \in Requests, lock'[t] = r
               PROVE  /\ ~tokens'[t].revoked
                      /\ \/ pc'[r] = "revoking"
                         \/ pc'[r] \in {"claimed", "issued"} /\ t = Presented(r)'
    BY DEF LockedIsLive, Live
  <2>1. lock[t] = r /\ r # q
    BY <1>1, Absent
  <2>2. Live(t) /\ (pc[r] = "revoking" \/ (pc[r] \in {"claimed", "issued"} /\ t = Presented(r)))
    BY <2>1 DEF IInv, ClaimsSound, LockedIsLive
  <2>3. tokens'[t] = tokens[t]
    BY <2>1, <2>2, CommittedRow, LiveIsThere DEF IInv
  <2> QED
    BY <1>1, <2>1, <2>2, <2>3 DEF Live, Presented
<1>4. ClaimedIsLocked'
  BY <1>1 DEF IInv, ClaimsSound, ClaimedIsLocked, Presented, TypeOK
<1>5. HeirsAreFresh'
  <2> SUFFICES ASSUME NEW r \in Requests
               PROVE  /\ pc'[r] = "issued" <=> heir'[r] # None
                      /\ heir'[r] # None => tokens'[heir'[r]] = NoToken
                      /\ \A u \in Requests : heir'[r] # None /\ heir'[r] = heir'[u] => r = u
    BY DEF HeirsAreFresh
  <2>1. CASE r = q
    BY <1>1, <2>1
  <2>2. CASE r # q
    <3>1. pc'[r] = pc[r] /\ heir'[r] = heir[r]
      BY <1>1, <2>2
    <3>2. /\ pc[r] = "issued" <=> heir[r] # None
          /\ heir[r] # None => tokens[heir[r]] = NoToken
          /\ \A u \in Requests : heir[r] # None /\ heir[r] = heir[u] => r = u
      BY DEF IInv, ClaimsSound, HeirsAreFresh
    <3>3. heir[r] # None => tokens'[heir[r]] = NoToken
      <4> SUFFICES ASSUME heir[r] # None
                   PROVE  tokens'[heir[r]] = NoToken
        OBVIOUS
      <4>1. heir[r] \in Tokens /\ heir[r] # heir[q] /\ tokens[heir[r]] = NoToken
        BY <2>2, <3>2 DEF IInv, TypeOK
      <4>2. lock[heir[r]] # q
        BY <4>1, Absent DEF IInv, ClaimsSound, LockedIsLive, Live
      <4> QED
        BY <4>1, <4>2, CommittedRow
    <3> QED
      BY <1>1, <3>1, <3>2, <3>3
  <2> QED
    BY <2>1, <2>2
<1>6. OriginsExist'
  <2> SUFFICES ASSUME NEW t \in Tokens, tokens'[t] # NoToken
               PROVE  tokens'[tokens'[t].origin] # NoToken
    BY DEF OriginsExist
  <2>1. PICK s \in Tokens : tokens[s] # NoToken /\ tokens'[t].origin = tokens[s].origin
    <3>1. CASE t = heir[q]
      BY <3>1, CommittedRow, Exchange, Absent
    <3>2. CASE t # heir[q] /\ lock[t] = q
      BY <3>2, CommittedRow, LiveIsThere DEF IInv, ClaimsSound, LockedIsLive
    <3>3. CASE t # heir[q] /\ lock[t] # q
      BY <3>3, CommittedRow
    <3> QED
      BY <3>1, <3>2, <3>3
  <2>2. tokens[s].origin \in Tokens /\ tokens[tokens[s].origin] # NoToken
    BY <2>1, Absent DEF IInv, ClaimsSound, OriginsExist, TypeOK
  <2> QED
    BY <2>1, <2>2, CommittedRow
<1>7. OneLivePerLogin'
  \* A row that is live after the commit was live before, or is the heir of the
  \* presented token, whose origin it has and which is live no more.
  <2> DEFINE before(t) == IF t = heir[q] THEN Presented(q) ELSE t
  <2>1. ASSUME NEW t \in Tokens, ~tokens'[t].revoked
        PROVE  /\ before(t) \in Tokens /\ Live(before(t))
               /\ tokens'[t].origin = tokens[before(t)].origin
               /\ t # heir[q] => lock[t] # q
    <3>1. CASE t = heir[q]
      BY <3>1, CommittedRow, Exchange
    <3>2. CASE t # heir[q]
      BY <2>1, <3>2, CommittedRow DEF Live
    <3> QED
      BY <3>1, <3>2
  <2>2. ASSUME NEW t \in Tokens, NEW u \in Tokens, ~tokens'[t].revoked, ~tokens'[u].revoked,
               before(t) = before(u)
        PROVE  t = u
    <3>1. t = heir[q] \/ u = heir[q] => lock[Presented(q)] = q
      BY <2>2, CommittedRow, Exchange
    <3> QED
      BY <2>1, <2>2, <3>1
  <2> HIDE DEF before
  <2>3. \A t, u \in Tokens :
          ~tokens'[t].revoked /\ ~tokens'[u].revoked /\ tokens'[t].origin = tokens'[u].origin
            => t = u
    BY <2>1, <2>2 DEF IInv, OneLivePerLogin
  <2> QED
    BY <2>3 DEF OneLivePerLogin, Live
<1> QED
  BY <1>2, <1>3, <1>4, <1>5, <1>6, <1>7 DEF IInv, ClaimsSound

-----------------------------------------------------------------------------
(* The theorems *)

LEMMA NextIInv ==
    ASSUME IInv, [Next]_vars
    PROVE  IInv'
<1>1. ASSUME NEW t \in Tokens, NEW d \in Devices, Login(t, d)
      PROVE  IInv'
  BY <1>1, LoginStep
<1>2. CASE SetActive
  <2>1. TypeOK'
    BY <1>2 DEF SetActive, IInv, TypeOK
  <2> QED
    BY <1>2, <2>1
       DEF SetActive, IInv, ClaimsSound, LockedIsLive, ClaimedIsLocked, HeirsAreFresh,
           OriginsExist, OneLivePerLogin, Live, Presented
<1>3. ASSUME NEW q \in Requests,
             Submit(q) \/ ReadToken(q) \/ ReadUser(q) \/ ClaimLost(q) \/ FindFamily(q)
      PROVE  IInv'
  <2>1. TypeOK'
    <3>1. CASE FindFamily(q)
      BY <3>1 DEF FindFamily, Family, IInv, TypeOK, Working
    <3>2. CASE ~FindFamily(q)
      BY <1>3, <3>2
         DEF Submit, ReadToken, ReadUser, ClaimLost, IInv, TypeOK, Working, Ended
    <3> QED
      BY <3>1, <3>2
  <2>2. /\ UNCHANGED <<tokens, lock, call, heir>>
        /\ \A r \in Requests : r # q => pc'[r] = pc[r]
        /\ pc[q] \notin {"claimed", "issued", "revoking"}
        /\ pc'[q] \notin {"claimed", "issued"}
    BY <1>3 DEF Submit, ReadToken, ReadUser, ClaimLost, FindFamily, IInv, TypeOK
  <2> QED
    BY <2>1, <2>2, QuietStep
<1>4. ASSUME NEW q \in Requests,
             Claim(q) \/ RevokeFamily(q) \/ Commit(q) \/ Fail(q)
      PROVE  IInv'
  BY <1>4, ClaimStep, RevokeStep, CommitStep, FailStep
<1>5. ASSUME NEW q \in Requests, NEW n \in Tokens, IssueTokens(q, n)
      PROVE  IInv'
  BY <1>5, IssueStep
<1>6. CASE UNCHANGED vars
  BY <1>6
     DEF vars, IInv, TypeOK, ClaimsSound, LockedIsLive, ClaimedIsLocked, HeirsAreFresh,
         OriginsExist, OneLivePerLogin, Live, Presented
<1> QED
  BY <1>1, <1>2, <1>3, <1>4, <1>5, <1>6 DEF Next

LEMMA AlwaysIInv == Spec => []IInv
<1> QED
  BY InitIInv, NextIInv, PTL DEF Spec

\* The token table and the requests keep their types.
THEOREM TypeCorrect == Spec => []TypeOK
<1>1. IInv => TypeOK
  BY DEF IInv
<1> QED
  BY <1>1, AlwaysIInv, PTL

\* A token that a request has claimed is live and its own until it commits.
THEOREM ClaimsCorrect == Spec => []ClaimsSound
<1>1. IInv => ClaimsSound
  BY DEF IInv
<1> QED
  BY <1>1, AlwaysIInv, PTL

\* However many requests present the tokens of a login, at any time and in any
\* order, at most one of its tokens is live.
THEOREM OneFamilyPerLogin == Spec => []OneLivePerLogin
<1>1. IInv => OneLivePerLogin
  BY DEF IInv
<1> QED
  BY <1>1, AlwaysIInv, PTL

\* A token comes alive by a login or in exchange for the one it replaces.
THEOREM ExchangeCorrect == Spec => IssuedInExchange
<1> DEFINE Issued(t) == LET p == tokens'[t].parent
                        IN  \/ p = None /\ tokens'[t].origin = t
                            \/ Live(p) /\ tokens'[p].revoked /\ tokens'[t].origin = tokens[p].origin
<1>1. ASSUME IInv, [Next]_vars, NEW t \in Tokens, tokens[t] = NoToken, tokens'[t] # NoToken
      PROVE  Issued(t)
  <2>1. ASSUME NEW s \in Tokens, NEW d \in Devices, Login(s, d)
        PROVE  Issued(t)
    <3>1. tokens' = [tokens EXCEPT ![s] = [device |-> d, revoked |-> FALSE, origin |-> s,
                                           parent |-> None]]
      BY <2>1 DEF Login
    <3>2. t = s
      BY <1>1, <3>1
    <3>3. tokens'[t].parent = None /\ tokens'[t].origin = t
      BY <3>1, <3>2, <1>1 DEF IInv, TypeOK
    <3> QED
      BY <3>3
  <2>2. ASSUME NEW q \in Requests, Commit(q)
        PROVE  Issued(t)
    <3>1. t = heir[q] /\ pc[q] = "issued"
      BY <1>1, <2>2, CommittedRow, LiveIsThere DEF IInv, ClaimsSound, LockedIsLive
    <3>2. tokens'[t] = Inherited(q)
      BY <2>2, <3>1, <1>1, CommittedRow
    <3>3. /\ Presented(q) \in Tokens /\ heir[q] # Presented(q) /\ Live(Presented(q))
          /\ lock[Presented(q)] = q /\ tokens[Presented(q)] \in Token
      BY <1>1, <3>1, Exchange
    <3>4. /\ tokens'[t].parent = Presented(q)
          /\ tokens'[t].origin = tokens[Presented(q)].origin
      BY <3>2, <3>3, InheritedFacts
    <3>5. tokens'[Presented(q)].revoked
      BY <1>1, <2>2, <3>3, CommittedRow
    <3> QED
      BY <3>3, <3>4, <3>5
  <2>3. CASE UNCHANGED tokens
    BY <1>1, <2>3
  <2> QED
    BY <1>1, <2>1, <2>2, <2>3
       DEF Next, vars, SetActive, Submit, ReadToken, ReadUser, Claim, ClaimLost, FindFamily,
           RevokeFamily, IssueTokens, Fail
<1>2. IInv /\ [Next]_vars =>
        [\A t \in Tokens : tokens[t] = NoToken /\ tokens'[t] # NoToken => Issued(t)]_vars
  BY <1>1
<1> QED
  BY <1>2, AlwaysIInv, PTL DEF Spec, IssuedInExchange

-----------------------------------------------------------------------------
(* What a logout or a replay has found *)

\* The rows found are there, and from RevokeFamily to the commit those of them
\* that are live are locked by the request that found them.
FoundAreThere ==
    \A q \in Requests : pc[q] \in {"found", "revoking", "revoked"} =>
        \A t \in found[q] : tokens[t] # NoToken
FoundAreHeld ==
    \A q \in Requests : pc[q] = "revoking" => \A t \in found[q] : Live(t) => lock[t] = q
Found == FoundAreThere /\ FoundAreHeld /\ AnsweredIsRevoked

\* A row stays, and one that is revoked stays revoked.
LEMMA RowsStay ==
    ASSUME IInv, [Next]_vars, NEW t \in Tokens, tokens[t] # NoToken
    PROVE  tokens'[t] # NoToken /\ (~tokens'[t].revoked => Live(t))
<1>1. ASSUME NEW s \in Tokens, NEW d \in Devices, Login(s, d)
      PROVE  tokens'[t] = tokens[t]
  BY <1>1 DEF Login, Unused, IInv, TypeOK
<1>2. ASSUME NEW q \in Requests, Commit(q)
      PROVE  tokens'[t] # NoToken /\ (~tokens'[t].revoked => Live(t))
  <2>1. t # heir[q] /\ tokens'[t] # NoToken
    BY <1>2, CommittedRow
  <2>2. lock[t] = q => tokens'[t].revoked
    BY <1>2, <2>1, CommittedRow
  <2>3. lock[t] # q => tokens'[t] = tokens[t]
    BY <1>2, <2>1, CommittedRow
  <2> QED
    BY <2>1, <2>2, <2>3 DEF Live
<1>3. CASE UNCHANGED tokens
  BY <1>3 DEF Live
<1> QED
  BY <1>1, <1>2, <1>3
     DEF Next, vars, Live, SetActive, Submit, ReadToken, ReadUser, Claim, ClaimLost, FindFamily,
         RevokeFamily, IssueTokens, Fail

\* The steps of others leave what q has found as it was, and locked.
LEMMA FoundKept ==
    ASSUME IInv, Found, [Next]_vars, NEW q \in Requests,
           pc'[q] = pc[q], found'[q] = found[q],
           \A t \in Tokens : lock[t] = q => lock'[t] = q \/ tokens'[t].revoked
    PROVE  /\ pc'[q] \in {"found", "revoking", "revoked"} =>
                \A t \in found'[q] : tokens'[t] # NoToken
           /\ pc'[q] = "revoking" => \A t \in found'[q] : Live(t)' => lock'[t] = q
           /\ pc'[q] = "revoked" => \A t \in found'[q] : ~Live(t)'
<1>1. found[q] \subseteq Tokens
  BY DEF IInv, TypeOK
<1>2. ASSUME pc[q] \in {"found", "revoking", "revoked"}, NEW t \in found[q]
      PROVE  tokens'[t] # NoToken /\ (~tokens'[t].revoked => Live(t))
  BY <1>1, <1>2, RowsStay DEF Found, FoundAreThere
<1> QED
  BY <1>1, <1>2 DEF Found, FoundAreHeld, AnsweredIsRevoked, Live

\* Every step keeps what was found there, locked, and revoked in the end.
LEMMA FoundStep ==
    ASSUME IInv, Found, [Next]_vars
    PROVE  Found'
<1> DEFINE Sound(q) ==
      /\ pc'[q] \in {"found", "revoking", "revoked"} => \A t \in found'[q] : tokens'[t] # NoToken
      /\ pc'[q] = "revoking" => \A t \in found'[q] : Live(t)' => lock'[t] = q
      /\ pc'[q] = "revoked" => \A t \in found'[q] : ~Live(t)'
<1>1. SUFFICES ASSUME NEW q \in Requests PROVE Sound(q)
  BY <1>1 DEF Found, FoundAreThere, FoundAreHeld, AnsweredIsRevoked
<1>2. found[q] \subseteq Tokens
  BY DEF IInv, TypeOK
<1>3. ASSUME NEW r \in Requests, r # q, Commit(r) \/ Fail(r)
      PROVE  Sound(q)
  <2>1. pc'[q] = pc[q] /\ found'[q] = found[q] /\ \A t \in Tokens : lock[t] = q => lock'[t] = q
    BY <1>3 DEF Commit, Fail, IInv, TypeOK
  <2> QED
    BY <2>1, FoundKept
<1>4. ASSUME NEW r \in Requests, r # q,
             \/ Submit(r) \/ ReadToken(r) \/ ReadUser(r) \/ Claim(r) \/ ClaimLost(r)
             \/ FindFamily(r) \/ \E n \in Tokens : IssueTokens(r, n)
      PROVE  Sound(q)
  <2>1. pc'[q] = pc[q] /\ found'[q] = found[q]
    BY <1>4 DEF Submit, ReadToken, ReadUser, Claim, ClaimLost, FindFamily, IssueTokens, IInv, TypeOK
  <2>2. \A t \in Tokens : lock[t] = q => lock'[t] = q
    BY <1>4, Absent
       DEF Submit, ReadToken, ReadUser, Claim, ClaimLost, FindFamily, IssueTokens, IInv, TypeOK
  <2> QED
    BY <2>1, <2>2, FoundKept
<1>5. ASSUME NEW r \in Requests, r # q, RevokeFamily(r)
      PROVE  Sound(q)
  <2>1. /\ pc'[q] = pc[q] /\ found'[q] = found[q]
        /\ \A t \in Tokens : lock[t] = q => lock'[t] = q
    BY <1>5, Absent DEF RevokeFamily, IInv, TypeOK
  <2> QED
    BY <2>1, FoundKept
<1>6. ASSUME FindFamily(q)
      PROVE  Sound(q)
  <2>1. pc'[q] = "found" /\ found'[q] = Family(q) /\ tokens' = tokens
    BY <1>6 DEF FindFamily, IInv, TypeOK
  <2> QED
    BY <2>1 DEF Family
<1>7. ASSUME RevokeFamily(q)
      PROVE  Sound(q)
  <2>1. /\ pc[q] = "found" /\ pc'[q] = "revoking" /\ UNCHANGED <<found, tokens>>
        /\ lock' = [t \in Tokens |-> IF t \in found[q] /\ Live(t) THEN q ELSE lock[t]]
    BY <1>7 DEF RevokeFamily, IInv, TypeOK
  <2>2. \A t \in found[q] : tokens[t] # NoToken
    BY <2>1 DEF Found, FoundAreThere
  <2> QED
    BY <1>2, <2>1, <2>2 DEF Live
<1>8. ASSUME Commit(q)
      PROVE  Sound(q)
  <2>1. CASE pc[q] = "issued"
    BY <1>8, <2>1 DEF Commit, IInv, TypeOK
  <2>2. CASE pc[q] = "revoking"
    <3>1. pc'[q] = "revoked" /\ found' = found
      BY <1>8, <2>2 DEF Commit, IInv, TypeOK
    <3>2. ASSUME NEW t \in found[q]
          PROVE  tokens'[t] # NoToken /\ tokens'[t].revoked
      <4>1. t \in Tokens /\ tokens[t] # NoToken
        BY <1>2, <2>2 DEF Found, FoundAreThere
      <4>2. t # heir[q] /\ tokens'[t] # NoToken /\ (lock[t] = q => tokens'[t].revoked)
                        /\ (lock[t] # q => tokens'[t] = tokens[t])
        BY <1>8, <4>1, CommittedRow
      <4>3. Live(t) => lock[t] = q
        BY <2>2 DEF Found, FoundAreHeld
      <4> QED
        BY <4>2, <4>3 DEF Live
    <3> QED
      BY <3>1, <3>2 DEF Live
  <2> QED
    BY <1>8, <2>1, <2>2 DEF Commit
<1>9. ASSUME \/ Submit(q) \/ ReadToken(q) \/ ReadUser(q) \/ Claim(q) \/ ClaimLost(q) \/ Fail(q)
             \/ \E n \in Tokens : IssueTokens(q, n)
      PROVE  Sound(q)
  <2>1. pc'[q] \notin {"found", "revoking", "revoked"}
    BY <1>9 DEF Submit, ReadToken, ReadUser, Claim, ClaimLost, Fail, IssueTokens, IInv, TypeOK
  <2> QED
    BY <2>1
<1>10. ASSUME UNCHANGED <<lock, pc, found>>
       PROVE  Sound(q)
  BY <1>10, FoundKept
<1> HIDE DEF Sound
<1> QED
  BY <1>3, <1>4, <1>5, <1>6, <1>7, <1>8, <1>9, <1>10 DEF Next, vars, Login, SetActive

\* What a logout or a detected replay found live stays revoked, whatever
\* rotations of it were under way.
THEOREM AnswersAreFinal == Spec => []AnsweredIsRevoked
<1>1. Init => Found
  BY DEF Init, Found, FoundAreThere, FoundAreHeld, AnsweredIsRevoked
<1>2. IInv /\ Found /\ [Next]_vars => Found'
  BY FoundStep
<1>3. Found => AnsweredIsRevoked
  BY DEF Found
<1> QED
  BY <1>1, <1>2, <1>3, AlwaysIInv, PTL DEF Spec
=============================================================================
