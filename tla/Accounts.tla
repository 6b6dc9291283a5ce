------------------------------ MODULE Accounts ------------------------------
(***************************************************************************)
(* Accounts, organisations, sessions and invites.                          *)
(*                                                                         *)
(* Every HTTP request of internal/gateway/api/auth.go and tenants.go that   *)
(* runs more than one SQL statement is a process of Requests; one action is *)
(* one statement of auth.Service or of the repositories it calls, so that   *)
(* any two requests interleave between statements: the code opens no        *)
(* transaction.  Fail(r) ends a request at any point: a statement returns   *)
(* an error, the client's context is cancelled, or the gateway dies.        *)
(*                                                                         *)
(* Abstractions.  users.email is UNIQUE and no code deletes a user, so an   *)
(* email is the user's id.  An org name is its slug.  A password is         *)
(* whether a hash is stored.  An access token is stateless and can be used  *)
(* from its issue on (its 15 minute expiry only removes behaviours); it is  *)
(* stored with the refresh token it was issued with, as a "pair".           *)
(***************************************************************************)
EXTENDS Integers, FiniteSets

CONSTANTS
    Emails,       \* the addresses clients and identity providers send
    Lower,        \* strings.ToLower(strings.TrimSpace(email))
    Identities,   \* (provider, subject) of an OIDC identity
    Slugs,        \* what slugify makes of the names of organisations
    TenantIds, PairIds, InviteIds,  \* bounds: rows ever created
    StateIds,     \* OIDC state parameters, bound: pending at once
    InviteRoles,  \* roles named in invites
    Requests,     \* bound: requests in flight at once
    None

ASSUME LowerAssumption ==
    /\ Lower \in [Emails -> Emails]
    /\ \A e \in Emails : Lower[Lower[e]] = Lower[e]
ASSUME NoneAssumption ==
    /\ None \notin Emails \cup Identities \cup Slugs
    /\ None \notin TenantIds \cup PairIds \cup InviteIds
    /\ None \notin InviteRoles \cup {"owner", "member"}
ASSUME SlugAssumption == Slugs \cap {"unborn", "gone"} = {}

Roles == InviteRoles \cup {"owner", "member"}

VARIABLES
    users,      \* users: is there a row, has it a hash, its OIDC identity
    tenants,    \* tenants: the slug of a row, or "unborn" / "gone"
    joined,     \* org_members.joined_at as a rank: 0 for no row, 1 the latest
    role,       \* org_members.role
    pairs,      \* refresh_tokens, with the access token issued along
    invites,    \* org_invites
    oidcStates, \* OIDCManager.states
    req         \* the requests in flight

vars == <<users, tenants, joined, role, pairs, invites, oidcStates, req>>

-----------------------------------------------------------------------------
UserRow == [made : BOOLEAN, hash : BOOLEAN, oidc : Identities \cup {None}]

\* "dead": revoked_at is set or expires_at has passed.
TokenStates == {"unborn", "live", "dead", "gone"}

PairRow == [state : TokenStates, user : Emails \cup {None},
            tenant : TenantIds \cup {None}, role : Roles \cup {None},
            parent : PairIds \cup {None}]

InviteRow == [state : {"unborn", "pending", "accepted", "expired", "gone"},
              tenant : TenantIds \cup {None}, role : Roles \cup {None},
              usedBy : SUBSET Emails]

Ops == {"register", "join", "login", "refresh", "logout", "oidc", "accept"}

Steps == {"lookup", "create", "hash", "tenant", "owner", "issue", "revoke",
          "byIdentity", "byEmail", "link", "insert", "primary",
          "invite", "joinOrg", "accept"}

Request == [op : Ops \cup {None}, pc : Steps \cup {"idle"},
            user : Emails \cup {None}, ident : Identities \cup {None},
            slug : Slugs \cup {None}, tenant : TenantIds \cup {None},
            role : Roles \cup {None}, pair : PairIds \cup {None},
            invite : InviteIds \cup {None}]

IdleRequest == [op |-> None, pc |-> "idle", user |-> None, ident |-> None,
                slug |-> None, tenant |-> None, role |-> None,
                pair |-> None, invite |-> None]

TypeOK ==
    /\ users \in [Emails -> UserRow]
    /\ tenants \in [TenantIds -> Slugs \cup {"unborn", "gone"}]
    /\ joined \in [Emails -> [TenantIds -> Nat]]
    /\ role \in [Emails -> [TenantIds -> Roles \cup {None}]]
    /\ pairs \in [PairIds -> PairRow]
    /\ invites \in [InviteIds -> InviteRow]
    /\ oidcStates \subseteq StateIds
    /\ req \in [Requests -> Request]

Init ==
    /\ users = [e \in Emails |-> [made |-> FALSE, hash |-> FALSE, oidc |-> None]]
    /\ tenants = [t \in TenantIds |-> "unborn"]
    /\ joined = [e \in Emails |-> [t \in TenantIds |-> 0]]
    /\ role = [e \in Emails |-> [t \in TenantIds |-> None]]
    /\ pairs = [p \in PairIds |-> [state |-> "unborn", user |-> None,
                  tenant |-> None, role |-> None, parent |-> None]]
    /\ invites = [i \in InviteIds |-> [state |-> "unborn", tenant |-> None,
                    role |-> None, usedBy |-> {}]]
    /\ oidcStates = {}
    /\ req = [r \in Requests |-> IdleRequest]

-----------------------------------------------------------------------------
\* The tables.

Exists(t) == t \in TenantIds /\ tenants[t] \in Slugs

Member(e, t) == joined[e][t] > 0

\* AddToTenant: an upsert that keeps joined_at; the foreign key refuses a
\* tenant that is gone (the caller's guard is Exists).
AddToTenant(t, e, ro) ==
    /\ joined' = IF Member(e, t) THEN joined
                 ELSE [joined EXCEPT ![e] =
                         [x \in TenantIds |-> IF x = t THEN 1
                                              ELSE IF Member(e, x)
                                                   THEN joined[e][x] + 1
                                                   ELSE 0]]
    /\ role' = [role EXCEPT ![e][t] = ro]

\* GetPrimaryMembership: ORDER BY joined_at LIMIT 1.
IsPrimary(e, t) ==
    /\ Member(e, t)
    /\ \A x \in TenantIds : joined[e][x] <= joined[e][t]

\* tenants.Create: the slug is UNIQUE.
SlugTaken(s) == \E t \in TenantIds : tenants[t] = s

CreateTenantRow(t, s) ==
    /\ tenants[t] = "unborn" /\ ~SlugTaken(s)
    /\ tenants' = [tenants EXCEPT ![t] = s]

\* HTTPMiddleware and TokenManager.Validate accept any signed token that has
\* not expired, whatever became of the rows it names.
Authenticated(p) == pairs[p].state # "unborn"

\* refresh_tokens.GetByHash and org_invites.GetByToken.
TokenUsable(p) == pairs[p].state = "live"
InviteUsable(i) == invites[i].state = "pending"

At(r, op, pc) == req[r].op = op /\ req[r].pc = pc
Goto(r, pc) == req' = [req EXCEPT ![r].pc = pc]
Done(r) == req' = [req EXCEPT ![r] = IdleRequest]
Begin(r, rec) == req[r].pc = "idle" /\ req' = [req EXCEPT ![r] = rec]

-----------------------------------------------------------------------------
\* Register, also for an invitee without an account (op "join").

\* handleRegister and the validation at the top of Register; an empty org name
\* becomes "<display name>'s Org", so every request has some slug.
StartRegister(r) ==
    /\ \E e \in Emails, s \in Slugs :
         Begin(r, [IdleRequest EXCEPT !.op = "register", !.pc = "lookup",
                     !.user = Lower[e], !.slug = s])
    /\ UNCHANGED <<users, tenants, joined, role, pairs, invites, oidcStates>>

\* handleAcceptInvite without a token: look the invite up, then Register,
\* which makes an organisation of its own for the invitee as well.
StartJoin(r) ==
    /\ \E e \in Emails, s \in Slugs, i \in InviteIds :
         /\ InviteUsable(i)
         /\ Begin(r, [IdleRequest EXCEPT !.op = "join", !.pc = "lookup",
                        !.user = Lower[e], !.slug = s, !.invite = i])
    /\ UNCHANGED <<users, tenants, joined, role, pairs, invites, oidcStates>>

Registering(r) == req[r].op \in {"register", "join"}

\* GetByEmail: any error, not only no rows, is taken for a free address.
RegisterLookup(r) ==
    /\ Registering(r) /\ req[r].pc = "lookup"
    /\ \/ users[req[r].user].made /\ Done(r)
       \/ Goto(r, "create")
    /\ UNCHANGED <<users, tenants, joined, role, pairs, invites, oidcStates>>

\* users.Create: users.email is UNIQUE.
RegisterCreate(r) ==
    /\ Registering(r) /\ req[r].pc = "create"
    /\ ~users[req[r].user].made
    /\ users' = [users EXCEPT ![req[r].user].made = TRUE]
    /\ Goto(r, "hash")
    /\ UNCHANGED <<tenants, joined, role, pairs, invites, oidcStates>>

SetPasswordHash(r) ==
    /\ Registering(r) /\ req[r].pc = "hash"
    /\ users' = [users EXCEPT ![req[r].user].hash = TRUE]
    /\ Goto(r, "tenant")
    /\ UNCHANGED <<tenants, joined, role, pairs, invites, oidcStates>>

\* Mutant of CreateOrg: the pair is issued before the owner row is written.
CreateOrgThenIssue(r) ==
    /\ req[r].pc = "tenant"
    /\ \E t \in TenantIds :
         /\ CreateTenantRow(t, req[r].slug)
         /\ req' = [req EXCEPT ![r].pc = "issue", ![r].tenant = t, ![r].role = "owner"]
    /\ UNCHANGED <<users, joined, role, pairs, invites, oidcStates>>

\* tenants.Create of Register and of LoginOIDC; a slug that is taken leaves
\* the user of the previous statements behind (Fail).
CreateOrg(r) ==
    /\ req[r].pc = "tenant"
    /\ \E t \in TenantIds :
         /\ CreateTenantRow(t, req[r].slug)
         /\ req' = [req EXCEPT ![r].pc = "owner", ![r].tenant = t]
    /\ UNCHANGED <<users, joined, role, pairs, invites, oidcStates>>

\* AddToTenant(..., "owner"): Register goes on with the new tenant,
\* LoginOIDC resolves the primary one.
AddOwner(r) ==
    /\ req[r].pc = "owner" /\ Exists(req[r].tenant)
    /\ AddToTenant(req[r].tenant, req[r].user, "owner")
    /\ req' = [req EXCEPT ![r].pc = IF req[r].op = "oidc" THEN "primary" ELSE "issue",
                          ![r].role = "owner"]
    /\ UNCHANGED <<users, tenants, pairs, invites, oidcStates>>

-----------------------------------------------------------------------------
\* issuePair and primaryTenant, shared by every way to get tokens.

\* GetPrimaryMembership turns every error into ("", "member").
PrimaryTenant(r) ==
    /\ req[r].pc = "primary"
    /\ \/ \E t \in TenantIds :
            /\ IsPrimary(req[r].user, t)
            /\ req' = [req EXCEPT ![r].pc = "issue", ![r].tenant = t,
                                  ![r].role = role[req[r].user][t]]
       \/ req' = [req EXCEPT ![r].pc = "issue", ![r].tenant = None,
                             ![r].role = "member"]
    /\ UNCHANGED <<users, tenants, joined, role, pairs, invites, oidcStates>>

\* refresh_tokens.Create; tenant_id is NOT NULL with a foreign key, so a
\* request without a tenant, or whose tenant is gone, can only Fail here.
IssuePair(r) ==
    /\ req[r].pc = "issue" /\ Exists(req[r].tenant)
    /\ \E p \in PairIds :
         /\ pairs[p].state = "unborn"
         /\ pairs' = [pairs EXCEPT ![p] =
              [state |-> "live", user |-> req[r].user, tenant |-> req[r].tenant,
               role |-> req[r].role, parent |-> req[r].pair]]
    /\ IF req[r].op = "join" THEN Goto(r, "joinOrg") ELSE Done(r)
    /\ UNCHANGED <<users, tenants, joined, role, invites, oidcStates>>

-----------------------------------------------------------------------------
\* Login, RefreshToken, Logout.

StartLogin(r) ==
    /\ \E e \in Emails :
         Begin(r, [IdleRequest EXCEPT !.op = "login", !.pc = "lookup",
                     !.user = Lower[e]])
    /\ UNCHANGED <<users, tenants, joined, role, pairs, invites, oidcStates>>

\* A missing row, a missing hash or a wrong password can only Fail.
LoginLookup(r) ==
    /\ At(r, "login", "lookup")
    /\ users[req[r].user].made /\ users[req[r].user].hash
    /\ Goto(r, "primary")
    /\ UNCHANGED <<users, tenants, joined, role, pairs, invites, oidcStates>>

\* A client may present any refresh token it was ever given, any number of
\* times and from several tabs at once.
StartWithToken(r, op) ==
    /\ \E p \in PairIds :
         /\ pairs[p].state # "unborn"
         /\ Begin(r, [IdleRequest EXCEPT !.op = op, !.pc = "lookup", !.pair = p])
    /\ UNCHANGED <<users, tenants, joined, role, pairs, invites, oidcStates>>

TokenLookup(r) ==
    /\ req[r].op \in {"refresh", "logout"} /\ req[r].pc = "lookup"
    /\ TokenUsable(req[r].pair)
    /\ Goto(r, "revoke")
    /\ UNCHANGED <<users, tenants, joined, role, pairs, invites, oidcStates>>

\* Mutant of Revoke: the error of the revocation is dropped, as Accept's is.
RevokeBestEffort(r) ==
    /\ req[r].pc = "revoke"
    /\ \/ pairs' = [pairs EXCEPT ![req[r].pair].state = "dead"]
       \/ UNCHANGED pairs
    /\ IF req[r].op = "logout" THEN Done(r)
       ELSE req' = [req EXCEPT ![r].pc = "issue",
                               ![r].user = pairs[req[r].pair].user,
                               ![r].tenant = pairs[req[r].pair].tenant,
                               ![r].role = "member"]
    /\ UNCHANGED <<users, tenants, joined, role, invites, oidcStates>>

\* Revoke updates the row by id, whoever revoked it before; a row that a
\* deleted tenant took along is updated nowhere.  RefreshToken issues the new
\* pair with the role "member", whatever the old one had.
Revoke(r) ==
    /\ req[r].pc = "revoke"
    /\ pairs' = IF pairs[req[r].pair].state = "gone" THEN pairs
                ELSE [pairs EXCEPT ![req[r].pair].state = "dead"]
    /\ IF req[r].op = "logout" THEN Done(r)
       ELSE req' = [req EXCEPT ![r].pc = "issue",
                               ![r].user = pairs[req[r].pair].user,
                               ![r].tenant = pairs[req[r].pair].tenant,
                               ![r].role = "member"]
    /\ UNCHANGED <<users, tenants, joined, role, invites, oidcStates>>

-----------------------------------------------------------------------------
\* OIDC: AuthURL, Exchange and LoginOIDC.

\* handleOIDCRedirect; the states map has no expiry.
AuthURL(st) ==
    /\ oidcStates' = oidcStates \cup {st}
    /\ UNCHANGED <<users, tenants, joined, role, pairs, invites, req>>

\* Exchange pops the state under the mutex.
Exchange == \E st \in oidcStates : oidcStates' = oidcStates \ {st}

\* The state is gone even when it was made for another provider or the code
\* exchange then fails.  The claims' email is used as the provider spells it.
handleOIDCCallback(r) ==
    /\ Exchange
    /\ \/ \E id \in Identities, e \in Emails, s \in Slugs :
            Begin(r, [IdleRequest EXCEPT !.op = "oidc", !.pc = "byIdentity",
                        !.ident = id, !.user = e, !.slug = s])
       \/ UNCHANGED req
    /\ UNCHANGED <<users, tenants, joined, role, pairs, invites>>

\* FindOrCreateByOIDC, first SELECT: any error counts as not found.
FindByIdentity(r) ==
    /\ At(r, "oidc", "byIdentity")
    /\ \/ \E u \in Emails :
            /\ users[u].oidc = req[r].ident
            /\ req' = [req EXCEPT ![r].user = u, ![r].pc = "primary"]
       \/ Goto(r, "byEmail")
    /\ UNCHANGED <<users, tenants, joined, role, pairs, invites, oidcStates>>

FindByEmail(r) ==
    /\ At(r, "oidc", "byEmail")
    /\ \/ users[req[r].user].made /\ Goto(r, "link")
       \/ Goto(r, "insert")
    /\ UNCHANGED <<users, tenants, joined, role, pairs, invites, oidcStates>>

LinkIdentity(r) ==
    /\ At(r, "oidc", "link")
    /\ users' = [users EXCEPT ![req[r].user].oidc = req[r].ident]
    /\ Goto(r, "primary")
    /\ UNCHANGED <<tenants, joined, role, pairs, invites, oidcStates>>

\* Only the request that inserted the row goes on to make an organisation.
InsertOIDCUser(r) ==
    /\ At(r, "oidc", "insert")
    /\ ~users[req[r].user].made
    /\ users' = [users EXCEPT ![req[r].user] =
                   [made |-> TRUE, hash |-> FALSE, oidc |-> req[r].ident]]
    /\ Goto(r, "tenant")
    /\ UNCHANGED <<tenants, joined, role, pairs, invites, oidcStates>>

-----------------------------------------------------------------------------
\* Tenants and invites.

\* handleCreateInvite: the role is whatever the inviter names.
CreateInvite(p, i, ro) ==
    /\ Authenticated(p) /\ pairs[p].role \in {"owner", "admin"}
    /\ Exists(pairs[p].tenant)
    /\ invites[i].state = "unborn"
    /\ invites' = [invites EXCEPT ![i] =
         [state |-> "pending", tenant |-> pairs[p].tenant, role |-> ro,
          usedBy |-> {}]]
    /\ UNCHANGED <<users, tenants, joined, role, pairs, oidcStates, req>>

\* Mutant of StartAccept: the invite is marked accepted before the account joins.
AcceptBeforeJoin(r) ==
    /\ \E p \in PairIds, i \in InviteIds :
         /\ Authenticated(p) /\ InviteUsable(i)
         /\ invites' = [invites EXCEPT ![i].state = "accepted"]
         /\ Begin(r, [IdleRequest EXCEPT !.op = "accept", !.pc = "joinOrg",
                        !.user = pairs[p].user, !.invite = i])
    /\ UNCHANGED <<users, tenants, joined, role, pairs, oidcStates>>

\* handleAcceptInvite with a token: any account may use any invite.
StartAccept(r) ==
    /\ \E p \in PairIds, i \in InviteIds :
         /\ Authenticated(p) /\ InviteUsable(i)
         /\ Begin(r, [IdleRequest EXCEPT !.op = "accept", !.pc = "joinOrg",
                        !.user = pairs[p].user, !.invite = i])
    /\ UNCHANGED <<users, tenants, joined, role, pairs, invites, oidcStates>>

\* AddToTenant(invite.TenantID, user, invite.Role): overwrites the role of a
\* member.
JoinOrg(r) ==
    LET i == req[r].invite IN
    /\ req[r].pc = "joinOrg" /\ Exists(invites[i].tenant)
    /\ AddToTenant(invites[i].tenant, req[r].user, invites[i].role)
    /\ invites' = [invites EXCEPT ![i].usedBy = @ \cup {req[r].user}]
    /\ Goto(r, "accept")
    /\ UNCHANGED <<users, tenants, pairs, oidcStates>>

\* Invites.Accept, whose error is dropped: the invite then stays pending.
AcceptInvite(r) ==
    LET i == req[r].invite IN
    /\ req[r].pc = "accept"
    /\ \/ /\ invites[i].state # "gone"
          /\ invites' = [invites EXCEPT ![i].state = "accepted"]
       \/ UNCHANGED invites
    /\ Done(r)
    /\ UNCHANGED <<users, tenants, joined, role, pairs, oidcStates>>

\* handleCreateTenant: the owner who creates it is not made a member.
CreateTenant(p, t, s) ==
    /\ Authenticated(p) /\ pairs[p].role = "owner"
    /\ CreateTenantRow(t, s)
    /\ UNCHANGED <<users, joined, role, pairs, invites, oidcStates, req>>

\* handleDeleteTenant, by a platform administrator (no code grants that role:
\* its token comes from outside); members, refresh tokens and invites go by
\* ON DELETE CASCADE.  Access tokens stay valid.
DeleteTenant(t) ==
    /\ Exists(t)
    /\ tenants' = [tenants EXCEPT ![t] = "gone"]
    /\ joined' = [e \in Emails |-> [joined[e] EXCEPT ![t] = 0]]
    /\ role' = [e \in Emails |-> [role[e] EXCEPT ![t] = None]]
    /\ pairs' = [p \in PairIds |-> IF pairs[p].tenant = t
                   THEN [pairs[p] EXCEPT !.state = "gone"] ELSE pairs[p]]
    /\ invites' = [i \in InviteIds |-> IF invites[i].tenant = t
                     THEN [invites[i] EXCEPT !.state = "gone"] ELSE invites[i]]
    /\ UNCHANGED <<users, oidcStates, req>>

ExpireToken(p) ==
    /\ pairs[p].state = "live"
    /\ pairs' = [pairs EXCEPT ![p].state = "dead"]
    /\ UNCHANGED <<users, tenants, joined, role, invites, oidcStates, req>>

ExpireInvite(i) ==
    /\ invites[i].state = "pending"
    /\ invites' = [invites EXCEPT ![i].state = "expired"]
    /\ UNCHANGED <<users, tenants, joined, role, pairs, oidcStates, req>>

\* A statement of the request fails or is refused, its context is cancelled,
\* or the gateway dies: what the earlier statements wrote stays.
Fail(r) ==
    /\ req[r].pc # "idle" /\ Done(r)
    /\ UNCHANGED <<users, tenants, joined, role, pairs, invites, oidcStates>>

-----------------------------------------------------------------------------
RequestStep(r) ==
    \/ StartRegister(r) \/ StartJoin(r) \/ StartLogin(r)
    \/ StartWithToken(r, "refresh") \/ StartWithToken(r, "logout")
    \/ StartAccept(r) \/ handleOIDCCallback(r)
    \/ RegisterLookup(r) \/ RegisterCreate(r) \/ SetPasswordHash(r)
    \/ CreateOrg(r) \/ AddOwner(r) \/ PrimaryTenant(r) \/ IssuePair(r)
    \/ LoginLookup(r) \/ TokenLookup(r) \/ Revoke(r)
    \/ FindByIdentity(r) \/ FindByEmail(r) \/ LinkIdentity(r) \/ InsertOIDCUser(r)
    \/ JoinOrg(r) \/ AcceptInvite(r) \/ Fail(r)

Next ==
    \/ \E r \in Requests : RequestStep(r)
    \/ \E st \in StateIds : AuthURL(st)
    \/ \E p \in PairIds, i \in InviteIds, ro \in InviteRoles : CreateInvite(p, i, ro)
    \/ \E p \in PairIds, t \in TenantIds, s \in Slugs : CreateTenant(p, t, s)
    \/ \E t \in TenantIds : DeleteTenant(t)
    \/ \E p \in PairIds : ExpireToken(p)
    \/ \E i \in InviteIds : ExpireInvite(i)

Spec == Init /\ [][Next]_vars

-----------------------------------------------------------------------------
\* Every refresh token that can still be exchanged belongs to a user who is a
\* member of the tenant it names: whichever of Register, Login, LoginOIDC and
\* RefreshToken issued it, however their statements interleaved with the
\* deletion of the tenant, and whatever statement failed.
SessionsOfMembers ==
    \A p \in PairIds : TokenUsable(p) =>
        /\ Exists(pairs[p].tenant)
        /\ Member(pairs[p].user, pairs[p].tenant)

\* A refresh token that was exchanged for a new pair cannot be exchanged by
\* any later request, also when two requests presented it at the same time
\* and both got a pair (RefreshToken revokes before it issues).
RotationRetires ==
    \A p, q \in PairIds : pairs[q].parent = p => ~TokenUsable(p)

\* An invite is marked accepted only after an account has joined its
\* organisation through it, and that account is still a member: the order of
\* the two statements of handleAcceptInvite, under any failure between them.
AcceptedJoined ==
    \A i \in InviteIds : invites[i].state = "accepted" =>
        \E e \in invites[i].usedBy : Member(e, invites[i].tenant)

=============================================================================
