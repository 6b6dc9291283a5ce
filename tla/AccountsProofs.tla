--------------------------- MODULE AccountsProofs ---------------------------
(***************************************************************************)
(* Proofs about Accounts for every set of addresses, tenants, token pairs,  *)
(* invites and overlapping requests, with a failure after any statement.    *)
(***************************************************************************)
EXTENDS Accounts, TLAPS

tables == <<users, tenants, joined, role, pairs, invites, oidcStates>>

-----------------------------------------------------------------------------
(* The inductive invariant behind the types *)

TokenOps == {"refresh", "logout"}
InviteOps == {"join", "accept"}
OrgOps == {"register", "join", "oidc"}

\* What a request in flight carries: RefreshToken and Logout a pair that was issued
\* once, every other operation an account; the ones with an invite one that was sent.
Shaped(q) ==
    /\ q.op \in TokenOps => /\ q.pair \in PairIds
                            /\ q.pc \in {"lookup", "revoke", "issue"}
                            /\ q.pc = "issue" => q.user \in Emails
    /\ q.op \notin TokenOps => /\ q.pair = None /\ q.user \in Emails
                               /\ q.pc # "revoke"
    /\ q.op \in InviteOps => q.invite \in InviteIds
    /\ q.op \in OrgOps => q.slug \in Slugs
    /\ q.pc \in {"joinOrg", "accept"} => q.op \in InviteOps
    /\ q.pc = "tenant" => q.op \in OrgOps

Referring(q) ==
    /\ q.op \in TokenOps => pairs[q.pair].state # "unborn"
    /\ q.op \in InviteOps => invites[q.invite].state # "unborn"

RequestOK(q) == q \in Request /\ (q.pc # "idle" => Shaped(q) /\ Referring(q))

\* A pair that was issued names an account and a tenant, one that was not names none.
PairsNamed ==
    \A p \in PairIds : IF pairs[p].state = "unborn" THEN pairs[p].tenant = None
                       ELSE pairs[p].user \in Emails /\ pairs[p].tenant \in TenantIds

TablesOK ==
    /\ users \in [Emails -> UserRow]
    /\ tenants \in [TenantIds -> Slugs \cup {"unborn", "gone"}]
    /\ joined \in [Emails -> [TenantIds -> Nat]]
    /\ role \in [Emails -> [TenantIds -> Roles \cup {None}]]
    /\ pairs \in [PairIds -> PairRow]
    /\ invites \in [InviteIds -> InviteRow]
    /\ oidcStates \subseteq StateIds
    /\ PairsNamed

RequestsOK == req \in [Requests -> Request] /\ \A r \in Requests : RequestOK(req[r])

TypeInv == TablesOK /\ RequestsOK

\* No row that was created is ever created again.
Kept ==
    /\ \A p \in PairIds : pairs[p].state # "unborn" => pairs'[p].state # "unborn"
    /\ \A i \in InviteIds : invites[i].state # "unborn" => invites'[i].state # "unborn"

\* The types follow from the invariant.
LEMMA TypeInvType == TypeInv => TypeOK
  BY DEF TypeInv, TablesOK, RequestsOK, TypeOK

\* A request starts and ends with an empty record.
LEMMA IdleType == IdleRequest \in Request /\ IdleRequest.pc = "idle"
  BY DEF IdleRequest, Request

\* Replacing the record of one request by a proper one keeps all of them proper.
LEMMA RequestsKept ==
  ASSUME RequestsOK, Kept, NEW r \in Requests, NEW q,
         RequestOK(q), req' = [req EXCEPT ![r] = q]
  PROVE  RequestsOK'
<1>1. req' \in [Requests -> Request]
  BY DEF RequestsOK, RequestOK
<1>2. ASSUME NEW x \in Requests PROVE RequestOK(req[x])' 
  <2>1. RequestOK(req'[x])
    BY DEF RequestsOK
  <2>2. QED
    BY <2>1 DEF RequestOK, Shaped, Referring, Kept, TokenOps, InviteOps
<1>3. QED
  BY <1>1, <1>2 DEF RequestsOK

\* A step that leaves the requests alone keeps them proper.
LEMMA RequestsStay ==
  ASSUME RequestsOK, Kept, UNCHANGED req
  PROVE  RequestsOK'
<1>1. ASSUME NEW x \in Requests PROVE RequestOK(req[x])' 
  <2>1. RequestOK(req[x])
    BY DEF RequestsOK
  <2>2. QED
    BY <2>1 DEF RequestOK, Shaped, Referring, Kept, TokenOps, InviteOps
<1>2. QED
  BY <1>1 DEF RequestsOK

\* Done and Fail.
LEMMA DoneKept ==
  ASSUME RequestsOK, Kept, NEW r \in Requests, Done(r)
  PROVE  RequestsOK'
<1>1. RequestOK(IdleRequest)
  BY IdleType DEF RequestOK
<1>2. QED
  BY <1>1, RequestsKept DEF Done

\* A request that goes on to its next statement, one that its operation has.
LEMMA GotoKept ==
  ASSUME RequestsOK, Kept, NEW r \in Requests, NEW pc \in Steps, Goto(r, pc),
         req[r].pc # "idle",
         req[r].op \in TokenOps <=> pc = "revoke",
         pc \in {"joinOrg", "accept"} => req[r].op \in InviteOps,
         pc = "tenant" => req[r].op \in OrgOps
  PROVE  RequestsOK'
<1> DEFINE q == [req[r] EXCEPT !.pc = pc]
<1>1. req[r] \in Request /\ Shaped(req[r]) /\ Referring(req[r])
  BY DEF RequestsOK, RequestOK
<1>2. q \in Request /\ q.pc = pc /\ q.op = req[r].op /\ q.pair = req[r].pair
      /\ q.invite = req[r].invite /\ q.user = req[r].user /\ q.slug = req[r].slug
  BY <1>1 DEF Request
<1>3. req' = [req EXCEPT ![r] = q]
  BY DEF Goto
<1> HIDE DEF q
<1>4. RequestOK(q)
  BY <1>1, <1>2 DEF RequestOK, Shaped, Referring
<1>5. QED
  BY <1>3, <1>4, RequestsKept

-----------------------------------------------------------------------------
(* The types are invariant *)

LEMMA InitTypeInv == Init => TypeInv
  BY NoneAssumption, IdleType
  DEF Init, TypeInv, TablesOK, RequestsOK, RequestOK, PairsNamed, UserRow, PairRow,
      InviteRow, TokenStates, Roles

\* What is in the empty record.
LEMMA IdleFields == IdleRequest.pair = None /\ IdleRequest.op = None
  BY DEF IdleRequest

\* Rows that no statement of the step touches are kept.
LEMMA KeptSame == UNCHANGED <<pairs, invites>> => Kept
  BY DEF Kept

\* The first step of a request, which writes nothing.
LEMMA StartsOK ==
  ASSUME RequestsOK, TablesOK, NEW r \in Requests, UNCHANGED <<pairs, invites>>,
         \/ StartRegister(r) \/ StartJoin(r) \/ StartLogin(r)
         \/ StartWithToken(r, "refresh") \/ StartWithToken(r, "logout")
         \/ StartAccept(r) \/ handleOIDCCallback(r)
  PROVE  RequestsOK'
<1> USE DEF TokenOps, InviteOps, OrgOps
<1>0. Kept
  BY KeptSame
<1>1. CASE StartRegister(r)
  <2>1. PICK e \in Emails, s \in Slugs :
          req' = [req EXCEPT ![r] = [IdleRequest EXCEPT !.op = "register",
                    !.pc = "lookup", !.user = Lower[e], !.slug = s]]
    BY <1>1 DEF StartRegister, Begin
  <2> DEFINE q == [IdleRequest EXCEPT !.op = "register", !.pc = "lookup",
                     !.user = Lower[e], !.slug = s]
  <2>2. Lower[e] \in Emails
    BY LowerAssumption
  <2>3. q \in Request /\ q.op = "register" /\ q.pc = "lookup" /\ q.user = Lower[e]
        /\ q.slug = s /\ q.pair = None
    BY <2>2, IdleType, IdleFields DEF Request, Ops, Steps
  <2> HIDE DEF q
  <2>4. RequestOK(q)
    BY <2>2, <2>3 DEF RequestOK, Shaped, Referring
  <2>5. QED
    BY <1>0, <2>1, <2>4, RequestsKept DEF q
<1>2. CASE StartJoin(r)
  <2>1. PICK e \in Emails, s \in Slugs, i \in InviteIds :
          /\ InviteUsable(i)
          /\ req' = [req EXCEPT ![r] = [IdleRequest EXCEPT !.op = "join",
                       !.pc = "lookup", !.user = Lower[e], !.slug = s, !.invite = i]]
    BY <1>2 DEF StartJoin, Begin
  <2> DEFINE q == [IdleRequest EXCEPT !.op = "join", !.pc = "lookup",
                     !.user = Lower[e], !.slug = s, !.invite = i]
  <2>2. Lower[e] \in Emails
    BY LowerAssumption
  <2>3. q \in Request /\ q.op = "join" /\ q.pc = "lookup" /\ q.user = Lower[e]
        /\ q.slug = s /\ q.invite = i /\ q.pair = None
    BY <2>2, IdleType, IdleFields DEF Request, Ops, Steps
  <2> HIDE DEF q
  <2>4. RequestOK(q)
    BY <2>1, <2>2, <2>3 DEF RequestOK, Shaped, Referring, InviteUsable
  <2>5. QED
    BY <1>0, <2>1, <2>4, RequestsKept DEF q
<1>3. CASE StartLogin(r)
  <2>1. PICK e \in Emails :
          req' = [req EXCEPT ![r] = [IdleRequest EXCEPT !.op = "login",
                    !.pc = "lookup", !.user = Lower[e]]]
    BY <1>3 DEF StartLogin, Begin
  <2> DEFINE q == [IdleRequest EXCEPT !.op = "login", !.pc = "lookup",
                     !.user = Lower[e]]
  <2>2. Lower[e] \in Emails
    BY LowerAssumption
  <2>3. q \in Request /\ q.op = "login" /\ q.pc = "lookup" /\ q.user = Lower[e]
        /\ q.pair = None
    BY <2>2, IdleType, IdleFields DEF Request, Ops, Steps
  <2> HIDE DEF q
  <2>4. RequestOK(q)
    BY <2>2, <2>3 DEF RequestOK, Shaped, Referring
  <2>5. QED
    BY <1>0, <2>1, <2>4, RequestsKept DEF q
<1>4. ASSUME NEW op \in TokenOps, StartWithToken(r, op) PROVE RequestsOK'
  <2>1. PICK p \in PairIds :
          /\ pairs[p].state # "unborn"
          /\ req' = [req EXCEPT ![r] = [IdleRequest EXCEPT !.op = op,
                       !.pc = "lookup", !.pair = p]]
    BY <1>4 DEF StartWithToken, Begin
  <2> DEFINE q == [IdleRequest EXCEPT !.op = op, !.pc = "lookup", !.pair = p]
  <2>2. q \in Request /\ q.op = op /\ q.pc = "lookup" /\ q.pair = p
    BY IdleType DEF Request, Ops, Steps
  <2> HIDE DEF q
  <2>3. RequestOK(q)
    BY <2>1, <2>2 DEF RequestOK, Shaped, Referring
  <2>4. QED
    BY <1>0, <2>1, <2>3, RequestsKept DEF q
<1>5. CASE StartAccept(r)
  <2>1. PICK p \in PairIds, i \in InviteIds :
          /\ Authenticated(p) /\ InviteUsable(i)
          /\ req' = [req EXCEPT ![r] = [IdleRequest EXCEPT !.op = "accept",
                       !.pc = "joinOrg", !.user = pairs[p].user, !.invite = i]]
    BY <1>5 DEF StartAccept, Begin
  <2> DEFINE u == pairs[p].user
             q == [IdleRequest EXCEPT !.op = "accept", !.pc = "joinOrg",
                     !.user = u, !.invite = i]
  <2>2. u \in Emails
    BY <2>1 DEF TablesOK, PairsNamed, Authenticated
  <2> HIDE DEF u
  <2>3. q \in Request /\ q.op = "accept" /\ q.pc = "joinOrg" /\ q.user = u
        /\ q.invite = i /\ q.pair = None
    BY <2>2, IdleType, IdleFields DEF Request, Ops, Steps
  <2> HIDE DEF q
  <2>4. RequestOK(q)
    BY <2>1, <2>2, <2>3 DEF RequestOK, Shaped, Referring, InviteUsable
  <2>5. QED
    BY <1>0, <2>1, <2>4, RequestsKept DEF q, u
<1>6. CASE handleOIDCCallback(r)
  <2>1. CASE UNCHANGED req
    BY <1>0, <2>1, RequestsStay
  <2>2. CASE \E id \in Identities, e \in Emails, s \in Slugs :
               Begin(r, [IdleRequest EXCEPT !.op = "oidc", !.pc = "byIdentity",
                           !.ident = id, !.user = e, !.slug = s])
    <3>1. PICK id \in Identities, e \in Emails, s \in Slugs :
            req' = [req EXCEPT ![r] = [IdleRequest EXCEPT !.op = "oidc",
                      !.pc = "byIdentity", !.ident = id, !.user = e, !.slug = s]]
      BY <2>2 DEF Begin
    <3> DEFINE q == [IdleRequest EXCEPT !.op = "oidc", !.pc = "byIdentity",
                       !.ident = id, !.user = e, !.slug = s]
    <3>2. q \in Request /\ q.op = "oidc" /\ q.pc = "byIdentity" /\ q.user = e
          /\ q.slug = s /\ q.pair = None
      BY IdleType, IdleFields DEF Request, Ops, Steps
    <3> HIDE DEF q
    <3>3. RequestOK(q)
      BY <3>2 DEF RequestOK, Shaped, Referring
    <3>4. QED
      BY <1>0, <3>1, <3>3, RequestsKept DEF q
  <2>3. QED
    BY <1>6, <2>1, <2>2 DEF handleOIDCCallback
<1>7. QED
  BY <1>1, <1>2, <1>3, <1>4, <1>5, <1>6

\* A later step of a request that writes nothing.
LEMMA ReadsOK ==
  ASSUME RequestsOK, TablesOK, NEW r \in Requests, UNCHANGED tables,
         \/ RegisterLookup(r) \/ PrimaryTenant(r) \/ LoginLookup(r) \/ TokenLookup(r)
         \/ FindByIdentity(r) \/ FindByEmail(r) \/ Fail(r)
  PROVE  RequestsOK'
<1> USE DEF TokenOps, InviteOps, OrgOps, Steps
<1>0. Kept /\ req[r] \in Request /\ RequestOK(req[r])
  BY KeptSame DEF tables, RequestsOK
<1>1. CASE RegisterLookup(r)
  <2>1. CASE Done(r)
    BY <1>0, <2>1, DoneKept
  <2>2. CASE Goto(r, "create")
    BY <1>0, <1>1, <2>2, GotoKept DEF RegisterLookup, Registering
  <2>3. QED
    BY <1>1, <2>1, <2>2 DEF RegisterLookup
<1>2. CASE PrimaryTenant(r)
  <2>0. /\ req[r].op \notin TokenOps /\ req[r].user \in Emails /\ req[r].pair = None
        /\ Shaped(req[r]) /\ Referring(req[r])
    BY <1>0, <1>2 DEF PrimaryTenant, RequestOK, Shaped
  <2>1. ASSUME NEW t \in TenantIds \cup {None}, NEW ro \in Roles \cup {None},
               req' = [req EXCEPT ![r].pc = "issue", ![r].tenant = t, ![r].role = ro]
        PROVE  RequestsOK'
    <3> DEFINE q == [req[r] EXCEPT !.pc = "issue", !.tenant = t, !.role = ro]
    <3>1. q \in Request
      BY <1>0, <2>1 DEF Request
    <3>2. q.pc = "issue" /\ q.op = req[r].op /\ q.pair = req[r].pair
          /\ q.invite = req[r].invite /\ q.user = req[r].user /\ q.slug = req[r].slug
      BY <1>0 DEF Request
    <3>3. req' = [req EXCEPT ![r] = q]
      BY <2>1
    <3> HIDE DEF q
    <3>4. RequestOK(q)
      BY <2>0, <3>1, <3>2 DEF RequestOK, Shaped, Referring
    <3>5. QED
      BY <1>0, <3>3, <3>4, RequestsKept
  <2>2. \A t \in TenantIds : role[req[r].user][t] \in Roles \cup {None}
    BY <2>0 DEF TablesOK
  <2>3. "member" \in Roles
    BY DEF Roles
  <2>4. QED
    BY <1>2, <2>1, <2>2, <2>3 DEF PrimaryTenant
<1>3. CASE LoginLookup(r)
  BY <1>0, <1>3, GotoKept DEF LoginLookup, At
<1>4. CASE TokenLookup(r)
  BY <1>0, <1>4, GotoKept DEF TokenLookup
<1>5. CASE FindByIdentity(r)
  <2>0. req[r].pc # "idle" /\ req[r].op = "oidc" /\ Shaped(req[r]) /\ Referring(req[r])
    BY <1>0, <1>5 DEF FindByIdentity, At, RequestOK
  <2>1. ASSUME NEW u \in Emails, req' = [req EXCEPT ![r].user = u, ![r].pc = "primary"]
        PROVE  RequestsOK'
    <3> DEFINE q == [req[r] EXCEPT !.user = u, !.pc = "primary"]
    <3>1. q \in Request /\ q.pc = "primary" /\ q.op = req[r].op /\ q.pair = req[r].pair
          /\ q.invite = req[r].invite /\ q.user = u /\ q.slug = req[r].slug
      BY <1>0 DEF Request
    <3>2. req' = [req EXCEPT ![r] = q]
      BY <2>1
    <3> HIDE DEF q
    <3>3. RequestOK(q)
      BY <2>0, <3>1 DEF RequestOK, Shaped, Referring
    <3>4. QED
      BY <1>0, <3>2, <3>3, RequestsKept
  <2>2. CASE Goto(r, "byEmail")
    BY <1>0, <2>0, <2>2, GotoKept
  <2>3. QED
    BY <1>5, <2>1, <2>2 DEF FindByIdentity
<1>6. CASE FindByEmail(r)
  <2>1. ASSUME NEW pc \in {"link", "insert"}, Goto(r, pc) PROVE RequestsOK'
    BY <1>0, <1>6, <2>1, GotoKept DEF FindByEmail, At
  <2>2. QED
    BY <1>6, <2>1 DEF FindByEmail
<1>7. CASE Fail(r)
  BY <1>0, <1>7, DoneKept DEF Fail
<1>8. QED
  BY <1>1, <1>2, <1>3, <1>4, <1>5, <1>6, <1>7

\* AddToTenant and the deletion of a tenant leave memberships that have their types.
LEMMA MembershipType ==
  ASSUME TablesOK, NEW t \in TenantIds, NEW e \in Emails, NEW ro \in Roles \cup {None},
         AddToTenant(t, e, ro)
  PROVE  /\ joined' \in [Emails -> [TenantIds -> Nat]]
         /\ role' \in [Emails -> [TenantIds -> Roles \cup {None}]]
<1>1. [x \in TenantIds |-> IF x = t THEN 1
                           ELSE IF Member(e, x) THEN joined[e][x] + 1 ELSE 0]
      \in [TenantIds -> Nat]
  BY DEF TablesOK
<1>2. QED
  BY <1>1 DEF TablesOK, AddToTenant

\* The statements of a request that write.
LEMMA WritesOK ==
  ASSUME TypeInv, NEW r \in Requests,
         \/ RegisterCreate(r) \/ SetPasswordHash(r) \/ CreateOrg(r) \/ AddOwner(r)
         \/ IssuePair(r) \/ Revoke(r) \/ LinkIdentity(r) \/ InsertOIDCUser(r)
         \/ JoinOrg(r) \/ AcceptInvite(r)
  PROVE  TypeInv'
<1> USE DEF TokenOps, InviteOps, OrgOps
<1>0. /\ TablesOK /\ RequestsOK
      /\ req[r] \in Request
      /\ req[r].pc # "idle" => Shaped(req[r]) /\ Referring(req[r])
  BY DEF TypeInv, RequestsOK, RequestOK
<1>1. CASE RegisterCreate(r)
  <2>1. users' \in [Emails -> UserRow]
    BY <1>0, <1>1 DEF RegisterCreate, TablesOK, UserRow
  <2>2. RequestsOK'
    BY <1>0, <1>1, KeptSame, GotoKept DEF RegisterCreate, Registering, Steps
  <2>3. QED
    BY <1>0, <1>1, <2>1, <2>2 DEF RegisterCreate, TypeInv, TablesOK, PairsNamed
<1>2. CASE SetPasswordHash(r)
  <2>1. users' \in [Emails -> UserRow]
    BY <1>0, <1>2 DEF SetPasswordHash, TablesOK, UserRow
  <2>2. RequestsOK'
    BY <1>0, <1>2, KeptSame, GotoKept DEF SetPasswordHash, Registering, Steps
  <2>3. QED
    BY <1>0, <1>2, <2>1, <2>2 DEF SetPasswordHash, TypeInv, TablesOK, PairsNamed
<1>3. CASE CreateOrg(r)
  <2>1. PICK t \in TenantIds :
          /\ CreateTenantRow(t, req[r].slug)
          /\ req' = [req EXCEPT ![r].pc = "owner", ![r].tenant = t]
    BY <1>3 DEF CreateOrg
  <2>2. req[r].slug \in Slugs /\ req[r].pc # "idle"
    BY <1>0, <1>3 DEF CreateOrg, Shaped
  <2>3. tenants' \in [TenantIds -> Slugs \cup {"unborn", "gone"}]
    BY <1>0, <2>1, <2>2 DEF CreateTenantRow, TablesOK
  <2> DEFINE q == [req[r] EXCEPT !.pc = "owner", !.tenant = t]
  <2>4. q \in Request
    BY <1>0 DEF Request, Steps
  <2>5. q.pc = "owner" /\ q.op = req[r].op /\ q.pair = req[r].pair
        /\ q.invite = req[r].invite /\ q.user = req[r].user /\ q.slug = req[r].slug
    BY <1>0 DEF Request
  <2>6. req' = [req EXCEPT ![r] = q]
    BY <2>1
  <2> HIDE DEF q
  <2>7. RequestOK(q)
    BY <1>0, <1>3, <2>2, <2>4, <2>5 DEF RequestOK, Shaped, Referring, CreateOrg
  <2>8. RequestsOK'
    BY <1>0, <1>3, <2>6, <2>7, KeptSame, RequestsKept DEF CreateOrg
  <2>9. QED
    BY <1>0, <1>3, <2>3, <2>8 DEF CreateOrg, TypeInv, TablesOK, PairsNamed
<1>4. CASE AddOwner(r)
  <2>1. /\ Shaped(req[r]) /\ Referring(req[r])
        /\ req[r].op \notin TokenOps /\ req[r].user \in Emails /\ req[r].tenant \in TenantIds
        /\ "owner" \in Roles /\ AddToTenant(req[r].tenant, req[r].user, "owner")
    BY <1>0, <1>4 DEF AddOwner, Exists, Shaped, Roles
  <2>2. /\ joined' \in [Emails -> [TenantIds -> Nat]]
        /\ role' \in [Emails -> [TenantIds -> Roles \cup {None}]]
    BY <1>0, <2>1, MembershipType
  <2> DEFINE pc == IF req[r].op = "oidc" THEN "primary" ELSE "issue"
             q == [req[r] EXCEPT !.pc = pc, !.role = "owner"]
  <2>3. pc \in {"primary", "issue"}
    OBVIOUS
  <2>4. req' = [req EXCEPT ![r] = q]
    BY <1>4 DEF AddOwner
  <2> HIDE DEF pc
  <2>5. q \in Request
    BY <1>0, <2>1, <2>3 DEF Request, Steps
  <2>6. q.pc = pc /\ q.op = req[r].op /\ q.pair = req[r].pair
        /\ q.invite = req[r].invite /\ q.user = req[r].user /\ q.slug = req[r].slug
    BY <1>0 DEF Request
  <2> HIDE DEF q
  <2>7. RequestOK(q)
    BY <1>0, <2>1, <2>3, <2>5, <2>6 DEF RequestOK, Shaped, Referring
  <2>8. RequestsOK'
    BY <1>0, <1>4, <2>4, <2>7, KeptSame, RequestsKept DEF AddOwner
  <2>9. QED
    BY <1>0, <1>4, <2>2, <2>8 DEF AddOwner, TypeInv, TablesOK, PairsNamed
<1>5. CASE IssuePair(r)
  <2>1. PICK p \in PairIds :
          /\ pairs[p].state = "unborn"
          /\ pairs' = [pairs EXCEPT ![p] =
               [state |-> "live", user |-> req[r].user, tenant |-> req[r].tenant,
                role |-> req[r].role, parent |-> req[r].pair]]
    BY <1>5 DEF IssuePair
  <2>2. req[r].user \in Emails /\ req[r].tenant \in TenantIds
        /\ req[r].op \in Ops \cup {None}
    BY <1>0, <1>5 DEF IssuePair, Exists, Shaped, Request
  <2> DEFINE row == [state |-> "live", user |-> req[r].user, tenant |-> req[r].tenant,
                     role |-> req[r].role, parent |-> req[r].pair]
  <2>3. row \in PairRow /\ row.state = "live" /\ row.user \in Emails
        /\ row.tenant \in TenantIds
    BY <1>0, <2>2 DEF PairRow, TokenStates, Request
  <2>4. pairs' = [pairs EXCEPT ![p] = row]
    BY <2>1
  <2> HIDE DEF row
  <2>5. pairs' \in [PairIds -> PairRow] /\ PairsNamed'
    BY <1>0, <2>3, <2>4 DEF TablesOK, PairsNamed
  <2>6. Kept
    BY <1>0, <1>5, <2>3, <2>4 DEF Kept, TablesOK, IssuePair
  <2>7. RequestsOK'
    <3>1. CASE req[r].op = "join" /\ Goto(r, "joinOrg")
      BY <1>0, <1>5, <2>6, <3>1, GotoKept DEF IssuePair, Steps
    <3>2. CASE Done(r)
      BY <1>0, <2>6, <3>2, DoneKept
    <3>3. QED
      BY <1>5, <3>1, <3>2 DEF IssuePair
  <2>8. QED
    BY <1>0, <1>5, <2>5, <2>7 DEF IssuePair, TypeInv, TablesOK
<1>6. CASE Revoke(r)
  <2> DEFINE p == req[r].pair
  <2>1. /\ Shaped(req[r]) /\ Referring(req[r])
        /\ req[r].op \in TokenOps /\ p \in PairIds /\ pairs[p].state # "unborn"
        /\ pairs[p].user \in Emails /\ pairs[p].tenant \in TenantIds
        /\ pairs[p] \in PairRow
    BY <1>0, <1>6 DEF Revoke, Shaped, Referring, TablesOK, PairsNamed
  <2>2. [pairs[p] EXCEPT !.state = "dead"] \in PairRow
        /\ [pairs[p] EXCEPT !.state = "dead"].state = "dead"
        /\ [pairs[p] EXCEPT !.state = "dead"].user = pairs[p].user
        /\ [pairs[p] EXCEPT !.state = "dead"].tenant = pairs[p].tenant
    BY <2>1 DEF PairRow, TokenStates
  <2>3. pairs' \in [PairIds -> PairRow] /\ PairsNamed' /\ Kept
    BY <1>0, <1>6, <2>1, <2>2 DEF Revoke, TablesOK, PairsNamed, Kept
  <2>4. ASSUME req' = [req EXCEPT ![r].pc = "issue", ![r].user = pairs[p].user,
                         ![r].tenant = pairs[p].tenant, ![r].role = "member"]
        PROVE  RequestsOK'
    <3> DEFINE u == pairs[p].user  t == pairs[p].tenant
               q == [req[r] EXCEPT !.pc = "issue", !.user = u, !.tenant = t,
                                   !.role = "member"]
    <3>1. req' = [req EXCEPT ![r] = q]
      BY <2>4
    <3>2. u \in Emails /\ t \in TenantIds /\ "member" \in Roles
      BY <2>1 DEF Roles
    <3> HIDE DEF u, t
    <3>3. q \in Request
      BY <1>0, <3>2 DEF Request, Steps
    <3>4. q.pc = "issue" /\ q.op = req[r].op /\ q.pair = p
          /\ q.invite = req[r].invite /\ q.user = u /\ q.slug = req[r].slug
      BY <1>0 DEF Request
    <3> HIDE DEF q, p
    <3>5. RequestOK(q)
      BY <2>1, <3>2, <3>3, <3>4 DEF RequestOK, Shaped, Referring, p
    <3>6. QED
      BY <1>0, <2>3, <3>1, <3>5, RequestsKept
  <2>5. RequestsOK'
    BY <1>0, <1>6, <2>3, <2>4, DoneKept DEF Revoke
  <2>6. QED
    BY <1>0, <1>6, <2>3, <2>5 DEF Revoke, TypeInv, TablesOK
<1>7. CASE LinkIdentity(r)
  <2>0. req[r].ident \in Identities \cup {None}
    BY <1>0 DEF Request
  <2>1. users' \in [Emails -> UserRow]
    BY <1>0, <1>7, <2>0 DEF LinkIdentity, TablesOK, UserRow
  <2>2. RequestsOK'
    BY <1>0, <1>7, KeptSame, GotoKept DEF LinkIdentity, At, Steps
  <2>3. QED
    BY <1>0, <1>7, <2>1, <2>2 DEF LinkIdentity, TypeInv, TablesOK, PairsNamed
<1>8. CASE InsertOIDCUser(r)
  <2>0. req[r].ident \in Identities \cup {None}
    BY <1>0 DEF Request
  <2>1. users' \in [Emails -> UserRow]
    BY <1>0, <1>8, <2>0 DEF InsertOIDCUser, TablesOK, UserRow
  <2>2. RequestsOK'
    BY <1>0, <1>8, KeptSame, GotoKept DEF InsertOIDCUser, At, Steps
  <2>3. QED
    BY <1>0, <1>8, <2>1, <2>2 DEF InsertOIDCUser, TypeInv, TablesOK, PairsNamed
<1>9. CASE JoinOrg(r)
  <2> DEFINE i == req[r].invite
  <2>1. /\ req[r].op \in InviteOps /\ i \in InviteIds /\ req[r].user \in Emails
        /\ invites[i] \in InviteRow /\ invites[i].tenant \in TenantIds
        /\ invites[i].role \in Roles \cup {None}
    BY <1>0, <1>9 DEF JoinOrg, Shaped, Exists, TablesOK, InviteRow
  <2>2. /\ joined' \in [Emails -> [TenantIds -> Nat]]
        /\ role' \in [Emails -> [TenantIds -> Roles \cup {None}]]
    BY <1>0, <1>9, <2>1, MembershipType DEF JoinOrg
  <2> DEFINE row == [invites[i] EXCEPT !.usedBy = @ \cup {req[r].user}]
  <2>3. invites' = [invites EXCEPT ![i] = row]
    BY <1>9 DEF JoinOrg
  <2>4. row \in InviteRow /\ row.state = invites[i].state
    BY <2>1 DEF InviteRow
  <2> HIDE DEF row
  <2>5. invites' \in [InviteIds -> InviteRow] /\ Kept
    BY <1>0, <1>9, <2>1, <2>3, <2>4 DEF Kept, TablesOK, JoinOrg
  <2>6. RequestsOK'
    BY <1>0, <1>9, <2>1, <2>5, GotoKept DEF JoinOrg, Steps
  <2>7. QED
    BY <1>0, <1>9, <2>2, <2>5, <2>6 DEF JoinOrg, TypeInv, TablesOK, PairsNamed
<1>10. CASE AcceptInvite(r)
  <2> DEFINE i == req[r].invite
             row == [invites[i] EXCEPT !.state = "accepted"]
  <2>1. i \in InviteIds /\ invites[i] \in InviteRow
    BY <1>0, <1>10 DEF AcceptInvite, Shaped, TablesOK
  <2>2. row \in InviteRow /\ row.state = "accepted"
    BY <2>1 DEF InviteRow
  <2>3. invites' = [invites EXCEPT ![i] = row] \/ UNCHANGED invites
    BY <1>10 DEF AcceptInvite
  <2> HIDE DEF row
  <2>4. invites' \in [InviteIds -> InviteRow] /\ Kept
    BY <1>0, <1>10, <2>1, <2>2, <2>3 DEF Kept, TablesOK, AcceptInvite
  <2>5. RequestsOK'
    BY <1>0, <1>10, <2>4, DoneKept DEF AcceptInvite
  <2>6. QED
    BY <1>0, <1>10, <2>4, <2>5 DEF AcceptInvite, TypeInv, TablesOK, PairsNamed
<1>11. QED
  BY <1>1, <1>2, <1>3, <1>4, <1>5, <1>6, <1>7, <1>8, <1>9, <1>10

\* Every step keeps the types: requests by the lemmas above, then what is one statement.
LEMMA StepTypeInv == TypeInv /\ [Next]_vars => TypeInv'
<1> SUFFICES ASSUME TypeInv, [Next]_vars PROVE TypeInv'
  OBVIOUS
<1>0. TablesOK /\ RequestsOK
  BY DEF TypeInv
<1>1. ASSUME NEW r \in Requests, RequestStep(r) PROVE TypeInv'
  <2>1. CASE \/ StartRegister(r) \/ StartJoin(r) \/ StartLogin(r)
             \/ StartWithToken(r, "refresh") \/ StartWithToken(r, "logout")
             \/ StartAccept(r) \/ handleOIDCCallback(r)
    <3>1. /\ UNCHANGED <<users, tenants, joined, role, pairs, invites>>
          /\ oidcStates' \subseteq oidcStates
      BY <2>1 DEF StartRegister, StartJoin, StartLogin, StartWithToken, StartAccept,
         handleOIDCCallback, Exchange
    <3>2. RequestsOK'
      BY <1>0, <2>1, <3>1, StartsOK
    <3>3. QED
      BY <1>0, <3>1, <3>2 DEF TypeInv, TablesOK, PairsNamed
  <2>2. CASE \/ RegisterLookup(r) \/ PrimaryTenant(r) \/ LoginLookup(r)
             \/ TokenLookup(r) \/ FindByIdentity(r) \/ FindByEmail(r) \/ Fail(r)
    <3>1. UNCHANGED tables
      BY <2>2 DEF RegisterLookup, PrimaryTenant, LoginLookup, TokenLookup,
         FindByIdentity, FindByEmail, Fail, tables
    <3>2. RequestsOK'
      BY <1>0, <2>2, <3>1, ReadsOK
    <3>3. QED
      BY <1>0, <3>1, <3>2 DEF TypeInv, TablesOK, PairsNamed, tables
  <2>3. QED
    BY <1>1, <2>1, <2>2, WritesOK DEF RequestStep
<1>2. ASSUME NEW st \in StateIds, AuthURL(st) PROVE TypeInv'
  BY <1>0, <1>2, KeptSame, RequestsStay DEF AuthURL, TypeInv, TablesOK, PairsNamed
<1>3. ASSUME NEW p \in PairIds, NEW i \in InviteIds, NEW ro \in InviteRoles,
             CreateInvite(p, i, ro)
      PROVE  TypeInv'
  <2> DEFINE row == [state |-> "pending", tenant |-> pairs[p].tenant, role |-> ro,
                     usedBy |-> {}]
  <2>1. row \in InviteRow /\ row.state # "unborn"
    BY <1>0, <1>3 DEF InviteRow, CreateInvite, Exists, Roles
  <2>2. invites' = [invites EXCEPT ![i] = row]
    BY <1>3 DEF CreateInvite
  <2> HIDE DEF row
  <2>3. invites' \in [InviteIds -> InviteRow] /\ Kept
    BY <1>0, <1>3, <2>1, <2>2 DEF CreateInvite, TablesOK, Kept
  <2>4. QED
    BY <1>0, <1>3, <2>3, RequestsStay DEF CreateInvite, TypeInv, TablesOK, PairsNamed
<1>4. ASSUME NEW p \in PairIds, NEW t \in TenantIds, NEW s \in Slugs, CreateTenant(p, t, s)
      PROVE  TypeInv'
  BY <1>0, <1>4, KeptSame, RequestsStay
  DEF CreateTenant, CreateTenantRow, TypeInv, TablesOK, PairsNamed
<1>5. ASSUME NEW t \in TenantIds, DeleteTenant(t) PROVE TypeInv'
  <2>1. tenants' \in [TenantIds -> Slugs \cup {"unborn", "gone"}]
    BY <1>0, <1>5 DEF DeleteTenant, TablesOK
  <2>2. joined' \in [Emails -> [TenantIds -> Nat]]
    BY <1>0, <1>5 DEF DeleteTenant, TablesOK
  <2>3. role' \in [Emails -> [TenantIds -> Roles \cup {None}]]
    BY <1>0, <1>5 DEF DeleteTenant, TablesOK
  <2>4. \A p \in PairIds : /\ pairs'[p] \in PairRow
                           /\ pairs'[p].user = pairs[p].user
                           /\ pairs'[p].tenant = pairs[p].tenant
                           /\ pairs[p].tenant = t => pairs'[p].state = "gone"
                           /\ pairs[p].tenant # t => pairs'[p] = pairs[p]
    BY <1>0, <1>5 DEF DeleteTenant, TablesOK, PairRow, TokenStates
  <2>5. \A i \in InviteIds : /\ invites'[i] \in InviteRow
                             /\ invites'[i].state # invites[i].state => invites'[i].state = "gone"
    BY <1>0, <1>5 DEF DeleteTenant, TablesOK, InviteRow
  <2>6. pairs' \in [PairIds -> PairRow] /\ invites' \in [InviteIds -> InviteRow]
    BY <1>5, <2>4, <2>5 DEF DeleteTenant
  <2>7. PairsNamed'
    <3>1. t # None
      BY NoneAssumption
    <3>2. QED
      BY <1>0, <2>4, <3>1 DEF TablesOK, PairsNamed
  <2>8. Kept
    BY <1>0, <2>4, <2>5 DEF Kept
  <2>9. QED
    BY <1>0, <1>5, <2>1, <2>2, <2>3, <2>6, <2>7, <2>8, RequestsStay
    DEF DeleteTenant, TypeInv, TablesOK
<1>6. ASSUME NEW p \in PairIds, ExpireToken(p) PROVE TypeInv'
  <2> DEFINE row == [pairs[p] EXCEPT !.state = "dead"]
  <2>1. row \in PairRow /\ row.state = "dead" /\ row.user = pairs[p].user
        /\ row.tenant = pairs[p].tenant
    BY <1>0 DEF TablesOK, PairRow, TokenStates
  <2>2. pairs' = [pairs EXCEPT ![p] = row]
    BY <1>6 DEF ExpireToken
  <2> HIDE DEF row
  <2>3. pairs' \in [PairIds -> PairRow] /\ PairsNamed' /\ Kept
    BY <1>0, <1>6, <2>1, <2>2 DEF ExpireToken, TablesOK, PairsNamed, Kept
  <2>4. QED
    BY <1>0, <1>6, <2>3, RequestsStay DEF ExpireToken, TypeInv, TablesOK
<1>7. ASSUME NEW i \in InviteIds, ExpireInvite(i) PROVE TypeInv'
  <2> DEFINE row == [invites[i] EXCEPT !.state = "expired"]
  <2>1. row \in InviteRow /\ row.state = "expired"
    BY <1>0 DEF TablesOK, InviteRow
  <2>2. invites' = [invites EXCEPT ![i] = row]
    BY <1>7 DEF ExpireInvite
  <2> HIDE DEF row
  <2>3. invites' \in [InviteIds -> InviteRow] /\ Kept
    BY <1>0, <1>7, <2>1, <2>2 DEF ExpireInvite, TablesOK, Kept
  <2>4. QED
    BY <1>0, <1>7, <2>3, RequestsStay DEF ExpireInvite, TypeInv, TablesOK, PairsNamed
<1>8. CASE UNCHANGED vars
  BY <1>0, <1>8, KeptSame, RequestsStay DEF vars, TypeInv, TablesOK, PairsNamed
<1>9. QED
  BY <1>1, <1>2, <1>3, <1>4, <1>5, <1>6, <1>7, <1>8 DEF Next

\* In every behaviour all tables and requests keep their types.
THEOREM TypeCorrect == Spec => []TypeOK
<1>1. Spec => []TypeInv
  BY InitTypeInv, StepTypeInv, PTL DEF Spec
<1>2. QED
  BY <1>1, TypeInvType, PTL

-----------------------------------------------------------------------------
(* What the steps may do to rows and requests *)

\* Only these statements write refresh tokens.
LEMMA PairWriters ==
  ASSUME [Next]_vars
  PROVE  \/ UNCHANGED pairs
         \/ \E r \in Requests : IssuePair(r) \/ Revoke(r)
         \/ \E t \in TenantIds : DeleteTenant(t)
         \/ \E p \in PairIds : ExpireToken(p)
  BY DEF Next, RequestStep, vars, StartRegister, StartJoin, StartLogin, StartWithToken,
     StartAccept, handleOIDCCallback, RegisterLookup, RegisterCreate, SetPasswordHash,
     CreateOrg, AddOwner, PrimaryTenant, LoginLookup, TokenLookup, FindByIdentity,
     FindByEmail, LinkIdentity, InsertOIDCUser, JoinOrg, AcceptInvite, Fail, AuthURL,
     CreateInvite, CreateTenant, ExpireInvite

\* Only these statements write invites.
LEMMA InviteWriters ==
  ASSUME [Next]_vars
  PROVE  \/ UNCHANGED invites
         \/ \E r \in Requests : JoinOrg(r) \/ AcceptInvite(r)
         \/ \E p \in PairIds, i \in InviteIds, ro \in InviteRoles : CreateInvite(p, i, ro)
         \/ \E t \in TenantIds : DeleteTenant(t)
         \/ \E i \in InviteIds : ExpireInvite(i)
  BY DEF Next, RequestStep, vars, StartRegister, StartJoin, StartLogin, StartWithToken,
     StartAccept, handleOIDCCallback, RegisterLookup, RegisterCreate, SetPasswordHash,
     CreateOrg, AddOwner, PrimaryTenant, IssuePair, Revoke, LoginLookup, TokenLookup,
     FindByIdentity, FindByEmail, LinkIdentity, InsertOIDCUser, Fail, AuthURL,
     CreateTenant, ExpireToken

\* Only these statements write tenants and memberships.
LEMMA OrgWriters ==
  ASSUME [Next]_vars
  PROVE  \/ UNCHANGED <<tenants, joined>>
         \/ \E r \in Requests : CreateOrg(r) \/ AddOwner(r) \/ JoinOrg(r)
         \/ \E p \in PairIds, t \in TenantIds, s \in Slugs : CreateTenant(p, t, s)
         \/ \E t \in TenantIds : DeleteTenant(t)
  BY DEF Next, RequestStep, vars, StartRegister, StartJoin, StartLogin, StartWithToken,
     StartAccept, handleOIDCCallback, RegisterLookup, RegisterCreate, SetPasswordHash,
     PrimaryTenant, IssuePair, Revoke, LoginLookup, TokenLookup, FindByIdentity,
     FindByEmail, LinkIdentity, InsertOIDCUser, AcceptInvite, Fail, AuthURL,
     CreateInvite, ExpireToken, ExpireInvite

\* A request comes to its issuePair only from AddOwner, PrimaryTenant or Revoke, and to
\* Invites.Accept only from JoinOrg.
LEMMA Moves ==
  ASSUME RequestsOK, [Next]_vars, NEW x \in Requests
  PROVE  \/ req'[x] = req[x]
         \/ req'[x].pc \notin {"issue", "accept"}
         \/ AddOwner(x) /\ req'[x].pc # "accept"
         \/ PrimaryTenant(x) /\ req'[x].pc # "accept"
         \/ Revoke(x) /\ req'[x].pc # "accept"
         \/ JoinOrg(x) /\ req'[x].pc # "issue"
<1>0. req \in [Requests -> Request]
  BY DEF RequestsOK
<1>1. ASSUME NEW r \in Requests, RequestStep(r)
      PROVE  \/ req'[r] = req[r]
             \/ req'[r].pc \notin {"issue", "accept"}
             \/ AddOwner(r) /\ req'[r].pc # "accept"
             \/ PrimaryTenant(r) /\ req'[r].pc # "accept"
             \/ Revoke(r) /\ req'[r].pc # "accept"
             \/ JoinOrg(r) /\ req'[r].pc # "issue"
  <2>1. ASSUME NEW pc, Goto(r, pc) PROVE req'[r].pc = pc
    BY <1>0, <2>1 DEF Goto, Request
  <2>2. Done(r) => req'[r].pc = "idle"
    BY <1>0, IdleType DEF Done
  <2>3. CASE StartRegister(r) \/ StartJoin(r) \/ StartLogin(r)
    <3>1. CASE StartRegister(r)
      <4>1. PICK e \in Emails, s \in Slugs :
              req' = [req EXCEPT ![r] = [IdleRequest EXCEPT !.op = "register",
                        !.pc = "lookup", !.user = Lower[e], !.slug = s]]
        BY <3>1 DEF StartRegister, Begin
      <4>2. req'[r].pc = "lookup"
        BY <1>0, <4>1, IdleType DEF Request
      <4>3. QED
        BY <4>2
    <3>2. CASE StartJoin(r)
      <4>1. PICK e \in Emails, s \in Slugs, i \in InviteIds :
              req' = [req EXCEPT ![r] = [IdleRequest EXCEPT !.op = "join",
                        !.pc = "lookup", !.user = Lower[e], !.slug = s, !.invite = i]]
        BY <3>2 DEF StartJoin, Begin
      <4>2. req'[r].pc = "lookup"
        BY <1>0, <4>1, IdleType DEF Request
      <4>3. QED
        BY <4>2
    <3>3. CASE StartLogin(r)
      <4>1. PICK e \in Emails :
              req' = [req EXCEPT ![r] = [IdleRequest EXCEPT !.op = "login",
                        !.pc = "lookup", !.user = Lower[e]]]
        BY <3>3 DEF StartLogin, Begin
      <4>2. req'[r].pc = "lookup"
        BY <1>0, <4>1, IdleType DEF Request
      <4>3. QED
        BY <4>2
    <3>4. QED
      BY <2>3, <3>1, <3>2, <3>3
  <2>4. ASSUME NEW op, StartWithToken(r, op) PROVE req'[r].pc = "lookup"
    <3>1. PICK y \in PairIds :
            req' = [req EXCEPT ![r] = [IdleRequest EXCEPT !.op = op, !.pc = "lookup",
                                                          !.pair = y]]
      BY <2>4 DEF StartWithToken, Begin
    <3>2. QED
      BY <1>0, <3>1, IdleType DEF Request
  <2>5. CASE StartAccept(r)
    <3>1. req'[r].pc = "joinOrg"
      BY <1>0, <2>5, IdleType DEF StartAccept, Begin, Request
    <3>2. QED
      BY <3>1
  <2>6. CASE handleOIDCCallback(r)
    <3>1. req'[r].pc = "byIdentity" \/ req'[r] = req[r]
      BY <1>0, <2>6, IdleType DEF handleOIDCCallback, Begin, Request
    <3>2. QED
      BY <3>1
  <2>7. CASE \/ RegisterLookup(r) \/ RegisterCreate(r) \/ SetPasswordHash(r)
             \/ LoginLookup(r) \/ TokenLookup(r) \/ FindByEmail(r) \/ LinkIdentity(r)
             \/ InsertOIDCUser(r) \/ AcceptInvite(r) \/ Fail(r) \/ IssuePair(r)
    <3>1. req'[r].pc \in {"create", "hash", "tenant", "primary", "revoke", "link",
                          "insert", "joinOrg", "idle"}
      BY <2>1, <2>2, <2>7
      DEF RegisterLookup, RegisterCreate, SetPasswordHash, LoginLookup, TokenLookup,
          FindByEmail, LinkIdentity, InsertOIDCUser, AcceptInvite, Fail, IssuePair
    <3>2. QED
      BY <3>1
  <2>8. CASE FindByIdentity(r)
    <3>1. req'[r].pc \in {"primary", "byEmail"}
      BY <1>0, <2>1, <2>8 DEF FindByIdentity, Request
    <3>2. QED
      BY <3>1
  <2>9. CASE CreateOrg(r)
    <3>1. req'[r].pc = "owner"
      BY <1>0, <2>9 DEF CreateOrg, Request
    <3>2. QED
      BY <3>1
  <2>10. CASE AddOwner(r)
    <3>1. req'[r].pc \in {"primary", "issue"}
      BY <1>0, <2>10 DEF AddOwner, Request
    <3>2. QED
      BY <2>10, <3>1
  <2>11. CASE PrimaryTenant(r)
    <3>1. ASSUME NEW t, NEW ro, req' = [req EXCEPT ![r].pc = "issue", ![r].tenant = t,
                                                   ![r].role = ro]
          PROVE  req'[r].pc = "issue"
      BY <1>0, <3>1 DEF Request
    <3>2. req'[r].pc = "issue"
      BY <2>11, <3>1 DEF PrimaryTenant
    <3>3. QED
      BY <2>11, <3>2
  <2>12. CASE Revoke(r)
    <3>1. ASSUME NEW u, NEW t, req' = [req EXCEPT ![r].pc = "issue", ![r].user = u,
                                         ![r].tenant = t, ![r].role = "member"]
          PROVE  req'[r].pc = "issue"
      BY <1>0, <3>1 DEF Request
    <3>2. req'[r].pc \in {"issue", "idle"}
      BY <2>2, <2>12, <3>1 DEF Revoke
    <3>3. QED
      BY <2>12, <3>2
  <2>13. CASE JoinOrg(r)
    <3>1. req'[r].pc = "accept"
      BY <2>1, <2>13 DEF JoinOrg
    <3>2. QED
      BY <2>13, <3>1
  <2>14. QED
    BY <1>1, <2>3, <2>4, <2>5, <2>6, <2>7, <2>8, <2>9, <2>10, <2>11, <2>12, <2>13
    DEF RequestStep
<1>2. ASSUME NEW r \in Requests, RequestStep(r), x # r PROVE req'[x] = req[x]
  BY <1>0, <1>2
  DEF RequestStep, StartRegister, StartJoin, StartLogin, StartWithToken, StartAccept,
      handleOIDCCallback, RegisterLookup, RegisterCreate, SetPasswordHash, CreateOrg,
      AddOwner, PrimaryTenant, IssuePair, Revoke, LoginLookup, TokenLookup,
      FindByIdentity, FindByEmail, LinkIdentity, InsertOIDCUser, JoinOrg, AcceptInvite,
      Fail, Begin, Goto, Done
<1>3. CASE UNCHANGED req
  BY <1>3
<1>4. QED
  BY <1>1, <1>2, <1>3
  DEF Next, vars, AuthURL, CreateInvite, CreateTenant, DeleteTenant, ExpireToken,
      ExpireInvite

-----------------------------------------------------------------------------
(* Sessions belong to members *)

\* e joined t, and nothing but the deletion of t ends that.
Settled(e, t) == Member(e, t) \/ tenants[t] = "gone"

\* The invariant covers revoked pairs, which RefreshToken reads before it issues the
\* next one, and the requests that are about to issue a pair.
SessionInv ==
    /\ \A p \in PairIds :
         /\ pairs[p].state # "unborn" => Settled(pairs[p].user, pairs[p].tenant)
         /\ pairs[p].state = "live" => Exists(pairs[p].tenant)
    /\ \A r \in Requests : req[r].pc = "issue" /\ req[r].tenant \in TenantIds =>
         Settled(req[r].user, req[r].tenant)

\* AddToTenant makes a member and loses none.
LEMMA AddToTenantGrows ==
  ASSUME TablesOK, NEW t \in TenantIds, NEW e \in Emails, NEW ro, AddToTenant(t, e, ro)
  PROVE  /\ Member(e, t)'
         /\ \A u \in Emails, x \in TenantIds : Member(u, x) => Member(u, x)'
<1>1. CASE Member(e, t)
  BY <1>1 DEF AddToTenant, Member
<1>2. CASE ~Member(e, t)
  <2>1. joined' = [joined EXCEPT ![e] =
                     [x \in TenantIds |-> IF x = t THEN 1
                                          ELSE IF Member(e, x) THEN joined[e][x] + 1
                                               ELSE 0]]
    BY <1>2 DEF AddToTenant
  <2>2. \A u \in Emails, x \in TenantIds : joined[u][x] \in Nat
    BY DEF TablesOK
  <2>3. QED
    BY <2>1, <2>2 DEF Member, TablesOK
<1>3. QED
  BY <1>1, <1>2

\* A tenant that is deleted stays deleted, and memberships last until then.
LEMMA SettledStays ==
  ASSUME TypeInv, [Next]_vars
  PROVE  \A e \in Emails, t \in TenantIds : Settled(e, t) => Settled(e, t)'
<1>0. TablesOK /\ RequestsOK
  BY DEF TypeInv
<1>1. ASSUME NEW x \in TenantIds, NEW s, CreateTenantRow(x, s), UNCHANGED joined
      PROVE  \A e \in Emails, t \in TenantIds : Settled(e, t) => Settled(e, t)'
  BY <1>0, <1>1 DEF CreateTenantRow, Settled, Member, TablesOK
<1>2. ASSUME NEW x \in TenantIds, NEW u \in Emails, NEW ro, AddToTenant(x, u, ro),
             UNCHANGED tenants
      PROVE  \A e \in Emails, t \in TenantIds : Settled(e, t) => Settled(e, t)'
  BY <1>0, <1>2, AddToTenantGrows DEF Settled
<1>3. ASSUME NEW r \in Requests, AddOwner(r)
      PROVE  req[r].tenant \in TenantIds /\ req[r].user \in Emails
  BY <1>0, <1>3
  DEF AddOwner, Exists, RequestsOK, RequestOK, Shaped, TokenOps
<1>4. ASSUME NEW r \in Requests, JoinOrg(r)
      PROVE  invites[req[r].invite].tenant \in TenantIds /\ req[r].user \in Emails
  BY <1>0, <1>4
  DEF JoinOrg, Exists, RequestsOK, RequestOK, Shaped, TokenOps, InviteOps
<1>5. ASSUME NEW x \in TenantIds, DeleteTenant(x)
      PROVE  \A e \in Emails, t \in TenantIds : Settled(e, t) => Settled(e, t)'
  BY <1>0, <1>5 DEF DeleteTenant, Settled, Member, TablesOK
<1>6. CASE UNCHANGED <<tenants, joined>>
  BY <1>6 DEF Settled, Member
<1>7. QED
  BY <1>1, <1>2, <1>3, <1>4, <1>5, <1>6, OrgWriters
  DEF CreateOrg, AddOwner, JoinOrg, CreateTenant

\* A pair is issued live for the account and the tenant of its request; after that it
\* names what it named and never comes back to life.
LEMMA PairsAge ==
  ASSUME TypeInv, [Next]_vars, NEW p \in PairIds
  PROVE  \/ /\ pairs[p].state # "unborn"
            /\ pairs'[p].user = pairs[p].user
            /\ pairs'[p].tenant = pairs[p].tenant
            /\ pairs'[p].parent = pairs[p].parent
            /\ pairs'[p].state \in {pairs[p].state, "dead", "gone"}
         \/ /\ pairs[p].state = "unborn"
            /\ pairs'[p] = pairs[p]
         \/ /\ pairs[p].state = "unborn" /\ pairs'[p].state = "live"
            /\ \E r \in Requests :
                 /\ IssuePair(r)
                 /\ pairs'[p].user = req[r].user
                 /\ pairs'[p].tenant = req[r].tenant
                 /\ pairs'[p].parent = req[r].pair
<1>0. TablesOK /\ RequestsOK /\ pairs[p] \in PairRow /\ pairs \in [PairIds -> PairRow]
  BY DEF TypeInv, TablesOK
<1>1. ASSUME NEW r \in Requests, IssuePair(r)
      PROVE  \/ pairs'[p] = pairs[p]
             \/ /\ pairs[p].state = "unborn" /\ pairs'[p].state = "live"
                /\ pairs'[p].user = req[r].user
                /\ pairs'[p].tenant = req[r].tenant
                /\ pairs'[p].parent = req[r].pair
  <2>1. PICK y \in PairIds :
          /\ pairs[y].state = "unborn"
          /\ pairs' = [pairs EXCEPT ![y] =
               [state |-> "live", user |-> req[r].user, tenant |-> req[r].tenant,
                role |-> req[r].role, parent |-> req[r].pair]]
    BY <1>1 DEF IssuePair
  <2>2. CASE p # y
    BY <1>0, <2>1, <2>2
  <2>3. CASE p = y
    BY <1>0, <2>1, <2>3
  <2>4. QED
    BY <2>2, <2>3
<1>2. ASSUME NEW r \in Requests, Revoke(r)
      PROVE  \/ pairs'[p] = pairs[p]
             \/ pairs'[p] = [pairs[p] EXCEPT !.state = "dead"]
                /\ pairs[p].state # "unborn"
  <2>1. pairs[req[r].pair].state # "unborn"
    BY <1>0, <1>2 DEF Revoke, RequestsOK, RequestOK, Shaped, Referring
  <2>2. QED
    BY <1>0, <1>2, <2>1 DEF Revoke
<1>3. ASSUME NEW t \in TenantIds, DeleteTenant(t)
      PROVE  \/ pairs'[p] = pairs[p]
             \/ pairs'[p] = [pairs[p] EXCEPT !.state = "gone"]
                /\ pairs[p].state # "unborn"
  <2>1. pairs[p].state = "unborn" => pairs[p].tenant # t
    BY <1>0, NoneAssumption DEF TablesOK, PairsNamed
  <2>2. QED
    BY <1>3, <2>1 DEF DeleteTenant
<1>4. ASSUME NEW y \in PairIds, ExpireToken(y)
      PROVE  \/ pairs'[p] = pairs[p]
             \/ pairs'[p] = [pairs[p] EXCEPT !.state = "dead"]
                /\ pairs[p].state # "unborn"
  BY <1>0, <1>4 DEF ExpireToken
<1>5. ASSUME NEW st \in {"dead", "gone"}, pairs'[p] = [pairs[p] EXCEPT !.state = st]
      PROVE  /\ pairs'[p].user = pairs[p].user
             /\ pairs'[p].tenant = pairs[p].tenant
             /\ pairs'[p].parent = pairs[p].parent
             /\ pairs'[p].state = st
  BY <1>0, <1>5 DEF PairRow
<1>6. \/ pairs'[p] = pairs[p]
      \/ /\ pairs[p].state # "unborn"
         /\ \E st \in {"dead", "gone"} : pairs'[p] = [pairs[p] EXCEPT !.state = st]
      \/ /\ pairs[p].state = "unborn" /\ pairs'[p].state = "live"
         /\ \E r \in Requests :
              /\ IssuePair(r)
              /\ pairs'[p].user = req[r].user
              /\ pairs'[p].tenant = req[r].tenant
              /\ pairs'[p].parent = req[r].pair
  BY <1>1, <1>2, <1>3, <1>4, PairWriters
<1>7. QED
  BY <1>5, <1>6

\* Only a deletion ends a tenant, and it takes the tenant's tokens and invites along.
LEMMA ExistsStays ==
  ASSUME TypeInv, [Next]_vars, NEW t \in TenantIds, Exists(t)
  PROVE  \/ Exists(t)'
         \/ /\ \A p \in PairIds : pairs[p].tenant = t => pairs'[p].state = "gone"
            /\ \A i \in InviteIds : invites[i].tenant = t => invites'[i].state = "gone"
<1>0. TablesOK
  BY DEF TypeInv
<1>1. ASSUME NEW x \in TenantIds, NEW s, CreateTenantRow(x, s) PROVE Exists(t)'
  BY <1>0, <1>1, SlugAssumption DEF CreateTenantRow, Exists, TablesOK
<1>2. ASSUME DeleteTenant(t)
      PROVE  /\ \A p \in PairIds : pairs[p].tenant = t => pairs'[p].state = "gone"
             /\ \A i \in InviteIds : invites[i].tenant = t => invites'[i].state = "gone"
  BY <1>0, <1>2 DEF DeleteTenant, TablesOK, PairRow, InviteRow
<1>3. ASSUME NEW x \in TenantIds, x # t, DeleteTenant(x) PROVE Exists(t)'
  BY <1>0, <1>3 DEF DeleteTenant, Exists, TablesOK
<1>4. UNCHANGED tenants => Exists(t)'
  BY DEF Exists
<1>5. QED
  BY <1>1, <1>2, <1>3, <1>4, OrgWriters
  DEF CreateOrg, AddOwner, JoinOrg, CreateTenant

\* A pair that was issued names an account and a tenant.
LEMMA Named ==
  ASSUME TypeInv, NEW p \in PairIds, pairs[p].state # "unborn"
  PROVE  pairs[p].user \in Emails /\ pairs[p].tenant \in TenantIds
  BY DEF TypeInv, TablesOK, PairsNamed

LEMMA StepSessions == TypeInv /\ SessionInv /\ [Next]_vars => SessionInv'
<1> SUFFICES ASSUME TypeInv, SessionInv, [Next]_vars PROVE SessionInv'
  OBVIOUS
<1>0. TablesOK /\ RequestsOK
  BY DEF TypeInv
<1>1. ASSUME NEW r \in Requests, req[r].pc = "issue" PROVE req[r].user \in Emails
  BY <1>0, <1>1 DEF RequestsOK, RequestOK, Shaped
<1>2. ASSUME NEW p \in PairIds, pairs'[p].state # "unborn"
      PROVE  Settled(pairs[p].user, pairs[p].tenant)'
  <2>1. CASE pairs[p].state # "unborn"
    <3>1. pairs'[p].user = pairs[p].user /\ pairs'[p].tenant = pairs[p].tenant
      BY <2>1, PairsAge
    <3>2. Settled(pairs[p].user, pairs[p].tenant)
      BY <2>1 DEF SessionInv
    <3>3. QED
      BY <2>1, <3>1, <3>2, Named, SettledStays DEF Settled, Member
  <2>2. CASE pairs[p].state = "unborn"
    <3>1. PICK r \in Requests : /\ IssuePair(r)
                                /\ pairs'[p].user = req[r].user
                                /\ pairs'[p].tenant = req[r].tenant
      BY <1>2, <2>2, PairsAge
    <3>2. Settled(req[r].user, req[r].tenant) /\ req[r].user \in Emails
          /\ req[r].tenant \in TenantIds
      BY <1>1, <3>1 DEF IssuePair, SessionInv, Exists
    <3>3. QED
      BY <3>1, <3>2, SettledStays DEF Settled, Member
  <2>3. QED
    BY <2>1, <2>2
<1>3. ASSUME NEW p \in PairIds, pairs'[p].state = "live"
      PROVE  Exists(pairs[p].tenant)'
  <2>1. CASE pairs[p].state # "unborn"
    <3>1. pairs[p].state = "live" /\ pairs'[p].tenant = pairs[p].tenant
      BY <1>3, <2>1, PairsAge
    <3>2. Exists(pairs[p].tenant) /\ pairs[p].tenant \in TenantIds
      BY <3>1 DEF SessionInv, Exists
    <3>3. QED
      BY <1>3, <3>1, <3>2, ExistsStays DEF Exists
  <2>2. CASE pairs[p].state = "unborn"
    <3>1. PICK r \in Requests : IssuePair(r) /\ pairs'[p].tenant = req[r].tenant
      BY <1>3, <2>2, PairsAge
    <3>2. QED
      BY <3>1 DEF IssuePair, Exists
  <2>3. QED
    BY <2>1, <2>2
<1>4. ASSUME NEW r \in Requests, req'[r].pc = "issue", req'[r].tenant \in TenantIds
      PROVE  Settled(req[r].user, req[r].tenant)'
  <2>0. req[r] \in Request /\ req \in [Requests -> Request]
    BY <1>0 DEF RequestsOK
  <2>1. CASE req'[r] = req[r]
    <3>1. Settled(req[r].user, req[r].tenant) /\ req[r].user \in Emails
          /\ req[r].tenant \in TenantIds
      BY <1>1, <1>4, <2>1 DEF SessionInv
    <3>2. QED
      BY <2>1, <3>1, SettledStays DEF Settled, Member
  <2>2. CASE AddOwner(r)
    <3>1. req'[r].user = req[r].user /\ req'[r].tenant = req[r].tenant
      BY <2>0, <2>2 DEF AddOwner, Request
    <3>2. req[r].user \in Emails /\ req[r].tenant \in TenantIds
      BY <1>0, <2>2 DEF AddOwner, Exists, RequestsOK, RequestOK, Shaped, TokenOps
    <3>3. Member(req[r].user, req[r].tenant)'
      BY <1>0, <2>2, <3>1, <3>2, AddToTenantGrows DEF AddOwner, Member
    <3>4. QED
      BY <3>3 DEF Settled
  <2>3. CASE PrimaryTenant(r)
    <3>1. CASE req' = [req EXCEPT ![r].pc = "issue", ![r].tenant = None,
                                  ![r].role = "member"]
      <4>1. req'[r].tenant = None
        BY <2>0, <3>1 DEF Request
      <4>2. QED
        BY <1>4, <4>1, NoneAssumption
    <3>2. CASE \E t \in TenantIds :
                 /\ IsPrimary(req[r].user, t)
                 /\ req' = [req EXCEPT ![r].pc = "issue", ![r].tenant = t,
                                       ![r].role = role[req[r].user][t]]
      <4>1. PICK t \in TenantIds :
                 /\ IsPrimary(req[r].user, t)
                 /\ req' = [req EXCEPT ![r].pc = "issue", ![r].tenant = t,
                                       ![r].role = role[req[r].user][t]]
        BY <3>2
      <4>2. req'[r].tenant = t /\ req'[r].user = req[r].user
        BY <2>0, <4>1 DEF Request
      <4>3. QED
        BY <2>3, <4>1, <4>2 DEF PrimaryTenant, IsPrimary, Settled, Member
    <3>3. QED
      BY <2>3, <3>1, <3>2 DEF PrimaryTenant
  <2>4. CASE Revoke(r)
    <3> DEFINE p == req[r].pair
    <3>1. p \in PairIds /\ pairs[p].state # "unborn"
      BY <1>0, <2>4 DEF Revoke, RequestsOK, RequestOK, Shaped, Referring
    <3>2. Done(r) => req'[r].pc = "idle"
      BY <2>0, IdleType DEF Done
    <3>3. req' = [req EXCEPT ![r].pc = "issue", ![r].user = pairs[p].user,
                             ![r].tenant = pairs[p].tenant, ![r].role = "member"]
      BY <1>4, <2>4, <3>2 DEF Revoke
    <3>4. req'[r].user = pairs[p].user /\ req'[r].tenant = pairs[p].tenant
      BY <2>0, <3>3 DEF Request
    <3>5. Settled(pairs[p].user, pairs[p].tenant)
      BY <3>1 DEF SessionInv
    <3>6. QED
      BY <3>1, <3>4, <3>5, Named, SettledStays DEF Settled, Member
  <2>5. QED
    BY <1>0, <1>4, <2>1, <2>2, <2>3, <2>4, Moves
<1>5. QED
  BY <1>2, <1>3, <1>4 DEF SessionInv

\* A refresh token that can be exchanged belongs to a member of its tenant: what
\* Register, Login, LoginOIDC and RefreshToken issue, whatever overlaps and fails.
THEOREM SessionsBelong == Spec => []SessionsOfMembers
<1>1. Init => SessionInv
  BY IdleType DEF Init, SessionInv
<1>2. TypeInv /\ SessionInv => SessionsOfMembers
  BY SlugAssumption
  DEF SessionInv, SessionsOfMembers, TokenUsable, Settled, Exists
<1>3. QED
  BY <1>1, <1>2, InitTypeInv, StepTypeInv, StepSessions, PTL DEF Spec

-----------------------------------------------------------------------------
(* Rotation retires the old token *)

\* RefreshToken revokes before it issues: a request about to issue a pair for another
\* one has ended the life of that one.
RetireInv ==
    /\ \A q, p \in PairIds : pairs[q].state # "unborn" /\ pairs[q].parent = p =>
         pairs[p].state \in {"dead", "gone"}
    /\ \A q \in PairIds : pairs[q].state = "unborn" => pairs[q].parent = None
    /\ \A r \in Requests : req[r].pc = "issue" /\ req[r].pair \in PairIds =>
         pairs[req[r].pair].state \in {"dead", "gone"}

LEMMA StepRetires == TypeInv /\ RetireInv /\ [Next]_vars => RetireInv'
<1> SUFFICES ASSUME TypeInv, RetireInv, [Next]_vars PROVE RetireInv'
  OBVIOUS
<1>0. TablesOK /\ RequestsOK
  BY DEF TypeInv
<1>1. ASSUME NEW p \in PairIds, pairs[p].state \in {"dead", "gone"}
      PROVE  pairs'[p].state \in {"dead", "gone"}
  BY <1>1, PairsAge
<1>2. ASSUME NEW q \in PairIds, NEW p \in PairIds, pairs'[q].state # "unborn",
             pairs'[q].parent = p
      PROVE  pairs'[p].state \in {"dead", "gone"}
  <2>1. CASE pairs[q].state # "unborn"
    <3>1. pairs[q].parent = p
      BY <1>2, <2>1, PairsAge
    <3>2. QED
      BY <1>1, <2>1, <3>1 DEF RetireInv
  <2>2. CASE pairs[q].state = "unborn"
    <3>1. PICK r \in Requests : IssuePair(r) /\ pairs'[q].parent = req[r].pair
      BY <1>2, <2>2, PairsAge
    <3>2. QED
      BY <1>1, <1>2, <3>1 DEF RetireInv, IssuePair
  <2>3. QED
    BY <2>1, <2>2
<1>3. ASSUME NEW q \in PairIds, pairs'[q].state = "unborn" PROVE pairs'[q].parent = None
  BY <1>3, PairsAge DEF RetireInv
<1>4. ASSUME NEW r \in Requests, req'[r].pc = "issue", req'[r].pair \in PairIds
      PROVE  pairs'[req'[r].pair].state \in {"dead", "gone"}
  <2>0. req[r] \in Request /\ req \in [Requests -> Request]
    BY <1>0 DEF RequestsOK
  <2>1. CASE req'[r] = req[r]
    BY <1>1, <1>4, <2>1 DEF RetireInv
  <2>2. CASE AddOwner(r) \/ PrimaryTenant(r)
    <3>1. req[r].pair = None
      BY <1>0, <2>2
      DEF AddOwner, PrimaryTenant, RequestsOK, RequestOK, Shaped, TokenOps
    <3>2. ASSUME NEW t, NEW ro, req' = [req EXCEPT ![r].pc = "issue", ![r].tenant = t,
                                                   ![r].role = ro]
          PROVE  req'[r].pair = req[r].pair
      BY <2>0, <3>2 DEF Request
    <3>3. AddOwner(r) => req'[r].pair = req[r].pair
      BY <2>0 DEF AddOwner, Request
    <3>4. PrimaryTenant(r) => req'[r].pair = req[r].pair
      BY <3>2 DEF PrimaryTenant
    <3>5. QED
      BY <1>4, <2>2, <3>1, <3>3, <3>4, NoneAssumption
  <2>3. CASE Revoke(r)
    <3> DEFINE p == req[r].pair
    <3>1. p \in PairIds /\ pairs[p].state # "unborn" /\ pairs \in [PairIds -> PairRow]
      BY <1>0, <2>3 DEF Revoke, RequestsOK, RequestOK, Shaped, Referring, TablesOK
    <3>2. Done(r) => req'[r].pc = "idle"
      BY <2>0, IdleType DEF Done
    <3>3. req' = [req EXCEPT ![r].pc = "issue", ![r].user = pairs[p].user,
                             ![r].tenant = pairs[p].tenant, ![r].role = "member"]
      BY <1>4, <2>3, <3>2 DEF Revoke
    <3>4. req'[r].pair = p
      BY <2>0, <3>3 DEF Request
    <3>5. pairs'[p].state \in {"dead", "gone"}
      BY <2>3, <3>1 DEF Revoke, PairRow
    <3>6. QED
      BY <3>4, <3>5
  <2>4. QED
    BY <1>0, <1>4, <2>1, <2>2, <2>3, Moves
<1>5. QED
  BY <1>2, <1>3, <1>4 DEF RetireInv

\* A refresh token that was exchanged for a new pair cannot be exchanged any more,
\* also when several requests present it at the same time.
THEOREM RotatedStaysRetired == Spec => []RotationRetires
<1>1. Init => RetireInv
  BY IdleType DEF Init, RetireInv
<1>2. TypeInv /\ RetireInv => RotationRetires
  BY NoneAssumption DEF RetireInv, RotationRetires, TokenUsable
<1>3. QED
  BY <1>1, <1>2, InitTypeInv, StepTypeInv, StepRetires, PTL DEF Spec

-----------------------------------------------------------------------------
(* An accepted invite has a member *)

\* An invite outlives its tenant only as "gone"; who is about to mark it accepted has
\* joined through it.
JoinInv ==
    /\ \A i \in InviteIds :
         /\ invites[i].state \notin {"unborn", "gone"} => Exists(invites[i].tenant)
         /\ invites[i].state = "accepted" =>
              \E e \in invites[i].usedBy : Settled(e, invites[i].tenant)
    /\ \A r \in Requests : req[r].pc = "accept" =>
         /\ req[r].user \in invites[req[r].invite].usedBy
         /\ invites[req[r].invite].tenant \in TenantIds
         /\ Settled(req[r].user, invites[req[r].invite].tenant)

\* An invite is sent for a tenant that exists; it keeps its tenant and who used it, and
\* is marked accepted only by a request that got to Invites.Accept.
LEMMA InvitesAge ==
  ASSUME TypeInv, [Next]_vars, NEW i \in InviteIds
  PROVE  \/ invites'[i] = invites[i]
         \/ /\ invites[i].state # "unborn"
            /\ invites'[i].tenant = invites[i].tenant
            /\ invites[i].usedBy \subseteq invites'[i].usedBy
            /\ \/ invites'[i].state \in {invites[i].state, "gone"}
               \/ invites[i].state = "pending" /\ invites'[i].state = "expired"
               \/ /\ invites[i].state # "gone" /\ invites'[i].state = "accepted"
                  /\ \E r \in Requests : req[r].pc = "accept" /\ req[r].invite = i
         \/ /\ invites[i].state = "unborn" /\ invites'[i].state = "pending"
            /\ Exists(invites'[i].tenant)
            /\ UNCHANGED tenants
         \/ /\ invites[i].state = "unborn" /\ invites'[i].state = "gone"
<1>0. TablesOK /\ RequestsOK /\ invites \in [InviteIds -> InviteRow]
      /\ invites[i] \in InviteRow
  BY DEF TypeInv, TablesOK
<1>1. ASSUME NEW r \in Requests, req[r].pc \in {"joinOrg", "accept"}
      PROVE  req[r].invite \in InviteIds /\ invites[req[r].invite].state # "unborn"
  BY <1>0, <1>1 DEF RequestsOK, RequestOK, Shaped, Referring
<1>2. CASE \E r \in Requests : JoinOrg(r)
  <2>1. PICK r \in Requests : JoinOrg(r)
    BY <1>2
  <2>2. \/ invites'[i] = invites[i]
        \/ /\ i = req[r].invite
           /\ invites'[i] = [invites[i] EXCEPT !.usedBy = @ \cup {req[r].user}]
    BY <1>0, <2>1 DEF JoinOrg
  <2>3. CASE /\ i = req[r].invite
             /\ invites'[i] = [invites[i] EXCEPT !.usedBy = @ \cup {req[r].user}]
    <3>1. invites'[i].tenant = invites[i].tenant
          /\ invites'[i].state = invites[i].state
          /\ invites'[i].usedBy = invites[i].usedBy \cup {req[r].user}
      BY <1>0, <2>3 DEF InviteRow
    <3>2. QED
      BY <1>1, <2>1, <2>3, <3>1 DEF JoinOrg
  <2>4. QED
    BY <2>2, <2>3
<1>3. CASE \E r \in Requests : AcceptInvite(r)
  <2>1. PICK r \in Requests : AcceptInvite(r)
    BY <1>3
  <2>2. \/ invites'[i] = invites[i]
        \/ /\ i = req[r].invite /\ invites[i].state # "gone"
           /\ invites'[i] = [invites[i] EXCEPT !.state = "accepted"]
    BY <1>0, <2>1 DEF AcceptInvite
  <2>3. CASE /\ i = req[r].invite /\ invites[i].state # "gone"
             /\ invites'[i] = [invites[i] EXCEPT !.state = "accepted"]
    <3>1. invites'[i].tenant = invites[i].tenant
          /\ invites'[i].state = "accepted"
          /\ invites'[i].usedBy = invites[i].usedBy
      BY <1>0, <2>3 DEF InviteRow
    <3>2. QED
      BY <1>1, <2>1, <2>3, <3>1 DEF AcceptInvite
  <2>4. QED
    BY <2>2, <2>3
<1>4. ASSUME NEW p \in PairIds, NEW y \in InviteIds, NEW ro \in InviteRoles,
             CreateInvite(p, y, ro), i = y
      PROVE  /\ invites[i].state = "unborn" /\ invites'[i].state = "pending"
             /\ Exists(invites'[i].tenant)
             /\ UNCHANGED tenants
  BY <1>0, <1>4 DEF CreateInvite
<1>5. ASSUME NEW p \in PairIds, NEW y \in InviteIds, NEW ro \in InviteRoles,
             CreateInvite(p, y, ro), i # y
      PROVE  invites'[i] = invites[i]
  BY <1>0, <1>5 DEF CreateInvite
<1>6. ASSUME NEW t \in TenantIds, DeleteTenant(t)
      PROVE  \/ invites'[i] = invites[i]
             \/ /\ invites'[i].tenant = invites[i].tenant
                /\ invites'[i].usedBy = invites[i].usedBy
                /\ invites'[i].state = "gone"
  BY <1>0, <1>6 DEF DeleteTenant, InviteRow
<1>7. ASSUME NEW y \in InviteIds, ExpireInvite(y)
      PROVE  \/ invites'[i] = invites[i]
             \/ /\ invites'[i].tenant = invites[i].tenant
                /\ invites'[i].usedBy = invites[i].usedBy
                /\ invites[i].state = "pending" /\ invites'[i].state = "expired"
  BY <1>0, <1>7 DEF ExpireInvite, InviteRow
<1>8. QED
  BY <1>2, <1>3, <1>4, <1>5, <1>6, <1>7, InviteWriters

LEMMA StepJoins == TypeInv /\ JoinInv /\ [Next]_vars => JoinInv'
<1> SUFFICES ASSUME TypeInv, JoinInv, [Next]_vars PROVE JoinInv'
  OBVIOUS
<1>0. TablesOK /\ RequestsOK /\ invites \in [InviteIds -> InviteRow]
  BY DEF TypeInv, TablesOK
<1>1. ASSUME NEW r \in Requests, req[r].pc \in {"joinOrg", "accept"}
      PROVE  /\ req[r].invite \in InviteIds /\ invites[req[r].invite].state # "unborn"
             /\ req[r].user \in Emails
  BY <1>0, <1>1
  DEF RequestsOK, RequestOK, Shaped, Referring, TokenOps, InviteOps
<1>2. ASSUME NEW i \in InviteIds, invites'[i].state \notin {"unborn", "gone"}
      PROVE  Exists(invites[i].tenant)'
  <2>1. CASE invites[i].state # "unborn"
    <3>1. invites[i].state # "gone" /\ invites'[i].tenant = invites[i].tenant
      BY <1>2, <2>1, InvitesAge
    <3>2. Exists(invites[i].tenant) /\ invites[i].tenant \in TenantIds
      BY <2>1, <3>1 DEF JoinInv, Exists
    <3>3. QED
      BY <1>2, <3>1, <3>2, ExistsStays DEF Exists
  <2>2. CASE invites[i].state = "unborn"
    <3>1. Exists(invites'[i].tenant) /\ UNCHANGED tenants
      BY <1>2, <2>2, InvitesAge
    <3>2. QED
      BY <3>1 DEF Exists
  <2>3. QED
    BY <2>1, <2>2
<1>3. ASSUME NEW i \in InviteIds, invites'[i].state = "accepted"
      PROVE  \E e \in invites'[i].usedBy : Settled(e, invites[i].tenant)'
  <2>1. /\ invites[i].state \notin {"unborn", "gone"}
        /\ invites'[i].tenant = invites[i].tenant
        /\ invites[i].usedBy \subseteq invites'[i].usedBy
    BY <1>3, InvitesAge
  <2>2. invites[i].tenant \in TenantIds /\ invites[i].usedBy \subseteq Emails
    BY <1>0, <2>1 DEF JoinInv, Exists, InviteRow
  <2>3. \E e \in invites[i].usedBy : Settled(e, invites[i].tenant)
    <3>1. CASE invites[i].state = "accepted"
      BY <3>1 DEF JoinInv
    <3>2. CASE invites[i].state # "accepted"
      <4>1. PICK r \in Requests : req[r].pc = "accept" /\ req[r].invite = i
        BY <1>3, <2>1, <3>2, InvitesAge
      <4>2. QED
        BY <4>1 DEF JoinInv
    <3>3. QED
      BY <3>1, <3>2
  <2>4. PICK e \in invites[i].usedBy : Settled(e, invites[i].tenant)
    BY <2>3
  <2>5. Settled(e, invites[i].tenant)'
    BY <2>1, <2>2, <2>4, SettledStays DEF Settled, Member
  <2>6. QED
    BY <2>1, <2>4, <2>5
<1>4. ASSUME NEW r \in Requests, req'[r].pc = "accept"
      PROVE  /\ req'[r].user \in invites'[req'[r].invite].usedBy
             /\ invites'[req'[r].invite].tenant \in TenantIds
             /\ Settled(req[r].user, invites[req[r].invite].tenant)'
  <2> DEFINE i == req[r].invite
  <2>1. CASE req'[r] = req[r]
    <3>1. /\ i \in InviteIds /\ invites[i].state # "unborn" /\ req[r].user \in Emails
          /\ req[r].user \in invites[i].usedBy /\ invites[i].tenant \in TenantIds
          /\ Settled(req[r].user, invites[i].tenant)
      BY <1>1, <1>4, <2>1 DEF JoinInv
    <3>2. invites'[i].tenant = invites[i].tenant
          /\ invites[i].usedBy \subseteq invites'[i].usedBy
      BY <3>1, InvitesAge
    <3>3. QED
      BY <2>1, <3>1, <3>2, SettledStays DEF Settled, Member
  <2>2. CASE JoinOrg(r)
    <3>1. i \in InviteIds /\ invites[i] \in InviteRow /\ req[r].user \in Emails
          /\ invites[i].tenant \in TenantIds
      BY <1>0, <1>1, <2>2 DEF JoinOrg, Exists
    <3>2. req'[r].user = req[r].user /\ req'[r].invite = i
      BY <1>0, <2>2 DEF JoinOrg, Goto, RequestsOK, Request
    <3>3. /\ invites'[i].tenant = invites[i].tenant
          /\ invites'[i].usedBy = invites[i].usedBy \cup {req[r].user}
      BY <1>0, <2>2, <3>1 DEF JoinOrg, InviteRow
    <3>4. Member(req[r].user, invites[i].tenant)'
      BY <1>0, <2>2, <3>1, <3>2, <3>3, AddToTenantGrows DEF JoinOrg, Member
    <3>5. QED
      BY <3>1, <3>2, <3>3, <3>4 DEF Settled
  <2>3. QED
    BY <1>0, <1>4, <2>1, <2>2, Moves
<1>5. QED
  BY <1>2, <1>3, <1>4 DEF JoinInv

\* An invite is marked accepted only when an account joined through it, and that account
\* is a member for as long as the tenant exists.
THEOREM AcceptedHasMember == Spec => []AcceptedJoined
<1>1. Init => JoinInv
  BY IdleType DEF Init, JoinInv
<1>2. TypeInv /\ JoinInv => AcceptedJoined
  BY SlugAssumption DEF JoinInv, AcceptedJoined, Settled, Exists
<1>3. QED
  BY <1>1, <1>2, InitTypeInv, StepTypeInv, StepJoins, PTL DEF Spec
=============================================================================
