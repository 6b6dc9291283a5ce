---------------------------- MODULE SkillsProofs ----------------------------
(***************************************************************************)
(* Proofs about Skills for any tenants, users, skills and overlapping      *)
(* requests.                                                               *)
(***************************************************************************)
EXTENDS Skills, TLAPS

-----------------------------------------------------------------------------
(* Types *)

\* A request past its lookup has a skill, and one about a tenant or a user names it.
Addressed ==
    {q \in Request : q.pc # "idle" =>
        /\ q.pc \in {"act", "second"} => q.skill \in SkillIds
        /\ q.op \in TenantOps \cup UserOps => q.tenant \in Tenants
        /\ q.op \in UserOps => q.user \in Users}

\* The types are inductive only together with what requests are about.
TypeInv == TypeOK /\ req \in [Requests -> Addressed]

\* A request starts and ends with an empty record.
LEMMA IdleType == IdleRequest \in Addressed /\ NoRow \in Row
  BY DEF IdleRequest, Request, NoRow, Row, Addressed

\* What a request starts with: a tenant and a user where its operation is about them.
LEMMA StartType ==
  ASSUME NEW op \in Ops, NEW k \in SkillIds \cup Names,
         NEW y \in Tenants \cup {None}, NEW x \in Users \cup {None},
         op \in TenantOps \cup UserOps => y \in Tenants,
         op \in UserOps => x \in Users
  PROVE  [IdleRequest EXCEPT !.op = op, !.pc = "byId", !.tenant = y, !.user = x,
            !.key = k] \in Addressed
<1> DEFINE q == [IdleRequest EXCEPT !.op = op, !.pc = "byId", !.tenant = y,
                                    !.user = x, !.key = k]
<1>1. IdleRequest \in Request
  BY IdleType DEF Addressed
<1>2. q \in Request
  BY <1>1 DEF Request
<1>3. q.pc = "byId" /\ q.op = op /\ q.tenant = y /\ q.user = x
  BY <1>1 DEF Request
<1> HIDE DEF q
<1>4. q \in Addressed
  BY <1>2, <1>3 DEF Addressed
<1>5. QED
  BY <1>4 DEF q

LEMMA AddressedType == req \in [Requests -> Addressed] => req \in [Requests -> Request]
  BY DEF Addressed

\* A step of a request that ends it, or sends it on in its code, keeps it addressed.
LEMMA RequestType ==
  ASSUME TypeInv, NEW r \in Requests,
         \/ Done(r)
         \/ req[r].pc = "byId" /\ req' = [req EXCEPT ![r].pc = "byName"]
         \/ req[r].pc = "act" /\ req' = [req EXCEPT ![r].pc = "second"]
  PROVE  req' \in [Requests -> Addressed]
<1>1. CASE Done(r)
  BY <1>1, IdleType DEF Done, TypeInv
<1>2. CASE req[r].pc = "byId" /\ req' = [req EXCEPT ![r].pc = "byName"]
  <2>1. [req[r] EXCEPT !.pc = "byName"] \in Addressed
    BY <1>2 DEF TypeInv, Request, Addressed
  <2>2. QED
    BY <1>2, <2>1 DEF TypeInv
<1>3. CASE req[r].pc = "act" /\ req' = [req EXCEPT ![r].pc = "second"]
  <2>1. [req[r] EXCEPT !.pc = "second"] \in Addressed
    BY <1>3 DEF TypeInv, Request, Addressed
  <2>2. QED
    BY <1>3, <2>1 DEF TypeInv
<1>4. QED
  BY <1>1, <1>2, <1>3

\* Looking a skill up keeps the request addressed.
LEMMA FoundType ==
  ASSUME TypeInv, NEW r \in Requests, NEW s \in SkillIds, req[r].pc # "idle", Found(r, s)
  PROVE  req' \in [Requests -> Addressed]
<1>1. skills[s] \in Row /\ NoRow \in Row /\ req[r] \in Addressed
  BY IdleType DEF TypeInv, TypeOK
<1>2. PICK w \in Row : req' = [req EXCEPT ![r].pc = "act", ![r].key = None,
                                          ![r].skill = s, ![r].row = w]
  BY <1>1 DEF Found
<1>3. [req[r] EXCEPT !.pc = "act", !.key = None, !.skill = s, !.row = w] \in Addressed
  BY <1>1 DEF Request, Addressed
<1>4. QED
  BY <1>2, <1>3 DEF TypeInv

\* Forget keeps the type of asked.
LEMMA ForgetType ==
  ASSUME TypeOK, NEW t \in Tenants, NEW U, NEW s, Forget(t, U, s)
  PROVE  asked' \in [Tenants -> [Users -> SUBSET SkillIds]]
  BY DEF TypeOK, Forget

\* A table with a row replaced by a row is a table.
LEMMA RowsType ==
  ASSUME TypeOK, NEW s \in SkillIds, NEW w \in Row, skills' = [skills EXCEPT ![s] = w]
  PROVE  skills' \in [SkillIds -> Row]
  BY DEF TypeOK

\* The columns that requests write.
LEMMA RowWrites ==
  ASSUME NEW w \in Row
  PROVE  /\ w.downloads \in Nat
         /\ [w EXCEPT !.state = "gone"] \in Row
         /\ [w EXCEPT !.downloads = @ + 1] \in Row
         /\ \A v \in Versions \cup {None}, p \in BOOLEAN :
              [w EXCEPT !.version = v, !.published = p] \in Row
<1>1. w.downloads \in Nat /\ w.downloads + 1 \in Nat
  BY DEF Row
<1>2. \A n \in Nat : [w EXCEPT !.downloads = n] \in Row
  BY DEF Row
<1>3. [w EXCEPT !.state = "gone"] \in Row
  BY DEF Row
<1>4. ASSUME NEW v \in Versions \cup {None}, NEW p \in BOOLEAN
      PROVE  [w EXCEPT !.version = v, !.published = p] \in Row
  BY DEF Row
<1>5. QED
  BY <1>1, <1>2, <1>3, <1>4

LEMMA InitType == Init => TypeInv
  BY IdleType, AddressedType DEF Init, TypeOK, TypeInv

\* Every step of the registry and of a request keeps the types.
LEMMA StepType == TypeInv /\ [Next]_vars => TypeInv'
<1> SUFFICES ASSUME TypeInv, [Next]_vars PROVE TypeInv'
  OBVIOUS
<1>0. TypeOK
  BY DEF TypeInv
<1>1. ASSUME NEW s \in SkillIds, NEW n \in Names, NEW v \in Versions, Publish(s, n, v)
      PROVE  TypeInv'
  <2>1. [state |-> "live", name |-> n, version |-> v, published |-> TRUE,
         downloads |-> 0] \in Row
    BY DEF Row
  <2>2. QED
    BY <1>1, <2>1, RowsType DEF Publish, TypeOK, TypeInv
<1>2. ASSUME NEW s \in SkillIds, DeleteSkill(s) PROVE TypeInv'
  <2>1. [skills[s] EXCEPT !.state = "gone"] \in Row
    BY <1>0, RowWrites DEF TypeOK
  <2>2. skills' \in [SkillIds -> Row]
    BY <1>0, <1>2, <2>1, RowsType DEF DeleteSkill
  <2>3. installed' \in [Tenants -> SUBSET SkillIds]
    BY <1>0, <1>2 DEF DeleteSkill, TypeOK
  <2>4. enabled' \in [Tenants -> [Users -> SUBSET SkillIds]]
    BY <1>0, <1>2 DEF DeleteSkill, TypeOK
  <2>5. QED
    BY <1>2, <2>2, <2>3, <2>4 DEF DeleteSkill, TypeOK, TypeInv
<1>3. ASSUME NEW r \in Requests, RequestStep(r) PROVE TypeInv'
  <2> DEFINE t == req[r].tenant  u == req[r].user  s == req[r].skill
  <2>0. /\ req[r] \in Addressed
        /\ req[r].pc # "idle" => /\ req[r].pc \in {"act", "second"} => s \in SkillIds
                                 /\ req[r].op \in TenantOps \cup UserOps => t \in Tenants
                                 /\ req[r].op \in UserOps => u \in Users
    BY DEF TypeInv, Addressed
  <2>1. CASE Start(r)
    <3>1. PICK op \in Ops, k \in SkillIds \cup Names :
            \E y \in IF op \in RegistryOps THEN {None} ELSE Tenants,
               x \in IF op \in UserOps THEN Users ELSE {None} :
               req' = [req EXCEPT ![r] = [IdleRequest EXCEPT !.op = op, !.pc = "byId",
                         !.tenant = y, !.user = x, !.key = k]]
      BY <2>1 DEF Start
    <3>2. PICK y \in IF op \in RegistryOps THEN {None} ELSE Tenants,
               x \in IF op \in UserOps THEN Users ELSE {None} :
               req' = [req EXCEPT ![r] = [IdleRequest EXCEPT !.op = op, !.pc = "byId",
                         !.tenant = y, !.user = x, !.key = k]]
      BY <3>1
    <3>3. [IdleRequest EXCEPT !.op = op, !.pc = "byId", !.tenant = y, !.user = x,
             !.key = k] \in Addressed
      <4>1. op \in TenantOps \cup UserOps => y \in Tenants
        BY DEF RegistryOps, TenantOps, UserOps
      <4>2. QED
        BY <4>1, StartType
    <3>4. req' \in [Requests -> Addressed]
      BY <3>2, <3>3 DEF TypeInv
    <3>5. QED
      BY <2>1, <3>4, AddressedType DEF Start, TypeOK, TypeInv, Addressed
  <2>2. CASE Get(r)
    <3>1. req' \in [Requests -> Addressed]
      BY <2>2, FoundType, RequestType DEF Get
    <3>2. QED
      BY <2>2, <3>1 DEF Get, TypeOK, TypeInv, Addressed
  <2>3. CASE GetByName(r)
    <3>1. req' \in [Requests -> Addressed]
      BY <2>3, FoundType DEF GetByName
    <3>2. QED
      BY <2>3, <3>1 DEF GetByName, TypeOK, TypeInv, Addressed
  <2>4. CASE IncrementDownloads(r)
    <3>1. s \in SkillIds
      BY <2>0, <2>4 DEF IncrementDownloads, At
    <3>2. [skills[s] EXCEPT !.downloads = @ + 1] \in Row
      BY <1>0, <3>1, RowWrites DEF TypeOK
    <3>3. skills' \in [SkillIds -> Row]
      BY <1>0, <2>4, <3>1, <3>2, RowsType DEF IncrementDownloads, TypeOK
    <3>4. req' \in [Requests -> Addressed]
      BY <2>4, RequestType DEF IncrementDownloads
    <3>5. QED
      BY <2>4, <3>3, <3>4 DEF IncrementDownloads, TypeOK, TypeInv, Addressed
  <2>5. CASE Update(r)
    <3>1. s \in SkillIds /\ req[r].row.version \in Versions \cup {None}
      BY <2>0, <2>5 DEF Update, At, Addressed, Request, Row
    <3>2. PICK v \in Versions \cup {req[r].row.version}, p \in BOOLEAN :
            skills' = [skills EXCEPT ![s].version = v, ![s].published = p]
      BY <2>5 DEF Update
    <3>3. [skills[s] EXCEPT !.version = v, !.published = p] \in Row
      BY <1>0, <3>1, RowWrites DEF TypeOK
    <3>4. skills' = [skills EXCEPT ![s] = [skills[s] EXCEPT !.version = v, !.published = p]]
      BY <1>0, <3>1, <3>2 DEF TypeOK
    <3>5. skills' \in [SkillIds -> Row]
      BY <1>0, <3>1, <3>3, <3>4, RowsType
    <3>6. req' \in [Requests -> Addressed]
      BY <2>5, RequestType DEF Update
    <3>7. QED
      BY <2>5, <3>5, <3>6 DEF Update, TypeOK, TypeInv, Addressed
  <2>6. CASE InstallForTenant(r)
    <3>1. s \in SkillIds /\ t \in Tenants
      BY <2>0, <2>6 DEF InstallForTenant, At, TenantOps
    <3>2. req' \in [Requests -> Addressed]
      BY <2>6, RequestType DEF InstallForTenant
    <3>3. QED
      BY <1>0, <2>6, <3>1, <3>2 DEF InstallForTenant, TypeOK, TypeInv, Addressed
  <2>7. CASE UninstallUsers(r)
    <3>1. s \in SkillIds /\ t \in Tenants
      BY <2>0, <2>7 DEF UninstallUsers, At, TenantOps
    <3>2. req' \in [Requests -> Addressed]
      BY <2>7, RequestType DEF UninstallUsers, At
    <3>3. asked' \in [Tenants -> [Users -> SUBSET SkillIds]]
      BY <1>0, <2>7, <3>1, ForgetType DEF UninstallUsers, TypeOK
    <3>4. enabled' \in [Tenants -> [Users -> SUBSET SkillIds]]
      BY <1>0, <2>7, <3>1 DEF UninstallUsers, TypeOK
    <3>5. QED
      BY <1>0, <2>7, <3>2, <3>3, <3>4 DEF UninstallUsers, TypeOK, TypeInv, Addressed
  <2>8. CASE UninstallTenant(r)
    <3>1. s \in SkillIds /\ t \in Tenants
      BY <2>0, <2>8 DEF UninstallTenant, At, TenantOps
    <3>2. req' \in [Requests -> Addressed]
      BY <2>8, RequestType DEF UninstallTenant
    <3>3. QED
      BY <1>0, <2>8, <3>1, <3>2 DEF UninstallTenant, TypeOK, TypeInv, Addressed
  <2>9. CASE EnableCheck(r)
    <3>1. s \in SkillIds /\ t \in Tenants /\ u \in Users
      BY <2>0, <2>9 DEF EnableCheck, At, UserOps
    <3>2. req' \in [Requests -> Addressed]
      BY <2>9, RequestType DEF EnableCheck, At
    <3>3. asked' \in [Tenants -> [Users -> SUBSET SkillIds]]
      BY <1>0, <2>9, <3>1 DEF EnableCheck, TypeOK
    <3>4. QED
      BY <1>0, <2>9, <3>2, <3>3 DEF EnableCheck, TypeOK, TypeInv, Addressed
  <2>10. CASE EnableInsert(r)
    <3>1. s \in SkillIds /\ t \in Tenants /\ u \in Users
      BY <2>0, <2>10 DEF EnableInsert, At, UserOps
    <3>2. req' \in [Requests -> Addressed]
      BY <2>10, RequestType DEF EnableInsert
    <3>3. enabled' \in [Tenants -> [Users -> SUBSET SkillIds]]
      BY <1>0, <2>10, <3>1 DEF EnableInsert, TypeOK
    <3>4. QED
      BY <1>0, <2>10, <3>2, <3>3 DEF EnableInsert, TypeOK, TypeInv, Addressed
  <2>11. CASE DisableForUser(r)
    <3>1. s \in SkillIds /\ t \in Tenants /\ u \in Users
      BY <2>0, <2>11 DEF DisableForUser, At, UserOps
    <3>2. req' \in [Requests -> Addressed]
      BY <2>11, RequestType DEF DisableForUser
    <3>3. asked' \in [Tenants -> [Users -> SUBSET SkillIds]]
      BY <1>0, <2>11, <3>1, ForgetType DEF DisableForUser
    <3>4. enabled' \in [Tenants -> [Users -> SUBSET SkillIds]]
      BY <1>0, <2>11, <3>1 DEF DisableForUser, TypeOK
    <3>5. QED
      BY <1>0, <2>11, <3>2, <3>3, <3>4 DEF DisableForUser, TypeOK, TypeInv, Addressed
  <2>12. CASE Fail(r)
    <3>1. req' \in [Requests -> Addressed]
      BY <2>12, RequestType DEF Fail
    <3>2. QED
      BY <1>0, <2>12, <3>1 DEF Fail, TypeOK, TypeInv, Addressed
  <2>13. QED
    BY <1>3, <2>1, <2>2, <2>3, <2>4, <2>5, <2>6, <2>7, <2>8, <2>9, <2>10, <2>11, <2>12
       DEF RequestStep
<1>4. CASE UNCHANGED vars
  BY <1>4 DEF vars, TypeOK, TypeInv
<1>5. QED
  BY <1>1, <1>2, <1>3, <1>4 DEF Next

\* Type correctness of the registry, the activations and the requests, however
\* many requests overlap.
THEOREM TypeCorrect == Spec => []TypeOK
<1>1. Spec => []TypeInv
  BY InitType, StepType, PTL DEF Spec
<1>2. TypeInv => TypeOK
  BY DEF TypeInv
<1>3. QED
  BY <1>1, <1>2, PTL

-----------------------------------------------------------------------------
(* Enablements *)

EnabledAsked == \A t \in Tenants, u \in Users : enabled[t][u] \subseteq asked[t][u]

\* A request that is past the check of EnableForUser still counts as asking.
EnablingAsked ==
    \A r \in Requests : At(r, "enable", "second") =>
        req[r].skill \in asked[req[r].tenant][req[r].user]

\* The inductive invariant: rows that an install may bring back to life are
\* covered as well as those of an installed skill, and inserts to come.
AskedInv == TypeInv /\ EnabledAsked /\ EnablingAsked

LEMMA EnablingTypes ==
  ASSUME TypeInv, NEW r \in Requests, At(r, "enable", "second")
  PROVE  req[r].skill \in SkillIds /\ req[r].tenant \in Tenants /\ req[r].user \in Users
  BY DEF TypeInv, Addressed, At, UserOps

\* Taking a skill away leaves alone what a request in flight has asked for.
LEMMA ForgetSpares ==
  ASSUME AskedInv, NEW t \in Tenants, NEW U, NEW s, Forget(t, U, s)
  PROVE  /\ \A q \in Requests : At(q, "enable", "second") =>
                req[q].skill \in asked'[req[q].tenant][req[q].user]
         /\ \A x \in Tenants, u \in Users :
                asked[x][u] \ (IF x = t /\ u \in U THEN {s} ELSE {}) \subseteq asked'[x][u]
<1>1. ASSUME NEW q \in Requests, At(q, "enable", "second")
      PROVE  req[q].skill \in asked'[req[q].tenant][req[q].user]
  <2>1. req[q].tenant \in Tenants /\ req[q].user \in Users
    BY <1>1, EnablingTypes DEF AskedInv
  <2>2. req[q].skill \in asked[req[q].tenant][req[q].user]
    BY <1>1 DEF AskedInv, EnablingAsked
  <2>3. CASE req[q].tenant = t /\ req[q].skill = s
    <3>1. Enabling(t, req[q].user, s)
      BY <1>1, <2>3 DEF Enabling
    <3>2. QED
      BY <2>1, <2>2, <2>3, <3>1 DEF Forget, AskedInv, TypeInv, TypeOK
  <2>4. CASE ~(req[q].tenant = t /\ req[q].skill = s)
    BY <2>1, <2>2, <2>4 DEF Forget, AskedInv, TypeInv, TypeOK
  <2>5. QED
    BY <2>3, <2>4
<1>2. ASSUME NEW x \in Tenants, NEW u \in Users
      PROVE  asked[x][u] \ (IF x = t /\ u \in U THEN {s} ELSE {}) \subseteq asked'[x][u]
  BY DEF Forget, AskedInv, TypeInv, TypeOK
<1>3. QED
  BY <1>1, <1>2

\* A step of one request that does not put it behind the check: the others'
\* claims decide.
LEMMA EnablingKept ==
  ASSUME TypeInv, NEW r \in Requests, NEW w,
         req' = [req EXCEPT ![r] = w], ~(w.op = "enable" /\ w.pc = "second"),
         \A q \in Requests : At(q, "enable", "second") =>
             req[q].skill \in asked'[req[q].tenant][req[q].user]
  PROVE  EnablingAsked'
<1> SUFFICES ASSUME NEW q \in Requests, At(q, "enable", "second")'
             PROVE  req'[q].skill \in asked'[req'[q].tenant][req'[q].user]
  BY DEF EnablingAsked
<1>1. q # r /\ req'[q] = req[q]
  BY DEF At, TypeInv
<1>2. QED
  BY <1>1 DEF At

\* Steps that neither insert an enablement nor take one away.
LEMMA AskedKept ==
  ASSUME AskedInv, TypeInv', UNCHANGED asked, NEW r \in Requests, NEW w,
         req' = [req EXCEPT ![r] = w], ~(w.op = "enable" /\ w.pc = "second"),
         \A t \in Tenants, u \in Users : enabled'[t][u] \subseteq enabled[t][u]
  PROVE  AskedInv'
<1>1. EnablingAsked'
  BY EnablingKept DEF AskedInv, EnablingAsked
<1>2. EnabledAsked'
  BY DEF AskedInv, EnabledAsked
<1>3. QED
  BY <1>1, <1>2 DEF AskedInv

LEMMA InitAsked == Init => AskedInv
  BY InitType DEF Init, AskedInv, EnabledAsked, EnablingAsked, At, IdleRequest

LEMMA StepAsked == AskedInv /\ [Next]_vars => AskedInv'
<1> SUFFICES ASSUME AskedInv, [Next]_vars PROVE AskedInv'
  OBVIOUS
<1>0. TypeInv /\ TypeOK /\ TypeInv'
  BY StepType DEF AskedInv, TypeInv
<1>1. ASSUME NEW s \in SkillIds, NEW n \in Names, NEW v \in Versions, Publish(s, n, v)
      PROVE  AskedInv'
  BY <1>0, <1>1 DEF Publish, AskedInv, EnabledAsked, EnablingAsked, At
<1>2. ASSUME NEW s \in SkillIds, DeleteSkill(s) PROVE AskedInv'
  <2>1. EnabledAsked'
    BY <1>0, <1>2 DEF DeleteSkill, AskedInv, EnabledAsked, TypeOK
  <2>2. QED
    BY <1>0, <1>2, <2>1 DEF DeleteSkill, AskedInv, EnablingAsked, At
<1>3. ASSUME NEW r \in Requests, RequestStep(r) PROVE AskedInv'
  <2> DEFINE t == req[r].tenant  u == req[r].user  s == req[r].skill
  <2>0. /\ req[r] \in Addressed
        /\ req[r].pc # "idle" => /\ req[r].pc \in {"act", "second"} => s \in SkillIds
                                 /\ req[r].op \in TenantOps \cup UserOps => t \in Tenants
                                 /\ req[r].op \in UserOps => u \in Users
    BY <1>0 DEF TypeInv, Addressed
  <2>1. ASSUME Done(r), UNCHANGED <<enabled, asked>> PROVE AskedInv'
    BY <1>0, <2>1, AskedKept DEF Done, IdleRequest
  <2>2. CASE Start(r) \/ Get(r) \/ GetByName(r)
    <3>1. PICK w : req' = [req EXCEPT ![r] = w] /\ w.pc \in {"byId", "byName", "act"}
      <4>1. CASE Start(r)
        <5>1. PICK o, k, y, x : req' = [req EXCEPT ![r] = [IdleRequest EXCEPT !.op = o,
                                   !.pc = "byId", !.tenant = y, !.user = x, !.key = k]]
          BY <4>1 DEF Start
        <5>2. [IdleRequest EXCEPT !.op = o, !.pc = "byId", !.tenant = y, !.user = x,
                                  !.key = k].pc = "byId"
          BY DEF IdleRequest
        <5>3. QED
          BY <5>1, <5>2
      <4>2. ASSUME NEW x \in SkillIds, Found(r, x)
            PROVE  \E w : req' = [req EXCEPT ![r] = w] /\ w.pc \in {"byId", "byName", "act"}
        <5> DEFINE w == [req[r] EXCEPT !.pc = "act", !.key = None, !.skill = x,
                           !.row = IF req[r].op = "update" THEN skills[x] ELSE NoRow]
        <5>1. req' = [req EXCEPT ![r] = w]
          BY <4>2, <1>0 DEF Found, TypeInv
        <5>2. w.pc = "act"
          BY <2>0 DEF Addressed, Request
        <5> HIDE DEF w
        <5>3. QED
          BY <5>1, <5>2
      <4>3. CASE req' = [req EXCEPT ![r].pc = "byName"]
        <5>1. [req[r] EXCEPT !.pc = "byName"].pc = "byName"
          BY <2>0 DEF Addressed, Request
        <5>2. QED
          BY <4>3, <5>1, <1>0 DEF TypeInv
      <4>4. QED
        BY <2>2, <4>1, <4>2, <4>3 DEF Get, GetByName
    <3>2. UNCHANGED <<enabled, asked>>
      BY <2>2 DEF Start, Get, GetByName
    <3>3. QED
      BY <1>0, <3>1, <3>2, AskedKept
  <2>3. CASE IncrementDownloads(r) \/ Update(r) \/ InstallForTenant(r)
             \/ UninstallTenant(r) \/ Fail(r)
    BY <2>1, <2>3 DEF IncrementDownloads, Update, InstallForTenant, UninstallTenant, Fail
  <2>4. CASE UninstallUsers(r)
    <3>1. s \in SkillIds /\ t \in Tenants /\ req[r].op = "uninstall"
      BY <2>0, <2>4 DEF UninstallUsers, At, TenantOps
    <3> DEFINE w == [req[r] EXCEPT !.pc = "second"]
    <3>2. req' = [req EXCEPT ![r] = w] /\ w.op = "uninstall"
      BY <1>0, <2>0, <2>4, <3>1 DEF UninstallUsers, TypeInv, Addressed, Request
    <3>3. CASE UNCHANGED <<enabled, asked>>
      <4>1. ~(w.op = "enable" /\ w.pc = "second")
        BY <3>2
      <4> HIDE DEF w
      <4>2. QED
        BY <1>0, <3>2, <3>3, <4>1, AskedKept
    <3>4. CASE /\ enabled' = [enabled EXCEPT ![t] = [x \in Users |-> enabled[t][x] \ {s}]]
               /\ Forget(t, Users, s)
      <4>1. ~(w.op = "enable" /\ w.pc = "second")
        BY <3>2
      <4>2. EnablingAsked'
        <5> HIDE DEF w
        <5>1. QED
          BY <1>0, <3>1, <3>2, <3>4, <4>1, ForgetSpares, EnablingKept
      <4>3. EnabledAsked'
        BY <1>0, <3>1, <3>4, ForgetSpares DEF EnabledAsked, AskedInv, TypeOK
      <4>4. QED
        BY <1>0, <4>2, <4>3 DEF AskedInv
    <3>5. QED
      BY <2>4, <3>3, <3>4 DEF UninstallUsers
  <2>5. CASE EnableCheck(r)
    <3>1. s \in SkillIds /\ t \in Tenants /\ u \in Users
      BY <2>0, <2>5 DEF EnableCheck, At, UserOps
    <3>2. \A x \in Tenants, y \in Users : asked[x][y] \subseteq asked'[x][y]
      BY <1>0, <2>5, <3>1 DEF EnableCheck, TypeOK
    <3>3. s \in asked'[t][u]
      BY <1>0, <2>5, <3>1 DEF EnableCheck, TypeOK
    <3>4. EnabledAsked'
      BY <2>5, <3>2 DEF EnableCheck, AskedInv, EnabledAsked
    <3>5. ASSUME NEW q \in Requests, At(q, "enable", "second")'
          PROVE  req'[q].skill \in asked'[req'[q].tenant][req'[q].user]
      <4>1. CASE q = r
        <5>1. req'[r].skill = s /\ req'[r].tenant = t /\ req'[r].user = u
          BY <1>0, <2>0, <2>5 DEF EnableCheck, TypeInv, Addressed, Request
        <5>2. QED
          BY <3>3, <4>1, <5>1
      <4>2. CASE q # r
        <5>1. req'[q] = req[q]
          BY <1>0, <2>5, <4>2 DEF EnableCheck, TypeInv
        <5>2. At(q, "enable", "second")
          BY <3>5, <5>1 DEF At
        <5>3. QED
          BY <1>0, <3>2, <5>1, <5>2, EnablingTypes DEF AskedInv, EnablingAsked
      <4>3. QED
        BY <4>1, <4>2
    <3>6. QED
      BY <1>0, <3>4, <3>5 DEF AskedInv, EnablingAsked
  <2>6. CASE EnableInsert(r)
    <3>1. t \in Tenants /\ u \in Users /\ s \in asked[t][u]
      BY <1>0, <2>6, EnablingTypes DEF EnableInsert, AskedInv, EnablingAsked
    <3>2. EnabledAsked'
      BY <1>0, <2>6, <3>1 DEF EnableInsert, AskedInv, EnabledAsked, TypeOK
    <3>3. EnablingAsked'
      BY <1>0, <2>6, EnablingKept DEF EnableInsert, Done, IdleRequest, AskedInv, EnablingAsked
    <3>4. QED
      BY <1>0, <3>2, <3>3 DEF AskedInv
  <2>7. CASE DisableForUser(r)
    <3>1. s \in SkillIds /\ t \in Tenants /\ u \in Users
      BY <2>0, <2>7 DEF DisableForUser, At, UserOps
    <3>2. Forget(t, {u}, s) /\ Done(r)
      BY <2>7 DEF DisableForUser
    <3>3. EnabledAsked'
      BY <1>0, <2>7, <3>1, <3>2, ForgetSpares
         DEF DisableForUser, AskedInv, EnabledAsked, TypeOK
    <3>4. EnablingAsked'
      <4>1. \A q \in Requests : At(q, "enable", "second") =>
                req[q].skill \in asked'[req[q].tenant][req[q].user]
        BY <3>1, <3>2, ForgetSpares
      <4>2. QED
        BY <1>0, <3>2, <4>1, EnablingKept DEF Done, IdleRequest
    <3>5. QED
      BY <1>0, <3>3, <3>4 DEF AskedInv
  <2>8. QED
    BY <1>3, <2>2, <2>3, <2>4, <2>5, <2>6, <2>7 DEF RequestStep
<1>4. CASE UNCHANGED vars
  BY <1>0, <1>4 DEF vars, AskedInv, EnabledAsked, EnablingAsked, At
<1>5. QED
  BY <1>1, <1>2, <1>3, <1>4 DEF Next

\* No agent receives a skill its user did not ask for since it was last taken
\* away, whatever installs, uninstalls and enables of any members overlap.
THEOREM ActiveAsked == Spec => []ActiveWasAsked
<1>1. Spec => []AskedInv
  BY InitAsked, StepAsked, PTL DEF Spec
<1>2. AskedInv => ActiveWasAsked
  BY DEF AskedInv, EnabledAsked, ActiveWasAsked, ListActiveSkills
<1>3. QED
  BY <1>1, <1>2, PTL

-----------------------------------------------------------------------------
(* Downloads *)

\* A row that was never created has no downloads that its INSERT could reset.
UnbornUncounted == \A s \in SkillIds : skills[s].state = "unborn" => skills[s].downloads = 0

\* One step of the registry never lowers a counter.
LEMMA StepCounts ==
  ASSUME TypeInv, UnbornUncounted, [Next]_vars
  PROVE  /\ \A s \in SkillIds : skills'[s].downloads >= skills[s].downloads
         /\ UnbornUncounted'
<1>0. /\ skills \in [SkillIds -> Row]
      /\ \A s \in SkillIds : skills[s].downloads \in Nat /\ skills[s] \in Row
  BY RowWrites DEF TypeInv, TypeOK
<1>1. CASE UNCHANGED skills
  BY <1>0, <1>1 DEF UnbornUncounted
<1>2. ASSUME NEW x \in SkillIds, NEW w, skills' = [skills EXCEPT ![x] = w],
             w.downloads \in Nat, w.downloads >= skills[x].downloads,
             w.state = "unborn" => skills[x].state = "unborn" /\ w.downloads = 0
      PROVE  /\ \A s \in SkillIds : skills'[s].downloads >= skills[s].downloads
             /\ UnbornUncounted'
  BY <1>0, <1>2 DEF UnbornUncounted
<1>3. ASSUME NEW s \in SkillIds, NEW n \in Names, NEW v \in Versions, Publish(s, n, v)
      PROVE  /\ \A x \in SkillIds : skills'[x].downloads >= skills[x].downloads
             /\ UnbornUncounted'
  <2> DEFINE w == [state |-> "live", name |-> n, version |-> v, published |-> TRUE,
                   downloads |-> 0]
  <2>1. skills' = [skills EXCEPT ![s] = w] /\ skills[s].downloads = 0
    BY <1>3 DEF Publish, UnbornUncounted
  <2>2. w.state = "live" /\ w.downloads \in Nat /\ w.downloads >= skills[s].downloads
    BY <2>1
  <2> HIDE DEF w
  <2>3. QED
    BY <1>2, <2>1, <2>2
<1>4. ASSUME NEW s \in SkillIds, DeleteSkill(s)
      PROVE  /\ \A x \in SkillIds : skills'[x].downloads >= skills[x].downloads
             /\ UnbornUncounted'
  <2> DEFINE w == [skills[s] EXCEPT !.state = "gone"]
  <2>1. skills' = [skills EXCEPT ![s] = w]
    BY <1>0, <1>4 DEF DeleteSkill
  <2>2. w.downloads = skills[s].downloads /\ w.state = "gone"
    BY <1>0 DEF Row
  <2> HIDE DEF w
  <2>3. w.downloads \in Nat /\ w.downloads >= skills[s].downloads
    BY <1>0, <2>2
  <2>4. QED
    BY <1>2, <2>1, <2>2, <2>3
<1>5. ASSUME NEW r \in Requests, RequestStep(r)
      PROVE  /\ \A x \in SkillIds : skills'[x].downloads >= skills[x].downloads
             /\ UnbornUncounted'
  <2> DEFINE s == req[r].skill
  <2>0. req[r].pc = "act" => s \in SkillIds
    BY DEF TypeInv, Addressed
  <2>1. CASE IncrementDownloads(r) /\ Live(s)
    <3> DEFINE w == [skills[s] EXCEPT !.downloads = @ + 1]
    <3>1. s \in SkillIds
      BY <2>0, <2>1 DEF IncrementDownloads, At
    <3>2. skills' = [skills EXCEPT ![s] = w]
      BY <1>0, <2>1, <3>1 DEF IncrementDownloads
    <3>3. w.downloads = skills[s].downloads + 1 /\ w.state = "live"
      BY <1>0, <2>1, <3>1 DEF Row, Live
    <3>4. w.downloads \in Nat /\ w.downloads >= skills[s].downloads
      <4> HIDE DEF w
      <4>1. QED
        BY <1>0, <3>1, <3>3
    <3> HIDE DEF w
    <3>5. QED
      BY <1>2, <3>1, <3>2, <3>3, <3>4
  <2>2. CASE Update(r)
    <3>1. s \in SkillIds /\ Live(s)
      BY <2>0, <2>2 DEF Update, At
    <3>2. PICK v \in Versions \cup {req[r].row.version}, p \in BOOLEAN :
            skills' = [skills EXCEPT ![s].version = v, ![s].published = p]
      BY <2>2 DEF Update
    <3> DEFINE w == [skills[s] EXCEPT !.version = v, !.published = p]
    <3>3. skills' = [skills EXCEPT ![s] = w]
      BY <1>0, <3>1, <3>2
    <3>4. w.downloads = skills[s].downloads /\ w.state = "live"
      BY <1>0, <3>1 DEF Row, Live
    <3> HIDE DEF w
    <3>5. w.downloads \in Nat /\ w.downloads >= skills[s].downloads
      BY <1>0, <3>1, <3>4
    <3>6. QED
      BY <1>2, <3>1, <3>3, <3>4, <3>5
  <2>3. CASE ~(IncrementDownloads(r) /\ Live(s)) /\ ~Update(r)
    <3>1. UNCHANGED skills
      BY <1>5, <2>3 DEF RequestStep, Start, Get, GetByName, IncrementDownloads,
         InstallForTenant, UninstallUsers, UninstallTenant, EnableCheck, EnableInsert,
         DisableForUser, Fail
    <3>2. QED
      BY <1>1, <3>1
  <2>4. QED
    BY <2>1, <2>2, <2>3
<1>6. CASE UNCHANGED vars
  BY <1>1, <1>6 DEF vars
<1>7. QED
  BY <1>3, <1>4, <1>5, <1>6 DEF Next

\* A counted download is never undone, although handleUpdateSkill acts on a row
\* it read any number of steps before.
THEOREM DownloadsStayCounted == Spec => DownloadsCounted
<1>1. Init => TypeInv /\ UnbornUncounted
  BY InitType DEF Init, NoRow, UnbornUncounted
<1>2. TypeInv /\ UnbornUncounted /\ [Next]_vars => (TypeInv /\ UnbornUncounted)'
  BY StepType, StepCounts
<1>3. TypeInv /\ UnbornUncounted /\ [Next]_vars =>
        [\A s \in SkillIds : skills'[s].downloads >= skills[s].downloads]_vars
  BY StepCounts
<1>4. QED
  BY <1>1, <1>2, <1>3, PTL DEF Spec, DownloadsCounted

=============================================================================
