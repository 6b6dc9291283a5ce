------------------------------- MODULE Skills -------------------------------
(***************************************************************************)
(* The skill registry (the Forge) and the activation of skills.            *)
(*                                                                         *)
(* A skill is published once for everybody, installed for a tenant and     *)
(* enabled by a user of that tenant; dispatch hands an agent the skills    *)
(* that are both installed and enabled (SkillRepo.ListActiveSkills).  Each  *)
(* HTTP request is a process of Requests and each SQL statement an action:  *)
(* every handler first looks its skill up, by id and then by name, and     *)
(* acts on the id it found, and nothing runs in a transaction.             *)
(*                                                                         *)
(* A row keeps what the properties tell apart: its name, one column an     *)
(* update overwrites (version, for the manifest), published and downloads. *)
(* Tenants and users are not deleted here (see Accounts).                  *)
(***************************************************************************)
EXTENDS Integers, FiniteSets

CONSTANTS
    Tenants, Users,
    SkillIds,      \* bound: rows ever created
    Names,         \* the names skills are published under
    Versions,
    MaxDownloads,  \* bound: GETs counted per skill
    Requests,      \* bound: requests in flight at once
    None

ASSUME MaxDownloadsAssumption == MaxDownloads \in Nat
ASSUME NoneAssumption ==
    /\ None \notin Tenants \cup Users \cup SkillIds
    /\ None \notin Names \cup Versions
ASSUME KeysAssumption == SkillIds \cap Names = {}

VARIABLES
    skills,     \* the table skills
    installed,  \* tenant_skills: tenant -> set of skills
    enabled,    \* user_skills: tenant -> user -> set of skills
    asked,      \* history: who asked for a skill since it was last taken away
    req         \* the requests in flight

vars == <<skills, installed, enabled, asked, req>>

-----------------------------------------------------------------------------
Row == [state : {"unborn", "live", "gone"}, name : Names \cup {None},
        version : Versions \cup {None}, published : BOOLEAN, downloads : Nat]

NoRow == [state |-> "unborn", name |-> None, version |-> None,
          published |-> FALSE, downloads |-> 0]

RegistryOps == {"get", "update"}
TenantOps == {"install", "uninstall"}
UserOps == {"enable", "disable"}
Ops == RegistryOps \cup TenantOps \cup UserOps

Request == [op : Ops \cup {None},
            pc : {"idle", "byId", "byName", "act", "second"},
            tenant : Tenants \cup {None}, user : Users \cup {None},
            key : SkillIds \cup Names \cup {None}, skill : SkillIds \cup {None},
            row : Row]

IdleRequest == [op |-> None, pc |-> "idle", tenant |-> None, user |-> None,
                key |-> None, skill |-> None, row |-> NoRow]

TypeOK ==
    /\ skills \in [SkillIds -> Row]
    /\ installed \in [Tenants -> SUBSET SkillIds]
    /\ enabled \in [Tenants -> [Users -> SUBSET SkillIds]]
    /\ asked \in [Tenants -> [Users -> SUBSET SkillIds]]
    /\ req \in [Requests -> Request]

Init ==
    /\ skills = [s \in SkillIds |-> NoRow]
    /\ installed = [t \in Tenants |-> {}]
    /\ enabled = [t \in Tenants |-> [u \in Users |-> {}]]
    /\ asked = [t \in Tenants |-> [u \in Users |-> {}]]
    /\ req = [r \in Requests |-> IdleRequest]

Live(s) == skills[s].state = "live"

\* ListActiveSkills and ListAvailableSkills join the same three tables.
Available(t) == {s \in installed[t] : Live(s)}
ListActiveSkills(t, u) == Available(t) \cap enabled[t][u]

At(r, op, pc) == req[r].op = op /\ req[r].pc = pc
Done(r) == req' = [req EXCEPT ![r] = IdleRequest]

\* Users whose enable request is past its check and may still insert.
Enabling(t, u, s) ==
    \E r \in Requests : /\ At(r, "enable", "second")
                        /\ req[r].tenant = t /\ req[r].user = u /\ req[r].skill = s

\* The rows (t, u, s) with u in U are deleted: an enable in flight survives.
Forget(t, U, s) ==
    asked' = [asked EXCEPT ![t] = [u \in Users |->
                IF u \in U /\ ~Enabling(t, u, s)
                THEN asked[t][u] \ {s} ELSE asked[t][u]]]

-----------------------------------------------------------------------------
\* Publish and delete: one statement each.

\* handlePublishSkill and SkillRepo.Create: the name is UNIQUE.  The providers
\* that the manifest declares are registered after it (Connections).
Publish(s, n, v) ==
    /\ skills[s].state = "unborn"
    /\ \A x \in SkillIds : Live(x) => skills[x].name # n
    /\ skills' = [skills EXCEPT ![s] = [state |-> "live", name |-> n,
                    version |-> v, published |-> TRUE, downloads |-> 0]]
    /\ UNCHANGED <<installed, enabled, asked, req>>

\* handleDeleteSkill and SkillRepo.Delete: installations and enablements go by
\* ON DELETE CASCADE.
DeleteSkill(s) ==
    /\ Live(s)
    /\ skills' = [skills EXCEPT ![s].state = "gone"]
    /\ installed' = [t \in Tenants |-> installed[t] \ {s}]
    /\ enabled' = [t \in Tenants |-> [u \in Users |-> enabled[t][u] \ {s}]]
    /\ UNCHANGED <<asked, req>>

-----------------------------------------------------------------------------
\* The lookup every other handler starts with.  Tenant and user are those of
\* the claims, kept where the handler uses them.

Start(r) ==
    /\ req[r].pc = "idle"
    /\ \E op \in Ops, k \in SkillIds \cup Names :
       \E t \in IF op \in RegistryOps THEN {None} ELSE Tenants,
          u \in IF op \in UserOps THEN Users ELSE {None} :
         req' = [req EXCEPT ![r] = [IdleRequest EXCEPT !.op = op, !.pc = "byId",
                    !.tenant = t, !.user = u, !.key = k]]
    /\ UNCHANGED <<skills, installed, enabled, asked>>

\* Only handleUpdateSkill goes on with the columns it read.
Found(r, s) ==
    req' = [req EXCEPT ![r].pc = "act", ![r].key = None, ![r].skill = s,
              ![r].row = IF req[r].op = "update" THEN skills[s] ELSE NoRow]

\* SkillRepo.Get: a name is no UUID; any error sends the handler to GetByName,
\* except handleUpdateSkill, which gives up.
Get(r) ==
    /\ req[r].pc = "byId"
    /\ \/ req[r].key \in SkillIds /\ Live(req[r].key) /\ Found(r, req[r].key)
       \/ req[r].op # "update" /\ req' = [req EXCEPT ![r].pc = "byName"]
    /\ UNCHANGED <<skills, installed, enabled, asked>>

GetByName(r) ==
    /\ req[r].pc = "byName"
    /\ \E s \in SkillIds : Live(s) /\ skills[s].name = req[r].key /\ Found(r, s)
    /\ UNCHANGED <<skills, installed, enabled, asked>>

-----------------------------------------------------------------------------
\* Mutant of IncrementDownloads: the counter runs the other way.
DecrementDownloads(r) ==
    /\ At(r, "get", "act")
    /\ Live(req[r].skill)
    /\ skills' = [skills EXCEPT ![req[r].skill].downloads = @ - 1]
    /\ Done(r)
    /\ UNCHANGED <<installed, enabled, asked>>

\* handleGetSkill counts the download of a row that may be gone by now.
IncrementDownloads(r) ==
    /\ At(r, "get", "act")
    /\ skills[req[r].skill].downloads < MaxDownloads
    /\ skills' = IF Live(req[r].skill)
                 THEN [skills EXCEPT ![req[r].skill].downloads = @ + 1]
                 ELSE skills
    /\ Done(r)
    /\ UNCHANGED <<installed, enabled, asked>>

\* Mutant of Update: the UPDATE writes every column of the row that was read.
UpdateWholeRow(r) ==
    /\ At(r, "update", "act")
    /\ Live(req[r].skill)
    /\ \E v \in Versions \cup {req[r].row.version}, p \in BOOLEAN :
         skills' = [skills EXCEPT ![req[r].skill] =
                      [req[r].row EXCEPT !.version = v, !.published = p]]
    /\ Done(r)
    /\ UNCHANGED <<installed, enabled, asked>>

\* handleUpdateSkill: the columns of the request, and those of the row read
\* before for the fields it leaves out; no name and no counter.  A row that
\* was deleted in between is not found.
Update(r) ==
    /\ At(r, "update", "act")
    /\ Live(req[r].skill)
    /\ \E v \in Versions \cup {req[r].row.version}, p \in BOOLEAN :
         skills' = [skills EXCEPT ![req[r].skill].version = v,
                                  ![req[r].skill].published = p]
    /\ Done(r)
    /\ UNCHANGED <<installed, enabled, asked>>

\* InstallForTenant: ON CONFLICT DO NOTHING; the foreign key needs the row.
InstallForTenant(r) ==
    /\ At(r, "install", "act") /\ Live(req[r].skill)
    /\ installed' = [installed EXCEPT ![req[r].tenant] = @ \cup {req[r].skill}]
    /\ Done(r)
    /\ UNCHANGED <<skills, enabled, asked>>

\* Mutant of UninstallUsers: the enablements are left to the next statement,
\* which does not touch them.
UninstallKeepsUsers(r) ==
    /\ At(r, "uninstall", "act")
    /\ Forget(req[r].tenant, Users, req[r].skill)
    /\ req' = [req EXCEPT ![r].pc = "second"]
    /\ UNCHANGED <<skills, installed, enabled>>

\* UninstallForTenant, first statement; its error is dropped.
UninstallUsers(r) ==
    LET t == req[r].tenant  s == req[r].skill IN
    /\ At(r, "uninstall", "act")
    /\ \/ /\ enabled' = [enabled EXCEPT ![t] = [u \in Users |-> enabled[t][u] \ {s}]]
          /\ Forget(t, Users, s)
       \/ UNCHANGED <<enabled, asked>>
    /\ req' = [req EXCEPT ![r].pc = "second"]
    /\ UNCHANGED <<skills, installed>>

UninstallTenant(r) ==
    /\ At(r, "uninstall", "second")
    /\ installed' = [installed EXCEPT ![req[r].tenant] = @ \ {req[r].skill}]
    /\ Done(r)
    /\ UNCHANGED <<skills, enabled, asked>>

\* EnableForUser, the check that the tenant has the skill.
EnableCheck(r) ==
    LET t == req[r].tenant  u == req[r].user  s == req[r].skill IN
    /\ At(r, "enable", "act") /\ s \in installed[t]
    /\ asked' = [asked EXCEPT ![t][u] = @ \cup {s}]
    /\ req' = [req EXCEPT ![r].pc = "second"]
    /\ UNCHANGED <<skills, installed, enabled>>

\* The insert: the foreign key names skills, not tenant_skills, so the skill
\* may have been uninstalled since the check.
EnableInsert(r) ==
    /\ At(r, "enable", "second") /\ Live(req[r].skill)
    /\ enabled' = [enabled EXCEPT ![req[r].tenant][req[r].user] = @ \cup {req[r].skill}]
    /\ Done(r)
    /\ UNCHANGED <<skills, installed, asked>>

DisableForUser(r) ==
    LET t == req[r].tenant  u == req[r].user  s == req[r].skill IN
    /\ At(r, "disable", "act")
    /\ enabled' = [enabled EXCEPT ![t][u] = @ \ {s}]
    /\ Forget(t, {u}, s)
    /\ Done(r)
    /\ UNCHANGED <<skills, installed>>

\* A statement fails or finds nothing, the client goes away, or the gateway
\* dies: what the request wrote stays.
Fail(r) ==
    /\ req[r].pc # "idle" /\ Done(r)
    /\ UNCHANGED <<skills, installed, enabled, asked>>

-----------------------------------------------------------------------------
RequestStep(r) ==
    \/ Start(r) \/ Get(r) \/ GetByName(r)
    \/ IncrementDownloads(r) \/ Update(r)
    \/ InstallForTenant(r) \/ UninstallUsers(r) \/ UninstallTenant(r)
    \/ EnableCheck(r) \/ EnableInsert(r) \/ DisableForUser(r)
    \/ Fail(r)

Next ==
    \/ \E r \in Requests : RequestStep(r)
    \/ \E s \in SkillIds, n \in Names, v \in Versions : Publish(s, n, v)
    \/ \E s \in SkillIds : DeleteSkill(s)

Spec == Init /\ [][Next]_vars

-----------------------------------------------------------------------------
\* A skill that an agent of a user receives was asked for by that user after
\* the last time it was effectively taken from them: an installation by
\* another member brings no earlier enablement back, unless the uninstall's
\* first delete failed or an enable overlapped it (UninstallForTenant's "also
\* removes user enablements").
ActiveWasAsked ==
    \A t \in Tenants, u \in Users : ListActiveSkills(t, u) \subseteq asked[t][u]

\* No request undoes a counted download, although handleUpdateSkill writes back
\* a row it read before others were counted.
DownloadsCounted ==
    [][\A s \in SkillIds : skills'[s].downloads >= skills[s].downloads]_vars

=============================================================================
