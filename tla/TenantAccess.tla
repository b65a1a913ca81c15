---------------------------- MODULE TenantAccess ----------------------------
(***************************************************************************)
(* What the members of one tenant may use: their roles, their admission to *)
(* applications and the tenant's subscriptions (tenantadmin svctenant/     *)
(* user.go, machine_user.go, role.go, application_access.go; platformadmin *)
(* svctenantapplication, svcapplication; pkg/core/application/access.go;   *)
(* pkg/core/tenant/provision.go).  Requests run concurrently under READ    *)
(* COMMITTED: each step is what one request reads, or its commit.          *)
(*                                                                         *)
(* The tenant has the console, which is built in, and one product, whose   *)
(* role template the platform publishes to its subscribers.                *)
(***************************************************************************)
EXTENDS Rows, SequencesExt

CONSTANTS
  Person,    \* members who are people
  Machine,   \* service accounts
  Admins,    \* the people who administer the tenant in the beginning
  Role,      \* identifiers of roles, each used once
  AdminRole, \* the built-in administrator's role
  Code,      \* codes a role template may have
  Call,      \* requests under way at one time
  MaxCalls   \* bound: requests in a behaviour

ASSUME ConstantsAssumption ==
  /\ Person \cap Machine = {}
  /\ Admins \subseteq Person /\ Admins # {}
  /\ IsFiniteSet(Admins) /\ IsFiniteSet(Role) /\ IsFiniteSet(Call)
  /\ AdminRole \in Role
  /\ MaxCalls \in Nat

VARIABLES
  role,     \* live roles: id -> [app, kind, code]
  unused,   \* identifiers of roles not drawn yet
  bound,    \* live user_role rows: id -> [user, role]
  grant,    \* user_application: user, app -> "none", "off" or the source that enabled it
  sub,      \* tenant_application: app -> "none", "enable" or "disable"
  template, \* the product's role template: a set of codes
  call,     \* what each request is about to do, with its local variables
  begun,    \* number of requests of each kind that have begun
  mixed     \* history: kinds of request that have overlapped, and whether for one user

vars == <<role, unused, bound, grant, sub, template, call, begun, mixed>>

App == {"console", "product"}
User == Person \cup Machine
Kinds == {"roles", "replace", "role", "subscription", "publish"}
Idle == [op |-> "idle"]

Builtin == [app |-> "console", kind |-> "admin", code |-> ""]
Provided(code) == [app |-> "product", kind |-> "template", code |-> code]

\* The tenant was provided with its administrators; it may have subscribed to
\* the product since, and have the roles of its template.
Init ==
  /\ \E provided \in UNION {[codes -> Role \ {AdminRole}] : codes \in SUBSET Code} :
       /\ \A x, y \in DOMAIN provided : provided[x] = provided[y] => x = y
       /\ template = DOMAIN provided
       /\ role = Adding([r \in {provided[x] : x \in template} |->
                           Provided(CHOOSE x \in template : provided[x] = r)], AdminRole, Builtin)
       /\ sub \in {s \in [App -> {"none", "enable"}] :
                     s["console"] = "enable" /\ (s["product"] = "none" => template = {})}
  /\ unused = Role \ DOMAIN role
  /\ LET order == SetToSeq(Admins)
     IN bound = [i \in DOMAIN order |-> [user |-> order[i], role |-> AdminRole]]
  /\ grant = [u \in User |-> [a \in App |-> IF u \in Admins /\ a = "console" THEN "provision" ELSE "none"]]
  /\ call = [c \in Call |-> Idle]
  /\ begun = [kind \in Kinds |-> 0]
  /\ mixed = {}

-----------------------------------------------------------------------------
(* Requests. *)

Active(c) == call[c].op # "idle"
At(c, op, step) == Active(c) /\ call[c].op = op /\ call[c].step = step

Kind(op) == IF op = "deleteRole" THEN "role" ELSE IF op = "subscribe" THEN "subscription" ELSE op
UserOf(r) == IF "user" \in DOMAIN r THEN {r.user} ELSE {}

Ready(c) ==
  /\ ~Active(c)
  /\ begun["roles"] + begun["replace"] + begun["role"] + begun["subscription"] + begun["publish"] < MaxCalls

Count(kind) == begun' = [begun EXCEPT ![kind] = @ + 1]

Begin(c, request) ==
  /\ Count(Kind(request.op))
  /\ call' = [call EXCEPT ![c] = request]
  /\ mixed' = mixed \cup
       {[kinds |-> {Kind(request.op), Kind(call[o].op)},
         same |-> UserOf(request) \cap UserOf(call[o]) # {}] : o \in {x \in Call : Active(x)}}

Goto(c, request) == call' = [call EXCEPT ![c] = request] /\ UNCHANGED <<begun, mixed>>
Go(c, step) == Goto(c, [call[c] EXCEPT !.step = step])
End(c) == Goto(c, Idle)

tables == <<role, unused, bound, grant, sub, template>>

-----------------------------------------------------------------------------
(* user_role rows.  uk_user_role_active admits one row per user and role.   *)

\* The identifiers of bindings that requests know.
Holding(field) == {c \in Call : field \in DOMAIN call[c]}
Remembered == UNION {call[c].old : c \in Holding("old")}

RowsOf(u) == {i \in DOMAIN bound : bound[i].user = u}

\* Mutant of HoldersOf: the first binding only.
FirstHolderOf(roles) ==
  {i \in DOMAIN bound : bound[i].role \in roles /\ \A j \in DOMAIN bound : bound[j].role \in roles => i <= j}

HoldersOf(roles) == {i \in DOMAIN bound : bound[i].role \in roles}

\* roleAppMapOf: a row whose role is gone belongs to no application.
RowsIn(rows, apps) == {i \in rows : bound[i].role \in DOMAIN role /\ role[bound[i].role].app \in apps}

IsAdmin(r) == r \in DOMAIN role /\ role[r].kind = "admin"

-----------------------------------------------------------------------------
(* hasOtherSystemAdminHolder: a request that would leave the tenant without *)
(* an administrator is refused.  It reads outside any transaction.          *)

\* First the user's present roles: is there an administrator's role to lose?
CheckTarget(c) ==
  /\ Active(c) /\ call[c].step = "target"
  /\ LET r == call[c]
         loses == (\E i \in RowsOf(r.user) : IsAdmin(bound[i].role)) /\ ~\E x \in r.left : IsAdmin(x)
     IN Go(c, IF loses THEN "others" ELSE "grants")
  /\ UNCHANGED tables

\* Mutant of CheckOthers: the user's own role is counted.
CheckAnybody(c) ==
  /\ Active(c) /\ call[c].step = "others"
  /\ IF \E i \in DOMAIN bound : IsAdmin(bound[i].role) THEN Go(c, "grants") ELSE End(c)
  /\ UNCHANGED tables

\* Then everybody else's.
CheckOthers(c) ==
  /\ Active(c) /\ call[c].step = "others"
  /\ IF \E i \in DOMAIN bound : bound[i].user # call[c].user /\ IsAdmin(bound[i].role)
     THEN Go(c, "grants")
     ELSE End(c)
  /\ UNCHANGED tables

-----------------------------------------------------------------------------
(* access.go: EnsureGrant reads the row and writes it only if there is      *)
(* something to change.  uk_user_application_active refuses a second row.   *)

Enabled(g) == g \notin {"none", "off"}

\* Mutant of EnsureGrant: a row that is there is taken for an admission.
EnsureGrantOnce(before, seen, source) == IF seen = "none" THEN source ELSE before

EnsureGrant(before, seen, source) ==
  IF seen = "none" \/ seen # source THEN source ELSE before

Refused(before, seen) == seen = "none" /\ before # "none"

-----------------------------------------------------------------------------
(* user.go, machine_user.go: UpdateRoles replaces the user's roles in one   *)
(* application.  A service account may not be given an administrator's role *)
(* and is not checked for the last one.                                     *)

UpdateRoles(c) ==
  /\ Ready(c)
  /\ \E u \in User, a \in App : \E R \in SUBSET {r \in DOMAIN role : role[r].app = a} :
       /\ u \in Machine => \A r \in R : ~IsAdmin(r)
       /\ LET old == RowsIn(RowsOf(u), {a})
              left == {bound[i].role : i \in RowsOf(u) \ old} \cup R
          IN Begin(c, [op |-> "roles", step |-> IF u \in Machine THEN "grants" ELSE "target",
                       user |-> u, app |-> a, new |-> R, old |-> old, left |-> left, seen |-> "none"])
  /\ UNCHANGED tables

\* In the transaction: EnsureGrant reads the admission, if roles are given.
RolesReadGrant(c) ==
  /\ At(c, "roles", "grants")
  /\ Goto(c, [call[c] EXCEPT !.step = "commit", !.seen = grant[call[c].user][call[c].app]])
  /\ UNCHANGED tables

\* The rows after the transaction.
Rebound(r) == Put(Dropping(bound, r.old), Remembered, {[user |-> r.user, role |-> x] : x \in r.new})

RolesCommit(c) ==
  /\ At(c, "roles", "commit")
  /\ LET r == call[c]  before == grant[r.user][r.app] IN
     IF r.new # {} /\ (~Unique(Rebound(r)) \/ Refused(before, r.seen))
     THEN UNCHANGED <<bound, grant>>
     ELSE /\ bound' = Rebound(r)
          /\ grant' = IF r.new = {} THEN grant
                      ELSE [grant EXCEPT ![r.user][r.app] = EnsureGrant(@, r.seen, "role")]
  /\ End(c)
  /\ UNCHANGED <<role, unused, sub, template>>

-----------------------------------------------------------------------------
(* access.go: Replace makes S the user's admissions and withdraws the roles *)
(* in the applications that are not in it, in one transaction.              *)

Replace(c) ==
  /\ Ready(c)
  /\ \E u \in User, S \in SUBSET App :
       Begin(c, [op |-> "replace", step |-> "admissions", user |-> u, apps |-> S, revoke |-> {},
                 old |-> {}, left |-> {}, seen |-> <<>>])
  /\ UNCHANGED tables

ReplaceReadAdmissions(c) ==
  /\ At(c, "replace", "admissions")
  /\ LET r == call[c] IN
     IF \A a \in r.apps : sub[a] = "enable"
     THEN Goto(c, [r EXCEPT !.step = "bindings", !.revoke = {a \in App \ r.apps : Enabled(grant[r.user][a])}])
     ELSE End(c)
  /\ UNCHANGED tables

ReplaceReadBindings(c) ==
  /\ At(c, "replace", "bindings")
  /\ LET r == call[c]  revoked == RowsIn(RowsOf(r.user), r.revoke) IN
     Goto(c, [r EXCEPT !.step = IF r.revoke = {} THEN "grants" ELSE "target", !.old = revoked,
                       !.left = {bound[i].role : i \in RowsOf(r.user) \ revoked}])
  /\ UNCHANGED tables

ReplaceReadGrants(c) ==
  /\ At(c, "replace", "grants")
  /\ Goto(c, [call[c] EXCEPT !.step = "commit", !.seen = grant[call[c].user]])
  /\ UNCHANGED tables

Admitted(r, before) ==
  [a \in App |-> IF a \in r.apps THEN EnsureGrant(before[a], r.seen[a], "manual")
                 ELSE IF a \in r.revoke THEN "off" ELSE before[a]]

ReplaceCommit(c) ==
  /\ At(c, "replace", "commit")
  /\ LET r == call[c]  before == grant[r.user] IN
     IF \E a \in r.apps : Refused(before[a], r.seen[a])
     THEN UNCHANGED <<bound, grant>>
     ELSE /\ grant' = [grant EXCEPT ![r.user] = Admitted(r, @)]
          /\ bound' = Dropping(bound, r.old)
  /\ End(c)
  /\ UNCHANGED <<role, unused, sub, template>>

-----------------------------------------------------------------------------
(* role.go: the tenant's own roles. *)

CreateRole(c) ==
  /\ Ready(c)
  /\ \E r \in unused, a \in {x \in App : sub[x] = "enable"} :
       /\ role' = Adding(role, r, [app |-> a, kind |-> "custom", code |-> ""])
       /\ unused' = unused \ {r}
  /\ Count("role")
  /\ UNCHANGED <<bound, grant, sub, template, call, mixed>>

DeleteRole(c) ==
  /\ Ready(c)
  /\ \E r \in DOMAIN role :
       /\ role[r].kind = "custom"
       /\ Begin(c, [op |-> "deleteRole", step |-> "holders", role |-> r, old |-> {}])
  /\ UNCHANGED tables

DeleteRoleReadHolders(c) ==
  /\ At(c, "deleteRole", "holders")
  /\ Goto(c, [call[c] EXCEPT !.step = "commit", !.old = HoldersOf({call[c].role})])
  /\ UNCHANGED tables

Without(roles) == [r \in DOMAIN role \ roles |-> role[r]]

DeleteRoleCommit(c) ==
  /\ At(c, "deleteRole", "commit")
  /\ role' = Without({call[c].role})
  /\ bound' = Dropping(bound, call[c].old)
  /\ End(c)
  /\ UNCHANGED <<unused, grant, sub, template>>

-----------------------------------------------------------------------------
(* provision.go: SyncAppRoleTemplate creates the template's roles that are  *)
(* missing and withdraws those it no longer has, with their holders.        *)

Templated == {r \in DOMAIN role : role[r].kind = "template"}
Codes(roles) == {role[r].code : r \in roles}

SyncRead(c, codes) ==
  LET stale == {r \in Templated : role[r].code \notin codes} IN
  Goto(c, [call[c] EXCEPT !.step = "commit", !.missing = codes \ Codes(Templated), !.stale = stale,
                          !.old = HoldersOf(stale)])

SyncCommit(r) ==
  \E id \in [r.missing -> unused] :
    /\ \A x, y \in r.missing : id[x] = id[y] => x = y
    /\ LET new == {id[x] : x \in r.missing}  kept == Without(r.stale) IN
       /\ role' = [i \in new \cup DOMAIN kept |->
                     IF i \in new THEN Provided(CHOOSE x \in r.missing : id[x] = i) ELSE kept[i]]
       /\ unused' = unused \ new
    /\ bound' = Dropping(bound, r.old)

(* application.go: Update with another template, in one transaction that    *)
(* holds the application's row from its first statement.                    *)

Publish(c) ==
  /\ Ready(c)
  /\ \A o \in Call : ~(Active(o) /\ call[o].op = "publish")
  /\ \E codes \in SUBSET Code :
       Begin(c, [op |-> "publish", step |-> "subscribers", codes |-> codes, missing |-> {}, stale |-> {}, old |-> {}])
  /\ UNCHANGED tables

\* Mutant of PublishReadSubscribers: suspended subscriptions are passed over.
PublishReadEnabled(c) ==
  /\ At(c, "publish", "subscribers")
  /\ Go(c, IF sub["product"] # "enable" THEN "commit" ELSE "roles")
  /\ UNCHANGED tables

PublishReadSubscribers(c) ==
  /\ At(c, "publish", "subscribers")
  /\ Go(c, IF sub["product"] = "none" THEN "commit" ELSE "roles")
  /\ UNCHANGED tables

PublishReadRoles(c) ==
  /\ At(c, "publish", "roles")
  /\ SyncRead(c, call[c].codes)
  /\ UNCHANGED tables

PublishCommit(c) ==
  /\ At(c, "publish", "commit")
  /\ template' = call[c].codes
  /\ SyncCommit(call[c])
  /\ End(c)
  /\ UNCHANGED <<grant, sub>>

(* tenant_application.go: Create checks, then inserts the subscription and  *)
(* synchronises the template in one transaction.                            *)

Subscribe(c) ==
  /\ Ready(c)
  /\ sub["product"] = "none"
  /\ Begin(c, [op |-> "subscribe", step |-> "insert", codes |-> {}, missing |-> {}, stale |-> {}, old |-> {}])
  /\ UNCHANGED tables

\* uk_tenant_application_active: a second insertion waits for the first
\* transaction, and fails if that has committed.
SubscribeInsert(c) ==
  /\ At(c, "subscribe", "insert")
  /\ \A o \in Call : Active(o) /\ call[o].op = "subscribe" => call[o].step = "insert"
  /\ IF sub["product"] = "none" THEN Go(c, "template") ELSE End(c)
  /\ UNCHANGED tables

SubscribeReadTemplate(c) ==
  /\ At(c, "subscribe", "template")
  /\ Goto(c, [call[c] EXCEPT !.step = "roles", !.codes = template])
  /\ UNCHANGED tables

SubscribeReadRoles(c) ==
  /\ At(c, "subscribe", "roles")
  /\ SyncRead(c, call[c].codes)
  /\ UNCHANGED tables

SubscribeCommit(c) ==
  /\ At(c, "subscribe", "commit")
  /\ \E status \in {"enable", "disable"} : sub' = [sub EXCEPT !["product"] = status]
  /\ SyncCommit(call[c])
  /\ End(c)
  /\ UNCHANGED <<grant, template>>

\* Delete: not the console's.
Unsubscribe(c) ==
  /\ Ready(c)
  /\ sub["product"] # "none"
  /\ sub' = [sub EXCEPT !["product"] = "none"]
  /\ Count("subscription")
  /\ UNCHANGED <<role, unused, bound, grant, template, call, mixed>>

\* Update: the status.
SetSubscription(c) ==
  /\ Ready(c)
  /\ \E a \in App, status \in {"enable", "disable"} :
       /\ sub[a] \notin {"none", status}
       /\ sub' = [sub EXCEPT ![a] = status]
  /\ Count("subscription")
  /\ UNCHANGED <<role, unused, bound, grant, template, call, mixed>>

-----------------------------------------------------------------------------
Next ==
  \E c \in Call :
    \/ CheckTarget(c) \/ CheckOthers(c)
    \/ UpdateRoles(c) \/ RolesReadGrant(c) \/ RolesCommit(c)
    \/ Replace(c) \/ ReplaceReadAdmissions(c) \/ ReplaceReadBindings(c)
    \/ ReplaceReadGrants(c) \/ ReplaceCommit(c)
    \/ CreateRole(c) \/ DeleteRole(c) \/ DeleteRoleReadHolders(c) \/ DeleteRoleCommit(c)
    \/ Publish(c) \/ PublishReadSubscribers(c) \/ PublishReadRoles(c) \/ PublishCommit(c)
    \/ Subscribe(c) \/ SubscribeInsert(c) \/ SubscribeReadTemplate(c)
    \/ SubscribeReadRoles(c) \/ SubscribeCommit(c)
    \/ Unsubscribe(c) \/ SetSubscription(c)

Spec == Init /\ [][Next]_vars

-----------------------------------------------------------------------------
(* Properties. *)

Apart(k1, k2) == \A o \in mixed : o.kinds # {k1, k2}
ApartOnUser(k1, k2) == [kinds |-> {k1, k2}, same |-> TRUE] \notin mixed

\* Whoever holds a role in an application is admitted to it (I1 and I2 of
\* access.go): giving a role admits, withdrawing an admission withdraws the
\* roles, whatever happened to the row before; unless a replacement of the
\* user's admissions overlapped a replacement of the user's roles.
AdmissionFollowsRole ==
  ApartOnUser("roles", "replace") =>
    \A i \in DOMAIN bound :
      bound[i].role \in DOMAIN role => Enabled(grant[bound[i].user][role[bound[i].role].app])

\* The tenant keeps an administrator, by whichever of the two replacements
\* the roles are taken, one after another; two that overlap both find the
\* other's administrator.
AdminRemains ==
  /\ Apart("roles", "roles") /\ Apart("roles", "replace") /\ Apart("replace", "replace")
  => \E i \in DOMAIN bound : bound[i].user \in Person /\ IsAdmin(bound[i].role)

\* Every binding's role exists: the deletion of a role, by the tenant or by
\* the template, takes its bindings with it, unless a replacement of roles
\* overlapped it.
RolesExist ==
  Apart("roles", "role") /\ Apart("roles", "publish") /\ Apart("roles", "subscription") =>
    \A i \in DOMAIN bound : bound[i].role \in DOMAIN role

\* A subscriber has exactly the roles of the published template, each once,
\* whatever was published while it was not subscribed, unless a publication
\* overlapped its subscription.
RolesFollowTemplate ==
  Apart("publish", "subscription") /\ sub["product"] # "none" =>
    /\ Codes(Templated) = template
    /\ Cardinality(Templated) = Cardinality(template)
=============================================================================
