------------------------- MODULE TenantAccessProofs -------------------------
(***************************************************************************)
(* What members may use, for every set of members, roles, template codes   *)
(* and requests under way: no binding of a role that is gone, an admission *)
(* behind every role, an administrator for ever, and the template's roles  *)
(* for every subscriber, wherever the requests the code does not keep      *)
(* apart did not overlap.                                                  *)
(***************************************************************************)
EXTENDS TenantAccess, RowsProofs

USE ConstantsAssumption

-----------------------------------------------------------------------------
\* A sequence of all the elements of a finite set.
LEMMA OrderExists ==
  ASSUME NEW S, IsFiniteSet(S)
  PROVE  SetToSeq(S) \in [1..Cardinality(S) -> S]
<1>1. PICK f \in Bijection(1..Cardinality(S), S) : TRUE
  BY FS_CardinalityType, Fun_ExistsBij
<1>2. f \in [1..Cardinality(S) -> S] /\ IsInjective(f)
  BY DEF Bijection, Injection
<1> QED BY <1>2 DEF SetToSeq

-----------------------------------------------------------------------------
(* What tables and requests look like.                                     *)

Status == {"none", "off", "provision", "manual", "role"}

RolesRequest ==
  [op : {"roles"}, step : {"target", "others", "grants", "commit"}, user : User, app : App,
   new : SUBSET Role, old : SUBSET Nat, left : SUBSET Role, seen : Status]

ReplaceRequest ==
  [op : {"replace"}, step : {"admissions", "bindings", "target", "others", "grants", "commit"},
   user : User, apps : SUBSET App, revoke : SUBSET App, old : SUBSET Nat, left : SUBSET Role,
   seen : {<<>>} \cup [App -> Status]]

DeleteRequest == [op : {"deleteRole"}, step : {"holders", "commit"}, role : Role, old : SUBSET Nat]

SyncRequest(op, steps) ==
  [op : {op}, step : steps, codes : SUBSET Code, missing : SUBSET Code, stale : SUBSET Role, old : SUBSET Nat]

PublishRequest == SyncRequest("publish", {"subscribers", "roles", "commit"})
SubscribeRequest == SyncRequest("subscribe", {"insert", "template", "roles", "commit"})

Members == {"roles", "replace"}
Syncs == {"publish", "subscribe"}
Deleters == {"deleteRole"} \cup Syncs

Request == {Idle} \cup RolesRequest \cup ReplaceRequest \cup DeleteRequest \cup PublishRequest \cup SubscribeRequest

RoleRow ==
  {Builtin} \cup [app : App, kind : {"custom"}, code : {""}]
            \cup [app : {"product"}, kind : {"template"}, code : Code]

\* The identifiers of roles that are live are drawn, the administrator's role
\* is always live, and only people hold it.
RoleTable ==
  /\ unused \subseteq Role \ {AdminRole}
  /\ DOMAIN role \subseteq Role \ unused
  /\ AdminRole \in DOMAIN role
  /\ \A r \in DOMAIN role : role[r] \in RoleRow /\ (role[r].kind = "admin" <=> r = AdminRole)

BoundTable ==
  /\ DOMAIN bound \subseteq Nat /\ IsFiniteSet(DOMAIN bound)
  /\ \A i \in DOMAIN bound :
       /\ bound[i] \in [user : User, role : Role \ unused]
       /\ bound[i].role = AdminRole => bound[i].user \in Person

OtherTables ==
  /\ grant \in [User -> [App -> Status]]
  /\ sub \in [App -> {"none", "enable", "disable"}]
  /\ template \subseteq Code

Tables == RoleTable /\ BoundTable /\ OtherTables

\* The roles a request has read keep their kind as long as they live.
RequestOK(r, roles, free) ==
  /\ r \in Request
  /\ r.op # "idle" => IsFiniteSet(r.old)
  /\ r.op = "roles" =>
       \A x \in r.new : /\ x \notin free
                        /\ x \in DOMAIN roles => roles[x].app = r.app
                        /\ x = AdminRole => r.user \in Person
  /\ r.op = "deleteRole" =>
       r.role \notin free /\ (r.role \in DOMAIN roles => roles[r.role].kind = "custom")
  /\ r.op \in Syncs =>
       /\ \A x \in r.stale : x \notin free /\ (x \in DOMAIN roles => roles[x].kind = "template")
       /\ r.step = "subscribers" => r.missing = {} /\ r.stale = {}

\* The bindings a request is about to delete are its user's, or no administrator's.
OldOK(r, rows) ==
  /\ r.op \in Members => \A i \in r.old \cap DOMAIN rows : rows[i].user = r.user
  /\ r.op \in Deleters => \A i \in r.old \cap DOMAIN rows : rows[i].role # AdminRole

\* Requests that are under way together have overlapped.
Together(q, r) == [kinds |-> {Kind(q.op), Kind(r.op)}, same |-> UserOf(q) \cap UserOf(r) # {}]

Overlaps ==
  \A c, o \in Call : c # o /\ Active(c) /\ Active(o) => Together(call[c], call[o]) \in mixed

BaseInv ==
  /\ Tables
  /\ DOMAIN call = Call
  /\ \A c \in Call : RequestOK(call[c], role, unused) /\ OldOK(call[c], bound)
  /\ Overlaps

-----------------------------------------------------------------------------
(* The invariants behind the properties.                                   *)

RolesApart == Apart("roles", "role") /\ Apart("roles", "publish") /\ Apart("roles", "subscription")

\* Roles that are given are there, and whoever holds a role that is about to
\* go has been listed.
ExistItem(r, roles, rows) ==
  /\ r.op = "roles" => r.new \subseteq DOMAIN roles
  /\ r.op = "deleteRole" /\ r.step = "commit" => \A i \in DOMAIN rows : rows[i].role = r.role => i \in r.old
  /\ r.op \in Syncs /\ r.step = "commit" => \A i \in DOMAIN rows : rows[i].role \in r.stale => i \in r.old

ExistInv == RolesApart => RolesExist /\ \A c \in Call : ExistItem(call[c], role, bound)

\* An admission read as given by a role is still there; the bindings in the
\* applications that will be withdrawn have all been listed.
AdmitItem(r, roles, rows, grants) ==
  /\ r.op = "roles" /\ r.step = "commit" /\ r.seen = "role" => Enabled(grants[r.user][r.app])
  /\ r.op = "replace" /\ r.step \in {"target", "others", "grants", "commit"} =>
       \A i \in DOMAIN rows :
         rows[i].user = r.user /\ rows[i].role \in DOMAIN roles /\ roles[rows[i].role].app \in r.revoke
           => i \in r.old

AdmitInv ==
  ApartOnUser("roles", "replace") =>
    AdmissionFollowsRole /\ \A c \in Call : AdmitItem(call[c], role, bound, grant)

MembersApart == Apart("roles", "roles") /\ Apart("roles", "replace") /\ Apart("replace", "replace")

\* A binding to the administrator's role that the request leaves, or gives.
Spared(r, rows) ==
  \/ \E i \in DOMAIN rows \ r.old : rows[i].role = AdminRole
  \/ r.op = "roles" /\ AdminRole \in r.new

AdminItem(r, rows) ==
  r.op \in Members =>
    /\ r.step \in {"grants", "commit"} => Spared(r, rows)
    /\ r.step = "target" /\ AdminRole \in r.left => Spared(r, rows)

AdminInv ==
  MembersApart =>
    /\ \E i \in DOMAIN bound : bound[i].role = AdminRole
    /\ \A c \in Call : AdminItem(call[c], bound)

\* One publication at a time, and one subscription past its insertion, which
\* found none.
Serial ==
  /\ \A c, o \in Call : call[c].op = "publish" /\ call[o].op = "publish" => c = o
  /\ \A c, o \in Call :
       (call[c].op = "subscribe" /\ call[c].step # "insert" /\ call[o].op = "subscribe" /\ call[o].step # "insert")
         => c = o
  /\ \A c \in Call : call[c].op = "subscribe" /\ call[c].step # "insert" => sub["product"] = "none"

\* What is missing and what is stale, as the roles stand.
TemplatedIn(roles) == {x \in DOMAIN roles : roles[x].kind = "template"}
CodesIn(roles) == {roles[x].code : x \in TemplatedIn(roles)}

Synced(r, roles) ==
  /\ r.missing = r.codes \ CodesIn(roles)
  /\ r.stale = {x \in TemplatedIn(roles) : roles[x].code \notin r.codes}

TemplateItem(r, roles, subscribed, codes) ==
  /\ r.op = "publish" /\ r.step = "commit" =>
       Synced(r, roles) \/ (r.missing = {} /\ r.stale = {} /\ ~subscribed)
  /\ r.op = "subscribe" /\ r.step \in {"roles", "commit"} => r.codes = codes
  /\ r.op = "subscribe" /\ r.step = "commit" => Synced(r, roles)

TemplateInv ==
  /\ Serial
  /\ Apart("publish", "subscription") =>
       /\ sub["product"] # "none" => CodesIn(role) = template
       /\ \A r, s \in TemplatedIn(role) : role[r].code = role[s].code => r = s
       /\ \A c \in Call : TemplateItem(call[c], role, sub["product"] # "none", template)

-----------------------------------------------------------------------------
(* Steps in general.                                                       *)

LEMMA Kinds6 ==
  ASSUME NEW r \in Request
  PROVE  /\ r.op = "idle" => r = Idle
         /\ r.op = "roles" => r \in RolesRequest
         /\ r.op = "replace" => r \in ReplaceRequest
         /\ r.op = "deleteRole" => r \in DeleteRequest
         /\ r.op = "publish" => r \in PublishRequest
         /\ r.op = "subscribe" => r \in SubscribeRequest
         /\ r.op \in {"idle"} \cup Members \cup Deleters
BY DEF Request, Idle, RolesRequest, ReplaceRequest, DeleteRequest, PublishRequest, SubscribeRequest,
       SyncRequest, Members, Deleters, Syncs

\* Whose request it is.
LEMMA UserOfRequest ==
  ASSUME NEW r \in Request
  PROVE  UserOf(r) = IF r.op \in Members THEN {r.user} ELSE {}
<1>1. CASE r.op \in Members
  BY <1>1, Kinds6 DEF UserOf, Members, RolesRequest, ReplaceRequest
<1>2. CASE r.op \notin Members
  <2>1. "user" \notin DOMAIN r
    BY <1>2 DEF Request, Idle, RolesRequest, ReplaceRequest, DeleteRequest, PublishRequest, SubscribeRequest,
                SyncRequest, Members
  <2> QED BY <1>2, <2>1 DEF UserOf
<1> QED BY <1>1, <1>2

\* What a request remembers of bindings is remembered.
LEMMA OldIsRemembered ==
  ASSUME BaseInv, NEW c \in Call, Active(c)
  PROVE  call[c].old \subseteq Remembered
<1>1. call[c] \in Request
  BY DEF BaseInv, RequestOK
<1>2. "old" \in DOMAIN call[c]
  BY <1>1 DEF Active, Request, Idle, RolesRequest, ReplaceRequest, DeleteRequest, PublishRequest,
              SubscribeRequest, SyncRequest
<1> QED BY <1>2 DEF Remembered, Holding

\* There are finitely many of them.
LEMMA RememberedFinite ==
  ASSUME BaseInv
  PROVE  IsFiniteSet(Remembered)
<1> DEFINE held == Holding("old")
           sets == {call[c].old : c \in held}
           f == [c \in held |-> call[c].old]
<1>1. IsFiniteSet(held)
  BY FS_Subset DEF Holding
<1>2. f \in Surjection(held, sets)
  BY Fun_IsSurj
<1>3. IsFiniteSet(sets)
  BY <1>1, <1>2, FS_Surjection
<1>4. \A c \in held : IsFiniteSet(call[c].old)
  <2> SUFFICES ASSUME NEW c \in held PROVE IsFiniteSet(call[c].old)
    OBVIOUS
  <2>1. call[c] \in Request /\ "old" \in DOMAIN call[c] /\ (call[c].op # "idle" => IsFiniteSet(call[c].old))
    BY DEF BaseInv, RequestOK, Holding
  <2>2. call[c] # Idle
    BY <2>1 DEF Idle
  <2> QED BY <2>1, <2>2, Kinds6
<1>5. IsFiniteSet(UNION sets)
  BY <1>3, <1>4, FS_UNION
<1> QED BY <1>5 DEF Remembered

\* A step draws identifiers once and changes neither roles nor bindings in place.
Stable ==
  /\ unused' \subseteq unused
  /\ \A r \in DOMAIN role' : r \in unused \/ (r \in DOMAIN role /\ role'[r] = role[r])
  /\ \A i \in DOMAIN bound' :
       (i \in DOMAIN bound /\ bound'[i] = bound[i]) \/ i \notin DOMAIN bound \cup Remembered

LEMMA OthersStay ==
  ASSUME BaseInv, Stable, NEW c \in Call
  PROVE  RequestOK(call[c], role', unused') /\ OldOK(call[c], bound')
<1>1. RequestOK(call[c], role, unused) /\ OldOK(call[c], bound)
  BY DEF BaseInv
<1>2. RequestOK(call[c], role', unused')
  BY <1>1, Kinds6 DEF RequestOK, Stable
<1>3. call[c].op \in Members \cup Deleters => call[c].old \subseteq Remembered
  BY OldIsRemembered DEF Active, Members, Deleters, Syncs
<1>4. OldOK(call[c], bound')
  BY <1>1, <1>3 DEF OldOK, Stable
<1> QED BY <1>2, <1>4

\* A request goes on to q, or ends.
Moves(c, q) ==
  /\ call' = [call EXCEPT ![c] = q]
  /\ mixed \subseteq mixed'
  /\ Overlaps'

LEMMA MoveKeepsBase ==
  ASSUME BaseInv, NEW c \in Call, NEW q, Moves(c, q), Stable, Tables',
         RequestOK(q, role', unused'), OldOK(q, bound')
  PROVE  BaseInv'
<1>1. /\ DOMAIN call' = Call /\ call'[c] = q
      /\ \A o \in Call \ {c} : call'[o] = call[o]
  BY DEF Moves, BaseInv
<1>2. ASSUME NEW o \in Call
      PROVE  RequestOK(call'[o], role', unused') /\ OldOK(call'[o], bound')
  BY <1>1, OthersStay
<1> QED BY <1>1, <1>2 DEF BaseInv, Moves

LEMMA GotoMoves ==
  ASSUME BaseInv, NEW c \in Call, NEW q, Goto(c, q), Active(c), q \in Request,
         q.op \in {call[c].op, "idle"}, q.op \in Members => q.user = call[c].user
  PROVE  Moves(c, q)
<1>1. /\ DOMAIN call = Call /\ call' = [call EXCEPT ![c] = q] /\ mixed' = mixed /\ call[c] \in Request
  BY DEF BaseInv, RequestOK, Goto
<1>2. q.op # "idle" => q.op = call[c].op /\ UserOf(q) = UserOf(call[c])
  BY <1>1, UserOfRequest
<1>3. ASSUME NEW a \in Call, NEW b \in Call, a # b, Active(a)', Active(b)'
      PROVE  Together(call'[a], call'[b]) \in mixed
  <2>1. \A o \in Call : Active(o)' => /\ Active(o) /\ call'[o].op = call[o].op
                                      /\ UserOf(call'[o]) = UserOf(call[o])
    BY <1>1, <1>2 DEF Active
  <2>2. Together(call[a], call[b]) \in mixed
    BY <1>3, <2>1 DEF BaseInv, Overlaps
  <2> QED BY <1>3, <2>1, <2>2 DEF Together
<1> QED BY <1>1, <1>3 DEF Moves, Overlaps

LEMMA BeginMoves ==
  ASSUME BaseInv, NEW c \in Call, NEW q, Begin(c, q)
  PROVE  Moves(c, q)
<1>1. /\ DOMAIN call = Call /\ call' = [call EXCEPT ![c] = q]
      /\ \A o \in Call : Active(o) => Together(q, call[o]) \in mixed'
      /\ mixed \subseteq mixed'
  BY DEF BaseInv, Begin, Together
<1>2. \A x, y : Together(x, y) = Together(y, x)
  BY DEF Together
<1>3. ASSUME NEW a \in Call, NEW b \in Call, a # b, Active(a)', Active(b)'
      PROVE  Together(call'[a], call'[b]) \in mixed'
  <2>1. \A o \in Call \ {c} : call'[o] = call[o]
    BY <1>1
  <2>2. call'[c] = q
    BY <1>1
  <2>3. \A o \in Call \ {c} : Active(o)' => Active(o)
    BY <2>1 DEF Active
  <2>4. CASE a = c
    BY <1>1, <1>3, <2>1, <2>2, <2>3, <2>4
  <2>5. CASE b = c
    BY <1>1, <1>2, <1>3, <2>1, <2>2, <2>3, <2>5
  <2>6. CASE a # c /\ b # c
    BY <1>1, <1>3, <2>1, <2>3, <2>6 DEF BaseInv, Overlaps
  <2> QED BY <2>4, <2>5, <2>6
<1> QED BY <1>1, <1>3 DEF Moves, Overlaps

-----------------------------------------------------------------------------
(* The steps that only read, and what the request has learnt.              *)

Quiet(c, q) ==
  /\ Moves(c, q) /\ UNCHANGED tables
  /\ RequestOK(q, role, unused) /\ OldOK(q, bound)

LEMMA QuietKeepsBase ==
  ASSUME BaseInv, NEW c \in Call, NEW q, Quiet(c, q)
  PROVE  BaseInv'
<1>1. Stable
  BY DEF Quiet, tables, Stable
<1>2. Tables'
  BY DEF BaseInv, Quiet, tables, Tables, RoleTable, BoundTable, OtherTables
<1>3. RequestOK(q, role', unused') /\ OldOK(q, bound')
  BY DEF Quiet, tables
<1> QED BY <1>1, <1>2, <1>3, MoveKeepsBase DEF Quiet

LEMMA IdleOK == RequestOK(Idle, role, unused) /\ OldOK(Idle, bound) /\ Idle \in Request /\ Idle.op = "idle"
BY DEF RequestOK, OldOK, Idle, Request, Members, Deleters, Syncs

LEMMA EndMoves ==
  ASSUME BaseInv, NEW c \in Call, Active(c), End(c)
  PROVE  Moves(c, Idle)
BY GotoMoves, IdleOK DEF End, Members

LEMMA EndIsQuiet ==
  ASSUME BaseInv, NEW c \in Call, Active(c), End(c), UNCHANGED tables
  PROVE  Quiet(c, Idle)
BY EndMoves, IdleOK DEF Quiet

\* The administrator's role is the one that administers.
LEMMA AdminIs ==
  ASSUME BaseInv
  PROVE  \A r : IsAdmin(r) <=> r = AdminRole
BY DEF BaseInv, Tables, RoleTable, IsAdmin

\* What a request is, from its operation.
LEMMA ActiveRequest ==
  ASSUME BaseInv, NEW c \in Call
  PROVE  /\ call[c] \in Request /\ RequestOK(call[c], role, unused) /\ OldOK(call[c], bound)
         /\ DOMAIN call = Call
BY DEF BaseInv, RequestOK

LEMMA CheckTargetMoves ==
  ASSUME BaseInv, NEW c \in Call, CheckTarget(c)
  PROVE  \E q : /\ Quiet(c, q)
                /\ call[c].op \in Members /\ call[c].step = "target"
                /\ \/ q = [call[c] EXCEPT !.step = "others"]
                   \/ /\ q = [call[c] EXCEPT !.step = "grants"]
                      /\ \/ \A i \in DOMAIN bound : bound[i].user = call[c].user => bound[i].role # AdminRole
                         \/ AdminRole \in call[c].left
<1>1. call[c].op \in Members
  BY ActiveRequest DEF CheckTarget, Active, Request, Idle, RolesRequest, ReplaceRequest, DeleteRequest,
     PublishRequest, SubscribeRequest, SyncRequest, Members
<1>2. PICK x \in {"others", "grants"} :
        /\ Go(c, x)
        /\ x = "grants" => \/ \A i \in DOMAIN bound : bound[i].user = call[c].user => bound[i].role # AdminRole
                           \/ AdminRole \in call[c].left
  BY AdminIs DEF CheckTarget, RowsOf
<1>3. PICK q : q = [call[c] EXCEPT !.step = x]
  OBVIOUS
<1>4. /\ q \in Request /\ q.op = call[c].op /\ q.user = call[c].user
      /\ RequestOK(q, role, unused) /\ OldOK(q, bound)
  BY <1>1, <1>3, ActiveRequest, Kinds6 DEF RequestOK, OldOK, RolesRequest, ReplaceRequest, Request,
     Members, Deleters, Syncs
<1>5. Quiet(c, q)
  BY <1>2, <1>3, <1>4, GotoMoves DEF Quiet, CheckTarget, Go
<1> QED BY <1>1, <1>2, <1>3, <1>5 DEF CheckTarget

LEMMA CheckOthersMoves ==
  ASSUME BaseInv, NEW c \in Call, CheckOthers(c)
  PROVE  \E q : /\ Quiet(c, q)
                /\ \/ q = Idle
                   \/ /\ call[c].op \in Members /\ call[c].step = "others"
                      /\ q = [call[c] EXCEPT !.step = "grants"]
                      /\ \E i \in DOMAIN bound : bound[i].user # call[c].user /\ bound[i].role = AdminRole
<1>1. call[c].op \in Members
  BY ActiveRequest DEF CheckOthers, Active, Request, Idle, RolesRequest, ReplaceRequest, DeleteRequest,
     PublishRequest, SubscribeRequest, SyncRequest, Members
<1>2. CASE End(c)
  BY <1>2, EndIsQuiet DEF CheckOthers
<1>3. CASE /\ Go(c, "grants")
           /\ \E i \in DOMAIN bound : bound[i].user # call[c].user /\ bound[i].role = AdminRole
  <2>1. PICK q : q = [call[c] EXCEPT !.step = "grants"]
    OBVIOUS
  <2>2. /\ q \in Request /\ q.op = call[c].op /\ q.user = call[c].user
        /\ RequestOK(q, role, unused) /\ OldOK(q, bound)
    BY <1>1, <2>1, ActiveRequest, Kinds6 DEF RequestOK, OldOK, RolesRequest, ReplaceRequest, Request,
       Members, Deleters, Syncs
  <2>3. Quiet(c, q)
    BY <1>3, <2>1, <2>2, GotoMoves DEF Quiet, CheckOthers, Go
  <2> QED BY <1>1, <1>3, <2>1, <2>3 DEF CheckOthers
<1> QED BY <1>2, <1>3, AdminIs DEF CheckOthers

LEMMA UpdateRolesMoves ==
  ASSUME BaseInv, NEW c \in Call, UpdateRoles(c)
  PROVE  \E q : /\ Quiet(c, q) /\ ~Active(c)
                /\ q \in RolesRequest /\ q.new \subseteq DOMAIN role
                /\ q.step = "target" \/ (q.step = "grants" /\ q.user \in Machine)
                /\ \A i \in DOMAIN bound : i \in q.old => bound[i].user = q.user
                /\ AdminRole \in q.left => Spared(q, bound)
<1>1. PICK u \in User, a \in App : \E R \in SUBSET {r \in DOMAIN role : role[r].app = a} :
       /\ u \in Machine => \A r \in R : ~IsAdmin(r)
       /\ LET old == RowsIn(RowsOf(u), {a})
              left == {bound[i].role : i \in RowsOf(u) \ old} \cup R
          IN Begin(c, [op |-> "roles", step |-> IF u \in Machine THEN "grants" ELSE "target",
                       user |-> u, app |-> a, new |-> R, old |-> old, left |-> left, seen |-> "none"])
  BY DEF UpdateRoles
<1>2. PICK R \in SUBSET {r \in DOMAIN role : role[r].app = a} :
       /\ u \in Machine => \A r \in R : ~IsAdmin(r)
       /\ LET old == RowsIn(RowsOf(u), {a})
              left == {bound[i].role : i \in RowsOf(u) \ old} \cup R
          IN Begin(c, [op |-> "roles", step |-> IF u \in Machine THEN "grants" ELSE "target",
                       user |-> u, app |-> a, new |-> R, old |-> old, left |-> left, seen |-> "none"])
  BY <1>1
<1>3. PICK old : old = RowsIn(RowsOf(u), {a})
  OBVIOUS
<1>4. PICK left : left = {bound[i].role : i \in RowsOf(u) \ old} \cup R
  OBVIOUS
<1>5. PICK q : q = [op |-> "roles", step |-> IF u \in Machine THEN "grants" ELSE "target",
                    user |-> u, app |-> a, new |-> R, old |-> old, left |-> left, seen |-> "none"]
  OBVIOUS
<1>6. Begin(c, q)
  BY <1>2, <1>3, <1>4, <1>5
<1>7. /\ old \subseteq DOMAIN bound /\ \A i \in old : bound[i].user = u
      /\ DOMAIN bound \subseteq Nat /\ IsFiniteSet(DOMAIN bound)
      /\ R \subseteq DOMAIN role /\ DOMAIN role \subseteq Role \ unused
  BY <1>3 DEF RowsIn, RowsOf, BaseInv, Tables, BoundTable, RoleTable
<1>8. left \subseteq Role
  BY <1>4, <1>7 DEF RowsOf, BaseInv, Tables, BoundTable
<1>9. IsFiniteSet(old) /\ old \subseteq Nat
  BY <1>7, FS_Subset
<1>10. q \in RolesRequest /\ q.op = "roles" /\ q.user = u /\ q.old = old /\ q.new = R /\ q.app = a /\ q.left = left
  BY <1>5, <1>7, <1>8, <1>9 DEF RolesRequest, Status
<1>11. AdminRole \in R => u \in Person
  BY <1>2, AdminIs DEF User
<1>12. RequestOK(q, role, unused) /\ OldOK(q, bound)
  BY <1>7, <1>9, <1>10, <1>11 DEF RequestOK, OldOK, Request, Members, Deleters, Syncs
<1>13. Quiet(c, q)
  BY <1>6, <1>12, BeginMoves DEF Quiet, UpdateRoles
<1>14. AdminRole \in left => Spared(q, bound)
  BY <1>4, <1>10 DEF Spared, RowsOf
<1>15. q.step = "target" \/ (q.step = "grants" /\ q.user \in Machine)
  BY <1>5, <1>10
<1> QED BY <1>7, <1>10, <1>13, <1>14, <1>15 DEF UpdateRoles, Ready

LEMMA RolesReadGrantMoves ==
  ASSUME BaseInv, NEW c \in Call, RolesReadGrant(c)
  PROVE  \E q : /\ Quiet(c, q)
                /\ call[c] \in RolesRequest /\ call[c].op = "roles" /\ call[c].step = "grants"
                /\ q \in RolesRequest /\ q.step = "commit" /\ q.seen = grant[call[c].user][call[c].app]
                /\ q.user = call[c].user /\ q.app = call[c].app /\ q.new = call[c].new /\ q.old = call[c].old
<1>1. call[c] \in RolesRequest
  BY ActiveRequest, Kinds6 DEF RolesReadGrant, At
<1>2. PICK seen \in Status : seen = grant[call[c].user][call[c].app]
  BY <1>1 DEF RolesRequest, BaseInv, Tables, OtherTables
<1>3. PICK q : q = [call[c] EXCEPT !.step = "commit", !.seen = seen]
  OBVIOUS
<1>4. /\ q \in RolesRequest /\ q.op = call[c].op /\ q.user = call[c].user /\ q.old = call[c].old
      /\ q.new = call[c].new /\ q.app = call[c].app /\ q.op = "roles" /\ q.step = "commit" /\ q.seen = seen
  BY <1>1, <1>3 DEF RolesRequest
<1>5. RequestOK(q, role, unused) /\ OldOK(q, bound)
  BY <1>4, ActiveRequest DEF RequestOK, OldOK, Request, Members, Deleters, Syncs
<1>6. Quiet(c, q)
  BY <1>2, <1>3, <1>4, <1>5, GotoMoves DEF Quiet, RolesReadGrant, At, Request
<1> QED BY <1>1, <1>2, <1>4, <1>6 DEF RolesReadGrant, At

LEMMA ReplaceMoves ==
  ASSUME BaseInv, NEW c \in Call, Replace(c)
  PROVE  \E q : /\ Quiet(c, q) /\ ~Active(c)
                /\ q \in ReplaceRequest /\ q.step = "admissions"
<1>1. PICK u \in User, S \in SUBSET App :
        Begin(c, [op |-> "replace", step |-> "admissions", user |-> u, apps |-> S, revoke |-> {},
                  old |-> {}, left |-> {}, seen |-> <<>>])
  BY DEF Replace
<1>2. PICK q : q = [op |-> "replace", step |-> "admissions", user |-> u, apps |-> S, revoke |-> {},
                    old |-> {}, left |-> {}, seen |-> <<>>]
  OBVIOUS
<1>3. q \in ReplaceRequest /\ q.old = {} /\ q.op = "replace" /\ q.step = "admissions"
  BY <1>2 DEF ReplaceRequest
<1>4. RequestOK(q, role, unused) /\ OldOK(q, bound)
  BY <1>3, FS_EmptySet DEF RequestOK, OldOK, Request, Deleters, Syncs
<1>5. Quiet(c, q)
  BY <1>1, <1>2, <1>4, BeginMoves DEF Quiet, Replace
<1> QED BY <1>3, <1>5 DEF Replace, Ready

LEMMA ReplaceReadAdmissionsMoves ==
  ASSUME BaseInv, NEW c \in Call, ReplaceReadAdmissions(c)
  PROVE  \E q : /\ Quiet(c, q)
                /\ q = Idle \/ (q \in ReplaceRequest /\ q.step = "bindings")
<1>1. call[c] \in ReplaceRequest
  BY ActiveRequest, Kinds6 DEF ReplaceReadAdmissions, At
<1>2. CASE End(c)
  BY <1>2, EndIsQuiet DEF ReplaceReadAdmissions, At
<1>3. CASE ~End(c)
  <2>1. PICK revoke \in SUBSET App : Goto(c, [call[c] EXCEPT !.step = "bindings", !.revoke = revoke])
    BY <1>3 DEF ReplaceReadAdmissions
  <2>2. PICK q : q = [call[c] EXCEPT !.step = "bindings", !.revoke = revoke]
    OBVIOUS
  <2>3. /\ q \in ReplaceRequest /\ q.step = "bindings" /\ q.op = "replace" /\ q.op = call[c].op
        /\ q.user = call[c].user /\ q.old = call[c].old
    BY <1>1, <2>2 DEF ReplaceRequest
  <2>4. RequestOK(q, role, unused) /\ OldOK(q, bound)
    BY <2>3, ActiveRequest DEF RequestOK, OldOK, Request, Members, Deleters, Syncs
  <2>5. Quiet(c, q)
    BY <2>1, <2>2, <2>3, <2>4, GotoMoves DEF Quiet, ReplaceReadAdmissions, At, Request
  <2> QED BY <2>3, <2>5
<1> QED BY <1>2, <1>3

LEMMA ReplaceReadBindingsMoves ==
  ASSUME BaseInv, NEW c \in Call, ReplaceReadBindings(c)
  PROVE  \E q : /\ Quiet(c, q)
                /\ q \in ReplaceRequest
                /\ q.step = "target" \/ (q.step = "grants" /\ q.old = {})
                /\ \A i \in DOMAIN bound :
                     i \in q.old <=> /\ bound[i].user = q.user /\ bound[i].role \in DOMAIN role
                                     /\ role[bound[i].role].app \in q.revoke
                /\ AdminRole \in q.left => Spared(q, bound)
<1>1. call[c] \in ReplaceRequest
  BY ActiveRequest, Kinds6 DEF ReplaceReadBindings, At
<1>2. PICK old : old = RowsIn(RowsOf(call[c].user), call[c].revoke)
  OBVIOUS
<1>3. PICK left : left = {bound[i].role : i \in RowsOf(call[c].user) \ old}
  OBVIOUS
<1>4. PICK step : step = IF call[c].revoke = {} THEN "grants" ELSE "target"
  OBVIOUS
<1>5. PICK q : q = [call[c] EXCEPT !.step = step, !.old = old, !.left = left]
  OBVIOUS
<1>6. Goto(c, q)
  BY <1>2, <1>3, <1>4, <1>5 DEF ReplaceReadBindings
<1>7. /\ \A i : i \in old <=> /\ i \in DOMAIN bound /\ bound[i].user = call[c].user /\ bound[i].role \in DOMAIN role
                              /\ role[bound[i].role].app \in call[c].revoke
      /\ DOMAIN bound \subseteq Nat /\ IsFiniteSet(DOMAIN bound)
      /\ call[c].revoke = {} => old = {}
  BY <1>2 DEF RowsIn, RowsOf, BaseInv, Tables, BoundTable
<1>8. left \subseteq Role
  BY <1>3, <1>7 DEF RowsOf, BaseInv, Tables, BoundTable
<1>9. IsFiniteSet(old) /\ old \subseteq Nat
  <2>1. old \subseteq DOMAIN bound
    BY <1>7
  <2> QED BY <2>1, <1>7, FS_Subset
<1>10. /\ q \in ReplaceRequest /\ q.op = "replace" /\ q.op = call[c].op /\ q.user = call[c].user
       /\ q.old = old /\ q.left = left /\ q.step = step /\ q.revoke = call[c].revoke
  BY <1>1, <1>4, <1>5, <1>8, <1>9 DEF ReplaceRequest
<1>11. RequestOK(q, role, unused) /\ OldOK(q, bound)
  BY <1>7, <1>9, <1>10 DEF RequestOK, OldOK, Request, Members, Deleters, Syncs
<1>12. Quiet(c, q)
  BY <1>6, <1>10, <1>11, GotoMoves DEF Quiet, ReplaceReadBindings, At, Request
<1>13. AdminRole \in left => Spared(q, bound)
  BY <1>3, <1>10 DEF Spared, RowsOf
<1> QED BY <1>4, <1>7, <1>10, <1>12, <1>13

LEMMA ReplaceReadGrantsMoves ==
  ASSUME BaseInv, NEW c \in Call, ReplaceReadGrants(c)
  PROVE  \E q : /\ Quiet(c, q)
                /\ call[c] \in ReplaceRequest /\ call[c].op = "replace" /\ call[c].step = "grants"
                /\ q \in ReplaceRequest /\ q.step = "commit"
                /\ q.user = call[c].user /\ q.revoke = call[c].revoke /\ q.old = call[c].old
<1>1. call[c] \in ReplaceRequest
  BY ActiveRequest, Kinds6 DEF ReplaceReadGrants, At
<1>2. PICK seen \in [App -> Status] : seen = grant[call[c].user]
  BY <1>1 DEF ReplaceRequest, BaseInv, Tables, OtherTables
<1>3. PICK q : q = [call[c] EXCEPT !.step = "commit", !.seen = seen]
  OBVIOUS
<1>4. /\ q \in ReplaceRequest /\ q.op = call[c].op /\ q.user = call[c].user /\ q.old = call[c].old
      /\ q.op = "replace" /\ q.step = "commit" /\ q.revoke = call[c].revoke
  BY <1>1, <1>3 DEF ReplaceRequest
<1>5. RequestOK(q, role, unused) /\ OldOK(q, bound)
  BY <1>4, ActiveRequest DEF RequestOK, OldOK, Request, Members, Deleters, Syncs
<1>6. Quiet(c, q)
  BY <1>2, <1>3, <1>4, <1>5, GotoMoves DEF Quiet, ReplaceReadGrants, At, Request
<1> QED BY <1>1, <1>4, <1>6 DEF ReplaceReadGrants, At

LEMMA DeleteRoleMoves ==
  ASSUME BaseInv, NEW c \in Call, DeleteRole(c)
  PROVE  \E q : /\ Quiet(c, q) /\ ~Active(c)
                /\ q \in DeleteRequest /\ q.step = "holders"
<1>1. PICK r \in DOMAIN role :
        /\ role[r].kind = "custom"
        /\ Begin(c, [op |-> "deleteRole", step |-> "holders", role |-> r, old |-> {}])
  BY DEF DeleteRole
<1>2. PICK q : q = [op |-> "deleteRole", step |-> "holders", role |-> r, old |-> {}]
  OBVIOUS
<1>3. r \in Role \ unused
  BY DEF BaseInv, Tables, RoleTable
<1>4. q \in DeleteRequest /\ q.old = {} /\ q.op = "deleteRole" /\ q.step = "holders" /\ q.role = r
  BY <1>2, <1>3 DEF DeleteRequest
<1>5. RequestOK(q, role, unused) /\ OldOK(q, bound)
  BY <1>1, <1>3, <1>4, FS_EmptySet DEF RequestOK, OldOK, Request, Members, Syncs
<1>6. Quiet(c, q)
  BY <1>1, <1>2, <1>5, BeginMoves DEF Quiet, DeleteRole
<1> QED BY <1>4, <1>6 DEF DeleteRole, Ready

LEMMA DeleteRoleReadHoldersMoves ==
  ASSUME BaseInv, NEW c \in Call, DeleteRoleReadHolders(c)
  PROVE  \E q : /\ Quiet(c, q)
                /\ q \in DeleteRequest
                /\ \A i \in DOMAIN bound : bound[i].role = q.role => i \in q.old
<1>1. call[c] \in DeleteRequest
  BY ActiveRequest, Kinds6 DEF DeleteRoleReadHolders, At
<1>2. PICK old : old = HoldersOf({call[c].role})
  OBVIOUS
<1>3. PICK q : q = [call[c] EXCEPT !.step = "commit", !.old = old]
  OBVIOUS
<1>4. /\ old = {i \in DOMAIN bound : bound[i].role = call[c].role}
      /\ old \subseteq DOMAIN bound
      /\ DOMAIN bound \subseteq Nat /\ IsFiniteSet(DOMAIN bound)
  BY <1>2 DEF HoldersOf, BaseInv, Tables, BoundTable
<1>5. IsFiniteSet(old) /\ old \subseteq Nat
  BY <1>4, FS_Subset
<1>6. q \in DeleteRequest /\ q.op = call[c].op /\ q.op = "deleteRole" /\ q.role = call[c].role /\ q.old = old
  BY <1>1, <1>3, <1>5 DEF DeleteRequest
<1>7. q.role # AdminRole
  <2>1. AdminRole \in DOMAIN role /\ role[AdminRole].kind = "admin"
    BY DEF BaseInv, Tables, RoleTable
  <2>2. call[c].role \in DOMAIN role => role[call[c].role].kind = "custom"
    BY <1>6, ActiveRequest DEF RequestOK
  <2> QED BY <1>6, <2>1, <2>2
<1>8. RequestOK(q, role, unused) /\ OldOK(q, bound)
  BY <1>4, <1>5, <1>6, <1>7, ActiveRequest DEF RequestOK, OldOK, Request, Members, Syncs
<1>9. Quiet(c, q)
  BY <1>2, <1>3, <1>6, <1>8, GotoMoves DEF Quiet, DeleteRoleReadHolders, At, Request, Members
<1> QED BY <1>4, <1>6, <1>9

\* What the synchronisation reads of the roles and their holders.
LEMMA SyncReads ==
  ASSUME BaseInv, NEW c \in Call, NEW codes \in SUBSET Code, NEW op \in Syncs, NEW steps,
         Active(c), call[c] \in SyncRequest(op, steps), "commit" \in steps,
         SyncRequest(op, steps) \subseteq Request,
         SyncRead(c, codes), UNCHANGED tables
  PROVE  \E q : /\ Quiet(c, q)
                /\ q \in SyncRequest(op, steps) /\ q.step = "commit" /\ q.op = op /\ q.codes = call[c].codes
                /\ q.missing = codes \ CodesIn(role)
                /\ q.stale = {x \in TemplatedIn(role) : role[x].code \notin codes}
                /\ \A i \in DOMAIN bound : bound[i].role \in q.stale => i \in q.old
<1>1. PICK stale : stale = {x \in TemplatedIn(role) : role[x].code \notin codes}
  OBVIOUS
<1>2. PICK missing : missing = codes \ CodesIn(role)
  OBVIOUS
<1>3. PICK old : old = {i \in DOMAIN bound : bound[i].role \in stale}
  OBVIOUS
<1>4. PICK q : q = [call[c] EXCEPT !.step = "commit", !.missing = missing, !.stale = stale, !.old = old]
  OBVIOUS
<1>5. Templated = TemplatedIn(role) /\ Codes(Templated) = CodesIn(role)
  BY DEF Templated, TemplatedIn, Codes, CodesIn
<1>6. Goto(c, q)
  <2>1. stale = {r \in Templated : role[r].code \notin codes}
    BY <1>1, <1>5
  <2>2. old = HoldersOf(stale)
    BY <1>3 DEF HoldersOf
  <2> QED BY <1>2, <1>4, <1>5, <2>1, <2>2 DEF SyncRead
<1>7. /\ old \subseteq DOMAIN bound /\ DOMAIN bound \subseteq Nat /\ IsFiniteSet(DOMAIN bound)
      /\ DOMAIN role \subseteq Role \ unused
      /\ AdminRole \in DOMAIN role /\ role[AdminRole].kind = "admin"
  BY <1>3 DEF BaseInv, Tables, BoundTable, RoleTable
<1>8. IsFiniteSet(old) /\ old \subseteq Nat
  BY <1>7, FS_Subset
<1>9. /\ stale \subseteq DOMAIN role /\ \A x \in stale : role[x].kind = "template"
      /\ missing \subseteq Code
  BY <1>1, <1>2 DEF TemplatedIn
<1>10. stale \subseteq Role
  BY <1>7, <1>9
<1>11. /\ q \in SyncRequest(op, steps) /\ q.step = "commit" /\ q.op = op /\ q.op = call[c].op
       /\ q.codes = call[c].codes /\ q.missing = missing /\ q.stale = stale /\ q.old = old
  BY <1>4, <1>8, <1>9, <1>10 DEF SyncRequest
<1>12. AdminRole \notin stale
  BY <1>7, <1>9
<1>13. RequestOK(q, role, unused) /\ OldOK(q, bound)
  BY <1>3, <1>7, <1>8, <1>9, <1>11, <1>12 DEF RequestOK, OldOK, Members, Syncs
<1>14. Quiet(c, q)
  BY <1>6, <1>11, <1>13, GotoMoves DEF Quiet, Members, Syncs
<1> QED BY <1>1, <1>2, <1>3, <1>11, <1>14

LEMMA PublishMoves ==
  ASSUME BaseInv, NEW c \in Call, Publish(c)
  PROVE  \E q : /\ Quiet(c, q) /\ ~Active(c)
                /\ \A o \in Call : call[o].op # "publish"
                /\ q \in PublishRequest /\ q.step = "subscribers"
<1>1. PICK codes \in SUBSET Code :
        Begin(c, [op |-> "publish", step |-> "subscribers", codes |-> codes, missing |-> {}, stale |-> {},
                  old |-> {}])
  BY DEF Publish
<1>2. PICK q : q = [op |-> "publish", step |-> "subscribers", codes |-> codes, missing |-> {}, stale |-> {},
                    old |-> {}]
  OBVIOUS
<1>3. q \in PublishRequest /\ q.old = {} /\ q.op = "publish" /\ q.step = "subscribers" /\ q.stale = {} /\ q.missing = {}
  BY <1>2 DEF PublishRequest, SyncRequest
<1>4. RequestOK(q, role, unused) /\ OldOK(q, bound)
  BY <1>3, FS_EmptySet DEF RequestOK, OldOK, Request, Members, Syncs
<1>5. Quiet(c, q)
  BY <1>1, <1>2, <1>4, BeginMoves DEF Quiet, Publish
<1>6. \A o \in Call : call[o].op # "publish"
  BY DEF Publish, Active
<1> QED BY <1>3, <1>5, <1>6 DEF Publish, Ready

LEMMA PublishReadSubscribersMoves ==
  ASSUME BaseInv, NEW c \in Call, PublishReadSubscribers(c)
  PROVE  \E q : /\ Quiet(c, q)
                /\ q \in PublishRequest /\ q.missing = {} /\ q.stale = {} /\ call[c].op = "publish"
                /\ q.step = IF sub["product"] = "none" THEN "commit" ELSE "roles"
<1>1. call[c] \in PublishRequest /\ call[c].op = "publish" /\ call[c].missing = {} /\ call[c].stale = {}
  BY ActiveRequest, Kinds6 DEF PublishReadSubscribers, At, RequestOK, Syncs
<1>2. PICK step \in {"commit", "roles"} : step = IF sub["product"] = "none" THEN "commit" ELSE "roles"
  OBVIOUS
<1>3. PICK q : q = [call[c] EXCEPT !.step = step]
  OBVIOUS
<1>4. /\ q \in PublishRequest /\ q.op = call[c].op /\ q.old = call[c].old /\ q.step = step
      /\ q.op = "publish" /\ q.missing = {} /\ q.stale = {}
  BY <1>1, <1>3 DEF PublishRequest, SyncRequest
<1>5. RequestOK(q, role, unused) /\ OldOK(q, bound)
  BY <1>1, <1>4, ActiveRequest DEF RequestOK, OldOK, Request, Members, Deleters, Syncs
<1>6. Quiet(c, q)
  BY <1>2, <1>3, <1>4, <1>5, GotoMoves DEF Quiet, PublishReadSubscribers, At, Request, Go, Members
<1> QED BY <1>1, <1>2, <1>4, <1>6

LEMMA PublishReadRolesMoves ==
  ASSUME BaseInv, NEW c \in Call, PublishReadRoles(c)
  PROVE  \E q : /\ Quiet(c, q)
                /\ q \in PublishRequest /\ q.step = "commit" /\ call[c].op = "publish"
                /\ Synced(q, role)
                /\ \A i \in DOMAIN bound : bound[i].role \in q.stale => i \in q.old
<1>1. /\ call[c] \in PublishRequest /\ call[c].op = "publish" /\ call[c].codes \in SUBSET Code
      /\ Active(c) /\ SyncRead(c, call[c].codes) /\ UNCHANGED tables
  BY ActiveRequest, Kinds6 DEF PublishReadRoles, At, PublishRequest, SyncRequest
<1> QED BY <1>1, SyncReads DEF PublishRequest, Synced, Request, Syncs

LEMMA SubscribeMoves ==
  ASSUME BaseInv, NEW c \in Call, Subscribe(c)
  PROVE  \E q : /\ Quiet(c, q) /\ ~Active(c)
                /\ q \in SubscribeRequest /\ q.step = "insert"
<1>1. Begin(c, [op |-> "subscribe", step |-> "insert", codes |-> {}, missing |-> {}, stale |-> {}, old |-> {}])
  BY DEF Subscribe
<1>2. PICK q : q = [op |-> "subscribe", step |-> "insert", codes |-> {}, missing |-> {}, stale |-> {}, old |-> {}]
  OBVIOUS
<1>3. q \in SubscribeRequest /\ q.old = {} /\ q.op = "subscribe" /\ q.step = "insert" /\ q.stale = {}
  BY <1>2 DEF SubscribeRequest, SyncRequest
<1>4. RequestOK(q, role, unused) /\ OldOK(q, bound)
  BY <1>3, FS_EmptySet DEF RequestOK, OldOK, Request, Members, Syncs
<1>5. Quiet(c, q)
  BY <1>1, <1>2, <1>4, BeginMoves DEF Quiet, Subscribe
<1> QED BY <1>3, <1>5 DEF Subscribe, Ready

LEMMA SubscribeInsertMoves ==
  ASSUME BaseInv, NEW c \in Call, SubscribeInsert(c)
  PROVE  \E q : /\ Quiet(c, q)
                /\ \A o \in Call : call[o].op = "subscribe" => call[o].step = "insert"
                /\ \/ q = Idle
                   \/ /\ q \in SubscribeRequest /\ q.step = "template" /\ call[c].op = "subscribe"
                      /\ sub["product"] = "none"
<1>1. call[c] \in SubscribeRequest /\ call[c].op = "subscribe" /\ call[c].step = "insert"
  BY ActiveRequest, Kinds6 DEF SubscribeInsert, At
<1>2. \A o \in Call : call[o].op = "subscribe" => call[o].step = "insert"
  BY DEF SubscribeInsert, Active
<1>3. CASE End(c)
  BY <1>2, <1>3, EndIsQuiet DEF SubscribeInsert, At
<1>4. CASE sub["product"] = "none" /\ Go(c, "template")
  <2>1. PICK q : q = [call[c] EXCEPT !.step = "template"]
    OBVIOUS
  <2>2. /\ q \in SubscribeRequest /\ q.op = call[c].op /\ q.old = call[c].old /\ q.step = "template"
        /\ q.op = "subscribe" /\ q.stale = call[c].stale
    BY <1>1, <2>1 DEF SubscribeRequest, SyncRequest
  <2>3. RequestOK(q, role, unused) /\ OldOK(q, bound)
    BY <1>1, <2>2, ActiveRequest DEF RequestOK, OldOK, Request, Members, Deleters, Syncs
  <2>4. Quiet(c, q)
    BY <1>4, <2>1, <2>2, <2>3, GotoMoves DEF Quiet, SubscribeInsert, At, Request, Go, Members
  <2> QED BY <1>1, <1>2, <1>4, <2>2, <2>4
<1> QED BY <1>3, <1>4 DEF SubscribeInsert

LEMMA SubscribeReadTemplateMoves ==
  ASSUME BaseInv, NEW c \in Call, SubscribeReadTemplate(c)
  PROVE  \E q : /\ Quiet(c, q)
                /\ q \in SubscribeRequest /\ q.step = "roles" /\ q.codes = template
                /\ call[c].op = "subscribe" /\ call[c].step = "template"
<1>1. call[c] \in SubscribeRequest /\ call[c].op = "subscribe" /\ call[c].step = "template"
  BY ActiveRequest, Kinds6 DEF SubscribeReadTemplate, At
<1>2. PICK q : q = [call[c] EXCEPT !.step = "roles", !.codes = template]
  OBVIOUS
<1>3. /\ q \in SubscribeRequest /\ q.op = call[c].op /\ q.old = call[c].old /\ q.step = "roles"
      /\ q.op = "subscribe" /\ q.stale = call[c].stale /\ q.codes = template
  BY <1>1, <1>2 DEF SubscribeRequest, SyncRequest, BaseInv, Tables, OtherTables
<1>4. RequestOK(q, role, unused) /\ OldOK(q, bound)
  BY <1>1, <1>3, ActiveRequest DEF RequestOK, OldOK, Request, Members, Deleters, Syncs
<1>5. Quiet(c, q)
  BY <1>2, <1>3, <1>4, GotoMoves DEF Quiet, SubscribeReadTemplate, At, Request, Members
<1> QED BY <1>1, <1>3, <1>5

LEMMA SubscribeReadRolesMoves ==
  ASSUME BaseInv, NEW c \in Call, SubscribeReadRoles(c)
  PROVE  \E q : /\ Quiet(c, q)
                /\ q \in SubscribeRequest /\ q.step = "commit" /\ q.codes = call[c].codes
                /\ call[c].op = "subscribe" /\ call[c].step = "roles"
                /\ Synced(q, role)
                /\ \A i \in DOMAIN bound : bound[i].role \in q.stale => i \in q.old
<1>1. /\ call[c] \in SubscribeRequest /\ call[c].op = "subscribe" /\ call[c].codes \in SUBSET Code
      /\ call[c].step = "roles"
      /\ Active(c) /\ SyncRead(c, call[c].codes) /\ UNCHANGED tables
  BY ActiveRequest, Kinds6 DEF SubscribeReadRoles, At, SubscribeRequest, SyncRequest
<1> QED BY <1>1, SyncReads DEF SubscribeRequest, Synced, Request, Syncs

-----------------------------------------------------------------------------
(* The steps that write.                                                   *)

\* Rows that are dropped, and nothing else.
LEMMA DroppedRows ==
  ASSUME BaseInv, NEW gone, bound' = Dropping(bound, gone), unused' \subseteq unused
  PROVE  /\ BoundTable'
         /\ DOMAIN bound' = DOMAIN bound \ gone /\ \A i \in DOMAIN bound' : bound'[i] = bound[i]
<1>1. DOMAIN bound' = DOMAIN bound \ gone /\ \A i \in DOMAIN bound' : bound'[i] = bound[i]
  BY DEF Dropping
<1>2. IsFiniteSet(DOMAIN bound \ gone)
  BY FS_Difference DEF BaseInv, Tables, BoundTable
<1> QED BY <1>1, <1>2 DEF BaseInv, Tables, BoundTable

\* The rows that replace a user's roles.
LEMMA ReboundRows ==
  ASSUME BaseInv, NEW c \in Call, Active(c), call[c] \in RolesRequest, bound' = Rebound(call[c]), unused' = unused
  PROVE  /\ BoundTable'
         /\ \A i \in DOMAIN bound \ call[c].old : i \in DOMAIN bound' /\ bound'[i] = bound[i]
         /\ \A i \in DOMAIN bound' :
              \/ i \in DOMAIN bound \ call[c].old /\ bound'[i] = bound[i]
              \/ /\ i \notin DOMAIN bound \cup Remembered
                 /\ bound'[i].user = call[c].user /\ bound'[i].role \in call[c].new
         /\ \A x \in call[c].new : \E i \in DOMAIN bound' : bound'[i].user = call[c].user /\ bound'[i].role = x
<1>1. PICK r \in RolesRequest : r = call[c]
  OBVIOUS
<1>2. PICK new : new = {[user |-> r.user, role |-> x] : x \in r.new}
  OBVIOUS
<1>3. PICK rows : rows = Dropping(bound, r.old)
  OBVIOUS
<1>4. IsFiniteSet(new)
  <2> DEFINE f == [x \in r.new |-> [user |-> r.user, role |-> x]]
  <2>1. f \in Surjection(r.new, new)
    BY <1>2, Fun_IsSurj
  <2>2. r.new \in SUBSET Role
    BY DEF RolesRequest
  <2>3. IsFiniteSet(r.new)
    BY <2>2, FS_Subset
  <2> QED BY <2>1, <2>3, FS_Surjection
<1>5. /\ DOMAIN rows = DOMAIN bound \ r.old /\ \A i \in DOMAIN rows : rows[i] = bound[i]
      /\ DOMAIN rows \subseteq Nat /\ IsFiniteSet(DOMAIN bound)
  BY <1>3 DEF Dropping, BaseInv, Tables, BoundTable
<1>6. IsFiniteSet(DOMAIN rows)
  BY <1>5, FS_Difference
<1>7. bound' = Put(rows, Remembered, new)
  BY <1>1, <1>2, <1>3 DEF Rebound
<1>8. /\ IsFiniteSet(DOMAIN bound') /\ DOMAIN bound' \subseteq Nat
      /\ DOMAIN rows \subseteq DOMAIN bound'
      /\ \A i \in DOMAIN rows : bound'[i] = rows[i]
      /\ \A i \in DOMAIN bound' \ DOMAIN rows : i \notin Remembered /\ bound'[i] \in new
      /\ \A x \in new : \E i \in DOMAIN bound' \ DOMAIN rows : bound'[i] = x
  BY <1>4, <1>5, <1>6, <1>7, RowsPut, RememberedFinite
<1>9. r.old \subseteq Remembered
  BY <1>1, OldIsRemembered
<1>10. \A i \in DOMAIN bound' \ DOMAIN rows : i \notin DOMAIN bound \cup Remembered
  BY <1>5, <1>8, <1>9
<1>11. \A x \in new : x.user = r.user /\ x.role \in r.new
  BY <1>2
<1>12. \A x \in r.new : /\ [user |-> r.user, role |-> x] \in new
                        /\ [user |-> r.user, role |-> x] \in [user : User, role : Role \ unused]
                        /\ x = AdminRole => r.user \in Person
  <2>1. \A x \in r.new : x \notin unused /\ (x = AdminRole => r.user \in Person)
    BY <1>1, ActiveRequest DEF RequestOK, RolesRequest
  <2> QED BY <1>2, <2>1 DEF RolesRequest
<1>13. \A x \in new : x \in [user : User, role : Role \ unused] /\ (x.role = AdminRole => x.user \in Person)
  BY <1>2, <1>12
<1>14. \A i \in DOMAIN bound' : bound'[i] \in [user : User, role : Role \ unused]
                               /\ (bound'[i].role = AdminRole => bound'[i].user \in Person)
  BY <1>5, <1>8, <1>13 DEF BaseInv, Tables, BoundTable
<1>15. BoundTable'
  BY <1>8, <1>14 DEF BoundTable
<1>16. \A x \in r.new : \E i \in DOMAIN bound' : bound'[i].user = r.user /\ bound'[i].role = x
  <2> SUFFICES ASSUME NEW x \in r.new PROVE \E i \in DOMAIN bound' : bound'[i].user = r.user /\ bound'[i].role = x
    OBVIOUS
  <2>1. PICK i \in DOMAIN bound' : bound'[i] = [user |-> r.user, role |-> x]
    BY <1>8, <1>12
  <2> QED BY <2>1
<1> QED BY <1>1, <1>5, <1>8, <1>10, <1>11, <1>15, <1>16

LEMMA RolesCommitWrites ==
  ASSUME BaseInv, NEW c \in Call, RolesCommit(c)
  PROVE  /\ Moves(c, Idle) /\ Stable /\ Tables' /\ UNCHANGED <<role, unused, sub, template>>
         /\ call[c] \in RolesRequest /\ call[c].step = "commit" /\ Active(c)
         /\ \/ UNCHANGED <<bound, grant>>
            \/ /\ \A i \in DOMAIN bound \ call[c].old : i \in DOMAIN bound' /\ bound'[i] = bound[i]
               /\ \A i \in DOMAIN bound' :
                    \/ i \in DOMAIN bound \ call[c].old /\ bound'[i] = bound[i]
                    \/ /\ i \notin DOMAIN bound \cup Remembered
                       /\ bound'[i].user = call[c].user /\ bound'[i].role \in call[c].new
               /\ \A x \in call[c].new :
                    \E i \in DOMAIN bound' : bound'[i].user = call[c].user /\ bound'[i].role = x
               /\ grant' = IF call[c].new = {} THEN grant
                           ELSE [grant EXCEPT ![call[c].user][call[c].app] = EnsureGrant(@, call[c].seen, "role")]
<1>1. call[c] \in RolesRequest /\ call[c].step = "commit" /\ Active(c)
  BY ActiveRequest, Kinds6 DEF RolesCommit, At
<1>2. Moves(c, Idle) /\ UNCHANGED <<role, unused, sub, template>>
  BY <1>1, EndMoves DEF RolesCommit
<1>3. RoleTable'
  BY <1>2 DEF BaseInv, Tables, RoleTable
<1>4. CASE UNCHANGED <<bound, grant>>
  BY <1>1, <1>2, <1>3, <1>4 DEF Stable, BaseInv, Tables, BoundTable, OtherTables
<1>5. CASE /\ bound' = Rebound(call[c])
           /\ grant' = IF call[c].new = {} THEN grant
                       ELSE [grant EXCEPT ![call[c].user][call[c].app] = EnsureGrant(@, call[c].seen, "role")]
  <2>1. \A g, s : g \in Status => EnsureGrant(g, s, "role") \in Status
    BY DEF EnsureGrant, Status
  <2>2. grant' \in [User -> [App -> Status]]
    BY <1>1, <1>5, <2>1 DEF BaseInv, Tables, OtherTables, RolesRequest
  <2>3. OtherTables'
    BY <1>2, <2>2 DEF BaseInv, Tables, OtherTables
  <2> QED BY <1>1, <1>2, <1>3, <1>5, <2>3, ReboundRows DEF Stable, Tables
<1> QED BY <1>4, <1>5 DEF RolesCommit

LEMMA ReplaceCommitWrites ==
  ASSUME BaseInv, NEW c \in Call, ReplaceCommit(c)
  PROVE  /\ Moves(c, Idle) /\ Stable /\ Tables' /\ UNCHANGED <<role, unused, sub, template>>
         /\ call[c] \in ReplaceRequest /\ call[c].step = "commit" /\ Active(c)
         /\ \/ UNCHANGED <<bound, grant>>
            \/ /\ DOMAIN bound' = DOMAIN bound \ call[c].old /\ \A i \in DOMAIN bound' : bound'[i] = bound[i]
               /\ grant' = [grant EXCEPT ![call[c].user] = Admitted(call[c], @)]
<1>1. call[c] \in ReplaceRequest /\ call[c].step = "commit" /\ Active(c)
  BY ActiveRequest, Kinds6 DEF ReplaceCommit, At
<1>2. Moves(c, Idle) /\ UNCHANGED <<role, unused, sub, template>>
  BY <1>1, EndMoves DEF ReplaceCommit
<1>3. RoleTable'
  BY <1>2 DEF BaseInv, Tables, RoleTable
<1>4. CASE UNCHANGED <<bound, grant>>
  BY <1>1, <1>2, <1>3, <1>4 DEF Stable, BaseInv, Tables, BoundTable, OtherTables
<1>5. CASE bound' = Dropping(bound, call[c].old) /\ grant' = [grant EXCEPT ![call[c].user] = Admitted(call[c], @)]
  <2>1. \A g \in [App -> Status] : Admitted(call[c], g) \in [App -> Status]
    BY DEF Admitted, EnsureGrant, Status
  <2>2. grant' \in [User -> [App -> Status]]
    BY <1>1, <1>5, <2>1 DEF BaseInv, Tables, OtherTables, ReplaceRequest
  <2>3. OtherTables'
    BY <1>2, <2>2 DEF BaseInv, Tables, OtherTables
  <2> QED BY <1>1, <1>2, <1>3, <1>5, <2>3, DroppedRows DEF Stable, Tables
<1> QED BY <1>4, <1>5 DEF ReplaceCommit

LEMMA DeleteRoleCommitWrites ==
  ASSUME BaseInv, NEW c \in Call, DeleteRoleCommit(c)
  PROVE  /\ Moves(c, Idle) /\ Stable /\ Tables' /\ UNCHANGED <<unused, grant, sub, template>>
         /\ call[c] \in DeleteRequest /\ call[c].step = "commit" /\ Active(c)
         /\ DOMAIN bound' = DOMAIN bound \ call[c].old /\ \A i \in DOMAIN bound' : bound'[i] = bound[i]
         /\ DOMAIN role' = DOMAIN role \ {call[c].role} /\ \A x \in DOMAIN role' : role'[x] = role[x]
         /\ call[c].role \in DOMAIN role => role[call[c].role].kind = "custom"
<1>1. call[c] \in DeleteRequest /\ call[c].op = "deleteRole" /\ call[c].step = "commit" /\ Active(c)
  BY ActiveRequest, Kinds6 DEF DeleteRoleCommit, At
<1>2. Moves(c, Idle) /\ UNCHANGED <<unused, grant, sub, template>>
  BY <1>1, EndMoves DEF DeleteRoleCommit
<1>3. DOMAIN role' = DOMAIN role \ {call[c].role} /\ \A x \in DOMAIN role' : role'[x] = role[x]
  BY DEF DeleteRoleCommit, Without
<1>4. call[c].role \in DOMAIN role => role[call[c].role].kind = "custom"
  BY <1>1, ActiveRequest DEF RequestOK
<1>5. AdminRole \in DOMAIN role /\ role[AdminRole].kind = "admin"
  BY DEF BaseInv, Tables, RoleTable
<1>6. RoleTable'
  BY <1>2, <1>3, <1>4, <1>5 DEF BaseInv, Tables, RoleTable
<1>7. /\ BoundTable'
      /\ DOMAIN bound' = DOMAIN bound \ call[c].old /\ \A i \in DOMAIN bound' : bound'[i] = bound[i]
  BY <1>2, DroppedRows DEF DeleteRoleCommit
<1>8. Tables'
  BY <1>2, <1>6, <1>7 DEF BaseInv, Tables, OtherTables
<1>9. Stable
  BY <1>2, <1>3, <1>7 DEF Stable
<1> QED BY <1>1, <1>2, <1>3, <1>4, <1>7, <1>8, <1>9

\* The roles after a synchronisation: the stale ones are gone, there is one
\* more for each code that was missing, and the holders listed have lost theirs.
SyncWrites(r, new) ==
  /\ new \subseteq unused /\ unused' = unused \ new
  /\ DOMAIN role' = (DOMAIN role \ r.stale) \cup new
  /\ \A x \in DOMAIN role' \ new : role'[x] = role[x]
  /\ \A x \in new : \E code \in r.missing : role'[x] = Provided(code)
  /\ \A code \in r.missing : \E x \in new : role'[x] = Provided(code)
  /\ \A x, y \in new : role'[x].code = role'[y].code => x = y
  /\ DOMAIN bound' = DOMAIN bound \ r.old /\ \A i \in DOMAIN bound' : bound'[i] = bound[i]

LEMMA SyncCommitWrites ==
  ASSUME BaseInv, NEW c \in Call, Active(c), call[c].op \in Syncs, SyncCommit(call[c])
  PROVE  /\ Stable /\ RoleTable' /\ BoundTable'
         /\ \E new : SyncWrites(call[c], new)
         /\ \A x \in call[c].stale \cap DOMAIN role : role[x].kind = "template"
<1>1. PICK r \in PublishRequest \cup SubscribeRequest : r = call[c]
  BY ActiveRequest, Kinds6 DEF Syncs
<1>2. PICK id \in [r.missing -> unused] :
        /\ \A x, y \in r.missing : id[x] = id[y] => x = y
        /\ LET new == {id[x] : x \in r.missing}  kept == Without(r.stale) IN
           /\ role' = [i \in new \cup DOMAIN kept |->
                         IF i \in new THEN Provided(CHOOSE x \in r.missing : id[x] = i) ELSE kept[i]]
           /\ unused' = unused \ new
        /\ bound' = Dropping(bound, r.old)
  BY <1>1 DEF SyncCommit
<1>3. PICK new : new = {id[x] : x \in r.missing}
  OBVIOUS
<1>4. PICK kept : kept = Without(r.stale)
  OBVIOUS
<1>5. DOMAIN kept = DOMAIN role \ r.stale /\ \A x \in DOMAIN kept : kept[x] = role[x]
  BY <1>4 DEF Without
<1>6. /\ role' = [i \in new \cup DOMAIN kept |->
                    IF i \in new THEN Provided(CHOOSE x \in r.missing : id[x] = i) ELSE kept[i]]
      /\ unused' = unused \ new
  BY <1>2, <1>3, <1>4
<1>7. \A x \in r.missing : (CHOOSE y \in r.missing : id[y] = id[x]) = x
  BY <1>2
<1>8. \A x \in r.missing : id[x] \in new /\ role'[id[x]] = Provided(x)
  BY <1>3, <1>6, <1>7
<1>9. new \subseteq unused
  BY <1>3
<1>10. \A x \in new : \E code \in r.missing : id[code] = x /\ role'[x] = Provided(code)
  BY <1>3, <1>8
<1>11. \A x, y \in new : role'[x].code = role'[y].code => x = y
  <2>1. \A code : Provided(code).code = code
    BY DEF Provided
  <2> QED BY <1>10, <2>1
<1>12. /\ BoundTable'
       /\ DOMAIN bound' = DOMAIN bound \ r.old /\ \A i \in DOMAIN bound' : bound'[i] = bound[i]
  BY <1>2, <1>6, DroppedRows
<1>13. /\ DOMAIN role' = (DOMAIN role \ r.stale) \cup new
       /\ \A x \in DOMAIN role' \ new : role'[x] = role[x]
  BY <1>5, <1>6
<1>14. SyncWrites(r, new)
  BY <1>6, <1>8, <1>9, <1>10, <1>11, <1>12, <1>13 DEF SyncWrites
<1>15. r.missing \subseteq Code /\ \A x \in r.stale \cap DOMAIN role : role[x].kind = "template"
  BY <1>1, ActiveRequest DEF RequestOK, PublishRequest, SubscribeRequest, SyncRequest
<1>16. /\ unused \subseteq Role \ {AdminRole} /\ DOMAIN role \subseteq Role \ unused
       /\ AdminRole \in DOMAIN role /\ role[AdminRole].kind = "admin"
  BY DEF BaseInv, Tables, RoleTable
<1>17. \A code \in r.missing : Provided(code) \in RoleRow /\ Provided(code).kind = "template"
  BY <1>15 DEF RoleRow, Provided
<1>18. AdminRole \in DOMAIN role'
  BY <1>13, <1>15, <1>16
<1>19. \A x \in DOMAIN role' : role'[x] \in RoleRow /\ (role'[x].kind = "admin" <=> x = AdminRole)
  <2> SUFFICES ASSUME NEW x \in DOMAIN role'
               PROVE  role'[x] \in RoleRow /\ (role'[x].kind = "admin" <=> x = AdminRole)
    OBVIOUS
  <2>1. CASE x \in new
    BY <1>9, <1>10, <1>16, <1>17, <2>1
  <2>2. CASE x \notin new
    BY <1>13, <2>2 DEF BaseInv, Tables, RoleTable
  <2> QED BY <2>1, <2>2
<1>20. RoleTable'
  BY <1>6, <1>9, <1>13, <1>16, <1>18, <1>19 DEF RoleTable
<1>21. Stable
  BY <1>6, <1>9, <1>12, <1>13 DEF Stable
<1> QED BY <1>1, <1>12, <1>14, <1>15, <1>20, <1>21

LEMMA PublishCommitWrites ==
  ASSUME BaseInv, NEW c \in Call, PublishCommit(c)
  PROVE  /\ Moves(c, Idle) /\ Stable /\ Tables' /\ UNCHANGED <<grant, sub>>
         /\ call[c] \in PublishRequest /\ call[c].step = "commit" /\ Active(c)
         /\ template' = call[c].codes
         /\ \E new : SyncWrites(call[c], new)
         /\ \A x \in call[c].stale \cap DOMAIN role : role[x].kind = "template"
<1>1. call[c] \in PublishRequest /\ call[c].op \in Syncs /\ call[c].step = "commit" /\ Active(c)
  BY ActiveRequest, Kinds6 DEF PublishCommit, At, Syncs
<1>2. Moves(c, Idle) /\ UNCHANGED <<grant, sub>> /\ template' = call[c].codes /\ SyncCommit(call[c])
  BY <1>1, EndMoves DEF PublishCommit
<1>3. OtherTables'
  BY <1>1, <1>2 DEF BaseInv, Tables, OtherTables, PublishRequest, SyncRequest
<1> QED BY <1>1, <1>2, <1>3, SyncCommitWrites DEF Tables

LEMMA SubscribeCommitWrites ==
  ASSUME BaseInv, NEW c \in Call, SubscribeCommit(c)
  PROVE  /\ Moves(c, Idle) /\ Stable /\ Tables' /\ UNCHANGED <<grant, template>>
         /\ call[c] \in SubscribeRequest /\ call[c].step = "commit" /\ Active(c)
         /\ \E new : SyncWrites(call[c], new)
         /\ \A x \in call[c].stale \cap DOMAIN role : role[x].kind = "template"
<1>1. call[c] \in SubscribeRequest /\ call[c].op \in Syncs /\ call[c].step = "commit" /\ Active(c)
  BY ActiveRequest, Kinds6 DEF SubscribeCommit, At, Syncs
<1>2. Moves(c, Idle) /\ UNCHANGED <<grant, template>> /\ SyncCommit(call[c])
  BY <1>1, EndMoves DEF SubscribeCommit
<1>3. PICK status \in {"enable", "disable"} : sub' = [sub EXCEPT !["product"] = status]
  BY DEF SubscribeCommit
<1>4. OtherTables'
  BY <1>2, <1>3 DEF BaseInv, Tables, OtherTables, App
<1> QED BY <1>1, <1>2, <1>4, SyncCommitWrites DEF Tables

\* The steps that are one statement: no request is under way in between.
LEMMA CreateRoleWrites ==
  ASSUME BaseInv, NEW c \in Call, CreateRole(c)
  PROVE  /\ Stable /\ Tables' /\ UNCHANGED <<bound, grant, sub, template, call, mixed>>
         /\ DOMAIN role \subseteq DOMAIN role'
         /\ \A x \in DOMAIN role' : \/ x \in DOMAIN role /\ role'[x] = role[x]
                                    \/ x \in unused /\ role'[x].kind = "custom"
<1>1. PICK r \in unused, a \in App :
        /\ role' = Adding(role, r, [app |-> a, kind |-> "custom", code |-> ""])
        /\ unused' = unused \ {r}
  BY DEF CreateRole
<1>2. PICK row : row = [app |-> a, kind |-> "custom", code |-> ""]
  OBVIOUS
<1>3. DOMAIN role' = DOMAIN role \cup {r} /\ \A x \in DOMAIN role' : role'[x] = IF x = r THEN row ELSE role[x]
  BY <1>1, <1>2 DEF Adding
<1>4. r \notin DOMAIN role /\ r \in Role \ {AdminRole} /\ unused \subseteq Role \ {AdminRole}
  BY DEF BaseInv, Tables, RoleTable
<1>5. row \in RoleRow /\ row.kind = "custom"
  BY <1>2 DEF RoleRow
<1>6. RoleTable'
  BY <1>1, <1>3, <1>4, <1>5 DEF BaseInv, Tables, RoleTable
<1>7. UNCHANGED <<bound, grant, sub, template, call, mixed>>
  BY DEF CreateRole
<1>8. BoundTable' /\ OtherTables'
  BY <1>1, <1>7 DEF BaseInv, Tables, BoundTable, OtherTables
<1>9. Stable
  BY <1>1, <1>3, <1>4, <1>7 DEF Stable
<1> QED BY <1>3, <1>4, <1>5, <1>6, <1>7, <1>8, <1>9 DEF Tables

LEMMA SubscriptionWrites ==
  ASSUME BaseInv, NEW c \in Call, Unsubscribe(c) \/ SetSubscription(c)
  PROVE  /\ Stable /\ Tables' /\ UNCHANGED <<role, unused, bound, grant, template, call, mixed>>
         /\ sub["product"] = "none" => sub'["product"] = "none"
<1>1. UNCHANGED <<role, unused, bound, grant, template, call, mixed>>
  BY DEF Unsubscribe, SetSubscription
<1>2. /\ sub' \in [App -> {"none", "enable", "disable"}]
      /\ sub["product"] = "none" => sub'["product"] = "none"
  BY DEF Unsubscribe, SetSubscription, App, BaseInv, Tables, OtherTables
<1> QED BY <1>1, <1>2 DEF Stable, BaseInv, Tables, RoleTable, BoundTable, OtherTables

\* A step in which no request moves.
LEMMA NobodyMoves ==
  ASSUME BaseInv, Stable, Tables', UNCHANGED <<call, mixed>>
  PROVE  BaseInv'
<1>1. ASSUME NEW o \in Call
      PROVE  RequestOK(call'[o], role', unused') /\ OldOK(call'[o], bound')
  BY OthersStay
<1>2. Overlaps'
  BY DEF BaseInv, Overlaps, Active
<1> QED BY <1>1, <1>2 DEF BaseInv

\* A commit that ends the request.
LEMMA CommitKeepsBase ==
  ASSUME BaseInv, NEW c \in Call, Moves(c, Idle), Stable, Tables'
  PROVE  BaseInv'
<1>1. RequestOK(Idle, role', unused') /\ OldOK(Idle, bound')
  BY DEF RequestOK, OldOK, Idle, Request, Members, Deleters, Syncs
<1> QED BY <1>1, MoveKeepsBase

LEMMA BaseStart == Init => BaseInv
<1> SUFFICES ASSUME Init PROVE BaseInv
  OBVIOUS
<1>1. PICK provided \in UNION {[codes -> Role \ {AdminRole}] : codes \in SUBSET Code} :
       /\ \A x, y \in DOMAIN provided : provided[x] = provided[y] => x = y
       /\ template = DOMAIN provided
       /\ role = Adding([r \in {provided[x] : x \in template} |->
                           Provided(CHOOSE x \in template : provided[x] = r)], AdminRole, Builtin)
       /\ sub \in {s \in [App -> {"none", "enable"}] :
                     s["console"] = "enable" /\ (s["product"] = "none" => template = {})}
  BY DEF Init
<1>2. template \subseteq Code /\ \A x \in template : provided[x] \in Role \ {AdminRole}
  BY <1>1
<1>3. /\ DOMAIN role = {provided[x] : x \in template} \cup {AdminRole}
      /\ role[AdminRole] = Builtin
      /\ \A x \in template : role[provided[x]] = Provided(x)
  BY <1>1, <1>2 DEF Adding
<1>4. unused = Role \ DOMAIN role
  BY DEF Init
<1>5. \A x \in template : Provided(x) \in RoleRow /\ Provided(x).kind = "template"
  BY <1>2 DEF RoleRow, Provided
<1>6. Builtin \in RoleRow /\ Builtin.kind = "admin"
  BY DEF RoleRow, Builtin
<1>7. RoleTable
  BY <1>2, <1>3, <1>4, <1>5, <1>6 DEF RoleTable
<1>8. PICK order \in [1..Cardinality(Admins) -> Admins] : order = SetToSeq(Admins)
  BY OrderExists
<1>9. DOMAIN bound = 1..Cardinality(Admins) /\ \A i \in DOMAIN bound : bound[i] = [user |-> order[i], role |-> AdminRole]
  BY <1>8 DEF Init
<1>10. Cardinality(Admins) \in Nat
  BY FS_CardinalityType
<1>11. DOMAIN bound \subseteq Nat /\ IsFiniteSet(DOMAIN bound)
  <2>1. PICK a \in Int, b \in Int : a = 1 /\ b = Cardinality(Admins)
    BY <1>10
  <2>2. IsFiniteSet(a..b)
    BY FS_Interval
  <2> QED BY <1>9, <1>10, <2>1, <2>2
<1>12. BoundTable
  BY <1>3, <1>4, <1>8, <1>9, <1>11 DEF BoundTable, User
<1>13. OtherTables
  BY <1>1, <1>2 DEF Init, OtherTables, Status, App
<1>14. DOMAIN call = Call /\ \A c \in Call : call[c] = Idle
  BY DEF Init
<1>15. Overlaps
  BY <1>14 DEF Overlaps, Active, Idle
<1> QED BY <1>7, <1>12, <1>13, <1>14, <1>15, IdleOK DEF BaseInv, Tables

ReadStep(c) ==
  \/ CheckTarget(c) \/ CheckOthers(c)
  \/ UpdateRoles(c) \/ RolesReadGrant(c)
  \/ Replace(c) \/ ReplaceReadAdmissions(c) \/ ReplaceReadBindings(c) \/ ReplaceReadGrants(c)
  \/ DeleteRole(c) \/ DeleteRoleReadHolders(c)
  \/ Publish(c) \/ PublishReadSubscribers(c) \/ PublishReadRoles(c)
  \/ Subscribe(c) \/ SubscribeInsert(c) \/ SubscribeReadTemplate(c) \/ SubscribeReadRoles(c)

CommitStep(c) ==
  RolesCommit(c) \/ ReplaceCommit(c) \/ DeleteRoleCommit(c) \/ PublishCommit(c) \/ SubscribeCommit(c)

StatementStep(c) == CreateRole(c) \/ Unsubscribe(c) \/ SetSubscription(c)

LEMMA StepsOfNext ==
  ASSUME Next
  PROVE  \E c \in Call : ReadStep(c) \/ CommitStep(c) \/ StatementStep(c)
BY DEF Next, ReadStep, CommitStep, StatementStep

LEMMA ReadStepIsQuiet ==
  ASSUME BaseInv, NEW c \in Call, ReadStep(c)
  PROVE  \E q : Quiet(c, q)
BY CheckTargetMoves, CheckOthersMoves, UpdateRolesMoves, RolesReadGrantMoves, ReplaceMoves,
   ReplaceReadAdmissionsMoves, ReplaceReadBindingsMoves, ReplaceReadGrantsMoves, DeleteRoleMoves,
   DeleteRoleReadHoldersMoves, PublishMoves, PublishReadSubscribersMoves, PublishReadRolesMoves, SubscribeMoves,
   SubscribeInsertMoves, SubscribeReadTemplateMoves, SubscribeReadRolesMoves
   DEF ReadStep

LEMMA CommitStepWrites ==
  ASSUME BaseInv, NEW c \in Call, CommitStep(c)
  PROVE  Moves(c, Idle) /\ Stable /\ Tables' /\ Active(c)
BY RolesCommitWrites, ReplaceCommitWrites, DeleteRoleCommitWrites, PublishCommitWrites, SubscribeCommitWrites
   DEF CommitStep

LEMMA StatementStepWrites ==
  ASSUME BaseInv, NEW c \in Call, StatementStep(c)
  PROVE  Stable /\ Tables' /\ UNCHANGED <<call, mixed>>
BY CreateRoleWrites, SubscriptionWrites DEF StatementStep

LEMMA BaseStep ==
  ASSUME BaseInv, [Next]_vars
  PROVE  BaseInv'
<1>1. ASSUME NEW c \in Call, ReadStep(c) PROVE BaseInv'
  BY <1>1, ReadStepIsQuiet, QuietKeepsBase
<1>2. ASSUME NEW c \in Call, CommitStep(c) PROVE BaseInv'
  BY <1>2, CommitStepWrites, CommitKeepsBase
<1>3. ASSUME NEW c \in Call, StatementStep(c) PROVE BaseInv'
  BY <1>3, StatementStepWrites, NobodyMoves
<1>4. CASE UNCHANGED vars
  BY <1>4 DEF vars, BaseInv, Tables, RoleTable, BoundTable, OtherTables, Overlaps, Active
<1> QED BY <1>1, <1>2, <1>3, <1>4, StepsOfNext

\* The tables are what their constraints say, an identifier is never used for
\* another role or binding, only people administer, and requests that are under
\* way together are known to have overlapped.
THEOREM TablesStaySound == Spec => []BaseInv
BY BaseStart, BaseStep, PTL DEF Spec

-----------------------------------------------------------------------------
(* Requests that do not overlap.                                           *)

LEMMA KindOf ==
  /\ Kind("roles") = "roles" /\ Kind("replace") = "replace" /\ Kind("deleteRole") = "role"
  /\ Kind("publish") = "publish" /\ Kind("subscribe") = "subscription"
BY DEF Kind

\* Two requests under way have overlapped.
LEMMA NotTogether ==
  ASSUME BaseInv, NEW c \in Call, NEW o \in Call, c # o, Active(c), Active(o)
  PROVE  /\ ~Apart(Kind(call[c].op), Kind(call[o].op)) /\ ~Apart(Kind(call[o].op), Kind(call[c].op))
         /\ call[c].op \in Members /\ call[o].op \in Members /\ call[c].user = call[o].user =>
              /\ ~ApartOnUser(Kind(call[c].op), Kind(call[o].op))
              /\ ~ApartOnUser(Kind(call[o].op), Kind(call[c].op))
<1>1. Together(call[c], call[o]) \in mixed /\ Together(call[o], call[c]) \in mixed
  BY DEF BaseInv, Overlaps
<1>2. call[c].op \in Members /\ call[o].op \in Members /\ call[c].user = call[o].user =>
        UserOf(call[c]) \cap UserOf(call[o]) # {}
  BY UserOfRequest, ActiveRequest
<1> QED BY <1>1, <1>2 DEF Together, Apart, ApartOnUser

\* What has overlapped stays so.
LEMMA ApartBefore ==
  ASSUME mixed \subseteq mixed'
  PROVE  /\ \A k, l : Apart(k, l)' => Apart(k, l)
         /\ \A k, l : ApartOnUser(k, l)' => ApartOnUser(k, l)
BY DEF Apart, ApartOnUser

-----------------------------------------------------------------------------
(* Every binding's role exists.                                            *)

LEMMA ExistQuiet ==
  ASSUME BaseInv, ExistInv, NEW c \in Call, NEW q, Quiet(c, q),
         ExistItem(call[c], role, bound) => ExistItem(q, role, bound)
  PROVE  ExistInv'
<1> SUFFICES ASSUME RolesApart' PROVE (RolesExist /\ \A o \in Call : ExistItem(call[o], role, bound))'
  BY DEF ExistInv
<1>1. RolesApart
  BY ApartBefore DEF RolesApart, Quiet, Moves
<1>2. /\ UNCHANGED <<role, bound>> /\ call'[c] = q /\ \A o \in Call \ {c} : call'[o] = call[o]
  BY ActiveRequest DEF Quiet, Moves, tables
<1>3. \A o \in Call : ExistItem(call'[o], role, bound)
  BY <1>1, <1>2 DEF ExistInv
<1>4. RolesExist'
  BY <1>1, <1>2, ApartBefore DEF ExistInv, RolesExist, RolesApart, Quiet, Moves
<1> QED BY <1>2, <1>3, <1>4

LEMMA ExistRead ==
  ASSUME BaseInv, ExistInv, NEW c \in Call, ReadStep(c)
  PROVE  ExistInv'
<1> SUFFICES \E q : Quiet(c, q) /\ (ExistItem(call[c], role, bound) => ExistItem(q, role, bound))
  BY ExistQuiet
<1>1. ExistItem(Idle, role, bound)
  BY DEF ExistItem, Idle, Syncs
<1>2. \A q \in ReplaceRequest : ExistItem(q, role, bound)
  BY DEF ReplaceRequest, ExistItem, Syncs
<1>3. CASE CheckTarget(c)
  BY <1>3, CheckTargetMoves, ActiveRequest, Kinds6 DEF ExistItem, Members, RolesRequest, ReplaceRequest, Syncs
<1>4. CASE CheckOthers(c)
  BY <1>1, <1>4, CheckOthersMoves, ActiveRequest, Kinds6
     DEF ExistItem, Members, RolesRequest, ReplaceRequest, Syncs
<1>5. CASE UpdateRoles(c)
  BY <1>5, UpdateRolesMoves DEF ExistItem, RolesRequest, Syncs
<1>6. CASE RolesReadGrant(c)
  BY <1>6, RolesReadGrantMoves DEF ExistItem, RolesRequest, Syncs
<1>7. CASE Replace(c) \/ ReplaceReadAdmissions(c) \/ ReplaceReadBindings(c)
  BY <1>1, <1>2, <1>7, ReplaceMoves, ReplaceReadAdmissionsMoves, ReplaceReadBindingsMoves
<1>8. CASE ReplaceReadGrants(c)
  BY <1>2, <1>8, ReplaceReadGrantsMoves
<1>9. CASE DeleteRole(c)
  BY <1>9, DeleteRoleMoves DEF ExistItem, DeleteRequest, Syncs
<1>10. CASE DeleteRoleReadHolders(c)
  BY <1>10, DeleteRoleReadHoldersMoves DEF ExistItem, DeleteRequest, Syncs
<1>11. CASE Publish(c)
  BY <1>11, PublishMoves DEF ExistItem, PublishRequest, SyncRequest
<1>12. CASE PublishReadSubscribers(c)
  BY <1>12, PublishReadSubscribersMoves DEF ExistItem, PublishRequest, SyncRequest
<1>13. CASE PublishReadRoles(c)
  BY <1>13, PublishReadRolesMoves DEF ExistItem, PublishRequest, SyncRequest
<1>14. CASE Subscribe(c)
  BY <1>14, SubscribeMoves DEF ExistItem, SubscribeRequest, SyncRequest
<1>15. CASE SubscribeInsert(c)
  BY <1>1, <1>15, SubscribeInsertMoves DEF ExistItem, SubscribeRequest, SyncRequest
<1>16. CASE SubscribeReadTemplate(c)
  BY <1>16, SubscribeReadTemplateMoves DEF ExistItem, SubscribeRequest, SyncRequest
<1>17. CASE SubscribeReadRoles(c)
  BY <1>17, SubscribeReadRolesMoves DEF ExistItem, SubscribeRequest, SyncRequest
<1> QED BY <1>3, <1>4, <1>5, <1>6, <1>7, <1>8, <1>9, <1>10, <1>11, <1>12, <1>13, <1>14, <1>15, <1>16, <1>17
           DEF ReadStep

\* A commit that ends the request: the roles it removes have lost their holders,
\* the roles it gives are there.
LEMMA ExistCommit ==
  ASSUME BaseInv, ExistInv, NEW c \in Call, CommitStep(c)
  PROVE  ExistInv'
<1> SUFFICES ASSUME RolesApart' PROVE (RolesExist /\ \A o \in Call : ExistItem(call[o], role, bound))'
  BY DEF ExistInv
<1>1. RolesApart
  BY CommitStepWrites, ApartBefore DEF RolesApart, Moves
<1>2. /\ Active(c) /\ call'[c] = Idle /\ \A o \in Call \ {c} : call'[o] = call[o]
  BY CommitStepWrites, ActiveRequest DEF Moves
<1>3. /\ \A i \in DOMAIN bound : bound[i].role \in DOMAIN role
      /\ \A o \in Call : ExistItem(call[o], role, bound)
  BY <1>1 DEF ExistInv, RolesExist, RolesApart
<1>4. ExistItem(Idle, role', bound')
  BY DEF ExistItem, Idle, Syncs
<1>5. CASE RolesCommit(c)
  <2>1. call[c].op = "roles" /\ call[c].new \subseteq DOMAIN role /\ role' = role
    BY <1>3, <1>5, RolesCommitWrites DEF RolesRequest, ExistItem
  <2>2. \A i \in DOMAIN bound' : bound'[i].role \in DOMAIN role'
    BY <1>3, <1>5, <2>1, RolesCommitWrites
  <2>3. ASSUME NEW o \in Call \ {c} PROVE ExistItem(call[o], role', bound')
    <3>1. Active(o) => call[o].op \notin Deleters
      BY <1>1, <1>2, <2>1, NotTogether, KindOf DEF RolesApart, Deleters, Syncs
    <3> QED BY <1>3, <2>1, <3>1 DEF ExistItem, Active, Deleters, Syncs
  <2> QED BY <1>2, <1>4, <2>2, <2>3 DEF RolesExist
<1>6. CASE ReplaceCommit(c)
  <2>1. /\ role' = role /\ \A i \in DOMAIN bound' : i \in DOMAIN bound /\ bound'[i] = bound[i]
    BY <1>6, ReplaceCommitWrites
  <2>2. \A o \in Call : ExistItem(call[o], role', bound')
    BY <1>3, <2>1 DEF ExistItem
  <2> QED BY <1>2, <1>3, <1>4, <2>1, <2>2 DEF RolesExist
<1>7. ASSUME call[c].op \in Deleters,
             \A i \in DOMAIN bound' : i \in DOMAIN bound /\ bound'[i] = bound[i] /\ bound'[i].role \in DOMAIN role'
      PROVE  (RolesExist /\ \A o \in Call : ExistItem(call[o], role, bound))'
  <2>1. ASSUME NEW o \in Call \ {c} PROVE ExistItem(call[o], role', bound')
    <3>1. Active(o) => call[o].op # "roles"
      BY <1>1, <1>2, <1>7, NotTogether, KindOf DEF RolesApart, Deleters, Syncs
    <3> QED BY <1>3, <1>7, <3>1 DEF ExistItem, Active
  <2> QED BY <1>2, <1>4, <1>7, <2>1 DEF RolesExist
<1>8. CASE DeleteRoleCommit(c)
  <2>1. call[c].op = "deleteRole" /\ \A i \in DOMAIN bound : bound[i].role = call[c].role => i \in call[c].old
    BY <1>3, <1>8, DeleteRoleCommitWrites DEF DeleteRequest, ExistItem
  <2> QED BY <1>3, <1>7, <1>8, <2>1, DeleteRoleCommitWrites DEF Deleters
<1>9. CASE PublishCommit(c) \/ SubscribeCommit(c)
  <2>1. call[c].op \in Syncs /\ \A i \in DOMAIN bound : bound[i].role \in call[c].stale => i \in call[c].old
    BY <1>3, <1>9, PublishCommitWrites, SubscribeCommitWrites
       DEF PublishRequest, SubscribeRequest, SyncRequest, ExistItem, Syncs
  <2>2. PICK new : SyncWrites(call[c], new)
    BY <1>9, PublishCommitWrites, SubscribeCommitWrites
  <2> QED BY <1>3, <1>7, <2>1, <2>2 DEF SyncWrites, Deleters
<1> QED BY <1>5, <1>6, <1>8, <1>9 DEF CommitStep

LEMMA ExistStatement ==
  ASSUME BaseInv, ExistInv, NEW c \in Call, StatementStep(c)
  PROVE  ExistInv'
<1>1. UNCHANGED <<bound, call, mixed>> /\ DOMAIN role \subseteq DOMAIN role'
  BY CreateRoleWrites, SubscriptionWrites DEF StatementStep
<1>2. \A o \in Call : ExistItem(call[o], role, bound) => ExistItem(call'[o], role', bound')
  BY <1>1 DEF ExistItem
<1> QED BY <1>1, <1>2 DEF ExistInv, RolesApart, RolesExist, Apart

LEMMA ExistStart == Init => ExistInv
<1> SUFFICES ASSUME Init PROVE ExistInv
  OBVIOUS
<1>1. \A c \in Call : ExistItem(call[c], role, bound)
  BY DEF Init, ExistItem, Idle, Syncs
<1>2. AdminRole \in DOMAIN role
  BY BaseStart DEF BaseInv, Tables, RoleTable
<1>3. \A i \in DOMAIN bound : bound[i].role = AdminRole
  BY DEF Init
<1> QED BY <1>1, <1>2, <1>3 DEF ExistInv, RolesExist

\* Every binding's role exists, whatever was deleted or withdrawn meanwhile,
\* unless a replacement of roles overlapped it.
THEOREM BindingsHaveRoles == Spec => []RolesExist
<1>1. Init => BaseInv /\ ExistInv
  BY BaseStart, ExistStart
<1>2. BaseInv /\ ExistInv /\ [Next]_vars => BaseInv' /\ ExistInv'
  <2> SUFFICES ASSUME BaseInv, ExistInv, [Next]_vars PROVE ExistInv'
    BY BaseStep
  <2>1. CASE UNCHANGED vars
    BY <2>1 DEF vars, ExistInv, RolesApart, RolesExist, Apart
  <2> QED BY <2>1, StepsOfNext, ExistRead, ExistCommit, ExistStatement
<1>3. ExistInv => RolesExist
  BY DEF ExistInv, RolesExist, RolesApart
<1> QED BY <1>1, <1>2, <1>3, PTL DEF Spec

-----------------------------------------------------------------------------
(* Whoever holds a role is admitted to its application.                    *)

UserApart == ApartOnUser("roles", "replace")

LEMMA RoleRows == \A row \in RoleRow : row.app \in App /\ (row.kind = "admin" => row.app = "console")
<1> SUFFICES ASSUME NEW row \in RoleRow PROVE row.app \in App /\ (row.kind = "admin" => row.app = "console")
  OBVIOUS
<1>1. CASE row = Builtin
  BY <1>1 DEF Builtin, App
<1>2. CASE row \in [app : App, kind : {"custom"}, code : {""}]
  BY <1>2
<1>3. CASE row \in [app : {"product"}, kind : {"template"}, code : Code]
  BY <1>3 DEF App
<1> QED BY <1>1, <1>2, <1>3 DEF RoleRow

LEMMA AdmitQuiet ==
  ASSUME BaseInv, AdmitInv, NEW c \in Call, NEW q, Quiet(c, q),
         AdmitItem(call[c], role, bound, grant) => AdmitItem(q, role, bound, grant)
  PROVE  AdmitInv'
<1> SUFFICES ASSUME UserApart'
             PROVE  (AdmissionFollowsRole /\ \A o \in Call : AdmitItem(call[o], role, bound, grant))'
  BY DEF AdmitInv, UserApart
<1>1. UserApart
  BY ApartBefore DEF UserApart, Quiet, Moves
<1>2. /\ UNCHANGED <<role, bound, grant>> /\ call'[c] = q /\ \A o \in Call \ {c} : call'[o] = call[o]
  BY ActiveRequest DEF Quiet, Moves, tables
<1>3. \A o \in Call : AdmitItem(call'[o], role, bound, grant)
  BY <1>1, <1>2 DEF AdmitInv, UserApart
<1>4. AdmissionFollowsRole'
  BY <1>1, <1>2 DEF AdmitInv, AdmissionFollowsRole, UserApart
<1> QED BY <1>2, <1>3, <1>4

LEMMA AdmitRead ==
  ASSUME BaseInv, AdmitInv, NEW c \in Call, ReadStep(c)
  PROVE  AdmitInv'
<1> SUFFICES \E q : /\ Quiet(c, q)
                    /\ AdmitItem(call[c], role, bound, grant) => AdmitItem(q, role, bound, grant)
  BY AdmitQuiet
<1>1. AdmitItem(Idle, role, bound, grant)
  BY DEF AdmitItem, Idle
<1>2. \A q \in DeleteRequest \cup PublishRequest \cup SubscribeRequest : AdmitItem(q, role, bound, grant)
  BY DEF AdmitItem, DeleteRequest, PublishRequest, SubscribeRequest, SyncRequest
<1>3. CASE CheckTarget(c)
  BY <1>3, CheckTargetMoves, ActiveRequest, Kinds6 DEF AdmitItem, Members, RolesRequest, ReplaceRequest
<1>4. CASE CheckOthers(c)
  BY <1>1, <1>4, CheckOthersMoves, ActiveRequest, Kinds6 DEF AdmitItem, Members, RolesRequest, ReplaceRequest
<1>5. CASE UpdateRoles(c)
  BY <1>5, UpdateRolesMoves DEF AdmitItem, RolesRequest
<1>6. CASE RolesReadGrant(c)
  BY <1>6, RolesReadGrantMoves DEF AdmitItem, RolesRequest, Enabled
<1>7. CASE Replace(c) \/ ReplaceReadAdmissions(c)
  BY <1>1, <1>7, ReplaceMoves, ReplaceReadAdmissionsMoves DEF AdmitItem, ReplaceRequest
<1>8. CASE ReplaceReadBindings(c)
  BY <1>8, ReplaceReadBindingsMoves DEF AdmitItem, ReplaceRequest
<1>9. CASE ReplaceReadGrants(c)
  BY <1>9, ReplaceReadGrantsMoves DEF AdmitItem, ReplaceRequest
<1>10. CASE DeleteRole(c) \/ DeleteRoleReadHolders(c)
  BY <1>2, <1>10, DeleteRoleMoves, DeleteRoleReadHoldersMoves
<1>11. CASE Publish(c) \/ PublishReadSubscribers(c) \/ PublishReadRoles(c)
  BY <1>2, <1>11, PublishMoves, PublishReadSubscribersMoves, PublishReadRolesMoves
<1>12. CASE Subscribe(c) \/ SubscribeInsert(c) \/ SubscribeReadTemplate(c) \/ SubscribeReadRoles(c)
  BY <1>1, <1>2, <1>12, SubscribeMoves, SubscribeInsertMoves, SubscribeReadTemplateMoves, SubscribeReadRolesMoves
<1> QED BY <1>3, <1>4, <1>5, <1>6, <1>7, <1>8, <1>9, <1>10, <1>11, <1>12 DEF ReadStep

\* Roles and bindings that were there keep what they are; so a step that admits
\* nobody less and binds nobody more keeps the invariant.
LEMMA AdmitShrinks ==
  ASSUME BaseInv, AdmitInv, Stable, UNCHANGED grant, mixed \subseteq mixed',
         \A i \in DOMAIN bound' : i \in DOMAIN bound /\ bound'[i] = bound[i],
         \A o \in Call : call'[o] = call[o] \/ call'[o] = Idle
  PROVE  AdmitInv'
<1> SUFFICES ASSUME UserApart'
             PROVE  (AdmissionFollowsRole /\ \A o \in Call : AdmitItem(call[o], role, bound, grant))'
  BY DEF AdmitInv, UserApart
<1>1. UserApart
  BY ApartBefore DEF UserApart
<1>2. \A i \in DOMAIN bound' : bound'[i].role \in DOMAIN role' =>
        bound[i].role \in DOMAIN role /\ role'[bound'[i].role] = role[bound[i].role]
  BY DEF BaseInv, Tables, BoundTable, Stable
<1>3. AdmissionFollowsRole'
  BY <1>1, <1>2 DEF AdmitInv, AdmissionFollowsRole, UserApart
<1>4. ASSUME NEW o \in Call PROVE AdmitItem(call[o], role', bound', grant')
  <2>1. AdmitItem(call[o], role, bound, grant)
    BY <1>1 DEF AdmitInv, UserApart
  <2> QED BY <1>2, <2>1 DEF AdmitItem
<1>5. AdmitItem(Idle, role', bound', grant')
  BY DEF AdmitItem, Idle
<1> QED BY <1>3, <1>4, <1>5

\* The replacement of a user's roles admits the user where it gives a role.
LEMMA AdmitRolesCommit ==
  ASSUME BaseInv, AdmitInv, NEW c \in Call, RolesCommit(c)
  PROVE  AdmitInv'
<1> SUFFICES ASSUME UserApart'
             PROVE  (AdmissionFollowsRole /\ \A o \in Call : AdmitItem(call[o], role, bound, grant))'
  BY DEF AdmitInv, UserApart
<1>1. UserApart
  BY RolesCommitWrites, ApartBefore DEF UserApart, Moves
<1>2. /\ Active(c) /\ call'[c] = Idle /\ \A o \in Call \ {c} : call'[o] = call[o]
  BY RolesCommitWrites, ActiveRequest DEF Moves
<1>3. /\ \A i \in DOMAIN bound : bound[i].role \in DOMAIN role => Enabled(grant[bound[i].user][role[bound[i].role].app])
      /\ \A o \in Call : AdmitItem(call[o], role, bound, grant)
  BY <1>1 DEF AdmitInv, AdmissionFollowsRole, UserApart
<1>4. PICK r \in RolesRequest : r = call[c] /\ r.step = "commit"
  BY RolesCommitWrites
<1>5. r.op = "roles" /\ r.user \in User /\ r.app \in App
  BY DEF RolesRequest
<1>6. AdmitItem(Idle, role', bound', grant')
  BY DEF AdmitItem, Idle
<1>7. role' = role
  BY RolesCommitWrites
<1>8. CASE UNCHANGED <<bound, grant>>
  BY <1>1, <1>2, <1>3, <1>6, <1>7, <1>8 DEF AdmissionFollowsRole
<1>9. CASE ~UNCHANGED <<bound, grant>>
  <2>1. /\ \A i \in DOMAIN bound' :
             \/ i \in DOMAIN bound /\ bound'[i] = bound[i]
             \/ bound'[i].user = r.user /\ bound'[i].role \in r.new
        /\ grant' = IF r.new = {} THEN grant
                    ELSE [grant EXCEPT ![r.user][r.app] = EnsureGrant(@, r.seen, "role")]
    BY <1>4, <1>9, RolesCommitWrites
  <2>2. grant \in [User -> [App -> Status]]
    BY DEF BaseInv, Tables, OtherTables
  <2>3. /\ \A u \in User, a \in App : Enabled(grant[u][a]) => Enabled(grant'[u][a])
        /\ r.new # {} => Enabled(grant'[r.user][r.app])
    <3>1. r.seen = "role" => Enabled(grant[r.user][r.app])
      BY <1>3, <1>4, <1>5 DEF AdmitItem
    <3>2. CASE r.new = {}
      BY <2>1, <3>2
    <3>3. CASE r.new # {}
      <4>1. Enabled("role")
        BY DEF Enabled
      <4>2. Enabled(EnsureGrant(grant[r.user][r.app], r.seen, "role"))
        BY <3>1, <4>1 DEF EnsureGrant
      <4>3. \A u \in User, a \in App :
              grant'[u][a] = IF u = r.user /\ a = r.app THEN EnsureGrant(grant[u][a], r.seen, "role") ELSE grant[u][a]
        BY <1>5, <2>1, <2>2, <3>3
      <4> QED BY <1>5, <4>2, <4>3
    <3> QED BY <3>2, <3>3
  <2>4. \A x \in r.new : x \in DOMAIN role => role[x].app = r.app
    BY <1>4, <1>5, ActiveRequest DEF RequestOK
  <2>5. /\ \A i \in DOMAIN bound : bound[i].user \in User
        /\ \A x \in DOMAIN role : role[x].app \in App
    BY RoleRows DEF BaseInv, Tables, BoundTable, RoleTable
  <2>6. AdmissionFollowsRole'
    BY <1>3, <1>7, <2>1, <2>3, <2>4, <2>5 DEF AdmissionFollowsRole
  <2>7. ASSUME NEW o \in Call \ {c} PROVE AdmitItem(call[o], role', bound', grant')
    <3>1. AdmitItem(call[o], role, bound, grant)
      BY <1>3
    <3>2. call[o].op = "roles" => call[o].user \in User /\ call[o].app \in App
      BY ActiveRequest, Kinds6 DEF RolesRequest
    <3>3. call[o].op = "replace" => call[o].user # r.user
      BY <1>1, <1>2, <1>4, <1>5, NotTogether, KindOf DEF UserApart, Active, Members
    <3> QED BY <1>7, <2>1, <2>3, <3>1, <3>2, <3>3 DEF AdmitItem
  <2> QED BY <1>2, <1>6, <2>6, <2>7
<1> QED BY <1>8, <1>9

\* The replacement of a user's admissions takes the roles with them.
LEMMA AdmitReplaceCommit ==
  ASSUME BaseInv, AdmitInv, NEW c \in Call, ReplaceCommit(c)
  PROVE  AdmitInv'
<1> SUFFICES ASSUME UserApart'
             PROVE  (AdmissionFollowsRole /\ \A o \in Call : AdmitItem(call[o], role, bound, grant))'
  BY DEF AdmitInv, UserApart
<1>1. UserApart
  BY ReplaceCommitWrites, ApartBefore DEF UserApart, Moves
<1>2. /\ Active(c) /\ call'[c] = Idle /\ \A o \in Call \ {c} : call'[o] = call[o]
  BY ReplaceCommitWrites, ActiveRequest DEF Moves
<1>3. /\ \A i \in DOMAIN bound : bound[i].role \in DOMAIN role => Enabled(grant[bound[i].user][role[bound[i].role].app])
      /\ \A o \in Call : AdmitItem(call[o], role, bound, grant)
  BY <1>1 DEF AdmitInv, AdmissionFollowsRole, UserApart
<1>4. PICK r \in ReplaceRequest : r = call[c] /\ r.step = "commit"
  BY ReplaceCommitWrites
<1>5. r.op = "replace" /\ r.user \in User
  BY DEF ReplaceRequest
<1>6. AdmitItem(Idle, role', bound', grant')
  BY DEF AdmitItem, Idle
<1>7. role' = role
  BY ReplaceCommitWrites
<1>8. CASE UNCHANGED <<bound, grant>>
  BY <1>1, <1>2, <1>3, <1>6, <1>7, <1>8 DEF AdmissionFollowsRole
<1>9. CASE ~UNCHANGED <<bound, grant>>
  <2>1. /\ DOMAIN bound' = DOMAIN bound \ r.old /\ \A i \in DOMAIN bound' : bound'[i] = bound[i]
        /\ grant' = [grant EXCEPT ![r.user] = Admitted(r, @)]
    BY <1>4, <1>9, ReplaceCommitWrites
  <2>2. grant \in [User -> [App -> Status]]
    BY DEF BaseInv, Tables, OtherTables
  <2>3. /\ \A u \in User \ {r.user} : grant'[u] = grant[u]
        /\ \A a \in App : grant'[r.user][a] = Admitted(r, grant[r.user])[a]
    BY <1>5, <2>1, <2>2
  <2>4. \A a \in App \ r.revoke : Enabled(grant[r.user][a]) => Enabled(grant'[r.user][a])
    <3>1. Enabled("manual")
      BY DEF Enabled
    <3> QED BY <2>3, <3>1 DEF Admitted, EnsureGrant
  <2>5. /\ \A i \in DOMAIN bound : bound[i].user \in User
        /\ \A x \in DOMAIN role : role[x].app \in App
    BY RoleRows DEF BaseInv, Tables, BoundTable, RoleTable
  <2>6. \A i \in DOMAIN bound' :
          bound[i].user = r.user /\ bound[i].role \in DOMAIN role => role[bound[i].role].app \notin r.revoke
    BY <1>3, <1>4, <1>5, <2>1 DEF AdmitItem
  <2>7. AdmissionFollowsRole'
    BY <1>3, <1>7, <2>1, <2>3, <2>4, <2>5, <2>6 DEF AdmissionFollowsRole
  <2>8. ASSUME NEW o \in Call \ {c} PROVE AdmitItem(call[o], role', bound', grant')
    <3>1. AdmitItem(call[o], role, bound, grant)
      BY <1>3
    <3>2. call[o].op = "roles" => call[o].user \in User
      BY ActiveRequest, Kinds6 DEF RolesRequest
    <3>3. call[o].op = "roles" => call[o].user # r.user
      BY <1>1, <1>2, <1>4, <1>5, NotTogether, KindOf DEF UserApart, Active, Members
    <3> QED BY <1>7, <2>1, <2>3, <3>1, <3>2, <3>3 DEF AdmitItem
  <2> QED BY <1>2, <1>6, <2>7, <2>8
<1> QED BY <1>8, <1>9

LEMMA AdmitCommit ==
  ASSUME BaseInv, AdmitInv, NEW c \in Call, CommitStep(c)
  PROVE  AdmitInv'
<1>1. /\ Stable /\ mixed \subseteq mixed' /\ \A o \in Call : call'[o] = call[o] \/ call'[o] = Idle
  BY CommitStepWrites, ActiveRequest DEF Moves
<1>2. CASE DeleteRoleCommit(c)
  <2>1. grant' = grant /\ \A i \in DOMAIN bound' : i \in DOMAIN bound /\ bound'[i] = bound[i]
    BY <1>2, DeleteRoleCommitWrites
  <2> QED BY <1>1, <2>1, AdmitShrinks
<1>3. CASE PublishCommit(c) \/ SubscribeCommit(c)
  <2>1. grant' = grant /\ \A i \in DOMAIN bound' : i \in DOMAIN bound /\ bound'[i] = bound[i]
    BY <1>3, PublishCommitWrites, SubscribeCommitWrites DEF SyncWrites
  <2> QED BY <1>1, <2>1, AdmitShrinks
<1> QED BY <1>2, <1>3, AdmitRolesCommit, AdmitReplaceCommit DEF CommitStep

LEMMA AdmitStart == Init => AdmitInv
<1> SUFFICES ASSUME Init PROVE AdmitInv
  OBVIOUS
<1>1. \A c \in Call : AdmitItem(call[c], role, bound, grant)
  BY DEF Init, AdmitItem, Idle
<1>2. role[AdminRole].app = "console"
  <2>1. role[AdminRole] \in RoleRow /\ role[AdminRole].kind = "admin"
    BY BaseStart DEF BaseInv, Tables, RoleTable
  <2> QED BY <2>1, RoleRows
<1>3. PICK order \in [1..Cardinality(Admins) -> Admins] : order = SetToSeq(Admins)
  BY OrderExists
<1>4. \A i \in DOMAIN bound : bound[i].role = AdminRole /\ bound[i].user \in Admins
  BY <1>3 DEF Init
<1>5. \A u \in Admins : grant[u]["console"] = "provision"
  BY DEF Init, User, App
<1> QED BY <1>1, <1>2, <1>4, <1>5 DEF AdmitInv, AdmissionFollowsRole, Enabled

\* Whoever holds a role in an application is admitted to it, however often the
\* admission was withdrawn and given again, unless a replacement of the user's
\* admissions overlapped one of the user's roles.
THEOREM RolesAreAdmitted == Spec => []AdmissionFollowsRole
<1>1. Init => BaseInv /\ AdmitInv
  BY BaseStart, AdmitStart
<1>2. BaseInv /\ AdmitInv /\ [Next]_vars => BaseInv' /\ AdmitInv'
  <2> SUFFICES ASSUME BaseInv, AdmitInv, [Next]_vars PROVE AdmitInv'
    BY BaseStep
  <2>1. CASE UNCHANGED vars
    BY <2>1 DEF vars, AdmitInv, AdmissionFollowsRole, ApartOnUser
  <2>2. ASSUME NEW c \in Call, StatementStep(c) PROVE AdmitInv'
    <3>1. UNCHANGED <<grant, bound, call, mixed>> /\ Stable
      BY <2>2, CreateRoleWrites, SubscriptionWrites DEF StatementStep
    <3> QED BY <3>1, AdmitShrinks
  <2> QED BY <2>1, <2>2, StepsOfNext, AdmitRead, AdmitCommit
<1>3. AdmitInv => AdmissionFollowsRole
  BY DEF AdmitInv, AdmissionFollowsRole
<1> QED BY <1>1, <1>2, <1>3, PTL DEF Spec

-----------------------------------------------------------------------------
(* An administrator remains.                                               *)

Administered(rows) == \E i \in DOMAIN rows : rows[i].role = AdminRole

LEMMA AdminQuiet ==
  ASSUME BaseInv, AdminInv, NEW c \in Call, NEW q, Quiet(c, q),
         AdminItem(call[c], bound) /\ Administered(bound) => AdminItem(q, bound)
  PROVE  AdminInv'
<1> SUFFICES ASSUME MembersApart'
             PROVE  Administered(bound') /\ \A o \in Call : AdminItem(call'[o], bound')
  BY DEF AdminInv, Administered
<1>1. MembersApart
  BY ApartBefore DEF MembersApart, Quiet, Moves
<1>2. /\ UNCHANGED bound /\ call'[c] = q /\ \A o \in Call \ {c} : call'[o] = call[o]
  BY ActiveRequest DEF Quiet, Moves, tables
<1>3. Administered(bound) /\ \A o \in Call : AdminItem(call[o], bound)
  BY <1>1 DEF AdminInv, Administered
<1> QED BY <1>2, <1>3

\* A request keeps what it spares as long as it keeps what it deletes and gives.
LEMMA SameSpared ==
  ASSUME NEW r, NEW q, NEW rows, Spared(r, rows), q.old = r.old, q.op = r.op, r.op = "roles" => q.new = r.new
  PROVE  Spared(q, rows)
BY DEF Spared

LEMMA AdminRead ==
  ASSUME BaseInv, AdminInv, NEW c \in Call, ReadStep(c)
  PROVE  AdminInv'
<1> SUFFICES ASSUME AdminItem(call[c], bound), Administered(bound)
             PROVE  \E q : Quiet(c, q) /\ AdminItem(q, bound)
  <2>1. PICK q : Quiet(c, q)
    BY ReadStepIsQuiet
  <2>2. CASE AdminItem(call[c], bound) /\ Administered(bound)
    BY <2>2, AdminQuiet
  <2>3. CASE ~(AdminItem(call[c], bound) /\ Administered(bound))
    BY <2>1, <2>3, AdminQuiet
  <2> QED BY <2>2, <2>3
<1>1. AdminItem(Idle, bound)
  BY DEF AdminItem, Idle, Members
<1>2. \A q \in DeleteRequest \cup PublishRequest \cup SubscribeRequest : AdminItem(q, bound)
  BY DEF AdminItem, DeleteRequest, PublishRequest, SubscribeRequest, SyncRequest, Members
<1>3. PICK j \in DOMAIN bound : bound[j].role = AdminRole /\ bound[j].user \in Person
  BY DEF Administered, BaseInv, Tables, BoundTable
<1>4. CASE CheckTarget(c)
  <2>1. PICK q : /\ Quiet(c, q)
                 /\ call[c].op \in Members /\ call[c].step = "target"
                 /\ \/ q = [call[c] EXCEPT !.step = "others"]
                    \/ /\ q = [call[c] EXCEPT !.step = "grants"]
                       /\ \/ \A i \in DOMAIN bound : bound[i].user = call[c].user => bound[i].role # AdminRole
                          \/ AdminRole \in call[c].left
    BY <1>4, CheckTargetMoves
  <2>2. /\ q.old = call[c].old /\ q.op = call[c].op /\ (q.op = "roles" => q.new = call[c].new)
        /\ q.step \in {"others", "grants"}
    BY <2>1, ActiveRequest, Kinds6 DEF Members, RolesRequest, ReplaceRequest
  <2>3. CASE q.step = "others"
    BY <2>1, <2>3 DEF AdminItem
  <2>4. CASE q.step = "grants"
    <3>1. q = [call[c] EXCEPT !.step = "grants"]
      BY <2>1, <2>4, ActiveRequest, Kinds6 DEF Members, RolesRequest, ReplaceRequest
    <3>2. AdminRole \in call[c].left => Spared(q, bound)
      BY <2>1, <2>2, SameSpared DEF AdminItem
    <3>3. AdminRole \notin call[c].left => bound[j].user # call[c].user
      BY <1>3, <2>1, <2>2, <2>4, ActiveRequest, Kinds6 DEF Members, RolesRequest, ReplaceRequest
    <3>4. bound[j].user # call[c].user => j \notin call[c].old
      BY <2>1, ActiveRequest DEF OldOK
    <3>5. Spared(q, bound)
      BY <1>3, <2>2, <3>2, <3>3, <3>4 DEF Spared
    <3> QED BY <2>1, <2>4, <3>5 DEF AdminItem
  <2> QED BY <2>2, <2>3, <2>4
<1>5. CASE CheckOthers(c)
  <2>1. PICK q : /\ Quiet(c, q)
                 /\ \/ q = Idle
                    \/ /\ call[c].op \in Members /\ call[c].step = "others"
                       /\ q = [call[c] EXCEPT !.step = "grants"]
                       /\ \E i \in DOMAIN bound : bound[i].user # call[c].user /\ bound[i].role = AdminRole
    BY <1>5, CheckOthersMoves
  <2>2. CASE q = Idle
    BY <1>1, <2>1, <2>2
  <2>3. CASE q # Idle
    <3>1. q.old = call[c].old /\ q.step = "grants"
      BY <2>1, <2>3, ActiveRequest, Kinds6 DEF Members, RolesRequest, ReplaceRequest
    <3>2. \A i \in DOMAIN bound : bound[i].user # call[c].user => i \notin call[c].old
      BY <2>1, <2>3, ActiveRequest DEF OldOK
    <3> QED BY <2>1, <2>3, <3>1, <3>2 DEF AdminItem, Spared
  <2> QED BY <2>2, <2>3
<1>6. CASE UpdateRoles(c)
  <2>1. PICK q : /\ Quiet(c, q) /\ q \in RolesRequest
                 /\ q.step = "target" \/ (q.step = "grants" /\ q.user \in Machine)
                 /\ \A i \in DOMAIN bound : i \in q.old => bound[i].user = q.user
                 /\ AdminRole \in q.left => Spared(q, bound)
    BY <1>6, UpdateRolesMoves
  <2>2. q.user \in Machine => Spared(q, bound)
    BY <1>3, <2>1 DEF Spared
  <2> QED BY <2>1, <2>2 DEF AdminItem
<1>7. CASE RolesReadGrant(c)
  <2>1. PICK q : /\ Quiet(c, q) /\ call[c].op = "roles" /\ call[c].step = "grants"
                 /\ q \in RolesRequest /\ q.step = "commit" /\ q.new = call[c].new /\ q.old = call[c].old
    BY <1>7, RolesReadGrantMoves
  <2>2. q.op = "roles"
    BY <2>1 DEF RolesRequest
  <2>3. Spared(call[c], bound)
    BY <2>1 DEF AdminItem, Members
  <2> QED BY <2>1, <2>2, <2>3, SameSpared DEF AdminItem
<1>8. CASE Replace(c) \/ ReplaceReadAdmissions(c)
  BY <1>1, <1>8, ReplaceMoves, ReplaceReadAdmissionsMoves DEF AdminItem
<1>9. CASE ReplaceReadBindings(c)
  BY <1>3, <1>9, ReplaceReadBindingsMoves DEF AdminItem, Spared
<1>10. CASE ReplaceReadGrants(c)
  <2>1. PICK q : /\ Quiet(c, q) /\ call[c].op = "replace" /\ call[c].step = "grants"
                 /\ q \in ReplaceRequest /\ q.step = "commit" /\ q.old = call[c].old
    BY <1>10, ReplaceReadGrantsMoves
  <2>2. q.op = "replace"
    BY <2>1 DEF ReplaceRequest
  <2>3. Spared(call[c], bound)
    BY <2>1 DEF AdminItem, Members
  <2> QED BY <2>1, <2>2, <2>3, SameSpared DEF AdminItem
<1>11. CASE DeleteRole(c) \/ DeleteRoleReadHolders(c)
  BY <1>2, <1>11, DeleteRoleMoves, DeleteRoleReadHoldersMoves
<1>12. CASE Publish(c) \/ PublishReadSubscribers(c) \/ PublishReadRoles(c)
  BY <1>2, <1>12, PublishMoves, PublishReadSubscribersMoves, PublishReadRolesMoves
<1>13. CASE Subscribe(c) \/ SubscribeInsert(c) \/ SubscribeReadTemplate(c) \/ SubscribeReadRoles(c)
  BY <1>1, <1>2, <1>13, SubscribeMoves, SubscribeInsertMoves, SubscribeReadTemplateMoves, SubscribeReadRolesMoves
<1> QED BY <1>4, <1>5, <1>6, <1>7, <1>8, <1>9, <1>10, <1>11, <1>12, <1>13 DEF ReadStep

LEMMA AdminCommit ==
  ASSUME BaseInv, AdminInv, NEW c \in Call, CommitStep(c)
  PROVE  AdminInv'
<1> SUFFICES ASSUME MembersApart'
             PROVE  Administered(bound') /\ \A o \in Call : AdminItem(call'[o], bound')
  BY DEF AdminInv, Administered
<1>1. MembersApart
  BY CommitStepWrites, ApartBefore DEF MembersApart, Moves
<1>2. /\ Active(c) /\ call'[c] = Idle /\ \A o \in Call \ {c} : call'[o] = call[o]
  BY CommitStepWrites, ActiveRequest DEF Moves
<1>3. Administered(bound) /\ \A o \in Call : AdminItem(call[o], bound)
  BY <1>1 DEF AdminInv, Administered
<1>4. AdminItem(Idle, bound')
  BY DEF AdminItem, Idle, Members
<1>5. ASSUME call[c].op \in Members, Administered(bound')
      PROVE  Administered(bound') /\ \A o \in Call : AdminItem(call'[o], bound')
  <2>1. ASSUME NEW o \in Call \ {c} PROVE AdminItem(call[o], bound')
    <3>1. call[o].op \notin Members
      BY <1>1, <1>2, <1>5, NotTogether, KindOf DEF MembersApart, Members, Active
    <3> QED BY <3>1 DEF AdminItem
  <2> QED BY <1>2, <1>4, <1>5, <2>1
<1>6. CASE RolesCommit(c)
  <2>1. call[c].op = "roles" /\ Spared(call[c], bound)
    BY <1>3, <1>6, RolesCommitWrites DEF RolesRequest, AdminItem, Members
  <2>2. Administered(bound')
    <3>1. CASE UNCHANGED bound
      BY <1>3, <3>1 DEF Administered
    <3>2. CASE /\ \A i \in DOMAIN bound \ call[c].old : i \in DOMAIN bound' /\ bound'[i] = bound[i]
               /\ \A x \in call[c].new : \E i \in DOMAIN bound' : bound'[i].role = x
      BY <2>1, <3>2 DEF Administered, Spared
    <3> QED BY <1>6, <3>1, <3>2, RolesCommitWrites
  <2> QED BY <1>5, <2>1, <2>2 DEF Members
<1>7. CASE ReplaceCommit(c)
  <2>1. call[c].op = "replace" /\ Spared(call[c], bound)
    BY <1>3, <1>7, ReplaceCommitWrites DEF ReplaceRequest, AdminItem, Members
  <2>2. Administered(bound')
    BY <1>3, <1>7, <2>1, ReplaceCommitWrites DEF Administered, Spared
  <2> QED BY <1>5, <2>1, <2>2 DEF Members
<1>8. ASSUME call[c].op \in Deleters,
             DOMAIN bound' = DOMAIN bound \ call[c].old, \A i \in DOMAIN bound' : bound'[i] = bound[i]
      PROVE  Administered(bound') /\ \A o \in Call : AdminItem(call'[o], bound')
  <2>1. \A i \in DOMAIN bound : bound[i].role = AdminRole => i \in DOMAIN bound' /\ bound'[i].role = AdminRole
    BY <1>8, ActiveRequest DEF OldOK
  <2>2. \A r : Spared(r, bound) => Spared(r, bound')
    BY <2>1 DEF Spared
  <2>3. \A r : AdminItem(r, bound) => AdminItem(r, bound')
    BY <2>2 DEF AdminItem
  <2> QED BY <1>2, <1>3, <1>4, <2>1, <2>3 DEF Administered
<1>9. CASE DeleteRoleCommit(c)
  BY <1>8, <1>9, DeleteRoleCommitWrites DEF DeleteRequest, Deleters
<1>10. CASE PublishCommit(c) \/ SubscribeCommit(c)
  <2>1. call[c].op \in Deleters
    BY <1>10, PublishCommitWrites, SubscribeCommitWrites
       DEF PublishRequest, SubscribeRequest, SyncRequest, Deleters, Syncs
  <2>2. PICK new : SyncWrites(call[c], new)
    BY <1>10, PublishCommitWrites, SubscribeCommitWrites
  <2> QED BY <1>8, <2>1, <2>2 DEF SyncWrites
<1> QED BY <1>6, <1>7, <1>9, <1>10 DEF CommitStep

\* The tenant keeps an administrator, whatever roles and admissions are
\* replaced, roles deleted and templates withdrawn, unless two replacements
\* overlapped.
THEOREM AnAdministratorRemains == Spec => []AdminRemains
<1>1. Init => BaseInv /\ AdminInv
  <2> SUFFICES ASSUME Init PROVE AdminInv
    BY BaseStart
  <2>1. \A c \in Call : AdminItem(call[c], bound)
    BY DEF Init, AdminItem, Idle, Members
  <2>2. PICK order \in [1..Cardinality(Admins) -> Admins] : order = SetToSeq(Admins)
    BY OrderExists
  <2>3. DOMAIN bound = 1..Cardinality(Admins) /\ \A i \in DOMAIN bound : bound[i].role = AdminRole
    BY <2>2 DEF Init
  <2>4. Cardinality(Admins) \in Nat /\ Cardinality(Admins) # 0
    BY FS_CardinalityType, FS_EmptySet
  <2>5. 1 \in DOMAIN bound
    BY <2>3, <2>4
  <2> QED BY <2>1, <2>3, <2>5 DEF AdminInv
<1>2. BaseInv /\ AdminInv /\ [Next]_vars => BaseInv' /\ AdminInv'
  <2> SUFFICES ASSUME BaseInv, AdminInv, [Next]_vars PROVE AdminInv'
    BY BaseStep
  <2>1. CASE UNCHANGED vars
    BY <2>1 DEF vars, AdminInv, MembersApart, Apart
  <2>2. ASSUME NEW c \in Call, StatementStep(c) PROVE AdminInv'
    <3>1. UNCHANGED <<bound, call, mixed>>
      BY <2>2, CreateRoleWrites, SubscriptionWrites DEF StatementStep
    <3> QED BY <3>1 DEF AdminInv, MembersApart, Apart
  <2> QED BY <2>1, <2>2, StepsOfNext, AdminRead, AdminCommit
<1>3. BaseInv /\ AdminInv => AdminRemains
  <2> SUFFICES ASSUME BaseInv, MembersApart, AdminInv
               PROVE  \E i \in DOMAIN bound : bound[i].user \in Person /\ IsAdmin(bound[i].role)
    BY DEF AdminRemains, MembersApart
  <2>1. PICK i \in DOMAIN bound : bound[i].role = AdminRole
    BY DEF AdminInv
  <2> QED BY <2>1, AdminIs DEF BaseInv, Tables, BoundTable
<1> QED BY <1>1, <1>2, <1>3, PTL DEF Spec

-----------------------------------------------------------------------------
(* Subscribers have the template's roles.                                  *)

Past(r) == r.op = "subscribe" /\ r.step # "insert"

Distinct(roles) == \A r, s \in TemplatedIn(roles) : roles[r].code = roles[s].code => r = s

LEMMA PastSerial ==
  Serial <=>
    /\ \A c, o \in Call : call[c].op = "publish" /\ call[o].op = "publish" => c = o
    /\ \A c, o \in Call : Past(call[c]) /\ Past(call[o]) => c = o
    /\ \A c \in Call : Past(call[c]) => sub["product"] = "none"
BY DEF Serial, Past

\* A request begins to publish, or passes its insertion, alone.
LEMMA SerialMoves ==
  ASSUME BaseInv, Serial, NEW c \in Call, NEW q, Moves(c, q), UNCHANGED sub,
         q.op = "publish" => call[c].op = "publish" \/ \A o \in Call : call[o].op # "publish",
         Past(q) => \/ Past(call[c])
                    \/ sub["product"] = "none" /\ \A o \in Call : ~Past(call[o])
  PROVE  Serial'
<1>1. call'[c] = q /\ \A o \in Call \ {c} : call'[o] = call[o]
  BY DEF Moves, BaseInv
<1>2. \A a, b \in Call : call'[a].op = "publish" /\ call'[b].op = "publish" => a = b
  BY <1>1 DEF Serial
<1>3. \A a, b \in Call : Past(call'[a]) /\ Past(call'[b]) => a = b
  BY <1>1, PastSerial
<1>4. \A a \in Call : Past(call'[a]) => sub'["product"] = "none"
  BY <1>1, PastSerial
<1> QED BY <1>2, <1>3, <1>4 DEF Serial, Past

\* The template's roles are the same if custom roles come and go.
LEMMA SameTemplated ==
  ASSUME TemplatedIn(role') = TemplatedIn(role), \A x \in TemplatedIn(role) : role'[x] = role[x]
  PROVE  /\ CodesIn(role') = CodesIn(role)
         /\ Distinct(role) => Distinct(role')
         /\ \A r : Synced(r, role) => Synced(r, role')
<1>1. CodesIn(role') = CodesIn(role)
  BY DEF CodesIn
<1>2. Distinct(role) => Distinct(role')
  BY DEF Distinct
<1>3. \A codes : {x \in TemplatedIn(role') : role'[x].code \notin codes} = {x \in TemplatedIn(role) : role[x].code \notin codes}
  OBVIOUS
<1> QED BY <1>1, <1>2, <1>3 DEF Synced

\* After a synchronisation the roles are those of its codes, each once.
LEMMA SyncMakes ==
  ASSUME BaseInv, NEW r, NEW new, SyncWrites(r, new), Synced(r, role), Distinct(role)
  PROVE  CodesIn(role') = r.codes /\ Distinct(role')
<1>1. \A code : Provided(code).code = code /\ Provided(code).kind = "template"
  BY DEF Provided
<1>2. new \cap DOMAIN role = {}
  BY DEF BaseInv, Tables, RoleTable, SyncWrites
<1>3. \A x \in new : role'[x].kind = "template" /\ role'[x].code \in r.codes \ CodesIn(role)
  BY <1>1 DEF SyncWrites, Synced
<1>4. TemplatedIn(role') = (TemplatedIn(role) \ r.stale) \cup new
  BY <1>2, <1>3 DEF SyncWrites, TemplatedIn
<1>5. \A x \in TemplatedIn(role) \ r.stale : role'[x] = role[x] /\ role[x].code \in r.codes \cap CodesIn(role)
  BY <1>2 DEF SyncWrites, Synced, TemplatedIn, CodesIn
<1>6. \A code \in r.codes \ CodesIn(role) : \E x \in new : role'[x].code = code
  BY <1>1 DEF SyncWrites, Synced
<1>7. \A code \in r.codes \cap CodesIn(role) : \E x \in TemplatedIn(role) \ r.stale : role[x].code = code
  BY DEF Synced, CodesIn
<1>8. CodesIn(role') = r.codes
  <2>1. \A code \in CodesIn(role') : code \in r.codes
    BY <1>3, <1>4, <1>5 DEF CodesIn
  <2>2. \A code \in r.codes : code \in CodesIn(role')
    BY <1>4, <1>5, <1>6, <1>7 DEF CodesIn
  <2> QED BY <2>1, <2>2
<1>9. ASSUME NEW x \in TemplatedIn(role'), NEW y \in TemplatedIn(role'), role'[x].code = role'[y].code
      PROVE  x = y
  <2>1. CASE x \in new /\ y \in new
    BY <1>9, <2>1 DEF SyncWrites
  <2>2. CASE x \notin new /\ y \notin new
    BY <1>4, <1>5, <1>9, <2>2 DEF Distinct
  <2>3. CASE (x \in new /\ y \notin new) \/ (x \notin new /\ y \in new)
    BY <1>3, <1>4, <1>5, <1>9, <2>3
  <2> QED BY <2>1, <2>2, <2>3
<1> QED BY <1>8, <1>9 DEF Distinct

SyncsApart == Apart("publish", "subscription")

LEMMA TemplateQuiet ==
  ASSUME BaseInv, TemplateInv, Serial', NEW c \in Call, NEW q, Moves(c, q), UNCHANGED <<role, sub, template>>,
         SyncsApart /\ TemplateItem(call[c], role, sub["product"] # "none", template) =>
            TemplateItem(q, role, sub["product"] # "none", template)
  PROVE  TemplateInv'
<1> SUFFICES ASSUME SyncsApart'
             PROVE  /\ sub'["product"] # "none" => CodesIn(role') = template'
                    /\ \A r, s \in TemplatedIn(role') : role'[r].code = role'[s].code => r = s
                    /\ \A o \in Call : TemplateItem(call'[o], role', sub'["product"] # "none", template')
  BY DEF TemplateInv, SyncsApart
<1>1. SyncsApart
  BY ApartBefore DEF SyncsApart, Moves
<1>2. call'[c] = q /\ \A o \in Call \ {c} : call'[o] = call[o]
  BY DEF Moves, BaseInv
<1>3. \A o \in Call : TemplateItem(call'[o], role, sub["product"] # "none", template)
  BY <1>1, <1>2 DEF TemplateInv, SyncsApart
<1> QED BY <1>1, <1>3 DEF TemplateInv, SyncsApart

\* What a request that does not synchronise brings along.
LEMMA NoSync ==
  ASSUME NEW r, r.op \notin Syncs
  PROVE  /\ r.op # "publish" /\ ~Past(r)
         /\ \A roles, subscribed, codes : TemplateItem(r, roles, subscribed, codes)
BY DEF Syncs, Past, TemplateItem

LEMMA TemplateRead ==
  ASSUME BaseInv, TemplateInv, NEW c \in Call, ReadStep(c)
  PROVE  TemplateInv'
<1> DEFINE subscribed == sub["product"] # "none"
<1>1. ASSUME NEW q, Quiet(c, q),
             q.op = "publish" => call[c].op = "publish" \/ \A o \in Call : call[o].op # "publish",
             Past(q) => Past(call[c]) \/ (sub["product"] = "none" /\ \A o \in Call : ~Past(call[o])),
             SyncsApart /\ TemplateItem(call[c], role, subscribed, template) =>
               TemplateItem(q, role, subscribed, template)
      PROVE  TemplateInv'
  <2>1. Moves(c, q) /\ UNCHANGED <<role, sub, template>>
    BY <1>1 DEF Quiet, tables
  <2>2. Serial'
    BY <1>1, <2>1, SerialMoves DEF TemplateInv
  <2> QED BY <1>1, <2>1, <2>2, TemplateQuiet
<1> HIDE DEF subscribed
<1>2. ASSUME NEW q, Quiet(c, q), q.op \notin Syncs PROVE TemplateInv'
  BY <1>1, <1>2, NoSync
<1>3. Idle.op \notin Syncs
  BY DEF Idle, Syncs
<1>4. CASE CheckTarget(c)
  <2>1. PICK q : Quiet(c, q) /\ q.op = call[c].op /\ call[c].op \in Members
    BY <1>4, CheckTargetMoves, ActiveRequest, Kinds6 DEF Members, RolesRequest, ReplaceRequest
  <2> QED BY <1>2, <2>1 DEF Members, Syncs
<1>5. CASE CheckOthers(c)
  <2>1. PICK q : Quiet(c, q) /\ (q = Idle \/ (q.op = call[c].op /\ call[c].op \in Members))
    BY <1>5, CheckOthersMoves, ActiveRequest, Kinds6 DEF Members, RolesRequest, ReplaceRequest
  <2> QED BY <1>2, <1>3, <2>1 DEF Members, Syncs
<1>6. CASE UpdateRoles(c) \/ RolesReadGrant(c)
  <2>1. PICK q \in RolesRequest : Quiet(c, q)
    BY <1>6, UpdateRolesMoves, RolesReadGrantMoves
  <2> QED BY <1>2, <2>1 DEF RolesRequest, Syncs
<1>7. CASE Replace(c) \/ ReplaceReadAdmissions(c) \/ ReplaceReadBindings(c) \/ ReplaceReadGrants(c)
  <2>1. PICK q : Quiet(c, q) /\ (q = Idle \/ q \in ReplaceRequest)
    BY <1>7, ReplaceMoves, ReplaceReadAdmissionsMoves, ReplaceReadBindingsMoves, ReplaceReadGrantsMoves
  <2> QED BY <1>2, <1>3, <2>1 DEF ReplaceRequest, Syncs
<1>8. CASE DeleteRole(c) \/ DeleteRoleReadHolders(c)
  <2>1. PICK q \in DeleteRequest : Quiet(c, q)
    BY <1>8, DeleteRoleMoves, DeleteRoleReadHoldersMoves
  <2> QED BY <1>2, <2>1 DEF DeleteRequest, Syncs
<1>9. CASE Publish(c) \/ PublishReadSubscribers(c) \/ PublishReadRoles(c)
  <2>1. PICK q : /\ Quiet(c, q) /\ q \in PublishRequest
                 /\ call[c].op = "publish" \/ \A o \in Call : call[o].op # "publish"
                 /\ \/ q.step \in {"subscribers", "roles"}
                    \/ q.missing = {} /\ q.stale = {} /\ sub["product"] = "none"
                    \/ Synced(q, role)
    BY <1>9, PublishMoves, PublishReadSubscribersMoves, PublishReadRolesMoves
  <2>2. q.op = "publish" /\ ~Past(q)
    BY <2>1 DEF PublishRequest, SyncRequest, Past
  <2>3. TemplateItem(q, role, subscribed, template)
    BY <2>1, <2>2 DEF TemplateItem, subscribed
  <2> QED BY <1>1, <2>1, <2>2, <2>3
<1>10. CASE Subscribe(c)
  <2>1. PICK q \in SubscribeRequest : Quiet(c, q) /\ q.step = "insert"
    BY <1>10, SubscribeMoves
  <2>2. q.op = "subscribe" /\ ~Past(q)
    BY <2>1 DEF SubscribeRequest, SyncRequest, Past
  <2> QED BY <1>1, <2>1, <2>2 DEF TemplateItem
<1>11. CASE SubscribeInsert(c)
  <2>1. PICK q : /\ Quiet(c, q) /\ \A o \in Call : ~Past(call[o])
                 /\ q = Idle \/ (q \in SubscribeRequest /\ q.step = "template" /\ sub["product"] = "none")
    BY <1>11, SubscribeInsertMoves DEF Past
  <2>2. CASE q = Idle
    BY <1>2, <1>3, <2>1, <2>2
  <2>3. CASE q # Idle
    <3>1. q.op = "subscribe"
      BY <2>1, <2>3 DEF SubscribeRequest, SyncRequest
    <3> QED BY <1>1, <2>1, <2>3, <3>1 DEF TemplateItem
  <2> QED BY <2>2, <2>3
<1>12. CASE SubscribeReadTemplate(c)
  <2>1. PICK q \in SubscribeRequest : Quiet(c, q) /\ Past(call[c]) /\ q.step = "roles" /\ q.codes = template
    BY <1>12, SubscribeReadTemplateMoves DEF Past
  <2>2. q.op = "subscribe"
    BY <2>1 DEF SubscribeRequest, SyncRequest
  <2> QED BY <1>1, <2>1, <2>2 DEF TemplateItem
<1>13. CASE SubscribeReadRoles(c)
  <2>1. PICK q \in SubscribeRequest :
          /\ Quiet(c, q) /\ call[c].op = "subscribe" /\ call[c].step = "roles"
          /\ q.step = "commit" /\ q.codes = call[c].codes /\ Synced(q, role)
    BY <1>13, SubscribeReadRolesMoves
  <2>2. q.op = "subscribe" /\ Past(call[c])
    BY <2>1 DEF SubscribeRequest, SyncRequest, Past
  <2> QED BY <1>1, <2>1, <2>2 DEF TemplateItem
<1> QED BY <1>4, <1>5, <1>6, <1>7, <1>8, <1>9, <1>10, <1>11, <1>12, <1>13 DEF ReadStep

\* The template's roles after the tenant's own have come or gone.
LEMMA TemplateKept ==
  ASSUME BaseInv, TemplateInv, Serial', UNCHANGED template, mixed \subseteq mixed',
         TemplatedIn(role') = TemplatedIn(role), \A x \in TemplatedIn(role) : role'[x] = role[x],
         sub["product"] = "none" => sub'["product"] = "none",
         \A o \in Call : call'[o] \in {call[o], Idle}
  PROVE  TemplateInv'
<1>1. /\ CodesIn(role') = CodesIn(role)
      /\ Distinct(role) => Distinct(role')
      /\ \A r : Synced(r, role) => Synced(r, role')
  BY SameTemplated
<1>2. \A r : TemplateItem(r, role, sub["product"] # "none", template) =>
               TemplateItem(r, role', sub'["product"] # "none", template')
  BY <1>1 DEF TemplateItem
<1>3. TemplateItem(Idle, role', sub'["product"] # "none", template')
  BY NoSync DEF Idle, Syncs
<1>4. ASSUME SyncsApart' PROVE SyncsApart
  BY <1>4, ApartBefore DEF SyncsApart
<1>5. ASSUME SyncsApart'
      PROVE  /\ sub'["product"] # "none" => CodesIn(role') = template'
             /\ \A r, s \in TemplatedIn(role') : role'[r].code = role'[s].code => r = s
             /\ \A o \in Call : TemplateItem(call'[o], role', sub'["product"] # "none", template')
  BY <1>1, <1>2, <1>3, <1>4, <1>5 DEF TemplateInv, SyncsApart, Distinct
<1> QED BY <1>5 DEF TemplateInv, SyncsApart

LEMMA TemplateStatement ==
  ASSUME BaseInv, TemplateInv, NEW c \in Call, StatementStep(c)
  PROVE  TemplateInv'
<1>1. /\ UNCHANGED <<template, call, mixed>>
      /\ sub["product"] = "none" => sub'["product"] = "none"
  BY CreateRoleWrites, SubscriptionWrites DEF StatementStep
<1>2. Serial'
  BY <1>1 DEF TemplateInv, Serial
<1>3. TemplatedIn(role') = TemplatedIn(role) /\ \A x \in TemplatedIn(role) : role'[x] = role[x]
  <2>1. CASE CreateRole(c)
    <3>1. unused \cap DOMAIN role = {}
      BY DEF BaseInv, Tables, RoleTable
    <3> QED BY <2>1, <3>1, CreateRoleWrites DEF TemplatedIn
  <2>2. CASE UNCHANGED role
    BY <2>2
  <2> QED BY <2>1, <2>2, SubscriptionWrites DEF StatementStep
<1> QED BY <1>1, <1>2, <1>3, TemplateKept

\* Nothing else publishes or subscribes while a synchronisation commits.
LEMMA AloneToSync ==
  ASSUME BaseInv, Serial, SyncsApart, NEW c \in Call, Active(c), call[c].op = "publish" \/ Past(call[c])
  PROVE  \A o \in Call \ {c} : call[o].op # "publish" /\ ~Past(call[o])
<1> SUFFICES ASSUME NEW o \in Call \ {c}, call[o].op = "publish" \/ Past(call[o])
             PROVE  FALSE
  OBVIOUS
<1>1. Active(o)
  BY DEF Active, Past
<1>2. \/ call[c].op = "publish" /\ Past(call[o])
      \/ Past(call[c]) /\ call[o].op = "publish"
  BY PastSerial
<1>3. ~Apart("publish", "subscription")
  BY <1>1, <1>2, NotTogether, KindOf DEF Past
<1> QED BY <1>3 DEF SyncsApart

LEMMA TemplateCommit ==
  ASSUME BaseInv, TemplateInv, NEW c \in Call, CommitStep(c)
  PROVE  TemplateInv'
<1>1. /\ Moves(c, Idle) /\ Active(c) /\ mixed \subseteq mixed'
      /\ call'[c] = Idle /\ \A o \in Call \ {c} : call'[o] = call[o]
  BY CommitStepWrites, ActiveRequest DEF Moves
<1>2. Idle.op # "publish" /\ ~Past(Idle)
  BY DEF Idle, Past
<1>3. ASSUME UNCHANGED sub PROVE Serial'
  BY <1>1, <1>2, <1>3, SerialMoves DEF TemplateInv
<1>4. CASE RolesCommit(c) \/ ReplaceCommit(c)
  <2>1. UNCHANGED <<role, sub, template>>
    BY <1>4, RolesCommitWrites, ReplaceCommitWrites
  <2> QED BY <1>1, <1>3, <2>1, TemplateKept
<1>5. CASE DeleteRoleCommit(c)
  <2>1. UNCHANGED <<sub, template>>
    BY <1>5, DeleteRoleCommitWrites
  <2>2. TemplatedIn(role') = TemplatedIn(role) /\ \A x \in TemplatedIn(role) : role'[x] = role[x]
    BY <1>5, DeleteRoleCommitWrites DEF TemplatedIn
  <2> QED BY <1>1, <1>3, <2>1, <2>2, TemplateKept
 \* A synchronisation, alone, of what was read: the roles are its codes'.
<1>6. ASSUME SyncsApart', call[c].op = "publish" \/ Past(call[c]), template' = call[c].codes, Serial',
             NEW new, SyncWrites(call[c], new),
             \/ Synced(call[c], role)
             \/ call[c].missing = {} /\ call[c].stale = {} /\ sub'["product"] = "none"
      PROVE  TemplateInv'
  <2>1. SyncsApart
    BY <1>1, <1>6, ApartBefore DEF SyncsApart
  <2>2. \A o \in Call : call'[o].op # "publish" /\ ~Past(call'[o])
    BY <1>1, <1>2, <1>6, <2>1, AloneToSync DEF TemplateInv
  <2>3. \A o \in Call : TemplateItem(call'[o], role', sub'["product"] # "none", template')
    BY <2>2 DEF TemplateItem, Past
  <2>4. Distinct(role)
    BY <2>1 DEF TemplateInv, SyncsApart, Distinct
  <2>5. Distinct(role') /\ (sub'["product"] # "none" => CodesIn(role') = template')
    <3>1. CASE Synced(call[c], role)
      BY <1>6, <2>4, <3>1, SyncMakes
    <3>2. CASE call[c].missing = {} /\ call[c].stale = {} /\ sub'["product"] = "none"
      <4>1. new = {}
        BY <1>6, <3>2 DEF SyncWrites
      <4>2. DOMAIN role' = DOMAIN role /\ \A x \in DOMAIN role : role'[x] = role[x]
        BY <1>6, <3>2, <4>1 DEF SyncWrites
      <4>3. TemplatedIn(role') = TemplatedIn(role) /\ \A x \in TemplatedIn(role) : role'[x] = role[x]
        BY <4>2 DEF TemplatedIn
      <4> QED BY <2>4, <3>2, <4>3, SameTemplated
    <3> QED BY <1>6, <3>1, <3>2
  <2> QED BY <1>6, <2>3, <2>5 DEF TemplateInv, Distinct
<1>7. ASSUME ~SyncsApart', Serial' PROVE TemplateInv'
  BY <1>7 DEF TemplateInv, SyncsApart
<1>8. CASE PublishCommit(c)
  <2>1. /\ call[c].op = "publish" /\ call[c].step = "commit" /\ UNCHANGED sub /\ template' = call[c].codes
        /\ \E new : SyncWrites(call[c], new)
    BY <1>8, PublishCommitWrites DEF PublishRequest, SyncRequest
  <2>2. SyncsApart' => SyncsApart
    BY <1>1, ApartBefore DEF SyncsApart
  <2>3. SyncsApart => \/ Synced(call[c], role)
                      \/ call[c].missing = {} /\ call[c].stale = {} /\ sub["product"] = "none"
    BY <2>1 DEF TemplateInv, SyncsApart, TemplateItem
  <2> QED BY <1>3, <1>6, <1>7, <2>1, <2>2, <2>3
<1>9. CASE SubscribeCommit(c)
  <2>1. /\ call[c].op = "subscribe" /\ call[c].step = "commit" /\ UNCHANGED template
        /\ \E new : SyncWrites(call[c], new)
    BY <1>9, SubscribeCommitWrites DEF SubscribeRequest, SyncRequest
  <2>2. Past(call[c])
    BY <2>1 DEF Past
  <2>3. Serial'
    <3>1. \A o \in Call : ~Past(call'[o])
      BY <1>1, <1>2, <2>2, PastSerial DEF TemplateInv
    <3>2. \A a, b \in Call : call'[a].op = "publish" /\ call'[b].op = "publish" => a = b
      BY <1>1, <1>2 DEF TemplateInv, Serial
    <3> QED BY <3>1, <3>2 DEF Serial, Past
  <2>4. SyncsApart' => SyncsApart
    BY <1>1, ApartBefore DEF SyncsApart
  <2>5. SyncsApart => Synced(call[c], role) /\ call[c].codes = template
    BY <2>1 DEF TemplateInv, SyncsApart, TemplateItem
  <2> QED BY <1>6, <1>7, <2>1, <2>2, <2>3, <2>4, <2>5
<1> QED BY <1>4, <1>5, <1>8, <1>9 DEF CommitStep

LEMMA TemplateStart == Init => TemplateInv
<1> SUFFICES ASSUME Init PROVE TemplateInv
  OBVIOUS
<1>1. PICK provided \in UNION {[codes -> Role \ {AdminRole}] : codes \in SUBSET Code} :
       /\ \A x, y \in DOMAIN provided : provided[x] = provided[y] => x = y
       /\ template = DOMAIN provided
       /\ role = Adding([r \in {provided[x] : x \in template} |->
                           Provided(CHOOSE x \in template : provided[x] = r)], AdminRole, Builtin)
  BY DEF Init
<1>2. \A x \in template : provided[x] # AdminRole /\ (CHOOSE y \in template : provided[y] = provided[x]) = x
  BY <1>1
<1>3. /\ DOMAIN role = {provided[x] : x \in template} \cup {AdminRole}
      /\ role[AdminRole] = Builtin
      /\ \A x \in template : role[provided[x]] = Provided(x)
  BY <1>1, <1>2 DEF Adding
<1>4. /\ Builtin.kind # "template"
      /\ \A code : Provided(code).kind = "template" /\ Provided(code).code = code
  BY DEF Builtin, Provided
<1>5. TemplatedIn(role) = {provided[x] : x \in template}
  BY <1>2, <1>3, <1>4 DEF TemplatedIn
<1>6. CodesIn(role) = template
  BY <1>3, <1>4, <1>5 DEF CodesIn
<1>7. Distinct(role)
  BY <1>3, <1>4, <1>5 DEF Distinct
<1>8. \A c \in Call : call[c] = Idle
  BY DEF Init
<1>9. Serial /\ \A c \in Call : TemplateItem(call[c], role, sub["product"] # "none", template)
  BY <1>8, NoSync DEF Idle, Syncs, Serial, Past
<1> QED BY <1>6, <1>7, <1>9 DEF TemplateInv, Distinct

\* Each code of the published template has one role in a tenant that has
\* subscribed, and no other role of the template is left: whatever was
\* published in between, and by whichever of the two synchronisations it came,
\* unless a publication overlapped a subscription.
THEOREM SubscribersHaveTheTemplate == Spec => []RolesFollowTemplate
<1>1. Init => BaseInv /\ TemplateInv
  BY BaseStart, TemplateStart
<1>2. BaseInv /\ TemplateInv /\ [Next]_vars => BaseInv' /\ TemplateInv'
  <2> SUFFICES ASSUME BaseInv, TemplateInv, [Next]_vars PROVE TemplateInv'
    BY BaseStep
  <2>1. CASE UNCHANGED vars
    BY <2>1 DEF vars, TemplateInv, Serial, Apart
  <2> QED BY <2>1, StepsOfNext, TemplateRead, TemplateCommit, TemplateStatement
<1>3. BaseInv /\ TemplateInv => RolesFollowTemplate
  <2> SUFFICES ASSUME BaseInv, TemplateInv, SyncsApart, sub["product"] # "none"
               PROVE  Codes(Templated) = template /\ Cardinality(Templated) = Cardinality(template)
    BY DEF RolesFollowTemplate, SyncsApart
  <2>1. Templated = TemplatedIn(role) /\ Codes(Templated) = CodesIn(role)
    BY DEF Templated, TemplatedIn, Codes, CodesIn
  <2>2. CodesIn(role) = template /\ Distinct(role)
    BY DEF TemplateInv, SyncsApart, Distinct
  <2>3. IsFiniteSet(TemplatedIn(role))
    <3>1. TemplatedIn(role) \subseteq Role
      BY DEF TemplatedIn, BaseInv, Tables, RoleTable
    <3> QED BY <3>1, FS_Subset
  <2>4. PICK f : f = [x \in TemplatedIn(role) |-> role[x].code]
    OBVIOUS
  <2>5. /\ f \in [TemplatedIn(role) -> CodesIn(role)]
        /\ \A a, b \in TemplatedIn(role) : f[a] = f[b] => a = b
        /\ \A t \in CodesIn(role) : \E s \in TemplatedIn(role) : f[s] = t
    BY <2>2, <2>4 DEF CodesIn, Distinct
  <2>6. f \in Bijection(TemplatedIn(role), CodesIn(role))
    BY <2>5, Fun_IsBij
  <2>7. Cardinality(TemplatedIn(role)) = Cardinality(CodesIn(role))
    BY <2>3, <2>6, FS_Bijection DEF ExistsBijection
  <2> QED BY <2>1, <2>2, <2>7
<1> QED BY <1>1, <1>2, <1>3, PTL DEF Spec
=============================================================================
