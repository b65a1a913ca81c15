---------------------------- MODULE Departments ----------------------------
(***************************************************************************)
(* The department tree of one tenant and its members                       *)
(* (tenantadmin/service/svctenant/department.go, department_user.go,       *)
(* user.go, pkg/core/user/user.go).  Requests run concurrently; each step  *)
(* is one statement that another request may come before or after, or one  *)
(* transaction's commit with all it writes.  Statements inside a           *)
(* transaction that use the plain connection commit on their own.          *)
(*                                                                         *)
(* A dept_path such as /r/a/b is the sequence <<r, a, b>>: the identifiers *)
(* are UUIDs, all of one length, so prefixes and replacements of the       *)
(* strings are prefixes and replacements of the sequences.                 *)
(***************************************************************************)
EXTENDS Rows, SequencesExt

CONSTANTS
  Dept,          \* identifiers of departments, each used once
  User,          \* members of the tenant
  Call,          \* requests under way at one time
  InitialPath,   \* the tree the requests find: department -> path
  InitialMember, \* the relations they find: a sequence of rows
  MaxDeptDepth,  \* model.MaxDeptDepth
  MaxCalls,      \* bound: requests in a behaviour
  MayFail,       \* whether statements may fail (or the process stop)
  NoDept         \* "" as a parent_id

ASSUME ConstantsAssumption ==
  /\ NoDept \notin Dept
  /\ DOMAIN InitialPath \subseteq Dept
  /\ InitialMember \in Seq([dept : DOMAIN InitialPath, user : User, type : {"primary", "secondary", "leader"}])
  /\ MaxDeptDepth \in Nat /\ MaxCalls \in Nat /\ MayFail \in BOOLEAN
  /\ IsFiniteSet(Call)

\* A department has one leader and a user one primary department.
OneEach(rows) ==
  \A i, j \in DOMAIN rows :
    /\ rows[i].type = rows[j].type
    /\ \/ rows[i].type = "leader" /\ rows[i].dept = rows[j].dept
       \/ rows[i].type = "primary" /\ rows[i].user = rows[j].user
    => i = j

\* The tree is one: each path goes through the parent's.  OneEach holds of
\* the relations.
ASSUME InitialAssumption ==
  /\ \A d \in DOMAIN InitialPath :
       LET path == InitialPath[d]
       IN /\ path \in Seq(Dept) /\ path # <<>> /\ path[Len(path)] = d
          /\ Len(path) > 1 => /\ path[Len(path) - 1] \in DOMAIN InitialPath
                             /\ path = Append(InitialPath[path[Len(path) - 1]], d)
  /\ OneEach(InitialMember)

VARIABLES
  dept,    \* live departments: id -> [parent, path, depth]
  unused,  \* identifiers not drawn yet
  rel,     \* live department_user rows: id -> [dept, user, type]
  user,    \* the tenant's users
  call,    \* what each request is about to do, with its local variables
  begun,   \* number of requests of each kind that have begun
  mixed,   \* history: the pairs of kinds of request that have overlapped
  torn,    \* history: the kinds of request that have failed half-way
  early    \* history: whether a creation has found its parent without a path of its own

vars == <<dept, unused, rel, user, call, begun, mixed, torn, early>>

Kinds == {"create", "move", "delete", "relate"}
Type == {"primary", "secondary", "leader"}
Idle == [op |-> "idle"]

ParentOf(path) == IF Len(path) = 1 THEN NoDept ELSE path[Len(path) - 1]

Init ==
  /\ dept = [d \in DOMAIN InitialPath |->
               [parent |-> ParentOf(InitialPath[d]), path |-> InitialPath[d], depth |-> Len(InitialPath[d])]]
  /\ unused = Dept \ DOMAIN InitialPath
  /\ user = {InitialMember[i].user : i \in DOMAIN InitialMember}
  /\ rel = InitialMember
  /\ call = [c \in Call |-> Idle]
  /\ begun = [kind \in Kinds |-> 0]
  /\ mixed = {}
  /\ torn = {}
  /\ early = FALSE

-----------------------------------------------------------------------------
(* Requests. *)

Live == DOMAIN dept
Kind(op) == IF op \in {"create", "move", "delete"} THEN op ELSE "relate"
Active(c) == call[c].op # "idle"
At(c, op, step) == Active(c) /\ call[c].op = op /\ call[c].step = step

\* A department whose own path is still to be written.
Unfinished(d) == \E c \in Call : At(c, "create", "path") /\ call[c].node = d

\* A goroutine is free to serve another request.
Ready(c) ==
  /\ ~Active(c)
  /\ begun["create"] + begun["move"] + begun["delete"] + begun["relate"] < MaxCalls

\* A request arrives and has passed its first checks.
Begin(c, request) ==
  /\ begun' = [begun EXCEPT ![Kind(request.op)] = @ + 1]
  /\ call' = [call EXCEPT ![c] = request]
  /\ mixed' = mixed \cup {{Kind(request.op), Kind(call[o].op)} : o \in {x \in Call : Active(x)}}
  /\ early' = (early \/ (request.op = "create" /\ Unfinished(request.parent)))
  /\ UNCHANGED torn

\* A request goes on, or ends.
Goto(c, request) == call' = [call EXCEPT ![c] = request] /\ UNCHANGED <<begun, mixed, torn, early>>
Go(c, step) == Goto(c, [call[c] EXCEPT !.step = step])
End(c) == Goto(c, Idle)

\* A statement fails after an earlier one of the request has committed.
Break(c) ==
  /\ call' = [call EXCEPT ![c] = Idle]
  /\ torn' = torn \cup {Kind(call[c].op)}
  /\ UNCHANGED <<begun, mixed, early>>

-----------------------------------------------------------------------------
(* department.go: Create.  The row is inserted with its parent's path and  *)
(* given its own by a second statement.                                    *)

CreateStart(c) ==
  /\ Ready(c)
  /\ \/ \E p \in Live :
          /\ dept[p].depth + 1 <= MaxDeptDepth
          /\ Begin(c, [op |-> "create", step |-> "insert", parent |-> p, node |-> NoDept,
                       path |-> dept[p].path, depth |-> dept[p].depth + 1])
     \/ /\ Live = {}   \* the condition on an empty parent_id is dropped by the query
        /\ Begin(c, [op |-> "create", step |-> "insert", parent |-> NoDept, node |-> NoDept,
                     path |-> <<>>, depth |-> 1])
  /\ UNCHANGED <<dept, unused, rel, user>>

CreateInsert(c) ==
  /\ At(c, "create", "insert")
  /\ \E d \in unused :
       /\ dept' = Adding(dept, d, [parent |-> call[c].parent, path |-> call[c].path, depth |-> call[c].depth])
       /\ unused' = unused \ {d}
       /\ Goto(c, [call[c] EXCEPT !.step = "path", !.node = d])
  /\ UNCHANGED <<rel, user>>

CreatePath(c) ==
  /\ At(c, "create", "path")
  /\ LET d == call[c].node IN
     dept' = IF d \in Live
             THEN [dept EXCEPT ![d].path = Append(call[c].path, d), ![d].depth = call[c].depth]
             ELSE dept
  /\ End(c)
  /\ UNCHANGED <<unused, rel, user>>

CreateBreaks(c) ==
  /\ MayFail
  /\ At(c, "create", "path")
  /\ Break(c)
  /\ UNCHANGED <<dept, unused, rel, user>>

-----------------------------------------------------------------------------
(* department.go: Update with another parentID (moveNode).                 *)

MoveStart(c) ==
  /\ Ready(c)
  /\ \E n \in Live, p \in Dept \cup {NoDept} :
       /\ p # dept[n].parent
       /\ Begin(c, [op |-> "move", step |-> "parent", node |-> n, parent |-> p, old |-> dept[n],
                    path |-> <<>>, depth |-> 0])
  /\ UNCHANGED <<dept, unused, rel, user>>

\* strings.HasPrefix(newParent.DeptPath, node.DeptPath): the new parent is the
\* node or below it.
Below(path, node) == IsPrefix(node.path, path)

MoveReadParent(c) ==
  /\ At(c, "move", "parent")
  /\ LET n == call[c].node  p == call[c].parent IN
     \/ /\ p = NoDept
        /\ Goto(c, [call[c] EXCEPT !.step = "commit", !.path = <<n>>, !.depth = 1])
     \/ /\ p \in Live
        /\ p # n /\ ~Below(dept[p].path, call[c].old)
        /\ dept[p].depth + 1 <= MaxDeptDepth
        /\ Goto(c, [call[c] EXCEPT !.step = "commit", !.path = Append(dept[p].path, n),
                                   !.depth = dept[p].depth + 1])
     \/ /\ p # NoDept
        /\ p \in Live => (p = n \/ Below(dept[p].path, call[c].old) \/ dept[p].depth + 1 > MaxDeptDepth)
        /\ End(c)
  /\ UNCHANGED <<dept, unused, rel, user>>

\* SQL replace(dept_path, old, new): every occurrence, from left to right.
\* An empty pattern changes nothing.
Replaced(path, old, new) ==
  LET n == Len(old)
      from[i \in 1..Len(path) + 1] ==
        IF i > Len(path) THEN <<>>
        ELSE IF n > 0 /\ i + n - 1 <= Len(path) /\ SubSeq(path, i, i + n - 1) = old
             THEN new \o from[i + n]
             ELSE <<path[i]>> \o from[i + 1]
  IN from[1]

\* The first statement of the transaction: the node itself.
OwnRowMoved(r) ==
  IF r.node \in Live
  THEN [dept EXCEPT ![r.node] = [parent |-> r.parent, path |-> r.path, depth |-> r.depth]]
  ELSE dept

\* Mutant of SubtreeMoved: only the node is moved.
SubtreeStays(rows, r) == rows

\* The second: every row whose path continues the old path.
SubtreeMoved(rows, r) ==
  [d \in DOMAIN rows |->
     IF IsStrictPrefix(r.old.path, rows[d].path)
     THEN [rows[d] EXCEPT !.path = Replaced(@, r.old.path, r.path),
                          !.depth = @ + (r.depth - r.old.depth)]
     ELSE rows[d]]

MoveCommit(c) ==
  /\ At(c, "move", "commit")
  /\ dept' = SubtreeMoved(OwnRowMoved(call[c]), call[c])
  /\ End(c)
  /\ UNCHANGED <<unused, rel, user>>

-----------------------------------------------------------------------------
(* department.go: Delete.  The statements inside its transaction use the   *)
(* plain connection: each commits on its own.                              *)

DeleteStart(c) ==
  /\ Ready(c)
  /\ \E n \in Live, cascade \in BOOLEAN :
       Begin(c, [op |-> "delete", step |-> "subtree", path |-> dept[n].path, cascade |-> cascade,
                 depts |-> {}, rows |-> {}])
  /\ UNCHANGED <<dept, unused, rel, user>>

Subtree(path) == {d \in Live : IsPrefix(path, dept[d].path)}

DeleteReadSubtree(c) ==
  /\ At(c, "delete", "subtree")
  /\ LET sub == Subtree(call[c].path) IN
     IF Cardinality(sub) > 1 /\ ~call[c].cascade
     THEN End(c)
     ELSE Goto(c, [call[c] EXCEPT !.step = "members", !.depts = sub])
  /\ UNCHANGED <<dept, unused, rel, user>>

\* Mutant of MembersOf: leaders are no members.
MembersWhoBelong(depts) == {i \in DOMAIN rel : rel[i].dept \in depts /\ rel[i].type # "leader"}

MembersOf(depts) == {i \in DOMAIN rel : rel[i].dept \in depts}

DeleteReadMembers(c) ==
  /\ At(c, "delete", "members")
  /\ LET members == MembersOf(call[c].depts) IN
     IF members # {} /\ ~call[c].cascade
     THEN End(c)
     ELSE Goto(c, [call[c] EXCEPT !.step = "rows", !.rows = members])
  /\ UNCHANGED <<dept, unused, rel, user>>

DeleteDept(c) ==
  /\ At(c, "delete", "rows")
  /\ \E d \in call[c].depts :
       /\ dept' = Dropping(dept, {d})
       /\ Goto(c, [call[c] EXCEPT !.depts = @ \ {d}])
  /\ UNCHANGED <<unused, rel, user>>

DeleteMember(c) ==
  /\ At(c, "delete", "rows")
  /\ call[c].depts = {}
  /\ \E i \in call[c].rows :
       /\ rel' = Dropping(rel, {i})
       /\ Goto(c, [call[c] EXCEPT !.rows = @ \ {i}])
  /\ UNCHANGED <<dept, unused, user>>

DeleteEnds(c) ==
  /\ At(c, "delete", "rows")
  /\ call[c].depts = {} /\ call[c].rows = {}
  /\ End(c)
  /\ UNCHANGED <<dept, unused, rel, user>>

DeleteBreaks(c) ==
  /\ MayFail
  /\ At(c, "delete", "rows")
  /\ Break(c)
  /\ UNCHANGED <<dept, unused, rel, user>>

-----------------------------------------------------------------------------
(* Rows of department_user.  The index uk_dept_user admits one row per     *)
(* department, user and type; it bounds neither the primary departments of *)
(* a user nor the leaders of a department.                                 *)

RowsOf(u, t) == {i \in DOMAIN rel : rel[i].user = u /\ rel[i].type = t}
OtherLeader(d, u) == \E i \in DOMAIN rel : rel[i].dept = d /\ rel[i].type = "leader" /\ rel[i].user # u

\* The identifiers of relations that requests know.
Holding(field) == {c \in Call : field \in DOMAIN call[c]}
Remembered == UNION ({call[c].rows : c \in Holding("rows")} \cup {call[c].extra : c \in Holding("extra")})

\* A transaction commits its rows, unless the index refuses them.
Commits(rows) == rel' = IF Unique(rows) THEN rows ELSE rel

(* department_user.go: Create. *)

RelateStart(c) ==
  /\ Ready(c)
  /\ \E d \in Live, u \in user, t \in Type :
       Begin(c, [op |-> "relate", step |-> "read", dept |-> d, user |-> u, type |-> t, rows |-> {}])
  /\ UNCHANGED <<dept, unused, rel, user>>

\* A primary row of the user is reused; another leader is a conflict; the
\* user's own leader row makes the request a repetition.
RelateRead(c) ==
  /\ At(c, "relate", "read")
  /\ LET r == call[c]
         own == {i \in RowsOf(r.user, r.type) : r.type = "primary" \/ rel[i].dept = r.dept}
     IN \/ /\ r.type = "leader"
           /\ OtherLeader(r.dept, r.user) \/ own # {}
           /\ End(c)
        \/ /\ r.type = "primary"
           /\ \E i \in own : Goto(c, [r EXCEPT !.step = "write", !.rows = {i}])
        \/ /\ r.type = "secondary" \/ (own = {} /\ ~(r.type = "leader" /\ OtherLeader(r.dept, r.user)))
           /\ Go(c, "write")
  /\ UNCHANGED <<dept, unused, rel, user>>

Relation(r) == [dept |-> r.dept, user |-> r.user, type |-> r.type]

\* The user's primary row is given the department, or a row is inserted.
Related(r) ==
  IF r.rows = {} THEN Put(rel, Remembered, {Relation(r)})
  ELSE [i \in DOMAIN rel |-> IF i \in r.rows THEN [rel[i] EXCEPT !.dept = r.dept] ELSE rel[i]]

RelateWrite(c) ==
  /\ At(c, "relate", "write")
  /\ Commits(Related(call[c]))
  /\ End(c)
  /\ UNCHANGED <<dept, unused, user>>

(* department_user.go: Update makes the relations of a user to a department *)
(* one relation of the given type.                                          *)

ConvergeStart(c) ==
  /\ Ready(c)
  /\ \E d \in Dept, u \in User, t \in Type :
       LET list == {i \in DOMAIN rel : rel[i].dept = d /\ rel[i].user = u} IN
       /\ list # {}
       /\ Begin(c, [op |-> "converge", step |-> IF t = "leader" THEN "leader" ELSE "rows",
                    dept |-> d, user |-> u, type |-> t, rows |-> list,
                    seen |-> [i \in list |-> rel[i].type],
                    target |-> \E i \in list : rel[i].type = t, new |-> {}, extra |-> {}])
  /\ UNCHANGED <<dept, unused, rel, user>>

ConvergeLeader(c) ==
  /\ At(c, "converge", "leader")
  /\ IF OtherLeader(call[c].dept, call[c].user) THEN End(c) ELSE Go(c, "rows")
  /\ UNCHANGED <<dept, unused, rel, user>>

\* One row of the list, by the plain connection: kept, removed because the
\* target type exists, or given the target type.
ConvergeRow(c) ==
  /\ At(c, "converge", "rows")
  /\ \E i \in call[c].rows :
       LET r == call[c]
           rest == [r EXCEPT !.rows = @ \ {i}]
           changed == IF i \in DOMAIN rel THEN [rel EXCEPT ![i].type = r.type] ELSE rel
       IN \/ /\ r.seen[i] = r.type
             /\ Goto(c, rest) /\ UNCHANGED rel
          \/ /\ r.seen[i] # r.type /\ r.target
             /\ rel' = Dropping(rel, {i})
             /\ Goto(c, rest)
          \/ /\ r.seen[i] # r.type /\ ~r.target /\ Unique(changed)
             /\ rel' = changed
             /\ Goto(c, [rest EXCEPT !.target = TRUE, !.step = IF r.type = "primary" THEN "single" ELSE "rows",
                                     !.new = {i}])
          \/ /\ r.seen[i] # r.type /\ ~r.target /\ ~Unique(changed)
             /\ Break(c) /\ UNCHANGED rel
  /\ UNCHANGED <<dept, unused, user>>

\* Mutant of SinglePrimary: the other primary rows are left.
SinglePrimaryForgotten(c) ==
  /\ At(c, "converge", "single")
  /\ Go(c, "rows")
  /\ UNCHANGED <<dept, unused, rel, user>>

\* ensureSinglePrimary, in the transaction: the user's other primary rows.
SinglePrimary(c) ==
  /\ At(c, "converge", "single")
  /\ Goto(c, [call[c] EXCEPT !.step = "rows", !.extra = RowsOf(call[c].user, "primary") \ call[c].new])
  /\ UNCHANGED <<dept, unused, rel, user>>

ConvergeCommit(c) ==
  /\ At(c, "converge", "rows")
  /\ call[c].rows = {}
  /\ rel' = Dropping(rel, call[c].extra)
  /\ End(c)
  /\ UNCHANGED <<dept, unused, user>>

ConvergeBreaks(c) ==
  /\ MayFail
  /\ At(c, "converge", "rows") \/ At(c, "converge", "single")
  /\ Break(c)
  /\ UNCHANGED <<dept, unused, rel, user>>

(* department_user.go: Delete removes them one by one, in no transaction.   *)

RemoveStart(c) ==
  /\ Ready(c)
  /\ \E d \in Dept, u \in User :
       LET list == {i \in DOMAIN rel : rel[i].dept = d /\ rel[i].user = u} IN
       /\ list # {}
       /\ Begin(c, [op |-> "remove", step |-> "rows", rows |-> list])
  /\ UNCHANGED <<dept, unused, rel, user>>

RemoveRow(c) ==
  /\ At(c, "remove", "rows")
  /\ \E i \in call[c].rows :
       /\ rel' = Dropping(rel, {i})
       /\ IF call[c].rows = {i} THEN End(c) ELSE Goto(c, [call[c] EXCEPT !.rows = @ \ {i}])
  /\ UNCHANGED <<dept, unused, user>>

RemoveBreaks(c) ==
  /\ MayFail
  /\ At(c, "remove", "rows")
  /\ Break(c)
  /\ UNCHANGED <<dept, unused, rel, user>>

(* user.go: Update gives the user other departments of one type, in one     *)
(* transaction (replaceDeptRelationList); a primary one may not be missing. *)

PlaceStart(c) ==
  /\ Ready(c)
  /\ \E u \in user, t \in Type, to \in {{d} : d \in Live} \cup {{}} :
       /\ t = "primary" => to # {}
       /\ Begin(c, [op |-> "place", step |-> "read", to |-> to, user |-> u, type |-> t, rows |-> {}])
  /\ UNCHANGED <<dept, unused, rel, user>>

PlaceRead(c) ==
  /\ At(c, "place", "read")
  /\ Goto(c, [call[c] EXCEPT !.step = IF call[c].type = "leader" THEN "leader" ELSE "commit",
                             !.rows = RowsOf(call[c].user, call[c].type)])
  /\ UNCHANGED <<dept, unused, rel, user>>

PlaceLeader(c) ==
  /\ At(c, "place", "leader")
  /\ IF \E d \in call[c].to : OtherLeader(d, call[c].user) THEN End(c) ELSE Go(c, "commit")
  /\ UNCHANGED <<dept, unused, rel, user>>

Placed(r) ==
  Put(Dropping(rel, r.rows), Remembered, {[dept |-> d, user |-> r.user, type |-> r.type] : d \in r.to})

PlaceCommit(c) ==
  /\ At(c, "place", "commit")
  /\ Commits(Placed(call[c]))
  /\ End(c)
  /\ UNCHANGED <<dept, unused, user>>

(* user.go and core/user/user.go: Create inserts the user with a primary    *)
(* department, and perhaps one to lead, in one transaction.                 *)

HireStart(c) ==
  /\ Ready(c)
  /\ \E u \in User \ user, d \in Live, lead \in {{l} : l \in Live} \cup {{}} :
       /\ \A o \in Call : Active(o) /\ call[o].op = "hire" => call[o].user # u
       /\ Begin(c, [op |-> "hire", step |-> IF lead = {} THEN "commit" ELSE "leader",
                    dept |-> d, lead |-> lead, user |-> u])
  /\ UNCHANGED <<dept, unused, rel, user>>

HireLeader(c) ==
  /\ At(c, "hire", "leader")
  /\ IF \E d \in call[c].lead : OtherLeader(d, call[c].user) THEN End(c) ELSE Go(c, "commit")
  /\ UNCHANGED <<dept, unused, rel, user>>

Hired(r) ==
  Put(rel, Remembered, {[dept |-> r.dept, user |-> r.user, type |-> "primary"]} \cup
                         {[dept |-> d, user |-> r.user, type |-> "leader"] : d \in r.lead})

HireCommit(c) ==
  /\ At(c, "hire", "commit")
  /\ user' = user \cup {call[c].user}
  /\ rel' = Hired(call[c])
  /\ End(c)
  /\ UNCHANGED <<dept, unused>>

-----------------------------------------------------------------------------
Next ==
  \E c \in Call :
    \/ CreateStart(c) \/ CreateInsert(c) \/ CreatePath(c) \/ CreateBreaks(c)
    \/ MoveStart(c) \/ MoveReadParent(c) \/ MoveCommit(c)
    \/ DeleteStart(c) \/ DeleteReadSubtree(c) \/ DeleteReadMembers(c) \/ DeleteDept(c)
    \/ DeleteMember(c) \/ DeleteEnds(c) \/ DeleteBreaks(c)
    \/ RelateStart(c) \/ RelateRead(c) \/ RelateWrite(c)
    \/ ConvergeStart(c) \/ ConvergeLeader(c) \/ ConvergeRow(c) \/ SinglePrimary(c)
    \/ ConvergeCommit(c) \/ ConvergeBreaks(c)
    \/ RemoveStart(c) \/ RemoveRow(c) \/ RemoveBreaks(c)
    \/ PlaceStart(c) \/ PlaceRead(c) \/ PlaceLeader(c) \/ PlaceCommit(c)
    \/ HireStart(c) \/ HireLeader(c) \/ HireCommit(c)

Spec == Init /\ [][Next]_vars

-----------------------------------------------------------------------------
(* Properties. *)

Quiet(kind) == \A c \in Call : Active(c) => Kind(call[c].op) # kind
Apart(k1, k2) == {k1, k2} \notin mixed

\* No two moves, nor a move and a creation, have overlapped, and no creation
\* stopped between its two statements, or was read between them by another one.
TreeKept == Apart("move", "move") /\ Apart("create", "move") /\ "create" \notin torn /\ ~early

\* The path and the depth of every department follow from its parent's,
\* although they are stored and moveNode rewrites a whole subtree with two
\* statements, from what it read before.
PathsAreChains ==
  TreeKept =>
    \A d \in Live : ~Unfinished(d) =>
      /\ dept[d].depth = Len(dept[d].path)
      /\ dept[d].parent = NoDept => dept[d].path = <<d>>
      /\ dept[d].parent \in Live => dept[d].path = Append(dept[dept[d].parent].path, d)

\* A deletion leaves nothing behind: each department's parent is there, and
\* so is the department of each relation, unless the deletion stopped half-way
\* or another request overlapped it (Delete reads the subtree and the members
\* before it deletes them).
NoOrphans ==
  /\ "delete" \notin torn /\ Quiet("delete")
  /\ \A kind \in Kinds : Apart("delete", kind)
  /\ TreeKept
  => /\ \A d \in Live : dept[d].parent \in Live \cup {NoDept}
     /\ \A i \in DOMAIN rel : rel[i].dept \in Live

\* A department has one leader and a user one primary department, whichever
\* of the five operations on relations built them, one after another and none
\* left half-done (ensureDeptLeaderUnique, ensureSinglePrimary).
OneOfEach ==
  Apart("relate", "relate") /\ "relate" \notin torn /\ Quiet("relate") =>
    OneEach(rel)
=============================================================================
