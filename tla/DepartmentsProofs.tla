-------------------------- MODULE DepartmentsProofs --------------------------
(***************************************************************************)
(* The department tree and its members, for every tree, every set of users *)
(* and of requests under way: one leader and one primary department, paths *)
(* that follow the parents, and nothing left behind by a deletion,         *)
(* wherever the requests the code does not keep apart did not overlap.     *)
(***************************************************************************)
EXTENDS Departments, RowsProofs

USE ConstantsAssumption

-----------------------------------------------------------------------------
(* What tables and requests look like.                                     *)

Parent == Dept \cup {NoDept}
DeptRow == [parent : Parent, path : Seq(Dept), depth : Int]
RelRow == [dept : Dept, user : User, type : Type]
Seen == UNION {[list -> Type] : list \in SUBSET Nat}

CreateRequest ==
  [op : {"create"}, step : {"insert", "path"}, parent : Parent, node : Parent, path : Seq(Dept), depth : Int]

MoveRequest ==
  [op : {"move"}, step : {"parent", "commit"}, node : Dept, parent : Parent, old : DeptRow,
   path : Seq(Dept), depth : Int]

DeleteRequest ==
  [op : {"delete"}, step : {"subtree", "members", "rows"}, path : Seq(Dept), cascade : BOOLEAN,
   depts : SUBSET Dept, rows : SUBSET Nat]

RelateRequest ==
  [op : {"relate"}, step : {"read", "write"}, dept : Dept, user : User, type : Type, rows : SUBSET Nat]

ConvergeRequest ==
  [op : {"converge"}, step : {"leader", "rows", "single"}, dept : Dept, user : User, type : Type,
   rows : SUBSET Nat, seen : Seen, target : BOOLEAN, new : SUBSET Nat, extra : SUBSET Nat]

RemoveRequest == [op : {"remove"}, step : {"rows"}, rows : SUBSET Nat]

PlaceRequest ==
  [op : {"place"}, step : {"read", "leader", "commit"}, to : SUBSET Dept, user : User, type : Type,
   rows : SUBSET Nat]

HireRequest == [op : {"hire"}, step : {"leader", "commit"}, dept : Dept, lead : SUBSET Dept, user : User]

Trees == {"create", "move", "delete"}
Listers == {"delete", "relate", "converge", "remove", "place"}
Relaters == {"relate", "converge", "remove", "place", "hire"}

Request ==
  {Idle} \cup CreateRequest \cup MoveRequest \cup DeleteRequest
  \cup RelateRequest \cup ConvergeRequest \cup RemoveRequest \cup PlaceRequest \cup HireRequest

\* Identifiers of departments are drawn once; a relation is of a user.
DeptTable ==
  /\ unused \subseteq Dept
  /\ Live \subseteq Dept \ unused
  /\ \A d \in Live : dept[d] \in DeptRow /\ dept[d].parent \notin unused

RelTable ==
  /\ user \subseteq User
  /\ DOMAIN rel \subseteq Nat /\ IsFiniteSet(DOMAIN rel)
  /\ \A i \in DOMAIN rel : rel[i] \in RelRow /\ rel[i].user \in user

RequestOK(r, free, users) ==
  /\ r \in Request
  /\ r.op \in Listers => IsFiniteSet(r.rows)
  /\ r.op = "converge" => IsFiniteSet(r.extra) /\ (r.step = "leader" => r.extra = {})
  /\ r.op \in {"relate", "place"} => r.user \in users
  /\ r.op = "relate" /\ r.step = "read" => r.rows = {}
  /\ r.op = "place" => \A d, e \in r.to : d = e
  /\ r.op = "hire" => \A d, e \in r.lead : d = e
  /\ r.op = "create" => r.parent \notin free /\ r.node \notin free /\ (r.step = "path" => r.node \in Dept)
  /\ r.op = "move" => r.node \notin free /\ (r.step = "commit" => r.parent \notin free)

\* Requests that are under way together have overlapped.
Overlaps ==
  \A c, o \in Call : c # o /\ Active(c) /\ Active(o) => {Kind(call[c].op), Kind(call[o].op)} \in mixed

BaseInv ==
  /\ DeptTable /\ RelTable
  /\ DOMAIN call = Call
  /\ \A c \in Call : RequestOK(call[c], unused, user)
  /\ Overlaps

-----------------------------------------------------------------------------
(* The invariants behind the properties.                                   *)

\* Rows of which there may be one.
Rivals(x, y) ==
  /\ x.type = y.type
  /\ \/ x.type = "leader" /\ x.dept = y.dept
     \/ x.type = "primary" /\ x.user = y.user

Unrivalled(x, rows) == \A i \in DOMAIN rows : ~Rivals(x, rows[i])

PrimariesOf(u, rows) == {i \in DOMAIN rows : rows[i].user = u /\ rows[i].type = "primary"}

\* What the request is about to commit leaves one of each.
SoleItem(r, rows, users) ==
  /\ r.op \in {"relate", "remove", "place", "hire"} => OneEach(rows)
  /\ r.op = "relate" /\ r.step = "write" =>
       /\ \A i \in r.rows \cap DOMAIN rows : rows[i].type = "primary"
       /\ r.rows = {} => Unrivalled(Relation(r), rows)
  /\ r.op = "converge" =>
       /\ r.step = "single" => r.target /\ OneEach(Dropping(rows, PrimariesOf(r.user, rows) \ r.new))
       /\ r.step # "single" => OneEach(Dropping(rows, r.extra))
       /\ ~r.target =>
            /\ r.extra = {}
            /\ \A i \in r.rows \cap DOMAIN rows : rows[i].dept = r.dept /\ rows[i].user = r.user
            /\ \A i \in DOMAIN rows : rows[i] # Relation(r)
            /\ r.type = "leader" /\ r.step = "rows" => Unrivalled(Relation(r), rows)
  /\ r.op = "place" /\ r.step # "read" =>
       /\ \A i \in DOMAIN rows : rows[i].user = r.user /\ rows[i].type = r.type => i \in r.rows
       /\ r.step = "commit" /\ r.type = "leader" =>
            \A i \in DOMAIN rows : rows[i].type = "leader" /\ rows[i].dept \in r.to => rows[i].user = r.user
  /\ r.op = "hire" =>
       /\ r.user \notin users
       /\ r.step = "commit" => \A i \in DOMAIN rows : ~(rows[i].type = "leader" /\ rows[i].dept \in r.lead)

Single == Apart("relate", "relate") /\ "relate" \notin torn

SoleInv ==
  Single => /\ Quiet("relate") => OneEach(rel)
            /\ \A c \in Call : SoleItem(call[c], rel, user)

\* Two paths of one tree: where a department is on both, it is in one place,
\* and they are one up to there.
Agree(s, t) == \A i \in DOMAIN s, j \in DOMAIN t : s[i] = t[j] => i = j /\ \A k \in 1..i : s[k] = t[k]

Leads(path, d) == path # <<>> /\ path[Len(path)] = d

\* The paths a request will store, or has read.
PathsIn(r) ==
  CASE r.op = "create" /\ r.step = "insert" -> {r.path}
    [] r.op = "create" /\ r.step = "path" -> {r.path, Append(r.path, r.node)}
    [] r.op = "move" /\ r.step = "parent" -> {r.old.path}
    [] r.op = "move" /\ r.step = "commit" -> {r.old.path, Front(r.path)}
    [] OTHER -> {}

\* The departments whose own path is there.
Settled == {d \in Live : ~Unfinished(d)}

PathsThere == {<<>>} \cup {dept[d].path : d \in Settled} \cup UNION {PathsIn(call[c]) : c \in Call}

ChainRow(d, rows, settled) ==
  /\ Leads(rows[d].path, d)
  /\ rows[d].depth = Len(rows[d].path)
  /\ rows[d].parent = NoDept => rows[d].path = <<d>>
  /\ rows[d].parent \in DOMAIN rows =>
       rows[d].parent \in settled /\ rows[d].path = Append(rows[rows[d].parent].path, d)

CreateItem(r, rows, settled) ==
  r.op = "create" =>
    /\ r.depth = Len(r.path) + 1
    /\ r.parent = NoDept => r.path = <<>>
    /\ r.parent \in DOMAIN rows => r.parent \in settled /\ r.path = rows[r.parent].path
    /\ r.step = "path" /\ r.node \in DOMAIN rows => rows[r.node].parent = r.parent

MoveItem(r, rows) ==
  r.op = "move" =>
    /\ r.node \in DOMAIN rows => rows[r.node] = r.old
    /\ Leads(r.old.path, r.node) /\ r.old.depth = Len(r.old.path)
    /\ r.step = "commit" =>
         /\ Leads(r.path, r.node) /\ r.depth = Len(r.path)
         /\ ~IsPrefix(r.old.path, Front(r.path))
         /\ r.parent = NoDept => r.path = <<r.node>>
         /\ r.parent \in DOMAIN rows => r.parent # r.node /\ r.path = Append(rows[r.parent].path, r.node)

NodesApart ==
  \A c, o \in Call : At(c, "create", "path") /\ At(o, "create", "path") /\ call[c].node = call[o].node => c = o

OneTree(there, free) ==
  /\ \A s, t \in there : Agree(s, t)
  /\ \A s \in there : \A i \in DOMAIN s : s[i] \notin free

Tree ==
  /\ NodesApart
  /\ OneTree(PathsThere, unused)
  /\ \A d \in Settled : ChainRow(d, dept, Settled)
  /\ \A c \in Call : CreateItem(call[c], dept, Settled) /\ MoveItem(call[c], dept)

TreeInv == TreeKept => Tree

\* Parents and departments of relations are there, but for those gone.
Homes(depts, rows, gone, left) ==
  /\ \A d \in DOMAIN depts \ gone : depts[d].parent \in (DOMAIN depts \ gone) \cup {NoDept}
  /\ \A i \in DOMAIN rows \ left : rows[i].dept \in DOMAIN depts \ gone

Homed(depts, rows) == Homes(depts, rows, {}, {})

HomeItem(r, live) ==
  /\ r.op = "create" \/ (r.op = "move" /\ r.step = "commit") => r.parent \in live \cup {NoDept}
  /\ r.op \in {"relate", "hire"} => r.dept \in live
  /\ r.op = "place" => r.to \subseteq live
  /\ r.op = "hire" => r.lead \subseteq live

DeleteItem(r, depts, rows) ==
  r.op = "delete" =>
    /\ r.step # "rows" => Homed(depts, rows)
    /\ r.step = "members" => \A d \in DOMAIN depts : depts[d].parent \in r.depts => d \in r.depts
    /\ r.step = "rows" => Homes(depts, rows, r.depts, r.rows)

DeletesApart == "delete" \notin torn /\ (\A kind \in Kinds : Apart("delete", kind)) /\ TreeKept

HomeBody ==
  /\ Quiet("delete") => Homed(dept, rel) /\ \A c \in Call : HomeItem(call[c], Live)
  /\ \A c \in Call : DeleteItem(call[c], dept, rel)

HomeInv == DeletesApart => HomeBody

-----------------------------------------------------------------------------
(* What SQL's replace makes of a path.                                     *)

\* One step of the replacement, whose rest is in f.
Rest(f, path, old, new, i) ==
  IF i > Len(path) THEN <<>>
  ELSE IF Len(old) > 0 /\ i + Len(old) - 1 <= Len(path) /\ SubSeq(path, i, i + Len(old) - 1) = old
       THEN new \o f[i + Len(old)]
       ELSE <<path[i]>> \o f[i + 1]

Follows(f, path, old, new) == f = [i \in 1..Len(path) + 1 |-> Rest(f, path, old, new, i)]

LEMMA ReplacementExists ==
  ASSUME NEW D, NEW path \in Seq(D), NEW old \in Seq(D), NEW new \in Seq(D)
  PROVE  \E f : Follows(f, path, old, new)
<1>1. PICK L \in Nat, n \in Nat : L = Len(path) /\ n = Len(old)
  OBVIOUS
<1> DEFINE Upto(g, k) == DOMAIN g = k..L + 1 /\ \A i \in k..L + 1 : g[i] = Rest(g, path, old, new, i)
           T == {k \in Nat : k <= L /\ ~\E g : Upto(g, L + 1 - k)}
<1>2. CASE T = {}
  <2>1. PICK g : DOMAIN g = 1..L + 1 /\ \A i \in 1..L + 1 : g[i] = Rest(g, path, old, new, i)
    BY <1>1, <1>2
  <2>2. PICK f : f = [i \in 1..L + 1 |-> g[i]]
    OBVIOUS
  <2>3. ASSUME NEW i \in 1..L + 1 PROVE f[i] = Rest(f, path, old, new, i)
    <3>1. i + 1 <= L + 1 => f[i + 1] = g[i + 1]
      BY <1>1, <2>2
    <3>2. n > 0 /\ i + n <= L + 1 => f[i + n] = g[i + n]
      BY <1>1, <2>2
    <3>3. Rest(f, path, old, new, i) = Rest(g, path, old, new, i)
      BY <1>1, <3>1, <3>2 DEF Rest
    <3> QED BY <2>1, <2>2, <3>3
  <2> QED BY <1>1, <2>2, <2>3 DEF Follows
<1>3. CASE T # {}
  <2>1. PICK k \in Nat : k \in T /\ \A y \in T : k <= y
    BY <1>3, Least
  <2>2. CASE k = 0
    <3>1. PICK g : g = [i \in L + 1..L + 1 |-> <<>>]
      OBVIOUS
    <3>2. Upto(g, L + 1)
      BY <1>1, <3>1 DEF Rest
    <3> QED BY <1>1, <2>1, <2>2, <3>2
  <2>3. CASE k # 0
    <3>1. PICK g : DOMAIN g = L + 2 - k..L + 1 /\ \A i \in L + 2 - k..L + 1 : g[i] = Rest(g, path, old, new, i)
      <4>1. PICK m \in Nat : m = k - 1
        BY <2>3
      <4>2. m <= L /\ L + 1 - m = L + 2 - k
        BY <1>1, <2>1, <2>3, <4>1
      <4>3. ~(k <= m)
        BY <4>1
      <4>4. m \notin T
        BY <2>1, <4>3
      <4>5. \E g : Upto(g, L + 1 - m)
        BY <4>2, <4>4
      <4> QED BY <4>2, <4>5
    <3>2. PICK h : h = [i \in L + 1 - k..L + 1 |-> IF i = L + 1 - k THEN Rest(g, path, old, new, i) ELSE g[i]]
      OBVIOUS
    <3>3. ASSUME NEW i \in L + 1 - k..L + 1 PROVE h[i] = Rest(h, path, old, new, i)
      <4>1. i + 1 <= L + 1 => h[i + 1] = g[i + 1]
        BY <1>1, <2>1, <3>2
      <4>2. n > 0 /\ i + n <= L + 1 => h[i + n] = g[i + n]
        BY <1>1, <2>1, <3>2
      <4>3. Rest(h, path, old, new, i) = Rest(g, path, old, new, i)
        BY <1>1, <2>1, <4>1, <4>2 DEF Rest
      <4>4. h[i] = Rest(g, path, old, new, i)
        BY <1>1, <2>1, <3>1, <3>2
      <4> QED BY <4>3, <4>4
    <3>4. Upto(h, L + 1 - k)
      BY <1>1, <2>1, <3>2, <3>3
    <3> QED BY <2>1, <3>4
  <2> QED BY <2>2, <2>3
<1> QED BY <1>2, <1>3

\* The replacement, from each place on.
LEMMA ReplacementFollows ==
  ASSUME NEW D, NEW path \in Seq(D), NEW old \in Seq(D), NEW new \in Seq(D)
  PROVE  \E f : /\ Replaced(path, old, new) = f[1]
                /\ \A i \in 1..Len(path) + 1 : f[i] = Rest(f, path, old, new, i)
<1>1. PICK f : f = CHOOSE g : Follows(g, path, old, new)
  OBVIOUS
<1>2. Follows(f, path, old, new)
  BY <1>1, ReplacementExists
<1>3. Replaced(path, old, new) = f[1]
  BY <1>1 DEF Replaced, Follows, Rest
<1> QED BY <1>2, <1>3 DEF Follows

\* It is a path again.
LEMMA ReplacedType ==
  ASSUME NEW D, NEW path \in Seq(D), NEW old \in Seq(D), NEW new \in Seq(D)
  PROVE  Replaced(path, old, new) \in Seq(D)
<1>1. PICK L \in Nat, n \in Nat : L = Len(path) /\ n = Len(old)
  OBVIOUS
<1>2. PICK f : /\ Replaced(path, old, new) = f[1]
               /\ \A i \in 1..L + 1 : f[i] = Rest(f, path, old, new, i)
  BY <1>1, ReplacementFollows
<1> DEFINE T == {k \in Nat : k <= L /\ f[L + 1 - k] \notin Seq(D)}
<1>3. CASE T = {}
  <2>1. L \notin T
    BY <1>3
  <2>2. L + 1 - L = 1 /\ L <= L
    OBVIOUS
  <2>3. f[1] \in Seq(D)
    BY <2>1, <2>2
  <2> QED BY <1>2, <2>3
<1>4. CASE T # {}
  <2>1. PICK k \in Nat : k \in T /\ \A y \in T : k <= y
    BY <1>4, Least
  <2>2. PICK i \in 1..L + 1 : i = L + 1 - k
    BY <1>1, <2>1
  <2>3. f[i] = Rest(f, path, old, new, i) /\ f[i] \notin Seq(D)
    BY <1>2, <2>1, <2>2
  <2>4. ASSUME NEW j \in 1..L + 1, i < j PROVE f[j] \in Seq(D)
    <3>1. L + 1 - j \in Nat
      BY <1>1
    <3> DEFINE m == L + 1 - j
    <3>2. ~(k <= m) /\ m <= L /\ L + 1 - m = j
      BY <1>1, <2>2, <2>4
    <3>3. m \notin T
      BY <2>1, <3>1, <3>2
    <3> QED BY <3>1, <3>2, <3>3
  <2>5. CASE i = L + 1
    <3>1. Rest(f, path, old, new, i) = <<>>
      BY <1>1, <2>5 DEF Rest
    <3> QED BY <2>3, <3>1
  <2>6. CASE i # L + 1
    <3>1. f[i + 1] \in Seq(D) /\ path[i] \in D
      BY <1>1, <2>4, <2>6
    <3>2. n > 0 /\ i + n - 1 <= L => f[i + n] \in Seq(D)
      BY <1>1, <2>4, <2>6
    <3>3. <<path[i]>> \o f[i + 1] \in Seq(D)
      BY <3>1
    <3>4. n > 0 /\ i + n - 1 <= L => new \o f[i + n] \in Seq(D)
      BY <3>2
    <3>5. Rest(f, path, old, new, i) \in {new \o f[i + n], <<path[i]>> \o f[i + 1]}
          /\ (~(n > 0 /\ i + n - 1 <= L) => Rest(f, path, old, new, i) = <<path[i]>> \o f[i + 1])
      BY <1>1, <2>6 DEF Rest
    <3> QED BY <2>3, <3>3, <3>4, <3>5
  <2> QED BY <2>5, <2>6
<1> QED BY <1>3, <1>4

LEMMA HeadAndRest ==
  ASSUME NEW D, NEW path \in Seq(D), NEW i \in 1..Len(path)
  PROVE  <<path[i]>> \o SubSeq(path, i + 1, Len(path)) = SubSeq(path, i, Len(path))
<1>1. PICK L \in Nat : L = Len(path)
  OBVIOUS
<1>2. PICK s : s = SubSeq(path, i + 1, L)
  OBVIOUS
<1>3. s \in Seq(D) /\ Len(s) = L - i /\ \A k \in 1..L - i : s[k] = path[i + k]
  BY <1>1, <1>2
<1>4. PICK t : t = <<path[i]>> \o s
  OBVIOUS
<1>5. t \in Seq(D) /\ Len(t) = L - i + 1 /\ \A k \in 1..L - i + 1 : t[k] = path[i + k - 1]
  <2>1. PICK h : h = <<path[i]>>
    OBVIOUS
  <2>2. h \in Seq(D) /\ Len(h) = 1 /\ h[1] = path[i]
    BY <2>1
  <2>3. t \in Seq(D) /\ Len(t) = 1 + (L - i)
    <3>1. t = h \o s /\ h \in Seq(D) /\ s \in Seq(D)
      BY <1>3, <1>4, <2>1, <2>2
    <3>2. t \in Seq(D) /\ Len(t) = Len(h) + Len(s)
      BY <3>1
    <3> QED BY <1>3, <2>2, <3>2
  <2>4. t[1] = path[i]
    BY <1>3, <1>4, <2>1, <2>2
  <2>5. ASSUME NEW k \in 2..L - i + 1 PROVE t[k] = path[i + k - 1]
    <3>1. t[k] = s[k - 1]
      BY <1>1, <1>3, <1>4, <2>1, <2>2
    <3> QED BY <1>1, <1>3, <3>1
  <2> QED BY <1>1, <2>3, <2>4, <2>5
<1>6. PICK w : w = SubSeq(path, i, L)
  OBVIOUS
<1>7. w \in Seq(D) /\ Len(w) = L - i + 1 /\ \A k \in 1..L - i + 1 : w[k] = path[i + k - 1]
  BY <1>1, <1>6
<1>8. t = w
  BY <1>5, <1>7
<1> QED BY <1>1, <1>2, <1>4, <1>6, <1>8

\* In a path that goes through each department once, what is replaced is its
\* beginning.
LEMMA PrefixReplaced ==
  ASSUME NEW D, NEW path \in Seq(D), NEW old \in Seq(D), NEW new \in Seq(D),
         old # <<>>, Len(old) <= Len(path), \A k \in 1..Len(old) : path[k] = old[k],
         \A i, j \in 1..Len(path) : path[i] = path[j] => i = j
  PROVE  Replaced(path, old, new) = new \o SubSeq(path, Len(old) + 1, Len(path))
<1>1. PICK L \in Nat, n \in Nat : L = Len(path) /\ n = Len(old)
  OBVIOUS
<1>2. n > 0 /\ n <= L
  BY <1>1
<1>3. PICK f : /\ Replaced(path, old, new) = f[1]
               /\ \A i \in 1..L + 1 : f[i] = Rest(f, path, old, new, i)
  BY <1>1, ReplacementFollows
<1>4. f[1] = new \o f[n + 1]
  <2>1. SubSeq(path, 1, n) = old
    BY <1>1, <1>2
  <2>2. 1 \in 1..L + 1 /\ ~(1 > L) /\ 1 + n - 1 = n /\ 1 + n = n + 1
    BY <1>2
  <2>3. Rest(f, path, old, new, 1) = new \o f[n + 1]
    BY <1>1, <1>2, <2>1, <2>2 DEF Rest
  <2> QED BY <1>3, <2>2, <2>3
<1> DEFINE T == {k \in Nat : k <= L - n /\ f[L + 1 - k] # SubSeq(path, L + 1 - k, L)}
<1>5. CASE T = {}
  <2>1. L - n \in Nat /\ L + 1 - (L - n) = n + 1
    BY <1>2
  <2>2. L - n \notin T
    BY <1>5
  <2>3. f[n + 1] = SubSeq(path, n + 1, L)
    BY <2>1, <2>2
  <2> QED BY <1>1, <1>3, <1>4, <2>3
<1>6. CASE T # {}
  <2>1. PICK k \in Nat : k \in T /\ \A y \in T : k <= y
    BY <1>6, Least
  <2>2. PICK i \in 1..L + 1 : i = L + 1 - k
    BY <1>2, <2>1
  <2>3. f[i] = Rest(f, path, old, new, i) /\ f[i] # SubSeq(path, i, L) /\ i > n
    BY <1>2, <1>3, <2>1, <2>2
  <2>4. CASE i = L + 1
    <3>1. Rest(f, path, old, new, i) = <<>> /\ SubSeq(path, i, L) = <<>>
      BY <1>1, <2>4 DEF Rest
    <3> QED BY <2>3, <3>1
  <2>5. CASE i # L + 1
    <3>1. f[i + 1] = SubSeq(path, i + 1, L)
      <4>1. k - 1 \in Nat
        BY <2>2, <2>5
      <4>2. k - 1 <= L - n /\ ~(k <= k - 1) /\ L + 1 - (k - 1) = i + 1
        BY <2>1, <2>2
      <4>3. k - 1 \notin T
        BY <2>1, <4>2
      <4> QED BY <4>1, <4>2, <4>3
    <3>2. ~(n > 0 /\ i + n - 1 <= L /\ SubSeq(path, i, i + n - 1) = old)
      <4>1. SUFFICES ASSUME i + n - 1 <= L, SubSeq(path, i, i + n - 1) = old PROVE FALSE
        OBVIOUS
      <4>2. SubSeq(path, i, i + n - 1)[1] = path[i]
        BY <1>1, <1>2, <4>1
      <4>3. old[1] = path[1]
        BY <1>1, <1>2
      <4>4. 1 \in 1..L /\ i \in 1..L /\ i # 1
        BY <1>2, <2>3, <2>5
      <4> QED BY <1>1, <4>1, <4>2, <4>3, <4>4
    <3>3. Rest(f, path, old, new, i) = <<path[i]>> \o f[i + 1]
      BY <1>1, <2>5, <3>2 DEF Rest
    <3>4. <<path[i]>> \o SubSeq(path, i + 1, L) = SubSeq(path, i, L)
      <4>1. i \in 1..L
        BY <2>5
      <4> QED BY <1>1, <4>1, HeadAndRest
    <3> QED BY <2>3, <3>1, <3>3, <3>4
  <2> QED BY <2>4, <2>5
<1> QED BY <1>5, <1>6

-----------------------------------------------------------------------------
(* Steps in general.                                                       *)

LEMMA Kinds9 ==
  ASSUME NEW r \in Request
  PROVE  /\ r.op = "idle" => r = Idle
         /\ r.op = "create" => r \in CreateRequest
         /\ r.op = "move" => r \in MoveRequest
         /\ r.op = "delete" => r \in DeleteRequest
         /\ r.op = "relate" => r \in RelateRequest
         /\ r.op = "converge" => r \in ConvergeRequest
         /\ r.op = "remove" => r \in RemoveRequest
         /\ r.op = "place" => r \in PlaceRequest
         /\ r.op = "hire" => r \in HireRequest
         /\ r.op \in {"idle"} \cup Trees \cup Relaters
BY DEF Request, Idle, CreateRequest, MoveRequest, DeleteRequest, RelateRequest, ConvergeRequest, RemoveRequest,
       PlaceRequest, HireRequest, Trees, Relaters

LEMMA KindOf ==
  ASSUME NEW r \in Request, r.op # "idle"
  PROVE  /\ Kind(r.op) \in Kinds
         /\ r.op \in Relaters <=> Kind(r.op) = "relate"
         /\ r.op \in Trees => Kind(r.op) = r.op
BY Kinds9 DEF Kind, Kinds, Relaters, Trees

\* What requests remember of relations is finitely many of them.
LEMMA RememberedFinite ==
  ASSUME BaseInv
  PROVE  IsFiniteSet(Remembered)
<1> DEFINE held == Holding("rows")  more == Holding("extra")
           f == [c \in held |-> call[c].rows]  g == [c \in more |-> call[c].extra]
<1>1. IsFiniteSet(held) /\ IsFiniteSet(more)
  BY FS_Subset DEF Holding
<1>2. f \in Surjection(held, {call[c].rows : c \in held}) /\ g \in Surjection(more, {call[c].extra : c \in more})
  BY Fun_IsSurj
<1>3. IsFiniteSet({call[c].rows : c \in held}) /\ IsFiniteSet({call[c].extra : c \in more})
  BY <1>1, <1>2, FS_Surjection
<1>4. ASSUME NEW c \in held PROVE IsFiniteSet(call[c].rows)
  <2>1. RequestOK(call[c], unused, user) /\ "rows" \in DOMAIN call[c]
    BY DEF BaseInv, Holding
  <2>2. call[c].op \in Listers
    BY <2>1 DEF RequestOK, Request, Idle, CreateRequest, MoveRequest, DeleteRequest, RelateRequest,
                ConvergeRequest, RemoveRequest, PlaceRequest, HireRequest, Listers
  <2> QED BY <2>1, <2>2 DEF RequestOK
<1>5. ASSUME NEW c \in more PROVE IsFiniteSet(call[c].extra)
  <2>1. RequestOK(call[c], unused, user) /\ "extra" \in DOMAIN call[c]
    BY DEF BaseInv, Holding
  <2>2. call[c].op = "converge"
    BY <2>1 DEF RequestOK, Request, Idle, CreateRequest, MoveRequest, DeleteRequest, RelateRequest,
                ConvergeRequest, RemoveRequest, PlaceRequest, HireRequest
  <2> QED BY <2>1, <2>2 DEF RequestOK
<1>6. \A s \in {call[c].rows : c \in held} \cup {call[c].extra : c \in more} : IsFiniteSet(s)
  BY <1>4, <1>5
<1>7. IsFiniteSet({call[c].rows : c \in held} \cup {call[c].extra : c \in more})
  BY <1>3, FS_Union
<1> HIDE DEF held, more
<1>8. IsFiniteSet(UNION ({call[c].rows : c \in held} \cup {call[c].extra : c \in more}))
  BY <1>6, <1>7, FS_UNION
<1> QED BY <1>8 DEF Remembered, held, more

\* A request goes on to q, or ends.
Moves(c, q) ==
  /\ call' = [call EXCEPT ![c] = q]
  /\ mixed \subseteq mixed' /\ torn \subseteq torn' /\ (early => early')
  /\ Overlaps'

LEMMA MoveKeepsBase ==
  ASSUME BaseInv, NEW c \in Call, NEW q, Moves(c, q), DeptTable', RelTable', unused' \subseteq unused,
         user \subseteq user', RequestOK(q, unused', user')
  PROVE  BaseInv'
<1>1. DOMAIN call' = Call
  BY DEF Moves, BaseInv
<1>2. ASSUME NEW o \in Call PROVE RequestOK(call'[o], unused', user')
  <2>1. CASE o = c
    BY <2>1 DEF Moves, BaseInv
  <2>2. CASE o # c
    <3>1. call'[o] = call[o] /\ RequestOK(call[o], unused, user)
      BY <2>2 DEF Moves, BaseInv
    <3> QED BY <3>1 DEF RequestOK
  <2> QED BY <2>1, <2>2
<1> QED BY <1>1, <1>2 DEF BaseInv, Moves

LEMMA GotoMoves ==
  ASSUME BaseInv, NEW c \in Call, NEW q, Goto(c, q), Active(c), q.op \in {call[c].op, "idle"}
  PROVE  Moves(c, q)
<1>1. DOMAIN call = Call /\ call' = [call EXCEPT ![c] = q] /\ mixed' = mixed /\ torn' = torn /\ early' = early
  BY DEF BaseInv, Goto
<1>2. ASSUME NEW a \in Call, NEW b \in Call, a # b, Active(a)', Active(b)'
      PROVE  {Kind(call'[a].op), Kind(call'[b].op)} \in mixed'
  <2>1. \A o \in Call : Active(o)' => Active(o) /\ call'[o].op = call[o].op
    BY <1>1 DEF Active
  <2> QED BY <1>1, <1>2, <2>1 DEF BaseInv, Overlaps
<1> QED BY <1>1, <1>2 DEF Moves, Overlaps

LEMMA EndMoves ==
  ASSUME BaseInv, NEW c \in Call, End(c), Active(c)
  PROVE  Moves(c, Idle)
BY GotoMoves DEF End, Idle

LEMMA BreakMoves ==
  ASSUME BaseInv, NEW c \in Call, Break(c), Active(c)
  PROVE  Moves(c, Idle) /\ Kind(call[c].op) \in torn'
<1>1. /\ DOMAIN call = Call /\ call' = [call EXCEPT ![c] = Idle] /\ mixed' = mixed /\ early' = early
      /\ torn' = torn \cup {Kind(call[c].op)}
  BY DEF BaseInv, Break
<1>2. ASSUME NEW a \in Call, NEW b \in Call, a # b, Active(a)', Active(b)'
      PROVE  {Kind(call'[a].op), Kind(call'[b].op)} \in mixed'
  <2>1. \A o \in Call : Active(o)' => Active(o) /\ call'[o].op = call[o].op
    BY <1>1 DEF Active, Idle
  <2> QED BY <1>1, <1>2, <2>1 DEF BaseInv, Overlaps
<1> QED BY <1>1, <1>2 DEF Moves, Overlaps

LEMMA BeginMoves ==
  ASSUME BaseInv, NEW c \in Call, NEW q, Begin(c, q)
  PROVE  Moves(c, q)
<1>1. /\ DOMAIN call = Call /\ call' = [call EXCEPT ![c] = q]
      /\ \A o \in Call : Active(o) => {Kind(q.op), Kind(call[o].op)} \in mixed'
      /\ mixed \subseteq mixed' /\ torn' = torn /\ (early => early')
  BY DEF BaseInv, Begin
<1>2. ASSUME NEW a \in Call, NEW b \in Call, a # b, Active(a)', Active(b)'
      PROVE  {Kind(call'[a].op), Kind(call'[b].op)} \in mixed'
  <2>1. call'[c] = q /\ \A o \in Call \ {c} : call'[o] = call[o]
    BY <1>1
  <2>2. \A o \in Call \ {c} : Active(o)' => Active(o)
    BY <2>1 DEF Active
  <2>3. CASE a = c
    BY <1>1, <1>2, <2>1, <2>2, <2>3
  <2>4. CASE b = c
    <3>1. {Kind(q.op), Kind(call[a].op)} \in mixed'
      BY <1>1, <1>2, <2>2, <2>4
    <3>2. {Kind(call'[a].op), Kind(call'[b].op)} = {Kind(q.op), Kind(call[a].op)}
      BY <1>2, <2>1, <2>4
    <3> QED BY <3>1, <3>2
  <2>5. CASE a # c /\ b # c
    BY <1>1, <1>2, <2>1, <2>2, <2>5 DEF BaseInv, Overlaps
  <2> QED BY <2>3, <2>4, <2>5
<1> QED BY <1>1, <1>2 DEF Moves, Overlaps

LEMMA ActiveRequest ==
  ASSUME BaseInv, NEW c \in Call, NEW op, NEW step, At(c, op, step)
  PROVE  /\ Active(c) /\ call[c].op = op /\ call[c].step = step
         /\ RequestOK(call[c], unused, user) /\ call[c] \in Request
BY DEF BaseInv, At, RequestOK

LEMMA IdleOK ==
  ASSUME NEW free, NEW users
  PROVE  RequestOK(Idle, free, users) /\ Idle.op = "idle"
BY DEF RequestOK, Request, Idle, Listers

-----------------------------------------------------------------------------
(* Rows of department_user.                                                *)

\* Fewer rows have no rivals either.
LEMMA FewerRows ==
  ASSUME NEW rows, OneEach(rows), NEW gone
  PROVE  OneEach(Dropping(rows, gone))
BY DEF OneEach, Dropping

LEMMA NobodyDropped ==
  ASSUME NEW rows
  PROVE  OneEach(rows) <=> OneEach(Dropping(rows, {}))
BY DEF OneEach, Dropping

LEMMA SoleWithout ==
  ASSUME NEW rows, NEW gone
  PROVE  OneEach(Dropping(rows, gone)) <=> \A i, j \in DOMAIN rows \ gone : Rivals(rows[i], rows[j]) => i = j
BY DEF OneEach, Dropping, Rivals

\* Rows inserted beside those that are kept.
LEMMA RowsInserted ==
  ASSUME BaseInv, NEW kept, DOMAIN kept \subseteq DOMAIN rel, \A i \in DOMAIN kept : kept[i] = rel[i],
         NEW new, IsFiniteSet(new)
  PROVE  LET rows == Put(kept, Remembered, new)
         IN /\ DOMAIN rows \subseteq Nat /\ IsFiniteSet(DOMAIN rows)
            /\ \A i \in DOMAIN rows : (i \in DOMAIN rel /\ rows[i] = rel[i]) \/ rows[i] \in new
            /\ (/\ OneEach(kept)
                /\ \A x \in new : Unrivalled(x, kept)
                /\ \A x, y \in new : Rivals(x, y) => x = y) => OneEach(rows)
<1>1. DOMAIN kept \subseteq Nat /\ IsFiniteSet(DOMAIN kept)
  BY FS_Subset DEF BaseInv, RelTable
<1>2. PICK rows : rows = Put(kept, Remembered, new)
  OBVIOUS
<1>3. /\ IsFiniteSet(DOMAIN rows) /\ DOMAIN rows \subseteq Nat
      /\ DOMAIN kept \subseteq DOMAIN rows
      /\ \A i \in DOMAIN kept : rows[i] = kept[i]
      /\ \A i \in DOMAIN rows \ DOMAIN kept : rows[i] \in new
      /\ \A i, j \in DOMAIN rows \ DOMAIN kept : rows[i] = rows[j] => i = j
  BY <1>1, <1>2, RememberedFinite, RowsPut
<1>4. ASSUME OneEach(kept), \A x \in new : Unrivalled(x, kept), \A x, y \in new : Rivals(x, y) => x = y
      PROVE  OneEach(rows)
  <2>1. ASSUME NEW i \in DOMAIN rows, NEW j \in DOMAIN rows, Rivals(rows[i], rows[j]) PROVE i = j
    <3>1. CASE i \in DOMAIN kept /\ j \in DOMAIN kept
      BY <1>3, <1>4, <2>1, <3>1 DEF OneEach, Rivals
    <3>2. CASE i \in DOMAIN kept /\ j \notin DOMAIN kept
      <4>1. rows[j] \in new /\ rows[i] = kept[i] /\ Rivals(rows[j], kept[i])
        BY <1>3, <2>1, <3>2 DEF Rivals
      <4> QED BY <1>4, <3>2, <4>1 DEF Unrivalled
    <3>3. CASE i \notin DOMAIN kept /\ j \in DOMAIN kept
      BY <1>3, <1>4, <2>1, <3>3 DEF Unrivalled
    <3>4. CASE i \notin DOMAIN kept /\ j \notin DOMAIN kept
      BY <1>3, <1>4, <2>1, <3>4
    <3> QED BY <3>1, <3>2, <3>3, <3>4
  <2> QED BY <2>1 DEF OneEach, Rivals
<1>5. \A i \in DOMAIN rows : (i \in DOMAIN rel /\ rows[i] = rel[i]) \/ rows[i] \in new
  BY <1>3
<1> QED BY <1>2, <1>3, <1>4, <1>5

\* What holds of a request's relations while it is under way, or of all
\* relations while none is.
SoleNow(c) == IF Active(c) THEN SoleItem(call[c], rel, user) ELSE OneEach(rel)

\* A step of a request about relations: it leaves the tree alone.
RelateStep(c, q) ==
  /\ Moves(c, q)
  /\ UNCHANGED <<dept, unused>>
  /\ RelTable' /\ user \subseteq user'
  /\ RequestOK(q, unused, user')
  /\ call[c].op \in Relaters \cup {"idle"} /\ q.op \in Relaters \cup {"idle"}
  /\ Active(c) \/ q.op # "idle"
  /\ \/ "relate" \in torn'
     \/ SoleNow(c) => IF q.op = "idle" THEN OneEach(rel') ELSE SoleItem(q, rel', user')
  /\ Homed(dept, rel) /\ HomeItem(call[c], Live) => Homed(dept, rel') /\ HomeItem(q, Live)

\* It only reads.
LEMMA ReadRelates ==
  ASSUME BaseInv, NEW c \in Call, NEW q, Moves(c, q), UNCHANGED <<dept, unused, rel, user>>,
         RequestOK(q, unused, user), call[c].op \in Relaters \cup {"idle"}, q.op \in Relaters \cup {"idle"},
         Active(c) \/ q.op # "idle",
         "relate" \in torn' \/ (SoleNow(c) => IF q.op = "idle" THEN OneEach(rel) ELSE SoleItem(q, rel, user)),
         Homed(dept, rel) /\ HomeItem(call[c], Live) => HomeItem(q, Live)
  PROVE  RelateStep(c, q)
BY DEF RelateStep, RelTable, BaseInv

LEMMA IdleHomes ==
  ASSUME NEW live
  PROVE  HomeItem(Idle, live)
BY DEF HomeItem, Idle

LEMMA BeginRelates ==
  ASSUME BaseInv, NEW c \in Call, NEW q, Ready(c), Begin(c, q), UNCHANGED <<dept, unused, rel, user>>,
         RequestOK(q, unused, user), q.op \in Relaters,
         OneEach(rel) => SoleItem(q, rel, user),
         HomeItem(q, Live)
  PROVE  RelateStep(c, q)
<1>1. Moves(c, q)
  BY BeginMoves
<1>2. call[c].op = "idle" /\ ~Active(c) /\ q.op # "idle"
  BY DEF Ready, Active, Relaters
<1> QED BY <1>1, <1>2, ReadRelates DEF SoleNow

LEMMA EndRelates ==
  ASSUME BaseInv, NEW c \in Call, Active(c), call[c].op \in Relaters, UNCHANGED <<dept, unused, rel, user>>,
         \/ End(c) /\ (SoleItem(call[c], rel, user) => OneEach(rel))
         \/ Break(c)
  PROVE  RelateStep(c, Idle)
<1>1. Idle.op = "idle" /\ RequestOK(Idle, unused, user)
  BY IdleOK
<1>2. CASE End(c) /\ (SoleItem(call[c], rel, user) => OneEach(rel))
  BY <1>1, <1>2, EndMoves, IdleHomes, ReadRelates DEF SoleNow
<1>3. CASE Break(c)
  <2>1. Kind(call[c].op) = "relate"
    BY DEF Kind, Relaters
  <2> QED BY <1>1, <1>3, <2>1, BreakMoves, IdleHomes, ReadRelates
<1> QED BY <1>2, <1>3

\* Rows go.
LEMMA DroppedRel ==
  ASSUME BaseInv, NEW gone, rel' = Dropping(rel, gone), user \subseteq user', user' \subseteq User
  PROVE  /\ RelTable'
         /\ Homed(dept, rel) => Homed(dept, rel')
<1>1. DOMAIN rel' \subseteq DOMAIN rel /\ \A i \in DOMAIN rel' : rel'[i] = rel[i]
  BY DEF Dropping
<1>2. RelTable'
  BY <1>1, FS_Subset DEF BaseInv, RelTable
<1> QED BY <1>1, <1>2 DEF Homed, Homes

-----------------------------------------------------------------------------
(* department_user.go: Create.                                             *)

LEMMA RelateStartSteps ==
  ASSUME BaseInv, NEW c \in Call, RelateStart(c)
  PROVE  \E q : RelateStep(c, q)
<1>1. PICK d, u, t, q :
        /\ d \in Live /\ u \in user /\ t \in Type
        /\ q = [op |-> "relate", step |-> "read", dept |-> d, user |-> u, type |-> t, rows |-> {}]
        /\ Begin(c, q)
  BY DEF RelateStart
<1>2. d \in Dept /\ u \in User
  BY <1>1 DEF BaseInv, DeptTable, RelTable
<1>3. RequestOK(q, unused, user)
  BY <1>1, <1>2, FS_EmptySet DEF RequestOK, Request, RelateRequest, Listers
<1>4. q.op \in Relaters /\ HomeItem(q, Live) /\ (OneEach(rel) => SoleItem(q, rel, user))
  BY <1>1 DEF Relaters, HomeItem, SoleItem
<1>5. Ready(c) /\ UNCHANGED <<dept, unused, rel, user>>
  BY DEF RelateStart
<1> QED BY <1>1, <1>3, <1>4, <1>5, BeginRelates

LEMMA RelateReadSteps ==
  ASSUME BaseInv, NEW c \in Call, RelateRead(c)
  PROVE  \E q : RelateStep(c, q)
<1> DEFINE r == call[c]
           own == {i \in RowsOf(r.user, r.type) : r.type = "primary" \/ rel[i].dept = r.dept}
<1>1. /\ At(c, "relate", "read") /\ r \in RelateRequest /\ r.op = "relate" /\ r.rows = {} /\ r.user \in user
      /\ UNCHANGED <<dept, unused, rel, user>> /\ Active(c) /\ r.op \in Relaters
  BY ActiveRequest, Kinds9 DEF RelateRead, RequestOK, Listers, Relaters
<1>2. CASE End(c)
  <2>1. SoleItem(r, rel, user) => OneEach(rel)
    BY <1>1 DEF SoleItem
  <2> QED BY <1>1, <1>2, <2>1, EndRelates
<1>3. ASSUME NEW q, Goto(c, q), q \in RelateRequest, IsFiniteSet(q.rows), q.user \in user, q.step = "write",
             q.dept = r.dept, \A i \in q.rows : rel[i].type = "primary", q.rows = {} => Unrivalled(Relation(q), rel)
      PROVE  RelateStep(c, q)
  <2>1. q.op = "relate" /\ Moves(c, q)
    BY <1>1, <1>3, GotoMoves DEF RelateRequest
  <2>2. RequestOK(q, unused, user)
    BY <1>3, <2>1 DEF RequestOK, Request, Listers
  <2>3. SoleNow(c) => SoleItem(q, rel, user)
    BY <1>1, <1>3, <2>1 DEF SoleNow, SoleItem
  <2>4. HomeItem(r, Live) => HomeItem(q, Live)
    BY <1>1, <1>3, <2>1 DEF HomeItem
  <2> QED BY <1>1, <2>1, <2>2, <2>3, <2>4, ReadRelates DEF Relaters
<1>4. CASE r.type = "primary" /\ \E i \in own : Goto(c, [r EXCEPT !.step = "write", !.rows = {i}])
  <2>1. PICK i, q : i \in own /\ q = [r EXCEPT !.step = "write", !.rows = {i}] /\ Goto(c, q)
    BY <1>4
  <2>2. i \in DOMAIN rel /\ rel[i].type = "primary" /\ i \in Nat
    BY <1>4, <2>1 DEF RowsOf, BaseInv, RelTable
  <2>3. q \in RelateRequest /\ q.rows = {i} /\ q.step = "write" /\ q.user = r.user /\ q.dept = r.dept
    BY <1>1, <2>1, <2>2 DEF RelateRequest
  <2>4. IsFiniteSet({i}) /\ {i} # {}
    BY FS_Singleton
  <2>5. IsFiniteSet(q.rows) /\ q.rows # {} /\ \A j \in q.rows : rel[j].type = "primary"
    BY <2>2, <2>3, <2>4
  <2> QED BY <1>1, <1>3, <2>1, <2>3, <2>5
<1>5. CASE /\ r.type = "secondary" \/ (own = {} /\ ~(r.type = "leader" /\ OtherLeader(r.dept, r.user)))
           /\ Go(c, "write")
  <2>1. PICK q : q = [r EXCEPT !.step = "write"] /\ Goto(c, q)
    BY <1>5 DEF Go
  <2>2. /\ q \in RelateRequest /\ q.rows = {} /\ q.step = "write" /\ q.user = r.user /\ q.dept = r.dept
        /\ q.type = r.type
    BY <1>1, <2>1 DEF RelateRequest
  <2>3. ASSUME NEW i \in DOMAIN rel, Rivals(Relation(q), rel[i]) PROVE FALSE
    <3>1. /\ rel[i].type = r.type /\ r.type # "secondary"
          /\ r.type = "primary" => rel[i].user = r.user
          /\ r.type = "leader" => rel[i].dept = r.dept
      BY <2>2, <2>3 DEF Rivals, Relation
    <3>2. r.type \in {"primary", "leader"}
      BY <1>1, <3>1 DEF RelateRequest, Type
    <3>3. CASE r.type = "primary"
      BY <1>5, <3>1, <3>3 DEF RowsOf
    <3>4. CASE r.type = "leader"
      BY <1>5, <3>1, <3>4 DEF RowsOf, OtherLeader
    <3> QED BY <3>2, <3>3, <3>4
  <2>4. IsFiniteSet(q.rows)
    BY <2>2, FS_EmptySet
  <2> QED BY <1>1, <1>3, <2>1, <2>2, <2>3, <2>4 DEF Unrivalled
<1> QED BY <1>2, <1>3, <1>4, <1>5 DEF RelateRead

LEMMA RelationRow ==
  ASSUME NEW r, r.dept \in Dept, r.user \in User, r.type \in Type
  PROVE  /\ Relation(r) \in RelRow /\ Relation(r).user = r.user /\ Relation(r).dept = r.dept
         /\ Relation(r).type = r.type
         /\ \A x \in RelRow : x.dept = r.dept /\ x.user = r.user /\ x.type = r.type => x = Relation(r)
BY DEF Relation, RelRow

LEMMA RelateWriteSteps ==
  ASSUME BaseInv, NEW c \in Call, RelateWrite(c)
  PROVE  \E q : RelateStep(c, q)
<1> DEFINE r == call[c]
<1>1. /\ At(c, "relate", "write") /\ r \in RelateRequest /\ r.op = "relate" /\ r.step = "write"
      /\ r.user \in user /\ End(c)
      /\ UNCHANGED <<dept, unused, user>> /\ Active(c) /\ r.op \in Relaters
  BY ActiveRequest, Kinds9 DEF RelateWrite, RequestOK, Listers, Relaters
<1>2. Moves(c, Idle) /\ RequestOK(Idle, unused, user) /\ Idle.op = "idle" /\ HomeItem(Idle, Live)
  BY <1>1, EndMoves, IdleOK, IdleHomes
<1>3. rel' \in {rel, Related(r)}
  BY DEF RelateWrite, Commits
<1>4. r.dept \in Dept /\ r.user \in User /\ r.type \in Type
  BY <1>1 DEF RelateRequest
<1> DEFINE Fine(rows) ==
             /\ DOMAIN rows \subseteq Nat /\ IsFiniteSet(DOMAIN rows)
             /\ \A i \in DOMAIN rows : rows[i] \in RelRow /\ rows[i].user \in user
             /\ \A i \in DOMAIN rows : rows[i].dept = r.dept \/ (i \in DOMAIN rel /\ rows[i].dept = rel[i].dept)
             /\ SoleItem(r, rel, user) => OneEach(rows)
<1>5. Fine(rel)
  BY <1>1 DEF BaseInv, RelTable, SoleItem
<1>6. ASSUME r.rows = {} PROVE Fine(Related(r))
  <2>1. PICK x, new : x = Relation(r) /\ new = {x}
    OBVIOUS
  <2>2. x \in RelRow /\ x.user = r.user /\ x.dept = r.dept
    BY <1>4, <2>1, RelationRow
  <2>3. PICK rows : rows = Put(rel, Remembered, new)
    OBVIOUS
  <2>4. IsFiniteSet(new)
    BY <2>1, FS_Singleton
  <2>5. /\ DOMAIN rows \subseteq Nat /\ IsFiniteSet(DOMAIN rows)
        /\ \A i \in DOMAIN rows : (i \in DOMAIN rel /\ rows[i] = rel[i]) \/ rows[i] \in new
        /\ (/\ OneEach(rel)
            /\ \A y \in new : Unrivalled(y, rel)
            /\ \A y, z \in new : Rivals(y, z) => y = z) => OneEach(rows)
    BY <2>3, <2>4, RowsInserted
  <2>6. SoleItem(r, rel, user) => OneEach(rel) /\ \A y \in new : Unrivalled(y, rel)
    BY <1>1, <1>6, <2>1 DEF SoleItem
  <2>7. Fine(rows)
    BY <1>1, <1>5, <2>1, <2>2, <2>5, <2>6
  <2>8. Related(r) = rows
    BY <1>6, <2>1, <2>3 DEF Related
  <2> QED BY <2>7, <2>8
<1>7. ASSUME r.rows # {} PROVE Fine(Related(r))
  <2>1. PICK rows : rows = Related(r)
    OBVIOUS
  <2>2. rows = [i \in DOMAIN rel |-> IF i \in r.rows THEN [rel[i] EXCEPT !.dept = r.dept] ELSE rel[i]]
    BY <1>7, <2>1 DEF Related
  <2>3. ASSUME NEW i \in DOMAIN rows
        PROVE  /\ i \in DOMAIN rel /\ rows[i] \in RelRow /\ rows[i].user = rel[i].user /\ rows[i].type = rel[i].type
               /\ rows[i].dept = IF i \in r.rows THEN r.dept ELSE rel[i].dept
    <3>1. i \in DOMAIN rel /\ rel[i] \in RelRow
      BY <2>2 DEF BaseInv, RelTable
    <3> QED BY <1>4, <2>2, <3>1 DEF RelRow
  <2>4. SoleItem(r, rel, user) => OneEach(rows)
    <3>1. SUFFICES ASSUME SoleItem(r, rel, user) PROVE OneEach(rows)
      OBVIOUS
    <3>2. OneEach(rel) /\ \A i \in r.rows \cap DOMAIN rel : rel[i].type = "primary"
      BY <1>1, <3>1 DEF SoleItem
    <3> QED BY <2>3, <3>2 DEF OneEach
  <2>5. DOMAIN rows = DOMAIN rel
    BY <2>2
  <2>6. Fine(rows)
    BY <1>5, <2>3, <2>4, <2>5 DEF BaseInv, RelTable
  <2> QED BY <2>1, <2>6
<1>8. Fine(rel')
  <2> HIDE DEF Fine
  <2> QED BY <1>3, <1>5, <1>6, <1>7
<1>9. RelTable'
  BY <1>1, <1>8 DEF BaseInv, RelTable
<1>10. Homed(dept, rel) /\ HomeItem(r, Live) => Homed(dept, rel')
  <2>1. SUFFICES ASSUME Homed(dept, rel), HomeItem(r, Live) PROVE Homed(dept, rel')
    OBVIOUS
  <2>2. r.dept \in Live /\ \A i \in DOMAIN rel : rel[i].dept \in Live
    BY <1>1, <2>1 DEF HomeItem, Homed, Homes, Live
  <2>3. \A i \in DOMAIN rel' : rel'[i].dept \in Live
    BY <1>8, <2>2
  <2> QED BY <2>1, <2>3 DEF Homed, Homes, Live
<1> QED BY <1>1, <1>2, <1>8, <1>9, <1>10 DEF RelateStep, SoleNow

-----------------------------------------------------------------------------
(* department_user.go: Update.                                             *)

LEMMA SeenType ==
  ASSUME NEW list \in SUBSET Nat, NEW seen \in [list -> Type]
  PROVE  seen \in Seen
BY DEF Seen

LEMMA ConvergeStartSteps ==
  ASSUME BaseInv, NEW c \in Call, ConvergeStart(c)
  PROVE  \E q : RelateStep(c, q)
<1>a. PICK d \in Dept, u \in User, t \in Type :
        LET list == {i \in DOMAIN rel : rel[i].dept = d /\ rel[i].user = u} IN
          Begin(c, [op |-> "converge", step |-> IF t = "leader" THEN "leader" ELSE "rows",
                    dept |-> d, user |-> u, type |-> t, rows |-> list, seen |-> [i \in list |-> rel[i].type],
                    target |-> \E i \in list : rel[i].type = t, new |-> {}, extra |-> {}])
  BY DEF ConvergeStart
<1>b. PICK list : list = {i \in DOMAIN rel : rel[i].dept = d /\ rel[i].user = u}
  OBVIOUS
<1>c. PICK q : q = [op |-> "converge", step |-> IF t = "leader" THEN "leader" ELSE "rows",
                    dept |-> d, user |-> u, type |-> t, rows |-> list, seen |-> [i \in list |-> rel[i].type],
                    target |-> \E i \in list : rel[i].type = t, new |-> {}, extra |-> {}]
  OBVIOUS
<1>d. Begin(c, q)
  BY <1>a, <1>b, <1>c
<1>1. /\ list = {i \in DOMAIN rel : rel[i].dept = d /\ rel[i].user = u}
      /\ q = [op |-> "converge", step |-> IF t = "leader" THEN "leader" ELSE "rows",
              dept |-> d, user |-> u, type |-> t, rows |-> list, seen |-> [i \in list |-> rel[i].type],
              target |-> \E i \in list : rel[i].type = t, new |-> {}, extra |-> {}]
      /\ Begin(c, q)
  BY <1>b, <1>c, <1>d
<1>2. /\ Ready(c) /\ UNCHANGED <<dept, unused, rel, user>>
      /\ DOMAIN rel \subseteq Nat /\ IsFiniteSet(DOMAIN rel) /\ \A i \in DOMAIN rel : rel[i] \in RelRow
  BY DEF ConvergeStart, BaseInv, RelTable
<1>3. list \subseteq Nat /\ IsFiniteSet(list) /\ IsFiniteSet({})
  BY <1>1, <1>2, FS_Subset, FS_EmptySet
<1>4. [i \in list |-> rel[i].type] \in Seen
  <2>1. [i \in list |-> rel[i].type] \in [list -> Type]
    BY <1>1, <1>2 DEF RelRow
  <2> QED BY <1>3, <2>1, SeenType
<1>5. /\ q.op = "converge" /\ q.step = IF t = "leader" THEN "leader" ELSE "rows"
      /\ q.dept = d /\ q.user = u /\ q.type = t /\ q.rows = list /\ q.extra = {}
      /\ q.target = \E i \in list : rel[i].type = t
  BY <1>1
<1>6. q \in ConvergeRequest
  BY <1>1, <1>3, <1>4 DEF ConvergeRequest
<1>7. RequestOK(q, unused, user)
  BY <1>3, <1>5, <1>6 DEF RequestOK, Request
<1>8. ASSUME OneEach(rel) PROVE SoleItem(q, rel, user)
  <2>1. OneEach(Dropping(rel, q.extra))
    BY <1>5, <1>8, NobodyDropped
  <2>2. \A i \in q.rows \cap DOMAIN rel : rel[i].dept = q.dept /\ rel[i].user = q.user
    BY <1>1, <1>5
  <2>3. ~q.target => \A i \in DOMAIN rel : rel[i] # Relation(q)
    <3>1. /\ Relation(q).dept = d /\ Relation(q).user = u /\ Relation(q).type = t
      BY <1>5 DEF Relation
    <3>2. SUFFICES ASSUME ~q.target, NEW i \in DOMAIN rel, rel[i] = Relation(q) PROVE FALSE
      OBVIOUS
    <3>3. i \in list /\ rel[i].type = t
      BY <1>1, <3>1, <3>2
    <3> QED BY <1>5, <3>2, <3>3
  <2>4. q.step # "single" /\ ~(q.type = "leader" /\ q.step = "rows")
    BY <1>5
  <2> QED BY <1>5, <2>1, <2>2, <2>3, <2>4 DEF SoleItem
<1>9. HomeItem(q, Live) /\ q.op \in Relaters
  BY <1>5 DEF HomeItem, Relaters
<1> QED BY <1>1, <1>2, <1>7, <1>8, <1>9, BeginRelates

LEMMA ConvergeIs ==
  ASSUME BaseInv, NEW c \in Call, NEW step, At(c, "converge", step)
  PROVE  /\ call[c] \in ConvergeRequest /\ call[c].op = "converge" /\ call[c].step = step
         /\ Active(c) /\ call[c].op \in Relaters
         /\ RequestOK(call[c], unused, user) /\ IsFiniteSet(call[c].rows) /\ IsFiniteSet(call[c].extra)
         /\ \A live : HomeItem(call[c], live)
         /\ SoleNow(c) <=> SoleItem(call[c], rel, user)
BY ActiveRequest, Kinds9 DEF RequestOK, Listers, Relaters, HomeItem, SoleNow

LEMMA ConvergeGoes ==
  ASSUME BaseInv, NEW c \in Call, Active(c), call[c].op = "converge", NEW q \in ConvergeRequest, Goto(c, q),
         IsFiniteSet(q.rows), IsFiniteSet(q.extra), q.step = "leader" => q.extra = {}
  PROVE  /\ q.op = "converge" /\ Moves(c, q) /\ RequestOK(q, unused, user) /\ q.op \in Relaters
         /\ \A live : HomeItem(q, live)
BY GotoMoves DEF ConvergeRequest, RequestOK, Request, Relaters, HomeItem, Listers

LEMMA ConvergeLeaderSteps ==
  ASSUME BaseInv, NEW c \in Call, ConvergeLeader(c)
  PROVE  \E q : RelateStep(c, q)
<1> DEFINE r == call[c]
<1>1. At(c, "converge", "leader") /\ UNCHANGED <<dept, unused, rel, user>>
  BY DEF ConvergeLeader
<1>2. /\ r \in ConvergeRequest /\ r.op = "converge" /\ r.step = "leader" /\ Active(c) /\ r.op \in Relaters
      /\ RequestOK(r, unused, user) /\ IsFiniteSet(r.rows) /\ IsFiniteSet(r.extra) /\ r.extra = {}
      /\ SoleNow(c) <=> SoleItem(r, rel, user)
  BY <1>1, ConvergeIs DEF RequestOK
<1>3. CASE End(c)
  <2>1. SoleItem(r, rel, user) => OneEach(rel)
    BY <1>2, NobodyDropped DEF SoleItem
  <2> QED BY <1>1, <1>2, <1>3, <2>1, EndRelates
<1>4. CASE ~OtherLeader(r.dept, r.user) /\ Go(c, "rows")
  <2>1. PICK q : q = [r EXCEPT !.step = "rows"] /\ Goto(c, q)
    BY <1>4 DEF Go
  <2>2. /\ q \in ConvergeRequest /\ q.step = "rows" /\ q.rows = r.rows /\ q.extra = r.extra /\ q.dept = r.dept
        /\ q.user = r.user /\ q.type = r.type /\ q.target = r.target
    BY <1>2, <2>1 DEF ConvergeRequest
  <2>3. q.op = "converge" /\ Moves(c, q) /\ RequestOK(q, unused, user) /\ q.op \in Relaters /\ HomeItem(q, Live)
    BY <1>2, <2>1, <2>2, ConvergeGoes
  <2>4. ASSUME SoleItem(r, rel, user) PROVE SoleItem(q, rel, user)
    <3>1. Relation(q) = Relation(r)
      BY <2>2 DEF Relation
    <3>2. /\ OneEach(Dropping(rel, r.extra))
          /\ ~r.target =>
               /\ r.extra = {}
               /\ \A i \in r.rows \cap DOMAIN rel : rel[i].dept = r.dept /\ rel[i].user = r.user
               /\ \A i \in DOMAIN rel : rel[i] # Relation(r)
      BY <1>2, <2>4 DEF SoleItem
    <3>3. ~r.target /\ r.type = "leader" => Unrivalled(Relation(r), rel)
      <4>1. SUFFICES ASSUME ~r.target, r.type = "leader", NEW i \in DOMAIN rel, Rivals(Relation(r), rel[i]) PROVE FALSE
        BY DEF Unrivalled
      <4>2. r.dept \in Dept /\ r.user \in User /\ r.type \in Type /\ rel[i] \in RelRow
        BY <1>2 DEF ConvergeRequest, BaseInv, RelTable
      <4>3. rel[i].type = r.type /\ rel[i].dept = r.dept
        BY <4>1, <4>2, RelationRow DEF Rivals
      <4>4. rel[i].user = r.user
        BY <1>4, <4>1, <4>3 DEF OtherLeader
      <4>5. rel[i] = Relation(r)
        BY <4>2, <4>3, <4>4, RelationRow
      <4> QED BY <3>2, <4>1, <4>5
    <3> QED BY <2>2, <2>3, <3>1, <3>2, <3>3 DEF SoleItem
  <2> QED BY <1>1, <1>2, <2>3, <2>4, ReadRelates
<1> QED BY <1>3, <1>4 DEF ConvergeLeader

\* What ConvergeRow makes of one row.
LEMMA ChangedRows ==
  ASSUME BaseInv, NEW r \in ConvergeRequest, NEW i, NEW rows,
         rows = IF i \in DOMAIN rel THEN [rel EXCEPT ![i].type = r.type] ELSE rel
  PROVE  /\ DOMAIN rows = DOMAIN rel
         /\ \A j \in DOMAIN rel : /\ rows[j] \in RelRow /\ rows[j].user = rel[j].user /\ rows[j].dept = rel[j].dept
                                  /\ rows[j].type = (IF j = i THEN r.type ELSE rel[j].type)
                                  /\ j # i => rows[j] = rel[j]
<1>1. r.type \in Type /\ \A j \in DOMAIN rel : rel[j] \in RelRow
  BY DEF BaseInv, RelTable, ConvergeRequest
<1> QED BY <1>1 DEF RelRow

LEMMA ConvergeRowSteps ==
  ASSUME BaseInv, NEW c \in Call, ConvergeRow(c)
  PROVE  \E q : RelateStep(c, q)
<1> DEFINE r == call[c]
<1>1. At(c, "converge", "rows") /\ UNCHANGED <<dept, unused, user>>
  BY DEF ConvergeRow
<1>2. /\ r \in ConvergeRequest /\ r.op = "converge" /\ r.step = "rows" /\ Active(c) /\ r.op \in Relaters
      /\ RequestOK(r, unused, user) /\ IsFiniteSet(r.rows) /\ IsFiniteSet(r.extra)
      /\ SoleNow(c) <=> SoleItem(r, rel, user)
      /\ user \subseteq User
  BY <1>1, ConvergeIs DEF BaseInv, RelTable
<1>3. PICK i, rest, changed :
        /\ i \in r.rows
        /\ rest = [r EXCEPT !.rows = @ \ {i}]
        /\ changed = IF i \in DOMAIN rel THEN [rel EXCEPT ![i].type = r.type] ELSE rel
        /\ \/ /\ r.seen[i] = r.type
              /\ Goto(c, rest) /\ UNCHANGED rel
           \/ /\ r.seen[i] # r.type /\ r.target
              /\ rel' = Dropping(rel, {i})
              /\ Goto(c, rest)
           \/ /\ r.seen[i] # r.type /\ ~r.target /\ Unique(changed)
              /\ rel' = changed
              /\ Goto(c, [rest EXCEPT !.target = TRUE, !.step = IF r.type = "primary" THEN "single" ELSE "rows",
                                      !.new = {i}])
           \/ /\ r.seen[i] # r.type /\ ~r.target /\ ~Unique(changed)
              /\ Break(c) /\ UNCHANGED rel
  BY DEF ConvergeRow
<1>4. /\ rest \in ConvergeRequest /\ rest.rows = r.rows \ {i} /\ rest.extra = r.extra /\ rest.step = "rows"
      /\ rest.dept = r.dept /\ rest.user = r.user /\ rest.type = r.type /\ rest.target = r.target
      /\ rest.op = "converge" /\ IsFiniteSet(rest.rows) /\ IsFiniteSet(rest.extra) /\ rest.step # "leader"
  <2>1. IsFiniteSet(r.rows \ {i})
    BY <1>2, FS_Subset
  <2> QED BY <1>2, <1>3, <2>1 DEF ConvergeRequest
<1>5. Relation(rest) = Relation(r)
  BY <1>4 DEF Relation
<1>6. CASE Goto(c, rest) /\ UNCHANGED rel
  <2>1. Moves(c, rest) /\ RequestOK(rest, unused, user) /\ rest.op \in Relaters /\ HomeItem(rest, Live)
    BY <1>2, <1>4, <1>6, ConvergeGoes
  <2>2. SoleItem(r, rel, user) => SoleItem(rest, rel, user)
    BY <1>2, <1>4, <1>5 DEF SoleItem
  <2> QED BY <1>1, <1>2, <1>4, <1>6, <2>1, <2>2, ReadRelates
<1>7. CASE r.target /\ rel' = Dropping(rel, {i}) /\ Goto(c, rest)
  <2>1. Moves(c, rest) /\ RequestOK(rest, unused, user) /\ rest.op \in Relaters /\ HomeItem(rest, Live)
    BY <1>2, <1>4, <1>7, ConvergeGoes
  <2>2. SoleItem(r, rel, user) => SoleItem(rest, rel', user')
    <3>1. OneEach(Dropping(rel, r.extra)) => OneEach(Dropping(rel', r.extra))
      <4>1. DOMAIN rel' \subseteq DOMAIN rel /\ \A j \in DOMAIN rel' : rel'[j] = rel[j]
        BY <1>7 DEF Dropping
      <4> QED BY <4>1, SoleWithout
    <3> QED BY <1>2, <1>4, <1>7, <3>1 DEF SoleItem
  <2>3. RelTable' /\ (Homed(dept, rel) => Homed(dept, rel'))
    BY <1>1, <1>2, <1>7, DroppedRel
  <2> QED BY <1>1, <1>2, <1>4, <2>1, <2>2, <2>3 DEF RelateStep
<1>8. CASE ~r.target /\ rel' = changed /\ Goto(c, [rest EXCEPT !.target = TRUE,
             !.step = IF r.type = "primary" THEN "single" ELSE "rows", !.new = {i}])
  <2>1. PICK q : /\ q = [rest EXCEPT !.target = TRUE, !.step = IF r.type = "primary" THEN "single" ELSE "rows",
                                     !.new = {i}]
                 /\ Goto(c, q)
    BY <1>8
  <2>2. i \in Nat
    BY <1>2, <1>3 DEF ConvergeRequest
  <2>3. /\ q \in ConvergeRequest /\ q.rows = rest.rows /\ q.extra = r.extra /\ q.target = TRUE /\ q.new = {i}
        /\ q.step = (IF r.type = "primary" THEN "single" ELSE "rows") /\ q.user = r.user /\ q.dept = r.dept
        /\ q.type = r.type /\ q.op = "converge" /\ q.step # "leader"
    BY <1>4, <2>1, <2>2 DEF ConvergeRequest
  <2>4. Moves(c, q) /\ RequestOK(q, unused, user) /\ q.op \in Relaters /\ HomeItem(q, Live)
    BY <1>2, <1>4, <2>1, <2>3, ConvergeGoes
  <2>5. /\ DOMAIN rel' = DOMAIN rel
        /\ \A j \in DOMAIN rel : /\ rel'[j] \in RelRow /\ rel'[j].user = rel[j].user /\ rel'[j].dept = rel[j].dept
                                 /\ rel'[j].type = (IF j = i THEN r.type ELSE rel[j].type)
                                 /\ j # i => rel'[j] = rel[j]
    <3>1. changed = IF i \in DOMAIN rel THEN [rel EXCEPT ![i].type = r.type] ELSE rel
      BY <1>3
    <3> HIDE DEF r
    <3> QED BY <1>2, <1>8, <3>1, ChangedRows
  <2>6. RelTable'
    BY <1>1, <2>5 DEF BaseInv, RelTable
  <2>7. Homed(dept, rel) => Homed(dept, rel')
    BY <2>5 DEF Homed, Homes
  <2>8. ASSUME SoleItem(r, rel, user) PROVE SoleItem(q, rel', user')
    <3>1. /\ OneEach(rel) /\ r.extra = {}
          /\ \A j \in r.rows \cap DOMAIN rel : rel[j].dept = r.dept /\ rel[j].user = r.user
          /\ r.type = "leader" => Unrivalled(Relation(r), rel)
      BY <1>2, <1>8, <2>8, NobodyDropped DEF SoleItem
    <3>2. PICK gone : gone = IF r.type = "primary" THEN PrimariesOf(q.user, rel') \ q.new ELSE {}
      OBVIOUS
    <3>3. ASSUME NEW j \in DOMAIN rel' \ gone, NEW k \in DOMAIN rel' \ gone, Rivals(rel'[j], rel'[k]), j = i, k # i
          PROVE  FALSE
      <4>1. rel'[j].user = r.user /\ rel'[j].dept = r.dept /\ rel'[j].type = r.type /\ rel'[k] = rel[k]
        BY <1>3, <2>5, <3>1, <3>3
      <4>2. CASE r.type = "primary"
        BY <2>3, <2>5, <3>2, <3>3, <4>1, <4>2 DEF Rivals, PrimariesOf
      <4>3. CASE r.type = "leader"
        <5>1. Rivals(Relation(r), rel[k])
          BY <3>3, <4>1, <4>3 DEF Rivals, Relation
        <5> QED BY <2>5, <3>1, <3>3, <4>3, <5>1 DEF Unrivalled
      <4> QED BY <3>3, <4>1, <4>2, <4>3 DEF Rivals
    <3>4. ASSUME NEW j \in DOMAIN rel' \ gone, NEW k \in DOMAIN rel' \ gone, Rivals(rel'[j], rel'[k]) PROVE j = k
      <4>1. CASE j # i /\ k # i
        BY <2>5, <3>1, <3>4, <4>1 DEF OneEach, Rivals
      <4>2. Rivals(rel'[k], rel'[j])
        BY <3>4 DEF Rivals
      <4> QED BY <3>3, <3>4, <4>1, <4>2
    <3>5. OneEach(Dropping(rel', gone))
      BY <3>4 DEF OneEach, Dropping, Rivals
    <3> QED BY <2>3, <3>1, <3>2, <3>5 DEF SoleItem
  <2> QED BY <1>1, <1>2, <2>3, <2>4, <2>6, <2>7, <2>8 DEF RelateStep
<1>9. CASE Break(c) /\ UNCHANGED rel
  BY <1>1, <1>2, <1>9, EndRelates
<1> QED BY <1>3, <1>6, <1>7, <1>8, <1>9

LEMMA SinglePrimarySteps ==
  ASSUME BaseInv, NEW c \in Call, SinglePrimary(c)
  PROVE  \E q : RelateStep(c, q)
<1> DEFINE r == call[c]
<1>1. /\ At(c, "converge", "single") /\ UNCHANGED <<dept, unused, rel, user>>
      /\ DOMAIN rel \subseteq Nat /\ IsFiniteSet(DOMAIN rel)
  BY DEF SinglePrimary, BaseInv, RelTable
<1>2. /\ r \in ConvergeRequest /\ r.op = "converge" /\ r.step = "single" /\ Active(c) /\ r.op \in Relaters
      /\ RequestOK(r, unused, user) /\ IsFiniteSet(r.rows)
      /\ SoleNow(c) <=> SoleItem(r, rel, user)
  BY <1>1, ConvergeIs
<1>3. PICK gone, q : /\ gone = PrimariesOf(r.user, rel) \ r.new
                     /\ q = [r EXCEPT !.step = "rows", !.extra = gone] /\ Goto(c, q)
  BY DEF SinglePrimary, RowsOf, PrimariesOf
<1>4. gone \subseteq Nat /\ IsFiniteSet(gone)
  BY <1>1, <1>3, FS_Subset DEF PrimariesOf
<1>5. /\ q \in ConvergeRequest /\ q.step = "rows" /\ q.extra = gone /\ q.rows = r.rows /\ q.target = r.target
  BY <1>2, <1>3, <1>4 DEF ConvergeRequest
<1>6. q.op = "converge" /\ Moves(c, q) /\ RequestOK(q, unused, user) /\ q.op \in Relaters /\ HomeItem(q, Live)
  BY <1>2, <1>3, <1>4, <1>5, ConvergeGoes
<1>7. SoleItem(r, rel, user) => SoleItem(q, rel, user)
  BY <1>2, <1>3, <1>5, <1>6 DEF SoleItem
<1> QED BY <1>1, <1>2, <1>6, <1>7, ReadRelates

LEMMA ConvergeCommitSteps ==
  ASSUME BaseInv, NEW c \in Call, ConvergeCommit(c)
  PROVE  \E q : RelateStep(c, q)
<1> DEFINE r == call[c]
<1>1. At(c, "converge", "rows") /\ UNCHANGED <<dept, unused, user>> /\ rel' = Dropping(rel, r.extra) /\ End(c)
  BY DEF ConvergeCommit
<1>2. /\ r.op = "converge" /\ r.step = "rows" /\ Active(c) /\ r.op \in Relaters
      /\ SoleNow(c) <=> SoleItem(r, rel, user)
      /\ user \subseteq User
  BY <1>1, ConvergeIs DEF BaseInv, RelTable
<1>3. Moves(c, Idle) /\ RequestOK(Idle, unused, user) /\ Idle.op = "idle" /\ HomeItem(Idle, Live)
  BY <1>1, <1>2, EndMoves, IdleOK, IdleHomes
<1>4. RelTable' /\ (Homed(dept, rel) => Homed(dept, rel'))
  BY <1>1, <1>2, DroppedRel
<1>5. SoleItem(r, rel, user) => OneEach(rel')
  BY <1>1, <1>2 DEF SoleItem
<1> QED BY <1>1, <1>2, <1>3, <1>4, <1>5 DEF RelateStep

LEMMA ConvergeBreaksSteps ==
  ASSUME BaseInv, NEW c \in Call, ConvergeBreaks(c)
  PROVE  \E q : RelateStep(c, q)
BY ConvergeIs, EndRelates DEF ConvergeBreaks

-----------------------------------------------------------------------------
(* department_user.go: Delete.                                             *)

LEMMA RemoveStartSteps ==
  ASSUME BaseInv, NEW c \in Call, RemoveStart(c)
  PROVE  \E q : RelateStep(c, q)
<1>1. PICK d \in Dept, u \in User :
        Begin(c, [op |-> "remove", step |-> "rows", rows |-> {i \in DOMAIN rel : rel[i].dept = d /\ rel[i].user = u}])
  BY DEF RemoveStart
<1>2. PICK list : list = {i \in DOMAIN rel : rel[i].dept = d /\ rel[i].user = u}
  OBVIOUS
<1>3. PICK q : q = [op |-> "remove", step |-> "rows", rows |-> list]
  OBVIOUS
<1>4. Ready(c) /\ Begin(c, q) /\ UNCHANGED <<dept, unused, rel, user>>
  BY <1>1, <1>2, <1>3 DEF RemoveStart
<1>5. list \subseteq Nat /\ IsFiniteSet(list)
  BY <1>2, FS_Subset DEF BaseInv, RelTable
<1>6. RequestOK(q, unused, user)
  BY <1>3, <1>5 DEF RequestOK, Request, RemoveRequest
<1>7. q.op \in Relaters /\ HomeItem(q, Live) /\ (OneEach(rel) => SoleItem(q, rel, user))
  BY <1>3 DEF Relaters, HomeItem, SoleItem
<1> QED BY <1>4, <1>6, <1>7, BeginRelates

LEMMA RemoveIs ==
  ASSUME BaseInv, NEW c \in Call, At(c, "remove", "rows")
  PROVE  /\ call[c] \in RemoveRequest /\ call[c].op = "remove" /\ Active(c) /\ call[c].op \in Relaters
         /\ IsFiniteSet(call[c].rows)
         /\ SoleNow(c) <=> OneEach(rel)
BY ActiveRequest, Kinds9 DEF RequestOK, Listers, Relaters, SoleNow, SoleItem

LEMMA RemoveRowSteps ==
  ASSUME BaseInv, NEW c \in Call, RemoveRow(c)
  PROVE  \E q : RelateStep(c, q)
<1> DEFINE r == call[c]
<1>1. At(c, "remove", "rows") /\ UNCHANGED <<dept, unused, user>> /\ user \subseteq User
  BY DEF RemoveRow, BaseInv, RelTable
<1>2. /\ r \in RemoveRequest /\ r.op = "remove" /\ Active(c) /\ r.op \in Relaters /\ IsFiniteSet(r.rows)
      /\ SoleNow(c) <=> OneEach(rel)
  BY <1>1, RemoveIs
<1>3. PICK i \in r.rows :
        /\ rel' = Dropping(rel, {i})
        /\ IF r.rows = {i} THEN End(c) ELSE Goto(c, [r EXCEPT !.rows = @ \ {i}])
  BY DEF RemoveRow
<1>4. RelTable' /\ (Homed(dept, rel) => Homed(dept, rel')) /\ (OneEach(rel) => OneEach(rel'))
  BY <1>1, <1>3, DroppedRel, FewerRows
<1>5. CASE End(c)
  <2>1. Moves(c, Idle) /\ RequestOK(Idle, unused, user) /\ Idle.op = "idle" /\ HomeItem(Idle, Live)
    BY <1>2, <1>5, EndMoves, IdleOK, IdleHomes
  <2> QED BY <1>1, <1>2, <1>4, <2>1 DEF RelateStep
<1>6. CASE Goto(c, [r EXCEPT !.rows = @ \ {i}])
  <2>1. PICK q : q = [r EXCEPT !.rows = @ \ {i}] /\ Goto(c, q)
    BY <1>6
  <2>2. IsFiniteSet(r.rows \ {i})
    BY <1>2, FS_Subset
  <2>3. q \in RemoveRequest /\ q.op = "remove" /\ q.rows = r.rows \ {i}
    BY <1>2, <2>1 DEF RemoveRequest
  <2>4. RequestOK(q, unused, user) /\ q.op \in Relaters /\ HomeItem(q, Live)
    BY <2>2, <2>3 DEF RequestOK, Request, Relaters, HomeItem
  <2>5. OneEach(rel') => SoleItem(q, rel', user')
    BY <2>3 DEF SoleItem
  <2>6. Moves(c, q)
    BY <1>2, <2>1, <2>3, GotoMoves
  <2> QED BY <1>1, <1>2, <1>4, <2>3, <2>4, <2>5, <2>6 DEF RelateStep
<1> QED BY <1>3, <1>5, <1>6

LEMMA RemoveBreaksSteps ==
  ASSUME BaseInv, NEW c \in Call, RemoveBreaks(c)
  PROVE  \E q : RelateStep(c, q)
BY RemoveIs, EndRelates DEF RemoveBreaks

-----------------------------------------------------------------------------
(* user.go: Update and Create.                                             *)

\* A set of one element, or none.
LEMMA AtMostOne ==
  ASSUME NEW S, \A d, e \in S : d = e
  PROVE  S = {} \/ \E d \in S : S = {d}
OBVIOUS

LEMMA PlaceStartSteps ==
  ASSUME BaseInv, NEW c \in Call, PlaceStart(c)
  PROVE  \E q : RelateStep(c, q)
<1>1. PICK u \in user, t \in Type, to \in {{d} : d \in Live} \cup {{}} :
        Begin(c, [op |-> "place", step |-> "read", to |-> to, user |-> u, type |-> t, rows |-> {}])
  BY DEF PlaceStart
<1>2. PICK q : q = [op |-> "place", step |-> "read", to |-> to, user |-> u, type |-> t, rows |-> {}]
  OBVIOUS
<1>3. Ready(c) /\ Begin(c, q) /\ UNCHANGED <<dept, unused, rel, user>>
  BY <1>1, <1>2 DEF PlaceStart
<1>4. u \in User /\ to \subseteq Dept /\ to \subseteq Live /\ \A d, e \in to : d = e
  BY DEF BaseInv, DeptTable, RelTable
<1>5. RequestOK(q, unused, user)
  BY <1>2, <1>4, FS_EmptySet DEF RequestOK, Request, PlaceRequest
<1>6. q.op \in Relaters /\ HomeItem(q, Live) /\ (OneEach(rel) => SoleItem(q, rel, user))
  BY <1>2, <1>4 DEF Relaters, HomeItem, SoleItem
<1> QED BY <1>3, <1>5, <1>6, BeginRelates

LEMMA PlaceIs ==
  ASSUME BaseInv, NEW c \in Call, NEW step, At(c, "place", step)
  PROVE  /\ call[c] \in PlaceRequest /\ call[c].op = "place" /\ call[c].step = step
         /\ Active(c) /\ call[c].op \in Relaters
         /\ RequestOK(call[c], unused, user) /\ IsFiniteSet(call[c].rows) /\ call[c].user \in user
         /\ \A d, e \in call[c].to : d = e
         /\ SoleNow(c) <=> SoleItem(call[c], rel, user)
BY ActiveRequest, Kinds9 DEF RequestOK, Listers, Relaters, SoleNow

\* It goes on, with the same target.
LEMMA PlaceGoes ==
  ASSUME BaseInv, NEW c \in Call, Active(c), call[c].op = "place", RequestOK(call[c], unused, user),
         UNCHANGED <<dept, unused, rel, user>>,
         NEW q \in PlaceRequest, Goto(c, q), IsFiniteSet(q.rows), q.to = call[c].to, q.user = call[c].user,
         SoleItem(call[c], rel, user) => SoleItem(q, rel, user)
  PROVE  RelateStep(c, q)
<1>1. q.op = "place" /\ Moves(c, q)
  BY GotoMoves DEF PlaceRequest
<1>2. RequestOK(q, unused, user)
  BY <1>1 DEF RequestOK, Request, Listers
<1>3. HomeItem(call[c], Live) => HomeItem(q, Live)
  BY <1>1 DEF HomeItem
<1> QED BY <1>1, <1>2, <1>3, ReadRelates DEF Relaters, SoleNow

LEMMA PlaceReadSteps ==
  ASSUME BaseInv, NEW c \in Call, PlaceRead(c)
  PROVE  \E q : RelateStep(c, q)
<1> DEFINE r == call[c]
<1>1. At(c, "place", "read") /\ UNCHANGED <<dept, unused, rel, user>>
  BY DEF PlaceRead
<1>2. /\ r \in PlaceRequest /\ r.op = "place" /\ r.step = "read" /\ Active(c)
      /\ RequestOK(r, unused, user)
  BY <1>1, PlaceIs
<1>3. PICK list, q : /\ list = RowsOf(r.user, r.type)
                     /\ q = [r EXCEPT !.step = IF r.type = "leader" THEN "leader" ELSE "commit", !.rows = list]
                     /\ Goto(c, q)
  BY DEF PlaceRead
<1>4. list \subseteq Nat /\ IsFiniteSet(list)
  BY <1>3, FS_Subset DEF RowsOf, BaseInv, RelTable
<1>5. /\ q \in PlaceRequest /\ q.op = "place" /\ q.rows = list /\ q.to = r.to /\ q.user = r.user /\ q.type = r.type
      /\ q.step = IF r.type = "leader" THEN "leader" ELSE "commit"
  BY <1>2, <1>3, <1>4 DEF PlaceRequest
<1>6. SoleItem(r, rel, user) => SoleItem(q, rel, user)
  BY <1>2, <1>3, <1>5 DEF SoleItem, RowsOf
<1> QED BY <1>1, <1>2, <1>3, <1>4, <1>5, <1>6, PlaceGoes

LEMMA PlaceLeaderSteps ==
  ASSUME BaseInv, NEW c \in Call, PlaceLeader(c)
  PROVE  \E q : RelateStep(c, q)
<1> DEFINE r == call[c]
<1>1. At(c, "place", "leader") /\ UNCHANGED <<dept, unused, rel, user>>
  BY DEF PlaceLeader
<1>2. /\ r \in PlaceRequest /\ r.op = "place" /\ r.step = "leader" /\ Active(c) /\ r.op \in Relaters
      /\ RequestOK(r, unused, user) /\ IsFiniteSet(r.rows)
  BY <1>1, PlaceIs
<1>3. CASE End(c)
  <2>1. SoleItem(r, rel, user) => OneEach(rel)
    BY <1>2 DEF SoleItem
  <2> QED BY <1>1, <1>2, <1>3, <2>1, EndRelates
<1>4. CASE ~(\E d \in r.to : OtherLeader(d, r.user)) /\ Go(c, "commit")
  <2>1. PICK q : q = [r EXCEPT !.step = "commit"] /\ Goto(c, q)
    BY <1>4 DEF Go
  <2>2. /\ q \in PlaceRequest /\ q.op = "place" /\ q.rows = r.rows /\ q.to = r.to /\ q.user = r.user
        /\ q.type = r.type /\ q.step = "commit"
    BY <1>2, <2>1 DEF PlaceRequest
  <2>3. \A i \in DOMAIN rel : rel[i].type = "leader" /\ rel[i].dept \in r.to => rel[i].user = r.user
    BY <1>4 DEF OtherLeader
  <2>4. SoleItem(r, rel, user) => SoleItem(q, rel, user)
    BY <1>2, <2>2, <2>3 DEF SoleItem
  <2> QED BY <1>1, <1>2, <2>1, <2>2, <2>4, PlaceGoes
<1> QED BY <1>3, <1>4 DEF PlaceLeader

LEMMA PlaceCommitSteps ==
  ASSUME BaseInv, NEW c \in Call, PlaceCommit(c)
  PROVE  \E q : RelateStep(c, q)
<1> DEFINE r == call[c]
<1>1. At(c, "place", "commit") /\ UNCHANGED <<dept, unused, user>> /\ End(c)
  BY DEF PlaceCommit
<1>2. /\ r \in PlaceRequest /\ r.op = "place" /\ r.step = "commit" /\ Active(c) /\ r.op \in Relaters
      /\ r.user \in user /\ \A d, e \in r.to : d = e
      /\ SoleNow(c) <=> SoleItem(r, rel, user)
  BY <1>1, PlaceIs
<1>3. Moves(c, Idle) /\ RequestOK(Idle, unused, user) /\ Idle.op = "idle" /\ HomeItem(Idle, Live)
  BY <1>1, <1>2, EndMoves, IdleOK, IdleHomes
<1>4. r.to \subseteq Dept /\ r.user \in User /\ r.type \in Type
  BY <1>2 DEF PlaceRequest
<1>5. PICK kept, new, rows : /\ kept = Dropping(rel, r.rows)
                             /\ new = {[dept |-> d, user |-> r.user, type |-> r.type] : d \in r.to}
                             /\ rows = Put(kept, Remembered, new)
  OBVIOUS
<1>6. DOMAIN kept = DOMAIN rel \ r.rows /\ \A i \in DOMAIN kept : kept[i] = rel[i]
  BY <1>5 DEF Dropping
<1>7. \A x \in new : x \in RelRow /\ x.user = r.user /\ x.type = r.type /\ x.dept \in r.to
  BY <1>4, <1>5 DEF RelRow
<1>8. IsFiniteSet(new) /\ \A x, y \in new : x = y
  <2>1. CASE r.to = {}
    BY <1>5, <2>1, FS_EmptySet
  <2>2. CASE \E d \in r.to : r.to = {d}
    <3>1. PICK d \in r.to : r.to = {d}
      BY <2>2
    <3>2. PICK x : x = [dept |-> d, user |-> r.user, type |-> r.type]
      OBVIOUS
    <3>3. new = {x}
      BY <1>5, <3>1, <3>2
    <3> QED BY <3>3, FS_Singleton
  <2> QED BY <1>2, <2>1, <2>2, AtMostOne
<1>9. /\ DOMAIN rows \subseteq Nat /\ IsFiniteSet(DOMAIN rows)
      /\ \A i \in DOMAIN rows : (i \in DOMAIN rel /\ rows[i] = rel[i]) \/ rows[i] \in new
      /\ (/\ OneEach(kept)
          /\ \A x \in new : Unrivalled(x, kept)
          /\ \A x, y \in new : Rivals(x, y) => x = y) => OneEach(rows)
  BY <1>5, <1>6, <1>8, RowsInserted
<1>10. ASSUME SoleItem(r, rel, user) PROVE OneEach(rows)
  <2>1. /\ OneEach(rel)
        /\ \A i \in DOMAIN rel : rel[i].user = r.user /\ rel[i].type = r.type => i \in r.rows
        /\ r.type = "leader" =>
             \A i \in DOMAIN rel : rel[i].type = "leader" /\ rel[i].dept \in r.to => rel[i].user = r.user
    BY <1>2, <1>10 DEF SoleItem
  <2>2. OneEach(kept)
    BY <1>5, <2>1, FewerRows
  <2>3. ASSUME NEW x \in new, NEW i \in DOMAIN kept, Rivals(x, kept[i]) PROVE FALSE
    <3>1. i \in DOMAIN rel /\ i \notin r.rows /\ rel[i].type = r.type
      BY <1>6, <1>7, <2>3 DEF Rivals
    <3>2. rel[i].user # r.user
      BY <2>1, <3>1
    <3> QED BY <1>6, <1>7, <2>1, <2>3, <3>1, <3>2 DEF Rivals
  <2> QED BY <1>8, <1>9, <2>2, <2>3 DEF Unrivalled
<1>11. rel' \in {rel, rows}
  BY <1>5 DEF PlaceCommit, Commits, Placed
<1>12. RelTable'
  BY <1>1, <1>2, <1>7, <1>9, <1>11 DEF BaseInv, RelTable
<1>13. SoleItem(r, rel, user) => OneEach(rel')
  BY <1>2, <1>10, <1>11 DEF SoleItem
<1>14. ASSUME Homed(dept, rel), HomeItem(r, Live) PROVE Homed(dept, rel')
  <2>1. r.to \subseteq Live /\ \A i \in DOMAIN rel : rel[i].dept \in Live
    BY <1>2, <1>14 DEF HomeItem, Homed, Homes, Live
  <2>2. \A i \in DOMAIN rel' : rel'[i].dept \in Live
    BY <1>7, <1>9, <1>11, <2>1
  <2> QED BY <1>14, <2>2 DEF Homed, Homes, Live
<1> QED BY <1>1, <1>2, <1>3, <1>12, <1>13, <1>14 DEF RelateStep

LEMMA HireStartSteps ==
  ASSUME BaseInv, NEW c \in Call, HireStart(c)
  PROVE  \E q : RelateStep(c, q)
<1>1. PICK u \in User \ user, d \in Live, lead \in {{l} : l \in Live} \cup {{}} :
        Begin(c, [op |-> "hire", step |-> IF lead = {} THEN "commit" ELSE "leader",
                  dept |-> d, lead |-> lead, user |-> u])
  BY DEF HireStart
<1>2. PICK q : q = [op |-> "hire", step |-> IF lead = {} THEN "commit" ELSE "leader",
                    dept |-> d, lead |-> lead, user |-> u]
  OBVIOUS
<1>3. Ready(c) /\ Begin(c, q) /\ UNCHANGED <<dept, unused, rel, user>>
  BY <1>1, <1>2 DEF HireStart
<1>4. d \in Dept /\ lead \subseteq Dept /\ lead \subseteq Live /\ \A x, y \in lead : x = y
  BY DEF BaseInv, DeptTable
<1>5. RequestOK(q, unused, user)
  BY <1>2, <1>4 DEF RequestOK, Request, HireRequest, Listers
<1>6. q.op \in Relaters /\ HomeItem(q, Live) /\ (OneEach(rel) => SoleItem(q, rel, user))
  BY <1>2, <1>4 DEF Relaters, HomeItem, SoleItem
<1> QED BY <1>3, <1>5, <1>6, BeginRelates

LEMMA HireIs ==
  ASSUME BaseInv, NEW c \in Call, NEW step, At(c, "hire", step)
  PROVE  /\ call[c] \in HireRequest /\ call[c].op = "hire" /\ call[c].step = step
         /\ Active(c) /\ call[c].op \in Relaters
         /\ RequestOK(call[c], unused, user) /\ \A d, e \in call[c].lead : d = e
         /\ SoleNow(c) <=> SoleItem(call[c], rel, user)
BY ActiveRequest, Kinds9 DEF RequestOK, Relaters, SoleNow

LEMMA HireLeaderSteps ==
  ASSUME BaseInv, NEW c \in Call, HireLeader(c)
  PROVE  \E q : RelateStep(c, q)
<1> DEFINE r == call[c]
<1>1. At(c, "hire", "leader") /\ UNCHANGED <<dept, unused, rel, user>>
  BY DEF HireLeader
<1>2. /\ r \in HireRequest /\ r.op = "hire" /\ r.step = "leader" /\ Active(c) /\ r.op \in Relaters
      /\ RequestOK(r, unused, user)
      /\ SoleNow(c) <=> SoleItem(r, rel, user)
  BY <1>1, HireIs
<1>3. CASE End(c)
  <2>1. SoleItem(r, rel, user) => OneEach(rel)
    BY <1>2 DEF SoleItem
  <2> QED BY <1>1, <1>2, <1>3, <2>1, EndRelates
<1>4. CASE ~(\E d \in r.lead : OtherLeader(d, r.user)) /\ Go(c, "commit")
  <2>1. PICK q : q = [r EXCEPT !.step = "commit"] /\ Goto(c, q)
    BY <1>4 DEF Go
  <2>2. /\ q \in HireRequest /\ q.op = "hire" /\ q.lead = r.lead /\ q.user = r.user /\ q.dept = r.dept
        /\ q.step = "commit"
    BY <1>2, <2>1 DEF HireRequest
  <2>3. RequestOK(q, unused, user) /\ q.op \in Relaters
    BY <1>2, <2>2 DEF RequestOK, Request, Relaters, Listers
  <2>4. SoleItem(r, rel, user) => SoleItem(q, rel, user)
    <3>1. \A i \in DOMAIN rel : rel[i].type = "leader" /\ rel[i].dept \in r.lead => rel[i].user = r.user
      BY <1>4 DEF OtherLeader
    <3>2. \A i \in DOMAIN rel : rel[i].user \in user
      BY DEF BaseInv, RelTable
    <3> QED BY <1>2, <2>2, <3>1, <3>2 DEF SoleItem
  <2>5. HomeItem(r, Live) => HomeItem(q, Live)
    BY <1>2, <2>2 DEF HomeItem
  <2>6. Moves(c, q)
    BY <1>2, <2>1, <2>2, GotoMoves
  <2> QED BY <1>1, <1>2, <2>2, <2>3, <2>4, <2>5, <2>6, ReadRelates
<1> QED BY <1>3, <1>4 DEF HireLeader

LEMMA HireCommitSteps ==
  ASSUME BaseInv, NEW c \in Call, HireCommit(c)
  PROVE  \E q : RelateStep(c, q)
<1> DEFINE r == call[c]
<1>1. At(c, "hire", "commit") /\ UNCHANGED <<dept, unused>> /\ End(c) /\ user' = user \cup {r.user}
  BY DEF HireCommit
<1>2. /\ r \in HireRequest /\ r.op = "hire" /\ r.step = "commit" /\ Active(c) /\ r.op \in Relaters
      /\ \A d, e \in r.lead : d = e
      /\ SoleNow(c) <=> SoleItem(r, rel, user)
  BY <1>1, HireIs
<1>3. Moves(c, Idle) /\ RequestOK(Idle, unused, user') /\ Idle.op = "idle" /\ HomeItem(Idle, Live)
  BY <1>1, <1>2, EndMoves, IdleOK, IdleHomes
<1>4. r.dept \in Dept /\ r.lead \subseteq Dept /\ r.user \in User
  BY <1>2 DEF HireRequest
<1>5. PICK own, led, new, rows :
        /\ own = [dept |-> r.dept, user |-> r.user, type |-> "primary"]
        /\ led = {[dept |-> d, user |-> r.user, type |-> "leader"] : d \in r.lead}
        /\ new = {own} \cup led
        /\ rows = Put(rel, Remembered, new)
  OBVIOUS
<1>6. /\ \A x \in led : x \in RelRow /\ x.user = r.user /\ x.type = "leader" /\ x.dept \in r.lead
      /\ own \in RelRow /\ own.user = r.user /\ own.type = "primary" /\ own.dept = r.dept
  BY <1>4, <1>5 DEF RelRow, Type
<1>7. IsFiniteSet(new) /\ \A x, y \in led : x = y
  <2>1. IsFiniteSet(led) /\ \A x, y \in led : x = y
    <3>1. CASE r.lead = {}
      BY <1>5, <3>1, FS_EmptySet
    <3>2. CASE \E d \in r.lead : r.lead = {d}
      <4>1. PICK d \in r.lead : r.lead = {d}
        BY <3>2
      <4>2. PICK x : x = [dept |-> d, user |-> r.user, type |-> "leader"]
        OBVIOUS
      <4>3. led = {x}
        BY <1>5, <4>1, <4>2
      <4> QED BY <4>3, FS_Singleton
    <3> QED BY <1>2, <3>1, <3>2, AtMostOne
  <2>2. IsFiniteSet({own})
    BY FS_Singleton
  <2> QED BY <1>5, <2>1, <2>2, FS_Union
<1>8. /\ DOMAIN rows \subseteq Nat /\ IsFiniteSet(DOMAIN rows)
      /\ \A i \in DOMAIN rows : (i \in DOMAIN rel /\ rows[i] = rel[i]) \/ rows[i] \in new
      /\ (/\ OneEach(rel)
          /\ \A x \in new : Unrivalled(x, rel)
          /\ \A x, y \in new : Rivals(x, y) => x = y) => OneEach(rows)
  BY <1>5, <1>7, RowsInserted
<1>9. rel' = rows
  BY <1>5 DEF HireCommit, Hired
<1>10. \A x \in new : x \in RelRow /\ x.user = r.user /\ (x.dept = r.dept \/ x.dept \in r.lead)
  BY <1>5, <1>6
<1>11. \A x, y \in new : Rivals(x, y) => x = y
  <2>1. SUFFICES ASSUME NEW x \in new, NEW y \in new, x.type = y.type PROVE x = y
    BY DEF Rivals
  <2> QED BY <1>5, <1>6, <1>7, <2>1
<1>12. ASSUME SoleItem(r, rel, user) PROVE OneEach(rel')
  <2>1. /\ OneEach(rel) /\ r.user \notin user
        /\ \A i \in DOMAIN rel : ~(rel[i].type = "leader" /\ rel[i].dept \in r.lead)
    BY <1>2, <1>12 DEF SoleItem
  <2>2. \A i \in DOMAIN rel : rel[i].user # r.user
    BY <2>1 DEF BaseInv, RelTable
  <2>3. ASSUME NEW x \in new, NEW i \in DOMAIN rel, Rivals(x, rel[i]) PROVE FALSE
    BY <1>5, <1>6, <2>1, <2>2, <2>3 DEF Rivals
  <2> QED BY <1>8, <1>9, <1>11, <2>1, <2>3 DEF Unrivalled
<1>13. RelTable'
  BY <1>1, <1>4, <1>8, <1>9, <1>10 DEF BaseInv, RelTable
<1>14. ASSUME Homed(dept, rel), HomeItem(r, Live) PROVE Homed(dept, rel')
  <2>1. r.dept \in Live /\ r.lead \subseteq Live /\ \A i \in DOMAIN rel : rel[i].dept \in Live
    BY <1>2, <1>14 DEF HomeItem, Homed, Homes, Live
  <2>2. \A i \in DOMAIN rel' : rel'[i].dept \in Live
    BY <1>8, <1>9, <1>10, <2>1
  <2> QED BY <1>14, <2>2 DEF Homed, Homes, Live
<1> QED BY <1>1, <1>2, <1>3, <1>12, <1>13, <1>14 DEF RelateStep

-----------------------------------------------------------------------------
(* The steps of requests about the tree, and what the request has learnt.  *)

TreeStep(c, q) ==
  /\ Moves(c, q)
  /\ DeptTable' /\ RelTable' /\ unused' \subseteq unused /\ user' = user
  /\ RequestOK(q, unused', user)
  /\ call[c].op \in Trees \cup {"idle"} /\ q.op \in Trees \cup {"idle"}
  /\ DOMAIN rel' \subseteq DOMAIN rel /\ \A i \in DOMAIN rel' : rel'[i] = rel[i]

LEMMA ReadTree ==
  ASSUME BaseInv, NEW c \in Call, NEW q, Moves(c, q), UNCHANGED <<dept, unused, rel, user>>,
         RequestOK(q, unused, user), call[c].op \in Trees \cup {"idle"}, q.op \in Trees \cup {"idle"}
  PROVE  TreeStep(c, q)
BY DEF TreeStep, DeptTable, Live, RelTable, BaseInv

LEMMA BeginTree ==
  ASSUME BaseInv, NEW c \in Call, NEW q, Ready(c), Begin(c, q), UNCHANGED <<dept, unused, rel, user>>,
         RequestOK(q, unused, user), q.op \in Trees
  PROVE  TreeStep(c, q) /\ call[c].op = "idle"
BY BeginMoves, ReadTree DEF Ready, Active

LEMMA EndTree ==
  ASSUME BaseInv, NEW c \in Call, Active(c), call[c].op \in Trees, UNCHANGED <<dept, unused, rel, user>>,
         End(c) \/ Break(c)
  PROVE  TreeStep(c, Idle)
BY EndMoves, BreakMoves, IdleOK, ReadTree

LEMMA TreeIs ==
  ASSUME BaseInv, NEW c \in Call, NEW op \in Trees, NEW step, At(c, op, step)
  PROVE  /\ Active(c) /\ call[c].op = op /\ call[c].step = step /\ call[c].op \in Trees
         /\ RequestOK(call[c], unused, user)
         /\ op = "create" => call[c] \in CreateRequest
         /\ op = "move" => call[c] \in MoveRequest
         /\ op = "delete" => call[c] \in DeleteRequest /\ IsFiniteSet(call[c].rows)
BY ActiveRequest, Kinds9 DEF RequestOK, Listers

LEMMA DeptRows ==
  ASSUME BaseInv, NEW d \in Live
  PROVE  /\ d \in Dept /\ d \notin unused /\ dept[d] \in DeptRow /\ dept[d].parent \notin unused
         /\ dept[d].parent \in Parent /\ dept[d].path \in Seq(Dept) /\ dept[d].depth \in Int
BY DEF BaseInv, DeptTable, DeptRow

LEMMA AppendPath ==
  ASSUME NEW s \in Seq(Dept), NEW d \in Dept
  PROVE  /\ Append(s, d) \in Seq(Dept) /\ Len(Append(s, d)) = Len(s) + 1 /\ Append(s, d)[Len(s) + 1] = d
         /\ \A k \in 1..Len(s) : Append(s, d)[k] = s[k]
         /\ Front(Append(s, d)) = s
<1>1. PICK t : t = Append(s, d)
  OBVIOUS
<1>2. /\ t \in Seq(Dept) /\ Len(t) = Len(s) + 1 /\ t[Len(s) + 1] = d
      /\ \A k \in 1..Len(s) : t[k] = s[k]
  BY <1>1
<1>3. PICK f : f = SubSeq(t, 1, Len(t) - 1)
  OBVIOUS
<1>4. f \in Seq(Dept) /\ Len(f) = Len(s) /\ \A k \in 1..Len(s) : f[k] = s[k]
  BY <1>2, <1>3
<1>5. f = s
  BY <1>4
<1> QED BY <1>1, <1>2, <1>3, <1>5 DEF Front

LEMMA CreateStartSteps ==
  ASSUME BaseInv, NEW c \in Call, CreateStart(c)
  PROVE  \E q : /\ TreeStep(c, q) /\ call[c].op = "idle" /\ UNCHANGED <<dept, unused, rel>>
                /\ q.op = "create" /\ q.step = "insert"
                /\ \/ /\ q.parent \in Live /\ q.path = dept[q.parent].path
                      /\ q.depth = dept[q.parent].depth + 1 /\ (Unfinished(q.parent) => early')
                   \/ Live = {} /\ q.parent = NoDept /\ q.path = <<>> /\ q.depth = 1
<1>1. Ready(c) /\ UNCHANGED <<dept, unused, rel, user>>
  BY DEF CreateStart
<1>2. NoDept \notin unused
  BY DEF BaseInv, DeptTable
<1>3. CASE \E p \in Live :
             /\ dept[p].depth + 1 <= MaxDeptDepth
             /\ Begin(c, [op |-> "create", step |-> "insert", parent |-> p, node |-> NoDept,
                          path |-> dept[p].path, depth |-> dept[p].depth + 1])
  <2>1. PICK p, q :
          /\ p \in Live
          /\ q = [op |-> "create", step |-> "insert", parent |-> p, node |-> NoDept,
                  path |-> dept[p].path, depth |-> dept[p].depth + 1]
          /\ Begin(c, q)
    BY <1>3
  <2>2. p \in Dept /\ p \notin unused /\ dept[p].path \in Seq(Dept) /\ dept[p].depth \in Int
    BY <2>1, DeptRows
  <2>3. q \in CreateRequest
    BY <2>1, <2>2 DEF CreateRequest, Parent
  <2>4. RequestOK(q, unused, user) /\ q.op \in Trees
    BY <1>2, <2>1, <2>2, <2>3 DEF RequestOK, Request, Listers, Trees
  <2>5. Unfinished(p) => early'
    BY <2>1 DEF Begin
  <2> QED BY <1>1, <2>1, <2>4, <2>5, BeginTree
<1>4. CASE /\ Live = {}
           /\ Begin(c, [op |-> "create", step |-> "insert", parent |-> NoDept, node |-> NoDept,
                        path |-> <<>>, depth |-> 1])
  <2>1. PICK q : /\ q = [op |-> "create", step |-> "insert", parent |-> NoDept, node |-> NoDept,
                         path |-> <<>>, depth |-> 1]
                 /\ Begin(c, q)
    BY <1>4
  <2>2. q \in CreateRequest
    BY <2>1 DEF CreateRequest, Parent
  <2>3. RequestOK(q, unused, user) /\ q.op \in Trees
    BY <1>2, <2>1, <2>2 DEF RequestOK, Request, Listers, Trees
  <2> QED BY <1>1, <1>4, <2>1, <2>3, BeginTree
<1> QED BY <1>3, <1>4 DEF CreateStart

LEMMA CreateInsertSteps ==
  ASSUME BaseInv, NEW c \in Call, CreateInsert(c)
  PROVE  \E q, d : /\ TreeStep(c, q) /\ At(c, "create", "insert") /\ rel' = rel
                   /\ d \in unused /\ unused' = unused \ {d}
                   /\ dept' = Adding(dept, d, [parent |-> call[c].parent, path |-> call[c].path, depth |-> call[c].depth])
                   /\ q.op = "create" /\ q.step = "path" /\ q.node = d /\ q.parent = call[c].parent
                   /\ q.path = call[c].path /\ q.depth = call[c].depth
<1> DEFINE r == call[c]
<1>1. At(c, "create", "insert") /\ UNCHANGED <<rel, user>>
  BY DEF CreateInsert
<1>2. /\ r \in CreateRequest /\ r.op = "create" /\ r.step = "insert" /\ Active(c) /\ r.op \in Trees
      /\ r.parent \notin unused
  BY <1>1, TreeIs DEF RequestOK, Trees
<1>3. PICK d, q :
        /\ d \in unused
        /\ dept' = Adding(dept, d, [parent |-> r.parent, path |-> r.path, depth |-> r.depth])
        /\ unused' = unused \ {d}
        /\ q = [r EXCEPT !.step = "path", !.node = d] /\ Goto(c, q)
  BY DEF CreateInsert
<1>4. d \in Dept /\ d \notin Live
  BY <1>3 DEF BaseInv, DeptTable
<1>5. /\ q \in CreateRequest /\ q.op = "create" /\ q.step = "path" /\ q.node = d /\ q.parent = r.parent
      /\ q.path = r.path /\ q.depth = r.depth
  BY <1>2, <1>3, <1>4 DEF CreateRequest, Parent
<1>6. RequestOK(q, unused', user)
  BY <1>2, <1>3, <1>4, <1>5 DEF RequestOK, Request, Listers
<1>7. Moves(c, q)
  BY <1>2, <1>3, <1>5, GotoMoves
<1>8. DeptTable'
  <2>1. PICK row : row = [parent |-> r.parent, path |-> r.path, depth |-> r.depth]
    OBVIOUS
  <2>2. row \in DeptRow /\ row.parent \notin unused
    BY <1>2, <2>1 DEF DeptRow, CreateRequest
  <2>3. /\ DOMAIN dept' = Live \cup {d}
        /\ \A e \in Live \cup {d} : dept'[e] = IF e = d THEN row ELSE dept[e]
    BY <1>3, <2>1 DEF Adding, Live
  <2> QED BY <1>3, <1>4, <2>2, <2>3 DEF DeptTable, BaseInv, Live
<1>9. RelTable'
  BY <1>1 DEF BaseInv, RelTable
<1> QED BY <1>1, <1>2, <1>3, <1>5, <1>6, <1>7, <1>8, <1>9 DEF TreeStep

LEMMA CreatePathSteps ==
  ASSUME BaseInv, NEW c \in Call, CreatePath(c)
  PROVE  /\ TreeStep(c, Idle) /\ At(c, "create", "path") /\ UNCHANGED <<unused, rel>>
         /\ Live' = Live
         /\ \A d \in Live :
              /\ dept'[d].parent = dept[d].parent
              /\ d # call[c].node => dept'[d] = dept[d]
              /\ d = call[c].node => dept'[d].path = Append(call[c].path, d) /\ dept'[d].depth = call[c].depth
<1> DEFINE r == call[c]
<1>1. At(c, "create", "path") /\ UNCHANGED <<unused, rel, user>> /\ End(c)
  BY DEF CreatePath
<1>2. r \in CreateRequest /\ r.op = "create" /\ r.step = "path" /\ Active(c) /\ r.op \in Trees
  BY <1>1, TreeIs DEF Trees
<1>3. PICK d : d = r.node
  OBVIOUS
<1>4. dept' = IF d \in Live
              THEN [dept EXCEPT ![d].path = Append(r.path, d), ![d].depth = r.depth]
              ELSE dept
  BY <1>3 DEF CreatePath
<1>5. Live' = Live
  BY <1>4 DEF Live
<1>6. ASSUME NEW e \in Live
      PROVE  /\ dept'[e].parent = dept[e].parent
             /\ e # d => dept'[e] = dept[e]
             /\ e = d => dept'[e].path = Append(r.path, e) /\ dept'[e].depth = r.depth
             /\ dept'[e] \in DeptRow
  <2>1. dept[e] \in DeptRow /\ e \in DOMAIN dept
    BY DeptRows DEF Live
  <2>2. CASE e # d
    BY <1>4, <2>1, <2>2
  <2>3. CASE e = d
    <3>1. PICK s : s = Append(r.path, d)
      OBVIOUS
    <3>2. s \in Seq(Dept) /\ r.depth \in Int
      <4>1. r.path \in Seq(Dept) /\ d \in Dept /\ r.depth \in Int
        BY <1>2, <2>3, DeptRows DEF CreateRequest
      <4> QED BY <3>1, <4>1, AppendPath
    <3>3. dept'[e] = [dept[e] EXCEPT !.path = s, !.depth = r.depth]
      BY <1>4, <2>1, <2>3, <3>1
    <3> QED BY <2>1, <2>3, <3>1, <3>2, <3>3 DEF DeptRow
  <2> QED BY <2>2, <2>3
<1>7. DeptTable' /\ RelTable'
  BY <1>1, <1>5, <1>6 DEF BaseInv, DeptTable, RelTable
<1>8. Moves(c, Idle) /\ RequestOK(Idle, unused', user) /\ Idle.op = "idle"
  BY <1>1, <1>2, EndMoves, IdleOK
<1> QED BY <1>1, <1>2, <1>3, <1>5, <1>6, <1>7, <1>8 DEF TreeStep

LEMMA CreateBreaksSteps ==
  ASSUME BaseInv, NEW c \in Call, CreateBreaks(c)
  PROVE  TreeStep(c, Idle) /\ At(c, "create", "path") /\ "create" \in torn' /\ UNCHANGED <<dept, unused, rel>>
<1>1. At(c, "create", "path") /\ UNCHANGED <<dept, unused, rel, user>> /\ Break(c)
  BY DEF CreateBreaks
<1>2. call[c].op = "create" /\ Active(c) /\ call[c].op \in Trees
  BY <1>1, TreeIs DEF Trees
<1>3. Kind(call[c].op) = "create"
  BY <1>2 DEF Kind
<1> QED BY <1>1, <1>2, <1>3, EndTree, BreakMoves

LEMMA MoveStartSteps ==
  ASSUME BaseInv, NEW c \in Call, MoveStart(c)
  PROVE  \E q : /\ TreeStep(c, q) /\ call[c].op = "idle" /\ UNCHANGED <<dept, unused, rel>>
                /\ q.op = "move" /\ q.step = "parent" /\ q.node \in Live /\ q.old = dept[q.node]
<1>1. Ready(c) /\ UNCHANGED <<dept, unused, rel, user>>
  BY DEF MoveStart
<1>2. PICK n, p, q :
        /\ n \in Live /\ p \in Parent
        /\ q = [op |-> "move", step |-> "parent", node |-> n, parent |-> p, old |-> dept[n],
                path |-> <<>>, depth |-> 0]
        /\ Begin(c, q)
  BY DEF MoveStart, Parent
<1>3. n \in Dept /\ n \notin unused /\ dept[n] \in DeptRow
  BY <1>2, DeptRows
<1>4. q \in MoveRequest /\ q.node = n /\ q.old = dept[n] /\ q.step = "parent" /\ q.op = "move"
  BY <1>2, <1>3 DEF MoveRequest
<1>5. RequestOK(q, unused, user) /\ q.op \in Trees
  BY <1>3, <1>4 DEF RequestOK, Request, Listers, Trees
<1> QED BY <1>1, <1>2, <1>4, <1>5, BeginTree

LEMMA MoveReadParentSteps ==
  ASSUME BaseInv, NEW c \in Call, MoveReadParent(c)
  PROVE  /\ At(c, "move", "parent") /\ UNCHANGED <<dept, unused, rel>>
         /\ \/ TreeStep(c, Idle)
            \/ \E q : /\ TreeStep(c, q)
                      /\ q.op = "move" /\ q.step = "commit" /\ q.node = call[c].node /\ q.old = call[c].old
                      /\ \/ q.parent = NoDept /\ q.path = <<q.node>> /\ q.depth = 1
                         \/ /\ q.parent \in Live /\ q.parent # q.node
                            /\ ~IsPrefix(q.old.path, dept[q.parent].path)
                            /\ q.path = Append(dept[q.parent].path, q.node)
                            /\ q.depth = dept[q.parent].depth + 1
<1> DEFINE r == call[c]  n == r.node  p == r.parent
<1>1. At(c, "move", "parent") /\ UNCHANGED <<dept, unused, rel, user>>
  BY DEF MoveReadParent
<1>2. /\ r \in MoveRequest /\ r.op = "move" /\ r.step = "parent" /\ Active(c) /\ r.op \in Trees
      /\ n \notin unused /\ n \in Dept
  BY <1>1, TreeIs DEF RequestOK, Trees, MoveRequest
<1>3. ASSUME NEW q \in MoveRequest, q.step = "commit", q.node = n, p \notin unused, q.parent = p, Goto(c, q)
      PROVE  TreeStep(c, q) /\ q.op = "move"
  <2>1. q.op = "move"
    BY <1>3 DEF MoveRequest
  <2>2. RequestOK(q, unused, user)
    BY <1>2, <1>3, <2>1 DEF RequestOK, Request, Listers
  <2>3. Moves(c, q)
    BY <1>2, <1>3, <2>1, GotoMoves
  <2> QED BY <1>1, <1>2, <2>1, <2>2, <2>3, ReadTree
<1>4. CASE p = NoDept /\ Goto(c, [r EXCEPT !.step = "commit", !.path = <<n>>, !.depth = 1])
  <2>1. PICK path : path = <<n>>
    OBVIOUS
  <2>2. PICK q, depth : /\ depth = 1
                        /\ q = [r EXCEPT !.step = "commit", !.path = path, !.depth = depth] /\ Goto(c, q)
    BY <1>4, <2>1
  <2>3. path \in Seq(Dept) /\ p \notin unused /\ depth \in Int
    BY <1>2, <1>4, <2>1, <2>2 DEF BaseInv, DeptTable
  <2>4. /\ q \in MoveRequest /\ q.step = "commit" /\ q.node = n /\ q.old = r.old
        /\ q.parent = p /\ q.path = path /\ q.depth = depth
    BY <1>2, <2>2, <2>3 DEF MoveRequest
  <2>5. TreeStep(c, q) /\ q.op = "move"
    BY <1>3, <2>2, <2>3, <2>4
  <2> QED BY <1>1, <1>4, <2>1, <2>2, <2>4, <2>5
<1>5. CASE /\ p \in Live
           /\ p # n /\ ~Below(dept[p].path, r.old)
           /\ Goto(c, [r EXCEPT !.step = "commit", !.path = Append(dept[p].path, n), !.depth = dept[p].depth + 1])
  <2>1. PICK q, path, depth :
          /\ path = Append(dept[p].path, n) /\ depth = dept[p].depth + 1
          /\ q = [r EXCEPT !.step = "commit", !.path = path, !.depth = depth]
          /\ Goto(c, q)
    BY <1>5
  <2>2. dept[p].path \in Seq(Dept) /\ dept[p].depth \in Int /\ p \notin unused
    BY <1>5, DeptRows
  <2>3. path \in Seq(Dept) /\ depth \in Int
    BY <1>2, <2>1, <2>2, AppendPath
  <2>4. /\ q \in MoveRequest /\ q.step = "commit" /\ q.node = n /\ q.old = r.old
        /\ q.parent = p /\ q.path = path /\ q.depth = depth
    BY <1>2, <2>1, <2>3 DEF MoveRequest
  <2>5. TreeStep(c, q) /\ q.op = "move"
    BY <1>3, <2>1, <2>2, <2>4
  <2>6. ~IsPrefix(r.old.path, dept[p].path)
    BY <1>5 DEF Below
  <2> QED BY <1>1, <1>5, <2>1, <2>4, <2>5, <2>6
<1>6. CASE End(c)
  BY <1>1, <1>2, <1>6, EndTree
<1> QED BY <1>4, <1>5, <1>6 DEF MoveReadParent

LEMMA MoveCommitSteps ==
  ASSUME BaseInv, NEW c \in Call, MoveCommit(c)
  PROVE  /\ TreeStep(c, Idle) /\ At(c, "move", "commit") /\ UNCHANGED <<unused, rel>> /\ Live' = Live
         /\ \A d \in Live :
              LET r == call[c]
                  own == IF d = r.node THEN [parent |-> r.parent, path |-> r.path, depth |-> r.depth] ELSE dept[d]
              IN /\ dept'[d].parent = own.parent
                 /\ IF IsStrictPrefix(r.old.path, own.path)
                    THEN /\ dept'[d].path = Replaced(own.path, r.old.path, r.path)
                         /\ dept'[d].depth = own.depth + (r.depth - r.old.depth)
                    ELSE dept'[d] = own
<1> DEFINE r == call[c]
           mine == [parent |-> r.parent, path |-> r.path, depth |-> r.depth]
<1>1. At(c, "move", "commit") /\ UNCHANGED <<unused, rel, user>> /\ End(c)
  BY DEF MoveCommit
<1>2. /\ r \in MoveRequest /\ r.op = "move" /\ r.step = "commit" /\ Active(c) /\ r.op \in Trees
      /\ r.parent \notin unused
  BY <1>1, TreeIs DEF RequestOK, Trees
<1>3. PICK rows : rows = OwnRowMoved(r)
  OBVIOUS
<1>4. DOMAIN rows = Live /\ \A d \in Live : rows[d] = IF d = r.node THEN mine ELSE dept[d]
  BY <1>3 DEF OwnRowMoved, Live
<1>5. dept' = [d \in DOMAIN rows |->
                 IF IsStrictPrefix(r.old.path, rows[d].path)
                 THEN [rows[d] EXCEPT !.path = Replaced(@, r.old.path, r.path),
                                      !.depth = @ + (r.depth - r.old.depth)]
                 ELSE rows[d]]
  BY <1>3 DEF MoveCommit, SubtreeMoved
<1>6. Live' = Live
  BY <1>4, <1>5 DEF Live
<1>7. /\ r.path \in Seq(Dept) /\ r.depth \in Int /\ r.parent \in Parent /\ r.old.path \in Seq(Dept)
      /\ r.old.depth \in Int
  BY <1>2 DEF MoveRequest, DeptRow
<1>8. mine \in DeptRow
  BY <1>7 DEF DeptRow
<1>9. ASSUME NEW d \in Live
      PROVE  /\ dept'[d] \in DeptRow /\ dept'[d].parent = rows[d].parent /\ dept'[d].parent \notin unused
             /\ IF IsStrictPrefix(r.old.path, rows[d].path)
                THEN /\ dept'[d].path = Replaced(rows[d].path, r.old.path, r.path)
                     /\ dept'[d].depth = rows[d].depth + (r.depth - r.old.depth)
                ELSE dept'[d] = rows[d]
  <2>1. dept[d] \in DeptRow /\ dept[d].parent \notin unused
    BY DeptRows
  <2>2. rows[d] \in DeptRow /\ rows[d].parent \notin unused
    BY <1>2, <1>4, <1>8, <2>1
  <2>3. CASE ~IsStrictPrefix(r.old.path, rows[d].path)
    BY <1>4, <1>5, <2>2, <2>3
  <2>4. CASE IsStrictPrefix(r.old.path, rows[d].path)
    <3>1. PICK s, e : s = Replaced(rows[d].path, r.old.path, r.path) /\ e = rows[d].depth + (r.depth - r.old.depth)
      OBVIOUS
    <3>2. rows[d].path \in Seq(Dept) /\ rows[d].depth \in Int
      BY <2>2 DEF DeptRow
    <3>3. s \in Seq(Dept) /\ e \in Int
      <4>1. s \in Seq(Dept)
        BY <1>7, <3>1, <3>2, ReplacedType
      <4>2. e \in Int
        BY <1>7, <3>1, <3>2
      <4> QED BY <4>1, <4>2
    <3>4. dept'[d] = [rows[d] EXCEPT !.path = s, !.depth = e]
      BY <1>4, <1>5, <2>4, <3>1
    <3> QED BY <2>2, <2>4, <3>1, <3>3, <3>4 DEF DeptRow
  <2> QED BY <2>3, <2>4
<1>10. DeptTable' /\ RelTable'
  BY <1>1, <1>6, <1>9 DEF BaseInv, DeptTable, RelTable
<1>11. Moves(c, Idle) /\ RequestOK(Idle, unused', user) /\ Idle.op = "idle"
  BY <1>1, <1>2, EndMoves, IdleOK
<1>12. TreeStep(c, Idle)
  BY <1>1, <1>2, <1>10, <1>11 DEF TreeStep
<1>13. ASSUME NEW d \in Live
       PROVE  LET own == IF d = r.node THEN mine ELSE dept[d]
              IN /\ dept'[d].parent = own.parent
                 /\ IF IsStrictPrefix(r.old.path, own.path)
                    THEN /\ dept'[d].path = Replaced(own.path, r.old.path, r.path)
                         /\ dept'[d].depth = own.depth + (r.depth - r.old.depth)
                    ELSE dept'[d] = own
  <2>1. PICK own : own = IF d = r.node THEN mine ELSE dept[d]
    OBVIOUS
  <2>2. rows[d] = own
    BY <1>4, <2>1
  <2> HIDE DEF r, mine
  <2> QED BY <1>9, <2>1, <2>2
<1> QED BY <1>1, <1>6, <1>12, <1>13

LEMMA DeleteStartSteps ==
  ASSUME BaseInv, NEW c \in Call, DeleteStart(c)
  PROVE  \E q : /\ TreeStep(c, q) /\ call[c].op = "idle" /\ UNCHANGED <<dept, unused, rel>>
                /\ q.op = "delete" /\ q.step = "subtree"
<1>1. Ready(c) /\ UNCHANGED <<dept, unused, rel, user>>
  BY DEF DeleteStart
<1>2. PICK n, cascade, q :
        /\ n \in Live /\ cascade \in BOOLEAN
        /\ q = [op |-> "delete", step |-> "subtree", path |-> dept[n].path, cascade |-> cascade,
                depts |-> {}, rows |-> {}]
        /\ Begin(c, q)
  BY DEF DeleteStart
<1>3. dept[n].path \in Seq(Dept)
  BY <1>2, DeptRows
<1>4. q \in DeleteRequest /\ q.rows = {} /\ q.step = "subtree" /\ q.op = "delete"
  BY <1>2, <1>3 DEF DeleteRequest
<1>5. RequestOK(q, unused, user) /\ q.op \in Trees
  BY <1>4, FS_EmptySet DEF RequestOK, Request, Listers, Trees
<1> QED BY <1>1, <1>2, <1>4, <1>5, BeginTree

\* It goes on, with other departments and rows.
LEMMA DeleteGoes ==
  ASSUME BaseInv, NEW c \in Call, Active(c), call[c].op = "delete", NEW q \in DeleteRequest, Goto(c, q),
         IsFiniteSet(q.rows)
  PROVE  q.op = "delete" /\ Moves(c, q) /\ RequestOK(q, unused, user) /\ q.op \in Trees
BY GotoMoves DEF DeleteRequest, RequestOK, Request, Listers, Trees

LEMMA DeleteReadSubtreeSteps ==
  ASSUME BaseInv, NEW c \in Call, DeleteReadSubtree(c)
  PROVE  /\ At(c, "delete", "subtree") /\ UNCHANGED <<dept, unused, rel>>
         /\ \/ TreeStep(c, Idle)
            \/ \E q : /\ TreeStep(c, q) /\ q.op = "delete" /\ q.step = "members"
                      /\ q.depts = Subtree(call[c].path)
<1> DEFINE r == call[c]
<1>1. At(c, "delete", "subtree") /\ UNCHANGED <<dept, unused, rel, user>>
  BY DEF DeleteReadSubtree
<1>2. r \in DeleteRequest /\ r.op = "delete" /\ Active(c) /\ r.op \in Trees /\ IsFiniteSet(r.rows)
  BY <1>1, TreeIs DEF Trees
<1>3. PICK sub : sub = Subtree(r.path)
  OBVIOUS
<1>4. End(c) \/ Goto(c, [r EXCEPT !.step = "members", !.depts = sub])
  BY <1>3 DEF DeleteReadSubtree
<1>5. CASE End(c)
  BY <1>1, <1>2, <1>5, EndTree
<1>6. CASE Goto(c, [r EXCEPT !.step = "members", !.depts = sub])
  <2>1. PICK q : q = [r EXCEPT !.step = "members", !.depts = sub] /\ Goto(c, q)
    BY <1>6
  <2>2. sub \subseteq Dept
    BY <1>3 DEF Subtree, BaseInv, DeptTable
  <2>3. q \in DeleteRequest /\ q.step = "members" /\ q.depts = sub /\ q.rows = r.rows
    BY <1>2, <2>1, <2>2 DEF DeleteRequest
  <2>4. q.op = "delete" /\ Moves(c, q) /\ RequestOK(q, unused, user) /\ q.op \in Trees
    BY <1>2, <2>1, <2>3, DeleteGoes
  <2> QED BY <1>1, <1>2, <1>3, <2>3, <2>4, ReadTree
<1> QED BY <1>4, <1>5, <1>6

LEMMA DeleteReadMembersSteps ==
  ASSUME BaseInv, NEW c \in Call, DeleteReadMembers(c)
  PROVE  /\ At(c, "delete", "members") /\ UNCHANGED <<dept, unused, rel>>
         /\ \/ TreeStep(c, Idle)
            \/ \E q : /\ TreeStep(c, q) /\ q.op = "delete" /\ q.step = "rows"
                      /\ q.depts = call[c].depts /\ q.rows = MembersOf(call[c].depts)
<1> DEFINE r == call[c]
<1>1. At(c, "delete", "members") /\ UNCHANGED <<dept, unused, rel, user>>
  BY DEF DeleteReadMembers
<1>2. r \in DeleteRequest /\ r.op = "delete" /\ Active(c) /\ r.op \in Trees
  BY <1>1, TreeIs DEF Trees
<1>3. PICK members : members = MembersOf(r.depts)
  OBVIOUS
<1>4. End(c) \/ Goto(c, [r EXCEPT !.step = "rows", !.rows = members])
  BY <1>3 DEF DeleteReadMembers
<1>5. CASE End(c)
  BY <1>1, <1>2, <1>5, EndTree
<1>6. CASE Goto(c, [r EXCEPT !.step = "rows", !.rows = members])
  <2>1. PICK q : q = [r EXCEPT !.step = "rows", !.rows = members] /\ Goto(c, q)
    BY <1>6
  <2>2. members \subseteq Nat /\ IsFiniteSet(members)
    BY <1>3, FS_Subset DEF MembersOf, BaseInv, RelTable
  <2>3. q \in DeleteRequest /\ q.step = "rows" /\ q.depts = r.depts /\ q.rows = members
    BY <1>2, <2>1, <2>2 DEF DeleteRequest
  <2>4. q.op = "delete" /\ Moves(c, q) /\ RequestOK(q, unused, user) /\ q.op \in Trees
    BY <1>2, <2>1, <2>2, <2>3, DeleteGoes
  <2> QED BY <1>1, <1>2, <1>3, <2>3, <2>4, ReadTree
<1> QED BY <1>4, <1>5, <1>6

LEMMA DeleteDeptSteps ==
  ASSUME BaseInv, NEW c \in Call, DeleteDept(c)
  PROVE  \E q, d : /\ TreeStep(c, q) /\ At(c, "delete", "rows") /\ UNCHANGED <<unused, rel>>
                   /\ d \in call[c].depts /\ dept' = Dropping(dept, {d})
                   /\ q.op = "delete" /\ q.step = "rows" /\ q.rows = call[c].rows /\ q.depts = call[c].depts \ {d}
<1> DEFINE r == call[c]
<1>1. At(c, "delete", "rows") /\ UNCHANGED <<unused, rel, user>>
  BY DEF DeleteDept
<1>2. /\ r \in DeleteRequest /\ r.op = "delete" /\ r.step = "rows" /\ Active(c) /\ r.op \in Trees
      /\ IsFiniteSet(r.rows)
  BY <1>1, TreeIs DEF Trees
<1>3. PICK d, q :
      /\ d \in r.depts
      /\ dept' = Dropping(dept, {d})
      /\ q = [r EXCEPT !.depts = @ \ {d}] /\ Goto(c, q)
  BY DEF DeleteDept
<1>4. q \in DeleteRequest /\ q.step = "rows" /\ q.rows = r.rows /\ q.depts = r.depts \ {d}
  BY <1>2, <1>3 DEF DeleteRequest
<1>5. q.op = "delete" /\ Moves(c, q) /\ RequestOK(q, unused, user) /\ q.op \in Trees
  BY <1>2, <1>3, <1>4, DeleteGoes
<1>6. DOMAIN dept' \subseteq Live /\ \A e \in DOMAIN dept' : dept'[e] = dept[e]
  BY <1>3 DEF Dropping, Live
<1>7. DeptTable' /\ RelTable'
  BY <1>1, <1>6 DEF BaseInv, DeptTable, RelTable, Live
<1> QED BY <1>1, <1>2, <1>3, <1>4, <1>5, <1>7 DEF TreeStep

LEMMA DeleteMemberSteps ==
  ASSUME BaseInv, NEW c \in Call, DeleteMember(c)
  PROVE  \E q, i : /\ TreeStep(c, q) /\ At(c, "delete", "rows") /\ UNCHANGED <<dept, unused>>
                   /\ i \in call[c].rows /\ rel' = Dropping(rel, {i})
                   /\ q.op = "delete" /\ q.step = "rows" /\ q.rows = call[c].rows \ {i} /\ q.depts = call[c].depts
<1> DEFINE r == call[c]
<1>1. At(c, "delete", "rows") /\ UNCHANGED <<dept, unused, user>>
  BY DEF DeleteMember
<1>2. /\ r \in DeleteRequest /\ r.op = "delete" /\ r.step = "rows" /\ Active(c) /\ r.op \in Trees
      /\ IsFiniteSet(r.rows)
  BY <1>1, TreeIs DEF Trees
<1>3. PICK i, q :
      /\ i \in r.rows
      /\ rel' = Dropping(rel, {i})
      /\ q = [r EXCEPT !.rows = @ \ {i}] /\ Goto(c, q)
  BY DEF DeleteMember
<1>4. q \in DeleteRequest /\ q.step = "rows" /\ q.rows = r.rows \ {i} /\ q.depts = r.depts
  BY <1>2, <1>3 DEF DeleteRequest
<1>5. IsFiniteSet(q.rows)
  BY <1>2, <1>4, FS_Subset
<1>6. q.op = "delete" /\ Moves(c, q) /\ RequestOK(q, unused, user) /\ q.op \in Trees
  BY <1>2, <1>3, <1>4, <1>5, DeleteGoes
<1>7. DOMAIN rel' \subseteq DOMAIN rel /\ \A j \in DOMAIN rel' : rel'[j] = rel[j]
  BY <1>3 DEF Dropping
<1>8. RelTable'
  <2>1. user' \subseteq User
    BY <1>1 DEF BaseInv, RelTable
  <2> QED BY <1>1, <1>3, <2>1, DroppedRel
<1>9. DeptTable'
  BY <1>1 DEF BaseInv, DeptTable, Live
<1> QED BY <1>1, <1>2, <1>3, <1>4, <1>6, <1>7, <1>8, <1>9 DEF TreeStep

LEMMA DeleteEndsSteps ==
  ASSUME BaseInv, NEW c \in Call, DeleteEnds(c)
  PROVE  /\ TreeStep(c, Idle) /\ At(c, "delete", "rows") /\ UNCHANGED <<dept, unused, rel>>
         /\ call[c].depts = {} /\ call[c].rows = {}
BY TreeIs, EndTree DEF DeleteEnds, Trees

LEMMA DeleteBreaksSteps ==
  ASSUME BaseInv, NEW c \in Call, DeleteBreaks(c)
  PROVE  TreeStep(c, Idle) /\ At(c, "delete", "rows") /\ "delete" \in torn' /\ UNCHANGED <<dept, unused, rel>>
<1>1. At(c, "delete", "rows") /\ UNCHANGED <<dept, unused, rel, user>> /\ Break(c)
  BY DEF DeleteBreaks
<1>2. call[c].op = "delete" /\ Active(c) /\ call[c].op \in Trees
  BY <1>1, TreeIs DEF Trees
<1>3. Kind(call[c].op) = "delete"
  BY <1>2 DEF Kind
<1> QED BY <1>1, <1>2, <1>3, EndTree, BreakMoves

-----------------------------------------------------------------------------
(* The tables stay sound.                                                  *)

CreateActs(c) == CreateStart(c) \/ CreateInsert(c) \/ CreatePath(c) \/ CreateBreaks(c)
MoveActs(c) == MoveStart(c) \/ MoveReadParent(c) \/ MoveCommit(c)

DeleteActs(c) ==
  \/ DeleteStart(c) \/ DeleteReadSubtree(c) \/ DeleteReadMembers(c) \/ DeleteDept(c)
  \/ DeleteMember(c) \/ DeleteEnds(c) \/ DeleteBreaks(c)

RelateActs(c) ==
  \/ RelateStart(c) \/ RelateRead(c) \/ RelateWrite(c)
  \/ ConvergeStart(c) \/ ConvergeLeader(c) \/ ConvergeRow(c) \/ SinglePrimary(c)
  \/ ConvergeCommit(c) \/ ConvergeBreaks(c)
  \/ RemoveStart(c) \/ RemoveRow(c) \/ RemoveBreaks(c)
  \/ PlaceStart(c) \/ PlaceRead(c) \/ PlaceLeader(c) \/ PlaceCommit(c)
  \/ HireStart(c) \/ HireLeader(c) \/ HireCommit(c)

LEMMA StepsOfNext ==
  ASSUME Next
  PROVE  \E c \in Call : CreateActs(c) \/ MoveActs(c) \/ DeleteActs(c) \/ RelateActs(c)
BY DEF Next, CreateActs, MoveActs, DeleteActs, RelateActs

LEMMA RelateActsStep ==
  ASSUME BaseInv, NEW c \in Call, RelateActs(c)
  PROVE  \E q : RelateStep(c, q)
BY RelateStartSteps, RelateReadSteps, RelateWriteSteps, ConvergeStartSteps, ConvergeLeaderSteps, ConvergeRowSteps,
   SinglePrimarySteps, ConvergeCommitSteps, ConvergeBreaksSteps, RemoveStartSteps, RemoveRowSteps,
   RemoveBreaksSteps, PlaceStartSteps, PlaceReadSteps, PlaceLeaderSteps, PlaceCommitSteps, HireStartSteps,
   HireLeaderSteps, HireCommitSteps
   DEF RelateActs

LEMMA TreeActsStep ==
  ASSUME BaseInv, NEW c \in Call, CreateActs(c) \/ MoveActs(c) \/ DeleteActs(c)
  PROVE  \E q : TreeStep(c, q)
<1>1. CASE CreateActs(c)
  BY <1>1, CreateStartSteps, CreateInsertSteps, CreatePathSteps, CreateBreaksSteps DEF CreateActs
<1>2. CASE MoveActs(c)
  BY <1>2, MoveStartSteps, MoveReadParentSteps, MoveCommitSteps DEF MoveActs
<1>3. CASE DeleteActs(c)
  BY <1>3, DeleteStartSteps, DeleteReadSubtreeSteps, DeleteReadMembersSteps, DeleteDeptSteps, DeleteMemberSteps,
     DeleteEndsSteps, DeleteBreaksSteps DEF DeleteActs
<1> QED BY <1>1, <1>2, <1>3

LEMMA StepKeepsBase ==
  ASSUME BaseInv, NEW c \in Call, NEW q, RelateStep(c, q) \/ TreeStep(c, q)
  PROVE  BaseInv'
<1>1. CASE RelateStep(c, q)
  <2>1. DeptTable' /\ unused' = unused
    BY <1>1 DEF RelateStep, BaseInv, DeptTable, Live
  <2> QED BY <1>1, <2>1, MoveKeepsBase DEF RelateStep
<1>2. CASE TreeStep(c, q)
  BY <1>2, MoveKeepsBase DEF TreeStep
<1> QED BY <1>1, <1>2

LEMMA BaseStep == BaseInv /\ [Next]_vars => BaseInv'
<1> SUFFICES ASSUME BaseInv, [Next]_vars PROVE BaseInv'
  OBVIOUS
<1>1. CASE Next
  BY <1>1, StepsOfNext, RelateActsStep, TreeActsStep, StepKeepsBase
<1>2. CASE UNCHANGED vars
  BY <1>2 DEF vars, BaseInv, DeptTable, Live, RelTable, Overlaps, Active
<1> QED BY <1>1, <1>2

LEMMA BaseStart == Init => BaseInv
<1> SUFFICES ASSUME Init PROVE BaseInv
  OBVIOUS
<1>1. /\ unused = Dept \ DOMAIN InitialPath /\ DOMAIN dept = DOMAIN InitialPath /\ DOMAIN InitialPath \subseteq Dept
      /\ rel = InitialMember /\ user = {InitialMember[i].user : i \in DOMAIN InitialMember}
      /\ call = [c \in Call |-> Idle]
  BY DEF Init
<1>2. ASSUME NEW d \in DOMAIN InitialPath
      PROVE  dept[d] \in DeptRow /\ dept[d].parent \notin unused
  <2>1. PICK path : path = InitialPath[d]
    OBVIOUS
  <2>2. /\ path \in Seq(Dept) /\ path # <<>> /\ path[Len(path)] = d
        /\ Len(path) > 1 => /\ path[Len(path) - 1] \in DOMAIN InitialPath
    BY <2>1, InitialAssumption
  <2>3. ParentOf(path) = NoDept \/ ParentOf(path) \in DOMAIN InitialPath
    <3>1. PICK L \in Nat : L = Len(path) /\ L # 0
      BY <2>2
    <3>2. L = 1 \/ L > 1
      BY <3>1
    <3> QED BY <2>2, <3>1, <3>2 DEF ParentOf
  <2>4. Len(path) \in Int
    BY <2>2
  <2>5. dept[d] = [parent |-> ParentOf(path), path |-> path, depth |-> Len(path)]
    BY <2>1 DEF Init
  <2> QED BY <1>1, <2>2, <2>3, <2>4, <2>5 DEF DeptRow, Parent
<1>3. DeptTable
  BY <1>1, <1>2 DEF DeptTable, Live
<1>4. RelTable
  <2>1. PICK rows : rows = [dept : DOMAIN InitialPath, user : User, type : Type]
    OBVIOUS
  <2>2. InitialMember \in Seq(rows)
    BY <2>1 DEF Type
  <2>a. PICK L \in Nat : L = Len(InitialMember)
    BY <2>2
  <2>b. DOMAIN rel = 1..L /\ \A i \in 1..L : rel[i] \in rows
    BY <1>1, <2>2, <2>a
  <2>3. DOMAIN rel = 1..L /\ \A i \in 1..L : rel[i] \in [dept : DOMAIN InitialPath, user : User, type : Type]
    BY <2>1, <2>b
  <2>4. \A i \in DOMAIN rel : rel[i] \in RelRow /\ rel[i].user \in User /\ rel[i].user \in user
    BY <1>1, <2>3 DEF RelRow
  <2>5. IsFiniteSet(1..L)
    BY FS_Interval
  <2>6. user \subseteq User
    BY <1>1, <2>4
  <2> QED BY <2>3, <2>4, <2>5, <2>6 DEF RelTable
<1>5. DOMAIN call = Call /\ \A c \in Call : RequestOK(call[c], unused, user)
  BY <1>1, IdleOK
<1>6. Overlaps
  BY <1>1 DEF Overlaps, Active, Idle
<1> QED BY <1>3, <1>4, <1>5, <1>6 DEF BaseInv

\* Whatever requests overlap and wherever they stop: every row of the two
\* tables and every request keeps its shape, paths are sequences of
\* departments however replace rewrites them, and no identifier is drawn twice.
THEOREM TablesStayTyped == Spec => []BaseInv
BY BaseStart, BaseStep, PTL DEF Spec

-----------------------------------------------------------------------------
(* One leader and one primary department.                                  *)

\* With fewer rows a request still leaves one of each.
LEMMA SoleShrinks ==
  ASSUME NEW r, NEW rows, NEW fewer, NEW users, SoleItem(r, rows, users),
         DOMAIN fewer \subseteq DOMAIN rows, \A i \in DOMAIN fewer : fewer[i] = rows[i]
  PROVE  SoleItem(r, fewer, users)
<1>1. \A gone : OneEach(Dropping(rows, gone)) => OneEach(Dropping(fewer, gone))
  BY SoleWithout
<1>2. OneEach(rows) => OneEach(fewer)
  BY DEF OneEach
<1>3. \A x : Unrivalled(x, rows) => Unrivalled(x, fewer)
  BY DEF Unrivalled
<1>4. ASSUME NEW u, NEW new, OneEach(Dropping(rows, PrimariesOf(u, rows) \ new))
      PROVE  OneEach(Dropping(fewer, PrimariesOf(u, fewer) \ new))
  <2>1. \A i \in DOMAIN fewer : i \in PrimariesOf(u, rows) => i \in PrimariesOf(u, fewer)
    BY DEF PrimariesOf
  <2> QED BY <1>4, <2>1, SoleWithout
<1> QED BY <1>1, <1>2, <1>3, <1>4 DEF SoleItem

\* Under Single, one request about relations at a time.
LEMMA OneRelates ==
  ASSUME BaseInv, Single, NEW c \in Call, NEW o \in Call, c # o, call[c].op \in Relaters
  PROVE  call[o].op \notin Relaters
<1>1. SUFFICES ASSUME call[o].op \in Relaters PROVE FALSE
  OBVIOUS
<1>2. Active(c) /\ Active(o) /\ Kind(call[c].op) = "relate" /\ Kind(call[o].op) = "relate"
  BY <1>1 DEF Active, Relaters, Kind
<1>3. {"relate", "relate"} \in mixed
  BY <1>2 DEF BaseInv, Overlaps
<1> QED BY <1>3 DEF Single, Apart

LEMMA OneRelatesNext ==
  ASSUME BaseInv', Single', NEW c \in Call, NEW o \in Call, c # o, call'[c].op \in Relaters
  PROVE  call'[o].op \notin Relaters
<1>1. SUFFICES ASSUME call'[o].op \in Relaters PROVE FALSE
  OBVIOUS
<1>2. Active(c)' /\ Active(o)' /\ Kind(call'[c].op) = "relate" /\ Kind(call'[o].op) = "relate"
  BY <1>1 DEF Active, Relaters, Kind
<1>3. {"relate", "relate"} \in mixed'
  BY <1>2 DEF BaseInv, Overlaps
<1> QED BY <1>3 DEF Single, Apart

LEMMA QuietRelations ==
  ASSUME BaseInv
  PROVE  Quiet("relate") <=> \A c \in Call : call[c].op \notin Relaters
<1>1. \A c \in Call : call[c] \in Request
  BY DEF BaseInv, RequestOK
<1>2. \A c \in Call : Active(c) => (Kind(call[c].op) = "relate" <=> call[c].op \in Relaters)
  BY <1>1, KindOf DEF Active
<1> QED BY <1>2 DEF Quiet, Active, Relaters

LEMMA QuietRelationsNext ==
  ASSUME BaseInv'
  PROVE  Quiet("relate")' <=> \A c \in Call : call'[c].op \notin Relaters
<1>1. \A c \in Call : call'[c] \in Request
  BY DEF BaseInv, RequestOK
<1>2. \A c \in Call : Active(c)' => (Kind(call'[c].op) = "relate" <=> call'[c].op \in Relaters)
  BY <1>1, KindOf DEF Active
<1> QED BY <1>2 DEF Quiet, Active, Relaters

LEMMA NothingSole ==
  ASSUME NEW r, NEW rows, NEW users, r.op \notin Relaters
  PROVE  SoleItem(r, rows, users)
BY DEF SoleItem, Relaters

LEMMA SoleStep ==
  ASSUME BaseInv, SoleInv, NEW c \in Call, NEW q, RelateStep(c, q) \/ TreeStep(c, q)
  PROVE  SoleInv'
<1> SUFFICES ASSUME Single' PROVE (Quiet("relate") => OneEach(rel))' /\ \A o \in Call : SoleItem(call'[o], rel', user')
  BY DEF SoleInv
<1>1. BaseInv' /\ Moves(c, q)
  BY StepKeepsBase DEF RelateStep, TreeStep
<1>2. Single
  BY <1>1 DEF Moves, Single, Apart
<1>3. (Quiet("relate") => OneEach(rel)) /\ \A o \in Call : SoleItem(call[o], rel, user)
  BY <1>2 DEF SoleInv
<1>4. call'[c] = q /\ \A o \in Call \ {c} : call'[o] = call[o]
  BY <1>1 DEF Moves, BaseInv
<1>5. CASE TreeStep(c, q)
  <2>1. /\ DOMAIN rel' \subseteq DOMAIN rel /\ \A i \in DOMAIN rel' : rel'[i] = rel[i]
        /\ user' = user /\ call[c].op \notin Relaters /\ q.op \notin Relaters
    BY <1>5 DEF TreeStep, Trees, Relaters
  <2>2. OneEach(rel) => OneEach(rel')
    BY <2>1 DEF OneEach
  <2>3. Quiet("relate")' => Quiet("relate")
    BY <1>1, <1>4, <2>1, QuietRelations, QuietRelationsNext
  <2>4. ASSUME NEW o \in Call PROVE SoleItem(call'[o], rel', user')
    <3>1. CASE o = c
      BY <1>4, <2>1, <3>1, NothingSole
    <3>2. CASE o # c
      BY <1>3, <1>4, <2>1, <3>2, SoleShrinks
    <3> QED BY <3>1, <3>2
  <2> QED BY <1>3, <2>2, <2>3, <2>4
<1>6. CASE RelateStep(c, q)
  <2>1. /\ call[c].op \in Relaters \cup {"idle"} /\ q.op \in Relaters \cup {"idle"}
        /\ Active(c) \/ q.op # "idle"
        /\ SoleNow(c) => IF q.op = "idle" THEN OneEach(rel') ELSE SoleItem(q, rel', user')
    BY <1>6 DEF RelateStep, Single
  <2>2. \A o \in Call \ {c} : call[o].op \notin Relaters
    <3>1. CASE Active(c)
      BY <1>2, <2>1, <3>1, OneRelates DEF Active
    <3>2. CASE ~Active(c)
      BY <1>1, <1>4, <2>1, <3>2, OneRelatesNext
    <3> QED BY <3>1, <3>2
  <2>3. SoleNow(c)
    <3>1. CASE Active(c)
      BY <1>3, <3>1 DEF SoleNow
    <3>2. CASE ~Active(c)
      <4>1. \A o \in Call : call[o].op \notin Relaters
        BY <2>2, <3>2 DEF Active, Relaters
      <4> QED BY <1>3, <3>2, <4>1, QuietRelations DEF SoleNow
    <3> QED BY <3>1, <3>2
  <2>4. \A o \in Call \ {c} : SoleItem(call'[o], rel', user')
    BY <1>4, <2>2, NothingSole
  <2>5. CASE q.op = "idle"
    <3>1. SoleItem(q, rel', user')
      BY <2>5, NothingSole DEF Relaters
    <3> QED BY <1>4, <2>1, <2>3, <2>4, <2>5, <3>1
  <2>6. CASE q.op # "idle"
    <3>1. q.op \in Relaters /\ ~Quiet("relate")'
      BY <1>1, <1>4, <2>1, <2>6, QuietRelationsNext
    <3> QED BY <1>4, <2>1, <2>3, <2>4, <2>6, <3>1
  <2> QED BY <2>5, <2>6
<1> QED BY <1>5, <1>6

LEMMA SoleStart == Init => SoleInv
<1> SUFFICES ASSUME Init PROVE SoleInv
  OBVIOUS
<1>1. rel = InitialMember /\ \A c \in Call : call[c] = Idle
  BY DEF Init
<1>2. OneEach(rel)
  BY <1>1, InitialAssumption
<1>3. \A c \in Call : SoleItem(call[c], rel, user)
  BY <1>1, NothingSole DEF Idle, Relaters
<1> QED BY <1>2, <1>3 DEF SoleInv

\* A department has one leader and a user one primary department, whichever
\* operations of department_user.go and user.go made the rows, as long as no
\* two of them overlap and none stops half-way: neither is in the schema, and
\* each operation keeps it by reading before it writes.
THEOREM OneLeaderOnePrimary == Spec => []OneOfEach
<1>1. Init => BaseInv /\ SoleInv
  BY BaseStart, SoleStart
<1>2. BaseInv /\ SoleInv /\ [Next]_vars => (BaseInv /\ SoleInv)'
  <2> SUFFICES ASSUME BaseInv, SoleInv, [Next]_vars PROVE (BaseInv /\ SoleInv)'
    OBVIOUS
  <2>1. BaseInv'
    BY BaseStep
  <2>2. CASE Next
    BY <2>1, <2>2, StepsOfNext, RelateActsStep, TreeActsStep, SoleStep
  <2>3. CASE UNCHANGED vars
    BY <2>1, <2>3 DEF vars, SoleInv, Single, Apart, Quiet, Active
  <2> QED BY <2>2, <2>3
<1>3. SoleInv => OneOfEach
  BY DEF SoleInv, OneOfEach, Single
<1> QED BY <1>1, <1>2, <1>3, PTL DEF Spec

-----------------------------------------------------------------------------
(* Paths of one tree.                                                      *)

LEMMA PrefixIs ==
  ASSUME NEW s \in Seq(Dept), NEW t \in Seq(Dept)
  PROVE  IsPrefix(s, t) <=> Len(s) <= Len(t) /\ \A k \in 1..Len(s) : s[k] = t[k]
<1>1. PICK a \in Nat, b \in Nat : a = Len(s) /\ b = Len(t)
  OBVIOUS
<1>2. SUFFICES ASSUME a <= b PROVE SubSeq(s, 1, a) = SubSeq(t, 1, a) <=> \A k \in 1..a : s[k] = t[k]
  BY <1>1 DEF IsPrefix
<1>3. PICK x, y : x = SubSeq(s, 1, a) /\ y = SubSeq(t, 1, a)
  OBVIOUS
<1>4. /\ x \in Seq(Dept) /\ Len(x) = a /\ \A k \in 1..a : x[k] = s[k]
      /\ y \in Seq(Dept) /\ Len(y) = a /\ \A k \in 1..a : y[k] = t[k]
  BY <1>1, <1>2, <1>3
<1>5. x = y <=> \A k \in 1..a : x[k] = y[k]
  BY <1>4
<1> QED BY <1>3, <1>4, <1>5

LEMMA AgreeIs ==
  ASSUME NEW s \in Seq(Dept), NEW t \in Seq(Dept)
  PROVE  Agree(s, t) <=> \A i \in 1..Len(s), j \in 1..Len(t) : s[i] = t[j] => i = j /\ \A k \in 1..i : s[k] = t[k]
<1>1. DOMAIN s = 1..Len(s) /\ DOMAIN t = 1..Len(t)
  OBVIOUS
<1> QED BY <1>1 DEF Agree

LEMMA AgreeAlike ==
  ASSUME NEW s \in Seq(Dept), NEW t \in Seq(Dept), Agree(s, t)
  PROVE  Agree(t, s)
BY AgreeIs

LEMMA NothingOnIt ==
  ASSUME NEW s \in Seq(Dept)
  PROVE  Agree(<<>>, s) /\ Agree(s, <<>>) /\ <<>> \in Seq(Dept)
<1>1. PICK e : e = <<>>
  OBVIOUS
<1>2. e \in Seq(Dept) /\ DOMAIN e = {}
  BY <1>1
<1> QED BY <1>1, <1>2 DEF Agree

\* A department that is on no path yet.
LEMMA AgreeAppend ==
  ASSUME NEW s \in Seq(Dept), NEW t \in Seq(Dept), NEW d \in Dept, Agree(s, t), \A j \in 1..Len(t) : t[j] # d
  PROVE  Agree(Append(s, d), t) /\ Agree(t, Append(s, d))
<1>0. PICK n \in Nat : n = Len(s)
  OBVIOUS
<1>1. PICK w : w = Append(s, d)
  OBVIOUS
<1>2. w \in Seq(Dept) /\ Len(w) = n + 1 /\ w[n + 1] = d /\ \A k \in 1..n : w[k] = s[k]
  BY <1>0, <1>1, AppendPath
<1>3. Agree(w, t)
  <2>1. SUFFICES ASSUME NEW i \in 1..n + 1, NEW j \in 1..Len(t), w[i] = t[j]
                 PROVE  i = j /\ \A k \in 1..i : w[k] = t[k]
    BY <1>2, AgreeIs
  <2>2. i \in 1..n
    BY <1>2, <2>1
  <2>3. i = j /\ \A k \in 1..i : s[k] = t[k]
    BY <1>0, <1>2, <2>1, <2>2, AgreeIs
  <2> QED BY <1>2, <2>2, <2>3
<1> QED BY <1>1, <1>2, <1>3, AgreeAlike

LEMMA AgreeWithItself ==
  ASSUME NEW s \in Seq(Dept), NEW d \in Dept, Agree(s, s), \A j \in 1..Len(s) : s[j] # d
  PROVE  Agree(Append(s, d), Append(s, d))
<1>0. PICK n \in Nat : n = Len(s)
  OBVIOUS
<1>1. PICK w : w = Append(s, d)
  OBVIOUS
<1>2. w \in Seq(Dept) /\ Len(w) = n + 1 /\ w[n + 1] = d /\ \A k \in 1..n : w[k] = s[k]
  BY <1>0, <1>1, AppendPath
<1>3. ASSUME NEW i \in 1..n + 1, NEW j \in 1..n + 1, w[i] = w[j] PROVE i = j
  <2>1. CASE i \in 1..n /\ j \in 1..n
    BY <1>0, <1>2, <1>3, <2>1, AgreeIs
  <2>2. CASE i = n + 1 /\ j \in 1..n
    BY <1>0, <1>2, <1>3, <2>2
  <2>3. CASE j = n + 1 /\ i \in 1..n
    BY <1>0, <1>2, <1>3, <2>3
  <2> QED BY <2>1, <2>2, <2>3
<1>4. Agree(w, w)
  BY <1>2, <1>3, AgreeIs
<1> QED BY <1>1, <1>4

\* The path of a department once the one at the end of old is at the end of new.
NewPath(s, old, new) ==
  IF IsPrefix(old, s) THEN new \o SubSeq(s, Len(old) + 1, Len(s)) ELSE s

LEMMA MovedIs ==
  ASSUME NEW s \in Seq(Dept), NEW old \in Seq(Dept), NEW q \in Seq(Dept), NEW n \in Dept,
         Leads(old, n), IsPrefix(old, s)
  PROVE  /\ NewPath(s, old, Append(q, n)) \in Seq(Dept)
         /\ Len(NewPath(s, old, Append(q, n))) = Len(s) + (Len(q) + 1 - Len(old))
         /\ Len(old) <= Len(s) /\ Len(old) > 0
         /\ \A k \in 1..Len(s) + (Len(q) + 1 - Len(old)) :
              NewPath(s, old, Append(q, n))[k] = IF k <= Len(q) THEN q[k] ELSE s[k - (Len(q) + 1) + Len(old)]
<1>1. PICK L \in Nat, a \in Nat, b \in Nat : L = Len(s) /\ a = Len(old) /\ b = Len(q)
  OBVIOUS
<1>2. a > 0 /\ a <= L /\ s[a] = n
  <2>1. a <= L /\ \A k \in 1..a : old[k] = s[k]
    BY <1>1, PrefixIs
  <2>2. a > 0 /\ old[a] = n
    BY <1>1 DEF Leads
  <2> QED BY <2>1, <2>2
<1>3. PICK w : w = Append(q, n)
  OBVIOUS
<1>4. w \in Seq(Dept) /\ Len(w) = b + 1 /\ w[b + 1] = n /\ \A k \in 1..b : w[k] = q[k]
  BY <1>1, <1>3, AppendPath
<1>5. PICK r : r = SubSeq(s, a + 1, L)
  OBVIOUS
<1>6. r \in Seq(Dept) /\ Len(r) = L - a /\ \A k \in 1..L - a : r[k] = s[a + k]
  BY <1>1, <1>2, <1>5
<1>7. PICK t : t = w \o r
  OBVIOUS
<1>8. t \in Seq(Dept) /\ Len(t) = Len(w) + Len(r)
  <2>1. w \in Seq(Dept) /\ r \in Seq(Dept)
    BY <1>4, <1>6
  <2> QED BY <1>7, <2>1
<1>9. Len(t) = L + (b + 1 - a)
  BY <1>2, <1>4, <1>6, <1>8
<1>10. ASSUME NEW k \in 1..L + (b + 1 - a) PROVE t[k] = IF k <= b THEN q[k] ELSE s[k - (b + 1) + a]
  <2>1. CASE k <= b + 1
    <3>1. t[k] = w[k]
      BY <1>4, <1>6, <1>7, <2>1
    <3>2. k <= b => t[k] = q[k]
      BY <1>4, <3>1
    <3>3. ASSUME ~(k <= b) PROVE k = b + 1 /\ k - (b + 1) + a = a
      <4>1. k = b + 1
        BY <2>1, <3>3
      <4>2. b + 1 - (b + 1) + a = a
        OBVIOUS
      <4> QED BY <4>1, <4>2
    <3> QED BY <1>2, <1>4, <3>1, <3>2, <3>3
  <2>2. CASE k > b + 1
    <3>1. t[k] = r[k - (b + 1)]
      BY <1>4, <1>6, <1>7, <1>8, <1>9, <2>2
    <3>2. k - (b + 1) \in 1..L - a
      BY <1>2, <2>2
    <3>3. r[k - (b + 1)] = s[a + (k - (b + 1))]
      BY <1>6, <3>2
    <3>4. a + (k - (b + 1)) = k - (b + 1) + a
      OBVIOUS
    <3> QED BY <2>2, <3>1, <3>3, <3>4
  <2> QED BY <2>1, <2>2
<1>11. NewPath(s, old, Append(q, n)) = t
  BY <1>1, <1>3, <1>5, <1>7 DEF NewPath
<1> QED BY <1>1, <1>2, <1>8, <1>9, <1>10, <1>11

LEMMA MovedLength ==
  ASSUME NEW s \in Seq(Dept), NEW old \in Seq(Dept), NEW q \in Seq(Dept), NEW n \in Dept,
         Leads(old, n), IsPrefix(old, s)
  PROVE  Len(NewPath(s, old, Append(q, n))) = Len(s) + (Len(q) + 1 - Len(old))
BY MovedIs

\* A path that does not go through old has nothing of what comes after it.
LEMMA Beyond ==
  ASSUME NEW s \in Seq(Dept), NEW t \in Seq(Dept), NEW old \in Seq(Dept), IsPrefix(old, s), ~IsPrefix(old, t),
         Agree(t, s), NEW i \in 1..Len(t), NEW j \in 1..Len(s), Len(old) <= j
  PROVE  t[i] # s[j]
<1>1. SUFFICES ASSUME t[i] = s[j] PROVE FALSE
  OBVIOUS
<1>2. i = j /\ \A k \in 1..i : t[k] = s[k]
  BY <1>1, AgreeIs
<1>3. Len(old) <= Len(t)
  BY <1>2
<1>4. \A k \in 1..Len(old) : old[k] = s[k]
  BY PrefixIs
<1>5. \A k \in 1..Len(old) : old[k] = t[k]
  BY <1>2, <1>4
<1> QED BY <1>3, <1>5, PrefixIs

\* A path that is moved agrees with one that is not.
LEMMA MovedAgrees ==
  ASSUME NEW x \in Seq(Dept), NEW y \in Seq(Dept), NEW old \in Seq(Dept), NEW q \in Seq(Dept), NEW n \in Dept,
         Leads(old, n), ~IsPrefix(old, q), Agree(x, y), Agree(q, x), Agree(q, y), IsPrefix(old, x), ~IsPrefix(old, y)
  PROVE  Agree(NewPath(x, old, Append(q, n)), y) /\ NewPath(x, old, Append(q, n)) \in Seq(Dept)
<1>6. PICK a \in Nat, b \in Nat : a = Len(old) /\ b = Len(q)
  OBVIOUS
<1>0. PICK d \in Nat, e \in Nat : d = Len(x) /\ e = Len(y)
  OBVIOUS
<1>1. PICK u : u = NewPath(x, old, Append(q, n))
  OBVIOUS
<1>5. /\ NewPath(x, old, Append(q, n)) \in Seq(Dept)
     /\ Len(NewPath(x, old, Append(q, n))) = Len(x) + (Len(q) + 1 - Len(old))
     /\ Len(old) <= Len(x) /\ Len(old) > 0
     /\ \A k \in 1..Len(x) + (Len(q) + 1 - Len(old)) :
          NewPath(x, old, Append(q, n))[k] = IF k <= Len(q) THEN q[k] ELSE x[k - (Len(q) + 1) + Len(old)]
  BY MovedIs
<1>2. /\ u \in Seq(Dept) /\ Len(u) = d + (b + 1 - a) /\ a <= d /\ a > 0
      /\ \A k \in 1..d + (b + 1 - a) : u[k] = IF k <= b THEN q[k] ELSE x[k - (b + 1) + a]
  BY <1>6, <1>0, <1>1, <1>5
<1>3. ASSUME NEW i \in 1..d + (b + 1 - a), NEW j \in 1..e, u[i] = y[j]
      PROVE  i = j /\ \A k \in 1..i : u[k] = y[k]
  <2>1. CASE i <= b
    <3>1. q[i] = y[j] /\ i \in 1..b
      BY <1>2, <1>3, <2>1
    <3>2. i = j /\ \A k \in 1..i : q[k] = y[k]
      <4>1. i \in DOMAIN q /\ j \in DOMAIN y
        BY <1>6, <1>0, <3>1
      <4> QED BY <3>1, <4>1 DEF Agree
    <3>3. \A k \in 1..i : k <= b /\ k \in 1..d + (b + 1 - a)
      BY <1>3, <2>1
    <3>4. \A k \in 1..i : u[k] = q[k]
      BY <1>2, <3>3
    <3> QED BY <3>2, <3>4
  <2>2. CASE ~(i <= b)
    <3>1. PICK z \in 1..d : z = i - (b + 1) + a /\ a <= z
      BY <1>2, <2>2
    <3>2. y[j] = x[z]
      BY <1>2, <1>3, <2>2, <3>1
    <3>3. Agree(y, x)
      BY AgreeAlike
    <3> QED BY <1>6, <1>0, <1>1, <3>1, <3>2, <3>3, Beyond
  <2> QED BY <2>1, <2>2
<1>4. Agree(u, y)
  BY <1>0, <1>2, <1>3, AgreeIs
<1> QED BY <1>1, <1>2, <1>4

LEMMA NewPathsAgree ==
  ASSUME NEW s \in Seq(Dept), NEW t \in Seq(Dept), NEW old \in Seq(Dept), NEW q \in Seq(Dept), NEW n \in Dept,
         Leads(old, n), ~IsPrefix(old, q), Agree(s, t), Agree(q, s), Agree(q, t), Agree(q, q)
  PROVE  Agree(NewPath(s, old, Append(q, n)), NewPath(t, old, Append(q, n)))
<1>1. PICK a \in Nat, b \in Nat : a = Len(old) /\ b = Len(q)
  OBVIOUS
<1>9. \A i, j \in 1..b : q[i] = q[j] => i = j
  BY <1>1, AgreeIs
<1>2. PICK v, w : v = NewPath(s, old, Append(q, n)) /\ w = NewPath(t, old, Append(q, n))
  OBVIOUS
<1>3. PICK l \in Nat, m \in Nat : l = Len(s) /\ m = Len(t)
  OBVIOUS
<1>4. CASE IsPrefix(old, s) /\ IsPrefix(old, t)
  <2>8. /\ NewPath(s, old, Append(q, n)) \in Seq(Dept)
       /\ Len(NewPath(s, old, Append(q, n))) = Len(s) + (Len(q) + 1 - Len(old))
       /\ Len(old) <= Len(s) /\ Len(old) > 0
       /\ \A k \in 1..Len(s) + (Len(q) + 1 - Len(old)) :
            NewPath(s, old, Append(q, n))[k] = IF k <= Len(q) THEN q[k] ELSE s[k - (Len(q) + 1) + Len(old)]
    BY <1>4, MovedIs
  <2>9. /\ NewPath(t, old, Append(q, n)) \in Seq(Dept)
       /\ Len(NewPath(t, old, Append(q, n))) = Len(t) + (Len(q) + 1 - Len(old))
       /\ Len(old) <= Len(t) /\ Len(old) > 0
       /\ \A k \in 1..Len(t) + (Len(q) + 1 - Len(old)) :
            NewPath(t, old, Append(q, n))[k] = IF k <= Len(q) THEN q[k] ELSE t[k - (Len(q) + 1) + Len(old)]
    BY <1>4, MovedIs
  <2>1. /\ v \in Seq(Dept) /\ Len(v) = l + (b + 1 - a) /\ a <= l /\ a > 0
        /\ \A k \in 1..l + (b + 1 - a) : v[k] = IF k <= b THEN q[k] ELSE s[k - (b + 1) + a]
    BY <1>1, <1>2, <1>3, <2>8
  <2>2. /\ w \in Seq(Dept) /\ Len(w) = m + (b + 1 - a) /\ a <= m
        /\ \A k \in 1..m + (b + 1 - a) : w[k] = IF k <= b THEN q[k] ELSE t[k - (b + 1) + a]
    BY <1>1, <1>2, <1>3, <2>9
  <2>10. DOMAIN v = 1..l + (b + 1 - a) /\ DOMAIN w = 1..m + (b + 1 - a)
    BY <2>1, <2>2
  <2>3. SUFFICES ASSUME NEW i \in 1..l + (b + 1 - a), NEW j \in 1..m + (b + 1 - a), v[i] = w[j]
                 PROVE  i = j /\ \A k \in 1..i : v[k] = w[k]
    BY <1>2, <2>10 DEF Agree
  <2>4. CASE i <= b /\ j <= b
    <3>1. q[i] = q[j] /\ i \in 1..b /\ j \in 1..b
      BY <2>1, <2>2, <2>3, <2>4
    <3>2. i = j
      BY <1>9, <3>1
    <3>3. \A k \in 1..i : k <= b /\ k \in 1..l + (b + 1 - a) /\ k \in 1..m + (b + 1 - a)
      BY <2>3, <2>4, <3>2
    <3>4. \A k \in 1..i : v[k] = q[k] /\ w[k] = q[k]
      BY <2>1, <2>2, <3>3
    <3> QED BY <3>2, <3>4
  <2>5. CASE i <= b /\ ~(j <= b)
    <3>1. PICK y \in 1..m : y = j - (b + 1) + a /\ a <= y
      BY <2>1, <2>2, <2>5
    <3>2. q[i] = t[y] /\ i \in 1..b
      BY <2>1, <2>2, <2>3, <2>5, <3>1
    <3> QED BY <1>1, <1>3, <1>4, <3>1, <3>2, Beyond
  <2>6. CASE ~(i <= b) /\ j <= b
    <3>1. PICK x \in 1..l : x = i - (b + 1) + a /\ a <= x
      BY <2>1, <2>2, <2>6
    <3>2. q[j] = s[x] /\ j \in 1..b
      BY <2>1, <2>2, <2>3, <2>6, <3>1
    <3> QED BY <1>1, <1>3, <1>4, <3>1, <3>2, Beyond
  <2>7. CASE ~(i <= b) /\ ~(j <= b)
    <3>1. PICK x \in 1..l, y \in 1..m : x = i - (b + 1) + a /\ y = j - (b + 1) + a
      BY <2>1, <2>2, <2>7
    <3>2. s[x] = t[y]
      BY <2>1, <2>2, <2>3, <2>7, <3>1
    <3>3. x = y /\ \A k \in 1..x : s[k] = t[k]
      <4>1. x \in DOMAIN s /\ y \in DOMAIN t
        BY <1>3
      <4> QED BY <3>2, <4>1 DEF Agree
    <3>4. i = j
      BY <3>1, <3>3
    <3>5. ASSUME NEW k \in 1..i PROVE v[k] = w[k]
      <4>1. k \in 1..l + (b + 1 - a) /\ k \in 1..m + (b + 1 - a)
        BY <3>4
      <4>2. CASE k <= b
        BY <2>1, <2>2, <4>1, <4>2
      <4>3. CASE ~(k <= b)
        <5>1. PICK z \in 1..x : z = k - (b + 1) + a
          BY <2>1, <3>1, <4>3
        <5>2. v[k] = s[z] /\ w[k] = t[z]
          BY <2>1, <2>2, <4>1, <4>3, <5>1
        <5> QED BY <3>3, <5>2
      <4> QED BY <4>2, <4>3
    <3> QED BY <3>4, <3>5
  <2> QED BY <2>4, <2>5, <2>6, <2>7
<1>6. CASE IsPrefix(old, s) /\ ~IsPrefix(old, t)
  <2>1. w = t
    BY <1>2, <1>6 DEF NewPath
  <2> QED BY <1>2, <1>6, <2>1, MovedAgrees
<1>7. CASE ~IsPrefix(old, s) /\ IsPrefix(old, t)
  <2>1. v = s
    BY <1>2, <1>7 DEF NewPath
  <2>2. Agree(t, s)
    BY AgreeAlike
  <2>3. Agree(w, s) /\ w \in Seq(Dept)
    BY <1>2, <1>7, <2>2, MovedAgrees
  <2> QED BY <1>2, <2>1, <2>3, AgreeAlike
<1>8. CASE ~IsPrefix(old, s) /\ ~IsPrefix(old, t)
  BY <1>8 DEF NewPath
<1> QED BY <1>4, <1>6, <1>7, <1>8

-----------------------------------------------------------------------------
(* Steps and the tree.                                                     *)

LEMMA PathsInIs ==
  ASSUME NEW r
  PROVE  /\ r.op = "create" /\ r.step = "insert" => PathsIn(r) = {r.path}
         /\ r.op = "create" /\ r.step = "path" => PathsIn(r) = {r.path, Append(r.path, r.node)}
         /\ r.op = "move" /\ r.step = "parent" => PathsIn(r) = {r.old.path}
         /\ r.op = "move" /\ r.step = "commit" => PathsIn(r) = {r.old.path, Front(r.path)}
         /\ r.op \notin {"create", "move"} => PathsIn(r) = {}
BY DEF PathsIn

LEMMA FrontPath ==
  ASSUME NEW s \in Seq(Dept)
  PROVE  Front(s) \in Seq(Dept)
<1>1. PICK L \in Nat : L = Len(s)
  OBVIOUS
<1>2. \A k \in 1..L - 1 : s[k] \in Dept
  BY <1>1
<1> QED BY <1>1, <1>2 DEF Front

LEMMA PathsTyped ==
  ASSUME BaseInv, NEW s \in PathsThere
  PROVE  s \in Seq(Dept)
<1>1. CASE s = <<>>
  BY <1>1
<1>2. CASE \E d \in Settled : s = dept[d].path
  BY <1>2, DeptRows DEF Settled
<1>3. CASE \E c \in Call : s \in PathsIn(call[c])
  <2>1. PICK c, r : c \in Call /\ r = call[c] /\ s \in PathsIn(r)
    BY <1>3
  <2>2. r \in Request /\ RequestOK(r, unused, user)
    BY <2>1 DEF BaseInv, RequestOK
  <2>3. CASE r.op = "create"
    <3>1. /\ r.path \in Seq(Dept) /\ r.step \in {"insert", "path"}
          /\ r.step = "path" => r.node \in Dept
      BY <2>2, <2>3, Kinds9 DEF CreateRequest, RequestOK
    <3>2. r.step = "path" => Append(r.path, r.node) \in Seq(Dept)
      BY <3>1, AppendPath
    <3>3. CASE r.step = "insert"
      <4>1. PathsIn(r) = {r.path}
        BY <2>3, <3>3, PathsInIs
      <4> QED BY <2>1, <3>1, <4>1
    <3>4. CASE r.step = "path"
      <4>1. PathsIn(r) = {r.path, Append(r.path, r.node)}
        BY <2>3, <3>4, PathsInIs
      <4> QED BY <2>1, <3>1, <3>2, <3>4, <4>1
    <3> QED BY <3>1, <3>3, <3>4
  <2>4. CASE r.op = "move"
    <3>1. r.path \in Seq(Dept) /\ r.old.path \in Seq(Dept) /\ r.step \in {"parent", "commit"}
      BY <2>2, <2>4, Kinds9 DEF MoveRequest, DeptRow
    <3>2. Front(r.path) \in Seq(Dept)
      BY <3>1, FrontPath
    <3> QED BY <2>1, <2>4, <3>1, <3>2, PathsInIs
  <2>5. CASE r.op \notin {"create", "move"}
    BY <2>1, <2>5, PathsInIs
  <2> QED BY <2>3, <2>4, <2>5
<1> QED BY <1>1, <1>2, <1>3 DEF PathsThere

LEMMA KeptBefore ==
  ASSUME NEW c, NEW q, Moves(c, q), TreeKept'
  PROVE  TreeKept
BY DEF Moves, TreeKept, Apart

\* Where the tree is kept, a move is alone with the tree.
LEMMA MovesAlone ==
  ASSUME BaseInv, TreeKept, NEW c \in Call, NEW o \in Call, c # o, call[c].op = "move"
  PROVE  call[o].op \notin {"create", "move"}
<1>1. SUFFICES ASSUME call[o].op \in {"create", "move"} PROVE FALSE
  OBVIOUS
<1>2. Active(c) /\ Active(o) /\ Kind(call[c].op) = "move" /\ Kind(call[o].op) = call[o].op
  BY <1>1 DEF Active, Kind
<1>3. {"move", call[o].op} \in mixed
  BY <1>2 DEF BaseInv, Overlaps
<1>4. {"move", "move"} \notin mixed /\ {"create", "move"} \notin mixed
  BY DEF TreeKept, Apart
<1>5. {"move", "create"} = {"create", "move"}
  OBVIOUS
<1> QED BY <1>1, <1>3, <1>4, <1>5

LEMMA MovesAloneNext ==
  ASSUME BaseInv', TreeKept', NEW c \in Call, NEW o \in Call, c # o, call'[c].op = "move"
  PROVE  call'[o].op \notin {"create", "move"}
<1>1. SUFFICES ASSUME call'[o].op \in {"create", "move"} PROVE FALSE
  OBVIOUS
<1>2. Active(c)' /\ Active(o)' /\ Kind(call'[c].op) = "move" /\ Kind(call'[o].op) = call'[o].op
  BY <1>1 DEF Active, Kind
<1>3. {"move", call'[o].op} \in mixed'
  BY <1>2 DEF BaseInv, Overlaps
<1>4. {"move", "move"} \notin mixed' /\ {"create", "move"} \notin mixed'
  BY DEF TreeKept, Apart
<1>5. {"move", "create"} = {"create", "move"}
  OBVIOUS
<1> QED BY <1>1, <1>3, <1>4, <1>5

\* Fewer departments, with the paths they had.
LEMMA ItemsShrink ==
  ASSUME NEW rows, NEW fewer, DOMAIN fewer \subseteq DOMAIN rows, \A d \in DOMAIN fewer : fewer[d] = rows[d],
         NEW settled, NEW r
  PROVE  /\ CreateItem(r, rows, settled) => CreateItem(r, fewer, settled \cap DOMAIN fewer)
         /\ MoveItem(r, rows) => MoveItem(r, fewer)
         /\ \A d \in DOMAIN fewer : ChainRow(d, rows, settled) => ChainRow(d, fewer, settled \cap DOMAIN fewer)
BY DEF CreateItem, MoveItem, ChainRow

\* A request that neither inserts a department nor gives one its path.
LEMMA TreePasses ==
  ASSUME BaseInv, Tree, NEW c \in Call, NEW q, Moves(c, q), unused' = unused,
         Live' \subseteq Live, \A d \in Live' : dept'[d] = dept[d],
         ~(call[c].op = "create" /\ call[c].step = "path"), ~(q.op = "create" /\ q.step = "path"),
         PathsIn(q) \subseteq PathsThere, CreateItem(q, dept, Settled), MoveItem(q, dept)
  PROVE  Tree'
<1>1. call'[c] = q /\ \A o \in Call \ {c} : call'[o] = call[o]
  BY DEF Moves, BaseInv
<1>2. \A o \in Call : At(o, "create", "path")' <=> At(o, "create", "path")
  BY <1>1 DEF At, Active
<1>3. \A o \in Call : At(o, "create", "path") => call'[o] = call[o]
  BY <1>1 DEF At
<1>4. \A d : Unfinished(d)' <=> Unfinished(d)
  BY <1>2, <1>3 DEF Unfinished
<1>5. Settled' = Settled \cap Live'
  BY <1>4 DEF Settled
<1>6. NodesApart'
  BY <1>2, <1>3 DEF NodesApart, Tree
<1>7. PathsThere' \subseteq PathsThere
  <2>1. ASSUME NEW s \in PathsThere' PROVE s \in PathsThere
    <3>1. CASE s = <<>>
      BY <3>1 DEF PathsThere
    <3>2. CASE \E d \in Settled' : s = dept'[d].path
      BY <1>5, <3>2 DEF PathsThere
    <3>3. CASE \E o \in Call : s \in PathsIn(call'[o])
      BY <1>1, <3>3 DEF PathsThere
    <3> QED BY <2>1, <3>1, <3>2, <3>3 DEF PathsThere
  <2> QED BY <2>1
<1>8. OneTree(PathsThere', unused')
  BY <1>7 DEF OneTree, Tree
<1>9. \A d \in Settled' : ChainRow(d, dept', Settled')
  BY <1>5, ItemsShrink DEF Tree, Live
<1>10. \A o \in Call : CreateItem(call[o], dept, Settled) /\ MoveItem(call[o], dept)
  BY DEF Tree
<1>11. \A o \in Call : CreateItem(call'[o], dept, Settled) /\ MoveItem(call'[o], dept)
  BY <1>1, <1>10
<1>12. \A o \in Call : CreateItem(call'[o], dept', Settled') /\ MoveItem(call'[o], dept')
  BY <1>5, <1>11, ItemsShrink DEF Live
<1> QED BY <1>6, <1>8, <1>9, <1>12 DEF Tree

LEMMA PathOfOne ==
  ASSUME NEW s \in Seq(Dept), NEW d, Len(s) = 1, s[1] = d
  PROVE  s = <<d>>
OBVIOUS

LEMMA CreateStartTree ==
  ASSUME BaseInv, Tree, TreeKept', NEW c \in Call, CreateStart(c)
  PROVE  Tree'
<1>1. PICK q : /\ TreeStep(c, q) /\ call[c].op = "idle" /\ UNCHANGED <<dept, unused, rel>>
               /\ q.op = "create" /\ q.step = "insert"
               /\ \/ /\ q.parent \in Live /\ q.path = dept[q.parent].path
                     /\ q.depth = dept[q.parent].depth + 1 /\ (Unfinished(q.parent) => early')
                  \/ Live = {} /\ q.parent = NoDept /\ q.path = <<>> /\ q.depth = 1
  BY CreateStartSteps
<1>2. PathsIn(q) = {q.path}
  BY <1>1, PathsInIs
<1>3. q.path \in PathsThere /\ CreateItem(q, dept, Settled)
  <2>1. CASE /\ q.parent \in Live /\ q.path = dept[q.parent].path
             /\ q.depth = dept[q.parent].depth + 1 /\ (Unfinished(q.parent) => early')
    <3>1. q.parent \in Settled
      BY <2>1 DEF Settled, TreeKept
    <3>2. dept[q.parent].depth = Len(dept[q.parent].path)
      BY <3>1 DEF Tree, ChainRow
    <3>3. q.parent # NoDept
      BY <2>1, DeptRows
    <3> QED BY <1>1, <2>1, <3>1, <3>2, <3>3 DEF PathsThere, CreateItem
  <2>2. CASE Live = {} /\ q.parent = NoDept /\ q.path = <<>> /\ q.depth = 1
    <3>1. Len(<<>>) = 0
      OBVIOUS
    <3>2. q.depth = Len(q.path) + 1
      BY <2>2, <3>1
    <3> QED BY <1>1, <2>2, <3>2 DEF PathsThere, CreateItem, Live
  <2> QED BY <1>1, <2>1, <2>2
<1>4. MoveItem(q, dept)
  BY <1>1 DEF MoveItem
<1>5. Live' \subseteq Live /\ (\A d \in Live' : dept'[d] = dept[d]) /\ Moves(c, q)
  BY <1>1 DEF Live, TreeStep
<1> QED BY <1>1, <1>2, <1>3, <1>4, <1>5, TreePasses

LEMMA CreateInsertTree ==
  ASSUME BaseInv, Tree, NEW c \in Call, CreateInsert(c)
  PROVE  Tree'
<1>1. PICK q, d : /\ TreeStep(c, q) /\ At(c, "create", "insert") /\ rel' = rel
                  /\ d \in unused /\ unused' = unused \ {d}
                  /\ dept' = Adding(dept, d, [parent |-> call[c].parent, path |-> call[c].path,
                                              depth |-> call[c].depth])
                  /\ q.op = "create" /\ q.step = "path" /\ q.node = d /\ q.parent = call[c].parent
                  /\ q.path = call[c].path /\ q.depth = call[c].depth
  BY CreateInsertSteps
<1>2. /\ call'[c] = q /\ \A o \in Call \ {c} : call'[o] = call[o]
      /\ q # Idle
  BY <1>1 DEF TreeStep, Moves, BaseInv, Idle
<1>3. PICK r : r = call[c]
  OBVIOUS
<1>4. r.op = "create" /\ r.step = "insert" /\ r.path \in Seq(Dept) /\ r.parent \notin unused
  BY <1>1, <1>3, TreeIs DEF Trees, CreateRequest, RequestOK
<1>5. d \in Dept /\ d \notin Live
  BY <1>1 DEF BaseInv, DeptTable
<1>6. /\ Live' = Live \cup {d} /\ dept'[d].parent = r.parent
      /\ \A e \in Live : dept'[e] = dept[e]
  BY <1>1, <1>3, <1>5 DEF Adding, Live
<1>7. \A o \in Call : RequestOK(call[o], unused, user)
  BY DEF BaseInv
<1>8. \A o \in Call : At(o, "create", "path")' <=> At(o, "create", "path") \/ o = c
  BY <1>1, <1>2 DEF At, Active
<1>9. \A o \in Call : At(o, "create", "path") => o # c /\ call'[o] = call[o] /\ call[o].node # d
  <2>1. SUFFICES ASSUME NEW o \in Call, At(o, "create", "path") PROVE o # c /\ call'[o] = call[o] /\ call[o].node # d
    OBVIOUS
  <2>2. call[o].op = "create" /\ call[o].step = "path"
    BY <2>1 DEF At
  <2>3. call[o].node \notin unused
    BY <1>7, <2>2 DEF RequestOK
  <2> QED BY <1>1, <1>2, <1>3, <1>4, <2>2, <2>3
<1>10. \A e : Unfinished(e)' <=> Unfinished(e) \/ e = d
  BY <1>1, <1>2, <1>8, <1>9 DEF Unfinished
<1>11. Settled' = Settled
  BY <1>5, <1>6, <1>10 DEF Settled
<1>12. NodesApart'
  BY <1>1, <1>2, <1>8, <1>9 DEF NodesApart, Tree
<1>13. PICK w : w = Append(r.path, d)
  OBVIOUS
<1>14. PathsIn(q) = {r.path, w} /\ PathsIn(r) = {r.path}
  BY <1>1, <1>3, <1>4, <1>13, PathsInIs
<1>15. PathsThere' \subseteq PathsThere \cup {w}
  <2>1. ASSUME NEW s \in PathsThere' PROVE s \in PathsThere \cup {w}
    <3>1. CASE s = <<>>
      BY <3>1 DEF PathsThere
    <3>2. CASE \E e \in Settled' : s = dept'[e].path
      BY <1>6, <1>11, <3>2 DEF PathsThere, Settled
    <3>3. CASE \E o \in Call : s \in PathsIn(call'[o])
      <4>1. PICK o \in Call : s \in PathsIn(call'[o])
        BY <3>3
      <4>2. s \in PathsIn(call[o]) \/ s = w
        BY <1>2, <1>3, <1>14, <4>1
      <4> QED BY <4>2 DEF PathsThere
    <3> QED BY <2>1, <3>1, <3>2, <3>3 DEF PathsThere
  <2> QED BY <2>1
<1>16. r.path \in PathsThere
  BY <1>3, <1>14 DEF PathsThere
<1>17. \A s \in PathsThere : s \in Seq(Dept) /\ \A j \in 1..Len(s) : s[j] \notin unused
  <2>1. \A s \in PathsThere : s \in Seq(Dept) /\ \A j \in DOMAIN s : s[j] \notin unused
    BY PathsTyped DEF Tree, OneTree
  <2> QED BY <2>1
<1>18. \A s \in PathsThere : Agree(w, s) /\ Agree(s, w)
  <2>1. SUFFICES ASSUME NEW s \in PathsThere PROVE Agree(w, s) /\ Agree(s, w)
    OBVIOUS
  <2>2. s \in Seq(Dept) /\ \A j \in 1..Len(s) : s[j] # d
    BY <1>1, <1>17
  <2>3. Agree(r.path, s)
    BY <1>16 DEF Tree, OneTree
  <2> QED BY <1>4, <1>5, <1>13, <2>2, <2>3, AgreeAppend
<1>19. Agree(w, w)
  <2>1. \A j \in 1..Len(r.path) : r.path[j] # d
    BY <1>1, <1>16, <1>17
  <2>2. Agree(r.path, r.path)
    BY <1>16 DEF Tree, OneTree
  <2> QED BY <1>4, <1>5, <1>13, <2>1, <2>2, AgreeWithItself
<1>20. \A i \in DOMAIN w : w[i] \notin unused'
  <2>1. PICK n \in Nat : n = Len(r.path)
    BY <1>4
  <2>2. /\ DOMAIN w = 1..n + 1 /\ w[n + 1] = d
        /\ \A k \in 1..n : w[k] = r.path[k]
    BY <1>4, <1>5, <1>13, <2>1, AppendPath
  <2>3. \A k \in 1..n : r.path[k] \notin unused
    BY <1>16, <1>17, <2>1
  <2> QED BY <1>1, <2>2, <2>3
<1>21. OneTree(PathsThere', unused')
  BY <1>1, <1>15, <1>18, <1>19, <1>20 DEF OneTree, Tree
<1>22. ASSUME NEW e \in Settled PROVE ChainRow(e, dept', Settled')
  <2>1. ChainRow(e, dept, Settled) /\ e \in Live /\ dept'[e] = dept[e]
    BY <1>6 DEF Tree, Settled
  <2>2. dept[e].parent \notin unused
    BY <2>1, DeptRows
  <2>3. dept[e].parent \in Live' => dept[e].parent \in Live /\ dept'[dept[e].parent] = dept[dept[e].parent]
    BY <1>1, <1>6, <2>2
  <2> QED BY <1>11, <2>1, <2>3 DEF ChainRow, Live
<1>23. ASSUME NEW o \in Call, o # c PROVE CreateItem(call'[o], dept', Settled') /\ MoveItem(call'[o], dept')
  <2>1. PICK x : x = call[o] /\ x = call'[o]
    BY <1>2, <1>23
  <2>2. RequestOK(x, unused, user) /\ CreateItem(x, dept, Settled) /\ MoveItem(x, dept)
    BY <1>7, <2>1 DEF Tree
  <2>3. \A e : e \notin unused /\ e \in Live' => e \in Live /\ dept'[e] = dept[e]
    BY <1>1, <1>6
  <2>4. CreateItem(x, dept', Settled')
    <3>1. SUFFICES ASSUME x.op = "create" PROVE CreateItem(x, dept', Settled')
      BY DEF CreateItem
    <3>2. x.parent \notin unused /\ x.node \notin unused
      BY <2>2, <3>1 DEF RequestOK
    <3> QED BY <1>11, <2>2, <2>3, <3>1, <3>2 DEF CreateItem, Live
  <2>5. MoveItem(x, dept')
    <3>1. SUFFICES ASSUME x.op = "move" PROVE MoveItem(x, dept')
      BY DEF MoveItem
    <3>2. x.node \notin unused /\ (x.step = "commit" => x.parent \notin unused)
      BY <2>2, <3>1 DEF RequestOK
    <3> QED BY <2>2, <2>3, <3>1, <3>2 DEF MoveItem, Live
  <2> QED BY <2>1, <2>4, <2>5
<1>24. CreateItem(q, dept', Settled') /\ MoveItem(q, dept')
  <2>1. CreateItem(r, dept, Settled)
    BY <1>3 DEF Tree
  <2>2. r.parent \in Live' => r.parent \in Live /\ dept'[r.parent] = dept[r.parent]
    BY <1>1, <1>4, <1>6
  <2> QED BY <1>1, <1>3, <1>4, <1>6, <1>11, <2>1, <2>2 DEF CreateItem, MoveItem, Live
<1>25. \A o \in Call : CreateItem(call'[o], dept', Settled') /\ MoveItem(call'[o], dept')
  BY <1>2, <1>23, <1>24
<1> QED BY <1>11, <1>12, <1>21, <1>22, <1>25 DEF Tree

LEMMA CreatePathTree ==
  ASSUME BaseInv, Tree, TreeKept, NEW c \in Call, CreatePath(c)
  PROVE  Tree'
<1> DEFINE r == call[c]  n == r.node
<1>1. /\ TreeStep(c, Idle) /\ At(c, "create", "path") /\ UNCHANGED <<unused, rel>>
      /\ Live' = Live
      /\ \A d \in Live :
           /\ dept'[d].parent = dept[d].parent
           /\ d # n => dept'[d] = dept[d]
           /\ d = n => dept'[d].path = Append(r.path, d) /\ dept'[d].depth = r.depth
  BY CreatePathSteps
<1>2. call'[c] = Idle /\ \A o \in Call \ {c} : call'[o] = call[o]
  BY <1>1 DEF TreeStep, Moves, BaseInv
<1>3. r.op = "create" /\ r.step = "path" /\ r.path \in Seq(Dept) /\ n \in Dept /\ Active(c)
  BY <1>1, TreeIs DEF Trees, CreateRequest, RequestOK
<1>4. \A o \in Call : At(o, "create", "path")' <=> At(o, "create", "path") /\ o # c
  BY <1>2 DEF At, Active, Idle
<1>5. \A o \in Call : At(o, "create", "path")' => call'[o] = call[o] /\ call[o].node # n
  BY <1>1, <1>2, <1>4 DEF NodesApart, Tree
<1>6. \A e : Unfinished(e)' <=> Unfinished(e) /\ e # n
  BY <1>1, <1>4, <1>5 DEF Unfinished
<1>7. Settled' = Settled \cup ({n} \cap Live) /\ n \notin Settled
  <2>1. Unfinished(n)
    BY <1>1 DEF Unfinished
  <2>2. ASSUME NEW e PROVE e \in Settled' <=> e \in Settled \/ (e = n /\ e \in Live)
    BY <1>1, <1>6, <2>1 DEF Settled
  <2> QED BY <2>1, <2>2 DEF Settled
<1>8. NodesApart'
  BY <1>4, <1>5 DEF NodesApart, Tree
<1>9. PathsThere' \subseteq PathsThere
  <2>1. ASSUME NEW s \in PathsThere' PROVE s \in PathsThere
    <3>1. CASE s = <<>>
      BY <3>1 DEF PathsThere
    <3>2. CASE \E e \in Settled' : s = dept'[e].path
      <4>1. PICK e \in Settled' : s = dept'[e].path
        BY <3>2
      <4>2. CASE e = n
        <5>1. s = Append(r.path, n)
          BY <1>1, <1>7, <4>1, <4>2
        <5>2. s \in PathsIn(r)
          BY <1>3, <5>1, PathsInIs
        <5> QED BY <5>2 DEF PathsThere
      <4>3. CASE e # n
        <5>1. e \in Settled /\ dept'[e] = dept[e]
          BY <1>1, <1>7, <4>1, <4>3 DEF Settled
        <5> QED BY <4>1, <5>1 DEF PathsThere
      <4> QED BY <4>2, <4>3
    <3>3. CASE \E o \in Call : s \in PathsIn(call'[o])
      <4>1. PICK o \in Call : s \in PathsIn(call'[o])
        BY <3>3
      <4>2. PathsIn(Idle) = {}
        BY PathsInIs DEF Idle
      <4>3. s \in PathsIn(call[o])
        BY <1>2, <4>1, <4>2
      <4> QED BY <4>3 DEF PathsThere
    <3> QED BY <2>1, <3>1, <3>2, <3>3 DEF PathsThere
  <2> QED BY <2>1
<1>10. OneTree(PathsThere', unused')
  BY <1>1, <1>9 DEF OneTree, Tree
<1>11. ASSUME NEW d \in Settled PROVE ChainRow(d, dept', Settled')
  <2>1. ChainRow(d, dept, Settled) /\ d \in Live /\ d # n
    BY <1>7 DEF Tree, Settled
  <2>2. dept'[d] = dept[d]
    BY <1>1, <2>1
  <2>3. dept[d].parent \in Live => dept[d].parent \in Settled /\ dept'[dept[d].parent] = dept[dept[d].parent]
    BY <1>1, <1>7, <2>1 DEF ChainRow, Live
  <2> QED BY <1>1, <1>7, <2>1, <2>2, <2>3 DEF ChainRow, Live
<1>12. CreateItem(r, dept, Settled)
  BY DEF Tree
<1>13. r.parent \in Live => r.parent \in Settled /\ r.path = dept[r.parent].path /\ dept'[r.parent] = dept[r.parent]
  BY <1>1, <1>3, <1>7, <1>12 DEF CreateItem, Live
<1>14. ASSUME n \in Live PROVE ChainRow(n, dept', Settled')
  <2>0. PICK k \in Nat : k = Len(r.path)
    BY <1>3
  <2>1. PICK w : w = Append(r.path, n)
    OBVIOUS
  <2>2. w \in Seq(Dept) /\ Len(w) = k + 1 /\ w[k + 1] = n
    BY <1>3, <2>0, <2>1, AppendPath
  <2>3. dept'[n].path = w /\ dept'[n].depth = k + 1 /\ dept'[n].parent = r.parent
    BY <1>1, <1>3, <1>12, <1>14, <2>0, <2>1 DEF CreateItem, Live
  <2>4. Leads(w, n)
    BY <2>2 DEF Leads
  <2>5. r.parent = NoDept => w = <<n>>
    <3>1. r.parent = NoDept => k = 0
      BY <1>3, <1>12, <2>0 DEF CreateItem
    <3> QED BY <2>2, <3>1, PathOfOne
  <2>6. r.parent \in Live => r.parent \in Settled' /\ w = Append(dept'[r.parent].path, n)
    BY <1>7, <1>13, <2>1
  <2> QED BY <1>1, <2>2, <2>3, <2>4, <2>5, <2>6 DEF ChainRow, Live
<1>15. ASSUME NEW o \in Call PROVE CreateItem(call'[o], dept', Settled') /\ MoveItem(call'[o], dept')
  <2>1. CASE o = c
    BY <1>2, <2>1 DEF CreateItem, MoveItem, Idle
  <2>2. CASE o # c
    <3>1. PICK x : x = call[o] /\ x = call'[o]
      BY <1>2, <2>2
    <3>2. CreateItem(x, dept, Settled)
      BY <3>1 DEF Tree
    <3>3. CreateItem(x, dept', Settled')
      <4>1. SUFFICES ASSUME x.op = "create" PROVE CreateItem(x, dept', Settled')
        BY DEF CreateItem
      <4>2. x.parent \in Live => x.parent \in Settled /\ x.path = dept[x.parent].path
        BY <3>2, <4>1 DEF CreateItem, Live
      <4>3. x.parent \in Live => x.parent \in Settled' /\ x.path = dept'[x.parent].path
        BY <1>1, <1>7, <4>2
      <4> QED BY <1>1, <3>2, <4>1, <4>3 DEF CreateItem, Live
    <3>4. x.op # "move"
      BY <1>3, <2>2, <3>1, MovesAlone
    <3> QED BY <3>1, <3>3, <3>4 DEF MoveItem
  <2> QED BY <2>1, <2>2
<1>16. \A d \in Settled' : ChainRow(d, dept', Settled')
  BY <1>7, <1>11, <1>14
<1> QED BY <1>8, <1>10, <1>15, <1>16 DEF Tree

LEMMA CreateBreaksTree ==
  ASSUME BaseInv, TreeKept', NEW c \in Call
  PROVE  ~CreateBreaks(c)
BY CreateBreaksSteps DEF TreeKept

LEMMA MoveStartTree ==
  ASSUME BaseInv, Tree, TreeKept', NEW c \in Call, MoveStart(c)
  PROVE  Tree'
<1>1. PICK q : /\ TreeStep(c, q) /\ call[c].op = "idle" /\ UNCHANGED <<dept, unused, rel>>
               /\ q.op = "move" /\ q.step = "parent" /\ q.node \in Live /\ q.old = dept[q.node]
  BY MoveStartSteps
<1>2. Moves(c, q) /\ call'[c] = q /\ \A o \in Call \ {c} : call'[o] = call[o]
  BY <1>1 DEF TreeStep, Moves, BaseInv
<1>3. BaseInv'
  BY <1>1, StepKeepsBase
<1>4. \A o \in Call \ {c} : call[o].op # "create"
  BY <1>1, <1>2, <1>3, MovesAloneNext
<1>5. q.node \in Settled
  BY <1>1, <1>4 DEF Settled, Unfinished, At
<1>6. ChainRow(q.node, dept, Settled)
  BY <1>5 DEF Tree
<1>7. MoveItem(q, dept) /\ CreateItem(q, dept, Settled)
  BY <1>1, <1>6 DEF MoveItem, ChainRow, CreateItem
<1>8. PathsIn(q) = {dept[q.node].path}
  BY <1>1, PathsInIs
<1>9. PathsIn(q) \subseteq PathsThere
  BY <1>5, <1>8 DEF PathsThere
<1>10. Live' \subseteq Live /\ (\A d \in Live' : dept'[d] = dept[d])
  BY <1>1 DEF Live
<1> QED BY <1>1, <1>2, <1>7, <1>9, <1>10, TreePasses

LEMMA SettledByMove ==
  ASSUME BaseInv, TreeKept, NEW c \in Call, call[c].op = "move"
  PROVE  Settled = Live
<1>1. \A o \in Call : call[o].op # "create"
  BY MovesAlone
<1> QED BY <1>1 DEF Settled, Unfinished, At

\* A request that ends, or only reads, having nothing to do with paths.
LEMMA PathlessTree ==
  ASSUME BaseInv, Tree, NEW c \in Call, NEW q, Moves(c, q), unused' = unused,
         Live' \subseteq Live, \A d \in Live' : dept'[d] = dept[d],
         ~(call[c].op = "create" /\ call[c].step = "path"), q.op \notin {"create", "move"}
  PROVE  Tree'
<1>1. PathsIn(q) = {} /\ CreateItem(q, dept, Settled) /\ MoveItem(q, dept)
  BY PathsInIs DEF CreateItem, MoveItem
<1> QED BY <1>1, TreePasses

LEMMA MoveReadParentTree ==
  ASSUME BaseInv, Tree, TreeKept, NEW c \in Call, MoveReadParent(c)
  PROVE  Tree'
<1>1. /\ At(c, "move", "parent") /\ UNCHANGED <<dept, unused, rel>>
      /\ \/ TreeStep(c, Idle)
         \/ \E q : /\ TreeStep(c, q)
                   /\ q.op = "move" /\ q.step = "commit" /\ q.node = call[c].node /\ q.old = call[c].old
                   /\ \/ q.parent = NoDept /\ q.path = <<q.node>> /\ q.depth = 1
                      \/ /\ q.parent \in Live /\ q.parent # q.node
                         /\ ~IsPrefix(q.old.path, dept[q.parent].path)
                         /\ q.path = Append(dept[q.parent].path, q.node)
                         /\ q.depth = dept[q.parent].depth + 1
  BY MoveReadParentSteps
<1>2. PICK r : r = call[c]
  OBVIOUS
<1>3. r.op = "move" /\ r.step = "parent" /\ r.node \in Dept /\ r.old.path \in Seq(Dept)
  BY <1>1, <1>2, TreeIs DEF Trees, MoveRequest, DeptRow
<1>4. Live' \subseteq Live /\ \A d \in Live' : dept'[d] = dept[d]
  BY <1>1 DEF Live
<1>5. CASE TreeStep(c, Idle)
  <2>1. Moves(c, Idle) /\ Idle.op \notin {"create", "move"}
    BY <1>5 DEF TreeStep, Idle
  <2> QED BY <1>1, <1>2, <1>3, <1>4, <2>1, PathlessTree
<1>6. ASSUME NEW q, TreeStep(c, q), q.op = "move", q.step = "commit", q.node = r.node, q.old = r.old,
             \/ q.parent = NoDept /\ q.path = <<q.node>> /\ q.depth = 1
             \/ /\ q.parent \in Live /\ q.parent # q.node
                /\ ~IsPrefix(q.old.path, dept[q.parent].path)
                /\ q.path = Append(dept[q.parent].path, q.node)
                /\ q.depth = dept[q.parent].depth + 1
      PROVE  Tree'
  <2>1. Settled = Live
    BY <1>2, <1>3, SettledByMove
  <2>2. /\ MoveItem(r, dept) /\ r.old.path \in PathsThere
    <3>1. PathsIn(r) = {r.old.path}
      BY <1>3, PathsInIs
    <3> QED BY <1>2, <3>1 DEF Tree, PathsThere
  <2>3. PathsIn(q) = {r.old.path, Front(q.path)}
    BY <1>6, PathsInIs
  <2>4. Leads(r.old.path, r.node) /\ r.old.depth = Len(r.old.path) /\ (r.node \in Live => dept[r.node] = r.old)
    BY <1>3, <2>2 DEF MoveItem, Live
  <2>5. Front(q.path) \in PathsThere /\ MoveItem(q, dept)
    <3>1. CASE q.parent = NoDept /\ q.path = <<q.node>> /\ q.depth = 1
      <4>1. PICK e : e = <<>>
        OBVIOUS
      <4>2. e \in Seq(Dept) /\ Len(e) = 0 /\ q.path = Append(e, r.node)
        BY <1>3, <1>6, <3>1, <4>1
      <4>3. Front(q.path) = e /\ Len(q.path) = 1 /\ Leads(q.path, r.node)
        <5>1. Front(q.path) = e /\ Len(q.path) = Len(e) + 1 /\ q.path[Len(e) + 1] = r.node
          <6>1. /\ Front(Append(e, r.node)) = e /\ Len(Append(e, r.node)) = Len(e) + 1
                /\ Append(e, r.node)[Len(e) + 1] = r.node
            BY <1>3, <4>2, AppendPath
          <6> QED BY <4>2, <6>1
        <5> QED BY <1>6, <3>1, <4>2, <5>1 DEF Leads
      <4>4. ~IsPrefix(r.old.path, e)
        <5>1. PICK k \in Nat : k = Len(r.old.path)
          BY <1>3
        <5>2. k # 0
          BY <1>3, <2>4, <5>1 DEF Leads
        <5>3. IsPrefix(r.old.path, e) => Len(r.old.path) <= Len(e)
          BY <1>3, <4>2, PrefixIs
        <5> QED BY <4>2, <5>1, <5>2, <5>3
      <4>5. q.parent \notin Live
        BY <3>1, DeptRows
      <4> QED BY <1>6, <2>4, <3>1, <4>1, <4>3, <4>4, <4>5 DEF MoveItem, PathsThere, Live
    <3>2. CASE /\ q.parent \in Live /\ q.parent # q.node
               /\ ~IsPrefix(q.old.path, dept[q.parent].path)
               /\ q.path = Append(dept[q.parent].path, q.node)
               /\ q.depth = dept[q.parent].depth + 1
      <4>1. PICK s : s = dept[q.parent].path
        OBVIOUS
      <4>2. s \in Seq(Dept) /\ q.parent # NoDept
        BY <3>2, <4>1, DeptRows
      <4>3. dept[q.parent].depth = Len(s) /\ s \in PathsThere
        BY <2>1, <3>2, <4>1 DEF Tree, ChainRow, PathsThere
      <4>4. /\ Front(q.path) = s /\ q.path \in Seq(Dept) /\ Len(q.path) = Len(s) + 1
            /\ q.path[Len(s) + 1] = r.node
        BY <1>3, <1>6, <3>2, <4>1, <4>2, AppendPath
      <4>5. Leads(q.path, r.node)
        BY <4>4 DEF Leads
      <4> QED BY <1>6, <2>4, <3>2, <4>1, <4>2, <4>3, <4>4, <4>5 DEF MoveItem, Live
    <3> QED BY <1>6, <3>1, <3>2
  <2>6. PathsIn(q) \subseteq PathsThere /\ CreateItem(q, dept, Settled)
    BY <1>6, <2>2, <2>3, <2>5 DEF CreateItem
  <2>7. Moves(c, q)
    BY <1>6 DEF TreeStep
  <2> QED BY <1>1, <1>2, <1>3, <1>4, <1>6, <2>5, <2>6, <2>7, TreePasses
<1> QED BY <1>1, <1>2, <1>5, <1>6

LEMMA DeleteTree ==
  ASSUME BaseInv, Tree, NEW c \in Call, DeleteActs(c)
  PROVE  Tree'
<1>1. SUFFICES \E q : /\ TreeStep(c, q) /\ unused' = unused /\ Live' \subseteq Live
                      /\ \A d \in Live' : dept'[d] = dept[d]
                      /\ call[c].op \in {"idle", "delete"} /\ q.op \in {"idle", "delete"}
  BY PathlessTree DEF TreeStep
<1>2. Idle.op = "idle" /\ (dept' = dept => Live' \subseteq Live /\ \A d \in Live' : dept'[d] = dept[d])
  BY DEF Idle, Live
<1>3. \A step : At(c, "delete", step) => call[c].op = "delete"
  BY DEF At
<1>4. CASE DeleteStart(c)
  BY <1>2, <1>4, DeleteStartSteps
<1>5. CASE DeleteReadSubtree(c)
  BY <1>2, <1>3, <1>5, DeleteReadSubtreeSteps
<1>6. CASE DeleteReadMembers(c)
  BY <1>2, <1>3, <1>6, DeleteReadMembersSteps
<1>7. CASE DeleteDept(c)
  <2>1. PICK q, d : /\ TreeStep(c, q) /\ At(c, "delete", "rows") /\ UNCHANGED <<unused, rel>>
                    /\ dept' = Dropping(dept, {d}) /\ q.op = "delete"
    BY <1>7, DeleteDeptSteps
  <2>2. Live' \subseteq Live /\ \A e \in Live' : dept'[e] = dept[e]
    BY <2>1 DEF Dropping, Live
  <2> QED BY <1>3, <2>1, <2>2
<1>8. CASE DeleteMember(c)
  BY <1>2, <1>3, <1>8, DeleteMemberSteps
<1>9. CASE DeleteEnds(c)
  BY <1>2, <1>3, <1>9, DeleteEndsSteps
<1>10. CASE DeleteBreaks(c)
  BY <1>2, <1>3, <1>10, DeleteBreaksSteps
<1> QED BY <1>4, <1>5, <1>6, <1>7, <1>8, <1>9, <1>10 DEF DeleteActs

LEMMA RelateTree ==
  ASSUME BaseInv, Tree, NEW c \in Call, NEW q, RelateStep(c, q)
  PROVE  Tree'
<1>1. /\ Moves(c, q) /\ unused' = unused /\ dept' = dept
      /\ call[c].op # "create" /\ q.op \notin {"create", "move"}
  BY DEF RelateStep, Relaters
<1>2. Live' \subseteq Live /\ \A d \in Live' : dept'[d] = dept[d]
  BY <1>1 DEF Live
<1> QED BY <1>1, <1>2, PathlessTree

\* Moving a subtree and going one department further down are done in either order.
LEMMA NewPathAppend ==
  ASSUME NEW s \in Seq(Dept), NEW old \in Seq(Dept), NEW q \in Seq(Dept), NEW n \in Dept, NEW d \in Dept,
         Leads(old, n), d # n
  PROVE  NewPath(Append(s, d), old, Append(q, n)) = Append(NewPath(s, old, Append(q, n)), d)
<1>1. PICK L \in Nat, a \in Nat, b \in Nat : L = Len(s) /\ a = Len(old) /\ b = Len(q)
  OBVIOUS
<1>2. PICK w : w = Append(s, d)
  OBVIOUS
<1>3. w \in Seq(Dept) /\ Len(w) = L + 1 /\ w[L + 1] = d /\ \A k \in 1..L : w[k] = s[k]
  BY <1>1, <1>2, AppendPath
<1>4. a > 0 /\ old[a] = n
  BY <1>1 DEF Leads
<1>5. IsPrefix(old, w) <=> IsPrefix(old, s)
  <2>1. IsPrefix(old, s) <=> a <= L /\ \A k \in 1..a : old[k] = s[k]
    BY <1>1, PrefixIs
  <2>2. IsPrefix(old, w) <=> a <= L + 1 /\ \A k \in 1..a : old[k] = w[k]
    BY <1>1, <1>3, PrefixIs
  <2>3. a = L + 1 => ~\A k \in 1..a : old[k] = w[k]
    BY <1>3, <1>4
  <2>4. a <= L => \A k \in 1..a : w[k] = s[k]
    BY <1>3
  <2> QED BY <1>1, <2>1, <2>2, <2>3, <2>4
<1>6. CASE ~IsPrefix(old, s)
  BY <1>2, <1>5, <1>6 DEF NewPath
<1>7. CASE IsPrefix(old, s)
  <2>1. PICK u : u = NewPath(w, old, Append(q, n))
    OBVIOUS
  <2>2. PICK v : v = NewPath(s, old, Append(q, n))
    OBVIOUS
  <2>3. PICK m \in Int : m = L + (b + 1 - a)
    OBVIOUS
  <2>4. /\ v \in Seq(Dept) /\ Len(v) = m /\ a <= L
        /\ \A k \in 1..m : v[k] = IF k <= b THEN q[k] ELSE s[k - (b + 1) + a]
    <3>1. /\ NewPath(s, old, Append(q, n)) \in Seq(Dept)
          /\ Len(NewPath(s, old, Append(q, n))) = Len(s) + (Len(q) + 1 - Len(old))
          /\ Len(old) <= Len(s)
          /\ \A k \in 1..Len(s) + (Len(q) + 1 - Len(old)) :
               NewPath(s, old, Append(q, n))[k] = IF k <= Len(q) THEN q[k] ELSE s[k - (Len(q) + 1) + Len(old)]
      BY <1>7, MovedIs
    <3> QED BY <1>1, <2>2, <2>3, <3>1
  <2>5. /\ u \in Seq(Dept) /\ Len(u) = L + 1 + (b + 1 - a)
        /\ \A k \in 1..L + 1 + (b + 1 - a) : u[k] = IF k <= b THEN q[k] ELSE w[k - (b + 1) + a]
    <3>1. w \in Seq(Dept) /\ IsPrefix(old, w)
      BY <1>3, <1>5, <1>7
    <3>2. /\ NewPath(w, old, Append(q, n)) \in Seq(Dept)
          /\ Len(NewPath(w, old, Append(q, n))) = Len(w) + (Len(q) + 1 - Len(old))
          /\ \A k \in 1..Len(w) + (Len(q) + 1 - Len(old)) :
               NewPath(w, old, Append(q, n))[k] = IF k <= Len(q) THEN q[k] ELSE w[k - (Len(q) + 1) + Len(old)]
      BY <3>1, MovedIs
    <3> QED BY <1>1, <1>3, <2>1, <3>2
  <2>6. L + 1 + (b + 1 - a) = m + 1 /\ m \in Nat /\ b + 1 <= m
    BY <2>3, <2>4
  <2>7. PICK x : x = Append(v, d)
    OBVIOUS
  <2>8. x \in Seq(Dept) /\ Len(x) = m + 1 /\ x[m + 1] = d /\ \A k \in 1..m : x[k] = v[k]
    <3>1. v \in Seq(Dept)
      BY <2>4
    <3>2. /\ Append(v, d) \in Seq(Dept) /\ Len(Append(v, d)) = Len(v) + 1 /\ Append(v, d)[Len(v) + 1] = d
          /\ \A k \in 1..Len(v) : Append(v, d)[k] = v[k]
      BY <3>1, AppendPath
    <3> QED BY <2>4, <2>7, <3>2
  <2>9. ASSUME NEW k \in 1..m + 1 PROVE u[k] = x[k]
    <3>1. CASE k = m + 1
      <4>1. ~(k <= b) /\ k - (b + 1) + a = L + 1 /\ k \in 1..L + 1 + (b + 1 - a)
        BY <2>3, <2>6, <3>1
      <4>2. u[k] = w[L + 1]
        BY <2>5, <4>1
      <4> QED BY <1>3, <2>8, <3>1, <4>2
    <3>2. CASE k <= m
      <4>1. k \in 1..m /\ k \in 1..L + 1 + (b + 1 - a)
        BY <2>6, <3>2
      <4>2. CASE k <= b
        BY <2>4, <2>5, <2>8, <4>1, <4>2
      <4>3. CASE ~(k <= b)
        <5>1. PICK z \in Int : z = k - (b + 1) + a
          BY <4>1
        <5>2. z \in 1..L
          BY <1>4, <2>3, <4>1, <4>3, <5>1
        <5>3. v[k] = s[z] /\ u[k] = w[z]
          BY <2>4, <2>5, <4>1, <4>3, <5>1
        <5> QED BY <1>3, <2>8, <4>1, <5>2, <5>3
      <4> QED BY <4>2, <4>3
    <3> QED BY <2>6, <3>1, <3>2
  <2>10. u = x
    BY <2>5, <2>6, <2>8, <2>9
  <2> QED BY <1>2, <2>1, <2>2, <2>7, <2>10
<1> QED BY <1>6, <1>7

LEMMA FrontAndLast ==
  ASSUME NEW s \in Seq(Dept), NEW d, Leads(s, d)
  PROVE  s = Append(Front(s), d) /\ Len(s) = Len(Front(s)) + 1 /\ Front(s) \in Seq(Dept)
<1>1. PICK L \in Nat : L = Len(s)
  OBVIOUS
<1>2. L > 0 /\ s[L] = d /\ d \in Dept
  BY <1>1 DEF Leads
<1>3. PICK f : f = Front(s)
  OBVIOUS
<1>4. f \in Seq(Dept) /\ Len(f) = L - 1 /\ \A k \in 1..L - 1 : f[k] = s[k]
  <2>1. f = SubSeq(s, 1, L - 1)
    BY <1>1, <1>3 DEF Front
  <2> QED BY <1>1, <1>2, <2>1
<1>5. PICK w : w = Append(f, d)
  OBVIOUS
<1>6. w \in Seq(Dept) /\ Len(w) = L /\ \A k \in 1..L : w[k] = s[k]
  <2>1. w \in Seq(Dept) /\ Len(w) = L - 1 + 1 /\ w[L - 1 + 1] = d /\ \A k \in 1..L - 1 : w[k] = f[k]
    BY <1>2, <1>4, <1>5, AppendPath
  <2>2. L - 1 + 1 = L
    BY <1>1
  <2>3. \A k \in 1..L : k = L \/ k \in 1..L - 1
    BY <1>1
  <2> QED BY <1>2, <1>4, <2>1, <2>2, <2>3
<1>7. w = s
  BY <1>1, <1>6
<1> QED BY <1>1, <1>3, <1>4, <1>5, <1>7

LEMMA WholePathMoved ==
  ASSUME NEW old \in Seq(Dept), NEW new \in Seq(Dept)
  PROVE  NewPath(old, old, new) = new
<1>1. PICK a \in Nat, b \in Nat : a = Len(old) /\ b = Len(new)
  OBVIOUS
<1>2. IsPrefix(old, old)
  BY PrefixIs
<1>3. PICK e : e = SubSeq(old, a + 1, a)
  OBVIOUS
<1>4. e \in Seq(Dept) /\ Len(e) = 0
  BY <1>1, <1>3
<1>5. PICK t : t = new \o e
  OBVIOUS
<1>6. t \in Seq(Dept) /\ Len(t) = b /\ \A k \in 1..b : t[k] = new[k]
  <2>1. e \in Seq(Dept)
    BY <1>4
  <2>2. t \in Seq(Dept) /\ Len(t) = Len(new) + Len(e) /\ \A k \in 1..Len(new) : t[k] = new[k]
    BY <1>5, <2>1
  <2> QED BY <1>1, <1>4, <2>2
<1>7. t = new
  BY <1>1, <1>6
<1> QED BY <1>1, <1>2, <1>3, <1>5, <1>7 DEF NewPath

\* What the two statements of moveNode's transaction write.
LEMMA CommitMoves ==
  ASSUME BaseInv, Tree, TreeKept, NEW c \in Call, MoveCommit(c), NEW r, r = call[c], NEW q, q = Front(r.path)
  PROVE  /\ r.op = "move" /\ r.step = "commit" /\ r.node \in Dept /\ r.old.path \in Seq(Dept) /\ q \in Seq(Dept)
         /\ r.path = Append(q, r.node) /\ Leads(r.old.path, r.node) /\ ~IsPrefix(r.old.path, q)
         /\ q \in PathsThere
         /\ TreeStep(c, Idle) /\ unused' = unused /\ Live' = Live /\ Settled = Live
         /\ \A d \in Live : /\ dept'[d].path = NewPath(dept[d].path, r.old.path, Append(q, r.node))
                            /\ dept'[d].depth = Len(dept'[d].path)
                            /\ dept'[d].parent = IF d = r.node THEN r.parent ELSE dept[d].parent
<1>1. /\ TreeStep(c, Idle) /\ At(c, "move", "commit") /\ UNCHANGED <<unused, rel>> /\ Live' = Live
      /\ \A d \in Live :
           LET own == IF d = r.node THEN [parent |-> r.parent, path |-> r.path, depth |-> r.depth] ELSE dept[d]
           IN /\ dept'[d].parent = own.parent
              /\ IF IsStrictPrefix(r.old.path, own.path)
                 THEN /\ dept'[d].path = Replaced(own.path, r.old.path, r.path)
                      /\ dept'[d].depth = own.depth + (r.depth - r.old.depth)
                 ELSE dept'[d] = own
  BY MoveCommitSteps
<1>2. r.op = "move" /\ r.step = "commit" /\ r.node \in Dept /\ r.old.path \in Seq(Dept) /\ r.path \in Seq(Dept)
  BY <1>1, TreeIs DEF Trees, MoveRequest, DeptRow
<1>3. Settled = Live
  BY <1>2, SettledByMove
<1>4. /\ Leads(r.old.path, r.node) /\ r.old.depth = Len(r.old.path) /\ (r.node \in Live => dept[r.node] = r.old)
      /\ Leads(r.path, r.node) /\ r.depth = Len(r.path) /\ ~IsPrefix(r.old.path, q)
  BY <1>2 DEF Tree, MoveItem, Live
<1>5. PathsIn(r) = {r.old.path, q}
  BY <1>2, PathsInIs
<1>6. q \in PathsThere
  BY <1>5 DEF PathsThere
<1>7. q \in Seq(Dept) /\ r.path = Append(q, r.node) /\ Len(r.path) = Len(q) + 1
  BY <1>2, <1>4, FrontAndLast
<1>8. PICK n, old, new : n = r.node /\ old = r.old.path /\ new = r.path
  OBVIOUS
<1>9. PICK a \in Nat, b \in Nat : a = Len(old) /\ b = Len(q)
  BY <1>2, <1>7, <1>8
<1>10. Len(new) = b + 1 /\ r.depth = b + 1 /\ r.old.depth = a /\ a # 0
  BY <1>2, <1>4, <1>7, <1>8, <1>9 DEF Leads
<1>11. ASSUME NEW d \in Live
       PROVE  /\ dept'[d].path = NewPath(dept[d].path, old, new)
              /\ dept'[d].depth = Len(dept'[d].path)
              /\ dept'[d].parent = IF d = n THEN r.parent ELSE dept[d].parent
  <2>1. PICK own : own = IF d = n THEN [parent |-> r.parent, path |-> r.path, depth |-> r.depth] ELSE dept[d]
    OBVIOUS
  <2>2. /\ dept'[d].parent = own.parent
        /\ IF IsStrictPrefix(old, own.path)
           THEN dept'[d].path = Replaced(own.path, old, new) /\ dept'[d].depth = own.depth + (r.depth - r.old.depth)
           ELSE dept'[d] = own
    BY <1>1, <1>8, <2>1
  <2>3. own.parent = IF d = n THEN r.parent ELSE dept[d].parent
    BY <2>1
  <2>4. CASE d = n
    <3>1. own.path = new /\ own.depth = Len(new) /\ dept[d].path = old
      BY <1>4, <1>8, <2>1, <2>4
    <3>2. ~IsStrictPrefix(old, new)
      <4>1. SUFFICES ASSUME IsPrefix(old, new), old # new PROVE FALSE
        BY DEF IsStrictPrefix
      <4>2. a <= b + 1 /\ \A k \in 1..a : old[k] = new[k]
        BY <1>2, <1>8, <1>9, <1>10, <4>1, PrefixIs
      <4>3. a # b + 1
        <5>1. SUFFICES ASSUME a = b + 1 PROVE FALSE
          OBVIOUS
        <5>2. old \in Seq(Dept) /\ new \in Seq(Dept) /\ Len(old) = a /\ Len(new) = a
          BY <1>2, <1>8, <1>9, <1>10, <5>1
        <5>3. old = new
          BY <4>2, <5>2
        <5> QED BY <4>1, <5>3
      <4>4. \A k \in 1..b : new[k] = q[k]
        BY <1>2, <1>7, <1>8, <1>9, AppendPath
      <4>5. a <= b /\ \A k \in 1..a : old[k] = q[k]
        BY <4>2, <4>3, <4>4
      <4> QED BY <1>2, <1>4, <1>7, <1>8, <1>9, <4>5, PrefixIs
    <3>3. NewPath(old, old, new) = new
      BY <1>2, <1>8, WholePathMoved
    <3> QED BY <2>2, <2>3, <3>1, <3>2, <3>3
  <2>5. CASE d # n
    <3>1. PICK s : s = dept[d].path
      OBVIOUS
    <3>2. own = dept[d] /\ own.path = s /\ s \in Seq(Dept)
      BY <2>1, <2>5, <3>1, DeptRows
    <3>3. own.depth = Len(s) /\ Leads(s, d) /\ s \in PathsThere
      BY <1>3, <3>1, <3>2 DEF Tree, ChainRow, PathsThere
    <3>4. CASE IsStrictPrefix(old, s)
      <4>1. PICK L \in Nat : L = Len(s)
        BY <3>2
      <4>2. IsPrefix(old, s) /\ a <= L /\ \A k \in 1..a : old[k] = s[k]
        BY <1>2, <1>8, <1>9, <3>2, <3>4, <4>1, PrefixIs DEF IsStrictPrefix
      <4>3. \A i, j \in 1..L : s[i] = s[j] => i = j
        <5>1. Agree(s, s)
          BY <3>3 DEF Tree, OneTree
        <5> QED BY <3>2, <4>1, <5>1, AgreeIs
      <4>4. Replaced(s, old, new) = new \o SubSeq(s, a + 1, L)
        <5>1. old \in Seq(Dept) /\ new \in Seq(Dept) /\ old # <<>>
          BY <1>2, <1>4, <1>8 DEF Leads
        <5>2. \A k \in 1..Len(old) : s[k] = old[k]
          BY <1>9, <4>2
        <5>3. s \in Seq(Dept) /\ Len(old) <= Len(s) /\ \A i, j \in 1..Len(s) : s[i] = s[j] => i = j
          BY <1>9, <3>2, <4>1, <4>2, <4>3
        <5>4. Replaced(s, old, new) = new \o SubSeq(s, Len(old) + 1, Len(s))
          BY <5>1, <5>2, <5>3, PrefixReplaced
        <5> QED BY <1>9, <4>1, <5>4
      <4>5. NewPath(s, old, new) = new \o SubSeq(s, a + 1, L)
        BY <1>9, <4>1, <4>2 DEF NewPath
      <4>6. dept'[d].path = NewPath(s, old, new) /\ dept'[d].depth = L + (b + 1 - a)
        <5>1. dept'[d].path = Replaced(s, old, new) /\ dept'[d].depth = own.depth + (r.depth - r.old.depth)
          BY <2>2, <3>2, <3>4
        <5>2. own.depth = L /\ r.depth = b + 1 /\ r.old.depth = a
          BY <1>10, <3>3, <4>1
        <5> QED BY <4>4, <4>5, <5>1, <5>2
      <4>7. Len(NewPath(s, old, new)) = L + (b + 1 - a)
        <5>1. PICK f : f = q
          OBVIOUS
        <5>2. /\ s \in Seq(Dept) /\ old \in Seq(Dept) /\ f \in Seq(Dept) /\ n \in Dept
              /\ Leads(old, n) /\ IsPrefix(old, s)
          BY <1>2, <1>4, <1>7, <1>8, <3>2, <4>2, <5>1
        <5>3. Len(NewPath(s, old, Append(f, n))) = Len(s) + (Len(f) + 1 - Len(old))
          BY <5>2, MovedLength
        <5>4. Append(f, n) = new /\ Len(f) = b
          BY <1>7, <1>8, <1>9, <5>1
        <5> QED BY <1>9, <4>1, <5>3, <5>4
      <4> QED BY <2>2, <2>3, <3>1, <4>6, <4>7
    <3>5. CASE ~IsStrictPrefix(old, s)
      <4>1. s # old
        BY <1>4, <1>8, <2>5, <3>3 DEF Leads
      <4>2. NewPath(s, old, new) = s
        BY <3>5, <4>1 DEF NewPath, IsStrictPrefix
      <4> QED BY <2>2, <2>3, <3>1, <3>2, <3>3, <3>5, <4>2
    <3> QED BY <3>4, <3>5
  <2> QED BY <2>4, <2>5
<1>12. \A d \in Live : /\ dept'[d].path = NewPath(dept[d].path, r.old.path, Append(q, r.node))
                       /\ dept'[d].depth = Len(dept'[d].path)
                       /\ dept'[d].parent = IF d = r.node THEN r.parent ELSE dept[d].parent
  BY <1>7, <1>8, <1>11
<1> QED BY <1>1, <1>2, <1>3, <1>4, <1>6, <1>7, <1>12

\* Nothing comes onto a path that was not on a path before.
LEMMA NewPathMembers ==
  ASSUME NEW s \in Seq(Dept), NEW old \in Seq(Dept), NEW q \in Seq(Dept), NEW n \in Dept, Leads(old, n),
         NEW free, \A i \in DOMAIN s : s[i] \notin free, \A i \in DOMAIN q : q[i] \notin free
  PROVE  /\ NewPath(s, old, Append(q, n)) \in Seq(Dept)
         /\ \A i \in DOMAIN NewPath(s, old, Append(q, n)) : NewPath(s, old, Append(q, n))[i] \notin free
<1>1. CASE ~IsPrefix(old, s)
  BY <1>1 DEF NewPath
<1>2. CASE IsPrefix(old, s)
  <2>1. PICK L \in Nat, a \in Nat, b \in Nat : L = Len(s) /\ a = Len(old) /\ b = Len(q)
    OBVIOUS
  <2>2. PICK t : t = NewPath(s, old, Append(q, n))
    OBVIOUS
  <2>3. /\ NewPath(s, old, Append(q, n)) \in Seq(Dept)
        /\ Len(NewPath(s, old, Append(q, n))) = Len(s) + (Len(q) + 1 - Len(old))
        /\ Len(old) <= Len(s) /\ Len(old) > 0
        /\ \A k \in 1..Len(s) + (Len(q) + 1 - Len(old)) :
             NewPath(s, old, Append(q, n))[k] = IF k <= Len(q) THEN q[k] ELSE s[k - (Len(q) + 1) + Len(old)]
    BY <1>2, MovedIs
  <2>4. /\ t \in Seq(Dept) /\ Len(t) = L + (b + 1 - a) /\ a <= L /\ a > 0
        /\ \A k \in 1..L + (b + 1 - a) : t[k] = IF k <= b THEN q[k] ELSE s[k - (b + 1) + a]
    BY <2>1, <2>2, <2>3
  <2>5. DOMAIN t = 1..L + (b + 1 - a) /\ DOMAIN s = 1..L /\ DOMAIN q = 1..b
    BY <2>1, <2>4
  <2>6. ASSUME NEW k \in 1..L + (b + 1 - a) PROVE t[k] \notin free
    <3>1. CASE k <= b
      <4>1. k \in 1..b /\ t[k] = q[k]
        BY <2>4, <2>6, <3>1
      <4>2. k \in DOMAIN q
        BY <2>5, <4>1
      <4> QED BY <4>1, <4>2
    <3>2. CASE ~(k <= b)
      <4>1. PICK z \in Int : z = k - (b + 1) + a
        BY <2>6
      <4>2. z \in 1..L
        BY <2>4, <2>6, <3>2, <4>1
      <4>3. t[k] = s[z]
        BY <2>4, <2>6, <3>2, <4>1
      <4> QED BY <2>5, <4>2, <4>3
    <3> QED BY <3>1, <3>2
  <2> QED BY <2>2, <2>4, <2>5, <2>6
<1> QED BY <1>1, <1>2

\* A department is still at the end of its path.
LEMMA NewPathLeads ==
  ASSUME NEW s \in Seq(Dept), NEW old \in Seq(Dept), NEW q \in Seq(Dept), NEW n \in Dept, NEW d, Leads(old, n),
         Leads(s, d)
  PROVE  Leads(NewPath(s, old, Append(q, n)), d)
<1>1. CASE ~IsPrefix(old, s)
  BY <1>1 DEF NewPath
<1>2. CASE IsPrefix(old, s)
  <2>1. PICK L \in Nat, a \in Nat, b \in Nat : L = Len(s) /\ a = Len(old) /\ b = Len(q)
    OBVIOUS
  <2>2. PICK t : t = NewPath(s, old, Append(q, n))
    OBVIOUS
  <2>3. /\ NewPath(s, old, Append(q, n)) \in Seq(Dept)
        /\ Len(NewPath(s, old, Append(q, n))) = Len(s) + (Len(q) + 1 - Len(old))
        /\ Len(old) <= Len(s) /\ Len(old) > 0
        /\ \A k \in 1..Len(s) + (Len(q) + 1 - Len(old)) :
             NewPath(s, old, Append(q, n))[k] = IF k <= Len(q) THEN q[k] ELSE s[k - (Len(q) + 1) + Len(old)]
    BY <1>2, MovedIs
  <2>4. /\ t \in Seq(Dept) /\ Len(t) = L + (b + 1 - a) /\ a <= L /\ a > 0
        /\ \A k \in 1..L + (b + 1 - a) : t[k] = IF k <= b THEN q[k] ELSE s[k - (b + 1) + a]
    BY <2>1, <2>2, <2>3
  <2>5. PICK k \in Int : k = L + (b + 1 - a)
    OBVIOUS
  <2>6. k \in 1..L + (b + 1 - a) /\ ~(k <= b) /\ k - (b + 1) + a = L /\ k > 0
    BY <2>4, <2>5
  <2>7. t[k] = s[L] /\ Len(t) = k
    BY <2>4, <2>5, <2>6
  <2>8. s[L] = d
    BY <2>1 DEF Leads
  <2>9. Leads(t, d)
    BY <2>4, <2>6, <2>7, <2>8 DEF Leads
  <2> QED BY <2>2, <2>9
<1> QED BY <1>1, <1>2

LEMMA MoveCommitTree ==
  ASSUME BaseInv, Tree, TreeKept, NEW c \in Call, MoveCommit(c)
  PROVE  Tree'
<1>1. PICK r : r = call[c]
  OBVIOUS
<1>2. PICK q : q = Front(r.path)
  OBVIOUS
<1>3. /\ r.op = "move" /\ r.step = "commit" /\ r.node \in Dept /\ r.old.path \in Seq(Dept) /\ q \in Seq(Dept)
      /\ r.path = Append(q, r.node) /\ Leads(r.old.path, r.node) /\ ~IsPrefix(r.old.path, q)
      /\ q \in PathsThere
      /\ TreeStep(c, Idle) /\ unused' = unused /\ Live' = Live /\ Settled = Live
      /\ \A d \in Live : /\ dept'[d].path = NewPath(dept[d].path, r.old.path, Append(q, r.node))
                         /\ dept'[d].depth = Len(dept'[d].path)
                         /\ dept'[d].parent = IF d = r.node THEN r.parent ELSE dept[d].parent
  BY <1>1, <1>2, CommitMoves
<1>4. PICK n, old : n = r.node /\ old = r.old.path
  OBVIOUS
<1>5. n \in Dept /\ old \in Seq(Dept) /\ q \in Seq(Dept) /\ Leads(old, n) /\ ~IsPrefix(old, q) /\ q \in PathsThere
  BY <1>3, <1>4
<1>6. ASSUME NEW d \in Live
      PROVE  /\ dept'[d].path = NewPath(dept[d].path, old, Append(q, n)) /\ dept'[d].depth = Len(dept'[d].path)
             /\ dept'[d].parent = IF d = n THEN r.parent ELSE dept[d].parent
  BY <1>3, <1>4
<1>7. ASSUME NEW d \in Live
      PROVE  dept[d].path \in Seq(Dept) /\ dept[d].path \in PathsThere /\ ChainRow(d, dept, Live)
  BY <1>3, DeptRows DEF Tree, PathsThere
<1>8. call'[c] = Idle /\ \A o \in Call \ {c} : call'[o] = call[o]
  BY <1>3 DEF TreeStep, Moves, BaseInv
<1>9. \A o \in Call : call'[o].op \notin {"create", "move"}
  BY <1>1, <1>3, <1>8, MovesAlone DEF Idle
<1>10. NodesApart' /\ (\A d : ~Unfinished(d)') /\ \A o \in Call : PathsIn(call'[o]) = {}
  BY <1>9, PathsInIs DEF NodesApart, Unfinished, At
<1>11. Settled' = Live
  BY <1>3, <1>10 DEF Settled
<1>12. PathsThere' = {<<>>} \cup {dept'[d].path : d \in Live}
  BY <1>10, <1>11 DEF PathsThere
<1>13. \A d \in Live : dept'[d].path \in Seq(Dept) /\ \A i \in DOMAIN dept'[d].path : dept'[d].path[i] \notin unused
  <2>1. SUFFICES ASSUME NEW d \in Live
                 PROVE  dept'[d].path \in Seq(Dept) /\ \A i \in DOMAIN dept'[d].path : dept'[d].path[i] \notin unused
    OBVIOUS
  <2>2. PICK s : s = dept[d].path
    OBVIOUS
  <2>3. s \in Seq(Dept) /\ s \in PathsThere
    BY <1>7, <2>2
  <2>4. (\A i \in DOMAIN s : s[i] \notin unused) /\ (\A i \in DOMAIN q : q[i] \notin unused)
    BY <1>5, <2>3 DEF Tree, OneTree
  <2>5. /\ NewPath(s, old, Append(q, n)) \in Seq(Dept)
        /\ \A i \in DOMAIN NewPath(s, old, Append(q, n)) : NewPath(s, old, Append(q, n))[i] \notin unused
    BY <1>5, <2>3, <2>4, NewPathMembers
  <2> QED BY <1>6, <2>2, <2>5
<1>14. \A d, e \in Live : Agree(dept'[d].path, dept'[e].path)
  <2>1. SUFFICES ASSUME NEW d \in Live, NEW e \in Live PROVE Agree(dept'[d].path, dept'[e].path)
    OBVIOUS
  <2>2. PICK s, t : s = dept[d].path /\ t = dept[e].path
    OBVIOUS
  <2>3. s \in Seq(Dept) /\ s \in PathsThere /\ t \in Seq(Dept) /\ t \in PathsThere
    BY <1>7, <2>2
  <2>4. Agree(s, t) /\ Agree(q, s) /\ Agree(q, t) /\ Agree(q, q)
    BY <1>5, <2>3 DEF Tree, OneTree
  <2>5. Agree(NewPath(s, old, Append(q, n)), NewPath(t, old, Append(q, n)))
    BY <1>5, <2>3, <2>4, NewPathsAgree
  <2> QED BY <1>6, <2>2, <2>5
<1>15. OneTree(PathsThere', unused')
  <2>1. \A s \in PathsThere' : s = <<>> \/ \E d \in Live : s = dept'[d].path
    BY <1>12
  <2>2. \A s \in PathsThere' : s \in Seq(Dept) /\ Agree(<<>>, s) /\ Agree(s, <<>>)
    <3>1. SUFFICES ASSUME NEW s \in PathsThere' PROVE s \in Seq(Dept) /\ Agree(<<>>, s) /\ Agree(s, <<>>)
      OBVIOUS
    <3>2. CASE s = <<>>
      <4>1. s \in Seq(Dept)
        BY <3>2
      <4> QED BY <4>1, NothingOnIt
    <3>3. CASE \E d \in Live : s = dept'[d].path
      <4>1. s \in Seq(Dept)
        BY <1>13, <3>3
      <4> QED BY <4>1, NothingOnIt
    <3> QED BY <2>1, <3>1, <3>2, <3>3
  <2>3. \A s, t \in PathsThere' : Agree(s, t)
    BY <1>14, <2>1, <2>2
  <2>4. \A s \in PathsThere' : \A i \in DOMAIN s : s[i] \notin unused
    <3>1. DOMAIN <<>> = {}
      OBVIOUS
    <3> QED BY <1>13, <2>1, <3>1
  <2> QED BY <1>3, <2>3, <2>4 DEF OneTree
<1>16. MoveItem(r, dept)
  BY <1>1 DEF Tree
<1>17. ASSUME NEW d \in Live PROVE ChainRow(d, dept', Settled')
  <2>1. PICK s : s = dept[d].path
    OBVIOUS
  <2>2. s \in Seq(Dept) /\ Leads(s, d) /\ dept'[d].path = NewPath(s, old, Append(q, n))
    BY <1>6, <1>7, <2>1 DEF ChainRow
  <2>3. Leads(dept'[d].path, d) /\ dept'[d].depth = Len(dept'[d].path)
    <3>1. Leads(NewPath(s, old, Append(q, n)), d)
      BY <1>5, <2>2, NewPathLeads
    <3> QED BY <1>6, <2>2, <3>1
  <2>4. CASE d = n
    <3>1. s = old /\ dept'[d].parent = r.parent
      BY <1>3, <1>4, <1>6, <1>16, <2>1, <2>4 DEF MoveItem, Live
    <3>2. Append(q, n) \in Seq(Dept) /\ NewPath(old, old, Append(q, n)) = Append(q, n)
      BY <1>5, AppendPath, WholePathMoved
    <3>3. dept'[d].path = r.path /\ r.path = Append(q, n)
      BY <1>3, <1>4, <2>2, <3>1, <3>2
    <3>4. r.parent = NoDept => r.path = <<d>>
      BY <1>3, <1>4, <1>16, <2>4 DEF MoveItem
    <3>5. ASSUME r.parent \in Live PROVE dept'[d].path = Append(dept'[r.parent].path, d)
      <4>1. PICK t : t = dept[r.parent].path
        OBVIOUS
      <4>2. t \in Seq(Dept) /\ dept'[r.parent].path = NewPath(t, old, Append(q, n))
        BY <1>6, <1>7, <3>5, <4>1
      <4>3. r.path = Append(t, n)
        BY <1>3, <1>4, <1>16, <3>5, <4>1 DEF MoveItem, Live
      <4>4. t = q
        <5>1. Front(Append(t, n)) = t
          BY <1>5, <4>2, AppendPath
        <5> QED BY <1>2, <4>3, <5>1
      <4>5. dept'[r.parent].path = t
        BY <1>5, <4>2, <4>4 DEF NewPath
      <4> QED BY <2>4, <3>3, <4>4, <4>5
    <3> QED BY <1>3, <1>11, <2>3, <3>1, <3>3, <3>4, <3>5 DEF ChainRow, Live
  <2>5. CASE d # n
    <3>1. PICK p : p = dept[d].parent /\ p = dept'[d].parent
      BY <1>6, <2>5
    <3>2. ASSUME p = NoDept PROVE dept'[d].path = <<d>>
      <4>1. s = <<d>>
        BY <1>7, <2>1, <3>1, <3>2 DEF ChainRow
      <4>2. Len(s) = 1 /\ s[1] = d
        BY <4>1
      <4>3. ~IsPrefix(old, s)
        <5>1. PICK a \in Nat : a = Len(old)
          BY <1>5
        <5>2. a # 0 /\ old[a] = n
          BY <1>5, <5>1 DEF Leads
        <5>3. IsPrefix(old, s) => a <= 1 /\ \A k \in 1..a : old[k] = s[k]
          BY <1>5, <2>2, <4>2, <5>1, PrefixIs
        <5>4. a <= 1 => a = 1 /\ 1 \in 1..a
          BY <5>2
        <5> QED BY <2>5, <4>2, <5>2, <5>3, <5>4
      <4> QED BY <2>2, <4>1, <4>3 DEF NewPath
    <3>3. ASSUME p \in Live PROVE dept'[d].path = Append(dept'[p].path, d)
      <4>1. PICK t : t = dept[p].path
        OBVIOUS
      <4>2. t \in Seq(Dept) /\ dept'[p].path = NewPath(t, old, Append(q, n))
        BY <1>6, <1>7, <3>3, <4>1
      <4>3. s = Append(t, d)
        BY <1>7, <2>1, <3>1, <3>3, <4>1 DEF ChainRow, Live
      <4>4. d \in Dept
        BY DeptRows
      <4>5. NewPath(Append(t, d), old, Append(q, n)) = Append(NewPath(t, old, Append(q, n)), d)
        BY <1>5, <2>5, <4>2, <4>4, NewPathAppend
      <4> QED BY <2>2, <4>2, <4>3, <4>5
    <3> QED BY <1>3, <1>11, <2>3, <3>1, <3>2, <3>3 DEF ChainRow, Live
  <2> QED BY <2>4, <2>5
<1>18. \A o \in Call : CreateItem(call'[o], dept', Settled') /\ MoveItem(call'[o], dept')
  BY <1>9 DEF CreateItem, MoveItem
<1> QED BY <1>10, <1>11, <1>15, <1>17, <1>18 DEF Tree

\* In the tree the requests find, a department's path is the beginning of
\* every path it is on.
LEMMA InitialChains ==
  ASSUME NEW d \in DOMAIN InitialPath
  PROVE  \A i \in 1..Len(InitialPath[d]) :
           LET x == InitialPath[d][i]
           IN /\ x \in DOMAIN InitialPath /\ Len(InitialPath[x]) = i
              /\ \A k \in 1..i : InitialPath[x][k] = InitialPath[d][k]
<1> DEFINE Chain(e) ==
             \A i \in 1..Len(InitialPath[e]) :
               LET x == InitialPath[e][i]
               IN /\ x \in DOMAIN InitialPath /\ Len(InitialPath[x]) = i
                  /\ \A k \in 1..i : InitialPath[x][k] = InitialPath[e][k]
           T == {n \in Nat : \E e \in DOMAIN InitialPath : Len(InitialPath[e]) = n /\ ~Chain(e)}
<1>1. \A e \in DOMAIN InitialPath : InitialPath[e] \in Seq(Dept) /\ Len(InitialPath[e]) \in Nat
  BY InitialAssumption
<1>2. CASE T = {}
  <2>1. Chain(d)
    BY <1>1, <1>2
  <2> QED BY <2>1
<1>3. CASE T # {}
  <2>1. PICK n \in Nat : n \in T /\ \A m \in T : n <= m
    BY <1>3, Least
  <2>2. PICK e \in DOMAIN InitialPath : Len(InitialPath[e]) = n /\ ~Chain(e)
    BY <2>1
  <2>3. PICK s : s = InitialPath[e]
    OBVIOUS
  <2>4. /\ s \in Seq(Dept) /\ Len(s) = n /\ n > 0 /\ s[n] = e
        /\ n > 1 => s[n - 1] \in DOMAIN InitialPath /\ s = Append(InitialPath[s[n - 1]], e)
    BY <2>2, <2>3, InitialAssumption
  <2>5. ASSUME NEW i \in 1..n
        PROVE  /\ s[i] \in DOMAIN InitialPath /\ Len(InitialPath[s[i]]) = i
               /\ \A k \in 1..i : InitialPath[s[i]][k] = s[k]
    <3>1. CASE i = n
      BY <2>3, <2>4, <2>2, <3>1
    <3>2. CASE i < n
      <4>0. PICK m \in Nat : m = n - 1
        BY <2>4
      <4>1. PICK p : p = s[n - 1] /\ m = n - 1
        BY <4>0
      <4>2. p \in DOMAIN InitialPath /\ s = Append(InitialPath[p], e) /\ n > 1
        BY <2>4, <2>5, <3>2, <4>1
      <4>3. PICK t : t = InitialPath[p]
        OBVIOUS
      <4>4. t \in Seq(Dept) /\ e \in Dept
        BY <1>1, <2>2, <4>2, <4>3
      <4>5. /\ Len(Append(t, e)) = Len(t) + 1
            /\ \A k \in 1..Len(t) : Append(t, e)[k] = t[k]
        BY <4>4, AppendPath
      <4>6. Len(t) = m /\ \A k \in 1..m : s[k] = t[k]
        <5>1. n = Len(t) + 1 /\ Len(t) \in Nat
          BY <2>4, <4>2, <4>3, <4>4, <4>5
        <5>2. Len(t) = m
          BY <4>1, <5>1
        <5> QED BY <4>2, <4>3, <4>5, <5>2
      <4>7. m \notin T
        BY <2>1, <4>1, <4>2
      <4>8. Chain(p)
        BY <4>2, <4>3, <4>6, <4>7
      <4>9. i \in 1..m
        BY <2>5, <3>2, <4>1
      <4>10. /\ t[i] \in DOMAIN InitialPath /\ Len(InitialPath[t[i]]) = i
             /\ \A k \in 1..i : InitialPath[t[i]][k] = t[k]
        BY <4>3, <4>6, <4>8, <4>9
      <4>11. \A k \in 1..i : s[k] = t[k]
        BY <4>6, <4>9
      <4>12. s[i] = t[i]
        BY <4>6, <4>9
      <4> QED BY <4>10, <4>11, <4>12
    <3> QED BY <2>5, <3>1, <3>2
  <2>6. Chain(e)
    BY <2>3, <2>4, <2>5
  <2> QED BY <2>2, <2>6
<1> QED BY <1>2, <1>3

LEMMA TreeStart == Init => Tree
<1> SUFFICES ASSUME Init PROVE Tree
  OBVIOUS
<1>1. /\ Live = DOMAIN InitialPath /\ unused = Dept \ DOMAIN InitialPath
      /\ \A d \in Live : /\ dept[d].parent = ParentOf(InitialPath[d]) /\ dept[d].path = InitialPath[d]
                         /\ dept[d].depth = Len(InitialPath[d])
      /\ \A c \in Call : call[c] = Idle
  BY DEF Init, Live
<1>2. \A c \in Call : call[c].op = "idle" /\ PathsIn(call[c]) = {}
  BY <1>1, PathsInIs DEF Idle
<1>3. NodesApart /\ Settled = Live
  BY <1>2 DEF NodesApart, Settled, Unfinished, At
<1>5. \A d \in Live : InitialPath[d] \in Seq(Dept)
  BY <1>1, InitialAssumption
<1>6. \A d, e \in Live : Agree(InitialPath[d], InitialPath[e])
  <2>1. SUFFICES ASSUME NEW d \in Live, NEW e \in Live PROVE Agree(InitialPath[d], InitialPath[e])
    OBVIOUS
  <2>2. PICK s : s = InitialPath[d]
    OBVIOUS
  <2>3. PICK t : t = InitialPath[e]
    OBVIOUS
  <2>4. s \in Seq(Dept) /\ t \in Seq(Dept)
    BY <1>5, <2>2, <2>3
  <2>5. ASSUME NEW i \in 1..Len(s), NEW j \in 1..Len(t), s[i] = t[j]
        PROVE  i = j /\ \A k \in 1..i : s[k] = t[k]
    <3>1. PICK x : x = s[i]
      OBVIOUS
    <3>2. Len(InitialPath[x]) = i /\ \A k \in 1..i : InitialPath[x][k] = s[k]
      BY <1>1, <2>2, <3>1, InitialChains
    <3>3. Len(InitialPath[x]) = j /\ \A k \in 1..j : InitialPath[x][k] = t[k]
      BY <1>1, <2>3, <2>5, <3>1, InitialChains
    <3> QED BY <3>2, <3>3
  <2>6. Agree(s, t)
    BY <2>4, <2>5, AgreeIs
  <2> QED BY <2>2, <2>3, <2>6
<1>7. \A s \in PathsThere : s = <<>> \/ \E d \in Live : s = InitialPath[d]
  <2>1. \A s \in PathsThere : s = <<>> \/ (\E d \in Live : s = dept[d].path) \/ \E c \in Call : s \in PathsIn(call[c])
    BY <1>3 DEF PathsThere
  <2> QED BY <1>1, <1>2, <2>1
<1>8. OneTree(PathsThere, unused)
  <2>1. \A s \in PathsThere : Agree(<<>>, s) /\ Agree(s, <<>>)
    <3>1. SUFFICES ASSUME NEW s \in PathsThere PROVE Agree(<<>>, s) /\ Agree(s, <<>>)
      OBVIOUS
    <3>2. CASE s = <<>>
      <4>1. s \in Seq(Dept)
        BY <3>2
      <4> QED BY <4>1, NothingOnIt
    <3>3. CASE \E d \in Live : s = InitialPath[d]
      <4>1. s \in Seq(Dept)
        BY <1>5, <3>3
      <4> QED BY <4>1, NothingOnIt
    <3> QED BY <1>7, <3>1, <3>2, <3>3
  <2>2. \A s, t \in PathsThere : Agree(s, t)
    BY <1>6, <1>7, <2>1
  <2>3. ASSUME NEW d \in Live, NEW i \in DOMAIN InitialPath[d] PROVE InitialPath[d][i] \notin unused
    <3>1. i \in 1..Len(InitialPath[d])
      BY <1>5, <2>3
    <3>2. InitialPath[d][i] \in DOMAIN InitialPath
      BY <1>1, <3>1, InitialChains
    <3> QED BY <1>1, <3>2
  <2>4. DOMAIN <<>> = {}
    OBVIOUS
  <2>5. \A s \in PathsThere : \A i \in DOMAIN s : s[i] \notin unused
    BY <1>7, <2>3, <2>4
  <2> QED BY <2>2, <2>5 DEF OneTree
<1>9. ASSUME NEW d \in Live PROVE ChainRow(d, dept, Settled)
  <2>1. PICK s : s = InitialPath[d]
    OBVIOUS
  <2>2. PICK L \in Nat : L = Len(s)
    BY <1>5, <2>1
  <2>3. /\ s \in Seq(Dept) /\ s # <<>> /\ s[L] = d
        /\ L > 1 => s[L - 1] \in Live /\ s = Append(InitialPath[s[L - 1]], d)
    BY <1>1, <2>1, <2>2, InitialAssumption
  <2>4. dept[d].parent = ParentOf(s) /\ dept[d].path = s /\ dept[d].depth = Len(s)
    BY <1>1, <2>1
  <2>5. L # 0
    BY <2>2, <2>3
  <2>6. Leads(s, d)
    BY <2>2, <2>3 DEF Leads
  <2>7. CASE L = 1
    <3>1. s = <<d>>
      BY <2>2, <2>3, <2>7, PathOfOne
    <3>2. ParentOf(s) = NoDept /\ NoDept \notin Live
      BY <1>1, <2>2, <2>7 DEF ParentOf
    <3> QED BY <2>4, <2>6, <3>1, <3>2 DEF ChainRow, Live
  <2>8. CASE L > 1
    <3>1. ParentOf(s) = s[L - 1] /\ s[L - 1] \in Live
      BY <2>2, <2>3, <2>8 DEF ParentOf
    <3>2. s[L - 1] # NoDept /\ dept[s[L - 1]].path = InitialPath[s[L - 1]]
      BY <1>1, <3>1
    <3> QED BY <1>3, <2>3, <2>4, <2>6, <2>8, <3>1, <3>2 DEF ChainRow, Live
  <2> QED BY <2>5, <2>7, <2>8
<1>10. \A c \in Call : CreateItem(call[c], dept, Settled) /\ MoveItem(call[c], dept)
  BY <1>2 DEF CreateItem, MoveItem
<1> QED BY <1>3, <1>8, <1>9, <1>10 DEF Tree

LEMMA TreeNext == BaseInv /\ TreeInv /\ [Next]_vars => TreeInv'
<1> SUFFICES ASSUME BaseInv, TreeInv, [Next]_vars PROVE TreeInv'
  OBVIOUS
<1>1. CASE Next
  <2>1. SUFFICES ASSUME TreeKept' PROVE Tree'
    BY DEF TreeInv
  <2>2. PICK c \in Call : CreateActs(c) \/ MoveActs(c) \/ DeleteActs(c) \/ RelateActs(c)
    BY <1>1, StepsOfNext
  <2>3. PICK q : RelateStep(c, q) \/ TreeStep(c, q)
    BY <2>2, RelateActsStep, TreeActsStep
  <2>4. TreeKept
    BY <2>1, <2>3, KeptBefore DEF RelateStep, TreeStep
  <2>5. Tree
    BY <2>4 DEF TreeInv
  <2>6. CASE CreateActs(c)
    BY <2>1, <2>4, <2>5, <2>6, CreateStartTree, CreateInsertTree, CreatePathTree, CreateBreaksTree DEF CreateActs
  <2>7. CASE MoveActs(c)
    BY <2>1, <2>4, <2>5, <2>7, MoveStartTree, MoveReadParentTree, MoveCommitTree DEF MoveActs
  <2>8. CASE DeleteActs(c)
    BY <2>5, <2>8, DeleteTree
  <2>9. CASE RelateActs(c)
    BY <2>5, <2>9, RelateActsStep, RelateTree
  <2> QED BY <2>2, <2>6, <2>7, <2>8, <2>9
<1>2. CASE UNCHANGED vars
  <2>1. dept' = dept /\ unused' = unused /\ call' = call /\ TreeKept' = TreeKept
    BY <1>2 DEF vars, TreeKept, Apart
  <2>2. (\A c \in Call : At(c, "create", "path")' <=> At(c, "create", "path")) /\ Live' = Live
    BY <2>1 DEF At, Active, Live
  <2>3. Settled' = Settled
    BY <2>1, <2>2 DEF Settled, Unfinished
  <2>4. PathsThere' = PathsThere
    BY <2>1, <2>3 DEF PathsThere
  <2> QED BY <2>1, <2>2, <2>3, <2>4 DEF TreeInv, Tree, NodesApart
<1> QED BY <1>1, <1>2

\* moveNode rewrites the paths of a whole subtree with SQL's replace, from
\* what it read before: where no other move and no creation came between, and
\* no creation was left without its second statement, every path is still its
\* parent's with the department at its end, and the depth is its length.
THEOREM PathsFollowParents == Spec => []PathsAreChains
<1>1. Init => BaseInv /\ TreeInv
  BY BaseStart, TreeStart DEF TreeInv
<1>2. BaseInv /\ TreeInv /\ [Next]_vars => (BaseInv /\ TreeInv)'
  BY BaseStep, TreeNext
<1>3. TreeInv => PathsAreChains
  BY DEF TreeInv, Tree, Settled, ChainRow, PathsAreChains, Live
<1> QED BY <1>1, <1>2, <1>3, PTL DEF Spec

-----------------------------------------------------------------------------
(* Nothing is left behind.                                                 *)

LEMMA DeletesApartBefore ==
  ASSUME NEW c, NEW q, Moves(c, q), DeletesApart'
  PROVE  DeletesApart
BY KeptBefore DEF Moves, DeletesApart, Apart

LEMMA DeletesAlone ==
  ASSUME BaseInv, DeletesApart, NEW c \in Call, NEW o \in Call, c # o, call[c].op = "delete"
  PROVE  call[o].op = "idle"
<1>1. SUFFICES ASSUME call[o].op # "idle" PROVE FALSE
  OBVIOUS
<1>2. Active(c) /\ Active(o) /\ Kind(call[c].op) = "delete"
  BY <1>1 DEF Active, Kind
<1>3. call[o] \in Request
  BY DEF BaseInv, RequestOK
<1>4. Kind(call[o].op) \in Kinds
  BY <1>1, <1>3, KindOf
<1>5. {"delete", Kind(call[o].op)} \in mixed
  BY <1>2 DEF BaseInv, Overlaps
<1> QED BY <1>4, <1>5 DEF DeletesApart, Apart

LEMMA DeletesAloneNext ==
  ASSUME BaseInv', DeletesApart', NEW c \in Call, NEW o \in Call, c # o, call'[c].op = "delete"
  PROVE  call'[o].op = "idle"
<1>1. SUFFICES ASSUME call'[o].op # "idle" PROVE FALSE
  OBVIOUS
<1>2. Active(c)' /\ Active(o)' /\ Kind(call'[c].op) = "delete"
  BY <1>1 DEF Active, Kind
<1>3. call'[o] \in Request
  BY DEF BaseInv, RequestOK
<1>4. Kind(call'[o].op) \in Kinds
  BY <1>1, <1>3, KindOf
<1>5. {"delete", Kind(call'[o].op)} \in mixed'
  BY <1>2 DEF BaseInv, Overlaps
<1> QED BY <1>4, <1>5 DEF DeletesApart, Apart

LEMMA QuietDeletes ==
  ASSUME BaseInv
  PROVE  Quiet("delete") <=> \A c \in Call : call[c].op # "delete"
<1>1. \A c \in Call : call[c] \in Request
  BY DEF BaseInv, RequestOK
<1>2. \A c \in Call : Active(c) => (Kind(call[c].op) = "delete" <=> call[c].op = "delete")
  BY DEF Kind
<1> QED BY <1>2 DEF Quiet, Active

LEMMA QuietDeletesNext ==
  ASSUME BaseInv'
  PROVE  Quiet("delete")' <=> \A c \in Call : call'[c].op # "delete"
<1>1. \A c \in Call : Active(c)' => (Kind(call'[c].op) = "delete" <=> call'[c].op = "delete")
  BY DEF Kind
<1> QED BY <1>1 DEF Quiet, Active

\* A request that deletes no department steps while none is deleting.
LEMMA NoDeletion ==
  ASSUME BaseInv, BaseInv', DeletesApart, DeletesApart', HomeBody, NEW c \in Call, NEW q, Moves(c, q),
         call[c].op # "delete", q.op # "delete", call[c].op # "idle" \/ q.op # "idle"
  PROVE  /\ \A o \in Call : call[o].op # "delete" /\ call'[o].op # "delete"
         /\ Homed(dept, rel) /\ \A o \in Call : HomeItem(call[o], Live)
<1>1. call'[c] = q /\ \A o \in Call \ {c} : call'[o] = call[o]
  BY DEF Moves, BaseInv
<1>2. ASSUME NEW o \in Call, o # c PROVE call[o].op # "delete"
  <2>1. call[o].op = "delete" => call[c].op = "idle" /\ call'[c].op = "idle"
    BY <1>1, <1>2, DeletesAlone, DeletesAloneNext
  <2> QED BY <1>1, <2>1
<1>3. \A o \in Call : call[o].op # "delete" /\ call'[o].op # "delete"
  BY <1>1, <1>2
<1> QED BY <1>3, QuietDeletes DEF HomeBody

\* It leaves everything in its place.
LEMMA HomeGrows ==
  ASSUME BaseInv, BaseInv', DeletesApart, DeletesApart', HomeBody, NEW c \in Call, NEW q, Moves(c, q),
         call[c].op # "delete", q.op # "delete", call[c].op # "idle" \/ q.op # "idle",
         Live \subseteq Live',
         Homed(dept, rel) /\ HomeItem(call[c], Live) => Homed(dept', rel') /\ HomeItem(q, Live')
  PROVE  HomeBody'
<1>1. call'[c] = q /\ \A o \in Call \ {c} : call'[o] = call[o]
  BY DEF Moves, BaseInv
<1>2. /\ \A o \in Call : call'[o].op # "delete"
      /\ Homed(dept, rel) /\ \A o \in Call : HomeItem(call[o], Live)
  BY NoDeletion
<1>3. Homed(dept', rel') /\ HomeItem(q, Live')
  BY <1>2
<1>4. \A o \in Call \ {c} : HomeItem(call'[o], Live')
  BY <1>1, <1>2 DEF HomeItem
<1>5. \A o \in Call : HomeItem(call'[o], Live')
  BY <1>1, <1>3, <1>4
<1>6. \A o \in Call : DeleteItem(call'[o], dept', rel')
  BY <1>2 DEF DeleteItem
<1> QED BY <1>3, <1>5, <1>6 DEF HomeBody

LEMMA RelateHomes ==
  ASSUME BaseInv, BaseInv', DeletesApart, DeletesApart', HomeBody, NEW c \in Call, NEW q, RelateStep(c, q)
  PROVE  HomeBody'
<1>1. /\ Moves(c, q) /\ dept' = dept
      /\ call[c].op # "delete" /\ q.op # "delete" /\ (call[c].op # "idle" \/ q.op # "idle")
      /\ Homed(dept, rel) /\ HomeItem(call[c], Live) => Homed(dept, rel') /\ HomeItem(q, Live)
  BY DEF RelateStep, Relaters, Active
<1>2. Live' = Live
  BY <1>1 DEF Live
<1> QED BY <1>1, <1>2, HomeGrows

\* A creation or a move.
LEMMA TreeHomes ==
  ASSUME BaseInv, BaseInv', DeletesApart, DeletesApart', HomeBody, NEW c \in Call,
         CreateActs(c) \/ MoveActs(c)
  PROVE  HomeBody'
<1>1. SUFFICES
        \E q : /\ Moves(c, q) /\ call[c].op # "delete" /\ q.op # "delete" /\ (call[c].op # "idle" \/ q.op # "idle")
               /\ Live \subseteq Live' /\ rel' = rel
               /\ HomeItem(call[c], Live) =>
                    /\ \A d \in Live' : (d \in Live /\ dept'[d].parent = dept[d].parent)
                                        \/ dept'[d].parent \in Live \cup {NoDept}
                    /\ HomeItem(q, Live')
  <2>1. PICK q : /\ Moves(c, q) /\ call[c].op # "delete" /\ q.op # "delete" /\ (call[c].op # "idle" \/ q.op # "idle")
                 /\ Live \subseteq Live' /\ rel' = rel
                 /\ HomeItem(call[c], Live) =>
                      /\ \A d \in Live' : (d \in Live /\ dept'[d].parent = dept[d].parent)
                                          \/ dept'[d].parent \in Live \cup {NoDept}
                      /\ HomeItem(q, Live')
    BY <1>1
  <2>2. Homed(dept, rel) /\ HomeItem(call[c], Live) => Homed(dept', rel') /\ HomeItem(q, Live')
    BY <2>1 DEF Homed, Homes, Live
  <2> QED BY <2>1, <2>2, HomeGrows
<1>2. \A step : /\ At(c, "create", step) => call[c].op = "create" /\ call[c].step = step
                /\ At(c, "move", step) => call[c].op = "move" /\ call[c].step = step
  BY DEF At
<1>3. \A q : TreeStep(c, q) => Moves(c, q)
  BY DEF TreeStep
<1>4. dept' = dept => Live' = Live
  BY DEF Live
<1>5. CASE CreateStart(c)
  <2>1. PICK q : /\ TreeStep(c, q) /\ call[c].op = "idle" /\ UNCHANGED <<dept, unused, rel>>
                 /\ q.op = "create" /\ q.step = "insert"
                 /\ q.parent \in Live \cup {NoDept}
    BY <1>5, CreateStartSteps
  <2> QED BY <1>3, <1>4, <2>1 DEF HomeItem
<1>6. CASE CreateInsert(c)
  <2>1. PICK q, d : /\ TreeStep(c, q) /\ At(c, "create", "insert") /\ rel' = rel
                    /\ d \in unused
                    /\ dept' = Adding(dept, d, [parent |-> call[c].parent, path |-> call[c].path,
                                                depth |-> call[c].depth])
                    /\ q.op = "create" /\ q.parent = call[c].parent
    BY <1>6, CreateInsertSteps
  <2>2. /\ Live' = Live \cup {d} /\ dept'[d].parent = call[c].parent
        /\ \A e \in Live : dept'[e] = dept[e]
    <3>1. d \notin Live
      BY <2>1 DEF BaseInv, DeptTable
    <3> QED BY <2>1, <3>1 DEF Adding, Live
  <2> QED BY <1>2, <1>3, <2>1, <2>2 DEF HomeItem
<1>7. CASE CreatePath(c)
  <2>1. /\ TreeStep(c, Idle) /\ At(c, "create", "path") /\ UNCHANGED <<unused, rel>>
        /\ Live' = Live
        /\ \A d \in Live : dept'[d].parent = dept[d].parent
    BY <1>7, CreatePathSteps
  <2> QED BY <1>2, <1>3, <2>1, IdleHomes DEF Idle
<1>8. CASE CreateBreaks(c)
  <2>1. TreeKept'
    BY DEF DeletesApart
  <2> QED BY <1>8, <2>1, CreateBreaksTree
<1>9. CASE MoveStart(c)
  <2>1. PICK q : /\ TreeStep(c, q) /\ call[c].op = "idle" /\ UNCHANGED <<dept, unused, rel>>
                 /\ q.op = "move" /\ q.step = "parent"
    BY <1>9, MoveStartSteps
  <2> QED BY <1>3, <1>4, <2>1 DEF HomeItem
<1>10. CASE MoveReadParent(c)
  <2>1. /\ At(c, "move", "parent") /\ UNCHANGED <<dept, unused, rel>>
        /\ \/ TreeStep(c, Idle)
           \/ \E q : /\ TreeStep(c, q)
                     /\ q.op = "move" /\ q.step = "commit" /\ q.parent \in Live \cup {NoDept}
    BY <1>10, MoveReadParentSteps
  <2>2. CASE TreeStep(c, Idle)
    BY <1>2, <1>3, <1>4, <2>1, <2>2, IdleHomes DEF Idle
  <2>3. CASE \E q : /\ TreeStep(c, q)
                    /\ q.op = "move" /\ q.step = "commit" /\ q.parent \in Live \cup {NoDept}
    BY <1>2, <1>3, <1>4, <2>1, <2>3 DEF HomeItem
  <2> QED BY <2>1, <2>2, <2>3
<1>11. CASE MoveCommit(c)
  <2>1. PICK r : r = call[c]
    OBVIOUS
  <2>2. /\ TreeStep(c, Idle) /\ At(c, "move", "commit") /\ UNCHANGED <<unused, rel>> /\ Live' = Live
        /\ \A d \in Live :
             LET own == IF d = r.node THEN [parent |-> r.parent, path |-> r.path, depth |-> r.depth] ELSE dept[d]
             IN dept'[d].parent = own.parent
    BY <1>11, <2>1, MoveCommitSteps
  <2>3. \A d \in Live : dept'[d].parent = IF d = r.node THEN r.parent ELSE dept[d].parent
    BY <2>2
  <2> QED BY <1>2, <1>3, <2>1, <2>2, <2>3, IdleHomes DEF HomeItem, Idle
<1> QED BY <1>5, <1>6, <1>7, <1>8, <1>9, <1>10, <1>11 DEF CreateActs, MoveActs

\* A deletion that goes on is alone.
LEMMA DeletionGoesOn ==
  ASSUME BaseInv, BaseInv', DeletesApart', NEW c \in Call, NEW q, Moves(c, q), q.op = "delete",
         DeleteItem(q, dept', rel')
  PROVE  HomeBody'
<1>1. call'[c] = q /\ ~Quiet("delete")'
  <2>1. call'[c] = q
    BY DEF Moves, BaseInv
  <2> QED BY <2>1, QuietDeletesNext
<1>2. \A o \in Call : DeleteItem(call'[o], dept', rel')
  <2>1. \A o \in Call \ {c} : call'[o].op = "idle"
    BY <1>1, DeletesAloneNext
  <2> QED BY <1>1, <2>1 DEF DeleteItem
<1> QED BY <1>1, <1>2 DEF HomeBody

\* One that ends leaves no request under way.
LEMMA DeletionEnds ==
  ASSUME BaseInv, DeletesApart, NEW c \in Call, Moves(c, Idle), call[c].op = "delete", Homed(dept', rel')
  PROVE  HomeBody'
<1>1. call'[c] = Idle /\ \A o \in Call \ {c} : call'[o] = call[o] /\ call[o].op = "idle"
  BY DeletesAlone DEF Moves, BaseInv
<1>2. \A o \in Call : call'[o].op = "idle"
  BY <1>1 DEF Idle
<1> QED BY <1>2 DEF HomeBody, HomeItem, DeleteItem

\* The subtree that was read has the children of all in it.
LEMMA SubtreeClosed ==
  ASSUME BaseInv, Tree, DeletesApart, NEW c \in Call, call[c].op = "delete", call[c].path \in Seq(Dept),
         NEW d \in Live, dept[d].parent \in Subtree(call[c].path)
  PROVE  d \in Subtree(call[c].path)
<1>1. \A e \in Live : ~Unfinished(e)
  <2>1. \A o \in Call : call[o].op # "create"
    BY DeletesAlone
  <2> QED BY <2>1 DEF Unfinished, At
<1>2. d \in Settled
  BY <1>1 DEF Settled
<1>3. PICK p : p = dept[d].parent
  OBVIOUS
<1>4. p \in Live /\ IsPrefix(call[c].path, dept[p].path)
  BY <1>3 DEF Subtree
<1>5. dept[d].path = Append(dept[p].path, d)
  BY <1>2, <1>3, <1>4 DEF Tree, ChainRow, Live
<1>6. PICK s \in Seq(Dept), t \in Seq(Dept) : s = call[c].path /\ t = dept[p].path
  BY <1>4, DeptRows
<1>7. d \in Dept
  BY DeptRows
<1>8. PICK a \in Nat, b \in Nat : a = Len(s) /\ b = Len(t)
  OBVIOUS
<1>9. a <= b /\ \A k \in 1..a : s[k] = t[k]
  BY <1>4, <1>6, <1>8, PrefixIs
<1>10. PICK u \in Seq(Dept) : u = Append(t, d) /\ Len(u) = b + 1 /\ \A k \in 1..b : u[k] = t[k]
  BY <1>7, <1>8, AppendPath
<1>11. a <= b + 1 /\ \A k \in 1..a : s[k] = u[k]
  BY <1>9, <1>10
<1>12. IsPrefix(s, u)
  BY <1>8, <1>10, <1>11, PrefixIs
<1> QED BY <1>5, <1>6, <1>10, <1>12 DEF Subtree

LEMMA DeleteHomes ==
  ASSUME BaseInv, BaseInv', Tree, DeletesApart, DeletesApart', HomeBody, NEW c \in Call, DeleteActs(c)
  PROVE  HomeBody'
<1>1. \A step : At(c, "delete", step) => call[c].op = "delete" /\ call[c].step = step
  BY DEF At
<1>2. \A q : TreeStep(c, q) => Moves(c, q)
  BY DEF TreeStep
<1>3. \A q : DeleteItem(q, dept, rel) =>
        /\ q.op = "delete" /\ q.step # "rows" => Homed(dept, rel)
        /\ q.op = "delete" /\ q.step = "members" =>
             \A d \in Live : dept[d].parent \in q.depts => d \in q.depts
        /\ q.op = "delete" /\ q.step = "rows" => Homes(dept, rel, q.depts, q.rows)
  BY DEF DeleteItem, Live
<1>4. DeleteItem(call[c], dept, rel)
  BY DEF HomeBody
<1>5. CASE DeleteStart(c)
  <2>1. PICK q : /\ TreeStep(c, q) /\ call[c].op = "idle" /\ UNCHANGED <<dept, unused, rel>>
                 /\ q.op = "delete" /\ q.step = "subtree"
    BY <1>5, DeleteStartSteps
  <2>2. call'[c] = q /\ \A o \in Call \ {c} : call'[o] = call[o]
    BY <1>2, <2>1 DEF Moves, BaseInv
  <2>3. \A o \in Call : call[o].op = "idle"
    BY <2>1, <2>2, DeletesAloneNext
  <2>4. Homed(dept, rel)
    BY <2>3, QuietDeletes DEF HomeBody
  <2>5. DeleteItem(q, dept', rel')
    BY <2>1, <2>4 DEF DeleteItem
  <2> QED BY <1>2, <2>1, <2>5, DeletionGoesOn
<1>6. CASE DeleteReadSubtree(c)
  <2>1. /\ At(c, "delete", "subtree") /\ UNCHANGED <<dept, unused, rel>>
        /\ \/ TreeStep(c, Idle)
           \/ \E q : /\ TreeStep(c, q) /\ q.op = "delete" /\ q.step = "members"
                     /\ q.depts = Subtree(call[c].path)
    BY <1>6, DeleteReadSubtreeSteps
  <2>2. Homed(dept', rel')
    BY <1>1, <1>3, <1>4, <2>1
  <2>3. CASE TreeStep(c, Idle)
    BY <1>1, <1>2, <2>1, <2>2, <2>3, DeletionEnds
  <2>4. CASE \E q : /\ TreeStep(c, q) /\ q.op = "delete" /\ q.step = "members"
                    /\ q.depts = Subtree(call[c].path)
    <3>1. PICK q : /\ TreeStep(c, q) /\ q.op = "delete" /\ q.step = "members"
                   /\ q.depts = Subtree(call[c].path)
      BY <2>4
    <3>2. call[c].path \in Seq(Dept)
      BY <2>1, TreeIs DEF Trees, DeleteRequest
    <3>3. \A d \in Live : dept[d].parent \in Subtree(call[c].path) => d \in Subtree(call[c].path)
      BY <1>1, <2>1, <3>2, SubtreeClosed
    <3>4. DeleteItem(q, dept', rel')
      BY <2>1, <2>2, <3>1, <3>3 DEF DeleteItem, Live
    <3> QED BY <1>2, <3>1, <3>4, DeletionGoesOn
  <2> QED BY <2>1, <2>3, <2>4
<1>7. CASE DeleteReadMembers(c)
  <2>1. /\ At(c, "delete", "members") /\ UNCHANGED <<dept, unused, rel>>
        /\ \/ TreeStep(c, Idle)
           \/ \E q : /\ TreeStep(c, q) /\ q.op = "delete" /\ q.step = "rows"
                     /\ q.depts = call[c].depts /\ q.rows = MembersOf(call[c].depts)
    BY <1>7, DeleteReadMembersSteps
  <2>2. Homed(dept', rel') /\ \A d \in Live : dept[d].parent \in call[c].depts => d \in call[c].depts
    BY <1>1, <1>3, <1>4, <2>1
  <2>3. CASE TreeStep(c, Idle)
    BY <1>1, <1>2, <2>1, <2>2, <2>3, DeletionEnds
  <2>4. CASE \E q : /\ TreeStep(c, q) /\ q.op = "delete" /\ q.step = "rows"
                    /\ q.depts = call[c].depts /\ q.rows = MembersOf(call[c].depts)
    <3>1. PICK q : /\ TreeStep(c, q) /\ q.op = "delete" /\ q.step = "rows"
                   /\ q.depts = call[c].depts /\ q.rows = MembersOf(call[c].depts)
      BY <2>4
    <3>2. Homes(dept', rel', q.depts, q.rows)
      BY <2>1, <2>2, <3>1 DEF Homed, Homes, MembersOf, Live
    <3>3. DeleteItem(q, dept', rel')
      BY <3>1, <3>2 DEF DeleteItem
    <3> QED BY <1>2, <3>1, <3>3, DeletionGoesOn
  <2> QED BY <2>1, <2>3, <2>4
<1>8. CASE DeleteDept(c)
  <2>1. PICK q, d : /\ TreeStep(c, q) /\ At(c, "delete", "rows") /\ UNCHANGED <<unused, rel>>
                    /\ d \in call[c].depts /\ dept' = Dropping(dept, {d})
                    /\ q.op = "delete" /\ q.step = "rows" /\ q.rows = call[c].rows /\ q.depts = call[c].depts \ {d}
    BY <1>8, DeleteDeptSteps
  <2>2. Homes(dept, rel, call[c].depts, call[c].rows)
    BY <1>1, <1>3, <1>4, <2>1
  <2>3. DOMAIN dept' = DOMAIN dept \ {d} /\ \A e \in DOMAIN dept' : dept'[e] = dept[e]
    BY <2>1 DEF Dropping
  <2>4. DOMAIN dept' \ q.depts = DOMAIN dept \ call[c].depts
    BY <2>1, <2>3
  <2>5. Homes(dept', rel', q.depts, q.rows)
    BY <2>1, <2>2, <2>3, <2>4 DEF Homes
  <2>6. DeleteItem(q, dept', rel')
    BY <2>1, <2>5 DEF DeleteItem
  <2> QED BY <1>2, <2>1, <2>6, DeletionGoesOn
<1>9. CASE DeleteMember(c)
  <2>1. PICK q, i : /\ TreeStep(c, q) /\ At(c, "delete", "rows") /\ UNCHANGED <<dept, unused>>
                    /\ i \in call[c].rows /\ rel' = Dropping(rel, {i})
                    /\ q.op = "delete" /\ q.step = "rows" /\ q.rows = call[c].rows \ {i} /\ q.depts = call[c].depts
    BY <1>9, DeleteMemberSteps
  <2>2. Homes(dept, rel, call[c].depts, call[c].rows)
    BY <1>1, <1>3, <1>4, <2>1
  <2>3. DOMAIN rel' = DOMAIN rel \ {i} /\ \A j \in DOMAIN rel' : rel'[j] = rel[j]
    BY <2>1 DEF Dropping
  <2>4. DOMAIN rel' \ q.rows = DOMAIN rel \ call[c].rows
    BY <2>1, <2>3
  <2>5. Homes(dept', rel', q.depts, q.rows)
    BY <2>1, <2>2, <2>3, <2>4 DEF Homes
  <2>6. DeleteItem(q, dept', rel')
    BY <2>1, <2>5 DEF DeleteItem
  <2> QED BY <1>2, <2>1, <2>6, DeletionGoesOn
<1>10. CASE DeleteEnds(c)
  <2>1. /\ TreeStep(c, Idle) /\ At(c, "delete", "rows") /\ UNCHANGED <<dept, unused, rel>>
        /\ call[c].depts = {} /\ call[c].rows = {}
    BY <1>10, DeleteEndsSteps
  <2>2. Homed(dept', rel')
    BY <1>1, <1>3, <1>4, <2>1 DEF Homed
  <2> QED BY <1>1, <1>2, <2>1, <2>2, DeletionEnds
<1>11. CASE DeleteBreaks(c)
  BY <1>11, DeleteBreaksSteps DEF DeletesApart
<1> QED BY <1>5, <1>6, <1>7, <1>8, <1>9, <1>10, <1>11 DEF DeleteActs

LEMMA HomeStart == Init => HomeBody
<1> SUFFICES ASSUME Init PROVE HomeBody
  OBVIOUS
<1>1. /\ DOMAIN dept = DOMAIN InitialPath /\ rel = InitialMember
      /\ \A d \in DOMAIN dept : dept[d].parent = ParentOf(InitialPath[d])
      /\ \A c \in Call : call[c] = Idle
  BY DEF Init
<1>2. ASSUME NEW d \in DOMAIN dept PROVE dept[d].parent \in DOMAIN dept \cup {NoDept}
  <2>1. PICK s : s = InitialPath[d]
    OBVIOUS
  <2>2. s \in Seq(Dept) /\ s # <<>> /\ (Len(s) > 1 => s[Len(s) - 1] \in DOMAIN InitialPath)
    BY <1>1, <2>1, InitialAssumption
  <2>3. PICK L \in Nat : L = Len(s) /\ L # 0
    BY <2>2
  <2>4. L = 1 \/ L > 1
    BY <2>3
  <2> QED BY <1>1, <2>1, <2>2, <2>3, <2>4 DEF ParentOf
<1>3. ASSUME NEW i \in DOMAIN rel PROVE rel[i].dept \in DOMAIN dept
  <2>1. PICK rows : rows = [dept : DOMAIN InitialPath, user : User, type : Type]
    OBVIOUS
  <2>2. InitialMember \in Seq(rows)
    BY <2>1 DEF Type
  <2>3. rel[i] \in rows
    BY <1>1, <1>3, <2>2
  <2> QED BY <1>1, <2>1, <2>3
<1>4. Homed(dept, rel)
  BY <1>2, <1>3 DEF Homed, Homes
<1> QED BY <1>1, <1>4 DEF HomeBody, HomeItem, DeleteItem, Idle

LEMMA HomeNext == BaseInv /\ TreeInv /\ HomeInv /\ [Next]_vars => HomeInv'
<1> SUFFICES ASSUME BaseInv, TreeInv, HomeInv, [Next]_vars PROVE HomeInv'
  OBVIOUS
<1>1. CASE Next
  <2>1. SUFFICES ASSUME DeletesApart' PROVE HomeBody'
    BY DEF HomeInv
  <2>2. BaseInv'
    BY BaseStep
  <2>3. PICK c \in Call : CreateActs(c) \/ MoveActs(c) \/ DeleteActs(c) \/ RelateActs(c)
    BY <1>1, StepsOfNext
  <2>4. \E q : Moves(c, q)
    BY <2>3, RelateActsStep, TreeActsStep DEF RelateStep, TreeStep
  <2>5. DeletesApart
    BY <2>1, <2>4, DeletesApartBefore
  <2>6. HomeBody /\ Tree
    BY <2>5 DEF HomeInv, TreeInv, DeletesApart
  <2>7. CASE CreateActs(c) \/ MoveActs(c)
    BY <2>1, <2>2, <2>5, <2>6, <2>7, TreeHomes
  <2>8. CASE DeleteActs(c)
    BY <2>1, <2>2, <2>5, <2>6, <2>8, DeleteHomes
  <2>9. CASE RelateActs(c)
    BY <2>1, <2>2, <2>5, <2>6, <2>9, RelateActsStep, RelateHomes
  <2> QED BY <2>3, <2>7, <2>8, <2>9
<1>2. CASE UNCHANGED vars
  BY <1>2 DEF vars, HomeInv, HomeBody, DeletesApart, TreeKept, Apart, Quiet, Active, Live
<1> QED BY <1>1, <1>2

\* Delete reads the subtree by the path its department had, and the members
\* after it, and removes them one by one: alone, and not stopped half-way, it
\* leaves no department below one that is gone and no relation to one.
THEOREM DeletionsLeaveNothing == Spec => []NoOrphans
<1>1. Init => BaseInv /\ TreeInv /\ HomeInv
  BY BaseStart, TreeStart, HomeStart DEF TreeInv, HomeInv
<1>2. BaseInv /\ TreeInv /\ HomeInv /\ [Next]_vars => (BaseInv /\ TreeInv /\ HomeInv)'
  BY BaseStep, TreeNext, HomeNext
<1>3. HomeInv => NoOrphans
  BY DEF HomeInv, HomeBody, DeletesApart, NoOrphans, Homed, Homes, Live
<1> QED BY <1>1, <1>2, <1>3, PTL DEF Spec
=============================================================================
