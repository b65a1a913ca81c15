------------------------ MODULE RefreshRotationProofs ------------------------
(***************************************************************************)
(* What RefreshRotation guarantees for every number of tokens, requests,   *)
(* processes and revocations, every window and every lifetime.             *)
(***************************************************************************)
EXTENDS RefreshRotation, FiniteSetTheorems, TLAPS

\* The types of the records, expanded together wherever types are at stake.
USE DEF dbVars, memVars, actVars

-----------------------------------------------------------------------------
(* Type correctness.                                                       *)

\* The initial state is well typed.
LEMMA InitTyped == Init => TypeOK
<1> SUFFICES ASSUME Init PROVE TypeOK
  OBVIOUS
<1> USE TimeAssumption DEF Time
<1>1. /\ NoRow \in Row /\ NoEntry \in Entry
  BY DEF Row, Entry, NoRow, NoEntry
<1>2. (CHOOSE p \in Proc : TRUE) \in Proc
  BY ProcAssumption
<1>3. NewReq \in Req
  BY <1>2 DEF NewReq, Req
<1>4. /\ logout \in [Logout -> Bulk]
      /\ revoker \in [Revoker -> Rfc7009]
  BY DEF Init, Bulk, Rfc7009
<1>5. now \in 1 .. MaxTime /\ restarts \in 0 .. MaxRestarts
  BY DEF Init
<1> QED BY <1>1, <1>3, <1>4, <1>5 DEF Init, TypeOK

\* A row that is stamped stays a row; a request that is aborted, a request.
LEMMA StampedRow ==
  ASSUME NEW x \in Row, NEW at \in Time
  PROVE  [x EXCEPT !.revokedAt = at] \in Row
  BY DEF Row

LEMMA AbortedRequest ==
  ASSUME NEW x \in Req
  PROVE  [x EXCEPT !.pc = "aborted"] \in Req
  BY DEF Req, Finished

\* A bulk UPDATE keeps the rows well typed.
LEMMA RevokeRowsTyped ==
  ASSUME TypeOK, NEW S, NEW at \in Time, RevokeRows(S, at)
  PROVE  row' \in [Token -> Row]
  BY DEF TypeOK, RevokeRows, Row

\* What a statement spares are grants.
LEMMA SparedTyped ==
  ASSUME TypeOK, NEW S
  PROVE  Spared(S) \in SUBSET (Token \cup {NoToken})
  BY DEF TypeOK, Spared, Live

\* A request keeps its record well typed: the steps that answer no row.
LEMMA ServeTyped ==
  ASSUME TypeOK, NEW r \in Request, Serve(r), req[r].tok \in Token
  PROVE  TypeOK'
<1> USE TimeAssumption DEF TypeOK, Req, Running, Finished, Time
<1>0. /\ req[r] \in Req /\ req[r].proc \in Proc /\ req[r].tok \in Token
      /\ now \in Time
  OBVIOUS
<1>1. CASE Lookup(r)
  <2>1. EntryOf(r) \in Entry
    BY <1>0 DEF EntryOf
  <2>2. NoEntry \in Entry
    BY DEF Entry, NoEntry
  <2>3. UNCHANGED <<now, dbVars, inflight, lost, meta, actVars, restarts>>
    BY <1>1 DEF Lookup, Consult
  <2>4. CASE Hit(r)
    <3>1. /\ req' = [req EXCEPT ![r] = [@ EXCEPT !.pc = "gate", !.answer = EntryOf(r).next]]
          /\ grace' = grace
      BY <1>1, <2>4 DEF Lookup, Consult
    <3> QED BY <1>0, <2>1, <2>3, <3>1 DEF Entry
  <2>5. CASE ~Hit(r)
    <3>1. /\ req' = [req EXCEPT ![r] = [@ EXCEPT !.pc = "begin", !.since = now]]
          /\ grace' = [grace EXCEPT ![req[r].proc][req[r].tok] = NoEntry]
      BY <1>1, <2>5 DEF Lookup, Consult
    <3> QED BY <1>0, <2>2, <2>3, <3>1
  <2> QED BY <2>4, <2>5
<1>2. CASE BeginRotation(r)
  <2>1. CASE inflight[req[r].proc][req[r].tok] = NoRequest
    <3>1. /\ inflight' = [inflight EXCEPT ![req[r].proc][req[r].tok] = r]
          /\ req' = [req EXCEPT ![r] = [@ EXCEPT !.pc = "end"]]
          /\ UNCHANGED <<now, dbVars, grace, lost, meta, actVars, restarts>>
      BY <1>2, <2>1 DEF BeginRotation
    <3> QED BY <1>0, <3>1
  <2>2. CASE inflight[req[r].proc][req[r].tok] # NoRequest
    <3>1. /\ inflight[req[r].proc][req[r].tok] \in Request
          /\ inflight' = inflight
          /\ req' = [req EXCEPT ![r] = [@ EXCEPT !.pc = "wait", !.since = now,
                                          !.leader = inflight[req[r].proc][req[r].tok]]]
          /\ UNCHANGED <<now, dbVars, grace, lost, meta, actVars, restarts>>
      BY <1>2, <1>0, <2>2 DEF BeginRotation
    <3> QED BY <1>0, <3>1
  <2> QED BY <2>1, <2>2
<1>3. CASE EndRotation(r)
  BY <1>3, <1>0 DEF EndRotation
<1>4. CASE WakeUp(r)
  BY <1>4, <1>0 DEF WakeUp
<1>5. CASE WaitTimeout(r)
  BY <1>5, <1>0 DEF WaitTimeout
<1>6. CASE Relookup(r)
  <2>1. EntryOf(r) \in Entry
    BY <1>0 DEF EntryOf
  <2>2. NoEntry \in Entry
    BY DEF Entry, NoEntry
  <2>3. UNCHANGED <<now, dbVars, inflight, lost, meta, actVars, restarts>>
    BY <1>6 DEF Relookup, Consult
  <2>4. CASE Hit(r)
    <3>1. /\ req' = [req EXCEPT ![r] = [@ EXCEPT !.pc = "gate", !.answer = EntryOf(r).next]]
          /\ grace' = grace
      BY <1>6, <2>4 DEF Relookup, Consult
    <3> QED BY <1>0, <2>1, <2>3, <3>1 DEF Entry
  <2>5. CASE ~Hit(r)
    <3>1. /\ req' = [req EXCEPT ![r] = [@ EXCEPT !.pc = "prepare", !.since = now]]
          /\ grace' = [grace EXCEPT ![req[r].proc][req[r].tok] = NoEntry]
      BY <1>6, <2>5 DEF Relookup, Consult
    <3> QED BY <1>0, <2>2, <2>3, <3>1
  <2> QED BY <2>4, <2>5
<1>7. CASE Prepare(r)
  <2>1. CASE req' = [req EXCEPT ![r] = [@ EXCEPT !.pc = "rotate", !.stamp = now]]
    BY <1>7, <1>0, <2>1 DEF Prepare
  <2>2. CASE req' = [req EXCEPT ![r] = [@ EXCEPT !.pc = "failed"]]
    BY <1>7, <1>0, <2>2 DEF Prepare
  <2> QED BY <1>7, <2>1, <2>2 DEF Prepare
<1>8. CASE Rotating(r)
  <2>1. CASE \E s \in Token : RotateRow(r, s)
    <3>1. PICK s \in Token : RotateRow(r, s)
      BY <2>1
    <3>2. [person |-> row[req[r].tok].person, client |-> NoClient,
           revokedAt |-> 0, expiredAt |-> req[r].stamp + TTL] \in Row
      BY <1>0 DEF Row
    <3>3. row' \in [Token -> Row]
      BY <3>1, <3>2, <1>0 DEF RotateRow, Row
    <3> QED BY <3>1, <3>3, <1>0 DEF RotateRow
  <2>2. CASE DetectReuse(r)
    BY <2>2, <1>0 DEF DetectReuse
  <2>3. CASE RotateFails(r)
    BY <2>3, <1>0 DEF RotateFails
  <2> QED BY <1>8, <2>1, <2>2, <2>3 DEF Rotating
<1>9. CASE FamilyBegin(r)
  BY <1>9, <1>0 DEF FamilyBegin, Rows
<1>10. CASE FamilyApply(r)
  <2>1. row' \in [Token -> Row]
    BY <1>10, <1>0, RevokeRowsTyped DEF FamilyApply
  <2>2. CASE req' = [req EXCEPT ![r] = [@ EXCEPT !.pc = "reused", !.spared = Spared(req[r].snap)]]
    <3>1. Spared(req[r].snap) \in SUBSET (Token \cup {NoToken})
      BY SparedTyped
    <3> QED BY <1>10, <1>0, <2>1, <2>2, <3>1 DEF FamilyApply
  <2>3. CASE req' = [req EXCEPT ![r] = [@ EXCEPT !.pc = "unrevoked"]]
    BY <1>10, <1>0, <2>1, <2>3 DEF FamilyApply
  <2> QED BY <1>10, <2>2, <2>3 DEF FamilyApply
<1>11. CASE Remember(r)
  <2>1. PICK K \in Kept(req[r].proc) :
          grace' = [grace EXCEPT ![req[r].proc] =
            [t \in Token |->
               IF t = req[r].tok THEN [next |-> req[r].answer, rotatedAt |-> req[r].stamp]
               ELSE IF t \in K THEN grace[req[r].proc][t] ELSE NoEntry]]
    BY <1>11 DEF Remember
  <2>2. grace' \in [Proc -> [Token -> Entry]]
    BY <2>1, <1>0 DEF Entry, NoEntry
  <2>3. lost' \subseteq Token
    BY <1>11 DEF Remember, Fresh
  <2> QED BY <1>11, <1>0, <2>2, <2>3 DEF Remember
<1>12. CASE StoreMeta(r)
  BY <1>12, <1>0 DEF StoreMeta
<1>13. CASE Gate(r)
  <2>1. CASE req' = [req EXCEPT ![r] = [@ EXCEPT !.pc = "granted"]]
    BY <1>13, <1>0, <2>1 DEF Gate
  <2>2. CASE req' = [req EXCEPT ![r] = [@ EXCEPT !.pc = "denied"]]
    BY <1>13, <1>0, <2>2 DEF Gate
  <2> QED BY <1>13, <2>1, <2>2 DEF Gate
<1> QED BY <1>1, <1>2, <1>3, <1>4, <1>5, <1>6, <1>7, <1>8, <1>9, <1>10,
            <1>11, <1>12, <1>13 DEF Serve

\* Any step keeps the state well typed, given that actors name rows.
LEMMA NextTyped ==
  ASSUME TypeOK, ActorsNameRows, [Next]_vars
  PROVE  TypeOK'
<1> USE TimeAssumption DEF Time
<1>1. CASE \E t \in Token, p \in Person, c \in Client : IssueGrant(t, p, c)
  <2>1. PICK t \in Token, p \in Person, c \in Client : IssueGrant(t, p, c)
    BY <1>1
  <2>2. [person |-> p, client |-> c, revokedAt |-> 0, expiredAt |-> now + TTL] \in Row
    BY DEF TypeOK, Row
  <2>3. row' \in [Token -> Row]
    BY <2>1, <2>2 DEF IssueGrant, TypeOK
  <2> QED BY <2>1, <2>3 DEF IssueGrant, TypeOK
<1>2. CASE \E r \in Request, p \in Proc, t \in Token : Arrive(r, p, t)
  <2>1. PICK r \in Request, p \in Proc, t \in Token : Arrive(r, p, t)
    BY <1>2
  <2>2. PICK pc \in {"stale", "expired", "lookup"}, S \in SUBSET Request :
          req' = [req EXCEPT ![r] = [@ EXCEPT !.proc = p, !.tok = t, !.seen = S, !.pc = pc]]
    BY <2>1 DEF Arrive
  <2>3. req' \in [Request -> Req]
    <3>1. req[r] \in Req
      BY DEF TypeOK
    <3>2. [req[r] EXCEPT !.proc = p, !.tok = t, !.seen = S, !.pc = pc] \in Req
      BY <3>1 DEF Req, Running, Finished
    <3> QED BY <2>2, <3>2 DEF TypeOK
  <2> QED BY <2>1, <2>3 DEF Arrive, TypeOK
<1>3. CASE \E r \in Request : Serve(r)
  <2>1. PICK r \in Request : Serve(r)
    BY <1>3
  <2>2. req[r].pc # "idle"
    BY <2>1 DEF Serve, Lookup, BeginRotation, EndRotation, WakeUp, WaitTimeout, Relookup,
       Prepare, Rotating, RotateRow, DetectReuse, RotateFails, FamilyBegin, FamilyApply,
       Remember, StoreMeta, Gate
  <2>3. req[r].tok \in Token
    BY <2>2 DEF ActorsNameRows, TypeOK
  <2> QED BY <2>1, <2>3, ServeTyped
<1>4. CASE \E l \in Logout, p \in Person : LogoutBegin(l, p)
  BY <1>4 DEF LogoutBegin, TypeOK, Bulk, Rows
<1>5. CASE \E l \in Logout : LogoutApply(l)
  <2>1. PICK l \in Logout : LogoutApply(l)
    BY <1>5
  <2>2. row' \in [Token -> Row]
    BY <2>1, RevokeRowsTyped DEF LogoutApply, TypeOK
  <2>3. PICK spared \in SUBSET (Token \cup {NoToken}) : spared = Spared(logout[l].snap)
    BY SparedTyped
  <2>4. /\ [logout[l] EXCEPT !.pc = "done", !.spared = spared] \in Bulk
        /\ [logout[l] EXCEPT !.pc = "failed"] \in Bulk
    BY DEF TypeOK, Bulk
  <2>5. \/ logout' = [logout EXCEPT ![l] = [@ EXCEPT !.pc = "done", !.spared = spared]]
        \/ logout' = [logout EXCEPT ![l] = [@ EXCEPT !.pc = "failed"]]
    BY <2>1, <2>3 DEF LogoutApply
  <2>6. logout' \in [Logout -> Bulk]
    BY <2>4, <2>5 DEF TypeOK
  <2> QED BY <2>1, <2>2, <2>6 DEF LogoutApply, TypeOK
<1>6. CASE \E v \in Revoker, t \in Token, c \in Client : RevokeCheck(v, t, c)
  BY <1>6 DEF RevokeCheck, TypeOK, Rfc7009
<1>7. CASE \E v \in Revoker : RevokeApply(v)
  <2>1. PICK v \in Revoker : RevokeApply(v)
    BY <1>7
  <2>2. revoker[v].tok \in Token
    BY <2>1 DEF RevokeApply, ActorsNameRows, TypeOK
  <2>3. row' \in [Token -> Row]
    <3>0. row[revoker[v].tok] \in Row /\ now \in Time
      BY <2>2 DEF TypeOK
    <3>1. [row[revoker[v].tok] EXCEPT !.revokedAt = now] \in Row
      BY <3>0, StampedRow
    <3>2. \/ row' = [row EXCEPT ![revoker[v].tok] = [@ EXCEPT !.revokedAt = now]]
          \/ row' = row
      BY <2>1 DEF RevokeApply
    <3> QED BY <2>2, <3>1, <3>2 DEF TypeOK
  <2>4. revoker' = [revoker EXCEPT ![v].pc = "done"] \/ revoker' = [revoker EXCEPT ![v].pc = "failed"]
    BY <2>1 DEF RevokeApply
  <2>5. revoker' \in [Revoker -> Rfc7009]
    <3>1. /\ [revoker[v] EXCEPT !.pc = "done"] \in Rfc7009
          /\ [revoker[v] EXCEPT !.pc = "failed"] \in Rfc7009
      BY DEF TypeOK, Rfc7009
    <3>2. \/ revoker' = [revoker EXCEPT ![v] = [@ EXCEPT !.pc = "done"]]
          \/ revoker' = [revoker EXCEPT ![v] = [@ EXCEPT !.pc = "failed"]]
      BY <2>4
    <3> QED BY <3>1, <3>2 DEF TypeOK
  <2> QED BY <2>1, <2>3, <2>5 DEF RevokeApply, TypeOK
<1>8. CASE \E l \in Logout, t \in Token : RevokeSession(l, t)
  <2>1. PICK l \in Logout, t \in Token : RevokeSession(l, t)
    BY <1>8
  <2>2. row' \in [Token -> Row]
    <3>1. [row[t] EXCEPT !.revokedAt = now] \in Row
      BY StampedRow DEF TypeOK
    <3> QED BY <2>1, <3>1 DEF RevokeSession, TypeOK
  <2>3. /\ [pc |-> "done", person |-> row[t].person, snap |-> {t}, spared |-> {}] \in Bulk
        /\ [logout[l] EXCEPT !.pc = "failed"] \in Bulk
    BY DEF TypeOK, Row, Bulk
  <2>4. logout' \in [Logout -> Bulk]
    BY <2>1, <2>3 DEF RevokeSession, TypeOK
  <2> QED BY <2>1, <2>2, <2>4 DEF RevokeSession, TypeOK
<1>9. CASE \E p \in Proc : Restart(p)
  <2>1. PICK p \in Proc : Restart(p)
    BY <1>9
  <2>2. NoEntry \in Entry
    BY DEF NoEntry, Entry
  <2>3. req' \in [Request -> Req]
    <3>1. \A q \in Request : [req[q] EXCEPT !.pc = "aborted"] \in Req
      BY AbortedRequest DEF TypeOK
    <3> QED BY <2>1, <3>1 DEF Restart, TypeOK
  <2>4. lost' \subseteq Token
    BY <2>1 DEF Restart, TypeOK, Fresh
  <2> QED BY <2>1, <2>2, <2>3, <2>4 DEF Restart, TypeOK
<1>10. CASE Tick
  BY <1>10 DEF Tick, TypeOK
<1>11. CASE UNCHANGED vars
  BY <1>11 DEF vars, TypeOK
<1> QED BY <1>1, <1>2, <1>3, <1>4, <1>5, <1>6, <1>7, <1>8, <1>9, <1>10, <1>11 DEF Next

-----------------------------------------------------------------------------
(* What a step does to the table.  The rows move in three ways only: some  *)
(* die, a login adds one, or a rotation exchanges one.                     *)

RowsOnlyDie == /\ UNCHANGED <<issued, origin, parent>>
               /\ \A t \in issued : row'[t].revokedAt = 0 => row[t].revokedAt = 0

Login == \E t \in Token, p \in Person, c \in Client : IssueGrant(t, p, c)
Exchange == \E r \in Request, s \in Token : RotateRow(r, s)

\* A bulk UPDATE only kills rows.
LEMMA RevokeRowsKills ==
  ASSUME TypeOK, NEW S, NEW at, RevokeRows(S, at), UNCHANGED <<issued, origin, parent>>
  PROVE  RowsOnlyDie
  BY DEF TypeOK, RevokeRows, RowsOnlyDie

\* No handler other than the rotation itself touches the table, except the
\* family revocation, which kills rows.
LEMMA ServeTableStep ==
  ASSUME TypeOK, NEW r \in Request, Serve(r)
  PROVE  RowsOnlyDie \/ Exchange
<1>1. CASE \E s \in Token : RotateRow(r, s)
  BY <1>1 DEF Exchange
<1>2. CASE FamilyApply(r)
  <2>1. UNCHANGED <<issued, origin, parent>>
    BY <1>2 DEF FamilyApply
  <2>2. CASE RevokeRows(req[r].snap, req[r].stamp)
    BY <2>1, <2>2, RevokeRowsKills
  <2>3. CASE UNCHANGED row
    BY <2>1, <2>3 DEF RowsOnlyDie
  <2> QED BY <1>2, <2>2, <2>3 DEF FamilyApply
<1>3. CASE Serve(r) /\ ~FamilyApply(r) /\ ~(\E s \in Token : RotateRow(r, s))
  <2>1. UNCHANGED dbVars
    BY <1>3 DEF Serve, Lookup, Consult, BeginRotation, EndRotation, WakeUp, WaitTimeout,
       Relookup, Prepare, Rotating, DetectReuse, RotateFails, FamilyBegin, Remember,
       StoreMeta, Gate
  <2> QED BY <2>1 DEF RowsOnlyDie
<1> QED BY <1>1, <1>2, <1>3

\* The classification for every step.
LEMMA TableStep ==
  ASSUME TypeOK, ActorsNameRows, [Next]_vars
  PROVE  RowsOnlyDie \/ Login \/ Exchange
<1>1. CASE Login
  BY <1>1
<1>2. CASE \E r \in Request : Serve(r)
  BY <1>2, ServeTableStep
<1>3. CASE \E l \in Logout : LogoutApply(l)
  <2>1. PICK l \in Logout : LogoutApply(l)
    BY <1>3
  <2>2. UNCHANGED <<issued, origin, parent>> /\ (RevokeRows(logout[l].snap, now) \/ UNCHANGED row)
    BY <2>1 DEF LogoutApply
  <2>3. CASE UNCHANGED row
    BY <2>2, <2>3 DEF RowsOnlyDie
  <2> QED BY <2>2, <2>3, RevokeRowsKills
<1>4. CASE \E v \in Revoker : RevokeApply(v)
  <2>1. PICK v \in Revoker : RevokeApply(v)
    BY <1>4
  <2>2. revoker[v].tok \in Token
    BY <2>1 DEF RevokeApply, ActorsNameRows, TypeOK
  <2>3. /\ now # 0
        /\ UNCHANGED <<issued, origin, parent>>
        /\ \/ row' = [row EXCEPT ![revoker[v].tok].revokedAt = now]
           \/ row' = row
    BY <2>1 DEF RevokeApply, TypeOK
  <2>4. \A t \in Token : row'[t].revokedAt = 0 => row[t].revokedAt = 0
    BY <2>2, <2>3 DEF TypeOK, Row
  <2> QED BY <2>3, <2>4 DEF RowsOnlyDie, TypeOK
<1>5. CASE \E l \in Logout, t \in Token : RevokeSession(l, t)
  <2>1. PICK l \in Logout, t \in Token : RevokeSession(l, t)
    BY <1>5
  <2>2. /\ now # 0
        /\ UNCHANGED <<issued, origin, parent>>
        /\ row' = row \/ row' = [row EXCEPT ![t].revokedAt = now]
    BY <2>1 DEF RevokeSession, TypeOK
  <2>3. \A u \in Token : row'[u].revokedAt = 0 => row[u].revokedAt = 0
    BY <2>2 DEF TypeOK, Row
  <2> QED BY <2>2, <2>3 DEF RowsOnlyDie, TypeOK
<1>6. CASE UNCHANGED dbVars
  BY <1>6 DEF RowsOnlyDie
<1> QED
  BY <1>1, <1>2, <1>3, <1>4, <1>5, <1>6
  DEF Next, Login, Arrive, LogoutBegin, RevokeCheck, Restart, Tick, vars

\* Rows are never deleted and their history never changes.
LEMMA HistoryGrows ==
  ASSUME TypeOK, ActorsNameRows, [Next]_vars
  PROVE  /\ issued \subseteq issued'
         /\ \A u \in issued : origin'[u] = origin[u] /\ parent'[u] = parent[u]
<1>1. CASE RowsOnlyDie
  BY <1>1 DEF RowsOnlyDie
<1>2. CASE Login
  BY <1>2 DEF Login, IssueGrant, TypeOK
<1>3. CASE Exchange
  BY <1>3 DEF Exchange, RotateRow, TypeOK
<1> QED BY <1>1, <1>2, <1>3, TableStep

-----------------------------------------------------------------------------
(* The part of the invariant that is about the table.                      *)

TableInv == ReplacedIsRevoked /\ OneLivePerGrant /\ SingleSuccessor

\* Killing rows cannot split a grant or revive a replaced token.
LEMMA DyingKeepsTable ==
  ASSUME TypeOK, TableInv, RowsOnlyDie
  PROVE  TableInv'
<1>1. \A t \in issued : Live(t)' => Live(t)
  BY DEF RowsOnlyDie, Live
<1>2. issued' = issued /\ origin' = origin /\ parent' = parent
  BY DEF RowsOnlyDie
<1>3. ReplacedIsRevoked'
  <2>1. \A t \in issued : /\ origin[t] \in issued
                          /\ parent[t] # NoToken =>
                                parent[t] \in issued /\ row'[parent[t]].revokedAt # 0
    BY DEF TableInv, ReplacedIsRevoked, RowsOnlyDie, Live
  <2>2. \A t \in Token \ issued : parent[t] = NoToken
    BY DEF TableInv, ReplacedIsRevoked
  <2> QED BY <1>2, <2>1, <2>2 DEF ReplacedIsRevoked, Live
<1>4. OneLivePerGrant'
  <2> SUFFICES ASSUME NEW t \in issued, NEW u \in issued, Live(t)', Live(u)', origin[t] = origin[u]
      PROVE  t = u
    BY <1>2 DEF OneLivePerGrant, Live
  <2> QED BY <1>1 DEF TableInv, OneLivePerGrant
<1>5. SingleSuccessor'
  BY <1>2 DEF TableInv, SingleSuccessor
<1> QED BY <1>3, <1>4, <1>5 DEF TableInv

\* A login opens a grant of its own: no row names the new token.
LEMMA LoginKeepsTable ==
  ASSUME TypeOK, TableInv, NEW t \in Token, NEW p \in Person, NEW c \in Client, IssueGrant(t, p, c)
  PROVE  TableInv'
<1> USE NoTokenAssumption
<1>1. /\ t \notin issued /\ issued' = issued \cup {t} /\ parent' = parent
      /\ origin' = [origin EXCEPT ![t] = t]
      /\ \A u \in issued : row'[u] = row[u] /\ origin'[u] = origin[u]
      /\ origin'[t] = t
  BY DEF IssueGrant, TypeOK
<1>2. \A u \in issued : Live(u)' <=> Live(u)
  BY <1>1 DEF Live
<1>3. \A u \in issued : origin[u] \in issued /\ origin[u] # t /\ parent[u] # t
  <2> SUFFICES ASSUME NEW u \in issued
      PROVE  origin[u] \in issued /\ origin[u] # t /\ parent[u] # t
    OBVIOUS
  <2>1. origin[u] \in issued /\ (parent[u] = NoToken \/ parent[u] \in issued)
    BY DEF TableInv, ReplacedIsRevoked
  <2>2. t # NoToken
    OBVIOUS
  <2> QED BY <1>1, <2>1, <2>2
<1>4. parent[t] = NoToken
  BY <1>1 DEF TableInv, ReplacedIsRevoked
<1>5. ReplacedIsRevoked'
  <2>1. \A u \in issued' : /\ origin'[u] \in issued'
                           /\ parent'[u] # NoToken => parent'[u] \in issued' /\ ~Live(parent[u])'
    BY <1>1, <1>2, <1>3, <1>4 DEF TableInv, ReplacedIsRevoked
  <2>2. \A u \in Token \ issued' : parent'[u] = NoToken
    BY <1>1 DEF TableInv, ReplacedIsRevoked
  <2> QED BY <1>1, <2>1, <2>2 DEF ReplacedIsRevoked
<1>6. OneLivePerGrant'
  <2> SUFFICES ASSUME NEW u \in issued', NEW w \in issued', Live(u)', Live(w)', origin'[u] = origin'[w]
      PROVE  u = w
    BY DEF OneLivePerGrant
  <2> QED BY <1>1, <1>2, <1>3 DEF TableInv, OneLivePerGrant
<1>7. SingleSuccessor'
  <2> SUFFICES ASSUME NEW u \in issued', NEW w \in issued', parent[u] # NoToken, parent[u] = parent[w]
      PROVE  u = w
    BY <1>1 DEF SingleSuccessor
  <2> QED BY <1>1, <1>4 DEF TableInv, SingleSuccessor
<1> QED BY <1>5, <1>6, <1>7 DEF TableInv

\* An exchange kills the consumed row as it adds the successor: no third row
\* is live in the grant, and no other row replaced the consumed one.
LEMMA ExchangeKeepsTable ==
  ASSUME TypeOK, TableInv, Stamped, NEW r \in Request, NEW s \in Token, RotateRow(r, s)
  PROVE  TableInv'
<1> USE NoTokenAssumption
<1>0. PICK t \in Token : t = req[r].tok
  BY DEF RotateRow, ConsumeHits, Live, TypeOK
<1>1. /\ t \in issued /\ Live(t) /\ s \notin issued /\ s # t /\ t # NoToken
      /\ issued' = issued \cup {s}
  BY <1>0 DEF RotateRow, ConsumeHits, Live, TypeOK
<1>2. /\ origin' = [origin EXCEPT ![s] = origin[t]]
      /\ parent' = [parent EXCEPT ![s] = t]
      /\ row' = [row EXCEPT ![t].revokedAt = req[r].stamp,
                            ![s] = [person |-> row[t].person, client |-> NoClient,
                                    revokedAt |-> 0, expiredAt |-> req[r].stamp + TTL]]
      /\ req[r].stamp # 0
  BY <1>0 DEF RotateRow, Stamped, TypeOK, Req, Time
<1>3. /\ parent'[s] = t /\ origin'[s] = origin[t]
      /\ \A u \in issued : origin'[u] = origin[u] /\ parent'[u] = parent[u]
  BY <1>1, <1>2 DEF TypeOK
<1>4. /\ row'[t].revokedAt = req[r].stamp
      /\ \A u \in issued \ {t} : row'[u] = row[u]
  BY <1>1, <1>2 DEF TypeOK, Row
<1>5. ~Live(t)' /\ \A u \in issued \ {t} : Live(u)' <=> Live(u)
  BY <1>1, <1>2, <1>4 DEF Live
<1>6. \A u \in issued : parent[u] # t /\ parent[u] # s /\ origin[u] \in issued
  <2> SUFFICES ASSUME NEW u \in issued
      PROVE  parent[u] # t /\ parent[u] # s /\ origin[u] \in issued
    OBVIOUS
  <2>1. /\ origin[u] \in issued
        /\ parent[u] = NoToken \/ (parent[u] \in issued /\ ~Live(parent[u]))
    BY DEF TableInv, ReplacedIsRevoked
  <2>2. s # NoToken
    OBVIOUS
  <2> QED BY <1>1, <2>1, <2>2
<1>7. ReplacedIsRevoked'
  <2>1. \A u \in issued' : /\ origin'[u] \in issued'
                           /\ parent'[u] # NoToken => parent'[u] \in issued' /\ ~Live(parent[u])'
    <3> SUFFICES ASSUME NEW u \in issued'
        PROVE  /\ origin'[u] \in issued'
               /\ parent'[u] # NoToken => parent'[u] \in issued' /\ ~Live(parent[u])'
      OBVIOUS
    <3>1. CASE u = s
      BY <1>1, <1>3, <1>5, <1>6, <3>1
    <3>2. CASE u \in issued
      BY <1>1, <1>3, <1>5, <3>2 DEF TableInv, ReplacedIsRevoked
    <3> QED BY <1>1, <3>1, <3>2
  <2>2. \A u \in Token \ issued' : parent'[u] = NoToken
    BY <1>1, <1>2 DEF TableInv, ReplacedIsRevoked, TypeOK
  <2> QED BY <2>1, <2>2 DEF ReplacedIsRevoked
<1>8. OneLivePerGrant'
  <2> SUFFICES ASSUME NEW u \in issued', NEW w \in issued', Live(u)', Live(w)', origin'[u] = origin'[w]
      PROVE  u = w
    BY DEF OneLivePerGrant
  <2>1. CASE u \in issued /\ w \in issued
    BY <1>3, <1>5, <2>1 DEF TableInv, OneLivePerGrant
  <2>2. CASE u = s /\ w \in issued
    BY <1>1, <1>3, <1>5, <2>2 DEF TableInv, OneLivePerGrant
  <2>3. CASE u \in issued /\ w = s
    BY <1>1, <1>3, <1>5, <2>3 DEF TableInv, OneLivePerGrant
  <2> QED BY <1>1, <2>1, <2>2, <2>3
<1>9. SingleSuccessor'
  <2> SUFFICES ASSUME NEW u \in issued', NEW w \in issued', parent'[u] # NoToken, parent'[u] = parent'[w]
      PROVE  u = w
    BY DEF SingleSuccessor
  <2>1. CASE u \in issued /\ w \in issued
    BY <1>3, <2>1 DEF TableInv, SingleSuccessor
  <2>2. CASE ~(u \in issued /\ w \in issued)
    BY <1>1, <1>3, <1>6, <2>2
  <2> QED BY <2>1, <2>2
<1> QED BY <1>7, <1>8, <1>9 DEF TableInv

\* Together: the table part of the invariant is inductive.
LEMMA TableInvStep ==
  ASSUME TypeOK, ActorsNameRows, Stamped, TableInv, [Next]_vars
  PROVE  TableInv'
<1>1. CASE RowsOnlyDie
  BY <1>1, DyingKeepsTable
<1>2. CASE Login
  BY <1>2, LoginKeepsTable DEF Login
<1>3. CASE Exchange
  BY <1>3, ExchangeKeepsTable DEF Exchange
<1> QED BY <1>1, <1>2, <1>3, TableStep

-----------------------------------------------------------------------------
(* The part of the invariant that is about requests and caches.            *)

Grows == /\ issued \subseteq issued'
         /\ \A u \in issued : parent'[u] = parent[u]

\* What the invariant says of one request x, given the rows and their parents.
Sound(x, rows, par) ==
  /\ x.pc # "idle" => x.tok \in rows
  /\ x.pc \in {"rotate", "remember", "famBegin", "famApply"} => x.stamp >= 1
  /\ x.pc \in {"remember", "meta", "gate", "granted"} =>
       x.answer \in rows /\ par[x.answer] = x.tok

RequestsSound == \A r \in Request : Sound(req[r], issued, parent)

\* The three request parts of RotationInv, request by request.
LEMMA SoundSplit ==
  /\ RequestsSound =>
       /\ \A r \in Request : req[r].pc # "idle" => req[r].tok \in issued
       /\ Stamped /\ AnswersHoldSuccessors
  /\ ActorsNameRows /\ Stamped /\ AnswersHoldSuccessors => RequestsSound
  BY DEF RequestsSound, Sound, ActorsNameRows, Stamped, AnswersHoldSuccessors

\* A sound request stays sound when rows are added.
LEMMA SoundGrows ==
  ASSUME NEW x, Sound(x, issued, parent), Grows
  PROVE  Sound(x, issued', parent')
  BY DEF Sound, Grows

\* A handler's step leaves its own request sound and does not touch others.
LEMMA ServeKeepsSound ==
  ASSUME TypeOK, RequestsSound, CacheHoldsSuccessors, Grows, NEW r \in Request, Serve(r)
  PROVE  /\ Sound(req'[r], issued', parent')
         /\ \A q \in Request \ {r} : req'[q] = req[q]
<1>0. /\ req[r] \in Req /\ Sound(req[r], issued', parent') /\ now \in 1 .. MaxTime
  BY SoundGrows DEF TypeOK, RequestsSound
<1> USE DEF TypeOK, Req
<1>1. CASE Lookup(r) \/ Relookup(r)
  <2>1. PICK miss \in {"begin", "prepare"} : Consult(r, miss) /\ req[r].pc # "idle"
    BY <1>1 DEF Lookup, Relookup
  <2>2. req[r].tok \in issued
    BY <2>1 DEF RequestsSound, Sound
  <2>3. CASE Hit(r)
    <3>1. req' = [req EXCEPT ![r] = [@ EXCEPT !.pc = "gate", !.answer = EntryOf(r).next]]
      BY <2>1, <2>3 DEF Consult
    <3>2. EntryOf(r).next \in issued /\ parent[EntryOf(r).next] = req[r].tok
      BY <2>2, <2>3, <1>0 DEF Hit, EntryOf, CacheHoldsSuccessors
    <3> QED BY <1>0, <2>2, <3>1, <3>2 DEF Sound, Grows
  <2>4. CASE ~Hit(r)
    <3>1. req' = [req EXCEPT ![r] = [@ EXCEPT !.pc = miss, !.since = now]]
      BY <2>1, <2>4 DEF Consult
    <3> QED BY <1>0, <2>1, <3>1 DEF Sound
  <2> QED BY <2>3, <2>4
<1>2. CASE BeginRotation(r)
  <2>1. req[r].pc = "begin"
    BY <1>2 DEF BeginRotation
  <2>2. CASE req' = [req EXCEPT ![r] = [@ EXCEPT !.pc = "end"]]
    BY <1>0, <2>1, <2>2 DEF Sound
  <2>3. CASE req' = [req EXCEPT ![r] = [@ EXCEPT !.pc = "wait", !.since = now,
                                          !.leader = inflight[req[r].proc][req[r].tok]]]
    BY <1>0, <2>1, <2>3 DEF Sound
  <2> QED BY <1>2, <2>2, <2>3 DEF BeginRotation
<1>3. CASE EndRotation(r)
  BY <1>0, <1>3 DEF EndRotation, Sound
<1>4. CASE WakeUp(r)
  BY <1>0, <1>4 DEF WakeUp, Sound
<1>5. CASE WaitTimeout(r)
  BY <1>0, <1>5 DEF WaitTimeout, Sound
<1>6. CASE Prepare(r)
  <2>1. req[r].pc = "prepare"
    BY <1>6 DEF Prepare
  <2>2. CASE req' = [req EXCEPT ![r] = [@ EXCEPT !.pc = "rotate", !.stamp = now]]
    BY <1>0, <2>1, <2>2 DEF Sound
  <2>3. CASE req' = [req EXCEPT ![r] = [@ EXCEPT !.pc = "failed"]]
    BY <1>0, <2>1, <2>3 DEF Sound
  <2> QED BY <1>6, <2>2, <2>3 DEF Prepare
<1>7. CASE \E s \in Token : RotateRow(r, s)
  <2>1. PICK s \in Token : RotateRow(r, s)
    BY <1>7
  <2>2. /\ req' = [req EXCEPT ![r] = [@ EXCEPT !.pc = "remember", !.answer = s]]
        /\ req[r].pc = "rotate" /\ s \in issued' /\ parent'[s] = req[r].tok
    BY <2>1 DEF RotateRow
  <2> QED BY <1>0, <2>2 DEF Sound
<1>8. CASE DetectReuse(r)
  BY <1>0, <1>8 DEF DetectReuse, Sound
<1>9. CASE RotateFails(r)
  BY <1>0, <1>9 DEF RotateFails, Sound
<1>10. CASE FamilyBegin(r)
  BY <1>0, <1>10 DEF FamilyBegin, Sound
<1>11. CASE FamilyApply(r)
  <2>1. req[r].pc = "famApply"
    BY <1>11 DEF FamilyApply
  <2>2. CASE \E X : req' = [req EXCEPT ![r] = [@ EXCEPT !.pc = "reused", !.spared = X]]
    BY <1>0, <2>1, <2>2 DEF Sound
  <2>3. CASE req' = [req EXCEPT ![r] = [@ EXCEPT !.pc = "unrevoked"]]
    BY <1>0, <2>1, <2>3 DEF Sound
  <2> QED BY <1>11, <2>2, <2>3 DEF FamilyApply
<1>12. CASE Remember(r)
  <2>1. /\ req' = [req EXCEPT ![r] = [@ EXCEPT !.pc = "meta"]]
        /\ req[r].pc = "remember"
    BY <1>12 DEF Remember
  <2> QED BY <1>0, <2>1 DEF Sound
<1>13. CASE StoreMeta(r)
  <2>1. /\ req' = [req EXCEPT ![r] = [@ EXCEPT !.pc = "gate"]]
        /\ req[r].pc = "meta"
    BY <1>13 DEF StoreMeta
  <2> QED BY <1>0, <2>1 DEF Sound
<1>14. CASE Gate(r)
  <2>1. req[r].pc = "gate"
    BY <1>14 DEF Gate
  <2>2. CASE req' = [req EXCEPT ![r] = [@ EXCEPT !.pc = "granted"]]
    BY <1>0, <2>1, <2>2 DEF Sound
  <2>3. CASE req' = [req EXCEPT ![r] = [@ EXCEPT !.pc = "denied"]]
    BY <1>0, <2>1, <2>3 DEF Sound
  <2> QED BY <1>14, <2>2, <2>3 DEF Gate
<1> QED BY <1>1, <1>2, <1>3, <1>4, <1>5, <1>6, <1>7, <1>8, <1>9, <1>10, <1>11,
           <1>12, <1>13, <1>14 DEF Serve, Rotating

\* Every step keeps every request sound.
LEMMA RequestsSoundStep ==
  ASSUME TypeOK, RequestsSound, CacheHoldsSuccessors, Grows, [Next]_vars
  PROVE  RequestsSound'
<1>0. \A q \in Request : Sound(req[q], issued', parent')
  BY SoundGrows DEF RequestsSound
<1>1. CASE \E r \in Request : Serve(r)
  BY <1>0, <1>1, ServeKeepsSound DEF RequestsSound
<1>2. CASE \E r \in Request, p \in Proc, t \in Token : Arrive(r, p, t)
  <2>1. PICK r \in Request, p \in Proc, t \in Token : Arrive(r, p, t)
    BY <1>2
  <2>2. PICK pc \in {"stale", "expired", "lookup"}, S \in SUBSET Request :
          req' = [req EXCEPT ![r] = [@ EXCEPT !.proc = p, !.tok = t, !.seen = S, !.pc = pc]]
    BY <2>1 DEF Arrive
  <2>3. req[r] \in Req /\ t \in issued'
    BY <2>1 DEF Arrive, TypeOK
  <2>4. Sound(req'[r], issued', parent')
    BY <2>2, <2>3 DEF Sound, Req, TypeOK
  <2>5. \A q \in Request \ {r} : req'[q] = req[q]
    BY <2>2 DEF TypeOK
  <2> QED BY <1>0, <2>4, <2>5 DEF RequestsSound
<1>3. CASE \E p \in Proc : Restart(p)
  <2>1. PICK p \in Proc : Restart(p)
    BY <1>3
  <2>2. ASSUME NEW q \in Request
        PROVE  Sound(req'[q], issued', parent')
    <3>1. CASE req'[q] = req[q]
      BY <1>0, <3>1
    <3>2. CASE req'[q] = [req[q] EXCEPT !.pc = "aborted"] /\ req[q].pc \in Running
      <4>1. req[q] \in Req
        BY DEF TypeOK
      <4> QED BY <1>0, <3>2, <4>1 DEF Sound, Req, Running
    <3> QED BY <2>1, <3>1, <3>2 DEF Restart
  <2> QED BY <2>2 DEF RequestsSound
<1>4. CASE UNCHANGED req
  BY <1>0, <1>4 DEF RequestsSound
<1> QED
  BY <1>1, <1>2, <1>3, <1>4
  DEF Next, IssueGrant, LogoutBegin, LogoutApply, RevokeCheck, RevokeApply, RevokeSession,
      Tick, vars

\* Every cache, after every step, files under a token its successor only.
LEMMA CacheStep ==
  ASSUME TypeOK, RequestsSound, CacheHoldsSuccessors, Grows, [Next]_vars
  PROVE  CacheHoldsSuccessors'
<1> USE NoTokenAssumption
<1>1. CASE UNCHANGED grace
  BY <1>1 DEF CacheHoldsSuccessors, Grows
<1>2. ASSUME NEW q \in Proc, NEW u \in Token, grace' = [grace EXCEPT ![q][u] = NoEntry]
      PROVE  CacheHoldsSuccessors'
  <2>1. \A p \in Proc, t \in Token : grace'[p][t] \in {grace[p][t], NoEntry}
    BY <1>2 DEF TypeOK
  <2> QED BY <2>1 DEF CacheHoldsSuccessors, Grows, NoEntry
<1>3. ASSUME NEW r \in Request, Remember(r)
      PROVE  CacheHoldsSuccessors'
  <2>0. /\ req[r].proc \in Proc /\ req[r].tok \in Token
        /\ req[r].answer \in issued /\ parent[req[r].answer] = req[r].tok
    BY <1>3 DEF Remember, RequestsSound, Sound, TypeOK, Req
  <2>1. PICK K \in Kept(req[r].proc) :
          grace' = [grace EXCEPT ![req[r].proc] =
            [t \in Token |->
               IF t = req[r].tok THEN [next |-> req[r].answer, rotatedAt |-> req[r].stamp]
               ELSE IF t \in K THEN grace[req[r].proc][t] ELSE NoEntry]]
    BY <1>3 DEF Remember
  <2>2. \A p \in Proc, t \in Token :
          \/ grace'[p][t] \in {grace[p][t], NoEntry}
          \/ t = req[r].tok /\ grace'[p][t].next = req[r].answer
    BY <2>0, <2>1 DEF TypeOK
  <2> QED BY <2>0, <2>2 DEF CacheHoldsSuccessors, Grows, NoEntry
<1>4. CASE \E r \in Request : Serve(r)
  <2>1. PICK r \in Request : Serve(r)
    BY <1>4
  <2>2. CASE Lookup(r) \/ Relookup(r)
    <3>1. req[r].proc \in Proc /\ req[r].tok \in Token
      BY <2>2 DEF Lookup, Relookup, RequestsSound, Sound, TypeOK, Req
    <3>2. \/ UNCHANGED grace
          \/ grace' = [grace EXCEPT ![req[r].proc][req[r].tok] = NoEntry]
      BY <2>2 DEF Lookup, Relookup, Consult
    <3> QED BY <1>1, <1>2, <3>1, <3>2
  <2>3. CASE Remember(r)
    BY <1>3, <2>3
  <2>4. CASE UNCHANGED grace
    BY <1>1, <2>4
  <2> QED
    BY <2>1, <2>2, <2>3, <2>4
    DEF Serve, BeginRotation, EndRotation, WakeUp, WaitTimeout, Prepare, Rotating, RotateRow,
        DetectReuse, RotateFails, FamilyBegin, FamilyApply, StoreMeta, Gate
<1>5. CASE \E p \in Proc : Restart(p)
  <2>1. PICK q \in Proc : Restart(q)
    BY <1>5
  <2>2. \A p \in Proc, t \in Token : grace'[p][t] \in {grace[p][t], NoEntry}
    BY <2>1 DEF Restart, TypeOK
  <2> QED BY <2>2 DEF CacheHoldsSuccessors, Grows, NoEntry
<1> QED
  BY <1>1, <1>4, <1>5
  DEF Next, IssueGrant, Arrive, LogoutBegin, LogoutApply, RevokeCheck, RevokeApply,
      RevokeSession, Tick, vars

\* What the RFC 7009 requests hold names a row.
LEMMA RevokersNameRows ==
  ASSUME TypeOK, ActorsNameRows, Grows, [Next]_vars
  PROVE  \A v \in Revoker : revoker'[v].pc # "idle" => revoker'[v].tok \in issued'
<1>1. CASE UNCHANGED revoker
  BY <1>1 DEF ActorsNameRows, Grows
<1>2. CASE \E v \in Revoker, t \in Token, c \in Client : RevokeCheck(v, t, c)
  BY <1>2 DEF RevokeCheck, ActorsNameRows, Grows, TypeOK
<1>3. CASE \E v \in Revoker : RevokeApply(v)
  <2>1. PICK v \in Revoker : RevokeApply(v)
    BY <1>3
  <2>2. PICK pc \in {"done", "failed"} : revoker' = [revoker EXCEPT ![v].pc = pc]
    BY <2>1 DEF RevokeApply
  <2>3. revoker[v].pc # "idle"
    BY <2>1 DEF RevokeApply
  <2>4. revoker[v].tok \in issued'
    BY <2>3 DEF ActorsNameRows, Grows
  <2>5. revoker'[v].tok = revoker[v].tok
    BY <2>2 DEF TypeOK, Rfc7009
  <2>6. \A w \in Revoker \ {v} : revoker'[w] = revoker[w]
    BY <2>2 DEF TypeOK
  <2> QED BY <2>4, <2>5, <2>6 DEF ActorsNameRows, Grows
<1>4. CASE \E r \in Request : Serve(r)
  BY <1>1, <1>4
  DEF Serve, Lookup, Relookup, Consult, BeginRotation, EndRotation, WakeUp, WaitTimeout,
      Prepare, Rotating, RotateRow, DetectReuse, RotateFails, FamilyBegin, FamilyApply,
      Remember, StoreMeta, Gate
<1> QED
  BY <1>1, <1>2, <1>3, <1>4
  DEF Next, IssueGrant, Arrive, LogoutBegin, LogoutApply, RevokeSession, Restart, Tick, vars

-----------------------------------------------------------------------------
(* The theorems.                                                           *)

\* The initial state satisfies the invariant: there is no row and no entry.
LEMMA RotationInvInit == Init => RotationInv
<1> SUFFICES ASSUME Init PROVE RotationInv
  OBVIOUS
<1>1. TypeOK
  BY InitTyped
<1>2. ReplacedIsRevoked /\ OneLivePerGrant /\ SingleSuccessor
  BY DEF Init, ReplacedIsRevoked, OneLivePerGrant, SingleSuccessor
<1>3. CacheHoldsSuccessors
  BY DEF Init, CacheHoldsSuccessors, NoEntry
<1>4. ActorsNameRows /\ Stamped /\ AnswersHoldSuccessors
  BY DEF Init, NewReq, ActorsNameRows, Stamped, AnswersHoldSuccessors
<1> QED BY <1>1, <1>2, <1>3, <1>4 DEF RotationInv

\* Every step preserves it.
LEMMA RotationInvStep ==
  ASSUME RotationInv, [Next]_vars
  PROVE  RotationInv'
<1> USE DEF RotationInv
<1>1. Grows
  BY HistoryGrows DEF Grows
<1>2. RequestsSound
  BY SoundSplit
<1>3. TypeOK'
  BY NextTyped
<1>4. TableInv'
  BY TableInvStep DEF TableInv
<1>5. RequestsSound'
  BY <1>1, <1>2, RequestsSoundStep
<1>6. CacheHoldsSuccessors'
  BY <1>1, <1>2, CacheStep
<1>7. /\ \A r \in Request : req'[r].pc # "idle" => req'[r].tok \in issued'
      /\ Stamped' /\ AnswersHoldSuccessors'
  BY <1>5, SoundSplit DEF RequestsSound, Sound, Stamped, AnswersHoldSuccessors
<1>8. ActorsNameRows'
  BY <1>1, <1>7, RevokersNameRows DEF ActorsNameRows
<1> QED BY <1>3, <1>4, <1>6, <1>7, <1>8 DEF TableInv

\* RotationInv holds in every reachable state.
THEOREM RotationInvariant == Spec => []RotationInv
<1>1. RotationInv /\ UNCHANGED vars => RotationInv'
  BY RotationInvStep
<1> QED BY RotationInvInit, RotationInvStep, PTL DEF Spec

\* Every variable keeps its type.
THEOREM TypeCorrect == Spec => []TypeOK
<1>1. RotationInv => TypeOK
  BY DEF RotationInv
<1> QED BY <1>1, RotationInvariant, PTL

\* However many requests and processes race, a grant never has two usable
\* tokens.
THEOREM GrantNeverSplits == Spec => []OneLivePerGrant
<1>1. RotationInv => OneLivePerGrant
  BY DEF RotationInv
<1> QED BY <1>1, RotationInvariant, PTL

\* A token is exchanged at most once.
THEOREM ExchangedOnce == Spec => []SingleSuccessor
<1>1. RotationInv => SingleSuccessor
  BY DEF RotationInv
<1> QED BY <1>1, RotationInvariant, PTL

\* A request is answered with the successor of the token it presented,
\* whether it rotated, waited or was served from the cache.
THEOREM AnsweredWithSuccessor == Spec => []AnswerIsSuccessor
<1>1. RotationInv => AnswerIsSuccessor
  BY DEF RotationInv, AnswersHoldSuccessors, AnswerIsSuccessor
<1> QED BY <1>1, RotationInvariant, PTL

-----------------------------------------------------------------------------
(* The in-flight table.                                                    *)

\* A handler registers itself, removes its own registration, or leaves the
\* table alone; and a registered leader can take no step but the removal.
LEMMA ServeKeepsInflight ==
  ASSUME TypeOK, RequestsSound, CacheHoldsSuccessors, Grows, InflightHasLeader,
         NEW r \in Request, Serve(r)
  PROVE  InflightHasLeader'
<1> USE NoRequestAssumption DEF TypeOK, Req
<1>0. req[r] \in Req /\ req[r].proc \in Proc
  OBVIOUS
<1>1. CASE BeginRotation(r) /\ inflight[req[r].proc][req[r].tok] = NoRequest
  <2>1. /\ inflight' = [inflight EXCEPT ![req[r].proc][req[r].tok] = r]
        /\ req' = [req EXCEPT ![r] = [@ EXCEPT !.pc = "end"]]
        /\ req[r].pc = "begin"
    BY <1>1 DEF BeginRotation
  <2>2. req[r].tok \in Token
    BY <2>1 DEF RequestsSound, Sound
  <2>3. ASSUME NEW p \in Proc, NEW t \in Token, inflight'[p][t] # NoRequest
        PROVE  /\ req'[inflight'[p][t]].pc = "end"
               /\ req'[inflight'[p][t]].proc = p
               /\ req'[inflight'[p][t]].tok = t
    <3>1. CASE p = req[r].proc /\ t = req[r].tok
      BY <1>0, <2>1, <2>2, <3>1
    <3>2. CASE ~(p = req[r].proc /\ t = req[r].tok)
      <4>1. inflight'[p][t] = inflight[p][t]
        BY <2>1, <2>2, <3>2, <1>0
      <4>2. inflight[p][t] \in Request /\ inflight[p][t] # r
        BY <2>1, <2>3, <4>1 DEF InflightHasLeader
      <4> QED BY <2>1, <2>3, <4>1, <4>2 DEF InflightHasLeader
    <3> QED BY <3>1, <3>2
  <2> QED BY <2>3 DEF InflightHasLeader
<1>2. CASE EndRotation(r)
  <2>1. /\ inflight' = [inflight EXCEPT ![req[r].proc][req[r].tok] = NoRequest]
        /\ req' = [req EXCEPT ![r] = [@ EXCEPT !.pc = "prepare"]]
        /\ req[r].pc = "end"
    BY <1>2 DEF EndRotation
  <2>2. req[r].tok \in Token
    BY <2>1 DEF RequestsSound, Sound
  <2>3. ASSUME NEW p \in Proc, NEW t \in Token, inflight'[p][t] # NoRequest
        PROVE  /\ req'[inflight'[p][t]].pc = "end"
               /\ req'[inflight'[p][t]].proc = p
               /\ req'[inflight'[p][t]].tok = t
    <3>1. ~(p = req[r].proc /\ t = req[r].tok) /\ inflight'[p][t] = inflight[p][t]
      BY <2>1, <2>2, <2>3, <1>0
    <3>2. inflight[p][t] \in Request /\ inflight[p][t] # r
      BY <2>3, <3>1 DEF InflightHasLeader
    <3> QED BY <2>1, <2>3, <3>1, <3>2 DEF InflightHasLeader
  <2> QED BY <2>3 DEF InflightHasLeader
<1>3. CASE /\ Serve(r) /\ ~EndRotation(r)
           /\ ~(BeginRotation(r) /\ inflight[req[r].proc][req[r].tok] = NoRequest)
  <2>1. UNCHANGED inflight /\ req[r].pc # "end"
    BY <1>3 DEF Serve, Lookup, Relookup, Consult, BeginRotation, WakeUp, WaitTimeout, Prepare,
       Rotating, RotateRow, DetectReuse, RotateFails, FamilyBegin, FamilyApply, Remember,
       StoreMeta, Gate
  <2>2. \A q \in Request \ {r} : req'[q] = req[q]
    BY ServeKeepsSound
  <2>3. ASSUME NEW p \in Proc, NEW t \in Token, inflight'[p][t] # NoRequest
        PROVE  /\ req'[inflight'[p][t]].pc = "end"
               /\ req'[inflight'[p][t]].proc = p
               /\ req'[inflight'[p][t]].tok = t
    <3>1. inflight'[p][t] = inflight[p][t]
      BY <2>1
    <3>2. inflight[p][t] \in Request \ {r}
      BY <2>1, <2>3, <3>1 DEF InflightHasLeader
    <3> QED BY <2>2, <2>3, <3>1, <3>2 DEF InflightHasLeader
  <2> QED BY <2>3 DEF InflightHasLeader
<1> QED BY <1>1, <1>2, <1>3

\* The leader of a registration is always about to remove it: whoever waits
\* for a leader waits for a request that is still there.
THEOREM NoOrphanRegistration == Spec => []InflightHasLeader
<1>1. Init => InflightHasLeader
  BY DEF Init, InflightHasLeader
<1>2. RotationInv /\ InflightHasLeader /\ [Next]_vars => InflightHasLeader'
  <2> SUFFICES ASSUME RotationInv, InflightHasLeader, [Next]_vars
      PROVE  InflightHasLeader'
    OBVIOUS
  <2> USE NoRequestAssumption
  <2>0. TypeOK /\ RequestsSound /\ CacheHoldsSuccessors /\ Grows
    BY SoundSplit, HistoryGrows DEF RotationInv, Grows
  <2>1. CASE \E r \in Request : Serve(r)
    BY <2>0, <2>1, ServeKeepsInflight
  <2>2. CASE \E r \in Request, p \in Proc, t \in Token : Arrive(r, p, t)
    <3>1. PICK r \in Request : /\ req[r].pc = "idle" /\ UNCHANGED inflight
                               /\ \A q \in Request \ {r} : req'[q] = req[q]
      BY <2>0, <2>2 DEF Arrive, TypeOK
    <3> QED BY <2>0, <3>1 DEF InflightHasLeader, TypeOK
  <2>3. CASE \E p \in Proc : Restart(p)
    <3>1. PICK p \in Proc : Restart(p)
      BY <2>3
    <3>2. ASSUME NEW n \in Proc, NEW t \in Token, inflight'[n][t] # NoRequest
          PROVE  n # p /\ inflight'[n][t] = inflight[n][t]
      BY <2>0, <3>1, <3>2 DEF Restart, TypeOK
    <3>3. ASSUME NEW q \in Request, req[q].proc # p
          PROVE  req'[q] = req[q]
      BY <3>1, <3>3 DEF Restart
    <3> QED BY <2>0, <3>2, <3>3 DEF InflightHasLeader, TypeOK
  <2>4. CASE UNCHANGED <<inflight, req>>
    BY <2>4 DEF InflightHasLeader
  <2> QED
    BY <2>1, <2>2, <2>3, <2>4
    DEF Next, IssueGrant, LogoutBegin, LogoutApply, RevokeCheck, RevokeApply, RevokeSession,
        Tick, vars
<1> QED BY <1>1, <1>2, RotationInvariant, PTL DEF Spec

-----------------------------------------------------------------------------
(* The refinement.                                                         *)

\* What the refinement mapping says of a grant: its live row, if any.
CurrentIsLive ==
  \A g \in Token :
    /\ \A t \in issued : Live(t) /\ origin[t] = g => Current[g] = t
    /\ Current[g] # NoToken =>
         Current[g] \in issued /\ Live(Current[g]) /\ origin[Current[g]] = g

\* The CHOOSE in Current has one candidate at most.
LEMMA CurrentUnique == OneLivePerGrant => CurrentIsLive
<1> SUFFICES ASSUME OneLivePerGrant, NEW g \in Token
    PROVE  /\ \A t \in issued : Live(t) /\ origin[t] = g => Current[g] = t
           /\ Current[g] # NoToken =>
                Current[g] \in issued /\ Live(Current[g]) /\ origin[Current[g]] = g
  BY DEF CurrentIsLive
<1>1. CASE \E t \in issued : Live(t) /\ origin[t] = g
  <2>1. Current[g] = CHOOSE t \in issued : Live(t) /\ origin[t] = g
    BY <1>1 DEF Current
  <2>2. Current[g] \in issued /\ Live(Current[g]) /\ origin[Current[g]] = g
    BY <1>1, <2>1
  <2> QED BY <2>2 DEF OneLivePerGrant
<1>2. CASE ~ \E t \in issued : Live(t) /\ origin[t] = g
  BY <1>2 DEF Current
<1> QED BY <1>1, <1>2

\* A step of rotation is a step of the abstract grant.
LEMMA StepRefines ==
  ASSUME RotationInv, OneLivePerGrant', CurrentIsLive, CurrentIsLive', [Next]_vars
  PROVE  [Grant!GrantNext]_<<issued, Current>>
<1> USE NoTokenAssumption
<1>0. /\ TypeOK /\ ReplacedIsRevoked /\ OneLivePerGrant /\ Stamped
      /\ Current = [g \in Token |-> Current[g]]
      /\ Current' = [g \in Token |-> Current'[g]]
  BY DEF RotationInv, Current
<1>1. CASE RowsOnlyDie
  <2> DEFINE G == {g \in Token : Current'[g] = NoToken}
  <2>1. ASSUME NEW g \in Token, Current'[g] # NoToken
        PROVE  Current'[g] = Current[g]
    <3>1. PICK t \in issued : t = Current'[g] /\ row'[t].revokedAt = 0 /\ origin[t] = g
      BY <1>1, <2>1 DEF CurrentIsLive, RowsOnlyDie, Live
    <3>2. Live(t)
      BY <1>1, <3>1 DEF RowsOnlyDie, Live
    <3> QED BY <3>1, <3>2 DEF CurrentIsLive
  <2>2. Current' = [g \in Token |-> IF g \in G THEN NoToken ELSE Current[g]]
    BY <1>0, <2>1
  <2>3. Grant!Close(G)
    BY <1>1, <2>2 DEF Grant!Close, RowsOnlyDie
  <2> QED BY <2>3 DEF Grant!GrantNext
<1>2. CASE Login
  <2>1. PICK t \in Token, p \in Person, c \in Client : IssueGrant(t, p, c)
    BY <1>2 DEF Login
  <2>2. /\ t \notin issued /\ issued' = issued \cup {t} /\ origin'[t] = t
        /\ row'[t].revokedAt = 0
        /\ \A u \in issued : row'[u] = row[u] /\ origin'[u] = origin[u] /\ origin[u] # t
    BY <1>0, <2>1 DEF IssueGrant, TypeOK, ReplacedIsRevoked
  <2>3. Current'[t] = t
    BY <2>2 DEF CurrentIsLive, Live
  <2>4. ASSUME NEW g \in Token \ {t}
        PROVE  Current'[g] = Current[g]
    <3>1. \A u \in issued' : Live(u)' /\ origin'[u] = g => u \in issued /\ Live(u) /\ origin[u] = g
      BY <2>2 DEF Live
    <3>2. \A u \in issued : Live(u) /\ origin[u] = g => u \in issued' /\ Live(u)' /\ origin'[u] = g
      BY <2>2 DEF Live
    <3>3. CASE Current'[g] # NoToken
      <4>1. PICK u \in issued' : u = Current'[g] /\ Live(u)' /\ origin'[u] = g
        BY <3>3 DEF CurrentIsLive
      <4> QED BY <3>1, <4>1 DEF CurrentIsLive
    <3>4. CASE Current[g] # NoToken
      <4>1. PICK u \in issued : u = Current[g] /\ Live(u) /\ origin[u] = g
        BY <3>4 DEF CurrentIsLive
      <4> QED BY <3>2, <4>1 DEF CurrentIsLive
    <3> QED BY <3>3, <3>4
  <2>5. Current' = [Current EXCEPT ![t] = t]
    BY <1>0, <2>3, <2>4
  <2>6. Grant!Open(t)
    BY <2>2, <2>5 DEF Grant!Open
  <2> QED BY <2>6 DEF Grant!GrantNext
<1>3. CASE Exchange
  <2>1. PICK r \in Request, s \in Token : RotateRow(r, s)
    BY <1>3 DEF Exchange
  <2>2. PICK t \in Token : t = req[r].tok
    BY <2>1, <1>0 DEF RotateRow, ConsumeHits, Live, TypeOK
  <2>3. /\ t \in issued /\ Live(t) /\ s \notin issued /\ s # t
        /\ issued' = issued \cup {s}
        /\ origin' = [origin EXCEPT ![s] = origin[t]]
        /\ row' = [row EXCEPT ![t].revokedAt = req[r].stamp,
                              ![s] = [person |-> row[t].person, client |-> NoClient,
                                      revokedAt |-> 0, expiredAt |-> req[r].stamp + TTL]]
        /\ req[r].stamp # 0
    BY <1>0, <2>1, <2>2 DEF RotateRow, ConsumeHits, Live, Stamped, TypeOK, Req, Time
  <2>4. PICK g \in Token : g = origin[t]
    BY <1>0, <2>3 DEF ReplacedIsRevoked, TypeOK
  <2>5. /\ row'[t].revokedAt # 0 /\ row'[s].revokedAt = 0 /\ origin'[s] = g
        /\ \A u \in issued \ {t} : row'[u] = row[u]
        /\ \A u \in issued : origin'[u] = origin[u]
    BY <1>0, <2>3, <2>4 DEF TypeOK, Row
  <2>6. Current[g] = t /\ Current'[g] = s
    <3>1. Current[g] = t
      BY <2>3, <2>4 DEF CurrentIsLive
    <3>2. s \in issued' /\ Live(s)' /\ origin'[s] = g
      BY <2>3, <2>5 DEF Live
    <3>3. Current'[g] = s
      BY <3>2 DEF CurrentIsLive
    <3> QED BY <3>1, <3>3
  <2>7. ASSUME NEW h \in Token \ {g}
        PROVE  Current'[h] = Current[h]
    <3>1. \A u \in issued' : Live(u)' /\ origin'[u] = h => u \in issued /\ Live(u) /\ origin[u] = h
      BY <2>3, <2>5 DEF Live
    <3>2. \A u \in issued : Live(u) /\ origin[u] = h => u \in issued' /\ Live(u)' /\ origin'[u] = h
      BY <2>3, <2>4, <2>5 DEF Live
    <3>3. CASE Current'[h] # NoToken
      <4>1. PICK u \in issued' : u = Current'[h] /\ Live(u)' /\ origin'[u] = h
        BY <3>3 DEF CurrentIsLive
      <4> QED BY <3>1, <4>1 DEF CurrentIsLive
    <3>4. CASE Current[h] # NoToken
      <4>1. PICK u \in issued : u = Current[h] /\ Live(u) /\ origin[u] = h
        BY <3>4 DEF CurrentIsLive
      <4> QED BY <3>2, <4>1 DEF CurrentIsLive
    <3> QED BY <3>3, <3>4
  <2>8. Current' = [Current EXCEPT ![g] = s]
    BY <1>0, <2>6, <2>7
  <2>9. Grant!Rotate(g, s)
    BY <2>3, <2>6, <2>8, <1>0 DEF Grant!Rotate, TypeOK
  <2> QED BY <2>9 DEF Grant!GrantNext
<1> QED BY <1>0, <1>1, <1>2, <1>3, TableStep DEF RotationInv

\* Rotation, with its races, crashes, reuse verdicts and revocations,
\* implements the abstract grant: it moves forward and never reopens.
THEOREM RotationImplementsGrant == Spec => ImplementsTokenGrant
<1>1. Init => Grant!GrantInit
  BY DEF Init, Grant!GrantInit, Current
<1>2. RotationInv => OneLivePerGrant /\ CurrentIsLive
  BY CurrentUnique DEF RotationInv
<1>3. RotationInv /\ RotationInv' /\ [Next]_vars => [Grant!GrantNext]_<<issued, Current>>
  <2> SUFFICES ASSUME RotationInv, RotationInv', [Next]_vars
      PROVE  [Grant!GrantNext]_<<issued, Current>>
    OBVIOUS
  <2>1. (RotationInv => OneLivePerGrant /\ CurrentIsLive)'
    BY <1>2, PTL
  <2> QED BY <1>2, <2>1, StepRefines
<1> QED BY <1>1, <1>3, RotationInvariant, PTL
        DEF Spec, ImplementsTokenGrant, Grant!GrantSpec, Grant!grantVars

-----------------------------------------------------------------------------
(* Revocations end the grants they find.                                   *)

\* No row of the grants that the snapshot S names is live, except in the grants
\* that were spared, and none of S.
Over(S, spared, rows, table, born) ==
  \A t \in rows : table[t].revokedAt = 0 =>
    /\ t \notin S
    /\ \A u \in S : born[u] = born[t] => born[t] \in spared

\* What the record x of a revocation aims at has a row; at its end it is over.
Aimed(x, end, rows, table, born) ==
  /\ x.snap \subseteq rows
  /\ x.pc = end => Over(x.snap, x.spared, rows, table, born)

RevocationInv ==
  /\ \A r \in Request : Aimed(req[r], "reused", issued, row, origin)
  /\ \A l \in Logout : Aimed(logout[l], "done", issued, row, origin)

\* No step revives a row or opens a grant that has no live row: what is live
\* afterwards was live, starts a grant of its own, or replaces a live row.
GrantsOnlyClose ==
  /\ issued \subseteq issued'
  /\ \A u \in issued : origin'[u] = origin[u]
  /\ \A t \in issued' : row'[t].revokedAt = 0 =>
       \/ t \in issued /\ row[t].revokedAt = 0
       \/ t \notin issued /\ \A u \in issued : origin[u] # origin'[t]
       \/ t \notin issued /\ \E u \in issued : row[u].revokedAt = 0 /\ origin[u] = origin'[t]

LEMMA GrantsOnlyCloseStep ==
  ASSUME RotationInv, [Next]_vars
  PROVE  GrantsOnlyClose
<1>1. TypeOK /\ ActorsNameRows /\ Stamped /\ ReplacedIsRevoked
  BY DEF RotationInv
<1>2. CASE RowsOnlyDie
  BY <1>2 DEF RowsOnlyDie, GrantsOnlyClose
<1>3. CASE Login
  <2>1. PICK t \in Token, p \in Person, c \in Client : IssueGrant(t, p, c)
    BY <1>3 DEF Login
  <2>2. /\ t \notin issued /\ issued' = issued \cup {t} /\ origin'[t] = t
        /\ \A u \in issued : row'[u] = row[u] /\ origin'[u] = origin[u]
    BY <1>1, <2>1 DEF IssueGrant, TypeOK
  <2>3. \A u \in issued : origin[u] # t
    BY <1>1, <2>2 DEF ReplacedIsRevoked
  <2> QED BY <2>2, <2>3 DEF GrantsOnlyClose
<1>4. CASE Exchange
  <2>1. PICK r \in Request, s \in Token : RotateRow(r, s)
    BY <1>4 DEF Exchange
  <2>2. PICK t : t = req[r].tok
    OBVIOUS
  <2>3. req[r].stamp \in Nat /\ req[r].stamp >= 1
    BY <1>1, <2>1 DEF RotateRow, Stamped, TypeOK, Req, Time
  <2>4. t \in issued /\ row[t].revokedAt = 0
    BY <2>1, <2>2 DEF RotateRow, ConsumeHits, Live
  <2>5. /\ s \notin issued /\ issued' = issued \cup {s} /\ origin'[s] = origin[t]
        /\ \A u \in issued : origin'[u] = origin[u]
        /\ \A u \in issued : row'[u] = row[u] \/ row'[u].revokedAt = req[r].stamp
    BY <1>1, <2>1, <2>2 DEF RotateRow, TypeOK, Row
  <2> QED BY <2>3, <2>4, <2>5 DEF GrantsOnlyClose
<1> QED BY <1>1, <1>2, <1>3, <1>4, TableStep

\* What was aimed at and ended stays so.
LEMMA AimStays ==
  ASSUME NEW x, NEW end, Aimed(x, end, issued, row, origin), GrantsOnlyClose
  PROVE  Aimed(x, end, issued', row', origin')
<1>1. x.snap \subseteq issued /\ x.snap \subseteq issued'
  BY DEF Aimed, GrantsOnlyClose
<1>2. ASSUME x.pc = end, NEW t \in issued', row'[t].revokedAt = 0
      PROVE  /\ t \notin x.snap
             /\ \A u \in x.snap : origin'[u] = origin'[t] => origin'[t] \in x.spared
  <2>0. Over(x.snap, x.spared, issued, row, origin)
    BY <1>2 DEF Aimed
  <2>1. \A u \in x.snap : origin'[u] = origin[u]
    BY <1>1 DEF GrantsOnlyClose
  <2>2. CASE t \in issued /\ row[t].revokedAt = 0
    <3>1. origin'[t] = origin[t]
      BY <2>2 DEF GrantsOnlyClose
    <3> QED BY <2>0, <2>1, <2>2, <3>1 DEF Over
  <2>3. CASE t \notin issued /\ \A u \in issued : origin[u] # origin'[t]
    BY <1>1, <2>1, <2>3
  <2>4. CASE t \notin issued /\ \E u \in issued : row[u].revokedAt = 0 /\ origin[u] = origin'[t]
    <3>1. PICK w \in issued : row[w].revokedAt = 0 /\ origin[w] = origin'[t]
      BY <2>4
    <3>2. \A u \in x.snap : origin[u] = origin[w] => origin[w] \in x.spared
      BY <2>0, <3>1 DEF Over
    <3> QED BY <1>1, <2>1, <2>4, <3>1, <3>2
  <2> QED BY <1>2, <2>2, <2>3, <2>4 DEF GrantsOnlyClose
<1> QED BY <1>1, <1>2 DEF Aimed, Over

\* The UPDATE leaves nothing of its snapshot live, and of the grants it found
\* only those that had a live row elsewhere.
LEMMA RevokeRowsEnds ==
  ASSUME TypeOK, NEW S \in SUBSET Token, NEW at \in Nat \ {0},
         RevokeRows(S, at), UNCHANGED <<issued, origin>>
  PROVE  Over(S, Spared(S), issued', row', origin')
<1> SUFFICES ASSUME NEW t \in issued, row'[t].revokedAt = 0
             PROVE  t \notin S /\ origin[t] \in Spared(S)
  BY DEF Over
<1>0. t \in Token /\ row[t] \in Row
  BY DEF TypeOK
<1>1. CASE t \in S /\ row[t].revokedAt = 0
  <2>1. row'[t] = [row[t] EXCEPT !.revokedAt = at]
    BY <1>0, <1>1 DEF RevokeRows
  <2> QED BY <1>0, <2>1 DEF Row
<1>2. CASE ~(t \in S /\ row[t].revokedAt = 0)
  <2>1. row'[t] = row[t]
    BY <1>0, <1>2 DEF RevokeRows
  <2>2. t \in issued \ S /\ Live(t)
    BY <1>2, <2>1 DEF Live
  <2> QED BY <2>2 DEF Spared
<1> QED BY <1>1, <1>2

\* The session list ends the one grant whose row it revokes.
LEMMA RevokeSessionEnds ==
  ASSUME RotationInv, NEW t \in Token, Live(t), row' = [row EXCEPT ![t].revokedAt = now],
         UNCHANGED <<issued, origin>>
  PROVE  Over({t}, {}, issued', row', origin')
<1>0. /\ row \in [Token -> Row] /\ now # 0 /\ issued \subseteq Token
      /\ t \in issued /\ row[t].revokedAt = 0
  BY DEF RotationInv, TypeOK, Live
<1> SUFFICES ASSUME NEW u \in issued, row'[u].revokedAt = 0
             PROVE  u # t /\ origin[u] # origin[t]
  BY <1>0 DEF Over
<1>1. row'[t].revokedAt # 0
  BY <1>0 DEF Row
<1>2. u # t /\ row'[u] = row[u]
  BY <1>0, <1>1
<1>3. Live(u)
  BY <1>2 DEF Live
<1> QED BY <1>0, <1>2, <1>3 DEF RotationInv, OneLivePerGrant

\* A handler other than the family revocation's gives no verdict and keeps its
\* snapshot.
LEMMA OthersKeepAim ==
  ASSUME TypeOK, NEW r \in Request, Serve(r), ~FamilyBegin(r), ~FamilyApply(r)
  PROVE  /\ req'[r].pc # "reused" /\ req'[r].snap = req[r].snap
         /\ \A q \in Request \ {r} : req'[q] = req[q]
<1>0. req \in [Request -> Req] /\ req[r] \in Req
  BY DEF TypeOK
<1>1. CASE Lookup(r) \/ Relookup(r)
  <2>1. PICK miss \in {"begin", "prepare"} : Consult(r, miss)
    BY <1>1 DEF Lookup, Relookup
  <2>2. PICK a : a = EntryOf(r).next
    OBVIOUS
  <2>3. CASE req' = [req EXCEPT ![r] = [@ EXCEPT !.pc = "gate", !.answer = a]]
    BY <1>0, <2>3 DEF Req
  <2>4. CASE req' = [req EXCEPT ![r] = [@ EXCEPT !.pc = miss, !.since = now]]
    BY <1>0, <2>4 DEF Req
  <2> QED BY <2>1, <2>2, <2>3, <2>4 DEF Consult
<1>2. CASE BeginRotation(r) \/ EndRotation(r) \/ WakeUp(r) \/ WaitTimeout(r)
  <2>1. CASE BeginRotation(r)
    <3>1. CASE req' = [req EXCEPT ![r] = [@ EXCEPT !.pc = "end"]]
      BY <1>0, <3>1 DEF Req
    <3>2. PICK q : q = inflight[req[r].proc][req[r].tok]
      OBVIOUS
    <3>3. CASE req' = [req EXCEPT ![r] = [@ EXCEPT !.pc = "wait", !.since = now, !.leader = q]]
      BY <1>0, <3>3 DEF Req
    <3> QED BY <2>1, <3>1, <3>2, <3>3 DEF BeginRotation
  <2>2. CASE EndRotation(r)
    BY <1>0, <2>2 DEF EndRotation, Req
  <2>3. CASE WakeUp(r)
    BY <1>0, <2>3 DEF WakeUp, Req
  <2>4. CASE WaitTimeout(r)
    BY <1>0, <2>4 DEF WaitTimeout, Req
  <2> QED BY <1>2, <2>1, <2>2, <2>3, <2>4
<1>3. CASE Prepare(r)
  BY <1>0, <1>3 DEF Prepare, Req
<1>4. CASE Rotating(r)
  <2>1. CASE DetectReuse(r) \/ RotateFails(r)
    BY <1>0, <2>1 DEF DetectReuse, RotateFails, Req
  <2>2. CASE \E s \in Token : RotateRow(r, s)
    <3>1. PICK s \in Token : RotateRow(r, s)
      BY <2>2
    <3>2. req' = [req EXCEPT ![r] = [@ EXCEPT !.pc = "remember", !.answer = s]]
      BY <3>1 DEF RotateRow
    <3> QED BY <1>0, <3>2 DEF Req
  <2> QED BY <1>4, <2>1, <2>2 DEF Rotating
<1>5. CASE Remember(r)
  BY <1>0, <1>5 DEF Remember, Req
<1>6. CASE StoreMeta(r) \/ Gate(r)
  BY <1>0, <1>6 DEF StoreMeta, Gate, Req
<1> QED BY <1>1, <1>2, <1>3, <1>4, <1>5, <1>6 DEF Serve

LEMMA ServeAims ==
  ASSUME RotationInv, RevocationInv, GrantsOnlyClose, NEW r \in Request, Serve(r)
  PROVE  \A q \in Request : Aimed(req'[q], "reused", issued', row', origin')
<1>0. TypeOK /\ Stamped /\ req \in [Request -> Req] /\ req[r] \in Req
  BY DEF RotationInv, TypeOK
<1>1. \A q \in Request : Aimed(req[q], "reused", issued', row', origin')
  BY AimStays DEF RevocationInv
<1>2. CASE ~FamilyBegin(r) /\ ~FamilyApply(r)
  <2>1. /\ req'[r].pc # "reused" /\ req'[r].snap = req[r].snap
        /\ \A q \in Request \ {r} : req'[q] = req[q]
    BY <1>0, <1>2, OthersKeepAim
  <2> QED BY <1>1, <2>1 DEF Aimed
<1>3. CASE FamilyBegin(r)
  <2>1. PICK S : S = Rows(row[req[r].tok].person)
    OBVIOUS
  <2>2. S \in SUBSET Token /\ S \subseteq issued
    BY <1>0, <2>1 DEF Rows, TypeOK
  <2>3. req' = [req EXCEPT ![r] = [@ EXCEPT !.pc = "famApply", !.snap = S]]
    BY <1>3, <2>1 DEF FamilyBegin
  <2>4. req'[r].pc # "reused" /\ req'[r].snap = S /\ \A q \in Request \ {r} : req'[q] = req[q]
    BY <1>0, <2>3 DEF Req
  <2>5. S \subseteq issued'
    BY <2>2 DEF GrantsOnlyClose
  <2> QED BY <1>1, <2>4, <2>5 DEF Aimed
<1>4. CASE FamilyApply(r)
  <2>1. \A q \in Request \ {r} : req'[q] = req[q]
    BY <1>0, <1>4 DEF FamilyApply
  <2>2. Aimed(req'[r], "reused", issued', row', origin')
    <3>0. PICK S \in SUBSET Token, at \in Nat \ {0} : S = req[r].snap /\ at = req[r].stamp
      BY <1>0, <1>4 DEF FamilyApply, Stamped, Req, Time
    <3>1. CASE RevokeRows(req[r].snap, req[r].stamp)
               /\ req' = [req EXCEPT ![r] = [@ EXCEPT !.pc = "reused",
                                                     !.spared = Spared(req[r].snap)]]
      <4>1. UNCHANGED <<issued, origin>>
        BY <1>4 DEF FamilyApply
      <4>2. Over(S, Spared(S), issued', row', origin')
        BY <1>0, <3>0, <3>1, <4>1, RevokeRowsEnds
      <4>3. PICK X : X = Spared(S)
        OBVIOUS
      <4>4. req' = [req EXCEPT ![r] = [@ EXCEPT !.pc = "reused", !.spared = X]]
        BY <3>0, <3>1, <4>3
      <4>5. req'[r].snap = S /\ req'[r].spared = X /\ S \subseteq issued'
        BY <1>0, <1>1, <3>0, <4>4 DEF Req, Aimed
      <4> QED BY <4>2, <4>3, <4>5 DEF Aimed
    <3>2. CASE req' = [req EXCEPT ![r] = [@ EXCEPT !.pc = "unrevoked"]]
      <4>1. req'[r].snap = S /\ req'[r].pc # "reused"
        BY <1>0, <3>0, <3>2 DEF Req
      <4> QED BY <1>1, <3>0, <4>1 DEF Aimed
    <3> QED BY <1>4, <3>1, <3>2 DEF FamilyApply
  <2> QED BY <1>1, <2>1, <2>2
<1> QED BY <1>2, <1>3, <1>4

\* Requests that arrive or die aim at nothing new.
LEMMA RequestsAim ==
  ASSUME RotationInv, RevocationInv, GrantsOnlyClose, [Next]_vars
  PROVE  \A q \in Request : Aimed(req'[q], "reused", issued', row', origin')
<1>0. TypeOK /\ req \in [Request -> Req]
  BY DEF RotationInv, TypeOK
<1>1. \A q \in Request : Aimed(req[q], "reused", issued', row', origin')
  BY AimStays DEF RevocationInv
<1>2. CASE \E r \in Request : Serve(r)
  BY <1>2, ServeAims
<1>3. CASE \E r \in Request, p \in Proc, t \in Token : Arrive(r, p, t)
  <2>1. PICK r \in Request, p \in Proc, t \in Token : Arrive(r, p, t)
    BY <1>3
  <2>2. PICK pc \in {"stale", "expired", "lookup"}, S \in SUBSET Request :
          req' = [req EXCEPT ![r] = [@ EXCEPT !.proc = p, !.tok = t, !.seen = S, !.pc = pc]]
    BY <2>1 DEF Arrive
  <2>3. req[r] \in Req
    BY <1>0
  <2>4. req'[r].pc = pc /\ req'[r].snap = req[r].snap /\ \A q \in Request \ {r} : req'[q] = req[q]
    BY <1>0, <2>2, <2>3 DEF Req
  <2> QED BY <1>1, <2>4 DEF Aimed
<1>4. CASE \E p \in Proc : Restart(p)
  <2>1. \A q \in Request : req'[q] = req[q] \/ req'[q] = [req[q] EXCEPT !.pc = "aborted"]
    BY <1>4 DEF Restart
  <2>2. ASSUME NEW q \in Request, req'[q] = [req[q] EXCEPT !.pc = "aborted"]
        PROVE  req'[q].pc # "reused" /\ req'[q].snap = req[q].snap
    <3>1. req[q] \in Req
      BY <1>0
    <3> QED BY <2>2, <3>1 DEF Req
  <2> QED BY <1>1, <2>1, <2>2 DEF Aimed
<1>5. CASE UNCHANGED req
  BY <1>1, <1>5
<1> QED
  BY <1>2, <1>3, <1>4, <1>5
  DEF Next, IssueGrant, LogoutBegin, LogoutApply, RevokeCheck, RevokeApply, RevokeSession,
      Tick, vars

LEMMA LogoutsAim ==
  ASSUME RotationInv, RevocationInv, GrantsOnlyClose, [Next]_vars
  PROVE  \A m \in Logout : Aimed(logout'[m], "done", issued', row', origin')
<1>0. TypeOK /\ logout \in [Logout -> Bulk] /\ now \in Nat \ {0}
  BY DEF RotationInv, TypeOK
<1>1. \A m \in Logout : Aimed(logout[m], "done", issued', row', origin')
  BY AimStays DEF RevocationInv
<1>2. ASSUME NEW l \in Logout, NEW p \in Person, LogoutBegin(l, p)
      PROVE  \A m \in Logout : Aimed(logout'[m], "done", issued', row', origin')
  <2>1. PICK S : S = Rows(p)
    OBVIOUS
  <2>2. S \subseteq issued'
    BY <1>2, <2>1 DEF LogoutBegin, Rows
  <2>3. logout' = [logout EXCEPT ![l] = [pc |-> "apply", person |-> p, snap |-> S, spared |-> {}]]
    BY <1>2, <2>1 DEF LogoutBegin
  <2>4. /\ logout'[l].pc = "apply" /\ logout'[l].snap = S
        /\ \A m \in Logout \ {l} : logout'[m] = logout[m]
    BY <1>0, <2>3
  <2> QED BY <1>1, <2>2, <2>4 DEF Aimed
<1>3. ASSUME NEW l \in Logout, LogoutApply(l)
      PROVE  \A m \in Logout : Aimed(logout'[m], "done", issued', row', origin')
  <2>1. PICK S \in SUBSET Token : S = logout[l].snap
    BY <1>0 DEF Bulk
  <2>2. UNCHANGED <<issued, origin>> /\ \A m \in Logout \ {l} : logout'[m] = logout[m]
    BY <1>0, <1>3 DEF LogoutApply
  <2>3. S \subseteq issued'
    BY <1>1, <2>1 DEF Aimed
  <2>4. CASE RevokeRows(S, now)
             /\ logout' = [logout EXCEPT ![l] = [@ EXCEPT !.pc = "done", !.spared = Spared(S)]]
    <3>1. Over(S, Spared(S), issued', row', origin')
      BY <1>0, <2>2, <2>4, RevokeRowsEnds
    <3>2. PICK X : X = Spared(S)
      OBVIOUS
    <3>3. logout'[l].snap = S /\ logout'[l].spared = X
      BY <1>0, <2>1, <2>4, <3>2 DEF Bulk
    <3> QED BY <1>1, <2>2, <2>3, <3>1, <3>2, <3>3 DEF Aimed
  <2>5. CASE logout' = [logout EXCEPT ![l] = [@ EXCEPT !.pc = "failed"]]
    <3>1. logout'[l].snap = S /\ logout'[l].pc # "done"
      BY <1>0, <2>1, <2>5 DEF Bulk
    <3> QED BY <1>1, <2>2, <2>3, <3>1 DEF Aimed
  <2> QED BY <1>3, <2>1, <2>4, <2>5 DEF LogoutApply
<1>4. ASSUME NEW l \in Logout, NEW t \in Token, RevokeSession(l, t)
      PROVE  \A m \in Logout : Aimed(logout'[m], "done", issued', row', origin')
  <2>1. /\ t \in issued' /\ Live(t) /\ UNCHANGED <<issued, origin>>
        /\ \A m \in Logout \ {l} : logout'[m] = logout[m]
    BY <1>0, <1>4 DEF RevokeSession, Live
  <2>2. CASE row' = [row EXCEPT ![t].revokedAt = now]
             /\ logout' = [logout EXCEPT ![l] = [pc |-> "done", person |-> row[t].person,
                                                snap |-> {t}, spared |-> {}]]
    <3>1. Over({t}, {}, issued', row', origin')
      BY <2>1, <2>2, RevokeSessionEnds
    <3>2. logout'[l].snap = {t} /\ logout'[l].spared = {}
      BY <1>0, <2>2
    <3> QED BY <1>1, <2>1, <3>1, <3>2 DEF Aimed
  <2>3. CASE logout' = [logout EXCEPT ![l] = [@ EXCEPT !.pc = "failed"]]
    <3>1. logout'[l].snap = logout[l].snap /\ logout'[l].pc # "done"
      BY <1>0, <2>3 DEF Bulk
    <3> QED BY <1>1, <2>1, <3>1 DEF Aimed
  <2> QED BY <1>4, <2>2, <2>3 DEF RevokeSession
<1>5. CASE UNCHANGED logout
  BY <1>1, <1>5
<1>6. CASE \E r \in Request : Serve(r)
  <2>1. UNCHANGED logout
    BY <1>6 DEF Serve, Lookup, Relookup, Consult, BeginRotation, EndRotation, WakeUp,
       WaitTimeout, Prepare, Rotating, RotateRow, DetectReuse, RotateFails, FamilyBegin,
       FamilyApply, Remember, StoreMeta, Gate
  <2> QED BY <1>1, <2>1
<1> QED
  BY <1>2, <1>3, <1>4, <1>5, <1>6
  DEF Next, IssueGrant, Arrive, RevokeCheck, RevokeApply, Restart, Tick, vars

\* A statement that ran for a reuse verdict, a logout or the session list has
\* ended the grants it found, for good, whatever races with it: only a grant
\* whose successor was committed while it ran survives.
THEOREM RevocationsReach == Spec => []RevocationReachesSnapshot
<1>1. Init => RevocationInv
  BY DEF Init, NewReq, RevocationInv, Aimed
<1>2. RotationInv /\ RevocationInv /\ [Next]_vars => RevocationInv'
  BY GrantsOnlyCloseStep, RequestsAim, LogoutsAim DEF RevocationInv
<1>3. RevocationInv => RevocationReachesSnapshot
  BY DEF RevocationInv, Aimed, Over, Ended, RevocationReachesSnapshot, Live
<1> QED BY <1>1, <1>2, <1>3, RotationInvariant, PTL DEF Spec

-----------------------------------------------------------------------------
(* The grace caches.                                                       *)

\* The tokens a cache files successors under.
Held(cache) == {t \in Token : cache[t].next # NoToken}

GraceInv == \A p \in Proc : IsFiniteSet(Held(grace[p])) /\ Cardinality(Held(grace[p])) <= MaxGrace

\* A cache that lost entries is within the bound.
LEMMA FewerHeld ==
  ASSUME NEW S, NEW T, IsFiniteSet(S), Cardinality(S) <= MaxGrace, T \subseteq S
  PROVE  IsFiniteSet(T) /\ Cardinality(T) <= MaxGrace
<1>1. IsFiniteSet(T) /\ Cardinality(T) <= Cardinality(S)
  BY FS_Subset
<1>2. Cardinality(S) \in Nat /\ Cardinality(T) \in Nat
  BY <1>1, FS_CardinalityType
<1> QED BY <1>1, <1>2, GraceAssumption

\* What an insertion keeps leaves room for one entry: less than the bound is
\* held, or one entry is evicted.
LEMMA KeptLeavesRoom ==
  ASSUME GraceInv, NEW p \in Proc, NEW K \in Kept(p)
  PROVE  IsFiniteSet(K) /\ Cardinality(K) < MaxGrace
<1>1. PICK F : F = Fresh(p)
  OBVIOUS
<1>2. F \subseteq Held(grace[p])
  BY <1>1 DEF Fresh, Held
<1>3. IsFiniteSet(F) /\ Cardinality(F) <= MaxGrace
  BY <1>2, FewerHeld DEF GraceInv
<1>4. Cardinality(F) \in Nat
  BY <1>3, FS_CardinalityType
<1>5. CASE Cardinality(F) < MaxGrace
  <2>1. K = F
    BY <1>1, <1>5 DEF Kept
  <2> QED BY <1>3, <1>5, <2>1
<1>6. CASE ~(Cardinality(F) < MaxGrace)
  <2>1. PICK t \in F : K = F \ {t}
    BY <1>1, <1>6 DEF Kept, Oldest
  <2>2. IsFiniteSet(K) /\ Cardinality(K) = Cardinality(F) - 1
    BY <1>3, <2>1, FS_RemoveElement
  <2> QED BY <1>3, <1>4, <2>2, GraceAssumption
<1> QED BY <1>5, <1>6

\* An insertion into a cache.
LEMMA RememberBounded ==
  ASSUME TypeOK, GraceInv, NEW r \in Request, Remember(r)
  PROVE  GraceInv'
<1>1. PICK p \in Proc : p = req[r].proc
  BY DEF TypeOK, Req
<1>2. PICK K \in Kept(p) :
        grace' = [grace EXCEPT ![p] =
          [t \in Token |->
             IF t = req[r].tok THEN [next |-> req[r].answer, rotatedAt |-> req[r].stamp]
             ELSE IF t \in K THEN grace[p][t] ELSE NoEntry]]
  BY <1>1 DEF Remember
<1>3. IsFiniteSet(K) /\ Cardinality(K) < MaxGrace
  BY KeptLeavesRoom
<1>4. PICK x : x = req[r].tok
  OBVIOUS
<1>5. Held(grace'[p]) \subseteq K \cup {x}
  <2>1. \A t \in Token : t # x /\ t \notin K => grace'[p][t] = NoEntry
    BY <1>2, <1>4 DEF TypeOK
  <2> QED BY <2>1 DEF Held, NoEntry
<1>6. IsFiniteSet(K \cup {x}) /\ Cardinality(K \cup {x}) <= MaxGrace
  <2>1. /\ IsFiniteSet(K \cup {x})
        /\ Cardinality(K \cup {x}) = Cardinality(K) \/ Cardinality(K \cup {x}) = Cardinality(K) + 1
    BY <1>3, FS_AddElement
  <2>2. Cardinality(K) \in Nat
    BY <1>3, FS_CardinalityType
  <2> QED BY <1>3, <2>1, <2>2, GraceAssumption
<1>7. IsFiniteSet(Held(grace'[p])) /\ Cardinality(Held(grace'[p])) <= MaxGrace
  BY <1>5, <1>6, FewerHeld
<1>8. \A q \in Proc \ {p} : grace'[q] = grace[q]
  BY <1>2 DEF TypeOK
<1> QED BY <1>7, <1>8 DEF GraceInv

\* Every other step leaves the caches or takes entries out.
LEMMA GraceStep ==
  ASSUME TypeOK, GraceInv, [Next]_vars
  PROVE  GraceInv'
<1>0. grace \in [Proc -> [Token -> Entry]]
  BY DEF TypeOK
<1>1. CASE UNCHANGED grace
  BY <1>1 DEF GraceInv
<1>2. ASSUME \A p \in Proc : Held(grace'[p]) \subseteq Held(grace[p])
      PROVE  GraceInv'
  <2>1. \A p \in Proc : IsFiniteSet(Held(grace'[p])) /\ Cardinality(Held(grace'[p])) <= MaxGrace
    BY <1>2, FewerHeld DEF GraceInv
  <2> QED BY <2>1 DEF GraceInv
<1>3. CASE \E r \in Request : Serve(r)
  <2>1. PICK r \in Request : Serve(r)
    BY <1>3
  <2>2. CASE Lookup(r) \/ Relookup(r)
    <3>1. UNCHANGED grace \/ grace' = [grace EXCEPT ![req[r].proc][req[r].tok] = NoEntry]
      BY <2>2 DEF Lookup, Relookup, Consult
    <3>2. ASSUME grace' = [grace EXCEPT ![req[r].proc][req[r].tok] = NoEntry]
          PROVE  \A p \in Proc : Held(grace'[p]) \subseteq Held(grace[p])
      <4>1. PICK q, u : q = req[r].proc /\ u = req[r].tok
        OBVIOUS
      <4>2. \A p \in Proc, t \in Token : grace'[p][t] = grace[p][t] \/ grace'[p][t] = NoEntry
        BY <1>0, <3>2, <4>1
      <4> QED BY <4>2 DEF Held, NoEntry
    <3> QED BY <1>1, <1>2, <3>1, <3>2
  <2>3. CASE Remember(r)
    BY <2>3, RememberBounded
  <2>4. CASE UNCHANGED grace
    BY <1>1, <2>4
  <2> QED
    BY <2>1, <2>2, <2>3, <2>4
    DEF Serve, BeginRotation, EndRotation, WakeUp, WaitTimeout, Prepare, Rotating, RotateRow,
        DetectReuse, RotateFails, FamilyBegin, FamilyApply, StoreMeta, Gate
<1>4. CASE \E p \in Proc : Restart(p)
  <2>1. PICK q \in Proc : grace' = [grace EXCEPT ![q] = [t \in Token |-> NoEntry]]
    BY <1>4 DEF Restart
  <2>2. \A p \in Proc, t \in Token : grace'[p][t] = grace[p][t] \/ grace'[p][t] = NoEntry
    BY <1>0, <2>1
  <2>3. \A p \in Proc : Held(grace'[p]) \subseteq Held(grace[p])
    BY <2>2 DEF Held, NoEntry
  <2> QED BY <1>2, <2>3
<1> QED
  BY <1>1, <1>3, <1>4
  DEF Next, IssueGrant, Arrive, LogoutBegin, LogoutApply, RevokeCheck, RevokeApply,
      RevokeSession, Tick, vars

\* The grace cache of a process never outgrows maxRefreshGraceEntries: one
\* eviction is enough, because the bound held before.
THEOREM GraceStaysBounded == Spec => []GraceBounded
<1>1. Init => GraceInv
  <2> SUFFICES ASSUME Init PROVE GraceInv
    OBVIOUS
  <2>1. \A p \in Proc : Held(grace[p]) = {}
    BY DEF Init, Held, NoEntry
  <2> QED BY <2>1, FS_EmptySet, GraceAssumption DEF GraceInv
<1>2. TypeOK /\ GraceInv /\ [Next]_vars => GraceInv'
  BY GraceStep
<1>3. GraceInv => GraceBounded
  BY DEF GraceInv, GraceBounded, Held
<1> QED BY <1>1, <1>2, <1>3, TypeCorrect, PTL DEF Spec

-----------------------------------------------------------------------------
(* A retry that comes after the answer.  Only the request that exchanged a *)
(* token files an entry for it, under the stamp of the row; the entry      *)
(* stays until the window has passed, unless it is lost.  So a request     *)
(* that arrived after the answer finds it, or looked after the window.     *)

\* The requests that exchanged a token and have remembered it, or will.
Rotator(q) == req[q].pc \in {"remember", "meta"} \/ q \in meta

\* What the rotators have: a successor each, and no token in common.
RotatorsApart ==
  /\ \A q \in meta : req[q].pc \in {"gate", "granted", "denied", "aborted"}
  /\ \A q \in Request : Rotator(q) =>
       req[q].answer \in issued /\ parent[req[q].answer] = req[q].tok /\ req[q].tok \in issued
  /\ \A q, k \in Request : Rotator(q) /\ Rotator(k) /\ req[q].tok = req[k].tok => q = k

\* Nobody files an entry before its rotator does.
NotFiledYet ==
  \A q \in Request, p \in Proc : req[q].pc = "remember" => grace[p][req[q].tok].next = NoToken

\* Afterwards the entry is there until the window has passed.
Filed ==
  \A q \in Request : (q \in meta \/ req[q].pc = "meta") /\ req[q].tok \notin lost =>
    \/ grace[req[q].proc][req[q].tok] = [next |-> req[q].answer, rotatedAt |-> req[q].stamp]
    \/ now - req[q].stamp > Window

\* What a request has noted of the clock and of those before it.
NotedOf(x) ==
  /\ x.since <= now
  /\ x.pc \in {"idle", "lookup"} => x.since = 0
  /\ x.pc = "idle" => x.seen = {}
  /\ \A q \in Request : q \in x.seen => req[q].pc = "granted"

Noted == \A r \in Request : NotedOf(req[r])

\* The retry x of request q: replayed, or looked up after the window.
Retries(x, q) ==
  /\ q \in x.seen /\ q \in meta /\ req[q].tok = x.tok /\ req[q].proc = x.proc /\ x.tok \notin lost
  /\ x.pc \notin {"idle", "lookup", "stale", "expired", "aborted"}

Replayed(x, q) ==
  \/ x.since = 0 /\ x.pc \in {"gate", "granted", "denied"} /\ x.answer = req[q].answer
  \/ x.since - req[q].stamp > Window

RetriesReplayed == \A q, r \in Request : Retries(req[r], q) => Replayed(req[r], q)

\* The inductive invariant of the retries.
RetryInv == RotatorsApart /\ NotFiledYet /\ Filed /\ Noted /\ RetriesReplayed

\* A step of request r, from record x to record d, as the retries see it: what
\* it does to its record,
Noting(x, d) ==
  /\ x.pc \in Running /\ d.pc \notin {"idle", "lookup", "stale", "expired", "aborted"}
  /\ d.tok = x.tok /\ d.proc = x.proc /\ d.seen = x.seen
  /\ x.since <= d.since /\ d.since <= now
  /\ x.pc = "gate" => /\ d.since = x.since /\ d.answer = x.answer /\ d.stamp = x.stamp
                      /\ d.pc \in {"granted", "denied"}
  /\ x.pc \in {"remember", "meta"} => d.answer = x.answer /\ d.stamp = x.stamp
  /\ d.pc = "meta" => x.pc = "remember"
  /\ d.pc = "remember" => /\ x.pc = "rotate" /\ Live(x.tok)
                          /\ d.answer \in issued' /\ parent'[d.answer] = x.tok
  /\ x.pc = "lookup" =>
       LET e == grace[x.proc][x.tok]
       IN IF e.next # NoToken /\ WithinGrace(e.rotatedAt)
          THEN d.since = x.since /\ d.pc = "gate" /\ d.answer = e.next
          ELSE d.since = now

\* and what it does to the caches and the metadata.
Filing(r, x, d) ==
  /\ meta' = meta \/ (meta' = meta \cup {r} /\ x.pc = "meta" /\ d.pc = "gate")
  /\ lost \subseteq lost'
  /\ \A p \in Proc, t \in Token :
       \/ grace'[p][t] = grace[p][t]
       \/ x.pc = "remember" /\ t = x.tok
       \/ /\ grace'[p][t] = NoEntry
          /\ \/ t \in lost' \/ grace[p][t].next = NoToken
             \/ ~WithinGrace(grace[p][t].rotatedAt)
  /\ d.pc = "meta" => grace'[x.proc][x.tok] = [next |-> x.answer, rotatedAt |-> x.stamp]

RetryStep(r) ==
  /\ now' = now /\ \A q \in Request \ {r} : req'[q] = req[q]
  /\ Noting(req[r], req'[r])
  /\ Filing(r, req[r], req'[r])

\* The steps that leave caches and metadata alone.
Aside(r) ==
  /\ UNCHANGED <<now, grace, lost, meta>>
  /\ \A q \in Request \ {r} : req'[q] = req[q]
  /\ req'[r].tok = req[r].tok /\ req'[r].proc = req[r].proc /\ req'[r].seen = req[r].seen
  /\ req[r].since <= req'[r].since /\ req'[r].since <= now

LEMMA QuietRetry ==
  ASSUME NEW r \in Request, Aside(r),
         req[r].pc \in Running \ {"lookup", "remember", "meta", "gate"},
         req'[r].pc \in (Running \cup Finished)
                       \ {"lookup", "remember", "meta", "stale", "expired", "aborted"}
  PROVE  RetryStep(r)
<1>1. Noting(req[r], req'[r])
  BY DEF Aside, Noting, Running, Finished
<1>2. Filing(r, req[r], req'[r])
  BY DEF Aside, Filing
<1> QED BY <1>1, <1>2 DEF Aside, RetryStep

\* What the record of a request can be.
LEMMA RequestTyped ==
  ASSUME TypeOK, Noted, NEW r \in Request
  PROVE  /\ req[r] \in Req /\ req[r].since \in Nat /\ req[r].since <= now /\ now \in Nat
         /\ req[r].pc \in {"idle", "lookup"} => req[r].since = 0
BY DEF TypeOK, Req, Time, Noted, NotedOf

\* The caches are consulted.
LEMMA ConsultRetries ==
  ASSUME TypeOK, RequestsSound, Noted, NEW r \in Request, NEW from, NEW miss,
         <<from, miss>> \in {<<"lookup", "begin">>, <<"relookup", "prepare">>},
         req[r].pc = from, Consult(r, miss)
  PROVE  RetryStep(r)
<1>1. /\ req[r] \in Req /\ req[r].since \in Nat /\ req[r].since <= now /\ now \in Nat
      /\ req[r].tok \in Token /\ req[r].proc \in Proc
  BY RequestTyped DEF RequestsSound, Sound, TypeOK, Req
<1>2. Hit(r) <=> /\ grace[req[r].proc][req[r].tok].next # NoToken
                 /\ WithinGrace(grace[req[r].proc][req[r].tok].rotatedAt)
  BY DEF Hit, EntryOf
<1>3. CASE Hit(r)
  <2>1. /\ req' = [req EXCEPT ![r] = [@ EXCEPT !.pc = "gate", !.answer = EntryOf(r).next]]
        /\ UNCHANGED <<now, grace, lost, meta>>
    BY <1>3 DEF Consult
  <2>2. /\ req'[r].pc = "gate" /\ req'[r].since = req[r].since /\ req'[r].tok = req[r].tok
        /\ req'[r].proc = req[r].proc /\ req'[r].seen = req[r].seen
        /\ req'[r].answer = grace[req[r].proc][req[r].tok].next
        /\ \A q \in Request \ {r} : req'[q] = req[q]
    BY <1>1, <2>1 DEF TypeOK, Req, EntryOf
  <2>3. Noting(req[r], req'[r])
    BY <1>1, <1>2, <1>3, <2>2 DEF Noting, Running
  <2>4. Filing(r, req[r], req'[r])
    BY <2>1, <2>2 DEF Filing
  <2> QED BY <2>1, <2>2, <2>3, <2>4 DEF RetryStep
<1>4. CASE ~Hit(r)
  <2>1. /\ req' = [req EXCEPT ![r] = [@ EXCEPT !.pc = miss, !.since = now]]
        /\ grace' = [grace EXCEPT ![req[r].proc][req[r].tok] = NoEntry]
        /\ UNCHANGED <<now, lost, meta>>
    BY <1>4 DEF Consult
  <2>2. \A q \in Request \ {r} : req'[q] = req[q]
    BY <2>1 DEF TypeOK
  <2>3. /\ req'[r].pc = miss /\ req'[r].since = now /\ req'[r].tok = req[r].tok
        /\ req'[r].proc = req[r].proc /\ req'[r].seen = req[r].seen
    BY <1>1, <2>1 DEF TypeOK, Req
  <2>4. Noting(req[r], req'[r])
    BY <1>1, <1>2, <1>4, <2>3 DEF Noting, Running
  <2>5. \A p \in Proc, t \in Token :
          \/ grace'[p][t] = grace[p][t]
          \/ grace'[p][t] = NoEntry /\ p = req[r].proc /\ t = req[r].tok
    BY <1>1, <2>1 DEF TypeOK
  <2>6. Filing(r, req[r], req'[r])
    BY <1>2, <1>4, <2>1, <2>3, <2>5 DEF Filing
  <2> QED BY <2>1, <2>2, <2>4, <2>6 DEF RetryStep
<1> QED BY <1>3, <1>4

\* The exchange is remembered.
LEMMA RememberRetries ==
  ASSUME TypeOK, RequestsSound, Noted, NEW r \in Request, Remember(r)
  PROVE  RetryStep(r)
<1>1. /\ req[r] \in Req /\ req[r].since \in Nat /\ req[r].since <= now /\ now \in Nat
      /\ req[r].pc = "remember"
      /\ req[r].tok \in Token /\ req[r].proc \in Proc
  BY RequestTyped DEF RequestsSound, Sound, TypeOK, Req, Remember
<1>2. PICK p, x : p = req[r].proc /\ x = req[r].tok
  OBVIOUS
<1>11. PICK K : /\ K \in Kept(p)
               /\ grace' = [grace EXCEPT ![p] =
                    [t \in Token |->
                       IF t = x THEN [next |-> req[r].answer, rotatedAt |-> req[r].stamp]
                       ELSE IF t \in K THEN grace[p][t] ELSE NoEntry]]
               /\ lost' = lost \cup (Fresh(p) \ K)
  BY <1>2 DEF Remember
<1>3. /\ req' = [req EXCEPT ![r] = [@ EXCEPT !.pc = "meta"]]
      /\ UNCHANGED <<now, meta>>
  BY DEF Remember
<1>4. /\ req'[r].pc = "meta" /\ req'[r].since = req[r].since /\ req'[r].tok = req[r].tok
      /\ req'[r].proc = req[r].proc /\ req'[r].seen = req[r].seen
      /\ req'[r].answer = req[r].answer /\ req'[r].stamp = req[r].stamp
      /\ \A q \in Request \ {r} : req'[q] = req[q]
  BY <1>1, <1>3 DEF TypeOK, Req
<1>5. Noting(req[r], req'[r])
  BY <1>1, <1>4 DEF Noting, Running
<1>6. /\ \A n \in Proc \ {p} : grace'[n] = grace[n]
      /\ \A t \in Token : grace'[p][t] = IF t = x THEN [next |-> req[r].answer, rotatedAt |-> req[r].stamp]
                                         ELSE IF t \in K THEN grace[p][t] ELSE NoEntry
  BY <1>1, <1>2, <1>11 DEF TypeOK
<1>7. ASSUME NEW t \in Token, t \notin K
      PROVE  t \in lost' \/ grace[p][t].next = NoToken \/ ~WithinGrace(grace[p][t].rotatedAt)
  BY <1>11, <1>7 DEF Fresh
<1>8. ASSUME NEW n \in Proc, NEW t \in Token
      PROVE  \/ grace'[n][t] = grace[n][t]
             \/ t = x
             \/ /\ grace'[n][t] = NoEntry
                /\ \/ t \in lost' \/ grace[n][t].next = NoToken
                   \/ ~WithinGrace(grace[n][t].rotatedAt)
  <2>1. CASE n # p
    BY <1>6, <2>1
  <2>2. CASE n = p
    BY <1>6, <1>7, <2>2
  <2> QED BY <2>1, <2>2
<1>9. grace'[p][x] = [next |-> req[r].answer, rotatedAt |-> req[r].stamp]
  BY <1>1, <1>2, <1>6
<1>10. Filing(r, req[r], req'[r])
  BY <1>1, <1>2, <1>11, <1>3, <1>4, <1>8, <1>9 DEF Filing
<1> QED BY <1>3, <1>4, <1>5, <1>10 DEF RetryStep

\* Every step of a handler.
LEMMA ServeRetries ==
  ASSUME TypeOK, RequestsSound, Noted, NEW r \in Request, Serve(r)
  PROVE  RetryStep(r)
<1>0. /\ req[r] \in Req /\ req[r].since \in Nat /\ req[r].since <= now /\ now \in Nat
      /\ req[r].pc \in {"idle", "lookup"} => req[r].since = 0
  BY RequestTyped
<1>1. CASE Lookup(r)
  BY <1>1, ConsultRetries DEF Lookup
<1>2. CASE Relookup(r)
  BY <1>2, ConsultRetries DEF Relookup
<1>3. CASE Remember(r)
  BY <1>3, RememberRetries
<1>4. CASE BeginRotation(r)
  <2>1. /\ req[r].pc = "begin" /\ Aside(r)
        /\ req'[r].pc \in {"end", "wait"}
    <3>1. ASSUME req' = [req EXCEPT ![r] = [@ EXCEPT !.pc = "end"]]
          PROVE  Aside(r) /\ req'[r].pc \in {"end", "wait"}
      BY <1>0, <1>4, <3>1 DEF BeginRotation, Aside, TypeOK, Req
    <3>2. ASSUME req' = [req EXCEPT ![r] = [@ EXCEPT !.pc = "wait", !.since = now,
                                      !.leader = inflight[req[r].proc][req[r].tok]]]
          PROVE  Aside(r) /\ req'[r].pc \in {"end", "wait"}
      BY <1>0, <1>4, <3>2 DEF BeginRotation, Aside, TypeOK, Req
    <3> QED BY <1>4, <3>1, <3>2 DEF BeginRotation
  <2> QED BY <2>1, QuietRetry DEF Running, Finished
<1>5. CASE EndRotation(r)
  <2>1. /\ req[r].pc = "end" /\ Aside(r)
        /\ req'[r].pc \in {"prepare"}
    BY <1>0, <1>5 DEF EndRotation, Aside, TypeOK, Req
  <2> QED BY <2>1, QuietRetry DEF Running, Finished
<1>6. CASE WakeUp(r)
  <2>1. /\ req[r].pc = "wait" /\ Aside(r)
        /\ req'[r].pc \in {"relookup"}
    BY <1>0, <1>6 DEF WakeUp, Aside, TypeOK, Req
  <2> QED BY <2>1, QuietRetry DEF Running, Finished
<1>7. CASE WaitTimeout(r)
  <2>1. /\ req[r].pc = "wait" /\ Aside(r)
        /\ req'[r].pc \in {"prepare"}
    BY <1>0, <1>7 DEF WaitTimeout, Aside, TypeOK, Req
  <2> QED BY <2>1, QuietRetry DEF Running, Finished
<1>8. CASE Prepare(r)
  <2>1. /\ req[r].pc = "prepare" /\ Aside(r)
        /\ req'[r].pc \in {"rotate", "failed"}
    <3>1. ASSUME req' = [req EXCEPT ![r] = [@ EXCEPT !.pc = "rotate", !.stamp = now]]
          PROVE  Aside(r) /\ req'[r].pc \in {"rotate", "failed"}
      BY <1>0, <1>8, <3>1 DEF Prepare, Aside, TypeOK, Req
    <3>2. ASSUME req' = [req EXCEPT ![r] = [@ EXCEPT !.pc = "failed"]]
          PROVE  Aside(r) /\ req'[r].pc \in {"rotate", "failed"}
      BY <1>0, <1>8, <3>2 DEF Prepare, Aside, TypeOK, Req
    <3> QED BY <1>8, <3>1, <3>2 DEF Prepare
  <2> QED BY <2>1, QuietRetry DEF Running, Finished
<1>9. ASSUME NEW s \in Token, RotateRow(r, s)
      PROVE  RetryStep(r)
  <2>1. /\ req[r].pc = "rotate" /\ Live(req[r].tok)
        /\ s \in issued' /\ parent'[s] = req[r].tok
    BY <1>9 DEF RotateRow, ConsumeHits, TypeOK
  <2>2. Aside(r) /\ req'[r].pc = "remember" /\ req'[r].answer = s
    BY <1>0, <1>9 DEF RotateRow, Aside, TypeOK, Req
  <2>3. Noting(req[r], req'[r])
    BY <2>1, <2>2 DEF Noting, Aside, Running
  <2>4. Filing(r, req[r], req'[r])
    BY <2>2 DEF Filing, Aside
  <2> QED BY <2>2, <2>3, <2>4 DEF RetryStep, Aside
<1>10. CASE DetectReuse(r)
  <2>1. /\ req[r].pc = "rotate" /\ Aside(r)
        /\ req'[r].pc \in {"famBegin"}
    BY <1>0, <1>10 DEF DetectReuse, Aside, TypeOK, Req
  <2> QED BY <2>1, QuietRetry DEF Running, Finished
<1>11. CASE RotateFails(r)
  <2>1. /\ req[r].pc = "rotate" /\ Aside(r)
        /\ req'[r].pc \in {"failed"}
    BY <1>0, <1>11 DEF RotateFails, Aside, TypeOK, Req
  <2> QED BY <2>1, QuietRetry DEF Running, Finished
<1>12. CASE FamilyBegin(r)
  <2>1. /\ req[r].pc = "famBegin" /\ Aside(r)
        /\ req'[r].pc \in {"famApply"}
    BY <1>0, <1>12 DEF FamilyBegin, Aside, TypeOK, Req
  <2> QED BY <2>1, QuietRetry DEF Running, Finished
<1>13. CASE FamilyApply(r)
  <2>1. /\ req[r].pc = "famApply" /\ Aside(r)
        /\ req'[r].pc \in {"reused", "unrevoked"}
    <3>1. ASSUME NEW X, req' = [req EXCEPT ![r] = [@ EXCEPT !.pc = "reused", !.spared = X]]
          PROVE  Aside(r) /\ req'[r].pc \in {"reused", "unrevoked"}
      BY <1>0, <1>13, <3>1 DEF FamilyApply, Aside, TypeOK, Req
    <3>2. ASSUME req' = [req EXCEPT ![r] = [@ EXCEPT !.pc = "unrevoked"]]
          PROVE  Aside(r) /\ req'[r].pc \in {"reused", "unrevoked"}
      BY <1>0, <1>13, <3>2 DEF FamilyApply, Aside, TypeOK, Req
    <3> QED BY <1>13, <3>1, <3>2 DEF FamilyApply
  <2> QED BY <2>1, QuietRetry DEF Running, Finished
<1>14. CASE StoreMeta(r)
  <2>1. /\ req[r].pc = "meta" /\ UNCHANGED <<now, grace, lost>>
        /\ meta' = meta \/ meta' = meta \cup {r}
        /\ req' = [req EXCEPT ![r] = [@ EXCEPT !.pc = "gate"]]
    BY <1>14 DEF StoreMeta
  <2>2. /\ req'[r].pc = "gate" /\ req'[r].since = req[r].since /\ req'[r].tok = req[r].tok
        /\ req'[r].proc = req[r].proc /\ req'[r].seen = req[r].seen
        /\ req'[r].answer = req[r].answer /\ req'[r].stamp = req[r].stamp
        /\ \A q \in Request \ {r} : req'[q] = req[q]
    BY <1>0, <2>1 DEF TypeOK, Req
  <2> QED BY <1>0, <2>1, <2>2 DEF RetryStep, Noting, Filing, Running
<1>15. CASE Gate(r)
  <2>1. /\ req[r].pc = "gate" /\ Aside(r) /\ req'[r].pc \in {"granted", "denied"}
        /\ req'[r].since = req[r].since /\ req'[r].answer = req[r].answer
        /\ req'[r].stamp = req[r].stamp
    BY <1>0, <1>15 DEF Gate, Aside, TypeOK, Req
  <2>2. Noting(req[r], req'[r])
    BY <2>1 DEF Noting, Aside, Running
  <2>3. Filing(r, req[r], req'[r])
    BY <2>1 DEF Filing, Aside
  <2> QED BY <2>1, <2>2, <2>3 DEF RetryStep, Aside
<1> QED
  BY <1>1, <1>2, <1>3, <1>4, <1>5, <1>6, <1>7, <1>8, <1>9, <1>10, <1>11, <1>12, <1>13, <1>14, <1>15
  DEF Serve, Rotating

\* A live token has no successor, hence no entry and no rotator.
LEMMA LiveUnrotated ==
  ASSUME RotationInv, RotatorsApart, NEW t \in Token, Live(t)
  PROVE  /\ \A p \in Proc : grace[p][t].next = NoToken
         /\ \A q \in Request : Rotator(q) => req[q].tok # t
<1>1. \A s \in issued : parent[s] # t
  BY NoTokenAssumption DEF RotationInv, ReplacedIsRevoked
<1> QED BY <1>1 DEF RotationInv, CacheHoldsSuccessors, RotatorsApart

\* The request that moves rotates already, or exchanges a live token.
LEMMA MovesRotator ==
  ASSUME RotationInv, RetryInv, NEW r \in Request, RetryStep(r)
  PROVE  /\ Rotator(r)' => /\ req'[r].tok = req[r].tok
                           /\ \/ Rotator(r) /\ req'[r].answer = req[r].answer
                              \/ req'[r].pc = "remember" /\ req[r].pc = "rotate" /\ Live(req[r].tok)
                                 /\ req'[r].answer \in issued'
                                 /\ parent'[req'[r].answer] = req[r].tok
         /\ r \in meta => req[r].pc = "gate"
         /\ \A q \in Request \ {r} : req'[q] = req[q] /\ (q \in meta' <=> q \in meta)
<1>1. r \in meta => req[r].pc = "gate"
  BY DEF RetryInv, RotatorsApart, RetryStep, Noting, Running
<1>2. \A q \in Request \ {r} : req'[q] = req[q] /\ (q \in meta' <=> q \in meta)
  BY DEF RetryStep, Filing
<1>3. ASSUME Rotator(r)'
      PROVE  \/ Rotator(r) /\ req'[r].answer = req[r].answer
             \/ req'[r].pc = "remember" /\ req[r].pc = "rotate" /\ Live(req[r].tok)
                /\ req'[r].answer \in issued' /\ parent'[req'[r].answer] = req[r].tok
  <2>1. CASE req'[r].pc = "remember"
    BY <2>1 DEF RetryStep, Noting
  <2>2. CASE req'[r].pc = "meta"
    BY <2>2 DEF RetryStep, Noting, Rotator
  <2>3. CASE r \in meta
    BY <1>1, <2>3 DEF RetryStep, Noting, Rotator
  <2>4. CASE r \in meta' /\ r \notin meta
    BY <2>4 DEF RetryStep, Noting, Filing, Rotator
  <2> QED BY <1>3, <2>1, <2>2, <2>3, <2>4 DEF Rotator
<1> QED BY <1>1, <1>2, <1>3 DEF RetryStep, Noting

\* The rotators stay apart.
LEMMA RotatorsStayApart ==
  ASSUME RotationInv, RetryInv, Grows, NEW r \in Request, RetryStep(r)
  PROVE  RotatorsApart'
<1> USE DEF RetryInv
<1>1. \A q \in Request \ {r} : req'[q] = req[q] /\ (Rotator(q)' <=> Rotator(q))
  BY MovesRotator DEF Rotator
<1>2. \A q \in meta' : req'[q].pc \in {"gate", "granted", "denied", "aborted"}
  <2>1. CASE r \in meta
    <3>1. req'[r].pc \in {"granted", "denied"} /\ meta' = meta
      BY <2>1, MovesRotator DEF RetryStep, Noting, Filing
    <3>2. meta \subseteq Request
      BY DEF RotationInv, TypeOK
    <3> QED BY <1>1, <3>1, <3>2 DEF RotatorsApart
  <2>2. CASE r \notin meta
    BY <2>2 DEF RetryStep, Filing, RotatorsApart, RotationInv, TypeOK
  <2> QED BY <2>1, <2>2
<1>3. ASSUME NEW q \in Request, Rotator(q)'
      PROVE  req'[q].answer \in issued' /\ parent'[req'[q].answer] = req'[q].tok /\ req'[q].tok \in issued'
  <2>1. CASE q # r
    BY <1>1, <1>3, <2>1 DEF RotatorsApart, Grows
  <2>2. CASE q = r
    BY <1>3, <2>2, MovesRotator DEF RotatorsApart, Grows, Live
  <2> QED BY <2>1, <2>2
<1>4. ASSUME NEW q \in Request, NEW k \in Request, Rotator(q)', Rotator(k)', req'[q].tok = req'[k].tok
      PROVE  q = k
  <2>1. ASSUME NEW n \in Request \ {r}, Rotator(n)', Rotator(r)', req'[n].tok = req'[r].tok
        PROVE  FALSE
    <3>1. Rotator(n) /\ req[n].tok = req[r].tok
      BY <1>1, <2>1, MovesRotator
    <3>2. ~Rotator(r)
      BY <3>1 DEF RotatorsApart
    <3>3. Live(req[r].tok) /\ req[r].tok \in Token
      BY <2>1, <3>2, MovesRotator DEF Live, RotationInv, TypeOK
    <3> QED BY <3>1, <3>3, LiveUnrotated
  <2> QED BY <1>1, <1>4, <2>1 DEF RotatorsApart
<1> QED BY <1>2, <1>3, <1>4 DEF RotatorsApart

\* An entry is filed by its rotator and by nobody before it.
LEMMA NotFiledYetKept ==
  ASSUME RotationInv, RetryInv, TypeOK', NEW r \in Request, RetryStep(r)
  PROVE  NotFiledYet'
<1> USE DEF RetryInv
<1>1. ASSUME NEW q \in Request, NEW p \in Proc, req'[q].pc = "remember"
      PROVE  grace'[p][req'[q].tok].next = NoToken
  <2>1. CASE q = r
    <3>1. req[r].pc = "rotate" /\ Live(req[r].tok) /\ req'[r].tok = req[r].tok /\ req[r].tok \in Token
      BY <1>1, <2>1 DEF RetryStep, Noting, Live, RotationInv, TypeOK
    <3>2. grace[p][req[r].tok].next = NoToken
      BY <3>1, LiveUnrotated
    <3> QED BY <2>1, <3>1, <3>2 DEF RetryStep, Filing, NoEntry
  <2>2. CASE q # r
    <3>1. req'[q] = req[q] /\ req[q].pc = "remember" /\ req[q].tok \in Token
      BY <1>1, <2>2 DEF RetryStep, RotationInv, TypeOK, ActorsNameRows
    <3>2. ~(req[r].pc = "remember" /\ req[r].tok = req[q].tok)
      BY <2>2, <3>1 DEF RotatorsApart, Rotator
    <3>3. grace[p][req[q].tok].next = NoToken
      BY <3>1 DEF NotFiledYet
    <3> QED BY <3>1, <3>2, <3>3 DEF RetryStep, Filing, NoEntry
  <2> QED BY <2>1, <2>2
<1> QED BY <1>1 DEF NotFiledYet

\* A filed entry stays until the window has passed.
LEMMA FiledKept ==
  ASSUME RotationInv, RetryInv, TypeOK', NEW r \in Request, RetryStep(r)
  PROVE  Filed'
<1> USE DEF RetryInv
<1>1. ASSUME NEW q \in Request, q \in meta' \/ req'[q].pc = "meta", req'[q].tok \notin lost'
      PROVE  \/ grace'[req'[q].proc][req'[q].tok]
                  = [next |-> req'[q].answer, rotatedAt |-> req'[q].stamp]
             \/ now' - req'[q].stamp > Window
  <2>1. CASE q = r /\ req'[r].pc = "meta"
    BY <2>1 DEF RetryStep, Noting, Filing
  <2>2. CASE ~(q = r /\ req'[r].pc = "meta")
    <3>1. /\ q \in meta \/ req[q].pc = "meta"
          /\ req'[q].tok = req[q].tok /\ req'[q].proc = req[q].proc
          /\ req'[q].answer = req[q].answer /\ req'[q].stamp = req[q].stamp
      <4>1. CASE q # r
        BY <1>1, <2>2, <4>1 DEF RetryStep, Filing
      <4>2. CASE q = r /\ r \in meta
        BY <4>2, MovesRotator DEF RetryStep, Noting
      <4>3. CASE q = r /\ r \notin meta
        BY <1>1, <2>2, <4>3 DEF RetryStep, Noting, Filing
      <4> QED BY <4>1, <4>2, <4>3
    <3>2. req[q].tok \notin lost /\ req[q].tok \notin lost'
      BY <1>1, <3>1 DEF RetryStep, Filing
    <3>3. /\ Rotator(q) /\ req[q].pc # "remember"
          /\ req[q].answer \in Token /\ req[q].tok \in Token /\ req[q].proc \in Proc
          /\ req[q].stamp \in Nat /\ now \in Nat
      <4>1. Rotator(q) /\ req[q].pc # "remember"
        BY <3>1 DEF Rotator, RotatorsApart
      <4>2. req[q].answer \in issued /\ req[q].tok \in issued
        BY <4>1 DEF RotatorsApart
      <4>3. TypeOK /\ req[q] \in Req
        BY DEF RotationInv, TypeOK
      <4> QED BY <4>1, <4>2, <4>3 DEF TypeOK, Req, Time
    <3>4. CASE now - req[q].stamp > Window
      BY <3>1, <3>4 DEF RetryStep
    <3>5. CASE grace[req[q].proc][req[q].tok] = [next |-> req[q].answer, rotatedAt |-> req[q].stamp]
      <4>1. ~(req[r].pc = "remember" /\ req[q].tok = req[r].tok)
        BY <3>3 DEF RotatorsApart, Rotator
      <4>2. CASE grace'[req[q].proc][req[q].tok] = grace[req[q].proc][req[q].tok]
        BY <3>1, <3>5, <4>2
      <4>3. CASE ~WithinGrace(req[q].stamp)
        BY <3>1, <3>3, <4>3, TimeAssumption DEF WithinGrace, RetryStep
      <4> QED BY <3>2, <3>3, <3>5, <4>1, <4>2, <4>3, NoTokenAssumption DEF RetryStep, Filing
    <3> QED BY <3>1, <3>2, <3>4, <3>5 DEF Filed
  <2> QED BY <2>1, <2>2
<1> QED BY <1>1 DEF Filed

\* What was noted before stays true: those who answered have finished.
LEMMA NotedKept ==
  ASSUME RotationInv, RetryInv, NEW r \in Request, RetryStep(r)
  PROVE  Noted'
<1>1. req[r].pc # "granted" /\ \A q \in Request \ {r} : req'[q] = req[q]
  BY DEF RetryStep, Noting, Running
<1>2. ASSUME NEW q \in Request, NEW k \in Request, q \in req'[k].seen
      PROVE  req'[q].pc = "granted" /\ req'[q] = req[q] /\ q # r
  <2>1. q \in req[k].seen
    BY <1>1, <1>2 DEF RetryStep, Noting
  <2> QED BY <1>1, <2>1 DEF RetryInv, Noted, NotedOf
<1>3. ASSUME NEW k \in Request
      PROVE  NotedOf(req[k])' 
  <2>1. CASE k = r
    BY <1>2, <2>1 DEF RetryStep, Noting, NotedOf
  <2>2. CASE k # r
    BY <1>1, <1>2, <2>2 DEF RetryStep, RetryInv, Noted, NotedOf
  <2> QED BY <2>1, <2>2
<1> QED BY <1>3 DEF Noted

\* The retry is replayed when it consults the cache, and keeps its answer.
LEMMA RetriesKept ==
  ASSUME RotationInv, RetryInv, TypeOK', NEW r \in Request, RetryStep(r)
  PROVE  RetriesReplayed'
<1> USE DEF RetryInv
<1>1. ASSUME NEW q \in Request, NEW k \in Request, Retries(req[k], q)'
      PROVE  Replayed(req[k], q)'
  <2>1. /\ q \in req[k].seen /\ req[q].pc = "granted" /\ q # r
        /\ req'[q] = req[q] /\ q \in meta
        /\ req[q].tok = req[k].tok /\ req[q].proc = req[k].proc /\ req[k].tok \notin lost
    <3>1. /\ req'[k].seen = req[k].seen /\ req'[k].tok = req[k].tok
          /\ req'[k].proc = req[k].proc /\ req[r].pc # "granted"
      BY DEF RetryStep, Noting, Running
    <3>2. q \in req[k].seen
      BY <1>1, <3>1 DEF Retries
    <3>3. req[q].pc = "granted" /\ q # r
      BY <3>1, <3>2 DEF Noted, NotedOf
    <3>4. req'[q] = req[q] /\ q \in meta
      BY <1>1, <3>3 DEF RetryStep, Filing, Retries
    <3>5. req[q].tok = req[k].tok /\ req[q].proc = req[k].proc /\ req[k].tok \notin lost
      BY <1>1, <3>1, <3>4 DEF Retries, RetryStep, Filing
    <3> QED BY <3>2, <3>3, <3>4, <3>5
  <2>2. CASE k # r
    <3>1. req'[k] = req[k]
      BY <2>2 DEF RetryStep
    <3>2. Retries(req[k], q)
      BY <1>1, <2>1, <3>1 DEF Retries
    <3> QED BY <2>1, <3>1, <3>2 DEF RetriesReplayed, Replayed
  <2>3. CASE k = r
    <3>0. /\ req[r].since \in Nat /\ req'[r].since \in Nat /\ req[q].stamp \in Nat /\ now \in Nat
          /\ req[r].tok \in Token /\ req[r].proc \in Proc
      BY <2>1, <2>3 DEF RotationInv, TypeOK, Req, Time, RotatorsApart, Rotator
    <3>1. CASE req[r].pc = "lookup"
      <4> DEFINE e == grace[req[r].proc][req[r].tok]
      <4>1. /\ q \in meta /\ Rotator(q)
            /\ req[q].answer \in issued /\ parent[req[q].answer] = req[r].tok
            /\ req[q].answer # NoToken
        BY <2>1, <2>3, NoTokenAssumption DEF Rotator, RotatorsApart, RotationInv, TypeOK
      <4>2. \/ e = [next |-> req[q].answer, rotatedAt |-> req[q].stamp]
            \/ now - req[q].stamp > Window
        BY <2>1, <2>3 DEF Filed
      <4>3. CASE e.next # NoToken /\ WithinGrace(e.rotatedAt)
        <5>1. req'[r].since = 0 /\ req'[r].pc = "gate" /\ req'[r].answer = e.next
          BY <3>1, <4>3 DEF RetryStep, Noting, Noted, NotedOf
        <5>2. e.next \in issued /\ parent[e.next] = req[r].tok
          BY <3>0, <4>3 DEF RotationInv, CacheHoldsSuccessors
        <5>3. e.next = req[q].answer
          BY <3>0, <4>1, <5>2, NoTokenAssumption DEF RotationInv, SingleSuccessor
        <5> QED BY <2>1, <2>3, <5>1, <5>3 DEF Replayed
      <4>4. CASE ~(e.next # NoToken /\ WithinGrace(e.rotatedAt))
        <5>1. req'[r].since = now
          BY <3>1, <4>4 DEF RetryStep, Noting
        <5>2. now - req[q].stamp > Window
          BY <3>0, <4>1, <4>2, <4>4, TimeAssumption DEF WithinGrace
        <5> QED BY <2>1, <2>3, <5>1, <5>2 DEF Replayed
      <4> QED BY <4>3, <4>4
    <3>2. CASE req[r].pc # "lookup"
      <4>1. Retries(req[r], q)
        BY <2>1, <2>3, <3>2 DEF Retries, RetryStep, Noting, Running
      <4>2. Replayed(req[r], q)
        BY <4>1 DEF RetriesReplayed
      <4>3. CASE req[r].since - req[q].stamp > Window
        <5>1. req[r].since <= req'[r].since
          BY DEF RetryStep, Noting
        <5>2. req'[r].since - req[q].stamp > Window
          BY <3>0, <4>3, <5>1, TimeAssumption
        <5> QED BY <2>1, <2>3, <5>2 DEF Replayed
      <4>4. CASE /\ req[r].since = 0 /\ req[r].pc \in {"gate", "granted", "denied"}
                 /\ req[r].answer = req[q].answer
        <5>1. req[r].pc = "gate"
          BY <4>4 DEF RetryStep, Noting, Running
        <5> QED BY <2>1, <2>3, <4>4, <5>1 DEF RetryStep, Noting, Replayed
      <4> QED BY <4>2, <4>3, <4>4 DEF Replayed
    <3> QED BY <3>1, <3>2
  <2> QED BY <2>2, <2>3
<1> QED BY <1>1 DEF RetriesReplayed

\* A handler's step.
LEMMA RetryKept ==
  ASSUME RotationInv, RetryInv, Grows, TypeOK', NEW r \in Request, RetryStep(r)
  PROVE  RetryInv'
BY RotatorsStayApart, NotFiledYetKept, FiledKept, NotedKept, RetriesKept DEF RetryInv

\* A request arrives: whom it has seen, it has seen granted.
LEMMA ArriveKeepsRetry ==
  ASSUME RotationInv, RetryInv, NEW r \in Request, NEW p \in Proc, NEW t \in Token,
         Arrive(r, p, t)
  PROVE  RetryInv'
<1> USE DEF RetryInv
<1>0. PICK S : S = {q \in Request : req[q].pc = "granted"}
  OBVIOUS
<1>1. PICK pc \in {"stale", "expired", "lookup"} :
        req' = [req EXCEPT ![r] = [@ EXCEPT !.proc = p, !.tok = t, !.seen = S, !.pc = pc]]
  BY <1>0 DEF Arrive
<1>2. req[r].pc = "idle" /\ UNCHANGED <<now, dbVars, memVars, meta>>
  BY DEF Arrive
<1>3. /\ req'[r].pc = pc /\ req'[r].seen = S /\ req'[r].since = req[r].since
      /\ \A q \in Request \ {r} : req'[q] = req[q]
  BY <1>1 DEF RotationInv, TypeOK, Req
<1>4. ~Rotator(r) /\ ~Rotator(r)' /\ r \notin meta
  BY <1>1, <1>2, <1>3 DEF Rotator, RotatorsApart
<1>5. \A q \in Request : q \in S => req[q].pc = "granted"
  BY <1>0
<1>6. \A k \in Request \ {r} : r \notin req'[k].seen
  BY <1>2, <1>3 DEF Noted, NotedOf
<1>7. RotatorsApart'
  <2>1. \A q \in meta : q # r /\ q \in Request
    BY <1>4 DEF RotationInv, TypeOK
  <2>2. \A q \in Request : Rotator(q)' => Rotator(q) /\ req'[q] = req[q]
    BY <1>2, <1>3, <1>4 DEF Rotator
  <2> QED BY <1>2, <1>3, <2>1, <2>2 DEF RotatorsApart
<1>8. NotFiledYet' /\ Filed'
  BY <1>1, <1>2, <1>3, <1>4 DEF NotFiledYet, Filed
<1>9. Noted'
  <2>1. NotedOf(req[r])'
    BY <1>1, <1>2, <1>3, <1>5 DEF Noted, NotedOf
  <2>2. ASSUME NEW k \in Request \ {r}
        PROVE  NotedOf(req[k])'
    BY <1>2, <1>3, <1>6 DEF Noted, NotedOf
  <2> QED BY <2>1, <2>2 DEF Noted
<1>10. ASSUME NEW q \in Request, NEW k \in Request, Retries(req[k], q)'
       PROVE  Replayed(req[k], q)'
  <2>1. k # r
    BY <1>1, <1>3, <1>10 DEF Retries
  <2>2. q # r
    BY <1>6, <1>10, <2>1 DEF Retries
  <2>3. req'[k] = req[k] /\ req'[q] = req[q]
    BY <1>3, <2>1, <2>2
  <2> QED BY <1>2, <1>10, <2>3 DEF Retries, Replayed, RetriesReplayed
<1> QED BY <1>7, <1>8, <1>9, <1>10 DEF RetriesReplayed

\* A process dies: its requests never answer, and what it remembered is lost.
LEMMA RestartKeepsRetry ==
  ASSUME RotationInv, RetryInv, NEW p \in Proc, Restart(p)
  PROVE  RetryInv'
<1> USE DEF RetryInv
<1>1. /\ grace' = [grace EXCEPT ![p] = [t \in Token |-> NoEntry]]
      /\ lost' = lost \cup Fresh(p)
      /\ UNCHANGED <<now, dbVars, meta>>
  BY DEF Restart
<1>2. ASSUME NEW q \in Request
      PROVE  \/ req'[q] = req[q] /\ ~(req[q].proc = p /\ req[q].pc \in Running)
             \/ req'[q] = [req[q] EXCEPT !.pc = "aborted"] /\ req[q].pc \in Running
  BY DEF Restart
<1>3. ASSUME NEW q \in Request
      PROVE  /\ req'[q].tok = req[q].tok /\ req'[q].proc = req[q].proc
             /\ req'[q].answer = req[q].answer /\ req'[q].stamp = req[q].stamp
             /\ req'[q].since = req[q].since /\ req'[q].seen = req[q].seen
             /\ \/ req'[q].pc = req[q].pc /\ ~(req[q].proc = p /\ req[q].pc \in Running)
                \/ req'[q].pc = "aborted" /\ req[q].pc \in Running
  <2>1. req[q] \in Req
    BY DEF RotationInv, TypeOK
  <2> QED BY <1>2, <2>1 DEF Req
<1>4. /\ grace'[p] = [t \in Token |-> NoEntry]
      /\ \A n \in Proc \ {p} : grace'[n] = grace[n]
  BY <1>1 DEF RotationInv, TypeOK
<1>5. RotatorsApart'
  <2>1. \A q \in Request : Rotator(q)' => Rotator(q)
    BY <1>1, <1>3 DEF Rotator
  <2>2. \A q \in meta' : req'[q].pc \in {"gate", "granted", "denied", "aborted"}
    BY <1>1, <1>3 DEF RotatorsApart, RotationInv, TypeOK
  <2> QED BY <1>1, <1>3, <2>1, <2>2 DEF RotatorsApart
<1>6. NotFiledYet'
  <2>1. ASSUME NEW q \in Request, NEW n \in Proc, req'[q].pc = "remember"
        PROVE  grace'[n][req'[q].tok].next = NoToken
    <3>1. req[q].pc = "remember" /\ req'[q].tok = req[q].tok /\ req[q].tok \in Token
      BY <1>3, <2>1 DEF RotationInv, ActorsNameRows, TypeOK
    <3> QED BY <1>4, <3>1 DEF NotFiledYet, NoEntry
  <2> QED BY <2>1 DEF NotFiledYet
<1>7. Filed'
  <2>1. ASSUME NEW q \in Request, q \in meta' \/ req'[q].pc = "meta", req'[q].tok \notin lost'
        PROVE  \/ grace'[req'[q].proc][req'[q].tok]
                    = [next |-> req'[q].answer, rotatedAt |-> req'[q].stamp]
               \/ now' - req'[q].stamp > Window
    <3>1. /\ q \in meta \/ req[q].pc = "meta"
          /\ req[q].tok \notin lost /\ req[q].tok \notin Fresh(p)
      BY <1>1, <1>3, <2>1
    <3>2. /\ Rotator(q) /\ req[q].answer \in Token /\ req[q].tok \in Token
          /\ req[q].proc \in Proc /\ req[q].stamp \in Nat /\ now \in Nat
      <4>1. Rotator(q)
        BY <3>1 DEF Rotator
      <4>2. req[q].answer \in issued /\ req[q].tok \in issued
        BY <4>1 DEF RotatorsApart
      <4>3. TypeOK /\ req[q] \in Req
        BY DEF RotationInv, TypeOK
      <4> QED BY <4>1, <4>2, <4>3 DEF TypeOK, Req, Time
    <3>3. CASE now - req[q].stamp > Window
      BY <1>1, <1>3, <3>3
    <3>4. CASE grace[req[q].proc][req[q].tok] = [next |-> req[q].answer, rotatedAt |-> req[q].stamp]
      <4>1. CASE req[q].proc # p
        BY <1>3, <1>4, <3>2, <3>4, <4>1
      <4>2. CASE req[q].proc = p
        <5>1. ~WithinGrace(req[q].stamp)
          BY <3>1, <3>2, <3>4, <4>2, NoTokenAssumption DEF Fresh
        <5> QED BY <1>1, <1>3, <3>2, <5>1, TimeAssumption DEF WithinGrace
      <4> QED BY <4>1, <4>2
    <3> QED BY <3>1, <3>3, <3>4 DEF Filed
  <2> QED BY <2>1 DEF Filed
<1>8. Noted'
  <2>1. ASSUME NEW k \in Request, NEW q \in Request, q \in req'[k].seen
        PROVE  req'[q].pc = "granted"
    <3>1. req[q].pc = "granted"
      BY <1>3, <2>1 DEF Noted, NotedOf
    <3> QED BY <1>3, <3>1 DEF Running
  <2>2. ASSUME NEW k \in Request
        PROVE  /\ req'[k].since <= now'
               /\ req'[k].pc \in {"idle", "lookup"} => req'[k].since = 0
               /\ req'[k].pc = "idle" => req'[k].seen = {}
    BY <1>1, <1>3 DEF Noted, NotedOf
  <2> QED BY <2>1, <2>2 DEF Noted, NotedOf
<1>9. RetriesReplayed'
  <2>1. ASSUME NEW q \in Request, NEW k \in Request, Retries(req[k], q)'
        PROVE  Replayed(req[k], q)'
    <3>1. Retries(req[k], q) /\ req'[k].pc = req[k].pc
      BY <1>1, <1>3, <2>1 DEF Retries
    <3> QED BY <1>3, <3>1 DEF RetriesReplayed, Replayed
  <2> QED BY <2>1 DEF RetriesReplayed
<1> QED BY <1>5, <1>6, <1>7, <1>8, <1>9

\* Time passes.
LEMMA TickKeepsRetry ==
  ASSUME RotationInv, RetryInv, Tick
  PROVE  RetryInv'
<1> USE DEF RetryInv
<1>1. now' = now + 1 /\ now \in Nat /\ UNCHANGED <<dbVars, memVars, req, meta>>
  BY DEF Tick, RotationInv, TypeOK
<1>2. RotatorsApart' /\ NotFiledYet' /\ RetriesReplayed'
  BY <1>1 DEF RotatorsApart, Rotator, NotFiledYet, RetriesReplayed, Retries, Replayed
<1>3. \A q \in Request : req[q].since \in Nat /\ req[q].stamp \in Nat
  BY DEF RotationInv, TypeOK, Req, Time
<1>4. Noted'
  BY <1>1, <1>3 DEF Noted, NotedOf
<1>5. Filed'
  BY <1>1, <1>3, TimeAssumption DEF Filed
<1> QED BY <1>2, <1>4, <1>5

\* Every step.
LEMMA RetryInvStep ==
  ASSUME RotationInv, RotationInv', RetryInv, [Next]_vars
  PROVE  RetryInv'
<1>1. Grows
  BY HistoryGrows DEF Grows, RotationInv
<1>2. TypeOK' /\ RequestsSound /\ Noted
  BY SoundSplit DEF RotationInv, RetryInv
<1>3. CASE \E r \in Request : Serve(r)
  <2>1. PICK r \in Request : Serve(r)
    BY <1>3
  <2>2. RetryStep(r)
    BY <1>2, <2>1, ServeRetries DEF RotationInv
  <2> QED BY <1>1, <1>2, <2>2, RetryKept
<1>4. CASE \E r \in Request, p \in Proc, t \in Token : Arrive(r, p, t)
  BY <1>4, ArriveKeepsRetry
<1>5. CASE \E p \in Proc : Restart(p)
  BY <1>5, RestartKeepsRetry
<1>6. CASE Tick
  BY <1>6, TickKeepsRetry
<1>7. CASE UNCHANGED <<now, memVars, req, meta>>
  <2>1. RotatorsApart'
    BY <1>1, <1>7 DEF RetryInv, RotatorsApart, Rotator, Grows
  <2>2. NotFiledYet' /\ Filed' /\ Noted' /\ RetriesReplayed'
    BY <1>7 DEF RetryInv, NotFiledYet, Filed, Noted, NotedOf, RetriesReplayed, Retries, Replayed
  <2> QED BY <2>1, <2>2 DEF RetryInv
<1> QED
  BY <1>3, <1>4, <1>5, <1>6, <1>7
  DEF Next, IssueGrant, LogoutBegin, LogoutApply, RevokeCheck, RevokeApply, RevokeSession, vars

\* What each request remembers of its rotation, and each retry of the clock.
THEOREM RetryInvariant == Spec => []RetryInv
<1>1. Init => RetryInv
  <2> SUFFICES ASSUME Init PROVE RetryInv
    OBVIOUS
  <2>1. /\ \A r \in Request : req[r] = NewReq
        /\ meta = {} /\ now = 1
    BY DEF Init
  <2>2. \A r \in Request : req[r].pc = "idle" /\ req[r].since = 0 /\ req[r].seen = {}
    <3>1. PICK p : p = CHOOSE n \in Proc : TRUE
      OBVIOUS
    <3>2. NewReq = [pc |-> "idle", proc |-> p, tok |-> NoToken, leader |-> NoRequest,
                    since |-> 0, stamp |-> 0, answer |-> NoToken, snap |-> {}, spared |-> {}, seen |-> {}]
      BY <3>1 DEF NewReq
    <3> QED BY <2>1, <3>2
  <2>3. RotatorsApart /\ NotFiledYet /\ Filed
    BY <2>1, <2>2 DEF RotatorsApart, Rotator, NotFiledYet, Filed
  <2>4. Noted /\ RetriesReplayed
    BY <2>1, <2>2 DEF Noted, NotedOf, RetriesReplayed, Retries
  <2> QED BY <2>3, <2>4 DEF RetryInv
<1>2. RotationInv /\ RotationInv' /\ RetryInv /\ [Next]_vars => RetryInv'
  BY RetryInvStep
<1> QED BY <1>1, <1>2, RotationInvariant, PTL DEF Spec

\* A retry that comes after the answer, to the same process and within the
\* window, is served the successor and never judged a reuse, unless the entry
\* was evicted or died with its process.
THEOREM RetriesAreReplayed == Spec => []SequentialRetryReplayed
<1>1. TypeOK /\ RetryInv => SequentialRetryReplayed
  <2> SUFFICES ASSUME TypeOK, RetryInv, NEW q \in Request, NEW r \in Request,
                      q \in req[r].seen, req[q].tok = req[r].tok, req[q].proc = req[r].proc,
                      q \in meta, req[q].tok \notin lost,
                      req[r].pc \notin {"lookup", "stale", "expired", "aborted"},
                      req[r].since = 0 \/ req[r].since - req[q].stamp <= Window
               PROVE  /\ req[r].pc \in {"gate", "granted", "denied"}
                      /\ req[r].answer = req[q].answer
    BY DEF SequentialRetryReplayed
  <2>1. Retries(req[r], q)
    BY DEF Retries, RetryInv, Noted, NotedOf
  <2>2. req[r].since \in Nat /\ req[q].stamp \in Nat
    BY DEF TypeOK, Req, Time
  <2>3. ~(req[r].since - req[q].stamp > Window)
    BY <2>2, TimeAssumption
  <2> QED BY <2>1, <2>3 DEF RetryInv, RetriesReplayed, Replayed
<1> QED BY <1>1, RetryInvariant, TypeCorrect, PTL
=============================================================================
