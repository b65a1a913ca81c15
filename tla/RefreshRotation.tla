--------------------------- MODULE RefreshRotation ---------------------------
(***************************************************************************)
(* Refresh-token rotation of the OpenID provider                           *)
(* (backend/iam/auth/core/oidcop/persistent_store.go): the                 *)
(* iam_refresh_token rows, the in-process grace cache and in-flight table  *)
(* of every auth process, the refresh requests that race on them, and the  *)
(* statements that revoke rows in bulk (TerminateSession,                  *)
(* RevokeByPersonID, the family revocation), by id (RFC 7009) or one at a  *)
(* time (the session list).                                                *)
(*                                                                         *)
(* Grain.  One action is one database statement or transaction, one        *)
(* critical section of rotationMu, or one Redis call, so that every        *)
(* interleaving the scheduler can produce between them is a behaviour.     *)
(* PostgreSQL runs at READ COMMITTED: a bulk UPDATE sees the rows that     *)
(* were committed when the statement began (its snapshot), waits for the   *)
(* locks of concurrent writers and re-checks revoked_at on those rows      *)
(* only; hence two actions, Begin and Apply.  The rotation transaction     *)
(* touches one fresh row and one locked row and is one action.             *)
(***************************************************************************)
EXTENDS Integers, FiniteSets

CONSTANTS
  Token,        \* refresh tokens; each is drawn at random, hence fresh
  LoginToken,   \* bound of the exploration: the tokens a login may draw
  Person,       \* natural persons
  Client,       \* OIDC clients
  Request,      \* refresh requests; each is served once
  Proc,         \* auth processes sharing the database
  Logout,       \* revocations by person or from the session list; each runs once
  Revoker,      \* RFC 7009 revocation requests; each is served once
  NoToken, NoPerson, NoClient, NoRequest,
  Window,       \* refreshRotationGraceWindow, in clock units
  TTL,          \* the lifetime of a refresh token, in clock units
  MaxGrace,     \* maxRefreshGraceEntries
  MaxTime,      \* bound of the exploration: the clock stops here
  MaxRestarts,  \* bound of the exploration: process restarts
  MayFail,      \* may a statement fail?
  MayWithdraw,  \* may the tenant or the application access be withdrawn?
  EnforceAccess \* oidc.enforceAppAccess

ASSUME NoTokenAssumption   == NoToken \notin Token /\ LoginToken \subseteq Token
ASSUME ProcAssumption      == Proc # {}
ASSUME NoPersonAssumption  == NoPerson \notin Person
ASSUME NoClientAssumption  == NoClient \notin Client
ASSUME NoRequestAssumption == NoRequest \notin Request
ASSUME TimeAssumption      == /\ Window \in Nat /\ TTL \in Nat /\ MaxTime \in Nat \ {0}
                              /\ MaxRestarts \in Nat
ASSUME GraceAssumption     == MaxGrace \in Nat \ {0}
ASSUME FlagAssumption      == /\ MayFail \in BOOLEAN /\ MayWithdraw \in BOOLEAN
                              /\ EnforceAccess \in BOOLEAN

VARIABLES
  now,       \* the wall clock; starts at 1 so that 0 can stand for NULL
  issued,    \* the tokens that have a row
  row,       \* the row of each token
  origin,    \* history: the token its grant was opened with
  parent,    \* history: the token it replaced
  grace,     \* rotationGrace of each process, by consumed token
  inflight,  \* rotationInflight of each process, by consumed token
  lost,      \* history: the tokens whose entry was evicted, or died with its
             \* process, within the window
  req,       \* the refresh requests
  meta,      \* the requests whose access token has its metadata in Redis
  logout,    \* the person-level revocations
  revoker,   \* the RFC 7009 revocations
  restarts   \* how many restarts have happened

dbVars   == <<issued, row, origin, parent>>
memVars  == <<grace, inflight, lost>>
actVars  == <<logout, revoker>>
vars     == <<now, dbVars, memVars, req, meta, actVars, restarts>>

-----------------------------------------------------------------------------
(* State.                                                                  *)

Time == 0 .. MaxTime

NoRow   == [person |-> NoPerson, client |-> NoClient, revokedAt |-> 0, expiredAt |-> 0]
NoEntry == [next |-> NoToken, rotatedAt |-> 0]

Row   == [person : Person \cup {NoPerson}, client : Client \cup {NoClient},
          revokedAt : Time, expiredAt : 0 .. (MaxTime + TTL)]
Entry == [next : Token \cup {NoToken}, rotatedAt : Time]

Finished == {"granted", "denied", "stale", "expired", "reused", "unrevoked", "failed", "aborted"}
Running  == {"lookup", "begin", "end", "wait", "relookup", "prepare", "rotate",
             "remember", "meta", "gate", "famBegin", "famApply"}

NewReq == [pc |-> "idle", proc |-> CHOOSE p \in Proc : TRUE, tok |-> NoToken,
           leader |-> NoRequest, since |-> 0, stamp |-> 0, answer |-> NoToken,
           snap |-> {}, spared |-> {}, seen |-> {}]

Req == [pc : {"idle"} \cup Running \cup Finished, proc : Proc,
        tok : Token \cup {NoToken}, leader : Request \cup {NoRequest},
        since : Time, stamp : Time, answer : Token \cup {NoToken},
        snap : SUBSET Token, spared : SUBSET (Token \cup {NoToken}), seen : SUBSET Request]

Bulk == [pc : {"idle", "apply", "done", "failed"}, person : Person \cup {NoPerson},
         snap : SUBSET Token, spared : SUBSET (Token \cup {NoToken})]

Rfc7009 == [pc : {"idle", "apply", "done", "refused", "failed"}, tok : Token \cup {NoToken},
            client : Client \cup {NoClient}]

Live(t)    == t \in issued /\ row[t].revokedAt = 0
Expired(t) == row[t].expiredAt <= now
Rows(p)    == {t \in issued : row[t].person = p}

\* Mutant of WithinGrace: the last instant of the window is outside it.
WithinGraceStrict(at) == now - at < Window

\* withinRotationGrace: measured from the stamp the rotation wrote.
WithinGrace(at) == now - at <= Window

\* The entry lookupRotationGrace finds for the token a request presents.
EntryOf(r) == grace[req[r].proc][req[r].tok]
Hit(r)     == EntryOf(r).next # NoToken /\ WithinGrace(EntryOf(r).rotatedAt)

Init ==
  /\ now = 1
  /\ issued = {}
  /\ row = [t \in Token |-> NoRow]
  /\ origin = [t \in Token |-> NoToken]
  /\ parent = [t \in Token |-> NoToken]
  /\ grace = [p \in Proc |-> [t \in Token |-> NoEntry]]
  /\ inflight = [p \in Proc |-> [t \in Token |-> NoRequest]]
  /\ lost = {}
  /\ req = [r \in Request |-> NewReq]
  /\ meta = {}
  /\ logout = [l \in Logout |-> [pc |-> "idle", person |-> NoPerson, snap |-> {}, spared |-> {}]]
  /\ revoker = [v \in Revoker |-> [pc |-> "idle", tok |-> NoToken, client |-> NoClient]]
  /\ restarts = 0

-----------------------------------------------------------------------------
(* The code path of a login: CreateAccessAndRefreshTokens without a        *)
(* current refresh token inserts one row.                                  *)

IssueGrant(t, p, c) ==
  /\ t \in LoginToken \ issued
  /\ issued' = issued \cup {t}
  /\ row' = [row EXCEPT ![t] = [person |-> p, client |-> c, revokedAt |-> 0,
                                expiredAt |-> now + TTL]]
  /\ origin' = [origin EXCEPT ![t] = t]
  /\ UNCHANGED <<now, parent, memVars, req, meta, actVars, restarts>>

-----------------------------------------------------------------------------
(* A refresh request.                                                      *)

\* TokenRequestByRefreshToken reads the row.  Revoked within the window is
\* let through; revoked earlier, or expired, is refused on the spot.
Arrive(r, p, t) ==
  /\ req[r].pc = "idle"
  /\ t \in issued
  /\ req' = [req EXCEPT ![r] =
       [@ EXCEPT !.proc = p, !.tok = t,
                 !.seen = {q \in Request : req[q].pc = "granted"},
                 !.pc = IF ~Live(t) /\ ~WithinGrace(row[t].revokedAt) THEN "stale"
                        ELSE IF Expired(t) THEN "expired"
                        ELSE "lookup"]]
  /\ UNCHANGED <<now, dbVars, memVars, meta, actVars, restarts>>

\* A hit replays the successor; an entry found expired is deleted.
Consult(r, miss) ==
  LET p == req[r].proc
      t == req[r].tok
  IN /\ IF Hit(r)
          THEN /\ req' = [req EXCEPT ![r] = [@ EXCEPT !.pc = "gate",
                                                      !.answer = EntryOf(r).next]]
               /\ UNCHANGED grace
          ELSE /\ req' = [req EXCEPT ![r] = [@ EXCEPT !.pc = miss, !.since = now]]
               /\ grace' = [grace EXCEPT ![p][t] = NoEntry]
     /\ UNCHANGED <<now, dbVars, inflight, lost, meta, actVars, restarts>>

\* refreshWithGrace, first lookup.
Lookup(r) == req[r].pc = "lookup" /\ Consult(r, "begin")

\* beginRotation: the first request of a token in a process leads, and
\* refreshWithGrace returns at once; the others wait for its channel.
BeginRotation(r) ==
  LET p == req[r].proc
      t == req[r].tok
  IN /\ req[r].pc = "begin"
     /\ IF inflight[p][t] = NoRequest
          THEN /\ inflight' = [inflight EXCEPT ![p][t] = r]
               /\ req' = [req EXCEPT ![r] = [@ EXCEPT !.pc = "end"]]
          ELSE /\ req' = [req EXCEPT ![r] = [@ EXCEPT !.pc = "wait", !.since = now,
                                                      !.leader = inflight[p][t]]]
               /\ UNCHANGED inflight
     /\ UNCHANGED <<now, dbVars, grace, lost, meta, actVars, restarts>>

\* Mutant of EndRotation: the registration is left behind.
EndRotationKeepsEntry(r) ==
  /\ req[r].pc = "end"
  /\ req' = [req EXCEPT ![r] = [@ EXCEPT !.pc = "prepare"]]
  /\ UNCHANGED <<now, dbVars, memVars, meta, actVars, restarts>>

\* endRotation: deferred in refreshWithGrace, so it runs when that function
\* returns to CreateAccessAndRefreshTokens and before any row is written.
EndRotation(r) ==
  /\ req[r].pc = "end"
  /\ inflight' = [inflight EXCEPT ![req[r].proc][req[r].tok] = NoRequest]
  /\ req' = [req EXCEPT ![r] = [@ EXCEPT !.pc = "prepare"]]
  /\ UNCHANGED <<now, dbVars, grace, lost, meta, actVars, restarts>>

\* The leader's channel is closed.
WakeUp(r) ==
  /\ req[r].pc = "wait"
  /\ inflight[req[r].proc][req[r].tok] # req[r].leader
  /\ req' = [req EXCEPT ![r] = [@ EXCEPT !.pc = "relookup", !.leader = NoRequest]]
  /\ UNCHANGED <<now, dbVars, memVars, meta, actVars, restarts>>

\* time.After(refreshRotationGraceWindow) fires first.
WaitTimeout(r) ==
  /\ req[r].pc = "wait"
  /\ now - req[r].since >= Window
  /\ req' = [req EXCEPT ![r] = [@ EXCEPT !.pc = "prepare", !.leader = NoRequest]]
  /\ UNCHANGED <<now, dbVars, memVars, meta, actVars, restarts>>

\* refreshWithGrace, second lookup.
Relookup(r) == req[r].pc = "relookup" /\ Consult(r, "prepare")

\* The members and the client are read (a failure ends the request) and the
\* instant that will stamp both the row and the cache entry is taken.
Prepare(r) ==
  /\ req[r].pc = "prepare"
  /\ \/ req' = [req EXCEPT ![r] = [@ EXCEPT !.pc = "rotate", !.stamp = now]]
     \/ MayFail /\ req' = [req EXCEPT ![r] = [@ EXCEPT !.pc = "failed"]]
  /\ UNCHANGED <<now, dbVars, memVars, meta, actVars, restarts>>

\* Mutant of ConsumeHits: the UPDATE has lost "revoked_at IS NULL".
ConsumeHitsAnyRow(t) == t \in issued

\* UPDATE ... WHERE token = ? AND revoked_at IS NULL hits the row.
ConsumeHits(t) == Live(t)

\* The transaction: insert the successor, revoke the consumed row on the
\* condition that it is not revoked.  On refresh the request is no
\* op.AuthRequest, so the successor's client id stays empty.
RotateRow(r, s) ==
  LET t == req[r].tok
  IN /\ req[r].pc = "rotate"
     /\ ConsumeHits(t)
     /\ s \notin issued \cup LoginToken
     /\ issued' = issued \cup {s}
     /\ row' = [row EXCEPT ![t].revokedAt = req[r].stamp,
                           ![s] = [person |-> row[t].person, client |-> NoClient,
                                   revokedAt |-> 0, expiredAt |-> req[r].stamp + TTL]]
     /\ origin' = [origin EXCEPT ![s] = origin[t]]
     /\ parent' = [parent EXCEPT ![s] = t]
     /\ req' = [req EXCEPT ![r] = [@ EXCEPT !.pc = "remember", !.answer = s]]
     /\ UNCHANGED <<now, memVars, meta, actVars, restarts>>

\* No row was hit: errRefreshTokenReused rolls the insert back.
DetectReuse(r) ==
  /\ req[r].pc = "rotate"
  /\ ~ConsumeHits(req[r].tok)
  /\ req' = [req EXCEPT ![r] = [@ EXCEPT !.pc = "famBegin"]]
  /\ UNCHANGED <<now, dbVars, memVars, meta, actVars, restarts>>

\* Any other error of the transaction.
RotateFails(r) ==
  /\ MayFail
  /\ req[r].pc = "rotate"
  /\ req' = [req EXCEPT ![r] = [@ EXCEPT !.pc = "failed"]]
  /\ UNCHANGED <<now, dbVars, memVars, meta, actVars, restarts>>

\* Mutant of RevokeRows: rows are stamped with the expiry of the new token.
RevokeRowsAtExpiry(S, at) ==
  row' = [t \in Token |-> IF t \in S /\ row[t].revokedAt = 0
                          THEN [row[t] EXCEPT !.revokedAt = at + TTL] ELSE row[t]]

\* Mutant of RevokeRows: the statement is narrowed to rows with a client.
RevokeRowsOfClients(S, at) ==
  row' = [t \in Token |-> IF t \in S /\ row[t].revokedAt = 0 /\ row[t].client # NoClient
                          THEN [row[t] EXCEPT !.revokedAt = at] ELSE row[t]]

\* What a bulk UPDATE with snapshot S does to the rows it finds unrevoked.
RevokeRows(S, at) ==
  row' = [t \in Token |-> IF t \in S /\ row[t].revokedAt = 0
                          THEN [row[t] EXCEPT !.revokedAt = at] ELSE row[t]]

\* History: the grants that have a live token outside the snapshot S when the
\* statement is applied.
Spared(S) == {origin[t] : t \in {u \in issued \ S : Live(u)}}

\* The family revocation is a statement of its own, on the person.
FamilyBegin(r) ==
  /\ req[r].pc = "famBegin"
  /\ req' = [req EXCEPT ![r] = [@ EXCEPT !.pc = "famApply",
                                         !.snap = Rows(row[req[r].tok].person)]]
  /\ UNCHANGED <<now, dbVars, memVars, meta, actVars, restarts>>

\* Its error is only logged: the answer is the same verdict, the rows live on.
FamilyApply(r) ==
  /\ req[r].pc = "famApply"
  /\ \/ /\ RevokeRows(req[r].snap, req[r].stamp)
        /\ req' = [req EXCEPT ![r] = [@ EXCEPT !.pc = "reused", !.spared = Spared(req[r].snap)]]
     \/ /\ MayFail
        /\ req' = [req EXCEPT ![r] = [@ EXCEPT !.pc = "unrevoked"]]
        /\ UNCHANGED row
  /\ UNCHANGED <<now, issued, origin, parent, memVars, meta, actVars, restarts>>

\* rememberRotationGrace purges what has expired and, at the bound, evicts
\* one oldest entry (GraceBounded makes one pass of the loop enough).
Fresh(p)    == {t \in Token : grace[p][t].next # NoToken /\ WithinGrace(grace[p][t].rotatedAt)}
Oldest(p)   == {t \in Fresh(p) : \A u \in Fresh(p) : grace[p][t].rotatedAt <= grace[p][u].rotatedAt}

\* Mutant of Kept: the bound is tested after the insertion it should make room for.
KeptOneTooMany(p) == IF Cardinality(Fresh(p)) <= MaxGrace THEN {Fresh(p)}
                     ELSE {Fresh(p) \ {t} : t \in Oldest(p)}

Kept(p)     == IF Cardinality(Fresh(p)) < MaxGrace THEN {Fresh(p)}
               ELSE {Fresh(p) \ {t} : t \in Oldest(p)}

\* Mutant of Remember: the entry is filed under the new token.
RememberUnderNewToken(r) ==
  LET p == req[r].proc
  IN /\ req[r].pc = "remember"
     /\ grace' = [grace EXCEPT ![p][req[r].answer] =
                    [next |-> req[r].answer, rotatedAt |-> req[r].stamp]]
     /\ req' = [req EXCEPT ![r] = [@ EXCEPT !.pc = "meta"]]
     /\ UNCHANGED <<now, dbVars, inflight, lost, meta, actVars, restarts>>

Remember(r) ==
  LET p == req[r].proc
  IN /\ req[r].pc = "remember"
     /\ \E K \in Kept(p) :
          /\ grace' = [grace EXCEPT ![p] =
               [t \in Token |->
                  IF t = req[r].tok THEN [next |-> req[r].answer, rotatedAt |-> req[r].stamp]
                  ELSE IF t \in K THEN grace[p][t] ELSE NoEntry]]
          /\ lost' = lost \cup (Fresh(p) \ K)
     /\ req' = [req EXCEPT ![r] = [@ EXCEPT !.pc = "meta"]]
     /\ UNCHANGED <<now, dbVars, inflight, meta, actVars, restarts>>

\* storeAccessTokenMeta: an error of Redis is only logged.
StoreMeta(r) ==
  /\ req[r].pc = "meta"
  /\ \/ meta' = meta \cup {r}
     \/ MayFail /\ UNCHANGED meta
  /\ req' = [req EXCEPT ![r] = [@ EXCEPT !.pc = "gate"]]
  /\ UNCHANGED <<now, dbVars, memVars, actVars, restarts>>

\* GetPrivateClaimsFromRequest runs after the rotation: tenantTokenGate, then
\* appAccessTokenGate, which refuses a request without a client.  Whether the
\* tenant is active and the member admitted is other modules' state.
Gate(r) ==
  /\ req[r].pc = "gate"
  /\ \/ /\ EnforceAccess => row[req[r].tok].client # NoClient
        /\ req' = [req EXCEPT ![r] = [@ EXCEPT !.pc = "granted"]]
     \/ /\ MayWithdraw \/ (EnforceAccess /\ row[req[r].tok].client = NoClient)
        /\ req' = [req EXCEPT ![r] = [@ EXCEPT !.pc = "denied"]]
  /\ UNCHANGED <<now, dbVars, memVars, meta, actVars, restarts>>

-----------------------------------------------------------------------------
(* Revocations.                                                            *)

\* TerminateSession, RevokeByPersonID: UPDATE ... WHERE person_id = ? AND
\* revoked_at IS NULL.
LogoutBegin(l, p) ==
  /\ logout[l].pc = "idle"
  /\ logout' = [logout EXCEPT ![l] = [pc |-> "apply", person |-> p, snap |-> Rows(p),
                                        spared |-> {}]]
  /\ UNCHANGED <<now, dbVars, memVars, req, meta, revoker, restarts>>

\* An error of the statement is only logged, by both: the rows live on.
LogoutApply(l) ==
  /\ logout[l].pc = "apply"
  /\ \/ /\ RevokeRows(logout[l].snap, now)
        /\ logout' = [logout EXCEPT ![l] = [@ EXCEPT !.pc = "done",
                                                    !.spared = Spared(logout[l].snap)]]
     \/ /\ MayFail
        /\ logout' = [logout EXCEPT ![l] = [@ EXCEPT !.pc = "failed"]]
        /\ UNCHANGED row
  /\ UNCHANGED <<now, issued, origin, parent, memVars, req, meta, revoker, restarts>>

\* GetRefreshTokenInfo: the row must be live, unexpired and, when it names a
\* client that can be read, belong to the caller.
RevokeCheck(v, t, c) ==
  LET usable == Live(t) /\ ~Expired(t)
      own    == row[t].client \in {c, NoClient}
  IN /\ revoker[v].pc = "idle"
     /\ t \in issued
     /\ \/ /\ usable /\ (own \/ MayFail)
           /\ revoker' = [revoker EXCEPT ![v] = [pc |-> "apply", tok |-> t, client |-> c]]
        \/ /\ ~usable \/ ~own \/ MayFail
           /\ revoker' = [revoker EXCEPT ![v] = [pc |-> "refused", tok |-> t, client |-> c]]
     /\ UNCHANGED <<now, dbVars, memVars, req, meta, logout, restarts>>

\* RevokeToken: UPDATE by id and, when the caller's client can be read, by that
\* client, whether or not the row is revoked already.  Its error is only logged.
RevokeApply(v) ==
  LET t == revoker[v].tok
  IN /\ revoker[v].pc = "apply"
     /\ \/ /\ row[t].client = revoker[v].client \/ MayFail
           /\ row' = [row EXCEPT ![t].revokedAt = now]
           /\ revoker' = [revoker EXCEPT ![v].pc = "done"]
        \/ /\ row[t].client # revoker[v].client
           /\ revoker' = [revoker EXCEPT ![v].pc = "done"]
           /\ UNCHANGED row
        \/ /\ MayFail
           /\ revoker' = [revoker EXCEPT ![v].pc = "failed"]
           /\ UNCHANGED row
     /\ UNCHANGED <<now, issued, origin, parent, memVars, req, meta, logout, restarts>>

\* RevokeByID: the session list revokes one row, on condition; an error is
\* answered as one.
RevokeSession(l, t) ==
  /\ logout[l].pc = "idle"
  /\ Live(t)
  /\ \/ /\ row' = [row EXCEPT ![t].revokedAt = now]
        /\ logout' = [logout EXCEPT ![l] = [pc |-> "done", person |-> row[t].person,
                                            snap |-> {t}, spared |-> {}]]
     \/ /\ MayFail
        /\ logout' = [logout EXCEPT ![l] = [@ EXCEPT !.pc = "failed"]]
        /\ UNCHANGED row
  /\ UNCHANGED <<now, issued, origin, parent, memVars, req, meta, revoker, restarts>>

-----------------------------------------------------------------------------
(* The environment.                                                        *)

\* A process dies: its memory is lost and its requests never answer.
Restart(p) ==
  /\ restarts < MaxRestarts
  /\ restarts' = restarts + 1
  /\ grace' = [grace EXCEPT ![p] = [t \in Token |-> NoEntry]]
  /\ inflight' = [inflight EXCEPT ![p] = [t \in Token |-> NoRequest]]
  /\ lost' = lost \cup Fresh(p)
  /\ req' = [r \in Request |-> IF req[r].proc = p /\ req[r].pc \in Running
                               THEN [req[r] EXCEPT !.pc = "aborted"] ELSE req[r]]
  /\ UNCHANGED <<now, dbVars, meta, actVars>>

Tick == /\ now < MaxTime
        /\ now' = now + 1
        /\ UNCHANGED <<dbVars, memVars, req, meta, actVars, restarts>>

-----------------------------------------------------------------------------
(* Specification.                                                          *)

Rotating(r) == \/ \E s \in Token : RotateRow(r, s)
               \/ DetectReuse(r)
               \/ RotateFails(r)

Serve(r) == \/ Lookup(r) \/ BeginRotation(r) \/ EndRotation(r) \/ WakeUp(r)
            \/ WaitTimeout(r) \/ Relookup(r) \/ Prepare(r) \/ Rotating(r)
            \/ FamilyBegin(r) \/ FamilyApply(r) \/ Remember(r) \/ StoreMeta(r) \/ Gate(r)

Next == \/ \E t \in Token, p \in Person, c \in Client : IssueGrant(t, p, c)
        \/ \E r \in Request, p \in Proc, t \in Token : Arrive(r, p, t)
        \/ \E r \in Request : Serve(r)
        \/ \E l \in Logout, p \in Person : LogoutBegin(l, p)
        \/ \E l \in Logout : LogoutApply(l)
        \/ \E v \in Revoker, t \in Token, c \in Client : RevokeCheck(v, t, c)
        \/ \E v \in Revoker : RevokeApply(v)
        \/ \E l \in Logout, t \in Token : RevokeSession(l, t)
        \/ \E p \in Proc : Restart(p)
        \/ Tick

Spec == Init /\ [][Next]_vars

\* A handler that has been called runs to its end; nobody is obliged to call
\* one, to log out, to restart, or to let time pass.
Fairness == /\ \A r \in Request : WF_vars(Serve(r))
            /\ \A l \in Logout : WF_vars(LogoutApply(l))
            /\ \A v \in Revoker : WF_vars(RevokeApply(v))

FairSpec == Spec /\ Fairness

-----------------------------------------------------------------------------
(* Correctness properties.                                                 *)

TypeOK ==
  /\ now \in 1 .. MaxTime
  /\ issued \subseteq Token
  /\ row \in [Token -> Row]
  /\ origin \in [Token -> Token \cup {NoToken}]
  /\ parent \in [Token -> Token \cup {NoToken}]
  /\ grace \in [Proc -> [Token -> Entry]]
  /\ inflight \in [Proc -> [Token -> Request \cup {NoRequest}]]
  /\ lost \subseteq Token
  /\ req \in [Request -> Req]
  /\ meta \subseteq Request
  /\ logout \in [Logout -> Bulk]
  /\ revoker \in [Revoker -> Rfc7009]
  /\ restarts \in 0 .. MaxRestarts

\* However many requests of however many processes race on a grant, and
\* whatever is revoked meanwhile, the grant never has two usable tokens: the
\* "split" the comment on the rotation transaction sets out to exclude.
OneLivePerGrant ==
  \A t, u \in issued : Live(t) /\ Live(u) /\ origin[t] = origin[u] => t = u

\* A token is exchanged at most once, whether its rotations run in one
\* process, in two, or on both sides of a restart.
SingleSuccessor ==
  \A t, u \in issued : parent[t] # NoToken /\ parent[t] = parent[u] => t = u

\* Whatever path answered it - rotation, replay from the cache, or the wait
\* for another request - a request is answered with the one successor of the
\* token it presented, never with that of another token.
AnswerIsSuccessor ==
  \A r \in Request : req[r].pc = "granted" =>
    req[r].answer \in issued /\ parent[req[r].answer] = req[r].tok

\* The grace cache of a process never outgrows maxRefreshGraceEntries.
GraceBounded ==
  \A p \in Proc : Cardinality({t \in Token : grace[p][t].next # NoToken}) <= MaxGrace

\* An in-flight registration always belongs to a request that is about to
\* remove it: no waiter can be left waiting for a leader that is gone.
InflightHasLeader ==
  \A p \in Proc, t \in Token : inflight[p][t] # NoRequest =>
    LET q == req[inflight[p][t]]
    IN q.pc = "end" /\ q.proc = p /\ q.tok = t

\* A revoking statement that ran - of a reuse verdict, a logout or the session
\* list - has ended the grants it found, and nothing opens them again: no row of
\* its snapshot S is usable, and no other row of their grants, except in a grant
\* whose successor was committed between the snapshot and the write.  (A
\* statement that failed is answered the same way and ends nothing: "unrevoked",
\* "failed".)
Ended(S, spared) ==
  \A t \in issued : Live(t) =>
    /\ t \notin S
    /\ (\E u \in S : origin[u] = origin[t]) => origin[t] \in spared

RevocationReachesSnapshot ==
  /\ \A r \in Request : req[r].pc = "reused" => Ended(req[r].snap, req[r].spared)
  /\ \A l \in Logout : logout[l].pc = "done" => Ended(logout[l].snap, logout[l].spared)

\* The grace window does what it is for when the retry comes after the
\* answer: it is served the successor and never judged a reuse.  (q answered
\* before r arrived; r looked up within the window of q's stamp.)  Only a
\* process that restarted, or had no room, has lost the entry.
SequentialRetryReplayed ==
  \A q, r \in Request :
    (/\ q \in req[r].seen
     /\ req[q].tok = req[r].tok /\ req[q].proc = req[r].proc
     /\ q \in meta /\ req[q].tok \notin lost
     /\ req[r].pc \notin {"lookup", "stale", "expired", "aborted"}
     /\ (req[r].since = 0 \/ req[r].since - req[q].stamp <= Window))
    => req[r].pc \in {"gate", "granted", "denied"} /\ req[r].answer = req[q].answer

\* The inductive invariant behind the three properties above it: what each
\* actor holds names a row, a stamp is never NULL, a replaced token is revoked,
\* and the caches and the answers on their way hold successors.
ActorsNameRows ==
  /\ \A r \in Request : req[r].pc # "idle" => req[r].tok \in issued
  /\ \A v \in Revoker : revoker[v].pc # "idle" => revoker[v].tok \in issued
Stamped ==
  \A r \in Request : req[r].pc \in {"rotate", "remember", "famBegin", "famApply"}
                      => req[r].stamp >= 1
ReplacedIsRevoked ==
  /\ \A t \in issued : /\ origin[t] \in issued
                       /\ parent[t] # NoToken => parent[t] \in issued /\ ~Live(parent[t])
  /\ \A t \in Token \ issued : parent[t] = NoToken
CacheHoldsSuccessors ==
  \A p \in Proc, t \in Token : grace[p][t].next # NoToken =>
    grace[p][t].next \in issued /\ parent[grace[p][t].next] = t
AnswersHoldSuccessors ==
  \A r \in Request : req[r].pc \in {"remember", "meta", "gate", "granted"} =>
    req[r].answer \in issued /\ parent[req[r].answer] = req[r].tok

RotationInv == /\ TypeOK /\ ActorsNameRows /\ Stamped /\ ReplacedIsRevoked
               /\ OneLivePerGrant /\ SingleSuccessor
               /\ CacheHoldsSuccessors /\ AnswersHoldSuccessors

\* A request that was taken up is answered: neither the wait for a leader
\* nor a dead process leaves it hanging.
EveryRequestAnswered ==
  \A r \in Request : req[r].pc \in Running ~> req[r].pc \in Finished

\* The abstract grant: its current token is the live one, if any.
Current == [g \in Token |-> IF \E t \in issued : Live(t) /\ origin[t] = g
                            THEN CHOOSE t \in issued : Live(t) /\ origin[t] = g
                            ELSE NoToken]

Grant == INSTANCE TokenGrant WITH current <- Current

\* Rotation, replay, reuse verdicts and every kind of revocation implement a
\* grant that only moves forward and, once closed, stays closed.
ImplementsTokenGrant == Grant!GrantSpec
=============================================================================
