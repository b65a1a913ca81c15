------------------------------ MODULE AuthCode ------------------------------
(***************************************************************************)
(* Authorization requests, the calls that complete a login on them, and    *)
(* the codes they are exchanged through:                                   *)
(*   backend/iam/auth/core/oidcop/protocol_state_store.go  (Redis values)  *)
(*   backend/iam/auth/service/svcoidc/auth.go, register.go,                *)
(*   change_password.go                                  (the login calls) *)
(* The OpenID library calls the store: its authorize endpoint creates the  *)
(* request, its callback saves a code for a completed request, its token   *)
(* endpoint takes the code, issues tokens and deletes the request.         *)
(*                                                                         *)
(* Grain.  One action is one Redis command or one database transaction     *)
(* with the local computation after it.  CompleteAuthRequest and           *)
(* AssociateSession are a GET and a SET of the whole value, hence two      *)
(* actions each; calls interleave between any two actions, and a call may  *)
(* stop after any of them (Redis down, client gone, process killed).       *)
(*                                                                         *)
(* A Redis key with a lifetime is a record with the instant it expires at; *)
(* the key exists while now < expires.  0 stands for a deleted key.        *)
(***************************************************************************)
EXTENDS Integers

CONSTANTS
  Call,         \* HTTP calls; each is served once
  Request,      \* authorization requests; each id is drawn at random
  Code,         \* authorization codes; each is drawn at random
  Session,      \* SSO sessions; each id is drawn at random
  Person,
  Tenant,
  Membership,   \* the tenants of each person when the run starts
  Temporary,    \* the persons who start with a temporary password
  NoCall, NoRequest, NoCode, NoSession, NoPerson, NoTenant,
  RequestTTL, CodeTTL, SpentTTL,
  MaxTime,      \* bound of the exploration: the clock stops here
  MayHint,      \* may a request come with an id_token_hint or a tenant hint?
  MayRevoke,    \* may administrators reset passwords and persons log out?
  MayStop       \* may a call stop half-way, or a Redis command of a revocation fail?

ASSUME NullAssumption == /\ NoCall \notin Call /\ NoRequest \notin Request
                         /\ NoCode \notin Code /\ NoSession \notin Session
                         /\ NoPerson \notin Person /\ NoTenant \notin Tenant
ASSUME TTLAssumption  == /\ RequestTTL \in Nat \ {0} /\ CodeTTL \in Nat \ {0}
                         /\ SpentTTL \in Nat \ {0} /\ MaxTime \in Nat \ {0}
ASSUME DataAssumption == /\ Membership \in [Person -> SUBSET Tenant]
                         /\ Temporary \subseteq Person
                         /\ MayHint \in BOOLEAN /\ MayRevoke \in BOOLEAN /\ MayStop \in BOOLEAN

VARIABLES
  now,        \* the clock, in units of the lifetimes; starts at 1
  auth,       \* iam:oidc:auth_req:<id>
  code,       \* iam:oidc:auth_code:<code>
  spent,      \* when iam:oidc:auth_code:spent:<code> expires
  created,    \* history: the requests that were ever created
  hinted,     \* history: those created with an id_token_hint
  issued,     \* history: the codes that were ever saved
  call,       \* where every call stands, and its local variables
  owner,      \* the person of every session ever created
  alive,      \* the sessions that can be validated
  index,      \* sso_user_sessions:<person>
  lapsed,     \* history: the live sessions that lost their index entry, or that a
              \* revocation failed to delete
  temporary,  \* the persons with password_status = must_change
  member,     \* the tenants every person may log in to
  proved      \* history: who authenticated on each request

redisVars == <<auth, code, spent>>
pastVars  == <<created, hinted, issued, proved>>
sessVars  == <<owner, alive, index, lapsed>>
dataVars  == <<temporary, member>>
vars == <<now, redisVars, pastVars, call, sessVars, dataVars>>

-----------------------------------------------------------------------------
(* State.                                                                  *)

Gone      == [subject |-> NoPerson, tenant |-> NoTenant, sid |-> NoSession,
              done |-> FALSE, expires |-> 0]
NoEntry   == [req |-> NoRequest, expires |-> 0]
Instant   == 0 .. MaxTime + RequestTTL + CodeTTL + SpentTTL

AuthRequest == [subject : Person \cup {NoPerson}, tenant : Tenant \cup {NoTenant},
                sid : Session \cup {NoSession}, done : BOOLEAN, expires : Instant]

Running == {"verify", "silent", "get", "set", "session", "index", "assocGet", "assocSet", "open",
            "write", "revoke", "delete sessions", "save", "checkSpent", "load", "mark", "issue",
            "delete request"}
Ended   == {"bound", "completed", "coded", "revoked", "unrevoked", "granted", "unanswered", "used",
            "invalid", "denied", "failed"}

NewCall == [pc |-> "idle", req |-> NoRequest, who |-> NoPerson, tenant |-> NoTenant,
            sid |-> NoSession, done |-> FALSE, copy |-> Gone, code |-> NoCode,
            at |-> 0, snap |-> {}, seen |-> {}]

CallRecord == [pc : {"idle"} \cup Running \cup Ended, req : Request \cup {NoRequest},
               who : Person \cup {NoPerson}, tenant : Tenant \cup {NoTenant},
               sid : Session \cup {NoSession}, done : BOOLEAN, copy : AuthRequest,
               code : Code \cup {NoCode}, at : 0 .. MaxTime,
               snap : SUBSET Session, seen : SUBSET Call]

Present(r)   == now < auth[r].expires
CodeLives(c) == now < code[c].expires

\* Tokens were issued to the call, whether or not the answer got out.
Paid(h) == call[h].pc \in {"delete request", "granted", "unanswered"}

\* The calls whose tokens or session were there when a later call began.
Before == {q \in Call : Paid(q) \/ call[q].pc = "completed"}

Step(h, from, rec) == /\ call[h].pc = from
                      /\ call' = [call EXCEPT ![h] = rec]

\* The call ends without touching anything else.
Quit(h, from, pc) == /\ Step(h, from, [call[h] EXCEPT !.pc = pc])
                     /\ UNCHANGED <<now, redisVars, pastVars, sessVars, dataVars>>

Init ==
  /\ now = 1
  /\ auth = [r \in Request |-> Gone]
  /\ code = [c \in Code |-> NoEntry]
  /\ spent = [c \in Code |-> 0]
  /\ created = {} /\ hinted = {} /\ issued = {}
  /\ call = [h \in Call |-> NewCall]
  /\ owner = [s \in Session |-> NoPerson]
  /\ alive = {} /\ lapsed = {}
  /\ index = [p \in Person |-> {}]
  /\ temporary = Temporary
  /\ member = Membership
  /\ proved = [r \in Request |-> {}]

-----------------------------------------------------------------------------
(* The authorize endpoint: CreateAuthRequest.  A tenant hint is stored     *)
(* unchecked; a valid id_token_hint names the person and completes the     *)
(* request at once.                                                        *)

CreateAuthRequest(r, p, t) ==
  /\ r \notin created
  /\ MayHint \/ (p = NoPerson /\ t = NoTenant)
  /\ created' = created \cup {r}
  /\ hinted' = IF p = NoPerson THEN hinted ELSE hinted \cup {r}
  /\ auth' = [auth EXCEPT ![r] = [subject |-> p, tenant |-> t, sid |-> NoSession,
                                  done |-> p # NoPerson, expires |-> now + RequestTTL]]
  /\ UNCHANGED <<now, code, spent, issued, proved, call, sessVars, dataVars>>

-----------------------------------------------------------------------------
(* CompleteLogin: password login.  The request is read first (its tenant   *)
(* is the hint), then the person; what is read decides whether the login   *)
(* completes the request or only binds the person to it.                   *)

LoginBegin(h, r, p) ==
  /\ Step(h, "idle", [NewCall EXCEPT !.pc = "verify", !.req = r, !.who = p, !.copy = auth[r]])
  /\ Present(r)
  /\ UNCHANGED <<now, redisVars, pastVars, sessVars, dataVars>>

\* Mutant of Landing: the hinted tenant is taken unchecked.
LandingTrustsHint(p, hint) ==
  IF hint # NoTenant THEN {hint}
  ELSE {t \in member[p] : member[p] = {t}}

\* The tenants a login may land in without asking: the hinted one when the
\* person belongs to it, or the only one.
Landing(p, hint) ==
  IF hint \in member[p] THEN {hint}
  ELSE {t \in member[p] : member[p] = {t}}

Verify(h) ==
  LET p == call[h].who
      landing == IF p \in temporary THEN {} ELSE Landing(p, call[h].copy.tenant)
  IN /\ call[h].pc = "verify"
     /\ \/ /\ landing = {}
           /\ Step(h, "verify", [call[h] EXCEPT !.pc = "get", !.done = FALSE])
        \/ \E t \in landing :
             Step(h, "verify", [call[h] EXCEPT !.pc = "get", !.done = TRUE, !.tenant = t])
     /\ proved' = [proved EXCEPT ![call[h].req] = @ \cup {p}]
     /\ UNCHANGED <<now, redisVars, created, hinted, issued, sessVars, dataVars>>

(* RegisterPerson: binds a new person, who has no tenant yet, to a request *)
(* nobody has completed.                                                   *)
RegisterPerson(h, r, p) ==
  /\ Step(h, "idle", [NewCall EXCEPT !.pc = "get", !.req = r, !.who = p])
  /\ Present(r) /\ ~auth[r].done
  /\ member[p] = {} /\ p \notin temporary /\ \A q \in Request : p \notin proved[q]
  /\ proved' = [proved EXCEPT ![r] = @ \cup {p}]
  /\ UNCHANGED <<now, redisVars, created, hinted, issued, sessVars, dataVars>>

(* CreateTenant: the bound person without a tenant opens one.  The check   *)
(* and the transaction are two steps.                                      *)
CreateTenantCheck(h, r, t) ==
  LET p == auth[r].subject
  IN /\ Present(r) /\ ~auth[r].done /\ p # NoPerson
     /\ Step(h, "idle", [NewCall EXCEPT !.pc = "open", !.req = r, !.who = p, !.tenant = t])
     /\ member[p] = {}
     /\ UNCHANGED <<now, redisVars, pastVars, sessVars, dataVars>>

CreateTenantCommit(h) ==
  /\ Step(h, "open", [call[h] EXCEPT !.pc = "bound"])
  /\ \A p \in Person : call[h].tenant \notin member[p]
  /\ member' = [member EXCEPT ![call[h].who] = @ \cup {call[h].tenant}]
  /\ UNCHANGED <<now, redisVars, pastVars, sessVars, temporary>>

(* SelectTenant: completes a request a login has bound a person to.        *)
SelectTenant(h, r, t) ==
  LET p == auth[r].subject
  IN /\ Present(r) /\ ~auth[r].done /\ p # NoPerson
     /\ t \in member[p]
     /\ Step(h, "idle", [NewCall EXCEPT !.pc = "get", !.req = r, !.who = p,
                                        !.tenant = t, !.done = TRUE])
     /\ UNCHANGED <<now, redisVars, pastVars, sessVars, dataVars>>

(* CompleteLoginBySession: the session is validated, then the request is   *)
(* read and a tenant chosen.  prompt=login and max_age refuse.  The browser *)
(* has the session id from a login that has answered.                      *)
SilentBegin(h, r, s) ==
  /\ s \in alive /\ \E g \in Call : call[g].pc = "completed" /\ call[g].sid = s
  /\ Step(h, "idle", [NewCall EXCEPT !.pc = "silent", !.req = r, !.sid = s, !.who = owner[s]])
  /\ proved' = [proved EXCEPT ![r] = @ \cup {owner[s]}]
  /\ UNCHANGED <<now, redisVars, created, hinted, issued, sessVars, dataVars>>

SilentTenants(p, hint) == IF hint \in member[p] THEN {hint}
                          ELSE IF member[p] = {} THEN {NoTenant} ELSE member[p]

SilentRead(h) ==
  LET c == call[h]
  IN /\ c.pc = "silent"
     /\ Present(c.req)
     /\ \E t \in SilentTenants(c.who, auth[c.req].tenant) :
          Step(h, "silent", [c EXCEPT !.pc = "get", !.tenant = t, !.done = TRUE])
     /\ UNCHANGED <<now, redisVars, pastVars, sessVars, dataVars>>

-----------------------------------------------------------------------------
(* CompleteAuthRequest and AssociateSession: GET, change, SET with the     *)
(* lifetime that is left.                                                  *)

CompleteGet(h) ==
  /\ call[h].pc = "get" /\ Present(call[h].req)
  /\ Step(h, "get", [call[h] EXCEPT !.pc = "set", !.copy = auth[call[h].req]])
  /\ UNCHANGED <<now, redisVars, pastVars, sessVars, dataVars>>

\* Mutant of Completed: the subject already in the request wins.
CompletedKeepsSubject(c) ==
  [c.copy EXCEPT !.subject = IF @ = NoPerson THEN c.who ELSE @, !.tenant = c.tenant, !.done = c.done]

\* What the SET writes over the copy.
Completed(c) == [c.copy EXCEPT !.subject = c.who, !.tenant = c.tenant, !.done = c.done]

CompleteSet(h) ==
  LET c == call[h]
  IN /\ now < c.copy.expires
     /\ Step(h, "set", [c EXCEPT !.pc = IF ~c.done THEN "bound"
                                        ELSE IF c.sid = NoSession THEN "session" ELSE "assocGet"])
     /\ auth' = [auth EXCEPT ![c.req] = Completed(c)]
     /\ UNCHANGED <<now, code, spent, pastVars, sessVars, dataVars>>

(* CreateSession writes the session, then its index entry; when the second *)
(* fails it takes the session back, if the DEL works.  A failure to create *)
(* or to associate the session is only logged.                             *)
CreateSession(h) ==
  \/ \E s \in {x \in Session : owner[x] = NoPerson} :
       /\ Step(h, "session", [call[h] EXCEPT !.pc = "index", !.sid = s])
       /\ owner' = [owner EXCEPT ![s] = call[h].who]
       /\ alive' = alive \cup {s}
       /\ UNCHANGED <<now, redisVars, pastVars, index, lapsed, dataVars>>
  \/ Quit(h, "session", "completed")

IndexSession(h) ==
  LET c == call[h]
  IN \/ /\ Step(h, "index", [c EXCEPT !.pc = "assocGet"])
        /\ index' = [index EXCEPT ![c.who] = @ \cup {c.sid}]
        /\ UNCHANGED <<now, redisVars, pastVars, owner, alive, lapsed, dataVars>>
     \/ /\ MayStop
        /\ Step(h, "index", [c EXCEPT !.pc = "completed", !.sid = NoSession])
        /\ alive' \in {alive, alive \ {c.sid}}
        /\ UNCHANGED <<now, redisVars, pastVars, owner, index, lapsed, dataVars>>

AssociateGet(h) ==
  LET c == call[h]
  IN /\ c.pc = "assocGet"
     /\ Step(h, "assocGet", IF Present(c.req) THEN [c EXCEPT !.pc = "assocSet", !.copy = auth[c.req]]
                                              ELSE [c EXCEPT !.pc = "completed"])
     /\ UNCHANGED <<now, redisVars, pastVars, sessVars, dataVars>>

AssociateSet(h) ==
  LET c == call[h]
  IN /\ Step(h, "assocSet", [c EXCEPT !.pc = "completed"])
     /\ auth' = IF now < c.copy.expires
                THEN [auth EXCEPT ![c.req] = [c.copy EXCEPT !.sid = c.sid]] ELSE auth
     /\ UNCHANGED <<now, code, spent, pastVars, sessVars, dataVars>>

\* The request has gone: the call answers that the login session is unknown.
Missed(h) ==
  \/ /\ call[h].pc \in {"silent", "get"} /\ ~Present(call[h].req)
     /\ Quit(h, "silent", "failed") \/ Quit(h, "get", "failed")
  \/ /\ call[h].copy.expires <= now
     /\ Quit(h, "set", "failed")
  \/ Quit(h, "silent", "denied")     \* prompt=login, max_age or no admitted tenant

-----------------------------------------------------------------------------
(* ChangePassword of a temporary password, the administrators' reset, and  *)
(* the logouts, which revoke the sessions of the person one command after  *)
(* the other: the index is read, every session it named is deleted, and    *)
(* the index is deleted, whatever it names by then.  Only the first        *)
(* command's failure reaches the caller, who logs it.                      *)

ChangePassword(h, r) ==
  LET p == auth[r].subject
  IN /\ Present(r) /\ p \in temporary
     /\ Step(h, "idle", [NewCall EXCEPT !.pc = "write", !.req = r, !.who = p, !.seen = Before])
     /\ UNCHANGED <<now, redisVars, pastVars, sessVars, dataVars>>

ChangeWrite(h) ==
  /\ Step(h, "write", [call[h] EXCEPT !.pc = "revoke"])
  /\ temporary' = temporary \ {call[h].who}
  /\ UNCHANGED <<now, redisVars, pastVars, sessVars, member>>

ResetPassword(h, p) ==
  /\ MayRevoke
  /\ Step(h, "idle", [NewCall EXCEPT !.pc = "revoke", !.who = p, !.seen = Before])
  /\ temporary' = temporary \cup {p}
  /\ UNCHANGED <<now, redisVars, pastVars, sessVars, member>>

\* A logout, or a person's own change of an ordinary password.
Logout(h, p) ==
  /\ MayRevoke
  /\ Step(h, "idle", [NewCall EXCEPT !.pc = "revoke", !.who = p, !.seen = Before])
  /\ UNCHANGED <<now, redisVars, pastVars, sessVars, dataVars>>

\* Mutant of SessionsOf: only one of the sessions.
OneSessionOf(p) == IF index[p] = {} THEN {} ELSE {CHOOSE s \in index[p] : TRUE}

\* What SMEMBERS answers.
SessionsOf(p) == index[p]

ReadIndex(h) ==
  \/ /\ Step(h, "revoke", [call[h] EXCEPT !.pc = "delete sessions", !.snap = SessionsOf(call[h].who)])
     /\ UNCHANGED <<now, redisVars, pastVars, sessVars, dataVars>>
  \/ MayStop /\ Quit(h, "revoke", "unrevoked")

DeleteSession(h) ==
  \E s \in call[h].snap :
    /\ Step(h, "delete sessions", [call[h] EXCEPT !.snap = @ \ {s}])
    /\ \/ alive' = alive \ {s} /\ UNCHANGED lapsed
       \/ MayStop /\ lapsed' = lapsed \cup ({s} \cap alive) /\ UNCHANGED alive
    /\ UNCHANGED <<now, redisVars, pastVars, owner, index, dataVars>>

\* The live sessions the index of p names, but those of the earlier logins
\* that a revocation by h is to end.
Latecomers(h, p) == {s \in index[p] \cap alive : \A g \in call[h].seen : call[g].sid # s}

DropIndex(h) ==
  LET p == call[h].who
  IN /\ call[h].snap = {}
     /\ Step(h, "delete sessions", [call[h] EXCEPT !.pc = "revoked"])
     /\ \/ index' = [index EXCEPT ![p] = {}] /\ lapsed' = lapsed \cup Latecomers(h, p)
        \/ MayStop /\ UNCHANGED <<index, lapsed>>
     /\ UNCHANGED <<now, redisVars, pastVars, owner, alive, dataVars>>

-----------------------------------------------------------------------------
(* The callback of the authorize endpoint saves a code for a completed     *)
(* request; the token endpoint exchanges it.                               *)

Callback(h, r) ==
  /\ Present(r) /\ auth[r].done
  /\ Step(h, "idle", [NewCall EXCEPT !.pc = "save", !.req = r])
  /\ UNCHANGED <<now, redisVars, pastVars, sessVars, dataVars>>

SaveAuthCode(h) ==
  \E c \in Code \ issued :
    /\ Step(h, "save", [call[h] EXCEPT !.pc = "coded", !.code = c])
    /\ code' = [code EXCEPT ![c] = [req |-> call[h].req, expires |-> now + CodeTTL]]
    /\ issued' = issued \cup {c}
    /\ UNCHANGED <<now, auth, spent, created, hinted, proved, sessVars, dataVars>>

\* Mutant of AfterTake: GET, as consumeAuthCode does when deleteCode is false.
AfterTakeKeeps(c) == code

\* What GETDEL leaves of the code.
AfterTake(c) == [code EXCEPT ![c] = NoEntry]

ConsumeAuthCode(h, c) ==
  /\ c \in issued
  /\ LET begun == [NewCall EXCEPT !.code = c, !.seen = Before]
     IN IF CodeLives(c)
        THEN /\ Step(h, "idle", [begun EXCEPT !.pc = "load", !.req = code[c].req])
             /\ code' = AfterTake(c)
        ELSE /\ Step(h, "idle", [begun EXCEPT !.pc = "checkSpent"])
             /\ UNCHANGED code
  /\ UNCHANGED <<now, auth, spent, pastVars, sessVars, dataVars>>

CheckSpent(h) ==
  /\ call[h].pc = "checkSpent"
  /\ Quit(h, "checkSpent", IF now < spent[call[h].code] THEN "used" ELSE "invalid")

LoadRequest(h) ==
  LET r == call[h].req
  IN /\ call[h].pc = "load"
     /\ Step(h, "load", IF Present(r) /\ auth[r].done
                        THEN [call[h] EXCEPT !.pc = "mark", !.copy = auth[r]]
                        ELSE [call[h] EXCEPT !.pc = "failed"])
     /\ UNCHANGED <<now, redisVars, pastVars, sessVars, dataVars>>

\* Mutant of SpentUntil: as long as a code lives.
SpentUntilCodeExpires == now + CodeTTL

\* How long a spent code is remembered.
SpentUntil == now + SpentTTL

\* The instant of the mark is history: no code reads it.
MarkSpent(h) ==
  /\ Step(h, "mark", [call[h] EXCEPT !.pc = "issue", !.at = now])
  /\ spent' = [spent EXCEPT ![call[h].code] = SpentUntil]
  /\ UNCHANGED <<now, auth, code, pastVars, sessVars, dataVars>>

\* The tokens are issued (module RefreshRotation), or a gate refuses them.
IssueTokens(h) == Quit(h, "issue", "delete request") \/ Quit(h, "issue", "denied")

DeleteAuthRequest(h) ==
  /\ Step(h, "delete request", [call[h] EXCEPT !.pc = "granted"])
  /\ auth' = [auth EXCEPT ![call[h].req] = Gone]
  /\ UNCHANGED <<now, code, spent, pastVars, sessVars, dataVars>>

-----------------------------------------------------------------------------
(* A call stops half-way; a session ends by its lifetime; an index does,   *)
(* which outlives its sessions unless an EXPIRE failed (module SsoLogout   *)
(* has the lifetimes of both); the clock moves.                            *)

Stop(h) ==
  /\ MayStop
  /\ \E pc \in Running : Quit(h, pc, IF Paid(h) THEN "unanswered" ELSE "failed")

EndSession(s) ==
  /\ s \in alive
  /\ alive' = alive \ {s}
  /\ UNCHANGED <<now, redisVars, pastVars, call, owner, index, lapsed, dataVars>>

EndIndex(p) ==
  /\ MayStop /\ index[p] # {}
  /\ index' = [index EXCEPT ![p] = {}]
  /\ lapsed' = lapsed \cup (index[p] \cap alive)
  /\ UNCHANGED <<now, redisVars, pastVars, call, owner, alive, dataVars>>

Tick ==
  /\ now < MaxTime
  /\ now' = now + 1
  /\ UNCHANGED <<redisVars, pastVars, call, sessVars, dataVars>>

LoginCall(h) ==
  \/ \E r \in Request, p \in Person : LoginBegin(h, r, p) \/ RegisterPerson(h, r, p)
  \/ Verify(h)
  \/ \E r \in Request, t \in Tenant : SelectTenant(h, r, t) \/ CreateTenantCheck(h, r, t)
  \/ CreateTenantCommit(h)
  \/ \E r \in created, s \in Session : SilentBegin(h, r, s)
  \/ SilentRead(h)
  \/ CompleteGet(h) \/ CompleteSet(h)
  \/ CreateSession(h) \/ IndexSession(h) \/ AssociateGet(h) \/ AssociateSet(h)
  \/ Missed(h)

PasswordCall(h) ==
  \/ \E r \in Request : ChangePassword(h, r)
  \/ ChangeWrite(h)
  \/ \E p \in Person : ResetPassword(h, p) \/ Logout(h, p)
  \/ ReadIndex(h) \/ DeleteSession(h) \/ DropIndex(h)

CodeCall(h) ==
  \/ \E r \in Request : Callback(h, r)
  \/ SaveAuthCode(h)
  \/ \E c \in Code : ConsumeAuthCode(h, c)
  \/ CheckSpent(h) \/ LoadRequest(h) \/ MarkSpent(h)
  \/ IssueTokens(h) \/ DeleteAuthRequest(h)

Next ==
  \/ \E r \in Request, p \in Person \cup {NoPerson}, t \in Tenant \cup {NoTenant} :
       CreateAuthRequest(r, p, t)
  \/ \E h \in Call : LoginCall(h) \/ PasswordCall(h) \/ CodeCall(h) \/ Stop(h)
  \/ \E s \in Session : EndSession(s)
  \/ \E p \in Person : EndIndex(p)
  \/ Tick

Spec == Init /\ [][Next]_vars

-----------------------------------------------------------------------------
(* Properties.                                                             *)

\* Every variable keeps its type.
TypeOK ==
  /\ now \in 1 .. MaxTime
  /\ auth \in [Request -> AuthRequest]
  /\ code \in [Code -> [req : Request \cup {NoRequest}, expires : Instant]]
  /\ spent \in [Code -> Instant]
  /\ created \subseteq Request /\ hinted \subseteq created /\ issued \subseteq Code
  /\ call \in [Call -> CallRecord]
  /\ owner \in [Session -> Person \cup {NoPerson}]
  /\ alive \subseteq {s \in Session : owner[s] # NoPerson}
  /\ index \in [Person -> SUBSET Session] /\ lapsed \subseteq Session
  /\ temporary \subseteq Person
  /\ member \in [Person -> SUBSET Tenant]
  /\ proved \in [Request -> SUBSET Person]

\* The comment on AuthRequestByCode (RFC 6749, 4.1.2): however many calls
\* present a code at once, at most one of them is ever issued tokens.
CodePaidOnce ==
  \A g, h \in Call : (Paid(g) /\ Paid(h) /\ call[g].code = call[h].code) => g = h

\* checkSpentOrInvalid: for SpentTTL after a code was marked, a call that
\* presents it after tokens were issued for it is told that it was used, never
\* that it is unknown.
UsedCodeIsReported ==
  \A g, h \in Call :
    (/\ g \in call[h].seen /\ call[g].code = call[h].code
     /\ now < call[g].at + SpentTTL)
    => call[h].pc # "invalid"

\* auth.go: whoever races on a request, the person tokens are issued to has
\* authenticated on that very request, by password or by a session that was
\* alive, and is issued them for a tenant of theirs.
GrantIsProved ==
  \A h \in Call : (Paid(h) /\ call[h].req \notin hinted) =>
    LET g == call[h].copy
    IN /\ g.subject \in proved[call[h].req]
       /\ g.tenant \in member[g.subject] \cup {NoTenant}

\* sso.go and tenant.go: a revocation that ran (a new or reset password, a
\* logout) has ended for good every session of the person whose login had
\* answered before it began, but those in lapsed: the sessions that were indexed
\* while another revocation ran, which deleted the index without reading it
\* again, whose DEL failed, or whose index ran out.  A revocation that could
\* not read the index ("unrevoked") has ended nothing.
PasswordEndsSessions ==
  \A g, h \in Call :
    (call[h].pc = "revoked" /\ g \in call[h].seen /\ call[g].sid # NoSession
       /\ owner[call[g].sid] = call[h].who) => call[g].sid \notin alive \ lapsed

-----------------------------------------------------------------------------
(* The inductive invariants behind CodePaidOnce and GrantIsProved.         *)

\* A call that took a code knows the request it stands for.
Took(h, c) == call[h].code = c /\ call[h].req # NoRequest /\ call[h].pc # "coded"

CodesKnown ==
  \A c \in Code : /\ c \notin issued => code[c] = NoEntry
                  /\ code[c].expires # 0 => code[c].req # NoRequest

TakenIsDead == \A h \in Call, c \in Code : Took(h, c) => c \in issued /\ code[c].expires = 0

OneTaker == \A g, h \in Call, c \in Code : (Took(g, c) /\ Took(h, c)) => g = h

\* What a call knows at each place it can stand.
Acting == {"verify", "silent", "get", "set", "session", "index", "assocGet", "assocSet", "open", "write"}
Exchanging == {"load", "mark", "issue", "delete request", "granted", "unanswered"}

Knows(c) ==
  /\ c.pc \in Acting \cup {"revoke", "delete sessions"} => c.who # NoPerson
  /\ c.pc = "index" => c.sid # NoSession
  /\ c.pc \in Acting \cup Exchanging \cup {"save"} => c.req # NoRequest
  /\ c.pc \in Exchanging => c.code # NoCode
  /\ c.pc \in Acting \cup {"idle", "save"} => c.code = NoCode
  /\ c.pc = "open" => c.tenant # NoTenant

CallsSound == \A h \in Call : Knows(call[h])

\* The inductive invariant of the exchange: a code that was taken is deleted
\* and has one taker.
CodeInv == TypeOK /\ CodesKnown /\ TakenIsDead /\ OneTaker /\ CallsSound

\* A value a of request r that is complete names a person; that person
\* authenticated on r, in a tenant of theirs, unless a hint named them.
Proven(a, r) ==
  /\ a.done => a.subject # NoPerson
  /\ (a.subject # NoPerson /\ (r \notin hinted \/ ~a.done)) => a.subject \in proved[r]
  /\ (a.done /\ r \notin hinted) => a.tenant \in member[a.subject] \cup {NoTenant}

\* What a call holds of its request: a proven copy, a login that is proven,
\* and, once it exchanges a code, a completed request.
CallProven(c) ==
  /\ c.req # NoRequest => Proven(c.copy, c.req)
  /\ c.pc \in {"silent", "get", "set"} =>
       /\ c.who \in proved[c.req]
       /\ c.done => c.tenant \in member[c.who] \cup {NoTenant}
  /\ c.pc \in Exchanging \ {"load"} => c.copy.done

\* The inductive invariant of the logins: what Redis holds, and every copy a
\* call is about to write back or to be paid for, is proven.
LoginInv ==
  /\ TypeOK /\ CallsSound
  /\ \A r \in Request : Proven(auth[r], r)
  /\ \A h \in Call : CallProven(call[h])

-----------------------------------------------------------------------------
(* Refinement: the codes are one-time codes.                               *)

Holder(c) == IF \E h \in Call : Took(h, c) THEN CHOOSE h \in Call : Took(h, c) ELSE NoCall

OTC == INSTANCE OneTimeCode WITH
         live   <- {c \in issued : CodeLives(c)},
         dead   <- {c \in issued : ~CodeLives(c)},
         holder <- [c \in Code |-> Holder(c)],
         paid   <- {c \in Code : \E h \in Call : call[h].code = c /\ Paid(h)}

\* AuthRequestByCode (RFC 6749, 4.1.2): with all its races, failures and
\* expiries the store implements one-time codes.
ImplementsOneTimeCode == OTC!CodeSpec
=============================================================================
