----------------------------- MODULE SsoLogout -----------------------------
(***************************************************************************)
(* SSO sessions and the notices of a logout: backend/pkg/sso (sso.go,      *)
(* slo.go) and the worker that delivers the notices                        *)
(* (backend/iam/auth/core/oidcop/logout_worker.go), with the calls that    *)
(* log a person in, register a client, validate and log out.               *)
(*                                                                         *)
(* Grain.  One action is one Redis command.  A session is a key with a     *)
(* lifetime; the index of a person and the registrations of a session are  *)
(* sets with one lifetime each.                                            *)
(***************************************************************************)
EXTENDS Integers, Sequences

CONSTANTS
  Call,         \* HTTP calls; each is served once
  Person,
  Session,      \* session ids; each is drawn at random
  Notice,       \* registrations, one for each access token issued
  Worker,       \* the logout workers of the auth processes
  NoPerson, NoSession, NoNotice,
  SessionTTL, RegTTL,
  JobTTL,       \* logoutJobTTL
  MaxAttempts,  \* logoutMaxAttempts
  MaxTime,      \* bound of the exploration: the clock stops here
  MayFail,      \* may a Redis command fail?
  MayStop       \* may a call or a worker stop half-way?

ASSUME NullAssumption == /\ NoPerson \notin Person /\ NoSession \notin Session
                         /\ NoNotice \notin Notice
ASSUME TTLAssumption  == /\ SessionTTL \in Nat \ {0} /\ RegTTL \in Nat \ {0} /\ JobTTL \in Nat
                         /\ MaxTime \in Nat \ {0} /\ MaxAttempts \in Nat \ {0}
ASSUME FlagAssumption == MayFail \in BOOLEAN /\ MayStop \in BOOLEAN

VARIABLES
  now,       \* the clock; starts at 1
  key,       \* sso_session:<id>: when it expires, 0 when it is gone
  owner,     \* the person of every session ever created
  index,     \* sso_user_sessions:<person>
  reg,       \* slo_reg:<session>
  about,     \* the session of every registration ever made
  queue,     \* slo_queue, oldest first
  call,      \* where every call stands, and its local variables
  worker,    \* where every worker stands
  told,      \* history: the notices that reached their client
  gone,      \* history: the notices that were given up, were too old, or died with a worker
  lapsed     \* history: the live sessions that lost, or outlived, their index entry
             \* by a race or a fault

storeVars == <<key, owner, index, reg, about>>
pastVars  == <<told, gone, lapsed>>
vars      == <<now, storeVars, queue, call, worker, pastVars>>

-----------------------------------------------------------------------------
(* Redis sets: SADD creates a key without a lifetime, EXPIRE of a missing  *)
(* key does nothing.                                                       *)

NoTTL == MaxTime + SessionTTL + RegTTL

NoKey      == [members |-> {}, expires |-> 0]
Members(k) == IF now < k.expires THEN k.members ELSE {}
SAdd(k, x) == [members |-> Members(k) \cup {x},
               expires |-> IF Members(k) = {} THEN NoTTL ELSE k.expires]
SRem(k, x)   == [k EXCEPT !.members = @ \ {x}]
Expire(k, d) == IF Members(k) = {} THEN k ELSE [k EXCEPT !.expires = now + d]

Alive(s) == now < key[s]

Running == {"index", "unindex", "index ttl", "reg ttl", "exists", "extend", "extend index",
            "list", "regs", "push", "revoke", "delete", "drop index"}
Ended   == {"in", "failed", "registered", "active", "inactive", "fail open", "out", "stopped"}
Mode    == {"logout", "end_session", "password"}  \* of the calls that end sessions

NewCall == [pc |-> "idle", mode |-> "none", who |-> NoPerson, sid |-> NoSession,
            todo |-> {}, regs |-> {}, due |-> {}, since |-> 0, timely |-> TRUE,
            clean |-> TRUE, opened |-> {}]

\* The login of the session was answered.
Opened(s) == \E h \in Call : call[h].pc = "in" /\ call[h].sid = s

\* A command of the call failed, and the call went on.
Unclean(c) == [c EXCEPT !.clean = FALSE]

Step(h, from, rec) == call[h].pc = from /\ call' = [call EXCEPT ![h] = rec]

Init ==
  /\ now = 1
  /\ key = [s \in Session |-> 0]
  /\ owner = [s \in Session |-> NoPerson]
  /\ index = [p \in Person |-> NoKey]
  /\ reg = [s \in Session |-> NoKey]
  /\ about = [n \in Notice |-> NoSession]
  /\ queue = <<>>
  /\ call = [h \in Call |-> NewCall]
  /\ worker = [w \in Worker |-> [notice |-> NoNotice, tries |-> 0, sent |-> FALSE]]
  /\ told = {} /\ gone = {} /\ lapsed = {}

-----------------------------------------------------------------------------
(* CreateSession: SET, SADD, EXPIRE.  An error of the second takes the     *)
(* session back; the errors of the other commands are ignored.             *)

CreateSession(h, p, s) ==
  /\ owner[s] = NoPerson
  /\ Step(h, "idle", [NewCall EXCEPT !.pc = "index", !.who = p, !.sid = s])
  /\ key' = [key EXCEPT ![s] = now + SessionTTL]
  /\ owner' = [owner EXCEPT ![s] = p]
  /\ UNCHANGED <<now, index, reg, about, queue, worker, pastVars>>

IndexSession(h) ==
  LET c == call[h]
  IN /\ c.pc = "index"
     /\ \/ /\ Step(h, "index", [c EXCEPT !.pc = "index ttl"])
           /\ index' = [index EXCEPT ![c.who] = SAdd(@, c.sid)]
        \/ /\ MayFail
           /\ Step(h, "index", [c EXCEPT !.pc = "unindex"])
           /\ UNCHANGED index
     /\ UNCHANGED <<now, key, owner, reg, about, queue, worker, pastVars>>

Unindex(h) ==
  /\ \/ /\ Step(h, "unindex", [call[h] EXCEPT !.pc = "failed"])
        /\ key' = [key EXCEPT ![call[h].sid] = 0]
     \/ MayFail /\ Step(h, "unindex", Unclean([call[h] EXCEPT !.pc = "failed"])) /\ UNCHANGED key
  /\ UNCHANGED <<now, owner, index, reg, about, queue, worker, pastVars>>

\* A session that lives without an index entry from here on.
Lapses(s) == IF Alive(s) THEN {s} ELSE {}

IndexTTL(h) ==
  LET c == call[h]
      d == [c EXCEPT !.pc = "in"]
  IN /\ \/ /\ Step(h, "index ttl", d)
           /\ index' = [index EXCEPT ![c.who] = Expire(@, SessionTTL)]
           /\ lapsed' = IF c.sid \in Members(index[c.who]) THEN lapsed ELSE lapsed \cup Lapses(c.sid)
        \/ /\ MayFail
           /\ Step(h, "index ttl", Unclean(d))
           /\ lapsed' = lapsed \cup Lapses(c.sid)
           /\ UNCHANGED index
     /\ UNCHANGED <<now, key, owner, reg, about, queue, worker, told, gone>>

-----------------------------------------------------------------------------
(* Register: the token endpoint, which holds the session id in its request *)
(* or row and does not look whether the session still lives.               *)

Register(h, s, n) ==
  /\ Opened(s) /\ about[n] = NoSession
  /\ Step(h, "idle", [NewCall EXCEPT !.pc = "reg ttl", !.who = owner[s], !.sid = s])
  /\ about' = [about EXCEPT ![n] = s]
  /\ reg' = [reg EXCEPT ![s] = SAdd(@, n)]
  /\ UNCHANGED <<now, key, owner, index, queue, worker, pastVars>>

RegisterTTL(h) ==
  LET c == [call[h] EXCEPT !.pc = "registered", !.sid = NoSession]
  IN /\ \/ /\ Step(h, "reg ttl", c)
           /\ reg' = [reg EXCEPT ![call[h].sid] = Expire(@, RegTTL)]
        \/ MayFail /\ Step(h, "reg ttl", Unclean(c)) /\ UNCHANGED reg
     /\ UNCHANGED <<now, key, owner, index, about, queue, worker, pastVars>>

-----------------------------------------------------------------------------
(* HasActiveSession: the index, then the sessions until one exists, which  *)
(* is renewed together with the index.                                     *)

CheckNext(c, todo) == [c EXCEPT !.todo = todo, !.pc = IF todo = {} THEN "inactive" ELSE "exists"]

HasActiveSession(h, p) ==
  /\ \/ Step(h, "idle", CheckNext([NewCall EXCEPT !.who = p], Members(index[p])))
     \/ MayFail /\ Step(h, "idle", Unclean([NewCall EXCEPT !.who = p, !.pc = "fail open"]))
  /\ UNCHANGED <<now, storeVars, queue, worker, pastVars>>

Exists(h) ==
  LET c == call[h]
  IN /\ \E s \in c.todo :
          \/ Alive(s) /\ Step(h, "exists", [c EXCEPT !.pc = "extend", !.sid = s, !.todo = {}])
          \/ ~Alive(s) /\ Step(h, "exists", CheckNext(c, c.todo \ {s}))
          \/ MayFail /\ Step(h, "exists", CheckNext(Unclean(c), c.todo \ {s}))
     /\ UNCHANGED <<now, storeVars, queue, worker, pastVars>>

\* Mutant of Renewed: SET in place of EXPIRE.
RenewedBySet(s) == now + SessionTTL

\* EXPIRE of a key that was deleted meanwhile does nothing.
Renewed(s) == IF Alive(s) THEN now + SessionTTL ELSE key[s]

Extend(h) ==
  LET c == call[h]
      d == [c EXCEPT !.pc = "extend index"]
  IN /\ \/ Step(h, "extend", d) /\ key' = [key EXCEPT ![c.sid] = Renewed(c.sid)]
        \/ MayFail /\ Step(h, "extend", Unclean(d)) /\ UNCHANGED key
     /\ UNCHANGED <<now, owner, index, reg, about, queue, worker, pastVars>>

\* Mutant of IndexRenewed: the lifetime of the index is set at the login only.
IndexNotRenewed(p) == index[p]

IndexRenewed(p) == Expire(index[p], SessionTTL)

ExtendIndex(h) ==
  LET c == call[h]
      d == [c EXCEPT !.pc = "active", !.sid = NoSession]
  IN /\ \/ /\ Step(h, "extend index", d)
           /\ index' = [index EXCEPT ![c.who] = IndexRenewed(c.who)]
           /\ UNCHANGED lapsed
        \/ /\ MayFail
           /\ Step(h, "extend index", Unclean(d))
           /\ lapsed' = lapsed \cup Lapses(c.sid)
           /\ UNCHANGED index
     /\ UNCHANGED <<now, key, owner, reg, about, queue, worker, told, gone>>

-----------------------------------------------------------------------------
(* The calls that end sessions.  A logout (and RevokePersonSessions, after *)
(* a reset or a forced change of a password) lists the registrations, enqueues the notices and     *)
(* then revokes; end_session revokes first, and then lists by the sid of   *)
(* the id token or by the person; a change of one's own password only      *)
(* revokes.                                                                *)

\* Mutant of First: every mode revokes first; a logout is then over.
FirstRevokes(mode) == "revoke"

First(mode) == IF mode = "logout" THEN "list" ELSE "revoke"

AfterNotices(c) == [c EXCEPT !.regs = {}, !.pc = IF c.mode = "logout" THEN "revoke" ELSE "out"]

AfterRevoke(c) ==
  IF c.mode # "end_session" THEN [c EXCEPT !.pc = "out"]
  ELSE IF c.sid # NoSession THEN [c EXCEPT !.pc = "regs", !.todo = {c.sid}]
  ELSE [c EXCEPT !.pc = "list"]

\* The registrations a logout that begins now can reach.
Due(p) == {n \in Notice : /\ about[n] \in Members(index[p])
                          /\ n \in Members(reg[about[n]])}

Logout(h, p, m, s) ==
  /\ s # NoSession => m = "end_session" /\ owner[s] = p
  /\ Step(h, "idle", [NewCall EXCEPT !.pc = First(m), !.mode = m, !.who = p, !.sid = s,
                                     !.due = Due(p), !.since = now,
                                     !.opened = {x \in Session : owner[x] = p /\ Opened(x)}])
  /\ UNCHANGED <<now, storeVars, queue, worker, pastVars>>

\* What follows the registrations: the notices, if there are any.
AfterRegs(c) == IF c.regs = {} THEN AfterNotices(c) ELSE [c EXCEPT !.pc = "push"]

\* ListByPersonID: the index.  An error leaves the client list empty.
ListSessions(h) ==
  LET c == call[h]
      sessions == Members(index[c.who])
      d == [c EXCEPT !.timely = @ /\ now = c.since]
  IN /\ \/ Step(h, "list", IF sessions = {} THEN AfterNotices(d)
                           ELSE [d EXCEPT !.pc = "regs", !.todo = sessions])
        \/ MayFail /\ Step(h, "list", AfterNotices(Unclean(c)))
     /\ UNCHANGED <<now, storeVars, queue, worker, pastVars>>

\* ListByPersonID, ListBySessionID: the registrations of one session more.
ListRegs(h) ==
  LET c == call[h]
  IN /\ \/ \E s \in c.todo :
             LET d == [c EXCEPT !.regs = @ \cup Members(reg[s]), !.todo = @ \ {s},
                                !.timely = @ /\ now = c.since]
             IN Step(h, "regs", IF d.todo = {} THEN AfterRegs(d) ELSE d)
        \/ MayFail /\ Step(h, "regs", AfterNotices(Unclean([c EXCEPT !.todo = {}])))
     /\ UNCHANGED <<now, storeVars, queue, worker, pastVars>>

\* EnqueueLogout: one LPUSH for each registration; an error is only logged.
Push(h) ==
  LET c == call[h]
      pushed(n, d) == Step(h, "push", AfterRegs([d EXCEPT !.regs = @ \ {n}]))
  IN /\ \E n \in c.regs :
          \/ /\ pushed(n, c)
             /\ queue' = Append(queue, [notice |-> n, at |-> now])
          \/ /\ MayFail
             /\ pushed(n, Unclean(c))
             /\ UNCHANGED queue
     /\ UNCHANGED <<now, storeVars, worker, pastVars>>

\* Mutant of SessionsOf: one of the sessions.
OneSessionOf(p) == IF Members(index[p]) = {} THEN {} ELSE {CHOOSE s \in Members(index[p]) : TRUE}

SessionsOf(p) == Members(index[p])

\* RevokeSessionsByPersonID: the index is read, the sessions it named are
\* deleted one by one, then the index is.
Revoke(h) ==
  LET c == call[h]
      sessions == SessionsOf(c.who)
  IN /\ \/ Step(h, "revoke", [c EXCEPT !.todo = sessions,
                                       !.pc = IF sessions = {} THEN "drop index" ELSE "delete"])
        \/ MayFail /\ Step(h, "revoke", AfterRevoke(Unclean(c)))
     /\ UNCHANGED <<now, storeVars, queue, worker, pastVars>>

DeleteSession(h) ==
  LET c == call[h]
  IN \E s \in c.todo :
       LET d == [c EXCEPT !.todo = @ \ {s}, !.pc = IF c.todo = {s} THEN "drop index" ELSE "delete"]
       IN
       /\ \/ Step(h, "delete", d) /\ key' = [key EXCEPT ![s] = 0]
          \/ MayFail /\ Step(h, "delete", Unclean(d)) /\ UNCHANGED key
       /\ UNCHANGED <<now, owner, index, reg, about, queue, worker, pastVars>>

DropIndex(h) ==
  LET c == call[h]
  IN /\ \/ /\ Step(h, "drop index", AfterRevoke(c))
           /\ index' = [index EXCEPT ![c.who] = NoKey]
           /\ lapsed' = lapsed \cup {s \in Members(index[c.who]) :
                                       Alive(s) /\ (s \notin c.opened \/ ~c.clean)}
        \/ MayFail /\ Step(h, "drop index", AfterRevoke(Unclean(c))) /\ UNCHANGED <<index, lapsed>>
     /\ UNCHANGED <<now, key, owner, reg, about, queue, worker, told, gone>>

-----------------------------------------------------------------------------
(* logoutWorker: BRPOP, the notice with its attempts, and the removal of   *)
(* the registration, whose errors are ignored.  Delete reads the set and   *)
(* removes the one element it finds there; a registration is never made    *)
(* twice, so it is one action.                                             *)

Idle(w) == worker[w].notice = NoNotice
NoJob   == [notice |-> NoNotice, tries |-> 0, sent |-> FALSE]

TooOld(job) == now - job.at > JobTTL

Dequeue(w) ==
  LET job == Head(queue)
  IN /\ Idle(w) /\ queue # <<>>
     /\ queue' = Tail(queue)
     /\ IF TooOld(job)
        THEN gone' = gone \cup {job.notice} /\ UNCHANGED worker
        ELSE worker' = [worker EXCEPT ![w].notice = job.notice] /\ UNCHANGED gone
     /\ UNCHANGED <<now, storeVars, call, told, lapsed>>

SendOK(w) ==
  /\ ~Idle(w) /\ ~worker[w].sent
  /\ worker' = [worker EXCEPT ![w].sent = TRUE]
  /\ told' = told \cup {worker[w].notice}
  /\ UNCHANGED <<now, storeVars, queue, call, gone, lapsed>>

\* Mutant of SendFails: one attempt too many.
SendFailsOnceMore(w) ==
  LET tries == worker[w].tries + 1
  IN /\ ~Idle(w) /\ ~worker[w].sent
     /\ IF tries > MaxAttempts
        THEN worker' = [worker EXCEPT ![w] = NoJob] /\ gone' = gone \cup {worker[w].notice}
        ELSE worker' = [worker EXCEPT ![w].tries = tries] /\ UNCHANGED gone
     /\ UNCHANGED <<now, storeVars, queue, call, told, lapsed>>

SendFails(w) ==
  LET tries == worker[w].tries + 1
  IN /\ ~Idle(w) /\ ~worker[w].sent
     /\ IF tries = MaxAttempts
        THEN worker' = [worker EXCEPT ![w] = NoJob] /\ gone' = gone \cup {worker[w].notice}
        ELSE worker' = [worker EXCEPT ![w].tries = tries] /\ UNCHANGED gone
     /\ UNCHANGED <<now, storeVars, queue, call, told, lapsed>>

Forget(w) ==
  LET n == worker[w].notice
  IN /\ worker[w].sent
     /\ worker' = [worker EXCEPT ![w] = NoJob]
     /\ \/ reg' = [reg EXCEPT ![about[n]] = SRem(@, n)]
        \/ MayFail /\ UNCHANGED reg
     /\ UNCHANGED <<now, key, owner, index, about, queue, call, pastVars>>

-----------------------------------------------------------------------------
(* Stops, and the clock.                                                   *)

StopCall(h) ==
  /\ MayStop /\ call[h].pc \in Running
  /\ call' = [call EXCEPT ![h].pc = "stopped"]
  /\ lapsed' = IF call[h].pc = "extend index" THEN lapsed \cup Lapses(call[h].sid) ELSE lapsed
  /\ UNCHANGED <<now, storeVars, queue, worker, told, gone>>

StopWorker(w) ==
  /\ MayStop /\ ~Idle(w)
  /\ worker' = [worker EXCEPT ![w] = NoJob]
  /\ gone' = gone \cup {worker[w].notice}
  /\ UNCHANGED <<now, storeVars, queue, call, told, lapsed>>

\* The index runs out between the renewal of the session and its own.
RunsOut(s) == \E h \in Call : /\ call[h].pc = "extend index" /\ call[h].sid = s
                              /\ s \notin Members(index[call[h].who])'

Tick == /\ now < MaxTime
        /\ now' = now + 1
        /\ UNCHANGED <<storeVars, queue, call, worker, told, gone>>
        /\ lapsed' = lapsed \cup {s \in Session : Alive(s)' /\ RunsOut(s)}

Serve(h) == \/ IndexSession(h) \/ Unindex(h) \/ IndexTTL(h) \/ RegisterTTL(h)
            \/ Exists(h) \/ Extend(h) \/ ExtendIndex(h)
            \/ ListSessions(h) \/ ListRegs(h) \/ Push(h)
            \/ Revoke(h) \/ DeleteSession(h) \/ DropIndex(h)

Work(w) == Dequeue(w) \/ SendOK(w) \/ SendFails(w) \/ Forget(w)

Next ==
  \/ \E h \in Call, p \in Person, s \in Session : CreateSession(h, p, s)
  \/ \E h \in Call, s \in Session, n \in Notice : Register(h, s, n)
  \/ \E h \in Call, p \in Person : HasActiveSession(h, p)
  \/ \E h \in Call, p \in Person, m \in Mode, s \in Session \cup {NoSession} : Logout(h, p, m, s)
  \/ \E h \in Call : Serve(h) \/ StopCall(h)
  \/ \E w \in Worker : Work(w) \/ StopWorker(w)
  \/ Tick

Spec == Init /\ [][Next]_vars

-----------------------------------------------------------------------------
(* Properties.                                                             *)

Instant == 0 .. NoTTL

\* Types; and nobody is sent a notice more often than MaxAttempts.
TypeOK ==
  /\ now \in 1 .. MaxTime
  /\ key \in [Session -> Instant]
  /\ owner \in [Session -> Person \cup {NoPerson}]
  /\ index \in [Person -> [members : SUBSET Session, expires : Instant]]
  /\ reg \in [Session -> [members : SUBSET Notice, expires : Instant]]
  /\ about \in [Notice -> Session \cup {NoSession}]
  /\ queue \in Seq([notice : Notice, at : Instant])
  /\ call \in [Call -> [pc : {"idle"} \cup Running \cup Ended, mode : Mode \cup {"none"},
                        who : Person \cup {NoPerson}, sid : Session \cup {NoSession},
                        todo : SUBSET Session, regs : SUBSET Notice, due : SUBSET Notice,
                        since : Instant, timely : BOOLEAN,
                        clean : BOOLEAN, opened : SUBSET Session]]
  /\ worker \in [Worker -> [notice : Notice \cup {NoNotice}, tries : 0 .. MaxAttempts - 1,
                            sent : BOOLEAN]]
  /\ told \subseteq Notice /\ gone \subseteq Notice
  /\ lapsed \subseteq Session

\* A session that has ended, by a logout or by its lifetime, is never valid
\* again, although a check that saw it alive may renew it afterwards.
DeadSessionsStayDead ==
  [][\A s \in Session : owner[s] # NoPerson /\ ~Alive(s) => ~Alive(s)']_vars

\* H6: as long as a session can be used to log in silently, the index leads to
\* it, so that a logout of the person can end it - however the lifetimes of
\* several sessions are renewed.  The exceptions are counted in lapsed: a logout
\* that began before the login was answered dropped the index; it ran out before
\* it was renewed; or a command failed.
IndexCoversSessions ==
  \A s \in Session : Alive(s) /\ Opened(s) => s \in Members(index[owner[s]]) \cup lapsed

\* When a logout, an end_session or a password change has ended, every session
\* whose login was answered before it began is over, unless it had lapsed.
LogoutEndsSessions ==
  \A l \in Call : call[l].pc = "out" /\ call[l].clean
                    => \A s \in call[l].opened : ~Alive(s) \/ s \in lapsed

\* Where a notice can be on its way, or has ended.
Accounted(n) == \/ n \in told \cup gone
                \/ \E i \in DOMAIN queue : queue[i].notice = n
                \/ \E w \in Worker : worker[w].notice = n

\* Nothing went wrong in the call, no key of the person expired meanwhile, and
\* no other call ended sessions of the person.
Undisturbed(l) == /\ call[l].clean /\ call[l].timely
                  /\ \A h \in Call \ {l} : call[h].mode # "none" => call[h].who # call[l].who

Announced(l) == \A n \in call[l].due : Accounted(n)

\* A logout announces itself to every client that was registered under a
\* session of the person when it began, whatever logins, registrations, checks
\* and deliveries race with it.
LogoutNotifies ==
  \A l \in Call : call[l].pc = "out" /\ call[l].mode = "logout" /\ Undisturbed(l) => Announced(l)
=============================================================================
