--------------------------- MODULE SsoLogoutProofs ---------------------------
(***************************************************************************)
(* What SsoLogout guarantees for every number of calls, persons, sessions  *)
(* and workers, every lifetime and every fault: a session that has ended   *)
(* is never valid again, the index leads to every session that can still   *)
(* be used, a logout that went well ends the sessions it began with, and a *)
(* logout that nothing disturbed announces itself to every client that was *)
(* registered when it began.                                               *)
(*                                                                         *)
(* DeadStayDead needs the clock and the keys alone.  The others need the   *)
(* inductive invariant SessionInv: the index of a person outlives the      *)
(* sessions it names (Covered), and what a call that ends sessions has     *)
(* read, and not yet deleted, contains every session that is not over      *)
(* (EndOK).  The notices need NotifyInv on top of it: a registration that  *)
(* was there when the logout began is accounted for, or the keys, then the *)
(* list of the call, still lead to it (NoticeOK).                          *)
(***************************************************************************)
EXTENDS SsoLogout, TLAPS

\* The clock and the lifetimes of the sessions.
TimesOK == now \in Nat /\ key \in [Session -> Nat]

\* What a step may do to a session that exists: end it, leave it, or, when it
\* is alive, renew it.
KeysMove ==
  /\ TimesOK'
  /\ now <= now'
  /\ \A s \in Session : owner[s] # NoPerson => key'[s] = key[s] \/ key'[s] = 0 \/ Alive(s)

LEMMA InitTimes == Init => TimesOK
  BY DEF Init, TimesOK

\* The steps that leave clock and sessions alone.
LEMMA Untouched == TimesOK /\ now' = now /\ key' = key => KeysMove
  BY DEF TimesOK, KeysMove

\* The session of a login is a new one.
LEMMA CreateMoves ==
  ASSUME TimesOK, NEW h \in Call, NEW p \in Person, NEW s \in Session, CreateSession(h, p, s)
  PROVE  KeysMove
<1>1. /\ owner[s] = NoPerson /\ now' = now
      /\ key' = [key EXCEPT ![s] = now + SessionTTL]
      /\ now + SessionTTL \in Nat
  BY TTLAssumption DEF CreateSession, TimesOK
<1> QED BY <1>1 DEF TimesOK, KeysMove

\* A key is deleted, or not.
LEMMA DeletionMoves ==
  ASSUME TimesOK, NEW s, now' = now, key' = key \/ key' = [key EXCEPT ![s] = 0]
  PROVE  KeysMove
  BY DEF TimesOK, KeysMove

\* EXPIRE only prolongs the life of a key that is there.
LEMMA ExtendMoves ==
  ASSUME TimesOK, NEW h \in Call, Extend(h)
  PROVE  KeysMove
<1>1. PICK s : s = call[h].sid
  OBVIOUS
<1>2. now' = now /\ (key' = key \/ key' = [key EXCEPT ![s] = Renewed(s)])
  BY <1>1 DEF Extend
<1>3. ASSUME NEW x \in Session
      PROVE  /\ key'[x] \in Nat
             /\ key'[x] = key[x] \/ Alive(x)
  <2>1. key'[x] = key[x] \/ (x = s /\ key'[x] = Renewed(x))
    BY <1>2 DEF TimesOK
  <2>2. Renewed(x) \in Nat /\ (Renewed(x) = key[x] \/ Alive(x))
    BY TTLAssumption DEF Renewed, TimesOK
  <2> QED BY <2>1, <2>2 DEF TimesOK
<1>4. key' \in [Session -> Nat]
  BY <1>2, <1>3 DEF TimesOK
<1> QED BY <1>2, <1>3, <1>4 DEF KeysMove, TimesOK

LEMMA ServeMoves ==
  ASSUME TimesOK, NEW h \in Call, Serve(h)
  PROVE  KeysMove
<1>1. CASE Extend(h)
  BY <1>1, ExtendMoves
<1>2. CASE Unindex(h)
  <2>1. PICK s : s = call[h].sid
    OBVIOUS
  <2> QED BY <1>2, <2>1, DeletionMoves DEF Unindex
<1>3. CASE DeleteSession(h)
  <2>1. PICK s \in call[h].todo : now' = now /\ (key' = key \/ key' = [key EXCEPT ![s] = 0])
    BY <1>3 DEF DeleteSession
  <2> QED BY <2>1, DeletionMoves
<1>4. CASE IndexSession(h) \/ IndexTTL(h) \/ RegisterTTL(h)
  BY <1>4, Untouched DEF IndexSession, IndexTTL, RegisterTTL
<1>5. CASE Exists(h) \/ ExtendIndex(h)
  BY <1>5, Untouched DEF Exists, ExtendIndex, storeVars
<1>6. CASE ListSessions(h) \/ ListRegs(h) \/ Push(h)
  BY <1>6, Untouched DEF ListSessions, ListRegs, Push, storeVars
<1>7. CASE Revoke(h) \/ DropIndex(h)
  BY <1>7, Untouched DEF Revoke, DropIndex, storeVars
<1> QED BY <1>1, <1>2, <1>3, <1>4, <1>5, <1>6, <1>7 DEF Serve

LEMMA NextMoves == TimesOK /\ [Next]_vars => KeysMove
<1> SUFFICES ASSUME TimesOK, [Next]_vars PROVE KeysMove
  OBVIOUS
<1>1. ASSUME NEW h \in Call, NEW p \in Person, NEW s \in Session, CreateSession(h, p, s)
      PROVE  KeysMove
  BY <1>1, CreateMoves
<1>2. ASSUME NEW h \in Call, NEW s \in Session, NEW n \in Notice, Register(h, s, n)
      PROVE  KeysMove
  BY <1>2, Untouched DEF Register
<1>3. ASSUME NEW h \in Call, NEW p \in Person, HasActiveSession(h, p) PROVE KeysMove
  BY <1>3, Untouched DEF HasActiveSession, storeVars
<1>4. ASSUME NEW h \in Call, NEW p \in Person, NEW m \in Mode, NEW s \in Session \cup {NoSession},
             Logout(h, p, m, s)
      PROVE  KeysMove
  BY <1>4, Untouched DEF Logout, storeVars
<1>5. ASSUME NEW h \in Call, Serve(h) \/ StopCall(h) PROVE KeysMove
  BY <1>5, ServeMoves, Untouched DEF StopCall, storeVars
<1>6. ASSUME NEW w \in Worker, Work(w) \/ StopWorker(w) PROVE KeysMove
  <2>1. now' = now /\ key' = key
    BY <1>6 DEF Work, Dequeue, SendOK, SendFails, Forget, StopWorker, storeVars
  <2> QED BY <2>1, Untouched
<1>7. CASE Tick
  BY <1>7 DEF Tick, storeVars, TimesOK, KeysMove
<1>8. CASE UNCHANGED vars
  BY <1>8, Untouched DEF vars, storeVars
<1> QED BY <1>1, <1>2, <1>3, <1>4, <1>5, <1>6, <1>7, <1>8 DEF Next

\* A session that has ended, by a logout or by its lifetime, is never valid
\* again: a login draws a new id, and EXPIRE does not bring a key back
\* (CreateSession, HasActiveSession and RevokeSessionsByPersonID, sso.go).
THEOREM DeadStayDead == Spec => DeadSessionsStayDead
<1>1. TimesOK /\ [Next]_vars => TimesOK'
  BY NextMoves DEF KeysMove
<1>2. Spec => []TimesOK
  BY <1>1, InitTimes, PTL DEF Spec
<1>3. TimesOK /\ [Next]_vars
        => [\A s \in Session : owner[s] # NoPerson /\ ~Alive(s) => ~Alive(s)']_vars
  <2> SUFFICES ASSUME TimesOK, [Next]_vars,
                      NEW s \in Session, owner[s] # NoPerson, ~Alive(s)
               PROVE  ~Alive(s)'
    OBVIOUS
  <2>1. KeysMove
    BY NextMoves
  <2>2. key'[s] = key[s] \/ key'[s] = 0
    BY <2>1 DEF KeysMove
  <2> QED BY <2>1, <2>2 DEF KeysMove, TimesOK, Alive
<1> QED BY <1>2, <1>3, PTL DEF Spec, DeadSessionsStayDead

-----------------------------------------------------------------------------
(* The inductive invariant of the sessions.                                *)

CallRec == [pc : {"idle"} \cup Running \cup Ended, mode : Mode \cup {"none"},
            who : Person \cup {NoPerson}, sid : Session \cup {NoSession},
            todo : SUBSET Session, regs : SUBSET Notice, due : SUBSET Notice,
            since : Instant, timely : BOOLEAN,
            clean : BOOLEAN, opened : SUBSET Session]
WorkerRec == [notice : Notice \cup {NoNotice}, tries : 0 .. MaxAttempts - 1, sent : BOOLEAN]

IndexRec == [members : SUBSET Session, expires : Instant]
RegRec   == [members : SUBSET Notice, expires : Instant]

StoreTyped ==
  /\ now \in 1 .. MaxTime
  /\ key \in [Session -> Instant] /\ owner \in [Session -> Person \cup {NoPerson}]
  /\ index \in [Person -> IndexRec] /\ reg \in [Session -> RegRec]
  /\ about \in [Notice -> Session \cup {NoSession}]
  /\ queue \in Seq([notice : Notice, at : Instant])
  /\ told \subseteq Notice /\ gone \subseteq Notice /\ lapsed \subseteq Session

\* Lifetimes start now; the index of a person names the person's sessions.
StoreOK ==
  /\ StoreTyped
  /\ \A s \in Session : key[s] <= now + SessionTTL
  /\ \A p \in Person : \A s \in index[p].members : owner[s] = p

\* The calls that hold a session hold one of their person.
HoldOK(c, o) ==
  /\ c.pc \in {"index", "unindex", "index ttl", "in", "extend", "extend index"}
       => c.sid \in Session /\ c.who \in Person /\ o[c.sid] = c.who
  /\ c.pc = "exists" => c.who \in Person /\ \A s \in c.todo : o[s] = c.who
  /\ c.mode # "none" => c.who \in Person
  /\ c.mode = "none" => c.opened = {}
  /\ c.pc \in {"list", "regs", "push"} => c.mode \in {"logout", "end_session"}
  /\ c.pc \in {"revoke", "delete", "drop index"} => c.mode # "none"
  /\ \A s \in c.opened : o[s] = c.who

\* The sessions that are over, or have lapsed; those whose login was answered.
Over == {s \in Session : ~Alive(s) \/ s \in lapsed}
Op   == {s \in Session : Opened(s)}

\* The call has deleted the sessions it found.
Past(c) == \/ c.pc \in {"drop index", "out"}
           \/ c.mode = "end_session" /\ c.pc \in {"list", "regs", "push"}

\* What a call that ends sessions has achieved so far.
EndOK(c, over, op) ==
  /\ c.opened \subseteq op
  /\ c.clean /\ c.pc = "delete" => c.opened \subseteq over \cup c.todo
  /\ c.clean /\ Past(c) => c.opened \subseteq over

CallsOK == /\ call \in [Call -> CallRec]
           /\ \A h \in Call : HoldOK(call[h], owner) /\ EndOK(call[h], Over, Op)

\* The session was renewed and its index is about to be.
Renewing(s) == \E h \in Call : call[h].pc = "extend index" /\ call[h].sid = s

\* The index of its person leads to the session, and lasts as long as it.
CoveredBy(s) == /\ now < index[owner[s]].expires /\ s \in index[owner[s]].members
                /\ key[s] <= index[owner[s]].expires \/ Renewing(s)

Covered == \A s \in Session : Alive(s) /\ Opened(s) /\ s \notin lapsed => CoveredBy(s)

SessionInv == StoreOK /\ worker \in [Worker -> WorkerRec] /\ CallsOK /\ Covered

LEMMA Recorded ==
  SessionInv => \A h \in Call : /\ call[h] \in CallRec /\ HoldOK(call[h], owner)
                                /\ EndOK(call[h], Over, Op)
  BY DEF SessionInv, CallsOK

LEMMA Times == SessionInv => TimesOK
<1> SUFFICES ASSUME SessionInv PROVE TimesOK
  OBVIOUS
<1>1. now \in 1 .. MaxTime /\ key \in [Session -> Instant]
  BY DEF SessionInv, StoreOK, StoreTyped
<1>2. \A i \in Instant : i \in Nat
  BY DEF Instant
<1>3. now \in Nat
  BY <1>1
<1>4. key \in [Session -> Nat]
  BY <1>1, <1>2
<1> QED BY <1>3, <1>4 DEF TimesOK

\* A lifetime that starts now is an instant.
LEMMA Lifetimes ==
  ASSUME NEW n \in 1 .. MaxTime
  PROVE  /\ n + SessionTTL \in Instant /\ n + RegTTL \in Instant /\ n \in Instant
         /\ NoTTL \in Instant /\ 0 \in Instant
         /\ n + SessionTTL <= NoTTL /\ n < n + SessionTTL
  BY TTLAssumption DEF Instant, NoTTL

LEMMA InitHolds == Init => SessionInv
<1> SUFFICES ASSUME Init PROVE SessionInv
  OBVIOUS
<1>1. 1 \in 1 .. MaxTime /\ 0 \in Instant /\ 0 <= 1 + SessionTTL
  BY TTLAssumption DEF Instant, NoTTL
<1>2. NoKey \in IndexRec /\ NoKey \in RegRec /\ NoKey.members = {}
  BY <1>1 DEF NoKey, IndexRec, RegRec
<1>3. StoreOK
  BY <1>1, <1>2 DEF Init, StoreOK, StoreTyped
<1>4. NewCall \in CallRec /\ NewCall.pc = "idle" /\ NewCall.mode = "none" /\ NewCall.opened = {}
  BY <1>1 DEF NewCall, CallRec, Running, Ended
<1>5. CallsOK
  BY <1>4 DEF Init, CallsOK, HoldOK, EndOK, Past
<1>6. worker \in [Worker -> WorkerRec]
  <2>1. 0 \in 0 .. MaxAttempts - 1
    BY TTLAssumption
  <2> QED BY <2>1 DEF Init, WorkerRec
<1>7. Covered
  BY <1>4 DEF Init, Covered, Opened
<1> QED BY <1>3, <1>5, <1>6, <1>7 DEF SessionInv

-----------------------------------------------------------------------------
(* Steps of one call.                                                      *)

\* What every step does: sessions that are over stay over, owners stay.
Onward == KeysMove /\ lapsed \subseteq lapsed' /\ \A s \in Session : owner[s] \in Person => owner'[s] = owner[s]

\* A sound record stays sound.
LEMMA StaysSound ==
  ASSUME SessionInv, Onward, Op \subseteq Op', NEW h \in Call
  PROVE  HoldOK(call[h], owner') /\ EndOK(call[h], Over', Op')
<1>1. call[h] \in CallRec /\ HoldOK(call[h], owner) /\ EndOK(call[h], Over, Op)
  BY Recorded
<1>2. call[h].todo \subseteq Session /\ call[h].opened \subseteq Session
  BY <1>1 DEF CallRec
<1>3. HoldOK(call[h], owner')
  BY <1>1, <1>2 DEF HoldOK, Onward
<1>4. \A s \in call[h].opened : s \in Over => s \in Over'
  <2> SUFFICES ASSUME NEW s \in call[h].opened, s \in Over PROVE s \in Over'
    OBVIOUS
  <2>1. s \in Session /\ owner[s] \in Person
    BY <1>1, <1>2 DEF HoldOK
  <2>2. owner[s] # NoPerson
    BY <2>1, NullAssumption
  <2>3. ~Alive(s) => ~Alive(s)'
    BY <2>1, <2>2, Times DEF Onward, KeysMove, TimesOK, Alive
  <2> QED BY <2>1, <2>3 DEF Over, Onward
<1>5. EndOK(call[h], Over', Op')
  BY <1>1, <1>4 DEF EndOK
<1> QED BY <1>3, <1>5

\* A step of one call leaves the logins that were answered.
LEMMA StillOpen ==
  ASSUME CallsOK, NEW h \in Call, NEW rec \in CallRec, call' = [call EXCEPT ![h] = rec],
         call[h].pc # "in"
  PROVE  Op \subseteq Op'
  BY DEF CallsOK, Op, Opened

LEMMA CallStep ==
  ASSUME SessionInv, Onward, NEW h \in Call, NEW rec \in CallRec,
         call' = [call EXCEPT ![h] = rec], call[h].pc # "in",
         HoldOK(rec, owner'), EndOK(rec, Over', Op')
  PROVE  CallsOK'
<1>1. Op \subseteq Op'
  BY StillOpen DEF SessionInv
<1>2. \A x \in Call : HoldOK(call[x], owner') /\ EndOK(call[x], Over', Op')
  BY <1>1, StaysSound
<1>3. \A x \in Call : call'[x] = IF x = h THEN rec ELSE call[x]
  BY DEF SessionInv, CallsOK
<1>4. call' \in [Call -> CallRec]
  BY DEF SessionInv, CallsOK
<1> QED BY <1>2, <1>3, <1>4 DEF CallsOK

\* The sessions and the indexes are not touched.
LEMMA CoveredStays ==
  ASSUME SessionInv, NEW h \in Call, NEW rec \in CallRec,
         call' = [call EXCEPT ![h] = rec], call[h].pc # "extend index", rec.pc # "in",
         UNCHANGED <<now, key, owner, index, lapsed>>
  PROVE  Covered'
<1>1. \A x \in Call : call'[x] = IF x = h THEN rec ELSE call[x]
  BY DEF SessionInv, CallsOK
<1>2. \A s \in Session : Opened(s)' => Opened(s)
  BY <1>1 DEF Opened
<1>3. \A s \in Session : Renewing(s) => Renewing(s)'
  BY <1>1 DEF Renewing
<1> SUFFICES ASSUME NEW s \in Session, Alive(s)', Opened(s)', s \notin lapsed'
             PROVE  CoveredBy(s)'
  BY DEF Covered
<1>4. CoveredBy(s)
  BY <1>2 DEF SessionInv, Covered, Alive
<1> QED BY <1>3, <1>4 DEF CoveredBy

LEMMA StoreStays ==
  ASSUME StoreOK, StoreTyped', UNCHANGED <<now, key, owner, index>>
  PROVE  StoreOK'
  BY DEF StoreOK

\* A step of one call that touches neither sessions nor indexes.
LEMMA QuietCall ==
  ASSUME SessionInv, NEW h \in Call, NEW rec \in CallRec,
         call' = [call EXCEPT ![h] = rec],
         call[h].pc \notin {"in", "extend index"}, rec.pc # "in",
         HoldOK(rec, owner), EndOK(rec, Over, Op),
         StoreTyped', UNCHANGED <<now, key, owner, index, lapsed, worker>>
  PROVE  SessionInv'
<1>1. Onward
  BY Times, Untouched DEF Onward
<1>2. Over' = Over
  BY DEF Over, Alive
<1>3. Op \subseteq Op'
  BY StillOpen DEF SessionInv
<1>4. EndOK(rec, Over', Op')
  BY <1>2, <1>3 DEF EndOK
<1>5. CallsOK'
  BY <1>1, <1>4, CallStep
<1>6. Covered'
  BY CoveredStays
<1>7. StoreOK'
  BY StoreStays DEF SessionInv
<1> QED BY <1>5, <1>6, <1>7 DEF SessionInv

\* A record that says nothing about ending sessions, and holds none.
LEMMA Idling ==
  ASSUME NEW c, NEW o, NEW over, NEW op, c.opened = {}, c.mode = "none",
         c.pc \notin {"index", "unindex", "index ttl", "in", "exists", "extend", "extend index",
                      "list", "regs", "push", "revoke", "delete", "drop index"}
  PROVE  HoldOK(c, o) /\ EndOK(c, over, op)
  BY DEF HoldOK, EndOK

\* The record of a call that begins.
LEMMA NewCallTyped ==
  /\ NewCall \in CallRec
  /\ NewCall.mode = "none" /\ NewCall.opened = {} /\ NewCall.pc = "idle"
<1>1. 0 \in Instant
  BY TTLAssumption DEF Instant, NoTTL
<1> QED BY <1>1 DEF NewCall, CallRec

LEMMA SAddTyped ==
  ASSUME NEW S, NEW k \in [members : SUBSET S, expires : Instant], NEW x \in S, StoreTyped
  PROVE  SAdd(k, x) \in [members : SUBSET S, expires : Instant]
<1>1. NoTTL \in Instant
  BY Lifetimes DEF StoreTyped
<1> QED BY <1>1 DEF SAdd, Members

LEMMA ExpireTyped ==
  ASSUME NEW S, NEW k \in [members : SUBSET S, expires : Instant], NEW d \in {SessionTTL, RegTTL},
         StoreTyped
  PROVE  /\ Expire(k, d) \in [members : SUBSET S, expires : Instant]
         /\ Expire(k, d).members = k.members
         /\ Members(k) # {} => Expire(k, d).expires = now + d
<1>1. now + d \in Instant
  BY Lifetimes DEF StoreTyped
<1> QED BY <1>1 DEF Expire

LEMMA RegisterPreserves ==
  ASSUME SessionInv, NEW h \in Call, NEW s \in Session, NEW n \in Notice, Register(h, s, n)
  PROVE  SessionInv'
<1>1. PICK rec : rec = [NewCall EXCEPT !.pc = "reg ttl", !.who = owner[s], !.sid = s]
  OBVIOUS
<1>2. call[h].pc = "idle" /\ call' = [call EXCEPT ![h] = rec]
  BY <1>1 DEF Register, Step
<1>3. owner[s] \in Person \cup {NoPerson}
  BY DEF SessionInv, StoreOK, StoreTyped
<1>4. rec \in CallRec /\ rec.pc = "reg ttl" /\ rec.mode = "none" /\ rec.opened = {}
  BY <1>1, <1>3, NewCallTyped DEF CallRec, Running
<1>5. HoldOK(rec, owner) /\ EndOK(rec, Over, Op)
  BY <1>4, Idling
<1>6. StoreTyped'
  <2>1. StoreTyped
    BY DEF SessionInv, StoreOK
  <2>2. SAdd(reg[s], n) \in RegRec
    BY <2>1, SAddTyped DEF StoreTyped, RegRec
  <2>3. reg' \in [Session -> RegRec] /\ about' \in [Notice -> Session \cup {NoSession}]
    BY <2>1, <2>2 DEF Register, StoreTyped
  <2> QED BY <2>1, <2>3 DEF Register, StoreTyped, pastVars
<1> QED BY <1>2, <1>4, <1>5, <1>6, QuietCall DEF Register, pastVars

LEMMA RegisterTTLPreserves ==
  ASSUME SessionInv, NEW h \in Call, RegisterTTL(h)
  PROVE  SessionInv'
<1>1. PICK rec \in {[call[h] EXCEPT !.pc = "registered", !.sid = NoSession],
                    Unclean([call[h] EXCEPT !.pc = "registered", !.sid = NoSession])} :
        /\ call[h].pc = "reg ttl" /\ call' = [call EXCEPT ![h] = rec]
        /\ reg' = reg \/ reg' = [reg EXCEPT ![call[h].sid] = Expire(@, RegTTL)]
  BY DEF RegisterTTL, Step
<1>2. /\ rec \in CallRec /\ rec.pc = "registered" /\ rec.mode = call[h].mode
      /\ rec.opened = call[h].opened /\ rec.who = call[h].who
  BY <1>1, Recorded DEF CallRec, Ended, Unclean
<1>3. HoldOK(rec, owner) /\ EndOK(rec, Over, Op)
  <2>1. HoldOK(call[h], owner) /\ EndOK(call[h], Over, Op)
    BY Recorded
  <2> QED BY <1>2, <2>1 DEF HoldOK, EndOK, Past
<1>4. StoreTyped'
  <2>1. StoreTyped
    BY DEF SessionInv, StoreOK
  <2>2. \A s \in Session : Expire(reg[s], RegTTL) \in RegRec
    BY <2>1, ExpireTyped DEF StoreTyped, RegRec
  <2>3. reg' \in [Session -> RegRec]
    <3>1. CASE reg' = reg
      BY <2>1, <3>1 DEF StoreTyped
    <3>2. CASE reg' = [reg EXCEPT ![call[h].sid] = Expire(@, RegTTL)]
      <4>1. PICK s : s = call[h].sid
        OBVIOUS
      <4>2. reg \in [Session -> RegRec]
        BY <2>1 DEF StoreTyped
      <4> HIDE DEF RegRec
      <4>3. \A x \in Session : reg'[x] = IF x = s THEN Expire(reg[x], RegTTL) ELSE reg[x]
        BY <3>2, <4>1, <4>2
      <4>4. reg' = [x \in Session |-> reg'[x]]
        BY <3>2, <4>2
      <4> QED BY <2>2, <4>2, <4>3, <4>4
    <3> QED BY <1>1, <3>1, <3>2
  <2> QED BY <2>1, <2>3 DEF RegisterTTL, StoreTyped, pastVars
<1> QED BY <1>1, <1>2, <1>3, <1>4, QuietCall DEF RegisterTTL, pastVars

-----------------------------------------------------------------------------
(* Checks.                                                                 *)

LEMMA StoreTypedStays ==
  ASSUME SessionInv, UNCHANGED <<now, storeVars, queue, pastVars>>
  PROVE  StoreTyped'
  BY DEF SessionInv, StoreOK, StoreTyped, storeVars, pastVars

\* A call that touches nothing but its own record.
LEMMA OwnRecord ==
  ASSUME SessionInv, NEW h \in Call, NEW rec \in CallRec,
         call' = [call EXCEPT ![h] = rec],
         call[h].pc \notin {"in", "extend index"}, rec.pc # "in",
         HoldOK(rec, owner), EndOK(rec, Over, Op),
         UNCHANGED <<now, storeVars, queue, worker, pastVars>>
  PROVE  SessionInv'
<1>1. UNCHANGED <<now, key, owner, index, lapsed, worker>>
  BY DEF storeVars, pastVars
<1>2. StoreTyped'
  BY StoreTypedStays
<1> QED BY <1>1, <1>2, QuietCall

LEMMA UncleanRecord ==
  ASSUME NEW t \in CallRec
  PROVE  /\ Unclean(t) \in CallRec /\ ~Unclean(t).clean
         /\ Unclean(t).pc = t.pc /\ Unclean(t).mode = t.mode /\ Unclean(t).who = t.who
         /\ Unclean(t).sid = t.sid /\ Unclean(t).todo = t.todo /\ Unclean(t).opened = t.opened
  BY DEF Unclean, CallRec

LEMMA CheckNextRecord ==
  ASSUME NEW t \in CallRec, NEW todo \in SUBSET Session
  PROVE  /\ CheckNext(t, todo) \in CallRec
         /\ CheckNext(t, todo).pc \in {"inactive", "exists"} /\ CheckNext(t, todo).todo = todo
         /\ CheckNext(t, todo).mode = t.mode /\ CheckNext(t, todo).who = t.who
         /\ CheckNext(t, todo).opened = t.opened
<1> DEFINE p == IF todo = {} THEN "inactive" ELSE "exists"
<1>1. p \in {"inactive", "exists"} /\ p \in Running \cup Ended
  BY DEF Running, Ended
<1>2. CheckNext(t, todo) = [t EXCEPT !.todo = todo, !.pc = p]
  BY DEF CheckNext
<1> HIDE DEF p
<1> QED BY <1>1, <1>2 DEF CallRec

\* The members of an index, while it lasts.
LEMMA IndexMembers ==
  ASSUME SessionInv, NEW p \in Person
  PROVE  /\ Members(index[p]) \subseteq Session
         /\ \A s \in Members(index[p]) : s \in index[p].members /\ owner[s] = p
<1>1. index[p] \in IndexRec /\ \A s \in index[p].members : owner[s] = p
  BY DEF SessionInv, StoreOK, StoreTyped
<1> QED BY <1>1 DEF Members, IndexRec

LEMMA HasActiveSessionPreserves ==
  ASSUME SessionInv, NEW h \in Call, NEW p \in Person, HasActiveSession(h, p)
  PROVE  SessionInv'
<1>1. PICK t : t = [NewCall EXCEPT !.who = p]
  OBVIOUS
<1>2. t \in CallRec /\ t.who = p /\ t.mode = "none" /\ t.opened = {}
  BY <1>1, NewCallTyped DEF CallRec
<1>3. PICK todo \in SUBSET Session : todo = Members(index[p]) /\ \A s \in todo : owner[s] = p
  BY IndexMembers
<1>4. CASE Step(h, "idle", CheckNext([NewCall EXCEPT !.who = p], Members(index[p])))
  <2>1. PICK rec : rec = CheckNext(t, todo)
    OBVIOUS
  <2>2. call[h].pc = "idle" /\ call' = [call EXCEPT ![h] = rec]
    BY <1>1, <1>3, <1>4, <2>1 DEF Step
  <2>3. /\ rec \in CallRec /\ rec.pc \in {"inactive", "exists"} /\ rec.todo = todo
        /\ rec.mode = "none" /\ rec.who = p /\ rec.opened = {}
    BY <1>2, <2>1, CheckNextRecord
  <2>4. HoldOK(rec, owner) /\ EndOK(rec, Over, Op)
    BY <1>3, <2>3 DEF HoldOK, EndOK
  <2> QED BY <2>2, <2>3, <2>4, OwnRecord DEF HasActiveSession
<1>5. CASE Step(h, "idle", Unclean([NewCall EXCEPT !.who = p, !.pc = "fail open"]))
  <2>1. PICK u : u = [NewCall EXCEPT !.who = p, !.pc = "fail open"]
    OBVIOUS
  <2>2. u \in CallRec /\ u.pc = "fail open" /\ u.mode = "none" /\ u.opened = {}
    BY <2>1, NewCallTyped DEF CallRec, Ended
  <2>3. PICK rec : rec = Unclean(u)
    OBVIOUS
  <2>4. rec \in CallRec /\ rec.pc = "fail open" /\ rec.mode = "none" /\ rec.opened = {}
    BY <2>2, <2>3, UncleanRecord
  <2>5. call[h].pc = "idle" /\ call' = [call EXCEPT ![h] = rec]
    BY <1>5, <2>1, <2>3 DEF Step
  <2>6. HoldOK(rec, owner) /\ EndOK(rec, Over, Op)
    BY <2>4, Idling
  <2> QED BY <2>4, <2>5, <2>6, OwnRecord DEF HasActiveSession
<1> QED BY <1>4, <1>5 DEF HasActiveSession

LEMMA ExistsPreserves ==
  ASSUME SessionInv, NEW h \in Call, Exists(h)
  PROVE  SessionInv'
<1>1. PICK c : c = call[h]
  OBVIOUS
<1>2. c \in CallRec /\ HoldOK(c, owner) /\ EndOK(c, Over, Op)
  BY <1>1, Recorded
<1>3. PICK s \in c.todo :
        \/ Alive(s) /\ Step(h, "exists", [c EXCEPT !.pc = "extend", !.sid = s, !.todo = {}])
        \/ ~Alive(s) /\ Step(h, "exists", CheckNext(c, c.todo \ {s}))
        \/ MayFail /\ Step(h, "exists", CheckNext(Unclean(c), c.todo \ {s}))
  BY <1>1 DEF Exists
<1>4. /\ c.pc = "exists" /\ c.who \in Person /\ \A x \in c.todo : owner[x] = c.who
      /\ s \in Session /\ c.todo \ {s} \in SUBSET Session
  BY <1>1, <1>2, <1>3 DEF Step, HoldOK, CallRec
<1>5. CASE Step(h, "exists", [c EXCEPT !.pc = "extend", !.sid = s, !.todo = {}])
  <2>1. PICK rec : rec = [c EXCEPT !.pc = "extend", !.sid = s, !.todo = {}]
    OBVIOUS
  <2>2. /\ rec \in CallRec /\ rec.pc = "extend" /\ rec.sid = s /\ rec.mode = c.mode
        /\ rec.who = c.who /\ rec.opened = c.opened
    BY <1>2, <1>4, <2>1 DEF CallRec, Running
  <2>3. HoldOK(rec, owner) /\ EndOK(rec, Over, Op)
    BY <1>2, <1>4, <2>2 DEF HoldOK, EndOK, Past
  <2>4. call' = [call EXCEPT ![h] = rec]
    BY <1>5, <2>1 DEF Step
  <2> QED BY <1>1, <1>4, <2>2, <2>3, <2>4, OwnRecord DEF Exists
<1>6. CASE \/ Step(h, "exists", CheckNext(c, c.todo \ {s}))
           \/ Step(h, "exists", CheckNext(Unclean(c), c.todo \ {s}))
  <2>1. PICK t \in {c, Unclean(c)} : Step(h, "exists", CheckNext(t, c.todo \ {s}))
    BY <1>6
  <2>2. t \in CallRec /\ t.mode = c.mode /\ t.who = c.who /\ t.opened = c.opened
    BY <1>2, <2>1, UncleanRecord
  <2>3. PICK rec : rec = CheckNext(t, c.todo \ {s})
    OBVIOUS
  <2>4. /\ rec \in CallRec /\ rec.pc \in {"inactive", "exists"} /\ rec.todo = c.todo \ {s}
        /\ rec.mode = c.mode /\ rec.who = c.who /\ rec.opened = c.opened
    BY <1>4, <2>2, <2>3, CheckNextRecord
  <2>5. HoldOK(rec, owner) /\ EndOK(rec, Over, Op)
    BY <1>2, <1>4, <2>4 DEF HoldOK, EndOK, Past
  <2>6. call' = [call EXCEPT ![h] = rec]
    BY <2>1, <2>3 DEF Step
  <2> QED BY <1>1, <1>4, <2>4, <2>5, <2>6, OwnRecord DEF Exists
<1> QED BY <1>3, <1>5, <1>6

-----------------------------------------------------------------------------
(* The notices.                                                            *)

\* A call that lists and pushes the notices has revoked already, or will.
Notifying(t, c) ==
  /\ t \in CallRec /\ t.mode = c.mode /\ t.who = c.who /\ t.opened = c.opened
  /\ t.clean => c.clean
  /\ \/ t.pc \in {"regs", "push"}
     \/ t.pc = "revoke" /\ c.mode = "logout"
     \/ t.pc = "out" /\ c.mode # "logout"

LEMMA NotifyingSound ==
  ASSUME NEW c, NEW t, c.pc \in {"list", "regs", "push"}, Notifying(t, c),
         HoldOK(c, owner), EndOK(c, Over, Op)
  PROVE  HoldOK(t, owner) /\ EndOK(t, Over, Op)
<1>1. HoldOK(t, owner)
  BY DEF HoldOK, Notifying
<1>2. EndOK(t, Over, Op)
  BY DEF HoldOK, EndOK, Past, Notifying
<1> QED BY <1>1, <1>2

LEMMA AfterNoticesRecord ==
  ASSUME NEW t \in CallRec
  PROVE  /\ AfterNotices(t) \in CallRec /\ AfterNotices(t).mode = t.mode
         /\ AfterNotices(t).who = t.who /\ AfterNotices(t).opened = t.opened
         /\ AfterNotices(t).clean = t.clean
         /\ AfterNotices(t).pc = IF t.mode = "logout" THEN "revoke" ELSE "out"
<1> DEFINE p == IF t.mode = "logout" THEN "revoke" ELSE "out"
<1>1. p \in Running \cup Ended
  BY DEF Running, Ended
<1>2. AfterNotices(t) = [t EXCEPT !.regs = {}, !.pc = p]
  BY DEF AfterNotices
<1> HIDE DEF p
<1>3. AfterNotices(t).pc = p
  BY <1>1, <1>2 DEF CallRec
<1>4. /\ AfterNotices(t) \in CallRec /\ AfterNotices(t).mode = t.mode
      /\ AfterNotices(t).who = t.who /\ AfterNotices(t).opened = t.opened
      /\ AfterNotices(t).clean = t.clean
  BY <1>1, <1>2 DEF CallRec
<1> QED BY <1>3, <1>4 DEF p

LEMMA AfterNoticesNotifies ==
  ASSUME NEW c, NEW t \in CallRec, t.mode = c.mode, t.who = c.who, t.opened = c.opened,
         t.clean => c.clean
  PROVE  Notifying(AfterNotices(t), c)
  BY AfterNoticesRecord DEF Notifying

LEMMA AfterRegsNotifies ==
  ASSUME NEW c, NEW t \in CallRec, t.mode = c.mode, t.who = c.who, t.opened = c.opened,
         t.clean => c.clean
  PROVE  Notifying(AfterRegs(t), c)
<1>1. CASE t.regs = {}
  BY <1>1, AfterNoticesNotifies DEF AfterRegs
<1>2. CASE t.regs # {}
  <2>1. PICK u : u = [t EXCEPT !.pc = "push"]
    OBVIOUS
  <2>2. /\ u \in CallRec /\ u.pc = "push" /\ u.mode = t.mode /\ u.who = t.who
        /\ u.opened = t.opened /\ u.clean = t.clean
    BY <2>1 DEF CallRec, Running
  <2>3. AfterRegs(t) = u
    BY <1>2, <2>1 DEF AfterRegs
  <2> QED BY <2>2, <2>3 DEF Notifying
<1> QED BY <1>1, <1>2

LEMMA ListSessionsPreserves ==
  ASSUME SessionInv, NEW h \in Call, ListSessions(h)
  PROVE  SessionInv'
<1>1. PICK c : c = call[h]
  OBVIOUS
<1>2. c \in CallRec /\ HoldOK(c, owner) /\ EndOK(c, Over, Op)
  BY <1>1, Recorded
<1>3. c.pc = "list"
  BY <1>1 DEF ListSessions, Step
<1>4. c.mode # "none" /\ c.who \in Person
  BY <1>2, <1>3 DEF HoldOK
<1>5. PICK todo \in SUBSET Session : todo = Members(index[c.who])
  BY <1>4, IndexMembers
<1>6. PICK b \in BOOLEAN : b = (c.timely /\ now = c.since)
  <2>1. CASE c.timely /\ now = c.since
    BY <1>2, <2>1 DEF CallRec
  <2>2. CASE ~(c.timely /\ now = c.since)
    <3>1. (c.timely /\ now = c.since) = FALSE
      BY <2>2
    <3>2. FALSE \in BOOLEAN
      OBVIOUS
    <3> QED BY <3>1, <3>2
  <2> QED BY <2>1, <2>2
<1>7. PICK d : d = [c EXCEPT !.timely = b]
  OBVIOUS
<1>8. d \in CallRec /\ d.mode = c.mode /\ d.who = c.who /\ d.opened = c.opened /\ d.clean = c.clean
  BY <1>2, <1>7 DEF CallRec
<1>9. PICK rec : /\ rec \in {AfterNotices(d), [d EXCEPT !.pc = "regs", !.todo = todo],
                             AfterNotices(Unclean(c))}
                 /\ call' = [call EXCEPT ![h] = rec]
  BY <1>1, <1>5, <1>6, <1>7 DEF ListSessions, Step
<1>10. Notifying(rec, c)
  <2>1. CASE rec = AfterNotices(d)
    BY <1>8, <2>1, AfterNoticesNotifies
  <2>2. CASE rec = AfterNotices(Unclean(c))
    <3>1. PICK u : u = Unclean(c)
      OBVIOUS
    <3>2. u \in CallRec /\ u.mode = c.mode /\ u.who = c.who /\ u.opened = c.opened /\ ~u.clean
      BY <1>2, <3>1, UncleanRecord
    <3> QED BY <2>2, <3>1, <3>2, AfterNoticesNotifies
  <2>3. CASE rec = [d EXCEPT !.pc = "regs", !.todo = todo]
    <3>1. /\ rec \in CallRec /\ rec.pc = "regs" /\ rec.mode = d.mode /\ rec.who = d.who
          /\ rec.opened = d.opened /\ rec.clean = d.clean
      BY <1>8, <2>3 DEF CallRec, Running
    <3> QED BY <1>8, <3>1 DEF Notifying
  <2> QED BY <1>9, <2>1, <2>2, <2>3
<1>11. HoldOK(rec, owner) /\ EndOK(rec, Over, Op)
  BY <1>2, <1>3, <1>10, NotifyingSound
<1> QED BY <1>1, <1>3, <1>9, <1>10, <1>11, OwnRecord DEF ListSessions, Notifying

LEMMA ListRegsPreserves ==
  ASSUME SessionInv, NEW h \in Call, ListRegs(h)
  PROVE  SessionInv'
<1>1. PICK c : c = call[h]
  OBVIOUS
<1>2. c \in CallRec /\ HoldOK(c, owner) /\ EndOK(c, Over, Op)
  BY <1>1, Recorded
<1>3. c.pc = "regs"
  BY <1>1 DEF ListRegs, Step
<1>4. CASE \E s \in c.todo :
             LET d == [c EXCEPT !.regs = @ \cup Members(reg[s]), !.todo = @ \ {s},
                                !.timely = @ /\ now = c.since]
             IN Step(h, "regs", IF d.todo = {} THEN AfterRegs(d) ELSE d)
  <2>1. PICK s \in c.todo :
             LET d == [c EXCEPT !.regs = @ \cup Members(reg[s]), !.todo = @ \ {s},
                                !.timely = @ /\ now = c.since]
             IN Step(h, "regs", IF d.todo = {} THEN AfterRegs(d) ELSE d)
    BY <1>4
  <2>2. c.regs \cup Members(reg[s]) \in SUBSET Notice
    <3>1. s \in Session /\ c.regs \in SUBSET Notice
      BY <1>2 DEF CallRec
    <3>2. reg[s] \in RegRec
      BY <3>1 DEF SessionInv, StoreOK, StoreTyped
    <3> QED BY <3>1, <3>2 DEF Members, RegRec
  <2>3. PICK b \in BOOLEAN : b = (c.timely /\ now = c.since)
    <3>1. CASE c.timely /\ now = c.since
      BY <1>2, <3>1 DEF CallRec
    <3>2. CASE ~(c.timely /\ now = c.since)
      <4>1. (c.timely /\ now = c.since) = FALSE
        BY <3>2
      <4>2. FALSE \in BOOLEAN
        OBVIOUS
      <4> QED BY <4>1, <4>2
    <3> QED BY <3>1, <3>2
  <2>4. PICK r \in SUBSET Notice : r = c.regs \cup Members(reg[s])
    BY <2>2
  <2>5. PICK d : d = [c EXCEPT !.regs = r, !.todo = c.todo \ {s}, !.timely = b]
    OBVIOUS
  <2>6. /\ d \in CallRec /\ d.pc = c.pc /\ d.mode = c.mode /\ d.who = c.who
        /\ d.opened = c.opened /\ d.clean = c.clean
    BY <1>2, <2>5 DEF CallRec
  <2>7. PICK rec \in {AfterRegs(d), d} : call' = [call EXCEPT ![h] = rec]
    BY <2>1, <2>3, <2>4, <2>5 DEF Step
  <2>8. Notifying(rec, c)
    <3>1. CASE rec = AfterRegs(d)
      BY <2>6, <3>1, AfterRegsNotifies
    <3>2. CASE rec = d
      BY <1>3, <2>6, <3>2 DEF Notifying
    <3> QED BY <2>7, <3>1, <3>2
  <2>9. HoldOK(rec, owner) /\ EndOK(rec, Over, Op)
    BY <1>2, <1>3, <2>8, NotifyingSound
  <2> QED BY <1>1, <1>3, <2>7, <2>8, <2>9, OwnRecord DEF ListRegs, Notifying
<1>5. CASE Step(h, "regs", AfterNotices(Unclean([c EXCEPT !.todo = {}])))
  <2>1. PICK d : d = [c EXCEPT !.todo = {}]
    OBVIOUS
  <2>2. d \in CallRec /\ d.mode = c.mode /\ d.who = c.who /\ d.opened = c.opened
    BY <1>2, <2>1 DEF CallRec
  <2>3. PICK u : u = Unclean(d)
    OBVIOUS
  <2>4. u \in CallRec /\ u.mode = c.mode /\ u.who = c.who /\ u.opened = c.opened /\ ~u.clean
    BY <2>2, <2>3, UncleanRecord
  <2>5. PICK rec : rec = AfterNotices(u)
    OBVIOUS
  <2>6. Notifying(rec, c)
    BY <2>4, <2>5, AfterNoticesNotifies
  <2>7. HoldOK(rec, owner) /\ EndOK(rec, Over, Op)
    BY <1>2, <1>3, <2>6, NotifyingSound
  <2>8. call' = [call EXCEPT ![h] = rec]
    BY <1>5, <2>1, <2>3, <2>5 DEF Step
  <2> QED BY <1>1, <1>3, <2>6, <2>7, <2>8, OwnRecord DEF ListRegs, Notifying
<1> QED BY <1>1, <1>4, <1>5 DEF ListRegs

LEMMA QueueGrows ==
  ASSUME SessionInv, NEW n \in Notice, queue' = Append(queue, [notice |-> n, at |-> now])
  PROVE  queue' \in Seq([notice : Notice, at : Instant])
<1> DEFINE Job == [notice : Notice, at : Instant]
<1>1. queue \in Seq(Job) /\ now \in Instant
  BY Lifetimes DEF SessionInv, StoreOK, StoreTyped
<1>2. PICK j : j = [notice |-> n, at |-> now]
  OBVIOUS
<1>3. j \in Job
  BY <1>1, <1>2
<1> HIDE DEF Job
<1>4. queue' \in Seq(Job)
  BY <1>1, <1>2, <1>3
<1> QED BY <1>4 DEF Job

LEMMA PushPreserves ==
  ASSUME SessionInv, NEW h \in Call, Push(h)
  PROVE  SessionInv'
<1>1. PICK c : c = call[h]
  OBVIOUS
<1>2. c \in CallRec /\ HoldOK(c, owner) /\ EndOK(c, Over, Op)
  BY <1>1, Recorded
<1>3. PICK n \in c.regs, d \in {c, Unclean(c)} :
        /\ Step(h, "push", AfterRegs([d EXCEPT !.regs = @ \ {n}]))
        /\ queue' = queue \/ queue' = Append(queue, [notice |-> n, at |-> now])
  BY <1>1 DEF Push
<1>4. d \in CallRec /\ d.mode = c.mode /\ d.who = c.who /\ d.opened = c.opened /\ (d.clean => c.clean)
  BY <1>2, <1>3, UncleanRecord
<1>5. PICK t : t = [d EXCEPT !.regs = @ \ {n}]
  OBVIOUS
<1>6. t \in CallRec /\ t.mode = c.mode /\ t.who = c.who /\ t.opened = c.opened /\ (t.clean => c.clean)
  BY <1>4, <1>5 DEF CallRec
<1>7. PICK rec : rec = AfterRegs(t)
  OBVIOUS
<1>8. Notifying(rec, c)
  BY <1>6, <1>7, AfterRegsNotifies
<1>9. c.pc = "push" /\ call' = [call EXCEPT ![h] = rec]
  BY <1>1, <1>3, <1>5, <1>7 DEF Step
<1>10. HoldOK(rec, owner) /\ EndOK(rec, Over, Op)
  BY <1>2, <1>8, <1>9, NotifyingSound
<1>11. StoreTyped'
  <2>1. StoreTyped
    BY DEF SessionInv, StoreOK
  <2>2. n \in Notice
    BY <1>2, <1>3 DEF CallRec
  <2>3. queue' \in Seq([notice : Notice, at : Instant])
    BY <1>3, <2>1, <2>2, QueueGrows DEF StoreTyped
  <2> QED BY <2>1, <2>3 DEF Push, StoreTyped, storeVars, pastVars
<1>12. UNCHANGED <<now, key, owner, index, lapsed, worker>>
  BY DEF Push, storeVars, pastVars
<1>13. rec \in CallRec /\ rec.pc # "in" /\ call[h].pc \notin {"in", "extend index"}
  BY <1>1, <1>8, <1>9 DEF Notifying
<1> QED BY <1>9, <1>10, <1>11, <1>12, <1>13, QuietCall

-----------------------------------------------------------------------------
(* The calls that end sessions.                                            *)

LEMMA LogoutPreserves ==
  ASSUME SessionInv, NEW h \in Call, NEW p \in Person, NEW m \in Mode,
         NEW s \in Session \cup {NoSession}, Logout(h, p, m, s)
  PROVE  SessionInv'
<1>1. PICK f \in {"list", "revoke"} : f = First(m) /\ (f = "list" => m = "logout")
  BY DEF First
<1>2. PICK due \in SUBSET Notice : due = Due(p)
  BY DEF Due
<1>3. PICK opened \in SUBSET Session : opened = {x \in Session : owner[x] = p /\ Opened(x)}
  OBVIOUS
<1>4. PICK t \in Instant : t = now
  BY Lifetimes DEF SessionInv, StoreOK, StoreTyped
<1>5. PICK rec : rec = [NewCall EXCEPT !.pc = f, !.mode = m, !.who = p, !.sid = s,
                                       !.due = due, !.since = t, !.opened = opened]
  OBVIOUS
<1>6. call[h].pc = "idle" /\ call' = [call EXCEPT ![h] = rec]
  BY <1>1, <1>2, <1>3, <1>4, <1>5 DEF Logout, Step
<1>7. /\ rec \in CallRec /\ rec.pc = f /\ rec.mode = m /\ rec.who = p /\ rec.opened = opened
  BY <1>5, NewCallTyped DEF CallRec, Running, Mode
<1>8. HoldOK(rec, owner)
  BY <1>1, <1>3, <1>7 DEF HoldOK, Mode
<1>9. EndOK(rec, Over, Op)
  BY <1>1, <1>3, <1>7 DEF EndOK, Past, Op
<1> QED BY <1>6, <1>7, <1>8, <1>9, OwnRecord DEF Logout

\* After the sessions of its person: end_session goes on with the notices.
LEMMA AfterRevokeRecord ==
  ASSUME NEW t \in CallRec, NEW s \in Session \cup {NoSession}, t.sid = s
  PROVE  /\ AfterRevoke(t) \in CallRec /\ AfterRevoke(t).mode = t.mode
         /\ AfterRevoke(t).who = t.who /\ AfterRevoke(t).opened = t.opened
         /\ AfterRevoke(t).clean = t.clean
         /\ \/ AfterRevoke(t).pc = "out"
            \/ t.mode = "end_session" /\ AfterRevoke(t).pc \in {"list", "regs"}
<1>1. CASE AfterRevoke(t) = [t EXCEPT !.pc = "out"]
  BY <1>1 DEF CallRec, Ended
<1>2. CASE t.mode = "end_session" /\ AfterRevoke(t) = [t EXCEPT !.pc = "list"]
  BY <1>2 DEF CallRec, Running
<1>3. CASE t.mode = "end_session" /\ s \in Session
           /\ AfterRevoke(t) = [t EXCEPT !.pc = "regs", !.todo = {s}]
  <2>1. PICK todo \in SUBSET Session : todo = {s}
    BY <1>3
  <2>2. PICK u : u = [t EXCEPT !.pc = "regs", !.todo = todo]
    OBVIOUS
  <2>3. /\ u \in CallRec /\ u.pc = "regs" /\ u.mode = t.mode /\ u.who = t.who
        /\ u.opened = t.opened /\ u.clean = t.clean
    BY <2>2 DEF CallRec, Running
  <2> QED BY <1>3, <2>1, <2>2, <2>3
<1> QED BY <1>1, <1>2, <1>3 DEF AfterRevoke

LEMMA RevokePreserves ==
  ASSUME SessionInv, NEW h \in Call, Revoke(h)
  PROVE  SessionInv'
<1>1. PICK c : c = call[h]
  OBVIOUS
<1>2. c \in CallRec /\ HoldOK(c, owner) /\ EndOK(c, Over, Op)
  BY <1>1, Recorded
<1>3. c.pc = "revoke"
  BY <1>1 DEF Revoke, Step
<1>4. c.mode # "none" /\ c.who \in Person
  BY <1>2, <1>3 DEF HoldOK
<1>5. CASE MayFail /\ Step(h, "revoke", AfterRevoke(Unclean(c)))
  <2>1. PICK u : u = Unclean(c)
    OBVIOUS
  <2>2. u \in CallRec /\ u.mode = c.mode /\ u.who = c.who /\ u.opened = c.opened /\ ~u.clean
    BY <1>2, <2>1, UncleanRecord
  <2>3. PICK rec : rec = AfterRevoke(u)
    OBVIOUS
  <2>4. /\ rec \in CallRec /\ rec.mode = c.mode /\ rec.who = c.who /\ rec.opened = c.opened
        /\ ~rec.clean /\ (rec.pc = "out" \/ (c.mode = "end_session" /\ rec.pc \in {"list", "regs"}))
    <3>1. PICK sid \in Session \cup {NoSession} : u.sid = sid
      BY <2>2 DEF CallRec
    <3>2. /\ rec \in CallRec /\ rec.mode = u.mode /\ rec.who = u.who /\ rec.opened = u.opened
          /\ rec.clean = u.clean
          /\ rec.pc = "out" \/ (u.mode = "end_session" /\ rec.pc \in {"list", "regs"})
      BY <2>2, <2>3, <3>1, AfterRevokeRecord
    <3>3. ~rec.clean
      BY <2>2, <3>2
    <3>4. rec.mode = c.mode /\ rec.who = c.who /\ rec.opened = c.opened
      BY <2>2, <3>2
    <3>5. rec.pc = "out" \/ (c.mode = "end_session" /\ rec.pc \in {"list", "regs"})
      BY <2>2, <3>2
    <3> QED BY <3>2, <3>3, <3>4, <3>5
  <2>5. HoldOK(rec, owner) /\ EndOK(rec, Over, Op)
    BY <1>2, <1>3, <2>4 DEF HoldOK, EndOK
  <2>6. call' = [call EXCEPT ![h] = rec]
    BY <1>5, <2>1, <2>3 DEF Step
  <2>7. rec.pc # "in"
    BY <2>4
  <2> QED BY <1>1, <1>3, <2>4, <2>5, <2>6, <2>7, OwnRecord DEF Revoke
<1>6. CASE Step(h, "revoke", [c EXCEPT !.todo = SessionsOf(c.who),
                                       !.pc = IF SessionsOf(c.who) = {} THEN "drop index" ELSE "delete"])
  <2>1. PICK todo \in SUBSET Session : /\ todo = SessionsOf(c.who) /\ todo = Members(index[c.who])
                                       /\ \A s \in todo : owner[s] = c.who
    BY <1>4, IndexMembers DEF SessionsOf
  <2>2. PICK p \in {"drop index", "delete"} : p = IF todo = {} THEN "drop index" ELSE "delete"
    OBVIOUS
  <2>3. PICK rec : rec = [c EXCEPT !.todo = todo, !.pc = p]
    OBVIOUS
  <2>4. /\ rec \in CallRec /\ rec.pc = p /\ rec.todo = todo /\ rec.mode = c.mode
        /\ rec.who = c.who /\ rec.opened = c.opened
    BY <1>2, <2>3 DEF CallRec, Running
  <2>5. call' = [call EXCEPT ![h] = rec]
    BY <1>6, <2>1, <2>2, <2>3 DEF Step
  <2>6. c.opened \subseteq Over \cup todo
    <3> SUFFICES ASSUME NEW s \in c.opened, s \notin Over PROVE s \in todo
      OBVIOUS
    <3>1. s \in Session /\ owner[s] = c.who /\ Opened(s)
      BY <1>2 DEF CallRec, HoldOK, EndOK, Op
    <3>2. Alive(s) /\ s \notin lapsed
      BY <3>1 DEF Over
    <3>3. CoveredBy(s)
      BY <3>1, <3>2 DEF SessionInv, Covered
    <3> QED BY <2>1, <3>1, <3>3 DEF CoveredBy, Members
  <2>7. HoldOK(rec, owner)
    BY <1>2, <1>4, <2>4 DEF HoldOK
  <2>8. EndOK(rec, Over, Op)
    BY <1>2, <2>2, <2>4, <2>6 DEF EndOK, Past
  <2> QED BY <1>1, <1>3, <2>4, <2>5, <2>7, <2>8, OwnRecord DEF Revoke
<1> QED BY <1>1, <1>5, <1>6 DEF Revoke

-----------------------------------------------------------------------------
(* Steps on the keys of the sessions.                                      *)

\* A step of one call, with what it does to the sessions and the indexes.
LEMMA CallMoves ==
  ASSUME SessionInv, NEW h \in Call, NEW rec \in CallRec,
         call' = [call EXCEPT ![h] = rec], call[h].pc # "in",
         KeysMove, lapsed \subseteq lapsed', owner' = owner, worker' = worker,
         HoldOK(rec, owner), EndOK(rec, Over', Op'), StoreOK', Covered'
  PROVE  SessionInv'
<1>1. Onward
  BY DEF Onward
<1>2. CallsOK'
  BY <1>1, CallStep
<1> QED BY <1>2 DEF SessionInv

\* The sessions that are over stay over.
LEMMA OverGrows ==
  ASSUME SessionInv, KeysMove, lapsed \subseteq lapsed', NEW s \in Session,
         owner[s] \in Person, s \in Over
  PROVE  s \in Over'
<1>1. owner[s] # NoPerson
  BY NullAssumption
<1>2. ~Alive(s) => ~Alive(s)'
  BY <1>1, Times DEF KeysMove, TimesOK, Alive
<1> QED BY <1>2 DEF Over

\* Keys end, stay, or are renewed by the call that will renew the index.
LEMMA CoverKept ==
  ASSUME SessionInv, NEW h \in Call, NEW rec \in CallRec,
         call' = [call EXCEPT ![h] = rec], call[h].pc # "extend index", rec.pc # "in",
         UNCHANGED <<now, owner, index, lapsed>>,
         \A s \in Session : \/ key'[s] = key[s] \/ ~Alive(s)'
                            \/ Alive(s) /\ rec.pc = "extend index" /\ rec.sid = s
  PROVE  Covered'
<1>1. \A x \in Call : call'[x] = IF x = h THEN rec ELSE call[x]
  BY DEF SessionInv, CallsOK
<1>2. \A s \in Session : Opened(s)' => Opened(s)
  BY <1>1 DEF Opened
<1>3. \A s \in Session : Renewing(s) => Renewing(s)'
  BY <1>1 DEF Renewing
<1> SUFFICES ASSUME NEW s \in Session, Alive(s)', Opened(s)', s \notin lapsed'
             PROVE  CoveredBy(s)'
  BY DEF Covered
<1>4. key'[s] = key[s] \/ Renewing(s)'
  BY <1>1 DEF Renewing
<1>5. Alive(s)
  BY DEF Alive
<1>6. CoveredBy(s)
  BY <1>2, <1>5 DEF SessionInv, Covered
<1> QED BY <1>3, <1>4, <1>6 DEF CoveredBy

LEMMA Deleted ==
  ASSUME NEW s \in Session, TimesOK', key'[s] = 0
  PROVE  ~Alive(s)'
<1>1. now' \in Nat
  BY DEF TimesOK
<1>2. ~(now' < 0)
  BY <1>1
<1> QED BY <1>2 DEF Alive

LEMMA KeyDeleted ==
  ASSUME SessionInv, NEW s \in Session, key' = key \/ key' = [key EXCEPT ![s] = 0],
         UNCHANGED <<now, owner, index, reg, about, queue, pastVars>>
  PROVE  /\ KeysMove /\ StoreOK'
         /\ \A x \in Session : key'[x] = key[x] \/ ~Alive(x)'
<1>1. KeysMove
  BY Times, DeletionMoves
<1>2. StoreOK /\ StoreTyped
  BY DEF SessionInv, StoreOK
<1>3. \A x \in Session : key'[x] = key[x] \/ key'[x] = 0
  BY <1>2 DEF StoreTyped
<1>4. 0 \in Instant /\ now + SessionTTL \in Nat /\ now \in Nat
  BY <1>2, TTLAssumption, Lifetimes DEF StoreTyped
<1>5. key' \in [Session -> Instant]
  BY <1>2, <1>4 DEF StoreTyped
<1>6. StoreTyped'
  BY <1>2, <1>5 DEF StoreTyped, pastVars
<1>7. \A x \in Session : key'[x] <= now + SessionTTL
  BY <1>2, <1>3, <1>4 DEF StoreOK
<1>8. StoreOK'
  BY <1>2, <1>6, <1>7 DEF StoreOK
<1>9. \A x \in Session : key'[x] = key[x] \/ ~Alive(x)'
  BY <1>3, <1>4 DEF Alive
<1> QED BY <1>1, <1>8, <1>9

LEMMA UnindexPreserves ==
  ASSUME SessionInv, NEW h \in Call, Unindex(h)
  PROVE  SessionInv'
<1>1. PICK c : c = call[h]
  OBVIOUS
<1>2. c \in CallRec /\ HoldOK(c, owner) /\ EndOK(c, Over, Op)
  BY <1>1, Recorded
<1>3. PICK t : t = [c EXCEPT !.pc = "failed"]
  OBVIOUS
<1>4. t \in CallRec /\ t.pc = "failed" /\ t.mode = c.mode /\ t.who = c.who /\ t.opened = c.opened
  BY <1>2, <1>3 DEF CallRec, Ended
<1>5. PICK rec \in {t, Unclean(t)} : call' = [call EXCEPT ![h] = rec]
  BY <1>1, <1>3 DEF Unindex, Step
<1>6. /\ rec \in CallRec /\ rec.pc = "failed" /\ rec.mode = c.mode /\ rec.who = c.who
      /\ rec.opened = c.opened
  BY <1>4, <1>5, UncleanRecord
<1>7. c.pc = "unindex" /\ UNCHANGED <<now, owner, index, reg, about, queue, worker, pastVars>>
  BY <1>1 DEF Unindex, Step
<1>8. PICK s \in Session : s = c.sid
  BY <1>2, <1>7 DEF HoldOK
<1>9. key' = key \/ key' = [key EXCEPT ![s] = 0]
  BY <1>1, <1>8 DEF Unindex
<1>10. /\ KeysMove /\ StoreOK'
       /\ \A x \in Session : key'[x] = key[x] \/ ~Alive(x)'
  BY <1>7, <1>9, KeyDeleted
<1>11. UNCHANGED lapsed /\ worker' = worker
  BY <1>7 DEF pastVars
<1>12. Covered'
  BY <1>1, <1>5, <1>6, <1>7, <1>10, <1>11, CoverKept
<1>13. HoldOK(rec, owner)
  BY <1>2, <1>6 DEF HoldOK
<1>14. Op \subseteq Op'
  BY <1>1, <1>5, <1>6, <1>7, StillOpen DEF SessionInv
<1>15. EndOK(rec, Over', Op')
  BY <1>2, <1>6, <1>14 DEF EndOK, Past
<1>16. call[h].pc # "in" /\ owner' = owner /\ lapsed \subseteq lapsed'
  BY <1>1, <1>7, <1>11
<1> QED BY <1>5, <1>6, <1>10, <1>11, <1>12, <1>13, <1>15, <1>16, CallMoves

LEMMA DeleteSessionPreserves ==
  ASSUME SessionInv, NEW h \in Call, DeleteSession(h)
  PROVE  SessionInv'
<1>1. PICK c : c = call[h]
  OBVIOUS
<1>2. c \in CallRec /\ HoldOK(c, owner) /\ EndOK(c, Over, Op)
  BY <1>1, Recorded
<1>3. PICK s \in c.todo :
        LET d == [c EXCEPT !.todo = @ \ {s}, !.pc = IF c.todo = {s} THEN "drop index" ELSE "delete"]
        IN \/ Step(h, "delete", d) /\ key' = [key EXCEPT ![s] = 0]
           \/ Step(h, "delete", Unclean(d)) /\ UNCHANGED key
  BY <1>1 DEF DeleteSession
<1>4. PICK p \in {"drop index", "delete"} : p = IF c.todo = {s} THEN "drop index" ELSE "delete"
  OBVIOUS
<1>5. PICK d : d = [c EXCEPT !.todo = @ \ {s}, !.pc = p]
  OBVIOUS
<1>6. \/ Step(h, "delete", d) /\ key' = [key EXCEPT ![s] = 0]
      \/ Step(h, "delete", Unclean(d)) /\ UNCHANGED key
  BY <1>3, <1>4, <1>5
<1>7. /\ d \in CallRec /\ d.pc = p /\ d.todo = c.todo \ {s} /\ d.mode = c.mode /\ d.who = c.who
      /\ d.opened = c.opened /\ d.clean = c.clean
  BY <1>2, <1>5 DEF CallRec, Running
<1>8. PICK rec : /\ call' = [call EXCEPT ![h] = rec]
                 /\ \/ rec = d /\ key' = [key EXCEPT ![s] = 0]
                    \/ rec = Unclean(d) /\ UNCHANGED key
  BY <1>6 DEF Step
<1>9. /\ rec \in CallRec /\ rec.pc = p /\ rec.todo = c.todo \ {s} /\ rec.mode = c.mode
      /\ rec.who = c.who /\ rec.opened = c.opened
  BY <1>7, <1>8, UncleanRecord
<1>10. rec.clean => c.clean /\ key' = [key EXCEPT ![s] = 0]
  <2>1. CASE rec = d
    <3>1. rec.clean => c.clean
      BY <1>7, <2>1
    <3>2. rec.clean => rec # Unclean(d)
      BY <1>7, UncleanRecord
    <3> QED BY <1>8, <3>1, <3>2
  <2>2. CASE rec = Unclean(d)
    BY <1>7, <2>2, UncleanRecord
  <2> QED BY <1>8, <2>1, <2>2
<1>11. c.pc = "delete" /\ UNCHANGED <<now, owner, index, reg, about, queue, worker, pastVars>>
  BY <1>1 DEF DeleteSession, Step
<1>12. key' = key \/ key' = [key EXCEPT ![s] = 0]
  BY <1>2, <1>3, <1>8 DEF CallRec
<1>13. s \in Session
  BY <1>2, <1>3 DEF CallRec
<1>14. /\ KeysMove /\ StoreOK'
       /\ \A x \in Session : key'[x] = key[x] \/ ~Alive(x)'
  BY <1>11, <1>12, <1>13, KeyDeleted
<1>15. UNCHANGED lapsed /\ worker' = worker /\ owner' = owner
  BY <1>11 DEF pastVars
<1>16. Covered'
  BY <1>1, <1>8, <1>9, <1>11, <1>14, <1>15, CoverKept
<1>17. HoldOK(rec, owner)
  BY <1>2, <1>9, <1>11 DEF HoldOK
<1>18. Op \subseteq Op'
  BY <1>1, <1>8, <1>9, <1>11, StillOpen DEF SessionInv
<1>19. ASSUME rec.clean, NEW x \in c.opened PROVE x \in Over' \cup (c.todo \ {s})
  <2>1. x \in Session /\ owner[x] \in Person /\ x \in Over \cup c.todo
    BY <1>2, <1>10, <1>11, <1>19 DEF CallRec, HoldOK, EndOK
  <2>2. CASE x \in Over
    BY <1>14, <1>15, <2>1, <2>2, OverGrows
  <2>3. CASE x = s
    <3>1. key'[s] = 0
      BY <1>10, <1>13, <1>19, Times DEF TimesOK
    <3>2. ~Alive(s)'
      BY <1>13, <1>14, <3>1, Deleted DEF KeysMove
    <3> QED BY <2>1, <2>3, <3>2 DEF Over
  <2> QED BY <2>1, <2>2, <2>3
<1>20. EndOK(rec, Over', Op')
  <2>1. p = "drop index" => c.todo \ {s} = {}
    BY <1>4
  <2>2. c.opened \subseteq Op'
    BY <1>2, <1>18 DEF EndOK
  <2>3. rec.clean => c.opened \subseteq Over' \cup rec.todo
    BY <1>9, <1>19
  <2> QED BY <1>4, <1>9, <2>1, <2>2, <2>3 DEF EndOK, Past
<1>21. call[h].pc # "in" /\ lapsed \subseteq lapsed'
  BY <1>1, <1>11, <1>15
<1> QED BY <1>8, <1>9, <1>14, <1>15, <1>16, <1>17, <1>20, <1>21, CallMoves

\* EXPIRE gives a key that is there its whole lifetime again.
LEMMA KeyRenewed ==
  ASSUME SessionInv, NEW s \in Session, key' = key \/ key' = [key EXCEPT ![s] = Renewed(s)],
         UNCHANGED <<now, owner, index, reg, about, queue, pastVars>>
  PROVE  /\ StoreOK'
         /\ \A x \in Session : \/ key'[x] = key[x] \/ ~Alive(x)'
                               \/ Alive(x) /\ x = s
<1>1. StoreOK /\ StoreTyped
  BY DEF SessionInv, StoreOK
<1>2. now \in Nat /\ now + SessionTTL \in Instant /\ now + SessionTTL \in Nat
  <2>1. now \in 1 .. MaxTime
    BY <1>1 DEF StoreTyped
  <2>2. now + SessionTTL \in Instant
    BY <2>1, Lifetimes
  <2> QED BY <2>1, <2>2, TTLAssumption
<1>3. Renewed(s) \in Instant /\ (Renewed(s) = key[s] \/ (Alive(s) /\ Renewed(s) = now + SessionTTL))
  BY <1>1, <1>2 DEF Renewed, StoreTyped
<1>4. \A x \in Session : key'[x] = key[x] \/ (x = s /\ Alive(s) /\ key'[x] = now + SessionTTL)
  BY <1>1, <1>3 DEF StoreTyped
<1>5. key' \in [Session -> Instant]
  BY <1>1, <1>3 DEF StoreTyped
<1>6. StoreTyped'
  BY <1>1, <1>5 DEF StoreTyped, pastVars
<1>7. \A x \in Session : key'[x] <= now + SessionTTL
  BY <1>1, <1>2, <1>4 DEF StoreOK
<1>8. StoreOK'
  BY <1>1, <1>6, <1>7 DEF StoreOK
<1> QED BY <1>4, <1>8

LEMMA ExtendPreserves ==
  ASSUME SessionInv, NEW h \in Call, Extend(h)
  PROVE  SessionInv'
<1>1. PICK c : c = call[h]
  OBVIOUS
<1>2. c \in CallRec /\ HoldOK(c, owner) /\ EndOK(c, Over, Op)
  BY <1>1, Recorded
<1>3. PICK t : t = [c EXCEPT !.pc = "extend index"]
  OBVIOUS
<1>4. /\ t \in CallRec /\ t.pc = "extend index" /\ t.mode = c.mode /\ t.who = c.who
      /\ t.opened = c.opened /\ t.sid = c.sid
  BY <1>2, <1>3 DEF CallRec, Running
<1>5. PICK rec \in {t, Unclean(t)} : call' = [call EXCEPT ![h] = rec]
  BY <1>1, <1>3 DEF Extend, Step
<1>6. /\ rec \in CallRec /\ rec.pc = "extend index" /\ rec.mode = c.mode /\ rec.who = c.who
      /\ rec.opened = c.opened /\ rec.sid = c.sid
  BY <1>4, <1>5, UncleanRecord
<1>7. c.pc = "extend" /\ UNCHANGED <<now, owner, index, reg, about, queue, worker, pastVars>>
  BY <1>1 DEF Extend, Step
<1>8. PICK s \in Session : s = c.sid
  BY <1>2, <1>7 DEF HoldOK
<1>9. key' = key \/ key' = [key EXCEPT ![s] = Renewed(s)]
  BY <1>1, <1>8 DEF Extend
<1>10. /\ StoreOK'
       /\ \A x \in Session : \/ key'[x] = key[x] \/ ~Alive(x)'
                             \/ Alive(x) /\ x = s
  BY <1>7, <1>9, KeyRenewed
<1>11. UNCHANGED lapsed /\ worker' = worker
  BY <1>7 DEF pastVars
<1>12. Covered'
  BY <1>1, <1>5, <1>6, <1>7, <1>8, <1>10, <1>11, CoverKept
<1>13. HoldOK(rec, owner)
  BY <1>2, <1>6, <1>7 DEF HoldOK
<1>14. Op \subseteq Op'
  BY <1>1, <1>5, <1>6, <1>7, StillOpen DEF SessionInv
<1>15. EndOK(rec, Over', Op')
  BY <1>2, <1>6, <1>14 DEF EndOK, Past
<1>16. KeysMove
  BY Times, ExtendMoves
<1>17. call[h].pc # "in" /\ owner' = owner /\ lapsed \subseteq lapsed'
  BY <1>1, <1>7, <1>11
<1> QED BY <1>5, <1>6, <1>10, <1>11, <1>12, <1>13, <1>15, <1>16, <1>17, CallMoves

-----------------------------------------------------------------------------
(* Steps on the indexes.                                                   *)

LEMMA IndexChanges ==
  ASSUME SessionInv, NEW p \in Person, NEW r \in IndexRec,
         index' = index \/ index' = [index EXCEPT ![p] = r], \A s \in r.members : owner[s] = p,
         UNCHANGED <<now, key, owner, reg, about, queue, told, gone>>, lapsed' \subseteq Session
  PROVE  KeysMove /\ StoreOK'
<1>1. KeysMove
  BY Times, Untouched
<1>2. StoreOK /\ StoreTyped
  BY DEF SessionInv, StoreOK
<1>3. index \in [Person -> IndexRec]
  BY <1>2 DEF StoreTyped
<1> HIDE DEF IndexRec
<1>4. index' \in [Person -> IndexRec]
  BY <1>3
<1>5. StoreTyped'
  BY <1>2, <1>4 DEF StoreTyped
<1>6. \A x \in Person : index'[x] = index[x] \/ (x = p /\ index'[x] = r)
  BY <1>3
<1>7. StoreOK'
  BY <1>2, <1>5, <1>6 DEF StoreOK
<1> QED BY <1>1, <1>7

\* Who can log in silently was logged in.
LEMMA OpenedOwned ==
  ASSUME SessionInv, NEW s \in Session, Opened(s)
  PROVE  owner[s] \in Person
<1>1. PICK h \in Call : call[h].pc = "in" /\ call[h].sid = s
  BY DEF Opened
<1>2. HoldOK(call[h], owner)
  BY Recorded
<1> QED BY <1>1, <1>2 DEF HoldOK

\* The index of one person changes, or the call that renewed it is through.
LEMMA IndexKept ==
  ASSUME SessionInv, NEW h \in Call, NEW rec \in CallRec, NEW p \in Person,
         call' = [call EXCEPT ![h] = rec], UNCHANGED <<now, key, owner>>,
         lapsed \subseteq lapsed', \A x \in Person : x # p => index'[x] = index[x],
         call[h].pc = "extend index" => call[h].who = p,
         rec.pc = "in" => owner[rec.sid] = p,
         \A s \in Session :
            /\ Alive(s) /\ owner[s] = p /\ s \notin lapsed'
            /\ Opened(s) \/ (rec.pc = "in" /\ rec.sid = s)
            => /\ now < index'[p].expires /\ s \in index'[p].members
               /\ key[s] <= index'[p].expires \/ Renewing(s)'
  PROVE  Covered'
<1>1. \A x \in Call : call'[x] = IF x = h THEN rec ELSE call[x]
  BY DEF SessionInv, CallsOK
<1>2. \A s \in Session : Opened(s)' => Opened(s) \/ (rec.pc = "in" /\ rec.sid = s)
  BY <1>1 DEF Opened
<1> SUFFICES ASSUME NEW s \in Session, Alive(s)', Opened(s)', s \notin lapsed'
             PROVE  CoveredBy(s)'
  BY DEF Covered
<1>3. Alive(s) /\ s \notin lapsed
  BY DEF Alive
<1>4. CASE owner[s] = p
  BY <1>2, <1>3, <1>4 DEF CoveredBy
<1>5. CASE owner[s] # p
  <2>1. Opened(s)
    BY <1>2, <1>5
  <2>2. CoveredBy(s) /\ owner[s] \in Person
    BY <1>3, <2>1, OpenedOwned DEF SessionInv, Covered
  <2>3. call[h].pc = "extend index" => call[h].sid # s
    <3>1. HoldOK(call[h], owner)
      BY Recorded
    <3> QED BY <1>5, <3>1 DEF HoldOK
  <2>4. Renewing(s) => Renewing(s)'
    BY <1>1, <2>3 DEF Renewing
  <2> QED BY <1>5, <2>2, <2>4 DEF CoveredBy
<1> QED BY <1>4, <1>5

LEMMA SAddRecord ==
  ASSUME SessionInv, NEW p \in Person, NEW s \in Session, owner[s] = p
  PROVE  /\ SAdd(index[p], s) \in IndexRec
         /\ \A x \in SAdd(index[p], s).members : owner[x] = p
         /\ Members(index[p]) \subseteq SAdd(index[p], s).members
         /\ Members(index[p]) # {} => SAdd(index[p], s).expires = index[p].expires
<1>1. StoreTyped /\ index[p] \in IndexRec
  BY DEF SessionInv, StoreOK, StoreTyped
<1>2. SAdd(index[p], s) \in IndexRec
  BY <1>1, SAddTyped DEF IndexRec
<1>3. SAdd(index[p], s).members = Members(index[p]) \cup {s}
  BY DEF SAdd
<1>4. Members(index[p]) # {} => SAdd(index[p], s).expires = index[p].expires
  BY DEF SAdd
<1> QED BY <1>2, <1>3, <1>4, IndexMembers

LEMMA IndexSessionPreserves ==
  ASSUME SessionInv, NEW h \in Call, IndexSession(h)
  PROVE  SessionInv'
<1>1. PICK c : c = call[h]
  OBVIOUS
<1>2. c \in CallRec /\ HoldOK(c, owner) /\ EndOK(c, Over, Op)
  BY <1>1, Recorded
<1>3. PICK rec \in {[c EXCEPT !.pc = "index ttl"], [c EXCEPT !.pc = "unindex"]} :
        /\ call' = [call EXCEPT ![h] = rec]
        /\ index' = index \/ index' = [index EXCEPT ![c.who] = SAdd(@, c.sid)]
  BY <1>1 DEF IndexSession, Step
<1>4. /\ rec \in CallRec /\ rec.pc \in {"index ttl", "unindex"} /\ rec.mode = c.mode
      /\ rec.who = c.who /\ rec.opened = c.opened /\ rec.sid = c.sid
  BY <1>2, <1>3 DEF CallRec, Running
<1>5. c.pc = "index" /\ UNCHANGED <<now, key, owner, reg, about, queue, worker, pastVars>>
  BY <1>1 DEF IndexSession
<1>6. PICK p \in Person, s \in Session : p = c.who /\ s = c.sid /\ owner[s] = p
  BY <1>2, <1>5 DEF HoldOK
<1>7. PICK r : r = SAdd(index[p], s)
  OBVIOUS
<1>8. /\ r \in IndexRec /\ \A x \in r.members : owner[x] = p
      /\ Members(index[p]) \subseteq r.members
      /\ Members(index[p]) # {} => r.expires = index[p].expires
  BY <1>6, <1>7, SAddRecord
<1>9. index \in [Person -> IndexRec] /\ lapsed \subseteq Session
  BY DEF SessionInv, StoreOK, StoreTyped
<1>10. index' = index \/ index' = [index EXCEPT ![p] = r]
  BY <1>3, <1>6, <1>7
<1>11. KeysMove /\ StoreOK'
  BY <1>5, <1>8, <1>9, <1>10, IndexChanges DEF pastVars
<1>12. Covered'
  <2>1. \A x \in Person : x # p => index'[x] = index[x]
    BY <1>9, <1>10
  <2>2. ASSUME NEW x \in Session, Alive(x), owner[x] = p, x \notin lapsed', Opened(x)
        PROVE  /\ now < index'[p].expires /\ x \in index'[p].members
               /\ key[x] <= index'[p].expires \/ Renewing(x)'
    <3>1. CoveredBy(x)
      BY <1>5, <2>2 DEF SessionInv, Covered, pastVars
    <3>2. x \in Members(index[p])
      BY <2>2, <3>1 DEF CoveredBy, Members
    <3>3. index'[p].expires = index[p].expires /\ x \in index'[p].members
      <4>1. CASE index' = index
        BY <2>2, <3>1, <4>1 DEF CoveredBy
      <4>2. CASE index' = [index EXCEPT ![p] = r]
        BY <1>8, <1>9, <3>2, <4>2
      <4> QED BY <1>10, <4>1, <4>2
    <3>4. Renewing(x) => Renewing(x)'
      <4>1. \A y \in Call : call'[y] = IF y = h THEN rec ELSE call[y]
        BY <1>3 DEF SessionInv, CallsOK
      <4> QED BY <1>1, <1>5, <4>1 DEF Renewing
    <3> QED BY <2>2, <3>1, <3>3, <3>4 DEF CoveredBy
  <2>3. rec.pc # "in" /\ call[h].pc # "extend index" /\ lapsed \subseteq lapsed'
    BY <1>1, <1>4, <1>5 DEF pastVars
  <2> QED BY <1>3, <1>4, <1>5, <2>1, <2>2, <2>3, IndexKept
<1>13. HoldOK(rec, owner)
  BY <1>2, <1>4, <1>5 DEF HoldOK
<1>14. Op \subseteq Op'
  BY <1>1, <1>3, <1>4, <1>5, StillOpen DEF SessionInv
<1>15. EndOK(rec, Over', Op')
  BY <1>2, <1>4, <1>14 DEF EndOK, Past
<1>16. call[h].pc # "in" /\ lapsed \subseteq lapsed' /\ owner' = owner /\ worker' = worker
  BY <1>1, <1>5 DEF pastVars
<1> QED BY <1>3, <1>4, <1>11, <1>12, <1>13, <1>15, <1>16, CallMoves

\* EXPIRE of an index that is there covers all its sessions.
LEMMA ExpireRecord ==
  ASSUME SessionInv, NEW p \in Person
  PROVE  /\ Expire(index[p], SessionTTL) \in IndexRec
         /\ \A x \in Expire(index[p], SessionTTL).members : owner[x] = p
         /\ \A x \in Members(index[p]) :
               /\ x \in Expire(index[p], SessionTTL).members
               /\ now < Expire(index[p], SessionTTL).expires
               /\ key[x] <= Expire(index[p], SessionTTL).expires
<1>1. StoreTyped /\ index[p] \in IndexRec /\ \A x \in index[p].members : owner[x] = p
  BY DEF SessionInv, StoreOK, StoreTyped
<1>2. PICK r : r = Expire(index[p], SessionTTL)
  OBVIOUS
<1>3. /\ r \in IndexRec /\ r.members = index[p].members
      /\ Members(index[p]) # {} => r.expires = now + SessionTTL
  BY <1>1, <1>2, ExpireTyped DEF IndexRec
<1>4. now < now + SessionTTL
  BY <1>1, Lifetimes DEF StoreTyped
<1>5. \A x \in Members(index[p]) : x \in Session /\ x \in index[p].members
  BY IndexMembers
<1>6. \A x \in Session : key[x] <= now + SessionTTL
  BY DEF SessionInv, StoreOK
<1>7. \A x \in r.members : owner[x] = p
  BY <1>1, <1>3
<1>8. \A x \in Members(index[p]) : x \in r.members /\ now < r.expires /\ key[x] <= r.expires
  BY <1>3, <1>4, <1>5, <1>6
<1> QED BY <1>2, <1>3, <1>7, <1>8

LEMMA LapsesAreSessions ==
  ASSUME NEW s \in Session, NEW old, old \subseteq Session
  PROVE  old \subseteq old \cup Lapses(s) /\ old \cup Lapses(s) \subseteq Session
  BY DEF Lapses

LEMMA IndexTTLPreserves ==
  ASSUME SessionInv, NEW h \in Call, IndexTTL(h)
  PROVE  SessionInv'
<1>1. PICK c : c = call[h]
  OBVIOUS
<1>2. c \in CallRec /\ HoldOK(c, owner) /\ EndOK(c, Over, Op)
  BY <1>1, Recorded
<1>3. PICK t : t = [c EXCEPT !.pc = "in"]
  OBVIOUS
<1>4. /\ t \in CallRec /\ t.pc = "in" /\ t.mode = c.mode /\ t.who = c.who
      /\ t.opened = c.opened /\ t.sid = c.sid
  BY <1>2, <1>3 DEF CallRec, Ended
<1>5. c.pc = "index ttl" /\ UNCHANGED <<now, key, owner, reg, about, queue, worker, told, gone>>
  BY <1>1 DEF IndexTTL, Step
<1>6. PICK p \in Person, s \in Session : p = c.who /\ s = c.sid /\ owner[s] = p
  BY <1>2, <1>5 DEF HoldOK
<1>7. PICK r : r = Expire(index[p], SessionTTL)
  OBVIOUS
<1>8. PICK rec \in {t, Unclean(t)} :
        /\ call' = [call EXCEPT ![h] = rec]
        /\ \/ /\ index' = [index EXCEPT ![p] = r]
              /\ lapsed' = IF s \in Members(index[p]) THEN lapsed ELSE lapsed \cup Lapses(s)
           \/ lapsed' = lapsed \cup Lapses(s) /\ index' = index
  BY <1>1, <1>3, <1>6, <1>7 DEF IndexTTL, Step
<1>9. /\ rec \in CallRec /\ rec.pc = "in" /\ rec.mode = c.mode /\ rec.who = c.who
      /\ rec.opened = c.opened /\ rec.sid = s
  BY <1>4, <1>6, <1>8, UncleanRecord
<1>10. /\ r \in IndexRec /\ \A x \in r.members : owner[x] = p
       /\ \A x \in Members(index[p]) : x \in r.members /\ now < r.expires /\ key[x] <= r.expires
  BY <1>6, <1>7, ExpireRecord
<1>11. index \in [Person -> IndexRec] /\ lapsed \subseteq Session
  BY DEF SessionInv, StoreOK, StoreTyped
<1>12. index' = index \/ index' = [index EXCEPT ![p] = r]
  BY <1>8
<1>13. lapsed \subseteq lapsed' /\ lapsed' \subseteq Session
  BY <1>8, <1>11, LapsesAreSessions
<1>14. KeysMove /\ StoreOK'
  BY <1>5, <1>10, <1>12, <1>13, IndexChanges
<1>15. Covered'
  <2>1. \A x \in Person : x # p => index'[x] = index[x]
    BY <1>11, <1>12
  <2>2. ASSUME NEW x \in Session, Alive(x), owner[x] = p, x \notin lapsed', Opened(x) \/ x = s
        PROVE  /\ now < index'[p].expires /\ x \in index'[p].members
               /\ key[x] <= index'[p].expires \/ Renewing(x)'
    <3>1. x \in Members(index[p]) /\ (x = s => index' = [index EXCEPT ![p] = r])
      <4>1. CASE Opened(x) /\ x # s
        <5>1. CoveredBy(x)
          BY <1>13, <2>2, <4>1 DEF SessionInv, Covered
        <5> QED BY <2>2, <4>1, <5>1 DEF CoveredBy, Members
      <4>2. CASE x = s
        <5>1. lapsed' # lapsed \cup Lapses(s)
          BY <2>2, <4>2 DEF Lapses
        <5> QED BY <1>8, <4>2, <5>1
      <4> QED BY <2>2, <4>1, <4>2
    <3>2. CASE index' = [index EXCEPT ![p] = r]
      BY <1>10, <1>11, <3>1, <3>2
    <3>3. CASE index' = index /\ x # s
      <4>1. CoveredBy(x)
        BY <1>13, <2>2, <3>3 DEF SessionInv, Covered
      <4>2. Renewing(x) => Renewing(x)'
        <5>1. \A y \in Call : call'[y] = IF y = h THEN rec ELSE call[y]
          BY <1>8 DEF SessionInv, CallsOK
        <5> QED BY <1>1, <1>5, <5>1 DEF Renewing
      <4> QED BY <2>2, <3>3, <4>1, <4>2 DEF CoveredBy
    <3> QED BY <1>12, <3>1, <3>2, <3>3
  <2>3. call[h].pc # "extend index" /\ (rec.pc = "in" => owner[rec.sid] = p)
    BY <1>1, <1>5, <1>6, <1>9
  <2>4. \A x \in Session :
            /\ Alive(x) /\ owner[x] = p /\ x \notin lapsed'
            /\ Opened(x) \/ (rec.pc = "in" /\ rec.sid = x)
            => /\ now < index'[p].expires /\ x \in index'[p].members
               /\ key[x] <= index'[p].expires \/ Renewing(x)'
    BY <1>9, <2>2
  <2> QED BY <1>5, <1>8, <1>9, <1>13, <2>1, <2>3, <2>4, IndexKept
<1>16. HoldOK(rec, owner)
  BY <1>2, <1>5, <1>6, <1>9 DEF HoldOK
<1>17. Op \subseteq Op'
  BY <1>1, <1>5, <1>8, <1>9, StillOpen DEF SessionInv
<1>18. EndOK(rec, Over', Op')
  BY <1>2, <1>9, <1>17 DEF EndOK, Past
<1>19. call[h].pc # "in" /\ owner' = owner /\ worker' = worker
  BY <1>1, <1>5
<1> QED BY <1>8, <1>9, <1>13, <1>14, <1>15, <1>16, <1>18, <1>19, CallMoves

LEMMA ExtendIndexPreserves ==
  ASSUME SessionInv, NEW h \in Call, ExtendIndex(h)
  PROVE  SessionInv'
<1>1. PICK c : c = call[h]
  OBVIOUS
<1>2. c \in CallRec /\ HoldOK(c, owner) /\ EndOK(c, Over, Op)
  BY <1>1, Recorded
<1>3. PICK t : t = [c EXCEPT !.pc = "active", !.sid = NoSession]
  OBVIOUS
<1>4. /\ t \in CallRec /\ t.pc = "active" /\ t.mode = c.mode /\ t.who = c.who
      /\ t.opened = c.opened
  BY <1>2, <1>3 DEF CallRec, Ended
<1>5. c.pc = "extend index" /\ UNCHANGED <<now, key, owner, reg, about, queue, worker, told, gone>>
  BY <1>1 DEF ExtendIndex, Step
<1>6. PICK p \in Person, s \in Session : p = c.who /\ s = c.sid /\ owner[s] = p
  BY <1>2, <1>5 DEF HoldOK
<1>7. PICK r : r = Expire(index[p], SessionTTL)
  OBVIOUS
<1>8. PICK rec \in {t, Unclean(t)} :
        /\ call' = [call EXCEPT ![h] = rec]
        /\ \/ index' = [index EXCEPT ![p] = r] /\ lapsed' = lapsed
           \/ lapsed' = lapsed \cup Lapses(s) /\ index' = index
  BY <1>1, <1>3, <1>6, <1>7 DEF ExtendIndex, IndexRenewed, Step
<1>9. /\ rec \in CallRec /\ rec.pc = "active" /\ rec.mode = c.mode /\ rec.who = c.who
      /\ rec.opened = c.opened
  BY <1>4, <1>8, UncleanRecord
<1>10. /\ r \in IndexRec /\ \A x \in r.members : owner[x] = p
       /\ \A x \in Members(index[p]) : x \in r.members /\ now < r.expires /\ key[x] <= r.expires
  BY <1>6, <1>7, ExpireRecord
<1>11. index \in [Person -> IndexRec] /\ lapsed \subseteq Session
  BY DEF SessionInv, StoreOK, StoreTyped
<1>12. index' = index \/ index' = [index EXCEPT ![p] = r]
  BY <1>8
<1>13. lapsed \subseteq lapsed' /\ lapsed' \subseteq Session
  BY <1>8, <1>11, LapsesAreSessions
<1>14. KeysMove /\ StoreOK'
  BY <1>5, <1>10, <1>12, <1>13, IndexChanges
<1>15. Covered'
  <2>1. \A x \in Person : x # p => index'[x] = index[x]
    BY <1>11, <1>12
  <2>2. ASSUME NEW x \in Session, Alive(x), owner[x] = p, x \notin lapsed', Opened(x)
        PROVE  /\ now < index'[p].expires /\ x \in index'[p].members
               /\ key[x] <= index'[p].expires \/ Renewing(x)'
    <3>1. CoveredBy(x)
      BY <1>13, <2>2 DEF SessionInv, Covered
    <3>2. x \in Members(index[p])
      BY <2>2, <3>1 DEF CoveredBy, Members
    <3>3. CASE index' = [index EXCEPT ![p] = r]
      BY <1>10, <1>11, <3>2, <3>3
    <3>4. CASE lapsed' = lapsed \cup Lapses(s) /\ index' = index
      <4>1. x # s
        BY <2>2, <3>4 DEF Lapses
      <4>2. Renewing(x) => Renewing(x)'
        <5>1. \A y \in Call : call'[y] = IF y = h THEN rec ELSE call[y]
          BY <1>8 DEF SessionInv, CallsOK
        <5> QED BY <1>1, <1>6, <4>1, <5>1 DEF Renewing
      <4> QED BY <2>2, <3>1, <3>4, <4>2 DEF CoveredBy
    <3> QED BY <1>8, <3>3, <3>4
  <2>3. call[h].who = p /\ rec.pc # "in"
    BY <1>1, <1>6, <1>9
  <2> QED BY <1>5, <1>8, <1>9, <1>13, <2>1, <2>2, <2>3, IndexKept
<1>16. HoldOK(rec, owner)
  BY <1>2, <1>9 DEF HoldOK
<1>17. Op \subseteq Op'
  BY <1>1, <1>5, <1>8, <1>9, StillOpen DEF SessionInv
<1>18. EndOK(rec, Over', Op')
  BY <1>2, <1>9, <1>17 DEF EndOK, Past
<1>19. call[h].pc # "in" /\ owner' = owner /\ worker' = worker
  BY <1>1, <1>5
<1> QED BY <1>8, <1>9, <1>13, <1>14, <1>15, <1>16, <1>18, <1>19, CallMoves

\* Over grows, and so does what a call has achieved.
LEMMA OpenedStaysOver ==
  ASSUME SessionInv, KeysMove, lapsed \subseteq lapsed', NEW c \in CallRec,
         HoldOK(c, owner), c.mode # "none", c.opened \subseteq Over
  PROVE  c.opened \subseteq Over'
<1> SUFFICES ASSUME NEW s \in c.opened PROVE s \in Over'
  OBVIOUS
<1>1. s \in Session /\ owner[s] \in Person /\ s \in Over
  BY DEF CallRec, HoldOK
<1> QED BY <1>1, OverGrows

LEMMA DropIndexPreserves ==
  ASSUME SessionInv, NEW h \in Call, DropIndex(h)
  PROVE  SessionInv'
<1>1. PICK c : c = call[h]
  OBVIOUS
<1>2. c \in CallRec /\ HoldOK(c, owner) /\ EndOK(c, Over, Op)
  BY <1>1, Recorded
<1>3. c.pc = "drop index" /\ UNCHANGED <<now, key, owner, reg, about, queue, worker, told, gone>>
  BY <1>1 DEF DropIndex, Step
<1>4. c.mode # "none" /\ c.who \in Person
  BY <1>2, <1>3 DEF HoldOK
<1>5. PICK p \in Person : p = c.who
  BY <1>4
<1>6. PICK left : left = {s \in Members(index[p]) : Alive(s) /\ (s \notin c.opened \/ ~c.clean)}
  OBVIOUS
<1>7. left \subseteq Session
  BY <1>6, IndexMembers
<1>8. PICK t \in {c, Unclean(c)} :
        /\ Step(h, "drop index", AfterRevoke(t))
        /\ \/ t = c /\ index' = [index EXCEPT ![p] = NoKey] /\ lapsed' = lapsed \cup left
           \/ index' = index /\ lapsed' = lapsed
  BY <1>1, <1>5, <1>6 DEF DropIndex
<1>9. t \in CallRec /\ t.mode = c.mode /\ t.who = c.who /\ t.opened = c.opened /\ (t.clean => c.clean)
  BY <1>2, <1>8, UncleanRecord
<1>10. PICK rec : rec = AfterRevoke(t)
  OBVIOUS
<1>11. /\ rec \in CallRec /\ rec.mode = c.mode /\ rec.who = c.who /\ rec.opened = c.opened
       /\ rec.clean => c.clean
       /\ rec.pc = "out" \/ (c.mode = "end_session" /\ rec.pc \in {"list", "regs"})
  <2>1. PICK s \in Session \cup {NoSession} : t.sid = s
    BY <1>9 DEF CallRec
  <2>2. /\ rec \in CallRec /\ rec.mode = t.mode /\ rec.who = t.who /\ rec.opened = t.opened
        /\ rec.clean = t.clean
        /\ rec.pc = "out" \/ (t.mode = "end_session" /\ rec.pc \in {"list", "regs"})
    BY <1>9, <1>10, <2>1, AfterRevokeRecord
  <2>3. rec.clean => c.clean
    BY <1>9, <2>2
  <2> QED BY <1>9, <2>2, <2>3
<1>12. call' = [call EXCEPT ![h] = rec]
  BY <1>8, <1>10 DEF Step
<1>13. NoKey \in IndexRec /\ NoKey.members = {}
  BY Lifetimes DEF NoKey, IndexRec, SessionInv, StoreOK, StoreTyped
<1>14. index \in [Person -> IndexRec] /\ lapsed \subseteq Session
  BY DEF SessionInv, StoreOK, StoreTyped
<1>15. lapsed \subseteq lapsed' /\ lapsed' \subseteq Session
  BY <1>7, <1>8, <1>14
<1>16. KeysMove /\ StoreOK'
  BY <1>3, <1>8, <1>13, <1>15, IndexChanges
<1>17. Covered'
  <2>1. \A x \in Person : x # p => index'[x] = index[x]
    BY <1>8, <1>14
  <2>2. ASSUME NEW x \in Session, Alive(x), owner[x] = p, x \notin lapsed', Opened(x)
        PROVE  /\ now < index'[p].expires /\ x \in index'[p].members
               /\ key[x] <= index'[p].expires \/ Renewing(x)'
    <3>1. CoveredBy(x) /\ x \notin lapsed
      BY <1>15, <2>2 DEF SessionInv, Covered
    <3>2. x \in Members(index[p])
      BY <2>2, <3>1 DEF CoveredBy, Members
    <3>3. CASE index' = index
      <4>1. Renewing(x) => Renewing(x)'
        <5>1. \A y \in Call : call'[y] = IF y = h THEN rec ELSE call[y]
          BY <1>12 DEF SessionInv, CallsOK
        <5> QED BY <1>1, <1>3, <5>1 DEF Renewing
      <4> QED BY <2>2, <3>1, <3>3, <4>1 DEF CoveredBy
    <3>4. CASE lapsed' = lapsed \cup left
      <4>1. x \notin left
        BY <2>2, <3>4
      <4>2. x \in c.opened /\ c.clean
        BY <1>6, <2>2, <3>2, <4>1
      <4>3. x \in Over
        BY <1>2, <1>3, <4>2 DEF EndOK, Past
      <4> QED BY <2>2, <3>1, <4>3 DEF Over
    <3> QED BY <1>8, <3>3, <3>4
  <2>3. call[h].pc # "extend index" /\ rec.pc # "in"
    BY <1>1, <1>3, <1>11
  <2> QED BY <1>3, <1>11, <1>12, <1>15, <2>1, <2>2, <2>3, IndexKept
<1>18. HoldOK(rec, owner)
  BY <1>2, <1>11 DEF HoldOK
<1>19. Op \subseteq Op'
  BY <1>1, <1>3, <1>11, <1>12, StillOpen DEF SessionInv
<1>20. EndOK(rec, Over', Op')
  <2>1. c.clean => c.opened \subseteq Over'
    BY <1>2, <1>3, <1>4, <1>15, <1>16, OpenedStaysOver DEF EndOK, Past
  <2>2. c.opened \subseteq Op'
    BY <1>2, <1>19 DEF EndOK
  <2> QED BY <1>11, <2>1, <2>2 DEF EndOK
<1>21. call[h].pc # "in" /\ owner' = owner /\ worker' = worker
  BY <1>1, <1>3
<1>22. rec \in CallRec
  BY <1>11
<1> QED BY <1>12, <1>15, <1>16, <1>17, <1>18, <1>20, <1>21, <1>22, CallMoves

\* A call that stops half-way holds the renewal of the index back.
LEMMA StopCallPreserves ==
  ASSUME SessionInv, NEW h \in Call, StopCall(h)
  PROVE  SessionInv'
<1>1. PICK c : c = call[h]
  OBVIOUS
<1>2. c \in CallRec /\ HoldOK(c, owner) /\ EndOK(c, Over, Op)
  BY <1>1, Recorded
<1>3. c.pc \in Running /\ UNCHANGED <<now, storeVars, queue, worker, told, gone>>
  BY <1>1 DEF StopCall
<1>4. PICK rec : rec = [c EXCEPT !.pc = "stopped"]
  OBVIOUS
<1>5. /\ rec \in CallRec /\ rec.pc = "stopped" /\ rec.mode = c.mode /\ rec.who = c.who
      /\ rec.opened = c.opened
  BY <1>2, <1>4 DEF CallRec, Ended
<1>6. call' = [call EXCEPT ![h] = rec]
  BY <1>1, <1>2, <1>4 DEF StopCall, SessionInv, CallsOK
<1>7. c.pc # "in"
  BY <1>3 DEF Running
<1>8. HoldOK(rec, owner)
  BY <1>2, <1>5 DEF HoldOK
<1>9. CASE c.pc # "extend index"
  <2>1. lapsed' = lapsed
    BY <1>1, <1>9 DEF StopCall
  <2>2. EndOK(rec, Over, Op)
    BY <1>2, <1>5 DEF EndOK, Past
  <2>3. UNCHANGED <<now, storeVars, queue, worker, pastVars>>
    BY <1>3, <2>1 DEF pastVars
  <2>4. call[h].pc \notin {"in", "extend index"} /\ rec.pc # "in" /\ rec \in CallRec
    BY <1>1, <1>5, <1>7, <1>9
  <2> QED BY <1>6, <1>8, <2>2, <2>3, <2>4, OwnRecord
<1>10. CASE c.pc = "extend index"
  <2>1. PICK p \in Person, s \in Session : p = c.who /\ s = c.sid /\ owner[s] = p
    BY <1>2, <1>10 DEF HoldOK
  <2>2. lapsed' = lapsed \cup Lapses(s)
    BY <1>1, <1>10, <2>1 DEF StopCall
  <2>3. UNCHANGED <<now, key, owner, index, reg, about, queue, worker, told, gone>>
    BY <1>3 DEF storeVars
  <2>4. lapsed \subseteq Session /\ index \in [Person -> IndexRec]
    BY DEF SessionInv, StoreOK, StoreTyped
  <2>5. lapsed \subseteq lapsed' /\ lapsed' \subseteq Session
    BY <2>2, <2>4, LapsesAreSessions
  <2>6. PICK r : r = index[p]
    OBVIOUS
  <2>7. r \in IndexRec /\ \A x \in r.members : owner[x] = p
    BY <2>4, <2>6 DEF SessionInv, StoreOK
  <2>8. KeysMove /\ StoreOK'
    BY <2>3, <2>5, <2>7, IndexChanges
  <2>9. Covered'
    <3>1. ASSUME NEW x \in Session, Alive(x), owner[x] = p, x \notin lapsed', Opened(x)
          PROVE  /\ now < index'[p].expires /\ x \in index'[p].members
                 /\ key[x] <= index'[p].expires \/ Renewing(x)'
      <4>1. CoveredBy(x) /\ x # s
        BY <2>2, <2>5, <3>1 DEF SessionInv, Covered, Lapses
      <4>2. Renewing(x) => Renewing(x)'
        <5>1. \A y \in Call : call'[y] = IF y = h THEN rec ELSE call[y]
          BY <1>6 DEF SessionInv, CallsOK
        <5> QED BY <1>1, <2>1, <4>1, <5>1 DEF Renewing
      <4> QED BY <2>3, <3>1, <4>1, <4>2 DEF CoveredBy
    <3>2. call[h].who = p /\ rec.pc # "in" /\ rec \in CallRec
      BY <1>1, <1>5, <2>1
    <3>3. \A x \in Person : x # p => index'[x] = index[x]
      BY <2>3
    <3>4. \A x \in Session :
             /\ Alive(x) /\ owner[x] = p /\ x \notin lapsed'
             /\ Opened(x) \/ (rec.pc = "in" /\ rec.sid = x)
             => /\ now < index'[p].expires /\ x \in index'[p].members
                /\ key[x] <= index'[p].expires \/ Renewing(x)'
      BY <3>1, <3>2
    <3>5. UNCHANGED <<now, key, owner>> /\ lapsed \subseteq lapsed'
      BY <2>3, <2>5
    <3>6. /\ call[h].pc = "extend index" => call[h].who = p
          /\ rec.pc = "in" => owner[rec.sid] = p
      BY <3>2
    <3>7. rec \in CallRec /\ call' = [call EXCEPT ![h] = rec]
      BY <1>6, <3>2
    <3> QED BY <3>3, <3>4, <3>5, <3>6, <3>7, IndexKept
  <2>10. Op \subseteq Op'
    BY <1>1, <1>5, <1>6, <1>7, StillOpen DEF SessionInv
  <2>11. EndOK(rec, Over', Op')
    BY <1>2, <1>5, <2>10 DEF EndOK, Past
  <2>12. call[h].pc # "in" /\ owner' = owner /\ worker' = worker /\ rec \in CallRec
    BY <1>1, <1>5, <1>7, <2>3
  <2> QED BY <1>6, <1>8, <2>5, <2>8, <2>9, <2>11, <2>12, CallMoves
<1> QED BY <1>9, <1>10

-----------------------------------------------------------------------------
(* Logins, the worker and the clock.                                       *)

LEMMA CreateSessionPreserves ==
  ASSUME SessionInv, NEW h \in Call, NEW p \in Person, NEW s \in Session, CreateSession(h, p, s)
  PROVE  SessionInv'
<1>1. PICK rec : rec = [NewCall EXCEPT !.pc = "index", !.who = p, !.sid = s]
  OBVIOUS
<1>2. call[h].pc = "idle" /\ call' = [call EXCEPT ![h] = rec]
  BY <1>1 DEF CreateSession, Step
<1>3. /\ rec \in CallRec /\ rec.pc = "index" /\ rec.mode = "none" /\ rec.who = p
      /\ rec.sid = s /\ rec.opened = {}
  BY <1>1, NewCallTyped DEF CallRec, Running
<1>4. /\ owner[s] = NoPerson /\ key' = [key EXCEPT ![s] = now + SessionTTL]
      /\ owner' = [owner EXCEPT ![s] = p]
      /\ UNCHANGED <<now, index, reg, about, queue, worker, pastVars>>
  BY DEF CreateSession
<1>5. StoreOK /\ StoreTyped
  BY DEF SessionInv, StoreOK
<1>6. \A x \in Session : owner'[x] = IF x = s THEN p ELSE owner[x]
  BY <1>4, <1>5 DEF StoreTyped
<1>7. Onward
  <2>1. KeysMove
    BY Times, CreateMoves
  <2>2. \A x \in Session : owner[x] \in Person => owner'[x] = owner[x]
    BY <1>4, <1>6, NullAssumption
  <2> QED BY <1>4, <2>1, <2>2 DEF Onward, pastVars
<1>8. now \in Nat /\ now + SessionTTL \in Instant /\ now + SessionTTL \in Nat
  <2>1. now \in 1 .. MaxTime
    BY <1>5 DEF StoreTyped
  <2>2. now + SessionTTL \in Instant
    BY <2>1, Lifetimes
  <2> QED BY <2>1, <2>2, TTLAssumption
<1>9. \A x \in Session : key'[x] = IF x = s THEN now + SessionTTL ELSE key[x]
  BY <1>4, <1>5 DEF StoreTyped
<1>10. StoreOK'
  <2>1. key' \in [Session -> Instant] /\ owner' \in [Session -> Person \cup {NoPerson}]
    BY <1>4, <1>5, <1>8 DEF StoreTyped
  <2>2. StoreTyped'
    BY <1>4, <1>5, <2>1 DEF StoreTyped, pastVars
  <2>3. \A x \in Session : key'[x] <= now + SessionTTL
    BY <1>5, <1>8, <1>9 DEF StoreOK
  <2>4. \A q \in Person : \A x \in index[q].members : x \in Session /\ owner'[x] = q
    <3> SUFFICES ASSUME NEW q \in Person, NEW x \in index[q].members
                 PROVE  x \in Session /\ owner'[x] = q
      OBVIOUS
    <3>1. index[q] \in IndexRec /\ owner[x] = q
      BY <1>5 DEF StoreOK, StoreTyped
    <3>2. x \in Session /\ x # s
      BY <1>4, <3>1, NullAssumption DEF IndexRec
    <3> QED BY <1>6, <3>1, <3>2
  <2> QED BY <1>4, <2>2, <2>3, <2>4 DEF StoreOK
<1>11. HoldOK(rec, owner') /\ EndOK(rec, Over', Op')
  BY <1>3, <1>6 DEF HoldOK, EndOK
<1>12. CallsOK'
  BY <1>2, <1>3, <1>7, <1>11, CallStep
<1>13. Covered'
  <2> SUFFICES ASSUME NEW x \in Session, Alive(x)', Opened(x)', x \notin lapsed'
               PROVE  CoveredBy(x)'
    BY DEF Covered
  <2>1. \A y \in Call : call'[y] = IF y = h THEN rec ELSE call[y]
    BY <1>2 DEF SessionInv, CallsOK
  <2>2. Opened(x) /\ (Renewing(x) => Renewing(x)')
    BY <1>2, <1>3, <2>1 DEF Opened, Renewing
  <2>3. owner[x] \in Person /\ x # s
    BY <1>4, <2>2, OpenedOwned, NullAssumption
  <2>4. key'[x] = key[x] /\ owner'[x] = owner[x] /\ x \notin lapsed
    BY <1>4, <1>6, <1>9, <2>3 DEF pastVars
  <2>5. CoveredBy(x)
    BY <1>4, <2>2, <2>4 DEF SessionInv, Covered, Alive
  <2> QED BY <1>4, <2>2, <2>4, <2>5 DEF CoveredBy
<1> QED BY <1>4, <1>10, <1>12, <1>13 DEF SessionInv

\* A step of a worker, which touches no call, no session and no index.
LEMMA Beside ==
  ASSUME SessionInv, StoreTyped', worker' \in [Worker -> WorkerRec],
         UNCHANGED <<now, key, owner, index, call, lapsed>>
  PROVE  SessionInv'
<1>1. StoreOK'
  BY StoreStays DEF SessionInv
<1>2. CallsOK'
  BY DEF SessionInv, CallsOK, Over, Op, Alive, Opened
<1>3. Covered'
  BY DEF SessionInv, Covered, CoveredBy, Alive, Opened, Renewing
<1> QED BY <1>1, <1>2, <1>3 DEF SessionInv

LEMMA NoJobTyped == NoJob \in WorkerRec
<1>1. 0 \in 0 .. MaxAttempts - 1
  BY TTLAssumption
<1> QED BY <1>1 DEF NoJob, WorkerRec

LEMMA DequeuePreserves ==
  ASSUME SessionInv, NEW w \in Worker, Dequeue(w)
  PROVE  SessionInv'
<1>1. StoreTyped /\ worker \in [Worker -> WorkerRec]
  BY DEF SessionInv, StoreOK
<1>2. queue # <<>> /\ queue' = Tail(queue) /\ UNCHANGED <<now, storeVars, call, told, lapsed>>
  BY DEF Dequeue
<1> DEFINE Job == [notice : Notice, at : Instant]
<1>3. queue \in Seq(Job)
  BY <1>1 DEF StoreTyped
<1>4. Head(queue).notice \in Notice /\ queue' \in Seq(Job)
  <2> HIDE DEF Job
  <2>1. Head(queue) \in Job /\ Tail(queue) \in Seq(Job)
    BY <1>2, <1>3
  <2>2. Head(queue).notice \in Notice
    BY <2>1 DEF Job
  <2> QED BY <1>2, <2>1, <2>2
<1>5. PICK n \in Notice : n = Head(queue).notice
  BY <1>4
<1>6. \/ gone' = gone \cup {n} /\ worker' = worker
      \/ worker' = [worker EXCEPT ![w].notice = n] /\ gone' = gone
  BY <1>5 DEF Dequeue
<1>7. worker' \in [Worker -> WorkerRec]
  <2>1. CASE worker' = worker
    BY <1>1, <2>1
  <2>2. CASE worker' = [worker EXCEPT ![w].notice = n]
    <3>1. [worker[w] EXCEPT !.notice = n] \in WorkerRec
      BY <1>1 DEF WorkerRec
    <3> HIDE DEF WorkerRec
    <3> QED BY <1>1, <2>2, <3>1
  <2> QED BY <1>6, <2>1, <2>2
<1>8. StoreTyped'
  BY <1>1, <1>2, <1>4, <1>6 DEF StoreTyped, storeVars
<1> QED BY <1>2, <1>7, <1>8, Beside DEF storeVars

LEMMA SendPreserves ==
  ASSUME SessionInv, NEW w \in Worker, SendOK(w) \/ SendFails(w) \/ StopWorker(w)
  PROVE  SessionInv'
<1>1. StoreTyped /\ worker \in [Worker -> WorkerRec]
  BY DEF SessionInv, StoreOK
<1>2. ~Idle(w) /\ UNCHANGED <<now, storeVars, queue, call, lapsed>>
  BY DEF SendOK, SendFails, StopWorker
<1>3. PICK j \in WorkerRec : j = worker[w]
  BY <1>1
<1>4. j.notice \in Notice /\ j.tries \in 0 .. MaxAttempts - 1
  BY <1>2, <1>3 DEF WorkerRec, Idle
<1>5. /\ told' = told \/ told' = told \cup {j.notice}
      /\ gone' = gone \/ gone' = gone \cup {j.notice}
  BY <1>3 DEF SendOK, SendFails, StopWorker
<1>6. StoreTyped'
  BY <1>1, <1>2, <1>4, <1>5 DEF StoreTyped, storeVars
<1>7. PICK r \in WorkerRec : worker' = [worker EXCEPT ![w] = r]
  <2>1. CASE SendOK(w)
    <3>1. [j EXCEPT !.sent = TRUE] \in WorkerRec
      BY DEF WorkerRec
    <3>2. worker' = [worker EXCEPT ![w] = [j EXCEPT !.sent = TRUE]]
      BY <1>3, <2>1 DEF SendOK
    <3> QED BY <3>1, <3>2
  <2>2. CASE SendFails(w)
    <3>1. CASE j.tries + 1 = MaxAttempts
      BY <1>3, <2>2, <3>1, NoJobTyped DEF SendFails
    <3>2. CASE j.tries + 1 # MaxAttempts
      <4>1. j.tries + 1 \in 0 .. MaxAttempts - 1
        BY <1>4, <3>2, TTLAssumption
      <4>2. [j EXCEPT !.tries = j.tries + 1] \in WorkerRec
        BY <4>1 DEF WorkerRec
      <4>3. worker' = [worker EXCEPT ![w] = [j EXCEPT !.tries = j.tries + 1]]
        BY <1>3, <2>2, <3>2 DEF SendFails
      <4> QED BY <4>2, <4>3
    <3> QED BY <3>1, <3>2
  <2>3. CASE StopWorker(w)
    BY <2>3, NoJobTyped DEF StopWorker
  <2> QED BY <2>1, <2>2, <2>3
<1>8. worker' \in [Worker -> WorkerRec]
  BY <1>1, <1>7
<1> QED BY <1>2, <1>6, <1>8, Beside DEF storeVars

LEMMA ForgetPreserves ==
  ASSUME SessionInv, NEW w \in Worker, Forget(w)
  PROVE  SessionInv'
<1>1. StoreTyped /\ worker \in [Worker -> WorkerRec]
  BY DEF SessionInv, StoreOK
<1>2. PICK n, s : n = worker[w].notice /\ s = about[n]
  OBVIOUS
<1>3. /\ UNCHANGED <<now, key, owner, index, about, queue, call, pastVars>>
      /\ worker' = [worker EXCEPT ![w] = NoJob]
      /\ reg' = reg \/ reg' = [reg EXCEPT ![s] = SRem(@, n)]
  BY <1>2 DEF Forget
<1>4. \A k \in RegRec : SRem(k, n) \in RegRec
  BY DEF SRem, RegRec
<1>5. reg' \in [Session -> RegRec]
  <2>1. reg \in [Session -> RegRec]
    BY <1>1 DEF StoreTyped
  <2> HIDE DEF RegRec
  <2>2. CASE reg' = [reg EXCEPT ![s] = SRem(@, n)]
    <3>1. \A x \in Session : reg'[x] = IF x = s THEN SRem(reg[x], n) ELSE reg[x]
      BY <2>1, <2>2
    <3>2. reg' = [x \in Session |-> reg'[x]]
      BY <2>1, <2>2
    <3> QED BY <1>4, <2>1, <3>1, <3>2
  <2> QED BY <1>3, <2>1, <2>2
<1>6. StoreTyped'
  BY <1>1, <1>3, <1>5 DEF StoreTyped, pastVars
<1>7. worker' \in [Worker -> WorkerRec]
  BY <1>1, <1>3, NoJobTyped
<1> QED BY <1>3, <1>6, <1>7, Beside DEF pastVars

\* What runs out before its index is renewed lapses.
LEMMA TickPreserves ==
  ASSUME SessionInv, Tick
  PROVE  SessionInv'
<1>1. StoreOK /\ StoreTyped
  BY DEF SessionInv, StoreOK
<1>2. /\ now < MaxTime /\ now' = now + 1
      /\ UNCHANGED <<key, owner, index, reg, about, queue, call, worker, told, gone>>
      /\ lapsed' = lapsed \cup {s \in Session : Alive(s)' /\ RunsOut(s)}
  BY DEF Tick, storeVars
<1>3. now \in Nat /\ now' \in 1 .. MaxTime
  BY <1>1, <1>2, TTLAssumption DEF StoreTyped
<1>4. StoreOK'
  <2>1. StoreTyped'
    BY <1>1, <1>2, <1>3 DEF StoreTyped
  <2>2. ASSUME NEW s \in Session PROVE key'[s] <= now' + SessionTTL
    <3>1. key[s] \in Nat /\ key[s] <= now + SessionTTL
      BY <1>1, Times DEF StoreOK, TimesOK
    <3> QED BY <1>2, <1>3, <3>1, TTLAssumption
  <2>3. \A p \in Person : \A s \in index'[p].members : owner'[s] = p
    BY <1>1, <1>2 DEF StoreOK
  <2> QED BY <2>1, <2>2, <2>3 DEF StoreOK
<1>5. KeysMove
  <2>1. TimesOK' /\ now <= now'
    BY <1>2, <1>3, Times DEF TimesOK
  <2> QED BY <1>2, <2>1 DEF KeysMove
<1>6. Onward
  BY <1>2, <1>5 DEF Onward
<1>7. Op' = Op
  BY <1>2 DEF Op, Opened
<1>8. CallsOK'
  <2>1. \A h \in Call : HoldOK(call[h], owner') /\ EndOK(call[h], Over', Op')
    BY <1>6, <1>7, StaysSound
  <2> QED BY <1>2, <2>1 DEF SessionInv, CallsOK
<1>9. Covered'
  <2> SUFFICES ASSUME NEW s \in Session, Alive(s)', Opened(s)', s \notin lapsed'
               PROVE  CoveredBy(s)'
    BY DEF Covered
  <2>1. Opened(s) /\ (Renewing(s) => Renewing(s)')
    BY <1>2 DEF Opened, Renewing
  <2>2. key[s] \in Nat /\ now + 1 < key[s] /\ s \notin lapsed /\ ~RunsOut(s)
    BY <1>2, Times DEF Alive, TimesOK
  <2>3. Alive(s)
    BY <1>3, <2>2 DEF Alive
  <2>4. CoveredBy(s) /\ owner[s] \in Person
    BY <2>1, <2>2, <2>3, OpenedOwned DEF SessionInv, Covered
  <2>5. CASE Renewing(s)
    <3>1. PICK h \in Call : call[h].pc = "extend index" /\ call[h].sid = s
      BY <2>5 DEF Renewing
    <3>2. call[h].who = owner[s]
      <4>1. HoldOK(call[h], owner)
        BY Recorded
      <4> QED BY <3>1, <4>1 DEF HoldOK
    <3>3. s \in Members(index[owner[s]])'
      BY <1>2, <2>2, <3>1, <3>2 DEF RunsOut
    <3>4. now' < index'[owner'[s]].expires
      BY <1>2, <3>3 DEF Members
    <3> QED BY <1>2, <2>1, <2>4, <2>5, <3>4 DEF CoveredBy
  <2>6. CASE ~Renewing(s)
    <3>1. key[s] <= index[owner[s]].expires
      BY <2>4, <2>6 DEF CoveredBy
    <3>2. index[owner[s]].expires \in Nat
      <4>1. index[owner[s]] \in IndexRec
        BY <1>1, <2>4 DEF StoreTyped
      <4> QED BY <4>1 DEF IndexRec, Instant
    <3>3. now + 1 < index[owner[s]].expires
      BY <1>3, <2>2, <3>1, <3>2
    <3> QED BY <1>2, <2>4, <3>1, <3>3 DEF CoveredBy
  <2> QED BY <2>5, <2>6
<1>10. worker' \in [Worker -> WorkerRec]
  BY <1>2 DEF SessionInv
<1> QED BY <1>4, <1>8, <1>9, <1>10 DEF SessionInv

LEMMA ServePreserves ==
  ASSUME SessionInv, NEW h \in Call, Serve(h)
  PROVE  SessionInv'
<1>1. CASE IndexSession(h) \/ Unindex(h) \/ IndexTTL(h) \/ RegisterTTL(h)
  BY <1>1, IndexSessionPreserves, UnindexPreserves, IndexTTLPreserves, RegisterTTLPreserves
<1>2. CASE Exists(h) \/ Extend(h) \/ ExtendIndex(h)
  BY <1>2, ExistsPreserves, ExtendPreserves, ExtendIndexPreserves
<1>3. CASE ListSessions(h) \/ ListRegs(h) \/ Push(h)
  BY <1>3, ListSessionsPreserves, ListRegsPreserves, PushPreserves
<1>4. CASE Revoke(h) \/ DeleteSession(h) \/ DropIndex(h)
  BY <1>4, RevokePreserves, DeleteSessionPreserves, DropIndexPreserves
<1> QED BY <1>1, <1>2, <1>3, <1>4 DEF Serve

LEMMA NextPreserves == SessionInv /\ [Next]_vars => SessionInv'
<1> SUFFICES ASSUME SessionInv, [Next]_vars PROVE SessionInv'
  OBVIOUS
<1>1. ASSUME NEW h \in Call, NEW p \in Person, NEW s \in Session, CreateSession(h, p, s)
      PROVE  SessionInv'
  BY <1>1, CreateSessionPreserves
<1>2. ASSUME NEW h \in Call, NEW s \in Session, NEW n \in Notice, Register(h, s, n)
      PROVE  SessionInv'
  BY <1>2, RegisterPreserves
<1>3. ASSUME NEW h \in Call, NEW p \in Person, HasActiveSession(h, p) PROVE SessionInv'
  BY <1>3, HasActiveSessionPreserves
<1>4. ASSUME NEW h \in Call, NEW p \in Person, NEW m \in Mode, NEW s \in Session \cup {NoSession},
             Logout(h, p, m, s)
      PROVE  SessionInv'
  BY <1>4, LogoutPreserves
<1>5. ASSUME NEW h \in Call, Serve(h) \/ StopCall(h) PROVE SessionInv'
  BY <1>5, ServePreserves, StopCallPreserves
<1>6. ASSUME NEW w \in Worker, Work(w) \/ StopWorker(w) PROVE SessionInv'
  BY <1>6, DequeuePreserves, SendPreserves, ForgetPreserves DEF Work
<1>7. CASE Tick
  BY <1>7, TickPreserves
<1>8. CASE UNCHANGED vars
  <2>1. StoreTyped' /\ worker' \in [Worker -> WorkerRec]
    BY <1>8 DEF vars, storeVars, pastVars, SessionInv, StoreOK, StoreTyped
  <2> QED BY <1>8, <2>1, Beside DEF vars, storeVars, pastVars
<1> QED BY <1>1, <1>2, <1>3, <1>4, <1>5, <1>6, <1>7, <1>8 DEF Next

-----------------------------------------------------------------------------
(* Theorems.                                                               *)

\* Every step of the code keeps the sessions, their indexes and what the calls
\* hold in step with each other.
THEOREM SessionInvariant == Spec => []SessionInv
  BY InitHolds, NextPreserves, PTL DEF Spec

\* Types; and a worker never makes more than MaxAttempts attempts
\* (logoutMaxAttempts, logout_worker.go).
THEOREM SsoTypes == Spec => []TypeOK
<1>1. SessionInv => TypeOK
  BY DEF SessionInv, StoreOK, StoreTyped, CallsOK, TypeOK, CallRec, WorkerRec, IndexRec, RegRec
<1> QED BY <1>1, SessionInvariant, PTL

\* As long as a session can be used to log in silently, the index of its person
\* leads to it, unless it lapsed: CreateSession and HasActiveSession give the
\* index a lifetime that lasts as long as every session in it (sso.go).
THEOREM IndexCovers == Spec => []IndexCoversSessions
<1>1. SessionInv => IndexCoversSessions
  BY DEF SessionInv, Covered, CoveredBy, Members, IndexCoversSessions
<1> QED BY <1>1, SessionInvariant, PTL

\* When a logout, an end_session or a password change has ended, every session
\* whose login was answered before it began is over, unless it had lapsed
\* (RevokeSessionsByPersonID, sso.go).
THEOREM LogoutEnds == Spec => []LogoutEndsSessions
<1>1. SessionInv => LogoutEndsSessions
  <2> SUFFICES ASSUME SessionInv, NEW l \in Call, call[l].pc = "out", call[l].clean,
                      NEW s \in call[l].opened
               PROVE  ~Alive(s) \/ s \in lapsed
    BY DEF LogoutEndsSessions
  <2>1. EndOK(call[l], Over, Op)
    BY Recorded
  <2>2. s \in Over
    BY <2>1 DEF EndOK, Past
  <2> QED BY <2>2 DEF Over
<1> QED BY <1>1, SessionInvariant, PTL

-----------------------------------------------------------------------------
(* The notices of a logout.  A notice that was queued is accounted for     *)
(* ever after; until the logout has queued it, its list or, as long as no  *)
(* time has passed, the keys lead to it: nothing but another logout of the *)
(* person takes an index away, and nothing but a worker that has told the  *)
(* client takes a registration away.                                       *)

\* What a worker has sent has reached its client.
WorkersTold == \A w \in Worker : worker[w].sent => worker[w].notice \in told

\* The index of the person, then the list of the call, lead to the registration.
Reached(x, n) == about[n] \in Members(index[x.who]) /\ n \in Members(reg[about[n]])
Listed(x, n)  == about[n] \in x.todo /\ n \in Members(reg[about[n]])

\* Where the notice n that the logout x owes stands.
NoticeOK(x, n) ==
  \/ Accounted(n)
  \/ x.pc = "list" /\ (now = x.since => Reached(x, n))
  \/ x.pc = "regs" /\ (n \in x.regs \/ (now = x.since => Listed(x, n)))
  \/ x.pc = "push" /\ n \in x.regs
  \/ x.pc = "stopped"

LogoutPc == {"list", "regs", "push", "revoke", "delete", "drop index", "out", "stopped"}

NotedCall(x) == /\ x.pc = "idle" => x.mode = "none"
                /\ x.mode = "logout" => x.pc \in LogoutPc
                /\ x.since <= now

Owed(l) == call[l].mode = "logout" /\ Undisturbed(l) => \A n \in call[l].due : NoticeOK(call[l], n)

\* The inductive invariant of the notices.
NotifyInv == WorkersTold /\ \A l \in Call : NotedCall(call[l]) /\ Owed(l)

\* What a job in the queue names, in the types the provers need.
LEMMA Queued ==
  ASSUME SessionInv
  PROVE  /\ \A i \in DOMAIN queue : queue[i].notice \in Notice
         /\ queue # <<>> => /\ Head(queue).notice \in Notice /\ Head(queue) = queue[1]
                            /\ 1 \in DOMAIN queue
                            /\ \A i \in DOMAIN queue : i # 1 => i - 1 \in DOMAIN Tail(queue)
                                                                /\ Tail(queue)[i - 1] = queue[i]
         /\ \A j : /\ \A i \in DOMAIN queue : i \in DOMAIN Append(queue, j)
                                              /\ Append(queue, j)[i] = queue[i]
                   /\ \E i \in DOMAIN Append(queue, j) : Append(queue, j)[i] = j
<1> DEFINE Job == [notice : Notice, at : Instant]
<1>1. queue \in Seq(Job) /\ \A j \in Job : j.notice \in Notice
  BY DEF SessionInv, StoreOK, StoreTyped
<1> HIDE DEF Job
<1>2. \A i \in DOMAIN queue : queue[i] \in Job
  BY <1>1
<1>3. ASSUME queue # <<>>
      PROVE  /\ Head(queue) = queue[1] /\ 1 \in DOMAIN queue
             /\ \A i \in DOMAIN queue : i # 1 => i - 1 \in DOMAIN Tail(queue)
                                                 /\ Tail(queue)[i - 1] = queue[i]
  BY <1>1, <1>3
<1>4. ASSUME NEW j
      PROVE  /\ \A i \in DOMAIN queue : i \in DOMAIN Append(queue, j)
                                        /\ Append(queue, j)[i] = queue[i]
             /\ \E i \in DOMAIN Append(queue, j) : Append(queue, j)[i] = j
  <2>1. /\ DOMAIN Append(queue, j) = 1 .. (Len(queue) + 1)
        /\ Len(queue) \in Nat /\ DOMAIN queue = 1 .. Len(queue)
    BY <1>1
  <2>2. \A i \in 1 .. (Len(queue) + 1) :
          Append(queue, j)[i] = IF i = Len(queue) + 1 THEN j ELSE queue[i]
    BY <1>1
  <2>3. Len(queue) + 1 \in DOMAIN Append(queue, j) /\ Append(queue, j)[Len(queue) + 1] = j
    BY <2>1, <2>2
  <2>4. ASSUME NEW i \in DOMAIN queue
        PROVE  i \in DOMAIN Append(queue, j) /\ Append(queue, j)[i] = queue[i]
    BY <2>1, <2>2
  <2> QED BY <2>3, <2>4
<1> QED BY <1>1, <1>2, <1>3, <1>4

\* The queue and what its worker does with a job.
LEMMA WorkAccounts ==
  ASSUME SessionInv, WorkersTold, NEW w \in Worker, Work(w) \/ StopWorker(w)
  PROVE  WorkersTold' /\ \A n \in Notice : Accounted(n) => Accounted(n)'
<1> USE DEF WorkersTold, Accounted
<1>0. /\ worker \in [Worker -> WorkerRec] /\ worker[w] \in WorkerRec
      /\ \A j \in WorkerRec : /\ [j EXCEPT !.sent = TRUE].notice = j.notice
                              /\ \A t : [j EXCEPT !.tries = t].notice = j.notice
                                        /\ [j EXCEPT !.tries = t].sent = j.sent
                              /\ \A n : [j EXCEPT !.notice = n].notice = n
                                        /\ [j EXCEPT !.notice = n].sent = j.sent
  BY DEF SessionInv, WorkerRec
<1>1. CASE Dequeue(w)
  <2>1. PICK m \in Notice : m = Head(queue).notice
    BY <1>1, Queued DEF Dequeue
  <2>2. /\ Idle(w) /\ queue # <<>> /\ queue' = Tail(queue) /\ told' = told
        /\ \/ gone' = gone \cup {m} /\ worker' = worker
           \/ worker' = [worker EXCEPT ![w] = [@ EXCEPT !.notice = m]] /\ gone' = gone
    BY <1>1, <2>1 DEF Dequeue
  <2>3. ~worker[w].sent \/ NoNotice \in told
    BY <2>2 DEF Idle
  <2>4. ~worker[w].sent
    BY <2>3, NullAssumption DEF SessionInv, StoreOK, StoreTyped
  <2>5. WorkersTold' /\ (m \in gone' \/ worker'[w].notice = m)
    <3>1. CASE worker' = worker /\ gone' = gone \cup {m}
      BY <2>2, <3>1
    <3>2. CASE worker' = [worker EXCEPT ![w] = [@ EXCEPT !.notice = m]]
      <4>1. worker'[w].notice = m /\ worker'[w].sent = worker[w].sent
        BY <1>0, <3>2
      <4>2. \A x \in Worker \ {w} : worker'[x] = worker[x]
        BY <1>0, <3>2
      <4> QED BY <2>2, <2>4, <4>1, <4>2
    <3> QED BY <2>2, <3>1, <3>2
  <2>7. \A x \in Worker : worker[x].notice \in Notice => worker'[x].notice = worker[x].notice
    BY <1>0, <2>2, NullAssumption DEF Idle
  <2>8. ASSUME NEW n \in Notice, NEW i \in DOMAIN queue, queue[i].notice = n
        PROVE  Accounted(n)'
    <3>1. CASE i = 1
      BY <2>1, <2>2, <2>5, <2>8, <3>1, Queued
    <3>2. CASE i # 1
      BY <2>2, <2>8, <3>2, Queued
    <3> QED BY <3>1, <3>2
  <2> QED BY <2>2, <2>5, <2>7, <2>8
<1>2. CASE SendOK(w)
  BY <1>0, <1>2 DEF SendOK
<1>3. CASE SendFails(w)
  <2>1. /\ ~worker[w].sent /\ UNCHANGED <<queue, told>>
        /\ \/ worker' = [worker EXCEPT ![w] = NoJob] /\ gone' = gone \cup {worker[w].notice}
           \/ /\ worker' = [worker EXCEPT ![w] = [@ EXCEPT !.tries = worker[w].tries + 1]]
              /\ gone' = gone
    BY <1>3 DEF SendFails
  <2>2. CASE worker' = [worker EXCEPT ![w] = NoJob] /\ gone' = gone \cup {worker[w].notice}
    BY <1>0, <2>1, <2>2 DEF NoJob
  <2>3. CASE worker' = [worker EXCEPT ![w] = [@ EXCEPT !.tries = worker[w].tries + 1]] /\ gone' = gone
    BY <1>0, <2>1, <2>3
  <2> QED BY <2>1, <2>2, <2>3
<1>4. CASE Forget(w)
  <2>1. /\ worker[w].notice \in told /\ UNCHANGED <<queue, told, gone>>
        /\ worker' = [worker EXCEPT ![w] = NoJob]
    BY <1>4 DEF Forget, pastVars
  <2> QED BY <1>0, <2>1 DEF NoJob
<1>5. CASE StopWorker(w)
  BY <1>0, <1>5 DEF StopWorker, NoJob
<1> QED BY <1>1, <1>2, <1>3, <1>4, <1>5 DEF Work

\* A notice that is on its way or has ended stays accounted for.
LEMMA AccountedStays ==
  ASSUME SessionInv, WorkersTold, [Next]_vars
  PROVE  WorkersTold' /\ \A n \in Notice : Accounted(n) => Accounted(n)'
<1>1. CASE \E w \in Worker : Work(w) \/ StopWorker(w)
  BY <1>1, WorkAccounts
<1>2. CASE UNCHANGED <<queue, worker, told, gone>>
  BY <1>2 DEF WorkersTold, Accounted
<1>3. ASSUME NEW h \in Call, Push(h)
      PROVE  WorkersTold' /\ \A n \in Notice : Accounted(n) => Accounted(n)'
  <2>1. /\ UNCHANGED <<worker, told, gone>>
        /\ queue' = queue \/ \E j : queue' = Append(queue, j)
    BY <1>3 DEF Push, pastVars
  <2> QED BY <1>2, <2>1, Queued DEF WorkersTold, Accounted
<1>4. ASSUME NEW h \in Call, Serve(h)
      PROVE  WorkersTold' /\ \A n \in Notice : Accounted(n) => Accounted(n)'
  <2>1. Push(h) \/ UNCHANGED <<queue, worker, told, gone>>
    BY <1>4
    DEF Serve, IndexSession, Unindex, IndexTTL, RegisterTTL, Exists, Extend, ExtendIndex,
        ListSessions, ListRegs, Revoke, DeleteSession, DropIndex, pastVars
  <2> QED BY <1>2, <1>3, <2>1
<1> QED
  BY <1>1, <1>2, <1>4
  DEF Next, CreateSession, Register, HasActiveSession, Logout, StopCall, Tick, vars, pastVars

\* SADD and EXPIRE take nothing away at once.
LEMMA SetsGrow ==
  ASSUME SessionInv, NEW S, NEW k \in [members : SUBSET S, expires : Instant], NEW x
  PROVE  /\ Members(k) \subseteq Members(SAdd(k, x))
         /\ Members(Expire(k, SessionTTL)) = Members(k)
         /\ Members(Expire(k, RegTTL)) = Members(k)
<1>1. now \in Nat /\ k.expires \in Nat
  BY DEF SessionInv, StoreOK, StoreTyped, Instant
<1>2. Members(k) \subseteq Members(SAdd(k, x))
  BY <1>1 DEF Members, SAdd
<1>3. ASSUME NEW d \in {SessionTTL, RegTTL}
      PROVE  Members(Expire(k, d)) = Members(k)
  <2>1. now < now + d
    BY <1>1, TTLAssumption
  <2>2. CASE Members(k) = {}
    BY <2>2 DEF Expire
  <2>3. CASE Members(k) # {}
    <3>1. Expire(k, d).members = k.members /\ Expire(k, d).expires = now + d
      BY <2>3 DEF Expire
    <3> QED BY <2>1, <2>3, <3>1 DEF Members
  <2> QED BY <2>2, <2>3
<1> QED BY <1>2, <1>3

\* Within an instant a registration leaves its set only when its client was told.
LEMMA RegsStay ==
  ASSUME SessionInv, WorkersTold, [Next]_vars, now' = now, NEW s \in Session, NEW n \in Notice,
         n \in Members(reg[s])
  PROVE  n \in Members(reg[s])' \/ n \in told
<1>0. /\ reg \in [Session -> RegRec] /\ RegRec = [members : SUBSET Notice, expires : Instant]
  BY DEF SessionInv, StoreOK, StoreTyped, RegRec
<1>1. ASSUME Members(reg[s]) \subseteq Members(reg'[s])
      PROVE  n \in Members(reg[s])'
  BY <1>1 DEF Members
<1>2. CASE UNCHANGED reg
  BY <1>1, <1>2
<1>3. CASE \E h \in Call, x \in Session, m \in Notice : Register(h, x, m)
  <2>1. PICK h \in Call, x \in Session, m \in Notice : reg' = [reg EXCEPT ![x] = SAdd(@, m)]
    BY <1>3 DEF Register
  <2>2. reg'[s] = reg[s] \/ reg'[s] = SAdd(reg[s], m)
    BY <1>0, <2>1
  <2>3. PICK k \in [members : SUBSET Notice, expires : Instant] : k = reg[s]
    BY <1>0
  <2>4. Members(k) \subseteq Members(SAdd(k, m))
    BY SetsGrow
  <2> QED BY <1>1, <2>2, <2>3, <2>4
<1>4. CASE \E h \in Call : RegisterTTL(h)
  <2>1. PICK x : reg' = reg \/ reg' = [reg EXCEPT ![x] = Expire(@, RegTTL)]
    BY <1>4 DEF RegisterTTL
  <2>2. reg'[s] = reg[s] \/ reg'[s] = Expire(reg[s], RegTTL)
    BY <1>0, <2>1
  <2>3. PICK k \in [members : SUBSET Notice, expires : Instant] : k = reg[s]
    BY <1>0
  <2>4. Members(Expire(k, RegTTL)) = Members(k)
    BY SetsGrow
  <2> QED BY <1>1, <2>2, <2>3, <2>4
<1>5. CASE \E w \in Worker : Forget(w)
  <2>1. PICK m, x : /\ m \in told
                    /\ reg' = reg \/ reg' = [reg EXCEPT ![x] = SRem(@, m)]
    BY <1>5 DEF Forget, WorkersTold
  <2>2. CASE n = m
    BY <2>1, <2>2
  <2>3. CASE n # m
    <3>1. reg'[s] = reg[s] \/ reg'[s] = SRem(reg[s], m)
      BY <1>0, <2>1
    <3>2. reg[s] \in RegRec
      BY <1>0
    <3>3. SRem(reg[s], m).members = reg[s].members \ {m} /\ SRem(reg[s], m).expires = reg[s].expires
      BY <1>0, <3>2 DEF SRem
    <3> QED BY <2>3, <3>1, <3>3 DEF Members
  <2> QED BY <2>2, <2>3
<1>6. ASSUME NEW h \in Call, Serve(h)
      PROVE  RegisterTTL(h) \/ UNCHANGED reg
  BY <1>6
  DEF Serve, IndexSession, Unindex, IndexTTL, Exists, Extend, ExtendIndex, ListSessions, ListRegs,
      Push, Revoke, DeleteSession, DropIndex, storeVars
<1>7. ASSUME NEW w \in Worker, Work(w) \/ StopWorker(w)
      PROVE  Forget(w) \/ UNCHANGED reg
  BY <1>7 DEF Work, Dequeue, SendOK, SendFails, StopWorker, storeVars
<1> QED
  BY <1>2, <1>3, <1>4, <1>5, <1>6, <1>7
  DEF Next, CreateSession, HasActiveSession, Logout, StopCall, Tick, vars, storeVars

\* Within an instant a person's index loses a session only to a call that ends
\* sessions of the person.
LEMMA IndexStays ==
  ASSUME SessionInv, [Next]_vars, now' = now, NEW p \in Person,
         \A h \in Call : call[h].who = p => ~DropIndex(h)
  PROVE  Members(index[p]) \subseteq Members(index[p])'
<1>0. /\ index \in [Person -> IndexRec] /\ IndexRec = [members : SUBSET Session, expires : Instant]
  BY DEF SessionInv, StoreOK, StoreTyped, IndexRec
<1>1. ASSUME Members(index[p]) \subseteq Members(index'[p])
      PROVE  Members(index[p]) \subseteq Members(index[p])'
  BY <1>1 DEF Members
<1>2. CASE UNCHANGED index
  BY <1>1, <1>2
<1>3. ASSUME NEW h \in Call, Serve(h)
      PROVE  Members(index[p]) \subseteq Members(index[p])'
  <2>1. CASE IndexSession(h)
    <3>1. PICK q, s : index' = index \/ index' = [index EXCEPT ![q] = SAdd(@, s)]
      BY <2>1 DEF IndexSession
    <3>2. index'[p] = index[p] \/ index'[p] = SAdd(index[p], s)
      BY <1>0, <3>1
    <3> QED BY <1>0, <1>1, <3>2, SetsGrow
  <2>2. CASE IndexTTL(h) \/ ExtendIndex(h)
    <3>1. PICK q : q = call[h].who
      OBVIOUS
    <3>2. index' = index \/ index' = [index EXCEPT ![q] = Expire(index[q], SessionTTL)]
      BY <2>2, <3>1 DEF IndexTTL, ExtendIndex, IndexRenewed
    <3>3. index'[p] = index[p] \/ index'[p] = Expire(index[p], SessionTTL)
      BY <1>0, <3>2
    <3>4. PICK k \in [members : SUBSET Session, expires : Instant] : k = index[p]
      BY <1>0
    <3>5. Members(Expire(k, SessionTTL)) = Members(k)
      BY SetsGrow
    <3> QED BY <1>1, <3>3, <3>4, <3>5
  <2>3. CASE DropIndex(h)
    <3>1. call[h].who # p
      BY <2>3
    <3>2. PICK q : q = call[h].who
      OBVIOUS
    <3>3. index' = index \/ index' = [index EXCEPT ![q] = NoKey]
      BY <2>3, <3>2 DEF DropIndex
    <3>4. index'[p] = index[p]
      BY <1>0, <3>1, <3>2, <3>3
    <3> QED BY <1>1, <3>4
  <2>4. CASE ~(IndexSession(h) \/ IndexTTL(h) \/ ExtendIndex(h) \/ DropIndex(h))
    <3>1. UNCHANGED index
      BY <1>3, <2>4
      DEF Serve, Unindex, RegisterTTL, Exists, Extend, ListSessions, ListRegs, Push, Revoke,
          DeleteSession, storeVars
    <3> QED BY <1>2, <3>1
  <2> QED BY <2>1, <2>2, <2>3, <2>4
<1>4. ASSUME NEW w \in Worker, Work(w) \/ StopWorker(w)
      PROVE  UNCHANGED index
  BY <1>4 DEF Work, Dequeue, SendOK, SendFails, Forget, StopWorker, storeVars
<1> QED
  BY <1>2, <1>3, <1>4
  DEF Next, CreateSession, Register, HasActiveSession, Logout, StopCall, Tick, vars, storeVars

\* A registration is made once, for one session; time does not go back.
LEMMA RegistrationsStay ==
  ASSUME SessionInv, [Next]_vars
  PROVE  now <= now' /\ \A n \in Notice : about[n] \in Session => about'[n] = about[n]
<1>1. now <= now'
  BY Times, NextMoves DEF KeysMove
<1>2. CASE UNCHANGED about
  BY <1>1, <1>2
<1>3. CASE \E h \in Call, s \in Session, n \in Notice : Register(h, s, n)
  BY <1>1, <1>3, NullAssumption DEF Register, SessionInv, StoreOK, StoreTyped
<1>4. ASSUME NEW h \in Call, Serve(h)
      PROVE  UNCHANGED about
  BY <1>4
  DEF Serve, IndexSession, Unindex, IndexTTL, RegisterTTL, Exists, Extend, ExtendIndex,
      ListSessions, ListRegs, Push, Revoke, DeleteSession, DropIndex, storeVars
<1>5. ASSUME NEW w \in Worker, Work(w) \/ StopWorker(w)
      PROVE  UNCHANGED about
  BY <1>5 DEF Work, Dequeue, SendOK, SendFails, Forget, StopWorker, storeVars
<1> QED
  BY <1>2, <1>3, <1>4, <1>5
  DEF Next, CreateSession, HasActiveSession, Logout, StopCall, Tick, vars, storeVars

\* The step of another call, of a worker or of the clock leaves a logout's
\* notices where they are, or accounts for them.
LEMMA BystanderOwes ==
  ASSUME SessionInv, NotifyInv, [Next]_vars, NEW l \in Call, call'[l] = call[l],
         call[l].who \in Person, \A h \in Call : call[h].who = call[l].who => ~DropIndex(h),
         NEW n \in Notice, NoticeOK(call[l], n)
  PROVE  NoticeOK(call[l], n)'
<1>1. WorkersTold /\ call[l].since <= now /\ call[l] \in CallRec
  BY Recorded DEF NotifyInv, NotedCall
<1>2. Accounted(n) \/ n \in told => Accounted(n)'
  BY <1>1, AccountedStays DEF Accounted
<1>3. /\ now <= now' /\ now \in Nat /\ now' \in Nat /\ call[l].since \in Nat
      /\ now' = call[l].since => now' = now /\ now = call[l].since
  <2>1. now <= now' /\ now \in Nat /\ now' \in Nat
    BY RegistrationsStay, Times, NextMoves DEF KeysMove, TimesOK
  <2>2. call[l].since \in Nat
    BY <1>1 DEF CallRec, Instant
  <2> QED BY <1>1, <2>1, <2>2
<1>4. CASE Accounted(n)
  BY <1>2, <1>4 DEF NoticeOK
<1>5. CASE call[l].pc = "list" /\ (now = call[l].since => Reached(call[l], n)) /\ ~Accounted(n)'
  <2>1. ASSUME now' = call[l].since
        PROVE  Reached(call[l], n)'
    <3>1. now' = now /\ Reached(call[l], n)
      BY <1>3, <1>5, <2>1
    <3>2. about[n] \in Session
      BY <3>1, IndexMembers DEF Reached
    <3>3. about'[n] = about[n]
      BY <3>2, RegistrationsStay
    <3>4. about[n] \in Members(index[call[l].who])'
      BY <3>1, IndexStays DEF Reached
    <3>5. n \in Members(reg[about[n]])'
      <4>1. PICK s \in Session : s = about[n]
        BY <3>2
      <4>2. n \in Members(reg[s])'
        BY <1>1, <1>2, <1>5, <3>1, <4>1, RegsStay DEF Reached
      <4> QED BY <3>3, <4>1, <4>2
    <3> QED BY <3>3, <3>4, <3>5 DEF Reached
  <2> QED BY <1>5, <2>1 DEF NoticeOK
<1>6. CASE /\ call[l].pc = "regs" /\ ~Accounted(n)'
           /\ n \in call[l].regs \/ (now = call[l].since => Listed(call[l], n))
  <2>1. ASSUME now' = call[l].since, n \notin call[l].regs
        PROVE  Listed(call[l], n)'
    <3>1. now' = now /\ Listed(call[l], n)
      BY <1>3, <1>6, <2>1
    <3>2. about[n] \in Session
      BY <1>1, <3>1 DEF Listed, CallRec
    <3>3. about'[n] = about[n]
      BY <3>2, RegistrationsStay
    <3>5. n \in Members(reg[about[n]])'
      <4>1. PICK s \in Session : s = about[n]
        BY <3>2
      <4>2. n \in Members(reg[s])'
        BY <1>1, <1>2, <1>6, <3>1, <4>1, RegsStay DEF Listed
      <4> QED BY <3>3, <4>1, <4>2
    <3> QED BY <3>1, <3>3, <3>5 DEF Listed
  <2>2. call[l].pc = "regs"
    BY <1>6
  <2>3. CASE n \in call[l].regs
    BY <2>2, <2>3 DEF NoticeOK
  <2>4. CASE n \notin call[l].regs
    <3>1. now' = call'[l].since => Listed(call[l], n)'
      BY <2>1, <2>4
    <3> QED BY <2>2, <3>1 DEF NoticeOK
  <2> QED BY <2>3, <2>4
<1>7. CASE call[l].pc = "push" /\ n \in call[l].regs
  BY <1>7 DEF NoticeOK
<1>8. CASE call[l].pc = "stopped"
  BY <1>8 DEF NoticeOK
<1> QED BY <1>4, <1>5, <1>6, <1>7, <1>8 DEF NoticeOK

\* A call that goes on keeps what it owes, and does not get better.
Carries(d, c) == /\ d.mode = c.mode /\ d.who = c.who /\ d.due = c.due /\ d.since = c.since
                 /\ d.clean => c.clean
                 /\ d.timely => c.timely

\* A step of the call h: it settles what it owes, or keeps it in view.
Settles(h) ==
  /\ \A x \in Call \ {h} : call'[x] = call[x]
  /\ call[h].mode # "none" => Carries(call'[h], call[h])
  /\ NotedCall(call[h])'
  /\ call'[h].mode = "logout" /\ call'[h].clean /\ call'[h].timely
       => \A n \in call'[h].due :
            call[h].mode = "none" \/ NoticeOK(call[h], n) => NoticeOK(call[h], n)'

\* The edits that carry over what a call owes.
Edits(t, v, a, b) == {[t EXCEPT !.pc = v], [t EXCEPT !.pc = v, !.sid = a],
                      [t EXCEPT !.pc = v, !.sid = a, !.todo = b],
                      [t EXCEPT !.todo = a, !.pc = v], [t EXCEPT !.pc = v, !.todo = a],
                      [t EXCEPT !.regs = a, !.pc = v]}

LEMMA CarryingEdits ==
  ASSUME NEW t \in CallRec, NEW v, NEW a, NEW b, NEW rec \in Edits(t, v, a, b)
  PROVE  Carries(rec, t) /\ rec.pc = v
<1>1. CASE rec = [t EXCEPT !.pc = v]
  BY <1>1 DEF Carries, CallRec
<1>2. CASE rec = [t EXCEPT !.pc = v, !.sid = a]
  BY <1>2 DEF Carries, CallRec
<1>3. CASE rec = [t EXCEPT !.pc = v, !.sid = a, !.todo = b]
  BY <1>3 DEF Carries, CallRec
<1>4. CASE rec = [t EXCEPT !.todo = a, !.pc = v]
  BY <1>4 DEF Carries, CallRec
<1>5. CASE rec = [t EXCEPT !.pc = v, !.todo = a]
  BY <1>5 DEF Carries, CallRec
<1>6. CASE rec = [t EXCEPT !.regs = a, !.pc = v]
  BY <1>6 DEF Carries, CallRec
<1> QED BY <1>1, <1>2, <1>3, <1>4, <1>5, <1>6 DEF Edits

LEMMA CarryingUnclean ==
  ASSUME NEW t \in CallRec
  PROVE  Carries(Unclean(t), t) /\ Unclean(t) \in CallRec /\ ~Unclean(t).clean
  BY DEF Carries, Unclean, CallRec

LEMMA CarriesOn ==
  ASSUME NEW e, NEW d, NEW c, Carries(e, d), Carries(d, c)
  PROVE  Carries(e, c) /\ (~d.clean => ~e.clean)
  BY DEF Carries

\* The notices past the push are accounted for, and those of a call that stops lost.
LEMMA SettlesElse ==
  ASSUME SessionInv, NotifyInv, [Next]_vars, now' = now, NEW h \in Call, NEW rec,
         call' = [call EXCEPT ![h] = rec], Carries(rec, call[h]), rec.pc # "idle",
         rec.mode = "logout" /\ rec.clean
           => \/ rec.pc = "stopped"
              \/ rec.pc \in LogoutPc /\ call[h].pc \notin {"list", "regs", "push", "stopped"},
         rec.mode = "logout" => rec.pc \in LogoutPc
  PROVE  Settles(h)
<1>1. call'[h] = rec /\ \A x \in Call \ {h} : call'[x] = call[x]
  BY DEF SessionInv, CallsOK
<1>2. NotedCall(call[h]) /\ WorkersTold /\ call[h] \in CallRec
  BY Recorded DEF NotifyInv
<1>3. NotedCall(call[h])'
  BY <1>1, <1>2 DEF NotedCall, Carries
<1>4. ASSUME rec.mode = "logout", rec.clean, NEW n \in rec.due,
             call[h].mode = "none" \/ NoticeOK(call[h], n)
      PROVE  NoticeOK(call[h], n)'
  <2>1. n \in Notice /\ NoticeOK(call[h], n)
    BY <1>2, <1>4 DEF CallRec, Carries
  <2>2. CASE rec.pc = "stopped"
    BY <1>1, <2>2 DEF NoticeOK
  <2>3. CASE call[h].pc \notin {"list", "regs", "push", "stopped"}
    BY <1>2, <2>1, <2>3, AccountedStays DEF NoticeOK
  <2> QED BY <1>4, <2>2, <2>3
<1> QED BY <1>1, <1>3, <1>4 DEF Settles

\* The step of a call that does not log out.
LEMMA SettlesNone ==
  ASSUME SessionInv, NotifyInv, [Next]_vars, now' = now, NEW h \in Call, NEW rec,
         call' = [call EXCEPT ![h] = rec], Carries(rec, call[h]), rec.pc # "idle",
         call[h].pc \notin LogoutPc
  PROVE  Settles(h)
<1>1. rec.mode # "logout"
  BY DEF NotifyInv, NotedCall, Carries
<1> QED BY <1>1, SettlesElse

\* The same, after a command that failed.
LEMMA CarriesEdit ==
  ASSUME NEW c \in CallRec, NEW t \in {c, Unclean(c)}, NEW v, NEW a, NEW b,
         NEW rec \in Edits(t, v, a, b)
  PROVE  Carries(rec, c) /\ rec.pc = v
<1>1. t \in CallRec /\ Carries(t, c)
  BY CarryingUnclean DEF Carries
<1>2. Carries(rec, t) /\ rec.pc = v
  BY <1>1, CarryingEdits
<1> QED BY <1>1, <1>2, CarriesOn

\* The logins, the registrations and the checks of a session.
LEMMA OthersSettle ==
  ASSUME SessionInv, NotifyInv, NEW h \in Call,
         \/ IndexSession(h) \/ Unindex(h) \/ IndexTTL(h) \/ RegisterTTL(h)
         \/ Exists(h) \/ Extend(h) \/ ExtendIndex(h)
  PROVE  Settles(h)
<1>1. PICK c \in CallRec : c = call[h]
  BY Recorded
<1>2. [Next]_vars
  BY DEF Next, Serve
<1>3. /\ Unclean([c EXCEPT !.pc = "failed"]) = [Unclean(c) EXCEPT !.pc = "failed"]
      /\ Unclean([c EXCEPT !.pc = "in"]) = [Unclean(c) EXCEPT !.pc = "in"]
      /\ Unclean([c EXCEPT !.pc = "extend index"]) = [Unclean(c) EXCEPT !.pc = "extend index"]
      /\ Unclean([c EXCEPT !.pc = "registered", !.sid = NoSession])
           = [Unclean(c) EXCEPT !.pc = "registered", !.sid = NoSession]
      /\ Unclean([c EXCEPT !.pc = "active", !.sid = NoSession])
           = [Unclean(c) EXCEPT !.pc = "active", !.sid = NoSession]
  BY DEF CallRec, Unclean
<1>4. ASSUME NEW rec, call' = [call EXCEPT ![h] = rec], now' = now, c.pc \notin LogoutPc,
             NEW t \in {c, Unclean(c)}, NEW v, v # "idle", NEW a, NEW b, rec \in Edits(t, v, a, b)
      PROVE  Settles(h)
  <2>1. Carries(rec, c) /\ rec.pc = v
    BY <1>4, CarriesEdit
  <2> QED BY <1>1, <1>2, <1>4, <2>1, SettlesNone
<1>5. CASE IndexSession(h)
  <2>1. c.pc = "index" /\ now' = now
    BY <1>1, <1>5 DEF IndexSession, Step
  <2>2. PICK v \in {"index ttl", "unindex"} : call' = [call EXCEPT ![h] = [c EXCEPT !.pc = v]]
    BY <1>1, <1>5 DEF IndexSession, Step
  <2>3. PICK rec \in Edits(c, v, {}, {}) : rec = [c EXCEPT !.pc = v]
    BY DEF Edits
  <2> QED BY <1>4, <2>1, <2>2, <2>3 DEF LogoutPc
<1>6. CASE Unindex(h)
  <2>1. c.pc = "unindex" /\ now' = now
    BY <1>1, <1>6 DEF Unindex, Step
  <2>2. PICK t \in {c, Unclean(c)} : call' = [call EXCEPT ![h] = [t EXCEPT !.pc = "failed"]]
    BY <1>1, <1>3, <1>6 DEF Unindex, Step
  <2>3. PICK rec \in Edits(t, "failed", {}, {}) : rec = [t EXCEPT !.pc = "failed"]
    BY DEF Edits
  <2> QED BY <1>4, <2>1, <2>2, <2>3 DEF LogoutPc
<1>7. CASE IndexTTL(h)
  <2>1. c.pc = "index ttl" /\ now' = now
    BY <1>1, <1>7 DEF IndexTTL, Step
  <2>2. PICK t \in {c, Unclean(c)} : call' = [call EXCEPT ![h] = [t EXCEPT !.pc = "in"]]
    BY <1>1, <1>3, <1>7 DEF IndexTTL, Step
  <2>3. PICK rec \in Edits(t, "in", {}, {}) : rec = [t EXCEPT !.pc = "in"]
    BY DEF Edits
  <2> QED BY <1>4, <2>1, <2>2, <2>3 DEF LogoutPc
<1>8. CASE RegisterTTL(h)
  <2>1. c.pc = "reg ttl" /\ now' = now
    BY <1>1, <1>8 DEF RegisterTTL, Step
  <2>2. PICK t \in {c, Unclean(c)} : call' = [call EXCEPT ![h] = [t EXCEPT !.pc = "registered", !.sid = NoSession]]
    BY <1>1, <1>3, <1>8 DEF RegisterTTL, Step
  <2>3. PICK rec \in Edits(t, "registered", NoSession, NoSession) : rec = [t EXCEPT !.pc = "registered", !.sid = NoSession]
    BY DEF Edits
  <2> QED BY <1>4, <2>1, <2>2, <2>3 DEF LogoutPc
<1>9. CASE Extend(h)
  <2>1. c.pc = "extend" /\ now' = now
    BY <1>1, <1>9 DEF Extend, Step
  <2>2. PICK t \in {c, Unclean(c)} : call' = [call EXCEPT ![h] = [t EXCEPT !.pc = "extend index"]]
    BY <1>1, <1>3, <1>9 DEF Extend, Step
  <2>3. PICK rec \in Edits(t, "extend index", {}, {}) : rec = [t EXCEPT !.pc = "extend index"]
    BY DEF Edits
  <2> QED BY <1>4, <2>1, <2>2, <2>3 DEF LogoutPc
<1>10. CASE ExtendIndex(h)
  <2>1. c.pc = "extend index" /\ now' = now
    BY <1>1, <1>10 DEF ExtendIndex, Step
  <2>2. PICK t \in {c, Unclean(c)} : call' = [call EXCEPT ![h] = [t EXCEPT !.pc = "active", !.sid = NoSession]]
    BY <1>1, <1>3, <1>10 DEF ExtendIndex, Step
  <2>3. PICK rec \in Edits(t, "active", NoSession, NoSession) : rec = [t EXCEPT !.pc = "active", !.sid = NoSession]
    BY DEF Edits
  <2> QED BY <1>4, <2>1, <2>2, <2>3 DEF LogoutPc
<1>11. CASE Exists(h)
  <2>1. c.pc = "exists" /\ now' = now
    BY <1>1, <1>11 DEF Exists, Step
  <2>2. \/ \E s : call' = [call EXCEPT ![h] = [c EXCEPT !.pc = "extend", !.sid = s, !.todo = {}]]
        \/ \E s : call' = [call EXCEPT ![h] = CheckNext(c, c.todo \ {s})]
        \/ \E s : call' = [call EXCEPT ![h] = CheckNext(Unclean(c), c.todo \ {s})]
    BY <1>1, <1>11 DEF Exists, Step
  <2>3. ASSUME NEW s, call' = [call EXCEPT ![h] = [c EXCEPT !.pc = "extend", !.sid = s, !.todo = {}]]
        PROVE  Settles(h)
    <3>1. PICK rec \in Edits(c, "extend", s, {}) : rec = [c EXCEPT !.pc = "extend", !.sid = s, !.todo = {}]
      BY DEF Edits
    <3> QED BY <1>4, <2>1, <2>3, <3>1 DEF LogoutPc
  <2>4. ASSUME NEW t \in {c, Unclean(c)}, NEW s, call' = [call EXCEPT ![h] = CheckNext(t, c.todo \ {s})]
        PROVE  Settles(h)
    <3>1. PICK a : a = c.todo \ {s}
      OBVIOUS
    <3>2. PICK v \in {"inactive", "exists"} : CheckNext(t, a) = [t EXCEPT !.todo = a, !.pc = v]
      BY DEF CheckNext
    <3>3. PICK rec \in Edits(t, v, a, a) : call' = [call EXCEPT ![h] = rec]
      BY <2>4, <3>1, <3>2 DEF Edits
    <3> QED BY <1>4, <2>1, <3>3 DEF LogoutPc
  <2> QED BY <2>2, <2>3, <2>4
<1> QED BY <1>5, <1>6, <1>7, <1>8, <1>9, <1>10, <1>11

\* A call that begins owes nothing, but for a logout.
LEMMA BeginningSettles ==
  ASSUME SessionInv, NotifyInv, now' = now, NEW h \in Call, NEW rec,
         call[h].pc = "idle", call' = [call EXCEPT ![h] = rec],
         rec.mode # "logout", rec.pc # "idle", rec.since <= now
  PROVE  Settles(h)
<1>1. call'[h] = rec /\ \A x \in Call \ {h} : call'[x] = call[x]
  BY DEF SessionInv, CallsOK
<1>2. call[h].mode = "none"
  BY DEF NotifyInv, NotedCall
<1> QED BY <1>1, <1>2 DEF Settles, NotedCall

LEMMA BeginningsSettle ==
  ASSUME SessionInv, NotifyInv, NEW h \in Call,
         \/ \E p \in Person, s \in Session : CreateSession(h, p, s)
         \/ \E s \in Session, n \in Notice : Register(h, s, n)
         \/ \E p \in Person : HasActiveSession(h, p)
         \/ \E p \in Person, m \in Mode, s \in Session \cup {NoSession} :
              Logout(h, p, m, s) /\ m # "logout"
  PROVE  Settles(h)
<1> DEFINE Fresh(rec) == rec.mode # "logout" /\ rec.pc # "idle" /\ rec.since <= now
<1>1. now \in Nat
  BY Times DEF TimesOK
<1>2. ASSUME NEW p \in Person, NEW s \in Session, CreateSession(h, p, s)
      PROVE  Settles(h)
  <2>1. PICK rec : rec = [NewCall EXCEPT !.pc = "index", !.who = p, !.sid = s]
    OBVIOUS
  <2>2. Fresh(rec)
    BY <1>1, <2>1 DEF NewCall
  <2>3. call[h].pc = "idle" /\ call' = [call EXCEPT ![h] = rec] /\ now' = now
    BY <1>2, <2>1 DEF CreateSession, Step
  <2> QED BY <2>2, <2>3, BeginningSettles
<1>3. ASSUME NEW s \in Session, NEW n \in Notice, Register(h, s, n)
      PROVE  Settles(h)
  <2>1. PICK rec : rec = [NewCall EXCEPT !.pc = "reg ttl", !.who = owner[s], !.sid = s]
    OBVIOUS
  <2>2. Fresh(rec)
    BY <1>1, <2>1 DEF NewCall
  <2>3. call[h].pc = "idle" /\ call' = [call EXCEPT ![h] = rec] /\ now' = now
    BY <1>3, <2>1 DEF Register, Step
  <2> QED BY <2>2, <2>3, BeginningSettles
<1>4. ASSUME NEW p \in Person, HasActiveSession(h, p)
      PROVE  Settles(h)
  <2>1. PICK rec : /\ \/ rec = CheckNext([NewCall EXCEPT !.who = p], Members(index[p]))
                      \/ rec = Unclean([NewCall EXCEPT !.who = p, !.pc = "fail open"])
                   /\ call[h].pc = "idle" /\ call' = [call EXCEPT ![h] = rec] /\ now' = now
    BY <1>4 DEF HasActiveSession, Step
  <2>2. Fresh(rec)
    <3>1. CASE rec = Unclean([NewCall EXCEPT !.who = p, !.pc = "fail open"])
      BY <1>1, <3>1 DEF NewCall, Unclean
    <3>2. CASE rec = CheckNext([NewCall EXCEPT !.who = p], Members(index[p]))
      <4>1. \E v \in {"inactive", "exists"} : \E a :
              rec = [[NewCall EXCEPT !.who = p] EXCEPT !.todo = a, !.pc = v]
        BY <3>2 DEF CheckNext
      <4> QED BY <1>1, <4>1 DEF NewCall
    <3> QED BY <2>1, <3>1, <3>2
  <2> QED BY <2>1, <2>2, BeginningSettles
<1>5. ASSUME NEW p \in Person, NEW m \in Mode, NEW s \in Session \cup {NoSession},
             Logout(h, p, m, s), m # "logout"
      PROVE  Settles(h)
  <2>1. PICK a, b, v : /\ v = First(m)
                       /\ call' = [call EXCEPT ![h] =
                            [NewCall EXCEPT !.pc = v, !.mode = m, !.who = p, !.sid = s,
                                            !.due = a, !.since = now, !.opened = b]]
                       /\ call[h].pc = "idle" /\ now' = now
    BY <1>5 DEF Logout, Step
  <2>2. PICK rec : rec = [NewCall EXCEPT !.pc = v, !.mode = m, !.who = p, !.sid = s,
                                         !.due = a, !.since = now, !.opened = b]
    OBVIOUS
  <2>3. Fresh(rec)
    BY <1>1, <1>5, <2>1, <2>2 DEF NewCall, First
  <2> QED BY <2>1, <2>2, <2>3, BeginningSettles
<1> QED BY <1>2, <1>3, <1>4, <1>5

\* What follows the notices, and what follows the registrations.
LEMMA AfterNoticesCarries ==
  ASSUME NEW t \in CallRec
  PROVE  /\ Carries(AfterNotices(t), t)
         /\ AfterNotices(t).pc = IF t.mode = "logout" THEN "revoke" ELSE "out"
<1>1. PICK v : /\ v = IF t.mode = "logout" THEN "revoke" ELSE "out"
               /\ AfterNotices(t) = [t EXCEPT !.regs = {}, !.pc = v]
  BY DEF AfterNotices
<1>2. PICK rec \in Edits(t, v, {}, {}) : rec = AfterNotices(t)
  BY <1>1 DEF Edits
<1> QED BY <1>1, <1>2, CarryingEdits

LEMMA AfterRegsCarries ==
  ASSUME NEW t \in CallRec
  PROVE  /\ Carries(AfterRegs(t), t)
         /\ AfterRegs(t).mode = "logout" => AfterRegs(t).pc \in LogoutPc
         /\ AfterRegs(t).pc # "idle"
         /\ t.regs # {} => AfterRegs(t).pc = "push" /\ AfterRegs(t).regs = t.regs
<1>1. CASE t.regs = {}
  BY <1>1, AfterNoticesCarries DEF AfterRegs, Carries, LogoutPc
<1>2. CASE t.regs # {}
  <2>1. PICK rec \in Edits(t, "push", {}, {}) : rec = [t EXCEPT !.pc = "push"]
    BY DEF Edits
  <2>2. rec.regs = t.regs
    BY <2>1 DEF CallRec
  <2>3. Carries(rec, t) /\ rec.pc = "push"
    BY <2>1, CarryingEdits
  <2> QED BY <1>2, <2>1, <2>2, <2>3 DEF AfterRegs, LogoutPc
<1> QED BY <1>1, <1>2

\* A logout begins: what is due is what the keys lead to.
LEMMA LogoutSettles ==
  ASSUME SessionInv, NotifyInv, NEW h \in Call, NEW p \in Person,
         NEW s \in Session \cup {NoSession}, Logout(h, p, "logout", s)
  PROVE  Settles(h)
<1>1. PICK a, b : /\ call' = [call EXCEPT ![h] =
                       [NewCall EXCEPT !.pc = "list", !.mode = "logout", !.who = p, !.sid = s,
                                       !.due = a, !.since = now, !.opened = b]]
                  /\ a = Due(p)
  BY DEF Logout, Step, First
<1>2. call[h].pc = "idle" /\ UNCHANGED <<now, index, reg, about>>
  BY DEF Logout, Step, storeVars
<1>3. PICK rec : rec = [NewCall EXCEPT !.pc = "list", !.mode = "logout", !.who = p, !.sid = s,
                                       !.due = a, !.since = now, !.opened = b]
  OBVIOUS
<1>4. rec.pc = "list" /\ rec.mode = "logout" /\ rec.who = p /\ rec.due = a /\ rec.since = now
  BY <1>3 DEF NewCall
<1>5. call'[h] = rec /\ \A x \in Call \ {h} : call'[x] = call[x]
  BY <1>1, <1>3 DEF SessionInv, CallsOK
<1>6. call[h].mode = "none" /\ now \in Nat
  BY <1>2, Times DEF NotifyInv, NotedCall, TimesOK
<1>7. NotedCall(call[h])'
  <2>1. now <= now /\ now' = now /\ "list" \in LogoutPc
    BY <1>2, <1>6 DEF LogoutPc
  <2> QED BY <1>4, <1>5, <2>1 DEF NotedCall
<1>8. ASSUME NEW n \in a
      PROVE  NoticeOK(call[h], n)'
  <2>1. about[n] \in Members(index[p]) /\ n \in Members(reg[about[n]])
    BY <1>1, <1>8 DEF Due
  <2>2. Members(index[p])' = Members(index[p]) /\ \A r : Members(reg[r])' = Members(reg[r])
    BY <1>2 DEF Members
  <2>3. about[n]' \in Members(index[p])' /\ n \in Members(reg[about[n]])'
    BY <1>2, <2>1, <2>2
  <2> QED BY <1>4, <1>5, <2>3 DEF NoticeOK, Reached
<1> QED BY <1>4, <1>5, <1>6, <1>7, <1>8 DEF Settles

\* The steps of a call on its list, and what they leave to show.
LEMMA SettlesOnList ==
  ASSUME SessionInv, NotifyInv, NEW h \in Call, NEW rec, now' = now,
         call' = [call EXCEPT ![h] = rec], Carries(rec, call[h]), rec.pc # "idle",
         rec.mode = "logout" => rec.pc \in LogoutPc,
         rec.mode = "logout" /\ rec.clean /\ rec.timely
           => \A n \in Notice : ~Accounted(n)' /\ NoticeOK(call[h], n) => NoticeOK(rec, n)'
  PROVE  Settles(h)
<1>1. call'[h] = rec /\ \A x \in Call \ {h} : call'[x] = call[x]
  BY DEF SessionInv, CallsOK
<1>2. NotedCall(call[h]) /\ call[h] \in CallRec
  BY Recorded DEF NotifyInv
<1>3. NotedCall(call[h])'
  BY <1>1, <1>2 DEF NotedCall, Carries
<1>4. ASSUME rec.mode = "logout", rec.clean, rec.timely, NEW n \in rec.due,
             call[h].mode = "none" \/ NoticeOK(call[h], n)
      PROVE  NoticeOK(call[h], n)'
  <2>1. n \in Notice /\ NoticeOK(call[h], n)
    BY <1>2, <1>4 DEF CallRec, Carries
  <2>2. CASE Accounted(n)'
    BY <2>2 DEF NoticeOK
  <2>3. CASE ~Accounted(n)'
    BY <1>1, <1>4, <2>1, <2>3 DEF NoticeOK, Reached, Listed
  <2> QED BY <2>2, <2>3
<1> QED BY <1>1, <1>3, <1>4 DEF Settles

\* The keys of one instant.
LEMMA SameKeys ==
  ASSUME now' = now, UNCHANGED storeVars
  PROVE  \A x, n : about[n] \in x.todo /\ n \in Members(reg[about[n]]) => Listed(x, n)'
<1>1. \A r : Members(reg[r])' = Members(reg[r])
  BY DEF Members, storeVars
<1> QED BY <1>1 DEF Listed, storeVars

\* A call reads its list on time, or is untimely from here on.
LEMMA Timed ==
  ASSUME NEW c \in CallRec, NEW d, d = [c EXCEPT !.timely = @ /\ now = c.since]
  PROVE  /\ d \in CallRec /\ Carries(d, c) /\ d.todo = c.todo /\ d.regs = c.regs
         /\ d.timely => now = c.since
<1>1. PICK b \in BOOLEAN : b = (c.timely /\ now = c.since)
  <2>1. CASE c.timely /\ now = c.since
    BY <2>1 DEF CallRec
  <2>2. CASE ~(c.timely /\ now = c.since)
    <3>1. (c.timely /\ now = c.since) = FALSE
      BY <2>2
    <3>2. FALSE \in BOOLEAN
      OBVIOUS
    <3> QED BY <3>1, <3>2
  <2> QED BY <2>1, <2>2
<1>2. d = [c EXCEPT !.timely = b]
  BY <1>1
<1>3. d \in CallRec /\ d.todo = c.todo /\ d.regs = c.regs /\ d.timely = b
  BY <1>2 DEF CallRec
<1>4. Carries(d, c)
  BY <1>1, <1>2 DEF CallRec, Carries
<1> QED BY <1>1, <1>3, <1>4

LEMMA ListSessionsSettles ==
  ASSUME SessionInv, NotifyInv, NEW h \in Call, ListSessions(h)
  PROVE  Settles(h)
<1>1. PICK c \in CallRec : c = call[h]
  BY Recorded
<1>2. PICK d : d = [c EXCEPT !.timely = @ /\ now = c.since]
  OBVIOUS
<1>3. d \in CallRec /\ Carries(d, c) /\ (d.timely => now = c.since)
  BY <1>2, Timed
<1>4. c.pc = "list" /\ now' = now /\ UNCHANGED <<storeVars>>
  BY <1>1 DEF ListSessions, Step
<1>5. PICK todo : todo = Members(index[c.who])
  OBVIOUS
<1>6. CASE todo = {} /\ Step(h, "list", AfterNotices(d))
  <2>1. PICK rec : rec = AfterNotices(d)
    OBVIOUS
  <2>2. /\ Carries(rec, c) /\ Carries(rec, d) /\ rec.pc # "idle"
        /\ rec.mode = "logout" => rec.pc \in LogoutPc
    BY <1>3, <2>1, AfterNoticesCarries, CarriesOn DEF LogoutPc, Carries
  <2>3. ASSUME rec.timely, NEW n, NoticeOK(c, n)
        PROVE  Accounted(n)
    BY <1>3, <1>4, <1>5, <1>6, <2>2, <2>3 DEF NoticeOK, Reached, Carries
  <2>4. \A n \in Notice : Accounted(n) => Accounted(n)'
    BY AccountedStays DEF NotifyInv, Next, Serve
  <2> QED BY <1>1, <1>4, <1>6, <2>1, <2>2, <2>3, <2>4, SettlesOnList DEF Step
<1>7. CASE Step(h, "list", [d EXCEPT !.pc = "regs", !.todo = todo])
  <2>1. PICK rec \in Edits(d, "regs", todo, todo) : rec = [d EXCEPT !.pc = "regs", !.todo = todo]
    BY DEF Edits
  <2>2. Carries(rec, c) /\ rec.pc = "regs" /\ Carries(rec, d)
    BY <1>3, <2>1, CarryingEdits, CarriesOn
  <2>3. rec.todo = todo
    BY <1>3, <2>1 DEF CallRec
  <2>4. ASSUME rec.timely, NEW n \in Notice, ~Accounted(n)', NoticeOK(c, n)
        PROVE  NoticeOK(rec, n)'
    <3>1. ~Accounted(n)
      BY <2>4, AccountedStays DEF NotifyInv, Next, Serve
    <3>2. now = c.since
      BY <1>3, <2>2, <2>4 DEF Carries
    <3>3. about[n] \in rec.todo /\ n \in Members(reg[about[n]])
      BY <1>4, <1>5, <2>3, <2>4, <3>1, <3>2 DEF NoticeOK, Reached
    <3>4. Listed(rec, n)'
      BY <1>4, <3>3, SameKeys
    <3> QED BY <2>2, <3>4 DEF NoticeOK
  <2> QED BY <1>1, <1>4, <1>7, <2>1, <2>2, <2>4, SettlesOnList DEF Step, LogoutPc
<1>8. CASE Step(h, "list", AfterNotices(Unclean(c)))
  <2>1. PICK u \in CallRec : u = Unclean(c) /\ Carries(u, c) /\ ~u.clean
    BY CarryingUnclean
  <2>2. PICK rec : rec = AfterNotices(u)
    OBVIOUS
  <2>3. /\ Carries(rec, c) /\ ~rec.clean /\ rec.pc # "idle"
        /\ rec.mode = "logout" => rec.pc \in LogoutPc
    BY <2>1, <2>2, AfterNoticesCarries, CarriesOn DEF LogoutPc, Carries
  <2> QED BY <1>1, <1>4, <1>8, <2>1, <2>2, <2>3, SettlesOnList DEF Step
<1> QED BY <1>1, <1>2, <1>5, <1>6, <1>7, <1>8 DEF ListSessions

LEMMA ListRegsSettles ==
  ASSUME SessionInv, NotifyInv, NEW h \in Call, ListRegs(h)
  PROVE  Settles(h)
<1>1. PICK c \in CallRec : c = call[h]
  BY Recorded
<1>2. c.pc = "regs" /\ now' = now /\ UNCHANGED storeVars
  BY <1>1 DEF ListRegs, Step
<1>3. CASE Step(h, "regs", AfterNotices(Unclean([c EXCEPT !.todo = {}])))
  <2>1. PICK u : u = [c EXCEPT !.todo = {}]
    OBVIOUS
  <2>2. u \in CallRec /\ Carries(u, c)
    BY <2>1 DEF CallRec, Carries
  <2>3. PICK t \in CallRec : t = Unclean(u) /\ Carries(t, c) /\ ~t.clean
    BY <2>2, CarryingUnclean, CarriesOn
  <2>4. PICK rec : rec = AfterNotices(t)
    OBVIOUS
  <2>5. /\ Carries(rec, c) /\ ~rec.clean /\ rec.pc # "idle"
        /\ rec.mode = "logout" => rec.pc \in LogoutPc
    BY <2>3, <2>4, AfterNoticesCarries, CarriesOn DEF LogoutPc, Carries
  <2> QED BY <1>1, <1>2, <1>3, <2>1, <2>3, <2>4, <2>5, SettlesOnList DEF Step
<1>4. ASSUME NEW s \in c.todo, NEW d,
             d = [c EXCEPT !.regs = @ \cup Members(reg[s]), !.todo = @ \ {s},
                           !.timely = @ /\ now = c.since],
             Step(h, "regs", IF d.todo = {} THEN AfterRegs(d) ELSE d)
      PROVE  Settles(h)
  <2>1. PICK regs \in SUBSET Notice : regs = c.regs \cup Members(reg[s])
    BY <1>4 DEF Members, SessionInv, StoreOK, StoreTyped, RegRec, CallRec
  <2>2. PICK todo \in SUBSET Session : todo = c.todo \ {s}
    BY DEF CallRec
  <2>3. PICK t : t = [c EXCEPT !.timely = @ /\ now = c.since]
    OBVIOUS
  <2>4. t \in CallRec /\ Carries(t, c) /\ (t.timely => now = c.since)
    BY <2>3, Timed
  <2>5. d = [t EXCEPT !.regs = regs, !.todo = todo]
    BY <1>4, <2>1, <2>2, <2>3 DEF CallRec
  <2>6. d \in CallRec /\ Carries(d, t) /\ d.regs = regs /\ d.todo = todo /\ d.pc = t.pc
    BY <2>4, <2>5 DEF CallRec, Carries
  <2>7. t.pc = "regs" /\ Carries(d, c)
    BY <1>2, <2>3, <2>4, <2>6, CarriesOn DEF CallRec
  <2>8. PICK rec : rec = IF d.todo = {} THEN AfterRegs(d) ELSE d
    OBVIOUS
  <2>9. /\ Carries(rec, c) /\ Carries(rec, d) /\ rec.pc # "idle"
        /\ rec.mode = "logout" => rec.pc \in LogoutPc
        /\ todo # {} => rec.pc = "regs" /\ rec.regs = regs /\ rec.todo = todo
        /\ todo = {} /\ regs # {} => rec.pc = "push" /\ rec.regs = regs
    <3>1. CASE todo = {}
      BY <2>6, <2>7, <2>8, <3>1, AfterRegsCarries, CarriesOn
    <3>2. CASE todo # {}
      BY <2>6, <2>7, <2>8, <3>2 DEF LogoutPc, Carries
    <3> QED BY <3>1, <3>2
  <2>10. ASSUME rec.timely, NEW n \in Notice, ~Accounted(n)', NoticeOK(c, n)
         PROVE  NoticeOK(rec, n)'
    <3>1. ~Accounted(n)
      BY <2>10, AccountedStays DEF NotifyInv, Next, Serve
    <3>2. now = c.since
      BY <2>4, <2>6, <2>9, <2>10 DEF Carries
    <3>3. n \in regs \/ (about[n] \in todo /\ n \in Members(reg[about[n]]))
      BY <1>2, <2>1, <2>2, <2>10, <3>1, <3>2 DEF NoticeOK, Listed
    <3>4. CASE n \in regs
      BY <2>9, <3>4 DEF NoticeOK
    <3>5. CASE about[n] \in todo /\ n \in Members(reg[about[n]])
      <4>1. Listed(rec, n)'
        BY <1>2, <2>9, <3>5, SameKeys
      <4> QED BY <2>9, <3>5, <4>1 DEF NoticeOK
    <3> QED BY <3>3, <3>4, <3>5
  <2> QED BY <1>1, <1>2, <1>4, <2>8, <2>9, <2>10, SettlesOnList DEF Step
<1> QED BY <1>1, <1>3, <1>4 DEF ListRegs

LEMMA PushSettles ==
  ASSUME SessionInv, NotifyInv, NEW h \in Call, Push(h)
  PROVE  Settles(h)
<1>1. PICK c \in CallRec : c = call[h]
  BY Recorded
<1>2. c.pc = "push" /\ UNCHANGED <<now, told, gone, worker>>
  BY <1>1 DEF Push, Step, pastVars
<1>3. PICK m \in c.regs :
        \/ /\ Step(h, "push", AfterRegs([c EXCEPT !.regs = @ \ {m}]))
           /\ queue' = Append(queue, [notice |-> m, at |-> now])
        \/ Step(h, "push", AfterRegs([Unclean(c) EXCEPT !.regs = @ \ {m}]))
  BY <1>1 DEF Push
<1>4. PICK regs \in SUBSET Notice : regs = c.regs \ {m}
  BY DEF CallRec
<1>5. CASE /\ Step(h, "push", AfterRegs([c EXCEPT !.regs = @ \ {m}]))
           /\ queue' = Append(queue, [notice |-> m, at |-> now])
  <2>1. PICK d : d = [c EXCEPT !.regs = @ \ {m}]
    OBVIOUS
  <2>2. d = [c EXCEPT !.regs = regs]
    BY <1>4, <2>1
  <2>3. d \in CallRec /\ Carries(d, c) /\ d.regs = regs
    BY <2>2 DEF CallRec, Carries
  <2>4. PICK rec : rec = AfterRegs(d)
    OBVIOUS
  <2>5. /\ Carries(rec, c) /\ rec.pc # "idle"
        /\ rec.mode = "logout" => rec.pc \in LogoutPc
        /\ regs # {} => rec.pc = "push" /\ rec.regs = regs
    BY <2>3, <2>4, AfterRegsCarries, CarriesOn
  <2>6. Accounted(m)'
    BY <1>5, Queued DEF Accounted
  <2>7. ASSUME NEW n \in Notice, ~Accounted(n)', NoticeOK(c, n)
        PROVE  NoticeOK(rec, n)'
    <3>1. ~Accounted(n)
      BY <2>7, AccountedStays DEF NotifyInv, Next, Serve
    <3>2. n \in regs
      BY <1>2, <1>4, <2>6, <2>7, <3>1 DEF NoticeOK
    <3> QED BY <2>5, <3>2 DEF NoticeOK
  <2> QED BY <1>1, <1>2, <1>5, <2>1, <2>4, <2>5, <2>7, SettlesOnList DEF Step
<1>6. CASE Step(h, "push", AfterRegs([Unclean(c) EXCEPT !.regs = @ \ {m}]))
  <2>1. PICK u \in CallRec : u = Unclean(c) /\ Carries(u, c) /\ ~u.clean /\ u.regs = c.regs
    <3>1. Unclean(c).regs = c.regs
      BY DEF Unclean, CallRec
    <3> QED BY <3>1, CarryingUnclean
  <2>2. PICK d : d = [u EXCEPT !.regs = @ \ {m}]
    OBVIOUS
  <2>3. d = [u EXCEPT !.regs = regs]
    BY <1>4, <2>1, <2>2
  <2>4. d \in CallRec /\ Carries(d, u)
    BY <2>3 DEF CallRec, Carries
  <2>5. PICK rec : rec = AfterRegs(d)
    OBVIOUS
  <2>6. /\ Carries(rec, c) /\ ~rec.clean /\ rec.pc # "idle"
        /\ rec.mode = "logout" => rec.pc \in LogoutPc
    <3>1. Carries(d, c) /\ ~d.clean
      BY <2>1, <2>4, CarriesOn
    <3> QED BY <2>4, <2>5, <3>1, AfterRegsCarries, CarriesOn
  <2> QED BY <1>1, <1>2, <1>6, <2>1, <2>2, <2>5, <2>6, SettlesOnList DEF Step
<1> QED BY <1>3, <1>5, <1>6

\* The calls that revoke have their notices behind them.
LEMMA AfterRevokeCarries ==
  ASSUME NEW t \in CallRec
  PROVE  /\ Carries(AfterRevoke(t), t) /\ AfterRevoke(t).pc \notin {"idle", "drop index"}
         /\ AfterRevoke(t).mode = "logout" => AfterRevoke(t).pc \in LogoutPc
<1>1. PICK s \in Session \cup {NoSession} : s = t.sid
  BY DEF CallRec
<1>2. PICK a : a = {s}
  OBVIOUS
<1>3. PICK v \in {"out", "regs", "list"} : /\ AfterRevoke(t) \in Edits(t, v, a, a)
                                           /\ t.mode # "end_session" => v = "out"
  BY <1>1, <1>2 DEF AfterRevoke, Edits
<1>4. PICK rec \in Edits(t, v, a, a) : rec = AfterRevoke(t)
  BY <1>3
<1>5. Carries(rec, t) /\ rec.pc = v
  BY <1>4, CarryingEdits
<1> QED BY <1>3, <1>4, <1>5 DEF Carries, LogoutPc

LEMMA RevokesSettle ==
  ASSUME SessionInv, NotifyInv, NEW h \in Call, Revoke(h) \/ DeleteSession(h) \/ DropIndex(h)
  PROVE  Settles(h)
<1>1. PICK c \in CallRec : c = call[h]
  BY Recorded
<1>2. c.pc \in {"revoke", "delete", "drop index"} /\ now' = now /\ [Next]_vars
  BY <1>1 DEF Revoke, DeleteSession, DropIndex, Step, Next, Serve
<1>3. ASSUME NEW rec, call' = [call EXCEPT ![h] = rec], Carries(rec, c), rec.pc # "idle",
             rec.mode = "logout" => rec.pc \in LogoutPc
      PROVE  Settles(h)
  BY <1>1, <1>2, <1>3, SettlesElse
<1>4. PICK u \in CallRec : u = Unclean(c) /\ Carries(u, c)
  BY CarryingUnclean
<1>5. ASSUME NEW t \in {c, u}, call' = [call EXCEPT ![h] = AfterRevoke(t)]
      PROVE  Settles(h)
  <2>1. PICK rec : rec = AfterRevoke(t)
    OBVIOUS
  <2>2. Carries(t, c) /\ t \in CallRec
    BY <1>4 DEF Carries
  <2>3. Carries(rec, t) /\ rec.pc # "idle" /\ (rec.mode = "logout" => rec.pc \in LogoutPc)
    BY <2>1, <2>2, AfterRevokeCarries
  <2> QED BY <1>3, <1>5, <2>1, <2>2, <2>3, CarriesOn
<1>6. ASSUME NEW t \in {c, Unclean(c)}, NEW v \in {"delete", "drop index"}, NEW a,
             NEW rec \in Edits(t, v, a, a), call' = [call EXCEPT ![h] = rec]
      PROVE  Settles(h)
  <2>1. Carries(rec, c) /\ rec.pc = v
    BY <1>6, CarriesEdit
  <2> QED BY <1>3, <1>6, <2>1 DEF LogoutPc
<1>7. CASE Revoke(h)
  <2>1. CASE call' = [call EXCEPT ![h] = AfterRevoke(u)]
    BY <1>5, <2>1
  <2>2. ASSUME NEW a, NEW v \in {"delete", "drop index"},
               call' = [call EXCEPT ![h] = [c EXCEPT !.todo = a, !.pc = v]]
        PROVE  Settles(h)
    <3>1. PICK rec \in Edits(c, v, a, a) : rec = [c EXCEPT !.todo = a, !.pc = v]
      BY DEF Edits
    <3> QED BY <1>6, <2>2, <3>1
  <2> QED BY <1>1, <1>4, <1>7, <2>1, <2>2 DEF Revoke, Step
<1>8. CASE DeleteSession(h)
  <2>1. PICK d, s :
          /\ d = [c EXCEPT !.todo = @ \ {s}, !.pc = IF c.todo = {s} THEN "drop index" ELSE "delete"]
          /\ \/ call' = [call EXCEPT ![h] = d]
             \/ call' = [call EXCEPT ![h] = Unclean(d)]
    BY <1>1, <1>8 DEF DeleteSession, Step
  <2>2. PICK v \in {"delete", "drop index"} : d = [c EXCEPT !.todo = @ \ {s}, !.pc = v]
    BY <2>1
  <2>3. PICK a : a = c.todo \ {s}
    OBVIOUS
  <2>4. d = [c EXCEPT !.todo = a, !.pc = v] /\ Unclean(d) = [Unclean(c) EXCEPT !.todo = a, !.pc = v]
    BY <2>2, <2>3 DEF CallRec, Unclean
  <2>5. d \in Edits(c, v, a, a) /\ Unclean(d) \in Edits(Unclean(c), v, a, a)
    BY <2>4 DEF Edits
  <2> QED BY <1>6, <2>1, <2>5
<1>9. CASE DropIndex(h)
  <2>1. PICK t \in {c, u} : call' = [call EXCEPT ![h] = AfterRevoke(t)]
    BY <1>1, <1>4, <1>9 DEF DropIndex, Step
  <2> QED BY <1>5, <2>1
<1> QED BY <1>7, <1>8, <1>9

LEMMA StopCallSettles ==
  ASSUME SessionInv, NotifyInv, NEW h \in Call, StopCall(h)
  PROVE  Settles(h)
<1>1. PICK c \in CallRec : c = call[h]
  BY Recorded
<1>2. PICK rec \in Edits(c, "stopped", {}, {}) : rec = [c EXCEPT !.pc = "stopped"]
  BY DEF Edits
<1>3. call' = [call EXCEPT ![h] = rec] /\ now' = now
  BY <1>1, <1>2 DEF StopCall
<1>4. Carries(rec, c) /\ rec.pc = "stopped"
  BY <1>2, CarryingEdits
<1>5. [Next]_vars
  BY DEF Next
<1> QED BY <1>1, <1>3, <1>4, <1>5, SettlesElse DEF LogoutPc

\* The call that drops an index goes on to its next step.
LEMMA DropIndexMoves ==
  ASSUME SessionInv, NEW h \in Call, DropIndex(h)
  PROVE  call[h].mode # "none" /\ call'[h] # call[h]
<1>1. PICK c \in CallRec : c = call[h] /\ HoldOK(c, owner)
  BY Recorded
<1>2. c.pc = "drop index"
  BY <1>1 DEF DropIndex, Step
<1>3. PICK t \in {c, Unclean(c)} : call' = [call EXCEPT ![h] = AfterRevoke(t)]
  BY <1>1 DEF DropIndex, Step
<1>4. AfterRevoke(t).pc # "drop index"
  BY AfterRevokeCarries, CarryingUnclean
<1>5. call'[h] = AfterRevoke(t)
  BY <1>3 DEF SessionInv, CallsOK
<1> QED BY <1>1, <1>2, <1>4, <1>5 DEF HoldOK

\* An undisturbed logout beside which a call, a worker or the clock takes a
\* step: no index of its person is dropped.
LEMMA OthersOwe ==
  ASSUME SessionInv, NotifyInv, [Next]_vars, NEW l \in Call, call'[l] = call[l],
         \A x \in Call : call[x].mode # "none" => Carries(call'[x], call[x])
  PROVE  NotedCall(call[l])' /\ Owed(l)'
<1>1. NotedCall(call[l])'
  <2>1. now <= now' /\ now \in Nat /\ now' \in Nat
    BY RegistrationsStay, Times, NextMoves DEF KeysMove, TimesOK
  <2>2. call[l].since \in Nat
    BY Recorded DEF CallRec, Instant
  <2> QED BY <2>1, <2>2 DEF NotifyInv, NotedCall
<1>2. ASSUME call[l].mode = "logout", Undisturbed(l)', NEW n \in call[l].due
      PROVE  NoticeOK(call[l], n)'
  <2>1. \A x \in Call \ {l} : call[x].mode # "none" => call[x].who # call[l].who
    BY <1>2 DEF Undisturbed, Carries
  <2>2. Undisturbed(l)
    BY <1>2, <2>1 DEF Undisturbed
  <2>3. NoticeOK(call[l], n) /\ n \in Notice
    BY <1>2, <2>2, Recorded DEF NotifyInv, Owed, CallRec
  <2>4. call[l].who \in Person
    BY <1>2, Recorded DEF HoldOK
  <2>5. ASSUME NEW x \in Call, DropIndex(x), call[x].who = call[l].who
        PROVE  FALSE
    BY <2>1, <2>5, DropIndexMoves
  <2> QED BY <2>3, <2>4, <2>5, BystanderOwes
<1> QED BY <1>1, <1>2 DEF Owed

LEMMA SettledOwes ==
  ASSUME SessionInv, NotifyInv, [Next]_vars, NEW h \in Call, Settles(h)
  PROVE  NotifyInv'
<1>1. WorkersTold'
  BY AccountedStays DEF NotifyInv
<1>2. \A x \in Call : call[x].mode # "none" => Carries(call'[x], call[x])
  BY DEF Settles, Carries
<1>3. ASSUME NEW l \in Call \ {h}
      PROVE  NotedCall(call[l])' /\ Owed(l)'
  <2>1. call'[l] = call[l]
    BY DEF Settles
  <2> QED BY <1>2, <2>1, OthersOwe
<1>4. ASSUME call'[h].mode = "logout", Undisturbed(h)', NEW n \in call'[h].due
      PROVE  NoticeOK(call[h], n)'
  <2>1. CASE call[h].mode = "none"
    BY <1>4, <2>1 DEF Settles, Undisturbed
  <2>2. CASE call[h].mode # "none"
    <3>1. Carries(call'[h], call[h]) /\ \A x \in Call \ {h} : call'[x] = call[x]
      BY <2>2 DEF Settles
    <3>2. Undisturbed(h) /\ call[h].mode = "logout" /\ n \in call[h].due
      BY <1>4, <3>1 DEF Undisturbed, Carries
    <3>3. NoticeOK(call[h], n)
      BY <3>2 DEF NotifyInv, Owed
    <3> QED BY <1>4, <3>3 DEF Settles, Undisturbed
  <2> QED BY <2>1, <2>2
<1>5. NotedCall(call[h])' /\ Owed(h)'
  BY <1>4 DEF Owed, Settles
<1> QED BY <1>1, <1>3, <1>5 DEF NotifyInv

LEMMA NotifyKept == SessionInv /\ NotifyInv /\ [Next]_vars => NotifyInv'
<1> SUFFICES ASSUME SessionInv, NotifyInv, [Next]_vars PROVE NotifyInv'
  OBVIOUS
<1>1. ASSUME NEW h \in Call, NEW p \in Person, NEW s \in Session, CreateSession(h, p, s)
      PROVE  NotifyInv'
  BY <1>1, BeginningsSettle, SettledOwes
<1>2. ASSUME NEW h \in Call, NEW s \in Session, NEW n \in Notice, Register(h, s, n)
      PROVE  NotifyInv'
  BY <1>2, BeginningsSettle, SettledOwes
<1>3. ASSUME NEW h \in Call, NEW p \in Person, HasActiveSession(h, p)
      PROVE  NotifyInv'
  BY <1>3, BeginningsSettle, SettledOwes
<1>4. ASSUME NEW h \in Call, NEW p \in Person, NEW m \in Mode, NEW s \in Session \cup {NoSession},
             Logout(h, p, m, s)
      PROVE  NotifyInv'
  <2>1. CASE m = "logout"
    BY <1>4, <2>1, LogoutSettles, SettledOwes
  <2>2. CASE m # "logout"
    BY <1>4, <2>2, BeginningsSettle, SettledOwes
  <2> QED BY <2>1, <2>2
<1>5. ASSUME NEW h \in Call, Serve(h) \/ StopCall(h)
      PROVE  NotifyInv'
  <2>1. Settles(h)
    BY <1>5, OthersSettle, ListSessionsSettles, ListRegsSettles, PushSettles, RevokesSettle,
       StopCallSettles DEF Serve
  <2> QED BY <2>1, SettledOwes
<1>6. CASE UNCHANGED call
  <2>1. \A x \in Call : call'[x] = call[x] /\ Carries(call'[x], call[x])
    BY <1>6 DEF Carries
  <2>2. \A l \in Call : NotedCall(call[l])' /\ Owed(l)'
    BY <2>1, OthersOwe
  <2> QED BY <2>2, AccountedStays DEF NotifyInv
<1>7. ASSUME NEW w \in Worker, Work(w) \/ StopWorker(w)
      PROVE  UNCHANGED call
  BY <1>7 DEF Work, Dequeue, SendOK, SendFails, Forget, StopWorker
<1> QED BY <1>1, <1>2, <1>3, <1>4, <1>5, <1>6, <1>7 DEF Next, Tick, vars

LEMMA NotifyInit == Init => NotifyInv
<1> SUFFICES ASSUME Init PROVE NotifyInv
  OBVIOUS
<1>1. \A l \in Call : call[l] = NewCall
  BY DEF Init
<1>2. NewCall.pc = "idle" /\ NewCall.mode = "none" /\ NewCall.since = 0
  BY DEF NewCall
<1>3. now = 1 /\ \A w \in Worker : ~worker[w].sent
  BY DEF Init
<1> QED BY <1>1, <1>2, <1>3 DEF NotifyInv, WorkersTold, NotedCall, Owed

\* What a logout owes is accounted for, or in view of the logout, in every
\* reachable state (ListByPersonID, EnqueueLogout, logoutWorker.Run).
THEOREM NotifyInvariant == Spec => []NotifyInv
  BY SessionInvariant, NotifyInit, NotifyKept, PTL DEF Spec

\* A logout that nothing disturbed has announced itself to every client that was
\* registered under a session of the person when it began: the notice was
\* queued, is with a worker, or has ended (ListByPersonID and EnqueueLogout,
\* slo.go; the logout worker).
THEOREM LogoutsNotify == Spec => []LogoutNotifies
<1>1. NotifyInv => LogoutNotifies
  <2> SUFFICES ASSUME NotifyInv, NEW l \in Call, call[l].pc = "out", call[l].mode = "logout",
                      Undisturbed(l), NEW n \in call[l].due
               PROVE  Accounted(n)
    BY DEF LogoutNotifies, Announced
  <2>1. NoticeOK(call[l], n)
    BY DEF NotifyInv, Owed
  <2> QED BY <2>1 DEF NoticeOK
<1> QED BY <1>1, NotifyInvariant, PTL
=============================================================================
