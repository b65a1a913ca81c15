--------------------------- MODULE AuthCodeProofs ---------------------------
(***************************************************************************)
(* Proofs about AuthCode, for any number of calls, requests, codes,        *)
(* sessions, persons and tenants: the types, the single payment of a code, *)
(* and the refinement of OneTimeCode.                                      *)
(*                                                                         *)
(* Then the logins: whoever races on a request, tokens go to somebody who  *)
(* authenticated on it, in a tenant of theirs.  The read-modify-writes of  *)
(* the logins (GET, change, SET of the whole value) lose updates, but what *)
(* they write is proven all the same: each login writes its own person and *)
(* tenant together, and what people proved is never taken back.  And a     *)
(* revocation of a person's sessions ends those whose login had answered   *)
(* before it, unless the index lost them.                                  *)
(***************************************************************************)
EXTENDS AuthCode, TLAPS

USE NullAssumption, TTLAssumption, DataAssumption
USE DEF redisVars, pastVars, sessVars, dataVars

-----------------------------------------------------------------------------
(* Types, and what calls know.                                             *)

SoundCall == {c \in CallRecord : Knows(c)}

StateOK == TypeOK /\ CallsSound

\* A record for call h that leaves the takers and the payments of codes alone:
\* the call took no code before and takes none now, or it stays the taker it was.
KeepsCodes(h, rec) ==
  /\ \/ /\ call[h].code = NoCode
        /\ rec.code = NoCode \/ rec.req = NoRequest \/ rec.pc = "coded"
     \/ /\ rec.code = call[h].code /\ rec.req = call[h].req
        /\ call[h].pc # "coded" /\ rec.pc # "coded"
  /\ rec.pc \in {"delete request", "granted", "unanswered"} <=> Paid(h)

\* What every step does to codes, but saving, taking and paying one.
CodesAsBefore ==
  /\ UNCHANGED <<now, code, issued>>
  /\ \A g \in Call, c \in Code : Took(g, c)' <=> Took(g, c)
  /\ \A g \in Call : Paid(g)' <=> Paid(g)

\* The records the actions start from are of their types.
LEMMA Constants ==
  /\ Gone \in AuthRequest /\ NewCall \in CallRecord /\ NewCall.code = NoCode
  /\ NewCall.tenant = NoTenant /\ NewCall.copy = Gone /\ NewCall.req = NoRequest
BY DEF Gone, NewCall, AuthRequest, CallRecord, Instant

\* What the clock and the lifetimes add up to is an instant.
LEMMA InstantsTyped ==
  ASSUME TypeOK
  PROVE  /\ now + RequestTTL \in Instant /\ now + CodeTTL \in Instant
         /\ now + SpentTTL \in Instant /\ 0 \in Instant
BY DEF TypeOK, Instant

\* The step of one call that takes no code.
LEMMA CallStep ==
  ASSUME StateOK, NEW h \in Call, NEW rec \in SoundCall, KeepsCodes(h, rec),
         call' = [call EXCEPT ![h] = rec]
  PROVE  /\ call' \in [Call -> CallRecord] /\ CallsSound'
         /\ \A g \in Call, c \in Code : Took(g, c)' <=> Took(g, c)
         /\ \A g \in Call : Paid(g)' <=> Paid(g)
<1>1. call' \in [Call -> CallRecord] /\ CallsSound'
  BY DEF StateOK, TypeOK, SoundCall, CallsSound
<1>2. \A g \in Call \ {h} : call'[g] = call[g]
  OBVIOUS
<1>3. call'[h] = rec
  BY DEF StateOK, TypeOK
<1>4. \A c \in Code : Took(h, c)' <=> Took(h, c)
  BY <1>3 DEF Took, KeepsCodes
<1>5. \A g \in Call \ {h}, c \in Code : Took(g, c)' <=> Took(g, c)
  BY <1>2 DEF Took
<1>6. \A g \in Call : Paid(g)' <=> Paid(g)
  BY <1>2, <1>3 DEF Paid, KeepsCodes
<1> QED BY <1>1, <1>4, <1>5, <1>6

\* A call that ends early.
LEMMA QuitStep ==
  ASSUME StateOK, NEW h \in Call, NEW from \in Running, NEW pc \in Ended,
         pc \in {"completed", "unrevoked", "unanswered", "used", "invalid", "denied", "failed"},
         (pc = "unanswered") <=> (from = "delete request"), Quit(h, from, pc)
  PROVE  StateOK' /\ CodesAsBefore
<1> DEFINE rec == [call[h] EXCEPT !.pc = pc]
<1>1. call[h] \in CallRecord /\ Knows(call[h]) /\ call[h].pc = from
  BY DEF StateOK, TypeOK, CallsSound, Quit, Step
<1>2. rec \in CallRecord
  BY <1>1 DEF CallRecord
<1>3. rec.pc = pc /\ rec.code = call[h].code /\ rec.req = call[h].req
  BY <1>1 DEF CallRecord
<1>4. pc \in Exchanging => from \in Exchanging
  BY DEF Exchanging, Ended
<1>5. Knows(rec)
  BY <1>1, <1>3, <1>4 DEF Knows, Acting, Exchanging, Running, Ended
<1>6. KeepsCodes(h, rec)
  BY <1>1, <1>3 DEF KeepsCodes, Paid, Running
<1> HIDE DEF rec
<1>7. call' = [call EXCEPT ![h] = rec]
  BY DEF Quit, Step, rec
<1> QED BY <1>2, <1>5, <1>6, <1>7, CallStep DEF SoundCall, Quit, StateOK, TypeOK, CodesAsBefore

\* Every step of a login call keeps the types and leaves the takers of codes alone.
LEMMA LoginStep ==
  ASSUME StateOK, NEW h \in Call, LoginCall(h)
  PROVE  StateOK' /\ CodesAsBefore
<1>0. call[h] \in CallRecord /\ Knows(call[h])
  BY DEF StateOK, TypeOK, CallsSound
<1> USE DEF StateOK
<1>1. ASSUME NEW r \in Request, NEW p \in Person, LoginBegin(h, r, p)
      PROVE  StateOK' /\ CodesAsBefore
  <2> DEFINE rec == [NewCall EXCEPT !.pc = "verify", !.req = r, !.who = p, !.copy = auth[r]]
  <2>1. call' = [call EXCEPT ![h] = rec] /\ call[h].pc = "idle"
    BY <1>1 DEF LoginBegin, Step
  <2>2. auth[r] \in AuthRequest
    BY <1>0, <1>1, <2>1 DEF LoginBegin, TypeOK
  <2>3. rec \in SoundCall /\ KeepsCodes(h, rec)
    <3>0. NewCall \in CallRecord
      BY Constants
    <3>1. rec \in CallRecord
      BY <3>0, <2>2 DEF CallRecord, Running
    <3>2. Knows(rec) /\ rec.code = NoCode
      BY <2>2 DEF NewCall, Knows, Acting, Exchanging
    <3>3. call[h].code = NoCode /\ ~Paid(h)
      BY <1>0, <2>1 DEF Knows, Acting, Paid
    <3>4. rec.pc \notin {"delete request", "granted", "unanswered"}
      BY DEF NewCall
    <3> QED BY <3>1, <3>2, <3>3, <3>4 DEF SoundCall, KeepsCodes
  <2> HIDE DEF rec
  <2> QED BY <1>1, <2>1, <2>2, <2>3, CallStep DEF LoginBegin, StateOK, TypeOK, CodesAsBefore
<1>2. ASSUME NEW r \in Request, NEW p \in Person, RegisterPerson(h, r, p)
      PROVE  StateOK' /\ CodesAsBefore
  <2> DEFINE rec == [NewCall EXCEPT !.pc = "get", !.req = r, !.who = p]
  <2>1. call' = [call EXCEPT ![h] = rec] /\ call[h].pc = "idle"
    BY <1>2 DEF RegisterPerson, Step
  <2>3. rec \in SoundCall /\ KeepsCodes(h, rec)
    <3>0. NewCall \in CallRecord
      BY Constants
    <3>1. rec \in CallRecord
      BY <3>0 DEF CallRecord, Running
    <3>2. Knows(rec) /\ rec.code = NoCode
      BY DEF NewCall, Knows, Acting, Exchanging
    <3>3. call[h].code = NoCode /\ ~Paid(h)
      BY <1>0, <2>1 DEF Knows, Acting, Paid
    <3>4. rec.pc \notin {"delete request", "granted", "unanswered"}
      BY DEF NewCall
    <3> QED BY <3>1, <3>2, <3>3, <3>4 DEF SoundCall, KeepsCodes
  <2> HIDE DEF rec
  <2> QED BY <1>2, <2>1, <2>3, CallStep DEF RegisterPerson, StateOK, TypeOK, CodesAsBefore
<1>3. CASE Verify(h)
  <2> DEFINE bound  == [call[h] EXCEPT !.pc = "get", !.done = FALSE]
             done(t) == [call[h] EXCEPT !.pc = "get", !.done = TRUE, !.tenant = t]
  <2>0. call[h].pc = "verify" /\ call[h].who \in Person
    BY <1>0, <1>3 DEF Verify, CallRecord, Knows, Acting
  <2>1. bound \in SoundCall /\ KeepsCodes(h, bound)
    BY <1>0, <2>0 DEF SoundCall, CallRecord, Knows, KeepsCodes, Paid, Running, Acting, Exchanging
  <2>2. \A t \in Tenant : done(t) \in SoundCall /\ KeepsCodes(h, done(t))
    BY <1>0, <2>0 DEF SoundCall, CallRecord, Knows, KeepsCodes, Paid, Running, Acting, Exchanging
  <2>3. PICK rec \in SoundCall : KeepsCodes(h, rec) /\ call' = [call EXCEPT ![h] = rec]
    <3>1. CASE call' = [call EXCEPT ![h] = bound]
      BY <2>1, <3>1
    <3>2. CASE \E t \in Landing(call[h].who, call[h].copy.tenant) : call' = [call EXCEPT ![h] = done(t)]
      <4>1. PICK t \in Landing(call[h].who, call[h].copy.tenant) : call' = [call EXCEPT ![h] = done(t)]
        BY <3>2
      <4>2. t \in Tenant
        BY <2>0, <4>1 DEF Landing, TypeOK
      <4> QED BY <2>2, <4>1, <4>2
    <3> QED BY <1>3, <3>1, <3>2 DEF Verify, Step
  <2>4. proved' \in [Request -> SUBSET Person]
    BY <2>0, <1>3 DEF Verify, TypeOK
  <2>5. UNCHANGED <<now, redisVars, created, hinted, issued, sessVars, dataVars>>
    BY <1>3 DEF Verify
  <2> QED BY <2>3, <2>4, <2>5, CallStep DEF TypeOK, CodesAsBefore
<1>4. ASSUME NEW r \in Request, NEW t \in Tenant, CreateTenantCheck(h, r, t)
      PROVE  StateOK' /\ CodesAsBefore
  <2> DEFINE rec == [NewCall EXCEPT !.pc = "open", !.req = r, !.who = auth[r].subject, !.tenant = t]
  <2>1. call' = [call EXCEPT ![h] = rec] /\ call[h].pc = "idle"
    BY <1>4 DEF CreateTenantCheck, Step
  <2>2. auth[r].subject \in Person
    BY <1>0, <1>4, <2>1 DEF CreateTenantCheck, TypeOK, AuthRequest
  <2>3. rec \in SoundCall /\ KeepsCodes(h, rec)
    <3>0. NewCall \in CallRecord
      BY Constants
    <3>1. rec \in CallRecord
      BY <3>0, <2>2 DEF CallRecord, Running
    <3>2. Knows(rec) /\ rec.code = NoCode
      BY <2>2 DEF NewCall, Knows, Acting, Exchanging
    <3>3. call[h].code = NoCode /\ ~Paid(h)
      BY <1>0, <2>1 DEF Knows, Acting, Paid
    <3>4. rec.pc \notin {"delete request", "granted", "unanswered"}
      BY DEF NewCall
    <3> QED BY <3>1, <3>2, <3>3, <3>4 DEF SoundCall, KeepsCodes
  <2> HIDE DEF rec
  <2> QED BY <1>4, <2>1, <2>2, <2>3, CallStep DEF CreateTenantCheck, StateOK, TypeOK, CodesAsBefore
<1>5. CASE CreateTenantCommit(h)
  <2> DEFINE rec == [call[h] EXCEPT !.pc = "bound"]
  <2>1. call' = [call EXCEPT ![h] = rec] /\ call[h].pc = "open"
    BY <1>5 DEF CreateTenantCommit, Step
  <2>2. call[h].tenant \in Tenant /\ call[h].who \in Person
    BY <1>0, <1>5, <2>1 DEF CreateTenantCommit, CallRecord, Knows, Acting
  <2>3. rec \in SoundCall /\ KeepsCodes(h, rec)
    BY <1>0, <2>1, <2>2
    DEF SoundCall, CallRecord, Knows, KeepsCodes, Paid, Running, Ended, Acting, Exchanging
  <2> HIDE DEF rec
  <2> QED BY <1>5, <2>1, <2>2, <2>3, CallStep DEF CreateTenantCommit, StateOK, TypeOK, CodesAsBefore
<1>6. ASSUME NEW r \in Request, NEW t \in Tenant, SelectTenant(h, r, t)
      PROVE  StateOK' /\ CodesAsBefore
  <2> DEFINE rec == [NewCall EXCEPT !.pc = "get", !.req = r, !.who = auth[r].subject, !.tenant = t, !.done = TRUE]
  <2>1. call' = [call EXCEPT ![h] = rec] /\ call[h].pc = "idle"
    BY <1>6 DEF SelectTenant, Step
  <2>2. auth[r].subject \in Person
    BY <1>0, <1>6, <2>1 DEF SelectTenant, TypeOK, AuthRequest
  <2>3. rec \in SoundCall /\ KeepsCodes(h, rec)
    <3>0. NewCall \in CallRecord
      BY Constants
    <3>1. rec \in CallRecord
      BY <3>0, <2>2 DEF CallRecord, Running
    <3>2. Knows(rec) /\ rec.code = NoCode
      BY <2>2 DEF NewCall, Knows, Acting, Exchanging
    <3>3. call[h].code = NoCode /\ ~Paid(h)
      BY <1>0, <2>1 DEF Knows, Acting, Paid
    <3>4. rec.pc \notin {"delete request", "granted", "unanswered"}
      BY DEF NewCall
    <3> QED BY <3>1, <3>2, <3>3, <3>4 DEF SoundCall, KeepsCodes
  <2> HIDE DEF rec
  <2> QED BY <1>6, <2>1, <2>2, <2>3, CallStep DEF SelectTenant, StateOK, TypeOK, CodesAsBefore
<1>7. ASSUME NEW r \in created, NEW s \in Session, SilentBegin(h, r, s)
      PROVE  StateOK' /\ CodesAsBefore
  <2> DEFINE rec == [NewCall EXCEPT !.pc = "silent", !.req = r, !.sid = s, !.who = owner[s]]
  <2>1. call' = [call EXCEPT ![h] = rec] /\ call[h].pc = "idle"
    BY <1>7 DEF SilentBegin, Step
  <2>2. owner[s] \in Person /\ r \in Request
    BY <1>0, <1>7, <2>1 DEF SilentBegin, TypeOK
  <2>3. rec \in SoundCall /\ KeepsCodes(h, rec)
    <3>0. NewCall \in CallRecord
      BY Constants
    <3>1. rec \in CallRecord
      BY <3>0, <2>2 DEF CallRecord, Running
    <3>2. Knows(rec) /\ rec.code = NoCode
      BY <2>2 DEF NewCall, Knows, Acting, Exchanging
    <3>3. call[h].code = NoCode /\ ~Paid(h)
      BY <1>0, <2>1 DEF Knows, Acting, Paid
    <3>4. rec.pc \notin {"delete request", "granted", "unanswered"}
      BY DEF NewCall
    <3> QED BY <3>1, <3>2, <3>3, <3>4 DEF SoundCall, KeepsCodes
  <2> HIDE DEF rec
  <2> QED BY <1>7, <2>1, <2>2, <2>3, CallStep DEF SilentBegin, StateOK, TypeOK, CodesAsBefore
<1>8. CASE SilentRead(h)
  <2>0. call[h].pc = "silent" /\ call[h].who \in Person
    BY <1>0, <1>8 DEF SilentRead, CallRecord, Knows, Acting
  <2>1. PICK t \in SilentTenants(call[h].who, auth[call[h].req].tenant) :
          call' = [call EXCEPT ![h] = [call[h] EXCEPT !.pc = "get", !.tenant = t, !.done = TRUE]]
    BY <1>8 DEF SilentRead, Step
  <2>2. t \in Tenant \cup {NoTenant}
    BY <2>0, <2>1 DEF SilentTenants, TypeOK
  <2> DEFINE rec == [call[h] EXCEPT !.pc = "get", !.tenant = t, !.done = TRUE]
  <2>3. rec \in SoundCall /\ KeepsCodes(h, rec)
    BY <1>0, <2>0, <2>2 DEF SoundCall, CallRecord, Knows, KeepsCodes, Paid, Running, Acting, Exchanging
  <2> HIDE DEF rec
  <2>4. call' = [call EXCEPT ![h] = rec]
    BY <2>1 DEF rec
  <2> QED BY <1>8, <2>3, <2>4, CallStep DEF SilentRead, StateOK, TypeOK, CodesAsBefore
<1>9. CASE CompleteGet(h)
  <2> DEFINE rec == [call[h] EXCEPT !.pc = "set", !.copy = auth[call[h].req]]
  <2>1. call' = [call EXCEPT ![h] = rec] /\ call[h].pc = "get"
    BY <1>9 DEF CompleteGet, Step
  <2>2. auth[call[h].req] \in AuthRequest
    BY <1>0, <2>1 DEF CallRecord, Knows, Acting, TypeOK
  <2>3. rec \in SoundCall /\ KeepsCodes(h, rec)
    BY <1>0, <2>1, <2>2 DEF SoundCall, CallRecord, Knows, KeepsCodes, Paid, Running, Acting, Exchanging
  <2> HIDE DEF rec
  <2> QED BY <1>9, <2>1, <2>3, CallStep DEF CompleteGet, StateOK, TypeOK, CodesAsBefore
<1>10. CASE CompleteSet(h)
  <2> DEFINE to  == IF ~call[h].done THEN "bound"
                    ELSE IF call[h].sid = NoSession THEN "session" ELSE "assocGet"
             rec == [call[h] EXCEPT !.pc = to]
  <2>1. call' = [call EXCEPT ![h] = rec] /\ call[h].pc = "set"
    BY <1>10 DEF CompleteSet, Step
  <2>2. rec \in SoundCall /\ KeepsCodes(h, rec)
    <3>1. to \in {"bound", "session", "assocGet"}
      OBVIOUS
    <3> HIDE DEF to
    <3> QED BY <1>0, <2>1, <3>1
            DEF SoundCall, CallRecord, Knows, KeepsCodes, Paid, Running, Ended, Acting, Exchanging
  <2>3. Completed(call[h]) \in AuthRequest
    BY <1>0 DEF Completed, CallRecord, AuthRequest
  <2>4. /\ auth' = [auth EXCEPT ![call[h].req] = Completed(call[h])]
        /\ UNCHANGED <<now, code, spent, pastVars, sessVars, dataVars>>
    BY <1>10 DEF CompleteSet
  <2>5. auth' \in [Request -> AuthRequest]
    BY <2>3, <2>4 DEF TypeOK
  <2> HIDE DEF rec
  <2> QED BY <2>1, <2>2, <2>4, <2>5, CallStep DEF StateOK, TypeOK, CodesAsBefore
<1>11. CASE CreateSession(h)
  <2>1. CASE Quit(h, "session", "completed")
    BY <2>1, QuitStep DEF Running, Ended
  <2>2. ASSUME NEW s \in Session,
               /\ owner[s] = NoPerson
               /\ Step(h, "session", [call[h] EXCEPT !.pc = "index", !.sid = s])
               /\ owner' = [owner EXCEPT ![s] = call[h].who]
               /\ alive' = alive \cup {s}
               /\ UNCHANGED <<now, redisVars, pastVars, index, lapsed, dataVars>>
        PROVE  StateOK' /\ CodesAsBefore
    <3> DEFINE rec == [call[h] EXCEPT !.pc = "index", !.sid = s]
    <3>1. call' = [call EXCEPT ![h] = rec] /\ call[h].pc = "session"
      BY <2>2 DEF Step
    <3>2. rec \in SoundCall /\ KeepsCodes(h, rec) /\ call[h].who \in Person
      BY <1>0, <3>1 DEF SoundCall, CallRecord, Knows, KeepsCodes, Paid, Running, Acting, Exchanging
    <3>3. /\ owner' \in [Session -> Person \cup {NoPerson}]
          /\ alive' \subseteq {x \in Session : owner'[x] # NoPerson}
      BY <2>2, <3>2 DEF TypeOK
    <3> HIDE DEF rec
    <3> QED BY <2>2, <3>1, <3>2, <3>3, CallStep DEF StateOK, TypeOK, CodesAsBefore
  <2> QED BY <1>11, <2>1, <2>2 DEF CreateSession
<1>15. CASE IndexSession(h)
  <2> DEFINE named   == [call[h] EXCEPT !.pc = "assocGet"]
             dropped == [call[h] EXCEPT !.pc = "completed", !.sid = NoSession]
  <2>0. call[h].pc = "index"
    BY <1>15 DEF IndexSession, Step
  <2>1. /\ named \in SoundCall /\ KeepsCodes(h, named)
        /\ dropped \in SoundCall /\ KeepsCodes(h, dropped)
    BY <1>0, <2>0 DEF SoundCall, CallRecord, Knows, KeepsCodes, Paid, Running, Ended, Acting, Exchanging
  <2>2. call[h].who \in Person /\ call[h].sid \in Session
    BY <1>0, <2>0 DEF CallRecord, Knows, Acting
  <2>3. /\ index' \in [Person -> SUBSET Session] /\ alive' \subseteq alive
        /\ UNCHANGED <<now, redisVars, pastVars, owner, lapsed, dataVars>>
    BY <1>15, <2>2 DEF IndexSession, TypeOK
  <2>4. PICK rec \in SoundCall : KeepsCodes(h, rec) /\ call' = [call EXCEPT ![h] = rec]
    BY <1>15, <2>1 DEF IndexSession, Step
  <2> QED BY <2>3, <2>4, CallStep DEF StateOK, TypeOK, CodesAsBefore
<1>12. CASE AssociateGet(h)
  <2>0. call[h].pc = "assocGet" /\ auth[call[h].req] \in AuthRequest
    BY <1>0, <1>12 DEF AssociateGet, CallRecord, Knows, Acting, TypeOK
  <2> DEFINE found  == [call[h] EXCEPT !.pc = "assocSet", !.copy = auth[call[h].req]]
             missed == [call[h] EXCEPT !.pc = "completed"]
  <2>1. /\ found \in SoundCall /\ KeepsCodes(h, found)
        /\ missed \in SoundCall /\ KeepsCodes(h, missed)
    BY <1>0, <2>0 DEF SoundCall, CallRecord, Knows, KeepsCodes, Paid, Running, Ended, Acting, Exchanging
  <2>2. call' = [call EXCEPT ![h] = found] \/ call' = [call EXCEPT ![h] = missed]
    BY <1>12 DEF AssociateGet, Step
  <2>3. PICK rec \in SoundCall : KeepsCodes(h, rec) /\ call' = [call EXCEPT ![h] = rec]
    BY <2>1, <2>2
  <2> QED BY <1>12, <2>3, CallStep DEF AssociateGet, StateOK, TypeOK, CodesAsBefore
<1>13. CASE AssociateSet(h)
  <2> DEFINE rec == [call[h] EXCEPT !.pc = "completed"]
  <2>1. call' = [call EXCEPT ![h] = rec] /\ call[h].pc = "assocSet"
    BY <1>13 DEF AssociateSet, Step
  <2>2. rec \in SoundCall /\ KeepsCodes(h, rec)
    BY <1>0, <2>1 DEF SoundCall, CallRecord, Knows, KeepsCodes, Paid, Ended, Acting, Exchanging
  <2>3. [call[h].copy EXCEPT !.sid = call[h].sid] \in AuthRequest
    BY <1>0 DEF CallRecord, AuthRequest
  <2>4. auth' \in [Request -> AuthRequest]
    BY <1>13, <2>3 DEF AssociateSet, TypeOK
  <2>5. UNCHANGED <<now, code, spent, pastVars, sessVars, dataVars>>
    BY <1>13 DEF AssociateSet
  <2> HIDE DEF rec
  <2> QED BY <2>1, <2>2, <2>4, <2>5, CallStep DEF StateOK, TypeOK, CodesAsBefore
<1>14. CASE Missed(h)
  <2>1. PICK from \in {"silent", "get", "set"}, pc \in {"failed", "denied"} : Quit(h, from, pc)
    BY <1>14 DEF Missed
  <2>2. from \in Running /\ pc \in Ended
    BY DEF Running, Ended
  <2> QED BY <2>1, <2>2, QuitStep
<1> QED BY <1>1, <1>2, <1>3, <1>4, <1>5, <1>6, <1>7, <1>8, <1>9, <1>10, <1>11, <1>12, <1>13, <1>14,
          <1>15
        DEF LoginCall

\* Every step of a password change keeps the types and leaves the takers of codes alone.
LEMMA PasswordStep ==
  ASSUME StateOK, NEW h \in Call, PasswordCall(h)
  PROVE  StateOK' /\ CodesAsBefore
<1>0. call[h] \in CallRecord /\ Knows(call[h])
  BY DEF StateOK, TypeOK, CallsSound
<1> USE DEF StateOK
<1>1. ASSUME NEW r \in Request, ChangePassword(h, r)
      PROVE  StateOK' /\ CodesAsBefore
  <2> DEFINE rec == [NewCall EXCEPT !.pc = "write", !.req = r, !.who = auth[r].subject, !.seen = Before]
  <2>1. call' = [call EXCEPT ![h] = rec] /\ call[h].pc = "idle"
    BY <1>1 DEF ChangePassword, Step
  <2>2. auth[r].subject \in Person /\ Before \subseteq Call
    BY <1>0, <1>1, <2>1 DEF ChangePassword, TypeOK, AuthRequest, Before
  <2>3. rec \in SoundCall /\ KeepsCodes(h, rec)
    <3>0. NewCall \in CallRecord
      BY Constants
    <3>1. rec \in CallRecord
      BY <3>0, <2>2 DEF CallRecord, Running
    <3>2. Knows(rec) /\ rec.code = NoCode
      BY <2>2 DEF NewCall, Knows, Acting, Exchanging
    <3>3. call[h].code = NoCode /\ ~Paid(h)
      BY <1>0, <2>1 DEF Knows, Acting, Paid
    <3>4. rec.pc \notin {"delete request", "granted", "unanswered"}
      BY DEF NewCall
    <3> QED BY <3>1, <3>2, <3>3, <3>4 DEF SoundCall, KeepsCodes
  <2> HIDE DEF rec
  <2> QED BY <1>1, <2>1, <2>2, <2>3, CallStep DEF ChangePassword, StateOK, TypeOK, CodesAsBefore
<1>2. CASE ChangeWrite(h)
  <2> DEFINE rec == [call[h] EXCEPT !.pc = "revoke"]
  <2>1. call' = [call EXCEPT ![h] = rec] /\ call[h].pc = "write"
    BY <1>2 DEF ChangeWrite, Step
  <2>3. rec \in SoundCall /\ KeepsCodes(h, rec)
    BY <1>0, <2>1
    DEF SoundCall, CallRecord, Knows, KeepsCodes, Paid, Running, Ended, Acting, Exchanging
  <2> HIDE DEF rec
  <2> QED BY <1>2, <2>1, <2>3, CallStep DEF ChangeWrite, StateOK, TypeOK, CodesAsBefore
<1>3. ASSUME NEW p \in Person, ResetPassword(h, p)
      PROVE  StateOK' /\ CodesAsBefore
  <2> DEFINE rec == [NewCall EXCEPT !.pc = "revoke", !.who = p, !.seen = Before]
  <2>1. call' = [call EXCEPT ![h] = rec] /\ call[h].pc = "idle"
    BY <1>3 DEF ResetPassword, Step
  <2>2. Before \subseteq Call
    BY <1>0, <1>3, <2>1 DEF ResetPassword, Before
  <2>3. rec \in SoundCall /\ KeepsCodes(h, rec)
    <3>0. NewCall \in CallRecord
      BY Constants
    <3>1. rec \in CallRecord
      BY <3>0, <2>2 DEF CallRecord, Running
    <3>2. Knows(rec) /\ rec.code = NoCode
      BY <2>2 DEF NewCall, Knows, Acting, Exchanging
    <3>3. call[h].code = NoCode /\ ~Paid(h)
      BY <1>0, <2>1 DEF Knows, Acting, Paid
    <3>4. rec.pc \notin {"delete request", "granted", "unanswered"}
      BY DEF NewCall
    <3> QED BY <3>1, <3>2, <3>3, <3>4 DEF SoundCall, KeepsCodes
  <2> HIDE DEF rec
  <2> QED BY <1>3, <2>1, <2>2, <2>3, CallStep DEF ResetPassword, StateOK, TypeOK, CodesAsBefore
<1>4. ASSUME NEW p \in Person, Logout(h, p)
      PROVE  StateOK' /\ CodesAsBefore
  <2> DEFINE rec == [NewCall EXCEPT !.pc = "revoke", !.who = p, !.seen = Before]
  <2>1. call' = [call EXCEPT ![h] = rec] /\ call[h].pc = "idle"
    BY <1>4 DEF Logout, Step
  <2>2. Before \subseteq Call
    BY DEF Before
  <2>3. rec \in SoundCall /\ KeepsCodes(h, rec)
    <3>0. NewCall \in CallRecord
      BY Constants
    <3>1. rec \in CallRecord
      BY <3>0, <2>2 DEF CallRecord, Running
    <3>2. Knows(rec) /\ rec.code = NoCode
      BY <2>2 DEF NewCall, Knows, Acting, Exchanging
    <3>3. call[h].code = NoCode /\ ~Paid(h)
      BY <1>0, <2>1 DEF Knows, Acting, Paid
    <3>4. rec.pc \notin {"delete request", "granted", "unanswered"}
      BY DEF NewCall
    <3> QED BY <3>1, <3>2, <3>3, <3>4 DEF SoundCall, KeepsCodes
  <2> HIDE DEF rec
  <2> QED BY <1>4, <2>1, <2>2, <2>3, CallStep DEF Logout, StateOK, TypeOK, CodesAsBefore
<1>5. CASE ReadIndex(h)
  <2>0. CASE Quit(h, "revoke", "unrevoked")
    BY <2>0, QuitStep DEF Running, Ended
  <2>4. CASE /\ Step(h, "revoke", [call[h] EXCEPT !.pc = "delete sessions", !.snap = SessionsOf(call[h].who)])
             /\ UNCHANGED <<now, redisVars, pastVars, sessVars, dataVars>>
    <3> DEFINE rec == [call[h] EXCEPT !.pc = "delete sessions", !.snap = SessionsOf(call[h].who)]
    <3>1. call' = [call EXCEPT ![h] = rec] /\ call[h].pc = "revoke"
      BY <2>4 DEF Step
    <3>2. SessionsOf(call[h].who) \subseteq Session
      BY <1>0, <3>1 DEF TypeOK, SessionsOf, Knows, CallRecord
    <3>3. rec \in SoundCall /\ KeepsCodes(h, rec)
      BY <1>0, <3>1, <3>2
      DEF SoundCall, CallRecord, Knows, KeepsCodes, Paid, Running, Ended, Acting, Exchanging
    <3> HIDE DEF rec
    <3> QED BY <2>4, <3>1, <3>3, CallStep DEF StateOK, TypeOK, CodesAsBefore
  <2> QED BY <1>5, <2>0, <2>4 DEF ReadIndex
<1>6. CASE DeleteSession(h)
  <2>1. PICK s \in call[h].snap : Step(h, "delete sessions", [call[h] EXCEPT !.snap = @ \ {s}])
    BY <1>6 DEF DeleteSession
  <2> DEFINE rec == [call[h] EXCEPT !.snap = @ \ {s}]
  <2>2. call' = [call EXCEPT ![h] = rec] /\ call[h].pc = "delete sessions"
    BY <2>1 DEF Step
  <2>3. rec \in SoundCall /\ KeepsCodes(h, rec)
    BY <1>0, <2>2
    DEF SoundCall, CallRecord, Knows, KeepsCodes, Paid, Running, Ended, Acting, Exchanging
  <2> HIDE DEF rec
  <2>4. /\ alive' \subseteq alive /\ lapsed' \subseteq lapsed \cup alive
        /\ UNCHANGED <<now, redisVars, pastVars, owner, index, dataVars>>
    BY <1>6 DEF DeleteSession
  <2> QED BY <2>2, <2>3, <2>4, CallStep DEF StateOK, TypeOK, CodesAsBefore
<1>7. CASE DropIndex(h)
  <2> DEFINE rec == [call[h] EXCEPT !.pc = "revoked"]
  <2>1. call' = [call EXCEPT ![h] = rec] /\ call[h].pc = "delete sessions"
    BY <1>7 DEF DropIndex, Step
  <2>2. rec \in SoundCall /\ KeepsCodes(h, rec)
    BY <1>0, <2>1
    DEF SoundCall, CallRecord, Knows, KeepsCodes, Paid, Running, Ended, Acting, Exchanging
  <2> HIDE DEF rec
  <2>3. /\ lapsed' \subseteq lapsed \cup alive
        /\ index' = [index EXCEPT ![call[h].who] = {}] \/ index' = index
        /\ UNCHANGED <<now, redisVars, pastVars, owner, alive, dataVars>>
    BY <1>7 DEF DropIndex, Latecomers
  <2>4. index' \in [Person -> SUBSET Session]
    BY <2>3 DEF TypeOK
  <2> QED BY <2>1, <2>2, <2>3, <2>4, CallStep DEF StateOK, TypeOK, CodesAsBefore
<1> QED BY <1>1, <1>2, <1>3, <1>4, <1>5, <1>6, <1>7 DEF PasswordCall

-----------------------------------------------------------------------------
(* The steps of the exchange.  Three of them change what codes stand for.   *)

Saves(h, c) ==
  /\ c \in Code \ issued
  /\ code' = [code EXCEPT ![c] = [req |-> call[h].req, expires |-> now + CodeTTL]]
  /\ issued' = issued \cup {c}
  /\ call[h].req # NoRequest /\ now' = now
  /\ \A g \in Call, d \in Code : Took(g, d)' <=> Took(g, d)
  /\ \A g \in Call : Paid(g)' <=> Paid(g)

Takes(h, c) ==
  /\ c \in issued /\ CodeLives(c) /\ ~Paid(h)
  /\ code' = AfterTake(c)
  /\ UNCHANGED <<now, issued>>
  /\ \A g \in Call, d \in Code : Took(g, d)' <=> (Took(g, d) \/ (g = h /\ d = c))
  /\ \A g \in Call : Paid(g)' <=> Paid(g)

Pays(h) ==
  /\ ~Paid(h) /\ \E c \in Code : Took(h, c)
  /\ UNCHANGED <<now, code, issued>>
  /\ \A g \in Call, c \in Code : Took(g, c)' <=> Took(g, c)
  /\ \A g \in Call : Paid(g)' <=> (Paid(g) \/ g = h)

CodesMove == \/ CodesAsBefore
             \/ \E h \in Call, c \in Code : Saves(h, c) \/ Takes(h, c)
             \/ \E h \in Call : Pays(h)

\* Saving a fresh code: nobody has taken it yet.
LEMMA SaveStep ==
  ASSUME StateOK, NEW h \in Call, SaveAuthCode(h)
  PROVE  StateOK' /\ \E c \in Code : Saves(h, c)
<1>0. call[h] \in CallRecord /\ Knows(call[h])
  BY DEF StateOK, TypeOK, CallsSound
<1>1. PICK c \in Code \ issued :
        /\ Step(h, "save", [call[h] EXCEPT !.pc = "coded", !.code = c])
        /\ code' = [code EXCEPT ![c] = [req |-> call[h].req, expires |-> now + CodeTTL]]
        /\ issued' = issued \cup {c}
        /\ UNCHANGED <<now, auth, spent, created, hinted, proved, sessVars, dataVars>>
  BY DEF SaveAuthCode
<1> DEFINE rec == [call[h] EXCEPT !.pc = "coded", !.code = c]
<1>2. call' = [call EXCEPT ![h] = rec] /\ call[h].pc = "save"
  BY <1>1 DEF Step
<1>3. rec \in SoundCall /\ KeepsCodes(h, rec) /\ call[h].req \in Request
  BY <1>0, <1>2 DEF SoundCall, CallRecord, Knows, KeepsCodes, Paid, Ended, Acting, Exchanging
<1> HIDE DEF rec
<1>4. code' \in [Code -> [req : Request \cup {NoRequest}, expires : Instant]]
  BY <1>1, <1>3, InstantsTyped DEF StateOK, TypeOK
<1>5. StateOK'
  BY <1>1, <1>2, <1>3, <1>4, CallStep DEF StateOK, TypeOK
<1>6. call[h].req # NoRequest
  BY <1>3
<1> QED BY <1>1, <1>2, <1>3, <1>5, <1>6, CallStep DEF Saves

\* Taking a code: the entry goes, and the call becomes its only taker.
LEMMA ConsumeStep ==
  ASSUME StateOK, CodesKnown, NEW h \in Call, NEW c \in Code, ConsumeAuthCode(h, c)
  PROVE  StateOK' /\ (CodesAsBefore \/ Takes(h, c))
<1>0. call[h] \in CallRecord /\ Knows(call[h])
  BY DEF StateOK, TypeOK, CallsSound
<1>1. Before \subseteq Call /\ NewCall \in CallRecord
  BY Constants DEF Before
<1>2. call[h].pc = "idle" /\ c \in issued
  BY DEF ConsumeAuthCode, Step
<1>3. call[h].code = NoCode /\ ~Paid(h)
  BY <1>0, <1>2 DEF Knows, Acting, Paid
<1>4. UNCHANGED <<now, auth, spent, pastVars, sessVars, dataVars>>
  BY DEF ConsumeAuthCode
<1>5. CASE CodeLives(c)
  <2> DEFINE rec == [[NewCall EXCEPT !.code = c, !.seen = Before] EXCEPT !.pc = "load", !.req = code[c].req]
  <2>1. call' = [call EXCEPT ![h] = rec] /\ code' = AfterTake(c)
    BY <1>5 DEF ConsumeAuthCode, Step
  <2>2. code[c].req \in Request
    <3>1. /\ now \in 1 .. MaxTime /\ code[c].expires \in Instant
          /\ code[c].req \in Request \cup {NoRequest}
      BY DEF StateOK, TypeOK
    <3>2. code[c].expires # 0
      BY <1>5, <3>1 DEF CodeLives, Instant
    <3> QED BY <3>1, <3>2 DEF CodesKnown
  <2>3. rec \in CallRecord
    BY <1>1, <2>2 DEF CallRecord, Running
  <2>4. /\ Knows(rec) /\ rec.code = c /\ rec.req # NoRequest /\ rec.pc = "load"
    BY <2>2 DEF NewCall, Knows, Acting, Exchanging
  <2> HIDE DEF rec
  <2>5. \A g \in Call \ {h} : call'[g] = call[g]
    BY <2>1
  <2>6. call'[h] = rec
    BY <2>1 DEF StateOK, TypeOK
  <2>7. call' \in [Call -> CallRecord] /\ CallsSound'
    BY <2>1, <2>3, <2>4, <2>5, <2>6 DEF StateOK, TypeOK, CallsSound
  <2>8. \A g \in Call, d \in Code : Took(g, d)' <=> (Took(g, d) \/ (g = h /\ d = c))
    <3>1. \A d \in Code : ~Took(h, d) /\ (Took(h, d)' <=> d = c)
      BY <1>3, <2>4, <2>6 DEF Took
    <3>2. \A g \in Call \ {h}, d \in Code : Took(g, d)' <=> Took(g, d)
      BY <2>5 DEF Took
    <3> QED BY <3>1, <3>2
  <2>9. \A g \in Call : Paid(g)' <=> Paid(g)
    BY <1>3, <2>4, <2>5, <2>6 DEF Paid
  <2>10. code' \in [Code -> [req : Request \cup {NoRequest}, expires : Instant]]
    BY <2>1, InstantsTyped DEF StateOK, TypeOK, AfterTake, NoEntry
  <2> QED BY <1>2, <1>3, <1>4, <1>5, <2>1, <2>7, <2>8, <2>9, <2>10 DEF StateOK, TypeOK, Takes
<1>6. CASE ~CodeLives(c)
  <2> DEFINE rec == [[NewCall EXCEPT !.code = c, !.seen = Before] EXCEPT !.pc = "checkSpent"]
  <2>1. call' = [call EXCEPT ![h] = rec] /\ UNCHANGED code
    BY <1>6 DEF ConsumeAuthCode, Step
  <2>2. rec \in CallRecord
    BY <1>1 DEF CallRecord, Running
  <2>3. Knows(rec) /\ rec.req = NoRequest /\ rec.pc = "checkSpent"
    BY DEF NewCall, Knows, Acting, Exchanging
  <2>4. KeepsCodes(h, rec)
    BY <1>3, <2>3 DEF KeepsCodes
  <2> HIDE DEF rec
  <2> QED BY <1>4, <2>1, <2>2, <2>3, <2>4, CallStep DEF SoundCall, StateOK, TypeOK, CodesAsBefore
<1> QED BY <1>5, <1>6

\* Paying: only the taker of a code is paid for it.
LEMMA PayStep ==
  ASSUME StateOK, NEW h \in Call, Quit(h, "issue", "delete request")
  PROVE  StateOK' /\ Pays(h)
<1>0. call[h] \in CallRecord /\ Knows(call[h])
  BY DEF StateOK, TypeOK, CallsSound
<1> DEFINE rec == [call[h] EXCEPT !.pc = "delete request"]
<1>1. call' = [call EXCEPT ![h] = rec] /\ call[h].pc = "issue"
  BY DEF Quit, Step
<1>2. rec \in SoundCall
  BY <1>0, <1>1 DEF SoundCall, CallRecord, Knows, Running, Acting, Exchanging
<1>3. rec.pc = "delete request" /\ rec.code = call[h].code /\ rec.req = call[h].req
  BY <1>0 DEF CallRecord
<1> HIDE DEF rec
<1>4. \A g \in Call \ {h} : call'[g] = call[g]
  BY <1>1 DEF StateOK, TypeOK
<1>5. call'[h] = rec
  BY <1>1 DEF StateOK, TypeOK
<1>6. call' \in [Call -> CallRecord] /\ CallsSound'
  BY <1>1, <1>2, <1>4, <1>5 DEF SoundCall, StateOK, TypeOK, CallsSound
<1>7. \A g \in Call, c \in Code : Took(g, c)' <=> Took(g, c)
  <2>1. \A c \in Code : Took(h, c)' <=> Took(h, c)
    BY <1>1, <1>3, <1>5 DEF Took
  <2> QED BY <1>4, <2>1 DEF Took
<1>8. ~Paid(h) /\ \A g \in Call : Paid(g)' <=> (Paid(g) \/ g = h)
  BY <1>1, <1>3, <1>4, <1>5 DEF Paid
<1>9. call[h].code \in Code /\ Took(h, call[h].code)
  BY <1>0, <1>1 DEF CallRecord, Knows, Exchanging, Took
<1> QED BY <1>6, <1>7, <1>8, <1>9 DEF Quit, StateOK, TypeOK, Pays

\* Every step of the code exchange saves, takes or pays a code, or leaves codes alone.
LEMMA CodeStep ==
  ASSUME StateOK, CodesKnown, NEW h \in Call, CodeCall(h)
  PROVE  StateOK' /\ CodesMove
<1>0. call[h] \in CallRecord /\ Knows(call[h])
  BY DEF StateOK, TypeOK, CallsSound
<1> USE DEF StateOK
<1>1. ASSUME NEW r \in Request, Callback(h, r)
      PROVE  StateOK' /\ CodesMove
  <2> DEFINE rec == [NewCall EXCEPT !.pc = "save", !.req = r]
  <2>1. call' = [call EXCEPT ![h] = rec] /\ call[h].pc = "idle"
    BY <1>1 DEF Callback, Step
  <2>3. rec \in SoundCall /\ KeepsCodes(h, rec)
    <3>0. NewCall \in CallRecord
      BY Constants
    <3>1. rec \in CallRecord
      BY <3>0 DEF CallRecord, Running
    <3>2. Knows(rec) /\ rec.code = NoCode
      BY DEF NewCall, Knows, Acting, Exchanging
    <3>3. call[h].code = NoCode /\ ~Paid(h)
      BY <1>0, <2>1 DEF Knows, Acting, Paid
    <3>4. rec.pc \notin {"delete request", "granted", "unanswered"}
      BY DEF NewCall
    <3> QED BY <3>1, <3>2, <3>3, <3>4 DEF SoundCall, KeepsCodes
  <2> HIDE DEF rec
  <2> QED BY <1>1, <2>1, <2>3, CallStep DEF Callback, StateOK, TypeOK, CodesMove, CodesAsBefore
<1>2. CASE SaveAuthCode(h)
  BY <1>2, SaveStep DEF CodesMove
<1>3. ASSUME NEW c \in Code, ConsumeAuthCode(h, c)
      PROVE  StateOK' /\ CodesMove
  BY <1>3, ConsumeStep DEF CodesMove
<1>4. CASE CheckSpent(h)
  <2>1. PICK pc \in {"used", "invalid"} : Quit(h, "checkSpent", pc)
    BY <1>4 DEF CheckSpent
  <2> QED BY <2>1, QuitStep DEF Running, Ended, CodesMove
<1>5. CASE LoadRequest(h)
  <2>0. call[h].pc = "load" /\ auth[call[h].req] \in AuthRequest
    BY <1>0, <1>5 DEF LoadRequest, CallRecord, Knows, Exchanging, TypeOK
  <2> DEFINE found  == [call[h] EXCEPT !.pc = "mark", !.copy = auth[call[h].req]]
             missed == [call[h] EXCEPT !.pc = "failed"]
  <2>1. /\ found \in SoundCall /\ KeepsCodes(h, found)
        /\ missed \in SoundCall /\ KeepsCodes(h, missed)
    BY <1>0, <2>0 DEF SoundCall, CallRecord, Knows, KeepsCodes, Paid, Running, Ended, Acting, Exchanging
  <2>2. call' = [call EXCEPT ![h] = found] \/ call' = [call EXCEPT ![h] = missed]
    BY <1>5 DEF LoadRequest, Step
  <2>3. PICK rec \in SoundCall : KeepsCodes(h, rec) /\ call' = [call EXCEPT ![h] = rec]
    BY <2>1, <2>2
  <2> QED BY <1>5, <2>3, CallStep DEF LoadRequest, StateOK, TypeOK, CodesMove, CodesAsBefore
<1>6. CASE MarkSpent(h)
  <2> DEFINE rec == [call[h] EXCEPT !.pc = "issue", !.at = now]
  <2>1. call' = [call EXCEPT ![h] = rec] /\ call[h].pc = "mark"
    BY <1>6 DEF MarkSpent, Step
  <2>0. now \in 0 .. MaxTime
    BY DEF StateOK, TypeOK
  <2>2. rec \in SoundCall /\ KeepsCodes(h, rec)
    <3>1. rec \in CallRecord
      BY <1>0, <2>0 DEF CallRecord, Running
    <3>2. rec.pc = "issue" /\ rec.code = call[h].code /\ rec.req = call[h].req
      BY <1>0 DEF CallRecord
    <3> HIDE DEF rec
    <3> QED BY <1>0, <2>1, <3>1, <3>2 DEF SoundCall, Knows, KeepsCodes, Paid, Acting, Exchanging
  <2>3. spent' \in [Code -> Instant]
    BY <1>6, InstantsTyped DEF MarkSpent, SpentUntil, TypeOK
  <2> HIDE DEF rec
  <2> QED BY <1>6, <2>1, <2>2, <2>3, CallStep DEF MarkSpent, StateOK, TypeOK, CodesMove, CodesAsBefore
<1>7. CASE IssueTokens(h)
  <2>1. CASE Quit(h, "issue", "delete request")
    BY <2>1, PayStep DEF CodesMove
  <2>2. CASE Quit(h, "issue", "denied")
    BY <2>2, QuitStep DEF Running, Ended, CodesMove
  <2> QED BY <1>7, <2>1, <2>2 DEF IssueTokens
<1>8. CASE DeleteAuthRequest(h)
  <2> DEFINE rec == [call[h] EXCEPT !.pc = "granted"]
  <2>1. call' = [call EXCEPT ![h] = rec] /\ call[h].pc = "delete request"
    BY <1>8 DEF DeleteAuthRequest, Step
  <2>2. rec \in SoundCall /\ KeepsCodes(h, rec)
    BY <1>0, <2>1 DEF SoundCall, CallRecord, Knows, KeepsCodes, Paid, Ended, Acting, Exchanging
  <2>3. auth' \in [Request -> AuthRequest]
    BY <1>8, Constants DEF DeleteAuthRequest, TypeOK
  <2> HIDE DEF rec
  <2> QED BY <1>8, <2>1, <2>2, <2>3, CallStep DEF DeleteAuthRequest, StateOK, TypeOK, CodesMove, CodesAsBefore
<1> QED BY <1>1, <1>2, <1>3, <1>4, <1>5, <1>6, <1>7, <1>8 DEF CodeCall

-----------------------------------------------------------------------------
(* Every step.                                                             *)

\* Codes expire with the clock; nothing else happens to them then.
CodesExpire ==
  /\ now < now' /\ UNCHANGED <<code, issued>>
  /\ \A g \in Call, c \in Code : Took(g, c)' <=> Took(g, c)
  /\ \A g \in Call : Paid(g)' <=> Paid(g)

\* So does every step of the specification.
LEMMA NextMovesCodes ==
  ASSUME StateOK, CodesKnown, [Next]_vars
  PROVE  StateOK' /\ (CodesMove \/ CodesExpire)
<1>0. UNCHANGED call => /\ CallsSound'
                        /\ \A g \in Call, c \in Code : Took(g, c)' <=> Took(g, c)
                        /\ \A g \in Call : Paid(g)' <=> Paid(g)
  BY DEF StateOK, CallsSound, Took, Paid
<1>1. ASSUME NEW r \in Request, NEW p \in Person \cup {NoPerson}, NEW t \in Tenant \cup {NoTenant},
             CreateAuthRequest(r, p, t)
      PROVE  StateOK' /\ CodesAsBefore
  <2>1. now + RequestTTL \in Instant
    BY InstantsTyped DEF StateOK
  <2>2. [subject |-> p, tenant |-> t, sid |-> NoSession,
         done |-> p # NoPerson, expires |-> now + RequestTTL] \in AuthRequest
    BY <2>1 DEF AuthRequest
  <2>3. auth' \in [Request -> AuthRequest]
    BY <1>1, <2>2 DEF CreateAuthRequest, StateOK, TypeOK
  <2>4. created' \subseteq Request /\ hinted' \subseteq created'
    BY <1>1 DEF CreateAuthRequest, StateOK, TypeOK
  <2> QED BY <1>0, <1>1, <2>3, <2>4 DEF CreateAuthRequest, StateOK, TypeOK, CodesAsBefore
<1>2. ASSUME NEW h \in Call, LoginCall(h) \/ PasswordCall(h)
      PROVE  StateOK' /\ CodesAsBefore
  BY <1>2, LoginStep, PasswordStep
<1>3. ASSUME NEW h \in Call, CodeCall(h)
      PROVE  StateOK' /\ CodesMove
  BY <1>3, CodeStep
<1>4. ASSUME NEW h \in Call, Stop(h)
      PROVE  StateOK' /\ CodesAsBefore
  <2>1. PICK pc \in Running : Quit(h, pc, IF Paid(h) THEN "unanswered" ELSE "failed")
    BY <1>4 DEF Stop
  <2>2. call[h].pc = pc
    BY <2>1 DEF Quit, Step
  <2>3. Paid(h) <=> pc = "delete request"
    BY <2>2 DEF Paid, Running
  <2>4. PICK to \in {"unanswered", "failed"} : Quit(h, pc, to) /\ (to = "unanswered" <=> Paid(h))
    BY <2>1
  <2>5. to \in Ended
    BY DEF Ended
  <2> QED BY <2>3, <2>4, <2>5, QuitStep
<1>5. ASSUME NEW s \in Session, EndSession(s)
      PROVE  StateOK' /\ CodesAsBefore
  BY <1>0, <1>5 DEF EndSession, StateOK, TypeOK, CodesAsBefore
<1>8. ASSUME NEW p \in Person, EndIndex(p)
      PROVE  StateOK' /\ CodesAsBefore
  BY <1>0, <1>8 DEF EndIndex, StateOK, TypeOK, CodesAsBefore, CallsSound, Took, Paid
<1>6. CASE Tick
  BY <1>0, <1>6 DEF Tick, StateOK, TypeOK, CodesExpire
<1>7. CASE UNCHANGED vars
  <2>1. /\ UNCHANGED <<now, auth, code, spent, created, hinted, issued>>
        /\ UNCHANGED <<call, sessVars, temporary, member, proved>>
    BY <1>7 DEF vars
  <2>2. TypeOK'
    BY <2>1 DEF StateOK, TypeOK
  <2> QED BY <1>0, <2>1, <2>2 DEF StateOK, CodesMove, CodesAsBefore
<1> QED BY <1>1, <1>2, <1>3, <1>4, <1>5, <1>6, <1>7, <1>8 DEF Next, CodesMove

\* The inductive invariant holds initially.
LEMMA InitEstablishes == Init => CodeInv
<1> SUFFICES ASSUME Init PROVE CodeInv
  OBVIOUS
<1>1. call \in [Call -> CallRecord] /\ \A h \in Call : call[h] = NewCall
  BY Constants DEF Init
<1>2. auth \in [Request -> AuthRequest]
  BY Constants DEF Init
<1>3. /\ now \in 1 .. MaxTime /\ spent \in [Code -> Instant]
      /\ code \in [Code -> [req : Request \cup {NoRequest}, expires : Instant]]
  BY DEF Init, NoEntry, Instant
<1>4. TypeOK
  BY <1>1, <1>2, <1>3 DEF Init, TypeOK
<1>5. CodesKnown
  BY DEF Init, CodesKnown, NoEntry
<1>6. TakenIsDead /\ OneTaker
  BY <1>1, Constants DEF Took, TakenIsDead, OneTaker
<1>7. CallsSound
  <2>1. Knows(NewCall)
    BY DEF Knows, NewCall, Acting, Exchanging
  <2> QED BY <1>1, <2>1 DEF CallsSound
<1> QED BY <1>4, <1>5, <1>6, <1>7 DEF CodeInv

\* Every step keeps the inductive invariant.
LEMMA NextPreserves == CodeInv /\ [Next]_vars => CodeInv'
<1> SUFFICES ASSUME CodeInv, [Next]_vars PROVE CodeInv'
  OBVIOUS
<1>1. StateOK' /\ (CodesMove \/ CodesExpire)
  BY NextMovesCodes DEF CodeInv, StateOK
<1>2. now \in 1 .. MaxTime /\ CodeTTL \in Nat \ {0} /\ \A c \in Code : code[c].expires \in Instant
  BY DEF CodeInv, TypeOK
<1>3. CASE CodesAsBefore \/ CodesExpire \/ \E h \in Call : Pays(h)
  <2>1. UNCHANGED <<code, issued>> /\ \A g \in Call, c \in Code : Took(g, c)' <=> Took(g, c)
    BY <1>3 DEF CodesAsBefore, CodesExpire, Pays
  <2>2. CodesKnown' /\ TakenIsDead' /\ OneTaker'
    BY <2>1 DEF CodeInv, CodesKnown, TakenIsDead, OneTaker
  <2> QED BY <1>1, <2>2 DEF CodeInv, StateOK
<1>4. ASSUME NEW h \in Call, NEW c \in Code, Saves(h, c)
      PROVE  CodeInv'
  <2>1. \A d \in Code \ {c} : code'[d] = code[d]
    BY <1>4 DEF Saves
  <2>2. code'[c].req # NoRequest
    BY <1>4 DEF Saves, CodeInv, TypeOK
  <2>3. CodesKnown'
    BY <1>4, <2>1, <2>2 DEF Saves, CodeInv, CodesKnown
  <2>4. TakenIsDead'
    BY <1>4, <2>1 DEF Saves, CodeInv, TakenIsDead
  <2>5. OneTaker'
    BY <1>4 DEF Saves, CodeInv, OneTaker
  <2> QED BY <1>1, <2>3, <2>4, <2>5 DEF CodeInv, StateOK
<1>5. ASSUME NEW h \in Call, NEW c \in Code, Takes(h, c)
      PROVE  CodeInv'
  <2>1. code' = [code EXCEPT ![c] = NoEntry]
    BY <1>5 DEF Takes, AfterTake
  <2>2. \A d \in Code \ {c} : code'[d] = code[d]
    BY <2>1
  <2>3. code'[c] = NoEntry /\ NoEntry.expires = 0
    BY <2>1 DEF CodeInv, TypeOK, NoEntry
  <2>4. CodesKnown'
    BY <1>5, <2>2, <2>3 DEF Takes, CodeInv, CodesKnown
  <2>5. TakenIsDead'
    BY <1>5, <2>2, <2>3 DEF Takes, CodeInv, TakenIsDead
  <2>6. \A g \in Call : ~Took(g, c)
    <3>1. code[c].expires # 0
      BY <1>2, <1>5 DEF Takes, CodeLives, Instant
    <3> QED BY <3>1 DEF CodeInv, TakenIsDead
  <2>7. OneTaker'
    BY <1>5, <2>6 DEF Takes, CodeInv, OneTaker
  <2> QED BY <1>1, <2>4, <2>5, <2>7 DEF CodeInv, StateOK
<1> QED BY <1>1, <1>3, <1>4, <1>5 DEF CodesMove

\* The inductive invariant holds in every reachable state: protocol_state_store.go
\* keeps at most one taker of a code, whatever logins, stops and expiries do.
THEOREM CodeInvariant == Spec => []CodeInv
BY InitEstablishes, NextPreserves, PTL DEF Spec

\* Every variable keeps its type.
THEOREM AuthTypes == Spec => []TypeOK
<1>1. CodeInv => TypeOK
  BY DEF CodeInv
<1> QED BY <1>1, CodeInvariant, PTL

\* A paid call is the taker of its code.
LEMMA PaidTook ==
  ASSUME StateOK, NEW h \in Call, Paid(h)
  PROVE  call[h].code \in Code /\ Took(h, call[h].code)
<1>1. call[h] \in CallRecord /\ Knows(call[h])
  BY DEF StateOK, TypeOK, CallsSound
<1> QED BY <1>1 DEF CallRecord, Knows, Exchanging, Paid, Took

\* However many calls present a code at once, at most one is issued tokens
\* (the comment on AuthRequestByCode).
THEOREM CodeIsPaidOnce == Spec => []CodePaidOnce
<1>1. CodeInv => CodePaidOnce
  BY PaidTook DEF CodeInv, StateOK, OneTaker, CodePaidOnce
<1> QED BY <1>1, CodeInvariant, PTL

-----------------------------------------------------------------------------
(* The refinement.                                                         *)

LiveCodes  == {c \in issued : CodeLives(c)}
DeadCodes  == {c \in issued : ~CodeLives(c)}
HolderOf   == [c \in Code |-> Holder(c)]
PaidCodes  == {c \in Code : \E h \in Call : call[h].code = c /\ Paid(h)}

HoldersAreTakers ==
  /\ \A c \in Code, h \in Call : Took(h, c) => Holder(c) = h
  /\ \A c \in Code : (\A h \in Call : ~Took(h, c)) => Holder(c) = NoCall

PaidTakers == {c \in Code : \E h \in Call : Took(h, c) /\ Paid(h)}

\* The call that took a code is its holder.
LEMMA HolderIs == OneTaker => HoldersAreTakers
BY DEF Holder, OneTaker, HoldersAreTakers

\* The paid codes are those whose taker was paid.
LEMMA PaidCodesAre == StateOK => PaidCodes = PaidTakers
BY PaidTook DEF PaidCodes, PaidTakers, Took

\* Every step is a step of OneTimeCode or leaves its variables alone.
LEMMA StepRefines ==
  ASSUME CodeInv, CodeInv', [Next]_vars
  PROVE  [OTC!CodeNext]_<<LiveCodes, DeadCodes, HolderOf, PaidCodes>>
<1>1. CodesMove \/ CodesExpire
  BY NextMovesCodes DEF CodeInv, StateOK
<1>2. /\ now \in 1 .. MaxTime /\ issued \subseteq Code
      /\ now' \in 1 .. MaxTime /\ issued' \subseteq Code
      /\ \A c \in Code : code[c].expires \in Instant /\ code'[c].expires \in Instant
      /\ CodeTTL \in Nat \ {0}
  BY DEF CodeInv, TypeOK
<1>3. /\ \A c \in Code, h \in Call : Took(h, c) => Holder(c) = h
      /\ \A c \in Code : (\A h \in Call : ~Took(h, c)) => Holder(c) = NoCall
  BY HolderIs DEF CodeInv, HoldersAreTakers
<1>4. /\ \A c \in Code, h \in Call : Took(h, c)' => Holder(c)' = h
      /\ \A c \in Code : (\A h \in Call : ~Took(h, c)') => Holder(c)' = NoCall
  <2>1. (OneTaker => HoldersAreTakers)'
    BY HolderIs, PTL
  <2> QED BY <2>1 DEF CodeInv, HoldersAreTakers
<1>5. PaidCodes = {c \in Code : \E h \in Call : Took(h, c) /\ Paid(h)}
  BY PaidCodesAre DEF CodeInv, StateOK, PaidTakers
<1>6. PaidCodes' = {c \in Code : \E h \in Call : Took(h, c)' /\ Paid(h)'}
  <2>1. (StateOK => PaidCodes = PaidTakers)'
    BY PaidCodesAre, PTL
  <2> QED BY <2>1 DEF CodeInv, StateOK, PaidTakers
<1>7. ASSUME \A g \in Call, c \in Code : Took(g, c)' <=> Took(g, c)
      PROVE  HolderOf' = HolderOf
  <2>1. \A c \in Code : Holder(c)' = Holder(c)
    BY <1>3, <1>4, <1>7
  <2> QED BY <2>1 DEF HolderOf
<1>8. ASSUME \A g \in Call, c \in Code : Took(g, c)' <=> Took(g, c),
             \A g \in Call : Paid(g)' <=> Paid(g)
      PROVE  PaidCodes' = PaidCodes
  BY <1>5, <1>6, <1>8
<1>9. CASE CodesAsBefore
  <2>1. LiveCodes' = LiveCodes /\ DeadCodes' = DeadCodes
    BY <1>9 DEF CodesAsBefore, LiveCodes, DeadCodes, CodeLives
  <2> QED BY <1>7, <1>8, <1>9, <2>1 DEF CodesAsBefore
<1>10. CASE CodesExpire
  <2> DEFINE C == {c \in issued : CodeLives(c) /\ ~CodeLives(c)'}
  <2>1. \A c \in issued : CodeLives(c)' => CodeLives(c)
    BY <1>2, <1>10 DEF CodesExpire, CodeLives, Instant
  <2>2. LiveCodes' = LiveCodes \ C /\ DeadCodes' = DeadCodes \cup C /\ C \subseteq LiveCodes
    BY <1>10, <2>1 DEF CodesExpire, LiveCodes, DeadCodes
  <2>3. OTC!Expire(C)
    BY <1>7, <1>8, <1>10, <2>2 DEF OTC!Expire, CodesExpire, LiveCodes, DeadCodes, HolderOf, PaidCodes
  <2>4. C \in SUBSET Code
    BY <1>2
  <2> QED BY <2>3, <2>4 DEF OTC!CodeNext
<1>11. ASSUME NEW h \in Call, NEW c \in Code, Saves(h, c)
       PROVE  \E d \in Code : OTC!Appear(d)
  <2>1. code'[c].expires = now + CodeTTL /\ \A d \in issued : code'[d] = code[d]
    BY <1>2, <1>11 DEF Saves, CodeInv, TypeOK
  <2>2. CodeLives(c)' /\ \A d \in issued : CodeLives(d)' <=> CodeLives(d)
    BY <1>2, <1>11, <2>1 DEF Saves, CodeLives
  <2>3. LiveCodes' = LiveCodes \cup {c} /\ DeadCodes' = DeadCodes
    BY <1>11, <2>2 DEF Saves, LiveCodes, DeadCodes
  <2>4. c \notin LiveCodes \cup DeadCodes
    BY <1>11 DEF Saves, LiveCodes, DeadCodes
  <2>5. OTC!Appear(c)
    BY <1>7, <1>8, <1>11, <2>3, <2>4
    DEF OTC!Appear, Saves, LiveCodes, DeadCodes, HolderOf, PaidCodes
  <2> QED BY <2>5
<1>12. ASSUME NEW h \in Call, NEW c \in Code, Takes(h, c)
       PROVE  \E d \in Code, g \in Call : OTC!Take(d, g)
  <2>1. code'[c].expires = 0 /\ \A d \in issued \ {c} : code'[d] = code[d]
    BY <1>2, <1>12 DEF Takes, AfterTake, NoEntry, CodeInv, TypeOK
  <2>2. ~CodeLives(c)' /\ \A d \in issued \ {c} : CodeLives(d)' <=> CodeLives(d)
    BY <1>2, <1>12, <2>1 DEF Takes, CodeLives
  <2>3. LiveCodes' = LiveCodes \ {c} /\ DeadCodes' = DeadCodes \cup {c} /\ c \in LiveCodes
    BY <1>12, <2>2 DEF Takes, LiveCodes, DeadCodes
  <2>4. Holder(c)' = h /\ \A d \in Code \ {c} : Holder(d)' = Holder(d)
    BY <1>3, <1>4, <1>12 DEF Takes
  <2>5. HolderOf' = [HolderOf EXCEPT ![c] = h]
    BY <2>4 DEF HolderOf
  <2>6. PaidCodes' = PaidCodes
    BY <1>5, <1>6, <1>12 DEF Takes
  <2>7. OTC!Take(c, h)
    BY <2>3, <2>5, <2>6 DEF OTC!Take, LiveCodes, DeadCodes, HolderOf, PaidCodes
  <2> QED BY <2>7
<1>13. ASSUME NEW h \in Call, Pays(h)
       PROVE  \E d \in Code : OTC!Pay(d)
  <2>1. PICK c \in Code : Took(h, c)
    BY <1>13 DEF Pays
  <2>2. Holder(c) = h /\ h # NoCall
    BY <1>3, <2>1
  <2>3. c \notin PaidCodes
    BY <1>5, <1>13, <2>1 DEF Pays, CodeInv, OneTaker
  <2>4. \A d \in Code : Took(h, d) => d = c
    BY <2>1 DEF Took
  <2>5. PaidCodes' = PaidCodes \cup {c}
    BY <1>5, <1>6, <1>13, <2>1, <2>4 DEF Pays
  <2>6. LiveCodes' = LiveCodes /\ DeadCodes' = DeadCodes
    BY <1>13 DEF Pays, LiveCodes, DeadCodes, CodeLives
  <2>7. HolderOf' = HolderOf /\ HolderOf[c] # NoCall
    BY <1>7, <1>13, <2>2 DEF Pays, HolderOf
  <2>8. OTC!Pay(c)
    BY <2>3, <2>5, <2>6, <2>7 DEF OTC!Pay, LiveCodes, DeadCodes, HolderOf, PaidCodes
  <2> QED BY <2>8
<1> QED BY <1>1, <1>9, <1>10, <1>11, <1>12, <1>13 DEF CodesMove, OTC!CodeNext

\* The store, with its races, stops and expiries, implements one-time codes
\* (RFC 6749, 4.1.2, as the comment on AuthRequestByCode quotes it).
THEOREM CodesAreOneTime == Spec => ImplementsOneTimeCode
<1>1. Init => OTC!CodeInit
  <2> SUFFICES ASSUME Init PROVE OTC!CodeInit
    OBVIOUS
  <2>1. \A h \in Call, c \in Code : ~Took(h, c) /\ ~Paid(h)
    BY DEF Init, NewCall, Took, Paid
  <2>2. \A c \in Code : Holder(c) = NoCall
    BY <2>1 DEF Holder
  <2>3. PaidCodes = {} /\ LiveCodes = {} /\ DeadCodes = {}
    BY <2>1 DEF PaidCodes, LiveCodes, DeadCodes, Init
  <2> QED BY <2>2, <2>3 DEF OTC!CodeInit, PaidCodes, LiveCodes, DeadCodes
<1>2. CodeInv /\ CodeInv' /\ [Next]_vars
        => [OTC!CodeNext]_<<LiveCodes, DeadCodes, HolderOf, PaidCodes>>
  BY StepRefines
<1> QED BY <1>1, <1>2, CodeInvariant, PTL
        DEF Spec, ImplementsOneTimeCode, OTC!CodeSpec, OTC!codeVars,
            LiveCodes, DeadCodes, HolderOf, PaidCodes

-----------------------------------------------------------------------------
(* What was proven stays proven.                                           *)

\* No step takes back a hint, a proof of identity or a membership.
NothingTakenBack ==
  /\ hinted \subseteq hinted'
  /\ \A r \in Request : proved[r] \subseteq proved'[r]
  /\ \A p \in Person : member[p] \subseteq member'[p]

\* The step of call h: it keeps what was proven, and what it writes is proven.
StaysProven(h) ==
  /\ NothingTakenBack
  /\ \A r \in Request : auth'[r] = auth[r] \/ Proven(auth[r], r)'
  /\ \A g \in Call \ {h} : call'[g] = call[g]
  /\ CallProven(call[h])'

\* A value that is proven before such a step is proven after it.
LEMMA ValueStaysProven ==
  ASSUME NothingTakenBack, NEW a \in AuthRequest, NEW r \in Request, Proven(a, r)
  PROVE  Proven(a, r)'
BY DEF Proven, NothingTakenBack, AuthRequest

\* So is what a call holds.
LEMMA CallStaysProven ==
  ASSUME NothingTakenBack, NEW c \in CallRecord, Knows(c), CallProven(c)
  PROVE  CallProven(c)'
<1>1. c.req # NoRequest => Proven(c.copy, c.req)'
  BY ValueStaysProven DEF CallProven, CallRecord
<1>2. c.pc \in {"silent", "get", "set"} => c.who \in Person /\ c.req \in Request
  BY DEF Knows, Acting, CallRecord
<1> QED BY <1>1, <1>2 DEF CallProven, NothingTakenBack

\* The step of one call keeps the invariant.
LEMMA InvariantKept ==
  ASSUME LoginInv, StateOK', NEW h \in Call, StaysProven(h)
  PROVE  LoginInv'
<1>1. ASSUME NEW r \in Request PROVE Proven(auth[r], r)'
  <2>1. CASE auth'[r] = auth[r]
    <3>1. auth[r] \in AuthRequest /\ Proven(auth[r], r)
      BY DEF LoginInv, TypeOK
    <3>2. \A a \in AuthRequest : Proven(a, r) => Proven(a, r)'
      BY ValueStaysProven DEF StaysProven
    <3> QED BY <2>1, <3>1, <3>2 DEF Proven
  <2> QED BY <2>1 DEF StaysProven
<1>2. ASSUME NEW g \in Call PROVE CallProven(call[g])'
  <2>1. CASE g # h
    <3>1. call'[g] = call[g] /\ call[g] \in CallRecord /\ Knows(call[g]) /\ CallProven(call[g])
      BY <2>1 DEF LoginInv, TypeOK, CallsSound, StaysProven
    <3>2. \A c \in CallRecord : Knows(c) /\ CallProven(c) => CallProven(c)'
      BY CallStaysProven DEF StaysProven
    <3> QED BY <3>1, <3>2 DEF CallProven, Proven
  <2> QED BY <2>1 DEF StaysProven
<1> QED BY <1>1, <1>2 DEF LoginInv, StateOK

-----------------------------------------------------------------------------
(* The steps, by what they write.                                          *)

\* The histories and the memberships are left alone.
PastKept == UNCHANGED <<hinted, proved, member>>

\* A call that moves on without a login or a copy: its request and its copy stay
\* as they were, or it starts afresh.
MovesOn(h, rec) ==
  /\ rec.pc \notin {"silent", "get", "set"}
  /\ \/ rec.copy = Gone /\ rec.pc \notin Exchanging \ {"load"}
     \/ /\ rec.copy = call[h].copy /\ rec.req = call[h].req
        /\ rec.pc \in Exchanging \ {"load"} => call[h].pc \in Exchanging \ {"load"}

\* A deleted request names nobody.
LEMMA GoneIsProven ==
  \A r \in Request : Proven(Gone, r) /\ Proven(Gone, r)'
BY DEF Gone, Proven

\* The step of a call that moves on holds what is proven.
LEMMA MoveStep ==
  ASSUME LoginInv, NEW h \in Call, NEW rec, call' = [call EXCEPT ![h] = rec],
         rec.req \in Request \cup {NoRequest}, MovesOn(h, rec), NothingTakenBack
  PROVE  (\A g \in Call \ {h} : call'[g] = call[g]) /\ CallProven(call[h])'
<1>1. call'[h] = rec /\ \A g \in Call \ {h} : call'[g] = call[g]
  BY DEF LoginInv, TypeOK
<1>2. rec.req # NoRequest => Proven(rec.copy, rec.req)'
  <2>1. CASE rec.copy = Gone
    BY <2>1, GoneIsProven DEF Proven
  <2>2. CASE rec.copy = call[h].copy /\ rec.req = call[h].req
    <3>1. call[h].copy \in AuthRequest /\ (rec.req # NoRequest => Proven(call[h].copy, rec.req))
      BY <2>2 DEF LoginInv, TypeOK, CallRecord, CallProven
    <3>2. \A a \in AuthRequest, r \in Request : Proven(a, r) => Proven(a, r)'
      BY ValueStaysProven
    <3> QED BY <2>2, <3>1, <3>2 DEF Proven
  <2> QED BY <2>1, <2>2 DEF MovesOn
<1>3. rec.pc \in Exchanging \ {"load"} => rec.copy.done
  BY DEF MovesOn, LoginInv, CallProven
<1> QED BY <1>1, <1>2, <1>3 DEF CallProven, MovesOn, Proven

\* A call that takes a proven record while nothing else changes.
LEMMA RecordStep ==
  ASSUME LoginInv, NEW h \in Call, NEW rec, call' = [call EXCEPT ![h] = rec],
         PastKept, CallProven(rec)
  PROVE  (\A g \in Call \ {h} : call'[g] = call[g]) /\ CallProven(call[h])' /\ NothingTakenBack
<1>1. call'[h] = rec /\ \A g \in Call \ {h} : call'[g] = call[g]
  BY DEF LoginInv, TypeOK
<1>2. NothingTakenBack
  BY DEF PastKept, NothingTakenBack
<1>3. rec.req # NoRequest => Proven(rec.copy, rec.req)'
  BY DEF CallProven, Proven, PastKept
<1>4. CallProven(call[h])'
  BY <1>1, <1>3 DEF CallProven, Proven, PastKept
<1> QED BY <1>1, <1>2, <1>4

\* A call that ends keeps what was proven.
LEMMA QuitKeeps ==
  ASSUME LoginInv, NEW h \in Call, NEW from, NEW pc \in Ended \cup {"delete request"},
         pc \in Exchanging => from \in Exchanging \ {"load"}, Quit(h, from, pc)
  PROVE  StaysProven(h)
<1> DEFINE rec == [call[h] EXCEPT !.pc = pc]
<1>1. call[h] \in CallRecord
  BY DEF LoginInv, TypeOK
<1>2. /\ rec.req = call[h].req /\ rec.copy = call[h].copy /\ rec.pc = pc
      /\ rec.req \in Request \cup {NoRequest}
  BY <1>1 DEF CallRecord
<1>3. call' = [call EXCEPT ![h] = rec] /\ call[h].pc = from
  BY DEF Quit, Step
<1> HIDE DEF rec
<1>4. MovesOn(h, rec)
  <2>1. pc \notin {"silent", "get", "set"}
    BY DEF Ended
  <2>2. pc \in Exchanging \ {"load"} => from \in Exchanging \ {"load"}
    OBVIOUS
  <2> QED BY <1>2, <1>3, <2>1, <2>2 DEF MovesOn
<1>5. NothingTakenBack
  BY DEF Quit, NothingTakenBack
<1> QED BY <1>2, <1>3, <1>4, <1>5, MoveStep DEF StaysProven, Quit

-----------------------------------------------------------------------------
(* The logins.                                                             *)

\* Every step of a login call keeps what was proven.
LEMMA LoginKeeps ==
  ASSUME LoginInv, NEW h \in Call, LoginCall(h)
  PROVE  StaysProven(h)
<1>0. call[h] \in CallRecord /\ Knows(call[h]) /\ CallProven(call[h])
  BY DEF LoginInv, TypeOK, CallsSound
<1>1. ASSUME NEW r \in Request, NEW p \in Person, LoginBegin(h, r, p)
      PROVE  StaysProven(h)
  <2> DEFINE rec == [NewCall EXCEPT !.pc = "verify", !.req = r, !.who = p, !.copy = auth[r]]
  <2>1. call' = [call EXCEPT ![h] = rec]
    BY <1>1 DEF LoginBegin, Step
  <2>2. /\ rec.pc = "verify" /\ rec.req = r /\ rec.copy = auth[r]
    BY DEF NewCall
  <2> HIDE DEF rec
  <2>3. NothingTakenBack /\ UNCHANGED auth
    BY <1>1 DEF LoginBegin, NothingTakenBack
  <2>4. Proven(auth[r], r)'
    BY <1>1, ValueStaysProven, <2>3 DEF LoginInv, LoginBegin, Proven
  <2>5. call'[h] = rec /\ \A g \in Call \ {h} : call'[g] = call[g]
    BY <2>1 DEF LoginInv, TypeOK
  <2>6. CallProven(call[h])'
    BY <2>2, <2>3, <2>4, <2>5 DEF CallProven, Proven, Exchanging
  <2> QED BY <2>3, <2>5, <2>6 DEF StaysProven
<1>2. ASSUME NEW r \in Request, NEW p \in Person, RegisterPerson(h, r, p)
      PROVE  StaysProven(h)
  <2> DEFINE rec == [NewCall EXCEPT !.pc = "get", !.req = r, !.who = p]
  <2>1. call' = [call EXCEPT ![h] = rec] /\ UNCHANGED auth
    BY <1>2 DEF RegisterPerson, Step
  <2>2. rec.pc = "get" /\ rec.req = r /\ rec.who = p /\ rec.copy = Gone /\ rec.done = FALSE
    BY DEF NewCall
  <2> HIDE DEF rec
  <2>3. NothingTakenBack /\ p \in proved'[r]
    BY <1>2 DEF RegisterPerson, NothingTakenBack, LoginInv, TypeOK
  <2>4. call'[h] = rec /\ \A g \in Call \ {h} : call'[g] = call[g]
    BY <2>1 DEF LoginInv, TypeOK
  <2>5. CallProven(call[h])'
    BY <2>2, <2>3, <2>4, GoneIsProven DEF CallProven, Proven, Exchanging
  <2> QED BY <2>1, <2>3, <2>4, <2>5 DEF StaysProven
<1>3. CASE Verify(h)
  <2>1. /\ call[h].pc = "verify" /\ call[h].who \in Person /\ call[h].req \in Request
        /\ proved' = [proved EXCEPT ![call[h].req] = @ \cup {call[h].who}]
        /\ UNCHANGED <<auth, hinted, member>>
    BY <1>0, <1>3 DEF Verify, CallRecord, Knows, Acting
  <2>2. NothingTakenBack /\ call[h].who \in proved'[call[h].req]
    BY <2>1 DEF NothingTakenBack, LoginInv, TypeOK
  <2>3. PICK rec : /\ call' = [call EXCEPT ![h] = rec]
                   /\ rec.pc = "get" /\ rec.req = call[h].req /\ rec.who = call[h].who
                   /\ rec.copy = call[h].copy
                   /\ rec.done => rec.tenant \in member[call[h].who]
    <3> DEFINE bound   == [call[h] EXCEPT !.pc = "get", !.done = FALSE]
               done(t) == [call[h] EXCEPT !.pc = "get", !.done = TRUE, !.tenant = t]
               Fits(rec) == /\ rec.pc = "get" /\ rec.req = call[h].req /\ rec.who = call[h].who
                            /\ rec.copy = call[h].copy
                            /\ rec.done => rec.tenant \in member[call[h].who]
    <3>1. Fits(bound)
      BY <1>0 DEF CallRecord
    <3>2. \A t \in member[call[h].who] : Fits(done(t))
      BY <1>0 DEF CallRecord
    <3>3. \A t \in Landing(call[h].who, call[h].copy.tenant) : t \in member[call[h].who]
      BY DEF Landing
    <3>4. \/ call' = [call EXCEPT ![h] = bound]
          \/ \E t \in member[call[h].who] : call' = [call EXCEPT ![h] = done(t)]
      BY <1>3, <3>3 DEF Verify, Step
    <3> HIDE DEF bound, done
    <3>5. CASE call' = [call EXCEPT ![h] = bound]
      BY <3>1, <3>5
    <3>6. CASE \E t \in member[call[h].who] : call' = [call EXCEPT ![h] = done(t)]
      BY <3>2, <3>6
    <3> QED BY <3>4, <3>5, <3>6
  <2>4. call'[h] = rec /\ \A g \in Call \ {h} : call'[g] = call[g]
    BY <2>3 DEF LoginInv, TypeOK
  <2>5. Proven(call[h].copy, call[h].req) /\ call[h].copy \in AuthRequest
    BY <1>0, <2>1 DEF CallProven, CallRecord
  <2>6. \A a \in AuthRequest, r \in Request : Proven(a, r) => Proven(a, r)'
    BY <2>2, ValueStaysProven
  <2>7. CallProven(call[h])'
    BY <2>1, <2>2, <2>3, <2>4, <2>5, <2>6 DEF CallProven, Proven, Exchanging
  <2> QED BY <2>1, <2>2, <2>4, <2>7 DEF StaysProven
<1>4. ASSUME NEW r \in Request, NEW t \in Tenant, CreateTenantCheck(h, r, t)
      PROVE  StaysProven(h)
  <2> DEFINE rec == [NewCall EXCEPT !.pc = "open", !.req = r, !.who = auth[r].subject, !.tenant = t]
  <2>1. call' = [call EXCEPT ![h] = rec]
    BY <1>4 DEF CreateTenantCheck, Step
  <2>2. MovesOn(h, rec) /\ rec.req \in Request
    BY DEF NewCall, MovesOn, Exchanging
  <2> HIDE DEF rec
  <2>3. NothingTakenBack /\ UNCHANGED auth
    BY <1>4 DEF CreateTenantCheck, NothingTakenBack
  <2> QED BY <2>1, <2>2, <2>3, MoveStep DEF StaysProven
<1>5. CASE CreateTenantCommit(h)
  <2> DEFINE rec == [call[h] EXCEPT !.pc = "bound"]
  <2>1. call' = [call EXCEPT ![h] = rec]
    BY <1>5 DEF CreateTenantCommit, Step
  <2>2. MovesOn(h, rec) /\ rec.req \in Request \cup {NoRequest}
    BY <1>0 DEF MovesOn, Exchanging, CallRecord
  <2> HIDE DEF rec
  <2>3. NothingTakenBack /\ UNCHANGED auth
    BY <1>5 DEF CreateTenantCommit, NothingTakenBack, LoginInv, TypeOK
  <2> QED BY <2>1, <2>2, <2>3, MoveStep DEF StaysProven
<1>6. ASSUME NEW r \in Request, NEW t \in Tenant, SelectTenant(h, r, t)
      PROVE  StaysProven(h)
  <2> DEFINE rec == [NewCall EXCEPT !.pc = "get", !.req = r, !.who = auth[r].subject,
                                    !.tenant = t, !.done = TRUE]
  <2>1. call' = [call EXCEPT ![h] = rec] /\ UNCHANGED <<auth, hinted, proved, member>>
    BY <1>6 DEF SelectTenant, Step
  <2>2. /\ rec.pc = "get" /\ rec.req = r /\ rec.who = auth[r].subject /\ rec.copy = Gone
        /\ rec.tenant = t
    BY DEF NewCall
  <2> HIDE DEF rec
  <2>3. auth[r].subject \in proved[r] /\ t \in member[auth[r].subject]
    BY <1>6 DEF SelectTenant, LoginInv, Proven
  <2>4. CallProven(rec)
    BY <2>2, <2>3, GoneIsProven DEF CallProven, Exchanging
  <2> QED BY <2>1, <2>4, RecordStep DEF StaysProven, PastKept

<1>7. ASSUME NEW r \in created, NEW s \in Session, SilentBegin(h, r, s)
      PROVE  StaysProven(h)
  <2> DEFINE rec == [NewCall EXCEPT !.pc = "silent", !.req = r, !.sid = s, !.who = owner[s]]
  <2>1. call' = [call EXCEPT ![h] = rec] /\ UNCHANGED auth /\ r \in Request
    BY <1>7 DEF SilentBegin, Step, LoginInv, TypeOK
  <2>2. /\ rec.pc = "silent" /\ rec.req = r /\ rec.who = owner[s] /\ rec.copy = Gone
        /\ rec.done = FALSE
    BY DEF NewCall
  <2> HIDE DEF rec
  <2>3. NothingTakenBack /\ owner[s] \in proved'[r]
    BY <1>7, <2>1 DEF SilentBegin, NothingTakenBack, LoginInv, TypeOK
  <2>4. call'[h] = rec /\ \A g \in Call \ {h} : call'[g] = call[g]
    BY <2>1 DEF LoginInv, TypeOK
  <2>5. CallProven(call[h])'
    BY <2>1, <2>2, <2>3, <2>4, GoneIsProven DEF CallProven, Proven, Exchanging
  <2> QED BY <2>1, <2>3, <2>4, <2>5 DEF StaysProven
<1>8. CASE SilentRead(h)
  <2>0. \E t \in SilentTenants(call[h].who, auth[call[h].req].tenant) :
          Step(h, "silent", [call[h] EXCEPT !.pc = "get", !.tenant = t, !.done = TRUE])
    BY <1>8 DEF SilentRead
  <2>1. PICK t \in SilentTenants(call[h].who, auth[call[h].req].tenant) :
          Step(h, "silent", [call[h] EXCEPT !.pc = "get", !.tenant = t, !.done = TRUE])
    BY <2>0
  <2> DEFINE rec == [call[h] EXCEPT !.pc = "get", !.tenant = t, !.done = TRUE]
  <2>2. /\ rec.pc = "get" /\ rec.req = call[h].req /\ rec.who = call[h].who
        /\ rec.copy = call[h].copy /\ rec.tenant = t
    BY <1>0 DEF CallRecord
  <2>3. call' = [call EXCEPT ![h] = rec] /\ call[h].pc = "silent"
        /\ UNCHANGED <<auth, hinted, proved, member>>
    BY <1>8, <2>1 DEF SilentRead, Step
  <2> HIDE DEF rec
  <2>4. t \in member[call[h].who] \cup {NoTenant}
    BY <2>1 DEF SilentTenants
  <2>5. CallProven(rec)
    BY <1>0, <2>2, <2>3, <2>4 DEF CallProven, Exchanging
  <2> QED BY <2>3, <2>5, RecordStep DEF StaysProven, PastKept
<1>9. CASE CompleteGet(h)
  <2> DEFINE rec == [call[h] EXCEPT !.pc = "set", !.copy = auth[call[h].req]]
  <2>1. /\ call' = [call EXCEPT ![h] = rec] /\ call[h].pc = "get"
        /\ UNCHANGED <<auth, hinted, proved, member>>
    BY <1>9 DEF CompleteGet, Step
  <2>2. /\ rec.pc = "set" /\ rec.req = call[h].req /\ rec.who = call[h].who
        /\ rec.copy = auth[call[h].req] /\ rec.tenant = call[h].tenant /\ rec.done = call[h].done
    BY <1>0 DEF CallRecord
  <2> HIDE DEF rec
  <2>3. call[h].req \in Request /\ Proven(auth[call[h].req], call[h].req)
    BY <1>0, <2>1 DEF CallRecord, Knows, Acting, LoginInv
  <2>4. CallProven(rec)
    BY <1>0, <2>1, <2>2, <2>3 DEF CallProven, Exchanging
  <2> QED BY <2>1, <2>4, RecordStep DEF StaysProven, PastKept
<1>10. CASE CompleteSet(h)
  <2> DEFINE to  == IF ~call[h].done THEN "bound"
                    ELSE IF call[h].sid = NoSession THEN "session" ELSE "assocGet"
             rec == [call[h] EXCEPT !.pc = to]
             a   == Completed(call[h])
  <2>1. /\ call' = [call EXCEPT ![h] = rec] /\ call[h].pc = "set"
        /\ auth' = [auth EXCEPT ![call[h].req] = a]
        /\ UNCHANGED <<hinted, proved, member>>
    BY <1>10 DEF CompleteSet, Step
  <2>2. MovesOn(h, rec) /\ rec.req \in Request \cup {NoRequest}
    BY <1>0 DEF MovesOn, Exchanging, CallRecord
  <2> HIDE DEF rec
  <2>3. NothingTakenBack
    BY <2>1 DEF NothingTakenBack
  <2>4. call[h].req \in Request /\ call[h].who \in Person
    BY <1>0, <2>1 DEF CallRecord, Knows, Acting
  <2>5. a.subject = call[h].who /\ a.tenant = call[h].tenant /\ a.done = call[h].done
    BY <1>0 DEF Completed, CallRecord, AuthRequest
  <2> HIDE DEF a
  <2>6. Proven(a, call[h].req)
    BY <1>0, <2>1, <2>4, <2>5 DEF CallProven, Proven
  <2>7. ASSUME NEW q \in Request PROVE auth'[q] = auth[q] \/ Proven(auth[q], q)'
    <3>1. auth'[q] = auth[q] \/ (q = call[h].req /\ auth'[q] = a)
      BY <2>1, <2>4 DEF LoginInv, TypeOK
    <3> QED BY <2>1, <2>6, <3>1 DEF Proven
  <2> QED BY <2>1, <2>2, <2>3, <2>7, MoveStep DEF StaysProven
<1>11. CASE CreateSession(h)
  <2>1. CASE Quit(h, "session", "completed")
    BY <2>1, QuitKeeps DEF Ended, Exchanging
  <2>2. ASSUME NEW s \in Session,
               Step(h, "session", [call[h] EXCEPT !.pc = "index", !.sid = s]),
               UNCHANGED <<redisVars, pastVars, dataVars>>
        PROVE  StaysProven(h)
    <3> DEFINE rec == [call[h] EXCEPT !.pc = "index", !.sid = s]
    <3>1. call' = [call EXCEPT ![h] = rec]
      BY <2>2 DEF Step
    <3>2. MovesOn(h, rec) /\ rec.req \in Request \cup {NoRequest}
      BY <1>0 DEF MovesOn, Exchanging, CallRecord
    <3> HIDE DEF rec
    <3>3. NothingTakenBack /\ UNCHANGED auth
      BY <2>2 DEF NothingTakenBack
    <3> QED BY <3>1, <3>2, <3>3, MoveStep DEF StaysProven
  <2> QED BY <1>11, <2>1, <2>2 DEF CreateSession
<1>15. CASE IndexSession(h)
  <2> DEFINE named   == [call[h] EXCEPT !.pc = "assocGet"]
             dropped == [call[h] EXCEPT !.pc = "completed", !.sid = NoSession]
  <2>1. /\ MovesOn(h, named) /\ named.req \in Request \cup {NoRequest}
        /\ MovesOn(h, dropped) /\ dropped.req \in Request \cup {NoRequest}
    BY <1>0 DEF MovesOn, Exchanging, CallRecord
  <2> HIDE DEF named, dropped
  <2>2. call' = [call EXCEPT ![h] = named] \/ call' = [call EXCEPT ![h] = dropped]
    BY <1>15 DEF IndexSession, Step, named, dropped
  <2>3. NothingTakenBack /\ UNCHANGED auth
    BY <1>15 DEF IndexSession, NothingTakenBack
  <2> QED BY <2>1, <2>2, <2>3, MoveStep DEF StaysProven
<1>12. CASE AssociateGet(h)
  <2>1. CASE Present(call[h].req)
    <3> DEFINE rec == [call[h] EXCEPT !.pc = "assocSet", !.copy = auth[call[h].req]]
    <3>1. /\ call' = [call EXCEPT ![h] = rec] /\ call[h].pc = "assocGet"
          /\ UNCHANGED <<auth, hinted, proved, member>>
      BY <1>12, <2>1 DEF AssociateGet, Step
    <3>2. rec.pc = "assocSet" /\ rec.req = call[h].req /\ rec.copy = auth[call[h].req]
      BY <1>0 DEF CallRecord
    <3> HIDE DEF rec
    <3>3. call[h].req \in Request /\ Proven(auth[call[h].req], call[h].req)
      BY <1>0, <3>1 DEF CallRecord, Knows, Acting, LoginInv
    <3>4. CallProven(rec)
      BY <3>2, <3>3 DEF CallProven, Exchanging
    <3> QED BY <3>1, <3>4, RecordStep DEF StaysProven, PastKept
  <2>2. CASE ~Present(call[h].req)
    BY <1>12, <2>2, QuitKeeps DEF AssociateGet, Quit, Ended, Exchanging
  <2> QED BY <2>1, <2>2
<1>13. CASE AssociateSet(h)
  <2> DEFINE rec == [call[h] EXCEPT !.pc = "completed"]
             r   == call[h].req
             a   == [call[h].copy EXCEPT !.sid = call[h].sid]
  <2>1. /\ call' = [call EXCEPT ![h] = rec] /\ call[h].pc = "assocSet"
        /\ auth' = [auth EXCEPT ![r] = a] \/ auth' = auth
        /\ UNCHANGED <<hinted, proved, member>>
    BY <1>13 DEF AssociateSet, Step
  <2>2. MovesOn(h, rec) /\ rec.req \in Request \cup {NoRequest}
    BY <1>0 DEF MovesOn, Exchanging, CallRecord
  <2> HIDE DEF rec
  <2>3. NothingTakenBack
    BY <2>1 DEF NothingTakenBack
  <2>4. r \in Request /\ Proven(call[h].copy, r)
    BY <1>0, <2>1 DEF CallRecord, CallProven, Knows, Acting
  <2>5. /\ a.subject = call[h].copy.subject /\ a.tenant = call[h].copy.tenant
        /\ a.done = call[h].copy.done
    BY <1>0 DEF CallRecord, AuthRequest
  <2> HIDE DEF a
  <2>6. Proven(a, r)
    BY <2>4, <2>5 DEF Proven
  <2>7. ASSUME NEW q \in Request PROVE auth'[q] = auth[q] \/ Proven(auth[q], q)'
    <3>1. auth'[q] = auth[q] \/ (q = r /\ auth'[q] = a)
      BY <2>1, <2>4 DEF LoginInv, TypeOK
    <3> QED BY <2>1, <2>6, <3>1 DEF Proven
  <2> QED BY <2>1, <2>2, <2>3, <2>7, MoveStep DEF StaysProven
<1>14. CASE Missed(h)
  <2>1. PICK from \in {"silent", "get", "set"}, pc \in {"failed", "denied"} : Quit(h, from, pc)
    BY <1>14 DEF Missed
  <2> QED BY <2>1, QuitKeeps DEF Ended, Exchanging
<1> QED BY <1>1, <1>2, <1>3, <1>4, <1>5, <1>6, <1>7, <1>8, <1>9, <1>10, <1>11, <1>12, <1>13, <1>14,
          <1>15
        DEF LoginCall

-----------------------------------------------------------------------------
(* Password changes and the exchange of codes.                             *)

\* A call that starts afresh, without a copy and not yet at the exchange.
LEMMA StartStep ==
  ASSUME LoginInv, NEW h \in Call, NEW rec, call' = [call EXCEPT ![h] = rec],
         rec.copy = Gone, rec.pc \notin {"silent", "get", "set"} \cup (Exchanging \ {"load"}),
         UNCHANGED <<auth, hinted, proved, member>>
  PROVE  StaysProven(h)
<1>1. CallProven(rec)
  BY DEF CallProven, Proven, Gone
<1> QED BY <1>1, RecordStep DEF StaysProven, PastKept

\* The call only moves to another place.
LEMMA PlaceStep ==
  ASSUME LoginInv, NEW h \in Call, NEW rec, call' = [call EXCEPT ![h] = rec],
         rec.req = call[h].req, rec.copy = call[h].copy,
         rec.pc \notin {"silent", "get", "set"},
         rec.pc \in Exchanging \ {"load"} => call[h].pc \in Exchanging \ {"load"},
         UNCHANGED <<auth, hinted, proved, member>>
  PROVE  StaysProven(h)
<1>1. CallProven(rec)
  BY DEF CallProven, LoginInv
<1> QED BY <1>1, RecordStep DEF StaysProven, PastKept

\* So does every step of a password change.
LEMMA PasswordKeeps ==
  ASSUME LoginInv, NEW h \in Call, PasswordCall(h)
  PROVE  StaysProven(h)
<1>0. call[h] \in CallRecord
  BY DEF LoginInv, TypeOK
<1>1. ASSUME NEW r \in Request, ChangePassword(h, r)
      PROVE  StaysProven(h)
  <2> DEFINE rec == [NewCall EXCEPT !.pc = "write", !.req = r, !.who = auth[r].subject, !.seen = Before]
  <2>1. call' = [call EXCEPT ![h] = rec] /\ UNCHANGED <<auth, hinted, proved, member>>
    BY <1>1 DEF ChangePassword, Step
  <2>2. rec.pc = "write" /\ rec.copy = Gone
    BY DEF NewCall
  <2> HIDE DEF rec
  <2> QED BY <2>1, <2>2, StartStep DEF Exchanging
<1>2. CASE ChangeWrite(h)
  <2> DEFINE rec == [call[h] EXCEPT !.pc = "revoke"]
  <2>1. call' = [call EXCEPT ![h] = rec] /\ UNCHANGED <<auth, hinted, proved, member>>
    BY <1>2 DEF ChangeWrite, Step
  <2>2. rec.pc = "revoke" /\ rec.req = call[h].req /\ rec.copy = call[h].copy
    BY <1>0 DEF CallRecord
  <2> HIDE DEF rec
  <2> QED BY <2>1, <2>2, PlaceStep DEF Exchanging
<1>3. ASSUME NEW p \in Person, ResetPassword(h, p)
      PROVE  StaysProven(h)
  <2> DEFINE rec == [NewCall EXCEPT !.pc = "revoke", !.who = p, !.seen = Before]
  <2>1. call' = [call EXCEPT ![h] = rec] /\ UNCHANGED <<auth, hinted, proved, member>>
    BY <1>3 DEF ResetPassword, Step
  <2>2. rec.pc = "revoke" /\ rec.copy = Gone
    BY DEF NewCall
  <2> HIDE DEF rec
  <2> QED BY <2>1, <2>2, StartStep DEF Exchanging
<1>4. ASSUME NEW p \in Person, Logout(h, p)
      PROVE  StaysProven(h)
  <2> DEFINE rec == [NewCall EXCEPT !.pc = "revoke", !.who = p, !.seen = Before]
  <2>1. call' = [call EXCEPT ![h] = rec] /\ UNCHANGED <<auth, hinted, proved, member>>
    BY <1>4 DEF Logout, Step
  <2>2. rec.pc = "revoke" /\ rec.copy = Gone
    BY DEF NewCall
  <2> HIDE DEF rec
  <2> QED BY <2>1, <2>2, StartStep DEF Exchanging
<1>5. CASE ReadIndex(h)
  <2> DEFINE rec == [call[h] EXCEPT !.pc = "delete sessions", !.snap = SessionsOf(call[h].who)]
             fail == [call[h] EXCEPT !.pc = "unrevoked"]
  <2>1. /\ call' = [call EXCEPT ![h] = rec] \/ call' = [call EXCEPT ![h] = fail]
        /\ UNCHANGED <<auth, hinted, proved, member>>
    BY <1>5 DEF ReadIndex, Quit, Step
  <2>2. /\ rec.pc = "delete sessions" /\ rec.req = call[h].req /\ rec.copy = call[h].copy
        /\ fail.pc = "unrevoked" /\ fail.req = call[h].req /\ fail.copy = call[h].copy
    BY <1>0 DEF CallRecord
  <2> HIDE DEF rec, fail
  <2> QED BY <2>1, <2>2, PlaceStep DEF Exchanging
<1>6. CASE DeleteSession(h)
  <2>1. PICK s \in call[h].snap : Step(h, "delete sessions", [call[h] EXCEPT !.snap = @ \ {s}])
    BY <1>6 DEF DeleteSession
  <2> DEFINE rec == [call[h] EXCEPT !.snap = @ \ {s}]
  <2>2. call' = [call EXCEPT ![h] = rec] /\ UNCHANGED <<auth, hinted, proved, member>>
    BY <1>6, <2>1 DEF DeleteSession, Step
  <2>3. rec.pc = "delete sessions" /\ rec.req = call[h].req /\ rec.copy = call[h].copy
    BY <1>0, <2>1 DEF CallRecord, Step
  <2> HIDE DEF rec
  <2> QED BY <2>2, <2>3, PlaceStep DEF Exchanging
<1>7. CASE DropIndex(h)
  <2> DEFINE rec == [call[h] EXCEPT !.pc = "revoked"]
  <2>1. call' = [call EXCEPT ![h] = rec] /\ UNCHANGED <<auth, hinted, proved, member>>
    BY <1>7 DEF DropIndex, Step
  <2>2. rec.pc = "revoked" /\ rec.req = call[h].req /\ rec.copy = call[h].copy
    BY <1>0 DEF CallRecord
  <2> HIDE DEF rec
  <2> QED BY <2>1, <2>2, PlaceStep DEF Exchanging
<1> QED BY <1>1, <1>2, <1>3, <1>4, <1>5, <1>6, <1>7 DEF PasswordCall

\* So does every step of the exchange of a code.
LEMMA CodeKeeps ==
  ASSUME LoginInv, NEW h \in Call, CodeCall(h)
  PROVE  StaysProven(h)
<1>0. call[h] \in CallRecord /\ Knows(call[h])
  BY DEF LoginInv, TypeOK, CallsSound
<1>1. ASSUME NEW r \in Request, Callback(h, r)
      PROVE  StaysProven(h)
  <2> DEFINE rec == [NewCall EXCEPT !.pc = "save", !.req = r]
  <2>1. call' = [call EXCEPT ![h] = rec] /\ UNCHANGED <<auth, hinted, proved, member>>
    BY <1>1 DEF Callback, Step
  <2>2. rec.pc = "save" /\ rec.copy = Gone
    BY DEF NewCall
  <2> HIDE DEF rec
  <2> QED BY <2>1, <2>2, StartStep DEF Exchanging
<1>2. CASE SaveAuthCode(h)
  <2>1. PICK c \in Code : call' = [call EXCEPT ![h] = [call[h] EXCEPT !.pc = "coded", !.code = c]]
    BY <1>2 DEF SaveAuthCode, Step
  <2> DEFINE rec == [call[h] EXCEPT !.pc = "coded", !.code = c]
  <2>2. call' = [call EXCEPT ![h] = rec] /\ UNCHANGED <<auth, hinted, proved, member>>
    BY <1>2, <2>1 DEF SaveAuthCode
  <2>3. rec.pc = "coded" /\ rec.req = call[h].req /\ rec.copy = call[h].copy
    BY <1>0 DEF CallRecord
  <2> HIDE DEF rec
  <2> QED BY <2>2, <2>3, PlaceStep DEF Exchanging
<1>3. ASSUME NEW c \in Code, ConsumeAuthCode(h, c)
      PROVE  StaysProven(h)
  <2> DEFINE begun == [NewCall EXCEPT !.code = c, !.seen = Before]
             taken == [begun EXCEPT !.pc = "load", !.req = code[c].req]
             dead  == [begun EXCEPT !.pc = "checkSpent"]
  <2>1. /\ call' = [call EXCEPT ![h] = taken] \/ call' = [call EXCEPT ![h] = dead]
        /\ UNCHANGED <<auth, hinted, proved, member>>
    BY <1>3 DEF ConsumeAuthCode, Step
  <2>2. /\ taken.pc = "load" /\ taken.copy = Gone
        /\ dead.pc = "checkSpent" /\ dead.copy = Gone
    BY DEF NewCall
  <2> HIDE DEF taken, dead
  <2>3. CASE call' = [call EXCEPT ![h] = taken]
    BY <2>1, <2>2, <2>3, StartStep DEF Exchanging
  <2>4. CASE call' = [call EXCEPT ![h] = dead]
    BY <2>1, <2>2, <2>4, StartStep DEF Exchanging
  <2> QED BY <2>1, <2>3, <2>4
<1>4. CASE CheckSpent(h)
  <2>1. PICK pc \in {"used", "invalid"} : Quit(h, "checkSpent", pc)
    BY <1>4 DEF CheckSpent
  <2> QED BY <2>1, QuitKeeps DEF Ended, Exchanging
<1>5. CASE LoadRequest(h)
  <2> DEFINE r      == call[h].req
             found  == [call[h] EXCEPT !.pc = "mark", !.copy = auth[r]]
             missed == [call[h] EXCEPT !.pc = "failed"]
  <2>1. /\ \/ call' = [call EXCEPT ![h] = found] /\ auth[r].done
           \/ call' = [call EXCEPT ![h] = missed]
        /\ UNCHANGED <<auth, hinted, proved, member>> /\ call[h].pc = "load"
    BY <1>5 DEF LoadRequest, Step
  <2>2. /\ found.pc = "mark" /\ found.req = r /\ found.copy = auth[r]
        /\ missed.pc = "failed" /\ missed.req = r /\ missed.copy = call[h].copy
    BY <1>0 DEF CallRecord
  <2> HIDE DEF found, missed
  <2>3. CASE call' = [call EXCEPT ![h] = found] /\ auth[r].done
    <3>1. Proven(auth[r], r)
      BY <1>0, <2>1 DEF CallRecord, Knows, Exchanging, LoginInv
    <3>2. CallProven(found)
      BY <2>2, <2>3, <3>1 DEF CallProven
    <3> QED BY <2>1, <2>3, <3>2, RecordStep DEF StaysProven, PastKept
  <2>4. CASE call' = [call EXCEPT ![h] = missed]
    BY <2>1, <2>2, <2>4, PlaceStep DEF Exchanging
  <2> QED BY <2>1, <2>3, <2>4
<1>6. CASE MarkSpent(h)
  <2> DEFINE rec == [call[h] EXCEPT !.pc = "issue", !.at = now]
  <2>1. /\ call' = [call EXCEPT ![h] = rec] /\ UNCHANGED <<auth, hinted, proved, member>>
        /\ call[h].pc = "mark"
    BY <1>6 DEF MarkSpent, Step
  <2>2. rec.pc = "issue" /\ rec.req = call[h].req /\ rec.copy = call[h].copy
    BY <1>0 DEF CallRecord
  <2> HIDE DEF rec
  <2> QED BY <2>1, <2>2, PlaceStep DEF Exchanging
<1>7. CASE IssueTokens(h)
  <2>1. PICK pc \in {"delete request", "denied"} : Quit(h, "issue", pc)
    BY <1>7 DEF IssueTokens
  <2> QED BY <2>1, QuitKeeps DEF Ended, Exchanging
<1>8. CASE DeleteAuthRequest(h)
  <2> DEFINE rec == [call[h] EXCEPT !.pc = "granted"]
  <2>1. /\ call' = [call EXCEPT ![h] = rec] /\ UNCHANGED <<hinted, proved, member>>
        /\ auth' = [auth EXCEPT ![call[h].req] = Gone] /\ call[h].pc = "delete request"
    BY <1>8 DEF DeleteAuthRequest, Step
  <2>2. MovesOn(h, rec) /\ rec.req \in Request \cup {NoRequest}
    BY <1>0, <2>1 DEF MovesOn, Exchanging, CallRecord
  <2> HIDE DEF rec
  <2>3. NothingTakenBack
    BY <2>1 DEF NothingTakenBack
  <2>4. ASSUME NEW q \in Request PROVE auth'[q] = auth[q] \/ Proven(auth[q], q)'
    <3>1. auth'[q] = auth[q] \/ auth'[q] = Gone
      BY <2>1 DEF LoginInv, TypeOK
    <3> QED BY <3>1 DEF Proven, Gone
  <2> QED BY <2>1, <2>2, <2>3, <2>4, MoveStep DEF StaysProven
<1> QED BY <1>1, <1>2, <1>3, <1>4, <1>5, <1>6, <1>7, <1>8 DEF CodeCall

-----------------------------------------------------------------------------
(* Every step.                                                             *)

\* Every step keeps the invariant of the logins.
LEMMA NextKeepsProven ==
  ASSUME CodeInv, LoginInv, [Next]_vars
  PROVE  LoginInv'
<1>0. StateOK'
  BY NextMovesCodes DEF CodeInv, StateOK
<1>1. ASSUME NEW h \in Call, LoginCall(h) \/ PasswordCall(h) \/ CodeCall(h) \/ Stop(h)
      PROVE  LoginInv'
  <2>1. CASE LoginCall(h) \/ PasswordCall(h) \/ CodeCall(h)
    BY <1>0, <2>1, LoginKeeps, PasswordKeeps, CodeKeeps, InvariantKept
  <2>2. CASE Stop(h)
    <3>1. PICK from \in Running : Quit(h, from, IF Paid(h) THEN "unanswered" ELSE "failed")
      BY <2>2 DEF Stop
    <3>2. call[h].pc = from
      BY <3>1 DEF Quit, Step
    <3>3. CASE Paid(h)
      <4>1. from \in Exchanging \ {"load"}
        BY <3>2, <3>3 DEF Paid, Exchanging
      <4> QED BY <1>0, <3>1, <3>3, <4>1, QuitKeeps, InvariantKept DEF Ended
    <3>4. CASE ~Paid(h)
      BY <1>0, <3>1, <3>4, QuitKeeps, InvariantKept DEF Ended, Exchanging
    <3> QED BY <3>3, <3>4
  <2> QED BY <1>1, <2>1, <2>2
<1>2. ASSUME NEW r \in Request, NEW p \in Person \cup {NoPerson}, NEW t \in Tenant \cup {NoTenant},
             CreateAuthRequest(r, p, t)
      PROVE  LoginInv'
  <2> DEFINE a == [subject |-> p, tenant |-> t, sid |-> NoSession,
                   done |-> p # NoPerson, expires |-> now + RequestTTL]
  <2>1. /\ auth' = [auth EXCEPT ![r] = a]
        /\ hinted' = IF p = NoPerson THEN hinted ELSE hinted \cup {r}
        /\ UNCHANGED <<call, proved, member>>
    BY <1>2 DEF CreateAuthRequest
  <2>2. NothingTakenBack
    BY <2>1 DEF NothingTakenBack
  <2>3. ASSUME NEW q \in Request PROVE Proven(auth[q], q)'
    <3>1. CASE q = r
      <4>1. auth'[q] = a /\ a.subject = p /\ a.done = (p # NoPerson)
        BY <2>1, <3>1 DEF LoginInv, TypeOK
      <4> HIDE DEF a
      <4>2. CASE p = NoPerson
        BY <4>1, <4>2 DEF Proven
      <4>3. CASE p # NoPerson
        BY <2>1, <3>1, <4>1, <4>3 DEF Proven
      <4> QED BY <4>2, <4>3
    <3>2. CASE q # r
      <4>1. auth'[q] = auth[q] /\ auth[q] \in AuthRequest /\ Proven(auth[q], q)
        BY <2>1, <3>2 DEF LoginInv, TypeOK
      <4>2. \A v \in AuthRequest : Proven(v, q) => Proven(v, q)'
        BY <2>2, ValueStaysProven
      <4> QED BY <4>1, <4>2 DEF Proven
    <3> QED BY <3>1, <3>2
  <2>4. ASSUME NEW h \in Call PROVE CallProven(call[h])'
    <3>1. call'[h] = call[h] /\ call[h] \in CallRecord /\ Knows(call[h]) /\ CallProven(call[h])
      BY <2>1 DEF LoginInv, TypeOK, CallsSound
    <3>2. \A c \in CallRecord : Knows(c) /\ CallProven(c) => CallProven(c)'
      BY <2>2, CallStaysProven
    <3> QED BY <3>1, <3>2 DEF CallProven, Proven
  <2> QED BY <1>0, <2>3, <2>4 DEF LoginInv, StateOK
<1>3. ASSUME UNCHANGED <<auth, call, hinted, proved, member>>
      PROVE  LoginInv'
  BY <1>0, <1>3 DEF LoginInv, StateOK, Proven, CallProven
<1>4. CASE Tick \/ UNCHANGED vars \/ (\E s \in Session : EndSession(s)) \/ \E p \in Person : EndIndex(p)
  BY <1>3, <1>4 DEF Tick, EndSession, EndIndex, vars
<1> QED BY <1>1, <1>2, <1>4 DEF Next

\* The inductive invariant of the logins holds in every reachable state: what
\* auth.go and protocol_state_store.go write over a request is proven.
THEOREM LoginInvariant == Spec => []LoginInv
<1>1. Init => LoginInv
  <2> SUFFICES ASSUME Init PROVE LoginInv
    OBVIOUS
  <2>1. TypeOK /\ CallsSound
    BY InitEstablishes DEF CodeInv
  <2>2. \A r \in Request : Proven(auth[r], r)
    BY GoneIsProven DEF Init
  <2>3. \A h \in Call : call[h] = NewCall
    BY DEF Init
  <2>4. CallProven(NewCall)
    BY GoneIsProven DEF NewCall, CallProven, Exchanging
  <2> QED BY <2>1, <2>2, <2>3, <2>4 DEF LoginInv
<1>2. CodeInv /\ LoginInv /\ [Next]_vars => LoginInv'
  BY NextKeepsProven
<1> QED BY <1>1, <1>2, CodeInvariant, PTL DEF Spec

\* Whoever races on a request, tokens go to a person who authenticated on that
\* very request, in a tenant of theirs (auth.go).
THEOREM GrantsAreProved == Spec => []GrantIsProved
<1>1. LoginInv => GrantIsProved
  <2> SUFFICES ASSUME LoginInv, NEW h \in Call, Paid(h), call[h].req \notin hinted
               PROVE  /\ call[h].copy.subject \in proved[call[h].req]
                      /\ call[h].copy.tenant \in member[call[h].copy.subject] \cup {NoTenant}
    BY DEF GrantIsProved
  <2>1. call[h].pc \in Exchanging \ {"load"}
    BY DEF Paid, Exchanging
  <2>2. CallProven(call[h]) /\ call[h].req # NoRequest
    BY <2>1 DEF LoginInv, CallsSound, Knows
  <2> QED BY <2>1, <2>2 DEF CallProven, Proven
<1> QED BY <1>1, LoginInvariant, PTL

-----------------------------------------------------------------------------
(* Sessions and their revocations.  A call that has answered keeps its     *)
(* session id, and a session that is gone never comes back, because its    *)
(* owner is set once.  A session an answered call holds is named by the    *)
(* index while it is alive, unless it lapsed; so a revocation that reads   *)
(* the index after the answer finds it, and deletes it before it drops the *)
(* index.                                                                  *)

\* Where a call stands once it has answered.
Answered == {"completed", "delete request", "granted", "unanswered"}

\* A session a call holds was created for somebody, the caller while it indexes it.
SessionsHeld ==
  \A g \in Call : call[g].sid # NoSession =>
    /\ owner[call[g].sid] # NoPerson
    /\ call[g].pc = "index" => owner[call[g].sid] = call[g].who

\* The calls a later call counts as earlier have answered.
SeenAnswered == \A h \in Call : \A g \in call[h].seen : call[g].pc \in Answered

\* The index of its person names session s while it is alive, unless it lapsed.
Named(s) == s \notin alive \/ s \in lapsed \/ s \in index[owner[s]]

\* Every session a call holds is named, but before its SADD, or when the call stopped.
SessionsNamed ==
  \A g \in Call, s \in Session :
    (call[g].sid = s /\ call[g].pc \notin {"index", "failed"}) => Named(s)

\* The sessions of a call that had answered before h began, of the person h revokes.
Seen(h, s) == s # NoSession /\ owner[s] = call[h].who /\ \E g \in call[h].seen : call[g].sid = s

\* Until it has deleted them a revocation holds every such session that is
\* still alive and has not lapsed; after it there is none.
SnapshotCovers ==
  \A h \in Call, s \in Session : (Seen(h, s) /\ s \in alive \ lapsed) =>
    /\ call[h].pc = "delete sessions" => s \in call[h].snap
    /\ call[h].pc # "revoked"

\* The inductive invariant of the revocations.
PasswordInv == StateOK /\ SessionsHeld /\ SeenAnswered /\ SessionsNamed /\ SnapshotCovers

\* What no step does to sessions: it changes no owner, revives nothing, and
\* forgets no lapse.
SessionsKept ==
  /\ \A s \in Session : owner[s] # NoPerson => owner'[s] = owner[s]
  /\ \A s \in alive' : s \in alive \/ owner[s] = NoPerson
  /\ lapsed \subseteq lapsed'

\* Only the last step of a revocation may take a name away, of a session it covers.
NamesKept(h, c) ==
  \A s \in Session : (owner[s] # NoPerson /\ Named(s)) =>
    Named(s)' \/ (c.pc = "delete sessions" /\ c.snap = {} /\ Seen(h, s))

\* What the step of a call from record c to record d does to the session it holds.
Holds(c, d) ==
  /\ d.sid # NoSession => \/ d.sid = c.sid
                          \/ owner'[d.sid] # NoPerson /\ c.pc \notin Answered
  /\ (d.sid # NoSession /\ d.pc = "index") => owner'[d.sid] = d.who
  /\ \A s \in Session : (d.sid = s /\ d.pc \notin {"index", "failed"}) =>
       \/ Named(s)'
       \/ c.sid = s /\ c.pc \notin {"index", "failed"}
       \/ \E g \in Call : call[g].sid = s /\ call[g].pc \in Answered
  /\ c.pc \in Answered => d.pc \in Answered /\ d.sid = c.sid

\* What it does to the revocation the call runs.
Revokes(c, d) ==
  /\ d.seen = {} \/ d.seen = Before \/ (d.seen = c.seen /\ d.who = c.who)
  /\ d.pc = "delete sessions" =>
       \/ d.snap = index[d.who] /\ UNCHANGED <<alive, lapsed>>
       \/ /\ c.pc = "delete sessions" /\ d.seen = c.seen /\ d.who = c.who
          /\ \A s \in c.snap : s \in d.snap \/ s \notin alive' \/ s \in lapsed'
  /\ d.pc = "revoked" =>
       c.pc = "delete sessions" /\ c.snap = {} /\ d.seen = c.seen /\ d.who = c.who

SessionStep(h) ==
  /\ \A g \in Call \ {h} : call'[g] = call[g]
  /\ SessionsKept /\ NamesKept(h, call[h])
  /\ Holds(call[h], call'[h])
  /\ Revokes(call[h], call'[h])

\* The step of a call that leaves the sessions alone.
LEMMA QuietSession ==
  ASSUME StateOK, NEW h \in Call, NEW d, call' = [call EXCEPT ![h] = d],
         UNCHANGED sessVars,
         d.pc \notin {"index", "delete sessions", "revoked"},
         \/ d.sid = NoSession
         \/ d.sid = call[h].sid /\ (d.pc = "failed" \/ call[h].pc \notin {"index", "failed"})
         \/ \E g \in Call : call[g].sid = d.sid /\ call[g].pc \in Answered /\ owner[d.sid] # NoPerson,
         d.seen = {} \/ d.seen = Before \/ (d.seen = call[h].seen /\ d.who = call[h].who),
         call[h].pc \in Answered => d.pc \in Answered /\ d.sid = call[h].sid
  PROVE  SessionStep(h)
<1>1. call'[h] = d /\ \A g \in Call \ {h} : call'[g] = call[g]
  BY DEF StateOK, TypeOK
<1>2. SessionsKept /\ NamesKept(h, call[h])
  BY DEF SessionsKept, NamesKept, Named
<1>3. Holds(call[h], d)
  BY DEF Holds
<1>4. Revokes(call[h], d)
  BY DEF Revokes
<1> QED BY <1>1, <1>2, <1>3, <1>4 DEF SessionStep

\* The login calls create sessions, name them, and hand out what others hold.
LEMMA LoginSessions ==
  ASSUME StateOK, SessionsHeld, NEW h \in Call, LoginCall(h)
  PROVE  SessionStep(h)
<1>0. call[h] \in CallRecord /\ call \in [Call -> CallRecord]
  BY DEF StateOK, TypeOK
<1> USE DEF Step, Answered
<1>1. ASSUME NEW r \in Request, NEW p \in Person, LoginBegin(h, r, p)
      PROVE  SessionStep(h)
  BY <1>1, QuietSession DEF LoginBegin, NewCall
<1>2. ASSUME NEW r \in Request, NEW p \in Person, RegisterPerson(h, r, p)
      PROVE  SessionStep(h)
  BY <1>2, QuietSession DEF RegisterPerson, NewCall
<1>3. CASE Verify(h)
  BY <1>0, <1>3, QuietSession DEF Verify, CallRecord
<1>4. ASSUME NEW r \in Request, NEW t \in Tenant, CreateTenantCheck(h, r, t)
      PROVE  SessionStep(h)
  BY <1>4, QuietSession DEF CreateTenantCheck, NewCall
<1>5. CASE CreateTenantCommit(h)
  BY <1>0, <1>5, QuietSession DEF CreateTenantCommit, CallRecord
<1>6. ASSUME NEW r \in Request, NEW t \in Tenant, SelectTenant(h, r, t)
      PROVE  SessionStep(h)
  BY <1>6, QuietSession DEF SelectTenant, NewCall
<1>7. ASSUME NEW r \in created, NEW s \in Session, SilentBegin(h, r, s)
      PROVE  SessionStep(h)
  <2>1. owner[s] # NoPerson
    BY <1>7 DEF SilentBegin, StateOK, TypeOK
  <2> QED BY <1>7, <2>1, QuietSession DEF SilentBegin, NewCall
<1>8. CASE SilentRead(h)
  BY <1>0, <1>8, QuietSession DEF SilentRead, CallRecord
<1>9. CASE CompleteGet(h)
  BY <1>0, <1>9, QuietSession DEF CompleteGet, CallRecord
<1>11. CASE CompleteSet(h)
  BY <1>0, <1>11, QuietSession DEF CompleteSet, CallRecord
<1>12. CASE AssociateGet(h)
  BY <1>0, <1>12, QuietSession DEF AssociateGet, CallRecord
<1>13. CASE AssociateSet(h)
  BY <1>0, <1>13, QuietSession DEF AssociateSet, CallRecord
<1>14. CASE Missed(h)
  BY <1>0, <1>14, QuietSession DEF Missed, Quit, CallRecord
<1>15. CASE CreateSession(h)
  <2>1. CASE Quit(h, "session", "completed")
    BY <1>0, <2>1, QuietSession DEF Quit, CallRecord
  <2>2. ASSUME NEW s \in Session, owner[s] = NoPerson,
               Step(h, "session", [call[h] EXCEPT !.pc = "index", !.sid = s]),
               owner' = [owner EXCEPT ![s] = call[h].who], alive' = alive \cup {s},
               UNCHANGED <<index, lapsed>>
        PROVE  SessionStep(h)
    <3> DEFINE rec == [call[h] EXCEPT !.pc = "index", !.sid = s]
    <3>1. call' = [call EXCEPT ![h] = rec] /\ call[h].pc = "session"
      BY <2>2
    <3>2. rec.pc = "index" /\ rec.sid = s /\ rec.seen = call[h].seen /\ rec.who = call[h].who
      BY <1>0 DEF CallRecord
    <3> HIDE DEF rec
    <3>3. Knows(call[h]) /\ call[h].who # NoPerson
      BY <3>1 DEF StateOK, CallsSound, Knows, Acting
    <3>4. owner'[s] = call[h].who /\ \A x \in Session \ {s} : owner'[x] = owner[x]
      BY <2>2 DEF StateOK, TypeOK
    <3>5. call'[h] = rec /\ \A g \in Call \ {h} : call'[g] = call[g]
      BY <1>0, <3>1
    <3>6. SessionsKept
      BY <2>2, <3>4 DEF SessionsKept
    <3>7. NamesKept(h, call[h])
      BY <2>2, <3>4 DEF NamesKept, Named
    <3>8. Holds(call[h], rec)
      BY <3>1, <3>2, <3>3, <3>4 DEF Holds
    <3>9. Revokes(call[h], rec)
      BY <3>2 DEF Revokes
    <3> QED BY <3>5, <3>6, <3>7, <3>8, <3>9 DEF SessionStep
  <2> QED BY <1>15, <2>1, <2>2 DEF CreateSession
<1>16. CASE IndexSession(h)
  <2> DEFINE named   == [call[h] EXCEPT !.pc = "assocGet"]
             dropped == [call[h] EXCEPT !.pc = "completed", !.sid = NoSession]
  <2>0. /\ call[h].pc = "index" /\ call[h].sid \in Session /\ call[h].who \in Person
        /\ owner[call[h].sid] = call[h].who
    <3>1. call[h].pc = "index"
      BY <1>16 DEF IndexSession
    <3>2. Knows(call[h])
      BY DEF StateOK, CallsSound
    <3> QED BY <1>0, <3>1, <3>2 DEF CallRecord, Knows, Acting, SessionsHeld
  <2>1. CASE /\ call' = [call EXCEPT ![h] = named]
             /\ index' = [index EXCEPT ![call[h].who] = @ \cup {call[h].sid}]
             /\ UNCHANGED <<owner, alive, lapsed>>
    <3>1. /\ named.pc = "assocGet" /\ named.sid = call[h].sid /\ named.seen = call[h].seen
          /\ named.who = call[h].who
      BY <1>0 DEF CallRecord
    <3> HIDE DEF named
    <3>2. call'[h] = named /\ \A g \in Call \ {h} : call'[g] = call[g]
      BY <1>0, <2>1
    <3>3. call[h].sid \in index'[call[h].who] /\ \A p \in Person : index[p] \subseteq index'[p]
      BY <2>0, <2>1 DEF StateOK, TypeOK
    <3>4. SessionsKept
      BY <2>1 DEF SessionsKept
    <3>5. NamesKept(h, call[h])
      BY <2>1, <3>3 DEF NamesKept, Named, StateOK, TypeOK
    <3>6. Holds(call[h], named)
      BY <2>0, <2>1, <3>1, <3>3 DEF Holds, Named
    <3>7. Revokes(call[h], named)
      BY <3>1 DEF Revokes
    <3> QED BY <3>2, <3>4, <3>5, <3>6, <3>7 DEF SessionStep
  <2>2. CASE /\ call' = [call EXCEPT ![h] = dropped]
             /\ alive' \subseteq alive /\ UNCHANGED <<owner, index, lapsed>>
    <3>1. dropped.pc = "completed" /\ dropped.sid = NoSession /\ dropped.seen = call[h].seen
          /\ dropped.who = call[h].who
      BY <1>0 DEF CallRecord
    <3> HIDE DEF dropped
    <3>2. call'[h] = dropped /\ \A g \in Call \ {h} : call'[g] = call[g]
      BY <1>0, <2>2
    <3>3. SessionsKept /\ NamesKept(h, call[h])
      BY <2>2 DEF SessionsKept, NamesKept, Named
    <3>4. Holds(call[h], dropped) /\ Revokes(call[h], dropped)
      BY <2>0, <3>1 DEF Holds, Revokes
    <3> QED BY <3>2, <3>3, <3>4 DEF SessionStep
  <2>3. \/ /\ call' = [call EXCEPT ![h] = named]
           /\ index' = [index EXCEPT ![call[h].who] = @ \cup {call[h].sid}]
           /\ UNCHANGED <<owner, alive, lapsed>>
        \/ /\ call' = [call EXCEPT ![h] = dropped]
           /\ alive' \subseteq alive /\ UNCHANGED <<owner, index, lapsed>>
    BY <1>16 DEF IndexSession
  <2> QED BY <2>1, <2>2, <2>3
<1> QED BY <1>1, <1>2, <1>3, <1>4, <1>5, <1>6, <1>7, <1>8, <1>9, <1>11, <1>12, <1>13, <1>14, <1>15,
           <1>16
        DEF LoginCall

\* The revocations read the index, delete what it named and drop it.
LEMMA PasswordSessions ==
  ASSUME StateOK, NEW h \in Call, PasswordCall(h)
  PROVE  SessionStep(h)
<1>0. call[h] \in CallRecord /\ call \in [Call -> CallRecord] /\ Knows(call[h])
  BY DEF StateOK, TypeOK, CallsSound
<1> USE DEF Step, Answered
<1>1. ASSUME NEW r \in Request, ChangePassword(h, r)
      PROVE  SessionStep(h)
  BY <1>1, QuietSession DEF ChangePassword, NewCall
<1>2. CASE ChangeWrite(h)
  BY <1>0, <1>2, QuietSession DEF ChangeWrite, CallRecord
<1>3. ASSUME NEW p \in Person, ResetPassword(h, p)
      PROVE  SessionStep(h)
  BY <1>3, QuietSession DEF ResetPassword, NewCall
<1>4. ASSUME NEW p \in Person, Logout(h, p)
      PROVE  SessionStep(h)
  BY <1>4, QuietSession DEF Logout, NewCall
<1>5. CASE ReadIndex(h)
  <2>1. CASE Quit(h, "revoke", "unrevoked")
    BY <1>0, <2>1, QuietSession DEF Quit, CallRecord
  <2>2. CASE /\ Step(h, "revoke", [call[h] EXCEPT !.pc = "delete sessions", !.snap = SessionsOf(call[h].who)])
             /\ UNCHANGED sessVars
    <3> DEFINE rec == [call[h] EXCEPT !.pc = "delete sessions", !.snap = SessionsOf(call[h].who)]
    <3>1. call' = [call EXCEPT ![h] = rec] /\ call[h].pc = "revoke"
      BY <2>2
    <3>2. /\ rec.pc = "delete sessions" /\ rec.sid = call[h].sid /\ rec.seen = call[h].seen
          /\ rec.who = call[h].who /\ rec.snap = index[call[h].who]
      BY <1>0 DEF CallRecord, SessionsOf
    <3> HIDE DEF rec
    <3>3. call'[h] = rec /\ \A g \in Call \ {h} : call'[g] = call[g]
      BY <1>0, <3>1
    <3>4. SessionsKept /\ NamesKept(h, call[h])
      BY <2>2 DEF SessionsKept, NamesKept, Named
    <3>5. Holds(call[h], rec) /\ Revokes(call[h], rec)
      BY <2>2, <3>1, <3>2 DEF Holds, Revokes
    <3> QED BY <3>3, <3>4, <3>5 DEF SessionStep
  <2> QED BY <1>5, <2>1, <2>2 DEF ReadIndex
<1>6. CASE DeleteSession(h)
  <2>1. PICK s \in call[h].snap :
          /\ Step(h, "delete sessions", [call[h] EXCEPT !.snap = @ \ {s}])
          /\ \/ alive' = alive \ {s} /\ UNCHANGED lapsed
             \/ lapsed' = lapsed \cup ({s} \cap alive) /\ UNCHANGED alive
          /\ UNCHANGED <<owner, index>>
    BY <1>6 DEF DeleteSession
  <2> DEFINE rec == [call[h] EXCEPT !.snap = @ \ {s}]
  <2>2. call' = [call EXCEPT ![h] = rec] /\ call[h].pc = "delete sessions"
    BY <2>1
  <2>3. /\ rec.pc = "delete sessions" /\ rec.sid = call[h].sid /\ rec.seen = call[h].seen
        /\ rec.who = call[h].who /\ rec.snap = call[h].snap \ {s}
    BY <1>0, <2>2 DEF CallRecord
  <2> HIDE DEF rec
  <2>4. call'[h] = rec /\ \A g \in Call \ {h} : call'[g] = call[g]
    BY <1>0, <2>2
  <2>5. /\ alive' \subseteq alive /\ lapsed \subseteq lapsed'
        /\ s \notin alive' \/ s \in lapsed'
        /\ UNCHANGED <<owner, index>>
    BY <2>1
  <2>6. SessionsKept /\ NamesKept(h, call[h])
    BY <2>5 DEF SessionsKept, NamesKept, Named
  <2>7. Holds(call[h], rec)
    BY <2>2, <2>3, <2>5 DEF Holds
  <2>8. Revokes(call[h], rec)
    BY <2>2, <2>3, <2>5 DEF Revokes
  <2> QED BY <2>4, <2>6, <2>7, <2>8 DEF SessionStep
<1>7. CASE DropIndex(h)
  <2> DEFINE rec == [call[h] EXCEPT !.pc = "revoked"]
             p   == call[h].who
  <2>1. call' = [call EXCEPT ![h] = rec] /\ call[h].pc = "delete sessions" /\ call[h].snap = {}
    BY <1>7 DEF DropIndex
  <2>2. /\ rec.pc = "revoked" /\ rec.sid = call[h].sid /\ rec.seen = call[h].seen
        /\ rec.who = call[h].who
    BY <1>0 DEF CallRecord
  <2> HIDE DEF rec
  <2>3. call'[h] = rec /\ \A g \in Call \ {h} : call'[g] = call[g]
    BY <1>0, <2>1
  <2>4. /\ \/ index' = [index EXCEPT ![p] = {}] /\ lapsed' = lapsed \cup Latecomers(h, p)
           \/ UNCHANGED <<index, lapsed>>
        /\ UNCHANGED <<owner, alive>>
    BY <1>7 DEF DropIndex
  <2>5. SessionsKept
    BY <2>4 DEF SessionsKept
  <2>6. ASSUME NEW s \in Session, owner[s] # NoPerson, Named(s), ~Seen(h, s)
        PROVE  Named(s)'
    <3>1. owner[s] \in Person /\ owner'[s] = owner[s]
      BY <2>4, <2>6 DEF StateOK, TypeOK
    <3>2. CASE owner[s] # p
      BY <2>4, <2>6, <3>1, <3>2 DEF Named, StateOK, TypeOK
    <3>3. CASE owner[s] = p
      <4>1. \A g \in call[h].seen : call[g].sid # s
        BY <2>6, <3>3 DEF Seen
      <4>2. (s \in index[p] /\ s \in alive) => s \in Latecomers(h, p)
        BY <4>1 DEF Latecomers
      <4> QED BY <2>4, <2>6, <3>1, <3>3, <4>2 DEF Named
    <3> QED BY <3>2, <3>3
  <2>7. NamesKept(h, call[h])
    BY <2>1, <2>6 DEF NamesKept
  <2>8. Holds(call[h], rec) /\ Revokes(call[h], rec)
    BY <2>1, <2>2, <2>4 DEF Holds, Revokes
  <2> QED BY <2>3, <2>5, <2>7, <2>8 DEF SessionStep
<1> QED BY <1>1, <1>2, <1>3, <1>4, <1>5, <1>6, <1>7 DEF PasswordCall

\* The exchanges of codes have no session.
LEMMA CodeSessions ==
  ASSUME StateOK, NEW h \in Call, CodeCall(h)
  PROVE  SessionStep(h)
<1>0. call[h] \in CallRecord /\ call \in [Call -> CallRecord]
  BY DEF StateOK, TypeOK
<1> USE DEF Step, Answered
<1>1. ASSUME NEW r \in Request, Callback(h, r)
      PROVE  SessionStep(h)
  BY <1>1, QuietSession DEF Callback, NewCall
<1>2. CASE SaveAuthCode(h)
  BY <1>0, <1>2, QuietSession DEF SaveAuthCode, CallRecord
<1>3. ASSUME NEW c \in Code, ConsumeAuthCode(h, c)
      PROVE  SessionStep(h)
  <2> DEFINE begun == [NewCall EXCEPT !.code = c, !.seen = Before]
             taken == [begun EXCEPT !.pc = "load", !.req = code[c].req]
             dead  == [begun EXCEPT !.pc = "checkSpent"]
  <2>1. PICK d \in {taken, dead} : call' = [call EXCEPT ![h] = d]
    BY <1>3 DEF ConsumeAuthCode
  <2>2. d.pc \in {"load", "checkSpent"} /\ d.sid = NoSession /\ d.seen = Before
    BY DEF NewCall
  <2> HIDE DEF taken, dead
  <2>3. call[h].pc = "idle" /\ UNCHANGED sessVars
    BY <1>3 DEF ConsumeAuthCode
  <2> QED BY <2>1, <2>2, <2>3, QuietSession
<1>4. CASE CheckSpent(h)
  BY <1>0, <1>4, QuietSession DEF CheckSpent, Quit, CallRecord
<1>5. CASE LoadRequest(h)
  BY <1>0, <1>5, QuietSession DEF LoadRequest, CallRecord
<1>6. CASE MarkSpent(h)
  BY <1>0, <1>6, QuietSession DEF MarkSpent, CallRecord
<1>7. CASE IssueTokens(h)
  <2>1. PICK pc \in {"delete request", "denied"} : Quit(h, "issue", pc)
    BY <1>7 DEF IssueTokens
  <2> QED BY <1>0, <2>1, QuietSession DEF Quit, CallRecord
<1>8. CASE DeleteAuthRequest(h)
  BY <1>0, <1>8, QuietSession DEF DeleteAuthRequest, CallRecord
<1> QED BY <1>1, <1>2, <1>3, <1>4, <1>5, <1>6, <1>7, <1>8 DEF CodeCall

\* A call that stops keeps its session; one that stops before its SADD has failed.
LEMMA StopSessions ==
  ASSUME StateOK, NEW h \in Call, Stop(h)
  PROVE  SessionStep(h)
<1>0. call[h] \in CallRecord /\ call \in [Call -> CallRecord]
  BY DEF StateOK, TypeOK
<1>1. PICK pc \in Running : Quit(h, pc, IF Paid(h) THEN "unanswered" ELSE "failed")
  BY DEF Stop
<1>2. call[h].pc = pc /\ (pc \in Answered <=> Paid(h))
  BY <1>1 DEF Quit, Step, Paid, Running, Answered
<1>3. pc # "failed"
  BY DEF Running
<1> QED BY <1>0, <1>1, <1>2, <1>3, QuietSession DEF Quit, Step, Answered, CallRecord

\* The sessions of a call that has answered stay what they are and stay named;
\* revocations keep covering what they found.
LEMMA PasswordKept ==
  ASSUME PasswordInv, StateOK', NEW h \in Call, SessionStep(h)
  PROVE  PasswordInv'
<1>0. /\ call \in [Call -> CallRecord] /\ call' \in [Call -> CallRecord]
      /\ alive \subseteq {s \in Session : owner[s] # NoPerson}
  BY DEF PasswordInv, StateOK, TypeOK
<1>1. \A g \in Call \ {h} : call'[g] = call[g]
  BY DEF SessionStep
<1>2. /\ SessionsKept /\ NamesKept(h, call[h])
      /\ Holds(call[h], call'[h]) /\ Revokes(call[h], call'[h])
  BY DEF SessionStep
<1>3. ASSUME NEW g \in Call, call[g].pc \in Answered
      PROVE  call'[g].pc \in Answered /\ call'[g].sid = call[g].sid
  BY <1>1, <1>2, <1>3 DEF Holds
<1>4. ASSUME NEW g \in Call, call'[g].sid # NoSession
      PROVE  /\ owner'[call'[g].sid] # NoPerson
             /\ call'[g].pc = "index" => owner'[call'[g].sid] = call'[g].who
  <2>1. call[g].sid \in Session \cup {NoSession}
    BY <1>0 DEF CallRecord
  <2>2. call[g].sid # NoSession =>
          /\ owner'[call[g].sid] # NoPerson
          /\ call[g].pc = "index" => owner'[call[g].sid] = call[g].who
    BY <1>2, <2>1 DEF PasswordInv, SessionsHeld, SessionsKept
  <2> QED BY <1>1, <1>2, <1>4, <2>2 DEF Holds
<1>5. \A g \in Before : g \in Call /\ call[g].pc \in Answered
  BY DEF Before, Paid, Answered
<1>6. ASSUME NEW k \in Call, NEW g \in call'[k].seen
      PROVE  g \in Call /\ call[g].pc \in Answered
  <2>1. \A x \in call[k].seen : x \in Call /\ call[x].pc \in Answered
    BY <1>0 DEF PasswordInv, SeenAnswered, CallRecord
  <2> QED BY <1>1, <1>2, <1>5, <1>6, <2>1 DEF Revokes
<1>7. SessionsHeld'
  BY <1>4 DEF SessionsHeld
<1>8. SeenAnswered'
  BY <1>3, <1>6 DEF SeenAnswered
<1>9. ASSUME NEW s \in Session, owner[s] # NoPerson, Named(s)
      PROVE  Named(s)'
  <2>1. CASE call[h].pc = "delete sessions" /\ call[h].snap = {} /\ Seen(h, s)
    <3>1. s \notin alive \/ s \in lapsed
      BY <2>1 DEF PasswordInv, SnapshotCovers
    <3> QED BY <1>2, <1>9, <3>1 DEF SessionsKept, Named
  <2> QED BY <1>2, <1>9, <2>1 DEF NamesKept
<1>10. ASSUME NEW g \in Call, NEW s \in Session, call[g].sid = s,
              call[g].pc \notin {"index", "failed"}
       PROVE  Named(s)'
  <2>1. owner[s] # NoPerson /\ Named(s)
    BY <1>10 DEF PasswordInv, SessionsHeld, SessionsNamed
  <2> QED BY <1>9, <2>1
<1>11. SessionsNamed'
  <2> SUFFICES ASSUME NEW g \in Call, NEW s \in Session,
                      call'[g].sid = s, call'[g].pc \notin {"index", "failed"}
               PROVE  Named(s)'
    BY DEF SessionsNamed
  <2>1. CASE g # h
    BY <1>1, <1>10, <2>1
  <2>2. CASE g = h
    <3>1. \/ Named(s)'
          \/ call[h].sid = s /\ call[h].pc \notin {"index", "failed"}
          \/ \E k \in Call : call[k].sid = s /\ call[k].pc \in Answered
      BY <1>2, <2>2 DEF Holds
    <3>2. \A k \in Call : call[k].pc \in Answered => call[k].pc \notin {"index", "failed"}
      BY DEF Answered
    <3> QED BY <1>10, <3>1, <3>2
  <2> QED BY <2>1, <2>2
<1>12. ASSUME NEW k \in Call, NEW s \in Session, Seen(k, s)', s \in alive' \ lapsed'
       PROVE  /\ call'[k].pc = "delete sessions" => s \in call'[k].snap
              /\ call'[k].pc # "revoked"
  <2>1. PICK g \in call'[k].seen : call'[g].sid = s
    BY <1>12 DEF Seen
  <2>2. /\ g \in Call /\ call[g].pc \in Answered /\ call[g].sid = s
        /\ s # NoSession /\ owner'[s] = call'[k].who
    BY <1>3, <1>6, <1>12, <2>1 DEF Seen
  <2>3. owner[s] # NoPerson /\ owner'[s] = owner[s]
    BY <1>2, <2>2 DEF PasswordInv, SessionsHeld, SessionsKept
  <2>4. s \in alive /\ s \notin lapsed
    BY <1>2, <1>12, <2>3 DEF SessionsKept
  <2>5. s \in index[owner[s]]
    BY <2>2, <2>4 DEF PasswordInv, SessionsNamed, Named, Answered
  <2>6. CASE k # h
    <3>1. call'[k] = call[k]
      BY <1>1, <2>6
    <3>2. Seen(k, s)
      BY <2>1, <2>2, <2>3, <3>1 DEF Seen
    <3> QED BY <2>4, <3>1, <3>2 DEF PasswordInv, SnapshotCovers
  <2>7. CASE k = h
    <3>1. ASSUME call[h].pc = "delete sessions", call'[h].seen = call[h].seen,
                 call'[h].who = call[h].who
          PROVE  s \in call[h].snap
      <4>1. Seen(h, s)
        BY <2>1, <2>2, <2>3, <2>7, <3>1 DEF Seen
      <4> QED BY <2>4, <3>1, <4>1 DEF PasswordInv, SnapshotCovers
    <3>2. call'[h].pc = "delete sessions" => s \in call'[h].snap
      BY <1>2, <1>12, <2>2, <2>3, <2>5, <2>7, <3>1 DEF Revokes
    <3>3. call'[h].pc # "revoked"
      BY <1>2, <3>1 DEF Revokes
    <3> QED BY <2>7, <3>2, <3>3
  <2> QED BY <2>6, <2>7
<1>13. SnapshotCovers'
  BY <1>12 DEF SnapshotCovers
<1> QED BY <1>7, <1>8, <1>11, <1>13 DEF PasswordInv

\* What ends by a lifetime stays named, lapses or dies.
LEMMA EndKept ==
  ASSUME PasswordInv, StateOK', UNCHANGED <<call, owner>>, alive' \subseteq alive,
         lapsed \subseteq lapsed', \A s \in Session : owner[s] # NoPerson /\ Named(s) => Named(s)'
  PROVE  PasswordInv'
<1>1. SessionsHeld' /\ SeenAnswered'
  BY DEF PasswordInv, SessionsHeld, SeenAnswered
<1>2. SessionsNamed'
  <2> SUFFICES ASSUME NEW g \in Call, NEW s \in Session,
                      call[g].sid = s, call[g].pc \notin {"index", "failed"}
               PROVE  Named(s)'
    BY DEF SessionsNamed
  <2>1. owner[s] # NoPerson /\ Named(s)
    BY DEF PasswordInv, SessionsHeld, SessionsNamed
  <2> QED BY <2>1
<1>3. SnapshotCovers'
  BY DEF PasswordInv, SnapshotCovers, Seen
<1> QED BY <1>1, <1>2, <1>3 DEF PasswordInv

\* The invariant holds in every reachable state.
THEOREM PasswordInvariant == Spec => []PasswordInv
<1>1. Init => PasswordInv
  <2> SUFFICES ASSUME Init PROVE PasswordInv
    OBVIOUS
  <2>1. StateOK
    BY InitEstablishes DEF CodeInv, StateOK
  <2>2. \A h \in Call : call[h] = NewCall
    BY DEF Init
  <2>3. NewCall.sid = NoSession /\ NewCall.seen = {}
    BY DEF NewCall
  <2>4. SessionsHeld /\ SeenAnswered
    BY <2>2, <2>3 DEF SessionsHeld, SeenAnswered
  <2>5. SessionsNamed /\ SnapshotCovers
    BY <2>2, <2>3 DEF SessionsNamed, SnapshotCovers, Seen
  <2> QED BY <2>1, <2>4, <2>5 DEF PasswordInv
<1>2. CodeInv /\ PasswordInv /\ [Next]_vars => PasswordInv'
  <2> SUFFICES ASSUME CodeInv, PasswordInv, [Next]_vars PROVE PasswordInv'
    OBVIOUS
  <2>1. StateOK /\ StateOK' /\ SessionsHeld
    BY NextMovesCodes DEF CodeInv, StateOK, PasswordInv
  <2>2. ASSUME NEW h \in Call, LoginCall(h) \/ PasswordCall(h) \/ CodeCall(h) \/ Stop(h)
        PROVE  PasswordInv'
    BY <2>1, <2>2, LoginSessions, PasswordSessions, CodeSessions, StopSessions, PasswordKept
  <2>3. ASSUME UNCHANGED <<call, owner, index, lapsed>>, alive' \subseteq alive
        PROVE  PasswordInv'
    BY <2>1, <2>3, EndKept DEF Named
  <2>4. CASE Tick \/ UNCHANGED vars \/ \E s \in Session : EndSession(s)
    BY <2>3, <2>4 DEF Tick, EndSession, vars
  <2>5. ASSUME NEW r \in Request, NEW p \in Person \cup {NoPerson}, NEW t \in Tenant \cup {NoTenant},
               CreateAuthRequest(r, p, t)
        PROVE  PasswordInv'
    BY <2>3, <2>5 DEF CreateAuthRequest
  <2>6. ASSUME NEW p \in Person, EndIndex(p)
        PROVE  PasswordInv'
    <3>1. /\ index' = [index EXCEPT ![p] = {}] /\ lapsed' = lapsed \cup (index[p] \cap alive)
          /\ UNCHANGED <<call, owner, alive>>
      BY <2>6 DEF EndIndex
    <3>2. \A s \in Session : (owner[s] # NoPerson /\ Named(s)) => Named(s)'
      BY <2>1, <3>1 DEF Named, StateOK, TypeOK
    <3> QED BY <2>1, <3>1, <3>2, EndKept
  <2> QED BY <2>2, <2>4, <2>5, <2>6 DEF Next
<1> QED BY <1>1, <1>2, CodeInvariant, PTL DEF Spec

\* A revocation that ran (a new or reset password, a logout: sso.go, tenant.go)
\* has ended for good every session of the person whose login had answered
\* before it began, but those that lost their index entry to another revocation
\* or to its lifetime, or whose DEL failed.
THEOREM PasswordsEndSessions == Spec => []PasswordEndsSessions
<1>1. PasswordInv => PasswordEndsSessions
  <2> SUFFICES ASSUME PasswordInv, NEW g \in Call, NEW h \in Call,
                      call[h].pc = "revoked", g \in call[h].seen, call[g].sid # NoSession,
                      owner[call[g].sid] = call[h].who
               PROVE  call[g].sid \notin alive \ lapsed
    BY DEF PasswordEndsSessions
  <2>1. call[g].sid \in Session
    BY DEF PasswordInv, StateOK, TypeOK, CallRecord
  <2>2. Seen(h, call[g].sid)
    BY DEF Seen
  <2> QED BY <2>1, <2>2 DEF PasswordInv, SnapshotCovers
<1> QED BY <1>1, PasswordInvariant, PTL

-----------------------------------------------------------------------------
(* What a second presentation of a code is told.  The mark is written      *)
(* before the tokens are issued, by the one call that took the code, so    *)
(* whoever was paid before a call began left a mark that lives for         *)
(* SpentTTL; the call reads that mark after it began.                      *)

\* Where a call stands once its code is marked.
Marked == {"issue", "delete request", "granted", "unanswered"}

\* What a call knows of its code and of the mark (m are the marks).
ReportItem(c, m) ==
  /\ c.pc \in Marked => c.code \in Code /\ m[c.code] = c.at + SpentTTL
  /\ c.pc = "completed" => c.code = NoCode
  /\ c.pc \in {"checkSpent", "invalid"} => c.code \in Code

\* The calls a later call counts as earlier were paid, or logged in.
SeenPaid == \A h \in Call : \A g \in call[h].seen : Paid(g) \/ call[g].pc = "completed"

\* Whoever is told a code is unknown is told so after the mark has died.
ToldLate ==
  \A g, h \in Call :
    (call[h].pc = "invalid" /\ g \in call[h].seen /\ call[g].code = call[h].code)
    => call[g].at + SpentTTL <= now

\* The inductive invariant of the marks.
ReportInv == /\ \A h \in Call : ReportItem(call[h], spent)
             /\ SeenPaid /\ ToldLate

\* The step of call h from record c to record d, with the marks as they are and as
\* they become.
Reports(c, d) ==
  /\ now' = now
  /\ \/ spent' = spent
     \/ c.pc = "mark" /\ c.code \in Code /\ spent' = [spent EXCEPT ![c.code] = now + SpentTTL]
  /\ ReportItem(c, spent) => ReportItem(d, spent')
  /\ d.seen \in {{}, Before, c.seen}
  /\ c.pc \in {"delete request", "granted", "unanswered"} =>
       /\ d.pc \in {"delete request", "granted", "unanswered"}
       /\ d.code = c.code /\ d.at = c.at
  /\ c.pc = "completed" => d.pc = "completed"
  /\ d.pc = "invalid" => /\ c.pc = "checkSpent" /\ d.seen = c.seen /\ d.code = c.code
                         /\ ReportItem(c, spent) => spent[c.code] <= now

ReportStep(h) ==
  /\ \A g \in Call \ {h} : call'[g] = call[g]
  /\ Reports(call[h], call'[h])

\* The steps that stay clear of the marks.
LEMMA QuietReport ==
  ASSUME StateOK, NEW h \in Call, NEW d, call' = [call EXCEPT ![h] = d],
         UNCHANGED <<now, spent>>,
         d.seen \in {{}, Before, call[h].seen},
         call[h].pc \notin Marked \cup {"completed"},
         d.pc \notin Marked \cup {"checkSpent", "invalid"},
         d.pc = "completed" => d.code = NoCode
  PROVE  ReportStep(h)
<1>1. call'[h] = d /\ \A g \in Call \ {h} : call'[g] = call[g]
  BY DEF StateOK, TypeOK
<1> QED BY <1>1 DEF ReportStep, Reports, ReportItem, Marked

\* The login calls do.
LEMMA LoginReports ==
  ASSUME StateOK, NEW h \in Call, LoginCall(h)
  PROVE  ReportStep(h)
<1>0. call[h] \in CallRecord /\ Knows(call[h])
  BY DEF StateOK, TypeOK, CallsSound
<1> USE DEF Marked, Step
<1>1. ASSUME NEW r \in Request, NEW p \in Person, LoginBegin(h, r, p)
      PROVE  ReportStep(h)
  BY <1>1, QuietReport DEF LoginBegin, NewCall
<1>2. ASSUME NEW r \in Request, NEW p \in Person, RegisterPerson(h, r, p)
      PROVE  ReportStep(h)
  BY <1>2, QuietReport DEF RegisterPerson, NewCall
<1>3. CASE Verify(h)
  BY <1>0, <1>3, QuietReport DEF Verify, CallRecord
<1>4. ASSUME NEW r \in Request, NEW t \in Tenant, CreateTenantCheck(h, r, t)
      PROVE  ReportStep(h)
  BY <1>4, QuietReport DEF CreateTenantCheck, NewCall
<1>5. CASE CreateTenantCommit(h)
  BY <1>0, <1>5, QuietReport DEF CreateTenantCommit, CallRecord
<1>6. ASSUME NEW r \in Request, NEW t \in Tenant, SelectTenant(h, r, t)
      PROVE  ReportStep(h)
  BY <1>6, QuietReport DEF SelectTenant, NewCall
<1>7. ASSUME NEW r \in created, NEW s \in Session, SilentBegin(h, r, s)
      PROVE  ReportStep(h)
  BY <1>7, QuietReport DEF SilentBegin, NewCall
<1>8. CASE SilentRead(h)
  BY <1>0, <1>8, QuietReport DEF SilentRead, CallRecord
<1>9. CASE CompleteGet(h)
  BY <1>0, <1>9, QuietReport DEF CompleteGet, CallRecord
<1>10. CASE CompleteSet(h)
  BY <1>0, <1>10, QuietReport DEF CompleteSet, CallRecord
<1>11. CASE CreateSession(h)
  BY <1>0, <1>11, QuietReport DEF CreateSession, Quit, CallRecord, Knows, Acting
<1>15. CASE IndexSession(h)
  BY <1>0, <1>15, QuietReport DEF IndexSession, CallRecord, Knows, Acting
<1>12. CASE AssociateGet(h)
  BY <1>0, <1>12, QuietReport DEF AssociateGet, CallRecord, Knows, Acting
<1>13. CASE AssociateSet(h)
  BY <1>0, <1>13, QuietReport DEF AssociateSet, CallRecord, Knows, Acting
<1>14. CASE Missed(h)
  BY <1>0, <1>14, QuietReport DEF Missed, Quit, CallRecord
<1> QED BY <1>1, <1>2, <1>3, <1>4, <1>5, <1>6, <1>7, <1>8, <1>9, <1>10, <1>11, <1>12, <1>13, <1>14,
          <1>15
        DEF LoginCall

\* So do the password changes.
LEMMA PasswordReports ==
  ASSUME StateOK, NEW h \in Call, PasswordCall(h)
  PROVE  ReportStep(h)
<1>0. call[h] \in CallRecord
  BY DEF StateOK, TypeOK
<1> USE DEF Marked, Step
<1>1. ASSUME NEW r \in Request, ChangePassword(h, r)
      PROVE  ReportStep(h)
  BY <1>1, QuietReport DEF ChangePassword, NewCall
<1>2. CASE ChangeWrite(h)
  BY <1>0, <1>2, QuietReport DEF ChangeWrite, CallRecord
<1>3. ASSUME NEW p \in Person, ResetPassword(h, p)
      PROVE  ReportStep(h)
  BY <1>3, QuietReport DEF ResetPassword, NewCall
<1>4. ASSUME NEW p \in Person, Logout(h, p)
      PROVE  ReportStep(h)
  BY <1>4, QuietReport DEF Logout, NewCall
<1>5. CASE ReadIndex(h)
  BY <1>0, <1>5, QuietReport DEF ReadIndex, Quit, CallRecord
<1>6. CASE DeleteSession(h)
  BY <1>0, <1>6, QuietReport DEF DeleteSession, CallRecord
<1>7. CASE DropIndex(h)
  BY <1>0, <1>7, QuietReport DEF DropIndex, CallRecord
<1> QED BY <1>1, <1>2, <1>3, <1>4, <1>5, <1>6, <1>7 DEF PasswordCall

\* An exchange marks its code, is paid under the mark, or reads the mark.
LEMMA CodeReports ==
  ASSUME StateOK, NEW h \in Call, CodeCall(h)
  PROVE  ReportStep(h)
<1>0. call[h] \in CallRecord /\ Knows(call[h]) /\ call \in [Call -> CallRecord]
  BY DEF StateOK, TypeOK, CallsSound
<1> USE DEF Marked, Step
<1>1. ASSUME NEW r \in Request, Callback(h, r)
      PROVE  ReportStep(h)
  BY <1>1, QuietReport DEF Callback, NewCall
<1>2. CASE SaveAuthCode(h)
  BY <1>0, <1>2, QuietReport DEF SaveAuthCode, CallRecord
<1>3. ASSUME NEW c \in Code, ConsumeAuthCode(h, c)
      PROVE  ReportStep(h)
  <2> DEFINE begun == [NewCall EXCEPT !.code = c, !.seen = Before]
             taken == [begun EXCEPT !.pc = "load", !.req = code[c].req]
             dead  == [begun EXCEPT !.pc = "checkSpent"]
  <2>1. PICK d \in {taken, dead} : call' = [call EXCEPT ![h] = d]
    BY <1>3 DEF ConsumeAuthCode
  <2>2. d.pc \in {"load", "checkSpent"} /\ d.code = c /\ d.seen = Before
    BY DEF NewCall
  <2> HIDE DEF taken, dead
  <2>3. call[h].pc = "idle" /\ UNCHANGED <<now, spent>>
    BY <1>3 DEF ConsumeAuthCode
  <2>4. call'[h] = d /\ \A g \in Call \ {h} : call'[g] = call[g]
    BY <1>0, <2>1
  <2> QED BY <2>2, <2>3, <2>4 DEF ReportStep, Reports, ReportItem
<1>4. CASE CheckSpent(h)
  <2>1. PICK pc \in {"used", "invalid"} :
          /\ Quit(h, "checkSpent", pc)
          /\ pc = "invalid" => ~(now < spent[call[h].code])
    BY <1>4 DEF CheckSpent
  <2>2. /\ call'[h].pc = pc /\ call'[h].code = call[h].code /\ call'[h].seen = call[h].seen
        /\ call[h].pc = "checkSpent" /\ UNCHANGED <<now, spent>>
        /\ \A g \in Call \ {h} : call'[g] = call[g]
    BY <1>0, <2>1 DEF Quit, CallRecord
  <2>3. ASSUME ReportItem(call[h], spent), pc = "invalid" PROVE spent[call[h].code] <= now
    BY <2>1, <2>2, <2>3 DEF ReportItem, StateOK, TypeOK, Instant
  <2> QED BY <2>1, <2>2, <2>3 DEF ReportStep, Reports, ReportItem
<1>5. CASE LoadRequest(h)
  BY <1>0, <1>5, QuietReport DEF LoadRequest, CallRecord
<1>6. CASE MarkSpent(h)
  <2>1. /\ call[h].pc = "mark" /\ call[h].code \in Code
        /\ spent' = [spent EXCEPT ![call[h].code] = now + SpentTTL] /\ now' = now
        /\ call' = [call EXCEPT ![h] = [call[h] EXCEPT !.pc = "issue", !.at = now]]
    BY <1>0, <1>6 DEF MarkSpent, SpentUntil, CallRecord, Knows, Exchanging
  <2>2. /\ call'[h].pc = "issue" /\ call'[h].at = now /\ call'[h].code = call[h].code
        /\ call'[h].seen = call[h].seen
        /\ \A g \in Call \ {h} : call'[g] = call[g]
    BY <1>0, <2>1 DEF CallRecord
  <2>3. spent'[call[h].code] = now + SpentTTL
    BY <2>1 DEF StateOK, TypeOK
  <2> QED BY <2>1, <2>2, <2>3 DEF ReportStep, Reports, ReportItem
<1>7. ASSUME NEW from \in Marked, NEW pc \in {"delete request", "granted", "unanswered", "denied"},
             from # "issue" => pc # "denied", UNCHANGED <<now, spent>>,
             Step(h, from, [call[h] EXCEPT !.pc = pc])
      PROVE  ReportStep(h)
  <2>1. /\ call'[h].pc = pc /\ call'[h].code = call[h].code /\ call'[h].seen = call[h].seen
        /\ call'[h].at = call[h].at /\ call[h].pc = from
        /\ \A g \in Call \ {h} : call'[g] = call[g]
    BY <1>0, <1>7 DEF CallRecord
  <2> QED BY <1>7, <2>1 DEF ReportStep, Reports, ReportItem
<1>8. CASE IssueTokens(h)
  BY <1>7, <1>8 DEF IssueTokens, Quit
<1>9. CASE DeleteAuthRequest(h)
  BY <1>7, <1>9 DEF DeleteAuthRequest
<1> QED BY <1>1, <1>2, <1>3, <1>4, <1>5, <1>6, <1>8, <1>9 DEF CodeCall

\* A call that stops keeps what it was paid under.
LEMMA StopReports ==
  ASSUME StateOK, NEW h \in Call, Stop(h)
  PROVE  ReportStep(h)
<1>0. call[h] \in CallRecord /\ call \in [Call -> CallRecord]
  BY DEF StateOK, TypeOK
<1>1. PICK from \in Running : Quit(h, from, IF Paid(h) THEN "unanswered" ELSE "failed")
  BY DEF Stop
<1>2. PICK pc \in {"unanswered", "failed"} :
        /\ call[h].pc = from /\ UNCHANGED <<now, spent>> /\ (pc = "unanswered" <=> Paid(h))
        /\ call' = [call EXCEPT ![h] = [call[h] EXCEPT !.pc = pc]]
  BY <1>1 DEF Quit, Step
<1>3. /\ call'[h].pc = pc /\ call'[h].code = call[h].code /\ call'[h].seen = call[h].seen
      /\ call'[h].at = call[h].at
      /\ \A g \in Call \ {h} : call'[g] = call[g]
  BY <1>0, <1>2 DEF CallRecord
<1>4. call[h].pc # "completed" /\ (pc = "unanswered" <=> call[h].pc = "delete request")
  BY <1>2 DEF Paid, Running
<1> QED BY <1>2, <1>3, <1>4 DEF ReportStep, Reports, ReportItem, Marked, Running

\* Such a step keeps the marks: no other call is at the mark of the code it took.
LEMMA ReportKept ==
  ASSUME CodeInv, ReportInv, NEW h \in Call, ReportStep(h)
  PROVE  ReportInv'
<1>0. call \in [Call -> CallRecord] /\ now \in 1 .. MaxTime /\ spent \in [Code -> Instant]
  BY DEF CodeInv, TypeOK
<1>1. /\ \A g \in Call \ {h} : call'[g] = call[g]
      /\ Reports(call[h], call'[h])
  BY DEF ReportStep
<1>2. ASSUME NEW k \in Call PROVE ReportItem(call'[k], spent')
  <2>1. CASE k = h
    BY <1>1, <2>1 DEF ReportInv, Reports
  <2>2. CASE k # h /\ spent' = spent
    BY <1>1, <2>2 DEF ReportInv
  <2>3. CASE k # h /\ call[h].pc = "mark" /\ call[h].code \in Code
             /\ spent' = [spent EXCEPT ![call[h].code] = now + SpentTTL]
    <3>1. ASSUME call[k].pc \in Marked PROVE call[k].code # call[h].code
      <4>1. Knows(call[h]) /\ Knows(call[k])
        BY DEF CodeInv, CallsSound
      <4>2. Took(h, call[h].code) /\ Took(k, call[k].code)
        BY <2>3, <3>1, <4>1 DEF Knows, Exchanging, Marked, Took
      <4> QED BY <2>3, <4>2 DEF CodeInv, OneTaker
    <3>2. call[k].pc \in Marked => call[k].code \in Code /\ spent'[call[k].code] = call[k].at + SpentTTL
      BY <1>0, <2>3, <3>1 DEF ReportInv, ReportItem
    <3> QED BY <1>1, <2>3, <3>2 DEF ReportInv, ReportItem
  <2> QED BY <1>1, <2>1, <2>2, <2>3 DEF Reports
<1>3. ASSUME NEW g \in Call, Paid(g)
      PROVE  Paid(g)' /\ call'[g].code = call[g].code /\ call'[g].at = call[g].at
  BY <1>1, <1>3 DEF Paid, Reports
<1>4. \A g \in Call : call[g].pc = "completed" => call'[g].pc = "completed"
  BY <1>1 DEF Reports
<1>5. SeenPaid'
  <2> SUFFICES ASSUME NEW k \in Call, NEW g \in call'[k].seen
               PROVE  Paid(g)' \/ call'[g].pc = "completed"
    BY DEF SeenPaid
  <2>1. g \in Before \/ g \in call[k].seen
    BY <1>1 DEF Reports
  <2>2. g \in Call /\ (Paid(g) \/ call[g].pc = "completed")
    BY <1>0, <2>1 DEF Before, ReportInv, SeenPaid, CallRecord
  <2> QED BY <1>3, <1>4, <2>2
<1>6. ToldLate'
  <2> SUFFICES ASSUME NEW g \in Call, NEW k \in Call, call'[k].pc = "invalid",
                      g \in call'[k].seen, call'[g].code = call'[k].code
               PROVE  call'[g].at + SpentTTL <= now'
    BY DEF ToldLate
  <2>1. g \in call[k].seen /\ call'[k].code = call[k].code /\ now' = now
    BY <1>1 DEF Reports
  <2>2. call[k].code \in Code
    BY <1>1, <2>1 DEF Reports, ReportInv, ReportItem
  <2>3. Paid(g)
    <3>1. Paid(g) \/ call[g].pc = "completed"
      BY <2>1 DEF ReportInv, SeenPaid
    <3>2. call[g].pc = "completed" => call'[g].code = NoCode
      BY <1>2, <1>4 DEF ReportItem
    <3> QED BY <2>1, <2>2, <3>1, <3>2
  <2>4. call'[g].code = call[g].code /\ call'[g].at = call[g].at
    BY <1>3, <2>3
  <2>5. spent[call[g].code] = call[g].at + SpentTTL
    BY <2>3 DEF ReportInv, ReportItem, Paid, Marked
  <2>6. CASE k = h
    BY <1>1, <2>1, <2>4, <2>5, <2>6 DEF Reports, ReportInv
  <2>7. CASE k # h
    BY <1>1, <2>1, <2>4, <2>7 DEF ReportInv, ToldLate
  <2> QED BY <2>6, <2>7
<1> QED BY <1>2, <1>5, <1>6 DEF ReportInv

\* The invariant holds in every reachable state.
THEOREM ReportInvariant == Spec => []ReportInv
<1>1. Init => ReportInv
  <2> SUFFICES ASSUME Init PROVE ReportInv
    OBVIOUS
  <2>1. \A h \in Call : call[h] = NewCall
    BY DEF Init
  <2>2. NewCall.pc = "idle" /\ NewCall.seen = {}
    BY DEF NewCall
  <2> QED BY <2>1, <2>2 DEF ReportInv, ReportItem, Marked, SeenPaid, ToldLate
<1>2. CodeInv /\ ReportInv /\ [Next]_vars => ReportInv'
  <2> SUFFICES ASSUME CodeInv, ReportInv, [Next]_vars PROVE ReportInv'
    OBVIOUS
  <2>1. StateOK
    BY DEF CodeInv, StateOK
  <2>2. ASSUME NEW h \in Call, LoginCall(h) \/ PasswordCall(h) \/ CodeCall(h) \/ Stop(h)
        PROVE  ReportInv'
    BY <2>1, <2>2, LoginReports, PasswordReports, CodeReports, StopReports, ReportKept
  <2>3. ASSUME UNCHANGED <<call, spent>>, now' = now \/ now' = now + 1
        PROVE  ReportInv'
    <3>1. \A g \in Call : call[g].at \in Nat
      BY DEF CodeInv, TypeOK, CallRecord
    <3>2. now \in Nat
      BY DEF CodeInv, TypeOK
    <3>3. ToldLate'
      BY <2>3, <3>1, <3>2 DEF ReportInv, ToldLate
    <3> QED BY <2>3, <3>3 DEF ReportInv, SeenPaid, Paid
  <2>4. CASE Tick \/ UNCHANGED vars \/ (\E s \in Session : EndSession(s)) \/ \E p \in Person : EndIndex(p)
    BY <2>3, <2>4 DEF Tick, EndSession, EndIndex, vars
  <2>5. ASSUME NEW r \in Request, NEW p \in Person \cup {NoPerson}, NEW t \in Tenant \cup {NoTenant},
               CreateAuthRequest(r, p, t)
        PROVE  ReportInv'
    BY <2>3, <2>5 DEF CreateAuthRequest
  <2> QED BY <2>2, <2>4, <2>5 DEF Next
<1> QED BY <1>1, <1>2, CodeInvariant, PTL DEF Spec

\* For SpentTTL after a code was marked, a call that presents it after tokens were
\* issued for it is told that it was used (checkSpentOrInvalid,
\* protocol_state_store.go), whatever races, stops and expiries there are.
THEOREM UsedCodesAreReported == Spec => []UsedCodeIsReported
<1>1. CodeInv /\ ReportInv => UsedCodeIsReported
  BY DEF CodeInv, TypeOK, CallRecord, ReportInv, ToldLate, UsedCodeIsReported
<1> QED BY <1>1, CodeInvariant, ReportInvariant, PTL
=============================================================================
