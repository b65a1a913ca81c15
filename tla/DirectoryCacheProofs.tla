------------------------ MODULE DirectoryCacheProofs ------------------------
(***************************************************************************)
(* What the directory client guarantees for every number of goroutines,    *)
(* members, tables and contents, and every lifetime: one flight per batch, *)
(* whose followers are released however it ends, and nothing cached of a   *)
(* member that is older than its last quiet invalidation.                  *)
(***************************************************************************)
EXTENDS DirectoryCache, TLAPS

USE NullAssumption, DataAssumption, TimeAssumption
USE DEF remoteVars, memberVars

-----------------------------------------------------------------------------
(* The inductive invariant.                                                *)

Fields == {"pc", "ids", "key", "on", "prev", "reply", "body", "seen", "out"}
Flying == {"fetch", "land", "close"}

\* What a call has at hand where it stands.
Sound(c) ==
  /\ DOMAIN c = Fields
  /\ c.pc \in Flying \cup {"acquire", "wait", "reread"} => c.key \in Batch
  /\ c.pc = "collect" => c.ids \in Batch
  /\ c.pc = "wait" => c.on \in Call

\* One flight per batch, of calls that are sound.
FlightInv ==
  /\ DOMAIN call = Call /\ \A h \in Call : Sound(call[h])
  /\ inflight \in [Batch -> Call \cup {NoCall}]
  /\ OneFlight

\* Versions count the changes; an invalidation notes one that was reached.
VersionsOK ==
  /\ version \in [Thing -> Nat] /\ floor \in [Member -> Nat]
  /\ \A m \in Member : floor[m] <= version[m]

\* What is cached of a member is not older than its floor.
EntriesOK ==
  /\ DOMAIN members = Member
  /\ \A m \in Member : members[m] # None =>
       /\ DOMAIN members[m] = {"is", "fetched", "version", "sure"}
       /\ members[m].version \in Nat /\ members[m].version >= floor[m]

\* Neither is an answer that is about to be cached: a quiet invalidation finds none.
AnswersOK ==
  \A h \in Call : call[h].pc = "land" =>
    \A m \in call[h].key : call[h].seen[m] \in Nat /\ call[h].seen[m] >= floor[m]

CacheInv == FlightInv /\ VersionsOK /\ EntriesOK /\ AnswersOK

-----------------------------------------------------------------------------
(* The flights.                                                            *)

\* A call starts out sound.
LEMMA NewCallSound == Sound(NewCall) /\ NewCall.pc = "idle" /\ NewCall.key = {}
BY DEF Sound, NewCall, Fields, Flying

\* The step of call h that neither opens nor closes a flight.
OwnStep(h, d) ==
  /\ call' = [call EXCEPT ![h] = d] /\ UNCHANGED inflight
  /\ Sound(d)
  /\ d.pc \in Flying <=> call[h].pc \in Flying
  /\ d.pc \in Flying => d.key = call[h].key
  /\ d.pc = "wait" => inflight[d.key] = d.on

\* Such a step keeps the flights.
LEMMA OwnStepKeeps ==
  ASSUME FlightInv, NEW h \in Call, NEW d, OwnStep(h, d)
  PROVE  FlightInv'
<1>1. call'[h] = d /\ DOMAIN call' = Call /\ \A g \in Call \ {h} : call'[g] = call[g]
  BY DEF FlightInv, OwnStep
<1>2. \A g \in Call : Sound(call[g])'
  BY <1>1 DEF FlightInv, OwnStep, Sound
<1>3. ASSUME NEW b \in Batch, NEW g \in Call
      PROVE  inflight'[b] = g <=> call'[g].pc \in Flying /\ call'[g].key = b
  BY <1>1 DEF FlightInv, OneFlight, OwnStep, Flying
<1>4. \A g \in Call : call'[g].pc = "wait" => inflight'[call'[g].key] = call'[g].on
  BY <1>1 DEF FlightInv, OneFlight, OwnStep
<1> QED BY <1>1, <1>2, <1>3, <1>4 DEF FlightInv, OneFlight, OwnStep, Flying

\* What is pending of a batch is a batch, unless nothing is.
LEMMA PendingIsBatch ==
  \A ids \in Batch : Pending(ids) # {} => Pending(ids) \in Batch
BY DEF Pending, Batch

LEMMA CollectStep ==
  ASSUME FlightInv, NEW h \in Call, NEW ids \in Batch, NEW from \in {"idle", "collect"},
         Collect(h, from, ids)
  PROVE  FlightInv'
<1> DEFINE hit  == Answering(Cached(ids))
           miss == [call[h] EXCEPT !.pc = "acquire", !.ids = ids, !.key = Pending(ids), !.out = Cached(ids)]
<1>1. /\ call[h].pc = from /\ UNCHANGED inflight
      /\ \/ call' = [call EXCEPT ![h] = hit]
         \/ Pending(ids) # {} /\ call' = [call EXCEPT ![h] = miss]
  BY DEF Collect, Step
<1>2. Sound(hit) /\ hit.pc = "return"
  BY DEF Answering, NewCall, Sound, Fields, Flying
<1>3. Pending(ids) # {} => Sound(miss) /\ miss.pc = "acquire"
  BY PendingIsBatch DEF FlightInv, Sound, Fields, Flying
<1> HIDE DEF hit, miss
<1>4. \E d : OwnStep(h, d)
  BY <1>1, <1>2, <1>3 DEF OwnStep, Flying
<1> QED BY <1>4, OwnStepKeeps

\* Opening a flight: nobody led this batch, and nobody waits for it.
LEMMA LeadStep ==
  ASSUME FlightInv, NEW h \in Call, Lead(h)
  PROVE  FlightInv'
<1> DEFINE key == call[h].key
           d   == [call[h] EXCEPT !.pc = "fetch", !.prev = batchETags[key]]
<1>1. /\ call[h].pc = "acquire" /\ call' = [call EXCEPT ![h] = d]
      /\ inflight[key] = NoCall /\ inflight' = [inflight EXCEPT ![key] = h]
  BY DEF Lead, Step
<1>2. Sound(call[h]) /\ key \in Batch
  BY <1>1 DEF FlightInv, Sound
<1>3. Sound(d) /\ d.pc = "fetch" /\ d.key = key
  BY <1>2 DEF Sound, Fields, Flying
<1> HIDE DEF d
<1>4. call'[h] = d /\ DOMAIN call' = Call /\ \A g \in Call \ {h} : call'[g] = call[g]
  BY <1>1 DEF FlightInv
<1>5. inflight'[key] = h /\ \A b \in Batch \ {key} : inflight'[b] = inflight[b]
  BY <1>1, <1>2 DEF FlightInv
<1>6. inflight' \in [Batch -> Call \cup {NoCall}]
  BY <1>1, <1>2 DEF FlightInv
<1>7. \A g \in Call : Sound(call[g])'
  BY <1>3, <1>4 DEF FlightInv, Sound
<1>8. ASSUME NEW b \in Batch, NEW g \in Call
      PROVE  inflight'[b] = g <=> call'[g].pc \in Flying /\ call'[g].key = b
  BY <1>1, <1>3, <1>4, <1>5 DEF FlightInv, OneFlight, Flying
<1>9. ASSUME NEW g \in Call, call'[g].pc = "wait"
      PROVE  inflight'[call'[g].key] = call'[g].on
  <2>1. g # h /\ call'[g] = call[g]
    BY <1>3, <1>4, <1>9
  <2>2. call[g].key \in Batch /\ inflight[call[g].key] = call[g].on /\ call[g].on # NoCall
    BY <1>9, <2>1 DEF FlightInv, OneFlight, Sound
  <2> QED BY <1>1, <1>5, <2>1, <2>2
<1> QED BY <1>4, <1>6, <1>7, <1>8, <1>9 DEF FlightInv, OneFlight, Flying

\* Closing a flight: all who wait for it go on.
LEMMA FinishStep ==
  ASSUME FlightInv, NEW h \in Call, Finish(h)
  PROVE  FlightInv'
<1> DEFINE key   == call[h].key
           woken == {w \in Call \ {h} : call[w].pc = "wait" /\ call[w].on = h}
<1>1. /\ call[h].pc = "close" /\ DOMAIN call' = Call /\ call'[h] = NewCall
      /\ \A w \in woken : call'[w] = [call[w] EXCEPT !.pc = "reread", !.on = NoCall]
      /\ \A w \in Call \ (woken \cup {h}) : call'[w] = call[w]
      /\ inflight' = [inflight EXCEPT ![key] = NoCall]
  BY DEF Finish, Finishes
<1>2. key \in Batch /\ inflight[key] = h
  BY <1>1 DEF FlightInv, OneFlight, Sound, Flying
<1>3. inflight'[key] = NoCall /\ \A b \in Batch \ {key} : inflight'[b] = inflight[b]
  BY <1>1, <1>2 DEF FlightInv
<1>4. inflight' \in [Batch -> Call \cup {NoCall}]
  BY <1>1, <1>2 DEF FlightInv
<1>5. ASSUME NEW w \in woken PROVE call'[w].pc = "reread" /\ Sound(call'[w])
  <2> DEFINE d == [call[w] EXCEPT !.pc = "reread", !.on = NoCall]
  <2>1. DOMAIN call[w] = Fields
    BY DEF FlightInv, Sound
  <2>2. DOMAIN d = Fields /\ d.pc = "reread" /\ d.key = call[w].key
    BY <2>1 DEF Fields
  <2>3. call'[w] = d
    BY <1>1
  <2>4. call[w].key \in Batch
    BY DEF FlightInv, Sound
  <2> HIDE DEF d
  <2> QED BY <2>2, <2>3, <2>4 DEF Sound, Flying
<1>6. \A g \in Call : Sound(call'[g])
  BY <1>1, <1>5, NewCallSound DEF FlightInv
<1>7. ASSUME NEW b \in Batch, NEW g \in Call
      PROVE  inflight'[b] = g <=> call'[g].pc \in Flying /\ call'[g].key = b
  <2>1. inflight[b] = g <=> call[g].pc \in Flying /\ call[g].key = b
    BY DEF FlightInv, OneFlight, Flying
  <2>2. CASE g = h
    BY <1>1, <1>2, <1>3, <2>1, <2>2, NewCallSound DEF Flying
  <2>3. CASE g \in woken
    BY <1>3, <1>5, <2>1, <2>3 DEF Flying
  <2>4. CASE g \notin woken \cup {h}
    BY <1>1, <1>2, <1>3, <2>1, <2>4
  <2> QED BY <2>2, <2>3, <2>4
<1>8. ASSUME NEW g \in Call, call'[g].pc = "wait"
      PROVE  inflight'[call'[g].key] = call'[g].on
  <2>1. g \notin woken \cup {h} /\ call'[g] = call[g]
    BY <1>1, <1>5, <1>8, NewCallSound
  <2>2. call[g].key \in Batch /\ inflight[call[g].key] = call[g].on /\ call[g].on # h
    BY <1>8, <2>1 DEF FlightInv, OneFlight, Sound
  <2> QED BY <1>2, <1>3, <2>1, <2>2
<1>9. \A g \in Call : Sound(call[g])'
  BY <1>6 DEF Sound
<1> QED BY <1>1, <1>4, <1>7, <1>8, <1>9 DEF FlightInv, OneFlight, Flying

\* Every step of a call keeps the flights.
LEMMA ProceedStep ==
  ASSUME FlightInv, NEW h \in Call, Proceed(h) \/ WaitCancelled(h)
  PROVE  FlightInv'
<1>0. Sound(call[h]) /\ DOMAIN call[h] = Fields
  BY DEF FlightInv, Sound
<1>1. CASE CollectMissed(h)
  BY <1>0, <1>1, CollectStep DEF CollectMissed, Collect, Step, Sound
<1>2. CASE Return(h)
  BY <1>2, NewCallSound, OwnStepKeeps DEF Return, Step, OwnStep, Flying
<1>3. CASE Lead(h)
  BY <1>3, LeadStep
<1>4. CASE Follow(h)
  <2> DEFINE d == [call[h] EXCEPT !.pc = "wait", !.on = inflight[call[h].key]]
  <2>1. /\ call[h].pc = "acquire" /\ call' = [call EXCEPT ![h] = d]
        /\ inflight[call[h].key] # NoCall /\ UNCHANGED inflight
    BY <1>4 DEF Follow, Step
  <2>2. call[h].key \in Batch /\ inflight[call[h].key] \in Call
    BY <1>0, <2>1 DEF Sound, FlightInv
  <2>3. /\ DOMAIN d = Fields /\ d.pc = "wait" /\ d.key = call[h].key
        /\ d.on = inflight[call[h].key]
    BY <1>0 DEF Fields
  <2> HIDE DEF d
  <2>4. OwnStep(h, d)
    BY <2>1, <2>2, <2>3 DEF OwnStep, Sound, Flying
  <2> QED BY <2>4, OwnStepKeeps
<1>5. CASE WaitCancelled(h)
  BY <1>5, NewCallSound, OwnStepKeeps DEF WaitCancelled, Refused, Step, OwnStep, Flying
<1>6. ASSUME NEW out, Step(h, "reread", Answering(out)) \/ Step(h, "table land", Answering(out)),
             UNCHANGED inflight
      PROVE  FlightInv'
  <2> DEFINE d == Answering(out)
  <2>1. Sound(d) /\ d.pc = "return"
    BY DEF Answering, NewCall, Sound, Fields, Flying
  <2>2. call' = [call EXCEPT ![h] = d] /\ call[h].pc \in {"reread", "table land"}
    BY <1>6 DEF Step
  <2> HIDE DEF d
  <2> QED BY <1>6, <2>1, <2>2, OwnStepKeeps DEF OwnStep, Flying
<1>7. CASE Reread(h)
  BY <1>6, <1>7 DEF Reread
<1>8. ASSUME NEW from \in {"fetch", "table fetch"}, NEW to \in {"land", "table land"}, NEW reply, NEW body, NEW seen,
             (from = "fetch") <=> (to = "land"), UNCHANGED inflight,
             Step(h, from, [call[h] EXCEPT !.pc = to, !.reply = reply, !.seen = seen, !.body = body])
      PROVE  FlightInv'
  <2> DEFINE d == [call[h] EXCEPT !.pc = to, !.reply = reply, !.seen = seen, !.body = body]
  <2>1. call' = [call EXCEPT ![h] = d] /\ call[h].pc = from
    BY <1>8 DEF Step
  <2>2. DOMAIN d = Fields /\ d.pc = to /\ d.key = call[h].key
    BY <1>0 DEF Fields
  <2> HIDE DEF d
  <2>3. to = "land" => call[h].key \in Batch
    BY <1>0, <1>8, <2>1 DEF Sound, Flying
  <2>4. OwnStep(h, d)
    BY <1>8, <2>1, <2>2, <2>3 DEF OwnStep, Sound, Flying
  <2> QED BY <2>4, OwnStepKeeps
<1>9. CASE Fetch(h)
  BY <1>8, <1>9 DEF Fetch, Exchange
<1>10. CASE TableFetch(h)
  BY <1>8, <1>10 DEF TableFetch, Exchange
<1>11. ASSUME NEW out, call' = [call EXCEPT ![h] = Closing(call[h], out)],
              call[h].pc = "land", UNCHANGED inflight
       PROVE  FlightInv'
  <2> DEFINE d == Closing(call[h], out)
  <2>1. DOMAIN d = Fields /\ d.pc = "close" /\ d.key = call[h].key
    BY DEF Closing, NewCall, Fields
  <2>2. call[h].key \in Batch
    BY <1>0, <1>11 DEF Sound, Flying
  <2> HIDE DEF d
  <2>3. OwnStep(h, d)
    BY <1>11, <2>1, <2>2 DEF d, OwnStep, Sound, Flying
  <2> QED BY <2>3, OwnStepKeeps
<1>12. CASE LandFull(h)
  BY <1>11, <1>12 DEF LandFull
<1>13. CASE LandSame(h)
  BY <1>11, <1>13 DEF LandSame
<1>14. CASE LandFails(h)
  BY <1>11, <1>14 DEF LandFails
<1>15. CASE Finish(h)
  BY <1>15, FinishStep
<1>16. CASE TableLand(h)
  <2>1. CASE Step(h, "table land", Refused)
    BY <1>16, <2>1, NewCallSound, OwnStepKeeps DEF TableLand, Refused, Step, OwnStep, Flying
  <2>2. ASSUME NEW out, Step(h, "table land", Answering(out)) PROVE FlightInv'
    BY <1>6, <1>16, <2>2 DEF TableLand
  <2> QED BY <1>16, <2>1, <2>2 DEF TableLand
<1> QED BY <1>1, <1>2, <1>3, <1>4, <1>5, <1>7, <1>9, <1>10, <1>12, <1>13, <1>14, <1>15, <1>16
        DEF Proceed, Land

\* Every step keeps the flights.
LEMMA FlightStep == FlightInv /\ [Next]_vars => FlightInv'
<1> SUFFICES ASSUME FlightInv, [Next]_vars PROVE FlightInv'
  OBVIOUS
<1>1. ASSUME NEW h \in Call, NEW ids \in Batch, Members(h, ids)
      PROVE  FlightInv'
  BY <1>1, CollectStep DEF Members
<1>2. ASSUME NEW h \in Call, NEW m \in Member, LookUp(h, m)
      PROVE  FlightInv'
  <2> DEFINE hit  == Answering(Cached({m}))
             miss == [call[h] EXCEPT !.pc = "collect", !.ids = {m}]
  <2>1. /\ call[h].pc = "idle" /\ UNCHANGED inflight
        /\ \E d \in {hit, miss} : call' = [call EXCEPT ![h] = d]
    BY <1>2 DEF LookUp, Step
  <2>2. Sound(hit) /\ hit.pc = "return"
    BY DEF Answering, NewCall, Sound, Fields, Flying
  <2>3. DOMAIN call[h] = Fields
    BY DEF FlightInv, Sound
  <2>4. DOMAIN miss = Fields /\ miss.pc = "collect" /\ miss.ids = {m} /\ {m} \in Batch
    <3>1. {m} \in Batch
      BY DEF Batch
    <3> QED BY <2>3, <3>1 DEF Fields
  <2> HIDE DEF hit, miss
  <2>5. Sound(miss)
    BY <2>4 DEF Sound, Flying
  <2>6. \E d : OwnStep(h, d)
    BY <2>1, <2>2, <2>4, <2>5 DEF OwnStep, Flying
  <2> QED BY <2>6, OwnStepKeeps
<1>3. ASSUME NEW h \in Call, NEW t \in Table, ReadTable(h, t)
      PROVE  FlightInv'
  <2> DEFINE hit  == Answering([x \in {t} |-> Of(tables[t], "hit")])
             miss == [call[h] EXCEPT !.pc = "table fetch", !.ids = {t}, !.prev = tables[t]]
  <2>1. /\ call[h].pc = "idle" /\ UNCHANGED inflight
        /\ \E d \in {hit, miss} : call' = [call EXCEPT ![h] = d]
    BY <1>3 DEF ReadTable, Step
  <2>2. Sound(hit) /\ hit.pc = "return"
    BY DEF Answering, NewCall, Sound, Fields, Flying
  <2>3. DOMAIN call[h] = Fields
    BY DEF FlightInv, Sound
  <2>4. DOMAIN miss = Fields /\ miss.pc = "table fetch"
    BY <2>3 DEF Fields
  <2> HIDE DEF hit, miss
  <2>5. \E d : OwnStep(h, d)
    BY <2>1, <2>2, <2>4 DEF OwnStep, Flying, Sound
  <2> QED BY <2>5, OwnStepKeeps
<1>4. ASSUME NEW h \in Call, Proceed(h) \/ WaitCancelled(h)
      PROVE  FlightInv'
  BY <1>4, ProceedStep
<1>5. ASSUME UNCHANGED <<call, inflight>> PROVE FlightInv'
  BY <1>5 DEF FlightInv, OneFlight, Sound
<1>6. CASE Tick \/ UNCHANGED vars \/ (\E m \in Member : InvalidateMember(m)) \/ \E x \in Thing : Change(x)
  BY <1>5, <1>6 DEF Tick, InvalidateMember, Change, vars
<1> QED BY <1>1, <1>2, <1>3, <1>4, <1>6 DEF Next

\* Nothing is in flight at first.
LEMMA FlightStart == Init => FlightInv
<1> SUFFICES ASSUME Init PROVE FlightInv
  OBVIOUS
<1>1. DOMAIN call = Call /\ \A h \in Call : call[h] = NewCall
  BY DEF Init
<1>2. inflight \in [Batch -> Call \cup {NoCall}] /\ \A b \in Batch : inflight[b] = NoCall
  BY DEF Init
<1> QED BY <1>1, <1>2, NewCallSound DEF FlightInv, OneFlight, Flying

\* The flights hold in every reachable state.
THEOREM FlightsHold == Spec => []FlightInv
BY FlightStart, FlightStep, PTL DEF Spec

\* One flight per batch, and every follower waits for the call that leads it
\* (client.go, fetchMembers and finishFlight).
THEOREM OneFlightPerBatch == Spec => []OneFlight
<1>1. FlightInv => OneFlight
  BY DEF FlightInv
<1> QED BY <1>1, FlightsHold, PTL

-----------------------------------------------------------------------------
(* The cache after an invalidation.                                        *)

\* What a step of call h that caches nothing leaves as it was.
Uncached == UNCHANGED <<version, floor, members>>

\* The answers of the other calls stay; that of h is not yet, or no longer, there.
AnswersElsewhere(h) ==
  /\ \A g \in Call \ {h} : call'[g] = call[g]
  /\ call'[h].pc # "land"

\* A step that caches nothing keeps the invariant.
LEMMA UncachedKeeps ==
  ASSUME CacheInv, FlightInv', Uncached, NEW h \in Call, AnswersElsewhere(h)
  PROVE  CacheInv'
<1>1. VersionsOK' /\ EntriesOK'
  BY DEF CacheInv, VersionsOK, EntriesOK, Uncached
<1>2. AnswersOK'
  BY DEF CacheInv, AnswersOK, AnswersElsewhere, Uncached
<1> QED BY <1>1, <1>2 DEF CacheInv

\* An answer that comes is not older than the floor of anything it names.
LEMMA FetchKeeps ==
  ASSUME CacheInv, FlightInv', NEW h \in Call, Fetch(h)
  PROVE  CacheInv'
<1> DEFINE key == call[h].key
           d(reply, body) == [call[h] EXCEPT !.pc = "land", !.reply = reply,
                                !.seen = Restrict(version, key), !.body = body]
<1>0. DOMAIN call[h] = Fields
  BY DEF CacheInv, FlightInv, Sound
<1>1. /\ \E reply, body : call' = [call EXCEPT ![h] = d(reply, body)]
      /\ Uncached /\ call[h].pc = "fetch"
  BY DEF Fetch, Exchange, Step, Uncached
<1>2. PICK reply, body : call' = [call EXCEPT ![h] = d(reply, body)]
  BY <1>1
<1>3. d(reply, body).key = key /\ d(reply, body).seen = Restrict(version, key)
  BY <1>0 DEF Fields
<1> HIDE DEF d
<1>4. call'[h] = d(reply, body) /\ \A g \in Call \ {h} : call'[g] = call[g]
  BY <1>2 DEF CacheInv, FlightInv
<1>5. key \in SUBSET Member
  BY <1>1 DEF CacheInv, FlightInv, Sound, Batch, Flying
<1>6. \A m \in key : version[m] \in Nat /\ version[m] >= floor[m]
  BY <1>5 DEF CacheInv, VersionsOK, Thing
<1>7. \A m \in key : call'[h].seen[m] = version[m]
  BY <1>3, <1>4 DEF Restrict
<1>8. AnswersOK'
  BY <1>1, <1>3, <1>4, <1>6, <1>7 DEF CacheInv, AnswersOK, Uncached
<1>9. VersionsOK' /\ EntriesOK'
  BY <1>1 DEF CacheInv, VersionsOK, EntriesOK, Uncached
<1> QED BY <1>8, <1>9 DEF CacheInv

\* The call that closes is no longer waiting for an answer.
LEMMA ClosingElsewhere ==
  ASSUME FlightInv, NEW h \in Call, NEW out, call' = [call EXCEPT ![h] = Closing(call[h], out)]
  PROVE  AnswersElsewhere(h)
BY DEF FlightInv, Closing, NewCall, AnswersElsewhere

\* An answer in full is cached with the version it was given at.
LEMMA LandFullKeeps ==
  ASSUME CacheInv, FlightInv', NEW h \in Call, LandFull(h)
  PROVE  CacheInv'
<1> DEFINE c == call[h]
           found == {m \in c.key : c.body[m] # Gone}
<1>1. /\ c.pc = "land" /\ UNCHANGED <<version, floor>>
      /\ members' = [m \in Member |-> IF m \in found THEN Entry(c.body[m], c.seen[m], TRUE) ELSE members[m]]
      /\ \E out : call' = [call EXCEPT ![h] = Closing(c, out)]
  BY DEF LandFull
<1>2. AnswersElsewhere(h)
  BY <1>1, ClosingElsewhere DEF CacheInv
<1>3. ASSUME NEW m \in Member, members'[m] # None
      PROVE  /\ DOMAIN members'[m] = {"is", "fetched", "version", "sure"}
             /\ members'[m].version \in Nat /\ members'[m].version >= floor'[m]
  <2>1. CASE m \in found
    <3>1. members'[m] = Entry(c.body[m], c.seen[m], TRUE)
      BY <1>1, <2>1
    <3>2. c.seen[m] \in Nat /\ c.seen[m] >= floor[m]
      BY <1>1, <2>1 DEF CacheInv, AnswersOK
    <3> QED BY <1>1, <3>1, <3>2 DEF Entry
  <2>2. CASE m \notin found
    <3>1. members'[m] = members[m]
      BY <1>1, <2>2
    <3> QED BY <1>1, <1>3, <3>1 DEF CacheInv, EntriesOK
  <2> QED BY <2>1, <2>2
<1>4. EntriesOK'
  BY <1>1, <1>3 DEF EntriesOK
<1>5. VersionsOK' /\ AnswersOK'
  BY <1>1, <1>2 DEF CacheInv, VersionsOK, AnswersOK, AnswersElsewhere
<1> QED BY <1>4, <1>5 DEF CacheInv

\* A 304 stamps what is cached again, and leaves its version.
LEMMA LandSameKeeps ==
  ASSUME CacheInv, FlightInv', NEW h \in Call, LandSame(h)
  PROVE  CacheInv'
<1> DEFINE c == call[h]
           kept == {m \in c.key : members[m] # None}
           again(m) == [members[m] EXCEPT !.fetched = now, !.sure = members[m].is = c.prev[m]]
<1>1. /\ c.pc = "land" /\ UNCHANGED <<version, floor>>
      /\ members' = [m \in Member |-> IF m \in kept THEN again(m) ELSE members[m]]
      /\ \E out : call' = [call EXCEPT ![h] = Closing(c, out)]
  BY DEF LandSame
<1>2. AnswersElsewhere(h)
  BY <1>1, ClosingElsewhere DEF CacheInv
<1>3. ASSUME NEW m \in Member, members'[m] # None
      PROVE  /\ DOMAIN members'[m] = {"is", "fetched", "version", "sure"}
             /\ members'[m].version \in Nat /\ members'[m].version >= floor'[m]
  <2>1. CASE m \in kept
    <3>1. members'[m] = again(m)
      BY <1>1, <2>1
    <3>2. /\ DOMAIN members[m] = {"is", "fetched", "version", "sure"}
          /\ members[m].version \in Nat /\ members[m].version >= floor[m]
      BY <2>1 DEF CacheInv, EntriesOK
    <3>3. DOMAIN again(m) = DOMAIN members[m] /\ again(m).version = members[m].version
      BY <3>2
    <3> HIDE DEF again
    <3> QED BY <1>1, <3>1, <3>2, <3>3
  <2>2. CASE m \notin kept
    <3>1. members'[m] = members[m]
      BY <1>1, <2>2
    <3> QED BY <1>1, <1>3, <3>1 DEF CacheInv, EntriesOK
  <2> QED BY <2>1, <2>2
<1>4. EntriesOK'
  BY <1>1, <1>3 DEF EntriesOK
<1>5. VersionsOK' /\ AnswersOK'
  BY <1>1, <1>2 DEF CacheInv, VersionsOK, AnswersOK, AnswersElsewhere
<1> QED BY <1>4, <1>5 DEF CacheInv

\* An invalidation drops the entry, and raises the floor only when no answer
\* is on its way.
LEMMA InvalidateKeeps ==
  ASSUME CacheInv, FlightInv', NEW m \in Member, InvalidateMember(m)
  PROVE  CacheInv'
<1>1. /\ members' = [members EXCEPT ![m] = None] /\ UNCHANGED <<version, call>>
      /\ floor' = IF Quiet(m) THEN [floor EXCEPT ![m] = version[m]] ELSE floor
  BY DEF InvalidateMember, Dropped
<1>2. /\ \A x \in Member \ {m} : floor'[x] = floor[x] /\ members'[x] = members[x]
      /\ members'[m] = None /\ DOMAIN members' = Member
      /\ floor'[m] = IF Quiet(m) THEN version[m] ELSE floor[m]
      /\ floor' \in [Member -> Nat]
  BY <1>1 DEF CacheInv, VersionsOK, EntriesOK, Thing
<1>3. VersionsOK'
  <2>1. \A x \in Member : version[x] \in Nat /\ floor[x] \in Nat
    BY DEF CacheInv, VersionsOK, Thing
  <2> QED BY <1>1, <1>2, <2>1 DEF CacheInv, VersionsOK
<1>4. EntriesOK'
  BY <1>2 DEF CacheInv, EntriesOK
<1>5. ASSUME NEW g \in Call, call[g].pc = "land", NEW x \in call[g].key
      PROVE  call[g].seen[x] \in Nat /\ call[g].seen[x] >= floor'[x]
  <2>1. x \in Member
    BY <1>5 DEF CacheInv, FlightInv, Sound, Batch, Flying
  <2>2. floor'[x] = floor[x]
    BY <1>2, <1>5, <2>1 DEF Quiet
  <2> QED BY <1>5, <2>2 DEF CacheInv, AnswersOK
<1>6. AnswersOK'
  BY <1>1, <1>5 DEF AnswersOK
<1> QED BY <1>3, <1>4, <1>6 DEF CacheInv

\* Every step keeps the invariant.
LEMMA CacheStep == CacheInv /\ [Next]_vars => CacheInv'
<1> SUFFICES ASSUME CacheInv, [Next]_vars PROVE CacheInv'
  OBVIOUS
<1>0. FlightInv' /\ DOMAIN call = Call
  BY FlightStep DEF CacheInv, FlightInv
<1>1. ASSUME NEW h \in Call, NEW d, d.pc # "land", call' = [call EXCEPT ![h] = d], Uncached
      PROVE  CacheInv'
  BY <1>0, <1>1, UncachedKeeps DEF AnswersElsewhere
<1>2. ASSUME NEW h \in Call, NEW ids, NEW from, Collect(h, from, ids)
      PROVE  CacheInv'
  <2> DEFINE hit  == Answering(Cached(ids))
             miss == [call[h] EXCEPT !.pc = "acquire", !.ids = ids, !.key = Pending(ids), !.out = Cached(ids)]
  <2>1. \E d \in {hit, miss} : call' = [call EXCEPT ![h] = d]
    BY <1>2 DEF Collect, Step
  <2>2. hit.pc # "land" /\ miss.pc # "land"
    BY DEF Answering, NewCall, CacheInv, FlightInv, Sound, Fields
  <2> HIDE DEF hit, miss
  <2> QED BY <1>1, <1>2, <2>1, <2>2 DEF Collect, Uncached
<1>3. ASSUME NEW h \in Call, NEW ids \in Batch, Members(h, ids)
      PROVE  CacheInv'
  BY <1>2, <1>3 DEF Members
<1>4. ASSUME NEW h \in Call, NEW m \in Member, LookUp(h, m)
      PROVE  CacheInv'
  <2> DEFINE hit  == Answering(Cached({m}))
             miss == [call[h] EXCEPT !.pc = "collect", !.ids = {m}]
  <2>1. \E d \in {hit, miss} : call' = [call EXCEPT ![h] = d]
    BY <1>4 DEF LookUp, Step
  <2>2. hit.pc # "land" /\ miss.pc # "land"
    BY DEF Answering, NewCall, CacheInv, FlightInv, Sound, Fields
  <2> HIDE DEF hit, miss
  <2> QED BY <1>1, <1>4, <2>1, <2>2 DEF LookUp, Uncached
<1>5. ASSUME NEW h \in Call, NEW t \in Table, ReadTable(h, t)
      PROVE  CacheInv'
  <2> DEFINE hit  == Answering([x \in {t} |-> Of(tables[t], "hit")])
             miss == [call[h] EXCEPT !.pc = "table fetch", !.ids = {t}, !.prev = tables[t]]
  <2>1. \E d \in {hit, miss} : call' = [call EXCEPT ![h] = d]
    BY <1>5 DEF ReadTable, Step
  <2>2. hit.pc # "land" /\ miss.pc # "land"
    BY DEF Answering, NewCall, CacheInv, FlightInv, Sound, Fields
  <2> HIDE DEF hit, miss
  <2> QED BY <1>1, <1>5, <2>1, <2>2 DEF ReadTable, Uncached
<1>6. ASSUME NEW h \in Call, Proceed(h) \/ WaitCancelled(h)
      PROVE  CacheInv'
  <2>0. DOMAIN call[h] = Fields
    BY DEF CacheInv, FlightInv, Sound
  <2>1. CASE CollectMissed(h)
    BY <1>2, <2>1 DEF CollectMissed
  <2>2. CASE Return(h) \/ WaitCancelled(h)
    BY <1>1, <2>2 DEF Return, WaitCancelled, Refused, Step, NewCall, Uncached
  <2>3. CASE Lead(h)
    <3> DEFINE d == [call[h] EXCEPT !.pc = "fetch", !.prev = batchETags[call[h].key]]
    <3>1. d.pc # "land"
      BY <2>0 DEF Fields
    <3>2. call' = [call EXCEPT ![h] = d] /\ Uncached
      BY <2>3 DEF Lead, Step, Uncached
    <3> HIDE DEF d
    <3> QED BY <1>1, <3>1, <3>2
  <2>4. CASE Follow(h)
    <3> DEFINE d == [call[h] EXCEPT !.pc = "wait", !.on = inflight[call[h].key]]
    <3>1. d.pc # "land"
      BY <2>0 DEF Fields
    <3>2. call' = [call EXCEPT ![h] = d] /\ Uncached
      BY <2>4 DEF Follow, Step, Uncached
    <3> HIDE DEF d
    <3> QED BY <1>1, <3>1, <3>2
  <2>5. \A out : Answering(out).pc # "land"
    BY DEF Answering, NewCall
  <2>6. CASE Reread(h)
    BY <1>1, <2>5, <2>6 DEF Reread, Step, Uncached
  <2>7. CASE Fetch(h)
    BY <1>0, <2>7, FetchKeeps
  <2>8. CASE LandFull(h) \/ LandSame(h)
    BY <1>0, <2>8, LandFullKeeps, LandSameKeeps
  <2>9. CASE LandFails(h)
    <3>1. AnswersElsewhere(h)
      BY <2>9, ClosingElsewhere DEF LandFails, CacheInv
    <3> QED BY <1>0, <2>9, <3>1, UncachedKeeps DEF LandFails, Uncached
  <2>10. CASE Finish(h)
    <3>1. /\ call'[h] = NewCall /\ Uncached
          /\ \A w \in Call \ {h} : \/ call'[w] = call[w]
                                   \/ call'[w] = [call[w] EXCEPT !.pc = "reread", !.on = NoCall]
      BY <2>10 DEF Finish, Uncached
    <3>2. ASSUME NEW w \in Call, call'[w].pc = "land" PROVE call'[w] = call[w]
      <4>1. DOMAIN call[w] = Fields
        BY DEF CacheInv, FlightInv, Sound
      <4>2. [call[w] EXCEPT !.pc = "reread", !.on = NoCall].pc = "reread"
        BY <4>1 DEF Fields
      <4>3. NewCall.pc = "idle"
        BY DEF NewCall
      <4> QED BY <3>1, <3>2, <4>2, <4>3
    <3>3. AnswersOK'
      BY <3>1, <3>2 DEF CacheInv, AnswersOK, Uncached
    <3> QED BY <1>0, <3>1, <3>3 DEF CacheInv, VersionsOK, EntriesOK, Uncached
  <2>11. CASE TableFetch(h)
    <3>1. PICK reply, body, seen :
            call' = [call EXCEPT ![h] = [call[h] EXCEPT !.pc = "table land", !.reply = reply,
                                                        !.seen = seen, !.body = body]]
      BY <2>11 DEF TableFetch, Exchange, Step
    <3> DEFINE d == [call[h] EXCEPT !.pc = "table land", !.reply = reply, !.seen = seen, !.body = body]
    <3>2. d.pc # "land"
      BY <2>0 DEF Fields
    <3>3. call' = [call EXCEPT ![h] = d] /\ Uncached
      BY <2>11, <3>1 DEF TableFetch, Exchange, Uncached
    <3> HIDE DEF d
    <3> QED BY <1>1, <3>2, <3>3
  <2>12. CASE TableLand(h)
    <3>1. \E d : d.pc # "land" /\ call' = [call EXCEPT ![h] = d]
      <4>1. Refused.pc # "land"
        BY DEF Refused, NewCall
      <4> QED BY <2>5, <2>12, <4>1 DEF TableLand, Step
    <3> QED BY <1>1, <2>12, <3>1 DEF TableLand, Uncached
  <2> QED BY <1>6, <2>1, <2>2, <2>3, <2>4, <2>6, <2>7, <2>8, <2>9, <2>10, <2>11, <2>12
          DEF Proceed, Land
<1>7. ASSUME NEW m \in Member, InvalidateMember(m)
      PROVE  CacheInv'
  BY <1>0, <1>7, InvalidateKeeps
<1>8. ASSUME NEW x \in Thing, Change(x)
      PROVE  CacheInv'
  <2>1. version' = [version EXCEPT ![x] = @ + 1] /\ UNCHANGED <<members, call, floor>>
    BY <1>8 DEF Change
  <2>2. version' \in [Thing -> Nat]
    BY <2>1 DEF CacheInv, VersionsOK
  <2>3. \A m \in Member : version[m] \in Nat /\ version'[m] \in Nat /\ version'[m] >= version[m]
    BY <2>1, <2>2 DEF CacheInv, VersionsOK, Thing
  <2>4. VersionsOK'
    BY <2>1, <2>2, <2>3 DEF CacheInv, VersionsOK
  <2> QED BY <1>0, <2>1, <2>4 DEF CacheInv, EntriesOK, AnswersOK
<1>9. CASE Tick \/ UNCHANGED vars
  <2>1. UNCHANGED <<version, members, call, floor>>
    BY <1>9 DEF Tick, vars
  <2> QED BY <1>0, <2>1 DEF CacheInv, VersionsOK, EntriesOK, AnswersOK
<1> QED BY <1>3, <1>4, <1>5, <1>6, <1>7, <1>8, <1>9 DEF Next

LEMMA CacheStart == Init => CacheInv
<1> SUFFICES ASSUME Init PROVE CacheInv
  OBVIOUS
<1>1. FlightInv
  BY FlightStart
<1>2. VersionsOK
  BY DEF Init, VersionsOK, Thing
<1>3. EntriesOK
  BY DEF Init, EntriesOK
<1>4. AnswersOK
  BY NewCallSound DEF Init, AnswersOK
<1> QED BY <1>1, <1>2, <1>3, <1>4 DEF CacheInv

\* Once a member has been invalidated and no answer about it was on its way,
\* nothing older than the invalidation is cached (client.go, InvalidateMember).
THEOREM InvalidationIsHeard == Spec => []InvalidationHeard
<1>1. CacheInv => InvalidationHeard
  BY DEF CacheInv, EntriesOK, InvalidationHeard
<1> QED BY <1>1, CacheStart, CacheStep, PTL DEF Spec

-----------------------------------------------------------------------------
(* How old an answer may be.                                               *)

Said == Content \cup {Gone}

\* When each thing was last as it is said to be.
Known == [x \in Thing |-> [c \in Said |-> LastTrue(x, c)]]

\* The clock, and what the provider says and has said.
ClockOK ==
  /\ now \in Nat \ {0}
  /\ DOMAIN directory = Thing /\ \A x \in Thing : directory[x] \in Said
  /\ \A t \in Table : directory[t] \in Content
  /\ left \in [Thing -> [Said -> Nat]]
  /\ \A x \in Thing, c \in Said : left[x][c] <= now

\* What an answer says of x, when k tells what was last true when.
ItemOK(x, i, k) ==
  /\ x \in Thing /\ i.is \in Said /\ i.at \in Nat
  /\ i.by # "shared" /\ i.sure => k[x][i.is] # 0 /\ i.at - k[x][i.is] <= Limit(x, i)

OutOK(out, k) == \A x \in DOMAIN out : ItemOK(x, out[x], k)

\* What is cached of x: if it was confirmed, it was true at its stamp or later.
EntryOK(x, e, k) ==
  /\ DOMAIN e = {"is", "fetched", "version", "sure"}
  /\ e.is \in Content /\ e.fetched \in Nat \ {0}
  /\ e.sure => k[x][e.is] >= e.fetched

StoreOK(entries, until, whole, k) ==
  /\ \A m \in Member : entries[m] # None => EntryOK(m, entries[m], k)
  /\ \A m \in Member : /\ until[m] \in Nat
                       /\ until[m] # 0 => k[m][Gone] # 0 /\ until[m] <= k[m][Gone] + NegativeTTL
  /\ \A t \in Table : whole[t] # None => EntryOK(t, whole[t], k)

\* What a call has at hand at the instant n: an answer that has just come is
\* true, and what it says of a table rests on the entry that was read before.
AnswerOK(c, n, k) ==
  /\ OutOK(c.out, k)
  /\ c.pc = "land" /\ c.reply = "full" => \A m \in c.key : c.body[m] \in Said /\ k[m][c.body[m]] >= n
  /\ c.pc = "land" /\ c.reply = "same" => \A m \in c.key : c.prev[m] \in Said /\ k[m][c.prev[m]] >= n
  /\ c.pc \in {"table fetch", "table land"} =>
       \E t \in Table :
         /\ c.ids = {t} /\ (c.prev # None => EntryOK(t, c.prev, k))
         /\ c.pc = "table land" /\ c.reply = "full" => c.body \in Content /\ k[t][c.body] >= n
         /\ c.pc = "table land" /\ c.reply = "same" => c.prev # None /\ k[t][c.prev.is] >= n

FreshInv ==
  /\ CacheInv /\ ClockOK
  /\ DOMAIN negatives = Member /\ DOMAIN tables = Table
  /\ StoreOK(members, negatives, tables, Known)
  /\ \A h \in Call : AnswerOK(call[h], now, Known)

\* What k tells, l tells of later instants.
Tells == [Thing -> [Said -> Nat]]
Grows(k, l) == k \in Tells /\ l \in Tells /\ \A x \in Thing, c \in Said : k[x][c] <= l[x][c]

LEMMA NoAge == \A n, m \in Nat : n - n <= m
  OBVIOUS

LEMMA LimitIsNat == \A x, i : Limit(x, i) \in Nat
  BY DEF Limit

\* What has been confirmed stays as recent as it was.
LEMMA GrownItem ==
  ASSUME NEW k, NEW l, Grows(k, l), NEW x, NEW i, ItemOK(x, i, k)
  PROVE  ItemOK(x, i, l)
<1>1. x \in Thing /\ i.is \in Said /\ i.at \in Nat /\ Limit(x, i) \in Nat
  BY LimitIsNat DEF ItemOK
<1>2. k[x][i.is] \in Nat /\ l[x][i.is] \in Nat /\ k[x][i.is] <= l[x][i.is]
  BY <1>1 DEF Grows, Tells
<1> HIDE DEF Limit
<1> QED BY <1>1, <1>2 DEF ItemOK

LEMMA GrownOut ==
  ASSUME NEW k, NEW l, Grows(k, l), NEW out, OutOK(out, k)
  PROVE  OutOK(out, l)
  BY GrownItem DEF OutOK

LEMMA GrownEntry ==
  ASSUME NEW k, NEW l, Grows(k, l), NEW x \in Thing, NEW e, EntryOK(x, e, k)
  PROVE  EntryOK(x, e, l)
<1>1. k[x][e.is] \in Nat /\ l[x][e.is] \in Nat /\ k[x][e.is] <= l[x][e.is]
  BY DEF EntryOK, Grows, Tells, Said
<1> QED BY <1>1 DEF EntryOK

LEMMA GrownStore ==
  ASSUME NEW k, NEW l, Grows(k, l), NEW entries, NEW until, NEW whole, StoreOK(entries, until, whole, k)
  PROVE  StoreOK(entries, until, whole, l)
<1>1. \A m \in Member : k[m][Gone] \in Nat /\ l[m][Gone] \in Nat /\ k[m][Gone] <= l[m][Gone]
  BY DEF Grows, Tells, Said, Thing
<1>2. ASSUME NEW m \in Member
      PROVE  until[m] \in Nat /\ (until[m] # 0 => l[m][Gone] # 0 /\ until[m] <= l[m][Gone] + NegativeTTL)
  BY <1>1 DEF StoreOK
<1> QED BY <1>2, GrownEntry DEF StoreOK, Thing

\* A call that waits for the provider at no instant but this one.
LEMMA GrownAnswer ==
  ASSUME NEW k, NEW l, Grows(k, l), NEW c, NEW n \in Nat, NEW o \in Nat, AnswerOK(c, n, k),
         c.pc = "land" => c.key \subseteq Member,
         c.pc \in {"land", "table land"} => n = o
  PROVE  AnswerOK(c, o, l)
<1>1. OutOK(c.out, l)
  BY GrownOut DEF AnswerOK
<1>2. ASSUME c.pc = "land", NEW m \in c.key, NEW s \in Said, k[m][s] >= n
      PROVE  l[m][s] >= o
  <2>1. m \in Thing /\ n = o
    BY <1>2 DEF Thing
  <2>2. k[m][s] \in Nat /\ l[m][s] \in Nat /\ k[m][s] <= l[m][s]
    BY <2>1 DEF Grows, Tells
  <2> QED BY <1>2, <2>1, <2>2
<1>3. ASSUME NEW t \in Table, NEW s \in Said, k[t][s] >= n, n = o
      PROVE  l[t][s] >= o
  <2>1. k[t][s] \in Nat /\ l[t][s] \in Nat /\ k[t][s] <= l[t][s]
    BY DEF Grows, Tells, Thing
  <2> QED BY <1>3, <2>1
<1>4. ASSUME c.pc \in {"table fetch", "table land"}
      PROVE  \E t \in Table :
               /\ c.ids = {t} /\ (c.prev # None => EntryOK(t, c.prev, l))
               /\ c.pc = "table land" /\ c.reply = "full" => c.body \in Content /\ l[t][c.body] >= o
               /\ c.pc = "table land" /\ c.reply = "same" => c.prev # None /\ l[t][c.prev.is] >= o
  <2>1. PICK t \in Table :
          /\ c.ids = {t} /\ (c.prev # None => EntryOK(t, c.prev, k))
          /\ c.pc = "table land" /\ c.reply = "full" => c.body \in Content /\ k[t][c.body] >= n
          /\ c.pc = "table land" /\ c.reply = "same" => c.prev # None /\ k[t][c.prev.is] >= n
    BY <1>4 DEF AnswerOK
  <2>2. c.prev # None => EntryOK(t, c.prev, l) /\ c.prev.is \in Said
    BY <2>1, GrownEntry DEF Thing, EntryOK, Said
  <2>3. c.pc = "table land" /\ c.reply = "full" => c.body \in Content /\ l[t][c.body] >= o
    BY <1>3, <2>1 DEF Said
  <2>4. c.pc = "table land" /\ c.reply = "same" => c.prev # None /\ l[t][c.prev.is] >= o
    BY <1>3, <2>1, <2>2
  <2> QED BY <2>1, <2>2, <2>3, <2>4
<1> QED BY <1>1, <1>2, <1>4 DEF AnswerOK

\* What is known is a time for everything, and none that is to come.
LEMMA KnownTyped ==
  ASSUME ClockOK
  PROVE  /\ Known \in Tells
         /\ \A x \in Thing, c \in Said : Known[x][c] = LastTrue(x, c) /\ Known[x][c] <= now
         /\ \A x \in Thing : directory[x] \in Said /\ Known[x][directory[x]] = now
<1>1. \A x \in Thing, c \in Said : LastTrue(x, c) \in Nat /\ LastTrue(x, c) <= now
  BY DEF ClockOK, LastTrue
<1>2. \A x \in Thing, c \in Said : Known[x][c] = LastTrue(x, c)
  BY DEF Known
<1>3. Known \in Tells
  BY <1>1 DEF Known, Tells
<1>4. \A x \in Thing : directory[x] \in Said /\ LastTrue(x, directory[x]) = now
  BY DEF ClockOK, LastTrue
<1> QED BY <1>1, <1>2, <1>3, <1>4

LEMMA KnownNext ==
  ASSUME ClockOK'
  PROVE  Known' \in Tells /\ \A x \in Thing, c \in Said : Known'[x][c] = LastTrue(x, c)'
<1>1. \A x \in Thing, c \in Said : LastTrue(x, c)' \in Nat
  BY DEF ClockOK, LastTrue
<1> QED BY <1>1 DEF Known, Tells

\* A step that leaves the provider and the clock alone.
LEMMA SameKnown ==
  ASSUME FreshInv, UNCHANGED <<now, remoteVars>>
  PROVE  ClockOK' /\ Known' = Known /\ Known \in Tells
<1>1. ClockOK'
  BY DEF FreshInv, ClockOK
<1>2. Known' = Known
  BY DEF Known, LastTrue
<1> QED BY <1>1, <1>2, KnownTyped DEF FreshInv

-----------------------------------------------------------------------------
(* The steps of a call, as far as the age of its answer goes.              *)

\* A step that writes one record.
LEMMA OneAnswer ==
  ASSUME FreshInv, CacheInv', UNCHANGED <<now, remoteVars>>,
         NEW h \in Call, NEW d, call' = [call EXCEPT ![h] = d], AnswerOK(d, now, Known),
         DOMAIN negatives' = Member, DOMAIN tables' = Table,
         StoreOK(members', negatives', tables', Known)
  PROVE  FreshInv'
<1>1. \A g \in Call : call'[g] = IF g = h THEN d ELSE call[g]
  BY DEF FreshInv, CacheInv, FlightInv
<1>2. \A g \in Call : AnswerOK(call'[g], now', Known')
  BY <1>1, SameKnown DEF FreshInv
<1> QED BY <1>2, SameKnown DEF FreshInv

\* ... and caches nothing.
LEMMA AnswerOnly ==
  ASSUME FreshInv, CacheInv', UNCHANGED <<now, remoteVars, members, negatives, tables>>,
         NEW h \in Call, NEW d, call' = [call EXCEPT ![h] = d], AnswerOK(d, now, Known)
  PROVE  FreshInv'
<1>1. DOMAIN negatives' = Member /\ DOMAIN tables' = Table
  BY DEF FreshInv
<1>2. StoreOK(members', negatives', tables', Known)
  BY DEF FreshInv
<1> QED BY <1>1, <1>2, OneAnswer

\* Where a call awaits nothing, only what it says matters.
LEMMA PlainAnswer ==
  ASSUME NEW c, NEW n, NEW k, OutOK(c.out, k), c.pc \notin {"land", "table fetch", "table land"}
  PROVE  AnswerOK(c, n, k)
  BY DEF AnswerOK

\* The records that hold an answer, and the one that holds none.
LEMMA AnswerRecords ==
  ASSUME NEW out, NEW k, NEW n, OutOK(out, k)
  PROVE  /\ AnswerOK(Answering(out), n, k) /\ AnswerOK(NewCall, n, k)
         /\ \A c : AnswerOK(Closing(c, out), n, k)
<1>1. Answering(out).pc = "return" /\ Answering(out).out = out
  BY DEF Answering, NewCall
<1>2. NewCall.pc = "idle" /\ OutOK(NewCall.out, k)
  BY DEF NewCall, OutOK
<1>3. \A c : Closing(c, out).pc = "close" /\ Closing(c, out).out = out
  BY DEF Closing, NewCall
<1> QED BY <1>1, <1>2, <1>3, PlainAnswer

\* What an entry says, and how it is said.
LEMMA ItemOfEntry ==
  ASSUME FreshInv, NEW x \in Thing, NEW e, EntryOK(x, e, Known), NEW by,
         \/ by = "shared"
         \/ by = "stale" /\ now - e.fetched <= StaleOnError
         \/ by \in {"hit", "fetched"} /\ x \in Member /\ now - e.fetched <= MemberTTL
         \/ by \in {"hit", "fetched"} /\ x \in Table /\ now - e.fetched <= TableTTL
  PROVE  ItemOK(x, Of(e, by), Known)
<1>1. PICK i : i = Of(e, by)
  OBVIOUS
<1>2. i.is = e.is /\ i.by = by /\ i.sure = e.sure /\ i.at = now
  BY <1>1 DEF Of, Item
<1>3. e.is \in Content /\ e.is # Gone /\ e.is \in Said /\ e.fetched \in Nat \ {0} /\ now \in Nat
  BY DEF EntryOK, Said, FreshInv, ClockOK
<1>4. Known[x][e.is] \in Nat
  BY <1>3, KnownTyped DEF FreshInv, Tells
<1>5. by # "shared" => now - e.fetched <= Limit(x, i) /\ Limit(x, i) \in Nat
  BY <1>2, <1>3 DEF Limit
<1>6. i.sure => Known[x][i.is] >= e.fetched
  BY <1>2 DEF EntryOK
<1>7. ItemOK(x, i, Known)
  BY <1>2, <1>3, <1>4, <1>5, <1>6 DEF ItemOK
<1> QED BY <1>1, <1>7

\* What has just been confirmed.
LEMMA ItemOfNews ==
  ASSUME FreshInv, NEW x \in Thing, NEW s \in Said, Known[x][s] >= now
  PROVE  ItemOK(x, Item(s, "fetched", TRUE), Known)
<1>1. PICK i : i = Item(s, "fetched", TRUE)
  OBVIOUS
<1>2. i.is = s /\ i.at = now /\ now \in Nat \ {0} /\ Known[x][s] \in Nat
  BY <1>1, KnownTyped DEF Item, FreshInv, ClockOK, Tells
<1>3. Limit(x, i) \in Nat
  BY LimitIsNat
<1>4. Known[x][i.is] # 0 /\ i.at - Known[x][i.is] <= Limit(x, i)
  <2> HIDE DEF Limit
  <2> QED BY <1>2, <1>3
<1> QED BY <1>1, <1>2, <1>4 DEF ItemOK

\* What is cached of a batch, and what is dropped of it.
LEMMA CachedOK ==
  ASSUME FreshInv, NEW ids \in SUBSET Member
  PROVE  OutOK(Cached(ids), Known)
<1> SUFFICES ASSUME NEW m \in DOMAIN Cached(ids) PROVE ItemOK(m, Cached(ids)[m], Known)
  BY DEF OutOK
<1>1. m \in ids /\ m \in Member /\ m \in Thing
  BY DEF Cached, Hits, Thing
<1>2. CASE Negative(m)
  <2>1. PICK i : i = Item(Gone, "hit", TRUE)
    OBVIOUS
  <2>2. Cached(ids)[m] = i
    BY <1>1, <1>2, <2>1 DEF Cached
  <2>3. i.is = Gone /\ i.at = now /\ i.by = "hit" /\ Gone \in Said
    BY <2>1 DEF Item, Said
  <2>4. Limit(m, i) = NegativeTTL
    BY <2>3 DEF Limit
  <2>5. /\ Known[m][Gone] # 0 /\ negatives[m] <= Known[m][Gone] + NegativeTTL
        /\ Known[m][Gone] \in Nat /\ now \in Nat /\ negatives[m] \in Nat
    BY <1>1, <1>2, <2>3, KnownTyped DEF Negative, FreshInv, StoreOK, ClockOK, Tells
  <2>6. now - Known[m][Gone] <= NegativeTTL
    BY <1>2, <2>5 DEF Negative
  <2> QED BY <1>1, <2>2, <2>3, <2>4, <2>5, <2>6 DEF ItemOK
<1>3. CASE ~Negative(m)
  <2>1. Fresh(m) /\ Cached(ids)[m] = Of(members[m], "hit")
    BY <1>3 DEF Cached, Hits
  <2>2. members[m] # None /\ now - members[m].fetched < MemberTTL
    BY <2>1 DEF Fresh
  <2>3. EntryOK(m, members[m], Known) /\ members[m].fetched \in Nat /\ now \in Nat
    BY <1>1, <2>2 DEF FreshInv, StoreOK, EntryOK, ClockOK
  <2>4. now - members[m].fetched <= MemberTTL
    BY <2>2, <2>3
  <2> QED BY <1>1, <2>1, <2>3, <2>4, ItemOfEntry
<1> QED BY <1>2, <1>3

LEMMA ExpireOK ==
  ASSUME FreshInv, NEW ids, Expire(ids), UNCHANGED <<members, tables>>
  PROVE  /\ DOMAIN negatives' = Member /\ DOMAIN tables' = Table
         /\ StoreOK(members', negatives', tables', Known)
<1>1. DOMAIN negatives' = Member /\ \A m \in Member : negatives'[m] \in {0, negatives[m]}
  BY DEF Expire
<1> QED BY <1>1 DEF FreshInv, StoreOK

LEMMA FreshCollect ==
  ASSUME FreshInv, CacheInv', NEW h \in Call, NEW ids \in Batch, NEW from \in {"idle", "collect"},
         Collect(h, from, ids)
  PROVE  FreshInv'
<1> DEFINE hit  == Answering(Cached(ids))
           miss == [call[h] EXCEPT !.pc = "acquire", !.ids = ids, !.key = Pending(ids), !.out = Cached(ids)]
<1>1. \E d \in {hit, miss} : call' = [call EXCEPT ![h] = d]
  BY DEF Collect, Step
<1>2. OutOK(Cached(ids), Known)
  BY CachedOK DEF Batch
<1>3. AnswerOK(hit, now, Known)
  BY <1>2, AnswerRecords
<1>4. AnswerOK(miss, now, Known)
  <2>1. miss.pc = "acquire" /\ miss.out = Cached(ids)
    BY DEF FreshInv, CacheInv, FlightInv, Sound, Fields
  <2> HIDE DEF miss
  <2> QED BY <1>2, <2>1, PlainAnswer
<1>5. /\ DOMAIN negatives' = Member /\ DOMAIN tables' = Table
      /\ StoreOK(members', negatives', tables', Known)
  BY ExpireOK DEF Collect
<1> HIDE DEF hit, miss
<1> QED BY <1>1, <1>3, <1>4, <1>5, OneAnswer DEF Collect

LEMMA FreshLookUp ==
  ASSUME FreshInv, CacheInv', NEW h \in Call, NEW m \in Member, LookUp(h, m)
  PROVE  FreshInv'
<1> DEFINE hit  == Answering(Cached({m}))
           miss == [call[h] EXCEPT !.pc = "collect", !.ids = {m}]
<1>1. \E d \in {hit, miss} : call' = [call EXCEPT ![h] = d]
  BY DEF LookUp, Step
<1>2. OutOK(Cached({m}), Known)
  BY CachedOK
<1>3. AnswerOK(hit, now, Known)
  BY <1>2, AnswerRecords
<1>4. AnswerOK(miss, now, Known)
  <2>1. miss.pc = "collect" /\ miss.out = call[h].out
    BY DEF FreshInv, CacheInv, FlightInv, Sound, Fields
  <2> HIDE DEF miss
  <2> QED BY <2>1, PlainAnswer DEF FreshInv, AnswerOK
<1>5. /\ DOMAIN negatives' = Member /\ DOMAIN tables' = Table
      /\ StoreOK(members', negatives', tables', Known)
  BY ExpireOK DEF LookUp
<1> HIDE DEF hit, miss
<1> QED BY <1>1, <1>3, <1>4, <1>5, OneAnswer DEF LookUp

\* What a call keeps of its answer while it waits.
LEMMA StillSays == FreshInv => \A h \in Call : OutOK(call[h].out, Known)
  BY DEF FreshInv, AnswerOK

\* The answer of the provider is what it says now.
LEMMA FreshFetch ==
  ASSUME FreshInv, CacheInv', NEW h \in Call, Fetch(h)
  PROVE  FreshInv'
<1> DEFINE key  == call[h].key
           body == Restrict(directory, key)
           seen == Restrict(version, key)
<1>0. DOMAIN call[h] = Fields /\ call[h].pc = "fetch" /\ key \in SUBSET Member
  BY DEF FreshInv, CacheInv, FlightInv, Sound, Flying, Fetch, Exchange, Step, Batch
<1>1. PICK reply \in Replies(call[h].prev, body) :
        call' = [call EXCEPT ![h] = [call[h] EXCEPT !.pc = "land", !.reply = reply, !.seen = seen,
                                       !.body = IF reply = "full" THEN body ELSE None]]
  BY DEF Fetch, Exchange, Step
<1> DEFINE d == [call[h] EXCEPT !.pc = "land", !.reply = reply, !.seen = seen,
                   !.body = IF reply = "full" THEN body ELSE None]
<1>2. /\ d.pc = "land" /\ d.reply = reply /\ d.key = key /\ d.prev = call[h].prev
      /\ d.out = call[h].out /\ (reply = "full" => d.body = body)
  BY <1>0 DEF Fields
<1>3. call' = [call EXCEPT ![h] = d]
  BY <1>1
<1>4. \A m \in key : body[m] \in Said /\ Known[m][body[m]] >= now
  <2>1. ASSUME NEW m \in key PROVE body[m] \in Said /\ Known[m][body[m]] >= now
    <3>1. m \in Thing /\ body[m] = directory[m] /\ now \in Nat
      BY <1>0 DEF Restrict, Thing, FreshInv, ClockOK
    <3> QED BY <3>1, KnownTyped DEF FreshInv
  <2> QED BY <2>1
<1>5. reply = "same" => d.prev = body
  BY <1>2 DEF Replies
<1> HIDE DEF d, body
<1>6. AnswerOK(d, now, Known)
  BY <1>2, <1>4, <1>5, StillSays DEF AnswerOK
<1> QED BY <1>3, <1>6, AnswerOnly DEF Fetch, Exchange

LEMMA FreshLandFull ==
  ASSUME FreshInv, CacheInv', NEW h \in Call, LandFull(h)
  PROVE  FreshInv'
<1> DEFINE c     == call[h]
           found == {m \in c.key : c.body[m] # Gone}
           news  == [m \in c.key |-> Item(c.body[m], "fetched", TRUE)]
           out   == Also(c.out, news)
<1>0. /\ c.pc = "land" /\ c.reply = "full" /\ c.key \in SUBSET Member /\ now \in Nat \ {0}
  BY DEF FreshInv, CacheInv, FlightInv, Sound, Flying, LandFull, Batch, ClockOK
<1>1. \A m \in c.key : m \in Thing /\ c.body[m] \in Said /\ Known[m][c.body[m]] >= now
  BY <1>0 DEF FreshInv, AnswerOK, Thing
<1>2. ASSUME NEW x \in DOMAIN out PROVE ItemOK(x, out[x], Known)
  <2>1. CASE x \in c.key
    <3>1. out[x] = Item(c.body[x], "fetched", TRUE)
      BY <2>1 DEF Also
    <3> QED BY <1>1, <2>1, <3>1, ItemOfNews
  <2>2. CASE x \notin c.key
    <3>1. x \in DOMAIN c.out /\ out[x] = c.out[x]
      BY <1>2, <2>2 DEF Also
    <3> QED BY <3>1, StillSays DEF OutOK
  <2> QED BY <2>1, <2>2
<1>3. OutOK(out, Known)
  BY <1>2 DEF OutOK
<1>4. /\ call' = [call EXCEPT ![h] = Closing(c, out)]
      /\ UNCHANGED <<now, remoteVars, tables>>
      /\ members' = [m \in Member |-> IF m \in found THEN Entry(c.body[m], c.seen[m], TRUE) ELSE members[m]]
      /\ negatives' = [m \in Member |-> IF m \in c.key \ found THEN now + NegativeTTL ELSE negatives[m]]
  BY DEF LandFull
<1>5. AnswerOK(Closing(c, out), now, Known)
  BY <1>3, AnswerRecords
<1>6. ASSUME NEW m \in Member, members'[m] # None PROVE EntryOK(m, members'[m], Known)
  <2>1. CASE m \in found
    <3>1. members'[m] = Entry(c.body[m], c.seen[m], TRUE)
      BY <1>4, <2>1
    <3>2. c.body[m] \in Content /\ Known[m][c.body[m]] >= now
      BY <1>1, <2>1 DEF Said
    <3> QED BY <1>0, <3>1, <3>2 DEF Entry, EntryOK
  <2>2. CASE m \notin found
    BY <1>4, <1>6, <2>2 DEF FreshInv, StoreOK
  <2> QED BY <2>1, <2>2
<1>7. ASSUME NEW m \in Member
      PROVE  /\ negatives'[m] \in Nat
             /\ negatives'[m] # 0 => Known[m][Gone] # 0 /\ negatives'[m] <= Known[m][Gone] + NegativeTTL
  <2>1. CASE m \in c.key \ found
    <3>1. negatives'[m] = now + NegativeTTL /\ c.body[m] = Gone
      BY <1>4, <2>1
    <3>2. Known[m][Gone] >= now /\ Known[m][Gone] \in Nat
      BY <1>1, <2>1, <3>1, KnownTyped DEF FreshInv, Tells
    <3> QED BY <1>0, <3>1, <3>2
  <2>2. CASE m \notin c.key \ found
    BY <1>4, <2>2 DEF FreshInv, StoreOK
  <2> QED BY <2>1, <2>2
<1> HIDE DEF out, found
<1>8. StoreOK(members', negatives', tables', Known)
  BY <1>4, <1>6, <1>7 DEF FreshInv, StoreOK
<1>9. DOMAIN negatives' = Member /\ DOMAIN tables' = Table
  BY <1>4 DEF FreshInv
<1> QED BY <1>4, <1>5, <1>8, <1>9, OneAnswer

\* A 304 confirms what the ETag stands for, and only that.
LEMMA FreshLandSame ==
  ASSUME FreshInv, CacheInv', NEW h \in Call, LandSame(h)
  PROVE  FreshInv'
<1> DEFINE c    == call[h]
           kept == {m \in c.key : members[m] # None}
           again(m) == [members[m] EXCEPT !.fetched = now, !.sure = members[m].is = c.prev[m]]
           news == [m \in kept |-> Of(again(m), "fetched")]
           out  == Also(c.out, news)
<1>0. c.pc = "land" /\ c.reply = "same" /\ c.key \in SUBSET Member /\ now \in Nat \ {0}
  BY DEF FreshInv, CacheInv, FlightInv, Sound, Flying, LandSame, Batch, ClockOK
<1>1. \A m \in c.key : m \in Thing /\ c.prev[m] \in Said /\ Known[m][c.prev[m]] >= now
  BY <1>0 DEF FreshInv, AnswerOK, Thing
<1>2. ASSUME NEW m \in kept PROVE EntryOK(m, again(m), Known) /\ again(m).fetched = now
  <2>1. EntryOK(m, members[m], Known) /\ m \in c.key
    BY <1>0 DEF FreshInv, StoreOK
  <2>2. /\ DOMAIN again(m) = {"is", "fetched", "version", "sure"}
        /\ again(m).is = members[m].is /\ again(m).fetched = now
        /\ again(m).sure = (members[m].is = c.prev[m])
    BY <2>1 DEF EntryOK
  <2> HIDE DEF again
  <2>3. again(m).sure => again(m).is = c.prev[m]
    BY <2>2
  <2> QED BY <1>0, <1>1, <2>1, <2>2, <2>3 DEF EntryOK
<1>3. ASSUME NEW x \in DOMAIN out PROVE ItemOK(x, out[x], Known)
  <2>1. CASE x \in kept
    <3>1. out[x] = Of(again(x), "fetched")
      BY <2>1 DEF Also
    <3>2. x \in Thing /\ x \in Member /\ EntryOK(x, again(x), Known) /\ again(x).fetched = now
      BY <1>0, <1>1, <1>2, <2>1
    <3>3. now - now <= MemberTTL
      BY <1>0, NoAge
    <3> HIDE DEF again, kept, out
    <3> QED BY <3>1, <3>2, <3>3, ItemOfEntry
  <2>2. CASE x \notin kept
    <3>1. x \in DOMAIN c.out /\ out[x] = c.out[x]
      BY <1>3, <2>2 DEF Also
    <3> QED BY <3>1, StillSays DEF OutOK
  <2> QED BY <2>1, <2>2
<1>4. OutOK(out, Known)
  BY <1>3 DEF OutOK
<1>5. /\ call' = [call EXCEPT ![h] = Closing(c, out)]
      /\ UNCHANGED <<now, remoteVars, negatives, tables>>
      /\ members' = [m \in Member |-> IF m \in kept THEN again(m) ELSE members[m]]
  BY DEF LandSame
<1> HIDE DEF out, again, kept
<1>6. AnswerOK(Closing(c, out), now, Known)
  BY <1>4, AnswerRecords
<1>7. \A m \in Member : members'[m] # None => EntryOK(m, members'[m], Known)
  BY <1>2, <1>5 DEF FreshInv, StoreOK
<1>8. StoreOK(members', negatives', tables', Known)
  BY <1>5, <1>7 DEF FreshInv, StoreOK
<1>9. DOMAIN negatives' = Member /\ DOMAIN tables' = Table
  BY <1>5 DEF FreshInv
<1> QED BY <1>5, <1>6, <1>8, <1>9, OneAnswer

LEMMA FreshLandFails ==
  ASSUME FreshInv, CacheInv', NEW h \in Call, LandFails(h)
  PROVE  FreshInv'
<1> DEFINE c   == call[h]
           old == {m \in c.key : members[m] # None /\ MayDegrade(members[m])}
           out == [m \in old |-> Of(members[m], "stale")]
<1>0. c.pc = "land" /\ c.key \in SUBSET Member
  BY DEF FreshInv, CacheInv, FlightInv, Sound, Flying, LandFails, Batch
<1>1. ASSUME NEW m \in old PROVE ItemOK(m, Of(members[m], "stale"), Known)
  <2>1. m \in Thing /\ EntryOK(m, members[m], Known) /\ now - members[m].fetched <= StaleOnError
    BY <1>0 DEF FreshInv, StoreOK, MayDegrade, Thing
  <2> QED BY <2>1, ItemOfEntry
<1>2. OutOK(out, Known) /\ OutOK(<<>>, Known)
  BY <1>1 DEF OutOK
<1>3. \E o \in {out, <<>>} : call' = [call EXCEPT ![h] = Closing(c, o)]
  BY DEF LandFails
<1> HIDE DEF out
<1> QED BY <1>2, <1>3, AnswerRecords, AnswerOnly DEF LandFails

\* The followers take what is cached, unseen.
LEMMA FreshReread ==
  ASSUME FreshInv, CacheInv', NEW h \in Call, Reread(h)
  PROVE  FreshInv'
<1> DEFINE got == {m \in call[h].key : members[m] # None}
           out == Also(call[h].out, [m \in got |-> Of(members[m], "shared")])
<1>1. call' = [call EXCEPT ![h] = Answering(out)] /\ UNCHANGED <<now, remoteVars, members, negatives, tables>>
  BY DEF Reread, Step
<1> HIDE DEF out
<1>2. call[h].key \in SUBSET Member => OutOK(out, Known)
  <2> SUFFICES ASSUME call[h].key \in SUBSET Member, NEW x \in DOMAIN out PROVE ItemOK(x, out[x], Known)
    BY DEF OutOK
  <2>1. CASE x \in got
    <3>1. out[x] = Of(members[x], "shared")
      BY <2>1 DEF out, Also
    <3>2. x \in Thing /\ EntryOK(x, members[x], Known)
      BY <2>1 DEF FreshInv, StoreOK, Thing
    <3> QED BY <3>1, <3>2, ItemOfEntry
  <2>2. CASE x \notin got
    <3>1. x \in DOMAIN call[h].out /\ out[x] = call[h].out[x]
      BY <2>2 DEF out, Also
    <3> QED BY <3>1, StillSays DEF OutOK
  <2> QED BY <2>1, <2>2
<1>3. call[h].key \in SUBSET Member
  BY DEF FreshInv, CacheInv, FlightInv, Sound, Reread, Step, Batch
<1> QED BY <1>1, <1>2, <1>3, AnswerRecords, AnswerOnly

-----------------------------------------------------------------------------
(* Tables, invalidations, the provider and the clock.                      *)

LEMMA FreshReadTable ==
  ASSUME FreshInv, CacheInv', NEW h \in Call, NEW t \in Table, ReadTable(h, t)
  PROVE  FreshInv'
<1> DEFINE out  == [x \in {t} |-> Of(tables[t], "hit")]
           miss == [call[h] EXCEPT !.pc = "table fetch", !.ids = {t}, !.prev = tables[t]]
<1>0. t \in Thing /\ (tables[t] # None => EntryOK(t, tables[t], Known))
  BY DEF Thing, FreshInv, StoreOK
<1>1. CASE TableFresh(t)
  <2>1. /\ tables[t] # None /\ now - tables[t].fetched < TableTTL
        /\ now \in Nat /\ tables[t].fetched \in Nat /\ TableTTL \in Nat
    BY <1>0, <1>1 DEF TableFresh, EntryOK, FreshInv, ClockOK
  <2>2. now - tables[t].fetched <= TableTTL
    BY <2>1
  <2>3. ItemOK(t, Of(tables[t], "hit"), Known)
    BY <1>0, <2>1, <2>2, ItemOfEntry
  <2>4. OutOK(out, Known)
    BY <2>3 DEF OutOK
  <2>5. call' = [call EXCEPT ![h] = Answering(out)]
    BY <1>1 DEF ReadTable, Step
  <2> HIDE DEF out
  <2> QED BY <2>4, <2>5, AnswerRecords, AnswerOnly DEF ReadTable
<1>2. CASE ~TableFresh(t)
  <2>1. call' = [call EXCEPT ![h] = miss]
    BY <1>2 DEF ReadTable, Step
  <2>2. miss.pc = "table fetch" /\ miss.ids = {t} /\ miss.prev = tables[t] /\ miss.out = call[h].out
    BY DEF FreshInv, CacheInv, FlightInv, Sound, Fields
  <2> HIDE DEF miss
  <2>3. AnswerOK(miss, now, Known)
    BY <1>0, <2>2, StillSays DEF AnswerOK
  <2> QED BY <2>1, <2>3, AnswerOnly DEF ReadTable
<1> QED BY <1>1, <1>2

LEMMA FreshTableFetch ==
  ASSUME FreshInv, CacheInv', NEW h \in Call, TableFetch(h)
  PROVE  FreshInv'
<1>1. PICK t \in call[h].ids \cap Table :
        Exchange(h, "table fetch", "table land",
                 IF call[h].prev = None THEN None ELSE call[h].prev.is, directory[t], version[t])
  BY DEF TableFetch
<1> DEFINE tag == IF call[h].prev = None THEN None ELSE call[h].prev.is
<1>2. PICK reply \in Replies(tag, directory[t]) :
        /\ call[h].pc = "table fetch"
        /\ call' = [call EXCEPT ![h] = [call[h] EXCEPT !.pc = "table land", !.reply = reply, !.seen = version[t],
                                          !.body = IF reply = "full" THEN directory[t] ELSE None]]
  BY <1>1 DEF Exchange, Step
<1> DEFINE d == [call[h] EXCEPT !.pc = "table land", !.reply = reply, !.seen = version[t],
                   !.body = IF reply = "full" THEN directory[t] ELSE None]
<1>3. DOMAIN call[h] = Fields
  BY DEF FreshInv, CacheInv, FlightInv, Sound
<1>4. /\ d.pc = "table land" /\ d.reply = reply /\ d.ids = call[h].ids /\ d.prev = call[h].prev
      /\ d.out = call[h].out /\ (reply = "full" => d.body = directory[t])
  BY <1>3 DEF Fields
<1>5. call' = [call EXCEPT ![h] = d]
  BY <1>2
<1> HIDE DEF d
<1>6. directory[t] \in Content /\ directory[t] \in Said /\ Known[t][directory[t]] >= now
  <2>1. directory[t] \in Content /\ now \in Nat /\ t \in Thing
    BY DEF FreshInv, ClockOK, Thing
  <2> QED BY <2>1, KnownTyped DEF FreshInv
<1>7. reply = "same" => call[h].prev # None /\ call[h].prev.is = directory[t]
  <2>1. reply = "same" => tag = directory[t]
    BY DEF Replies
  <2> QED BY <1>6, <2>1
<1>8. call[h].ids = {t} /\ (call[h].prev # None => EntryOK(t, call[h].prev, Known))
  BY <1>2 DEF FreshInv, AnswerOK
<1>9. AnswerOK(d, now, Known)
  BY <1>4, <1>6, <1>7, <1>8, StillSays DEF AnswerOK
<1> QED BY <1>1, <1>5, <1>9, AnswerOnly DEF Exchange

LEMMA FreshTableLand ==
  ASSUME FreshInv, CacheInv', NEW h \in Call, TableLand(h)
  PROVE  FreshInv'
<1> DEFINE c == call[h]
           e == CASE c.reply = "full" -> Entry(c.body, c.seen, TRUE)
                  [] c.reply = "same" -> [c.prev EXCEPT !.fetched = now]
                  [] OTHER            -> c.prev
           degrades == c.reply = "unavailable" /\ c.prev # None /\ MayDegrade(c.prev)
           by == IF degrades THEN "stale" ELSE "fetched"
           out == [t \in c.ids |-> Of(e, by)]
<1>1. /\ c.pc = "table land" /\ UNCHANGED <<now, remoteVars, members, negatives>>
      /\ call' = [call EXCEPT ![h] = IF c.reply \in {"full", "same"} \/ degrades THEN Answering(out) ELSE Refused]
      /\ tables' = IF c.reply \in {"full", "same"} THEN [t \in Table |-> IF t \in c.ids THEN e ELSE tables[t]]
                   ELSE tables
  BY DEF TableLand, Step
<1>2. PICK t \in Table :
        /\ c.ids = {t} /\ (c.prev # None => EntryOK(t, c.prev, Known))
        /\ c.reply = "full" => c.body \in Content /\ Known[t][c.body] >= now
        /\ c.reply = "same" => c.prev # None /\ Known[t][c.prev.is] >= now
  BY <1>1 DEF FreshInv, AnswerOK
<1>3. t \in Thing /\ now \in Nat \ {0} /\ TableTTL \in Nat
  BY DEF Thing, FreshInv, ClockOK
<1>4. ASSUME c.reply \in {"full", "same"} PROVE EntryOK(t, e, Known) /\ e.fetched = now /\ by = "fetched"
  <2>1. CASE c.reply = "full"
    <3>1. e = Entry(c.body, c.seen, TRUE)
      BY <2>1
    <3> QED BY <1>2, <1>3, <2>1, <3>1 DEF Entry, EntryOK
  <2>2. CASE c.reply = "same"
    <3>1. e = [c.prev EXCEPT !.fetched = now]
      BY <2>2
    <3>2. EntryOK(t, c.prev, Known) /\ Known[t][c.prev.is] >= now
      BY <1>2, <2>2
    <3>3. /\ DOMAIN e = DOMAIN c.prev /\ e.is = c.prev.is /\ e.fetched = now /\ by = "fetched"
      BY <2>2, <3>1, <3>2 DEF EntryOK
    <3> HIDE DEF e, by
    <3> QED BY <1>3, <3>2, <3>3 DEF EntryOK
  <2> QED BY <1>4, <2>1, <2>2
<1>5. ASSUME degrades, c.reply \notin {"full", "same"}
      PROVE  EntryOK(t, e, Known) /\ now - e.fetched <= StaleOnError /\ by = "stale"
  <2>1. e = c.prev /\ by = "stale"
    BY <1>5
  <2> HIDE DEF e, by
  <2> QED BY <1>2, <1>5, <2>1 DEF MayDegrade
<1>6. ASSUME c.reply \in {"full", "same"} \/ degrades PROVE OutOK(out, Known)
  <2>1. CASE c.reply \in {"full", "same"}
    <3>1. now - now <= TableTTL
      BY <1>3, NoAge
    <3>2. ItemOK(t, Of(e, by), Known)
      <4> HIDE DEF e, by
      <4> QED BY <1>3, <1>4, <2>1, <3>1, ItemOfEntry
    <3> HIDE DEF e, by
    <3> QED BY <1>2, <3>2 DEF OutOK
  <2>2. CASE c.reply \notin {"full", "same"}
    <3> HIDE DEF e, by
    <3>1. ItemOK(t, Of(e, by), Known)
      BY <1>3, <1>5, <1>6, <2>2, ItemOfEntry
    <3> QED BY <1>2, <3>1 DEF OutOK
  <2> QED BY <2>1, <2>2
<1> HIDE DEF out, e, degrades
<1>7. PICK d : call' = [call EXCEPT ![h] = d] /\ AnswerOK(d, now, Known)
  <2>1. OutOK(<<>>, Known)
    BY DEF OutOK
  <2> QED BY <1>1, <1>6, <2>1, AnswerRecords DEF Refused
<1>8. DOMAIN negatives' = Member /\ DOMAIN tables' = Table
  BY <1>1 DEF FreshInv
<1>9. \A x \in Table : tables'[x] # None => EntryOK(x, tables'[x], Known)
  BY <1>1, <1>2, <1>4 DEF FreshInv, StoreOK
<1>10. StoreOK(members', negatives', tables', Known)
  BY <1>1, <1>9 DEF FreshInv, StoreOK
<1> QED BY <1>1, <1>7, <1>8, <1>10, OneAnswer

LEMMA FreshFinish ==
  ASSUME FreshInv, CacheInv', NEW h \in Call, Finish(h)
  PROVE  FreshInv'
<1>1. /\ call'[h] = NewCall /\ UNCHANGED <<now, remoteVars, members, negatives, tables>>
      /\ \A w \in Call \ {h} : \/ call'[w] = call[w]
                               \/ call'[w] = [call[w] EXCEPT !.pc = "reread", !.on = NoCall]
  BY DEF Finish
<1>2. ASSUME NEW w \in Call PROVE AnswerOK(call'[w], now, Known)
  <2>1. CASE call'[w] = NewCall
    <3>1. OutOK(<<>>, Known)
      BY DEF OutOK
    <3> QED BY <2>1, <3>1, AnswerRecords
  <2>2. CASE call'[w] = call[w]
    BY <2>2 DEF FreshInv
  <2>3. CASE call'[w] = [call[w] EXCEPT !.pc = "reread", !.on = NoCall]
    <3>1. PICK d : d = [call[w] EXCEPT !.pc = "reread", !.on = NoCall]
      OBVIOUS
    <3>2. DOMAIN call[w] = Fields
      BY DEF FreshInv, CacheInv, FlightInv, Sound
    <3>3. d.pc = "reread" /\ d.out = call[w].out
      BY <3>1, <3>2 DEF Fields
    <3>4. AnswerOK(d, now, Known)
      BY <3>3, StillSays, PlainAnswer
    <3> QED BY <2>3, <3>1, <3>4
  <2> QED BY <1>1, <2>1, <2>2, <2>3
<1>3. \A w \in Call : AnswerOK(call'[w], now', Known')
  BY <1>1, <1>2, SameKnown
<1> QED BY <1>1, <1>3, SameKnown DEF FreshInv

LEMMA FreshInvalidate ==
  ASSUME FreshInv, CacheInv', NEW m \in Member, InvalidateMember(m)
  PROVE  FreshInv'
<1>1. /\ members' = [members EXCEPT ![m] = None] /\ negatives' = [negatives EXCEPT ![m] = 0]
      /\ UNCHANGED <<now, remoteVars, tables, call>>
  BY DEF InvalidateMember, Dropped
<1>2. DOMAIN negatives' = Member /\ DOMAIN tables' = Table
  BY <1>1 DEF FreshInv
<1>3. \A x \in Member : negatives'[x] \in {0, negatives[x]} /\ members'[x] \in {None, members[x]}
  BY <1>1 DEF FreshInv, CacheInv, EntriesOK
<1>4. StoreOK(members', negatives', tables', Known)
  BY <1>1, <1>3 DEF FreshInv, StoreOK
<1> QED BY <1>1, <1>2, <1>4, SameKnown DEF FreshInv

\* What has changed was last true now; the clock only moves when no answer has
\* just come.
LEMMA FreshMoves ==
  ASSUME FreshInv, CacheInv', Tick \/ \E x \in Thing : Change(x)
  PROVE  FreshInv'
<1>0. /\ now \in Nat \ {0} /\ left \in [Thing -> [Said -> Nat]]
      /\ \A x \in Thing, c \in Said : left[x][c] \in Nat /\ left[x][c] <= now
      /\ \A x \in Thing : directory[x] \in Said
  BY DEF FreshInv, ClockOK
<1>a. now \in Nat /\ now + 1 \in Nat
  <2>1. now \in Nat
    BY <1>0
  <2> QED BY <2>1
<1>1. ClockOK' /\ Grows(Known, Known')
  <2>1. CASE Tick
    <3>1. now' = now + 1 /\ UNCHANGED <<directory, left>>
      BY <2>1 DEF Tick
    <3>2. ClockOK'
      BY <1>0, <3>1 DEF FreshInv, ClockOK
    <3>3. \A x \in Thing, c \in Said : LastTrue(x, c) <= LastTrue(x, c)'
      BY <1>0, <3>1 DEF LastTrue
    <3> QED BY <3>2, <3>3, KnownTyped, KnownNext DEF FreshInv, Grows
  <2>2. ASSUME NEW x \in Thing, Change(x) PROVE ClockOK' /\ Grows(Known, Known')
    <3>1. PICK c \in Said : directory' = [directory EXCEPT ![x] = c] /\ (x \in Table => c \in Content)
      BY <2>2 DEF Change, Said, Thing
    <3>2. /\ now' = now /\ left' = [left EXCEPT ![x] = [left[x] EXCEPT ![directory[x]] = now]]
      BY <2>2 DEF Change
    <3>3. \A y \in Thing, s \in Said : left'[y][s] = IF y = x /\ s = directory[x] THEN now ELSE left[y][s]
      BY <1>0, <3>2
    <3>4. left' \in [Thing -> [Said -> Nat]]
      BY <1>0, <3>2
    <3>5. \A y \in Thing : directory'[y] = IF y = x THEN c ELSE directory[y]
      BY <3>1 DEF FreshInv, ClockOK
    <3>6. ClockOK'
      BY <1>0, <3>1, <3>2, <3>3, <3>4, <3>5 DEF FreshInv, ClockOK, Thing
    <3>7. \A y \in Thing, s \in Said : LastTrue(y, s) <= LastTrue(y, s)'
      BY <1>0, <3>2, <3>3, <3>5 DEF LastTrue
    <3> QED BY <3>6, <3>7, KnownTyped, KnownNext DEF FreshInv, Grows
  <2> QED BY <2>1, <2>2
<1>2. UNCHANGED <<members, negatives, tables, call>>
  BY DEF Tick, Change
<1>3. StoreOK(members, negatives, tables, Known')
  BY <1>1, GrownStore DEF FreshInv
<1>4. ASSUME NEW h \in Call PROVE AnswerOK(call[h], now', Known')
  <2>1. call[h].pc = "land" => call[h].key \subseteq Member
    BY DEF FreshInv, CacheInv, FlightInv, Sound, Flying, Batch
  <2>2. now' \in Nat /\ (call[h].pc \in {"land", "table land"} => now' = now)
    <3>1. CASE Tick
      <4>1. now' = now + 1 /\ call[h].pc \notin {"land", "table land"}
        BY <3>1 DEF Tick
      <4>2. now' \in Nat
        BY <1>a, <4>1
      <4> QED BY <4>1, <4>2
    <3>2. CASE \E x \in Thing : Change(x)
      <4>1. now' = now
        BY <3>2 DEF Change
      <4> QED BY <1>0, <4>1
    <3> QED BY <3>1, <3>2
  <2> QED BY <1>0, <1>1, <2>1, <2>2, GrownAnswer DEF FreshInv
<1> QED BY <1>1, <1>2, <1>3, <1>4 DEF FreshInv

LEMMA FreshStart == Init => FreshInv
<1> SUFFICES ASSUME Init PROVE FreshInv
  OBVIOUS
<1>1. ClockOK
  <2>1. left \in [Thing -> [Said -> Nat]] /\ \A x \in Thing, c \in Said : left[x][c] = 0
    BY DEF Init, Said
  <2> QED BY <2>1 DEF Init, ClockOK, Said, Thing
<1>2. DOMAIN negatives = Member /\ DOMAIN tables = Table /\ StoreOK(members, negatives, tables, Known)
  BY DEF Init, StoreOK
<1>3. OutOK(<<>>, Known)
  BY DEF OutOK
<1>4. \A h \in Call : AnswerOK(call[h], now, Known)
  BY <1>3, AnswerRecords DEF Init
<1> QED BY <1>1, <1>2, <1>4, CacheStart DEF FreshInv

LEMMA FreshStep == FreshInv /\ [Next]_vars => FreshInv'
<1> SUFFICES ASSUME FreshInv, [Next]_vars PROVE FreshInv'
  OBVIOUS
<1>0. CacheInv'
  BY CacheStep DEF FreshInv
<1>1. ASSUME NEW h \in Call, NEW ids \in Batch, Members(h, ids) PROVE FreshInv'
  BY <1>0, <1>1, FreshCollect DEF Members
<1>2. ASSUME NEW h \in Call, NEW m \in Member, LookUp(h, m) PROVE FreshInv'
  BY <1>0, <1>2, FreshLookUp
<1>3. ASSUME NEW h \in Call, NEW t \in Table, ReadTable(h, t) PROVE FreshInv'
  BY <1>0, <1>3, FreshReadTable
<1>4. ASSUME NEW h \in Call, Proceed(h) \/ WaitCancelled(h) PROVE FreshInv'
  <2>0. DOMAIN call[h] = Fields /\ OutOK(call[h].out, Known) /\ OutOK(<<>>, Known)
    BY StillSays DEF FreshInv, CacheInv, FlightInv, Sound, OutOK
  <2>1. CASE CollectMissed(h)
    <3>1. call[h].ids \in Batch
      BY <2>1 DEF CollectMissed, Collect, Step, FreshInv, CacheInv, FlightInv, Sound
    <3> QED BY <1>0, <2>1, <3>1, FreshCollect DEF CollectMissed
  <2>2. CASE Return(h) \/ WaitCancelled(h)
    BY <1>0, <2>0, <2>2, AnswerRecords, AnswerOnly DEF Return, WaitCancelled, Refused, Step
  <2>3. CASE Lead(h)
    <3>1. PICK d : d = [call[h] EXCEPT !.pc = "fetch", !.prev = batchETags[call[h].key]]
      OBVIOUS
    <3>2. d.pc = "fetch" /\ d.out = call[h].out
      BY <2>0, <3>1 DEF Fields
    <3>3. AnswerOK(d, now, Known)
      BY <2>0, <3>2, PlainAnswer
    <3> QED BY <1>0, <2>3, <3>1, <3>3, AnswerOnly DEF Lead, Step
  <2>4. CASE Follow(h)
    <3>1. PICK d : d = [call[h] EXCEPT !.pc = "wait", !.on = inflight[call[h].key]]
      OBVIOUS
    <3>2. d.pc = "wait" /\ d.out = call[h].out
      BY <2>0, <3>1 DEF Fields
    <3>3. AnswerOK(d, now, Known)
      BY <2>0, <3>2, PlainAnswer
    <3> QED BY <1>0, <2>4, <3>1, <3>3, AnswerOnly DEF Follow, Step
  <2>5. CASE Reread(h) \/ Fetch(h) \/ Land(h) \/ Finish(h)
    BY <1>0, <2>5, FreshReread, FreshFetch, FreshLandFull, FreshLandSame, FreshLandFails, FreshFinish DEF Land
  <2>6. CASE TableFetch(h) \/ TableLand(h)
    BY <1>0, <2>6, FreshTableFetch, FreshTableLand
  <2> QED BY <1>4, <2>1, <2>2, <2>3, <2>4, <2>5, <2>6 DEF Proceed
<1>5. ASSUME NEW m \in Member, InvalidateMember(m) PROVE FreshInv'
  BY <1>0, <1>5, FreshInvalidate
<1>6. CASE Tick \/ \E x \in Thing : Change(x)
  BY <1>0, <1>6, FreshMoves
<1>7. CASE UNCHANGED vars
  BY <1>0, <1>7, SameKnown DEF vars, FreshInv
<1> QED BY <1>1, <1>2, <1>3, <1>4, <1>5, <1>6, <1>7 DEF Next

\* What an answer says was true no longer ago than the lifetime of its kind
\* allows, whether it comes from the cache, from the provider, from a 304 that
\* confirmed it or from an entry kept for an outage (client.go and cache.go).
THEOREM AnswersAreRecent == Spec => []FreshAnswers
<1>1. FreshInv => FreshAnswers
  <2> SUFFICES ASSUME FreshInv, NEW h \in Call, NEW x \in DOMAIN call[h].out,
                      call[h].out[x].by # "shared", call[h].out[x].sure
               PROVE  Recent(h, x)
    BY DEF FreshAnswers
  <2>1. ItemOK(x, call[h].out[x], Known)
    BY StillSays DEF OutOK
  <2>2. x \in Thing /\ call[h].out[x].is \in Said
    BY <2>1 DEF ItemOK
  <2>3. Known[x][call[h].out[x].is] = LastTrue(x, call[h].out[x].is)
    BY <2>2, KnownTyped DEF FreshInv
  <2> QED BY <2>1, <2>3 DEF ItemOK, Recent
<1> QED BY <1>1, FreshStart, FreshStep, PTL DEF Spec
=============================================================================
