--------------------------- MODULE JwksCacheProofs ---------------------------
(***************************************************************************)
(* What JwksCache guarantees for every number of calls, keys and restarts  *)
(* and every choice of its limits: one fetch in flight at a time, and no   *)
(* key that was fetched verifies longer than the maximal age after the     *)
(* provider has retired it.                                                *)
(***************************************************************************)
EXTENDS JwksCache, TLAPS

Source == {"none", "net", "file"}
State  == {"boot", "up", "down"}

\* The records of the tasks, as in TypeOK.
TaskRec == [pc : {"idle"} \cup Running \cup Ended, kid : Kid \cup {NoKid},
            on : Task \cup {NoTask}, got : SUBSET Kid, usable : BOOLEAN,
            at : 0 .. MaxTime, from : Source, led : 0 .. MaxTime, steady : BOOLEAN]

\* The key k was published at the instant n, or later.
Since(k, n, r) == r[k] = 0 \/ n <= r[k]

\* The cache: a key set that was fetched holds no key that had been retired
\* when it was stamped.
StoreOK ==
  /\ now \in 1 .. MaxTime
  /\ published \subseteq Kid /\ retired \in [Kid -> 0 .. MaxTime]
  /\ \A k \in published : retired[k] = 0
  /\ keys \subseteq Kid /\ fetchedAt \in 0 .. MaxTime /\ source \in Source
  /\ keys = {} <=> fetchedAt = 0
  /\ fetchedAt <= now
  /\ source = "net" => \A k \in keys : Since(k, fetchedAt, retired)
  /\ lastAttempt \in 0 .. MaxTime /\ lastAttempt <= now
  /\ inflight \in Task \cup {NoTask}
  /\ file \subseteq Kid /\ state \in State /\ ticked \in 0 .. MaxTime
  /\ restarts \in 0 .. MaxRestarts

\* What the task h may hold at the instant n when keys were retired as r says:
\* an answer on its way to the cache is as new as the clock, and a key that
\* verified had been fetched at most the maximal age before.
RecOK(h, t, n, r) ==
  /\ t.at <= n
  /\ h \in Call /\ t.pc # "idle" => t.kid \in Kid
  /\ t.pc = "install" => t.got # {}
  /\ t.pc = "wait" => t.on \in Task
  /\ t.pc = "land" => \A k \in t.got : Since(k, n, r)
  /\ h \in Call /\ t.pc = "key" /\ t.from = "net" => r[t.kid] = 0 \/ t.at - r[t.kid] <= MaxAge

TasksOK == /\ task \in [Task -> TaskRec]
           /\ \A h \in Task : RecOK(h, task[h], now, retired)

\* The inductive invariant.
CacheInv == StoreOK /\ TasksOK /\ SingleFlight

-----------------------------------------------------------------------------
(* The initial state.                                                      *)

LEMMA NewTaskTyped == NewTask \in TaskRec /\ Booting \in TaskRec
<1>1. 0 \in 0 .. MaxTime
  BY TimeAssumption
<1>2. NewTask \in TaskRec
  BY <1>1 DEF NewTask, TaskRec, Source
<1>3. "refresh" \in Running
  BY DEF Running
<1> QED BY <1>2, <1>3 DEF Booting, TaskRec

\* What the proofs need of a task that has just begun.
LEMMA NewTaskFields ==
  /\ NewTask.pc = "idle" /\ NewTask.at = 0
  /\ Booting.pc = "refresh" /\ Booting.at = 0
  BY DEF NewTask, Booting

LEMMA InitHolds == Init => CacheInv
<1> SUFFICES ASSUME Init PROVE CacheInv
  OBVIOUS
<1>1. StoreOK
  BY KidAssumption, TimeAssumption DEF Init, StoreOK, Source, State, Since
<1>2. /\ task \in [Task -> TaskRec]
      /\ \A h \in Task : task[h] \in {NewTask, Booting} /\ (h \in Call => task[h] = NewTask)
  BY NewTaskTyped, NullAssumption DEF Init, Fresh, Task
<1>3. TasksOK
  BY <1>2, NewTaskFields DEF TasksOK, RecOK, Init
<1>4. SingleFlight
  BY <1>2, NewTaskFields, NullAssumption DEF SingleFlight, Fetching, Init, Task
<1> QED BY <1>1, <1>3, <1>4 DEF CacheInv

-----------------------------------------------------------------------------
(* Steps of one task.                                                      *)

\* A step that writes one record leaves the others sound.
LEMMA OneRecord ==
  ASSUME TasksOK, NEW h \in Task, NEW rec \in TaskRec, task' = [task EXCEPT ![h] = rec],
         RecOK(h, rec, now, retired), UNCHANGED <<now, retired>>
  PROVE  TasksOK'
  BY DEF TasksOK

\* A step of a task that neither leads a fetch nor begins to lead or to wait.
LEMMA QuietFlight ==
  ASSUME TasksOK, SingleFlight, NEW h \in Task, NEW rec \in TaskRec,
         task' = [task EXCEPT ![h] = rec],
         task[h].pc \notin Fetching \cup {"close"}, rec.pc \notin Fetching \cup {"wait"},
         UNCHANGED inflight
  PROVE  SingleFlight'
<1>1. \A w \in Task : task'[w] = IF w = h THEN rec ELSE task[w]
  BY DEF TasksOK
<1>2. \A w \in Task : task'[w].pc \in Fetching <=> inflight' = w
  BY <1>1 DEF SingleFlight
<1>3. ASSUME NEW w \in Task, task'[w].pc = "wait"
      PROVE  task'[task'[w].on].pc \in Fetching \cup {"close"}
  <2>1. w # h /\ task'[w] = task[w] /\ task[w].on \in Task
    BY <1>1, <1>3 DEF TasksOK, RecOK
  <2>2. task[task[w].on].pc \in Fetching \cup {"close"}
    BY <2>1, <1>3 DEF SingleFlight
  <2> QED BY <1>1, <2>1, <2>2
<1> QED BY <1>2, <1>3 DEF SingleFlight

\* A step that changes nothing of the cache but its file, or the state.
LEMMA SameStore ==
  ASSUME StoreOK, UNCHANGED <<now, opVars, cacheVars, lastAttempt, inflight, ticked, restarts>>,
         file' \subseteq Kid, state' \in State
  PROVE  StoreOK'
  BY DEF StoreOK, opVars, cacheVars

\* Both at once.
LEMMA QuietStep ==
  ASSUME CacheInv, NEW h \in Task, NEW rec \in TaskRec,
         task' = [task EXCEPT ![h] = rec], RecOK(h, rec, now, retired),
         task[h].pc \notin Fetching \cup {"close"}, rec.pc \notin Fetching \cup {"wait"},
         UNCHANGED <<now, opVars, cacheVars, lastAttempt, inflight, ticked, restarts>>,
         file' \subseteq Kid, state' \in State
  PROVE  CacheInv'
<1>1. TasksOK'
  BY OneRecord DEF CacheInv, opVars
<1>2. SingleFlight'
  BY QuietFlight DEF CacheInv
<1>3. StoreOK'
  BY SameStore DEF CacheInv
<1> QED BY <1>1, <1>2, <1>3 DEF CacheInv

\* A key that is found verifies by a key set that is young enough.
LEMMA HitIsYoung ==
  ASSUME StoreOK, NEW k \in Kid, Hit(k), source = "net"
  PROVE  retired[k] = 0 \/ now - retired[k] <= MaxAge
  BY TimeAssumption DEF StoreOK, Hit, Usable, Since

-----------------------------------------------------------------------------
(* PublicKey and the fetch, one lemma for each action.                     *)

\* Where a task can stand.
Place == {"idle"} \cup Running \cup Ended

\* A task that was given a record which is sound, quietly.
LEMMA Quietly ==
  ASSUME CacheInv, NEW h \in Task, NEW rec \in TaskRec,
         task' = [task EXCEPT ![h] = rec], RecOK(h, rec, now, retired),
         task[h].pc \notin Fetching \cup {"close"}, rec.pc \notin Fetching \cup {"wait"},
         UNCHANGED <<now, opVars, cacheVars, lastAttempt, inflight, file, state, ticked, restarts>>
  PROVE  CacheInv'
<1>1. file' \subseteq Kid /\ state' \in State
  BY DEF CacheInv, StoreOK
<1> QED BY <1>1, QuietStep

\* Only the place of the record changes.
LEMMA Moved ==
  ASSUME NEW t \in TaskRec, NEW p \in Place
  PROVE  LET rec == [t EXCEPT !.pc = p]
         IN /\ rec \in TaskRec /\ rec.pc = p /\ rec.kid = t.kid /\ rec.at = t.at
            /\ rec.got = t.got /\ rec.on = t.on /\ rec.from = t.from
  BY DEF TaskRec, Place

LEMMA VerifyPreserves ==
  ASSUME CacheInv, NEW h \in Call, NEW k \in Kid, Verify(h, k)
  PROVE  CacheInv'
<1> DEFINE p == IF Hit(k) THEN "key" ELSE "refresh"
<1>1. PICK rec : rec = [NewTask EXCEPT !.pc = p, !.kid = k, !.at = now, !.from = source,
                                       !.steady = k \in published]
  OBVIOUS
<1>2. task[h].pc = "idle" /\ task' = [task EXCEPT ![h] = rec]
  BY <1>1 DEF Verify, Step
<1>3. p \in Place /\ now \in 0 .. MaxTime /\ source \in Source
  BY DEF CacheInv, StoreOK, Place, Running, Ended
<1>4. rec \in TaskRec /\ rec.pc = p /\ rec.kid = k /\ rec.at = now /\ rec.from = source
  <2> HIDE DEF p
  <2>1. PICK b \in BOOLEAN : b = (k \in published)
    <3>1. CASE k \in published
      BY <3>1
    <3>2. CASE k \notin published
      <4>1. (k \in published) = FALSE
        BY <3>2
      <4>2. FALSE \in BOOLEAN
        OBVIOUS
      <4> QED BY <4>1, <4>2
    <3> QED BY <3>1, <3>2
  <2>2. rec = [NewTask EXCEPT !.pc = p, !.kid = k, !.at = now, !.from = source, !.steady = b]
    BY <1>1, <2>1
  <2> QED BY <1>3, <2>1, <2>2, NewTaskTyped DEF TaskRec, Place
<1>5. RecOK(h, rec, now, retired)
  BY <1>4, HitIsYoung DEF RecOK, CacheInv, StoreOK
<1>6. p \notin Fetching \cup {"wait"} /\ h \in Task
  BY DEF Fetching, Task
<1> QED BY <1>2, <1>4, <1>5, <1>6, Quietly DEF Verify, Fetching

LEMMA LookAgainPreserves ==
  ASSUME CacheInv, NEW h \in Task, LookAgain(h)
  PROVE  CacheInv'
<1> DEFINE p == IF Hit(task[h].kid) THEN "key" ELSE "judge"
<1>1. PICK rec : rec = [task[h] EXCEPT !.pc = p, !.at = now, !.from = source]
  OBVIOUS
<1>2. task[h].pc = "again" /\ task' = [task EXCEPT ![h] = rec]
  BY <1>1 DEF LookAgain, Step
<1>3. p \in Place /\ now \in 0 .. MaxTime /\ source \in Source
  BY DEF CacheInv, StoreOK, Place, Running, Ended
<1>4. task[h] \in TaskRec /\ RecOK(h, task[h], now, retired)
  BY DEF CacheInv, TasksOK
<1>5. rec \in TaskRec /\ rec.pc = p /\ rec.kid = task[h].kid /\ rec.at = now /\ rec.from = source
  <2> HIDE DEF p
  <2> QED BY <1>1, <1>3, <1>4 DEF TaskRec, Place
<1>6. h \in Call => rec.kid \in Kid
  BY <1>2, <1>4, <1>5 DEF RecOK
<1>7. RecOK(h, rec, now, retired)
  BY <1>5, <1>6, HitIsYoung DEF RecOK, CacheInv, StoreOK
<1>8. p \notin Fetching \cup {"wait"}
  BY DEF Fetching
<1> QED BY <1>2, <1>5, <1>7, <1>8, Quietly DEF LookAgain, Fetching

\* A task that has begun keeps its key and its time, and goes where no more is
\* asked of it.
LEMMA PlainRecord ==
  ASSUME CacheInv, NEW h \in Task, NEW rec \in TaskRec,
         task[h].pc # "idle", rec.kid = task[h].kid, rec.at = task[h].at,
         rec.pc \notin {"wait", "land", "install", "key"}
  PROVE  RecOK(h, rec, now, retired)
<1>1. RecOK(h, task[h], now, retired)
  BY DEF CacheInv, TasksOK
<1> QED BY <1>1 DEF RecOK

LEMMA Recorded == CacheInv => \A h \in Task : task[h] \in TaskRec /\ RecOK(h, task[h], now, retired)
  BY DEF CacheInv, TasksOK

\* Where a refresh leads.
LEMMA RefreshedRecord ==
  ASSUME NEW h \in Task, NEW t \in TaskRec
  PROVE  /\ Refreshed(h, t) \in TaskRec
         /\ Refreshed(h, t).kid = t.kid /\ Refreshed(h, t).at = t.at
         /\ Refreshed(h, t).pc \in {"again", "idle"}
<1> DEFINE p == IF h \in Call THEN "again" ELSE "idle"
<1>1. p \in {"again", "idle"} /\ p \in Place
  BY DEF Place, Running
<1>2. Refreshed(h, t) = [t EXCEPT !.got = {}, !.pc = p]
  BY DEF Refreshed
<1> HIDE DEF p
<1> QED BY <1>1, <1>2 DEF TaskRec, Place

LEMMA NotRefreshedRecord ==
  ASSUME NEW h \in Task, NEW t \in TaskRec
  PROVE  /\ NotRefreshed(h, t) \in TaskRec
         /\ NotRefreshed(h, t).kid = t.kid /\ NotRefreshed(h, t).at = t.at
         /\ NotRefreshed(h, t).pc \in {"judge", "read file", "idle"}
<1> DEFINE p == CASE h \in Call -> "judge"
                  [] h = Main /\ state = "boot" -> "read file"
                  [] OTHER -> "idle"
<1>1. p \in {"judge", "read file", "idle"} /\ p \in Place
  BY DEF Place, Running
<1>2. NotRefreshed(h, t) = [t EXCEPT !.got = {}, !.pc = p]
  BY DEF NotRefreshed
<1> HIDE DEF p
<1> QED BY <1>1, <1>2 DEF TaskRec, Place

LEMMA JudgePreserves ==
  ASSUME CacheInv, NEW h \in Task, Judge(h)
  PROVE  CacheInv'
<1> DEFINE p == IF Usable THEN "unknown" ELSE "unavailable"
<1>1. PICK rec : rec = [task[h] EXCEPT !.pc = p]
  OBVIOUS
<1>2. task[h].pc = "judge" /\ task' = [task EXCEPT ![h] = rec]
  BY <1>1 DEF Judge, Step
<1>3. p \in {"unknown", "unavailable"} /\ p \in Place
  BY DEF Place, Ended
<1>4. rec \in TaskRec /\ rec.pc = p /\ rec.kid = task[h].kid /\ rec.at = task[h].at
  <2> HIDE DEF p
  <2> QED BY <1>1, <1>3, Recorded, Moved
<1>5. RecOK(h, rec, now, retired)
  BY <1>2, <1>3, <1>4, PlainRecord
<1> QED BY <1>2, <1>3, <1>4, <1>5, Quietly DEF Judge, Fetching

LEMMA RefreshLimitedPreserves ==
  ASSUME CacheInv, NEW h \in Task, RefreshLimited(h)
  PROVE  CacheInv'
<1> DEFINE p == IF Usable THEN "again" ELSE "judge"
<1>1. PICK rec : rec = [task[h] EXCEPT !.pc = p]
  OBVIOUS
<1>2. task[h].pc = "refresh" /\ task' = [task EXCEPT ![h] = rec]
  BY <1>1 DEF RefreshLimited, Step
<1>3. p \in {"again", "judge"} /\ p \in Place
  BY DEF Place, Running
<1>4. rec \in TaskRec /\ rec.pc = p /\ rec.kid = task[h].kid /\ rec.at = task[h].at
  <2> HIDE DEF p
  <2> QED BY <1>1, <1>3, Recorded, Moved
<1>5. RecOK(h, rec, now, retired)
  BY <1>2, <1>3, <1>4, PlainRecord
<1> QED BY <1>2, <1>3, <1>4, <1>5, Quietly DEF RefreshLimited, Fetching

LEMMA WaitCancelledPreserves ==
  ASSUME CacheInv, NEW h \in Call, WaitCancelled(h)
  PROVE  CacheInv'
<1>1. PICK t : t = [task[h] EXCEPT !.on = NoTask]
  OBVIOUS
<1>2. h \in Task /\ t \in TaskRec /\ t.kid = task[h].kid /\ t.at = task[h].at
  BY <1>1, Recorded DEF TaskRec, Task
<1>3. PICK rec : rec = NotRefreshed(h, t)
  OBVIOUS
<1>4. task[h].pc = "wait" /\ task' = [task EXCEPT ![h] = rec]
  BY <1>1, <1>3 DEF WaitCancelled, Step
<1>5. /\ rec \in TaskRec /\ rec.kid = task[h].kid /\ rec.at = task[h].at
      /\ rec.pc \in {"judge", "read file", "idle"}
  BY <1>2, <1>3, NotRefreshedRecord
<1>6. RecOK(h, rec, now, retired)
  BY <1>2, <1>4, <1>5, PlainRecord
<1> QED BY <1>2, <1>4, <1>5, <1>6, Quietly DEF WaitCancelled, Fetching

LEMMA RefreshWaitsPreserves ==
  ASSUME CacheInv, NEW h \in Task, RefreshWaits(h)
  PROVE  CacheInv'
<1>1. PICK rec : rec = [task[h] EXCEPT !.pc = "wait", !.on = inflight]
  OBVIOUS
<1>2. task[h].pc = "refresh" /\ task' = [task EXCEPT ![h] = rec]
  BY <1>1 DEF RefreshWaits, Step
<1>3. inflight \in Task
  BY DEF RefreshWaits, Alone, CacheInv, StoreOK
<1>4. /\ rec \in TaskRec /\ rec.pc = "wait" /\ rec.kid = task[h].kid /\ rec.at = task[h].at
      /\ rec.on = inflight
  BY <1>1, <1>3, Recorded DEF TaskRec, Running
<1>5. RecOK(h, rec, now, retired)
  BY <1>2, <1>3, <1>4, Recorded DEF RecOK
<1>6. TasksOK'
  BY <1>2, <1>4, <1>5, OneRecord DEF RefreshWaits, CacheInv, opVars
<1>7. StoreOK'
  <2>1. file' \subseteq Kid /\ state' \in State
    BY DEF RefreshWaits, CacheInv, StoreOK
  <2> QED BY <2>1, SameStore DEF RefreshWaits, CacheInv
<1>8. SingleFlight'
  <2>1. \A w \in Task : task'[w] = IF w = h THEN rec ELSE task[w]
    BY <1>2 DEF CacheInv, TasksOK
  <2>2. inflight' = inflight /\ task[inflight].pc \in Fetching
    BY <1>3 DEF RefreshWaits, CacheInv, SingleFlight
  <2>3. \A w \in Task : task'[w].pc \in Fetching <=> inflight' = w
    BY <1>2, <1>4, <2>1, <2>2 DEF CacheInv, SingleFlight, Fetching
  <2>4. ASSUME NEW w \in Task, task'[w].pc = "wait"
        PROVE  task'[task'[w].on].pc \in Fetching \cup {"close"}
    <3>1. CASE w = h
      <4>1. inflight # h
        BY <1>2, <2>2 DEF Fetching
      <4>2. task'[w].on = inflight
        BY <1>4, <2>1, <3>1
      <4> QED BY <1>3, <2>1, <2>2, <4>1, <4>2
    <3>2. CASE w # h
      <4>1. task'[w] = task[w] /\ task[w].on \in Task
        BY <2>1, <2>4, <3>2, Recorded DEF RecOK
      <4>2. task[task[w].on].pc \in Fetching \cup {"close"}
        BY <2>4, <4>1 DEF CacheInv, SingleFlight
      <4>3. task[w].on # h
        BY <1>2, <4>2 DEF Fetching
      <4> QED BY <2>1, <4>1, <4>2, <4>3
    <3> QED BY <3>1, <3>2
  <2> QED BY <2>3, <2>4 DEF SingleFlight
<1> QED BY <1>6, <1>7, <1>8 DEF CacheInv

\* A step of a task that stays the leader of its followers.
LEMMA Leading ==
  ASSUME CacheInv, NEW h \in Task, NEW rec \in TaskRec,
         task' = [task EXCEPT ![h] = rec],
         task[h].pc # "wait", rec.pc \in Fetching \cup {"close"}
  PROVE  \A w \in Task : task'[w].pc = "wait"
                           => task'[task'[w].on].pc \in Fetching \cup {"close"}
<1> SUFFICES ASSUME NEW w \in Task, task'[w].pc = "wait"
             PROVE  task'[task'[w].on].pc \in Fetching \cup {"close"}
  OBVIOUS
<1>1. \A x \in Task : task'[x] = IF x = h THEN rec ELSE task[x]
  BY DEF CacheInv, TasksOK
<1>2. task'[w] = task[w]
  BY <1>1 DEF Fetching
<1>3. task[w].on \in Task
  BY <1>2, Recorded DEF RecOK
<1>4. task[task[w].on].pc \in Fetching \cup {"close"}
  BY <1>2 DEF CacheInv, SingleFlight
<1> QED BY <1>1, <1>2, <1>3, <1>4

LEMMA RefreshLeadsPreserves ==
  ASSUME CacheInv, NEW h \in Task, RefreshLeads(h)
  PROVE  CacheInv'
<1>1. PICK rec : rec = [task[h] EXCEPT !.pc = "fetch"]
  OBVIOUS
<1>2. task[h].pc = "refresh" /\ task' = [task EXCEPT ![h] = rec]
  BY <1>1 DEF RefreshLeads, Step
<1>3. rec \in TaskRec /\ rec.pc = "fetch" /\ rec.kid = task[h].kid /\ rec.at = task[h].at
  BY <1>1, Recorded DEF TaskRec, Running
<1>4. RecOK(h, rec, now, retired)
  BY <1>2, <1>3, PlainRecord
<1>5. TasksOK'
  BY <1>2, <1>3, <1>4, OneRecord DEF RefreshLeads, CacheInv, opVars
<1>6. StoreOK'
  BY DEF RefreshLeads, CacheInv, StoreOK, opVars, cacheVars
<1>7. SingleFlight'
  <2>1. \A w \in Task : task'[w] = IF w = h THEN rec ELSE task[w]
    BY <1>2 DEF CacheInv, TasksOK
  <2>2. \A w \in Task : task[w].pc \notin Fetching
    BY NullAssumption DEF RefreshLeads, Alone, CacheInv, SingleFlight, Task
  <2>3. \A w \in Task : task'[w].pc \in Fetching <=> inflight' = w
    BY <1>3, <2>1, <2>2 DEF Fetching, RefreshLeads
  <2>4. \A w \in Task : task'[w].pc = "wait"
                          => task'[task'[w].on].pc \in Fetching \cup {"close"}
    BY <1>2, <1>3, Leading DEF Fetching
  <2> QED BY <2>3, <2>4 DEF SingleFlight
<1> QED BY <1>5, <1>6, <1>7 DEF CacheInv

LEMMA FetchPreserves ==
  ASSUME CacheInv, NEW h \in Task, Fetch(h)
  PROVE  CacheInv'
<1>1. PICK got \in {published, {}} : Step(h, "fetch", [task[h] EXCEPT !.pc = "land", !.got = got])
  BY DEF Fetch
<1>2. PICK rec : rec = [task[h] EXCEPT !.pc = "land", !.got = got]
  OBVIOUS
<1>3. task[h].pc = "fetch" /\ task' = [task EXCEPT ![h] = rec]
  BY <1>1, <1>2 DEF Step
<1>4. got \in SUBSET Kid /\ \A k \in got : retired[k] = 0
  BY DEF CacheInv, StoreOK
<1>5. /\ rec \in TaskRec /\ rec.pc = "land" /\ rec.kid = task[h].kid /\ rec.at = task[h].at
      /\ rec.got = got
  BY <1>2, <1>4, Recorded DEF TaskRec, Running
<1>6. RecOK(h, rec, now, retired)
  BY <1>3, <1>4, <1>5, Recorded DEF RecOK, Since
<1>7. TasksOK'
  BY <1>3, <1>5, <1>6, OneRecord DEF Fetch, CacheInv, opVars
<1>8. StoreOK'
  <2>1. file' \subseteq Kid /\ state' \in State
    BY DEF Fetch, CacheInv, StoreOK
  <2> QED BY <2>1, SameStore DEF Fetch, CacheInv
<1>9. SingleFlight'
  <2>1. \A w \in Task : task'[w] = IF w = h THEN rec ELSE task[w]
    BY <1>3 DEF CacheInv, TasksOK
  <2>2. \A w \in Task : task'[w].pc \in Fetching <=> inflight' = w
    BY <1>3, <1>5, <2>1 DEF Fetching, Fetch, CacheInv, SingleFlight
  <2>3. \A w \in Task : task'[w].pc = "wait"
                          => task'[task'[w].on].pc \in Fetching \cup {"close"}
    BY <1>3, <1>5, Leading DEF Fetching
  <2> QED BY <2>2, <2>3 DEF SingleFlight
<1> QED BY <1>7, <1>8, <1>9 DEF CacheInv

LEMMA LandPreserves ==
  ASSUME CacheInv, NEW h \in Task, Land(h)
  PROVE  CacheInv'
<1> DEFINE u == task[h].got # {} \/ Usable
           d == IF task[h].got = {} THEN 0 ELSE now
<1>1. PICK rec : rec = [task[h] EXCEPT !.pc = "close", !.usable = u, !.led = d]
  OBVIOUS
<1>2. task[h].pc = "land" /\ task' = [task EXCEPT ![h] = rec] /\ inflight' = NoTask
  BY <1>1 DEF Land, Step
<1>3. rec \in TaskRec /\ rec.pc = "close" /\ rec.kid = task[h].kid /\ rec.at = task[h].at
  <2>1. u \in BOOLEAN /\ d \in 0 .. MaxTime
    BY TimeAssumption DEF CacheInv, StoreOK
  <2> HIDE DEF u, d
  <2> QED BY <1>1, <2>1, Recorded DEF TaskRec, Running
<1>4. RecOK(h, rec, now, retired)
  BY <1>2, <1>3, PlainRecord
<1>5. TasksOK'
  BY <1>2, <1>3, <1>4, OneRecord DEF Land, CacheInv, opVars
<1>6. StoreOK'
  <2>1. /\ task[h].got \subseteq Kid
        /\ \A k \in task[h].got : Since(k, now, retired)
    BY <1>2, Recorded DEF RecOK, TaskRec
  <2>2. CASE Replaces(task[h].got)
    BY <1>2, <2>1, <2>2 DEF Land, Replaces, CacheInv, StoreOK, opVars, Source, Since
  <2>3. CASE ~Replaces(task[h].got)
    BY <1>2, <2>3 DEF Land, CacheInv, StoreOK, opVars, cacheVars
  <2> QED BY <2>2, <2>3
<1>7. SingleFlight'
  <2>1. \A w \in Task : task'[w] = IF w = h THEN rec ELSE task[w]
    BY <1>2 DEF CacheInv, TasksOK
  <2>2. \A w \in Task : w # h => task[w].pc \notin Fetching
    BY <1>2 DEF CacheInv, SingleFlight, Fetching
  <2>3. \A w \in Task : task'[w].pc \in Fetching <=> inflight' = w
    BY <1>2, <1>3, <2>1, <2>2, NullAssumption DEF Fetching, Task
  <2>4. \A w \in Task : task'[w].pc = "wait"
                          => task'[task'[w].on].pc \in Fetching \cup {"close"}
    BY <1>2, <1>3, Leading DEF Fetching
  <2> QED BY <2>3, <2>4 DEF SingleFlight
<1> QED BY <1>5, <1>6, <1>7 DEF CacheInv

\* Where the leader of a fetch goes on.
LEMMA LeaderRecord ==
  ASSUME CacheInv, NEW h \in Task
  PROVE  /\ Leader(h) \in TaskRec
         /\ Leader(h).kid = task[h].kid /\ Leader(h).at = task[h].at
         /\ Leader(h).pc \in {"read file", "snapshot", "again", "judge", "idle"}
<1>1. task[h] \in TaskRec
  BY Recorded
<1>2. CASE task[h].got = {} /\ task[h].usable /\ HasFile
  <2>1. PICK t : t = [task[h] EXCEPT !.pc = "read file"]
    OBVIOUS
  <2>2. Leader(h) = t /\ "read file" \in Place
    BY <1>2, <2>1 DEF Leader, Place, Running
  <2>3. t \in TaskRec /\ t.kid = task[h].kid /\ t.at = task[h].at /\ t.pc = "read file"
    BY <1>1, <2>1 DEF TaskRec, Running
  <2> QED BY <2>2, <2>3
<1>3. CASE task[h].got = {} /\ ~(task[h].usable /\ HasFile)
  <2>1. PICK t : t = task[h]
    OBVIOUS
  <2>2. Leader(h) = NotRefreshed(h, t)
    BY <1>3, <2>1 DEF Leader
  <2>3. /\ NotRefreshed(h, t) \in TaskRec /\ NotRefreshed(h, t).kid = t.kid /\ NotRefreshed(h, t).at = t.at
        /\ NotRefreshed(h, t).pc \in {"judge", "read file", "idle"}
    BY <1>1, <2>1, NotRefreshedRecord
  <2> QED BY <2>1, <2>2, <2>3
<1>4. CASE task[h].got # {} /\ HasFile
  <2>1. PICK t : t = [task[h] EXCEPT !.pc = "snapshot"]
    OBVIOUS
  <2>2. Leader(h) = t /\ "snapshot" \in Place
    BY <1>4, <2>1 DEF Leader, Place, Running
  <2>3. t \in TaskRec /\ t.kid = task[h].kid /\ t.at = task[h].at /\ t.pc = "snapshot"
    BY <1>1, <2>1, <2>2, Moved
  <2> QED BY <2>2, <2>3
<1>5. CASE task[h].got # {} /\ ~HasFile
  <2>1. PICK t : t = task[h]
    OBVIOUS
  <2>2. Leader(h) = Refreshed(h, t)
    BY <1>5, <2>1 DEF Leader
  <2>3. /\ Refreshed(h, t) \in TaskRec /\ Refreshed(h, t).kid = t.kid /\ Refreshed(h, t).at = t.at
        /\ Refreshed(h, t).pc \in {"again", "idle"}
    BY <1>1, <2>1, RefreshedRecord
  <2> QED BY <2>1, <2>2, <2>3
<1> QED BY <1>2, <1>3, <1>4, <1>5

LEMMA ClosePreserves ==
  ASSUME CacheInv, NEW h \in Task, Close(h)
  PROVE  CacheInv'
<1>1. /\ task[h].pc = "close"
      /\ \A w \in Task : task'[w] = CASE w = h -> Leader(h)
                                      [] w \in Woken(h) -> Refreshed(w, [task[w] EXCEPT !.on = NoTask])
                                      [] OTHER -> task[w]
      /\ DOMAIN task' = Task /\ task' = [w \in Task |-> task'[w]]
  BY DEF Close
<1>2. h \notin Woken(h) /\ \A w \in Woken(h) : task[w].pc = "wait"
  BY <1>1 DEF Woken, Waiting
<1>3. /\ task'[h] = Leader(h)
      /\ \A w \in Task : w # h /\ w \notin Woken(h) => task'[w] = task[w]
  <2>1. task'[h] = Leader(h)
    BY <1>1, <1>2
  <2>2. ASSUME NEW w \in Task, w # h, w \notin Woken(h)
        PROVE  task'[w] = task[w]
    BY <1>1, <2>2
  <2> QED BY <2>1, <2>2
<1>4. ASSUME NEW w \in Task, w \in Woken(h)
      PROVE  /\ task'[w] \in TaskRec /\ task'[w].kid = task[w].kid /\ task'[w].at = task[w].at
             /\ task'[w].pc \in {"again", "idle"}
  <2>1. PICK t : t = [task[w] EXCEPT !.on = NoTask]
    OBVIOUS
  <2>2. t \in TaskRec /\ t.kid = task[w].kid /\ t.at = task[w].at
    BY <2>1, Recorded DEF TaskRec
  <2>3. task'[w] = Refreshed(w, t)
    BY <1>1, <1>2, <1>4, <2>1
  <2> QED BY <2>2, <2>3, RefreshedRecord
<1>5. /\ task'[h] \in TaskRec /\ task'[h].kid = task[h].kid /\ task'[h].at = task[h].at
      /\ task'[h].pc \in {"read file", "snapshot", "again", "judge", "idle"}
  BY <1>3, LeaderRecord
<1>6. ASSUME NEW w \in Task
      PROVE  task'[w] \in TaskRec /\ RecOK(w, task'[w], now, retired)
  <2>1. CASE w # h /\ w \notin Woken(h)
    BY <1>3, <2>1, Recorded
  <2>2. CASE w = h \/ w \in Woken(h)
    <3>1. PICK rec : rec = task'[w]
      OBVIOUS
    <3>2. /\ rec \in TaskRec /\ rec.kid = task[w].kid /\ rec.at = task[w].at
          /\ rec.pc \notin {"wait", "land", "install", "key"} /\ task[w].pc # "idle"
      BY <1>1, <1>2, <1>4, <1>5, <2>2, <3>1
    <3>3. RecOK(w, rec, now, retired)
      BY <3>2, PlainRecord
    <3> QED BY <3>1, <3>2, <3>3
  <2> QED BY <2>1, <2>2
<1>7. TasksOK'
  BY <1>1, <1>6 DEF TasksOK, Close, opVars
<1>8. StoreOK'
  <2>1. file' \subseteq Kid /\ state' \in State
    BY DEF Close, CacheInv, StoreOK, State
  <2> QED BY <2>1, SameStore DEF Close, CacheInv
<1>9. SingleFlight'
  <2>1. ASSUME NEW w \in Task
        PROVE  task'[w].pc \in Fetching <=> task[w].pc \in Fetching
    BY <1>1, <1>2, <1>3, <1>4, <1>5 DEF Fetching
  <2>2. \A w \in Task : task'[w].pc \in Fetching <=> inflight' = w
    BY <2>1 DEF Close, CacheInv, SingleFlight
  <2>3. ASSUME NEW w \in Task, task'[w].pc = "wait"
        PROVE  task'[task'[w].on].pc \in Fetching \cup {"close"}
    <3>1. w # h /\ w \notin Woken(h) /\ task'[w] = task[w]
      BY <1>3, <1>4, <1>5, <2>3
    <3>2. task[w].on \in Task /\ task[w].on # h
      BY <2>3, <3>1, Recorded DEF RecOK, Woken, Waiting
    <3>3. task[task[w].on].pc \in Fetching \cup {"close"}
      BY <2>3, <3>1 DEF CacheInv, SingleFlight
    <3>4. task[w].on \notin Woken(h)
      BY <1>2, <3>3 DEF Fetching
    <3> QED BY <1>3, <3>1, <3>2, <3>3, <3>4
  <2> QED BY <2>2, <2>3 DEF SingleFlight
<1> QED BY <1>7, <1>8, <1>9 DEF CacheInv

-----------------------------------------------------------------------------
(* The fallback file.                                                      *)

LEMMA ReadFileFailsPreserves ==
  ASSUME CacheInv, NEW h \in Task, ReadFileFails(h)
  PROVE  CacheInv'
<1> DEFINE p == IF h \in Call THEN "judge" ELSE "idle"
<1>1. PICK rec : rec = [task[h] EXCEPT !.pc = p]
  OBVIOUS
<1>2. task[h].pc = "read file" /\ task' = [task EXCEPT ![h] = rec]
  BY <1>1 DEF ReadFileFails, Step
<1>3. p \in {"judge", "idle"} /\ p \in Place
  BY DEF Place, Running
<1>4. rec \in TaskRec /\ rec.pc = p /\ rec.kid = task[h].kid /\ rec.at = task[h].at
  <2> HIDE DEF p
  <2> QED BY <1>1, <1>3, Recorded, Moved
<1>5. RecOK(h, rec, now, retired)
  BY <1>2, <1>3, <1>4, PlainRecord
<1>6. file' \subseteq Kid /\ state' \in State
  BY DEF ReadFileFails, CacheInv, StoreOK, State
<1> QED BY <1>2, <1>3, <1>4, <1>5, <1>6, QuietStep DEF ReadFileFails, Fetching

LEMMA ReadFilePreserves ==
  ASSUME CacheInv, NEW h \in Task, ReadFile(h)
  PROVE  CacheInv'
<1>1. PICK rec : rec = [task[h] EXCEPT !.pc = "install", !.got = file]
  OBVIOUS
<1>2. task[h].pc = "read file" /\ task' = [task EXCEPT ![h] = rec] /\ file # {}
  BY <1>1 DEF ReadFile, Step
<1>3. file \in SUBSET Kid
  BY DEF CacheInv, StoreOK
<1>4. /\ rec \in TaskRec /\ rec.pc = "install" /\ rec.kid = task[h].kid /\ rec.at = task[h].at
      /\ rec.got = file
  BY <1>1, <1>3, Recorded DEF TaskRec, Running
<1>5. RecOK(h, rec, now, retired)
  BY <1>2, <1>4, Recorded DEF RecOK
<1> QED BY <1>2, <1>4, <1>5, Quietly DEF ReadFile, Fetching

LEMMA InstallPreserves ==
  ASSUME CacheInv, NEW h \in Task, Install(h)
  PROVE  CacheInv'
<1> DEFINE p == IF h \in Call THEN "judge" ELSE "idle"
<1>1. PICK rec : rec = [task[h] EXCEPT !.got = {}, !.pc = p]
  OBVIOUS
<1>2. task[h].pc = "install" /\ task' = [task EXCEPT ![h] = rec]
  BY <1>1 DEF Install, Step
<1>3. p \in {"judge", "idle"} /\ p \in Place
  BY DEF Place, Running
<1>4. rec \in TaskRec /\ rec.pc = p /\ rec.kid = task[h].kid /\ rec.at = task[h].at
  <2> HIDE DEF p
  <2> QED BY <1>1, <1>3, Recorded DEF TaskRec, Place
<1>5. RecOK(h, rec, now, retired)
  BY <1>2, <1>3, <1>4, PlainRecord
<1>6. TasksOK'
  BY <1>2, <1>4, <1>5, OneRecord DEF Install, CacheInv, opVars
<1>7. SingleFlight'
  BY <1>2, <1>3, <1>4, QuietFlight DEF Install, CacheInv, Fetching
<1>8. StoreOK'
  <2>1. task[h].got \subseteq Kid /\ task[h].got # {}
    BY <1>2, Recorded DEF RecOK, TaskRec
  <2> QED BY <2>1 DEF Install, CacheInv, StoreOK, opVars, Source, State
<1> QED BY <1>6, <1>7, <1>8 DEF CacheInv

LEMMA SnapshotPreserves ==
  ASSUME CacheInv, NEW h \in Task, Snapshot(h)
  PROVE  CacheInv'
<1>1. PICK rec : rec = [task[h] EXCEPT !.pc = "truncate", !.got = keys]
  OBVIOUS
<1>2. task[h].pc = "snapshot" /\ task' = [task EXCEPT ![h] = rec]
  BY <1>1 DEF Snapshot, Step
<1>3. keys \in SUBSET Kid
  BY DEF CacheInv, StoreOK
<1>4. rec \in TaskRec /\ rec.pc = "truncate" /\ rec.kid = task[h].kid /\ rec.at = task[h].at
  BY <1>1, <1>3, Recorded DEF TaskRec, Running
<1>5. RecOK(h, rec, now, retired)
  BY <1>2, <1>4, PlainRecord
<1> QED BY <1>2, <1>4, <1>5, Quietly DEF Snapshot, Fetching

LEMMA TruncatePreserves ==
  ASSUME CacheInv, NEW h \in Task, Truncate(h)
  PROVE  CacheInv'
<1>1. PICK rec \in {[task[h] EXCEPT !.pc = "write"], Refreshed(h, task[h])} :
        task[h].pc = "truncate" /\ task' = [task EXCEPT ![h] = rec]
  BY DEF Truncate, Step
<1>2. /\ rec \in TaskRec /\ rec.kid = task[h].kid /\ rec.at = task[h].at
      /\ rec.pc \in {"write", "again", "idle"}
  <2>1. "write" \in Place
    BY DEF Place, Running
  <2>2. CASE rec = [task[h] EXCEPT !.pc = "write"]
    BY <2>1, <2>2, Recorded, Moved
  <2>3. CASE rec = Refreshed(h, task[h])
    BY <2>3, Recorded, RefreshedRecord
  <2> QED BY <1>1, <2>2, <2>3
<1>3. RecOK(h, rec, now, retired)
  BY <1>1, <1>2, PlainRecord
<1>4. file' \subseteq Kid /\ state' \in State
  BY DEF Truncate, CacheInv, StoreOK, State
<1> QED BY <1>1, <1>2, <1>3, <1>4, QuietStep DEF Truncate, Fetching

LEMMA WritePreserves ==
  ASSUME CacheInv, NEW h \in Task, Write(h)
  PROVE  CacheInv'
<1>1. PICK rec : rec = Refreshed(h, task[h])
  OBVIOUS
<1>2. task[h].pc = "write" /\ task' = [task EXCEPT ![h] = rec]
  BY <1>1 DEF Write, Step
<1>3. /\ rec \in TaskRec /\ rec.kid = task[h].kid /\ rec.at = task[h].at
      /\ rec.pc \in {"again", "idle"}
  BY <1>1, Recorded, RefreshedRecord
<1>4. RecOK(h, rec, now, retired)
  BY <1>2, <1>3, PlainRecord
<1>5. file' \subseteq Kid /\ state' \in State
  <2>1. task[h].got \subseteq Kid
    BY Recorded DEF TaskRec
  <2> QED BY <2>1 DEF Write, CacheInv, StoreOK, State
<1> QED BY <1>2, <1>3, <1>4, <1>5, QuietStep DEF Write, Fetching

-----------------------------------------------------------------------------
(* The ticker, restarts, the provider and the clock.                       *)

LEMMA BackgroundRefreshPreserves ==
  ASSUME CacheInv, BackgroundRefresh
  PROVE  CacheInv'
<1>1. PICK rec : rec = Booting
  OBVIOUS
<1>2. task[Main].pc = "idle" /\ task' = [task EXCEPT ![Main] = rec] /\ Main \in Task
  BY <1>1 DEF BackgroundRefresh, Step, Task
<1>3. rec \in TaskRec /\ rec.pc = "refresh" /\ rec.at = 0
  BY <1>1, NewTaskTyped, NewTaskFields
<1>4. RecOK(Main, rec, now, retired)
  BY <1>3, NullAssumption DEF RecOK, CacheInv, StoreOK
<1>5. TasksOK'
  BY <1>2, <1>3, <1>4, OneRecord DEF BackgroundRefresh, CacheInv, opVars
<1>6. SingleFlight'
  BY <1>2, <1>3, QuietFlight DEF BackgroundRefresh, CacheInv, Fetching
<1>7. StoreOK'
  BY DEF BackgroundRefresh, CacheInv, StoreOK, opVars, cacheVars
<1> QED BY <1>5, <1>6, <1>7 DEF CacheInv

LEMMA RestartPreserves ==
  ASSUME CacheInv, Restart
  PROVE  CacheInv'
<1>1. ASSUME NEW h \in Task
      PROVE  /\ task'[h] \in TaskRec /\ RecOK(h, task'[h], now, retired)
             /\ task'[h].pc \notin Fetching \cup {"wait"}
  <2>1. CASE h = Main
    <3>1. task'[h] = Booting
      BY <2>1 DEF Restart, Fresh, Task
    <3> QED BY <2>1, <3>1, NewTaskTyped, NewTaskFields, NullAssumption
            DEF RecOK, CacheInv, StoreOK, Fetching
  <2>2. CASE h # Main /\ task[h].pc \in Running
    <3>1. PICK rec : rec = [task[h] EXCEPT !.pc = "lost", !.got = {}, !.on = NoTask]
      OBVIOUS
    <3>2. task'[h] = rec
      BY <2>2, <3>1 DEF Restart, Fresh
    <3>3. rec \in TaskRec /\ rec.pc = "lost" /\ rec.kid = task[h].kid /\ rec.at = task[h].at
      BY <3>1, Recorded DEF TaskRec, Ended
    <3>4. task[h].pc # "idle"
      BY <2>2 DEF Running
    <3>5. RecOK(h, rec, now, retired)
      BY <3>3, <3>4, PlainRecord
    <3> QED BY <3>2, <3>3, <3>5 DEF Fetching
  <2>3. CASE h # Main /\ task[h].pc \notin Running
    <3>1. task'[h] = task[h]
      BY <2>3 DEF Restart, Fresh
    <3> QED BY <2>3, <3>1, Recorded DEF Running, Fetching
  <2> QED BY <2>1, <2>2, <2>3
<1>2. task' = [h \in Task |-> task'[h]]
  BY DEF Restart, Fresh
<1>3. TasksOK'
  BY <1>1, <1>2 DEF TasksOK, Restart, opVars
<1>4. SingleFlight'
  BY <1>1, NullAssumption DEF SingleFlight, Restart, Task
<1>5. StoreOK'
  <2>1. 0 \in 0 .. MaxTime /\ 0 <= now /\ now \in 0 .. MaxTime
    BY TimeAssumption DEF CacheInv, StoreOK
  <2>2. restarts' \in 0 .. MaxRestarts
    <3>1. restarts \in 0 .. MaxRestarts /\ restarts < MaxRestarts /\ restarts' = restarts + 1
      BY DEF Restart, CacheInv, StoreOK
    <3> QED BY <3>1, TimeAssumption
  <2> QED BY <2>1, <2>2 DEF Restart, CacheInv, StoreOK, opVars, Source, State
<1> QED BY <1>3, <1>4, <1>5 DEF CacheInv

LEMMA PublishKeyPreserves ==
  ASSUME CacheInv, NEW k \in Kid, PublishKey(k)
  PROVE  CacheInv'
<1>1. StoreOK'
  BY DEF PublishKey, CacheInv, StoreOK, cacheVars
<1>2. TasksOK' /\ SingleFlight'
  BY DEF PublishKey, CacheInv, TasksOK, SingleFlight
<1> QED BY <1>1, <1>2 DEF CacheInv

LEMMA RetireKeyPreserves ==
  ASSUME CacheInv, NEW k \in Kid, RetireKey(k)
  PROVE  CacheInv'
<1>1. /\ retired' = [retired EXCEPT ![k] = now]
      /\ \A x \in Kid : retired'[x] = IF x = k THEN now ELSE retired[x]
      /\ now' = now /\ now \in Nat
  BY DEF RetireKey, CacheInv, StoreOK
<1>2. ASSUME NEW h \in Task
      PROVE  /\ task'[h] \in TaskRec
             /\ task'[h].pc = task[h].pc /\ task'[h].on = task[h].on
             /\ task'[h].got = task[h].got /\ task'[h].kid = task[h].kid
             /\ task'[h].at = task[h].at /\ task'[h].from = task[h].from
  <2>1. CASE task[h].kid = k
    <3>1. task'[h] = [task[h] EXCEPT !.steady = FALSE]
      BY <2>1 DEF RetireKey
    <3> QED BY <3>1, Recorded DEF TaskRec
  <2>2. CASE task[h].kid # k
    BY <2>2, Recorded DEF RetireKey
  <2> QED BY <2>1, <2>2
<1>3. ASSUME NEW h \in Task
      PROVE  RecOK(h, task'[h], now', retired')
  <2>1. PICK t : t = task'[h]
    OBVIOUS
  <2>2. RecOK(h, task[h], now, retired) /\ task[h].got \subseteq Kid /\ task[h].at \in Nat
    BY Recorded DEF TaskRec
  <2>3. t.pc = "land" => \A x \in t.got : Since(x, now, retired')
    BY <1>1, <1>2, <2>1, <2>2 DEF RecOK, Since
  <2>4. h \in Call /\ t.pc = "key" /\ t.from = "net"
          => retired'[t.kid] = 0 \/ t.at - retired'[t.kid] <= MaxAge
    <3>1. SUFFICES ASSUME h \in Call, t.pc = "key", t.from = "net"
                   PROVE  retired'[t.kid] = 0 \/ t.at - retired'[t.kid] <= MaxAge
      OBVIOUS
    <3>2. t.kid \in Kid /\ t.at <= now /\ t.at \in Nat
      BY <1>2, <2>1, <2>2, <3>1 DEF RecOK
    <3>3. CASE t.kid = k
      BY <1>1, <3>2, <3>3, TimeAssumption
    <3>4. CASE t.kid # k
      BY <1>1, <1>2, <2>1, <2>2, <3>1, <3>2, <3>4 DEF RecOK
    <3> QED BY <3>3, <3>4
  <2> QED BY <1>1, <1>2, <2>1, <2>2, <2>3, <2>4 DEF RecOK
<1>4. TasksOK'
  <2>1. task' = [h \in Task |-> task'[h]]
    BY DEF RetireKey
  <2> QED BY <1>2, <1>3, <2>1 DEF TasksOK
<1>5. SingleFlight'
  <2>1. \A h \in Task : task'[h].pc \in Fetching <=> inflight' = h
    BY <1>2 DEF RetireKey, CacheInv, SingleFlight
  <2>2. ASSUME NEW h \in Task, task'[h].pc = "wait"
        PROVE  task'[task'[h].on].pc \in Fetching \cup {"close"}
    <3>1. task[h].on \in Task /\ task'[h].on = task[h].on
      BY <1>2, <2>2, Recorded DEF RecOK
    <3>2. task[task[h].on].pc \in Fetching \cup {"close"}
      BY <1>2, <2>2 DEF CacheInv, SingleFlight
    <3> QED BY <1>2, <3>1, <3>2
  <2> QED BY <2>1, <2>2 DEF SingleFlight
<1>6. StoreOK'
  <2>1. \A x \in published' : retired'[x] = 0
    BY <1>1 DEF RetireKey, CacheInv, StoreOK
  <2>2. retired' \in [Kid -> 0 .. MaxTime]
    BY <1>1 DEF CacheInv, StoreOK
  <2>3. source = "net" => \A x \in keys : Since(x, fetchedAt, retired')
    BY <1>1 DEF CacheInv, StoreOK, Since
  <2> QED BY <1>1, <2>1, <2>2, <2>3 DEF RetireKey, CacheInv, StoreOK, cacheVars
<1> QED BY <1>4, <1>5, <1>6 DEF CacheInv

LEMMA TickPreserves ==
  ASSUME CacheInv, Tick
  PROVE  CacheInv'
<1>1. StoreOK'
  BY TimeAssumption DEF Tick, CacheInv, StoreOK, opVars, cacheVars
<1>2. SingleFlight'
  BY DEF Tick, CacheInv, SingleFlight
<1>3. ASSUME NEW h \in Task
      PROVE  RecOK(h, task[h], now + 1, retired)
  <2>1. /\ RecOK(h, task[h], now, retired) /\ task[h].at \in Nat /\ now \in Nat
        /\ task[h].pc # "land"
    BY Recorded DEF Tick, TaskRec, CacheInv, StoreOK
  <2> QED BY <2>1 DEF RecOK
<1>4. TasksOK'
  BY <1>3 DEF Tick, CacheInv, TasksOK, opVars
<1> QED BY <1>1, <1>2, <1>4 DEF CacheInv

-----------------------------------------------------------------------------
(* The theorems.                                                           *)

LEMMA NextPreserves == CacheInv /\ [Next]_vars => CacheInv'
<1> SUFFICES ASSUME CacheInv, [Next]_vars PROVE CacheInv'
  OBVIOUS
<1>1. ASSUME NEW h \in Task, Proceed(h) PROVE CacheInv'
  <2>1. CASE Refresh(h)
    BY <2>1, RefreshLimitedPreserves, RefreshWaitsPreserves, RefreshLeadsPreserves DEF Refresh
  <2>2. CASE Fallback(h)
    BY <2>2, ReadFilePreserves, ReadFileFailsPreserves, InstallPreserves DEF Fallback
  <2>3. CASE Persist(h)
    BY <2>3, SnapshotPreserves, TruncatePreserves, WritePreserves DEF Persist
  <2>4. CASE LookAgain(h) \/ Judge(h) \/ Fetch(h) \/ Land(h) \/ Close(h)
    BY <2>4, LookAgainPreserves, JudgePreserves, FetchPreserves, LandPreserves, ClosePreserves
  <2> QED BY <1>1, <2>1, <2>2, <2>3, <2>4 DEF Proceed
<1>2. ASSUME NEW h \in Call, NEW k \in Kid, Verify(h, k) PROVE CacheInv'
  BY <1>2, VerifyPreserves
<1>3. ASSUME NEW h \in Call, WaitCancelled(h) PROVE CacheInv'
  BY <1>3, WaitCancelledPreserves
<1>4. CASE BackgroundRefresh \/ Restart \/ Tick
  BY <1>4, BackgroundRefreshPreserves, RestartPreserves, TickPreserves
<1>5. ASSUME NEW k \in Kid, PublishKey(k) \/ RetireKey(k) PROVE CacheInv'
  BY <1>5, PublishKeyPreserves, RetireKeyPreserves
<1>6. CASE UNCHANGED vars
  BY <1>6 DEF vars, opVars, cacheVars, CacheInv, StoreOK, TasksOK, SingleFlight
<1> QED BY <1>1, <1>2, <1>3, <1>4, <1>5, <1>6 DEF Next

\* The inductive invariant of the cache: the key set it holds, the answers on
\* their way to it and the keys it has verified are as young as the limits say.
THEOREM CacheInvariant == Spec => []CacheInv
  BY InitHolds, NextPreserves, PTL DEF Spec

\* Every variable keeps its type.
THEOREM CacheTypes == Spec => []TypeOK
<1>1. CacheInv => TypeOK
  BY DEF CacheInv, StoreOK, TasksOK, TypeOK, TaskRec, Source, State
<1> QED BY <1>1, CacheInvariant, PTL

\* One fetch is in flight at a time, and whoever waits waits for a task that
\* will close its channel (refresh, keys.go).
THEOREM OneFetchInFlight == Spec => []SingleFlight
<1>1. CacheInv => SingleFlight
  BY DEF CacheInv
<1> QED BY <1>1, CacheInvariant, PTL

\* A key set that came from the provider verifies no token by a key that was
\* retired more than the maximal age before (PublicKey and usableLocked, keys.go).
THEOREM RetiredKeysStopVerifying == Spec => []RetiredKeysDie
<1>1. CacheInv => RetiredKeysDie
  BY DEF CacheInv, TasksOK, RecOK, RetiredKeysDie, Task
<1> QED BY <1>1, CacheInvariant, PTL

-----------------------------------------------------------------------------
(* A call finds the keys it fetched.                                       *)

\* Where a call has cached a key set of its own, and has not looked at it again.
Holding == {"close", "snapshot", "truncate", "write", "again"}

\* What is known of a call, by where it stands: a key that was published all
\* along is published, is in the answer that the call brings, and is in the
\* key set from the moment the call has cached its own until it looks again.
Own(t) ==
  /\ t.steady => t.kid \in published
  /\ t.pc = "land" /\ t.got # {} /\ t.steady => t.kid \in t.got
  /\ t.led # 0 => t.pc \in Holding \cup {"judge"} \cup Ended
  /\ t.led # 0 /\ t.pc = "close" => t.got # {}
  /\ t.led # 0 /\ t.pc \in Holding =>
       t.led <= fetchedAt /\ (t.steady /\ source = "net" => t.kid \in keys)
  /\ t.led # 0 /\ t.pc \in {"judge", "unknown"} /\ t.at - t.led <= MaxAge /\ t.from = "net" => ~t.steady

\* An answer that comes after it has the key as well.
Later(t, w) ==
  t.led # 0 /\ t.pc \in Holding /\ t.steady /\ w.pc = "land" /\ w.got # {} => t.kid \in w.got

OwnInv ==
  /\ CacheInv
  /\ \A h \in Call : Own(task[h])
  /\ \A h \in Call, w \in Task : Later(task[h], task[w])

\* A record that holds no key set of its own, and brings no answer.
LEMMA Unfetched ==
  ASSUME NEW t, t.led = 0, t.pc # "land", t.steady => t.kid \in published
  PROVE  Own(t)
  BY DEF Own

\* A step that leaves the cache, and after which no answer has come, keeps the
\* invariant when the record that is written is sound and holds what it held.
LEMMA OwnQuiet ==
  ASSUME OwnInv, CacheInv', NEW h \in Task, NEW rec, task' = [task EXCEPT ![h] = rec],
         UNCHANGED <<published, cacheVars>>, rec.pc # "land",
         h \in Call => Own(rec),
         rec.led # 0 /\ rec.pc \in Holding =>
           /\ task[h].pc \in Holding /\ rec.led = task[h].led
           /\ rec.kid = task[h].kid /\ rec.steady = task[h].steady
  PROVE  OwnInv'
<1>1. \A w \in Task : task'[w] = IF w = h THEN rec ELSE task[w]
  BY DEF OwnInv, CacheInv, TasksOK
<1>2. ASSUME NEW w \in Call PROVE Own(task'[w])
  BY <1>1 DEF OwnInv, Task
<1>3. \A w \in Call : Own(task[w])'
  BY <1>2 DEF Own, cacheVars
<1>4. ASSUME NEW g \in Call, NEW w \in Task PROVE Later(task'[g], task'[w])
  <2>0. g \in Task
    BY DEF Task
  <2>1. CASE w = h
    BY <1>1, <2>1 DEF Later
  <2>2. CASE w # h /\ g = h
    <3>1. task'[g] = rec /\ task'[w] = task[w] /\ Later(task[h], task[w])
      BY <1>1, <2>0, <2>2 DEF OwnInv
    <3> QED BY <2>2, <3>1 DEF Later
  <2>3. CASE w # h /\ g # h
    BY <1>1, <2>0, <2>3 DEF OwnInv
  <2> QED BY <2>1, <2>2, <2>3
<1>5. \A g \in Call, w \in Task : Later(task[g], task[w])'
  BY <1>4 DEF Later
<1> QED BY <1>3, <1>5 DEF OwnInv

\* A record that goes on without a key set of its own.
LEMMA GoesOn ==
  ASSUME OwnInv, CacheInv', NEW h \in Task, NEW rec, task' = [task EXCEPT ![h] = rec],
         UNCHANGED <<published, cacheVars>>, rec.pc # "land", rec.led = 0,
         rec.kid = task[h].kid, rec.steady = task[h].steady
  PROVE  OwnInv'
<1>1. h \in Call => Own(rec)
  BY Unfetched DEF OwnInv, Own
<1> QED BY <1>1, OwnQuiet

\* A call that stands where it can hold no key set holds none.
LEMMA HoldsNone ==
  ASSUME OwnInv, NEW h \in Call, task[h].pc \notin Holding \cup {"judge"} \cup Ended
  PROVE  task[h].led = 0
  BY DEF OwnInv, Own

\* What the records that a refresh makes keep of the record they are made from.
LEMMA Kept ==
  ASSUME NEW h \in Task, NEW t \in TaskRec
  PROVE  /\ Refreshed(h, t).led = t.led /\ Refreshed(h, t).steady = t.steady
         /\ NotRefreshed(h, t).led = t.led /\ NotRefreshed(h, t).steady = t.steady
<1>1. ASSUME NEW p PROVE LET r == [t EXCEPT !.got = {}, !.pc = p] IN r.led = t.led /\ r.steady = t.steady
  BY DEF TaskRec
<1> QED BY <1>1 DEF Refreshed, NotRefreshed

LEMMA OwnVerify ==
  ASSUME OwnInv, CacheInv', NEW h \in Call, NEW k \in Kid, Verify(h, k)
  PROVE  OwnInv'
<1> DEFINE p == IF Hit(k) THEN "key" ELSE "refresh"
<1>1. PICK rec : rec = [NewTask EXCEPT !.pc = p, !.kid = k, !.at = now, !.from = source,
                                       !.steady = k \in published]
  OBVIOUS
<1>2. task' = [task EXCEPT ![h] = rec] /\ UNCHANGED <<published, cacheVars>>
  BY <1>1 DEF Verify, Step, opVars
<1>3. rec.pc = p /\ rec.kid = k /\ rec.led = 0 /\ (rec.steady <=> k \in published)
  BY <1>1 DEF NewTask
<1>4. Own(rec) /\ rec.pc # "land" /\ h \in Task
  BY <1>3, Unfetched DEF Task
<1> QED BY <1>2, <1>3, <1>4, OwnQuiet

\* The steps of a call before it leads a fetch, or without one.
LEMMA OwnPlain ==
  ASSUME OwnInv, CacheInv', NEW h \in Task, NEW p \in Place, p \notin {"land"} \cup Holding,
         UNCHANGED <<published, cacheVars>>,
         task[h].pc \notin Holding \cup {"judge"} \cup Ended,
         NEW rec, task' = [task EXCEPT ![h] = rec], rec.pc = p,
         rec.led = task[h].led, rec.kid = task[h].kid, rec.steady = task[h].steady
  PROVE  OwnInv'
<1>1. CASE h \in Call
  BY <1>1, HoldsNone, GoesOn
<1>2. CASE h \notin Call
  BY <1>2, OwnQuiet
<1> QED BY <1>1, <1>2

LEMMA OwnRefresh ==
  ASSUME OwnInv, CacheInv', NEW h \in Task, Refresh(h) \/ WaitCancelled(h)
  PROVE  OwnInv'
<1>0. task[h] \in TaskRec /\ CacheInv
  BY Recorded DEF OwnInv
<1>1. CASE RefreshLimited(h)
  <2> DEFINE p == IF Usable THEN "again" ELSE "judge"
  <2>1. PICK rec : rec = [task[h] EXCEPT !.pc = p]
    OBVIOUS
  <2>2. task[h].pc = "refresh" /\ task' = [task EXCEPT ![h] = rec] /\ UNCHANGED <<published, cacheVars>>
    BY <1>1, <2>1 DEF RefreshLimited, Step, opVars
  <2>3. rec.pc = p /\ rec.kid = task[h].kid /\ rec.led = task[h].led /\ rec.steady = task[h].steady
    BY <1>0, <2>1 DEF TaskRec
  <2>4. h \in Call => rec.led = 0
    BY <2>2, <2>3, HoldsNone DEF Holding, Ended
  <2>5. h \in Call
    BY <1>1 DEF RefreshLimited, Limited
  <2> QED BY <2>2, <2>3, <2>4, <2>5, GoesOn
<1>2. CASE RefreshWaits(h)
  <2>1. PICK rec : rec = [task[h] EXCEPT !.pc = "wait", !.on = inflight]
    OBVIOUS
  <2>2. task[h].pc = "refresh" /\ task' = [task EXCEPT ![h] = rec] /\ UNCHANGED <<published, cacheVars>>
    BY <1>2, <2>1 DEF RefreshWaits, Step, opVars
  <2>3. rec.pc = "wait" /\ rec.kid = task[h].kid /\ rec.led = task[h].led /\ rec.steady = task[h].steady
    BY <1>0, <2>1 DEF TaskRec
  <2> QED BY <2>2, <2>3, OwnPlain DEF Holding, Ended, Place, Running
<1>3. CASE RefreshLeads(h)
  <2>1. PICK rec : rec = [task[h] EXCEPT !.pc = "fetch"]
    OBVIOUS
  <2>2. task[h].pc = "refresh" /\ task' = [task EXCEPT ![h] = rec] /\ UNCHANGED <<published, cacheVars>>
    BY <1>3, <2>1 DEF RefreshLeads, Step, opVars
  <2>3. rec.pc = "fetch" /\ rec.kid = task[h].kid /\ rec.led = task[h].led /\ rec.steady = task[h].steady
    BY <1>0, <2>1 DEF TaskRec
  <2> QED BY <2>2, <2>3, OwnPlain DEF Holding, Ended, Place, Running
<1>4. CASE WaitCancelled(h)
  <2>1. PICK t : t = [task[h] EXCEPT !.on = NoTask]
    OBVIOUS
  <2>2. /\ t \in TaskRec /\ t.kid = task[h].kid /\ t.led = task[h].led /\ t.steady = task[h].steady
    BY <1>0, <2>1 DEF TaskRec, Task
  <2>3. PICK rec : rec = NotRefreshed(h, t)
    OBVIOUS
  <2>4. task[h].pc = "wait" /\ task' = [task EXCEPT ![h] = rec] /\ UNCHANGED <<published, cacheVars>>
    BY <1>4, <2>1, <2>3 DEF WaitCancelled, Step, opVars
  <2>5. /\ rec.pc \in {"judge", "read file", "idle"} /\ rec.kid = task[h].kid
        /\ rec.led = task[h].led /\ rec.steady = task[h].steady
    BY <2>2, <2>3, NotRefreshedRecord, Kept
  <2> QED BY <2>4, <2>5, OwnPlain DEF Holding, Ended, Place, Running
<1> QED BY <1>1, <1>2, <1>3, <1>4 DEF Refresh

\* Whoever looks again does so in the key set that the call has cached, or in a
\* later one.
LEMMA OwnLookAgain ==
  ASSUME OwnInv, CacheInv', NEW h \in Task, LookAgain(h)
  PROVE  OwnInv'
<1> DEFINE p == IF Hit(task[h].kid) THEN "key" ELSE "judge"
<1>0. task[h] \in TaskRec /\ CacheInv
  BY Recorded DEF OwnInv
<1>1. PICK rec : rec = [task[h] EXCEPT !.pc = p, !.at = now, !.from = source]
  OBVIOUS
<1>2. task[h].pc = "again" /\ task' = [task EXCEPT ![h] = rec] /\ UNCHANGED <<published, cacheVars>>
  BY <1>1 DEF LookAgain, Step, opVars
<1>3. /\ rec.pc = p /\ rec.at = now /\ rec.from = source
      /\ rec.kid = task[h].kid /\ rec.led = task[h].led /\ rec.steady = task[h].steady
  BY <1>0, <1>1 DEF TaskRec
<1>4. ASSUME h \in Call PROVE Own(rec)
  <2>1. Own(task[h]) /\ "again" \in Holding
    BY <1>4 DEF OwnInv, Holding
  <2>2. ASSUME rec.led # 0, p = "judge", now - rec.led <= MaxAge, source = "net", rec.steady
        PROVE  FALSE
    <3>1. rec.led <= fetchedAt /\ rec.kid \in keys /\ rec.led \in Nat
      BY <1>0, <1>2, <1>3, <2>1, <2>2 DEF Own, TaskRec
    <3>2. now \in Nat /\ fetchedAt \in Nat /\ fetchedAt # 0
      BY <1>0, <2>2, <3>1 DEF CacheInv, StoreOK
    <3>3. now - fetchedAt <= MaxAge
      BY <2>2, <3>1, <3>2, TimeAssumption
    <3>4. Hit(rec.kid)
      BY <3>1, <3>2, <3>3 DEF Hit, Usable
    <3> QED BY <1>3, <2>2, <3>4
  <2>3. p \in {"key", "judge"} /\ {"key", "judge"} \subseteq {"judge"} \cup Ended
    BY DEF Ended
  <2>4. rec.steady => rec.kid \in published
    BY <1>3, <2>1 DEF Own
  <2> QED BY <1>3, <2>2, <2>3, <2>4 DEF Own, Holding
<1> QED BY <1>2, <1>3, <1>4, OwnQuiet DEF Holding

LEMMA OwnJudge ==
  ASSUME OwnInv, CacheInv', NEW h \in Task, Judge(h)
  PROVE  OwnInv'
<1> DEFINE p == IF Usable THEN "unknown" ELSE "unavailable"
<1>0. task[h] \in TaskRec
  BY Recorded DEF OwnInv
<1>1. PICK rec : rec = [task[h] EXCEPT !.pc = p]
  OBVIOUS
<1>2. task[h].pc = "judge" /\ task' = [task EXCEPT ![h] = rec] /\ UNCHANGED <<published, cacheVars>>
  BY <1>1 DEF Judge, Step, opVars
<1>3. /\ rec.pc = p /\ rec.at = task[h].at /\ rec.from = task[h].from
      /\ rec.kid = task[h].kid /\ rec.led = task[h].led /\ rec.steady = task[h].steady
  BY <1>0, <1>1 DEF TaskRec
<1>4. h \in Call => Own(task[h])
  BY DEF OwnInv
<1>5. h \in Call => Own(rec)
  BY <1>2, <1>3, <1>4 DEF Own, Holding, Ended
<1> QED BY <1>2, <1>3, <1>5, OwnQuiet DEF Holding

\* The answer is what is published: no key that stays published is missing.
LEMMA OwnFetch ==
  ASSUME OwnInv, CacheInv', NEW h \in Task, Fetch(h)
  PROVE  OwnInv'
<1>0. task[h] \in TaskRec
  BY Recorded DEF OwnInv
<1>1. PICK got \in {published, {}} : Step(h, "fetch", [task[h] EXCEPT !.pc = "land", !.got = got])
  BY DEF Fetch
<1>2. PICK rec : rec = [task[h] EXCEPT !.pc = "land", !.got = got]
  OBVIOUS
<1>3. /\ task[h].pc = "fetch" /\ task' = [task EXCEPT ![h] = rec]
      /\ UNCHANGED <<published, cacheVars>>
  BY <1>1, <1>2 DEF Step, Fetch, opVars
<1>4. /\ rec.pc = "land" /\ rec.got = got /\ rec.kid = task[h].kid
      /\ rec.led = task[h].led /\ rec.steady = task[h].steady
  BY <1>0, <1>2 DEF TaskRec
<1>5. \A w \in Task : task'[w] = IF w = h THEN rec ELSE task[w]
  BY <1>3 DEF OwnInv, CacheInv, TasksOK
<1>6. h \in Call => Own(rec) /\ rec.led = 0
  BY <1>3, <1>4, HoldsNone DEF OwnInv, Own, Holding, Ended
<1>7. \A w \in Call : Own(task'[w])
  BY <1>5, <1>6 DEF OwnInv, Task
<1>8. \A w \in Call : Own(task[w])'
  BY <1>3, <1>7 DEF Own, cacheVars
<1>9. ASSUME NEW g \in Call, NEW w \in Task PROVE Later(task'[g], task'[w])
  <2>0. g \in Task
    BY DEF Task
  <2>1. CASE g = h
    BY <1>4, <1>5, <1>6, <2>0, <2>1 DEF Later
  <2>2. CASE g # h /\ w = h
    <3>1. task'[g] = task[g] /\ task'[w] = rec /\ Own(task[g])
      BY <1>5, <2>0, <2>2 DEF OwnInv
    <3> QED BY <1>4, <3>1 DEF Later, Own
  <2>3. CASE g # h /\ w # h
    BY <1>5, <2>0, <2>3 DEF OwnInv
  <2> QED BY <2>1, <2>2, <2>3
<1>10. \A g \in Call, w \in Task : Later(task[g], task[w])'
  BY <1>9 DEF Later
<1> QED BY <1>8, <1>10 DEF OwnInv

\* The only answer that was on its way is cached: nobody else brings an older one.
LEMMA OwnLand ==
  ASSUME OwnInv, CacheInv', NEW h \in Task, Land(h)
  PROVE  OwnInv'
<1> DEFINE u == task[h].got # {} \/ Usable
           d == IF task[h].got = {} THEN 0 ELSE now
<1>0. task[h] \in TaskRec /\ CacheInv
  BY Recorded DEF OwnInv
<1>1. PICK rec : rec = [task[h] EXCEPT !.pc = "close", !.usable = u, !.led = d]
  OBVIOUS
<1>2. /\ task[h].pc = "land" /\ task' = [task EXCEPT ![h] = rec] /\ published' = published
      /\ IF task[h].got # {} THEN keys' = task[h].got /\ fetchedAt' = now /\ source' = "net"
         ELSE UNCHANGED cacheVars
  BY <1>1 DEF Land, Step, Replaces, opVars
<1>3. /\ rec.pc = "close" /\ rec.led = d /\ rec.got = task[h].got
      /\ rec.kid = task[h].kid /\ rec.steady = task[h].steady
  BY <1>0, <1>1 DEF TaskRec
<1>4. \A w \in Task : task'[w] = IF w = h THEN rec ELSE task[w]
  BY <1>2 DEF OwnInv, CacheInv, TasksOK
<1>5. \A w \in Task : task'[w].pc # "land"
  BY <1>0, <1>2, <1>3, <1>4 DEF CacheInv, SingleFlight, Fetching
<1>6. fetchedAt <= fetchedAt' /\ (task[h].got # {} => fetchedAt' = now /\ now >= fetchedAt)
  BY <1>0, <1>2 DEF CacheInv, StoreOK, cacheVars
<1>7. ASSUME NEW g \in Call PROVE Own(task[g])'
  <2>0. g \in Task /\ Own(task[g]) /\ Later(task[g], task[h])
    BY DEF OwnInv, Task
  <2>1. CASE g = h
    <3>1. task'[g] = rec
      BY <1>4, <2>0, <2>1
    <3>2. d # 0 => task[h].got # {} /\ d = now
      OBVIOUS
    <3>3. rec.steady => rec.kid \in published
      BY <1>3, <2>0, <2>1 DEF Own
    <3>4. rec.led # 0 => rec.led <= fetchedAt' /\ (rec.steady => rec.kid \in keys')
      BY <1>0, <1>2, <1>3, <1>6, <2>0, <2>1, <3>2 DEF Own, CacheInv, StoreOK
    <3> QED BY <1>2, <1>3, <3>1, <3>2, <3>3, <3>4 DEF Own, Holding
  <2>2. CASE g # h
    <3>1. task'[g] = task[g]
      BY <1>4, <2>0, <2>2
    <3>2. ASSUME task[g].led # 0, task[g].pc \in Holding
          PROVE  task[g].led <= fetchedAt' /\ (task[g].steady /\ source' = "net" => task[g].kid \in keys')
      <4>1. task[g].led <= fetchedAt /\ (task[g].steady /\ source = "net" => task[g].kid \in keys)
        BY <2>0, <3>2 DEF Own
      <4>2. task[g].led \in Nat /\ fetchedAt \in Nat /\ now \in Nat
        BY <1>0, <2>0, Recorded DEF TaskRec, CacheInv, StoreOK
      <4>3. task[g].led <= fetchedAt'
        BY <1>2, <1>6, <4>1, <4>2 DEF cacheVars
      <4>4. task[g].steady /\ source' = "net" => task[g].kid \in keys'
        BY <1>2, <2>0, <3>2, <4>1 DEF Later, cacheVars
      <4> QED BY <4>3, <4>4
    <3> QED BY <1>2, <2>0, <3>1, <3>2 DEF Own
  <2> QED BY <2>1, <2>2
<1>8. \A g \in Call, w \in Task : Later(task[g], task[w])'
  BY <1>5 DEF Later
<1> QED BY <1>7, <1>8 DEF OwnInv

\* What the leader of a fetch holds when it goes on.
LEMMA LeaderKeeps ==
  ASSUME CacheInv, NEW h \in Task
  PROVE  /\ Leader(h).led = task[h].led /\ Leader(h).steady = task[h].steady
         /\ task[h].got # {} /\ h \in Call => Leader(h).pc \in {"snapshot", "again"}
<1>0. task[h] \in TaskRec
  BY Recorded
<1>1. PICK t : t = task[h]
  OBVIOUS
<1>2. ASSUME NEW p
      PROVE  LET r == [t EXCEPT !.pc = p] IN r.led = t.led /\ r.steady = t.steady /\ r.pc = p
  BY <1>0, <1>1 DEF TaskRec
<1>3. CASE t.got = {} /\ t.usable /\ HasFile
  BY <1>1, <1>2, <1>3 DEF Leader
<1>4. CASE t.got = {} /\ ~(t.usable /\ HasFile)
  <2>1. Leader(h) = NotRefreshed(h, t)
    BY <1>1, <1>4 DEF Leader
  <2> QED BY <1>0, <1>1, <1>4, <2>1, Kept
<1>5. CASE t.got # {} /\ HasFile
  <2>1. Leader(h) = [t EXCEPT !.pc = "snapshot"]
    BY <1>1, <1>5 DEF Leader
  <2> QED BY <1>1, <1>2, <2>1
<1>6. CASE t.got # {} /\ ~HasFile
  <2>1. Leader(h) = Refreshed(h, t)
    BY <1>1, <1>6 DEF Leader
  <2>2. h \in Call => Refreshed(h, t).pc = "again"
    <3>1. [t EXCEPT !.got = {}, !.pc = "again"].pc = "again"
      BY <1>0, <1>1 DEF TaskRec
    <3> QED BY <3>1 DEF Refreshed
  <2> QED BY <1>0, <1>1, <2>1, <2>2, Kept
<1> QED BY <1>3, <1>4, <1>5, <1>6

LEMMA OwnClose ==
  ASSUME OwnInv, CacheInv', NEW h \in Task, Close(h)
  PROVE  OwnInv'
<1>0. CacheInv
  BY DEF OwnInv
<1>1. /\ task[h].pc = "close" /\ UNCHANGED <<published, cacheVars>>
      /\ \A w \in Task : task'[w] = CASE w = h -> Leader(h)
                                      [] w \in Woken(h) -> Refreshed(w, [task[w] EXCEPT !.on = NoTask])
                                      [] OTHER -> task[w]
  BY DEF Close, opVars
<1>2. h \notin Woken(h) /\ \A w \in Woken(h) : task[w].pc = "wait"
  BY <1>1 DEF Woken, Waiting
<1>3. /\ task'[h] = Leader(h)
      /\ \A w \in Task : w # h /\ w \notin Woken(h) => task'[w] = task[w]
  <2>1. task'[h] = Leader(h)
    BY <1>1, <1>2
  <2>2. ASSUME NEW w \in Task, w # h, w \notin Woken(h)
        PROVE  task'[w] = task[w]
    BY <1>1, <2>2
  <2> QED BY <2>1, <2>2
<1>4. ASSUME NEW w \in Task, w \in Woken(h)
      PROVE  /\ task'[w].kid = task[w].kid /\ task'[w].led = task[w].led
             /\ task'[w].steady = task[w].steady /\ task'[w].pc \in {"again", "idle"}
  <2>1. PICK t : t = [task[w] EXCEPT !.on = NoTask]
    OBVIOUS
  <2>2. t \in TaskRec /\ t.kid = task[w].kid /\ t.led = task[w].led /\ t.steady = task[w].steady
    BY <1>0, <2>1, Recorded DEF TaskRec
  <2>3. task'[w] = Refreshed(w, t)
    BY <1>1, <1>2, <1>4, <2>1
  <2> QED BY <2>2, <2>3, RefreshedRecord, Kept
<1>5. /\ task'[h].kid = task[h].kid /\ task'[h].led = task[h].led /\ task'[h].steady = task[h].steady
      /\ task'[h].pc \in {"read file", "snapshot", "again", "judge", "idle"}
      /\ task[h].got # {} /\ h \in Call => task'[h].pc \in {"snapshot", "again"}
  BY <1>0, <1>3, LeaderRecord, LeaderKeeps
<1>6. \A w \in Task : task'[w].pc = "land" => task'[w] = task[w]
  BY <1>3, <1>4, <1>5
<1>7. ASSUME NEW g \in Call
      PROVE  /\ Own(task'[g])
             /\ task'[g].led # 0 /\ task'[g].pc \in Holding =>
                  /\ task[g].pc \in Holding /\ task[g].led # 0
                  /\ task'[g].kid = task[g].kid /\ task'[g].steady = task[g].steady
  <2>0. g \in Task /\ Own(task[g])
    BY DEF OwnInv, Task
  <2>1. CASE g \in Woken(h)
    <3>1. task[g].led = 0
      BY <1>2, <2>1, HoldsNone DEF Holding, Ended
    <3> QED BY <1>4, <2>0, <2>1, <3>1, Unfetched DEF Own
  <2>2. CASE g = h
    <3>1. CASE task[h].led = 0
      BY <1>5, <2>0, <2>2, <3>1, Unfetched DEF Own
    <3>2. CASE task[h].led # 0
      <4>1. task[h].got # {} /\ task'[h].pc \in {"snapshot", "again"}
        BY <1>1, <1>5, <2>0, <2>2, <3>2 DEF Own
      <4> QED BY <1>1, <1>5, <2>0, <2>2, <3>2, <4>1 DEF Own, Holding
    <3> QED BY <3>1, <3>2
  <2>3. CASE g # h /\ g \notin Woken(h)
    BY <1>3, <2>0, <2>3
  <2> QED BY <2>1, <2>2, <2>3
<1>8. \A g \in Call : Own(task[g])'
  BY <1>1, <1>7 DEF Own, cacheVars
<1>9. \A g \in Call, w \in Task : Later(task[g], task[w])'
  BY <1>6, <1>7 DEF Later, OwnInv
<1> QED BY <1>8, <1>9 DEF OwnInv

\* Writing the file changes nothing of what the call holds.
LEMMA OwnPersist ==
  ASSUME OwnInv, CacheInv', NEW h \in Task, Persist(h)
  PROVE  OwnInv'
<1>0. task[h] \in TaskRec
  BY Recorded DEF OwnInv
<1>1. ASSUME NEW p \in Place, NEW got
      PROVE  LET r == [task[h] EXCEPT !.pc = p, !.got = got]
             IN r.pc = p /\ r.kid = task[h].kid /\ r.led = task[h].led /\ r.steady = task[h].steady
  BY <1>0 DEF TaskRec
<1>2. PICK rec : /\ task' = [task EXCEPT ![h] = rec] /\ task[h].pc \in {"snapshot", "truncate", "write"}
                 /\ rec.kid = task[h].kid /\ rec.led = task[h].led /\ rec.steady = task[h].steady
                 /\ rec.pc \in {"truncate", "write", "again", "idle"}
                 /\ h \in Call => rec.pc # "idle"
  <2>1. CASE Snapshot(h)
    <3>1. PICK r : r = [task[h] EXCEPT !.pc = "truncate", !.got = keys]
      OBVIOUS
    <3>2. r.pc = "truncate" /\ r.kid = task[h].kid /\ r.led = task[h].led /\ r.steady = task[h].steady
      BY <1>0, <3>1 DEF TaskRec
    <3>3. task' = [task EXCEPT ![h] = r] /\ task[h].pc = "snapshot"
      BY <2>1, <3>1 DEF Snapshot, Step
    <3> QED BY <3>2, <3>3
  <2>2. CASE Step(h, "truncate", [task[h] EXCEPT !.pc = "write"])
    <3>1. PICK r : r = [task[h] EXCEPT !.pc = "write"]
      OBVIOUS
    <3>2. r.pc = "write" /\ r.kid = task[h].kid /\ r.led = task[h].led /\ r.steady = task[h].steady
      BY <1>0, <3>1 DEF TaskRec
    <3>3. task' = [task EXCEPT ![h] = r] /\ task[h].pc = "truncate"
      BY <2>2, <3>1 DEF Step
    <3> QED BY <3>2, <3>3
  <2>3. CASE Step(h, "truncate", Refreshed(h, task[h])) \/ Step(h, "write", Refreshed(h, task[h]))
    <3>1. PICK r : r = Refreshed(h, task[h])
      OBVIOUS
    <3>2. /\ r.kid = task[h].kid /\ r.led = task[h].led /\ r.steady = task[h].steady
          /\ r.pc \in {"again", "idle"}
      BY <1>0, <3>1, RefreshedRecord, Kept
    <3>3. h \in Call => r.pc = "again"
      <4>1. [task[h] EXCEPT !.got = {}, !.pc = "again"].pc = "again"
        BY <1>0 DEF TaskRec
      <4> QED BY <3>1, <4>1 DEF Refreshed
    <3>4. task' = [task EXCEPT ![h] = r] /\ task[h].pc \in {"truncate", "write"}
      BY <2>3, <3>1 DEF Step
    <3> QED BY <3>2, <3>3, <3>4
  <2> QED BY <2>1, <2>2, <2>3 DEF Persist, Truncate, Write
<1>3. UNCHANGED <<published, cacheVars>>
  BY DEF Persist, Snapshot, Truncate, Write, opVars
<1>4. h \in Call => Own(rec)
  BY <1>2 DEF OwnInv, Own, Holding
<1> QED BY <1>2, <1>3, <1>4, OwnQuiet DEF Holding

\* The fallback file replaces the key set, and says so.
LEMMA OwnFallback ==
  ASSUME OwnInv, CacheInv', NEW h \in Task, Fallback(h)
  PROVE  OwnInv'
<1>0. task[h] \in TaskRec /\ CacheInv
  BY Recorded DEF OwnInv
<1>1. CASE ReadFile(h)
  <2>1. PICK rec : rec = [task[h] EXCEPT !.pc = "install", !.got = file]
    OBVIOUS
  <2>2. task[h].pc = "read file" /\ task' = [task EXCEPT ![h] = rec] /\ UNCHANGED <<published, cacheVars>>
    BY <1>1, <2>1 DEF ReadFile, Step, opVars
  <2>3. rec.pc = "install" /\ rec.kid = task[h].kid /\ rec.led = task[h].led /\ rec.steady = task[h].steady
    BY <1>0, <2>1 DEF TaskRec
  <2> QED BY <2>2, <2>3, OwnPlain DEF Holding, Ended, Place, Running
<1>2. CASE ReadFileFails(h)
  <2> DEFINE p == IF h \in Call THEN "judge" ELSE "idle"
  <2>1. PICK rec : rec = [task[h] EXCEPT !.pc = p]
    OBVIOUS
  <2>2. task[h].pc = "read file" /\ task' = [task EXCEPT ![h] = rec] /\ UNCHANGED <<published, cacheVars>>
    BY <1>2, <2>1 DEF ReadFileFails, Step, opVars
  <2>3. rec.pc = p /\ rec.kid = task[h].kid /\ rec.led = task[h].led /\ rec.steady = task[h].steady
    BY <1>0, <2>1 DEF TaskRec
  <2>4. p \in Place /\ p \notin {"land"} \cup Holding
    BY DEF Holding, Place, Running
  <2> QED BY <2>2, <2>3, <2>4, OwnPlain DEF Holding, Ended
<1>3. CASE Install(h)
  <2> DEFINE p == IF h \in Call THEN "judge" ELSE "idle"
  <2>1. PICK rec : rec = [task[h] EXCEPT !.got = {}, !.pc = p]
    OBVIOUS
  <2>2. /\ task[h].pc = "install" /\ task' = [task EXCEPT ![h] = rec]
        /\ published' = published /\ fetchedAt' = now /\ source' = "file"
    BY <1>3, <2>1 DEF Install, Step, opVars
  <2>3. rec.pc = p /\ rec.kid = task[h].kid /\ rec.led = task[h].led /\ rec.steady = task[h].steady
    BY <1>0, <2>1 DEF TaskRec
  <2>4. \A w \in Task : task'[w] = IF w = h THEN rec ELSE task[w]
    BY <2>2 DEF OwnInv, CacheInv, TasksOK
  <2>5. ASSUME NEW g \in Call PROVE Own(task[g])'
    <3>0. g \in Task /\ Own(task[g])
      BY DEF OwnInv, Task
    <3>1. CASE g = h
      <4>1. task[h].led = 0
        BY <2>2, <3>1, HoldsNone DEF Holding, Ended
      <4> QED BY <2>2, <2>3, <2>4, <3>0, <3>1, <4>1 DEF Own
    <3>2. CASE g # h
      <4>1. task[g].led \in Nat /\ fetchedAt \in Nat /\ now \in Nat /\ fetchedAt <= now
        BY <1>0, <3>0, Recorded DEF TaskRec, CacheInv, StoreOK
      <4> QED BY <2>2, <2>4, <3>0, <3>2, <4>1 DEF Own
    <3> QED BY <3>1, <3>2
  <2>6. ASSUME NEW g \in Call, NEW w \in Task PROVE Later(task[g], task[w])'
    <3>0. g \in Task /\ Later(task[g], task[w])
      BY DEF OwnInv, Task
    <3> QED BY <2>3, <2>4, <3>0 DEF Later, Holding
  <2> QED BY <2>5, <2>6 DEF OwnInv
<1> QED BY <1>1, <1>2, <1>3 DEF Fallback

\* A restart ends every call that was running.
LEMMA OwnRestart ==
  ASSUME OwnInv, CacheInv', Restart
  PROVE  OwnInv'
<1>1. published' = published
  BY DEF Restart, opVars
<1>2. ASSUME NEW h \in Call
      PROVE  /\ task'[h].pc \notin Running
             /\ task'[h].kid = task[h].kid /\ task'[h].steady = task[h].steady
             /\ task'[h].led = task[h].led /\ task'[h].at = task[h].at /\ task'[h].from = task[h].from
             /\ task'[h].pc \in {"lost", task[h].pc}
  <2>0. h \in Task /\ h # Main /\ task[h] \in TaskRec
    BY NullAssumption, Recorded DEF Task, OwnInv
  <2>1. CASE task[h].pc \in Running
    <3>1. PICK rec : rec = [task[h] EXCEPT !.pc = "lost", !.got = {}, !.on = NoTask]
      OBVIOUS
    <3>2. task'[h] = rec
      BY <2>0, <2>1, <3>1 DEF Restart, Fresh
    <3>3. /\ rec.pc = "lost" /\ rec.kid = task[h].kid /\ rec.steady = task[h].steady
          /\ rec.led = task[h].led /\ rec.at = task[h].at /\ rec.from = task[h].from
      BY <2>0, <3>1 DEF TaskRec
    <3> QED BY <3>2, <3>3 DEF Running
  <2>2. CASE task[h].pc \notin Running
    <3>1. task'[h] = task[h]
      BY <2>0, <2>2 DEF Restart, Fresh
    <3> QED BY <2>2, <3>1
  <2> QED BY <2>1, <2>2
<1>3. Holding \subseteq Running /\ "land" \in Running /\ "judge" \in Running
  BY DEF Holding, Running
<1>4. ASSUME NEW h \in Call PROVE Own(task[h])'
  <2>1. Own(task[h])
    BY DEF OwnInv
  <2>2. task'[h].pc \notin Holding /\ task'[h].pc # "land" /\ task'[h].pc # "judge"
    BY <1>2, <1>3
  <2>3. task'[h].led # 0 => task'[h].pc \in Ended
    BY <1>2, <2>1, <2>2 DEF Own, Ended
  <2> QED BY <1>1, <1>2, <1>3, <2>1, <2>2, <2>3 DEF Own, Holding
<1>5. \A g \in Call, w \in Task : Later(task[g], task[w])'
  BY <1>2, <1>3 DEF Later
<1> QED BY <1>4, <1>5 DEF OwnInv

\* A key that is retired is no longer one that was published all along.
LEMMA OwnRotation ==
  ASSUME OwnInv, CacheInv', NEW k \in Kid, PublishKey(k) \/ RetireKey(k)
  PROVE  OwnInv'
<1>1. CASE PublishKey(k)
  BY <1>1 DEF PublishKey, OwnInv, Own, Later, cacheVars
<1>2. CASE RetireKey(k)
  <2>1. published' = published \ {k} /\ UNCHANGED cacheVars
    BY <1>2 DEF RetireKey
  <2>2. ASSUME NEW h \in Task
        PROVE  /\ task'[h].pc = task[h].pc /\ task'[h].got = task[h].got /\ task'[h].kid = task[h].kid
               /\ task'[h].led = task[h].led /\ task'[h].at = task[h].at /\ task'[h].from = task[h].from
               /\ task'[h].steady => task[h].steady /\ task[h].kid # k
    <3>0. task[h] \in TaskRec
      BY Recorded DEF OwnInv
    <3>1. CASE task[h].kid = k
      <4>1. task'[h] = [task[h] EXCEPT !.steady = FALSE]
        BY <1>2, <3>1 DEF RetireKey
      <4> QED BY <3>0, <4>1 DEF TaskRec
    <3>2. CASE task[h].kid # k
      BY <1>2, <3>2 DEF RetireKey
    <3> QED BY <3>1, <3>2
  <2>3. ASSUME NEW h \in Call PROVE Own(task[h])'
    <3>1. h \in Task /\ Own(task[h])
      BY DEF OwnInv, Task
    <3> QED BY <2>1, <2>2, <3>1 DEF Own, cacheVars
  <2>4. ASSUME NEW g \in Call, NEW w \in Task PROVE Later(task[g], task[w])'
    <3>1. g \in Task /\ Later(task[g], task[w])
      BY DEF OwnInv, Task
    <3> QED BY <2>2, <3>1 DEF Later
  <2> QED BY <2>3, <2>4 DEF OwnInv
<1> QED BY <1>1, <1>2

LEMMA OwnStart == Init => OwnInv
<1> SUFFICES ASSUME Init PROVE OwnInv
  OBVIOUS
<1>1. \A h \in Call : task[h] = NewTask
  BY NullAssumption DEF Init, Fresh, Task
<1>2. NewTask.led = 0 /\ NewTask.pc = "idle" /\ ~NewTask.steady
  BY DEF NewTask
<1>3. \A h \in Call : Own(task[h])
  BY <1>1, <1>2, Unfetched
<1>4. \A h \in Call, w \in Task : Later(task[h], task[w])
  BY <1>1, <1>2 DEF Later
<1> QED BY <1>3, <1>4, InitHolds DEF OwnInv

LEMMA OwnNext == OwnInv /\ [Next]_vars => OwnInv'
<1> SUFFICES ASSUME OwnInv, [Next]_vars PROVE OwnInv'
  OBVIOUS
<1>0. CacheInv'
  BY NextPreserves DEF OwnInv
<1>1. ASSUME NEW h \in Task, Proceed(h) PROVE OwnInv'
  BY <1>0, <1>1, OwnLookAgain, OwnJudge, OwnRefresh, OwnFetch, OwnLand, OwnClose, OwnFallback, OwnPersist
     DEF Proceed
<1>2. ASSUME NEW h \in Call, NEW k \in Kid, Verify(h, k) PROVE OwnInv'
  BY <1>0, <1>2, OwnVerify
<1>3. ASSUME NEW h \in Call, WaitCancelled(h) PROVE OwnInv'
  BY <1>0, <1>3, OwnRefresh DEF Task
<1>4. CASE Restart
  BY <1>0, <1>4, OwnRestart
<1>5. ASSUME NEW k \in Kid, PublishKey(k) \/ RetireKey(k) PROVE OwnInv'
  BY <1>0, <1>5, OwnRotation
<1>6. CASE BackgroundRefresh
  <2>1. PICK rec : rec = Booting
    OBVIOUS
  <2>2. task' = [task EXCEPT ![Main] = rec] /\ Main \in Task /\ UNCHANGED <<published, cacheVars>>
    BY <1>6, <2>1 DEF BackgroundRefresh, Step, Task, opVars
  <2>3. rec.pc = "refresh" /\ Main \notin Call
    BY <2>1, NewTaskFields, NullAssumption
  <2> QED BY <1>0, <2>2, <2>3, OwnQuiet DEF Holding
<1>7. CASE Tick
  BY <1>0, <1>7 DEF Tick, OwnInv, Own, Later, opVars, cacheVars
<1>8. CASE UNCHANGED vars
  BY <1>0, <1>8 DEF vars, OwnInv, Own, Later, opVars, cacheVars
<1> QED BY <1>1, <1>2, <1>3, <1>4, <1>5, <1>6, <1>7, <1>8 DEF Next

\* A call that fetched the key set itself, and looks at it again before it is
\* too old, finds every key that was published all along: no older answer
\* replaces the one it got (PublicKey and refresh, keys.go).
THEOREM OwnFetchStays == Spec => []OwnFetchIsKept
<1>1. OwnInv => OwnFetchIsKept
  BY DEF OwnInv, Own, OwnFetchIsKept
<1> QED BY <1>1, OwnStart, OwnNext, PTL DEF Spec
=============================================================================
