------------------------------ MODULE JwksCache ------------------------------
(***************************************************************************)
(* The key set of a relying party (backend/sdk/rp/keys.go): the keys the   *)
(* OpenID provider publishes are fetched, cached and refreshed, and a file *)
(* stands in for the provider when it cannot be reached.                   *)
(*                                                                         *)
(* Grain.  One action is one critical section of mu, one HTTP exchange or  *)
(* one access to the file; the exchange is two, so that its answer may be  *)
(* old when it is used.                                                    *)
(***************************************************************************)
EXTENDS Integers, FiniteSets

CONSTANTS
  Call,         \* calls of PublicKey; each is served once
  Main,         \* the goroutine of NewKeys and backgroundRefresh
  Kid,          \* key ids
  FirstKids,    \* the keys the provider publishes at first
  NoTask, NoKid,
  MaxAge,       \* maxKeyAge
  MinInterval,  \* minRefreshInterval
  TTL,          \* the period of the background refresh
  HasFile,      \* is a fallback file configured?
  MaxTime,      \* bound of the exploration: the clock stops here
  MaxRestarts   \* bound of the exploration: restarts of the relying party

ASSUME NullAssumption == /\ Main \notin Call /\ NoTask \notin Call \cup {Main}
                         /\ NoKid \notin Kid
ASSUME KidAssumption  == FirstKids \subseteq Kid /\ FirstKids # {}
ASSUME TimeAssumption == /\ MaxAge \in Nat /\ MinInterval \in Nat /\ TTL \in Nat
                         /\ MaxTime \in Nat \ {0} /\ MaxRestarts \in Nat
ASSUME FlagAssumption == HasFile \in BOOLEAN

VARIABLES
  now,          \* the clock; starts at 1 so that 0 can stand for the zero time
  published,    \* the keys the provider publishes
  retired,      \* history: when the provider stopped publishing each key
  keys,         \* the cached key set; empty before the first success
  fetchedAt,    \* its stamp
  source,       \* history: where it came from
  lastAttempt,  \* when the last fetch began
  inflight,     \* the task whose fetch is in flight
  file,         \* the fallback file; empty when it is missing or cut short
  state,        \* of the process: "boot", "up" or "down" (NewKeys failed)
  ticked,       \* when the ticker fired last
  task,         \* where every task stands, and its local variables
  restarts      \* how many restarts have happened

opVars    == <<published, retired>>
cacheVars == <<keys, fetchedAt, source>>
vars      == <<now, opVars, cacheVars, lastAttempt, inflight, file, state, ticked, task, restarts>>

Task == Call \cup {Main}

-----------------------------------------------------------------------------
(* State.                                                                  *)

Fetching == {"fetch", "land"}
Running  == {"refresh", "wait", "fetch", "land", "close", "read file", "install",
             "snapshot", "truncate", "write", "again", "judge"}
Ended    == {"key", "unknown", "unavailable", "lost"}

NewTask == [pc |-> "idle", kid |-> NoKid, on |-> NoTask, got |-> {}, usable |-> FALSE,
            at |-> 0, from |-> "none", led |-> 0, steady |-> FALSE]

Booting == [NewTask EXCEPT !.pc = "refresh"]

\* Mutant of Usable: the age of the cache does not matter.
UsableForEver == keys # {} /\ fetchedAt # 0

\* usableLocked.
Usable == keys # {} /\ fetchedAt # 0 /\ now - fetchedAt <= MaxAge

\* The process has just been started.
Fresh(t) == [h \in Task |-> IF h = Main THEN Booting ELSE t[h]]

Init ==
  /\ now = 1
  /\ published = FirstKids
  /\ retired = [k \in Kid |-> 0]
  /\ keys = {} /\ fetchedAt = 0 /\ source = "none"
  /\ lastAttempt = 0
  /\ inflight = NoTask
  /\ file = {}
  /\ state = "boot"
  /\ ticked = 0
  /\ task = Fresh([h \in Task |-> NewTask])
  /\ restarts = 0

Step(h, from, rec) == task[h].pc = from /\ task' = [task EXCEPT ![h] = rec]

\* What follows a refresh: a call looks again or gives up; the main goroutine
\* waits for its ticker, and falls back to the file when it is booting.
Refreshed(h, rec) ==
  [rec EXCEPT !.got = {}, !.pc = IF h \in Call THEN "again" ELSE "idle"]

NotRefreshed(h, rec) ==
  [rec EXCEPT !.got = {}, !.pc = CASE h \in Call -> "judge"
                                   [] h = Main /\ state = "boot" -> "read file"
                                   [] OTHER -> "idle"]

-----------------------------------------------------------------------------
(* PublicKey: look, refresh, look again.                                   *)

Hit(k) == Usable /\ k \in keys

Verify(h, k) ==
  /\ state = "up"
  /\ Step(h, "idle", [NewTask EXCEPT !.pc = IF Hit(k) THEN "key" ELSE "refresh", !.kid = k,
                                     !.at = now, !.from = source, !.steady = k \in published])
  /\ UNCHANGED <<now, opVars, cacheVars, lastAttempt, inflight, file, state, ticked, restarts>>

LookAgain(h) ==
  LET t == task[h]
  IN /\ Step(h, "again", [t EXCEPT !.pc = IF Hit(t.kid) THEN "key" ELSE "judge",
                                !.at = now, !.from = source])
     /\ UNCHANGED <<now, opVars, cacheVars, lastAttempt, inflight, file, state, ticked, restarts>>

Judge(h) ==
  /\ Step(h, "judge", [task[h] EXCEPT !.pc = IF Usable THEN "unknown" ELSE "unavailable"])
  /\ UNCHANGED <<now, opVars, cacheVars, lastAttempt, inflight, file, state, ticked, restarts>>

-----------------------------------------------------------------------------
(* refresh.  The first critical section: the rate limit, which is for      *)
(* calls only, then the fetch in flight, then a fetch of one's own.        *)

Limited(h) == h \in Call /\ now - lastAttempt < MinInterval

RefreshLimited(h) ==
  /\ Limited(h)
  /\ Step(h, "refresh", [task[h] EXCEPT !.pc = IF Usable THEN "again" ELSE "judge"])
  /\ UNCHANGED <<now, opVars, cacheVars, lastAttempt, inflight, file, state, ticked, restarts>>

\* Mutant of Alone: a fetch in flight is not looked at.
NotAlone == TRUE

\* Single flight.
Alone == inflight = NoTask

RefreshWaits(h) ==
  /\ ~Limited(h) /\ ~Alone
  /\ Step(h, "refresh", [task[h] EXCEPT !.pc = "wait", !.on = inflight])
  /\ UNCHANGED <<now, opVars, cacheVars, lastAttempt, inflight, file, state, ticked, restarts>>

RefreshLeads(h) ==
  /\ ~Limited(h) /\ Alone
  /\ Step(h, "refresh", [task[h] EXCEPT !.pc = "fetch"])
  /\ inflight' = h
  /\ lastAttempt' = now
  /\ UNCHANGED <<now, opVars, cacheVars, file, state, ticked, restarts>>

\* The context of a waiting call ends.
WaitCancelled(h) ==
  /\ h \in Call
  /\ Step(h, "wait", NotRefreshed(h, [task[h] EXCEPT !.on = NoTask]))
  /\ UNCHANGED <<now, opVars, cacheVars, lastAttempt, inflight, file, state, ticked, restarts>>

\* The provider answers, or does not: got stays empty.
Fetch(h) ==
  /\ \E got \in {published, {}} : Step(h, "fetch", [task[h] EXCEPT !.pc = "land", !.got = got])
  /\ UNCHANGED <<now, opVars, cacheVars, lastAttempt, inflight, file, state, ticked, restarts>>

\* Mutant of Replaces: an answer without a usable key replaces the key set.
ReplacesAnyway(got) == TRUE

Replaces(got) == got # {}

\* The second critical section.
Land(h) ==
  LET t == task[h]
  IN /\ IF Replaces(t.got) THEN keys' = t.got /\ fetchedAt' = now /\ source' = "net"
        ELSE UNCHANGED cacheVars
     /\ inflight' = NoTask
     /\ Step(h, "land", [t EXCEPT !.pc = "close", !.usable = t.got # {} \/ Usable,
                                   !.led = IF t.got = {} THEN 0 ELSE now])
     /\ UNCHANGED <<now, opVars, lastAttempt, file, state, ticked, restarts>>

\* close(done), and where the leader goes on.
Leader(h) ==
  LET t == task[h]
  IN CASE t.got = {} /\ t.usable /\ HasFile   -> [t EXCEPT !.pc = "read file"]
       [] t.got = {} /\ ~(t.usable /\ HasFile) -> NotRefreshed(h, t)
       [] t.got # {} /\ HasFile               -> [t EXCEPT !.pc = "snapshot"]
       [] OTHER                               -> Refreshed(h, t)

Waiting(h) == {w \in Task : task[w].pc = "wait" /\ task[w].on = h}

\* Mutant of Woken: a fetch that failed leaves its channel open.
WokenBySuccess(h) == IF task[h].got = {} THEN {} ELSE Waiting(h)

Woken(h) == Waiting(h)

\* The process is up when NewKeys has its keys.
Close(h) ==
  /\ task[h].pc = "close"
  /\ task' = [w \in Task |-> CASE w = h -> Leader(h)
                               [] w \in Woken(h) -> Refreshed(w, [task[w] EXCEPT !.on = NoTask])
                               [] OTHER -> task[w]]
  /\ state' = IF Leader(h).pc = "idle" THEN "up" ELSE state
  /\ UNCHANGED <<now, opVars, cacheVars, lastAttempt, inflight, file, ticked, restarts>>

-----------------------------------------------------------------------------
(* loadFallback and persistFallback.  A refresh that failed returns its    *)
(* error whether the file could be loaded or not; NewKeys needs it.        *)

\* The file is missing or cut short.
ReadFileFails(h) ==
  LET t == task[h]
      boots == h = Main /\ state = "boot"
  IN /\ file = {}
     /\ Step(h, "read file", [t EXCEPT !.pc = IF h \in Call THEN "judge" ELSE "idle"])
     /\ state' = IF boots THEN "down" ELSE state
     /\ UNCHANGED <<now, opVars, cacheVars, lastAttempt, inflight, file, ticked, restarts>>

ReadFile(h) ==
  /\ file # {}
  /\ Step(h, "read file", [task[h] EXCEPT !.pc = "install", !.got = file])
  /\ UNCHANGED <<now, opVars, cacheVars, lastAttempt, inflight, file, state, ticked, restarts>>

Install(h) ==
  LET t == task[h]
  IN /\ Step(h, "install", [t EXCEPT !.got = {}, !.pc = IF h \in Call THEN "judge" ELSE "idle"])
     /\ keys' = t.got /\ fetchedAt' = now /\ source' = "file"
     /\ state' = "up"
     /\ UNCHANGED <<now, opVars, lastAttempt, inflight, file, ticked, restarts>>

\* The keys are read again: another fetch may have replaced them.
Snapshot(h) ==
  /\ Step(h, "snapshot", [task[h] EXCEPT !.pc = "truncate", !.got = keys])
  /\ UNCHANGED <<now, opVars, cacheVars, lastAttempt, inflight, file, state, ticked, restarts>>

\* os.WriteFile; an error is only logged.
Truncate(h) ==
  /\ \/ Step(h, "truncate", [task[h] EXCEPT !.pc = "write"]) /\ file' = {}
     \/ Step(h, "truncate", Refreshed(h, task[h])) /\ UNCHANGED file
  /\ state' = IF task'[h].pc = "idle" THEN "up" ELSE state
  /\ UNCHANGED <<now, opVars, cacheVars, lastAttempt, inflight, ticked, restarts>>

\* Two writers at once may leave a mixture that does not parse.
Write(h) ==
  /\ Step(h, "write", Refreshed(h, task[h]))
  /\ file' \in IF file \in {{}, task[h].got} THEN {task[h].got} ELSE {task[h].got, {}}
  /\ state' = IF task'[h].pc = "idle" THEN "up" ELSE state
  /\ UNCHANGED <<now, opVars, cacheVars, lastAttempt, inflight, ticked, restarts>>

-----------------------------------------------------------------------------
(* The ticker, restarts, the provider and the clock.                       *)

BackgroundRefresh ==
  /\ state = "up" /\ now - ticked >= TTL
  /\ Step(Main, "idle", Booting)
  /\ ticked' = now
  /\ UNCHANGED <<now, opVars, cacheVars, lastAttempt, inflight, file, state, restarts>>

\* The memory of the process is lost, the file stays as it is.
Restart ==
  /\ restarts < MaxRestarts
  /\ restarts' = restarts + 1
  /\ keys' = {} /\ fetchedAt' = 0 /\ source' = "none"
  /\ lastAttempt' = 0 /\ inflight' = NoTask
  /\ state' = "boot" /\ ticked' = now
  /\ task' = Fresh([h \in Task |-> IF task[h].pc \in Running
                                   THEN [task[h] EXCEPT !.pc = "lost", !.got = {}, !.on = NoTask]
                                   ELSE task[h]])
  /\ UNCHANGED <<now, opVars, file>>

PublishKey(k) ==
  /\ k \notin published /\ retired[k] = 0
  /\ published' = published \cup {k}
  /\ UNCHANGED <<now, retired, cacheVars, lastAttempt, inflight, file, state, ticked, task, restarts>>

RetireKey(k) ==
  /\ k \in published /\ published # {k}
  /\ published' = published \ {k}
  /\ retired' = [retired EXCEPT ![k] = now]
  /\ task' = [h \in Task |-> IF task[h].kid = k THEN [task[h] EXCEPT !.steady = FALSE] ELSE task[h]]
  /\ UNCHANGED <<now, cacheVars, lastAttempt, inflight, file, state, ticked, restarts>>

\* An HTTP exchange times out in less than a unit of the clock.
Tick ==
  /\ now < MaxTime
  /\ \A h \in Task : task[h].pc # "land"
  /\ now' = now + 1
  /\ UNCHANGED <<opVars, cacheVars, lastAttempt, inflight, file, state, ticked, task, restarts>>

Refresh(h) == RefreshLimited(h) \/ RefreshWaits(h) \/ RefreshLeads(h)
Fallback(h) == ReadFile(h) \/ ReadFileFails(h) \/ Install(h)
Persist(h)  == Snapshot(h) \/ Truncate(h) \/ Write(h)
Proceed(h)  == \/ LookAgain(h) \/ Judge(h) \/ Refresh(h) \/ Fetch(h) \/ Land(h) \/ Close(h)
               \/ Fallback(h) \/ Persist(h)

Next ==
  \/ \E h \in Call, k \in Kid : Verify(h, k)
  \/ \E h \in Task : Proceed(h)
  \/ \E h \in Call : WaitCancelled(h)
  \/ BackgroundRefresh \/ Restart \/ Tick
  \/ \E k \in Kid : PublishKey(k) \/ RetireKey(k)

Spec == Init /\ [][Next]_vars

\* A goroutine runs on, and an HTTP exchange ends; nobody is obliged to call,
\* and neither ticker nor clock need move.
FairSpec == Spec /\ \A h \in Task : WF_vars(Proceed(h))

-----------------------------------------------------------------------------
(* Properties.                                                             *)

\* Types; a key set is stamped when it is not empty, and never in the future.
TypeOK ==
  /\ keys = {} <=> fetchedAt = 0
  /\ fetchedAt <= now /\ lastAttempt <= now
  /\ now \in 1 .. MaxTime
  /\ published \subseteq Kid /\ retired \in [Kid -> 0 .. MaxTime]
  /\ keys \subseteq Kid /\ fetchedAt \in 0 .. MaxTime /\ source \in {"none", "net", "file"}
  /\ lastAttempt \in 0 .. MaxTime /\ inflight \in Task \cup {NoTask}
  /\ file \subseteq Kid /\ state \in {"boot", "up", "down"} /\ ticked \in 0 .. MaxTime
  /\ task \in [Task -> [pc : {"idle"} \cup Running \cup Ended, kid : Kid \cup {NoKid},
                        on : Task \cup {NoTask}, got : SUBSET Kid, usable : BOOLEAN,
                        at : 0 .. MaxTime, from : {"none", "net", "file"}, led : 0 .. MaxTime, steady : BOOLEAN]]
  /\ restarts \in 0 .. MaxRestarts

\* One fetch is in flight at a time, and a waiter waits for a task that is
\* going to close its channel.
SingleFlight ==
  /\ \A h \in Task : task[h].pc \in Fetching <=> inflight = h
  /\ \A h \in Task : task[h].pc = "wait" => task[task[h].on].pc \in Fetching \cup {"close"}

\* A key that the provider has retired verifies tokens for no longer than the
\* maximal age, as long as the key set came from the provider.
RetiredKeysDie ==
  \A h \in Call : task[h].pc = "key" /\ task[h].from = "net"
                    => \/ retired[task[h].kid] = 0
                       \/ task[h].at - retired[task[h].kid] <= MaxAge

\* A call that fetched the key set itself, and looks at it again before it is
\* too old, finds every key that was published all along: no older answer has
\* replaced the one it got.
OwnFetchIsKept ==
  \A h \in Call :
    LET t == task[h]
    IN t.pc = "unknown" /\ t.led # 0 /\ t.at - t.led <= MaxAge /\ t.from = "net" => ~t.steady

\* Every call is answered: no leader leaves its followers waiting.
EveryCallAnswered ==
  \A h \in Call : task[h].pc \in Running ~> task[h].pc \in Ended
=============================================================================
