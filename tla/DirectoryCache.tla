--------------------------- MODULE DirectoryCache ---------------------------
(***************************************************************************)
(* The directory client of a relying party (backend/sdk/rp/directory): a   *)
(* cache of members, one by one, filled by batches that share an ETag, and *)
(* a cache of whole tables (the department tree, the list of roles).       *)
(*                                                                         *)
(* Grain.  One action is one critical section of mu or one HTTP exchange;  *)
(* the exchange is two, so that its answer may be old when it is used.     *)
(***************************************************************************)
EXTENDS Integers, FiniteSets

CONSTANTS
  Call,          \* goroutines that call the client, again and again
  Member, Table, \* what the directory describes
  Content,       \* what it may say of them
  Gone,          \* ... or that there is no such member
  None, NoCall,
  First,         \* what it says of everything at first
  MemberTTL, TableTTL, NegativeTTL, StaleOnError,
  MaxTime        \* bound of the exploration: the clock stops here

ASSUME NullAssumption == Gone \notin Content /\ None \notin Content \cup {Gone} /\ NoCall \notin Call
ASSUME DataAssumption == First \in Content /\ Member \cap Table = {}
ASSUME TimeAssumption == {MemberTTL, TableTTL, NegativeTTL, StaleOnError} \subseteq Nat
                         /\ MaxTime \in Nat \ {0}

Thing == Member \cup Table
Batch == (SUBSET Member) \ {{}}

VARIABLES
  now,        \* the clock; starts at 1 so that 0 can stand for the zero time
  directory,  \* what the provider says of everything
  left,       \* history: when it last stopped saying so
  version,    \* history: how often it changed its mind
  members,    \* member -> cached entry
  negatives,  \* member -> until when it is known not to exist
  batchETags, \* batch -> the answer its ETag stands for
  inflight,   \* batch -> the call that fetches it
  tables,     \* table -> cached entry
  call,       \* where every call stands, and its local variables
  floor       \* history: the version of a member at its last quiet invalidation

remoteVars == <<directory, left, version>>
memberVars == <<members, negatives, batchETags>>
vars       == <<now, remoteVars, memberVars, inflight, tables, call, floor>>

-----------------------------------------------------------------------------
(* State.                                                                  *)

NewCall == [pc |-> "idle", ids |-> {}, key |-> {}, on |-> NoCall, prev |-> None, reply |-> None,
            body |-> None, seen |-> None, out |-> <<>>]

\* What an entry holds: a content, its stamp, and two facts of history: its
\* version and whether the provider confirmed this content at the stamp.
Entry(c, v, sure) == [is |-> c, fetched |-> now, version |-> v, sure |-> sure]
\* What an answer says of one thing, and when that was decided.
Item(c, by, sure) == [is |-> c, by |-> by, sure |-> sure, at |-> now]
Of(e, by) == Item(e.is, by, e.sure)

Init ==
  /\ now = 1
  /\ directory = [x \in Thing |-> First]
  /\ left = [x \in Thing |-> [c \in Content \cup {Gone} |-> 0]]
  /\ version = [x \in Thing |-> 0]
  /\ members = [m \in Member |-> None]
  /\ negatives = [m \in Member |-> 0]
  /\ batchETags = [b \in Batch |-> None]
  /\ inflight = [b \in Batch |-> NoCall]
  /\ tables = [t \in Table |-> None]
  /\ call = [h \in Call |-> NewCall]
  /\ floor = [m \in Member |-> 0]

Step(h, from, rec) == call[h].pc = from /\ call' = [call EXCEPT ![h] = rec]

Answering(out)  == [NewCall EXCEPT !.pc = "return", !.out = out]
Refused         == NewCall
Also(out, more) == [x \in DOMAIN out \cup DOMAIN more |-> IF x \in DOMAIN more THEN more[x] ELSE out[x]]
Restrict(f, s)  == [x \in s |-> f[x]]

-----------------------------------------------------------------------------
(* Member and Members: what is cached, what is pending.                    *)

Negative(m) == negatives[m] # 0 /\ now <= negatives[m]

\* Mutant of Fresh: what is cached is fresh.
FreshWhileCached(m) == members[m] # None

Fresh(m) == members[m] # None /\ now - members[m].fetched < MemberTTL

\* The expired negative entries of the batch are dropped.
Expire(ids) == negatives' = [m \in Member |-> IF m \in ids /\ ~Negative(m) THEN 0 ELSE negatives[m]]

Hits(ids)    == {m \in ids : ~Negative(m) /\ Fresh(m)}
Pending(ids) == {m \in ids : ~Negative(m) /\ ~Fresh(m)}
Cached(ids)  == [m \in {m \in ids : Negative(m)} \cup Hits(ids) |->
                   IF Negative(m) THEN Item(Gone, "hit", TRUE) ELSE Of(members[m], "hit")]

\* collectCached.
Collect(h, from, ids) ==
  /\ Step(h, from, IF Pending(ids) = {} THEN Answering(Cached(ids))
                   ELSE [call[h] EXCEPT !.pc = "acquire", !.ids = ids, !.key = Pending(ids), !.out = Cached(ids)])
  /\ Expire(ids)
  /\ UNCHANGED <<now, remoteVars, members, batchETags, inflight, tables, floor>>

Members(h, ids) == Collect(h, "idle", ids)

\* cachedMember; a miss asks for a batch of one.
LookUp(h, m) ==
  /\ Step(h, "idle", IF Pending({m}) = {} THEN Answering(Cached({m}))
                     ELSE [call[h] EXCEPT !.pc = "collect", !.ids = {m}])
  /\ Expire({m})
  /\ UNCHANGED <<now, remoteVars, members, batchETags, inflight, tables, floor>>

CollectMissed(h) == Collect(h, "collect", call[h].ids)

-----------------------------------------------------------------------------
(* Members: one flight per batch.                                          *)

Lead(h) ==
  LET key == call[h].key
  IN /\ Step(h, "acquire", [call[h] EXCEPT !.pc = "fetch", !.prev = batchETags[key]])
     /\ inflight[key] = NoCall
     /\ inflight' = [inflight EXCEPT ![key] = h]
     /\ UNCHANGED <<now, remoteVars, memberVars, tables, floor>>

Follow(h) ==
  /\ Step(h, "acquire", [call[h] EXCEPT !.pc = "wait", !.on = inflight[call[h].key]])
  /\ inflight[call[h].key] # NoCall
  /\ UNCHANGED <<now, remoteVars, memberVars, inflight, tables, floor>>

\* The context of a waiting call ends.
WaitCancelled(h) ==
  /\ Step(h, "wait", Refused)
  /\ UNCHANGED <<now, remoteVars, memberVars, inflight, tables, floor>>

\* The caller has its answer.
Return(h) ==
  /\ Step(h, "return", NewCall)
  /\ UNCHANGED <<now, remoteVars, memberVars, inflight, tables, floor>>

\* A follower takes what is cached, whatever its age.
Reread(h) ==
  LET got == {m \in call[h].key : members[m] # None}
  IN /\ Step(h, "reread", Answering(Also(call[h].out, [m \in got |-> Of(members[m], "shared")])))
     /\ UNCHANGED <<now, remoteVars, memberVars, inflight, tables, floor>>

\* The provider answers in full, or that the ETag still holds, or refuses
\* (401, 403, 404, a cancelled context), or cannot be reached (5xx).
Replies(prev, body) == (IF prev = body THEN {"same"} ELSE {"full"}) \cup {"refused", "unavailable"}

Exchange(h, from, to, tag, body, seen) ==
  /\ \E reply \in Replies(tag, body) :
       Step(h, from, [call[h] EXCEPT !.pc = to, !.reply = reply, !.seen = seen,
                                     !.body = IF reply = "full" THEN body ELSE None])
  /\ UNCHANGED <<now, remoteVars, memberVars, inflight, tables, floor>>

Fetch(h) ==
  LET key == call[h].key
  IN Exchange(h, "fetch", "land", call[h].prev, Restrict(directory, key), Restrict(version, key))

Closing(c, out) == [NewCall EXCEPT !.pc = "close", !.key = c.key, !.reply = c.reply, !.out = out]

LandFull(h) ==
  LET c     == call[h]
      found == {m \in c.key : c.body[m] # Gone}
  IN /\ c.pc = "land" /\ c.reply = "full"
     /\ batchETags' = [batchETags EXCEPT ![c.key] = c.body]
     /\ members' = [m \in Member |-> IF m \in found THEN Entry(c.body[m], c.seen[m], TRUE) ELSE members[m]]
     /\ negatives' = [m \in Member |-> IF m \in c.key \ found THEN now + NegativeTTL ELSE negatives[m]]
     /\ call' = [call EXCEPT ![h] = Closing(c, Also(c.out, [m \in c.key |-> Item(c.body[m], "fetched", TRUE)]))]
     /\ UNCHANGED <<now, remoteVars, inflight, tables, floor>>

\* 304: what is cached of the batch is stamped again.
LandSame(h) ==
  LET c    == call[h]
      kept == {m \in c.key : members[m] # None}
      again(m) == [members[m] EXCEPT !.fetched = now, !.sure = members[m].is = c.prev[m]]
  IN /\ c.pc = "land" /\ c.reply = "same"
     /\ members' = [m \in Member |-> IF m \in kept THEN again(m) ELSE members[m]]
     /\ call' = [call EXCEPT ![h] = Closing(c, Also(c.out, [m \in kept |-> Of(again(m), "fetched")]))]
     /\ UNCHANGED <<now, remoteVars, negatives, batchETags, inflight, tables, floor>>

\* Mutant of MayDegrade: old entries serve whatever their age.
DegradeForEver(e) == TRUE

MayDegrade(e) == StaleOnError > 0 /\ now - e.fetched <= StaleOnError

\* Only an unreachable directory is answered with old entries, and then only
\* with them.
LandFails(h) ==
  LET c   == call[h]
      old == {m \in c.key : members[m] # None /\ MayDegrade(members[m])}
  IN /\ c.pc = "land" /\ c.reply \in {"refused", "unavailable"}
     /\ call' = [call EXCEPT ![h] = IF c.reply = "unavailable" /\ old # {}
                                    THEN Closing(c, [m \in old |-> Of(members[m], "stale")])
                                    ELSE Closing(c, <<>>)]
     /\ UNCHANGED <<now, remoteVars, memberVars, inflight, tables, floor>>

Failed(c) == c.reply \in {"refused", "unavailable"} /\ c.out = <<>>

\* Mutant of Finishes: a leader that fails leaves its flight open.
FinishesWhenServed(h) == ~Failed(call[h])

Finishes(h) == TRUE

\* finishFlight, deferred: the followers go on.
Finish(h) ==
  LET c == call[h]
  IN /\ c.pc = "close"
     /\ call' = [w \in Call |->
          CASE w = h -> NewCall
            [] Finishes(h) /\ call[w].pc = "wait" /\ call[w].on = h -> [call[w] EXCEPT !.pc = "reread", !.on = NoCall]
            [] OTHER -> call[w]]
     /\ inflight' = IF Finishes(h) THEN [inflight EXCEPT ![c.key] = NoCall] ELSE inflight
     /\ UNCHANGED <<now, remoteVars, memberVars, tables, floor>>

-----------------------------------------------------------------------------
(* DepartmentTree and Roles: one entry with its ETag, and no single flight.*)

TableFresh(t) == tables[t] # None /\ now - tables[t].fetched < TableTTL

ReadTable(h, t) ==
  /\ Step(h, "idle", IF TableFresh(t) THEN Answering([x \in {t} |-> Of(tables[t], "hit")])
                     ELSE [call[h] EXCEPT !.pc = "table fetch", !.ids = {t}, !.prev = tables[t]])
  /\ UNCHANGED <<now, remoteVars, memberVars, inflight, tables, floor>>

TableFetch(h) ==
  \E t \in call[h].ids \cap Table :
    Exchange(h, "table fetch", "table land",
             IF call[h].prev = None THEN None ELSE call[h].prev.is, directory[t], version[t])

\* The entry that was read before the exchange answers for a 304, and for a
\* directory that cannot be reached; whoever comes last is kept.
TableLand(h) ==
  LET c == call[h]
      e == CASE c.reply = "full" -> Entry(c.body, c.seen, TRUE)
             [] c.reply = "same" -> [c.prev EXCEPT !.fetched = now]
             [] OTHER            -> c.prev
      degrades == c.reply = "unavailable" /\ c.prev # None /\ MayDegrade(c.prev)
      by == IF degrades THEN "stale" ELSE "fetched"
  IN /\ Step(h, "table land", IF c.reply \in {"full", "same"} \/ degrades
                              THEN Answering([t \in c.ids |-> Of(e, by)])
                              ELSE Refused)
     /\ tables' = IF c.reply \in {"full", "same"} THEN [t \in Table |-> IF t \in c.ids THEN e ELSE tables[t]]
                  ELSE tables
     /\ UNCHANGED <<now, remoteVars, memberVars, inflight, floor>>

-----------------------------------------------------------------------------
(* InvalidateMember, the provider and the clock.                           *)

\* Mutant of Dropped: only the negative entry is dropped.
DroppedNegative(m) == members

Dropped(m) == [members EXCEPT ![m] = None]

\* No answer about this member is on its way.
Quiet(m) == \A h \in Call : ~(call[h].pc = "land" /\ m \in call[h].key)

\* The ETags of the batches stay.
InvalidateMember(m) ==
  /\ members' = Dropped(m)
  /\ negatives' = [negatives EXCEPT ![m] = 0]
  /\ floor' = IF Quiet(m) THEN [floor EXCEPT ![m] = version[m]] ELSE floor
  /\ UNCHANGED <<now, remoteVars, batchETags, inflight, tables, call>>

Change(x) ==
  /\ \E c \in IF x \in Member THEN Content \cup {Gone} ELSE Content :
       c # directory[x] /\ directory' = [directory EXCEPT ![x] = c]
  /\ left' = [left EXCEPT ![x][directory[x]] = now]
  /\ version' = [version EXCEPT ![x] = @ + 1]
  /\ UNCHANGED <<now, memberVars, inflight, tables, call, floor>>

\* An HTTP exchange times out in less than a unit of the clock.
Tick ==
  /\ now < MaxTime
  /\ \A h \in Call : call[h].pc \notin {"land", "table land"}
  /\ now' = now + 1
  /\ UNCHANGED <<remoteVars, memberVars, inflight, tables, call, floor>>

Land(h)    == LandFull(h) \/ LandSame(h) \/ LandFails(h)
Proceed(h) == \/ CollectMissed(h) \/ Return(h) \/ Lead(h) \/ Follow(h) \/ Reread(h)
              \/ Fetch(h) \/ Land(h) \/ Finish(h) \/ TableFetch(h) \/ TableLand(h)

Next ==
  \/ \E h \in Call, ids \in Batch : Members(h, ids)
  \/ \E h \in Call, m \in Member : LookUp(h, m)
  \/ \E h \in Call, t \in Table : ReadTable(h, t)
  \/ \E h \in Call : Proceed(h) \/ WaitCancelled(h)
  \/ \E m \in Member : InvalidateMember(m)
  \/ \E x \in Thing : Change(x)
  \/ Tick

Spec == Init /\ [][Next]_vars

-----------------------------------------------------------------------------
(* Properties.                                                             *)

\* One flight per batch: it belongs to the one call that leads it and has not
\* yet closed it, and every follower waits for such a call; so no follower is
\* left waiting when a leader ends, however it ends.
OneFlight ==
  /\ \A b \in Batch, h \in Call :
       inflight[b] = h <=> call[h].pc \in {"fetch", "land", "close"} /\ call[h].key = b
  /\ \A h \in Call : call[h].pc = "wait" => inflight[call[h].key] = call[h].on

LastTrue(x, c) == IF directory[x] = c THEN now ELSE left[x][c]

Limit(x, item) ==
  IF item.by = "stale" THEN StaleOnError
  ELSE IF item.is = Gone THEN NegativeTTL
  ELSE IF x \in Table THEN TableTTL ELSE MemberTTL

Recent(h, x) ==
  LET item == call[h].out[x]
  IN /\ LastTrue(x, item.is) # 0
     /\ item.at - LastTrue(x, item.is) <= Limit(x, item)

\* What an answer says was true no longer ago than the lifetime of its kind
\* allows, leaving aside what a follower takes unseen and what a 304 stamped
\* again without confirming it.
FreshAnswers ==
  \A h \in Call : call[h].pc \in {"return", "close"} =>
    \A x \in DOMAIN call[h].out :
      call[h].out[x].by # "shared" /\ call[h].out[x].sure => Recent(h, x)

\* Once a member has been invalidated and no answer about it was on its way,
\* nothing older than the invalidation is cached.
InvalidationHeard ==
  \A m \in Member : members[m] # None => members[m].version >= floor[m]
=============================================================================
